----------------------------- MODULE PluginRest -----------------------------
(***************************************************************************)
(* The hub's plugin REST scope, gu-hub/src/plugins/rest.rs: the routes of  *)
(* `scope`, the handlers list_scope, install_scope, dev_scope, state_scope  *)
(* and file_scope, and the requests the CLI functions list_query and       *)
(* dev_query send to it.                                                   *)
(*                                                                         *)
(* The handlers keep no state between requests: each one translates a     *)
(* request into a message to the PluginManager actor and its answer into   *)
(* an HTTP reply.  The model serves one request at a time in three steps:  *)
(* the request arrives, the route and the synchronous part of the handler  *)
(* run (Dispatch), and the manager's answer is turned into the reply       *)
(* (Answer).  A path is the sequence of its segments after the scope's     *)
(* prefix /plug.  The PluginManager is not in the sources: it answers each *)
(* message with Ok, with an error, or the send fails with a MailboxError.  *)
(***************************************************************************)
EXTENDS Naturals, SequencesExt

CONSTANTS
  Seg,        \* path segments: plugin names, keywords, file names
  Ext,        \* Ext[s]: Path::extension of file name s, or "" for none
  MaxDepth,   \* longest request path, in segments
  DevDir      \* canonical directories dev_query may be given, as segments

ASSUME PluginRestAssumption ==
  /\ {"dev", "activate", "inactivate"} \subseteq Seg
  /\ Ext \in [Seg -> STRING]
  /\ MaxDepth \in Nat
  /\ DevDir \subseteq Seq(Seg)

Path == UNION {[1..n -> Seg] : n \in 0..MaxDepth}
Method == {"GET", "POST"}
\* Where a request comes from: the two CLI queries, or any HTTP client.
Origin == {"list_query", "dev_query", "client"}
Request == [method: Method, path: Path, from: Origin]

\* list_query: GET /plug.  dev_query: GET /plug/dev<canonical path>.
CliRequests ==
  {[method |-> "GET", path |-> <<>>, from |-> "list_query"]} \cup
  {[method |-> "GET", path |-> <<"dev">> \o d, from |-> "dev_query"] :
     d \in {x \in DevDir : Len(x) + 1 <= MaxDepth}}

\* The scope's resources in registration order; a resource matches a path
\* by its pattern alone, {name} is one segment and {name:.*} the rest.
Matching(path) ==
  {i \in 1..5 :
     \/ i = 1 /\ path = <<>>
     \/ i = 2 /\ Len(path) >= 2 /\ path[1] = "dev"
     \/ i = 3 /\ Len(path) = 2 /\ path[2] = "activate"
     \/ i = 4 /\ Len(path) = 2 /\ path[2] = "inactivate"
     \/ i = 5 /\ Len(path) >= 2}

\* The routes of each resource, by method.
Routes ==
  << [m \in {"GET", "POST"} |-> IF m = "GET" THEN "list" ELSE "install"],
     [m \in {"POST"} |-> "dev"],
     [m \in {"POST"} |-> "activate"],
     [m \in {"POST"} |-> "inactivate"],
     [m \in {"GET"} |-> "file"] >>

\* The handler the first matching resource gives the request's method; a
\* path no resource matches, or a method its resource has no route for,
\* is answered 404 by actix.
Handler(req) ==
  IF Matching(req.path) = {} THEN "none"
  ELSE LET r == Routes[Min(Matching(req.path))]
       IN  IF req.method \in DOMAIN r THEN r[req.method] ELSE "none"

\* ContentType::from and to_string.
ContentType(e) ==
  CASE e = "js"   -> "application/javascript"
    [] e = "html" -> "text/html"
    [] e = "svg"  -> "image/svg+xml"
    [] OTHER      -> "Content type not supported"
Supported == {"js", "html", "svg"}

NoReq == [method |-> "GET", path |-> <<>>, from |-> "none"]
NoMsg == [kind |-> "none", plugin |-> "", path |-> <<>>]
NoReply == [status |-> 0, ctype |-> "", body |-> <<>>]

VARIABLES
  cur,      \* the request being served
  phase,    \* routed (arrived), waiting (sent to the manager), done
  msg,      \* the message sent to the PluginManager
  outcome,  \* the manager's answer: "ok", "err" or "mailbox" (history)
  reply     \* the HTTP reply

vars == <<cur, phase, msg, outcome, reply>>

Msg == [kind: {"none", "list", "install", "dev", "activate", "inactivate",
               "file"}, plugin: Seg \cup {""}, path: Path]
Reply == [status: {0, 200, 400, 404, 500}, ctype: STRING, body: Seq(Seg)]

TypeOK ==
  /\ cur \in Request \cup {NoReq}
  /\ phase \in {"routed", "waiting", "done"}
  /\ msg \in Msg
  /\ outcome \in {"none", "ok", "err", "mailbox"}
  /\ reply \in Reply

Init ==
  /\ cur = NoReq
  /\ phase = "done"
  /\ msg = NoMsg
  /\ outcome = "none"
  /\ reply = NoReply

\* A request reaches the hub: from the CLI queries or any client.
Receive(req) ==
  /\ phase = "done"
  /\ cur' = req
  /\ phase' = "routed"
  /\ msg' = NoMsg
  /\ outcome' = "none"
  /\ reply' = NoReply

Reject(status) ==
  /\ reply' = [NoReply EXCEPT !.status = status]
  /\ phase' = "done"
  /\ UNCHANGED msg

Send(m) == msg' = m /\ phase' = "waiting" /\ UNCHANGED reply

\* list_scope sends ListPlugins.
ListScope == Send([NoMsg EXCEPT !.kind = "list"])

\* install_scope reads the payload (a read error is a bad request) and
\* sends InstallPlugin.
InstallScope == Reject(400) \/ Send([NoMsg EXCEPT !.kind = "install"])

\* state_scope sends ChangePluginState {plugin, state}.
StateScope(state, name) == Send([NoMsg EXCEPT !.kind = state, !.plugin = name])

\* Mutant: dev_scope installs from the whole matched path, /dev included.
DevScopeFullPath(dir) == Send([NoMsg EXCEPT !.kind = "dev", !.path = <<"dev">> \o dir])

\* dev_scope sends InstallDevPlugin for /<pluginPath>.
DevScope(dir) == Send([NoMsg EXCEPT !.kind = "dev", !.path = dir])

\* Mutant: file_scope sends the request whatever the extension.
FileScopeAnyExt(p) ==
  IF Ext[Last(p)] = "" THEN Reject(400)
  ELSE Send([kind |-> "file", plugin |-> p[1], path |-> Tail(p)])

\* file_scope: a file name with no extension, or one ContentType does not
\* support, is a bad request; otherwise PluginFile {plugin, path} is sent.
FileScope(p) ==
  IF Ext[Last(p)] \notin Supported THEN Reject(400)
  ELSE Send([kind |-> "file", plugin |-> p[1], path |-> Tail(p)])

\* The route and the synchronous part of the handler it selects.
Dispatch ==
  /\ phase = "routed"
  /\ LET h == Handler(cur) IN
     CASE h = "none"    -> Reject(404)
       [] h = "list"    -> ListScope
       [] h = "install" -> InstallScope
       [] h = "dev"     -> DevScope(Tail(cur.path))
       [] h \in {"activate", "inactivate"} -> StateScope(h, cur.path[1])
       [] h = "file"    -> FileScope(cur.path)
  /\ UNCHANGED <<cur, outcome>>

Status(n) == [NoReply EXCEPT !.status = n]

\* file_scope's continuation: both errors are a 500, the file a 200 with
\* the content type of its extension.
FileReply(m, o) ==
  IF o # "ok" THEN Status(500)
  ELSE [status |-> 200, ctype |-> ContentType(Ext[Last(m.path)]),
        body |-> <<m.plugin>> \o m.path]

\* The continuation of list_scope, install_scope, state_scope and
\* dev_scope: a MailboxError is an error, anything the manager answered
\* is a 200 (the answer itself is not looked at).
AckReply(o) == IF o = "mailbox" THEN Status(500) ELSE Status(200)

\* The manager answers the message (ListPlugins cannot fail; the others
\* can) and the handler's continuation builds the reply.
Answer ==
  /\ phase = "waiting"
  /\ \E o \in IF msg.kind = "list" THEN {"ok", "mailbox"}
              ELSE {"ok", "err", "mailbox"} :
       /\ outcome' = o
       /\ reply' = IF msg.kind = "file" THEN FileReply(msg, o) ELSE AckReply(o)
  /\ phase' = "done"
  /\ UNCHANGED <<cur, msg>>

Next ==
  \/ \E req \in CliRequests \cup [method: Method, path: Path, from: {"client"}] :
       Receive(req)
  \/ Dispatch
  \/ Answer

Spec == Init /\ [][Next]_vars

-----------------------------------------------------------------------------
(* Properties                                                              *)

\* A 200 reply to a file request carries the file the manager returned for
\* exactly the plugin and path of the URL, with the content type of the
\* file name's extension, which is one ContentType supports.
FileReplyFaithful ==
  phase = "done" /\ Handler(cur) = "file" /\ reply.status = 200 =>
    /\ outcome = "ok"
    /\ Ext[Last(cur.path)] \in Supported
    /\ reply.ctype = ContentType(Ext[Last(cur.path)])
    /\ reply.body = cur.path

\* The messages the API's URLs name: GET and POST of the scope's root list
\* and install plugins, POST /dev/<dir> installs from /<dir>, POST
\* /<name>/activate and /<name>/inactivate change plugin <name>, and GET
\* /<name>/<file> reads a file of plugin <name>.
Intended(req) ==
  LET p == req.path IN
  { m \in Msg :
     \/ req.method = "GET" /\ p = <<>> /\ m = [NoMsg EXCEPT !.kind = "list"]
     \/ req.method = "POST" /\ p = <<>> /\ m = [NoMsg EXCEPT !.kind = "install"]
     \/ /\ req.method = "POST" /\ Len(p) >= 2 /\ p[1] = "dev"
        /\ m = [NoMsg EXCEPT !.kind = "dev", !.path = Tail(p)]
     \/ /\ req.method = "POST" /\ Len(p) = 2
        /\ p[2] \in {"activate", "inactivate"}
        /\ m = [NoMsg EXCEPT !.kind = p[2], !.plugin = p[1]]
     \/ /\ req.method = "GET" /\ Len(p) >= 2
        /\ m = [kind |-> "file", plugin |-> p[1], path |-> Tail(p)] }

\* Every message the scope sends the PluginManager is one the request's
\* method and URL name: the first-match routing of `scope` and the
\* handlers never act on another plugin, state or path than the URL's.
MessageFaithful ==
  phase \in {"waiting", "done"} /\ msg # NoMsg => msg \in Intended(cur)

\* The request dev_query sends (gu-hub plugin dev <dir>) reaches dev_scope,
\* which installs the plugin from that directory.
DevQueryRouted ==
  cur.from = "dev_query" => Handler(cur) = "dev"

\* A 200 reply to an install, dev install or state change means the
\* PluginManager carried it out.
OkMeansApplied ==
  phase = "done" /\ reply.status = 200 => outcome = "ok"
=============================================================================

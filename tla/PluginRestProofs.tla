-------------------------- MODULE PluginRestProofs --------------------------
(***************************************************************************)
(* Proofs about the hub's plugin REST scope, for every set of segments,    *)
(* every extension map, every path depth and every set of plugin           *)
(* directories: the messages the routing sends are the ones the URL names  *)
(* (MessageFaithful).                                                      *)
(***************************************************************************)
EXTENDS PluginRest, SequenceTheorems, TLAPS

USE PluginRestAssumption

\* A path is a sequence of segments no longer than MaxDepth.
LEMMA PathSeq ==
  ASSUME NEW p
  PROVE  p \in Path <=> p \in Seq(Seg) /\ Len(p) <= MaxDepth
<1>1. ASSUME p \in Path PROVE p \in Seq(Seg) /\ Len(p) <= MaxDepth
  <2>1. PICK n \in 0..MaxDepth : p \in [1..n -> Seg]
    BY <1>1 DEF Path
  <2>2. p \in Seq(Seg) /\ Len(p) = n
    BY <2>1
  <2>3. QED
    BY <2>2
<1>2. ASSUME p \in Seq(Seg), Len(p) <= MaxDepth PROVE p \in Path
  <2>1. p \in [1..Len(p) -> Seg] /\ Len(p) \in 0..MaxDepth
    BY <1>2
  <2>2. QED
    BY <2>1 DEF Path
<1>3. QED
  BY <1>1, <1>2

\* The resource a request is routed to is one of those that match it.
LEMMA FirstMatch ==
  ASSUME NEW path, Matching(path) # {}
  PROVE  Min(Matching(path)) \in Matching(path)
<1> DEFINE M == Matching(path)
<1>1. M \subseteq 1..5
  BY DEF Matching
<1>2. \E i \in M : \A j \in M : i <= j
  <2>1. CASE 1 \in M
    BY <1>1, <2>1
  <2>2. CASE 1 \notin M /\ 2 \in M
    BY <1>1, <2>2
  <2>3. CASE 1 \notin M /\ 2 \notin M /\ 3 \in M
    BY <1>1, <2>3
  <2>4. CASE 1 \notin M /\ 2 \notin M /\ 3 \notin M /\ 4 \in M
    BY <1>1, <2>4
  <2>5. CASE 1 \notin M /\ 2 \notin M /\ 3 \notin M /\ 4 \notin M
    BY <1>1, <2>5
  <2>6. QED
    BY <2>1, <2>2, <2>3, <2>4, <2>5
<1>3. QED
  BY <1>2 DEF Min

\* The routes of the scope, resource by resource.
LEMMA RoutesTable ==
  /\ DOMAIN Routes[1] = {"GET", "POST"}
  /\ Routes[1]["GET"] = "list" /\ Routes[1]["POST"] = "install"
  /\ DOMAIN Routes[2] = {"POST"} /\ Routes[2]["POST"] = "dev"
  /\ DOMAIN Routes[3] = {"POST"} /\ Routes[3]["POST"] = "activate"
  /\ DOMAIN Routes[4] = {"POST"} /\ Routes[4]["POST"] = "inactivate"
  /\ DOMAIN Routes[5] = {"GET"} /\ Routes[5]["GET"] = "file"
BY DEF Routes

\* The handlers a request can reach.
LEMMA HandlerRange ==
  ASSUME NEW req
  PROVE  Handler(req) \in
           {"none", "list", "install", "dev", "activate", "inactivate", "file"}
<1>1. CASE Matching(req.path) = {}
  BY <1>1 DEF Handler
<1>2. CASE Matching(req.path) # {}
  <2>1. Min(Matching(req.path)) \in 1..5
    BY <1>2, FirstMatch DEF Matching
  <2>2. QED
    BY <1>2, <2>1, RoutesTable DEF Handler
<1>3. QED
  BY <1>1, <1>2

\* What the handler a request reaches says of its method and path.
LEMMA HandlerFacts ==
  ASSUME NEW req \in Request
  PROVE  LET h == Handler(req)
             p == req.path
         IN  /\ h = "list" => req.method = "GET" /\ p = <<>>
             /\ h = "install" => req.method = "POST" /\ p = <<>>
             /\ h = "dev" => req.method = "POST" /\ Len(p) >= 2 /\ p[1] = "dev"
             /\ h \in {"activate", "inactivate"} =>
                  req.method = "POST" /\ Len(p) = 2 /\ p[2] = h
             /\ h = "file" => req.method = "GET" /\ Len(p) >= 2
<1> DEFINE p == req.path
           M == Matching(p)
           i == Min(M)
<1>1. p \in Seq(Seg)
  BY PathSeq DEF Request
<1>2. CASE M = {}
  BY <1>2 DEF Handler
<1>3. CASE M # {}
  <2>1. i \in M
    BY <1>3, FirstMatch
  <2>2. Handler(req) = IF req.method \in DOMAIN Routes[i]
                         THEN Routes[i][req.method] ELSE "none"
    BY <1>3 DEF Handler
  <2>3. req.method \in {"GET", "POST"}
    BY DEF Request, Method
  <2>4. QED
    BY <1>1, <2>1, <2>2, <2>3, RoutesTable DEF Matching
<1>4. QED
  BY <1>2, <1>3

\* The rest of a path after its first segment is a path.
LEMMA TailPath ==
  ASSUME NEW p \in Path, Len(p) >= 1
  PROVE  Tail(p) \in Path /\ Tail(p) \in Seq(Seg)
<1>1. p \in Seq(Seg) /\ Len(p) <= MaxDepth
  BY PathSeq
<1>2. Tail(p) \in Seq(Seg) /\ Len(Tail(p)) <= MaxDepth
  BY <1>1
<1>3. QED
  BY <1>2, PathSeq

-----------------------------------------------------------------------------
(* MessageFaithful                                                         *)

\* The invariant: a request being served came in through Receive, and a
\* request not yet dispatched has sent nothing.
MInv ==
  /\ cur \in Request \cup {NoReq}
  /\ phase \in {"routed", "waiting", "done"}
  /\ phase # "done" => cur \in Request
  /\ phase = "routed" => msg = NoMsg
  /\ MessageFaithful

LEMMA InitMInv == Init => MInv
BY DEF Init, MInv, MessageFaithful

\* The requests the CLI queries send are requests of the API.
LEMMA ReceiveMInv ==
  ASSUME MInv,
         NEW req \in CliRequests \cup [method: Method, path: Path, from: {"client"}],
         Receive(req)
  PROVE  MInv'
<1>1. req \in Request
  <2>1. CASE req \in CliRequests
    <3>1. CASE req = [method |-> "GET", path |-> <<>>, from |-> "list_query"]
      <4>1. <<>> \in Path
        <5>1. <<>> \in Seq(Seg) /\ Len(<<>>) <= MaxDepth
          OBVIOUS
        <5>2. QED
          BY <5>1, PathSeq
      <4>2. QED
        BY <3>1, <4>1 DEF Request, Method, Origin
    <3>2. CASE \E d \in {x \in DevDir : Len(x) + 1 <= MaxDepth} :
                 req = [method |-> "GET", path |-> <<"dev">> \o d, from |-> "dev_query"]
      <4>1. PICK d \in DevDir : Len(d) + 1 <= MaxDepth
                  /\ req = [method |-> "GET", path |-> <<"dev">> \o d, from |-> "dev_query"]
        BY <3>2
      <4>2. d \in Seq(Seg) /\ "dev" \in Seg
        BY <4>1
      <4>3. <<"dev">> \o d \in Seq(Seg) /\ Len(<<"dev">> \o d) <= MaxDepth
        BY <4>1, <4>2
      <4>4. QED
        BY <4>1, <4>3, PathSeq DEF Request, Method, Origin
    <3>3. QED
      BY <2>1, <3>1, <3>2 DEF CliRequests
  <2>2. CASE req \in [method: Method, path: Path, from: {"client"}]
    BY <2>2 DEF Request, Origin
  <2>3. QED
    BY <2>1, <2>2
<1>2. QED
  BY <1>1 DEF Receive, MInv, MessageFaithful

\* The manager's answer changes neither the request nor the message.
LEMMA AnswerMInv ==
  ASSUME MInv, Answer
  PROVE  MInv'
BY DEF Answer, MInv, MessageFaithful

\* The route and the handler send the message the URL names, or reject
\* the request and send nothing.
LEMMA DispatchMInv ==
  ASSUME MInv, Dispatch
  PROVE  MInv'
<1> DEFINE h == Handler(cur)
           p == cur.path
<1>1. phase = "routed" /\ cur \in Request /\ msg = NoMsg /\ UNCHANGED cur
  BY DEF Dispatch, MInv
<1>2. p \in Path /\ p \in Seq(Seg)
  BY <1>1, PathSeq DEF Request
<1>3. /\ h = "list" => cur.method = "GET" /\ p = <<>>
      /\ h = "install" => cur.method = "POST" /\ p = <<>>
      /\ h = "dev" => cur.method = "POST" /\ Len(p) >= 2 /\ p[1] = "dev"
      /\ h \in {"activate", "inactivate"} =>
           cur.method = "POST" /\ Len(p) = 2 /\ p[2] = h
      /\ h = "file" => cur.method = "GET" /\ Len(p) >= 2
  BY <1>1, HandlerFacts
<1>0. h \in {"none", "list", "install", "dev", "activate", "inactivate", "file"}
  BY <1>1, HandlerRange
<1>4. phase' \in {"waiting", "done"}
  BY <1>0 DEF Dispatch, Reject, Send, ListScope, InstallScope, StateScope,
     DevScope, FileScope
\* What is left to show: the message sent, if any, is intended.
<1> SUFFICES msg' = NoMsg \/ msg' \in Intended(cur)
  BY <1>1, <1>4 DEF MInv, MessageFaithful
<1>5. NoMsg \in Msg
  <2>1. <<>> \in Path
    <3>1. <<>> \in Seq(Seg) /\ Len(<<>>) <= MaxDepth
      OBVIOUS
    <3>2. QED
      BY <3>1, PathSeq
  <2>2. QED
    BY <2>1 DEF NoMsg, Msg
<1>6. CASE h = "none"
  BY <1>1, <1>6 DEF Dispatch, Reject
<1>7. CASE h = "list"
  <2>1. msg' = [NoMsg EXCEPT !.kind = "list"]
    BY <1>7 DEF Dispatch, ListScope, Send
  <2>2. QED
    BY <1>3, <1>5, <1>7, <2>1 DEF Intended, Msg, NoMsg
<1>8. CASE h = "install"
  <2>1. msg' = NoMsg \/ msg' = [NoMsg EXCEPT !.kind = "install"]
    BY <1>1, <1>8 DEF Dispatch, InstallScope, Send, Reject
  <2>2. QED
    BY <1>3, <1>5, <1>8, <2>1 DEF Intended, Msg, NoMsg
<1>9. CASE h = "dev"
  <2>1. msg' = [NoMsg EXCEPT !.kind = "dev", !.path = Tail(p)]
    BY <1>9 DEF Dispatch, DevScope, Send
  <2>2. Tail(p) \in Path
    BY <1>2, <1>3, <1>9, TailPath
  <2>3. QED
    BY <1>3, <1>9, <2>1, <2>2 DEF Intended, Msg, NoMsg
<1>10. CASE h \in {"activate", "inactivate"}
  <2>1. msg' = [NoMsg EXCEPT !.kind = h, !.plugin = p[1]]
    BY <1>10 DEF Dispatch, StateScope, Send
  <2>2. p[1] \in Seg /\ <<>> \in Path
    BY <1>2, <1>3, <1>5, <1>10 DEF NoMsg, Msg
  <2>3. QED
    BY <1>3, <1>10, <2>1, <2>2 DEF Intended, Msg, NoMsg
<1>11. CASE h = "file"
  <2>1. msg' = NoMsg \/ msg' = [kind |-> "file", plugin |-> p[1], path |-> Tail(p)]
    BY <1>1, <1>11 DEF Dispatch, FileScope, Send, Reject
  <2>2. p[1] \in Seg /\ Tail(p) \in Path
    BY <1>2, <1>3, <1>11, TailPath
  <2>3. CASE msg' = [kind |-> "file", plugin |-> p[1], path |-> Tail(p)]
    <3>1. msg' \in Msg
      BY <2>2, <2>3 DEF Msg
    <3>2. cur.method = "GET" /\ Len(p) >= 2
      BY <1>3, <1>11
    <3>3. QED
      BY <2>3, <3>1, <3>2 DEF Intended
  <2>4. QED
    BY <2>1, <2>3
<1>12. QED
  BY <1>0, <1>6, <1>7, <1>8, <1>9, <1>10, <1>11

\* The hub's plugin scope sends the PluginManager only messages that its
\* request's method and URL name, for every set of plugin names, path
\* depth and directory: the first-match routing of scope and the handlers
\* never act on another plugin, state or path than the URL's.
THEOREM MessageFaithfulHolds == Spec => []MessageFaithful
<1>1. Init => MInv
  BY InitMInv
<1>2. MInv /\ [Next]_vars => MInv'
  <2> SUFFICES ASSUME MInv, [Next]_vars PROVE MInv'
    OBVIOUS
  <2>1. ASSUME NEW req \in CliRequests \cup [method: Method, path: Path, from: {"client"}],
               Receive(req)
        PROVE  MInv'
    BY <2>1, ReceiveMInv
  <2>2. CASE Dispatch
    BY <2>2, DispatchMInv
  <2>3. CASE Answer
    BY <2>3, AnswerMInv
  <2>4. CASE UNCHANGED vars
    BY <2>4 DEF vars, MInv, MessageFaithful
  <2>5. QED
    BY <2>1, <2>2, <2>3, <2>4 DEF Next
<1>3. MInv => MessageFaithful
  BY DEF MInv
<1>4. QED
  BY <1>1, <1>2, <1>3, PTL DEF Spec

-----------------------------------------------------------------------------
(* FileReplyFaithful                                                       *)

\* The file a file_scope request names: the first segment is the plugin,
\* the rest its path, whose last segment is the file name.
LEMMA FileOfPath ==
  ASSUME NEW p \in Seq(Seg), Len(p) >= 2
  PROVE  /\ <<p[1]>> \o Tail(p) = p
         /\ Last(Tail(p)) = Last(p)
<1>1. Tail(p) \in Seq(Seg) /\ Len(Tail(p)) = Len(p) - 1
      /\ \A i \in 1..Len(Tail(p)) : Tail(p)[i] = p[i + 1]
  BY HeadTailProperties
<1>2. <<p[1]>> \o Tail(p) \in Seq(Seg) /\ Len(<<p[1]>> \o Tail(p)) = Len(p)
  BY <1>1
<1>3. \A i \in 1..Len(p) : (<<p[1]>> \o Tail(p))[i] = p[i]
  BY <1>1
<1>4. <<p[1]>> \o Tail(p) = p
  BY <1>2, <1>3, SeqEqual
<1>5. Last(Tail(p)) = Last(p)
  BY <1>1 DEF Last
<1>6. QED
  BY <1>4, <1>5

\* The invariant: no reply before the handler has answered, and a file
\* request waiting for the manager asked for a file with a supported
\* extension.
FInv ==
  /\ MInv
  /\ phase # "done" => reply = NoReply
  /\ phase = "waiting" /\ Handler(cur) = "file" =>
       msg.kind = "file" /\ Ext[Last(cur.path)] \in Supported
  /\ FileReplyFaithful

LEMMA InitFInv == Init => FInv
<1> SUFFICES ASSUME Init PROVE FInv
  OBVIOUS
<1>1. MInv
  BY InitMInv
<1>2. phase = "done" /\ reply.status = 0
  BY DEF Init, NoReply
<1>3. QED
  BY <1>1, <1>2 DEF FInv, FileReplyFaithful

LEMMA ReceiveFInv ==
  ASSUME FInv,
         NEW req \in CliRequests \cup [method: Method, path: Path, from: {"client"}],
         Receive(req)
  PROVE  FInv'
BY ReceiveMInv DEF FInv, Receive, FileReplyFaithful, NoReply

LEMMA DispatchFInv ==
  ASSUME FInv, Dispatch
  PROVE  FInv'
<1> DEFINE h == Handler(cur)
           p == cur.path
<1>1. MInv'
  BY DispatchMInv DEF FInv
<1>0. h \in {"none", "list", "install", "dev", "activate", "inactivate", "file"}
  BY HandlerRange
<1> SUFFICES /\ phase' # "done" => reply' = NoReply
             /\ phase' = "waiting" /\ Handler(cur') = "file" =>
                  msg'.kind = "file" /\ Ext[Last(cur'.path)] \in Supported
             /\ FileReplyFaithful'
  BY <1>1 DEF FInv
<1>2. phase = "routed" /\ UNCHANGED cur
  BY DEF Dispatch, FInv, MInv
<1>3. CASE h = "file"
  <2>1. CASE Ext[Last(p)] \notin Supported
    <3>1. reply'.status = 400 /\ phase' = "done"
      BY <1>3, <2>1 DEF Dispatch, FileScope, Reject, NoReply
    <3>2. QED
      BY <3>1 DEF FileReplyFaithful
  <2>2. CASE Ext[Last(p)] \in Supported
    <3>1. msg'.kind = "file" /\ phase' = "waiting" /\ reply' = reply
      BY <1>3, <2>2 DEF Dispatch, FileScope, Send
    <3>2. QED
      BY <1>2, <1>3, <2>2, <3>1 DEF FInv, FileReplyFaithful
  <2>3. QED
    BY <2>1, <2>2
<1>4. CASE h # "file"
  <2>1. phase' = "waiting" => reply' = reply
    BY <1>0, <1>4 DEF Dispatch, Reject, Send, ListScope, InstallScope, StateScope,
       DevScope
  <2>2. phase' \in {"waiting", "done"}
    BY <1>0, <1>4 DEF Dispatch, Reject, Send, ListScope, InstallScope, StateScope,
       DevScope
  <2>3. reply = NoReply
    BY <1>2 DEF FInv
  <2>4. Handler(cur') # "file"
    BY <1>2, <1>4
  <2>5. QED
    BY <2>1, <2>2, <2>3, <2>4 DEF FileReplyFaithful
<1>5. QED
  BY <1>3, <1>4

LEMMA AnswerFInv ==
  ASSUME FInv, Answer
  PROVE  FInv'
<1> DEFINE p == cur.path
<1>1. MInv'
  BY AnswerMInv DEF FInv
<1>2. phase = "waiting" /\ phase' = "done" /\ UNCHANGED <<cur, msg>>
  BY DEF Answer
<1>3. CASE Handler(cur) = "file"
  <2>1. msg.kind = "file" /\ Ext[Last(p)] \in Supported
    BY <1>2, <1>3 DEF FInv
  <2>2. msg # NoMsg
    <3>1. NoMsg.kind = "none"
      BY DEF NoMsg
    <3>2. QED
      BY <2>1, <3>1
  <2>3. msg \in Intended(cur)
    BY <1>2, <2>2 DEF FInv, MInv, MessageFaithful
  <2>4. cur.method = "GET" /\ Len(p) >= 2
        /\ msg = [kind |-> "file", plugin |-> p[1], path |-> Tail(p)]
    BY <2>1, <2>3 DEF Intended, NoMsg
  <2>5. p \in Seq(Seg)
    BY <1>2, PathSeq DEF FInv, MInv, Request
  <2>6. <<p[1]>> \o Tail(p) = p /\ Last(Tail(p)) = Last(p)
    BY <2>4, <2>5, FileOfPath
  <2>7. PICK o \in {"ok", "err", "mailbox"} :
          outcome' = o /\ reply' = FileReply(msg, o)
    BY <2>1 DEF Answer
  <2>0. Status(500).status = 500
    BY DEF Status, NoReply
  <2>8. reply'.status = 200 =>
          /\ outcome' = "ok"
          /\ reply'.ctype = ContentType(Ext[Last(p)])
          /\ reply'.body = p
    <3>1. CASE o # "ok"
      BY <2>0, <2>7, <3>1 DEF FileReply
    <3>2. CASE o = "ok"
      <4>1. reply' = [status |-> 200, ctype |-> ContentType(Ext[Last(Tail(p))]),
                      body |-> <<p[1]>> \o Tail(p)]
        BY <2>4, <2>7, <3>2 DEF FileReply
      <4>2. QED
        BY <2>6, <2>7, <3>2, <4>1
    <3>5. QED
      BY <3>1, <3>2
  <2>9. QED
    BY <1>1, <1>2, <2>1, <2>8 DEF FInv, FileReplyFaithful
<1>4. CASE Handler(cur) # "file"
  BY <1>1, <1>2, <1>4 DEF FInv, FileReplyFaithful
<1>5. QED
  BY <1>3, <1>4

\* A 200 reply of file_scope carries exactly the file the URL names, from
\* the plugin the URL names, with the content type of the file name's
\* extension, which is one ContentType supports, for every set of plugin
\* names, file names and extensions.
THEOREM FileReplyFaithfulHolds == Spec => []FileReplyFaithful
<1>1. Init => FInv
  BY InitFInv
<1>2. FInv /\ [Next]_vars => FInv'
  <2> SUFFICES ASSUME FInv, [Next]_vars PROVE FInv'
    OBVIOUS
  <2>1. ASSUME NEW req \in CliRequests \cup [method: Method, path: Path, from: {"client"}],
               Receive(req)
        PROVE  FInv'
    BY <2>1, ReceiveFInv
  <2>2. CASE Dispatch
    BY <2>2, DispatchFInv
  <2>3. CASE Answer
    BY <2>3, AnswerFInv
  <2>4. CASE UNCHANGED vars
    BY <2>4 DEF vars, FInv, MInv, MessageFaithful, FileReplyFaithful
  <2>5. QED
    BY <2>1, <2>2, <2>3, <2>4 DEF Next
<1>3. FInv => FileReplyFaithful
  BY DEF FInv
<1>4. QED
  BY <1>1, <1>2, <1>3, PTL DEF Spec
=============================================================================

------------------------------- MODULE HdMan -------------------------------
(***************************************************************************)
(* The host-direct manager actor HdMan of gu-provider/src/hdman.rs with    *)
(* its deploy registry (DeployManager<SessionInfo>), the CreateSession,    *)
(* SessionUpdate and DestroySession handlers, the command pipeline that    *)
(* SessionUpdate builds, and the periodic scan_for_processes reaper.       *)
(*                                                                         *)
(* The actor runs one closure at a time: a handler, or one link of an      *)
(* ActorFuture chain.  Control returns to the actor's scheduler only at    *)
(* the suspension points of the code: the image download and unpack of     *)
(* CreateSession, an Exec or a Kill sent to SyncExecManager, and the HTTP  *)
(* transfers of DownloadFile and UploadFile.  Each action below is the     *)
(* code that runs between two such points, so that every interleaving the *)
(* scheduler can produce is a behaviour of this specification.             *)
(***************************************************************************)
EXTENDS SessionInfo, Sequences

CONSTANTS
  SessionId,   \* ids generate_session_id may hand out
  NoSession,   \* the session field of an unused request slot
  Pipelines,   \* the command lists SessionUpdate requests may carry
  MaxReq,      \* bound on the number of SessionUpdate requests
  MaxCreate,   \* bound on the number of CreateSession requests
  ReuseIds     \* TRUE: an id may be handed out again once its session is gone

\* The commands of gu_model::envman::Command, with their data reduced to
\* what the core's state depends on: the child id of Stop, the tag set of
\* AddTags and DelTags.  Executables, arguments, uris and paths are left out.
Command ==
       [op: {"Open", "Close", "Exec", "Start", "DownloadFile", "UploadFile"}]
  \cup [op: {"Stop"}, child: ChildId]
  \cup [op: {"AddTags", "DelTags"}, tags: SUBSET Tag]

ASSUME HdManAssumption ==
  /\ NoSession \notin SessionId
  /\ Pipelines \subseteq Seq(Command)
  /\ MaxReq \in Nat
  /\ MaxCreate \in Nat
  /\ ReuseIds \in BOOLEAN

Req == 1..MaxReq

\* One entry of the Vec<String> a pipeline returns: the index of the command
\* that pushed it and whether it is an output or an error message.
Entry == Nat \X {"ok", "err"}

\* The life of a SessionUpdate request: "run" while its chain has a next
\* link to run, "stop" while a Stop waits for SyncExecManager's Kill,
\* "ok" and "err" once it has replied.
ReqRec ==
  [st: {"idle", "run", "stop", "ok", "err"}, sid: SessionId \cup {NoSession},
   cmds: Seq(Command), pc: Nat, out: Seq(Entry), hold: Pid \cup {NoPid}]

IdleReq ==
  [st |-> "idle", sid |-> NoSession, cmds |-> <<>>, pc |-> 1, out |-> <<>>,
   hold |-> NoPid]

VARIABLES
  registered,  \* the keys of DeployManager's map
  sess,        \* sess[s]: the SessionInfo registered under s
  prov,        \* prov[s]: download-and-unpack futures in flight for id s
  proc,        \* proc[p]: the state of OS process p
  req,         \* req[r]: SessionUpdate request r
  used,        \* ids generate_session_id has handed out (history)
  inserted,    \* processes insert_process has put in a table (history)
  nSpawn,      \* processes spawned so far
  nReq,        \* SessionUpdate requests received so far
  nCreate      \* CreateSession requests received so far

vars == <<registered, sess, prov, proc, req, used, inserted, nSpawn, nReq,
          nCreate>>

TypeOK ==
  /\ registered \subseteq SessionId
  /\ sess \in [SessionId -> SessionRec]
  /\ prov \in [SessionId -> 0..MaxCreate]
  /\ proc \in [Pid -> ProcState]
  /\ req \in [Req -> ReqRec]
  /\ used \subseteq SessionId
  /\ inserted \subseteq Pid
  /\ nSpawn \in 0..MaxSpawn
  /\ nReq \in 0..MaxReq
  /\ nCreate \in 0..MaxCreate

Init ==
  /\ registered = {}
  /\ sess = [s \in SessionId |-> NewSession({})]
  /\ prov = [s \in SessionId |-> 0]
  /\ proc = [p \in Pid |-> "none"]
  /\ req = [r \in Req |-> IdleReq]
  /\ used = {}
  /\ inserted = {}
  /\ nSpawn = 0
  /\ nReq = 0
  /\ nCreate = 0

-----------------------------------------------------------------------------
(* Deploy registry and session teardown                                    *)

\* Mutant: the handles are dropped without kill (dropping a Child does
\* not kill it).
TeardownNoKill(s) == proc' = proc

\* SessionInfo::destroy: kill every tracked child, wait for every tracked
\* child (errors of both ignored), then remove the workspace directory.
\* The kill and the wait leave every tracked process reaped.
Teardown(s) ==
  proc' = [p \in Pid |-> IF p \in Held(sess[s].procs) THEN "reaped"
                                                      ELSE proc[p]]


\* destroy_deploy(s) on a registered id: tear the session down and drop it
\* from the map when the teardown succeeded; when clear_dir fails the entry
\* stays, its children killed and waited for.  (On an unknown id it is an
\* error and changes nothing.)
DestroyDeploy(s) ==
  /\ s \in registered
  /\ Teardown(s)
  /\ \/ registered' = registered \ {s}
     \/ UNCHANGED registered

-----------------------------------------------------------------------------
(* CreateSession                                                           *)

\* The handler: take a fresh id, build the workspace, create its
\* directories (which may fail: the reply is the error and nothing is
\* registered), register the session PENDING and start the download.
CreateSession ==
  /\ nCreate < MaxCreate
  /\ \E s \in SessionId \ registered, tags \in SUBSET Tag :
       /\ ReuseIds \/ s \notin used
       /\ used' = used \cup {s}
       /\ nCreate' = nCreate + 1
       /\ \/ UNCHANGED <<registered, sess, prov>>
          \/ /\ registered' = registered \cup {s}
             /\ sess' = [sess EXCEPT ![s] = NewSession(tags)]
             /\ prov' = [prov EXCEPT ![s] = @ + 1]
  /\ UNCHANGED <<proc, req, inserted, nSpawn, nReq>>

\* The download-and-unpack future of a CreateSession for id s completes.
\* On success the session found under s becomes CREATED.  When there is no
\* session under s, success fails in get_session_mut and failure reaches
\* map_err, whose destroy_deploy fails in turn: nothing changes.  A failure
\* with the session registered is rolled back by destroy_deploy(s).
ProvisionDone(s) ==
  /\ prov[s] > 0
  /\ prov' = [prov EXCEPT ![s] = @ - 1]
  /\ \/ /\ s \in registered
        /\ sess' = [sess EXCEPT ![s].status = "CREATED"]
        /\ UNCHANGED <<registered, proc>>
     \/ /\ s \notin registered
        /\ UNCHANGED <<registered, sess, proc>>
     \/ /\ DestroyDeploy(s)
        /\ UNCHANGED sess
  /\ UNCHANGED <<req, used, inserted, nSpawn, nReq, nCreate>>

-----------------------------------------------------------------------------
(* DestroySession                                                          *)

\* The handler on a registered id (on any other id it replies an error and
\* changes nothing).
DestroySession(s) ==
  /\ s \in registered
  /\ DestroyDeploy(s)
  /\ UNCHANGED <<sess, prov, req, used, inserted, nSpawn, nReq, nCreate>>

-----------------------------------------------------------------------------
(* SessionUpdate: the handler and the links of the chain it builds          *)

\* The handler: an unknown session is answered at once with NoSuchSession
\* (an entry of index 0); otherwise the chain is started.
SessionUpdate ==
  /\ nReq < MaxReq
  /\ nReq' = nReq + 1
  /\ \E s \in SessionId, cmds \in Pipelines :
       req' = [req EXCEPT ![nReq + 1] =
                 IF s \notin registered
                   THEN [IdleReq EXCEPT !.st = "err", !.sid = s, !.cmds = cmds,
                                        !.out = <<<<0, "err">>>>]
                   ELSE [IdleReq EXCEPT !.st = IF cmds = <<>> THEN "ok" ELSE "run",
                                        !.sid = s, !.cmds = cmds]]
  /\ UNCHANGED <<registered, sess, prov, proc, used, inserted, nSpawn, nCreate>>

\* The next command of a running request, and its session.
Cmd(r) == req[r].cmds[req[r].pc]
SidOf(r) == req[r].sid

Running(r, ops) == req[r].st = "run" /\ Cmd(r).op \in ops

\* A link succeeds after pushing the entries es: the chain goes on with the
\* next command, or resolves Ok when it was the last.
Advance(r, es) ==
  req' = [req EXCEPT ![r].pc  = @ + 1,
                     ![r].out = @ \o es,
                     ![r].st  = IF req[r].pc = Len(req[r].cmds) THEN "ok" ELSE "run",
                     ![r].hold = NoPid]

\* Mutant: a failed link pushes its error and the chain goes on.
FailContinue(r, es) == Advance(r, es)

\* A link fails after pushing the entries es: the chain resolves Err and
\* no later link runs.
Fail(r, es) ==
  req' = [req EXCEPT ![r].out = @ \o es, ![r].st = "err", ![r].hold = NoPid]

OkE(r) == <<req[r].pc, "ok">>
ErrE(r) == <<req[r].pc, "err">>

\* Mutant: Open and Close are run as links that push an output.
SkipOpenCloseAsLink(r) ==
  /\ Running(r, {"Open", "Close"})
  /\ Advance(r, <<OkE(r)>>)
  /\ UNCHANGED <<registered, sess, prov, proc, used, inserted, nSpawn, nReq,
                 nCreate>>

\* Open and Close add no link to the chain.
SkipOpenClose(r) ==
  /\ Running(r, {"Open", "Close"})
  /\ Advance(r, <<>>)
  /\ UNCHANGED <<registered, sess, prov, proc, used, inserted, nSpawn, nReq,
                 nCreate>>

\* Exec: the answer of SyncExecManager arrives.  An error fails the link;
\* otherwise the output is pushed and the session, looked up again, is
\* marked dirty; a session gone meanwhile fails the link after the output.
Exec(r) ==
  /\ Running(r, {"Exec"})
  /\ \/ /\ Fail(r, <<ErrE(r)>>)
        /\ UNCHANGED sess
     \/ /\ SidOf(r) \in registered
        /\ sess' = [sess EXCEPT ![SidOf(r)].dirty = TRUE]
        /\ Advance(r, <<OkE(r)>>)
     \/ /\ SidOf(r) \notin registered
        /\ Fail(r, <<OkE(r), ErrE(r)>>)
        /\ UNCHANGED sess
  /\ UNCHANGED <<registered, prov, proc, used, inserted, nSpawn, nReq, nCreate>>

\* Start: spawn the executable, which get_session_exec_path resolves under
\* the session's directory sessions/<id>/ (spawn may fail), then
\* insert_child looks the session up and insert_process stores the handle
\* under an id that is not a current key.  An id leaves the map only after
\* destroy's clear_dir has removed that directory, so when the session is
\* gone the executable is gone with it and the spawn fails.
Start(r) ==
  /\ Running(r, {"Start"})
  /\ \/ /\ Fail(r, <<ErrE(r)>>)
        /\ UNCHANGED <<sess, proc, inserted, nSpawn>>
     \/ /\ SidOf(r) \in registered
        /\ nSpawn < MaxSpawn
        /\ nSpawn' = nSpawn + 1
        /\ proc' = [proc EXCEPT ![nSpawn + 1] = "alive"]
        /\ \E cid \in ChildId \ ChildIds(sess[SidOf(r)].procs) :
             sess' = [sess EXCEPT ![SidOf(r)] =
                        InsertProcess(sess[SidOf(r)], cid, nSpawn + 1)]
        /\ inserted' = inserted \cup {nSpawn + 1}
        /\ Advance(r, <<OkE(r)>>)
  /\ UNCHANGED <<registered, prov, used, nReq, nCreate>>

\* Stop, first link: look the session up and remove the child from its
\* table (NoSuchSession, NoSuchChild otherwise), then send Exec::Kill with
\* the handle to SyncExecManager.
StopBegin(r) ==
  /\ Running(r, {"Stop"})
  /\ LET s == SidOf(r)
         c == Cmd(r).child
     IN  \/ /\ s \in registered
            /\ c \in ChildIds(sess[s].procs)
            /\ sess' = [sess EXCEPT ![s].procs[c] = NoPid]
            /\ req' = [req EXCEPT ![r].st = "stop", ![r].hold = sess[s].procs[c]]
         \/ /\ s \notin registered \/ c \notin ChildIds(sess[s].procs)
            /\ Fail(r, <<ErrE(r)>>)
            /\ UNCHANGED sess
  /\ UNCHANGED <<registered, prov, proc, used, inserted, nSpawn, nReq, nCreate>>

\* Stop, second link: the Kill result arrives.  Ok(Kill(output)): the child
\* was killed and waited for; the session, looked up again, becomes
\* CONFIGURED if its table is now empty, and the output is pushed.  Any
\* other result fails the link with "wrong result"; killing or waiting for
\* one's own child fails only once it has terminated, so that process is
\* no longer alive.
StopEnd(r) ==
  /\ req[r].st = "stop"
  /\ LET s == SidOf(r)
         p == req[r].hold
     IN  \/ /\ proc' = [proc EXCEPT ![p] = "reaped"]
            /\ \/ /\ s \in registered
                  /\ sess' = [sess EXCEPT ![s].status =
                               IF ChildIds(sess[s].procs) = {} THEN "CONFIGURED"
                                                               ELSE @]
                  /\ Advance(r, <<OkE(r)>>)
               \/ /\ s \notin registered
                  /\ Fail(r, <<ErrE(r)>>)
                  /\ UNCHANGED sess
         \/ /\ proc[p] # "alive"
            /\ Fail(r, <<ErrE(r)>>)
            /\ UNCHANGED <<sess, proc>>
  /\ UNCHANGED <<registered, prov, used, inserted, nSpawn, nReq, nCreate>>

\* AddTags and DelTags: look the session up and add or remove the tags.
Tags(r) ==
  /\ Running(r, {"AddTags", "DelTags"})
  /\ \/ /\ SidOf(r) \in registered
        /\ sess' = [sess EXCEPT ![SidOf(r)].tags =
                      IF Cmd(r).op = "AddTags" THEN @ \cup Cmd(r).tags
                                               ELSE @ \ Cmd(r).tags]
        /\ Advance(r, <<OkE(r)>>)
     \/ /\ SidOf(r) \notin registered
        /\ Fail(r, <<ErrE(r)>>)
        /\ UNCHANGED sess
  /\ UNCHANGED <<registered, prov, proc, used, inserted, nSpawn, nReq, nCreate>>

\* DownloadFile and UploadFile: the HTTP transfer completes or fails.  These
\* links never look the session up.
Transfer(r) ==
  /\ Running(r, {"DownloadFile", "UploadFile"})
  /\ \/ Advance(r, <<OkE(r)>>)
     \/ Fail(r, <<ErrE(r)>>)
  /\ UNCHANGED <<registered, sess, prov, proc, used, inserted, nSpawn, nReq,
                 nCreate>>

-----------------------------------------------------------------------------
(* The reaper and the processes                                            *)

\* scan_for_processes, run every 10 seconds: for every registered session
\* collect the finished children (try_wait reaps a zombie), remove them and
\* set CONFIGURED when some were removed and none is left.  A scan that
\* finds nothing finished changes nothing and is not a step.
Reap ==
  /\ \E s \in registered : Finished(sess[s].procs, proc) # {}
  /\ sess' = [s \in SessionId |->
                IF s \in registered THEN ScanSession(sess[s], proc) ELSE sess[s]]
  /\ proc' = [p \in Pid |->
                IF proc[p] = "exited"
                   /\ \E s \in registered : p \in Held(sess[s].procs)
                  THEN "reaped" ELSE proc[p]]
  /\ UNCHANGED <<registered, prov, req, used, inserted, nSpawn, nReq, nCreate>>

\* A spawned process terminates by itself.
ProcessExit(p) ==
  /\ proc[p] = "alive"
  /\ proc' = [proc EXCEPT ![p] = "exited"]
  /\ UNCHANGED <<registered, sess, prov, req, used, inserted, nSpawn, nReq,
                 nCreate>>

-----------------------------------------------------------------------------
Next ==
  \/ CreateSession
  \/ \E s \in SessionId : ProvisionDone(s) \/ DestroySession(s)
  \/ SessionUpdate
  \/ \E r \in Req : \/ SkipOpenClose(r) \/ Exec(r) \/ Start(r) \/ StopBegin(r)
                    \/ StopEnd(r) \/ Tags(r) \/ Transfer(r)
  \/ Reap
  \/ \E p \in Pid : ProcessExit(p)

Spec == Init /\ [][Next]_vars

\* The reaper runs on a timer of the actor's context (run_interval), so a
\* scan that has something to remove eventually happens.
FairSpec == Spec /\ WF_vars(Reap)

-----------------------------------------------------------------------------
(* Properties                                                              *)

\* The holders of the handle of process p: entries of a registered
\* session's table, and Stop requests waiting for the Kill of p.
TableHolders(p) == {sc \in registered \X ChildId : sess[sc[1]].procs[sc[2]] = p}
StopHolders(p) == {r \in Req : req[r].st = "stop" /\ req[r].hold = p}
Holders(p) == Cardinality(TableHolders(p)) + Cardinality(StopHolders(p))

\* The handle of p is held by at most one holder: one table entry of one
\* registered session, or one Stop request, never both.
HeldOnce(p) ==
  /\ \A x, y \in TableHolders(p) : x = y
  /\ \A r1, r2 \in StopHolders(p) : r1 = r2
  /\ TableHolders(p) = {} \/ StopHolders(p) = {}

\* Handle accounting across Start, Stop, the reaper, DestroySession and the
\* rollback of CreateSession: no process handle is held twice, and a
\* process that insert_process put in a table is never dropped while it
\* still runs: its handle stays in a table or with a Stop that kills it.
HandleAccounting ==
  \A p \in Pid :
    /\ HeldOnce(p)
    /\ p \in inserted /\ proc[p] = "alive" =>
         TableHolders(p) # {} \/ StopHolders(p) # {}

\* A session is CONFIGURED only after it ran something: the reaper and
\* Stop set CONFIGURED only once the last child of a session that had
\* children is gone, never on a session that never ran.
ConfiguredOnlyAfterRun ==
  \A s \in registered : sess[s].status = "CONFIGURED" => sess[s].dirty

\* The reply of a pipeline (spec 4.4): at most one failure, which ends the
\* trail and the request; entries in the order of the commands; and an Ok
\* reply has an entry for every command that adds a link.
ChainIdx(cmds) == {i \in 1..Len(cmds) : cmds[i].op \notin {"Open", "Close"}}

TrailFaithful ==
  \A r \in Req :
    LET o == req[r].out IN
    /\ \A i \in 1..Len(o) : o[i][2] = "err" => i = Len(o) /\ req[r].st = "err"
    /\ \A i \in 1..Len(o) - 1 :
         \/ o[i][1] < o[i + 1][1]
         \/ o[i][1] = o[i + 1][1] /\ o[i + 1][2] = "err"
    /\ req[r].st = "ok" => {o[i][1] : i \in 1..Len(o)} = ChainIdx(req[r].cmds)

\* The requests as the abstract Pipeline sees them: a Stop waiting for
\* its Kill is still running its command; the session and the handle
\* held are hidden.
PipelineOf ==
  [r \in Req |-> [st   |-> IF req[r].st = "stop" THEN "run" ELSE req[r].st,
                  cmds |-> req[r].cmds, pc |-> req[r].pc, out |-> req[r].out]]

Pipe == INSTANCE Pipeline WITH preq <- PipelineOf

\* SessionUpdate keeps the promise of Pipeline whatever the actor
\* interleaves with its links (other requests, the reaper, CreateSession's
\* rollback, DestroySession): every step of HdMan is a step of Pipeline
\* under PipelineOf, or leaves it unchanged.
ImplementsPipeline == Pipe!Spec

\* Once a session has run a process (RUNNING, or CONFIGURED after its
\* last child went) its status never goes back to PENDING or CREATED
\* (spec 3), whatever the provisioning future, the pipelines and the
\* reaper interleave.
NoRevertAfterRun ==
  [][\A s \in registered \cap registered' :
        sess[s].status \in {"RUNNING", "CONFIGURED"} =>
          sess'[s].status \in {"RUNNING", "CONFIGURED"}]_vars

\* A RUNNING session has a tracked child (spec 3: Running iff processes is
\* non-empty) whenever no Stop on it is between its two links.
IdleRunningHasProcesses ==
  \A s \in registered :
    /\ sess[s].status = "RUNNING"
    /\ ~\E r \in Req : req[r].st = "stop" /\ req[r].sid = s
    => ChildIds(sess[s].procs) # {}

\* Every child that has terminated is eventually removed from its
\* session's table by the reaper (or with its session).
ExitedChildEventuallyRemoved ==
  \A p \in Pid :
    (proc[p] # "alive" /\ Cardinality(TableHolders(p)) > 0)
      ~> Cardinality(TableHolders(p)) = 0
=============================================================================

---------------------------- MODULE HdManProofs ----------------------------
(***************************************************************************)
(* Proofs about HdMan, for every value of its constants that satisfies     *)
(* SessionInfoAssumption and HdManAssumption.                              *)
(***************************************************************************)
EXTENDS HdMan, SequenceTheorems, TLAPS

USE SessionInfoAssumption, HdManAssumption

-----------------------------------------------------------------------------
(* Type correctness                                                        *)

\* The record operators of SessionInfo return session records.
LEMMA NewSessionTyped ==
  ASSUME NEW tags \in SUBSET Tag
  PROVE  NewSession(tags) \in SessionRec
  BY DEF SessionRec, ProcTable, NewSession, EmptyTable, Status

LEMMA InsertProcessTyped ==
  ASSUME NEW s \in SessionRec, NEW cid \in ChildId, NEW p \in Pid
  PROVE  InsertProcess(s, cid, p) \in SessionRec
  BY DEF SessionRec, ProcTable, InsertProcess, Status

LEMMA ScanSessionTyped ==
  ASSUME NEW s \in SessionRec, NEW proc0 \in [Pid -> ProcState]
  PROVE  ScanSession(s, proc0) \in SessionRec
<1> DEFINE fin  == Finished(s.procs, proc0)
           left == [c \in ChildId |-> IF c \in fin THEN NoPid ELSE s.procs[c]]
<1>1. left \in ProcTable
  BY DEF SessionRec, ProcTable
<1>2. (IF fin # {} /\ ChildIds(left) = {} THEN "CONFIGURED" ELSE s.status)
        \in Status
  BY DEF SessionRec, Status
<1>3. QED
  BY <1>1, <1>2 DEF ScanSession, SessionRec

\* Advance and Fail keep a request a request record.
LEMMA LinkTyped ==
  ASSUME TypeOK, NEW r \in Req, NEW es \in Seq(Entry)
  PROVE  /\ Advance(r, es) => req' \in [Req -> ReqRec]
         /\ Fail(r, es) => req' \in [Req -> ReqRec]
<1>1. req[r] \in ReqRec
  BY DEF TypeOK
<1>2. req[r].out \o es \in Seq(Entry)
  BY <1>1, ConcatProperties DEF ReqRec
<1>3. req[r].pc + 1 \in Nat
  BY <1>1 DEF ReqRec
<1>4. [req[r] EXCEPT !.pc = req[r].pc + 1, !.out = req[r].out \o es,
                     !.st = IF req[r].pc = Len(req[r].cmds) THEN "ok" ELSE "run",
                     !.hold = NoPid] \in ReqRec
  BY <1>1, <1>2, <1>3 DEF ReqRec
<1>5. [req[r] EXCEPT !.out = req[r].out \o es, !.st = "err", !.hold = NoPid]
        \in ReqRec
  BY <1>1, <1>2 DEF ReqRec
<1>6. QED
  BY <1>4, <1>5 DEF TypeOK, Advance, Fail

LEMMA EntriesTyped ==
  ASSUME TypeOK, NEW r \in Req
  PROVE  /\ <<OkE(r)>> \in Seq(Entry)
         /\ <<ErrE(r)>> \in Seq(Entry)
         /\ <<OkE(r), ErrE(r)>> \in Seq(Entry)
         /\ <<>> \in Seq(Entry)
<1>1. OkE(r) \in Entry /\ ErrE(r) \in Entry
  BY DEF TypeOK, ReqRec, OkE, ErrE, Entry
<1>2. QED
  BY <1>1

LEMMA TeardownTyped ==
  ASSUME TypeOK, NEW s \in SessionId, Teardown(s)
  PROVE  proc' \in [Pid -> ProcState]
  BY DEF TypeOK, Teardown, ProcState

\* A session record with a new status, a table entry cleared, or new tags
\* is a session record.
LEMMA SessionUpdateTyped ==
  ASSUME NEW s \in SessionRec, NEW st \in Status, NEW c \in ChildId,
         NEW tags \in SUBSET Tag
  PROVE  /\ [s EXCEPT !.status = st] \in SessionRec
         /\ [s EXCEPT !.procs[c] = NoPid] \in SessionRec
         /\ [s EXCEPT !.dirty = TRUE] \in SessionRec
         /\ [s EXCEPT !.tags = tags] \in SessionRec
  BY DEF SessionRec, ProcTable

\* TypeOK strengthened to an inductive invariant: a request that is still
\* running points at one of its commands, and no id has more downloads in
\* flight than CreateSession requests were received.
PcInRange ==
  \A r \in Req : req[r].st \in {"run", "stop"} => req[r].pc \in 1..Len(req[r].cmds)
ProvBound == \A s \in SessionId : prov[s] <= nCreate
TypeInv == TypeOK /\ PcInRange /\ ProvBound

\* A session map updated at one id with a session record.
LEMMA SessMapUpdate ==
  ASSUME NEW f \in [SessionId -> SessionRec], NEW x, NEW v \in SessionRec
  PROVE  [f EXCEPT ![x] = v] \in [SessionId -> SessionRec]
  OBVIOUS

\* The command a running request is at.
LEMMA CmdTyped ==
  ASSUME TypeInv, NEW r \in Req, req[r].st \in {"run", "stop"}
  PROVE  Cmd(r) \in Command
<1>1. req[r] \in ReqRec
  BY DEF TypeInv, TypeOK
<1>2. req[r].cmds \in Seq(Command) /\ req[r].pc \in 1..Len(req[r].cmds)
  BY <1>1 DEF TypeInv, PcInRange, ReqRec
<1>3. QED
  BY <1>2 DEF Cmd

\* Advance and Fail keep PcInRange.
LEMMA LinkPcInRange ==
  ASSUME TypeInv, NEW r \in Req, NEW es \in Seq(Entry),
         req[r].st \in {"run", "stop"}, Advance(r, es) \/ Fail(r, es)
  PROVE  PcInRange'
<1>1. req[r] \in ReqRec /\ req[r].pc \in 1..Len(req[r].cmds)
  BY DEF TypeInv, TypeOK, PcInRange
<1> SUFFICES ASSUME NEW q \in Req, req'[q].st \in {"run", "stop"}
             PROVE  req'[q].pc \in 1..Len(req'[q].cmds)
  BY DEF PcInRange
<1>2. CASE q # r
  BY <1>2 DEF TypeInv, TypeOK, PcInRange, Advance, Fail
<1>3. CASE q = r /\ Advance(r, es)
  <2>1. req'[r].st = (IF req[r].pc = Len(req[r].cmds) THEN "ok" ELSE "run")
        /\ req'[r].pc = req[r].pc + 1 /\ req'[r].cmds = req[r].cmds
    BY <1>1, <1>3 DEF TypeInv, TypeOK, Advance
  <2>2. QED
    BY <1>1, <1>3, <2>1
<1>4. CASE q = r /\ Fail(r, es)
  <2>1. req'[r].st = "err"
    BY <1>1, <1>4 DEF TypeInv, TypeOK, Fail
  <2>2. QED
    BY <1>4, <2>1
<1>5. QED
  BY <1>2, <1>3, <1>4

LEMMA InitTypeInv == Init => TypeInv
<1> SUFFICES ASSUME Init PROVE TypeInv
  OBVIOUS
<1>1. IdleReq \in ReqRec
  BY EmptySeq DEF IdleReq, ReqRec
<1>2. NewSession({}) \in SessionRec
  BY NewSessionTyped
<1>3. QED
  BY <1>1, <1>2 DEF Init, TypeInv, TypeOK, ProcState, PcInRange, ProvBound, IdleReq

\* The steps of each action keep TypeInv.
LEMMA CreateSessionTypeInv == TypeInv /\ CreateSession => TypeInv'
<1> SUFFICES ASSUME TypeInv, CreateSession PROVE TypeInv'
  OBVIOUS
<1>1. PICK s \in SessionId \ registered, tags \in SUBSET Tag :
             /\ used' = used \cup {s}
             /\ nCreate' = nCreate + 1
             /\ \/ UNCHANGED <<registered, sess, prov>>
                \/ /\ registered' = registered \cup {s}
                   /\ sess' = [sess EXCEPT ![s] = NewSession(tags)]
                   /\ prov' = [prov EXCEPT ![s] = @ + 1]
  BY DEF CreateSession
<1>2. ProvBound' /\ prov' \in [SessionId -> 0..MaxCreate]
  <2>1. CASE UNCHANGED <<registered, sess, prov>>
    BY <1>1, <2>1 DEF TypeInv, TypeOK, ProvBound
  <2>2. CASE prov' = [prov EXCEPT ![s] = @ + 1]
    <3>1. prov[s] + 1 <= MaxCreate /\ prov[s] + 1 <= nCreate + 1
      BY DEF CreateSession, TypeInv, TypeOK, ProvBound
    <3>2. QED
      BY <1>1, <2>2, <3>1 DEF TypeInv, TypeOK, ProvBound
  <2>3. QED
    BY <1>1, <2>1, <2>2
<1>3. sess' \in [SessionId -> SessionRec]
  BY <1>1, NewSessionTyped, SessMapUpdate DEF TypeInv, TypeOK
<1>4. QED
  BY <1>1, <1>2, <1>3 DEF CreateSession, TypeInv, TypeOK, PcInRange

LEMMA ProvisionDoneTypeInv ==
  ASSUME NEW s \in SessionId
  PROVE  TypeInv /\ ProvisionDone(s) => TypeInv'
<1> SUFFICES ASSUME TypeInv, ProvisionDone(s) PROVE TypeInv'
  OBVIOUS
<1>1. ProvBound' /\ prov' \in [SessionId -> 0..MaxCreate]
  BY DEF ProvisionDone, TypeInv, TypeOK, ProvBound
<1>2. sess' \in [SessionId -> SessionRec]
  <2>1. [sess[s] EXCEPT !.status = "CREATED"] \in SessionRec
    BY SessionUpdateTyped DEF TypeInv, TypeOK, Status
  <2>2. QED
    BY <2>1, SessMapUpdate DEF ProvisionDone, TypeInv, TypeOK
<1>3. proc' \in [Pid -> ProcState] /\ registered' \subseteq SessionId
  BY TeardownTyped DEF ProvisionDone, DestroyDeploy, TypeInv, TypeOK
<1>4. QED
  BY <1>1, <1>2, <1>3 DEF ProvisionDone, TypeInv, TypeOK, PcInRange

LEMMA DestroySessionTypeInv ==
  ASSUME NEW s \in SessionId
  PROVE  TypeInv /\ DestroySession(s) => TypeInv'
BY TeardownTyped DEF DestroySession, DestroyDeploy, TypeInv, TypeOK, PcInRange,
   ProvBound

LEMMA SessionUpdateTypeInv == TypeInv /\ SessionUpdate => TypeInv'
<1> SUFFICES ASSUME TypeInv, SessionUpdate PROVE TypeInv'
  OBVIOUS
<1>1. PICK s \in SessionId, cmds \in Pipelines :
         req' = [req EXCEPT ![nReq + 1] =
             IF s \notin registered
               THEN [IdleReq EXCEPT !.st = "err", !.sid = s, !.cmds = cmds,
                                    !.out = <<<<0, "err">>>>]
               ELSE [IdleReq EXCEPT !.st = IF cmds = <<>> THEN "ok" ELSE "run",
                                    !.sid = s, !.cmds = cmds]]
  BY DEF SessionUpdate
<1>2. cmds \in Seq(Command)
  OBVIOUS
<1> DEFINE eReq == [IdleReq EXCEPT !.st = "err", !.sid = s, !.cmds = cmds,
                                   !.out = <<<<0, "err">>>>]
           rReq == [IdleReq EXCEPT !.st = IF cmds = <<>> THEN "ok" ELSE "run",
                                   !.sid = s, !.cmds = cmds]
<1>3. eReq \in ReqRec /\ eReq.st = "err"
  <2>1. <<<<0, "err">>>> \in Seq(Entry)
    BY DEF Entry
  <2>2. QED
    BY <1>2, <2>1 DEF IdleReq, ReqRec
<1>4. rReq \in ReqRec /\ (rReq.st \in {"run", "stop"} => rReq.pc \in 1..Len(rReq.cmds))
  <2>1. cmds # <<>> => Len(cmds) >= 1
    BY <1>2, EmptySeq, LenProperties
  <2>2. rReq.st = (IF cmds = <<>> THEN "ok" ELSE "run")
         /\ rReq.pc = 1 /\ rReq.cmds = cmds
    BY DEF IdleReq
  <2>3. rReq \in ReqRec
    BY <1>2, <2>2, EmptySeq DEF IdleReq, ReqRec
  <2>4. QED
    BY <2>1, <2>2, <2>3
<1>5. req' = [req EXCEPT ![nReq + 1] = IF s \notin registered THEN eReq ELSE rReq]
  BY <1>1
<1>6. req' \in [Req -> ReqRec]
  BY <1>3, <1>4, <1>5 DEF TypeInv, TypeOK
<1>7. PcInRange'
  BY <1>3, <1>4, <1>5 DEF TypeInv, TypeOK, PcInRange
<1>8. QED
  BY <1>6, <1>7 DEF SessionUpdate, TypeInv, TypeOK, ProvBound

\* A link of request r: the request is at a command, its successor
\* entries are typed, and Advance and Fail keep TypeInv's request parts.
LEMMA LinkTypeInv ==
  ASSUME TypeInv, NEW r \in Req, req[r].st \in {"run", "stop"},
         NEW es \in Seq(Entry), Advance(r, es) \/ Fail(r, es)
  PROVE  req' \in [Req -> ReqRec] /\ PcInRange'
BY LinkTyped, LinkPcInRange DEF TypeInv

LEMMA SkipOpenCloseTypeInv ==
  ASSUME NEW r \in Req
  PROVE  TypeInv /\ SkipOpenClose(r) => TypeInv'
<1> SUFFICES ASSUME TypeInv, SkipOpenClose(r) PROVE TypeInv'
  OBVIOUS
<1>1. req' \in [Req -> ReqRec] /\ PcInRange'
  BY LinkTypeInv, EntriesTyped DEF SkipOpenClose, Running, TypeInv
<1>2. QED
  BY <1>1 DEF SkipOpenClose, TypeInv, TypeOK, ProvBound

LEMMA ExecTypeInv ==
  ASSUME NEW r \in Req
  PROVE  TypeInv /\ Exec(r) => TypeInv'
<1> SUFFICES ASSUME TypeInv, Exec(r) PROVE TypeInv'
  OBVIOUS
<1>1. req' \in [Req -> ReqRec] /\ PcInRange'
  BY LinkTypeInv, EntriesTyped DEF Exec, Running, TypeInv
<1>2. sess' \in [SessionId -> SessionRec]
  <2>1. CASE SidOf(r) \in registered
    <3>0. sess[SidOf(r)] \in SessionRec
      BY <2>1 DEF TypeInv, TypeOK
    <3>1. [sess[SidOf(r)] EXCEPT !.dirty = TRUE] \in SessionRec
      BY <3>0 DEF SessionRec
    <3>2. QED
      BY <3>1, SessMapUpdate DEF Exec, TypeInv, TypeOK
  <2>2. CASE SidOf(r) \notin registered
    BY <2>2 DEF Exec, TypeInv, TypeOK
  <2>3. QED
    BY <2>1, <2>2
<1>3. QED
  BY <1>1, <1>2 DEF Exec, TypeInv, TypeOK, ProvBound


LEMMA StartTypeInv ==
  ASSUME NEW r \in Req
  PROVE  TypeInv /\ Start(r) => TypeInv'
<1> SUFFICES ASSUME TypeInv, Start(r) PROVE TypeInv'
  OBVIOUS
<1>1. req' \in [Req -> ReqRec] /\ PcInRange'
  BY LinkTypeInv, EntriesTyped DEF Start, Running, TypeInv
<1>2. CASE UNCHANGED <<sess, proc, inserted, nSpawn>>
  BY <1>1, <1>2 DEF Start, TypeInv, TypeOK, ProvBound
<1>3. CASE nSpawn < MaxSpawn /\ nSpawn' = nSpawn + 1
           /\ proc' = [proc EXCEPT ![nSpawn + 1] = "alive"]
  <2>1. nSpawn + 1 \in Pid /\ nSpawn' \in 0..MaxSpawn
    BY <1>3 DEF TypeInv, TypeOK, Pid
  <2>2. proc' \in [Pid -> ProcState] /\ inserted' \subseteq Pid
    BY <1>3, <2>1 DEF Start, TypeInv, TypeOK, ProcState
  <2>3. sess' \in [SessionId -> SessionRec]
    <3>1. CASE SidOf(r) \in registered
      <4>1. sess[SidOf(r)] \in SessionRec
        BY <3>1 DEF TypeInv, TypeOK
      <4>2. \A cid \in ChildId :
              InsertProcess(sess[SidOf(r)], cid, nSpawn + 1) \in SessionRec
        BY <4>1, <2>1, InsertProcessTyped
      <4>3. QED
        BY <4>2, SessMapUpdate DEF Start, TypeInv, TypeOK
    <3>2. CASE SidOf(r) \notin registered
      BY <3>2 DEF Start, TypeInv, TypeOK
    <3>3. QED
      BY <3>1, <3>2
  <2>4. QED
    BY <1>1, <2>1, <2>2, <2>3 DEF Start, TypeInv, TypeOK, ProvBound
<1>4. QED
  BY <1>2, <1>3 DEF Start

LEMMA StopBeginTypeInv ==
  ASSUME NEW r \in Req
  PROVE  TypeInv /\ StopBegin(r) => TypeInv'
<1> SUFFICES ASSUME TypeInv, StopBegin(r) PROVE TypeInv'
  OBVIOUS
<1> DEFINE s == SidOf(r)
           c == Cmd(r).child
<1>1. req[r].st = "run" /\ Cmd(r) \in Command /\ Cmd(r).op = "Stop"
  BY CmdTyped DEF StopBegin, Running
<1>2. c \in ChildId
  BY <1>1 DEF Command
<1>3. CASE s \in registered /\ c \in ChildIds(sess[s].procs)
           /\ sess' = [sess EXCEPT ![s].procs[c] = NoPid]
           /\ req' = [req EXCEPT ![r].st = "stop", ![r].hold = sess[s].procs[c]]
  <2>1. sess[s] \in SessionRec
    BY <1>3 DEF TypeInv, TypeOK
  <2>2. [sess[s] EXCEPT !.procs[c] = NoPid] \in SessionRec
    BY <1>2, <2>1 DEF SessionRec, ProcTable
  <2>3. sess' \in [SessionId -> SessionRec]
    BY <1>3, <2>2, SessMapUpdate DEF TypeInv, TypeOK
  <2>4. sess[s].procs[c] \in Pid \cup {NoPid}
    BY <1>2, <2>1 DEF SessionRec, ProcTable
  <2>5. req' \in [Req -> ReqRec]
    <3>1. req[r] \in ReqRec
      BY DEF TypeInv, TypeOK
    <3>2. [req[r] EXCEPT !.st = "stop", !.hold = sess[s].procs[c]] \in ReqRec
      BY <3>1, <2>4 DEF ReqRec
    <3>3. req' = [req EXCEPT ![r] = [req[r] EXCEPT !.st = "stop",
                                                   !.hold = sess[s].procs[c]]]
      BY <1>3
    <3>4. QED
      BY <3>2, <3>3 DEF TypeInv, TypeOK
  <2>6. PcInRange'
    BY <1>1, <1>3 DEF TypeInv, TypeOK, PcInRange
  <2>7. QED
    BY <2>3, <2>5, <2>6 DEF StopBegin, TypeInv, TypeOK, ProvBound
<1>4. CASE Fail(r, <<ErrE(r)>>) /\ UNCHANGED sess
  <2>1. req' \in [Req -> ReqRec] /\ PcInRange'
    BY <1>1, <1>4, LinkTypeInv, EntriesTyped DEF TypeInv
  <2>2. QED
    BY <1>4, <2>1 DEF StopBegin, TypeInv, TypeOK, ProvBound
<1>5. QED
  BY <1>3, <1>4 DEF StopBegin

LEMMA StopEndTypeInv ==
  ASSUME NEW r \in Req
  PROVE  TypeInv /\ StopEnd(r) => TypeInv'
<1> SUFFICES ASSUME TypeInv, StopEnd(r) PROVE TypeInv'
  OBVIOUS
<1> DEFINE s == SidOf(r)
           p == req[r].hold
<1>1. req' \in [Req -> ReqRec] /\ PcInRange'
  BY LinkTypeInv, EntriesTyped DEF StopEnd, TypeInv
<1>2. proc' \in [Pid -> ProcState]
  BY DEF StopEnd, TypeInv, TypeOK, ProcState
<1>3. sess' \in [SessionId -> SessionRec]
  <2>1. CASE s \in registered
    <3>1. sess[s] \in SessionRec
      BY <2>1 DEF TypeInv, TypeOK
    <3>2. [sess[s] EXCEPT !.status = IF ChildIds(sess[s].procs) = {}
                                       THEN "CONFIGURED" ELSE @] \in SessionRec
      BY <3>1 DEF SessionRec, Status
    <3>3. QED
      BY <3>2, SessMapUpdate DEF StopEnd, TypeInv, TypeOK
  <2>2. CASE s \notin registered
    BY <2>2 DEF StopEnd, TypeInv, TypeOK
  <2>3. QED
    BY <2>1, <2>2
<1>4. QED
  BY <1>1, <1>2, <1>3 DEF StopEnd, TypeInv, TypeOK, ProvBound

LEMMA TagsTypeInv ==
  ASSUME NEW r \in Req
  PROVE  TypeInv /\ Tags(r) => TypeInv'
<1> SUFFICES ASSUME TypeInv, Tags(r) PROVE TypeInv'
  OBVIOUS
<1>1. req' \in [Req -> ReqRec] /\ PcInRange'
  BY LinkTypeInv, EntriesTyped DEF Tags, Running, TypeInv
<1>2. Cmd(r).tags \subseteq Tag
  <2>1. req[r].st = "run" /\ Cmd(r) \in Command
        /\ Cmd(r).op \in {"AddTags", "DelTags"}
    BY CmdTyped DEF Tags, Running
  <2>2. QED
    BY <2>1 DEF Command
<1>3. sess' \in [SessionId -> SessionRec]
  <2>1. CASE SidOf(r) \in registered
    <3>1. sess[SidOf(r)] \in SessionRec
      BY <2>1 DEF TypeInv, TypeOK
    <3>2. [sess[SidOf(r)] EXCEPT !.tags =
             IF Cmd(r).op = "AddTags" THEN @ \cup Cmd(r).tags
                                      ELSE @ \ Cmd(r).tags] \in SessionRec
      BY <1>2, <3>1 DEF SessionRec
    <3>3. QED
      BY <3>2, SessMapUpdate DEF Tags, TypeInv, TypeOK
  <2>2. CASE SidOf(r) \notin registered
    BY <2>2 DEF Tags, TypeInv, TypeOK
  <2>3. QED
    BY <2>1, <2>2
<1>4. QED
  BY <1>1, <1>3 DEF Tags, TypeInv, TypeOK, ProvBound

LEMMA TransferTypeInv ==
  ASSUME NEW r \in Req
  PROVE  TypeInv /\ Transfer(r) => TypeInv'
<1> SUFFICES ASSUME TypeInv, Transfer(r) PROVE TypeInv'
  OBVIOUS
<1>1. req' \in [Req -> ReqRec] /\ PcInRange'
  BY LinkTypeInv, EntriesTyped DEF Transfer, Running, TypeInv
<1>2. QED
  BY <1>1 DEF Transfer, TypeInv, TypeOK, ProvBound

LEMMA ReapTypeInv == TypeInv /\ Reap => TypeInv'
<1> SUFFICES ASSUME TypeInv, Reap PROVE TypeInv'
  OBVIOUS
<1>1. \A s \in SessionId : ScanSession(sess[s], proc) \in SessionRec
  BY ScanSessionTyped DEF TypeInv, TypeOK
<1>2. sess' \in [SessionId -> SessionRec]
  BY <1>1 DEF Reap, TypeInv, TypeOK
<1>3. proc' \in [Pid -> ProcState]
  BY DEF Reap, TypeInv, TypeOK, ProcState
<1>4. QED
  BY <1>2, <1>3 DEF Reap, TypeInv, TypeOK, PcInRange, ProvBound

LEMMA ProcessExitTypeInv ==
  ASSUME NEW p \in Pid
  PROVE  TypeInv /\ ProcessExit(p) => TypeInv'
BY DEF ProcessExit, TypeInv, TypeOK, ProcState, PcInRange, ProvBound

\* TypeInv is kept by every step of Next and by a stutter.
LEMMA TypeInvInductive == TypeInv /\ [Next]_vars => TypeInv'
<1> SUFFICES ASSUME TypeInv, [Next]_vars PROVE TypeInv'
  OBVIOUS
<1>1. CASE CreateSession
  BY <1>1, CreateSessionTypeInv
<1>2. ASSUME NEW s \in SessionId, ProvisionDone(s) \/ DestroySession(s)
      PROVE  TypeInv'
  BY <1>2, ProvisionDoneTypeInv, DestroySessionTypeInv
<1>3. CASE SessionUpdate
  BY <1>3, SessionUpdateTypeInv
<1>4. ASSUME NEW r \in Req,
             \/ SkipOpenClose(r) \/ Exec(r) \/ Start(r) \/ StopBegin(r)
             \/ StopEnd(r) \/ Tags(r) \/ Transfer(r)
      PROVE  TypeInv'
  BY <1>4, SkipOpenCloseTypeInv, ExecTypeInv, StartTypeInv, StopBeginTypeInv,
     StopEndTypeInv, TagsTypeInv, TransferTypeInv
<1>5. CASE Reap
  BY <1>5, ReapTypeInv
<1>6. ASSUME NEW p \in Pid, ProcessExit(p) PROVE TypeInv'
  BY <1>6, ProcessExitTypeInv
<1>7. CASE UNCHANGED vars
  BY <1>7 DEF vars, TypeInv, TypeOK, PcInRange, ProvBound
<1>8. QED
  BY <1>1, <1>2, <1>3, <1>4, <1>5, <1>6, <1>7 DEF Next

\* Type correctness of the manager: every reachable state of HdMan, for
\* every value of the constants, has its registry, sessions, requests,
\* processes and counters in their types.
THEOREM TypeCorrect == Spec => []TypeOK
<1>1. Init => TypeInv
  BY InitTypeInv
<1>2. TypeInv /\ [Next]_vars => TypeInv'
  BY TypeInvInductive
<1>3. TypeInv => TypeOK
  BY DEF TypeInv
<1>4. QED
  BY <1>1, <1>2, <1>3, PTL DEF Spec

=============================================================================

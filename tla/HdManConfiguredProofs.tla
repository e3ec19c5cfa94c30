------------------------ MODULE HdManConfiguredProofs ------------------------
(***************************************************************************)
(* Proof that a registered session is CONFIGURED only once it is dirty     *)
(* (ConfiguredOnlyAfterRun), for every value of the constants, when        *)
(* generate_session_id never hands out an id twice (ReuseIds = FALSE).     *)
(*                                                                         *)
(* The invariant is not inductive: Stop's second link and the reaper set   *)
(* CONFIGURED on an emptied table, so the proof also carries that a        *)
(* non-empty table belongs to a dirty session and that a Stop waiting for  *)
(* its Kill belongs to a dirty session or to an id no longer registered.   *)
(* The last needs that ids are never reused: a running request's session   *)
(* id has been handed out, and CreateSession only registers ids that have  *)
(* not.                                                                    *)
(***************************************************************************)
EXTENDS HdManProofs

\* The parts of the inductive invariant besides TypeInv.
RegUsed == registered \subseteq used
TableDirty ==
  \A s \in registered : ChildIds(sess[s].procs) # {} => sess[s].dirty
ActiveSidUsed ==
  \A r \in Req : req[r].st \in {"run", "stop"} => req[r].sid \in used
StopDirty ==
  \A r \in Req : req[r].st = "stop" /\ req[r].sid \in registered
                   => sess[req[r].sid].dirty
Dirty == RegUsed /\ ConfiguredOnlyAfterRun /\ TableDirty /\ ActiveSidUsed
         /\ StopDirty
DirtyInv == TypeInv /\ Dirty

\* A link of request r changes no other request and no session id, and
\* leaves r replied or running, never waiting for a Kill.
LEMMA LinkFrame ==
  ASSUME TypeOK, NEW r \in Req, NEW es, Advance(r, es) \/ Fail(r, es)
  PROVE  /\ \A q \in Req : req'[q].sid = req[q].sid
         /\ \A q \in Req \ {r} : req'[q] = req[q]
         /\ req'[r].st \in {"ok", "run", "err"}
<1>1. req[r] \in ReqRec
  BY DEF TypeOK
<1>2. CASE Advance(r, es)
  <2>1. req' = [req EXCEPT ![r] = [req[r] EXCEPT
                 !.pc = req[r].pc + 1, !.out = req[r].out \o es,
                 !.st = IF req[r].pc = Len(req[r].cmds) THEN "ok" ELSE "run",
                 !.hold = NoPid]]
    BY <1>2 DEF Advance
  <2>2. QED
    BY <1>1, <2>1 DEF TypeOK, ReqRec
<1>3. CASE Fail(r, es)
  <2>1. req' = [req EXCEPT ![r] = [req[r] EXCEPT
                 !.out = req[r].out \o es, !.st = "err", !.hold = NoPid]]
    BY <1>3 DEF Fail
  <2>2. QED
    BY <1>1, <2>1 DEF TypeOK, ReqRec
<1>4. QED
  BY <1>2, <1>3

\* What the reaper's pass does to one session: its dirty flag is kept, its
\* table only shrinks, and it becomes CONFIGURED only if it was or its
\* table was non-empty.
LEMMA ScanSessionFacts ==
  ASSUME NEW s \in SessionRec, NEW proc0
  PROVE  /\ ScanSession(s, proc0).dirty = s.dirty
         /\ ChildIds(ScanSession(s, proc0).procs) \subseteq ChildIds(s.procs)
         /\ ScanSession(s, proc0).status = "CONFIGURED"
              => s.status = "CONFIGURED" \/ ChildIds(s.procs) # {}
<1> DEFINE fin  == Finished(s.procs, proc0)
           left == [c \in ChildId |-> IF c \in fin THEN NoPid ELSE s.procs[c]]
<1>1. fin \subseteq ChildIds(s.procs)
  BY DEF Finished
<1>2. ChildIds(left) \subseteq ChildIds(s.procs)
  BY DEF ChildIds
<1>3. ScanSession(s, proc0) =
        [s EXCEPT !.procs = left,
                  !.status = IF fin # {} /\ ChildIds(left) = {}
                               THEN "CONFIGURED" ELSE s.status]
  BY DEF ScanSession
<1>4. QED
  BY <1>1, <1>2, <1>3 DEF SessionRec
-----------------------------------------------------------------------------
(* Each action keeps Dirty                                                 *)

\* CreateSession registers an id that was never handed out, so no Stop in
\* flight belongs to it.
LEMMA CreateSessionDirty ==
  ASSUME ~ReuseIds
  PROVE  DirtyInv /\ CreateSession => Dirty'
<1> SUFFICES ASSUME DirtyInv, CreateSession PROVE Dirty'
  OBVIOUS
<1>1. PICK s \in SessionId \ registered, tags \in SUBSET Tag :
             /\ s \notin used
             /\ used' = used \cup {s}
             /\ \/ UNCHANGED <<registered, sess, prov>>
                \/ /\ registered' = registered \cup {s}
                   /\ sess' = [sess EXCEPT ![s] = NewSession(tags)]
  BY DEF CreateSession
<1>2. CASE UNCHANGED <<registered, sess, prov>>
  BY <1>1, <1>2 DEF CreateSession, DirtyInv, Dirty, RegUsed,
     ConfiguredOnlyAfterRun, TableDirty, ActiveSidUsed, StopDirty
<1>3. CASE registered' = registered \cup {s}
           /\ sess' = [sess EXCEPT ![s] = NewSession(tags)]
  <2>1. sess'[s].status = "PENDING" /\ ChildIds(sess'[s].procs) = {}
    BY <1>3 DEF DirtyInv, TypeInv, TypeOK, NewSession, EmptyTable, ChildIds
  <2>2. \A x \in registered : sess'[x] = sess[x]
    BY <1>1, <1>3
  <2>3. \A r \in Req : req'[r] = req[r]
    BY DEF CreateSession
  <2>4. \A r \in Req : req[r].st = "stop" => req[r].sid # s
    BY <1>1 DEF DirtyInv, ActiveSidUsed, Dirty
  <2>5. QED
    BY <1>1, <1>3, <2>1, <2>2, <2>3, <2>4 DEF DirtyInv, Dirty, RegUsed,
       ConfiguredOnlyAfterRun, TableDirty, ActiveSidUsed, StopDirty
<1>4. QED
  BY <1>1, <1>2, <1>3

\* Provisioning completion sets CREATED and keeps the dirty flag and the
\* table; its rollback only unregisters.
LEMMA ProvisionDoneDirty ==
  ASSUME NEW s \in SessionId
  PROVE  DirtyInv /\ ProvisionDone(s) => Dirty'
<1> SUFFICES ASSUME DirtyInv, ProvisionDone(s) PROVE Dirty'
  OBVIOUS
<1>1. CASE s \in registered /\ sess' = [sess EXCEPT ![s].status = "CREATED"]
           /\ UNCHANGED registered
  <2>1. sess'[s].status = "CREATED" /\ sess'[s].dirty = sess[s].dirty
        /\ sess'[s].procs = sess[s].procs
    BY <1>1 DEF DirtyInv, TypeInv, TypeOK
  <2>2. \A x \in SessionId \ {s} : sess'[x] = sess[x]
    BY <1>1
  <2>3. QED
    BY <1>1, <2>1, <2>2 DEF ProvisionDone, DirtyInv, Dirty, RegUsed,
       ConfiguredOnlyAfterRun, TableDirty, ActiveSidUsed, StopDirty
<1>2. CASE UNCHANGED sess /\ registered' \subseteq registered
  BY <1>2 DEF ProvisionDone, DirtyInv, Dirty, RegUsed,
     ConfiguredOnlyAfterRun, TableDirty, ActiveSidUsed, StopDirty
<1>3. QED
  BY <1>1, <1>2 DEF ProvisionDone, DestroyDeploy

LEMMA DestroySessionDirty ==
  ASSUME NEW s \in SessionId
  PROVE  DirtyInv /\ DestroySession(s) => Dirty'
BY DEF DestroySession, DestroyDeploy, DirtyInv, Dirty, RegUsed,
   ConfiguredOnlyAfterRun, TableDirty, ActiveSidUsed, StopDirty

\* A new request runs only on a registered, hence handed-out, id.
LEMMA SessionUpdateDirty == DirtyInv /\ SessionUpdate => Dirty'
<1> SUFFICES ASSUME DirtyInv, SessionUpdate PROVE Dirty'
  OBVIOUS
<1>1. PICK s \in SessionId, cmds \in Pipelines :
         req' = [req EXCEPT ![nReq + 1] =
             IF s \notin registered
               THEN [IdleReq EXCEPT !.st = "err", !.sid = s, !.cmds = cmds,
                                    !.out = <<<<0, "err">>>>]
               ELSE [IdleReq EXCEPT !.st = IF cmds = <<>> THEN "ok" ELSE "run",
                                    !.sid = s, !.cmds = cmds]]
  BY DEF SessionUpdate
<1>2. \A r \in Req : req'[r] = req[r]
        \/ (req'[r].st \in {"ok", "err"})
        \/ (req'[r].st = "run" /\ req'[r].sid = s /\ s \in registered)
  BY <1>1 DEF IdleReq, DirtyInv, TypeInv, TypeOK
<1>3. QED
  BY <1>2 DEF SessionUpdate, DirtyInv, Dirty, RegUsed,
     ConfiguredOnlyAfterRun, TableDirty, ActiveSidUsed, StopDirty


\* The request parts of Dirty after a link that does not touch sessions.
LEMMA LinkReqDirty ==
  ASSUME DirtyInv, NEW r \in Req, NEW es, Advance(r, es) \/ Fail(r, es),
         UNCHANGED <<registered, used>>,
         \A x \in registered : sess'[x].dirty \/ ~sess[x].dirty
  PROVE  ActiveSidUsed' /\ StopDirty'
<1>1. /\ \A q \in Req : req'[q].sid = req[q].sid
      /\ \A q \in Req \ {r} : req'[q] = req[q]
      /\ req'[r].st \in {"ok", "run", "err"}
  BY LinkFrame DEF DirtyInv, TypeInv
<1>2. req[r].st \in {"run", "stop"} => req[r].sid \in used
  BY DEF DirtyInv, Dirty, ActiveSidUsed
<1>3. ActiveSidUsed'
  <2>1. req'[r].st \in {"run", "stop"} => req'[r].sid \in used'
    BY <1>1, <1>2 DEF Advance, Fail, DirtyInv, TypeInv, TypeOK, ReqRec
  <2>2. QED
    BY <1>1, <2>1 DEF DirtyInv, Dirty, ActiveSidUsed
<1>4. StopDirty'
  BY <1>1 DEF DirtyInv, Dirty, StopDirty
<1>5. QED
  BY <1>3, <1>4

LEMMA SkipOpenCloseDirty ==
  ASSUME NEW r \in Req
  PROVE  DirtyInv /\ SkipOpenClose(r) => Dirty'
<1> SUFFICES ASSUME DirtyInv, SkipOpenClose(r) PROVE Dirty'
  OBVIOUS
<1>1. ActiveSidUsed' /\ StopDirty'
  BY LinkReqDirty DEF SkipOpenClose
<1>2. QED
  BY <1>1 DEF SkipOpenClose, DirtyInv, Dirty, RegUsed,
     ConfiguredOnlyAfterRun, TableDirty, ActiveSidUsed, StopDirty

LEMMA TransferDirty ==
  ASSUME NEW r \in Req
  PROVE  DirtyInv /\ Transfer(r) => Dirty'
<1> SUFFICES ASSUME DirtyInv, Transfer(r) PROVE Dirty'
  OBVIOUS
<1>1. ActiveSidUsed' /\ StopDirty'
  BY LinkReqDirty DEF Transfer
<1>2. QED
  BY <1>1 DEF Transfer, DirtyInv, Dirty, RegUsed,
     ConfiguredOnlyAfterRun, TableDirty, ActiveSidUsed, StopDirty

\* The session parts of Dirty after a step that keeps the registry and
\* changes each registered session so that its dirty flag is kept or set,
\* it becomes CONFIGURED only if it was or is now dirty, and its table is
\* non-empty only if it was or the session is now dirty.
LEMMA SessDirty ==
  ASSUME DirtyInv, UNCHANGED <<registered, used>>,
         \A x \in registered :
           /\ sess'[x].dirty \/ ~sess[x].dirty
           /\ sess'[x].status = "CONFIGURED"
                => sess[x].status = "CONFIGURED" \/ sess'[x].dirty
           /\ ChildIds(sess'[x].procs) # {}
                => ChildIds(sess[x].procs) # {} \/ sess'[x].dirty
  PROVE  RegUsed' /\ ConfiguredOnlyAfterRun' /\ TableDirty'
BY DEF DirtyInv, Dirty, RegUsed, ConfiguredOnlyAfterRun, TableDirty

\* Exec only sets the dirty flag.
LEMMA ExecDirty ==
  ASSUME NEW r \in Req
  PROVE  DirtyInv /\ Exec(r) => Dirty'
<1> SUFFICES ASSUME DirtyInv, Exec(r) PROVE Dirty'
  OBVIOUS
<1>1. \A x \in registered : sess'[x].dirty \/ sess'[x] = sess[x]
  <2>1. CASE SidOf(r) \in registered /\ sess' = [sess EXCEPT ![SidOf(r)].dirty = TRUE]
    <3>1. sess[SidOf(r)] \in SessionRec
      BY <2>1 DEF DirtyInv, TypeInv, TypeOK
    <3>2. sess'[SidOf(r)] = [sess[SidOf(r)] EXCEPT !.dirty = TRUE]
      BY <2>1 DEF DirtyInv, TypeInv, TypeOK
    <3>3. QED
      BY <2>1, <3>1, <3>2 DEF SessionRec
  <2>2. CASE UNCHANGED sess
    BY <2>2
  <2>3. QED
    BY <2>1, <2>2 DEF Exec
<1>2. \A x \in registered : sess'[x].status = sess[x].status
                            /\ sess'[x].procs = sess[x].procs
  <2>1. CASE SidOf(r) \in registered /\ sess' = [sess EXCEPT ![SidOf(r)].dirty = TRUE]
    BY <2>1 DEF DirtyInv, TypeInv, TypeOK
  <2>2. CASE UNCHANGED sess
    BY <2>2
  <2>3. QED
    BY <2>1, <2>2 DEF Exec
<1>3. RegUsed' /\ ConfiguredOnlyAfterRun' /\ TableDirty'
  BY <1>1, <1>2, SessDirty DEF Exec
<1>4. ActiveSidUsed' /\ StopDirty'
  BY <1>1, LinkReqDirty DEF Exec
<1>5. QED
  BY <1>3, <1>4 DEF Dirty

\* Tags only change the tag set.
LEMMA TagsDirty ==
  ASSUME NEW r \in Req
  PROVE  DirtyInv /\ Tags(r) => Dirty'
<1> SUFFICES ASSUME DirtyInv, Tags(r) PROVE Dirty'
  OBVIOUS
<1>1. \A x \in registered : /\ sess'[x].dirty = sess[x].dirty
                            /\ sess'[x].status = sess[x].status
                            /\ sess'[x].procs = sess[x].procs
  <2>1. CASE SidOf(r) \in registered
             /\ sess' = [sess EXCEPT ![SidOf(r)].tags =
                           IF Cmd(r).op = "AddTags" THEN @ \cup Cmd(r).tags
                                                    ELSE @ \ Cmd(r).tags]
    BY <2>1 DEF DirtyInv, TypeInv, TypeOK
  <2>2. CASE UNCHANGED sess
    BY <2>2
  <2>3. QED
    BY <2>1, <2>2 DEF Tags
<1>2. RegUsed' /\ ConfiguredOnlyAfterRun' /\ TableDirty'
  BY <1>1, SessDirty DEF Tags
<1>3. ActiveSidUsed' /\ StopDirty'
  BY <1>1, LinkReqDirty DEF Tags
<1>4. QED
  BY <1>2, <1>3 DEF Dirty

\* insert_process marks the session it fills dirty.
LEMMA StartDirty ==
  ASSUME NEW r \in Req
  PROVE  DirtyInv /\ Start(r) => Dirty'
<1> SUFFICES ASSUME DirtyInv, Start(r) PROVE Dirty'
  OBVIOUS
<1>1. \A x \in registered : sess'[x].dirty \/ sess'[x] = sess[x]
  <2>1. CASE SidOf(r) \in registered
             /\ \E cid \in ChildId \ ChildIds(sess[SidOf(r)].procs) :
                  sess' = [sess EXCEPT ![SidOf(r)] =
                             InsertProcess(sess[SidOf(r)], cid, nSpawn + 1)]
    <3>1. PICK cid \in ChildId : sess' = [sess EXCEPT ![SidOf(r)] =
                             InsertProcess(sess[SidOf(r)], cid, nSpawn + 1)]
      BY <2>1
    <3>2. sess[SidOf(r)] \in SessionRec
      BY <2>1 DEF DirtyInv, TypeInv, TypeOK
    <3>3. sess'[SidOf(r)].dirty
      BY <2>1, <3>1, <3>2 DEF InsertProcess, SessionRec, DirtyInv, TypeInv, TypeOK
    <3>4. QED
      BY <3>1, <3>3
  <2>2. CASE UNCHANGED sess
    BY <2>2
  <2>3. QED
    BY <2>1, <2>2 DEF Start
<1>2. RegUsed' /\ ConfiguredOnlyAfterRun' /\ TableDirty'
  BY <1>1, SessDirty DEF Start
<1>3. ActiveSidUsed' /\ StopDirty'
  BY <1>1, LinkReqDirty DEF Start
<1>4. QED
  BY <1>2, <1>3 DEF Dirty


\* Stop's first link empties a table entry of a session that, having a
\* child, is dirty; the request then waits for the Kill on that session.
LEMMA StopBeginDirty ==
  ASSUME NEW r \in Req
  PROVE  DirtyInv /\ StopBegin(r) => Dirty'
<1> SUFFICES ASSUME DirtyInv, StopBegin(r) PROVE Dirty'
  OBVIOUS
<1> DEFINE s == SidOf(r)
           c == Cmd(r).child
<1>1. req[r].st = "run"
  BY DEF StopBegin, Running
<1>2. CASE s \in registered /\ c \in ChildIds(sess[s].procs)
           /\ sess' = [sess EXCEPT ![s].procs[c] = NoPid]
           /\ req' = [req EXCEPT ![r].st = "stop", ![r].hold = sess[s].procs[c]]
  <2>1. sess[s] \in SessionRec /\ sess[s].dirty
    BY <1>2 DEF DirtyInv, TypeInv, TypeOK, Dirty, TableDirty
  <2>2. \A x \in registered : /\ sess'[x].dirty = sess[x].dirty
                              /\ sess'[x].status = sess[x].status
                              /\ (ChildIds(sess'[x].procs) # {}
                                    => ChildIds(sess[x].procs) # {})
    BY <1>2, <2>1 DEF DirtyInv, TypeInv, TypeOK, SessionRec
  <2>3. RegUsed' /\ ConfiguredOnlyAfterRun' /\ TableDirty'
    BY <1>2, <2>2, SessDirty DEF StopBegin
  <2>4. req[r] \in ReqRec
    BY DEF DirtyInv, TypeInv, TypeOK
  <2>5. /\ req'[r].st = "stop" /\ req'[r].sid = s
        /\ \A q \in Req \ {r} : req'[q] = req[q]
    BY <1>2, <2>4 DEF DirtyInv, TypeInv, TypeOK, ReqRec, SidOf
  <2>6. s \in used
    BY <1>1 DEF DirtyInv, Dirty, ActiveSidUsed, SidOf
  <2>7. sess'[s].dirty
    BY <2>1, <2>2, <1>2
  <2>8. ActiveSidUsed' /\ StopDirty'
    BY <2>5, <2>6, <2>7, <2>2 DEF StopBegin, DirtyInv, Dirty, ActiveSidUsed,
       StopDirty
  <2>9. QED
    BY <2>3, <2>8 DEF Dirty
<1>3. CASE Fail(r, <<ErrE(r)>>) /\ UNCHANGED sess
  <2>1. ActiveSidUsed' /\ StopDirty'
    BY <1>3, LinkReqDirty DEF StopBegin
  <2>2. QED
    BY <1>3, <2>1 DEF StopBegin, DirtyInv, Dirty, RegUsed,
       ConfiguredOnlyAfterRun, TableDirty
<1>4. QED
  BY <1>2, <1>3 DEF StopBegin

\* Stop's second link sets CONFIGURED only on the session its request
\* waits on, which StopDirty says is dirty.
LEMMA StopEndDirty ==
  ASSUME NEW r \in Req
  PROVE  DirtyInv /\ StopEnd(r) => Dirty'
<1> SUFFICES ASSUME DirtyInv, StopEnd(r) PROVE Dirty'
  OBVIOUS
<1> DEFINE s == SidOf(r)
<1>1. req[r].st = "stop"
  BY DEF StopEnd
<1>2. \A x \in registered : sess'[x].dirty = sess[x].dirty
                            /\ sess'[x].procs = sess[x].procs
                            /\ (sess'[x].status = "CONFIGURED"
                                  => sess[x].status = "CONFIGURED" \/ sess[x].dirty)
  <2>1. CASE s \in registered
             /\ sess' = [sess EXCEPT ![s].status =
                          IF ChildIds(sess[s].procs) = {} THEN "CONFIGURED" ELSE @]
    <3>1. sess[s].dirty
      BY <1>1, <2>1 DEF DirtyInv, Dirty, StopDirty, SidOf
    <3>2. QED
      BY <2>1, <3>1 DEF DirtyInv, TypeInv, TypeOK
  <2>2. CASE UNCHANGED sess
    BY <2>2
  <2>3. QED
    BY <2>1, <2>2 DEF StopEnd
<1>3. RegUsed' /\ ConfiguredOnlyAfterRun' /\ TableDirty'
  BY <1>2, SessDirty DEF StopEnd
<1>4. ActiveSidUsed' /\ StopDirty'
  BY <1>2, LinkReqDirty DEF StopEnd
<1>5. QED
  BY <1>3, <1>4 DEF Dirty

\* The reaper sets CONFIGURED only on a session whose table it emptied.
LEMMA ReapDirty == DirtyInv /\ Reap => Dirty'
<1> SUFFICES ASSUME DirtyInv, Reap PROVE Dirty'
  OBVIOUS
<1>1. \A x \in registered : sess'[x] = ScanSession(sess[x], proc)
                            /\ sess[x] \in SessionRec
  BY DEF Reap, DirtyInv, TypeInv, TypeOK
<1>2. \A x \in registered :
        /\ sess'[x].dirty = sess[x].dirty
        /\ sess'[x].status = "CONFIGURED"
             => sess[x].status = "CONFIGURED" \/ sess[x].dirty
        /\ ChildIds(sess'[x].procs) # {} => ChildIds(sess[x].procs) # {}
  <2> SUFFICES ASSUME NEW x \in registered
               PROVE  /\ sess'[x].dirty = sess[x].dirty
                      /\ sess'[x].status = "CONFIGURED"
                           => sess[x].status = "CONFIGURED" \/ sess[x].dirty
                      /\ ChildIds(sess'[x].procs) # {}
                           => ChildIds(sess[x].procs) # {}
    OBVIOUS
  <2>1. ChildIds(sess[x].procs) # {} => sess[x].dirty
    BY DEF DirtyInv, Dirty, TableDirty
  <2>2. sess'[x] = ScanSession(sess[x], proc) /\ sess[x] \in SessionRec
    BY <1>1
  <2>3. /\ ScanSession(sess[x], proc).dirty = sess[x].dirty
        /\ ChildIds(ScanSession(sess[x], proc).procs) \subseteq ChildIds(sess[x].procs)
        /\ ScanSession(sess[x], proc).status = "CONFIGURED"
             => sess[x].status = "CONFIGURED" \/ ChildIds(sess[x].procs) # {}
    BY <2>2, ScanSessionFacts
  <2>4. QED
    BY <2>1, <2>2, <2>3
<1>3. RegUsed' /\ ConfiguredOnlyAfterRun' /\ TableDirty'
  BY <1>2, SessDirty DEF Reap
<1>4. ActiveSidUsed' /\ StopDirty'
  BY <1>2 DEF Reap, DirtyInv, Dirty, ActiveSidUsed, StopDirty
<1>5. QED
  BY <1>3, <1>4 DEF Dirty

LEMMA ProcessExitDirty ==
  ASSUME NEW p \in Pid
  PROVE  DirtyInv /\ ProcessExit(p) => Dirty'
BY DEF ProcessExit, DirtyInv, Dirty, RegUsed, ConfiguredOnlyAfterRun,
   TableDirty, ActiveSidUsed, StopDirty


-----------------------------------------------------------------------------
(* The invariant                                                           *)

LEMMA InitDirtyInv == Init => DirtyInv
<1> SUFFICES ASSUME Init PROVE DirtyInv
  OBVIOUS
<1>1. TypeInv
  BY InitTypeInv
<1>2. Dirty
  BY DEF Init, IdleReq, Dirty, RegUsed, ConfiguredOnlyAfterRun, TableDirty,
     ActiveSidUsed, StopDirty
<1>3. QED
  BY <1>1, <1>2 DEF DirtyInv

LEMMA DirtyInvInductive ==
  ASSUME ~ReuseIds
  PROVE  DirtyInv /\ [Next]_vars => DirtyInv'
<1> SUFFICES ASSUME DirtyInv, [Next]_vars PROVE DirtyInv'
  OBVIOUS
<1>1. TypeInv'
  BY TypeInvInductive DEF DirtyInv
<1>2. Dirty'
  <2>1. CASE CreateSession
    BY <2>1, CreateSessionDirty
  <2>2. ASSUME NEW s \in SessionId, ProvisionDone(s) \/ DestroySession(s)
        PROVE  Dirty'
    BY <2>2, ProvisionDoneDirty, DestroySessionDirty
  <2>3. CASE SessionUpdate
    BY <2>3, SessionUpdateDirty
  <2>4. ASSUME NEW r \in Req,
               \/ SkipOpenClose(r) \/ Exec(r) \/ Start(r) \/ StopBegin(r)
               \/ StopEnd(r) \/ Tags(r) \/ Transfer(r)
        PROVE  Dirty'
    BY <2>4, SkipOpenCloseDirty, ExecDirty, StartDirty, StopBeginDirty,
       StopEndDirty, TagsDirty, TransferDirty
  <2>5. CASE Reap
    BY <2>5, ReapDirty
  <2>6. ASSUME NEW p \in Pid, ProcessExit(p) PROVE Dirty'
    BY <2>6, ProcessExitDirty
  <2>7. CASE UNCHANGED vars
    BY <2>7 DEF vars, DirtyInv, Dirty, RegUsed, ConfiguredOnlyAfterRun,
       TableDirty, ActiveSidUsed, StopDirty
  <2>8. QED
    BY <2>1, <2>2, <2>3, <2>4, <2>5, <2>6, <2>7 DEF Next
<1>3. QED
  BY <1>1, <1>2 DEF DirtyInv

\* When session ids are never reused, the reaper and Stop's Kill result
\* set CONFIGURED only on a session that ran something (Exec or Start made
\* it dirty): no registered session is CONFIGURED and clean.
THEOREM ConfiguredOnlyAfterRunHolds ==
  ASSUME ~ReuseIds
  PROVE  Spec => []ConfiguredOnlyAfterRun
<1>1. Init => DirtyInv
  BY InitDirtyInv
<1>2. DirtyInv /\ [Next]_vars => DirtyInv'
  BY DirtyInvInductive
<1>3. DirtyInv => ConfiguredOnlyAfterRun
  BY DEF DirtyInv, Dirty
<1>4. QED
  BY <1>1, <1>2, <1>3, PTL DEF Spec

====

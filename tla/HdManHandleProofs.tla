------------------------- MODULE HdManHandleProofs -------------------------
(***************************************************************************)
(* Proof of HandleAccounting for every value of the constants, with or     *)
(* without reuse of session ids.                                           *)
(*                                                                         *)
(* HandleAccounting is not inductive as it stands.  Start gives its handle *)
(* to the table untouched only because the process it spawns, number      *)
(* nSpawn + 1, is held by nobody yet; StopBegin moves a handle from the    *)
(* table to a request that held none; and SessionUpdate overwrites a slot  *)
(* that holds none.  So the invariant carries that every handle held is    *)
(* one already spawned (Fresh), that only a Stop waiting for its Kill      *)
(* holds a handle (HoldOnlyInStop), and that the slots not yet used are    *)
(* idle (SlotsUnused).  HandleAccounting itself is proved in the pointwise *)
(* form Unique /\ Kept, which the provers handle better than sets of       *)
(* holders.                                                                *)
(***************************************************************************)
EXTENDS HdManConfiguredProofs

USE SessionInfoAssumption, HdManAssumption

Fresh ==
  /\ \A s \in registered, c \in ChildId : sess[s].procs[c] <= nSpawn
  /\ \A r \in Req : req[r].hold <= nSpawn
  /\ \A p \in Pid : p > nSpawn => proc[p] = "none" /\ p \notin inserted

HoldOnlyInStop ==
  \A r \in Req : req[r].st = "stop" <=> req[r].hold # NoPid

SlotsUnused == \A r \in Req : r > nReq => req[r].st = "idle"

\* No handle is in two table entries, with two Stops, or in a table and
\* with a Stop.
Unique ==
  /\ \A s1, s2 \in registered, c1, c2 \in ChildId :
       sess[s1].procs[c1] = sess[s2].procs[c2] /\ sess[s1].procs[c1] # NoPid
         => s1 = s2 /\ c1 = c2
  /\ \A r1, r2 \in Req :
       req[r1].hold = req[r2].hold /\ req[r1].hold # NoPid => r1 = r2
  /\ \A s \in registered, c \in ChildId, r \in Req :
       req[r].hold # NoPid => sess[s].procs[c] # req[r].hold

\* A running process put in a table is still in one, or with a Stop.
Kept ==
  \A p \in inserted :
    proc[p] = "alive" =>
      \/ \E s \in registered, c \in ChildId : sess[s].procs[c] = p
      \/ \E r \in Req : req[r].hold = p

HInv == TypeInv /\ Fresh /\ HoldOnlyInStop /\ SlotsUnused /\ Unique /\ Kept

-----------------------------------------------------------------------------
\* The pointwise form gives HandleAccounting: a holder of p is an entry
\* or a Stop whose handle is p, and p is not NoPid.
LEMMA UniqueKeptAccounting ==
  ASSUME TypeOK, HoldOnlyInStop, Unique, Kept
  PROVE  HandleAccounting
<1> SUFFICES ASSUME NEW p \in Pid
             PROVE  /\ HeldOnce(p)
                    /\ p \in inserted /\ proc[p] = "alive" =>
                         TableHolders(p) # {} \/ StopHolders(p) # {}
  BY DEF HandleAccounting
<1>1. p # NoPid
  BY DEF Pid, NoPid
<1>2. \A x, y \in TableHolders(p) : x = y
  BY <1>1 DEF TableHolders, Unique
<1>3. \A r1, r2 \in StopHolders(p) : r1 = r2
  BY <1>1 DEF StopHolders, Unique
<1>4. TableHolders(p) = {} \/ StopHolders(p) = {}
  BY <1>1 DEF TableHolders, StopHolders, Unique
<1>5. p \in inserted /\ proc[p] = "alive" =>
        TableHolders(p) # {} \/ StopHolders(p) # {}
  <2> SUFFICES ASSUME p \in inserted, proc[p] = "alive"
               PROVE  TableHolders(p) # {} \/ StopHolders(p) # {}
    OBVIOUS
  <2>1. CASE \E s \in registered, c \in ChildId : sess[s].procs[c] = p
    <3>1. PICK s \in registered, c \in ChildId : sess[s].procs[c] = p
      BY <2>1
    <3>2. <<s, c>> \in TableHolders(p)
      BY <3>1 DEF TableHolders
    <3>3. QED
      BY <3>2
  <2>2. CASE \E r \in Req : req[r].hold = p
    BY <2>2, <1>1 DEF StopHolders, HoldOnlyInStop
  <2>3. QED
    BY <2>1, <2>2 DEF Kept
<1>6. QED
  BY <1>2, <1>3, <1>4, <1>5 DEF HeldOnce

LEMMA InitHInv == Init => HInv
<1> SUFFICES ASSUME Init PROVE HInv
  OBVIOUS
<1>1. TypeInv
  BY InitTypeInv
<1>2. Fresh /\ HoldOnlyInStop /\ SlotsUnused /\ Unique /\ Kept
  BY DEF Init, IdleReq, Fresh, HoldOnlyInStop, SlotsUnused, Unique, Kept, NoPid
<1>3. QED
  BY <1>1, <1>2 DEF HInv

\* Table entries and held handles are numbers.
LEMMA HandlesNat ==
  ASSUME TypeOK
  PROVE  /\ \A x \in SessionId, c \in ChildId : sess[x].procs[c] \in Nat
         /\ \A q \in Req : req[q].hold \in Nat
<1>1. Pid \cup {NoPid} \subseteq Nat
  BY DEF Pid, NoPid
<1>2. ASSUME NEW x \in SessionId, NEW c \in ChildId PROVE sess[x].procs[c] \in Nat
  <2>1. sess[x] \in SessionRec
    BY DEF TypeOK
  <2>2. sess[x].procs \in ProcTable
    BY <2>1 DEF SessionRec
  <2>3. QED
    BY <1>1, <2>2 DEF ProcTable
<1>3. ASSUME NEW q \in Req PROVE req[q].hold \in Nat
  <2>1. req[q] \in ReqRec
    BY DEF TypeOK
  <2>2. QED
    BY <1>1, <2>1 DEF ReqRec
<1>4. QED
  BY <1>2, <1>3

\* The counters are numbers and the registry holds session ids.
LEMMA CountersNat ==
  ASSUME TypeOK
  PROVE  /\ nSpawn \in Nat /\ nReq \in Nat /\ Req \subseteq Nat
         /\ registered \subseteq SessionId
BY DEF TypeOK, Req

Rest == Fresh /\ HoldOnlyInStop /\ SlotsUnused /\ Unique /\ Kept

-----------------------------------------------------------------------------
(* Each action keeps Rest                                                  *)

\* A step that moves no handle keeps Rest: the registry, the tables of the
\* registered sessions and the handles of the requests stay, no request
\* enters or leaves the Stop wait, an idle slot stays idle, and a process
\* is alive afterwards only if it was, and not spawned only if it was not.
LEMMA Quiet ==
  ASSUME TypeOK, Rest,
         UNCHANGED <<registered, inserted, nSpawn, nReq>>,
         \A s \in registered : sess'[s].procs = sess[s].procs,
         \A r \in Req : /\ req'[r].hold = req[r].hold
                        /\ req'[r].st = "stop" <=> req[r].st = "stop"
                        /\ req[r].st = "idle" => req'[r] = req[r],
         \A p \in Pid : /\ proc'[p] = "alive" => proc[p] = "alive"
                        /\ proc[p] = "none" => proc'[p] = "none"
  PROVE  Rest'
<1>1. Fresh'
  BY DEF Rest, Fresh
<1>2. HoldOnlyInStop'
  BY DEF Rest, HoldOnlyInStop
<1>3. SlotsUnused'
  BY DEF Rest, SlotsUnused
<1>4. Unique'
  BY DEF Rest, Unique
<1>5. Kept'
  <2> SUFFICES ASSUME NEW p \in inserted', proc'[p] = "alive"
               PROVE  \/ \E s \in registered', c \in ChildId : sess'[s].procs[c] = p
                      \/ \E r \in Req : req'[r].hold = p
    BY DEF Kept
  <2>1. p \in Pid
    BY DEF TypeOK
  <2>2. \/ \E s \in registered, c \in ChildId : sess[s].procs[c] = p
        \/ \E r \in Req : req[r].hold = p
    BY <2>1 DEF Rest, Kept
  <2>3. QED
    BY <2>2
<1>6. QED
  BY <1>1, <1>2, <1>3, <1>4, <1>5 DEF Rest

\* A link of a running request holds nothing before or after, and leaves
\* the other requests alone.
LEMMA LinkHold ==
  ASSUME TypeOK, HoldOnlyInStop, NEW r \in Req, req[r].st = "run", NEW es,
         Advance(r, es) \/ Fail(r, es)
  PROVE  \A q \in Req : /\ req'[q].hold = req[q].hold
                        /\ req'[q].st = "stop" <=> req[q].st = "stop"
                        /\ req[q].st = "idle" => req'[q] = req[q]
<1>1. /\ \A q \in Req \ {r} : req'[q] = req[q]
      /\ req'[r].st \in {"ok", "run", "err"}
  BY LinkFrame
<1>2. req'[r].hold = NoPid /\ req[r].hold = NoPid
  <2>1. req[r] \in ReqRec
    BY DEF TypeOK
  <2>2. req \in [Req -> ReqRec]
    BY DEF TypeOK
  <2>3. req'[r].hold = NoPid
    <3>1. CASE Advance(r, es)
      <4>1. req' = [req EXCEPT ![r] = [req[r] EXCEPT
                     !.pc = req[r].pc + 1, !.out = req[r].out \o es,
                     !.st = IF req[r].pc = Len(req[r].cmds) THEN "ok" ELSE "run",
                     !.hold = NoPid]]
        BY <3>1 DEF Advance
      <4>2. QED
        BY <2>1, <2>2, <4>1 DEF ReqRec
    <3>2. CASE Fail(r, es)
      <4>1. req' = [req EXCEPT ![r] = [req[r] EXCEPT
                     !.out = req[r].out \o es, !.st = "err", !.hold = NoPid]]
        BY <3>2 DEF Fail
      <4>2. QED
        BY <2>1, <2>2, <4>1 DEF ReqRec
    <3>3. QED
      BY <3>1, <3>2
  <2>4. QED
    BY <2>3 DEF HoldOnlyInStop
<1>3. QED
  BY <1>1, <1>2

\* The links that move no handle: Open and Close, Exec, the tag commands
\* and the transfers change at most the dirty flag or the tags of a
\* session.
LEMMA QuietLinks ==
  ASSUME TypeInv, Rest, NEW r \in Req,
         SkipOpenClose(r) \/ Exec(r) \/ Tags(r) \/ Transfer(r)
  PROVE  Rest'
<1>1. req[r].st = "run"
  BY DEF SkipOpenClose, Exec, Tags, Transfer, Running
<1>2. \E es : Advance(r, es) \/ Fail(r, es)
  BY DEF SkipOpenClose, Exec, Tags, Transfer
<1>3. \A q \in Req : /\ req'[q].hold = req[q].hold
                     /\ req'[q].st = "stop" <=> req[q].st = "stop"
                     /\ req[q].st = "idle" => req'[q] = req[q]
  BY <1>1, <1>2, LinkHold DEF TypeInv, Rest
<1>4. \A x \in registered : sess'[x].procs = sess[x].procs
  <2>1. CASE SidOf(r) \in registered /\ sess' = [sess EXCEPT ![SidOf(r)].dirty = TRUE]
    BY <2>1 DEF TypeInv, TypeOK
  <2>2. CASE SidOf(r) \in registered
             /\ sess' = [sess EXCEPT ![SidOf(r)].tags =
                           IF Cmd(r).op = "AddTags" THEN @ \cup Cmd(r).tags
                                                    ELSE @ \ Cmd(r).tags]
    BY <2>2 DEF TypeInv, TypeOK
  <2>3. CASE UNCHANGED sess
    BY <2>3
  <2>4. QED
    BY <2>1, <2>2, <2>3 DEF SkipOpenClose, Exec, Tags, Transfer
<1>5. QED
  BY <1>3, <1>4, Quiet DEF SkipOpenClose, Exec, Tags, Transfer, TypeInv

\* A process exit only turns a running process into an exited one.
LEMMA ProcessExitRest ==
  ASSUME TypeInv, Rest, NEW p \in Pid, ProcessExit(p)
  PROVE  Rest'
<1>1. \A q \in Pid : /\ proc'[q] = "alive" => proc[q] = "alive"
                     /\ proc[q] = "none" => proc'[q] = "none"
  BY DEF ProcessExit, TypeInv, TypeOK
<1>2. QED
  BY <1>1, Quiet DEF ProcessExit, TypeInv

\* destroy_deploy kills and waits for every child of s and may unregister
\* s: a process still running after it was not in the table of s, so its
\* holder, in another table or with a Stop, is still there.
LEMMA DestroyDeployRest ==
  ASSUME TypeInv, Rest, NEW s \in SessionId, DestroyDeploy(s),
         UNCHANGED <<sess, req, inserted, nSpawn, nReq>>
  PROVE  Rest'
<1>1. s \in registered /\ registered' \subseteq registered
      /\ \A x \in registered \ {s} : x \in registered'
  BY DEF DestroyDeploy
<1>2. proc' = [p \in Pid |-> IF p \in Held(sess[s].procs) THEN "reaped"
                                                          ELSE proc[p]]
  BY DEF DestroyDeploy, Teardown
<1>3. \A p \in Pid : p > nSpawn => p \notin Held(sess[s].procs)
  <2>1. nSpawn \in Nat /\ \A c \in ChildId : sess[s].procs[c] <= nSpawn
    BY <1>1 DEF TypeInv, TypeOK, Rest, Fresh
  <2>2. QED
    BY <2>1 DEF Held, ChildIds, Pid
<1>4. Fresh'
  BY <1>1, <1>2, <1>3 DEF Rest, Fresh
<1>5. HoldOnlyInStop' /\ SlotsUnused' /\ Unique'
  BY <1>1 DEF Rest, HoldOnlyInStop, SlotsUnused, Unique
<1>6. Kept'
  <2> SUFFICES ASSUME NEW p \in inserted', proc'[p] = "alive"
               PROVE  \/ \E x \in registered', c \in ChildId : sess'[x].procs[c] = p
                      \/ \E r \in Req : req'[r].hold = p
    BY DEF Kept
  <2>1. p \in Pid /\ p \notin Held(sess[s].procs) /\ proc[p] = "alive"
    BY <1>2 DEF TypeInv, TypeOK
  <2>2. p # NoPid
    BY <2>1 DEF Pid, NoPid
  <2>3. \A c \in ChildId : sess[s].procs[c] # p
    BY <2>1, <2>2 DEF Held, ChildIds
  <2>4. CASE \E x \in registered, c \in ChildId : sess[x].procs[c] = p
    BY <2>4, <2>3, <1>1
  <2>5. CASE \E r \in Req : req[r].hold = p
    BY <2>5
  <2>6. QED
    BY <2>1, <2>4, <2>5 DEF Rest, Kept
<1>7. QED
  BY <1>4, <1>5, <1>6 DEF Rest

LEMMA DestroySessionRest ==
  ASSUME TypeInv, Rest, NEW s \in SessionId, DestroySession(s)
  PROVE  Rest'
BY DestroyDeployRest DEF DestroySession

\* The completion of a download sets CREATED or rolls the session back.
LEMMA ProvisionDoneRest ==
  ASSUME TypeInv, Rest, NEW s \in SessionId, ProvisionDone(s)
  PROVE  Rest'
<1>1. CASE s \in registered /\ sess' = [sess EXCEPT ![s].status = "CREATED"]
           /\ UNCHANGED <<registered, proc>>
  <2>1. \A x \in registered : sess'[x].procs = sess[x].procs
    BY <1>1 DEF TypeInv, TypeOK
  <2>2. QED
    BY <1>1, <2>1, Quiet DEF ProvisionDone, TypeInv
<1>2. CASE s \notin registered /\ UNCHANGED <<registered, sess, proc>>
  BY <1>2, Quiet DEF ProvisionDone, TypeInv
<1>3. CASE DestroyDeploy(s) /\ UNCHANGED sess
  BY <1>3, DestroyDeployRest DEF ProvisionDone
<1>4. QED
  BY <1>1, <1>2, <1>3 DEF ProvisionDone

\* CreateSession registers an id with an empty table.
LEMMA CreateSessionRest ==
  ASSUME TypeInv, Rest, CreateSession
  PROVE  Rest'
<1>1. PICK s \in SessionId \ registered, tags \in SUBSET Tag :
             \/ UNCHANGED <<registered, sess, prov>>
             \/ /\ registered' = registered \cup {s}
                /\ sess' = [sess EXCEPT ![s] = NewSession(tags)]
  BY DEF CreateSession
<1>2. CASE UNCHANGED <<registered, sess, prov>>
  BY <1>2, Quiet DEF CreateSession, TypeInv
<1>3. CASE registered' = registered \cup {s}
           /\ sess' = [sess EXCEPT ![s] = NewSession(tags)]
  <2>1. \A c \in ChildId : sess'[s].procs[c] = NoPid
    BY <1>3 DEF TypeInv, TypeOK, NewSession, EmptyTable
  <2>2. \A x \in registered : sess'[x] = sess[x]
    BY <1>1, <1>3
  <2>3. nSpawn \in Nat /\ UNCHANGED <<proc, req, inserted, nSpawn, nReq>>
    BY DEF CreateSession, TypeInv, TypeOK
  <2>4. Fresh'
    BY <1>3, <2>1, <2>2, <2>3 DEF Rest, Fresh, NoPid
  <2>5. HoldOnlyInStop' /\ SlotsUnused'
    BY <2>3 DEF Rest, HoldOnlyInStop, SlotsUnused
  <2>6. Unique'
    BY <1>3, <2>1, <2>2, <2>3 DEF Rest, Unique
  <2>7. Kept'
    BY <1>3, <2>2, <2>3 DEF Rest, Kept
  <2>8. QED
    BY <2>4, <2>5, <2>6, <2>7 DEF Rest
<1>4. QED
  BY <1>1, <1>2, <1>3

\* SessionUpdate fills the first unused slot, which holds nothing, with a
\* request that holds nothing.
LEMMA SessionUpdateRest ==
  ASSUME TypeInv, Rest, SessionUpdate
  PROVE  Rest'
<1>1. PICK s \in SessionId, cmds \in Pipelines :
         req' = [req EXCEPT ![nReq + 1] =
             IF s \notin registered
               THEN [IdleReq EXCEPT !.st = "err", !.sid = s, !.cmds = cmds,
                                    !.out = <<<<0, "err">>>>]
               ELSE [IdleReq EXCEPT !.st = IF cmds = <<>> THEN "ok" ELSE "run",
                                    !.sid = s, !.cmds = cmds]]
  BY DEF SessionUpdate
<1>2. nReq \in Nat /\ nReq' = nReq + 1
  BY DEF SessionUpdate, TypeInv, TypeOK
<1>3. nReq + 1 \in Req
  BY <1>2 DEF SessionUpdate, Req
<1>4. QED
  <2>1. req[nReq + 1].hold = NoPid
    BY <1>2, <1>3 DEF Rest, SlotsUnused, HoldOnlyInStop
  <2>2. req'[nReq + 1].hold = NoPid /\ req'[nReq + 1].st # "stop"
    BY <1>1, <1>3 DEF IdleReq, TypeInv, TypeOK
  <2>3. \A q \in Req \ {nReq + 1} : req'[q] = req[q]
    BY <1>1 DEF TypeInv, TypeOK
  <2>4. \A q \in Req : req'[q].hold = req[q].hold
    BY <2>1, <2>2, <2>3
  <2>5. Fresh' /\ Unique' /\ Kept'
    BY <2>4 DEF SessionUpdate, Rest, Fresh, Unique, Kept
  <2>6. HoldOnlyInStop'
    BY <2>1, <2>2, <2>3 DEF Rest, HoldOnlyInStop, NoPid
  <2>7. SlotsUnused'
    BY <1>2, <2>3 DEF Rest, SlotsUnused, Req
  <2>8. QED
    BY <2>5, <2>6, <2>7 DEF Rest

\* A failed link of a running request moves no handle.
LEMMA FailRest ==
  ASSUME TypeInv, Rest, NEW r \in Req, req[r].st = "run", NEW es,
         Fail(r, es) \/ Advance(r, es),
         UNCHANGED <<registered, sess, proc, inserted, nSpawn, nReq>>
  PROVE  Rest'
<1>1. \A q \in Req : /\ req'[q].hold = req[q].hold
                     /\ req'[q].st = "stop" <=> req[q].st = "stop"
                     /\ req[q].st = "idle" => req'[q] = req[q]
  BY LinkHold DEF TypeInv, Rest
<1>2. QED
  BY <1>1, Quiet DEF TypeInv

\* Start spawns process nSpawn + 1, which nobody holds, and gives its
\* handle to one free entry of the session's table, or to nobody when the
\* session is gone (then it was never inserted).
LEMMA StartRest ==
  ASSUME TypeInv, Rest, NEW r \in Req, Start(r)
  PROVE  Rest'
<1> DEFINE sid == SidOf(r)
           np  == nSpawn + 1
<1>1. req[r].st = "run"
  BY DEF Start, Running
<1>2. CASE Fail(r, <<ErrE(r)>>) /\ UNCHANGED <<sess, proc, inserted, nSpawn>>
  BY <1>1, <1>2, FailRest DEF Start
<1>3. CASE /\ nSpawn < MaxSpawn /\ nSpawn' = np
           /\ proc' = [proc EXCEPT ![np] = "alive"]
           /\ \/ /\ sid \in registered
                 /\ \E cid \in ChildId \ ChildIds(sess[sid].procs) :
                      sess' = [sess EXCEPT ![sid] = InsertProcess(sess[sid], cid, np)]
                 /\ inserted' = inserted \cup {np}
                 /\ Advance(r, <<OkE(r)>>)
              \/ /\ sid \notin registered
                 /\ Fail(r, <<ErrE(r)>>)
                 /\ UNCHANGED <<sess, inserted>>
  <2>1. nSpawn \in Nat /\ np \in Pid /\ proc[np] = "none" /\ np \notin inserted
    BY <1>3 DEF TypeInv, TypeOK, Rest, Fresh, Pid
  <2>2. /\ \A q \in Req : /\ req'[q].hold = req[q].hold
                          /\ req'[q].st = "stop" <=> req[q].st = "stop"
                          /\ req[q].st = "idle" => req'[q] = req[q]
        /\ UNCHANGED <<registered, nReq>>
    BY <1>1, <1>3, LinkHold DEF Start, TypeInv, Rest
  <2>3. HoldOnlyInStop' /\ SlotsUnused'
    BY <2>2 DEF Rest, HoldOnlyInStop, SlotsUnused
  <2>4. \A q \in Req : req[q].hold <= nSpawn
    BY DEF Rest, Fresh
  <2>0. /\ \A x \in SessionId, c \in ChildId : sess[x].procs[c] \in Nat
        /\ \A q \in Req : req[q].hold \in Nat
    BY HandlesNat DEF TypeInv
  <2>9. registered \subseteq SessionId /\ proc \in [Pid -> ProcState]
    BY DEF TypeInv, TypeOK
  <2>5. CASE sid \notin registered /\ UNCHANGED <<sess, inserted>>
    <3>1. Fresh'
      <4>1. \A x \in registered', c \in ChildId : sess'[x].procs[c] <= nSpawn'
        BY <1>3, <2>0, <2>1, <2>2, <2>5, <2>9 DEF Rest, Fresh
      <4>2. \A q \in Req : req'[q].hold <= nSpawn'
        BY <1>3, <2>0, <2>1, <2>2, <2>4
      <4>3. \A p \in Pid : p > nSpawn' => proc'[p] = "none" /\ p \notin inserted'
        BY <1>3, <2>1, <2>5, <2>9 DEF Rest, Fresh, Pid
      <4>4. QED
        BY <4>1, <4>2, <4>3 DEF Fresh
    <3>2. Unique'
      BY <2>2, <2>5 DEF Rest, Unique
    <3>3. Kept'
      BY <1>3, <2>1, <2>2, <2>5 DEF Rest, Kept
    <3>4. QED
      BY <2>3, <3>1, <3>2, <3>3 DEF Rest
  <2>6. CASE /\ sid \in registered
             /\ \E cid \in ChildId \ ChildIds(sess[sid].procs) :
                  sess' = [sess EXCEPT ![sid] = InsertProcess(sess[sid], cid, np)]
             /\ inserted' = inserted \cup {np}
    <3>1. PICK cid \in ChildId \ ChildIds(sess[sid].procs) :
                 sess' = [sess EXCEPT ![sid] = InsertProcess(sess[sid], cid, np)]
      BY <2>6
    <3>2. sess[sid] \in SessionRec /\ sess[sid].procs[cid] = NoPid
      BY <2>6, <3>1 DEF TypeInv, TypeOK, ChildIds
    <3>3. sess'[sid].procs = [sess[sid].procs EXCEPT ![cid] = np]
      BY <2>6, <3>1, <3>2 DEF InsertProcess, SessionRec, TypeInv, TypeOK
    <3>4. \A x \in registered, c \in ChildId :
            sess'[x].procs[c] = IF x = sid /\ c = cid THEN np ELSE sess[x].procs[c]
      BY <2>6, <3>1, <3>2, <3>3 DEF SessionRec, ProcTable, TypeInv, TypeOK
    <3>5. \A x \in registered, c \in ChildId : sess[x].procs[c] <= nSpawn
      BY DEF Rest, Fresh
    <3>6. Fresh'
      <4>1. \A x \in registered', c \in ChildId : sess'[x].procs[c] <= nSpawn'
        BY <1>3, <2>0, <2>1, <2>2, <2>6, <2>9, <3>4, <3>5
      <4>2. \A q \in Req : req'[q].hold <= nSpawn'
        BY <1>3, <2>0, <2>1, <2>2, <2>4
      <4>3. \A p \in Pid : p > nSpawn' => proc'[p] = "none" /\ p \notin inserted'
        BY <1>3, <2>1, <2>6, <2>9 DEF Rest, Fresh, Pid
      <4>4. QED
        BY <4>1, <4>2, <4>3 DEF Fresh
    <3>7. Unique'
      BY <2>0, <2>1, <2>2, <2>4, <3>2, <3>4, <3>5 DEF Rest, Unique, NoPid
    <3>8. Kept'
      <4> SUFFICES ASSUME NEW p \in inserted', proc'[p] = "alive"
                   PROVE  \/ \E x \in registered', c \in ChildId : sess'[x].procs[c] = p
                          \/ \E q \in Req : req'[q].hold = p
        BY DEF Kept
      <4>1. CASE p = np
        BY <4>1, <2>2, <2>6, <3>4
      <4>2. CASE p # np
        <5>1. p \in inserted /\ proc[p] = "alive" /\ p \in Pid
          BY <4>2, <1>3, <2>6 DEF TypeInv, TypeOK
        <5>2. p # NoPid
          BY <5>1 DEF Pid, NoPid
        <5>3. CASE \E x \in registered, c \in ChildId : sess[x].procs[c] = p
          BY <5>2, <5>3, <2>2, <3>2, <3>4
        <5>4. CASE \E q \in Req : req[q].hold = p
          BY <5>4, <2>2
        <5>5. QED
          BY <5>1, <5>3, <5>4 DEF Rest, Kept
      <4>3. QED
        BY <4>1, <4>2
    <3>9. QED
      BY <2>3, <3>6, <3>7, <3>8 DEF Rest
  <2>7. QED
    BY <1>3, <2>5, <2>6
<1>4. QED
  BY <1>2, <1>3 DEF Start

\* Stop's first link moves the handle of the child from its table entry,
\* its only holder, to the request, which held none.
LEMMA StopBeginRest ==
  ASSUME TypeInv, Rest, NEW r \in Req, StopBegin(r)
  PROVE  Rest'
<1> DEFINE s  == SidOf(r)
           c  == Cmd(r).child
           p0 == sess[s].procs[c]
<1>0. /\ nSpawn \in Nat /\ nReq \in Nat /\ Req \subseteq Nat
      /\ registered \subseteq SessionId
      /\ \A x \in SessionId, d \in ChildId : sess[x].procs[d] \in Nat
      /\ \A q \in Req : req[q].hold \in Nat
  BY CountersNat, HandlesNat DEF TypeInv
<1>1. req[r].st = "run"
  BY DEF StopBegin, Running
<1>2. CASE Fail(r, <<ErrE(r)>>) /\ UNCHANGED sess
  BY <1>1, <1>2, FailRest DEF StopBegin
<1>3. CASE s \in registered /\ c \in ChildIds(sess[s].procs)
           /\ sess' = [sess EXCEPT ![s].procs[c] = NoPid]
           /\ req' = [req EXCEPT ![r].st = "stop", ![r].hold = p0]
  <2>1. UNCHANGED <<registered, proc, inserted, nSpawn, nReq>>
    BY DEF StopBegin
  <2>2. c \in ChildId /\ p0 \in Pid /\ p0 <= nSpawn
    BY <1>3 DEF ChildIds, TypeInv, TypeOK, SessionRec, ProcTable, Rest, Fresh
  <2>3. sess[s] \in SessionRec /\ req[r] \in ReqRec /\ req[r].hold = NoPid
    BY <1>1, <1>3 DEF TypeInv, TypeOK, Rest, HoldOnlyInStop
  <2>4. \A x \in registered, d \in ChildId :
          sess'[x].procs[d] = IF x = s /\ d = c THEN NoPid ELSE sess[x].procs[d]
    BY <1>3, <2>3 DEF TypeInv, TypeOK, SessionRec, ProcTable
  <2>5. /\ req'[r].st = "stop" /\ req'[r].hold = p0
        /\ \A q \in Req \ {r} : req'[q] = req[q]
    BY <1>3, <2>3 DEF TypeInv, TypeOK, ReqRec
  <2>6. r <= nReq
    BY <1>1 DEF Rest, SlotsUnused, TypeInv, TypeOK, Req
  <2>7. \A x \in registered, d \in ChildId : sess[x].procs[d] = p0 => x = s /\ d = c
    BY <1>3, <2>2 DEF Rest, Unique, Pid, NoPid
  <2>8. \A q \in Req : req[q].hold # p0
    BY <1>3, <2>2, <2>3 DEF Rest, Unique, Pid, NoPid
  <2>9. Fresh'
    BY <1>0, <2>1, <2>2, <2>4, <2>5 DEF Rest, Fresh, NoPid
  <2>10. HoldOnlyInStop' /\ SlotsUnused'
    <3>1. p0 # NoPid
      BY <2>2 DEF Pid, NoPid
    <3>2. HoldOnlyInStop'
      BY <2>5, <3>1 DEF Rest, HoldOnlyInStop
    <3>3. \A q \in Req : q > nReq => q # r
      BY <1>0, <2>6
    <3>4. SlotsUnused'
      BY <2>1, <2>5, <3>3 DEF Rest, SlotsUnused
    <3>5. QED
      BY <3>2, <3>4
  <2>11. Unique'
    BY <2>1, <2>2, <2>3, <2>4, <2>5, <2>7, <2>8 DEF Rest, Unique, Pid, NoPid
  <2>12. Kept'
    <3> SUFFICES ASSUME NEW p \in inserted', proc'[p] = "alive"
                 PROVE  \/ \E x \in registered', d \in ChildId : sess'[x].procs[d] = p
                        \/ \E q \in Req : req'[q].hold = p
      BY DEF Kept
    <3>1. CASE p = p0
      BY <3>1, <2>5
    <3>2. CASE p # p0
      <4>1. \/ \E x \in registered, d \in ChildId : sess[x].procs[d] = p
            \/ \E q \in Req : req[q].hold = p
        BY <2>1 DEF Rest, Kept
      <4>2. p # NoPid
        BY <2>1 DEF TypeInv, TypeOK, Pid, NoPid
      <4>3. QED
        BY <3>2, <4>1, <4>2, <2>1, <2>3, <2>4, <2>5
    <3>3. QED
      BY <3>1, <3>2
  <2>13. QED
    BY <2>9, <2>10, <2>11, <2>12 DEF Rest
<1>4. QED
  BY <1>2, <1>3 DEF StopBegin

\* Stop's second link drops the handle it held: the process was killed
\* (reaped) or had already terminated.
LEMMA StopEndRest ==
  ASSUME TypeInv, Rest, NEW r \in Req, StopEnd(r)
  PROVE  Rest'
<1> DEFINE p0 == req[r].hold
<1>0. /\ nSpawn \in Nat /\ nReq \in Nat /\ Req \subseteq Nat
      /\ registered \subseteq SessionId
      /\ \A x \in SessionId, d \in ChildId : sess[x].procs[d] \in Nat
      /\ \A q \in Req : req[q].hold \in Nat
  BY CountersNat, HandlesNat DEF TypeInv
<1>1. req[r].st = "stop" /\ req[r] \in ReqRec /\ p0 \in Pid /\ p0 <= nSpawn
  BY DEF StopEnd, TypeInv, TypeOK, Rest, HoldOnlyInStop, Fresh, ReqRec
<1>2. \E es : Advance(r, es) \/ Fail(r, es)
  BY DEF StopEnd
<1>3. /\ \A q \in Req \ {r} : req'[q] = req[q]
      /\ req'[r].st \in {"ok", "run", "err"}
  BY <1>2, LinkFrame DEF TypeInv
<1>4. req'[r].hold = NoPid
  <2>1. PICK es : Advance(r, es) \/ Fail(r, es)
    BY <1>2
  <2>2. req \in [Req -> ReqRec]
    BY DEF TypeInv, TypeOK
  <2>3. CASE Advance(r, es)
    <3>1. req' = [req EXCEPT ![r] = [req[r] EXCEPT
                   !.pc = req[r].pc + 1, !.out = req[r].out \o es,
                   !.st = IF req[r].pc = Len(req[r].cmds) THEN "ok" ELSE "run",
                   !.hold = NoPid]]
      BY <2>3 DEF Advance
    <3>2. QED
      BY <1>1, <2>2, <3>1 DEF ReqRec
  <2>4. CASE Fail(r, es)
    <3>1. req' = [req EXCEPT ![r] = [req[r] EXCEPT
                   !.out = req[r].out \o es, !.st = "err", !.hold = NoPid]]
      BY <2>4 DEF Fail
    <3>2. QED
      BY <1>1, <2>2, <3>1 DEF ReqRec
  <2>5. QED
    BY <2>1, <2>3, <2>4
<1>5. /\ UNCHANGED <<registered, inserted, nSpawn, nReq>>
      /\ \A x \in registered : sess'[x].procs = sess[x].procs
  <2>1. CASE SidOf(r) \in registered
             /\ sess' = [sess EXCEPT ![SidOf(r)].status =
                          IF ChildIds(sess[SidOf(r)].procs) = {} THEN "CONFIGURED"
                                                                  ELSE @]
    BY <2>1 DEF StopEnd, TypeInv, TypeOK
  <2>2. CASE UNCHANGED sess
    BY <2>2 DEF StopEnd
  <2>3. QED
    BY <2>1, <2>2 DEF StopEnd
<1>6. \A p \in Pid : /\ p # p0 => proc'[p] = proc[p]
                     /\ proc'[p0] # "alive"
  BY <1>1 DEF StopEnd, TypeInv, TypeOK
<1>7. r <= nReq
  BY <1>1 DEF Rest, SlotsUnused, TypeInv, TypeOK, Req
<1>8. Fresh'
  BY <1>0, <1>1, <1>3, <1>4, <1>5, <1>6 DEF Rest, Fresh, NoPid, Pid
<1>9. HoldOnlyInStop' /\ SlotsUnused'
  BY <1>0, <1>3, <1>4, <1>5, <1>7 DEF Rest, HoldOnlyInStop, SlotsUnused
<1>10. Unique'
  BY <1>3, <1>4, <1>5 DEF Rest, Unique
<1>11. Kept'
  <2> SUFFICES ASSUME NEW p \in inserted', proc'[p] = "alive"
               PROVE  \/ \E x \in registered', d \in ChildId : sess'[x].procs[d] = p
                      \/ \E q \in Req : req'[q].hold = p
    BY DEF Kept
  <2>1. p \in Pid /\ p # p0 /\ proc[p] = "alive" /\ p \in inserted
    BY <1>5, <1>6 DEF TypeInv, TypeOK
  <2>2. QED
    BY <2>1, <1>3, <1>5 DEF Rest, Kept
<1>12. QED
  BY <1>8, <1>9, <1>10, <1>11 DEF Rest

\* The reaper's pass empties exactly the entries of the finished children.
LEMMA ScanProcs ==
  ASSUME NEW s \in SessionRec, NEW proc0, NEW c \in ChildId
  PROVE  ScanSession(s, proc0).procs[c] =
           IF c \in Finished(s.procs, proc0) THEN NoPid ELSE s.procs[c]
<1> DEFINE fin  == Finished(s.procs, proc0)
           left == [d \in ChildId |-> IF d \in fin THEN NoPid ELSE s.procs[d]]
<1>1. ScanSession(s, proc0) =
        [s EXCEPT !.procs = left,
                  !.status = IF fin # {} /\ ChildIds(left) = {}
                               THEN "CONFIGURED" ELSE s.status]
  BY DEF ScanSession
<1>2. QED
  BY <1>1 DEF SessionRec

\* The reaper removes only the entries of children that have terminated
\* and reaps only processes that have: a running process keeps its entry.
LEMMA ReapRest ==
  ASSUME TypeInv, Rest, Reap
  PROVE  Rest'
<1>0. /\ nSpawn \in Nat /\ registered \subseteq SessionId
      /\ \A x \in SessionId, d \in ChildId : sess[x].procs[d] \in Nat
  BY CountersNat, HandlesNat DEF TypeInv
<1>1. UNCHANGED <<registered, req, inserted, nSpawn, nReq>>
  BY DEF Reap
<1>2. \A x \in registered, d \in ChildId :
        sess'[x].procs[d] =
          IF proc[sess[x].procs[d]] \in {"exited", "reaped"}
             /\ sess[x].procs[d] # NoPid
            THEN NoPid ELSE sess[x].procs[d]
  <2> SUFFICES ASSUME NEW x \in registered, NEW d \in ChildId
               PROVE  sess'[x].procs[d] =
                        IF proc[sess[x].procs[d]] \in {"exited", "reaped"}
                           /\ sess[x].procs[d] # NoPid
                          THEN NoPid ELSE sess[x].procs[d]
    OBVIOUS
  <2>1. sess'[x] = ScanSession(sess[x], proc) /\ sess[x] \in SessionRec
    BY <1>0 DEF Reap, TypeInv, TypeOK
  <2>2. QED
    BY <2>1, ScanProcs DEF Finished, ChildIds
<1>3. \A p \in Pid : /\ proc'[p] = "alive" <=> proc[p] = "alive"
                     /\ proc[p] = "none" => proc'[p] = "none"
  BY DEF Reap, TypeInv, TypeOK
<1>4. Fresh'
  BY <1>0, <1>1, <1>2, <1>3 DEF Rest, Fresh, NoPid
<1>5. HoldOnlyInStop' /\ SlotsUnused'
  BY <1>1 DEF Rest, HoldOnlyInStop, SlotsUnused
<1>6. Unique'
  BY <1>1, <1>2 DEF Rest, Unique
<1>7. Kept'
  <2> SUFFICES ASSUME NEW p \in inserted', proc'[p] = "alive"
               PROVE  \/ \E x \in registered', d \in ChildId : sess'[x].procs[d] = p
                      \/ \E q \in Req : req'[q].hold = p
    BY DEF Kept
  <2>1. p \in Pid /\ p \in inserted /\ proc[p] = "alive"
    BY <1>1, <1>3 DEF TypeInv, TypeOK
  <2>2. QED
    BY <1>1, <1>2, <2>1 DEF Rest, Kept
<1>8. QED
  BY <1>4, <1>5, <1>6, <1>7 DEF Rest

-----------------------------------------------------------------------------
(* The invariant                                                           *)

LEMMA HInvInductive == HInv /\ [Next]_vars => HInv'
<1> SUFFICES ASSUME HInv, [Next]_vars PROVE HInv'
  OBVIOUS
<1>1. TypeInv /\ Rest
  BY DEF HInv, Rest
<1>2. TypeInv'
  BY <1>1, TypeInvInductive
<1>3. Rest'
  <2>1. CASE CreateSession
    BY <1>1, <2>1, CreateSessionRest
  <2>2. ASSUME NEW s \in SessionId, ProvisionDone(s) \/ DestroySession(s)
        PROVE  Rest'
    BY <1>1, <2>2, ProvisionDoneRest, DestroySessionRest
  <2>3. CASE SessionUpdate
    BY <1>1, <2>3, SessionUpdateRest
  <2>4. ASSUME NEW r \in Req,
               \/ SkipOpenClose(r) \/ Exec(r) \/ Start(r) \/ StopBegin(r)
               \/ StopEnd(r) \/ Tags(r) \/ Transfer(r)
        PROVE  Rest'
    BY <1>1, <2>4, QuietLinks, StartRest, StopBeginRest, StopEndRest
  <2>5. CASE Reap
    BY <1>1, <2>5, ReapRest
  <2>6. ASSUME NEW p \in Pid, ProcessExit(p) PROVE Rest'
    BY <1>1, <2>6, ProcessExitRest
  <2>7. CASE UNCHANGED vars
    BY <1>1, <2>7 DEF vars, Rest, Fresh, HoldOnlyInStop, SlotsUnused, Unique,
       Kept
  <2>8. QED
    BY <2>1, <2>2, <2>3, <2>4, <2>5, <2>6, <2>7 DEF Next
<1>4. QED
  BY <1>2, <1>3 DEF HInv, Rest

\* Whatever the actor interleaves (Start's insert_process, Stop's removal
\* and Kill, the reaper, destroy_deploy on DestroySession and on the
\* rollback of CreateSession), no process handle is ever held twice, and a
\* running process that insert_process stored is never left without one.
THEOREM HandleAccountingHolds == Spec => []HandleAccounting
<1>1. Init => HInv
  BY InitHInv
<1>2. HInv /\ [Next]_vars => HInv'
  BY HInvInductive
<1>3. HInv => HandleAccounting
  BY UniqueKeptAccounting DEF HInv, TypeInv
<1>4. QED
  BY <1>1, <1>2, <1>3, PTL DEF Spec
=============================================================================

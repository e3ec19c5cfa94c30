---------------------------- MODULE SessionInfo ----------------------------
(***************************************************************************)
(* The per-session record of the host-direct manager, `SessionInfo` of     *)
(* gu-provider/src/hdman.rs: its status, the `dirty` flag, the workspace   *)
(* tag set and the process table `processes`, a map from child ids to the  *)
(* OS process handles returned by `spawn`.                                 *)
(*                                                                         *)
(* An OS process is a number in Pid (the order in which Start spawned it); *)
(* its life is one of ProcState:                                           *)
(*   "none"   not spawned yet                                              *)
(*   "alive"  running                                                      *)
(*   "exited" terminated, exit status not yet collected (a zombie)         *)
(*   "reaped" terminated and waited for (`wait` or `try_wait` returned)    *)
(* The workspace name, the note and the directory path are left out: no    *)
(* operation of the core reads them.                                       *)
(***************************************************************************)
EXTENDS Naturals, FiniteSets

CONSTANTS
  ChildId,    \* child ids generate_new_id may hand out within one session
  Tag,        \* workspace tags
  MaxSpawn    \* bound on the number of processes Start may spawn

ASSUME SessionInfoAssumption ==
  /\ ChildId # {}
  /\ MaxSpawn \in Nat

Pid == 1..MaxSpawn
NoPid == 0
ProcState == {"none", "alive", "exited", "reaped"}

\* PeerSessionStatus
Status == {"PENDING", "CREATED", "CONFIGURED", "RUNNING"}

\* processes: HashMap<String, process::Child>; NoPid marks an absent key
ProcTable == [ChildId -> Pid \cup {NoPid}]

SessionRec ==
  [status: Status, dirty: BOOLEAN, procs: ProcTable, tags: SUBSET Tag]

EmptyTable == [c \in ChildId |-> NoPid]

\* processes.keys()
ChildIds(t) == {c \in ChildId : t[c] # NoPid}

\* The session built by CreateSession before provisioning starts.
NewSession(tags) ==
  [status |-> "PENDING", dirty |-> FALSE, procs |-> EmptyTable, tags |-> tags]

\* insert_process: store the handle under the fresh id cid, mark the
\* session dirty and RUNNING.
InsertProcess(s, cid, p) ==
  [s EXCEPT !.procs[cid] = p, !.dirty = TRUE, !.status = "RUNNING"]

\* The children of table t that try_wait reports finished: Ok(Some(_)).
\* A child already waited for reports its cached status again.
Finished(t, proc) == {c \in ChildIds(t) : proc[t[c]] \in {"exited", "reaped"}}

\* Mutant: CONFIGURED whenever the table is empty (some_finished dropped).
ScanSessionAnyEmpty(s, proc) ==
  LET fin  == Finished(s.procs, proc)
      left == [c \in ChildId |-> IF c \in fin THEN NoPid ELSE s.procs[c]]
  IN  [s EXCEPT !.procs  = left,
                !.status = IF ChildIds(left) = {} THEN "CONFIGURED" ELSE s.status]

\* Mutant: the finished children are never removed from the table.
ScanSessionNoRemove(s, proc) ==
  LET fin == Finished(s.procs, proc)
  IN  [s EXCEPT !.status = IF fin # {} /\ ChildIds(s.procs) = {}
                             THEN "CONFIGURED" ELSE s.status]

\* One session's pass of scan_for_processes: drop the finished children
\* and, when some were dropped and none is left, set CONFIGURED.
ScanSession(s, proc) ==
  LET fin  == Finished(s.procs, proc)
      left == [c \in ChildId |-> IF c \in fin THEN NoPid ELSE s.procs[c]]
  IN  [s EXCEPT !.procs  = left,
                !.status = IF fin # {} /\ ChildIds(left) = {}
                             THEN "CONFIGURED" ELSE s.status]

\* The processes a table holds handles of.
Held(t) == {t[c] : c \in ChildIds(t)}
=============================================================================

------------------------ MODULE HdManPipelineProofs ------------------------
(***************************************************************************)
(* HdMan implements Pipeline under PipelineOf, for every value of the      *)
(* constants: every step of the manager is a step of the abstract request *)
(* pipeline or leaves the pipelines as they are.                           *)
(***************************************************************************)
EXTENDS HdManProofs

USE SessionInfoAssumption, HdManAssumption

\* A request waiting for a Kill is at a Stop command, and the request slots
\* SessionUpdate has not used yet are idle.
StopAtStop == \A r \in Req : req[r].st = "stop" => Cmd(r).op = "Stop"
SlotsIdle == \A r \in Req : r > nReq => req[r] = IdleReq
RInv == TypeInv /\ StopAtStop /\ SlotsIdle

-----------------------------------------------------------------------------
(* How the links of a request map to Pipeline                              *)

\* A step that does not change req leaves the pipelines unchanged.
LEMMA ReqUnchanged ==
  ASSUME UNCHANGED req
  PROVE  UNCHANGED PipelineOf
  BY DEF PipelineOf

\* The fields of a request after Advance and after Fail.
LEMMA AdvanceFields ==
  ASSUME TypeOK, NEW r \in Req, NEW es, Advance(r, es)
  PROVE  /\ DOMAIN req' = Req
         /\ \A q \in Req \ {r} : req'[q] = req[q]
         /\ req'[r].st = IF req[r].pc = Len(req[r].cmds) THEN "ok" ELSE "run"
         /\ req'[r].pc = req[r].pc + 1
         /\ req'[r].out = req[r].out \o es
         /\ req'[r].cmds = req[r].cmds
<1>1. req[r] \in ReqRec
  BY DEF TypeOK
<1>2. QED
  BY <1>1, Zenon DEF Advance, TypeOK, ReqRec

LEMMA FailFields ==
  ASSUME TypeOK, NEW r \in Req, NEW es, Fail(r, es)
  PROVE  /\ DOMAIN req' = Req
         /\ \A q \in Req \ {r} : req'[q] = req[q]
         /\ req'[r].st = "err"
         /\ req'[r].pc = req[r].pc
         /\ req'[r].out = req[r].out \o es
         /\ req'[r].cmds = req[r].cmds
<1>1. req[r] \in ReqRec
  BY DEF TypeOK
<1>2. QED
  BY <1>1, Zenon DEF Fail, TypeOK, ReqRec

\* The pipeline of a request, field by field.
PipeRec(q) == [st   |-> IF q.st = "stop" THEN "run" ELSE q.st,
               cmds |-> q.cmds, pc |-> q.pc, out |-> q.out]

LEMMA PipelineOfRec ==
  /\ PipelineOf = [q \in Req |-> PipeRec(req[q])]
  /\ PipelineOf' = [q \in Req |-> PipeRec(req'[q])]
  BY DEF PipelineOf, PipeRec

\* Advance at a running request is a Pipeline Step.
LEMMA AdvanceStep ==
  ASSUME TypeOK, NEW r \in Req, NEW es, Advance(r, es)
  PROVE  Pipe!Step(r, es)
<1>1. /\ \A q \in Req \ {r} : req'[q] = req[q]
      /\ req'[r].st = IF req[r].pc = Len(req[r].cmds) THEN "ok" ELSE "run"
      /\ req'[r].pc = req[r].pc + 1
      /\ req'[r].out = req[r].out \o es
      /\ req'[r].cmds = req[r].cmds
  BY AdvanceFields
<1>2. PipeRec(req'[r]) =
        [st   |-> IF req[r].pc = Len(req[r].cmds) THEN "ok" ELSE "run",
         cmds |-> req[r].cmds, pc |-> req[r].pc + 1, out |-> req[r].out \o es]
  BY <1>1 DEF PipeRec
<1>3. QED
  BY <1>1, <1>2, PipelineOfRec DEF Pipe!Step, PipeRec

\* Fail is a Pipeline Abort but for the guard: the output grows by es and
\* the request resolves Err.
LEMMA FailAbort ==
  ASSUME TypeOK, NEW r \in Req, NEW es, Fail(r, es)
  PROVE  PipelineOf' =
           [PipelineOf EXCEPT ![r] = [st |-> "err", cmds |-> @.cmds, pc |-> @.pc,
                                      out |-> @.out \o es]]
<1>1. /\ \A q \in Req \ {r} : req'[q] = req[q]
      /\ req'[r].st = "err"
      /\ req'[r].pc = req[r].pc
      /\ req'[r].out = req[r].out \o es
      /\ req'[r].cmds = req[r].cmds
  BY FailFields
<1>2. QED
  BY <1>1, PipelineOfRec DEF PipeRec

\* The pipeline of a running request, seen from HdMan.
LEMMA PipeAt ==
  ASSUME TypeOK, NEW r \in Req, req[r].st \in {"run", "stop"}
  PROVE  /\ PipelineOf[r].st = "run"
         /\ PipelineOf[r].pc = req[r].pc
         /\ Pipe!Current(r) = Cmd(r)
  BY DEF PipelineOf, Pipe!Current, Cmd

\* A link of a command that adds a link to the chain is a Succeed or an
\* Abort of Pipeline.
LEMMA LinkMaps ==
  ASSUME TypeOK, NEW r \in Req, req[r].st \in {"run", "stop"},
         Cmd(r).op \notin {"Open", "Close"},
         \/ Advance(r, <<OkE(r)>>)
         \/ Fail(r, <<ErrE(r)>>)
         \/ Fail(r, <<OkE(r), ErrE(r)>>)
  PROVE  Pipe!Next
<1>1. /\ PipelineOf[r].st = "run"
      /\ PipelineOf[r].pc = req[r].pc
      /\ Pipe!Current(r).op \notin Pipe!NoLink
  BY PipeAt DEF Pipe!NoLink
<1>2. CASE Advance(r, <<OkE(r)>>)
  <2>1. Pipe!Succeed(r)
    BY <1>1, <1>2, AdvanceStep DEF Pipe!Succeed, OkE
  <2>2. QED
    BY <2>1 DEF Pipe!Next
<1>3. CASE Fail(r, <<ErrE(r)>>) \/ Fail(r, <<OkE(r), ErrE(r)>>)
  <2>1. Pipe!Abort(r)
    BY <1>1, <1>3, FailAbort DEF Pipe!Abort, OkE, ErrE
  <2>2. QED
    BY <2>1 DEF Pipe!Next
<1>4. QED
  BY <1>2, <1>3

\* A link at r that leaves every other request and nReq alone, and does
\* not leave r waiting for a Kill, keeps StopAtStop and SlotsIdle.
LEMMA LinkFrameR ==
  ASSUME RInv, NEW r \in Req, req[r].st \in {"run", "stop"}, nReq' = nReq,
         \A q \in Req \ {r} : req'[q] = req[q], req'[r].st # "stop"
  PROVE  StopAtStop' /\ SlotsIdle'
<1>1. r =< nReq
  <2>1. req[r] # IdleReq
    BY DEF IdleReq
  <2>2. QED
    BY <2>1 DEF RInv, SlotsIdle, TypeInv, TypeOK, Req
<1>2. StopAtStop'
  BY DEF StopAtStop, Cmd, RInv
<1>3. SlotsIdle'
  BY <1>1 DEF SlotsIdle, RInv, TypeInv, TypeOK, Req
<1>4. QED
  BY <1>2, <1>3

\* The links that push entries: each keeps StopAtStop and SlotsIdle and
\* is a step of Pipeline.
RStep == StopAtStop' /\ SlotsIdle' /\ [Pipe!Next]_PipelineOf

LEMMA LinkR ==
  ASSUME RInv, NEW r \in Req, req[r].st \in {"run", "stop"},
         Cmd(r).op \notin {"Open", "Close"}, nReq' = nReq,
         \/ Advance(r, <<OkE(r)>>)
         \/ Fail(r, <<ErrE(r)>>)
         \/ Fail(r, <<OkE(r), ErrE(r)>>)
  PROVE  RStep
<1>1. TypeOK
  BY DEF RInv, TypeInv
<1>2. /\ \A q \in Req \ {r} : req'[q] = req[q]
      /\ req'[r].st # "stop"
  BY <1>1, AdvanceFields, FailFields
<1>3. StopAtStop' /\ SlotsIdle'
  BY <1>2, LinkFrameR
<1>4. Pipe!Next
  BY <1>1, LinkMaps
<1>5. QED
  BY <1>3, <1>4 DEF RStep

LEMMA ExecR ==
  ASSUME RInv, NEW r \in Req, Exec(r)
  PROVE  RStep
BY LinkR DEF Exec, Running

LEMMA TagsR ==
  ASSUME RInv, NEW r \in Req, Tags(r)
  PROVE  RStep
BY LinkR DEF Tags, Running

LEMMA TransferR ==
  ASSUME RInv, NEW r \in Req, Transfer(r)
  PROVE  RStep
BY LinkR DEF Transfer, Running

LEMMA StartR ==
  ASSUME RInv, NEW r \in Req, Start(r)
  PROVE  RStep
BY LinkR DEF Start, Running

\* The Kill result: the request is at its Stop.
LEMMA StopEndR ==
  ASSUME RInv, NEW r \in Req, StopEnd(r)
  PROVE  RStep
<1>1. Cmd(r).op = "Stop"
  BY DEF StopEnd, RInv, StopAtStop
<1>2. QED
  BY <1>1, LinkR DEF StopEnd

\* The first link of Stop: on success the request waits for the Kill at
\* the same command, which Pipeline does not see; on failure it aborts.
LEMMA StopBeginR ==
  ASSUME RInv, NEW r \in Req, StopBegin(r)
  PROVE  RStep
<1>1. TypeOK /\ req[r].st = "run" /\ Cmd(r).op = "Stop"
  BY DEF RInv, TypeInv, StopBegin, Running
<1>2. CASE Fail(r, <<ErrE(r)>>)
  BY <1>1, <1>2, LinkR DEF StopBegin
<1>3. CASE req' = [req EXCEPT ![r].st = "stop", ![r].hold = req[r].hold']
  <2>1. /\ \A q \in Req \ {r} : req'[q] = req[q]
        /\ req'[r].st = "stop" /\ req'[r].cmds = req[r].cmds
        /\ req'[r].pc = req[r].pc /\ req'[r].out = req[r].out
    BY <1>1, <1>3 DEF TypeOK, ReqRec
  <2>2. UNCHANGED PipelineOf
    BY <1>1, <2>1, PipelineOfRec DEF PipeRec
  <2>3. StopAtStop'
    BY <1>1, <2>1 DEF StopAtStop, Cmd, RInv
  <2>4. SlotsIdle'
    <3>1. r =< nReq
      BY <1>1 DEF RInv, SlotsIdle, TypeInv, TypeOK, Req, IdleReq
    <3>2. QED
      BY <2>1, <3>1 DEF StopBegin, SlotsIdle, RInv, TypeInv, TypeOK, Req
  <2>5. QED
    BY <2>2, <2>3, <2>4 DEF RStep
<1>4. QED
  <2>1. Fail(r, <<ErrE(r)>>) \/ \E h : req' = [req EXCEPT ![r].st = "stop", ![r].hold = h]
    BY DEF StopBegin
  <2>2. QED
    BY <2>1, <1>2, <1>3

\* Open and Close are passed over by both.
LEMMA SkipOpenCloseR ==
  ASSUME RInv, NEW r \in Req, SkipOpenClose(r)
  PROVE  RStep
<1>1. TypeOK /\ req[r].st = "run" /\ Cmd(r).op \in {"Open", "Close"}
      /\ Advance(r, <<>>) /\ nReq' = nReq
  BY DEF RInv, TypeInv, SkipOpenClose, Running
<1>2. /\ \A q \in Req \ {r} : req'[q] = req[q]
      /\ req'[r].st # "stop"
  BY <1>1, AdvanceFields
<1>3. StopAtStop' /\ SlotsIdle'
  BY <1>1, <1>2, LinkFrameR
<1>4. Pipe!Skip(r)
  BY <1>1, PipeAt, AdvanceStep DEF Pipe!Skip, Pipe!NoLink
<1>5. QED
  BY <1>3, <1>4 DEF RStep, Pipe!Next

\* SessionUpdate fills the first unused slot: a Refuse or an Accept.
LEMMA SessionUpdateR ==
  ASSUME RInv, SessionUpdate
  PROVE  RStep
<1> DEFINE n == nReq + 1
<1>0. nReq < MaxReq /\ nReq' = n
  BY Zenon DEF SessionUpdate
<1>1. TypeOK /\ n \in Req /\ req[n] = IdleReq
  <2>1. TypeOK /\ SlotsIdle
    BY DEF RInv, TypeInv
  <2>2. n \in Req
    BY <1>0, <2>1 DEF TypeOK, Req
  <2>3. QED
    BY <2>1, <2>2 DEF SlotsIdle, TypeOK
<1>2. PICK s \in SessionId, cmds \in Pipelines :
        req' = [req EXCEPT ![n] =
                  IF s \notin registered
                    THEN [IdleReq EXCEPT !.st = "err", !.sid = s, !.cmds = cmds,
                                         !.out = <<<<0, "err">>>>]
                    ELSE [IdleReq EXCEPT !.st = IF cmds = <<>> THEN "ok" ELSE "run",
                                         !.sid = s, !.cmds = cmds]]
  BY DEF SessionUpdate
<1> DEFINE eReq == [IdleReq EXCEPT !.st = "err", !.sid = s, !.cmds = cmds,
                                   !.out = <<<<0, "err">>>>]
           rReq == [IdleReq EXCEPT !.st = IF cmds = <<>> THEN "ok" ELSE "run",
                                   !.sid = s, !.cmds = cmds]
           R == IF s \notin registered THEN eReq ELSE rReq
<1>3. \A q \in Req \ {n} : req'[q] = req[q]
  BY <1>1, <1>2 DEF TypeOK
<1>4. req'[n] = R
  BY <1>1, <1>2 DEF TypeOK
<1>5. /\ eReq.st = "err" /\ eReq.pc = 1 /\ eReq.cmds = cmds
      /\ eReq.out = <<<<0, "err">>>>
  BY DEF IdleReq
<1>6. /\ rReq.st = (IF cmds = <<>> THEN "ok" ELSE "run") /\ rReq.pc = 1
      /\ rReq.cmds = cmds /\ rReq.out = <<>>
  BY DEF IdleReq
<1>7. StopAtStop'
  <2>1. req'[n].st # "stop"
    BY <1>4, <1>5, <1>6
  <2>2. QED
    BY <1>3, <2>1 DEF StopAtStop, Cmd, RInv
<1>8. SlotsIdle'
  BY <1>0, <1>1, <1>3 DEF SlotsIdle, RInv, TypeInv, TypeOK, Req
<1>9. PipelineOf' = [PipelineOf EXCEPT ![n] = PipeRec(R)]
  BY <1>1, <1>3, <1>4, PipelineOfRec
<1>10. PipelineOf[n].st = "idle"
  BY <1>1 DEF PipelineOf, IdleReq
<1>11. CASE s \notin registered
  <2>1. PipeRec(R) = [st |-> "err", cmds |-> cmds, pc |-> 1,
                      out |-> <<<<0, "err">>>>]
    BY <1>5, <1>11 DEF PipeRec
  <2>2. Pipe!Refuse(n, cmds)
    BY <1>9, <1>10, <2>1 DEF Pipe!Refuse
  <2>3. QED
    BY <1>1, <1>7, <1>8, <2>2 DEF Pipe!Next, RStep
<1>12. CASE s \in registered
  <2>1. PipeRec(R) = [st |-> IF cmds = <<>> THEN "ok" ELSE "run",
                      cmds |-> cmds, pc |-> 1, out |-> <<>>]
    BY <1>6, <1>12 DEF PipeRec
  <2>2. Pipe!Accept(n, cmds)
    BY <1>9, <1>10, <2>1 DEF Pipe!Accept
  <2>3. QED
    BY <1>1, <1>7, <1>8, <2>2 DEF Pipe!Next, RStep
<1>13. QED
  BY <1>11, <1>12

\* A step that leaves the requests and nReq alone.
LEMMA OtherR ==
  ASSUME RInv, UNCHANGED <<req, nReq>>
  PROVE  RStep
BY ReqUnchanged DEF RStep, StopAtStop, SlotsIdle, Cmd, RInv

-----------------------------------------------------------------------------
(* The refinement                                                          *)

LEMMA InitR == Init => RInv /\ Pipe!Init
<1> SUFFICES ASSUME Init PROVE RInv /\ Pipe!Init
  OBVIOUS
<1>1. TypeInv
  BY InitTypeInv
<1>2. StopAtStop /\ SlotsIdle
  BY DEF Init, StopAtStop, SlotsIdle, IdleReq
<1>3. Pipe!Init
  BY DEF Init, Pipe!Init, Pipe!Idle, PipelineOf, IdleReq
<1>4. QED
  BY <1>1, <1>2, <1>3 DEF RInv

\* Every step of HdMan keeps RInv and is a step of Pipeline or a stutter
\* of PipelineOf.
LEMMA NextR == RInv /\ [Next]_vars => RInv' /\ [Pipe!Next]_PipelineOf
<1> SUFFICES ASSUME RInv, [Next]_vars PROVE RInv' /\ [Pipe!Next]_PipelineOf
  OBVIOUS
<1>1. TypeInv'
  BY TypeInvInductive DEF RInv
<1>2. RStep
  <2>1. CASE CreateSession
    BY <2>1, OtherR DEF CreateSession
  <2>2. ASSUME NEW s \in SessionId, ProvisionDone(s) \/ DestroySession(s)
        PROVE  RStep
    BY <2>2, OtherR DEF ProvisionDone, DestroySession
  <2>3. CASE SessionUpdate
    BY <2>3, SessionUpdateR
  <2>4. ASSUME NEW r \in Req,
               \/ SkipOpenClose(r) \/ Exec(r) \/ Start(r) \/ StopBegin(r)
               \/ StopEnd(r) \/ Tags(r) \/ Transfer(r)
        PROVE  RStep
    BY <2>4, SkipOpenCloseR, ExecR, StartR, StopBeginR, StopEndR, TagsR,
       TransferR
  <2>5. CASE Reap
    BY <2>5, OtherR DEF Reap
  <2>6. ASSUME NEW p \in Pid, ProcessExit(p) PROVE RStep
    BY <2>6, OtherR DEF ProcessExit
  <2>7. CASE UNCHANGED vars
    BY <2>7, OtherR DEF vars
  <2>8. QED
    BY <2>1, <2>2, <2>3, <2>4, <2>5, <2>6, <2>7 DEF Next
<1>3. QED
  BY <1>1, <1>2 DEF RStep, RInv

\* The host-direct manager implements the pipeline SessionUpdate promises:
\* for every value of the constants, whatever the actor interleaves with
\* the links of a request, the requests evolve as Pipeline allows.
THEOREM ImplementsPipelineHolds == Spec => ImplementsPipeline
<1>1. Init => RInv /\ Pipe!Init
  BY InitR
<1>2. RInv /\ [Next]_vars => RInv' /\ [Pipe!Next]_PipelineOf
  BY NextR
<1>3. QED
  BY <1>1, <1>2, PTL DEF Spec, ImplementsPipeline, Pipe!Spec

-----------------------------------------------------------------------------
(* The reply trail of SessionUpdate                                         *)

PP == INSTANCE PipelineProofs WITH preq <- PipelineOf

\* TrailOK of the pipelines is TrailFaithful of the requests.
LEMMA TrailOKFaithful == PP!TrailOK => TrailFaithful
<1> SUFFICES ASSUME PP!TrailOK, NEW r \in Req
             PROVE  LET o == req[r].out IN
                    /\ \A i \in 1..Len(o) : o[i][2] = "err" => i = Len(o) /\ req[r].st = "err"
                    /\ \A i \in 1..Len(o) - 1 :
                         \/ o[i][1] < o[i + 1][1]
                         \/ o[i][1] = o[i + 1][1] /\ o[i + 1][2] = "err"
                    /\ req[r].st = "ok" => {o[i][1] : i \in 1..Len(o)} = ChainIdx(req[r].cmds)
  BY DEF TrailFaithful
<1> DEFINE o == req[r].out
<1>1. /\ PipelineOf[r].out = o /\ PipelineOf[r].cmds = req[r].cmds
      /\ PipelineOf[r].st = "err" <=> req[r].st = "err"
      /\ PipelineOf[r].st = "ok" <=> req[r].st = "ok"
  BY DEF PipelineOf
<1>2. PP!Links(req[r].cmds) = ChainIdx(req[r].cmds)
  BY DEF PP!Links, PP!NoLink, ChainIdx
<1> DEFINE po == PipelineOf[r].out
<1>3. /\ \A i \in 1..Len(po) : po[i][2] = "err" => i = Len(po) /\ PipelineOf[r].st = "err"
      /\ \A i \in 1..Len(po) - 1 :
           \/ po[i][1] < po[i + 1][1]
           \/ po[i][1] = po[i + 1][1] /\ po[i + 1][2] = "err"
      /\ PipelineOf[r].st = "ok" =>
           {po[i][1] : i \in 1..Len(po)} = PP!Links(PipelineOf[r].cmds)
  BY DEF PP!TrailOK
<1>4. QED
  BY <1>1, <1>2, <1>3

\* The reply of every SessionUpdate (spec 4.4): at most one failure, which
\* ends the trail and the request; the entries in the order of the
\* commands; an Ok reply with an entry for every command that adds a
\* link; for every value of the constants, whatever the actor interleaves.
THEOREM TrailFaithfulHolds == Spec => []TrailFaithful
<1>1. Spec => Pipe!Spec
  BY ImplementsPipelineHolds DEF ImplementsPipeline
<1>2. Pipe!Spec => []PP!TrailOK
  <2>1. PP!PipelinesTyped
    BY DEF PP!PipelinesTyped
  <2>2. PP!Spec => []PP!TrailOK
    BY <2>1, PP!TrailHolds
  <2>3. Pipe!Spec <=> PP!Spec
    BY DEF Pipe!Spec, PP!Spec, Pipe!Init, PP!Init, Pipe!Next, PP!Next,
           Pipe!Refuse, PP!Refuse, Pipe!Accept, PP!Accept, Pipe!Skip, PP!Skip,
           Pipe!Succeed, PP!Succeed, Pipe!Abort, PP!Abort, Pipe!Step, PP!Step,
           Pipe!Current, PP!Current, Pipe!NoLink, PP!NoLink, Pipe!Idle, PP!Idle
  <2>4. QED
    BY <2>2, <2>3
<1>3. PP!TrailOK => TrailFaithful
  BY TrailOKFaithful
<1>4. QED
  BY <1>1, <1>2, <1>3, PTL

=============================================================================

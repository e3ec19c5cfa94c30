--------------------------- MODULE PipelineProofs ---------------------------
(***************************************************************************)
(* The reply trail of Pipeline (TrailOK) for every set of request slots    *)
(* and every set of command lists, and with it, through the refinement    *)
(* of HdManPipelineProofs, the reply trail of HdMan's SessionUpdate.       *)
(***************************************************************************)
EXTENDS Pipeline, SequenceTheorems, TLAPS

\* The trail of the links run so far, at pc, all of them successful: one
\* output per link before pc, in increasing command order.
OkTrail(o, pc, cmds) ==
  /\ o \in Seq(Entry)
  /\ \A i \in 1..Len(o) : o[i][2] = "ok" /\ o[i][1] \in 1..pc - 1
  /\ \A i \in 1..Len(o) - 1 : o[i][1] < o[i + 1][1]
  /\ {o[i][1] : i \in 1..Len(o)} = {j \in 1..pc - 1 : cmds[j].op \notin NoLink}

\* What a failing link appends: its error, after its output if it had one.
ErrTail(pc) == {<<<<pc, "err">>>>, <<<<pc, "ok">>, <<pc, "err">>>>}

\* A request: running and Ok requests carry the trail of their links so
\* far, an Ok one at the end of its list; an Err request was refused or
\* carries such a trail (its first n entries) followed by the tail of the
\* link that failed.
ReqInv(p) ==
  /\ p \in PReq
  /\ p.st = "idle" => p.out = <<>>
  /\ p.st \in {"run", "ok"} =>
       p.pc \in 1..Len(p.cmds) + 1 /\ OkTrail(p.out, p.pc, p.cmds)
  /\ p.st = "run" => p.pc <= Len(p.cmds)
  /\ p.st = "ok" => p.pc = Len(p.cmds) + 1
  /\ p.st = "err" =>
       \/ p.out = <<<<0, "err">>>>
       \/ /\ p.pc \in 1..Len(p.cmds)
          /\ \E n \in 0..Len(p.out), es \in ErrTail(p.pc) :
               /\ p.out = SubSeq(p.out, 1, n) \o es
               /\ OkTrail(SubSeq(p.out, 1, n), p.pc, p.cmds)

IInv == preq \in [Req -> PReq] /\ \A r \in Req : ReqInv(preq[r])

\* The command lists are sequences of commands (HdManAssumption).
PipelinesTyped == Pipelines \subseteq Seq(Command)

-----------------------------------------------------------------------------
(* Lemmas on sequences                                                     *)

\* The first Len(s) entries of s \o t are s.
LEMMA PrefixOfConcat ==
  ASSUME NEW S, NEW s \in Seq(S), NEW t \in Seq(S)
  PROVE  SubSeq(s \o t, 1, Len(s)) = s
<1>1. /\ s \o t \in Seq(S) /\ Len(s \o t) = Len(s) + Len(t)
      /\ \A i \in 1..Len(s) : (s \o t)[i] = s[i]
  BY ConcatProperties
<1>2. \A i \in 1..Len(s) : (s \o t)[i] \in S
  BY <1>1, ElementOfSeq
<1>3. /\ Len(SubSeq(s \o t, 1, Len(s))) = Len(s)
      /\ \A i \in 1..Len(s) : SubSeq(s \o t, 1, Len(s))[i] = s[i]
      /\ SubSeq(s \o t, 1, Len(s)) \in Seq(S)
  BY <1>1, <1>2, SubSeqProperties
<1>4. QED
  BY <1>3, LenProperties

\* The trail of no link at all.
LEMMA EmptyTrail ==
  ASSUME NEW cmds
  PROVE  OkTrail(<<>>, 1, cmds)
BY EmptySeq DEF OkTrail

\* Passing over an Open or a Close keeps the trail.
LEMMA OkTrailSkip ==
  ASSUME NEW o, NEW pc \in Nat \ {0}, NEW cmds, OkTrail(o, pc, cmds),
         cmds[pc].op \in NoLink
  PROVE  OkTrail(o, pc + 1, cmds)
<1>1. {j \in 1..pc : cmds[j].op \notin NoLink} =
        {j \in 1..pc - 1 : cmds[j].op \notin NoLink}
  OBVIOUS
<1>2. QED
  BY <1>1 DEF OkTrail

\* The output of a successful link extends the trail.
LEMMA OkTrailPush ==
  ASSUME NEW o, NEW pc \in Nat \ {0}, NEW cmds, OkTrail(o, pc, cmds),
         cmds[pc].op \notin NoLink
  PROVE  OkTrail(o \o <<<<pc, "ok">>>>, pc + 1, cmds)
<1> DEFINE e == <<pc, "ok">>
           o2 == o \o <<e>>
<1>1. o \in Seq(Entry) /\ <<e>> \in Seq(Entry)
  BY DEF OkTrail, Entry
<1>2. /\ o2 \in Seq(Entry) /\ Len(o2) = Len(o) + 1
      /\ \A i \in 1..Len(o) : o2[i] = o[i]
      /\ o2[Len(o) + 1] = e
  BY <1>1, ConcatProperties
<1>3. Len(o) \in Nat
  BY <1>1, LenProperties
<1>4. \A i \in 1..Len(o2) : o2[i][2] = "ok" /\ o2[i][1] \in 1..pc
  BY <1>2, <1>3 DEF OkTrail
<1>5. \A i \in 1..Len(o2) - 1 : o2[i][1] < o2[i + 1][1]
  BY <1>2, <1>3 DEF OkTrail
<1>6. {o2[i][1] : i \in 1..Len(o2)} = {o[i][1] : i \in 1..Len(o)} \cup {pc}
  BY <1>2, <1>3
<1>7. {j \in 1..pc : cmds[j].op \notin NoLink} =
        {j \in 1..pc - 1 : cmds[j].op \notin NoLink} \cup {pc}
  OBVIOUS
<1>8. {o2[i][1] : i \in 1..Len(o2)} = {j \in 1..pc : cmds[j].op \notin NoLink}
  BY <1>6, <1>7 DEF OkTrail
<1>9. QED
  BY <1>2, <1>4, <1>5, <1>8 DEF OkTrail

-----------------------------------------------------------------------------
(* The inductive invariant                                                 *)

LEMMA InitIInv ==
  ASSUME PipelinesTyped
  PROVE  Init => IInv
BY EmptySeq DEF Init, IInv, ReqInv, Idle, PReq

\* A request slot filled by the handler.
LEMMA RefuseInv ==
  ASSUME PipelinesTyped, IInv, NEW r \in Req, NEW cmds \in Pipelines,
         Refuse(r, cmds)
  PROVE  IInv'
<1> DEFINE p == [st |-> "err", cmds |-> cmds, pc |-> 1, out |-> <<<<0, "err">>>>]
<1>1. p \in PReq
  BY DEF PipelinesTyped, PReq, Entry
<1>2. ReqInv(p)
  BY <1>1 DEF ReqInv
<1>3. QED
  BY <1>1, <1>2 DEF Refuse, IInv

LEMMA AcceptInv ==
  ASSUME PipelinesTyped, IInv, NEW r \in Req, NEW cmds \in Pipelines,
         Accept(r, cmds)
  PROVE  IInv'
<1> DEFINE p == [st |-> IF cmds = <<>> THEN "ok" ELSE "run", cmds |-> cmds,
                 pc |-> 1, out |-> <<>>]
<1>1. cmds \in Seq(Command)
  BY DEF PipelinesTyped
<1>2. p \in PReq
  BY <1>1, EmptySeq DEF PReq
<1>3. cmds # <<>> => Len(cmds) >= 1
  BY <1>1, EmptySeq, LenProperties
<1>4. cmds = <<>> => Len(cmds) = 0
  BY EmptySeq
<1>5. ReqInv(p)
  BY <1>1, <1>2, <1>3, <1>4, EmptyTrail, LenProperties DEF ReqInv
<1>6. QED
  BY <1>2, <1>5 DEF Accept, IInv

\* Updating one slot with a request that satisfies ReqInv keeps IInv.
LEMMA SlotUpdate ==
  ASSUME IInv, NEW r \in Req, NEW p2, p2 \in PReq, ReqInv(p2),
         preq' = [preq EXCEPT ![r] = p2]
  PROVE  IInv'
BY DEF IInv

\* What IInv says of a running request.
LEMMA RunFacts ==
  ASSUME IInv, NEW r \in Req, preq[r].st = "run"
  PROVE  /\ preq[r] \in PReq
         /\ preq[r].pc \in 1..Len(preq[r].cmds)
         /\ OkTrail(preq[r].out, preq[r].pc, preq[r].cmds)
         /\ Len(preq[r].cmds) \in Nat
<1>1. preq[r] \in PReq /\ ReqInv(preq[r])
  BY DEF IInv
<1>2. QED
  BY <1>1, LenProperties DEF ReqInv, PReq

LEMMA SkipInv ==
  ASSUME IInv, NEW r \in Req, Skip(r)
  PROVE  IInv'
<1> DEFINE p == preq[r]
           p2 == [st   |-> IF p.pc = Len(p.cmds) THEN "ok" ELSE "run",
                  cmds |-> p.cmds, pc |-> p.pc + 1, out |-> p.out \o <<>>]
<1>1. /\ p \in PReq /\ p.pc \in 1..Len(p.cmds) /\ Len(p.cmds) \in Nat
      /\ OkTrail(p.out, p.pc, p.cmds) /\ p.cmds[p.pc].op \in NoLink
  BY RunFacts DEF Skip, Current
<1>2. p.out \o <<>> = p.out
  BY <1>1, ConcatEmptySeq DEF PReq
<1>3. OkTrail(p.out, p.pc + 1, p.cmds)
  BY <1>1, OkTrailSkip
<1>4. p2 \in PReq
  BY <1>1, <1>2 DEF PReq
<1>5. ReqInv(p2)
  BY <1>1, <1>2, <1>3, <1>4 DEF ReqInv
<1>6. QED
  BY <1>4, <1>5, SlotUpdate DEF Skip, Step

LEMMA SucceedInv ==
  ASSUME IInv, NEW r \in Req, Succeed(r)
  PROVE  IInv'
<1> DEFINE p == preq[r]
           o2 == p.out \o <<<<p.pc, "ok">>>>
           p2 == [st   |-> IF p.pc = Len(p.cmds) THEN "ok" ELSE "run",
                  cmds |-> p.cmds, pc |-> p.pc + 1, out |-> o2]
<1>1. /\ p \in PReq /\ p.pc \in 1..Len(p.cmds) /\ Len(p.cmds) \in Nat
      /\ OkTrail(p.out, p.pc, p.cmds) /\ p.cmds[p.pc].op \notin NoLink
  BY RunFacts DEF Succeed, Current
<1>2. OkTrail(o2, p.pc + 1, p.cmds)
  BY <1>1, OkTrailPush
<1>3. p2 \in PReq
  BY <1>1, <1>2 DEF PReq, OkTrail
<1>4. ReqInv(p2)
  BY <1>1, <1>2, <1>3 DEF ReqInv
<1>5. QED
  BY <1>3, <1>4, SlotUpdate DEF Succeed, Step

LEMMA AbortInv ==
  ASSUME IInv, NEW r \in Req, Abort(r)
  PROVE  IInv'
<1> DEFINE p == preq[r]
<1>1. /\ p \in PReq /\ p.pc \in 1..Len(p.cmds) /\ Len(p.cmds) \in Nat
      /\ OkTrail(p.out, p.pc, p.cmds)
  BY RunFacts DEF Abort
<1>2. PICK es \in ErrTail(p.pc) :
        preq' = [preq EXCEPT ![r] = [st |-> "err", cmds |-> p.cmds, pc |-> p.pc,
                                     out |-> p.out \o es]]
  BY DEF Abort, ErrTail
<1> DEFINE p2 == [st |-> "err", cmds |-> p.cmds, pc |-> p.pc, out |-> p.out \o es]
<1>3. p.out \in Seq(Entry) /\ es \in Seq(Entry)
  <2>1. <<p.pc, "err">> \in Entry /\ <<p.pc, "ok">> \in Entry
    BY <1>1 DEF Entry
  <2>2. es = <<<<p.pc, "err">>>> \/ es = <<<<p.pc, "ok">>, <<p.pc, "err">>>>
    BY DEF ErrTail
  <2>3. /\ <<<<p.pc, "err">>>> \in Seq(Entry)
        /\ <<<<p.pc, "ok">>, <<p.pc, "err">>>> \in Seq(Entry)
    BY <2>1
  <2>4. QED
    BY <1>1, <2>2, <2>3 DEF PReq
<1>4. /\ SubSeq(p.out \o es, 1, Len(p.out)) = p.out
      /\ p.out \o es \in Seq(Entry)
      /\ Len(p.out) \in 0..Len(p.out \o es)
  BY <1>3, PrefixOfConcat, ConcatProperties, LenProperties
<1>5. p2 \in PReq
  BY <1>1, <1>4 DEF PReq
<1>6. ReqInv(p2)
  BY <1>1, <1>4, <1>5 DEF ReqInv
<1>7. QED
  BY <1>2, <1>5, <1>6, SlotUpdate

\* IInv is kept by every step of Pipeline.
LEMMA IInvInductive ==
  ASSUME PipelinesTyped
  PROVE  IInv /\ [Next]_preq => IInv'
<1> SUFFICES ASSUME IInv, [Next]_preq PROVE IInv'
  OBVIOUS
<1>1. ASSUME NEW r \in Req, NEW cmds \in Pipelines, Refuse(r, cmds) \/ Accept(r, cmds)
      PROVE  IInv'
  BY <1>1, RefuseInv, AcceptInv
<1>2. ASSUME NEW r \in Req, Skip(r) \/ Succeed(r) \/ Abort(r)
      PROVE  IInv'
  BY <1>2, SkipInv, SucceedInv, AbortInv
<1>3. CASE UNCHANGED preq
  BY <1>3, Zenon DEF IInv
<1>4. QED
  BY <1>1, <1>2, <1>3 DEF Next

-----------------------------------------------------------------------------
(* From IInv to TrailOK                                                    *)

\* The two order conditions of TrailOK on a trail o.
ErrLast(o) == \A i \in 1..Len(o) : o[i][2] = "err" => i = Len(o)
Ordered(o) ==
  \A i \in 1..Len(o) - 1 :
    \/ o[i][1] < o[i + 1][1]
    \/ o[i][1] = o[i + 1][1] /\ o[i + 1][2] = "err"

\* A trail of successful links has no error and is ordered.
LEMMA OkTrailOrdered ==
  ASSUME NEW o, NEW pc, NEW cmds, OkTrail(o, pc, cmds)
  PROVE  /\ \A i \in 1..Len(o) : o[i][2] # "err"
         /\ Ordered(o)
BY DEF OkTrail, Ordered

\* Such a trail followed by the tail of a failing link: the error is last
\* and the order is kept.
LEMMA ErrTrailOrdered ==
  ASSUME NEW q, NEW pc \in Nat \ {0}, NEW cmds, OkTrail(q, pc, cmds),
         NEW es \in ErrTail(pc)
  PROVE  ErrLast(q \o es) /\ Ordered(q \o es)
<1> DEFINE o == q \o es
<1>1. q \in Seq(Entry) /\ Len(q) \in Nat
  BY LenProperties DEF OkTrail
<1>2. es \in Seq(Entry)
  <2>1. <<pc, "err">> \in Entry /\ <<pc, "ok">> \in Entry
    BY DEF Entry
  <2>2. /\ <<<<pc, "err">>>> \in Seq(Entry)
        /\ <<<<pc, "ok">>, <<pc, "err">>>> \in Seq(Entry)
    BY <2>1
  <2>3. QED
    BY <2>2 DEF ErrTail
<1>3. /\ Len(o) = Len(q) + Len(es)
      /\ \A i \in 1..Len(o) : o[i] = IF i <= Len(q) THEN q[i] ELSE es[i - Len(q)]
  BY <1>1, <1>2, ConcatProperties
<1>4. CASE es = <<<<pc, "err">>>>
  <2>1. Len(o) = Len(q) + 1 /\ o[Len(q) + 1] = <<pc, "err">>
    BY <1>1, <1>3, <1>4
  <2>2. ErrLast(o)
    BY <1>1, <1>3, <2>1 DEF ErrLast, OkTrail
  <2>3. Ordered(o)
    BY <1>1, <1>3, <2>1 DEF Ordered, OkTrail
  <2>4. QED
    BY <2>2, <2>3
<1>5. CASE es = <<<<pc, "ok">>, <<pc, "err">>>>
  <2>1. /\ Len(o) = Len(q) + 2
        /\ o[Len(q) + 1] = <<pc, "ok">> /\ o[Len(q) + 2] = <<pc, "err">>
    BY <1>1, <1>3, <1>5
  <2>2. ErrLast(o)
    BY <1>1, <1>3, <2>1 DEF ErrLast, OkTrail
  <2>3. Ordered(o)
    BY <1>1, <1>3, <2>1 DEF Ordered, OkTrail
  <2>4. QED
    BY <2>2, <2>3
<1>6. QED
  BY <1>4, <1>5 DEF ErrTail

LEMMA TrailFromIInv == IInv => TrailOK
<1> SUFFICES ASSUME IInv, NEW r \in Req
             PROVE  /\ ErrLast(preq[r].out)
                    /\ \A i \in 1..Len(preq[r].out) :
                         preq[r].out[i][2] = "err" => preq[r].st = "err"
                    /\ Ordered(preq[r].out)
                    /\ preq[r].st = "ok" =>
                         {preq[r].out[i][1] : i \in 1..Len(preq[r].out)}
                           = Links(preq[r].cmds)
  BY DEF TrailOK, ErrLast, Ordered
<1> DEFINE p == preq[r]
<1>1. p \in PReq /\ ReqInv(p)
  BY DEF IInv
<1>2. CASE p.st = "idle"
  <2>1. p.out = <<>>
    BY <1>1, <1>2 DEF ReqInv
  <2>2. QED
    BY <1>2, <2>1 DEF ErrLast, Ordered
<1>3. CASE p.st \in {"run", "ok"}
  <2>1. OkTrail(p.out, p.pc, p.cmds) /\ (p.st = "ok" => p.pc = Len(p.cmds) + 1)
    BY <1>1, <1>3 DEF ReqInv
  <2>2. (\A i \in 1..Len(p.out) : p.out[i][2] # "err") /\ Ordered(p.out)
    BY <2>1, OkTrailOrdered
  <2>3. p.st = "ok" => {p.out[i][1] : i \in 1..Len(p.out)} = Links(p.cmds)
    BY <2>1 DEF OkTrail, Links
  <2>4. QED
    BY <2>2, <2>3 DEF ErrLast
<1>4. CASE p.st = "err" /\ p.out = <<<<0, "err">>>>
  BY <1>4 DEF ErrLast, Ordered
<1>5. CASE p.st = "err" /\ p.out # <<<<0, "err">>>>
  <2>1. /\ p.pc \in 1..Len(p.cmds)
        /\ \E n \in 0..Len(p.out), es \in ErrTail(p.pc) :
             /\ p.out = SubSeq(p.out, 1, n) \o es
             /\ OkTrail(SubSeq(p.out, 1, n), p.pc, p.cmds)
    BY <1>1, <1>5 DEF ReqInv
  <2>2. PICK n \in 0..Len(p.out), es \in ErrTail(p.pc) :
             /\ p.out = SubSeq(p.out, 1, n) \o es
             /\ OkTrail(SubSeq(p.out, 1, n), p.pc, p.cmds)
    BY <2>1
  <2>3. ErrLast(SubSeq(p.out, 1, n) \o es) /\ Ordered(SubSeq(p.out, 1, n) \o es)
    BY <2>1, <2>2, ErrTrailOrdered
  <2>4. QED
    BY <1>5, <2>2, <2>3
<1>6. QED
  BY <1>1, <1>2, <1>3, <1>4, <1>5 DEF PReq

\* The reply of every request of Pipeline is well formed: an error only
\* last and only in an Err reply, the entries in command order, and an Ok
\* reply with one entry per link; for every set of slots and command lists.
THEOREM TrailHolds ==
  ASSUME PipelinesTyped
  PROVE  Spec => []TrailOK
<1>1. Init => IInv
  BY InitIInv
<1>2. IInv /\ [Next]_preq => IInv'
  BY IInvInductive
<1>3. IInv => TrailOK
  BY TrailFromIInv
<1>4. QED
  BY <1>1, <1>2, <1>3, PTL DEF Spec

=============================================================================

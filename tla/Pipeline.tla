------------------------------ MODULE Pipeline ------------------------------
(***************************************************************************)
(* What a SessionUpdate promises its caller, gu-provider/src/hdman.rs,     *)
(* with the session, the processes and the suspension points left out:    *)
(* a request is refused (NoSuchSession) or accepted with its command list; *)
(* an accepted request runs its commands one at a time in list order,     *)
(* Open and Close adding nothing to the reply; a command either pushes    *)
(* one output and the request goes on (or resolves Ok after the last), or *)
(* it fails, pushing its error (after its output, when it had one), and   *)
(* the request resolves Err with no later command run.  HdMan implements   *)
(* this specification under the mapping HdMan!PipelineOf.                 *)
(***************************************************************************)
EXTENDS Naturals, Sequences

CONSTANTS
  Req,         \* request slots
  Command,     \* the commands
  Pipelines    \* the command lists a request may carry

VARIABLE preq  \* preq[r]: the state of request r

\* Open and Close are handled in the loop and add no link to the chain.
NoLink == {"Open", "Close"}

Entry == Nat \X {"ok", "err"}

PReq == [st: {"idle", "run", "ok", "err"}, cmds: Seq(Command),
         pc: Nat, out: Seq(Entry)]

Idle == [st |-> "idle", cmds |-> <<>>, pc |-> 1, out |-> <<>>]

Init == preq = [r \in Req |-> Idle]

\* The handler finds no session: the reply is NoSuchSession at once.
Refuse(r, cmds) ==
  /\ preq[r].st = "idle"
  /\ preq' = [preq EXCEPT ![r] = [st |-> "err", cmds |-> cmds, pc |-> 1,
                                  out |-> <<<<0, "err">>>>]]

\* The handler finds the session and builds the chain.
Accept(r, cmds) ==
  /\ preq[r].st = "idle"
  /\ preq' = [preq EXCEPT ![r] = [st |-> IF cmds = <<>> THEN "ok" ELSE "run",
                                  cmds |-> cmds, pc |-> 1, out |-> <<>>]]

Current(r) == preq[r].cmds[preq[r].pc]

Step(r, es) ==
  preq' = [preq EXCEPT ![r] =
             [st   |-> IF @.pc = Len(@.cmds) THEN "ok" ELSE "run",
              cmds |-> @.cmds, pc |-> @.pc + 1, out |-> @.out \o es]]

\* An Open or a Close is passed over.
Skip(r) ==
  /\ preq[r].st = "run"
  /\ Current(r).op \in NoLink
  /\ Step(r, <<>>)

\* A link succeeds and pushes its output.
Succeed(r) ==
  /\ preq[r].st = "run"
  /\ Current(r).op \notin NoLink
  /\ Step(r, <<<<preq[r].pc, "ok">>>>)

\* A link fails, its error last; the request resolves Err.
Abort(r) ==
  /\ preq[r].st = "run"
  /\ Current(r).op \notin NoLink
  /\ \E es \in {<<<<preq[r].pc, "err">>>>,
                <<<<preq[r].pc, "ok">>, <<preq[r].pc, "err">>>>} :
       preq' = [preq EXCEPT ![r] = [st |-> "err", cmds |-> @.cmds, pc |-> @.pc,
                                    out |-> @.out \o es]]

Next ==
  \E r \in Req :
    \/ \E cmds \in Pipelines : Refuse(r, cmds) \/ Accept(r, cmds)
    \/ Skip(r) \/ Succeed(r) \/ Abort(r)

Spec == Init /\ [][Next]_preq

-----------------------------------------------------------------------------
\* The links of a command list: the commands other than Open and Close.
Links(cmds) == {i \in 1..Len(cmds) : cmds[i].op \notin NoLink}

\* The reply of every request (spec 4.4): a failure is the last entry and
\* resolves the request Err; the entries follow the order of the commands,
\* a command's error right after its output; and an Ok reply has exactly
\* one entry for every link of the list.
TrailOK ==
  \A r \in Req :
    LET o == preq[r].out IN
    /\ \A i \in 1..Len(o) : o[i][2] = "err" => i = Len(o) /\ preq[r].st = "err"
    /\ \A i \in 1..Len(o) - 1 :
         \/ o[i][1] < o[i + 1][1]
         \/ o[i][1] = o[i + 1][1] /\ o[i + 1][2] = "err"
    /\ preq[r].st = "ok" => {o[i][1] : i \in 1..Len(o)} = Links(preq[r].cmds)
=============================================================================

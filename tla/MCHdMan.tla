------------------------------ MODULE MCHdMan ------------------------------
(* Small instances of HdMan for TLC. *)
EXTENDS HdMan

C(op) == [op |-> op]

\* Pipelines that exercise every command kind, the orders that matter for
\* the interleavings (a transfer or an Exec before a Start, a Start before
\* a Stop) and the no-op commands.
MCPipelines ==
  { <<C("Start"), [op |-> "Stop", child |-> CHOOSE c \in ChildId : TRUE]>>,
    <<C("DownloadFile"), C("Start")>>,
    <<C("Exec"), [op |-> "AddTags", tags |-> Tag]>>,
    <<C("Open"), [op |-> "DelTags", tags |-> Tag], C("Close")>>,
    <<C("UploadFile")>> }

\* A transfer, a suspension point that looks no session up, then a Start.
MCTransferStart == { <<C("DownloadFile"), C("Start")>> }

\* Pipelines for the liveness run: start a child and stop it.
MCStartStop ==
  { <<C("Start")>>, <<[op |-> "Stop", child |-> CHOOSE c \in ChildId : TRUE]>> }
=============================================================================

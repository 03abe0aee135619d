--------------------------- MODULE MCHelpPipeline ---------------------------
(* HelpPipeline with a handful of calls on one task.                       *)
EXTENDS HelpPipeline, TLC

LOCAL INSTANCE SequencesExt

\* Calls only differ by name: sound for the runs that check no liveness.
CallSymmetry == Permutations(Calls)

\* Where liveness is checked, calls are named in the order they arrive instead,
\* and updates leave the message alone, on which nothing the services decide
\* depends.
Order == SetToSeq(Calls)

Bare(r) == r # None /\ r.op = "update" => r.message = None

InOrder ==
  \A i \in 1..Len(Order) : call'[Order[i]].pc # "new" =>
    /\ i > 1 => call[Order[i - 1]].pc # "new"
    /\ Bare(call'[Order[i]].req)

OrderedPipelineSpec ==
  PipelineInit /\ [][PipelineNext /\ InOrder]_pipelineVars /\ PipelineFairness
=============================================================================

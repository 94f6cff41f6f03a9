------------------------- MODULE PipelineRefinement -------------------------
(* The pipeline implements the abstract DurableQueue: its rows are the     *)
(* queue, whatever its tasks are doing.                                    *)
EXTENDS Pipeline

QueueState ==
    [e \in Events |->
        CASE status[e] = "absent" -> "new"
          [] status[e] \in {"pending", "processing"} -> "queued"
          [] OTHER -> status[e]]

Queue == INSTANCE DurableQueue WITH
    rank <- rowId,
    nextRank <- nextId,
    state <- QueueState,
    delivered <- {e \in Events : handled[e] > 0}

\* Whatever interleavings, crashes and failed statements do (a statement
\* that committed but looked failed excepted), the rows behave as the
\* promised queue: acceptance order, delivery before 'done', no event lost.
ImplementsQueue == Queue!Spec
=============================================================================

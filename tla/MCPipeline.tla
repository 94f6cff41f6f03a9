----------------------------- MODULE MCPipeline -----------------------------
(* Instances of Pipeline for TLC: one channel with two events, where their *)
(* order matters, and two channels with an event each, whose workers       *)
(* interleave and die together.                                            *)
EXTENDS PipelineRefinement, TLC

CONSTANTS e1, e2, e3, c1, c2

MCTwoEvents == {e1, e2}
MCOneChannel == {c1}
MCOneChannelOf == (e1 :> c1) @@ (e2 :> c1)

MCTwoCh == {e1, e3}
MCChannels == {c1, c2}
MCTwoChOf == (e1 :> c1) @@ (e3 :> c2)

\* e1 and e2 play the same part until one of them is enqueued first.
Symmetry == Permutations({e1, e2})
=============================================================================

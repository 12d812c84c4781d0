--------------------------- MODULE MCPipelineRun ----------------------------
(***************************************************************************)
(* PipelineRun on a snapshot of up to three hosts, with as many addresses  *)
(* as a run can see.                                                       *)
(***************************************************************************)
EXTENDS PipelineRun

CONSTANTS h1, h2, h3

\* No host (domains or networks only), one, and one more than the cap.
MCHostLists == {<<>>, <<h1>>, <<h1, h2, h3>>}

=============================================================================

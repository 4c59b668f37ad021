------------------------- MODULE MCPipelineUpdater -------------------------
(* Two configurations that differ in video and port, and mixtures of them; *)
(* one mixture does not launch.                                            *)
EXTENDS PipelineUpdater
CONSTANTS v1, v2, t1, p1, p2
MCLaunchable == Config \ {[video |-> v2, text |-> t1, port |-> p1]}
=============================================================================

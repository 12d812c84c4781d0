----------------------------- MODULE MCAgentRun -----------------------------
(***************************************************************************)
(* AgentRun for TLC: two scanners, one of which the discovery pre-stage    *)
(* ran already.                                                            *)
(***************************************************************************)
EXTENDS AgentRun

CONSTANTS t1, t2, f1

=============================================================================

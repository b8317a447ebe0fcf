--------------------------- MODULE MCAgentHandoff ---------------------------
(* Two workers and one API request at a time around one handoff.  Fairness  *)
(* is stated, so that no symmetry is declared.                              *)
EXTENDS AgentHandoff

=============================================================================

-------------------------- MODULE MCBackgroundAgents --------------------------
(***************************************************************************)
(* BackgroundAgents for TLC.                                               *)
(***************************************************************************)
EXTENDS BackgroundAgents

=============================================================================

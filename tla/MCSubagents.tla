---------------------------- MODULE MCSubagents -----------------------------
(* One run with up to four agents: a call of the run and one of its child with *)
(* two attempts each, or any mix with agents in the background.                 *)
EXTENDS Subagents
=============================================================================

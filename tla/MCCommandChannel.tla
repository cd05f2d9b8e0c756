-------------------------- MODULE MCCommandChannel --------------------------
(* CommandChannel on small instances: commands carry 1 or 2.               *)
EXTENDS CommandChannel

MCUpdates == {1, 2}
MCOneUpdate == {1}
=============================================================================

----------------------------- MODULE MCFT232RL -----------------------------
(* Two objects and two adapters wired to each other. *)
EXTENDS AdapterCalls

CrossedWire == [d \in Devices |-> 1 - d]
=============================================================================

--------------------------- MODULE MCWebInterface ---------------------------
(* Calls of the web interface, in order and in disorder.  A route for each *)
(* way through a call: with a checked answer, with none, without a command *)
(* of its own, and the one that leaves.                                    *)
EXTENDS WebInterface

FourRoutes == {move_motor, stop_all_motors, connect_to_server, disconnect_from_server}
MoveAndStop == {move_motor, stop_all_motors}
=============================================================================

------------------------------ MODULE MCServer ------------------------------
(* Three connections and descriptors from 4 on, fewer than connections.    *)
EXTENDS Server, TLC

CONSTANTS c1, c2, c3

OwnNames  == (c1 :> "anna") @@ (c2 :> "bert") @@ (c3 :> "cleo")
\* interface/main.py:8: every web interface introduces itself alike.
SameNames == [conn \in Conns |-> "UserInterface"]
=============================================================================

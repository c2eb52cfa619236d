--------------------------- MODULE MessageChannel ---------------------------
(***************************************************************************)
(* What the socket layer promises to the code above it: messages arrive    *)
(* whole, in the order sent, each once, one or several at a time.          *)
(***************************************************************************)
EXTENDS Naturals, Sequences

CONSTANT Message

VARIABLES written, delivered

chanVars == <<written, delivered>>

Init == written = <<>> /\ delivered = <<>>

Write(m) ==
    /\ written' = Append(written, m)
    /\ UNCHANGED delivered

Deliver ==
    /\ \E n \in Len(delivered) + 1 .. Len(written) : delivered' = SubSeq(written, 1, n)
    /\ UNCHANGED written

Next == (\E m \in Message : Write(m)) \/ Deliver

Spec == Init /\ [][Next]_chanVars /\ WF_chanVars(Deliver)
=============================================================================

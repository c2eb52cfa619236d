----------------------------- MODULE MCMockMain -----------------------------
(* The mock on adapter 1, nothing sent to its other end, with bytes that are a version request, a  *)
(* motor command and neither.                                              *)
EXTENDS MockMain

OwnWire     == [d \in Devices |-> d]
NoPrefix    == <<>>
Numbers     == [s \in {"1", "7", "0x"} |-> CASE s = "1" -> 1 [] s = "7" -> 7 [] s = "0x" -> 0]
Lines == {<<>>, <<"-s">>, <<"-d", "7">>, <<"--device", "0x", "-s">>, <<"-d">>,
          <<"-d", "-s">>, <<"-v", "-h">>, <<"-x">>}
\* The theorem about the types speaks of such bytes.
ASSUME OctetsAreMet == Octets
=============================================================================

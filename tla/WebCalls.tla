------------------------------ MODULE WebCalls ------------------------------
(***************************************************************************)
(* What the web interface promises the browser: a call that asks for a     *)
(* movement or the version succeeds only if the service has done what this *)
(* call asked for, and once a call is over nothing it asked for happens.   *)
(* The promise holds while calls do not overlap and the service answers in *)
(* time; when either goes wrong it is void.                                *)
(***************************************************************************)
EXTENDS Naturals

CONSTANT Calls

VARIABLES
    result,   \* call -> "none", "pending", "success", "error"
    done,     \* calls whose command the service has carried out
    void

Init ==
    /\ result = [n \in Calls |-> "none"]
    /\ done = {}
    /\ void = FALSE

Begin(n) ==
    /\ result[n] = "none"
    /\ result' = [result EXCEPT ![n] = "pending"]
    /\ UNCHANGED <<done, void>>

Perform(n) ==
    /\ result[n] = "pending"
    /\ done' = done \cup {n}
    /\ UNCHANGED <<result, void>>

Succeed(n) ==
    /\ result[n] = "pending" /\ n \in done
    /\ result' = [result EXCEPT ![n] = "success"]
    /\ UNCHANGED <<done, void>>

\* A bad request fails without having begun.
Fail(n) ==
    /\ result[n] \in {"none", "pending"}
    /\ result' = [result EXCEPT ![n] = "error"]
    /\ UNCHANGED <<done, void>>

Kept == ~void /\ \E n \in Calls : Begin(n) \/ Perform(n) \/ Succeed(n) \/ Fail(n)

Next == void' \/ Kept

Spec == Init /\ [][Next]_<<result, done, void>>
=============================================================================

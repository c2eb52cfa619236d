---------------------------- MODULE WebInterface ----------------------------
(***************************************************************************)
(* The web interface's back end (interface/main.py): Flask answers each    *)
(* request on a thread of its own, and all threads use one global          *)
(* connector without a lock.  A call first makes sure of the connection,   *)
(* with a command sent as a probe, and then sends its own command.         *)
(*                                                                         *)
(* Routes that touch no connection (status, settings, logs) are left out.  *)
(* An exception's way through the code is the action that raises it        *)
(* followed by Raised.                                                     *)
(***************************************************************************)
EXTENDS ServerConnector

CONSTANTS
    Routes,        \* the routes that are called
    MaxDisorder    \* calls, once they overlap or an answer is late (a bound)

VARIABLES
    connector,  \* the global: a connection's number, or None
    begun,      \* how many calls have begun
    route,      \* call -> what it is a call of
    result,     \* call -> "none", "pending", "success", "error"
    pc,         \* call -> where its thread stands
    purpose,    \* call -> what the command being sent is for
    spoilt      \* calls have overlapped, or an answer has come too late

webVars == <<connector, begun, route, result, pc, purpose, spoilt>>
vars == <<connVars, webVars>>

\* What a route asks of the service, and whether it looks at the status of
\* the answer; the rest of its handler is common to them all.
move_motor             == [path |-> "move", command |-> "moving", checked |-> TRUE]
move_multiple_motors   == [path |-> "move-multiple", command |-> "moving", checked |-> TRUE]
get_version            == [path |-> "version", command |-> "version", checked |-> TRUE]
get_devices            == [path |-> "devices", command |-> "listconnect", checked |-> FALSE]
connect_to_device      == [path |-> "connect-device", command |-> "reconnect", checked |-> FALSE]
disconnect_from_device == [path |-> "disconnect-device", command |-> "disconnect", checked |-> FALSE]
stop_all_motors        == [path |-> "stop-all", command |-> "stop", checked |-> FALSE]
disconnect_from_server == [path |-> "disconnect", command |-> "disconnect", checked |-> FALSE]
connect_to_server      == [path |-> "connect", command |-> "none", checked |-> FALSE]

NoRoute == [path |-> "none", command |-> "none", checked |-> FALSE]

AllRoutes == {move_motor, move_multiple_motors, get_version, get_devices, connect_to_device,
              disconnect_from_device, stop_all_motors, disconnect_from_server, connect_to_server}

ASSUME RoutesAssumption == Routes \subseteq AllRoutes

\* Disorder is a bound within the bound on all calls.
ASSUME BoundsAssumption == MaxCalls \in Nat /\ MaxDisorder \in 0..MaxCalls

\* Nothing has been called yet, or all calls so far have been answered and
\* have left a connector that works.
Init ==
    /\ ConnInit
    /\ connector = dialled
    /\ begun = 0
    /\ route = [n \in Calls |-> NoRoute]
    /\ result = [n \in Calls |-> "none"]
    /\ pc = [n \in Calls |-> "idle"]
    /\ purpose = [n \in Calls |-> "none"]
    /\ spoilt = FALSE

-----------------------------------------------------------------------------
(* Control.                                                                *)

Go(n, where, why) ==
    /\ pc' = [pc EXCEPT ![n] = where]
    /\ purpose' = [purpose EXCEPT ![n] = why]
    /\ UNCHANGED result

\* Mutant: a call comes to its end without an answer.
EndUnanswered(n, verdict) ==
    /\ pc' = [pc EXCEPT ![n] = "idle"]
    /\ purpose' = [purpose EXCEPT ![n] = "none"]
    /\ UNCHANGED result

End(n, verdict) ==
    /\ pc' = [pc EXCEPT ![n] = "idle"]
    /\ purpose' = [purpose EXCEPT ![n] = "none"]
    /\ result' = [result EXCEPT ![n] = verdict]

\* ensure_connection has returned.
Ensured(n) ==
    IF route[n] = connect_to_server THEN End(n, "success") ELSE Go(n, "fetch", "main")

Judgement(n, pieces) ==
    IF route[n].checked /\ ~StatusOk(pieces) THEN "error" ELSE "success"

\* send_command has returned.
Returned(n, pieces) ==
    \/ purpose[n] \in {"greet", "probe"} /\ Ensured(n)
    \/ purpose[n] = "main" /\ End(n, Judgement(n, pieces))
    \/ purpose[n] = "leave" /\ Go(n, "close", "leave")

\* An exception out of the expression connector.send_command(...).
Raised(n) ==
    \/ purpose[n] = "greet" /\ Ensured(n) /\ UNCHANGED connector
    \/ purpose[n] = "probe" /\ connector' = None /\ Go(n, "dial", "redial")
    \/ purpose[n] = "main" /\ End(n, "error") /\ UNCHANGED connector
    \/ purpose[n] = "leave" /\ Go(n, "close", "leave") /\ UNCHANGED connector

\* After every step a connector nothing refers to is closed.
Collect ==
    Closes({c \in Opened : c # connector' /\ \A n \in Calls : held'[n] # c})

Hold(n, c) == held' = [held EXCEPT ![n] = c]
Keep(n, pieces) == got' = [got EXCEPT ![n] = pieces]

-----------------------------------------------------------------------------
(* Steps of a call.                                                        *)

Begin(r, verdict) ==
    /\ begun' = begun + 1
    /\ begun' <= IF spoilt' THEN MaxDisorder ELSE MaxCalls
    /\ route' = [route EXCEPT ![begun'] = r]
    /\ result' = [result EXCEPT ![begun'] = verdict]
    /\ UNCHANGED <<connVars, connector>>

\* The first look at the connector, of ensure_connection or of disconnect.
Request(r) ==
    LET leave == r = disconnect_from_server
        greet == ~leave /\ connector = None
    IN  /\ ~(leave /\ connector = None)
        /\ spoilt' = (spoilt \/ \E n \in Calls : pc[n] # "idle")
        /\ Begin(r, "pending")
        /\ pc' = [pc EXCEPT ![begun'] = IF greet THEN "dial" ELSE "fetch"]
        /\ purpose' = [purpose EXCEPT ![begun'] =
                         IF leave THEN "leave" ELSE IF greet THEN "greet" ELSE "probe"]

\* Answered at once: a movement without a motor's number or step, with 400;
\* a disconnect without a connector.
AtOnce(r) ==
    /\ UNCHANGED <<pc, purpose, spoilt>>
    /\ \/ r \in {move_motor, move_multiple_motors} /\ Begin(r, "error")
       \/ r = disconnect_from_server /\ connector = None /\ Begin(r, "success")

\* A new ServerConnector.
Dial(n) ==
    /\ pc[n] = "dial"
    /\ \/ /\ connect
          /\ connector' = dialled'
          /\ IF purpose[n] = "greet" THEN Go(n, "fetch", "greet") ELSE Ensured(n)
       \/ /\ service # "up"
          /\ connector' = None
          /\ End(n, "error")
          /\ UNCHANGED <<dialled, up, down, lost>>
    /\ UNCHANGED <<serviceVars, callVars, begun, route, spoilt>>
    /\ Collect

\* The global is read again for each call of a method.
Fetch(n) ==
    /\ pc[n] = "fetch"
    /\ \/ connector = None /\ Raised(n) /\ UNCHANGED held
       \/ connector # None /\ Hold(n, connector) /\ Go(n, "send", purpose[n])
          /\ UNCHANGED connector
    /\ UNCHANGED <<dialled, up, down, lost, serviceVars, got, begun, route, spoilt>>
    /\ Collect

Command(n) == IF purpose[n] \in {"greet", "probe"} THEN "listconnect" ELSE route[n].command

\* Only the command a checked call is about counts as its work.
Tag(n) == IF purpose[n] = "main" /\ route[n].checked THEN n ELSE None

\* Mutant: only the answers to a route's own command are read.
SendHasty(n) ==
    /\ pc[n] = "send"
    /\ \/ /\ sends(n, Tag(n), Command(n))
          /\ IF purpose[n] = "main" THEN Go(n, "recv", "main") /\ UNCHANGED held
             ELSE Returned(n, <<>>) /\ Hold(n, None)
          /\ UNCHANGED connector
       \/ sendFails(n) /\ Raised(n) /\ Hold(n, None)
    /\ UNCHANGED <<serviceVars, got, begun, route, spoilt>>
    /\ Collect

Send(n) ==
    /\ pc[n] = "send"
    /\ \/ sends(n, Tag(n), Command(n)) /\ Go(n, "recv", purpose[n]) /\ UNCHANGED <<connector, held>>
       \/ sendFails(n) /\ Raised(n) /\ Hold(n, None)
    /\ UNCHANGED <<serviceVars, got, begun, route, spoilt>>
    /\ Collect

Receive(n) ==
    /\ pc[n] = "recv"
    /\ \/ /\ \E k \in 1..Len(down[held[n]]) :
                /\ Chunk(n, k)
                /\ IF EndsAnswer(Heard(n, k))
                   THEN Returned(n, Heard(n, k)) /\ Hold(n, None) /\ Keep(n, <<>>)
                   ELSE Keep(n, Heard(n, k)) /\ UNCHANGED <<result, pc, purpose, held>>
          /\ UNCHANGED <<connector, spoilt>>
       \/ /\ EndOfFile(n) /\ Returned(n, got[n])
          /\ Hold(n, None) /\ Keep(n, <<>>)
          /\ UNCHANGED <<connector, spoilt>>
       \/ /\ recvFails(n) /\ Raised(n)
          /\ Hold(n, None) /\ Keep(n, <<>>)
          /\ UNCHANGED spoilt
       \/ /\ Timeout(n) /\ Returned(n, got[n])
          /\ Hold(n, None) /\ Keep(n, <<>>)
          /\ spoilt' = (spoilt \/ Awaited(held[n]))
          /\ UNCHANGED connector
    /\ UNCHANGED <<serviceVars, begun, route>>
    /\ Collect

\* disconnect_from_server: connector.close(), then connector = None.
CloseConnector(n) ==
    /\ pc[n] = "close"
    /\ UNCHANGED <<dialled, up, down, lost, connector, callVars, serviceVars, begun, route, spoilt>>
    /\ \/ connector = None /\ End(n, "error") /\ UNCHANGED gone
       \/ connector # None /\ Closes({connector}) /\ Go(n, "forget", "none")

Forget(n) ==
    /\ pc[n] = "forget"
    /\ connector' = None
    /\ End(n, "success")
    /\ UNCHANGED <<dialled, up, down, lost, callVars, serviceVars, begun, route, spoilt>>
    /\ Collect

Continue(n) ==
    \/ Dial(n) \/ Fetch(n) \/ Send(n) \/ Receive(n)
    \/ CloseConnector(n) \/ Forget(n)

Thread == \E n \in Calls : Continue(n)

\* The service is shut down while calls are in order (a bound of the model).
WebService ==
    /\ ServiceStep \/ (~spoilt /\ Shutdown)
    /\ UNCHANGED webVars

Next ==
    \/ \E r \in Routes : Request(r) \/ AtOnce(r)
    \/ Thread
    \/ WebService

\* Some thread that can go on is let go on, and timeouts expire; the service
\* owes nothing.
Spec == Init /\ [][Next]_vars /\ WF_vars(Thread)

-----------------------------------------------------------------------------
(* Properties.                                                             *)

WebTypeOK ==
    /\ dialled \in 0..MaxCalls + 1
    /\ \A c \in Conns : gone[c] \in {"no", "fin", "cut", "rst", "over"}
    /\ \A c \in Conns : lost[c] \in {"no", "fin", "cut", "rst"}
    /\ service \in {"up", "down", "killed"}
    /\ connector \in 0..dialled
    /\ begun \in 0..MaxCalls
    /\ \A n \in Calls :
        /\ pc[n] \in {"idle", "dial", "fetch", "send", "recv", "close", "forget"}
        /\ result[n] = "pending" <=> pc[n] # "idle"
        /\ held[n] \in 0..dialled
        /\ (pc[n] \in {"send", "recv"}) <=> (held[n] # None)

(***************************************************************************)
(* A client that waits for its answers does not bring the service down: as *)
(* long as calls do not overlap and no answer is late, no disconnecting    *)
(* and no reconnecting makes the service read a reset connection or write  *)
(* to a closed one (network_serializer.cpp:26, :53).                       *)
(***************************************************************************)
ServiceSurvives == service = "killed" => spoilt

(***************************************************************************)
(* The interface keeps what WebCalls promises, whenever the service stops  *)
(* and is started again: what the probes, the commands without an answer   *)
(* and the broken connections leave behind is never taken for the answer   *)
(* of a later call.                                                        *)
(***************************************************************************)
CheckedCalls ==
    [n \in Calls |-> IF route[n].checked THEN result[n] ELSE "none"]

Promise == INSTANCE WebCalls
             WITH result <- CheckedCalls, done <- performed, void <- spoilt

KeepsPromise == Promise!Spec

(***************************************************************************)
(* Every call is answered, whatever the service and the other threads do:  *)
(* no thread of the web server waits for ever, and when no more calls come *)
(* all have been answered.                                                 *)
(***************************************************************************)
Answered(n) == result[n] # "pending"
EveryCallEnds == (\E n \in Calls : ~Answered(n)) ~> (\A n \in Calls : Answered(n))

-----------------------------------------------------------------------------
(* What the interface says and the service does not do.                    *)

(***************************************************************************)
(* main.py:397: a successful stop-all says that all motors have stopped.   *)
(***************************************************************************)
StopAllStops ==
    [][\A n \in Calls :
         route[n] = stop_all_motors /\ result[n] = "pending" /\ result'[n] = "success"
         => handling.command # "moving"]_vars

=============================================================================

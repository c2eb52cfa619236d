------------------------------ MODULE UserCore ------------------------------
(***************************************************************************)
(* The service's request handler UserCore (source/core/user_core.cpp): it  *)
(* takes one request at a time from the server, checks it, talks to the    *)
(* motor controller through its FT232RL object and writes one reply, or    *)
(* none.  The handler runs in the server's only thread, but the controller *)
(* and the wire go on while it sleeps between two polls, so a request is   *)
(* cut into steps where the code sleeps, polls or calls the adapter.       *)
(***************************************************************************)
EXTENDS FT232RL, JsonText

CONSTANTS
    Host,      \* the service's FT232RL object, m_module
    MaxPolls   \* polls of a wait: timeoutMs / checkIntervalMs, 50 in the code

ASSUME HostAssumption == Host \in Objects
ASSUME MaxPollsAssumption == MaxPolls \in Nat \ {0}

VARIABLES
    phase,     \* where the handler of the current request stands
    request,   \* the request being handled, or the last one
    elapsed,   \* empty polls of the current wait
    reply      \* what the handler wrote to the socket

coreVars == <<phase, request, elapsed, reply>>

-----------------------------------------------------------------------------
(* Requests and replies.                                                   *)

Commands == {"version", "moving", "reconnect", "disconnect", "listconnect"}

\* The parts of a text that deserializeMessage and deserializeManager accept.
deserializes(text) ==
    Parses(Message, text) /\ Parses(Manager, text.obj.text.str)
Envelope(text) == text.obj.text.str.obj
Command(text)  == Envelope(text).command.str
Argument(text) == Envelope(text).message.str

Asks(text, command) == deserializes(text) /\ Command(text) = Raw(command)

Settings(text) == Argument(text).obj
Mode(text)     == Settings(text).mode.str
Motors(text)   == deserializeMotors(Argument(text))
DeviceId(text) == Get("int", Argument(text).obj.deviceId)

Silent == -1      \* no reply was written

Reply(status) == [status |-> status, version |-> NoDevice, devices |-> <<>>]

-----------------------------------------------------------------------------
(* The checks, in the code's order: the first one that fails answers.      *)

FirstFailure(checks) ==
    LET failed == {i \in DOMAIN checks : checks[i][1]}
    IN  IF failed = {} THEN 0
        ELSE checks[CHOOSE i \in failed : \A j \in failed : i <= j][2]

checkEmptyMessage(text) == <<Argument(text) # Raw(""), 40506>>
checkConnection == <<~m_connected[Host], 40507>>
checkMode(text) == <<Mode(text) \notin {Raw(mode) : mode \in Modes}, 40501>>
checkDeviceId(text) == <<DeviceId(text) < 0, 40509>>
checkConnectResult(ok) == <<~ok, 40510>>

\* Mutant: only the upper bound of the number is checked.
checkMotorsUpper(motors) ==
    <<Len(motors) > 10 \/ \E i \in DOMAIN motors :
        LET m == motors[i]
        IN  m.number > 10 \/ m.acceleration = 0 \/ m.maxSpeed = 0, 40503>>

\* The limit first, then motor by motor its number, acceleration and speed.
checkMotors(motors) ==
    LET check(m) == FirstFailure(<< <<m.number \notin 1..10, 40503>>,
                                    <<m.acceleration = 0, 40504>>,
                                    <<m.maxSpeed = 0, 40505>> >>)
        bad == {i \in DOMAIN motors : check(motors[i]) # 0}
    IN  IF Len(motors) > 10 THEN <<TRUE, 40502>>
        ELSE IF bad = {} THEN <<FALSE, 0>>
        ELSE <<TRUE, check(motors[CHOOSE i \in bad : \A j \in bad : i <= j])>>

Refusal(text) ==
    CASE ~deserializes(text) -> 40401
      [] Asks(text, "version") \/ Asks(text, "disconnect") ->
            FirstFailure(<<checkEmptyMessage(text), checkConnection>>)
      [] Asks(text, "listconnect") ->
            FirstFailure(<<checkEmptyMessage(text)>>)
      [] Asks(text, "reconnect") ->
            IF m_connected[Host] THEN 40512
            ELSE IF ~Parses(Device, Argument(text)) THEN 40403
            ELSE FirstFailure(<<checkDeviceId(text)>>)
      [] Asks(text, "moving") ->
            IF ~m_connected[Host] THEN 40507
            ELSE IF ~Parses(MotorsSettings, Argument(text)) THEN 40402
            ELSE FirstFailure(<<checkMode(text), checkMotors(Motors(text))>>)
      [] OTHER -> 0

-----------------------------------------------------------------------------
(* Steps.                                                                  *)

CoreInit ==
    /\ phase = "idle"
    /\ request = Raw("")
    /\ elapsed = 0
    /\ reply = Reply(Silent)

\* The handler returns, having written this reply.
Return(r) == phase' = "idle" /\ reply' = r

\* An FT232RL call throws: the exception leaves Process, nothing is written.
Abort == throws(Host) /\ Return(Reply(Silent))

\* The handler starts a wait and has written nothing yet.
WaitFor(p) == phase' = p /\ reply' = Reply(Silent)

Take(text) == phase = "idle" /\ request' = text /\ elapsed' = 0

Accept(text, command) == Take(text) /\ Asks(text, command) /\ Refusal(text) = 0

\* The refusal quotes the text; of bytes that are no UTF-8 it cannot be
\* serialized, and the exception leaves Process.
Refuse(text) ==
    /\ Take(text)
    /\ Refusal(text) # 0
    /\ Return(Reply(IF serializes(text) THEN Refusal(text) ELSE Silent))
    /\ UNCHANGED ftVars

IgnoreUnknown(text) ==
    /\ Take(text)
    /\ deserializes(text) /\ Command(text) \notin {Raw(command) : command \in Commands}
    /\ Return(Reply(Silent))
    /\ UNCHANGED ftVars

version(text) ==
    /\ Accept(text, "version")
    /\ \/ writeData(Host, <<VersionCommand>>) /\ WaitFor("version")
       \/ Abort

moving(text) ==
    /\ Accept(text, "moving")
    /\ \/ /\ writeData(Host, <<CommandByte(Mode(text).raw, Len(Motors(text)))>>)
          /\ WaitFor("readiness")
       \/ Abort

reconnect(text) ==
    /\ Accept(text, "reconnect")
    /\ \/ /\ connectRefused(Host, DeviceId(text))
          /\ Return(Reply(FirstFailure(<<checkConnectResult(FALSE)>>)))
       \/ /\ connectOpens(Host, DeviceId(text))
          /\ Return(Reply(FirstFailure(<<checkConnectResult(TRUE)>>)))
       \/ connectThrows(Host, DeviceId(text)) /\ Return(Reply(Silent))

DisconnectModule(text) ==
    /\ Accept(text, "disconnect")
    /\ disconnect(Host)
    /\ Return(Reply(0))

\* The driver may fail to list the adapters; an empty list is answered with a
\* placeholder line.
listconnect(text) ==
    /\ Accept(text, "listconnect")
    /\ \E found \in {listComs(Host), <<>>} : Return([Reply(0) EXCEPT !.devices = found])
    /\ UNCHANGED ftVars

\* FT_Read's timeout leaves the byte zero and is not an error.
ReadVersion ==
    /\ phase = "version"
    /\ \/ \E frame \in {Fetched(Host, 1)} :
            /\ readData(Host, 1, frame)
            /\ Return([Reply(0) EXCEPT !.version = frame[1]])
       \/ Abort
    /\ UNCHANGED <<request, elapsed>>

\* Mutants: a poll that is not counted, one that is counted twice.
TickNever == elapsed
TickTwice == elapsed + 2

\* One more empty poll: elapsedMs += checkIntervalMs.
Tick == elapsed + 1

\* A poll that finds nothing sleeps; the last one gives up with the code 0x00
\* the response was filled with, which is also "ready".
PollReadiness ==
    /\ phase = "readiness"
    /\ \/ /\ Live(Host) /\ checkRXChannel(Host) >= 1
          /\ \E frame \in {Fetched(Host, 1)} :
                /\ readData(Host, 1, frame)
                /\ IF frame[1] # 0 THEN Return(Reply(40512)) ELSE WaitFor("data")
          /\ UNCHANGED elapsed
       \/ /\ Live(Host) /\ checkRXChannel(Host) = 0
          /\ elapsed' = Tick
          /\ WaitFor(IF elapsed' < MaxPolls THEN "readiness" ELSE "data")
          /\ UNCHANGED ftVars
       \/ Abort /\ UNCHANGED elapsed
    /\ UNCHANGED request

WriteMotors ==
    /\ phase = "data"
    /\ elapsed' = 0
    /\ \/ writeData(Host, EncodeMotors(Motors(request))) /\ WaitFor("completion")
       \/ Abort
    /\ UNCHANGED request

\* Mutants: any answer is read as one; the wrong byte; any non-zero byte.
CompletionBytesAny == 1
VerdictFirst(frame) == IF frame[1] = 255 THEN 0 ELSE 40513
VerdictNonzero(frame) == IF frame[2] # 0 THEN 0 ELSE 40513

\* completionResponse has room for two bytes; the second is the verdict.
CompletionBytes == 2
Verdict(frame) == IF frame[2] = 255 THEN 0 ELSE 40513

PollCompletion ==
    /\ phase = "completion"
    /\ \/ /\ Live(Host) /\ checkRXChannel(Host) >= CompletionBytes
          /\ \E frame \in {Fetched(Host, 2)} :
                /\ readData(Host, 2, frame)
                /\ Return(Reply(Verdict(frame)))
          /\ UNCHANGED elapsed
       \/ /\ Live(Host) /\ checkRXChannel(Host) < CompletionBytes
          /\ elapsed' = Tick
          /\ IF elapsed' < MaxPolls THEN WaitFor("completion") ELSE Return(Reply(40511))
          /\ UNCHANGED ftVars
       \/ Abort /\ UNCHANGED elapsed
    /\ UNCHANGED request

Process(text) ==
    \/ Refuse(text) \/ IgnoreUnknown(text)
    \/ version(text) \/ moving(text) \/ reconnect(text)
    \/ DisconnectModule(text) \/ listconnect(text)

Continue == ReadVersion \/ PollReadiness \/ WriteMotors \/ PollCompletion
=============================================================================

---------------------------- MODULE DialogProofs ----------------------------
(***************************************************************************)
(* What the dialog between the service and the controller promises on the  *)
(* bench, for any texts, any number of requests, any wait and any bytes.   *)
(*                                                                         *)
(* The argument: as long as the controller's adapter is plugged in, the    *)
(* two sides stand in one of twelve situations, told by the handler's      *)
(* phase, the worker's phase and the bytes on their way (Talk).  Once it   *)
(* was pulled nothing reaches the handler any more but what it had already *)
(* received (Silence).                                                     *)
(***************************************************************************)
EXTENDS MotorDialog, FT232RLProofs, MotorWireProofs

HostDevice == Wire[McuDevice]

\* The bytes on their way to the controller, and to the handler.
Up   == rx[McuDevice] \o tx[HostDevice]
Down == rx[HostDevice] \o tx[McuDevice]

\* What the handler may still read.
Left == IF holder[HostDevice] = Host THEN rx[HostDevice] ELSE <<>>

(***************************************************************************)
(* Who is where.  The controller never leaves its adapter and never gets   *)
(* it back; the handler's own adapter is never pulled; an adapter nobody   *)
(* holds has empty queues.                                                 *)
(***************************************************************************)
Seats ==
    /\ HandleInv /\ BaudInStep
    /\ m_baudrate[Host] = DefaultBaud /\ m_baudrate[Mcu] = DefaultBaud
    /\ m_connected[Mcu] /\ ftHandle[Mcu] = McuDevice
    /\ m_connected[Host] => ftHandle[Host] \in Devices
    /\ holder[HostDevice] \in {Nobody, Host}
    /\ holder[McuDevice] \in {Nobody, Host, Mcu}
    /\ HostDevice \in attached
    /\ m_connected[Host] /\ ftHandle[Host] = HostDevice => holder[HostDevice] = Host
    /\ m_connected[Host] /\ ftHandle[Host] = McuDevice => holder[McuDevice] # Mcu
    /\ \A d \in Devices : holder[d] = Nobody => rx[d] = <<>> /\ tx[d] = <<>>
    /\ holder[McuDevice] = Host => rx[McuDevice] = <<>>

(***************************************************************************)
(* The request being handled passed the checks.                            *)
(***************************************************************************)
Checked(text) ==
    /\ Asks(text, "moving")
    /\ Parses(MotorsSettings, Argument(text))
    /\ Mode(text) \in {Raw(mode) : mode \in Modes}
    /\ Len(Motors(text)) <= 10
    /\ \A i \in DOMAIN Motors(text) :
        LET m == Motors(text)[i]
        IN  m.number \in 1..10 /\ m.acceleration # 0 /\ m.maxSpeed # 0

RequestInv ==
    /\ phase # "idle" => m_connected[Host] /\ reply.status = Silent
    /\ phase = "version" => Asks(request, "version")
    /\ phase \in {"readiness", "data", "completion"} => request \in Requests /\ Checked(request)
    /\ phase \in {"readiness", "completion"} => elapsed < MaxPolls

CountInv ==
    /\ asked \in Nat
    /\ phase # "idle" => successes < asked
    /\ moved = <<>> \/ moved = <<moved[1]>>

\* The command byte, the block and the run that a request asks for.
CommandOf(text) == CommandByte(Mode(text).raw, Len(Motors(text)))
BlockOf(text)   == EncodeMotors(Motors(text))
MotorsOf(text)  == parseMotorData(BlockOf(text), CommandCount(CommandOf(text)))
RunOf(text, result) ==
    [mode |-> CommandMode(CommandOf(text)), motors |-> MotorsOf(text), result |-> result]

Standing(p, m, up, down) == phase = p /\ mphase = m /\ Up = up /\ Down = down

Announced == moved = <<>> /\ command = CommandOf(request)
Admitted  == Announced /\ validateMotorCommand(command)

Talk ==
    \/ Standing("idle", "loop", <<>>, <<>>)
    \/ Standing("version", "loop", <<VersionCommand>>, <<>>)
    \/ Standing("version", "version", <<>>, <<>>)
    \/ Standing("version", "loop", <<>>, <<FirmwareVersion>>)
    \/ Standing("readiness", "loop", <<CommandOf(request)>>, <<>>) /\ moved = <<>>
    \/ Standing("readiness", "loop", <<>>, <<1>>) /\ moved = <<>>
    \/ Standing("readiness", "motor", <<>>, <<>>) /\ Announced
    \/ Standing("readiness", "block", <<>>, <<0>>) /\ Admitted
    \/ Standing("data", "block", <<>>, <<>>) /\ Admitted
    \/ Standing("completion", "block", BlockOf(request), <<>>) /\ Admitted
    \/ Standing("completion", "work", <<>>, <<>>) /\ Admitted /\ motors = MotorsOf(request)
    \/ \E result \in Results :
        /\ Standing("completion", "loop", <<>>, CompletionPrefix \o <<result>>)
        /\ moved = <<RunOf(request, result)>>

Still(p, m, lefts) == phase = p /\ mphase = m /\ Left \in lefts

Silence ==
    /\ mphase # "loop" => holder[HostDevice] = Host
    /\ \/ Still("idle", "loop", {<<>>, CompletionPrefix})
       \/ Still("version", "loop", {<<>>, <<FirmwareVersion>>, CompletionPrefix})
       \/ Still("version", "version", {<<>>})
       \/ Still("readiness", "loop", {<<>>, <<0>>, <<1>>, CompletionPrefix}) /\ moved = <<>>
       \/ Still("readiness", "motor", {<<>>}) /\ moved = <<>>
       \/ Still("readiness", "block", {<<>>, <<0>>}) /\ moved = <<>>
       \/ Still("data", "block", {<<>>}) /\ moved = <<>>
       \/ Still("data", "loop", {<<>>}) /\ moved = <<>>
       \/ Still("completion", "block", {<<>>}) /\ moved = <<>>
       \/ Still("completion", "work", {<<>>}) /\ Admitted /\ motors = MotorsOf(request)
       \/ Still("completion", "loop", {<<>>})
       \/ \E result \in Results :
            /\ Still("completion", "loop", {CompletionPrefix, CompletionPrefix \o <<result>>})
            /\ moved = <<RunOf(request, result)>>

Conversation == IF holder[McuDevice] = Mcu THEN Talk ELSE Silence

HandlerType ==
    /\ phase \in {"idle", "version", "readiness", "data", "completion"}
    /\ request \in Requests \cup {Raw("")}
    /\ elapsed \in 0..MaxPolls
    /\ reply.status \in Int /\ reply.version \in Byte \cup {NoDevice}

WorkerType ==
    /\ mphase \in {"loop", "version", "unknown", "motor", "block", "work"}
    /\ command \in Byte

\* What a step of the handler must leave behind it.
Handled == HandlerType /\ RequestInv /\ Conversation /\ TrueVerdict /\ VersionIsFirmwares

DialogInv ==
    /\ DialogTypeOK /\ Seats /\ RequestInv /\ CountInv
    /\ Conversation
    /\ TrueVerdict /\ VersionIsFirmwares /\ OnlyValidMotors

-----------------------------------------------------------------------------
(* The checks of a request.                                                *)

LEMMA OneCommand ==
    \A text : \A c1, c2 \in Commands : Asks(text, c1) /\ Asks(text, c2) => c1 = c2
BY DEF Asks, Raw, Commands

\* What the least element of a set is.
LEMMA LeastIs ==
    ASSUME NEW S \in SUBSET Nat, NEW least \in S, \A j \in S : least <= j
    PROVE  (CHOOSE i \in S : \A j \in S : i <= j) = least
<1>1. ASSUME NEW i \in S, \A j \in S : i <= j PROVE i = least
  BY <1>1
<1> QED
  BY <1>1

LEMMA FirstFails ==
    ASSUME NEW checks, NEW failed, failed = {i \in DOMAIN checks : checks[i][1]},
           failed \in SUBSET Nat
    PROVE  /\ failed = {} => FirstFailure(checks) = 0
           /\ \A least \in failed : (\A j \in failed : least <= j) =>
                    FirstFailure(checks) = checks[least][2]
<1>1. FirstFailure(checks) =
        IF failed = {} THEN 0
        ELSE checks[CHOOSE i \in failed : \A j \in failed : i <= j][2]
  BY DEF FirstFailure
<1>2. ASSUME NEW least \in failed, \A j \in failed : least <= j
      PROVE  (CHOOSE i \in failed : \A j \in failed : i <= j) = least
  BY <1>2, LeastIs
<1> QED
  BY <1>1, <1>2

LEMMA FirstOfOne ==
    ASSUME NEW a
    PROVE  FirstFailure(<<a>>) =
                IF a[1] THEN a[2] ELSE 0
<1> DEFINE checks == <<a>>
           failed == {i \in DOMAIN checks : checks[i][1]}
<1>1. /\ failed \in SUBSET Nat /\ failed \subseteq {1}
      /\ 1 \in failed <=> a[1]
      /\ checks[1] = a
  OBVIOUS
<1>2. failed = {i \in DOMAIN checks : checks[i][1]}
  OBVIOUS
<1> HIDE DEF checks, failed
<1>3. CASE a[1]
  <2>1. 1 \in failed /\ \A j \in failed : 1 <= j
    BY <1>1, <1>3
  <2> QED
    BY <1>1, <1>2, <1>3, <2>1, FirstFails DEF checks
<1>4. CASE ~a[1]
  <2>1. failed = {}
    BY <1>1, <1>4
  <2> QED
    BY <1>1, <1>2, <1>4, <2>1, FirstFails DEF checks
<1> QED
  BY <1>3, <1>4

LEMMA FirstOfTwo ==
    ASSUME NEW a, NEW b
    PROVE  FirstFailure(<<a, b>>) =
                IF a[1] THEN a[2] ELSE IF b[1] THEN b[2] ELSE 0
<1> DEFINE checks == <<a, b>>
           failed == {i \in DOMAIN checks : checks[i][1]}
<1>1. /\ failed \in SUBSET Nat /\ failed \subseteq {1, 2}
      /\ 1 \in failed <=> a[1]
      /\ 2 \in failed <=> b[1]
      /\ checks[1] = a /\ checks[2] = b
  OBVIOUS
<1>2. failed = {i \in DOMAIN checks : checks[i][1]}
  OBVIOUS
<1> HIDE DEF checks, failed
<1>3. CASE a[1]
  <2>1. 1 \in failed /\ \A j \in failed : 1 <= j
    BY <1>1, <1>3
  <2> QED
    BY <1>1, <1>2, <1>3, <2>1, FirstFails DEF checks
<1>4. CASE ~a[1] /\ b[1]
  <2>1. 2 \in failed /\ \A j \in failed : 2 <= j
    BY <1>1, <1>4
  <2> QED
    BY <1>1, <1>2, <1>4, <2>1, FirstFails DEF checks
<1>5. CASE ~a[1] /\ ~b[1]
  <2>1. failed = {}
    BY <1>1, <1>5
  <2> QED
    BY <1>1, <1>2, <1>5, <2>1, FirstFails DEF checks
<1> QED
  BY <1>3, <1>4, <1>5

LEMMA FirstOfThree ==
    ASSUME NEW a, NEW b, NEW c
    PROVE  FirstFailure(<<a, b, c>>) =
                IF a[1] THEN a[2] ELSE IF b[1] THEN b[2] ELSE IF c[1] THEN c[2] ELSE 0
<1> DEFINE checks == <<a, b, c>>
           failed == {i \in DOMAIN checks : checks[i][1]}
<1>1. /\ failed \in SUBSET Nat /\ failed \subseteq {1, 2, 3}
      /\ 1 \in failed <=> a[1]
      /\ 2 \in failed <=> b[1]
      /\ 3 \in failed <=> c[1]
      /\ checks[1] = a /\ checks[2] = b /\ checks[3] = c
  OBVIOUS
<1>2. failed = {i \in DOMAIN checks : checks[i][1]}
  OBVIOUS
<1> HIDE DEF checks, failed
<1>3. CASE a[1]
  <2>1. 1 \in failed /\ \A j \in failed : 1 <= j
    BY <1>1, <1>3
  <2> QED
    BY <1>1, <1>2, <1>3, <2>1, FirstFails DEF checks
<1>4. CASE ~a[1] /\ b[1]
  <2>1. 2 \in failed /\ \A j \in failed : 2 <= j
    BY <1>1, <1>4
  <2> QED
    BY <1>1, <1>2, <1>4, <2>1, FirstFails DEF checks
<1>5. CASE ~a[1] /\ ~b[1] /\ c[1]
  <2>1. failed = {3}
    BY <1>1, <1>5
  <2> QED
    BY <1>1, <1>2, <1>5, <2>1, FirstFails DEF checks
<1>6. CASE ~a[1] /\ ~b[1] /\ ~c[1]
  <2>1. failed = {}
    BY <1>1, <1>6
  <2> QED
    BY <1>1, <1>2, <1>6, <2>1, FirstFails DEF checks
<1> QED
  BY <1>3, <1>4, <1>5, <1>6

LEMMA OneMotorChecked ==
    ASSUME NEW m, NEW c1, NEW c2, NEW c3
    PROVE  FirstFailure(<< <<m.number \notin 1..10, c1>>,
                           <<m.acceleration = 0, c2>>,
                           <<m.maxSpeed = 0, c3>> >>) =
                IF m.number \notin 1..10 THEN c1
                ELSE IF m.acceleration = 0 THEN c2
                ELSE IF m.maxSpeed = 0 THEN c3 ELSE 0
<1> DEFINE a == <<m.number \notin 1..10, c1>>
           b == <<m.acceleration = 0, c2>>
           c == <<m.maxSpeed = 0, c3>>
<1>1. a[1] <=> m.number \notin 1..10
  OBVIOUS
<1>2. b[1] <=> m.acceleration = 0
  OBVIOUS
<1>3. c[1] <=> m.maxSpeed = 0
  OBVIOUS
<1>4. a[2] = c1 /\ b[2] = c2 /\ c[2] = c3
  OBVIOUS
<1> HIDE DEF a, b, c
<1>5. FirstFailure(<<a, b, c>>) =
                IF m.number \notin 1..10 THEN c1
                ELSE IF m.acceleration = 0 THEN c2
                ELSE IF m.maxSpeed = 0 THEN c3 ELSE 0
  BY <1>1, <1>2, <1>3, <1>4, FirstOfThree
<1> QED
  BY <1>5 DEF a, b, c

\* What checkMotors answers: nothing wrong, or the code of what is.
LEMMA MotorsChecked ==
    ASSUME NEW all \in Seq(MotorType)
    PROVE  /\ checkMotors(all)[1] => checkMotors(all)[2] \in 40502..40505
           /\ ~checkMotors(all)[1] =>
                /\ Len(all) <= 10
                /\ \A i \in DOMAIN all :
                    all[i].number \in 1..10 /\ all[i].acceleration # 0 /\ all[i].maxSpeed # 0
<1> DEFINE check(m) == FirstFailure(<< <<m.number \notin 1..10, 40503>>,
                                       <<m.acceleration = 0, 40504>>,
                                       <<m.maxSpeed = 0, 40505>> >>)
           bad == {i \in DOMAIN all : check(all[i]) # 0}
           first == CHOOSE i \in bad : \A j \in bad : i <= j
<1>1. checkMotors(all) =
        IF Len(all) > 10 THEN <<TRUE, 40502>>
        ELSE IF bad = {} THEN <<FALSE, 0>> ELSE <<TRUE, check(all[first])>>
  BY DEF checkMotors
<1>2. ASSUME NEW m
      PROVE  check(m) = IF m.number \notin 1..10 THEN 40503
                        ELSE IF m.acceleration = 0 THEN 40504
                        ELSE IF m.maxSpeed = 0 THEN 40505 ELSE 0
  BY OneMotorChecked
<1> HIDE DEF check
<1>3. bad \in SUBSET Nat /\ bad \subseteq DOMAIN all
  OBVIOUS
<1>4. bad # {} => first \in bad
  <2> HIDE DEF bad
  <2> QED
    BY <1>3, LeastMissing
<1>5. CASE Len(all) > 10
  BY <1>1, <1>5
<1>6. CASE ~(Len(all) > 10) /\ bad # {}
  <2>1. check(all[first]) # 0
    BY <1>4, <1>6
  <2>2. check(all[first]) \in 40502..40505
    BY <1>2, <2>1
  <2> HIDE DEF bad, first
  <2> QED
    BY <1>1, <1>6, <2>2
<1>7. CASE ~(Len(all) > 10) /\ bad = {}
  <2>1. \A i \in DOMAIN all : check(all[i]) = 0
    BY <1>7
  <2>2. \A i \in DOMAIN all :
            all[i].number \in 1..10 /\ all[i].acceleration # 0 /\ all[i].maxSpeed # 0
    BY <1>2, <2>1
  <2>3. Len(all) <= 10
    BY <1>7
  <2> HIDE DEF bad, first
  <2>4. ~checkMotors(all)[1]
    BY <1>1, <1>7
  <2> QED
    BY <2>2, <2>3, <2>4
<1> QED
  BY <1>5, <1>6, <1>7

-----------------------------------------------------------------------------
(* A request's motors.                                                     *)

\* What is written in a field is an integer of the field's type.
LEMMA GetType ==
    ASSUME NEW type, NEW v, Numeral(v) \in Int
    PROVE  Get(type, v) \in Int /\ Unsigned(Get(type, v)) = Unsigned(Numeral(v))
<1> DEFINE u == Unsigned(Numeral(v))
<1>1. u \in 0..(Span - 1) /\ u \in Int
  BY UnsignedType, SpanType
<1>2. Signed(u) \in Int /\ Unsigned(Signed(u)) = u
  BY <1>1, UnsignedSigned
<1>3. Unsigned(u) = u
  BY <1>1, UnsignedFits
<1>4. Get(type, v) = u \/ Get(type, v) = Signed(u)
  BY DEF Get
<1> HIDE DEF u
<1>5. Get(type, v) \in Int /\ Unsigned(Get(type, v)) = u
  BY <1>1, <1>2, <1>3, <1>4
<1> QED
  BY <1>5 DEF u

LEMMA MotorsType ==
    ASSUME Bench, NEW text \in Requests, Asks(text, "moving"),
           Parses(MotorsSettings, Argument(text))
    PROVE  /\ Motors(text) \in Seq(MotorType)
           /\ DOMAIN Motors(text) = DOMAIN Settings(text).motors.arr
           /\ \A i \in DOMAIN Motors(text) : \A f \in DOMAIN MotorFields :
                Unsigned(Motors(text)[i][f]) = Unsigned(Numeral(Settings(text).motors.arr[i].obj[f]))
<1> DEFINE written == Settings(text).motors.arr
           n == Len(written)
<1>1. /\ written = [i \in 1..n |-> written[i]]
      /\ n \in Nat
      /\ \A i \in 1..n : \A f \in DOMAIN MotorFields : Numeral(written[i].obj[f]) \in Int
  BY DEF Bench, WellFormed
<1>2. Motors(text) = [i \in DOMAIN written |->
                        [f \in DOMAIN MotorFields |-> Get(MotorFields[f], written[i].obj[f])]]
  BY DEF Motors, deserializeMotors, Settings
<1> HIDE DEF written, n
<1>3. DOMAIN written = 1..n
  BY <1>1
<1>4. DOMAIN MotorFields = {"number", "acceleration", "maxSpeed", "step"}
  BY DEF MotorFields
<1>5. ASSUME NEW i \in 1..n, NEW f \in DOMAIN MotorFields
      PROVE  /\ Get(MotorFields[f], written[i].obj[f]) \in Int
             /\ Unsigned(Get(MotorFields[f], written[i].obj[f])) = Unsigned(Numeral(written[i].obj[f]))
  BY <1>1, GetType
<1>6. ASSUME NEW i \in 1..n PROVE Motors(text)[i] \in MotorType
  <2>1. Motors(text)[i] = [f \in DOMAIN MotorFields |-> Get(MotorFields[f], written[i].obj[f])]
    BY <1>2, <1>3
  <2>2. Motors(text)[i] \in [DOMAIN MotorFields -> Int]
    BY <1>5, <2>1
  <2> QED
    BY <1>4, <2>2 DEF MotorType
<1>7. Motors(text) \in [1..n -> MotorType]
  BY <1>2, <1>3, <1>6
<1>8. \A i \in 1..n : \A f \in DOMAIN MotorFields :
        Unsigned(Motors(text)[i][f]) = Unsigned(Numeral(written[i].obj[f]))
  BY <1>2, <1>3, <1>5
<1>9. Motors(text) \in Seq(MotorType) /\ DOMAIN Motors(text) = DOMAIN written
  BY <1>1, <1>3, <1>7
<1> QED
  BY <1>3, <1>8, <1>9 DEF written

-----------------------------------------------------------------------------
(* What a request is refused with.                                         *)

\* The six cases exclude each other.
Unread(text)  == ~deserializes(text)
Unnamed(text) == deserializes(text) /\ \A c \in Commands : ~Asks(text, c)
Plainly(text) == Asks(text, "version") \/ Asks(text, "disconnect")

RefusedPlainly(text) == FirstFailure(<<checkEmptyMessage(text), checkConnection>>)
RefusedList(text) == FirstFailure(<<checkEmptyMessage(text)>>)
RefusedReconnect(text) ==
    IF m_connected[Host] THEN 40512
    ELSE IF ~Parses(Device, Argument(text)) THEN 40403
    ELSE FirstFailure(<<checkDeviceId(text)>>)
RefusedMoving(text) ==
    IF ~m_connected[Host] THEN 40507
    ELSE IF ~Parses(MotorsSettings, Argument(text)) THEN 40402
    ELSE FirstFailure(<<checkMode(text), checkMotors(Motors(text))>>)

LEMMA RefusalIs ==
    ASSUME NEW text
    PROVE  /\ Unread(text) => Refusal(text) = 40401
           /\ Plainly(text) => Refusal(text) = RefusedPlainly(text)
           /\ Asks(text, "listconnect") => Refusal(text) = RefusedList(text)
           /\ Asks(text, "reconnect") => Refusal(text) = RefusedReconnect(text)
           /\ Asks(text, "moving") => Refusal(text) = RefusedMoving(text)
           /\ Unnamed(text) => Refusal(text) = 0
<1>1. \A c : Asks(text, c) => deserializes(text)
  BY DEF Asks
<1>2. \A c1, c2 \in Commands : Asks(text, c1) /\ Asks(text, c2) => c1 = c2
  BY OneCommand
<1> DEFINE v == Plainly(text)
           l == Asks(text, "listconnect")
           r == Asks(text, "reconnect")
           m == Asks(text, "moving")
           z == Unread(text)
<1>3. /\ ~(z /\ v) /\ ~(z /\ l) /\ ~(z /\ r) /\ ~(z /\ m)
      /\ ~(v /\ l) /\ ~(v /\ r) /\ ~(v /\ m)
      /\ ~(l /\ r) /\ ~(l /\ m) /\ ~(r /\ m)
      /\ Unnamed(text) => ~z /\ ~v /\ ~l /\ ~r /\ ~m
  BY <1>1, <1>2 DEF Commands, Unread, Unnamed, Plainly
<1>4. Refusal(text) =
        CASE z -> 40401
          [] v -> RefusedPlainly(text)
          [] l -> RefusedList(text)
          [] r -> RefusedReconnect(text)
          [] m -> RefusedMoving(text)
          [] OTHER -> 0
  BY DEF Refusal, Unread, Plainly, RefusedPlainly, RefusedList, RefusedReconnect, RefusedMoving
<1> HIDE DEF v, l, r, m, z
<1>5. /\ z => Refusal(text) = 40401
      /\ v => Refusal(text) = RefusedPlainly(text)
      /\ l => Refusal(text) = RefusedList(text)
      /\ r => Refusal(text) = RefusedReconnect(text)
      /\ m => Refusal(text) = RefusedMoving(text)
      /\ Unnamed(text) => Refusal(text) = 0
  BY <1>3, <1>4
<1> QED
  BY <1>5 DEF v, l, r, m, z

LEMMA ConnectedWhenServed ==
    ASSUME NEW text, Refusal(text) = 0,
           Asks(text, "version") \/ Asks(text, "moving") \/ Asks(text, "disconnect")
    PROVE  m_connected[Host]
<1>1. ASSUME NEW c PROVE (<<~m_connected[Host], c>>[1] <=> ~m_connected[Host])
                         /\ <<~m_connected[Host], c>>[2] = c
  OBVIOUS
<1>2. (checkConnection[1] <=> ~m_connected[Host]) /\ checkConnection[2] = 40507
  BY <1>1 DEF checkConnection
<1>3. ASSUME NEW p, NEW c PROVE <<p, c>>[2] = c
  OBVIOUS
<1>4. checkEmptyMessage(text)[2] = 40506
  BY <1>3 DEF checkEmptyMessage
<1>5. CASE Asks(text, "version") \/ Asks(text, "disconnect")
  <2>1. RefusedPlainly(text) = 0
    BY <1>5, RefusalIs DEF Plainly
  <2>2. FirstFailure(<<checkEmptyMessage(text), checkConnection>>) = 0
    BY <2>1 DEF RefusedPlainly
  <2> QED
    BY <1>2, <1>4, <2>2, FirstOfTwo
<1>6. CASE Asks(text, "moving")
  <2>1. RefusedMoving(text) = 0
    BY <1>6, RefusalIs
  <2> QED
    BY <2>1 DEF RefusedMoving
<1> QED
  BY <1>5, <1>6

LEMMA CheckedWhenServed ==
    ASSUME Bench, NEW text \in Requests, Asks(text, "moving")
    PROVE  /\ Refusal(text) = 0 => Checked(text)
           /\ Refusal(text) \in Int /\ Refusal(text) # 40513
<1> DEFINE bad == Mode(text) \notin {Raw(mode) : mode \in Modes}
<1>1. ASSUME NEW c PROVE (<<bad, c>>[1] <=> bad) /\ <<bad, c>>[2] = c
  OBVIOUS
<1>2. (checkMode(text)[1] <=> bad) /\ checkMode(text)[2] = 40501
  BY <1>1 DEF checkMode
<1>a. Refusal(text) = RefusedMoving(text)
  BY RefusalIs
<1>3. CASE ~m_connected[Host]
  BY <1>a, <1>3 DEF RefusedMoving
<1>4. CASE m_connected[Host] /\ ~Parses(MotorsSettings, Argument(text))
  BY <1>a, <1>4 DEF RefusedMoving
<1>5. CASE m_connected[Host] /\ Parses(MotorsSettings, Argument(text))
  <2> DEFINE all == Motors(text)
  <2>1. Refusal(text) = FirstFailure(<<checkMode(text), checkMotors(all)>>)
    BY <1>a, <1>5 DEF RefusedMoving
  <2>2. all \in Seq(MotorType)
    BY <1>5, MotorsType
  <2>3. /\ checkMotors(all)[1] => checkMotors(all)[2] \in 40502..40505
        /\ ~checkMotors(all)[1] =>
             /\ Len(all) <= 10
             /\ \A i \in DOMAIN all :
                 all[i].number \in 1..10 /\ all[i].acceleration # 0 /\ all[i].maxSpeed # 0
    BY <2>2, MotorsChecked
  <2> HIDE DEF bad, all
  <2>4. Refusal(text) = IF bad THEN 40501 ELSE IF checkMotors(all)[1] THEN checkMotors(all)[2] ELSE 0
    BY <1>2, <2>1, FirstOfTwo
  <2>5. Refusal(text) \in Int /\ Refusal(text) # 40513
    BY <2>3, <2>4
  <2>6. Refusal(text) = 0 => ~bad /\ ~checkMotors(all)[1]
    BY <2>3, <2>4
  <2> QED
    BY <1>5, <2>3, <2>5, <2>6 DEF Checked, bad, all
<1> QED
  BY <1>3, <1>4, <1>5

LEMMA RefusalType ==
    ASSUME Bench, NEW text \in Requests
    PROVE  Refusal(text) \in Int
<1>1. ASSUME NEW p, NEW c PROVE <<p, c>>[2] = c
  OBVIOUS
<1>2. /\ checkEmptyMessage(text)[2] = 40506
      /\ checkConnection[2] = 40507
      /\ checkDeviceId(text)[2] = 40509
  BY <1>1 DEF checkEmptyMessage, checkConnection, checkDeviceId
<1>3. /\ FirstFailure(<<checkEmptyMessage(text), checkConnection>>) \in Int
      /\ FirstFailure(<<checkEmptyMessage(text)>>) \in Int
      /\ FirstFailure(<<checkDeviceId(text)>>) \in Int
  BY <1>2, FirstOfOne, FirstOfTwo
<1>4. RefusedPlainly(text) \in Int /\ RefusedList(text) \in Int /\ RefusedReconnect(text) \in Int
  BY <1>3 DEF RefusedPlainly, RefusedList, RefusedReconnect
<1>5. \/ Unread(text) \/ Plainly(text) \/ Asks(text, "listconnect")
      \/ Asks(text, "reconnect") \/ Asks(text, "moving") \/ Unnamed(text)
  BY DEF Unread, Plainly, Unnamed, Commands
<1>6. CASE Asks(text, "moving")
  BY <1>6, CheckedWhenServed
<1>7. CASE ~Asks(text, "moving")
  BY <1>4, <1>5, <1>7, RefusalIs
<1> QED
  BY <1>6, <1>7

-----------------------------------------------------------------------------
(* What a checked request makes the controller do.                         *)

LEMMA CommandAsked ==
    ASSUME Bench, NEW text \in Requests, Checked(text)
    PROVE  /\ CommandOf(text) \in 0..255
           /\ CommandOf(text) # VersionCommand
           /\ IsMotorCommand(CommandOf(text))
           /\ CommandMode(CommandOf(text)) =
                (IF Mode(text) = Raw("synchronous") THEN SyncCommand ELSE AsyncCommand)
           /\ CommandCount(CommandOf(text)) = Len(Motors(text))
           /\ validateMotorCommand(CommandOf(text)) <=> Len(Motors(text)) # 0
           /\ Len(Motors(text)) \in 0..10
           /\ CommandMode(CommandOf(text)) + Len(Motors(text)) = CommandOf(text)
<1>1. PICK mode \in Modes : Mode(text) = Raw(mode)
  BY DEF Checked
<1>2. Mode(text).raw = mode /\ (Mode(text) = Raw("synchronous") <=> mode = "synchronous")
  BY <1>1 DEF Raw
<1>3. Len(Motors(text)) \in 0..10
  <2>1. Motors(text) \in Seq(MotorType)
    BY MotorsType DEF Checked
  <2> DEFINE n == Len(Motors(text))
  <2>2. n \in Nat
    BY <2>1
  <2>3. n <= 10
    BY DEF Checked
  <2> HIDE DEF n
  <2>4. n \in 0..10
    BY <2>2, <2>3
  <2> QED
    BY <2>4 DEF n
<1> DEFINE n == Len(Motors(text))
           byte == CommandByte(mode, n)
<1>4. CommandOf(text) = byte
  BY <1>2 DEF CommandOf
<1>5. /\ byte \in 0..255
      /\ byte # VersionCommand
      /\ IsMotorCommand(byte)
      /\ CommandMode(byte) = (IF mode = "synchronous" THEN SyncCommand ELSE AsyncCommand)
      /\ CommandCount(byte) = n
      /\ validateMotorCommand(byte) <=> n # 0
  <2> HIDE DEF n
  <2> QED
    BY <1>3, CommandByteReads DEF n
<1>6. CommandMode(byte) + n = byte
  BY <1>3, <1>5 DEF CommandByte, SyncCommand, AsyncCommand
<1> QED
  BY <1>2, <1>3, <1>4, <1>5, <1>6

LEMMA BlockAsked ==
    ASSUME Bench, NEW text \in Requests, Checked(text)
    PROVE  /\ BlockOf(text) \in Seq(Byte)
           /\ Len(BlockOf(text)) = CommandCount(CommandOf(text)) * MotorBytes
           /\ Len(BlockOf(text)) <= BufferSize
<1>1. Motors(text) \in Seq(MotorType)
  BY MotorsType DEF Checked
<1>2. BlockOf(text) \in Seq(0..255) /\ Len(BlockOf(text)) = Len(Motors(text)) * MotorBytes
  BY <1>1, BlockType DEF BlockOf
<1>3. CommandCount(CommandOf(text)) = Len(Motors(text)) /\ Len(Motors(text)) \in 0..10
  BY CommandAsked
<1>4. MotorBytes \in Nat
  BY PlacesType DEF MotorBytes
<1>5. Len(Motors(text)) * MotorBytes <= 10 * MotorBytes /\ Len(Motors(text)) * MotorBytes \in Nat
  BY <1>3, <1>4
<1>6. 10 * MotorBytes <= BufferSize /\ Byte = 0..255
  BY DEF Bench
<1> QED
  BY <1>2, <1>3, <1>4, <1>5, <1>6, BufferAssumption

(***************************************************************************)
(* The motors the controller reads off the block are those of the text.    *)
(***************************************************************************)
LEMMA RunAsked ==
    ASSUME Bench, NEW text \in Requests, Checked(text)
    PROVE  IsRunOf(CommandMode(CommandOf(text)), MotorsOf(text), text)
<1> DEFINE all == Motors(text)
           ran == MotorsOf(text)
           written == Settings(text).motors.arr
<1>1. /\ all \in Seq(MotorType)
      /\ DOMAIN all = DOMAIN written
      /\ \A i \in DOMAIN all : \A f \in DOMAIN MotorFields :
            Unsigned(all[i][f]) = Unsigned(Numeral(written[i].obj[f]))
  BY MotorsType DEF Checked
<1>2. ran = [i \in 1..Len(all) |-> Received(all[i])]
  BY <1>1, BlockCarriesMotors, CommandAsked DEF MotorsOf, BlockOf
<1> HIDE DEF all, ran
<1>3. DOMAIN ran = DOMAIN all
  BY <1>1, <1>2
<1>4. DOMAIN MotorFields = {"number", "acceleration", "maxSpeed", "step"}
  BY DEF MotorFields
<1>5. ASSUME NEW m \in MotorType, NEW f \in DOMAIN MotorFields
      PROVE  Unsigned(Received(m)[f]) = Unsigned(m[f])
  <2>1. \A v \in Int : Unsigned(Unsigned(v)) = Unsigned(v) /\ Unsigned(Signed(Unsigned(v))) = Unsigned(v)
    BY UnsignedType, UnsignedFits, UnsignedSigned
  <2>2. m.number \in Int /\ m.acceleration \in Int /\ m.maxSpeed \in Int /\ m.step \in Int
    BY DEF MotorType
  <2>3. /\ Received(m)["number"] = Unsigned(m.number)
        /\ Received(m)["acceleration"] = Unsigned(m.acceleration)
        /\ Received(m)["maxSpeed"] = Unsigned(m.maxSpeed)
        /\ Received(m)["step"] = Signed(Unsigned(m.step))
    BY DEF Received, Motor
  <2> QED
    BY <1>4, <2>1, <2>2, <2>3
<1>6. ASSUME NEW i \in DOMAIN ran, NEW f \in DOMAIN MotorFields
      PROVE  Unsigned(ran[i][f]) = Unsigned(Numeral(written[i].obj[f]))
  <2>1. i \in DOMAIN all /\ all[i] \in MotorType /\ ran[i] = Received(all[i])
    BY <1>1, <1>2, <1>3
  <2>2. Unsigned(ran[i][f]) = Unsigned(all[i][f])
    BY <1>5, <2>1
  <2> QED
    BY <1>1, <2>1, <2>2
<1>7. CommandMode(CommandOf(text)) =
        (IF Mode(text) = Raw("synchronous") THEN SyncCommand ELSE AsyncCommand)
  BY CommandAsked
<1>8. DOMAIN ran = DOMAIN written
  BY <1>1, <1>3
<1> QED
  BY <1>6, <1>7, <1>8 DEF IsRunOf, ran

(***************************************************************************)
(* And they would pass the firmware's own checks.                          *)
(***************************************************************************)
LEMMA RunIsValid ==
    ASSUME Bench, NEW text \in Requests, Checked(text), validateMotorCommand(CommandOf(text))
    PROVE  handleMotorCommand(CommandMode(CommandOf(text)) + Len(MotorsOf(text)), MotorsOf(text)) = 255
<1> DEFINE all == Motors(text)
           ran == MotorsOf(text)
           failed == {i \in DOMAIN ran : simulateSingleMotorProcessing(ran[i]) # 255}
<1>1. all \in Seq(MotorType)
  BY MotorsType DEF Checked
<1>2. ran = [i \in 1..Len(all) |-> Received(all[i])]
  BY <1>1, BlockCarriesMotors, CommandAsked DEF MotorsOf, BlockOf
<1>3. \A i \in DOMAIN all :
        all[i].number \in 1..10 /\ all[i].acceleration # 0 /\ all[i].maxSpeed # 0
  BY DEF Checked
<1>4. \A i \in DOMAIN all :
        /\ all[i].acceleration \in 0..(Span - 1)
        /\ all[i].maxSpeed \in 0..(Span - 1)
  <2> DEFINE written == Settings(text).motors.arr
  <2>1. all = [i \in DOMAIN written |->
                [f \in DOMAIN MotorFields |-> Get(MotorFields[f], written[i].obj[f])]]
    BY DEF Motors, deserializeMotors, Settings
  <2> HIDE DEF written
  <2>2. /\ written = [i \in 1..Len(written) |-> written[i]]
        /\ Len(written) \in Nat
        /\ \A i \in 1..Len(written) : \A f \in DOMAIN MotorFields :
                Numeral(written[i].obj[f]) \in Int
    BY DEF Bench, WellFormed, Checked, written
  <2>3. \A type, v : type = "uint32_t" => Get(type, v) = Unsigned(Numeral(v))
    BY DEF Get
  <2>4. /\ "acceleration" \in DOMAIN MotorFields /\ MotorFields["acceleration"] = "uint32_t"
        /\ "maxSpeed" \in DOMAIN MotorFields /\ MotorFields["maxSpeed"] = "uint32_t"
    BY DEF MotorFields
  <2>5. DOMAIN all = DOMAIN written /\ DOMAIN written = 1..Len(written)
    BY <2>1, <2>2
  <2>6. ASSUME NEW i \in DOMAIN all, NEW f \in {"acceleration", "maxSpeed"}
        PROVE  all[i][f] \in 0..(Span - 1)
    <3>1. all[i][f] = Unsigned(Numeral(written[i].obj[f]))
      BY <2>1, <2>3, <2>4, <2>5
    <3>2. Numeral(written[i].obj[f]) \in Int
      BY <2>2, <2>4, <2>5
    <3> QED
      BY <3>1, <3>2, UnsignedType
  <2> QED
    BY <2>6
<1>5. CommandCount(CommandOf(text)) = Len(all) /\ Len(all) \in Nat
      /\ CommandMode(CommandOf(text)) + Len(all) = CommandOf(text)
  BY CommandAsked
<1> HIDE DEF all, ran
<1>6. ASSUME NEW i \in DOMAIN ran
      PROVE  ran[i].number \in 1..10 /\ ran[i].acceleration # 0 /\ ran[i].maxSpeed # 0
  <2>1. i \in DOMAIN all /\ ran[i] = Received(all[i])
    BY <1>1, <1>2
  <2>2. /\ ran[i].number = Unsigned(all[i].number)
        /\ ran[i].acceleration = Unsigned(all[i].acceleration)
        /\ ran[i].maxSpeed = Unsigned(all[i].maxSpeed)
    BY <2>1 DEF Received, Motor
  <2>3. all[i].number \in 0..(Span - 1)
    BY <1>3, <2>1, SpanType
  <2>4. /\ ran[i].number = all[i].number
        /\ ran[i].acceleration = all[i].acceleration
        /\ ran[i].maxSpeed = all[i].maxSpeed
    BY <1>4, <2>1, <2>2, <2>3, UnsignedFits
  <2> QED
    BY <1>3, <2>1, <2>4
<1>7. Len(ran) = Len(all)
  BY <1>2, <1>5
<1>8. failed = {}
  BY <1>6 DEF simulateSingleMotorProcessing
<1>9. \A i \in DOMAIN ran : validateMotorParameters(ran[i])
  BY <1>6 DEF validateMotorParameters
<1> HIDE DEF failed
<1>10. handleMotorCommand(CommandOf(text), ran) = 255
  BY <1>8, <1>9 DEF handleMotorCommand, failed
<1> QED
  BY <1>5, <1>7, <1>10 DEF ran

-----------------------------------------------------------------------------
(* Who sits where.                                                         *)

LEMMA Places ==
    ASSUME Bench
    PROVE  /\ HostDevice \in Devices /\ McuDevice \in Devices
           /\ HostDevice # McuDevice
           /\ Wire[HostDevice] = McuDevice /\ Wire[McuDevice] = HostDevice
           /\ Devices = {McuDevice, HostDevice}
           /\ Host \in Objects /\ Mcu \in Objects /\ Host # Mcu
           /\ Host # Nobody /\ Mcu # Nobody
           /\ NoDevice \notin Devices
           /\ Byte = 0..255
BY WireAssumption, HostAssumption, McuAssumption, NobodyAssumption, NoDeviceIsNone DEF Bench, HostDevice

LEMMA Queues ==
    ASSUME Bench, Seats
    PROVE  /\ rx \in [Devices -> Queue] /\ tx \in [Devices -> Queue]
           /\ rx[HostDevice] \in Seq(Byte) /\ tx[HostDevice] \in Seq(Byte)
           /\ rx[McuDevice] \in Seq(Byte) /\ tx[McuDevice] \in Seq(Byte)
<1>1. DriverTypeOK
  BY DEF Seats, HandleInv, FtTypeOK
<1>2. rx \in [Devices -> Queue] /\ tx \in [Devices -> Queue]
  BY <1>1, QueueTypes
<1> QED
  BY <1>2, Places DEF Queue

LEMMA Sits ==
    ASSUME Bench, Seats
    PROVE  /\ Live(Mcu) <=> holder[McuDevice] = Mcu
           /\ Live(Host) => ftHandle[Host] \in {HostDevice, McuDevice}
           /\ holder[HostDevice] = Host =>
                m_connected[Host] /\ ftHandle[Host] = HostDevice /\ Live(Host)
           /\ holder[McuDevice] = Host =>
                m_connected[Host] /\ ftHandle[Host] = McuDevice /\ Live(Host)
           /\ Live(Host) => holder[HostDevice] = Host \/ holder[McuDevice] = Host
           /\ holder[McuDevice] = Mcu /\ m_connected[Host] => holder[HostDevice] = Host
           /\ ~m_connected[Host] => holder[HostDevice] = Nobody /\ holder[McuDevice] # Host
           /\ holder[HostDevice] # Host =>
                holder[HostDevice] = Nobody /\ rx[HostDevice] = <<>> /\ tx[HostDevice] = <<>>
<1> USE Places
<1>1. NoLeakedHandle
  BY DEF Seats, HandleInv
<1>2. \A d \in {HostDevice, McuDevice} : holder[d] = Host => m_connected[Host] /\ ftHandle[Host] = d /\ Live(Host)
  BY <1>1 DEF NoLeakedHandle, Live
<1>3. Live(Host) => ftHandle[Host] \in {HostDevice, McuDevice}
  BY DEF Seats, Live
<1>4. Live(Host) => holder[HostDevice] = Host \/ holder[McuDevice] = Host
  BY <1>3 DEF Live
<1>5. Live(Mcu) <=> holder[McuDevice] = Mcu
  BY DEF Seats, Live
<1>6. holder[McuDevice] = Mcu /\ m_connected[Host] => holder[HostDevice] = Host
  BY DEF Seats
<1>7. holder[HostDevice] \in {Nobody, Host}
  BY DEF Seats
<1>8. holder[HostDevice] = Nobody => rx[HostDevice] = <<>> /\ tx[HostDevice] = <<>>
  BY DEF Seats
<1> QED
  BY <1>2, <1>3, <1>4, <1>5, <1>6, <1>7, <1>8

-----------------------------------------------------------------------------
(* What the dialog does to the adapters.                                   *)

AdapterStep ==
    \/ UNCHANGED ftVars
    \/ \E d \in Devices : connectOpens(Host, d)
    \/ \E d \in Devices : connectThrows(Host, d)
    \/ disconnect(Host)
    \/ \E frame \in Queue : writeData(Host, frame)
    \/ \E frame \in Queue : writeData(Mcu, frame)
    \/ \E n \in 0..BufferSize : readData(Host, n, Fetched(Host, n))
    \/ \E n \in 0..BufferSize : readData(Mcu, n, Fetched(Mcu, n))
    \/ \E d \in Devices : Transmit(d)
    \/ Unplug(McuDevice)
    \/ Replug(McuDevice)

LEMMA AdapterStepIsOne ==
    ASSUME Bench, AdapterStep
    PROVE  [FtNext]_ftVars
<1> USE Places
<1>1. ASSUME NEW o \in Objects, NEW frame \in Queue, writeData(o, frame) PROVE FtNext
  <2>a. frame \in Seq(Byte) /\ Len(frame) <= BufferSize
    BY DEF Queue
  <2>b. Len(frame) \in Nat /\ frame \in [1..Len(frame) -> Byte]
    <3>1. Len(frame) \in Nat
      BY <2>a
    <3>2. DOMAIN frame = 1..Len(frame)
      BY <2>a
    <3>3. \A i \in 1..Len(frame) : frame[i] \in Byte
      BY <2>a
    <3>4. frame = [i \in 1..Len(frame) |-> frame[i]]
      BY <2>a, <3>2
    <3> QED
      BY <3>1, <3>3, <3>4
  <2> DEFINE n == Len(frame)
  <2>c. n \in 0..BufferSize
    <3> HIDE DEF n
    <3>1. n \in Nat /\ n <= BufferSize
      BY <2>a, <2>b DEF n
    <3> QED
      BY <3>1, BufferAssumption
  <2>1. Len(frame) \in 0..BufferSize /\ frame \in [1..Len(frame) -> Byte]
    BY <2>b, <2>c
  <2>2. CallWriteData(o, frame)
    BY <1>1 DEF CallWriteData
  <2> QED
    BY <2>1, <2>2 DEF FtNext, FtCall
<1>2. ASSUME NEW o \in Objects, NEW n \in 0..BufferSize, readData(o, n, Fetched(o, n)) PROVE FtNext
  BY <1>2 DEF CallReadData, FtNext, FtCall
<1>3. ASSUME NEW d \in Devices, connectOpens(Host, d) \/ connectThrows(Host, d) PROVE FtNext
  BY <1>3 DEF CallConnect, FtNext, FtCall
<1>4. ASSUME disconnect(Host) PROVE FtNext
  BY <1>4 DEF CallDisconnect, FtNext, FtCall
<1>5. ASSUME NEW d \in Devices, Transmit(d) \/ Unplug(d) \/ Replug(d) PROVE FtNext
  BY <1>5 DEF Outside, FtNext
<1> QED
  BY <1>1, <1>2, <1>3, <1>4, <1>5 DEF AdapterStep

LEMMA SeatsStep ==
    ASSUME Bench, Seats, AdapterStep
    PROVE  Seats'
<1> DEFINE S == /\ m_baudrate[Host] = DefaultBaud /\ m_baudrate[Mcu] = DefaultBaud
                /\ m_connected[Mcu] /\ ftHandle[Mcu] = McuDevice
                /\ m_connected[Host] => ftHandle[Host] \in Devices
                /\ holder[HostDevice] \in {Nobody, Host}
                /\ holder[McuDevice] \in {Nobody, Host, Mcu}
                /\ HostDevice \in attached
                /\ m_connected[Host] /\ ftHandle[Host] = HostDevice => holder[HostDevice] = Host
                /\ m_connected[Host] /\ ftHandle[Host] = McuDevice => holder[McuDevice] # Mcu
                /\ \A d \in Devices : holder[d] = Nobody => rx[d] = <<>> /\ tx[d] = <<>>
                /\ holder[McuDevice] = Host => rx[McuDevice] = <<>>
<1>1. HandleInv' /\ BaudInStep'
  BY AdapterStepIsOne, HandleStep, BaudStep DEF Seats
<1>2. SUFFICES S'
  BY <1>1 DEF Seats
<1>3. /\ S
      /\ m_connected \in [Objects -> BOOLEAN]
      /\ m_baudrate \in [Objects -> BaudRates]
      /\ ftHandle \in [Objects -> Devices \cup {NoDevice}]
      /\ attached \subseteq Devices
      /\ holder \in [Devices -> Objects \cup {Nobody}]
      /\ rx \in [Devices -> Queue] /\ tx \in [Devices -> Queue]
  BY Queues DEF Seats, HandleInv, FtTypeOK, DriverTypeOK
<1>4. NoLeakedHandle
  BY DEF Seats, HandleInv
<1> USE <1>3, <1>4, Places
<1>5. CASE UNCHANGED ftVars
  BY <1>5 DEF ftVars, objectVars, driverVars, lineVars
<1>6. ASSUME NEW d \in Devices, connectOpens(Host, d) PROVE S'
  BY <1>6, Sits DEF connectOpens, CanOpen, FT_Open, FT_SetBaudRate, FT_SetUSBParameters, FT_Purge, Connected
<1>7. ASSUME NEW d \in Devices, connectThrows(Host, d) PROVE S'
  BY <1>7, Sits DEF connectThrows, CanOpen, FT_SetBaudRate, FT_Purge
<1>8. CASE disconnect(Host)
  BY <1>5, <1>8, Sits DEF disconnect, FT_Close
<1>9. ASSUME NEW frame \in Queue, writeData(Host, frame) PROVE S'
  BY <1>9, Sits DEF writeData, FT_Write, Live, objectVars, driverVars
<1>10. ASSUME NEW frame \in Queue, writeData(Mcu, frame) PROVE S'
  BY <1>10, Sits DEF writeData, FT_Write, Live, objectVars, driverVars
<1>11. ASSUME NEW n \in 0..BufferSize, readData(Host, n, Fetched(Host, n)) PROVE S'
  BY <1>11 DEF readData, FT_Purge, objectVars, driverVars
<1>12. ASSUME NEW n \in 0..BufferSize, readData(Mcu, n, Fetched(Mcu, n)) PROVE S'
  BY <1>12 DEF readData, FT_Purge, objectVars, driverVars
<1>13. ASSUME NEW d \in Devices, Transmit(d) PROVE S'
  BY <1>13, Sits DEF Transmit, Carry, objectVars, driverVars
<1>14. CASE Unplug(McuDevice)
  BY <1>14 DEF Unplug, PullPlug, objectVars
<1>15. CASE Replug(McuDevice)
  BY <1>15 DEF Replug, PutPlug, objectVars, lineVars
<1> QED
  BY <1>5, <1>6, <1>7, <1>8, <1>9, <1>10, <1>11, <1>12, <1>13, <1>14, <1>15 DEF AdapterStep

-----------------------------------------------------------------------------
(* A few bytes split in two.                                               *)

LEMMA Split ==
    ASSUME NEW S, NEW a \in Seq(S), NEW b \in Seq(S)
    PROVE  /\ Len(a \o b) = Len(a) + Len(b) /\ Len(a) \in Nat /\ Len(b) \in Nat
           /\ Len(a) = 1 => (a \o b)[1] = a[1]
           /\ a \o b \in Seq(S)
           /\ \A i \in 1..(Len(a) + Len(b)) :
                (a \o b)[i] = IF i <= Len(a) THEN a[i] ELSE b[i - Len(a)]
OBVIOUS

LEMMA SplitNone ==
    ASSUME NEW S, NEW a \in Seq(S), NEW b \in Seq(S), a \o b = <<>>
    PROVE  a = <<>> /\ b = <<>>
<1>1. Len(a \o b) = Len(a) + Len(b) /\ Len(a) \in Nat /\ Len(b) \in Nat /\ Len(a \o b) = 0
  OBVIOUS
<1>2. Len(a) = 0 /\ Len(b) = 0
  BY <1>1
<1> QED
  BY <1>2

LEMMA SplitAll ==
    ASSUME NEW S, NEW a \in Seq(S), NEW b \in Seq(S), Len(a) = Len(a \o b)
    PROVE  a = a \o b /\ b = <<>>
<1>1. Len(a \o b) = Len(a) + Len(b) /\ Len(a) \in Nat /\ Len(b) \in Nat
  OBVIOUS
<1>2. Len(b) = 0
  BY <1>1
<1>3. b = <<>>
  BY <1>2
<1> QED
  BY <1>3

LEMMA SplitNothing ==
    ASSUME NEW S, NEW b \in Seq(S)
    PROVE  <<>> \o b = b /\ b \o <<>> = b
OBVIOUS

LEMMA SplitOne ==
    ASSUME NEW S, NEW a \in Seq(S), NEW b \in Seq(S), NEW x, a \o b = <<x>>
    PROVE  a = <<>> \/ (a = <<x>> /\ b = <<>>)
<1>1. Len(a \o b) = Len(a) + Len(b) /\ Len(a) \in Nat /\ Len(b) \in Nat
  OBVIOUS
<1>a. Len(a \o b) = 1
  OBVIOUS
<1>2. Len(a) = 0 \/ Len(a) = Len(a \o b)
  <2> DEFINE m == Len(a)
             n == Len(b)
             k == Len(a \o b)
  <2>1. k = m + n /\ m \in Nat /\ n \in Nat /\ k = 1
    BY <1>1, <1>a
  <2> HIDE DEF m, n, k
  <2>2. m = 0 \/ m = k
    BY <2>1
  <2> QED
    BY <2>2 DEF m, k
<1>3. CASE Len(a) = 0
  BY <1>3
<1>4. CASE Len(a) = Len(a \o b)
  BY <1>4, SplitAll
<1> QED
  BY <1>2, <1>3, <1>4

LEMMA SplitTwo ==
    ASSUME NEW S, NEW a \in Seq(S), NEW b \in Seq(S), NEW x, NEW y, a \o b = <<x, y>>
    PROVE  a = <<>> \/ a = <<x>> \/ (a = <<x, y>> /\ b = <<>>)
<1>1. Len(a \o b) = Len(a) + Len(b) /\ Len(a) \in Nat /\ Len(b) \in Nat
  BY Split
<1>a. Len(a \o b) = 2
  OBVIOUS
<1>2. Len(a) = 0 \/ Len(a) = 1 \/ Len(a) = Len(a \o b)
  <2> DEFINE m == Len(a)
             n == Len(b)
             k == Len(a \o b)
  <2>1. k = m + n /\ m \in Nat /\ n \in Nat /\ k = 2
    BY <1>1, <1>a
  <2> HIDE DEF m, n, k
  <2>2. m = 0 \/ m = 1 \/ m = k
    BY <2>1
  <2> QED
    BY <2>2 DEF m, k
<1>3. CASE Len(a) = 0
  BY <1>3
<1>4. CASE Len(a) = Len(a \o b)
  BY <1>4, SplitAll
<1>5. CASE Len(a) = 1
  <2>a. (a \o b)[1] = a[1]
    BY <1>5, Split
  <2>b. <<x, y>>[1] = x
    OBVIOUS
  <2>2. a[1] = x
    BY <2>a, <2>b
  <2> QED
    BY <1>5, <2>2
<1> QED
  BY <1>2, <1>3, <1>4, <1>5

LEMMA OneCrosses ==
    ASSUME NEW S, NEW a \in Seq(S), NEW b \in Seq(S), b # <<>>
    PROVE  Append(a, Head(b)) \o Tail(b) = a \o b
<1> DEFINE l == Append(a, Head(b)) \o Tail(b)
           r == a \o b
<1>1. /\ Len(a) \in Nat /\ Len(b) \in Nat \ {0}
      /\ Head(b) \in S /\ Tail(b) \in Seq(S) /\ Len(Tail(b)) = Len(b) - 1
      /\ Append(a, Head(b)) \in Seq(S) /\ Len(Append(a, Head(b))) = Len(a) + 1
  OBVIOUS
<1>2. l \in Seq(S) /\ r \in Seq(S)
  BY <1>1
<1>3. Len(l) = Len(a) + Len(b) /\ Len(r) = Len(a) + Len(b)
  BY <1>1
<1>4. ASSUME NEW i \in 1..(Len(a) + Len(b)) PROVE l[i] = r[i]
  <2>1. CASE i <= Len(a)
    BY <1>1, <2>1
  <2>2. CASE i = Len(a) + 1
    BY <1>1, <2>2
  <2>3. CASE i > Len(a) + 1
    <3>1. l[i] = Tail(b)[i - (Len(a) + 1)]
      BY <1>1, <2>3
    <3>2. Tail(b)[i - (Len(a) + 1)] = b[i - Len(a)]
      BY <1>1, <2>3
    <3>3. r[i] = b[i - Len(a)]
      BY <1>1, <2>3
    <3> QED
      BY <3>1, <3>2, <3>3
  <2> QED
    BY <1>1, <2>1, <2>2, <2>3
<1> HIDE DEF l, r
<1>5. l = r
  BY <1>2, <1>3, <1>4
<1> QED
  BY <1>5 DEF l, r

LEMMA TwoMake ==
    ASSUME NEW S, NEW x \in S, NEW y \in S
    PROVE  <<x>> \o <<y>> = <<x, y>>
<1> DEFINE a == <<x>>
           b == <<y>>
           r == <<x, y>>
<1>1. a \in Seq(S) /\ b \in Seq(S) /\ Len(a) = 1 /\ Len(b) = 1 /\ a[1] = x /\ b[1] = y
  OBVIOUS
<1>2. r \in Seq(S) /\ Len(r) = 2 /\ r[1] = x /\ r[2] = y
  OBVIOUS
<1> HIDE DEF a, b, r
<1>3. a \o b \in Seq(S) /\ Len(a \o b) = 2 /\ (a \o b)[1] = x /\ (a \o b)[2] = y
  <2>a. a \in Seq(S) /\ b \in Seq(S)
    BY <1>1
  <2>1. a \o b \in Seq(S) /\ Len(a \o b) = Len(a) + Len(b)
    BY <2>a, Split
  <2>2. \A i \in 1..(Len(a) + Len(b)) : (a \o b)[i] = IF i <= Len(a) THEN a[i] ELSE b[i - Len(a)]
    BY <2>a, Split
  <2>3. Len(a) + Len(b) = 2
    BY <1>1
  <2>4. (a \o b)[1] = a[1]
    BY <1>1, <2>2, <2>3
  <2>5. (a \o b)[2] = b[1]
    BY <1>1, <2>2, <2>3
  <2> QED
    BY <1>1, <2>1, <2>3, <2>4, <2>5
<1>4. a \o b = r
  <2> DEFINE q == a \o b
  <2>1. q \in Seq(S) /\ Len(q) = 2 /\ q[1] = x /\ q[2] = y
    BY <1>3
  <2> HIDE DEF q
  <2>2. q = [i \in 1..2 |-> q[i]]
    BY <2>1
  <2>3. r = [i \in 1..2 |-> r[i]]
    BY <1>2
  <2>4. \A i \in 1..2 : q[i] = r[i]
    BY <1>2, <2>1
  <2>5. q = r
    BY <2>2, <2>3, <2>4
  <2> QED
    BY <2>5 DEF q
<1> QED
  BY <1>4 DEF a, b, r

LEMMA FitsEmpty ==
    ASSUME NEW frame \in Queue
    PROVE  Fitting(<<>>, frame) = frame
<1>1. frame \in Seq(Byte) /\ Len(frame) <= BufferSize
  BY DEF Queue
<1>2. <<>> \o frame = frame
  BY <1>1
<1>3. SubSeq(frame, 1, Len(frame)) = frame
  BY <1>1
<1> QED
  BY <1>1, <1>2, <1>3 DEF Fitting

-----------------------------------------------------------------------------
(* The bytes on their way while the controller is there.                   *)

LEMMA HandlersPlace ==
    ASSUME Bench, Seats, holder[McuDevice] = Mcu, Live(Host)
    PROVE  ftHandle[Host] = HostDevice /\ holder[HostDevice] = Host
BY Places, Sits

LEMMA HostWrites ==
    ASSUME Bench, Seats, holder[McuDevice] = Mcu, NEW frame \in Queue,
           writeData(Host, frame), Up = <<>>
    PROVE  Up' = frame /\ Down' = Down /\ UNCHANGED <<holder, m_connected>>
<1>1. ftHandle[Host] = HostDevice
  BY HandlersPlace DEF writeData
<1>2. rx[McuDevice] = <<>> /\ tx[HostDevice] = <<>>
  BY Queues, SplitNone DEF Up
<1>3. /\ tx' = [tx EXCEPT ![HostDevice] = Fitting(tx[HostDevice], frame)]
      /\ rx' = rx /\ UNCHANGED <<holder, m_connected>>
  BY <1>1 DEF writeData, FT_Write, objectVars, driverVars
<1>4. tx'[HostDevice] = frame /\ tx'[McuDevice] = tx[McuDevice]
  BY <1>2, <1>3, FitsEmpty, Queues, Places
<1>5. Up' = rx'[McuDevice] \o tx'[HostDevice] /\ Down' = rx'[HostDevice] \o tx'[McuDevice]
  BY DEF Up, Down, HostDevice
<1>6. <<>> \o frame = frame
  BY SplitNothing DEF Queue
<1> QED
  BY <1>2, <1>3, <1>4, <1>5, <1>6 DEF Down

LEMMA McuWrites ==
    ASSUME Bench, Seats, NEW frame \in Queue, writeData(Mcu, frame), Down = <<>>
    PROVE  Down' = frame /\ Up' = Up /\ UNCHANGED <<holder, m_connected>>
<1>1. ftHandle[Mcu] = McuDevice
  BY DEF Seats
<1>2. rx[HostDevice] = <<>> /\ tx[McuDevice] = <<>>
  BY Queues, SplitNone DEF Down
<1>3. /\ tx' = [tx EXCEPT ![McuDevice] = Fitting(tx[McuDevice], frame)]
      /\ rx' = rx /\ UNCHANGED <<holder, m_connected>>
  BY <1>1 DEF writeData, FT_Write, objectVars, driverVars
<1>4. tx'[McuDevice] = frame /\ tx'[HostDevice] = tx[HostDevice]
  BY <1>2, <1>3, FitsEmpty, Queues, Places
<1>5. Up' = rx'[McuDevice] \o tx'[HostDevice] /\ Down' = rx'[HostDevice] \o tx'[McuDevice]
  BY DEF Up, Down, HostDevice
<1>6. <<>> \o frame = frame
  BY SplitNothing DEF Queue
<1> QED
  BY <1>2, <1>3, <1>4, <1>5, <1>6 DEF Up

\* A read takes everything: what is on the line at that moment is purged.
LEMMA HostReads ==
    ASSUME Bench, Seats, holder[McuDevice] = Mcu, NEW n, NEW frame, readData(Host, n, frame)
    PROVE  /\ Up' = rx[McuDevice] /\ Down' = tx[McuDevice]
           /\ frame = FT_Read(HostDevice, n)
           /\ UNCHANGED <<holder, m_connected>>
<1>1. ftHandle[Host] = HostDevice
  BY HandlersPlace DEF readData
<1>2. /\ rx' = [rx EXCEPT ![HostDevice] = <<>>]
      /\ tx' = [tx EXCEPT ![HostDevice] = <<>>]
      /\ UNCHANGED <<holder, m_connected>>
  BY <1>1 DEF readData, FT_Purge, objectVars, driverVars
<1>3. /\ rx'[HostDevice] = <<>> /\ rx'[McuDevice] = rx[McuDevice]
      /\ tx'[HostDevice] = <<>> /\ tx'[McuDevice] = tx[McuDevice]
  BY <1>2, Queues, Places
<1>4. Up' = rx'[McuDevice] \o tx'[HostDevice] /\ Down' = rx'[HostDevice] \o tx'[McuDevice]
  BY DEF Up, Down, HostDevice
<1>5. frame = FT_Read(HostDevice, n)
  BY <1>1 DEF readData, Fetched
<1> QED
  BY <1>2, <1>3, <1>4, <1>5, Queues, SplitNothing

LEMMA McuReads ==
    ASSUME Bench, Seats, NEW n, NEW frame, readData(Mcu, n, frame)
    PROVE  /\ Up' = tx[HostDevice] /\ Down' = rx[HostDevice]
           /\ frame = FT_Read(McuDevice, n)
           /\ UNCHANGED <<holder, m_connected>>
<1>1. ftHandle[Mcu] = McuDevice
  BY DEF Seats
<1>2. /\ rx' = [rx EXCEPT ![McuDevice] = <<>>]
      /\ tx' = [tx EXCEPT ![McuDevice] = <<>>]
      /\ UNCHANGED <<holder, m_connected>>
  BY <1>1 DEF readData, FT_Purge, objectVars, driverVars
<1>3. /\ rx'[McuDevice] = <<>> /\ rx'[HostDevice] = rx[HostDevice]
      /\ tx'[McuDevice] = <<>> /\ tx'[HostDevice] = tx[HostDevice]
  BY <1>2, Queues, Places
<1>4. Up' = rx'[McuDevice] \o tx'[HostDevice] /\ Down' = rx'[HostDevice] \o tx'[McuDevice]
  BY DEF Up, Down, HostDevice
<1>5. frame = FT_Read(McuDevice, n)
  BY <1>1 DEF readData, Fetched
<1> QED
  BY <1>2, <1>3, <1>4, <1>5, Queues, SplitNothing

LEMMA NothingMoves ==
    UNCHANGED ftVars =>
        /\ Up' = Up /\ Down' = Down /\ Left' = Left
        /\ UNCHANGED <<holder, m_connected>>
BY DEF ftVars, objectVars, driverVars, lineVars, Up, Down, Left, HostDevice

\* The line keeps every byte and their order: both ends speak the same, and
\* there is room for all that is on its way.
LEMMA LineCarries ==
    ASSUME Bench, Seats, holder[McuDevice] = Mcu, NEW d \in Devices, Transmit(d),
           Len(Up) <= BufferSize, Len(Down) <= BufferSize,
           holder[HostDevice] = Host \/ (Up = <<>> /\ Down = <<>>)
    PROVE  Up' = Up /\ Down' = Down /\ UNCHANGED <<holder, m_connected>>
<1>1. /\ tx[d] # <<>>
      /\ tx' = [tx EXCEPT ![d] = Tail(tx[d])]
      /\ \/ holder[Wire[d]] = Nobody
         \/ Len(rx[Wire[d]]) = BufferSize
         \/ SameTongue(d, Wire[d]) => rx' = [rx EXCEPT ![Wire[d]] = Append(rx[Wire[d]], Head(tx[d]))]
      /\ UNCHANGED <<holder, m_connected>>
  BY DEF Transmit, Carry, objectVars, driverVars
<1>2. holder[HostDevice] = Host
  <2>1. SUFFICES ASSUME Up = <<>>, Down = <<>> PROVE FALSE
    OBVIOUS
  <2>2. tx[HostDevice] = <<>> /\ tx[McuDevice] = <<>>
    BY <2>1, Queues, SplitNone DEF Up, Down
  <2> QED
    BY <1>1, <2>2, Places
<1>3. SameTongue(McuDevice, HostDevice) /\ SameTongue(HostDevice, McuDevice)
  <2>1. chipBaud[HostDevice] = DefaultBaud /\ chipBaud[McuDevice] = DefaultBaud
    BY <1>2, Sits, Places DEF Seats, BaudInStep, getBaudRate, Live
  <2>2. chipFormat[HostDevice] \in Formats /\ chipFormat[McuDevice] \in Formats
    BY Places DEF Seats, HandleInv, FtTypeOK, DriverTypeOK
  <2>3. chipFormat[HostDevice] = chipFormat[McuDevice]
    BY <2>2 DEF Bench
  <2> QED
    BY <2>1, <2>3 DEF SameTongue
<1>4. Up' = rx'[McuDevice] \o tx'[HostDevice] /\ Down' = rx'[HostDevice] \o tx'[McuDevice]
  BY DEF Up, Down, HostDevice
\* What is still to cross makes a queue shorter than all of them.
<1>5. ASSUME NEW a \in Seq(Byte), NEW b \in Seq(Byte), b # <<>>, Len(a \o b) <= BufferSize
      PROVE  Len(a) # BufferSize
  <2>1. Len(a \o b) = Len(a) + Len(b) /\ Len(a) \in Nat /\ Len(b) \in Nat
    BY Split
  <2>2. Len(b) # 0
    BY <1>5
  <2> DEFINE m == Len(a)
             n == Len(b)
  <2>3. m + n <= BufferSize /\ m \in Nat /\ n \in Nat \ {0}
    BY <1>5, <2>1, <2>2
  <2> HIDE DEF m, n
  <2>4. m # BufferSize
    BY <2>3, BufferAssumption
  <2> QED
    BY <2>4 DEF m
<1>8. ASSUME NEW a \in Seq(Byte), NEW b \in Seq(Byte), b # <<>>
      PROVE  Append(a, Head(b)) \o Tail(b) = a \o b
  BY <1>8, OneCrosses
<1>6. CASE d = HostDevice
  <2>1. Len(rx[McuDevice]) # BufferSize
    BY <1>1, <1>5, <1>6, Queues DEF Up
  <2>2. rx' = [rx EXCEPT ![McuDevice] = Append(rx[McuDevice], Head(tx[HostDevice]))]
    BY <1>1, <1>3, <1>6, <2>1, Places
  <2>3. /\ rx'[McuDevice] = Append(rx[McuDevice], Head(tx[HostDevice]))
        /\ rx'[HostDevice] = rx[HostDevice]
        /\ tx'[HostDevice] = Tail(tx[HostDevice]) /\ tx'[McuDevice] = tx[McuDevice]
    BY <1>1, <1>6, <2>2, Queues, Places
  <2>4. Append(rx[McuDevice], Head(tx[HostDevice])) \o Tail(tx[HostDevice])
            = rx[McuDevice] \o tx[HostDevice]
    <3>1. rx[McuDevice] \in Seq(Byte) /\ tx[HostDevice] \in Seq(Byte) /\ tx[HostDevice] # <<>>
      BY <1>1, <1>6, Queues
    <3> QED
      BY <1>8, <3>1
  <2> QED
    BY <1>1, <1>4, <2>3, <2>4 DEF Up, Down
<1>7. CASE d = McuDevice
  <2>1. Len(rx[HostDevice]) # BufferSize
    BY <1>1, <1>5, <1>7, Queues DEF Down
  <2>2. rx' = [rx EXCEPT ![HostDevice] = Append(rx[HostDevice], Head(tx[McuDevice]))]
    BY <1>1, <1>2, <1>3, <1>7, <2>1, Places
  <2>3. /\ rx'[HostDevice] = Append(rx[HostDevice], Head(tx[McuDevice]))
        /\ rx'[McuDevice] = rx[McuDevice]
        /\ tx'[McuDevice] = Tail(tx[McuDevice]) /\ tx'[HostDevice] = tx[HostDevice]
    BY <1>1, <1>7, <2>2, Queues, Places
  <2>4. Append(rx[HostDevice], Head(tx[McuDevice])) \o Tail(tx[McuDevice])
            = rx[HostDevice] \o tx[McuDevice]
    <3>1. rx[HostDevice] \in Seq(Byte) /\ tx[McuDevice] \in Seq(Byte) /\ tx[McuDevice] # <<>>
      BY <1>1, <1>7, Queues
    <3> QED
      BY <1>8, <3>1
  <2> QED
    BY <1>1, <1>4, <2>3, <2>4 DEF Up, Down
<1> QED
  BY <1>6, <1>7, Places

\* The handler's coming and going leaves an empty line empty.
LEMMA NothingToLose ==
    ASSUME Bench, Seats, holder[McuDevice] = Mcu, Up = <<>>, Down = <<>>,
           \/ \E d \in Devices : connectOpens(Host, d)
           \/ \E d \in Devices : connectThrows(Host, d)
           \/ disconnect(Host)
    PROVE  Up' = <<>> /\ Down' = <<>> /\ holder'[McuDevice] = Mcu
<1> USE Places
<1>1. \A d \in {HostDevice, McuDevice} : rx[d] = <<>> /\ tx[d] = <<>>
  BY Queues, SplitNone DEF Up, Down
<1>2. \A d \in {HostDevice, McuDevice} : rx'[d] = <<>> /\ tx'[d] = <<>>
  <2>1. rx \in [Devices -> Queue] /\ tx \in [Devices -> Queue]
    BY Queues
  <2>2. \A d \in Devices : connectOpens(Host, d) => FT_Purge(d)
    BY DEF connectOpens, FT_SetUSBParameters
  <2>3. \A d \in Devices : connectThrows(Host, d) => FT_Purge(d)
    BY DEF connectThrows
  <2>4. \A d \in Devices : FT_Purge(d) => \A e \in Devices : rx'[e] \in {<<>>, rx[e]} /\ tx'[e] \in {<<>>, tx[e]}
    BY <2>1 DEF FT_Purge
  <2>5. disconnect(Host) => \A e \in Devices : rx'[e] \in {<<>>, rx[e]} /\ tx'[e] \in {<<>>, tx[e]}
    BY <2>1 DEF disconnect, FT_Close, ftVars, lineVars
  <2> QED
    BY <1>1, <2>2, <2>3, <2>4, <2>5
<1>3. Up' = rx'[McuDevice] \o tx'[HostDevice] /\ Down' = rx'[HostDevice] \o tx'[McuDevice]
  BY DEF Up, Down, HostDevice
<1>4. holder'[McuDevice] = Mcu
  <2>1. holder \in [Devices -> Objects \cup {Nobody}]
    BY DEF Seats, HandleInv, FtTypeOK, DriverTypeOK
  <2>2. ASSUME NEW d \in Devices, connectOpens(Host, d) PROVE holder'[McuDevice] = Mcu
    BY <2>1, <2>2 DEF connectOpens, CanOpen, FT_Open
  <2>3. ASSUME NEW d \in Devices, connectThrows(Host, d) PROVE holder'[McuDevice] = Mcu
    BY <2>3 DEF connectThrows
  <2>4. CASE disconnect(Host)
    BY <2>1, <2>4 DEF disconnect, FT_Close, ftVars, driverVars
  <2> QED
    BY <2>2, <2>3, <2>4
<1> QED
  BY <1>2, <1>3, <1>4

-----------------------------------------------------------------------------
(* What the handler may still read once the controller is gone.            *)

LEMMA LeftIs ==
    ASSUME Bench, Seats, holder[McuDevice] # Mcu
    PROVE  /\ Live(Host) => rx[ftHandle[Host]] = Left
           /\ ~Live(Host) => Left = <<>> /\ holder[HostDevice] # Host
           /\ ~Live(Mcu)
<1>1. CASE holder[HostDevice] = Host
  BY <1>1, Sits DEF Left
<1>2. CASE holder[HostDevice] # Host
  <2>1. Left = <<>>
    BY <1>2 DEF Left
  <2>2. ASSUME Live(Host) PROVE rx[ftHandle[Host]] = <<>>
    <3>1. ftHandle[Host] = McuDevice /\ holder[McuDevice] = Host
      BY <1>2, <2>2, Sits
    <3> QED
      BY <3>1 DEF Seats
  <2> QED
    BY <1>2, <2>1, <2>2, Sits
<1> QED
  BY <1>1, <1>2

LEMMA WritesInVain ==
    ASSUME NEW frame, writeData(Host, frame)
    PROVE  Left' = Left /\ UNCHANGED <<holder, m_connected>>
BY DEF writeData, objectVars, driverVars, Left, HostDevice

LEMMA ReadsTheLast ==
    ASSUME Bench, Seats, holder[McuDevice] # Mcu, NEW n, NEW frame, readData(Host, n, frame)
    PROVE  /\ Left' = <<>>
           /\ frame = [i \in 1..n |-> IF i <= Len(Left) THEN Left[i] ELSE 0]
           /\ UNCHANGED <<holder, m_connected>>
<1>1. /\ Live(Host)
      /\ frame = FT_Read(ftHandle[Host], n)
      /\ rx' = [rx EXCEPT ![ftHandle[Host]] = <<>>]
      /\ UNCHANGED <<holder, m_connected>>
  BY DEF readData, Fetched, FT_Purge, objectVars, driverVars
<1>2. frame = [i \in 1..n |-> IF i <= Len(Left) THEN Left[i] ELSE 0]
  BY <1>1, LeftIs DEF FT_Read
<1>3. Left' = IF holder'[HostDevice] = Host THEN rx'[HostDevice] ELSE <<>>
  BY DEF Left, HostDevice
<1>4. holder[HostDevice] = Host => rx'[HostDevice] = <<>>
  BY <1>1, Sits, Places, Queues
<1> QED
  BY <1>1, <1>2, <1>3, <1>4

LEMMA ComesAndGoes ==
    ASSUME Bench, Seats, holder[McuDevice] # Mcu,
           \/ \E d \in Devices : connectOpens(Host, d)
           \/ \E d \in Devices : connectThrows(Host, d)
           \/ disconnect(Host)
    PROVE  Left' = <<>> /\ holder'[McuDevice] # Mcu
<1> USE Places
<1>1. /\ holder \in [Devices -> Objects \cup {Nobody}]
      /\ rx \in [Devices -> Queue]
      /\ m_connected \in [Objects -> BOOLEAN]
  BY Queues DEF Seats, HandleInv, FtTypeOK, DriverTypeOK
<1>2. Left' = IF holder'[HostDevice] = Host THEN rx'[HostDevice] ELSE <<>>
  BY DEF Left, HostDevice
<1>3. ASSUME NEW d \in Devices, connectOpens(Host, d)
      PROVE  Left' = <<>> /\ holder'[McuDevice] # Mcu
  <2>1. /\ ~m_connected[Host]
        /\ holder' = [holder EXCEPT ![d] = Host]
        /\ rx' = [rx EXCEPT ![d] = <<>>]
    BY <1>3 DEF connectOpens, FT_Open, FT_SetUSBParameters, FT_Purge
  <2>2. holder[HostDevice] = Nobody
    BY <2>1, Sits
  <2> QED
    BY <1>1, <1>2, <2>1, <2>2
<1>4. ASSUME NEW d \in Devices, connectThrows(Host, d)
      PROVE  Left' = <<>> /\ holder'[McuDevice] # Mcu
  <2>1. ~m_connected[Host] /\ holder' = holder
    BY <1>4 DEF connectThrows
  <2>2. holder[HostDevice] = Nobody
    BY <2>1, Sits
  <2> QED
    BY <1>2, <2>1, <2>2
<1>5. CASE disconnect(Host)
  <2>1. CASE m_connected[Host] /\ ftHandle[Host] # NoDevice
    <3>1. /\ FT_Close(Host, ftHandle[Host])
          /\ ftHandle[Host] \in Devices
      BY <1>5, <2>1 DEF disconnect, Seats
    <3>2. holder[ftHandle[Host]] = Host =>
            holder' = [holder EXCEPT ![ftHandle[Host]] = Nobody]
      BY <3>1 DEF FT_Close
    <3>3. holder[ftHandle[Host]] # Host => holder' = holder
      BY <3>1 DEF FT_Close
    <3>4. holder[HostDevice] = Host => ftHandle[Host] = HostDevice
      BY Sits
    <3>5. holder'[HostDevice] # Host
      BY <1>1, <3>1, <3>2, <3>3, <3>4
    <3>6. holder'[McuDevice] # Mcu
      BY <1>1, <3>1, <3>2, <3>3
    <3> QED
      BY <1>2, <3>5, <3>6
  <2>2. CASE ~(m_connected[Host] /\ ftHandle[Host] # NoDevice)
    <3>1. UNCHANGED ftVars
      BY <1>5, <2>2 DEF disconnect
    <3>2. ~m_connected[Host]
      BY <2>2 DEF Seats
    <3>3. holder[HostDevice] = Nobody
      BY <3>2, Sits
    <3> QED
      BY <1>2, <3>1, <3>3, NothingMoves
  <2> QED
    BY <2>1, <2>2
<1> QED
  BY <1>3, <1>4, <1>5

LEMMA LineIsCut ==
    ASSUME Bench, Seats, holder[McuDevice] # Mcu, NEW d \in Devices, Transmit(d)
    PROVE  Left' = Left /\ UNCHANGED <<holder, m_connected>>
<1>1. /\ tx[d] # <<>>
      /\ holder[Wire[d]] = Nobody => rx' = rx
      /\ \E q : rx' = [rx EXCEPT ![Wire[d]] = q]
      /\ UNCHANGED <<holder, m_connected>>
  <2>1. rx = [rx EXCEPT ![Wire[d]] = rx[Wire[d]]]
    BY Queues
  <2> QED
    BY <2>1 DEF Transmit, Carry, objectVars, driverVars
<1>2. Left' = IF holder'[HostDevice] = Host THEN rx'[HostDevice] ELSE <<>>
  BY DEF Left, HostDevice
<1>3. CASE d = HostDevice
  <2>1. rx'[HostDevice] = rx[HostDevice]
    BY <1>1, <1>3, Places, Queues
  <2> QED
    BY <1>1, <1>2, <2>1 DEF Left
<1>4. CASE d = McuDevice
  <2>1. holder[McuDevice] = Host
    BY <1>1, <1>4, Places DEF Seats
  <2>2. holder[HostDevice] # Host
    BY <2>1, Sits, Places
  <2> QED
    BY <1>1, <1>2, <2>2 DEF Left
<1> QED
  BY <1>3, <1>4, Places

LEMMA PlugIsPulled ==
    ASSUME Bench, Seats, Unplug(McuDevice) \/ Replug(McuDevice)
    PROVE  /\ Left' = Left /\ holder'[McuDevice] # Mcu
           /\ holder'[HostDevice] = holder[HostDevice]
           /\ UNCHANGED m_connected
<1> USE Places
<1>1. /\ holder \in [Devices -> Objects \cup {Nobody}]
      /\ rx \in [Devices -> Queue]
      /\ holder[McuDevice] # Nobody => McuDevice \in attached
  BY Queues DEF Seats, HandleInv, FtTypeOK, DriverTypeOK, HeldIsAttached
<1>2. Left' = IF holder'[HostDevice] = Host THEN rx'[HostDevice] ELSE <<>>
  BY DEF Left, HostDevice
<1>3. CASE Unplug(McuDevice)
  BY <1>1, <1>2, <1>3 DEF Unplug, PullPlug, objectVars, Left
<1>4. CASE Replug(McuDevice)
  BY <1>1, <1>2, <1>4 DEF Replug, PutPlug, objectVars, lineVars, Left
<1> QED
  BY <1>3, <1>4

\* What the handler has already received is the first of what was on its way.
LEMMA LeftOfDown ==
    ASSUME Bench, Seats
    PROVE  /\ Left \in Seq(Byte)
           /\ Down = <<>> => Left = <<>>
           /\ \A x : Down = <<x>> => Left \in {<<>>, <<x>>}
           /\ \A x, y : Down = <<x, y>> => Left \in {<<>>, <<x>>, <<x, y>>}
<1>1. CASE holder[HostDevice] = Host
  <2>1. Left = rx[HostDevice]
    BY <1>1 DEF Left
  <2>2. rx[HostDevice] \in Seq(Byte) /\ tx[McuDevice] \in Seq(Byte)
    BY Queues
  <2> DEFINE a == rx[HostDevice]
             b == tx[McuDevice]
  <2> HIDE DEF a, b
  <2>3. a \in Seq(Byte) /\ b \in Seq(Byte)
    BY <2>2 DEF a, b
  <2>4. a \o b = <<>> => a = <<>>
    BY <2>3, SplitNone
  <2>5. ASSUME NEW x, a \o b = <<x>> PROVE a \in {<<>>, <<x>>}
    BY <2>3, <2>5, SplitOne
  <2>6. ASSUME NEW x, NEW y, a \o b = <<x, y>> PROVE a \in {<<>>, <<x>>, <<x, y>>}
    BY <2>3, <2>6, SplitTwo
  <2>7. Left = a /\ Down = a \o b
    BY <2>1 DEF Down, a, b
  <2> QED
    BY <2>3, <2>4, <2>5, <2>6, <2>7
<1>2. CASE holder[HostDevice] # Host
  <2>1. Left = <<>>
    BY <1>2 DEF Left
  <2> QED
    BY <2>1
<1> QED
  BY <1>1, <1>2

-----------------------------------------------------------------------------
(* The frames of the dialog.                                               *)

Lead == CompletionPrefix[1]

LEMMA Frames ==
    ASSUME Bench
    PROVE  /\ Lead \in Byte /\ CompletionPrefix = <<Lead>>
           /\ \A r \in Byte : CompletionPrefix \o <<r>> = <<Lead, r>>
           /\ 1 \in 0..BufferSize /\ 2 \in 0..BufferSize
           /\ \A x \in Byte : <<x>> \in Queue
           /\ \A x, y \in Byte : <<x, y>> \in Queue
<1>1. PICK b \in Byte : CompletionPrefix = <<b>>
  BY DEF Bench
<1>2. Lead = b
  BY <1>1 DEF Lead
<1>3. BufferSize \in Nat /\ BufferSize >= 2
  <2>1. MotorBytes \in Nat /\ MotorBytes >= 4
    BY ParamBytesAssumption DEF MotorBytes
  <2>2. 10 * MotorBytes <= BufferSize
    BY DEF Bench
  <2> HIDE DEF MotorBytes
  <2> QED
    BY <2>1, <2>2, BufferAssumption
<1>4. ASSUME NEW x \in Byte, NEW y \in Byte
      PROVE  /\ <<x>> \in Seq(Byte) /\ Len(<<x>>) = 1
             /\ <<x, y>> \in Seq(Byte) /\ Len(<<x, y>>) = 2
  OBVIOUS
<1>5. \A r \in Byte : <<b>> \o <<r>> = <<b, r>>
  BY TwoMake
<1> QED
  BY <1>1, <1>2, <1>3, <1>4, <1>5 DEF Queue

LEMMA FramesSent ==
    ASSUME Bench
    PROVE  /\ <<VersionCommand>> \in Queue /\ <<FirmwareVersion>> \in Queue
           /\ <<0>> \in Queue /\ <<1>> \in Queue /\ <<10>> \in Queue
           /\ \A result \in Results : CompletionPrefix \o <<result>> \in Queue
           /\ \A text \in Requests : Checked(text) =>
                <<CommandOf(text)>> \in Queue /\ BlockOf(text) \in Queue
<1>1. \A result \in Results : result \in Byte
  BY Places, ResultsAssumption
<1>2. VersionCommand \in Byte /\ FirmwareVersion \in Byte /\ 0 \in Byte /\ 1 \in Byte /\ 10 \in Byte
  BY Places DEF VersionCommand, FirmwareVersion
<1>3. ASSUME NEW text \in Requests, Checked(text)
      PROVE  CommandOf(text) \in Byte /\ BlockOf(text) \in Queue
  BY <1>3, Places, CommandAsked, BlockAsked DEF Queue
<1> QED
  BY <1>1, <1>2, <1>3, Frames

\* The controller reads a block only of a count it admitted.
LEMMA BlockFits ==
    ASSUME Bench, DialogInv, mphase = "block", holder[McuDevice] = Mcu
    PROVE  /\ request \in Requests /\ Checked(request) /\ Admitted
           /\ BlockLength = Len(BlockOf(request))
           /\ BlockLength \in 1..BufferSize
<1>1. Admitted /\ phase \in {"readiness", "data", "completion"}
  BY DEF DialogInv, Conversation, Talk, Standing
<1>2. request \in Requests /\ Checked(request)
  BY <1>1 DEF DialogInv, RequestInv
<1>3. BlockLength = Len(BlockOf(request)) /\ BlockLength <= BufferSize
  BY <1>1, <1>2, BlockAsked DEF BlockLength, Admitted, Announced
<1>4. BlockLength \in Nat \ {0}
  <2>1. CommandCount(command) \in 1..10
    BY <1>1 DEF Admitted, validateMotorCommand
  <2>2. MotorBytes \in Nat \ {0}
    BY ParamBytesAssumption DEF MotorBytes
  <2> HIDE DEF MotorBytes
  <2> QED
    BY <2>1, <2>2 DEF BlockLength
<1> QED
  BY <1>1, <1>2, <1>3, <1>4, BufferAssumption

LEMMA ServeIsAdapterStep ==
    ASSUME Bench, DialogInv, NEW text \in Requests, Process(text)
    PROVE  AdapterStep
<1>1. CASE Refuse(text) \/ IgnoreUnknown(text) \/ listconnect(text)
  BY <1>1 DEF Refuse, IgnoreUnknown, listconnect, AdapterStep
<1>2. CASE version(text)
  BY <1>2, FramesSent DEF version, Abort, throws, AdapterStep
<1>3. CASE moving(text)
  <2>1. Checked(text)
    BY <1>3, CheckedWhenServed DEF moving, Accept
  <2> QED
    BY <1>3, <2>1, FramesSent DEF moving, Abort, throws, AdapterStep, CommandOf
<1>4. CASE reconnect(text)
  <2>1. \A d : CanOpen(d) => d \in Devices
    BY DEF CanOpen, DialogInv, Seats, HandleInv, FtTypeOK, DriverTypeOK
  <2> QED
    BY <1>4, <2>1 DEF reconnect, connectRefused, AdapterStep, connectOpens, connectThrows
<1>5. CASE DisconnectModule(text)
  BY <1>5 DEF DisconnectModule, AdapterStep
<1> QED
  BY <1>1, <1>2, <1>3, <1>4, <1>5 DEF Process

LEMMA DialogIsAdapterStep ==
    ASSUME Bench, DialogInv, [DialogNext]_vars
    PROVE  AdapterStep
<1>1. ASSUME NEW text \in Requests, Serve(text) PROVE AdapterStep
  BY <1>1, ServeIsAdapterStep DEF Serve
<1>2. CASE HostStep
  <2>1. CASE ReadVersion
    BY <2>1, Frames DEF ReadVersion, Abort, throws, readData, AdapterStep
  <2>2. CASE PollReadiness
    BY <2>2, Frames DEF PollReadiness, Abort, throws, readData, AdapterStep
  <2>3. CASE WriteMotors
    <3>1. BlockOf(request) \in Queue
      BY <2>3, FramesSent DEF WriteMotors, DialogInv, RequestInv
    <3> QED
      BY <2>3, <3>1 DEF WriteMotors, Abort, throws, AdapterStep, BlockOf
  <2>4. CASE PollCompletion
    BY <2>4, Frames DEF PollCompletion, Abort, throws, readData, AdapterStep
  <2> QED
    BY <1>2, <2>1, <2>2, <2>3, <2>4 DEF HostStep, Continue
<1>3. CASE McuStep
  <2>1. CASE ReadCommand
    BY <2>1, Frames DEF ReadCommand, McuCatch, throws, readData, AdapterStep
  <2>2. CASE handleVersionCommand \/ RejectUnknown \/ AnswerReadiness \/ MoveMotors
    BY <2>2, FramesSent DEF handleVersionCommand, RejectUnknown, AnswerReadiness, MoveMotors,
        Send, McuCatch, throws, AdapterStep
  <2>3. CASE ReadBlock
    <3>1. CASE McuCatch
      BY <3>1 DEF McuCatch, throws, AdapterStep
    <3>2. CASE Live(Mcu) /\ mphase = "block" /\ readData(Mcu, BlockLength, Fetched(Mcu, BlockLength))
      <4>1. BlockLength \in 1..BufferSize
        BY <3>2, Sits, BlockFits DEF DialogInv
      <4> QED
        BY <3>2, <4>1, BufferAssumption DEF AdapterStep
    <3> QED
      BY <2>3, <3>1, <3>2 DEF ReadBlock, readData
  <2> QED
    BY <1>3, <2>1, <2>2, <2>3 DEF McuStep, WorkerLoop
<1>4. ASSUME NEW d \in Devices, LineStep(d) PROVE AdapterStep
  BY <1>4 DEF LineStep, AdapterStep
<1>5. ASSUME NEW d \in Pluggable, Plug(d) PROVE AdapterStep
  BY <1>5 DEF Plug, Bench, AdapterStep
<1>6. CASE UNCHANGED vars
  BY <1>6 DEF vars, AdapterStep
<1> QED
  BY <1>1, <1>2, <1>3, <1>4, <1>5, <1>6 DEF DialogNext, Rest

LEMMA SeatsKept ==
    ASSUME Bench, DialogInv, [DialogNext]_vars
    PROVE  Seats'
BY DialogIsAdapterStep, SeatsStep DEF DialogInv

-----------------------------------------------------------------------------
(* What it takes to answer, and to go on waiting.                          *)

LEMMA ReplyIs ==
    /\ \A s : Reply(s).status = s /\ Reply(s).version = NoDevice
    /\ \A v : /\ [Reply(0) EXCEPT !.version = v].status = 0
              /\ [Reply(0) EXCEPT !.version = v].version = v
    /\ \A l : /\ [Reply(0) EXCEPT !.devices = l].status = 0
              /\ [Reply(0) EXCEPT !.devices = l].version = NoDevice
BY DEF Reply

Succeeded == RanAsAsked /\ moved[1].result = 255
Failed    == RanAsAsked /\ moved[1].result # 255

\* The verdict case by case.
Verdicts ==
    /\ reply.status = 0 => Succeeded
    /\ reply.status = 40513 => Failed
    /\ reply.status \notin {0, 40513, 40511, Silent} => moved = <<>>

LEMMA VerdictIs == TrueVerdict <=> (Answered("moving") => Verdicts)
<1> DEFINE s == reply.status
           nothing == moved = <<>>
           c == CASE s = 0 -> Succeeded
                  [] s = 40513 -> Failed
                  [] s \in {40511, Silent} -> TRUE
                  [] OTHER -> nothing
<1>1. TrueVerdict <=> (Answered("moving") => c)
  BY DEF TrueVerdict, Succeeded, Failed
<1>2. Verdicts <=>
        /\ s = 0 => Succeeded
        /\ s = 40513 => Failed
        /\ s \notin {0, 40513, 40511, Silent} => nothing
  BY DEF Verdicts
<1>3. c <=>
        /\ s = 0 => Succeeded
        /\ s = 40513 => Failed
        /\ s \notin {0, 40513, 40511, Silent} => nothing
  <2> HIDE DEF s, nothing
  <2>1. CASE s = 0
    BY <2>1 DEF Silent
  <2>2. CASE s = 40513
    BY <2>2 DEF Silent
  <2>3. CASE s \in {40511, Silent}
    BY <2>3 DEF Silent
  <2>4. CASE s \notin {0, 40513, 40511, Silent}
    BY <2>4
  <2> QED
    BY <2>1, <2>2, <2>3, <2>4
<1> HIDE DEF c, s, nothing
<1> QED
  BY <1>1, <1>2, <1>3

\* Where a handler at rest finds the worker and the line.
AtRest ==
    /\ mphase = "loop"
    /\ IF holder[McuDevice] = Mcu THEN Up = <<>> /\ Down = <<>>
       ELSE Left \in {<<>>, CompletionPrefix}

LEMMA RestIs == phase = "idle" => (Conversation <=> AtRest)
BY DEF AtRest, Conversation, Talk, Standing, Silence, Still

ItsVersion ==
    \/ reply.version = FirmwareVersion
    \/ ~Live(Mcu) /\ (reply.version = 0 \/ CompletionPrefix = <<reply.version>>)

Told ==
    /\ Asks(request, "moving") => Verdicts
    /\ Asks(request, "version") /\ reply.status = 0 => ItsVersion

Idle == phase = "idle"

LEMMA Answers == Idle /\ HandlerType /\ AtRest /\ Told => Handled
BY VerdictIs, RestIs DEF Idle, Told, Handled, RequestInv, VersionIsFirmwares, Answered, ItsVersion

LEMMA Waits == ~Idle /\ HandlerType /\ RequestInv /\ Conversation => Handled
BY VerdictIs DEF Idle, Handled, VersionIsFirmwares, Answered

LEMMA TypeIs ==
    ASSUME NEW p \in {"idle", "version", "readiness", "data", "completion"},
           NEW text \in Requests \cup {Raw("")}, NEW n \in 0..MaxPolls,
           NEW r, r.status \in Int, r.version \in Byte \cup {NoDevice},
           phase' = p, request' = text, elapsed' = n, reply' = r
    PROVE  HandlerType'
BY DEF HandlerType

LEMMA TypeNext ==
    ASSUME phase' \in {"idle", "version", "readiness", "data", "completion"},
           request' \in Requests \cup {Raw("")}, elapsed' \in 0..MaxPolls,
           reply'.status \in Int, reply'.version \in Byte \cup {NoDevice}
    PROVE  HandlerType'
BY DEF HandlerType

LEMMA TypeNow == DialogInv => HandlerType /\ WorkerType
BY DEF DialogInv, DialogTypeOK, HandlerType, WorkerType

LEMMA NoPollsYet == 0 \in 0..MaxPolls
BY MaxPollsAssumption

\* A line that is left alone.
LEMMA RestKept ==
    ASSUME Bench, DialogInv, phase = "idle", UNCHANGED <<ftVars, mphase>>
    PROVE  AtRest'
<1>1. AtRest
  BY RestIs DEF DialogInv
<1>2. CASE holder[McuDevice] = Mcu
  BY <1>1, <1>2, NothingMoves DEF AtRest
<1>3. CASE holder[McuDevice] # Mcu
  BY <1>1, <1>3, NothingMoves DEF AtRest
<1> QED
  BY <1>2, <1>3

LEMMA RefuseStep ==
    ASSUME Bench, DialogInv, NEW text \in Requests, Refuse(text), moved' = <<>>, UNCHANGED mphase
    PROVE  Handled'
<1>1. PICK s \in {Refusal(text), Silent} : reply' = Reply(s)
  BY DEF Refuse, Return
<1>2. phase = "idle" /\ phase' = "idle" /\ request' = text /\ elapsed' = 0 /\ UNCHANGED ftVars
  BY DEF Refuse, Return, Take
<1>3. s \in Int /\ s # 0
  BY RefusalType DEF Refuse, Silent
<1>4. AtRest'
  BY <1>2, RestKept
<1>5. HandlerType'
  <2>1. Reply(s).status \in Int /\ Reply(s).version \in Byte \cup {NoDevice}
    BY <1>3, ReplyIs
  <2> QED
    BY <1>1, <1>2, <2>1, TypeIs, NoPollsYet
<1>6. Asks(text, "moving") => Verdicts'
  <2>1. Asks(text, "moving") => s # 40513
    BY CheckedWhenServed DEF Silent
  <2>2. reply'.status = s
    BY <1>1, ReplyIs
  <2> QED
    BY <1>3, <2>1, <2>2 DEF Verdicts
<1>7. reply'.status # 0
  BY <1>1, <1>3, ReplyIs
<1>8. Idle' /\ Told'
  BY <1>2, <1>6, <1>7 DEF Idle, Told
<1> QED
  BY <1>4, <1>5, <1>8, Answers, PTL

\* Answers to the requests that are neither a run nor a version.
LEMMA OtherAnswer ==
    ASSUME Bench, DialogInv, NEW text \in Requests, phase' = "idle", request' = text, elapsed' = 0,
           reply'.status \in Int, reply'.version \in Byte \cup {NoDevice},
           ~Asks(text, "moving"), ~Asks(text, "version"), AtRest'
    PROVE  Handled'
<1>1. HandlerType'
  BY TypeIs, NoPollsYet
<1>2. Idle' /\ Told'
  BY DEF Idle, Told
<1> QED
  BY <1>1, <1>2, Answers, PTL

LEMMA SilentAnswer ==
    ASSUME Bench, DialogInv, NEW text \in Requests, phase' = "idle", request' = text, elapsed' = 0,
           reply' = Reply(Silent), AtRest'
    PROVE  Handled'
<1>1. reply'.status = Silent /\ reply'.version = NoDevice /\ Silent \in Int /\ Silent # 0 /\ Silent # 40513
  BY ReplyIs DEF Silent
<1>2. HandlerType'
  <2>1. Reply(Silent).status \in Int /\ Reply(Silent).version \in Byte \cup {NoDevice}
    BY ReplyIs DEF Silent
  <2> QED
    BY <2>1, TypeIs, NoPollsYet
<1>3. Verdicts' /\ reply'.status # 0
  BY <1>1 DEF Verdicts
<1>4. Idle' /\ Told'
  BY <1>3 DEF Idle, Told
<1> QED
  BY <1>2, <1>4, Answers, PTL

-----------------------------------------------------------------------------
(* Taking a request.                                                       *)

LEMMA SilentReply ==
    Reply(Silent).status \in Int /\ Reply(Silent).version \in Byte \cup {NoDevice}
BY ReplyIs DEF Silent

LEMMA IgnoreStep ==
    ASSUME Bench, DialogInv, NEW text \in Requests, IgnoreUnknown(text), UNCHANGED mphase
    PROVE  Handled'
<1>1. /\ phase = "idle" /\ phase' = "idle" /\ request' = text /\ elapsed' = 0
      /\ reply' = Reply(Silent) /\ UNCHANGED ftVars
  BY DEF IgnoreUnknown, Return, Take
<1>2. AtRest'
  BY <1>1, RestKept
<1> QED
  BY <1>1, <1>2, SilentAnswer

LEMMA AbortedStep ==
    ASSUME Bench, DialogInv, NEW text \in Requests, Take(text), Abort, UNCHANGED mphase
    PROVE  Handled'
<1>1. /\ phase = "idle" /\ phase' = "idle" /\ request' = text /\ elapsed' = 0
      /\ reply' = Reply(Silent) /\ UNCHANGED ftVars
  BY DEF Abort, throws, Return, Take
<1>2. AtRest'
  BY <1>1, RestKept
<1> QED
  BY <1>1, <1>2, SilentAnswer

\* The first frame of an exchange is on its way, and the handler waits.
LEMMA Begins ==
    ASSUME Bench, DialogInv, NEW text \in Requests, Take(text), NEW frame \in Queue,
           writeData(Host, frame), UNCHANGED mphase
    PROVE  /\ phase = "idle" /\ request' = text /\ elapsed' = 0 /\ mphase' = "loop"
           /\ m_connected[Host] /\ UNCHANGED <<holder, m_connected>>
           /\ holder[McuDevice] = Mcu => Up' = frame /\ Down' = <<>>
           /\ holder[McuDevice] # Mcu => Left' \in {<<>>, CompletionPrefix}
<1>1. phase = "idle" /\ request' = text /\ elapsed' = 0
  BY DEF Take
<1>2. AtRest /\ Seats
  BY <1>1, RestIs DEF DialogInv
<1>3. m_connected[Host]
  BY DEF writeData, Live
<1>4. mphase' = "loop"
  BY <1>2 DEF AtRest
<1>5. CASE holder[McuDevice] = Mcu
  <2>1. Up = <<>> /\ Down = <<>>
    BY <1>2, <1>5 DEF AtRest
  <2>2. Up' = frame /\ Down' = Down /\ UNCHANGED <<holder, m_connected>>
    BY <1>2, <1>5, <2>1, HostWrites
  <2> QED
    BY <1>1, <1>3, <1>4, <1>5, <2>1, <2>2
<1>6. CASE holder[McuDevice] # Mcu
  <2>1. Left \in {<<>>, CompletionPrefix}
    BY <1>2, <1>6 DEF AtRest
  <2>2. Left' = Left /\ UNCHANGED <<holder, m_connected>>
    BY WritesInVain
  <2> QED
    BY <1>1, <1>3, <1>4, <1>6, <2>1, <2>2
<1> QED
  BY <1>5, <1>6

LEMMA WaitType ==
    ASSUME Bench, NEW text \in Requests \cup {Raw("")}, NEW n \in 0..MaxPolls,
           NEW p \in {"version", "readiness", "data", "completion"},
           WaitFor(p), request' = text, elapsed' = n
    PROVE  /\ HandlerType' /\ ~Idle' /\ phase' = p
           /\ reply'.status = Silent
<1>1. phase' = p /\ reply' = Reply(Silent)
  BY DEF WaitFor
<1>2. Reply(Silent).status \in Int /\ Reply(Silent).version \in Byte \cup {NoDevice}
  BY SilentReply
<1>3. HandlerType'
  BY <1>1, <1>2, TypeIs
<1> QED
  BY <1>1, <1>3, ReplyIs DEF Idle

LEMMA VersionStep ==
    ASSUME Bench, DialogInv, NEW text \in Requests, version(text), UNCHANGED mphase
    PROVE  Handled'
<1>1. Take(text) /\ Asks(text, "version")
  BY DEF version, Accept
<1>2. CASE Abort
  BY <1>1, <1>2, AbortedStep
<1>3. CASE writeData(Host, <<VersionCommand>>) /\ WaitFor("version")
  <2>1. /\ phase = "idle" /\ request' = text /\ elapsed' = 0 /\ mphase' = "loop"
        /\ m_connected[Host] /\ UNCHANGED <<holder, m_connected>>
        /\ holder[McuDevice] = Mcu => Up' = <<VersionCommand>> /\ Down' = <<>>
        /\ holder[McuDevice] # Mcu => Left' \in {<<>>, CompletionPrefix}
    BY <1>1, <1>3, Begins, FramesSent
  <2>2. HandlerType' /\ ~Idle' /\ phase' = "version" /\ reply'.status = Silent
    BY <1>3, <2>1, WaitType, NoPollsYet
  <2>3. RequestInv'
    BY <1>1, <2>1, <2>2 DEF RequestInv
  <2>4. CASE holder[McuDevice] = Mcu
    <3>1. Standing("version", "loop", <<VersionCommand>>, <<>>)'
      BY <2>1, <2>2, <2>4 DEF Standing
    <3>2. Conversation'
      BY <2>1, <2>4, <3>1 DEF Conversation, Talk
    <3> QED
      BY <2>2, <2>3, <3>2, Waits, PTL
  <2>5. CASE holder[McuDevice] # Mcu
    <3>1. Still("version", "loop", {<<>>, <<FirmwareVersion>>, CompletionPrefix})'
      BY <2>1, <2>2, <2>5 DEF Still
    <3>2. Conversation'
      BY <2>1, <2>5, <3>1 DEF Conversation, Silence
    <3> QED
      BY <2>2, <2>3, <3>2, Waits, PTL
  <2> QED
    BY <2>4, <2>5
<1> QED
  BY <1>2, <1>3 DEF version

LEMMA MovingStep ==
    ASSUME Bench, DialogInv, NEW text \in Requests, moving(text), moved' = <<>>, UNCHANGED mphase
    PROVE  Handled'
<1>1. Take(text) /\ Asks(text, "moving") /\ Checked(text)
  BY CheckedWhenServed DEF moving, Accept
<1>2. CASE Abort
  BY <1>1, <1>2, AbortedStep
<1>3. CASE writeData(Host, <<CommandByte(Mode(text).raw, Len(Motors(text)))>>) /\ WaitFor("readiness")
  <2>a. writeData(Host, <<CommandOf(text)>>) /\ <<CommandOf(text)>> \in Queue
    BY <1>1, <1>3, FramesSent DEF CommandOf
  <2>1. /\ phase = "idle" /\ request' = text /\ elapsed' = 0 /\ mphase' = "loop"
        /\ m_connected[Host] /\ UNCHANGED <<holder, m_connected>>
        /\ holder[McuDevice] = Mcu => Up' = <<CommandOf(text)>> /\ Down' = <<>>
        /\ holder[McuDevice] # Mcu => Left' \in {<<>>, CompletionPrefix}
    BY <1>1, <2>a, Begins
  <2>2. HandlerType' /\ ~Idle' /\ phase' = "readiness" /\ reply'.status = Silent
    BY <1>3, <2>1, WaitType, NoPollsYet
  <2>3. RequestInv'
    BY <1>1, <2>1, <2>2, MaxPollsAssumption DEF RequestInv
  <2>4. CASE holder[McuDevice] = Mcu
    <3>1. Standing("readiness", "loop", <<CommandOf(request)>>, <<>>)'
      BY <2>1, <2>2, <2>4 DEF Standing
    <3>2. Conversation'
      BY <2>1, <2>4, <3>1 DEF Conversation, Talk
    <3> QED
      BY <2>2, <2>3, <3>2, Waits, PTL
  <2>5. CASE holder[McuDevice] # Mcu
    <3>1. Still("readiness", "loop", {<<>>, <<0>>, <<1>>, CompletionPrefix})'
      BY <2>1, <2>2, <2>5 DEF Still
    <3>2. Conversation'
      BY <2>1, <2>5, <3>1 DEF Conversation, Silence
    <3> QED
      BY <2>2, <2>3, <3>2, Waits, PTL
  <2> QED
    BY <2>4, <2>5
<1> QED
  BY <1>2, <1>3 DEF moving

\* The handler takes its adapter or gives it back.
LEMMA RestGoesOn ==
    ASSUME Bench, DialogInv, phase = "idle", UNCHANGED mphase,
           \/ \E d \in Devices : connectOpens(Host, d)
           \/ \E d \in Devices : connectThrows(Host, d)
           \/ disconnect(Host)
    PROVE  AtRest'
<1>1. AtRest /\ Seats
  BY RestIs DEF DialogInv
<1>2. CASE holder[McuDevice] = Mcu
  BY <1>1, <1>2, NothingToLose DEF AtRest
<1>3. CASE holder[McuDevice] # Mcu
  BY <1>1, <1>3, ComesAndGoes DEF AtRest
<1> QED
  BY <1>2, <1>3

LEMMA ReconnectStep ==
    ASSUME Bench, DialogInv, NEW text \in Requests, reconnect(text), UNCHANGED mphase
    PROVE  Handled'
<1> DEFINE d == DeviceId(text)
<1>1. /\ phase = "idle" /\ phase' = "idle" /\ request' = text /\ elapsed' = 0
      /\ Asks(text, "reconnect")
  BY DEF reconnect, Accept, Take, Return
<1>2. ~Asks(text, "moving") /\ ~Asks(text, "version")
  BY <1>1, OneCommand DEF Commands
<1>3. \A ok \in BOOLEAN : FirstFailure(<<checkConnectResult(ok)>>) \in Int
  <2>1. ASSUME NEW ok \in BOOLEAN PROVE checkConnectResult(ok)[2] = 40510
    BY DEF checkConnectResult
  <2> QED
    BY <2>1, FirstOfOne
<1>4. CanOpen(d) => d \in Devices
  BY DEF CanOpen, DialogInv, Seats, HandleInv, FtTypeOK, DriverTypeOK
<1>5. AtRest'
  <2>1. CASE connectRefused(Host, d)
    BY <1>1, <2>1, RestKept DEF connectRefused
  <2>2. CASE connectOpens(Host, d)
    BY <1>1, <1>4, <2>2, RestGoesOn DEF connectOpens
  <2>3. CASE connectThrows(Host, d)
    BY <1>1, <1>4, <2>3, RestGoesOn DEF connectThrows
  <2> QED
    BY <2>1, <2>2, <2>3 DEF reconnect
<1>6. PICK s \in Int : reply' = Reply(s)
  <2> DEFINE a == FirstFailure(<<checkConnectResult(FALSE)>>)
             b == FirstFailure(<<checkConnectResult(TRUE)>>)
  <2>1. reply' = Reply(a) \/ reply' = Reply(b) \/ reply' = Reply(Silent)
    BY DEF reconnect, Return
  <2>2. a \in Int
    BY <1>3
  <2>3. b \in Int
    BY <1>3
  <2>4. Silent \in Int
    BY DEF Silent
  <2> HIDE DEF a, b
  <2> QED
    BY <2>1, <2>2, <2>3, <2>4
<1> QED
  BY <1>1, <1>2, <1>5, <1>6, OtherAnswer, ReplyIs

LEMMA DisconnectStep ==
    ASSUME Bench, DialogInv, NEW text \in Requests, DisconnectModule(text), UNCHANGED mphase
    PROVE  Handled'
<1>1. /\ phase = "idle" /\ phase' = "idle" /\ request' = text /\ elapsed' = 0
      /\ Asks(text, "disconnect") /\ disconnect(Host) /\ reply' = Reply(0)
  BY DEF DisconnectModule, Accept, Take, Return
<1>2. ~Asks(text, "moving") /\ ~Asks(text, "version")
  BY <1>1, OneCommand DEF Commands
<1>3. AtRest'
  BY <1>1, RestGoesOn
<1>4. reply'.status \in Int /\ reply'.version \in Byte \cup {NoDevice}
  BY <1>1, ReplyIs
<1> QED
  BY <1>1, <1>2, <1>3, <1>4, OtherAnswer

LEMMA ListStep ==
    ASSUME Bench, DialogInv, NEW text \in Requests, listconnect(text), UNCHANGED mphase
    PROVE  Handled'
<1>1. /\ phase = "idle" /\ phase' = "idle" /\ request' = text /\ elapsed' = 0
      /\ Asks(text, "listconnect") /\ UNCHANGED ftVars
      /\ \E found : reply' = [Reply(0) EXCEPT !.devices = found]
  BY DEF listconnect, Accept, Take, Return
<1>2. ~Asks(text, "moving") /\ ~Asks(text, "version")
  BY <1>1, OneCommand DEF Commands
<1>3. AtRest'
  BY <1>1, RestKept
<1>4. reply'.status \in Int /\ reply'.version \in Byte \cup {NoDevice}
  BY <1>1, ReplyIs
<1> QED
  BY <1>1, <1>2, <1>3, <1>4, OtherAnswer

LEMMA ServeStep ==
    ASSUME Bench, DialogInv, NEW text \in Requests, Serve(text)
    PROVE  Handled'
BY RefuseStep, IgnoreStep, VersionStep, MovingStep, ReconnectStep, DisconnectStep, ListStep
   DEF Serve, Process

-----------------------------------------------------------------------------
(* Going on with a request.                                                *)

LEMMA BusyIsLive ==
    ASSUME Bench, DialogInv, phase # "idle", holder[McuDevice] = Mcu
    PROVE  Live(Host) /\ checkRXChannel(Host) = Len(rx[HostDevice])
<1>1. Seats /\ m_connected[Host]
  BY DEF DialogInv, RequestInv
<1>2. Live(Host) /\ ftHandle[Host] = HostDevice
  BY <1>1, Sits
<1> QED
  BY <1>2 DEF checkRXChannel, FT_GetQueueStatus

LEMMA QuietIs ==
    ASSUME Bench, Seats, LineQuiet
    PROVE  /\ Up = rx[McuDevice] /\ Down = rx[HostDevice]
           /\ McuQuiet /\ holder[McuDevice] = Mcu => Up = <<>>
<1>1. tx[HostDevice] = <<>> /\ tx[McuDevice] = <<>>
  BY Places DEF LineQuiet
<1>2. Up = rx[McuDevice] /\ Down = rx[HostDevice]
  BY <1>1, Queues, SplitNothing DEF Up, Down
<1>3. McuQuiet /\ holder[McuDevice] = Mcu => Len(rx[McuDevice]) = 0
  BY Sits DEF McuQuiet, checkRXChannel, FT_GetQueueStatus, Seats
<1>4. \A q \in Seq(Byte) : Len(q) = 0 => q = <<>>
  OBVIOUS
<1> QED
  BY <1>2, <1>3, <1>4, Queues

\* A wait that runs out finds what it waited for.
LEMMA NeverInVain ==
    ASSUME Bench, DialogInv, holder[McuDevice] = Mcu, LineQuiet
    PROVE  /\ phase = "version" /\ (McuQuiet \/ mphase \in {"block", "work"}) => Len(rx[HostDevice]) # 0
           /\ phase = "readiness" /\ McuQuiet => Len(rx[HostDevice]) # 0
           /\ phase = "completion" /\ McuQuiet => Len(rx[HostDevice]) = 2
<1>1. Seats /\ Talk
  BY DEF DialogInv, Conversation
<1>2. Down = rx[HostDevice] /\ (McuQuiet => Up = <<>> /\ mphase = "loop")
  BY <1>1, QuietIs DEF McuQuiet
<1>3. /\ \A x : Len(<<x>>) = 1 /\ <<x>> # <<>>
      /\ \A x, y : Len(<<x, y>>) = 2
  OBVIOUS
<1>4. CASE phase = "version"
  <2>1. McuQuiet => Down = <<FirmwareVersion>>
    BY <1>1, <1>2, <1>3, <1>4 DEF Talk, Standing
  <2>2. mphase \notin {"block", "work"}
    BY <1>1, <1>4 DEF Talk, Standing
  <2> QED
    BY <1>2, <1>3, <1>4, <2>1, <2>2
<1>5. CASE phase = "readiness"
  <2>1. McuQuiet => Down = <<1>>
    BY <1>1, <1>2, <1>3, <1>5 DEF Talk, Standing
  <2> QED
    BY <1>2, <1>3, <1>5, <2>1
<1>6. CASE phase = "completion"
  <2>1. McuQuiet => \E result \in Results : Down = CompletionPrefix \o <<result>>
    BY <1>1, <1>2, <1>6 DEF Talk, Standing
  <2>2. McuQuiet => \E result : Down = <<Lead, result>>
    BY <2>1, Frames, Places, ResultsAssumption
  <2> QED
    BY <1>2, <1>3, <1>6, <2>2
<1> QED
  BY <1>4, <1>5, <1>6

LEMMA ReadsOne ==
    ASSUME Bench, Seats, holder[McuDevice] = Mcu, Up = <<>>, NEW x, Down = <<x>>,
           Len(rx[HostDevice]) # 0, NEW frame, readData(Host, 1, frame)
    PROVE  Up' = <<>> /\ Down' = <<>> /\ frame[1] = x /\ UNCHANGED <<holder, m_connected>>
<1>1. /\ Up' = rx[McuDevice] /\ Down' = tx[McuDevice] /\ UNCHANGED <<holder, m_connected>>
      /\ frame = FT_Read(HostDevice, 1)
  BY HostReads
<1>2. rx[McuDevice] = <<>>
  BY Queues, SplitNone DEF Up
<1>3. rx[HostDevice] = <<x>> /\ tx[McuDevice] = <<>>
  <2> DEFINE a == rx[HostDevice]
             b == tx[McuDevice]
  <2>1. a \in Seq(Byte) /\ b \in Seq(Byte) /\ a \o b = <<x>>
    BY Queues DEF Down
  <2>2. a # <<>>
    OBVIOUS
  <2> HIDE DEF a, b
  <2>3. a = <<x>> /\ b = <<>>
    BY <2>1, <2>2, SplitOne
  <2> QED
    BY <2>3 DEF a, b
<1>4. Len(<<x>>) = 1 /\ <<x>>[1] = x
  OBVIOUS
<1>5. FT_Read(HostDevice, 1)[1] = x
  BY <1>3, <1>4 DEF FT_Read
<1> QED
  BY <1>1, <1>2, <1>3, <1>5

LEMMA ReadsTwo ==
    ASSUME Bench, Seats, holder[McuDevice] = Mcu, Up = <<>>, NEW x, NEW y, Down = <<x, y>>,
           Len(rx[HostDevice]) >= 2, NEW frame, readData(Host, 2, frame)
    PROVE  Up' = <<>> /\ Down' = <<>> /\ frame[2] = y /\ UNCHANGED <<holder, m_connected>>
<1>1. /\ Up' = rx[McuDevice] /\ Down' = tx[McuDevice] /\ UNCHANGED <<holder, m_connected>>
      /\ frame = FT_Read(HostDevice, 2)
  BY HostReads
<1>2. rx[McuDevice] = <<>>
  BY Queues, SplitNone DEF Up
<1>3. rx[HostDevice] = <<x, y>> /\ tx[McuDevice] = <<>>
  <2>1. Len(<<x>>) = 1 /\ Len(<<>>) = 0
    OBVIOUS
  <2>2. rx[HostDevice] # <<x>> /\ rx[HostDevice] # <<>>
    BY <2>1
  <2> DEFINE a == rx[HostDevice]
             b == tx[McuDevice]
  <2>3. a \in Seq(Byte) /\ b \in Seq(Byte) /\ a \o b = <<x, y>> /\ a # <<x>> /\ a # <<>>
    BY <2>2, Queues DEF Down
  <2> HIDE DEF a, b
  <2>4. a = <<x, y>> /\ b = <<>>
    BY <2>3, SplitTwo
  <2> QED
    BY <2>4 DEF a, b
<1>4. Len(<<x, y>>) = 2 /\ <<x, y>>[2] = y
  OBVIOUS
<1>5. FT_Read(HostDevice, 2)[2] = y
  BY <1>3, <1>4 DEF FT_Read
<1> QED
  BY <1>1, <1>2, <1>3, <1>5

\* The call that throws: only when the controller is gone too.
LEMMA AbortStep ==
    ASSUME Bench, DialogInv, phase # "idle", Abort, UNCHANGED <<mphase, request>>,
           elapsed' \in 0..MaxPolls
    PROVE  Handled'
<1>1. phase' = "idle" /\ reply' = Reply(Silent) /\ UNCHANGED ftVars /\ ~Live(Host)
  BY DEF Abort, throws, Return
<1>2. holder[McuDevice] # Mcu /\ Seats /\ Silence
  BY <1>1, BusyIsLive DEF DialogInv, Conversation
<1>3. Left = <<>> /\ holder[HostDevice] # Host
  BY <1>1, <1>2, LeftIs
<1>4. mphase = "loop"
  BY <1>2, <1>3 DEF Silence
<1>5. AtRest'
  BY <1>1, <1>2, <1>3, <1>4, NothingMoves DEF AtRest
<1>6. HandlerType'
  <2>1. request \in Requests \cup {Raw("")}
    BY DEF DialogInv, DialogTypeOK
  <2> QED
    BY <1>1, <2>1, SilentReply, TypeIs
<1>7. Told' /\ Idle'
  <2>1. reply'.status = Silent
    BY <1>1, ReplyIs
  <2> QED
    BY <1>1, <2>1 DEF Told, Idle, Verdicts, Silent
<1> QED
  BY <1>5, <1>6, <1>7, Answers, PTL

LEMMA ReadKeepsSeats ==
    ASSUME NEW n, NEW frame, readData(Host, n, frame)
    PROVE  UNCHANGED <<holder, m_connected>> /\ (Live(Mcu)' <=> Live(Mcu))
BY DEF readData, objectVars, driverVars, Live

LEMMA ReadVersionStep ==
    ASSUME Bench, DialogInv, ReadVersion, HostOnTime, UNCHANGED mcuVars
    PROVE  Handled'
<1>1. /\ phase = "version" /\ UNCHANGED <<request, elapsed, mphase>>
      /\ Seats /\ Conversation /\ Asks(request, "version") /\ ~Asks(request, "moving")
      /\ elapsed \in 0..MaxPolls /\ request \in Requests \cup {Raw("")}
  BY OneCommand DEF ReadVersion, mcuVars, DialogInv, DialogTypeOK, RequestInv, Commands
<1>2. CASE Abort
  BY <1>1, <1>2, AbortStep
<1>3. ASSUME NEW frame, frame = Fetched(Host, 1), readData(Host, 1, frame),
             phase' = "idle", reply' = [Reply(0) EXCEPT !.version = frame[1]]
      PROVE  Handled'
  <2>1. Live(Host)
    BY <1>3 DEF readData
  <2>2. reply'.status = 0 /\ reply'.version = frame[1]
    BY <1>3, ReplyIs
  <2>3. checkRXChannel(Host) = 0 => LineQuiet /\ (McuQuiet \/ mphase \in {"block", "work"})
    BY <1>1, <2>1 DEF HostOnTime, Bench
  <2>4. /\ mphase = "loop" /\ AtRest' /\ ItsVersion' /\ frame[1] \in Byte
    <3>1. CASE holder[McuDevice] = Mcu
      <4>1. Len(rx[HostDevice]) # 0
        BY <1>1, <2>3, <3>1, BusyIsLive, NeverInVain
      <4>2. Down # <<>>
        <5>1. rx[HostDevice] # <<>>
          BY <4>1
        <5> QED
          BY <5>1, <1>1, Queues, SplitNone DEF Down
      <4>3. Standing("version", "loop", <<>>, <<FirmwareVersion>>)
        BY <1>1, <3>1, <4>2 DEF Conversation, Talk, Standing
      <4>4. Up' = <<>> /\ Down' = <<>> /\ frame[1] = FirmwareVersion /\ UNCHANGED <<holder, m_connected>>
        BY <1>1, <1>3, <3>1, <4>1, <4>3, ReadsOne DEF Standing
      <4>5. FirmwareVersion \in Byte
        BY Places DEF FirmwareVersion
      <4> QED
        BY <1>1, <2>2, <3>1, <4>3, <4>4, <4>5 DEF Standing, AtRest, ItsVersion
    <3>2. CASE holder[McuDevice] # Mcu
      <4>1. /\ Left' = <<>> /\ UNCHANGED <<holder, m_connected>>
            /\ frame = [i \in 1..1 |-> IF i <= Len(Left) THEN Left[i] ELSE 0]
        BY <1>1, <1>3, <3>2, ReadsTheLast
      <4>2. Len(Left) = 0 => mphase # "version"
        BY <1>1, <2>1, <2>3, <3>2, LeftIs DEF McuQuiet, checkRXChannel, FT_GetQueueStatus
      <4>3. Len(<<>>) = 0 /\ \A x : Len(<<x>>) = 1 /\ <<x>>[1] = x
        OBVIOUS
      <4>4. Left \in {<<>>, <<FirmwareVersion>>, <<Lead>>} /\ mphase = "loop"
        BY <1>1, <3>2, <4>2, <4>3, Frames DEF Conversation, Silence, Still
      <4>5. frame[1] = IF 1 <= Len(Left) THEN Left[1] ELSE 0
        BY <4>1
      <4>6. frame[1] \in {0, FirmwareVersion, Lead}
        BY <4>3, <4>4, <4>5
      <4>7. 0 \in Byte /\ FirmwareVersion \in Byte /\ Lead \in Byte /\ CompletionPrefix = <<Lead>>
        BY Places, Frames DEF FirmwareVersion
      <4>8. ~Live(Mcu)'
        BY <1>1, <1>3, <3>2, LeftIs, ReadKeepsSeats
      <4>9. AtRest'
        BY <1>1, <3>2, <4>1, <4>4 DEF AtRest
      <4>10. ItsVersion'
        BY <2>2, <4>6, <4>7, <4>8 DEF ItsVersion
      <4> QED
        BY <4>4, <4>6, <4>7, <4>9, <4>10
    <3> QED
      BY <3>1, <3>2
  <2>5. HandlerType'
    <3>1. reply'.status \in Int /\ reply'.version \in Byte \cup {NoDevice}
      BY <2>2, <2>4
    <3> QED
      BY <1>1, <1>3, <3>1, TypeIs
  <2>6. Idle' /\ Told'
    BY <1>1, <1>3, <2>4 DEF Idle, Told
  <2> QED
    BY <2>4, <2>5, <2>6, Answers, PTL
<1> QED
  BY <1>2, <1>3 DEF ReadVersion, Return

LEMMA PollReadinessStep ==
    ASSUME Bench, DialogInv, PollReadiness, HostOnTime, UNCHANGED mcuVars
    PROVE  Handled'
<1>1. phase = "readiness" /\ UNCHANGED <<request, mphase, command, motors, moved>>
  BY DEF PollReadiness, mcuVars
<1>a. Seats /\ Conversation /\ RequestInv
  BY DEF DialogInv
<1>b. /\ request \in Requests /\ Checked(request) /\ m_connected[Host]
      /\ Asks(request, "moving") /\ ~Asks(request, "version")
  <2>1. request \in Requests /\ Checked(request) /\ Asks(request, "moving") /\ m_connected[Host]
    BY <1>a DEF PollReadiness, RequestInv, Checked
  <2>2. ~Asks(request, "version")
    BY <2>1, OneCommand DEF Commands
  <2> QED
    BY <2>1, <2>2
<1>c. elapsed \in 0..MaxPolls /\ elapsed < MaxPolls
  <2>1. elapsed \in 0..MaxPolls
    BY TypeNow DEF HandlerType
  <2>2. elapsed < MaxPolls
    BY <1>1, <1>a DEF RequestInv
  <2> QED
    BY <2>1, <2>2
<1>2. CASE Abort /\ UNCHANGED elapsed
  BY <1>1, <1>2, <1>c, AbortStep
<1>3. ASSUME NEW frame, frame = Fetched(Host, 1), readData(Host, 1, frame),
             checkRXChannel(Host) >= 1, UNCHANGED elapsed,
             IF frame[1] # 0 THEN Return(Reply(40512)) ELSE WaitFor("data")
      PROVE  Handled'
  <2>1. Live(Host)
    BY <1>3 DEF readData
  <2>2. \/ /\ holder[McuDevice] = Mcu /\ holder'[McuDevice] = Mcu /\ UNCHANGED m_connected
           /\ Up' = <<>> /\ Down' = <<>> /\ moved = <<>>
           /\ \/ frame[1] = 1 /\ mphase = "loop"
              \/ frame[1] = 0 /\ mphase = "block" /\ Admitted
        \/ /\ holder[McuDevice] # Mcu /\ UNCHANGED <<holder, m_connected>>
           /\ Left' = <<>> /\ moved = <<>>
           /\ mphase = "loop" \/ (frame[1] = 0 /\ mphase = "block")
    <3>1. CASE holder[McuDevice] = Mcu
      <4>1. Len(rx[HostDevice]) # 0
        BY <1>1, <1>3, <3>1, BusyIsLive
      <4>2. Down # <<>>
        <5>1. rx[HostDevice] # <<>>
          BY <4>1
        <5> QED
          BY <5>1, <1>a, Queues, SplitNone DEF Down
      <4>3. \/ Standing("readiness", "loop", <<>>, <<1>>) /\ moved = <<>>
            \/ Standing("readiness", "block", <<>>, <<0>>) /\ Admitted
        BY <1>1, <1>a, <3>1, <4>2 DEF Conversation, Talk, Standing
      <4>4. PICK x \in {0, 1} : /\ Up = <<>> /\ Down = <<x>> /\ moved = <<>>
                                /\ \/ x = 1 /\ mphase = "loop"
                                   \/ x = 0 /\ mphase = "block" /\ Admitted
        BY <4>3 DEF Standing, Admitted, Announced
      <4>5. Up' = <<>> /\ Down' = <<>> /\ frame[1] = x /\ UNCHANGED <<holder, m_connected>>
        BY <1>3, <1>a, <3>1, <4>1, <4>4, ReadsOne
      <4> QED
        BY <3>1, <4>4, <4>5
    <3>2. CASE holder[McuDevice] # Mcu
      <4>1. /\ Left' = <<>> /\ UNCHANGED <<holder, m_connected>>
            /\ frame = [i \in 1..1 |-> IF i <= Len(Left) THEN Left[i] ELSE 0]
        BY <1>3, <1>a, <3>2, ReadsTheLast
      <4>2. Len(Left) >= 1
        BY <1>3, <1>a, <2>1, <3>2, LeftIs DEF checkRXChannel, FT_GetQueueStatus
      <4>3. Len(<<>>) = 0 /\ Len(<<0>>) = 1 /\ <<0>>[1] = 0
        OBVIOUS
      <4>4. frame[1] = Left[1]
        BY <4>1, <4>2
      <4>5. moved = <<>> /\ (mphase = "loop" \/ (mphase = "block" /\ Left = <<0>>))
        BY <1>1, <1>a, <3>2, <4>2, <4>3 DEF Conversation, Silence, Still
      <4> QED
        BY <3>2, <4>1, <4>3, <4>4, <4>5
    <3> QED
      BY <3>1, <3>2
  <2>3. CASE frame[1] # 0
    <3>1. phase' = "idle" /\ reply'.status = 40512 /\ reply'.version = NoDevice
      BY <1>3, <2>3, ReplyIs DEF Return
    <3>2. AtRest'
      BY <1>1, <2>2, <2>3 DEF AtRest
    <3>3. HandlerType'
      <4>1. reply'.status \in Int /\ reply'.version \in Byte \cup {NoDevice}
        BY <3>1
      <4>a. elapsed' = elapsed /\ request' = request
        BY <1>1, <1>3
      <4>2. elapsed' \in 0..MaxPolls /\ request' \in Requests \cup {Raw("")}
        BY <4>a, <1>b, <1>c
      <4>3. phase' \in {"idle", "version", "readiness", "data", "completion"}
        BY <3>1
      <4> QED
        BY <4>1, <4>2, <4>3, TypeNext
    <3>4. moved' = <<>>
      BY <1>1, <2>2
    <3>5. Idle' /\ Told'
      BY <1>1, <1>b, <3>1, <3>4 DEF Idle, Told, Verdicts
    <3> QED
      BY <3>2, <3>3, <3>5, Answers, PTL
  <2>4. CASE frame[1] = 0
    <3>1. HandlerType' /\ ~Idle' /\ phase' = "data" /\ reply'.status = Silent
      <4>1. WaitFor("data") /\ elapsed' = elapsed /\ request' = request
        BY <1>1, <1>3, <2>4
      <4> QED
        BY <1>b, <1>c, <4>1, WaitType
    <3>2. RequestInv'
      BY <1>1, <1>b, <2>2, <3>1 DEF RequestInv
    <3>3. CASE holder[McuDevice] = Mcu
      <4>1. Standing("data", "block", <<>>, <<>>)'
        BY <1>1, <2>2, <2>4, <3>1, <3>3 DEF Standing
      <4>2. Admitted'
        BY <1>1, <2>2, <2>4, <3>3 DEF Admitted, Announced
      <4>3. holder'[McuDevice] = Mcu
        BY <2>2, <3>3
      <4> QED
        <5>1. Conversation'
          BY <4>1, <4>2, <4>3 DEF Conversation, Talk
        <5> QED
          BY <5>1, <3>1, <3>2, Waits, PTL
    <3>4. CASE holder[McuDevice] # Mcu
      <4>1. Still("data", "block", {<<>>})' \/ Still("data", "loop", {<<>>})'
        BY <1>1, <2>2, <3>1, <3>4 DEF Still
      <4>2. moved' = <<>> /\ holder'[McuDevice] # Mcu /\ (mphase' # "loop" => holder'[HostDevice] = Host)
        BY <1>1, <1>a, <2>2, <3>4 DEF Conversation, Silence
      <4>3. Conversation'
        BY <4>1, <4>2 DEF Conversation, Silence
      <4> QED
        BY <4>3, <3>1, <3>2, Waits, PTL
    <3> QED
      BY <3>3, <3>4
  <2> QED
    BY <2>3, <2>4
<1>4. ASSUME Live(Host), checkRXChannel(Host) = 0, elapsed' = Tick,
             WaitFor(IF elapsed' < MaxPolls THEN "readiness" ELSE "data"), UNCHANGED ftVars
      PROVE  Handled'
  <2>1. elapsed' = elapsed + 1 /\ elapsed' \in 0..MaxPolls /\ elapsed' > elapsed
    BY <1>4, <1>c, MaxPollsAssumption DEF Tick
  <2>2. LineQuiet /\ McuQuiet
    BY <1>4, <2>1 DEF HostOnTime, Bench
  <2>3. holder[McuDevice] # Mcu
    BY <1>1, <1>4, <2>2, BusyIsLive, NeverInVain
  <2>4. Len(Left) = 0 /\ mphase = "loop"
    BY <1>4, <1>a, <2>2, <2>3, LeftIs DEF McuQuiet, checkRXChannel, FT_GetQueueStatus
  <2>5. Left = <<>> /\ moved = <<>>
    <3>1. \A q \in Seq(Byte) : Len(q) = 0 => q = <<>>
      OBVIOUS
    <3> QED
      <4>1. Left = <<>>
        BY <1>a, <2>4, <3>1, LeftOfDown
      <4> QED
        BY <1>1, <1>a, <2>3, <2>4, <4>1 DEF Conversation, Silence, Still
  <2>6. PICK p \in {"readiness", "data"} : WaitFor(p) /\ (p = "readiness" => elapsed' < MaxPolls)
    BY <1>4
  <2>7. HandlerType' /\ ~Idle' /\ phase' = p /\ reply'.status = Silent
    BY <1>1, <1>b, <2>1, <2>6, WaitType
  <2>8. RequestInv'
    BY <1>1, <1>4, <1>b, <2>6, <2>7, NothingMoves DEF RequestInv
  <2>9. /\ Left' = <<>> /\ moved' = <<>> /\ mphase' = "loop" /\ holder'[McuDevice] # Mcu
    BY <1>1, <1>4, <2>3, <2>4, <2>5, NothingMoves
  <2>10. Conversation'
    BY <2>6, <2>7, <2>9 DEF Conversation, Silence, Still
  <2> QED
    BY <2>7, <2>8, <2>10, Waits, PTL
<1> QED
  BY <1>2, <1>3, <1>4 DEF PollReadiness

\* A frame of two bytes, and one of fewer.
LEMMA TwoOrFewer ==
    ASSUME NEW q
    PROVE  /\ Len(q) < 2 => \A x, y : q # <<x, y>>
           /\ Len(q) >= 2 => q # <<>> /\ \A x : q # <<x>>
<1>1. Len(<<>>) = 0 /\ (\A x : Len(<<x>>) = 1) /\ (\A x, y : Len(<<x, y>>) = 2)
  OBVIOUS
<1>2. ASSUME NEW x, NEW y, Len(q) < 2 PROVE q # <<x, y>>
  <2>1. SUFFICES ASSUME q = <<x, y>> PROVE FALSE
    OBVIOUS
  <2>2. Len(q) = 2
    BY <1>1, <2>1
  <2> QED
    BY <1>2, <2>2
<1>3. ASSUME NEW x, Len(q) >= 2 PROVE q # <<x>>
  <2>1. SUFFICES ASSUME q = <<x>> PROVE FALSE
    OBVIOUS
  <2>2. Len(q) = 1
    BY <1>1, <2>1
  <2> QED
    BY <1>3, <2>2
<1>4. ASSUME Len(q) >= 2 PROVE q # <<>>
  <2>1. SUFFICES ASSUME q = <<>> PROVE FALSE
    OBVIOUS
  <2>2. Len(q) = 0
    BY <1>1, <2>1
  <2> QED
    BY <1>4, <2>2
<1> QED
  BY <1>2, <1>3, <1>4

LEMMA WriteMotorsStep ==
    ASSUME Bench, DialogInv, WriteMotors, UNCHANGED mcuVars
    PROVE  Handled'
<1>1. phase = "data" /\ elapsed' = 0 /\ UNCHANGED <<request, mphase, command, motors, moved>>
  BY DEF WriteMotors, mcuVars
<1>a. Seats /\ Conversation /\ RequestInv
  BY DEF DialogInv
<1>b. request \in Requests /\ Checked(request) /\ m_connected[Host]
  BY <1>1, <1>a DEF RequestInv
<1>2. CASE Abort
  BY <1>1, <1>2, NoPollsYet, AbortStep
<1>3. CASE writeData(Host, EncodeMotors(Motors(request))) /\ WaitFor("completion")
  <2>1. writeData(Host, BlockOf(request)) /\ BlockOf(request) \in Queue
    BY <1>3, <1>b, FramesSent DEF BlockOf
  <2>2. HandlerType' /\ ~Idle' /\ phase' = "completion" /\ reply'.status = Silent
    BY <1>1, <1>3, <1>b, NoPollsYet, WaitType
  <2>3. CASE holder[McuDevice] = Mcu
    <3>1. Standing("data", "block", <<>>, <<>>) /\ Admitted
      BY <1>1, <1>a, <2>3 DEF Conversation, Talk, Standing
    <3>2. Up' = BlockOf(request) /\ Down' = <<>> /\ UNCHANGED <<holder, m_connected>>
      BY <1>a, <2>1, <2>3, <3>1, HostWrites DEF Standing
    <3>3. Standing("completion", "block", BlockOf(request), <<>>)'
      BY <1>1, <2>2, <3>1, <3>2 DEF Standing
    <3>4. Admitted' /\ holder'[McuDevice] = Mcu
      BY <1>1, <2>3, <3>1, <3>2 DEF Admitted, Announced
    <3>5. Conversation'
      BY <3>3, <3>4 DEF Conversation, Talk
    <3>6. RequestInv'
      BY <1>1, <1>b, <2>2, <3>2, MaxPollsAssumption DEF RequestInv
    <3> QED
      BY <2>2, <3>5, <3>6, Waits, PTL
  <2>4. CASE holder[McuDevice] # Mcu
    <3>1. Left' = Left /\ UNCHANGED <<holder, m_connected>>
      BY <2>1, WritesInVain
    <3>2. /\ mphase \in {"block", "loop"} /\ Left = <<>> /\ moved = <<>>
          /\ mphase # "loop" => holder[HostDevice] = Host
      BY <1>1, <1>a, <2>4 DEF Conversation, Silence, Still
    <3>3. Still("completion", "block", {<<>>})' \/ Still("completion", "loop", {<<>>})'
      BY <1>1, <2>2, <3>1, <3>2 DEF Still
    <3>4. /\ moved' = <<>> /\ holder'[McuDevice] # Mcu
          /\ mphase' # "loop" => holder'[HostDevice] = Host
      BY <1>1, <2>4, <3>1, <3>2
    <3>5. Conversation'
      BY <3>3, <3>4 DEF Conversation, Silence
    <3>6. RequestInv'
      BY <1>1, <1>b, <2>2, <3>1, MaxPollsAssumption DEF RequestInv
    <3> QED
      BY <2>2, <3>5, <3>6, Waits, PTL
  <2> QED
    BY <2>3, <2>4
<1> QED
  BY <1>2, <1>3 DEF WriteMotors

\* The run that was asked for has been performed.
LEMMA RanIs ==
    ASSUME Bench, request \in Requests, Checked(request), NEW result,
           moved = <<RunOf(request, result)>>
    PROVE  RanAsAsked /\ moved[1].result = result
<1>1. Len(moved) = 1 /\ moved[1] = RunOf(request, result)
  OBVIOUS
<1>2. /\ RunOf(request, result).mode = CommandMode(CommandOf(request))
      /\ RunOf(request, result).motors = MotorsOf(request)
      /\ RunOf(request, result).result = result
  BY DEF RunOf
<1>3. IsRunOf(CommandMode(CommandOf(request)), MotorsOf(request), request)
  BY RunAsked
<1> QED
  BY <1>1, <1>2, <1>3 DEF RanAsAsked

LEMMA PollCompletionStep ==
    ASSUME Bench, DialogInv, PollCompletion, HostOnTime, UNCHANGED mcuVars
    PROVE  Handled'
<1>1. phase = "completion" /\ UNCHANGED <<request, mphase, command, motors, moved>>
  BY DEF PollCompletion, mcuVars
<1>a. Seats /\ Conversation /\ RequestInv
  BY DEF DialogInv
<1>b. /\ request \in Requests /\ Checked(request) /\ m_connected[Host]
      /\ Asks(request, "moving") /\ ~Asks(request, "version")
  <2>1. request \in Requests /\ Checked(request) /\ Asks(request, "moving") /\ m_connected[Host]
    BY <1>1, <1>a DEF RequestInv, Checked
  <2>2. ~Asks(request, "version")
    BY <2>1, OneCommand DEF Commands
  <2> QED
    BY <2>1, <2>2
<1>c. elapsed \in 0..MaxPolls /\ elapsed < MaxPolls
  <2>1. elapsed \in 0..MaxPolls
    BY TypeNow DEF HandlerType
  <2>2. elapsed < MaxPolls
    BY <1>1, <1>a DEF RequestInv
  <2> QED
    BY <2>1, <2>2
<1>d. (\A x : Len(<<x>>) = 1) /\ (\A x, y : Len(<<x, y>>) = 2 /\ <<x, y>>[2] = y) /\ Len(<<>>) = 0
  OBVIOUS
<1>e. /\ CompletionPrefix = <<Lead>>
      /\ \A result \in Results : CompletionPrefix \o <<result>> = <<Lead, result>>
  BY Frames, Places, ResultsAssumption
<1>2. CASE Abort /\ UNCHANGED elapsed
  BY <1>1, <1>2, <1>c, AbortStep
<1>3. ASSUME NEW frame, frame = Fetched(Host, 2), readData(Host, 2, frame),
             checkRXChannel(Host) >= 2, UNCHANGED elapsed, Return(Reply(Verdict(frame)))
      PROVE  Handled'
  <2>1. Live(Host)
    BY <1>3 DEF readData
  <2>2. PICK result \in Results :
            /\ moved = <<RunOf(request, result)>> /\ mphase = "loop"
            /\ holder[McuDevice] = Mcu => Up = <<>> /\ Down = <<Lead, result>>
            /\ holder[McuDevice] # Mcu => Left = <<Lead, result>>
    <3>1. CASE holder[McuDevice] = Mcu
      <4>1. Len(rx[HostDevice]) >= 2
        BY <1>1, <1>3, <3>1, BusyIsLive
      <4>2. Down # <<>>
        <5>1. rx[HostDevice] # <<>>
          BY <4>1, <1>d
        <5> QED
          BY <5>1, <1>a, Queues, SplitNone DEF Down
      <4>3. PICK result \in Results :
                /\ Standing("completion", "loop", <<>>, CompletionPrefix \o <<result>>)
                /\ moved = <<RunOf(request, result)>>
        BY <1>1, <1>a, <3>1, <4>2 DEF Conversation, Talk, Standing
      <4> QED
        BY <1>e, <3>1, <4>3 DEF Standing
    <3>2. CASE holder[McuDevice] # Mcu
      <4>1. Len(Left) >= 2
        BY <1>3, <1>a, <2>1, <3>2, LeftIs DEF checkRXChannel, FT_GetQueueStatus
      <4>2. Left # <<>> /\ Left # CompletionPrefix
        BY <4>1, <1>e, TwoOrFewer
      <4>3. PICK result \in Results :
                /\ Still("completion", "loop", {CompletionPrefix, CompletionPrefix \o <<result>>})
                /\ moved = <<RunOf(request, result)>>
        BY <1>1, <1>a, <3>2, <4>2 DEF Conversation, Silence, Still
      <4> QED
        BY <1>e, <3>2, <4>2, <4>3 DEF Still
    <3> QED
      BY <3>1, <3>2
  <2>3. frame[2] = result /\ AtRest'
    <3>1. CASE holder[McuDevice] = Mcu
      <4>1. Len(rx[HostDevice]) >= 2
        BY <1>1, <1>3, <3>1, BusyIsLive
      <4>2. Up' = <<>> /\ Down' = <<>> /\ frame[2] = result /\ UNCHANGED <<holder, m_connected>>
        BY <1>3, <1>a, <2>2, <3>1, <4>1, ReadsTwo
      <4> QED
        BY <1>1, <2>2, <3>1, <4>2 DEF AtRest
    <3>2. CASE holder[McuDevice] # Mcu
      <4>1. /\ Left' = <<>> /\ UNCHANGED <<holder, m_connected>>
            /\ frame = [i \in 1..2 |-> IF i <= Len(Left) THEN Left[i] ELSE 0]
        BY <1>3, <1>a, <3>2, ReadsTheLast
      <4>2. frame[2] = IF 2 <= Len(Left) THEN Left[2] ELSE 0
        BY <4>1
      <4>3. Left = <<Lead, result>>
        BY <2>2, <3>2
      <4>4. frame[2] = result
        BY <1>d, <4>2, <4>3
      <4> QED
        BY <1>1, <2>2, <3>2, <4>1, <4>4 DEF AtRest
    <3> QED
      BY <3>1, <3>2
  <2>4. /\ phase' = "idle"
        /\ reply'.status = (IF result = 255 THEN 0 ELSE 40513)
        /\ reply'.version = NoDevice
    BY <1>3, <2>3, ReplyIs DEF Return, Verdict
  <2>5. HandlerType'
    <3>1. reply'.status \in Int /\ reply'.version \in Byte \cup {NoDevice}
      BY <2>4
    <3>2. elapsed' = elapsed /\ request' = request
      BY <1>1, <1>3
    <3>3. elapsed' \in 0..MaxPolls /\ request' \in Requests \cup {Raw("")}
      BY <1>b, <1>c, <3>2
    <3>4. phase' \in {"idle", "version", "readiness", "data", "completion"}
      BY <2>4
    <3> QED
      BY <3>1, <3>3, <3>4, TypeNext
  <2>6. RanAsAsked /\ moved[1].result = result
    BY <1>b, <2>2, RanIs
  <2>7. Verdicts'
    <3>1. RanAsAsked' /\ moved'[1].result = result
      BY <1>1, <2>6 DEF RanAsAsked
    <3> QED
      BY <2>4, <3>1 DEF Verdicts, Succeeded, Failed
  <2>8. Idle' /\ Told'
    BY <1>1, <1>b, <2>4, <2>7 DEF Idle, Told
  <2> QED
    BY <2>3, <2>5, <2>8, Answers, PTL
<1>4. ASSUME Live(Host), checkRXChannel(Host) < 2, elapsed' = Tick, UNCHANGED ftVars,
             IF elapsed' < MaxPolls THEN WaitFor("completion") ELSE Return(Reply(40511))
      PROVE  Handled'
  <2>1. elapsed' = elapsed + 1 /\ elapsed' \in 0..MaxPolls /\ elapsed' > elapsed
    BY <1>4, <1>c, MaxPollsAssumption DEF Tick
  <2>2. LineQuiet /\ McuQuiet
    BY <1>4, <2>1 DEF HostOnTime, Bench
  <2>3. holder[McuDevice] # Mcu
    BY <1>1, <1>4, <2>2, BusyIsLive, NeverInVain
  <2>4. Len(Left) < 2 /\ mphase = "loop"
    BY <1>4, <1>a, <2>2, <2>3, LeftIs DEF McuQuiet, checkRXChannel, FT_GetQueueStatus
  <2>5. Silence /\ Left \in {<<>>, CompletionPrefix}
    <3>1. \A result \in Results : Left # CompletionPrefix \o <<result>>
      BY <1>e, <2>4, TwoOrFewer
    <3> QED
      BY <1>1, <1>a, <2>3, <2>4, <3>1 DEF Conversation, Silence, Still
  <2>6. Left' = Left /\ UNCHANGED <<holder, m_connected>>
    BY <1>4, NothingMoves
  <2>7. CASE elapsed' < MaxPolls
    <3>1. WaitFor("completion")
      BY <1>4, <2>7
    <3>2. HandlerType' /\ ~Idle' /\ phase' = "completion" /\ reply'.status = Silent
      BY <1>1, <1>b, <2>1, <3>1, WaitType
    <3>3. RequestInv'
      BY <1>1, <1>b, <2>6, <2>7, <3>2 DEF RequestInv
    <3>4. \/ Left = <<>>
          \/ \E result \in Results :
                /\ Still("completion", "loop", {CompletionPrefix, CompletionPrefix \o <<result>>})
                /\ moved = <<RunOf(request, result)>>
      BY <1>1, <2>4, <2>5 DEF Silence, Still
    <3>5. Conversation'
      <4>1. CASE Left = <<>>
        <5>1. Still("completion", "loop", {<<>>})'
          BY <1>1, <2>4, <2>6, <3>2, <4>1 DEF Still
        <5> QED
          BY <1>1, <2>3, <2>4, <2>6, <5>1 DEF Conversation, Silence
      <4>2. ASSUME NEW result \in Results,
                   Still("completion", "loop", {CompletionPrefix, CompletionPrefix \o <<result>>}),
                   moved = <<RunOf(request, result)>>
            PROVE  Conversation'
        <5>1. Still("completion", "loop", {CompletionPrefix, CompletionPrefix \o <<result>>})'
          BY <1>1, <2>6, <3>2, <4>2 DEF Still
        <5>2. moved' = <<RunOf(request', result)>>
          BY <1>1, <4>2
        <5>3. mphase' = "loop" /\ holder'[McuDevice] # Mcu
          BY <1>1, <2>3, <2>4, <2>6
        <5> QED
          BY <5>1, <5>2, <5>3 DEF Conversation, Silence
      <4> QED
        BY <3>4, <4>1, <4>2
    <3> QED
      BY <3>2, <3>3, <3>5, Waits, PTL
  <2>8. CASE ~(elapsed' < MaxPolls)
    <3>1. phase' = "idle" /\ reply'.status = 40511 /\ reply'.version = NoDevice
      BY <1>4, <2>8, ReplyIs DEF Return
    <3>2. AtRest'
      BY <1>1, <2>3, <2>4, <2>5, <2>6 DEF AtRest
    <3>3. HandlerType'
      <4>1. reply'.status \in Int /\ reply'.version \in Byte \cup {NoDevice}
        BY <3>1
      <4>2. request' \in Requests \cup {Raw("")}
        BY <1>1, <1>b
      <4>3. phase' \in {"idle", "version", "readiness", "data", "completion"}
        BY <3>1
      <4> QED
        BY <2>1, <4>1, <4>2, <4>3, TypeNext
    <3>4. Verdicts'
      BY <3>1 DEF Verdicts
    <3>5. Idle' /\ Told'
      BY <1>1, <1>b, <3>1, <3>4 DEF Idle, Told
    <3> QED
      BY <3>2, <3>3, <3>5, Answers, PTL
  <2> QED
    BY <2>7, <2>8
<1> QED
  BY <1>2, <1>3, <1>4 DEF PollCompletion, CompletionBytes

LEMMA HostStepHandled ==
    ASSUME Bench, DialogInv, HostStep
    PROVE  Handled'
BY ReadVersionStep, PollReadinessStep, WriteMotorsStep, PollCompletionStep DEF HostStep, Continue

-----------------------------------------------------------------------------
(* The worker's steps.                                                     *)

\* What a step of the worker must leave behind it.
Worked == WorkerType /\ Conversation

\* The motors are moved only for the request being handled.
Moves ==
    \/ moved' = moved
    \/ \E result \in Results :
        phase = "completion" /\ Admitted /\ moved' = <<RunOf(request, result)>>

LEMMA AppendToNothing == \A run : Append(<<>>, run) = <<run>>
OBVIOUS

LEMMA WorkerKeepsSeats ==
    ASSUME McuStep
    PROVE  UNCHANGED <<holder, m_connected>> /\ (Live(Mcu)' <=> Live(Mcu))
<1>1. \A n, frame : readData(Mcu, n, frame) => UNCHANGED <<holder, m_connected, ftHandle>>
  BY DEF readData, objectVars, driverVars
<1>2. \A frame : writeData(Mcu, frame) => UNCHANGED <<holder, m_connected, ftHandle>>
  BY DEF writeData, objectVars, driverVars
<1>3. throws(Mcu) => UNCHANGED <<holder, m_connected, ftHandle>>
  BY DEF throws, ftVars, objectVars, driverVars
<1>4. UNCHANGED <<holder, m_connected, ftHandle>>
  BY <1>1, <1>2, <1>3 DEF McuStep, WorkerLoop, ReadCommand, handleVersionCommand, RejectUnknown,
     AnswerReadiness, ReadBlock, MoveMotors, Send, McuCatch
<1> QED
  BY <1>4 DEF Live

\* The adapter is gone: whatever the worker was at, it throws and starts over.
LEMMA WorkerThrows ==
    ASSUME Bench, DialogInv, McuStep, holder[McuDevice] # Mcu
    PROVE  /\ UNCHANGED <<ftVars, phase, request>> /\ mphase' = "loop" /\ command' = 0
           /\ \/ mphase # "work" /\ moved' = moved
              \/ \E result \in Results :
                    /\ mphase = "work"
                    /\ moved' = Append(moved, [mode |-> CommandMode(command),
                                               motors |-> motors, result |-> result])
<1>1. ~Live(Mcu)
  BY Sits DEF DialogInv
<1>2. (\A n, frame : ~readData(Mcu, n, frame)) /\ (\A frame : ~writeData(Mcu, frame))
  BY <1>1 DEF readData, writeData
<1>3. UNCHANGED <<phase, request>>
  BY DEF McuStep, coreVars
<1>4. McuCatch => UNCHANGED ftVars /\ mphase' = "loop" /\ command' = 0
  BY DEF McuCatch, throws, Loop
<1>5. CASE ReadCommand \/ handleVersionCommand \/ RejectUnknown \/ AnswerReadiness \/ ReadBlock
  <2>1. McuCatch /\ mphase # "work" /\ moved' = moved
    BY <1>2, <1>5 DEF ReadCommand, handleVersionCommand, RejectUnknown, AnswerReadiness, ReadBlock, Send
  <2> QED
    BY <1>3, <1>4, <2>1
<1>6. CASE MoveMotors
  BY <1>2, <1>3, <1>4, <1>6 DEF MoveMotors, Send
<1> QED
  BY <1>5, <1>6 DEF McuStep, WorkerLoop

LEMMA LoneWorkerStep ==
    ASSUME Bench, DialogInv, McuStep, holder[McuDevice] # Mcu
    PROVE  Worked' /\ Moves
<1>1. /\ UNCHANGED <<ftVars, phase, request>> /\ mphase' = "loop" /\ command' = 0
      /\ \/ mphase # "work" /\ moved' = moved
         \/ \E result \in Results :
               /\ mphase = "work"
               /\ moved' = Append(moved, [mode |-> CommandMode(command),
                                          motors |-> motors, result |-> result])
  BY WorkerThrows
<1>2. Silence
  BY DEF DialogInv, Conversation
<1>3. WorkerType'
  BY <1>1, Places DEF WorkerType
<1>4. holder'[McuDevice] # Mcu /\ Left' = Left
  BY <1>1, NothingMoves
<1>5. CASE mphase # "work"
  <2>1. moved' = moved
    BY <1>1, <1>5
  <2>2. \/ Still("idle", "loop", {<<>>, CompletionPrefix})'
        \/ Still("version", "loop", {<<>>, <<FirmwareVersion>>, CompletionPrefix})'
        \/ Still("readiness", "loop", {<<>>, <<0>>, <<1>>, CompletionPrefix})' /\ moved' = <<>>
        \/ Still("data", "loop", {<<>>})' /\ moved' = <<>>
        \/ Still("completion", "loop", {<<>>})'
        \/ \E result \in Results :
            /\ Still("completion", "loop", {CompletionPrefix, CompletionPrefix \o <<result>>})'
            /\ moved' = <<RunOf(request, result)>>
    BY <1>1, <1>2, <1>4, <1>5, <2>1 DEF Silence, Still
  <2>3. Silence'
    <3>1. request' = request
      BY <1>1
    <3> QED
      BY <1>1, <2>2, <3>1 DEF Silence
  <2> QED
    BY <1>3, <1>4, <2>1, <2>3 DEF Worked, Moves, Conversation
<1>6. CASE mphase = "work"
  <2>1. Still("completion", "work", {<<>>}) /\ Admitted /\ motors = MotorsOf(request)
    BY <1>2, <1>6 DEF Silence, Still
  <2>2. Still("completion", "loop", {<<>>})'
    BY <1>1, <1>4, <2>1 DEF Still
  <2>3. Silence'
    BY <1>1, <2>2 DEF Silence
  <2>4. PICK result \in Results : moved' = Append(moved, [mode |-> CommandMode(command),
                                                          motors |-> motors, result |-> result])
    BY <1>1, <1>6
  <2>5. moved' = <<RunOf(request, result)>>
    BY <2>1, <2>4, AppendToNothing DEF Admitted, Announced, RunOf
  <2> QED
    BY <1>3, <1>4, <2>1, <2>3, <2>5 DEF Worked, Moves, Conversation, Still
<1> QED
  BY <1>5, <1>6

LEMMA WorkerReadsOne ==
    ASSUME Bench, Seats, NEW x, Up = <<x>>, Down = <<>>,
           Len(rx[McuDevice]) > 0, NEW frame, readData(Mcu, 1, frame)
    PROVE  Up' = <<>> /\ Down' = <<>> /\ frame[1] = x
<1>1. /\ Up' = tx[HostDevice] /\ Down' = rx[HostDevice]
      /\ frame = FT_Read(McuDevice, 1)
  BY McuReads
<1>2. rx[HostDevice] = <<>>
  BY Queues, SplitNone DEF Down
<1>3. rx[McuDevice] = <<x>> /\ tx[HostDevice] = <<>>
  <2> DEFINE a == rx[McuDevice]
             b == tx[HostDevice]
  <2>1. a \in Seq(Byte) /\ b \in Seq(Byte) /\ a \o b = <<x>>
    BY Queues DEF Up
  <2>2. a # <<>>
    <3>1. Len(<<>>) = 0
      OBVIOUS
    <3> QED
      BY <3>1
  <2> HIDE DEF a, b
  <2>3. a = <<x>> /\ b = <<>>
    BY <2>1, <2>2, SplitOne
  <2> QED
    BY <2>3 DEF a, b
<1>4. Len(<<x>>) = 1 /\ <<x>>[1] = x
  OBVIOUS
<1>5. FT_Read(McuDevice, 1)[1] = x
  BY <1>3, <1>4 DEF FT_Read
<1> QED
  BY <1>1, <1>2, <1>3, <1>5

LEMMA ReadCommandStep ==
    ASSUME Bench, DialogInv, ReadCommand, UNCHANGED <<phase, request>>, holder[McuDevice] = Mcu
    PROVE  Worked' /\ Moves
<1>1. Seats /\ Talk /\ RequestInv /\ Live(Mcu)
  BY Sits DEF DialogInv, Conversation
<1>2. PICK frame : /\ readData(Mcu, 1, frame) /\ Len(rx[McuDevice]) > 0
                   /\ command' = frame[1]
                   /\ mphase' = CASE frame[1] = VersionCommand -> "version"
                                  [] IsMotorCommand(frame[1]) -> "motor"
                                  [] OTHER -> "unknown"
  BY <1>1 DEF ReadCommand, McuCatch, throws, checkRXChannel, FT_GetQueueStatus, Seats
<1>3. mphase = "loop" /\ moved' = moved
  BY DEF ReadCommand
<1>4. holder'[McuDevice] = Mcu
  BY <1>1, <1>2, McuReads
<1>5. Up # <<>>
  <2>1. rx[McuDevice] # <<>>
    <3>1. Len(<<>>) = 0
      OBVIOUS
    <3> QED
      BY <1>2, <3>1
  <2> QED
    BY <1>1, <2>1, Queues, SplitNone DEF Up
<1>6. \/ Standing("version", "loop", <<VersionCommand>>, <<>>)
      \/ Standing("readiness", "loop", <<CommandOf(request)>>, <<>>) /\ moved = <<>>
  BY <1>1, <1>3, <1>5 DEF Talk, Standing
<1>7. CASE Standing("version", "loop", <<VersionCommand>>, <<>>)
  <2>1. Up' = <<>> /\ Down' = <<>> /\ frame[1] = VersionCommand
    BY <1>1, <1>2, <1>7, WorkerReadsOne DEF Standing
  <2>2. mphase' = "version" /\ command' = VersionCommand
    <3>1. ~IsMotorCommand(VersionCommand)
      BY DEF IsMotorCommand, CommandMode, VersionCommand, SyncCommand, AsyncCommand
    <3> QED
      BY <1>2, <2>1, <3>1
  <2>3. Standing("version", "version", <<>>, <<>>)'
    BY <1>7, <2>1, <2>2 DEF Standing
  <2>4. WorkerType'
    BY <2>2, Places DEF WorkerType, VersionCommand
  <2> QED
    BY <1>3, <1>4, <2>3, <2>4 DEF Worked, Moves, Conversation, Talk
<1>8. CASE Standing("readiness", "loop", <<CommandOf(request)>>, <<>>) /\ moved = <<>>
  <2>1. Up' = <<>> /\ Down' = <<>> /\ frame[1] = CommandOf(request)
    BY <1>1, <1>2, <1>8, WorkerReadsOne DEF Standing
  <2>2. request \in Requests /\ Checked(request)
    BY <1>1, <1>8 DEF RequestInv, Standing
  <2>3. /\ CommandOf(request) # VersionCommand /\ IsMotorCommand(CommandOf(request))
        /\ CommandOf(request) \in 0..255
    BY <2>2, CommandAsked
  <2>4. mphase' = "motor" /\ command' = CommandOf(request)
    BY <1>2, <2>1, <2>3
  <2>5. Standing("readiness", "motor", <<>>, <<>>)'
    BY <1>8, <2>1, <2>4 DEF Standing
  <2>6. Announced'
    BY <1>3, <1>8, <2>4 DEF Announced
  <2>7. WorkerType'
    BY <2>3, <2>4, Places DEF WorkerType
  <2> QED
    BY <1>3, <1>4, <2>5, <2>6, <2>7 DEF Worked, Moves, Conversation, Talk
<1> QED
  BY <1>6, <1>7, <1>8

LEMMA handleVersionStep ==
    ASSUME Bench, DialogInv, handleVersionCommand, UNCHANGED <<phase, request>>,
           holder[McuDevice] = Mcu
    PROVE  Worked' /\ Moves
<1>1. Seats /\ Talk /\ Live(Mcu)
  BY Sits DEF DialogInv, Conversation
<1>2. writeData(Mcu, <<FirmwareVersion>>) /\ Loop /\ mphase = "version" /\ moved' = moved
  BY <1>1 DEF handleVersionCommand, Send, McuCatch, throws
<1>3. Standing("version", "version", <<>>, <<>>)
  BY <1>1, <1>2 DEF Talk, Standing
<1>4. Down' = <<FirmwareVersion>> /\ Up' = Up /\ holder' = holder
  BY <1>1, <1>2, <1>3, McuWrites, FramesSent DEF Standing
<1>5. Standing("version", "loop", <<>>, <<FirmwareVersion>>)'
  BY <1>2, <1>3, <1>4 DEF Standing, Loop
<1>6. WorkerType'
  BY <1>2, Places DEF WorkerType, Loop
<1> QED
  BY <1>2, <1>4, <1>5, <1>6 DEF Worked, Moves, Conversation, Talk

LEMMA AnswerReadinessStep ==
    ASSUME Bench, DialogInv, AnswerReadiness, UNCHANGED <<phase, request>>,
           holder[McuDevice] = Mcu
    PROVE  Worked' /\ Moves
<1>1. Seats /\ Talk /\ Live(Mcu) /\ WorkerType
  BY Sits, TypeNow DEF DialogInv, Conversation
<1>2. mphase = "motor" /\ moved' = moved
  BY DEF AnswerReadiness
<1>3. Standing("readiness", "motor", <<>>, <<>>) /\ Announced
  BY <1>1, <1>2 DEF Talk, Standing
<1>4. CASE /\ validateMotorCommand(command) /\ writeData(Mcu, <<0>>)
           /\ mphase' = "block" /\ UNCHANGED <<command, motors>>
  <2>1. Down' = <<0>> /\ Up' = Up /\ holder' = holder
    BY <1>1, <1>3, <1>4, McuWrites, FramesSent DEF Standing
  <2>2. Standing("readiness", "block", <<>>, <<0>>)'
    BY <1>3, <1>4, <2>1 DEF Standing
  <2>3. Admitted'
    BY <1>2, <1>3, <1>4 DEF Admitted, Announced
  <2>4. WorkerType'
    BY <1>1, <1>4 DEF WorkerType
  <2> QED
    BY <1>2, <2>1, <2>2, <2>3, <2>4 DEF Worked, Moves, Conversation, Talk
<1>5. CASE ~validateMotorCommand(command) /\ writeData(Mcu, <<1>>) /\ Loop
  <2>1. Down' = <<1>> /\ Up' = Up /\ holder' = holder
    BY <1>1, <1>3, <1>5, McuWrites, FramesSent DEF Standing
  <2>2. Standing("readiness", "loop", <<>>, <<1>>)' /\ moved' = <<>>
    BY <1>2, <1>3, <1>5, <2>1 DEF Standing, Loop, Announced
  <2>3. WorkerType'
    BY <1>5, Places DEF WorkerType, Loop
  <2> QED
    BY <1>2, <2>1, <2>2, <2>3 DEF Worked, Moves, Conversation, Talk
<1> QED
  BY <1>1, <1>4, <1>5 DEF AnswerReadiness, Send, McuCatch, throws

\* The worker reads the whole block, or does not read yet.
LEMMA WholeBlock ==
    ASSUME Bench, DialogInv, mphase = "block", McuOnTime, holder[McuDevice] = Mcu,
           NEW frame, readData(Mcu, BlockLength, frame)
    PROVE  /\ phase = "completion" /\ frame = BlockOf(request)
           /\ Up' = <<>> /\ Down' = <<>> /\ holder' = holder
<1>1. Seats /\ Talk /\ Live(Mcu) /\ checkRXChannel(Mcu) = Len(rx[McuDevice])
  BY Sits DEF DialogInv, Conversation, checkRXChannel, FT_GetQueueStatus, Seats
<1>2. /\ request \in Requests /\ Checked(request) /\ Admitted
      /\ BlockLength = Len(BlockOf(request))
      /\ BlockLength \in 1..BufferSize
  BY BlockFits
<1>3. phase # "idle"
  BY <1>1 DEF Talk, Standing
<1>4. Len(rx[McuDevice]) < BlockLength => LineQuiet /\ phase \notin {"readiness", "data"}
  <2>1. Live(Host)
    BY <1>3, BusyIsLive
  <2> QED
    BY <1>1, <2>1 DEF McuOnTime, Bench
<1>5. Len(rx[McuDevice]) \in Nat
  BY <1>1, Queues
<1>6. phase = "completion" /\ Up = BlockOf(request) /\ Down = <<>>
  <2>1. CASE Len(rx[McuDevice]) < BlockLength
    BY <1>1, <1>4, <2>1 DEF Talk, Standing
  <2>2. CASE ~(Len(rx[McuDevice]) < BlockLength)
    <3>1. rx[McuDevice] # <<>>
      <4>1. Len(<<>>) = 0
        OBVIOUS
      <4>2. Len(rx[McuDevice]) # 0
        BY <1>2, <1>5, <2>2, BufferAssumption
      <4> QED
        BY <4>1, <4>2
    <3>2. Up # <<>>
      BY <1>1, <3>1, Queues, SplitNone DEF Up
    <3> QED
      BY <1>1, <3>2 DEF Talk, Standing
  <2> QED
    BY <2>1, <2>2
<1>7. ~(Len(rx[McuDevice]) < BlockLength)
  <2>1. SUFFICES ASSUME Len(rx[McuDevice]) < BlockLength PROVE FALSE
    OBVIOUS
  <2>2. Up = rx[McuDevice]
    BY <1>1, <1>4, <2>1, QuietIs
  <2>3. Len(rx[McuDevice]) = BlockLength
    BY <1>2, <1>6, <2>2
  <2> QED
    BY <1>5, <2>1, <2>3
<1>8. rx[McuDevice] = BlockOf(request) /\ tx[HostDevice] = <<>>
  <2> DEFINE a == rx[McuDevice]
             b == tx[HostDevice]
             n == Len(a)
             k == Len(a \o b)
  <2>1. a \in Seq(Byte) /\ b \in Seq(Byte) /\ a \o b = BlockOf(request)
    BY <1>1, <1>6, Queues DEF Up
  <2>2. Len(a \o b) = Len(a) + Len(b) /\ Len(a) \in Nat /\ Len(b) \in Nat
    <3> HIDE DEF a, b
    <3> QED
      BY <2>1, Split
  <2>3. n = k
    <3>1. ~(n < k)
      BY <1>2, <1>7, <2>1
    <3> DEFINE m == Len(b)
    <3>2. k = n + m /\ n \in Nat /\ m \in Nat
      BY <2>2
    <3> HIDE DEF n, k, m
    <3> QED
      BY <3>1, <3>2
  <2> HIDE DEF a, b
  <2>4. a = a \o b /\ b = <<>>
    BY <2>1, <2>3, SplitAll
  <2>5. a = BlockOf(request)
    BY <2>1, <2>4
  <2> QED
    BY <2>4, <2>5 DEF a, b
<1>9. rx[HostDevice] = <<>>
  BY <1>1, <1>6, Queues, SplitNone DEF Down
<1>10. /\ Up' = tx[HostDevice] /\ Down' = rx[HostDevice] /\ holder' = holder
       /\ frame = FT_Read(McuDevice, BlockLength)
  BY <1>1, McuReads
<1>11. frame = BlockOf(request)
  <2>1. FT_Read(McuDevice, BlockLength) =
            [i \in 1..BlockLength |-> IF i <= Len(BlockOf(request)) THEN BlockOf(request)[i] ELSE 0]
    BY <1>8 DEF FT_Read
  <2>2. BlockOf(request) \in Seq(Byte)
    BY <1>2, BlockAsked
  <2> DEFINE q == BlockOf(request)
             n == BlockLength
  <2>3. q \in Seq(Byte) /\ n = Len(q) /\ frame = [i \in 1..n |-> IF i <= Len(q) THEN q[i] ELSE 0]
    BY <1>2, <1>10, <2>1, <2>2
  <2> HIDE DEF q, n
  <2>4. frame = q
    <3>1. \A i \in 1..n : i <= Len(q)
      BY <2>3
    <3>2. frame = [i \in 1..n |-> q[i]]
      BY <2>3, <3>1
    <3>3. q = [i \in 1..Len(q) |-> q[i]]
      BY <2>3
    <3> QED
      BY <2>3, <3>2, <3>3
  <2> QED
    BY <2>4 DEF q
<1> QED
  BY <1>6, <1>8, <1>9, <1>10, <1>11

LEMMA ReadBlockStep ==
    ASSUME Bench, DialogInv, ReadBlock, McuOnTime, UNCHANGED <<phase, request>>,
           holder[McuDevice] = Mcu
    PROVE  Worked' /\ Moves
<1>1. Live(Mcu) /\ WorkerType
  BY Sits, TypeNow DEF DialogInv
<1>2. PICK frame : /\ readData(Mcu, BlockLength, frame)
                   /\ motors' = parseMotorData(frame, CommandCount(command))
                   /\ mphase = "block" /\ mphase' = "work" /\ command' = command /\ moved' = moved
  BY <1>1 DEF ReadBlock, McuCatch, throws
<1>3. /\ phase = "completion" /\ frame = BlockOf(request)
      /\ Up' = <<>> /\ Down' = <<>> /\ holder' = holder
  BY <1>2, WholeBlock
<1>4. Admitted
  BY <1>2, BlockFits
<1>5. Standing("completion", "work", <<>>, <<>>)'
  BY <1>2, <1>3 DEF Standing
<1>6. Admitted' /\ motors' = MotorsOf(request')
  BY <1>2, <1>3, <1>4 DEF Admitted, Announced, MotorsOf
<1>7. WorkerType'
  BY <1>1, <1>2 DEF WorkerType
<1> QED
  BY <1>2, <1>3, <1>5, <1>6, <1>7 DEF Worked, Moves, Conversation, Talk

LEMMA MoveMotorsStep ==
    ASSUME Bench, DialogInv, MoveMotors, UNCHANGED <<phase, request>>, holder[McuDevice] = Mcu
    PROVE  Worked' /\ Moves
<1>1. Seats /\ Talk /\ Live(Mcu)
  BY Sits DEF DialogInv, Conversation
<1>2. PICK result \in Results :
        /\ moved' = Append(moved, [mode |-> CommandMode(command),
                                   motors |-> motors, result |-> result])
        /\ writeData(Mcu, CompletionPrefix \o <<result>>) /\ Loop /\ mphase = "work"
  BY <1>1 DEF MoveMotors, Send, McuCatch, throws
<1>3. /\ Standing("completion", "work", <<>>, <<>>) /\ Admitted
      /\ motors = MotorsOf(request)
  BY <1>1, <1>2 DEF Talk, Standing
<1>4. moved' = <<RunOf(request, result)>>
  BY <1>2, <1>3, AppendToNothing DEF Admitted, Announced, RunOf
<1>5. Down' = CompletionPrefix \o <<result>> /\ Up' = Up /\ holder' = holder
  BY <1>1, <1>2, <1>3, McuWrites, FramesSent DEF Standing
<1>6. Standing("completion", "loop", <<>>, CompletionPrefix \o <<result>>)'
  BY <1>2, <1>3, <1>5 DEF Standing, Loop
<1>7. WorkerType'
  BY <1>2, Places DEF WorkerType, Loop
<1>8. moved' = <<RunOf(request', result)>>
  BY <1>4
<1>9. Talk'
  BY <1>6, <1>8 DEF Talk
<1> QED
  BY <1>1, <1>3, <1>4, <1>5, <1>7, <1>9 DEF Worked, Moves, Conversation, Standing

LEMMA WorkerStep ==
    ASSUME Bench, DialogInv, McuStep
    PROVE  Worked' /\ Moves
<1>1. UNCHANGED <<phase, request>> /\ McuOnTime
  BY DEF McuStep, coreVars
<1>2. CASE holder[McuDevice] # Mcu
  BY <1>2, LoneWorkerStep
<1>3. CASE holder[McuDevice] = Mcu
  <2>1. ~RejectUnknown
    BY <1>3 DEF RejectUnknown, DialogInv, Conversation, Talk, Standing
  <2> QED
    BY <1>1, <1>3, <2>1, ReadCommandStep, handleVersionStep, AnswerReadinessStep, ReadBlockStep,
       MoveMotorsStep DEF McuStep, WorkerLoop
<1> QED
  BY <1>2, <1>3

-----------------------------------------------------------------------------
(* The line's steps, and the plug's.                                       *)

\* The conversation stands where it stood.
LEMMA ConversationKept ==
    ASSUME DialogInv, UNCHANGED <<holder, phase, request, mphase, command, motors, moved>>,
           holder[McuDevice] = Mcu => Up' = Up /\ Down' = Down,
           holder[McuDevice] # Mcu => Left' = Left
    PROVE  Conversation'
<1>1. CASE holder[McuDevice] = Mcu
  <2>1. Talk /\ holder'[McuDevice] = Mcu
    BY <1>1 DEF DialogInv, Conversation
  <2>2. Talk'
    BY <1>1, <2>1 DEF Talk, Standing, Admitted, Announced
  <2> QED
    BY <2>1, <2>2 DEF Conversation
<1>2. CASE holder[McuDevice] # Mcu
  <2>1. Silence /\ holder'[McuDevice] # Mcu
    BY <1>2 DEF DialogInv, Conversation
  <2>2. Silence'
    BY <1>2, <2>1 DEF Silence, Still, Admitted, Announced
  <2> QED
    BY <2>1, <2>2 DEF Conversation
<1> QED
  BY <1>1, <1>2

\* What is on its way fits the queues it crosses.
LEMMA NothingIsLost ==
    ASSUME Bench, DialogInv, holder[McuDevice] = Mcu
    PROVE  /\ Len(Up) <= BufferSize /\ Len(Down) <= BufferSize
           /\ holder[HostDevice] = Host \/ (Up = <<>> /\ Down = <<>>)
<1>1. Talk /\ RequestInv /\ Seats
  BY DEF DialogInv, Conversation
<1>2. <<>> \in Queue
  <2>1. <<>> \in Seq(Byte) /\ Len(<<>>) = 0
    OBVIOUS
  <2> QED
    BY <2>1, BufferAssumption DEF Queue
<1>3. Up \in Queue
  <2>1. \/ Up = <<>> \/ Up = <<VersionCommand>>
        \/ Up = <<CommandOf(request)>> /\ request \in Requests /\ Checked(request)
        \/ Up = BlockOf(request) /\ request \in Requests /\ Checked(request)
    BY <1>1 DEF Talk, Standing, RequestInv
  <2> QED
    BY <1>2, <2>1, FramesSent
<1>4. Down \in Queue
  <2>1. \/ Down \in {<<>>, <<FirmwareVersion>>, <<0>>, <<1>>}
        \/ \E result \in Results : Down = CompletionPrefix \o <<result>>
    BY <1>1 DEF Talk, Standing
  <2> QED
    BY <1>2, <2>1, FramesSent
<1>5. CASE phase = "idle"
  BY <1>1, <1>3, <1>4, <1>5 DEF Talk, Standing, Queue
<1>6. CASE phase # "idle"
  BY <1>1, <1>3, <1>4, <1>6, BusyIsLive, HandlersPlace DEF Queue
<1> QED
  BY <1>5, <1>6

LEMMA LineKeeps ==
    ASSUME Bench, DialogInv, NEW d \in Devices, LineStep(d)
    PROVE  Conversation' /\ UNCHANGED <<holder, m_connected>>
<1>1. Transmit(d) /\ UNCHANGED <<phase, request, mphase, command, motors, moved>>
  BY DEF LineStep, coreVars, mcuVars
<1>2. Seats
  BY DEF DialogInv
<1>3. CASE holder[McuDevice] = Mcu
  <2>1. Up' = Up /\ Down' = Down /\ UNCHANGED <<holder, m_connected>>
    BY <1>1, <1>2, <1>3, NothingIsLost, LineCarries
  <2> QED
    BY <1>1, <1>3, <2>1, ConversationKept
<1>4. CASE holder[McuDevice] # Mcu
  <2>1. Left' = Left /\ UNCHANGED <<holder, m_connected>>
    BY <1>1, <1>2, <1>4, LineIsCut
  <2> QED
    BY <1>1, <1>4, <2>1, ConversationKept
<1> QED
  BY <1>3, <1>4

\* Pulled in whatever situation, the plug leaves one that Silence knows.
LEMMA PlugKeeps ==
    ASSUME Bench, DialogInv, NEW d \in Pluggable, Plug(d)
    PROVE  Conversation' /\ holder'[McuDevice] # Mcu /\ UNCHANGED m_connected
<1>1. /\ Unplug(McuDevice) \/ Replug(McuDevice)
      /\ UNCHANGED <<phase, request, mphase, command, motors, moved>>
  BY DEF Plug, Bench, coreVars, mcuVars
<1>2. Seats
  BY DEF DialogInv
<1>3. /\ Left' = Left /\ holder'[McuDevice] # Mcu
      /\ holder'[HostDevice] = holder[HostDevice] /\ UNCHANGED m_connected
  BY <1>1, <1>2, PlugIsPulled
<1>4. Silence'
  <2>1. CASE holder[McuDevice] # Mcu
    <3>1. Silence
      BY <2>1 DEF DialogInv, Conversation
    <3> QED
      BY <1>1, <1>3, <3>1 DEF Silence, Still, Admitted, Announced
  <2>2. CASE holder[McuDevice] = Mcu
    <3>1. Talk
      BY <2>2 DEF DialogInv, Conversation
    <3>2. mphase # "loop" => holder[HostDevice] = Host
      <4>1. mphase # "loop" => phase # "idle"
        BY <3>1 DEF Talk, Standing
      <4> QED
        BY <1>2, <2>2, <4>1, BusyIsLive, HandlersPlace
    <3>3. /\ Down = <<>> => Left = <<>>
          /\ \A x : Down = <<x>> => Left \in {<<>>, <<x>>}
      BY <1>2, LeftOfDown
    <3>4. \A result \in Results : Down = CompletionPrefix \o <<result>> =>
                Left \in {<<>>, CompletionPrefix, CompletionPrefix \o <<result>>}
      <4>1. /\ CompletionPrefix = <<Lead>>
            /\ \A result \in Results : CompletionPrefix \o <<result>> = <<Lead, result>>
        BY Frames, Places, ResultsAssumption
      <4>2. \A x, y : Down = <<x, y>> => Left \in {<<>>, <<x>>, <<x, y>>}
        BY <1>2, LeftOfDown
      <4> QED
        BY <4>1, <4>2
    <3>5. \/ Still("idle", "loop", {<<>>})
          \/ Still("version", "loop", {<<>>, <<FirmwareVersion>>})
          \/ Still("version", "version", {<<>>})
          \/ Still("readiness", "loop", {<<>>, <<1>>}) /\ moved = <<>>
          \/ Still("readiness", "motor", {<<>>}) /\ moved = <<>>
          \/ Still("readiness", "block", {<<>>, <<0>>}) /\ moved = <<>>
          \/ Still("data", "block", {<<>>}) /\ moved = <<>>
          \/ Still("completion", "block", {<<>>}) /\ moved = <<>>
          \/ Still("completion", "work", {<<>>}) /\ Admitted /\ motors = MotorsOf(request)
          \/ \E result \in Results :
                /\ Still("completion", "loop", {<<>>, CompletionPrefix, CompletionPrefix \o <<result>>})
                /\ moved = <<RunOf(request, result)>>
      BY <3>1, <3>3, <3>4 DEF Talk, Standing, Still, Admitted, Announced
    <3>6. Silence
      BY <3>2, <3>5 DEF Silence, Still
    <3> QED
      BY <1>1, <1>3, <3>6 DEF Silence, Still, Admitted, Announced
  <2> QED
    BY <2>1, <2>2
<1> QED
  BY <1>3, <1>4 DEF Conversation

-----------------------------------------------------------------------------
(* The invariant.                                                          *)

LEMMA WhoIsLive == Bench /\ Seats => (Live(Mcu) <=> holder[McuDevice] = Mcu)
BY Places DEF Seats, Live

\* What nobody but the handler writes.
LEMMA HandlerKept ==
    ASSUME Bench, DialogInv, Seats', UNCHANGED <<coreVars, m_connected>>,
           holder'[McuDevice] = Mcu => holder[McuDevice] = Mcu
    PROVE  HandlerType' /\ RequestInv' /\ VersionIsFirmwares'
<1>1. UNCHANGED <<phase, request, elapsed, reply>>
  BY DEF coreVars
<1>2. HandlerType' /\ RequestInv'
  BY <1>1, TypeNow DEF HandlerType, DialogInv, RequestInv
<1>3. Live(Mcu)' => Live(Mcu)
  <2>1. Live(Mcu) <=> holder[McuDevice] = Mcu
    BY WhoIsLive DEF DialogInv
  <2>2. Live(Mcu)' => holder'[McuDevice] = Mcu
    BY DEF Seats, Live
  <2> QED
    BY <2>1, <2>2
<1>4. VersionIsFirmwares'
  BY <1>1, <1>3 DEF VersionIsFirmwares, Answered, DialogInv
<1> QED
  BY <1>2, <1>4

LEMMA VerdictKept ==
    ASSUME DialogInv, UNCHANGED coreVars, phase = "idle" => moved' = moved
    PROVE  TrueVerdict'
<1>1. UNCHANGED <<phase, request, reply>>
  BY DEF coreVars
<1>2. CASE phase # "idle"
  <2>1. ~Answered("moving")'
    BY <1>1, <1>2 DEF Answered
  <2>2. (Answered("moving") => Verdicts)'
    BY <2>1
  <2> QED
    BY <2>2, VerdictIs, PTL
<1>3. CASE phase = "idle"
  <2>1. Answered("moving") => Verdicts
    BY VerdictIs DEF DialogInv
  <2>2. moved' = moved
    BY <1>3
  <2>3. (Answered("moving") => Verdicts)'
    BY <1>1, <2>1, <2>2 DEF Answered, Verdicts, Succeeded, Failed, RanAsAsked
  <2> QED
    BY <2>3, VerdictIs, PTL
<1> QED
  BY <1>2, <1>3

\* The last run: none, the one there was, or the one that was asked for.
LEMMA MovedIs ==
    ASSUME Bench, DialogInv, moved' = <<>> \/ Moves
    PROVE  /\ OnlyValidMotors'
           /\ moved' = <<>> \/ moved' = <<moved'[1]>>
<1>1. CASE moved' = <<>>
  <2>1. DOMAIN <<>> = {}
    OBVIOUS
  <2>2. DOMAIN moved' = {}
    BY <1>1, <2>1
  <2> QED
    BY <1>1, <2>2 DEF OnlyValidMotors
<1>2. CASE moved' = moved
  BY <1>2 DEF DialogInv, OnlyValidMotors, CountInv
<1>3. ASSUME NEW result \in Results, phase = "completion", Admitted,
             moved' = <<RunOf(request, result)>>
      PROVE  OnlyValidMotors' /\ moved' = <<moved'[1]>>
  <2>1. request \in Requests /\ Checked(request) /\ validateMotorCommand(CommandOf(request))
    BY <1>3 DEF DialogInv, RequestInv, Admitted, Announced
  <2> DEFINE run == RunOf(request, result)
  <2>2. handleMotorCommand(run.mode + Len(run.motors), run.motors) = 255
    BY <2>1, RunIsValid DEF RunOf
  <2> HIDE DEF run
  <2>3. moved' = <<run>>
    BY <1>3 DEF run
  <2>4. DOMAIN moved' = {1} /\ moved'[1] = run
    BY <2>3
  <2> QED
    BY <2>2, <2>3, <2>4 DEF OnlyValidMotors
<1> QED
  BY <1>1, <1>2, <1>3 DEF Moves

LEMMA CountIs ==
    ASSUME NEW text, Count(text), DialogInv
    PROVE  /\ successes' \in {successes, successes + 1}
           /\ reply'.status # 0 => successes' = successes
           /\ successes \in Nat /\ asked \in Nat /\ successes <= asked
<1>1. successes \in 0..asked /\ asked \in Nat
  BY DEF DialogInv, DialogTypeOK, CountInv
<1> QED
  BY <1>1 DEF Count

\* One run at a time is counted.
LEMMA RunsCounted ==
    ASSUME DialogInv, McuStep, moved' = <<>> \/ moved' = <<moved'[1]>>
    PROVE  goodRuns' \in Nat
<1> DEFINE new == {i \in DOMAIN moved' \ DOMAIN moved : moved'[i].result = 255}
<1>1. goodRuns' = goodRuns + Cardinality(new)
  BY DEF McuStep
<1>2. DOMAIN moved' \subseteq {1}
  <2>1. DOMAIN <<>> = {} /\ \A x : DOMAIN <<x>> = {1}
    OBVIOUS
  <2> QED
    BY <2>1
<1>3. new \subseteq {1}
  BY <1>2
<1> HIDE DEF new
<1>4. Cardinality(new) \in Nat
  BY <1>3, FS_EmptySet, FS_Singleton, FS_Subset, FS_CardinalityType
<1>5. goodRuns \in Nat
  BY DEF DialogInv, DialogTypeOK
<1> DEFINE c == Cardinality(new)
<1>6. goodRuns' = goodRuns + c /\ c \in Nat
  BY <1>1, <1>4
<1> HIDE DEF c
<1> QED
  BY <1>5, <1>6

Counted == goodRuns \in Nat /\ successes \in 0..asked /\ CountInv

LEMMA InvIsMade ==
    Handled /\ Worked /\ Seats /\ Counted /\ OnlyValidMotors => DialogInv
BY DEF Counted, Handled, Worked, DialogInv, DialogTypeOK, HandlerType, WorkerType, Seats, HandleInv

\* The worker's place is left alone.
LEMMA WorkerKept ==
    ASSUME DialogInv, UNCHANGED <<mphase, command>>, Conversation'
    PROVE  Worked'
BY TypeNow DEF Worked, WorkerType

LEMMA ServeKeeps ==
    ASSUME Bench, DialogInv, NEW text \in Requests, Serve(text), Seats'
    PROVE  DialogInv'
<1>1. Handled'
  BY ServeStep
<1>2. Worked'
  BY <1>1, WorkerKept DEF Serve, Handled
<1>3. moved' = <<>> /\ asked' = asked + 1 /\ goodRuns' = goodRuns /\ Count(text)
  BY DEF Serve
<1>4. OnlyValidMotors'
  BY <1>3, MovedIs
<1>5. goodRuns' \in Nat
  BY <1>3 DEF DialogInv, DialogTypeOK
<1>6. phase' # "idle" => reply'.status # 0
  BY <1>1 DEF Handled, RequestInv, Silent
<1>7. asked' \in Nat /\ successes' \in 0..asked' /\ (phase' # "idle" => successes' < asked')
  BY <1>3, <1>6, CountIs
<1>8. Counted'
  BY <1>3, <1>5, <1>7 DEF Counted, CountInv
<1> QED
  BY <1>1, <1>2, <1>4, <1>8, InvIsMade, PTL

LEMMA HostKeeps ==
    ASSUME Bench, DialogInv, HostStep, Seats'
    PROVE  DialogInv'
<1>1. Handled'
  BY HostStepHandled
<1>2. UNCHANGED <<mphase, command, moved>> /\ asked' = asked /\ goodRuns' = goodRuns /\ Count(request)
  BY DEF HostStep, mcuVars
<1>3. Worked'
  BY <1>1, <1>2, WorkerKept DEF Handled
<1>4. OnlyValidMotors' /\ (moved' = <<>> \/ moved' = <<moved'[1]>>)
  BY <1>2, MovedIs DEF Moves
<1>5. goodRuns' \in Nat
  BY <1>2 DEF DialogInv, DialogTypeOK
<1>6. phase' # "idle" => reply'.status # 0
  BY <1>1 DEF Handled, RequestInv, Silent
<1>7. phase # "idle"
  BY DEF HostStep, Continue, ReadVersion, PollReadiness, WriteMotors, PollCompletion
<1>8. successes < asked
  BY <1>7 DEF DialogInv, CountInv
<1>9. asked' \in Nat /\ successes' \in 0..asked' /\ (phase' # "idle" => successes' < asked')
  BY <1>2, <1>6, <1>8, CountIs
<1>10. OnlyValidMotors' /\ Counted'
  BY <1>4, <1>5, <1>9 DEF Counted, CountInv
<1> QED
  BY <1>1, <1>3, <1>10, InvIsMade, PTL

LEMMA McuKeeps ==
    ASSUME Bench, DialogInv, McuStep, Seats'
    PROVE  DialogInv'
<1>1. Worked' /\ Moves
  BY WorkerStep
<1>2. UNCHANGED <<coreVars, asked, successes>> /\ UNCHANGED phase
  BY DEF McuStep, coreVars
<1>3. UNCHANGED <<holder, m_connected>>
  BY WorkerKeepsSeats
<1>4. HandlerType' /\ RequestInv' /\ VersionIsFirmwares'
  BY <1>2, <1>3, HandlerKept
<1>5. TrueVerdict'
  BY <1>1, <1>2, VerdictKept DEF Moves
<1>6. Handled'
  BY <1>1, <1>4, <1>5 DEF Handled, Worked
<1>7. OnlyValidMotors' /\ (moved' = <<>> \/ moved' = <<moved'[1]>>)
  BY <1>1, MovedIs
<1>8. goodRuns' \in Nat
  BY <1>7, RunsCounted
<1>9. Worked' /\ OnlyValidMotors' /\ Counted'
  BY <1>1, <1>2, <1>7, <1>8 DEF DialogInv, DialogTypeOK, Counted, CountInv
<1> QED
  BY <1>6, <1>9, InvIsMade, PTL

\* A step of the line or of the plug touches neither side.
LEMMA OutsideKeeps ==
    ASSUME Bench, DialogInv, Conversation', Seats',
           UNCHANGED <<coreVars, mcuVars, dialogVars, m_connected>>,
           holder'[McuDevice] = Mcu => holder[McuDevice] = Mcu
    PROVE  DialogInv'
<1>1. UNCHANGED <<phase, mphase, command, moved, asked, goodRuns, successes>>
  BY DEF coreVars, mcuVars, dialogVars
<1>2. HandlerType' /\ RequestInv' /\ VersionIsFirmwares'
  BY HandlerKept
<1>3. TrueVerdict'
  BY <1>1, VerdictKept
<1>4. Handled'
  BY <1>2, <1>3 DEF Handled
<1>5. Worked'
  BY <1>1, WorkerKept
<1>6. OnlyValidMotors'
  BY <1>1, MovedIs DEF Moves
<1>7. Counted'
  BY <1>1 DEF DialogInv, DialogTypeOK, Counted, CountInv
<1> QED
  BY <1>4, <1>5, <1>6, <1>7, InvIsMade, PTL

LEMMA DialogStep ==
    ASSUME Bench, DialogInv, [DialogNext]_vars
    PROVE  DialogInv'
<1>1. Seats'
  BY SeatsKept
<1>2. ASSUME NEW text \in Requests, Serve(text) PROVE DialogInv'
  BY <1>1, <1>2, ServeKeeps
<1>3. CASE HostStep
  BY <1>1, <1>3, HostKeeps
<1>4. CASE McuStep
  BY <1>1, <1>4, McuKeeps
<1>5. ASSUME NEW d \in Devices, LineStep(d) PROVE DialogInv'
  BY <1>1, <1>5, LineKeeps, OutsideKeeps DEF LineStep
<1>6. ASSUME NEW d \in Pluggable, Plug(d) PROVE DialogInv'
  BY <1>1, <1>6, PlugKeeps, OutsideKeeps DEF Plug
<1>7. CASE UNCHANGED vars
  <2>1. UNCHANGED <<ftVars, coreVars, mcuVars, dialogVars>>
    BY <1>7 DEF vars
  <2>2. Conversation'
    BY <2>1, NothingMoves, ConversationKept DEF coreVars, mcuVars
  <2> QED
    BY <1>1, <2>1, <2>2, NothingMoves, OutsideKeeps
<1> QED
  BY <1>2, <1>3, <1>4, <1>5, <1>6, <1>7 DEF DialogNext, Rest

LEMMA DialogStart ==
    ASSUME Bench, DialogInit
    PROVE  DialogInv
<1>1. /\ \A o \in Objects : m_connected[o] <=> o = Mcu
      /\ \A o \in Objects : ftHandle[o] = IF o = Mcu THEN McuDevice ELSE NoDevice
      /\ \A o \in Objects : m_deviceId[o] = IF o = Mcu THEN McuDevice ELSE NoDevice
      /\ \A o \in Objects : m_baudrate[o] = DefaultBaud
      /\ \A d \in Devices : holder[d] = IF d = McuDevice THEN Mcu ELSE Nobody
      /\ \A d \in Devices : chipBaud[d] = DefaultBaud
      /\ \A d \in Devices : rx[d] = <<>> /\ tx[d] = <<>>
      /\ attached = Devices
  BY Places DEF DialogInit, Bench
<1>2. FtTypeOK
  <2>1. <<>> \in Seq(Byte) /\ Len(<<>>) <= BufferSize
    BY BufferAssumption
  <2>2. /\ rx \in [Devices -> Seq(Byte)] /\ tx \in [Devices -> Seq(Byte)]
        /\ \A d \in Devices : Len(rx[d]) <= BufferSize /\ Len(tx[d]) <= BufferSize
    BY <2>1 DEF DialogInit
  <2>3. /\ m_connected \in [Objects -> BOOLEAN]
        /\ m_deviceId \in [Objects -> Devices \cup {NoDevice}]
        /\ m_baudrate \in [Objects -> BaudRates]
        /\ ftHandle \in [Objects -> Devices \cup {NoDevice}]
        /\ attached \subseteq Devices
        /\ holder \in [Devices -> Objects \cup {Nobody}]
        /\ chipBaud \in [Devices -> BaudRates]
        /\ chipFormat \in [Devices -> Formats]
    BY Places, BaudAssumption DEF DialogInit, Bench
  <2> QED
    BY <2>2, <2>3 DEF FtTypeOK, DriverTypeOK
<1>3. NoLeakedHandle /\ HeldIsAttached
  BY <1>1, Places, NobodyAssumption DEF NoLeakedHandle, HeldIsAttached
<1>4. BaudInStep
  BY <1>1, Places, NobodyAssumption DEF BaudInStep, Live, getBaudRate
<1>5. Seats
  BY <1>1, <1>2, <1>3, <1>4, Places DEF Seats, HandleInv
<1>6. /\ phase = "idle" /\ request = Raw("") /\ elapsed = 0 /\ reply = Reply(Silent)
      /\ mphase = "loop" /\ command = 0 /\ moved = <<>>
      /\ asked = 0 /\ goodRuns = 0 /\ successes = 0
  BY DEF DialogInit, CoreInit, McuInit
<1>7. holder[McuDevice] = Mcu /\ Up = <<>> /\ Down = <<>>
  BY <1>1, Places, SplitNothing DEF Up, Down
<1>8. AtRest
  BY <1>6, <1>7 DEF AtRest
<1>9. HandlerType
  BY <1>6, SilentReply, NoPollsYet DEF HandlerType
<1>10. Idle /\ Told
  <2>1. reply.status = Silent
    BY <1>6, ReplyIs
  <2>2. reply.status \in {40511, Silent} /\ reply.status # 0 /\ reply.status # 40513
    BY <2>1 DEF Silent
  <2>3. Verdicts
    BY <2>2 DEF Verdicts
  <2>4. Idle
    BY <1>6 DEF Idle
  <2> QED
    BY <2>2, <2>3, <2>4 DEF Told
<1>11. Handled
  BY <1>8, <1>9, <1>10, Answers
<1>12. Worked
  <2>1. 0 \in Byte
    BY Places
  <2> QED
    BY <1>6, <1>11, <2>1 DEF Worked, WorkerType, Handled
<1>13. OnlyValidMotors
  <2>1. DOMAIN <<>> = {}
    OBVIOUS
  <2> QED
    BY <1>6, <2>1 DEF OnlyValidMotors
<1>14. Counted
  <2>1. asked = 0 /\ goodRuns = 0 /\ successes = 0
    BY DEF DialogInit
  <2>2. asked \in Nat /\ goodRuns \in Nat /\ successes \in 0..asked
    BY <2>1
  <2> QED
    BY <1>6, <2>2 DEF Counted, CountInv
<1> QED
  BY <1>5, <1>11, <1>12, <1>13, <1>14, InvIsMade

LEMMA InvHolds ==
    ASSUME Bench
    PROVE  DialogSafety => []DialogInv
<1>1. DialogInit => DialogInv
  BY DialogStart
<1>2. DialogInv /\ [DialogNext]_vars => DialogInv'
  BY DialogStep
<1> QED
  BY <1>1, <1>2, PTL DEF DialogSafety

-----------------------------------------------------------------------------
(* Counting.                                                               *)

(***************************************************************************)
(* A successful run is counted before the reply that reports it: while     *)
(* that reply is out, there is one run more than there are replies.        *)
(***************************************************************************)
FairCount ==
    /\ successes <= goodRuns
    /\ phase # "idle" /\ moved # <<>> /\ moved[1].result = 255 => successes < goodRuns

Reported == Asks(request, "moving") /\ reply.status = 0
Paid     == phase = "idle" /\ Len(moved) = 1 /\ moved[1].result = 255

LEMMA PaidReply == DialogInv /\ Reported => Paid
<1> SUFFICES ASSUME DialogInv, Reported PROVE Paid
  OBVIOUS
<1>1. phase = "idle"
  BY DEF DialogInv, RequestInv, Silent, Reported
<1>2. Verdicts
  BY <1>1, VerdictIs DEF DialogInv, Answered, Reported
<1> QED
  BY <1>1, <1>2 DEF Verdicts, Succeeded, RanAsAsked, Reported, Paid

LEMMA HandlerCounts ==
    ASSUME NEW text, DialogInv, DialogInv', FairCount, Count(text), request' = text,
           goodRuns' = goodRuns,
           moved' = <<>> \/ (moved' = moved /\ phase # "idle")
    PROVE  FairCount'
<1>1. /\ successes' \in {successes, successes + 1} /\ successes \in Nat
      /\ goodRuns \in Nat
  BY CountIs DEF DialogInv, DialogTypeOK
<1>2. CASE Asks(text, "moving") /\ reply'.status = 0
  <2>1. phase' = "idle" /\ Len(moved') = 1 /\ moved'[1].result = 255
    <3>1. Reported'
      BY <1>2 DEF Reported
    <3>2. Paid'
      BY <3>1, PaidReply, PTL
    <3> QED
      BY <3>2 DEF Paid
  <2>2. moved' # <<>>
    <3>1. Len(<<>>) = 0
      OBVIOUS
    <3> QED
      BY <2>1, <3>1
  <2>3. successes < goodRuns
    BY <2>1, <2>2 DEF FairCount
  <2> QED
    BY <1>1, <2>1, <2>3 DEF FairCount
<1>3. CASE ~(Asks(text, "moving") /\ reply'.status = 0)
  <2>1. successes' = successes
    BY <1>1, <1>3 DEF Count
  <2> QED
    BY <2>1 DEF FairCount
<1> QED
  BY <1>2, <1>3

LEMMA WorkerCounts ==
    ASSUME Bench, DialogInv, FairCount, McuStep
    PROVE  FairCount'
<1> DEFINE new == {i \in DOMAIN moved' \ DOMAIN moved : moved'[i].result = 255}
           c == Cardinality(new)
<1>1. goodRuns' = goodRuns + c /\ UNCHANGED <<successes, phase>>
  BY DEF McuStep, coreVars
<1>2. Moves
  BY WorkerStep
<1>3. goodRuns \in Nat /\ successes \in Nat
  <2>1. goodRuns \in Nat /\ successes \in 0..asked /\ asked \in Nat
    BY DEF DialogInv, DialogTypeOK, CountInv
  <2> QED
    BY <2>1
<1>4. Cardinality({}) = 0 /\ Cardinality({1}) = 1
  BY FS_EmptySet, FS_Singleton
<1>5. CASE moved' = moved
  <2>1. new = {}
    BY <1>5
  <2>2. c = 0
    BY <1>4, <2>1
  <2> HIDE DEF c
  <2> QED
    BY <1>1, <1>3, <1>5, <2>2 DEF FairCount
<1>6. ASSUME NEW result \in Results, Admitted, moved' = <<RunOf(request, result)>>
      PROVE  FairCount'
  <2>1. DOMAIN moved = {} /\ DOMAIN moved' = {1} /\ moved'[1] = RunOf(request, result)
    <3>1. DOMAIN <<>> = {} /\ \A x : DOMAIN <<x>> = {1} /\ <<x>>[1] = x
      OBVIOUS
    <3> QED
      BY <1>6, <3>1 DEF Admitted, Announced
  <2>2. moved'[1].result = result
    BY <2>1 DEF RunOf
  <2>3. CASE result = 255
    <3>1. new = {1}
      BY <2>1, <2>2, <2>3
    <3>2. c = 1
      BY <1>4, <3>1
    <3> HIDE DEF c
    <3> QED
      BY <1>1, <1>3, <3>2 DEF FairCount
  <2>4. CASE result # 255
    <3>1. new = {}
      BY <2>1, <2>2, <2>4
    <3>2. c = 0
      BY <1>4, <3>1
    <3> HIDE DEF c
    <3> QED
      BY <1>1, <1>3, <2>2, <2>4, <3>2 DEF FairCount
  <2> QED
    BY <2>3, <2>4
<1> QED
  BY <1>2, <1>5, <1>6 DEF Moves

LEMMA FairStep ==
    ASSUME Bench, DialogInv, DialogInv', FairCount, [DialogNext]_vars
    PROVE  FairCount'
<1>1. ASSUME NEW text \in Requests, Serve(text) PROVE FairCount'
  <2>1. request' = text /\ Count(text) /\ goodRuns' = goodRuns /\ moved' = <<>>
    BY <1>1 DEF Serve, Process, Refuse, IgnoreUnknown, listconnect, version, moving, reconnect,
       DisconnectModule, Accept, Take
  <2> QED
    BY <2>1, HandlerCounts
<1>2. CASE HostStep
  <2>1. /\ request' = request /\ Count(request) /\ goodRuns' = goodRuns /\ moved' = moved
        /\ phase # "idle"
    BY <1>2 DEF HostStep, mcuVars, Continue, ReadVersion, PollReadiness, WriteMotors, PollCompletion
  <2> QED
    BY <2>1, HandlerCounts
<1>3. CASE McuStep
  BY <1>3, WorkerCounts
<1>4. CASE UNCHANGED <<coreVars, mcuVars, dialogVars>>
  BY <1>4 DEF FairCount, coreVars, mcuVars, dialogVars
<1> QED
  BY <1>1, <1>2, <1>3, <1>4 DEF DialogNext, LineStep, Plug, Rest, vars

-----------------------------------------------------------------------------
(* What the dialog promises on the bench.                                  *)

(***************************************************************************)
(* Every field of the adapters, the handler and the controller keeps its   *)
(* range, whatever the clients write in their requests.                    *)
(***************************************************************************)
THEOREM DialogTyped ==
    ASSUME Bench
    PROVE  DialogSafety => []DialogTypeOK
<1>1. DialogInv => DialogTypeOK
  BY DEF DialogInv
<1> QED
  BY <1>1, InvHolds, PTL

(***************************************************************************)
(* The reply to a moving request (user_core.cpp 396-424) tells what the    *)
(* motors did: status 0 that exactly the motors of the text ran, once, in  *)
(* its mode and well; 40513 that they ran once and failed; a refusal or    *)
(* 40512 that nothing moved - for any texts, any number of requests, any   *)
(* patience of at least one poll and even if the controller's adapter is   *)
(* pulled at any moment.                                                   *)
(***************************************************************************)
THEOREM VerdictsAreTrue ==
    ASSUME Bench
    PROVE  DialogSafety => []TrueVerdict
<1>1. DialogInv => TrueVerdict
  BY DEF DialogInv
<1> QED
  BY <1>1, InvHolds, PTL

(***************************************************************************)
(* No run starts but the one whose outcome the handler is waiting for: no  *)
(* leftover byte, purge or cut-short block is ever taken for a command to  *)
(* move motors (mock_mcu.cpp's worker against user_core.cpp's exchange).   *)
(***************************************************************************)
THEOREM NoRunUnasked ==
    ASSUME Bench
    PROVE  DialogSafety => []NoPhantomRun
<1>1. ASSUME DialogInv PROVE NoPhantomRun
  <2>1. SUFFICES ASSUME mphase = "work"
                 PROVE  phase = "completion" /\ IsRunOf(CommandMode(command), motors, request)
    BY DEF NoPhantomRun
  <2>2. phase = "completion" /\ Admitted /\ motors = MotorsOf(request)
    BY <1>1, <2>1 DEF DialogInv, Conversation, Talk, Standing, Silence, Still
  <2>3. request \in Requests /\ Checked(request)
    BY <1>1, <2>2 DEF DialogInv, RequestInv
  <2>4. IsRunOf(CommandMode(CommandOf(request)), MotorsOf(request), request)
    BY <2>3, RunAsked
  <2> QED
    BY <2>2, <2>4 DEF Admitted, Announced
<1> QED
  BY <1>1, InvHolds, PTL

(***************************************************************************)
(* A version reported with status 0 is the firmware's (user_core.cpp       *)
(* 253-266 reads one byte, whichever it is) unless the controller's        *)
(* adapter was pulled.                                                     *)
(***************************************************************************)
THEOREM VersionsAreTrue ==
    ASSUME Bench
    PROVE  DialogSafety => []VersionIsFirmwares
<1>1. DialogInv => VersionIsFirmwares
  BY DEF DialogInv
<1> QED
  BY <1>1, InvHolds, PTL

(***************************************************************************)
(* Whatever was run would have passed the checks of the firmware's own     *)
(* library (protocol_handler.cpp 12-40), which nobody calls: the service's *)
(* checks, made before the conversion to bytes, are enough.                *)
(***************************************************************************)
THEOREM RunsAreValid ==
    ASSUME Bench
    PROVE  DialogSafety => []OnlyValidMotors
<1>1. DialogInv => OnlyValidMotors
  BY DEF DialogInv
<1> QED
  BY <1>1, InvHolds, PTL

(***************************************************************************)
(* On the bench no run is counted twice: successful replies never          *)
(* outnumber the successful runs.                                          *)
(***************************************************************************)
THEOREM SuccessesArePaid ==
    ASSUME Bench
    PROVE  DialogSafety => []NoFreeSuccess
<1>1. DialogInit => FairCount
  <2>1. DialogInit => successes = 0 /\ goodRuns = 0
    BY DEF DialogInit
  <2>2. DialogInit => phase = "idle"
    BY DEF DialogInit, CoreInit
  <2> QED
    BY <2>1, <2>2 DEF FairCount
<1>2. DialogInv /\ DialogInv' /\ FairCount /\ [DialogNext]_vars => FairCount'
  BY FairStep
<1>3. FairCount => NoFreeSuccess
  BY DEF FairCount, NoFreeSuccess
<1> QED
  BY <1>1, <1>2, <1>3, InvHolds, PTL DEF DialogSafety

=============================================================================

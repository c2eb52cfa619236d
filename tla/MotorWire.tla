----------------------------- MODULE MotorWire -----------------------------
(***************************************************************************)
(* What travels between the service and the motor controller: the command  *)
(* byte and the block of motor parameters, as UserCore::moving writes them *)
(* (source/core/user_core.cpp) and as ProtocolHandler reads them           *)
(* (mock-mcu/src/protocol_handler.cpp).  Bytes are the integers 0..255.    *)
(***************************************************************************)
EXTENDS Integers, Sequences

CONSTANT ParamBytes   \* sizeof(uint32_t): 4 in the code

ASSUME ParamBytesAssumption == ParamBytes \in Nat \ {0}

VersionCommand == 32            \* 0x20
SyncCommand    == 128           \* 0x80
AsyncCommand   == 64            \* 0x40
Modes == {"synchronous", "asynchronous"}

\* mms::MotorsSettings carries a sequence of these.
Motor(number, acceleration, maxSpeed, step) ==
    [number |-> number, acceleration |-> acceleration,
     maxSpeed |-> maxSpeed, step |-> step]

\* A count over 15 would spill into the mode's half of the byte (| is +
\* below 16); checkMotors lets at most 10 through.
CommandByte(mode, count) ==
    count + IF mode = "synchronous" THEN SyncCommand ELSE AsyncCommand

CommandMode(byte)  == (byte \div 16) * 16
CommandCount(byte) == byte % 16

IsMotorCommand(byte) == CommandMode(byte) \in {SyncCommand, AsyncCommand}

\* The firmware library's checks.  The mock's worker uses only the first of
\* them: what handleMotorCommand would say of a block, nobody asks.
validateMotorCommand(byte) == IsMotorCommand(byte) /\ CommandCount(byte) \in 1..10

validateMotorParameters(m) == m.number \in 1..10 /\ m.acceleration # 0 /\ m.maxSpeed # 0

simulateSingleMotorProcessing(m) ==
    IF m.number \notin 1..10 THEN 1
    ELSE IF m.acceleration = 0 THEN 3
    ELSE IF m.maxSpeed = 0 THEN 2
    ELSE 255

\* The verdict on a command: 255, or the first motor's error.
handleMotorCommand(byte, motors) ==
    LET failed == {i \in DOMAIN motors : simulateSingleMotorProcessing(motors[i]) # 255}
    IN  IF ~validateMotorCommand(byte) THEN 1
        ELSE IF \E i \in DOMAIN motors : ~validateMotorParameters(motors[i]) THEN 5
        ELSE IF failed = {} THEN 255
        ELSE simulateSingleMotorProcessing(
                motors[CHOOSE i \in failed : \A j \in failed : i <= j])

-----------------------------------------------------------------------------
(* The block: four little-endian words a motor, one motor after another.   *)

\* What a byte is worth at a place of a word.
Weight[k \in 0..ParamBytes] == IF k = 0 THEN 1 ELSE 256 * Weight[k - 1]

Span == Weight[ParamBytes]
MotorBytes == 4 * ParamBytes

\* static_cast<uint32_t> and static_cast<int32_t>
Unsigned(v) == v % Span
Signed(v)   == IF 2 * v >= Span THEN v - Span ELSE v

ByteOf(v, k) == (Unsigned(v) \div Weight[k]) % 256

\* Mutant: three words a motor, the step is forgotten.
EncodeMotorsNoStep(motors) ==
    LET word(m, w) == <<m.number, m.acceleration, m.maxSpeed>>[w + 1]
    IN  [i \in 1..Len(motors) * 3 * ParamBytes |->
            LET k == i - 1
            IN  ByteOf(word(motors[k \div (3 * ParamBytes) + 1], (k \div ParamBytes) % 3),
                       k % ParamBytes)]

EncodeMotors(motors) ==
    LET word(m, w) == <<m.number, m.acceleration, m.maxSpeed, m.step>>[w + 1]
    IN  [i \in 1..Len(motors) * MotorBytes |->
            LET k == i - 1
            IN  ByteOf(word(motors[k \div MotorBytes + 1], (k \div ParamBytes) % 4),
                       k % ParamBytes)]

WordAt(data, w) ==
    LET upTo[k \in 0..ParamBytes] ==
            IF k = 0 THEN 0
                     ELSE upTo[k - 1] + data[w * ParamBytes + k] * Weight[k - 1]
    IN  upTo[ParamBytes]

parseMotorData(data, count) ==
    [i \in 1..count |->
        LET first == 4 * (i - 1)
        IN  Motor(WordAt(data, first), WordAt(data, first + 1),
                  WordAt(data, first + 2), Signed(WordAt(data, first + 3)))]
=============================================================================

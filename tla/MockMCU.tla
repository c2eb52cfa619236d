------------------------------ MODULE MockMCU ------------------------------
(***************************************************************************)
(* The motor controller, as the repository's mock implements it            *)
(* (mock-mcu/src/mock_mcu.cpp): the worker thread reads one command byte,  *)
(* and for a motor command answers its readiness, reads the motors' block, *)
(* moves the motors and sends a verdict.  It uses its own FT232RL object.  *)
(* The loop swallows every exception and starts over.                      *)
(*                                                                         *)
(* CompletionPrefix is what precedes the verdict: the mock sends nothing   *)
(* (<<>>); user_core.cpp is written for a firmware that sends one byte     *)
(* there.  Results is what the motors may report: always 0xFF in the mock. *)
(***************************************************************************)
EXTENDS FT232RL, MotorWire

CONSTANTS Mcu, CompletionPrefix, Results

ASSUME McuAssumption == Mcu \in Objects
ASSUME ResultsAssumption == Results \subseteq 0..255

VARIABLES
    mphase,   \* where the worker thread stands
    command,  \* the command byte being handled
    motors,   \* the motors parsed from the block
    moved     \* the runs performed lately: their mode, motors and result

mcuVars == <<mphase, command, motors, moved>>

FirmwareVersion == 18     \* 0x12

McuInit ==
    /\ mphase = "loop"
    /\ command = 0
    /\ motors = <<>>
    /\ moved = <<>>

\* Back to the top of the loop; the handler's locals are gone.
Loop == mphase' = "loop" /\ command' = 0 /\ motors' = <<>>

\* catch in workerLoop: count the error and go on.
McuCatch == throws(Mcu) /\ Loop

Send(bytes) == writeData(Mcu, bytes) /\ Loop

\* readData(1) also purges whatever followed the command byte.
ReadCommand ==
    /\ mphase = "loop"
    /\ \/ /\ Live(Mcu) /\ checkRXChannel(Mcu) > 0
          /\ \E frame \in {Fetched(Mcu, 1)} :
                /\ readData(Mcu, 1, frame)
                /\ command' = frame[1]
                /\ mphase' = CASE frame[1] = VersionCommand -> "version"
                               [] IsMotorCommand(frame[1]) -> "motor"
                               [] OTHER -> "unknown"
          /\ UNCHANGED motors
       \/ McuCatch
    /\ UNCHANGED moved

handleVersionCommand ==
    /\ mphase = "version"
    /\ Send(<<FirmwareVersion>>) \/ McuCatch
    /\ UNCHANGED moved

RejectUnknown ==
    /\ mphase = "unknown"
    /\ Send(<<10>>) \/ McuCatch
    /\ UNCHANGED moved

\* sendReadinessResponse: 0x00 and go on, 0x01 for a bad count.
AnswerReadiness ==
    /\ mphase = "motor"
    /\ \/ /\ validateMotorCommand(command)
          /\ writeData(Mcu, <<0>>)
          /\ mphase' = "block"
          /\ UNCHANGED <<command, motors>>
       \/ /\ ~validateMotorCommand(command)
          /\ Send(<<1>>)
       \/ McuCatch
    /\ UNCHANGED moved

BlockLength == CommandCount(command) * MotorBytes

\* The block as far as it came within FT_Read's timeout, zeros for the rest.
ReadBlock ==
    /\ mphase = "block"
    /\ \/ /\ Live(Mcu)
          /\ \E frame \in {Fetched(Mcu, BlockLength)} :
                /\ readData(Mcu, BlockLength, frame)
                /\ motors' = parseMotorData(frame, CommandCount(command))
          /\ mphase' = "work"
          /\ UNCHANGED command
       \/ McuCatch
    /\ UNCHANGED moved

\* simulateMotorProcessing and sendExecutionResponse.
MoveMotors ==
    /\ mphase = "work"
    /\ \E result \in Results :
        /\ moved' = Append(moved, [mode |-> CommandMode(command),
                                   motors |-> motors, result |-> result])
        /\ Send(CompletionPrefix \o <<result>>) \/ McuCatch

WorkerLoop ==
    \/ ReadCommand \/ handleVersionCommand \/ RejectUnknown
    \/ AnswerReadiness \/ ReadBlock \/ MoveMotors
=============================================================================

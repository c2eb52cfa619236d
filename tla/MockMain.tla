------------------------------ MODULE MockMain ------------------------------
(***************************************************************************)
(* The life of the mock controller's process (mock-mcu/src/main.cpp,       *)
(* mock_mcu.cpp): main reads its arguments, opens the adapter, starts the  *)
(* worker, prints statistics and stops; SIGINT and SIGTERM, each of which  *)
(* is blocked while its own handler runs, call stop() on whatever thread   *)
(* they are delivered to, in the middle of whatever it does.               *)
(*                                                                         *)
(* A signal that hits a thread inside an allocation or an output stream    *)
(* may also hang it there; that is not modelled.                           *)
(***************************************************************************)
EXTENDS MockMCU

CONSTANTS
    CommandLines,   \* the argument vectors main may get, without argv[0]
    Stoi,           \* string -> the number std::stoi reads from its beginning
    McuBaud,        \* 9600, mock_mcu.cpp:35
    McuFormat,      \* eight bits, one stop bit, no parity
    Incoming,       \* bytes that may arrive from the other end
    MaxIncoming,    \* how many of them (a bound of the model)
    MaxSignals,     \* SIGINT and SIGTERM: 2
    MaxErrors       \* errors are counted up to this (a bound of the model)

ASSUME McuBaudAssumption == McuBaud \in BaudRates
ASSUME McuFormatAssumption == McuFormat \in Formats

VARIABLES
    pc,            \* main: the next thing it does
    options,       \* what parsing the arguments gave
    g_running,
    created,       \* g_mockMCU is set
    m_initialized,
    m_running,
    frames,        \* calls of stop() on main's stack: its own, the handlers'
    worker,        \* the worker thread: "none", "test", "work", "finished"
    joinable,      \* m_workerThread.joinable()
    stats,         \* m_statistics
    printed,       \* the final statistics, once printed
    signals,       \* how many signals were raised
    hits,          \* what they hit
    arrived        \* bytes that came in so far

runVars  == <<g_running, created, m_initialized, m_running>>
lifeVars == <<pc, options, runVars, frames, worker, joinable, stats, printed, signals, hits>>
vars     == <<ftVars, mcuVars, lifeVars, arrived>>

-----------------------------------------------------------------------------
(* The command line.                                                       *)

Exit(code) == [run |-> FALSE, code |-> code, device |-> 1, stats |-> FALSE]

\* The arguments from the i-th on, given what the ones before it set: the
\* first that ends the program does so, the last -d counts.
parseArgs(args) ==
    LET from[i \in 1..Len(args) + 1, device \in {1} \cup {Stoi[s] : s \in DOMAIN Stoi},
             show \in BOOLEAN] ==
            IF i > Len(args)
            THEN [run |-> TRUE, code |-> 0, device |-> device, stats |-> show]
            ELSE CASE args[i] \in {"-h", "--help"} -> Exit(0)
                   [] args[i] \in {"-d", "--device"} ->
                        IF i = Len(args) \/ args[i + 1] \notin DOMAIN Stoi THEN Exit(1)
                        ELSE from[i + 2, Stoi[args[i + 1]], show]
                   [] args[i] \in {"-v", "--verbose"} -> from[i + 1, device, show]
                   [] args[i] \in {"-s", "--stats"} -> from[i + 1, device, TRUE]
                   [] OTHER -> Exit(1)
    IN  from[1, 1, FALSE]

-----------------------------------------------------------------------------
(* Main, between signals.                                                  *)

Zero == [commandsReceived |-> 0, commandsProcessed |-> 0, errorsOccurred |-> 0,
         versionRequests |-> 0, motorCommands |-> 0]

Init ==
    /\ FtInit /\ McuInit
    /\ pc = "args"
    /\ options \in {parseArgs(args) : args \in CommandLines}
    /\ g_running = TRUE /\ created = FALSE
    /\ m_initialized = FALSE /\ m_running = FALSE
    /\ frames = <<>>
    /\ worker = "none" /\ joinable = FALSE
    /\ stats = Zero /\ printed = <<>>
    /\ signals = 0 /\ hits = {}
    /\ arrived = 0

Go(from, to) == frames = <<>> /\ pc = from /\ pc' = to

ParseArgs ==
    /\ Go("args", IF options.run THEN "create" ELSE "return")
    /\ UNCHANGED <<ftVars, mcuVars, options, runVars, frames, worker, joinable, stats, printed, signals, hits>>

Create ==
    /\ Go("create", "connect")
    /\ created' = TRUE
    /\ UNCHANGED <<ftVars, mcuVars, options, g_running, m_initialized, m_running,
                   frames, worker, joinable, stats, printed, signals, hits>>

\* initialize: a refused connect, or any exception, makes main return 1.
Initialize ==
    /\ \/ Go("connect", "baud") /\ connectOpens(Mcu, options.device)
       \/ Go("connect", "return") /\ connectRefused(Mcu, options.device)
       \/ Go("connect", "return") /\ connectThrows(Mcu, options.device)
       \/ Go("baud", "usb") /\ setBaudRate(Mcu, McuBaud)
       \/ Go("usb", "chars") /\ setUSBParameters(Mcu)
       \/ Go("chars", "start") /\ setCharacteristics(Mcu, McuFormat)
       \/ \E step \in {"baud", "usb", "chars"} : Go(step, "return") /\ throws(Mcu)
    /\ m_initialized' = (pc' = "start")
    /\ UNCHANGED <<mcuVars, options, g_running, created, m_running,
                   frames, worker, joinable, stats, printed, signals, hits>>

\* start: the flag, then the thread, then its handle moved into the member.
Start ==
    /\ \/ /\ Go("start", "spawn")
          /\ m_running' = TRUE
          /\ UNCHANGED <<worker, joinable>>
       \/ /\ Go("spawn", "assign")
          /\ worker' = "test"
          /\ UNCHANGED <<m_running, joinable>>
       \/ /\ Go("assign", "loop")
          /\ joinable' = TRUE
          /\ UNCHANGED <<m_running, worker>>
    /\ UNCHANGED <<ftVars, mcuVars, options, g_running, created, m_initialized,
                   frames, stats, printed, signals, hits>>

\* The statistics are copied under their mutex: at "counting" and
\* "lastCounting" main holds it.
MainLoop ==
    /\ \/ /\ g_running /\ m_running /\ options.stats
          /\ Go("loop", "counting")
       \/ Go("counting", "loop")
       \/ /\ ~(g_running /\ m_running)
          /\ Go("loop", "lastCounting")
    /\ UNCHANGED <<ftVars, mcuVars, options, runVars, frames, worker, joinable, stats, printed, signals, hits>>

\* Only what is printed last is remembered.
printStatistics(counts) == printed' = <<counts>>

PrintFinal ==
    /\ Go("lastCounting", "stopping")
    /\ printStatistics(stats)
    /\ UNCHANGED <<ftVars, mcuVars, options, runVars, frames, worker, joinable, stats, signals, hits>>

CallStop ==
    /\ Go("stopping", "return")
    /\ frames' = <<"test">>
    /\ UNCHANGED <<ftVars, mcuVars, options, runVars, worker, joinable, stats, printed, signals, hits>>

\* The destructors: ~MockMCU's stop() finds nothing running; a thread that is
\* still joinable ends the program; ~FT232RL disconnects.
Return ==
    /\ frames = <<>> /\ pc = "return"
    /\ IF joinable THEN pc' = "aborted" /\ UNCHANGED ftVars
                   ELSE pc' = "exited" /\ disconnect(Mcu)
    /\ created' = FALSE
    /\ UNCHANGED <<mcuVars, options, g_running, m_initialized, m_running, frames,
                   worker, joinable, stats, printed, signals, hits>>

-----------------------------------------------------------------------------
(* stop(), innermost call first.                                           *)

InStop(step) == frames # <<>> /\ Head(frames) = step /\ pc # "aborted"
NextInStop(step) == frames' = <<step>> \o Tail(frames)

TestRunning ==
    /\ InStop("test")
    /\ IF m_running THEN NextInStop("flag") ELSE frames' = Tail(frames)
    /\ UNCHANGED <<ftVars, runVars, joinable>>

\* Mutant: the flag is left up.
ClearNothing ==
    /\ InStop("flag")
    /\ NextInStop("join")
    /\ UNCHANGED <<ftVars, runVars, joinable>>

ClearRunning ==
    /\ InStop("flag")
    /\ m_running' = FALSE
    /\ NextInStop("join")
    /\ UNCHANGED <<ftVars, g_running, created, m_initialized, joinable>>

\* Mutants: a worker that has finished is not joined; a working one is not
\* waited for.
JoinUnlessFinished ==
    /\ InStop("join")
    /\ joinable => worker = "finished"
    /\ NextInStop("disconnect")
    /\ UNCHANGED <<ftVars, runVars, joinable>>
JoinLater ==
    /\ InStop("join")
    /\ joinable' = FALSE
    /\ NextInStop("disconnect")
    /\ UNCHANGED <<ftVars, runVars>>

Join ==
    /\ InStop("join")
    /\ joinable => worker = "finished"
    /\ joinable' = FALSE
    /\ NextInStop("disconnect")
    /\ UNCHANGED <<ftVars, runVars>>

Disconnect ==
    /\ InStop("disconnect")
    /\ disconnect(Mcu)
    /\ frames' = Tail(frames)
    /\ UNCHANGED <<runVars, joinable>>

stop ==
    /\ TestRunning \/ ClearRunning \/ Join \/ Disconnect
    /\ UNCHANGED <<mcuVars, pc, options, worker, stats, printed, signals, hits>>

-----------------------------------------------------------------------------
(* Signals.                                                                *)

Alive == pc \notin {"exited", "aborted"}

\* The part of the program main was in when the signal came.
Part ==
    CASE frames # <<>> -> "stop"
      [] frames = <<>> /\ pc \in {"spawn", "assign"} -> "start"
      [] frames = <<>> /\ pc \in {"counting", "lastCounting"} -> "counting"
      [] frames = <<>> /\ pc = "loop" -> "loop"
      [] OTHER -> "other"

Hit(where) ==
    /\ Alive /\ signals < MaxSignals
    /\ signals' = signals + 1
    /\ hits' = hits \cup {where}
    /\ g_running' = FALSE
    /\ UNCHANGED <<mcuVars, options, created, m_initialized, stats, printed>>

\* On main the handler's call of stop() comes on top of what main is doing.
HitsMain ==
    /\ Hit(Part)
    /\ frames' = IF created THEN <<"test">> \o frames ELSE frames
    /\ UNCHANGED <<ftVars, pc, m_running, worker, joinable>>

\* On the worker stop() joins its own thread: std::system_error, thrown out of
\* a signal handler, ends the program or reaches the loop's catch.
HitsWorker ==
    /\ worker \in {"test", "work"}
    /\ Hit("worker")
    /\ m_running' = FALSE
    /\ IF m_running /\ ~joinable THEN disconnect(Mcu) ELSE UNCHANGED ftVars
    /\ pc' \in IF m_running /\ joinable THEN {pc, "aborted"} ELSE {pc}
    /\ UNCHANGED <<frames, worker, joinable>>

-----------------------------------------------------------------------------
(* The worker.                                                             *)

StatsFree == pc \notin {"counting", "lastCounting"}

\* One call of the adapter, with the counters it is followed or preceded by.
Counted(fields) ==
    /\ fields # {} => StatsFree
    /\ stats' = [f \in DOMAIN stats |->
            IF f \in fields /\ ~(f = "errorsOccurred" /\ stats[f] = MaxErrors)
            THEN stats[f] + 1 ELSE stats[f]]

Failed == IF Live(Mcu) THEN {} ELSE {"errorsOccurred"}
Unless(fields) == IF Live(Mcu) THEN fields ELSE {}

LoopTest ==
    /\ worker = "test"
    /\ worker' = IF m_running THEN "work" ELSE "finished"
    /\ UNCHANGED <<ftVars, mcuVars, stats>>

IdlePoll ==
    /\ mphase = "loop" /\ Live(Mcu) /\ checkRXChannel(Mcu) = 0
    /\ UNCHANGED <<ftVars, mcuVars, stats>>

WorkerStep ==
    /\ worker = "work"
    /\ \/ IdlePoll
       \/ ReadCommand /\ Counted(Unless({"commandsReceived"}) \cup Failed)
       \/ handleVersionCommand /\ Counted({"versionRequests"} \cup Failed)
       \/ RejectUnknown /\ Counted(Failed)
       \/ AnswerReadiness /\ Counted({"motorCommands"} \cup Failed)
       \/ ReadBlock /\ Counted(Failed)
       \/ MoveMotors /\ Counted(Unless({"commandsProcessed"}) \cup Failed)
    /\ worker' = IF mphase' = "loop" THEN "test" ELSE "work"

Worker ==
    /\ Alive
    /\ LoopTest \/ WorkerStep
    /\ UNCHANGED <<pc, options, runVars, frames, joinable, printed, signals, hits>>

-----------------------------------------------------------------------------

Main ==
    \/ ParseArgs \/ Create \/ Initialize \/ Start
    \/ MainLoop \/ PrintFinal \/ CallStop \/ Return
    \/ stop

\* A byte from the other end.
Arrive ==
    /\ arrived < MaxIncoming
    /\ \E d \in Devices : \E b \in Incoming :
        /\ holder[d] = Mcu /\ Len(rx[d]) < BufferSize
        /\ rx' = [rx EXCEPT ![d] = Append(@, b)]
    /\ arrived' = arrived + 1
    /\ UNCHANGED <<objectVars, driverVars, tx, mcuVars, lifeVars>>

Pull == (\E d \in Devices : Unplug(d)) /\ UNCHANGED <<mcuVars, lifeVars, arrived>>

\* Nobody can move: the process is gone, or hangs.
Over == UNCHANGED vars

Next ==
    \/ (Main \/ Worker \/ HitsMain \/ HitsWorker) /\ UNCHANGED arrived
    \/ Arrive \/ Pull
    \/ Over

Spec ==
    /\ Init /\ [][Next]_vars
    /\ WF_vars(Main /\ UNCHANGED arrived)
    /\ WF_vars(Worker /\ UNCHANGED arrived)

-----------------------------------------------------------------------------
(* Properties.                                                             *)

\* What travels are bytes, and a verdict is shorter than a queue.
Octets ==
    /\ {0, 1, 10, FirmwareVersion} \cup Results \cup Incoming \subseteq Byte
    /\ CompletionPrefix \in Seq(Byte) /\ Len(CompletionPrefix) < BufferSize

MockTypeOK ==
    /\ FtTypeOK
    /\ pc \in {"args", "create", "connect", "baud", "usb", "chars", "start", "spawn", "assign",
               "loop", "counting", "lastCounting", "stopping", "return", "exited", "aborted"}
    /\ {g_running, created, m_initialized, m_running, joinable} \subseteq BOOLEAN
    /\ frames \in Seq({"test", "flag", "join", "disconnect"})
    /\ worker \in {"none", "test", "work", "finished"}
    /\ stats \in [DOMAIN Zero -> Nat]

(***************************************************************************)
(* Where a signal can hit and the process not survive it: while start()    *)
(* has raised the flag and not yet stored the thread, while main holds the *)
(* statistics' mutex, and on the worker's thread.                          *)
(***************************************************************************)
Critical == {"start", "counting", "worker"}
Spared == hits \cap Critical = {}

(***************************************************************************)
(* Outside these places two signals, main's own stop() and the destructors *)
(* end the process in order, whatever they interrupt: it is never aborted. *)
(***************************************************************************)
NeverAborted == Spared => pc # "aborted"

(***************************************************************************)
(* stop() does not close the adapter under the worker, who tests it with   *)
(* isConnected and checkRXChannel without the mutex (ft232rl.cpp:147).     *)
(***************************************************************************)
NoUseAfterDisconnect == Spared /\ worker \in {"test", "work"} => m_connected[Mcu]

(***************************************************************************)
(* A process that has ended has given its adapter back, by whichever path, *)
(* also when it could not initialise.                                      *)
(***************************************************************************)
ReleasedAtExit == pc = "exited" => \A d \in Devices : holder[d] # Mcu

(***************************************************************************)
(* USAGE.md:153-156: stop, disconnect, then show the final statistics. If  *)
(* every signal hit the loop, no command is counted after they are shown.  *)
(***************************************************************************)
FinalIsFinal ==
    hits \subseteq {"loop", "stop"} /\ printed # <<>> =>
        printed[1] = stats

(***************************************************************************)
(* A mock that is told to end does: the worker leaves its loop, the joins  *)
(* return, main gets to its end, at any moment of an exchange.             *)
(***************************************************************************)
EndsWhenAsked == hits # {} ~> (~Alive \/ ~Spared)

=============================================================================

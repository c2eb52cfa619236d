--------------------------- MODULE MockMainProofs ---------------------------
(***************************************************************************)
(* The mock's process ends in order: for every command line, every number  *)
(* of signals and every stack of handlers they pile up on main.            *)
(***************************************************************************)
EXTENDS MockMain, FT232RLProofs

-----------------------------------------------------------------------------
(* The stack of stop()'s calls.                                            *)

Steps == {"test", "flag", "join", "disconnect"}

Holds(stack, step) == \E k \in DOMAIN stack : stack[k] = step

LEMMA EmptyHolds == \A step : ~Holds(<<>>, step)
BY DEF Holds

LEMMA Pushed ==
    ASSUME NEW stack \in Seq(Steps), NEW top \in Steps
    PROVE  /\ <<top>> \o stack \in Seq(Steps)
           /\ <<top>> \o stack # <<>>
           /\ \A step : Holds(<<top>> \o stack, step) <=> step = top \/ Holds(stack, step)
<1> DEFINE more == <<top>> \o stack
<1>1. more \in Seq(Steps) /\ Len(more) = Len(stack) + 1
  OBVIOUS
<1>2. more[1] = top /\ \A k \in 1..Len(stack) : more[k + 1] = stack[k]
  OBVIOUS
<1>3. DOMAIN more = 1..Len(stack) + 1 /\ DOMAIN stack = 1..Len(stack) /\ Len(stack) \in Nat
  BY <1>1
<1> HIDE DEF more
<1>4. ASSUME NEW step, Holds(stack, step) PROVE Holds(more, step)
  <2>1. PICK k \in 1..Len(stack) : stack[k] = step
    BY <1>3, <1>4 DEF Holds
  <2>2. k + 1 \in DOMAIN more /\ more[k + 1] = step
    BY <1>2, <1>3, <2>1
  <2> QED
    BY <2>2 DEF Holds
<1>5. Holds(more, top)
  BY <1>2, <1>3 DEF Holds
<1>6. ASSUME NEW step, Holds(more, step) PROVE step = top \/ Holds(stack, step)
  <2>1. PICK k \in 1..Len(stack) + 1 : more[k] = step
    BY <1>3, <1>6 DEF Holds
  <2>2. CASE k = 1
    BY <1>2, <2>1, <2>2
  <2>3. CASE k # 1
    <3>1. k - 1 \in 1..Len(stack) /\ k = (k - 1) + 1
      BY <1>3, <2>1, <2>3
    <3>2. stack[k - 1] = step
      BY <1>2, <2>1, <3>1
    <3> QED
      BY <1>3, <3>1, <3>2 DEF Holds
  <2> QED
    BY <2>2, <2>3
<1>7. more # <<>>
  BY <1>1, <1>3
<1> QED
  BY <1>1, <1>4, <1>5, <1>6, <1>7 DEF more

LEMMA Popped ==
    ASSUME NEW stack \in Seq(Steps), stack # <<>>
    PROVE  /\ Tail(stack) \in Seq(Steps)
           /\ \A step : Holds(stack, step) <=> step = Head(stack) \/ Holds(Tail(stack), step)
<1>1. Head(stack) \in Steps /\ Tail(stack) \in Seq(Steps)
  OBVIOUS
<1>2. stack = <<Head(stack)>> \o Tail(stack)
  OBVIOUS
<1> QED
  BY <1>1, <1>2, Pushed
-----------------------------------------------------------------------------
(* The adapter.                                                            *)

\* The mock knows of its handle, and what the handle is open on.
MockHandle ==
    /\ m_connected \in [Objects -> BOOLEAN]
    /\ ftHandle \in [Objects -> Devices \cup {NoDevice}]
    /\ holder \in [Devices -> Objects \cup {Nobody}]
    /\ attached \subseteq Devices
    /\ m_connected[Mcu] => ftHandle[Mcu] # NoDevice
    /\ \A d \in Devices : holder[d] = Mcu => m_connected[Mcu] /\ ftHandle[Mcu] = d

\* What most calls do with it: nothing.
Kept == UNCHANGED <<m_connected, ftHandle, holder, attached>>

Released == UNCHANGED m_connected \/ ~m_connected'[Mcu]

LEMMA NobodyIsNotMcu == Mcu # Nobody /\ NoDevice \notin Devices
BY McuAssumption, NobodyAssumption, DevicesAssumption DEF NoDevice

LEMMA KeptHandle == MockHandle /\ Kept => MockHandle'
BY DEF MockHandle, Kept

LEMMA OpensHandle ==
    ASSUME MockHandle, NEW d, connectOpens(Mcu, d)
    PROVE  MockHandle' /\ m_connected'[Mcu]
BY McuAssumption, NobodyIsNotMcu
DEF MockHandle, connectOpens, CanOpen, FT_Open, Connected

LEMMA ThrowsHandle ==
    ASSUME MockHandle, NEW d, connectThrows(Mcu, d)
    PROVE  MockHandle' /\ UNCHANGED m_connected
BY McuAssumption, NobodyIsNotMcu DEF MockHandle, connectThrows, CanOpen

LEMMA ClosesHandle ==
    ASSUME MockHandle, disconnect(Mcu)
    PROVE  MockHandle' /\ Released /\ ~m_connected'[Mcu]
<1>1. CASE m_connected[Mcu] /\ ftHandle[Mcu] # NoDevice
  <2>1. /\ FT_Close(Mcu, ftHandle[Mcu])
        /\ ftHandle' = [ftHandle EXCEPT ![Mcu] = NoDevice]
        /\ m_connected' = [m_connected EXCEPT ![Mcu] = FALSE]
        /\ UNCHANGED attached
    BY <1>1 DEF disconnect
  <2>2. ftHandle[Mcu] \in Devices
    BY <1>1, McuAssumption DEF MockHandle
  <2>3. /\ holder' \in [Devices -> Objects \cup {Nobody}]
        /\ \A d \in Devices : holder'[d] # Mcu
    <3>1. CASE holder[ftHandle[Mcu]] = Mcu
      BY <2>1, <2>2, <3>1, NobodyIsNotMcu DEF MockHandle, FT_Close
    <3>2. CASE holder[ftHandle[Mcu]] # Mcu
      BY <2>1, <2>2, <3>2 DEF MockHandle, FT_Close
    <3> QED
      BY <3>1, <3>2
  <2>4. m_connected' \in [Objects -> BOOLEAN] /\ ~m_connected'[Mcu]
    BY <2>1, McuAssumption DEF MockHandle
  <2>5. ftHandle' \in [Objects -> Devices \cup {NoDevice}]
    BY <2>1, McuAssumption DEF MockHandle
  <2> QED
    BY <2>1, <2>3, <2>4, <2>5 DEF MockHandle, Released
<1>2. CASE ~(m_connected[Mcu] /\ ftHandle[Mcu] # NoDevice)
  BY <1>2 DEF MockHandle, disconnect, Released, ftVars, objectVars, driverVars
<1> QED
  BY <1>1, <1>2

LEMMA UnpluggedHandle ==
    ASSUME MockHandle, NEW d \in Devices, Unplug(d)
    PROVE  MockHandle' /\ UNCHANGED m_connected
BY NobodyIsNotMcu DEF MockHandle, Unplug, PullPlug, objectVars

\* No call of the worker opens or closes anything.
LEMMA WorkerKeeps == LoopTest \/ WorkerStep => Kept
<1>1. throws(Mcu) \/ UNCHANGED ftVars => Kept
  BY DEF throws, Kept, ftVars, objectVars, driverVars
<1>2. \A frame : writeData(Mcu, frame) => Kept
  BY DEF writeData, Kept, objectVars, driverVars
<1>3. \A frame, n : readData(Mcu, n, frame) => Kept
  BY DEF readData, Kept, objectVars, driverVars
<1> QED
  BY <1>1, <1>2, <1>3
  DEF LoopTest, WorkerStep, IdlePoll, ReadCommand, handleVersionCommand, RejectUnknown,
      AnswerReadiness, ReadBlock, MoveMotors, McuCatch, Send
-----------------------------------------------------------------------------
(* The process's life, as long as no signal hits where it must not.        *)

Early   == {"args", "create", "connect", "baud", "usb", "chars", "start"}
Storing == {"spawn", "assign"}
Working == worker \in {"test", "work"}

\* Before start() has raised the flag there is no worker, and a handler's
\* stop() returns at once; while start() runs no handler does.
StartOrder ==
    /\ pc \in Early => worker = "none" /\ ~m_running
                       /\ \A step \in Steps \ {"test"} : ~Holds(frames, step)
    /\ pc \in Early \cup Storing => ~joinable
    /\ pc = "spawn" => worker = "none"
    /\ pc \in Storing => m_running /\ frames = <<>>
    /\ pc \in {"baud", "usb", "chars", "start"} \cup Storing => m_connected[Mcu]

\* Whoever takes the flag down stays on the stack until the worker is joined.
StopOrder ==
    /\ joinable /\ ~m_running => Holds(frames, "join")
    /\ joinable /\ pc = "return" => frames # <<>>
    /\ Holds(frames, "disconnect") => ~joinable /\ ~Working

WorkerOwned == Working => (joinable \/ pc = "assign") /\ m_connected[Mcu]

Orderly == StartOrder /\ StopOrder /\ WorkerOwned /\ pc # "aborted"

LifeInv == frames \in Seq(Steps) /\ MockHandle /\ (Spared => Orderly)

LEMMA LifeInit == Init => LifeInv
<1> SUFFICES ASSUME Init PROVE LifeInv
  OBVIOUS
<1>1. frames \in Seq(Steps) /\ \A step : ~Holds(frames, step)
  BY EmptyHolds DEF Init
<1>2. MockHandle
  BY McuAssumption, NobodyIsNotMcu DEF Init, FtInit, DriverInit, MockHandle
<1>3. Orderly
  BY <1>1 DEF Init, Orderly, StartOrder, StopOrder, WorkerOwned, Working, Early, Storing
<1> QED
  BY <1>1, <1>2, <1>3 DEF LifeInv

\* Main's own steps, with no call of stop() on its stack.
LEMMA MainIsOrderly ==
    ASSUME LifeInv,
           ParseArgs \/ Create \/ Initialize \/ Start \/ MainLoop \/ PrintFinal
             \/ CallStop \/ Return
    PROVE  LifeInv'
<1>1. frames = <<>> /\ (Spared' <=> Spared)
  BY DEF ParseArgs, Create, Initialize, Start, MainLoop, PrintFinal, CallStop, Return, Go,
         runVars, Spared
<1>2. \A step : ~Holds(frames, step)
  BY <1>1, EmptyHolds
<1>3. CASE ParseArgs \/ Create \/ MainLoop \/ PrintFinal
  <2>1. UNCHANGED <<m_running, frames, worker, joinable>> /\ Kept
    BY <1>3 DEF ParseArgs, Create, MainLoop, PrintFinal, runVars, Kept, ftVars, objectVars, driverVars
  <2>2. /\ pc' \in Early => pc \in Early
        /\ pc' \notin {"baud", "usb", "chars", "start"} \cup Storing
        /\ pc' = "return" => pc \in Early
        /\ pc \notin Storing /\ pc' # "aborted"
    BY <1>3 DEF ParseArgs, Create, MainLoop, PrintFinal, Go, Early, Storing
  <2>3. MockHandle'
    BY <2>1, KeptHandle DEF LifeInv
  <2>4. ASSUME Orderly PROVE Orderly'
    <3>1. StartOrder'
      BY <1>2, <2>1, <2>2, <2>4 DEF Orderly, StartOrder, Early, Storing, Kept
    <3>2. StopOrder'
      BY <1>2, <2>1, <2>2, <2>4 DEF Orderly, StartOrder, StopOrder, Early, Working
    <3>3. WorkerOwned'
      BY <2>1, <2>2, <2>4 DEF Orderly, WorkerOwned, Working, Kept, Storing
    <3> QED
      BY <2>2, <3>1, <3>2, <3>3 DEF Orderly
  <2> QED
    BY <1>1, <2>1, <2>3, <2>4 DEF LifeInv
<1>4. CASE Initialize
  <2>1. UNCHANGED <<m_running, frames, worker, joinable>>
    BY <1>4 DEF Initialize
  <2>2. pc \in {"connect", "baud", "usb", "chars"} /\ pc' \in {"baud", "usb", "chars", "start", "return"}
    BY <1>4 DEF Initialize, Go
  <2>3. MockHandle' /\ (pc' # "return" => m_connected'[Mcu] \/ (pc # "connect" /\ UNCHANGED m_connected))
    <3>1. CASE \/ Go("connect", "return") /\ connectRefused(Mcu, options.device)
               \/ \E step \in {"baud", "usb", "chars"} : Go(step, "return") /\ throws(Mcu)
      <4>1. Kept /\ pc' = "return"
        BY <3>1 DEF Go, connectRefused, throws, Kept, ftVars, objectVars, driverVars
      <4> QED
        BY <4>1, KeptHandle DEF LifeInv
    <3>2. CASE Go("connect", "baud") /\ connectOpens(Mcu, options.device)
      BY <3>2, OpensHandle DEF LifeInv
    <3>3. CASE Go("connect", "return") /\ connectThrows(Mcu, options.device)
      BY <3>3, ThrowsHandle DEF LifeInv, Go
    <3>4. CASE \/ Go("baud", "usb") /\ setBaudRate(Mcu, McuBaud)
               \/ Go("usb", "chars") /\ setUSBParameters(Mcu)
               \/ Go("chars", "start") /\ setCharacteristics(Mcu, McuFormat)
      <4>1. Kept /\ pc # "connect"
        BY <3>4 DEF Go, setBaudRate, setUSBParameters, setCharacteristics, Kept, objectVars, driverVars
      <4> QED
        BY <4>1, KeptHandle DEF LifeInv, Kept
    <3> QED
      BY <1>4, <3>1, <3>2, <3>3, <3>4 DEF Initialize
  <2>4. ASSUME Orderly PROVE Orderly'
    <3>1. StartOrder'
      BY <1>2, <2>1, <2>2, <2>3, <2>4 DEF Orderly, StartOrder, Early, Storing
    <3>2. StopOrder'
      BY <1>2, <2>1, <2>2, <2>4 DEF Orderly, StartOrder, StopOrder, Early, Working
    <3>3. WorkerOwned'
      BY <2>1, <2>2, <2>4 DEF Orderly, StartOrder, WorkerOwned, Working, Early
    <3> QED
      BY <2>2, <3>1, <3>2, <3>3 DEF Orderly
  <2> QED
    BY <1>1, <2>1, <2>3, <2>4 DEF LifeInv
<1>5. CASE Start
  <2>1. UNCHANGED frames /\ Kept
    BY <1>5 DEF Start, Kept, ftVars, objectVars, driverVars
  <2>2. MockHandle'
    BY <2>1, KeptHandle DEF LifeInv
  <2>3. ASSUME Orderly PROVE Orderly'
    <3>1. CASE pc = "start"
      BY <1>1, <1>2, <1>5, <2>1, <2>3, <3>1
      DEF Start, Go, Orderly, StartOrder, StopOrder, WorkerOwned, Working, Early, Storing, Kept
    <3>2. CASE pc = "spawn"
      BY <1>1, <1>2, <1>5, <2>1, <2>3, <3>2
      DEF Start, Go, Orderly, StartOrder, StopOrder, WorkerOwned, Working, Early, Storing, Kept
    <3>3. CASE pc = "assign"
      BY <1>1, <1>2, <1>5, <2>1, <2>3, <3>3
      DEF Start, Go, Orderly, StartOrder, StopOrder, WorkerOwned, Working, Early, Storing, Kept
    <3> QED
      BY <1>5, <3>1, <3>2, <3>3 DEF Start, Go
  <2> QED
    BY <1>1, <2>1, <2>2, <2>3 DEF LifeInv
<1>6. CASE CallStop
  <2>1. /\ frames' = <<"test">> \o <<>> /\ pc = "stopping" /\ pc' = "return"
        /\ UNCHANGED <<m_running, worker, joinable>> /\ Kept
    BY <1>6 DEF CallStop, Go, runVars, Kept, ftVars, objectVars, driverVars
  <2>2. frames' \in Seq(Steps) /\ frames' # <<>> /\ \A step : Holds(frames', step) <=> step = "test"
    <3>1. <<>> \in Seq(Steps) /\ "test" \in Steps
      BY DEF Steps
    <3> QED
      BY <2>1, <3>1, Pushed, EmptyHolds
  <2>3. ASSUME Orderly PROVE Orderly'
    BY <1>2, <2>1, <2>2, <2>3
    DEF Orderly, StartOrder, StopOrder, WorkerOwned, Working, Early, Storing, Kept
  <2>4. MockHandle'
    BY <2>1, KeptHandle DEF LifeInv
  <2> QED
    BY <1>1, <2>2, <2>3, <2>4 DEF LifeInv
<1>7. CASE Return
  <2>1. UNCHANGED <<m_running, frames, worker, joinable>> /\ pc = "return"
    BY <1>7 DEF Return
  <2>2. MockHandle'
    BY <1>7, ClosesHandle, KeptHandle DEF Return, LifeInv, Kept, ftVars, objectVars, driverVars
  <2>3. ASSUME Orderly PROVE Orderly'
    <3>1. ~joinable /\ ~Working
      BY <1>1, <2>1, <2>3 DEF Orderly, StopOrder, WorkerOwned
    <3>2. pc' = "exited"
      BY <1>7, <3>1 DEF Return
    <3> QED
      BY <1>2, <2>1, <3>1, <3>2
      DEF Orderly, StartOrder, StopOrder, WorkerOwned, Working, Early, Storing
  <2> QED
    BY <1>1, <2>1, <2>2, <2>3 DEF LifeInv
<1> QED
  BY <1>3, <1>4, <1>5, <1>6, <1>7
\* stop(), one step of the innermost call.
LEMMA StopIsOrderly == ASSUME LifeInv, stop PROVE LifeInv'
<1>1. /\ UNCHANGED <<pc, worker>> /\ (Spared' <=> Spared)
      /\ TestRunning \/ ClearRunning \/ Join \/ Disconnect
  BY DEF stop, Spared
<1>2. frames \in Seq(Steps) /\ frames # <<>>
  BY <1>1 DEF LifeInv, TestRunning, ClearRunning, Join, Disconnect, InStop
<1>3. /\ Tail(frames) \in Seq(Steps)
      /\ \A step : Holds(frames, step) <=> step = Head(frames) \/ Holds(Tail(frames), step)
  BY <1>2, Popped
<1>4. ASSUME NEW top \in Steps, NextInStop(top)
      PROVE  /\ frames' \in Seq(Steps) /\ frames' # <<>>
             /\ \A step : Holds(frames', step) <=> step = top \/ Holds(Tail(frames), step)
  BY <1>3, <1>4, Pushed DEF NextInStop
<1>5. CASE TestRunning
  <2>1. UNCHANGED <<m_running, joinable>> /\ Kept /\ Head(frames) = "test"
    BY <1>5 DEF TestRunning, InStop, runVars, Kept, ftVars, objectVars, driverVars
  <2>2. \/ m_running /\ NextInStop("flag")
        \/ ~m_running /\ frames' = Tail(frames)
    BY <1>5 DEF TestRunning
  <2>3. /\ frames' \in Seq(Steps)
        /\ \A step \in Steps \ {"test", "flag"} : Holds(frames', step) <=> Holds(frames, step)
        /\ Holds(frames', "flag") => m_running \/ Holds(frames, "flag")
        /\ m_running => frames' # <<>>
    BY <1>3, <1>4, <2>1, <2>2 DEF Steps
  <2>4. Holds(frames', "join") => frames' # <<>>
    BY EmptyHolds
  <2>5. ASSUME Orderly PROVE Orderly'
    <3>1. StartOrder'
      BY <1>1, <1>2, <2>1, <2>3, <2>5 DEF Orderly, StartOrder, Steps, Early, Storing, Kept
    <3>2. StopOrder' /\ WorkerOwned' /\ pc' # "aborted"
      BY <1>1, <2>1, <2>3, <2>4, <2>5 DEF Orderly, StopOrder, WorkerOwned, Working, Steps, Kept
    <3> QED
      BY <3>1, <3>2 DEF Orderly
  <2>6. MockHandle'
    BY <2>1, KeptHandle DEF LifeInv
  <2> QED
    BY <1>1, <2>3, <2>5, <2>6 DEF LifeInv
<1>6. CASE ClearRunning
  <2>1. /\ Head(frames) = "flag" /\ NextInStop("join") /\ Kept
        /\ m_running' = FALSE /\ UNCHANGED joinable
    BY <1>6 DEF ClearRunning, InStop, Kept, ftVars, objectVars, driverVars
  <2>2. /\ frames' \in Seq(Steps) /\ frames' # <<>> /\ Holds(frames', "join")
        /\ Holds(frames', "disconnect") => Holds(frames, "disconnect")
    BY <1>3, <1>4, <2>1 DEF Steps
  <2>3. Holds(frames, "flag")
    BY <1>3, <2>1
  <2>4. ASSUME Orderly PROVE Orderly'
    <3>1. pc \notin Early \cup Storing
      BY <1>2, <2>3, <2>4 DEF Orderly, StartOrder, Steps
    <3> QED
      BY <1>1, <2>1, <2>2, <2>4, <3>1
      DEF Orderly, StartOrder, StopOrder, WorkerOwned, Working, Early, Storing, Kept
  <2>5. MockHandle'
    BY <2>1, KeptHandle DEF LifeInv
  <2> QED
    BY <1>1, <2>2, <2>4, <2>5 DEF LifeInv
<1>7. CASE Join
  <2>1. /\ Head(frames) = "join" /\ NextInStop("disconnect") /\ Kept
        /\ joinable => worker = "finished"
        /\ joinable' = FALSE /\ UNCHANGED m_running
    BY <1>7 DEF Join, InStop, runVars, Kept, ftVars, objectVars, driverVars
  <2>2. frames' \in Seq(Steps) /\ Holds(frames, "join")
    BY <1>3, <1>4, <2>1 DEF Steps
  <2>3. ASSUME Orderly PROVE Orderly'
    <3>1. pc \notin Early \cup Storing
      BY <1>2, <2>2, <2>3 DEF Orderly, StartOrder, Steps
    <3>2. ~Working
      BY <2>1, <2>3, <3>1 DEF Orderly, WorkerOwned, Working, Storing
    <3> QED
      BY <1>1, <2>1, <2>3, <3>1, <3>2
      DEF Orderly, StartOrder, StopOrder, WorkerOwned, Working, Early, Storing
  <2>4. MockHandle'
    BY <2>1, KeptHandle DEF LifeInv
  <2> QED
    BY <1>1, <2>2, <2>3, <2>4 DEF LifeInv
<1>8. CASE Disconnect
  <2>1. /\ Head(frames) = "disconnect" /\ frames' = Tail(frames) /\ disconnect(Mcu)
        /\ UNCHANGED <<m_running, joinable>>
    BY <1>8 DEF Disconnect, InStop, runVars
  <2>2. Holds(frames, "disconnect")
    BY <1>3, <2>1
  <2>3. ASSUME Orderly PROVE Orderly'
    <3>1. pc \notin Early \cup Storing /\ ~joinable /\ ~Working
      BY <1>2, <2>2, <2>3 DEF Orderly, StartOrder, StopOrder, Steps
    <3> QED
      BY <1>1, <2>1, <2>3, <3>1
      DEF Orderly, StartOrder, StopOrder, WorkerOwned, Working, Early, Storing
  <2>4. MockHandle'
    BY <2>1, ClosesHandle DEF LifeInv
  <2> QED
    BY <1>1, <1>3, <2>1, <2>3, <2>4 DEF LifeInv
<1> QED
  BY <1>1, <1>5, <1>6, <1>7, <1>8

\* A signal on main; one that hits start() or the statistics is not spared.
LEMMA HitsMainIsOrderly == ASSUME LifeInv, HitsMain PROVE LifeInv'
<1>1. /\ UNCHANGED <<pc, m_running, worker, joinable>> /\ Kept
      /\ hits' = hits \cup {Part} /\ pc # "aborted"
      /\ frames' = <<"test">> \o frames \/ UNCHANGED frames
  BY DEF HitsMain, Hit, Alive, Kept, ftVars, objectVars, driverVars
<1>2. "test" \in Steps /\ frames \in Seq(Steps)
  BY DEF Steps, LifeInv
<1>3. /\ frames' \in Seq(Steps) /\ (frames # <<>> => frames' # <<>>)
      /\ \A step \in Steps \ {"test"} : Holds(frames', step) <=> Holds(frames, step)
  BY <1>1, <1>2, Pushed
<1>4. Spared' => Spared /\ Part \notin Critical
  BY <1>1 DEF Spared
<1>5. frames = <<>> /\ pc \in Storing => Part = "start"
  BY DEF Part, Storing
<1>6. ASSUME Orderly, Part \notin Critical PROVE Orderly'
  <2>1. pc \notin Storing
    BY <1>5, <1>6 DEF Orderly, StartOrder, Critical
  <2>2. StartOrder'
    BY <1>1, <1>3, <1>6, <2>1 DEF Orderly, StartOrder, Early, Kept
  <2>3. StopOrder' /\ WorkerOwned'
    BY <1>1, <1>3, <1>6 DEF Orderly, StopOrder, WorkerOwned, Working, Steps, Kept
  <2> QED
    BY <1>1, <2>2, <2>3 DEF Orderly
<1>7. MockHandle'
  BY <1>1, KeptHandle DEF LifeInv
<1> QED
  BY <1>3, <1>4, <1>6, <1>7 DEF LifeInv

LEMMA HitsWorkerIsOrderly == ASSUME LifeInv, HitsWorker PROVE LifeInv'
<1>1. ~Spared' /\ UNCHANGED frames
  BY DEF HitsWorker, Hit, Spared, Critical
<1>2. MockHandle'
  <2>1. disconnect(Mcu) \/ UNCHANGED ftVars
    BY DEF HitsWorker
  <2>2. UNCHANGED ftVars => Kept
    BY DEF Kept, ftVars, objectVars, driverVars
  <2> QED
    BY <2>1, <2>2, ClosesHandle, KeptHandle DEF LifeInv
<1> QED
  BY <1>1, <1>2 DEF LifeInv

LEMMA WorkerIsOrderly == ASSUME LifeInv, Worker PROVE LifeInv'
<1>1. /\ Kept /\ UNCHANGED <<pc, frames, joinable, m_running, hits>>
      /\ Working
  BY WorkerKeeps DEF Worker, LoopTest, WorkerStep, Working, runVars
<1>2. MockHandle' /\ (Spared' <=> Spared)
  BY <1>1, KeptHandle DEF LifeInv, Spared
<1>3. ASSUME Orderly PROVE Orderly'
  BY <1>1, <1>3
  DEF Orderly, StartOrder, StopOrder, WorkerOwned, Working, Early, Storing, Kept
<1> QED
  BY <1>1, <1>2, <1>3 DEF LifeInv

\* The line, the plug, and a step that changes nothing here.
LEMMA OutsideIsOrderly == ASSUME LifeInv, Arrive \/ Pull \/ UNCHANGED vars PROVE LifeInv'
<1>1. UNCHANGED <<lifeVars, m_connected>> /\ MockHandle'
  <2>1. CASE Arrive \/ UNCHANGED vars
    <3>1. Kept /\ UNCHANGED lifeVars
      BY <2>1 DEF Arrive, Kept, vars, ftVars, objectVars, driverVars
    <3> QED
      BY <3>1, KeptHandle DEF LifeInv, Kept
  <2>2. CASE Pull
    BY <2>2, UnpluggedHandle DEF Pull, LifeInv
  <2> QED
    BY <2>1, <2>2
<1>2. UNCHANGED <<pc, m_running, frames, worker, joinable, hits>>
  BY <1>1 DEF lifeVars, runVars
<1>3. (Spared' <=> Spared) /\ (Orderly => Orderly')
  BY <1>1, <1>2 DEF Spared, Orderly, StartOrder, StopOrder, WorkerOwned, Working
<1> QED
  BY <1>1, <1>2, <1>3 DEF LifeInv

LEMMA LifeStep == LifeInv /\ [Next]_vars => LifeInv'
<1> SUFFICES ASSUME LifeInv, [Next]_vars PROVE LifeInv'
  OBVIOUS
<1>1. CASE Main
  BY <1>1, MainIsOrderly, StopIsOrderly DEF Main
<1>2. CASE HitsMain
  BY <1>2, HitsMainIsOrderly
<1>3. CASE HitsWorker
  BY <1>3, HitsWorkerIsOrderly
<1>4. CASE Worker
  BY <1>4, WorkerIsOrderly
<1>5. CASE Arrive \/ Pull \/ UNCHANGED vars
  BY <1>5, OutsideIsOrderly
<1> QED
  BY <1>1, <1>2, <1>3, <1>4, <1>5 DEF Next, Over

\* The mock's process is never aborted by its own way of stopping, however
\* many handlers interrupt each other (mock_mcu.cpp:66-83, main.cpp:16-24).
THEOREM MockEndsInOrder == Spec => []NeverAborted
<1>1. LifeInv => NeverAborted
  BY DEF LifeInv, Orderly, NeverAborted
<1> QED
  BY <1>1, LifeInit, LifeStep, PTL DEF Spec

\* The worker finds the adapter connected whenever it polls it without the
\* mutex: no stop() closes it before the worker is joined.
THEOREM WorkerKeepsAdapter == Spec => []NoUseAfterDisconnect
<1>1. LifeInv => NoUseAfterDisconnect
  BY DEF LifeInv, Orderly, WorkerOwned, Working, NoUseAfterDisconnect
<1> QED
  BY <1>1, LifeInit, LifeStep, PTL DEF Spec

-----------------------------------------------------------------------------
(* The end, whatever the signals hit.                                      *)

EndedClosed == pc = "exited" => ~m_connected[Mcu]

LEMMA EndStep == LifeInv /\ EndedClosed /\ [Next]_vars => EndedClosed'
<1> SUFFICES ASSUME LifeInv, EndedClosed, [Next]_vars, pc' = "exited"
             PROVE  ~m_connected'[Mcu]
  BY DEF EndedClosed
<1>1. CASE pc = "exited"
  <2>1. \/ stop \/ Arrive \/ Pull \/ UNCHANGED vars
    BY <1>1 DEF Next, Over, Main, ParseArgs, Create, Initialize, Start, MainLoop, PrintFinal,
                CallStop, Return, Go, HitsMain, HitsWorker, Hit, Worker, Alive
  <2>2. CASE Arrive \/ UNCHANGED vars \/ TestRunning \/ ClearRunning \/ Join
    BY <1>1, <2>2 DEF Arrive, TestRunning, ClearRunning, Join, vars, ftVars, objectVars, EndedClosed
  <2>3. CASE Disconnect
    BY <2>3, ClosesHandle DEF Disconnect, LifeInv
  <2>4. CASE Pull
    BY <1>1, <2>4, UnpluggedHandle DEF Pull, LifeInv, EndedClosed
  <2> QED
    BY <2>1, <2>2, <2>3, <2>4 DEF stop
<1>2. CASE pc # "exited"
  <2>1. Return /\ ~joinable
    BY <1>2 DEF Next, Over, Main, ParseArgs, Create, Initialize, Start, MainLoop, PrintFinal,
                CallStop, Return, Go, stop, HitsMain, HitsWorker, Worker, Arrive, Pull,
                lifeVars, vars
  <2> QED
    BY <2>1, ClosesHandle DEF Return, LifeInv
<1> QED
  BY <1>1, <1>2

\* Whatever path main takes to its end, and whatever the signals hit, a
\* process that exits has given its adapter back (mock_mcu.cpp:17, main.cpp:168).
THEOREM ExitReleases == Spec => []ReleasedAtExit
<1>1. Init => EndedClosed
  BY DEF Init, EndedClosed
<1>2. LifeInv /\ EndedClosed => ReleasedAtExit
  BY DEF LifeInv, MockHandle, EndedClosed, ReleasedAtExit
<1> QED
  BY <1>1, <1>2, LifeInit, LifeStep, EndStep, PTL DEF Spec

-----------------------------------------------------------------------------
(* The statistics main shows last.                                         *)

\* Main is past its loop.
Ends  == {"lastCounting", "stopping", "return", "exited"}
Built == {"connect", "baud", "usb", "chars", "start", "spawn", "assign", "loop", "counting"}
Quiet == hits \subseteq {"loop", "stop"}

Idle(stack) == ~Holds(stack, "join") /\ ~Holds(stack, "disconnect")

(***************************************************************************)
(* Whoever takes g_running down leaves a stop() on main's stack, which is  *)
(* not done before the flag is down and the worker joined: when main gets  *)
(* past its loop the worker has finished, and only the worker counts.      *)
(***************************************************************************)
FinalInv ==
    /\ pc \in Built => created
    /\ Quiet =>
        /\ ~g_running \/ frames # <<>> => pc \in {"loop"} \cup Ends
        /\ pc = "loop" /\ ~g_running /\ m_running => frames # <<>>
        /\ m_running => Idle(frames)
        /\ pc \in Ends => ~Working
        /\ printed # <<>> => pc \in Ends /\ printed[1] = stats

LEMMA QuietIsOrderly == LifeInv /\ Quiet => Orderly
BY DEF LifeInv, Quiet, Spared, Critical

LEMMA FinalInit == Init => FinalInv
<1>1. Init => frames = <<>> /\ Idle(<<>>)
  BY EmptyHolds DEF Init, Idle
<1> QED
  BY <1>1 DEF Init, FinalInv, Built, Ends

LEMMA MainIsFinal ==
    ASSUME LifeInv, FinalInv,
           ParseArgs \/ Create \/ Initialize \/ Start \/ MainLoop \/ PrintFinal
             \/ CallStop \/ Return
    PROVE  FinalInv'
<1>1. frames = <<>> /\ UNCHANGED <<hits, stats, g_running>>
  BY DEF ParseArgs, Create, Initialize, Start, MainLoop, PrintFinal, CallStop, Return, Go, runVars
<1>2. Idle(frames) /\ (Quiet' <=> Quiet)
  BY <1>1, EmptyHolds DEF Idle, Quiet
<1>3. Quiet => Orderly
  BY QuietIsOrderly
<1>4. CASE ParseArgs \/ Create \/ Initialize
  <2>1. /\ UNCHANGED <<m_running, frames, worker, printed>>
        /\ pc \in Early \ {"start"} /\ pc \notin Ends
        /\ pc' \in (Early \ {"args"}) \cup {"return"}
        /\ pc' \in Built => created'
    BY <1>4 DEF ParseArgs, Create, Initialize, Go, Early, Ends, Built, runVars, FinalInv
  <2>2. Quiet => ~Working
    BY <1>3, <2>1 DEF Orderly, StartOrder, Working
  <2>3. Working' <=> Working
    BY <2>1 DEF Working
  <2> QED
    BY <1>1, <1>2, <2>1, <2>2, <2>3 DEF FinalInv, Early, Ends
<1>5. CASE Start
  <2>1. /\ UNCHANGED <<frames, printed, created>>
        /\ pc \in {"start", "spawn", "assign"} /\ pc \notin Ends /\ pc \in Built
        /\ pc' \in {"spawn", "assign", "loop"} /\ pc' \notin Ends
    BY <1>5 DEF Start, Go, Built, Ends
  <2> QED
    BY <1>1, <1>2, <2>1 DEF FinalInv
<1>6. CASE MainLoop
  <2>1. /\ UNCHANGED <<m_running, created, frames, worker, joinable, printed>>
        /\ \/ pc = "loop" /\ g_running /\ pc' = "counting"
           \/ pc = "counting" /\ pc' = "loop"
           \/ pc = "loop" /\ ~(g_running /\ m_running) /\ pc' = "lastCounting"
    BY <1>6 DEF MainLoop, Go, runVars
  <2>2. Working' <=> Working
    BY <2>1 DEF Working
  <2>3. CASE pc = "loop" /\ g_running /\ pc' = "counting"
    BY <1>1, <1>2, <2>1, <2>3 DEF FinalInv, Built, Ends
  <2>4. CASE pc = "counting" /\ pc' = "loop"
    BY <1>1, <1>2, <2>1, <2>4 DEF FinalInv, Built, Ends
  <2>5. CASE pc = "loop" /\ ~(g_running /\ m_running) /\ pc' = "lastCounting"
    <3>1. Quiet => ~m_running
      BY <1>1, <2>5 DEF FinalInv
    <3>2. Quiet => ~joinable
      BY <1>2, <1>3, <3>1 DEF Orderly, StopOrder, Idle
    <3>3. Quiet => ~Working
      BY <1>3, <2>5, <3>2 DEF Orderly, WorkerOwned
    <3> QED
      BY <1>1, <1>2, <2>1, <2>2, <2>5, <3>1, <3>3 DEF FinalInv, Built, Ends
  <2> QED
    BY <2>1, <2>3, <2>4, <2>5
<1>7. CASE PrintFinal
  <2>1. /\ UNCHANGED <<m_running, frames, worker>>
        /\ pc = "lastCounting" /\ pc' = "stopping"
        /\ printed' = <<stats>>
    BY <1>7 DEF PrintFinal, printStatistics, Go, runVars
  <2>2. Working' <=> Working
    BY <2>1 DEF Working
  <2> QED
    BY <1>1, <1>2, <2>1, <2>2 DEF FinalInv, Built, Ends
<1>8. CASE CallStop
  <2>1. /\ frames' = <<"test">> \o <<>> /\ pc = "stopping" /\ pc' = "return"
        /\ UNCHANGED <<m_running, worker, printed>>
    BY <1>8 DEF CallStop, Go, runVars
  <2>2. Idle(frames')
    <3>1. <<>> \in Seq(Steps) /\ "test" \in Steps
      BY DEF Steps
    <3> QED
      BY <2>1, <3>1, Pushed, EmptyHolds DEF Idle
  <2>3. Working' <=> Working
    BY <2>1 DEF Working
  <2> QED
    BY <1>1, <1>2, <2>1, <2>2, <2>3 DEF FinalInv, Built, Ends
<1>9. CASE Return
  <2>1. UNCHANGED <<m_running, frames, worker, printed>> /\ pc = "return"
    BY <1>9 DEF Return
  <2>2. Quiet => ~joinable
    BY <1>1, <1>3, <2>1 DEF Orderly, StopOrder
  <2>3. /\ pc' \in {"aborted", "exited"}
        /\ Quiet => pc' = "exited"
    BY <1>9, <2>2 DEF Return
  <2>4. Working' <=> Working
    BY <2>1 DEF Working
  <2> QED
    BY <1>1, <1>2, <2>1, <2>3, <2>4 DEF FinalInv, Built, Ends
<1> QED
  BY <1>4, <1>5, <1>6, <1>7, <1>8, <1>9

LEMMA StopIsFinal == ASSUME LifeInv, FinalInv, stop PROVE FinalInv'
<1>1. /\ UNCHANGED <<pc, worker, hits, stats, printed>>
      /\ UNCHANGED <<created, g_running>>
      /\ TestRunning \/ ClearRunning \/ Join \/ Disconnect
  BY DEF stop, TestRunning, ClearRunning, Join, Disconnect, runVars
<1>2. frames \in Seq(Steps) /\ frames # <<>>
  BY <1>1 DEF LifeInv, TestRunning, ClearRunning, Join, Disconnect, InStop
<1>3. /\ Tail(frames) \in Seq(Steps)
      /\ \A step : Holds(frames, step) <=> step = Head(frames) \/ Holds(Tail(frames), step)
  BY <1>2, Popped
<1>4. ASSUME NEW top \in Steps, NextInStop(top)
      PROVE  /\ frames' # <<>>
             /\ \A step : Holds(frames', step) <=> step = top \/ Holds(Tail(frames), step)
  BY <1>3, <1>4, Pushed DEF NextInStop
<1>5. (Quiet' <=> Quiet) /\ (Working' <=> Working)
  BY <1>1 DEF Quiet, Working
<1>6. ASSUME m_running' => m_running /\ frames' # <<>> /\ (Idle(frames) => Idle(frames'))
      PROVE  FinalInv'
  BY <1>1, <1>2, <1>5, <1>6 DEF FinalInv
<1>7. CASE TestRunning
  <2>1. UNCHANGED m_running /\ Head(frames) = "test"
    BY <1>7 DEF TestRunning, InStop, runVars
  <2>2. m_running => NextInStop("flag")
    BY <1>7 DEF TestRunning
  <2>3. m_running => frames' # <<>> /\ (Idle(frames) => Idle(frames'))
    BY <1>3, <1>4, <2>2 DEF Steps, Idle
  <2> QED
    BY <1>6, <2>1, <2>3
<1>8. CASE ClearRunning
  BY <1>6, <1>8 DEF ClearRunning
<1>9. CASE Join \/ Disconnect
  <2>1. Quiet => ~m_running
    BY <1>2, <1>3, <1>9 DEF FinalInv, Join, Disconnect, InStop, Idle
  <2>2. UNCHANGED m_running
    BY <1>9 DEF Join, Disconnect, runVars
  <2> QED
    BY <1>1, <1>2, <1>5, <2>1, <2>2 DEF FinalInv
<1> QED
  BY <1>1, <1>7, <1>8, <1>9

LEMMA HitsMainIsFinal == ASSUME LifeInv, FinalInv, HitsMain PROVE FinalInv'
<1>1. /\ UNCHANGED <<pc, m_running, worker, created, stats, printed>>
      /\ g_running' = FALSE /\ hits' = hits \cup {Part}
      /\ frames' = IF created THEN <<"test">> \o frames ELSE frames
  BY DEF HitsMain, Hit
<1>2. "test" \in Steps /\ frames \in Seq(Steps)
  BY DEF Steps, LifeInv
<1>3. /\ frames # <<>> \/ created => frames' # <<>>
      /\ \A step \in Steps \ {"test"} : Holds(frames', step) <=> Holds(frames, step)
  BY <1>1, <1>2, Pushed
<1>4. Idle(frames') <=> Idle(frames)
  BY <1>3 DEF Idle, Steps
<1>5. Quiet' => Quiet /\ Part \in {"loop", "stop"}
  BY <1>1 DEF Quiet
<1>6. Part \in {"loop", "stop"} => pc = "loop" \/ frames # <<>>
  BY DEF Part
<1>7. Working' <=> Working
  BY <1>1 DEF Working
<1> QED
  BY <1>1, <1>3, <1>4, <1>5, <1>6, <1>7 DEF FinalInv, Built

LEMMA OthersAreFinal ==
    ASSUME LifeInv, FinalInv, HitsWorker \/ Worker \/ Arrive \/ Pull \/ UNCHANGED vars
    PROVE  FinalInv'
<1>1. CASE HitsWorker
  <2>1. ~Quiet' /\ UNCHANGED created /\ (pc' \in Built => pc \in Built)
    BY <1>1 DEF HitsWorker, Hit, Quiet, Built
  <2> QED
    BY <2>1 DEF FinalInv
<1>2. CASE Worker
  <2>1. UNCHANGED <<pc, g_running, created, m_running, frames, printed, hits>> /\ Working
    BY <1>2 DEF Worker, LoopTest, WorkerStep, Working, runVars
  <2> QED
    BY <2>1 DEF FinalInv, Quiet
<1>3. CASE Arrive \/ Pull \/ UNCHANGED vars
  <2>1. UNCHANGED <<pc, g_running, created, m_running, frames, worker, stats, printed, hits>>
    BY <1>3 DEF Arrive, Pull, vars, lifeVars, runVars
  <2>2. (Quiet' <=> Quiet) /\ (Working' <=> Working)
    BY <2>1 DEF Quiet, Working
  <2> QED
    BY <2>1, <2>2 DEF FinalInv
<1> QED
  BY <1>1, <1>2, <1>3

LEMMA FinalStep == LifeInv /\ FinalInv /\ [Next]_vars => FinalInv'
<1> SUFFICES ASSUME LifeInv, FinalInv, [Next]_vars PROVE FinalInv'
  OBVIOUS
<1>1. CASE Main
  BY <1>1, MainIsFinal, StopIsFinal DEF Main
<1>2. CASE HitsMain
  BY <1>2, HitsMainIsFinal
<1>3. CASE Worker \/ HitsWorker \/ Arrive \/ Pull \/ UNCHANGED vars
  BY <1>3, OthersAreFinal
<1> QED
  BY <1>1, <1>2, <1>3 DEF Next, Over

\* If every signal finds main in its loop or in stop(), the statistics shown
\* last are what was counted: nothing is counted after them (main.cpp:157-164).
THEOREM StatisticsAreFinal == Spec => []FinalIsFinal
<1>1. FinalInv => FinalIsFinal
  BY DEF FinalInv, FinalIsFinal, Quiet
<1> QED
  BY <1>1, LifeInit, LifeStep, FinalInit, FinalStep, PTL DEF Spec

-----------------------------------------------------------------------------
(* The types.                                                              *)

LEMMA SentBytes ==
    ASSUME Octets
    PROVE  /\ \A b \in {0, 1, 10, FirmwareVersion} : <<b>> \in Seq(Byte) /\ Len(<<b>>) \in 0..BufferSize
           /\ \A result \in Results :
                LET verdict == CompletionPrefix \o <<result>>
                IN  verdict \in Seq(Byte) /\ Len(verdict) \in 0..BufferSize
<1>1. ASSUME NEW b \in {0, 1, 10, FirmwareVersion}
      PROVE  <<b>> \in Seq(Byte) /\ Len(<<b>>) \in 0..BufferSize
  <2>1. b \in Byte /\ BufferSize >= 1
    BY <1>1, BufferAssumption DEF Octets
  <2> QED
    BY <2>1, BufferAssumption
<1>2. ASSUME NEW result \in Results
      PROVE  LET verdict == CompletionPrefix \o <<result>>
             IN  verdict \in Seq(Byte) /\ Len(verdict) \in 0..BufferSize
  <2>1. <<result>> \in Seq(Byte) /\ Len(<<result>>) = 1
    BY <1>2 DEF Octets
  <2>2. CompletionPrefix \in Seq(Byte) /\ Len(CompletionPrefix) < BufferSize
    BY DEF Octets
  <2> QED
    BY <2>1, <2>2, BufferAssumption
<1> QED
  BY <1>1, <1>2

(***************************************************************************)
(* What the mock does with its adapter is a call any object may make.      *)
(***************************************************************************)
LEMMA WriteIsCall ==
    ASSUME NEW frame \in Seq(Byte), Len(frame) \in 0..BufferSize, writeData(Mcu, frame)
    PROVE  FtNext
<1>1. frame \in [1..Len(frame) -> Byte]
  OBVIOUS
<1> QED
  BY <1>1, McuAssumption DEF FtNext, FtCall, CallWriteData

\* Both queues are emptied, however much was asked for.
LEMMA ReadIsCall ==
    ASSUME NEW n, NEW frame, readData(Mcu, n, frame)
    PROVE  FtNext
<1>1. CallReadData(Mcu, 0)
  BY DEF readData, CallReadData
<1>2. 0 \in 0..BufferSize
  BY BufferAssumption
<1> QED
  BY <1>1, <1>2, McuAssumption DEF FtNext, FtCall

LEMMA WorkerIsCall == ASSUME Octets, LoopTest \/ WorkerStep PROVE [FtNext]_ftVars
<1>1. McuCatch \/ LoopTest \/ IdlePoll => UNCHANGED ftVars
  BY DEF McuCatch, throws, LoopTest, IdlePoll
<1>2. ASSUME NEW b \in {0, 1, 10, FirmwareVersion}, writeData(Mcu, <<b>>) PROVE FtNext
  BY <1>2, SentBytes, WriteIsCall
<1>3. CASE ReadCommand \/ ReadBlock
  BY <1>1, <1>3, ReadIsCall DEF ReadCommand, ReadBlock
<1>4. CASE handleVersionCommand \/ RejectUnknown \/ AnswerReadiness
  BY <1>1, <1>2, <1>4 DEF handleVersionCommand, RejectUnknown, AnswerReadiness, Send
<1>5. CASE MoveMotors
  <2>1. PICK result \in Results : Send(CompletionPrefix \o <<result>>) \/ McuCatch
    BY <1>5 DEF MoveMotors
  <2> QED
    BY <1>1, <2>1, SentBytes, WriteIsCall DEF Send
<1> QED
  BY <1>1, <1>3, <1>4, <1>5 DEF WorkerStep

LEMMA DisconnectIsCall == disconnect(Mcu) => FtNext
BY McuAssumption DEF FtNext, FtCall, CallDisconnect

LEMMA MainIsCall == ASSUME FtTypeOK, Main PROVE [FtNext]_ftVars
<1>1. ASSUME NEW d, connectOpens(Mcu, d) \/ connectThrows(Mcu, d) PROVE FtNext
  <2>1. d \in Devices
    BY <1>1 DEF connectOpens, connectThrows, CanOpen, FtTypeOK, DriverTypeOK
  <2> QED
    BY <1>1, <2>1, McuAssumption DEF FtNext, FtCall, CallConnect
<1>2. CASE Initialize
  <2>1. \/ UNCHANGED ftVars
        \/ connectOpens(Mcu, options.device) \/ connectThrows(Mcu, options.device)
        \/ setBaudRate(Mcu, McuBaud)
        \/ setUSBParameters(Mcu)
        \/ setCharacteristics(Mcu, McuFormat)
    BY <1>2 DEF Initialize, connectRefused, throws
  <2> QED
    BY <1>1, <2>1, McuAssumption, McuBaudAssumption, McuFormatAssumption
    DEF FtNext, FtCall, CallSetBaudRate, CallSetUSBParameters, CallSetCharacteristics
<1>3. CASE Return \/ stop
  BY <1>3, DisconnectIsCall
  DEF Return, stop, TestRunning, ClearRunning, Join, Disconnect
<1>4. CASE ParseArgs \/ Create \/ Start \/ MainLoop \/ PrintFinal \/ CallStop
  BY <1>4 DEF ParseArgs, Create, Start, MainLoop, PrintFinal, CallStop
<1> QED
  BY <1>2, <1>3, <1>4 DEF Main

LEMMA ArriveTyped == ASSUME Octets, FtTypeOK, Arrive PROVE FtTypeOK'
<1>1. PICK d \in Devices, b \in Incoming :
        /\ Len(rx[d]) < BufferSize
        /\ rx' = [rx EXCEPT ![d] = Append(@, b)]
  BY DEF Arrive
<1>2. rx \in [Devices -> Queue] /\ b \in Byte
  BY <1>1, QueueTypes DEF FtTypeOK, Octets
<1>3. Append(rx[d], b) \in Queue
  <2>1. rx[d] \in Seq(Byte)
    BY <1>2 DEF Queue
  <2>2. Append(rx[d], b) \in Seq(Byte) /\ Len(Append(rx[d], b)) = Len(rx[d]) + 1
    BY <1>2, <2>1
  <2> QED
    BY <1>1, <2>1, <2>2, BufferAssumption DEF Queue
<1>4. rx' \in [Devices -> Queue]
  BY <1>1, <1>2, <1>3
<1>5. /\ UNCHANGED <<m_connected, m_deviceId, m_baudrate, ftHandle>>
      /\ UNCHANGED <<attached, holder, chipBaud, chipFormat, tx>>
  BY DEF Arrive, objectVars, driverVars
<1>6. rx' \in [Devices -> Seq(Byte)] /\ \A e \in Devices : Len(rx'[e]) <= BufferSize
  BY <1>4 DEF Queue
<1> QED
  BY <1>5, <1>6 DEF FtTypeOK, DriverTypeOK

LEMMA FtTyped == Octets /\ FtTypeOK /\ [Next]_vars => FtTypeOK'
<1> SUFFICES ASSUME Octets, FtTypeOK, [Next]_vars PROVE FtTypeOK'
  OBVIOUS
<1>1. CASE Arrive
  BY <1>1, ArriveTyped
<1>2. CASE ~Arrive
  <2>1. Main \/ Worker => [FtNext]_ftVars
    BY MainIsCall, WorkerIsCall DEF Worker
  <2>2. HitsMain \/ HitsWorker \/ UNCHANGED vars => [FtNext]_ftVars
    BY DisconnectIsCall DEF HitsMain, HitsWorker, vars
  <2>3. Pull => FtNext
    BY DEF Pull, FtNext, Outside
  <2>4. [FtNext]_ftVars
    BY <1>2, <2>1, <2>2, <2>3 DEF Next, Over
  <2> QED
    BY <2>4, FtTypeStep
<1> QED
  BY <1>1, <1>2

Parts == {"args", "create", "connect", "baud", "usb", "chars", "start", "spawn", "assign",
          "loop", "counting", "lastCounting", "stopping", "return", "exited", "aborted"}

\* Main's variables and the worker's, without the stack and the adapter.
LocalTypes ==
    /\ pc \in Parts
    /\ g_running \in BOOLEAN /\ created \in BOOLEAN /\ m_initialized \in BOOLEAN
    /\ m_running \in BOOLEAN /\ joinable \in BOOLEAN
    /\ worker \in {"none", "test", "work", "finished"}
    /\ stats \in [DOMAIN Zero -> Nat]

LEMMA LocalsTyped == LocalTypes /\ [Next]_vars => LocalTypes'
<1> SUFFICES ASSUME LocalTypes, [Next]_vars PROVE LocalTypes'
  OBVIOUS
<1>1. ASSUME NEW from, NEW to, Go(from, to), to \in Parts PROVE pc' \in Parts
  BY <1>1 DEF Go
<1>2. CASE ParseArgs \/ Create \/ MainLoop \/ PrintFinal \/ CallStop \/ Return
  BY <1>2
  DEF LocalTypes, Parts, Go, ParseArgs, Create, MainLoop, PrintFinal, CallStop, Return, runVars
<1>3. CASE Initialize
  BY <1>3 DEF LocalTypes, Parts, Go, Initialize
<1>4. CASE Start
  BY <1>4 DEF LocalTypes, Parts, Go, Start
<1>5. CASE stop
  BY <1>5 DEF LocalTypes, stop, TestRunning, ClearRunning, Join, Disconnect, runVars
<1>6. CASE HitsMain \/ HitsWorker
  BY <1>6 DEF LocalTypes, Parts, HitsMain, HitsWorker, Hit
<1>7. CASE Worker
  <2>1. UNCHANGED <<pc, g_running, created, m_initialized, m_running, joinable>>
    BY <1>7 DEF Worker, runVars
  <2>2. worker' \in {"none", "test", "work", "finished"}
    BY <1>7 DEF Worker, LoopTest, WorkerStep
  <2>3. stats' \in [DOMAIN Zero -> Nat]
    <3>1. ASSUME NEW fields, Counted(fields) PROVE stats' \in [DOMAIN Zero -> Nat]
      BY <3>1 DEF Counted, LocalTypes
    <3>2. UNCHANGED stats \/ \E fields : Counted(fields)
      BY <1>7 DEF Worker, LoopTest, WorkerStep, IdlePoll
    <3> QED
      BY <3>1, <3>2 DEF LocalTypes
  <2> QED
    BY <2>1, <2>2, <2>3 DEF LocalTypes
<1>8. CASE Arrive \/ Pull \/ UNCHANGED vars
  BY <1>8 DEF LocalTypes, Arrive, Pull, vars, lifeVars, runVars
<1> QED
  BY <1>2, <1>3, <1>4, <1>5, <1>6, <1>7, <1>8 DEF Next, Over, Main

\* Every variable of the mock's process keeps its type, if what it sends and
\* receives are bytes.
THEOREM MockTyped == ASSUME Octets PROVE Spec => []MockTypeOK
<1>1. Init => FtTypeOK /\ LocalTypes
  <2>1. Init => FtTypeOK
    BY FtTypeInit DEF Init
  <2>2. Zero \in [DOMAIN Zero -> Nat]
    BY DEF Zero
  <2> QED
    BY <2>1, <2>2 DEF Init, LocalTypes, Parts
<1>2. FtTypeOK /\ [Next]_vars => FtTypeOK'
  BY FtTyped
<1>3. LifeInv /\ FtTypeOK /\ LocalTypes => MockTypeOK
  BY DEF LifeInv, LocalTypes, MockTypeOK, Steps, Parts
<1> QED
  BY <1>1, <1>2, <1>3, LocalsTyped, LifeInit, LifeStep, PTL DEF Spec

=============================================================================

------------------------- MODULE AdapterCallsProofs -------------------------
(***************************************************************************)
(* The polling methods are no new way to reach the adapters, so what is    *)
(* proved of the locked methods holds with them too; and the count that    *)
(* read works with is never stale.                                         *)
(***************************************************************************)
EXTENDS AdapterCalls, FT232RLProofs

(***************************************************************************)
(* Types, and with them the refinement: FtTypeOK says that a count fits    *)
(* what FtNext lets a frame be long.                                       *)
(***************************************************************************)
LEMMA StepIsLocked ==
    ASSUME CallsTypeOK, [CallsNext]_allVars
    PROVE  [FtNext]_ftVars
<1>1. ASSUME NEW o \in Objects, OtherCall(o) PROVE FtNext
  BY <1>1 DEF OtherCall, FtNext
<1>2. ASSUME NEW o \in Pollers, StartRead(o) \/ StartDrain(o) PROVE UNCHANGED ftVars
  BY <1>2 DEF StartRead, StartDrain
<1>3. ASSUME NEW o \in Pollers, ReadWait(o) \/ ReadCount(o) \/ ReadWatch(o) \/ waitWriteSuccess(o)
      PROVE  UNCHANGED ftVars
  BY <1>3 DEF ReadWait, ReadCount, ReadWatch, waitWriteSuccess, Throw, throws
<1>4. ASSUME NEW o \in Pollers, ReadTake(o) PROVE FtNext
  <2>1. o \in Objects /\ count[o] \in 0..BufferSize
    BY PollersAssumption DEF CallsTypeOK
  <2>2. CallReadData(o, count[o])
    BY <1>4 DEF ReadTake, CallReadData
  <2>3. FtCall(o)
    BY <2>1, <2>2 DEF FtCall
  <2> QED
    BY <2>1, <2>3 DEF FtNext
<1>5. ASSUME NEW d \in Devices, Outside(d) PROVE FtNext
  BY <1>5 DEF FtNext
<1> QED
  BY <1>1, <1>2, <1>3, <1>4, <1>5 DEF CallsNext, Polling, allVars

\* A thread that still watches has not counted to the end; one that has not
\* begun to watch has not counted.
StillWatching ==
    \A o \in Objects :
        /\ call[o] = "watch" => still[o] < Timeout
        /\ call[o] \notin {"watch", "take"} => still[o] = 0

CallsInv == CallsTypeOK /\ StillWatching

LEMMA CallsInvInit == CallsInit => CallsInv
BY FtTypeInit, BufferAssumption, TimeoutAssumption
DEF CallsInit, CallsInv, CallsTypeOK, StillWatching

LEMMA ChannelCount ==
    ASSUME FtTypeOK, NEW o \in Objects, Live(o)
    PROVE  ftHandle[o] \in Devices /\ checkRXChannel(o) \in 0..BufferSize
<1>1. ftHandle[o] \in Devices
  BY DEF Live, FtTypeOK
<1>2. rx[ftHandle[o]] \in Seq(Byte) /\ Len(rx[ftHandle[o]]) <= BufferSize
  BY <1>1 DEF FtTypeOK, DriverTypeOK
<1>3. Len(rx[ftHandle[o]]) \in 0..BufferSize
  BY <1>2, BufferAssumption
<1> QED
  BY <1>1, <1>3 DEF checkRXChannel, FT_GetQueueStatus

LEMMA CallsInvStep == CallsInv /\ [CallsNext]_allVars => CallsInv'
<1> SUFFICES ASSUME CallsInv, [CallsNext]_allVars PROVE CallsInv'
  OBVIOUS
<1>1. FtTypeOK'
  BY StepIsLocked, FtTypeStep DEF CallsInv, CallsTypeOK
<1> DEFINE Steps == {"none", "wait", "count", "watch", "take", "drain"}
           C == /\ call \in [Objects -> Steps]
                /\ count \in [Objects -> 0..BufferSize]
                /\ still \in [Objects -> 0..Timeout]
                /\ StillWatching
<1> SUFFICES C'
  BY <1>1 DEF CallsInv, CallsTypeOK
<1>2. C /\ FtTypeOK
  BY DEF CallsInv, CallsTypeOK
<1> USE PollersAssumption, TimeoutAssumption, BufferAssumption DEF StillWatching
<1>3. CASE UNCHANGED callVars
  BY <1>2, <1>3 DEF callVars
<1>4. ASSUME NEW o \in Pollers, Leave(o) PROVE C'
  BY <1>2, <1>4 DEF Leave, GoTo
<1>5. ASSUME NEW o \in Pollers, Live(o) PROVE checkRXChannel(o) \in 0..BufferSize
  BY <1>2, <1>5, ChannelCount
<1>6. ASSUME NEW o \in Pollers, StartRead(o) \/ StartDrain(o) PROVE C'
  BY <1>2, <1>6 DEF StartRead, StartDrain, GoTo, At
<1>7. ASSUME NEW o \in Pollers, ReadWait(o) PROVE C'
  BY <1>2, <1>4, <1>7 DEF ReadWait, Throw, GoTo, At
<1>8. ASSUME NEW o \in Pollers, ReadCount(o) PROVE C'
  <2>1. CASE Throw(o)
    BY <2>1, <1>4 DEF Throw
  <2>2. CASE ~Throw(o)
    <3>1. /\ count' \in [Objects -> 0..BufferSize]
          /\ o \in Objects /\ still[o] = 0 /\ still' = still
          /\ call' = [call EXCEPT ![o] = NextPoll(0)]
      BY <1>2, <1>5, <1>8, <2>2 DEF ReadCount, GoTo, At
    <3> QED
      BY <1>2, <3>1 DEF NextPoll
  <2> QED
    BY <2>1, <2>2
<1>9. ASSUME NEW o \in Pollers, ReadWatch(o) PROVE C'
  <2>1. CASE Throw(o)
    BY <2>1, <1>4 DEF Throw
  <2>2. CASE ~Throw(o)
    <3>1. count' \in [Objects -> 0..BufferSize]
      BY <1>2, <1>5, <1>9, <2>2 DEF ReadWatch
    <3>2. o \in Objects /\ still[o] \in Nat /\ still[o] < Timeout
      BY <1>2, <1>9 DEF ReadWatch, At
    <3>3. still' \in [Objects -> 0..Timeout]
      BY <1>2, <1>9, <2>2, <3>2 DEF ReadWatch
    <3>4. call' = [call EXCEPT ![o] = NextPoll(still'[o])]
      BY <1>9, <2>2 DEF ReadWatch, GoTo
    <3>5. \A p \in Objects : p # o => still'[p] = still[p]
      BY <1>2, <1>9, <2>2 DEF ReadWatch
    <3>6. call' \in [Objects -> Steps] /\ StillWatching'
      BY <1>2, <3>2, <3>4, <3>5 DEF NextPoll
    <3> QED
      BY <3>1, <3>3, <3>6
  <2> QED
    BY <2>1, <2>2
<1>10. ASSUME NEW o \in Pollers, ReadTake(o) \/ waitWriteSuccess(o) PROVE C'
  BY <1>2, <1>4, <1>10 DEF ReadTake, waitWriteSuccess, Throw
<1> QED
  BY <1>3, <1>6, <1>7, <1>8, <1>9, <1>10 DEF CallsNext, OtherCall, Polling, allVars, callVars

(***************************************************************************)
(* Every variable of the polling methods keeps its type.                   *)
(***************************************************************************)
THEOREM CallsTypeCorrect == CallsSpec => []CallsTypeOK
<1>1. CallsInv => CallsTypeOK
  BY DEF CallsInv
<1> QED
  BY <1>1, CallsInvInit, CallsInvStep, PTL DEF CallsSpec, CallsSafety

(***************************************************************************)
(* The polling adapter implements the locked one: the initial states are   *)
(* its initial states and every step is one of its steps, or a stutter.    *)
(***************************************************************************)
THEOREM PollingIsLocked == CallsSpec => ImplementsLocked
<1>1. CallsInit => FtInit
  BY DEF CallsInit
<1>2. CallsInv => CallsTypeOK
  BY DEF CallsInv
<1>3. CallsTypeOK /\ [CallsNext]_allVars => [FtNext]_ftVars
  BY StepIsLocked
<1> QED
  BY <1>1, <1>2, <1>3, CallsInvInit, CallsInvStep, PTL
  DEF CallsSpec, CallsSafety, FtSpec, ImplementsLocked
-----------------------------------------------------------------------------
(***************************************************************************)
(* What read has counted stays until it fetches it.  A step of its own     *)
(* object leaves the adapter alone while it counts; another object's step  *)
(* reaches only the adapter whose handle that object holds; and a handle   *)
(* that has died with its plug stays dead (DeadStep).                      *)
(***************************************************************************)
Counting(o) == call[o] \in {"watch", "take"}

LEMMA OthersLeaveQueue ==
    ASSUME HandleInv, NEW p \in Objects, Live(p), ftHandle'[p] = ftHandle[p], Live(p)',
           (\E o \in Objects \ {p} : FtCall(o)) \/ (\E d \in Devices : Outside(d))
    PROVE  Len(rx[ftHandle[p]]) <= Len(rx'[ftHandle[p]])
<1>1. /\ ftHandle[p] \in Devices /\ holder[ftHandle[p]] = p
      /\ rx \in [Devices -> Seq(Byte)]
      /\ holder \in [Devices -> Objects \cup {Nobody}]
      /\ p # Nobody
  BY NobodyAssumption DEF Live, HandleInv, FtTypeOK, DriverTypeOK
<1>2. Len(rx[ftHandle[p]]) \in Nat
  BY <1>1
<1>3. ASSUME NEW o \in Objects \ {p}, FtCall(o) PROVE rx'[ftHandle[p]] = rx[ftHandle[p]]
  <2>1. ASSUME UNCHANGED ftVars PROVE rx' = rx
    BY <2>1 DEF ftVars, lineVars
  <2>2. Live(o) => ftHandle[o] # ftHandle[p]
    BY <1>1 DEF Live
  <2>3. CASE \E d \in Devices : CallConnect(o, d)
    <3>1. PICK d \in Devices : CallConnect(o, d)
      BY <2>3
    <3>2. CASE connectOpens(o, d) \/ connectThrows(o, d)
      BY <1>1, <3>2 DEF connectOpens, connectThrows, CanOpen, FT_SetUSBParameters, FT_Purge
    <3> QED
      BY <2>1, <3>1, <3>2 DEF CallConnect, connectAgain, connectRefused
  <2>4. CASE CallDisconnect(o)
    <3>1. CASE UNCHANGED ftVars
      BY <2>1, <3>1
    <3>2. CASE FT_Close(o, ftHandle[o])
      <4>1. CASE holder[ftHandle[o]] = o
        BY <1>1, <3>2, <4>1 DEF FT_Close
      <4>2. CASE holder[ftHandle[o]] # o
        BY <3>2, <4>2 DEF FT_Close
      <4> QED
        BY <4>1, <4>2
    <3> QED
      BY <2>4, <3>1, <3>2 DEF CallDisconnect, disconnect
  <2>5. CASE CallSetBaudRate(o) \/ CallSetCharacteristics(o)
    BY <2>1, <2>5 DEF CallSetBaudRate, CallSetCharacteristics, throws, setBaudRate,
                      setCharacteristics, lineVars
  <2>6. CASE CallSetUSBParameters(o)
    BY <1>1, <2>1, <2>2, <2>6 DEF CallSetUSBParameters, throws, setUSBParameters,
                                  FT_SetUSBParameters, FT_Purge
  <2>7. ASSUME NEW n, NEW frame, CallWriteData(o, frame) PROVE rx' = rx
    BY <2>1, <2>7 DEF CallWriteData, throws, writeData
  <2>8. ASSUME NEW n, CallReadData(o, n) PROVE rx'[ftHandle[p]] = rx[ftHandle[p]]
    BY <1>1, <2>1, <2>2, <2>8 DEF CallReadData, throws, readData, FT_Purge
  <2> QED
    BY <1>3, <2>3, <2>4, <2>5, <2>6, <2>7, <2>8 DEF FtCall
<1>4. ASSUME NEW d \in Devices, Transmit(d)
      PROVE  Len(rx[ftHandle[p]]) <= Len(rx'[ftHandle[p]])
  <2>1. CASE rx' = rx
    BY <1>2, <2>1
  <2>2. CASE \E b : rx' = [rx EXCEPT ![Wire[d]] = Append(@, b)]
    <3>1. PICK b : rx' = [rx EXCEPT ![Wire[d]] = Append(@, b)]
      BY <2>2
    <3>2. CASE Wire[d] = ftHandle[p]
      <4>1. rx'[ftHandle[p]] = Append(rx[ftHandle[p]], b)
        BY <1>1, <3>1, <3>2
      <4>2. rx[ftHandle[p]] \in Seq(Byte \cup {b})
        BY <1>1
      <4>3. Len(Append(rx[ftHandle[p]], b)) = Len(rx[ftHandle[p]]) + 1
        BY <4>2
      <4> QED
        BY <1>2, <4>1, <4>3
    <3>3. CASE Wire[d] # ftHandle[p]
      BY <1>1, <1>2, <3>1, <3>3
    <3> QED
      BY <3>2, <3>3
  <2> QED
    BY <1>4, <2>1, <2>2 DEF Transmit, Carry
<1>5. ASSUME NEW d \in Devices, Unplug(d) PROVE rx'[ftHandle[p]] = rx[ftHandle[p]]
  <2>1. d # ftHandle[p]
    BY <1>1, <1>5 DEF Unplug, PullPlug, Live
  <2> QED
    BY <1>1, <1>5, <2>1 DEF Unplug, PullPlug
<1>6. ASSUME NEW d \in Devices, Replug(d) PROVE rx' = rx
  BY <1>6 DEF Replug, PutPlug, lineVars
<1> QED
  BY <1>2, <1>3, <1>4, <1>5, <1>6 DEF Outside

\* Nobody connects or disconnects an object whose thread is elsewhere.
LEMMA OthersLeaveHandle ==
    ASSUME FtTypeOK, NEW p \in Objects,
           (\E o \in Objects \ {p} : FtCall(o)) \/ (\E d \in Devices : Outside(d))
    PROVE  m_connected'[p] = m_connected[p] /\ ftHandle'[p] = ftHandle[p]
<1>1. m_connected \in [Objects -> BOOLEAN] /\ ftHandle \in [Objects -> Devices \cup {NoDevice}]
  BY DEF FtTypeOK
<1>2. ASSUME UNCHANGED ftVars PROVE m_connected' = m_connected /\ ftHandle' = ftHandle
  BY <1>2 DEF ftVars, objectVars
<1>3. ASSUME NEW o \in Objects \ {p}, FtCall(o)
      PROVE  m_connected'[p] = m_connected[p] /\ ftHandle'[p] = ftHandle[p]
  <2>1. CASE \E d \in Devices : CallConnect(o, d)
    BY <1>1, <1>2, <2>1 DEF CallConnect, connectAgain, connectRefused, connectOpens, Connected,
                            connectThrows
  <2>2. CASE CallDisconnect(o)
    BY <1>1, <1>2, <2>2 DEF CallDisconnect, disconnect
  <2>3. CASE CallSetBaudRate(o) \/ CallSetCharacteristics(o) \/ CallSetUSBParameters(o)
    BY <1>2, <2>3 DEF CallSetBaudRate, CallSetCharacteristics, CallSetUSBParameters, throws,
                      setBaudRate, setCharacteristics, setUSBParameters, objectVars
  <2>4. ASSUME NEW n, NEW frame, CallWriteData(o, frame) \/ CallReadData(o, n)
        PROVE  m_connected' = m_connected /\ ftHandle' = ftHandle
    BY <1>2, <2>4 DEF CallWriteData, CallReadData, throws, writeData, readData, objectVars
  <2> QED
    BY <1>3, <2>1, <2>2, <2>3, <2>4 DEF FtCall
<1>4. ASSUME NEW d \in Devices, Outside(d) PROVE m_connected' = m_connected /\ ftHandle' = ftHandle
  BY <1>4 DEF Outside, Transmit, Unplug, Replug, objectVars
<1> QED
  BY <1>3, <1>4

CountInv == CallsInv /\ HandleInv /\ CountIsThere

LEMMA CountStep == CountInv /\ [CallsNext]_allVars => CountIsThere'
<1> SUFFICES ASSUME CountInv, [CallsNext]_allVars,
                    NEW p \in Objects, Counting(p)', Live(p)'
             PROVE  count'[p] <= checkRXChannel(p)'
  BY DEF CountIsThere, Counting
<1>1. CallsTypeOK /\ FtTypeOK /\ CountIsThere /\ HandleInv
  BY DEF CountInv, CallsInv, CallsTypeOK
<1>2. [FtNext]_ftVars
  BY <1>1, StepIsLocked
<1>3. /\ ftHandle \in [Objects -> Devices \cup {NoDevice}]
      /\ count \in [Objects -> 0..BufferSize]
      /\ call \in [Objects -> {"none", "wait", "count", "watch", "take", "drain"}]
  BY <1>1 DEF CallsTypeOK, FtTypeOK
<1>4. ASSUME call'[p] = call[p], count'[p] = count[p],
             m_connected'[p] = m_connected[p], ftHandle'[p] = ftHandle[p],
             Live(p) => Len(rx[ftHandle[p]]) <= Len(rx'[ftHandle[p]])
      PROVE  count'[p] <= checkRXChannel(p)'
  <2>1. Live(p)
    BY <1>1, <1>2, <1>4, DeadStep DEF Live
  <2>2. count[p] <= checkRXChannel(p)
    BY <1>1, <1>4, <2>1 DEF CountIsThere, Counting
  <2>3. checkRXChannel(p) \in Nat /\ count[p] \in Nat
    BY <1>1, <1>3, <2>1, ChannelCount, BufferAssumption
  <2>4. FtTypeOK'
    BY <1>1, <1>2, FtTypeStep
  <2>5. checkRXChannel(p)' \in Nat
    <3>1. rx' \in [Devices -> Seq(Byte)] /\ ftHandle'[p] \in Devices
      BY <2>4 DEF FtTypeOK, DriverTypeOK, Live
    <3> QED
      BY <3>1 DEF checkRXChannel, FT_GetQueueStatus
  <2> QED
    BY <1>4, <2>1, <2>2, <2>3, <2>5 DEF checkRXChannel, FT_GetQueueStatus
<1>5. ASSUME UNCHANGED ftVars, call'[p] = call[p], count'[p] = count[p]
      PROVE  count'[p] <= checkRXChannel(p)'
  <2>1. m_connected' = m_connected /\ ftHandle' = ftHandle /\ rx' = rx
    BY <1>5 DEF ftVars, objectVars, lineVars
  <2>2. Live(p) => Len(rx[ftHandle[p]]) <= Len(rx'[ftHandle[p]])
    <3>1. Live(p) => Len(rx[ftHandle[p]]) \in Nat
      BY <1>1, ChannelCount, BufferAssumption DEF checkRXChannel, FT_GetQueueStatus
    <3> QED
      BY <2>1, <3>1
  <2> QED
    BY <1>4, <1>5, <2>1, <2>2
<1>6. ASSUME (\E o \in Objects \ {p} : FtCall(o)) \/ (\E d \in Devices : Outside(d)),
             UNCHANGED callVars
      PROVE  count'[p] <= checkRXChannel(p)'
  <2>1. call'[p] = call[p] /\ count'[p] = count[p]
    BY <1>6 DEF callVars
  <2>2. m_connected'[p] = m_connected[p] /\ ftHandle'[p] = ftHandle[p]
    BY <1>1, <1>6, OthersLeaveHandle
  <2>3. Live(p) => Len(rx[ftHandle[p]]) <= Len(rx'[ftHandle[p]])
    BY <1>1, <1>6, <2>2, OthersLeaveQueue
  <2> QED
    BY <1>4, <2>1, <2>2, <2>3
<1>7. ASSUME OtherCall(p) PROVE FALSE
  BY <1>7 DEF OtherCall, At, Counting, callVars
<1>8. CASE UNCHANGED allVars
  BY <1>5, <1>8 DEF allVars, callVars
<1>9. ASSUME NEW o \in Pollers, o # p, Leave(o) PROVE call'[p] = call[p] /\ count'[p] = count[p]
  BY <1>3, <1>9 DEF Leave, GoTo
<1>10. ASSUME Leave(p) PROVE FALSE
  BY <1>3, <1>10 DEF Leave, GoTo, Counting
<1>11. ASSUME NEW o \in Pollers, StartRead(o) \/ StartDrain(o) \/ Polling(o)
       PROVE  count'[p] <= checkRXChannel(p)'
  <2>1. CASE o # p
    <3>1. call'[p] = call[p] /\ count'[p] = count[p]
      BY <1>3, <1>9, <1>11, <2>1 DEF StartRead, StartDrain, Polling, ReadWait, ReadCount,
          ReadWatch, ReadTake, waitWriteSuccess, Throw, GoTo
    <3>2. CASE ReadTake(o)
      <4>1. o \in Objects /\ count[o] \in 0..BufferSize
        BY <1>3, PollersAssumption
      <4>2. FtCall(o)
        BY <3>2, <4>1 DEF ReadTake, CallReadData, FtCall
      <4>3. m_connected'[p] = m_connected[p] /\ ftHandle'[p] = ftHandle[p]
        BY <1>1, <2>1, <4>1, <4>2, OthersLeaveHandle
      <4>4. Live(p) => Len(rx[ftHandle[p]]) <= Len(rx'[ftHandle[p]])
        BY <1>1, <2>1, <4>1, <4>2, <4>3, OthersLeaveQueue
      <4> QED
        BY <1>4, <3>1, <4>3, <4>4
    <3>3. CASE ~ReadTake(o)
      <4>1. UNCHANGED ftVars
        BY <1>11, <3>3 DEF StartRead, StartDrain, Polling, ReadWait, ReadCount, ReadWatch,
                           waitWriteSuccess, Throw, throws
      <4> QED
        BY <1>5, <3>1, <4>1
    <3> QED
      BY <3>2, <3>3
  <2>2. CASE o = p
    <3>1. ~(StartRead(p) \/ StartDrain(p) \/ ReadWait(p))
      BY <1>3, <1>10 DEF StartRead, StartDrain, ReadWait, Throw, GoTo, Counting
    <3>2. ~(ReadTake(p) \/ waitWriteSuccess(p))
      BY <1>10 DEF ReadTake, waitWriteSuccess, Throw
    <3>3. CASE ReadCount(p) \/ ReadWatch(p)
      <4>1. /\ UNCHANGED ftVars /\ Live(p)
            /\ count'[p] = checkRXChannel(p)
        BY <1>3, <1>10, <3>3 DEF ReadCount, ReadWatch, Throw
      <4>2. checkRXChannel(p)' = checkRXChannel(p)
        BY <4>1 DEF checkRXChannel, FT_GetQueueStatus, ftVars, objectVars, lineVars
      <4>3. checkRXChannel(p) \in Nat
        BY <1>1, <4>1, ChannelCount, BufferAssumption
      <4> QED
        BY <4>1, <4>2, <4>3
    <3> QED
      BY <1>11, <2>2, <3>1, <3>2, <3>3 DEF Polling
  <2> QED
    BY <2>1, <2>2
<1> QED
  BY <1>6, <1>7, <1>8, <1>11 DEF CallsNext, OtherCall

(***************************************************************************)
(* The bytes read has counted are still there when it fetches them.        *)
(***************************************************************************)
THEOREM CountNeverStale == CallsSpec => []CountIsThere
<1>1. CallsInit => CountInv
  <2>1. CallsInit => FtInit /\ CountIsThere
    BY DEF CallsInit, CountIsThere
  <2> QED
    BY <2>1, CallsInvInit, HandleInit DEF CountInv
<1>2. CountInv /\ [CallsNext]_allVars => CountInv'
  <2>1. CountInv /\ [CallsNext]_allVars => [FtNext]_ftVars
    BY StepIsLocked DEF CountInv, CallsInv
  <2> QED
    BY <2>1, CallsInvStep, HandleStep, CountStep DEF CountInv
<1>3. CountInv => CountIsThere
  BY DEF CountInv
<1> QED
  BY <1>1, <1>2, <1>3, PTL DEF CallsSpec, CallsSafety
=============================================================================

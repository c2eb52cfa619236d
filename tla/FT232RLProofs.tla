---------------------------- MODULE FT232RLProofs ----------------------------
(***************************************************************************)
(* Proofs about FT232RL for every set of objects, adapters, bytes and      *)
(* rates, and every wiring.  HandleInv is what makes the properties        *)
(* inductive: a handle is open only on an adapter that is plugged in, and  *)
(* only through an object that knows it.                                   *)
(***************************************************************************)
EXTENDS FT232RL, TLAPS

LEMMA NoDeviceIsNone == NoDevice \notin Devices
BY DevicesAssumption DEF NoDevice

(***************************************************************************)
(* What a step can be, with the calls that change nothing set apart.       *)
(***************************************************************************)
LEMMA FtSteps ==
    ASSUME FtNext
    PROVE  \/ UNCHANGED ftVars
           \/ \E o \in Objects, d \in Devices : connectOpens(o, d)
           \/ \E o \in Objects, d \in Devices : connectThrows(o, d)
           \/ \E o \in Objects : disconnect(o)
           \/ \E o \in Objects, b \in BaudRates : setBaudRate(o, b)
           \/ \E o \in Objects : setUSBParameters(o)
           \/ \E o \in Objects, f \in Formats : setCharacteristics(o, f)
           \/ \E o \in Objects, frame \in Seq(Byte) : writeData(o, frame)
           \/ \E o \in Objects, n \in 0..BufferSize : readData(o, n, Fetched(o, n))
           \/ \E d \in Devices : Transmit(d)
           \/ \E d \in Devices : Unplug(d)
           \/ \E d \in Devices : Replug(d)
<1>1. ASSUME NEW n \in 0..BufferSize, NEW frame \in [1..n -> Byte]
      PROVE  frame \in Seq(Byte)
  <2>1. n \in Nat
    BY BufferAssumption
  <2> QED
    BY <2>1
<1>2. CASE \E o \in Objects, d \in Devices : CallConnect(o, d)
  BY <1>2 DEF CallConnect, connectAgain, connectRefused
<1>3. CASE \E o \in Objects : CallDisconnect(o)
  BY <1>3 DEF CallDisconnect
<1>4. CASE \E o \in Objects : CallSetBaudRate(o)
  BY <1>4 DEF CallSetBaudRate, throws
<1>5. CASE \E o \in Objects : CallSetUSBParameters(o) \/ CallSetCharacteristics(o)
  BY <1>5 DEF CallSetUSBParameters, CallSetCharacteristics, throws
<1>6. CASE \E o \in Objects : \E n \in 0..BufferSize : \E frame \in [1..n -> Byte] : CallWriteData(o, frame)
  BY <1>1, <1>6 DEF CallWriteData, throws
<1>7. CASE \E o \in Objects : \E n \in 0..BufferSize : CallReadData(o, n)
  BY <1>7 DEF CallReadData, throws
<1>8. CASE \E d \in Devices : Outside(d)
  BY <1>8 DEF Outside
<1> QED
  BY <1>2, <1>3, <1>4, <1>5, <1>6, <1>7, <1>8 DEF FtNext, FtCall

-----------------------------------------------------------------------------
(* The queues: what is put into them fits.                                 *)

Queue == {q \in Seq(Byte) : Len(q) <= BufferSize}

LEMMA EmptyQueue == <<>> \in Queue
BY BufferAssumption DEF Queue

LEMMA FittingIsQueue ==
    ASSUME NEW q \in Queue, NEW frame \in Seq(Byte)
    PROVE  Fitting(q, frame) \in Queue
<1> DEFINE all == q \o frame
           n == IF Len(all) <= BufferSize THEN Len(all) ELSE BufferSize
<1>1. all \in Seq(Byte)
  BY DEF Queue
<1>2. n \in 0..Len(all) /\ n <= BufferSize
  BY <1>1, BufferAssumption
<1> HIDE DEF all, n
<1>3. SubSeq(all, 1, n) \in Seq(Byte) /\ Len(SubSeq(all, 1, n)) = n
  BY <1>1, <1>2
<1> QED
  BY <1>2, <1>3 DEF Fitting, Queue, all, n

(***************************************************************************)
(* The types of the queues in one piece, as the steps use them.            *)
(***************************************************************************)
LEMMA QueueTypes ==
    DriverTypeOK <=>
        /\ attached \subseteq Devices
        /\ holder \in [Devices -> Objects \cup {Nobody}]
        /\ chipBaud \in [Devices -> BaudRates]
        /\ chipFormat \in [Devices -> Formats]
        /\ rx \in [Devices -> Queue]
        /\ tx \in [Devices -> Queue]
<1>1. ASSUME NEW f
      PROVE  f \in [Devices -> Queue]
                <=> f \in [Devices -> Seq(Byte)] /\ \A d \in Devices : Len(f[d]) <= BufferSize
  BY DEF Queue
<1> QED
  BY <1>1 DEF DriverTypeOK

-----------------------------------------------------------------------------
(***************************************************************************)
(* Every variable keeps its type.                                          *)
(***************************************************************************)
LEMMA FtTypeInit == FtInit => FtTypeOK
BY BaudAssumption, BufferAssumption DEF FtInit, DriverInit, FtTypeOK, DriverTypeOK

LEMMA FtTypeStep == FtTypeOK /\ [FtNext]_ftVars => FtTypeOK'
<1> SUFFICES ASSUME FtTypeOK, [FtNext]_ftVars PROVE FtTypeOK'
  OBVIOUS
<1> DEFINE T == /\ m_connected \in [Objects -> BOOLEAN]
                /\ m_deviceId \in [Objects -> Devices \cup {NoDevice}]
                /\ m_baudrate \in [Objects -> BaudRates]
                /\ ftHandle \in [Objects -> Devices \cup {NoDevice}]
                /\ attached \subseteq Devices
                /\ holder \in [Devices -> Objects \cup {Nobody}]
                /\ chipBaud \in [Devices -> BaudRates]
                /\ chipFormat \in [Devices -> Formats]
                /\ rx \in [Devices -> Queue]
                /\ tx \in [Devices -> Queue]
<1>a. T
  BY QueueTypes DEF FtTypeOK
<1>b. SUFFICES T'
  BY QueueTypes, PTL DEF FtTypeOK
<1> USE EmptyQueue, <1>a
<1>1. CASE UNCHANGED ftVars
  BY <1>1 DEF ftVars, objectVars, driverVars, lineVars
<1>2. ASSUME NEW o \in Objects, NEW d \in Devices, connectOpens(o, d) PROVE T'
  BY <1>2 DEF connectOpens, Connected, FT_Open, FT_SetBaudRate, FT_SetUSBParameters, FT_Purge
<1>3. ASSUME NEW o \in Objects, NEW d \in Devices, connectThrows(o, d) PROVE T'
  BY <1>3 DEF connectThrows, FT_SetBaudRate, FT_Purge
<1>4. ASSUME NEW o \in Objects, disconnect(o) PROVE T'
  <2>1. CASE UNCHANGED ftVars
    BY <2>1, <1>1
  <2>2. CASE m_connected[o] /\ ftHandle[o] # NoDevice
    <3>1. /\ holder' \in [Devices -> Objects \cup {Nobody}]
          /\ rx' \in [Devices -> Queue]
          /\ tx' \in [Devices -> Queue]
      BY <1>4, <2>2 DEF disconnect, FT_Close
    <3> QED
      BY <1>4, <2>2, <3>1 DEF disconnect
  <2> QED
    BY <1>4, <2>1, <2>2 DEF disconnect
<1>5. ASSUME NEW o \in Objects, NEW b \in BaudRates, setBaudRate(o, b) PROVE T'
  BY <1>5 DEF setBaudRate, FT_SetBaudRate, lineVars
<1>6. ASSUME NEW o \in Objects, setUSBParameters(o) PROVE T'
  BY <1>6 DEF setUSBParameters, FT_SetUSBParameters, FT_Purge, objectVars, driverVars
<1>7. ASSUME NEW o \in Objects, NEW f \in Formats, setCharacteristics(o, f) PROVE T'
  BY <1>7 DEF setCharacteristics, FT_SetDataCharacteristics, objectVars, lineVars
<1>8. ASSUME NEW o \in Objects, NEW frame \in Seq(Byte), writeData(o, frame) PROVE T'
  <2>1. ftHandle[o] \in Devices
    BY <1>8 DEF writeData, Live
  <2>2. Fitting(tx[ftHandle[o]], frame) \in Queue
    BY <2>1, FittingIsQueue
  <2>3. tx' \in [Devices -> Queue]
    BY <1>8, <2>2 DEF writeData, FT_Write
  <2> QED
    BY <1>8, <2>3 DEF writeData, objectVars, driverVars
<1>9. ASSUME NEW o \in Objects, NEW n \in 0..BufferSize, readData(o, n, Fetched(o, n)) PROVE T'
  BY <1>9 DEF readData, FT_Purge, objectVars, driverVars
<1>10. ASSUME NEW d \in Devices, Transmit(d) PROVE T'
  <2>1. /\ tx[d] \in Seq(Byte) /\ Len(tx[d]) <= BufferSize /\ tx[d] # <<>>
        /\ Head(tx[d]) \in Byte
    BY <1>10 DEF Transmit, Carry, Queue
  <2>2. Tail(tx[d]) \in Queue
    <3>1. Tail(tx[d]) \in Seq(Byte) /\ Len(Tail(tx[d])) = Len(tx[d]) - 1 /\ Len(tx[d]) \in Nat
      BY <2>1
    <3> QED
      BY <2>1, <3>1, BufferAssumption DEF Queue
  <2>3. tx' \in [Devices -> Queue]
    BY <1>10, <2>2 DEF Transmit, Carry
  <2>4. rx' \in [Devices -> Queue]
    <3>1. Wire[d] \in Devices
      BY WireAssumption
    <3>2. CASE UNCHANGED rx
      BY <3>2
    <3>3. CASE /\ Len(rx[Wire[d]]) # BufferSize
               /\ \E b \in Byte : rx' = [rx EXCEPT ![Wire[d]] = Append(@, b)]
      <4> PICK b \in Byte : rx' = [rx EXCEPT ![Wire[d]] = Append(@, b)]
        BY <3>3
      <4>1. /\ rx[Wire[d]] \in Seq(Byte) /\ Len(rx[Wire[d]]) \in Nat
            /\ Len(rx[Wire[d]]) <= BufferSize
        BY <3>1 DEF Queue
      <4>2. /\ Append(rx[Wire[d]], b) \in Seq(Byte)
            /\ Len(Append(rx[Wire[d]], b)) = Len(rx[Wire[d]]) + 1
        BY <4>1
      <4>3. Append(rx[Wire[d]], b) \in Queue
        BY <3>3, <4>1, <4>2, BufferAssumption DEF Queue
      <4> QED
        BY <4>3
    <3>4. \/ UNCHANGED rx
          \/ /\ Len(rx[Wire[d]]) # BufferSize
             /\ \E b \in Byte : rx' = [rx EXCEPT ![Wire[d]] = Append(@, b)]
      BY <1>10, <2>1 DEF Transmit, Carry
    <3> QED
      BY <3>2, <3>3, <3>4
  <2> QED
    BY <1>10, <2>3, <2>4 DEF Transmit, Carry, objectVars, driverVars
<1>11. ASSUME NEW d \in Devices, Unplug(d) PROVE T'
  BY <1>11 DEF Unplug, PullPlug, objectVars
<1>12. ASSUME NEW d \in Devices, Replug(d) PROVE T'
  BY <1>12 DEF Replug, PutPlug, objectVars, lineVars
<1> QED
  BY <1>1, <1>2, <1>3, <1>4, <1>5, <1>6, <1>7, <1>8, <1>9, <1>10, <1>11, <1>12, FtSteps

THEOREM FtTypeCorrect == FtSpec => []FtTypeOK
BY FtTypeInit, FtTypeStep, PTL DEF FtSpec

-----------------------------------------------------------------------------
(***************************************************************************)
(* No handle leaks.  The failed configuration is the delicate step: the    *)
(* object's ftHandle moves to an adapter it will not hold, which is sound  *)
(* because an unconnected object holds nothing.                            *)
(***************************************************************************)
HeldIsAttached == \A d \in Devices : holder[d] # Nobody => d \in attached

HandleInv == FtTypeOK /\ NoLeakedHandle /\ HeldIsAttached

LEMMA HandleInit == FtInit => HandleInv
BY FtTypeInit, NobodyAssumption DEF FtInit, DriverInit, HandleInv, NoLeakedHandle, HeldIsAttached

LEMMA HandleStep == HandleInv /\ [FtNext]_ftVars => HandleInv'
<1> SUFFICES ASSUME HandleInv, [FtNext]_ftVars PROVE NoLeakedHandle' /\ HeldIsAttached'
  BY FtTypeStep DEF HandleInv
<1> USE NobodyAssumption, NoDeviceIsNone DEF HandleInv, FtTypeOK, DriverTypeOK, NoLeakedHandle, HeldIsAttached
<1>1. CASE UNCHANGED ftVars
  BY <1>1 DEF ftVars, objectVars, driverVars, lineVars
<1>2. ASSUME NEW o \in Objects, NEW d \in Devices, connectOpens(o, d)
      PROVE  NoLeakedHandle' /\ HeldIsAttached'
  <2>1. \A e \in Devices : holder[e] # o
    BY <1>2 DEF connectOpens, Connected, CanOpen, FT_Open, FT_SetBaudRate
  <2> QED
    BY <1>2, <2>1 DEF connectOpens, Connected, CanOpen, FT_Open, FT_SetBaudRate
<1>3. ASSUME NEW o \in Objects, NEW d \in Devices, connectThrows(o, d)
      PROVE  NoLeakedHandle' /\ HeldIsAttached'
  <2>1. \A e \in Devices : holder[e] # o
    BY <1>3 DEF connectThrows, CanOpen, FT_SetBaudRate
  <2> QED
    BY <1>3, <2>1 DEF connectThrows, CanOpen, FT_SetBaudRate
<1>4. ASSUME NEW o \in Objects, disconnect(o)
      PROVE  NoLeakedHandle' /\ HeldIsAttached'
  <2>1. CASE UNCHANGED ftVars
    BY <2>1, <1>1
  <2>2. CASE m_connected[o] /\ ftHandle[o] # NoDevice
    <3>1. \A e \in Devices : holder'[e] # o
      <4>1. \A e \in Devices : e # ftHandle[o] => holder[e] # o
        OBVIOUS
      <4>2. IF holder[ftHandle[o]] = o
            THEN holder' = [holder EXCEPT ![ftHandle[o]] = Nobody]
            ELSE holder' = holder
        BY <1>4, <2>2 DEF disconnect, FT_Close
      <4>3. holder[ftHandle[o]] = o => holder'[ftHandle[o]] = Nobody /\ ftHandle[o] \in Devices
        BY <4>2, <2>2
      <4>4. \A e \in Devices : e # ftHandle[o] => holder'[e] = holder[e]
        BY <4>2
      <4>5. o # Nobody
        BY NobodyAssumption
      <4>6. ASSUME NEW e \in Devices PROVE holder'[e] # o
        <5>1. CASE e = ftHandle[o] /\ holder[ftHandle[o]] = o
          BY <5>1, <4>3, <4>5
        <5>2. CASE e = ftHandle[o] /\ holder[ftHandle[o]] # o
          BY <5>2, <4>2
        <5>3. CASE e # ftHandle[o]
          BY <5>3, <4>1, <4>4
        <5> QED
          BY <5>1, <5>2, <5>3
      <4> QED
        BY <4>6
    <3>2. \A e \in Devices : holder'[e] \in {holder[e], Nobody}
      BY <1>4, <2>2 DEF disconnect, FT_Close
    <3> QED
      BY <1>4, <2>2, <3>1, <3>2 DEF disconnect
  <2> QED
    BY <1>4, <2>1, <2>2 DEF disconnect
<1>5. ASSUME NEW o \in Objects, NEW b \in BaudRates, setBaudRate(o, b)
      PROVE  NoLeakedHandle' /\ HeldIsAttached'
  BY <1>5 DEF setBaudRate, FT_SetBaudRate
<1>6. ASSUME NEW o \in Objects, setUSBParameters(o)
      PROVE  NoLeakedHandle' /\ HeldIsAttached'
  BY <1>6 DEF setUSBParameters, objectVars, driverVars
<1>7. ASSUME NEW o \in Objects, NEW f \in Formats, setCharacteristics(o, f)
      PROVE  NoLeakedHandle' /\ HeldIsAttached'
  BY <1>7 DEF setCharacteristics, objectVars
<1>8. ASSUME NEW o \in Objects, NEW frame \in Seq(Byte), writeData(o, frame)
      PROVE  NoLeakedHandle' /\ HeldIsAttached'
  BY <1>8 DEF writeData, objectVars, driverVars
<1>9. ASSUME NEW o \in Objects, NEW n \in 0..BufferSize, readData(o, n, Fetched(o, n))
      PROVE  NoLeakedHandle' /\ HeldIsAttached'
  BY <1>9 DEF readData, objectVars, driverVars
<1>10. ASSUME NEW d \in Devices, Transmit(d) PROVE NoLeakedHandle' /\ HeldIsAttached'
  BY <1>10 DEF Transmit, Carry, objectVars, driverVars
<1>11. ASSUME NEW d \in Devices, Unplug(d) PROVE NoLeakedHandle' /\ HeldIsAttached'
  BY <1>11 DEF Unplug, PullPlug, objectVars
<1>12. ASSUME NEW d \in Devices, Replug(d) PROVE NoLeakedHandle' /\ HeldIsAttached'
  BY <1>12 DEF Replug, PutPlug, objectVars
<1> QED
  BY <1>1, <1>2, <1>3, <1>4, <1>5, <1>6, <1>7, <1>8, <1>9, <1>10, <1>11, <1>12, FtSteps

THEOREM NoHandleLeaks == FtSpec => []NoLeakedHandle
<1>1. FtSpec => []HandleInv
  BY HandleInit, HandleStep, PTL DEF FtSpec
<1>2. HandleInv => NoLeakedHandle
  BY DEF HandleInv
<1> QED
  BY <1>1, <1>2, PTL

-----------------------------------------------------------------------------
(***************************************************************************)
(* The reported rate is the chip's.  The steps that set a chip's rate      *)
(* without the member (a failed configuration, a replug) touch adapters    *)
(* that nobody holds.                                                      *)
(***************************************************************************)
LEMMA BaudInit == FtInit => BaudInStep
BY DEF FtInit, BaudInStep, Live

LEMMA BaudStep == HandleInv /\ BaudInStep /\ [FtNext]_ftVars => BaudInStep'
<1> SUFFICES ASSUME HandleInv, BaudInStep, [FtNext]_ftVars,
                    NEW p \in Objects, Live(p)'
             PROVE  chipBaud'[ftHandle'[p]] = m_baudrate'[p]
  BY DEF BaudInStep, getBaudRate, Live
<1> USE NobodyAssumption, NoDeviceIsNone
    DEF HandleInv, FtTypeOK, DriverTypeOK, NoLeakedHandle, HeldIsAttached, BaudInStep, getBaudRate, Live
<1>1. CASE UNCHANGED ftVars
  BY <1>1 DEF ftVars, objectVars, driverVars, lineVars
<1>2. CASE \E o \in Objects, d \in Devices : connectOpens(o, d)
  BY <1>2 DEF connectOpens, Connected, CanOpen, FT_Open, FT_SetBaudRate
<1>3. CASE \E o \in Objects, d \in Devices : connectThrows(o, d)
  BY <1>3 DEF connectThrows, CanOpen, FT_SetBaudRate
<1>4. CASE \E o \in Objects : disconnect(o)
  <2> PICK o \in Objects : disconnect(o)
    BY <1>4
  <2>1. CASE UNCHANGED ftVars
    BY <2>1, <1>1
  <2>2. CASE m_connected[o] /\ ftHandle[o] # NoDevice
    <3>1. \A e \in Devices : holder'[e] \in {holder[e], Nobody}
      BY <2>2 DEF disconnect, FT_Close
    <3>2. p # o
      BY <2>2 DEF disconnect
    <3>3. ftHandle'[p] = ftHandle[p] /\ m_connected'[p] = m_connected[p]
      <4>1. ftHandle' = [ftHandle EXCEPT ![o] = NoDevice]
        BY <2>2 DEF disconnect
      <4>2. m_connected' = [m_connected EXCEPT ![o] = FALSE]
        BY <2>2 DEF disconnect
      <4> QED
        BY <3>2, <4>1, <4>2
    <3>4. ftHandle[p] \in Devices
      BY <3>3
    <3>5. holder[ftHandle[p]] = p
      BY <3>1, <3>3, <3>4
    <3>6. chipBaud' = chipBaud /\ m_baudrate' = m_baudrate
      BY <2>2 DEF disconnect
    <3>7. ftHandle[p] # NoDevice
      BY <3>4
    <3>8. m_connected[p]
      BY <3>3
    <3>9. chipBaud[ftHandle[p]] = m_baudrate[p]
      BY <3>5, <3>7, <3>8
    <3> QED
      BY <3>3, <3>6, <3>9
  <2> QED
    BY <2>1, <2>2 DEF disconnect
<1>5. CASE \E o \in Objects, b \in BaudRates : setBaudRate(o, b)
  BY <1>5 DEF setBaudRate, FT_SetBaudRate
<1>6. CASE \E o \in Objects : setUSBParameters(o)
  BY <1>6 DEF setUSBParameters, objectVars, driverVars
<1>7. CASE \E o \in Objects, f \in Formats : setCharacteristics(o, f)
  BY <1>7 DEF setCharacteristics, objectVars
<1>8. CASE \E o \in Objects, frame \in Seq(Byte) : writeData(o, frame)
  BY <1>8 DEF writeData, objectVars, driverVars
<1>9. CASE \E o \in Objects, n \in 0..BufferSize : readData(o, n, Fetched(o, n))
  BY <1>9 DEF readData, objectVars, driverVars
<1>10. CASE \E d \in Devices : Transmit(d)
  BY <1>10 DEF Transmit, Carry, objectVars, driverVars
<1>11. CASE \E d \in Devices : Unplug(d)
  BY <1>11 DEF Unplug, PullPlug, objectVars
<1>12. CASE \E d \in Devices : Replug(d)
  BY <1>12 DEF Replug, PutPlug, objectVars
<1> QED
  BY <1>1, <1>2, <1>3, <1>4, <1>5, <1>6, <1>7, <1>8, <1>9, <1>10, <1>11, <1>12, FtSteps

THEOREM BaudStaysInStep == FtSpec => []BaudInStep
<1>1. FtSpec => []HandleInv
  BY HandleInit, HandleStep, PTL DEF FtSpec
<1> QED
  BY <1>1, BaudInit, BaudStep, PTL DEF FtSpec

-----------------------------------------------------------------------------
(***************************************************************************)
(* A connection lost with its plug does not come back by itself: an        *)
(* adapter gets a holder in connectOpens only, and that one was not        *)
(* connected before.                                                       *)
(***************************************************************************)
LEMMA DeadStep ==
    ASSUME HandleInv, [FtNext]_ftVars,
           NEW p \in Objects, m_connected[p], ~Live(p), m_connected'[p]
    PROVE  ~Live(p)'
<1> USE NobodyAssumption, NoDeviceIsNone DEF HandleInv, FtTypeOK, DriverTypeOK, Live
<1>1. CASE UNCHANGED ftVars
  BY <1>1 DEF ftVars, objectVars, driverVars, lineVars
<1>2. CASE \E o \in Objects, d \in Devices : connectOpens(o, d)
  BY <1>2 DEF connectOpens, Connected, CanOpen, FT_Open, FT_SetBaudRate
<1>3. CASE \E o \in Objects, d \in Devices : connectThrows(o, d)
  BY <1>3 DEF connectThrows, CanOpen, FT_SetBaudRate
<1>4. CASE \E o \in Objects : disconnect(o)
  <2> PICK o \in Objects : disconnect(o)
    BY <1>4
  <2>1. CASE UNCHANGED ftVars
    BY <2>1, <1>1
  <2>2. CASE m_connected[o] /\ ftHandle[o] # NoDevice
    <3>1. \A e \in Devices : holder'[e] \in {holder[e], Nobody}
      BY <2>2 DEF disconnect, FT_Close
    <3> QED
      BY <2>2, <3>1 DEF disconnect
  <2> QED
    BY <2>1, <2>2 DEF disconnect
<1>5. CASE \E o \in Objects, b \in BaudRates : setBaudRate(o, b)
  BY <1>5 DEF setBaudRate, FT_SetBaudRate
<1>6. CASE \E o \in Objects : setUSBParameters(o)
  BY <1>6 DEF setUSBParameters, objectVars, driverVars
<1>7. CASE \E o \in Objects, f \in Formats : setCharacteristics(o, f)
  BY <1>7 DEF setCharacteristics, objectVars
<1>8. CASE \E o \in Objects, frame \in Seq(Byte) : writeData(o, frame)
  BY <1>8 DEF writeData, objectVars, driverVars
<1>9. CASE \E o \in Objects, n \in 0..BufferSize : readData(o, n, Fetched(o, n))
  BY <1>9 DEF readData, objectVars, driverVars
<1>10. CASE \E d \in Devices : Transmit(d)
  BY <1>10 DEF Transmit, Carry, objectVars, driverVars
<1>11. CASE \E d \in Devices : Unplug(d)
  BY <1>11 DEF Unplug, PullPlug, objectVars
<1>12. CASE \E d \in Devices : Replug(d)
  BY <1>12 DEF Replug, PutPlug, objectVars
<1> QED
  BY <1>1, <1>2, <1>3, <1>4, <1>5, <1>6, <1>7, <1>8, <1>9, <1>10, <1>11, <1>12, FtSteps

THEOREM DeadStaysDead == FtSpec => DeadUntilDisconnect
<1>1. FtSpec => []HandleInv
  BY HandleInit, HandleStep, PTL DEF FtSpec
<1>2. HandleInv /\ [FtNext]_ftVars =>
        [\A o \in Objects : m_connected[o] /\ ~Live(o) /\ m_connected'[o] => ~Live(o)']_ftVars
  BY DeadStep
<1> QED
  BY <1>1, <1>2, PTL DEF FtSpec, DeadUntilDisconnect
=============================================================================

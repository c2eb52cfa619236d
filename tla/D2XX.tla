-------------------------------- MODULE D2XX --------------------------------
(***************************************************************************)
(* The D2XX driver as its header promises it (driver/ftd2xxlib/ftd2xx.h),  *)
(* for the functions FT232RL calls, and what lies under it: the adapters,  *)
(* their plugs and the serial lines between them.  An operator named after *)
(* a function gives its result, or its effect when it returns FT_OK; that  *)
(* it may fail is up to the caller.  A handle is written as the adapter it *)
(* was opened on and the object that opened it.                            *)
(***************************************************************************)
EXTENDS Integers, Sequences, FiniteSets

CONSTANTS
    Objects,      \* the FT232RL objects of all processes
    Devices,      \* the adapters, named by their D2XX index
    Wire,         \* the adapter at the other end of an adapter's serial line
    Byte,         \* the bytes that may travel
    BaudRates,    \* the rates a chip can run at
    Formats,      \* word length, stop bits and parity, as one value
    BufferSize,   \* the bytes a receive or transmit queue holds
    Nobody        \* the holder of an adapter that nobody has opened

\* device_info_ has room for three adapters (ft232rl.hpp:84-95)
ASSUME DevicesAssumption == Devices \subseteq 0..2
ASSUME WireAssumption == Wire \in [Devices -> Devices]
ASSUME ByteAssumption == 0 \in Byte
ASSUME BufferAssumption == BufferSize \in Nat
ASSUME NobodyAssumption == Nobody \notin Objects

VARIABLES
    attached,     \* the adapters plugged in
    holder,       \* adapter -> the object whose handle is open on it
    chipBaud,     \* adapter -> the rate its chip runs at
    chipFormat,   \* adapter -> the characteristics of its frames
    rx,           \* adapter -> bytes received and not yet read
    tx            \* adapter -> bytes written and not yet sent

driverVars == <<attached, holder, chipBaud, chipFormat>>
lineVars   == <<rx, tx>>

DriverTypeOK ==
    /\ attached \subseteq Devices
    /\ holder \in [Devices -> Objects \cup {Nobody}]
    /\ chipBaud \in [Devices -> BaudRates]
    /\ chipFormat \in [Devices -> Formats]
    /\ rx \in [Devices -> Seq(Byte)]
    /\ tx \in [Devices -> Seq(Byte)]
    /\ \A d \in Devices : Len(rx[d]) <= BufferSize /\ Len(tx[d]) <= BufferSize

DriverInit ==
    /\ attached = Devices
    /\ holder = [d \in Devices |-> Nobody]
    /\ chipBaud \in [Devices -> BaudRates]
    /\ chipFormat \in [Devices -> Formats]
    /\ rx = [d \in Devices |-> <<>>]
    /\ tx = [d \in Devices |-> <<>>]

-----------------------------------------------------------------------------
(* The functions.                                                          *)

\* FT_Open succeeds on an adapter that is plugged in and not opened yet.
CanOpen(d) == d \in attached /\ holder[d] = Nobody

FT_Open(o, d) == holder' = [holder EXCEPT ![d] = o]

\* Frees the adapter if the handle was still open on it, and what the driver
\* had buffered is gone.
FT_Close(o, d) ==
    IF holder[d] = o
    THEN /\ holder' = [holder EXCEPT ![d] = Nobody]
         /\ rx' = [rx EXCEPT ![d] = <<>>]
         /\ tx' = [tx EXCEPT ![d] = <<>>]
    ELSE UNCHANGED <<holder, rx, tx>>

FT_SetBaudRate(d, b) == chipBaud' = [chipBaud EXCEPT ![d] = b]

FT_SetDataCharacteristics(d, f) == chipFormat' = [chipFormat EXCEPT ![d] = f]

FT_Purge(d) == rx' = [rx EXCEPT ![d] = <<>>] /\ tx' = [tx EXCEPT ![d] = <<>>]

\* "any data that was held in the driver at the time of the change is lost"
FT_SetUSBParameters(d) == FT_Purge(d)

FT_GetQueueStatus(d) == Len(rx[d])

\* The characters in the receive queue and in the transmit queue.
FT_GetStatus(d) == <<Len(rx[d]), Len(tx[d])>>

\* As much as the queue takes before the write times out; still FT_OK.
Fitting(queue, frame) ==
    LET all == queue \o frame
    IN  SubSeq(all, 1, IF Len(all) <= BufferSize THEN Len(all) ELSE BufferSize)
FT_Write(d, frame) == tx' = [tx EXCEPT ![d] = Fitting(@, frame)]

\* The bytes FT_Read puts into a buffer of n zeros: a timeout leaves the rest
\* of the buffer as it was, and is not an error.
FT_Read(d, n) == [i \in 1..n |-> IF i <= Len(rx[d]) THEN rx[d][i] ELSE 0]

\* Lists open and unopened adapters; of one that another process has open the
\* fields are not filled in.
FT_CreateDeviceInfoList == attached
FT_GetDeviceInfoList(o) ==
    [d \in FT_CreateDeviceInfoList |-> holder[d] \in {o, Nobody}]

\* Succeeds on an entry of that list.
FT_GetDeviceInfoDetail(d) == d \in FT_CreateDeviceInfoList

-----------------------------------------------------------------------------
(* The wire and the plug, outside the program.                             *)

\* The two ends of a byte's way understand each other.
SameTongue(d, p) == chipBaud[p] = chipBaud[d] /\ chipFormat[p] = chipFormat[d]

\* One byte crosses.  A receiver at another rate, or set to other frames,
\* samples some other byte; an adapter that nobody has opened, or whose queue
\* is full, drops it.
Carry(d) ==
    /\ tx[d] # <<>>
    /\ tx' = [tx EXCEPT ![d] = Tail(@)]
    /\ LET p == Wire[d]
       IN  IF holder[p] = Nobody \/ Len(rx[p]) = BufferSize
           THEN UNCHANGED rx
           ELSE \E b \in IF SameTongue(d, p) THEN {Head(tx[d])} ELSE Byte :
                    rx' = [rx EXCEPT ![p] = Append(@, b)]
    /\ UNCHANGED driverVars

\* The handle dies with the plug; no object is told.
PullPlug(d) ==
    /\ d \in attached
    /\ attached' = attached \ {d}
    /\ holder' = [holder EXCEPT ![d] = Nobody]
    /\ rx' = [rx EXCEPT ![d] = <<>>]
    /\ tx' = [tx EXCEPT ![d] = <<>>]
    /\ UNCHANGED <<chipBaud, chipFormat>>

\* The chip starts again with some rate and format.
PutPlug(d) ==
    /\ d \notin attached
    /\ attached' = attached \cup {d}
    /\ chipBaud' \in {[chipBaud EXCEPT ![d] = b] : b \in BaudRates}
    /\ chipFormat' \in {[chipFormat EXCEPT ![d] = f] : f \in Formats}
    /\ UNCHANGED <<holder, lineVars>>
=============================================================================

------------------------------ MODULE FT232RL ------------------------------
(***************************************************************************)
(* The serial adapter class FT232RL (source/module_rs232/ft232rl.cpp).     *)
(*                                                                         *)
(* Several FT232RL objects share the adapters of one machine: the service  *)
(* owns one, the mock controller owns another.  A method that holds the    *)
(* object's mutex is one action.  The operators with lower-case names are  *)
(* the methods; what a method returns is a parameter of its operator.      *)
(* The two methods that poll, read and waitWriteSuccess, are in            *)
(* AdapterCalls.                                                           *)
(***************************************************************************)
EXTENDS D2XX

CONSTANTS
    DefaultBaud   \* 115200, ft232rl.cpp:3

NoDevice == -1    \* m_deviceId when unset, and a null ftHandle

ASSUME BaudAssumption == DefaultBaud \in BaudRates

VARIABLES
    m_connected,  \* object -> is it connected
    m_deviceId,   \* object -> the index it connected to
    m_baudrate,   \* object -> the rate it asks for
    ftHandle      \* object -> the adapter its handle was opened on

objectVars == <<m_connected, m_deviceId, m_baudrate, ftHandle>>
ftVars     == <<objectVars, driverVars, lineVars>>

FtTypeOK ==
    /\ m_connected \in [Objects -> BOOLEAN]
    /\ m_deviceId \in [Objects -> Devices \cup {NoDevice}]
    /\ m_baudrate \in [Objects -> BaudRates]
    /\ ftHandle \in [Objects -> Devices \cup {NoDevice}]
    /\ DriverTypeOK

\* ftHandle is not initialised by the constructor: it may be anything.
FtInit ==
    /\ m_connected = [o \in Objects |-> FALSE]
    /\ m_deviceId = [o \in Objects |-> NoDevice]
    /\ m_baudrate = [o \in Objects |-> DefaultBaud]
    /\ ftHandle \in [Objects -> Devices \cup {NoDevice}]
    /\ DriverInit

-----------------------------------------------------------------------------
(* The methods.                                                            *)

\* The object's handle is open: the D2XX functions it calls succeed.
Live(o) ==
    /\ m_connected[o]
    /\ ftHandle[o] # NoDevice
    /\ holder[ftHandle[o]] = o

\* The methods below throw, and change nothing, when the object is not
\* connected or its handle is dead.
throws(o) == ~Live(o) /\ UNCHANGED ftVars

\* connect on a connected object opens nothing and compares the indices.
connectAgain(o, d, result) ==
    /\ m_connected[o]
    /\ result = (m_deviceId[o] = d)
    /\ UNCHANGED ftVars

connectRefused(o, d) ==
    /\ ~m_connected[o]
    /\ ~CanOpen(d)
    /\ UNCHANGED ftVars

\* The members as connect leaves them.
Connected(o, d) ==
    /\ m_connected' = [m_connected EXCEPT ![o] = TRUE]
    /\ m_deviceId' = [m_deviceId EXCEPT ![o] = d]
    /\ ftHandle' = [ftHandle EXCEPT ![o] = d]
    /\ UNCHANGED m_baudrate

\* The last call of connect.  The range test before it never fails.
getDeviceInfo(d) == FT_GetDeviceInfoDetail(d)

\* Mutants: the rate set before is forgotten; a second connect is let through.
connectOpensAtDefault(o, d) ==
    /\ ~m_connected[o] /\ CanOpen(d)
    /\ FT_Open(o, d)
    /\ FT_SetBaudRate(d, DefaultBaud)
    /\ FT_SetUSBParameters(d)
    /\ Connected(o, d)
    /\ UNCHANGED <<attached, chipFormat>>
connectOpensAgain(o, d) ==
    /\ CanOpen(d)
    /\ FT_Open(o, d)
    /\ FT_SetBaudRate(d, m_baudrate[o])
    /\ FT_SetUSBParameters(d)
    /\ Connected(o, d)
    /\ UNCHANGED <<attached, chipFormat>>

\* FT_SetTimeouts changes nothing modelled.
connectOpens(o, d) ==
    /\ ~m_connected[o] /\ CanOpen(d)
    /\ FT_Open(o, d)
    /\ FT_SetBaudRate(d, m_baudrate[o])
    /\ FT_SetUSBParameters(d)
    /\ getDeviceInfo(d)
    /\ Connected(o, d)
    /\ UNCHANGED <<attached, chipFormat>>

\* Mutant: the catch block does not close the handle.
connectThrowsOpen(o, d) ==
    /\ ~m_connected[o] /\ CanOpen(d)
    /\ ftHandle' = [ftHandle EXCEPT ![o] = d]
    /\ FT_Open(o, d)
    /\ UNCHANGED <<m_connected, m_deviceId, m_baudrate, attached, chipBaud, chipFormat, lineVars>>

\* One of the calls that follow FT_Open fails: before or after the rate was
\* set.  The handle is closed, its value stays in ftHandle, connect throws.
connectThrows(o, d) ==
    /\ ~m_connected[o] /\ CanOpen(d)
    /\ ftHandle' = [ftHandle EXCEPT ![o] = d]
    /\ \E b \in {chipBaud[d], m_baudrate[o]} : FT_SetBaudRate(d, b)
    /\ FT_Purge(d)
    /\ UNCHANGED <<m_connected, m_deviceId, m_baudrate, attached, holder, chipFormat>>

\* Mutant: disconnect resets the rate along with the index.
disconnectResets(o) ==
    /\ m_connected[o] /\ ftHandle[o] # NoDevice
    /\ FT_Close(o, ftHandle[o])
    /\ ftHandle' = [ftHandle EXCEPT ![o] = NoDevice]
    /\ m_connected' = [m_connected EXCEPT ![o] = FALSE]
    /\ m_deviceId' = [m_deviceId EXCEPT ![o] = NoDevice]
    /\ m_baudrate' = [m_baudrate EXCEPT ![o] = NoDevice]
    /\ UNCHANGED <<attached, chipBaud, chipFormat>>

\* The destructor calls it too.
disconnect(o) ==
    IF m_connected[o] /\ ftHandle[o] # NoDevice
    THEN /\ FT_Close(o, ftHandle[o])
         /\ ftHandle' = [ftHandle EXCEPT ![o] = NoDevice]
         /\ m_connected' = [m_connected EXCEPT ![o] = FALSE]
         /\ m_deviceId' = [m_deviceId EXCEPT ![o] = NoDevice]
         /\ UNCHANGED <<m_baudrate, attached, chipBaud, chipFormat>>
    ELSE UNCHANGED ftVars

\* The chip first, the member only when the chip accepted the rate.
setBaudRate(o, b) ==
    /\ Live(o)
    /\ FT_SetBaudRate(ftHandle[o], b)
    /\ m_baudrate' = [m_baudrate EXCEPT ![o] = b]
    /\ UNCHANGED <<m_connected, m_deviceId, ftHandle, attached, holder, chipFormat, lineVars>>

getBaudRate(o) == IF m_connected[o] THEN m_baudrate[o] ELSE -1

\* The sizes are the caller's affair; what was buffered is lost.
setUSBParameters(o) ==
    /\ Live(o)
    /\ FT_SetUSBParameters(ftHandle[o])
    /\ UNCHANGED <<objectVars, driverVars>>

setCharacteristics(o, f) ==
    /\ Live(o)
    /\ FT_SetDataCharacteristics(ftHandle[o], f)
    /\ UNCHANGED <<objectVars, attached, holder, chipBaud, lineVars>>

checkRXChannel(o) == FT_GetQueueStatus(ftHandle[o])

\* An empty frame is not handed to FT_Write; appending it is the same.
writeData(o, frame) ==
    /\ Live(o)
    /\ FT_Write(ftHandle[o], frame)
    /\ UNCHANGED <<objectVars, driverVars, rx>>

Fetched(o, n) == FT_Read(ftHandle[o], n)

\* FT_Read of n bytes, short after its timeout, then FT_Purge of both sides.
readData(o, n, frame) ==
    /\ Live(o)
    /\ frame = Fetched(o, n)
    /\ FT_Purge(ftHandle[o])
    /\ UNCHANGED <<objectVars, driverVars>>

\* The adapters, and whether each is named in its line.
listComs(o) == FT_GetDeviceInfoList(o)

-----------------------------------------------------------------------------
(* Outside the object.                                                     *)

Transmit(d) == Carry(d) /\ UNCHANGED objectVars
Unplug(d) == PullPlug(d) /\ UNCHANGED objectVars
Replug(d) == PutPlug(d) /\ UNCHANGED objectVars

-----------------------------------------------------------------------------
(* Any use of the class: every object calls any method at any time.        *)

CallConnect(o, d) ==
    \/ \E result \in BOOLEAN : connectAgain(o, d, result)
    \/ connectRefused(o, d)
    \/ connectOpens(o, d)
    \/ connectThrows(o, d)
CallDisconnect(o) == disconnect(o)
CallSetBaudRate(o) == throws(o) \/ \E b \in BaudRates : setBaudRate(o, b)
CallSetUSBParameters(o) == throws(o) \/ setUSBParameters(o)
CallSetCharacteristics(o) == throws(o) \/ \E f \in Formats : setCharacteristics(o, f)
CallWriteData(o, frame) == throws(o) \/ writeData(o, frame)
CallReadData(o, n) == throws(o) \/ readData(o, n, Fetched(o, n))

FtCall(o) ==
    \/ \E d \in Devices : CallConnect(o, d)
    \/ CallDisconnect(o)
    \/ CallSetBaudRate(o)
    \/ CallSetUSBParameters(o)
    \/ CallSetCharacteristics(o)
    \/ \E n \in 0..BufferSize : \E frame \in [1..n -> Byte] : CallWriteData(o, frame)
    \/ \E n \in 0..BufferSize : CallReadData(o, n)

Outside(d) == Transmit(d) \/ Unplug(d) \/ Replug(d)

FtNext == (\E o \in Objects : FtCall(o)) \/ (\E d \in Devices : Outside(d))

FtSpec == FtInit /\ [][FtNext]_ftVars

-----------------------------------------------------------------------------
(* Properties.                                                             *)

(***************************************************************************)
(* An adapter the driver considers open belongs to an object that knows it *)
(* is connected, on that very index and through that very handle: no path  *)
(* of connect or disconnect (a refused open, a failed configuration, a     *)
(* second connect) leaks a handle, which would lock every process out of   *)
(* the adapter until the service is restarted.                             *)
(***************************************************************************)
NoLeakedHandle ==
    \A o \in Objects, d \in Devices :
        holder[d] = o => m_connected[o] /\ m_deviceId[o] = d /\ ftHandle[o] = d

(***************************************************************************)
(* The rate an object reports (getBaudRate) is the rate its chip runs at,  *)
(* through reconnects, other owners' use of the same adapter, and replugs. *)
(***************************************************************************)
BaudInStep == \A o \in Objects : Live(o) => chipBaud[ftHandle[o]] = getBaudRate(o)

(***************************************************************************)
(* A connection lost with the plug stays lost: while the object still      *)
(* calls itself connected no connect, and no other owner's connect on the  *)
(* same index, makes its handle work again.  Only disconnect() does.       *)
(***************************************************************************)
DeadUntilDisconnect ==
    [][\A o \in Objects : m_connected[o] /\ ~Live(o) /\ m_connected'[o] => ~Live(o)']_ftVars

=============================================================================

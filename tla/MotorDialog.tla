---------------------------- MODULE MotorDialog ----------------------------
(***************************************************************************)
(* The service's handler and the motor controller joined by two FT232RL    *)
(* adapters and a serial line.  Steps of the handler, of the controller's  *)
(* worker and of the line interleave; adapters may be pulled.              *)
(*                                                                         *)
(* Timely says how long a wait lasts.  The handler waits 5 s in 100 ms     *)
(* polls and 1 s in FT_Read; the controller answers within 100 + 50 N ms   *)
(* of a block and 10 ms of a command.  If those numbers hold, a wait runs  *)
(* out only when nothing is on its way any more (Timely).  If a controller *)
(* may be slower, a wait may run out at any time (~Timely).                *)
(***************************************************************************)
EXTENDS UserCore, MockMCU

CONSTANTS
    Requests,     \* the texts the clients may send
    MaxRequests,  \* how many of them (a bound of the model)
    McuDevice,    \* the adapter on the controller's side
    McuBaud,      \* the rate the controller's side runs at
    Timely,
    Pluggable     \* the adapters that may be pulled and put back

VARIABLES
    asked,        \* requests accepted so far
    goodRuns,     \* successful runs so far
    successes     \* moving requests answered with status 0

dialogVars == <<asked, goodRuns, successes>>
vars == <<ftVars, coreVars, mcuVars, dialogVars>>

\* MockMCU::initialize has connected and set its rate, start() has run; the
\* service has connected to nothing yet.
DialogInit ==
    /\ m_connected = [o \in Objects |-> o = Mcu]
    /\ m_deviceId = [o \in Objects |-> IF o = Mcu THEN McuDevice ELSE NoDevice]
    /\ m_baudrate = [o \in Objects |-> IF o = Mcu THEN McuBaud ELSE DefaultBaud]
    /\ ftHandle = [o \in Objects |-> IF o = Mcu THEN McuDevice ELSE NoDevice]
    /\ attached = Devices
    /\ holder = [d \in Devices |-> IF d = McuDevice THEN Mcu ELSE Nobody]
    /\ chipBaud = [d \in Devices |-> IF d = McuDevice THEN McuBaud ELSE DefaultBaud]
    /\ chipFormat \in [Devices -> Formats]
    /\ rx = [d \in Devices |-> <<>>]
    /\ tx = [d \in Devices |-> <<>>]
    /\ CoreInit
    /\ McuInit
    /\ asked = 0
    /\ goodRuns = 0
    /\ successes = 0

-----------------------------------------------------------------------------
(* Time.                                                                   *)

LineQuiet == \A d \in Devices : tx[d] = <<>>

\* The controller waits for a command and none has arrived.
McuQuiet == mphase = "loop" /\ (Live(Mcu) => checkRXChannel(Mcu) = 0)

\* FT_Read waits 1 s for the version; a controller still waiting 1 s for a
\* block, or moving motors, may be slower than that.
HostOnTime ==
    Timely /\ Live(Host) =>
        /\ elapsed' > elapsed => LineQuiet /\ McuQuiet
        /\ phase = "version" /\ checkRXChannel(Host) = 0
                => LineQuiet /\ (McuQuiet \/ mphase \in {"block", "work"})

\* The controller's read of the block runs short only when no byte is on the
\* line and the handler is not about to write it.
McuOnTime ==
    Timely /\ Live(Mcu) /\ mphase = "block" /\ checkRXChannel(Mcu) < BlockLength
        => LineQuiet /\ (Live(Host) => phase \notin {"readiness", "data"})

-----------------------------------------------------------------------------
(* Steps.                                                                  *)

Count(text) ==
    successes' = successes + IF Asks(text, "moving") /\ reply'.status = 0 THEN 1 ELSE 0

Serve(text) ==
    /\ asked < MaxRequests
    /\ Process(text)
    /\ asked' = asked + 1
    /\ moved' = <<>>
    /\ Count(text)
    /\ UNCHANGED <<mphase, command, motors, goodRuns>>

HostStep ==
    /\ Continue
    /\ HostOnTime
    /\ Count(request)
    /\ UNCHANGED <<mcuVars, asked, goodRuns>>

McuStep ==
    /\ WorkerLoop
    /\ McuOnTime
    /\ goodRuns' = goodRuns + Cardinality({i \in DOMAIN moved' \ DOMAIN moved : moved'[i].result = 255})
    /\ UNCHANGED <<coreVars, asked, successes>>

LineStep(d) == Transmit(d) /\ UNCHANGED <<coreVars, mcuVars, dialogVars>>

Plug(d) == (Unplug(d) \/ Replug(d)) /\ UNCHANGED <<coreVars, mcuVars, dialogVars>>

\* The bound on requests is reached and everything has come to rest.
Rest ==
    /\ asked = MaxRequests
    /\ phase = "idle"
    /\ McuQuiet
    /\ LineQuiet
    /\ UNCHANGED vars

DialogNext ==
    \/ \E text \in Requests : Serve(text)
    \/ HostStep
    \/ McuStep
    \/ \E d \in Devices : LineStep(d)
    \/ \E d \in Pluggable : Plug(d)
    \/ Rest

DialogSafety == DialogInit /\ [][DialogNext]_vars

\* The handler's thread runs on; the worker thread runs on; the line delivers.
DialogFairness ==
    /\ WF_vars(HostStep)
    /\ WF_vars(McuStep)
    /\ \A d \in Devices : WF_vars(LineStep(d))

DialogSpec == DialogSafety /\ DialogFairness

-----------------------------------------------------------------------------
(* Properties.                                                             *)

DialogTypeOK ==
    /\ FtTypeOK
    /\ phase \in {"idle", "version", "readiness", "data", "completion"}
    /\ request \in Requests \cup {Raw("")}
    /\ elapsed \in 0..MaxPolls
    /\ reply.status \in Int /\ reply.version \in Byte \cup {NoDevice}
    /\ mphase \in {"loop", "version", "unknown", "motor", "block", "work"}
    /\ command \in Byte
    /\ goodRuns \in Nat /\ successes \in 0..asked

\* The run is the one the text asks for: its mode, its motors in their order,
\* and in each field the number written there, as far as a word holds it.
IsRunOf(mode, ran, text) ==
    LET written == Settings(text).motors.arr
    IN  /\ mode = (IF Mode(text) = Raw("synchronous") THEN SyncCommand ELSE AsyncCommand)
        /\ DOMAIN ran = DOMAIN written
        /\ \A i \in DOMAIN ran : \A f \in DOMAIN MotorFields :
                Unsigned(ran[i][f]) = Unsigned(Numeral(written[i].obj[f]))

RanAsAsked == Len(moved) = 1 /\ IsRunOf(moved[1].mode, moved[1].motors, request)

Answered(name) == phase = "idle" /\ Asks(request, name)

(***************************************************************************)
(* The reply to a moving request tells what the motors did (user_core.cpp  *)
(* 396-424): status 0 that the controller ran these motors in this mode    *)
(* once, and successfully; 40513 that it ran them once and failed; a       *)
(* refusal, and 40512, that nothing moved at all.  40511 promises nothing. *)
(***************************************************************************)
TrueVerdict ==
    Answered("moving") =>
        CASE reply.status = 0 ->
                RanAsAsked /\ moved[1].result = 255
          [] reply.status = 40513 ->
                RanAsAsked /\ moved[1].result # 255
          [] reply.status \in {40511, Silent} -> TRUE
          [] OTHER -> moved = <<>>

(***************************************************************************)
(* The controller never moves motors on its own account: whenever it       *)
(* starts a run, the handler is waiting for the outcome of exactly that    *)
(* run.  A version byte, a purge, or a block cut short never becomes one.  *)
(***************************************************************************)
NoPhantomRun ==
    mphase = "work" =>
        /\ phase = "completion"
        /\ IsRunOf(CommandMode(command), motors, request)

(***************************************************************************)
(* A version the service reports is the byte the firmware sent for this    *)
(* request, not what an earlier command left in the receive buffer.  Only  *)
(* a controller whose adapter was pulled is reported otherwise: as version *)
(* 0.0, or as the first byte of an outcome that was cut short by it.       *)
(***************************************************************************)
VersionIsFirmwares ==
    Answered("version") /\ reply.status = 0 =>
        \/ reply.version = FirmwareVersion
        \/ ~Live(Mcu) /\ (reply.version = 0 \/ CompletionPrefix = <<reply.version>>)

(***************************************************************************)
(* The controller trusts the block it reads; the checks its own library    *)
(* has for it (protocol_handler.cpp:12-40) are never called.  The          *)
(* service's checks are all there is, made before the numbers became       *)
(* bytes: whatever was run would have passed the firmware's checks too.    *)
(***************************************************************************)
OnlyValidMotors ==
    \A i \in DOMAIN moved :
        handleMotorCommand(moved[i].mode + Len(moved[i].motors), moved[i].motors) = 255

(***************************************************************************)
(* However late, short or garbled the exchange gets, and whatever is       *)
(* pulled: no run is counted twice.  Successful replies never outnumber    *)
(* the successful runs.                                                    *)
(***************************************************************************)
NoFreeSuccess == successes <= goodRuns

(***************************************************************************)
(* The server has one thread and the handler runs in it: whatever the      *)
(* controller does, and even if its adapter is gone, every request is      *)
(* brought to an end, so that the next one can be served.                  *)
(***************************************************************************)
EveryRequestEnds == phase # "idle" ~> phase = "idle"

-----------------------------------------------------------------------------
(***************************************************************************)
(* The bench on which the verdicts and versions can be trusted: one        *)
(* adapter each, wired to each other and set to one rate and format;       *)
(* waits that outlast the controller; only the controller's adapter is     *)
(* pulled; a controller that sends one byte before its verdict.  The texts *)
(* are any, as long as their arrays are sequences of integers.             *)
(***************************************************************************)
WellFormed(text) ==
    Asks(text, "moving") /\ Parses(MotorsSettings, Argument(text)) =>
        LET written == Settings(text).motors.arr
        IN  /\ written = [i \in 1..Len(written) |-> written[i]]
            /\ Len(written) \in Nat
            /\ \A i \in 1..Len(written) : \A f \in DOMAIN MotorFields :
                    Numeral(written[i].obj[f]) \in Int

Bench ==
    /\ Host # Mcu
    /\ McuDevice \in Devices
    /\ Wire[McuDevice] # McuDevice
    /\ Wire[Wire[McuDevice]] = McuDevice
    /\ Devices = {McuDevice, Wire[McuDevice]}
    /\ Pluggable \subseteq {McuDevice}
    /\ McuBaud = DefaultBaud
    /\ \A f, g \in Formats : f = g
    /\ Timely
    /\ Byte = 0..255
    /\ \E b \in Byte : CompletionPrefix = <<b>>
    /\ 10 * MotorBytes <= BufferSize
    /\ \A text \in Requests : WellFormed(text)

-----------------------------------------------------------------------------
(* What the repository's documents say and the code does not do.           *)

(***************************************************************************)
(* docs/device_interface.md:174-180: the controller sends one byte, 0xFF   *)
(* for success, and the service answers status 0.                          *)
(***************************************************************************)
RunIsReported ==
    Answered("moving") /\ Len(moved) = 1 /\ moved[1].result = 255 => reply.status = 0

=============================================================================

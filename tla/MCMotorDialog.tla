--------------------------- MODULE MCMotorDialog ---------------------------
(***************************************************************************)
(* Two adapters wired to each other, the controller on adapter 1.  Words   *)
(* are one byte, and the parameters are chosen to look like commands: an   *)
(* acceleration of 0x20, a speed of 0x81, a step of -1.                    *)
(***************************************************************************)
EXTENDS MotorDialog

CrossedWire == [d \in Devices |-> 1 - d]
NoPrefix    == <<>>
OneByte     == <<9>>
AllBytes    == 0..255

-----------------------------------------------------------------------------
(* Texts.                                                                  *)

Envelop(manager) == Obj([id |-> Num(7), text |-> Str(manager)])
Do(name, argument) ==
    Envelop(Obj([command |-> Str(Raw(name)), message |-> Str(argument)]))
Simply(name) == Do(name, Raw(""))
Reconnect(d) == Do("reconnect", Obj([deviceId |-> d]))

OneMotor(number, acceleration, maxSpeed, step) ==
    Obj([number |-> number, acceleration |-> acceleration,
         maxSpeed |-> maxSpeed, step |-> step])
Move(mode, all) == Do("moving", Obj([mode |-> Str(Raw(mode)), motors |-> Arr(all)]))

one == OneMotor(Num(1), Num(32), Num(129), Num(-1))
\* Values that convert or wrap: 258 is 2, true is 1, -1 is 255.
two == OneMotor(Num(258), Frac(65), Num(-1), Bool(TRUE))
Numbered(n) == OneMotor(n, Num(1), Num(1), Num(0))

SyncOne  == Move("synchronous", <<one>>)
AsyncTwo == Move("asynchronous", <<two, one>>)

BadMotors == {Move("synchronous", <<one, Numbered(Num(0))>>),
              Move("synchronous", <<Numbered(Num(11))>>),
              Move("synchronous", <<Numbered(Num(-266))>>),
              Move("synchronous", <<OneMotor(Num(1), Num(256), Num(1), Num(0))>>),
              Move("synchronous", <<OneMotor(Num(1), Num(1), Frac(0), Num(0))>>),
              Move("diagonal", <<one>>),
              Move("synchronous", [i \in 1..11 |-> one])}

\* What does not parse, at each level.
Unreadable ==
    {Raw("{"), Mojibake, Str(Raw("moving")), Obj([text |-> Str(Raw("version"))]),
     Envelop(Raw("version")), Envelop(Obj([command |-> Str(Raw("version"))])),
     Do("reconnect", Raw("1")), Do("moving", one), Do("version", one),
     Do("moving", Obj([mode |-> Num(1), motors |-> Arr(<<one>>)])),
     Move("synchronous", <<one, Num(1)>>),
     Move("synchronous", <<OneMotor(Num(1), Num(1), Str(Raw("1")), Num(0))>>)}

TimelyRequests ==
    {Reconnect(Frac(0)), Reconnect(Num(-1)), Reconnect(Bool(TRUE)),
     Simply("disconnect"), Simply("version"), Simply("listconnect"), Simply("dance"),
     SyncOne, AsyncTwo, Move("synchronous", <<>>)} \cup BadMotors \cup Unreadable

\* For exchanges out of step: one parameter only looks like a command.
LateRequests ==
    {Reconnect(Num(0)), Move("synchronous", <<OneMotor(Num(1), Num(1), Num(129), Num(0))>>)}

TalkRequests == {Reconnect(Num(0)), Simply("disconnect"), Simply("version"), SyncOne}

\* The theorems about the dialog speak of the bench that MCDialog checks.
ASSUME BenchIsMet == Timely /\ CompletionPrefix = OneByte => Bench

\* No step reads the runs performed: only their count matters to NoFreeSuccess.
RunsCounted == <<ftVars, coreVars, mphase, command, motors, dialogVars>>
=============================================================================

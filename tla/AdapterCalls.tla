---------------------------- MODULE AdapterCalls ----------------------------
(***************************************************************************)
(* The two methods of FT232RL that poll without holding the object's       *)
(* mutex, and so are several actions each: read, which waits for bytes,    *)
(* then until their number has stood still for `timeout' polls, and        *)
(* waitWriteSuccess, which waits until the transmit queue is empty.  The   *)
(* object's thread is inside at most one method; the other objects, the    *)
(* lines and the plugs go on meanwhile.                                    *)
(***************************************************************************)
EXTENDS FT232RL

CONSTANTS
    Timeout,     \* read's parameter: a number of polls, 1000 by default
    Pollers      \* the objects whose thread calls the polling methods

ASSUME TimeoutAssumption == Timeout \in Nat
ASSUME PollersAssumption == Pollers \subseteq Objects

VARIABLES
    call,    \* object -> where its thread stands
    count,   \* object -> newCurrentValue of read
    still    \* object -> i of read

callVars == <<call, count, still>>
allVars  == <<ftVars, callVars>>

CallsInit ==
    /\ FtInit
    /\ call = [o \in Objects |-> "none"]
    /\ count = [o \in Objects |-> 0]
    /\ still = [o \in Objects |-> 0]

At(o, step)   == call[o] = step
GoTo(o, step) == call' = [call EXCEPT ![o] = step]

\* The method returns, or throws; its locals are gone.
Leave(o) ==
    /\ GoTo(o, "none")
    /\ count' = [count EXCEPT ![o] = 0]
    /\ still' = [still EXCEPT ![o] = 0]

\* Mutant: a read that fails drops the flag and leaves the handle.
ThrowDrops(o) ==
    /\ ~Live(o)
    /\ m_connected' = [m_connected EXCEPT ![o] = FALSE]
    /\ UNCHANGED <<m_deviceId, m_baudrate, ftHandle, driverVars, lineVars>>
    /\ Leave(o)

Throw(o) == throws(o) /\ Leave(o)

StartRead(o) ==
    /\ At(o, "none")
    /\ GoTo(o, "wait")
    /\ UNCHANGED <<ftVars, count, still>>

\* The loop until checkRXChannel is not zero has no limit.
ReadWait(o) ==
    /\ At(o, "wait")
    /\ \/ Live(o) /\ checkRXChannel(o) # 0 /\ GoTo(o, "count") /\ UNCHANGED <<ftVars, count, still>>
       \/ Throw(o)

NextPoll(i) == IF i < Timeout THEN "watch" ELSE "take"

\* Mutant: the buffer is sized one too large.
ReadCountMore(o) ==
    /\ At(o, "count")
    /\ \/ /\ Live(o)
          /\ count' = [count EXCEPT ![o] = checkRXChannel(o) + 1]
          /\ GoTo(o, NextPoll(0))
          /\ UNCHANGED <<ftVars, still>>
       \/ Throw(o)

ReadCount(o) ==
    /\ At(o, "count")
    /\ \/ /\ Live(o)
          /\ count' = [count EXCEPT ![o] = checkRXChannel(o)]
          /\ GoTo(o, NextPoll(0))
          /\ UNCHANGED <<ftVars, still>>
       \/ Throw(o)

\* A change starts the counting again, at 1: ++i follows i = 0.
ReadWatch(o) ==
    /\ At(o, "watch")
    /\ \/ /\ Live(o)
          /\ count' = [count EXCEPT ![o] = checkRXChannel(o)]
          /\ still' = [still EXCEPT ![o] = IF checkRXChannel(o) = count[o] THEN @ + 1 ELSE 1]
          /\ GoTo(o, NextPoll(still'[o]))
          /\ UNCHANGED ftVars
       \/ Throw(o)

ReadTake(o) ==
    /\ At(o, "take")
    /\ \/ readData(o, count[o], Fetched(o, count[o]))
       \/ throws(o)
    /\ Leave(o)

StartDrain(o) ==
    /\ At(o, "none")
    /\ GoTo(o, "drain")
    /\ UNCHANGED <<ftVars, count, still>>

\* Mutant: the receive queue's length is taken for the transmit queue's.
TxBytesSwapped(o) == FT_GetStatus(ftHandle[o])[1]

TxBytes(o) == FT_GetStatus(ftHandle[o])[2]

waitWriteSuccess(o) ==
    /\ At(o, "drain")
    /\ \/ Live(o) /\ TxBytes(o) = 0 /\ Leave(o) /\ UNCHANGED ftVars
       \/ Throw(o)

Polling(o) ==
    ReadWait(o) \/ ReadCount(o) \/ ReadWatch(o) \/ ReadTake(o) \/ waitWriteSuccess(o)

OtherCall(o) == At(o, "none") /\ FtCall(o) /\ UNCHANGED callVars

CallsNext ==
    \/ \E o \in Objects : OtherCall(o)
    \/ \E o \in Pollers : StartRead(o) \/ StartDrain(o) \/ Polling(o)
    \/ \E d \in Devices : Outside(d) /\ UNCHANGED callVars

CallsSafety == CallsInit /\ [][CallsNext]_allVars

\* A polling thread goes on; what was written is sent.
CallsFairness ==
    /\ \A o \in Pollers : WF_allVars(Polling(o))
    /\ \A d \in Devices : WF_allVars(Transmit(d) /\ UNCHANGED callVars)

CallsSpec == CallsSafety /\ CallsFairness

-----------------------------------------------------------------------------
(* Properties.                                                             *)

CallsTypeOK ==
    /\ FtTypeOK
    /\ call \in [Objects -> {"none", "wait", "count", "watch", "take", "drain"}]
    /\ count \in [Objects -> 0..BufferSize]
    /\ still \in [Objects -> 0..Timeout]

(***************************************************************************)
(* The number of bytes read counts on before it fetches them is not stale  *)
(* when it does: whatever other objects, the line and the plug do between  *)
(* its polls, either the bytes are still there or the handle is dead, so   *)
(* what read returns is never padded with the zeros of its buffer.         *)
(***************************************************************************)
CountIsThere ==
    \A o \in Objects :
        call[o] \in {"watch", "take"} /\ Live(o) => count[o] <= checkRXChannel(o)

(***************************************************************************)
(* waitWriteSuccess has no limit of its own: it ends because the line      *)
(* sends what was written, or because the handle dies with its plug.       *)
(***************************************************************************)
DrainEnds == \A o \in Objects : call[o] = "drain" ~> call[o] # "drain"

(***************************************************************************)
(* Cut into steps or not, the methods do to the adapters only what a       *)
(* sequence of the locked ones does: every behaviour is one of FT232RL's,  *)
(* and its properties hold here too.                                       *)
(***************************************************************************)
ImplementsLocked == FtSpec

=============================================================================

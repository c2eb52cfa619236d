-------------------------- MODULE WebInterfaceProofs --------------------------
(***************************************************************************)
(* What the web interface promises, for any number of calls, any routes    *)
(* and any number of shutdowns of the service.                             *)
(*                                                                         *)
(* The argument: as long as no calls overlap and no answer is late, only   *)
(* the connector's connection is open, nothing is under way on any         *)
(* connection but the name a connection begins with, and a call that waits *)
(* for its answer is in one of three situations: its command is on its     *)
(* way, its answer is, or nothing is.                                      *)
(***************************************************************************)
EXTENDS WebInterface, FiniteSetTheorems, SequenceTheorems, TLAPS

Where ==
    {<<"idle", "none">>, <<"forget", "none">>, <<"close", "leave">>}
      \cup {"dial"} \X {"greet", "redial"}
      \cup {"fetch", "send", "recv"} \X {"greet", "probe", "main", "leave"}

MayDial == {n \in Calls : pc[n] = "dial" \/ purpose[n] = "probe"}

NetTypes ==
    /\ dialled \in Nat
    /\ DOMAIN up = Conns /\ DOMAIN down = Conns
    /\ gone \in [Conns -> {"no", "fin", "cut", "rst", "over"}]
    /\ lost \in [Conns -> {"no", "fin", "cut", "rst"}]
    /\ service \in {"up", "down", "killed"}

CallTypes ==
    /\ begun \in 0..MaxCalls
    /\ pc \in [Calls -> {"idle", "dial", "fetch", "send", "recv", "close", "forget"}]
    /\ result \in [Calls -> {"none", "pending", "success", "error"}]
    /\ route \in [Calls -> AllRoutes \cup {NoRoute}]
    /\ held \in [Calls -> 0..dialled]
    /\ DOMAIN purpose = Calls
    /\ \A n \in Calls :
        /\ <<pc[n], purpose[n]>> \in Where
        /\ result[n] = "pending" <=> pc[n] # "idle"
        /\ pc[n] \in {"send", "recv"} <=> held[n] # None
        /\ purpose[n] = "leave" \/ pc[n] = "forget" => route[n] = disconnect_from_server
        /\ n > begun => pc[n] = "idle" /\ result[n] = "none"

TypeInv ==
    /\ NetTypes
    /\ CallTypes
    /\ connector \in 0..dialled
    /\ DOMAIN got = Calls
    /\ spoilt \in BOOLEAN
    /\ dialled + Cardinality(MayDial) <= begun + 1

Name == CommandOf(None, "name")
NameInHand(c) == handling.conn = c => handling.command = "name"
Quiet(c) ==
    /\ up[c] \in {<<>>, <<Name>>}
    /\ down[c] = <<>>
    /\ NameInHand(c)
Asked(n) == CommandOf(Tag(n), Command(n))
Waiting(n, c) ==
    /\ got[n] = <<>> /\ down[c] = <<>>
    /\ \/ up[c] \in {<<Asked(n)>>, <<Name, Asked(n)>>} /\ NameInHand(c)
       \/ up[c] = <<>> /\ handling = [conn |-> c, call |-> Tag(n), command |-> Command(n)]
Told(n, c) ==
    /\ up[c] = <<>> /\ handling.conn # c
    /\ \E ok \in BOOLEAN :
        LET answer == Pieces(Tag(n), ok)
        IN  /\ ok /\ Tag(n) # None => Tag(n) \in performed
            /\ \/ got[n] = <<>> /\ down[c] = answer
               \/ got[n] = <<answer[1]>> /\ down[c] = <<answer[2]>>
Unheard(n, c) ==
    /\ got[n] = <<>> /\ down[c] = <<>>
    /\ up[c] = <<>> /\ handling.conn # c

Exchange(n, c) == Waiting(n, c) \/ Told(n, c) \/ Unheard(n, c)

\* The service lives, and what it handles came from a connection.
Served ==
    /\ service # "killed"
    /\ handling = Idle \/ handling.conn \in Opened
    /\ performed \subseteq Calls

\* One call at a time, on the connector's connection.
OneByOne ==
    /\ \A m, n \in Calls : pc[m] # "idle" /\ pc[n] # "idle" => m = n
    /\ connector # None => gone[connector] = "no" \/ \E n \in Calls : pc[n] = "forget"
    /\ \A n \in Calls :
        /\ held[n] \in {None, connector}
        /\ pc[n] = "dial" => connector = None
        /\ pc[n] # "recv" => got[n] = <<>>
        /\ pc[n] = "recv" => Exchange(n, held[n])

\* Only the connector's connection is open, and on the others nothing moves.
Links ==
    \A c \in Conns :
        /\ gone[c] \in {"no", "fin", "over"}
        /\ c \in Opened /\ gone[c] = "no" => c = connector
        /\ c \notin Opened => up[c] = <<>> /\ gone[c] = "no" /\ lost[c] = "no"
        /\ lost[c] # "no" => up[c] = <<>> /\ handling.conn # c
        /\ Quiet(c) \/ \E n \in Calls : pc[n] = "recv" /\ held[n] = c

Orderly == Served /\ OneByOne /\ Links

OrderInv == ~spoilt => Orderly

-----------------------------------------------------------------------------
(* Types and the count of connections.                                     *)

LEMMA CallsAreFinite == IsFiniteSet(Calls) /\ MaxCalls \in Nat
BY FS_Interval, BoundsAssumption DEF Calls

LEMMA MayDialIsFinite == IsFiniteSet(MayDial) /\ Cardinality(MayDial) \in Nat
BY CallsAreFinite, FS_Subset, FS_CardinalityType DEF MayDial

\* Fewer calls that may dial are counted lower.
LEMMA FewerDial ==
    ASSUME MayDial' \subseteq MayDial
    PROVE  Cardinality(MayDial') \in Nat /\ Cardinality(MayDial') <= Cardinality(MayDial)
BY MayDialIsFinite, FS_Subset, FS_CardinalityType

LEMMA OneFewerDials ==
    ASSUME NEW n \in MayDial, MayDial' \subseteq MayDial \ {n}
    PROVE  Cardinality(MayDial') \in Nat /\ Cardinality(MayDial') < Cardinality(MayDial)
<1>1. /\ IsFiniteSet(MayDial \ {n})
      /\ Cardinality(MayDial \ {n}) = Cardinality(MayDial) - 1
  BY MayDialIsFinite, FS_RemoveElement
<1>2. /\ Cardinality(MayDial') <= Cardinality(MayDial \ {n})
      /\ Cardinality(MayDial') \in Nat
  BY <1>1, FS_Subset, FS_CardinalityType
<1> QED
  BY <1>1, <1>2, MayDialIsFinite

LEMMA OneMoreDials ==
    ASSUME NEW n, MayDial' \subseteq MayDial \cup {n}
    PROVE  Cardinality(MayDial') \in Nat /\ Cardinality(MayDial') <= Cardinality(MayDial) + 1
<1>1. /\ IsFiniteSet(MayDial \cup {n})
      /\ Cardinality(MayDial \cup {n}) <= Cardinality(MayDial) + 1
  BY MayDialIsFinite, FS_AddElement
<1>2. /\ Cardinality(MayDial') <= Cardinality(MayDial \cup {n})
      /\ Cardinality(MayDial') \in Nat
  BY <1>1, FS_Subset, FS_CardinalityType
<1>3. Cardinality(MayDial \cup {n}) \in Nat
  BY <1>1, FS_CardinalityType
<1> QED
  BY <1>1, <1>2, <1>3, MayDialIsFinite

LEMMA InitTypes == Init => TypeInv
<1> SUFFICES ASSUME Init PROVE TypeInv
  OBVIOUS
<1>1. MayDial = {}
  BY DEF Init, MayDial
<1>2. Cardinality(MayDial) = 0
  BY <1>1, FS_EmptySet
<1>3. MaxCalls \in Nat
  BY BoundsAssumption
<1>4. NetTypes /\ dialled \in {0, 1}
  BY DEF Init, ConnInit, NetTypes
<1>5. CallTypes
  BY <1>3, <1>4 DEF Init, ConnInit, CallTypes, Where, None
<1>6. connector \in 0..dialled /\ begun = 0 /\ dialled \in {0, 1}
  BY <1>4 DEF Init
<1>7. spoilt \in BOOLEAN /\ DOMAIN got = Calls
  BY DEF Init, ConnInit
<1> QED
  BY <1>2, <1>4, <1>5, <1>6, <1>7 DEF TypeInv

\* What a step of one call does to the calls.
Moves(n, where, why, verdict, c) ==
    /\ pc' = [pc EXCEPT ![n] = where]
    /\ purpose' = [purpose EXCEPT ![n] = why]
    /\ result' = [result EXCEPT ![n] = verdict]
    /\ held' = [held EXCEPT ![n] = c]
    /\ UNCHANGED <<begun, route>>

\* It leaves it in a place that fits what it is for.
Fits(n, where, why, verdict, c) ==
    /\ <<where, why>> \in Where
    /\ verdict \in {"pending", "success", "error"}
    /\ verdict = "pending" <=> where # "idle"
    /\ where \in {"send", "recv"} <=> c # None
    /\ why = "leave" \/ where = "forget" => route[n] = disconnect_from_server
    /\ where = "dial" \/ why = "probe" => n \in MayDial
    /\ c \in 0..dialled'

LEMMA MovesKeepTypes ==
    ASSUME CallTypes, dialled \in Nat, dialled' \in Nat, dialled' >= dialled,
           NEW n \in Calls, pc[n] # "idle",
           NEW where, NEW why, NEW verdict, NEW c,
           Moves(n, where, why, verdict, c), Fits(n, where, why, verdict, c)
    PROVE  /\ CallTypes'
           /\ MayDial' \subseteq MayDial
           /\ where # "dial" /\ why # "probe" => MayDial' \subseteq MayDial \ {n}
<1>1. where \in {"idle", "dial", "fetch", "send", "recv", "close", "forget"}
  BY DEF Fits, Where
<1>2. /\ begun' \in 0..MaxCalls
      /\ pc' \in [Calls -> {"idle", "dial", "fetch", "send", "recv", "close", "forget"}]
      /\ result' \in [Calls -> {"none", "pending", "success", "error"}]
      /\ route' \in [Calls -> AllRoutes \cup {NoRoute}]
      /\ held' \in [Calls -> 0..dialled']
      /\ DOMAIN purpose' = Calls
  BY <1>1 DEF CallTypes, Moves, Fits
<1>3. ASSUME NEW m \in Calls
      PROVE  /\ <<pc'[m], purpose'[m]>> \in Where
             /\ result'[m] = "pending" <=> pc'[m] # "idle"
             /\ pc'[m] \in {"send", "recv"} <=> held'[m] # None
             /\ purpose'[m] = "leave" \/ pc'[m] = "forget" => route'[m] = disconnect_from_server
             /\ m > begun' => pc'[m] = "idle" /\ result'[m] = "none"
  <2>1. CASE m = n
    BY <2>1 DEF CallTypes, Moves, Fits
  <2>2. CASE m # n
    BY <2>2 DEF CallTypes, Moves
  <2> QED
    BY <2>1, <2>2
<1>4. \A m \in Calls : m # n => pc'[m] = pc[m] /\ purpose'[m] = purpose[m]
  BY DEF CallTypes, Moves
<1>5. pc'[n] = where /\ purpose'[n] = why
  BY DEF CallTypes, Moves
<1>6. MayDial' = {m \in Calls : pc'[m] = "dial" \/ purpose'[m] = "probe"}
  BY DEF MayDial, Calls
<1>7. /\ MayDial' \subseteq MayDial
      /\ where # "dial" /\ why # "probe" => MayDial' \subseteq MayDial \ {n}
  BY <1>4, <1>5, <1>6 DEF MayDial, Fits
<1> QED
  BY <1>2, <1>3, <1>7 DEF CallTypes

LEMMA GoMoves ==
    ASSUME CallTypes, NEW n \in Calls, pc[n] # "idle", NEW where, NEW why, NEW c,
           Go(n, where, why), Hold(n, c), UNCHANGED <<begun, route>>
    PROVE  Moves(n, where, why, "pending", c)
BY DEF CallTypes, Go, Hold, Moves

LEMMA EndMoves ==
    ASSUME NEW n \in Calls, NEW verdict, NEW c,
           End(n, verdict), Hold(n, c), UNCHANGED <<begun, route>>
    PROVE  Moves(n, "idle", "none", verdict, c)
BY DEF End, Hold, Moves

LEMMA StaysHeld ==
    ASSUME CallTypes, NEW n \in Calls, UNCHANGED held
    PROVE  Hold(n, held[n])
BY DEF CallTypes, Hold

\* Where a call goes on when ensure_connection, send_command or an exception
\* has ended what it was at.
LEMMA EnsuredMoves ==
    ASSUME CallTypes, dialled' \in Nat, NEW n \in Calls, pc[n] # "idle",
           Ensured(n), Hold(n, None), UNCHANGED <<begun, route>>
    PROVE  \/ /\ Moves(n, "idle", "none", "success", None)
              /\ Fits(n, "idle", "none", "success", None)
              /\ route[n] = connect_to_server
           \/ /\ Moves(n, "fetch", "main", "pending", None)
              /\ Fits(n, "fetch", "main", "pending", None)
<1>1. /\ Fits(n, "idle", "none", "success", None)
      /\ Fits(n, "fetch", "main", "pending", None)
  BY DEF Fits, Where, None
<1> QED
  BY <1>1, GoMoves, EndMoves DEF Ensured

LEMMA ReturnedMoves ==
    ASSUME CallTypes, dialled' \in Nat, NEW n \in Calls, pc[n] # "idle", NEW pieces,
           Returned(n, pieces), Hold(n, None), UNCHANGED <<begun, route>>
    PROVE  \/ /\ Moves(n, "idle", "none", "success", None)
              /\ Fits(n, "idle", "none", "success", None)
              /\ \/ route[n] = connect_to_server
                 \/ purpose[n] = "main" /\ (route[n].checked => StatusOk(pieces))
           \/ /\ Moves(n, "idle", "none", "error", None)
              /\ Fits(n, "idle", "none", "error", None)
           \/ /\ Moves(n, "fetch", "main", "pending", None)
              /\ Fits(n, "fetch", "main", "pending", None)
           \/ /\ Moves(n, "close", "leave", "pending", None)
              /\ Fits(n, "close", "leave", "pending", None)
<1>1. /\ Fits(n, "idle", "none", "success", None)
      /\ Fits(n, "idle", "none", "error", None)
  BY DEF Fits, Where, None
<1>2. CASE purpose[n] \in {"greet", "probe"} /\ Ensured(n)
  BY <1>2, EnsuredMoves
<1>3. CASE purpose[n] = "main" /\ End(n, Judgement(n, pieces))
  BY <1>1, <1>3, EndMoves DEF Judgement
<1>4. CASE purpose[n] = "leave" /\ Go(n, "close", "leave")
  <2>2. route[n] = disconnect_from_server
    BY <1>4 DEF CallTypes
  <2>1. Fits(n, "close", "leave", "pending", None)
    BY <2>2 DEF Fits, Where, None
  <2> QED
    BY <1>4, <2>1, GoMoves
<1> QED
  BY <1>2, <1>3, <1>4 DEF Returned

LEMMA RaisedMoves ==
    ASSUME CallTypes, dialled' \in Nat, NEW n \in Calls, pc[n] # "idle",
           Raised(n), Hold(n, None), UNCHANGED <<begun, route>>
    PROVE  \/ /\ Moves(n, "idle", "none", "success", None)
              /\ Fits(n, "idle", "none", "success", None)
              /\ route[n] = connect_to_server
              /\ UNCHANGED connector
           \/ /\ Moves(n, "idle", "none", "error", None)
              /\ Fits(n, "idle", "none", "error", None)
              /\ UNCHANGED connector
           \/ /\ Moves(n, "fetch", "main", "pending", None)
              /\ Fits(n, "fetch", "main", "pending", None)
              /\ UNCHANGED connector
           \/ /\ Moves(n, "close", "leave", "pending", None)
              /\ Fits(n, "close", "leave", "pending", None)
              /\ UNCHANGED connector
           \/ /\ Moves(n, "dial", "redial", "pending", None)
              /\ Fits(n, "dial", "redial", "pending", None)
              /\ connector' = None
<1>1. CASE purpose[n] = "greet" /\ Ensured(n) /\ UNCHANGED connector
  BY <1>1, EnsuredMoves
<1>2. CASE purpose[n] = "probe" /\ connector' = None /\ Go(n, "dial", "redial")
  <2>1. Fits(n, "dial", "redial", "pending", None)
    BY <1>2 DEF Fits, Where, None, MayDial
  <2> QED
    BY <1>2, <2>1, GoMoves
<1>3. CASE purpose[n] = "main" /\ End(n, "error") /\ UNCHANGED connector
  <2>1. Fits(n, "idle", "none", "error", None)
    BY DEF Fits, Where, None
  <2> QED
    BY <1>3, <2>1, EndMoves
<1>4. CASE purpose[n] = "leave" /\ Go(n, "close", "leave") /\ UNCHANGED connector
  <2>2. route[n] = disconnect_from_server
    BY <1>4 DEF CallTypes
  <2>1. Fits(n, "close", "leave", "pending", None)
    BY <2>2 DEF Fits, Where, None
  <2> QED
    BY <1>4, <2>1, GoMoves
<1> QED
  BY <1>1, <1>2, <1>3, <1>4 DEF Raised

\* A connection is closed with or without unread data.
LEMMA ClosesTyped ==
    ASSUME NetTypes, NEW closed, Closes(closed)
    PROVE  gone' \in [Conns -> {"no", "fin", "cut", "rst", "over"}]
<1>1. \A c \in Conns : Left(c) \in {"no", "fin", "cut", "rst", "over"}
  BY DEF Left
<1> QED
  BY <1>1 DEF NetTypes, Closes

\* A call moves without opening a connection, or opens one and may not do
\* so again.
LEMMA MoveKeepsTypes ==
    ASSUME TypeInv, NetTypes', spoilt' \in BOOLEAN, DOMAIN got' = Calls,
           connector' \in 0..dialled',
           NEW n \in Calls, pc[n] # "idle",
           NEW where, NEW why, NEW verdict, NEW c,
           Moves(n, where, why, verdict, c), Fits(n, where, why, verdict, c),
           \/ UNCHANGED dialled
           \/ dialled' = dialled + 1 /\ n \in MayDial /\ where # "dial" /\ why # "probe"
    PROVE  TypeInv'
<1>1. dialled \in Nat /\ dialled' \in Nat /\ dialled' >= dialled
  BY DEF TypeInv, NetTypes
<1>2. /\ CallTypes'
      /\ MayDial' \subseteq MayDial
      /\ where # "dial" /\ why # "probe" => MayDial' \subseteq MayDial \ {n}
  BY <1>1, MovesKeepTypes DEF TypeInv
<1>3. begun \in Nat /\ begun' = begun
  BY BoundsAssumption DEF Moves, TypeInv, CallTypes
<1>4. dialled' + Cardinality(MayDial') <= begun' + 1
  <2>1. CASE UNCHANGED dialled
    BY <1>1, <1>2, <1>3, <2>1, FewerDial, MayDialIsFinite DEF TypeInv
  <2>2. CASE dialled' = dialled + 1 /\ n \in MayDial /\ where # "dial" /\ why # "probe"
    BY <1>1, <1>2, <1>3, <2>2, OneFewerDials, MayDialIsFinite DEF TypeInv
  <2> QED
    BY <2>1, <2>2
<1> QED
  BY <1>2, <1>4 DEF TypeInv

-----------------------------------------------------------------------------
(* The steps keep the types.                                               *)

LEMMA RequestTypes ==
    ASSUME TypeInv, NEW r \in Routes, Request(r)
    PROVE  TypeInv'
<1> DEFINE n == begun + 1
<1>1. /\ begun' = n /\ n \in Calls /\ n \in Nat /\ begun \in Nat
      /\ MaxCalls \in Nat
  <2>1. begun \in Nat /\ begun' = n /\ MaxCalls \in Nat /\ MaxDisorder <= MaxCalls
    BY BoundsAssumption DEF TypeInv, CallTypes, Request, Begin
  <2>2. n <= IF spoilt' THEN MaxDisorder ELSE MaxCalls
    BY <2>1 DEF Request, Begin
  <2> QED
    BY <2>1, <2>2, BoundsAssumption DEF Calls
<1>2. UNCHANGED <<connVars, connector>>
  BY DEF Request, Begin
<1>3. NetTypes' /\ DOMAIN got' = Calls /\ connector' \in 0..dialled' /\ dialled' = dialled
  BY <1>2 DEF TypeInv, NetTypes, connVars, netVars, serviceVars, callVars
<1>4. spoilt' \in BOOLEAN
  BY DEF Request, TypeInv
<1>5. PICK where \in {"dial", "fetch"}, why \in {"leave", "greet", "probe"} :
        /\ pc' = [pc EXCEPT ![n] = where]
        /\ purpose' = [purpose EXCEPT ![n] = why]
        /\ <<where, why>> \in Where
        /\ why = "leave" => r = disconnect_from_server
  BY <1>1 DEF Request, Where
<1>6. /\ result' = [result EXCEPT ![n] = "pending"]
      /\ route' = [route EXCEPT ![n] = r]
      /\ held' = held
  BY <1>1, <1>2 DEF Request, Begin, connVars, callVars
<1>7. held[n] = None /\ pc[n] = "idle"
  <2>1. n > begun
    BY <1>1
  <2>2. pc[n] = "idle"
    BY <1>1, <2>1 DEF TypeInv, CallTypes
  <2> QED
    BY <1>1, <2>2 DEF TypeInv, CallTypes
<1>8. CallTypes'
  <2>1. /\ begun' \in 0..MaxCalls
        /\ pc' \in [Calls -> {"idle", "dial", "fetch", "send", "recv", "close", "forget"}]
        /\ result' \in [Calls -> {"none", "pending", "success", "error"}]
        /\ held' \in [Calls -> 0..dialled']
        /\ DOMAIN purpose' = Calls
    BY <1>1, <1>3, <1>5, <1>6 DEF TypeInv, CallTypes, Calls
  <2>2. route' \in [Calls -> AllRoutes \cup {NoRoute}]
    BY <1>1, <1>6, RoutesAssumption DEF TypeInv, CallTypes
  <2>3. ASSUME NEW m \in Calls
        PROVE  /\ <<pc'[m], purpose'[m]>> \in Where
               /\ result'[m] = "pending" <=> pc'[m] # "idle"
               /\ pc'[m] \in {"send", "recv"} <=> held'[m] # None
               /\ purpose'[m] = "leave" \/ pc'[m] = "forget" => route'[m] = disconnect_from_server
               /\ m > begun' => pc'[m] = "idle" /\ result'[m] = "none"
    <3>1. CASE m = n
      BY <1>1, <1>5, <1>6, <1>7, <3>1 DEF TypeInv, CallTypes
    <3>2. CASE m # n
      BY <1>1, <1>5, <1>6, <3>2 DEF TypeInv, CallTypes, Calls
    <3> QED
      BY <3>1, <3>2
  <2> QED
    BY <2>1, <2>2, <2>3 DEF CallTypes
<1>9. MayDial' \subseteq MayDial \cup {n}
  BY <1>1, <1>5 DEF MayDial, TypeInv, CallTypes, Calls
<1>10. dialled' + Cardinality(MayDial') <= begun' + 1
  <2>1. dialled \in Nat /\ dialled + Cardinality(MayDial) <= begun + 1
    BY DEF TypeInv, NetTypes
  <2>2. Cardinality(MayDial') \in Nat /\ Cardinality(MayDial') <= Cardinality(MayDial) + 1
    BY <1>9, OneMoreDials
  <2>3. dialled + Cardinality(MayDial') <= begun + 1 + 1
    BY <1>1, <2>1, <2>2, MayDialIsFinite
  <2> QED
    BY <1>1, <1>3, <2>3
<1> QED
  BY <1>3, <1>4, <1>8, <1>10 DEF TypeInv

LEMMA AtOnceTypes ==
    ASSUME TypeInv, NEW r \in Routes, AtOnce(r)
    PROVE  TypeInv'
<1> DEFINE n == begun + 1
<1>1. PICK verdict \in {"error", "success"} : Begin(r, verdict)
  BY DEF AtOnce
<1>2. /\ begun' = n /\ n \in Calls /\ begun \in Nat
  <2>1. begun \in Nat /\ begun' = n /\ MaxCalls \in Nat /\ MaxDisorder <= MaxCalls
    BY <1>1, BoundsAssumption DEF TypeInv, CallTypes, Begin
  <2>2. n <= IF spoilt' THEN MaxDisorder ELSE MaxCalls
    BY <1>1, <2>1 DEF Begin
  <2> QED
    BY <2>1, <2>2, BoundsAssumption DEF Calls
<1>3. UNCHANGED <<connVars, connector, pc, purpose, spoilt>>
  BY <1>1 DEF AtOnce, Begin
<1>4. /\ NetTypes' /\ DOMAIN got' = Calls /\ connector' \in 0..dialled' /\ dialled' = dialled
      /\ spoilt' \in BOOLEAN
  BY <1>3 DEF TypeInv, NetTypes, connVars, netVars, serviceVars, callVars
<1>5. /\ result' = [result EXCEPT ![n] = verdict]
      /\ route' = [route EXCEPT ![n] = r]
      /\ held' = held
  BY <1>1, <1>2, <1>3 DEF Begin, connVars, callVars
<1>6. pc[n] = "idle" /\ <<pc[n], purpose[n]>> \in Where
  BY <1>2 DEF TypeInv, CallTypes
<1>7. purpose[n] # "leave"
  BY <1>6 DEF Where
<1>8. CallTypes'
  <2>1. /\ begun' \in 0..MaxCalls
        /\ pc' \in [Calls -> {"idle", "dial", "fetch", "send", "recv", "close", "forget"}]
        /\ result' \in [Calls -> {"none", "pending", "success", "error"}]
        /\ held' \in [Calls -> 0..dialled']
        /\ DOMAIN purpose' = Calls
    BY <1>2, <1>3, <1>4, <1>5 DEF TypeInv, CallTypes, Calls
  <2>2. route' \in [Calls -> AllRoutes \cup {NoRoute}]
    BY <1>2, <1>5, RoutesAssumption DEF TypeInv, CallTypes
  <2>3. ASSUME NEW m \in Calls
        PROVE  /\ <<pc'[m], purpose'[m]>> \in Where
               /\ result'[m] = "pending" <=> pc'[m] # "idle"
               /\ pc'[m] \in {"send", "recv"} <=> held'[m] # None
               /\ purpose'[m] = "leave" \/ pc'[m] = "forget" => route'[m] = disconnect_from_server
               /\ m > begun' => pc'[m] = "idle" /\ result'[m] = "none"
    <3>1. CASE m = n
      BY <1>2, <1>3, <1>5, <1>6, <1>7, <3>1 DEF TypeInv, CallTypes
    <3>2. CASE m # n
      BY <1>2, <1>3, <1>5, <3>2 DEF TypeInv, CallTypes, Calls
    <3> QED
      BY <3>1, <3>2
  <2> QED
    BY <2>1, <2>2, <2>3 DEF CallTypes
<1>9. MayDial' = MayDial
  BY <1>3 DEF MayDial
<1>10. dialled' + Cardinality(MayDial') <= begun' + 1
  <2>1. dialled \in Nat /\ dialled + Cardinality(MayDial) <= begun + 1
    BY DEF TypeInv, NetTypes
  <2> QED
    BY <1>2, <1>4, <1>9, <2>1, MayDialIsFinite
<1> QED
  BY <1>4, <1>8, <1>10 DEF TypeInv

\* There is room for the connection of a call that may still open one.
LEMMA RoomToDial ==
    ASSUME TypeInv, NEW n \in MayDial
    PROVE  dialled + 1 \in Conns /\ dialled \in Nat
<1>1. Cardinality(MayDial) >= 1
  <2>1. Cardinality({n}) = 1
    BY FS_Singleton
  <2> QED
    BY <2>1, MayDialIsFinite, FS_Subset
<1>2. /\ dialled \in Nat /\ begun \in 0..MaxCalls /\ MaxCalls \in Nat
      /\ dialled + Cardinality(MayDial) <= begun + 1
  BY BoundsAssumption DEF TypeInv, NetTypes, CallTypes
<1> QED
  BY <1>1, <1>2, MayDialIsFinite DEF Conns

LEMMA DialTypes ==
    ASSUME TypeInv, NEW n \in Calls, Dial(n)
    PROVE  TypeInv'
<1>1. /\ pc[n] = "dial" /\ CallTypes /\ NetTypes /\ n \in MayDial
      /\ UNCHANGED <<serviceVars, callVars, begun, route, spoilt>>
  BY DEF Dial, TypeInv, MayDial
<1>2. /\ gone' \in [Conns -> {"no", "fin", "cut", "rst", "over"}]
      /\ DOMAIN got' = Calls /\ spoilt' \in BOOLEAN
  BY <1>1, ClosesTyped DEF Dial, Collect, callVars, TypeInv
<1>3. Hold(n, None) /\ dialled \in Nat
  <2>1. held[n] = None
    BY <1>1 DEF CallTypes
  <2> QED
    BY <1>1, <2>1, StaysHeld DEF callVars, NetTypes
<1>4. CASE /\ connect /\ connector' = dialled'
           /\ IF purpose[n] = "greet" THEN Go(n, "fetch", "greet") ELSE Ensured(n)
  <2>1. /\ NetTypes' /\ connector' \in 0..dialled' /\ dialled' = dialled + 1 /\ dialled' \in Nat
    BY <1>1, <1>2, <1>3, <1>4 DEF connect, NetTypes, serviceVars
  <2>2. \E where \in {"idle", "fetch"}, why \in {"none", "greet", "main"} : \E verdict :
          Moves(n, where, why, verdict, None) /\ Fits(n, where, why, verdict, None)
    <3>1. CASE purpose[n] = "greet"
      <4>1. Moves(n, "fetch", "greet", "pending", None)
        BY <1>1, <1>3, <1>4, <3>1, GoMoves
      <4>2. Fits(n, "fetch", "greet", "pending", None)
        BY <2>1 DEF Fits, Where, None
      <4> QED
        BY <4>1, <4>2
    <3>2. CASE purpose[n] # "greet"
      BY <1>1, <1>3, <1>4, <2>1, <3>2, EnsuredMoves
    <3> QED
      BY <3>1, <3>2
  <2> QED
    BY <1>1, <1>2, <2>1, <2>2, MoveKeepsTypes
<1>5. CASE /\ connector' = None /\ End(n, "error")
           /\ UNCHANGED <<dialled, up, down, lost>>
  <2>1. NetTypes' /\ connector' \in 0..dialled' /\ dialled' = dialled /\ dialled' \in Nat
    BY <1>1, <1>2, <1>3, <1>5 DEF NetTypes, serviceVars, None
  <2>2. Moves(n, "idle", "none", "error", None)
    BY <1>1, <1>3, <1>5, EndMoves
  <2>3. Fits(n, "idle", "none", "error", None)
    BY <2>1 DEF Fits, Where, None
  <2> QED
    BY <1>1, <1>2, <2>1, <2>2, <2>3, MoveKeepsTypes
<1> QED
  BY <1>4, <1>5 DEF Dial

LEMMA RaisedTypes ==
    ASSUME TypeInv, NetTypes', DOMAIN got' = Calls, spoilt' \in BOOLEAN,
           UNCHANGED <<dialled, begun, route>>,
           NEW n \in Calls, pc[n] # "idle", Raised(n), Hold(n, None)
    PROVE  TypeInv'
<1>1. CallTypes /\ dialled' = dialled /\ dialled' \in Nat /\ connector \in 0..dialled'
  BY DEF TypeInv, NetTypes
<1>2. /\ \E where, why, verdict :
           Moves(n, where, why, verdict, None) /\ Fits(n, where, why, verdict, None)
      /\ connector' \in 0..dialled'
  BY <1>1, RaisedMoves DEF None
<1> QED
  BY <1>1, <1>2, MoveKeepsTypes

LEMMA ReturnedTypes ==
    ASSUME TypeInv, NetTypes', DOMAIN got' = Calls, spoilt' \in BOOLEAN,
           UNCHANGED <<dialled, begun, route, connector>>,
           NEW n \in Calls, pc[n] # "idle", NEW pieces, Returned(n, pieces), Hold(n, None)
    PROVE  TypeInv'
<1>1. CallTypes /\ dialled' = dialled /\ dialled' \in Nat /\ connector' \in 0..dialled'
  BY DEF TypeInv, NetTypes
<1>2. \E where, why, verdict :
        Moves(n, where, why, verdict, None) /\ Fits(n, where, why, verdict, None)
  BY <1>1, ReturnedMoves
<1> QED
  BY <1>1, <1>2, MoveKeepsTypes

LEMMA FetchTypes ==
    ASSUME TypeInv, NEW n \in Calls, Fetch(n)
    PROVE  TypeInv'
<1>1. /\ pc[n] = "fetch" /\ CallTypes /\ NetTypes
      /\ UNCHANGED <<dialled, up, down, lost, serviceVars, got, begun, route, spoilt>>
  BY DEF Fetch, TypeInv
<1>2. /\ gone' \in [Conns -> {"no", "fin", "cut", "rst", "over"}]
      /\ DOMAIN got' = Calls /\ spoilt' \in BOOLEAN
  BY <1>1, ClosesTyped DEF Fetch, Collect, TypeInv
<1>3. NetTypes' /\ dialled' = dialled /\ dialled' \in Nat
  BY <1>1, <1>2 DEF NetTypes, serviceVars
<1>4. CASE connector = None /\ Raised(n) /\ UNCHANGED held
  <2>1. held[n] = None
    BY <1>1 DEF CallTypes
  <2>2. Hold(n, None)
    BY <1>1, <1>4, <2>1, StaysHeld
  <2> QED
    BY <1>1, <1>2, <1>3, <1>4, <2>2, RaisedTypes
<1>5. CASE connector # None /\ Hold(n, connector) /\ Go(n, "send", purpose[n]) /\ UNCHANGED connector
  <2>1. Moves(n, "send", purpose[n], "pending", connector)
    BY <1>1, <1>5, GoMoves
  <2>2. /\ connector \in 0..dialled' /\ purpose[n] \in {"greet", "probe", "main", "leave"}
        /\ purpose[n] = "leave" => route[n] = disconnect_from_server
    BY <1>1, <1>3 DEF TypeInv, CallTypes, Where
  <2>3. purpose[n] = "probe" => n \in MayDial
    BY DEF MayDial
  <2>4. Fits(n, "send", purpose[n], "pending", connector)
    BY <1>5, <2>2, <2>3 DEF Fits, Where
  <2> QED
    BY <1>1, <1>2, <1>3, <1>5, <2>1, <2>2, <2>4, MoveKeepsTypes
<1> QED
  BY <1>4, <1>5 DEF Fetch

LEMMA SendTypes ==
    ASSUME TypeInv, NEW n \in Calls, Send(n)
    PROVE  TypeInv'
<1>1. /\ pc[n] = "send" /\ CallTypes /\ NetTypes
      /\ UNCHANGED <<serviceVars, got, begun, route, spoilt>>
  BY DEF Send, TypeInv
<1>2. /\ gone' \in [Conns -> {"no", "fin", "cut", "rst", "over"}]
      /\ DOMAIN got' = Calls /\ spoilt' \in BOOLEAN
  BY <1>1, ClosesTyped DEF Send, Collect, TypeInv
<1>3. CASE sends(n, Tag(n), Command(n)) /\ Go(n, "recv", purpose[n]) /\ UNCHANGED <<connector, held>>
  <2>1. /\ lost' \in [Conns -> {"no", "fin", "cut", "rst"}]
        /\ dialled' = dialled /\ DOMAIN up' = Conns /\ down' = down
    BY <1>1, <1>3 DEF sends, NetTypes
  <2>2. NetTypes' /\ dialled' \in Nat
    BY <1>1, <1>2, <2>1 DEF NetTypes, serviceVars
  <2>3. Moves(n, "recv", purpose[n], "pending", held[n])
    BY <1>1, <1>3, StaysHeld, GoMoves
  <2>4. /\ held[n] \in 0..dialled' /\ held[n] # None
        /\ purpose[n] \in {"greet", "probe", "main", "leave"}
        /\ purpose[n] = "leave" => route[n] = disconnect_from_server
    BY <1>1, <2>1 DEF CallTypes, Where
  <2>5. purpose[n] = "probe" => n \in MayDial
    BY DEF MayDial
  <2>6. Fits(n, "recv", purpose[n], "pending", held[n])
    BY <2>4, <2>5 DEF Fits, Where
  <2>7. connector' \in 0..dialled'
    BY <1>3, <2>1 DEF TypeInv
  <2> QED
    BY <1>1, <1>2, <2>1, <2>2, <2>3, <2>6, <2>7, MoveKeepsTypes
<1>4. CASE sendFails(n) /\ Raised(n) /\ Hold(n, None)
  <2>1. /\ lost' \in [Conns -> {"no", "fin", "cut", "rst"}]
        /\ UNCHANGED <<dialled, up, down>>
    BY <1>1, <1>4 DEF sendFails, NetTypes
  <2>2. NetTypes'
    BY <1>1, <1>2, <2>1 DEF NetTypes, serviceVars
  <2> QED
    BY <1>1, <1>2, <1>4, <2>1, <2>2, RaisedTypes
<1> QED
  BY <1>3, <1>4 DEF Send

LEMMA ReceiveTypes ==
    ASSUME TypeInv, NEW n \in Calls, Receive(n)
    PROVE  TypeInv'
<1>1. /\ pc[n] = "recv" /\ CallTypes /\ NetTypes
      /\ UNCHANGED <<serviceVars, begun, route>>
  BY DEF Receive, TypeInv
<1>2. /\ gone' \in [Conns -> {"no", "fin", "cut", "rst", "over"}]
      /\ spoilt' \in BOOLEAN
  BY <1>1, ClosesTyped DEF Receive, Collect, TypeInv
<1>3. DOMAIN got = Calls
  BY DEF TypeInv
<1>4. ASSUME NEW k \in 1..Len(down[held[n]]), Chunk(n, k), UNCHANGED <<connector, spoilt>>,
             \/ Returned(n, Heard(n, k)) /\ Hold(n, None) /\ Keep(n, <<>>)
             \/ Keep(n, Heard(n, k)) /\ UNCHANGED <<result, pc, purpose, held>>
      PROVE  TypeInv'
  <2>1. /\ NetTypes' /\ dialled' = dialled /\ dialled' \in Nat /\ DOMAIN got' = Calls
    BY <1>1, <1>2, <1>3, <1>4 DEF NetTypes, serviceVars, Chunk, Keep
  <2>2. CASE Returned(n, Heard(n, k)) /\ Hold(n, None)
    BY <1>1, <1>2, <1>4, <2>1, <2>2, ReturnedTypes
  <2>3. CASE UNCHANGED <<result, pc, purpose, held>>
    <3>1. CallTypes'
      BY <1>1, <2>1, <2>3 DEF CallTypes
    <3>2. MayDial' = MayDial
      BY <2>3 DEF MayDial
    <3>3. connector' \in 0..dialled' /\ begun' = begun
      BY <1>1, <1>4, <2>1 DEF TypeInv
    <3>4. dialled' + Cardinality(MayDial') <= begun' + 1
      BY <2>1, <3>2, <3>3 DEF TypeInv
    <3> QED
      BY <1>2, <2>1, <3>1, <3>3, <3>4 DEF TypeInv
  <2> QED
    BY <1>4, <2>2, <2>3
<1>5. ASSUME UNCHANGED <<dialled, up, down, lost, connector>>,
             Returned(n, got[n]), Hold(n, None), Keep(n, <<>>)
      PROVE  TypeInv'
  <2>1. NetTypes' /\ dialled' = dialled /\ DOMAIN got' = Calls
    BY <1>1, <1>2, <1>3, <1>5 DEF NetTypes, serviceVars, Keep
  <2> QED
    BY <1>1, <1>2, <1>5, <2>1, ReturnedTypes
<1>6. ASSUME recvFails(n), Raised(n), Hold(n, None), Keep(n, <<>>)
      PROVE  TypeInv'
  <2>1. /\ lost' \in [Conns -> {"no", "fin", "cut", "rst"}]
        /\ UNCHANGED <<dialled, up, down>>
    BY <1>1, <1>6 DEF recvFails, NetTypes
  <2>2. NetTypes' /\ DOMAIN got' = Calls
    BY <1>1, <1>2, <1>3, <1>6, <2>1 DEF NetTypes, serviceVars, Keep
  <2> QED
    BY <1>1, <1>2, <1>6, <2>1, <2>2, RaisedTypes
<1> QED
  BY <1>4, <1>5, <1>6 DEF Receive, EndOfFile, Timeout

LEMMA CloseTypes ==
    ASSUME TypeInv, NEW n \in Calls, CloseConnector(n) \/ Forget(n)
    PROVE  TypeInv'
<1>1. /\ pc[n] \in {"close", "forget"} /\ CallTypes /\ NetTypes
      /\ UNCHANGED <<dialled, up, down, lost, callVars, serviceVars, begun, route, spoilt>>
  BY DEF CloseConnector, Forget, TypeInv
<1>2. gone' \in [Conns -> {"no", "fin", "cut", "rst", "over"}]
  BY <1>1, ClosesTyped DEF CloseConnector, Forget, Collect, NetTypes
<1>3. /\ NetTypes' /\ dialled' = dialled /\ dialled' \in Nat
      /\ DOMAIN got' = Calls /\ spoilt' \in BOOLEAN
  BY <1>1, <1>2 DEF TypeInv, NetTypes, serviceVars, callVars
<1>4. Hold(n, None)
  <2>1. held[n] = None
    BY <1>1 DEF CallTypes
  <2> QED
    BY <1>1, <2>1, StaysHeld DEF callVars
<1>5. connector' \in 0..dialled'
  BY <1>3 DEF CloseConnector, Forget, TypeInv, None
<1>6. \E where \in {"idle", "forget"}, verdict \in {"pending", "success", "error"} :
        Moves(n, where, "none", verdict, None) /\ Fits(n, where, "none", verdict, None)
  <2>1. \A verdict \in {"success", "error"} : Fits(n, "idle", "none", verdict, None)
    BY <1>3 DEF Fits, Where, None
  <2>2. CASE \E verdict \in {"success", "error"} : End(n, verdict)
    BY <1>1, <1>4, <2>1, <2>2, EndMoves
  <2>3. CASE pc[n] = "close" /\ Go(n, "forget", "none")
    <3>1. purpose[n] = "leave"
      BY <1>1, <2>3 DEF CallTypes, Where
    <3>2. route[n] = disconnect_from_server
      BY <1>1, <3>1 DEF CallTypes
    <3>3. Fits(n, "forget", "none", "pending", None)
      BY <1>3, <3>2 DEF Fits, Where, None
    <3> QED
      BY <1>1, <1>4, <2>3, <3>3, GoMoves
  <2> QED
    BY <2>2, <2>3 DEF CloseConnector, Forget
<1> QED
  BY <1>1, <1>3, <1>5, <1>6, MoveKeepsTypes

LEMMA WebServiceTypes ==
    ASSUME TypeInv, WebService
    PROVE  TypeInv'
<1>1. /\ UNCHANGED <<dialled, callVars, webVars>>
      /\ NetTypes
  BY DEF TypeInv, WebService, ServiceStep, Shutdown, Answer, StaySilent, Restart, Take, HangUp,
         ReadFails, netVars
<1>2. ASSUME NEW how \in {"down", "killed"}, Fall(how), UNCHANGED <<down, gone>>
      PROVE  NetTypes'
  <2>1. /\ lost' \in [Conns -> {"no", "fin", "cut", "rst"}]
        /\ DOMAIN up' = Conns /\ service' \in {"up", "down", "killed"}
    BY <1>1, <1>2 DEF Fall, NetTypes
  <2> QED
    BY <1>1, <1>2, <2>1 DEF NetTypes
<1>3. ASSUME Answer PROVE NetTypes'
  BY <1>1, <1>2, <1>3 DEF Answer, NetTypes
<1>4. ASSUME StaySilent \/ Restart PROVE NetTypes'
  BY <1>1, <1>4 DEF StaySilent, Restart, netVars, NetTypes
<1>5. ASSUME NEW c \in Conns, Take(c) \/ HangUp(c) PROVE NetTypes'
  BY <1>1, <1>5 DEF Take, HangUp, NetTypes, serviceVars
<1>6. ASSUME NEW c \in Conns, ReadFails(c) PROVE NetTypes'
  BY <1>2, <1>6 DEF ReadFails
<1>7. ASSUME Shutdown PROVE NetTypes'
  BY <1>2, <1>7 DEF Shutdown
<1>8. NetTypes'
  BY <1>3, <1>4, <1>5, <1>6, <1>7 DEF WebService, ServiceStep
<1>9. CallTypes' /\ MayDial' = MayDial
  BY <1>1 DEF TypeInv, CallTypes, callVars, webVars, MayDial
<1> QED
  BY <1>1, <1>8, <1>9 DEF TypeInv, callVars, webVars

LEMMA TypeStep ==
    ASSUME TypeInv, [Next]_vars
    PROVE  TypeInv'
<1>1. CASE UNCHANGED vars
  <2>1. NetTypes' /\ CallTypes' /\ MayDial' = MayDial
    BY <1>1 DEF TypeInv, NetTypes, CallTypes, MayDial, vars, connVars, netVars, serviceVars,
                callVars, webVars
  <2> QED
    BY <1>1, <2>1 DEF TypeInv, vars, connVars, netVars, callVars, webVars
<1>2. ASSUME NEW n \in Calls, Continue(n) PROVE TypeInv'
  BY <1>2, DialTypes, FetchTypes, SendTypes, ReceiveTypes, CloseTypes DEF Continue
<1> QED
  BY <1>1, <1>2, RequestTypes, AtOnceTypes, WebServiceTypes DEF Next, Thread

LEMMA TypesHold == Spec => []TypeInv
BY InitTypes, TypeStep, PTL DEF Spec

(***************************************************************************)
(* Types, for any number of calls; with them, that every call opens at     *)
(* most one connection, however the calls' threads overlap                 *)
(* (main.py:ensure_connection).                                            *)
(***************************************************************************)
THEOREM WebTypeCorrect == Spec => []WebTypeOK
<1>1. TypeInv => WebTypeOK
  <2>1. ASSUME TypeInv PROVE dialled \in 0..MaxCalls + 1
    <3>1. /\ dialled \in Nat /\ begun \in 0..MaxCalls /\ MaxCalls \in Nat
          /\ dialled + Cardinality(MayDial) <= begun + 1
      BY <2>1, BoundsAssumption DEF TypeInv, NetTypes, CallTypes
    <3> QED
      BY <3>1, MayDialIsFinite
  <2> QED
    BY <2>1 DEF TypeInv, NetTypes, CallTypes, WebTypeOK
<1> QED
  BY <1>1, TypesHold, PTL

-----------------------------------------------------------------------------
(* Calls in order.                                                         *)

LEMMA Alone ==
    ASSUME TypeInv, Orderly, NEW n \in Calls, pc[n] # "idle"
    PROVE  \A m \in Calls \ {n} : pc[m] = "idle" /\ held[m] = None /\ got[m] = <<>>
BY DEF Orderly, OneByOne, TypeInv, CallTypes

\* While nobody receives all connections are quiet.
LEMMA AllQuiet ==
    ASSUME TypeInv, Orderly, NEW n \in Calls, pc[n] \notin {"idle", "recv"}
    PROVE  \A c \in Conns : Quiet(c)
BY Alone DEF Orderly, Links

\* The call that holds a connection holds the connector's, which is open.
LEMMA HoldsConnector ==
    ASSUME TypeInv, Orderly, NEW n \in Calls, pc[n] \in {"send", "recv"}
    PROVE  /\ held[n] = connector /\ held[n] \in Conns /\ held[n] # None
           /\ Open(held[n]) /\ gone[held[n]] = "no"
           /\ \A c \in Conns : c # held[n] => Quiet(c)
<1>1. held[n] # None /\ held[n] = connector /\ held[n] \in 0..dialled /\ dialled \in Nat
  BY DEF Orderly, OneByOne, TypeInv, CallTypes, NetTypes
<1>2. held[n] \in Opened
  BY <1>1 DEF Opened, None
<1>3. held[n] \in Conns
  <2>1. dialled <= begun + 1 /\ begun \in 0..MaxCalls /\ MaxCalls \in Nat
    BY <1>1, MayDialIsFinite, BoundsAssumption DEF TypeInv, CallTypes
  <2> QED
    BY <1>1, <2>1 DEF None, Conns
<1>4. gone[connector] = "no"
  <2>1. \A m \in Calls : pc[m] # "forget"
    BY Alone
  <2> QED
    BY <1>1, <2>1 DEF Orderly, OneByOne
<1>5. ASSUME NEW c \in Conns, c # held[n] PROVE Quiet(c)
  <2>1. \A m \in Calls : pc[m] = "recv" => m = n
    BY Alone
  <2> QED
    BY <1>5, <2>1 DEF Orderly, Links
<1> QED
  BY <1>1, <1>2, <1>3, <1>4, <1>5 DEF Open

\* What a call has received, when it has received these.
Collects(n, pieces) == \A m \in Calls : got'[m] = IF m = n THEN pieces ELSE got[m]

\* A step of the one call that is there.
LEMMA MoveKeepsOrder ==
    ASSUME TypeInv, Orderly, UNCHANGED <<dialled, service, handling, performed>>,
           NEW n \in Calls, pc[n] # "idle",
           NEW where, NEW why, NEW verdict, NEW h, NEW pieces,
           Moves(n, where, why, verdict, h), Collects(n, pieces),
           connector' # None => gone'[connector'] = "no" \/ where = "forget",
           h \in {None, connector'},
           where = "dial" => connector' = None,
           where # "recv" => pieces = <<>>,
           where = "recv" => Exchange(n, h)',
           \A c \in Conns :
              /\ gone'[c] \in {"no", "fin", "over"}
              /\ c \in Opened /\ gone'[c] = "no" => c = connector'
              /\ c \notin Opened => up'[c] = <<>> /\ gone'[c] = "no" /\ lost'[c] = "no"
              /\ lost'[c] # "no" => up'[c] = <<>> /\ handling.conn # c
              /\ Quiet(c)' \/ (where = "recv" /\ h = c)
    PROVE  Orderly'
<1>1. \A m \in Calls \ {n} : pc'[m] = "idle" /\ held'[m] = None /\ got'[m] = <<>>
  BY Alone DEF Moves, TypeInv, CallTypes, Collects
<1>2. pc'[n] = where /\ held'[n] = h /\ got'[n] = pieces
  BY DEF Collects, Moves, TypeInv, CallTypes
<1>3. Served' /\ Opened' = Opened
  BY DEF Orderly, Served, Opened
<1>4. OneByOne'
  <2>1. \A m \in Calls : m = n \/ m \in Calls \ {n}
    OBVIOUS
  <2>2. \A k, m \in Calls : pc'[k] # "idle" /\ pc'[m] # "idle" => k = m
    BY <1>1
  <2>3. connector' # None => gone'[connector'] = "no" \/ \E m \in Calls : pc'[m] = "forget"
    BY <1>2
  <2>4. ASSUME NEW m \in Calls
        PROVE  /\ held'[m] \in {None, connector'}
               /\ pc'[m] = "dial" => connector' = None
               /\ pc'[m] # "recv" => got'[m] = <<>>
               /\ pc'[m] = "recv" => Exchange(m, held[m])'
    <3>1. CASE m = n
      BY <1>2, <3>1
    <3>2. CASE m # n
      BY <1>1, <3>2
    <3> QED
      BY <3>1, <3>2
  <2> QED
    BY <2>2, <2>3, <2>4 DEF OneByOne
<1>5. Links'
  BY <1>2, <1>3 DEF Links
<1> QED
  BY <1>3, <1>4, <1>5 DEF Orderly

\* What is collected when one call has moved.
LEMMA Collected ==
    ASSUME TypeInv, Orderly, Collect, NEW n \in Calls, pc[n] # "idle",
           NEW h, Hold(n, h)
    PROVE  \A c \in Conns :
              gone'[c] = IF c \in Opened /\ gone[c] = "no" /\ c # connector' /\ c # h
                         THEN IF down'[c] = <<>> THEN "fin" ELSE "rst" ELSE gone[c]
<1>1. \A m \in Calls \ {n} : held'[m] = None
  BY Alone DEF Hold, TypeInv, CallTypes
<1>2. held'[n] = h
  BY DEF Hold, TypeInv, CallTypes
<1>3. \A c \in Opened : c # None
  BY DEF Opened, None
<1>4. \A c \in Opened : (\A m \in Calls : held'[m] # c) <=> h # c
  BY <1>1, <1>2, <1>3
<1> DEFINE closed == {c \in Opened : c # connector' /\ \A m \in Calls : held'[m] # c}
<1>5. gone' = [c \in Conns |-> IF Open(c) /\ c \in closed THEN Left(c) ELSE gone[c]]
  BY DEF Collect, Closes
<1>6. \A c : c \in closed <=> c \in Opened /\ c # connector' /\ c # h
  BY <1>4
<1> HIDE DEF closed
<1> QED
  BY <1>5, <1>6 DEF Open, Left

\* A call ends what it was at on the connector's connection, and leaves all
\* connections quiet.
LEMMA LeavingKeepsOrder ==
    ASSUME TypeInv, Orderly, Collect,
           UNCHANGED <<dialled, up, service, handling, performed>>,
           NEW n \in Calls, pc[n] # "idle",
           NEW where, NEW why, NEW verdict, NEW h,
           Moves(n, where, why, verdict, h), Collects(n, <<>>),
           where # "recv", h \in {None, connector'},
           where = "dial" => connector' = None,
           connector' # None => connector' \in Conns /\ gone[connector'] = "no",
           \A c \in Conns : lost'[c] = lost[c] \/ (lost[c] # "no" /\ c \in Opened),
           \A c \in Conns : Quiet(c)'
    PROVE  Orderly'
<1>1. \A c \in Conns :
        gone'[c] = IF c \in Opened /\ gone[c] = "no" /\ c # connector' /\ c # h
                   THEN "fin" ELSE gone[c]
  <2>1. Hold(n, h)
    BY DEF Moves, Hold
  <2>2. \A c \in Conns : down'[c] = <<>>
    BY DEF Quiet
  <2>3. \A c \in Conns :
          gone'[c] = IF c \in Opened /\ gone[c] = "no" /\ c # connector' /\ c # h
                     THEN IF down'[c] = <<>> THEN "fin" ELSE "rst" ELSE gone[c]
    BY <2>1, Collected
  <2> QED
    BY <2>2, <2>3
<1>3. connector' # None => gone'[connector'] = "no"
  BY <1>1
<1>4. ASSUME NEW c \in Conns
      PROVE  /\ gone'[c] \in {"no", "fin", "over"}
             /\ c \in Opened /\ gone'[c] = "no" => c = connector'
             /\ c \notin Opened => up'[c] = <<>> /\ gone'[c] = "no" /\ lost'[c] = "no"
             /\ lost'[c] # "no" => up'[c] = <<>> /\ handling.conn # c
  <2>1. /\ gone[c] \in {"no", "fin", "over"}
        /\ c \notin Opened => up[c] = <<>> /\ gone[c] = "no" /\ lost[c] = "no"
        /\ lost[c] # "no" => up[c] = <<>> /\ handling.conn # c
    BY DEF Orderly, Links
  <2>2. c \in Opened => c # None
    BY DEF Opened, None
  <2> QED
    BY <1>1, <2>1, <2>2
<1> QED
  BY <1>3, <1>4, MoveKeepsOrder

LEMMA DialOrder ==
    ASSUME TypeInv, Orderly, NEW n \in Calls, Dial(n)
    PROVE  Orderly'
<1>1. /\ pc[n] = "dial" /\ connector = None /\ n \in MayDial /\ held[n] = None /\ got[n] = <<>>
      /\ UNCHANGED <<serviceVars, callVars, begun, route, spoilt>>
  BY DEF Dial, MayDial, Orderly, OneByOne, TypeInv, CallTypes
<1>2. \A c \in Conns : Quiet(c)
  BY <1>1, AllQuiet
<1>3. Hold(n, None) /\ Collects(n, <<>>)
  BY <1>1, StaysHeld DEF callVars, TypeInv, Collects
<1>4. \A c \in Conns : c \in Opened => gone[c] # "no"
  BY <1>1 DEF Orderly, Links, Opened, None
<1>5. gone' = gone
  <2>1. gone' = [c \in Conns |-> gone[c]]
    BY <1>4 DEF Dial, Collect, Closes, Open
  <2> QED
    BY <2>1 DEF TypeInv, NetTypes
<1>6. CASE /\ connect /\ connector' = dialled'
           /\ IF purpose[n] = "greet" THEN Go(n, "fetch", "greet") ELSE Ensured(n)
  <2> DEFINE new == dialled + 1
  <2>1. new \in Conns /\ dialled \in Nat
    BY <1>1, RoomToDial
  <2>2. /\ dialled' = new /\ Opened' = Opened \cup {new} /\ new \notin Opened /\ new # None
        /\ connector' = new /\ UNCHANGED <<down, lost>>
    BY <1>6, <2>1 DEF connect, Opened, None
  <2>3. \A c \in Conns : up'[c] = IF c = new THEN <<Name>> ELSE up[c]
    BY <1>6, <2>1 DEF connect, Name, TypeInv, NetTypes
  <2>4. \E where \in {"idle", "fetch"} : \E why, verdict : Moves(n, where, why, verdict, None)
    <3>1. CASE purpose[n] = "greet"
      BY <1>1, <1>3, <1>6, <3>1, GoMoves DEF TypeInv
    <3>2. CASE purpose[n] # "greet"
      BY <1>1, <1>3, <1>6, <2>1, <2>2, <3>2, EnsuredMoves DEF TypeInv
    <3> QED
      BY <3>1, <3>2
  <2>5. PICK where \in {"idle", "fetch"} : pc' = [pc EXCEPT ![n] = where]
    BY <2>4 DEF Moves
  <2>6. Served'
    BY <1>1, <2>2 DEF Orderly, Served, serviceVars
  <2>7. /\ \A m \in Calls \ {n} : pc'[m] = "idle" /\ held'[m] = None /\ got'[m] = <<>>
        /\ pc'[n] = where /\ held'[n] = None /\ got'[n] = <<>>
    BY <1>1, <2>5, Alone DEF callVars, TypeInv, CallTypes
  <2>8. OneByOne'
    <3>1. gone'[new] = "no"
      BY <1>5, <2>1, <2>2 DEF Orderly, Links
    <3> QED
      BY <2>2, <2>7, <3>1 DEF OneByOne
  <2>9. Links'
    <3>1. ASSUME NEW c \in Conns
          PROVE  /\ gone'[c] \in {"no", "fin", "over"}
                 /\ c \in Opened' /\ gone'[c] = "no" => c = connector'
                 /\ c \notin Opened' => up'[c] = <<>> /\ gone'[c] = "no" /\ lost'[c] = "no"
                 /\ lost'[c] # "no" => up'[c] = <<>> /\ handling'.conn # c
      BY <1>1, <1>4, <1>5, <2>1, <2>2, <2>3 DEF Orderly, Links, serviceVars
    <3>2. ASSUME NEW c \in Conns PROVE Quiet(c)'
      <4>1. CASE c = new
        <5>1. handling.conn # new
          BY <2>1, <2>2 DEF Orderly, Served, Idle
        <5> QED
          BY <1>1, <1>2, <2>1, <2>2, <2>3, <4>1, <5>1 DEF Quiet, NameInHand, serviceVars, Name
      <4>2. CASE c # new
        BY <1>1, <1>2, <2>2, <2>3, <4>2 DEF Quiet, NameInHand, serviceVars, Name
      <4> QED
        BY <4>1, <4>2
    <3> QED
      BY <3>1, <3>2 DEF Links
  <2> QED
    BY <2>6, <2>8, <2>9 DEF Orderly
<1>7. CASE /\ connector' = None /\ End(n, "error")
           /\ UNCHANGED <<dialled, up, down, lost>>
  <2>1. Moves(n, "idle", "none", "error", None)
    BY <1>1, <1>3, <1>7, EndMoves
  <2>2. \A c \in Conns : Quiet(c)'
    BY <1>1, <1>2, <1>7 DEF Quiet, NameInHand, serviceVars, Name
  <2>3. Collect
    BY DEF Dial
  <2> QED
    BY <1>1, <1>3, <1>7, <2>1, <2>2, <2>3, LeavingKeepsOrder DEF serviceVars
<1> QED
  BY <1>6, <1>7 DEF Dial

\* A call whose method has ended, whichever way.
LEMMA EndedKeepsOrder ==
    ASSUME TypeInv, Orderly, Collect,
           UNCHANGED <<dialled, up, serviceVars, begun, route>>,
           NEW n \in Calls, pc[n] \in {"fetch", "send", "recv"},
           Hold(n, None), Collects(n, <<>>),
           \/ Raised(n)
           \/ \E pieces : Returned(n, pieces) /\ UNCHANGED connector,
           \A c \in Conns : lost'[c] = lost[c] \/ (lost[c] # "no" /\ c \in Opened),
           \A c \in Conns : Quiet(c)'
    PROVE  Orderly'
<1>1. /\ CallTypes /\ dialled \in Nat /\ dialled' = dialled /\ dialled' \in Nat
      /\ UNCHANGED <<begun, route, service, handling, performed>>
  BY DEF TypeInv, NetTypes, serviceVars
<1>2. \E where \in {"idle", "fetch", "close", "dial"} : \E why, verdict :
         /\ Moves(n, where, why, verdict, None)
         /\ UNCHANGED connector \/ connector' = None
         /\ where = "dial" => connector' = None
  <2>1. CASE Raised(n)
    BY <1>1, <2>1, RaisedMoves
  <2>2. ASSUME NEW pieces, Returned(n, pieces), UNCHANGED connector
        PROVE  \E where \in {"idle", "fetch", "close"} : \E why, verdict :
                  Moves(n, where, why, verdict, None)
    BY <1>1, <2>2, ReturnedMoves
  <2> QED
    BY <2>1, <2>2
<1>3. connector # None => connector \in Conns /\ gone[connector] = "no"
  <2>1. \A m \in Calls : pc[m] # "forget"
    BY Alone
  <2>2. connector \in 0..dialled /\ dialled <= MaxCalls + 1 /\ MaxCalls \in Nat
    <3>1. dialled + Cardinality(MayDial) <= begun + 1 /\ begun \in 0..MaxCalls
      BY DEF TypeInv, CallTypes
    <3> QED
      BY <1>1, <3>1, MayDialIsFinite, BoundsAssumption DEF TypeInv
  <2> QED
    BY <1>1, <2>1, <2>2 DEF Orderly, OneByOne, Conns, None
<1> QED
  BY <1>1, <1>2, <1>3, LeavingKeepsOrder

LEMMA FetchOrder ==
    ASSUME TypeInv, Orderly, NEW n \in Calls, Fetch(n)
    PROVE  Orderly'
<1>1. /\ pc[n] = "fetch" /\ held[n] = None /\ got[n] = <<>> /\ Collect
      /\ UNCHANGED <<dialled, up, down, lost, serviceVars, got, begun, route, spoilt>>
  BY DEF Fetch, Orderly, OneByOne, TypeInv, CallTypes
<1>2. \A c \in Conns : Quiet(c)'
  BY <1>1, AllQuiet DEF Quiet, NameInHand, serviceVars, Name
<1>3. Collects(n, <<>>) /\ CallTypes
  BY <1>1 DEF TypeInv, Collects
<1>4. CASE connector = None /\ Raised(n) /\ UNCHANGED held
  <2>1. Hold(n, None)
    BY <1>1, <1>3, <1>4, StaysHeld
  <2> QED
    BY <1>1, <1>2, <1>3, <1>4, <2>1, EndedKeepsOrder
<1>5. CASE connector # None /\ Hold(n, connector) /\ Go(n, "send", purpose[n]) /\ UNCHANGED connector
  <2>1. Moves(n, "send", purpose[n], "pending", connector)
    BY <1>1, <1>3, <1>5, GoMoves
  <2>2. connector \in Conns /\ gone[connector] = "no"
    <3>1. \A m \in Calls : pc[m] # "forget"
      BY <1>1, Alone
    <3>2. /\ dialled + Cardinality(MayDial) <= begun + 1 /\ begun \in 0..MaxCalls
          /\ connector \in 0..dialled /\ dialled \in Nat
      BY DEF TypeInv, CallTypes, NetTypes
    <3>3. connector \in 0..MaxCalls + 1
      BY <3>2, MayDialIsFinite, BoundsAssumption
    <3> QED
      BY <1>5, <3>1, <3>3, BoundsAssumption DEF Orderly, OneByOne, Conns, None
  <2> QED
    BY <1>1, <1>2, <1>3, <1>5, <2>1, <2>2, LeavingKeepsOrder DEF serviceVars
<1> QED
  BY <1>4, <1>5 DEF Fetch

\* Sequences of one or two, put together and taken apart.
LEMMA OneOrTwo ==
    ASSUME NEW a, NEW b
    PROVE  /\ Append(<<>>, b) = <<b>> /\ Append(<<a>>, b) = <<a, b>>
           /\ <<>> \o <<a>> = <<a>> /\ <<>> \o <<a, b>> = <<a, b>> /\ <<a>> \o <<b>> = <<a, b>>
           /\ SubSeq(<<a, b>>, 1, 1) = <<a>> /\ SubSeq(<<a, b>>, 2, 2) = <<b>>
           /\ SubSeq(<<a, b>>, 1, 2) = <<a, b>> /\ SubSeq(<<a, b>>, 3, 2) = <<>>
           /\ SubSeq(<<b>>, 1, 1) = <<b>> /\ SubSeq(<<b>>, 2, 1) = <<>>
           /\ Len(<<>>) = 0 /\ Len(<<a>>) = 1 /\ Len(<<b>>) = 1 /\ Len(<<a, b>>) = 2
<1> DEFINE S == {a, b}
           one == <<a>>
           last == <<b>>
           two == <<a, b>>
<1>1. one \in Seq(S) /\ last \in Seq(S) /\ two \in Seq(S) /\ <<>> \in Seq(S)
  OBVIOUS
<1>2. /\ Len(one) = 1 /\ Len(last) = 1 /\ Len(two) = 2 /\ Len(<<>>) = 0
      /\ one[1] = a /\ last[1] = b /\ two[1] = a /\ two[2] = b
  OBVIOUS
<1>3. Append(<<>>, b) = last
  OBVIOUS
<1>4. <<>> \o one = one /\ <<>> \o two = two
  BY <1>1, ConcatEmptySeq
<1> HIDE DEF one, last, two
<1>5. \A s, t \in Seq(S) :
        Len(s) = Len(t) /\ (\A i \in 1..Len(s) : s[i] = t[i]) => s = t
  BY SeqEqual
<1>6. Append(one, b) = two
  <2>1. /\ Append(one, b) \in Seq(S) /\ Len(Append(one, b)) = 2
        /\ Append(one, b)[1] = a /\ Append(one, b)[2] = b
    <3>1. b \in S
      OBVIOUS
    <3> HIDE DEF S
    <3>2. /\ Append(one, b) \in Seq(S) /\ Len(Append(one, b)) = Len(one) + 1
          /\ \A i \in 1..Len(one) : Append(one, b)[i] = one[i]
          /\ Append(one, b)[Len(one) + 1] = b
      BY <1>1, <3>1, AppendProperties
    <3>3. Len(one) + 1 = 2 /\ 1 \in 1..Len(one)
      BY <1>2
    <3> QED
      BY <1>2, <3>2, <3>3
  <2> QED
    BY <1>1, <1>2, <1>5, <2>1
<1>7. one \o last = two
  <2>1. /\ one \o last \in Seq(S) /\ Len(one \o last) = 2
        /\ (one \o last)[1] = a /\ (one \o last)[2] = b
    BY <1>1, <1>2, ConcatProperties
  <2> QED
    BY <1>1, <1>2, <1>5, <2>1
<1>8. SubSeq(two, 1, 1) = one
  <2>1. /\ SubSeq(two, 1, 1) \in Seq(S) /\ Len(SubSeq(two, 1, 1)) = 1
        /\ SubSeq(two, 1, 1)[1] = a
    BY <1>1, <1>2, SubSeqProperties
  <2> QED
    BY <1>1, <1>2, <1>5, <2>1
<1>9. SubSeq(two, 2, 2) = last
  <2>1. /\ SubSeq(two, 2, 2) \in Seq(S) /\ Len(SubSeq(two, 2, 2)) = 1
        /\ SubSeq(two, 2, 2)[1] = b
    BY <1>1, <1>2, SubSeqProperties
  <2> QED
    BY <1>1, <1>2, <1>5, <2>1
<1>10. SubSeq(two, 1, 2) = two /\ SubSeq(last, 1, 1) = last
  BY <1>1, <1>2, SubSeqFull
<1>11. SubSeq(two, 3, 2) = <<>> /\ SubSeq(last, 2, 1) = <<>>
  BY SubSeqEmpty
<1> QED
  BY <1>2, <1>3, <1>4, <1>6, <1>7, <1>8, <1>9, <1>10, <1>11 DEF one, last, two

LEMMA SendOrder ==
    ASSUME TypeInv, Orderly, NEW n \in Calls, Send(n)
    PROVE  Orderly'
<1> PICK c : c = held[n]
  OBVIOUS
<1>1. /\ pc[n] = "send" /\ got[n] = <<>> /\ Collect /\ CallTypes
      /\ UNCHANGED <<serviceVars, got, begun, route, spoilt>>
  BY DEF Send, Orderly, OneByOne, TypeInv
<1>2. /\ c = connector /\ c \in Conns /\ c # None /\ Open(c) /\ gone[c] = "no"
  BY <1>1, HoldsConnector
<1>3. \A d \in Conns : Quiet(d)
  BY <1>1, AllQuiet
<1>4. Collects(n, <<>>)
  BY <1>1 DEF Collects
<1>5. CASE sends(n, Tag(n), Command(n)) /\ Go(n, "recv", purpose[n]) /\ UNCHANGED <<connector, held>>
  <2>1. Moves(n, "recv", purpose[n], "pending", c)
    BY <1>1, <1>5, StaysHeld, GoMoves
  <2>2. gone' = gone
    <3>1. Hold(n, c)
      BY <1>1, <1>5, StaysHeld
    <3>2. \A d \in Conns : gone'[d] = gone[d]
      BY <1>1, <1>2, <1>5, <3>1, Collected DEF Orderly, Links
    <3> QED
      BY <1>1, <3>2 DEF Collect, Closes, TypeInv, NetTypes
  <2>3. Asked(n)' = Asked(n) /\ Tag(n)' = Tag(n) /\ Command(n)' = Command(n)
    <3>1. purpose'[n] = purpose[n] /\ route' = route
      BY <1>1, <2>1 DEF Moves, CallTypes
    <3> QED
      BY <3>1 DEF Asked, Tag, Command
  <2>4. /\ dialled' = dialled /\ down' = down
        /\ \/ /\ lost[c] = "no" /\ lost' = lost
              /\ up' = [up EXCEPT ![c] = Append(@, Asked(n))]
           \/ lost[c] = "fin" /\ lost' = [lost EXCEPT ![c] = "cut"] /\ up' = up
    BY <1>5 DEF sends, Asked
  <2>5. Exchange(n, c)'
    <3>1. got'[n] = <<>> /\ down'[c] = <<>> /\ up[c] \in {<<>>, <<Name>>} /\ NameInHand(c)'
      BY <1>1, <1>2, <1>3, <2>4 DEF Quiet, NameInHand, serviceVars
    <3>2. CASE lost[c] = "no" /\ up' = [up EXCEPT ![c] = Append(@, Asked(n))]
      <4>1. up'[c] = Append(up[c], Asked(n))
        BY <1>2, <3>2 DEF TypeInv, NetTypes
      <4>2. up'[c] \in {<<Asked(n)>>, <<Name, Asked(n)>>}
        <5>1. /\ Append(<<>>, Asked(n)) = <<Asked(n)>>
              /\ Append(<<Name>>, Asked(n)) = <<Name, Asked(n)>>
          BY OneOrTwo
        <5> QED
          BY <3>1, <4>1, <5>1
      <4> QED
        BY <2>3, <3>1, <4>2 DEF Exchange, Waiting, Name
    <3>3. CASE lost[c] # "no" /\ up' = up
      BY <1>1, <1>2, <3>1, <3>3 DEF Exchange, Unheard, Orderly, Links, serviceVars
    <3> QED
      BY <2>4, <3>2, <3>3
  <2>6. ASSUME NEW d \in Conns
        PROVE  /\ gone'[d] \in {"no", "fin", "over"}
               /\ d \in Opened /\ gone'[d] = "no" => d = connector'
               /\ d \notin Opened => up'[d] = <<>> /\ gone'[d] = "no" /\ lost'[d] = "no"
               /\ lost'[d] # "no" => up'[d] = <<>> /\ handling.conn # d
               /\ Quiet(d)' \/ c = d
    <3>1. CASE d = c
      BY <1>1, <1>2, <1>5, <2>2, <2>4, <3>1 DEF Orderly, Links, Open, TypeInv, NetTypes
    <3>2. CASE d # c
      <4>1. up'[d] = up[d] /\ down'[d] = down[d] /\ lost'[d] = lost[d]
        BY <2>4, <3>2 DEF TypeInv, NetTypes
      <4> QED
        BY <1>1, <1>3, <1>5, <2>2, <4>1 DEF Orderly, Links, Quiet, NameInHand, serviceVars, Name
    <3> QED
      BY <3>1, <3>2
  <2>7. UNCHANGED <<dialled, service, handling, performed>> /\ connector' = c /\ pc[n] # "idle"
    BY <1>1, <1>2, <1>5, <2>4 DEF serviceVars
  <2>8. gone'[connector'] = "no"
    BY <1>2, <2>2, <2>7
  <2> QED
    BY <1>4, <2>1, <2>5, <2>6, <2>7, <2>8, MoveKeepsOrder
<1>6. CASE sendFails(n) /\ Raised(n) /\ Hold(n, None)
  <2>1. UNCHANGED <<dialled, up, down>> /\ lost[c] # "no" /\ lost' = [lost EXCEPT ![c] = "cut"]
    BY <1>2, <1>6 DEF sendFails
  <2>2. \A d \in Conns : lost'[d] = lost[d] \/ (lost[d] # "no" /\ d \in Opened)
    BY <1>2, <2>1 DEF Open, TypeInv, NetTypes
  <2>3. \A d \in Conns : Quiet(d)'
    BY <1>1, <1>3, <2>1 DEF Quiet, NameInHand, serviceVars, Name
  <2> QED
    BY <1>1, <1>4, <1>6, <2>1, <2>2, <2>3, EndedKeepsOrder
<1> QED
  BY <1>5, <1>6 DEF Send

\* A chunk is the first piece of the call's own answer, or completes it.
LEMMA ChunkIsOwn ==
    ASSUME TypeInv, Orderly, NEW n \in Calls, pc[n] = "recv",
           NEW k \in 1..Len(down[held[n]]), Chunk(n, k)
    PROVE  \E ok \in BOOLEAN :
              /\ ok /\ Tag(n) # None => Tag(n) \in performed
              /\ up[held[n]] = <<>> /\ handling.conn # held[n]
              /\ \/ /\ Heard(n, k) = <<Pieces(Tag(n), ok)[1]>> /\ ~EndsAnswer(Heard(n, k))
                    /\ down'[held[n]] = <<Pieces(Tag(n), ok)[2]>>
                 \/ /\ Heard(n, k) = Pieces(Tag(n), ok) /\ EndsAnswer(Heard(n, k))
                    /\ down'[held[n]] = <<>>
<1> DEFINE c == held[n]
<1>1. c \in Conns /\ Exchange(n, c)
  BY HoldsConnector DEF Orderly, OneByOne
<1>2. down[c] # <<>>
  <2>1. Len(<<>>) = 0
    OBVIOUS
  <2> QED
    BY <2>1
<1>3. Told(n, c)
  BY <1>1, <1>2 DEF Exchange, Waiting, Unheard
<1>4. PICK ok \in BOOLEAN :
        /\ ok /\ Tag(n) # None => Tag(n) \in performed
        /\ \/ got[n] = <<>> /\ down[c] = Pieces(Tag(n), ok)
           \/ got[n] = <<Pieces(Tag(n), ok)[1]>> /\ down[c] = <<Pieces(Tag(n), ok)[2]>>
  BY <1>3 DEF Told
<1> DEFINE a == [call |-> Tag(n), ok |-> ok, last |-> FALSE]
           b == [call |-> Tag(n), ok |-> ok, last |-> TRUE]
<1>5. Pieces(Tag(n), ok) = <<a, b>> /\ <<a, b>>[1] = a /\ <<a, b>>[2] = b /\ ~a.last /\ b.last
  BY DEF Pieces
<1>6. /\ <<a>>[Len(<<a>>)] = a /\ <<a, b>>[Len(<<a, b>>)] = b
  BY OneOrTwo
<1>7. ~EndsAnswer(<<a>>) /\ EndsAnswer(<<a, b>>)
  BY <1>5, <1>6 DEF EndsAnswer
<1>8. /\ down'[c] = SubSeq(down[c], k + 1, Len(down[c]))
      /\ Heard(n, k) = got[n] \o SubSeq(down[c], 1, k)
  BY <1>1 DEF Chunk, Heard, TypeInv, NetTypes
<1> HIDE DEF a, b
<1>9. /\ SubSeq(<<a, b>>, 1, 1) = <<a>> /\ SubSeq(<<a, b>>, 2, 2) = <<b>>
      /\ SubSeq(<<a, b>>, 1, 2) = <<a, b>> /\ SubSeq(<<a, b>>, 3, 2) = <<>>
      /\ SubSeq(<<b>>, 1, 1) = <<b>> /\ SubSeq(<<b>>, 2, 1) = <<>>
  BY OneOrTwo
<1>10. \/ Heard(n, k) = <<a>> /\ down'[c] = <<b>>
       \/ Heard(n, k) = <<a, b>> /\ down'[c] = <<>>
  <2>1. CASE got[n] = <<>> /\ down[c] = <<a, b>> /\ k = 1
    <3>1. k + 1 = 2 /\ Len(down[c]) = 2
      BY <2>1, OneOrTwo
    <3>2. SubSeq(down[c], 1, 1) = <<a>> /\ SubSeq(down[c], 2, 2) = <<b>>
      BY <2>1, <1>9
    <3>3. down'[c] = <<b>> /\ Heard(n, k) = <<>> \o <<a>>
      BY <1>8, <2>1, <3>1, <3>2
    <3> QED
      BY <3>3, OneOrTwo
  <2>2. CASE got[n] = <<>> /\ down[c] = <<a, b>> /\ k = 2
    <3>1. k + 1 = 3 /\ Len(down[c]) = 2
      BY <2>2, OneOrTwo
    <3>2. SubSeq(down[c], 1, 2) = <<a, b>> /\ SubSeq(down[c], 3, 2) = <<>>
      BY <2>2, <1>9
    <3>3. down'[c] = <<>> /\ Heard(n, k) = <<>> \o <<a, b>>
      BY <1>8, <2>2, <3>1, <3>2
    <3> QED
      BY <3>3, OneOrTwo
  <2>3. CASE got[n] = <<a>> /\ down[c] = <<b>> /\ k = 1
    <3>1. k + 1 = 2 /\ Len(down[c]) = 1
      BY <2>3, OneOrTwo
    <3>2. SubSeq(down[c], 1, 1) = <<b>> /\ SubSeq(down[c], 2, 1) = <<>>
      BY <2>3, <1>9
    <3>3. down'[c] = <<>> /\ Heard(n, k) = <<a>> \o <<b>>
      BY <1>8, <2>3, <3>1, <3>2
    <3> QED
      BY <3>3, OneOrTwo
  <2>4. CASE got[n] = <<>> /\ down[c] = <<a, b>>
    <3>1. k \in 1..2
      BY <2>4, OneOrTwo
    <3> QED
      BY <2>1, <2>2, <2>4, <3>1
  <2>5. CASE got[n] = <<a>> /\ down[c] = <<b>>
    <3>1. k \in 1..1
      BY <2>5, OneOrTwo
    <3> QED
      BY <2>3, <2>5, <3>1
  <2> QED
    BY <1>4, <1>5, <2>4, <2>5
<1>11. up[c] = <<>> /\ handling.conn # c
  BY <1>3 DEF Told
<1> QED
  BY <1>4, <1>5, <1>7, <1>10, <1>11

\* A call that gives up without a whole answer has heard nothing and leaves
\* nothing behind.
LEMMA NothingHeard ==
    ASSUME TypeInv, Orderly, NEW n \in Calls, pc[n] = "recv",
           \/ EndOfFile(n) \/ recvFails(n)
           \/ Timeout(n) /\ ~Awaited(held[n])
    PROVE  /\ got[n] = <<>> /\ Quiet(held[n])
           /\ UNCHANGED <<dialled, up, down>>
           /\ \A c \in Conns : lost'[c] = lost[c] \/ (lost[c] # "no" /\ c \in Opened)
<1> DEFINE c == held[n]
<1>1. c \in Conns /\ Open(c) /\ gone[c] = "no" /\ Exchange(n, c)
  BY HoldsConnector DEF Orderly, OneByOne
<1>2. Dry(c) /\ UNCHANGED <<dialled, up, down>>
  BY <1>1 DEF EndOfFile, recvFails, Timeout, TimedOut
<1>3. up[c] = <<>> /\ handling.conn # c
  <2>1. CASE EndOfFile(n) \/ recvFails(n)
    <3>1. lost[c] # "no"
      BY <1>1, <2>1 DEF EndOfFile, recvFails
    <3> QED
      BY <1>1, <3>1 DEF Orderly, Links
  <2>2. CASE Timeout(n) /\ ~Awaited(c)
    BY <1>1, <2>2 DEF Awaited
  <2> QED
    BY <2>1, <2>2
<1>4. down[c] = <<>>
  BY <1>2 DEF Dry
<1>5. got[n] = <<>>
  <2>1. ~Told(n, c)
    BY <1>4 DEF Told, Pieces
  <2> QED
    BY <1>1, <2>1 DEF Exchange, Waiting, Unheard
<1>6. \A d \in Conns : lost'[d] = lost[d] \/ (lost[d] # "no" /\ d \in Opened)
  <2>1. CASE recvFails(n)
    <3>1. lost[c] = "rst" /\ lost' = [lost EXCEPT ![c] = "cut"] /\ c \in Opened
      BY <1>1, <2>1 DEF recvFails, Open
    <3> QED
      BY <3>1 DEF TypeInv, NetTypes
  <2>2. CASE lost' = lost
    BY <2>2
  <2> QED
    BY <2>1, <2>2 DEF EndOfFile, Timeout
<1> QED
  BY <1>2, <1>3, <1>4, <1>5, <1>6 DEF Quiet, NameInHand

LEMMA ReceiveOrder ==
    ASSUME TypeInv, Orderly, NEW n \in Calls, Receive(n), ~spoilt'
    PROVE  Orderly'
<1> PICK c : c = held[n]
  OBVIOUS
<1>1. /\ pc[n] = "recv" /\ Collect /\ CallTypes
      /\ UNCHANGED <<serviceVars, begun, route>>
  BY DEF Receive, TypeInv
<1>2. /\ c = connector /\ c \in Conns /\ c # None /\ Open(c) /\ gone[c] = "no"
      /\ \A d \in Conns : d # c => Quiet(d)
  BY <1>1, HoldsConnector
<1>3. ASSUME NEW pieces, Keep(n, pieces) PROVE Collects(n, pieces)
  BY <1>3 DEF Keep, Collects, TypeInv
<1>4. ASSUME NEW k \in 1..Len(down[c]), Chunk(n, k), UNCHANGED <<connector, spoilt>>,
             EndsAnswer(Heard(n, k)),
             Returned(n, Heard(n, k)), Hold(n, None), Keep(n, <<>>)
      PROVE  Orderly'
  <2>1. UNCHANGED <<dialled, up, lost>> /\ \A d \in Conns : d # c => down'[d] = down[d]
    BY <1>4 DEF Chunk, TypeInv, NetTypes
  <2>2. down'[c] = <<>> /\ up[c] = <<>> /\ handling.conn # c
    BY <1>1, <1>4, ChunkIsOwn
  <2>3. \A d \in Conns : Quiet(d)'
    BY <1>1, <1>2, <2>1, <2>2 DEF Quiet, NameInHand, serviceVars, Name
  <2> QED
    BY <1>1, <1>3, <1>4, <2>1, <2>3, EndedKeepsOrder
<1>5. ASSUME NEW k \in 1..Len(down[c]), Chunk(n, k), UNCHANGED <<connector, spoilt>>,
             ~EndsAnswer(Heard(n, k)),
             Keep(n, Heard(n, k)), UNCHANGED <<result, pc, purpose, held>>
      PROVE  Orderly'
  <2>1. UNCHANGED <<dialled, up, lost>> /\ \A d \in Conns : d # c => down'[d] = down[d]
    BY <1>5 DEF Chunk, TypeInv, NetTypes
  <2>2. gone' = gone
    <3>1. Hold(n, c)
      BY <1>1, <1>5, StaysHeld
    <3>2. \A d \in Conns : gone'[d] = gone[d]
      BY <1>1, <1>2, <1>5, <3>1, Collected DEF Orderly, Links
    <3> QED
      BY <1>1, <3>2 DEF Collect, Closes, TypeInv, NetTypes
  <2>3. PICK ok \in BOOLEAN :
          /\ ok /\ Tag(n) # None => Tag(n) \in performed
          /\ up[c] = <<>> /\ handling.conn # c
          /\ Heard(n, k) = <<Pieces(Tag(n), ok)[1]>>
          /\ down'[c] = <<Pieces(Tag(n), ok)[2]>>
    BY <1>1, <1>5, ChunkIsOwn
  <2>4. Tag(n)' = Tag(n)
    BY <1>1, <1>5 DEF Tag
  <2>5. Collects(n, Heard(n, k))
    BY <1>3, <1>5
  <2>6. got'[n] = Heard(n, k)
    BY <2>5 DEF Collects
  <2>7. Exchange(n, c)'
    <3>1. up'[c] = <<>> /\ handling'.conn # c /\ performed' = performed
      BY <1>1, <2>1, <2>3 DEF serviceVars
    <3> QED
      BY <2>3, <2>4, <2>6, <3>1 DEF Exchange, Told
  <2>8. Served' /\ Opened' = Opened
    BY <1>1, <2>1 DEF Orderly, Served, Opened, serviceVars
  <2>9. OneByOne'
    <3>1. ASSUME NEW m \in Calls
          PROVE  /\ held'[m] \in {None, connector'}
                 /\ pc'[m] = "dial" => connector' = None
                 /\ pc'[m] # "recv" => got'[m] = <<>>
                 /\ pc'[m] = "recv" => Exchange(m, held[m])'
      <4>1. CASE m = n
        BY <1>1, <1>2, <1>5, <2>7, <4>1
      <4>2. CASE m # n
        BY <1>1, <1>5, <2>5, <4>2, Alone DEF Collects
      <4> QED
        BY <4>1, <4>2
    <3>2. /\ \A k2, m \in Calls : pc'[k2] # "idle" /\ pc'[m] # "idle" => k2 = m
          /\ connector' # None => gone'[connector'] = "no" \/ \E m \in Calls : pc'[m] = "forget"
      BY <1>5, <2>2 DEF Orderly, OneByOne
    <3> QED
      BY <3>1, <3>2 DEF OneByOne
  <2>10. Links'
    <3>1. ASSUME NEW d \in Conns
          PROVE  /\ gone'[d] \in {"no", "fin", "over"}
                 /\ d \in Opened' /\ gone'[d] = "no" => d = connector'
                 /\ d \notin Opened' => up'[d] = <<>> /\ gone'[d] = "no" /\ lost'[d] = "no"
                 /\ lost'[d] # "no" => up'[d] = <<>> /\ handling'.conn # d
      BY <1>1, <1>5, <2>1, <2>2, <2>8 DEF Orderly, Links, serviceVars
    <3>2. ASSUME NEW d \in Conns
          PROVE  Quiet(d)' \/ \E m \in Calls : pc'[m] = "recv" /\ held'[m] = d
      <4>1. CASE d = c
        BY <1>1, <1>5, <4>1
      <4>2. CASE d # c
        BY <1>1, <1>2, <2>1, <4>2 DEF Quiet, NameInHand, serviceVars, Name
      <4> QED
        BY <4>1, <4>2
    <3> QED
      BY <3>1, <3>2 DEF Links
  <2> QED
    BY <2>8, <2>9, <2>10 DEF Orderly
<1>6. ASSUME \/ EndOfFile(n) \/ recvFails(n)
             \/ Timeout(n) /\ ~Awaited(c),
             Raised(n) \/ (Returned(n, got[n]) /\ UNCHANGED connector),
             Hold(n, None), Keep(n, <<>>)
      PROVE  Orderly'
  <2>1. /\ Quiet(c) /\ UNCHANGED <<dialled, up, down>>
        /\ \A d \in Conns : lost'[d] = lost[d] \/ (lost[d] # "no" /\ d \in Opened)
    BY <1>1, <1>6, NothingHeard
  <2>2. \A d \in Conns : Quiet(d)'
    BY <1>1, <1>2, <2>1 DEF Quiet, NameInHand, serviceVars, Name
  <2> QED
    BY <1>1, <1>3, <1>6, <2>1, <2>2, EndedKeepsOrder
<1> QED
  BY <1>4, <1>5, <1>6 DEF Receive

LEMMA CloseOrder ==
    ASSUME TypeInv, Orderly, NEW n \in Calls, CloseConnector(n)
    PROVE  Orderly'
<1>1. /\ pc[n] = "close" /\ held[n] = None /\ got[n] = <<>> /\ CallTypes /\ connector' = connector
      /\ UNCHANGED <<dialled, up, down, lost, callVars, serviceVars, begun, route, spoilt>>
  BY DEF CloseConnector, Orderly, OneByOne, TypeInv, CallTypes
<1>2. \A c \in Conns : Quiet(c)' /\ down'[c] = <<>>
  BY <1>1, AllQuiet DEF Quiet, NameInHand, serviceVars, Name
<1>3. Collects(n, <<>>) /\ Hold(n, None)
  BY <1>1, StaysHeld DEF Collects, callVars
<1>4. ASSUME NEW c \in Conns
      PROVE  /\ gone[c] \in {"no", "fin", "over"}
             /\ c \in Opened /\ gone[c] = "no" => c = connector
             /\ c \notin Opened => up[c] = <<>> /\ gone[c] = "no" /\ lost[c] = "no"
             /\ lost[c] # "no" => up[c] = <<>> /\ handling.conn # c
  BY DEF Orderly, Links
<1>5. CASE connector = None /\ End(n, "error") /\ UNCHANGED gone
  <2>1. Moves(n, "idle", "none", "error", None)
    BY <1>1, <1>3, <1>5, EndMoves
  <2>2. \A c \in Conns :
          /\ gone'[c] \in {"no", "fin", "over"}
          /\ c \in Opened /\ gone'[c] = "no" => c = connector'
          /\ c \notin Opened => up'[c] = <<>> /\ gone'[c] = "no" /\ lost'[c] = "no"
          /\ lost'[c] # "no" => up'[c] = <<>> /\ handling.conn # c
    BY <1>1, <1>4, <1>5
  <2> QED
    BY <1>1, <1>2, <1>3, <1>5, <2>1, <2>2, MoveKeepsOrder DEF serviceVars
<1>6. CASE connector # None /\ Closes({connector}) /\ Go(n, "forget", "none")
  <2>1. Moves(n, "forget", "none", "pending", None)
    BY <1>1, <1>3, <1>6, GoMoves
  <2>2. \A c \in Conns :
          gone'[c] = IF Open(c) /\ c = connector THEN "fin" ELSE gone[c]
    BY <1>2, <1>6 DEF Closes, Left
  <2>3. \A c \in Conns :
          /\ gone'[c] \in {"no", "fin", "over"}
          /\ c \in Opened /\ gone'[c] = "no" => c = connector'
          /\ c \notin Opened => up'[c] = <<>> /\ gone'[c] = "no" /\ lost'[c] = "no"
          /\ lost'[c] # "no" => up'[c] = <<>> /\ handling.conn # c
    BY <1>1, <1>4, <2>2 DEF Open
  <2> QED
    BY <1>1, <1>2, <1>3, <2>1, <2>3, MoveKeepsOrder DEF serviceVars
<1> QED
  BY <1>5, <1>6 DEF CloseConnector

LEMMA ForgetOrder ==
    ASSUME TypeInv, Orderly, NEW n \in Calls, Forget(n)
    PROVE  Orderly'
<1>1. /\ pc[n] = "forget" /\ held[n] = None /\ got[n] = <<>> /\ CallTypes /\ connector' = None
      /\ UNCHANGED <<dialled, up, down, lost, callVars, serviceVars, begun, route, spoilt>>
      /\ End(n, "success") /\ Collect
  BY DEF Forget, Orderly, OneByOne, TypeInv, CallTypes
<1>2. \A c \in Conns : Quiet(c)'
  BY <1>1, AllQuiet DEF Quiet, NameInHand, serviceVars, Name
<1>3. Collects(n, <<>>) /\ Hold(n, None)
  BY <1>1, StaysHeld DEF Collects, callVars
<1>4. Moves(n, "idle", "none", "success", None)
  BY <1>1, <1>3, EndMoves
<1> QED
  BY <1>1, <1>2, <1>3, <1>4, LeavingKeepsOrder DEF serviceVars

\* A call that begins when none is under way, or is answered at once.
LEMMA BeginOrder ==
    ASSUME TypeInv, Orderly, NEW r \in Routes, Request(r) \/ AtOnce(r),
           ~spoilt'
    PROVE  Orderly'
<1> DEFINE new == begun + 1
<1>1. UNCHANGED <<connVars, connector>> /\ begun' = new /\ route' = [route EXCEPT ![new] = r]
  BY DEF Request, AtOnce, Begin
<1>2. begun \in Nat
  BY BoundsAssumption DEF TypeInv, CallTypes
<1>3. \/ UNCHANGED <<pc, purpose>>
      \/ /\ \A m \in Calls : pc[m] = "idle"
         /\ new \in Calls
         /\ \E where \in {"dial", "fetch"} :
               pc' = [pc EXCEPT ![new] = where] /\ (where = "dial" => connector = None)
  <2>1. CASE Request(r)
    <3>1. new <= MaxCalls
      BY <1>1, <2>1 DEF Request, Begin
    <3>2. new \in Calls
      BY <1>2, <3>1, BoundsAssumption DEF Calls
    <3>3. \A m \in Calls : pc[m] = "idle"
      BY <2>1 DEF Request
    <3> QED
      BY <1>1, <2>1, <3>2, <3>3 DEF Request
  <2> QED
    BY <2>1 DEF AtOnce
<1>4. \A m \in Calls : held'[m] = held[m] /\ got'[m] = got[m]
  BY <1>1 DEF connVars, callVars
<1>5. \A m \in Calls : pc'[m] = "recv" <=> pc[m] = "recv"
  BY <1>3 DEF TypeInv, CallTypes
<1>6. ASSUME NEW m \in Calls, pc[m] = "recv"
      PROVE  Tag(m)' = Tag(m) /\ Command(m)' = Command(m) /\ Asked(m)' = Asked(m)
  <2>1. purpose' = purpose
    BY <1>3, <1>6
  <2>2. m # new
    <3>1. new > begun
      BY <1>2
    <3> QED
      BY <1>6, <3>1 DEF TypeInv, CallTypes
  <2>3. route'[m] = route[m]
    BY <1>1, <2>2 DEF TypeInv, CallTypes
  <2> QED
    BY <2>1, <2>3 DEF Tag, Command, Asked
<1>7. ASSUME NEW m \in Calls, pc[m] = "recv", Exchange(m, held[m])
      PROVE  Exchange(m, held[m])'
  BY <1>1, <1>6, <1>7 DEF Exchange, Waiting, Told, Unheard, NameInHand, Name, connVars, netVars,
                          serviceVars, callVars
<1>8. Served' /\ Opened' = Opened
  BY <1>1 DEF Orderly, Served, Opened, connVars, netVars, serviceVars
<1>9. OneByOne'
  <2>1. CASE UNCHANGED <<pc, purpose>>
    BY <1>1, <1>4, <1>7, <2>1 DEF Orderly, OneByOne, connVars, netVars
  <2>2. CASE \A m \in Calls : pc[m] = "idle"
    <3>1. \A k, m \in Calls : pc'[k] # "idle" /\ pc'[m] # "idle" => k = m
      BY <1>3, <2>2 DEF TypeInv, CallTypes
    <3>2. ASSUME NEW m \in Calls
          PROVE  /\ held'[m] \in {None, connector'}
                 /\ pc'[m] = "dial" => connector' = None
                 /\ got'[m] = <<>>
                 /\ pc'[m] # "recv"
      BY <1>1, <1>3, <1>4, <1>5, <2>2 DEF Orderly, OneByOne, TypeInv, CallTypes
    <3>3. connector' # None => gone'[connector'] = "no"
      BY <1>1, <2>2 DEF Orderly, OneByOne, connVars, netVars
    <3> QED
      BY <3>1, <3>2, <3>3 DEF OneByOne
  <2> QED
    BY <1>3, <2>1, <2>2
<1>10. Links'
  <2>1. \A c \in Conns : Quiet(c) => Quiet(c)'
    BY <1>1 DEF Quiet, NameInHand, Name, connVars, netVars, serviceVars
  <2> QED
    BY <1>1, <1>4, <1>5, <1>8, <2>1 DEF Orderly, Links, connVars, netVars, serviceVars
<1> QED
  BY <1>8, <1>9, <1>10 DEF Orderly

-----------------------------------------------------------------------------
(* The service.                                                            *)

\* A step of the service.
LEMMA ServiceKeepsOrder ==
    ASSUME TypeInv, Orderly, UNCHANGED <<dialled, callVars, webVars>>,
           Served',
           \A c \in Conns :
              /\ gone'[c] \in {"no", "fin", "over"}
              /\ gone'[c] = "no" <=> gone[c] = "no"
              /\ c \notin Opened => up'[c] = <<>> /\ lost'[c] = "no"
              /\ lost'[c] # "no" => up'[c] = <<>> /\ handling'.conn # c
              /\ Quiet(c) /\ ~(\E n \in Calls : pc[n] = "recv" /\ held[n] = c) => Quiet(c)',
           \A n \in Calls : pc[n] = "recv" => Exchange(n, held[n])'
    PROVE  Orderly'
<1>1. UNCHANGED <<pc, held, got, connector>> /\ Opened' = Opened
  BY DEF callVars, webVars, Opened
<1>2. connector # None => connector \in Conns
  <2>1. /\ dialled + Cardinality(MayDial) <= begun + 1 /\ begun \in 0..MaxCalls
        /\ connector \in 0..dialled /\ dialled \in Nat
    BY DEF TypeInv, CallTypes, NetTypes
  <2>2. connector \in 0..MaxCalls + 1
    BY <2>1, MayDialIsFinite, BoundsAssumption
  <2> QED
    BY <2>2, BoundsAssumption DEF Conns, None
<1>3. OneByOne'
  BY <1>1, <1>2 DEF Orderly, OneByOne
<1>4. Links'
  <2>1. ASSUME NEW c \in Conns
        PROVE  /\ gone'[c] \in {"no", "fin", "over"}
               /\ c \in Opened' /\ gone'[c] = "no" => c = connector'
               /\ c \notin Opened' => up'[c] = <<>> /\ gone'[c] = "no" /\ lost'[c] = "no"
               /\ lost'[c] # "no" => up'[c] = <<>> /\ handling'.conn # c
    BY <1>1 DEF Orderly, Links
  <2>2. ASSUME NEW c \in Conns
        PROVE  Quiet(c)' \/ \E n \in Calls : pc'[n] = "recv" /\ held'[n] = c
    BY <1>1 DEF Orderly, Links
  <2> QED
    BY <2>1, <2>2 DEF Links
<1> QED
  BY <1>3, <1>4 DEF Orderly

\* The service answers only a call that still waits on an open connection.
LEMMA AnswersTheWaiting ==
    ASSUME TypeInv, Orderly, handling.command \in Known
    PROVE  \E n \in Calls :
              /\ pc[n] = "recv" /\ held[n] = handling.conn /\ held[n] \in Conns
              /\ handling.call = Tag(n) /\ gone[held[n]] = "no"
              /\ got[n] = <<>> /\ up[held[n]] = <<>> /\ down[held[n]] = <<>>
<1> DEFINE c == handling.conn
<1>1. handling.command # "name" /\ handling # Idle
  BY DEF Known, Idle
<1>2. c \in Opened
  BY <1>1 DEF Orderly, Served
<1>3. c \in Conns
  <2>1. /\ dialled + Cardinality(MayDial) <= begun + 1 /\ begun \in 0..MaxCalls
        /\ dialled \in Nat
    BY DEF TypeInv, CallTypes, NetTypes
  <2> QED
    BY <1>2, <2>1, MayDialIsFinite, BoundsAssumption DEF Opened, Conns
<1>4. ~Quiet(c)
  BY <1>1 DEF Quiet, NameInHand
<1>5. PICK n \in Calls : pc[n] = "recv" /\ held[n] = c
  BY <1>3, <1>4 DEF Orderly, Links
<1>6. gone[c] = "no"
  BY <1>5, HoldsConnector
<1>7. Exchange(n, c)
  BY <1>5 DEF Orderly, OneByOne
<1>8. Waiting(n, c)
  BY <1>7 DEF Exchange, Told, Unheard
<1>9. /\ got[n] = <<>> /\ down[c] = <<>> /\ up[c] = <<>>
      /\ handling = [conn |-> c, call |-> Tag(n), command |-> Command(n)]
  BY <1>1, <1>8 DEF Waiting, NameInHand
<1>10. handling.call = Tag(n)
  BY <1>9
<1> QED
  BY <1>3, <1>5, <1>6, <1>9, <1>10

LEMMA AnswerOrder ==
    ASSUME TypeInv, Orderly, Answer, UNCHANGED webVars
    PROVE  Orderly'
<1>1. PICK n \in Calls :
        /\ pc[n] = "recv" /\ held[n] = handling.conn /\ held[n] \in Conns
        /\ handling.call = Tag(n) /\ gone[held[n]] = "no"
        /\ got[n] = <<>> /\ up[held[n]] = <<>> /\ down[held[n]] = <<>>
  BY AnswersTheWaiting DEF Answer
<1> PICK c : c = handling.conn
  OBVIOUS
<1>2. PICK ok \in BOOLEAN :
        /\ performed' = performed \cup IF ok THEN {handling.call} \ {None} ELSE {}
        /\ down' = [down EXCEPT ![c] = @ \o Pieces(handling.call, ok)]
        /\ handling' = Idle
        /\ UNCHANGED <<up, gone, lost, service>>
  BY <1>1 DEF Answer
<1>3. UNCHANGED <<dialled, callVars, webVars>>
  BY DEF Answer
<1>4. handling'.conn = None /\ None \notin Conns
  BY <1>2 DEF Idle, None, Conns
<1>5. Tag(n) \in Calls \cup {None}
  BY DEF Tag
<1>6. Served'
  BY <1>1, <1>2, <1>3, <1>5 DEF Orderly, Served
<1>7. down'[c] = Pieces(Tag(n), ok)
  <2>1. down'[c] = <<>> \o Pieces(Tag(n), ok)
    BY <1>1, <1>2 DEF TypeInv, NetTypes
  <2> QED
    BY <2>1, OneOrTwo DEF Pieces
<1>8. Tag(n)' = Tag(n)
  BY <1>3 DEF Tag, webVars
<1>9. got'[n] = <<>> /\ held'[n] = c /\ up'[c] = <<>> /\ handling'.conn # c
  BY <1>1, <1>2, <1>3, <1>4 DEF callVars
<1>10. ok /\ Tag(n) # None => Tag(n) \in performed'
  BY <1>1, <1>2
<1>11. Exchange(n, c)'
  BY <1>7, <1>8, <1>9, <1>10 DEF Exchange, Told
<1>12. \A m \in Calls : pc[m] = "recv" => m = n
  BY <1>1, Alone
<1>13. \A m \in Calls : pc[m] = "recv" => Exchange(m, held[m])'
  BY <1>9, <1>11, <1>12
<1>14. ASSUME NEW d \in Conns
       PROVE  /\ gone'[d] \in {"no", "fin", "over"}
              /\ gone'[d] = "no" <=> gone[d] = "no"
              /\ d \notin Opened => up'[d] = <<>> /\ lost'[d] = "no"
              /\ lost'[d] # "no" => up'[d] = <<>> /\ handling'.conn # d
  BY <1>2, <1>4 DEF Orderly, Links
<1>15. ASSUME NEW d \in Conns, d # c PROVE Quiet(d) => Quiet(d)'
  <2>1. down'[d] = down[d]
    BY <1>2, <1>15 DEF TypeInv, NetTypes
  <2> QED
    BY <1>2, <1>4, <2>1 DEF Quiet, NameInHand, Name
<1> QED
  BY <1>1, <1>3, <1>6, <1>13, <1>14, <1>15, ServiceKeepsOrder

LEMMA SilenceOrder ==
    ASSUME TypeInv, Orderly, StaySilent \/ Restart, UNCHANGED webVars
    PROVE  Orderly'
<1>1. /\ UNCHANGED <<dialled, callVars, webVars, netVars, performed>>
      /\ \/ handling' = Idle /\ service' = service
         \/ handling' = handling /\ service' = "up"
  BY DEF StaySilent, Restart, netVars
<1>2. Idle.conn = None /\ None \notin Conns
  BY DEF Idle, None, Conns
<1>3. Served'
  BY <1>1 DEF Orderly, Served, Opened
<1>4. \A c \in Conns : handling'.conn = c => handling' = handling
  BY <1>1, <1>2
<1>5. ASSUME NEW n \in Calls, pc[n] = "recv" PROVE Exchange(n, held[n])'
  <2> PICK c : c = held[n]
    OBVIOUS
  <2>1. c \in Conns /\ Exchange(n, c)
    BY <1>5, HoldsConnector DEF Orderly, OneByOne
  <2>2. /\ Tag(n)' = Tag(n) /\ Command(n)' = Command(n) /\ Asked(n)' = Asked(n)
        /\ up'[c] = up[c] /\ down'[c] = down[c] /\ got'[n] = got[n] /\ held'[n] = c
        /\ performed' = performed
    BY <1>1 DEF Tag, Command, Asked, webVars, callVars, netVars
  <2>3. Exchange(n, c)'
    BY <1>1, <1>2, <1>4, <2>1, <2>2 DEF Exchange, Waiting, Told, Unheard, NameInHand, Name
  <2> QED
    BY <2>2, <2>3
<1>6. ASSUME NEW c \in Conns PROVE Quiet(c) => Quiet(c)'
  BY <1>1, <1>4 DEF Quiet, NameInHand, Name, netVars
<1>7. ASSUME NEW c \in Conns
      PROVE  /\ gone'[c] \in {"no", "fin", "over"}
             /\ gone'[c] = "no" <=> gone[c] = "no"
             /\ c \notin Opened => up'[c] = <<>> /\ lost'[c] = "no"
             /\ lost'[c] # "no" => up'[c] = <<>> /\ handling'.conn # c
  BY <1>1, <1>4 DEF Orderly, Links, netVars
<1> QED
  BY <1>1, <1>3, <1>5, <1>6, <1>7, ServiceKeepsOrder

LEMMA TakeOrder ==
    ASSUME TypeInv, Orderly, NEW c \in Conns, Take(c), UNCHANGED webVars
    PROVE  Orderly'
<1>1. /\ handling = Idle /\ c \in Opened /\ lost[c] = "no" /\ up[c] # <<>>
      /\ handling' = [conn |-> c, call |-> Head(up[c]).call, command |-> Head(up[c]).command]
      /\ up' = [up EXCEPT ![c] = Tail(@)]
      /\ UNCHANGED <<dialled, down, gone, lost, service, performed, callVars, webVars>>
  BY DEF Take, Serving
<1>2. /\ handling'.conn = c /\ handling'.command = Head(up[c]).command
      /\ up'[c] = Tail(up[c]) /\ \A d \in Conns : d # c => up'[d] = up[d]
  BY <1>1 DEF TypeInv, NetTypes
<1>3. \A d \in Conns : handling.conn # d
  BY <1>1 DEF Idle, None, Conns
<1>4. Served'
  BY <1>1, <1>2 DEF Orderly, Served, Opened
<1>5. ASSUME NEW d \in Conns, Quiet(d) PROVE Quiet(d)'
  <2>1. CASE d = c
    <3>1. up[c] = <<Name>>
      BY <1>1, <1>5, <2>1 DEF Quiet
    <3>2. up'[c] = <<>> /\ handling'.command = "name"
      BY <1>2, <3>1 DEF Name, CommandOf
    <3> QED
      BY <1>1, <1>5, <2>1, <3>2 DEF Quiet, NameInHand
  <2>2. CASE d # c
    BY <1>1, <1>2, <1>5, <2>2 DEF Quiet, NameInHand, Name
  <2> QED
    BY <2>1, <2>2
<1>6. ASSUME NEW n \in Calls, pc[n] = "recv" PROVE Exchange(n, held[n])'
  <2> PICK d : d = held[n]
    OBVIOUS
  <2>1. d \in Conns /\ Exchange(n, d)
    BY <1>6, HoldsConnector DEF Orderly, OneByOne
  <2>2. /\ Tag(n)' = Tag(n) /\ Command(n)' = Command(n) /\ Asked(n)' = Asked(n)
        /\ down'[d] = down[d] /\ got'[n] = got[n] /\ held'[n] = d /\ performed' = performed
    BY <1>1 DEF Tag, Command, Asked, webVars, callVars
  <2>3. CASE d # c
    <3>1. up'[d] = up[d] /\ handling'.conn # d /\ handling # [conn |-> d, call |-> Tag(n), command |-> Command(n)]
      BY <1>2, <1>3, <2>1, <2>3
    <3> QED
      BY <2>1, <2>2, <3>1 DEF Exchange, Waiting, Told, Unheard, NameInHand, Name
  <2>4. CASE d = c
    <3>1. got[n] = <<>> /\ down[c] = <<>> /\ up[c] \in {<<Asked(n)>>, <<Name, Asked(n)>>}
      BY <1>1, <2>1, <2>4 DEF Exchange, Waiting, Told, Unheard
    <3>2. CASE up[c] = <<Asked(n)>>
      <4>1. up'[c] = <<>>
        BY <1>2, <3>2
      <4>2. handling' = [conn |-> c, call |-> Tag(n), command |-> Command(n)]
        BY <1>1, <3>2 DEF Asked, CommandOf
      <4> QED
        BY <2>2, <2>4, <3>1, <4>1, <4>2 DEF Exchange, Waiting
    <3>3. CASE up[c] = <<Name, Asked(n)>>
      <4>1. up'[c] = <<Asked(n)>>
        BY <1>2, <3>3
      <4>2. handling'.command = "name"
        BY <1>2, <3>3 DEF Name, CommandOf
      <4> QED
        BY <2>2, <2>4, <3>1, <4>1, <4>2 DEF Exchange, Waiting, NameInHand
    <3> QED
      BY <3>1, <3>2, <3>3
  <2> QED
    BY <2>2, <2>3, <2>4
<1>7. ASSUME NEW d \in Conns
      PROVE  /\ gone'[d] \in {"no", "fin", "over"}
             /\ gone'[d] = "no" <=> gone[d] = "no"
             /\ d \notin Opened => up'[d] = <<>> /\ lost'[d] = "no"
             /\ lost'[d] # "no" => up'[d] = <<>> /\ handling'.conn # d
  <2>1. CASE d = c
    BY <1>1, <2>1 DEF Orderly, Links
  <2>2. CASE d # c
    BY <1>1, <1>2, <2>2 DEF Orderly, Links
  <2> QED
    BY <2>1, <2>2
<1> QED
  BY <1>1, <1>4, <1>5, <1>6, <1>7, ServiceKeepsOrder

LEMMA HangUpOrder ==
    ASSUME TypeInv, Orderly, NEW c \in Conns, HangUp(c), UNCHANGED webVars
    PROVE  Orderly'
<1>1. /\ gone[c] \in {"fin", "cut"} /\ gone' = [gone EXCEPT ![c] = "over"]
      /\ UNCHANGED <<dialled, up, down, lost, serviceVars, callVars, webVars>>
  BY DEF HangUp
<1>2. Served'
  BY <1>1 DEF Orderly, Served, Opened, serviceVars
<1>3. \A d \in Conns : Quiet(d) => Quiet(d)'
  BY <1>1 DEF Quiet, NameInHand, Name, serviceVars
<1>4. ASSUME NEW n \in Calls, pc[n] = "recv" PROVE Exchange(n, held[n])'
  <2>1. Exchange(n, held[n])
    BY <1>4 DEF Orderly, OneByOne
  <2>2. Tag(n)' = Tag(n) /\ Command(n)' = Command(n) /\ Asked(n)' = Asked(n)
    BY <1>1 DEF Tag, Command, Asked, webVars
  <2> QED
    BY <1>1, <2>1, <2>2 DEF Exchange, Waiting, Told, Unheard, NameInHand, Name, serviceVars, callVars
<1>5. ASSUME NEW d \in Conns
      PROVE  /\ gone'[d] \in {"no", "fin", "over"}
             /\ gone'[d] = "no" <=> gone[d] = "no"
             /\ d \notin Opened => up'[d] = <<>> /\ lost'[d] = "no"
             /\ lost'[d] # "no" => up'[d] = <<>> /\ handling'.conn # d
  <2>1. gone'[d] = IF d = c THEN "over" ELSE gone[d]
    BY <1>1 DEF TypeInv, NetTypes
  <2> QED
    BY <1>1, <2>1 DEF Orderly, Links, serviceVars
<1> QED
  BY <1>1, <1>2, <1>3, <1>4, <1>5, ServiceKeepsOrder

LEMMA ShutdownOrder ==
    ASSUME TypeInv, Orderly, Shutdown, UNCHANGED webVars
    PROVE  Orderly'
<1>1. /\ service' = "down" /\ handling' = Idle
      /\ lost' = [c \in Conns |->
                    IF c \in Opened /\ lost[c] = "no"
                    THEN IF up[c] = <<>> THEN "fin" ELSE "rst"
                    ELSE lost[c]]
      /\ up' = [c \in Conns |-> <<>>]
      /\ UNCHANGED <<dialled, down, gone, performed, callVars, webVars>>
  BY DEF Shutdown, Fall
<1>2. \A c \in Conns : up'[c] = <<>> /\ handling'.conn # c
  BY <1>1 DEF Idle, None, Conns
<1>3. Served'
  BY <1>1 DEF Orderly, Served
<1>4. \A c \in Conns : Quiet(c) => Quiet(c)'
  BY <1>1, <1>2 DEF Quiet, NameInHand
<1>5. ASSUME NEW n \in Calls, pc[n] = "recv" PROVE Exchange(n, held[n])'
  <2> PICK c : c = held[n]
    OBVIOUS
  <2>1. c \in Conns /\ Exchange(n, c)
    BY <1>5, HoldsConnector DEF Orderly, OneByOne
  <2>2. /\ Tag(n)' = Tag(n) /\ down'[c] = down[c] /\ got'[n] = got[n] /\ held'[n] = c
        /\ performed' = performed
    BY <1>1 DEF Tag, webVars, callVars
  <2>3. Exchange(n, c)'
    BY <1>2, <2>1, <2>2 DEF Exchange, Waiting, Told, Unheard
  <2> QED
    BY <2>2, <2>3
<1>6. ASSUME NEW c \in Conns
      PROVE  /\ gone'[c] \in {"no", "fin", "over"}
             /\ gone'[c] = "no" <=> gone[c] = "no"
             /\ c \notin Opened => up'[c] = <<>> /\ lost'[c] = "no"
             /\ lost'[c] # "no" => up'[c] = <<>> /\ handling'.conn # c
  BY <1>1, <1>2 DEF Orderly, Links
<1> QED
  BY <1>1, <1>3, <1>4, <1>5, <1>6, ServiceKeepsOrder

\* No client that waits for its answers resets a connection.
LEMMA NoResetIsRead ==
    ASSUME Orderly, NEW c \in Conns
    PROVE  ~ReadFails(c)
BY DEF Orderly, Links, ReadFails

LEMMA WebServiceOrder ==
    ASSUME TypeInv, Orderly, WebService
    PROVE  Orderly'
<1>1. UNCHANGED webVars
  BY DEF WebService
<1>2. ASSUME NEW c \in Conns, Take(c) \/ HangUp(c) \/ ReadFails(c) PROVE Orderly'
  BY <1>1, <1>2, TakeOrder, HangUpOrder, NoResetIsRead
<1> QED
  BY <1>1, <1>2, AnswerOrder, SilenceOrder, ShutdownOrder DEF WebService, ServiceStep

-----------------------------------------------------------------------------
(* What follows.                                                           *)

LEMMA SpoiltStays ==
    ASSUME TypeInv, [Next]_vars
    PROVE  spoilt => spoilt'
<1>1. \A n \in Calls : Continue(n) => (spoilt => spoilt')
  BY DEF Continue, Dial, Fetch, Send, Receive, CloseConnector, Forget
<1> QED
  BY <1>1 DEF Next, Thread, Request, AtOnce, WebService, vars, webVars

LEMMA OrderStep ==
    ASSUME TypeInv, OrderInv, [Next]_vars
    PROVE  OrderInv'
<1> SUFFICES ASSUME ~spoilt' PROVE Orderly'
  BY DEF OrderInv
<1>1. Orderly
  BY SpoiltStays DEF OrderInv
<1>2. CASE UNCHANGED vars
  <2>1. Served' /\ OneByOne'
    BY <1>1, <1>2 DEF Orderly, Served, OneByOne, Exchange, Waiting, Told, Unheard, NameInHand, Name,
       Opened, Asked, Tag, Command, vars, connVars, netVars, serviceVars, callVars, webVars
  <2>2. Links'
    BY <1>1, <1>2 DEF Orderly, Links, Quiet, NameInHand, Name, Opened,
       vars, connVars, netVars, serviceVars, callVars, webVars
  <2> QED
    BY <2>1, <2>2 DEF Orderly
<1>3. ASSUME NEW n \in Calls, Continue(n) PROVE Orderly'
  BY <1>1, <1>3, DialOrder, FetchOrder, SendOrder, ReceiveOrder, CloseOrder, ForgetOrder
     DEF Continue
<1> QED
  BY <1>1, <1>2, <1>3, BeginOrder, WebServiceOrder DEF Next, Thread

LEMMA InitOrder == Init => OrderInv
<1> SUFFICES ASSUME Init PROVE Orderly
  BY DEF OrderInv
<1>1. Served
  BY DEF Init, ConnInit, Served
<1>2. OneByOne
  <2>1. connector \in {0, 1} /\ 1 \in Conns
    BY BoundsAssumption DEF Init, ConnInit, Conns
  <2>2. connector # None => gone[connector] = "no"
    BY <2>1 DEF Init, ConnInit, None
  <2>3. \A n \in Calls : pc[n] = "idle" /\ held[n] = None /\ got[n] = <<>>
    BY DEF Init, ConnInit
  <2> QED
    BY <2>2, <2>3 DEF OneByOne
<1>3. Links
  BY DEF Init, ConnInit, Links, Quiet, NameInHand, Opened, Conns, None, Idle
<1> QED
  BY <1>1, <1>2, <1>3 DEF Orderly

LEMMA OrderHolds == Spec => []OrderInv
<1>1. TypeInv /\ OrderInv /\ [Next]_vars => OrderInv'
  BY OrderStep
<1> QED
  BY <1>1, InitOrder, TypesHold, PTL DEF Spec

(***************************************************************************)
(* A client that waits for its answers does not bring the service down: as *)
(* long as calls do not overlap and no answer is late, no disconnecting    *)
(* and no reconnecting makes the service read a reset connection or write  *)
(* to a closed one (network_serializer.cpp:26, :53), for any number of     *)
(* calls and of shutdowns.                                                 *)
(***************************************************************************)
THEOREM ServiceOutlivesOrder == Spec => []ServiceSurvives
<1>1. OrderInv => ServiceSurvives
  BY DEF OrderInv, Orderly, Served, ServiceSurvives
<1> QED
  BY <1>1, OrderHolds, PTL

-----------------------------------------------------------------------------
(* The promise to the browser.                                             *)

\* A verdict on a checked call is a success only of what was carried out.
Earned(n, verdict) ==
    /\ verdict \in {"pending", "success", "error"}
    /\ verdict = "success" /\ route[n].checked => n \in performed

Judged(n) == \E verdict : result' = [result EXCEPT ![n] = verdict] /\ Earned(n, verdict)

LEMMA UncheckedIsEarned ==
    ASSUME NEW n, route[n] \in {connect_to_server, disconnect_from_server}
    PROVE  Earned(n, "success")
BY DEF Earned, connect_to_server, disconnect_from_server

\* The verdict of a method that has ended.
LEMMA EndedIsEarned ==
    ASSUME TypeInv, UNCHANGED <<dialled, begun, route>>,
           NEW n \in Calls, pc[n] \in {"fetch", "send", "recv"}, Hold(n, None),
           \/ Raised(n)
           \/ \E pieces :
                 /\ Returned(n, pieces)
                 /\ purpose[n] = "main" /\ route[n].checked /\ StatusOk(pieces) => n \in performed
    PROVE  Judged(n)
<1>1. CallTypes /\ dialled' \in Nat /\ UNCHANGED <<begun, route>>
  BY DEF TypeInv, NetTypes
<1>2. Earned(n, "pending") /\ Earned(n, "error")
  BY DEF Earned
<1>3. CASE Raised(n)
  BY <1>1, <1>2, <1>3, RaisedMoves, UncheckedIsEarned DEF Moves, Judged
<1>4. ASSUME NEW pieces, Returned(n, pieces),
             purpose[n] = "main" /\ route[n].checked /\ StatusOk(pieces) => n \in performed
      PROVE  Judged(n)
  <2>1. CASE /\ result' = [result EXCEPT ![n] = "success"]
             /\ purpose[n] = "main" /\ (route[n].checked => StatusOk(pieces))
    <3>1. Earned(n, "success")
      BY <1>4, <2>1 DEF Earned
    <3> QED
      BY <2>1, <3>1 DEF Judged
  <2> QED
    BY <1>1, <1>2, <1>4, <2>1, ReturnedMoves, UncheckedIsEarned DEF Moves, Judged
<1> QED
  BY <1>3, <1>4

LEMMA CallsEarn ==
    ASSUME TypeInv, Orderly, NEW n \in Calls, Continue(n), ~spoilt'
    PROVE  /\ UNCHANGED <<route, performed>>
           /\ Judged(n)
<1>1. UNCHANGED <<route, performed, begun>>
  BY DEF Continue, Dial, Fetch, Send, Receive, CloseConnector, Forget, serviceVars
<1>2. CallTypes /\ dialled \in Nat
  BY DEF TypeInv, NetTypes
<1>3. Earned(n, "pending") /\ Earned(n, "error")
  BY DEF Earned
<1>4. ASSUME pc[n] # "idle", UNCHANGED result
      PROVE  result' = [result EXCEPT ![n] = "pending"]
  BY <1>2, <1>4 DEF CallTypes
<1>5. ASSUME Dial(n)
      PROVE  Judged(n)
  <2>1. CASE End(n, "error")
    BY <1>3, <2>1 DEF End, Judged
  <2>2. CASE Go(n, "fetch", "greet")
    BY <1>3, <1>4, <1>5, <2>2 DEF Go, Dial, Judged
  <2>3. CASE Ensured(n)
    <3>1. CASE route[n] = connect_to_server
      BY <2>3, <3>1, UncheckedIsEarned DEF Ensured, End, Judged
    <3>2. CASE route[n] # connect_to_server
      BY <1>3, <1>4, <1>5, <2>3, <3>2 DEF Ensured, Go, Dial, Judged
    <3> QED
      BY <3>1, <3>2
  <2> QED
    BY <1>5, <2>1, <2>2, <2>3 DEF Dial
<1>6. ASSUME Fetch(n)
      PROVE  Judged(n)
  <2>1. pc[n] = "fetch" /\ UNCHANGED dialled
    BY <1>6 DEF Fetch
  <2>2. CASE Raised(n) /\ UNCHANGED held
    <3>1. held[n] = None
      BY <1>2, <2>1 DEF CallTypes
    <3>2. Hold(n, None)
      BY <1>2, <2>2, <3>1, StaysHeld
    <3> QED
      BY <1>1, <2>1, <2>2, <3>2, EndedIsEarned
  <2>3. CASE Go(n, "send", purpose[n])
    BY <1>3, <1>4, <2>1, <2>3 DEF Go, Judged
  <2> QED
    BY <1>6, <2>2, <2>3 DEF Fetch
<1>7. ASSUME Send(n)
      PROVE  Judged(n)
  <2>1. pc[n] = "send" /\ UNCHANGED dialled
    BY <1>7 DEF Send, sends, sendFails
  <2>2. CASE Go(n, "recv", purpose[n])
    BY <1>3, <1>4, <2>1, <2>2 DEF Go, Judged
  <2>3. CASE Raised(n) /\ Hold(n, None)
    BY <1>1, <2>1, <2>3, EndedIsEarned
  <2> QED
    BY <1>7, <2>2, <2>3 DEF Send
<1>8. ASSUME Receive(n)
      PROVE  Judged(n)
  <2>1. pc[n] = "recv" /\ UNCHANGED dialled
    BY <1>8 DEF Receive, Chunk, EndOfFile, recvFails, Timeout
  <2>2. ASSUME NEW k \in 1..Len(down[held[n]]), Chunk(n, k), EndsAnswer(Heard(n, k)),
               Returned(n, Heard(n, k)), Hold(n, None)
        PROVE  Judged(n)
    <3>1. PICK ok \in BOOLEAN :
            /\ ok /\ Tag(n) # None => Tag(n) \in performed
            /\ Heard(n, k) = Pieces(Tag(n), ok)
      BY <2>1, <2>2, ChunkIsOwn
    <3>2. StatusOk(Heard(n, k)) => ok
      BY <3>1 DEF StatusOk, Pieces
    <3>3. purpose[n] = "main" /\ route[n].checked => Tag(n) = n /\ n # None
      BY DEF Tag, Calls, None
    <3> QED
      BY <1>1, <2>1, <2>2, <3>1, <3>2, <3>3, EndedIsEarned
  <2>3. CASE UNCHANGED <<result, pc, purpose, held>>
    BY <1>3, <1>4, <2>1, <2>3 DEF Judged
  <2>4. ASSUME EndOfFile(n) \/ recvFails(n) \/ (Timeout(n) /\ ~Awaited(held[n])),
               Raised(n) \/ Returned(n, got[n]), Hold(n, None)
        PROVE  Judged(n)
    <3>1. got[n] = <<>>
      BY <2>1, <2>4, NothingHeard
    <3>2. ~StatusOk(got[n])
      BY <3>1 DEF StatusOk
    <3>3. CASE Raised(n)
      BY <1>1, <2>1, <2>4, <3>3, EndedIsEarned
    <3>4. CASE Returned(n, got[n])
      BY <1>1, <2>1, <2>4, <3>2, <3>4, EndedIsEarned
    <3> QED
      BY <2>4, <3>3, <3>4
  <2> QED
    BY <1>8, <2>2, <2>3, <2>4 DEF Receive
<1>9. ASSUME CloseConnector(n)
      PROVE  Judged(n)
  BY <1>3, <1>4, <1>9 DEF CloseConnector, End, Go, Judged
<1>10. ASSUME Forget(n)
       PROVE  Judged(n)
  <2>1. route[n] = disconnect_from_server
    BY <1>2, <1>10 DEF Forget, CallTypes
  <2>2. Earned(n, "success")
    BY <2>1, UncheckedIsEarned
  <2> QED
    BY <1>10, <2>2 DEF Forget, End, Judged
<1> QED
  BY <1>1, <1>5, <1>6, <1>7, <1>8, <1>9, <1>10 DEF Continue

\* A call that begins is begun, or refused.
LEMMA BeginningKeepsPromise ==
    ASSUME TypeInv, NEW r \in Routes, Request(r) \/ AtOnce(r), ~spoilt'
    PROVE  [Promise!Next]_<<CheckedCalls, performed, spoilt>>
<1> DEFINE new == begun + 1
<1>1. /\ begun' = new /\ route' = [route EXCEPT ![new] = r] /\ performed' = performed
      /\ ~spoilt
      /\ new \in Calls /\ begun \in Nat
  <2>1. begun \in Nat
    BY BoundsAssumption DEF TypeInv, CallTypes
  <2>2. begun' = new /\ new <= MaxCalls
    BY DEF Request, AtOnce, Begin
  <2> QED
    BY <2>1, <2>2, BoundsAssumption
       DEF Request, AtOnce, Begin, connVars, serviceVars, Calls, TypeInv
<1>2. result[new] = "none"
  <2>1. new > begun
    BY <1>1
  <2> QED
    BY <1>1, <2>1 DEF TypeInv, CallTypes
<1>3. CheckedCalls[new] = "none"
  BY <1>1, <1>2 DEF CheckedCalls
<1>4. ASSUME NEW verdict, result' = [result EXCEPT ![new] = verdict]
      PROVE  CheckedCalls' =
               [CheckedCalls EXCEPT ![new] = IF r.checked THEN verdict ELSE "none"]
  <2>1. \A m \in Calls :
          /\ route'[m] = IF m = new THEN r ELSE route[m]
          /\ result'[m] = IF m = new THEN verdict ELSE result[m]
    BY <1>1, <1>4 DEF TypeInv, CallTypes
  <2> QED
    BY <1>1, <2>1 DEF CheckedCalls
<1>5. \E verdict \in {"pending", "error", "success"} :
         /\ result' = [result EXCEPT ![new] = verdict]
         /\ verdict = "success" => ~r.checked
  BY <1>1 DEF Request, AtOnce, Begin, disconnect_from_server
<1>6. CASE ~r.checked
  <2>1. CheckedCalls' = CheckedCalls
    BY <1>3, <1>4, <1>5, <1>6 DEF CheckedCalls
  <2>2. spoilt' = spoilt
    BY <1>1 DEF TypeInv, Request, AtOnce
  <2> QED
    BY <1>1, <2>1, <2>2
<1>7. CASE r.checked
  <2>1. spoilt' = spoilt
    BY <1>1 DEF TypeInv, Request, AtOnce
  <2>2. \/ CheckedCalls' = [CheckedCalls EXCEPT ![new] = "pending"]
        \/ CheckedCalls' = [CheckedCalls EXCEPT ![new] = "error"]
    BY <1>4, <1>5, <1>7
  <2>3. Promise!Begin(new) \/ Promise!Fail(new)
    BY <1>1, <1>3, <2>1, <2>2 DEF Promise!Begin, Promise!Fail
  <2> QED
    BY <1>1, <2>3 DEF Promise!Next, Promise!Kept
<1> QED
  BY <1>6, <1>7

LEMMA CallKeepsPromise ==
    ASSUME TypeInv, Orderly, NEW n \in Calls, Continue(n), ~spoilt, ~spoilt'
    PROVE  [Promise!Next]_<<CheckedCalls, performed, spoilt>>
<1>1. /\ UNCHANGED <<route, performed>> /\ CallTypes
      /\ spoilt \in BOOLEAN /\ spoilt' \in BOOLEAN
  BY CallsEarn, TypeStep DEF TypeInv, Next, Thread
<1>2. PICK verdict : result' = [result EXCEPT ![n] = verdict] /\ Earned(n, verdict)
  BY CallsEarn DEF Judged
<1>3. result[n] = "pending"
  BY <1>1 DEF Continue, Dial, Fetch, Send, Receive, CloseConnector, Forget, CallTypes
<1>4. \A m \in Calls : result'[m] = IF m = n THEN verdict ELSE result[m]
  BY <1>1, <1>2 DEF CallTypes
<1>5. spoilt' = spoilt
  BY <1>1
<1>6. CASE ~route[n].checked \/ verdict = "pending"
  <2>1. CheckedCalls' = CheckedCalls
    BY <1>1, <1>3, <1>4, <1>6 DEF CheckedCalls
  <2> QED
    BY <1>1, <1>5, <2>1
<1>7. CASE route[n].checked /\ verdict \in {"success", "error"}
  <2>1. CheckedCalls[n] = "pending" /\ CheckedCalls' = [CheckedCalls EXCEPT ![n] = verdict]
    BY <1>1, <1>3, <1>4, <1>7 DEF CheckedCalls
  <2>2. verdict = "success" => n \in performed
    BY <1>2, <1>7 DEF Earned
  <2>3. Promise!Succeed(n) \/ Promise!Fail(n)
    BY <1>1, <1>5, <1>7, <2>1, <2>2 DEF Promise!Succeed, Promise!Fail
  <2> QED
    BY <2>3 DEF Promise!Next, Promise!Kept
<1> QED
  BY <1>2, <1>6, <1>7 DEF Earned

\* What the service does for a call it does while the call waits.
LEMMA ServiceKeepsPromise ==
    ASSUME TypeInv, Orderly, WebService, ~spoilt
    PROVE  [Promise!Next]_<<CheckedCalls, performed, spoilt>>
<1>1. UNCHANGED webVars
  BY DEF WebService
<1>2. CheckedCalls' = CheckedCalls /\ spoilt' = spoilt
  BY <1>1 DEF CheckedCalls, webVars
<1>3. CASE Answer
  <2>1. PICK n \in Calls : pc[n] = "recv" /\ handling.call = Tag(n)
    BY <1>3, AnswersTheWaiting DEF Answer
  <2>2. performed' \in {performed, performed \cup ({Tag(n)} \ {None})}
    BY <1>3, <2>1 DEF Answer
  <2>3. CASE performed' = performed
    BY <1>2, <2>3
  <2>4. CASE performed' # performed
    <3>1. Tag(n) # None /\ performed' = performed \cup {Tag(n)}
      BY <2>2, <2>4
    <3>2. Tag(n) = n /\ route[n].checked
      BY <3>1 DEF Tag
    <3>3. result[n] = "pending"
      BY <2>1 DEF TypeInv, CallTypes
    <3>4. CheckedCalls[n] = "pending"
      BY <3>2, <3>3 DEF CheckedCalls
    <3>5. Promise!Perform(n)
      BY <1>2, <3>1, <3>2, <3>4 DEF Promise!Perform
    <3> QED
      BY <3>5 DEF Promise!Next, Promise!Kept
  <2> QED
    BY <2>3, <2>4
<1>4. CASE ~Answer
  <2>1. performed' = performed
    BY <1>4 DEF WebService, ServiceStep, StaySilent, Restart, Take, HangUp, ReadFails, Shutdown,
                serviceVars
  <2> QED
    BY <1>2, <2>1
<1> QED
  BY <1>3, <1>4

LEMMA StepKeepsPromise ==
    ASSUME TypeInv, OrderInv, [Next]_vars
    PROVE  [Promise!Next]_<<CheckedCalls, performed, spoilt>>
<1>1. CASE spoilt'
  BY <1>1 DEF Promise!Next
<1>2. CASE ~spoilt'
  <2>1. ~spoilt /\ Orderly
    BY <1>2, SpoiltStays DEF OrderInv
  <2>2. CASE UNCHANGED vars
    BY <2>2 DEF CheckedCalls, vars, connVars, serviceVars, webVars
  <2> QED
    BY <1>2, <2>1, <2>2, BeginningKeepsPromise, CallKeepsPromise, ServiceKeepsPromise
       DEF Next, Thread
<1> QED
  BY <1>1, <1>2

LEMMA InitKeepsPromise == Init => Promise!Init
<1> SUFFICES ASSUME Init PROVE Promise!Init
  OBVIOUS
<1>1. CheckedCalls = [n \in Calls |-> "none"]
  BY DEF Init, CheckedCalls
<1> QED
  BY <1>1 DEF Init, ConnInit, Promise!Init

(***************************************************************************)
(* The interface keeps its promise, for any number of calls and of         *)
(* shutdowns: while calls do not overlap and no answer is late, a movement *)
(* or a version is reported only when the service has carried out what     *)
(* this call asked for, and nothing is carried out for a call that is over *)
(* (main.py:ensure_connection, serverconnector.py:send_command).           *)
(***************************************************************************)
THEOREM InterfaceKeepsPromise == Spec => KeepsPromise
<1>1. TypeInv /\ OrderInv /\ [Next]_vars => [Promise!Next]_<<CheckedCalls, performed, spoilt>>
  BY StepKeepsPromise
<1> QED
  BY <1>1, InitKeepsPromise, TypesHold, OrderHolds, PTL DEF Spec, KeepsPromise, Promise!Spec

=============================================================================

--------------------------- MODULE ServerConnector ---------------------------
(***************************************************************************)
(* The client's end of a connection to the service                         *)
(* (interface/serverconnector.py) and, as far as a client can tell, the    *)
(* service: one thread that takes the commands of all connections one by   *)
(* one and answers each, or not.  Its own modules are Server and UserCore. *)
(*                                                                         *)
(* An answer travels as two pieces, since recv may cut it and two threads  *)
(* may read from one socket.  Connections are numbered as they are opened. *)
(*                                                                         *)
(* Each end sees its own view of the other.  After an orderly close it     *)
(* reads end of file (`fin'); having written to a closed socket it cannot  *)
(* write again (`cut'); if unread data was thrown away by the close, its   *)
(* next call fails (`rst'), and then the connection is cut.                *)
(***************************************************************************)
EXTENDS Integers, Sequences, FiniteSets

CONSTANTS
    MaxCalls,    \* calls of the web interface (a bound of the model)
    MaxCrashes   \* how often the service is stopped by hand (a bound)

VARIABLES
    dialled,     \* how many connections were opened
    up,          \* connection -> commands the service has not read
    down,        \* connection -> pieces of answers the client has not read
    gone,        \* connection -> the client's end, as the service sees it
    lost,        \* connection -> the service's end, as the client sees it
    service,     \* "up", "down", or "killed" by what a client did
    handling,    \* the command being handled, with its connection
    performed,   \* calls whose command the service has carried out
    crashes,
    held,        \* call -> connection whose method it runs
    got          \* call -> response_data

netVars     == <<dialled, up, down, gone, lost>>
serviceVars == <<service, handling, performed, crashes>>
callVars  == <<held, got>>
connVars    == <<netVars, serviceVars, callVars>>

\* Each call runs on a thread of its own and opens at most one connection;
\* one may be left from before.
Calls == 1..MaxCalls
Conns == 1..MaxCalls + 1
None == 0

Opened == 1..dialled
Open(c) == c \in Opened /\ gone[c] = "no"

Idle == [conn |-> None, call |-> None, command |-> "none"]

ConnInit ==
    /\ dialled \in {0, 1}
    /\ up = [c \in Conns |-> <<>>]
    /\ down = [c \in Conns |-> <<>>]
    /\ gone = [c \in Conns |-> "no"]
    /\ lost = [c \in Conns |-> "no"]
    /\ service = "up"
    /\ handling = Idle
    /\ performed = {}
    /\ crashes = 0
    /\ held = [n \in Calls |-> None]
    /\ got = [n \in Calls |-> <<>>]

-----------------------------------------------------------------------------
(* The service.                                                            *)

\* It ends: unread data turns the close of a connection into a reset.
Fall(how) ==
    /\ service' = how
    /\ handling' = Idle
    /\ lost' = [c \in Conns |->
                  IF c \in Opened /\ lost[c] = "no"
                  THEN IF up[c] = <<>> THEN "fin" ELSE "rst"
                  ELSE lost[c]]
    /\ up' = [c \in Conns |-> <<>>]

Serving(c) == service = "up" /\ handling = Idle /\ c \in Opened /\ lost[c] = "no"

Take(c) ==
    /\ Serving(c) /\ up[c] # <<>>
    /\ handling' = [conn |-> c, call |-> Head(up[c]).call, command |-> Head(up[c]).command]
    /\ up' = [up EXCEPT ![c] = Tail(@)]
    /\ UNCHANGED <<dialled, down, gone, lost, service, performed, crashes, callVars>>

Known == {"version", "moving", "reconnect", "disconnect", "listconnect"}

Pieces(call, ok) == <<[call |-> call, ok |-> ok, last |-> FALSE],
                      [call |-> call, ok |-> ok, last |-> TRUE]>>

\* A status is written to whatever has become of the client.
Answer ==
    /\ handling.command \in Known
    /\ \E ok \in BOOLEAN : LET c == handling.conn IN
        /\ ok \/ handling.command # "listconnect"
        /\ performed' = performed \cup IF ok THEN {handling.call} \ {None} ELSE {}
        /\ \/ /\ gone[c] = "no"
              /\ down' = [down EXCEPT ![c] = @ \o Pieces(handling.call, ok)]
              /\ handling' = Idle
              /\ UNCHANGED <<up, gone, lost, service>>
           \/ /\ gone[c] \in {"fin", "rst"}
              /\ gone' = [gone EXCEPT ![c] = "cut"]
              /\ handling' = Idle
              /\ UNCHANGED <<up, down, lost, service>>
           \/ /\ gone[c] = "cut"                         \* SIGPIPE
              /\ Fall("killed")
              /\ UNCHANGED <<down, gone>>
    /\ UNCHANGED <<dialled, crashes, callVars>>

\* No answer: a name, a command the service does not know, an exception.
StaySilent ==
    /\ handling # Idle
    /\ handling' = Idle
    /\ UNCHANGED <<netVars, service, performed, crashes, callVars>>

\* The service reads the end of a connection, or an error that ends it.
HangUp(c) ==
    /\ Serving(c) /\ up[c] = <<>> /\ gone[c] \in {"fin", "cut"}
    /\ gone' = [gone EXCEPT ![c] = "over"]
    /\ UNCHANGED <<dialled, up, down, lost, serviceVars, callVars>>

ReadFails(c) ==
    /\ Serving(c) /\ up[c] = <<>> /\ gone[c] = "rst"
    /\ Fall("killed")
    /\ UNCHANGED <<dialled, down, gone, performed, crashes, callVars>>

Shutdown ==
    /\ service = "up" /\ crashes < MaxCrashes
    /\ crashes' = crashes + 1
    /\ Fall("down")
    /\ UNCHANGED <<dialled, down, gone, performed, callVars>>

Restart ==
    /\ service # "up"
    /\ service' = "up"
    /\ UNCHANGED <<netVars, handling, performed, crashes, callVars>>

ServiceStep ==
    \/ Answer \/ StaySilent \/ Restart
    \/ \E c \in Conns : Take(c) \/ HangUp(c) \/ ReadFails(c)

-----------------------------------------------------------------------------
(* ServerConnector's methods, between two calls of the socket.             *)

CommandOf(call, command) == [call |-> call, command |-> command]

\* connect and send_name: the first message of a connection is the name.
connect ==
    /\ service = "up"
    /\ dialled' = dialled + 1
    /\ up' = [up EXCEPT ![dialled + 1] = <<CommandOf(None, "name")>>]
    /\ UNCHANGED <<down, lost>>

\* Closing a socket with unread data resets the connection.
Left(c) == IF down'[c] = <<>> THEN "fin" ELSE "rst"

\* close(), and the end of a connector nothing refers to any more.
Closes(closed) ==
    gone' = [c \in Conns |-> IF Open(c) /\ c \in closed THEN Left(c) ELSE gone[c]]

\* send_command up to sendall; writing to a service that has gone works once.
sends(n, tag, command) ==
    LET c == held[n]
    IN  /\ Open(c)
        /\ \/ lost[c] = "no" /\ UNCHANGED lost
              /\ up' = [up EXCEPT ![c] = Append(@, CommandOf(tag, command))]
           \/ lost[c] = "fin" /\ lost' = [lost EXCEPT ![c] = "cut"] /\ UNCHANGED up
        /\ UNCHANGED <<dialled, down>>

sendFails(n) ==
    LET c == held[n]
    IN  /\ ~(Open(c) /\ lost[c] \in {"no", "fin"})
        /\ lost' = IF Open(c) THEN [lost EXCEPT ![c] = "cut"] ELSE lost
        /\ UNCHANGED <<dialled, up, down>>

\* One recv: some of what has come.
Heard(n, k) == got[n] \o SubSeq(down[held[n]], 1, k)

Chunk(n, k) ==
    LET c == held[n]
    IN  /\ Open(c) /\ k \in 1..Len(down[c])
        /\ down' = [down EXCEPT ![c] = SubSeq(@, k + 1, Len(@))]
        /\ UNCHANGED <<dialled, up, lost>>

EndsAnswer(pieces) == pieces[Len(pieces)].last

Dry(c) == Open(c) /\ down[c] = <<>>

EndOfFile(n) ==
    /\ Dry(held[n]) /\ lost[held[n]] \in {"fin", "cut"}
    /\ UNCHANGED <<dialled, up, down, lost>>

recvFails(n) ==
    LET c == held[n]
    IN  /\ ~Open(c) \/ (Dry(c) /\ lost[c] = "rst")
        /\ lost' = IF Open(c) THEN [lost EXCEPT ![c] = "cut"] ELSE lost
        /\ UNCHANGED <<dialled, up, down>>

\* Mutant: the socket has no timeout.
TimedOutNever(c) == FALSE

\* settimeout(5): nothing has come, or the socket was closed meanwhile.
TimedOut(c) == ~Open(c) \/ (Dry(c) /\ lost[c] = "no")

Timeout(n) ==
    /\ TimedOut(held[n])
    /\ UNCHANGED <<dialled, up, down, lost>>

\* An answer to the command may still come.
Awaited(c) == Open(c) /\ (up[c] # <<>> \/ handling.conn = c)

\* One answer in two pieces is a document; anything else is invalid JSON.
\* Whose answer it is nobody asks.
StatusOk(pieces) ==
    /\ Len(pieces) = 2
    /\ ~pieces[1].last /\ pieces[2].last
    /\ pieces[1].call = pieces[2].call
    /\ pieces[1].ok
=============================================================================

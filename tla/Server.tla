------------------------------- MODULE Server -------------------------------
(***************************************************************************)
(* The service's socket server (source/service_host/server.cpp): one       *)
(* thread polls the listening socket and the clients' sockets, reads what  *)
(* a client sent, splits it into messages, takes the first one of a socket *)
(* it has no name for as the client's introduction and hands every other   *)
(* one to the core.                                                        *)
(*                                                                         *)
(* Conns are connections: a client that reconnects is another one.  A      *)
(* message is a record; one not yet complete is not `whole'.  The bytes,   *)
(* the "\n\n" that ends a message and the buffer readFromSock fills are    *)
(* the subject of NetworkFraming.                                          *)
(***************************************************************************)
EXTENDS Integers, Sequences, FiniteSets

CONSTANTS
    Conns,
    NameOf,        \* the name a connection's client introduces itself with
    Fds,           \* the descriptors accept can return (RLIMIT_NOFILE)
    MAX_CLIENTS,   \* server.hpp:29, the size of the descriptor arrays
    MaxRequests,   \* requests a client sends (a bound of the model)
    Mute,          \* connections that never introduce themselves
    Hasty,         \* connections that may close before their introduction is out
    Blankers,      \* connections that may send a bare "\n\n"
    Resetters      \* connections whose client may drop them with unread data

ASSUME FdsAssumption == Fds \subseteq Nat
ASSUME MaxClientsAssumption == MAX_CLIENTS \in Nat \ {0}
ASSUME MaxRequestsAssumption == MaxRequests \in Nat

NoFd == -1

VARIABLES
    backlog,   \* connections the kernel has accepted and the server has not
    fdOf,      \* connection -> its descriptor in the server
    inbox,     \* connection -> messages sent and not yet read
    sent,      \* connection -> how many requests its client has sent
    state,     \* connection -> what its client has done with it
    fds_,      \* the pollfd array from slot 1 on: descriptors, nfds_ - 1 of them
    clients_name_,  \* descriptor -> name
    pc,        \* where the server's thread stands
    todo,      \* slots whose revents has POLLIN, not yet looked at
    messages,  \* what the current slot's data was split into
    serverWorkStatus_,   \* set by stop()
    introduced,  \* connections whose introduction was taken
    served       \* what core_->Process was called with, in order

clientVars == <<sent, state>>
serverVars == <<fdOf, fds_, clients_name_, pc, todo, messages>>
vars == <<backlog, inbox, clientVars, serverVars, serverWorkStatus_, introduced, served>>

Intro(whole)      == [kind |-> "intro", id |-> 0, whole |-> whole]
Request(k, whole) == [kind |-> "request", id |-> k, whole |-> whole]
Blank             == [kind |-> "blank", id |-> 0, whole |-> TRUE]

Messages ==
    {Blank} \cup {Intro(w) : w \in BOOLEAN}
        \cup {Request(k, w) : k \in 1..MaxRequests, w \in BOOLEAN}

nfds_ == Len(fds_) + 1

Init ==
    /\ backlog = <<>>
    /\ fdOf = [c \in Conns |-> NoFd]
    /\ inbox = [c \in Conns |-> <<>>]
    /\ sent = [c \in Conns |-> 0]
    /\ state = [c \in Conns |-> "new"]
    /\ fds_ = <<>>
    /\ clients_name_ = <<>>
    /\ pc = "launch"
    /\ todo = {}
    /\ messages = <<>>
    /\ serverWorkStatus_ = FALSE
    /\ introduced = {}
    /\ served = <<>>

-----------------------------------------------------------------------------
(* The clients.                                                            *)

\* Before run() listens, and once the process is gone, a connection is refused.
Connect(c) ==
    /\ state[c] = "new" /\ pc \notin {"launch", "stopped", "dead"}
    /\ state' = [state EXCEPT ![c] = "connected"]
    /\ backlog' = Append(backlog, c)
    /\ UNCHANGED <<inbox, sent, serverVars, serverWorkStatus_, introduced, served>>

Midway(c) == inbox[c] # <<>> /\ ~inbox[c][Len(inbox[c])].whole

\* A message leaves whole, or its first half does and Finish sends the rest.
Deliver(c, m) ==
    /\ ~Midway(c)
    /\ inbox' = [inbox EXCEPT ![c] = Append(@, m)]
    /\ UNCHANGED <<backlog, serverVars, serverWorkStatus_, introduced, served>>

Introduce(c) ==
    /\ state[c] = "connected" /\ c \notin Mute
    /\ state' = [state EXCEPT ![c] = "named"]
    /\ \E whole \in BOOLEAN : Deliver(c, Intro(whole))
    /\ UNCHANGED sent

Ask(c) ==
    /\ state[c] = IF c \in Mute THEN "connected" ELSE "named"
    /\ sent[c] < MaxRequests
    /\ sent' = [sent EXCEPT ![c] = @ + 1]
    /\ \E whole \in BOOLEAN : Deliver(c, Request(sent[c] + 1, whole))
    /\ UNCHANGED state

SendBlank(c) ==
    /\ c \in Blankers /\ state[c] = "named"
    /\ state' = [state EXCEPT ![c] = "blank"]
    /\ Deliver(c, Blank)
    /\ UNCHANGED sent

Finish(c) ==
    /\ Midway(c) /\ state[c] # "closed"
    /\ inbox' = [inbox EXCEPT ![c][Len(inbox[c])].whole = TRUE]
    /\ UNCHANGED <<backlog, clientVars, serverVars, serverWorkStatus_, introduced, served>>

\* An orderly close, in the middle of a message or not.
Introducing(c) ==
    \/ state[c] = "connected"
    \/ Midway(c) /\ inbox[c][Len(inbox[c])].kind = "intro"

Close(c) ==
    /\ state[c] \notin {"new", "closed", "reset"}
    /\ Introducing(c) => c \in Hasty
    /\ state' = [state EXCEPT ![c] = "closed"]
    /\ UNCHANGED <<backlog, inbox, sent, serverVars, serverWorkStatus_, introduced, served>>

Reset(c) ==
    /\ c \in Resetters /\ state[c] \notin {"new", "closed", "reset"}
    /\ state' = [state EXCEPT ![c] = "reset"]
    /\ UNCHANGED <<backlog, inbox, sent, serverVars, serverWorkStatus_, introduced, served>>

\* Another thread.
stop ==
    /\ ~serverWorkStatus_
    /\ serverWorkStatus_' = TRUE
    /\ UNCHANGED <<backlog, inbox, clientVars, serverVars, introduced, served>>

-----------------------------------------------------------------------------
(* The server's loop.                                                      *)

\* run() begins by clearing the flag: a stop() that came earlier is forgotten.
run ==
    /\ pc = "launch"
    /\ pc' = "poll"
    /\ serverWorkStatus_' = FALSE
    /\ UNCHANGED <<backlog, inbox, clientVars, fdOf, fds_, clients_name_, todo, messages,
                   introduced, served>>

\* The address is taken: the constructor's bind or run()'s listen throws, and
\* the exception leaves main().
launchServerFails ==
    /\ pc = "launch"
    /\ pc' = "dead"
    /\ serverWorkStatus_' \in {serverWorkStatus_, FALSE}
    /\ UNCHANGED <<backlog, inbox, clientVars, fdOf, fds_, clients_name_, todo, messages,
                   introduced, served>>

Listening == 0     \* the slot of the listening socket

OwnerOf(i) == CHOOSE c \in Conns : fdOf[c] = fds_[i]
Hungup(c) == state[c] \in {"closed", "reset"}

Readable(i) ==
    IF i = Listening THEN backlog # <<>>
    ELSE fds_[i] # NoFd /\ \E c \in Conns :
            fdOf[c] = fds_[i] /\ (inbox[c] # <<>> \/ Hungup(c))

\* Mutant: stop() is not looked at.
AfterPassAlways == "poll"

\* The end of an iteration: stop() is looked at here only.
AfterPass == IF serverWorkStatus_ THEN "stopped" ELSE "poll"

\* poll and the answer to POLLIN on the listening socket.  The descriptors'
\* readiness is a snapshot: what arrives later waits for the next iteration.
Poll ==
    /\ pc = "poll"
    /\ todo' = {i \in 0..Len(fds_) : Readable(i)}
    /\ pc' = IF todo' = {} THEN AfterPass ELSE "accept"
    /\ UNCHANGED <<backlog, inbox, clientVars, fdOf, fds_, clients_name_, messages,
                   serverWorkStatus_, introduced, served>>

FreeFds == {f \in Fds : \A c \in Conns : fdOf[c] # f}
LowestFree == CHOOSE f \in FreeFds : \A g \in FreeFds : f <= g

\* The next slot is written without a look at MAX_CLIENTS.
NextSlot == IF Len(fds_) < MAX_CLIENTS THEN "content" ELSE "overrun"

checkingSocketsOnNewConnect ==
    /\ pc = "accept"
    /\ todo' = todo \ {Listening}
    /\ \/ /\ Listening \notin todo
          /\ pc' = "content"
          /\ UNCHANGED <<backlog, fdOf, fds_>>
       \/ /\ Listening \in todo /\ FreeFds # {}
          /\ pc' = NextSlot
          /\ fdOf' = [fdOf EXCEPT ![Head(backlog)] = LowestFree]
          /\ fds_' = Append(fds_, LowestFree)
          /\ backlog' = Tail(backlog)
       \/ /\ Listening \in todo /\ FreeFds = {}     \* EMFILE
          /\ pc' = NextSlot
          /\ fds_' = Append(fds_, NoFd)
          /\ UNCHANGED <<backlog, fdOf>>
    /\ UNCHANGED <<inbox, clientVars, clients_name_, messages,
                   serverWorkStatus_, introduced, served>>

Current == CHOOSE i \in todo : \A j \in todo : i <= j

\* readFromSock stops at a chunk that ends a message, or at end of file: any
\* prefix of what was sent that ends in a whole message, or everything.
Received(c) ==
    {n \in 1..Len(inbox[c]) : inbox[c][n].whole \/ (n = Len(inbox[c]) /\ Hungup(c))}

\* Mutant: the first message of what was read is handled, the rest is lost.
splitFirst(data) ==
    LET kept == SelectSeq(data, LAMBDA m : m.kind # "blank")
    IN  SubSeq(kept, 1, IF kept = <<>> THEN 0 ELSE 1)

\* split drops the empty pieces.
split(data) ==
    LET pieces[i \in 0..Len(data)] ==
            IF i = 0 THEN <<>>
            ELSE IF data[i].kind = "blank" THEN pieces[i - 1]
            ELSE Append(pieces[i - 1], data[i])
    IN  pieces[Len(data)]

\* The table without the first entry whose name is the descriptor's.  The
\* lookup adds the name "" for a descriptor that has none, and the iteration
\* may or may not come past the new entry.
Without(f, table) == [g \in DOMAIN table \ {f} |-> table[g]]
With(f, name, table) ==
    [g \in DOMAIN table \cup {f} |-> IF g = f THEN name ELSE table[g]]

\* Mutants: nothing is erased; whatever entry comes first is erased; the slot
\* is cleared before its descriptor is looked up.
ErasedTooLate(fd) == {With(NoFd, "", clients_name_)}
ErasedNone(fd) == {clients_name_}
ErasedFirst(fd) ==
    IF DOMAIN clients_name_ = {} THEN {clients_name_}
    ELSE {Without(CHOOSE f \in DOMAIN clients_name_ :
                    \A g \in DOMAIN clients_name_ : f <= g, clients_name_)}

ErasedByName(fd) ==
    LET looked == IF fd \in DOMAIN clients_name_ THEN clients_name_
                                                 ELSE With(fd, "", clients_name_)
        same == {f \in DOMAIN looked : looked[f] = looked[fd]}
    IN  IF DOMAIN clients_name_ = {} THEN {clients_name_}
        ELSE {Without(f, looked) : f \in same}
                \cup IF fd \notin DOMAIN clients_name_ /\ same = {fd} THEN {looked} ELSE {}

\* Mutant: the slot keeps the descriptor it has closed.
CloseKeepsSlot(i) ==
    /\ clients_name_' \in ErasedByName(fds_[i])
    /\ fdOf' = [fdOf EXCEPT ![OwnerOf(i)] = NoFd]
    /\ UNCHANGED fds_

ifMessageEmptyCloseSocket(i) ==
    /\ clients_name_' \in ErasedByName(fds_[i])
    /\ fdOf' = [fdOf EXCEPT ![OwnerOf(i)] = NoFd]
    /\ fds_' = [fds_ EXCEPT ![i] = NoFd]

\* The slots are done with: the iteration ends.
Advance(rest) ==
    /\ todo' = rest
    /\ pc' = IF rest = {} THEN AfterPass ELSE "content"

NoContent ==
    /\ pc = "content" /\ todo = {}
    /\ Advance({})
    /\ UNCHANGED <<backlog, inbox, clientVars, fdOf, fds_, clients_name_, messages,
                   serverWorkStatus_, introduced, served>>

\* Without a received message and without end of file read() blocks, and with
\* it the whole server.
ReadSlot ==
    /\ pc = "content" /\ todo # {}
    /\ LET c == OwnerOf(Current)
       IN  /\ state[c] # "reset"
           /\ \/ \E n \in Received(c) :
                    /\ inbox' = [inbox EXCEPT ![c] = SubSeq(@, n + 1, Len(@))]
                    /\ messages' = split(SubSeq(inbox[c], 1, n))
              \/ inbox[c] = <<>> /\ Hungup(c) /\ messages' = <<>> /\ UNCHANGED inbox
    /\ IF messages' = <<>>
       THEN /\ ifMessageEmptyCloseSocket(Current)
            /\ Advance(todo \ {Current})
       ELSE /\ pc' = "message"
            /\ UNCHANGED <<todo, fdOf, fds_, clients_name_>>
    /\ UNCHANGED <<backlog, clientVars, serverWorkStatus_, introduced, served>>

\* read() returns -1: ErrorReadingFromSocket leaves run() and main().
ReadFails ==
    /\ pc = "content" /\ todo # {}
    /\ state[OwnerOf(Current)] = "reset"
    /\ pc' = "dead"
    /\ UNCHANGED <<backlog, inbox, clientVars, fdOf, fds_, clients_name_, todo, messages,
                   serverWorkStatus_, introduced, served>>

\* get_WhoAmI_Info, then processTheRequest for a descriptor that has a name.
\* The core answers or throws; the loop goes on either way.
HandleMessage ==
    /\ pc = "message"
    /\ LET fd == fds_[Current]
           c  == OwnerOf(Current)
           m  == Head(messages)
       IN  \/ /\ fd \in DOMAIN clients_name_
              /\ served' = Append(served, [conn |-> c, name |-> clients_name_[fd],
                                           kind |-> m.kind, id |-> m.id, whole |-> m.whole])
              /\ UNCHANGED <<clients_name_, introduced>>
           \/ /\ fd \notin DOMAIN clients_name_
              /\ m.kind = "intro" /\ m.whole
              /\ clients_name_' = With(fd, NameOf[c], clients_name_)
              /\ introduced' = introduced \cup {c}
              /\ UNCHANGED served
           \/ /\ fd \notin DOMAIN clients_name_
              /\ ~(m.kind = "intro" /\ m.whole)
              /\ UNCHANGED <<clients_name_, introduced, served>>
    /\ messages' = Tail(messages)
    /\ IF messages' = <<>> THEN Advance(todo \ {Current}) ELSE UNCHANGED <<todo, pc>>
    /\ UNCHANGED <<backlog, inbox, clientVars, fdOf, fds_, serverWorkStatus_>>

ServerStep ==
    \/ run \/ launchServerFails \/ Poll \/ checkingSocketsOnNewConnect \/ NoContent
    \/ ReadSlot \/ ReadFails \/ HandleMessage

ClientStep(c) ==
    \/ Connect(c) \/ Introduce(c) \/ Ask(c) \/ SendBlank(c)
    \/ Finish(c) \/ Close(c) \/ Reset(c)

\* The server is gone; so is the process.
Over == pc \in {"stopped", "dead", "overrun"} /\ UNCHANGED vars

Next == ServerStep \/ (\E c \in Conns : ClientStep(c)) \/ stop \/ Over

Safety == Init /\ [][Next]_vars

\* The thread runs on; a client that has begun a message finishes it or closes.
Spec ==
    /\ Safety
    /\ WF_vars(ServerStep)
    /\ \A c \in Conns : WF_vars(Finish(c))

-----------------------------------------------------------------------------
(* Properties.                                                             *)

TypeOK ==
    /\ backlog \in Seq(Conns)
    /\ fdOf \in [Conns -> Fds \cup {NoFd}]
    /\ inbox \in [Conns -> Seq(Messages)]
    /\ sent \in [Conns -> 0..MaxRequests]
    /\ state \in [Conns -> {"new", "connected", "named", "blank", "closed", "reset"}]
    /\ fds_ \in Seq(Fds \cup {NoFd})
    /\ DOMAIN clients_name_ \subseteq Fds
    /\ pc \in {"launch", "poll", "accept", "content", "message", "stopped", "dead", "overrun"}
    /\ todo \subseteq 0..Len(fds_)
    /\ serverWorkStatus_ \in BOOLEAN
    /\ introduced \subseteq Conns

IsOpen(c) == fdOf[c] # NoFd

(***************************************************************************)
(* Once a client has introduced itself the server knows its name until its *)
(* socket is closed, whoever else comes and goes (server.hpp:69-79): a     *)
(* request of a client that has forgotten to be known would be taken for   *)
(* an introduction and dropped without an answer.                          *)
(***************************************************************************)
IntroducedIsKnown ==
    \A c \in introduced :
        IsOpen(c) => fdOf[c] \in DOMAIN clients_name_ /\ clients_name_[fdOf[c]] = NameOf[c]

(***************************************************************************)
(* The table holds open descriptors only: the next client that is given a  *)
(* closed one's number starts without a name.                              *)
(***************************************************************************)
KnownIsOpen == \A f \in DOMAIN clients_name_ : \E c \in Conns : fdOf[c] = f

(***************************************************************************)
(* No two slots of the pollfd array watch the same descriptor, although    *)
(* closed slots are never reused and descriptor numbers are: a client's    *)
(* data is looked at once an iteration and closed once.                    *)
(***************************************************************************)
OneSlotEach ==
    \A i, j \in DOMAIN fds_ : i # j /\ fds_[i] # NoFd => fds_[i] # fds_[j]

(***************************************************************************)
(* The requests of the same client that reached the core before the k-th   *)
(* call are the ones it sent before: none skipped, none repeated.          *)
(***************************************************************************)
Before(k) ==
    {j \in 1..k - 1 : served[j].conn = served[k].conn /\ served[j].kind = "request"}
InTurn(k) == {served[j].id : j \in Before(k)} = 1..served[k].id - 1

(***************************************************************************)
(* What reaches the core: every request a client has sent after its        *)
(* introduction, one by one in the order sent, none lost between reads,    *)
(* none repeated, under the client's own name; never its introduction.     *)
(***************************************************************************)
ServedInOrder ==
    \A k \in DOMAIN served :
        served[k].kind = "request" /\ served[k].name = NameOf[served[k].conn] /\ InTurn(k)

(***************************************************************************)
(* With rude clients about, the same of every client whose introduction    *)
(* was taken, however its messages were cut, glued together or followed by *)
(* a close.                                                                *)
(***************************************************************************)
RequestsInOrder ==
    \A k \in DOMAIN served :
        served[k].kind = "request" /\ served[k].conn \in introduced => InTurn(k)

(***************************************************************************)
(* Every request of a client that introduces itself is eventually handed   *)
(* to the core, even if it closes meanwhile and however rude the other     *)
(* clients are, unless the server is stopped or a reset connection has     *)
(* ended it: with one thread and a blocking read this needs each client to *)
(* finish the messages it has begun.  The exception is a client that was   *)
(* given a descriptor which a nameless one has left in the table: its      *)
(* introduction goes to the core, and the empty name it lives under may be *)
(* erased when the next nameless client closes.                            *)
(***************************************************************************)
Ended == pc \in {"stopped", "dead"}
Reached(c, kind, k) ==
    \E j \in DOMAIN served : served[j].conn = c /\ served[j].kind = kind /\ served[j].id = k
EveryRequestServed ==
    \A c \in Conns \ Mute, k \in 1..MaxRequests :
        sent[c] >= k ~> Ended \/ Reached(c, "request", k) \/ Reached(c, "intro", 0)

(***************************************************************************)
(* stop() brings run() to its end, from wherever the loop is.  A stop()    *)
(* that comes before run() has begun is forgotten.                         *)
(***************************************************************************)
StopEnds == serverWorkStatus_ /\ pc # "launch" ~> Ended

(***************************************************************************)
(* Whatever rude clients do (leave before they introduced themselves, send *)
(* requests without a name, reset their connection): no request is handed  *)
(* to the core under the name of another connection's client.              *)
(***************************************************************************)
NeverAnothersName ==
    \A k \in DOMAIN served : served[k].name \in {NameOf[served[k].conn], ""}

-----------------------------------------------------------------------------
(* What the source's own comments say and the code does not do.            *)

(***************************************************************************)
(* server.hpp:29-32: the arrays have room for MAX_CLIENTS clients, so they *)
(* do not overflow while no more sockets than that are open.               *)
(***************************************************************************)
RoomForMaxClients ==
    pc = "overrun" =>
        Cardinality({c \in Conns : IsOpen(c)}) > MAX_CLIENTS

=============================================================================

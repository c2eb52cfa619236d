---------------------------- MODULE ServerProofs ----------------------------
(***************************************************************************)
(* What the server's slots and its table of names do for any number of     *)
(* clients, however rude, as long as no two of them share a name; and in   *)
(* which order the requests of polite ones are served.                     *)
(***************************************************************************)
EXTENDS Server, SequenceTheorems, FiniteSetTheorems, WellFoundedInduction, TLAPS

-----------------------------------------------------------------------------
(* Least elements: the descriptor accept takes and the slot looked at.     *)

\* The initial segments of S are finite sets, and one of them is the smallest.
LEMMA LeastExists ==
    ASSUME NEW S \in SUBSET Nat, S # {}
    PROVE  \E i \in S : \A j \in S : i <= j
<1> DEFINE Segments == {0..i : i \in S}
<1>1. Segments \subseteq FiniteSubsetsOf(Nat) /\ Segments # {}
  <2>1. ASSUME NEW i \in S PROVE 0..i \in FiniteSubsetsOf(Nat)
    <3>1. i \in Int /\ 0 \in Int
      OBVIOUS
    <3>2. IsFiniteSet(0..i)
      BY <3>1, FS_Interval
    <3>3. 0..i \in SUBSET Nat
      OBVIOUS
    <3> QED
      BY <3>2, <3>3 DEF FiniteSubsetsOf
  <2> QED
    BY <2>1
<1>2. PICK s \in Segments : \A t \in Segments : <<t, s>> \notin StrictSubsetOrdering(Nat)
  <2>1. IsWellFoundedOn(StrictSubsetOrdering(Nat), FiniteSubsetsOf(Nat))
    BY FS_StrictSubsetOrderingWellFounded
  <2> HIDE DEF Segments
  <2> QED
    BY <1>1, <2>1, WFMin
<1>3. PICK i \in S : s = 0..i
  OBVIOUS
<1>4. ASSUME NEW j \in S, ~(i <= j) PROVE FALSE
  <2>1. 0..j \in Segments
    OBVIOUS
  <2>2. 0..j \subseteq 0..i /\ 0..j # 0..i /\ 0..j \subseteq Nat /\ 0..i \subseteq Nat
    BY <1>4
  <2> QED
    BY <1>2, <1>3, <2>1, <2>2 DEF StrictSubsetOrdering
<1> QED
  BY <1>4

LEMMA LowestFreeIsFree ==
    ASSUME FreeFds # {}
    PROVE  LowestFree \in Fds /\ \A c \in Conns : fdOf[c] # LowestFree
<1>1. FreeFds \in SUBSET Nat
  BY FdsAssumption DEF FreeFds
<1>2. \E f \in FreeFds : \A g \in FreeFds : f <= g
  BY <1>1, LeastExists
<1>3. LowestFree \in FreeFds
  BY <1>2 DEF LowestFree
<1> QED
  BY <1>3 DEF FreeFds

LEMMA CurrentIsReady ==
    ASSUME todo \subseteq Nat, todo # {}
    PROVE  Current \in todo
<1>1. \E i \in todo : \A j \in todo : i <= j
  BY LeastExists
<1> QED
  BY <1>1 DEF Current

LEMMA NoFdIsNone == NoFd \notin Fds
BY FdsAssumption DEF NoFd

-----------------------------------------------------------------------------
(* The slots.                                                              *)

\* A descriptor belongs to one connection, and a slot watches an open one.
OwnFds ==
    \A c, d \in Conns : fdOf[c] = fdOf[d] /\ fdOf[c] # NoFd => c = d

SlotsAreOpen ==
    \A i \in DOMAIN fds_ : fds_[i] # NoFd => \E c \in Conns : fdOf[c] = fds_[i]

\* A connection waits for accept once, and has no descriptor before.
WaitOnce ==
    /\ \A k \in DOMAIN backlog :
        /\ state[backlog[k]] # "new"
        /\ fdOf[backlog[k]] = NoFd
        /\ backlog[k] \notin introduced
    /\ \A k, l \in DOMAIN backlog : backlog[k] = backlog[l] => k = l
    /\ \A c \in Conns : state[c] = "new" => fdOf[c] = NoFd /\ c \notin introduced

\* What poll found readable stays so until it is looked at.
StillReady ==
    /\ pc \in {"launch", "poll"} => todo = {}
    /\ pc \in {"content", "message"} => Listening \notin todo
    /\ pc = "message" => todo # {}
    /\ Listening \in todo => backlog # <<>>
    /\ \A i \in todo \ {Listening} : fds_[i] # NoFd

SlotsInv == TypeOK /\ OneSlotEach /\ OwnFds /\ SlotsAreOpen /\ WaitOnce /\ StillReady

LEMMA SlotsInit == Init => SlotsInv
<1> SUFFICES ASSUME Init PROVE SlotsInv
  OBVIOUS
<1>1. DOMAIN fds_ = {} /\ DOMAIN backlog = {} /\ DOMAIN clients_name_ = {}
  BY DEF Init
<1>2. TypeOK
  <2>1. 0 \in 0..MaxRequests
    BY MaxRequestsAssumption
  <2>2. fdOf \in [Conns -> Fds \cup {NoFd}]
    BY DEF Init
  <2>3. sent \in [Conns -> 0..MaxRequests] /\ inbox \in [Conns -> Seq(Messages)]
    BY <2>1 DEF Init
  <2>4. state \in [Conns -> {"new", "connected", "named", "blank", "closed", "reset"}]
    BY DEF Init
  <2>5. backlog \in Seq(Conns) /\ fds_ \in Seq(Fds \cup {NoFd})
    BY DEF Init
  <2>6. DOMAIN clients_name_ \subseteq Fds
    BY <1>1
  <2>7. todo \subseteq 0..Len(fds_) /\ serverWorkStatus_ \in BOOLEAN /\ introduced \subseteq Conns
    BY DEF Init
  <2>8. pc \in {"launch", "poll", "accept", "content", "message", "stopped", "dead", "overrun"}
    BY DEF Init
  <2> QED
    BY <2>2, <2>3, <2>4, <2>5, <2>6, <2>7, <2>8 DEF TypeOK
<1>3. OneSlotEach /\ SlotsAreOpen
  BY <1>1 DEF OneSlotEach, SlotsAreOpen
<1>4. OwnFds /\ WaitOnce /\ StillReady
  BY <1>1 DEF Init, OwnFds, WaitOnce, StillReady, Listening
<1> QED
  BY <1>2, <1>3, <1>4 DEF SlotsInv

\* The owner of the slot looked at is the one connection with its descriptor.
LEMMA CurrentOwner ==
    ASSUME SlotsInv, pc \in {"content", "message"}, todo # {}
    PROVE  /\ Current \in DOMAIN fds_ /\ Current \in todo
           /\ fds_[Current] \in Fds
           /\ OwnerOf(Current) \in Conns
           /\ fdOf[OwnerOf(Current)] = fds_[Current]
<1>1. todo \subseteq 0..Len(fds_) /\ fds_ \in Seq(Fds \cup {NoFd}) /\ Listening \notin todo
  BY DEF SlotsInv, TypeOK, StillReady
<1>2. Current \in todo
  BY <1>1, CurrentIsReady
<1>3. Current \in DOMAIN fds_ /\ fds_[Current] # NoFd
  BY <1>1, <1>2 DEF SlotsInv, StillReady, Listening
<1>4. fds_[Current] \in Fds
  BY <1>1, <1>3
<1>5. \E c \in Conns : fdOf[c] = fds_[Current]
  BY <1>3 DEF SlotsInv, SlotsAreOpen
<1> QED
  BY <1>2, <1>3, <1>4, <1>5 DEF OwnerOf

\* The parts that clients do not touch.
LEMMA ServerUntouched ==
    ASSUME SlotsInv, UNCHANGED <<serverVars, introduced>>
    PROVE  OneSlotEach' /\ OwnFds' /\ SlotsAreOpen'
BY DEF SlotsInv, serverVars, OneSlotEach, OwnFds, SlotsAreOpen

LEMMA MessageWhole ==
    ASSUME NEW m \in Messages, m # Blank, NEW b \in BOOLEAN
    PROVE  [m EXCEPT !.whole = b] \in Messages
<1>1. CASE \E w \in BOOLEAN : m = Intro(w)
  <2>1. [m EXCEPT !.whole = b] = Intro(b)
    BY <1>1 DEF Intro
  <2> QED
    BY <2>1 DEF Messages
<1>2. ASSUME NEW k \in 1..MaxRequests, NEW w \in BOOLEAN, m = Request(k, w)
      PROVE  [m EXCEPT !.whole = b] \in Messages
  <2>1. [m EXCEPT !.whole = b] = Request(k, b)
    BY <1>2 DEF Request
  <2> QED
    BY <2>1 DEF Messages
<1> QED
  BY <1>1, <1>2 DEF Messages

\* The inbox of one connection may change to another sequence of messages.
LEMMA InboxType ==
    ASSUME TypeOK, NEW c \in Conns, NEW s \in Seq(Messages),
           inbox' = [inbox EXCEPT ![c] = s]
    PROVE  inbox' \in [Conns -> Seq(Messages)]
BY DEF TypeOK

LEMMA DeliverType ==
    ASSUME TypeOK, NEW c \in Conns, NEW m \in Messages, Deliver(c, m)
    PROVE  /\ inbox' \in [Conns -> Seq(Messages)]
           /\ UNCHANGED <<backlog, serverVars, serverWorkStatus_, introduced>>
<1>1. Append(inbox[c], m) \in Seq(Messages)
  BY DEF TypeOK
<1>2. inbox' = [inbox EXCEPT ![c] = Append(inbox[c], m)]
  BY DEF Deliver
<1> QED
  BY <1>1, <1>2, InboxType DEF Deliver

\* What is left to show of a client's step.
LEMMA ClientKeeps ==
    ASSUME SlotsInv, UNCHANGED <<backlog, serverVars, serverWorkStatus_, introduced>>,
           inbox' \in [Conns -> Seq(Messages)],
           sent' \in [Conns -> 0..MaxRequests],
           state' \in [Conns -> {"new", "connected", "named", "blank", "closed", "reset"}],
           \A c \in Conns : (state'[c] = "new") <=> (state[c] = "new")
    PROVE  SlotsInv'
<1>1. TypeOK'
  BY DEF SlotsInv, TypeOK, serverVars
<1>2. OneSlotEach' /\ OwnFds' /\ SlotsAreOpen'
  BY ServerUntouched
<1>3. WaitOnce'
  <2>1. \A k \in DOMAIN backlog : backlog[k] \in Conns
    BY DEF SlotsInv, TypeOK
  <2> QED
    BY <2>1 DEF SlotsInv, WaitOnce, serverVars
<1>4. StillReady'
  BY DEF SlotsInv, StillReady, serverVars
<1> QED
  BY <1>1, <1>2, <1>3, <1>4 DEF SlotsInv

LEMMA ConnectStep ==
    ASSUME SlotsInv, NEW c \in Conns, Connect(c)
    PROVE  SlotsInv'
<1> USE DEF SlotsInv
<1>1. backlog \in Seq(Conns) /\ state \in [Conns -> {"new", "connected", "named", "blank", "closed", "reset"}]
  BY DEF TypeOK
<1>2. TypeOK'
  <2>1. backlog' \in Seq(Conns)
    BY <1>1 DEF Connect
  <2>2. state' \in [Conns -> {"new", "connected", "named", "blank", "closed", "reset"}]
    BY <1>1 DEF Connect
  <2> QED
    BY <2>1, <2>2 DEF TypeOK, Connect, serverVars
<1>3. OneSlotEach' /\ OwnFds' /\ SlotsAreOpen'
  BY ServerUntouched DEF Connect
<1>4. WaitOnce'
  <2>1. /\ \A k \in DOMAIN backlog : backlog[k] \in Conns /\ backlog[k] # c
        /\ fdOf[c] = NoFd /\ c \notin introduced
    BY <1>1 DEF WaitOnce, Connect
  <2>2. /\ DOMAIN backlog' = 1..Len(backlog) + 1
        /\ \A k \in 1..Len(backlog) : backlog'[k] = backlog[k]
        /\ backlog'[Len(backlog) + 1] = c
    BY <1>1 DEF Connect
  <2>3. /\ state'[c] = "connected" /\ fdOf' = fdOf /\ introduced' = introduced
        /\ \A d \in Conns : d # c => state'[d] = state[d]
    BY <1>1 DEF Connect, serverVars
  <2>4. DOMAIN backlog = 1..Len(backlog) /\ Len(backlog) \in Nat
    BY <1>1
  <2>5. \A k \in DOMAIN backlog' : k \in DOMAIN backlog \/ k = Len(backlog) + 1
    BY <2>2, <2>4
  <2>6. \A k \in DOMAIN backlog' :
            state'[backlog'[k]] # "new" /\ fdOf'[backlog'[k]] = NoFd /\ backlog'[k] \notin introduced'
    BY <2>1, <2>2, <2>3, <2>4, <2>5 DEF WaitOnce
  <2>7. \A k, l \in DOMAIN backlog' : backlog'[k] = backlog'[l] => k = l
    BY <2>1, <2>2, <2>4, <2>5 DEF WaitOnce
  <2>8. \A d \in Conns : state'[d] = "new" => fdOf'[d] = NoFd /\ d \notin introduced'
    BY <2>3 DEF WaitOnce
  <2> QED
    BY <2>6, <2>7, <2>8 DEF WaitOnce
<1>5. StillReady'
  <2>1. backlog' # <<>>
    BY <1>1 DEF Connect
  <2> QED
    BY <2>1 DEF StillReady, Connect, serverVars
<1> QED
  BY <1>2, <1>3, <1>4, <1>5

LEMMA ClientSlots ==
    ASSUME SlotsInv, NEW c \in Conns, ClientStep(c)
    PROVE  SlotsInv'
<1> DEFINE States == {"new", "connected", "named", "blank", "closed", "reset"}
<1>1. /\ TypeOK /\ state \in [Conns -> States]
      /\ sent \in [Conns -> 0..MaxRequests] /\ inbox \in [Conns -> Seq(Messages)]
  BY DEF SlotsInv, TypeOK
<1>2. CASE Connect(c)
  BY <1>2, ConnectStep
<1>3. CASE Introduce(c)
  <2>1. PICK whole \in BOOLEAN : Deliver(c, Intro(whole))
    BY <1>3 DEF Introduce
  <2>2. Intro(whole) \in Messages
    BY DEF Messages
  <2>3. state' \in [Conns -> States] /\ \A d \in Conns : (state'[d] = "new") <=> (state[d] = "new")
    BY <1>1, <1>3 DEF Introduce
  <2> QED
    BY <1>1, <1>3, <2>1, <2>2, <2>3, DeliverType, ClientKeeps DEF Introduce
<1>4. CASE Ask(c)
  <2>1. PICK whole \in BOOLEAN : Deliver(c, Request(sent[c] + 1, whole))
    BY <1>4 DEF Ask
  <2>2. sent[c] + 1 \in 1..MaxRequests
    BY <1>1, <1>4, MaxRequestsAssumption DEF Ask
  <2>3. Request(sent[c] + 1, whole) \in Messages
    BY <2>2 DEF Messages
  <2>4. sent' \in [Conns -> 0..MaxRequests]
    BY <1>1, <1>4, <2>2 DEF Ask
  <2> QED
    BY <1>1, <1>4, <2>1, <2>3, <2>4, DeliverType, ClientKeeps DEF Ask
<1>5. CASE SendBlank(c)
  <2>1. Blank \in Messages
    BY DEF Messages
  <2>2. state' \in [Conns -> States] /\ \A d \in Conns : (state'[d] = "new") <=> (state[d] = "new")
    BY <1>1, <1>5 DEF SendBlank
  <2> QED
    BY <1>1, <1>5, <2>1, <2>2, DeliverType, ClientKeeps DEF SendBlank
<1>6. CASE Finish(c)
  <2> DEFINE last == Len(inbox[c])
             completed == [inbox[c] EXCEPT ![last].whole = TRUE]
  <2>1. inbox[c] \in Seq(Messages) /\ inbox[c] # <<>> /\ last \in DOMAIN inbox[c] /\ ~inbox[c][last].whole
    BY <1>1, <1>6 DEF Finish, Midway
  <2>2. [inbox[c][last] EXCEPT !.whole = TRUE] \in Messages
    <3>1. inbox[c][last] \in Messages
      BY <2>1
    <3>2. inbox[c][last] # Blank
      <4>1. Blank.whole
        BY DEF Blank
      <4> HIDE DEF last
      <4> QED
        BY <2>1, <4>1, Zenon
    <3>3. \A b \in BOOLEAN : [inbox[c][last] EXCEPT !.whole = b] \in Messages
      BY <3>1, <3>2, MessageWhole
    <3> HIDE DEF last
    <3> QED
      BY <3>3, Zenon
  <2>3. completed = [inbox[c] EXCEPT ![last] = [inbox[c][last] EXCEPT !.whole = TRUE]]
    BY <2>1
  <2>4. completed \in Seq(Messages)
    BY <2>1, <2>2, <2>3, ExceptSeq
  <2>5. inbox' = [inbox EXCEPT ![c] = completed]
    BY <1>1, <1>6 DEF Finish
  <2> HIDE DEF completed
  <2>6. inbox' \in [Conns -> Seq(Messages)]
    BY <1>1, <2>4, <2>5, InboxType
  <2> QED
    BY <1>1, <1>6, <2>6, ClientKeeps DEF Finish, clientVars
<1>7. CASE Close(c)
  <2>1. state' \in [Conns -> States] /\ \A d \in Conns : (state'[d] = "new") <=> (state[d] = "new")
    BY <1>1, <1>7 DEF Close
  <2> QED
    BY <1>1, <1>7, <2>1, ClientKeeps DEF Close
<1>8. CASE Reset(c)
  <2>1. state' \in [Conns -> States] /\ \A d \in Conns : (state'[d] = "new") <=> (state[d] = "new")
    BY <1>1, <1>8 DEF Reset
  <2> QED
    BY <1>1, <1>8, <2>1, ClientKeeps DEF Reset
<1> QED
  BY <1>2, <1>3, <1>4, <1>5, <1>6, <1>7, <1>8 DEF ClientStep

-----------------------------------------------------------------------------
(* The server's steps and the slots.                                       *)

LEMMA PollSlots == ASSUME SlotsInv, Poll PROVE SlotsInv'
<1> USE DEF SlotsInv
<1>1. UNCHANGED <<backlog, inbox, clientVars, fdOf, fds_, clients_name_, serverWorkStatus_, introduced>>
  BY DEF Poll
<1>2. todo' \subseteq 0..Len(fds_) /\ \A i \in todo' : Readable(i)
  BY DEF Poll
<1>3. pc' = "accept" \/ (todo' = {} /\ pc' \in {"poll", "stopped"})
  BY DEF Poll, AfterPass
<1>4. TypeOK'
  BY <1>1, <1>2, <1>3 DEF TypeOK, clientVars
<1>5. OneSlotEach' /\ OwnFds' /\ SlotsAreOpen' /\ WaitOnce'
  BY <1>1 DEF OneSlotEach, OwnFds, SlotsAreOpen, WaitOnce, clientVars
<1>6. StillReady'
  BY <1>1, <1>2, <1>3 DEF StillReady, Readable
<1> QED
  BY <1>4, <1>5, <1>6

\* A descriptor accept returns is nobody's, so no slot watches it yet.
LEMMA AcceptSlots == ASSUME SlotsInv, checkingSocketsOnNewConnect PROVE SlotsInv'
<1> USE DEF SlotsInv
<1>1. /\ UNCHANGED <<inbox, clientVars, clients_name_, serverWorkStatus_, introduced>>
      /\ pc = "accept" /\ todo' = todo \ {Listening}
  BY DEF checkingSocketsOnNewConnect
<1>2. /\ backlog \in Seq(Conns) /\ fdOf \in [Conns -> Fds \cup {NoFd}]
      /\ fds_ \in Seq(Fds \cup {NoFd}) /\ todo \subseteq 0..Len(fds_)
      /\ DOMAIN fds_ = 1..Len(fds_) /\ Len(fds_) \in Nat
  BY DEF TypeOK
<1>3. CASE Listening \notin todo
  <2>1. UNCHANGED <<backlog, fdOf, fds_>> /\ pc' = "content" /\ todo' = todo
    BY <1>1, <1>3 DEF checkingSocketsOnNewConnect
  <2>2. TypeOK'
    BY <1>1, <2>1 DEF TypeOK, clientVars
  <2>3. OneSlotEach' /\ OwnFds' /\ SlotsAreOpen' /\ WaitOnce'
    BY <1>1, <2>1 DEF OneSlotEach, OwnFds, SlotsAreOpen, WaitOnce, clientVars
  <2>4. StillReady'
    BY <1>1, <1>3, <2>1 DEF StillReady
  <2> QED
    BY <2>2, <2>3, <2>4
\* Common to a success and to EMFILE: the slots so far and what is ready.
<1>4. ASSUME NEW f \in Fds \cup {NoFd}, fds_' = Append(fds_, f), pc' \in {"content", "overrun"}
      PROVE  /\ fds_' \in Seq(Fds \cup {NoFd}) /\ todo' \subseteq 0..Len(fds_')
             /\ DOMAIN fds_' = 1..Len(fds_) + 1 /\ fds_'[Len(fds_) + 1] = f
             /\ \A i \in 1..Len(fds_) : fds_'[i] = fds_[i]
             /\ StillReady'
  <2>1. /\ fds_' \in Seq(Fds \cup {NoFd}) /\ Len(fds_') = Len(fds_) + 1
        /\ DOMAIN fds_' = 1..Len(fds_) + 1 /\ fds_'[Len(fds_) + 1] = f
        /\ \A i \in 1..Len(fds_) : fds_'[i] = fds_[i]
    BY <1>2, <1>4
  <2>2. todo' \subseteq 0..Len(fds_')
    <3>1. \A i \in 0..Len(fds_) : i \in 0..Len(fds_) + 1
      BY <1>2
    <3>2. todo' \subseteq 0..Len(fds_)
      BY <1>1, <1>2
    <3> QED
      BY <2>1, <3>1, <3>2
  <2>3. \A i \in todo' : i \in todo \ {Listening} /\ i \in 1..Len(fds_)
    BY <1>1, <1>2 DEF Listening
  <2>4. StillReady'
    BY <1>1, <1>4, <2>1, <2>3 DEF StillReady, Listening
  <2> QED
    BY <2>1, <2>2, <2>4
<1>5. CASE Listening \in todo /\ FreeFds # {}
  <2> DEFINE f == LowestFree
             c == Head(backlog)
  <2>1. f \in Fds /\ f # NoFd /\ \A d \in Conns : fdOf[d] # f
    BY <1>5, LowestFreeIsFree, NoFdIsNone
  <2>2. /\ fdOf' = [fdOf EXCEPT ![c] = f] /\ fds_' = Append(fds_, f)
        /\ backlog' = Tail(backlog) /\ pc' \in {"content", "overrun"}
    BY <1>5 DEF checkingSocketsOnNewConnect, NextSlot
  <2>3. backlog # <<>>
    BY <1>5 DEF StillReady
  <2>4. c \in Conns /\ c = backlog[1] /\ 1 \in DOMAIN backlog
    BY <1>2, <2>3
  <2>5. fdOf[c] = NoFd /\ state[c] # "new" /\ c \notin introduced
    BY <2>4 DEF WaitOnce
  <2> HIDE DEF f, c
  <2>6. /\ fds_' \in Seq(Fds \cup {NoFd}) /\ todo' \subseteq 0..Len(fds_')
        /\ DOMAIN fds_' = 1..Len(fds_) + 1 /\ fds_'[Len(fds_) + 1] = f
        /\ \A i \in 1..Len(fds_) : fds_'[i] = fds_[i]
        /\ StillReady'
    BY <1>4, <2>1, <2>2
  <2>7. /\ fdOf' \in [Conns -> Fds \cup {NoFd}] /\ fdOf'[c] = f
        /\ \A d \in Conns : d # c => fdOf'[d] = fdOf[d]
    BY <1>2, <2>1, <2>2, <2>4
  <2>8. /\ backlog' \in Seq(Conns) /\ DOMAIN backlog' = 1..Len(backlog) - 1
        /\ \A k \in DOMAIN backlog' : k + 1 \in DOMAIN backlog /\ backlog'[k] = backlog[k + 1] /\ k + 1 # 1
    BY <1>2, <2>2, <2>3
  <2>9. \A i \in 1..Len(fds_) : fds_[i] # f
    BY <1>2, <2>1 DEF SlotsAreOpen
  <2>10. TypeOK'
    BY <1>1, <2>2, <2>6, <2>7, <2>8 DEF TypeOK, clientVars
  <2>11. OneSlotEach'
    BY <1>2, <2>6, <2>9 DEF OneSlotEach
  <2>12. OwnFds'
    BY <2>1, <2>4, <2>7 DEF OwnFds
  <2>13. SlotsAreOpen'
    <3>1. ASSUME NEW i \in 1..Len(fds_), fds_[i] # NoFd
          PROVE  \E d \in Conns : fdOf'[d] = fds_[i]
      <4>1. PICK d \in Conns : fdOf[d] = fds_[i]
        BY <1>2, <3>1 DEF SlotsAreOpen
      <4> QED
        BY <2>5, <2>7, <3>1, <4>1
    <3>2. \A i \in DOMAIN fds_' : i \in 1..Len(fds_) \/ i = Len(fds_) + 1
      BY <1>2, <2>6
    <3> QED
      BY <2>4, <2>6, <2>7, <3>1, <3>2 DEF SlotsAreOpen
  <2>14. WaitOnce'
    <3>1. UNCHANGED <<state, introduced>>
      BY <1>1 DEF clientVars
    <3>2. \A k \in DOMAIN backlog' : backlog'[k] # c /\ backlog'[k] \in Conns
      <4>1. ASSUME NEW k \in DOMAIN backlog' PROVE backlog'[k] # c
        BY <2>4, <2>8, <4>1 DEF WaitOnce
      <4> QED
        BY <2>8, <4>1
    <3>3. \A k \in DOMAIN backlog' :
              state'[backlog'[k]] # "new" /\ fdOf'[backlog'[k]] = NoFd /\ backlog'[k] \notin introduced'
      BY <2>7, <2>8, <3>1, <3>2 DEF WaitOnce
    <3>4. ASSUME NEW k \in DOMAIN backlog', NEW l \in DOMAIN backlog', backlog'[k] = backlog'[l]
          PROVE  k = l
      <4>1. k + 1 = l + 1
        BY <2>8, <3>4 DEF WaitOnce
      <4> QED
        BY <2>8, <4>1
    <3>5. \A d \in Conns : state'[d] = "new" => fdOf'[d] = NoFd /\ d \notin introduced'
      BY <2>5, <2>7, <3>1 DEF WaitOnce
    <3> QED
      BY <3>3, <3>4, <3>5 DEF WaitOnce
  <2> QED
    BY <2>6, <2>10, <2>11, <2>12, <2>13, <2>14
<1>6. CASE Listening \in todo /\ FreeFds = {}
  <2>1. UNCHANGED <<backlog, fdOf>> /\ fds_' = Append(fds_, NoFd) /\ pc' \in {"content", "overrun"}
    BY <1>6 DEF checkingSocketsOnNewConnect, NextSlot
  <2>2. /\ fds_' \in Seq(Fds \cup {NoFd}) /\ todo' \subseteq 0..Len(fds_')
        /\ DOMAIN fds_' = 1..Len(fds_) + 1 /\ fds_'[Len(fds_) + 1] = NoFd
        /\ \A i \in 1..Len(fds_) : fds_'[i] = fds_[i]
        /\ StillReady'
    BY <1>4, <2>1
  <2>3. TypeOK'
    BY <1>1, <2>1, <2>2 DEF TypeOK, clientVars
  <2>4. OneSlotEach' /\ SlotsAreOpen'
    BY <1>2, <2>1, <2>2 DEF OneSlotEach, SlotsAreOpen
  <2>5. OwnFds' /\ WaitOnce'
    BY <1>1, <2>1 DEF OwnFds, WaitOnce, clientVars
  <2> QED
    BY <2>2, <2>3, <2>4, <2>5
<1> QED
  BY <1>3, <1>5, <1>6

\* Only a close changes the slots; one that is closed has been looked at.
LEMMA LeaveSlots ==
    ASSUME SlotsInv, UNCHANGED <<backlog, clientVars, fdOf, fds_, serverWorkStatus_>>,
           inbox' \in [Conns -> Seq(Messages)], DOMAIN clients_name_' \subseteq Fds,
           introduced' \subseteq Conns,
           \A c \in introduced' \ introduced : fdOf[c] # NoFd,
           todo' \subseteq todo,
           pc \in {"content", "message"},
           \/ pc' \in {"content", "stopped", "dead"}
           \/ pc' = "poll" /\ todo' = {}
           \/ pc' = "message" /\ todo' # {}
    PROVE  SlotsInv'
<1> USE DEF SlotsInv
<1>1. TypeOK'
  BY DEF TypeOK, clientVars
<1>2. OneSlotEach' /\ OwnFds' /\ SlotsAreOpen'
  BY DEF OneSlotEach, OwnFds, SlotsAreOpen
<1>3. WaitOnce'
  <2>1. \A k \in DOMAIN backlog : backlog[k] \in Conns
    BY DEF TypeOK
  <2> QED
    BY <2>1 DEF WaitOnce, clientVars
<1>4. StillReady'
  BY DEF StillReady
<1> QED
  BY <1>1, <1>2, <1>3, <1>4

\* What ErasedByName leaves: the entries there were, but one of the same name;
\* of a descriptor without a name, at most some nameless ones.
LEMMA Erased ==
    ASSUME NEW fd, NEW table \in ErasedByName(fd)
    PROVE  /\ DOMAIN table \subseteq DOMAIN clients_name_ \cup {fd}
           /\ \A g \in DOMAIN table :
                table[g] = IF g \in DOMAIN clients_name_ THEN clients_name_[g] ELSE ""
           /\ \A g \in DOMAIN clients_name_ \ DOMAIN table :
                clients_name_[g] = IF fd \in DOMAIN clients_name_ THEN clients_name_[fd] ELSE ""
           /\ fd \in DOMAIN clients_name_ =>
                \E g \in DOMAIN clients_name_ :
                    clients_name_[g] = clients_name_[fd] /\ g \notin DOMAIN table
<1> DEFINE looked == IF fd \in DOMAIN clients_name_ THEN clients_name_
                                                    ELSE With(fd, "", clients_name_)
           same == {f \in DOMAIN looked : looked[f] = looked[fd]}
<1>1. /\ DOMAIN looked = DOMAIN clients_name_ \cup {fd}
      /\ \A g \in DOMAIN looked :
            looked[g] = IF g \in DOMAIN clients_name_ THEN clients_name_[g] ELSE ""
  BY DEF With
<1>2. CASE DOMAIN clients_name_ = {}
  BY <1>2 DEF ErasedByName
<1>3. ASSUME NEW f \in same, table = Without(f, looked)
      PROVE  /\ DOMAIN table = DOMAIN looked \ {f} /\ looked[f] = looked[fd]
             /\ \A g \in DOMAIN table : table[g] = looked[g]
  BY <1>3 DEF Without
<1>4. \/ DOMAIN clients_name_ = {}
      \/ \E f \in same : table = Without(f, looked)
      \/ fd \notin DOMAIN clients_name_ /\ table = looked
  BY DEF ErasedByName
<1>5. ASSUME NEW f \in same, table = Without(f, looked)
      PROVE  f \in DOMAIN looked /\ f \notin DOMAIN table
  BY <1>3, <1>5
<1> HIDE DEF looked, same
<1>6. CASE \E f \in same : table = Without(f, looked)
  BY <1>1, <1>3, <1>5, <1>6
<1>7. CASE fd \notin DOMAIN clients_name_ /\ table = looked
  BY <1>1, <1>7
<1> QED
  BY <1>2, <1>4, <1>6, <1>7

LEMMA CloseSlots ==
    ASSUME SlotsInv, pc = "content", todo # {},
           ifMessageEmptyCloseSocket(Current), Advance(todo \ {Current}),
           inbox' \in [Conns -> Seq(Messages)],
           UNCHANGED <<backlog, clientVars, serverWorkStatus_, introduced>>
    PROVE  SlotsInv'
<1> USE DEF SlotsInv
<1> DEFINE i == Current
           c == OwnerOf(Current)
<1>1. /\ i \in DOMAIN fds_ /\ i \in todo /\ fds_[i] \in Fds /\ fds_[i] # NoFd
      /\ c \in Conns /\ fdOf[c] = fds_[i]
  BY CurrentOwner, NoFdIsNone
<1>2. fdOf' = [fdOf EXCEPT ![c] = NoFd] /\ fds_' = [fds_ EXCEPT ![i] = NoFd]
  BY DEF ifMessageEmptyCloseSocket
<1>3. clients_name_' \in ErasedByName(fds_[i])
  BY DEF ifMessageEmptyCloseSocket
<1>4. todo' = todo \ {i} /\ (pc' \in {"content", "stopped"} \/ (pc' = "poll" /\ todo' = {}))
  BY DEF Advance, AfterPass
<1> HIDE DEF i, c
<1>5. /\ fdOf \in [Conns -> Fds \cup {NoFd}] /\ fds_ \in Seq(Fds \cup {NoFd})
      /\ todo \subseteq 0..Len(fds_) /\ DOMAIN fds_ = 1..Len(fds_)
  BY DEF TypeOK
<1>6. /\ fds_' \in Seq(Fds \cup {NoFd}) /\ Len(fds_') = Len(fds_) /\ DOMAIN fds_' = DOMAIN fds_
      /\ fds_'[i] = NoFd /\ \A j \in DOMAIN fds_ : j # i => fds_'[j] = fds_[j]
  BY <1>1, <1>2, <1>5
<1>7. /\ fdOf' \in [Conns -> Fds \cup {NoFd}] /\ fdOf'[c] = NoFd
      /\ \A d \in Conns : d # c => fdOf'[d] = fdOf[d]
  BY <1>1, <1>2, <1>5
<1>8. DOMAIN clients_name_' \subseteq Fds
  <2>1. DOMAIN clients_name_' \subseteq DOMAIN clients_name_ \cup {fds_[i]}
    BY <1>3, Erased
  <2> QED
    BY <1>1, <2>1 DEF TypeOK
<1>9. TypeOK'
  BY <1>4, <1>5, <1>6, <1>7, <1>8 DEF TypeOK, clientVars
<1>10. OneSlotEach'
  BY <1>6 DEF OneSlotEach
<1>11. OwnFds'
  BY <1>7 DEF OwnFds
<1>12. SlotsAreOpen'
  <2>1. ASSUME NEW j \in DOMAIN fds_, j # i, fds_[j] # NoFd
        PROVE  \E d \in Conns : fdOf'[d] = fds_[j]
    <3>1. PICK d \in Conns : fdOf[d] = fds_[j]
      BY <2>1 DEF SlotsAreOpen
    <3>2. fds_[j] # fds_[i]
      BY <1>1, <2>1 DEF OneSlotEach
    <3> QED
      BY <1>1, <1>7, <3>1, <3>2
  <2> QED
    BY <1>6, <2>1 DEF SlotsAreOpen
<1>13. WaitOnce'
  <2>1. \A k \in DOMAIN backlog : backlog[k] \in Conns
    BY DEF TypeOK
  <2> QED
    BY <1>7, <2>1 DEF WaitOnce, clientVars
<1>14. StillReady'
  <2>1. \A j \in todo' : j \in DOMAIN fds_ /\ j # i /\ fds_[j] # NoFd /\ j # Listening
    BY <1>4, <1>5 DEF StillReady, Listening
  <2> QED
    BY <1>4, <1>6, <2>1 DEF StillReady
<1> QED
  BY <1>9, <1>10, <1>11, <1>12, <1>13, <1>14

LEMMA ReadSlots == ASSUME SlotsInv, ReadSlot PROVE SlotsInv'
<1>1. /\ pc = "content" /\ todo # {}
      /\ UNCHANGED <<backlog, clientVars, serverWorkStatus_, introduced>>
  BY DEF ReadSlot
<1> DEFINE c == OwnerOf(Current)
<1>2. c \in Conns
  BY <1>1, CurrentOwner
<1> HIDE DEF c
<1>3. inbox \in [Conns -> Seq(Messages)]
  BY DEF SlotsInv, TypeOK
<1>4. inbox' \in [Conns -> Seq(Messages)]
  <2>1. ASSUME NEW n \in Received(c), inbox' = [inbox EXCEPT ![c] = SubSeq(@, n + 1, Len(@))]
        PROVE  inbox' \in [Conns -> Seq(Messages)]
    <3>1. inbox[c] \in Seq(Messages) /\ n \in 1..Len(inbox[c])
      BY <1>2, <1>3, <2>1 DEF Received
    <3>2. SubSeq(inbox[c], n + 1, Len(inbox[c])) \in Seq(Messages)
      BY <3>1, SubSeqProperties
    <3>3. inbox' = [inbox EXCEPT ![c] = SubSeq(inbox[c], n + 1, Len(inbox[c]))]
      BY <1>2, <1>3, <2>1
    <3> QED
      BY <1>2, <1>3, <3>2, <3>3
  <2> QED
    BY <1>3, <2>1 DEF ReadSlot, c
<1>5. CASE messages' = <<>>
  BY <1>1, <1>4, <1>5, CloseSlots DEF ReadSlot
<1>6. CASE messages' # <<>>
  <2>1. pc' = "message" /\ UNCHANGED <<todo, fdOf, fds_, clients_name_>>
    BY <1>6 DEF ReadSlot
  <2>2. DOMAIN clients_name_ \subseteq Fds /\ introduced \subseteq Conns
    BY DEF SlotsInv, TypeOK
  <2> QED
    BY <1>1, <1>4, <2>1, <2>2, LeaveSlots
<1> QED
  BY <1>5, <1>6

LEMMA HandleSlots == ASSUME SlotsInv, HandleMessage PROVE SlotsInv'
<1>1. /\ pc = "message" /\ todo # {}
      /\ UNCHANGED <<backlog, inbox, clientVars, fdOf, fds_, serverWorkStatus_>>
  BY DEF HandleMessage, SlotsInv, StillReady
<1> DEFINE fd == fds_[Current]
           c == OwnerOf(Current)
<1>2. c \in Conns /\ fdOf[c] = fd /\ fd \in Fds /\ fd # NoFd /\ Current \in todo
  BY <1>1, CurrentOwner, NoFdIsNone
<1> HIDE DEF fd, c
<1>3. \/ UNCHANGED <<clients_name_, introduced>>
      \/ clients_name_' = With(fd, NameOf[c], clients_name_) /\ introduced' = introduced \cup {c}
  BY DEF HandleMessage, fd, c
<1>4. DOMAIN clients_name_' \subseteq Fds /\ introduced' \subseteq Conns
  BY <1>2, <1>3 DEF SlotsInv, TypeOK, With
<1>5. \A d \in introduced' \ introduced : fdOf[d] # NoFd
  BY <1>2, <1>3
<1>6. inbox' \in [Conns -> Seq(Messages)]
  BY <1>1 DEF SlotsInv, TypeOK
<1>7. /\ todo' \subseteq todo
      /\ \/ pc' \in {"content", "stopped"}
         \/ pc' = "poll" /\ todo' = {}
         \/ pc' = "message" /\ todo' = todo
  BY <1>1 DEF HandleMessage, Advance, AfterPass
<1> QED
  BY <1>1, <1>4, <1>5, <1>6, <1>7, LeaveSlots

LEMMA SlotsStep == ASSUME SlotsInv, [Next]_vars PROVE SlotsInv'
<1>1. CASE run \/ launchServerFails
  <2>1. /\ UNCHANGED <<backlog, inbox, clientVars, fdOf, fds_, clients_name_, todo, messages, introduced>>
        /\ pc = "launch" /\ pc' \in {"poll", "dead"}
    BY <1>1 DEF run, launchServerFails
  <2>2. serverWorkStatus_' \in BOOLEAN
    BY <1>1 DEF run, launchServerFails, SlotsInv, TypeOK
  <2> QED
    BY <2>1, <2>2 DEF SlotsInv, TypeOK, OneSlotEach, OwnFds, SlotsAreOpen, WaitOnce, StillReady, clientVars
<1>2. CASE stop
  BY <1>2 DEF stop, SlotsInv, TypeOK, OneSlotEach, OwnFds, SlotsAreOpen, WaitOnce, StillReady,
              clientVars, serverVars
<1>3. CASE NoContent \/ ReadFails
  <2>1. /\ UNCHANGED <<backlog, inbox, clientVars, fdOf, fds_, clients_name_, serverWorkStatus_, introduced>>
        /\ pc = "content" /\ todo' \subseteq todo
        /\ pc' \in {"stopped", "dead"} \/ (pc' = "poll" /\ todo' = {})
    <3>1. CASE NoContent
      BY <3>1 DEF NoContent, Advance, AfterPass
    <3>2. CASE ReadFails
      BY <3>2 DEF ReadFails
    <3> QED
      BY <1>3, <3>1, <3>2
  <2>2. /\ inbox \in [Conns -> Seq(Messages)] /\ DOMAIN clients_name_ \subseteq Fds
        /\ introduced \subseteq Conns
    BY DEF SlotsInv, TypeOK
  <2> QED
    BY <2>1, <2>2, LeaveSlots
<1>4. CASE UNCHANGED vars
  BY <1>4 DEF vars, SlotsInv, TypeOK, OneSlotEach, OwnFds, SlotsAreOpen, WaitOnce, StillReady,
              clientVars, serverVars
<1> QED
  BY <1>1, <1>2, <1>3, <1>4, PollSlots, AcceptSlots, ReadSlots, HandleSlots, ClientSlots
  DEF Next, ServerStep, Over

(***************************************************************************)
(* The server's variables keep their types, whatever its clients do: a     *)
(* slot in todo is one that exists, a descriptor with a name is one that   *)
(* accept may return.                                                      *)
(***************************************************************************)
THEOREM ServerTypeCorrect == Safety => []TypeOK
<1>1. SlotsInv => TypeOK
  BY DEF SlotsInv
<1> QED
  BY <1>1, SlotsInit, SlotsStep, PTL DEF Safety

(***************************************************************************)
(* No two slots watch one descriptor, for any number of clients and of     *)
(* descriptors and however often these are given again (server.cpp:30-55). *)
(***************************************************************************)
THEOREM SlotsStayDistinct == Safety => []OneSlotEach
<1>1. SlotsInv => OneSlotEach
  BY DEF SlotsInv
<1> QED
  BY <1>1, SlotsInit, SlotsStep, PTL DEF Safety

-----------------------------------------------------------------------------
(* The names.                                                              *)

\* What the web interfaces do not keep to (see StillKnown below).
OwnNames ==
    /\ \A c, d \in Conns : NameOf[c] = NameOf[d] => c = d
    /\ \A c \in Conns : NameOf[c] # ""

\* An entry is nameless, or its name is that of the descriptor's client.
EntriesAreOwners ==
    \A f \in DOMAIN clients_name_ :
        clients_name_[f] = "" \/ \E c \in Conns : fdOf[c] = f /\ clients_name_[f] = NameOf[c]

ServedIsSeq == served \in Seq(Range(served))

NamesInv == SlotsInv /\ EntriesAreOwners /\ IntroducedIsKnown /\ ServedIsSeq /\ NeverAnothersName

LEMMA NamesInit == Init => NamesInv
<1> SUFFICES ASSUME Init PROVE NamesInv
  OBVIOUS
<1>1. DOMAIN clients_name_ = {} /\ DOMAIN served = {} /\ introduced = {}
  BY DEF Init
<1>2. served \in Seq({})
  BY DEF Init
<1>3. ServedIsSeq
  BY <1>2, SeqOfRange DEF ServedIsSeq
<1> QED
  BY <1>1, <1>3, SlotsInit DEF NamesInv, EntriesAreOwners, IntroducedIsKnown, NeverAnothersName

LEMMA AppendGrows ==
    ASSUME NEW s, s \in Seq(Range(s)), NEW r, NEW t, t = Append(s, r)
    PROVE  /\ t \in Seq(Range(t)) /\ t[Len(s) + 1] = r
           /\ \A k \in DOMAIN t : k \in DOMAIN s \/ k = Len(s) + 1
           /\ \A k \in DOMAIN s : t[k] = s[k]
<1> DEFINE S == Range(s) \cup {r}
<1>1. Range(s) \subseteq S /\ r \in S
  OBVIOUS
<1> HIDE DEF S
<1>2. s \in Seq(S)
  BY <1>1, SeqMonotonic
<1>3. /\ t \in Seq(S) /\ Len(t) = Len(s) + 1 /\ t[Len(s) + 1] = r
      /\ \A k \in 1..Len(s) : t[k] = s[k]
  BY <1>1, <1>2, AppendProperties
<1>4. t \in Seq(Range(t))
  BY <1>3, SeqOfRange
<1> QED
  BY <1>2, <1>3, <1>4

Rightful(r) == r.name \in {NameOf[r.conn], ""}

LEMMA ServedAppend ==
    ASSUME ServedIsSeq, NeverAnothersName, NEW r, Rightful(r), served' = Append(served, r)
    PROVE  ServedIsSeq' /\ NeverAnothersName'
<1>1. /\ served' \in Seq(Range(served')) /\ served'[Len(served) + 1] = r
      /\ \A k \in DOMAIN served' : k \in DOMAIN served \/ k = Len(served) + 1
      /\ \A k \in DOMAIN served : served'[k] = served[k]
  BY AppendGrows DEF ServedIsSeq
<1>2. ServedIsSeq'
  BY <1>1 DEF ServedIsSeq
<1>3. NeverAnothersName'
  BY <1>1 DEF NeverAnothersName, Rightful
<1> QED
  BY <1>2, <1>3

\* Steps that leave the table, the descriptors and what was served alone.
LEMMA NamesUntouched ==
    ASSUME NamesInv, UNCHANGED <<fdOf, clients_name_, introduced, served>>
    PROVE  EntriesAreOwners' /\ IntroducedIsKnown' /\ ServedIsSeq' /\ NeverAnothersName'
BY DEF NamesInv, EntriesAreOwners, IntroducedIsKnown, IsOpen, ServedIsSeq, NeverAnothersName

LEMMA AcceptNames ==
    ASSUME NamesInv, checkingSocketsOnNewConnect
    PROVE  EntriesAreOwners' /\ IntroducedIsKnown' /\ ServedIsSeq' /\ NeverAnothersName'
<1>1. CASE UNCHANGED fdOf
  BY <1>1, NamesUntouched DEF checkingSocketsOnNewConnect
<1>2. CASE ~UNCHANGED fdOf
  <2> DEFINE c == Head(backlog)
             f == LowestFree
  <2>1. /\ fdOf' = [fdOf EXCEPT ![c] = f] /\ Listening \in todo
        /\ UNCHANGED <<clients_name_, introduced, served>>
    BY <1>2 DEF checkingSocketsOnNewConnect
  <2>2. backlog # <<>> /\ backlog \in Seq(Conns) /\ fdOf \in [Conns -> Fds \cup {NoFd}]
    BY <2>1 DEF NamesInv, SlotsInv, StillReady, TypeOK
  <2>3. c \in Conns /\ c = backlog[1] /\ 1 \in DOMAIN backlog
    BY <2>2
  <2>4. fdOf[c] = NoFd /\ c \notin introduced
    BY <2>3 DEF NamesInv, SlotsInv, WaitOnce
  <2> HIDE DEF c, f
  <2>5. \A d \in Conns : d # c => fdOf'[d] = fdOf[d]
    BY <2>1, <2>2
  <2>6. NoFd \notin DOMAIN clients_name_
    BY NoFdIsNone DEF NamesInv, SlotsInv, TypeOK
  <2>7. EntriesAreOwners'
    <3>1. ASSUME NEW g \in DOMAIN clients_name_, clients_name_[g] # ""
          PROVE  \E d \in Conns : fdOf'[d] = g /\ clients_name_[g] = NameOf[d]
      <4>1. PICK d \in Conns : fdOf[d] = g /\ clients_name_[g] = NameOf[d]
        BY <3>1 DEF NamesInv, EntriesAreOwners
      <4> QED
        BY <2>4, <2>5, <2>6, <4>1
    <3> QED
      BY <2>1, <3>1 DEF EntriesAreOwners
  <2>8. IntroducedIsKnown'
    <3>1. introduced \subseteq Conns
      BY DEF NamesInv, SlotsInv, TypeOK
    <3> QED
      BY <2>1, <2>4, <2>5, <3>1 DEF NamesInv, IntroducedIsKnown, IsOpen
  <2>9. ServedIsSeq' /\ NeverAnothersName'
    BY <2>1 DEF NamesInv, ServedIsSeq, NeverAnothersName
  <2> QED
    BY <2>7, <2>8, <2>9
<1> QED
  BY <1>1, <1>2

\* Erasing by name takes the closed descriptor's own entry, or a nameless one.
LEMMA CloseNames ==
    ASSUME OwnNames, NamesInv, pc = "content", todo # {},
           ifMessageEmptyCloseSocket(Current), UNCHANGED <<introduced, served>>
    PROVE  EntriesAreOwners' /\ IntroducedIsKnown' /\ ServedIsSeq' /\ NeverAnothersName'
<1> DEFINE c == OwnerOf(Current)
           fd == fds_[Current]
<1>1. c \in Conns /\ fdOf[c] = fd /\ fd \in Fds /\ fd # NoFd
  BY CurrentOwner, NoFdIsNone DEF NamesInv
<1>2. fdOf' = [fdOf EXCEPT ![c] = NoFd] /\ clients_name_' \in ErasedByName(fd)
  BY DEF ifMessageEmptyCloseSocket
<1> HIDE DEF c, fd
<1>3. \A d \in Conns : d # c => fdOf'[d] = fdOf[d] /\ fdOf[d] # fd
  BY <1>1, <1>2 DEF NamesInv, SlotsInv, TypeOK, OwnFds
<1>4. fdOf'[c] = NoFd
  BY <1>1, <1>2 DEF NamesInv, SlotsInv, TypeOK
<1> DEFINE old == clients_name_
           new == clients_name_'
           erased == IF fd \in DOMAIN old THEN old[fd] ELSE ""
<1>5. /\ DOMAIN new \subseteq DOMAIN old \cup {fd}
      /\ \A g \in DOMAIN new : new[g] = IF g \in DOMAIN old THEN old[g] ELSE ""
      /\ \A g \in DOMAIN old \ DOMAIN new : old[g] = erased
      /\ fd \in DOMAIN old => \E g \in DOMAIN old : old[g] = old[fd] /\ g \notin DOMAIN new
  BY <1>2, Erased
<1>6. erased \in {"", NameOf[c]}
  BY <1>1, <1>3 DEF NamesInv, EntriesAreOwners
<1> HIDE DEF erased
<1>7. \A g \in DOMAIN old : old[g] = NameOf[c] => g = fd
  <2>1. ASSUME NEW g \in DOMAIN old, old[g] = NameOf[c] PROVE g = fd
    <3>1. old[g] # ""
      BY <1>1, <2>1 DEF OwnNames
    <3>2. PICK d \in Conns : fdOf[d] = g /\ old[g] = NameOf[d]
      BY <2>1, <3>1 DEF NamesInv, EntriesAreOwners
    <3> QED
      BY <1>1, <2>1, <3>2 DEF OwnNames
  <2> QED
    BY <2>1
<1>8. EntriesAreOwners'
  <2>1. ASSUME NEW g \in DOMAIN new, new[g] # ""
        PROVE  \E d \in Conns : fdOf'[d] = g /\ new[g] = NameOf[d]
    <3>1. g \in DOMAIN old /\ new[g] = old[g]
      BY <1>5, <2>1
    <3>2. PICK d \in Conns : fdOf[d] = g /\ old[g] = NameOf[d]
      BY <2>1, <3>1 DEF NamesInv, EntriesAreOwners
    <3>3. d # c
      <4>1. SUFFICES ASSUME d = c PROVE FALSE
        OBVIOUS
      <4>2. g = fd /\ old[fd] = NameOf[c]
        BY <1>1, <3>2, <4>1
      <4>3. PICK h \in DOMAIN old : old[h] = NameOf[c] /\ h \notin DOMAIN new
        BY <1>5, <3>1, <4>2
      <4> QED
        BY <1>7, <2>1, <4>2, <4>3
    <3> QED
      BY <1>3, <3>1, <3>2, <3>3
  <2> QED
    BY <2>1 DEF EntriesAreOwners
<1>9. IntroducedIsKnown'
  <2>1. ASSUME NEW d \in introduced, fdOf'[d] # NoFd
        PROVE  fdOf'[d] \in DOMAIN new /\ new[fdOf'[d]] = NameOf[d]
    <3>1. d \in Conns /\ d # c
      BY <1>4, <2>1 DEF NamesInv, SlotsInv, TypeOK
    <3>2. fdOf'[d] = fdOf[d]
      BY <1>3, <3>1
    <3>3. fdOf[d] \in DOMAIN old /\ old[fdOf[d]] = NameOf[d]
      BY <2>1, <3>2 DEF NamesInv, IntroducedIsKnown, IsOpen
    <3>4. old[fdOf[d]] # erased
      BY <1>1, <1>6, <3>1, <3>3 DEF OwnNames
    <3> QED
      BY <1>5, <3>2, <3>3, <3>4
  <2> QED
    BY <2>1 DEF IntroducedIsKnown, IsOpen
<1>10. ServedIsSeq' /\ NeverAnothersName'
  BY DEF NamesInv, ServedIsSeq, NeverAnothersName
<1> QED
  BY <1>8, <1>9, <1>10

LEMMA HandleNames ==
    ASSUME OwnNames, NamesInv, HandleMessage
    PROVE  EntriesAreOwners' /\ IntroducedIsKnown' /\ ServedIsSeq' /\ NeverAnothersName'
<1> DEFINE c == OwnerOf(Current)
           fd == fds_[Current]
           m == Head(messages)
<1>1. pc = "message" /\ todo # {} /\ UNCHANGED fdOf
  BY DEF HandleMessage, NamesInv, SlotsInv, StillReady
<1>2. c \in Conns /\ fdOf[c] = fd /\ fd \in Fds /\ fd # NoFd
  BY <1>1, CurrentOwner, NoFdIsNone DEF NamesInv
<1> HIDE DEF c, fd, m
<1>3. CASE fd \in DOMAIN clients_name_
  <2> DEFINE r == [conn |-> c, name |-> clients_name_[fd],
                   kind |-> m.kind, id |-> m.id, whole |-> m.whole]
  <2>1. served' = Append(served, r) /\ UNCHANGED <<clients_name_, introduced>>
    BY <1>3 DEF HandleMessage, c, fd, m
  <2>2. r.conn = c /\ r.name = clients_name_[fd]
    OBVIOUS
  <2> HIDE DEF r
  <2>3. clients_name_[fd] \in {NameOf[c], ""}
    <3>1. SUFFICES ASSUME clients_name_[fd] # ""
                   PROVE  clients_name_[fd] = NameOf[c]
      OBVIOUS
    <3>2. PICK d \in Conns : fdOf[d] = fd /\ clients_name_[fd] = NameOf[d]
      BY <1>3, <3>1 DEF NamesInv, EntriesAreOwners
    <3>3. d = c
      BY <1>2, <3>2 DEF NamesInv, SlotsInv, OwnFds
    <3> QED
      BY <3>2, <3>3
  <2>4. Rightful(r)
    BY <2>2, <2>3 DEF Rightful
  <2>5. ServedIsSeq' /\ NeverAnothersName'
    BY <2>1, <2>4, ServedAppend DEF NamesInv
  <2>6. EntriesAreOwners' /\ IntroducedIsKnown'
    BY <1>1, <2>1 DEF NamesInv, EntriesAreOwners, IntroducedIsKnown, IsOpen
  <2> QED
    BY <2>5, <2>6
<1>4. CASE fd \notin DOMAIN clients_name_ /\ clients_name_' # clients_name_
  <2>1. /\ clients_name_' = With(fd, NameOf[c], clients_name_)
        /\ introduced' = introduced \cup {c} /\ UNCHANGED served
    BY <1>4 DEF HandleMessage, c, fd, m
  <2>2. /\ DOMAIN clients_name_' = DOMAIN clients_name_ \cup {fd} /\ clients_name_'[fd] = NameOf[c]
        /\ \A g \in DOMAIN clients_name_ : clients_name_'[g] = clients_name_[g]
    BY <1>4, <2>1 DEF With
  <2>3. EntriesAreOwners'
    <3>1. ASSUME NEW g \in DOMAIN clients_name_', clients_name_'[g] # ""
          PROVE  \E d \in Conns : fdOf[d] = g /\ clients_name_'[g] = NameOf[d]
      <4>1. CASE g = fd
        BY <1>2, <2>2, <4>1
      <4>2. CASE g # fd
        <5>1. g \in DOMAIN clients_name_ /\ clients_name_'[g] = clients_name_[g]
          BY <2>2, <3>1, <4>2
        <5>2. EntriesAreOwners /\ clients_name_[g] # ""
          BY <3>1, <5>1 DEF NamesInv
        <5>3. PICK d \in Conns : fdOf[d] = g /\ clients_name_[g] = NameOf[d]
          BY <5>1, <5>2, Zenon DEF EntriesAreOwners
        <5> QED
          BY <5>1, <5>3
      <4> QED
        BY <4>1, <4>2
    <3> QED
      BY <1>1, <3>1 DEF EntriesAreOwners
  <2>4. IntroducedIsKnown'
    BY <1>1, <1>2, <2>1, <2>2 DEF NamesInv, IntroducedIsKnown, IsOpen
  <2>5. ServedIsSeq' /\ NeverAnothersName'
    BY <2>1 DEF NamesInv, ServedIsSeq, NeverAnothersName
  <2> QED
    BY <2>3, <2>4, <2>5
<1>5. CASE fd \notin DOMAIN clients_name_ /\ clients_name_' = clients_name_
  <2>1. With(fd, NameOf[c], clients_name_) # clients_name_
    <3>1. fd \in DOMAIN With(fd, NameOf[c], clients_name_)
      BY DEF With
    <3> QED
      BY <1>5, <3>1
  <2>2. UNCHANGED <<clients_name_, introduced, served>>
    BY <1>5, <2>1 DEF HandleMessage, c, fd, m
  <2> QED
    BY <1>1, <2>2, NamesUntouched
<1> QED
  BY <1>3, <1>4, <1>5

LEMMA NamesStep ==
    ASSUME OwnNames, NamesInv, [Next]_vars
    PROVE  NamesInv'
<1>1. SlotsInv'
  BY SlotsStep DEF NamesInv
<1>2. CASE UNCHANGED <<fdOf, clients_name_, introduced, served>>
  BY <1>1, <1>2, NamesUntouched DEF NamesInv
<1>3. CASE checkingSocketsOnNewConnect
  BY <1>1, <1>3, AcceptNames DEF NamesInv
<1>4. CASE HandleMessage
  BY <1>1, <1>4, HandleNames DEF NamesInv
<1>5. CASE ReadSlot
  <2>1. CASE messages' = <<>>
    BY <1>1, <1>5, <2>1, CloseNames DEF ReadSlot, NamesInv
  <2>2. CASE messages' # <<>>
    BY <1>1, <1>2, <1>5, <2>2 DEF ReadSlot
  <2> QED
    BY <2>1, <2>2
<1>6. ASSUME run \/ launchServerFails \/ stop \/ Poll \/ NoContent \/ ReadFails \/ Over \/ UNCHANGED vars
      PROVE  UNCHANGED <<fdOf, clients_name_, introduced, served>>
  BY <1>6 DEF run, launchServerFails, stop, Poll, NoContent, ReadFails, Over, vars, serverVars
<1>7. ASSUME NEW c \in Conns, ClientStep(c)
      PROVE  UNCHANGED <<fdOf, clients_name_, introduced, served>>
  BY <1>7 DEF ClientStep, Connect, Introduce, Ask, SendBlank, Finish, Close, Reset, Deliver, serverVars
<1> QED
  BY <1>2, <1>3, <1>4, <1>5, <1>6, <1>7 DEF Next, ServerStep

(***************************************************************************)
(* Whatever rude clients do, a client that has introduced itself stays     *)
(* known until its socket is closed: if, which the server does not see to, *)
(* no two connections ever use one name (server.cpp:46 erases by name).    *)
(***************************************************************************)
THEOREM StillKnown ==
    ASSUME OwnNames
    PROVE  Safety => []IntroducedIsKnown
<1>1. NamesInv => IntroducedIsKnown
  BY DEF NamesInv
<1>2. NamesInv /\ [Next]_vars => NamesInv'
  BY NamesStep
<1> QED
  BY <1>1, <1>2, NamesInit, PTL DEF Safety

(***************************************************************************)
(* Nor does the core ever get a request under another client's name,       *)
(* although names hang on descriptors and descriptors are given again.     *)
(***************************************************************************)
THEOREM NobodysNameIsTaken ==
    ASSUME OwnNames
    PROVE  Safety => []NeverAnothersName
<1>1. NamesInv => NeverAnothersName
  BY DEF NamesInv
<1>2. NamesInv /\ [Next]_vars => NamesInv'
  BY NamesStep
<1> QED
  BY <1>1, <1>2, NamesInit, PTL DEF Safety

-----------------------------------------------------------------------------
(***************************************************************************)
(* Requests reach the core in the order sent.  The messages of a client    *)
(* are numbered, its introduction 0 and its requests from 1 on; at any     *)
(* moment those handed over, those split off and those unread are          *)
(* consecutive pieces of that numbering.                                   *)
(***************************************************************************)

-----------------------------------------------------------------------------
(* What split makes of data whose only blank piece, if any, is the last.   *)

Pieces(data) == IF data[Len(data)].kind = "blank" THEN Len(data) - 1 ELSE Len(data)

LEMMA SplitKeeps ==
    ASSUME NEW data \in Seq(Messages), data # <<>>,
           \A i \in 1..Len(data) : data[i].kind = "blank" => i = Len(data)
    PROVE  /\ Pieces(data) \in 0..Len(data)
           /\ split(data) \in Seq(Messages)
           /\ Len(split(data)) = Pieces(data)
           /\ \A i \in 1..Pieces(data) : split(data)[i] = data[i]
<1> DEFINE n == Len(data)
           first(i) == SubSeq(data, 1, IF i <= Pieces(data) THEN i ELSE Pieces(data))
           IsPieces(g) ==
               g = [i \in 0..n |-> IF i = 0 THEN <<>>
                                   ELSE IF data[i].kind = "blank" THEN g[i - 1]
                                   ELSE Append(g[i - 1], data[i])]
           f == [i \in 0..n |-> first(i)]
<1>1. n \in Nat \ {0} /\ Pieces(data) \in 0..n
  BY DEF Pieces
<1>2. \A i \in 1..n : data[i].kind = "blank" <=> i > Pieces(data)
  BY <1>1 DEF Pieces
<1>3. \A i \in 0..n : first(i) \in Seq(Messages)
  BY <1>1
<1>4. first(0) = <<>>
  BY <1>1
<1>5. ASSUME NEW i \in 1..n, data[i].kind = "blank"
      PROVE  first(i) = first(i - 1)
  BY <1>1, <1>2, <1>5
<1>6. ASSUME NEW i \in 1..n, data[i].kind # "blank"
      PROVE  first(i) = Append(first(i - 1), data[i])
  <2>1. first(i) = SubSeq(data, 1, i) /\ first(i - 1) = SubSeq(data, 1, i - 1)
    BY <1>1, <1>2, <1>6
  <2> QED
    BY <2>1, <1>1, SubSeqRecursiveSecond
<1> HIDE DEF first, n
<1>7. IsPieces(f)
  <2>1. ASSUME NEW i \in 0..n
        PROVE  f[i] = IF i = 0 THEN <<>>
                      ELSE IF data[i].kind = "blank" THEN f[i - 1]
                      ELSE Append(f[i - 1], data[i])
    <3>1. CASE i = 0
      BY <3>1, <1>4
    <3>2. CASE i # 0
      <4>1. i \in 1..n /\ i - 1 \in 0..n
        BY <3>2, <1>1
      <4> QED
        BY <4>1, <1>5, <1>6, <3>2
    <3> QED
      BY <3>1, <3>2
  <2> QED
    BY <2>1
<1>8. ASSUME NEW g, IsPieces(g) PROVE \A i \in 0..n : g[i] = first(i)
  <2> DEFINE Wrong == {i \in 0..n : g[i] # first(i)}
  <2>0. \A i \in 0..n : g[i] = IF i = 0 THEN <<>>
                               ELSE IF data[i].kind = "blank" THEN g[i - 1]
                               ELSE Append(g[i - 1], data[i])
    BY <1>8, Zenon
  <2>1. SUFFICES ASSUME Wrong # {} PROVE FALSE
    OBVIOUS
  <2>2. Wrong \in SUBSET Nat
    OBVIOUS
  <2>3. PICK i \in Wrong : \A j \in Wrong : i <= j
    BY <2>1, <2>2, LeastExists
  <2>4. i # 0
    BY <1>1, <1>4, <1>8
  <2>5. i \in 1..n /\ i - 1 \in 0..n /\ i - 1 \notin Wrong
    BY <2>3, <2>4, <1>1
  <2>6. g[i - 1] = first(i - 1)
    BY <2>5
  <2> HIDE DEF Wrong
  <2>7. g[i] = IF data[i].kind = "blank" THEN g[i - 1] ELSE Append(g[i - 1], data[i])
    BY <2>0, <2>4, <2>5
  <2>8. g[i] = first(i)
    BY <2>5, <2>6, <2>7, <1>5, <1>6
  <2> QED
    BY <2>3, <2>8 DEF Wrong
<1>9. split(data) = first(n)
  <2>1. split(data) = (CHOOSE g : IsPieces(g))[n]
    BY DEF split, n
  <2>2. IsPieces(CHOOSE g : IsPieces(g))
    BY <1>7
  <2> HIDE DEF IsPieces
  <2> QED
    BY <2>1, <2>2, <1>8, <1>1
<1> QED
  BY <1>9, <1>1 DEF first, n

-----------------------------------------------------------------------------
(* The flow of a client's messages: those split off and not yet handled,   *)
(* then those unread, numbered on from the last one handled.               *)

Numbered(m, n) == m.id = n /\ m.kind = IF n = 0 THEN "intro" ELSE "request"

Handled(c) == IF messages # <<>> /\ OwnerOf(Current) = c THEN messages ELSE <<>>

FlowOf(h, q, st, n, d) ==
    /\ d \in Int /\ d >= -1
    /\ \A i \in 1..Len(h) : Numbered(h[i], d + i)
    /\ \A i \in 1..Len(q) :
          \/ Numbered(q[i], d + Len(h) + i)
          \/ q[i].kind = "blank" /\ i = Len(q) /\ st # "named"
    /\ st \in {"new", "connected"} => d = -1 /\ h = <<>> /\ q = <<>> /\ n = 0
    /\ st = "named" => n = d + Len(h) + Len(q)

Flow(c, d) == FlowOf(Handled(c), inbox[c], state[c], sent[c], d)

\* What a client without an introduction has under way.
MuteOf(h, q, st) ==
    /\ st \notin {"named", "blank"}
    /\ \A i \in 1..Len(h) : h[i].kind = "request"
    /\ \A i \in 1..Len(q) : q[i].kind = "request"

MuteFlow(c) == MuteOf(Handled(c), inbox[c], state[c]) /\ c \notin introduced

LEMMA FlowGrows ==
    ASSUME NEW h \in Seq(Messages), NEW q \in Seq(Messages), NEW m \in Messages,
           NEW st, NEW n \in Nat, NEW d, FlowOf(h, q, st, n, d)
    PROVE  /\ st = "connected" /\ Numbered(m, 0) => FlowOf(h, Append(q, m), "named", n, d)
           /\ st = "named" /\ Numbered(m, n + 1) => FlowOf(h, Append(q, m), "named", n + 1, d)
           /\ st = "named" /\ m.kind = "blank" => FlowOf(h, Append(q, m), "blank", n, d)
<1>1. /\ Len(q) \in Nat /\ Len(h) \in Nat /\ d \in Int
      /\ Len(Append(q, m)) = Len(q) + 1 /\ Append(q, m)[Len(q) + 1] = m
      /\ \A i \in 1..Len(q) : Append(q, m)[i] = q[i]
  BY DEF FlowOf
<1>2. ASSUME st = "connected", Numbered(m, 0) PROVE FlowOf(h, Append(q, m), "named", n, d)
  <2>1. d = -1 /\ Len(h) = 0 /\ Len(q) = 0 /\ n = 0
    BY <1>2 DEF FlowOf
  <2>2. \A i \in 1..Len(Append(q, m)) : Numbered(Append(q, m)[i], d + Len(h) + i)
    BY <1>1, <1>2, <2>1
  <2> QED
    BY <1>1, <2>1, <2>2 DEF FlowOf
<1>3. ASSUME NEW e, e = n + 1 \/ e = n, NEW s, s # "connected", s # "new",
             st = "named", s = "named" => Numbered(m, n + 1) /\ e = n + 1,
             s # "named" => m.kind = "blank"
      PROVE  FlowOf(h, Append(q, m), s, e, d)
  <2>1. n = d + Len(h) + Len(q) /\ \A i \in 1..Len(q) : Numbered(q[i], d + Len(h) + i)
    BY <1>3 DEF FlowOf
  <2>2. \A i \in 1..Len(q) + 1 : i \in 1..Len(q) \/ i = Len(q) + 1
    BY <1>1
  <2>3. \A i \in 1..Len(q) + 1 :
            \/ Numbered(Append(q, m)[i], d + Len(h) + i)
            \/ Append(q, m)[i].kind = "blank" /\ i = Len(q) + 1 /\ s # "named"
    <3>1. s = "named" => Numbered(m, d + Len(h) + (Len(q) + 1))
      BY <1>1, <1>3, <2>1
    <3>2. \A i \in 1..Len(q) : Numbered(Append(q, m)[i], d + Len(h) + i)
      BY <1>1, <2>1
    <3> QED
      BY <1>1, <1>3, <2>2, <3>1, <3>2
  <2>4. s = "named" => e = d + Len(h) + (Len(q) + 1)
    BY <1>1, <1>3, <2>1
  <2> QED
    BY <1>1, <1>3, <2>3, <2>4 DEF FlowOf
<1> QED
  BY <1>2, <1>3

LEMMA FlowRead ==
    ASSUME NEW q \in Seq(Messages), NEW k \in 1..Len(q),
           NEW st, NEW n, NEW d, FlowOf(<<>>, q, st, n, d)
    PROVE  /\ FlowOf(split(SubSeq(q, 1, k)), SubSeq(q, k + 1, Len(q)), st, n, d)
           /\ split(SubSeq(q, 1, k)) \in Seq(Messages)
           /\ q[1].kind # "blank" =>
                split(SubSeq(q, 1, k)) # <<>> /\ split(SubSeq(q, 1, k))[1] = q[1]
           /\ \A i \in 1..Len(split(SubSeq(q, 1, k))) :
                i <= k /\ split(SubSeq(q, 1, k))[i] = q[i]
<1> DEFINE data == SubSeq(q, 1, k)
           rest == SubSeq(q, k + 1, Len(q))
           h == split(data)
<1>1. /\ Len(q) \in Nat /\ data \in Seq(Messages) /\ Len(data) = k
      /\ \A i \in 1..k : data[i] = q[i]
      /\ rest \in Seq(Messages) /\ Len(rest) = Len(q) - k
      /\ \A i \in 1..Len(q) - k : rest[i] = q[k + i]
  OBVIOUS
<1>2. d \in Int /\ \A i \in 1..Len(q) :
            \/ Numbered(q[i], d + i)
            \/ q[i].kind = "blank" /\ i = Len(q) /\ st # "named"
  BY DEF FlowOf
<1>3. \A i \in 1..Len(q) : q[i].kind = "blank" => i = Len(q) /\ st # "named"
  BY <1>2 DEF Numbered
<1>4. \A i \in 1..k : data[i].kind = "blank" => i = k /\ k = Len(q) /\ st # "named"
  BY <1>1, <1>3
<1> HIDE DEF data, rest
<1>5. /\ h \in Seq(Messages) /\ Pieces(data) \in 0..k /\ Len(h) = Pieces(data)
      /\ \A i \in 1..Pieces(data) : h[i] = data[i]
  BY <1>1, <1>4, SplitKeeps
<1>6. Pieces(data) = k \/ (Pieces(data) = k - 1 /\ k = Len(q) /\ st # "named")
  BY <1>1, <1>4 DEF Pieces
<1> HIDE DEF h
<1>7. \A i \in 1..Len(h) : Numbered(h[i], d + i)
  <2> SUFFICES ASSUME NEW i \in 1..Len(h) PROVE Numbered(h[i], d + i)
    OBVIOUS
  <2>1. i \in 1..k /\ h[i] = q[i] /\ i \in 1..Len(q)
    BY <1>1, <1>5
  <2>2. q[i].kind # "blank"
    BY <1>1, <1>4, <1>5, <1>6, <2>1 DEF Pieces
  <2> QED
    BY <1>2, <2>1, <2>2
<1>8. \A i \in 1..Len(rest) :
          \/ Numbered(rest[i], d + Len(h) + i)
          \/ rest[i].kind = "blank" /\ i = Len(rest) /\ st # "named"
  <2>1. CASE Pieces(data) = k
    <3> SUFFICES ASSUME NEW i \in 1..Len(q) - k
                 PROVE  \/ Numbered(rest[i], d + Len(h) + i)
                        \/ rest[i].kind = "blank" /\ i = Len(rest) /\ st # "named"
      BY <1>1
    <3>1. k + i \in 1..Len(q) /\ rest[i] = q[k + i] /\ d + Len(h) + i = d + (k + i)
      BY <1>1, <1>2, <1>5, <2>1
    <3>2. Len(q) = k + i => i = Len(rest)
      BY <1>1
    <3>3. \/ Numbered(q[k + i], d + (k + i))
          \/ q[k + i].kind = "blank" /\ k + i = Len(q) /\ st # "named"
      BY <1>2, <3>1
    <3> QED
      BY <3>1, <3>2, <3>3
  <2>2. CASE k = Len(q)
    BY <1>1, <2>2
  <2> QED
    BY <1>6, <2>1, <2>2
<1>9. FlowOf(h, rest, st, n, d)
  <2>1. st \notin {"new", "connected"}
    BY <1>1 DEF FlowOf
  <2>2. st = "named" => n = d + Len(h) + Len(rest)
    <3>1. st = "named" => n = d + 0 + Len(q)
      BY DEF FlowOf
    <3> QED
      BY <1>1, <1>2, <1>5, <1>6, <3>1
  <2>3. d >= -1
    BY DEF FlowOf
  <2> QED
    BY <1>2, <1>7, <1>8, <2>1, <2>2, <2>3 DEF FlowOf
<1>10. q[1].kind # "blank" => h # <<>> /\ h[1] = q[1]
  <2>1. q[1].kind # "blank" => Pieces(data) >= 1
    BY <1>1, <1>5, <1>6 DEF Pieces
  <2> QED
    BY <1>1, <1>5, <2>1
<1>11. \A i \in 1..Len(h) : i <= k /\ h[i] = q[i]
  BY <1>1, <1>5
<1> QED
  BY <1>5, <1>9, <1>10, <1>11 DEF h, data, rest

LEMMA FlowHandle ==
    ASSUME NEW h \in Seq(Messages), h # <<>>, NEW q \in Seq(Messages),
           NEW st, NEW n, NEW d, FlowOf(h, q, st, n, d)
    PROVE  FlowOf(Tail(h), q, st, n, d + 1) /\ Numbered(Head(h), d + 1)
<1>1. /\ Len(h) \in Nat \ {0} /\ Head(h) = h[1] /\ d \in Int /\ Len(q) \in Nat
      /\ Len(Tail(h)) = Len(h) - 1 /\ \A i \in 1..Len(h) - 1 : Tail(h)[i] = h[i + 1]
  BY DEF FlowOf
<1>2. Numbered(Head(h), d + 1)
  BY <1>1 DEF FlowOf
<1>3. \A i \in 1..Len(Tail(h)) : Numbered(Tail(h)[i], (d + 1) + i)
  <2>1. \A i \in 1..Len(Tail(h)) : i + 1 \in 1..Len(h) /\ (d + 1) + i = d + (i + 1)
    BY <1>1
  <2>2. \A i \in 1..Len(h) : Numbered(h[i], d + i)
    BY DEF FlowOf
  <2> QED
    BY <1>1, <2>1, <2>2
<1>4. \A i \in 1..Len(q) : d + Len(h) + i = (d + 1) + Len(Tail(h)) + i
  BY <1>1
<1>5. st = "named" => n = (d + 1) + Len(Tail(h)) + Len(q)
  BY <1>1 DEF FlowOf
<1>6. st \notin {"new", "connected"}
  BY DEF FlowOf
<1>7. \A i \in 1..Len(q) :
          \/ Numbered(q[i], (d + 1) + Len(Tail(h)) + i)
          \/ q[i].kind = "blank" /\ i = Len(q) /\ st # "named"
  BY <1>4 DEF FlowOf
<1>8. d + 1 \in Int /\ d + 1 >= -1
  BY DEF FlowOf
<1> QED
  BY <1>2, <1>3, <1>5, <1>6, <1>7, <1>8 DEF FlowOf

-----------------------------------------------------------------------------
(* The clients' steps.                                                     *)

MessagesInv == messages \in Seq(Messages) /\ (pc = "message" <=> messages # <<>>)

LEMMA HandledType == MessagesInv => \A c \in Conns : Handled(c) \in Seq(Messages)
BY DEF MessagesInv, Handled

LEMMA HandledSame ==
    ASSUME UNCHANGED <<messages, todo, fdOf, fds_>>, NEW c
    PROVE  Handled(c)' = Handled(c)
BY DEF Handled, OwnerOf, Current

LEMMA HandledNone ==
    ASSUME messages = <<>>, messages' = <<>>, NEW c
    PROVE  Handled(c)' = Handled(c) /\ Handled(c) = <<>>
BY DEF Handled

LEMMA WholeKeeps ==
    ASSUME NEW m \in Messages
    PROVE  [m EXCEPT !.whole = TRUE].kind = m.kind /\ [m EXCEPT !.whole = TRUE].id = m.id
<1>1. DOMAIN m = {"kind", "id", "whole"}
  BY DEF Messages, Blank, Intro, Request
<1> QED
  BY <1>1

\* A message finished is the message begun.
LEMMA FinishCompletes ==
    ASSUME SlotsInv, NEW c \in Conns, Finish(c)
    PROVE  /\ inbox[c] # <<>> /\ state[c] # "closed"
           /\ inbox'[c] \in Seq(Messages) /\ Len(inbox'[c]) = Len(inbox[c])
           /\ \A i \in 1..Len(inbox[c]) :
                /\ inbox'[c][i].kind = inbox[c][i].kind /\ inbox'[c][i].id = inbox[c][i].id
                /\ i # Len(inbox[c]) => inbox'[c][i] = inbox[c][i]
<1> DEFINE q == inbox[c]
           last == Len(q)
           done == [q[last] EXCEPT !.whole = TRUE]
<1>1. inbox \in [Conns -> Seq(Messages)] /\ inbox' \in [Conns -> Seq(Messages)]
  <2>1. SlotsInv'
    BY ClientSlots DEF ClientStep
  <2> QED
    BY <2>1 DEF SlotsInv, TypeOK
<1>2. q # <<>> /\ state[c] # "closed" /\ inbox' = [inbox EXCEPT ![c][last].whole = TRUE]
  BY DEF Finish, Midway
<1>3. q \in Seq(Messages) /\ last \in 1..Len(q) /\ q[last] \in Messages
  BY <1>1, <1>2
<1>4. inbox'[c] = [q EXCEPT ![last] = done]
  BY <1>1, <1>2
<1>5. done.kind = q[last].kind /\ done.id = q[last].id
  BY <1>3, WholeKeeps
<1> HIDE DEF done, last
<1>6. /\ Len(inbox'[c]) = Len(q) /\ inbox'[c][last] = done
      /\ \A i \in 1..Len(q) : i # last => inbox'[c][i] = q[i]
  BY <1>3, <1>4, <1>1
<1> QED
  BY <1>1, <1>2, <1>5, <1>6 DEF last

LEMMA OtherClients ==
    ASSUME SlotsInv, NEW c \in Conns, NEW e \in Conns, ClientStep(e)
    PROVE  /\ Handled(c)' = Handled(c)
           /\ UNCHANGED <<messages, pc, introduced, served>>
           /\ c # e => UNCHANGED <<inbox[c], state[c], sent[c]>>
<1>1. UNCHANGED <<messages, todo, fdOf, fds_, pc, introduced, served>>
  BY DEF ClientStep, Connect, Introduce, Ask, SendBlank, Finish, Close, Reset, Deliver, serverVars
<1>2. Handled(c)' = Handled(c)
  BY <1>1, HandledSame
<1>3. ASSUME c # e PROVE UNCHANGED <<inbox[c], state[c], sent[c]>>
  <2>1. /\ inbox \in [Conns -> Seq(Messages)] /\ sent \in [Conns -> 0..MaxRequests]
        /\ state \in [Conns -> {"new", "connected", "named", "blank", "closed", "reset"}]
    BY DEF SlotsInv, TypeOK
  <2>2. CASE Connect(e) \/ Close(e) \/ Reset(e)
    BY <1>3, <2>1, <2>2 DEF Connect, Close, Reset
  <2>3. CASE Introduce(e) \/ Ask(e) \/ SendBlank(e)
    <3>1. UNCHANGED <<state[c], sent[c]>>
      BY <1>3, <2>1, <2>3 DEF Introduce, Ask, SendBlank
    <3>2. \E m : Deliver(e, m)
      BY <2>3 DEF Introduce, Ask, SendBlank
    <3>3. UNCHANGED inbox[c]
      BY <1>3, <2>1, <3>2 DEF Deliver
    <3> QED
      BY <3>1, <3>3
  <2>4. CASE Finish(e)
    BY <1>3, <2>1, <2>4 DEF Finish, clientVars
  <2> QED
    BY <2>2, <2>3, <2>4 DEF ClientStep
<1> QED
  BY <1>1, <1>2, <1>3

\* What a client's own step does to what it has under way.
LEMMA OwnStep ==
    ASSUME SlotsInv, NEW c \in Conns, ClientStep(c)
    PROVE  \/ /\ state[c] = "new" /\ state'[c] = "connected" /\ UNCHANGED <<inbox[c], sent[c]>>
           \/ /\ state[c] = "connected" /\ c \notin Mute /\ state'[c] = "named" /\ UNCHANGED sent[c]
              /\ \E w \in BOOLEAN : inbox'[c] = Append(inbox[c], Intro(w)) /\ ~Midway(c)
           \/ /\ state[c] = IF c \in Mute THEN "connected" ELSE "named"
              /\ UNCHANGED state[c]
              /\ sent[c] + 1 \in 1..MaxRequests /\ sent'[c] = sent[c] + 1
              /\ \E w \in BOOLEAN : /\ inbox'[c] = Append(inbox[c], Request(sent[c] + 1, w))
                                    /\ ~Midway(c)
           \/ /\ state[c] = "named" /\ state'[c] = "blank" /\ UNCHANGED sent[c]
              /\ inbox'[c] = Append(inbox[c], Blank) /\ ~Midway(c)
           \/ Finish(c) /\ UNCHANGED <<state[c], sent[c]>>
           \/ /\ state[c] \notin {"new", "closed", "reset"} /\ UNCHANGED <<inbox[c], sent[c]>>
              /\ \/ state'[c] = "closed" /\ (Introducing(c) => c \in Hasty)
                 \/ state'[c] = "reset"
<1>1. /\ inbox \in [Conns -> Seq(Messages)] /\ sent \in [Conns -> 0..MaxRequests]
      /\ state \in [Conns -> {"new", "connected", "named", "blank", "closed", "reset"}]
  BY DEF SlotsInv, TypeOK
<1>2. CASE Connect(c)
  BY <1>1, <1>2 DEF Connect
<1>3. CASE Introduce(c)
  BY <1>1, <1>3 DEF Introduce, Deliver
<1>4. CASE Ask(c)
  <2>1. sent[c] + 1 \in 1..MaxRequests /\ sent'[c] = sent[c] + 1
    BY <1>1, <1>4, MaxRequestsAssumption DEF Ask
  <2> QED
    BY <1>1, <1>4, <2>1 DEF Ask, Deliver
<1>5. CASE SendBlank(c)
  BY <1>1, <1>5 DEF SendBlank, Deliver
<1>6. CASE Finish(c)
  BY <1>6 DEF Finish, clientVars
<1>7. CASE Close(c)
  BY <1>1, <1>7 DEF Close
<1>8. CASE Reset(c)
  BY <1>1, <1>8 DEF Reset
<1> QED
  BY <1>2, <1>3, <1>4, <1>5, <1>6, <1>7, <1>8 DEF ClientStep

LEMMA ClientFlow ==
    ASSUME SlotsInv, MessagesInv, NEW c \in Conns \ Mute, ClientStep(c), NEW d, Flow(c, d)
    PROVE  Flow(c, d)'
<1> DEFINE h == Handled(c)
           q == inbox[c]
<1>1. h \in Seq(Messages) /\ Handled(c)' = h /\ q \in Seq(Messages) /\ sent[c] \in Nat
  BY HandledType, OtherClients DEF SlotsInv, TypeOK
<1>2. FlowOf(h, q, state[c], sent[c], d)
  BY DEF Flow
<1>3. SUFFICES FlowOf(h, inbox'[c], state'[c], sent'[c], d)
  BY <1>1 DEF Flow
<1> HIDE DEF h
<1>4. CASE state[c] = "new" /\ state'[c] = "connected" /\ UNCHANGED <<inbox[c], sent[c]>>
  BY <1>2, <1>4 DEF FlowOf
<1>5. ASSUME state[c] = "connected", state'[c] = "named", UNCHANGED sent[c],
             NEW w \in BOOLEAN, inbox'[c] = Append(q, Intro(w))
      PROVE  FlowOf(h, inbox'[c], state'[c], sent'[c], d)
  <2>1. Intro(w) \in Messages /\ Numbered(Intro(w), 0)
    BY DEF Messages, Intro, Numbered
  <2> QED
    BY <1>1, <1>2, <1>5, <2>1, FlowGrows
<1>6. ASSUME state[c] = "named", UNCHANGED state[c],
             sent[c] + 1 \in 1..MaxRequests, sent'[c] = sent[c] + 1,
             NEW w \in BOOLEAN, inbox'[c] = Append(q, Request(sent[c] + 1, w))
      PROVE  FlowOf(h, inbox'[c], state'[c], sent'[c], d)
  <2>1. Request(sent[c] + 1, w) \in Messages
    BY <1>6 DEF Messages
  <2>2. Numbered(Request(sent[c] + 1, w), sent[c] + 1)
    BY <1>1 DEF Request, Numbered
  <2> QED
    BY <1>1, <1>2, <1>6, <2>1, <2>2, FlowGrows
<1>7. CASE /\ state[c] = "named" /\ state'[c] = "blank" /\ UNCHANGED sent[c]
           /\ inbox'[c] = Append(q, Blank)
  <2>1. Blank \in Messages /\ Blank.kind = "blank"
    BY DEF Messages, Blank
  <2> QED
    BY <1>1, <1>2, <1>7, <2>1, FlowGrows
<1>8. CASE Finish(c) /\ UNCHANGED <<state[c], sent[c]>>
  <2>1. /\ q # <<>> /\ Len(inbox'[c]) = Len(q)
        /\ \A i \in 1..Len(q) : inbox'[c][i].kind = q[i].kind /\ inbox'[c][i].id = q[i].id
    BY <1>8, FinishCompletes
  <2> HIDE DEF q
  <2>2. \A i \in 1..Len(q) : \A n : Numbered(q[i], n) => Numbered(inbox'[c][i], n)
    BY <2>1 DEF Numbered
  <2>3. \A i \in 1..Len(q) :
            \/ Numbered(inbox'[c][i], d + Len(h) + i)
            \/ inbox'[c][i].kind = "blank" /\ i = Len(q) /\ state[c] # "named"
    BY <1>2, <2>1, <2>2 DEF FlowOf
  <2> QED
    BY <1>2, <1>8, <2>1, <2>3 DEF FlowOf
<1>9. CASE /\ state[c] \notin {"new", "closed", "reset"} /\ UNCHANGED <<inbox[c], sent[c]>>
           /\ state'[c] \in {"closed", "reset"}
  <2>1. inbox'[c] = q /\ state'[c] \notin {"new", "connected", "named"}
    BY <1>9
  <2> HIDE DEF q
  <2> QED
    BY <1>2, <2>1 DEF FlowOf
<1> QED
  BY <1>4, <1>5, <1>6, <1>7, <1>8, <1>9, OwnStep

LEMMA ClientMute ==
    ASSUME SlotsInv, MessagesInv, NEW c \in Conns \cap Mute, ClientStep(c), MuteFlow(c)
    PROVE  MuteFlow(c)'
<1> DEFINE h == Handled(c)
           q == inbox[c]
<1>1. Handled(c)' = h /\ q \in Seq(Messages) /\ UNCHANGED introduced
  BY OtherClients DEF SlotsInv, TypeOK
<1>2. MuteOf(h, q, state[c]) /\ c \notin introduced
  BY DEF MuteFlow
<1>3. SUFFICES MuteOf(h, inbox'[c], state'[c])
  BY <1>1, <1>2 DEF MuteFlow
<1> HIDE DEF h
<1>4. CASE state'[c] \in {"connected", "closed", "reset"} /\ UNCHANGED inbox[c]
  BY <1>2, <1>4 DEF MuteOf
<1>5. ASSUME UNCHANGED state[c], NEW k, NEW w \in BOOLEAN, Request(k, w) \in Messages,
             inbox'[c] = Append(q, Request(k, w))
      PROVE  MuteOf(h, inbox'[c], state'[c])
  <2>1. /\ Len(inbox'[c]) = Len(q) + 1 /\ inbox'[c][Len(q) + 1] = Request(k, w)
        /\ \A i \in 1..Len(q) : inbox'[c][i] = q[i]
    BY <1>1, <1>5
  <2>2. Request(k, w).kind = "request"
    BY DEF Request
  <2>3. \A i \in 1..Len(q) + 1 : i \in 1..Len(q) \/ i = Len(q) + 1
    BY <1>1
  <2> QED
    BY <1>2, <1>5, <2>1, <2>2, <2>3 DEF MuteOf
<1>6. CASE Finish(c) /\ UNCHANGED state[c]
  BY <1>2, <1>6, FinishCompletes DEF MuteOf
<1>7. state[c] # "named"
  BY <1>2 DEF MuteOf
<1>8. \A k \in 1..MaxRequests, w \in BOOLEAN : Request(k, w) \in Messages
  BY DEF Messages
<1> QED
  BY <1>4, <1>5, <1>6, <1>7, <1>8, OwnStep

-----------------------------------------------------------------------------
(* The server's steps.                                                     *)

Quiet ==
    \/ run \/ launchServerFails \/ Poll \/ checkingSocketsOnNewConnect \/ NoContent
    \/ ReadFails \/ stop \/ Over \/ UNCHANGED vars

LEMMA QuietFlow ==
    ASSUME MessagesInv, Quiet
    PROVE  /\ MessagesInv'
           /\ \A c \in Conns : Handled(c)' = Handled(c)
           /\ UNCHANGED <<inbox, state, sent, introduced, served>>
<1>1. UNCHANGED <<messages, inbox, state, sent, introduced, served>>
  BY DEF Quiet, run, launchServerFails, Poll, checkingSocketsOnNewConnect, NoContent,
         ReadFails, stop, Over, vars, serverVars, clientVars
<1>2. CASE stop \/ Over \/ UNCHANGED vars
  <2>1. UNCHANGED <<messages, todo, fdOf, fds_, pc>>
    BY <1>2 DEF stop, Over, vars, serverVars
  <2> QED
    BY <1>1, <2>1, HandledSame DEF MessagesInv
<1>3. CASE run \/ launchServerFails \/ Poll \/ checkingSocketsOnNewConnect \/ NoContent \/ ReadFails
  <2>1. pc # "message" /\ pc' # "message"
    BY <1>3 DEF run, launchServerFails, Poll, checkingSocketsOnNewConnect, NoContent,
                ReadFails, Advance, AfterPass, NextSlot
  <2>2. messages = <<>> /\ messages' = <<>>
    BY <1>1, <2>1 DEF MessagesInv
  <2> QED
    BY <1>1, <2>1, <2>2, HandledNone DEF MessagesInv
<1> QED
  BY <1>2, <1>3 DEF Quiet

\* A read belongs to the owner of the slot, and nothing is split off before.
LEMMA ReadStep ==
    ASSUME SlotsInv, MessagesInv, ReadSlot, NEW c, c = OwnerOf(Current)
    PROVE  /\ c \in Conns /\ state[c] # "reset"
           /\ todo # {} /\ pc = "content" /\ UNCHANGED <<state, sent, introduced, served>>
           /\ \A e \in Conns : Handled(e) = <<>>
           /\ \A e \in Conns : e # c => Handled(e)' = <<>> /\ inbox'[e] = inbox[e]
           /\ Handled(c)' = messages'
           /\ \/ \E k \in Received(c) :
                   /\ messages' = split(SubSeq(inbox[c], 1, k))
                   /\ inbox'[c] = SubSeq(inbox[c], k + 1, Len(inbox[c]))
              \/ inbox[c] = <<>> /\ Hungup(c) /\ messages' = <<>> /\ inbox'[c] = inbox[c]
           /\ pc' = "message" <=> messages' # <<>>
<1>1. pc = "content" /\ todo # {} /\ UNCHANGED <<state, sent, introduced, served>>
  BY DEF ReadSlot, clientVars
<1>2. c \in Conns
  BY <1>1, CurrentOwner
<1>3. messages = <<>> /\ \A e \in Conns : Handled(e) = <<>>
  BY <1>1 DEF MessagesInv, Handled
<1>4. messages' # <<>> => pc' = "message" /\ c = OwnerOf(Current)'
  BY DEF ReadSlot, OwnerOf, Current
<1>5. messages' = <<>> => pc' # "message"
  BY DEF ReadSlot, Advance, AfterPass
<1>6. Handled(c)' = messages' /\ \A e \in Conns : e # c => Handled(e)' = <<>>
  BY <1>4 DEF Handled
<1>7. inbox \in [Conns -> Seq(Messages)]
  BY DEF SlotsInv, TypeOK
<1>8. /\ state[c] # "reset"
      /\ \/ \E k \in Received(c) :
              /\ inbox' = [inbox EXCEPT ![c] = SubSeq(inbox[c], k + 1, Len(inbox[c]))]
              /\ messages' = split(SubSeq(inbox[c], 1, k))
         \/ inbox[c] = <<>> /\ Hungup(c) /\ messages' = <<>> /\ UNCHANGED inbox
  BY DEF ReadSlot
<1>9. \A e \in Conns : e # c => inbox'[e] = inbox[e]
  BY <1>7, <1>8
<1>10. \/ \E k \in Received(c) :
           /\ messages' = split(SubSeq(inbox[c], 1, k))
           /\ inbox'[c] = SubSeq(inbox[c], k + 1, Len(inbox[c]))
       \/ inbox[c] = <<>> /\ Hungup(c) /\ messages' = <<>> /\ inbox'[c] = inbox[c]
  BY <1>2, <1>7, <1>8
<1> QED
  BY <1>1, <1>2, <1>3, <1>4, <1>5, <1>6, <1>8, <1>9, <1>10

LEMMA ReadFlow ==
    ASSUME SlotsInv, MessagesInv, ReadSlot, NEW c \in Conns \ Mute, NEW d, Flow(c, d)
    PROVE  Flow(c, d)' /\ Handled(c)' \in Seq(Messages)
<1> DEFINE q == inbox[c]
<1>1. q \in Seq(Messages) /\ UNCHANGED <<state, sent>>
  BY ReadStep DEF SlotsInv, TypeOK
<1>2. FlowOf(<<>>, q, state[c], sent[c], d)
  BY ReadStep DEF Flow
<1>3. CASE Handled(c)' = <<>> /\ inbox'[c] = q
  BY <1>1, <1>2, <1>3 DEF Flow
<1>4. ASSUME NEW k \in Received(c), Handled(c)' = split(SubSeq(q, 1, k)),
             inbox'[c] = SubSeq(q, k + 1, Len(q))
      PROVE  Flow(c, d)' /\ Handled(c)' \in Seq(Messages)
  <2>1. k \in 1..Len(q)
    BY DEF Received
  <2>2. FlowOf(split(SubSeq(q, 1, k)), SubSeq(q, k + 1, Len(q)), state[c], sent[c], d)
    BY <1>1, <1>2, <2>1, FlowRead
  <2>3. split(SubSeq(q, 1, k)) \in Seq(Messages)
    BY <1>1, <1>2, <2>1, FlowRead
  <2> QED
    BY <1>1, <1>4, <2>2, <2>3 DEF Flow
<1>5. CASE c # OwnerOf(Current)
  BY <1>3, <1>5, ReadStep
<1>6. CASE c = OwnerOf(Current)
  <2>1. /\ Handled(c)' = messages'
        /\ \/ \E k \in Received(c) :
                /\ messages' = split(SubSeq(q, 1, k))
                /\ inbox'[c] = SubSeq(q, k + 1, Len(q))
           \/ messages' = <<>> /\ inbox'[c] = q
    BY <1>6, ReadStep
  <2> QED
    BY <1>3, <1>4, <2>1
<1> QED
  BY <1>5, <1>6

LEMMA ReadMute ==
    ASSUME SlotsInv, MessagesInv, ReadSlot, NEW c \in Conns \cap Mute, MuteFlow(c)
    PROVE  MuteFlow(c)' /\ Handled(c)' \in Seq(Messages)
<1> DEFINE q == inbox[c]
<1>1. q \in Seq(Messages) /\ UNCHANGED <<state, introduced>>
  BY ReadStep DEF SlotsInv, TypeOK
<1>2. MuteOf(<<>>, q, state[c]) /\ c \notin introduced
  BY ReadStep DEF MuteFlow
<1>3. CASE Handled(c)' = <<>> /\ inbox'[c] = q
  BY <1>1, <1>2, <1>3 DEF MuteFlow
<1>4. ASSUME NEW k \in Received(c), Handled(c)' = split(SubSeq(q, 1, k)),
             inbox'[c] = SubSeq(q, k + 1, Len(q))
      PROVE  MuteFlow(c)' /\ Handled(c)' \in Seq(Messages)
  <2> DEFINE data == SubSeq(q, 1, k)
             rest == SubSeq(q, k + 1, Len(q))
  <2>1. /\ k \in 1..Len(q) /\ data \in Seq(Messages) /\ Len(data) = k
        /\ \A i \in 1..k : data[i] = q[i]
        /\ Len(rest) = Len(q) - k /\ \A i \in 1..Len(q) - k : rest[i] = q[k + i]
    BY <1>1 DEF Received
  <2>2. \A i \in 1..Len(q) : q[i].kind = "request"
    BY <1>2 DEF MuteOf
  <2>3. data # <<>> /\ \A i \in 1..Len(data) : data[i].kind = "request"
    BY <2>1, <2>2
  <2> HIDE DEF data
  <2>4. Pieces(data) \in 0..k /\ split(data) \in Seq(Messages) /\ Len(split(data)) = Pieces(data)
        /\ \A i \in 1..Pieces(data) : split(data)[i] = data[i]
    BY <2>1, <2>3, SplitKeeps
  <2>5. \A i \in 1..Len(split(data)) : split(data)[i].kind = "request"
    BY <2>1, <2>3, <2>4
  <2>6. \A i \in 1..Len(rest) : rest[i].kind = "request"
    BY <2>1, <2>2
  <2>7. MuteOf(split(data), rest, state[c])
    BY <1>2, <2>5, <2>6 DEF MuteOf
  <2> QED
    BY <1>1, <1>2, <1>4, <2>4, <2>7 DEF MuteFlow, data
<1>5. CASE c # OwnerOf(Current)
  BY <1>3, <1>5, ReadStep
<1>6. CASE c = OwnerOf(Current)
  <2>1. /\ Handled(c)' = messages'
        /\ \/ \E k \in Received(c) :
                /\ messages' = split(SubSeq(q, 1, k))
                /\ inbox'[c] = SubSeq(q, k + 1, Len(q))
           \/ messages' = <<>> /\ inbox'[c] = q
    BY <1>6, ReadStep
  <2> QED
    BY <1>3, <1>4, <2>1
<1> QED
  BY <1>5, <1>6

\* A message handled is the first of those split off, and its owner's.
LEMMA HandleStep ==
    ASSUME SlotsInv, MessagesInv, HandleMessage, NEW c, c = OwnerOf(Current)
    PROVE  /\ c \in Conns /\ todo # {} /\ pc = "message"
           /\ UNCHANGED <<inbox, state, sent>> /\ MessagesInv'
           /\ messages # <<>> /\ messages \in Seq(Messages)
           /\ Handled(c) = messages /\ Handled(c)' = Tail(messages)
           /\ \A e \in Conns : e # c => Handled(e)' = <<>> /\ Handled(e) = <<>>
<1>1. pc = "message" /\ UNCHANGED <<inbox, state, sent, fdOf, fds_>> /\ messages' = Tail(messages)
  BY DEF HandleMessage, clientVars
<1>2. messages # <<>> /\ messages \in Seq(Messages) /\ messages' \in Seq(Messages)
  BY <1>1 DEF MessagesInv
<1>3. todo # {} /\ c \in Conns
  BY <1>1, CurrentOwner DEF SlotsInv, StillReady
<1>4. messages' # <<>> => pc' = "message" /\ c = OwnerOf(Current)'
  BY <1>1 DEF HandleMessage, OwnerOf, Current
<1>5. messages' = <<>> => pc' # "message"
  BY DEF HandleMessage, Advance, AfterPass
<1>6. MessagesInv'
  BY <1>2, <1>4, <1>5 DEF MessagesInv
<1>7. /\ Handled(c) = messages /\ Handled(c)' = messages'
      /\ \A e \in Conns : e # c => Handled(e)' = <<>> /\ Handled(e) = <<>>
  BY <1>2, <1>4 DEF Handled
<1> QED
  BY <1>1, <1>2, <1>3, <1>6, <1>7

-----------------------------------------------------------------------------
(* What has been handed to the core.                                       *)

Calls(c) == {j \in DOMAIN served : served[j].conn = c /\ served[j].kind = "request"}
ServedIds(c) == {served[j].id : j \in Calls(c)}

\* With d the last message handled: nothing yet, or the introduction, whether
\* or not the server took it for one, and the requests up to d.
Taken(c, d) ==
    IF d = -1 THEN c \notin introduced /\ ServedIds(c) = {}
              ELSE c \in introduced => ServedIds(c) = 1..d

LEMMA ServedGrows ==
    ASSUME ServedIsSeq, NEW r, served' = Append(served, r), NEW n, n = Len(served) + 1
    PROVE  /\ DOMAIN served' = DOMAIN served \cup {n} /\ served'[n] = r
           /\ \A k \in DOMAIN served : served'[k] = served[k] /\ (InTurn(k) => InTurn(k)')
           /\ ServedIds(r.conn) = 1..r.id - 1 => InTurn(n)'
           /\ \A c : ServedIds(c)' =
                IF r.conn = c /\ r.kind = "request" THEN ServedIds(c) \cup {r.id} ELSE ServedIds(c)
<1>1. /\ n \in Nat /\ n - 1 \in Nat /\ DOMAIN served = 1..n - 1 /\ DOMAIN served' = 1..n
      /\ served'[n] = r /\ \A k \in 1..n - 1 : served'[k] = served[k]
  <2>1. served' \in Seq(Range(served')) /\ served \in Seq(Range(served))
    BY AppendGrows DEF ServedIsSeq
  <2>2. /\ \A k \in DOMAIN served' : k \in DOMAIN served \/ k = n
        /\ \A k \in DOMAIN served : served'[k] = served[k]
        /\ served'[n] = r
    BY AppendGrows DEF ServedIsSeq
  <2>3. n \in Nat /\ n - 1 \in Nat /\ DOMAIN served = 1..n - 1
    BY <2>1
  <2>4. Len(served') = n
    <3> DEFINE S == Range(served) \cup {r}
    <3>1. Range(served) \subseteq S /\ r \in S
      OBVIOUS
    <3> HIDE DEF S
    <3>2. served \in Seq(S)
      BY <2>1, <3>1, SeqMonotonic
    <3> QED
      BY <3>1, <3>2, AppendProperties
  <2> QED
    BY <2>1, <2>2, <2>3, <2>4
<1>2. DOMAIN served' = DOMAIN served \cup {n}
  BY <1>1
<1>3. ASSUME NEW k \in DOMAIN served, InTurn(k)
      PROVE  InTurn(k)'
  <2>1. 1..k - 1 \subseteq 1..n - 1 /\ k \in 1..n - 1
    BY <1>1
  <2>2. Before(k)' = Before(k)
    BY <1>1, <2>1 DEF Before
  <2>3. \A j \in Before(k) : j \in 1..n - 1
    BY <2>1 DEF Before
  <2>4. {served'[j].id : j \in Before(k)} = {served[j].id : j \in Before(k)}
    BY <1>1, <2>3
  <2> QED
    BY <1>1, <1>3, <2>1, <2>2, <2>4 DEF InTurn
<1>4. ASSUME ServedIds(r.conn) = 1..r.id - 1
      PROVE  InTurn(n)'
  <2>2. Before(n)' = Calls(r.conn)
    BY <1>1 DEF Before, Calls
  <2>3. \A j \in Calls(r.conn) : served'[j] = served[j]
    BY <1>1 DEF Calls
  <2>4. {served'[j].id : j \in Calls(r.conn)} = ServedIds(r.conn)
    BY <2>3 DEF ServedIds
  <2> QED
    BY <1>1, <1>4, <2>2, <2>4 DEF InTurn
<1>5. ASSUME NEW c
      PROVE  ServedIds(c)' =
                IF r.conn = c /\ r.kind = "request" THEN ServedIds(c) \cup {r.id} ELSE ServedIds(c)
  <2>1. Calls(c)' = Calls(c) \cup IF r.conn = c /\ r.kind = "request" THEN {n} ELSE {}
    BY <1>1, <1>2 DEF Calls
  <2>2. \A j \in Calls(c) : served'[j] = served[j]
    BY <1>1 DEF Calls
  <2>3. CASE r.conn = c /\ r.kind = "request"
    <3>1. ServedIds(c)' = {served'[j].id : j \in Calls(c) \cup {n}}
      BY <2>1, <2>3 DEF ServedIds
    <3>2. {served'[j].id : j \in Calls(c) \cup {n}} = {served'[j].id : j \in Calls(c)} \cup {served'[n].id}
      OBVIOUS
    <3>3. {served'[j].id : j \in Calls(c)} = ServedIds(c)
      BY <2>2 DEF ServedIds
    <3> QED
      BY <1>1, <2>3, <3>1, <3>2, <3>3
  <2>4. CASE ~(r.conn = c /\ r.kind = "request")
    BY <2>1, <2>2, <2>4 DEF ServedIds
  <2> QED
    BY <2>3, <2>4
<1> QED
  BY <1>1, <1>2, <1>3, <1>4, <1>5

\* What a message does: it is handed over, or taken for the introduction, or
\* dropped.
LEMMA HandleOutcome ==
    ASSUME NamesInv, HandleMessage, NEW c, c = OwnerOf(Current), NEW m, m = Head(messages)
    PROVE  /\ c \in Conns /\ fdOf[c] = fds_[Current] /\ IsOpen(c)
           /\ \/ /\ fdOf[c] \in DOMAIN clients_name_
                 /\ UNCHANGED <<clients_name_, introduced>>
                 /\ \E r : /\ served' = Append(served, r)
                          /\ r.conn = c /\ r.kind = m.kind /\ r.id = m.id
                          /\ r.name = clients_name_[fdOf[c]]
              \/ /\ fdOf[c] \notin DOMAIN clients_name_ /\ m.kind = "intro" /\ m.whole
                 /\ clients_name_' = With(fdOf[c], NameOf[c], clients_name_)
                 /\ introduced' = introduced \cup {c} /\ UNCHANGED served
              \/ /\ fdOf[c] \notin DOMAIN clients_name_ /\ ~(m.kind = "intro" /\ m.whole)
                 /\ UNCHANGED <<clients_name_, introduced, served>>
<1>1. pc = "message" /\ todo # {}
  BY DEF HandleMessage, NamesInv, SlotsInv, StillReady
<1>2. c \in Conns /\ fdOf[c] = fds_[Current] /\ fdOf[c] \in Fds
  BY <1>1, CurrentOwner DEF NamesInv
<1>3. IsOpen(c)
  BY <1>2, NoFdIsNone DEF IsOpen
<1>4. CASE fdOf[c] \in DOMAIN clients_name_
  <2> DEFINE r == [conn |-> c, name |-> clients_name_[fdOf[c]],
                   kind |-> m.kind, id |-> m.id, whole |-> m.whole]
  <2>1. served' = Append(served, r) /\ UNCHANGED <<clients_name_, introduced>>
    BY <1>2, <1>4 DEF HandleMessage
  <2>2. r.conn = c /\ r.kind = m.kind /\ r.id = m.id /\ r.name = clients_name_[fdOf[c]]
    OBVIOUS
  <2> HIDE DEF r
  <2> QED
    BY <1>2, <1>3, <1>4, <2>1, <2>2
<1>5. CASE fdOf[c] \notin DOMAIN clients_name_
  BY <1>2, <1>3, <1>5, Zenon DEF HandleMessage
<1> QED
  BY <1>4, <1>5

-----------------------------------------------------------------------------
(* Rude clients about.                                                     *)

FlowInv ==
    /\ MessagesInv
    /\ \A c \in Conns \cap Mute : MuteFlow(c)
    /\ \A c \in Conns \ Mute : \E d : Flow(c, d) /\ Taken(c, d)

OrderInv == NamesInv /\ FlowInv /\ RequestsInOrder

\* The step that hands over a message moves its client's flow on by one.
LEMMA HandleFlow ==
    ASSUME NamesInv, MessagesInv, HandleMessage, NEW c \in Conns \ Mute,
           NEW d, Flow(c, d), Taken(c, d)
    PROVE  /\ c = OwnerOf(Current) =>
                Flow(c, d + 1)' /\ Taken(c, d + 1)' /\ Numbered(Head(messages), d + 1)
           /\ c # OwnerOf(Current) => Flow(c, d)' /\ Taken(c, d)'
<1>1. d \in Int /\ d >= -1 /\ inbox[c] \in Seq(Messages)
  BY DEF Flow, FlowOf, NamesInv, SlotsInv, TypeOK
<1> DEFINE m == Head(messages)
<1>2. CASE c # OwnerOf(Current)
  <2>1. Flow(c, d)'
    BY <1>2, HandleStep DEF Flow, NamesInv
  <2>2. PICK o : o = OwnerOf(Current)
    OBVIOUS
  <2>3. UNCHANGED served \/ \E r : served' = Append(served, r) /\ r.conn = o
    BY <2>2, HandleOutcome
  <2>4. ServedIds(c)' = ServedIds(c)
    <3>1. ASSUME NEW r, served' = Append(served, r), r.conn = o
          PROVE  ServedIds(c)' = ServedIds(c)
      BY <1>2, <2>2, <3>1, ServedGrows DEF NamesInv
    <3>2. ASSUME UNCHANGED served PROVE ServedIds(c)' = ServedIds(c)
      BY <3>2 DEF ServedIds, Calls
    <3> QED
      BY <2>3, <3>1, <3>2
  <2>5. c \in introduced' <=> c \in introduced
    BY <1>2, <2>2, HandleOutcome
  <2>6. Taken(c, d)'
    BY <2>4, <2>5 DEF Taken
  <2> QED
    BY <1>2, <2>1, <2>6
<1>3. CASE c = OwnerOf(Current)
  <2>1. /\ messages # <<>> /\ messages \in Seq(Messages)
        /\ Handled(c) = messages /\ Handled(c)' = Tail(messages)
        /\ UNCHANGED <<inbox, state, sent>>
    BY <1>3, HandleStep DEF NamesInv
  <2>2. FlowOf(messages, inbox[c], state[c], sent[c], d)
    BY <2>1 DEF Flow
  <2>3. FlowOf(Tail(messages), inbox[c], state[c], sent[c], d + 1) /\ Numbered(m, d + 1)
    BY <1>1, <2>1, <2>2, FlowHandle
  <2>4. Flow(c, d + 1)'
    BY <2>1, <2>3 DEF Flow
  <2>5. d + 1 # -1 /\ (m.kind = "intro" => d = -1)
    BY <1>1, <2>3 DEF Numbered
  <2> HIDE DEF m
  <2>6. SUFFICES ASSUME c \in introduced' PROVE ServedIds(c)' = 1..d + 1
    BY <1>3, <2>3, <2>4, <2>5 DEF Taken, m
  <2>7. ASSUME NEW r, served' = Append(served, r), r.conn = c, r.kind = m.kind, r.id = m.id,
               UNCHANGED introduced
        PROVE  ServedIds(c)' = 1..d + 1
    <3>1. c \in introduced /\ d # -1 /\ ServedIds(c) = 1..d
      BY <2>6, <2>7 DEF Taken
    <3>2. m.kind = "request" /\ m.id = d + 1
      BY <1>1, <2>3, <3>1 DEF Numbered
    <3>3. ServedIds(c)' = ServedIds(c) \cup {r.id}
      BY <2>7, <3>2, ServedGrows DEF NamesInv
    <3>4. r.id = d + 1
      BY <2>7, <3>2
    <3> QED
      BY <1>1, <3>1, <3>3, <3>4
  <2>8. ASSUME m.kind = "intro", UNCHANGED served
        PROVE  ServedIds(c)' = 1..d + 1
    <3>1. d = -1 /\ ServedIds(c) = {}
      BY <2>5, <2>8 DEF Taken
    <3>2. ServedIds(c)' = {}
      BY <2>8, <3>1 DEF ServedIds, Calls
    <3> QED
      BY <3>1, <3>2
  <2>9. ASSUME fdOf[c] \notin DOMAIN clients_name_, UNCHANGED introduced
        PROVE  FALSE
    <3>1. c \in introduced /\ IsOpen(c)
      BY <1>3, <2>6, <2>9, HandleOutcome
    <3> QED
      BY <2>9, <3>1 DEF NamesInv, IntroducedIsKnown
  <2> QED
    BY <1>3, <2>7, <2>8, <2>9, HandleOutcome DEF m
<1> QED
  BY <1>2, <1>3

LEMMA HandleMute ==
    ASSUME NamesInv, MessagesInv, HandleMessage, NEW c \in Conns \cap Mute, MuteFlow(c)
    PROVE  MuteFlow(c)' /\ (c = OwnerOf(Current) => Head(messages).kind = "request")
<1>1. MuteOf(Handled(c), inbox[c], state[c]) /\ c \notin introduced
  BY DEF MuteFlow
<1>2. PICK o : o = OwnerOf(Current)
  OBVIOUS
<1>3. CASE c # o
  <2>1. UNCHANGED <<Handled(c), inbox, state>>
    BY <1>2, <1>3, HandleStep DEF NamesInv
  <2>2. c \notin introduced'
    BY <1>1, <1>2, <1>3, HandleOutcome
  <2> QED
    BY <1>1, <1>2, <1>3, <2>1, <2>2 DEF MuteFlow
<1>4. CASE c = o
  <2>1. /\ messages # <<>> /\ messages \in Seq(Messages)
        /\ Handled(c) = messages /\ Handled(c)' = Tail(messages)
        /\ UNCHANGED <<inbox, state>>
    BY <1>2, <1>4, HandleStep DEF NamesInv
  <2>2. \A i \in 1..Len(messages) : messages[i].kind = "request"
    BY <1>1, <2>1 DEF MuteOf
  <2>3. /\ Head(messages).kind = "request"
        /\ \A i \in 1..Len(Tail(messages)) : Tail(messages)[i].kind = "request"
    BY <2>1, <2>2
  <2>4. c \notin introduced'
    BY <1>1, <1>2, <1>4, <2>3, HandleOutcome
  <2> QED
    BY <1>1, <2>1, <2>3, <2>4 DEF MuteFlow, MuteOf
<1> QED
  BY <1>2, <1>3, <1>4

\* The call just made is the next in its client's turn.
LEMMA HandleInTurn ==
    ASSUME OrderInv, HandleMessage
    PROVE  RequestsInOrder'
<1> DEFINE m == Head(messages)
<1>1. PICK c : c = OwnerOf(Current)
  OBVIOUS
<1>2. c \in Conns
  BY <1>1, HandleOutcome DEF OrderInv
<1> HIDE DEF m
<1>3. ASSUME NEW r, served' = Append(served, r), r.conn = c, r.kind = m.kind, r.id = m.id,
             UNCHANGED introduced
      PROVE  RequestsInOrder'
  <2>1. PICK n : n = Len(served) + 1
    OBVIOUS
  <2>2. /\ DOMAIN served' = DOMAIN served \cup {n} /\ served'[n] = r
        /\ \A k \in DOMAIN served : served'[k] = served[k] /\ (InTurn(k) => InTurn(k)')
        /\ ServedIds(r.conn) = 1..r.id - 1 => InTurn(n)'
    BY <1>3, <2>1, ServedGrows DEF OrderInv, NamesInv
  <2>3. ASSUME r.kind = "request", c \in introduced PROVE InTurn(n)'
    <3>1. c \notin Mute
      BY <1>2, <2>3 DEF OrderInv, FlowInv, MuteFlow
    <3>2. PICK d : Flow(c, d) /\ Taken(c, d)
      BY <1>2, <3>1 DEF OrderInv, FlowInv
    <3>3. Numbered(m, d + 1)
      BY <1>1, <1>2, <3>1, <3>2, HandleFlow DEF OrderInv, FlowInv, m
    <3>4. d \in Int /\ ServedIds(c) = 1..d
      BY <2>3, <3>2 DEF Taken, Flow, FlowOf
    <3>5. r.id - 1 = d
      BY <1>3, <3>3, <3>4 DEF Numbered
    <3> QED
      BY <1>3, <2>2, <3>4, <3>5
  <2>4. \A k \in DOMAIN served :
            served[k].kind = "request" /\ served[k].conn \in introduced => InTurn(k)
    BY DEF OrderInv, RequestsInOrder
  <2>5. ASSUME NEW k \in DOMAIN served', served'[k].kind = "request",
               served'[k].conn \in introduced'
        PROVE  InTurn(k)'
    <3>1. CASE k \in DOMAIN served
      BY <1>3, <2>2, <2>4, <2>5, <3>1
    <3>2. CASE k = n
      BY <1>3, <2>2, <2>3, <2>5, <3>2
    <3> QED
      BY <2>2, <3>1, <3>2
  <2> QED
    BY <2>5 DEF RequestsInOrder
<1>4. ASSUME UNCHANGED served,
             UNCHANGED introduced \/ (m.kind = "intro" /\ introduced' = introduced \cup {c})
      PROVE  RequestsInOrder'
  <2>1. ASSUME NEW k \in DOMAIN served, served[k].kind = "request", served[k].conn \in introduced'
        PROVE  served[k].conn \in introduced
    <3>1. SUFFICES ASSUME served[k].conn = c, m.kind = "intro" PROVE FALSE
      BY <1>4, <2>1
    <3>2. c \notin Mute
      BY <1>1, <1>2, <3>1, HandleMute DEF OrderInv, FlowInv, m
    <3>3. PICK d : Flow(c, d) /\ Taken(c, d)
      BY <1>2, <3>2 DEF OrderInv, FlowInv
    <3>4. Numbered(m, d + 1) /\ d \in Int
      BY <1>1, <1>2, <3>2, <3>3, HandleFlow DEF OrderInv, FlowInv, m, Flow, FlowOf
    <3>5. d = -1
      BY <3>1, <3>4 DEF Numbered
    <3>6. ServedIds(c) = {}
      BY <3>3, <3>5 DEF Taken
    <3>7. k \in Calls(c)
      BY <2>1, <3>1 DEF Calls
    <3> QED
      BY <3>6, <3>7 DEF ServedIds
  <2>2. \A k : InTurn(k)' <=> InTurn(k)
    BY <1>4 DEF InTurn, Before
  <2> QED
    BY <1>4, <2>1, <2>2 DEF OrderInv, RequestsInOrder
<1> QED
  BY <1>1, <1>3, <1>4, HandleOutcome DEF OrderInv, m

LEMMA OrderInit == Init => OrderInv
<1> SUFFICES ASSUME Init PROVE OrderInv
  OBVIOUS
<1>1. DOMAIN served = {} /\ introduced = {} /\ \A c \in Conns : ServedIds(c) = {}
  BY DEF Init, ServedIds, Calls
<1>2. /\ messages = <<>> /\ pc # "message"
      /\ \A c \in Conns : inbox[c] = <<>> /\ state[c] = "new" /\ sent[c] = 0
      /\ \A c \in Conns : Handled(c) = <<>>
  BY DEF Init, Handled
<1>3. \A c \in Conns : Flow(c, -1) /\ Taken(c, -1)
  BY <1>1, <1>2 DEF Flow, FlowOf, Taken
<1>4. \A c \in Conns : MuteFlow(c)
  BY <1>1, <1>2 DEF MuteFlow, MuteOf
<1>5. MessagesInv /\ RequestsInOrder
  BY <1>1, <1>2 DEF MessagesInv, RequestsInOrder
<1> QED
  BY <1>3, <1>4, <1>5, NamesInit DEF OrderInv, FlowInv

\* Every other step keeps what has been handled of each client's flow.
LEMMA KeepFlow ==
    ASSUME NamesInv, MessagesInv, [Next]_vars, ~HandleMessage
    PROVE  /\ UNCHANGED <<introduced, served>>
           /\ \A c \in Conns \ Mute : \A d : Flow(c, d) => Flow(c, d)'
           /\ \A c \in Conns \cap Mute : MuteFlow(c) => MuteFlow(c)'
<1>1. SlotsInv
  BY DEF NamesInv
<1>2. CASE Quiet
  <2>1. UNCHANGED <<inbox, state, sent, introduced, served>> /\ \A c \in Conns : Handled(c)' = Handled(c)
    BY <1>2, QuietFlow
  <2> QED
    BY <2>1 DEF Flow, MuteFlow
<1>3. CASE ReadSlot
  <2>1. UNCHANGED <<introduced, served>>
    BY <1>3 DEF ReadSlot
  <2> QED
    BY <1>1, <1>3, <2>1, ReadFlow, ReadMute
<1>4. ASSUME NEW e \in Conns, ClientStep(e)
      PROVE  /\ UNCHANGED <<introduced, served>>
             /\ \A c \in Conns \ Mute : \A d : Flow(c, d) => Flow(c, d)'
             /\ \A c \in Conns \cap Mute : MuteFlow(c) => MuteFlow(c)'
  <2>1. UNCHANGED <<introduced, served>>
    BY <1>1, <1>4, OtherClients
  <2>2. ASSUME NEW c \in Conns, c # e
        PROVE  UNCHANGED <<Handled(c), inbox[c], state[c], sent[c]>>
    BY <1>1, <1>4, <2>2, OtherClients
  <2>3. ASSUME NEW c \in Conns \ Mute, NEW d, Flow(c, d) PROVE Flow(c, d)'
    BY <1>1, <1>4, <2>2, <2>3, ClientFlow DEF Flow
  <2>4. ASSUME NEW c \in Conns \cap Mute, MuteFlow(c) PROVE MuteFlow(c)'
    BY <1>1, <1>4, <2>1, <2>2, <2>4, ClientMute DEF MuteFlow
  <2> QED
    BY <2>1, <2>3, <2>4
<1> QED
  BY <1>2, <1>3, <1>4 DEF Next, ServerStep, Quiet

LEMMA MessagesStep ==
    ASSUME NamesInv, FlowInv, [Next]_vars
    PROVE  MessagesInv'
<1>1. SlotsInv /\ MessagesInv
  BY DEF NamesInv, FlowInv
<1>2. CASE Quiet
  BY <1>1, <1>2, QuietFlow
<1>3. CASE ReadSlot
  <2>1. PICK c : c = OwnerOf(Current)
    OBVIOUS
  <2>2. c \in Conns /\ Handled(c)' = messages' /\ (pc' = "message" <=> messages' # <<>>)
    BY <1>1, <1>3, <2>1, ReadStep
  <2>3. Handled(c)' \in Seq(Messages)
    BY <1>1, <1>3, <2>2, ReadFlow, ReadMute DEF FlowInv
  <2> QED
    BY <2>2, <2>3 DEF MessagesInv
<1>4. CASE HandleMessage
  BY <1>1, <1>4, HandleStep
<1>5. ASSUME NEW e \in Conns, ClientStep(e) PROVE MessagesInv'
  BY <1>1, <1>5, OtherClients DEF MessagesInv
<1> QED
  BY <1>2, <1>3, <1>4, <1>5 DEF Next, ServerStep, Quiet

LEMMA OrderStep ==
    ASSUME OwnNames, OrderInv, [Next]_vars
    PROVE  OrderInv'
<1>1. NamesInv' /\ MessagesInv'
  BY NamesStep, MessagesStep DEF OrderInv
<1>2. NamesInv /\ MessagesInv
  BY DEF OrderInv, FlowInv
<1>3. CASE HandleMessage
  <2>1. \A c \in Conns \cap Mute : MuteFlow(c)'
    BY <1>2, <1>3, HandleMute DEF OrderInv, FlowInv
  <2>2. ASSUME NEW c \in Conns \ Mute PROVE \E d : Flow(c, d)' /\ Taken(c, d)'
    <3>1. PICK d : Flow(c, d) /\ Taken(c, d)
      BY DEF OrderInv, FlowInv
    <3> QED
      BY <1>2, <1>3, <3>1, HandleFlow
  <2> QED
    BY <1>1, <1>3, <2>1, <2>2, HandleInTurn DEF OrderInv, FlowInv
<1>4. CASE ~HandleMessage
  <2>1. /\ UNCHANGED <<introduced, served>>
        /\ \A c \in Conns \ Mute : \A d : Flow(c, d) => Flow(c, d)'
        /\ \A c \in Conns \cap Mute : MuteFlow(c) => MuteFlow(c)'
    BY <1>2, <1>4, KeepFlow
  <2>2. \A c, d : Taken(c, d)' <=> Taken(c, d)
    BY <2>1 DEF Taken, ServedIds, Calls
  <2>3. RequestsInOrder'
    BY <2>1 DEF OrderInv, RequestsInOrder, InTurn, Before
  <2>4. FlowInv'
    BY <1>1, <2>1, <2>2 DEF OrderInv, FlowInv
  <2> QED
    BY <1>1, <2>3, <2>4 DEF OrderInv
<1> QED
  BY <1>3, <1>4

(***************************************************************************)
(* However the messages of a client whose introduction was taken are cut,  *)
(* glued together or followed by a close, and whatever rude clients do:    *)
(* its requests reach the core in the order sent, none skipped and none    *)
(* twice, while no two connections use one name.                           *)
(***************************************************************************)
THEOREM InOrder ==
    ASSUME OwnNames
    PROVE  Safety => []RequestsInOrder
<1>1. OrderInv => RequestsInOrder
  BY DEF OrderInv
<1>2. OrderInv /\ [Next]_vars => OrderInv'
  BY OrderStep
<1> QED
  BY <1>1, <1>2, OrderInit, PTL DEF Safety

-----------------------------------------------------------------------------
(* Polite clients: each introduces itself, and closes no earlier than that. *)

Politeness == Mute = {} /\ Hasty = {}

\* As long as nothing of a client has been handled its introduction is under
\* way, in front and whole by the time it is read.
PoliteOf(h, q, st, d) ==
    /\ d = -1 /\ st \in {"named", "blank", "closed"} =>
        h # <<>> \/ (q # <<>> /\ q[1].kind = "intro")
    /\ \A i \in 1..Len(h) : h[i].kind = "intro" => h[i].whole
    /\ \A i \in 1..Len(q) : i < Len(q) => q[i].whole
    /\ st = "closed" => \A i \in 1..Len(q) : q[i].kind = "intro" => q[i].whole

Polite(c, d) ==
    /\ PoliteOf(Handled(c), inbox[c], state[c], d)
    /\ c \notin introduced => d = -1

KnownHasIntroduced ==
    \A f \in DOMAIN clients_name_ :
        \E c \in introduced : fdOf[c] = f /\ clients_name_[f] = NameOf[c]

ServedKnown ==
    \A k \in DOMAIN served :
        /\ served[k].kind = "request" /\ served[k].name = NameOf[served[k].conn]
        /\ served[k].conn \in introduced

PoliteInv ==
    /\ OrderInv
    /\ KnownHasIntroduced
    /\ ServedKnown
    /\ \A c \in Conns : \E d : Flow(c, d) /\ Taken(c, d) /\ Polite(c, d)

LEMMA AppendAtEnd ==
    ASSUME NEW q \in Seq(Messages), NEW m \in Messages
    PROVE  /\ Len(q) \in Nat /\ Len(Append(q, m)) = Len(q) + 1 /\ Append(q, m)[Len(q) + 1] = m
           /\ \A i \in 1..Len(q) : Append(q, m)[i] = q[i]
           /\ Append(q, m) # <<>>
           /\ q # <<>> => Append(q, m)[1] = q[1]
           /\ q = <<>> => Append(q, m)[1] = m
           /\ \A i \in 1..Len(q) + 1 : i < Len(q) + 1 => i \in 1..Len(q)
           /\ \A i \in 1..Len(q) : i < Len(q) \/ i = Len(q)
<1>1. /\ Len(q) \in Nat /\ Len(Append(q, m)) = Len(q) + 1 /\ Append(q, m)[Len(q) + 1] = m
      /\ \A i \in 1..Len(q) : Append(q, m)[i] = q[i]
  OBVIOUS
<1>2. Append(q, m) # <<>>
  BY <1>1
<1>3. q # <<>> => 1 \in 1..Len(q)
  OBVIOUS
<1>4. q = <<>> => Len(q) + 1 = 1
  OBVIOUS
<1> QED
  BY <1>1, <1>2, <1>3, <1>4

LEMMA EmptyHasNoPlace ==
    ASSUME NEW q \in Seq(Messages), NEW i \in 1..Len(q)
    PROVE  q # <<>>
OBVIOUS

LEMMA PoliteAppend ==
    ASSUME NEW h, NEW q \in Seq(Messages), NEW m \in Messages, NEW d,
           NEW st, NEW s, s # "closed", PoliteOf(h, q, st, d),
           q # <<>> => q[Len(q)].whole,
           \/ st = "named"
           \/ st = "connected" /\ q = <<>> /\ m.kind = "intro"
    PROVE  PoliteOf(h, Append(q, m), s, d)
<1>1. /\ Len(Append(q, m)) = Len(q) + 1 /\ Append(q, m) # <<>>
      /\ \A i \in 1..Len(q) : Append(q, m)[i] = q[i]
      /\ q # <<>> => Append(q, m)[1] = q[1]
      /\ q = <<>> => Append(q, m)[1] = m
  BY AppendAtEnd, Zenon
<1>2. ASSUME NEW i \in 1..Len(q) + 1, i < Len(q) + 1 PROVE Append(q, m)[i].whole
  <2>1. i \in 1..Len(q) /\ (i < Len(q) \/ i = Len(q))
    BY <1>2, AppendAtEnd, Zenon
  <2>2. q # <<>>
    <3>1. \A j \in 1..Len(q) : q # <<>>
      BY Zenon, EmptyHasNoPlace
    <3> QED
      BY <2>1, <3>1, Zenon
  <2>3. CASE i < Len(q)
    BY <1>1, <2>1, <2>3, Zenon DEF PoliteOf
  <2>4. CASE i = Len(q)
    BY <1>1, <2>1, <2>2, <2>4, Zenon
  <2> QED
    BY <2>1, <2>3, <2>4, Zenon
<1>3. d = -1 => h # <<>> \/ Append(q, m)[1].kind = "intro"
  <2>1. CASE st = "connected"
    BY <1>1, <2>1, Zenon
  <2>2. CASE st = "named"
    BY <1>1, <2>2, Zenon DEF PoliteOf
  <2> QED
    BY <2>1, <2>2, Zenon
<1>4. \A i \in 1..Len(h) : h[i].kind = "intro" => h[i].whole
  BY Zenon DEF PoliteOf
<1> HIDE DEF PoliteOf
<1>5. \A i \in 1..Len(Append(q, m)) : i < Len(Append(q, m)) => Append(q, m)[i].whole
  BY <1>1, <1>2, Zenon
<1> QED
  BY <1>1, <1>3, <1>4, <1>5, Zenon DEF PoliteOf

LEMMA PoliteRead ==
    ASSUME NEW q \in Seq(Messages), NEW k \in 1..Len(q), NEW st, NEW n, NEW d,
           FlowOf(<<>>, q, st, n, d), PoliteOf(<<>>, q, st, d),
           q[k].whole \/ (k = Len(q) /\ st = "closed")
    PROVE  PoliteOf(split(SubSeq(q, 1, k)), SubSeq(q, k + 1, Len(q)), st, d)
<1> DEFINE h == split(SubSeq(q, 1, k))
           rest == SubSeq(q, k + 1, Len(q))
<1>1. /\ q[1].kind # "blank" => h # <<>>
      /\ h \in Seq(Messages) /\ \A i \in 1..Len(h) : i <= k /\ h[i] = q[i]
  BY FlowRead
<1>2. /\ Len(q) \in Nat /\ Len(rest) = Len(q) - k
      /\ \A i \in 1..Len(rest) : k + i \in 1..Len(q) /\ rest[i] = q[k + i]
      /\ \A i \in 1..Len(rest) : i < Len(rest) => k + i < Len(q)
  OBVIOUS
<1>3. d = -1 /\ st \in {"named", "blank", "closed"} => h # <<>>
  BY <1>1, Zenon DEF PoliteOf
<1> HIDE DEF h, rest
<1>4. ASSUME NEW i \in 1..Len(h), h[i].kind = "intro" PROVE h[i].whole
  <2>1. i \in 1..Len(q) /\ h[i] = q[i] /\ i <= k
    BY <1>1, <1>2
  <2>2. q[i].whole
    <3>1. CASE i < Len(q)
      BY <2>1, <3>1, Zenon DEF PoliteOf
    <3>2. CASE i = k
      BY <1>4, <2>1, <3>2, Zenon DEF PoliteOf
    <3>3. i < Len(q) \/ i = k
      BY <1>2, <2>1
    <3> QED
      BY <3>1, <3>2, <3>3
  <2> QED
    BY <2>1, <2>2, Zenon
<1>5. ASSUME NEW i \in 1..Len(rest), i < Len(rest) PROVE rest[i].whole
  BY <1>2, <1>5, Zenon DEF PoliteOf
<1>6. ASSUME st = "closed", NEW i \in 1..Len(rest), rest[i].kind = "intro" PROVE rest[i].whole
  BY <1>2, <1>6, Zenon DEF PoliteOf
<1>7. PoliteOf(h, rest, st, d)
  BY <1>3, <1>4, <1>5, <1>6, Zenon DEF PoliteOf
<1> QED
  BY <1>7 DEF h, rest

LEMMA ClientPolite ==
    ASSUME Politeness, SlotsInv, MessagesInv, NEW c \in Conns, ClientStep(c),
           NEW d, Flow(c, d), Polite(c, d)
    PROVE  Polite(c, d)'
<1> DEFINE h == Handled(c)
           q == inbox[c]
           Quick(p, st) == PoliteOf(h, p, st, d)
<1>1. Handled(c)' = h /\ q \in Seq(Messages) /\ UNCHANGED introduced
  BY OtherClients DEF SlotsInv, TypeOK
<1>2. Quick(q, state[c])
  BY DEF Polite
<1>3. SUFFICES Quick(inbox'[c], state'[c])
  BY <1>1 DEF Polite
<1>4. /\ state[c] \in {"new", "connected"} => q = <<>>
      /\ state[c] \in {"new", "connected", "named", "blank", "closed", "reset"}
  BY DEF Flow, FlowOf, SlotsInv, TypeOK
<1>5. ~Midway(c) => (q # <<>> => q[Len(q)].whole)
  BY Zenon DEF Midway
<1>7. /\ \A w \in BOOLEAN : Intro(w) \in Messages /\ Intro(w).kind = "intro"
      /\ \A k \in 1..MaxRequests, w \in BOOLEAN : Request(k, w) \in Messages
      /\ Blank \in Messages
  BY DEF Messages, Intro
<1> HIDE DEF h
<1>8. CASE state[c] = "new" /\ state'[c] = "connected" /\ UNCHANGED inbox[c]
  <2>1. PoliteOf(h, q, "new", d) => PoliteOf(h, q, "connected", d)
    BY Zenon DEF PoliteOf
  <2> QED
    BY <1>2, <1>8, <2>1, Zenon
<1>9. ASSUME NEW m \in Messages, inbox'[c] = Append(q, m), ~Midway(c), state'[c] # "closed",
             state[c] = "named" \/ (state[c] = "connected" /\ m.kind = "intro")
      PROVE  Quick(inbox'[c], state'[c])
  <2>1. Quick(Append(q, m), state'[c])
    <3> HIDE DEF q
    <3> QED
      BY <1>1, <1>2, <1>4, <1>5, <1>9, PoliteAppend, Zenon DEF q
  <2> QED
    BY <1>9, <2>1, Zenon
<1>10. CASE Finish(c) /\ UNCHANGED state[c]
  <2>1. /\ q # <<>> /\ inbox'[c] \in Seq(Messages) /\ Len(inbox'[c]) = Len(q)
        /\ state[c] # "closed"
        /\ \A i \in 1..Len(q) : /\ inbox'[c][i].kind = q[i].kind
                                /\ i # Len(q) => inbox'[c][i] = q[i]
    BY <1>10, FinishCompletes
  <2>2. 1 \in 1..Len(q) /\ inbox'[c] # <<>> /\ \A i \in 1..Len(q) : i < Len(q) => i # Len(q)
    BY <1>1, <2>1
  <2> HIDE DEF q
  <2>3. d = -1 /\ state[c] \in {"named", "blank", "closed"} =>
            h # <<>> \/ (inbox'[c] # <<>> /\ inbox'[c][1].kind = "intro")
    BY <1>2, <2>1, <2>2, Zenon DEF PoliteOf
  <2>4. \A i \in 1..Len(inbox'[c]) : i < Len(inbox'[c]) => inbox'[c][i].whole
    BY <1>2, <2>1, <2>2, Zenon DEF PoliteOf
  <2>5. Quick(inbox'[c], state[c])
    BY <1>2, <2>1, <2>3, <2>4, Zenon DEF PoliteOf
  <2> QED
    BY <1>10, <2>5, Zenon
<1>11. CASE state[c] \notin {"new", "closed", "reset"} /\ state'[c] = "reset" /\ UNCHANGED inbox[c]
  <2>1. "reset" \notin {"named", "blank", "closed"}
    OBVIOUS
  <2>2. Quick(q, "reset")
    BY <1>2, <2>1, Zenon DEF PoliteOf
  <2> QED
    BY <1>11, <2>2, Zenon
<1>12. CASE /\ state[c] \notin {"new", "closed", "reset"} /\ state'[c] = "closed"
            /\ UNCHANGED inbox[c] /\ (Introducing(c) => c \in Hasty)
  <2>1. ~Introducing(c)
    BY <1>12 DEF Politeness
  <2>2. state[c] \in {"named", "blank"}
    BY <1>4, <1>12, <2>1 DEF Introducing
  <2>3. q # <<>> /\ q[Len(q)].kind = "intro" => q[Len(q)].whole
    BY <2>1, Zenon DEF Introducing, Midway
  <2>4. \A i \in 1..Len(q) : q # <<>> /\ (i < Len(q) \/ i = Len(q))
    BY <1>1
  <2> HIDE DEF q
  <2>5. ASSUME NEW i \in 1..Len(q), q[i].kind = "intro" PROVE q[i].whole
    <3>1. CASE i < Len(q)
      BY <1>2, <3>1, Zenon DEF PoliteOf
    <3>2. CASE i = Len(q)
      BY <2>3, <2>4, <2>5, <3>2, Zenon
    <3> QED
      BY <2>4, <3>1, <3>2, Zenon
  <2>6. d = -1 => h # <<>> \/ (q # <<>> /\ q[1].kind = "intro")
    BY <1>2, <2>2, Zenon DEF PoliteOf
  <2>7. Quick(q, "closed")
    BY <1>2, <2>5, <2>6, Zenon DEF PoliteOf
  <2> QED
    BY <1>12, <2>7, Zenon DEF q
<1>13. c \notin Mute
  BY DEF Politeness
<1> HIDE DEF Quick, q
<1>14. \/ /\ state[c] = "new" /\ state'[c] = "connected" /\ UNCHANGED inbox[c]
       \/ \E m \in Messages :
            /\ inbox'[c] = Append(q, m) /\ ~Midway(c) /\ state'[c] # "closed"
            /\ state[c] = "named" \/ (state[c] = "connected" /\ m.kind = "intro")
       \/ Finish(c) /\ UNCHANGED state[c]
       \/ /\ state[c] \notin {"new", "closed", "reset"} /\ UNCHANGED inbox[c]
          /\ \/ state'[c] = "closed" /\ (Introducing(c) => c \in Hasty)
             \/ state'[c] = "reset"
  BY <1>7, <1>13, OwnStep DEF q
<1> QED
  BY <1>8, <1>9, <1>10, <1>11, <1>12, <1>14, Zenon

LEMMA ReadPolite ==
    ASSUME SlotsInv, MessagesInv, ReadSlot, NEW c \in Conns \ Mute,
           NEW d, Flow(c, d), Polite(c, d)
    PROVE  Polite(c, d)'
<1> DEFINE q == inbox[c]
<1>1. q \in Seq(Messages) /\ UNCHANGED <<state, introduced>> /\ Handled(c) = <<>>
  BY ReadStep DEF SlotsInv, TypeOK
<1>2. FlowOf(<<>>, q, state[c], sent[c], d) /\ PoliteOf(<<>>, q, state[c], d)
  BY <1>1 DEF Flow, Polite
<1>3. CASE Handled(c)' = <<>> /\ inbox'[c] = q
  BY <1>1, <1>2, <1>3 DEF Polite
<1>4. ASSUME NEW k \in Received(c), Handled(c)' = split(SubSeq(q, 1, k)),
             inbox'[c] = SubSeq(q, k + 1, Len(q)), state[c] # "reset"
      PROVE  Polite(c, d)'
  <2>1. k \in 1..Len(q)
    BY DEF Received
  <2>2. q[k].whole \/ (k = Len(q) /\ state[c] = "closed")
    BY <1>4, Zenon DEF Received, Hungup
  <2> HIDE DEF q
  <2>3. PoliteOf(split(SubSeq(q, 1, k)), SubSeq(q, k + 1, Len(q)), state[c], d)
    BY <1>1, <1>2, <2>1, <2>2, PoliteRead, Zenon
  <2> QED
    BY <1>1, <1>4, <2>3 DEF Polite
<1>5. CASE c # OwnerOf(Current)
  BY <1>3, <1>5, ReadStep
<1>6. CASE c = OwnerOf(Current)
  <2>1. /\ Handled(c)' = messages' /\ state[c] # "reset"
        /\ \/ \E k \in Received(c) :
                /\ messages' = split(SubSeq(q, 1, k))
                /\ inbox'[c] = SubSeq(q, k + 1, Len(q))
           \/ messages' = <<>> /\ inbox'[c] = q
    BY <1>6, ReadStep
  <2> QED
    BY <1>3, <1>4, <2>1
<1> QED
  BY <1>5, <1>6

\* Only a client that has introduced itself is ever found to have nothing to say.
LEMMA ClosesKnown ==
    ASSUME Politeness, PoliteInv, ReadSlot, messages' = <<>>,
           NEW c, c = OwnerOf(Current)
    PROVE  c \in introduced
<1> DEFINE q == inbox[c]
<1>1. SlotsInv /\ MessagesInv
  BY DEF PoliteInv, OrderInv, NamesInv, FlowInv
<1>2. /\ c \in Conns /\ state[c] # "reset" /\ Handled(c) = <<>> /\ todo # {} /\ pc = "content"
      /\ \/ \E k \in Received(c) : messages' = split(SubSeq(q, 1, k))
         \/ q = <<>> /\ Hungup(c)
  BY <1>1, ReadStep
<1>3. PICK d : Flow(c, d) /\ Taken(c, d) /\ Polite(c, d)
  BY <1>2 DEF PoliteInv
<1>4. SUFFICES ASSUME d = -1 PROVE FALSE
  BY <1>3 DEF Polite
<1>5. FlowOf(<<>>, q, state[c], sent[c], d) /\ PoliteOf(<<>>, q, state[c], d)
  BY <1>2, <1>3 DEF Flow, Polite
<1>6. q \in Seq(Messages) /\ state[c] \in {"new", "connected", "named", "blank", "closed", "reset"}
  BY <1>1, <1>2 DEF SlotsInv, TypeOK
<1>7. state[c] \in {"named", "blank", "closed"}
  <2>1. state[c] # "new"
    BY <1>1, <1>2, CurrentOwner, NoFdIsNone DEF SlotsInv, WaitOnce
  <2>2. state[c] # "connected"
    BY <1>2, <1>5 DEF FlowOf, Received, Hungup
  <2> QED
    BY <1>2, <1>6, <2>1, <2>2
<1>8. q # <<>> /\ q[1].kind = "intro"
  BY <1>4, <1>5, <1>7, Zenon DEF PoliteOf
<1>9. PICK k \in Received(c) : messages' = split(SubSeq(q, 1, k))
  BY <1>2, <1>8
<1>10. k \in 1..Len(q)
  BY DEF Received
<1> HIDE DEF q
<1>11. q[1].kind # "blank" => split(SubSeq(q, 1, k)) # <<>>
  BY <1>5, <1>6, <1>10, FlowRead
<1> QED
  BY <1>8, <1>9, <1>11

\* With the closed descriptor's own entry the others keep their clients.
LEMMA CloseKnown ==
    ASSUME OwnNames, Politeness, PoliteInv, ReadSlot, messages' = <<>>
    PROVE  KnownHasIntroduced'
<1> DEFINE old == clients_name_
           new == clients_name_'
<1>1. PICK c : c = OwnerOf(Current)
  OBVIOUS
<1>2. SlotsInv /\ pc = "content" /\ todo # {} /\ ifMessageEmptyCloseSocket(Current)
  BY DEF PoliteInv, OrderInv, NamesInv, ReadSlot
<1>3. PICK fd : fd = fds_[Current]
  OBVIOUS
<1>4. c \in Conns /\ fdOf[c] = fd /\ fd # NoFd
  BY <1>1, <1>2, <1>3, CurrentOwner, NoFdIsNone
<1>5. c \in introduced
  BY <1>1, ClosesKnown
<1>6. fd \in DOMAIN old /\ old[fd] = NameOf[c]
  BY <1>4, <1>5 DEF PoliteInv, OrderInv, NamesInv, IntroducedIsKnown, IsOpen
<1>7. fdOf' = [fdOf EXCEPT ![c] = NoFd] /\ new \in ErasedByName(fd) /\ UNCHANGED introduced
  BY <1>1, <1>2, <1>3 DEF ifMessageEmptyCloseSocket, ReadSlot
<1>8. \A e \in Conns : e # c => fdOf'[e] = fdOf[e]
  BY <1>4, <1>7 DEF PoliteInv, OrderInv, NamesInv, SlotsInv, TypeOK
<1>9. /\ \A g \in DOMAIN new : g \in DOMAIN old /\ new[g] = old[g]
      /\ \E g \in DOMAIN old : old[g] = old[fd] /\ g \notin DOMAIN new
  <2>0. new \in ErasedByName(fd)
    BY <1>7
  <2>1. /\ DOMAIN new \subseteq DOMAIN old \cup {fd}
        /\ \A g \in DOMAIN new : new[g] = IF g \in DOMAIN old THEN old[g] ELSE ""
        /\ \A g \in DOMAIN old \ DOMAIN new : old[g] = IF fd \in DOMAIN old THEN old[fd] ELSE ""
        /\ fd \in DOMAIN old => \E g \in DOMAIN old : old[g] = old[fd] /\ g \notin DOMAIN new
    BY <2>0, Erased
  <2> QED
    BY <1>6, <2>1
<1>10. introduced \subseteq Conns
  BY <1>2 DEF SlotsInv, TypeOK
<1>11. \A g \in DOMAIN old : old[g] = NameOf[c] => g = fd
  BY <1>4, <1>10 DEF PoliteInv, KnownHasIntroduced, OwnNames
<1>12. fd \notin DOMAIN new
  BY <1>6, <1>9, <1>11
<1>13. ASSUME NEW g \in DOMAIN new
       PROVE  \E e \in introduced : fdOf'[e] = g /\ new[g] = NameOf[e]
  <2>1. PICK e \in introduced : fdOf[e] = g /\ old[g] = NameOf[e]
    BY <1>9 DEF PoliteInv, KnownHasIntroduced
  <2>2. e # c
    BY <1>4, <1>12, <2>1
  <2> QED
    BY <1>8, <1>9, <1>10, <2>1, <2>2
<1> QED
  BY <1>7, <1>13 DEF KnownHasIntroduced

\* A message handled is its client's introduction, taken, or a request of one
\* that is known.
LEMMA HandlePolite ==
    ASSUME Politeness, PoliteInv, HandleMessage
    PROVE  /\ KnownHasIntroduced' /\ ServedKnown'
           /\ \A c \in Conns : \E d : Flow(c, d)' /\ Taken(c, d)' /\ Polite(c, d)'
<1>1. NamesInv /\ SlotsInv /\ MessagesInv /\ Mute = {}
  BY DEF PoliteInv, OrderInv, NamesInv, FlowInv, Politeness
<1>2. PICK c : c = OwnerOf(Current)
  OBVIOUS
<1>3. PICK m : m = Head(messages)
  OBVIOUS
<1>4. /\ c \in Conns /\ messages # <<>> /\ messages \in Seq(Messages)
      /\ Handled(c) = messages /\ Handled(c)' = Tail(messages)
      /\ UNCHANGED <<inbox, state, sent>>
      /\ \A e \in Conns : e # c => Handled(e)' = <<>> /\ Handled(e) = <<>>
  BY <1>1, <1>2, HandleStep
<1>5. PICK d : Flow(c, d) /\ Taken(c, d) /\ Polite(c, d)
  BY <1>4 DEF PoliteInv
<1>6. Flow(c, d + 1)' /\ Taken(c, d + 1)' /\ Numbered(m, d + 1) /\ d \in Int /\ d >= -1
  <2>1. c \in Conns \ Mute
    BY <1>1, <1>4
  <2>2. Flow(c, d + 1)' /\ Taken(c, d + 1)' /\ Numbered(Head(messages), d + 1)
    BY <1>1, <1>2, <1>5, <2>1, HandleFlow
  <2>3. d \in Int /\ d >= -1
    BY <1>5 DEF Flow, FlowOf
  <2> QED
    BY <1>3, <2>2, <2>3
<1>7. fdOf[c] \in DOMAIN clients_name_ <=> c \in introduced
  <2>1. fdOf[c] # NoFd
    BY <1>1, <1>2, HandleOutcome DEF IsOpen
  <2>2. c \in introduced => fdOf[c] \in DOMAIN clients_name_
    BY <1>1, <2>1 DEF NamesInv, IntroducedIsKnown, IsOpen
  <2>3. ASSUME fdOf[c] \in DOMAIN clients_name_ PROVE c \in introduced
    <3>1. PICK e \in introduced : fdOf[e] = fdOf[c]
      BY <2>3 DEF PoliteInv, KnownHasIntroduced
    <3>2. e \in Conns
      BY <1>1 DEF SlotsInv, TypeOK
    <3>3. OwnFds
      BY <1>1 DEF SlotsInv
    <3> QED
      BY <1>4, <2>1, <3>1, <3>2, <3>3 DEF OwnFds
  <2> QED
    BY <2>2, <2>3
<1>8. c \notin introduced => m.kind = "intro" /\ m.whole
  <2>1. c \notin introduced => d = -1
    BY <1>5 DEF Polite
  <2>2. c \notin introduced => m.kind = "intro"
    BY <1>6, <2>1 DEF Numbered
  <2>3. m = messages[1] /\ 1 \in 1..Len(messages)
    BY <1>3, <1>4
  <2>4. \A i \in 1..Len(messages) : messages[i].kind = "intro" => messages[i].whole
    BY <1>4, <1>5, Zenon DEF Polite, PoliteOf
  <2> QED
    BY <2>2, <2>3, <2>4, Zenon
<1>9. c \in introduced => m.kind = "request"
  <2>1. c \in introduced => d # -1
    BY <1>5 DEF Taken
  <2> QED
    BY <1>6, <2>1 DEF Numbered
<1>10. \/ /\ c \in introduced /\ UNCHANGED <<clients_name_, introduced>>
          /\ \E r : /\ served' = Append(served, r) /\ r.conn = c /\ r.kind = "request"
                   /\ r.name = clients_name_[fdOf[c]]
       \/ /\ c \notin introduced /\ introduced' = introduced \cup {c} /\ UNCHANGED served
          /\ clients_name_' = With(fdOf[c], NameOf[c], clients_name_)
  <2>1. m = Head(messages)
    BY <1>3
  <2>2. CASE c \in introduced
    <3>1. PICK r : /\ served' = Append(served, r)
                   /\ r.conn = c /\ r.kind = m.kind /\ r.id = m.id
                   /\ r.name = clients_name_[fdOf[c]]
      BY <1>1, <1>2, <1>7, <2>1, <2>2, HandleOutcome
    <3>2. UNCHANGED <<clients_name_, introduced>>
      BY <1>1, <1>2, <1>7, <2>1, <2>2, HandleOutcome, Zenon
    <3> QED
      BY <1>9, <2>2, <3>1, <3>2
  <2>3. CASE c \notin introduced
    BY <1>1, <1>2, <1>7, <1>8, <2>1, <2>3, HandleOutcome, Zenon
  <2> QED
    BY <2>2, <2>3
<1>11. UNCHANGED fdOf
  BY DEF HandleMessage
<1>12. KnownHasIntroduced'
  <2>1. CASE UNCHANGED <<clients_name_, introduced>>
    BY <1>11, <2>1 DEF PoliteInv, KnownHasIntroduced
  <2>2. CASE introduced' = introduced \cup {c} /\ clients_name_' = With(fdOf[c], NameOf[c], clients_name_)
    <3>1. /\ DOMAIN clients_name_' = DOMAIN clients_name_ \cup {fdOf[c]}
          /\ \A g \in DOMAIN clients_name_' :
                clients_name_'[g] = IF g = fdOf[c] THEN NameOf[c] ELSE clients_name_[g]
      BY <2>2 DEF With
    <3>2. ASSUME NEW g \in DOMAIN clients_name_'
          PROVE  \E e \in introduced' : fdOf[e] = g /\ clients_name_'[g] = NameOf[e]
      <4>1. CASE g = fdOf[c]
        BY <2>2, <3>1, <4>1
      <4>2. CASE g # fdOf[c]
        <5>1. g \in DOMAIN clients_name_ /\ clients_name_'[g] = clients_name_[g]
          BY <3>1, <4>2
        <5>2. PICK e \in introduced : fdOf[e] = g /\ clients_name_[g] = NameOf[e]
          BY <5>1 DEF PoliteInv, KnownHasIntroduced
        <5> QED
          BY <2>2, <5>1, <5>2
      <4> QED
        BY <4>1, <4>2
    <3> QED
      BY <1>11, <3>2 DEF KnownHasIntroduced
  <2> QED
    BY <1>10, <2>1, <2>2
<1>13. ServedKnown'
  <2>1. ASSUME UNCHANGED served PROVE ServedKnown'
    BY <1>10, <2>1 DEF PoliteInv, ServedKnown
  <2>2. ASSUME UNCHANGED introduced, c \in introduced, NEW r, served' = Append(served, r),
               r.conn = c, r.kind = "request", r.name = clients_name_[fdOf[c]]
        PROVE  ServedKnown'
    <3>1. clients_name_[fdOf[c]] = NameOf[c]
      <4>1. IsOpen(c)
        BY <1>1, <1>2, HandleOutcome
      <4> QED
        BY <1>1, <2>2, <4>1 DEF NamesInv, IntroducedIsKnown
    <3>2. PICK n : n = Len(served) + 1
      OBVIOUS
    <3>3. /\ DOMAIN served' = DOMAIN served \cup {n} /\ served'[n] = r
          /\ \A k \in DOMAIN served : served'[k] = served[k]
      BY <1>1, <2>2, <3>2, ServedGrows DEF NamesInv
    <3> QED
      BY <2>2, <3>1, <3>3 DEF PoliteInv, ServedKnown
  <2> QED
    BY <1>10, <2>1, <2>2
<1>14. Polite(c, d + 1)'
  <2>1. c \in introduced'
    BY <1>10
  <2>2. /\ d + 1 # -1
        /\ \A i \in 1..Len(Tail(messages)) :
              i + 1 \in 1..Len(messages) /\ Tail(messages)[i] = messages[i + 1]
    BY <1>4, <1>6
  <2>3. PoliteOf(messages, inbox[c], state[c], d)
    BY <1>4, <1>5 DEF Polite
  <2>4. \A i \in 1..Len(Tail(messages)) :
            Tail(messages)[i].kind = "intro" => Tail(messages)[i].whole
    BY <2>2, <2>3, Zenon DEF PoliteOf
  <2>5. PoliteOf(Tail(messages), inbox[c], state[c], d + 1)
    BY <2>2, <2>3, <2>4, Zenon DEF PoliteOf
  <2> QED
    BY <1>4, <2>1, <2>5 DEF Polite
<1>15. ASSUME NEW e \in Conns, e # c, NEW b, Flow(e, b), Taken(e, b), Polite(e, b)
       PROVE  Flow(e, b)' /\ Taken(e, b)' /\ Polite(e, b)'
  <2>1. Flow(e, b)' /\ Taken(e, b)'
    BY <1>1, <1>2, <1>15, HandleFlow
  <2>2. e \in introduced' <=> e \in introduced
    BY <1>10, <1>15
  <2>3. UNCHANGED <<Handled(e), inbox[e], state[e]>>
    BY <1>4, <1>15
  <2> QED
    BY <1>15, <2>1, <2>2, <2>3 DEF Polite
<1>16. ASSUME NEW e \in Conns PROVE \E b : Flow(e, b)' /\ Taken(e, b)' /\ Polite(e, b)'
  <2>1. CASE e = c
    BY <1>6, <1>14, <2>1
  <2>2. CASE e # c
    BY <1>15, <2>2 DEF PoliteInv
  <2> QED
    BY <2>1, <2>2
<1> QED
  BY <1>12, <1>13, <1>16

LEMMA PoliteInit == Init => PoliteInv
<1> SUFFICES ASSUME Init PROVE PoliteInv
  OBVIOUS
<1>1. DOMAIN served = {} /\ introduced = {} /\ DOMAIN clients_name_ = {}
  BY DEF Init
<1>2. \A c \in Conns : /\ inbox[c] = <<>> /\ state[c] = "new" /\ sent[c] = 0
                       /\ Handled(c) = <<>> /\ ServedIds(c) = {}
  BY <1>1 DEF Init, Handled, ServedIds, Calls
<1>3. \A c \in Conns : Flow(c, -1) /\ Taken(c, -1)
  BY <1>1, <1>2 DEF Flow, FlowOf, Taken
<1>4. PoliteOf(<<>>, <<>>, "new", -1)
  BY DEF PoliteOf
<1>5. \A c \in Conns : Polite(c, -1)
  BY <1>2, <1>4 DEF Polite
<1> QED
  BY <1>1, <1>3, <1>5, OrderInit DEF PoliteInv, KnownHasIntroduced, ServedKnown

LEMMA PoliteStep ==
    ASSUME OwnNames, Politeness, PoliteInv, [Next]_vars
    PROVE  PoliteInv'
<1>1. OrderInv' /\ NamesInv /\ SlotsInv /\ MessagesInv
  BY OrderStep DEF PoliteInv, OrderInv, NamesInv, FlowInv
<1>2. CASE HandleMessage
  BY <1>1, <1>2, HandlePolite DEF PoliteInv
<1>3. CASE ~HandleMessage
  <2>1. /\ UNCHANGED <<introduced, served>>
        /\ \A c \in Conns : \A d : Flow(c, d) => Flow(c, d)'
    BY <1>1, <1>3, KeepFlow DEF Politeness
  <2>2. \A c, d : Taken(c, d)' <=> Taken(c, d)
    BY <2>1 DEF Taken, ServedIds, Calls
  <2>3. ServedKnown'
    BY <2>1 DEF PoliteInv, ServedKnown
  <2>4. \A c \in Conns : \A d : Flow(c, d) /\ Polite(c, d) => Polite(c, d)'
    <3>1. CASE Quiet
      <4>1. UNCHANGED <<inbox, state, introduced>> /\ \A c \in Conns : Handled(c)' = Handled(c)
        BY <1>1, <3>1, QuietFlow
      <4> QED
        BY <4>1 DEF Polite
    <3>2. CASE ReadSlot
      BY <1>1, <3>2, ReadPolite DEF Politeness
    <3>3. ASSUME NEW e \in Conns, ClientStep(e), NEW c \in Conns, NEW d, Flow(c, d), Polite(c, d)
          PROVE  Polite(c, d)'
      <4>1. CASE c = e
        BY <1>1, <3>3, <4>1, ClientPolite
      <4>2. CASE c # e
        BY <1>1, <3>3, <4>2, OtherClients DEF Polite
      <4> QED
        BY <4>1, <4>2
    <3> QED
      BY <1>3, <3>1, <3>2, <3>3 DEF Next, ServerStep, Quiet
  <2>5. KnownHasIntroduced'
    <3>1. CASE UNCHANGED <<fdOf, clients_name_>>
      BY <2>1, <3>1 DEF PoliteInv, KnownHasIntroduced
    <3>2. CASE ReadSlot
      <4>1. CASE messages' = <<>>
        BY <3>2, <4>1, CloseKnown
      <4>2. CASE messages' # <<>>
        BY <3>1, <3>2, <4>2 DEF ReadSlot
      <4> QED
        BY <4>1, <4>2
    <3>3. CASE checkingSocketsOnNewConnect
      <4>1. UNCHANGED clients_name_
        BY <3>3 DEF checkingSocketsOnNewConnect
      <4>2. \A c \in introduced : fdOf'[c] = fdOf[c]
        <5>1. CASE UNCHANGED fdOf
          BY <5>1
        <5>2. CASE ~UNCHANGED fdOf
          <6>1. fdOf' = [fdOf EXCEPT ![Head(backlog)] = LowestFree] /\ Listening \in todo
            BY <3>3, <5>2 DEF checkingSocketsOnNewConnect
          <6>2. /\ backlog # <<>> /\ backlog \in Seq(Conns) /\ introduced \subseteq Conns
                /\ fdOf \in [Conns -> Fds \cup {NoFd}]
            BY <1>1, <6>1 DEF SlotsInv, StillReady, TypeOK
          <6>3. Head(backlog) = backlog[1] /\ 1 \in DOMAIN backlog
            BY <6>2
          <6>4. Head(backlog) \notin introduced
            BY <1>1, <6>3 DEF SlotsInv, WaitOnce
          <6> QED
            BY <6>1, <6>2, <6>4
        <5> QED
          BY <5>1, <5>2
      <4> QED
        BY <2>1, <4>1, <4>2 DEF PoliteInv, KnownHasIntroduced
    <3>4. ASSUME run \/ launchServerFails \/ stop \/ Poll \/ NoContent \/ ReadFails \/ Over \/ UNCHANGED vars
          PROVE  UNCHANGED <<fdOf, clients_name_>>
      BY <3>4 DEF run, launchServerFails, stop, Poll, NoContent, ReadFails, Over, vars, serverVars
    <3>5. ASSUME NEW c \in Conns, ClientStep(c)
          PROVE  UNCHANGED <<fdOf, clients_name_>>
      BY <3>5 DEF ClientStep, Connect, Introduce, Ask, SendBlank, Finish, Close, Reset, Deliver, serverVars
    <3> QED
      BY <1>3, <3>1, <3>2, <3>3, <3>4, <3>5 DEF Next, ServerStep
  <2> QED
    BY <1>1, <2>1, <2>2, <2>3, <2>4, <2>5 DEF PoliteInv
<1> QED
  BY <1>2, <1>3

LEMMA PoliteAlways ==
    ASSUME OwnNames, Politeness
    PROVE  Safety => []PoliteInv
<1>1. PoliteInv /\ [Next]_vars => PoliteInv'
  BY PoliteStep
<1> QED
  BY <1>1, PoliteInit, PTL DEF Safety

(***************************************************************************)
(* As long as every client introduces itself and no two use one name, the  *)
(* table holds open descriptors only: whoever is given a closed one's      *)
(* number starts without a name.                                           *)
(***************************************************************************)
THEOREM NoNameOutlives ==
    ASSUME OwnNames, Politeness
    PROVE  Safety => []KnownIsOpen
<1>1. PoliteInv => KnownIsOpen
  <2> SUFFICES ASSUME PoliteInv PROVE KnownIsOpen
    OBVIOUS
  <2>1. introduced \subseteq Conns
    BY DEF PoliteInv, OrderInv, NamesInv, SlotsInv, TypeOK
  <2> QED
    BY <2>1 DEF PoliteInv, KnownHasIntroduced, KnownIsOpen
<1> QED
  BY <1>1, PoliteAlways, PTL

(***************************************************************************)
(* Then what reaches the core is exactly the requests, each under its      *)
(* client's own name, each client's in the order sent and none skipped;    *)
(* an introduction never does, whatever the reads cut and glue together    *)
(* and whenever clients close or drop the connection.                      *)
(***************************************************************************)
THEOREM OnlyRequestsInOrder ==
    ASSUME OwnNames, Politeness
    PROVE  Safety => []ServedInOrder
<1>1. PoliteInv => ServedInOrder
  BY DEF PoliteInv, OrderInv, ServedKnown, RequestsInOrder, ServedInOrder
<1> QED
  BY <1>1, PoliteAlways, PTL
=============================================================================

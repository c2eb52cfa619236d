--------------------------- MODULE NetworkFraming ---------------------------
(***************************************************************************)
(* How a message crosses a socket (source/service_host/                    *)
(* network_serializer.cpp): writeToSock appends "\n\n" and hands the bytes *)
(* to write() until all are taken; TCP cuts the stream where it likes;     *)
(* readFromSock collects chunks until the last two bytes are "\n\n"; split *)
(* cuts what was collected.  The format is the subject here, so a message  *)
(* is a sequence of characters, of which only the newline is special.      *)
(***************************************************************************)
EXTENDS Naturals, Sequences

CONSTANTS
    Message,            \* the messages written: serialised JSON
    MAX_BUFFER_COUNT,   \* the size of the reader's buffer, 1024 in the code
    MaxWrites           \* messages written (a bound of the model)

NL == "n"               \* the newline; any other character is itself

ASSUME BufferAssumption == MAX_BUFFER_COUNT \in Nat \ {0}

\* NL is a string literal; it is named for the provers, which do not know it
\* for a string.
Char == STRING \cup {NL}
Text == Seq(Char)

\* What serialize hands to writeToSock: some text, the newlines escaped.
Plain == {m \in Text : m # <<>> /\ \A i \in 1..Len(m) : m[i] # NL}
PlainMessages == Message \subseteq Plain

VARIABLES
    unsent,     \* writer: what is left of the message being written
    stream,     \* bytes in the connection
    rxData,     \* reader: what the current readFromSock has collected
    written,    \* messages given to writeToSock
    delivered   \* messages split returned

vars == <<unsent, stream, rxData, written, delivered>>

HasBreak(s) == \E i \in 1..Len(s) - 1 : s[i] = NL /\ s[i + 1] = NL

\* Mutant: the search goes on one byte after the break's first newline.
splitOverlapping(data) ==
    LET breakFrom(p) == {i \in p..Len(data) - 1 : data[i] = NL /\ data[i + 1] = NL}
        pieces[p \in 1..Len(data) + 1] ==
            IF breakFrom(p) = {} THEN IF p > Len(data) THEN <<>>
                                      ELSE <<SubSeq(data, p, Len(data))>>
            ELSE LET e == CHOOSE i \in breakFrom(p) : \A j \in breakFrom(p) : i <= j
                 IN  (IF e = p THEN <<>> ELSE <<SubSeq(data, p, e - 1)>>) \o pieces[e + 1]
    IN  pieces[1]

\* split: the pieces between breaks, the empty ones dropped.
split(data) ==
    LET breakFrom(p) == {i \in p..Len(data) - 1 : data[i] = NL /\ data[i + 1] = NL}
        pieces[p \in 1..Len(data) + 1] ==
            IF breakFrom(p) = {} THEN IF p > Len(data) THEN <<>>
                                      ELSE <<SubSeq(data, p, Len(data))>>
            ELSE LET e == CHOOSE i \in breakFrom(p) : \A j \in breakFrom(p) : i <= j
                 IN  (IF e = p THEN <<>> ELSE <<SubSeq(data, p, e - 1)>>) \o pieces[e + 2]
    IN  pieces[1]

Init ==
    /\ unsent = <<>>
    /\ stream = <<>>
    /\ rxData = <<>>
    /\ written = <<>>
    /\ delivered = <<>>

\* writeToSock throws NotCorrectMessageToSend on a message with a break in it.
StartWrite(m) ==
    /\ unsent = <<>> /\ Len(written) < MaxWrites
    /\ ~HasBreak(m)
    /\ unsent' = m \o <<NL, NL>>
    /\ written' = Append(written, m)
    /\ UNCHANGED <<stream, rxData, delivered>>

\* write() takes part of what it is given.
WriteSome ==
    /\ \E n \in 1..Len(unsent) :
        /\ stream' = stream \o SubSeq(unsent, 1, n)
        /\ unsent' = SubSeq(unsent, n + 1, Len(unsent))
    /\ UNCHANGED <<rxData, written, delivered>>

\* Mutant: one newline is taken for the end.
EndsAtNewline(data) == {data[Len(data)] = NL}

\* Do the last two bytes end a message?  On a single byte the code looks at
\* the byte before the buffer, which may be anything.
EndsMessage(data) ==
    IF Len(data) = 1
    THEN IF data[1] = NL THEN BOOLEAN ELSE {FALSE}
    ELSE {data[Len(data)] = NL /\ data[Len(data) - 1] = NL}

\* One read(): a chunk of what has arrived, at most a buffer of it.
ReadChunk ==
    /\ \E n \in 1..Len(stream) :
        /\ n <= MAX_BUFFER_COUNT
        /\ stream' = SubSeq(stream, n + 1, Len(stream))
        /\ LET data == rxData \o SubSeq(stream, 1, n)
           IN  \E ends \in EndsMessage(data) :
                IF ends THEN delivered' = delivered \o split(data) /\ rxData' = <<>>
                        ELSE rxData' = data /\ UNCHANGED delivered
    /\ UNCHANGED <<unsent, written>>

Idle == unsent = <<>> /\ stream = <<>> /\ Len(written) = MaxWrites /\ UNCHANGED vars

Next == (\E m \in Message : StartWrite(m)) \/ WriteSome \/ ReadChunk \/ Idle

Spec == Init /\ [][Next]_vars /\ WF_vars(WriteSome) /\ WF_vars(ReadChunk)

-----------------------------------------------------------------------------
(* Properties.                                                             *)

(***************************************************************************)
(* For messages that hold no newline, as serialised JSON does, the two     *)
(* halves of the protocol are a channel: however write() and TCP cut the   *)
(* stream, also between the two newlines, the messages that come out of    *)
(* split are the ones given to writeToSock, and all of them come out.      *)
(***************************************************************************)
Channel == INSTANCE MessageChannel WITH written <- written, delivered <- delivered
ImplementsChannel == Channel!Spec

(***************************************************************************)
(* Once the writer and the connection are empty so is the reader: no tail  *)
(* of a message waits in rxData for bytes that never come, which would     *)
(* block the server's only thread in read().                               *)
(***************************************************************************)
NothingHeldBack ==
    unsent = <<>> /\ stream = <<>> => rxData = <<>> /\ delivered = written

=============================================================================

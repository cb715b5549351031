------------------------------ MODULE Listener -------------------------------
(* The listener of the GUI, Commander::PacketParsingThread, over the receive  *)
(* queue of NetworkThread, from one session to the next.                      *)
(*                                                                            *)
(* The queue and the parser's state belong to objects that live as long as    *)
(* the window; k, checksum and payload are the thread's own, and hold         *)
(* anything when it starts.  The parser works on a chunk of its own, so one   *)
(* step takes the whole chunk.  The flags are cleared in Commander.           *)
EXTENDS Naturals, Sequences

CONSTANTS
    BYTE,               \* bytes count modulo this (256)
    WRAPPER_STX,
    MAX_PAYLOAD_SiZE,
    ALL_COMMANDS,       \* slots of m_CommandWaiting
    Answers,            \* payloads of the firmware's packets; the command comes first
    Numbers,            \* what rng and len may hold
    MaxAnswers,         \* bound: packets sent
    MaxSessions         \* bound: connections made

Bytes == 0..(BYTE - 1)
Payload == [1..MAX_PAYLOAD_SiZE -> Bytes]

ASSUME ListenerAssumption ==
    /\ BYTE \in Nat /\ MAX_PAYLOAD_SiZE \in Nat \ {0}
    /\ MAX_PAYLOAD_SiZE < BYTE
    /\ WRAPPER_STX \in Bytes
    /\ ALL_COMMANDS \in 1..BYTE
    /\ Answers \subseteq {p \in Payload : p[1] < ALL_COMMANDS}
    /\ Numbers \subseteq Bytes
    /\ MaxAnswers \in Nat /\ MaxSessions \in Nat

VARIABLES
    connected,          \* ~m_Disconnected
    starting,           \* Connect has returned TRUE, StartListener has not returned
    coming,             \* bytes of this session that recv() has not returned yet
    m_RXQ,
    listener,           \* where PacketParsingThread is
    parser,             \* m_ParsingState and the thread's k, checksum and payload
    m_CommandWaiting,
    overrun,            \* something outside payload or m_CommandWaiting was written
    sent,               \* history: payloads of the packets sent
    cuts,               \* history: sessions that ended inside a packet
    sessions,           \* history: connections made
    unset,              \* history: m_ParsingState, which nobody initialises, was
                        \* not WAITING_FOR_STX to begin with
    inherited           \* history: a later listener started in the middle of a packet

netVars == <<connected, coming, sent, cuts, sessions>>
listenerVars == <<starting, listener, parser, m_CommandWaiting, overrun, unset, inherited>>
vars == <<netVars, m_RXQ, listenerVars>>

PACKET_SIZE == MAX_PAYLOAD_SiZE + 4
States == {"WAITING_FOR_STX", "WAITING_FOR_RNG", "WAITING_FOR_LEN", "READING_PAYLOAD",
           "WAITING_FOR_CHECKSUM"}
NoPayload == [i \in 1..MAX_PAYLOAD_SiZE |-> 0]
NoAnswer == [first |-> FALSE, second |-> NoPayload]

\* The slots are initialised (they are pairs), m_ParsingState is not, neither in
\* Commander.h nor by the constructor: it may be any of the states or none of
\* them, and then the switch matches nothing.
Init ==
    /\ connected = FALSE
    /\ starting = FALSE
    /\ coming = <<>>
    /\ m_RXQ = <<>>
    /\ listener = "none"
    /\ parser \in [state : States \cup {"other"}, k : {0}, checksum : {0}, payload : {NoPayload}]
    /\ m_CommandWaiting = [c \in 0..(ALL_COMMANDS - 1) |-> NoAnswer]
    /\ overrun = FALSE
    /\ sent = <<>>
    /\ cuts = 0
    /\ sessions = 0
    /\ unset = (parser.state # "WAITING_FOR_STX")
    /\ inherited = FALSE

\* Mutant of Add: the sum is not kept in a byte.
AddWide(a, b) == a + b

Add(a, b) == (a + b) % BYTE

-----------------------------------------------------------------------------
(* The connection *)

\* The bytes of a packet of the firmware.
Wrapper(rng, len, payload) ==
    LET bytes == <<WRAPPER_STX, rng, len>> \o payload
        sum[n \in 0..(MAX_PAYLOAD_SiZE + 3)] == IF n = 0 THEN 0 ELSE Add(sum[n - 1], bytes[n])
    IN  Append(bytes, sum[MAX_PAYLOAD_SiZE + 3])

Send ==
    /\ connected
    /\ coming = <<>>
    /\ Len(sent) < MaxAnswers
    /\ \E payload \in Answers, rng \in Numbers, len \in Numbers :
          /\ coming' = Wrapper(rng, len, payload)
          /\ sent' = Append(sent, payload)
    /\ UNCHANGED <<connected, m_RXQ, cuts, sessions, listenerVars>>

\* recv() returns what has arrived, whole packets or not.
RXHandler ==
    /\ connected
    /\ \E n \in 1..Len(coming) :
          /\ m_RXQ' = m_RXQ \o SubSeq(coming, 1, n)
          /\ coming' = SubSeq(coming, n + 1, Len(coming))
    /\ UNCHANGED <<connected, sent, cuts, sessions, listenerVars>>

Connect ==
    /\ ~connected /\ ~starting
    /\ sessions < MaxSessions
    /\ connected' = TRUE
    /\ starting' = TRUE
    /\ sessions' = sessions + 1
    /\ UNCHANGED <<coming, sent, cuts, m_RXQ, listener, parser, m_CommandWaiting, overrun, unset,
                   inherited>>

\* What has not arrived is lost; what is queued stays (m_RXQ.empty() only asks).
Disconnect ==
    /\ connected
    /\ connected' = FALSE
    /\ coming' = <<>>
    /\ cuts' = IF Len(coming) \in 1..(PACKET_SIZE - 1) THEN cuts + 1 ELSE cuts
    /\ sent' = IF coming = <<>> THEN sent ELSE SubSeq(sent, 1, Len(sent) - 1)
    /\ UNCHANGED <<sessions, m_RXQ, listenerVars>>

-----------------------------------------------------------------------------
(* The parser, one operator per state: parser and slots after a byte *)

Goto(s, state) == [s EXCEPT !.parser.state = state]
Sum(s, b) == [s EXCEPT !.parser.checksum = Add(@, b)]

\* Mutant of WaitingForSTX: the locals keep what they hold.
KeepLocals(s, b) == IF b = WRAPPER_STX THEN Goto(s, "WAITING_FOR_RNG") ELSE s

WaitingForSTX(s, b) ==
    IF b = WRAPPER_STX
    THEN [s EXCEPT !.parser = [state |-> "WAITING_FOR_RNG", k |-> 0, checksum |-> WRAPPER_STX,
                               payload |-> NoPayload]]
    ELSE s

\* Mutant of ReadingPayload: one byte more than there is room for.
ReadOneMore(s, b) ==
    IF s.parser.k >= MAX_PAYLOAD_SiZE
    THEN [s EXCEPT !.overrun = TRUE]
    ELSE Goto([Sum(s, b) EXCEPT !.parser.payload[s.parser.k + 1] = b, !.parser.k = @ + 1],
              IF s.parser.k + 1 > MAX_PAYLOAD_SiZE
              THEN "WAITING_FOR_CHECKSUM" ELSE "READING_PAYLOAD")

\* k is inside payload unless the state was inherited from an earlier thread.
ReadingPayload(s, b) ==
    IF s.parser.k >= MAX_PAYLOAD_SiZE
    THEN [s EXCEPT !.overrun = TRUE]
    ELSE Goto([Sum(s, b) EXCEPT !.parser.payload[s.parser.k + 1] = b, !.parser.k = @ + 1],
              IF s.parser.k + 1 >= MAX_PAYLOAD_SiZE
              THEN "WAITING_FOR_CHECKSUM" ELSE "READING_PAYLOAD")

\* The command of a payload that passes is used as it is.
WaitingForChecksum(s, b) ==
    LET cmd == s.parser.payload[1]
        stored == IF b # s.parser.checksum THEN s
                  ELSE IF cmd >= ALL_COMMANDS THEN [s EXCEPT !.overrun = TRUE]
                  ELSE [s EXCEPT !.slots[cmd] = [first |-> TRUE, second |-> s.parser.payload]]
    IN  Goto(stored, "WAITING_FOR_STX")

\* After an access out of bounds anything may happen: nothing more is said.
ParseByte(s, b) ==
    IF s.overrun THEN s
    ELSE CASE s.parser.state = "WAITING_FOR_STX" -> WaitingForSTX(s, b)
           [] s.parser.state = "WAITING_FOR_RNG" -> Goto(Sum(s, b), "WAITING_FOR_LEN")
           [] s.parser.state = "WAITING_FOR_LEN" -> Goto(Sum(s, b), "READING_PAYLOAD")
           [] s.parser.state = "READING_PAYLOAD" -> ReadingPayload(s, b)
           [] s.parser.state = "WAITING_FOR_CHECKSUM" -> WaitingForChecksum(s, b)
           [] OTHER -> s

-----------------------------------------------------------------------------
(* The thread *)

\* The last listener is joined.  m_ParsingState stays; the locals, if it uses them
\* before it sees a start byte, hold anything.
StartListener ==
    /\ starting
    /\ listener \in {"none", "ended"}
    /\ starting' = FALSE
    /\ listener' = "loop"
    /\ IF parser.state \in {"WAITING_FOR_STX", "other"}
       THEN UNCHANGED parser
       ELSE \E k \in 0..MAX_PAYLOAD_SiZE, checksum \in Bytes, cmd \in {0, BYTE - 1} :
               parser' = [parser EXCEPT !.k = k, !.checksum = checksum, !.payload[1] = cmd]
    /\ inherited' = (inherited \/ (listener = "ended" /\ parser.state # "WAITING_FOR_STX"))
    /\ UNCHANGED <<netVars, m_RXQ, m_CommandWaiting, overrun, unset>>

Look ==
    /\ listener = "loop"
    /\ listener' = IF connected THEN "read" ELSE "ended"
    /\ UNCHANGED <<netVars, m_RXQ, starting, parser, m_CommandWaiting, overrun, unset,
                   inherited>>

\* A chunk of at most the size of a packet (it may hold the ends of two), taken
\* byte by byte.
ReadChunk ==
    /\ listener = "read"
    /\ LET n == IF Len(m_RXQ) < PACKET_SIZE THEN Len(m_RXQ) ELSE PACKET_SIZE
           after[i \in 0..n] ==
               IF i = 0 THEN [parser |-> parser, slots |-> m_CommandWaiting, overrun |-> FALSE]
               ELSE ParseByte(after[i - 1], m_RXQ[i])
       IN  /\ m_RXQ' = SubSeq(m_RXQ, n + 1, Len(m_RXQ))
           /\ parser' = after[n].parser
           /\ m_CommandWaiting' = after[n].slots
           /\ overrun' = after[n].overrun
    /\ listener' = "loop"
    /\ UNCHANGED <<netVars, starting, unset, inherited>>

-----------------------------------------------------------------------------
PacketParsingThread == Look \/ ReadChunk

Next ==
    /\ ~overrun
    /\ \/ Connect \/ Disconnect \/ StartListener
       \/ Send \/ RXHandler
       \/ PacketParsingThread

Spec == Init /\ [][Next]_vars

-----------------------------------------------------------------------------
(* Properties *)

\* Types of the connection, the queue, the parser and the slots.
TypeOK ==
    /\ connected \in BOOLEAN /\ starting \in BOOLEAN
    /\ coming \in Seq(Bytes) /\ Len(coming) <= PACKET_SIZE
    /\ m_RXQ \in Seq(Bytes)
    /\ listener \in {"none", "loop", "read", "ended"}
    /\ parser \in [state : States \cup {"other"}, k : 0..MAX_PAYLOAD_SiZE, checksum : Bytes,
                   payload : Payload]
    /\ m_CommandWaiting \in [0..(ALL_COMMANDS - 1) -> [first : BOOLEAN, second : Payload]]
    /\ overrun \in BOOLEAN /\ unset \in BOOLEAN /\ inherited \in BOOLEAN
    /\ sent \in Seq(Answers) /\ Len(sent) <= MaxAnswers
    /\ cuts \in 0..sessions /\ sessions \in 0..MaxSessions

\* What the two properties below take for granted.  The memory of m_ParsingState
\* happened to hold WAITING_FOR_STX when the window was made: the program does not
\* see to it.  Every session ended between two packets, and so did every listener:
\* the chunk it read last may have held the beginning of a packet whose rest was
\* still queued.
Whole == ~unset /\ cuts = 0 /\ ~inherited

\* Packets the parser has taken from the queue, when none was cut.
Parsed == (Len(sent) * PACKET_SIZE - Len(coming) - Len(m_RXQ)) \div PACKET_SIZE

\* The last of the first n answers with command c.
LastAnswer(c, n) ==
    LET of == {i \in 1..n : sent[i][1] = c}
    IN  IF of = {} THEN NoAnswer
        ELSE [first |-> TRUE, second |-> sent[CHOOSE i \in of : \A j \in of : j <= i]]

\* If m_ParsingState starts at WAITING_FOR_STX and every session and every listener
\* ends between two packets, each slot holds the last answer of its command: over
\* sessions and listeners, however the stream is cut into chunks, and whatever a new
\* thread finds in its locals.  What was queued when a session ended is not lost: the
\* next listener takes it first.  From another start value the listener may lose
\* packets, or stay deaf: nothing is said of it.
SlotsHoldLastAnswers ==
    Whole => \A c \in 0..(ALL_COMMANDS - 1) : m_CommandWaiting[c] = LastAnswer(c, Parsed)

\* With the same proviso nothing outside payload or m_CommandWaiting is written.
\* Without it a thread, the first one too, goes on in the middle of a packet with
\* an index nobody has set, or bytes that are no packet pass their checksum.
WritesInBounds == Whole => ~overrun
==============================================================================

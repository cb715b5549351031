------------------------------- MODULE Packets -------------------------------
(* Packets over a byte stream: the sender of Commander.cpp and NetworkThread. *)
(* cpp, and the firmware's connection and parser (Server_Update and           *)
(* l_ParsePacket of Server.cpp).                                              *)
(*                                                                            *)
(* The stream is the sequence of packets on their way, each cut off after the *)
(* bytes that were sent of it; the parser sees bytes and knows no boundaries. *)
(* A packet is numbered by its place in sent, which only the properties use.  *)
EXTENDS Naturals, Sequences, FiniteSets

CONSTANTS
    BYTE,               \* bytes count modulo this (256)
    WRAPPER_STX,        \* the byte a packet starts with
    MAX_PAYLOAD_SiZE,   \* bytes of every packet's payload
    Payloads,           \* the payloads callers send
    Lengths,            \* the message lengths that go with them
    FirstCounts,        \* m_MessageCount is not initialised: where it may start
    MaxPackets,         \* bound: packets sent
    MaxCuts             \* bound: times the stream is cut

Bytes == 0..(BYTE - 1)

ASSUME PacketAssumption ==
    /\ BYTE \in Nat \ {0}
    /\ WRAPPER_STX \in Bytes /\ WRAPPER_STX # 0
    /\ MAX_PAYLOAD_SiZE \in Nat \ {0}
    /\ Payloads \subseteq [1..MAX_PAYLOAD_SiZE -> Bytes]
    /\ Lengths \subseteq Bytes \ {0}
    /\ FirstCounts \subseteq Bytes
    /\ MaxPackets \in Nat /\ MaxCuts \in Nat

VARIABLES
    m_MessageCount,
    m_TXQ,                  \* packets queued for the transmit thread
    wire,                   \* packets on their way, as far as they were sent
    off,                    \* bytes of the first of them that were read
    session,                \* the GUI's connection: the transmit thread runs while there is one
    client,                 \* the firmware's connection
    l_CurrentParseState,
    k,
    checksum,               \* l_SharePacket.checksum
    len,                    \* l_SharePacket.len
    payload,                \* l_SharePacket.payload
    l_BadChecksumCount,
    sent,                   \* history: the packets sent
    handled,                \* history: what went to l_HandleCommand
    first,                  \* history: the packet whose first byte was taken for STX, or 0
    spoiled,                \* history: packets of which a byte was lost
    cuts                    \* history: times the stream was cut

senderVars == <<m_MessageCount, m_TXQ, sent>>
streamVars == <<wire, off, session, client, spoiled, cuts>>
parserVars == <<l_CurrentParseState, k, checksum, len, payload, l_BadChecksumCount, handled, first>>
packetVars == <<senderVars, streamVars, parserVars>>

PACKET_SIZE == MAX_PAYLOAD_SiZE + 4
CHECKSUM_AT == MAX_PAYLOAD_SiZE + 3

Init ==
    /\ m_MessageCount \in FirstCounts
    /\ m_TXQ = <<>>
    /\ wire = <<>>
    /\ off = 0
    /\ session = "none"
    /\ client = "none"
    /\ l_CurrentParseState = "WAITING_FOR_STX"
    /\ k = 0
    /\ checksum = 0
    /\ len = 0
    /\ payload = [i \in 1..MAX_PAYLOAD_SiZE |-> 0]
    /\ l_BadChecksumCount = 0
    /\ sent = <<>>
    /\ handled = <<>>
    /\ first = 0
    /\ spoiled = {}
    /\ cuts = 0

-----------------------------------------------------------------------------
(* The sender *)

\* The sum of the first n bytes of a packet without its checksum.
CalculateChecksum(rng, length, data) ==
    LET byte(n) == CASE n = 1 -> WRAPPER_STX
                     [] n = 2 -> rng
                     [] n = 3 -> length
                     [] OTHER -> data[n - 3]
        sum[n \in 0..CHECKSUM_AT] == IF n = 0 THEN 0 ELSE (sum[n - 1] + byte(n)) % BYTE
    IN  sum[CHECKSUM_AT]

\* The whole packet goes into the queue under the lock of the queue.
BuildAndSendPacket(length, data) ==
    /\ Len(sent) < MaxPackets
    /\ m_MessageCount' = (m_MessageCount + 1) % BYTE
    /\ LET rng == m_MessageCount'
           bytes == <<WRAPPER_STX, rng, length>> \o data
                      \o <<CalculateChecksum(rng, length, data)>>
       IN  /\ sent' = Append(sent, bytes)
           /\ m_TXQ' = Append(m_TXQ, [bytes |-> bytes, n |-> Len(sent) + 1])
    /\ UNCHANGED <<streamVars, parserVars>>

\* NetworkThread::Connect starts the transmit thread, when the user asks for it.
Connect ==
    /\ session = "none"
    /\ session' = "open"
    /\ UNCHANGED <<senderVars, wire, off, client, spoiled, cuts, parserVars>>

\* NetworkThread::Disconnect ends it, whoever calls it; the queue stays.
Disconnect ==
    /\ session = "broken"
    /\ session' = "none"
    /\ UNCHANGED <<senderVars, wire, off, client, spoiled, cuts, parserVars>>

\* TXHandler takes what is queued up to the size of a packet, which is one packet
\* because packets are queued whole, and gives it to send().  The result is
\* ignored: the socket does not block, and may take none of it or a part.
TXHandler ==
    /\ session # "none"
    /\ m_TXQ # <<>>
    /\ LET p == Head(m_TXQ) IN
          \/ /\ session = "open"
             /\ wire' = Append(wire, [bytes |-> p.bytes, n |-> p.n, upto |-> PACKET_SIZE])
             /\ UNCHANGED <<spoiled, cuts>>
          \/ /\ spoiled' = spoiled \cup {p.n}
             /\ UNCHANGED <<wire, cuts>>
          \/ /\ session = "open"
             /\ cuts < MaxCuts
             /\ cuts' = cuts + 1
             /\ spoiled' = spoiled \cup {p.n}
             /\ \E upto \in 1..(PACKET_SIZE - 1) :
                   wire' = Append(wire, [bytes |-> p.bytes, n |-> p.n, upto |-> upto])
    /\ m_TXQ' = Tail(m_TXQ)
    /\ UNCHANGED <<m_MessageCount, sent, off, session, client, parserVars>>

-----------------------------------------------------------------------------
(* The connection, Server_Update *)

\* server.available() gives a client that has sent something.
Accept ==
    /\ client = "none"
    /\ wire # <<>>
    /\ client' = "connected"
    /\ UNCHANGED <<senderVars, wire, off, session, spoiled, cuts, parserVars>>

\* The connection breaks, or is shut.  What was on its way is lost, what is still
\* queued is not: it opens the next connection.  The firmware's end may not
\* notice: to client.connected() a silent break looks like a quiet client.
ConnectionBreaks ==
    /\ session = "open"
    /\ session' = "broken"
    /\ cuts < MaxCuts
    /\ cuts' = cuts + 1
    /\ client' \in IF client = "connected" THEN {"gone", "stale"} ELSE {client}
    /\ wire' = <<>>
    /\ off' = 0
    /\ spoiled' = spoiled \cup {wire[i].n : i \in 1..Len(wire)}
    /\ UNCHANGED <<senderVars, parserVars>>

\* The network chip gives up a connection that broke silently; it need not.
SocketTimesOut ==
    /\ client = "stale"
    /\ client' = "gone"
    /\ UNCHANGED <<senderVars, wire, off, session, spoiled, cuts, parserVars>>

\* Mutant of ClientStop: the dead client is kept.
KeepClient ==
    /\ client = "gone"
    /\ UNCHANGED packetVars

\* The parser is not told.
ClientStop ==
    /\ client = "gone"
    /\ client' = "none"
    /\ UNCHANGED <<senderVars, wire, off, session, spoiled, cuts, parserVars>>

\* One byte of a connected client.
Arriving == Head(wire)
NextByte == Arriving.bytes[off + 1]
EndOfPacket == off + 1 = Arriving.upto

ReadByte ==
    /\ client = "connected"
    /\ wire # <<>>
    /\ wire' = IF EndOfPacket THEN Tail(wire) ELSE wire
    /\ off' = IF EndOfPacket THEN 0 ELSE off + 1
    /\ UNCHANGED <<senderVars, session, client, spoiled, cuts>>

-----------------------------------------------------------------------------
(* The parser, l_ParsePacket, one action per state *)

In(state) == l_CurrentParseState = state
GoTo(state) == l_CurrentParseState' = state

\* Mutant of WaitingForSTX: the running checksum is not started again.
KeepChecksum ==
    /\ In("WAITING_FOR_STX")
    /\ ReadByte
    /\ IF NextByte = WRAPPER_STX
       THEN /\ k' = 0
            /\ first' = IF off = 0 THEN Arriving.n ELSE 0
            /\ GoTo("WAITING_FOR_RNG")
       ELSE UNCHANGED <<k, first, l_CurrentParseState>>
    /\ UNCHANGED <<checksum, len, payload, l_BadChecksumCount, handled>>

WaitingForSTX ==
    /\ In("WAITING_FOR_STX")
    /\ ReadByte
    /\ IF NextByte = WRAPPER_STX
       THEN /\ k' = 0
            /\ checksum' = WRAPPER_STX
            /\ first' = IF off = 0 THEN Arriving.n ELSE 0
            /\ GoTo("WAITING_FOR_RNG")
       ELSE UNCHANGED <<k, checksum, first, l_CurrentParseState>>
    /\ UNCHANGED <<len, payload, l_BadChecksumCount, handled>>

WaitingForRNG ==
    /\ In("WAITING_FOR_RNG")
    /\ ReadByte
    /\ checksum' = (checksum + NextByte) % BYTE
    /\ GoTo("WAITING_FOR_LEN")
    /\ UNCHANGED <<k, len, payload, l_BadChecksumCount, handled, first>>

WaitingForLEN ==
    /\ In("WAITING_FOR_LEN")
    /\ ReadByte
    /\ len' = NextByte
    /\ checksum' = (checksum + NextByte) % BYTE
    /\ GoTo(IF NextByte = 0 THEN "WAITING_FOR_CHECKSUM" ELSE "READING_PAYLOAD")
    /\ UNCHANGED <<k, payload, l_BadChecksumCount, handled, first>>

\* Mutant of ReadingPayload: the payload is over one byte late.
ReadOnePayloadByteMore ==
    /\ In("READING_PAYLOAD")
    /\ ReadByte
    /\ payload' = [payload EXCEPT ![k + 1] = NextByte]
    /\ checksum' = (checksum + NextByte) % BYTE
    /\ k' = k + 1
    /\ GoTo(IF k' > MAX_PAYLOAD_SiZE THEN "WAITING_FOR_CHECKSUM" ELSE "READING_PAYLOAD")
    /\ UNCHANGED <<len, l_BadChecksumCount, handled, first>>

ReadingPayload ==
    /\ In("READING_PAYLOAD")
    /\ ReadByte
    /\ payload' = [payload EXCEPT ![k + 1] = NextByte]
    /\ checksum' = (checksum + NextByte) % BYTE
    /\ k' = k + 1
    /\ GoTo(IF k' >= MAX_PAYLOAD_SiZE THEN "WAITING_FOR_CHECKSUM" ELSE "READING_PAYLOAD")
    /\ UNCHANGED <<len, l_BadChecksumCount, handled, first>>

\* Mutant of WaitingForChecksum: after a bad packet the parser stays where it is.
StayAfterBadChecksum ==
    /\ In("WAITING_FOR_CHECKSUM")
    /\ ReadByte
    /\ IF NextByte = checksum
       THEN /\ handled' = Append(handled, [data |-> payload,
                             n |-> IF first = Arriving.n /\ off + 1 = PACKET_SIZE
                                   THEN first ELSE 0])
            /\ GoTo("WAITING_FOR_STX")
            /\ UNCHANGED l_BadChecksumCount
       ELSE /\ l_BadChecksumCount' = l_BadChecksumCount + 1
            /\ UNCHANGED <<handled, l_CurrentParseState>>
    /\ UNCHANGED <<k, checksum, len, payload, first>>

\* A packet the parser saw from its first byte to its last keeps its number.
WaitingForChecksum ==
    /\ In("WAITING_FOR_CHECKSUM")
    /\ ReadByte
    /\ IF NextByte = checksum
       THEN /\ handled' = Append(handled, [data |-> payload,
                             n |-> IF first = Arriving.n /\ off + 1 = PACKET_SIZE
                                   THEN first ELSE 0])
            /\ UNCHANGED l_BadChecksumCount
       ELSE /\ l_BadChecksumCount' = l_BadChecksumCount + 1
            /\ UNCHANGED handled
    /\ GoTo("WAITING_FOR_STX")
    /\ UNCHANGED <<k, checksum, len, payload, first>>

-----------------------------------------------------------------------------
l_ParsePacket ==
    \/ WaitingForSTX
    \/ WaitingForRNG
    \/ WaitingForLEN
    \/ ReadingPayload
    \/ WaitingForChecksum

Server_Update == Accept \/ ClientStop \/ l_ParsePacket

Next ==
    \/ \E length \in Lengths, data \in Payloads : BuildAndSendPacket(length, data)
    \/ Connect
    \/ Disconnect
    \/ TXHandler
    \/ ConnectionBreaks
    \/ SocketTimesOut
    \/ Server_Update

Spec == Init /\ [][Next]_packetVars

\* The transmit thread runs while there is a session, and loop() calls
\* Server_Update over and over.  That the user connects, that a broken session
\* is noticed, that the chip gives up a dead connection: none of it is assumed.
FairSpec == Spec /\ WF_packetVars(TXHandler) /\ WF_packetVars(Server_Update)

-----------------------------------------------------------------------------
(* Properties *)

Packet == [1..PACKET_SIZE -> Bytes]

\* Types, and the parser's index within the payload.
TypeOK ==
    /\ m_MessageCount \in Bytes
    /\ m_TXQ \in Seq([bytes : Packet, n : 1..MaxPackets])
    /\ wire \in Seq([bytes : Packet, n : 1..MaxPackets, upto : 1..PACKET_SIZE])
    /\ off \in 0..(PACKET_SIZE - 1)
    /\ wire = <<>> => off = 0
    /\ session \in {"none", "open", "broken"}
    /\ client \in {"none", "connected", "gone", "stale"}
    /\ l_CurrentParseState \in {"WAITING_FOR_STX", "WAITING_FOR_RNG", "WAITING_FOR_LEN",
                                "READING_PAYLOAD", "WAITING_FOR_CHECKSUM"}
    /\ k \in 0..MAX_PAYLOAD_SiZE
    /\ In("READING_PAYLOAD") => k < MAX_PAYLOAD_SiZE
    /\ checksum \in Bytes
    /\ len \in Bytes
    /\ payload \in [1..MAX_PAYLOAD_SiZE -> Bytes]
    /\ l_BadChecksumCount \in Nat
    /\ sent \in Seq(Packet)
    /\ handled \in Seq([data : [1..MAX_PAYLOAD_SiZE -> Bytes], n : 0..MaxPackets])
    /\ first \in 0..MaxPackets
    /\ spoiled \subseteq 1..MaxPackets
    /\ cuts \in 0..MaxCuts

\* Packets that were sent whole and have gone through the parser.
Passed == ((1..Len(sent)) \ spoiled)
            \ ({wire[i].n : i \in 1..Len(wire)} \cup {m_TXQ[i].n : i \in 1..Len(m_TXQ)})

Handled == {handled[i].n : i \in 1..Len(handled)} \ {0}

\* As long as the stream is not cut inside a packet the parser never loses its
\* place, whatever the payloads hold, the start byte included: exactly the
\* packets that passed are handled, in order and with their payloads, and none
\* is rejected.
FramingExact ==
    cuts = 0 =>
        /\ l_BadChecksumCount = 0
        /\ Handled = Passed
        /\ \A i \in 1..Len(handled) :
              /\ handled[i].n # 0
              /\ handled[i].data = SubSeq(sent[handled[i].n], 4, CHECKSUM_AT)
              /\ i > 1 => handled[i - 1].n < handled[i].n

\* A packet with no start byte after its first byte.
Quiet(bytes) == \A i \in 2..PACKET_SIZE : bytes[i] # WRAPPER_STX

\* Nobody resets the parser when the client changes or a packet stops half way.
\* Still, a cut costs at most one of the packets that come through whole, if they
\* are quiet: the rest of a broken packet swallows the start of the next one,
\* never more.
CutCostsOnePacket ==
    (\A n \in 1..Len(sent) : Quiet(sent[n])) => Cardinality(Passed \ Handled) <= cuts

\* While a session lasts every packet gets through the parser or is lost: the
\* parser never stops reading, whatever state a cut or an earlier client left it
\* in.  The exception is a client whose connection broke silently: the firmware
\* holds on to it and reads nothing else.
StreamDrains ==
    []<>(session # "open" \/ client = "stale" \/ (m_TXQ = <<>> /\ wire = <<>>))
==============================================================================

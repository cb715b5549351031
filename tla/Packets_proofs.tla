--------------------------- MODULE Packets_proofs ----------------------------
(* What the framing of packets guarantees for every payload size, start byte, *)
(* set of payloads and number of packets and cuts, proved from the            *)
(* definitions of Packets.                                                    *)
EXTENDS Packets, WellFoundedInduction, SequenceTheorems, FiniteSetTheorems, TLAPS

-----------------------------------------------------------------------------
(* Induction over the numbers stated for sets, and recursion over a number *)

\* A set of numbers has a least one.
LEMMA LeastNumber ==
    ASSUME NEW T, T \subseteq Nat, T # {}
    PROVE  \E x \in T : \A y \in T : x <= y
  <1> DEFINE R == OpToRel(<, Nat)
  <1>1. IsWellFoundedOn(R, Nat)
    BY NatLessThanWellFounded
  <1>2. \A x, y \in Nat : x < y => <<x, y>> \in R
    BY DEF OpToRel
  <1> HIDE DEF R
  <1>3. PICK x \in T : \A y \in T : ~(<<y, x>> \in R)
    BY <1>1, WFMin
  <1>4. \A y \in T : y \in Nat /\ x \in Nat /\ ~(y < x)
    BY <1>2, <1>3
  <1>5. \A y \in T : x <= y
    BY <1>4
  <1> QED
    BY <1>5

\* A set of numbers that holds 0 and, with a number, the next one, holds all.
LEMMA SetInduction ==
    ASSUME NEW S \in SUBSET Nat, 0 \in S, \A n \in S : n + 1 \in S
    PROVE  S = Nat
  <1> SUFFICES ASSUME Nat \ S # {} PROVE FALSE
    OBVIOUS
  <1>1. PICK x \in Nat \ S : \A y \in Nat \ S : x <= y
    BY LeastNumber
  <1>2. x # 0 /\ x - 1 \in Nat /\ ~(x <= x - 1)
    BY <1>1
  <1>3. x - 1 \in S /\ (x - 1) + 1 = x
    BY <1>1, <1>2
  <1> QED
    BY <1>1, <1>3

\* The first steps of the recursion that starts at v and goes on with G.
Prefix(G, v, n, h) ==
    /\ h[0] = v
    /\ \A i \in 0..n : i > 0 => h[i] = G[<<i - 1, h[i - 1]>>]

\* A recursion over a number has runs of every length.
LEMMA PrefixExists ==
    ASSUME NEW V, NEW v \in V, NEW G \in [Nat \X V -> V], NEW n \in Nat
    PROVE  \E h \in [0..n -> V] : Prefix(G, v, n, h)
  <1> DEFINE S == {i \in Nat : \E h \in [0..i -> V] : Prefix(G, v, i, h)}
  <1>1. 0 \in S
    <2>1. [i \in 0..0 |-> v] \in [0..0 -> V]
      OBVIOUS
    <2>2. Prefix(G, v, 0, [i \in 0..0 |-> v])
      BY DEF Prefix
    <2> QED
      BY <2>1, <2>2
  <1>2. ASSUME NEW i \in S PROVE i + 1 \in S
    <2>1. i \in Nat /\ i + 1 \in Nat /\ i \in 0..i
      BY <1>2
    <2>2. PICK h \in [0..i -> V] : Prefix(G, v, i, h)
      BY <1>2
    <2>3. h[i] \in V
      BY <2>1, <2>2
    <2> DEFINE w == G[<<i, h[i]>>]
               g == [j \in 0..(i + 1) |-> IF j <= i THEN h[j] ELSE w]
    <2>4. w \in V
      BY <2>1, <2>3
    <2>5. \A j \in 0..(i + 1) : j <= i => j \in 0..i
      BY <2>1
    <2>6. \A j \in 0..(i + 1) : j <= i => h[j] \in V
      BY <2>2, <2>5
    <2>7. g \in [0..(i + 1) -> V]
      BY <2>4, <2>6
    <2>8. ASSUME NEW j \in 0..(i + 1), j > 0 PROVE g[j] = G[<<j - 1, g[j - 1]>>]
      <3>1. j - 1 \in 0..(i + 1) /\ j - 1 <= i /\ (j - 1) \in 0..i
        BY <2>1, <2>8
      <3>2. g[j - 1] = h[j - 1]
        BY <3>1
      <3>3. CASE j <= i
        <4>1. j \in 0..i /\ j > 0
          BY <2>8, <2>1, <3>3
        <4>2. h[j] = G[<<j - 1, h[j - 1]>>]
          BY <4>1, <2>2 DEF Prefix
        <4>3. g[j] = h[j]
          BY <3>3, <2>8
        <4> QED
          BY <3>2, <4>2, <4>3
      <3>4. CASE ~(j <= i)
        <4>1. j - 1 = i
          BY <2>1, <2>8, <3>4
        <4>2. g[j] = w
          BY <3>4, <2>8
        <4> QED
          BY <3>2, <4>1, <4>2
      <3> QED
        BY <3>3, <3>4
    <2>9. g[0] = v
      <3>1. 0 \in 0..(i + 1) /\ 0 <= i
        BY <2>1
      <3>2. g[0] = h[0]
        BY <3>1
      <3> QED
        BY <3>2, <2>2 DEF Prefix
    <2> HIDE DEF g
    <2>10. Prefix(G, v, i + 1, g)
      BY <2>8, <2>9 DEF Prefix
    <2> QED
      BY <2>1, <2>7, <2>10
  <1> HIDE DEF S
  <1>3. S \in SUBSET Nat
    BY DEF S
  <1>4. n \in S
    BY <1>1, <1>2, <1>3, SetInduction
  <1> QED
    BY <1>4 DEF S

-----------------------------------------------------------------------------
(* Bytes and their sums *)

\* The sizes of a packet.
LEMMA Sizes ==
    /\ MAX_PAYLOAD_SiZE \in Nat /\ MAX_PAYLOAD_SiZE >= 1
    /\ PACKET_SIZE = MAX_PAYLOAD_SiZE + 4
    /\ CHECKSUM_AT = MAX_PAYLOAD_SiZE + 3
    /\ PACKET_SIZE \in Nat /\ CHECKSUM_AT \in Nat
    /\ 0 \in Bytes /\ WRAPPER_STX \in Bytes /\ WRAPPER_STX # 0
  BY PacketAssumption DEF PACKET_SIZE, CHECKSUM_AT, Bytes

\* A sum is kept in a byte.
LEMMA ByteSum ==
    ASSUME NEW x \in Bytes, NEW y \in Bytes
    PROVE  /\ (x + y) % BYTE \in Bytes
           /\ (0 + y) % BYTE = y
  <1>1. BYTE \in Nat /\ BYTE > 0 /\ x \in Nat /\ y \in Nat /\ y < BYTE
    BY PacketAssumption DEF Bytes
  <1>2. x + y \in Nat
    BY <1>1
  <1>3. \A z \in Nat : z % BYTE \in 0..(BYTE - 1)
    BY <1>1
  <1>4. y % BYTE = y
    BY <1>1
  <1> QED
    BY <1>1, <1>2, <1>3, <1>4 DEF Bytes

\* The sums of the first bytes of a packet b.
SumsOf(s, b) ==
    /\ s[0] = 0
    /\ \A n \in 1..CHECKSUM_AT : s[n] = (s[n - 1] + b[n]) % BYTE

\* What a receiver may rely on in a packet: the start byte, a length that is not
\* 0, and the sum of the bytes before it in the last place.
WellFormed(b) ==
    /\ b \in Packet
    /\ b[1] = WRAPPER_STX
    /\ b[3] # 0
    /\ \E s \in [0..CHECKSUM_AT -> Bytes] : SumsOf(s, b) /\ b[PACKET_SIZE] = s[CHECKSUM_AT]

\* The bytes before the checksum.
Body(rng, length, data) == <<WRAPPER_STX, rng, length>> \o data

LEMMA BodyBytes ==
    ASSUME NEW rng \in Bytes, NEW length \in Bytes, NEW data \in Payloads
    PROVE  LET body == Body(rng, length, data)
           IN  /\ body \in Seq(Bytes) /\ Len(body) = CHECKSUM_AT
               /\ body[1] = WRAPPER_STX /\ body[2] = rng /\ body[3] = length
               /\ \A i \in 1..CHECKSUM_AT : i > 3 => body[i] = data[i - 3]
  <1> DEFINE head == <<WRAPPER_STX, rng, length>>
  <1>1. head \in Seq(Bytes) /\ Len(head) = 3
        /\ head[1] = WRAPPER_STX /\ head[2] = rng /\ head[3] = length
    BY Sizes
  <1>2. data \in [1..MAX_PAYLOAD_SiZE -> Bytes]
    BY PacketAssumption
  <1>3. data \in Seq(Bytes)
    BY <1>2, Sizes, SeqDef
  <1>4. Len(data) = MAX_PAYLOAD_SiZE
    <2>1. DOMAIN data = 1..Len(data) /\ Len(data) \in Nat
      BY <1>3, LenProperties
    <2>2. DOMAIN data = 1..MAX_PAYLOAD_SiZE
      BY <1>2
    <2>3. MAX_PAYLOAD_SiZE \in 1..MAX_PAYLOAD_SiZE
      BY Sizes
    <2>4. MAX_PAYLOAD_SiZE \in 1..Len(data)
      BY <2>1, <2>2, <2>3
    <2>5. Len(data) \in 1..Len(data)
      BY <2>1, <2>4
    <2>6. Len(data) \in 1..MAX_PAYLOAD_SiZE
      BY <2>1, <2>2, <2>5
    <2>7. Len(data) \in Nat /\ MAX_PAYLOAD_SiZE <= Len(data) /\ Len(data) <= MAX_PAYLOAD_SiZE
      BY <2>1, <2>4, <2>6
    <2> QED
      BY <2>7, PacketAssumption
  <1> HIDE DEF head
  <1>5. /\ head \o data \in Seq(Bytes)
        /\ Len(head \o data) = Len(head) + Len(data)
        /\ \A i \in 1..Len(head) + Len(data) :
              (head \o data)[i] = IF i <= Len(head) THEN head[i] ELSE data[i - Len(head)]
    BY <1>1, <1>3, ConcatProperties
  <1>6. Len(head) + Len(data) = CHECKSUM_AT
    BY <1>1, <1>4, Sizes
  <1>7. 1 \in 1..CHECKSUM_AT /\ 2 \in 1..CHECKSUM_AT /\ 3 \in 1..CHECKSUM_AT
    BY Sizes
  <1>8. \A i \in 1..CHECKSUM_AT : i > 3 => ~(i <= 3)
    BY Sizes
  <1>9. Body(rng, length, data) = head \o data
    BY DEF Body, head
  <1> QED
    BY <1>1, <1>5, <1>6, <1>7, <1>8, <1>9

\* The function CalculateChecksum defines exists, so it is what it says.
LEMMA ChecksumIsSum ==
    ASSUME NEW rng \in Bytes, NEW length \in Bytes, NEW data \in Payloads
    PROVE  \E s \in [0..CHECKSUM_AT -> Bytes] :
              SumsOf(s, Body(rng, length, data)) /\ CalculateChecksum(rng, length, data) = s[CHECKSUM_AT]
  <1> DEFINE byte(n) == CASE n = 1 -> WRAPPER_STX
                          [] n = 2 -> rng
                          [] n = 3 -> length
                          [] OTHER -> data[n - 3]
             sum[n \in 0..CHECKSUM_AT] == IF n = 0 THEN 0 ELSE (sum[n - 1] + byte(n)) % BYTE
             body == Body(rng, length, data)
             G == [x \in Nat \X Bytes |->
                      IF x[1] + 1 <= CHECKSUM_AT THEN (x[2] + body[x[1] + 1]) % BYTE ELSE 0]
  <1>1. CalculateChecksum(rng, length, data) = sum[CHECKSUM_AT]
    BY DEF CalculateChecksum
  <1>2. /\ body \in Seq(Bytes) /\ Len(body) = CHECKSUM_AT
        /\ body[1] = WRAPPER_STX /\ body[2] = rng /\ body[3] = length
        /\ \A i \in 1..CHECKSUM_AT : i > 3 => body[i] = data[i - 3]
    BY BodyBytes
  <1>3. \A i \in 1..CHECKSUM_AT : body[i] \in Bytes /\ body[i] = byte(i)
    BY <1>2, Sizes
  <1>4. G \in [Nat \X Bytes -> Bytes]
    <2>1. ASSUME NEW x \in Nat \X Bytes, x[1] + 1 <= CHECKSUM_AT
          PROVE  (x[2] + body[x[1] + 1]) % BYTE \in Bytes
      <3>1. x[1] + 1 \in 1..CHECKSUM_AT
        BY <2>1, Sizes
      <3>2. x[2] \in Bytes
        BY <2>1
      <3> QED
        BY <3>1, <3>2, <1>3, ByteSum
    <2> QED
      BY <2>1, Sizes
  <1> HIDE DEF body, byte
  <1>5. \A i \in Nat, v \in Bytes : i + 1 <= CHECKSUM_AT => G[<<i, v>>] = (v + body[i + 1]) % BYTE
    OBVIOUS
  <1> HIDE DEF G
  <1>6. PICK h \in [0..CHECKSUM_AT -> Bytes] : Prefix(G, 0, CHECKSUM_AT, h)
    BY <1>4, Sizes, PrefixExists
  <1>7. ASSUME NEW n \in 1..CHECKSUM_AT PROVE h[n] = (h[n - 1] + body[n]) % BYTE
    <2>1. n \in 0..CHECKSUM_AT /\ n > 0 /\ n - 1 \in 0..CHECKSUM_AT /\ n - 1 \in Nat
          /\ (n - 1) + 1 = n /\ n <= CHECKSUM_AT
      BY Sizes
    <2>2. h[n] = G[<<n - 1, h[n - 1]>>]
      BY <1>6, <2>1 DEF Prefix
    <2>3. h[n - 1] \in Bytes
      BY <2>1
    <2> QED
      BY <1>5, <2>1, <2>2, <2>3
  <1>8. h[0] = 0
    BY <1>6 DEF Prefix
  <1>9. h = [n \in 0..CHECKSUM_AT |-> IF n = 0 THEN 0 ELSE (h[n - 1] + byte(n)) % BYTE]
    <2>1. ASSUME NEW n \in 0..CHECKSUM_AT, n # 0
          PROVE  h[n] = (h[n - 1] + byte(n)) % BYTE
      <3>1. n \in 1..CHECKSUM_AT
        BY <2>1
      <3> QED
        BY <3>1, <1>3, <1>7
    <2> QED
      BY <2>1, <1>8
  <1>10. sum = [n \in 0..CHECKSUM_AT |-> IF n = 0 THEN 0 ELSE (sum[n - 1] + byte(n)) % BYTE]
    BY <1>9, Zenon
  <1> HIDE DEF sum
  <1>11. \A n \in 0..CHECKSUM_AT : sum[n] = IF n = 0 THEN 0 ELSE (sum[n - 1] + byte(n)) % BYTE
    BY <1>10, Zenon
  <1>12. \A n \in 0..CHECKSUM_AT : sum[n] = h[n]
    <2> DEFINE S == {n \in Nat : n <= CHECKSUM_AT => sum[n] = h[n]}
    <2>1. 0 \in S
      BY <1>8, <1>11, Sizes
    <2>2. ASSUME NEW n \in S PROVE n + 1 \in S
      <3>1. n \in Nat /\ n + 1 \in Nat /\ (n + 1) - 1 = n
        BY <2>2
      <3>2. ASSUME n + 1 <= CHECKSUM_AT PROVE sum[n + 1] = h[n + 1]
        <4>1. n + 1 \in 0..CHECKSUM_AT /\ n + 1 \in 1..CHECKSUM_AT /\ n + 1 # 0 /\ n <= CHECKSUM_AT
          BY <3>1, <3>2, Sizes
        <4>2. sum[n] = h[n]
          BY <2>2, <4>1
        <4>3. sum[n + 1] = (sum[(n + 1) - 1] + byte(n + 1)) % BYTE
          BY <1>11, <4>1
        <4>4. h[n + 1] = (h[(n + 1) - 1] + body[n + 1]) % BYTE
          BY <1>7, <4>1
        <4>5. body[n + 1] = byte(n + 1)
          BY <1>3, <4>1
        <4> QED
          BY <3>1, <4>2, <4>3, <4>4, <4>5
      <3> QED
        BY <3>1, <3>2
    <2> HIDE DEF S
    <2>3. S \in SUBSET Nat
      BY DEF S
    <2>4. S = Nat
      BY <2>1, <2>2, <2>3, SetInduction
    <2>5. \A n \in 0..CHECKSUM_AT : n \in S /\ n <= CHECKSUM_AT
      BY <2>4, Sizes
    <2> QED
      BY <2>5 DEF S
  <1>13. SumsOf(h, body)
    BY <1>7, <1>8 DEF SumsOf
  <1>14. sum[CHECKSUM_AT] = h[CHECKSUM_AT]
    BY <1>12, Sizes
  <1> QED
    BY <1>1, <1>13, <1>14 DEF body

\* What BuildAndSendPacket queues is a packet its receiver can rely on.
LEMMA PacketWellFormed ==
    ASSUME NEW rng \in Bytes, NEW length \in Lengths, NEW data \in Payloads
    PROVE  WellFormed(Body(rng, length, data) \o <<CalculateChecksum(rng, length, data)>>)
  <1> DEFINE body == Body(rng, length, data)
             c == CalculateChecksum(rng, length, data)
             b == body \o <<c>>
  <1>1. length \in Bytes /\ length # 0
    BY PacketAssumption
  <1>2. PICK s \in [0..CHECKSUM_AT -> Bytes] : SumsOf(s, body) /\ c = s[CHECKSUM_AT]
    BY <1>1, ChecksumIsSum
  <1>3. body \in Seq(Bytes) /\ Len(body) = CHECKSUM_AT /\ body[1] = WRAPPER_STX /\ body[3] = length
    BY <1>1, BodyBytes
  <1>4. c \in Bytes
    BY <1>2, Sizes
  <1> HIDE DEF body, c
  <1>5. <<c>> \in Seq(Bytes) /\ Len(<<c>>) = 1 /\ <<c>>[1] = c
    BY <1>4
  <1>6. /\ b \in Seq(Bytes) /\ Len(b) = Len(body) + Len(<<c>>)
        /\ \A i \in 1..Len(body) + Len(<<c>>) :
              b[i] = IF i <= Len(body) THEN body[i] ELSE <<c>>[i - Len(body)]
    BY <1>3, <1>5, ConcatProperties
  <1> HIDE DEF b
  <1>7. Len(body) + Len(<<c>>) = PACKET_SIZE /\ PACKET_SIZE - CHECKSUM_AT = 1
    BY <1>3, <1>5, Sizes
  <1>8. b \in [1..PACKET_SIZE -> Bytes]
    BY <1>6, <1>7, LenProperties
  <1>9. \A i \in 1..CHECKSUM_AT : i \in 1..PACKET_SIZE /\ i <= CHECKSUM_AT
    BY Sizes
  <1>10. \A i \in 1..CHECKSUM_AT : b[i] = body[i]
    BY <1>3, <1>6, <1>7, <1>9
  <1>11. b[PACKET_SIZE] = c
    <2>1. PACKET_SIZE \in 1..PACKET_SIZE /\ ~(PACKET_SIZE <= CHECKSUM_AT)
      BY Sizes
    <2> QED
      BY <1>3, <1>5, <1>6, <1>7, <2>1
  <1>12. SumsOf(s, b)
    BY <1>2, <1>10 DEF SumsOf
  <1>13. b[1] = WRAPPER_STX /\ b[3] = length
    <2>1. 1 \in 1..CHECKSUM_AT /\ 3 \in 1..CHECKSUM_AT
      BY Sizes
    <2> QED
      BY <1>3, <1>10, <2>1
  <1>14. WellFormed(b)
    BY <1>1, <1>2, <1>8, <1>11, <1>12, <1>13 DEF WellFormed, Packet
  <1> QED
    BY <1>14 DEF b, body, c

-----------------------------------------------------------------------------
(* Type correctness *)

Entry == [bytes : Packet, n : 1..MaxPackets]
Sending == [bytes : Packet, n : 1..MaxPackets, upto : 1..PACKET_SIZE]

\* What is queued is a packet with the next number.
LEMMA BuildFacts ==
    ASSUME TypeOK, NEW length \in Lengths, NEW data \in Payloads, BuildAndSendPacket(length, data)
    PROVE  \E e \in Entry :
              /\ WellFormed(e.bytes)
              /\ e.n = Len(sent) + 1
              /\ m_TXQ' = Append(m_TXQ, e)
              /\ sent' = Append(sent, e.bytes)
              /\ m_MessageCount' \in Bytes
  <1> DEFINE bytes == Body(m_MessageCount', length, data)
                        \o <<CalculateChecksum(m_MessageCount', length, data)>>
             e == [bytes |-> bytes, n |-> Len(sent) + 1]
  <1>1. m_MessageCount' \in Bytes
    <2>1. m_MessageCount + 1 \in Nat /\ \A z \in Nat : z % BYTE \in 0..(BYTE - 1)
      BY PacketAssumption DEF TypeOK, Bytes
    <2> QED
      BY <2>1 DEF BuildAndSendPacket, Bytes
  <1>2. WellFormed(bytes)
    BY <1>1, PacketWellFormed
  <1>3. sent' = Append(sent, bytes) /\ m_TXQ' = Append(m_TXQ, e)
    BY DEF BuildAndSendPacket, Body
  <1>4. Len(sent) < MaxPackets /\ Len(sent) \in Nat
    BY DEF BuildAndSendPacket, TypeOK
  <1>5. Len(sent) + 1 \in 1..MaxPackets
    BY <1>4, PacketAssumption
  <1> HIDE DEF bytes
  <1>6. e \in Entry /\ e.bytes = bytes /\ e.n = Len(sent) + 1
    BY <1>2, <1>5 DEF WellFormed, Entry
  <1> QED
    BY <1>1, <1>2, <1>3, <1>6

\* What TXHandler takes from the queue goes out whole, in part, or not at all.
LEMMA TransmitFacts ==
    ASSUME TypeOK, TXHandler
    PROVE  LET p == Head(m_TXQ) IN
           /\ m_TXQ # <<>> /\ p \in Entry /\ m_TXQ' = Tail(m_TXQ) /\ m_TXQ' \in Seq(Entry)
           /\ \/ /\ UNCHANGED <<wire, cuts>>
                 /\ spoiled' = spoiled \cup {p.n}
              \/ \E e \in Sending :
                    /\ e.bytes = p.bytes /\ e.n = p.n
                    /\ wire' = Append(wire, e)
                    /\ \/ e.upto = PACKET_SIZE /\ UNCHANGED <<spoiled, cuts>>
                       \/ /\ e.upto < PACKET_SIZE /\ spoiled' = spoiled \cup {p.n}
                          /\ cuts < MaxCuts /\ cuts' = cuts + 1
  <1> DEFINE p == Head(m_TXQ)
  <1>1. m_TXQ # <<>> /\ m_TXQ \in Seq(Entry)
    BY DEF TXHandler, TypeOK, Entry
  <1>2. p \in Entry /\ Tail(m_TXQ) \in Seq(Entry)
    BY <1>1
  <1>3. p.bytes \in Packet /\ p.n \in 1..MaxPackets
    BY <1>2 DEF Entry
  <1>4. \A u \in 1..PACKET_SIZE : [bytes |-> p.bytes, n |-> p.n, upto |-> u] \in Sending
    BY <1>3 DEF Sending
  <1>5. PACKET_SIZE \in 1..PACKET_SIZE
        /\ \A u \in 1..(PACKET_SIZE - 1) : u \in 1..PACKET_SIZE /\ u < PACKET_SIZE
    BY Sizes
  <1>6. m_TXQ' = Tail(m_TXQ)
    BY DEF TXHandler
  <1> HIDE DEF p
  <1>7. CASE wire' = Append(wire, [bytes |-> p.bytes, n |-> p.n, upto |-> PACKET_SIZE])
             /\ UNCHANGED <<spoiled, cuts>>
    <2> DEFINE e == [bytes |-> p.bytes, n |-> p.n, upto |-> PACKET_SIZE]
    <2>1. e \in Sending /\ e.bytes = p.bytes /\ e.n = p.n /\ e.upto = PACKET_SIZE
      BY <1>4, <1>5
    <2> QED
      BY <1>1, <1>2, <1>6, <1>7, <2>1 DEF p
  <1>8. CASE spoiled' = spoiled \cup {p.n} /\ UNCHANGED <<wire, cuts>>
    BY <1>1, <1>2, <1>6, <1>8 DEF p
  <1>9. CASE /\ cuts < MaxCuts
             /\ cuts' = cuts + 1
             /\ spoiled' = spoiled \cup {p.n}
             /\ \E upto \in 1..(PACKET_SIZE - 1) :
                   wire' = Append(wire, [bytes |-> p.bytes, n |-> p.n, upto |-> upto])
    <2>1. PICK upto \in 1..(PACKET_SIZE - 1) :
                   wire' = Append(wire, [bytes |-> p.bytes, n |-> p.n, upto |-> upto])
      BY <1>9
    <2> DEFINE e == [bytes |-> p.bytes, n |-> p.n, upto |-> upto]
    <2>2. e \in Sending /\ e.bytes = p.bytes /\ e.n = p.n /\ e.upto = upto
      BY <1>4, <1>5
    <2>3. wire' = Append(wire, e) /\ e.upto < PACKET_SIZE
      BY <1>5, <2>1, <2>2
    <2> QED
      BY <1>1, <1>2, <1>6, <1>9, <2>2, <2>3 DEF p
  <1> QED
    BY <1>7, <1>8, <1>9 DEF TXHandler, p

\* A sequence with one element more, and with one element less.
LEMMA AppendFacts ==
    ASSUME NEW S, NEW q \in Seq(S), NEW e \in S
    PROVE  /\ Append(q, e) \in Seq(S)
           /\ Len(Append(q, e)) = Len(q) + 1 /\ Len(q) \in Nat
           /\ Append(q, e) # <<>>
           /\ Append(q, e)[Len(q) + 1] = e
           /\ \A i \in 1..Len(q) : i \in 1..(Len(q) + 1) /\ Append(q, e)[i] = q[i]
           /\ \A i \in 1..(Len(q) + 1) : i \in 1..Len(q) \/ i = Len(q) + 1
  <1>1. Len(q) \in Nat /\ Append(q, e) \in Seq(S) /\ Len(Append(q, e)) = Len(q) + 1
    OBVIOUS
  <1>2. \A i \in 1..(Len(q) + 1) : Append(q, e)[i] = IF i = Len(q) + 1 THEN e ELSE q[i]
    OBVIOUS
  <1>3. /\ \A i \in 1..Len(q) : i \in 1..(Len(q) + 1) /\ i # Len(q) + 1
        /\ \A i \in 1..(Len(q) + 1) : i \in 1..Len(q) \/ i = Len(q) + 1
        /\ Len(q) + 1 \in 1..(Len(q) + 1)
    BY <1>1
  <1>4. Append(q, e) # <<>>
    BY <1>1, EmptySeq
  <1> QED
    BY <1>1, <1>2, <1>3, <1>4

LEMMA TailFacts ==
    ASSUME NEW S, NEW q \in Seq(S), q # <<>>
    PROVE  /\ Tail(q) \in Seq(S) /\ Head(q) \in S
           /\ Len(Tail(q)) = Len(q) - 1 /\ Len(q) \in Nat
           /\ Head(q) = q[1] /\ 1 \in 1..Len(q)
           /\ \A i \in 1..Len(Tail(q)) : i + 1 \in 1..Len(q) /\ Tail(q)[i] = q[i + 1] /\ 1 < i + 1
           /\ \A i \in 1..Len(q) : i # 1 => i - 1 \in 1..Len(Tail(q)) /\ Tail(q)[i - 1] = q[i]
  <1>1. Len(q) \in Nat /\ Len(q) >= 1 /\ Head(q) = q[1] /\ Head(q) \in S
    OBVIOUS
  <1>2. Tail(q) \in Seq(S) /\ Len(Tail(q)) = Len(q) - 1
        /\ \A i \in 1..Len(Tail(q)) : Tail(q)[i] = q[i + 1]
    BY HeadTailProperties
  <1>3. ASSUME NEW i \in 1..Len(q), i # 1
        PROVE  i - 1 \in 1..Len(Tail(q)) /\ Tail(q)[i - 1] = q[i]
    <2>1. i - 1 \in 1..Len(Tail(q)) /\ (i - 1) + 1 = i
      BY <1>1, <1>2, <1>3
    <2> QED
      BY <1>2, <2>1
  <1>4. 1 \in 1..Len(q) /\ \A i \in 1..Len(Tail(q)) : i + 1 \in 1..Len(q) /\ 1 < i + 1
    BY <1>1, <1>2
  <1> QED
    BY <1>1, <1>2, <1>3, <1>4

\* The packets of a queue carry the bytes that were sent under their numbers.
IsSent(q, s) == \A i \in 1..Len(q) : q[i].n \in 1..Len(s) /\ q[i].bytes = s[q[i].n]

InOrder(q) == \A i, j \in 1..Len(q) : i < j => q[i].n < q[j].n

Before(q, r) == \A i \in 1..Len(q), j \in 1..Len(r) : q[i].n < r[j].n

\* The sender's side of the invariant: packets are on their way in the order they
\* were sent, whatever is lost, and the reader is inside the first of them.
StreamOK ==
    /\ \A i \in 1..Len(sent) : WellFormed(sent[i])
    /\ IsSent(m_TXQ, sent) /\ IsSent(wire, sent)
    /\ InOrder(m_TXQ) /\ InOrder(wire)
    /\ Before(wire, m_TXQ)
    /\ wire # <<>> => off < wire[1].upto

\* The byte that is read is a byte of the packet it belongs to.
LEMMA ReadFacts ==
    ASSUME TypeOK, StreamOK, ReadByte
    PROVE  /\ client = "connected" /\ wire # <<>> /\ UNCHANGED <<senderVars, session, client, spoiled, cuts>>
           /\ Arriving \in Sending /\ NextByte \in Bytes /\ Arriving = wire[1]
           /\ off + 1 \in 1..Arriving.upto /\ off + 1 \in 1..PACKET_SIZE
           /\ Arriving.n \in 1..Len(sent) /\ Arriving.bytes = sent[Arriving.n]
           /\ Arriving.upto \in 1..PACKET_SIZE
           /\ \/ EndOfPacket /\ wire' = Tail(wire) /\ off' = 0
              \/ ~EndOfPacket /\ wire' = wire /\ off' = off + 1 /\ off + 1 < Arriving.upto
           /\ wire' \in Seq(Sending) /\ off' \in 0..(PACKET_SIZE - 1)
  <1>1. client = "connected" /\ wire # <<>> /\ UNCHANGED <<senderVars, session, client, spoiled, cuts>>
    BY DEF ReadByte
  <1>2. wire \in Seq(Sending) /\ off \in 0..(PACKET_SIZE - 1)
    BY DEF TypeOK, Sending
  <1>3. Arriving \in Sending /\ Arriving = wire[1] /\ 1 \in 1..Len(wire) /\ Tail(wire) \in Seq(Sending)
    BY <1>1, <1>2, TailFacts DEF Arriving
  <1>4. off < Arriving.upto /\ Arriving.n \in 1..Len(sent) /\ Arriving.bytes = sent[Arriving.n]
    BY <1>1, <1>3 DEF StreamOK, IsSent
  <1>5. Arriving.upto \in 1..PACKET_SIZE /\ Arriving.bytes \in [1..PACKET_SIZE -> Bytes]
    BY <1>3 DEF Sending, Packet
  <1>6. off + 1 \in 1..Arriving.upto /\ off + 1 \in 1..PACKET_SIZE
    BY <1>2, <1>4, <1>5, Sizes
  <1>7. NextByte \in Bytes
    BY <1>5, <1>6 DEF NextByte
  <1>8. CASE EndOfPacket
    <2>1. wire' = Tail(wire) /\ off' = 0
      BY <1>8 DEF ReadByte
    <2> QED
      BY <1>1, <1>3, <1>4, <1>5, <1>6, <1>7, <1>8, <2>1, Sizes
  <1>9. CASE ~EndOfPacket
    <2>1. wire' = wire /\ off' = off + 1
      BY <1>9 DEF ReadByte
    <2>2. off + 1 < Arriving.upto
      BY <1>6, <1>5, <1>2, <1>9, Sizes DEF EndOfPacket
    <2>3. off + 1 \in 0..(PACKET_SIZE - 1)
      BY <1>2, <1>5, <2>2, Sizes
    <2> QED
      BY <1>1, <1>2, <1>3, <1>4, <1>5, <1>6, <1>7, <1>9, <2>1, <2>2, <2>3
  <1> QED
    BY <1>8, <1>9

\* No step puts a packet on its way out of order, or changes its bytes.
LEMMA StreamNext ==
    ASSUME TypeOK, StreamOK, [Next]_packetVars
    PROVE  StreamOK'
  <1>a. /\ m_TXQ \in Seq(Entry) /\ wire \in Seq(Sending) /\ sent \in Seq(Packet)
        /\ Len(sent) \in Nat /\ Len(wire) \in Nat /\ Len(m_TXQ) \in Nat
        /\ off \in Nat
    BY Sizes DEF TypeOK, Entry, Sending
  <1>b. /\ \A i \in 1..Len(m_TXQ) : m_TXQ[i].n \in Nat
        /\ \A i \in 1..Len(wire) : wire[i].n \in Nat /\ wire[i].upto \in Nat
    <2>1. \A i \in 1..Len(m_TXQ) : m_TXQ[i] \in Entry
      BY <1>a, ElementOfSeq
    <2>2. \A i \in 1..Len(wire) : wire[i] \in Sending
      BY <1>a, ElementOfSeq
    <2> QED
      BY <2>1, <2>2 DEF Entry, Sending
  <1>1. ASSUME NEW length \in Lengths, NEW data \in Payloads, BuildAndSendPacket(length, data)
        PROVE  StreamOK'
    <2>1. PICK e \in Entry :
              WellFormed(e.bytes) /\ e.n = Len(sent) + 1
              /\ m_TXQ' = Append(m_TXQ, e) /\ sent' = Append(sent, e.bytes)
      BY <1>1, BuildFacts
    <2>2. e.bytes \in Packet
      BY DEF Entry
    <2>3. /\ Len(sent') = Len(sent) + 1 /\ sent'[Len(sent) + 1] = e.bytes
          /\ \A i \in 1..Len(sent) : i \in 1..Len(sent') /\ sent'[i] = sent[i]
          /\ \A i \in 1..Len(sent') : i \in 1..Len(sent) \/ i = Len(sent) + 1
      BY <1>a, <2>1, <2>2, AppendFacts
    <2>4. /\ Len(m_TXQ') = Len(m_TXQ) + 1 /\ m_TXQ'[Len(m_TXQ) + 1] = e
          /\ \A i \in 1..Len(m_TXQ) : m_TXQ'[i] = m_TXQ[i]
          /\ \A i \in 1..Len(m_TXQ') : i \in 1..Len(m_TXQ) \/ i = Len(m_TXQ) + 1
      BY <1>a, <2>1, AppendFacts
    <2>5. UNCHANGED <<wire, off>>
      BY <1>1 DEF BuildAndSendPacket, streamVars
    <2>6. \A i \in 1..Len(sent') : WellFormed(sent'[i])
      BY <2>1, <2>3 DEF StreamOK
    <2>7. IsSent(wire, sent')
      BY <2>3 DEF StreamOK, IsSent
    <2>8. IsSent(m_TXQ', sent')
      <3> SUFFICES ASSUME NEW i \in 1..Len(m_TXQ')
                   PROVE  m_TXQ'[i].n \in 1..Len(sent') /\ m_TXQ'[i].bytes = sent'[m_TXQ'[i].n]
        BY DEF IsSent
      <3>1. CASE i \in 1..Len(m_TXQ)
        BY <2>3, <2>4, <3>1 DEF StreamOK, IsSent
      <3>2. CASE i = Len(m_TXQ) + 1
        <4>1. Len(sent) + 1 \in 1..Len(sent')
          BY <1>a, <2>3
        <4> QED
          BY <2>1, <2>3, <2>4, <3>2, <4>1
      <3> QED
        BY <2>4, <3>1, <3>2
    <2>9a. \A n \in 1..Len(sent) : n < e.n
      BY <1>a, <2>1
    <2>9. \A i \in 1..Len(m_TXQ) : m_TXQ[i].n < e.n
      BY <2>9a DEF StreamOK, IsSent
    <2>10. \A i \in 1..Len(wire) : wire[i].n < e.n
      BY <2>9a DEF StreamOK, IsSent
    <2>11. InOrder(m_TXQ')
      <3> SUFFICES ASSUME NEW i \in 1..Len(m_TXQ'), NEW j \in 1..Len(m_TXQ'), i < j
                   PROVE  m_TXQ'[i].n < m_TXQ'[j].n
        BY DEF InOrder
      <3>1. i \in 1..Len(m_TXQ)
        BY <1>a, <2>4
      <3>2. CASE j \in 1..Len(m_TXQ)
        BY <2>4, <3>1, <3>2 DEF StreamOK, InOrder
      <3>3. CASE j = Len(m_TXQ) + 1
        BY <2>4, <2>9, <3>1, <3>3
      <3> QED
        BY <2>4, <3>2, <3>3
    <2>12. Before(wire, m_TXQ')
      <3> SUFFICES ASSUME NEW i \in 1..Len(wire), NEW j \in 1..Len(m_TXQ')
                   PROVE  wire[i].n < m_TXQ'[j].n
        BY DEF Before
      <3>1. CASE j \in 1..Len(m_TXQ)
        BY <2>4, <3>1 DEF StreamOK, Before
      <3>2. CASE j = Len(m_TXQ) + 1
        BY <2>4, <2>10, <3>2
      <3> QED
        BY <2>4, <3>1, <3>2
    <2> QED
      BY <2>5, <2>6, <2>7, <2>8, <2>11, <2>12 DEF StreamOK
  <1>2. CASE TXHandler
    <2> DEFINE p == Head(m_TXQ)
    <2>1. m_TXQ # <<>> /\ m_TXQ' = Tail(m_TXQ) /\ UNCHANGED <<sent, off>>
      BY <1>2 DEF TXHandler
    <2>2. /\ Len(m_TXQ') = Len(m_TXQ) - 1 /\ p = m_TXQ[1] /\ 1 \in 1..Len(m_TXQ)
          /\ \A i \in 1..Len(m_TXQ') : i + 1 \in 1..Len(m_TXQ) /\ m_TXQ'[i] = m_TXQ[i + 1] /\ 1 < i + 1
      BY <1>a, <2>1, TailFacts
    <2>3. IsSent(m_TXQ', sent)
      BY <2>2 DEF StreamOK, IsSent
    <2>4. InOrder(m_TXQ')
      <3> SUFFICES ASSUME NEW i \in 1..Len(m_TXQ'), NEW j \in 1..Len(m_TXQ'), i < j
                   PROVE  m_TXQ'[i].n < m_TXQ'[j].n
        BY DEF InOrder
      <3>1. i + 1 < j + 1
        OBVIOUS
      <3> QED
        BY <2>2, <3>1 DEF StreamOK, InOrder
    <2>5. \A j \in 1..Len(m_TXQ') : p.n < m_TXQ'[j].n
      BY <2>2 DEF StreamOK, InOrder
    <2>6. Before(wire, m_TXQ')
      BY <2>2 DEF StreamOK, Before
    <2>7. CASE UNCHANGED wire
      BY <2>1, <2>3, <2>4, <2>6, <2>7 DEF StreamOK
    <2>8. CASE \E e \in Sending : e.bytes = p.bytes /\ e.n = p.n /\ wire' = Append(wire, e)
      <3>1. PICK e \in Sending : e.bytes = p.bytes /\ e.n = p.n /\ wire' = Append(wire, e)
        BY <2>8
      <3>2. /\ Len(wire') = Len(wire) + 1 /\ wire'[Len(wire) + 1] = e
            /\ \A i \in 1..Len(wire) : wire'[i] = wire[i]
            /\ \A i \in 1..Len(wire') : i \in 1..Len(wire) \/ i = Len(wire) + 1
        BY <1>a, <3>1, AppendFacts
      <3>3. e.n \in 1..Len(sent) /\ e.bytes = sent[e.n]
        BY <2>2, <3>1 DEF StreamOK, IsSent
      <3>4. IsSent(wire', sent)
        BY <3>2, <3>3 DEF StreamOK, IsSent
      <3>5. \A i \in 1..Len(wire) : wire[i].n < e.n
        BY <2>2, <3>1 DEF StreamOK, Before
      <3>6. InOrder(wire')
        <4> SUFFICES ASSUME NEW i \in 1..Len(wire'), NEW j \in 1..Len(wire'), i < j
                     PROVE  wire'[i].n < wire'[j].n
          BY DEF InOrder
        <4>1. i \in 1..Len(wire)
          BY <1>a, <3>2
        <4>2. CASE j \in 1..Len(wire)
          BY <3>2, <4>1, <4>2 DEF StreamOK, InOrder
        <4>3. CASE j = Len(wire) + 1
          BY <3>2, <3>5, <4>1, <4>3
        <4> QED
          BY <3>2, <4>2, <4>3
      <3>7. Before(wire', m_TXQ')
        <4> SUFFICES ASSUME NEW i \in 1..Len(wire'), NEW j \in 1..Len(m_TXQ')
                     PROVE  wire'[i].n < m_TXQ'[j].n
          BY DEF Before
        <4>1. CASE i \in 1..Len(wire)
          BY <2>6, <3>2, <4>1 DEF Before
        <4>2. CASE i = Len(wire) + 1
          BY <2>5, <3>1, <3>2, <4>2
        <4> QED
          BY <3>2, <4>1, <4>2
      <3>8. off < wire'[1].upto
        <4>1. CASE wire = <<>>
          <5>1. off = 0 /\ Len(wire) = 0
            BY <4>1 DEF TypeOK
          <5>2. wire'[1] = e /\ e.upto \in Nat /\ e.upto >= 1
            BY <3>2, <5>1 DEF Sending
          <5> QED
            BY <5>1, <5>2
        <4>2. CASE wire # <<>>
          <5>1. 1 \in 1..Len(wire)
            BY <1>a, <4>2, TailFacts
          <5> QED
            BY <3>2, <4>2, <5>1 DEF StreamOK
        <4> QED
          BY <4>1, <4>2
      <3> QED
        BY <2>1, <2>3, <2>4, <3>4, <3>6, <3>7, <3>8 DEF StreamOK
    <2> QED
      BY <1>2, <2>7, <2>8, TransmitFacts
  <1>3. CASE ConnectionBreaks
    <2>1. wire' = <<>> /\ UNCHANGED senderVars /\ Len(wire') = 0
      BY <1>3 DEF ConnectionBreaks
    <2>2. \A i \in 1..Len(wire') : FALSE
      BY <2>1
    <2> QED
      BY <2>1, <2>2 DEF StreamOK, IsSent, InOrder, Before, senderVars
  <1>4. CASE ReadByte
    <2>1. UNCHANGED <<m_TXQ, sent>>
      BY <1>4 DEF ReadByte, senderVars
    <2>2. CASE wire' = wire /\ off' = off + 1 /\ off + 1 < wire[1].upto
      BY <2>1, <2>2 DEF StreamOK
    <2>3. CASE wire' = Tail(wire) /\ off' = 0 /\ wire # <<>>
      <3>1. /\ Len(wire') = Len(wire) - 1
            /\ wire' \in Seq(Sending)
            /\ \A i \in 1..Len(wire') : i + 1 \in 1..Len(wire) /\ wire'[i] = wire[i + 1]
        BY <1>a, <2>3, TailFacts
      <3>2. IsSent(wire', sent)
        BY <3>1 DEF StreamOK, IsSent
      <3>3. InOrder(wire')
        <4> SUFFICES ASSUME NEW i \in 1..Len(wire'), NEW j \in 1..Len(wire'), i < j
                     PROVE  wire'[i].n < wire'[j].n
          BY DEF InOrder
        <4>1. i + 1 < j + 1
          OBVIOUS
        <4> QED
          BY <3>1, <4>1 DEF StreamOK, InOrder
      <3>4. Before(wire', m_TXQ)
        BY <3>1 DEF StreamOK, Before
      <3>5. wire' # <<>> => off' < wire'[1].upto
        <4> SUFFICES ASSUME wire' # <<>> PROVE off' < wire'[1].upto
          OBVIOUS
        <4>1. wire'[1] \in Sending
          BY <3>1, TailFacts
        <4>2. wire'[1].upto \in Nat /\ wire'[1].upto >= 1
          BY <4>1 DEF Sending
        <4> QED
          BY <2>3, <4>2
      <3> QED
        BY <2>1, <3>2, <3>3, <3>4, <3>5 DEF StreamOK
    <2> QED
      BY <1>4, <2>2, <2>3, ReadFacts
  <1>5. CASE UNCHANGED <<sent, m_TXQ, wire, off>>
    BY <1>5 DEF StreamOK
  <1> QED
    BY <1>1, <1>2, <1>3, <1>4, <1>5
       DEF Next, Server_Update, l_ParsePacket, Connect, Disconnect, SocketTimesOut, Accept, ClientStop, WaitingForSTX, WaitingForRNG,
           WaitingForLEN, ReadingPayload, WaitingForChecksum, packetVars, senderVars, streamVars

Request == [data : [1..MAX_PAYLOAD_SiZE -> Bytes], n : 0..MaxPackets]

\* The types of the parser's own variables, and the index in the states before the
\* payload, without which its bound would not be kept.
ParserType ==
    /\ In("WAITING_FOR_RNG") \/ In("WAITING_FOR_LEN") => k = 0
    /\ l_CurrentParseState \in {"WAITING_FOR_STX", "WAITING_FOR_RNG", "WAITING_FOR_LEN",
                                "READING_PAYLOAD", "WAITING_FOR_CHECKSUM"}
    /\ k \in 0..MAX_PAYLOAD_SiZE
    /\ In("READING_PAYLOAD") => k < MAX_PAYLOAD_SiZE
    /\ checksum \in Bytes
    /\ len \in Bytes
    /\ payload \in [1..MAX_PAYLOAD_SiZE -> Bytes]
    /\ l_BadChecksumCount \in Nat
    /\ handled \in Seq(Request)
    /\ first \in 0..MaxPackets

\* Whatever byte comes in whatever state, the parser keeps its types, and writes
\* payload inside its bounds.
LEMMA ParserTypeNext ==
    ASSUME TypeOK, StreamOK, ParserType, l_ParsePacket
    PROVE  ParserType' /\ ReadByte
  <1>a. ReadByte
    BY DEF l_ParsePacket, WaitingForSTX, WaitingForRNG, WaitingForLEN, ReadingPayload,
           WaitingForChecksum
  <1>b. NextByte \in Bytes /\ Arriving.n \in 1..MaxPackets
    BY <1>a, ReadFacts DEF Sending
  <1>d. (checksum + NextByte) % BYTE \in Bytes
    BY <1>b, ByteSum DEF ParserType
  <1>e. Arriving.n \in 0..MaxPackets /\ 0 \in 0..MaxPackets
    BY <1>b, PacketAssumption
  <1>1. CASE WaitingForSTX
    <2>1. CASE NextByte = WRAPPER_STX
      BY <1>1, <1>e, <2>1, Sizes DEF WaitingForSTX, ParserType, In, GoTo
    <2>2. CASE NextByte # WRAPPER_STX
      BY <1>1, <1>a, <2>2 DEF WaitingForSTX, ParserType, In
    <2> QED
      BY <1>a, <2>1, <2>2
  <1>2. CASE WaitingForRNG
    BY <1>2, <1>a, <1>d DEF WaitingForRNG, ParserType, In, GoTo
  <1>3. CASE WaitingForLEN
    <2>1. k' = k /\ payload' = payload /\ l_BadChecksumCount' = l_BadChecksumCount
          /\ handled' = handled /\ first' = first /\ len' = NextByte
          /\ checksum' = (checksum + NextByte) % BYTE
          /\ l_CurrentParseState' \in {"WAITING_FOR_CHECKSUM", "READING_PAYLOAD"}
      BY <1>3 DEF WaitingForLEN, GoTo
    <2>2. k < MAX_PAYLOAD_SiZE
      <3>1. k = 0
        BY <1>3 DEF WaitingForLEN, ParserType
      <3> QED
        BY <3>1, Sizes
    <2> QED
      BY <1>a, <1>b, <1>d, <2>1, <2>2 DEF ParserType, In
  <1>4. CASE ReadingPayload
    <2>1. /\ In("READING_PAYLOAD")
          /\ payload' = [payload EXCEPT ![k + 1] = NextByte]
          /\ checksum' = (checksum + NextByte) % BYTE
          /\ k' = k + 1
          /\ l_CurrentParseState' = IF k' >= MAX_PAYLOAD_SiZE THEN "WAITING_FOR_CHECKSUM"
                                    ELSE "READING_PAYLOAD"
          /\ UNCHANGED <<len, l_BadChecksumCount, handled, first>>
      BY <1>4 DEF ReadingPayload, GoTo
    <2>2. k' \in 0..MAX_PAYLOAD_SiZE /\ (~(k' >= MAX_PAYLOAD_SiZE) => k' < MAX_PAYLOAD_SiZE)
      BY <2>1, Sizes DEF ParserType
    <2>3. payload' \in [1..MAX_PAYLOAD_SiZE -> Bytes]
      BY <1>b, <2>1 DEF ParserType
    <2> QED
      BY <1>a, <1>d, <2>1, <2>2, <2>3 DEF ParserType, In
  <1>5. CASE WaitingForChecksum
    <2>1. handled' \in Seq(Request) /\ l_BadChecksumCount' \in Nat
      <3> DEFINE r == [data |-> payload, n |-> IF first = Arriving.n /\ off + 1 = PACKET_SIZE
                                               THEN first ELSE 0]
      <3>1. r \in Request
        BY <1>e DEF Request, ParserType
      <3> HIDE DEF r
      <3>2. Append(handled, r) \in Seq(Request)
        BY <3>1 DEF ParserType
      <3>3. \/ handled' = Append(handled, r) /\ l_BadChecksumCount' = l_BadChecksumCount
            \/ handled' = handled /\ l_BadChecksumCount' = l_BadChecksumCount + 1
        BY <1>5 DEF WaitingForChecksum, r
      <3> QED
        BY <3>2, <3>3 DEF ParserType
    <2> QED
      BY <1>5, <1>a, <2>1 DEF WaitingForChecksum, ParserType, In, GoTo
  <1> QED
    BY <1>1, <1>2, <1>3, <1>4, <1>5 DEF l_ParsePacket

\* Every step keeps the types, of the sender and of the parser.
LEMMA TypeNext ==
    ASSUME TypeOK, StreamOK, ParserType, [Next]_packetVars
    PROVE  TypeOK' /\ ParserType'
  <1> DEFINE SenderType ==
                /\ m_MessageCount \in Bytes
                /\ m_TXQ \in Seq(Entry)
                /\ wire \in Seq(Sending)
                /\ off \in 0..(PACKET_SIZE - 1)
                /\ wire = <<>> => off = 0
                /\ session \in {"none", "open", "broken"}
                /\ client \in {"none", "connected", "gone", "stale"}
                /\ sent \in Seq(Packet)
                /\ spoiled \subseteq 1..MaxPackets
                /\ cuts \in 0..MaxCuts
  <1>a. SenderType
    BY DEF TypeOK, Entry, Sending
  <1>b. SenderType' /\ ParserType' => TypeOK'
    BY DEF TypeOK, ParserType, Entry, Sending, Request, In
  <1>c. UNCHANGED parserVars => ParserType'
    BY DEF ParserType, parserVars, In
  <1> SUFFICES SenderType' /\ ParserType'
    BY <1>b
  <1>1. ASSUME NEW length \in Lengths, NEW data \in Payloads, BuildAndSendPacket(length, data)
        PROVE  SenderType' /\ ParserType'
    <2>1. PICK e \in Entry :
              /\ m_TXQ' = Append(m_TXQ, e) /\ sent' = Append(sent, e.bytes)
              /\ m_MessageCount' \in Bytes
      BY <1>1, BuildFacts
    <2>2. e.bytes \in Packet
      BY DEF Entry
    <2>3. m_TXQ' \in Seq(Entry) /\ sent' \in Seq(Packet)
      BY <1>a, <2>1, <2>2
    <2>4. UNCHANGED <<streamVars, parserVars>>
      BY <1>1 DEF BuildAndSendPacket
    <2> QED
      BY <1>a, <1>c, <2>1, <2>3, <2>4 DEF streamVars
  <1>2. CASE TXHandler
    <2> DEFINE p == Head(m_TXQ)
    <2>1. UNCHANGED <<m_MessageCount, sent, off, session, client, parserVars>>
      BY <1>2 DEF TXHandler
    <2>2. p \in Entry /\ m_TXQ' \in Seq(Entry)
      BY <1>2, TransmitFacts
    <2>3. p.n \in 1..MaxPackets
      BY <2>2 DEF Entry
    <2> HIDE DEF p
    <2>4. CASE UNCHANGED <<wire, cuts>> /\ spoiled' = spoiled \cup {p.n}
      BY <1>a, <1>c, <2>1, <2>2, <2>3, <2>4
    <2>5. CASE \E e \in Sending :
                  /\ wire' = Append(wire, e)
                  /\ \/ UNCHANGED <<spoiled, cuts>>
                     \/ spoiled' = spoiled \cup {p.n} /\ cuts < MaxCuts /\ cuts' = cuts + 1
      <3>1. PICK e \in Sending :
                  /\ wire' = Append(wire, e)
                  /\ \/ UNCHANGED <<spoiled, cuts>>
                     \/ spoiled' = spoiled \cup {p.n} /\ cuts < MaxCuts /\ cuts' = cuts + 1
        BY <2>5
      <3>2. wire' \in Seq(Sending) /\ wire' # <<>>
        BY <1>a, <3>1, AppendFacts
      <3>3. spoiled' \subseteq 1..MaxPackets
        BY <1>a, <2>3, <3>1
      <3>4. cuts < MaxCuts => cuts + 1 \in 0..MaxCuts
        BY <1>a, PacketAssumption
      <3>5. cuts' \in 0..MaxCuts
        BY <1>a, <3>1, <3>4
      <3> QED
        BY <1>a, <1>c, <2>1, <2>2, <3>2, <3>3, <3>5
    <2> QED
      BY <1>2, <2>4, <2>5, TransmitFacts DEF p
  <1>3. CASE ConnectionBreaks
    <2>1. cuts' \in 0..MaxCuts
      BY <1>3, <1>a, PacketAssumption DEF ConnectionBreaks
    <2>2. \A i \in 1..Len(wire) : wire[i].n \in 1..MaxPackets
      <3>1. \A i \in 1..Len(wire) : wire[i] \in Sending
        BY <1>a, ElementOfSeq
      <3> QED
        BY <3>1 DEF Sending
    <2>3. spoiled' \subseteq 1..MaxPackets
      BY <1>3, <1>a, <2>2 DEF ConnectionBreaks
    <2>4. wire' = <<>> /\ off' = 0 /\ <<>> \in Seq(Sending) /\ 0 \in 0..(PACKET_SIZE - 1)
      BY <1>3, Sizes DEF ConnectionBreaks
    <2> QED
      BY <1>3, <1>a, <1>c, <2>1, <2>3, <2>4 DEF ConnectionBreaks, senderVars
  <1>4. CASE l_ParsePacket
    <2>1. ParserType' /\ ReadByte
      BY <1>4, ParserTypeNext
    <2> QED
      BY <1>a, <2>1, ReadFacts DEF senderVars
  <1>5. CASE Connect \/ Disconnect \/ SocketTimesOut \/ Accept \/ ClientStop
    BY <1>5, <1>a, <1>c DEF Connect, Disconnect, SocketTimesOut, Accept, ClientStop, senderVars
  <1>6. CASE UNCHANGED packetVars
    BY <1>6, <1>a, <1>c DEF packetVars, senderVars, streamVars
  <1> QED
    BY <1>1, <1>2, <1>3, <1>4, <1>5, <1>6 DEF Next, Server_Update

\* The parts of the inductive invariant that hold at every time.
Sound == TypeOK /\ StreamOK /\ ParserType

LEMMA SoundInit == Init => Sound
  <1> SUFFICES ASSUME Init PROVE Sound
    OBVIOUS
  <1>1. /\ m_TXQ = <<>> /\ wire = <<>> /\ sent = <<>> /\ handled = <<>>
        /\ Len(<<>>) = 0 /\ \A i \in 1..0 : FALSE
    BY DEF Init
  <1>2. StreamOK
    BY <1>1 DEF StreamOK, IsSent, InOrder, Before
  <1>3. payload \in [1..MAX_PAYLOAD_SiZE -> Bytes]
    BY Sizes DEF Init
  <1>4. 0 \in 0..MaxPackets /\ 0 \in 0..MaxCuts /\ 0 \in 0..(PACKET_SIZE - 1)
        /\ 0 \in 0..MAX_PAYLOAD_SiZE /\ 0 \in Bytes
    BY PacketAssumption, Sizes
  <1>5. ParserType
    BY <1>1, <1>3, <1>4 DEF Init, ParserType, In
  <1>6. m_MessageCount \in Bytes
    BY PacketAssumption DEF Init
  <1>7. TypeOK
    BY <1>1, <1>4, <1>5, <1>6 DEF Init, TypeOK, ParserType, Request, In
  <1> QED
    BY <1>2, <1>5, <1>7 DEF Sound

LEMMA SoundNext == Sound /\ [Next]_packetVars => Sound'
  BY StreamNext, TypeNext DEF Sound

LEMMA SoundAlways == Spec => []Sound
  BY SoundInit, SoundNext, PTL DEF Spec

\* The variables keep their types; in particular l_ParsePacket writes its payload
\* inside its bounds, whatever bytes it is fed and wherever the stream is cut.
THEOREM TypeCorrect == Spec => []TypeOK
  <1>1. Sound => TypeOK
    BY DEF Sound
  <1> QED
    BY <1>1, SoundAlways, PTL

-----------------------------------------------------------------------------
(* Which packets are on their way, lost, or through *)

\* The numbers of the packets of a queue.
Numbers(q) == {q[i].n : i \in 1..Len(q)}

\* The packets on their way that stop half way.
Broken == {wire[i].n : i \in {j \in 1..Len(wire) : wire[j].upto < PACKET_SIZE}}

LEMMA NumbersAppend ==
    ASSUME NEW S, NEW q \in Seq(S), NEW e \in S
    PROVE  Numbers(Append(q, e)) = Numbers(q) \cup {e.n}
  <1> DEFINE r == Append(q, e)
  <1>1. /\ Len(r) = Len(q) + 1 /\ r[Len(q) + 1] = e /\ Len(q) + 1 \in 1..Len(r)
        /\ \A i \in 1..Len(q) : i \in 1..Len(r) /\ r[i] = q[i]
        /\ \A i \in 1..Len(r) : i \in 1..Len(q) \/ i = Len(q) + 1
    <2>1. Len(q) \in Nat
      OBVIOUS
    <2> QED
      BY <2>1, AppendFacts
  <1> HIDE DEF r
  <1>2. \A i \in 1..Len(r) : r[i].n \in Numbers(q) \cup {e.n}
    BY <1>1 DEF Numbers
  <1>3. \A i \in 1..Len(q) : q[i].n \in Numbers(r)
    <2> SUFFICES ASSUME NEW i \in 1..Len(q) PROVE q[i].n \in Numbers(r)
      OBVIOUS
    <2>1. i \in 1..Len(r) /\ q[i].n = r[i].n
      BY <1>1
    <2> QED
      BY <2>1 DEF Numbers
  <1>4. e.n \in Numbers(r)
    BY <1>1 DEF Numbers
  <1>5. Numbers(r) = Numbers(q) \cup {e.n}
    BY <1>2, <1>3, <1>4 DEF Numbers
  <1> QED
    BY <1>5 DEF r

LEMMA NumbersTail ==
    ASSUME NEW S, NEW q \in Seq(S), q # <<>>
    PROVE  Numbers(q) = Numbers(Tail(q)) \cup {Head(q).n}
  <1> DEFINE r == Tail(q)
  <1>1. /\ Head(q) = q[1] /\ 1 \in 1..Len(q)
        /\ \A i \in 1..Len(r) : i + 1 \in 1..Len(q) /\ r[i] = q[i + 1]
        /\ \A i \in 1..Len(q) : i # 1 => i - 1 \in 1..Len(r) /\ r[i - 1] = q[i]
    BY TailFacts
  <1> HIDE DEF r
  <1>2. \A i \in 1..Len(q) : q[i].n \in Numbers(r) \cup {q[1].n}
    <2> SUFFICES ASSUME NEW i \in 1..Len(q), i # 1 PROVE q[i].n \in Numbers(r)
      OBVIOUS
    <2>1. i - 1 \in 1..Len(r) /\ r[i - 1].n = q[i].n
      BY <1>1
    <2> QED
      BY <2>1 DEF Numbers
  <1>3. \A i \in 1..Len(r) : r[i].n \in Numbers(q)
    <2> SUFFICES ASSUME NEW i \in 1..Len(r) PROVE r[i].n \in Numbers(q)
      OBVIOUS
    <2>1. i + 1 \in 1..Len(q) /\ q[i + 1].n = r[i].n
      BY <1>1
    <2> QED
      BY <2>1 DEF Numbers
  <1>4. Numbers(q) = Numbers(r) \cup {q[1].n}
    BY <1>1, <1>2, <1>3 DEF Numbers
  <1> QED
    BY <1>1, <1>4 DEF r

\* The numbers of the packets on their way, and the first of them.
LEMMA NumbersAreNat ==
    ASSUME NEW S, \A e \in S : e.n \in Nat, NEW q \in Seq(S)
    PROVE  Numbers(q) \subseteq Nat
  <1>1. \A i \in 1..Len(q) : q[i] \in S
    BY ElementOfSeq
  <1> QED
    BY <1>1 DEF Numbers

LEMMA FirstIsBefore ==
    ASSUME TypeOK, StreamOK, wire # <<>>
    PROVE  \A m \in Numbers(Tail(wire)) \cup Numbers(m_TXQ) : wire[1].n < m
  <1> DEFINE t == Tail(wire)
  <1>1. wire \in Seq(Sending)
    BY DEF TypeOK, Sending
  <1>2. /\ 1 \in 1..Len(wire)
        /\ \A i \in 1..Len(t) : i + 1 \in 1..Len(wire) /\ t[i] = wire[i + 1] /\ 1 < i + 1
    BY <1>1, TailFacts
  <1> HIDE DEF t
  <1>3. \A i \in 1..Len(t) : wire[1].n < t[i].n
    BY <1>2 DEF StreamOK, InOrder
  <1>4. \A j \in 1..Len(m_TXQ) : wire[1].n < m_TXQ[j].n
    BY <1>2 DEF StreamOK, Before
  <1>5. \A m \in Numbers(t) \cup Numbers(m_TXQ) : wire[1].n < m
    BY <1>3, <1>4 DEF Numbers
  <1> QED
    BY <1>5 DEF t

\* What was sent and lost a byte is marked: never a packet that is still queued,
\* and of those on their way exactly the ones that stop half way.
SpoiledOK ==
    /\ spoiled \subseteq 1..Len(sent)
    /\ \A i \in 1..Len(m_TXQ) : m_TXQ[i].n \notin spoiled
    /\ \A i \in 1..Len(wire) : wire[i].n \in spoiled <=> wire[i].upto < PACKET_SIZE

LEMMA SpoiledNext == Sound /\ SpoiledOK /\ [Next]_packetVars => SpoiledOK'
  <1> SUFFICES ASSUME Sound, SpoiledOK, [Next]_packetVars PROVE SpoiledOK'
    OBVIOUS
  <1> USE DEF Sound
  <1>a. /\ m_TXQ \in Seq(Entry) /\ wire \in Seq(Sending) /\ sent \in Seq(Packet)
        /\ Len(sent) \in Nat /\ Len(wire) \in Nat /\ Len(m_TXQ) \in Nat
    BY DEF TypeOK, Entry, Sending
  <1>1. ASSUME NEW length \in Lengths, NEW data \in Payloads, BuildAndSendPacket(length, data)
        PROVE  SpoiledOK'
    <2>1. PICK e \in Entry :
              e.n = Len(sent) + 1 /\ m_TXQ' = Append(m_TXQ, e) /\ sent' = Append(sent, e.bytes)
      BY <1>1, BuildFacts
    <2>2. Len(sent') = Len(sent) + 1
      BY <1>a, <2>1, AppendFacts DEF Entry
    <2>3. /\ Len(m_TXQ') = Len(m_TXQ) + 1 /\ m_TXQ'[Len(m_TXQ) + 1] = e
          /\ \A i \in 1..Len(m_TXQ) : m_TXQ'[i] = m_TXQ[i]
          /\ \A i \in 1..Len(m_TXQ') : i \in 1..Len(m_TXQ) \/ i = Len(m_TXQ) + 1
      BY <1>a, <2>1, AppendFacts
    <2>4. e.n \notin spoiled /\ 1..Len(sent) \subseteq 1..Len(sent')
      BY <1>a, <2>1, <2>2 DEF SpoiledOK
    <2>5. UNCHANGED <<wire, spoiled>>
      BY <1>1 DEF BuildAndSendPacket, streamVars
    <2>6. \A i \in 1..Len(m_TXQ') : m_TXQ'[i].n \notin spoiled
      BY <2>3, <2>4 DEF SpoiledOK
    <2> QED
      BY <2>4, <2>5, <2>6 DEF SpoiledOK
  <1>2. CASE TXHandler
    <2> DEFINE p == Head(m_TXQ)
    <2>1. m_TXQ # <<>> /\ m_TXQ' = Tail(m_TXQ) /\ UNCHANGED sent
      BY <1>2 DEF TXHandler
    <2>2. /\ p = m_TXQ[1] /\ 1 \in 1..Len(m_TXQ) /\ p \in Entry
          /\ \A i \in 1..Len(m_TXQ') : i + 1 \in 1..Len(m_TXQ) /\ m_TXQ'[i] = m_TXQ[i + 1] /\ 1 < i + 1
      BY <1>a, <2>1, TailFacts
    <2>3. \A i \in 1..Len(m_TXQ') : m_TXQ'[i].n # p.n /\ m_TXQ'[i].n \notin spoiled
      <3> SUFFICES ASSUME NEW i \in 1..Len(m_TXQ') PROVE m_TXQ'[i].n # p.n /\ m_TXQ'[i].n \notin spoiled
        OBVIOUS
      <3>1. p.n < m_TXQ'[i].n /\ m_TXQ'[i].n \notin spoiled
        BY <2>2 DEF SpoiledOK, StreamOK, InOrder
      <3>2. p.n \in Nat
        BY <2>2 DEF Entry
      <3> QED
        BY <3>1, <3>2
    <2>4. \A i \in 1..Len(wire) : wire[i].n # p.n
      <3> SUFFICES ASSUME NEW i \in 1..Len(wire) PROVE wire[i].n # p.n
        OBVIOUS
      <3>1. wire[i].n < p.n
        BY <2>2 DEF StreamOK, Before
      <3>2. p.n \in Nat
        BY <2>2 DEF Entry
      <3> QED
        BY <3>1, <3>2
    <2>5. p.n \in 1..Len(sent) /\ p.n \notin spoiled
      BY <2>2 DEF StreamOK, IsSent, SpoiledOK
    <2> HIDE DEF p
    <2>6. CASE UNCHANGED wire /\ spoiled' = spoiled \cup {p.n}
      BY <2>1, <2>3, <2>4, <2>5, <2>6 DEF SpoiledOK
    <2>7. CASE \E e \in Sending :
                  /\ e.n = p.n
                  /\ wire' = Append(wire, e)
                  /\ \/ e.upto = PACKET_SIZE /\ UNCHANGED spoiled
                     \/ e.upto < PACKET_SIZE /\ spoiled' = spoiled \cup {p.n}
      <3>1. PICK e \in Sending :
                  /\ e.n = p.n
                  /\ wire' = Append(wire, e)
                  /\ \/ e.upto = PACKET_SIZE /\ UNCHANGED spoiled
                     \/ e.upto < PACKET_SIZE /\ spoiled' = spoiled \cup {p.n}
        BY <2>7
      <3>2. /\ wire'[Len(wire) + 1] = e
            /\ \A i \in 1..Len(wire) : wire'[i] = wire[i]
            /\ \A i \in 1..Len(wire') : i \in 1..Len(wire) \/ i = Len(wire) + 1
        BY <1>a, <3>1, AppendFacts
      <3>3. \A i \in 1..Len(wire) : wire[i].n \in spoiled' <=> wire[i].upto < PACKET_SIZE
        BY <2>4, <3>1 DEF SpoiledOK
      <3>4. e.n \in spoiled' <=> e.upto < PACKET_SIZE
        <4>1. ~(PACKET_SIZE < PACKET_SIZE)
          BY Sizes
        <4> QED
          BY <2>5, <3>1, <4>1
      <3>5. \A i \in 1..Len(wire') : wire'[i].n \in spoiled' <=> wire'[i].upto < PACKET_SIZE
        BY <3>2, <3>3, <3>4
      <3>6. spoiled' \subseteq 1..Len(sent')
        BY <2>1, <2>5, <3>1 DEF SpoiledOK
      <3>7. \A i \in 1..Len(m_TXQ') : m_TXQ'[i].n \notin spoiled'
        BY <2>3, <3>1
      <3> QED
        BY <3>5, <3>6, <3>7 DEF SpoiledOK
    <2>8. \/ UNCHANGED wire /\ spoiled' = spoiled \cup {p.n}
          \/ \E e \in Sending :
                  /\ e.n = p.n
                  /\ wire' = Append(wire, e)
                  /\ \/ e.upto = PACKET_SIZE /\ UNCHANGED spoiled
                     \/ e.upto < PACKET_SIZE /\ spoiled' = spoiled \cup {p.n}
      BY <1>2, TransmitFacts DEF p
    <2> QED
      BY <2>6, <2>7, <2>8
  <1>3. CASE ConnectionBreaks
    <2>1. /\ wire' = <<>> /\ UNCHANGED <<m_TXQ, sent>>
          /\ spoiled' = spoiled \cup {wire[i].n : i \in 1..Len(wire)}
      BY <1>3 DEF ConnectionBreaks, senderVars
    <2>2. Len(wire') = 0 /\ \A i \in 1..Len(wire') : FALSE
      BY <2>1
    <2>3. spoiled' \subseteq 1..Len(sent')
      <3>1. \A i \in 1..Len(wire) : wire[i].n \in 1..Len(sent)
        BY DEF StreamOK, IsSent
      <3>2. spoiled \subseteq 1..Len(sent)
        BY DEF SpoiledOK
      <3>3. {wire[i].n : i \in 1..Len(wire)} \subseteq 1..Len(sent)
        BY <3>1, Zenon
      <3>4. sent' = sent /\ spoiled' = spoiled \cup {wire[i].n : i \in 1..Len(wire)}
        BY <2>1, Zenon
      <3> QED
        BY <3>2, <3>3, <3>4, Zenon
    <2>4. \A i \in 1..Len(m_TXQ), j \in 1..Len(wire) : m_TXQ[i].n # wire[j].n
      <3> SUFFICES ASSUME NEW i \in 1..Len(m_TXQ), NEW j \in 1..Len(wire)
                   PROVE  m_TXQ[i].n # wire[j].n
        OBVIOUS
      <3>1. wire[j].n < m_TXQ[i].n
        BY DEF StreamOK, Before
      <3>2. m_TXQ[i] \in Entry
        BY <1>a, ElementOfSeq
      <3> QED
        BY <3>1, <3>2 DEF Entry
    <2>5. \A i \in 1..Len(m_TXQ') : m_TXQ'[i].n \notin spoiled'
      BY <2>1, <2>4 DEF SpoiledOK
    <2> QED
      BY <2>2, <2>3, <2>5 DEF SpoiledOK
  <1>4. CASE ReadByte
    <2>1. UNCHANGED <<m_TXQ, sent, spoiled>>
      BY <1>4 DEF ReadByte, senderVars
    <2>2. CASE wire' = wire
      BY <2>1, <2>2 DEF SpoiledOK
    <2>3. CASE wire' = Tail(wire) /\ wire # <<>>
      <3>1. \A i \in 1..Len(wire') : i + 1 \in 1..Len(wire) /\ wire'[i] = wire[i + 1]
        BY <1>a, <2>3, TailFacts
      <3>2. \A i \in 1..Len(wire') : wire'[i].n \in spoiled <=> wire'[i].upto < PACKET_SIZE
        BY <3>1 DEF SpoiledOK
      <3> QED
        BY <2>1, <3>2 DEF SpoiledOK
    <2> QED
      BY <1>4, <2>2, <2>3, ReadFacts
  <1>5. CASE UNCHANGED <<sent, m_TXQ, wire, spoiled>>
    BY <1>5 DEF SpoiledOK
  <1> QED
    BY <1>1, <1>2, <1>3, <1>4, <1>5
       DEF Next, Server_Update, l_ParsePacket, Connect, Disconnect, SocketTimesOut, Accept, ClientStop, WaitingForSTX, WaitingForRNG,
           WaitingForLEN, ReadingPayload, WaitingForChecksum, packetVars, senderVars, streamVars

\* The numbers on their way, in the words of the properties.
LEMMA PassedFacts ==
    /\ Passed = ((1..Len(sent)) \ spoiled) \ (Numbers(wire) \cup Numbers(m_TXQ))
    /\ Handled = Numbers(handled) \ {0}
  BY DEF Passed, Handled, Numbers

\* A packet passes when the last byte of it is read, if it came whole; no other
\* step changes what has passed, a lost packet or a broken connection included.
LEMMA PassedNext ==
    ASSUME Sound, SpoiledOK, [Next]_packetVars, ~l_ParsePacket
    PROVE  Passed' = Passed
  <1> USE DEF Sound
  <1>a. /\ m_TXQ \in Seq(Entry) /\ wire \in Seq(Sending) /\ sent \in Seq(Packet)
        /\ Len(sent) \in Nat
    BY DEF TypeOK, Entry, Sending
  <1>b. Passed = ((1..Len(sent)) \ spoiled) \ (Numbers(wire) \cup Numbers(m_TXQ))
    BY PassedFacts
  <1>c. Passed' = ((1..Len(sent')) \ spoiled') \ (Numbers(wire') \cup Numbers(m_TXQ'))
    BY DEF Passed, Numbers
  <1>1. ASSUME NEW length \in Lengths, NEW data \in Payloads, BuildAndSendPacket(length, data)
        PROVE  Passed' = Passed
    <2>1. PICK e \in Entry :
              e.n = Len(sent) + 1 /\ m_TXQ' = Append(m_TXQ, e) /\ sent' = Append(sent, e.bytes)
      BY <1>1, BuildFacts
    <2>2. Len(sent') = Len(sent) + 1
      BY <1>a, <2>1, AppendFacts DEF Entry
    <2>3. Numbers(m_TXQ') = Numbers(m_TXQ) \cup {e.n}
      BY <1>a, <2>1, NumbersAppend
    <2>4. UNCHANGED <<wire, spoiled>>
      BY <1>1 DEF BuildAndSendPacket, streamVars
    <2>5. (1..Len(sent')) \ {e.n} = 1..Len(sent)
      BY <1>a, <2>1, <2>2
    <2>6. e.n \notin 1..Len(sent)
      BY <1>a, <2>1
    <2> QED
      BY <1>b, <1>c, <2>3, <2>4, <2>5, <2>6
  <1>2. CASE TXHandler
    <2> DEFINE p == Head(m_TXQ)
    <2>1. m_TXQ # <<>> /\ m_TXQ' = Tail(m_TXQ) /\ UNCHANGED sent
      BY <1>2 DEF TXHandler
    <2>2. Numbers(m_TXQ) = Numbers(m_TXQ') \cup {p.n}
      BY <1>a, <2>1, NumbersTail
    <2>3. CASE UNCHANGED wire /\ spoiled' = spoiled \cup {p.n}
      BY <1>b, <1>c, <2>1, <2>2, <2>3
    <2>4. CASE \E e \in Sending :
                  /\ e.n = p.n
                  /\ wire' = Append(wire, e)
                  /\ spoiled' \in {spoiled, spoiled \cup {p.n}}
      <3>1. PICK e \in Sending : /\ e.n = p.n
                                 /\ wire' = Append(wire, e)
                                 /\ spoiled' \in {spoiled, spoiled \cup {p.n}}
        BY <2>4
      <3>2. Numbers(wire') = Numbers(wire) \cup {p.n}
        BY <1>a, <3>1, NumbersAppend
      <3> QED
        BY <1>b, <1>c, <2>1, <2>2, <3>1, <3>2
    <2> QED
      BY <1>2, <2>3, <2>4, TransmitFacts
  <1>3. CASE ConnectionBreaks
    <2>1. wire' = <<>> /\ UNCHANGED <<m_TXQ, sent>> /\ spoiled' = spoiled \cup Numbers(wire)
      BY <1>3 DEF ConnectionBreaks, senderVars, Numbers
    <2>2. Numbers(wire') = {}
      BY <2>1 DEF Numbers
    <2> QED
      BY <1>b, <1>c, <2>1, <2>2
  <1>4. CASE Connect \/ Disconnect \/ SocketTimesOut \/ Accept \/ ClientStop \/ UNCHANGED packetVars
    BY <1>4 DEF Connect, Disconnect, SocketTimesOut, Accept, ClientStop, packetVars, senderVars, streamVars, Passed
  <1> QED
    BY <1>1, <1>2, <1>3, <1>4 DEF Next, Server_Update

\* What a byte read does to the packets on their way: nothing until it is the last
\* one of its packet.
LEMMA PassedByReading ==
    ASSUME Sound, SpoiledOK, ReadByte
    PROVE  /\ ~EndOfPacket => Passed' = Passed /\ Broken' = Broken
           /\ EndOfPacket /\ Arriving.upto = PACKET_SIZE =>
                 Passed' = Passed \cup {Arriving.n} /\ Broken' = Broken
           /\ EndOfPacket /\ Arriving.upto < PACKET_SIZE =>
                 Passed' = Passed /\ Broken' = Broken \ {Arriving.n} /\ Arriving.n \in Broken
  <1> USE DEF Sound
  <1>a. m_TXQ \in Seq(Entry) /\ wire \in Seq(Sending)
    BY DEF TypeOK, Entry, Sending
  <1>b. Passed = ((1..Len(sent)) \ spoiled) \ (Numbers(wire) \cup Numbers(m_TXQ))
    BY PassedFacts
  <1>c. Passed' = ((1..Len(sent)) \ spoiled) \ (Numbers(wire') \cup Numbers(m_TXQ))
    BY DEF Passed, Numbers, ReadByte, senderVars
  <1>1. CASE ~EndOfPacket
    <2>1. wire' = wire
      BY <1>1, ReadFacts
    <2>2. Broken' = Broken
      BY <2>1 DEF Broken
    <2> QED
      BY <1>1, <1>b, <1>c, <2>1, <2>2
  <1>2. CASE EndOfPacket
    <2>1. /\ wire' = Tail(wire) /\ wire # <<>> /\ Arriving = wire[1] /\ Arriving = Head(wire)
          /\ Arriving.n \in 1..Len(sent) /\ Arriving.n \in Nat
      BY <1>2, ReadFacts DEF Arriving
    <2>2. Numbers(wire) = Numbers(wire') \cup {Arriving.n}
      BY <1>a, <2>1, NumbersTail
    <2>3. /\ 1 \in 1..Len(wire)
          /\ \A i \in 1..Len(wire') : i + 1 \in 1..Len(wire) /\ wire'[i] = wire[i + 1] /\ 1 < i + 1
          /\ \A i \in 1..Len(wire) : i # 1 => i - 1 \in 1..Len(wire') /\ wire'[i - 1] = wire[i]
      BY <1>a, <2>1, TailFacts
    <2>4. \A i \in 1..Len(wire') : wire'[i].n # Arriving.n
      <3> SUFFICES ASSUME NEW i \in 1..Len(wire') PROVE wire'[i].n # Arriving.n
        OBVIOUS
      <3>1. Arriving.n < wire'[i].n
        BY <2>1, <2>3 DEF StreamOK, InOrder
      <3> QED
        BY <2>1, <3>1
    <2>5. Arriving.n \notin Numbers(wire')
      BY <2>4 DEF Numbers
    <2>6. Arriving.n \notin Numbers(m_TXQ)
      <3> SUFFICES ASSUME NEW j \in 1..Len(m_TXQ) PROVE m_TXQ[j].n # Arriving.n
        BY DEF Numbers
      <3>1. Arriving.n < m_TXQ[j].n
        BY <2>1, <2>3 DEF StreamOK, Before
      <3> QED
        BY <2>1, <3>1
    <2>7. Arriving.n \in spoiled <=> Arriving.upto < PACKET_SIZE
      BY <2>1, <2>3 DEF SpoiledOK
    <2>8. \A i \in 1..Len(wire') : wire'[i].upto < PACKET_SIZE => wire'[i].n \in Broken
      BY <2>3 DEF Broken
    <2>9. \A i \in 1..Len(wire) : i # 1 /\ wire[i].upto < PACKET_SIZE => wire[i].n \in Broken'
      <3> SUFFICES ASSUME NEW i \in 1..Len(wire), i # 1, wire[i].upto < PACKET_SIZE
                   PROVE  wire[i].n \in Broken'
        OBVIOUS
      <3>1. i - 1 \in 1..Len(wire') /\ wire'[i - 1] = wire[i]
        BY <2>3
      <3> QED
        BY <3>1 DEF Broken
    <2>10. Broken' \subseteq Broken /\ Arriving.n \notin Broken'
      BY <2>4, <2>8 DEF Broken
    <2>11. CASE Arriving.upto = PACKET_SIZE
      <3>1. ~(wire[1].upto < PACKET_SIZE)
        BY <2>1, <2>11, Sizes
      <3>2. Broken \subseteq Broken'
        BY <2>9, <3>1 DEF Broken
      <3>3. Passed' = Passed \cup {Arriving.n}
        BY <1>b, <1>c, <2>1, <2>2, <2>5, <2>6, <2>7, <3>1
      <3> QED
        BY <1>2, <2>1, <2>10, <2>11, <3>1, <3>2, <3>3
    <2>12. CASE Arriving.upto < PACKET_SIZE
      <3>1. Passed' = Passed
        BY <1>b, <1>c, <2>2, <2>7, <2>12
      <3>2. Arriving.n \in Broken
        BY <2>1, <2>3, <2>12 DEF Broken
      <3>3. Broken \ {Arriving.n} \subseteq Broken'
        BY <2>1, <2>9 DEF Broken
      <3>4. Arriving.upto # PACKET_SIZE
        BY <2>12, Sizes
      <3> QED
        BY <1>2, <2>10, <2>12, <3>1, <3>2, <3>3, <3>4
    <2>13. Arriving.upto = PACKET_SIZE \/ Arriving.upto < PACKET_SIZE
      BY ReadFacts, Sizes
    <2> QED
      BY <2>11, <2>12, <2>13
  <1> QED
    BY <1>1, <1>2

-----------------------------------------------------------------------------
(* The parser in its place *)

\* How many bytes of its packet the parser has taken.
Taken ==
    CASE In("WAITING_FOR_STX") -> 0
      [] In("WAITING_FOR_RNG") -> 1
      [] In("WAITING_FOR_LEN") -> 2
      [] In("READING_PAYLOAD") -> k + 3
      [] In("WAITING_FOR_CHECKSUM") -> CHECKSUM_AT

\* What the parser holds after n bytes of the packet numbered m with the bytes b.
Holds(b, m, n) ==
    /\ first = m
    /\ \A s \in [0..CHECKSUM_AT -> Bytes] : SumsOf(s, b) /\ n <= CHECKSUM_AT => checksum = s[n]
    /\ \A i \in 1..MAX_PAYLOAD_SiZE : i + 3 <= n => payload[i] = b[i + 3]

\* The parser is at the same place of the packet as the stream is.
InPlace ==
    /\ Taken = off
    /\ off > 0 => Holds(Arriving.bytes, Arriving.n, off)

LEMMA TakenType ==
    ASSUME ParserType
    PROVE  /\ Taken \in 0..CHECKSUM_AT
           /\ Taken = 0 <=> In("WAITING_FOR_STX")
           /\ Taken = 1 <=> In("WAITING_FOR_RNG")
           /\ Taken = 2 <=> In("WAITING_FOR_LEN")
           /\ In("READING_PAYLOAD") => Taken = k + 3
           /\ In("WAITING_FOR_CHECKSUM") => Taken = CHECKSUM_AT
           /\ Taken > 2 => In("READING_PAYLOAD") \/ In("WAITING_FOR_CHECKSUM")
  <1>1. k \in 0..MAX_PAYLOAD_SiZE /\ (In("READING_PAYLOAD") => k < MAX_PAYLOAD_SiZE)
    BY DEF ParserType
  <1>2. CASE In("WAITING_FOR_STX")
    BY <1>2, Sizes DEF Taken, In
  <1>3. CASE In("WAITING_FOR_RNG")
    BY <1>3, Sizes DEF Taken, In
  <1>4. CASE In("WAITING_FOR_LEN")
    BY <1>4, Sizes DEF Taken, In
  <1>5. CASE In("READING_PAYLOAD")
    <2>1. Taken = k + 3
      BY <1>5 DEF Taken, In
    <2> QED
      BY <1>1, <1>5, <2>1, Sizes DEF In
  <1>6. CASE In("WAITING_FOR_CHECKSUM")
    BY <1>6, Sizes DEF Taken, In
  <1> QED
    BY <1>2, <1>3, <1>4, <1>5, <1>6 DEF ParserType, In

\* A payload is a sequence, and so is a part of a packet.
LEMMA PayloadOfPacket ==
    ASSUME NEW p \in [1..MAX_PAYLOAD_SiZE -> Bytes], NEW b \in Packet,
           \A i \in 1..MAX_PAYLOAD_SiZE : p[i] = b[i + 3]
    PROVE  p = SubSeq(b, 4, CHECKSUM_AT)
  <1> DEFINE q == SubSeq(b, 4, CHECKSUM_AT)
  <1>1. \A i \in 4..CHECKSUM_AT : b[i] \in Bytes
    BY Sizes DEF Packet
  <1>2. 4 \in Int /\ CHECKSUM_AT \in Int /\ 4 <= CHECKSUM_AT
        /\ CHECKSUM_AT - 4 + 1 = MAX_PAYLOAD_SiZE
    BY Sizes
  <1>3. /\ q \in Seq(Bytes)
        /\ Len(q) = IF 4 <= CHECKSUM_AT THEN CHECKSUM_AT - 4 + 1 ELSE 0
        /\ \A i \in 1..(CHECKSUM_AT - 4 + 1) : q[i] = b[4 + i - 1]
    BY <1>1, <1>2, SubSeqProperties
  <1> HIDE DEF q
  <1>4. Len(q) = MAX_PAYLOAD_SiZE
    BY <1>2, <1>3
  <1>5. q \in [1..MAX_PAYLOAD_SiZE -> Bytes]
    BY <1>3, <1>4, LenProperties
  <1>6. \A i \in 1..MAX_PAYLOAD_SiZE : 4 + i - 1 = i + 3
    BY Sizes
  <1>7. \A i \in 1..MAX_PAYLOAD_SiZE : q[i] = p[i]
    BY <1>2, <1>3, <1>6
  <1>8. p = [i \in 1..MAX_PAYLOAD_SiZE |-> p[i]] /\ q = [i \in 1..MAX_PAYLOAD_SiZE |-> q[i]]
    BY <1>5
  <1>9. p = q
    BY <1>7, <1>8
  <1> QED
    BY <1>9 DEF q

\* The sum goes on with the next byte.
LEMMA SumStep ==
    ASSUME NEW b, NEW m, NEW n \in Nat, n + 1 <= CHECKSUM_AT, n > 0 => Holds(b, m, n),
           NEW s \in [0..CHECKSUM_AT -> Bytes], SumsOf(s, b)
    PROVE  /\ n > 0 => (checksum + b[n + 1]) % BYTE = s[n + 1]
           /\ n = 0 /\ b[1] = WRAPPER_STX => WRAPPER_STX = s[1]
  <1>1. n + 1 \in 1..CHECKSUM_AT /\ (n + 1) - 1 = n
    BY Sizes
  <1>2. s[n + 1] = (s[(n + 1) - 1] + b[n + 1]) % BYTE
    BY <1>1 DEF SumsOf
  <1>3. n > 0 => checksum = s[n]
    BY Sizes DEF Holds
  <1>4. ASSUME n = 0, b[1] = WRAPPER_STX PROVE WRAPPER_STX = s[1]
    <2>1. s[1] = (0 + WRAPPER_STX) % BYTE
      BY <1>1, <1>2, <1>4 DEF SumsOf
    <2> QED
      BY <2>1, Sizes, ByteSum
  <1> QED
    BY <1>1, <1>2, <1>3, <1>4

\* A parser in its place takes the next byte for what it is: it stays in its
\* place, or hands over the packet with its payload and its number.
LEMMA ParserInPlace ==
    ASSUME Sound, InPlace, l_ParsePacket,
           NEW b, b = Arriving.bytes, NEW m, m = Arriving.n, NEW n, n = off + 1
    PROVE  \/ /\ n < PACKET_SIZE
              /\ Taken' = n
              /\ Holds(b, m, n)'
              /\ UNCHANGED <<handled, l_BadChecksumCount>>
           \/ /\ n = PACKET_SIZE
              /\ Taken' = 0
              /\ handled' = Append(handled, [data |-> SubSeq(b, 4, CHECKSUM_AT), n |-> m])
              /\ UNCHANGED l_BadChecksumCount
  <1> USE DEF Sound
  <1>a. ReadByte /\ ParserType'
    BY ParserTypeNext
  <1>b. /\ n \in 1..PACKET_SIZE /\ NextByte = b[n] /\ off = n - 1 /\ n - 1 \in Nat
        /\ m \in 1..Len(sent) /\ b = sent[m]
    <2>1. off \in Nat
      BY Sizes DEF TypeOK
    <2> QED
      BY <1>a, <2>1, ReadFacts DEF NextByte
  <1>c. WellFormed(b)
    BY <1>b DEF StreamOK
  <1>d. b \in Packet /\ b[1] = WRAPPER_STX /\ b[3] # 0
    BY <1>c DEF WellFormed
  <1>e. Taken = n - 1 /\ (n - 1 > 0 => Holds(b, m, n - 1))
    BY <1>b DEF InPlace
  <1>f. n - 1 > 0 => first = m
    BY <1>e DEF Holds
  <1>g. ASSUME NEW s \in [0..CHECKSUM_AT -> Bytes], SumsOf(s, b), n <= CHECKSUM_AT
        PROVE  /\ n - 1 > 0 => (checksum + NextByte) % BYTE = s[n]
               /\ n - 1 = 0 => WRAPPER_STX = s[n]
    <2> DEFINE p == n - 1
    <2>1. p \in Nat /\ p + 1 = n /\ p + 1 <= CHECKSUM_AT /\ (p > 0 => Holds(b, m, p))
      BY <1>b, <1>e, <1>g
    <2> HIDE DEF p
    <2>2. /\ p > 0 => (checksum + b[p + 1]) % BYTE = s[p + 1]
          /\ p = 0 => WRAPPER_STX = s[1]
      BY <1>d, <1>g, <2>1, SumStep
    <2>3. p = 0 => n = 1
      BY <2>1
    <2> QED
      BY <1>b, <2>1, <2>2, <2>3 DEF p
  <1>1. CASE WaitingForSTX
    <2>1. n = 1 /\ NextByte = WRAPPER_STX
      BY <1>1, <1>b, <1>d, <1>e, TakenType DEF WaitingForSTX
    <2>2. /\ In("WAITING_FOR_RNG")' /\ checksum' = WRAPPER_STX /\ first' = m
          /\ UNCHANGED <<handled, l_BadChecksumCount>>
      BY <1>1, <1>b, <2>1 DEF WaitingForSTX, In, GoTo
    <2>3. Taken' = n
      BY <2>1, <2>2 DEF Taken, In
    <2>4. \A i \in 1..MAX_PAYLOAD_SiZE : ~(i + 3 <= 1)
      BY Sizes
    <2>5. Holds(b, m, n)'
      BY <1>g, <2>1, <2>2, <2>4 DEF Holds
    <2> QED
      BY <2>1, <2>2, <2>3, <2>5, Sizes
  <1>2. CASE WaitingForRNG
    <2>1. n = 2
      BY <1>2, <1>b, <1>e, TakenType DEF WaitingForRNG
    <2>2. /\ In("WAITING_FOR_LEN")' /\ checksum' = (checksum + NextByte) % BYTE /\ first' = first
          /\ UNCHANGED <<handled, l_BadChecksumCount>>
      BY <1>2 DEF WaitingForRNG, In, GoTo
    <2>3. Taken' = n
      BY <2>1, <2>2 DEF Taken, In
    <2>4. \A i \in 1..MAX_PAYLOAD_SiZE : ~(i + 3 <= 2)
      BY Sizes
    <2>5. Holds(b, m, n)'
      BY <1>f, <1>g, <2>1, <2>2, <2>4 DEF Holds
    <2> QED
      BY <2>1, <2>2, <2>3, <2>5, Sizes
  <1>3. CASE WaitingForLEN
    <2>1. n = 3 /\ NextByte # 0
      BY <1>3, <1>b, <1>d, <1>e, TakenType DEF WaitingForLEN
    <2>2. /\ In("READING_PAYLOAD")' /\ checksum' = (checksum + NextByte) % BYTE /\ first' = first
          /\ k' = k /\ k = 0
          /\ UNCHANGED <<handled, l_BadChecksumCount>>
      BY <1>3, <2>1 DEF WaitingForLEN, In, GoTo, ParserType
    <2>3. Taken' = n
      BY <2>1, <2>2 DEF Taken, In
    <2>4. \A i \in 1..MAX_PAYLOAD_SiZE : ~(i + 3 <= 3)
      BY Sizes
    <2>5. Holds(b, m, n)'
      BY <1>f, <1>g, <2>1, <2>2, <2>4 DEF Holds
    <2> QED
      BY <2>1, <2>2, <2>3, <2>5, Sizes
  <1>4. CASE ReadingPayload
    <2>1. n - 1 = k + 3 /\ k < MAX_PAYLOAD_SiZE /\ k \in Nat /\ k + 1 \in 1..MAX_PAYLOAD_SiZE
      BY <1>4, <1>e, TakenType, Sizes DEF ReadingPayload, ParserType
    <2>2. /\ checksum' = (checksum + NextByte) % BYTE /\ first' = first /\ k' = k + 1
          /\ payload' = [payload EXCEPT ![k + 1] = NextByte]
          /\ l_CurrentParseState' = IF k' >= MAX_PAYLOAD_SiZE THEN "WAITING_FOR_CHECKSUM"
                                    ELSE "READING_PAYLOAD"
          /\ UNCHANGED <<handled, l_BadChecksumCount>>
      BY <1>4 DEF ReadingPayload, GoTo
    <2>3. Taken' = n
      <3>1. CASE k + 1 >= MAX_PAYLOAD_SiZE
        <4>1. In("WAITING_FOR_CHECKSUM")' /\ n = CHECKSUM_AT
          BY <1>b, <2>1, <2>2, <3>1, Sizes DEF In
        <4> QED
          BY <4>1 DEF Taken, In
      <3>2. CASE ~(k + 1 >= MAX_PAYLOAD_SiZE)
        <4>1. In("READING_PAYLOAD")' /\ n = k' + 3
          BY <1>b, <2>1, <2>2, <3>2 DEF In
        <4> QED
          BY <4>1 DEF Taken, In
      <3> QED
        BY <3>1, <3>2
    <2>4. n <= CHECKSUM_AT /\ n < PACKET_SIZE /\ n - 1 > 0 /\ n = k + 4
      BY <1>b, <2>1, Sizes
    <2>5. \A i \in 1..MAX_PAYLOAD_SiZE : i + 3 <= n => payload'[i] = b[i + 3]
      <3> SUFFICES ASSUME NEW i \in 1..MAX_PAYLOAD_SiZE, i + 3 <= n PROVE payload'[i] = b[i + 3]
        OBVIOUS
      <3>1. payload \in [1..MAX_PAYLOAD_SiZE -> Bytes]
        BY DEF ParserType
      <3>2. CASE i = k + 1
        <4>1. payload'[k + 1] = NextByte
          BY <2>1, <2>2, <3>1
        <4>2. n = i + 3
          BY <2>1, <2>4, <3>2
        <4> QED
          BY <1>b, <3>2, <4>1, <4>2
      <3>3. CASE i # k + 1
        <4>1. payload'[i] = payload[i]
          BY <2>2, <3>1, <3>3
        <4>2. i + 3 <= n - 1
          BY <2>1, <2>4, <3>3
        <4> QED
          BY <1>e, <2>4, <4>1, <4>2 DEF Holds
      <3> QED
        BY <3>2, <3>3
    <2>6. Holds(b, m, n)'
      BY <1>f, <1>g, <2>2, <2>4, <2>5 DEF Holds
    <2> QED
      BY <2>2, <2>3, <2>4, <2>6
  <1>5. CASE WaitingForChecksum
    <2>1. n = PACKET_SIZE /\ n - 1 = CHECKSUM_AT /\ n - 1 > 0
      BY <1>5, <1>b, <1>e, TakenType, Sizes DEF WaitingForChecksum
    <2>2. PICK s \in [0..CHECKSUM_AT -> Bytes] : SumsOf(s, b) /\ b[PACKET_SIZE] = s[CHECKSUM_AT]
      BY <1>c DEF WellFormed
    <2>3. CHECKSUM_AT <= CHECKSUM_AT
      BY Sizes
    <2>4. NextByte = checksum
      BY <1>b, <1>e, <2>1, <2>2, <2>3 DEF Holds
    <2>5. first = Arriving.n /\ off + 1 = PACKET_SIZE
      BY <1>b, <1>f, <2>1
    <2>6. payload = SubSeq(b, 4, CHECKSUM_AT)
      <3>1. \A i \in 1..MAX_PAYLOAD_SiZE : i + 3 <= CHECKSUM_AT
        BY Sizes
      <3>2. \A i \in 1..MAX_PAYLOAD_SiZE : payload[i] = b[i + 3]
        BY <1>e, <2>1, <3>1 DEF Holds
      <3> QED
        BY <1>d, <3>2, PayloadOfPacket DEF ParserType
    <2>7. /\ handled' = Append(handled, [data |-> payload, n |-> first])
          /\ UNCHANGED l_BadChecksumCount /\ In("WAITING_FOR_STX")'
      BY <1>5, <2>4, <2>5 DEF WaitingForChecksum, In, GoTo
    <2>8. Taken' = 0
      BY <2>7 DEF Taken, In
    <2> QED
      BY <2>1, <2>5, <2>6, <2>7, <2>8
  <1> QED
    BY <1>1, <1>2, <1>3, <1>4, <1>5 DEF l_ParsePacket

\* The step of a parser in its place, seen from the stream: only a packet that
\* stops half way takes it out of its place.
LEMMA InPlaceByReading ==
    ASSUME Sound, InPlace, l_ParsePacket
    PROVE  \/ ~EndOfPacket /\ InPlace' /\ UNCHANGED <<handled, l_BadChecksumCount>>
           \/ /\ EndOfPacket /\ Arriving.upto = PACKET_SIZE /\ InPlace'
              /\ handled' = Append(handled, [data |-> SubSeq(Arriving.bytes, 4, CHECKSUM_AT),
                                             n |-> Arriving.n])
              /\ UNCHANGED l_BadChecksumCount
           \/ /\ EndOfPacket /\ Arriving.upto < PACKET_SIZE /\ Taken' > off'
              /\ UNCHANGED <<handled, l_BadChecksumCount>>
  <1> USE DEF Sound
  <1>a. ReadByte
    BY ParserTypeNext
  <1>1. PICK b, m, n : b = Arriving.bytes /\ m = Arriving.n /\ n = off + 1
    OBVIOUS
  <1>b. /\ wire # <<>> /\ Arriving.upto \in 1..PACKET_SIZE /\ n \in 1..Arriving.upto
        /\ \/ EndOfPacket /\ wire' = Tail(wire) /\ off' = 0
           \/ ~EndOfPacket /\ wire' = wire /\ off' = n /\ n < Arriving.upto
    BY <1>a, <1>1, ReadFacts
  <1>c. \/ /\ n < PACKET_SIZE
           /\ Taken' = n
           /\ Holds(b, m, n)'
           /\ UNCHANGED <<handled, l_BadChecksumCount>>
        \/ /\ n = PACKET_SIZE
           /\ Taken' = 0
           /\ handled' = Append(handled, [data |-> SubSeq(b, 4, CHECKSUM_AT), n |-> m])
           /\ UNCHANGED l_BadChecksumCount
    BY <1>1, ParserInPlace
  <1>2. CASE ~EndOfPacket
    <2>1. wire' = wire /\ off' = n /\ n < Arriving.upto /\ n # PACKET_SIZE
      BY <1>b, <1>2, Sizes
    <2>2. Arriving' = Arriving
      BY <2>1 DEF Arriving
    <2>3. Taken' = off' /\ Holds(b, m, n)' /\ UNCHANGED <<handled, l_BadChecksumCount>>
      BY <1>c, <2>1
    <2>4. b = Arriving'.bytes /\ m = Arriving'.n /\ n = off'
      BY <1>1, <2>1, <2>2
    <2>5. InPlace'
      BY <2>3, <2>4 DEF InPlace
    <2> QED
      BY <1>2, <2>3, <2>5
  <1>3. CASE EndOfPacket
    <2>1. off' = 0 /\ n = Arriving.upto
      BY <1>1, <1>b, <1>3 DEF EndOfPacket
    <2>2. CASE n = PACKET_SIZE
      <3>1. Taken' = 0 /\ UNCHANGED l_BadChecksumCount
            /\ handled' = Append(handled, [data |-> SubSeq(b, 4, CHECKSUM_AT), n |-> m])
        BY <1>c, <2>2, Sizes
      <3>2. InPlace'
        BY <2>1, <3>1 DEF InPlace
      <3> QED
        BY <1>1, <1>3, <2>1, <2>2, <3>1, <3>2
    <2>3. CASE n # PACKET_SIZE
      <3>1. Arriving.upto < PACKET_SIZE /\ n > 0
        BY <1>b, <2>1, <2>3, Sizes
      <3>2. Taken' = n /\ UNCHANGED <<handled, l_BadChecksumCount>>
        BY <1>c, <2>3
      <3>3. Taken' > off'
        BY <2>1, <3>1, <3>2
      <3> QED
        BY <1>3, <3>1, <3>2, <3>3
    <2> QED
      BY <2>2, <2>3
  <1> QED
    BY <1>2, <1>3

\* The other steps leave the parser and its place alone, but for a connection that
\* breaks.
LEMMA InPlaceOtherwise ==
    ASSUME Sound, [Next]_packetVars, ~l_ParsePacket
    PROVE  /\ UNCHANGED parserVars /\ Taken' = Taken
           /\ ~ConnectionBreaks => off' = off /\ (InPlace' <=> InPlace)
  <1> USE DEF Sound
  <1>1. UNCHANGED parserVars
    BY DEF Next, BuildAndSendPacket, TXHandler, ConnectionBreaks, Server_Update, Connect, Disconnect, SocketTimesOut, Accept, ClientStop,
           packetVars
  <1>2. Taken' = Taken
    BY <1>1 DEF parserVars, Taken, In
  <1>3. ASSUME ~ConnectionBreaks PROVE off' = off /\ (InPlace' <=> InPlace)
    <2>1. off' = off
      BY <1>3 DEF Next, BuildAndSendPacket, TXHandler, Server_Update, Connect, Disconnect, SocketTimesOut, Accept, ClientStop,
                  packetVars, streamVars
    <2>2. off > 0 => Arriving' = Arriving
      <3> SUFFICES ASSUME off > 0 PROVE Arriving' = Arriving
        OBVIOUS
      <3>1. wire # <<>> /\ wire \in Seq(Sending) /\ Len(wire) \in Nat
        BY DEF TypeOK, Sending
      <3>2. 1 \in 1..Len(wire) /\ Head(wire) = wire[1]
        BY <3>1, TailFacts
      <3>3. CASE \E e \in Sending : wire' = Append(wire, e)
        <4>1. PICK e \in Sending : wire' = Append(wire, e)
          BY <3>3
        <4>2. wire' \in Seq(Sending) /\ wire' # <<>> /\ wire'[1] = wire[1]
          BY <3>1, <3>2, <4>1, AppendFacts
        <4>3. Head(wire') = wire'[1]
          BY <4>2, TailFacts
        <4> QED
          BY <3>2, <4>2, <4>3 DEF Arriving
      <3>4. CASE wire' = wire
        BY <3>4 DEF Arriving
      <3>5. TXHandler => wire' = wire \/ \E e \in Sending : wire' = Append(wire, e)
        BY TransmitFacts
      <3>6. ~TXHandler => wire' = wire
        BY <1>3 DEF Next, BuildAndSendPacket, Server_Update, Connect, Disconnect, SocketTimesOut, Accept, ClientStop, packetVars, streamVars
      <3> QED
        BY <3>3, <3>4, <3>5, <3>6
    <2>3. UNCHANGED <<first, checksum, payload>>
      BY <1>1 DEF parserVars
    <2>4. CASE off > 0
      <3>1. Arriving' = Arriving
        BY <2>2, <2>4
      <3>2. Holds(Arriving.bytes, Arriving.n, off)' <=> Holds(Arriving.bytes, Arriving.n, off)
        BY <2>1, <2>3, <3>1 DEF Holds
      <3> QED
        BY <1>2, <2>1, <3>2 DEF InPlace
    <2>5. CASE ~(off > 0)
      BY <1>2, <2>1, <2>5 DEF InPlace
    <2> QED
      BY <2>1, <2>4, <2>5
  <1> QED
    BY <1>1, <1>2, <1>3

\* What the other steps do to the packets on their way: a packet is sent with a
\* number above the earlier ones, and a cut leaves one packet more that stops half
\* way, or none at all.
LEMMA QueuesOtherwise ==
    ASSUME Sound, [Next]_packetVars, ~l_ParsePacket
    PROVE  /\ \A n \in 1..Len(sent) : n \in 1..Len(sent') /\ sent'[n] = sent[n]
           /\ \A m \in Numbers(wire') \cup Numbers(m_TXQ') :
                 m \in Numbers(wire) \cup Numbers(m_TXQ) \/ m > Len(sent)
           /\ \/ cuts' = cuts /\ Broken' = Broken /\ ~ConnectionBreaks
              \/ cuts' = cuts + 1 /\ ConnectionBreaks /\ Broken' = {}
              \/ cuts' = cuts + 1 /\ ~ConnectionBreaks /\ \E n : Broken' = Broken \cup {n}
  <1> USE DEF Sound
  <1>a. /\ m_TXQ \in Seq(Entry) /\ wire \in Seq(Sending) /\ sent \in Seq(Packet)
        /\ Len(sent) \in Nat /\ cuts \in Nat
    BY DEF TypeOK, Entry, Sending
  <1>b. cuts + 1 # cuts
    BY <1>a
  <1>1. ASSUME NEW length \in Lengths, NEW data \in Payloads, BuildAndSendPacket(length, data)
        PROVE  /\ \A n \in 1..Len(sent) : n \in 1..Len(sent') /\ sent'[n] = sent[n]
               /\ \A m \in Numbers(wire') \cup Numbers(m_TXQ') :
                     m \in Numbers(wire) \cup Numbers(m_TXQ) \/ m > Len(sent)
               /\ cuts' = cuts /\ Broken' = Broken /\ ~ConnectionBreaks
    <2>1. PICK e \in Entry :
              e.n = Len(sent) + 1 /\ m_TXQ' = Append(m_TXQ, e) /\ sent' = Append(sent, e.bytes)
      BY <1>1, BuildFacts
    <2>2. /\ Len(sent') = Len(sent) + 1
          /\ \A n \in 1..Len(sent) : n \in 1..(Len(sent) + 1) /\ sent'[n] = sent[n]
      BY <1>a, <2>1, AppendFacts DEF Entry
    <2>3. Numbers(m_TXQ') = Numbers(m_TXQ) \cup {e.n}
      BY <1>a, <2>1, NumbersAppend
    <2>4. UNCHANGED <<wire, cuts>>
      BY <1>1 DEF BuildAndSendPacket, streamVars
    <2>5. e.n > Len(sent)
      BY <1>a, <2>1
    <2>6. ~ConnectionBreaks
      BY <1>b, <2>4 DEF ConnectionBreaks
    <2>7. Broken' = Broken /\ Numbers(wire') = Numbers(wire)
      BY <2>4 DEF Broken, Numbers
    <2> QED
      BY <2>2, <2>3, <2>4, <2>5, <2>6, <2>7
  <1>2. CASE TXHandler
    <2> DEFINE p == Head(m_TXQ)
    <2>1. m_TXQ # <<>> /\ m_TXQ' = Tail(m_TXQ) /\ UNCHANGED sent
      BY <1>2 DEF TXHandler
    <2>2. Numbers(m_TXQ) = Numbers(m_TXQ') \cup {p.n} /\ m_TXQ' # m_TXQ
      <3>1. Len(m_TXQ') = Len(m_TXQ) - 1 /\ Len(m_TXQ) \in Nat
        BY <1>a, <2>1, TailFacts
      <3>2. Len(m_TXQ') # Len(m_TXQ)
        BY <3>1
      <3> QED
        BY <1>a, <2>1, <3>2, NumbersTail
    <2>3. ~ConnectionBreaks
      BY <2>2 DEF ConnectionBreaks, senderVars
    <2> HIDE DEF p
    <2>4. CASE UNCHANGED <<wire, cuts>>
      <3>1. Broken' = Broken /\ Numbers(wire') = Numbers(wire)
        BY <2>4 DEF Broken, Numbers
      <3> QED
        BY <2>1, <2>2, <2>3, <2>4, <3>1
    <2>5. CASE \E e \in Sending :
                  /\ e.n = p.n
                  /\ wire' = Append(wire, e)
                  /\ \/ e.upto = PACKET_SIZE /\ UNCHANGED cuts
                     \/ e.upto < PACKET_SIZE /\ cuts' = cuts + 1
      <3>1. PICK e \in Sending :
                  /\ e.n = p.n
                  /\ wire' = Append(wire, e)
                  /\ \/ e.upto = PACKET_SIZE /\ UNCHANGED cuts
                     \/ e.upto < PACKET_SIZE /\ cuts' = cuts + 1
        BY <2>5
      <3>2. Numbers(wire') = Numbers(wire) \cup {p.n}
        BY <1>a, <3>1, NumbersAppend
      <3>3. /\ Len(wire') = Len(wire) + 1 /\ wire'[Len(wire) + 1] = e
            /\ \A i \in 1..Len(wire) : i \in 1..Len(wire') /\ wire'[i] = wire[i]
            /\ \A i \in 1..Len(wire') : i \in 1..Len(wire) \/ i = Len(wire) + 1
            /\ Len(wire) + 1 \in 1..Len(wire')
        BY <1>a, <3>1, AppendFacts
      <3>4. Broken \subseteq Broken'
        <4> SUFFICES ASSUME NEW i \in 1..Len(wire), wire[i].upto < PACKET_SIZE
                     PROVE  wire[i].n \in Broken'
          BY DEF Broken
        <4>1. i \in 1..Len(wire') /\ wire'[i] = wire[i]
          BY <3>3
        <4> QED
          BY <4>1 DEF Broken
      <3>5. \A i \in 1..Len(wire') : wire'[i].upto < PACKET_SIZE =>
               wire'[i].n \in Broken \/ (e.upto < PACKET_SIZE /\ wire'[i].n = e.n)
        BY <3>3 DEF Broken
      <3>6. CASE e.upto = PACKET_SIZE /\ UNCHANGED cuts
        <4>1. ~(e.upto < PACKET_SIZE)
          BY <3>6, Sizes
        <4>2. Broken' \subseteq Broken
          BY <3>5, <4>1 DEF Broken
        <4>3. Broken' = Broken
          BY <3>4, <4>2
        <4> QED
          BY <2>1, <2>2, <2>3, <3>2, <3>6, <4>3
      <3>7. CASE e.upto < PACKET_SIZE /\ cuts' = cuts + 1
        <4>1. Broken' \subseteq Broken \cup {e.n}
          BY <3>5 DEF Broken
        <4>2. e.n \in Broken'
          BY <3>3, <3>7 DEF Broken
        <4>3. Broken' = Broken \cup {e.n}
          BY <3>4, <4>1, <4>2
        <4> QED
          BY <2>1, <2>2, <2>3, <3>2, <3>7, <4>3
      <3> QED
        BY <3>1, <3>6, <3>7
    <2> QED
      BY <1>2, <2>4, <2>5, TransmitFacts DEF p
  <1>3. CASE ConnectionBreaks
    <2>1. wire' = <<>> /\ UNCHANGED <<m_TXQ, sent>> /\ cuts' = cuts + 1
      BY <1>3 DEF ConnectionBreaks, senderVars
    <2>2. Numbers(wire') = {} /\ Broken' = {}
      BY <2>1 DEF Numbers, Broken
    <2>3. Numbers(m_TXQ') = Numbers(m_TXQ)
      BY <2>1
    <2>4. \A n \in 1..Len(sent) : n \in 1..Len(sent') /\ sent'[n] = sent[n]
      BY <2>1
    <2> QED
      BY <1>3, <2>1, <2>2, <2>3, <2>4
  <1>4. CASE Connect \/ Disconnect \/ SocketTimesOut \/ Accept \/ ClientStop \/ UNCHANGED packetVars
    <2>1. UNCHANGED <<sent, m_TXQ, wire, cuts>>
      BY <1>4 DEF Connect, Disconnect, SocketTimesOut, Accept, ClientStop, packetVars, senderVars, streamVars
    <2>2. Broken' = Broken /\ Numbers(wire') = Numbers(wire) /\ Numbers(m_TXQ') = Numbers(m_TXQ)
      BY <2>1 DEF Broken, Numbers
    <2>3. ~ConnectionBreaks
      BY <1>b, <2>1 DEF ConnectionBreaks
    <2> QED
      BY <2>1, <2>2, <2>3
  <1> QED
    BY <1>1, <1>2, <1>3, <1>4 DEF Next, Server_Update

-----------------------------------------------------------------------------
(* Framing is exact while the stream is not cut *)

\* What keeps framing exact: the parser is in its place, nothing on its way stops
\* half way, and what was handled was sent before what is on its way.
Framing ==
    cuts = 0 =>
        /\ InPlace
        /\ Broken = {}
        /\ \A i \in 1..Len(handled) :
              \A m \in Numbers(wire) \cup Numbers(m_TXQ) : handled[i].n < m
        /\ FramingExact

LEMMA FramingInit == Init => Framing /\ SpoiledOK
  <1> SUFFICES ASSUME Init PROVE Framing /\ SpoiledOK
    OBVIOUS
  <1>1. /\ wire = <<>> /\ m_TXQ = <<>> /\ sent = <<>> /\ handled = <<>> /\ spoiled = {} /\ off = 0
        /\ l_CurrentParseState = "WAITING_FOR_STX" /\ l_BadChecksumCount = 0
    BY DEF Init
  <1>2. /\ \A i \in 1..Len(wire) : FALSE
        /\ \A i \in 1..Len(m_TXQ) : FALSE
        /\ \A i \in 1..Len(sent) : FALSE
        /\ \A i \in 1..Len(handled) : FALSE
    BY <1>1
  <1>3. SpoiledOK
    BY <1>1, <1>2 DEF SpoiledOK
  <1>4. Taken = 0
    BY <1>1 DEF Taken, In
  <1>5. InPlace
    BY <1>1, <1>4 DEF InPlace
  <1>6. Broken = {}
    BY <1>2 DEF Broken
  <1>7. Passed = {} /\ Handled = {}
    BY <1>2 DEF Passed, Handled
  <1>8. FramingExact
    BY <1>1, <1>2, <1>7 DEF FramingExact
  <1> QED
    BY <1>2, <1>3, <1>5, <1>6, <1>8 DEF Framing

LEMMA FramingNext ==
    ASSUME Sound, SpoiledOK, Framing, [Next]_packetVars, cuts' = 0
    PROVE  /\ InPlace' /\ Broken' = {}
           /\ (\A i \in 1..Len(handled) :
                 \A m \in Numbers(wire) \cup Numbers(m_TXQ) : handled[i].n < m)'
           /\ FramingExact'
  <1> USE DEF Sound
  <1>a. /\ handled \in Seq(Request) /\ Len(handled) \in Nat /\ cuts \in Nat /\ Len(sent) \in Nat
    BY DEF ParserType, TypeOK
  <1>b. cuts = 0
    <2>1. l_ParsePacket => UNCHANGED cuts
      BY ParserTypeNext, ReadFacts
    <2>2. ~l_ParsePacket => cuts' = cuts \/ cuts' = cuts + 1
      BY QueuesOtherwise
    <2> QED
      BY <1>a, <2>1, <2>2
  <1>c. /\ InPlace /\ Broken = {} /\ l_BadChecksumCount = 0 /\ Handled = Passed
        /\ \A i \in 1..Len(handled) :
              /\ handled[i].n # 0
              /\ handled[i].data = SubSeq(sent[handled[i].n], 4, CHECKSUM_AT)
              /\ i > 1 => handled[i - 1].n < handled[i].n
    BY <1>b DEF Framing, FramingExact
  <1>d. \A i \in 1..Len(handled) :
           \A m \in Numbers(wire) \cup Numbers(m_TXQ) : handled[i].n < m
    BY <1>b DEF Framing
  <1>e. \A i \in 1..Len(handled) : handled[i].n \in 1..Len(sent)
    <2> SUFFICES ASSUME NEW i \in 1..Len(handled) PROVE handled[i].n \in 1..Len(sent)
      OBVIOUS
    <2>1. handled[i].n \in Handled
      BY <1>c DEF Handled
    <2> QED
      BY <1>c, <2>1 DEF Passed
  <1>1. CASE ~l_ParsePacket
    <2>1. UNCHANGED <<handled, l_BadChecksumCount>>
      BY <1>1, InPlaceOtherwise DEF parserVars
    <2>2. /\ cuts' = cuts /\ Broken' = Broken /\ ~ConnectionBreaks
          /\ \A n \in 1..Len(sent) : n \in 1..Len(sent') /\ sent'[n] = sent[n]
          /\ \A m \in Numbers(wire') \cup Numbers(m_TXQ') :
                m \in Numbers(wire) \cup Numbers(m_TXQ) \/ m > Len(sent)
      <3>1. cuts' # cuts + 1
        BY <1>a
      <3> QED
        BY <1>1, <3>1, QueuesOtherwise
    <2>3. InPlace'
      BY <1>1, <1>c, <2>2, InPlaceOtherwise
    <2>4. Handled' = Passed'
      BY <1>1, <1>c, <2>1, PassedNext DEF Handled
    <2>5. \A i \in 1..Len(handled) : \A m \in Numbers(wire') \cup Numbers(m_TXQ') : handled[i].n < m
      <3> SUFFICES ASSUME NEW i \in 1..Len(handled), NEW m \in Numbers(wire') \cup Numbers(m_TXQ')
                   PROVE  handled[i].n < m
        OBVIOUS
      <3>1. CASE m \in Numbers(wire) \cup Numbers(m_TXQ)
        BY <1>d, <3>1
      <3>2. CASE m > Len(sent)
        <4>1. \A j \in 1..Len(sent) : m \in Nat => j < m
          BY <1>a, <3>2
        <4>2. m \in Nat
          <5>1. TypeOK'
            BY TypeNext
          <5>2. wire' \in Seq(Sending) /\ m_TXQ' \in Seq(Entry)
            BY <5>1 DEF TypeOK, Sending, Entry
          <5>3. /\ \A e \in Sending : e.n \in Nat
                /\ \A e \in Entry : e.n \in Nat
            BY DEF Sending, Entry
          <5>4. Numbers(wire') \subseteq Nat /\ Numbers(m_TXQ') \subseteq Nat
            BY <5>2, <5>3, NumbersAreNat
          <5> QED
            BY <5>4
        <4> QED
          BY <1>e, <4>1, <4>2
      <3> QED
        BY <2>2, <3>1, <3>2
    <2>6. Numbers(wire)' = Numbers(wire') /\ Numbers(m_TXQ)' = Numbers(m_TXQ')
      BY DEF Numbers
    <2>7. FramingExact'
      BY <1>c, <1>e, <2>1, <2>2, <2>4 DEF FramingExact
    <2> QED
      BY <1>c, <2>1, <2>2, <2>3, <2>5, <2>6, <2>7
  <1>2. CASE l_ParsePacket
    <2>1. ReadByte /\ UNCHANGED <<m_TXQ, sent>>
      BY <1>2, ParserTypeNext, ReadFacts DEF senderVars
    <2>2. /\ wire # <<>> /\ wire \in Seq(Sending) /\ Arriving = wire[1] /\ Arriving = Head(wire)
          /\ Arriving.n \in 1..Len(sent) /\ Arriving.bytes = sent[Arriving.n]
          /\ (EndOfPacket /\ wire' = Tail(wire)) \/ (~EndOfPacket /\ wire' = wire)
      BY <2>1, ReadFacts DEF TypeOK, Sending, Arriving
    <2>3. CASE ~EndOfPacket /\ InPlace' /\ UNCHANGED <<handled, l_BadChecksumCount>>
      <3>1. wire' = wire /\ Passed' = Passed /\ Broken' = Broken
        BY <2>1, <2>2, <2>3, PassedByReading
      <3>2. Handled' = Handled
        BY <2>3 DEF Handled
      <3>3. FramingExact'
        BY <1>c, <2>1, <2>3, <3>1, <3>2 DEF FramingExact
      <3>4. Numbers(wire)' = Numbers(wire) /\ Numbers(m_TXQ)' = Numbers(m_TXQ)
        BY <2>1, <3>1 DEF Numbers
      <3> QED
        BY <1>c, <1>d, <2>3, <3>1, <3>3, <3>4
    <2>4. CASE /\ EndOfPacket /\ Arriving.upto = PACKET_SIZE /\ InPlace'
               /\ handled' = Append(handled, [data |-> SubSeq(Arriving.bytes, 4, CHECKSUM_AT),
                                             n |-> Arriving.n])
               /\ UNCHANGED l_BadChecksumCount
      <3> DEFINE r == [data |-> SubSeq(Arriving.bytes, 4, CHECKSUM_AT), n |-> Arriving.n]
      <3>1. wire' = Tail(wire) /\ Passed' = Passed \cup {Arriving.n} /\ Broken' = Broken
        BY <2>1, <2>2, <2>4, PassedByReading
      <3>2. handled' = Append(handled, r) /\ r.n = Arriving.n
            /\ r.data = SubSeq(sent[r.n], 4, CHECKSUM_AT) /\ r.n # 0
        <4>1. r.n = Arriving.n /\ r.data = SubSeq(Arriving.bytes, 4, CHECKSUM_AT)
          OBVIOUS
        <4>2. handled' = Append(handled, r)
          BY <2>4
        <4>3. Arriving.n # 0
          BY <2>2
        <4> HIDE DEF r
        <4> QED
          BY <2>2, <4>1, <4>2, <4>3
      <3>3. r \in Request
        <4>1. handled' \in Seq(Request) /\ Len(handled') = Len(handled) + 1
              /\ handled'[Len(handled) + 1] = r
          <5>1. handled' \in Seq(Request)
            BY <1>2, ParserTypeNext DEF ParserType
          <5> HIDE DEF r
          <5>2. Len(Append(handled, r)) = Len(handled) + 1
                /\ Append(handled, r)[Len(handled) + 1] = r
            BY <1>a, AppendProperties
          <5> QED
            BY <3>2, <5>1, <5>2
        <4>2. Len(handled) + 1 \in 1..Len(handled')
          BY <1>a, <4>1
        <4> QED
          BY <4>1, <4>2, ElementOfSeq
      <3> HIDE DEF r
      <3>4. /\ Len(handled') = Len(handled) + 1 /\ handled'[Len(handled) + 1] = r
            /\ \A i \in 1..Len(handled) : handled'[i] = handled[i]
            /\ \A i \in 1..Len(handled') : i \in 1..Len(handled) \/ i = Len(handled) + 1
        BY <1>a, <3>2, <3>3, AppendFacts
      <3>5. Numbers(handled') = Numbers(handled) \cup {r.n}
        BY <1>a, <3>2, <3>3, NumbersAppend
      <3>6. Handled' = Handled \cup {r.n}
        <4>1. Handled' = Numbers(handled') \ {0} /\ Handled = Numbers(handled) \ {0}
          BY DEF Handled, Numbers
        <4> QED
          BY <3>2, <3>5, <4>1
      <3>7. Numbers(wire) = Numbers(wire') \cup {r.n}
        BY <2>2, <3>1, <3>2, NumbersTail
      <3>8. \A i \in 1..Len(handled) : handled[i].n < r.n
        BY <1>d, <3>7
      <3>9. \A m \in Numbers(wire') \cup Numbers(m_TXQ) : r.n < m
        BY <2>2, <3>1, <3>2, FirstIsBefore
      <3>10. \A i \in 1..Len(handled') :
                /\ handled'[i].n # 0
                /\ handled'[i].data = SubSeq(sent'[handled'[i].n], 4, CHECKSUM_AT)
                /\ i > 1 => handled'[i - 1].n < handled'[i].n
        <4> SUFFICES ASSUME NEW i \in 1..Len(handled')
                     PROVE  /\ handled'[i].n # 0
                            /\ handled'[i].data = SubSeq(sent'[handled'[i].n], 4, CHECKSUM_AT)
                            /\ i > 1 => handled'[i - 1].n < handled'[i].n
          OBVIOUS
        <4>1. CASE i \in 1..Len(handled)
          <5>1. i > 1 => i - 1 \in 1..Len(handled)
            BY <1>a, <4>1
          <5> QED
            BY <1>c, <2>1, <3>4, <4>1, <5>1
        <4>2. CASE i = Len(handled) + 1
          <5>1. i > 1 => i - 1 \in 1..Len(handled)
            BY <1>a, <4>2
          <5> QED
            BY <2>1, <3>2, <3>4, <3>8, <4>2, <5>1
        <4> QED
          BY <3>4, <4>1, <4>2
      <3>11. FramingExact'
        BY <1>c, <2>4, <3>1, <3>2, <3>6, <3>10 DEF FramingExact
      <3>12. \A i \in 1..Len(handled') :
                \A m \in Numbers(wire') \cup Numbers(m_TXQ') : handled'[i].n < m
        BY <1>d, <2>1, <3>4, <3>7, <3>9
      <3>13. Numbers(wire)' = Numbers(wire') /\ Numbers(m_TXQ)' = Numbers(m_TXQ')
        BY DEF Numbers
      <3> QED
        BY <1>c, <2>4, <3>1, <3>11, <3>12, <3>13
    <2>5. CASE EndOfPacket /\ Arriving.upto < PACKET_SIZE
      <3>1. Arriving.n \in Broken
        BY <2>1, <2>5, PassedByReading
      <3> QED
        BY <1>c, <3>1
    <2> QED
      BY <1>2, <1>c, <2>3, <2>4, <2>5, InPlaceByReading
  <1> QED
    BY <1>1, <1>2

\* As long as nothing is cut, every packet that came through was handled, once, in
\* order, with its payload, and none was rejected: for every payload size, every
\* set of payloads, the start byte among them or not, and any number of packets.
THEOREM FramingIsExact == Spec => []FramingExact
  <1>1. Init => Sound /\ SpoiledOK /\ Framing
    BY SoundInit, FramingInit
  <1>2. Sound /\ SpoiledOK /\ Framing /\ [Next]_packetVars => Sound' /\ SpoiledOK' /\ Framing'
    <2> SUFFICES ASSUME Sound, SpoiledOK, Framing, [Next]_packetVars
                 PROVE  Sound' /\ SpoiledOK' /\ Framing'
      OBVIOUS
    <2>1. Sound' /\ SpoiledOK'
      BY SoundNext, SpoiledNext
    <2>2. Framing'
      BY FramingNext DEF Framing
    <2> QED
      BY <2>1, <2>2
  <1>3. Sound /\ SpoiledOK /\ Framing => FramingExact
    BY DEF Framing, FramingExact
  <1> QED
    BY <1>1, <1>2, <1>3, PTL DEF Spec

-----------------------------------------------------------------------------
(* A cut costs at most one packet *)

\* What was handled stays handled.
LEMMA HandledGrows ==
    ASSUME Sound, l_ParsePacket
    PROVE  Handled \subseteq Handled'
  <1> USE DEF Sound
  <1>1. handled \in Seq(Request) /\ handled' \in Seq(Request) /\ Len(handled) \in Nat
    BY ParserTypeNext DEF ParserType
  <1>2. \/ handled' = handled
        \/ \E r : handled' = Append(handled, r)
    BY DEF l_ParsePacket, WaitingForSTX, WaitingForRNG, WaitingForLEN, ReadingPayload,
           WaitingForChecksum
  <1>3. CASE handled' = handled
    BY <1>3 DEF Handled
  <1>4. CASE \E r : handled' = Append(handled, r)
    <2>1. PICK r : handled' = Append(handled, r)
      BY <1>4
    <2>2. Len(handled') = Len(handled) + 1
          /\ \A i \in 1..Len(handled) : handled'[i] = handled[i]
      BY <1>1, <2>1, AppendProperties
    <2>3. 1..Len(handled) \subseteq 1..Len(handled')
      BY <1>1, <2>2
    <2> QED
      BY <2>2, <2>3 DEF Handled
  <1> QED
    BY <1>2, <1>3, <1>4

LEMMA TakenInBounds == ParserType => Taken \in 0..CHECKSUM_AT
  BY TakenType

\* Every byte takes a parser that is inside a packet one place further, to the end
\* of the packet at last.
LEMMA TakenNext ==
    ASSUME Sound, l_ParsePacket, ~In("WAITING_FOR_STX")
    PROVE  In("WAITING_FOR_STX")' \/ Taken' >= Taken + 1
  <1> USE DEF Sound
  <1>a. k \in 0..MAX_PAYLOAD_SiZE
    BY DEF ParserType
  <1>1. CASE WaitingForRNG
    <2>1. In("WAITING_FOR_LEN")' /\ Taken = 1
      BY <1>1, TakenType DEF WaitingForRNG, In, GoTo
    <2>2. Taken' = 2
      BY <2>1 DEF Taken, In
    <2> QED
      BY <2>1, <2>2
  <1>2. CASE WaitingForLEN
    <2>1. Taken = 2 /\ k' = k /\ (In("READING_PAYLOAD")' \/ In("WAITING_FOR_CHECKSUM")')
      BY <1>2, TakenType DEF WaitingForLEN, In, GoTo
    <2>2. Taken' = k + 3 \/ Taken' = CHECKSUM_AT
      BY <2>1 DEF Taken, In
    <2> QED
      BY <1>a, <2>1, <2>2, Sizes
  <1>3. CASE ReadingPayload
    <2>1. Taken = k + 3 /\ k < MAX_PAYLOAD_SiZE
      BY <1>3, TakenType DEF ReadingPayload, ParserType
    <2>2. /\ k' = k + 1
          /\ l_CurrentParseState' = IF k' >= MAX_PAYLOAD_SiZE THEN "WAITING_FOR_CHECKSUM"
                                    ELSE "READING_PAYLOAD"
      BY <1>3 DEF ReadingPayload, GoTo
    <2>3. Taken' = CHECKSUM_AT \/ Taken' = k + 1 + 3
      BY <2>2 DEF Taken, In
    <2> QED
      BY <1>a, <2>1, <2>3, Sizes
  <1>4. CASE WaitingForChecksum
    BY <1>4 DEF WaitingForChecksum, In, GoTo
  <1> QED
    BY <1>1, <1>2, <1>3, <1>4 DEF l_ParsePacket, WaitingForSTX

AllQuiet == \A n \in 1..Len(sent) : Quiet(sent[n])

\* The parser is in its place, or between packets, or ahead of the stream, as it is
\* after a packet that stopped half way: never behind it, for there is no byte in
\* the middle of a quiet packet it could take for a start.
NotBehind == InPlace \/ In("WAITING_FOR_STX") \/ Taken > off

\* A parser out of its place loses at most the rest of one packet: the end of a
\* whole one finds it in its place again.
LEMMA OutOfPlaceByReading ==
    ASSUME Sound, l_ParsePacket, AllQuiet, NotBehind, ~InPlace
    PROVE  /\ NotBehind'
           /\ EndOfPacket /\ Arriving.upto = PACKET_SIZE => InPlace'
  <1> USE DEF Sound
  <1>a. ReadByte /\ ParserType'
    BY ParserTypeNext
  <1>b. /\ Arriving.n \in 1..Len(sent) /\ Arriving.bytes = sent[Arriving.n]
        /\ off + 1 \in 1..PACKET_SIZE /\ off \in Nat
        /\ \/ EndOfPacket /\ off' = 0
           \/ ~EndOfPacket /\ off' = off + 1
    <2>1. TypeOK /\ StreamOK /\ ReadByte
      BY <1>a
    <2>2. /\ Arriving.n \in 1..Len(sent) /\ Arriving.bytes = sent[Arriving.n]
          /\ off + 1 \in 1..PACKET_SIZE
          /\ \/ EndOfPacket /\ off' = 0
             \/ ~EndOfPacket /\ off' = off + 1
      BY <2>1, ReadFacts, Zenon
    <2>3. off \in 0..(PACKET_SIZE - 1)
      BY <2>1 DEF TypeOK
    <2> QED
      BY <2>2, <2>3
  <1>c. In("WAITING_FOR_STX")' => Taken' = 0
    BY DEF Taken, In
  <1>d. EndOfPacket => off' = 0
    BY <1>b
  <1>1. CASE In("WAITING_FOR_STX")
    <2>1. Taken = 0
      BY <1>1, TakenType
    <2>2. off > 0
      <3>1. off = 0 => InPlace
        BY <2>1 DEF InPlace
      <3> QED
        BY <1>b, <3>1
    <2>3. off + 1 \in 2..PACKET_SIZE
      BY <1>b, <2>2, Sizes
    <2>4. NextByte # WRAPPER_STX
      BY <1>b, <2>3 DEF AllQuiet, Quiet, NextByte
    <2>5. In("WAITING_FOR_STX")'
      BY <1>1, <2>4 DEF l_ParsePacket, WaitingForSTX, WaitingForRNG, WaitingForLEN,
                        ReadingPayload, WaitingForChecksum, In
    <2>6. EndOfPacket => InPlace'
      BY <1>c, <1>d, <2>5 DEF InPlace
    <2> QED
      BY <2>5, <2>6 DEF NotBehind
  <1>2. CASE ~In("WAITING_FOR_STX")
    <2>1. Taken > off /\ Taken \in 0..CHECKSUM_AT
      BY <1>2, TakenType DEF NotBehind
    <2>2. off' <= off + 1
      BY <1>b
    <2>3. Taken' >= Taken + 1 => Taken' > off'
      <3>1. Taken' \in Nat /\ off' \in Nat
        <4>1. ParserType'
          BY <1>a
        <4>2. (Taken \in 0..CHECKSUM_AT)'
          BY <4>1, TakenInBounds, PTL
        <4> QED
          BY <1>b, <4>2, Sizes
      <3> QED
        BY <1>b, <2>1, <2>2, <3>1
    <2>4. NotBehind'
      BY <1>2, <2>3, TakenNext DEF NotBehind
    <2>5. ~(EndOfPacket /\ Arriving.upto = PACKET_SIZE)
      <3>1. off + 1 # PACKET_SIZE
        BY <1>b, <2>1, Sizes
      <3> QED
        BY <3>1 DEF EndOfPacket
    <2> QED
      BY <2>4, <2>5
  <1> QED
    BY <1>1, <1>2

Pending == IF InPlace THEN 0 ELSE 1

\* The account of the cuts: each of them has been spent on a packet that was lost
\* in the parser, or on the parser being out of its place, which may still cost
\* one, or on a packet that stops half way, which has still to be read.
Swallowed == Cardinality(Passed \ Handled)
Halves == Cardinality(Broken)

Account == NotBehind /\ Swallowed + Pending + Halves <= cuts

Credit == AllQuiet => Account

\* The sets that are counted are finite.
Counted ==
    /\ IsFiniteSet(Passed \ Handled) /\ IsFiniteSet(Broken)
    /\ Swallowed \in Nat /\ Halves \in Nat
    /\ Pending \in 0..1 /\ cuts \in Nat

LEMMA Countable == Sound => Counted
  <1> SUFFICES ASSUME Sound PROVE Counted
    OBVIOUS
  <1> USE DEF Sound
  <1>1. Len(sent) \in Nat /\ cuts \in Nat
    BY DEF TypeOK
  <1>2. IsFiniteSet(1..Len(sent))
    BY <1>1, FS_Interval
  <1>3. Passed \ Handled \subseteq 1..Len(sent) /\ Broken \subseteq 1..Len(sent)
    BY DEF Passed, Broken, StreamOK, IsSent
  <1>4. IsFiniteSet(Passed \ Handled) /\ IsFiniteSet(Broken)
    BY <1>2, <1>3, FS_Subset
  <1> QED
    BY <1>1, <1>4, FS_CardinalityType DEF Counted, Swallowed, Halves, Pending

\* Counting with one element more, one less, or fewer.
LEMMA Counts ==
    ASSUME NEW S, IsFiniteSet(S)
    PROVE  /\ \A T : T \subseteq S => IsFiniteSet(T) /\ Cardinality(T) <= Cardinality(S)
           /\ \A T, x : T \subseteq S \cup {x} => Cardinality(T) <= Cardinality(S) + 1
           /\ \A x \in S : Cardinality(S \ {x}) = Cardinality(S) - 1
  <1>1. Cardinality(S) \in Nat
    BY FS_CardinalityType
  <1>2. \A T : T \subseteq S => IsFiniteSet(T) /\ Cardinality(T) <= Cardinality(S)
    BY FS_Subset
  <1>3. ASSUME NEW T, NEW x, T \subseteq S \cup {x}
        PROVE  Cardinality(T) <= Cardinality(S) + 1
    <2>1. /\ IsFiniteSet(S \cup {x})
          /\ Cardinality(S \cup {x}) = IF x \in S THEN Cardinality(S) ELSE Cardinality(S) + 1
      BY FS_AddElement
    <2>2. Cardinality(T) <= Cardinality(S \cup {x}) /\ Cardinality(T) \in Nat
      BY <1>3, <2>1, FS_Subset, FS_CardinalityType
    <2> QED
      BY <1>1, <2>1, <2>2
  <1>4. ASSUME NEW x \in S PROVE Cardinality(S \ {x}) = Cardinality(S) - 1
    BY FS_RemoveElement
  <1> QED
    BY <1>2, <1>3, <1>4

LEMMA CreditNext ==
    ASSUME Sound, SpoiledOK, Account, AllQuiet, [Next]_packetVars
    PROVE  Account'
  <1> USE DEF Sound
  <1>a. /\ IsFiniteSet(Passed \ Handled) /\ IsFiniteSet(Broken)
        /\ Swallowed \in Nat /\ Halves \in Nat /\ Pending \in 0..1 /\ cuts \in Nat
    BY Countable DEF Counted
  <1>b. /\ Swallowed' \in Nat /\ Halves' \in Nat /\ Pending' \in 0..1 /\ cuts' \in Nat
    <2>1. Sound'
      BY SoundNext
    <2>2. Counted'
      BY <2>1, Countable, PTL
    <2> QED
      BY <2>2 DEF Counted
  <1>n. /\ Swallowed \in Int /\ Halves \in Int /\ Pending \in Int /\ cuts \in Int
        /\ Swallowed' \in Int /\ Halves' \in Int /\ Pending' \in Int /\ cuts' \in Int
        /\ Pending' <= 1 /\ 0 <= Pending /\ 0 <= Halves
    BY <1>a, <1>b
  <1>c. Swallowed + Pending + Halves <= cuts /\ NotBehind
    BY DEF Account
  \* The account before and after the step, in numbers.
  <1>g. PICK c \in Int : c = Swallowed
    BY <1>n
  <1>h. PICK p \in Int : p = Pending
    BY <1>n
  <1>i. PICK b \in Int : b = Halves
    BY <1>n
  <1>j. PICK m \in Int : m = cuts
    BY <1>n
  <1>k. PICK c1 \in Int : c1 = Swallowed'
    BY <1>n
  <1>l. PICK p1 \in Int : p1 = Pending'
    BY <1>n
  <1>o. PICK b1 \in Int : b1 = Halves'
    BY <1>n
  <1>p. PICK m1 \in Int : m1 = cuts'
    BY <1>n
  <1>q. 0 <= p /\ 0 <= b /\ p1 <= 1
    BY <1>n, <1>h, <1>i, <1>l
  <1>r. c + p + b <= m
    BY <1>c, <1>g, <1>h, <1>i, <1>j
  <1>d. c1 + p1 + b1 <= m1 /\ NotBehind' => Account'
    BY <1>k, <1>l, <1>o, <1>p DEF Account
  <1>e. /\ InPlace => Pending = 0
        /\ ~InPlace => Pending = 1
        /\ InPlace' => Pending' = 0
        /\ (InPlace' <=> InPlace) => Pending' = Pending
    BY DEF Pending
  <1>1. CASE ~l_ParsePacket
    <2>1. UNCHANGED parserVars /\ Taken' = Taken
          /\ (~ConnectionBreaks => off' = off /\ (InPlace' <=> InPlace))
      BY <1>1, InPlaceOtherwise
    <2>2. Passed' = Passed /\ Handled' = Handled
      BY <1>1, <2>1, PassedNext DEF Handled, parserVars
    <2>3. Swallowed' = Swallowed /\ Swallowed' <= Swallowed
      <3>1. Swallowed' = Swallowed
        BY <2>2 DEF Swallowed
      <3> QED
        BY <1>n, <3>1
    <2>4. In("WAITING_FOR_STX")' <=> In("WAITING_FOR_STX")
      BY <2>1 DEF parserVars, In
    <2>5. CASE cuts' = cuts /\ Broken' = Broken /\ ~ConnectionBreaks
      <3>1. NotBehind'
        BY <1>c, <2>1, <2>4, <2>5 DEF NotBehind
      <3>2. Pending' = Pending /\ Halves' = Halves
        BY <1>e, <2>1, <2>5 DEF Halves
      <3>3. Pending' <= Pending
        BY <1>n, <3>2
      <3>4. c1 + p1 + b1 <= m1
        <4>1. c1 <= c /\ p1 <= p /\ b1 = b /\ m1 = m
          BY <2>3, <2>5, <3>2, <3>3, <1>g, <1>h, <1>i, <1>j, <1>k, <1>l, <1>o, <1>p
        <4> QED
          BY <4>1, <1>q, <1>r
      <3> QED
        BY <1>d, <3>1, <3>4
    <2>6. CASE cuts' = cuts + 1 /\ ConnectionBreaks /\ Broken' = {}
      <3>1. Halves' = 0
        BY <2>6, FS_EmptySet DEF Halves
      <3>2. off' = 0
        BY <2>6 DEF ConnectionBreaks
      <3>3. NotBehind'
        <4>1. Taken \in Nat /\ (Taken = 0 <=> In("WAITING_FOR_STX"))
          BY TakenType, Sizes
        <4>2. Taken = 0 \/ Taken > 0
          BY <4>1
        <4> QED
          BY <2>1, <2>4, <3>2, <4>1, <4>2 DEF NotBehind
      <3>4. c1 + p1 + b1 <= m1
        <4>1. c1 <= c /\ b1 = 0 /\ m1 = m + 1
          BY <2>3, <2>6, <3>1, <1>g, <1>h, <1>i, <1>j, <1>k, <1>l, <1>o, <1>p
        <4> QED
          BY <4>1, <1>q, <1>r
      <3> QED
        BY <1>d, <3>3, <3>4
    <2>7. CASE cuts' = cuts + 1 /\ ~ConnectionBreaks /\ \E n : Broken' = Broken \cup {n}
      <3>1. NotBehind' /\ Pending' = Pending
        BY <1>c, <1>e, <2>1, <2>4, <2>7 DEF NotBehind
      <3>2. Halves' <= Halves + 1
        BY <1>a, <2>7, Counts DEF Halves
      <3>3. c1 + p1 + b1 <= m1
        <4>1. c1 <= c /\ p1 = p /\ b1 <= b + 1 /\ m1 = m + 1
          BY <2>3, <2>7, <3>1, <3>2, <1>g, <1>h, <1>i, <1>j, <1>k, <1>l, <1>o, <1>p
        <4> QED
          BY <4>1, <1>q, <1>r
      <3> QED
        BY <1>d, <3>1, <3>3
    <2> QED
      BY <1>1, <2>5, <2>6, <2>7, QueuesOtherwise
  <1>2. CASE l_ParsePacket
    <2> DEFINE n == Arriving.n
    <2>1. ReadByte /\ cuts' = cuts
      BY <1>2, ParserTypeNext, ReadFacts
    <2>2. n \in 1..Len(sent) /\ n # 0
      <3>1. n \in 1..Len(sent)
        BY <2>1, ReadFacts
      <3> QED
        BY <3>1
    <2>3. Handled \subseteq Handled'
      BY <1>2, HandledGrows
    <2>4. /\ ~EndOfPacket => Passed' = Passed /\ Broken' = Broken
          /\ EndOfPacket /\ Arriving.upto = PACKET_SIZE =>
                Passed' = Passed \cup {n} /\ Broken' = Broken
          /\ EndOfPacket /\ Arriving.upto < PACKET_SIZE =>
                Passed' = Passed /\ Broken' = Broken \ {n} /\ n \in Broken
      BY <2>1, PassedByReading
    <2>5. Arriving.upto = PACKET_SIZE \/ Arriving.upto < PACKET_SIZE
      BY <2>1, ReadFacts, Sizes
    <2> HIDE DEF n
    <2>6. Passed' = Passed => Swallowed' <= Swallowed
      <3>1. Passed' = Passed => (Passed' \ Handled') \subseteq (Passed \ Handled)
        BY <2>3
      <3> QED
        BY <1>a, <3>1, Counts DEF Swallowed
    <2>7. Broken' = Broken => Halves' = Halves
      BY DEF Halves
    <2>8. n \in Broken /\ Broken' = Broken \ {n} => Halves' = Halves - 1
      BY <1>a, Counts DEF Halves
    <2>9. CASE InPlace /\ ~EndOfPacket
      <3>1. InPlace' /\ NotBehind'
        BY <1>2, <2>9, InPlaceByReading DEF NotBehind
      <3>2. Swallowed' <= Swallowed /\ Halves' = Halves /\ Pending' = 0 /\ Pending = 0
        BY <1>e, <2>4, <2>6, <2>7, <2>9, <3>1
      <3>3. Pending' <= Pending
        BY <1>n, <3>2
      <3>4. c1 + p1 + b1 <= m1
        <4>1. c1 <= c /\ p1 <= p /\ b1 = b /\ m1 = m
          BY <2>1, <3>2, <3>3, <1>g, <1>h, <1>i, <1>j, <1>k, <1>l, <1>o, <1>p
        <4> QED
          BY <4>1, <1>q, <1>r
      <3> QED
        BY <1>d, <3>1, <3>4
    <2>10. CASE InPlace /\ EndOfPacket /\ Arriving.upto = PACKET_SIZE
      <3>1. /\ InPlace' /\ NotBehind'
            /\ handled' = Append(handled, [data |-> SubSeq(Arriving.bytes, 4, CHECKSUM_AT), n |-> n])
        <4>1. ~(Arriving.upto < PACKET_SIZE)
          BY <2>10, Sizes
        <4> QED
          BY <1>2, <2>10, <4>1, InPlaceByReading DEF NotBehind, n
      <3>2. n \in Handled'
        <4>1. handled \in Seq(Request) /\ Len(handled) \in Nat
          BY DEF ParserType
        <4>2. Len(handled') = Len(handled) + 1 /\ handled'[Len(handled) + 1].n = n
          BY <3>1, <4>1, AppendProperties
        <4>3. Len(handled) + 1 \in 1..Len(handled')
          BY <4>1, <4>2
        <4> QED
          BY <2>2, <4>2, <4>3 DEF Handled, n
      <3>3. (Passed' \ Handled') \subseteq (Passed \ Handled)
        BY <2>3, <2>4, <2>10, <3>2
      <3>4. Swallowed' <= Swallowed
        BY <1>a, <3>3, Counts DEF Swallowed
      <3>5. Halves' = Halves /\ Pending' = 0 /\ Pending = 0
        BY <1>e, <2>4, <2>7, <2>10, <3>1
      <3>6. Pending' <= Pending
        BY <1>n, <3>5
      <3>7. c1 + p1 + b1 <= m1
        <4>1. c1 <= c /\ p1 <= p /\ b1 = b /\ m1 = m
          BY <2>1, <3>4, <3>5, <3>6, <1>g, <1>h, <1>i, <1>j, <1>k, <1>l, <1>o, <1>p
        <4> QED
          BY <4>1, <1>q, <1>r
      <3> QED
        BY <1>d, <3>1, <3>7
    <2>11. CASE InPlace /\ EndOfPacket /\ Arriving.upto < PACKET_SIZE
      <3>1. NotBehind'
        <4>1. Arriving.upto # PACKET_SIZE
          BY <2>11, Sizes
        <4> QED
          BY <1>2, <2>11, <4>1, InPlaceByReading DEF NotBehind
      <3>2. Swallowed' <= Swallowed /\ Halves' = Halves - 1 /\ Pending = 0
        BY <1>e, <2>4, <2>6, <2>8, <2>11
      <3>3. c1 + p1 + b1 <= m1
        <4>1. c1 <= c /\ b1 = b - 1 /\ m1 = m
          BY <2>1, <3>2, <1>g, <1>h, <1>i, <1>j, <1>k, <1>l, <1>o, <1>p
        <4> QED
          BY <4>1, <1>q, <1>r
      <3> QED
        BY <1>d, <3>1, <3>3
    <2>12. CASE ~InPlace
      <3>1. NotBehind' /\ (EndOfPacket /\ Arriving.upto = PACKET_SIZE => InPlace')
        BY <1>2, <1>c, <2>12, OutOfPlaceByReading
      <3>2. Pending = 1
        BY <1>e, <2>12
      <3>3. CASE ~EndOfPacket
        <4>1. Swallowed' <= Swallowed /\ Halves' = Halves
          BY <2>4, <2>6, <2>7, <3>3
        <4>2. Pending' <= Pending
          BY <1>n, <3>2
        <4>3. c1 + p1 + b1 <= m1
          <5>1. c1 <= c /\ p1 <= p /\ b1 = b /\ m1 = m
            BY <2>1, <4>1, <4>2, <1>g, <1>h, <1>i, <1>j, <1>k, <1>l, <1>o, <1>p
          <5> QED
            BY <5>1, <1>q, <1>r
        <4> QED
          BY <1>d, <3>1, <4>3
      <3>4. CASE EndOfPacket /\ Arriving.upto = PACKET_SIZE
        <4>1. (Passed' \ Handled') \subseteq (Passed \ Handled) \cup {n}
          BY <2>3, <2>4, <3>4
        <4>2. Swallowed' <= Swallowed + 1
          BY <1>a, <4>1, Counts DEF Swallowed
        <4>3. Halves' = Halves /\ Pending' = 0
          BY <1>e, <2>4, <2>7, <3>1, <3>4
        <4>4. c1 + p1 + b1 <= m1
          <5>1. c1 <= c + 1 /\ p = 1 /\ p1 = 0 /\ b1 = b /\ m1 = m
            BY <2>1, <3>2, <4>2, <4>3, <1>g, <1>h, <1>i, <1>j, <1>k, <1>l, <1>o, <1>p
          <5> QED
            BY <5>1, <1>q, <1>r
        <4> QED
          BY <1>d, <3>1, <4>4
      <3>5. CASE EndOfPacket /\ Arriving.upto < PACKET_SIZE
        <4>1. Swallowed' <= Swallowed /\ Halves' = Halves - 1
          BY <2>4, <2>6, <2>8, <3>5
        <4>2. c1 + p1 + b1 <= m1
          <5>1. c1 <= c /\ b1 = b - 1 /\ m1 = m
            BY <2>1, <4>1, <1>g, <1>h, <1>i, <1>j, <1>k, <1>l, <1>o, <1>p
          <5> QED
            BY <5>1, <1>q, <1>r
        <4> QED
          BY <1>d, <3>1, <4>2
      <3> QED
        BY <2>5, <3>3, <3>4, <3>5
    <2> QED
      BY <2>5, <2>9, <2>10, <2>11, <2>12
  <1> QED
    BY <1>1, <1>2

\* Nobody tells the parser of a new client or of a packet that stopped half way,
\* and still every cut costs at most one of the packets that came through, as long
\* as no packet holds the start byte but in its first place.
THEOREM EveryCutCostsOne == Spec => []CutCostsOnePacket
  <1>1. Init => Sound /\ SpoiledOK /\ Credit
    <2> SUFFICES ASSUME Init PROVE Credit
      BY SoundInit, FramingInit
    <2>1. cuts = 0 /\ sent = <<>> /\ wire = <<>>
      BY DEF Init
    <2>2. InPlace /\ Broken = {}
      BY <2>1, FramingInit DEF Framing
    <2>3. Passed \ Handled = {}
      BY <2>1 DEF Passed
    <2>4. Cardinality({}) = 0
      BY FS_EmptySet
    <2>5. Swallowed = 0 /\ Halves = 0 /\ Pending = 0
      BY <2>2, <2>3, <2>4 DEF Swallowed, Halves, Pending
    <2>6. Account
      BY <2>1, <2>2, <2>5 DEF Account, NotBehind
    <2> QED
      BY <2>6 DEF Credit
  <1>2. Sound /\ SpoiledOK /\ Credit /\ [Next]_packetVars => Sound' /\ SpoiledOK' /\ Credit'
    <2> SUFFICES ASSUME Sound, SpoiledOK, Credit, [Next]_packetVars
                 PROVE  Sound' /\ SpoiledOK' /\ Credit'
      OBVIOUS
    <2>1. Sound' /\ SpoiledOK'
      BY SoundNext, SpoiledNext
    <2>2. AllQuiet' => AllQuiet
      <3>1. \A n \in 1..Len(sent) : n \in 1..Len(sent') /\ sent'[n] = sent[n]
        <4>1. l_ParsePacket => sent' = sent
          BY ParserTypeNext, ReadFacts DEF Sound, senderVars
        <4> QED
          BY <4>1, QueuesOtherwise
      <3> QED
        BY <3>1 DEF AllQuiet, Quiet
    <2>3. Credit'
      BY <2>2, CreditNext DEF Credit
    <2> QED
      BY <2>1, <2>3
  <1>3. Sound /\ SpoiledOK /\ Credit => CutCostsOnePacket
    <2> SUFFICES ASSUME Sound, Credit, AllQuiet PROVE Cardinality(Passed \ Handled) <= cuts
      BY DEF CutCostsOnePacket, AllQuiet
    <2>1. Swallowed \in Nat /\ Halves \in Nat /\ Pending \in 0..1 /\ cuts \in Nat
      BY Countable DEF Counted
    <2>2. Swallowed + Pending + Halves <= cuts
      BY DEF Credit, Account
    <2>3. Swallowed <= cuts
      BY <2>1, <2>2
    <2> QED
      BY <2>3 DEF Swallowed
  <1> QED
    BY <1>1, <1>2, <1>3, PTL DEF Spec
==============================================================================

--------------------------- MODULE Listener_proofs ---------------------------
(* What the listener of the GUI guarantees for every packet size, start byte, *)
(* set of answers, and number of answers and sessions, proved from the        *)
(* definitions of Listener.                                                   *)
EXTENDS Listener, WellFoundedInduction, SequenceTheorems, TLAPS

-----------------------------------------------------------------------------
(* Induction over the numbers stated for sets, and recursion over a number *)

\* A set of numbers has a least one.
LEMMA LeastNumber ==
    ASSUME NEW T, T \subseteq Nat, T # {}
    PROVE  \E x \in T : \A y \in T : x <= y
  <1> DEFINE R == OpToRel(<, Nat)
  <1>1. IsWellFoundedOn(R, Nat)
    BY NatLessThanWellFounded
  <1>2. \A x, y \in Nat : x < y => <<x, y>> \in R
    BY DEF OpToRel
  <1> HIDE DEF R
  <1>3. PICK x \in T : \A y \in T : ~(<<y, x>> \in R)
    BY <1>1, WFMin
  <1>4. \A y \in T : y \in Nat /\ x \in Nat /\ ~(y < x)
    BY <1>2, <1>3
  <1>5. \A y \in T : x <= y
    BY <1>4
  <1> QED
    BY <1>5

\* A set of numbers that holds 0 and, with a number, the next one, holds all.
LEMMA SetInduction ==
    ASSUME NEW S \in SUBSET Nat, 0 \in S, \A n \in S : n + 1 \in S
    PROVE  S = Nat
  <1> SUFFICES ASSUME Nat \ S # {} PROVE FALSE
    OBVIOUS
  <1>1. PICK x \in Nat \ S : \A y \in Nat \ S : x <= y
    BY LeastNumber
  <1>2. x # 0 /\ x - 1 \in Nat /\ ~(x <= x - 1)
    BY <1>1
  <1>3. x - 1 \in S /\ (x - 1) + 1 = x
    BY <1>1, <1>2
  <1> QED
    BY <1>1, <1>3

\* The first steps of the recursion that starts at v and goes on with G.
Prefix(G, v, n, h) ==
    /\ h[0] = v
    /\ \A i \in 0..n : i > 0 => h[i] = G[<<i - 1, h[i - 1]>>]

\* A recursion over a number has runs of every length.
LEMMA PrefixExists ==
    ASSUME NEW V, NEW v \in V, NEW G \in [Nat \X V -> V], NEW n \in Nat
    PROVE  \E h \in [0..n -> V] : Prefix(G, v, n, h)
  <1> DEFINE S == {i \in Nat : \E h \in [0..i -> V] : Prefix(G, v, i, h)}
  <1>1. 0 \in S
    <2>1. [i \in 0..0 |-> v] \in [0..0 -> V]
      OBVIOUS
    <2>2. Prefix(G, v, 0, [i \in 0..0 |-> v])
      BY DEF Prefix
    <2> QED
      BY <2>1, <2>2
  <1>2. ASSUME NEW i \in S PROVE i + 1 \in S
    <2>1. i \in Nat /\ i + 1 \in Nat /\ i \in 0..i
      BY <1>2
    <2>2. PICK h \in [0..i -> V] : Prefix(G, v, i, h)
      BY <1>2
    <2>3. h[i] \in V
      BY <2>1, <2>2
    <2> DEFINE w == G[<<i, h[i]>>]
               g == [j \in 0..(i + 1) |-> IF j <= i THEN h[j] ELSE w]
    <2>4. w \in V
      BY <2>1, <2>3
    <2>5. \A j \in 0..(i + 1) : j <= i => j \in 0..i
      BY <2>1
    <2>6. \A j \in 0..(i + 1) : j <= i => h[j] \in V
      BY <2>2, <2>5
    <2>7. g \in [0..(i + 1) -> V]
      BY <2>4, <2>6
    <2>8. ASSUME NEW j \in 0..(i + 1), j > 0 PROVE g[j] = G[<<j - 1, g[j - 1]>>]
      <3>1. j - 1 \in 0..(i + 1) /\ j - 1 <= i /\ (j - 1) \in 0..i
        BY <2>1, <2>8
      <3>2. g[j - 1] = h[j - 1]
        BY <3>1
      <3>3. CASE j <= i
        <4>1. j \in 0..i /\ j > 0
          BY <2>8, <2>1, <3>3
        <4>2. h[j] = G[<<j - 1, h[j - 1]>>]
          BY <4>1, <2>2 DEF Prefix
        <4>3. g[j] = h[j]
          BY <3>3, <2>8
        <4> QED
          BY <3>2, <4>2, <4>3
      <3>4. CASE ~(j <= i)
        <4>1. j - 1 = i
          BY <2>1, <2>8, <3>4
        <4>2. g[j] = w
          BY <3>4, <2>8
        <4> QED
          BY <3>2, <4>1, <4>2
      <3> QED
        BY <3>3, <3>4
    <2>9. g[0] = v
      <3>1. 0 \in 0..(i + 1) /\ 0 <= i
        BY <2>1
      <3>2. g[0] = h[0]
        BY <3>1
      <3> QED
        BY <3>2, <2>2 DEF Prefix
    <2> HIDE DEF g
    <2>10. Prefix(G, v, i + 1, g)
      BY <2>8, <2>9 DEF Prefix
    <2> QED
      BY <2>1, <2>7, <2>10
  <1> HIDE DEF S
  <1>3. S \in SUBSET Nat
    BY DEF S
  <1>4. n \in S
    BY <1>1, <1>2, <1>3, SetInduction
  <1> QED
    BY <1>4 DEF S

-----------------------------------------------------------------------------
(* Bytes, packets and their sums *)

SUM_AT == MAX_PAYLOAD_SiZE + 3

\* The sizes of a packet.
LEMMA Sizes ==
    /\ BYTE \in Nat /\ BYTE >= 2
    /\ MAX_PAYLOAD_SiZE \in Nat /\ MAX_PAYLOAD_SiZE >= 1
    /\ PACKET_SIZE \in Nat /\ PACKET_SIZE = MAX_PAYLOAD_SiZE + 4
    /\ SUM_AT \in Nat /\ SUM_AT = MAX_PAYLOAD_SiZE + 3 /\ PACKET_SIZE = SUM_AT + 1
    /\ 0 \in Bytes /\ WRAPPER_STX \in Bytes
    /\ ALL_COMMANDS \in Nat /\ ALL_COMMANDS >= 1 /\ ALL_COMMANDS <= BYTE
  BY ListenerAssumption DEF PACKET_SIZE, SUM_AT, Bytes

LEMMA AddType ==
    ASSUME NEW a \in Bytes, NEW b \in Bytes
    PROVE  Add(a, b) \in Bytes /\ Add(0, b) = b
  <1>1. BYTE \in Nat /\ BYTE > 0 /\ a \in Nat /\ b \in Nat /\ b < BYTE
    BY Sizes DEF Bytes
  <1>2. a + b \in Nat /\ 0 + b = b
    BY <1>1
  <1>3. \A z \in Nat : z % BYTE \in 0..(BYTE - 1)
    BY <1>1
  <1>4. b % BYTE = b
    BY <1>1
  <1> QED
    BY <1>2, <1>3, <1>4 DEF Add, Bytes

Packet == [1..PACKET_SIZE -> Bytes]

\* The sums of the first bytes of a packet b.
SumsOf(s, b) ==
    /\ s[0] = 0
    /\ \A n \in 1..SUM_AT : s[n] = Add(s[n - 1], b[n])

\* What the listener may rely on in a packet that carries a payload.
Carries(b, payload) ==
    /\ b \in Packet
    /\ b[1] = WRAPPER_STX
    /\ \A i \in 1..MAX_PAYLOAD_SiZE : b[i + 3] = payload[i]
    /\ \E s \in [0..SUM_AT -> Bytes] : SumsOf(s, b) /\ b[PACKET_SIZE] = s[SUM_AT]

LEMMA IntervalEnds ==
    ASSUME NEW m \in Nat, NEW n \in Nat, 1..m = 1..n
    PROVE  m = n
  <1>1. m > 0 => m \in 1..n
    OBVIOUS
  <1>2. n > 0 => n \in 1..m
    OBVIOUS
  <1> QED
    BY <1>1, <1>2

LEMMA WrapperFacts ==
    ASSUME NEW rng \in Bytes, NEW len \in Bytes, NEW payload \in Payload
    PROVE  /\ Wrapper(rng, len, payload) \in Seq(Bytes)
           /\ Len(Wrapper(rng, len, payload)) = PACKET_SIZE
           /\ Carries(Wrapper(rng, len, payload), payload)
  <1> DEFINE head == <<WRAPPER_STX, rng, len>>
             body == head \o payload
             sum[n \in 0..SUM_AT] == IF n = 0 THEN 0 ELSE Add(sum[n - 1], body[n])
             b == Append(body, sum[SUM_AT])
             G == [x \in Nat \X Bytes |->
                      IF x[1] + 1 <= SUM_AT THEN Add(x[2], body[x[1] + 1]) ELSE 0]
  <1>1. Wrapper(rng, len, payload) = b
    BY DEF Wrapper, SUM_AT
  <1>2. head \in Seq(Bytes) /\ Len(head) = 3 /\ head[1] = WRAPPER_STX
    BY Sizes
  <1>3. payload \in Seq(Bytes) /\ Len(payload) = MAX_PAYLOAD_SiZE
    <2>1. payload \in [1..MAX_PAYLOAD_SiZE -> Bytes]
      BY DEF Payload
    <2>2. payload \in Seq(Bytes)
      BY <2>1, Sizes, SeqDef
    <2>3. DOMAIN payload = 1..Len(payload) /\ Len(payload) \in Nat
      BY <2>2, LenProperties
    <2>4. DOMAIN payload = 1..MAX_PAYLOAD_SiZE
      BY <2>1
    <2> QED
      BY <2>2, <2>3, <2>4, Sizes, IntervalEnds
  <1> HIDE DEF head
  <1>4. /\ body \in Seq(Bytes) /\ Len(body) = Len(head) + Len(payload)
        /\ \A i \in 1..Len(head) + Len(payload) :
              body[i] = IF i <= Len(head) THEN head[i] ELSE payload[i - Len(head)]
    BY <1>2, <1>3, ConcatProperties
  <1>5. Len(head) + Len(payload) = SUM_AT /\ 1 \in 1..SUM_AT /\ 1 <= 3
    BY <1>2, <1>3, Sizes
  <1>6. body[1] = WRAPPER_STX
    BY <1>2, <1>4, <1>5
  <1>7. ASSUME NEW i \in 1..MAX_PAYLOAD_SiZE PROVE body[i + 3] = payload[i]
    <2>1. i + 3 \in 1..SUM_AT /\ ~(i + 3 <= 3) /\ (i + 3) - 3 = i
      BY Sizes
    <2> QED
      BY <1>2, <1>4, <1>5, <2>1
  <1>8. \A i \in 1..SUM_AT : body[i] \in Bytes
    BY <1>4, <1>5, ElementOfSeq
  <1> HIDE DEF body
  <1>9. G \in [Nat \X Bytes -> Bytes]
    <2>1. ASSUME NEW x \in Nat \X Bytes, x[1] + 1 <= SUM_AT
          PROVE  Add(x[2], body[x[1] + 1]) \in Bytes
      <3>1. x[1] + 1 \in 1..SUM_AT
        BY <2>1, Sizes
      <3>2. x[2] \in Bytes
        BY <2>1
      <3> QED
        BY <3>1, <3>2, <1>8, AddType
    <2> QED
      BY <2>1, Sizes
  <1>10. \A i \in Nat, v \in Bytes : i + 1 <= SUM_AT => G[<<i, v>>] = Add(v, body[i + 1])
    OBVIOUS
  <1> HIDE DEF G
  <1>11. PICK h \in [0..SUM_AT -> Bytes] : Prefix(G, 0, SUM_AT, h)
    BY <1>9, Sizes, PrefixExists
  <1>12. ASSUME NEW n \in 1..SUM_AT PROVE h[n] = Add(h[n - 1], body[n])
    <2>1. n \in 0..SUM_AT /\ n > 0 /\ n - 1 \in 0..SUM_AT /\ n - 1 \in Nat
          /\ (n - 1) + 1 = n /\ n <= SUM_AT
      BY Sizes
    <2>2. h[n] = G[<<n - 1, h[n - 1]>>]
      BY <1>11, <2>1 DEF Prefix
    <2>3. h[n - 1] \in Bytes
      BY <2>1
    <2> QED
      BY <1>10, <2>1, <2>2, <2>3
  <1>13. h[0] = 0
    BY <1>11 DEF Prefix
  <1>14. h = [n \in 0..SUM_AT |-> IF n = 0 THEN 0 ELSE Add(h[n - 1], body[n])]
    <2>1. ASSUME NEW n \in 0..SUM_AT, n # 0
          PROVE  h[n] = Add(h[n - 1], body[n])
      <3>1. n \in 1..SUM_AT
        BY <2>1
      <3> QED
        BY <3>1, <1>12
    <2> QED
      BY <2>1, <1>13
  <1>15. sum = [n \in 0..SUM_AT |-> IF n = 0 THEN 0 ELSE Add(sum[n - 1], body[n])]
    BY <1>14, Zenon
  <1> HIDE DEF sum
  <1>16. \A n \in 0..SUM_AT : sum[n] = IF n = 0 THEN 0 ELSE Add(sum[n - 1], body[n])
    BY <1>15, Zenon
  <1>17. sum[SUM_AT] = h[SUM_AT]
    <2> DEFINE S == {n \in Nat : n <= SUM_AT => sum[n] = h[n]}
    <2>1. 0 \in S
      BY <1>13, <1>16, Sizes
    <2>2. ASSUME NEW n \in S PROVE n + 1 \in S
      <3>1. n \in Nat /\ n + 1 \in Nat /\ (n + 1) - 1 = n
        BY <2>2
      <3>2. ASSUME n + 1 <= SUM_AT PROVE sum[n + 1] = h[n + 1]
        <4>1. n + 1 \in 0..SUM_AT /\ n + 1 \in 1..SUM_AT /\ n + 1 # 0 /\ n <= SUM_AT
          BY <3>1, <3>2, Sizes
        <4>2. sum[n] = h[n]
          BY <2>2, <4>1
        <4>3. sum[n + 1] = Add(sum[(n + 1) - 1], body[n + 1])
          BY <1>16, <4>1
        <4>4. h[n + 1] = Add(h[(n + 1) - 1], body[n + 1])
          BY <1>12, <4>1
        <4> QED
          BY <3>1, <4>2, <4>3, <4>4
      <3> QED
        BY <3>1, <3>2
    <2> HIDE DEF S
    <2>3. S \in SUBSET Nat
      BY DEF S
    <2>4. S = Nat
      BY <2>1, <2>2, <2>3, SetInduction
    <2>5. SUM_AT \in S /\ SUM_AT <= SUM_AT
      BY <2>4, Sizes
    <2> QED
      BY <2>5 DEF S
  <1>18. h[SUM_AT] \in Bytes
    BY Sizes
  <1>19. Append(body, h[SUM_AT]) \in Seq(Bytes)
         /\ Len(Append(body, h[SUM_AT])) = PACKET_SIZE
         /\ Append(body, h[SUM_AT])[PACKET_SIZE] = h[SUM_AT]
         /\ \A i \in 1..SUM_AT : Append(body, h[SUM_AT])[i] = body[i]
    <2>1. Len(body) = SUM_AT /\ body \in Seq(Bytes)
      BY <1>4, <1>5
    <2>2. Append(body, h[SUM_AT]) \in Seq(Bytes)
          /\ Len(Append(body, h[SUM_AT])) = Len(body) + 1
          /\ \A i \in 1..(Len(body) + 1) :
                Append(body, h[SUM_AT])[i] = IF i = Len(body) + 1 THEN h[SUM_AT] ELSE body[i]
      BY <1>18, <2>1
    <2>3. SUM_AT + 1 = PACKET_SIZE /\ PACKET_SIZE \in 1..PACKET_SIZE
          /\ \A i \in 1..SUM_AT : i \in 1..PACKET_SIZE /\ i # PACKET_SIZE
      BY Sizes
    <2> QED
      BY <2>1, <2>2, <2>3
  <1>20. b = Append(body, h[SUM_AT])
    BY <1>17
  <1> HIDE DEF b
  <1>21. b \in Packet
    BY <1>19, <1>20, LenProperties DEF Packet
  <1>22. SumsOf(h, b)
    BY <1>12, <1>13, <1>19, <1>20 DEF SumsOf
  <1>23. \A i \in 1..MAX_PAYLOAD_SiZE : i + 3 \in 1..SUM_AT
    BY Sizes
  <1>24. Carries(b, payload)
    BY <1>5, <1>6, <1>7, <1>19, <1>20, <1>21, <1>22, <1>23 DEF Carries
  <1> QED
    BY <1>1, <1>19, <1>20, <1>24

-----------------------------------------------------------------------------
(* Type correctness *)

Parsers == [state : States \cup {"other"}, k : 0..MAX_PAYLOAD_SiZE, checksum : Bytes,
            payload : Payload]
Slots == [0..(ALL_COMMANDS - 1) -> [first : BOOLEAN, second : Payload]]

\* The parser, the slots and the flag, as they are inside a chunk.
Reading == [parser : Parsers, slots : Slots, overrun : BOOLEAN]

LEMMA GotoType ==
    ASSUME NEW s \in Reading, NEW state \in States
    PROVE  /\ Goto(s, state) \in Reading
           /\ Goto(s, state).slots = s.slots /\ Goto(s, state).overrun = s.overrun
           /\ Goto(s, state).parser = [s.parser EXCEPT !.state = state]
           /\ Goto(s, state).parser.state = state
           /\ Goto(s, state).parser.k = s.parser.k
           /\ Goto(s, state).parser.checksum = s.parser.checksum
           /\ Goto(s, state).parser.payload = s.parser.payload
  <1>1. s.parser \in Parsers
    BY DEF Reading
  <1>2. /\ [s.parser EXCEPT !.state = state] \in Parsers
        /\ [s.parser EXCEPT !.state = state].state = state
        /\ [s.parser EXCEPT !.state = state].k = s.parser.k
        /\ [s.parser EXCEPT !.state = state].checksum = s.parser.checksum
        /\ [s.parser EXCEPT !.state = state].payload = s.parser.payload
    BY <1>1 DEF Parsers
  <1>3. Goto(s, state) = [s EXCEPT !.parser = [s.parser EXCEPT !.state = state]]
    BY DEF Goto
  <1>4. /\ Goto(s, state) \in Reading
        /\ Goto(s, state).slots = s.slots /\ Goto(s, state).overrun = s.overrun
        /\ Goto(s, state).parser = [s.parser EXCEPT !.state = state]
    BY <1>2, <1>3 DEF Reading
  <1> QED
    BY <1>2, <1>4

LEMMA SumType ==
    ASSUME NEW s \in Reading, NEW b \in Bytes
    PROVE  /\ Sum(s, b) \in Reading
           /\ Sum(s, b).slots = s.slots /\ Sum(s, b).overrun = s.overrun
           /\ Sum(s, b).parser.state = s.parser.state
           /\ Sum(s, b).parser.k = s.parser.k
           /\ Sum(s, b).parser.checksum = Add(s.parser.checksum, b)
           /\ Sum(s, b).parser.payload = s.parser.payload
  <1> DEFINE p == [s.parser EXCEPT !.checksum = Add(s.parser.checksum, b)]
  <1>1. s.parser \in Parsers
    BY DEF Reading
  <1>2. s.parser.checksum \in Bytes
    BY <1>1 DEF Parsers
  <1>3. Add(s.parser.checksum, b) \in Bytes
    BY <1>2, AddType
  <1>4. /\ p \in Parsers /\ p.state = s.parser.state /\ p.k = s.parser.k
        /\ p.checksum = Add(s.parser.checksum, b) /\ p.payload = s.parser.payload
    BY <1>1, <1>3 DEF Parsers
  <1>5. Sum(s, b) = [s EXCEPT !.parser = p]
    BY DEF Sum
  <1> HIDE DEF p
  <1>6. Sum(s, b) \in Reading /\ Sum(s, b).slots = s.slots /\ Sum(s, b).overrun = s.overrun
        /\ Sum(s, b).parser = p
    BY <1>4, <1>5 DEF Reading
  <1> QED
    BY <1>4, <1>6

\* A byte of payload goes where the index says, if it is inside payload.
LEMMA PayloadByte ==
    ASSUME NEW s \in Reading, NEW b \in Bytes, s.parser.k < MAX_PAYLOAD_SiZE
    PROVE  LET t == ReadingPayload(s, b) IN
           /\ t \in Reading
           /\ t.slots = s.slots /\ t.overrun = s.overrun
           /\ t.parser.k = s.parser.k + 1
           /\ t.parser.checksum = Add(s.parser.checksum, b)
           /\ t.parser.payload = [s.parser.payload EXCEPT ![s.parser.k + 1] = b]
           /\ t.parser.state = IF s.parser.k + 1 >= MAX_PAYLOAD_SiZE
                               THEN "WAITING_FOR_CHECKSUM" ELSE "READING_PAYLOAD"
  <1> DEFINE c == Sum(s, b)
             payload == [s.parser.payload EXCEPT ![s.parser.k + 1] = b]
             p == [c.parser EXCEPT !.payload = payload, !.k = s.parser.k + 1]
             d == [c EXCEPT !.parser = p]
             state == IF s.parser.k + 1 >= MAX_PAYLOAD_SiZE
                      THEN "WAITING_FOR_CHECKSUM" ELSE "READING_PAYLOAD"
  <1>1. /\ c \in Reading
        /\ c.slots = s.slots /\ c.overrun = s.overrun
        /\ c.parser.k = s.parser.k
        /\ c.parser.checksum = Add(s.parser.checksum, b)
        /\ c.parser.payload = s.parser.payload
    BY SumType
  <1>2. s.parser \in Parsers /\ c.parser \in Parsers
    BY <1>1 DEF Reading
  <1>3. s.parser.k \in 0..MAX_PAYLOAD_SiZE /\ s.parser.payload \in [1..MAX_PAYLOAD_SiZE -> Bytes]
    BY <1>2 DEF Parsers, Payload
  <1>4. s.parser.k + 1 \in 1..MAX_PAYLOAD_SiZE /\ s.parser.k + 1 \in 0..MAX_PAYLOAD_SiZE
    BY <1>3, Sizes
  <1>5. payload \in Payload
    BY <1>3, <1>4 DEF Payload
  <1>6. ReadingPayload(s, b) = Goto(d, state)
    <2>1. ~(s.parser.k >= MAX_PAYLOAD_SiZE)
      BY <1>3, Sizes
    <2>2. [c EXCEPT !.parser.payload[s.parser.k + 1] = b, !.parser.k = @ + 1] = d
      BY <1>1, <1>2 DEF Reading, Parsers
    <2> HIDE DEF d
    <2> QED
      BY <2>1, <2>2 DEF ReadingPayload
  <1> HIDE DEF c, payload
  <1>7. /\ p \in Parsers /\ p.k = s.parser.k + 1 /\ p.payload = payload
        /\ p.checksum = Add(s.parser.checksum, b)
    BY <1>1, <1>2, <1>4, <1>5 DEF Parsers
  <1> HIDE DEF p
  <1>8. d \in Reading /\ d.parser = p /\ d.slots = s.slots /\ d.overrun = s.overrun
    BY <1>1, <1>7 DEF Reading
  <1> HIDE DEF d
  <1>9. state \in States
    BY DEF States
  <1>10. /\ Goto(d, state) \in Reading
         /\ Goto(d, state).slots = d.slots /\ Goto(d, state).overrun = d.overrun
         /\ Goto(d, state).parser.state = state
         /\ Goto(d, state).parser.k = d.parser.k
         /\ Goto(d, state).parser.checksum = d.parser.checksum
         /\ Goto(d, state).parser.payload = d.parser.payload
    BY <1>8, <1>9, GotoType
  <1> HIDE DEF state
  <1>11. LET t == Goto(d, state) IN
           /\ t \in Reading
           /\ t.slots = s.slots /\ t.overrun = s.overrun
           /\ t.parser.k = s.parser.k + 1
           /\ t.parser.checksum = Add(s.parser.checksum, b)
           /\ t.parser.payload = payload
           /\ t.parser.state = state
    BY <1>7, <1>8, <1>10
  <1> QED
    BY <1>6, <1>11 DEF payload, state

\* A packet that passes goes into the slot of its command, if there is one.
LEMMA ChecksumByte ==
    ASSUME NEW s \in Reading, NEW b \in Bytes
    PROVE  LET t == WaitingForChecksum(s, b)
               cmd == s.parser.payload[1] IN
           /\ t \in Reading
           /\ t.parser.state = "WAITING_FOR_STX"
           /\ b = s.parser.checksum /\ cmd < ALL_COMMANDS =>
                 /\ t.overrun = s.overrun
                 /\ t.slots = [s.slots EXCEPT ![cmd] = [first |-> TRUE, second |-> s.parser.payload]]
  <1> DEFINE cmd == s.parser.payload[1]
             answer == [first |-> TRUE, second |-> s.parser.payload]
             kept == [s EXCEPT !.slots[cmd] = answer]
             lost == [s EXCEPT !.overrun = TRUE]
             stored == IF b # s.parser.checksum THEN s
                       ELSE IF cmd >= ALL_COMMANDS THEN lost
                       ELSE kept
  <1>1. s.parser \in Parsers /\ s.slots \in Slots
    BY DEF Reading
  <1>2. s.parser.payload \in Payload
    BY <1>1 DEF Parsers
  <1>3. cmd \in Nat /\ answer \in [first : BOOLEAN, second : Payload]
    <2>1. 1 \in 1..MAX_PAYLOAD_SiZE
      BY Sizes
    <2>2. cmd \in Bytes
      BY <1>2, <2>1 DEF Payload
    <2> QED
      BY <1>2, <2>2 DEF Bytes
  <1>4. lost \in Reading
    BY DEF Reading
  <1>5. cmd < ALL_COMMANDS =>
           kept \in Reading /\ kept.overrun = s.overrun
           /\ kept.slots = [s.slots EXCEPT ![cmd] = answer]
    <2> SUFFICES ASSUME cmd < ALL_COMMANDS
                 PROVE  kept \in Reading /\ kept.overrun = s.overrun
                        /\ kept.slots = [s.slots EXCEPT ![cmd] = answer]
      OBVIOUS
    <2> HIDE DEF cmd, answer
    <2>1. cmd \in 0..(ALL_COMMANDS - 1)
      BY <1>3, Sizes
    <2>2. [s.slots EXCEPT ![cmd] = answer] \in Slots
      BY <1>1, <1>3, <2>1 DEF Slots
    <2>3. kept = [s EXCEPT !.slots = [s.slots EXCEPT ![cmd] = answer]]
      OBVIOUS
    <2> QED
      BY <2>2, <2>3 DEF Reading
  <1>6. WaitingForChecksum(s, b) = Goto(stored, "WAITING_FOR_STX")
    BY DEF WaitingForChecksum
  <1>7. cmd < ALL_COMMANDS <=> ~(cmd >= ALL_COMMANDS)
    BY <1>3, Sizes
  <1> HIDE DEF kept, lost, cmd, answer
  <1>8. /\ stored \in Reading
        /\ b = s.parser.checksum /\ cmd < ALL_COMMANDS => stored = kept
    BY <1>4, <1>5, <1>7
  <1> HIDE DEF stored
  <1>9. "WAITING_FOR_STX" \in States
    BY DEF States
  <1>10. /\ Goto(stored, "WAITING_FOR_STX") \in Reading
         /\ Goto(stored, "WAITING_FOR_STX").slots = stored.slots
         /\ Goto(stored, "WAITING_FOR_STX").overrun = stored.overrun
         /\ Goto(stored, "WAITING_FOR_STX").parser.state = "WAITING_FOR_STX"
    BY <1>8, <1>9, GotoType
  <1>11. LET t == Goto(stored, "WAITING_FOR_STX") IN
           /\ t \in Reading
           /\ t.parser.state = "WAITING_FOR_STX"
           /\ b = s.parser.checksum /\ cmd < ALL_COMMANDS =>
                 t.overrun = s.overrun /\ t.slots = [s.slots EXCEPT ![cmd] = answer]
    BY <1>5, <1>8, <1>10
  <1> QED
    BY <1>6, <1>11 DEF cmd, answer

LEMMA StartByte ==
    ASSUME NEW s \in Reading, NEW b \in Bytes
    PROVE  LET t == WaitingForSTX(s, b) IN
           /\ t \in Reading
           /\ b = WRAPPER_STX =>
                 /\ t.slots = s.slots /\ t.overrun = s.overrun
                 /\ t.parser = [state |-> "WAITING_FOR_RNG", k |-> 0, checksum |-> WRAPPER_STX,
                                payload |-> NoPayload]
           /\ b # WRAPPER_STX => t = s
  <1> DEFINE p == [state |-> "WAITING_FOR_RNG", k |-> 0, checksum |-> WRAPPER_STX,
                   payload |-> NoPayload]
  <1>1. NoPayload \in Payload /\ 0 \in 0..MAX_PAYLOAD_SiZE
    BY Sizes DEF NoPayload, Payload
  <1>2. p \in Parsers
    BY <1>1, Sizes DEF Parsers, States
  <1> HIDE DEF p
  <1>3. [s EXCEPT !.parser = p] \in Reading /\ [s EXCEPT !.parser = p].slots = s.slots
        /\ [s EXCEPT !.parser = p].overrun = s.overrun /\ [s EXCEPT !.parser = p].parser = p
    BY <1>2 DEF Reading
  <1>4. WaitingForSTX(s, b) = IF b = WRAPPER_STX THEN [s EXCEPT !.parser = p] ELSE s
    BY DEF WaitingForSTX, p
  <1>5. LET t == WaitingForSTX(s, b) IN
           /\ t \in Reading
           /\ b = WRAPPER_STX => t.slots = s.slots /\ t.overrun = s.overrun /\ t.parser = p
           /\ b # WRAPPER_STX => t = s
    BY <1>3, <1>4
  <1> QED
    BY <1>5 DEF p

\* Whatever byte comes in whatever state, the parser keeps its types: an access out
\* of bounds is marked and not carried out.
LEMMA ParseByteType ==
    ASSUME NEW s \in Reading, NEW b \in Bytes
    PROVE  ParseByte(s, b) \in Reading
  <1>1. CASE s.overrun
    BY <1>1 DEF ParseByte
  <1>2. CASE ~s.overrun
    <2>1. WaitingForSTX(s, b) \in Reading
      BY StartByte
    <2>2. /\ Goto(Sum(s, b), "WAITING_FOR_LEN") \in Reading
          /\ Goto(Sum(s, b), "READING_PAYLOAD") \in Reading
      <3>1. Sum(s, b) \in Reading
        BY SumType
      <3>2. "WAITING_FOR_LEN" \in States /\ "READING_PAYLOAD" \in States
        BY DEF States
      <3> QED
        BY <3>1, <3>2, GotoType
    <2>3. ReadingPayload(s, b) \in Reading
      <3>1. s.parser.k \in 0..MAX_PAYLOAD_SiZE
        BY DEF Reading, Parsers
      <3>2. CASE s.parser.k < MAX_PAYLOAD_SiZE
        BY <3>2, PayloadByte
      <3>3. CASE s.parser.k >= MAX_PAYLOAD_SiZE
        <4>1. [s EXCEPT !.overrun = TRUE] \in Reading
          BY DEF Reading
        <4> QED
          BY <3>3, <4>1 DEF ReadingPayload
      <3> QED
        BY <3>1, <3>2, <3>3, Sizes
    <2>4. WaitingForChecksum(s, b) \in Reading
      BY ChecksumByte
    <2>5. ParseByte(s, b) \in {WaitingForSTX(s, b), Goto(Sum(s, b), "WAITING_FOR_LEN"),
                               Goto(Sum(s, b), "READING_PAYLOAD"), ReadingPayload(s, b),
                               WaitingForChecksum(s, b), s}
      BY <1>2 DEF ParseByte
    <2> QED
      BY <2>1, <2>2, <2>3, <2>4, <2>5
  <1> QED
    BY <1>1, <1>2 DEF Reading

Start == [parser |-> parser, slots |-> m_CommandWaiting, overrun |-> FALSE]
ChunkSize == IF Len(m_RXQ) < PACKET_SIZE THEN Len(m_RXQ) ELSE PACKET_SIZE

LEMMA StartType == TypeOK => Start \in Reading
  BY DEF TypeOK, Start, Reading, Parsers, Slots

\* A chunk is read byte by byte: the function ReadChunk defines exists.
LEMMA ReadFacts ==
    ASSUME TypeOK, ReadChunk
    PROVE  /\ ChunkSize \in 0..Len(m_RXQ)
           /\ m_RXQ' = SubSeq(m_RXQ, ChunkSize + 1, Len(m_RXQ))
           /\ \E a \in [0..ChunkSize -> Reading] :
                 /\ a[0] = Start
                 /\ \A i \in 1..ChunkSize : a[i] = ParseByte(a[i - 1], m_RXQ[i])
                 /\ parser' = a[ChunkSize].parser
                 /\ m_CommandWaiting' = a[ChunkSize].slots
                 /\ overrun' = a[ChunkSize].overrun
  <1> DEFINE n == ChunkSize
             after[i \in 0..n] == IF i = 0 THEN Start ELSE ParseByte(after[i - 1], m_RXQ[i])
             G == [x \in Nat \X Reading |->
                      IF x[1] + 1 <= n THEN ParseByte(x[2], m_RXQ[x[1] + 1]) ELSE x[2]]
  <1>1. m_RXQ \in Seq(Bytes) /\ Len(m_RXQ) \in Nat
    BY DEF TypeOK
  <1>2. n \in 0..Len(m_RXQ) /\ n \in Nat
    BY <1>1, Sizes DEF ChunkSize
  <1>3. /\ m_RXQ' = SubSeq(m_RXQ, n + 1, Len(m_RXQ))
        /\ parser' = after[n].parser
        /\ m_CommandWaiting' = after[n].slots
        /\ overrun' = after[n].overrun
    BY DEF ReadChunk, ChunkSize, Start
  <1>4. \A i \in 1..n : m_RXQ[i] \in Bytes
    <2>1. \A i \in 1..n : i \in 1..Len(m_RXQ)
      BY <1>1, <1>2
    <2> QED
      BY <1>1, <2>1, ElementOfSeq
  <1>5. Start \in Reading
    BY StartType
  <1> HIDE DEF n
  <1>6. G \in [Nat \X Reading -> Reading]
    <2>1. ASSUME NEW x \in Nat \X Reading, x[1] + 1 <= n
          PROVE  ParseByte(x[2], m_RXQ[x[1] + 1]) \in Reading
      <3>1. x[1] + 1 \in 1..n
        BY <1>2, <2>1
      <3>2. x[2] \in Reading
        BY <2>1
      <3> QED
        BY <1>4, <3>1, <3>2, ParseByteType
    <2> QED
      BY <2>1
  <1>7. \A i \in Nat, v \in Reading : i + 1 <= n => G[<<i, v>>] = ParseByte(v, m_RXQ[i + 1])
    OBVIOUS
  <1> HIDE DEF G
  <1>8. PICK h \in [0..n -> Reading] : Prefix(G, Start, n, h)
    BY <1>2, <1>5, <1>6, PrefixExists
  <1>9. ASSUME NEW i \in 1..n PROVE h[i] = ParseByte(h[i - 1], m_RXQ[i])
    <2>1. i \in 0..n /\ i > 0 /\ i - 1 \in 0..n /\ i - 1 \in Nat /\ (i - 1) + 1 = i /\ i <= n
      BY <1>2
    <2>2. h[i] = G[<<i - 1, h[i - 1]>>]
      BY <1>8, <2>1 DEF Prefix
    <2>3. h[i - 1] \in Reading
      BY <2>1
    <2> QED
      BY <1>7, <2>1, <2>2, <2>3
  <1>10. h[0] = Start
    BY <1>8 DEF Prefix
  <1>11. h = [i \in 0..n |-> IF i = 0 THEN Start ELSE ParseByte(h[i - 1], m_RXQ[i])]
    <2>1. ASSUME NEW i \in 0..n, i # 0
          PROVE  h[i] = ParseByte(h[i - 1], m_RXQ[i])
      <3>1. i \in 1..n
        BY <2>1
      <3> QED
        BY <3>1, <1>9
    <2> QED
      BY <2>1, <1>10
  <1>12. after = [i \in 0..n |-> IF i = 0 THEN Start ELSE ParseByte(after[i - 1], m_RXQ[i])]
    BY <1>11, Zenon
  <1> HIDE DEF after
  <1>13. \A i \in 0..n : after[i] = IF i = 0 THEN Start ELSE ParseByte(after[i - 1], m_RXQ[i])
    BY <1>12, Zenon
  <1>14. after[n] = h[n]
    <2> DEFINE S == {i \in Nat : i <= n => after[i] = h[i]}
    <2>1. 0 \in S
      BY <1>2, <1>10, <1>13
    <2>2. ASSUME NEW i \in S PROVE i + 1 \in S
      <3>1. i \in Nat /\ i + 1 \in Nat /\ (i + 1) - 1 = i
        BY <2>2
      <3>2. ASSUME i + 1 <= n PROVE after[i + 1] = h[i + 1]
        <4>1. i + 1 \in 0..n /\ i + 1 \in 1..n /\ i + 1 # 0 /\ i <= n
          BY <1>2, <3>1, <3>2
        <4>2. after[i] = h[i]
          BY <2>2, <4>1
        <4>3. after[i + 1] = ParseByte(after[(i + 1) - 1], m_RXQ[i + 1])
          BY <1>13, <4>1
        <4>4. h[i + 1] = ParseByte(h[(i + 1) - 1], m_RXQ[i + 1])
          BY <1>9, <4>1
        <4> QED
          BY <3>1, <4>2, <4>3, <4>4
      <3> QED
        BY <3>1, <3>2
    <2> HIDE DEF S
    <2>3. S \in SUBSET Nat
      BY DEF S
    <2>4. S = Nat
      BY <2>1, <2>2, <2>3, SetInduction
    <2>5. n \in S /\ n <= n
      BY <1>2, <2>4
    <2> QED
      BY <2>5 DEF S
  <1>15. /\ h[0] = Start
         /\ \A i \in 1..n : h[i] = ParseByte(h[i - 1], m_RXQ[i])
         /\ parser' = h[n].parser /\ m_CommandWaiting' = h[n].slots /\ overrun' = h[n].overrun
    BY <1>3, <1>9, <1>10, <1>14
  <1> QED
    BY <1>2, <1>3, <1>15 DEF n

\* A part of a sequence is a sequence.
LEMMA Part ==
    ASSUME NEW S, NEW q \in Seq(S), NEW m \in 1..(Len(q) + 1), NEW n \in 0..Len(q)
    PROVE  /\ SubSeq(q, m, n) \in Seq(S)
           /\ Len(SubSeq(q, m, n)) = IF m <= n THEN n - m + 1 ELSE 0
           /\ \A i \in 1..(n - m + 1) : SubSeq(q, m, n)[i] = q[m + i - 1]
  <1>1. Len(q) \in Nat /\ m \in Int /\ n \in Int
    OBVIOUS
  <1>2. \A i \in m..n : i \in 1..Len(q)
    BY <1>1
  <1>3. \A i \in m..n : q[i] \in S
    BY <1>2, ElementOfSeq
  <1> QED
    BY <1>1, <1>3, SubSeqProperties

\* A session ends inside at most one packet.
Counts == connected => cuts < sessions

LEMMA TypeInit == Init => TypeOK /\ Counts
  <1> SUFFICES ASSUME Init PROVE TypeOK /\ Counts
    OBVIOUS
  <1>1. NoPayload \in Payload /\ 0 \in 0..MAX_PAYLOAD_SiZE
    BY Sizes DEF NoPayload, Payload
  <1>2. parser \in Parsers
    BY <1>1, Sizes DEF Init, Parsers
  <1>3. m_CommandWaiting \in Slots
    BY <1>1 DEF Init, Slots, NoAnswer
  <1>4. <<>> \in Seq(Bytes) /\ <<>> \in Seq(Answers) /\ Len(<<>>) = 0
    BY EmptySeq
  <1>5. 0 <= PACKET_SIZE /\ 0 <= MaxAnswers /\ 0 \in 0..0 /\ 0 \in 0..MaxSessions
    BY Sizes, ListenerAssumption
  <1>6. coming = <<>> /\ m_RXQ = <<>> /\ sent = <<>> /\ cuts = 0 /\ sessions = 0
    BY DEF Init
  <1>7. /\ coming \in Seq(Bytes) /\ Len(coming) <= PACKET_SIZE
        /\ m_RXQ \in Seq(Bytes)
        /\ sent \in Seq(Answers) /\ Len(sent) <= MaxAnswers
        /\ cuts \in 0..sessions /\ sessions \in 0..MaxSessions
    BY <1>4, <1>5, <1>6
  <1>8. /\ connected = FALSE /\ starting \in BOOLEAN
        /\ listener \in {"none", "loop", "read", "ended"}
        /\ overrun \in BOOLEAN /\ unset \in BOOLEAN /\ inherited \in BOOLEAN
    BY DEF Init
  <1> QED
    BY <1>2, <1>3, <1>7, <1>8 DEF TypeOK, Parsers, Slots, Counts

LEMMA TypeNext == TypeOK /\ Counts /\ [Next]_vars => TypeOK' /\ Counts'
  <1> SUFFICES ASSUME TypeOK, Counts, [Next]_vars PROVE TypeOK' /\ Counts'
    OBVIOUS
  <1>a. /\ coming \in Seq(Bytes) /\ Len(coming) \in Nat /\ Len(coming) <= PACKET_SIZE
        /\ m_RXQ \in Seq(Bytes) /\ Len(m_RXQ) \in Nat
        /\ sent \in Seq(Answers) /\ Len(sent) \in Nat /\ Len(sent) <= MaxAnswers
        /\ cuts \in Nat /\ sessions \in Nat /\ sessions <= MaxSessions /\ cuts <= sessions
        /\ MaxSessions \in Nat /\ MaxAnswers \in Nat /\ PACKET_SIZE \in Nat
    BY Sizes, ListenerAssumption DEF TypeOK
  <1>b. <<>> \in Seq(Bytes) /\ Len(<<>>) = 0
    BY EmptySeq
  <1>1. CASE Connect
    <2>1. sessions' = sessions + 1 /\ sessions < MaxSessions /\ cuts' = cuts
      BY <1>1 DEF Connect
    <2>2. cuts' \in 0..sessions' /\ sessions' \in 0..MaxSessions /\ cuts' < sessions'
      BY <1>a, <2>1
    <2> QED
      BY <1>1, <2>2 DEF Connect, TypeOK, Counts
  <1>2. CASE Disconnect
    <2>1. sent' \in Seq(Answers) /\ Len(sent') <= MaxAnswers
      <3>1. CASE coming = <<>>
        BY <1>2, <1>a, <3>1 DEF Disconnect
      <3>2. CASE coming # <<>> /\ Len(sent) > 0
        <4>1. sent' = SubSeq(sent, 1, Len(sent) - 1)
          BY <1>2, <3>2 DEF Disconnect
        <4>2. 1 \in 1..(Len(sent) + 1) /\ Len(sent) - 1 \in 0..Len(sent)
          BY <1>a, <3>2
        <4>3. sent' \in Seq(Answers)
              /\ Len(sent') = IF 1 <= Len(sent) - 1 THEN (Len(sent) - 1) - 1 + 1 ELSE 0
          BY <1>a, <4>1, <4>2, Part
        <4> QED
          BY <1>a, <4>3
      <3>3. CASE coming # <<>> /\ Len(sent) = 0
        <4>1. sent' = SubSeq(sent, 1, 0 - 1)
          BY <1>2, <3>3 DEF Disconnect
        <4>2. sent' = <<>>
          BY <4>1, SubSeqEmpty
        <4>3. <<>> \in Seq(Answers)
          BY EmptySeq
        <4> QED
          BY <1>a, <1>b, <4>2, <4>3
      <3> QED
        BY <1>a, <3>1, <3>2, <3>3
    <2>2. cuts' \in 0..sessions'
      <3>1. cuts < sessions /\ sessions' = sessions /\ cuts' \in {cuts, cuts + 1}
        BY <1>2 DEF Disconnect, Counts
      <3> QED
        BY <1>a, <3>1
    <2>3. coming' = <<>> /\ connected' = FALSE /\ UNCHANGED <<sessions, m_RXQ, listenerVars>>
      BY <1>2 DEF Disconnect
    <2>4. coming' \in Seq(Bytes) /\ Len(coming') <= PACKET_SIZE
      BY <1>a, <1>b, <2>3
    <2> QED
      BY <2>1, <2>2, <2>3, <2>4 DEF TypeOK, Counts, listenerVars
  <1>3. CASE StartListener
    <2>1. parser' \in Parsers
      <3>1. CASE parser' = parser
        BY <3>1 DEF TypeOK, Parsers
      <3>2. CASE \E k \in 0..MAX_PAYLOAD_SiZE, checksum \in Bytes, cmd \in {0, BYTE - 1} :
                    parser' = [parser EXCEPT !.k = k, !.checksum = checksum, !.payload[1] = cmd]
        <4>1. PICK k \in 0..MAX_PAYLOAD_SiZE, checksum \in Bytes, cmd \in {0, BYTE - 1} :
                    parser' = [parser EXCEPT !.k = k, !.checksum = checksum, !.payload[1] = cmd]
          BY <3>2
        <4>2. cmd \in Bytes
          BY Sizes DEF Bytes
        <4>3. parser \in Parsers
          BY DEF TypeOK, Parsers
        <4>4. parser.payload \in [1..MAX_PAYLOAD_SiZE -> Bytes]
          BY <4>3 DEF Parsers, Payload
        <4>5. [parser.payload EXCEPT ![1] = cmd] \in Payload
          BY <4>2, <4>4 DEF Payload
        <4>6. parser' = [parser EXCEPT !.k = k, !.checksum = checksum,
                                       !.payload = [parser.payload EXCEPT ![1] = cmd]]
          BY <4>1, <4>3 DEF Parsers
        <4> QED
          BY <4>3, <4>5, <4>6 DEF Parsers
      <3> QED
        BY <1>3, <3>1, <3>2 DEF StartListener
    <2>2. UNCHANGED <<netVars, m_RXQ, m_CommandWaiting, overrun, unset>> /\ starting' = FALSE
          /\ listener' = "loop" /\ inherited' \in BOOLEAN
      BY <1>3 DEF StartListener, TypeOK
    <2> QED
      BY <2>1, <2>2 DEF TypeOK, Parsers, Counts, netVars
  <1>4. CASE Send
    <2>1. PICK payload \in Answers, rng \in Numbers, len \in Numbers :
             coming' = Wrapper(rng, len, payload) /\ sent' = Append(sent, payload)
      BY <1>4 DEF Send
    <2>2. payload \in Payload /\ rng \in Bytes /\ len \in Bytes
      BY ListenerAssumption
    <2>3. coming' \in Seq(Bytes) /\ Len(coming') = PACKET_SIZE
      BY <2>1, <2>2, WrapperFacts
    <2>4. sent' \in Seq(Answers) /\ Len(sent') = Len(sent) + 1
      BY <1>a, <2>1, AppendProperties
    <2>5. Len(sent) < MaxAnswers /\ UNCHANGED <<connected, m_RXQ, cuts, sessions, listenerVars>>
      BY <1>4 DEF Send
    <2>6. Len(sent') <= MaxAnswers /\ Len(coming') <= PACKET_SIZE
      BY <1>a, <2>3, <2>4, <2>5
    <2> QED
      BY <2>3, <2>4, <2>5, <2>6 DEF TypeOK, Counts, listenerVars
  <1>5. CASE RXHandler
    <2>1. PICK n \in 1..Len(coming) : /\ m_RXQ' = m_RXQ \o SubSeq(coming, 1, n)
                                      /\ coming' = SubSeq(coming, n + 1, Len(coming))
      BY <1>5 DEF RXHandler
    <2>2. 1 \in 1..(Len(coming) + 1) /\ n \in 0..Len(coming) /\ n + 1 \in 1..(Len(coming) + 1)
          /\ Len(coming) \in 0..Len(coming)
      BY <1>a
    <2>3. SubSeq(coming, 1, n) \in Seq(Bytes) /\ coming' \in Seq(Bytes)
          /\ Len(coming') = IF n + 1 <= Len(coming) THEN Len(coming) - (n + 1) + 1 ELSE 0
      BY <1>a, <2>1, <2>2, Part
    <2>4. m_RXQ' \in Seq(Bytes)
      BY <1>a, <2>1, <2>3, ConcatProperties
    <2>5. Len(coming') <= PACKET_SIZE
      BY <1>a, <2>2, <2>3
    <2>6. UNCHANGED <<connected, sent, cuts, sessions, listenerVars>>
      BY <1>5 DEF RXHandler
    <2> QED
      BY <2>3, <2>4, <2>5, <2>6 DEF TypeOK, Counts, listenerVars
  <1>6. CASE Look
    BY <1>6 DEF Look, TypeOK, Counts, netVars
  <1>7. CASE ReadChunk
    <2>1. PICK a \in [0..ChunkSize -> Reading] :
             parser' = a[ChunkSize].parser /\ m_CommandWaiting' = a[ChunkSize].slots
             /\ overrun' = a[ChunkSize].overrun
      BY <1>7, ReadFacts
    <2>2. ChunkSize \in 0..Len(m_RXQ) /\ m_RXQ' = SubSeq(m_RXQ, ChunkSize + 1, Len(m_RXQ))
      BY <1>7, ReadFacts
    <2>3. ChunkSize \in 0..ChunkSize /\ ChunkSize + 1 \in 1..(Len(m_RXQ) + 1)
          /\ Len(m_RXQ) \in 0..Len(m_RXQ)
      BY <1>a, <2>2
    <2>4. m_RXQ' \in Seq(Bytes)
      BY <1>a, <2>2, <2>3, Part
    <2>5. a[ChunkSize] \in Reading
      BY <2>3
    <2>6. parser' \in Parsers /\ m_CommandWaiting' \in Slots /\ overrun' \in BOOLEAN
      BY <2>1, <2>5 DEF Reading
    <2>7. UNCHANGED <<netVars, starting, unset, inherited>> /\ listener' = "loop"
      BY <1>7 DEF ReadChunk
    <2> QED
      BY <2>4, <2>6, <2>7 DEF TypeOK, Parsers, Slots, Counts, netVars
  <1>8. CASE UNCHANGED vars
    BY <1>8 DEF vars, netVars, listenerVars, TypeOK, Counts
  <1> QED
    BY <1>1, <1>2, <1>3, <1>4, <1>5, <1>6, <1>7, <1>8 DEF Next, PacketParsingThread

\* The types of the listener, whatever the stream brings and however sessions end:
\* the index of the payload never passes its end.
THEOREM TypeCorrect == Spec => []TypeOK
  BY TypeInit, TypeNext, PTL DEF Spec

-----------------------------------------------------------------------------
(* The last answer of a command, in any sequence of answers *)

LastIn(all, c, n) ==
    LET of == {i \in 1..n : all[i][1] = c}
    IN  IF of = {} THEN NoAnswer
        ELSE [first |-> TRUE, second |-> all[CHOOSE i \in of : \A j \in of : j <= i]]

\* A bounded set of numbers has a greatest one.
LEMMA GreatestNumber ==
    ASSUME NEW n \in Nat, NEW T, T \subseteq 1..n, T # {}
    PROVE  \E x \in T : \A y \in T : y <= x
  <1> DEFINE D == {d \in Nat : n - d \in T}
  <1>1. \A y \in T : y \in Nat /\ n - y \in Nat /\ n - (n - y) = y
    OBVIOUS
  <1>2. \A y \in T : n - y \in D
    BY <1>1
  <1>3. D # {} /\ D \subseteq Nat
    BY <1>2
  <1>4. PICK d \in D : \A e \in D : d <= e
    BY <1>3, LeastNumber
  <1>5. n - d \in T /\ d \in Nat
    BY <1>4
  <1>6. \A y \in T : d <= n - y
    BY <1>2, <1>4
  <1>7. \A y \in T : y <= n - d
    BY <1>1, <1>5, <1>6
  <1> QED
    BY <1>5, <1>7

\* It depends on the first n answers only.
LEMMA LastAnswerOfPrefix ==
    ASSUME NEW n \in Nat, NEW c, NEW a, NEW b, \A i \in 1..n : a[i] = b[i]
    PROVE  LastIn(a, c, n) = LastIn(b, c, n)
  <1> DEFINE of == {i \in 1..n : a[i][1] = c}
             x == CHOOSE i \in of : \A j \in of : j <= i
  <1>1. of = {i \in 1..n : b[i][1] = c}
    OBVIOUS
  <1>2. of \subseteq 1..n
    OBVIOUS
  <1>3. LastIn(a, c, n) = IF of = {} THEN NoAnswer ELSE [first |-> TRUE, second |-> a[x]]
    BY DEF LastIn
  <1>4. LastIn(b, c, n) = IF of = {} THEN NoAnswer ELSE [first |-> TRUE, second |-> b[x]]
    BY <1>1 DEF LastIn
  <1> HIDE DEF of
  <1>5. of # {} => x \in of
    BY <1>2, GreatestNumber
  <1> HIDE DEF x
  <1>6. of # {} => a[x] = b[x]
    BY <1>2, <1>5
  <1>7. CASE of = {}
    BY <1>3, <1>4, <1>7, Zenon
  <1>8. CASE of # {}
    BY <1>3, <1>4, <1>6, <1>8, Zenon
  <1> QED
    BY <1>7, <1>8

\* The next answer takes the slot of its command and no other.
LEMMA NextAnswer ==
    ASSUME NEW n \in Nat, NEW c, NEW a
    PROVE  LastIn(a, c, n + 1) = IF a[n + 1][1] = c THEN [first |-> TRUE, second |-> a[n + 1]]
                                 ELSE LastIn(a, c, n)
  <1> DEFINE of == {i \in 1..(n + 1) : a[i][1] = c}
             x == CHOOSE i \in of : \A j \in of : j <= i
             before == {i \in 1..n : a[i][1] = c}
  <1>1. LastIn(a, c, n + 1) = IF of = {} THEN NoAnswer ELSE [first |-> TRUE, second |-> a[x]]
    BY DEF LastIn
  <1>2. \A i : i \in 1..(n + 1) <=> (i \in 1..n \/ i = n + 1)
    OBVIOUS
  <1>3. CASE a[n + 1][1] = c
    <2>1. n + 1 \in of
      BY <1>2, <1>3
    <2>2. of \subseteq 1..(n + 1) /\ n + 1 \in Nat
      OBVIOUS
    <2> HIDE DEF of
    <2>3. x \in of /\ \A j \in of : j <= x
      BY <2>1, <2>2, GreatestNumber
    <2>4. n + 1 <= x /\ x \in 1..(n + 1)
      BY <2>1, <2>2, <2>3
    <2> HIDE DEF x
    <2>5. x = n + 1
      BY <2>4
    <2>6. of # {}
      BY <2>1
    <2> QED
      BY <1>1, <1>3, <2>5, <2>6
  <1>4. CASE a[n + 1][1] # c
    <2>1. of = before
      BY <1>2, <1>4
    <2>2. LastIn(a, c, n) = IF of = {} THEN NoAnswer ELSE [first |-> TRUE, second |-> a[x]]
      BY <2>1 DEF LastIn
    <2> QED
      BY <1>1, <1>4, <2>2
  <1> QED
    BY <1>3, <1>4

-----------------------------------------------------------------------------
(* The parser inside a packet *)

\* After o bytes of a packet, where the parser is ...
Stands(p, o) ==
    /\ o = 0 => p.state = "WAITING_FOR_STX"
    /\ o = 1 => p.state = "WAITING_FOR_RNG" /\ p.k = 0
    /\ o = 2 => p.state = "WAITING_FOR_LEN" /\ p.k = 0
    /\ o \in 3..(SUM_AT - 1) => p.state = "READING_PAYLOAD" /\ p.k = o - 3
    /\ o = SUM_AT => p.state = "WAITING_FOR_CHECKSUM"

\* ... and what it has collected.
Holds(p, b, o) ==
    /\ \A i \in 1..MAX_PAYLOAD_SiZE : i + 3 <= o => p.payload[i] = b[i + 3]
    /\ \A s \in [0..SUM_AT -> Bytes] : SumsOf(s, b) => p.checksum = s[o]

\* The listener has taken q packets and o bytes of the next one.
At(s, all, w, q, o) ==
    /\ ~s.overrun
    /\ \A c \in 0..(ALL_COMMANDS - 1) : s.slots[c] = LastIn(all, c, q)
    /\ Stands(s.parser, o)
    /\ o > 0 => Holds(s.parser, w[q + 1], o)

\* It does not matter what is sent after that.
LEMMA SamePlace ==
    ASSUME NEW s, NEW a, NEW b, NEW v, NEW w, NEW q \in Nat, NEW o \in Nat,
           At(s, a, v, q, o), \A i \in 1..q : a[i] = b[i], o > 0 => v[q + 1] = w[q + 1]
    PROVE  At(s, b, w, q, o)
  <1>1. \A c : LastIn(a, c, q) = LastIn(b, c, q)
    BY LastAnswerOfPrefix
  <1> QED
    BY <1>1 DEF At

LEMMA SumGrows ==
    ASSUME NEW c, NEW b, NEW o \in 1..(SUM_AT - 1),
           \A z \in [0..SUM_AT -> Bytes] : SumsOf(z, b) => c = z[o]
    PROVE  \A z \in [0..SUM_AT -> Bytes] : SumsOf(z, b) => Add(c, b[o + 1]) = z[o + 1]
  <1> SUFFICES ASSUME NEW z \in [0..SUM_AT -> Bytes], SumsOf(z, b)
               PROVE  Add(c, b[o + 1]) = z[o + 1]
    OBVIOUS
  <1>1. c = z[o]
    OBVIOUS
  <1>2. o + 1 \in 1..SUM_AT /\ (o + 1) - 1 = o
    BY Sizes
  <1>3. z[o + 1] = Add(z[(o + 1) - 1], b[o + 1])
    BY <1>2 DEF SumsOf
  <1> QED
    BY <1>1, <1>2, <1>3

\* One byte more: the parser goes on in the packet, or stores what it has collected
\* and waits for the next one.
LEMMA ParseStep ==
    ASSUME NEW s \in Reading, NEW all, NEW w \in [Nat -> Packet],
           NEW q \in Nat, NEW o \in 0..(PACKET_SIZE - 1),
           At(s, all, w, q, o),
           all[q + 1] \in Answers, Carries(w[q + 1], all[q + 1])
    PROVE  LET t == ParseByte(s, w[q + 1][o + 1]) IN
           /\ t \in Reading
           /\ o + 1 < PACKET_SIZE => At(t, all, w, q, o + 1)
           /\ o + 1 = PACKET_SIZE => At(t, all, w, q + 1, 0)
  <1> DEFINE b == w[q + 1]
             x == b[o + 1]
             t == ParseByte(s, x)
             p == s.parser
             payload == all[q + 1]
             Goal == /\ t \in Reading
                     /\ o + 1 < PACKET_SIZE => At(t, all, w, q, o + 1)
                     /\ o + 1 = PACKET_SIZE => At(t, all, w, q + 1, 0)
  <1>1. b \in Packet /\ q + 1 \in Nat
    OBVIOUS
  <1>2. o \in Nat /\ o + 1 \in 1..PACKET_SIZE /\ o \in 0..SUM_AT
        /\ (o + 1 < PACKET_SIZE <=> o # SUM_AT) /\ (o + 1 = PACKET_SIZE <=> o = SUM_AT)
    BY Sizes
  <1>3. x \in Bytes
    BY <1>1, <1>2 DEF Packet
  <1>4. ~s.overrun /\ Stands(p, o) /\ (o > 0 => Holds(p, b, o))
        /\ \A c \in 0..(ALL_COMMANDS - 1) : s.slots[c] = LastIn(all, c, q)
    BY DEF At
  <1>5. Carries(b, payload)
    OBVIOUS
  <1>6. p \in Parsers
    BY DEF Reading
  <1>7. payload \in Payload /\ payload[1] < ALL_COMMANDS
    BY ListenerAssumption
  <1>8. t \in Reading
    BY <1>3, ParseByteType
  <1> HIDE DEF b, p, payload, x, t
  <1>9. ASSUME o = 0 PROVE Goal
    <2>1. p.state = "WAITING_FOR_STX"
      BY <1>4, <1>9 DEF Stands, p
    <2>2. x = WRAPPER_STX
      BY <1>5, <1>9 DEF Carries, x
    <2>3. t = WaitingForSTX(s, x)
      BY <1>4, <2>1 DEF ParseByte, p, t
    <2>4. /\ t.slots = s.slots /\ t.overrun = s.overrun
          /\ t.parser = [state |-> "WAITING_FOR_RNG", k |-> 0, checksum |-> WRAPPER_STX,
                         payload |-> NoPayload]
      BY <1>3, <2>2, <2>3, StartByte
    <2>5. t.parser.state = "WAITING_FOR_RNG" /\ t.parser.k = 0 /\ t.parser.checksum = WRAPPER_STX
      BY <2>4
    <2>6. Stands(t.parser, o + 1)
      BY <1>9, <2>5, Sizes DEF Stands
    <2>7. ASSUME NEW z \in [0..SUM_AT -> Bytes], SumsOf(z, b) PROVE z[1] = WRAPPER_STX
      <3>1. 1 \in 1..SUM_AT /\ 1 - 1 = 0 /\ b[1] = WRAPPER_STX
        BY <1>5, Sizes DEF Carries
      <3>2. z[1] = Add(0, WRAPPER_STX)
        BY <2>7, <3>1 DEF SumsOf
      <3> QED
        BY <3>2, AddType, Sizes
    <2>8. Holds(t.parser, b, o + 1)
      BY <1>9, <2>5, <2>7, Sizes DEF Holds
    <2>9. At(t, all, w, q, o + 1)
      BY <1>4, <2>4, <2>6, <2>8 DEF At, b
    <2> QED
      BY <1>2, <1>8, <1>9, <2>5, <2>9, Sizes
  <1>10. ASSUME o \in 1..2 PROVE Goal
    <2> DEFINE state == IF o = 1 THEN "WAITING_FOR_LEN" ELSE "READING_PAYLOAD"
    <2>1. p.state = (IF o = 1 THEN "WAITING_FOR_RNG" ELSE "WAITING_FOR_LEN") /\ p.k = 0
      BY <1>4, <1>10 DEF Stands
    <2>2. t = Goto(Sum(s, x), state)
      BY <1>4, <1>10, <2>1 DEF ParseByte, p, t
    <2>3. state \in States
      BY DEF States
    <2> HIDE DEF state
    <2>s. /\ Sum(s, x) \in Reading
          /\ Sum(s, x).slots = s.slots /\ Sum(s, x).overrun = s.overrun
          /\ Sum(s, x).parser.k = p.k /\ Sum(s, x).parser.payload = p.payload
          /\ Sum(s, x).parser.checksum = Add(p.checksum, x)
      BY <1>3, SumType DEF p
    <2>g. /\ t.slots = Sum(s, x).slots /\ t.overrun = Sum(s, x).overrun
          /\ t.parser.state = state /\ t.parser.k = Sum(s, x).parser.k
          /\ t.parser.checksum = Sum(s, x).parser.checksum
          /\ t.parser.payload = Sum(s, x).parser.payload
      BY <2>2, <2>3, <2>s, GotoType
    <2>4. /\ t.slots = s.slots /\ t.overrun = s.overrun
          /\ t.parser.state = state /\ t.parser.k = 0
          /\ t.parser.checksum = Add(p.checksum, x) /\ t.parser.payload = p.payload
      BY <2>1, <2>s, <2>g
    <2>5. Stands(t.parser, o + 1)
      BY <1>10, <2>4, Sizes DEF Stands, state
    <2>6. o \in 1..(SUM_AT - 1)
      BY <1>10, Sizes
    <2>7. \A z \in [0..SUM_AT -> Bytes] : SumsOf(z, b) => t.parser.checksum = z[o + 1]
      <3>1. \A z \in [0..SUM_AT -> Bytes] : SumsOf(z, b) => p.checksum = z[o]
        BY <1>4, <2>6, Sizes DEF Holds
      <3>2. \A z \in [0..SUM_AT -> Bytes] : SumsOf(z, b) => Add(p.checksum, b[o + 1]) = z[o + 1]
        BY <2>6, <3>1, SumGrows
      <3> QED
        BY <2>4, <3>2 DEF x
    <2>8. \A i \in 1..MAX_PAYLOAD_SiZE : ~(i + 3 <= o + 1)
      BY <1>10
    <2>9. Holds(t.parser, b, o + 1)
      BY <2>7, <2>8 DEF Holds
    <2>10. At(t, all, w, q, o + 1)
      BY <1>4, <2>4, <2>5, <2>9 DEF At, b
    <2> QED
      BY <1>2, <1>8, <2>3, <2>4, <2>6, <2>10, Sizes
  <1>11. ASSUME o \in 3..(SUM_AT - 1) PROVE Goal
    <2>1. p.state = "READING_PAYLOAD" /\ p.k = o - 3 /\ p.k < MAX_PAYLOAD_SiZE
          /\ p.k + 1 = o - 2 /\ o - 2 \in 1..MAX_PAYLOAD_SiZE /\ (o + 1) - 3 = o - 2
          /\ o \in 1..(SUM_AT - 1) /\ o + 1 \in 4..SUM_AT
      BY <1>4, <1>11, Sizes DEF Stands
    <2>2. t = ReadingPayload(s, x)
      BY <1>4, <2>1 DEF ParseByte, p, t
    <2>3. /\ t.slots = s.slots /\ t.overrun = s.overrun
          /\ t.parser.k = p.k + 1
          /\ t.parser.checksum = Add(p.checksum, x)
          /\ t.parser.payload = [p.payload EXCEPT ![p.k + 1] = x]
          /\ t.parser.state = IF p.k + 1 >= MAX_PAYLOAD_SiZE
                              THEN "WAITING_FOR_CHECKSUM" ELSE "READING_PAYLOAD"
      BY <1>3, <2>1, <2>2, PayloadByte DEF p
    <2>4. Stands(t.parser, o + 1)
      BY <2>1, <2>3, Sizes DEF Stands
    <2>5. \A z \in [0..SUM_AT -> Bytes] : SumsOf(z, b) => t.parser.checksum = z[o + 1]
      <3>1. \A z \in [0..SUM_AT -> Bytes] : SumsOf(z, b) => p.checksum = z[o]
        BY <1>4, <2>1, Sizes DEF Holds
      <3>2. \A z \in [0..SUM_AT -> Bytes] : SumsOf(z, b) => Add(p.checksum, b[o + 1]) = z[o + 1]
        BY <2>1, <3>1, SumGrows
      <3> QED
        BY <2>3, <3>2 DEF x
    <2>6. p.payload \in [1..MAX_PAYLOAD_SiZE -> Bytes]
      BY <1>6 DEF Parsers, Payload
    <2>7. ASSUME NEW i \in 1..MAX_PAYLOAD_SiZE, i + 3 <= o + 1
          PROVE  t.parser.payload[i] = b[i + 3]
      <3>1. CASE i = o - 2
        <4>1. i + 3 = o + 1
          BY <1>2, <3>1
        <4> QED
          BY <2>1, <2>3, <2>6, <3>1, <4>1 DEF x
      <3>2. CASE i # o - 2
        <4>1. i + 3 <= o
          BY <1>2, <2>7, <3>2
        <4>2. p.payload[i] = b[i + 3]
          BY <1>4, <2>1, <4>1 DEF Holds
        <4> QED
          BY <2>1, <2>3, <2>6, <3>2, <4>2
      <3> QED
        BY <3>1, <3>2
    <2>8. Holds(t.parser, b, o + 1)
      BY <2>5, <2>7 DEF Holds
    <2>9. At(t, all, w, q, o + 1)
      BY <1>4, <2>3, <2>4, <2>8 DEF At, b
    <2> QED
      BY <1>2, <1>8, <2>1, <2>9, Sizes
  <1>12. ASSUME o = SUM_AT PROVE Goal
    <2>1. p.state = "WAITING_FOR_CHECKSUM" /\ o > 0
      BY <1>4, <1>12, Sizes DEF Stands
    <2>2. t = WaitingForChecksum(s, x)
      BY <1>4, <2>1 DEF ParseByte, p, t
    <2>3. PICK z \in [0..SUM_AT -> Bytes] : SumsOf(z, b) /\ b[PACKET_SIZE] = z[SUM_AT]
      BY <1>5 DEF Carries
    <2>4. x = p.checksum
      <3>1. x = b[PACKET_SIZE] /\ p.checksum = z[SUM_AT]
        BY <1>2, <1>4, <1>12, <2>1, <2>3 DEF Holds, x
      <3> QED
        BY <2>3, <3>1
    <2>5. \A i \in 1..MAX_PAYLOAD_SiZE : i + 3 <= o
      BY <1>12, Sizes
    <2>6. \A i \in 1..MAX_PAYLOAD_SiZE : p.payload[i] = payload[i]
      BY <1>4, <1>5, <2>1, <2>5 DEF Holds, Carries
    <2>7. p.payload \in Payload
      BY <1>6 DEF Parsers
    <2>8. p.payload = payload
      <3>1. p.payload \in [1..MAX_PAYLOAD_SiZE -> Bytes] /\ payload \in [1..MAX_PAYLOAD_SiZE -> Bytes]
        BY <1>7, <2>7 DEF Payload
      <3>2. /\ p.payload = [i \in 1..MAX_PAYLOAD_SiZE |-> p.payload[i]]
            /\ payload = [i \in 1..MAX_PAYLOAD_SiZE |-> payload[i]]
        BY <3>1, Zenon
      <3>3. [i \in 1..MAX_PAYLOAD_SiZE |-> p.payload[i]] = [i \in 1..MAX_PAYLOAD_SiZE |-> payload[i]]
        BY <2>6, Zenon
      <3> QED
        BY <3>2, <3>3, Zenon
    <2>9. /\ t.parser.state = "WAITING_FOR_STX"
          /\ t.overrun = s.overrun
          /\ t.slots = [s.slots EXCEPT ![payload[1]] = [first |-> TRUE, second |-> payload]]
      BY <1>3, <1>7, <2>2, <2>4, <2>8, ChecksumByte DEF p
    <2>10. s.slots \in Slots
      BY DEF Reading
    <2>11. ASSUME NEW c \in 0..(ALL_COMMANDS - 1)
           PROVE  t.slots[c] = LastIn(all, c, q + 1)
      <3>1. LastIn(all, c, q + 1) = IF payload[1] = c THEN [first |-> TRUE, second |-> payload]
                                    ELSE LastIn(all, c, q)
        BY NextAnswer DEF payload
      <3>2. t.slots[c] = IF payload[1] = c THEN [first |-> TRUE, second |-> payload]
                         ELSE s.slots[c]
        BY <2>9, <2>10 DEF Slots
      <3> QED
        BY <1>4, <3>1, <3>2
    <2>12. Stands(t.parser, 0)
      BY <2>9, Sizes DEF Stands
    <2>13. At(t, all, w, q + 1, 0)
      <3>1. ~(0 > 0) /\ ~t.overrun
        BY <1>4, <2>9
      <3> QED
        BY <2>11, <2>12, <3>1 DEF At
    <2> QED
      BY <1>2, <1>8, <1>12, <2>9, <2>13, Sizes
  <1>13. o = 0 \/ o \in 1..2 \/ o \in 3..(SUM_AT - 1) \/ o = SUM_AT
    BY <1>2, Sizes
  <1>14. Goal
    BY <1>9, <1>10, <1>11, <1>12, <1>13
  <1> QED
    BY <1>14 DEF t, x, b

-----------------------------------------------------------------------------
(* The stream: what is queued, and behind it what has not arrived *)

Stream(x) == IF x <= Len(m_RXQ) THEN m_RXQ[x] ELSE coming[x - Len(m_RXQ)]
Total == Len(m_RXQ) + Len(coming)

\* The parser, the slots and the flag.
Now == [parser |-> parser, slots |-> m_CommandWaiting, overrun |-> overrun]

Carried(w, all) == \A i \in 1..Len(all) : Carries(w[i], all[i])

\* Behind the first p bytes sent the stream holds the packets w.
Unread(w, p) ==
    \A q \in 0..(Len(sent) - 1), o \in 0..(PACKET_SIZE - 1), x \in 1..Total :
        q * PACKET_SIZE + o + 1 = p + x => Stream(x) = w[q + 1][o + 1]

\* The packets sent are in the stream from the place in the q-th packet where the
\* parser stands: it has stored the answers before, and holds the part it has seen.
Place(w, q, o) ==
    /\ Carried(w, sent)
    /\ q * PACKET_SIZE + o + Total = Len(sent) * PACKET_SIZE
    /\ Unread(w, q * PACKET_SIZE + o)
    /\ At(Now, sent, w, q, o)

Track == \E w \in [Nat -> Packet], q \in Nat, o \in 0..(PACKET_SIZE - 1) : Place(w, q, o)

\* A place inside the packets sent.
LEMMA PlaceFacts ==
    ASSUME NEW s \in Nat, s > 0, NEW q \in Nat, NEW o \in 0..(s - 1), NEW r \in Nat, NEW n \in Nat,
           q * s + o + r = n * s
    PROVE  /\ q <= n /\ (o > 0 => q < n) /\ (r > 0 => q < n)
           /\ (r = 0 => q = n /\ o = 0)
           /\ (n * s - r) \div s = q
  <1>1. q * s \in Nat /\ n * s \in Nat
    OBVIOUS
  <1>2. q <= n
    OBVIOUS
  <1>3. q = n => o = 0 /\ r = 0
    <2>1. q = n => q * s = n * s
      OBVIOUS
    <2> QED
      BY <1>1, <2>1
  <1>4. r = 0 => q = n
    <2> SUFFICES ASSUME r = 0, q < n PROVE FALSE
      BY <1>2
    <2>1. q + 1 <= n /\ q + 1 \in Nat
      OBVIOUS
    <2>2. (q + 1) * s <= n * s
      BY <2>1
    <2>3. (q + 1) * s = q * s + s
      OBVIOUS
    <2> QED
      BY <1>1, <2>2, <2>3
  <1>5. n * s - r = q * s + o
    BY <1>1
  <1>6. (q * s + o) \div s = q
    OBVIOUS
  <1> QED
    BY <1>2, <1>3, <1>4, <1>5, <1>6

LEMMA StateFacts ==
    ASSUME TypeOK
    PROVE  /\ coming \in Seq(Bytes) /\ Len(coming) \in Nat /\ Len(coming) <= PACKET_SIZE
           /\ m_RXQ \in Seq(Bytes) /\ Len(m_RXQ) \in Nat
           /\ sent \in Seq(Answers) /\ Len(sent) \in Nat
           /\ cuts \in Nat /\ Total \in Nat
           /\ Now \in Reading
  <1>1. /\ coming \in Seq(Bytes) /\ Len(coming) \in Nat /\ Len(coming) <= PACKET_SIZE
        /\ m_RXQ \in Seq(Bytes) /\ Len(m_RXQ) \in Nat
        /\ sent \in Seq(Answers) /\ Len(sent) \in Nat
        /\ cuts \in Nat
    BY DEF TypeOK
  <1>2. parser \in Parsers /\ m_CommandWaiting \in Slots /\ overrun \in BOOLEAN
    BY DEF TypeOK, Parsers, Slots
  <1> QED
    BY <1>1, <1>2 DEF Total, Now, Reading

LEMMA TrackInit ==
    ASSUME Init, ~unset
    PROVE  Track
  <1>1. TypeOK
    BY TypeInit
  <1>2. Len(sent) = 0 /\ Total = 0
    <2>1. Len(<<>>) = 0
      OBVIOUS
    <2> QED
      BY <2>1 DEF Init, Total
  <1>3. parser.state = "WAITING_FOR_STX" /\ ~overrun
        /\ m_CommandWaiting = [c \in 0..(ALL_COMMANDS - 1) |-> NoAnswer]
    BY DEF Init
  <1>4. Now.parser.state = "WAITING_FOR_STX" /\ Now.slots = m_CommandWaiting /\ Now.overrun = overrun
    BY <1>3 DEF Now
  <1> DEFINE w == [i \in Nat |-> [j \in 1..PACKET_SIZE |-> 0]]
  <1>5. w \in [Nat -> Packet] /\ 0 \in 0..(PACKET_SIZE - 1) /\ 0 \in Nat
    BY Sizes DEF Packet
  <1>6. \A c \in 0..(ALL_COMMANDS - 1) : Now.slots[c] = LastIn(sent, c, 0)
    <2>1. \A c : {i \in 1..0 : sent[i][1] = c} = {}
      OBVIOUS
    <2>2. \A c : LastIn(sent, c, 0) = NoAnswer
      BY <2>1 DEF LastIn
    <2> QED
      BY <1>3, <1>4, <2>2
  <1>7. Stands(Now.parser, 0)
    BY <1>4, Sizes DEF Stands
  <1> HIDE DEF w
  <1>8. At(Now, sent, w, 0, 0)
    <2>1. ~(0 > 0) /\ ~Now.overrun
      BY <1>3, <1>4
    <2> QED
      BY <1>6, <1>7, <2>1 DEF At
  <1>9. Carried(w, sent) /\ Unread(w, 0 * PACKET_SIZE + 0)
    <2>1. \A i : ~(i \in 1..Len(sent)) /\ ~(i \in 1..Total)
      BY <1>2
    <2> QED
      BY <2>1 DEF Carried, Unread
  <1>10. 0 * PACKET_SIZE + 0 + Total = Len(sent) * PACKET_SIZE
    BY <1>2, Sizes
  <1>11. Place(w, 0, 0)
    BY <1>8, <1>9, <1>10 DEF Place
  <1> QED
    BY <1>5, <1>11 DEF Track

\* A step that leaves the parser, the slots and the flag alone leaves Now alone.
LEMMA NowStays ==
    ASSUME UNCHANGED <<parser, m_CommandWaiting, overrun>>
    PROVE  Now' = Now
  BY DEF Now

LEMMA StreamStays ==
    ASSUME UNCHANGED <<m_RXQ, coming, sent>>
    PROVE  /\ \A x : Stream(x)' = Stream(x)
           /\ Total' = Total
           /\ \A w, q, o : Place(w, q, o) /\ Now' = Now => Place(w, q, o)'
  BY DEF Stream, Total, Place, Unread

\* Before the first listener m_ParsingState is as it was to begin with.
FirstState == listener = "none" /\ ~unset => parser.state = "WAITING_FOR_STX"

LEMMA FirstStateNext == FirstState /\ [Next]_vars => FirstState'
  BY DEF FirstState, Next, Connect, Disconnect, StartListener, Send, RXHandler, PacketParsingThread,
         Look, ReadChunk, vars, netVars, listenerVars

LEMMA TrackStart ==
    ASSUME TypeOK, FirstState, Track, StartListener, ~unset, ~inherited'
    PROVE  Track'
  <1>0. parser.state = "WAITING_FOR_STX"
    BY DEF StartListener, FirstState
  <1>1. parser' = parser
    BY <1>0 DEF StartListener
  <1>2. /\ UNCHANGED <<m_RXQ, coming, sent, m_CommandWaiting, overrun>> /\ listener' = "loop"
    BY DEF StartListener, netVars
  <1>4. Now' = Now
    BY <1>1, <1>2 DEF Now
  <1> QED
    BY <1>2, <1>4, StreamStays DEF Track

LEMMA TrackSend ==
    ASSUME TypeOK, Track, Send
    PROVE  Track'
  <1>1. PICK payload \in Answers, rng \in Numbers, len \in Numbers :
           coming' = Wrapper(rng, len, payload) /\ sent' = Append(sent, payload)
    BY DEF Send
  <1>2. PICK w \in [Nat -> Packet], q \in Nat, o \in 0..(PACKET_SIZE - 1) : Place(w, q, o)
    BY DEF Track
  <1>3. payload \in Payload /\ rng \in Bytes /\ len \in Bytes
    BY ListenerAssumption
  <1> DEFINE s == PACKET_SIZE
             n == Len(sent)
             b == coming'
             at == q * s + o
  <1>4. coming = <<>> /\ UNCHANGED <<m_RXQ, listener, parser, m_CommandWaiting, overrun>>
    BY DEF Send, listenerVars
  <1>5. n \in Nat /\ n + 1 \in Nat /\ Len(m_RXQ) \in Nat /\ s \in Nat /\ s > 0 /\ o \in 0..(s - 1)
    BY StateFacts, Sizes
  <1>6. b \in Packet /\ Len(b) = s /\ Carries(b, payload)
    BY <1>1, <1>3, WrapperFacts DEF Carries
  <1>7. Len(sent') = n + 1 /\ sent'[n + 1] = payload /\ \A i \in 1..n : sent'[i] = sent[i]
    BY <1>1, StateFacts, AppendProperties
  <1>8. Total = Len(m_RXQ) /\ Total' = Len(m_RXQ) + s
    <2>1. Len(coming) = 0
      BY <1>4
    <2> QED
      BY <1>4, <1>5, <1>6, <2>1 DEF Total
  <1>9. at + Total = n * s /\ Carried(w, sent) /\ Unread(w, at) /\ At(Now, sent, w, q, o)
    BY <1>2 DEF Place
  <1>10. q <= n /\ (o > 0 => q < n)
    BY <1>5, <1>8, <1>9, PlaceFacts
  <1>11. PICK v \in [Nat -> Packet] : v[n + 1] = b /\ \A i \in 1..n : v[i] = w[i]
    <2>1. [w EXCEPT ![n + 1] = b] \in [Nat -> Packet] /\ [w EXCEPT ![n + 1] = b][n + 1] = b
          /\ \A i \in 1..n : [w EXCEPT ![n + 1] = b][i] = w[i]
      BY <1>5, <1>6
    <2> QED
      BY <2>1
  <1> HIDE DEF n, b, at, s
  <1>12. Carried(v, sent')
    <2>1. ASSUME NEW i \in 1..(n + 1) PROVE Carries(v[i], sent'[i])
      <3>1. CASE i = n + 1
        BY <1>6, <1>7, <1>11, <3>1
      <3>2. CASE i # n + 1
        <4>1. i \in 1..n
          BY <1>5, <3>2
        <4>2. Carries(w[i], sent[i])
          BY <1>9, <4>1 DEF Carried, n
        <4> QED
          BY <1>7, <1>11, <4>1, <4>2
      <3> QED
        BY <3>1, <3>2
    <2> QED
      BY <1>7, <2>1 DEF Carried
  <1>13. at \in Nat /\ at + Total' = (n + 1) * s
    <2>1. at \in Nat
      BY <1>5 DEF at
    <2>2. (n + 1) * s = n * s + s /\ n * s \in Nat
      BY <1>5
    <2> QED
      BY <1>5, <1>8, <1>9, <2>1, <2>2
  <1>14. ASSUME NEW r \in 0..n, NEW j \in 0..(s - 1), NEW x \in 1..Total',
                r * s + j + 1 = at + x
         PROVE  Stream(x)' = v[r + 1][j + 1]
    <2>1. r \in Nat /\ j \in Nat /\ x \in Nat /\ r * s \in Nat /\ n * s \in Nat /\ Total \in Nat
      BY <1>5, <1>8, <1>14
    <2>2. CASE r < n
      <3>1. r + 1 <= n /\ r + 1 \in 1..n /\ r \in 0..(n - 1)
        BY <1>5, <2>1, <2>2
      <3>2. (r + 1) * s <= n * s /\ (r + 1) * s = r * s + s
        BY <1>5, <2>1, <3>1
      <3>3. x <= Total /\ x \in 1..Total
        BY <1>5, <1>9, <1>13, <1>14, <2>1, <3>2
      <3>4. Stream(x) = w[r + 1][j + 1]
        BY <1>9, <1>14, <3>1, <3>3 DEF Unread, n, s
      <3>5. Stream(x)' = Stream(x)
        BY <1>4, <1>8, <3>3 DEF Stream
      <3> QED
        BY <1>11, <3>1, <3>4, <3>5
    <2>3. CASE r = n
      <3>1. x = Total + (j + 1)
        BY <1>9, <1>13, <1>14, <2>1, <2>3
      <3>2. Stream(x)' = b[j + 1]
        BY <1>4, <1>8, <2>1, <3>1 DEF Stream, b
      <3> QED
        BY <1>11, <2>3, <3>2
    <2> QED
      BY <1>5, <2>1, <2>2, <2>3
  <1>15. Unread(v, at)'
    <2>1. (n + 1) - 1 = n
      BY <1>5
    <2> QED
      BY <1>7, <1>14, <2>1 DEF Unread, s
  <1>16. At(Now, sent', v, q, o)
    <2>1. \A i \in 1..q : sent[i] = sent'[i]
      BY <1>5, <1>7, <1>10
    <2>2. o > 0 => w[q + 1] = v[q + 1]
      <3>1. o > 0 => q + 1 \in 1..n
        BY <1>5, <1>10
      <3> QED
        BY <1>11, <3>1
    <2> QED
      BY <1>5, <1>9, <2>1, <2>2, SamePlace
  <1>17. Now' = Now
    BY <1>4, NowStays
  <1>18. Place(v, q, o)'
    BY <1>7, <1>12, <1>13, <1>15, <1>16, <1>17 DEF Place, at, s
  <1> QED
    BY <1>11, <1>18 DEF Track

\* Bytes that arrive go from one end of the stream to the other.
LEMMA TrackArrival ==
    ASSUME TypeOK, Track, RXHandler
    PROVE  Track'
  <1> DEFINE c == Len(coming)
             l == Len(m_RXQ)
  <1>1. PICK n \in 1..c : /\ m_RXQ' = m_RXQ \o SubSeq(coming, 1, n)
                          /\ coming' = SubSeq(coming, n + 1, c)
    BY DEF RXHandler
  <1>2. UNCHANGED <<sent, listener, parser, m_CommandWaiting, overrun>>
    BY DEF RXHandler, listenerVars
  <1>3. /\ coming \in Seq(Bytes) /\ c \in Nat /\ m_RXQ \in Seq(Bytes) /\ l \in Nat
        /\ n \in Nat /\ n >= 1 /\ n <= c
    BY StateFacts
  <1>4. /\ 1 \in 1..(c + 1) /\ n \in 0..c /\ n + 1 \in 1..(c + 1) /\ c \in 0..c
        /\ n - 1 + 1 = n /\ c - (n + 1) + 1 = c - n
    BY <1>3
  <1>5. /\ SubSeq(coming, 1, n) \in Seq(Bytes) /\ Len(SubSeq(coming, 1, n)) = n
        /\ \A i \in 1..n : SubSeq(coming, 1, n)[i] = coming[i]
    <2>1. /\ SubSeq(coming, 1, n) \in Seq(Bytes)
          /\ Len(SubSeq(coming, 1, n)) = IF 1 <= n THEN n - 1 + 1 ELSE 0
          /\ \A i \in 1..(n - 1 + 1) : SubSeq(coming, 1, n)[i] = coming[1 + i - 1]
      BY <1>3, <1>4, Part
    <2>2. \A i \in 1..n : 1 + i - 1 = i
      OBVIOUS
    <2> QED
      BY <1>3, <1>4, <2>1, <2>2
  <1>6. /\ Len(coming') = c - n
        /\ \A i \in 1..(c - n) : coming'[i] = coming[n + i]
    <2>1. /\ Len(coming') = IF n + 1 <= c THEN c - (n + 1) + 1 ELSE 0
          /\ \A i \in 1..(c - (n + 1) + 1) : coming'[i] = coming[(n + 1) + i - 1]
      BY <1>1, <1>3, <1>4, Part
    <2>2. \A i \in 1..(c - n) : (n + 1) + i - 1 = n + i
      BY <1>3
    <2>3. Len(coming') = c - n
      <3>1. Len(coming') = IF n + 1 <= c THEN c - (n + 1) + 1 ELSE 0
        BY <2>1
      <3> HIDE DEF c
      <3>2. CASE n + 1 <= c
        BY <1>3, <3>1, <3>2
      <3>3. CASE ~(n + 1 <= c)
        BY <1>3, <3>1, <3>3
      <3> QED
        BY <3>2, <3>3
    <2>4. \A i \in 1..(c - n) : coming'[i] = coming[(n + 1) + i - 1]
      BY <1>4, <2>1
    <2> QED
      BY <2>2, <2>3, <2>4
  <1>7. /\ Len(m_RXQ') = l + n
        /\ \A i \in 1..(l + n) : m_RXQ'[i] = IF i <= l THEN m_RXQ[i] ELSE coming[i - l]
    <2>1. /\ Len(m_RXQ') = l + n
          /\ \A i \in 1..(l + n) : m_RXQ'[i] = IF i <= l THEN m_RXQ[i]
                                               ELSE SubSeq(coming, 1, n)[i - l]
      BY <1>1, <1>3, <1>5, ConcatProperties
    <2>2. \A i \in 1..(l + n) : ~(i <= l) => i - l \in 1..n
      BY <1>3
    <2> QED
      BY <1>5, <2>1, <2>2
  <1> HIDE DEF c, l
  <1>8. Total = l + c /\ Total' = Total
    BY <1>3, <1>6, <1>7 DEF Total, l, c
  <1>9. ASSUME NEW x \in 1..Total PROVE Stream(x)' = Stream(x)
    <2>1. x \in Nat /\ x >= 1 /\ x <= l + c
      BY <1>3, <1>8
    <2>2. CASE x <= l
      BY <1>3, <1>7, <2>1, <2>2 DEF Stream, l
    <2>3. CASE ~(x <= l) /\ x <= l + n
      <3>1. x \in 1..(l + n)
        BY <2>1, <2>3
      <3>2. m_RXQ'[x] = coming[x - l]
        BY <1>7, <2>3, <3>1
      <3> QED
        BY <1>7, <2>3, <3>2 DEF Stream, l
    <2>4. CASE ~(x <= l + n)
      <3>1. x - (l + n) \in 1..(c - n) /\ n + (x - (l + n)) = x - l /\ ~(x <= l)
        BY <1>3, <2>1, <2>4
      <3>2. coming'[x - (l + n)] = coming[x - l]
        BY <1>6, <3>1
      <3> QED
        BY <1>7, <2>4, <3>1, <3>2 DEF Stream, l
    <2> QED
      BY <2>2, <2>3, <2>4
  <1>10. Now' = Now
    BY <1>2, NowStays
  <1>11. ASSUME NEW w \in [Nat -> Packet], NEW q \in Nat, NEW o \in 0..(PACKET_SIZE - 1),
                Place(w, q, o)
         PROVE  Place(w, q, o)'
    BY <1>2, <1>8, <1>9, <1>10, <1>11 DEF Place, Unread
  <1> QED
    BY <1>11 DEF Track

\* A session that ends between two packets takes none, or one of which nothing has
\* arrived.
LEMMA TrackEnd ==
    ASSUME TypeOK, Track, Disconnect, cuts' = 0
    PROVE  Track'
  <1> DEFINE s == PACKET_SIZE
             n == Len(sent)
  <1>1. coming' = <<>> /\ UNCHANGED <<m_RXQ, listener, parser, m_CommandWaiting, overrun>>
        /\ sent' = IF coming = <<>> THEN sent ELSE SubSeq(sent, 1, n - 1)
    BY DEF Disconnect, listenerVars
  <1>2. /\ coming \in Seq(Bytes) /\ Len(coming) \in Nat /\ Len(coming) <= s
        /\ n \in Nat /\ Len(m_RXQ) \in Nat /\ sent \in Seq(Answers) /\ cuts \in Nat
        /\ s \in Nat /\ s > 0
    BY StateFacts, Sizes
  <1>3. Len(coming) = 0 \/ Len(coming) = s
    <2>1. ~(Len(coming) \in 1..(s - 1))
      BY <1>2 DEF Disconnect
    <2> QED
      BY <1>2, <2>1
  <1>4. Now' = Now
    BY <1>1, NowStays
  <1>5. CASE Len(coming) = 0
    <2>1. coming = <<>>
      BY <1>2, <1>5, EmptySeq
    <2> QED
      BY <1>1, <1>4, <2>1, StreamStays DEF Track
  <1>6. CASE Len(coming) = s
    <2>1. coming # <<>>
      <3>1. Len(<<>>) = 0
        OBVIOUS
      <3> QED
        BY <1>2, <1>6, <3>1
    <2>2. PICK w \in [Nat -> Packet], q \in Nat, o \in 0..(PACKET_SIZE - 1) : Place(w, q, o)
      BY DEF Track
    <2> DEFINE at == q * s + o
               m == n - 1
    <2>3. at + Total = n * s /\ Carried(w, sent) /\ Unread(w, at) /\ At(Now, sent, w, q, o)
      BY <2>2 DEF Place
    <2>4. Total = Len(m_RXQ) + s /\ Total' = Len(m_RXQ)
      <3>1. Len(coming') = 0
        BY <1>1
      <3> QED
        BY <1>1, <1>2, <1>6, <3>1 DEF Total
    <2>5. o \in 0..(s - 1) /\ at \in Nat /\ o \in Nat
      BY <1>2
    <2>6. n > 0
      <3>1. q < n
        <4>1. q * s + o + Total = n * s /\ Total \in Nat /\ Total > 0
          BY <1>2, <2>3, <2>4
        <4> HIDE DEF s, n, at
        <4> QED
          BY <1>2, <2>5, <4>1, PlaceFacts
      <3> QED
        BY <1>2, <3>1
    <2>7. m \in Nat /\ m + 1 = n /\ 1 \in 1..(n + 1) /\ m \in 0..n
      BY <1>2, <2>6
    <2>8. Len(sent') = m /\ \A i \in 1..m : sent'[i] = sent[i]
      <3>1. sent' = SubSeq(sent, 1, m)
        BY <1>1, <2>1
      <3>2. /\ Len(sent') = IF 1 <= m THEN m - 1 + 1 ELSE 0
            /\ \A i \in 1..(m - 1 + 1) : sent'[i] = sent[1 + i - 1]
        BY <1>2, <2>7, <3>1, Part
      <3>3. m - 1 + 1 = m /\ \A i \in 1..m : 1 + i - 1 = i
        BY <2>7
      <3> HIDE DEF m
      <3>4. Len(sent') = m
        BY <2>7, <3>2
      <3>5. \A i \in 1..m : sent'[i] = sent[1 + i - 1]
        BY <3>2, <3>3
      <3> QED
        BY <3>3, <3>4, <3>5
    <2> HIDE DEF m, at, s, n
    <2>9. at + Total' = m * s
      <3>1. (m + 1) * s = m * s + s /\ m * s \in Nat
        BY <1>2, <2>7
      <3>2. n * s = m * s + s
        BY <2>7, <3>1
      <3> QED
        BY <1>2, <2>3, <2>4, <2>5, <3>1, <3>2
    <2>10. q <= m /\ (o > 0 => q < m)
      <3>1. q * s + o + Total' = m * s /\ Total' \in Nat
        BY <1>2, <2>4, <2>9 DEF at
      <3>2. s \in Nat /\ s > 0 /\ o \in 0..(s - 1) /\ m \in Nat
        BY <1>2, <2>5, <2>7
      <3>3. PICK l \in Nat : l = Total'
        BY <3>1
      <3>4. q * s + o + l = m * s
        BY <3>1, <3>3
      <3> QED
        BY <3>2, <3>4, PlaceFacts
    <2>11. Carried(w, sent')
      <3>1. \A i \in 1..m : i \in 1..n
        BY <2>7
      <3> QED
        BY <2>3, <2>8, <3>1 DEF Carried, n
    <2>12. ASSUME NEW r \in 0..(m - 1), NEW j \in 0..(s - 1), NEW x \in 1..Total',
                  r * s + j + 1 = at + x
           PROVE  Stream(x)' = w[r + 1][j + 1]
      <3>1. r \in 0..(n - 1) /\ x \in 1..Total /\ x <= Len(m_RXQ)
        BY <1>2, <2>4, <2>7
      <3>2. Stream(x) = w[r + 1][j + 1]
        BY <2>3, <2>12, <3>1 DEF Unread, s, n
      <3> QED
        BY <1>1, <3>1, <3>2 DEF Stream
    <2>13. Unread(w, at)'
      BY <2>8, <2>12 DEF Unread, s
    <2>14. At(Now, sent', w, q, o)
      <3>1. \A i \in 1..q : sent[i] = sent'[i]
        BY <2>7, <2>8, <2>10
      <3> QED
        BY <2>3, <2>5, <3>1, SamePlace
    <2>15. Place(w, q, o)'
      BY <1>4, <2>8, <2>9, <2>11, <2>13, <2>14 DEF Place, at, s
    <2> QED
      BY <2>2, <2>15 DEF Track
  <1> QED
    BY <1>3, <1>5, <1>6

\* The chunk is taken byte by byte, and the place moves with every byte.
LEMMA TrackRead ==
    ASSUME TypeOK, Track, ReadChunk
    PROVE  Track'
  <1> DEFINE n == ChunkSize
             s == PACKET_SIZE
             N == Len(sent)
             l == Len(m_RXQ)
  <1>1. n \in 0..l /\ m_RXQ' = SubSeq(m_RXQ, n + 1, l)
    BY ReadFacts
  <1>2. PICK a \in [0..n -> Reading] :
           /\ a[0] = Start
           /\ \A i \in 1..n : a[i] = ParseByte(a[i - 1], m_RXQ[i])
           /\ parser' = a[n].parser
           /\ m_CommandWaiting' = a[n].slots
           /\ overrun' = a[n].overrun
    BY ReadFacts
  <1>3. PICK w \in [Nat -> Packet], first \in Nat, into \in 0..(s - 1) : Place(w, first, into)
    BY DEF Track
  <1> DEFINE at == first * s + into
             S == {i \in Nat : i <= n => \E q \in Nat, o \in 0..(s - 1) :
                      q * s + o = at + i /\ At(a[i], sent, w, q, o)}
  <1>4. /\ l \in Nat /\ N \in Nat /\ m_RXQ \in Seq(Bytes) /\ sent \in Seq(Answers)
        /\ Total \in Nat /\ Len(coming) \in Nat /\ Total = l + Len(coming)
        /\ s \in Nat /\ s > 0 /\ n \in Nat /\ n <= l /\ n <= Total
    BY <1>1, StateFacts, Sizes DEF Total
  <1>5. at + Total = N * s /\ Carried(w, sent) /\ Unread(w, at) /\ At(Now, sent, w, first, into)
    BY <1>3 DEF Place
  <1>6. at \in Nat
    BY <1>4
  <1>7. UNCHANGED <<coming, sent>> /\ listener = "read" /\ listener' = "loop"
    BY DEF ReadChunk, netVars
  <1>8. a[0] = Now
    <2>1. overrun = FALSE
      BY <1>5 DEF At, Now, TypeOK
    <2> QED
      BY <1>2, <1>7, <2>1 DEF Start, Now
  <1>9. Now' = a[n] /\ a[n] \in Reading
    <2>1. a[n] \in Reading
      BY <1>4
    <2>2. a[n] = [parser |-> a[n].parser, slots |-> a[n].slots, overrun |-> a[n].overrun]
      BY <2>1 DEF Reading
    <2>3. Now' = [parser |-> parser', slots |-> m_CommandWaiting', overrun |-> overrun']
      BY <1>7 DEF Now
    <2> QED
      BY <1>2, <2>1, <2>2, <2>3
  <1> HIDE DEF n, s, N, l, at
  <1>10. 0 \in S
    <2>1. first * s + into = at + 0
      BY <1>6 DEF at
    <2>2. At(a[0], sent, w, first, into)
      BY <1>5, <1>8
    <2> QED
      BY <1>3, <2>1, <2>2
  <1>11. ASSUME NEW i \in S PROVE i + 1 \in S
    <2> SUFFICES ASSUME i + 1 <= n
                 PROVE  \E q \in Nat, o \in 0..(s - 1) :
                           q * s + o = at + (i + 1) /\ At(a[i + 1], sent, w, q, o)
      BY <1>11
    <2>1. i \in Nat /\ i <= n /\ i \in 0..n /\ i + 1 \in 1..n /\ i + 1 \in Nat /\ (i + 1) - 1 = i
          /\ i + 1 \in 1..Total /\ i + 1 <= l
      BY <1>4, <1>11
    <2>2. PICK q \in Nat, o \in 0..(s - 1) : q * s + o = at + i /\ At(a[i], sent, w, q, o)
      BY <1>11, <2>1
    <2>3. q < N
      <3>1. Total - i \in Nat /\ Total - i > 0
        BY <1>4, <2>1
      <3>2. q * s + o + (Total - i) = N * s
        <4>1. N \in Nat /\ s \in Nat /\ o \in Nat
          BY <1>4
        <4>2. q * s \in Nat /\ N * s \in Nat
          BY <4>1
        <4>3. q * s + o \in Nat
          BY <4>1, <4>2
        <4>4. at + Total = N * s /\ q * s + o = at + i /\ i \in Nat
          BY <1>5, <2>1, <2>2
        <4>5. PICK b \in Nat : b = q * s + o
          BY <4>3
        <4>6. PICK c \in Nat : c = N * s
          BY <4>2
        <4>7. at + Total = c /\ b = at + i
          BY <4>4, <4>5, <4>6
        <4>8. at \in Nat /\ Total \in Nat /\ i \in Nat
          BY <1>4, <1>6, <2>1
        <4>9. b + (Total - i) = c
          BY <4>7, <4>8
        <4> QED
          BY <4>5, <4>6, <4>9
      <3>3. PICK r \in Nat : r = Total - i
        BY <3>1
      <3>4. r > 0 /\ q * s + o + r = N * s
        BY <3>1, <3>2, <3>3
      <3>5. N \in Nat /\ s \in Nat /\ s > 0
        BY <1>4
      <3> QED
        BY <3>4, <3>5, PlaceFacts
    <2>4. q \in 0..(N - 1) /\ q + 1 \in 1..N /\ q + 1 \in Nat
      BY <1>4, <2>3
    <2>5. q * s + o + 1 = at + (i + 1)
      BY <1>4, <1>6, <2>1, <2>2
    <2>6. Stream(i + 1) = w[q + 1][o + 1]
      BY <1>5, <2>1, <2>4, <2>5 DEF Unread, N, s
    <2>7. Stream(i + 1) = m_RXQ[i + 1]
      BY <2>1 DEF Stream, l
    <2>8. a[i + 1] = ParseByte(a[i], w[q + 1][o + 1])
      BY <1>2, <2>1, <2>6, <2>7
    <2>9. sent[q + 1] \in Answers /\ Carries(w[q + 1], sent[q + 1])
      <3>1. sent[q + 1] \in Answers
        BY <1>4, <2>4, ElementOfSeq DEF N
      <3> QED
        BY <1>5, <2>4, <3>1 DEF Carried, N
    <2>10. a[i] \in Reading
      BY <2>1
    <2>11. /\ o + 1 < PACKET_SIZE => At(a[i + 1], sent, w, q, o + 1)
           /\ o + 1 = PACKET_SIZE => At(a[i + 1], sent, w, q + 1, 0)
      <3>1. o \in 0..(PACKET_SIZE - 1) /\ At(a[i], sent, w, q, o)
        BY <2>2 DEF s
      <3> QED
        BY <2>8, <2>9, <2>10, <3>1, ParseStep
    <2>12. CASE o + 1 < s
      <3>1. o + 1 \in 0..(s - 1) /\ q * s + (o + 1) = at + (i + 1)
        BY <1>4, <1>6, <2>1, <2>5, <2>12
      <3> QED
        BY <2>11, <2>12, <3>1 DEF s
    <2>13. CASE o + 1 = s
      <3>1. 0 \in 0..(s - 1) /\ (q + 1) * s = q * s + s /\ q * s \in Nat
        BY <1>4
      <3>2. (q + 1) * s + 0 = at + (i + 1)
        BY <1>4, <1>6, <2>1, <2>5, <2>13, <3>1
      <3> QED
        BY <2>4, <2>11, <2>13, <3>1, <3>2 DEF s
    <2> QED
      BY <1>4, <2>12, <2>13
  <1>12. n \in S /\ n <= n
    <2> HIDE DEF S
    <2>1. S \in SUBSET Nat
      BY DEF S
    <2>2. S = Nat
      BY <1>10, <1>11, <2>1, SetInduction
    <2> QED
      BY <1>4, <2>2
  <1>13. PICK q \in Nat, o \in 0..(s - 1) : q * s + o = at + n /\ At(a[n], sent, w, q, o)
    BY <1>12
  <1> HIDE DEF S
  <1>14. Len(m_RXQ') = l - n /\ \A x \in 1..(l - n) : m_RXQ'[x] = m_RXQ[n + x]
    <2>1. n + 1 \in 1..(l + 1) /\ l \in 0..l /\ l - (n + 1) + 1 = l - n
      BY <1>4
    <2>2. /\ Len(m_RXQ') = IF n + 1 <= l THEN l - (n + 1) + 1 ELSE 0
          /\ \A x \in 1..(l - (n + 1) + 1) : m_RXQ'[x] = m_RXQ[(n + 1) + x - 1]
      BY <1>1, <1>4, <2>1, Part DEF l
    <2>3. \A x \in 1..(l - n) : (n + 1) + x - 1 = n + x
      BY <1>4
    <2>4. Len(m_RXQ') = l - n
      <3>1. Len(m_RXQ') = IF n + 1 <= l THEN l - (n + 1) + 1 ELSE 0
        BY <2>2
      <3>2. CASE n + 1 <= l
        BY <1>4, <3>1, <3>2
      <3>3. CASE ~(n + 1 <= l)
        BY <1>4, <3>1, <3>3
      <3> QED
        BY <3>2, <3>3
    <2>5. \A x \in 1..(l - n) : m_RXQ'[x] = m_RXQ[(n + 1) + x - 1]
      BY <2>1, <2>2
    <2> QED
      BY <2>3, <2>4, <2>5
  <1>15. Total' = Total - n
    BY <1>4, <1>7, <1>14 DEF Total
  <1>16. ASSUME NEW x \in 1..Total' PROVE n + x \in 1..Total /\ Stream(x)' = Stream(n + x)
    <2>1. x \in Nat /\ n + x \in 1..Total
      BY <1>4, <1>15
    <2>2. CASE x <= l - n
      <3>1. x \in 1..(l - n) /\ n + x <= l
        BY <1>4, <1>16, <2>1, <2>2
      <3> QED
        BY <1>14, <2>1, <2>2, <3>1 DEF Stream, l
    <2>3. CASE ~(x <= l - n)
      <3>1. ~(n + x <= l) /\ x - (l - n) = (n + x) - l
        BY <1>4, <2>1, <2>3
      <3> QED
        BY <1>7, <1>14, <2>1, <2>3, <3>1 DEF Stream, l
    <2> QED
      BY <2>2, <2>3
  <1>17. q * s + o + Total' = N * s
    <2>1. N \in Nat /\ s \in Nat /\ o \in Nat
      BY <1>4
    <2>2. q * s \in Nat /\ N * s \in Nat
      BY <2>1
    <2>3. q * s + o \in Nat
      BY <2>1, <2>2
    <2>4. q * s + o + (Total - n) = N * s
      <3>1. PICK b \in Nat : b = q * s + o
        BY <2>3
      <3>2. PICK c \in Nat : c = N * s
        BY <2>2
      <3>3. at + Total = c /\ b = at + n
        BY <1>5, <1>13, <3>1, <3>2
      <3>4. at \in Nat /\ Total \in Nat /\ n \in Nat
        BY <1>4, <1>6
      <3>5. b + (Total - n) = c
        BY <3>3, <3>4
      <3> QED
        BY <3>1, <3>2, <3>5
    <2> QED
      BY <1>15, <2>4
  <1>18. ASSUME NEW r \in 0..(N - 1), NEW j \in 0..(s - 1), NEW x \in 1..Total',
                r * s + j + 1 = (q * s + o) + x
         PROVE  Stream(x)' = w[r + 1][j + 1]
    <2>1. n + x \in 1..Total /\ Stream(x)' = Stream(n + x) /\ x \in Nat
      BY <1>4, <1>15, <1>16
    <2>2. r * s + j + 1 = at + (n + x)
      BY <1>4, <1>6, <1>13, <1>18, <2>1
    <2>3. Stream(n + x) = w[r + 1][j + 1]
      BY <1>5, <2>1, <2>2 DEF Unread, N, s
    <2> QED
      BY <2>1, <2>3
  <1>19. Unread(w, q * s + o)'
    BY <1>7, <1>18 DEF Unread, N, s
  <1>20. At(Now', sent', w, q, o)
    BY <1>7, <1>9, <1>13
  <1>21. Carried(w, sent')
    BY <1>5, <1>7
  <1>22. Place(w, q, o)'
    BY <1>7, <1>17, <1>19, <1>20, <1>21 DEF Place, N, s
  <1> QED
    BY <1>22 DEF Track, s

\* The inductive invariant: as long as m_ParsingState was right to begin with and
\* everything ends between two packets, the parser's place in the stream is known.
LEMMA TrackNext ==
    TypeOK /\ FirstState /\ (Whole => Track) /\ [Next]_vars => (Whole' => Track')
  <1> SUFFICES ASSUME TypeOK, FirstState, Whole => Track, [Next]_vars, Whole' PROVE Track'
    OBVIOUS
  <1>0. UNCHANGED unset
    BY DEF Next, Connect, Disconnect, StartListener, Send, RXHandler, PacketParsingThread,
           Look, ReadChunk, vars, listenerVars
  <1>1. cuts \in Nat /\ cuts' = 0 /\ ~inherited' /\ ~unset
    BY <1>0, StateFacts DEF Whole
  <1>2. CASE Connect
    <2>1. Whole
      BY <1>1, <1>2 DEF Connect, Whole
    <2>2. UNCHANGED <<m_RXQ, coming, sent, listener, parser, m_CommandWaiting, overrun>>
      BY <1>2 DEF Connect
    <2>3. Now' = Now
      BY <2>2, NowStays
    <2> QED
      BY <2>1, <2>2, <2>3, StreamStays DEF Track
  <1>3. CASE Disconnect
    <2>1. Whole
      <3>1. cuts' \in {cuts, cuts + 1} /\ inherited' = inherited
        BY <1>3 DEF Disconnect, listenerVars
      <3> QED
        BY <1>1, <3>1 DEF Whole
    <2> QED
      BY <1>1, <1>3, <2>1, TrackEnd
  <1>4. CASE StartListener
    <2>1. Whole
      BY <1>1, <1>4 DEF StartListener, Whole, netVars, TypeOK
    <2> QED
      BY <1>1, <1>4, <2>1, TrackStart
  <1>5. CASE Send
    <2>1. Whole
      BY <1>1, <1>5 DEF Send, Whole, listenerVars
    <2> QED
      BY <1>5, <2>1, TrackSend
  <1>6. CASE RXHandler
    <2>1. Whole
      BY <1>1, <1>6 DEF RXHandler, Whole, listenerVars
    <2> QED
      BY <1>6, <2>1, TrackArrival
  <1>7. CASE Look
    <2>1. Whole
      BY <1>1, <1>7 DEF Look, Whole, netVars
    <2>2. UNCHANGED <<m_RXQ, coming, sent, parser, m_CommandWaiting, overrun>>
      BY <1>7 DEF Look, netVars
    <2>3. Now' = Now
      BY <2>2, NowStays
    <2> QED
      BY <2>1, <2>2, <2>3, StreamStays DEF Track
  <1>8. CASE ReadChunk
    <2>1. Whole
      BY <1>1, <1>8 DEF ReadChunk, Whole, netVars
    <2> QED
      BY <1>8, <2>1, TrackRead
  <1>9. CASE UNCHANGED vars
    <2>1. Whole
      BY <1>1, <1>9 DEF vars, netVars, listenerVars, Whole
    <2>2. UNCHANGED <<m_RXQ, coming, sent, listener, parser, m_CommandWaiting, overrun>>
      BY <1>9 DEF vars, netVars, listenerVars
    <2>3. Now' = Now
      BY <2>2, NowStays
    <2> QED
      BY <2>1, <2>2, <2>3, StreamStays DEF Track
  <1> QED
    BY <1>2, <1>3, <1>4, <1>5, <1>6, <1>7, <1>8, <1>9 DEF Next, PacketParsingThread

LEMMA TrackHolds ==
    ASSUME TypeOK, Track
    PROVE  /\ ~overrun
           /\ \A c \in 0..(ALL_COMMANDS - 1) : m_CommandWaiting[c] = LastAnswer(c, Parsed)
  <1> DEFINE s == PACKET_SIZE
             n == Len(sent)
  <1>1. PICK w \in [Nat -> Packet], q \in Nat, o \in 0..(s - 1) : Place(w, q, o)
    BY DEF Track
  <1>2. q * s + o + Total = n * s /\ At(Now, sent, w, q, o)
    BY <1>1 DEF Place
  <1>3. /\ n \in Nat /\ Total \in Nat /\ s \in Nat /\ s > 0
        /\ Len(coming) \in Nat /\ Len(m_RXQ) \in Nat
    BY StateFacts, Sizes
  <1> HIDE DEF s, n
  <1>4. (n * s - Total) \div s = q
    BY <1>2, <1>3, PlaceFacts
  <1>5. n * s - Total = n * s - Len(coming) - Len(m_RXQ)
    <2>1. n * s \in Nat
      BY <1>3
    <2> QED
      BY <1>3, <2>1 DEF Total
  <1>6. Parsed = q
    BY <1>4, <1>5 DEF Parsed, s, n
  <1>7. ~Now.overrun /\ \A c \in 0..(ALL_COMMANDS - 1) : Now.slots[c] = LastIn(sent, c, q)
    BY <1>2 DEF At
  <1>8. Now.overrun = overrun /\ Now.slots = m_CommandWaiting
    BY DEF Now
  <1>9. \A c : LastAnswer(c, q) = LastIn(sent, c, q)
    BY DEF LastAnswer, LastIn
  <1> QED
    BY <1>6, <1>7, <1>8, <1>9

LEMMA Tracked == Spec => [](TypeOK /\ (Whole => Track))
  <1>1. Init => TypeOK /\ Counts /\ FirstState /\ (Whole => Track)
    <2>1. Init => FirstState
      BY DEF Init, FirstState
    <2> QED
      BY <2>1, TypeInit, TrackInit DEF Whole
  <1>2. TypeOK /\ Counts /\ FirstState /\ (Whole => Track) /\ [Next]_vars
        => TypeOK' /\ Counts' /\ FirstState' /\ (Whole' => Track')
    BY TypeNext, FirstStateNext, TrackNext
  <1> QED
    BY <1>1, <1>2, PTL DEF Spec

\* If m_ParsingState, which the program never initialises, holds WAITING_FOR_STX to
\* begin with and every session and every listener ends between two packets, each
\* slot holds the last answer of its command among the packets the parser has taken:
\* whatever the chunks recv() returns and the thread takes, over any number of
\* sessions.
THEOREM SlotsAreLastAnswers == Spec => []SlotsHoldLastAnswers
  <1>1. TypeOK /\ (Whole => Track) => SlotsHoldLastAnswers
    BY TrackHolds DEF SlotsHoldLastAnswers
  <1> QED
    BY <1>1, Tracked, PTL

\* With the same proviso, its first part included, the listener writes inside payload
\* and m_CommandWaiting.
THEOREM ListenerStaysInBounds == Spec => []WritesInBounds
  <1>1. TypeOK /\ (Whole => Track) => WritesInBounds
    BY TrackHolds DEF WritesInBounds
  <1> QED
    BY <1>1, Tracked, PTL

===============================================================================

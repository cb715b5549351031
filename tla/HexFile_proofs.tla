---------------------------- MODULE HexFile_proofs ---------------------------
(* What ParseHexFile makes of a file, for every base of the digits, size of a  *)
(* line and of the image, every sequence of records, and every character that *)
(* may be damaged, proved from the definitions of HexFile.  The invariant is  *)
(* InPlace: the parser is between two records, or waits for the next one      *)
(* after a damaged colon, or has in its line exactly what the text of the     *)
(* record says up to where it is.                                             *)
EXTENDS HexFile, SequenceTheorems, WellFoundedInduction, TLAPS

-----------------------------------------------------------------------------
(* Recursion over a number *)

\* What holds of 0 and, with a number below N, of the next one, holds up to N.
LEMMA RangeInduction ==
    ASSUME NEW N \in Nat, NEW S, 0 \in S, \A n \in 1..N : n - 1 \in S => n \in S
    PROVE  0..N \subseteq S
  <1> DEFINE T == {n \in 0..N : n \notin S}
             R == OpToRel(<, Nat)
  <1> SUFFICES ASSUME T # {} PROVE FALSE
    OBVIOUS
  <1>1. IsWellFoundedOn(R, Nat)
    BY NatLessThanWellFounded
  <1>2. \A x, y \in Nat : x < y => <<x, y>> \in R
    BY DEF OpToRel
  <1>3. T \subseteq Nat
    OBVIOUS
  <1> HIDE DEF R, T
  <1>4. PICK x \in T : \A y \in T : ~(<<y, x>> \in R)
    BY <1>1, <1>3, WFMin
  <1>5. x \in 0..N /\ x \notin S
    BY <1>4 DEF T
  <1>6. x # 0 /\ x \in 1..N /\ x - 1 \in 0..N /\ x - 1 < x /\ x \in Nat /\ x - 1 \in Nat
    BY <1>5
  <1>7. x - 1 \notin T
    BY <1>2, <1>4, <1>6
  <1>8. x - 1 \in S
    BY <1>6, <1>7 DEF T
  <1> QED
    BY <1>5, <1>6, <1>8

\* The recursion that starts at v and goes on with G, N steps of it.
RunOf(G, v, N, h) == h[0] = v /\ \A n \in 1..N : h[n] = G[<<n, h[n - 1]>>]

LEMMA RunExists ==
    ASSUME NEW V, NEW v \in V, NEW N \in Nat, NEW G \in [(1..N) \X V -> V]
    PROVE  \E h \in [0..N -> V] : RunOf(G, v, N, h)
  <1> DEFINE Run(m, h) == h[0] = v /\ \A n \in 1..m : h[n] = G[<<n, h[n - 1]>>]
             S == {m \in 0..N : \E h \in [0..m -> V] : Run(m, h)}
  <1>1. 0 \in S
    <2>1. [i \in 0..0 |-> v] \in [0..0 -> V] /\ 0 \in 0..N
      OBVIOUS
    <2>2. [i \in 0..0 |-> v][0] = v /\ 1..0 = {}
      OBVIOUS
    <2>3. Run(0, [i \in 0..0 |-> v])
      BY <2>2
    <2> HIDE DEF Run
    <2> QED
      BY <2>1, <2>3
  <1>2. ASSUME NEW m \in 1..N, m - 1 \in S PROVE m \in S
    <2>1. m - 1 \in 0..(m - 1) /\ m \in Nat /\ m \in 0..N /\ m # 0 /\ 0 \in 0..m
      OBVIOUS
    <2>2. PICK h \in [0..(m - 1) -> V] : Run(m - 1, h)
      BY <1>2
    <2> DEFINE g == [n \in 0..m |-> IF n = m THEN G[<<m, h[m - 1]>>] ELSE h[n]]
    <2>3. \A n \in 0..m : n # m => n \in 0..(m - 1)
      OBVIOUS
    <2>4. g \in [0..m -> V]
      <3>1. h[m - 1] \in V
        BY <2>1
      <3>2. G[<<m, h[m - 1]>>] \in V
        BY <3>1
      <3>3. \A n \in 0..m : n # m => h[n] \in V
        BY <2>3
      <3> QED
        BY <3>2, <3>3
    <2>5. g[0] = v
      BY <2>1, <2>2
    <2>6. ASSUME NEW n \in 1..m PROVE g[n] = G[<<n, g[n - 1]>>]
      <3>1. n - 1 \in 0..m /\ n \in 0..m /\ n - 1 # m
        OBVIOUS
      <3>2. g[n - 1] = h[n - 1]
        BY <3>1
      <3>3. CASE n = m
        BY <3>1, <3>2, <3>3
      <3>4. CASE n # m
        <4>1. n \in 1..(m - 1)
          BY <3>4
        <4>2. g[n] = h[n]
          BY <3>1, <3>4
        <4> QED
          BY <2>2, <3>2, <4>1, <4>2
      <3> QED
        BY <3>3, <3>4
    <2> HIDE DEF g
    <2>7. Run(m, g)
      BY <2>5, <2>6
    <2> QED
      BY <2>1, <2>4, <2>7
  <1> HIDE DEF S
  <1>3. 0..N \subseteq S
    BY <1>1, <1>2, RangeInduction
  <1>4. N \in S
    BY <1>3
  <1> QED
    BY <1>4 DEF S, RunOf

-----------------------------------------------------------------------------
(* Numbers *)

LEMMA Constants ==
    /\ BASE \in Nat /\ BASE >= 2
    /\ BYTE \in Nat /\ BYTE >= 4 /\ BYTE > BASE /\ BYTE = BASE * BASE
    /\ BYTE * BYTE \in Nat /\ BYTE * BYTE > BYTE
    /\ 0 \in Bytes /\ 0 \in Addresses
  <1>1. BASE \in Nat /\ BASE >= 2
    BY HexAssumption
  <1>2. BASE * BASE >= 2 * BASE
    BY <1>1
  <1>3. BYTE \in Nat /\ BYTE >= 4 /\ BYTE > BASE
    BY <1>1, <1>2 DEF BYTE
  <1>4. BYTE * BYTE >= 2 * BYTE
    BY <1>3
  <1> QED
    BY <1>1, <1>3, <1>4 DEF BYTE, Bytes, Addresses

\* A byte is its two digits, an address its two bytes.
LEMMA TwoDigits ==
    ASSUME NEW B \in Nat, B > 0, NEW n \in 0..(B * B - 1)
    PROVE  n \div B \in 0..(B - 1) /\ n % B \in 0..(B - 1) /\ (n \div B) * B + (n % B) = n
  <1>1. n \div B \in Nat /\ n % B \in 0..(B - 1) /\ (n \div B) * B + (n % B) = n
    OBVIOUS
  <1>2. ASSUME n \div B >= B PROVE FALSE
    <2>1. (n \div B) * B >= B * B
      BY <1>1, <1>2
    <2> QED
      BY <1>1, <2>1
  <1> QED
    BY <1>1, <1>2

LEMMA ByteRange == \A n \in Int : n % BYTE \in Bytes
  BY Constants DEF Bytes

-----------------------------------------------------------------------------
(* The text of a record *)

\* s holds the sums of the first bytes of a sequence.
SumsOf(s, bytes) ==
    /\ s \in [0..Len(bytes) -> Bytes]
    /\ s[0] = 0
    /\ \A n \in 1..Len(bytes) : s[n] = (s[n - 1] + bytes[n]) % BYTE

LEMMA ElementsAreBytes ==
    ASSUME NEW bytes \in Seq(Bytes)
    PROVE  Len(bytes) \in Nat /\ \A n \in 1..Len(bytes) : bytes[n] \in Bytes /\ bytes[n] \in Nat
  BY Constants DEF Bytes

LEMMA SumsExist ==
    ASSUME NEW bytes \in Seq(Bytes)
    PROVE  \E s : SumsOf(s, bytes)
  <1> DEFINE N == Len(bytes)
             G == [x \in (1..N) \X Bytes |-> (x[2] + bytes[x[1]]) % BYTE]
  <1>1. N \in Nat /\ \A n \in 1..N : bytes[n] \in Bytes /\ bytes[n] \in Nat
    BY ElementsAreBytes
  <1>2. \A n \in 1..N, v \in Bytes : G[<<n, v>>] = (v + bytes[n]) % BYTE
    OBVIOUS
  <1>3. G \in [(1..N) \X Bytes -> Bytes]
    <2>1. \A n \in 1..N, v \in Bytes : v + bytes[n] \in Int
      BY <1>1, Constants DEF Bytes
    <2> QED
      BY <2>1, ByteRange
  <1> HIDE DEF G
  <1>4. PICK h \in [0..N -> Bytes] : RunOf(G, 0, N, h)
    <2>1. 0 \in Bytes /\ N \in Nat
      BY <1>1, Constants
    <2> HIDE DEF N
    <2> QED
      BY <1>3, <2>1, RunExists
  <1>5. \A n \in 1..N : h[n - 1] \in Bytes
    BY <1>1, <1>4
  <1> HIDE DEF N
  <1>6. \A n \in 1..N : h[n] = (h[n - 1] + bytes[n]) % BYTE
    BY <1>2, <1>4, <1>5 DEF RunOf
  <1> QED
    BY <1>4, <1>6 DEF SumsOf, RunOf, N

LEMMA SumIs ==
    ASSUME NEW bytes \in Seq(Bytes), NEW s, SumsOf(s, bytes)
    PROVE  Sum(bytes) = s[Len(bytes)]
  <1> DEFINE sum[n \in 0..Len(bytes)] == IF n = 0 THEN 0 ELSE (sum[n - 1] + bytes[n]) % BYTE
  <1>1. Sum(bytes) = sum[Len(bytes)]
    BY DEF Sum
  <1>2. Len(bytes) \in Nat
    OBVIOUS
  <1>3. s = [n \in 0..Len(bytes) |-> IF n = 0 THEN 0 ELSE (s[n - 1] + bytes[n]) % BYTE]
    <2>1. \A n \in 0..Len(bytes) : n # 0 => n \in 1..Len(bytes)
      BY <1>2
    <2>2. s = [n \in 0..Len(bytes) |-> s[n]]
      BY DEF SumsOf
    <2>3. \A n \in 0..Len(bytes) : s[n] = IF n = 0 THEN 0 ELSE (s[n - 1] + bytes[n]) % BYTE
      BY <2>1 DEF SumsOf
    <2> QED
      BY <2>2, <2>3, Zenon
  <1>4. sum = [n \in 0..Len(bytes) |-> IF n = 0 THEN 0 ELSE (sum[n - 1] + bytes[n]) % BYTE]
    BY <1>3, Zenon
  <1> HIDE DEF sum
  <1>5. \A n \in 0..Len(bytes) : sum[n] = IF n = 0 THEN 0 ELSE (sum[n - 1] + bytes[n]) % BYTE
    BY <1>4, Zenon
  <1>6. sum[0] = 0 /\ \A n \in 1..Len(bytes) : sum[n] = (sum[n - 1] + bytes[n]) % BYTE
    BY <1>2, <1>5
  <1>7. \A n \in 0..Len(bytes) : sum[n] = s[n]
    <2> DEFINE S == {n \in 0..Len(bytes) : sum[n] = s[n]}
    <2>1. 0 \in S
      BY <1>2, <1>6 DEF SumsOf
    <2>2. ASSUME NEW n \in 1..Len(bytes), n - 1 \in S PROVE n \in S
      <3>1. sum[n - 1] = s[n - 1] /\ n \in 0..Len(bytes)
        BY <2>2
      <3>2. sum[n] = (sum[n - 1] + bytes[n]) % BYTE /\ s[n] = (s[n - 1] + bytes[n]) % BYTE
        BY <1>6 DEF SumsOf
      <3> QED
        BY <3>1, <3>2
    <2> HIDE DEF S
    <2>3. 0..Len(bytes) \subseteq S
      BY <1>2, <2>1, <2>2, RangeInduction
    <2> QED
      BY <2>3 DEF S
  <1> QED
    BY <1>1, <1>2, <1>7

ARecord(r) == r \in Records /\ Len(r.data) < BYTE

\* The bytes of a record are bytes, five more than its data, and their sum is 0.
LEMMA RawFacts ==
    ASSUME NEW r, ARecord(r)
    PROVE  /\ r.data \in Seq(Bytes) /\ Len(r.data) \in Bytes
           /\ Raw(r) \in Seq(Bytes) /\ Len(Raw(r)) = Len(r.data) + 5
           /\ Raw(r)[1] = Len(r.data)
           /\ Raw(r)[2] = r.address \div BYTE /\ Raw(r)[3] = r.address % BYTE
           /\ Raw(r)[4] = r.type
           /\ \A j \in 1..Len(r.data) : Raw(r)[j + 4] = r.data[j]
           /\ \E s : SumsOf(s, Raw(r)) /\ s[Len(r.data) + 5] = 0
  <1> DEFINE head == <<Len(r.data), r.address \div BYTE, r.address % BYTE, r.type>>
             L == Len(r.data)
             body == Body(r)
             c == (BYTE - Sum(body)) % BYTE
  <1>1. r.data \in Seq(Bytes) /\ L \in Bytes /\ r.address \in Addresses /\ r.type \in Bytes /\ L \in Nat
    BY Constants DEF ARecord, Records, Bytes
  <1>2. r.address \div BYTE \in Bytes /\ r.address % BYTE \in Bytes
    <2>1. r.address \in 0..(BYTE * BYTE - 1) /\ BYTE \in Nat /\ BYTE > 0
      BY <1>1, Constants DEF Addresses
    <2> QED
      BY <2>1, TwoDigits DEF Bytes
  <1>3. head \in Seq(Bytes) /\ Len(head) = 4
    BY <1>1, <1>2
  <1>4. head[1] = L /\ head[2] = r.address \div BYTE /\ head[3] = r.address % BYTE /\ head[4] = r.type
    OBVIOUS
  <1> HIDE DEF head
  <1>5. /\ head \o r.data \in Seq(Bytes)
        /\ Len(head \o r.data) = Len(head) + L
        /\ \A i \in 1..Len(head) + L :
              (head \o r.data)[i] = IF i <= Len(head) THEN head[i] ELSE r.data[i - Len(head)]
    BY <1>1, <1>3, ConcatProperties
  <1>6. body = head \o r.data
    BY DEF Body, head
  <1>7. body \in Seq(Bytes) /\ Len(body) = L + 4
    BY <1>1, <1>3, <1>5, <1>6
  <1>8. /\ \A i \in 1..4 : body[i] = head[i]
        /\ \A j \in 1..L : body[j + 4] = r.data[j]
    <2>1. \A i \in 1..4 : i \in 1..(4 + L) /\ i <= 4
      BY <1>1
    <2>2. \A j \in 1..L : j + 4 \in 1..(4 + L) /\ ~(j + 4 <= 4) /\ (j + 4) - 4 = j
      BY <1>1
    <2> QED
      BY <1>3, <1>5, <1>6, <2>1, <2>2
  <1> HIDE DEF body, L
  <1>9. PICK s : SumsOf(s, body)
    BY <1>7, SumsExist
  <1>10. Sum(body) = s[L + 4] /\ s[L + 4] \in Bytes
    <2>1. Sum(body) = s[Len(body)]
      BY <1>7, <1>9, SumIs
    <2>2. L + 4 \in 0..(L + 4)
      BY <1>1
    <2> QED
      BY <1>7, <1>9, <2>1, <2>2 DEF SumsOf
  <1>11. c \in Bytes /\ (s[L + 4] + c) % BYTE = 0
    <2>1. c = IF s[L + 4] = 0 THEN 0 ELSE BYTE - s[L + 4]
      BY <1>10, Constants DEF Bytes
    <2> QED
      BY <1>10, <2>1, Constants DEF Bytes
  <1>12. Raw(r) = Append(body, c)
    BY DEF Raw, body
  <1> HIDE DEF c
  <1>13. /\ Raw(r) \in Seq(Bytes) /\ Len(Raw(r)) = L + 5
         /\ \A i \in 1..(L + 4) : Raw(r)[i] = body[i]
         /\ Raw(r)[L + 5] = c
    <2>1. /\ Append(body, c) \in Seq(Bytes) /\ Len(Append(body, c)) = Len(body) + 1
          /\ \A i \in 1..Len(body) : Append(body, c)[i] = body[i]
          /\ Append(body, c)[Len(body) + 1] = c
      BY <1>7, <1>11, AppendProperties
    <2>2. (L + 4) + 1 = L + 5
      BY <1>1
    <2> QED
      BY <1>7, <1>12, <2>1, <2>2
  <1>14. \E t : SumsOf(t, Raw(r)) /\ t[L + 5] = 0
    <2> DEFINE t == [n \in 0..(L + 5) |-> IF n = L + 5 THEN 0 ELSE s[n]]
    <2>1. \A n \in 0..(L + 5) : n # L + 5 => n \in 0..(L + 4)
      BY <1>1
    <2>2. t \in [0..(L + 5) -> Bytes]
      BY <1>7, <1>9, <2>1, Constants DEF SumsOf
    <2>3. t[0] = 0 /\ t[L + 5] = 0
      BY <1>1, <1>9 DEF SumsOf
    <2>4. ASSUME NEW n \in 1..(L + 5) PROVE t[n] = (t[n - 1] + Raw(r)[n]) % BYTE
      <3>1. n - 1 \in 0..(L + 4) /\ n - 1 # L + 5 /\ n - 1 \in 0..(L + 5) /\ n \in 0..(L + 5)
        BY <1>1
      <3>2. t[n - 1] = s[n - 1]
        BY <3>1
      <3>3. CASE n = L + 5
        <4>1. n - 1 = L + 4 /\ t[n] = 0 /\ Raw(r)[n] = c
          BY <1>1, <1>13, <3>1, <3>3
        <4> QED
          BY <1>11, <3>2, <4>1
      <3>4. CASE n # L + 5
        <4>1. n \in 1..(L + 4)
          BY <1>1, <3>4
        <4>2. t[n] = s[n] /\ Raw(r)[n] = body[n]
          BY <1>13, <3>1, <3>4, <4>1
        <4>3. s[n] = (s[n - 1] + body[n]) % BYTE
          BY <1>7, <1>9, <4>1 DEF SumsOf
        <4> QED
          BY <3>2, <4>2, <4>3
      <3> QED
        BY <3>3, <3>4
    <2> HIDE DEF t
    <2>5. SumsOf(t, Raw(r))
      BY <1>13, <2>2, <2>3, <2>4 DEF SumsOf
    <2> QED
      BY <2>3, <2>5
  <1>15. \A j \in 1..L : Raw(r)[j + 4] = r.data[j]
    <2>1. \A j \in 1..L : j + 4 \in 1..(L + 4)
      BY <1>1
    <2> QED
      BY <1>8, <1>13, <2>1
  <1>16. \A i \in 1..4 : i \in 1..(L + 4)
    BY <1>1
  <1>17. Raw(r)[1] = head[1] /\ Raw(r)[2] = head[2] /\ Raw(r)[3] = head[3] /\ Raw(r)[4] = head[4]
    <2>1. 1 \in 1..4 /\ 2 \in 1..4 /\ 3 \in 1..4 /\ 4 \in 1..4
      OBVIOUS
    <2> QED
      BY <1>8, <1>13, <1>16, <2>1
  <1> QED
    BY <1>1, <1>4, <1>13, <1>14, <1>15, <1>17 DEF L

Size(r) == 2 * (Len(r.data) + 5)

\* A record is a colon, the digits of its bytes and the end of the line.
LEMMA TextFacts ==
    ASSUME NEW r, ARecord(r)
    PROVE  /\ Text(r) \in Seq(Characters) /\ Len(Text(r)) = Size(r) + 2
           /\ Text(r)[1] = Colon /\ Text(r)[Size(r) + 2] = EndOfLine
           /\ \A k \in 1..Size(r) : Text(r)[k + 1] \in 0..(BASE - 1)
           /\ \A j \in 1..(Len(r.data) + 5) :
                 Text(r)[2 * j] * BASE + Text(r)[2 * j + 1] = Raw(r)[j]
  <1> DEFINE L == Len(r.data) + 5
             D == Digits(Raw(r))
  <1>1. L \in Nat /\ Raw(r) \in Seq(Bytes) /\ Len(Raw(r)) = L /\ Size(r) = 2 * L /\ 2 * L \in Nat
    BY RawFacts, Constants DEF Size, Bytes
  <1>2. \A j \in 1..L : /\ Raw(r)[j] \in Bytes
                        /\ Raw(r)[j] \div BASE \in 0..(BASE - 1)
                        /\ Raw(r)[j] % BASE \in 0..(BASE - 1)
                        /\ (Raw(r)[j] \div BASE) * BASE + (Raw(r)[j] % BASE) = Raw(r)[j]
    <2>1. \A j \in 1..L : Raw(r)[j] \in Bytes /\ Raw(r)[j] \in 0..(BASE * BASE - 1)
      BY <1>1, ElementsAreBytes, Constants DEF Bytes
    <2>2. ASSUME NEW j \in 1..L, NEW b, b = Raw(r)[j]
          PROVE  b \div BASE \in 0..(BASE - 1) /\ b % BASE \in 0..(BASE - 1)
                 /\ (b \div BASE) * BASE + (b % BASE) = b
      <3>1. BASE \in Nat /\ BASE > 0 /\ b \in 0..(BASE * BASE - 1)
        BY <2>1, <2>2, Constants
      <3> QED
        BY <3>1, TwoDigits
    <2> QED
      BY <2>1, <2>2
  <1>3. D = [k \in 1..(2 * L) |->
               IF k % 2 = 1 THEN Raw(r)[(k + 1) \div 2] \div BASE ELSE Raw(r)[k \div 2] % BASE]
    BY <1>1 DEF Digits
  <1> HIDE DEF D, L
  <1>4. \A k \in 1..(2 * L) : /\ k % 2 = 1 => (k + 1) \div 2 \in 1..L
                              /\ k % 2 # 1 => k \div 2 \in 1..L
    BY <1>1
  <1>5. \A k \in 1..(2 * L) : D[k] \in 0..(BASE - 1)
    BY <1>2, <1>3, <1>4
  <1>6. \A j \in 1..L : D[2 * j - 1] * BASE + D[2 * j] = Raw(r)[j]
    <2> TAKE j \in 1..L
    <2>1. /\ 2 * j - 1 \in 1..(2 * L) /\ (2 * j - 1) % 2 = 1 /\ ((2 * j - 1) + 1) \div 2 = j
          /\ 2 * j \in 1..(2 * L) /\ (2 * j) % 2 # 1 /\ (2 * j) \div 2 = j
      BY <1>1
    <2>2. D[2 * j - 1] = Raw(r)[j] \div BASE
      BY <1>3, <2>1
    <2>3. D[2 * j] = Raw(r)[j] % BASE
      BY <1>3, <2>1
    <2> QED
      BY <1>2, <2>2, <2>3
  <1>7. \A k \in 1..(2 * L) : D[k] \in Characters
    BY <1>5, Constants DEF Characters
  <1>8. D \in Seq(Characters) /\ Len(D) = 2 * L
    <2>1. D \in [1..(2 * L) -> Characters]
      <3>1. D = [k \in 1..(2 * L) |-> D[k]]
        BY <1>3
      <3> QED
        BY <1>7, <3>1
    <2>2. D \in Seq(Characters)
      BY <1>1, <2>1, SeqDef
    <2>3. DOMAIN D = 1..(2 * L)
      BY <1>3
    <2> QED
      BY <1>1, <2>2, <2>3, LenProperties
  <1>9. <<Colon>> \in Seq(Characters) /\ Len(<<Colon>>) = 1 /\ <<Colon>>[1] = Colon
        /\ <<EndOfLine>> \in Seq(Characters) /\ Len(<<EndOfLine>>) = 1 /\ <<EndOfLine>>[1] = EndOfLine
    <2>1. Colon \in Characters /\ EndOfLine \in Characters
      BY Constants DEF Colon, EndOfLine, Characters
    <2> QED
      BY <2>1
  <1> DEFINE front == <<Colon>> \o D
  <1>10. /\ front \in Seq(Characters) /\ Len(front) = 2 * L + 1 /\ front[1] = Colon
         /\ \A k \in 1..(2 * L) : front[k + 1] = D[k]
    <2>1. /\ front \in Seq(Characters) /\ Len(front) = Len(<<Colon>>) + Len(D)
          /\ \A i \in 1..(Len(<<Colon>>) + Len(D)) :
                front[i] = IF i <= Len(<<Colon>>) THEN <<Colon>>[i] ELSE D[i - Len(<<Colon>>)]
      BY <1>8, <1>9, ConcatProperties
    <2> HIDE DEF front
    <2>2. \A i \in 1..(1 + 2 * L) : front[i] = IF i <= 1 THEN <<Colon>>[i] ELSE D[i - 1]
      BY <1>8, <1>9, <2>1
    <2>3. \A k \in 1..(2 * L) : k + 1 \in 1..(1 + 2 * L) /\ ~(k + 1 <= 1) /\ (k + 1) - 1 = k
      BY <1>1
    <2>4. \A k \in 1..(2 * L) : front[k + 1] = D[k]
      BY <2>2, <2>3
    <2>5. front[1] = Colon
      BY <1>1, <1>9, <2>2
    <2> QED
      BY <1>1, <1>8, <1>9, <2>1, <2>4, <2>5
  <1> HIDE DEF front
  <1>11. Text(r) = front \o <<EndOfLine>>
    BY DEF Text, front, D
  <1>12. /\ Text(r) \in Seq(Characters) /\ Len(Text(r)) = 2 * L + 2
         /\ \A i \in 1..(2 * L + 1) : Text(r)[i] = front[i]
         /\ Text(r)[2 * L + 2] = EndOfLine
    <2>1. /\ front \o <<EndOfLine>> \in Seq(Characters)
          /\ Len(front \o <<EndOfLine>>) = Len(front) + Len(<<EndOfLine>>)
          /\ \A i \in 1..(Len(front) + Len(<<EndOfLine>>)) :
                (front \o <<EndOfLine>>)[i] = IF i <= Len(front) THEN front[i]
                                              ELSE <<EndOfLine>>[i - Len(front)]
      BY <1>9, <1>10, ConcatProperties
    <2>2. \A i \in 1..(2 * L + 2) : Text(r)[i] = IF i <= 2 * L + 1 THEN front[i]
                                                  ELSE <<EndOfLine>>[i - (2 * L + 1)]
      BY <1>1, <1>9, <1>10, <1>11, <2>1
    <2>3. (2 * L + 2) - (2 * L + 1) = 1 /\ 2 * L + 2 \in 1..(2 * L + 2) /\ ~(2 * L + 2 <= 2 * L + 1)
          /\ (2 * L + 1) + 1 = 2 * L + 2
      BY <1>1
    <2>4. \A i \in 1..(2 * L + 1) : i \in 1..(2 * L + 2) /\ i <= 2 * L + 1
      BY <1>1
    <2> QED
      BY <1>9, <1>10, <1>11, <2>1, <2>2, <2>3, <2>4
  <1>13. \A k \in 1..(2 * L) : Text(r)[k + 1] = D[k]
    <2>1. \A k \in 1..(2 * L) : k + 1 \in 1..(2 * L + 1)
      BY <1>1
    <2> QED
      BY <1>10, <1>12, <2>1
  <1>14. Text(r)[1] = Colon
    BY <1>1, <1>10, <1>12
  <1>15. \A j \in 1..L : Text(r)[2 * j] * BASE + Text(r)[2 * j + 1] = Raw(r)[j]
    <2> TAKE j \in 1..L
    <2>1. 2 * j - 1 \in 1..(2 * L) /\ 2 * j \in 1..(2 * L) /\ (2 * j - 1) + 1 = 2 * j
      BY <1>1
    <2>2. Text(r)[2 * j] = D[2 * j - 1] /\ Text(r)[2 * j + 1] = D[2 * j]
      BY <1>13, <2>1
    <2> QED
      BY <1>6, <2>2
  <1> QED
    BY <1>1, <1>5, <1>12, <1>13, <1>14, <1>15 DEF L

-----------------------------------------------------------------------------
(* The text of a file *)

SomeRecords(rs) == rs \in Seq(Records) /\ \A i \in 1..Len(rs) : ARecord(rs[i])

LEMMA RecordsOfAFile == \A rs \in Files : SomeRecords(rs)
  <1> TAKE rs \in Files
  <1>1. rs \in Seq(Records) /\ \A i \in 1..Len(rs) : rs[i] \in Records /\ Len(rs[i].data) < BYTE
    BY HexAssumption
  <1> QED
    BY <1>1 DEF SomeRecords, ARecord

LEMMA TextsStep ==
    ASSUME NEW rs, SomeRecords(rs)
    PROVE  /\ \A n \in 0..Len(rs) : Texts(rs, n) \in Seq(Characters)
           /\ Texts(rs, 0) = <<>>
           /\ \A n \in 1..Len(rs) : Texts(rs, n) = Texts(rs, n - 1) \o Text(rs[n])
  <1> DEFINE N == Len(rs)
             V == Seq(Characters)
             G == [x \in (1..N) \X V |-> x[2] \o Text(rs[x[1]])]
  <1>1. N \in Nat /\ \A n \in 1..N : ARecord(rs[n])
    BY DEF SomeRecords
  <1>2. \A n \in 1..N : Text(rs[n]) \in V
    BY <1>1, TextFacts
  <1> HIDE DEF N
  <1>3. G \in [(1..N) \X V -> V]
    <2>1. \A n \in 1..N, t \in V : t \o Text(rs[n]) \in V
      BY <1>2, ConcatProperties
    <2> QED
      BY <2>1
  <1>4. \A n \in 1..N, t \in V : G[<<n, t>>] = t \o Text(rs[n])
    OBVIOUS
  <1>5. <<>> \in V
    OBVIOUS
  <1> HIDE DEF G, V
  <1>6. PICK h \in [0..N -> V] : RunOf(G, <<>>, N, h)
    BY <1>1, <1>3, <1>5, RunExists
  <1>7. \A n \in 1..N : n - 1 \in 0..N /\ h[n - 1] \in V
    BY <1>1
  <1>8. h[0] = <<>> /\ \A n \in 1..N : h[n] = h[n - 1] \o Text(rs[n])
    BY <1>4, <1>6, <1>7 DEF RunOf
  <1>9. ASSUME NEW n \in 0..N PROVE Texts(rs, n) = h[n]
    <2> DEFINE text[k \in 0..n] == IF k = 0 THEN <<>> ELSE text[k - 1] \o Text(rs[k])
               g == [k \in 0..n |-> h[k]]
    <2>1. Texts(rs, n) = text[n]
      BY DEF Texts
    <2>2. n \in Nat /\ \A k \in 0..n : k # 0 => k \in 1..N /\ k - 1 \in 0..n
      BY <1>1, <1>9
    <2>3. g = [k \in 0..n |-> IF k = 0 THEN <<>> ELSE g[k - 1] \o Text(rs[k])]
      <3>1. \A k \in 0..n : g[k] = h[k]
        OBVIOUS
      <3> HIDE DEF g
      <3>2. \A k \in 0..n : g[k] = IF k = 0 THEN <<>> ELSE g[k - 1] \o Text(rs[k])
        BY <1>8, <2>2, <3>1
      <3>3. g = [k \in 0..n |-> g[k]]
        BY DEF g
      <3> QED
        BY <3>2, <3>3, Zenon
    <2> HIDE DEF g
    <2>4. text = [k \in 0..n |-> IF k = 0 THEN <<>> ELSE text[k - 1] \o Text(rs[k])]
      BY <2>3, Zenon
    <2> HIDE DEF text
    <2>5. \A k \in 0..n : text[k] = IF k = 0 THEN <<>> ELSE text[k - 1] \o Text(rs[k])
      BY <2>4, Zenon
    <2> DEFINE S == {k \in 0..n : text[k] = h[k]}
    <2>6. 0 \in S
      BY <1>8, <2>2, <2>5
    <2>7. ASSUME NEW k \in 1..n, k - 1 \in S PROVE k \in S
      <3>1. text[k - 1] = h[k - 1] /\ k \in 0..n /\ k # 0
        BY <2>7
      <3>2. text[k] = text[k - 1] \o Text(rs[k])
        BY <2>5, <3>1
      <3>3. h[k] = h[k - 1] \o Text(rs[k])
        BY <1>8, <2>2, <3>1
      <3> QED
        BY <3>1, <3>2, <3>3
    <2> HIDE DEF S
    <2>8. 0..n \subseteq S
      BY <2>2, <2>6, <2>7, RangeInduction
    <2>9. n \in S
      BY <2>2, <2>8
    <2> QED
      BY <2>1, <2>9 DEF S
  <1>10. \A n \in 1..N : n \in 0..N
    OBVIOUS
  <1>11. 0 \in 0..N
    BY <1>1
  <1> QED
    BY <1>6, <1>7, <1>8, <1>9, <1>10, <1>11 DEF N, V

\* Where record i of rs is in the text.
Place(rs, i) == Len(Texts(rs, i - 1)) + 1
Whole(rs) == Texts(rs, Len(rs))

\* The records lie one after the other and leave nothing between them.
LEMMA Layout ==
    ASSUME NEW rs, SomeRecords(rs)
    PROVE  /\ Len(rs) \in Nat /\ Whole(rs) \in Seq(Characters) /\ Len(Whole(rs)) \in Nat
           /\ \A i \in 1..Len(rs) :
                 /\ ARecord(rs[i]) /\ Size(rs[i]) \in Nat /\ Size(rs[i]) >= 10
                 /\ Place(rs, i) \in Nat /\ Place(rs, i) >= 1
                 /\ Place(rs, i) + Size(rs[i]) + 1 <= Len(Whole(rs))
                 /\ \A k \in 1..(Size(rs[i]) + 2) :
                       Whole(rs)[Place(rs, i) + k - 1] = Text(rs[i])[k]
           /\ \A i, j \in 1..Len(rs) : i < j => Place(rs, i) + Size(rs[i]) + 2 <= Place(rs, j)
           /\ \A p \in 1..Len(Whole(rs)) : \E i \in 1..Len(rs) :
                 Place(rs, i) <= p /\ p <= Place(rs, i) + Size(rs[i]) + 1
  <1> DEFINE N == Len(rs)
             T(n) == Texts(rs, n)
             len(n) == Len(T(n))
             size(i) == Size(rs[i])
  <1>1. N \in Nat /\ \A i \in 1..N : ARecord(rs[i])
    BY DEF SomeRecords
  <1>2. \A i \in 1..N : size(i) \in Nat /\ size(i) >= 10
    <2>1. \A i \in 1..N : Len(rs[i].data) \in Nat
      BY <1>1, RawFacts, Constants DEF Bytes
    <2> QED
      BY <2>1 DEF Size
  <1>3. \A i \in 1..N : /\ Text(rs[i]) \in Seq(Characters)
                        /\ Len(Text(rs[i])) = size(i) + 2
    BY <1>1, TextFacts
  <1>4. \A n \in 0..N : T(n) \in Seq(Characters) /\ len(n) \in Nat
    BY TextsStep
  <1>5. T(0) = <<>> /\ len(0) = 0
    BY TextsStep
  <1>6. \A n \in 1..N : T(n) = T(n - 1) \o Text(rs[n])
    BY TextsStep
  <1>7. \A n \in 1..N : n - 1 \in 0..N /\ n \in 0..N
    BY <1>1
  <1> HIDE DEF N, T, size
  <1>8. ASSUME NEW n \in 1..N
        PROVE  /\ len(n) = len(n - 1) + size(n) + 2
               /\ \A p \in 1..len(n) :
                     T(n)[p] = IF p <= len(n - 1) THEN T(n - 1)[p] ELSE Text(rs[n])[p - len(n - 1)]
    <2>1. T(n - 1) \in Seq(Characters) /\ len(n - 1) \in Nat
      BY <1>4, <1>7
    <2>2. /\ Len(T(n - 1) \o Text(rs[n])) = Len(T(n - 1)) + Len(Text(rs[n]))
          /\ \A p \in 1..(Len(T(n - 1)) + Len(Text(rs[n]))) :
                (T(n - 1) \o Text(rs[n]))[p] = IF p <= Len(T(n - 1)) THEN T(n - 1)[p]
                                               ELSE Text(rs[n])[p - Len(T(n - 1))]
      BY <1>3, <2>1, ConcatProperties
    <2>3. T(n) = T(n - 1) \o Text(rs[n]) /\ Len(Text(rs[n])) = size(n) + 2
      BY <1>3, <1>6
    <2>4. Len(T(n)) = Len(T(n - 1)) + Len(Text(rs[n]))
      BY <2>2, <2>3
    <2>5. len(n) = len(n - 1) + size(n) + 2
      BY <1>2, <2>1, <2>3, <2>4
    <2>6. \A p \in 1..Len(T(n)) : T(n)[p] = IF p <= Len(T(n - 1)) THEN T(n - 1)[p]
                                            ELSE Text(rs[n])[p - Len(T(n - 1))]
      BY <2>2, <2>3, <2>4
    <2> QED
      BY <2>5, <2>6
  <1> HIDE DEF len
  <1>9. ASSUME NEW m \in 0..N
        PROVE  \A n \in 0..N : m <= n => /\ len(m) <= len(n)
                                         /\ \A p \in 1..len(m) : T(n)[p] = T(m)[p]
    <2> DEFINE S == {n \in 0..N : m <= n => /\ len(m) <= len(n)
                                            /\ \A p \in 1..len(m) : T(n)[p] = T(m)[p]}
    <2>1. 0 \in S
      <3>1. m <= 0 => m = 0
        BY <1>1
      <3> QED
        BY <1>1, <1>4, <3>1
    <2>2. ASSUME NEW n \in 1..N, n - 1 \in S PROVE n \in S
      <3>1. n \in 0..N /\ n - 1 \in 0..N
        BY <1>7
      <3>2. len(m) \in Nat /\ len(n) \in Nat /\ len(n - 1) \in Nat /\ size(n) \in Nat
        BY <1>2, <1>4, <3>1
      <3>3. CASE m <= n - 1
        <4>1. len(m) <= len(n - 1) /\ \A p \in 1..len(m) : T(n - 1)[p] = T(m)[p]
          BY <2>2, <3>3
        <4>2. len(n - 1) <= len(n)
          BY <1>8, <3>2
        <4>3. ASSUME NEW p \in 1..len(m) PROVE T(n)[p] = T(m)[p]
          <5>1. p \in 1..len(n) /\ p <= len(n - 1)
            BY <3>2, <4>1, <4>2
          <5>2. T(n)[p] = T(n - 1)[p]
            BY <1>8, <5>1
          <5> QED
            BY <4>1, <5>2
        <4> QED
          BY <3>1, <3>2, <4>1, <4>2, <4>3
      <3>4. CASE ~(m <= n - 1)
        <4>1. m <= n => m = n
          BY <1>1, <3>4
        <4> QED
          BY <3>1, <3>2, <4>1
      <3> QED
        BY <3>3, <3>4
    <2> HIDE DEF S
    <2>3. 0..N \subseteq S
      BY <1>1, <2>1, <2>2, RangeInduction
    <2> QED
      BY <2>3 DEF S
  <1>10. \A p \in 1..len(N) : \E i \in 1..N : len(i - 1) < p /\ p <= len(i - 1) + size(i) + 2
    <2> DEFINE S == {n \in 0..N : \A p \in 1..len(n) : \E i \in 1..n :
                        len(i - 1) < p /\ p <= len(i - 1) + size(i) + 2}
    <2>1. 0 \in S
      BY <1>1, <1>5
    <2>2. ASSUME NEW n \in 1..N, n - 1 \in S PROVE n \in S
      <3>1. n \in 0..N /\ n - 1 \in 0..N
        BY <1>7
      <3>2. len(n) \in Nat /\ len(n - 1) \in Nat /\ size(n) \in Nat
        BY <1>2, <1>4, <3>1
      <3>3. ASSUME NEW p \in 1..len(n)
            PROVE  \E i \in 1..n : len(i - 1) < p /\ p <= len(i - 1) + size(i) + 2
        <4>1. CASE p <= len(n - 1)
          <5>1. p \in 1..len(n - 1)
            BY <3>2, <4>1
          <5>2. PICK i \in 1..(n - 1) : len(i - 1) < p /\ p <= len(i - 1) + size(i) + 2
            BY <2>2, <5>1
          <5>3. i \in 1..n
            OBVIOUS
          <5> QED
            BY <5>2, <5>3
        <4>2. CASE ~(p <= len(n - 1))
          <5>1. n \in 1..n /\ len(n - 1) < p /\ p <= len(n - 1) + size(n) + 2
            BY <1>8, <3>2, <4>2
          <5> QED
            BY <5>1
        <4> QED
          BY <4>1, <4>2
      <3> QED
        BY <3>1, <3>3
    <2> HIDE DEF S
    <2>3. 0..N \subseteq S
      BY <1>1, <2>1, <2>2, RangeInduction
    <2>4. N \in S
      BY <1>1, <2>3
    <2> QED
      BY <2>4 DEF S
  <1>11. \A i : Place(rs, i) = len(i - 1) + 1
    BY DEF Place, len, T
  <1>12. Whole(rs) = T(N) /\ Len(Whole(rs)) = len(N) /\ N \in 0..N
    BY <1>1 DEF Whole, len, T, N
  <1>13. Whole(rs) \in Seq(Characters) /\ len(N) \in Nat
    BY <1>4, <1>12
  <1>14. ASSUME NEW i \in 1..N
         PROVE  /\ Place(rs, i) \in Nat /\ Place(rs, i) >= 1
                /\ Place(rs, i) + size(i) + 1 <= Len(Whole(rs))
                /\ \A k \in 1..(size(i) + 2) : Whole(rs)[Place(rs, i) + k - 1] = Text(rs[i])[k]
    <2>1. i \in 0..N /\ i - 1 \in 0..N /\ i <= N /\ i - 1 <= N
      BY <1>1, <1>7
    <2>2. len(i) \in Nat /\ len(i - 1) \in Nat /\ size(i) \in Nat
      BY <1>2, <1>4, <2>1
    <2>3. len(i) <= len(N) /\ \A p \in 1..len(i) : Whole(rs)[p] = T(i)[p]
      BY <1>9, <1>12, <2>1
    <2>4. len(i) = len(i - 1) + size(i) + 2
      BY <1>8
    <2>5. ASSUME NEW k \in 1..(size(i) + 2)
          PROVE  Whole(rs)[Place(rs, i) + k - 1] = Text(rs[i])[k]
      <3> DEFINE p == Place(rs, i) + k - 1
      <3>1. p = len(i - 1) + k /\ p \in 1..len(i) /\ ~(p <= len(i - 1)) /\ p - len(i - 1) = k
        BY <1>11, <2>2, <2>4
      <3> HIDE DEF p
      <3>2. Whole(rs)[p] = T(i)[p]
        BY <2>3, <3>1
      <3>3. T(i)[p] = Text(rs[i])[k]
        BY <1>8, <3>1
      <3> QED
        BY <3>2, <3>3 DEF p
    <2> QED
      BY <1>11, <1>12, <2>2, <2>3, <2>4, <2>5
  <1>15. ASSUME NEW i \in 1..N, NEW j \in 1..N, i < j
         PROVE  Place(rs, i) + size(i) + 2 <= Place(rs, j)
    <2>1. i \in 0..N /\ i - 1 \in 0..N /\ j - 1 \in 0..N /\ i <= j - 1
      BY <1>7, <1>15
    <2>2. len(i) \in Nat /\ len(i - 1) \in Nat /\ len(j - 1) \in Nat /\ size(i) \in Nat
      BY <1>2, <1>4, <2>1
    <2>3. len(i) <= len(j - 1)
      BY <1>9, <2>1
    <2>4. len(i) = len(i - 1) + size(i) + 2
      BY <1>8
    <2> QED
      BY <1>11, <2>2, <2>3, <2>4
  <1>16. \A p \in 1..Len(Whole(rs)) : \E i \in 1..N :
            Place(rs, i) <= p /\ p <= Place(rs, i) + size(i) + 1
    <2> TAKE p \in 1..Len(Whole(rs))
    <2>1. PICK i \in 1..N : len(i - 1) < p /\ p <= len(i - 1) + size(i) + 2
      BY <1>10, <1>12
    <2>2. len(i - 1) \in Nat /\ size(i) \in Nat /\ p \in Nat
      BY <1>2, <1>4, <1>7
    <2>3. Place(rs, i) <= p /\ p <= Place(rs, i) + size(i) + 1
      BY <1>11, <2>1, <2>2
    <2> QED
      BY <2>3
  <1> QED
    BY <1>1, <1>2, <1>12, <1>13, <1>14, <1>15, <1>16 DEF size, N

-----------------------------------------------------------------------------
(* The invariant *)

\* The value of the digits of the field read so far.
ValueOK ==
    /\ digits < IF ParseState = "START_OF_LINE" THEN 1 ELSE NumDigits[ParseState]
    /\ digits = 0 => value = 0
    /\ digits = 1 => value < BASE
    /\ digits = 2 => value < BYTE
    /\ digits = 3 => value < BYTE * BASE

\* The data read so far: a byte is started only where there is room for it.
DataOK ==
    /\ ParseState \in {"BYTE_COUNT", "ADDRESS", "RECORD_TYPE"} => Line.Data = <<>>
    /\ ParseState = "DATA" => Len(Line.Data) < Line.count
    /\ ParseState = "DATA" /\ digits = 1 /\ ~overrun => Len(Line.Data) < DataSize

\* The digits and the bytes of a text at b, as the parser reads them.
Hex(f, p) == HexDigitToDecimal(f[p])
ByteAt(f, b, j) == Hex(f, b + 2 * j - 1) * BASE + Hex(f, b + 2 * j)
BytesAt(f, b, n) == [j \in 1..n |-> ByteAt(f, b, j)]

\* The bytes of the line that were read before the field the parser is in.
BytesRead ==
    CASE ParseState = "BYTE_COUNT"  -> 0
      [] ParseState = "ADDRESS"     -> 1
      [] ParseState = "RECORD_TYPE" -> 3
      [] OTHER                      -> 4 + Len(Line.Data)

\* The parser is in record i and has in Line what the text says.
InRecord(i) ==
    /\ damage.at # Begin(i)
    /\ pos = Begin(i) + 2 * BytesRead + digits
    /\ digits = 1 => value = Hex(file, pos)
    /\ digits = 2 => value = Hex(file, pos - 1) * BASE + Hex(file, pos)
    /\ digits = 3 => value = (Hex(file, pos - 2) * BASE + Hex(file, pos - 1)) * BASE + Hex(file, pos)
    /\ BytesRead >= 1 => Line.count = Len(records[i].data)
    /\ BytesRead >= 3 => Line.address = ByteAt(file, Begin(i), 2) * BYTE + ByteAt(file, Begin(i), 3)
    /\ BytesRead >= 4 => Line.type = ByteAt(file, Begin(i), 4)
    /\ \A j \in 1..Len(Line.Data) : Line.Data[j] = ByteAt(file, Begin(i), j + 4)
    /\ ParseState = "CHECKSUM" => Len(Line.Data) = Len(records[i].data)
    /\ Line.Checksum = Sum(BytesAt(file, Begin(i), BytesRead))

\* Between the records, and in a record whose colon is damaged, the parser waits.
Waiting == \A i \in 1..Len(records) : Begin(i) <= pos /\ pos < End(i) => damage.at = Begin(i)

InPlace ==
    ~Misframed /\ ~overrun =>
        IF ParseState = "START_OF_LINE" THEN Waiting ELSE \E i \in 1..Len(records) : InRecord(i)

IInv == FileOfRecords /\ TypeOK /\ ValueOK /\ DataOK /\ InPlace

-----------------------------------------------------------------------------
(* Types *)

TypeInv == FileOfRecords /\ TypeOK /\ ValueOK /\ DataOK

Fields == {"BYTE_COUNT", "ADDRESS", "RECORD_TYPE", "DATA", "CHECKSUM"}

LEMMA FieldFacts ==
    /\ DOMAIN NumDigits = Fields
    /\ NumDigits["BYTE_COUNT"] = 2 /\ NumDigits["ADDRESS"] = 4 /\ NumDigits["RECORD_TYPE"] = 2
    /\ NumDigits["DATA"] = 2 /\ NumDigits["CHECKSUM"] = 2
  BY DEF NumDigits, Fields

LEMMA DigitRange == \A c \in Characters : HexDigitToDecimal(c) \in 0..(BASE - 1)
  BY Constants DEF HexDigitToDecimal, Characters

\* One more digit of a field.
LEMMA FieldRange ==
    ASSUME NEW v \in Nat, NEW d \in 0..(BASE - 1)
    PROVE  /\ v * BASE + d \in Nat
           /\ v = 0 => v * BASE + d < BASE
           /\ v < BASE => v * BASE + d < BYTE
           /\ v < BYTE => v * BASE + d < BYTE * BASE
           /\ v < BYTE * BASE => v * BASE + d < BYTE * BYTE
  <1>1. BASE \in Nat /\ BYTE \in Nat /\ BYTE = BASE * BASE /\ d \in Nat /\ d <= BASE - 1
    BY Constants
  <1>2. v * BASE \in Nat /\ BYTE * BASE \in Nat
    BY <1>1
  <1>3. ASSUME NEW m \in Nat, v < m PROVE v * BASE + d < m * BASE
    <2>1. v + 1 <= m
      BY <1>3
    <2>2. (v + 1) * BASE <= m * BASE
      BY <2>1, <1>1
    <2>3. (v + 1) * BASE = v * BASE + BASE /\ m * BASE \in Nat
      BY <1>1
    <2> QED
      BY <1>1, <1>2, <2>2, <2>3
  <1>4. (BYTE * BASE) * BASE = BYTE * BYTE
    BY <1>1
  <1>5. v = 0 => v * BASE + d < BASE
    BY <1>1
  <1>6. v < BYTE * BASE => v * BASE + d < (BYTE * BASE) * BASE
    BY <1>2, <1>3
  <1>7. v < BASE => v * BASE + d < BASE * BASE
    BY <1>1, <1>3
  <1>8. v < BYTE => v * BASE + d < BYTE * BASE
    BY <1>1, <1>3
  <1> QED
    BY <1>1, <1>2, <1>4, <1>5, <1>6, <1>7, <1>8

\* The character that is read next, and what it makes of the field.
LEMMA NextDigit ==
    ASSUME TypeInv, pos < Len(file)
    PROVE  /\ pos \in Nat /\ pos + 1 \in 1..Len(file) /\ pos + 1 \in 0..Len(file)
           /\ file[pos + 1] \in Characters
           /\ Hex(file, pos + 1) \in 0..(BASE - 1)
           /\ Field = value * BASE + Hex(file, pos + 1)
           /\ Field \in Nat
           /\ digits = 0 => Field < BASE
           /\ digits = 1 => Field < BYTE
           /\ digits = 2 => Field < BYTE * BASE
           /\ digits = 3 => Field < BYTE * BYTE
  <1>1. file \in Seq(Characters) /\ pos \in 0..Len(file) /\ value \in Nat
    BY DEF TypeInv, TypeOK, Addresses
  <1>2. pos \in Nat /\ pos + 1 \in 1..Len(file) /\ pos + 1 \in 0..Len(file) /\ file[pos + 1] \in Characters
    BY <1>1
  <1>3. Hex(file, pos + 1) \in 0..(BASE - 1)
    BY <1>2, DigitRange DEF Hex
  <1>4. Field = value * BASE + Hex(file, pos + 1)
    BY DEF Field, Hex
  <1>5. /\ digits = 0 => value = 0
        /\ digits = 1 => value < BASE
        /\ digits = 2 => value < BYTE
        /\ digits = 3 => value < BYTE * BASE
    BY DEF TypeInv, ValueOK
  <1> HIDE DEF TypeInv
  <1> QED
    BY <1>1, <1>2, <1>3, <1>4, <1>5, FieldRange

\* What a line holds.
Lines == [count : Bytes, address : Addresses, type : Bytes, Data : Seq(Bytes), Checksum : Bytes]
LineOK(l) == l \in Lines /\ Len(l.Data) <= IF l.count < DataSize THEN l.count ELSE DataSize

LEMMA TypeInvIs ==
    TypeInv <=>
        /\ FileOfRecords
        /\ file \in Seq(Characters)
        /\ pos \in 0..Len(file)
        /\ ParseState \in {"START_OF_LINE"} \cup Fields
        /\ digits \in 0..3
        /\ value \in Addresses
        /\ LineOK(Line)
        /\ Binary \in [0..(MaxSize - 1) -> Bytes]
        /\ TotalByteCount \in Nat
        /\ overrun \in BOOLEAN
        /\ ValueOK
        /\ DataOK
  <1>1. DOMAIN NumDigits = Fields
    BY FieldFacts
  <1> QED
    BY <1>1 DEF TypeInv, TypeOK, LineOK, Lines

\* The parts of the invariant after a step.
TypesNext(state) ==
    /\ ParseState' = state
    /\ state \in {"START_OF_LINE"} \cup Fields
    /\ digits' \in 0..3
    /\ value' \in Addresses
    /\ LineOK(Line')
    /\ Binary' \in [0..(MaxSize - 1) -> Bytes]
    /\ TotalByteCount' \in Nat
    /\ overrun' \in BOOLEAN
    /\ ValueOK'
    /\ DataOK'

LEMMA StepTypes ==
    ASSUME NEW state, TypeInv, Read, TypesNext(state)
    PROVE  TypeInv'
  <1>1. FileOfRecords' /\ file' \in Seq(Characters) /\ pos' \in 0..Len(file')
    <2>1. FileOfRecords /\ file \in Seq(Characters) /\ pos \in 0..Len(file)
      BY DEF TypeInv, TypeOK
    <2>2. file' = file /\ records' = records /\ damage' = damage /\ pos' = pos + 1 /\ pos < Len(file)
      BY DEF Read, fileVars
    <2>3. FileOfRecords'
      BY <2>1, <2>2 DEF FileOfRecords
    <2> QED
      BY <2>1, <2>2, <2>3
  <1>2. DOMAIN NumDigits = Fields
    BY FieldFacts
  <1> QED
    BY <1>1, <1>2 DEF TypesNext, TypeInv, TypeOK, LineOK, Lines

\* A finished field.
LEMMA LastDigitFacts ==
    ASSUME NEW state \in Fields, TypeInv, LastDigit(state)
    PROVE  /\ Read /\ ~overrun /\ ParseState = state
           /\ digits' = 0 /\ value' = 0
           /\ digits' \in 0..3 /\ value' \in Addresses
           /\ Field \in Nat
           /\ state = "ADDRESS" => Field \in Addresses
           /\ state # "ADDRESS" => Field \in Bytes
  <1>1. ParseState = state /\ digits = NumDigits[state] - 1 /\ Read /\ digits' = 0 /\ value' = 0
    BY DEF LastDigit
  <1>2. ~overrun /\ pos < Len(file)
    BY <1>1 DEF Read
  <1>3. Field \in Nat /\ (digits = 1 => Field < BYTE) /\ (digits = 3 => Field < BYTE * BYTE)
    BY <1>2, NextDigit
  <1>4. state = "ADDRESS" => digits = 3
    BY <1>1, FieldFacts
  <1>5. state # "ADDRESS" => digits = 1
    BY <1>1, FieldFacts DEF Fields
  <1> QED
    BY <1>1, <1>2, <1>3, <1>4, <1>5, Constants DEF Bytes, Addresses

LEMMA EmptyData == <<>> \in Seq(Bytes) /\ Len(<<>>) = 0
  OBVIOUS

LEMMA LineParts ==
    ASSUME LineOK(Line)
    PROVE  /\ Line \in Lines
           /\ Line.count \in Bytes /\ Line.count \in Nat /\ Line.address \in Addresses /\ Line.address \in Nat
           /\ Line.type \in Bytes /\ Line.Data \in Seq(Bytes) /\ Line.Checksum \in Bytes
           /\ Len(Line.Data) \in Nat /\ Len(Line.Data) <= Line.count /\ Len(Line.Data) <= DataSize
           /\ \A n \in Int : Add(n) \in Bytes
  <1>1. DataSize \in Nat
    BY HexAssumption
  <1>2. Line \in Lines /\ Len(Line.Data) <= IF Line.count < DataSize THEN Line.count ELSE DataSize
    BY DEF LineOK
  <1>3. Line.count \in Bytes /\ Line.address \in Addresses /\ Line.type \in Bytes
        /\ Line.Data \in Seq(Bytes) /\ Line.Checksum \in Bytes
    BY <1>2 DEF Lines
  <1>4. Line.count \in Nat /\ Line.address \in Nat /\ Line.Checksum \in Nat
    BY <1>3, Constants DEF Bytes, Addresses
  <1>5. Len(Line.Data) \in Nat
    BY <1>3
  <1>6. \A n \in Int : Add(n) \in Bytes
    BY <1>4, ByteRange DEF Add
  <1> QED
    BY <1>1, <1>2, <1>3, <1>4, <1>5, <1>6

LEMMA AddByte ==
    ASSUME LineOK(Line), NEW n \in Int
    PROVE  Add(n) \in Bytes
  BY LineParts

LEMMA StartOfLineTypes == TypeInv /\ StartOfLine => TypeInv'
  <1> SUFFICES ASSUME TypeInv, StartOfLine PROVE TypeInv'
    OBVIOUS
  <1>1. Read /\ ParseState = "START_OF_LINE" /\ UNCHANGED <<digits, value, imageVars, overrun>>
    BY DEF StartOfLine
  <1>2. ~overrun
    BY <1>1 DEF Read
  <1>3. digits = 0 /\ value = 0 /\ LineOK(Line)
    BY <1>1, TypeInvIs DEF ValueOK
  <1>4. CASE file[pos + 1] = Colon
    <2>1. Line' = NoLine /\ ParseState' = "BYTE_COUNT"
      BY <1>4 DEF StartOfLine
    <2>2. LineOK(Line') /\ Line'.Data = <<>>
      BY <2>1, EmptyData, Constants, HexAssumption DEF NoLine, LineOK, Lines
    <2>3. DataOK'
      BY <2>1, <2>2 DEF DataOK
    <2>4. ValueOK'
      BY <1>1, <1>3, <2>1, FieldFacts DEF ValueOK
    <2>5. TypesNext("BYTE_COUNT")
      BY <1>1, <2>1, <2>2, <2>3, <2>4, TypeInvIs DEF TypesNext, Fields, imageVars
    <2> QED
      BY <1>1, <2>5, StepTypes
  <1>5. CASE file[pos + 1] # Colon
    <2>1. Line' = Line /\ ParseState' = ParseState
      BY <1>5 DEF StartOfLine
    <2>2. DataOK'
      BY <1>1, <2>1 DEF DataOK
    <2>3. ValueOK'
      BY <1>1, <1>3, <2>1 DEF ValueOK
    <2>4. TypesNext("START_OF_LINE")
      BY <1>1, <1>3, <2>1, <2>2, <2>3, TypeInvIs DEF TypesNext, Fields, imageVars
    <2> QED
      BY <1>1, <2>4, StepTypes
  <1> QED
    BY <1>4, <1>5

LEMMA FirstDigitsTypes == TypeInv /\ FirstDigits => TypeInv'
  <1> SUFFICES ASSUME TypeInv, FirstDigits PROVE TypeInv'
    OBVIOUS
  <1>1. /\ ParseState # "START_OF_LINE" /\ digits < NumDigits[ParseState] - 1 /\ Read
        /\ digits' = digits + 1 /\ value' = Field
        /\ overrun' = (ParseState = "DATA" /\ Len(Line.Data) >= DataSize)
        /\ UNCHANGED <<ParseState, Line, imageVars>>
    BY DEF FirstDigits
  <1>2. ParseState \in Fields /\ digits \in 0..3 /\ LineOK(Line) /\ ValueOK /\ DataOK
    BY <1>1, TypeInvIs
  <1>3. NumDigits[ParseState] <= 4 /\ NumDigits[ParseState] \in Nat
    BY <1>2, FieldFacts DEF Fields
  <1>4. digits \in {0, 1, 2} /\ digits' \in {1, 2, 3} /\ digits' < NumDigits[ParseState]
    BY <1>1, <1>2, <1>3
  <1>5. /\ Field \in Nat
        /\ digits = 0 => Field < BASE
        /\ digits = 1 => Field < BYTE
        /\ digits = 2 => Field < BYTE * BASE
    BY <1>1, NextDigit DEF Read
  <1>6. BYTE * BASE <= BYTE * BYTE /\ BYTE * BASE \in Nat
    <2>1. BASE <= BYTE /\ BASE \in Nat /\ BYTE \in Nat
      BY Constants
    <2> QED
      BY <2>1
  <1>7. Field \in Addresses
    BY <1>4, <1>5, <1>6, Constants DEF Addresses
  <1>8. ValueOK'
    BY <1>1, <1>4, <1>5 DEF ValueOK
  <1>9. DataSize \in Nat /\ Len(Line.Data) \in Nat
    BY <1>2, LineParts, HexAssumption
  <1>10. DataOK'
    <2>1. ParseState = "DATA" /\ ~overrun' => Len(Line.Data) < DataSize
      <3>1. ASSUME ParseState = "DATA", Len(Line.Data) >= DataSize PROVE overrun'
        BY <1>1, <3>1
      <3> QED
        BY <1>9, <3>1
    <2>2. ParseState' = ParseState /\ Line' = Line
      BY <1>1
    <2> QED
      BY <1>2, <2>1, <2>2 DEF DataOK
  <1>11. TypesNext(ParseState)
    BY <1>1, <1>2, <1>4, <1>7, <1>8, <1>10, TypeInvIs DEF TypesNext, imageVars
  <1> QED
    BY <1>1, <1>11, StepTypes

LEMMA ByteCountTypes == TypeInv /\ ByteCount => TypeInv'
  <1> SUFFICES ASSUME TypeInv, ByteCount PROVE TypeInv'
    OBVIOUS
  <1>1. /\ LastDigit("BYTE_COUNT") /\ ParseState' = "ADDRESS" /\ UNCHANGED <<imageVars, overrun>>
        /\ Line' = [Line EXCEPT !.count = Field, !.Checksum = Add(Field)]
    BY DEF ByteCount
  <1>2. "BYTE_COUNT" \in Fields /\ "ADDRESS" \in Fields
    BY DEF Fields
  <1>3. Read /\ ParseState = "BYTE_COUNT" /\ digits' = 0 /\ value' = 0 /\ value' \in Addresses /\ Field \in Bytes
    BY <1>1, <1>2, LastDigitFacts
  <1>4. LineOK(Line) /\ DataOK
    BY TypeInvIs
  <1>5. Line.Data = <<>> /\ Field \in Nat /\ Line \in Lines
    BY <1>1, <1>2, <1>3, <1>4, LastDigitFacts, LineParts DEF DataOK
  <1>6. LineOK(Line') /\ Line'.Data = <<>>
    <2>1. Add(Field) \in Bytes
      BY <1>4, <1>5, AddByte
    <2>2. Line' \in Lines /\ Line'.Data = <<>> /\ Line'.count = Field
      BY <1>1, <1>3, <1>5, <2>1 DEF Lines
    <2>3. DataSize \in Nat
      BY HexAssumption
    <2> QED
      BY <1>5, <2>2, <2>3, EmptyData DEF LineOK
  <1>7. ValueOK' /\ DataOK'
    BY <1>1, <1>3, <1>6, FieldFacts DEF ValueOK, DataOK
  <1>8. TypesNext("ADDRESS")
    BY <1>1, <1>2, <1>3, <1>6, <1>7, TypeInvIs DEF TypesNext, imageVars
  <1> QED
    BY <1>3, <1>8, StepTypes

LEMMA AddressTypes == TypeInv /\ Address => TypeInv'
  <1> SUFFICES ASSUME TypeInv, Address PROVE TypeInv'
    OBVIOUS
  <1>1. /\ LastDigit("ADDRESS") /\ ParseState' = "RECORD_TYPE" /\ UNCHANGED <<imageVars, overrun>>
        /\ Line' = [Line EXCEPT !.address = Field, !.Checksum = Add((Field \div BYTE) + Field)]
    BY DEF Address
  <1>2. "ADDRESS" \in Fields /\ "RECORD_TYPE" \in Fields
    BY DEF Fields
  <1>3. Read /\ ParseState = "ADDRESS" /\ digits' = 0 /\ value' = 0 /\ value' \in Addresses /\ Field \in Addresses
    BY <1>1, <1>2, LastDigitFacts
  <1>4. LineOK(Line) /\ DataOK
    BY TypeInvIs
  <1>5. Line.Data = <<>>
    BY <1>3, <1>4 DEF DataOK
  <1>6. Add((Field \div BYTE) + Field) \in Bytes
    <2>1. Field \in Nat /\ BYTE \in Nat /\ BYTE > 0
      BY <1>3, Constants DEF Addresses
    <2>2. (Field \div BYTE) + Field \in Int
      BY <2>1
    <2> QED
      BY <1>4, <2>2, LineParts
  <1>7. LineOK(Line') /\ Line'.Data = <<>>
    BY <1>1, <1>3, <1>4, <1>5, <1>6, EmptyData DEF LineOK, Lines
  <1>8. ValueOK' /\ DataOK'
    BY <1>1, <1>3, <1>7, FieldFacts DEF ValueOK, DataOK
  <1>9. TypesNext("RECORD_TYPE")
    BY <1>1, <1>2, <1>3, <1>7, <1>8, TypeInvIs DEF TypesNext, imageVars
  <1> QED
    BY <1>3, <1>9, StepTypes

LEMMA RecordTypeTypes == TypeInv /\ RecordType => TypeInv'
  <1> SUFFICES ASSUME TypeInv, RecordType PROVE TypeInv'
    OBVIOUS
  <1>1. /\ LastDigit("RECORD_TYPE") /\ UNCHANGED <<imageVars, overrun>>
        /\ Line' = [Line EXCEPT !.type = Field, !.Checksum = Add(Field)]
        /\ ParseState' = IF Line.count > 0 THEN "DATA" ELSE "CHECKSUM"
    BY DEF RecordType
  <1>2. "RECORD_TYPE" \in Fields /\ "DATA" \in Fields /\ "CHECKSUM" \in Fields
    BY DEF Fields
  <1>3. Read /\ ParseState = "RECORD_TYPE" /\ digits' = 0 /\ value' = 0 /\ value' \in Addresses /\ Field \in Bytes
    BY <1>1, <1>2, LastDigitFacts
  <1>4. LineOK(Line) /\ DataOK
    BY TypeInvIs
  <1>5. Line.Data = <<>> /\ Line.count \in Nat /\ Add(Field) \in Bytes
    <2>1. Field \in Int
      BY <1>1, <1>2, LastDigitFacts
    <2>2. Add(Field) \in Bytes
      BY <1>4, <2>1, AddByte
    <2> QED
      BY <1>3, <1>4, <2>2, LineParts DEF DataOK
  <1>6. LineOK(Line') /\ Line'.Data = <<>> /\ Line'.count = Line.count
    BY <1>1, <1>3, <1>4, <1>5, EmptyData DEF LineOK, Lines
  <1>7. ParseState' \in {"DATA", "CHECKSUM"} /\ (ParseState' = "DATA" => Line.count > 0)
    BY <1>1
  <1>8. ValueOK'
    BY <1>3, <1>7, FieldFacts DEF ValueOK
  <1>9. DataOK'
    BY <1>3, <1>5, <1>6, <1>7, EmptyData DEF DataOK
  <1>10. TypesNext(ParseState')
    BY <1>1, <1>2, <1>3, <1>6, <1>7, <1>8, <1>9, TypeInvIs DEF TypesNext, imageVars
  <1> QED
    BY <1>3, <1>10, StepTypes

LEMMA DataByteTypes == TypeInv /\ DataByte => TypeInv'
  <1> SUFFICES ASSUME TypeInv, DataByte PROVE TypeInv'
    OBVIOUS
  <1>1. /\ LastDigit("DATA") /\ UNCHANGED <<imageVars, overrun>>
        /\ Line' = [Line EXCEPT !.Data = Append(@, Field), !.Checksum = Add(Field)]
        /\ ParseState' = IF Len(Line'.Data) >= Line.count THEN "CHECKSUM" ELSE "DATA"
    BY DEF DataByte
  <1>2. "DATA" \in Fields /\ "CHECKSUM" \in Fields
    BY DEF Fields
  <1>3. /\ Read /\ ~overrun /\ ParseState = "DATA" /\ digits' = 0 /\ value' = 0 /\ value' \in Addresses
        /\ Field \in Bytes /\ digits = 1
    BY <1>1, <1>2, LastDigitFacts, FieldFacts DEF LastDigit
  <1>4. LineOK(Line) /\ DataOK
    BY TypeInvIs
  <1>5. Len(Line.Data) < Line.count /\ Len(Line.Data) < DataSize
    BY <1>3, <1>4 DEF DataOK
  <1>6. /\ Line \in Lines /\ Line.Data \in Seq(Bytes) /\ Len(Line.Data) \in Nat /\ Line.count \in Nat
        /\ Add(Field) \in Bytes /\ DataSize \in Nat
    <2>1. Field \in Int
      BY <1>1, <1>2, LastDigitFacts
    <2>2. Add(Field) \in Bytes
      BY <1>4, <2>1, AddByte
    <2>3. DataSize \in Nat
      BY HexAssumption
    <2> QED
      BY <1>4, <2>2, <2>3, LineParts
  <1>7. Append(Line.Data, Field) \in Seq(Bytes) /\ Len(Append(Line.Data, Field)) = Len(Line.Data) + 1
    BY <1>3, <1>6
  <1>8. Line'.Data = Append(Line.Data, Field) /\ Line'.count = Line.count /\ Line' \in Lines
    BY <1>1, <1>3, <1>6, <1>7 DEF Lines
  <1>9. LineOK(Line')
    BY <1>5, <1>6, <1>7, <1>8 DEF LineOK
  <1>10. ParseState' \in {"DATA", "CHECKSUM"} /\ (ParseState' = "DATA" => Len(Line'.Data) < Line'.count)
    BY <1>1, <1>6, <1>7, <1>8
  <1>11. ValueOK'
    BY <1>3, <1>10, FieldFacts DEF ValueOK
  <1>12. DataOK'
    BY <1>3, <1>10 DEF DataOK
  <1>13. TypesNext(ParseState')
    BY <1>1, <1>2, <1>3, <1>9, <1>10, <1>11, <1>12, TypeInvIs DEF TypesNext, imageVars
  <1> QED
    BY <1>3, <1>13, StepTypes

LEMMA OverlayType ==
    ASSUME NEW image \in [0..(MaxSize - 1) -> Bytes], NEW first \in Int, NEW data \in Seq(Bytes)
    PROVE  Overlay(image, first, data) \in [0..(MaxSize - 1) -> Bytes]
  <1>1. \A a \in 0..(MaxSize - 1) : a - first \in 0..(Len(data) - 1) => a - first + 1 \in 1..Len(data)
    BY HexAssumption
  <1>2. \A a \in 0..(MaxSize - 1) : a - first \in 0..(Len(data) - 1) => data[a - first + 1] \in Bytes
    BY <1>1
  <1> QED
    BY <1>2 DEF Overlay

LEMMA LineChecksumTypes == TypeInv /\ LineChecksum => TypeInv'
  <1> SUFFICES ASSUME TypeInv, LineChecksum PROVE TypeInv'
    OBVIOUS
  <1>1. LastDigit("CHECKSUM") /\ ParseState' = "START_OF_LINE" /\ UNCHANGED Line
    BY DEF LineChecksum
  <1>2. "CHECKSUM" \in Fields
    BY DEF Fields
  <1>3. Read /\ digits' = 0 /\ value' = 0 /\ value' \in Addresses
    BY <1>1, <1>2, LastDigitFacts
  <1>4. LineOK(Line) /\ Binary \in [0..(MaxSize - 1) -> Bytes] /\ TotalByteCount \in Nat /\ overrun \in BOOLEAN
    BY TypeInvIs
  <1>5. Binary' \in [0..(MaxSize - 1) -> Bytes] /\ TotalByteCount' \in Nat /\ overrun' \in BOOLEAN
    <2>1. CASE Accepted(Field)
      <3> DEFINE addr == Line.address - APPLICATION_DATA_START
      <3>1. /\ Binary' = Overlay(Binary, addr, Line.Data)
            /\ TotalByteCount' = TotalByteCount + Line.count
            /\ overrun' = (addr + Line.count > MaxSize)
        BY <2>1 DEF LineChecksum
      <3>2. addr \in Int /\ Line.Data \in Seq(Bytes) /\ Line.count \in Nat
        BY <1>4, LineParts, HexAssumption DEF Addresses
      <3> HIDE DEF addr
      <3> QED
        BY <1>4, <3>1, <3>2, OverlayType
    <2>2. CASE ~Accepted(Field)
      BY <1>4, <2>2 DEF LineChecksum, imageVars
    <2> QED
      BY <2>1, <2>2
  <1>6. ValueOK' /\ DataOK'
    BY <1>1, <1>3 DEF ValueOK, DataOK
  <1>7. TypesNext("START_OF_LINE")
    BY <1>1, <1>3, <1>4, <1>5, <1>6 DEF TypesNext
  <1> QED
    BY <1>3, <1>7, StepTypes

LEMMA TypeInvInit == Init => TypeInv
  <1> SUFFICES ASSUME Init PROVE TypeInv
    OBVIOUS
  <1>1. FileOfRecords
    BY DEF Init
  <1>2. file \in Seq(Characters)
    <2>1. SomeRecords(records)
      BY <1>1, RecordsOfAFile DEF FileOfRecords
    <2>2. Whole(records) \in Seq(Characters)
      BY <2>1, Layout
    <2>3. \A at \in 1..Len(Whole(records)), c \in Characters : [Whole(records) EXCEPT ![at] = c] \in Seq(Characters)
      BY <2>2
    <2> QED
      BY <1>1, <2>2, <2>3 DEF FileOfRecords, Whole
  <1>3. LineOK(Line)
    BY EmptyData, Constants, HexAssumption DEF Init, NoLine, LineOK, Lines
  <1>4. Binary \in [0..(MaxSize - 1) -> Bytes]
    BY Constants DEF Init, NoImage
  <1>5. ValueOK /\ DataOK
    BY DEF Init, ValueOK, DataOK
  <1>6. 0 \in 0..Len(file)
    BY <1>2
  <1>7. /\ pos = 0 /\ ParseState = "START_OF_LINE" /\ digits = 0 /\ value = 0
        /\ TotalByteCount = 0 /\ overrun = FALSE
    BY DEF Init
  <1>8. value \in Addresses
    BY <1>7, Constants
  <1>9. /\ pos \in 0..Len(file) /\ ParseState \in {"START_OF_LINE"} \cup Fields
        /\ digits \in 0..3 /\ TotalByteCount \in Nat
    BY <1>6, <1>7
  <1>10. overrun \in BOOLEAN
    BY <1>7
  <1> QED
    BY <1>1, <1>2, <1>3, <1>4, <1>5, <1>8, <1>9, <1>10, TypeInvIs, Zenon

LEMMA TypeInvStutter == TypeInv /\ UNCHANGED hexVars => TypeInv'
  BY DEF TypeInv, FileOfRecords, TypeOK, ValueOK, DataOK, hexVars, fileVars, imageVars

LEMMA TypeInvNext == TypeInv /\ [ParseHexFile]_hexVars => TypeInv'
  BY StartOfLineTypes, FirstDigitsTypes, ByteCountTypes, AddressTypes, RecordTypeTypes,
     DataByteTypes, LineChecksumTypes, TypeInvStutter DEF ParseHexFile

\* The parser's variables have their types whatever the file: no value is larger
\* than the digits of its field can make it, a line holds no more data than its count
\* says or than Data has room for.
THEOREM TypeCorrect == Spec => []TypeOK
  <1>1. TypeInv => TypeOK
    BY DEF TypeInv
  <1> QED
    BY <1>1, TypeInvInit, TypeInvNext, PTL DEF Spec

-----------------------------------------------------------------------------
(* The file that was written from the records *)

LEMMA DataLength ==
    ASSUME NEW r, ARecord(r)
    PROVE  Len(r.data) \in Nat /\ Len(r.data) < BYTE
  BY RawFacts, Constants DEF ARecord, Bytes

LEMMA FileFacts ==
    ASSUME FileOfRecords
    PROVE  /\ SomeRecords(records) /\ Len(records) \in Nat
           /\ file \in Seq(Characters) /\ Len(file) \in Nat /\ Len(file) = Len(Whole(records))
           /\ damage.at \in 0..Len(file)
           /\ \A p \in 1..Len(file) : p # damage.at => file[p] = Whole(records)[p]
           /\ damage.at # 0 => /\ file[damage.at] # damage.was
                               /\ damage.was = Whole(records)[damage.at]
  <1> DEFINE text == Whole(records)
  <1>1. SomeRecords(records)
    BY RecordsOfAFile DEF FileOfRecords
  <1>2. text \in Seq(Characters) /\ Len(text) \in Nat /\ Len(records) \in Nat
    BY <1>1, Layout
  <1>3. \/ damage = [at |-> 0, was |-> 0] /\ file = text
        \/ \E at \in 1..Len(text) : \E c \in Characters \ {text[at]} :
              damage = [at |-> at, was |-> text[at]] /\ file = [text EXCEPT ![at] = c]
    BY DEF FileOfRecords, Whole
  <1> HIDE DEF text
  <1>4. CASE damage = [at |-> 0, was |-> 0] /\ file = text
    BY <1>1, <1>2, <1>4 DEF text
  <1>5. ASSUME NEW at \in 1..Len(text), NEW c \in Characters \ {text[at]},
               damage = [at |-> at, was |-> text[at]], file = [text EXCEPT ![at] = c]
        PROVE  /\ file \in Seq(Characters) /\ Len(file) = Len(text)
               /\ damage.at \in 0..Len(file)
               /\ \A p \in 1..Len(file) : p # damage.at => file[p] = text[p]
               /\ damage.at # 0 => /\ file[damage.at] # damage.was
                                   /\ damage.was = text[damage.at]
    <2>1. damage.at = at /\ damage.was = text[at]
      BY <1>5
    <2>2. file \in Seq(Characters) /\ Len(file) = Len(text)
      BY <1>2, <1>5
    <2>3. file[at] = c /\ \A p \in 1..Len(text) : p # at => file[p] = text[p]
      BY <1>2, <1>5
    <2> QED
      BY <1>2, <2>1, <2>2, <2>3
  <1> QED
    BY <1>1, <1>2, <1>3, <1>4, <1>5 DEF text

LEMMA RecordFacts ==
    ASSUME FileOfRecords, NEW i \in 1..Len(records)
    PROVE  /\ ARecord(records[i]) /\ Len(records[i].data) \in Nat
           /\ Begin(i) \in Nat /\ Begin(i) >= 1 /\ End(i) \in Nat
           /\ End(i) = Begin(i) + 2 * (Len(records[i].data) + 5)
           /\ End(i) + 1 <= Len(file)
           /\ damage.at # Begin(i) <=> file[Begin(i)] = Colon
           /\ \A k \in 1..(2 * (Len(records[i].data) + 5)) :
                 /\ file[Begin(i) + k] \in Characters
                 /\ damage.at # Begin(i) + k => /\ file[Begin(i) + k] = Text(records[i])[k + 1]
                                                /\ file[Begin(i) + k] \in 0..(BASE - 1)
                 /\ damage.at = Begin(i) + k => damage.was = Text(records[i])[k + 1]
           /\ damage.at # End(i) + 1 => file[End(i) + 1] = EndOfLine
  <1> DEFINE rs == records
             r == records[i]
             b == Begin(i)
             n == 2 * (Len(r.data) + 5)
  <1>1. SomeRecords(rs)
    BY FileFacts
  <1>2. ARecord(r) /\ Size(r) \in Nat /\ Size(r) >= 10
        /\ Place(rs, i) \in Nat /\ Place(rs, i) >= 1 /\ Place(rs, i) + Size(r) + 1 <= Len(Whole(rs))
        /\ \A k \in 1..(Size(r) + 2) : Whole(rs)[Place(rs, i) + k - 1] = Text(r)[k]
    BY <1>1, Layout
  <1>3. b = Place(rs, i) /\ Size(r) = n /\ End(i) = b + n
    BY DEF Begin, Place, End, Size
  <1>4. Len(r.data) \in Nat
    BY <1>2, DataLength
  <1>5. /\ file \in Seq(Characters) /\ Len(file) = Len(Whole(rs)) /\ Len(file) \in Nat
        /\ \A p \in 1..Len(file) : p # damage.at => file[p] = Whole(rs)[p]
        /\ damage.at # 0 => damage.was = Whole(rs)[damage.at] /\ file[damage.at] # damage.was
    BY FileFacts
  <1>14. /\ \A p \in 1..Len(file) : p # damage.at => file[p] = Whole(rs)[p]
         /\ \A p \in 1..Len(file) : p = damage.at => damage.was = Whole(rs)[p] /\ file[p] # damage.was
    <2>1. ASSUME NEW p \in 1..Len(file), p = damage.at
          PROVE  damage.was = Whole(rs)[p] /\ file[p] # damage.was
      <3>1. p # 0
        OBVIOUS
      <3> QED
        BY <1>5, <2>1, <3>1
    <2>2. \A p \in 1..Len(file) : p # damage.at => file[p] = Whole(rs)[p]
      BY <1>5
    <2> QED
      BY <2>1, <2>2
  <1>6. Text(r)[1] = Colon /\ Text(r)[n + 2] = EndOfLine
        /\ \A k \in 1..n : Text(r)[k + 1] \in 0..(BASE - 1)
    BY <1>2, <1>3, TextFacts
  <1> HIDE DEF b, n, r, rs
  <1>7. b \in Nat /\ b >= 1 /\ n \in Nat /\ b + n + 1 <= Len(file)
    BY <1>2, <1>3, <1>5
  <1>8. \A k \in 0..(n + 1) : b + k \in 1..Len(file) /\ Whole(rs)[b + k] = Text(r)[k + 1]
    <2> TAKE k \in 0..(n + 1)
    <2>1. k + 1 \in 1..(n + 2) /\ b + (k + 1) - 1 = b + k /\ b + k \in 1..Len(file)
      BY <1>7
    <2> QED
      BY <1>2, <1>3, <2>1
  <1>9. \A q \in 0..(n + 1), p \in Nat : p = b + q /\ damage.at # p => file[p] = Text(r)[q + 1]
    BY <1>8, <1>14
  <1>10. damage.at # b <=> file[b] = Colon
    <2>1. 0 \in 0..(n + 1) /\ b = b + 0 /\ 0 + 1 = 1
      BY <1>7
    <2>2. damage.at # b => file[b] = Text(r)[0 + 1]
      BY <1>7, <1>9, <2>1
    <2>3. b \in 1..Len(file) /\ Whole(rs)[b] = Text(r)[1]
      BY <1>7, <1>8, <2>1
    <2>4. damage.at = b => file[b] # Text(r)[1]
      BY <1>14, <2>3
    <2> QED
      BY <1>6, <2>1, <2>2, <2>4
  <1>12. damage.at # (b + n) + 1 => file[(b + n) + 1] = EndOfLine
    <2>1. n + 1 \in 0..(n + 1) /\ (b + n) + 1 = b + (n + 1) /\ (b + n) + 1 \in Nat /\ (n + 1) + 1 = n + 2
      BY <1>7
    <2>2. damage.at # (b + n) + 1 => file[(b + n) + 1] = Text(r)[(n + 1) + 1]
      BY <1>9, <2>1
    <2> QED
      BY <1>6, <2>1, <2>2
  <1>13. ASSUME NEW k \in 1..n
         PROVE  /\ file[b + k] \in Characters
                /\ damage.at # b + k => file[b + k] = Text(r)[k + 1] /\ file[b + k] \in 0..(BASE - 1)
                /\ damage.at = b + k => damage.was = Text(r)[k + 1]
    <2>1. k \in 0..(n + 1)
      BY <1>7
    <2>2. b + k \in 1..Len(file) /\ Whole(rs)[b + k] = Text(r)[k + 1] /\ b + k # 0
      BY <1>8, <2>1
    <2>3. damage.at # b + k => file[b + k] = Text(r)[k + 1]
      BY <1>14, <2>2
    <2>4. damage.at = b + k => damage.was = Text(r)[k + 1]
      BY <1>14, <2>2
    <2>5. file[b + k] \in Characters
      BY <1>5, <2>2
    <2> QED
      BY <1>6, <2>3, <2>4, <2>5
  <1>15. /\ ARecord(r) /\ Len(r.data) \in Nat /\ b \in Nat /\ b >= 1 /\ End(i) \in Nat
         /\ End(i) = b + n /\ End(i) + 1 <= Len(file)
         /\ damage.at # End(i) + 1 => file[End(i) + 1] = EndOfLine
    <2>1. End(i) = b + n
      BY <1>3
    <2>2. End(i) \in Nat /\ End(i) + 1 = (b + n) + 1
      BY <1>7, <2>1
    <2>3. End(i) + 1 <= Len(file)
      BY <1>5, <1>7, <2>2
    <2>4. damage.at # End(i) + 1 => file[End(i) + 1] = EndOfLine
      BY <1>12, <2>2, Zenon
    <2>5. ARecord(r) /\ Len(r.data) \in Nat /\ b \in Nat /\ b >= 1
      BY <1>2, <1>4, <1>7, Zenon
    <2> QED
      BY <2>1, <2>2, <2>3, <2>4, <2>5, Zenon
  <1>16. \A k \in 1..n :
            /\ file[b + k] \in Characters
            /\ damage.at # b + k => file[b + k] = Text(r)[k + 1] /\ file[b + k] \in 0..(BASE - 1)
            /\ damage.at = b + k => damage.was = Text(r)[k + 1]
    BY <1>13, Zenon
  <1> QED
    BY <1>10, <1>15, <1>16, Zenon DEF b, n, r

LEMMA Apart ==
    ASSUME FileOfRecords, NEW i \in 1..Len(records), NEW j \in 1..Len(records), i < j
    PROVE  End(i) + 2 <= Begin(j)
  <1>1. SomeRecords(records)
    BY FileFacts
  <1>2. Place(records, i) + Size(records[i]) + 2 <= Place(records, j)
    BY <1>1, Layout
  <1> QED
    BY <1>2 DEF Begin, End, Place, Size

\* A parser that waits takes nothing but the colon that starts a record for one.
LEMMA ColonStarts ==
    ASSUME FileOfRecords, ~Misframed, Waiting, pos \in Nat, pos + 1 \in 1..Len(file), file[pos + 1] = Colon
    PROVE  \E i \in 1..Len(records) : pos + 1 = Begin(i) /\ damage.at # pos + 1
  <1> DEFINE p == pos + 1
  <1>1. SomeRecords(records) /\ Len(file) = Len(Whole(records))
    BY FileFacts
  <1>2. PICK i \in 1..Len(records) :
            Place(records, i) <= p /\ p <= Place(records, i) + Size(records[i]) + 1
    BY <1>1, Layout
  <1>3. Begin(i) <= p /\ p <= End(i) + 1
    BY <1>2 DEF Begin, End, Place, Size
  <1>4. /\ Begin(i) \in Nat /\ End(i) = Begin(i) + 2 * (Len(records[i].data) + 5) /\ End(i) \in Nat
        /\ Len(records[i].data) \in Nat /\ p \in Nat
    BY RecordFacts
  <1>5. CASE p = Begin(i)
    <2>1. damage.at # p
      BY <1>5, RecordFacts
    <2> QED
      BY <1>5, <2>1
  <1>6. CASE p = End(i) + 1
    <2>1. damage.at # p
      BY <1>6 DEF Misframed, EndOfLineIsColon
    <2>2. file[p] = EndOfLine
      BY <1>6, <2>1, RecordFacts
    <2> QED
      BY <2>2, Constants DEF Colon, EndOfLine
  <1>7. CASE p # Begin(i) /\ p # End(i) + 1
    <2> DEFINE b == Begin(i)
               e == End(i)
               l == Len(records[i].data)
    <2>1. /\ p - Begin(i) \in 1..(2 * (Len(records[i].data) + 5)) /\ Begin(i) + (p - Begin(i)) = p
          /\ Begin(i) <= pos /\ pos < End(i) /\ p # Begin(i)
      <3>1. b \in Nat /\ l \in Nat /\ e = b + 2 * (l + 5) /\ b <= p /\ p <= e + 1 /\ p \in Nat
            /\ p # b /\ p # e + 1 /\ pos \in Nat /\ p = pos + 1
        BY <1>3, <1>4, <1>7
      <3> HIDE DEF b, e, l, p
      <3>2. p - b \in 1..(2 * (l + 5)) /\ b + (p - b) = p /\ b <= pos /\ pos < e
        BY <3>1
      <3> QED
        BY <3>1, <3>2 DEF b, l, e, p
    <2>2. damage.at # p
      BY <2>1 DEF Waiting
    <2>3. file[p] \in 0..(BASE - 1)
      BY <2>1, <2>2, RecordFacts
    <2> QED
      BY <2>3, Constants DEF Colon
  <1> QED
    BY <1>5, <1>6, <1>7

\* A byte of a record is read as it was written, unless one of its digits is damaged.
LEMMA ByteFacts ==
    ASSUME FileOfRecords, NEW i \in 1..Len(records), NEW j \in 1..(Len(records[i].data) + 5)
    PROVE  /\ ByteAt(file, Begin(i), j) \in Bytes
           /\ Hex(file, Begin(i) + 2 * j - 1) \in 0..(BASE - 1)
           /\ Hex(file, Begin(i) + 2 * j) \in 0..(BASE - 1)
           /\ Raw(records[i])[j] = Text(records[i])[2 * j] * BASE + Text(records[i])[2 * j + 1]
           /\ damage.at # Begin(i) + 2 * j - 1 => Hex(file, Begin(i) + 2 * j - 1) = Text(records[i])[2 * j]
           /\ damage.at # Begin(i) + 2 * j => Hex(file, Begin(i) + 2 * j) = Text(records[i])[2 * j + 1]
           /\ damage.at # Begin(i) + 2 * j - 1 /\ damage.at # Begin(i) + 2 * j =>
                 ByteAt(file, Begin(i), j) = Raw(records[i])[j]
  <1> DEFINE n == 2 * (Len(records[i].data) + 5)
             b == Begin(i)
  <1>1. ARecord(records[i]) /\ b \in Nat /\ Len(records[i].data) \in Nat
    BY RecordFacts
  <1>2. \A k \in 1..n : /\ file[b + k] \in Characters
                        /\ damage.at # b + k => /\ file[b + k] = Text(records[i])[k + 1]
                                                /\ file[b + k] \in 0..(BASE - 1)
    BY RecordFacts
  <1>3. 2 * j - 1 \in 1..n /\ 2 * j \in 1..n /\ (2 * j - 1) + 1 = 2 * j /\ b + (2 * j - 1) = b + 2 * j - 1
    BY <1>1
  <1> HIDE DEF n, b
  <1>4. \A c \in 0..(BASE - 1) : HexDigitToDecimal(c) = c
    BY Constants DEF HexDigitToDecimal
  <1>5. Hex(file, b + 2 * j - 1) \in 0..(BASE - 1) /\ Hex(file, b + 2 * j) \in 0..(BASE - 1)
    BY <1>2, <1>3, DigitRange DEF Hex
  <1>6. damage.at # b + 2 * j - 1 => Hex(file, b + 2 * j - 1) = Text(records[i])[2 * j]
    BY <1>2, <1>3, <1>4 DEF Hex
  <1>7. damage.at # b + 2 * j => Hex(file, b + 2 * j) = Text(records[i])[2 * j + 1]
    BY <1>2, <1>3, <1>4 DEF Hex
  <1>8. Text(records[i])[2 * j] * BASE + Text(records[i])[2 * j + 1] = Raw(records[i])[j]
    BY <1>1, TextFacts
  <1>9. ByteAt(file, b, j) \in Bytes
    <2> DEFINE x == Hex(file, b + 2 * j - 1)
               y == Hex(file, b + 2 * j)
    <2>1. x \in Nat /\ x < BASE /\ y \in 0..(BASE - 1)
      BY <1>5, Constants
    <2> HIDE DEF x, y
    <2>2. x * BASE + y \in Nat /\ x * BASE + y < BYTE
      BY <2>1, FieldRange
    <2> QED
      BY <2>2, Constants DEF ByteAt, Bytes, x, y
  <1> QED
    BY <1>5, <1>6, <1>7, <1>8, <1>9 DEF b, ByteAt

-----------------------------------------------------------------------------
(* The sum of the bytes that were read *)

LEMMA SumAppend ==
    ASSUME NEW c \in Seq(Bytes), NEW d \in Seq(Bytes), Len(d) = Len(c) + 1,
           \A n \in 1..Len(c) : d[n] = c[n]
    PROVE  Sum(c) \in Bytes /\ Sum(d) = (Sum(c) + d[Len(d)]) % BYTE
  <1> DEFINE N == Len(c)
  <1>1. N \in Nat /\ Len(d) = N + 1
    OBVIOUS
  <1>2. PICK s : SumsOf(s, d)
    BY SumsExist
  <1> DEFINE t == [n \in 0..N |-> s[n]]
  <1>3. s \in [0..(N + 1) -> Bytes] /\ s[0] = 0
        /\ \A n \in 1..(N + 1) : s[n] = (s[n - 1] + d[n]) % BYTE
    BY <1>1, <1>2 DEF SumsOf
  <1> HIDE DEF N
  <1>4. t \in [0..N -> Bytes] /\ t[0] = 0
    BY <1>1, <1>3
  <1>5. \A n \in 1..N : t[n] = (t[n - 1] + c[n]) % BYTE
    <2> TAKE n \in 1..N
    <2>1. n \in 0..N /\ n - 1 \in 0..N /\ n \in 1..(N + 1) /\ d[n] = c[n]
      BY <1>1 DEF N
    <2>2. s[n] = (s[n - 1] + d[n]) % BYTE
      BY <1>3, <2>1
    <2> QED
      BY <2>1, <2>2
  <1> HIDE DEF t
  <1>6. SumsOf(t, c)
    BY <1>4, <1>5 DEF SumsOf, N
  <1>7. Sum(c) = t[N] /\ Sum(d) = s[N + 1]
    BY <1>1, <1>2, <1>6, SumIs DEF N
  <1>8. t[N] = s[N] /\ N + 1 \in 1..(N + 1) /\ (N + 1) - 1 = N /\ N \in 0..N
    BY <1>1 DEF t
  <1>9. s[N + 1] = (s[N] + d[N + 1]) % BYTE
    BY <1>3, <1>8
  <1> QED
    BY <1>1, <1>4, <1>7, <1>8, <1>9

LEMMA BytesAtFacts ==
    ASSUME NEW f, NEW b, NEW n \in Nat, \A j \in 1..n : ByteAt(f, b, j) \in Bytes
    PROVE  /\ BytesAt(f, b, n) \in Seq(Bytes) /\ Len(BytesAt(f, b, n)) = n
           /\ \A j \in 1..n : BytesAt(f, b, n)[j] = ByteAt(f, b, j)
  <1> DEFINE s == BytesAt(f, b, n)
  <1>1. s = [j \in 1..n |-> ByteAt(f, b, j)]
    BY DEF BytesAt
  <1> HIDE DEF s
  <1>2. s \in [1..n -> Bytes] /\ DOMAIN s = 1..n
    BY <1>1
  <1>3. s \in Seq(Bytes)
    BY <1>2, SeqDef
  <1>4. Len(s) = n
    BY <1>2, <1>3, LenProperties
  <1> QED
    BY <1>1, <1>3, <1>4 DEF s

\* One byte more is read.
LEMMA SumStep ==
    ASSUME NEW f, NEW b, NEW n \in Nat, \A j \in 1..(n + 1) : ByteAt(f, b, j) \in Bytes
    PROVE  /\ Sum(BytesAt(f, b, n)) \in Bytes
           /\ Sum(BytesAt(f, b, n + 1)) = (Sum(BytesAt(f, b, n)) + ByteAt(f, b, n + 1)) % BYTE
  <1> DEFINE c == BytesAt(f, b, n)
             d == BytesAt(f, b, n + 1)
  <1>1. c \in Seq(Bytes) /\ Len(c) = n /\ \A j \in 1..n : c[j] = ByteAt(f, b, j)
    BY BytesAtFacts
  <1>2. n + 1 \in Nat /\ n + 1 \in 1..(n + 1) /\ \A j \in 1..n : j \in 1..(n + 1)
    OBVIOUS
  <1>3. d \in Seq(Bytes) /\ Len(d) = n + 1 /\ \A j \in 1..(n + 1) : d[j] = ByteAt(f, b, j)
    BY <1>2, BytesAtFacts
  <1> HIDE DEF c, d
  <1>4. \A j \in 1..Len(c) : d[j] = c[j]
    BY <1>1, <1>2, <1>3
  <1>5. Sum(c) \in Bytes /\ Sum(d) = (Sum(c) + d[Len(d)]) % BYTE
    BY <1>1, <1>3, <1>4, SumAppend
  <1> QED
    BY <1>2, <1>3, <1>5 DEF c, d

LEMMA SumOfNothing == \A f, b : Sum(BytesAt(f, b, 0)) = 0
  <1> TAKE f, b
  <1> DEFINE c == BytesAt(f, b, 0)
  <1>1. c \in Seq(Bytes) /\ Len(c) = 0
    <2>1. \A j \in 1..0 : ByteAt(f, b, j) \in Bytes
      OBVIOUS
    <2>2. 0 \in Nat
      OBVIOUS
    <2> QED
      BY <2>1, <2>2, BytesAtFacts
  <1> HIDE DEF c
  <1>2. PICK s : SumsOf(s, c)
    BY <1>1, SumsExist
  <1>3. Sum(c) = s[0] /\ s[0] = 0
    BY <1>1, <1>2, SumIs DEF SumsOf
  <1> QED
    BY <1>3 DEF c

-----------------------------------------------------------------------------
(* Where the parser is *)

LEMMA SameFile ==
    ASSUME Read
    PROVE  /\ ~overrun /\ pos < Len(file) /\ pos' = pos + 1
           /\ file' = file /\ records' = records /\ damage' = damage
           /\ \A i : Begin(i)' = Begin(i) /\ End(i)' = End(i)
           /\ Misframed' <=> Misframed
  <1>1. /\ ~overrun /\ pos < Len(file) /\ pos' = pos + 1
        /\ file' = file /\ records' = records /\ damage' = damage
    BY DEF Read, fileVars
  <1>2. \A i : Begin(i)' = Begin(i)
    BY <1>1 DEF Begin
  <1>3. \A i : End(i)' = End(i)
    BY <1>1, <1>2 DEF End
  <1>4. Misframed' <=> Misframed
    BY <1>1, <1>2, <1>3 DEF Misframed, CountDamaged, EndOfLineIsColon
  <1> QED
    BY <1>1, <1>2, <1>3, <1>4

\* The bytes of record i that were read, and the field that is read now.
LEMMA InRecordFacts ==
    ASSUME TypeInv, NEW i \in 1..Len(records), InRecord(i), ParseState # "START_OF_LINE"
    PROVE  /\ FileOfRecords /\ LineOK(Line) /\ DataOK /\ ValueOK
           /\ ParseState \in Fields /\ digits \in 0..3 /\ digits < NumDigits[ParseState]
           /\ Len(records[i].data) \in Nat /\ Begin(i) \in Nat /\ pos \in Nat
           /\ End(i) = Begin(i) + 2 * (Len(records[i].data) + 5)
           /\ BytesRead \in Nat /\ BytesRead <= Len(records[i].data) + 4
           /\ ParseState = "ADDRESS" => BytesRead = 1
           /\ ParseState = "DATA" => Len(Line.Data) < Len(records[i].data)
           /\ pos = Begin(i) + 2 * BytesRead + digits
           /\ \A j \in 1..(BytesRead + 1) : ByteAt(file, Begin(i), j) \in Bytes
  <1>1. FileOfRecords /\ LineOK(Line) /\ DataOK /\ ValueOK /\ ParseState \in Fields /\ digits \in 0..3
        /\ pos \in Nat
    BY TypeInvIs
  <1>2. Len(records[i].data) \in Nat /\ Begin(i) \in Nat
        /\ End(i) = Begin(i) + 2 * (Len(records[i].data) + 5)
    BY <1>1, RecordFacts
  <1>3. Len(Line.Data) \in Nat
    BY <1>1, LineParts
  <1>4. /\ BytesRead \in Nat
        /\ ParseState = "BYTE_COUNT" => BytesRead = 0
        /\ ParseState = "ADDRESS" => BytesRead = 1
        /\ ParseState = "RECORD_TYPE" => BytesRead = 3
        /\ ParseState \in {"DATA", "CHECKSUM"} => BytesRead = 4 + Len(Line.Data)
    BY <1>1, <1>3 DEF BytesRead, Fields
  <1>5. /\ pos = Begin(i) + 2 * BytesRead + digits
        /\ BytesRead >= 1 => Line.count = Len(records[i].data)
        /\ ParseState = "CHECKSUM" => Len(Line.Data) = Len(records[i].data)
    BY DEF InRecord
  <1>6. ParseState = "DATA" => Len(Line.Data) < Len(records[i].data)
    BY <1>1, <1>3, <1>4, <1>5 DEF DataOK
  <1>7. BytesRead <= Len(records[i].data) + 4
    <2>1. CASE ParseState \in {"BYTE_COUNT", "ADDRESS", "RECORD_TYPE"}
      <3>1. BytesRead \in {0, 1, 3}
        BY <1>4, <2>1
      <3> QED
        BY <1>2, <3>1
    <2>2. CASE ParseState = "DATA"
      BY <1>2, <1>3, <1>4, <1>6, <2>2
    <2>3. CASE ParseState = "CHECKSUM"
      BY <1>2, <1>3, <1>4, <1>5, <2>3
    <2> QED
      BY <1>1, <2>1, <2>2, <2>3 DEF Fields
  <1>8. \A j \in 1..(BytesRead + 1) : ByteAt(file, Begin(i), j) \in Bytes
    <2>1. \A j \in 1..(BytesRead + 1) : j \in 1..(Len(records[i].data) + 5)
      BY <1>2, <1>4, <1>7
    <2> QED
      BY <1>1, <2>1, ByteFacts
  <1>9. digits < NumDigits[ParseState]
    BY <1>1 DEF ValueOK, Fields
  <1> QED
    BY <1>1, <1>2, <1>4, <1>5, <1>6, <1>7, <1>8, <1>9

\* A field of one byte, and the two bytes of an address.
LEMMA FieldIsByte ==
    ASSUME TypeInv, NEW i \in 1..Len(records), InRecord(i), ParseState # "START_OF_LINE",
           pos < Len(file), digits = 1
    PROVE  Field = ByteAt(file, Begin(i), BytesRead + 1)
  <1>1. Field = value * BASE + Hex(file, pos + 1)
    BY NextDigit
  <1>2. value = Hex(file, pos)
    BY DEF InRecord
  <1>3. Begin(i) \in Nat /\ BytesRead \in Nat /\ pos = Begin(i) + 2 * BytesRead + 1
    BY InRecordFacts
  <1>4. pos = Begin(i) + 2 * (BytesRead + 1) - 1 /\ pos + 1 = Begin(i) + 2 * (BytesRead + 1)
    BY <1>3
  <1> QED
    BY <1>1, <1>2, <1>4 DEF ByteAt

LEMMA FieldIsAddress ==
    ASSUME TypeInv, NEW i \in 1..Len(records), InRecord(i), ParseState = "ADDRESS",
           pos < Len(file), digits = 3
    PROVE  Field = ByteAt(file, Begin(i), 2) * BYTE + ByteAt(file, Begin(i), 3)
  <1> DEFINE b == Begin(i)
             x == Hex(file, b + 3)
             y == Hex(file, b + 4)
             z == Hex(file, b + 5)
             w == Hex(file, b + 6)
  <1>1. Field = value * BASE + Hex(file, pos + 1)
    BY NextDigit
  <1>2. value = (Hex(file, pos - 2) * BASE + Hex(file, pos - 1)) * BASE + Hex(file, pos)
    BY DEF InRecord
  <1>3. b \in Nat /\ pos = b + 5 /\ Len(records[i].data) \in Nat /\ FileOfRecords
    BY InRecordFacts
  <1>4. pos - 2 = b + 3 /\ pos - 1 = b + 4 /\ pos + 1 = b + 6
    BY <1>3
  <1>5. Field = ((x * BASE + y) * BASE + z) * BASE + w
    BY <1>1, <1>2, <1>3, <1>4
  <1>6. ByteAt(file, b, 2) = x * BASE + y /\ ByteAt(file, b, 3) = z * BASE + w
    <2>1. b + 2 * 2 - 1 = b + 3 /\ b + 2 * 2 = b + 4 /\ b + 2 * 3 - 1 = b + 5 /\ b + 2 * 3 = b + 6
      BY <1>3
    <2> QED
      BY <2>1 DEF ByteAt
  <1>7. x \in Nat /\ y \in Nat /\ z \in Nat /\ w \in Nat
    <2>1. 2 \in 1..(Len(records[i].data) + 5) /\ 3 \in 1..(Len(records[i].data) + 5)
      BY <1>3
    <2>2. b + 2 * 2 - 1 = b + 3 /\ b + 2 * 2 = b + 4 /\ b + 2 * 3 - 1 = b + 5 /\ b + 2 * 3 = b + 6
      BY <1>3
    <2>3. /\ Hex(file, b + 2 * 2 - 1) \in 0..(BASE - 1) /\ Hex(file, b + 2 * 2) \in 0..(BASE - 1)
          /\ Hex(file, b + 2 * 3 - 1) \in 0..(BASE - 1) /\ Hex(file, b + 2 * 3) \in 0..(BASE - 1)
      BY <1>3, <2>1, ByteFacts
    <2> QED
      BY <2>2, <2>3
  <1> HIDE DEF b, x, y, z, w
  <1>8. ((x * BASE + y) * BASE + z) * BASE + w = (x * BASE + y) * (BASE * BASE) + (z * BASE + w)
    <2>1. BASE \in Nat
      BY Constants
    <2> QED
      BY <1>7, <2>1
  <1> QED
    BY <1>5, <1>6, <1>8, Constants DEF b

\* What a step finds.
LEMMA PlaceBefore ==
    ASSUME TypeInv, InPlace, Read, ~Misframed'
    PROVE  /\ ~Misframed /\ ~overrun /\ FileOfRecords
           /\ ParseState = "START_OF_LINE" => Waiting
           /\ ParseState # "START_OF_LINE" => \E i \in 1..Len(records) : InRecord(i)
  BY SameFile DEF InPlace, TypeInv

LEMMA StartOfLineInPlace == TypeInv /\ InPlace /\ StartOfLine => InPlace'
  <1> SUFFICES ASSUME TypeInv, InPlace, StartOfLine, ~Misframed'
               PROVE  IF ParseState' = "START_OF_LINE" THEN Waiting'
                      ELSE \E i \in 1..Len(records') : InRecord(i)'
    BY DEF InPlace
  <1>1. Read /\ ParseState = "START_OF_LINE" /\ UNCHANGED <<digits, value, imageVars, overrun>>
    BY DEF StartOfLine
  <1>2. /\ pos < Len(file) /\ pos' = pos + 1
        /\ file' = file /\ records' = records /\ damage' = damage
        /\ \A i : Begin(i)' = Begin(i) /\ End(i)' = End(i)
    BY <1>1, SameFile
  <1>3. Waiting /\ FileOfRecords /\ ~Misframed
    BY <1>1, PlaceBefore
  <1>4. pos \in Nat /\ pos + 1 \in 1..Len(file)
    BY <1>2, NextDigit
  <1>5. digits = 0
    BY <1>1, TypeInvIs DEF ValueOK
  <1>6. CASE file[pos + 1] = Colon
    <2>1. PICK i \in 1..Len(records) : pos + 1 = Begin(i) /\ damage.at # pos + 1
      BY <1>3, <1>4, <1>6, ColonStarts
    <2>2. Line' = NoLine /\ ParseState' = "BYTE_COUNT"
      BY <1>6 DEF StartOfLine
    <2>3. BytesRead' = 0
      BY <2>2 DEF BytesRead
    <2>4. Line'.Data = <<>> /\ Len(Line'.Data) = 0 /\ Line'.Checksum = 0
      BY <2>2 DEF NoLine
    <2>5. Line'.Checksum = Sum(BytesAt(file', Begin(i)', BytesRead'))
      BY <2>3, <2>4, SumOfNothing
    <2>6. pos' = Begin(i)' + 2 * BytesRead' + digits'
      BY <1>1, <1>2, <1>4, <1>5, <2>1, <2>3
    <2>7. digits' = 0 /\ damage'.at # Begin(i)' /\ (1..Len(Line'.Data)) = {}
      BY <1>1, <1>2, <1>5, <2>1, <2>4
    <2>8. InRecord(i)'
      BY <2>2, <2>3, <2>5, <2>6, <2>7 DEF InRecord
    <2> QED
      BY <1>2, <2>2, <2>8
  <1>7. CASE file[pos + 1] # Colon
    <2>1. ParseState' = ParseState
      BY <1>7 DEF StartOfLine
    <2>2. ASSUME NEW i \in 1..Len(records), Begin(i) <= pos + 1, pos + 1 < End(i)
          PROVE  damage.at = Begin(i)
      <3>1. Begin(i) \in Nat /\ End(i) \in Nat /\ (damage.at # Begin(i) => file[Begin(i)] = Colon)
        BY <1>3, RecordFacts
      <3>2. CASE Begin(i) = pos + 1
        BY <1>7, <3>1, <3>2
      <3>3. CASE Begin(i) # pos + 1
        <4>1. Begin(i) <= pos /\ pos < End(i)
          BY <1>4, <2>2, <3>1, <3>3
        <4> QED
          BY <1>3, <4>1 DEF Waiting
      <3> QED
        BY <3>2, <3>3
    <2>3. Waiting'
      BY <1>2, <2>2 DEF Waiting
    <2> QED
      BY <1>1, <2>1, <2>3
  <1> QED
    BY <1>6, <1>7

LEMMA FirstDigitsInPlace == TypeInv /\ InPlace /\ FirstDigits => InPlace'
  <1> SUFFICES ASSUME TypeInv, InPlace, FirstDigits, ~Misframed'
               PROVE  ParseState' # "START_OF_LINE" /\ \E i \in 1..Len(records') : InRecord(i)'
    BY DEF InPlace
  <1>1. /\ ParseState # "START_OF_LINE" /\ Read /\ digits' = digits + 1 /\ value' = Field
        /\ UNCHANGED <<ParseState, Line>>
    BY DEF FirstDigits
  <1>2. /\ pos < Len(file) /\ pos' = pos + 1
        /\ file' = file /\ records' = records /\ damage' = damage
        /\ \A i : Begin(i)' = Begin(i) /\ End(i)' = End(i)
    BY <1>1, SameFile
  <1>3. PICK i \in 1..Len(records) : InRecord(i)
    BY <1>1, PlaceBefore
  <1>4. /\ Begin(i) \in Nat /\ BytesRead \in Nat /\ pos \in Nat /\ digits \in 0..3 /\ ValueOK
        /\ pos = Begin(i) + 2 * BytesRead + digits
    BY <1>1, <1>3, InRecordFacts
  <1>5. BytesRead' = BytesRead
    BY <1>1 DEF BytesRead
  <1>6. value' = value * BASE + Hex(file, pos + 1) /\ Hex(file, pos + 1) \in Nat
    BY <1>1, <1>2, NextDigit
  <1>7. /\ digits' = 1 => value' = Hex(file', pos')
        /\ digits' = 2 => value' = Hex(file', pos' - 1) * BASE + Hex(file', pos')
        /\ digits' = 3 => value' = (Hex(file', pos' - 2) * BASE + Hex(file', pos' - 1)) * BASE
                                   + Hex(file', pos')
    <2>1. pos' - 1 = pos /\ pos' - 2 = pos - 1
      BY <1>2, <1>4
    <2>2. digits = 0 => value = 0 /\ value' = Hex(file, pos + 1)
      BY <1>4, <1>6, Constants DEF ValueOK
    <2>3. /\ digits = 1 => value = Hex(file, pos)
          /\ digits = 2 => value = Hex(file, pos - 1) * BASE + Hex(file, pos)
      BY <1>3 DEF InRecord
    <2>4. /\ digits' = 1 => digits = 0
          /\ digits' = 2 => digits = 1
          /\ digits' = 3 => digits = 2
      BY <1>1, <1>4
    <2> QED
      BY <1>2, <1>6, <2>1, <2>2, <2>3, <2>4
  <1>8. pos' = Begin(i)' + 2 * BytesRead' + digits'
    BY <1>1, <1>2, <1>4, <1>5
  <1>9. InRecord(i)'
    BY <1>1, <1>2, <1>3, <1>5, <1>7, <1>8 DEF InRecord
  <1> QED
    BY <1>1, <1>2, <1>9

LEMMA ByteCountInPlace == TypeInv /\ InPlace /\ ByteCount => InPlace'
  <1> SUFFICES ASSUME TypeInv, InPlace, ByteCount, ~Misframed'
               PROVE  ParseState' # "START_OF_LINE" /\ \E i \in 1..Len(records') : InRecord(i)'
    BY DEF InPlace
  <1>1. /\ LastDigit("BYTE_COUNT") /\ ParseState' = "ADDRESS"
        /\ Line' = [Line EXCEPT !.count = Field, !.Checksum = Add(Field)]
    BY DEF ByteCount
  <1>2. Read /\ ParseState = "BYTE_COUNT" /\ digits = 1 /\ digits' = 0
    BY <1>1, FieldFacts DEF LastDigit
  <1>3. /\ pos < Len(file) /\ pos' = pos + 1
        /\ file' = file /\ records' = records /\ damage' = damage
        /\ \A i : Begin(i)' = Begin(i) /\ End(i)' = End(i)
    BY <1>2, SameFile
  <1>4. ~Misframed
    BY <1>2, PlaceBefore
  <1>5. PICK i \in 1..Len(records) : InRecord(i)
    BY <1>2, PlaceBefore
  <1> DEFINE b == Begin(i)
             L == Len(records[i].data)
  <1>6. /\ FileOfRecords /\ LineOK(Line) /\ DataOK /\ L \in Nat /\ b \in Nat
        /\ BytesRead \in Nat /\ pos = b + 2 * BytesRead + 1
        /\ \A j \in 1..(BytesRead + 1) : ByteAt(file, b, j) \in Bytes
    BY <1>2, <1>5, InRecordFacts
  <1>7. BytesRead = 0 /\ BytesRead' = 1
    BY <1>1, <1>2 DEF BytesRead
  <1>8. Line.Data = <<>> /\ Line \in Lines
    BY <1>2, <1>6, LineParts DEF DataOK
  <1>9. Line'.Data = <<>> /\ Line'.count = Field /\ Line'.Checksum = Add(Field) /\ Len(Line'.Data) = 0
    BY <1>1, <1>8 DEF Lines
  <1>10. Field = ByteAt(file, b, 1)
    BY <1>2, <1>3, <1>5, <1>7, FieldIsByte
  <1>11. Field = L
    <2>1. 1 \in 1..(L + 5) /\ b + 2 * 1 - 1 = b + 1 /\ b + 2 * 1 = b + 2
      BY <1>6
    <2>2. damage.at # b + 1 /\ damage.at # b + 2
      BY <1>4 DEF Misframed, CountDamaged
    <2>3. ByteAt(file, b, 1) = Raw(records[i])[1]
      BY <1>6, <2>1, <2>2, ByteFacts
    <2>4. ARecord(records[i])
      BY <1>6, RecordFacts
    <2> QED
      BY <1>10, <2>3, <2>4, RawFacts
  <1>12. Line'.Checksum = Sum(BytesAt(file, b, 1))
    <2>1. \A j \in 1..(0 + 1) : ByteAt(file, b, j) \in Bytes
      BY <1>6, <1>7
    <2>2. Sum(BytesAt(file, b, 0 + 1)) = (Sum(BytesAt(file, b, 0)) + ByteAt(file, b, 0 + 1)) % BYTE
      BY <2>1, SumStep
    <2>3. 0 + 1 = 1
      OBVIOUS
    <2>4. Line.Checksum = Sum(BytesAt(file, b, 0))
      BY <1>5, <1>7 DEF InRecord
    <2> QED
      BY <1>9, <1>10, <2>2, <2>3, <2>4 DEF Add
  <1>13. pos' = b + 2 * BytesRead' + digits'
    BY <1>2, <1>3, <1>6, <1>7
  <1>14. damage.at # b
    BY <1>5 DEF InRecord
  <1>15. 1..Len(Line'.Data) = {}
    BY <1>9
  <1> HIDE DEF b, L
  <1>16. b = Begin(i)' /\ L = Len(records'[i].data)
    BY <1>3 DEF b, L
  <1>17. InRecord(i)'
    BY <1>1, <1>2, <1>3, <1>7, <1>9, <1>11, <1>12, <1>13, <1>14, <1>15, <1>16 DEF InRecord
  <1> QED
    BY <1>1, <1>3, <1>17

\* The last digit of a field is read.
LEMMA LastDigitInPlace ==
    ASSUME TypeInv, InPlace, NEW state \in Fields, LastDigit(state), ~Misframed'
    PROVE  /\ Read /\ ParseState = state /\ digits = NumDigits[state] - 1 /\ digits' = 0
           /\ pos < Len(file) /\ pos' = pos + 1
           /\ file' = file /\ records' = records /\ damage' = damage
           /\ \A i : Begin(i)' = Begin(i) /\ End(i)' = End(i)
           /\ ~Misframed
           /\ \E i \in 1..Len(records) : InRecord(i)
  <1>1. Read /\ ParseState = state /\ digits = NumDigits[state] - 1 /\ digits' = 0
    BY DEF LastDigit
  <1>2. ParseState # "START_OF_LINE"
    BY <1>1 DEF Fields
  <1> QED
    BY <1>1, <1>2, SameFile, PlaceBefore

\* The field is added to the sum of the bytes before it.
LEMMA SumOfField ==
    ASSUME TypeInv, NEW i \in 1..Len(records), InRecord(i), ParseState # "START_OF_LINE",
           pos < Len(file), digits = 1
    PROVE  Add(Field) = Sum(BytesAt(file, Begin(i), BytesRead + 1))
  <1>1. BytesRead \in Nat /\ \A j \in 1..(BytesRead + 1) : ByteAt(file, Begin(i), j) \in Bytes
    BY InRecordFacts
  <1>2. Line.Checksum = Sum(BytesAt(file, Begin(i), BytesRead))
    BY DEF InRecord
  <1>3. Field = ByteAt(file, Begin(i), BytesRead + 1)
    BY FieldIsByte
  <1>4. Sum(BytesAt(file, Begin(i), BytesRead + 1)) = (Line.Checksum + Field) % BYTE
    BY <1>1, <1>2, <1>3, SumStep
  <1> QED
    BY <1>4 DEF Add

\* Adding an address as the parser does adds its two bytes.
LEMMA AddAddress ==
    ASSUME NEW c \in Bytes, NEW hi \in Bytes, NEW lo \in Bytes
    PROVE  /\ (hi * BYTE + lo) \div BYTE = hi
           /\ (c + (hi + (hi * BYTE + lo))) % BYTE = (((c + hi) % BYTE) + lo) % BYTE
  <1>1. BYTE \in Nat /\ BYTE > 0 /\ c \in Nat /\ hi \in Nat /\ lo \in Nat
        /\ c < BYTE /\ hi < BYTE /\ lo < BYTE /\ hi * BYTE \in Nat
    BY Constants DEF Bytes
  <1>2. (hi * BYTE + lo) \div BYTE = hi
    BY <1>1
  <1>3. \A x \in Nat : (x + hi * BYTE) % BYTE = x % BYTE
    <2> TAKE x \in Nat
    <2>1. x = (x \div BYTE) * BYTE + (x % BYTE) /\ x % BYTE \in 0..(BYTE - 1) /\ x \div BYTE \in Nat
      BY <1>1
    <2>2. x + hi * BYTE = ((x \div BYTE) + hi) * BYTE + (x % BYTE)
      BY <1>1, <2>1
    <2> DEFINE q == (x \div BYTE) + hi
               y == x % BYTE
    <2>3. q \in Nat /\ y \in 0..(BYTE - 1) /\ x + hi * BYTE = q * BYTE + y
      BY <1>1, <2>1, <2>2
    <2> HIDE DEF q, y
    <2>4. (q * BYTE + y) % BYTE = y
      BY <1>1, <2>3
    <2> QED
      BY <2>3, <2>4 DEF y
  <1>4. c + (hi + (hi * BYTE + lo)) = (c + hi + lo) + hi * BYTE
    BY <1>1
  <1>5. (c + hi + lo) \in Nat
    BY <1>1
  <1>6. (c + hi + lo) % BYTE = (((c + hi) % BYTE) + lo) % BYTE
    <2>1. (c + hi) % BYTE = IF c + hi < BYTE THEN c + hi ELSE c + hi - BYTE
      BY <1>1
    <2> DEFINE m == (c + hi) % BYTE
    <2>2. m \in Nat /\ (c + hi = m \/ c + hi = m + BYTE)
      BY <1>1, <2>1
    <2> HIDE DEF m
    <2>3. c + hi = m => (c + hi + lo) % BYTE = (m + lo) % BYTE
      BY <1>1, <2>2
    <2>4. c + hi = m + BYTE => (c + hi + lo) % BYTE = (m + lo) % BYTE
      <3>1. c + hi = m + BYTE => c + hi + lo = (m + lo) + BYTE
        BY <1>1, <2>2
      <3>2. ((m + lo) + BYTE) % BYTE = (m + lo) % BYTE
        BY <1>1, <2>2
      <3> QED
        BY <3>1, <3>2
    <2> QED
      BY <2>2, <2>3, <2>4 DEF m
  <1> QED
    BY <1>2, <1>3, <1>4, <1>5, <1>6

LEMMA AddressInPlace == TypeInv /\ InPlace /\ Address => InPlace'
  <1> SUFFICES ASSUME TypeInv, InPlace, Address, ~Misframed'
               PROVE  ParseState' # "START_OF_LINE" /\ \E i \in 1..Len(records') : InRecord(i)'
    BY DEF InPlace
  <1>1. /\ LastDigit("ADDRESS") /\ ParseState' = "RECORD_TYPE"
        /\ Line' = [Line EXCEPT !.address = Field, !.Checksum = Add((Field \div BYTE) + Field)]
    BY DEF Address
  <1>2. "ADDRESS" \in Fields
    BY DEF Fields
  <1>3. /\ ParseState = "ADDRESS" /\ digits = 3 /\ digits' = 0
        /\ pos < Len(file) /\ pos' = pos + 1
        /\ file' = file /\ records' = records /\ damage' = damage
        /\ \A i : Begin(i)' = Begin(i) /\ End(i)' = End(i)
    BY <1>1, <1>2, LastDigitInPlace, FieldFacts
  <1>4. PICK i \in 1..Len(records) : InRecord(i)
    BY <1>1, <1>2, LastDigitInPlace
  <1> DEFINE b == Begin(i)
             L == Len(records[i].data)
             hi == ByteAt(file, b, 2)
             lo == ByteAt(file, b, 3)
  <1>5. /\ LineOK(Line) /\ DataOK /\ L \in Nat /\ b \in Nat /\ FileOfRecords
        /\ BytesRead = 1 /\ pos = b + 2 * 1 + 3
    BY <1>3, <1>4, InRecordFacts
  <1>6. BytesRead' = 3
    BY <1>1 DEF BytesRead
  <1>7. Line.Data = <<>> /\ Line \in Lines /\ Line.Checksum \in Bytes
    BY <1>3, <1>5, LineParts DEF DataOK
  <1>8. /\ Line'.Data = <<>> /\ Line'.count = Line.count /\ Line'.address = Field
        /\ Line'.Checksum = Add((Field \div BYTE) + Field) /\ Len(Line'.Data) = 0
    BY <1>1, <1>7 DEF Lines
  <1>9. Field = hi * BYTE + lo
    BY <1>3, <1>4, FieldIsAddress
  <1>10. \A j \in 1..3 : ByteAt(file, b, j) \in Bytes
    <2>1. \A j \in 1..3 : j \in 1..(L + 5)
      BY <1>5
    <2> QED
      BY <1>5, <2>1, ByteFacts
  <1>11. Line.Checksum = Sum(BytesAt(file, b, 1)) /\ Line.count = L /\ damage.at # b
    BY <1>4, <1>5 DEF InRecord
  <1>12. Line'.Checksum = Sum(BytesAt(file, b, 3))
    <2>1. Sum(BytesAt(file, b, 1 + 1)) = (Sum(BytesAt(file, b, 1)) + ByteAt(file, b, 1 + 1)) % BYTE
      <3>1. \A j \in 1..(1 + 1) : j \in 1..3
        OBVIOUS
      <3> QED
        BY <1>10, <3>1, SumStep
    <2>2. Sum(BytesAt(file, b, 2 + 1)) = (Sum(BytesAt(file, b, 2)) + ByteAt(file, b, 2 + 1)) % BYTE
      <3>1. \A j \in 1..(2 + 1) : j \in 1..3
        OBVIOUS
      <3> QED
        BY <1>10, <3>1, SumStep
    <2>3. 1 + 1 = 2 /\ 2 + 1 = 3
      OBVIOUS
    <2>4. Sum(BytesAt(file, b, 3)) = (((Line.Checksum + hi) % BYTE) + lo) % BYTE
      BY <1>11, <2>1, <2>2, <2>3
    <2>5. hi \in Bytes /\ lo \in Bytes
      BY <1>10
    <2> HIDE DEF hi, lo
    <2>6. Field \div BYTE = hi
      BY <1>9, <2>5, <1>7, AddAddress
    <2>7. (Line.Checksum + (hi + (hi * BYTE + lo))) % BYTE = (((Line.Checksum + hi) % BYTE) + lo) % BYTE
      BY <2>5, <1>7, AddAddress
    <2> QED
      BY <1>8, <1>9, <2>4, <2>6, <2>7 DEF Add
  <1>13. pos' = b + 2 * BytesRead' + digits'
    BY <1>3, <1>5, <1>6
  <1>14. 1..Len(Line'.Data) = {}
    BY <1>8
  <1> HIDE DEF b, L
  <1>15. b = Begin(i)' /\ L = Len(records'[i].data)
    BY <1>3 DEF b, L
  <1>16. InRecord(i)'
    BY <1>1, <1>3, <1>6, <1>8, <1>9, <1>11, <1>12, <1>13, <1>14, <1>15 DEF InRecord
  <1> QED
    BY <1>1, <1>3, <1>16

LEMMA RecordTypeInPlace == TypeInv /\ InPlace /\ RecordType => InPlace'
  <1> SUFFICES ASSUME TypeInv, InPlace, RecordType, ~Misframed'
               PROVE  ParseState' # "START_OF_LINE" /\ \E i \in 1..Len(records') : InRecord(i)'
    BY DEF InPlace
  <1>1. /\ LastDigit("RECORD_TYPE")
        /\ Line' = [Line EXCEPT !.type = Field, !.Checksum = Add(Field)]
        /\ ParseState' = IF Line.count > 0 THEN "DATA" ELSE "CHECKSUM"
    BY DEF RecordType
  <1>2. "RECORD_TYPE" \in Fields
    BY DEF Fields
  <1>3. /\ ParseState = "RECORD_TYPE" /\ digits = 1 /\ digits' = 0
        /\ pos < Len(file) /\ pos' = pos + 1
        /\ file' = file /\ records' = records /\ damage' = damage
        /\ \A i : Begin(i)' = Begin(i) /\ End(i)' = End(i)
    BY <1>1, <1>2, LastDigitInPlace, FieldFacts
  <1>4. PICK i \in 1..Len(records) : InRecord(i)
    BY <1>1, <1>2, LastDigitInPlace
  <1> DEFINE b == Begin(i)
             L == Len(records[i].data)
  <1>5. BytesRead = 3 /\ 3 + 1 = 4
    BY <1>3 DEF BytesRead
  <1>6. LineOK(Line) /\ DataOK /\ L \in Nat /\ b \in Nat /\ pos = b + 2 * 3 + 1
    BY <1>3, <1>4, <1>5, InRecordFacts
  <1>7. Line.Data = <<>> /\ Line \in Lines /\ Line.count \in Nat
    BY <1>3, <1>6, LineParts DEF DataOK
  <1>8. /\ Line'.Data = <<>> /\ Line'.count = Line.count /\ Line'.address = Line.address
        /\ Line'.type = Field /\ Line'.Checksum = Add(Field) /\ Len(Line'.Data) = 0
    BY <1>1, <1>7 DEF Lines
  <1>9. Field = ByteAt(file, b, 4)
    BY <1>3, <1>4, <1>5, FieldIsByte
  <1>10. Line'.Checksum = Sum(BytesAt(file, b, 4))
    BY <1>3, <1>4, <1>5, <1>8, SumOfField
  <1>11. /\ Line.count = L /\ damage.at # b
         /\ Line.address = ByteAt(file, b, 2) * BYTE + ByteAt(file, b, 3)
    BY <1>4, <1>5 DEF InRecord
  <1>12. /\ ParseState' \in {"DATA", "CHECKSUM"}
         /\ ParseState' = "CHECKSUM" => L = 0
    BY <1>1, <1>7, <1>11
  <1>13. BytesRead' = 4
    BY <1>8, <1>12 DEF BytesRead
  <1>14. pos' = b + 2 * BytesRead' + digits'
    BY <1>3, <1>6, <1>13
  <1>15. 1..Len(Line'.Data) = {}
    BY <1>8
  <1> HIDE DEF b, L
  <1>16. b = Begin(i)' /\ L = Len(records'[i].data)
    BY <1>3 DEF b, L
  <1>17. ParseState' = "CHECKSUM" => Len(Line'.Data) = L
    BY <1>8, <1>12
  <1>18. InRecord(i)'
    BY <1>3, <1>8, <1>9, <1>10, <1>11, <1>13, <1>14, <1>15, <1>16, <1>17 DEF InRecord
  <1> QED
    BY <1>3, <1>12, <1>18

LEMMA DataByteInPlace == TypeInv /\ InPlace /\ DataByte => InPlace'
  <1> SUFFICES ASSUME TypeInv, InPlace, DataByte, ~Misframed'
               PROVE  ParseState' # "START_OF_LINE" /\ \E i \in 1..Len(records') : InRecord(i)'
    BY DEF InPlace
  <1>1. /\ LastDigit("DATA")
        /\ Line' = [Line EXCEPT !.Data = Append(@, Field), !.Checksum = Add(Field)]
        /\ ParseState' = IF Len(Line'.Data) >= Line.count THEN "CHECKSUM" ELSE "DATA"
    BY DEF DataByte
  <1>2. "DATA" \in Fields
    BY DEF Fields
  <1>3. /\ ParseState = "DATA" /\ digits = 1 /\ digits' = 0
        /\ pos < Len(file) /\ pos' = pos + 1
        /\ file' = file /\ records' = records /\ damage' = damage
        /\ \A i : Begin(i)' = Begin(i) /\ End(i)' = End(i)
    BY <1>1, <1>2, LastDigitInPlace, FieldFacts
  <1>4. PICK i \in 1..Len(records) : InRecord(i)
    BY <1>1, <1>2, LastDigitInPlace
  <1> DEFINE b == Begin(i)
             L == Len(records[i].data)
             n == Len(Line.Data)
  <1>5. BytesRead = 4 + n
    BY <1>3 DEF BytesRead
  <1>6. /\ LineOK(Line) /\ L \in Nat /\ b \in Nat /\ n < L
        /\ BytesRead \in Nat /\ pos = b + 2 * BytesRead + 1
    BY <1>3, <1>4, InRecordFacts
  <1>7. Line \in Lines /\ Line.Data \in Seq(Bytes) /\ n \in Nat
    BY <1>6, LineParts
  <1>8. Field \in Bytes
    BY <1>1, <1>2, LastDigitFacts
  <1>9. /\ Line'.Data = Append(Line.Data, Field) /\ Line'.count = Line.count
        /\ Line'.address = Line.address /\ Line'.type = Line.type /\ Line'.Checksum = Add(Field)
    BY <1>1, <1>7 DEF Lines
  <1>10. /\ Len(Line'.Data) = n + 1 /\ Line'.Data[n + 1] = Field
         /\ \A j \in 1..n : Line'.Data[j] = Line.Data[j]
    BY <1>7, <1>8, <1>9
  <1>11. Field = ByteAt(file, b, BytesRead + 1) /\ Add(Field) = Sum(BytesAt(file, b, BytesRead + 1))
    BY <1>3, <1>4, FieldIsByte, SumOfField
  <1>12. /\ damage.at # b
         /\ Line.count = L
         /\ Line.address = ByteAt(file, b, 2) * BYTE + ByteAt(file, b, 3)
         /\ Line.type = ByteAt(file, b, 4)
         /\ \A j \in 1..n : Line.Data[j] = ByteAt(file, b, j + 4)
    <2>1. BytesRead >= 1 /\ BytesRead >= 3 /\ BytesRead >= 4
      BY <1>5, <1>7
    <2> QED
      BY <1>4, <2>1 DEF InRecord
  <1> HIDE DEF n, b, L
  <1>13. /\ ParseState' \in {"DATA", "CHECKSUM"}
         /\ ParseState' = "CHECKSUM" => Len(Line'.Data) = L
    BY <1>1, <1>6, <1>7, <1>10, <1>12
  <1>14. BytesRead' = BytesRead + 1
    <2>1. BytesRead' = 4 + Len(Line'.Data)
      BY <1>13 DEF BytesRead
    <2> QED
      BY <1>5, <1>7, <1>10, <2>1
  <1>15. \A j \in 1..Len(Line'.Data) : Line'.Data[j] = ByteAt(file, b, j + 4)
    <2> TAKE j \in 1..Len(Line'.Data)
    <2>1. CASE j = n + 1
      <3>1. BytesRead + 1 = j + 4
        BY <1>5, <1>7, <2>1
      <3> QED
        BY <1>10, <1>11, <2>1, <3>1
    <2>2. CASE j # n + 1
      <3>1. j \in 1..n
        BY <1>7, <1>10, <2>2
      <3> QED
        BY <1>10, <1>12, <3>1
    <2> QED
      BY <2>1, <2>2
  <1>16. pos' = b + 2 * BytesRead' + digits'
    BY <1>3, <1>6, <1>14
  <1>17. b = Begin(i)' /\ L = Len(records'[i].data)
    BY <1>3 DEF b, L
  <1>18. Line'.Checksum = Sum(BytesAt(file, b, BytesRead'))
    BY <1>9, <1>11, <1>14
  <1>19. InRecord(i)'
    BY <1>3, <1>9, <1>12, <1>13, <1>15, <1>16, <1>17, <1>18 DEF InRecord
  <1> QED
    BY <1>3, <1>13, <1>19

\* The last character of a record is its checksum's.
LEMMA ChecksumPlace ==
    ASSUME TypeInv, NEW i \in 1..Len(records), InRecord(i), ParseState = "CHECKSUM", digits = 1
    PROVE  pos + 1 = End(i) /\ pos \in Nat /\ BytesRead = Len(records[i].data) + 4
  <1> DEFINE L == Len(records[i].data)
             b == Begin(i)
  <1>1. L \in Nat /\ b \in Nat /\ pos \in Nat /\ End(i) = b + 2 * (L + 5) /\ pos = b + 2 * BytesRead + 1
    BY InRecordFacts
  <1>2. BytesRead = 4 + Len(Line.Data)
    BY DEF BytesRead
  <1>3. Len(Line.Data) = L
    BY DEF InRecord
  <1> HIDE DEF L, b
  <1>4. BytesRead = L + 4
    BY <1>1, <1>2, <1>3
  <1>5. pos + 1 = End(i)
    BY <1>1, <1>4
  <1> QED
    BY <1>1, <1>4, <1>5 DEF L

LEMMA LineChecksumInPlace == TypeInv /\ InPlace /\ LineChecksum => InPlace'
  <1> SUFFICES ASSUME TypeInv, InPlace, LineChecksum, ~Misframed'
               PROVE  ParseState' = "START_OF_LINE" /\ Waiting'
    BY DEF InPlace
  <1>1. LastDigit("CHECKSUM") /\ ParseState' = "START_OF_LINE"
    BY DEF LineChecksum
  <1>2. "CHECKSUM" \in Fields
    BY DEF Fields
  <1>3. /\ ParseState = "CHECKSUM" /\ digits = 1
        /\ pos < Len(file) /\ pos' = pos + 1
        /\ file' = file /\ records' = records /\ damage' = damage
        /\ \A i : Begin(i)' = Begin(i) /\ End(i)' = End(i)
    BY <1>1, <1>2, LastDigitInPlace, FieldFacts
  <1>4. PICK i \in 1..Len(records) : InRecord(i)
    BY <1>1, <1>2, LastDigitInPlace
  <1>5. pos + 1 = End(i) /\ FileOfRecords
    BY <1>3, <1>4, ChecksumPlace DEF TypeInv
  <1>6. ASSUME NEW j \in 1..Len(records) PROVE ~(Begin(j) <= End(i) /\ End(i) < End(j))
    <2>1. /\ Begin(j) \in Nat /\ End(j) \in Nat /\ End(i) \in Nat /\ Begin(i) \in Nat
          /\ End(i) = Begin(i) + 2 * (Len(records[i].data) + 5) /\ Len(records[i].data) \in Nat
      BY <1>5, RecordFacts
    <2>2. i < j => End(i) + 2 <= Begin(j)
      BY <1>5, Apart
    <2>3. j < i => End(j) + 2 <= Begin(i)
      BY <1>5, Apart
    <2>4. i < j \/ j < i \/ i = j
      OBVIOUS
    <2>5. CASE i < j
      BY <2>1, <2>2, <2>5
    <2>6. CASE j < i
      BY <2>1, <2>3, <2>6
    <2>7. CASE i = j
      BY <2>1, <2>7
    <2> QED
      BY <2>4, <2>5, <2>6, <2>7
  <1>7. \A j \in 1..Len(records) : ~(Begin(j)' <= pos' /\ pos' < End(j)')
    BY <1>3, <1>5, <1>6
  <1> QED
    BY <1>1, <1>3, <1>7 DEF Waiting

LEMMA InPlaceStutter == InPlace /\ UNCHANGED hexVars => InPlace'
  <1> SUFFICES ASSUME InPlace, UNCHANGED hexVars PROVE InPlace'
    OBVIOUS
  <1>1. /\ file' = file /\ records' = records /\ damage' = damage /\ pos' = pos
        /\ ParseState' = ParseState /\ digits' = digits /\ value' = value /\ Line' = Line
        /\ overrun' = overrun
    BY DEF hexVars, fileVars
  <1>2. \A i : Begin(i)' = Begin(i) /\ End(i)' = End(i)
    BY <1>1 DEF Begin, End
  <1>3. Misframed' <=> Misframed
    BY <1>1, <1>2 DEF Misframed, CountDamaged, EndOfLineIsColon
  <1>4. Waiting' <=> Waiting
    BY <1>1, <1>2 DEF Waiting
  <1>5. BytesRead' = BytesRead
    BY <1>1 DEF BytesRead
  <1>6. \A i : InRecord(i) => InRecord(i)'
    BY <1>1, <1>2, <1>5 DEF InRecord
  <1> QED
    BY <1>1, <1>3, <1>4, <1>6 DEF InPlace

LEMMA InPlaceInit == Init => InPlace
  <1> SUFFICES ASSUME Init PROVE Waiting
    BY DEF Init, InPlace
  <1>1. FileOfRecords /\ pos = 0
    BY DEF Init
  <1>2. \A i \in 1..Len(records) : ~(Begin(i) <= pos)
    BY <1>1, RecordFacts
  <1> QED
    BY <1>2 DEF Waiting

LEMMA IInvInit == Init => IInv
  BY TypeInvInit, InPlaceInit DEF IInv, TypeInv

LEMMA IInvNext == IInv /\ [ParseHexFile]_hexVars => IInv'
  <1> SUFFICES ASSUME TypeInv, InPlace, [ParseHexFile]_hexVars PROVE TypeInv' /\ InPlace'
    BY DEF IInv, TypeInv
  <1>1. TypeInv'
    BY TypeInvNext
  <1>2. InPlace'
    BY StartOfLineInPlace, FirstDigitsInPlace, ByteCountInPlace, AddressInPlace, RecordTypeInPlace,
       DataByteInPlace, LineChecksumInPlace, InPlaceStutter DEF ParseHexFile
  <1> QED
    BY <1>1, <1>2

-----------------------------------------------------------------------------
(* Nothing outside the arrays is written *)

Fits == \A i \in 1..Len(records) : Len(records[i].data) <= DataSize

LEMMA FirstDigitsInBounds ==
    ASSUME IInv, FirstDigits, ~Misframed, Fits
    PROVE  ~overrun'
  <1>1. /\ ParseState # "START_OF_LINE" /\ Read
        /\ overrun' = (ParseState = "DATA" /\ Len(Line.Data) >= DataSize)
    BY DEF FirstDigits
  <1>2. TypeInv /\ InPlace /\ ~overrun
    BY <1>1 DEF IInv, TypeInv, Read
  <1>3. PICK i \in 1..Len(records) : InRecord(i)
    BY <1>1, <1>2 DEF InPlace
  <1>4. Len(records[i].data) <= DataSize
    BY DEF Fits
  <1>5. /\ Len(records[i].data) \in Nat /\ LineOK(Line)
        /\ ParseState = "DATA" => Len(Line.Data) < Len(records[i].data)
    BY <1>1, <1>2, <1>3, InRecordFacts
  <1>6. Len(Line.Data) \in Nat /\ DataSize \in Nat
    BY <1>5, LineParts, HexAssumption
  <1>7. ParseState = "DATA" => ~(Len(Line.Data) >= DataSize)
    BY <1>4, <1>5, <1>6
  <1> QED
    BY <1>1, <1>7

LEMMA LineChecksumInBounds ==
    ASSUME IInv, LineChecksum, ~Misframed, Fits
    PROVE  ~overrun'
  <1>1. LastDigit("CHECKSUM") /\ ParseState = "CHECKSUM" /\ Read
    BY DEF LineChecksum, LastDigit
  <1>2. TypeInv /\ InPlace /\ ~overrun
    BY <1>1 DEF IInv, TypeInv, Read
  <1>3. PICK i \in 1..Len(records) : InRecord(i)
    BY <1>1, <1>2 DEF InPlace
  <1>4. CASE ~Accepted(Field)
    BY <1>2, <1>4 DEF LineChecksum
  <1>5. CASE Accepted(Field)
    <2>1. overrun' = ((Line.address - APPLICATION_DATA_START) + Line.count > MaxSize)
      BY <1>5 DEF LineChecksum
    <2>2. BytesRead >= 1
      <3>1. BytesRead = 4 + Len(Line.Data) /\ Len(Line.Data) \in Nat
        BY <1>1, <1>2, TypeInvIs, LineParts DEF BytesRead
      <3> QED
        BY <3>1
    <2>3. Line.count <= DataSize
      BY <1>3, <2>2 DEF InRecord, Fits
    <2>4. /\ Line.count \in Nat /\ Line.address \in Nat /\ Line.address <= BYTE * BYTE - 1
          /\ APPLICATION_DATA_START \in Nat /\ BYTE * BYTE \in Nat
      BY <1>2, TypeInvIs, LineParts, Constants, HexAssumption DEF Addresses
    <2>5. DataSize \in Nat /\ MaxSize \in Nat
          /\ (BYTE * BYTE - 1 - APPLICATION_DATA_START) + DataSize <= MaxSize
      BY HexAssumption
    <2> DEFINE M == BYTE * BYTE
    <2> HIDE DEF M
    <2>6. M \in Nat /\ Line.address <= M - 1 /\ (M - 1 - APPLICATION_DATA_START) + DataSize <= MaxSize
      BY <2>4, <2>5 DEF M
    <2>7. (Line.address - APPLICATION_DATA_START) + Line.count <= MaxSize
      BY <2>3, <2>4, <2>5, <2>6
    <2>8. ~((Line.address - APPLICATION_DATA_START) + Line.count > MaxSize)
      BY <2>4, <2>5, <2>7
    <2> QED
      BY <2>1, <2>8
  <1> QED
    BY <1>4, <1>5

LEMMA InBoundsNext == IInv /\ WritesInBounds /\ [ParseHexFile]_hexVars => WritesInBounds'
  <1> SUFFICES ASSUME IInv, WritesInBounds, [ParseHexFile]_hexVars, ~Misframed', Fits'
               PROVE  ~overrun'
    BY DEF WritesInBounds, Fits
  <1>1. CASE UNCHANGED hexVars
    <2>1. /\ file' = file /\ records' = records /\ damage' = damage /\ overrun' = overrun
      BY <1>1 DEF hexVars, fileVars
    <2>2. (Misframed' <=> Misframed) /\ Fits
      BY <2>1 DEF Misframed, CountDamaged, EndOfLineIsColon, Begin, End, Fits
    <2> QED
      BY <2>1, <2>2 DEF WritesInBounds, Fits
  <1>2. CASE ParseHexFile
    <2>1. Read
      BY <1>2 DEF ParseHexFile, StartOfLine, FirstDigits, ByteCount, Address, RecordType, DataByte,
                  LineChecksum, LastDigit
    <2>2. ~overrun /\ ~Misframed /\ Fits
      BY <2>1, SameFile DEF Fits
    <2>3. CASE FirstDigits
      BY <2>2, <2>3, FirstDigitsInBounds
    <2>4. CASE LineChecksum
      BY <2>2, <2>4, LineChecksumInBounds
    <2>5. CASE overrun' = overrun
      BY <2>2, <2>5
    <2> QED
      BY <1>2, <2>3, <2>4, <2>5 DEF ParseHexFile, StartOfLine, ByteCount, Address, RecordType, DataByte
  <1> QED
    BY <1>1, <1>2

\* The parser writes nothing behind Data or Binary, wherever the file ends, whatever
\* the addresses and types in it and wherever a character is damaged, as long as the
\* counts are within DataSize, the damage is not in one of them, and it does not make
\* an end of a line a colon.
THEOREM WriteBounds == Spec => []WritesInBounds
  <1>1. Init => WritesInBounds
    BY DEF Init, WritesInBounds
  <1> QED
    BY <1>1, IInvInit, IInvNext, InBoundsNext, PTL DEF Spec

-----------------------------------------------------------------------------
(* A record whose sum is 0 *)

\* Two different bytes have different sums with a third.
LEMMA DifferentSums ==
    ASSUME NEW x \in Bytes, NEW y \in Bytes, NEW a \in Bytes, x # y
    PROVE  (x + a) % BYTE # (y + a) % BYTE
  <1>1. BYTE \in Nat /\ BYTE > 0 /\ x \in 0..(BYTE - 1) /\ y \in 0..(BYTE - 1) /\ a \in 0..(BYTE - 1)
    BY Constants DEF Bytes
  <1>2. (x + a) % BYTE = IF x + a < BYTE THEN x + a ELSE x + a - BYTE
    BY <1>1
  <1>3. (y + a) % BYTE = IF y + a < BYTE THEN y + a ELSE y + a - BYTE
    BY <1>1
  <1> QED
    BY <1>1, <1>2, <1>3

\* One byte that is another one changes the sum.
LEMMA SumChanged ==
    ASSUME NEW c \in Seq(Bytes), NEW d \in Seq(Bytes), Len(c) = Len(d), NEW m \in 1..Len(c),
           c[m] # d[m], \A n \in 1..Len(c) : n # m => c[n] = d[n]
    PROVE  Sum(c) # Sum(d)
  <1> DEFINE N == Len(c)
  <1>1. N \in Nat /\ m \in 1..N /\ m \in Nat /\ m - 1 \in Nat
        /\ \A n \in 1..N : c[n] \in Bytes /\ d[n] \in Bytes
    BY ElementsAreBytes
  <1>2. PICK s : SumsOf(s, c)
    BY SumsExist
  <1>3. PICK t : SumsOf(t, d)
    BY SumsExist
  <1>4. /\ s \in [0..N -> Bytes] /\ s[0] = 0 /\ \A n \in 1..N : s[n] = (s[n - 1] + c[n]) % BYTE
        /\ t \in [0..N -> Bytes] /\ t[0] = 0 /\ \A n \in 1..N : t[n] = (t[n - 1] + d[n]) % BYTE
    BY <1>2, <1>3 DEF SumsOf
  <1>5. Sum(c) = s[N] /\ Sum(d) = t[N]
    BY <1>2, <1>3, SumIs
  <1>6. \A n \in 1..N : n # m => c[n] = d[n]
    OBVIOUS
  <1> HIDE DEF N
  <1>7. \A n \in 0..(m - 1) : s[n] = t[n]
    <2> DEFINE S == {n \in 0..(m - 1) : s[n] = t[n]}
    <2>1. 0 \in S
      BY <1>1, <1>4
    <2>2. ASSUME NEW n \in 1..(m - 1), n - 1 \in S PROVE n \in S
      <3>1. n \in 1..N /\ n # m /\ n \in 0..(m - 1) /\ s[n - 1] = t[n - 1]
        BY <1>1, <2>2
      <3> QED
        BY <1>4, <1>6, <3>1
    <2> HIDE DEF S
    <2>3. 0..(m - 1) \subseteq S
      BY <1>1, <2>1, <2>2, RangeInduction
    <2> QED
      BY <2>3 DEF S
  <1>8. s[m] # t[m]
    <2>1. m - 1 \in 0..(m - 1) /\ m - 1 \in 0..N
      BY <1>1
    <2>2. s[m - 1] = t[m - 1] /\ s[m - 1] \in Bytes
      BY <1>4, <1>7, <2>1
    <2>3. (c[m] + s[m - 1]) % BYTE # (d[m] + s[m - 1]) % BYTE
      BY <1>1, <2>2, DifferentSums
    <2>4. c[m] + s[m - 1] = s[m - 1] + c[m] /\ d[m] + s[m - 1] = t[m - 1] + d[m]
      BY <1>1, <2>2, Constants DEF Bytes
    <2> QED
      BY <1>1, <1>4, <2>3, <2>4
  <1> DEFINE S == {n \in 0..N : m <= n => s[n] # t[n]}
  <1>9. 0 \in S
    BY <1>1
  <1>10. ASSUME NEW n \in 1..N, n - 1 \in S PROVE n \in S
    <2>1. n \in 0..N /\ n - 1 \in 0..N
      BY <1>1
    <2>2. CASE m <= n - 1
      <3>1. s[n - 1] # t[n - 1] /\ s[n - 1] \in Bytes /\ t[n - 1] \in Bytes
        BY <1>4, <1>10, <2>1, <2>2
      <3>2. n # m /\ c[n] = d[n] /\ c[n] \in Bytes
        BY <1>1, <1>6, <2>2
      <3>3. (s[n - 1] + c[n]) % BYTE # (t[n - 1] + c[n]) % BYTE
        BY <3>1, <3>2, DifferentSums
      <3> QED
        BY <1>4, <2>1, <3>2, <3>3
    <2>3. CASE n = m
      BY <1>8, <2>1, <2>3
    <2>4. CASE n < m
      BY <1>1, <2>1, <2>4
    <2> QED
      BY <1>1, <2>2, <2>3, <2>4
  <1> HIDE DEF S
  <1>11. 0..N \subseteq S
    BY <1>1, <1>9, <1>10, RangeInduction
  <1>12. N \in S /\ m <= N
    BY <1>1, <1>11
  <1> QED
    BY <1>5, <1>12 DEF S

LEMMA SumOfRaw ==
    ASSUME NEW r, ARecord(r)
    PROVE  Sum(Raw(r)) = 0
  <1>1. PICK s : SumsOf(s, Raw(r)) /\ s[Len(r.data) + 5] = 0
    BY RawFacts
  <1> QED
    BY <1>1, RawFacts, SumIs

LEMMA SameSequence ==
    ASSUME NEW c \in Seq(Bytes), NEW d \in Seq(Bytes), Len(c) = Len(d),
           \A n \in 1..Len(c) : c[n] = d[n]
    PROVE  c = d
  OBVIOUS

\* Only a record that was written and read without damage has the sum 0.
LEMMA SumOfRecord ==
    ASSUME FileOfRecords, NEW i \in 1..Len(records), damage.at # Begin(i)
    PROVE  LET r == records[i]
               n == Len(r.data) + 5
           IN  /\ Damaged(i) => Sum(BytesAt(file, Begin(i), n)) # 0
               /\ ~Damaged(i) => /\ Sum(BytesAt(file, Begin(i), n)) = 0
                                 /\ \A j \in 1..n : ByteAt(file, Begin(i), j) = Raw(r)[j]
  <1> DEFINE r == records[i]
             n == Len(r.data) + 5
             b == Begin(i)
             text == Text(r)
             c == BytesAt(file, b, n)
  <1>1. /\ ARecord(r) /\ n \in Nat /\ b \in Nat /\ End(i) = b + 2 * n
        /\ \A k \in 1..(2 * n) : /\ file[b + k] \in Characters
                                 /\ damage.at # b + k => file[b + k] = text[k + 1]
                                 /\ damage.at = b + k => damage.was = text[k + 1]
    BY RecordFacts
  <1>2. \A j \in 1..n :
           /\ ByteAt(file, b, j) \in Bytes
           /\ Hex(file, b + 2 * j - 1) \in 0..(BASE - 1) /\ Hex(file, b + 2 * j) \in 0..(BASE - 1)
           /\ Raw(r)[j] = text[2 * j] * BASE + text[2 * j + 1]
           /\ damage.at # b + 2 * j - 1 => Hex(file, b + 2 * j - 1) = text[2 * j]
           /\ damage.at # b + 2 * j => Hex(file, b + 2 * j) = text[2 * j + 1]
           /\ damage.at # b + 2 * j - 1 /\ damage.at # b + 2 * j => ByteAt(file, b, j) = Raw(r)[j]
    BY ByteFacts
  <1>3. Raw(r) \in Seq(Bytes) /\ Len(Raw(r)) = n /\ Sum(Raw(r)) = 0
    BY <1>1, RawFacts, SumOfRaw
  <1>4. c \in Seq(Bytes) /\ Len(c) = n /\ \A j \in 1..n : c[j] = ByteAt(file, b, j)
    BY <1>1, <1>2, BytesAtFacts
  <1>5. Damaged(i) <=> /\ damage.at \in b..End(i)
                       /\ HexDigitToDecimal(file[damage.at]) # damage.was
    BY DEF Damaged
  <1>6. damage.at # b
    OBVIOUS
  <1> HIDE DEF c, n, b, text, r
  <1>7. CASE Damaged(i)
    <2> DEFINE k == damage.at - b
               m == IF k % 2 = 1 THEN (k + 1) \div 2 ELSE k \div 2
    <2>1. k \in 1..(2 * n) /\ damage.at = b + k /\ damage.at \in Nat
      <3>1. damage.at \in b..(b + 2 * n) /\ damage.at # b
        BY <1>1, <1>5, <1>6, <1>7
      <3> QED
        BY <1>1, <3>1
    <2>2. Hex(file, damage.at) # text[k + 1]
      BY <1>1, <1>5, <1>7, <2>1 DEF Hex
    <2> HIDE DEF k
    <2>3. m \in 1..n /\ (k = 2 * m - 1 \/ k = 2 * m)
      <3>1. k \in Nat /\ k >= 1 /\ k <= 2 * n
        BY <1>1, <2>1
      <3>2. k % 2 = 1 => (k + 1) \div 2 \in 1..n /\ k = 2 * ((k + 1) \div 2) - 1
        BY <1>1, <3>1
      <3>3. k % 2 # 1 => k \div 2 \in 1..n /\ k = 2 * (k \div 2)
        BY <1>1, <3>1
      <3> QED
        BY <3>2, <3>3
    <2> HIDE DEF m
    <2>4. \A j \in 1..n : j # m => c[j] = Raw(r)[j]
      <3> TAKE j \in 1..n
      <3>1. j # m => damage.at # b + 2 * j - 1 /\ damage.at # b + 2 * j
        BY <1>1, <2>1, <2>3
      <3> QED
        BY <1>2, <1>4, <3>1
    <2>5. c[m] # Raw(r)[m]
      <3> DEFINE x == Hex(file, b + 2 * m - 1)
                 y == Hex(file, b + 2 * m)
                 v == text[2 * m]
                 w == text[2 * m + 1]
      <3>1. x \in 0..(BASE - 1) /\ y \in 0..(BASE - 1) /\ c[m] = x * BASE + y /\ Raw(r)[m] = v * BASE + w
        BY <1>2, <1>4, <2>3 DEF ByteAt
      <3>2. v \in 0..(BASE - 1) /\ w \in 0..(BASE - 1)
        <4>1. \A p \in 1..Size(r) : text[p + 1] \in 0..(BASE - 1)
          BY <1>1, TextFacts DEF text
        <4>2. Size(r) = 2 * n
          BY DEF Size, n
        <4>3. 2 * m - 1 \in 1..(2 * n) /\ 2 * m \in 1..(2 * n) /\ (2 * m - 1) + 1 = 2 * m
          BY <1>1, <2>3
        <4> QED
          BY <4>1, <4>2, <4>3
      <3>3. (x # v /\ y = w) \/ (x = v /\ y # w)
        <4>1. CASE k = 2 * m - 1
          <5>1. damage.at = b + 2 * m - 1 /\ damage.at # b + 2 * m /\ k + 1 = 2 * m
            BY <1>1, <2>1, <2>3, <4>1
          <5>2. x # v
            BY <2>2, <5>1
          <5>3. y = w
            BY <1>2, <2>3, <5>1
          <5> QED
            BY <5>2, <5>3
        <4>2. CASE k = 2 * m
          <5>1. damage.at = b + 2 * m /\ damage.at # b + 2 * m - 1 /\ k + 1 = 2 * m + 1
            BY <1>1, <2>1, <2>3, <4>2
          <5>2. y # w
            BY <2>2, <5>1
          <5>3. x = v
            BY <1>2, <2>3, <5>1
          <5> QED
            BY <5>2, <5>3
        <4> QED
          BY <2>3, <4>1, <4>2
      <3> HIDE DEF x, y, v, w
      <3>4. BASE \in Nat /\ BASE > 0
        BY Constants
      <3>5. x # v => x * BASE # v * BASE
        <4>1. x < v => (x + 1) * BASE <= v * BASE
          BY <3>1, <3>2, <3>4
        <4>2. v < x => (v + 1) * BASE <= x * BASE
          BY <3>1, <3>2, <3>4
        <4>3. (x + 1) * BASE = x * BASE + BASE /\ (v + 1) * BASE = v * BASE + BASE
              /\ x * BASE \in Nat /\ v * BASE \in Nat
          BY <3>1, <3>2, <3>4
        <4> QED
          BY <3>1, <3>2, <3>4, <4>1, <4>2, <4>3
      <3>6. x * BASE \in Int /\ v * BASE \in Int
        BY <3>1, <3>2, <3>4
      <3> QED
        BY <3>1, <3>2, <3>3, <3>5, <3>6
    <2>6. Sum(c) # Sum(Raw(r))
      BY <1>3, <1>4, <2>3, <2>4, <2>5, SumChanged
    <2> QED
      BY <1>3, <1>7, <2>6 DEF c, n, b, r
  <1>8. CASE ~Damaged(i)
    <2>1. \A k \in 1..(2 * n) : Hex(file, b + k) = text[k + 1]
      <3> TAKE k \in 1..(2 * n)
      <3>1. b + k \in b..End(i)
        BY <1>1
      <3>2. CASE damage.at = b + k
        BY <1>1, <1>5, <1>8, <3>1, <3>2 DEF Hex
      <3>3. CASE damage.at # b + k
        <4>1. file[b + k] = text[k + 1]
          BY <1>1, <3>3
        <4>2. text[k + 1] \in 0..(BASE - 1)
          BY <1>1, TextFacts DEF text, n, Size
        <4> QED
          BY <4>1, <4>2, Constants DEF Hex, HexDigitToDecimal
      <3> QED
        BY <3>2, <3>3
    <2>2. \A j \in 1..n : ByteAt(file, b, j) = Raw(r)[j]
      <3> TAKE j \in 1..n
      <3>1. 2 * j - 1 \in 1..(2 * n) /\ 2 * j \in 1..(2 * n)
            /\ b + (2 * j - 1) = b + 2 * j - 1 /\ (2 * j - 1) + 1 = 2 * j
        BY <1>1
      <3>2. Hex(file, b + 2 * j - 1) = text[2 * j] /\ Hex(file, b + 2 * j) = text[2 * j + 1]
        BY <2>1, <3>1
      <3> QED
        BY <1>2, <3>2 DEF ByteAt
    <2>3. c = Raw(r)
      BY <1>3, <1>4, <2>2, SameSequence
    <2> QED
      BY <1>3, <1>8, <2>2, <2>3 DEF c, n, b, r
  <1> QED
    BY <1>7, <1>8

-----------------------------------------------------------------------------
(* What records leave *)

Images == [Binary : [0..(MaxSize - 1) -> Bytes], TotalByteCount : Nat]
Empty == [Binary |-> NoImage, TotalByteCount |-> 0]

\* h holds what the first of the records leave.
StoresOf(rs, K, h) ==
    /\ h \in [0..Len(rs) -> Images]
    /\ h[0] = Empty
    /\ \A n \in 1..Len(rs) : h[n] = IF n \in K THEN Store(h[n - 1], rs[n]) ELSE h[n - 1]

LEMMA StoreType ==
    ASSUME NEW was \in Images, NEW r, ARecord(r)
    PROVE  Store(was, r) \in Images
  <1>1. was.Binary \in [0..(MaxSize - 1) -> Bytes] /\ was.TotalByteCount \in Nat
    BY DEF Images
  <1>2. r.data \in Seq(Bytes) /\ Len(r.data) \in Nat /\ r.address - APPLICATION_DATA_START \in Int
    BY Constants, HexAssumption DEF ARecord, Records, Addresses
  <1>3. Overlay(was.Binary, r.address - APPLICATION_DATA_START, r.data) \in [0..(MaxSize - 1) -> Bytes]
    BY <1>1, <1>2, OverlayType
  <1>4. was.TotalByteCount + Len(r.data) \in Nat
    BY <1>1, <1>2
  <1> QED
    BY <1>3, <1>4 DEF Store, Images

LEMMA StoresExist ==
    ASSUME NEW rs, SomeRecords(rs), NEW K
    PROVE  \E h : StoresOf(rs, K, h)
  <1> DEFINE N == Len(rs)
             G == [x \in (1..N) \X Images |-> IF x[1] \in K THEN Store(x[2], rs[x[1]]) ELSE x[2]]
  <1>1. N \in Nat /\ \A n \in 1..N : ARecord(rs[n])
    BY DEF SomeRecords
  <1> HIDE DEF N
  <1>2. \A n \in 1..N, v \in Images : Store(v, rs[n]) \in Images
    BY <1>1, StoreType
  <1>3. G \in [(1..N) \X Images -> Images]
    BY <1>2
  <1>4. \A n \in 1..N, v \in Images : G[<<n, v>>] = IF n \in K THEN Store(v, rs[n]) ELSE v
    OBVIOUS
  <1>5. Empty \in Images
    BY Constants DEF Empty, NoImage, Images
  <1> HIDE DEF G
  <1>6. PICK h \in [0..N -> Images] : RunOf(G, Empty, N, h)
    BY <1>1, <1>3, <1>5, RunExists
  <1>7. \A n \in 1..N : h[n - 1] \in Images
    BY <1>1, <1>6
  <1>8. \A n \in 1..N : h[n] = IF n \in K THEN Store(h[n - 1], rs[n]) ELSE h[n - 1]
    BY <1>4, <1>6, <1>7 DEF RunOf
  <1> QED
    BY <1>6, <1>8 DEF StoresOf, RunOf, N

LEMMA LeavesIs ==
    ASSUME NEW rs, SomeRecords(rs), NEW K, NEW h, StoresOf(rs, K, h)
    PROVE  Leaves(rs, K) = h[Len(rs)]
  <1> DEFINE N == Len(rs)
             after[n \in 0..N] ==
                IF n = 0 THEN [Binary |-> NoImage, TotalByteCount |-> 0]
                ELSE IF n \in K THEN Store(after[n - 1], rs[n]) ELSE after[n - 1]
  <1>1. N \in Nat
    BY DEF SomeRecords
  <1>2. Leaves(rs, K) = after[N]
    BY DEF Leaves
  <1>3. /\ h = [n \in 0..N |-> h[n]]
        /\ h[0] = [Binary |-> NoImage, TotalByteCount |-> 0]
        /\ \A n \in 1..N : h[n] = IF n \in K THEN Store(h[n - 1], rs[n]) ELSE h[n - 1]
    BY DEF StoresOf, Empty
  <1> HIDE DEF N
  <1>4. \A n \in 0..N : n # 0 => n \in 1..N
    BY <1>1
  <1>5. \A n \in 0..N : h[n] = IF n = 0 THEN [Binary |-> NoImage, TotalByteCount |-> 0]
                               ELSE IF n \in K THEN Store(h[n - 1], rs[n]) ELSE h[n - 1]
    BY <1>3, <1>4, Zenon
  <1>6. h = [n \in 0..N |-> IF n = 0 THEN [Binary |-> NoImage, TotalByteCount |-> 0]
                            ELSE IF n \in K THEN Store(h[n - 1], rs[n]) ELSE h[n - 1]]
    BY <1>3, <1>5, Zenon
  <1>7. after = [n \in 0..N |-> IF n = 0 THEN [Binary |-> NoImage, TotalByteCount |-> 0]
                                ELSE IF n \in K THEN Store(after[n - 1], rs[n]) ELSE after[n - 1]]
    BY <1>6, Zenon
  <1> HIDE DEF after
  <1>8. \A n \in 0..N : after[n] = IF n = 0 THEN [Binary |-> NoImage, TotalByteCount |-> 0]
                                   ELSE IF n \in K THEN Store(after[n - 1], rs[n]) ELSE after[n - 1]
    BY <1>7, Zenon
  <1> DEFINE S == {n \in 0..N : after[n] = h[n]}
  <1>9. 0 \in S
    <2>1. 0 \in 0..N
      BY <1>1
    <2>2. after[0] = h[0]
      BY <1>3, <1>8, <2>1, Zenon
    <2> QED
      BY <2>1, <2>2
  <1>10. ASSUME NEW n \in 1..N, n - 1 \in S PROVE n \in S
    <2>1. after[n - 1] = h[n - 1] /\ n \in 0..N /\ n # 0
      BY <1>10
    <2>2. after[n] = IF n \in K THEN Store(after[n - 1], rs[n]) ELSE after[n - 1]
      BY <1>8, <2>1, Zenon
    <2>3. h[n] = IF n \in K THEN Store(h[n - 1], rs[n]) ELSE h[n - 1]
      BY <1>3
    <2>4. after[n] = h[n]
      BY <2>1, <2>2, <2>3
    <2> QED
      BY <2>1, <2>4
  <1> HIDE DEF S
  <1>11. 0..N \subseteq S
    BY <1>1, <1>9, <1>10, RangeInduction
  <1>12. N \in S
    BY <1>1, <1>11
  <1> QED
    BY <1>2, <1>12 DEF S, N

\* A record that lies behind the others is stored over what they leave.
LEMMA LeavesOneMore ==
    ASSUME NEW rs, SomeRecords(rs), NEW i \in 1..Len(rs), NEW K, K \subseteq 1..(i - 1)
    PROVE  Leaves(rs, K \cup {i}) = Store(Leaves(rs, K), rs[i])
  <1> DEFINE N == Len(rs)
             J == K \cup {i}
  <1>1. N \in Nat /\ i \in 1..N /\ i \in Nat
    BY DEF SomeRecords
  <1>2. PICK h : StoresOf(rs, K, h)
    BY StoresExist
  <1>3. PICK g : StoresOf(rs, J, g)
    BY StoresExist
  <1>4. Leaves(rs, K) = h[N] /\ Leaves(rs, J) = g[N]
    BY <1>2, <1>3, LeavesIs
  <1>5. /\ h[0] = Empty /\ \A n \in 1..N : h[n] = IF n \in K THEN Store(h[n - 1], rs[n]) ELSE h[n - 1]
        /\ g[0] = Empty /\ \A n \in 1..N : g[n] = IF n \in J THEN Store(g[n - 1], rs[n]) ELSE g[n - 1]
    BY <1>2, <1>3 DEF StoresOf
  <1>6. /\ \A n \in 1..N : n # i => (n \in J <=> n \in K)
        /\ i \in J
        /\ \A n \in K : n < i
    BY <1>1
  <1> HIDE DEF N, J
  <1> DEFINE S == {n \in 0..N : IF n < i THEN g[n] = h[n]
                                ELSE h[n] = h[i - 1] /\ g[n] = Store(h[i - 1], rs[i])}
  <1>7. 0 \in S
    BY <1>1, <1>5
  <1>8. ASSUME NEW n \in 1..N, n - 1 \in S PROVE n \in S
    <2>1. n \in 0..N /\ n \in Nat
      BY <1>1
    <2>2. CASE n < i
      <3>1. n - 1 < i /\ n # i
        BY <1>1, <2>1, <2>2
      <3>2. g[n - 1] = h[n - 1] /\ (n \in J <=> n \in K)
        BY <1>6, <1>8, <3>1
      <3>3. g[n] = h[n]
        BY <1>5, <3>2, Zenon
      <3> QED
        BY <2>1, <2>2, <3>3
    <2>3. CASE n = i
      <3>1. n - 1 < i /\ n - 1 = i - 1 /\ ~(n < i)
        BY <1>1, <2>3
      <3>2. g[n - 1] = h[i - 1] /\ h[n - 1] = h[i - 1] /\ n \notin K /\ n \in J
        BY <1>6, <1>8, <2>3, <3>1
      <3>3. g[n] = Store(g[n - 1], rs[n]) /\ h[n] = h[n - 1]
        BY <1>5, <3>2
      <3> QED
        BY <2>1, <2>3, <3>1, <3>2, <3>3
    <2>4. CASE i < n
      <3>1. ~(n - 1 < i) /\ ~(n < i) /\ n # i
        BY <1>1, <2>1, <2>4
      <3>2. h[n - 1] = h[i - 1] /\ g[n - 1] = Store(h[i - 1], rs[i]) /\ n \notin K /\ n \notin J
        BY <1>6, <1>8, <3>1
      <3>3. g[n] = g[n - 1] /\ h[n] = h[n - 1]
        BY <1>5, <3>2
      <3> QED
        BY <2>1, <3>1, <3>2, <3>3
    <2> QED
      BY <1>1, <2>1, <2>2, <2>3, <2>4
  <1> HIDE DEF S
  <1>9. 0..N \subseteq S
    BY <1>1, <1>7, <1>8, RangeInduction
  <1>10. N \in S /\ ~(N < i)
    BY <1>1, <1>9
  <1> QED
    BY <1>4, <1>10 DEF S, J

LEMMA LeavesNothing ==
    ASSUME NEW rs, SomeRecords(rs)
    PROVE  Leaves(rs, {}) = Empty
  <1> DEFINE N == Len(rs)
  <1>1. N \in Nat
    BY DEF SomeRecords
  <1>2. PICK h : StoresOf(rs, {}, h)
    BY StoresExist
  <1>3. Leaves(rs, {}) = h[N]
    BY <1>2, LeavesIs
  <1>4. h[0] = Empty /\ \A n \in 1..N : h[n] = h[n - 1]
    BY <1>2 DEF StoresOf
  <1> HIDE DEF N
  <1> DEFINE S == {n \in 0..N : h[n] = Empty}
  <1>5. 0 \in S
    BY <1>1, <1>4
  <1>6. ASSUME NEW n \in 1..N, n - 1 \in S PROVE n \in S
    BY <1>4, <1>6
  <1> HIDE DEF S
  <1>7. 0..N \subseteq S
    BY <1>1, <1>5, <1>6, RangeInduction
  <1>8. N \in S
    BY <1>1, <1>7
  <1> QED
    BY <1>3, <1>8 DEF S

-----------------------------------------------------------------------------
(* The image holds the records *)

\* Where the text of a record ends, the parser reads its checksum or waits because
\* the colon is damaged.
LEMMA AtTheEnd ==
    ASSUME IInv, ~overrun, ~Misframed, NEW i \in 1..Len(records), pos + 1 = End(i),
           damage.at # Begin(i)
    PROVE  InRecord(i) /\ ParseState = "CHECKSUM" /\ digits = 1
  <1>1. TypeInv /\ InPlace /\ FileOfRecords /\ pos \in Nat
    BY TypeInvIs DEF IInv, TypeInv
  <1>2. /\ Begin(i) \in Nat /\ Len(records[i].data) \in Nat
        /\ End(i) = Begin(i) + 2 * (Len(records[i].data) + 5)
    BY <1>1, RecordFacts
  <1>3. ParseState # "START_OF_LINE"
    <2>1. Begin(i) <= pos /\ pos < End(i)
      BY <1>1, <1>2
    <2>2. ~Waiting
      BY <2>1 DEF Waiting
    <2> QED
      BY <1>1, <2>2 DEF InPlace
  <1>4. PICK k \in 1..Len(records) : InRecord(k)
    BY <1>1, <1>3 DEF InPlace
  <1> DEFINE L == Len(records[k].data)
             b == Begin(k)
             e == End(k)
  <1>5. /\ L \in Nat /\ b \in Nat /\ e = b + 2 * (L + 5) /\ pos = b + 2 * BytesRead + digits
        /\ BytesRead \in Nat /\ BytesRead <= L + 4 /\ digits \in Nat
        /\ ParseState = "ADDRESS" => BytesRead = 1
        /\ ParseState = "DATA" => Len(Line.Data) < L
        /\ ParseState \in Fields /\ digits < NumDigits[ParseState] /\ LineOK(Line)
    <2>1. TypeInv /\ k \in 1..Len(records) /\ InRecord(k) /\ ParseState # "START_OF_LINE"
      BY <1>1, <1>3, <1>4
    <2>2. /\ L \in Nat /\ b \in Nat /\ e = b + 2 * (L + 5) /\ pos = b + 2 * BytesRead + digits
          /\ BytesRead \in Nat /\ BytesRead <= L + 4 /\ digits \in 0..3
          /\ ParseState = "ADDRESS" => BytesRead = 1
          /\ ParseState = "DATA" => Len(Line.Data) < L
          /\ ParseState \in Fields /\ digits < NumDigits[ParseState] /\ LineOK(Line)
      BY <2>1, InRecordFacts, Zenon
    <2>3. digits \in Nat
      BY <2>2
    <2> QED
      BY <2>2, <2>3, Zenon
  <1>6. Len(Line.Data) \in Nat
    BY <1>5, LineParts
  <1>7. /\ ParseState # "ADDRESS" => digits <= 1
        /\ ParseState = "ADDRESS" => digits <= 3
    <2>1. /\ ParseState # "ADDRESS" => NumDigits[ParseState] = 2
          /\ ParseState = "ADDRESS" => NumDigits[ParseState] = 4
      BY <1>5, FieldFacts DEF Fields
    <2> QED
      BY <1>5, <2>1
  <1>8. ParseState # "CHECKSUM" => BytesRead < L + 4
    <2>1. ParseState # "CHECKSUM" => \/ BytesRead \in {0, 1, 3}
                                     \/ ParseState = "DATA" /\ BytesRead = 4 + Len(Line.Data)
      BY <1>5 DEF BytesRead, Fields
    <2> HIDE DEF L
    <2> QED
      BY <1>5, <1>6, <2>1
  <1> HIDE DEF L, b, e
  <1>9. b <= pos /\ pos < e /\ (pos + 1 = e => ParseState = "CHECKSUM" /\ digits = 1)
    <2>1. CASE ParseState = "ADDRESS"
      BY <1>5, <1>7, <2>1
    <2>2. CASE ParseState = "CHECKSUM"
      BY <1>5, <1>7, <2>2
    <2>3. CASE ParseState \notin {"ADDRESS", "CHECKSUM"}
      BY <1>5, <1>7, <1>8, <2>3
    <2> QED
      BY <2>1, <2>2, <2>3
  <1>10. k = i
    <2>1. k < i => e + 2 <= Begin(i)
      BY <1>1, Apart DEF e
    <2>2. i < k => End(i) + 2 <= b
      BY <1>1, Apart DEF b
    <2>3. e \in Nat /\ End(i) \in Nat /\ Begin(i) + 10 <= End(i)
      BY <1>2, <1>5
    <2>4. ~(k < i)
      BY <1>1, <1>2, <1>9, <2>1, <2>3
    <2>5. ~(i < k)
      BY <1>1, <1>5, <1>9, <2>2, <2>3
    <2>6. k \in Int /\ i \in Int
      OBVIOUS
    <2> QED
      BY <2>4, <2>5, <2>6
  <1> QED
    BY <1>4, <1>9, <1>10 DEF e

\* The records that count are another set only where a record ends.
LEMMA KeptNext ==
    ASSUME IInv, Read, ~Misframed
    PROVE  /\ \A i \in 1..Len(records) : Kept(i) => Kept(i)'
           /\ \A i \in 1..Len(records) : Kept(i)' /\ ~Kept(i) => pos + 1 = End(i)
           /\ \A i \in 1..Len(records) : pos + 1 = End(i) =>
                 /\ ~Kept(i)
                 /\ Kept(i)' <=> /\ ~Damaged(i)
                                 /\ records[i].type = 0
                                 /\ records[i].address >= APPLICATION_DATA_START
  <1>1. /\ pos' = pos + 1 /\ file' = file /\ records' = records /\ damage' = damage
        /\ \A i : Begin(i)' = Begin(i) /\ End(i)' = End(i)
    BY SameFile
  <1>2. \A i : Damaged(i)' <=> Damaged(i)
    BY <1>1 DEF Damaged
  <1>3. pos \in Nat /\ FileOfRecords
    BY TypeInvIs DEF IInv, TypeInv
  <1>4. \A i \in 1..Len(records) : End(i) \in Nat
    BY <1>3, RecordFacts
  <1>5. \A i \in 1..Len(records) : End(i) <= pos + 1 <=> End(i) <= pos \/ pos + 1 = End(i)
    BY <1>3, <1>4
  <1>6. \A i : Kept(i)' <=> /\ End(i) <= pos + 1
                            /\ ~Damaged(i)
                            /\ records[i].type = 0
                            /\ records[i].address >= APPLICATION_DATA_START
    BY <1>1, <1>2 DEF Kept
  <1>7. \A i \in 1..Len(records) : pos + 1 = End(i) => End(i) <= pos + 1 /\ ~(End(i) <= pos)
    BY <1>3, <1>4
  <1> QED
    BY <1>5, <1>6, <1>7 DEF Kept

\* Before the end of record i only earlier records count.
LEMMA KeptBefore ==
    ASSUME IInv, NEW i \in 1..Len(records), pos + 1 = End(i)
    PROVE  KeptRecords \subseteq 1..(i - 1)
  <1>1. pos \in Nat /\ FileOfRecords
    BY TypeInvIs DEF IInv, TypeInv
  <1> SUFFICES ASSUME NEW j \in 1..Len(records), End(j) <= pos PROVE j < i
    BY DEF KeptRecords, Kept
  <1>2. /\ End(i) \in Nat /\ End(j) \in Nat /\ Begin(j) \in Nat
        /\ End(j) = Begin(j) + 2 * (Len(records[j].data) + 5) /\ Len(records[j].data) \in Nat
    BY <1>1, RecordFacts
  <1>3. i < j => End(i) + 2 <= Begin(j)
    BY <1>1, Apart
  <1>4. j # i
    BY <1>1, <1>2
  <1>5. Begin(j) <= End(j)
    BY <1>2
  <1>6. ASSUME i < j PROVE FALSE
    <2> DEFINE b == Begin(j)
               e == End(j)
               d == End(i)
    <2>1. b \in Nat /\ e \in Nat /\ d \in Nat /\ b <= e /\ d + 2 <= b /\ e <= pos /\ pos + 1 = d
      BY <1>2, <1>3, <1>5, <1>6
    <2> HIDE DEF b, e, d
    <2> QED
      BY <1>1, <2>1
  <1> QED
    BY <1>4, <1>6

\* The parser stores a record if and only if it counts, and stores its data.
LEMMA StoredRecord ==
    ASSUME IInv, NEW i \in 1..Len(records), InRecord(i), ParseState = "CHECKSUM", digits = 1,
           pos < Len(file)
    PROVE  LET r == records[i]
           IN  /\ Accepted(Field) <=> /\ ~Damaged(i)
                                      /\ r.type = 0
                                      /\ r.address >= APPLICATION_DATA_START
               /\ Accepted(Field) => /\ Line.address = r.address
                                     /\ Line.Data = r.data
                                     /\ Line.count = Len(r.data)
  <1> DEFINE r == records[i]
             L == Len(r.data)
             b == Begin(i)
             B(j) == ByteAt(file, b, j)
  <1>1. TypeInv /\ FileOfRecords /\ LineOK(Line)
    BY TypeInvIs DEF IInv, TypeInv
  <1>2. BytesRead = L + 4 /\ L \in Nat
    BY <1>1, ChecksumPlace, InRecordFacts
  <1>3. ARecord(r)
    BY <1>1, RecordFacts
  <1>4. /\ damage.at # b /\ Line.count = L
        /\ Line.address = B(2) * BYTE + B(3)
        /\ Line.type = B(4)
        /\ Len(Line.Data) = L /\ \A j \in 1..L : Line.Data[j] = B(j + 4)
    <2>1. BytesRead >= 1 /\ BytesRead >= 3 /\ BytesRead >= 4
      BY <1>2
    <2> QED
      BY <2>1 DEF InRecord
  <1>5. (Line.Checksum + Field) % BYTE = Sum(BytesAt(file, b, L + 5))
    <2>1. Add(Field) = Sum(BytesAt(file, b, BytesRead + 1))
      BY <1>1, SumOfField
    <2>2. BytesRead + 1 = L + 5
      BY <1>2
    <2> QED
      BY <2>1, <2>2 DEF Add
  <1>6. /\ Damaged(i) => Sum(BytesAt(file, b, L + 5)) # 0
        /\ ~Damaged(i) => /\ Sum(BytesAt(file, b, L + 5)) = 0
                          /\ \A j \in 1..(L + 5) : B(j) = Raw(r)[j]
    BY <1>1, <1>4, SumOfRecord
  <1>7. CASE Damaged(i)
    BY <1>5, <1>6, <1>7 DEF Accepted
  <1>8. CASE ~Damaged(i)
    <2>1. 2 \in 1..(L + 5) /\ 3 \in 1..(L + 5) /\ 4 \in 1..(L + 5) /\ \A j \in 1..L : j + 4 \in 1..(L + 5)
      BY <1>2
    <2>2. /\ B(2) = Raw(r)[2] /\ B(3) = Raw(r)[3] /\ B(4) = Raw(r)[4]
          /\ \A j \in 1..L : B(j + 4) = Raw(r)[j + 4]
      BY <1>6, <1>8, <2>1
    <2>3. /\ Raw(r)[2] = r.address \div BYTE /\ Raw(r)[3] = r.address % BYTE /\ Raw(r)[4] = r.type
          /\ \A j \in 1..L : Raw(r)[j + 4] = r.data[j]
      BY <1>3, RawFacts
    <2>4. (r.address \div BYTE) * BYTE + (r.address % BYTE) = r.address
      <3>1. r.address \in 0..(BYTE * BYTE - 1) /\ BYTE \in Nat /\ BYTE > 0
        BY <1>3, Constants DEF ARecord, Records, Addresses
      <3> QED
        BY <3>1, TwoDigits
    <2>5. Line.address = r.address /\ Line.type = r.type
      BY <1>4, <2>2, <2>3, <2>4
    <2>6. Line.Data = r.data
      <3>1. Line.Data \in Seq(Bytes) /\ r.data \in Seq(Bytes)
        BY <1>1, <1>3, LineParts, RawFacts
      <3>2. \A j \in 1..Len(Line.Data) : Line.Data[j] = r.data[j]
        BY <1>4, <2>2, <2>3
      <3> QED
        BY <1>4, <3>1, <3>2, SameSequence
    <2>7. (Line.Checksum + Field) % BYTE = 0
      BY <1>5, <1>6, <1>8
    <2> QED
      BY <1>4, <1>8, <2>5, <2>6, <2>7 DEF Accepted
  <1> QED
    BY <1>7, <1>8

\* Nothing is stored and no record ends.
LEMMA NothingStored ==
    ASSUME IInv, HoldsTheRecords, Read, ~Misframed, UNCHANGED imageVars,
           \A i \in 1..Len(records) : pos + 1 = End(i) => ~Kept(i)'
    PROVE  [Binary |-> Binary', TotalByteCount |-> TotalByteCount'] = Leaves(records', KeptRecords')
  <1>1. records' = records /\ ~overrun
    BY SameFile
  <1>2. KeptRecords' = KeptRecords
    <2>1. \A i \in 1..Len(records) : Kept(i)' <=> Kept(i)
      BY KeptNext
    <2> QED
      BY <1>1, <2>1 DEF KeptRecords
  <1>3. Binary' = Binary /\ TotalByteCount' = TotalByteCount
    BY DEF imageVars
  <1> QED
    BY <1>1, <1>2, <1>3 DEF HoldsTheRecords

\* A step that does not finish a record's checksum finishes no record.
LEMMA NoRecordEnds ==
    ASSUME IInv, Read, ~Misframed, ~(ParseState = "CHECKSUM" /\ digits = 1)
    PROVE  \A i \in 1..Len(records) : pos + 1 = End(i) => ~Kept(i)'
  <1> SUFFICES ASSUME NEW i \in 1..Len(records), pos + 1 = End(i) PROVE ~Kept(i)'
    OBVIOUS
  <1>1. ~overrun /\ FileOfRecords
    BY DEF Read, IInv
  <1>2. damage.at = Begin(i)
    BY <1>1, AtTheEnd
  <1>3. Damaged(i)
    <2>1. Begin(i) \in Nat /\ Len(records[i].data) \in Nat
          /\ End(i) = Begin(i) + 2 * (Len(records[i].data) + 5)
      BY <1>1, RecordFacts
    <2>2. Begin(i) \in Begin(i)..End(i)
      BY <2>1
    <2> QED
      BY <1>2, <2>2 DEF Damaged
  <1> QED
    BY <1>3, KeptNext

LEMMA LineChecksumHolds ==
    ASSUME IInv, HoldsTheRecords, LineChecksum, ~Misframed'
    PROVE  [Binary |-> Binary', TotalByteCount |-> TotalByteCount'] = Leaves(records', KeptRecords')
  <1>1. LastDigit("CHECKSUM")
    BY DEF LineChecksum
  <1>2. "CHECKSUM" \in Fields
    BY DEF Fields
  <1>3. TypeInv /\ InPlace
    BY DEF IInv, TypeInv
  <1>4. /\ Read /\ ParseState = "CHECKSUM" /\ digits = 1 /\ pos < Len(file) /\ records' = records
        /\ ~Misframed
    BY <1>1, <1>2, <1>3, LastDigitInPlace, FieldFacts
  <1>5. ~overrun
    BY <1>4 DEF Read
  <1>6. PICK i \in 1..Len(records) : InRecord(i)
    BY <1>1, <1>2, <1>3, LastDigitInPlace, Zenon
  <1>7. pos + 1 = End(i)
    BY <1>3, <1>4, <1>6, ChecksumPlace
  <1> DEFINE r == records[i]
             counts == ~Damaged(i) /\ r.type = 0 /\ r.address >= APPLICATION_DATA_START
  <1>8. /\ Accepted(Field) <=> counts
        /\ Accepted(Field) => Line.address = r.address /\ Line.Data = r.data /\ Line.count = Len(r.data)
    BY <1>4, <1>6, StoredRecord
  <1>9. ~Kept(i) /\ (Kept(i)' <=> counts)
    BY <1>4, <1>7, KeptNext
  <1>10. \A j \in 1..Len(records) : j # i => (Kept(j)' <=> Kept(j))
    <2>1. ASSUME NEW j \in 1..Len(records), pos + 1 = End(j), j # i PROVE FALSE
      <3>1. FileOfRecords /\ pos \in Nat
        BY <1>3, TypeInvIs
      <3>2. /\ Begin(i) \in Nat /\ End(i) = Begin(i) + 2 * (Len(records[i].data) + 5)
            /\ Len(records[i].data) \in Nat
            /\ Begin(j) \in Nat /\ End(j) = Begin(j) + 2 * (Len(records[j].data) + 5)
            /\ Len(records[j].data) \in Nat
        BY <3>1, RecordFacts
      <3>3. End(i) = End(j) /\ Begin(i) < End(i) /\ Begin(j) < End(j) /\ End(i) \in Nat
        BY <1>7, <2>1, <3>2
      <3>4. i < j => End(i) + 2 <= Begin(j)
        BY <3>1, Apart
      <3>5. j < i => End(j) + 2 <= Begin(i)
        BY <3>1, Apart
      <3>6. i < j \/ j < i
        BY <2>1
      <3>7. CASE i < j
        BY <3>2, <3>3, <3>4, <3>7
      <3>8. CASE j < i
        BY <3>2, <3>3, <3>5, <3>8
      <3> QED
        BY <3>6, <3>7, <3>8
    <2> QED
      BY <1>4, <2>1, KeptNext
  <1>11. [Binary |-> Binary, TotalByteCount |-> TotalByteCount] = Leaves(records, KeptRecords)
    BY <1>4, <1>5 DEF HoldsTheRecords
  <1>12. CASE counts
    <2>1. /\ Binary' = Overlay(Binary, Line.address - APPLICATION_DATA_START, Line.Data)
          /\ TotalByteCount' = TotalByteCount + Line.count
      BY <1>8, <1>12 DEF LineChecksum
    <2>2. [Binary |-> Binary', TotalByteCount |-> TotalByteCount'] =
             Store([Binary |-> Binary, TotalByteCount |-> TotalByteCount], r)
      BY <1>8, <1>12, <2>1 DEF Store
    <2>3. KeptRecords' = KeptRecords \cup {i}
      BY <1>4, <1>9, <1>10, <1>12 DEF KeptRecords
    <2>4. SomeRecords(records)
      BY <1>3, FileFacts DEF TypeInv
    <2>5. KeptRecords \subseteq 1..(i - 1)
      BY <1>7, KeptBefore
    <2>6. Leaves(records, KeptRecords \cup {i}) = Store(Leaves(records, KeptRecords), records[i])
      BY <2>4, <2>5, LeavesOneMore
    <2> QED
      BY <1>4, <1>11, <2>2, <2>3, <2>6
  <1>13. CASE ~counts
    <2>1. Binary' = Binary /\ TotalByteCount' = TotalByteCount
      BY <1>8, <1>13 DEF LineChecksum, imageVars
    <2>2. KeptRecords' = KeptRecords
      BY <1>4, <1>9, <1>10, <1>13 DEF KeptRecords
    <2> QED
      BY <1>4, <1>11, <2>1, <2>2
  <1> QED
    BY <1>12, <1>13

LEMMA HoldsNext == IInv /\ HoldsTheRecords /\ [ParseHexFile]_hexVars => HoldsTheRecords'
  <1> SUFFICES ASSUME IInv, HoldsTheRecords, [ParseHexFile]_hexVars, ~Misframed', ~overrun'
               PROVE  [Binary |-> Binary', TotalByteCount |-> TotalByteCount'] =
                         Leaves(records', KeptRecords')
    BY DEF HoldsTheRecords
  <1>1. CASE UNCHANGED hexVars
    <2>1. /\ file' = file /\ records' = records /\ damage' = damage /\ overrun' = overrun /\ pos' = pos
          /\ Binary' = Binary /\ TotalByteCount' = TotalByteCount
      BY <1>1 DEF hexVars, fileVars, imageVars
    <2>2. \A i : Begin(i)' = Begin(i) /\ End(i)' = End(i)
      BY <2>1 DEF Begin, End
    <2>3. ~Misframed
      BY <2>1, <2>2 DEF Misframed, CountDamaged, EndOfLineIsColon
    <2>4. KeptRecords' = KeptRecords
      BY <2>1, <2>2 DEF KeptRecords, Kept, Damaged
    <2> QED
      BY <2>1, <2>3, <2>4 DEF HoldsTheRecords
  <1>2. CASE LineChecksum
    BY <1>2, LineChecksumHolds
  <1>3. CASE StartOfLine \/ FirstDigits \/ ByteCount \/ Address \/ RecordType \/ DataByte
    <2>1. Read /\ UNCHANGED imageVars
      BY <1>3 DEF StartOfLine, FirstDigits, ByteCount, Address, RecordType, DataByte, LastDigit, imageVars
    <2>2. ~Misframed
      BY <2>1, SameFile
    <2>3. ~(ParseState = "CHECKSUM" /\ digits = 1)
      <3>1. CASE FirstDigits
        <4>1. digits < NumDigits[ParseState] - 1
          BY <3>1 DEF FirstDigits
        <4>2. ParseState = "CHECKSUM" => digits < 1
          BY <4>1, FieldFacts
        <4> QED
          BY <4>2
      <3>2. CASE StartOfLine \/ ByteCount \/ Address \/ RecordType \/ DataByte
        BY <3>2 DEF StartOfLine, ByteCount, Address, RecordType, DataByte, LastDigit
      <3> QED
        BY <1>3, <3>1, <3>2
    <2>4. \A i \in 1..Len(records) : pos + 1 = End(i) => ~Kept(i)'
      BY <2>1, <2>2, <2>3, NoRecordEnds
    <2> QED
      BY <2>1, <2>2, <2>4, NothingStored
  <1> QED
    BY <1>1, <1>2, <1>3 DEF ParseHexFile

LEMMA HoldsInit == Init => HoldsTheRecords
  <1> SUFFICES ASSUME Init
               PROVE  [Binary |-> Binary, TotalByteCount |-> TotalByteCount] =
                         Leaves(records, KeptRecords)
    BY DEF HoldsTheRecords
  <1>1. FileOfRecords /\ pos = 0 /\ Binary = NoImage /\ TotalByteCount = 0
    BY DEF Init
  <1>2. KeptRecords = {}
    <2>1. ASSUME NEW i \in 1..Len(records) PROVE ~(End(i) <= 0)
      <3>1. Begin(i) \in Nat /\ Begin(i) >= 1 /\ Len(records[i].data) \in Nat
            /\ End(i) = Begin(i) + 2 * (Len(records[i].data) + 5)
        BY <1>1, RecordFacts
      <3> QED
        BY <3>1
    <2> QED
      BY <1>1, <2>1 DEF KeptRecords, Kept
  <1>3. Leaves(records, {}) = Empty
    BY <1>1, FileFacts, LeavesNothing
  <1> QED
    BY <1>1, <1>2, <1>3 DEF Empty

\* Wherever the file ends, the image and its length are what the undamaged data
\* records read so far leave at their addresses, the later over the earlier: a record
\* with a damaged character is never stored, and it costs no other record anything,
\* unless the damage is in a count or makes an end of a line a colon.
THEOREM ImageHoldsTheRecords == Spec => []HoldsTheRecords
  BY IInvInit, IInvNext, HoldsInit, HoldsNext, PTL DEF Spec

-----------------------------------------------------------------------------
(* The count covers the image *)

\* Each of the records begins at the start or where an earlier one of them ends.
Joined(rs, K) ==
    \A i \in K :
        \/ rs[i].address = APPLICATION_DATA_START
        \/ \E j \in K : j < i /\ rs[i].address = rs[j].address + Len(rs[j].data)

\* What the first n records leave ends within their count.
Covered(rs, K, h, n) ==
    /\ \A j \in K : j <= n => (rs[j].address + Len(rs[j].data)) - APPLICATION_DATA_START <= h[n].TotalByteCount
    /\ \A a \in 0..(MaxSize - 1) : h[n].Binary[a] # 0 => a < h[n].TotalByteCount

LEMMA CoveredNext ==
    ASSUME NEW rs, SomeRecords(rs), NEW K, K \subseteq 1..Len(rs), Joined(rs, K),
           NEW h, StoresOf(rs, K, h), NEW n \in 1..Len(rs), Covered(rs, K, h, n - 1)
    PROVE  Covered(rs, K, h, n)
  <1> DEFINE was == h[n - 1]
             now == h[n]
             T == was.TotalByteCount
             end(j) == rs[j].address + Len(rs[j].data)
             S == APPLICATION_DATA_START
  <1>1. Len(rs) \in Nat /\ n - 1 \in 0..Len(rs) /\ n \in 0..Len(rs) /\ n \in Nat
    BY DEF SomeRecords
  <1>2. was \in Images /\ now \in Images
    BY <1>1 DEF StoresOf
  <1>3. T \in Nat /\ was.Binary \in [0..(MaxSize - 1) -> Bytes]
    BY <1>2 DEF Images
  <1>4. S \in Nat /\ \A j \in 1..Len(rs) : rs[j].address \in Nat /\ Len(rs[j].data) \in Nat /\ end(j) \in Nat
    <2>1. \A j \in 1..Len(rs) : ARecord(rs[j])
      BY DEF SomeRecords
    <2>2. \A j \in 1..Len(rs) : rs[j].address \in Nat /\ Len(rs[j].data) \in Nat
      BY <2>1, DataLength, Constants DEF ARecord, Records, Addresses
    <2> QED
      BY <2>2, Constants, HexAssumption DEF Addresses
  <1>5. /\ \A j \in K : j <= n - 1 => end(j) - S <= T
        /\ \A a \in 0..(MaxSize - 1) : was.Binary[a] # 0 => a < T
    BY DEF Covered
  <1>6. CASE n \notin K
    <2>1. now = was
      BY <1>6 DEF StoresOf
    <2>2. \A j \in K : j <= n => j <= n - 1
      BY <1>1, <1>6
    <2> QED
      BY <1>5, <2>1, <2>2 DEF Covered
  <1>7. CASE n \in K
    <2> DEFINE r == rs[n]
               first == r.address - S
               len == Len(r.data)
    <2>1. now = Store(was, r)
      BY <1>7 DEF StoresOf
    <2>2. now.Binary = Overlay(was.Binary, first, r.data) /\ now.TotalByteCount = T + len
      BY <2>1 DEF Store
    <2>3. first \in Int /\ len \in Nat /\ end(n) - S = first + len
      BY <1>4
    <2>4. first <= T
      <3>1. CASE r.address = S
        BY <1>3, <1>4, <3>1
      <3>2. ASSUME NEW j \in K, j < n, r.address = end(j) PROVE first <= T
        <4>1. j <= n - 1
          BY <1>1, <3>2
        <4> QED
          BY <1>5, <3>2, <4>1
      <3> QED
        BY <1>7, <3>1, <3>2 DEF Joined
    <2> HIDE DEF T, S, end, first, len
    <2>5. ASSUME NEW j \in K, j <= n PROVE end(j) - S <= T + len
      <3>1. CASE j = n
        BY <1>3, <2>3, <2>4, <3>1
      <3>2. CASE j # n
        <4>1. j <= n - 1 /\ end(j) \in Nat
          BY <1>1, <1>4, <2>5, <3>2
        <4>2. end(j) - S <= T
          BY <1>5, <4>1
        <4> QED
          BY <1>3, <1>4, <2>3, <4>1, <4>2
      <3> QED
        BY <3>1, <3>2
    <2>6. ASSUME NEW a \in 0..(MaxSize - 1), now.Binary[a] # 0 PROVE a < T + len
      <3>1. now.Binary[a] = IF a - first \in 0..(len - 1) THEN r.data[a - first + 1] ELSE was.Binary[a]
        BY <1>3, <2>2 DEF Overlay, len
      <3>2. CASE a - first \in 0..(len - 1)
        <4>1. a \in Nat
          BY HexAssumption
        <4> QED
          BY <1>3, <2>3, <2>4, <3>2, <4>1
      <3>3. CASE a - first \notin 0..(len - 1)
        <4>1. a < T /\ a \in Nat
          BY <1>5, <2>6, <3>1, <3>3
        <4> QED
          BY <1>3, <2>3, <4>1
      <3> QED
        BY <3>2, <3>3
    <2>7. /\ \A j \in K : j <= n => end(j) - S <= now.TotalByteCount
          /\ \A a \in 0..(MaxSize - 1) : now.Binary[a] # 0 => a < now.TotalByteCount
      BY <2>2, <2>5, <2>6
    <2> QED
      BY <2>7, Zenon DEF Covered, S, end
  <1> QED
    BY <1>6, <1>7

LEMMA LeavesCovered ==
    ASSUME NEW rs, SomeRecords(rs), NEW K, K \subseteq 1..Len(rs), Joined(rs, K)
    PROVE  \A a \in 0..(MaxSize - 1) :
              Leaves(rs, K).Binary[a] # 0 => a < Leaves(rs, K).TotalByteCount
  <1> DEFINE N == Len(rs)
  <1>1. N \in Nat
    BY DEF SomeRecords
  <1>2. PICK h : StoresOf(rs, K, h)
    BY StoresExist
  <1>3. Leaves(rs, K) = h[N]
    BY <1>2, LeavesIs
  <1> DEFINE S == {n \in 0..N : Covered(rs, K, h, n)}
  <1>4. 0 \in S
    <2>1. h[0].TotalByteCount = 0 /\ h[0].Binary = NoImage
      BY <1>2 DEF StoresOf, Empty
    <2>2. \A j \in K : ~(j <= 0)
      BY <1>1
    <2>3. \A a \in 0..(MaxSize - 1) : h[0].Binary[a] = 0
      BY <2>1 DEF NoImage
    <2>4. Covered(rs, K, h, 0)
      BY <2>2, <2>3 DEF Covered
    <2> QED
      BY <1>1, <2>4
  <1>5. ASSUME NEW n \in 1..N, n - 1 \in S PROVE n \in S
    <2>1. Covered(rs, K, h, n)
      BY <1>2, <1>5, CoveredNext
    <2> QED
      BY <2>1
  <1> HIDE DEF S, N
  <1>6. 0..N \subseteq S
    BY <1>1, <1>4, <1>5, RangeInduction
  <1>7. N \in S
    BY <1>1, <1>6
  <1> QED
    BY <1>3, <1>7 DEF S, Covered

LEMMA CountReaches == IInv /\ HoldsTheRecords => CountReachesTheEnd
  <1> SUFFICES ASSUME IInv, HoldsTheRecords, ~Misframed, ~overrun, NoGap,
                      NEW a \in DOMAIN Binary, Binary[a] # 0
               PROVE  a < TotalByteCount
    BY DEF CountReachesTheEnd
  <1>1. [Binary |-> Binary, TotalByteCount |-> TotalByteCount] = Leaves(records, KeptRecords)
    BY DEF HoldsTheRecords
  <1>2. Binary = Leaves(records, KeptRecords).Binary
        /\ TotalByteCount = Leaves(records, KeptRecords).TotalByteCount
    BY <1>1
  <1>3. SomeRecords(records) /\ a \in 0..(MaxSize - 1)
    BY FileFacts, TypeInvIs DEF IInv, TypeInv
  <1>4. KeptRecords \subseteq 1..Len(records) /\ Joined(records, KeptRecords)
    BY DEF KeptRecords, NoGap, Joined
  <1> QED
    BY <1>2, <1>3, <1>4, LeavesCovered

\* The bytes the transfer sends are all that was stored, wherever the file ends: if
\* each data record that was kept continues what was there before, no byte lies at or
\* behind TotalByteCount.
THEOREM CountCoversTheImage == Spec => []CountReachesTheEnd
  BY IInvInit, IInvNext, HoldsInit, HoldsNext, CountReaches, PTL DEF Spec
==============================================================================

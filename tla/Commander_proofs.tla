--------------------------- MODULE Commander_proofs --------------------------
(* How far an answer may lag behind the request it is returned for, proved    *)
(* for any set of commands, any number of calls, lost packets and timeouts.   *)
(*                                                                            *)
(* The argument: per command the packets are numbered upwards along the way   *)
(* from the transmit queue over the receive queue to the slot, so that every  *)
(* store makes the slot newer (InFlight, SlotOrder).  A call that succeeds    *)
(* takes a flag some store has set since the last one was taken.  The slot is *)
(* therefore at least as new as the number of calls that succeeded, which is  *)
(* the number of calls minus the timeouts (Credit).                           *)
EXTENDS Commander, SequenceTheorems, TLAPS

Increasing(q) ==
    \A i, j \in 1..Len(q) : i < j /\ q[i].cmd = q[j].cmd => q[i].seq < q[j].seq

\* Packets in a channel are newer than the slot and belong to calls made.
Fresh(q) ==
    \A i \in 1..Len(q) :
        m_CommandWaiting[q[i].cmd].lo < q[i].seq /\ q[i].seq <= sent[q[i].cmd]

InFlight ==
    /\ Increasing(requests)
    /\ Increasing(responses)
    /\ \A i \in 1..Len(responses), j \in 1..Len(requests) :
          responses[i].cmd = requests[j].cmd => responses[i].seq < requests[j].seq
    /\ Fresh(requests)
    /\ Fresh(responses)

\* The halves of a slot agree unless the listener is between them.
SlotOrder ==
    \A c \in Commands :
        /\ m_CommandWaiting[c].lo <= sent[c]
        /\ storing.cmd = c => /\ m_CommandWaiting[c].lo = storing.seq
                              /\ m_CommandWaiting[c].hi < storing.seq
        /\ storing.cmd # c => m_CommandWaiting[c].hi = m_CommandWaiting[c].lo

Pending(c) == IF caller[c].pc \in {"wait", "clear"} THEN 1 ELSE 0
Flag(c) == IF m_CommandWaiting[c].first THEN 1 ELSE 0

Credit ==
    \A c \in Commands :
        /\ sent[c] + Flag(c) <= m_CommandWaiting[c].hi + timeouts[c] + Pending(c)
        /\ caller[c].pc = "clear" => m_CommandWaiting[c].first
        /\ caller[c].pc = "copyHigh" => /\ caller[c].lo <= sent[c]
                                        /\ sent[c] <= caller[c].lo + timeouts[c]

IInv == InFlight /\ SlotOrder /\ Credit /\ LagBounded

-----------------------------------------------------------------------------
(* Queues *)

\* Taking the first packet.
LEMMA TailFacts ==
    ASSUME NEW q \in Seq(Packets), q # <<>>
    PROVE  /\ Tail(q) \in Seq(Packets)
           /\ Head(q) \in Packets /\ Head(q) = q[1] /\ 1 \in 1..Len(q)
           /\ Len(Tail(q)) = Len(q) - 1
           /\ \A i \in 1..Len(Tail(q)) : Tail(q)[i] = q[i + 1] /\ i + 1 \in 1..Len(q)
  <1>1. Len(q) \in Nat /\ Len(q) > 0
    BY EmptySeq
  <1>2. Tail(q) \in Seq(Packets) /\ Head(q) \in Packets /\ Head(q) = q[1] /\ Len(Tail(q)) = Len(q) - 1
    BY <1>1
  <1>3. \A i \in 1..Len(Tail(q)) : Tail(q)[i] = q[i + 1]
    BY <1>1, <1>2
  <1> QED
    BY <1>1, <1>2, <1>3

\* Adding a packet.
LEMMA AppendFacts ==
    ASSUME NEW q \in Seq(Packets), NEW m \in Packets
    PROVE  /\ Append(q, m) \in Seq(Packets)
           /\ Len(Append(q, m)) = Len(q) + 1 /\ Len(q) \in Nat
           /\ Append(q, m)[Len(q) + 1] = m
           /\ \A i \in 1..Len(q) : Append(q, m)[i] = q[i]
  OBVIOUS

\* What is in a queue.
LEMMA ElementFacts ==
    ASSUME NEW q \in Seq(Packets), NEW i \in 1..Len(q)
    PROVE  q[i] \in Packets /\ q[i].cmd \in Commands /\ q[i].seq \in Nat
  <1>1. q[i] \in Packets
    OBVIOUS
  <1> QED
    BY <1>1 DEF Packets

\* The rest of an ordered queue is ordered, and its first packet was the oldest.
LEMMA IncreasingTail ==
    ASSUME NEW q \in Seq(Packets), q # <<>>, Increasing(q)
    PROVE  /\ Increasing(Tail(q))
           /\ \A i \in 1..Len(Tail(q)) : Tail(q)[i].cmd = Head(q).cmd => Head(q).seq < Tail(q)[i].seq
  <1>1. \A i, j \in 1..Len(Tail(q)) : i < j => i + 1 < j + 1
    OBVIOUS
  <1>2. \A i \in 1..Len(Tail(q)) : 1 < i + 1
    OBVIOUS
  <1> QED
    BY <1>1, <1>2, TailFacts DEF Increasing

\* A packet newer than all of its command keeps a queue ordered.
LEMMA IncreasingAppend ==
    ASSUME NEW q \in Seq(Packets), NEW m \in Packets, Increasing(q),
           \A i \in 1..Len(q) : q[i].cmd = m.cmd => q[i].seq < m.seq
    PROVE  Increasing(Append(q, m))
  <1> SUFFICES ASSUME NEW i \in 1..(Len(q) + 1), NEW j \in 1..(Len(q) + 1), i < j,
                      Append(q, m)[i].cmd = Append(q, m)[j].cmd
               PROVE  Append(q, m)[i].seq < Append(q, m)[j].seq
    BY AppendFacts DEF Increasing
  <1>1. i \in 1..Len(q) /\ Append(q, m)[i] = q[i]
    BY AppendFacts
  <1>2. CASE j = Len(q) + 1
    BY <1>1, <1>2, AppendFacts
  <1>3. CASE j \in 1..Len(q)
    BY <1>1, <1>3, AppendFacts DEF Increasing
  <1> QED
    BY <1>2, <1>3, AppendFacts

-----------------------------------------------------------------------------
(* What the steps do to the records *)

PCs == {"idle", "wait", "clear", "copy", "copyHigh"}
Callers == [Commands -> [pc : PCs, lo : Nat]]
Slots == [Commands -> [first : BOOLEAN, lo : Nat, hi : Nat]]

\* A call moves on and nothing else of it or of another call changes.
LEMMA GoToFacts ==
    ASSUME TypeOK, NEW c \in Commands, NEW pc \in PCs, GoTo(c, pc)
    PROVE  /\ caller' \in Callers
           /\ \A d \in Commands : /\ caller'[d].pc = IF d = c THEN pc ELSE caller[d].pc
                                  /\ caller'[d].lo = caller[d].lo
  <1>1. caller \in Callers
    BY DEF TypeOK, Callers, PCs
  <1>2. caller' = [caller EXCEPT ![c] = [caller[c] EXCEPT !.pc = pc]]
    BY DEF GoTo
  <1>3. [caller[c] EXCEPT !.pc = pc] \in [pc : PCs, lo : Nat]
    BY <1>1 DEF Callers
  <1> QED
    BY <1>1, <1>2, <1>3 DEF Callers

\* A call's record is replaced.
LEMMA CallerFacts ==
    ASSUME TypeOK, NEW c \in Commands, NEW r \in [pc : PCs, lo : Nat],
           caller' = [caller EXCEPT ![c] = r]
    PROVE  /\ caller' \in Callers
           /\ \A d \in Commands : caller'[d] = IF d = c THEN r ELSE caller[d]
  BY DEF TypeOK, Callers, PCs

\* Taking the flag.
LEMMA ClearFacts ==
    ASSUME TypeOK, NEW c \in Commands, ClearFlag(c)
    PROVE  /\ m_CommandWaiting' \in Slots
           /\ \A d \in Commands :
                 /\ m_CommandWaiting'[d].lo = m_CommandWaiting[d].lo
                 /\ m_CommandWaiting'[d].hi = m_CommandWaiting[d].hi
                 /\ m_CommandWaiting'[d].first = IF d = c THEN FALSE ELSE m_CommandWaiting[d].first
  <1>1. m_CommandWaiting \in Slots
    BY DEF TypeOK, Slots
  <1>2. m_CommandWaiting' = [m_CommandWaiting EXCEPT ![c] = [m_CommandWaiting[c] EXCEPT !.first = FALSE]]
    BY DEF ClearFlag
  <1> QED
    BY <1>1, <1>2 DEF Slots

\* The first half of a store.
LEMMA StoreLowFacts ==
    ASSUME TypeOK, StoreLow
    PROVE  LET m == Head(responses) IN
           /\ m \in Packets /\ m.cmd \in Commands /\ m.seq \in Nat
           /\ storing' = m /\ storing = NoPacket
           /\ responses' = Tail(responses) /\ responses # <<>>
           /\ m_CommandWaiting' \in Slots
           /\ \A d \in Commands :
                 /\ m_CommandWaiting'[d].lo = IF d = m.cmd THEN m.seq ELSE m_CommandWaiting[d].lo
                 /\ m_CommandWaiting'[d].hi = m_CommandWaiting[d].hi
                 /\ m_CommandWaiting'[d].first = m_CommandWaiting[d].first
  <1> DEFINE m == Head(responses)
  <1>1. m_CommandWaiting \in Slots
    BY DEF TypeOK, Slots
  <1>2. m \in Packets /\ m.cmd \in Commands /\ m.seq \in Nat
    BY TailFacts DEF StoreLow, TypeOK, Packets
  <1>3. m_CommandWaiting' = [m_CommandWaiting EXCEPT ![m.cmd] = [m_CommandWaiting[m.cmd] EXCEPT !.lo = m.seq]]
    BY DEF StoreLow
  <1>4. storing' = m /\ storing = NoPacket /\ responses' = Tail(responses) /\ responses # <<>>
    BY DEF StoreLow, MutexFree
  <1> HIDE DEF m
  <1>5. [m_CommandWaiting[m.cmd] EXCEPT !.lo = m.seq] \in [first : BOOLEAN, lo : Nat, hi : Nat]
    BY <1>1, <1>2 DEF Slots
  <1>6. m_CommandWaiting' \in Slots
    BY <1>1, <1>2, <1>3, <1>5 DEF Slots
  <1>7. \A d \in Commands :
                 /\ m_CommandWaiting'[d].lo = IF d = m.cmd THEN m.seq ELSE m_CommandWaiting[d].lo
                 /\ m_CommandWaiting'[d].hi = m_CommandWaiting[d].hi
                 /\ m_CommandWaiting'[d].first = m_CommandWaiting[d].first
    BY <1>1, <1>2, <1>3 DEF Slots
  <1> QED
    BY <1>2, <1>4, <1>6, <1>7 DEF m

\* The second half of a store.
LEMMA StoreHighFacts ==
    ASSUME TypeOK, StoreHigh
    PROVE  /\ storing \in Packets /\ storing.cmd \in Commands /\ storing.seq \in Nat
           /\ storing' = NoPacket
           /\ m_CommandWaiting' \in Slots
           /\ \A d \in Commands :
                 /\ m_CommandWaiting'[d].lo = m_CommandWaiting[d].lo
                 /\ m_CommandWaiting'[d].hi = IF d = storing.cmd THEN storing.seq ELSE m_CommandWaiting[d].hi
                 /\ m_CommandWaiting'[d].first = IF d = storing.cmd THEN TRUE ELSE m_CommandWaiting[d].first
  <1> DEFINE k == storing.cmd
             n == storing.seq
  <1>1. m_CommandWaiting \in Slots
    BY DEF TypeOK, Slots
  <1>2. storing \in Packets /\ k \in Commands /\ n \in Nat
    BY DEF StoreHigh, MutexFree, TypeOK, Packets
  <1>3. m_CommandWaiting' = [m_CommandWaiting EXCEPT ![k] = [m_CommandWaiting[k] EXCEPT !.hi = n, !.first = TRUE]]
    BY <1>1, <1>2 DEF StoreHigh, Slots
  <1>4. storing' = NoPacket
    BY DEF StoreHigh
  <1> HIDE DEF k, n
  <1>5. [m_CommandWaiting[k] EXCEPT !.hi = n, !.first = TRUE] \in [first : BOOLEAN, lo : Nat, hi : Nat]
    BY <1>1, <1>2 DEF Slots
  <1>6. m_CommandWaiting' \in Slots
    BY <1>1, <1>2, <1>3, <1>5 DEF Slots
  <1>7. \A d \in Commands :
                 /\ m_CommandWaiting'[d].lo = m_CommandWaiting[d].lo
                 /\ m_CommandWaiting'[d].hi = IF d = k THEN n ELSE m_CommandWaiting[d].hi
                 /\ m_CommandWaiting'[d].first = IF d = k THEN TRUE ELSE m_CommandWaiting[d].first
    BY <1>1, <1>2, <1>3 DEF Slots
  <1> QED
    BY <1>2, <1>4, <1>6, <1>7 DEF k, n

-----------------------------------------------------------------------------
(* Type correctness *)

\* No step leaves the types.
LEMMA TypeNext == TypeOK /\ [Next]_cmdVars => TypeOK'
  <1> SUFFICES ASSUME TypeOK, [Next]_cmdVars PROVE TypeOK'
    OBVIOUS
  <1> USE DEF slotVars, netVars, callVars
  <1>1. ASSUME NEW c \in Commands, BuildAndSendPacket(c) PROVE TypeOK'
    <2>1. [cmd |-> c, seq |-> sent[c] + 1] \in Packets
      BY DEF TypeOK, Packets
    <2>2. requests' \in Seq(Packets)
      BY <1>1, <2>1, AppendFacts DEF BuildAndSendPacket, TypeOK
    <2>3. caller' \in Callers
      BY <1>1, GoToFacts DEF BuildAndSendPacket, PCs
    <2>4. sent' \in [Commands -> Nat]
      BY <1>1 DEF BuildAndSendPacket, TypeOK
    <2> QED
      BY <1>1, <2>2, <2>3, <2>4 DEF BuildAndSendPacket, TypeOK, Callers, PCs
  <1>2. ASSUME NEW c \in Commands, PollHit(c) \/ TimeOut(c) PROVE TypeOK'
    <2>1. caller' \in Callers
      BY <1>2, GoToFacts DEF PollHit, TimeOut, PCs
    <2>2. timeouts' \in [Commands -> Nat]
      <3>1. CASE PollHit(c)
        BY <3>1 DEF PollHit, TypeOK
      <3>2. CASE TimeOut(c)
        BY <3>2 DEF TimeOut, TypeOK
      <3> QED
        BY <1>2, <3>1, <3>2
    <2> QED
      BY <1>2, <2>1, <2>2 DEF PollHit, TimeOut, TypeOK, Callers, PCs
  <1>3. ASSUME NEW c \in Commands, ClearFlag(c) PROVE TypeOK'
    <2>1. caller' \in Callers
      BY <1>3, GoToFacts DEF ClearFlag, PCs
    <2> QED
      BY <1>3, <2>1, ClearFacts DEF ClearFlag, TypeOK, Callers, PCs, Slots
  <1>4. ASSUME NEW c \in Commands, CopyLow(c) PROVE TypeOK'
    <2>1. [pc |-> "copyHigh", lo |-> m_CommandWaiting[c].lo] \in [pc : PCs, lo : Nat]
      BY DEF TypeOK, PCs
    <2>2. caller' \in Callers
      BY <1>4, <2>1, CallerFacts DEF CopyLow
    <2> QED
      BY <1>4, <2>2 DEF CopyLow, TypeOK, Callers, PCs
  <1>5. ASSUME NEW c \in Commands, CopyHigh(c) PROVE TypeOK'
    <2>1. [pc |-> "idle", lo |-> 0] \in [pc : PCs, lo : Nat]
      BY DEF PCs
    <2>2. caller' \in Callers
      BY <1>5, <2>1, CallerFacts DEF CopyHigh
    <2>3. got' \in [Commands -> [call : Nat, lo : Nat, hi : Nat]]
      BY <1>5 DEF CopyHigh, TypeOK
    <2> QED
      BY <1>5, <2>2, <2>3 DEF CopyHigh, TypeOK, Callers, PCs
  <1>6. CASE StoreLow
    <2>1. Tail(responses) \in Seq(Packets)
      BY <1>6, TailFacts DEF StoreLow, TypeOK
    <2> QED
      BY <1>6, <2>1, StoreLowFacts DEF StoreLow, TypeOK, Slots
  <1>7. CASE StoreHigh
    BY <1>7, StoreHighFacts DEF StoreHigh, TypeOK, Slots
  <1>8. CASE l_HandleCommand
    <2>1. Tail(requests) \in Seq(Packets) /\ Head(requests) \in Packets
      BY <1>8, TailFacts DEF l_HandleCommand, TypeOK
    <2>2. Append(responses, Head(requests)) \in Seq(Packets)
      BY <2>1, AppendFacts DEF TypeOK
    <2> QED
      BY <1>8, <2>1, <2>2 DEF l_HandleCommand, TypeOK
  <1>9. CASE LoseRequest \/ LoseResponse
    BY <1>9, TailFacts DEF LoseRequest, LoseResponse, TypeOK
  <1>10. CASE UNCHANGED cmdVars
    BY <1>10 DEF cmdVars, TypeOK
  <1> QED
    BY <1>1, <1>2, <1>3, <1>4, <1>5, <1>6, <1>7, <1>8, <1>9, <1>10 DEF Next, Call, Listen

\* The variables of Commander.cpp keep their types; a call is in one of its
\* states.
THEOREM CommanderTypes == Spec => []TypeOK
  <1>1. Init => TypeOK
    BY DEF Init, TypeOK
  <1> QED
    BY <1>1, TypeNext, PTL DEF Spec
-----------------------------------------------------------------------------
(* The invariant *)

\* Nothing is in flight and nobody has called.
LEMMA InvInit == Init => IInv
  <1> SUFFICES ASSUME Init PROVE IInv
    OBVIOUS
  <1>1. Len(requests) = 0 /\ Len(responses) = 0
    BY DEF Init
  <1>2. InFlight
    BY <1>1 DEF InFlight, Increasing, Fresh
  <1>3. SlotOrder /\ Credit /\ LagBounded
    BY NoneAssumption DEF Init, SlotOrder, Credit, LagBounded, Flag, Pending, NoPacket
  <1> QED
    BY <1>2, <1>3 DEF IInv

\* Order and freshness depend on the channels, the first halves and the calls
\* made; a step that changes none of them keeps both.
LEMMA InFlightKept ==
    ASSUME TypeOK, InFlight, UNCHANGED <<requests, responses, sent>>,
           \A d \in Commands : m_CommandWaiting'[d].lo = m_CommandWaiting[d].lo
    PROVE  InFlight'
  <1>1. \A i \in 1..Len(requests) : requests[i].cmd \in Commands
    BY ElementFacts DEF TypeOK
  <1>2. \A i \in 1..Len(responses) : responses[i].cmd \in Commands
    BY ElementFacts DEF TypeOK
  <1> QED
    BY <1>1, <1>2 DEF InFlight, Increasing, Fresh

\* A request is newer than everything of its command.
LEMMA SendKeepsOrder ==
    ASSUME TypeOK, InFlight, SlotOrder, NEW c \in Commands, BuildAndSendPacket(c)
    PROVE  InFlight'
  <1> DEFINE m == [cmd |-> c, seq |-> sent[c] + 1]
  <1>1. m \in Packets /\ m.cmd = c /\ m.seq = sent[c] + 1 /\ sent[c] \in Nat
    BY DEF TypeOK, Packets
  <1>2. requests' = Append(requests, m) /\ UNCHANGED <<responses, m_CommandWaiting>>
    BY DEF BuildAndSendPacket, slotVars
  <1>3. \A d \in Commands : sent'[d] = IF d = c THEN sent[c] + 1 ELSE sent[d]
    BY DEF BuildAndSendPacket, TypeOK
  <1>4. \A d \in Commands : sent[d] \in Nat /\ m_CommandWaiting[d].lo \in Nat
    BY DEF TypeOK
  <1> HIDE DEF m
  <1>5. requests \in Seq(Packets) /\ responses \in Seq(Packets)
    BY DEF TypeOK
  <1>6. \A i \in 1..Len(requests) : requests[i].cmd \in Commands /\ requests[i].seq \in Nat
    BY <1>5, ElementFacts
  <1>7. \A i \in 1..Len(responses) : responses[i].cmd \in Commands /\ responses[i].seq \in Nat
    BY <1>5, ElementFacts
  <1>8. \A i \in 1..Len(requests) : requests[i].cmd = m.cmd => requests[i].seq < m.seq
    BY <1>1, <1>6, <1>4 DEF InFlight, Fresh
  <1>9. Increasing(requests')
    BY <1>1, <1>2, <1>5, <1>8, IncreasingAppend DEF InFlight
  <1>10. \A i \in 1..Len(responses) : responses[i].cmd = m.cmd => responses[i].seq < m.seq
    BY <1>1, <1>7, <1>4 DEF InFlight, Fresh
  <1>11. /\ Len(requests') = Len(requests) + 1 /\ Len(requests) \in Nat
         /\ requests'[Len(requests) + 1] = m
         /\ \A i \in 1..Len(requests) : requests'[i] = requests[i]
    BY <1>1, <1>2, <1>5, AppendFacts
  <1>12. \A j \in 1..Len(requests') : j \in 1..Len(requests) \/ j = Len(requests) + 1
    BY <1>11
  <1>13. \A i \in 1..Len(responses'), j \in 1..Len(requests') :
            responses'[i].cmd = requests'[j].cmd => responses'[i].seq < requests'[j].seq
    BY <1>2, <1>10, <1>11, <1>12 DEF InFlight
  <1>14. \A d \in Commands : sent[d] <= sent'[d]
    BY <1>3, <1>4
  <1>15. m_CommandWaiting[m.cmd].lo < m.seq /\ m.seq <= sent'[m.cmd]
    BY <1>1, <1>3, <1>4 DEF SlotOrder
  <1>16. \A i \in 1..Len(requests') :
            m_CommandWaiting[requests'[i].cmd].lo < requests'[i].seq /\ requests'[i].seq <= sent'[requests'[i].cmd]
    <2> TAKE i \in 1..Len(requests')
    <2>1. CASE i = Len(requests) + 1
      BY <2>1, <1>11, <1>15
    <2>2. CASE i \in 1..Len(requests)
      <3>1. requests'[i] = requests[i] /\ requests[i].cmd \in Commands /\ requests[i].seq \in Nat
        BY <2>2, <1>11, <1>6
      <3>2. m_CommandWaiting[requests[i].cmd].lo < requests[i].seq /\ requests[i].seq <= sent[requests[i].cmd]
        BY <2>2 DEF InFlight, Fresh
      <3>3. sent[requests[i].cmd] <= sent'[requests[i].cmd] /\ sent[requests[i].cmd] \in Nat
            /\ sent'[requests[i].cmd] \in Nat
        BY <3>1, <1>3, <1>4, <1>14
      <3> QED
        BY <3>1, <3>2, <3>3
    <2> QED
      BY <2>1, <2>2, <1>12
  <1>17. \A i \in 1..Len(responses) :
            m_CommandWaiting[responses[i].cmd].lo < responses[i].seq /\ responses[i].seq <= sent'[responses[i].cmd]
    <2> TAKE i \in 1..Len(responses)
    <2>1. m_CommandWaiting[responses[i].cmd].lo < responses[i].seq /\ responses[i].seq <= sent[responses[i].cmd]
      BY DEF InFlight, Fresh
    <2>2. sent[responses[i].cmd] <= sent'[responses[i].cmd] /\ sent[responses[i].cmd] \in Nat
            /\ sent'[responses[i].cmd] \in Nat /\ responses[i].seq \in Nat
      BY <1>3, <1>4, <1>7, <1>14
    <2> QED
      BY <2>1, <2>2
  <1> QED
    BY <1>2, <1>9, <1>13, <1>16, <1>17 DEF InFlight, Fresh, Increasing
\* Storing the oldest answer makes the slot newer than before and leaves it
\* older than everything still on its way.
LEMMA StoreKeepsOrder ==
    ASSUME TypeOK, InFlight, StoreLow
    PROVE  InFlight'
  <1> DEFINE m == Head(responses)
  <1>1. /\ m \in Packets /\ m.cmd \in Commands /\ m.seq \in Nat
        /\ responses' = Tail(responses) /\ responses # <<>>
        /\ \A d \in Commands :
              m_CommandWaiting'[d].lo = IF d = m.cmd THEN m.seq ELSE m_CommandWaiting[d].lo
    BY StoreLowFacts
  <1>2. UNCHANGED <<requests, sent>>
    BY DEF StoreLow, callVars
  <1>3. responses \in Seq(Packets) /\ requests \in Seq(Packets)
    BY DEF TypeOK
  <1>4. Increasing(Tail(responses)) /\
        \A i \in 1..Len(Tail(responses)) : Tail(responses)[i].cmd = m.cmd => m.seq < Tail(responses)[i].seq
    BY <1>1, <1>3, IncreasingTail DEF InFlight
  <1>5. /\ m = responses[1] /\ 1 \in 1..Len(responses)
        /\ \A i \in 1..Len(Tail(responses)) :
              Tail(responses)[i] = responses[i + 1] /\ i + 1 \in 1..Len(responses)
    BY <1>1, <1>3, TailFacts
  <1> HIDE DEF m
  <1>6. \A i \in 1..Len(Tail(responses)), j \in 1..Len(requests) :
            Tail(responses)[i].cmd = requests[j].cmd => Tail(responses)[i].seq < requests[j].seq
    BY <1>5 DEF InFlight
  <1>7. \A i \in 1..Len(Tail(responses)) :
            /\ m_CommandWaiting'[Tail(responses)[i].cmd].lo < Tail(responses)[i].seq
            /\ Tail(responses)[i].seq <= sent[Tail(responses)[i].cmd]
    <2> TAKE i \in 1..Len(Tail(responses))
    <2>1. Tail(responses)[i] = responses[i + 1] /\ i + 1 \in 1..Len(responses)
      BY <1>5
    <2>2. responses[i + 1].cmd \in Commands
      BY <1>3, <2>1, ElementFacts
    <2>3. /\ m_CommandWaiting[responses[i + 1].cmd].lo < responses[i + 1].seq
          /\ responses[i + 1].seq <= sent[responses[i + 1].cmd]
      BY <2>1 DEF InFlight, Fresh
    <2> QED
      BY <1>1, <1>4, <2>1, <2>2, <2>3
  <1>8. \A j \in 1..Len(requests) :
            /\ m_CommandWaiting'[requests[j].cmd].lo < requests[j].seq
            /\ requests[j].seq <= sent[requests[j].cmd]
    <2> TAKE j \in 1..Len(requests)
    <2>1. requests[j].cmd \in Commands
      BY <1>3, ElementFacts
    <2>2. m.cmd = requests[j].cmd => m.seq < requests[j].seq
      BY <1>5 DEF InFlight
    <2>3. /\ m_CommandWaiting[requests[j].cmd].lo < requests[j].seq
          /\ requests[j].seq <= sent[requests[j].cmd]
      BY DEF InFlight, Fresh
    <2> QED
      BY <1>1, <2>1, <2>2, <2>3
  <1> QED
    BY <1>1, <1>2, <1>4, <1>6, <1>7, <1>8 DEF InFlight, Fresh

\* Taking the oldest request, to answer it or to lose it, keeps the order.
LEMMA ServeKeepsOrder ==
    ASSUME TypeOK, InFlight, requests # <<>>, requests' = Tail(requests),
           responses' = responses \/ responses' = Append(responses, Head(requests)),
           UNCHANGED <<m_CommandWaiting, sent>>
    PROVE  InFlight'
  <1> DEFINE m == Head(requests)
  <1>1. responses \in Seq(Packets) /\ requests \in Seq(Packets)
    BY DEF TypeOK
  <1>2. /\ m \in Packets /\ m = requests[1] /\ 1 \in 1..Len(requests)
        /\ \A i \in 1..Len(Tail(requests)) :
              Tail(requests)[i] = requests[i + 1] /\ i + 1 \in 1..Len(requests)
    BY <1>1, TailFacts
  <1>3. Increasing(Tail(requests)) /\
        \A i \in 1..Len(Tail(requests)) : Tail(requests)[i].cmd = m.cmd => m.seq < Tail(requests)[i].seq
    BY <1>1, IncreasingTail DEF InFlight
  <1> HIDE DEF m
  <1>4. Fresh(Tail(requests))
    BY <1>2 DEF InFlight, Fresh
  <1>5. \A i \in 1..Len(responses) : responses[i].cmd = m.cmd => responses[i].seq < m.seq
    BY <1>2 DEF InFlight
  <1>6. \A i \in 1..Len(responses), j \in 1..Len(Tail(requests)) :
            responses[i].cmd = Tail(requests)[j].cmd => responses[i].seq < Tail(requests)[j].seq
    BY <1>2 DEF InFlight
  <1>7. CASE responses' = responses
    BY <1>3, <1>4, <1>6, <1>7 DEF InFlight, Fresh, Increasing
  <1>8. CASE responses' = Append(responses, m)
    <2>1. Increasing(responses')
      BY <1>1, <1>2, <1>5, <1>8, IncreasingAppend DEF InFlight
    <2>2. /\ Len(responses') = Len(responses) + 1 /\ Len(responses) \in Nat
          /\ responses'[Len(responses) + 1] = m
          /\ \A i \in 1..Len(responses) : responses'[i] = responses[i]
      BY <1>1, <1>2, <1>8, AppendFacts
    <2>3. \A i \in 1..Len(responses') : i \in 1..Len(responses) \/ i = Len(responses) + 1
      BY <2>2
    <2>4. \A i \in 1..Len(responses'), j \in 1..Len(Tail(requests)) :
              responses'[i].cmd = Tail(requests)[j].cmd => responses'[i].seq < Tail(requests)[j].seq
      BY <1>3, <1>6, <2>2, <2>3
    <2>5. m_CommandWaiting[m.cmd].lo < m.seq /\ m.seq <= sent[m.cmd]
      BY <1>2 DEF InFlight, Fresh
    <2>6. Fresh(responses')
      BY <2>2, <2>3, <2>5 DEF InFlight, Fresh
    <2> QED
      BY <1>3, <1>4, <2>1, <2>4, <2>6 DEF InFlight, Fresh, Increasing
  <1> QED
    BY <1>7, <1>8 DEF m

\* So does losing the oldest answer.
LEMMA LoseKeepsOrder ==
    ASSUME TypeOK, InFlight, LoseResponse
    PROVE  InFlight'
  <1>1. responses \in Seq(Packets) /\ responses # <<>> /\ responses' = Tail(responses)
        /\ UNCHANGED <<requests, m_CommandWaiting, sent>>
    BY DEF TypeOK, LoseResponse, slotVars, callVars
  <1>2. \A i \in 1..Len(Tail(responses)) :
              Tail(responses)[i] = responses[i + 1] /\ i + 1 \in 1..Len(responses)
    BY <1>1, TailFacts
  <1>3. Increasing(Tail(responses))
    BY <1>1, IncreasingTail DEF InFlight
  <1>4. Fresh(Tail(responses))
    BY <1>2 DEF InFlight, Fresh
  <1>5. \A i \in 1..Len(Tail(responses)), j \in 1..Len(requests) :
            Tail(responses)[i].cmd = requests[j].cmd => Tail(responses)[i].seq < requests[j].seq
    BY <1>2 DEF InFlight
  <1> QED
    BY <1>1, <1>3, <1>4, <1>5 DEF InFlight, Fresh, Increasing
\* The invariant survives every step.
LEMMA InvNext == TypeOK /\ IInv /\ [Next]_cmdVars => IInv'
  <1> SUFFICES ASSUME TypeOK, IInv, [Next]_cmdVars PROVE IInv'
    OBVIOUS
  <1> USE DEF slotVars, netVars, callVars
  <1>a. InFlight /\ SlotOrder /\ Credit /\ LagBounded
    BY DEF IInv
  <1>b. \A d \in Commands :
           /\ sent[d] \in Nat /\ timeouts[d] \in Nat
           /\ m_CommandWaiting[d].lo \in Nat /\ m_CommandWaiting[d].hi \in Nat
           /\ m_CommandWaiting[d].first \in BOOLEAN
           /\ caller[d].lo \in Nat
           /\ got[d].call \in Nat /\ got[d].lo \in Nat /\ got[d].hi \in Nat
    BY DEF TypeOK
  <1>1. ASSUME NEW c \in Commands, BuildAndSendPacket(c) PROVE IInv'
    <2>1. InFlight'
      BY <1>1, <1>a, SendKeepsOrder
    <2>2. \A d \in Commands : sent'[d] = IF d = c THEN sent[c] + 1 ELSE sent[d]
      BY <1>1 DEF BuildAndSendPacket, TypeOK
    <2>3. UNCHANGED <<m_CommandWaiting, storing, timeouts, got>> /\ caller[c].pc = "idle"
      BY <1>1 DEF BuildAndSendPacket, At
    <2>4. \A d \in Commands : /\ caller'[d].pc = IF d = c THEN "wait" ELSE caller[d].pc
                              /\ caller'[d].lo = caller[d].lo
      BY <1>1, GoToFacts DEF BuildAndSendPacket, PCs
    <2>5. SlotOrder'
      BY <1>a, <1>b, <2>2, <2>3 DEF SlotOrder
    <2>6. Credit'
      BY <1>a, <1>b, <2>2, <2>3, <2>4 DEF Credit, Flag, Pending
    <2>7. LagBounded'
      BY <1>a, <2>3 DEF LagBounded
    <2> QED
      BY <2>1, <2>5, <2>6, <2>7 DEF IInv
  <1>2. ASSUME NEW c \in Commands, PollHit(c) PROVE IInv'
    <2>1. UNCHANGED <<requests, responses, m_CommandWaiting, storing, sent, timeouts, got>>
          /\ m_CommandWaiting[c].first /\ caller[c].pc = "wait"
      BY <1>2 DEF PollHit, At
    <2>2. \A d \in Commands : /\ caller'[d].pc = IF d = c THEN "clear" ELSE caller[d].pc
                              /\ caller'[d].lo = caller[d].lo
      BY <1>2, GoToFacts DEF PollHit, PCs
    <2>3. InFlight' /\ SlotOrder' /\ LagBounded'
      BY <1>a, <2>1, InFlightKept DEF SlotOrder, LagBounded
    <2>4. Credit'
      BY <1>a, <1>b, <2>1, <2>2 DEF Credit, Flag, Pending
    <2> QED
      BY <2>3, <2>4 DEF IInv
  <1>3. ASSUME NEW c \in Commands, TimeOut(c) PROVE IInv'
    <2>1. UNCHANGED <<requests, responses, m_CommandWaiting, storing, sent, got>>
          /\ caller[c].pc = "wait"
      BY <1>3 DEF TimeOut, At
    <2>2. \A d \in Commands : /\ caller'[d].pc = IF d = c THEN "idle" ELSE caller[d].pc
                              /\ caller'[d].lo = caller[d].lo
      BY <1>3, GoToFacts DEF TimeOut, PCs
    <2>3. \A d \in Commands : timeouts'[d] = IF d = c THEN timeouts[c] + 1 ELSE timeouts[d]
      BY <1>3 DEF TimeOut, TypeOK
    <2>4. InFlight' /\ SlotOrder'
      BY <1>a, <2>1, InFlightKept DEF SlotOrder
    <2>5. LagBounded'
      BY <1>a, <1>b, <2>1, <2>3 DEF LagBounded
    <2>6. Credit'
      BY <1>a, <1>b, <2>1, <2>2, <2>3 DEF Credit, Flag, Pending
    <2> QED
      BY <2>4, <2>5, <2>6 DEF IInv
  <1>4. ASSUME NEW c \in Commands, ClearFlag(c) PROVE IInv'
    <2>1. UNCHANGED <<requests, responses, storing, sent, timeouts, got>> /\ caller[c].pc = "clear"
      BY <1>4 DEF ClearFlag, At
    <2>2. \A d \in Commands : /\ caller'[d].pc = IF d = c THEN "copy" ELSE caller[d].pc
                              /\ caller'[d].lo = caller[d].lo
      BY <1>4, GoToFacts DEF ClearFlag, PCs
    <2>3. \A d \in Commands :
                 /\ m_CommandWaiting'[d].lo = m_CommandWaiting[d].lo
                 /\ m_CommandWaiting'[d].hi = m_CommandWaiting[d].hi
                 /\ m_CommandWaiting'[d].first = IF d = c THEN FALSE ELSE m_CommandWaiting[d].first
      BY <1>4, ClearFacts
    <2>4. InFlight' /\ SlotOrder' /\ LagBounded'
      BY <1>a, <2>1, <2>3, InFlightKept DEF SlotOrder, LagBounded
    <2>5. ASSUME NEW d \in Commands
          PROVE  /\ sent'[d] + Flag(d)' <= m_CommandWaiting'[d].hi + timeouts'[d] + Pending(d)'
                 /\ caller'[d].pc = "clear" => m_CommandWaiting'[d].first
                 /\ caller'[d].pc = "copyHigh" => /\ caller'[d].lo <= sent'[d]
                                                  /\ sent'[d] <= caller'[d].lo + timeouts'[d]
      <3>1. CASE d = c
        <4>1. Flag(d) = 1 /\ Pending(d) = 1
          BY <1>a, <2>1, <3>1 DEF Credit, Flag, Pending
        <4>2. Flag(d)' = 0 /\ Pending(d)' = 0
          BY <2>2, <2>3, <3>1 DEF Flag, Pending
        <4>3. sent[d] + Flag(d) <= m_CommandWaiting[d].hi + timeouts[d] + Pending(d)
          BY <1>a DEF Credit
        <4>4. sent[d] <= m_CommandWaiting[d].hi + timeouts[d]
          BY <1>b, <4>1, <4>3
        <4>5. caller'[d].pc # "clear" /\ caller'[d].pc # "copyHigh"
          BY <2>2, <3>1
        <4>6. sent'[d] + Flag(d)' <= m_CommandWaiting'[d].hi + timeouts'[d] + Pending(d)'
          <5>1. sent'[d] = sent[d] /\ timeouts'[d] = timeouts[d]
                /\ m_CommandWaiting'[d].hi = m_CommandWaiting[d].hi
            BY <2>1, <2>3
          <5> QED
            BY <1>b, <4>2, <4>4, <5>1
        <4> QED
          BY <4>5, <4>6
      <3>2. CASE d # c
        <4>1. Flag(d)' = Flag(d) /\ Pending(d)' = Pending(d)
          BY <2>2, <2>3, <3>2 DEF Flag, Pending
        <4> QED
          BY <1>a, <2>1, <2>2, <2>3, <3>2, <4>1 DEF Credit
      <3> QED
        BY <3>1, <3>2
    <2>6. Credit'
      BY <2>5 DEF Credit
    <2> QED
      BY <2>4, <2>6 DEF IInv
  <1>5. ASSUME NEW c \in Commands, CopyLow(c) PROVE IInv'
    <2>1. UNCHANGED <<requests, responses, m_CommandWaiting, storing, sent, timeouts, got>>
          /\ caller[c].pc = "copy"
      BY <1>5 DEF CopyLow, At
    <2>2. [pc |-> "copyHigh", lo |-> m_CommandWaiting[c].lo] \in [pc : PCs, lo : Nat]
      BY <1>b DEF PCs
    <2>3. \A d \in Commands :
              caller'[d] = IF d = c THEN [pc |-> "copyHigh", lo |-> m_CommandWaiting[c].lo] ELSE caller[d]
      BY <1>5, <2>2, CallerFacts DEF CopyLow
    <2>4. InFlight' /\ SlotOrder' /\ LagBounded'
      BY <1>a, <2>1, InFlightKept DEF SlotOrder, LagBounded
    <2>5. m_CommandWaiting[c].hi <= m_CommandWaiting[c].lo /\ m_CommandWaiting[c].lo <= sent[c]
      BY <1>a, <1>b DEF SlotOrder
    <2>6. sent[c] <= m_CommandWaiting[c].hi + timeouts[c]
      BY <1>a, <1>b, <2>1 DEF Credit, Flag, Pending
    <2>7. ASSUME NEW d \in Commands
          PROVE  /\ sent'[d] + Flag(d)' <= m_CommandWaiting'[d].hi + timeouts'[d] + Pending(d)'
                 /\ caller'[d].pc = "clear" => m_CommandWaiting'[d].first
                 /\ caller'[d].pc = "copyHigh" => /\ caller'[d].lo <= sent'[d]
                                                  /\ sent'[d] <= caller'[d].lo + timeouts'[d]
      <3>1. CASE d = c
        BY <1>a, <1>b, <2>1, <2>3, <2>5, <2>6, <3>1 DEF Credit, Flag, Pending
      <3>2. CASE d # c
        BY <1>a, <1>b, <2>1, <2>3, <3>2 DEF Credit, Flag, Pending
      <3> QED
        BY <3>1, <3>2
    <2>8. Credit'
      BY <2>7 DEF Credit
    <2> QED
      BY <2>4, <2>8 DEF IInv
  <1>6. ASSUME NEW c \in Commands, CopyHigh(c) PROVE IInv'
    <2>1. UNCHANGED <<requests, responses, m_CommandWaiting, storing, sent, timeouts>>
          /\ caller[c].pc = "copyHigh"
      BY <1>6 DEF CopyHigh, At
    <2>2. [pc |-> "idle", lo |-> 0] \in [pc : PCs, lo : Nat]
      BY DEF PCs
    <2>3. \A d \in Commands : caller'[d] = IF d = c THEN [pc |-> "idle", lo |-> 0] ELSE caller[d]
      BY <1>6, <2>2, CallerFacts DEF CopyHigh
    <2>4. \A d \in Commands : got'[d] = IF d = c THEN [call |-> sent[c], lo |-> caller[c].lo,
                                                      hi |-> m_CommandWaiting[c].hi]
                                        ELSE got[d]
      BY <1>6 DEF CopyHigh, TypeOK
    <2>5. InFlight' /\ SlotOrder'
      BY <1>a, <2>1, InFlightKept DEF SlotOrder
    <2>6. Credit'
      BY <1>a, <1>b, <2>1, <2>3 DEF Credit, Flag, Pending
    <2>7. m_CommandWaiting[c].hi <= sent[c]
      BY <1>a, <1>b DEF SlotOrder
    <2>8. sent[c] <= m_CommandWaiting[c].hi + timeouts[c]
      BY <1>a, <1>b, <2>1 DEF Credit, Flag, Pending
    <2>9. caller[c].lo <= sent[c] /\ sent[c] <= caller[c].lo + timeouts[c]
      BY <1>a, <2>1 DEF Credit
    <2>10. LagBounded'
      BY <1>a, <2>1, <2>4, <2>7, <2>8, <2>9 DEF LagBounded
    <2> QED
      BY <2>5, <2>6, <2>10 DEF IInv
  <1>7. CASE StoreLow
    <2> DEFINE m == Head(responses)
    <2>1. /\ m \in Packets /\ m.cmd \in Commands /\ m.seq \in Nat
          /\ storing' = m /\ storing = NoPacket /\ responses # <<>>
          /\ \A d \in Commands :
                 /\ m_CommandWaiting'[d].lo = IF d = m.cmd THEN m.seq ELSE m_CommandWaiting[d].lo
                 /\ m_CommandWaiting'[d].hi = m_CommandWaiting[d].hi
                 /\ m_CommandWaiting'[d].first = m_CommandWaiting[d].first
      BY <1>7, StoreLowFacts
    <2>2. UNCHANGED <<caller, sent, timeouts, got>>
      BY <1>7 DEF StoreLow
    <2>3. m = responses[1] /\ 1 \in 1..Len(responses)
      BY <2>1, TailFacts DEF TypeOK
    <2>4. m_CommandWaiting[m.cmd].lo < m.seq /\ m.seq <= sent[m.cmd]
      BY <1>a, <2>3 DEF InFlight, Fresh
    <2> HIDE DEF m
    <2>5. InFlight'
      BY <1>7, <1>a, StoreKeepsOrder
    <2>6. \A d \in Commands : m_CommandWaiting[d].hi = m_CommandWaiting[d].lo
      BY <1>a, <2>1, NoneAssumption DEF SlotOrder, NoPacket
    <2>7. SlotOrder'
      BY <1>a, <1>b, <2>1, <2>2, <2>4, <2>6 DEF SlotOrder
    <2>8. Credit' /\ LagBounded'
      BY <1>a, <2>1, <2>2 DEF Credit, Flag, Pending, LagBounded
    <2> QED
      BY <2>5, <2>7, <2>8 DEF IInv
  <1>8. CASE StoreHigh
    <2>1. /\ storing \in Packets /\ storing.cmd \in Commands /\ storing.seq \in Nat
          /\ storing' = NoPacket
          /\ \A d \in Commands :
                 /\ m_CommandWaiting'[d].lo = m_CommandWaiting[d].lo
                 /\ m_CommandWaiting'[d].hi = IF d = storing.cmd THEN storing.seq ELSE m_CommandWaiting[d].hi
                 /\ m_CommandWaiting'[d].first = IF d = storing.cmd THEN TRUE ELSE m_CommandWaiting[d].first
      BY <1>8, StoreHighFacts
    <2>2. UNCHANGED <<requests, responses, caller, sent, timeouts, got>>
      BY <1>8 DEF StoreHigh
    <2>3. InFlight'
      BY <1>a, <2>1, <2>2, InFlightKept
    <2>4. \A d \in Commands : storing'.cmd # d
      BY <2>1, NoneAssumption DEF NoPacket
    <2>5. SlotOrder'
      BY <1>a, <1>b, <2>1, <2>2, <2>4 DEF SlotOrder
    <2>6. m_CommandWaiting[storing.cmd].hi < storing.seq
      BY <1>a, <2>1 DEF SlotOrder
    <2>7. ASSUME NEW d \in Commands
          PROVE  /\ sent'[d] + Flag(d)' <= m_CommandWaiting'[d].hi + timeouts'[d] + Pending(d)'
                 /\ caller'[d].pc = "clear" => m_CommandWaiting'[d].first
                 /\ caller'[d].pc = "copyHigh" => /\ caller'[d].lo <= sent'[d]
                                                  /\ sent'[d] <= caller'[d].lo + timeouts'[d]
      <3>a. Pending(d)' = Pending(d) /\ Pending(d) \in Nat /\ Flag(d) \in {0, 1}
        BY <2>2 DEF Pending, Flag
      <3>1. CASE d = storing.cmd
        <4>1. Flag(d)' = 1 /\ m_CommandWaiting'[d].hi = storing.seq /\ m_CommandWaiting'[d].first
          BY <2>1, <3>1 DEF Flag
        <4>2. sent[d] + Flag(d) <= m_CommandWaiting[d].hi + timeouts[d] + Pending(d)
          BY <1>a DEF Credit
        <4>3. m_CommandWaiting[d].hi + 1 <= storing.seq
          BY <1>b, <2>1, <2>6, <3>1
        <4>4. sent[d] + 1 <= storing.seq + timeouts[d] + Pending(d)
          BY <1>b, <2>1, <3>a, <4>2, <4>3
        <4> QED
          BY <1>a, <2>2, <3>a, <4>1, <4>4 DEF Credit
      <3>2. CASE d # storing.cmd
        BY <1>a, <1>b, <2>1, <2>2, <3>2 DEF Credit, Flag, Pending
      <3> QED
        BY <3>1, <3>2
    <2>8. Credit' /\ LagBounded'
      BY <1>a, <2>2, <2>7 DEF Credit, LagBounded
    <2> QED
      BY <2>3, <2>5, <2>8 DEF IInv
  <1>9. CASE l_HandleCommand \/ LoseRequest \/ LoseResponse
    <2>1. UNCHANGED <<m_CommandWaiting, storing, caller, sent, timeouts, got>>
      BY <1>9 DEF l_HandleCommand, LoseRequest, LoseResponse
    <2>2. ASSUME l_HandleCommand \/ LoseRequest PROVE InFlight'
      <3>1. /\ requests # <<>> /\ requests' = Tail(requests)
            /\ responses' = responses \/ responses' = Append(responses, Head(requests))
        BY <2>2 DEF l_HandleCommand, LoseRequest
      <3> QED
        BY <1>a, <2>1, <3>1, ServeKeepsOrder
    <2>3. ASSUME LoseResponse PROVE InFlight'
      BY <1>a, <2>3, LoseKeepsOrder
    <2>4. InFlight'
      BY <1>9, <2>2, <2>3
    <2>5. SlotOrder' /\ Credit' /\ LagBounded'
      BY <1>a, <2>1 DEF SlotOrder, Credit, Flag, Pending, LagBounded
    <2> QED
      BY <2>4, <2>5 DEF IInv
  <1>10. CASE UNCHANGED cmdVars
    <2>1. InFlight'
      BY <1>a, <1>10, InFlightKept DEF cmdVars
    <2> QED
      BY <1>a, <1>10, <2>1 DEF cmdVars, IInv, SlotOrder, Credit, Flag, Pending, LagBounded
  <1> QED
    BY <1>1, <1>2, <1>3, <1>4, <1>5, <1>6, <1>7, <1>8, <1>9, <1>10 DEF Next, Call, Listen

\* A slot whose flag has been set holds an answer.
Stored ==
    \A c \in Commands :
        m_CommandWaiting[c].first \/ caller[c].pc \in {"clear", "copy", "copyHigh"} =>
            m_CommandWaiting[c].hi > 0

LEMMA StoredNext == TypeOK /\ IInv /\ Stored /\ [Next]_cmdVars => Stored'
  <1> SUFFICES ASSUME TypeOK, IInv, Stored, [Next]_cmdVars PROVE Stored'
    OBVIOUS
  <1> USE DEF slotVars, netVars, callVars
  <1>1. SlotOrder /\ Credit
    BY DEF IInv
  <1>2. /\ m_CommandWaiting \in Slots /\ caller \in Callers
    BY DEF TypeOK, Slots, Callers, PCs
  <1>3. ASSUME NEW c \in Commands, Call(c) PROVE Stored'
    <2>1. CASE ClearFlag(c)
      BY <2>1, <1>1, <1>2, ClearFacts, GoToFacts DEF Stored, ClearFlag, At, PCs
    <2>2. CASE BuildAndSendPacket(c) \/ PollHit(c) \/ TimeOut(c)
      <3>1. UNCHANGED m_CommandWaiting
        BY <2>2 DEF BuildAndSendPacket, PollHit, TimeOut
      <3>2. \A d \in Commands : \/ caller'[d].pc = caller[d].pc
                                \/ caller'[d].pc \in {"wait", "idle"}
                                \/ m_CommandWaiting[d].first
        BY <2>2, GoToFacts DEF BuildAndSendPacket, PollHit, TimeOut, PCs
      <3> QED
        BY <3>1, <3>2 DEF Stored
    <2>3. CASE CopyLow(c) \/ CopyHigh(c)
      <3>1. UNCHANGED m_CommandWaiting
        BY <2>3 DEF CopyLow, CopyHigh
      <3>2. \A d \in Commands : \/ caller'[d] = caller[d]
                                \/ caller'[d].pc = "idle"
                                \/ caller'[d].pc = "copyHigh" /\ caller[d].pc = "copy"
        BY <1>2, <2>3 DEF CopyLow, CopyHigh, At, Callers
      <3> QED
        BY <3>1, <3>2 DEF Stored
    <2> QED
      BY <1>3, <2>1, <2>2, <2>3 DEF Call
  <1>4. CASE StoreLow
    BY <1>4, StoreLowFacts DEF Stored, StoreLow
  <1>5. CASE StoreHigh
    <2>1. storing.seq > 0
      <3>1. storing.cmd \in Commands /\ storing.seq \in Nat
        BY <1>5, StoreHighFacts
      <3>2. m_CommandWaiting[storing.cmd].hi < storing.seq /\ m_CommandWaiting[storing.cmd].hi \in Nat
        BY <1>1, <1>2, <3>1 DEF SlotOrder, Slots
      <3> QED
        BY <3>1, <3>2
    <2> QED
      BY <1>5, <2>1, StoreHighFacts DEF Stored, StoreHigh
  <1>6. CASE l_HandleCommand \/ LoseRequest \/ LoseResponse
    BY <1>6 DEF Stored, l_HandleCommand, LoseRequest, LoseResponse
  <1>7. CASE UNCHANGED cmdVars
    BY <1>7 DEF Stored, cmdVars
  <1> QED
    BY <1>3, <1>4, <1>5, <1>6, <1>7 DEF Next, Listen

\* What a call of Commander.cpp returns lags behind its request by no more than
\* the number of calls that have timed out, however packets are lost and late.
THEOREM LagIsBounded == Spec => []LagBounded
  <1>1. IInv => LagBounded
    BY DEF IInv
  <1> QED
    BY <1>1, InvInit, InvNext, CommanderTypes, PTL DEF Spec
==============================================================================

------------------------ MODULE FileTransfer_proofs --------------------------
(* The image is on the device before the first FINALIZE is handled, for every *)
(* image, page size and device, and any number of calls and lost packets.     *)
(*                                                                            *)
(* The argument: a call that got an answer moves the thread on by one message *)
(* of the transfer, and one that got none leaves it where it is.  So what is  *)
(* in the queue of requests follows the order of the transfer, each message   *)
(* once or several times, and ends where the thread is (QueueOK): with a late *)
(* answer because then nothing was lost, and without one because the thread   *)
(* goes on only when the queue is empty.  The firmware handles the queue in   *)
(* order and is therefore never asked for a chunk before it has those in      *)
(* front of it (DataOK); a chunk that comes twice is written twice, with the  *)
(* same bytes.  After the first FINALIZE nothing else comes (OverOK).         *)
EXTENDS FileTransfer, SequenceTheorems, TLAPS

CP == INSTANCE Commander_proofs WITH Commands <- {"SEND_FILE"}, Answered <- {"SEND_FILE"}

FP == INSTANCE FileHelper_proofs WITH
        Indices <- {}, Payloads <- {}, ReadLengths <- {},
        InitialEEPROM <- [p \in 0..LAST_PAGE |-> [o \in 0..(EEPROM_PAGE_SIZE - 1) |-> 0]]

SEND == "SEND_FILE"

-----------------------------------------------------------------------------
(* Commander underneath *)

\* What Commander's proofs say of it.
CommanderInv == CP!TypeOK /\ CP!IInv /\ CP!Stored

LEMMA CommanderAssumed == CP!CommandAssumption /\ CP!NoneAssumption
  BY TransferAssumption DEF CP!CommandAssumption, CP!NoneAssumption

LEMMA SameCommanderTypes == C!TypeOK <=> CP!TypeOK
  BY DEF C!TypeOK, CP!TypeOK, C!Packets, CP!Packets, C!NoPacket, CP!NoPacket

\* The steps of Commander are those of the module the proofs are about.
LEMMA SameCalls ==
    /\ C!Init => CP!Init
    /\ C!BuildAndSendPacket(SEND) => CP!BuildAndSendPacket(SEND)
    /\ C!PollHit(SEND) => CP!PollHit(SEND)
    /\ C!TimeOut(SEND) => CP!TimeOut(SEND)
    /\ C!ClearFlag(SEND) => CP!ClearFlag(SEND)
    /\ C!CopyLow(SEND) => CP!CopyLow(SEND)
    /\ C!CopyHigh(SEND) => CP!CopyHigh(SEND)
    /\ C!StoreLow => CP!StoreLow
    /\ C!StoreHigh => CP!StoreHigh
    /\ C!l_HandleCommand => CP!l_HandleCommand
    /\ C!LoseRequest => CP!LoseRequest
    /\ C!LoseResponse => CP!LoseResponse
  <1> USE DEF C!slotVars, CP!slotVars, C!netVars, CP!netVars, C!callVars, CP!callVars, C!NoPacket, CP!NoPacket,
              C!At, CP!At, C!GoTo, CP!GoTo, C!MutexFree, CP!MutexFree
  <1>1. C!Init => CP!Init
    BY DEF C!Init, CP!Init
  <1>2. /\ C!BuildAndSendPacket(SEND) => CP!BuildAndSendPacket(SEND)
        /\ C!PollHit(SEND) => CP!PollHit(SEND)
        /\ C!TimeOut(SEND) => CP!TimeOut(SEND)
        /\ C!ClearFlag(SEND) => CP!ClearFlag(SEND)
        /\ C!CopyLow(SEND) => CP!CopyLow(SEND)
        /\ C!CopyHigh(SEND) => CP!CopyHigh(SEND)
    BY DEF C!BuildAndSendPacket, CP!BuildAndSendPacket, C!PollHit, CP!PollHit, C!TimeOut, CP!TimeOut,
           C!ClearFlag, CP!ClearFlag, C!CopyLow, CP!CopyLow, C!CopyHigh, CP!CopyHigh
  <1>3. /\ C!StoreLow => CP!StoreLow
        /\ C!StoreHigh => CP!StoreHigh
    BY DEF C!StoreLow, CP!StoreLow, C!StoreHigh, CP!StoreHigh
  <1>4. /\ C!l_HandleCommand => CP!l_HandleCommand
        /\ C!LoseRequest => CP!LoseRequest
        /\ C!LoseResponse => CP!LoseResponse
    BY DEF C!l_HandleCommand, CP!l_HandleCommand, C!LoseRequest, CP!LoseRequest, C!LoseResponse, CP!LoseResponse
  <1> QED
    BY <1>1, <1>2, <1>3, <1>4

\* A step of Commander, whoever takes it.
CommanderStep ==
    \/ C!BuildAndSendPacket(SEND) \/ C!PollHit(SEND) \/ C!TimeOut(SEND) \/ C!ClearFlag(SEND)
    \/ C!CopyLow(SEND) \/ C!CopyHigh(SEND)
    \/ C!Listen \/ C!l_HandleCommand \/ C!LoseRequest \/ C!LoseResponse

LEMMA CommanderNext == CommanderInv /\ CommanderStep => CommanderInv'
  <1>1. CommanderStep => CP!Next
    BY SameCalls DEF CommanderStep, CP!Next, CP!Call, CP!Listen, C!Listen, SEND
  <1> QED
    BY <1>1, CommanderAssumed, CP!StoredNext, CP!TypeNext, CP!InvNext DEF CommanderInv

LEMMA CommanderUnchanged == CommanderInv /\ UNCHANGED cmdVars => CommanderInv'
  <1>1. UNCHANGED cmdVars => UNCHANGED CP!cmdVars
    BY DEF cmdVars, CP!cmdVars, CP!netVars, CP!slotVars, CP!callVars
  <1> QED
    BY <1>1, CommanderAssumed, CP!StoredNext, CP!TypeNext, CP!InvNext DEF CommanderInv

LEMMA CommanderInit == C!Init => CommanderInv
  <1> SUFFICES ASSUME C!Init PROVE CommanderInv
    OBVIOUS
  <1>1. CP!IInv
    BY CommanderAssumed, SameCalls, CP!InvInit
  <1>2. CP!TypeOK
    BY DEF C!Init, C!NoPacket, CP!TypeOK, CP!NoPacket
  <1> QED
    BY <1>1, <1>2 DEF CommanderInv, CP!Stored, C!Init

-----------------------------------------------------------------------------
(* The file store underneath *)

LEMMA StoreAssumed == FP!SizeAssumption /\ FP!CallerAssumption /\ FP!DeviceAssumption
  <1>1. FP!SizeAssumption
    BY TransferAssumption DEF FP!SizeAssumption, FP!FILE_DATA_PAGE
  <1>2. FP!CallerAssumption
    BY DEF FP!CallerAssumption
  <1>3. FP!DeviceAssumption
    BY TransferAssumption DEF FP!DeviceAssumption, FP!Pages, FP!PageContents, FP!Offsets
  <1> QED
    BY <1>1, <1>2, <1>3

LEMMA SameStoreTypes == F!TypeOK <=> FP!TypeOK
  BY DEF F!TypeOK, FP!TypeOK, F!Pages, FP!Pages, F!PageContents, FP!PageContents, F!Offsets, FP!Offsets,
         F!CallOK, FP!CallOK, F!Calls, FP!Calls, F!OK, FP!OK, F!ERROR, FP!ERROR, F!Running, FP!Running

LEMMA SameStoreSteps ==
    /\ F!Init => FP!Init
    /\ \A i, buf : F!File_write(i, buf) => FP!File_write(i, buf)
    /\ F!SwitchPage => FP!SwitchPage
    /\ F!WriteByte => FP!WriteByte
    /\ F!WriteReturn => FP!WriteReturn
    /\ F!File_flush => FP!File_flush
    /\ F!File_reset => FP!File_reset
    /\ F!File_finalize => FP!File_finalize
  <1> USE DEF F!Running, FP!Running, F!OK, FP!OK, F!ERROR, FP!ERROR, F!Pages, FP!Pages, F!Offsets, FP!Offsets,
              F!Mixed, FP!Mixed, F!bufferVars, FP!bufferVars, F!infoVars, FP!infoVars, F!NoCall, FP!NoCall,
              F!Idle, FP!Idle, F!InLoop, FP!InLoop, F!desiredpage, FP!desiredpage, F!pageoffset, FP!pageoffset,
              F!Return, FP!Return, F!FILE_INFO_PAGE, FP!FILE_INFO_PAGE, F!FILE_DATA_PAGE, FP!FILE_DATA_PAGE,
              F!FlushOutcomes, FP!FlushOutcomes, F!WriteOutcomes, FP!WriteOutcomes,
              F!ReadOutcomes, FP!ReadOutcomes, F!InfoOutcomes, FP!InfoOutcomes, F!WithInfo, FP!WithInfo
  <1>1. F!Init => FP!Init
    BY DEF F!Init, FP!Init
  <1>2. \A i, buf : F!File_write(i, buf) => FP!File_write(i, buf)
    BY DEF F!File_write, FP!File_write
  <1>3. F!SwitchPage => FP!SwitchPage
    BY DEF F!SwitchPage, FP!SwitchPage
  <1>4. F!WriteByte => FP!WriteByte
    BY DEF F!WriteByte, FP!WriteByte
  <1>5. F!WriteReturn => FP!WriteReturn
    BY DEF F!WriteReturn, FP!WriteReturn, F!LengthAfter, FP!LengthAfter
  <1>6. F!File_flush => FP!File_flush
    BY DEF F!File_flush, FP!File_flush
  <1>7. F!File_reset => FP!File_reset
    BY DEF F!File_reset, FP!File_reset, F!InitBuffer, FP!InitBuffer
  <1>8. F!File_finalize => FP!File_finalize
    BY DEF F!File_finalize, FP!File_finalize, F!Checksums, FP!Checksums, F!DataSum, FP!DataSum,
           F!FileByte, FP!FileByte
  <1> QED
    BY <1>1, <1>2, <1>3, <1>4, <1>5, <1>6, <1>7, <1>8

-----------------------------------------------------------------------------
(* The packets on their way *)

\* Every request is newer than the slot and than every answer on its way, and
\* belongs to a call that was made.
LEMMA Requests ==
    ASSUME CommanderInv
    PROVE  /\ sent[SEND] \in Nat /\ m_CommandWaiting[SEND].lo \in Nat /\ m_CommandWaiting[SEND].hi \in Nat
           /\ Len(requests) \in Nat /\ Len(responses) \in Nat
           /\ \A i \in 1..Len(requests) :
                 /\ requests[i].seq \in 1..sent[SEND]
                 /\ requests[i].cmd = SEND
                 /\ m_CommandWaiting[SEND].lo < requests[i].seq
                 /\ \A j \in 1..Len(responses) :
                       responses[j].seq \in Nat /\ responses[j].seq < requests[i].seq
           /\ m_CommandWaiting[SEND].hi <= m_CommandWaiting[SEND].lo
           /\ m_CommandWaiting[SEND].lo <= sent[SEND]
  <1>1. CP!TypeOK /\ CP!InFlight /\ CP!SlotOrder
    BY DEF CommanderInv, CP!IInv
  <1>2. /\ sent[SEND] \in Nat /\ m_CommandWaiting[SEND].lo \in Nat /\ m_CommandWaiting[SEND].hi \in Nat
        /\ requests \in Seq(CP!Packets) /\ responses \in Seq(CP!Packets)
        /\ storing \in CP!Packets \cup {CP!NoPacket}
    BY <1>1 DEF CP!TypeOK, SEND
  <1>3. \A i \in 1..Len(requests) : requests[i].cmd = SEND /\ requests[i].seq \in Nat
    <2>1. \A i \in 1..Len(requests) : requests[i] \in CP!Packets
      BY <1>2, ElementOfSeq
    <2> QED
      BY <2>1 DEF CP!Packets, SEND
  <1>4. \A i \in 1..Len(responses) : responses[i].cmd = SEND /\ responses[i].seq \in Nat
    <2>1. \A i \in 1..Len(responses) : responses[i] \in CP!Packets
      BY <1>2, ElementOfSeq
    <2> QED
      BY <2>1 DEF CP!Packets, SEND
  <1>5. /\ m_CommandWaiting[SEND].hi <= m_CommandWaiting[SEND].lo
        /\ m_CommandWaiting[SEND].lo <= sent[SEND]
    BY <1>1, <1>2 DEF CP!SlotOrder, SEND
  <1>6. Len(requests) \in Nat /\ Len(responses) \in Nat
    BY <1>2, LenProperties
  <1>7. ASSUME NEW i \in 1..Len(requests)
        PROVE  /\ requests[i].seq \in 1..sent[SEND]
               /\ m_CommandWaiting[SEND].lo < requests[i].seq
               /\ \A j \in 1..Len(responses) : responses[j].seq < requests[i].seq
    <2>1. m_CommandWaiting[SEND].lo < requests[i].seq /\ requests[i].seq <= sent[SEND]
      BY <1>1, <1>3 DEF CP!InFlight, CP!Fresh
    <2>2. \A j \in 1..Len(responses) : responses[j].seq < requests[i].seq
      BY <1>1, <1>3, <1>4 DEF CP!InFlight
    <2> QED
      BY <1>2, <1>3, <2>1, <2>2
  <1> QED
    BY <1>2, <1>3, <1>4, <1>5, <1>6, <1>7

\* What the queues' tails are.
LEMMA TailPackets ==
    ASSUME CommanderInv
    PROVE  /\ requests # <<>> =>
                 /\ Len(requests) >= 1 /\ Head(requests) = requests[1]
                 /\ Len(Tail(requests)) = Len(requests) - 1
                 /\ \A i \in 1..(Len(requests) - 1) : Tail(requests)[i] = requests[i + 1]
           /\ responses # <<>> =>
                 /\ Len(responses) >= 1 /\ Head(responses) = responses[1]
                 /\ Len(Tail(responses)) = Len(responses) - 1
                 /\ \A i \in 1..(Len(responses) - 1) : Tail(responses)[i] = responses[i + 1]
  <1>1. requests \in Seq(CP!Packets) /\ responses \in Seq(CP!Packets)
    BY DEF CommanderInv, CP!TypeOK
  <1>2. Len(requests) \in Nat /\ Len(responses) \in Nat
    BY <1>1, LenProperties
  <1>3. requests # <<>> => Len(requests) >= 1
    BY <1>1, <1>2, EmptySeq
  <1>4. responses # <<>> => Len(responses) >= 1
    BY <1>1, <1>2, EmptySeq
  <1> QED
    BY <1>1, <1>2, <1>3, <1>4, CP!TailFacts

-----------------------------------------------------------------------------
(* Types *)

Busy == caller[SEND].pc # "idle"

MessageTypes == [index : Nat, data : Seq(Nat)]

\* The thread is inside a loop while a call is on.
Counts ==
    /\ messages \in Seq(MessageTypes)
    /\ sent[SEND] <= MaxCalls
    /\ Busy => failedmessagecount < FAIL_LIMIT /\ (phase = "data" => index < Len(Image))

TypeInv == TypeOK /\ CommanderInv /\ Counts

\* A message is half a page at most, and at least a byte.
LEMMA ChunkSize == CHUNK \in Nat /\ CHUNK >= 1 /\ Len(Image) \in Nat /\ Len(Image) >= 1
  <1>1. EEPROM_PAGE_SIZE \in Nat /\ EEPROM_PAGE_SIZE >= 2
    BY TransferAssumption
  <1>2. CHUNK \in Nat /\ CHUNK >= 1
    BY <1>1 DEF CHUNK
  <1>3. Len(Image) \in Nat /\ Len(Image) >= 1
    BY TransferAssumption
  <1> QED
    BY <1>2, <1>3

\* What the steps of a call do to the caller's record.
LEMMA CallFacts ==
    ASSUME CommanderInv
    PROVE  /\ C!BuildAndSendPacket(SEND) =>
                 /\ ~Busy /\ Busy' /\ sent[SEND] < MaxCalls /\ sent'[SEND] = sent[SEND] + 1
                 /\ requests' = Append(requests, [cmd |-> SEND, seq |-> sent[SEND] + 1])
                 /\ UNCHANGED <<responses, m_CommandWaiting>>
           /\ C!TimeOut(SEND) =>
                 Busy /\ ~Busy' /\ UNCHANGED <<requests, responses, m_CommandWaiting, sent>>
           /\ C!CopyHigh(SEND) =>
                 /\ Busy /\ ~Busy' /\ UNCHANGED <<requests, responses, m_CommandWaiting, sent>>
                 /\ got'[SEND].hi = m_CommandWaiting[SEND].hi
                 /\ caller[SEND].pc = "copyHigh"
           /\ C!PollHit(SEND) \/ C!ClearFlag(SEND) \/ C!CopyLow(SEND) =>
                 /\ Busy /\ Busy' /\ UNCHANGED <<requests, responses, sent>>
                 /\ m_CommandWaiting'[SEND].lo = m_CommandWaiting[SEND].lo
           /\ C!StoreLow =>
                 /\ UNCHANGED <<caller, requests, sent>>
                 /\ responses # <<>> /\ responses' = Tail(responses)
                 /\ m_CommandWaiting'[SEND].lo \in {m_CommandWaiting[SEND].lo, Head(responses).seq}
           /\ C!StoreHigh =>
                 /\ UNCHANGED <<caller, requests, responses, sent>>
                 /\ m_CommandWaiting'[SEND].lo = m_CommandWaiting[SEND].lo
  <1> USE DEF C!slotVars, C!netVars, C!callVars, C!At, C!GoTo, Busy
  <1>1. /\ caller \in [{SEND} -> [pc : {"idle", "wait", "clear", "copy", "copyHigh"}, lo : Nat]]
        /\ sent \in [{SEND} -> Nat]
        /\ got \in [{SEND} -> [call : Nat, lo : Nat, hi : Nat]]
        /\ m_CommandWaiting \in [{SEND} -> [first : BOOLEAN, lo : Nat, hi : Nat]]
    BY DEF CommanderInv, CP!TypeOK, SEND
  <1>2. \A pc : C!GoTo(SEND, pc) => caller'[SEND].pc = pc
    BY <1>1
  <1>3. ASSUME C!BuildAndSendPacket(SEND)
        PROVE  /\ ~Busy /\ Busy' /\ sent[SEND] < MaxCalls /\ sent'[SEND] = sent[SEND] + 1
               /\ requests' = Append(requests, [cmd |-> SEND, seq |-> sent[SEND] + 1])
               /\ UNCHANGED <<responses, m_CommandWaiting>>
    BY <1>1, <1>2, <1>3 DEF C!BuildAndSendPacket
  <1>4. ASSUME C!TimeOut(SEND)
        PROVE  Busy /\ ~Busy' /\ UNCHANGED <<requests, responses, m_CommandWaiting, sent>>
    BY <1>1, <1>2, <1>4 DEF C!TimeOut
  <1>5. ASSUME C!CopyHigh(SEND)
        PROVE  /\ Busy /\ ~Busy' /\ UNCHANGED <<requests, responses, m_CommandWaiting, sent>>
               /\ got'[SEND].hi = m_CommandWaiting[SEND].hi
               /\ caller[SEND].pc = "copyHigh"
    BY <1>1, <1>5 DEF C!CopyHigh
  <1>6. ASSUME C!PollHit(SEND) \/ C!ClearFlag(SEND) \/ C!CopyLow(SEND)
        PROVE  /\ Busy /\ Busy' /\ UNCHANGED <<requests, responses, sent>>
               /\ m_CommandWaiting'[SEND].lo = m_CommandWaiting[SEND].lo
    <2>1. CASE C!PollHit(SEND)
      BY <1>1, <1>2, <2>1 DEF C!PollHit
    <2>2. CASE C!ClearFlag(SEND)
      BY <1>1, <1>2, <2>2 DEF C!ClearFlag
    <2>3. CASE C!CopyLow(SEND)
      BY <1>1, <2>3 DEF C!CopyLow
    <2> QED
      BY <1>6, <2>1, <2>2, <2>3
  <1>7. ASSUME C!StoreLow
        PROVE  /\ UNCHANGED <<caller, requests, sent>>
               /\ responses # <<>> /\ responses' = Tail(responses)
               /\ m_CommandWaiting'[SEND].lo \in {m_CommandWaiting[SEND].lo, Head(responses).seq}
    BY <1>1, <1>7 DEF C!StoreLow
  <1>8. ASSUME C!StoreHigh
        PROVE  /\ UNCHANGED <<caller, requests, responses, sent>>
               /\ m_CommandWaiting'[SEND].lo = m_CommandWaiting[SEND].lo
    BY <1>1, <1>8 DEF C!StoreHigh
  <1> QED
    BY <1>3, <1>4, <1>5, <1>6, <1>7, <1>8

\* A call that returns found an answer to a call that was made.
LEMMA ReturnedAnswer ==
    ASSUME CommanderInv, sent[SEND] <= MaxCalls, C!CopyHigh(SEND)
    PROVE  got'[SEND].hi \in 1..MaxCalls
  <1>1. m_CommandWaiting[SEND].hi > 0
    <2>1. CP!Stored /\ caller[SEND].pc = "copyHigh"
      BY CallFacts DEF CommanderInv
    <2> QED
      BY <2>1 DEF CP!Stored, SEND
  <1>2. got'[SEND].hi = m_CommandWaiting[SEND].hi
    BY CallFacts
  <1> QED
    BY <1>1, <1>2, Requests, TransferAssumption

\* A chunk of the image.
LEMMA ChunkFacts ==
    ASSUME NEW i \in Nat, i < Len(Image)
    PROVE  LET size == IF CHUNK > Len(Image) - i THEN Len(Image) - i ELSE CHUNK
               data == SubSeq(Image, i + 1, i + size)
           IN  /\ size \in 1..CHUNK /\ i + size <= Len(Image)
               /\ data \in Seq(Nat) /\ Len(data) = size /\ data # <<>>
               /\ \A k \in 1..size : data[k] = Image[i + k]
  <1> DEFINE size == IF CHUNK > Len(Image) - i THEN Len(Image) - i ELSE CHUNK
             data == SubSeq(Image, i + 1, i + size)
  <1>1. size \in 1..CHUNK /\ i + size <= Len(Image)
    BY ChunkSize
  <1>2. Image \in Seq(Nat)
    BY TransferAssumption
  <1> HIDE DEF size
  <1>3. data \in Seq(Nat) /\ Len(data) = size /\ \A k \in 1..size : data[k] = Image[i + k]
    BY <1>1, <1>2, ChunkSize
  <1>4. data # <<>>
    BY <1>1, <1>3, ChunkSize, EmptySeq
  <1> QED
    BY <1>1, <1>3, <1>4 DEF size

LEMMA MessageType ==
    ASSUME TypeInv, phase # "done", LoopGoesOn
    PROVE  Message \in MessageTypes
  <1>1. index \in Nat /\ phase \in {"reset", "data", "close", "finalize", "done"}
    BY ChunkSize DEF TypeInv, TypeOK
  <1>2. CASE phase = "data"
    <2>1. Chunk \in Seq(Nat)
      BY <1>1, <1>2, ChunkFacts DEF LoopGoesOn, Chunk
    <2> QED
      BY <1>1, <1>2, <2>1 DEF Message, MessageTypes
  <1>3. <<>> \in Seq(Nat)
    OBVIOUS
  <1>4. CASE phase # "data"
    BY <1>1, <1>3, <1>4 DEF Message, MessageTypes, SEND_FILE_RESET_INDEX, SEND_FILE_CLOSE_INDEX, SEND_FILE_FINALIZE_INDEX
  <1> QED
    BY <1>2, <1>4

\* A step of the file store, whoever asks for it.
StoreCall ==
    \/ \E i \in Nat, buf \in Seq(Nat) \ {<<>>} : F!File_write(i, buf)
    \/ F!SwitchPage \/ F!WriteByte \/ F!WriteReturn
    \/ F!File_flush \/ F!File_reset \/ F!File_finalize

LEMMA StoreTypes == F!TypeOK /\ StoreCall => F!TypeOK'
  <1>1. StoreCall => FP!Next \/ \E i \in Nat, buf \in Seq(Nat) : FP!File_write(i, buf)
    BY SameStoreSteps DEF StoreCall, FP!Next, FP!Operation
  <1>2. FP!TypeOK /\ FP!Next => FP!TypeOK'
    BY StoreAssumed, FP!TypeNext
  <1>4. ASSUME FP!TypeOK, NEW i \in Nat, NEW buf \in Seq(Nat), FP!File_write(i, buf)
        PROVE  FP!TypeOK'
    BY <1>4, StoreAssumed, FP!WriteTypes
  <1>3. F!TypeOK' <=> FP!TypeOK'
    BY DEF F!TypeOK, FP!TypeOK, F!Pages, FP!Pages, F!PageContents, FP!PageContents, F!Offsets, FP!Offsets,
           F!CallOK, FP!CallOK, F!Calls, FP!Calls, F!OK, FP!OK, F!ERROR, FP!ERROR, F!Running, FP!Running
  <1> QED
    BY <1>1, <1>2, <1>3, <1>4, SameStoreTypes

LEMMA StoreTypesKept == F!TypeOK /\ UNCHANGED fileVars => F!TypeOK'
  BY DEF fileVars, F!TypeOK, F!CallOK

\* The message at the head of the queue is one the thread has sent.
LEMMA ArrivedType ==
    ASSUME TypeInv, NEW i \in 1..Len(requests)
    PROVE  requests[i].seq \in 1..Len(messages) /\ messages[requests[i].seq] \in MessageTypes
  <1>1. requests[i].seq \in 1..Len(messages)
    BY Requests DEF TypeInv, TypeOK, SEND
  <1> QED
    BY <1>1 DEF TypeInv, Counts

LEMMA ServeTypes ==
    ASSUME TypeInv, l_ProcessSendFile
    PROVE  StoreCall
  <1>1. Arrived \in MessageTypes
    BY TailPackets, Requests, ArrivedType DEF l_ProcessSendFile, Arrived, TypeInv
  <1>2. Arrived.index \in Nat /\ Arrived.data \in Seq(Nat)
    BY <1>1 DEF MessageTypes
  <1> QED
    BY <1>2 DEF l_ProcessSendFile, StoreCall

LEMMA TypeInit == Init => TypeInv
  <1> SUFFICES ASSUME Init PROVE TypeInv
    OBVIOUS
  <1>1. F!TypeOK
    <2>1. FP!Init
      BY SameStoreSteps DEF Init
    <2>2. FP!TypeOK
      BY <2>1, StoreAssumed, FP!TypeInit
    <2> QED
      BY <2>2, SameStoreTypes
  <1>2. CommanderInv /\ C!TypeOK
    BY CommanderInit, SameCommanderTypes DEF Init, CommanderInv
  <1>3. Counts
    BY TransferAssumption DEF Init, C!Init, Counts, Busy, SEND
  <1>4. Len(messages) = sent["SEND_FILE"]
    BY DEF Init, C!Init
  <1>5. answers \in [1..MaxCalls -> {F!OK, F!ERROR}]
    BY DEF Init, ACK_OK, F!OK, F!ERROR
  <1>6. 0 \in 0..(Len(Image) + CHUNK) /\ 0 \in 0..FAIL_LIMIT /\ 0 \in 0..MaxLost
    BY ChunkSize, TransferAssumption
  <1>7. /\ phase \in {"reset", "data", "close", "finalize", "done"}
        /\ index \in 0..(Len(Image) + CHUNK) /\ ack \in {0, 1} /\ failedmessagecount \in 0..FAIL_LIMIT
        /\ serving \in BOOLEAN /\ lost \in 0..MaxLost /\ late \in BOOLEAN
    BY <1>6 DEF Init
  <1> QED
    BY <1>1, <1>2, <1>3, <1>4, <1>5, <1>7 DEF TypeInv, TypeOK

LEMMA TransferTypeNext == TypeInv /\ [Next]_vars => TypeInv'
  <1> SUFFICES ASSUME TypeInv, [Next]_vars PROVE TypeInv'
    OBVIOUS
  <1>a. /\ F!TypeOK /\ C!TypeOK /\ CommanderInv /\ Counts
        /\ phase \in {"reset", "data", "close", "finalize", "done"}
        /\ index \in 0..(Len(Image) + CHUNK) /\ ack \in {0, 1} /\ failedmessagecount \in 0..FAIL_LIMIT
        /\ Len(messages) = sent[SEND] /\ answers \in [1..MaxCalls -> {F!OK, F!ERROR}]
        /\ serving \in BOOLEAN /\ lost \in 0..MaxLost /\ late \in BOOLEAN
    BY DEF TypeInv, TypeOK, SEND
  <1>b. /\ CommanderStep \/ UNCHANGED cmdVars => CommanderInv' /\ C!TypeOK'
        /\ StoreCall \/ UNCHANGED fileVars => F!TypeOK'
    <2>1. C!TypeOK' <=> CP!TypeOK'
      BY DEF C!TypeOK, CP!TypeOK, C!Packets, CP!Packets, C!NoPacket, CP!NoPacket
    <2> QED
      BY <1>a, <2>1, CommanderNext, CommanderUnchanged, StoreTypes, StoreTypesKept DEF CommanderInv
  <1>c. sent[SEND] \in Nat
    BY <1>a, Requests
  <1>1. CASE SendMessage
    <2>1. UNCHANGED fileVars /\ CommanderStep /\ C!BuildAndSendPacket(SEND)
      BY <1>1 DEF SendMessage, CommanderStep, SEND
    <2>2. Message \in MessageTypes /\ messages' = Append(messages, Message)
      BY <1>1, MessageType DEF SendMessage
    <2>3. messages' \in Seq(MessageTypes) /\ Len(messages') = Len(messages) + 1
      BY <1>a, <2>2, AppendProperties DEF Counts
    <2>4. sent'[SEND] = sent[SEND] + 1 /\ sent'[SEND] <= MaxCalls
      BY <1>a, <1>c, <2>1, CallFacts, TransferAssumption
    <2>5. failedmessagecount < FAIL_LIMIT /\ (phase = "data" => index < Len(Image))
      BY <1>1 DEF SendMessage, LoopGoesOn
    <2>6. UNCHANGED <<phase, index, ack, failedmessagecount, late, answers, serving, lost>>
      BY <1>1 DEF SendMessage, firmwareVars
    <2>7. Counts'
      BY <2>3, <2>4, <2>5, <2>6 DEF Counts
    <2> QED
      BY <1>a, <1>b, <2>1, <2>3, <2>4, <2>6, <2>7 DEF TypeInv, TypeOK, SEND
  <1>2. CASE LeaveLoop
    <2>1. UNCHANGED <<fileVars, cmdVars, index, failedmessagecount, messages, late, firmwareVars, lost>>
          /\ phase # "done" /\ phase' = NextPhase[phase] /\ ack' = 1 /\ ~Busy
      BY <1>2 DEF LeaveLoop, CallerIdle, C!At, Busy, SEND
    <2>2. phase' \in {"reset", "data", "close", "finalize", "done"}
      BY <1>a, <2>1 DEF NextPhase
    <2>3. UNCHANGED <<caller, sent>>
      BY <2>1 DEF cmdVars
    <2>4. Counts'
      BY <1>a, <2>1, <2>3 DEF Counts, Busy
    <2> QED
      BY <1>a, <1>b, <2>1, <2>2, <2>3, <2>4 DEF TypeInv, TypeOK, SEND, firmwareVars
  <1>3. CASE CallFails
    <2>1. CommanderStep /\ C!TimeOut(SEND) /\ failedmessagecount' = failedmessagecount + 1
          /\ UNCHANGED <<fileVars, phase, index, ack, messages, late, firmwareVars, lost>>
      BY <1>3 DEF CallFails, CommanderStep, SEND
    <2>2. Busy /\ ~Busy' /\ UNCHANGED sent
      BY <1>a, <2>1, CallFacts
    <2>3. failedmessagecount' \in 0..FAIL_LIMIT
      BY <1>a, <2>1, <2>2, TransferAssumption DEF Counts
    <2>4. Counts'
      BY <1>a, <2>1, <2>2 DEF Counts
    <2> QED
      BY <1>a, <1>b, <2>1, <2>2, <2>3, <2>4 DEF TypeInv, TypeOK, SEND, firmwareVars
  <1>4. CASE CallReturns
    <2> DEFINE answer == got'["SEND_FILE"].hi
    <2>1. CommanderStep /\ C!CopyHigh(SEND) /\ ack' = answers[answer]
          /\ late' = (late \/ answer # sent["SEND_FILE"]) /\ failedmessagecount' = 0
          /\ index' = (IF phase = "data" /\ ack' = ACK_OK THEN index + CHUNK ELSE index)
          /\ UNCHANGED <<fileVars, phase, messages, firmwareVars, lost>>
      BY <1>4 DEF CallReturns, CommanderStep, SEND
    <2>2. Busy /\ ~Busy' /\ UNCHANGED sent
      BY <1>a, <2>1, CallFacts
    <2>3. answer \in 1..MaxCalls
      BY <1>a, <2>1, ReturnedAnswer DEF Counts, SEND
    <2> HIDE DEF answer
    <2>4. ack' \in {0, 1}
      BY <1>a, <2>1, <2>3 DEF F!OK, F!ERROR
    <2>5. late' \in BOOLEAN
      BY <2>1
    <2>6. index' \in 0..(Len(Image) + CHUNK)
      BY <1>a, <2>1, <2>2, ChunkSize DEF Counts
    <2>7. failedmessagecount' \in 0..FAIL_LIMIT
      BY <2>1, TransferAssumption
    <2>8. Counts'
      BY <1>a, <2>1, <2>2 DEF Counts
    <2> QED
      BY <1>a, <1>b, <2>1, <2>2, <2>4, <2>5, <2>6, <2>7, <2>8 DEF TypeInv, TypeOK, SEND, firmwareVars
  <1>5. CASE CallStep
    <2>1. CommanderStep /\ UNCHANGED <<fileVars, dialogVars, firmwareVars, lost>>
      BY <1>5 DEF CallStep, CommanderStep, SEND
    <2>2. UNCHANGED sent /\ (Busy' => Busy)
      BY <1>5, <1>a, CallFacts DEF CallStep, C!Listen, SEND, Busy
    <2>3. Counts'
      BY <1>a, <2>1, <2>2 DEF Counts, dialogVars
    <2> QED
      BY <1>a, <1>b, <2>1, <2>2, <2>3 DEF TypeInv, TypeOK, SEND, firmwareVars, dialogVars
  <1>6. CASE l_ProcessSendFile
    <2>1. StoreCall /\ UNCHANGED <<cmdVars, dialogVars, answers, lost>> /\ serving' = TRUE
      BY <1>6, ServeTypes DEF l_ProcessSendFile
    <2>2. UNCHANGED <<caller, sent>>
      BY <2>1 DEF cmdVars
    <2>3. Counts'
      BY <1>a, <2>1, <2>2 DEF Counts, dialogVars, Busy
    <2> QED
      BY <1>a, <1>b, <2>1, <2>2, <2>3 DEF TypeInv, TypeOK, SEND, dialogVars
  <1>7. CASE StoreStep
    <2>1. StoreCall /\ UNCHANGED <<cmdVars, dialogVars, firmwareVars, lost>>
      BY <1>7 DEF StoreStep, StoreCall
    <2>2. UNCHANGED <<caller, sent>>
      BY <2>1 DEF cmdVars
    <2>3. Counts'
      BY <1>a, <2>1, <2>2 DEF Counts, dialogVars, Busy
    <2> QED
      BY <1>a, <1>b, <2>1, <2>2, <2>3 DEF TypeInv, TypeOK, SEND, dialogVars, firmwareVars
  <1>8. CASE SendAnswer
    <2>1. CommanderStep /\ C!l_HandleCommand /\ F!Idle /\ serving' = FALSE
          /\ answers' = [answers EXCEPT ![Head(requests).seq] = call.status]
          /\ UNCHANGED <<fileVars, dialogVars, lost>>
      BY <1>8 DEF SendAnswer, CommanderStep
    <2>2. UNCHANGED <<caller, sent>>
      BY <2>1 DEF C!l_HandleCommand, C!callVars
    <2>3. call.status \in {F!OK, F!ERROR}
      BY <1>a, <2>1 DEF F!TypeOK, F!CallOK, F!Calls, F!Idle
    <2>4. answers' \in [1..MaxCalls -> {F!OK, F!ERROR}]
      BY <1>a, <2>1, <2>3
    <2>5. Counts'
      BY <1>a, <2>1, <2>2 DEF Counts, dialogVars, Busy
    <2> QED
      BY <1>a, <1>b, <2>1, <2>2, <2>4, <2>5 DEF TypeInv, TypeOK, SEND, dialogVars
  <1>9. CASE Lose
    <2>1. CommanderStep /\ lost < MaxLost /\ lost' = lost + 1 /\ UNCHANGED <<fileVars, dialogVars, firmwareVars>>
      BY <1>9 DEF Lose, CommanderStep
    <2>2. UNCHANGED <<caller, sent>>
      BY <1>9 DEF Lose, C!LoseRequest, C!LoseResponse, C!callVars
    <2>3. lost' \in 0..MaxLost
      BY <1>a, <2>1, TransferAssumption
    <2>4. Counts'
      BY <1>a, <2>1, <2>2 DEF Counts, dialogVars, Busy
    <2> QED
      BY <1>a, <1>b, <2>1, <2>2, <2>3, <2>4 DEF TypeInv, TypeOK, SEND, dialogVars, firmwareVars
  <1>10. CASE UNCHANGED vars
    <2>1. UNCHANGED <<fileVars, cmdVars, dialogVars, firmwareVars, lost>>
      BY <1>10 DEF vars
    <2>2. UNCHANGED <<caller, sent>>
      BY <2>1 DEF cmdVars
    <2>3. Counts'
      BY <1>a, <2>1, <2>2 DEF Counts, dialogVars, Busy
    <2> QED
      BY <1>a, <1>b, <2>1, <2>2, <2>3 DEF TypeInv, TypeOK, SEND, dialogVars, firmwareVars
  <1> QED
    BY <1>1, <1>2, <1>3, <1>4, <1>5, <1>6, <1>7, <1>8, <1>9, <1>10 DEF Next

\* The thread's and the firmware's variables keep their types whatever is lost,
\* late or refused: an answer's number is one of a call that was made, and the
\* index runs past the image by a message at most.
THEOREM TransferTypes == Spec => []TypeOK
  <1>1. TypeInv => TypeOK
    BY DEF TypeInv
  <1> QED
    BY <1>1, TypeInit, TransferTypeNext, PTL DEF Spec

-----------------------------------------------------------------------------
(* The messages of a transfer, in their order *)

Reset == [index |-> SEND_FILE_RESET_INDEX, data |-> <<>>]
Close == [index |-> SEND_FILE_CLOSE_INDEX, data |-> <<>>]
Finalize == [index |-> SEND_FILE_FINALIZE_INDEX, data |-> <<>>]

SizeAt(i) == IF CHUNK > Len(Image) - i THEN Len(Image) - i ELSE CHUNK
ChunkAt(i) == [index |-> i, data |-> SubSeq(Image, i + 1, i + SizeAt(i))]

Addresses == 0..(Len(Image) - 1)
Script == {Reset, Close, Finalize} \cup {ChunkAt(i) : i \in Addresses}

\* The message that comes after m is answered.
After(m) ==
    IF m.data # <<>>
    THEN IF m.index + CHUNK < Len(Image) THEN ChunkAt(m.index + CHUNK) ELSE Close
    ELSE IF m = Reset THEN ChunkAt(0) ELSE Finalize

\* How much of the image has to be there when m comes.
Start(m) ==
    IF m.data # <<>> THEN m.index ELSE IF m = Reset THEN 0 ELSE Len(Image)

LEMMA ChunkAtFacts ==
    ASSUME NEW i \in Addresses
    PROVE  /\ i \in Nat /\ i < Len(Image) /\ SizeAt(i) \in 1..CHUNK /\ i + SizeAt(i) <= Len(Image)
           /\ ChunkAt(i).index = i /\ ChunkAt(i).data \in Seq(Nat) /\ ChunkAt(i).data # <<>>
           /\ Len(ChunkAt(i).data) = SizeAt(i)
           /\ \A k \in 1..SizeAt(i) : ChunkAt(i).data[k] = Image[i + k]
           /\ ChunkAt(i) \in Script
  <1>1. i \in Nat /\ i < Len(Image)
    BY ChunkSize DEF Addresses
  <1>2. ChunkAt(i).index = i /\ ChunkAt(i).data = SubSeq(Image, i + 1, i + SizeAt(i))
    BY DEF ChunkAt
  <1> QED
    BY <1>1, <1>2, ChunkFacts DEF SizeAt, Script

LEMMA ScriptFacts ==
    /\ \A m \in Script : m \in MessageTypes /\ (m.data # <<>> => \E i \in Addresses : m = ChunkAt(i))
    /\ \A m \in Script : m.data = <<>> => m \in {Reset, Close, Finalize}
    /\ Reset # Close /\ Reset # Finalize /\ Close # Finalize
    /\ Reset.data = <<>> /\ Close.data = <<>> /\ Finalize.data = <<>>
    /\ Reset.index = SEND_FILE_RESET_INDEX /\ Finalize.index = SEND_FILE_FINALIZE_INDEX
    /\ Close.index \notin {SEND_FILE_RESET_INDEX, SEND_FILE_FINALIZE_INDEX}
    /\ SEND_FILE_RESET_INDEX # SEND_FILE_FINALIZE_INDEX
    /\ Reset \in Script /\ Close \in Script /\ Finalize \in Script
    /\ 0 \in Addresses
  <1> USE DEF SEND_FILE_RESET_INDEX, SEND_FILE_CLOSE_INDEX, SEND_FILE_FINALIZE_INDEX
  <1>1. \A i \in Addresses : ChunkAt(i) \in MessageTypes /\ ChunkAt(i).data # <<>>
    BY ChunkAtFacts DEF ChunkAt, MessageTypes
  <1>2. Reset \in MessageTypes /\ Close \in MessageTypes /\ Finalize \in MessageTypes
    BY DEF Reset, Close, Finalize, MessageTypes
  <1>3. /\ Reset.data = <<>> /\ Close.data = <<>> /\ Finalize.data = <<>>
        /\ Reset.index = 16 /\ Finalize.index = 32 /\ Close.index = 0
    BY DEF Reset, Close, Finalize
  <1>4. \A m \in Script : m \in {Reset, Close, Finalize} \/ \E i \in Addresses : m = ChunkAt(i)
    BY DEF Script
  <1>5. 0 \in Addresses
    BY ChunkSize DEF Addresses
  <1>6. Reset \in Script /\ Close \in Script /\ Finalize \in Script
    BY DEF Script
  <1> QED
    BY <1>1, <1>2, <1>3, <1>4, <1>5, <1>6

LEMMA AfterFacts ==
    /\ After(Reset) = ChunkAt(0) /\ After(Close) = Finalize /\ After(Finalize) = Finalize
    /\ Start(Reset) = 0 /\ Start(Close) = Len(Image) /\ Start(Finalize) = Len(Image)
    /\ \A i \in Addresses :
          /\ After(ChunkAt(i)) = IF i + CHUNK < Len(Image) THEN ChunkAt(i + CHUNK) ELSE Close
          /\ After(ChunkAt(i)) # Finalize /\ ChunkAt(i) # Finalize
          /\ Start(ChunkAt(i)) = i
          /\ Start(After(ChunkAt(i))) = i + SizeAt(i)
  <1>1. /\ After(Reset) = ChunkAt(0) /\ After(Close) = Finalize /\ After(Finalize) = Finalize
        /\ Start(Reset) = 0 /\ Start(Close) = Len(Image) /\ Start(Finalize) = Len(Image)
    BY ScriptFacts DEF After, Start
  <1>2. ASSUME NEW i \in Addresses
        PROVE  /\ After(ChunkAt(i)) = IF i + CHUNK < Len(Image) THEN ChunkAt(i + CHUNK) ELSE Close
               /\ After(ChunkAt(i)) # Finalize /\ ChunkAt(i) # Finalize
               /\ Start(ChunkAt(i)) = i
               /\ Start(After(ChunkAt(i))) = i + SizeAt(i)
    <2>1. ChunkAt(i).index = i /\ ChunkAt(i).data # <<>> /\ i \in Nat /\ i < Len(Image)
      BY ChunkAtFacts
    <2>2. After(ChunkAt(i)) = IF i + CHUNK < Len(Image) THEN ChunkAt(i + CHUNK) ELSE Close
      BY <2>1 DEF After
    <2>3. ChunkAt(i) # Finalize /\ Start(ChunkAt(i)) = i
      BY <2>1, ScriptFacts DEF Start
    <2>4. CASE i + CHUNK < Len(Image)
      <3>1. i + CHUNK \in Addresses /\ SizeAt(i) = CHUNK
        BY <2>1, <2>4, ChunkSize DEF Addresses, SizeAt
      <3>2. ChunkAt(i + CHUNK).index = i + CHUNK /\ ChunkAt(i + CHUNK).data # <<>>
        BY <3>1, ChunkAtFacts
      <3> QED
        BY <2>2, <2>3, <2>4, <3>1, <3>2, ScriptFacts DEF Start
    <2>5. CASE ~(i + CHUNK < Len(Image))
      <3>1. i + SizeAt(i) = Len(Image)
        BY <2>1, <2>5, ChunkSize DEF SizeAt
      <3> QED
        BY <1>1, <2>2, <2>3, <2>5, <3>1, ScriptFacts
    <2> QED
      BY <2>2, <2>3, <2>4, <2>5
  <1> QED
    BY <1>1, <1>2

-----------------------------------------------------------------------------
(* The inductive invariant *)

GaveUp == failedmessagecount >= FAIL_LIMIT
Accounted == ~(late /\ lost > 0)
Finalized == call.op = "File_finalize"

\* The message the thread is at: the one of the call in progress, or the one it
\* sends next.
Upcoming ==
    IF phase = "reset" THEN IF ack = ACK_OK THEN ChunkAt(0) ELSE Reset
    ELSE IF phase = "data" THEN IF index < Len(Image) THEN ChunkAt(index) ELSE Close
    ELSE IF phase = "close" THEN IF ack = ACK_OK THEN Finalize ELSE Close
    ELSE Finalize

\* The messages on their way to the firmware.
N == Len(requests)
M(i) == messages[requests[i].seq]

ThreadOK ==
    /\ messages \in Seq(Script)
    /\ phase = "reset" => index = 0
    /\ Busy => LoopGoesOn /\ phase # "done" /\ sent[SEND] >= 1 /\ messages[sent[SEND]] = Upcoming

\* Without a fault of the device every call of the store works.
FirmwareOK ==
    /\ serving => requests # <<>>
    /\ ~F!Idle => /\ serving /\ call.op = "File_write"
                  /\ M(1).data # <<>> /\ call.index = M(1).index /\ call.buf = M(1).data
    /\ F!Idle => call.status = ACK_OK
    /\ \A n \in 1..MaxCalls : answers[n] = ACK_OK

\* The messages in the queue are in the order of the transfer, repeated perhaps,
\* and end where the thread is.  Without a late answer they are all the same.
Follows(m, n) == n = m \/ n = After(m)

QueueOK ==
    /\ \A i \in 1..(N - 1) : Follows(M(i), M(i + 1))
    /\ ~GaveUp /\ N > 0 => Follows(M(N), Upcoming)
    /\ ~late => \A i \in 1..N : M(i) = M(1)
    /\ ~late /\ ~GaveUp => \A i \in 1..N : M(i) = Upcoming
    /\ lost = 0 /\ N > 0 => requests[N].seq = sent[SEND]
    /\ \A i, j \in 1..N : i <= j /\ M(i) = Finalize => M(j) = Finalize

\* What the device and its buffer hold has to do with the messages: the firmware
\* is never asked for a chunk before it has the ones in front of it.
Saved(n) == \A a \in 0..(n - 1) : FP!Byte(F!View, a) = Image[a + 1]
Ready(m) == Saved(Start(m)) /\ (m = Finalize => ~FileBufferDirty)
Done(m) == Ready(m) /\ Ready(After(m))

AnsweredLast ==
    \/ m_CommandWaiting[SEND].lo = sent[SEND]
    \/ \E i \in 1..Len(responses) : responses[i].seq = sent[SEND]

DataOK ==
    /\ FP!Clean
    /\ N > 0 /\ ~serving => Ready(M(1))
    /\ serving /\ F!Idle => Done(M(1))
    /\ ~F!Idle => Saved(call.index + call.i)
    /\ N = 0 /\ ~GaveUp => Ready(Upcoming)
    /\ N = 0 /\ Busy /\ (lost = 0 \/ AnsweredLast) => Done(Upcoming)

\* Once a FINALIZE was handled there is nothing else to come.
OverOK ==
    /\ \A i \in 1..N : M(i) = Finalize
    /\ ~GaveUp => Upcoming = Finalize

TransferInv ==
    /\ ThreadOK
    /\ FirmwareOK
    /\ Accounted => QueueOK
    /\ Accounted /\ ~Finalized => DataOK
    /\ Accounted /\ Finalized => OverOK

-----------------------------------------------------------------------------
(* What the thread's steps do to the message it is at *)

LEMMA Numbers ==
    ASSUME TypeInv
    PROVE  /\ N \in Nat /\ (requests = <<>> <=> N = 0)
           /\ sent[SEND] \in Nat /\ Len(messages) = sent[SEND]
           /\ failedmessagecount \in Nat /\ FAIL_LIMIT \in Nat \ {0}
           /\ index \in Nat /\ lost \in Nat /\ late \in BOOLEAN /\ serving \in BOOLEAN
           /\ phase \in {"reset", "data", "close", "finalize", "done"} /\ ack \in {0, 1}
           /\ F!TypeOK /\ FP!TypeOK /\ CommanderInv /\ Counts
  <1>1. CommanderInv /\ Counts /\ F!TypeOK /\ FP!TypeOK
    BY SameStoreTypes DEF TypeInv, TypeOK
  <1>2. N \in Nat /\ sent[SEND] \in Nat
    BY <1>1, Requests DEF N
  <1>3. requests = <<>> <=> N = 0
    BY <1>1, <1>2, TailPackets DEF N
  <1> QED
    BY <1>1, <1>2, <1>3, ChunkSize, TransferAssumption DEF TypeInv, TypeOK, SEND

LEMMA UpcomingInScript ==
    ASSUME TypeInv
    PROVE  Upcoming \in Script
  BY Numbers, ScriptFacts, ChunkAtFacts DEF Upcoming, Addresses

LEMMA QueueFacts ==
    ASSUME TypeInv, ThreadOK, NEW i \in 1..N
    PROVE  requests[i].seq \in 1..sent[SEND] /\ requests[i].seq \in 1..Len(messages) /\ M(i) \in Script
  <1>1. requests[i].seq \in 1..sent[SEND]
    BY Numbers, Requests DEF N
  <1>2. requests[i].seq \in 1..Len(messages)
    BY <1>1, Numbers
  <1> QED
    BY <1>1, <1>2 DEF ThreadOK, M

\* The next call sends the message the thread is at.
LEMMA SendFacts ==
    ASSUME TypeInv, ThreadOK, SendMessage
    PROVE  /\ messages' = Append(messages, Upcoming) /\ Upcoming' = Upcoming
           /\ ~GaveUp /\ ~GaveUp' /\ LoopGoesOn' /\ phase' # "done"
  <1>1. /\ LoopGoesOn /\ phase # "done" /\ messages' = Append(messages, Message)
        /\ UNCHANGED <<phase, index, ack, failedmessagecount>>
    BY DEF SendMessage
  <1>2. ~GaveUp /\ ~GaveUp' /\ LoopGoesOn'
    BY <1>1, Numbers DEF GaveUp, LoopGoesOn
  <1>3. Upcoming' = Upcoming
    BY <1>1 DEF Upcoming
  <1>4. Message = Upcoming
    <2>1. CASE phase = "data"
      BY <1>1, <2>1 DEF Message, Upcoming, LoopGoesOn, Chunk, ChunkAt, SizeAt
    <2>2. CASE phase = "reset"
      BY <1>1, <2>2 DEF Message, Upcoming, LoopGoesOn, Reset
    <2>3. CASE phase = "close"
      BY <1>1, <2>3 DEF Message, Upcoming, LoopGoesOn, Close
    <2>4. CASE phase = "finalize"
      BY <1>1, <2>4 DEF Message, Upcoming, LoopGoesOn, Finalize
    <2> QED
      BY <1>1, <2>1, <2>2, <2>3, <2>4, Numbers
  <1> QED
    BY <1>1, <1>2, <1>3, <1>4

\* Leaving a loop with every message answered changes the loop, not the message.
LEMMA LeaveFacts ==
    ASSUME TypeInv, ThreadOK, LeaveLoop
    PROVE  /\ ~Busy /\ ~Busy' /\ (~GaveUp' => ~GaveUp /\ Upcoming' = Upcoming)
           /\ (phase' = "reset" => index' = 0)
  <1>1. /\ ~LoopGoesOn /\ phase # "done" /\ phase' = NextPhase[phase] /\ ack' = 1
        /\ UNCHANGED <<index, failedmessagecount, caller>> /\ ~Busy
    BY DEF LeaveLoop, cmdVars, Busy, CallerIdle, C!At, SEND
  <1>2. ~Busy' /\ (GaveUp' <=> GaveUp)
    BY <1>1 DEF Busy, GaveUp
  <1>3. phase' # "reset"
    BY <1>1, Numbers DEF NextPhase
  <1>4. ASSUME ~GaveUp PROVE Upcoming' = Upcoming
    <2>1. CASE phase = "reset"
      <3>1. phase' = "data" /\ ack = ACK_OK /\ index = 0 /\ index' = 0
        BY <1>1, <1>4, <2>1, Numbers DEF NextPhase, LoopGoesOn, GaveUp, ThreadOK
      <3> QED
        BY <2>1, <3>1, ChunkSize DEF Upcoming
    <2>2. CASE phase = "data"
      <3>1. phase' = "close" /\ ~(index < Len(Image)) /\ ack' # ACK_OK
        BY <1>1, <1>4, <2>2, Numbers DEF NextPhase, LoopGoesOn, GaveUp, ACK_OK
      <3> QED
        BY <2>2, <3>1 DEF Upcoming
    <2>3. CASE phase = "close"
      <3>1. phase' = "finalize" /\ ack = ACK_OK
        BY <1>1, <1>4, <2>3, Numbers DEF NextPhase, LoopGoesOn, GaveUp
      <3> QED
        BY <2>3, <3>1 DEF Upcoming
    <2>4. CASE phase = "finalize"
      <3>1. phase' = "done"
        BY <1>1, <2>4 DEF NextPhase
      <3> QED
        BY <2>4, <3>1 DEF Upcoming
    <2> QED
      BY <1>1, <2>1, <2>2, <2>3, <2>4, Numbers
  <1> QED
    BY <1>1, <1>2, <1>3, <1>4

LEMMA FailFacts ==
    ASSUME TypeInv, ThreadOK, CallFails
    PROVE  ~Busy' /\ (~GaveUp' => ~GaveUp) /\ Upcoming' = Upcoming
  <1>1. ~Busy'
    BY Numbers, CallFacts DEF CallFails, SEND
  <1>2. failedmessagecount' = failedmessagecount + 1 /\ UNCHANGED <<phase, index, ack>>
    BY DEF CallFails
  <1> QED
    BY <1>1, <1>2, Numbers DEF GaveUp, Upcoming

\* An answer takes the thread to the next message.
LEMMA ReturnFacts ==
    ASSUME TypeInv, ThreadOK, FirmwareOK, CallReturns
    PROVE  /\ Busy /\ ~Busy' /\ ~GaveUp /\ ~GaveUp' /\ Upcoming' = After(Upcoming)
           /\ messages[sent[SEND]] = Upcoming
           /\ (phase' = "reset" => index' = 0)
           /\ (late' \/ m_CommandWaiting[SEND].hi = sent[SEND])
  <1> DEFINE answer == got'["SEND_FILE"].hi
  <1>1. /\ C!CopyHigh(SEND) /\ ack' = answers[answer] /\ failedmessagecount' = 0
        /\ index' = (IF phase = "data" /\ ack' = ACK_OK THEN index + CHUNK ELSE index)
        /\ UNCHANGED phase /\ late' = (late \/ answer # sent["SEND_FILE"])
    BY DEF CallReturns, SEND
  <1>2. Busy /\ ~Busy' /\ answer = m_CommandWaiting[SEND].hi
    BY <1>1, Numbers, CallFacts DEF SEND
  <1>3. answer \in 1..MaxCalls
    BY <1>1, Numbers, ReturnedAnswer DEF Counts, SEND
  <1> HIDE DEF answer
  <1>4. ack' = ACK_OK
    BY <1>1, <1>3 DEF FirmwareOK
  <1>5. LoopGoesOn /\ phase # "done" /\ messages[sent[SEND]] = Upcoming
    BY <1>2 DEF ThreadOK
  <1>6. ~GaveUp /\ ~GaveUp'
    BY <1>1, <1>5, Numbers DEF LoopGoesOn, GaveUp
  <1>7. Upcoming' = After(Upcoming)
    <2>1. CASE phase = "reset"
      BY <1>1, <1>4, <1>5, <2>1, AfterFacts DEF LoopGoesOn, Upcoming
    <2>2. CASE phase = "data"
      <3>1. index \in Addresses
        BY <1>5, <2>2, Numbers, ChunkSize DEF LoopGoesOn, Addresses
      <3>2. index' = index + CHUNK /\ phase' = "data" /\ Upcoming = ChunkAt(index)
        BY <1>1, <1>4, <1>5, <2>2 DEF LoopGoesOn, Upcoming
      <3>3. Upcoming' = IF index + CHUNK < Len(Image) THEN ChunkAt(index + CHUNK) ELSE Close
        BY <3>2 DEF Upcoming
      <3> QED
        BY <3>1, <3>2, <3>3, AfterFacts
    <2>3. CASE phase = "close"
      BY <1>1, <1>4, <1>5, <2>3, AfterFacts DEF LoopGoesOn, Upcoming
    <2>4. CASE phase = "finalize"
      BY <1>1, <2>4, AfterFacts DEF Upcoming
    <2> QED
      BY <1>5, <2>1, <2>2, <2>3, <2>4, Numbers
  <1>8. phase' = "reset" => index' = 0
    BY <1>1 DEF ThreadOK
  <1>9. late' \/ answer = sent[SEND]
    BY <1>1 DEF SEND
  <1> QED
    BY <1>2, <1>5, <1>6, <1>7, <1>8, <1>9

LEMMA ThreadNext == TypeInv /\ ThreadOK /\ FirmwareOK /\ [Next]_vars => ThreadOK'
  <1> SUFFICES ASSUME TypeInv, ThreadOK, FirmwareOK, [Next]_vars PROVE ThreadOK'
    OBVIOUS
  <1>1. CASE SendMessage
    <2>1. messages' = Append(messages, Upcoming) /\ Upcoming' = Upcoming /\ LoopGoesOn' /\ phase' # "done"
      BY <1>1, SendFacts
    <2>2. sent'[SEND] = sent[SEND] + 1
      BY <1>1, Numbers, CallFacts DEF SendMessage, SEND
    <2>3. /\ messages' \in Seq(Script) /\ messages'[Len(messages) + 1] = Upcoming
      BY <2>1, UpcomingInScript, AppendProperties DEF ThreadOK
    <2>4. sent'[SEND] >= 1 /\ messages'[sent'[SEND]] = Upcoming'
      BY <2>1, <2>2, <2>3, Numbers
    <2>5. phase' = "reset" => index' = 0
      BY <1>1 DEF SendMessage, ThreadOK
    <2> QED
      BY <2>1, <2>3, <2>4, <2>5 DEF ThreadOK
  <1>2. CASE LeaveLoop
    <2>1. UNCHANGED messages
      BY <1>2 DEF LeaveLoop
    <2> QED
      BY <1>2, <2>1, LeaveFacts DEF ThreadOK
  <1>3. CASE CallFails
    <2>1. UNCHANGED <<messages, phase, index>>
      BY <1>3 DEF CallFails
    <2> QED
      BY <1>3, <2>1, FailFacts DEF ThreadOK
  <1>4. CASE CallReturns
    <2>1. UNCHANGED messages
      BY <1>4 DEF CallReturns
    <2> QED
      BY <1>4, <2>1, ReturnFacts DEF ThreadOK
  <1>5. CASE UNCHANGED <<dialogVars, sent>> /\ (Busy' => Busy)
    <2>1. UNCHANGED <<messages, phase, index, ack, failedmessagecount, sent>>
      BY <1>5 DEF dialogVars
    <2>2. Upcoming' = Upcoming /\ (LoopGoesOn => LoopGoesOn')
      BY <2>1 DEF Upcoming, LoopGoesOn
    <2> QED
      BY <1>5, <2>1, <2>2 DEF ThreadOK
  <1>6. CallStep => UNCHANGED <<dialogVars, sent>> /\ (Busy' => Busy)
    BY Numbers, CallFacts DEF CallStep, C!Listen, SEND, Busy
  <1>7. l_ProcessSendFile \/ StoreStep \/ UNCHANGED vars => UNCHANGED <<dialogVars, sent>> /\ (Busy' => Busy)
    BY DEF l_ProcessSendFile, StoreStep, vars, cmdVars, Busy
  <1>8. SendAnswer \/ Lose => UNCHANGED <<dialogVars, sent>> /\ (Busy' => Busy)
    BY DEF SendAnswer, Lose, C!l_HandleCommand, C!LoseRequest, C!LoseResponse, C!callVars, Busy
  <1> QED
    BY <1>1, <1>2, <1>3, <1>4, <1>5, <1>6, <1>7, <1>8 DEF Next

-----------------------------------------------------------------------------
(* The queue *)

\* The queue is left alone and the thread stays where it is, or gives up.
LEMMA QueueKept ==
    ASSUME TypeInv, ThreadOK, QueueOK, UNCHANGED <<requests, messages, sent, late>>,
           lost' \in Nat, lost' >= lost, ~GaveUp' => ~GaveUp /\ Upcoming' = Upcoming
    PROVE  QueueOK'
  <1>1. N' = N /\ \A i : M(i)' = M(i)
    BY DEF N, M
  <1>2. lost' = 0 => lost = 0
    BY Numbers
  <1> QED
    BY <1>1, <1>2 DEF QueueOK, Follows

\* The first message is taken out.
LEMMA QueueTail ==
    ASSUME TypeInv, ThreadOK, QueueOK, requests # <<>>, requests' = Tail(requests),
           UNCHANGED <<messages, sent, late, phase, index, ack, failedmessagecount>>, lost' >= lost, lost' \in Nat
    PROVE  QueueOK'
  <1>1. N \in Nat /\ N >= 1 /\ N' = N - 1 /\ \A i \in 1..(N - 1) : requests'[i] = requests[i + 1]
    BY Numbers, TailPackets DEF N
  <1>2. ASSUME NEW i \in 1..(N - 1) PROVE M(i)' = M(i + 1) /\ i + 1 \in 1..N
    <2>1. requests'[i] = requests[i + 1] /\ UNCHANGED messages
      BY <1>1
    <2>2. i + 1 \in 1..N
      BY <1>1
    <2> QED
      BY <2>1, <2>2 DEF M
  <1>3. (GaveUp' <=> GaveUp) /\ Upcoming' = Upcoming
    BY DEF GaveUp, Upcoming
  <1>4. \A i \in 1..(N' - 1) : Follows(M(i), M(i + 1))'
    <2> SUFFICES ASSUME NEW i \in 1..(N - 1 - 1) PROVE M(i + 1)' = M(i)' \/ M(i + 1)' = After(M(i)')
      BY <1>1 DEF Follows, After
    <2>1. i \in 1..(N - 1) /\ i + 1 \in 1..(N - 1)
      BY <1>1
    <2>2. Follows(M(i + 1), M(i + 1 + 1))
      BY <2>1 DEF QueueOK
    <2> QED
      BY <1>2, <2>1, <2>2 DEF Follows
  <1>5. N' > 0 => M(N)' = M(N) /\ requests'[N'] = requests[N]
    <2> SUFFICES ASSUME N' > 0 PROVE M(N)' = M(N) /\ requests'[N'] = requests[N]
      OBVIOUS
    <2>1. PICK n \in Nat : n = N - 1
      BY <1>1
    <2>2. n \in 1..(N - 1) /\ n + 1 = N /\ n = N'
      BY <1>1, <2>1
    <2>3. requests'[n] = requests[n + 1] /\ UNCHANGED messages
      BY <1>1, <2>2
    <2> QED
      BY <2>2, <2>3 DEF M
  <1>6. \A i \in 1..N' : M(i)' = M(i + 1) /\ i + 1 \in 1..N
    BY <1>1, <1>2
  <1>7. ~GaveUp' /\ N' > 0 => Follows(M(N), Upcoming)'
    <2> SUFFICES ASSUME ~GaveUp', N' > 0 PROVE Upcoming' = M(N)' \/ Upcoming' = After(M(N)')
      BY DEF Follows, After
    <2>1. ~GaveUp /\ N > 0
      BY <1>1, <1>3
    <2>2. Follows(M(N), Upcoming)
      BY <2>1 DEF QueueOK
    <2> QED
      BY <1>3, <1>5, <2>2 DEF Follows
  <1>8. /\ ~late' => \A i \in 1..N' : M(i)' = M(1)'
        /\ ~late' /\ ~GaveUp' => \A i \in 1..N' : M(i)' = Upcoming'
    BY <1>1, <1>3, <1>6 DEF QueueOK
  <1>9. lost' = 0 /\ N' > 0 => requests'[N'].seq = sent'[SEND]
    <2> SUFFICES ASSUME lost' = 0, N' > 0 PROVE requests'[N'].seq = sent'[SEND]
      OBVIOUS
    <2>1. lost = 0 /\ N > 0
      BY <1>1, Numbers
    <2>2. requests[N].seq = sent[SEND]
      BY <2>1 DEF QueueOK
    <2> QED
      BY <1>5, <2>2
  <1>10. \A i, j \in 1..N' : i <= j /\ M(i)' = Finalize => M(j)' = Finalize
    BY <1>1, <1>6 DEF QueueOK
  <1> QED
    BY <1>4, <1>7, <1>8, <1>9, <1>10 DEF QueueOK

\* A message is put behind the others.
LEMMA AppendKept ==
    ASSUME TypeInv, ThreadOK, SendMessage
    PROVE  /\ N' = N + 1 /\ requests'[N + 1].seq = sent[SEND] + 1 /\ sent'[SEND] = sent[SEND] + 1
           /\ \A i \in 1..N : M(i)' = M(i)
           /\ \A i \in 1..N' : i = N + 1 => M(i)' = Upcoming
  <1>1. /\ messages' = Append(messages, Upcoming) /\ Upcoming' = Upcoming /\ ~GaveUp /\ ~GaveUp'
        /\ UNCHANGED <<late, lost>>
    BY SendFacts DEF SendMessage
  <1>2. /\ requests' = Append(requests, [cmd |-> SEND, seq |-> sent[SEND] + 1])
        /\ sent'[SEND] = sent[SEND] + 1
    BY Numbers, CallFacts DEF SendMessage, SEND
  <1>3. /\ messages \in Seq(Script) /\ requests \in Seq(CP!Packets)
        /\ [cmd |-> SEND, seq |-> sent[SEND] + 1] \in CP!Packets
    BY Numbers DEF ThreadOK, CommanderInv, CP!TypeOK, CP!Packets, SEND
  <1>4. /\ N' = N + 1 /\ N \in Nat
        /\ \A i \in 1..N : requests'[i] = requests[i]
        /\ requests'[N + 1].seq = sent[SEND] + 1
    BY <1>2, <1>3, Numbers, CP!AppendFacts DEF N
  <1>5. /\ \A n \in 1..Len(messages) : messages'[n] = messages[n]
        /\ messages'[sent[SEND] + 1] = Upcoming
    BY <1>1, <1>3, UpcomingInScript, AppendProperties, Numbers
  <1>6. \A i \in 1..N : M(i)' = M(i)
    <2> SUFFICES ASSUME NEW i \in 1..N PROVE M(i)' = M(i)
      OBVIOUS
    <2>1. requests[i].seq \in 1..Len(messages)
      BY QueueFacts
    <2> QED
      BY <1>4, <1>5, <2>1 DEF M
  <1>7. \A i \in 1..N' : i = N + 1 => M(i)' = Upcoming
    <2> SUFFICES ASSUME NEW i \in 1..N', i = N + 1 PROVE M(i)' = Upcoming
      OBVIOUS
    <2>1. requests'[i].seq = sent[SEND] + 1
      BY <1>4
    <2> QED
      BY <1>5, <2>1 DEF M
  <1> QED
    BY <1>2, <1>4, <1>6, <1>7

LEMMA QueueAppend ==
    ASSUME TypeInv, ThreadOK, QueueOK, SendMessage
    PROVE  QueueOK'
  <1>1. /\ Upcoming' = Upcoming /\ ~GaveUp /\ ~GaveUp' /\ UNCHANGED <<late, lost>>
    BY SendFacts DEF SendMessage
  <1>2. requests'[N + 1].seq = sent[SEND] + 1 /\ sent'[SEND] = sent[SEND] + 1
    BY AppendKept
  <1>3. N' = N + 1 /\ N \in Nat
    BY AppendKept, Numbers
  <1>4. \A i \in 1..N : M(i)' = M(i)
    BY AppendKept
  <1>5. \A i \in 1..N' : i = N + 1 => M(i)' = Upcoming
    BY AppendKept
  <1>6. \A i \in 1..N' : i \in 1..N \/ i = N + 1
    BY <1>3
  <1>7. \A i \in 1..(N' - 1) : Follows(M(i), M(i + 1))'
    <2> SUFFICES ASSUME NEW i \in 1..N PROVE M(i + 1)' = M(i)' \/ M(i + 1)' = After(M(i)')
      BY <1>3 DEF Follows, After
    <2>1. CASE i = N
      <3>1. M(i + 1)' = Upcoming /\ M(i)' = M(N)
        BY <1>3, <1>4, <1>5, <2>1
      <3>2. Follows(M(N), Upcoming)
        BY <1>1, <1>3, <2>1 DEF QueueOK
      <3> QED
        BY <3>1, <3>2 DEF Follows
    <2>2. CASE i \in 1..(N - 1)
      <3>1. M(i + 1)' = M(i + 1) /\ M(i)' = M(i)
        BY <1>3, <1>4, <2>2
      <3>2. Follows(M(i), M(i + 1))
        BY <2>2 DEF QueueOK
      <3> QED
        BY <3>1, <3>2 DEF Follows
    <2> QED
      BY <1>3, <2>1, <2>2
  <1>8. Follows(M(N), Upcoming)'
    <2>1. PICK n \in Nat : n = N + 1
      BY <1>3
    <2>2. M(n)' = Upcoming /\ n = N'
      BY <1>3, <1>5, <2>1
    <2>3. M(N)' = Upcoming'
      BY <1>1, <2>2 DEF M
    <2> QED
      BY <2>3 DEF Follows
  <1>9. ASSUME ~late PROVE \A i \in 1..N' : M(i)' = Upcoming
    <2>1. \A i \in 1..N : M(i) = Upcoming
      BY <1>1, <1>9 DEF QueueOK
    <2> QED
      BY <1>4, <1>5, <1>6, <2>1
  <1>10. requests'[N'].seq = sent'[SEND]
    BY <1>2, <1>3
  <1>11. \A i, j \in 1..N' : i <= j /\ M(i)' = Finalize => M(j)' = Finalize
    <2> SUFFICES ASSUME NEW i \in 1..N', NEW j \in 1..N', i <= j, M(i)' = Finalize PROVE M(j)' = Finalize
      OBVIOUS
    <2>1. CASE j \in 1..N
      <3>1. i \in 1..N
        BY <1>3, <2>1
      <3> QED
        BY <1>4, <2>1, <3>1 DEF QueueOK
    <2>2. CASE j = N + 1 /\ i \in 1..N
      <3>1. N \in 1..N /\ i <= N
        BY <1>3, <2>2
      <3>2. M(i) = Finalize
        BY <1>4, <2>2
      <3>3. M(N) = Finalize
        BY <2>2, <3>1, <3>2 DEF QueueOK
      <3>4. Follows(M(N), Upcoming)
        BY <1>1, <3>1 DEF QueueOK
      <3>5. Upcoming = Finalize
        BY <3>3, <3>4, AfterFacts DEF Follows
      <3> QED
        BY <1>5, <2>2, <3>5
    <2>3. CASE j = N + 1 /\ i = N + 1
      BY <2>3
    <2> QED
      BY <1>6, <2>1, <2>2, <2>3
  <1>12. N' > 0 /\ 1 \in 1..N'
    BY <1>3
  <1>13. (~late' => \A i \in 1..N' : M(i)' = M(1)') /\ (~late' /\ ~GaveUp' => \A i \in 1..N' : M(i)' = Upcoming')
    BY <1>1, <1>9, <1>12
  <1> QED
    BY <1>3, <1>4, <1>5, <1>7, <1>8, <1>10, <1>11, <1>13 DEF QueueOK

\* Until an answer is late, the thread goes on only when the queue is empty; with
\* late answers it goes on from the message it sent last, which is in the queue
\* or was handled, since no packet is lost.
LEMMA QueueReturn ==
    ASSUME TypeInv, ThreadOK, FirmwareOK, QueueOK, CallReturns, Accounted'
    PROVE  /\ QueueOK' /\ N' = N /\ (\A i : M(i)' = M(i))
           /\ (late' => lost = 0)
           /\ (~late' => N = 0 /\ m_CommandWaiting[SEND].lo = sent[SEND])
  <1>1. /\ ~GaveUp /\ ~GaveUp' /\ Upcoming' = After(Upcoming) /\ messages[sent[SEND]] = Upcoming
        /\ (late' \/ m_CommandWaiting[SEND].hi = sent[SEND])
    BY ReturnFacts
  <1>2. UNCHANGED <<requests, messages, sent, lost>>
    BY Numbers, CallFacts DEF CallReturns, SEND
  <1>3. N' = N /\ \A i : M(i)' = M(i)
    BY <1>2 DEF N, M
  <1>4. ASSUME ~late' PROVE N = 0 /\ m_CommandWaiting[SEND].lo = sent[SEND]
    <2>1. m_CommandWaiting[SEND].lo = sent[SEND]
      BY <1>1, <1>4, Numbers, Requests
    <2>2. ~(N >= 1)
      <3> SUFFICES ASSUME N >= 1 PROVE FALSE
        OBVIOUS
      <3>1. 1 \in 1..Len(requests)
        BY Numbers DEF N
      <3>2. m_CommandWaiting[SEND].lo < requests[1].seq /\ requests[1].seq \in 1..sent[SEND]
        BY <3>1, Numbers, Requests
      <3> QED
        BY <2>1, <3>2, Numbers
    <2> QED
      BY <2>1, <2>2, Numbers
  <1>5. late' => lost = 0
    BY <1>2, Numbers DEF Accounted
  <1>6. CASE ~late'
    <2>1. N' = 0
      BY <1>3, <1>4, <1>6
    <2> QED
      BY <1>3, <1>4, <1>5, <1>6, <2>1 DEF QueueOK
  <1>7. CASE late'
    <2>1. \A i \in 1..(N' - 1) : Follows(M(i), M(i + 1))'
      BY <1>3 DEF QueueOK, Follows
    <2>2. N' > 0 => Follows(M(N), Upcoming)'
      <3> SUFFICES ASSUME N > 0 PROVE Upcoming' = After(M(N)')
        BY <1>3 DEF Follows, After
      <3>1. requests[N].seq = sent[SEND]
        BY <1>5, <1>7 DEF QueueOK
      <3>2. M(N)' = Upcoming
        BY <1>1, <1>2, <3>1 DEF M, N
      <3> QED
        BY <1>1, <3>2
    <2>3. lost' = 0 /\ N' > 0 => requests'[N'].seq = sent'[SEND]
      BY <1>2, <1>3 DEF QueueOK
    <2>4. \A i, j \in 1..N' : i <= j /\ M(i)' = Finalize => M(j)' = Finalize
      BY <1>3 DEF QueueOK
    <2> QED
      BY <1>3, <1>4, <1>5, <1>7, <2>1, <2>2, <2>3, <2>4 DEF QueueOK
  <1> QED
    BY <1>6, <1>7

-----------------------------------------------------------------------------
(* The firmware *)

\* The image fits the device.
LEMMA OnDevice ==
    ASSUME NEW a \in Nat, a < Len(Image)
    PROVE  a \div EEPROM_PAGE_SIZE \in FP!Pages
  <1> DEFINE p == a \div EEPROM_PAGE_SIZE
             o == a % EEPROM_PAGE_SIZE
  <1>1. p \in Nat /\ o \in FP!Offsets /\ a = EEPROM_PAGE_SIZE * p + o
    BY StoreAssumed, FP!PageArithmetic
  <1>2. EEPROM_PAGE_SIZE \in Nat /\ EEPROM_PAGE_SIZE >= 2 /\ LAST_PAGE \in Nat /\ o >= 0
    BY <1>1, TransferAssumption DEF FP!Offsets
  <1>3. a < (LAST_PAGE + 1) * EEPROM_PAGE_SIZE
    BY TransferAssumption
  <1> HIDE DEF p, o
  <1>4. ASSUME p >= LAST_PAGE + 1 PROVE FALSE
    <2>1. EEPROM_PAGE_SIZE * p >= EEPROM_PAGE_SIZE * (LAST_PAGE + 1)
      BY <1>1, <1>2, <1>4
    <2>2. EEPROM_PAGE_SIZE * (LAST_PAGE + 1) = (LAST_PAGE + 1) * EEPROM_PAGE_SIZE
          /\ EEPROM_PAGE_SIZE * (LAST_PAGE + 1) \in Nat /\ EEPROM_PAGE_SIZE * p \in Nat
      BY <1>1, <1>2
    <2>3. o \in Nat
      BY <1>1, <1>2 DEF FP!Offsets
    <2> HIDE DEF p, o
    <2> QED
      BY <1>1, <1>3, <2>1, <2>2, <2>3
  <1>5. p \in 0..LAST_PAGE
    BY <1>1, <1>2, <1>4
  <1> QED
    BY <1>5 DEF p, FP!Pages

\* A call of the store that runs writes the chunk at the head of the queue.
LEMMA WritingChunk ==
    ASSUME TypeInv, ThreadOK, FirmwareOK, ~F!Idle
    PROVE  /\ serving /\ N >= 1 /\ call.op = "File_write" /\ call.status = F!Running
           /\ \E k \in Addresses :
                 /\ M(1) = ChunkAt(k) /\ call.index = k /\ call.buf = ChunkAt(k).data
                 /\ call.len = SizeAt(k) /\ call.i \in 0..SizeAt(k)
                 /\ call.i < SizeAt(k) => /\ call.index + call.i \in Nat
                                          /\ call.index + call.i < Len(Image)
                                          /\ FP!desiredpage \in FP!Pages
  <1>1. serving /\ N >= 1 /\ call.op = "File_write" /\ call.status = F!Running
    BY Numbers DEF FirmwareOK, F!Idle
  <1>2. M(1).data # <<>> /\ call.index = M(1).index /\ call.buf = M(1).data
    BY DEF FirmwareOK
  <1>3. M(1) \in Script
    BY <1>1, Numbers, QueueFacts
  <1>4. PICK k \in Addresses : M(1) = ChunkAt(k)
    BY <1>2, <1>3, ScriptFacts
  <1>5. /\ call.index = k /\ call.buf = ChunkAt(k).data /\ Len(call.buf) = SizeAt(k)
        /\ k \in Nat /\ SizeAt(k) \in Nat /\ k + SizeAt(k) <= Len(Image)
    BY <1>2, <1>4, ChunkAtFacts, ChunkSize
  <1>6. call.len = Len(call.buf) /\ call.i \in Nat /\ call.i <= call.len
    BY <1>1, Numbers DEF F!TypeOK, F!CallOK, F!Calls
  <1>7. call.i \in 0..SizeAt(k)
    BY <1>5, <1>6
  <1>8. ASSUME call.i < SizeAt(k)
        PROVE  /\ call.index + call.i \in Nat /\ call.index + call.i < Len(Image)
               /\ FP!desiredpage \in FP!Pages
    <2>1. call.index + call.i \in Nat /\ call.index + call.i < Len(Image)
      BY <1>5, <1>6, <1>8, ChunkSize
    <2> QED
      BY <2>1, OnDevice DEF FP!desiredpage
  <1> QED
    BY <1>1, <1>4, <1>5, <1>6, <1>7, <1>8

\* A page switch leaves the call as it is.
LEMMA SwitchKeepsCall ==
    ASSUME TypeInv, ThreadOK, FirmwareOK, ~DeviceFaults, F!SwitchPage
    PROVE  UNCHANGED call /\ FP!SwitchPage /\ FP!desiredpage \in FP!Pages
  <1>1. FP!SwitchPage /\ FP!TypeOK
    BY SameStoreSteps, Numbers
  <1>2. ~F!Idle /\ call.i < call.len
    BY DEF F!SwitchPage, F!InLoop, F!Idle
  <1>3. FP!desiredpage \in FP!Pages
    BY <1>2, WritingChunk
  <1>4. UNCHANGED call
    BY <1>1, <1>3, StoreAssumed, FP!SwitchFacts
  <1> QED
    BY <1>1, <1>3, <1>4

LEMMA HeadFacts ==
    ASSUME TypeInv, requests # <<>>
    PROVE  Arrived = M(1) /\ N >= 1 /\ Head(requests) = requests[1]
  <1>1. Head(requests) = requests[1] /\ N >= 1
    BY Numbers, TailPackets DEF N
  <1> QED
    BY <1>1 DEF Arrived, M

LEMMA FirmwareNext ==
    ~DeviceFaults /\ TypeInv /\ ThreadOK /\ FirmwareOK /\ [Next]_vars => FirmwareOK'
  <1> SUFFICES ASSUME ~DeviceFaults, TypeInv, ThreadOK, FirmwareOK, [Next]_vars PROVE FirmwareOK'
    OBVIOUS
  <1>1. CASE UNCHANGED <<call, answers, serving>> /\ (serving => N' >= 1 /\ M(1)' = M(1))
    <2>1. serving => requests' # <<>>
      BY <1>1 DEF N
    <2>2. F!Idle' = F!Idle
      BY <1>1 DEF F!Idle
    <2> QED
      BY <1>1, <2>1, <2>2 DEF FirmwareOK
  <1>2. CASE SendMessage
    <2>1. N' >= 1 /\ (serving => M(1)' = M(1))
      <3>1. serving => 1 \in 1..N
        BY Numbers DEF FirmwareOK
      <3> QED
        BY <1>2, <3>1, AppendKept, Numbers
    <2> QED
      BY <1>1, <1>2, <2>1 DEF SendMessage, fileVars, firmwareVars
  <1>3. CASE UNCHANGED <<fileVars, firmwareVars, messages, requests>>
    <2>1. M(1)' = M(1) /\ N' = N
      BY <1>3 DEF M, N
    <2>2. serving => N >= 1
      BY Numbers DEF FirmwareOK
    <2> QED
      BY <1>1, <1>3, <2>1, <2>2 DEF fileVars, firmwareVars
  <1>4. CASE l_ProcessSendFile
    <2>1. serving' = TRUE /\ requests # <<>> /\ UNCHANGED <<cmdVars, dialogVars, answers, lost>>
      BY <1>4 DEF l_ProcessSendFile
    <2>2. UNCHANGED <<requests, messages, answers>> /\ M(1)' = M(1) /\ Arrived = M(1)
      BY <2>1, HeadFacts DEF cmdVars, dialogVars, M
    <2>3. CASE Arrived.data # <<>> /\ F!File_write(Arrived.index, Arrived.data)
      <3>1. /\ call'.op = "File_write" /\ call'.index = M(1).index /\ call'.buf = M(1).data
            /\ call'.status = F!Running
        BY <2>2, <2>3 DEF F!File_write
      <3> QED
        BY <2>1, <2>2, <2>3, <3>1 DEF FirmwareOK, F!Idle, F!Running, ACK_OK
    <2>4. CASE F!File_reset \/ F!File_finalize \/ F!File_flush
      <3>1. call'.status = ACK_OK
        <4>1. CASE F!File_reset \/ F!File_finalize
          BY <4>1 DEF F!File_reset, F!File_finalize, F!NoCall, F!OK, ACK_OK
        <4>2. CASE F!File_flush
          <5>1. PICK f \in FP!FlushOutcomes : call' = FP!NoCall("File_flush", f.status)
            BY <4>2, SameStoreSteps DEF FP!File_flush
          <5>2. f.status = FP!OK
            BY <5>1, Numbers, StoreAssumed, FP!FlushFacts
          <5> QED
            BY <5>1, <5>2 DEF FP!NoCall, FP!OK, ACK_OK
        <4> QED
          BY <2>4, <4>1, <4>2
      <3> QED
        BY <2>1, <2>2, <3>1 DEF FirmwareOK, F!Idle, F!Running, ACK_OK
    <2> QED
      BY <1>4, <2>3, <2>4 DEF l_ProcessSendFile
  <1>5. CASE StoreStep
    <2>1. UNCHANGED <<requests, messages, answers, serving>> /\ M(1)' = M(1)
      BY <1>5 DEF StoreStep, cmdVars, dialogVars, firmwareVars, M
    <2>2. CASE F!SwitchPage
      <3>1. UNCHANGED call
        BY <2>2, SwitchKeepsCall
      <3>2. N' = N /\ (serving => N >= 1)
        BY <2>1, Numbers DEF N, FirmwareOK
      <3> QED
        BY <1>1, <2>1, <3>1, <3>2
    <2>3. CASE F!WriteByte
      <3>1. ~F!Idle /\ call' = [call EXCEPT !.i = @ + 1]
        BY <2>3 DEF F!WriteByte, F!InLoop, F!Idle
      <3>2. call \in FP!Calls
        BY Numbers DEF FP!TypeOK, FP!CallOK
      <3>3. /\ call'.op = call.op /\ call'.index = call.index /\ call'.buf = call.buf
            /\ call'.status = call.status
        BY <3>1, <3>2 DEF FP!Calls
      <3> QED
        BY <2>1, <3>1, <3>3 DEF FirmwareOK, F!Idle
    <2>4. CASE F!WriteReturn
      <3>1. call'.status = ACK_OK
        BY <2>4 DEF F!WriteReturn, F!Return, F!NoCall, F!OK, ACK_OK
      <3> QED
        BY <2>1, <3>1 DEF FirmwareOK, F!Idle, F!Running, ACK_OK
    <2> QED
      BY <1>5, <2>2, <2>3, <2>4 DEF StoreStep
  <1>6. CASE SendAnswer
    <2>1. /\ F!Idle /\ serving' = FALSE /\ UNCHANGED call
          /\ answers' = [answers EXCEPT ![Head(requests).seq] = call.status]
      BY <1>6 DEF SendAnswer, fileVars
    <2>2. call.status = ACK_OK
      BY <2>1 DEF FirmwareOK
    <2>3. \A n \in 1..MaxCalls : answers'[n] = ACK_OK
      BY <2>1, <2>2 DEF FirmwareOK, TypeInv, TypeOK
    <2> QED
      BY <2>1, <2>2, <2>3 DEF FirmwareOK, F!Idle
  <1>7. CASE Lose
    <2>1. CASE C!LoseResponse
      BY <1>3, <1>7, <2>1 DEF Lose, C!LoseResponse, dialogVars
    <2>2. CASE ~serving /\ C!LoseRequest
      BY <1>1, <1>7, <2>2 DEF Lose, fileVars, firmwareVars
    <2> QED
      BY <1>7, <2>1, <2>2 DEF Lose
  <1>8. LeaveLoop => UNCHANGED <<fileVars, firmwareVars, messages, requests>>
    BY DEF LeaveLoop, cmdVars
  <1>9. CallFails \/ CallReturns => UNCHANGED <<fileVars, firmwareVars, messages, requests>>
    BY Numbers, CallFacts DEF CallFails, CallReturns, SEND
  <1>10. CallStep => UNCHANGED <<fileVars, firmwareVars, messages, requests>>
    BY Numbers, CallFacts DEF CallStep, C!Listen, dialogVars, SEND
  <1>11. UNCHANGED vars => UNCHANGED <<fileVars, firmwareVars, messages, requests>>
    BY DEF vars, dialogVars, cmdVars
  <1> QED
    BY <1>2, <1>3, <1>4, <1>5, <1>6, <1>7, <1>8, <1>9, <1>10, <1>11 DEF Next

-----------------------------------------------------------------------------
(* The queue through every step *)

\* A step that sends nothing, takes nothing out and changes neither loop nor count.
LEMMA QuietSteps ==
    ASSUME TypeInv,
           CallStep \/ l_ProcessSendFile \/ StoreStep \/ (Lose /\ C!LoseResponse) \/ UNCHANGED vars
    PROVE  /\ UNCHANGED <<requests, dialogVars, sent>>
           /\ Upcoming' = Upcoming /\ (GaveUp' <=> GaveUp) /\ (Busy' <=> Busy)
  <1>1. UNCHANGED <<requests, dialogVars, sent>> /\ (Busy' <=> Busy)
    <2>1. CASE CallStep
      BY <2>1, Numbers, CallFacts DEF CallStep, C!Listen, SEND, Busy
    <2>2. CASE l_ProcessSendFile \/ StoreStep \/ UNCHANGED vars
      BY <2>2 DEF l_ProcessSendFile, StoreStep, vars, cmdVars, Busy
    <2>3. CASE Lose /\ C!LoseResponse
      BY <2>3 DEF Lose, C!LoseResponse, C!callVars, Busy
    <2> QED
      BY <2>1, <2>2, <2>3
  <1> QED
    BY <1>1 DEF dialogVars, Upcoming, GaveUp

LEMMA HistoryKept ==
    ASSUME TypeInv, [Next]_vars
    PROVE  lost' \in Nat /\ lost' >= lost /\ (late => late') /\ (Accounted' => Accounted)
  <1>1. lost' \in Nat /\ lost' >= lost /\ (late => late')
    BY Numbers DEF Next, SendMessage, LeaveLoop, CallFails, CallReturns, CallStep, l_ProcessSendFile,
                   StoreStep, SendAnswer, Lose, dialogVars, vars
  <1> QED
    BY <1>1, Numbers DEF Accounted

LEMMA QueueNext ==
    ASSUME TypeInv, ThreadOK, FirmwareOK, Accounted => QueueOK, [Next]_vars, Accounted'
    PROVE  QueueOK'
  <1>1. QueueOK /\ lost' \in Nat /\ lost' >= lost
    BY HistoryKept
  <1>2. CASE SendMessage
    BY <1>1, <1>2, QueueAppend
  <1>3. CASE LeaveLoop
    BY <1>1, <1>3, QueueKept, LeaveFacts DEF LeaveLoop, cmdVars
  <1>4. CASE CallFails
    <2>1. UNCHANGED <<requests, messages, sent, late>>
      BY <1>4, Numbers, CallFacts DEF CallFails, SEND
    <2> QED
      BY <1>1, <1>4, <2>1, QueueKept, FailFacts
  <1>5. CASE CallReturns
    BY <1>1, <1>5, QueueReturn
  <1>6. CASE CallStep \/ l_ProcessSendFile \/ StoreStep \/ (Lose /\ C!LoseResponse) \/ UNCHANGED vars
    BY <1>1, <1>6, QueueKept, QuietSteps DEF dialogVars
  <1>7. CASE SendAnswer \/ (Lose /\ C!LoseRequest)
    <2>1. requests # <<>> /\ requests' = Tail(requests) /\ UNCHANGED <<sent, dialogVars>>
      BY <1>7 DEF SendAnswer, Lose, C!l_HandleCommand, C!LoseRequest, C!callVars
    <2> QED
      BY <1>1, <2>1, QueueTail DEF dialogVars
  <1> QED
    BY <1>2, <1>3, <1>4, <1>5, <1>6, <1>7 DEF Next, Lose

-----------------------------------------------------------------------------
(* After the first FINALIZE *)

\* Handling a message makes the last call a finalize only for that message, and
\* no other step changes which call was the last.
LEMMA LastCall ==
    ASSUME TypeInv, ThreadOK, FirmwareOK, ~DeviceFaults, [Next]_vars
    PROVE  /\ ~l_ProcessSendFile => (Finalized' <=> Finalized)
           /\ l_ProcessSendFile => (Finalized' <=> M(1) = Finalize)
  <1>1. ASSUME ~l_ProcessSendFile PROVE Finalized' <=> Finalized
    <2>1. CASE StoreStep
      <3>1. CASE F!SwitchPage
        BY <3>1, SwitchKeepsCall DEF Finalized
      <3>2. CASE F!WriteByte
        <4>1. call \in FP!Calls
          BY Numbers DEF FP!TypeOK, FP!CallOK
        <4> QED
          BY <3>2, <4>1 DEF F!WriteByte, Finalized, FP!Calls
      <3>3. CASE F!WriteReturn
        BY <3>3 DEF F!WriteReturn, F!Return, F!NoCall, Finalized
      <3> QED
        BY <2>1, <3>1, <3>2, <3>3 DEF StoreStep
    <2>2. CASE UNCHANGED fileVars
      BY <2>2 DEF fileVars, Finalized
    <2>3. StoreStep \/ UNCHANGED fileVars
      BY <1>1 DEF Next, SendMessage, LeaveLoop, CallFails, CallReturns, CallStep, SendAnswer, Lose, vars
    <2> QED
      BY <2>1, <2>2, <2>3
  <1>2. ASSUME l_ProcessSendFile PROVE Finalized' <=> M(1) = Finalize
    <2>1. Arrived = M(1) /\ M(1) \in Script
      BY <1>2, HeadFacts, QueueFacts, Numbers DEF l_ProcessSendFile
    <2>2. CASE Arrived.data # <<>> /\ F!File_write(Arrived.index, Arrived.data)
      BY <2>1, <2>2, ScriptFacts DEF F!File_write, Finalized
    <2>3. CASE Arrived.data = <<>> /\ Arrived.index = SEND_FILE_RESET_INDEX /\ F!File_reset
      BY <2>1, <2>3, ScriptFacts DEF F!File_reset, F!NoCall, Finalized
    <2>4. CASE Arrived.data = <<>> /\ Arrived.index = SEND_FILE_FINALIZE_INDEX /\ F!File_finalize
      <3>1. M(1) = Finalize
        BY <2>1, <2>4, ScriptFacts
      <3> QED
        BY <2>4, <3>1 DEF F!File_finalize, F!NoCall, Finalized
    <2>5. CASE /\ Arrived.data = <<>> /\ F!File_flush
               /\ Arrived.index \notin {SEND_FILE_RESET_INDEX, SEND_FILE_FINALIZE_INDEX}
      BY <2>1, <2>5, ScriptFacts DEF F!File_flush, F!NoCall, Finalized
    <2> QED
      BY <1>2, <2>2, <2>3, <2>4, <2>5 DEF l_ProcessSendFile
  <1> QED
    BY <1>1, <1>2

LEMMA OverNext ==
    ASSUME ~DeviceFaults, TypeInv, TransferInv, [Next]_vars, Accounted', Finalized'
    PROVE  OverOK'
  <1>1. ThreadOK /\ FirmwareOK /\ Accounted /\ QueueOK /\ N \in Nat
    BY HistoryKept, Numbers DEF TransferInv
  <1>2. CASE l_ProcessSendFile
    <2>1. M(1) = Finalize /\ N >= 1
      BY <1>1, <1>2, LastCall, HeadFacts DEF l_ProcessSendFile
    <2>2. \A i \in 1..N : M(i) = Finalize
      BY <1>1, <2>1 DEF QueueOK
    <2>3. ~GaveUp => Upcoming = Finalize
      <3>1. M(N) = Finalize
        BY <1>1, <2>1, <2>2
      <3> QED
        BY <1>1, <2>1, <3>1, AfterFacts DEF QueueOK, Follows
    <2>4. UNCHANGED <<requests, messages>> /\ Upcoming' = Upcoming /\ (GaveUp' <=> GaveUp)
      BY <1>2, QuietSteps DEF dialogVars
    <2> QED
      BY <2>2, <2>3, <2>4 DEF OverOK, N, M
  <1>3. CASE ~l_ProcessSendFile
    <2>1. OverOK
      BY <1>1, <1>3, LastCall DEF TransferInv
    <2>2. CASE SendMessage
      <3>1. ~GaveUp /\ Upcoming' = Upcoming /\ Upcoming = Finalize
        BY <1>1, <2>1, <2>2, SendFacts DEF OverOK
      <3>2. N' = N + 1 /\ (\A i \in 1..N : M(i)' = M(i)) /\ (\A i \in 1..N' : i = N + 1 => M(i)' = Upcoming)
        BY <1>1, <2>2, AppendKept
      <3>3. \A i \in 1..N' : i \in 1..N \/ i = N + 1
        BY <1>1, <3>2
      <3>4. \A i \in 1..N' : M(i)' = Finalize
        BY <2>1, <3>1, <3>2, <3>3 DEF OverOK
      <3> QED
        BY <3>1, <3>4 DEF OverOK
    <2>3. CASE /\ UNCHANGED <<requests, messages>>
               /\ ~GaveUp' => ~GaveUp /\ Upcoming' \in {Upcoming, After(Upcoming)}
      BY <2>1, <2>3, AfterFacts DEF OverOK, N, M
    <2>4. CASE SendAnswer \/ (Lose /\ C!LoseRequest)
      <3>1. requests # <<>> /\ requests' = Tail(requests) /\ UNCHANGED dialogVars
        BY <2>4 DEF SendAnswer, Lose, C!l_HandleCommand, C!LoseRequest
      <3>2. N' = N - 1 /\ \A i \in 1..(N - 1) : requests'[i] = requests[i + 1]
        BY <3>1, Numbers, TailPackets DEF N
      <3>3. \A i \in 1..N' : M(i)' = Finalize
        <4> SUFFICES ASSUME NEW i \in 1..N' PROVE M(i)' = Finalize
          OBVIOUS
        <4>1. i + 1 \in 1..N /\ requests'[i] = requests[i + 1]
          BY <1>1, <3>2
        <4> QED
          BY <2>1, <3>1, <4>1 DEF OverOK, M, dialogVars
      <3> QED
        BY <2>1, <3>1, <3>3 DEF OverOK, Upcoming, GaveUp, dialogVars
    <2>5. LeaveLoop => UNCHANGED <<requests, messages>> /\ (~GaveUp' => ~GaveUp /\ Upcoming' = Upcoming)
      BY <1>1, LeaveFacts DEF LeaveLoop, cmdVars
    <2>6. CallFails => UNCHANGED <<requests, messages>> /\ (~GaveUp' => ~GaveUp /\ Upcoming' = Upcoming)
      BY <1>1, FailFacts, Numbers, CallFacts DEF CallFails, SEND
    <2>7. CallReturns => UNCHANGED <<requests, messages>> /\ ~GaveUp /\ Upcoming' = After(Upcoming)
      BY <1>1, ReturnFacts, Numbers, CallFacts DEF CallReturns, SEND
    <2>8. CallStep \/ StoreStep \/ (Lose /\ C!LoseResponse) \/ UNCHANGED vars
             => UNCHANGED <<requests, messages>> /\ Upcoming' = Upcoming /\ (GaveUp' <=> GaveUp)
      BY QuietSteps DEF dialogVars
    <2> QED
      BY <1>3, <2>2, <2>3, <2>4, <2>5, <2>6, <2>7, <2>8 DEF Next, Lose
  <1> QED
    BY <1>2, <1>3

-----------------------------------------------------------------------------
(* The data: the steps that leave the store alone *)

\* What has to be shown of a step, for the message that is first afterwards and
\* the one the thread is at afterwards.
LEMMA DataFrom ==
    ASSUME NEW h, NEW u, M(1)' = h, Upcoming' = u,
           FP!Clean',
           N' > 0 /\ ~serving' => Ready(h)',
           serving' /\ F!Idle' => Done(h)',
           ~F!Idle' => Saved(call.index + call.i)',
           N' = 0 /\ ~GaveUp' => Ready(u)',
           N' = 0 /\ Busy' /\ (lost' = 0 \/ AnsweredLast') => Done(u)'
    PROVE  DataOK'
  <1>1. /\ Ready(M(1))' <=> Ready(h)'
        /\ Done(M(1))' <=> Done(h)'
    BY DEF Done, Ready, Saved, Start, After
  <1>2. /\ Ready(Upcoming)' <=> Ready(u)'
        /\ Done(Upcoming)' <=> Done(u)'
    BY DEF Done, Ready, Saved, Start, After
  <1> QED
    BY <1>1, <1>2 DEF DataOK

\* With the bytes and the flag as they were, so is all that is said of them.
LEMMA SameBytes ==
    ASSUME FP!View' = FP!View, FileBufferDirty' = FileBufferDirty
    PROVE  \A m : (Ready(m)' <=> Ready(m)) /\ (Done(m)' <=> Done(m))
  <1>1. F!View' = F!View
    BY DEF F!View, FP!View
  <1>2. \A m : Ready(m)' <=> Ready(m)
    BY <1>1 DEF Ready, Saved, Start
  <1> QED
    BY <1>1, <1>2 DEF Done, Ready, Saved, Start, After

LEMMA SameStore ==
    ASSUME UNCHANGED fileVars
    PROVE  /\ \A m : (Ready(m)' <=> Ready(m)) /\ (Done(m)' <=> Done(m))
           /\ FP!Clean' <=> FP!Clean
           /\ F!Idle' <=> F!Idle
           /\ Saved(call.index + call.i)' <=> Saved(call.index + call.i)
  <1>1. FP!View' = FP!View /\ FileBufferDirty' = FileBufferDirty
    BY DEF fileVars, FP!View
  <1>2. \A m : (Ready(m)' <=> Ready(m)) /\ (Done(m)' <=> Done(m))
    BY <1>1, SameBytes
  <1>3. /\ FP!Clean' <=> FP!Clean
        /\ F!Idle' <=> F!Idle
        /\ Saved(call.index + call.i)' <=> Saved(call.index + call.i)
    BY DEF fileVars, FP!Clean, F!Idle, Saved, F!View
  <1> QED
    BY <1>2, <1>3

LEMMA DataSend ==
    ASSUME TypeInv, ThreadOK, FirmwareOK, DataOK, SendMessage
    PROVE  DataOK'
  <1>1. PICK h, u : h = M(1)' /\ u = Upcoming
    OBVIOUS
  <1>2. UNCHANGED <<fileVars, serving>> /\ Upcoming' = u /\ ~GaveUp
    BY <1>1, SendFacts DEF SendMessage, firmwareVars
  <1>3. N' = N + 1 /\ N \in Nat /\ (N > 0 => h = M(1)) /\ (N = 0 => h = u)
    <2>1. N' = N + 1 /\ N \in Nat /\ (N > 0 => M(1)' = M(1))
      BY AppendKept, Numbers
    <2>2. N = 0 => M(1)' = Upcoming
      BY AppendKept
    <2> QED
      BY <1>1, <2>1, <2>2
  <1>4. serving => N > 0
    BY Numbers DEF FirmwareOK
  <1>5. ~serving => Ready(h)
    BY <1>1, <1>2, <1>3 DEF DataOK
  <1>6. serving /\ F!Idle => Done(h)
    BY <1>3, <1>4 DEF DataOK
  <1> QED
    BY <1>1, <1>2, <1>3, <1>5, <1>6, SameStore, DataFrom DEF DataOK

\* The thread leaves a loop or gives a call up, or an answer gets on.
LEMMA DataQuiet ==
    ASSUME TypeInv, ThreadOK, FirmwareOK, DataOK,
           UNCHANGED <<fileVars, serving, requests, messages>>,
           ~GaveUp' => ~GaveUp /\ Upcoming' = Upcoming,
           Busy' => Busy /\ Upcoming' = Upcoming /\ (lost' = 0 \/ AnsweredLast' => lost = 0 \/ AnsweredLast)
    PROVE  DataOK'
  <1>1. PICK h, u : h = M(1) /\ u = Upcoming'
    OBVIOUS
  <1>2. M(1)' = h /\ N' = N
    BY <1>1 DEF M, N
  <1> QED
    BY <1>1, <1>2, SameStore, DataFrom DEF DataOK

LEMMA DataReturn ==
    ASSUME TypeInv, ThreadOK, FirmwareOK, QueueOK, DataOK, CallReturns, Accounted'
    PROVE  DataOK'
  <1>1. PICK h, u : h = M(1) /\ u = Upcoming'
    OBVIOUS
  <1>2. UNCHANGED <<fileVars, serving, lost>> /\ Busy /\ ~Busy' /\ u = After(Upcoming)
    BY <1>1, ReturnFacts DEF CallReturns, firmwareVars
  <1>3. N' = N /\ M(1)' = h
    BY <1>1, QueueReturn
  <1>4. lost = 0 \/ AnsweredLast
    BY QueueReturn DEF AnsweredLast
  <1>5. N = 0 => Ready(u)
    BY <1>2, <1>4 DEF DataOK, Done
  <1> QED
    BY <1>1, <1>2, <1>3, <1>5, SameStore, DataFrom DEF DataOK

\* An answer that was on its way, or stored, is an answer still.
LEMMA AnswerKept ==
    ASSUME TypeInv, CallStep \/ (Lose /\ C!LoseResponse)
    PROVE  AnsweredLast' => AnsweredLast
  <1> SUFFICES ASSUME AnsweredLast' PROVE AnsweredLast
    OBVIOUS
  <1>1. sent'[SEND] = sent[SEND]
    BY QuietSteps
  <1>2. CASE /\ responses # <<>> /\ responses' = Tail(responses)
             /\ m_CommandWaiting'[SEND].lo \in {m_CommandWaiting[SEND].lo, Head(responses).seq}
    <2>1. /\ Len(responses) \in Nat /\ Len(responses) >= 1 /\ Head(responses) = responses[1]
          /\ Len(responses') = Len(responses) - 1
          /\ \A i \in 1..(Len(responses) - 1) : responses'[i] = responses[i + 1]
      BY <1>2, Numbers, TailPackets, Requests
    <2>2. CASE m_CommandWaiting'[SEND].lo = sent'[SEND]
      <3>1. 1 \in 1..Len(responses)
        BY <2>1
      <3> QED
        BY <1>1, <1>2, <2>1, <2>2, <3>1 DEF AnsweredLast
    <2>3. CASE \E i \in 1..Len(responses') : responses'[i].seq = sent'[SEND]
      <3>1. PICK i \in 1..(Len(responses) - 1) : responses[i + 1].seq = sent[SEND]
        BY <1>1, <2>1, <2>3
      <3>2. i + 1 \in 1..Len(responses)
        BY <2>1
      <3> QED
        BY <3>1, <3>2 DEF AnsweredLast
    <2> QED
      BY <2>2, <2>3 DEF AnsweredLast
  <1>3. CASE UNCHANGED responses /\ m_CommandWaiting'[SEND].lo = m_CommandWaiting[SEND].lo
    BY <1>1, <1>3 DEF AnsweredLast
  <1>4. CASE CallStep
    BY <1>2, <1>3, <1>4, Numbers, CallFacts DEF CallStep, C!Listen, SEND
  <1>5. CASE Lose /\ C!LoseResponse
    BY <1>2, <1>5 DEF C!LoseResponse, C!slotVars
  <1> QED
    BY <1>4, <1>5

\* A request is lost only from a queue that holds the same message over and over.
LEMMA DataLose ==
    ASSUME TypeInv, ThreadOK, FirmwareOK, QueueOK, DataOK, Lose, ~serving, C!LoseRequest, Accounted'
    PROVE  DataOK'
  <1>1. PICK h, u : h = M(1) /\ u = Upcoming
    OBVIOUS
  <1>2. /\ requests # <<>> /\ requests' = Tail(requests)
        /\ UNCHANGED <<fileVars, serving, dialogVars, responses, m_CommandWaiting, sent>>
        /\ lost' = lost + 1 /\ lost' # 0
    BY Numbers DEF Lose, C!LoseRequest, C!slotVars, C!callVars, firmwareVars
  <1>3. ~late /\ Upcoming' = u /\ (GaveUp' <=> GaveUp)
    BY <1>1, <1>2, Numbers DEF Accounted, Upcoming, GaveUp, dialogVars
  <1>4. N \in Nat /\ N >= 1 /\ N' = N - 1 /\ \A i \in 1..(N - 1) : requests'[i] = requests[i + 1]
    BY <1>2, Numbers, TailPackets DEF N
  <1>5. Ready(h)
    BY <1>1, <1>4 DEF DataOK
  <1>6. N' > 0 => M(1)' = h
    <2> SUFFICES ASSUME N' > 0 PROVE M(1)' = M(1)
      BY <1>1
    <2>1. requests'[1] = requests[2] /\ 2 \in 1..N
      BY <1>4
    <2>2. M(2) = M(1)
      BY <1>3, <2>1 DEF QueueOK
    <2> QED
      BY <1>2, <2>1, <2>2 DEF M, dialogVars
  <1>7. ~GaveUp => u = h
    <2>1. 1 \in 1..N
      BY <1>4
    <2> QED
      BY <1>1, <1>3, <2>1 DEF QueueOK
  <1>8. ~AnsweredLast'
    <2>1. 1 \in 1..Len(requests)
      BY <1>4 DEF N
    <2>2. /\ requests[1].seq \in 1..sent[SEND] /\ m_CommandWaiting[SEND].lo < requests[1].seq
          /\ \A j \in 1..Len(responses) : responses[j].seq \in Nat /\ responses[j].seq < requests[1].seq
      BY <2>1, Numbers, Requests
    <2>3. /\ m_CommandWaiting[SEND].lo # sent[SEND]
          /\ \A j \in 1..Len(responses) : responses[j].seq # sent[SEND]
      BY <2>2, Numbers, Requests
    <2> QED
      BY <1>2, <2>3 DEF AnsweredLast
  <1>9. PICK g : g = M(1)'
    OBVIOUS
  <1>10. N' > 0 => Ready(g)
    BY <1>5, <1>6, <1>9
  <1>11. ~GaveUp => Ready(u)
    BY <1>5, <1>7
  <1> QED
    BY <1>2, <1>3, <1>8, <1>9, <1>10, <1>11, SameStore, DataFrom DEF DataOK

\* The firmware answers: what the message asked for is done.
LEMMA DataAnswer ==
    ASSUME TypeInv, ThreadOK, FirmwareOK, QueueOK, DataOK, SendAnswer
    PROVE  DataOK'
  <1>1. PICK g, h, u : g = M(1)' /\ h = M(1) /\ u = Upcoming
    OBVIOUS
  <1>2. /\ serving /\ F!Idle /\ serving' = FALSE /\ UNCHANGED <<fileVars, dialogVars, lost>>
        /\ requests # <<>> /\ requests' = Tail(requests)
        /\ responses' = Append(responses, Head(requests))
        /\ UNCHANGED <<m_CommandWaiting, caller, sent>>
    <2>1. /\ serving /\ F!Idle /\ serving' = FALSE /\ UNCHANGED <<fileVars, dialogVars, lost>>
          /\ C!l_HandleCommand
      BY DEF SendAnswer
    <2>2. Head(requests).cmd = SEND
      <3>1. requests # <<>>
        BY <2>1 DEF C!l_HandleCommand
      <3>2. Head(requests) = requests[1] /\ 1 \in 1..Len(requests)
        BY <3>1, HeadFacts, Numbers DEF N
      <3> QED
        BY <3>2, Numbers, Requests
    <2> QED
      BY <2>1, <2>2 DEF C!l_HandleCommand, C!slotVars, C!callVars, SEND
  <1>3. Upcoming' = u /\ (GaveUp' <=> GaveUp) /\ (Busy' <=> Busy)
    BY <1>1, <1>2 DEF Upcoming, GaveUp, Busy, dialogVars
  <1>4. N \in Nat /\ N >= 1 /\ N' = N - 1 /\ \A i \in 1..(N - 1) : requests'[i] = requests[i + 1]
    BY <1>2, Numbers, TailPackets DEF N
  <1>5. Ready(h) /\ Ready(After(h))
    BY <1>1, <1>2 DEF DataOK, Done
  <1>6. N' > 0 => g = h \/ g = After(h)
    <2> SUFFICES ASSUME N' > 0 PROVE g = h \/ g = After(h)
      OBVIOUS
    <2>1. requests'[1] = requests[2] /\ 1 \in 1..(N - 1)
      BY <1>4
    <2>2. Follows(M(1), M(1 + 1))
      BY <2>1 DEF QueueOK
    <2>3. M(1)' = M(2)
      BY <1>2, <2>1 DEF M, dialogVars
    <2> QED
      BY <1>1, <2>2, <2>3 DEF Follows
  <1>7. N' = 0 /\ ~GaveUp => u = h \/ u = After(h)
    <2> SUFFICES ASSUME N' = 0, ~GaveUp PROVE u = h \/ u = After(h)
      OBVIOUS
    <2>1. N = 1
      BY <1>4
    <2> QED
      BY <1>1, <2>1 DEF QueueOK, Follows
  <1>8. N' = 0 /\ Busy /\ (lost = 0 \/ AnsweredLast') => u = h
    <2> SUFFICES ASSUME N' = 0, Busy, lost = 0 \/ AnsweredLast' PROVE u = h
      OBVIOUS
    <2>1. N = 1 /\ Head(requests) = requests[1] /\ 1 \in 1..Len(requests)
      BY <1>2, <1>4, HeadFacts DEF N
    <2>2. /\ requests[1].seq \in 1..sent[SEND] /\ m_CommandWaiting[SEND].lo < requests[1].seq
          /\ \A j \in 1..Len(responses) : responses[j].seq \in Nat /\ responses[j].seq < requests[1].seq
      BY <2>1, Numbers, Requests
    <2>3. requests[1].seq = sent[SEND]
      <3>1. CASE lost = 0
        BY <2>1, <3>1 DEF QueueOK
      <3>2. CASE AnsweredLast'
        <4>1. /\ m_CommandWaiting[SEND].lo # sent[SEND]
              /\ \A j \in 1..Len(responses) : responses[j].seq # sent[SEND]
          BY <2>2, Numbers, Requests
        <4>2. PICK j \in 1..Len(responses') : responses'[j].seq = sent[SEND]
          BY <1>2, <3>2, <4>1 DEF AnsweredLast
        <4>3. responses \in Seq(CP!Packets) /\ requests[1] \in CP!Packets
          <5>1. responses \in Seq(CP!Packets) /\ requests \in Seq(CP!Packets)
            BY Numbers DEF CommanderInv, CP!TypeOK
          <5> QED
            BY <2>1, <5>1
        <4>4. /\ Len(responses') = Len(responses) + 1 /\ responses'[Len(responses) + 1] = requests[1]
              /\ Len(responses) \in Nat
              /\ \A i \in 1..Len(responses) : responses'[i] = responses[i]
          BY <1>2, <2>1, <4>3, CP!AppendFacts
        <4>5. j = Len(responses) + 1
          BY <4>1, <4>2, <4>4
        <4> QED
          BY <4>2, <4>4, <4>5
      <3> QED
        BY <3>1, <3>2
    <2>4. messages[sent[SEND]] = Upcoming
      BY DEF ThreadOK
    <2> QED
      BY <1>1, <2>3, <2>4 DEF M
  <1>9. N' > 0 => Ready(g)
    BY <1>5, <1>6
  <1>10. N' = 0 /\ ~GaveUp => Ready(u)
    BY <1>5, <1>7
  <1>11. N' = 0 /\ Busy /\ (lost = 0 \/ AnsweredLast') => Done(u)
    BY <1>5, <1>8 DEF Done
  <1> QED
    BY <1>1, <1>2, <1>3, <1>9, <1>10, <1>11, SameStore, DataFrom DEF DataOK

-----------------------------------------------------------------------------
(* The data: the steps of the store *)

LEMMA ReadyNext ==
    \A m : Ready(m)' <=> /\ \A a \in 0..(Start(m) - 1) : FP!Byte(FP!View', a) = Image[a + 1]
                         /\ m = Finalize => ~FileBufferDirty'
  <1>1. F!View' = FP!View'
    BY DEF F!View, FP!View
  <1> QED
    BY <1>1 DEF Ready, Saved, Start

LEMMA DoneNext ==
    ASSUME NEW m, NEW n, n = After(m), Ready(m)', Ready(n)'
    PROVE  Done(m)'
  BY DEF Done, Ready, Saved, Start, After

\* A message is handed to the store.
LEMMA DataServe ==
    ASSUME ~DeviceFaults, TypeInv, ThreadOK, FirmwareOK, DataOK, l_ProcessSendFile, ~Finalized'
    PROVE  DataOK'
  <1>1. PICK h, u : h = M(1) /\ u = Upcoming
    OBVIOUS
  <1>2. /\ requests # <<>> /\ ~serving /\ serving' = TRUE
        /\ UNCHANGED <<requests, messages>> /\ Upcoming' = u
    BY <1>1, QuietSteps DEF l_ProcessSendFile, dialogVars
  <1>3. M(1)' = h /\ N' = N /\ N >= 1 /\ Arrived = h /\ h \in Script
    <2>1. M(1)' = M(1) /\ N' = N
      BY <1>2 DEF M, N
    <2> QED
      BY <1>1, <1>2, <2>1, HeadFacts, QueueFacts, Numbers
  <1>4. Ready(h) /\ FP!Clean /\ FP!TypeOK
    BY <1>1, <1>2, <1>3, Numbers DEF DataOK
  <1>5. h # Finalize
    BY <1>1, LastCall DEF Next
  <1>6. SUFFICES /\ FP!Clean'
                 /\ F!Idle' => Done(h)'
                 /\ ~F!Idle' => Saved(call.index + call.i)'
    BY <1>2, <1>3, Numbers, DataFrom
  <1>7. CASE h.data # <<>> /\ F!File_write(h.index, h.data)
    <2>1. /\ UNCHANGED <<eeprom, FileBuffer, CurrentFileBufferPage, FileBufferDirty>>
          /\ call'.index = h.index /\ call'.i = 0 /\ call'.status = F!Running
      BY <1>7 DEF F!File_write, F!bufferVars
    <2>2. FP!Clean' /\ F!View' = F!View /\ ~F!Idle'
      BY <1>4, <2>1 DEF FP!Clean, F!View, F!Idle
    <2>3. PICK k \in Addresses : h = ChunkAt(k)
      BY <1>3, <1>7, ScriptFacts
    <2>4. Start(h) = k /\ h.index = k /\ k \in Nat
      BY <2>3, AfterFacts, ChunkAtFacts
    <2>5. Saved(k) /\ call'.index + call'.i = k
      BY <1>4, <2>1, <2>4 DEF Ready
    <2>6. Saved(call.index + call.i)'
      BY <2>2, <2>5 DEF Saved
    <2> QED
      BY <2>2, <2>6
  <1>8. CASE h = Reset /\ F!File_reset
    <2>1. FP!Clean' /\ call' = FP!NoCall("File_reset", FP!OK)
      BY <1>4, <1>8, SameStoreSteps, StoreAssumed, FP!CleanReset
    <2>2. F!Idle'
      BY <2>1 DEF FP!NoCall, FP!OK, F!Idle, F!Running
    <2>3. Ready(Reset)' /\ Ready(ChunkAt(0))'
      <3>1. Start(Reset) = 0 /\ Start(ChunkAt(0)) = 0 /\ ChunkAt(0) # Finalize /\ Reset # Finalize
        BY AfterFacts, ScriptFacts
      <3> QED
        BY <3>1, ReadyNext
    <2>4. Done(Reset)'
      BY <2>3, AfterFacts, DoneNext
    <2> QED
      BY <1>8, <2>1, <2>2, <2>4 DEF Done, Ready, Saved, Start, After
  <1>9. CASE h = Close /\ F!File_flush
    <2>1. FP!View' = FP!View /\ FP!Clean' /\ ~FileBufferDirty' /\ call' = FP!NoCall("File_flush", FP!OK)
      BY <1>4, <1>9, SameStoreSteps, StoreAssumed, FP!CleanFlush
    <2>2. F!Idle'
      BY <2>1 DEF FP!NoCall, FP!OK, F!Idle, F!Running
    <2>3. Ready(Close)' /\ Ready(Finalize)'
      <3>1. Start(Close) = Len(Image) /\ Start(Finalize) = Len(Image)
        BY AfterFacts
      <3>2. Saved(Len(Image)) /\ F!View = FP!View
        BY <1>4, <1>9, <3>1 DEF Ready, F!View, FP!View
      <3> QED
        BY <2>1, <3>1, <3>2, ReadyNext DEF Saved
    <2>4. Done(Close)'
      BY <2>3, AfterFacts, DoneNext
    <2> QED
      BY <1>9, <2>1, <2>2, <2>4 DEF Done, Ready, Saved, Start, After
  <1>10. \/ h.data # <<>> /\ F!File_write(h.index, h.data)
         \/ h = Reset /\ F!File_reset
         \/ h = Close /\ F!File_flush
    <2>1. CASE h.data # <<>>
      BY <1>3, <2>1 DEF l_ProcessSendFile
    <2>2. CASE h.data = <<>>
      <3>1. h \in {Reset, Close}
        BY <1>3, <1>5, <2>2, ScriptFacts
      <3> QED
        BY <1>3, <2>2, <3>1, ScriptFacts DEF l_ProcessSendFile
    <2> QED
      BY <2>1, <2>2
  <1> QED
    BY <1>7, <1>8, <1>9, <1>10

\* The store is at work on the chunk.
LEMMA DataStore ==
    ASSUME ~DeviceFaults, TypeInv, ThreadOK, FirmwareOK, DataOK, StoreStep
    PROVE  DataOK'
  <1>1. PICK h, u : h = M(1) /\ u = Upcoming
    OBVIOUS
  <1>2. /\ UNCHANGED <<requests, messages, serving>> /\ Upcoming' = u
    BY <1>1, QuietSteps DEF StoreStep, dialogVars, firmwareVars
  <1>3. M(1)' = h /\ N' = N
    BY <1>1, <1>2 DEF M, N
  <1>4. ~F!Idle
    BY DEF StoreStep, F!SwitchPage, F!WriteByte, F!WriteReturn, F!InLoop, F!Idle
  <1>5. PICK k \in Addresses :
            /\ h = ChunkAt(k) /\ call.index = k /\ call.buf = ChunkAt(k).data
            /\ call.len = SizeAt(k) /\ call.i \in 0..SizeAt(k)
            /\ call.i < SizeAt(k) => /\ call.index + call.i \in Nat
                                     /\ call.index + call.i < Len(Image)
                                     /\ FP!desiredpage \in FP!Pages
    BY <1>1, <1>4, WritingChunk
  <1>6. serving /\ N >= 1 /\ FP!Clean /\ FP!TypeOK /\ Saved(k + call.i)
    BY <1>4, <1>5, WritingChunk, Numbers DEF DataOK
  <1>7. /\ k \in Nat /\ SizeAt(k) \in Nat /\ k + SizeAt(k) <= Len(Image) /\ Len(Image) \in Nat
        /\ \A j \in 1..SizeAt(k) : ChunkAt(k).data[j] = Image[k + j]
    BY ChunkAtFacts, ChunkSize
  <1>8. SUFFICES /\ FP!Clean'
                 /\ F!Idle' => Done(h)'
                 /\ ~F!Idle' => Saved(call.index + call.i)'
    BY <1>2, <1>3, <1>6, Numbers, DataFrom
  <1>9. F!View = FP!View /\ F!View' = FP!View'
    BY DEF F!View, FP!View
  <1>10. CASE F!SwitchPage
    <2>1. FP!SwitchPage /\ UNCHANGED call /\ FP!desiredpage \in FP!Pages
      BY <1>10, SwitchKeepsCall
    <2>2. FP!View' = FP!View /\ FP!Clean'
      BY <1>6, <2>1, StoreAssumed, FP!CleanSwitch
    <2>3. ~F!Idle'
      BY <1>4, <2>1 DEF F!Idle
    <2>4. Saved(call.index + call.i)'
      BY <1>5, <1>6, <1>9, <2>1, <2>2 DEF Saved
    <2> QED
      BY <2>2, <2>3, <2>4
  <1>11. CASE F!WriteByte
    <2>1. FP!WriteByte /\ call.i < SizeAt(k)
      BY <1>5, <1>11, SameStoreSteps DEF F!WriteByte, F!InLoop
    <2>2. /\ FP!Clean' /\ call' = [call EXCEPT !.i = @ + 1]
          /\ \A a \in Nat : a \div EEPROM_PAGE_SIZE \in FP!Pages =>
                FP!Byte(FP!View', a) = IF a = call.index + call.i THEN call.buf[call.i + 1]
                                       ELSE FP!Byte(FP!View, a)
      BY <1>6, <2>1, StoreAssumed, FP!CleanWrite
    <2>3. call'.status = call.status /\ call'.index = k /\ call'.i = call.i + 1
      <3>1. call \in FP!Calls
        BY <1>6 DEF FP!TypeOK, FP!CallOK
      <3> QED
        BY <1>5, <2>2, <3>1 DEF FP!Calls
    <2>4. ~F!Idle'
      BY <1>4, <2>3 DEF F!Idle
    <2>5. call.i \in Nat /\ call'.index + call'.i = k + call.i + 1 /\ k + call.i < Len(Image)
      BY <1>5, <1>7, <2>1, <2>3
    <2>6. ASSUME NEW a \in 0..(k + call.i) PROVE FP!Byte(FP!View', a) = Image[a + 1]
      <3>1. a \in Nat /\ a < Len(Image)
        BY <1>7, <2>5
      <3>2. FP!Byte(FP!View', a) = IF a = k + call.i THEN ChunkAt(k).data[call.i + 1]
                                   ELSE FP!Byte(FP!View, a)
        BY <1>5, <2>2, <3>1, OnDevice
      <3>3. CASE a = k + call.i
        <4>1. call.i + 1 \in 1..SizeAt(k) /\ k + (call.i + 1) = a + 1
          BY <1>7, <2>1, <2>5, <3>3
        <4> QED
          BY <1>7, <3>2, <3>3, <4>1
      <3>4. CASE a # k + call.i
        <4>1. k + call.i \in Nat
          BY <1>7, <2>5
        <4>2. PICK x \in Nat : x = k + call.i
          BY <4>1
        <4>3. a \in 0..x /\ a # x
          BY <3>4, <4>2
        <4>4. a \in 0..(x - 1)
          BY <4>3
        <4> QED
          BY <1>6, <1>9, <3>2, <3>4, <4>2, <4>4 DEF Saved
      <3> QED
        BY <3>3, <3>4
    <2>7. Saved(call.index + call.i)'
      <3>1. (call'.index + call'.i) - 1 = k + call.i
        BY <1>7, <2>5
      <3> QED
        BY <1>9, <2>6, <3>1 DEF Saved
    <2> QED
      BY <2>2, <2>4, <2>7
  <1>12. CASE F!WriteReturn
    <2>1. /\ call.i = SizeAt(k) /\ call'.status = ACK_OK
          /\ UNCHANGED <<eeprom, FileBuffer, CurrentFileBufferPage, FileBufferDirty>>
      BY <1>5, <1>12 DEF F!WriteReturn, F!Return, F!NoCall, F!OK, F!bufferVars, ACK_OK
    <2>2. FP!Clean' /\ FP!View' = FP!View /\ F!Idle'
      BY <1>6, <2>1 DEF FP!Clean, FP!View, F!Idle, F!Running, ACK_OK
    <2>3. \A a \in 0..((k + SizeAt(k)) - 1) : FP!Byte(FP!View', a) = Image[a + 1]
      BY <1>6, <1>9, <2>1, <2>2 DEF Saved
    <2>4. PICK n : n = After(h)
      OBVIOUS
    <2>5. Start(n) = k + SizeAt(k) /\ n # Finalize /\ Start(h) = k /\ h # Finalize
      BY <1>5, <2>4, AfterFacts
    <2>6. \A a \in 0..(k - 1) : a \in 0..((k + SizeAt(k)) - 1)
      BY <1>7
    <2>7. Ready(h)' /\ Ready(n)'
      BY <2>3, <2>5, <2>6, ReadyNext
    <2>8. Done(h)'
      BY <2>4, <2>7, DoneNext
    <2> QED
      BY <2>2, <2>8
  <1> QED
    BY <1>10, <1>11, <1>12 DEF StoreStep

-----------------------------------------------------------------------------
(* The invariant, and what it says of the first FINALIZE *)

LEMMA DataNext ==
    ASSUME ~DeviceFaults, TypeInv, TransferInv, [Next]_vars, Accounted', ~Finalized'
    PROVE  DataOK'
  <1>1. ThreadOK /\ FirmwareOK /\ Accounted /\ QueueOK
    BY HistoryKept DEF TransferInv
  <1>2. DataOK
    <2>1. ~Finalized
      <3>1. CASE l_ProcessSendFile
        <4>1. M(1) # Finalize /\ 1 \in 1..N
          BY <1>1, <3>1, LastCall, HeadFacts, Numbers DEF l_ProcessSendFile
        <4> QED
          BY <1>1, <4>1 DEF TransferInv, OverOK
      <3>2. CASE ~l_ProcessSendFile
        BY <1>1, <3>2, LastCall
      <3> QED
        BY <3>1, <3>2
    <2> QED
      BY <1>1, <2>1 DEF TransferInv
  <1>3. CASE SendMessage
    BY <1>1, <1>2, <1>3, DataSend
  <1>4. CASE LeaveLoop
    BY <1>1, <1>2, <1>4, LeaveFacts, DataQuiet DEF LeaveLoop, cmdVars, firmwareVars
  <1>5. CASE CallFails
    <2>1. UNCHANGED <<fileVars, serving, requests, messages>>
      BY <1>5, Numbers, CallFacts DEF CallFails, firmwareVars, SEND
    <2> QED
      BY <1>1, <1>2, <1>5, <2>1, FailFacts, DataQuiet
  <1>6. CASE CallReturns
    BY <1>1, <1>2, <1>6, DataReturn
  <1>7. CASE CallStep \/ (Lose /\ C!LoseResponse)
    <2>1. UNCHANGED <<fileVars, serving, requests, messages>>
      BY <1>7, QuietSteps DEF CallStep, Lose, firmwareVars, dialogVars
    <2>2. lost' = 0 => lost = 0
      BY HistoryKept, Numbers
    <2> QED
      BY <1>1, <1>2, <1>7, <2>1, <2>2, QuietSteps, AnswerKept, DataQuiet
  <1>8. CASE l_ProcessSendFile
    BY <1>1, <1>2, <1>8, DataServe
  <1>9. CASE StoreStep
    BY <1>1, <1>2, <1>9, DataStore
  <1>10. CASE SendAnswer
    BY <1>1, <1>2, <1>10, DataAnswer
  <1>11. CASE Lose /\ ~serving /\ C!LoseRequest
    BY <1>1, <1>2, <1>11, DataLose
  <1>12. CASE UNCHANGED vars
    <2>1. UNCHANGED <<fileVars, serving, requests, messages>>
      BY <1>12 DEF vars, firmwareVars, dialogVars, cmdVars
    <2>2. AnsweredLast' = AnsweredLast /\ lost' = lost
      BY <1>12 DEF vars, cmdVars, AnsweredLast
    <2> QED
      BY <1>1, <1>2, <1>12, <2>1, <2>2, QuietSteps, DataQuiet
  <1> QED
    BY <1>3, <1>4, <1>5, <1>6, <1>7, <1>8, <1>9, <1>10, <1>11, <1>12 DEF Next, Lose

LEMMA TransferNext == ~DeviceFaults /\ TypeInv /\ TransferInv /\ [Next]_vars => TransferInv'
  <1> SUFFICES ASSUME ~DeviceFaults, TypeInv, TransferInv, [Next]_vars PROVE TransferInv'
    OBVIOUS
  <1>1. ThreadOK'
    BY ThreadNext DEF TransferInv
  <1>2. FirmwareOK'
    BY FirmwareNext DEF TransferInv
  <1>3. Accounted' => QueueOK'
    BY QueueNext DEF TransferInv
  <1>4. Accounted' /\ ~Finalized' => DataOK'
    BY DataNext
  <1>5. Accounted' /\ Finalized' => OverOK'
    BY OverNext
  <1> QED
    BY <1>1, <1>2, <1>3, <1>4, <1>5 DEF TransferInv

LEMMA TransferInit == Init => TransferInv
  <1> SUFFICES ASSUME Init PROVE TransferInv
    OBVIOUS
  <1>1. TypeInv /\ N = 0 /\ requests = <<>>
    <2>1. TypeInv /\ requests = <<>>
      BY TypeInit DEF Init, C!Init
    <2> QED
      BY <2>1, Numbers
  <1>2. ~Busy /\ phase = "reset" /\ index = 0 /\ messages = <<>>
    BY DEF Init, C!Init, Busy, SEND
  <1>3. ThreadOK
    BY <1>2 DEF ThreadOK
  <1>4. F!Idle /\ call.status = ACK_OK /\ ~serving /\ ~Finalized
    BY DEF Init, F!Init, F!NoCall, F!OK, F!Idle, F!Running, ACK_OK, Finalized
  <1>5. FirmwareOK
    BY <1>4 DEF FirmwareOK, Init
  <1>6. QueueOK
    BY <1>1 DEF QueueOK
  <1>7. DataOK
    <2>1. FP!Clean
      BY DEF Init, F!Init, FP!Clean, F!FILE_DATA_PAGE
    <2>2. Upcoming = Reset
      BY DEF Init, Upcoming, ACK_OK
    <2>3. Ready(Reset)
      BY AfterFacts, ScriptFacts DEF Ready, Saved
    <2> QED
      BY <1>1, <1>2, <1>4, <2>1, <2>2, <2>3 DEF DataOK
  <1> QED
    BY <1>3, <1>4, <1>5, <1>6, <1>7 DEF TransferInv

\* When the firmware comes to its first FINALIZE message the image is on the
\* device, to the last byte of a half-filled page: whatever is lost or late, but
\* not both, and on a device that does not fail.
THEOREM ImageSaved == ASSUME ~DeviceFaults PROVE Spec => ImageSavedBeforeFinalize
  <1> DEFINE Handled == /\ l_ProcessSendFile
                        /\ Arrived = [index |-> SEND_FILE_FINALIZE_INDEX, data |-> <<>>]
                        /\ call.op # "File_finalize"
                        /\ ~(late /\ lost > 0)
             OnTheDevice == \A a \in 0..(Len(Image) - 1) : Stored(a) = Image[a + 1]
  <1>1. TypeInv /\ TransferInv => (Handled => OnTheDevice)
    <2> SUFFICES ASSUME TypeInv, TransferInv, Handled PROVE OnTheDevice
      OBVIOUS
    <2>1. requests # <<>> /\ ~serving /\ M(1) = Finalize /\ N >= 1
      BY HeadFacts DEF l_ProcessSendFile, Finalize
    <2>2. DataOK
      BY DEF TransferInv, Accounted, Finalized
    <2>3. Ready(Finalize) /\ FP!Clean /\ FP!TypeOK
      BY <2>1, <2>2, Numbers DEF DataOK
    <2>4. F!View = eeprom
      <3>1. ~FileBufferDirty
        BY <2>3 DEF Ready
      <3>2. FP!View = eeprom
        BY <2>3, <3>1, StoreAssumed, FP!CleanView
      <3> QED
        BY <3>2 DEF F!View, FP!View
    <2>5. Saved(Len(Image))
      BY <2>3, AfterFacts DEF Ready
    <2> QED
      BY <2>4, <2>5 DEF Saved, FP!Byte, Stored
  <1>2. TypeInv /\ TransferInv /\ [Next]_vars => TransferInv'
    BY TransferNext
  <1>3. TypeInv /\ [Next]_vars => TypeInv'
    BY TransferTypeNext
  <1>4. Spec => []TypeInv /\ []TransferInv
    BY <1>2, <1>3, TypeInit, TransferInit, PTL DEF Spec
  <1>5. Spec => [][Handled => OnTheDevice]_vars
    BY <1>1, <1>4, PTL
  <1> QED
    BY <1>5 DEF ImageSavedBeforeFinalize
=============================================================================

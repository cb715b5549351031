--------------------------- MODULE Sensors_proofs ----------------------------
(* The sensors, at both ends of the wire.                                     *)
(*                                                                            *)
(* The list the dialog builds is the firmware's table, for any table, any     *)
(* number of clicks and any packets lost.  A thread waits for one answer at a *)
(* time, and the last index asked for is the one it is at (Calls).  While no  *)
(* call has timed out an answer is the one to the last request (Commander's   *)
(* Credit and SlotOrder), so that what is appended is the entry of that index *)
(* (Builds).  The threads cannot meet because the window sets a flag before   *)
(* it starts one and looks at both flags before it starts the other (Owners). *)
(*                                                                            *)
(* The values in the table keep their period on a clock that wraps, for every *)
(* length of the clock, of the periods and of the steps of the loop.  At each *)
(* place of the loop only so many steps have passed since the question was    *)
(* last answered with no (SinceBounded), so that the difference the code      *)
(* computes modulo the clock is the time that has really passed; and the      *)
(* values are at most one step older than that (AgeBounded).                  *)
EXTENDS SensorList, SensorManager, SequenceTheorems, TLAPS

-----------------------------------------------------------------------------
(* SensorList: definitions *)

CP == INSTANCE Commander_proofs WITH Commands <- {LIST, UPDATE}, Answered <- {LIST, UPDATE}

Commands == {LIST, UPDATE}

\* What Commander's proofs say of it.
CommanderInv == CP!TypeOK /\ CP!IInv /\ CP!Stored

BuilderRecords ==
    LET pcs == {"off", "name", "value", "end", "leave"} IN
    [pc : pcs, index : Nat, failedmessagecount : 0..FAIL_LIMIT]
        \cup [pc : pcs, index : Nat, failedmessagecount : 0..FAIL_LIMIT, name : Nat]

Shapes ==
    /\ builder \in BuilderRecords
    /\ builder.pc = "value" => /\ builder.name \in 0..(ALL_SENSORS - 1)
                               /\ builder.failedmessagecount = 0
    /\ updater \in [pc : {"off", "value"}, index : Nat, failedmessagecount : 0..FAIL_LIMIT]
    /\ asked \in [Commands -> Seq(Nat)]

\* The flags say which thread runs, and there is at most one.
Owners ==
    /\ m_BuildingSensorList <=> builder.pc # "off"
    /\ m_UpdatingSensorList <=> updater.pc # "off"
    /\ OneThreadOwnsTheList

\* Each call in progress is that of a thread, which has asked for the index it is at.
Calls ==
    /\ caller[LIST].pc # "idle" =>
          /\ builder.pc = "name" /\ builder.failedmessagecount < FAIL_LIMIT
          /\ sent[LIST] > 0 /\ asked[LIST][sent[LIST]] = builder.index
    /\ caller[UPDATE].pc # "idle" =>
          /\ builder.pc = "value" \/ (updater.pc = "value" /\ UpdateGoesOn)
          /\ sent[UPDATE] > 0
          /\ asked[UPDATE][sent[UPDATE]] = IF builder.pc = "value" THEN builder.index ELSE updater.index

\* While no call has timed out the list has grown up to the index the thread is at.
Builds ==
    Quiet =>
        /\ Len(m_SensorList) <= ALL_SENSORS
        /\ \A i \in 1..Len(m_SensorList) : m_SensorList[i] = [name |-> i - 1, val |-> i - 1]
        /\ builder.pc \in {"name", "value"} =>
              /\ builder.index = Len(m_SensorList) /\ builder.failedmessagecount = 0
              /\ ~m_SensorListBuilt
        /\ builder.pc = "value" => builder.name = builder.index
        /\ builder.pc \in {"end", "leave"} \/ m_SensorListBuilt => Len(m_SensorList) = ALL_SENSORS

ListInv == TypeOK /\ Shapes /\ Owners /\ Calls /\ Builds

IInv == CommanderInv /\ ListInv

-----------------------------------------------------------------------------
(* Commander underneath *)

\* What Commander assumes of its commands holds of these two.
LEMMA Assumed == CP!CommandAssumption /\ CP!NoneAssumption
  BY SensorAssumption DEF CP!CommandAssumption, CP!NoneAssumption, LIST, UPDATE

LEMMA SameTypes == C!TypeOK <=> CP!TypeOK
  BY DEF C!TypeOK, CP!TypeOK, C!Packets, CP!Packets, C!NoPacket, CP!NoPacket

\* The steps of Commander are those of the module the proofs are about.
LEMMA SameSteps ==
    /\ C!Init => CP!Init
    /\ \A c \in Commands :
          /\ C!BuildAndSendPacket(c) => CP!BuildAndSendPacket(c)
          /\ C!PollHit(c) => CP!PollHit(c)
          /\ C!TimeOut(c) => CP!TimeOut(c)
          /\ C!ClearFlag(c) => CP!ClearFlag(c)
          /\ C!CopyLow(c) => CP!CopyLow(c)
          /\ C!CopyHigh(c) => CP!CopyHigh(c)
    /\ C!StoreLow => CP!StoreLow
    /\ C!StoreHigh => CP!StoreHigh
    /\ C!l_HandleCommand => CP!l_HandleCommand
    /\ C!LoseRequest => CP!LoseRequest
    /\ C!LoseResponse => CP!LoseResponse
  <1> USE DEF C!slotVars, CP!slotVars, C!netVars, CP!netVars, C!callVars, CP!callVars, C!NoPacket, CP!NoPacket,
              C!At, CP!At, C!GoTo, CP!GoTo, C!MutexFree, CP!MutexFree
  <1>1. C!Init => CP!Init
    BY DEF C!Init, CP!Init
  <1>2. ASSUME NEW c \in Commands
        PROVE  /\ C!BuildAndSendPacket(c) => CP!BuildAndSendPacket(c)
               /\ C!PollHit(c) => CP!PollHit(c)
               /\ C!TimeOut(c) => CP!TimeOut(c)
               /\ C!ClearFlag(c) => CP!ClearFlag(c)
               /\ C!CopyLow(c) => CP!CopyLow(c)
               /\ C!CopyHigh(c) => CP!CopyHigh(c)
    BY DEF C!BuildAndSendPacket, CP!BuildAndSendPacket, C!PollHit, CP!PollHit, C!TimeOut, CP!TimeOut,
           C!ClearFlag, CP!ClearFlag, C!CopyLow, CP!CopyLow, C!CopyHigh, CP!CopyHigh
  <1>3. /\ C!StoreLow => CP!StoreLow
        /\ C!StoreHigh => CP!StoreHigh
    BY DEF C!StoreLow, CP!StoreLow, C!StoreHigh, CP!StoreHigh
  <1>4. /\ C!l_HandleCommand => CP!l_HandleCommand
        /\ C!LoseRequest => CP!LoseRequest
        /\ C!LoseResponse => CP!LoseResponse
    BY DEF C!l_HandleCommand, CP!l_HandleCommand, C!LoseRequest, CP!LoseRequest, C!LoseResponse, CP!LoseResponse
  <1> QED
    BY <1>1, <1>2, <1>3, <1>4

\* A step of Commander, whoever takes it.
CommandStep ==
    \/ \E c \in Commands : C!BuildAndSendPacket(c) \/ C!PollHit(c) \/ C!TimeOut(c) \/ C!ClearFlag(c)
                           \/ C!CopyLow(c) \/ C!CopyHigh(c)
    \/ C!Listen \/ C!l_HandleCommand \/ C!LoseRequest \/ C!LoseResponse

LEMMA CommanderNext == CommanderInv /\ CommandStep => CommanderInv'
  <1>1. CommandStep => CP!Next
    BY SameSteps DEF CommandStep, CP!Next, CP!Call, CP!Listen, C!Listen, Commands
  <1> QED
    BY <1>1, Assumed, CP!StoredNext, CP!TypeNext, CP!InvNext DEF CommanderInv

LEMMA CommanderUnchanged == CommanderInv /\ UNCHANGED cmdVars => CommanderInv'
  <1>1. UNCHANGED cmdVars => UNCHANGED CP!cmdVars
    BY DEF cmdVars, CP!cmdVars, CP!netVars, CP!slotVars, CP!callVars
  <1> QED
    BY <1>1, Assumed, CP!StoredNext, CP!TypeNext, CP!InvNext DEF CommanderInv

LEMMA CommanderInit == C!Init => CommanderInv
  <1> SUFFICES ASSUME C!Init PROVE CommanderInv
    OBVIOUS
  <1>1. CP!IInv
    BY Assumed, SameSteps, CP!InvInit
  <1>2. CP!TypeOK
    BY DEF C!Init, C!NoPacket, CP!TypeOK, CP!NoPacket
  <1> QED
    BY <1>1, <1>2 DEF CommanderInv, CP!Stored, C!Init, Commands

-----------------------------------------------------------------------------
(* A call, as its thread sees it *)

\* The calls' histories have their types.
LEMMA CallTypes ==
    ASSUME CommanderInv
    PROVE  /\ C!TypeOK
           /\ sent \in [Commands -> Nat] /\ timeouts \in [Commands -> Nat]
           /\ \A c \in Commands : caller[c].pc \in CP!PCs
  BY SameTypes DEF CommanderInv, CP!TypeOK, CP!PCs, Commands

\* The request goes out.
LEMMA AskFacts ==
    ASSUME CommanderInv, Shapes, TypeOK, NEW c \in Commands, NEW index \in Nat, Ask(c, index)
    PROVE  /\ CommandStep /\ caller[c].pc = "idle" /\ UNCHANGED timeouts
           /\ \A d \in Commands : caller'[d].pc = IF d = c THEN "wait" ELSE caller[d].pc
           /\ \A d \in Commands : sent'[d] = IF d = c THEN sent[c] + 1 ELSE sent[d]
           /\ asked' \in [Commands -> Seq(Nat)]
           /\ \A d \in Commands : Len(asked'[d]) = sent'[d]
           /\ \A d \in Commands : d # c => asked'[d] = asked[d]
           /\ asked'[c][sent'[c]] = index
  <1> USE DEF Commands
  <1>1. CP!BuildAndSendPacket(c) /\ CommandStep
    BY SameSteps DEF Ask, CommandStep
  <1>2. \A d \in Commands : caller'[d].pc = IF d = c THEN "wait" ELSE caller[d].pc
    BY <1>1, Assumed, CP!GoToFacts DEF CommanderInv, CP!BuildAndSendPacket, CP!PCs
  <1>3. caller[c].pc = "idle" /\ UNCHANGED timeouts
    BY <1>1 DEF CP!BuildAndSendPacket, CP!At
  <1>4. sent \in [Commands -> Nat] /\ sent' = [sent EXCEPT ![c] = sent[c] + 1]
    BY <1>1, CallTypes DEF CP!BuildAndSendPacket
  <1>5. asked \in [Commands -> Seq(Nat)] /\ asked' = [asked EXCEPT ![c] = Append(asked[c], index)]
    BY DEF Ask, Shapes
  <1>6. Len(asked[c]) = sent[c] /\ \A d \in Commands : Len(asked[d]) = sent[d]
    BY DEF TypeOK
  <1>7. /\ Append(asked[c], index) \in Seq(Nat) /\ Len(Append(asked[c], index)) = sent[c] + 1
        /\ Append(asked[c], index)[sent[c] + 1] = index
    BY <1>5, <1>6
  <1> QED
    BY <1>1, <1>2, <1>3, <1>4, <1>5, <1>6, <1>7

\* It is given up.
LEMMA TimeOutFacts ==
    ASSUME CommanderInv, NEW c \in Commands, C!TimeOut(c)
    PROVE  /\ CommandStep /\ caller[c].pc = "wait" /\ UNCHANGED sent
           /\ \A d \in Commands : caller'[d].pc = IF d = c THEN "idle" ELSE caller[d].pc
           /\ ~Quiet'
  <1> USE DEF Commands
  <1>1. CP!TimeOut(c) /\ CommandStep
    BY SameSteps DEF CommandStep
  <1>2. \A d \in Commands : caller'[d].pc = IF d = c THEN "idle" ELSE caller[d].pc
    BY <1>1, Assumed, CP!GoToFacts DEF CommanderInv, CP!TimeOut, CP!PCs
  <1>3. timeouts'[c] = timeouts[c] + 1 /\ timeouts[c] \in Nat
    BY <1>1, CallTypes DEF CP!TimeOut
  <1>4. timeouts'[c] # 0
    BY <1>3
  <1> QED
    BY <1>1, <1>2, <1>4 DEF CP!TimeOut, CP!At, Quiet

\* It returns: an answer to one of the calls made, and while there was no timeout to
\* the last one.
LEMMA ReturnFacts ==
    ASSUME CommanderInv, Shapes, TypeOK, NEW c \in Commands, C!CopyHigh(c)
    PROVE  /\ CommandStep /\ caller[c].pc = "copyHigh" /\ UNCHANGED <<sent, timeouts>>
           /\ \A d \in Commands : caller'[d].pc = IF d = c THEN "idle" ELSE caller[d].pc
           /\ AnsweredIndex(c) \in Nat
           /\ Quiet => AnsweredIndex(c) = asked[c][sent[c]]
  <1> USE DEF Commands
  <1>1. CP!CopyHigh(c) /\ CommandStep
    BY SameSteps DEF CommandStep
  <1>2. caller[c].pc = "copyHigh" /\ UNCHANGED <<sent, timeouts>>
    BY <1>1 DEF CP!CopyHigh, CP!At
  <1>3. \A d \in Commands : caller'[d].pc = IF d = c THEN "idle" ELSE caller[d].pc
    BY <1>1 DEF CommanderInv, CP!TypeOK, CP!CopyHigh
  <1>4. got'[c].hi = m_CommandWaiting[c].hi
    BY <1>1 DEF CommanderInv, CP!TypeOK, CP!CopyHigh
  <1>5. /\ m_CommandWaiting[c].hi \in Nat /\ m_CommandWaiting[c].lo \in Nat /\ sent[c] \in Nat /\ timeouts[c] \in Nat
        /\ storing \in CP!Packets \cup {CP!NoPacket}
    BY DEF CommanderInv, CP!TypeOK
  <1>6. m_CommandWaiting[c].hi <= m_CommandWaiting[c].lo /\ m_CommandWaiting[c].lo <= sent[c]
    BY <1>5, Assumed DEF CommanderInv, CP!IInv, CP!SlotOrder, CP!Packets, CP!NoPacket
  <1>7. m_CommandWaiting[c].hi > 0
    BY <1>2 DEF CommanderInv, CP!Stored
  <1>8. sent[c] <= m_CommandWaiting[c].hi + timeouts[c]
    BY <1>2, <1>5 DEF CommanderInv, CP!IInv, CP!Credit, CP!Pending, CP!Flag
  <1>9. asked[c] \in Seq(Nat) /\ Len(asked[c]) = sent[c]
    BY DEF Shapes, TypeOK
  <1>10. got'[c].hi \in 1..Len(asked[c])
    BY <1>4, <1>5, <1>6, <1>7, <1>9
  <1>11. AnsweredIndex(c) \in Nat
    BY <1>9, <1>10 DEF AnsweredIndex
  <1>12. Quiet => got'[c].hi = sent[c]
    BY <1>4, <1>5, <1>6, <1>8 DEF Quiet
  <1> QED
    BY <1>1, <1>2, <1>3, <1>11, <1>12 DEF AnsweredIndex

\* Nobody is told of the other steps.
LEMMA OtherSteps ==
    ASSUME CommanderInv, CallStep \/ FirmwareStep \/ Lose
    PROVE  /\ CommandStep /\ UNCHANGED <<sent, timeouts>>
           /\ \A c \in Commands : caller'[c].pc = "idle" <=> caller[c].pc = "idle"
  <1> USE DEF Commands, CommanderInv
  <1>1. ASSUME NEW c \in Commands, C!PollHit(c) \/ C!ClearFlag(c)
        PROVE  /\ CommandStep /\ UNCHANGED <<sent, timeouts>>
               /\ \A d \in Commands : caller'[d].pc = "idle" <=> caller[d].pc = "idle"
    <2>1. CP!PollHit(c) \/ CP!ClearFlag(c)
      BY <1>1, SameSteps
    <2> QED
      BY <1>1, <2>1, Assumed, CP!GoToFacts DEF CommandStep, CP!PollHit, CP!ClearFlag, CP!At, CP!PCs
  <1>2. ASSUME NEW c \in Commands, C!CopyLow(c)
        PROVE  /\ CommandStep /\ UNCHANGED <<sent, timeouts>>
               /\ \A d \in Commands : caller'[d].pc = "idle" <=> caller[d].pc = "idle"
    <2>1. CP!CopyLow(c)
      BY <1>2, SameSteps
    <2> QED
      BY <1>2, <2>1 DEF CommandStep, CP!CopyLow, CP!At, CP!TypeOK
  <1>3. CASE C!Listen \/ C!l_HandleCommand \/ C!LoseRequest \/ C!LoseResponse
    BY <1>3 DEF CommandStep, C!Listen, C!StoreLow, C!StoreHigh, C!l_HandleCommand, C!LoseRequest, C!LoseResponse,
                C!callVars
  <1> QED
    BY <1>1, <1>2, <1>3 DEF CallStep, FirmwareStep, Lose

-----------------------------------------------------------------------------
(* The list *)

LEMMA TypesNext == CommanderInv' => C!TypeOK'
  BY DEF CommanderInv, C!TypeOK, CP!TypeOK, C!Packets, CP!Packets, C!NoPacket, CP!NoPacket

SensorItems == [name : 0..(ALL_SENSORS - 1), val : Nat]

\* The list as a sequence.
LEMMA ListFacts ==
    ASSUME TypeOK
    PROVE  m_SensorList \in Seq(SensorItems) /\ Len(m_SensorList) \in Nat
  BY DEF TypeOK, SensorItems

\* A button starts a thread only when neither runs.
LEMMA ButtonsKeep ==
    ASSUME CommanderInv, ListInv, OnBnClickedLstsnsbtn \/ OnBnClickedUpdatesnsbtn
    PROVE  ListInv'
  <1> USE SensorAssumption DEF ListInv, Click, NoThread, boundVars
  <1>1. UNCHANGED <<cmdVars, asked, lost>> /\ clicks' \in 0..MaxClicks
    <2>1. /\ UNCHANGED <<cmdVars, asked, lost>>
          /\ clicks < MaxClicks /\ clicks' = clicks + 1
      BY DEF OnBnClickedLstsnsbtn, OnBnClickedUpdatesnsbtn
    <2>2. clicks \in 0..MaxClicks
      BY DEF TypeOK
    <2> QED
      BY <2>1, <2>2
  <1>2. builder.pc = "off" /\ updater.pc = "off"
    BY DEF OnBnClickedLstsnsbtn, OnBnClickedUpdatesnsbtn, Owners
  <1>3. caller[LIST].pc = "idle" /\ caller[UPDATE].pc = "idle"
    BY <1>2 DEF Calls
  <1>4. C!TypeOK' /\ Quiet' = Quiet
    BY <1>1 DEF TypeOK, C!TypeOK, C!Packets, C!NoPacket, cmdVars, Quiet
  <1>5. CASE OnBnClickedLstsnsbtn
    <2>1. /\ m_SensorList' = <<>> /\ m_BuildingSensorList' = TRUE /\ m_SensorListBuilt' = FALSE
          /\ builder' = [pc |-> "name", index |-> 0, failedmessagecount |-> 0]
          /\ UNCHANGED <<m_UpdatingSensorList, updater>>
      BY <1>5 DEF OnBnClickedLstsnsbtn
    <2>2. TypeOK'
      <3>1. 0 \in 0..FAIL_LIMIT /\ UNCHANGED <<sent, asked, lost>>
        BY <1>1 DEF cmdVars
      <3>2. m_SensorList' \in Seq([name : 0..(ALL_SENSORS - 1), val : Nat])
        BY <2>1
      <3> QED
        BY <1>1, <1>4, <2>1, <3>1, <3>2 DEF TypeOK
    <2>3. Shapes' /\ Owners'
      BY <1>1, <1>2, <2>1 DEF Shapes, BuilderRecords, Owners, OneThreadOwnsTheList
    <2>4. Calls'
      BY <1>1, <1>3 DEF Calls, cmdVars
    <2>5. Builds'
      BY <2>1 DEF Builds
    <2> QED
      BY <2>2, <2>3, <2>4, <2>5
  <1>6. CASE OnBnClickedUpdatesnsbtn
    <2>1. /\ m_UpdatingSensorList' = TRUE
          /\ updater' = [pc |-> "value", index |-> 0, failedmessagecount |-> 0]
          /\ UNCHANGED <<m_SensorList, m_BuildingSensorList, m_SensorListBuilt, builder>>
      BY <1>6 DEF OnBnClickedUpdatesnsbtn
    <2>2. TypeOK'
      <3>1. 0 \in 0..FAIL_LIMIT /\ UNCHANGED <<sent, asked, lost>>
        BY <1>1 DEF cmdVars
      <3> QED
        BY <1>1, <1>4, <2>1, <3>1 DEF TypeOK
    <2>3. Shapes' /\ Owners'
      BY <1>1, <1>2, <2>1 DEF Shapes, BuilderRecords, Owners, OneThreadOwnsTheList
    <2>4. Calls'
      BY <1>1, <1>3 DEF Calls, cmdVars
    <2>5. Builds'
      BY <1>4, <2>1 DEF Builds
    <2> QED
      BY <2>2, <2>3, <2>4, <2>5
  <1> QED
    BY <1>5, <1>6

\* A thread asks for the index it is at.
LEMMA AskingKeeps ==
    ASSUME CommanderInv, CommanderInv', ListInv, AskName \/ AskFirstValue \/ AskValue
    PROVE  ListInv'
  <1> USE DEF ListInv, flagVars, threadVars, boundVars
  <1>1. UNCHANGED <<m_SensorList, flagVars, threadVars, boundVars>>
    BY DEF AskName, AskFirstValue, AskValue
  <1>2. PICK c \in Commands, index \in Nat :
            /\ Ask(c, index)
            /\ \/ c = LIST /\ builder.pc = "name" /\ builder.failedmessagecount < FAIL_LIMIT /\ index = builder.index
               \/ c = UPDATE /\ builder.pc = "value" /\ index = builder.index
               \/ c = UPDATE /\ updater.pc = "value" /\ UpdateGoesOn /\ index = updater.index
    BY DEF AskName, AskFirstValue, AskValue, Commands, Shapes, BuilderRecords
  <1> HIDE DEF ListInv
  <1>3. /\ UNCHANGED timeouts
        /\ \A d \in Commands : caller'[d].pc = IF d = c THEN "wait" ELSE caller[d].pc
        /\ \A d \in Commands : sent'[d] = IF d = c THEN sent[c] + 1 ELSE sent[d]
        /\ asked' \in [Commands -> Seq(Nat)]
        /\ \A d \in Commands : Len(asked'[d]) = sent'[d]
        /\ \A d \in Commands : d # c => asked'[d] = asked[d]
        /\ asked'[c][sent'[c]] = index
    BY <1>2, AskFacts DEF ListInv
  <1>4. TypeOK'
    BY <1>1, <1>3, TypesNext DEF ListInv, TypeOK, Commands
  <1>5. Shapes' /\ Owners'
    BY <1>1, <1>3 DEF ListInv, Shapes, Owners, OneThreadOwnsTheList
  <1>6. Calls'
    <2>1. sent[c] \in Nat /\ sent'[c] > 0
      BY <1>3, CallTypes
    <2>2. UpdateGoesOn' = UpdateGoesOn
      BY <1>1 DEF UpdateGoesOn
    <2>3. ~(builder.pc = "value" /\ updater.pc = "value") /\ LIST # UPDATE
      BY DEF ListInv, Owners, OneThreadOwnsTheList, LIST, UPDATE
    <2> QED
      BY <1>1, <1>2, <1>3, <2>1, <2>2, <2>3 DEF ListInv, Calls, Commands
  <1>7. Builds'
    BY <1>1, <1>3 DEF ListInv, Builds, Quiet
  <1> QED
    BY <1>4, <1>5, <1>6, <1>7 DEF ListInv

\* After a timeout nothing is claimed of the list any more.
LEMMA GivingUpKeeps ==
    ASSUME CommanderInv, CommanderInv', ListInv, NameTimesOut \/ FirstValueTimesOut \/ ValueTimesOut
    PROVE  ListInv'
  <1> USE DEF boundVars, flagVars
  <1>1. UNCHANGED <<m_SensorList, flagVars, asked, boundVars>>
    BY DEF NameTimesOut, FirstValueTimesOut, ValueTimesOut
  <1>2. PICK c \in Commands :
            /\ C!TimeOut(c)
            /\ \/ c = LIST /\ builder' = [builder EXCEPT !.failedmessagecount = @ + 1] /\ UNCHANGED updater
               \/ /\ c = UPDATE /\ builder.pc = "value" /\ builder' = NextName(builder) /\ UNCHANGED updater
               \/ /\ c = UPDATE /\ updater.pc = "value" /\ UNCHANGED builder
                  /\ updater' = [updater EXCEPT !.index = @ + 1, !.failedmessagecount = @ + 1]
    BY DEF NameTimesOut, FirstValueTimesOut, ValueTimesOut, Commands
  <1>3. /\ caller[c].pc = "wait" /\ UNCHANGED sent /\ ~Quiet'
        /\ \A d \in Commands : caller'[d].pc = IF d = c THEN "idle" ELSE caller[d].pc
    BY <1>2, TimeOutFacts
  <1>4. TypeOK' /\ Shapes' /\ Owners' /\ Calls'
    <2>0. TypeOK /\ Shapes /\ Owners /\ Calls /\ LIST # UPDATE
      BY DEF ListInv, LIST, UPDATE
    <2>1. CASE c = LIST
      <3>1. /\ builder' = [builder EXCEPT !.failedmessagecount = @ + 1] /\ UNCHANGED updater
            /\ builder.pc = "name" /\ builder.failedmessagecount < FAIL_LIMIT
        BY <1>2, <1>3, <2>0, <2>1 DEF Calls
      <3>2. builder' \in BuilderRecords /\ builder'.pc = "name" /\ builder'.failedmessagecount \in 0..FAIL_LIMIT
        <4>1. builder.failedmessagecount + 1 \in 0..FAIL_LIMIT
          BY <2>0, <3>1, SensorAssumption DEF TypeOK
        <4>2. builder \in BuilderRecords
          BY <2>0 DEF Shapes
        <4> QED
          BY <3>1, <4>1, <4>2 DEF BuilderRecords
      <3>3. caller[UPDATE].pc # "idle" => updater.pc = "value" /\ builder.pc = "name"
        BY <2>0, <3>1 DEF Calls
      <3>4. TypeOK' /\ Shapes'
        BY <1>1, <1>3, <2>0, <3>1, <3>2, TypesNext DEF TypeOK, Shapes
      <3>5. Owners' /\ Calls'
        BY <1>1, <1>3, <2>0, <2>1, <3>1, <3>2, <3>3 DEF Owners, OneThreadOwnsTheList, Calls, Commands, UpdateGoesOn
      <3> QED
        BY <3>4, <3>5
    <2>2. CASE c = UPDATE /\ builder.pc = "value" /\ builder' = NextName(builder) /\ UNCHANGED updater
      <3>1. builder' = [pc |-> "name", index |-> builder.index + 1, failedmessagecount |-> builder.failedmessagecount]
        BY <2>2 DEF NextName
      <3>2. builder.index \in Nat /\ builder.failedmessagecount \in 0..FAIL_LIMIT
        BY <2>0 DEF Shapes, BuilderRecords
      <3>3. builder' \in BuilderRecords
        BY <3>1, <3>2 DEF BuilderRecords
      <3>4. TypeOK' /\ Shapes'
        BY <1>1, <1>3, <2>0, <2>2, <3>1, <3>2, <3>3, TypesNext DEF TypeOK, Shapes
      <3>5. caller[LIST].pc = "idle"
        BY <2>0, <2>2 DEF Calls
      <3>6. Owners' /\ Calls'
        BY <1>1, <1>3, <2>0, <2>2, <3>1, <3>5 DEF Owners, OneThreadOwnsTheList, Calls, Commands
      <3> QED
        BY <3>4, <3>6
    <2>3. CASE /\ c = UPDATE /\ updater.pc = "value" /\ UNCHANGED builder
               /\ updater' = [updater EXCEPT !.index = @ + 1, !.failedmessagecount = @ + 1]
      <3>1. builder.pc = "off"
        BY <2>0, <2>3 DEF Owners, OneThreadOwnsTheList
      <3>2. updater.failedmessagecount < FAIL_LIMIT /\ caller[LIST].pc = "idle"
        BY <1>3, <2>0, <2>3, <3>1 DEF Calls, UpdateGoesOn
      <3>3. updater \in [pc : {"off", "value"}, index : Nat, failedmessagecount : 0..FAIL_LIMIT]
        BY <2>0 DEF Shapes
      <3>4. updater' \in [pc : {"off", "value"}, index : Nat, failedmessagecount : 0..FAIL_LIMIT]
            /\ updater'.pc = "value"
        <4>1. updater.failedmessagecount + 1 \in 0..FAIL_LIMIT /\ updater.index + 1 \in Nat
          BY <3>2, <3>3, SensorAssumption
        <4> QED
          BY <2>3, <3>3, <4>1
      <3>5. TypeOK' /\ Shapes'
        BY <1>1, <1>3, <2>0, <2>3, <3>4, TypesNext DEF TypeOK, Shapes
      <3>6. Owners' /\ Calls'
        BY <1>1, <1>3, <2>0, <2>3, <3>1, <3>2, <3>4 DEF Owners, OneThreadOwnsTheList, Calls, Commands
      <3> QED
        BY <3>5, <3>6
    <2> QED
      BY <1>2, <2>1, <2>2, <2>3
  <1>5. Builds'
    BY <1>3 DEF Builds
  <1> QED
    BY <1>4, <1>5 DEF ListInv

\* A name has come, and while there was no timeout it is that of the index asked for.
LEMMA NameKeeps ==
    ASSUME CommanderInv, CommanderInv', ListInv, NameReturns
    PROVE  ListInv'
  <1> DEFINE n == AnsweredIndex(LIST)
  <1>0. TypeOK /\ Shapes /\ Owners /\ Calls /\ Builds /\ LIST # UPDATE /\ {LIST, UPDATE} = Commands
    BY DEF ListInv, LIST, UPDATE, Commands
  <1>1. /\ caller[LIST].pc = "copyHigh" /\ UNCHANGED <<sent, timeouts>>
        /\ \A d \in Commands : caller'[d].pc = IF d = LIST THEN "idle" ELSE caller[d].pc
        /\ n \in Nat /\ (Quiet => n = asked[LIST][sent[LIST]])
    BY <1>0, ReturnFacts DEF NameReturns, Commands
  <1>2. UNCHANGED <<m_SensorList, flagVars, updater, asked, boundVars>>
    BY DEF NameReturns
  <1>3. builder' = [pc |-> IF n < ALL_SENSORS THEN "value" ELSE "end",
                    index |-> builder.index, failedmessagecount |-> 0, name |-> n]
    BY DEF NameReturns
  <1> HIDE DEF n
  <1>4. builder.pc = "name" /\ asked[LIST][sent[LIST]] = builder.index /\ builder.index \in Nat
    BY <1>0, <1>1 DEF Calls, Shapes, BuilderRecords
  <1>5. /\ builder'.pc = (IF n < ALL_SENSORS THEN "value" ELSE "end") /\ builder'.index = builder.index
        /\ builder'.failedmessagecount = 0 /\ builder'.name = n
        /\ builder' \in BuilderRecords
    BY <1>1, <1>3, <1>4, SensorAssumption DEF BuilderRecords
  <1>6. TypeOK'
    BY <1>0, <1>1, <1>2, <1>5, TypesNext, SensorAssumption DEF TypeOK, flagVars, boundVars
  <1>7. Shapes'
    <2>1. n < ALL_SENSORS => n \in 0..(ALL_SENSORS - 1)
      BY <1>1, SensorAssumption
    <2> QED
      BY <1>0, <1>2, <1>5, <2>1 DEF Shapes
  <1>8. Owners'
    BY <1>0, <1>2, <1>4, <1>5 DEF Owners, OneThreadOwnsTheList, flagVars
  <1>9. Calls'
    <2>1. caller[UPDATE].pc = "idle"
      BY <1>0, <1>4 DEF Calls, Owners, OneThreadOwnsTheList
    <2> QED
      BY <1>0, <1>1, <2>1 DEF Calls
  <1>10. Builds'
    <2>1. Quiet' = Quiet
      BY <1>1 DEF Quiet
    <2>2. Quiet => /\ n = builder.index /\ builder.index = Len(m_SensorList) /\ Len(m_SensorList) <= ALL_SENSORS
                   /\ ~m_SensorListBuilt
      BY <1>0, <1>1, <1>4 DEF Builds
    <2>3. Quiet /\ ~(n < ALL_SENSORS) => Len(m_SensorList) = ALL_SENSORS
      BY <1>0, <2>2, SensorAssumption, ListFacts
    <2> QED
      BY <1>0, <1>2, <1>5, <2>1, <2>2, <2>3 DEF Builds, flagVars
  <1> QED
    BY <1>6, <1>7, <1>8, <1>9, <1>10 DEF ListInv

\* A sensor is added under the name it was asked for.
LEMMA FirstValueKeeps ==
    ASSUME CommanderInv, CommanderInv', ListInv, FirstValueReturns
    PROVE  ListInv'
  <1> DEFINE v == AnsweredIndex(UPDATE)
             item == [name |-> builder.name, val |-> v]
  <1>0. TypeOK /\ Shapes /\ Owners /\ Calls /\ Builds /\ LIST # UPDATE /\ {LIST, UPDATE} = Commands
    BY DEF ListInv, LIST, UPDATE, Commands
  <1>1. /\ caller[UPDATE].pc = "copyHigh" /\ UNCHANGED <<sent, timeouts>>
        /\ \A d \in Commands : caller'[d].pc = IF d = UPDATE THEN "idle" ELSE caller[d].pc
        /\ v \in Nat /\ (Quiet => v = asked[UPDATE][sent[UPDATE]])
    BY <1>0, ReturnFacts DEF FirstValueReturns, Commands
  <1>2. /\ UNCHANGED <<flagVars, updater, asked, boundVars>>
        /\ m_SensorList' = Append(m_SensorList, item)
        /\ builder.pc = "value"
    BY DEF FirstValueReturns
  <1>3. builder' = [pc |-> "name", index |-> builder.index + 1, failedmessagecount |-> builder.failedmessagecount]
    BY DEF FirstValueReturns, NextName
  <1> HIDE DEF v
  <1>4. /\ builder.name \in 0..(ALL_SENSORS - 1) /\ builder.failedmessagecount = 0 /\ builder.index \in Nat
        /\ asked[UPDATE][sent[UPDATE]] = builder.index
    BY <1>0, <1>1, <1>2 DEF Shapes, Calls, BuilderRecords
  <1>5. /\ builder'.pc = "name" /\ builder'.index = builder.index + 1 /\ builder'.failedmessagecount = 0
        /\ builder' \in BuilderRecords
    BY <1>3, <1>4, SensorAssumption DEF BuilderRecords
  <1>6. /\ item \in SensorItems
        /\ m_SensorList \in Seq(SensorItems) /\ Len(m_SensorList) \in Nat
    BY <1>0, <1>1, <1>4, ListFacts DEF SensorItems
  <1> HIDE DEF item
  <1>7. /\ m_SensorList' \in Seq(SensorItems) /\ Len(m_SensorList') = Len(m_SensorList) + 1
        /\ m_SensorList'[Len(m_SensorList) + 1] = item
        /\ \A i \in 1..Len(m_SensorList) : m_SensorList'[i] = m_SensorList[i]
    BY <1>2, <1>6
  <1>8. TypeOK'
    BY <1>0, <1>1, <1>2, <1>5, <1>7, TypesNext, SensorAssumption DEF TypeOK, flagVars, boundVars, SensorItems
  <1>9. Shapes' /\ Owners'
    BY <1>0, <1>2, <1>5 DEF Shapes, Owners, OneThreadOwnsTheList, flagVars
  <1>10. Calls'
    BY <1>0, <1>1, <1>2, <1>5 DEF Calls
  <1>11. Builds'
    <2> SUFFICES ASSUME Quiet PROVE Builds'
      BY <1>1 DEF Builds, Quiet
    <2>1. /\ builder.index = Len(m_SensorList) /\ builder.name = builder.index /\ ~m_SensorListBuilt
          /\ \A i \in 1..Len(m_SensorList) : m_SensorList[i] = [name |-> i - 1, val |-> i - 1]
      BY <1>0, <1>2 DEF Builds
    <2>2. v = builder.index
      BY <1>1, <1>4
    <2>3. item = [name |-> Len(m_SensorList), val |-> Len(m_SensorList)]
      BY <2>1, <2>2 DEF item
    <2>4. Len(m_SensorList') <= ALL_SENSORS
      BY <1>4, <1>6, <1>7, <2>1, SensorAssumption
    <2>5. ASSUME NEW i \in 1..Len(m_SensorList') PROVE m_SensorList'[i] = [name |-> i - 1, val |-> i - 1]
      <3>1. CASE i = Len(m_SensorList) + 1
        <4>1. i - 1 = Len(m_SensorList)
          BY <1>6, <3>1
        <4> QED
          BY <1>7, <2>3, <3>1, <4>1
      <3>2. CASE i # Len(m_SensorList) + 1
        <4>1. i \in 1..Len(m_SensorList)
          BY <1>6, <1>7, <3>2
        <4> QED
          BY <1>7, <2>1, <4>1
      <3> QED
        BY <3>1, <3>2
    <2> QED
      BY <1>2, <1>5, <1>7, <2>1, <2>4, <2>5 DEF Builds, flagVars
  <1> QED
    BY <1>8, <1>9, <1>10, <1>11 DEF ListInv

\* A value is renewed in the place of the sensor it was asked for.
LEMMA ValueKeeps ==
    ASSUME CommanderInv, CommanderInv', ListInv, ValueReturns
    PROVE  ListInv'
  <1> DEFINE v == AnsweredIndex(UPDATE)
  <1>0. TypeOK /\ Shapes /\ Owners /\ Calls /\ Builds /\ LIST # UPDATE /\ {LIST, UPDATE} = Commands
    BY DEF ListInv, LIST, UPDATE, Commands
  <1>1. /\ caller[UPDATE].pc = "copyHigh" /\ UNCHANGED <<sent, timeouts>>
        /\ \A d \in Commands : caller'[d].pc = IF d = UPDATE THEN "idle" ELSE caller[d].pc
        /\ v \in Nat /\ (Quiet => v = asked[UPDATE][sent[UPDATE]])
    BY <1>0, ReturnFacts DEF ValueReturns, Commands
  <1>2. /\ UNCHANGED <<flagVars, builder, asked, boundVars>>
        /\ updater.pc = "value"
        /\ m_SensorList' = [m_SensorList EXCEPT ![updater.index + 1].val = v]
        /\ updater' = [updater EXCEPT !.index = @ + 1, !.failedmessagecount = 0]
    BY DEF ValueReturns
  <1> HIDE DEF v
  <1>3. builder.pc = "off" /\ caller[LIST].pc = "idle"
    BY <1>0, <1>2 DEF Owners, OneThreadOwnsTheList, Calls
  <1>4. updater.index < Len(m_SensorList) /\ asked[UPDATE][sent[UPDATE]] = updater.index
    BY <1>0, <1>1, <1>3 DEF Calls, UpdateGoesOn
  <1>5. updater \in [pc : {"off", "value"}, index : Nat, failedmessagecount : 0..FAIL_LIMIT]
    BY <1>0 DEF Shapes
  <1>6. /\ updater' \in [pc : {"off", "value"}, index : Nat, failedmessagecount : 0..FAIL_LIMIT]
        /\ updater'.pc = "value"
    <2>1. 0 \in 0..FAIL_LIMIT /\ updater.index + 1 \in Nat
      BY <1>5, SensorAssumption
    <2> QED
      BY <1>2, <1>5, <2>1
  <1> DEFINE j == updater.index + 1
             item == [m_SensorList[j] EXCEPT !.val = v]
  <1>7. j \in 1..Len(m_SensorList) /\ m_SensorList \in Seq(SensorItems) /\ Len(m_SensorList) \in Nat
    BY <1>0, <1>4, <1>5, ListFacts
  <1>8. m_SensorList' = [m_SensorList EXCEPT ![j] = item]
    BY <1>2
  <1> HIDE DEF j
  <1>9. m_SensorList[j] \in SensorItems
    BY <1>7
  <1>10. item \in SensorItems /\ item.val = v /\ item.name = m_SensorList[j].name
    BY <1>1, <1>9 DEF SensorItems
  <1> HIDE DEF item
  <1>11. /\ m_SensorList' \in Seq(SensorItems) /\ Len(m_SensorList') = Len(m_SensorList)
         /\ \A i \in 1..Len(m_SensorList) : m_SensorList'[i] = IF i = j THEN item ELSE m_SensorList[i]
    BY <1>7, <1>8, <1>10
  <1>12. TypeOK'
    BY <1>0, <1>1, <1>2, <1>6, <1>11, TypesNext, SensorAssumption DEF TypeOK, flagVars, boundVars, SensorItems
  <1>13. Shapes' /\ Owners'
    BY <1>0, <1>2, <1>6 DEF Shapes, Owners, OneThreadOwnsTheList, flagVars
  <1>14. Calls'
    BY <1>0, <1>1, <1>3 DEF Calls
  <1>15. Builds'
    <2> SUFFICES ASSUME Quiet PROVE Builds'
      BY <1>1 DEF Builds, Quiet
    <2>1. v = j - 1
      BY <1>1, <1>4, <1>5 DEF j
    <2>2. m_SensorList[j] = [name |-> j - 1, val |-> j - 1]
      BY <1>0, <1>7 DEF Builds
    <2>3. item = m_SensorList[j]
      BY <2>1, <2>2 DEF item
    <2>4. \A i \in 1..Len(m_SensorList) : m_SensorList'[i] = m_SensorList[i]
      BY <1>11, <2>3
    <2> QED
      BY <1>0, <1>2, <1>3, <1>11, <2>4 DEF Builds, flagVars
  <1> QED
    BY <1>12, <1>13, <1>14, <1>15 DEF ListInv

\* A thread comes to its end.
LEMMA EndingKeeps ==
    ASSUME CommanderInv, CommanderInv', ListInv, ListGivenUp \/ ListBuilt \/ BuilderLeaves \/ UpdaterLeaves
    PROVE  ListInv'
  <1> USE DEF NoThread
  <1>0. TypeOK /\ Shapes /\ Owners /\ Calls /\ Builds /\ LIST # UPDATE /\ {LIST, UPDATE} = Commands
    BY DEF ListInv, LIST, UPDATE, Commands
  <1>1. UNCHANGED <<requests, responses, m_CommandWaiting, storing, caller, sent, timeouts, got>>
    BY DEF ListGivenUp, ListBuilt, BuilderLeaves, UpdaterLeaves, cmdVars
  <1>2. UNCHANGED <<m_SensorList, asked, lost, clicks>>
    BY DEF ListGivenUp, ListBuilt, BuilderLeaves, UpdaterLeaves, boundVars
  <1>3. Quiet' = Quiet
    BY <1>1 DEF Quiet
  <1>4. \/ UNCHANGED updater /\ builder.pc # "off"
        \/ UNCHANGED builder /\ updater.pc # "off"
    BY DEF ListGivenUp, ListBuilt, BuilderLeaves, UpdaterLeaves
  <1>5. TypeOK' /\ Shapes'
    <2>1. 0 \in 0..FAIL_LIMIT
      BY SensorAssumption
    <2>2. \/ UNCHANGED builder
          \/ builder' \in [pc : {"off", "end", "leave"}, index : {0}, failedmessagecount : {0}]
      BY DEF ListGivenUp, ListBuilt, BuilderLeaves, UpdaterLeaves
    <2>3. \/ UNCHANGED updater
          \/ updater' = NoThread
      BY DEF ListGivenUp, ListBuilt, BuilderLeaves, UpdaterLeaves
    <2>4. /\ m_BuildingSensorList' \in BOOLEAN /\ m_UpdatingSensorList' \in BOOLEAN
          /\ m_SensorListBuilt' \in BOOLEAN
      BY <1>0 DEF TypeOK, ListGivenUp, ListBuilt, BuilderLeaves, UpdaterLeaves, flagVars
    <2>5. Shapes'
      BY <1>0, <1>2, <2>1, <2>2, <2>3 DEF Shapes, BuilderRecords
    <2>6. TypeOK'
      BY <1>0, <1>1, <1>2, <2>1, <2>2, <2>3, <2>4, TypesNext DEF TypeOK
    <2> QED
      BY <2>5, <2>6
  <1>6. Owners'
    BY <1>0 DEF Owners, OneThreadOwnsTheList, ListGivenUp, ListBuilt, BuilderLeaves, UpdaterLeaves, flagVars
  <1>7. Calls'
    <2>1. CASE ListGivenUp \/ ListBuilt \/ BuilderLeaves
      <3>1. caller[LIST].pc = "idle" /\ caller[UPDATE].pc = "idle"
        BY <1>0, <2>1 DEF Calls, Owners, OneThreadOwnsTheList, ListGivenUp, ListBuilt, BuilderLeaves, C!At
      <3> QED
        BY <1>0, <1>1, <3>1 DEF Calls
    <2>2. CASE UpdaterLeaves
      <3>1. caller[LIST].pc = "idle" /\ caller[UPDATE].pc = "idle"
        BY <1>0, <2>2 DEF Calls, Owners, OneThreadOwnsTheList, UpdaterLeaves, C!At
      <3> QED
        BY <1>0, <1>1, <3>1 DEF Calls
    <2> QED
      BY <2>1, <2>2
  <1>8. Builds'
    <2>1. CASE ListGivenUp
      <3>1. ~Quiet
        BY <1>0, <2>1, SensorAssumption DEF Builds, ListGivenUp
      <3> QED
        BY <1>3, <3>1 DEF Builds
    <2>2. CASE ListBuilt \/ BuilderLeaves \/ UpdaterLeaves
      BY <1>0, <1>2, <1>3, <2>2 DEF Builds, ListBuilt, BuilderLeaves, UpdaterLeaves
    <2> QED
      BY <2>1, <2>2
  <1> QED
    BY <1>5, <1>6, <1>7, <1>8 DEF ListInv

\* The rest of Commander and the firmware leave the list alone.
LEMMA OthersKeep ==
    ASSUME CommanderInv, CommanderInv', ListInv, CallStep \/ FirmwareStep \/ Lose
    PROVE  ListInv'
  <1>0. TypeOK /\ Shapes /\ Owners /\ Calls /\ Builds /\ {LIST, UPDATE} = Commands
    BY DEF ListInv, Commands
  <1>1. /\ UNCHANGED <<sent, timeouts>>
        /\ \A c \in Commands : caller'[c].pc = "idle" <=> caller[c].pc = "idle"
    BY OtherSteps
  <1>2. UNCHANGED <<m_SensorList, flagVars, builder, updater, asked, clicks>>
    BY DEF CallStep, FirmwareStep, Lose, threadVars, boundVars
  <1>3. lost' \in 0..MaxLost
    <2>1. lost \in 0..MaxLost
      BY <1>0 DEF TypeOK
    <2>2. lost' = lost \/ (lost < MaxLost /\ lost' = lost + 1)
      BY DEF CallStep, FirmwareStep, Lose, boundVars
    <2> QED
      BY <2>1, <2>2, SensorAssumption
  <1>4. TypeOK'
    BY <1>0, <1>1, <1>2, <1>3, TypesNext DEF TypeOK, flagVars
  <1>5. Shapes' /\ Owners'
    BY <1>0, <1>2 DEF Shapes, Owners, OneThreadOwnsTheList, flagVars
  <1>6. Calls'
    BY <1>0, <1>1, <1>2 DEF Calls, UpdateGoesOn
  <1>7. Builds'
    BY <1>0, <1>1, <1>2 DEF Builds, Quiet, flagVars
  <1> QED
    BY <1>4, <1>5, <1>6, <1>7 DEF ListInv

-----------------------------------------------------------------------------
(* The theorems about the list *)

\* A step of the list is a step of Commander, or none.
LEMMA StepsOfCommander ==
    ASSUME CommanderInv, ListInv, Next
    PROVE  CommandStep \/ UNCHANGED cmdVars
  BY DEF Next, OnBnClickedLstsnsbtn, OnBnClickedUpdatesnsbtn, Click, BuildSensorList, UpdateSensorList, CallStep,
         FirmwareStep, Lose, AskName, NameTimesOut, NameReturns, AskFirstValue, FirstValueTimesOut,
         FirstValueReturns, ListGivenUp, ListBuilt, BuilderLeaves, AskValue, ValueTimesOut, ValueReturns,
         UpdaterLeaves, Ask, CommandStep, Commands

LEMMA Initially == Init => IInv
  <1> SUFFICES ASSUME Init PROVE IInv
    OBVIOUS
  <1> USE SensorAssumption DEF Init, NoThread
  <1>1. CommanderInv
    BY CommanderInit
  <1>2. /\ sent = [c \in Commands |-> 0] /\ caller = [c \in Commands |-> [pc |-> "idle", lo |-> 0]]
    BY DEF C!Init, Commands
  <1>3. TypeOK
    <2>1. C!TypeOK
      BY <1>1, SameTypes DEF CommanderInv
    <2>2. 0 \in 0..FAIL_LIMIT /\ 0 \in 0..MaxLost /\ 0 \in 0..MaxClicks
      OBVIOUS
    <2>3. m_SensorList \in Seq([name : 0..(ALL_SENSORS - 1), val : Nat])
      OBVIOUS
    <2>4. \A c \in {LIST, UPDATE} : Len(asked[c]) = sent[c]
      BY <1>2 DEF Commands
    <2> QED
      BY <2>1, <2>2, <2>3, <2>4 DEF TypeOK
  <1>4. Shapes /\ Owners /\ Calls
    BY <1>2 DEF Shapes, BuilderRecords, Owners, OneThreadOwnsTheList, Calls, Commands
  <1>5. Builds
    BY DEF Builds
  <1> QED
    BY <1>1, <1>3, <1>4, <1>5 DEF IInv, ListInv

LEMMA Preserved == IInv /\ [Next]_vars => IInv'
  <1> SUFFICES ASSUME IInv, [Next]_vars PROVE IInv'
    OBVIOUS
  <1>1. CommanderInv /\ ListInv
    BY DEF IInv
  <1>2. CASE Next
    <2>1. CommanderInv'
      BY <1>1, <1>2, StepsOfCommander, CommanderNext, CommanderUnchanged
    <2>2. ListInv'
      BY <1>1, <1>2, <2>1, ButtonsKeep, AskingKeeps, GivingUpKeeps, NameKeeps, FirstValueKeeps, ValueKeeps,
         EndingKeeps, OthersKeep
      DEF Next, BuildSensorList, UpdateSensorList
    <2> QED
      BY <2>1, <2>2 DEF IInv
  <1>3. CASE UNCHANGED vars
    <2>1. UNCHANGED cmdVars
      BY <1>3 DEF vars
    <2>2. CommanderInv'
      BY <1>1, <2>1, CommanderUnchanged
    <2>3. TypeOK'
      BY <1>1, <1>3, <2>1, <2>2, TypesNext DEF ListInv, TypeOK, vars, cmdVars, flagVars, threadVars, boundVars
    <2>4. Shapes' /\ Owners' /\ Calls' /\ Builds'
      BY <1>1, <1>3, <2>1 DEF ListInv, Shapes, Owners, OneThreadOwnsTheList, Calls, Builds, UpdateGoesOn, Quiet,
                              vars, cmdVars, flagVars, threadVars, boundVars
    <2> QED
      BY <2>2, <2>3, <2>4 DEF IInv, ListInv
  <1> QED
    BY <1>2, <1>3

LEMMA Invariant == Spec => []IInv
  BY Initially, Preserved, PTL DEF Spec

\* The two threads' fields keep their types; asked has an entry for each call.
THEOREM ListTypes == Spec => []TypeOK
  <1>1. IInv => TypeOK
    BY DEF IInv, ListInv
  <1> QED
    BY <1>1, Invariant, PTL

\* BuildSensorList and UpdateSensorList never run at once: the flags that the
\* window sets and the threads clear without a lock keep them apart.
THEOREM ThreadsTakeTurns == Spec => []OneThreadOwnsTheList
  <1>1. IInv => OneThreadOwnsTheList
    BY DEF IInv, ListInv, Owners
  <1> QED
    BY <1>1, Invariant, PTL

\* Without a timeout m_SensorList is what the firmware's table says, in its order,
\* whatever the table's size and however often it is built and refreshed.
THEOREM ListFollowsTable == Spec => []ListIsTheTable
  <1>1. IInv => ListIsTheTable
    BY DEF IInv, ListInv, Builds, ListIsTheTable
  <1> QED
    BY <1>1, Invariant, PTL

-----------------------------------------------------------------------------
(* SensorManager: definitions *)

\* The clock has wrapped at most twice since the time was stored.
Wrapped ==
    /\ l_LastUpdateTime \in 0..(CLOCK - 1)
    /\ \/ l_LastUpdateTime = clock - since
       \/ l_LastUpdateTime = clock - since + CLOCK
       \/ l_LastUpdateTime = clock - since + 2 * CLOCK

\* Where the loop may start with the question unanswered for so long.
Horizon == IF MaxSetupTime > LongestPeriod THEN MaxSetupTime ELSE LongestPeriod

SinceBounded ==
    /\ at = "Server_Update" => since <= Horizon + spent
    /\ at = "SensorManager_Update" => since <= Horizon + StepTime + spent
    /\ at = "SensorManager_Poll" => since <= Horizon + 2 * StepTime + spent
    /\ at = "store" => since <= Horizon + 3 * StepTime + spent

AgeBounded ==
    /\ at # "store" => age <= since + StepTime
    /\ at = "Server_Update" => age <= LongestPeriod + StepTime + spent
    /\ at = "SensorManager_Update" => age <= LongestPeriod + 2 * StepTime + spent
    /\ at = "SensorManager_Poll" => age <= LongestPeriod + 3 * StepTime + spent
    /\ at = "store" => age <= spent

PollInv == PollTypeOK /\ Wrapped /\ SinceBounded /\ PollsKeepDistance /\ AgeBounded

-----------------------------------------------------------------------------
(* The clock *)

\* A number below n is not changed by what is taken off it in whole turns.
LEMMA Turns ==
    ASSUME NEW n \in Nat, NEW x \in 0..(n - 1)
    PROVE  x % n = x /\ (x - n) % n = x /\ (x - 2 * n) % n = x
  <1>1. x % n = x
    OBVIOUS
  <1>2. (x - n) % n = x
    OBVIOUS
  <1>3. (x - 2 * n) % n = x
    OBVIOUS
  <1> QED
    BY <1>1, <1>2, <1>3

\* One tick of the clock.
LEMMA NextTick ==
    ASSUME NEW n \in Nat, NEW x \in 0..(n - 1)
    PROVE  (x + 1) % n = IF x = n - 1 THEN 0 ELSE x + 1
  <1>1. CASE x = n - 1
    BY <1>1
  <1>2. CASE x # n - 1
    BY <1>2
  <1> QED
    BY <1>1, <1>2

-----------------------------------------------------------------------------
(* The polling *)

\* What the constants and the types say of each other.
LEMMA Numbers ==
    ASSUME PollTypeOK
    PROVE  /\ CLOCK \in Nat /\ StepTime \in Nat /\ LongestPeriod \in Nat /\ Horizon \in Nat
           /\ LongestPeriod <= Horizon /\ Horizon + 2 * StepTime < CLOCK
           /\ Horizon + 4 * StepTime < 2 * CLOCK
           /\ clock \in 0..(CLOCK - 1) /\ since \in Nat /\ age \in Nat \cup {-1}
           /\ spent \in 0..StepTime
           /\ l_UpdatePeriod \in 0..LongestPeriod
  BY PeriodAssumption DEF PollTypeOK, Horizon

LEMMA PollInitially == PollInit => PollInv
  <1> SUFFICES ASSUME PollInit PROVE PollInv
    OBVIOUS
  <1>1. clock \in 0..(CLOCK - 1) /\ (clock - since) % CLOCK = 0 /\ clock <= MaxSetupTime
    <2>1. CLOCK \in Nat /\ 0 \in 0..(CLOCK - 1)
      BY PeriodAssumption
    <2> QED
      BY <2>1, Turns, PeriodAssumption DEF PollInit
  <1>2. PollTypeOK
    BY <1>1, PeriodAssumption DEF PollInit, PollTypeOK, AllPeriods
  <1>3. Wrapped
    BY <1>1, PeriodAssumption DEF PollInit, Wrapped
  <1>4. SinceBounded /\ AgeBounded /\ PollsKeepDistance
    BY <1>1, PeriodAssumption DEF PollInit, SinceBounded, AgeBounded, PollsKeepDistance, Horizon
  <1> QED
    BY <1>2, <1>3, <1>4 DEF PollInv

\* Time passes.
LEMMA TickPreserves == PollInv /\ Tick => PollInv'
  <1> SUFFICES ASSUME PollInv, Tick PROVE PollInv'
    OBVIOUS
  <1> USE Numbers DEF PollInv
  <1>1. clock' \in 0..(CLOCK - 1) /\ (clock' = clock + 1 \/ clock' = clock + 1 - CLOCK)
    BY NextTick DEF Tick
  <1>2. since' \in Nat /\ age' \in Nat \cup {-1} /\ spent' \in 0..StepTime /\ since' = since + 1
        /\ spent' = spent + 1 /\ age' <= age + 1
    BY DEF Tick
  <1>3. SinceBounded'
    BY <1>2 DEF Tick, SinceBounded
  <1>4. AgeBounded'
    BY <1>2 DEF Tick, AgeBounded
  <1>5. since < 2 * CLOCK
    BY DEF SinceBounded, PollTypeOK
  <1>6. Wrapped'
    <2>1. l_LastUpdateTime' = l_LastUpdateTime /\ l_LastUpdateTime \in 0..(CLOCK - 1)
      BY DEF Tick, Wrapped, periodVars
    <2>2. CASE l_LastUpdateTime = clock - since
      BY <1>1, <1>2, <2>1, <2>2 DEF Wrapped
    <2>3. CASE l_LastUpdateTime = clock - since + CLOCK
      BY <1>1, <1>2, <2>1, <2>3 DEF Wrapped
    <2>4. CASE l_LastUpdateTime = clock - since + 2 * CLOCK
      BY <1>1, <1>2, <1>5, <2>1, <2>4 DEF Wrapped
    <2> QED
      BY <2>2, <2>3, <2>4 DEF Wrapped
  <1>7. l_LastUpdateTime' = (clock' - since') % CLOCK
    <2>1. /\ l_LastUpdateTime' % CLOCK = l_LastUpdateTime'
          /\ (l_LastUpdateTime' - CLOCK) % CLOCK = l_LastUpdateTime'
          /\ (l_LastUpdateTime' - 2 * CLOCK) % CLOCK = l_LastUpdateTime'
      BY <1>6, Turns DEF Wrapped
    <2>2. \/ clock' - since' = l_LastUpdateTime'
          \/ clock' - since' = l_LastUpdateTime' - CLOCK
          \/ clock' - since' = l_LastUpdateTime' - 2 * CLOCK
      BY <1>1, <1>2, <1>6 DEF Wrapped
    <2> QED
      BY <2>1, <2>2
  <1>8. PollTypeOK'
    BY <1>1, <1>2, <1>7 DEF Tick, PollTypeOK, periodVars
  <1>9. PollsKeepDistance'
    BY <1>2 DEF Tick, PollsKeepDistance, periodVars
  <1> QED
    BY <1>3, <1>4, <1>6, <1>8, <1>9

\* The question the code asks of the clock is answered by the time that has passed.
LEMMA DueIsPassed ==
    ASSUME PollInv, at = "SensorManager_Update"
    PROVE  Due <=> since > l_UpdatePeriod
  <1> USE Numbers DEF PollInv
  <1>1. since \in 0..(CLOCK - 1)
    BY DEF SinceBounded
  <1>2. since % CLOCK = since /\ (since - CLOCK) % CLOCK = since /\ (since - 2 * CLOCK) % CLOCK = since
    BY <1>1, Turns
  <1>3. \/ clock - l_LastUpdateTime = since
        \/ clock - l_LastUpdateTime = since - CLOCK
        \/ clock - l_LastUpdateTime = since - 2 * CLOCK
    BY DEF Wrapped
  <1>4. (clock - l_LastUpdateTime) % CLOCK = since
    BY <1>2, <1>3
  <1> QED
    BY <1>4 DEF Due

LEMMA LoopPreserves == PollInv /\ loop => PollInv'
  <1> SUFFICES ASSUME PollInv, loop PROVE PollInv'
    OBVIOUS
  <1> USE Numbers DEF PollInv
  <1>1. CASE Server_Update
    BY <1>1 DEF Server_Update, GoTo, periodVars, PollTypeOK, Wrapped, SinceBounded, AgeBounded, PollsKeepDistance
  <1>2. CASE SensorManager_Update
    <2>1. CASE Due
      BY <1>2, <2>1, DueIsPassed
      DEF SensorManager_Update, GoTo, periodVars, PollTypeOK, Wrapped, SinceBounded, AgeBounded, PollsKeepDistance
    <2>2. CASE ~Due
      <3>1. since <= LongestPeriod
        BY <1>2, <2>2, DueIsPassed DEF SensorManager_Update
      <3> QED
        BY <1>2, <2>2, <3>1
        DEF SensorManager_Update, GoTo, periodVars, PollTypeOK, Wrapped, SinceBounded, AgeBounded, PollsKeepDistance
    <2> QED
      BY <2>1, <2>2
  <1>3. CASE SensorManager_Poll
    BY <1>3 DEF SensorManager_Poll, GoTo, periodVars, PollTypeOK, Wrapped, SinceBounded, AgeBounded, PollsKeepDistance
  <1>4. CASE StoreTime
    <2>1. (clock' - since') % CLOCK = clock
      BY <1>4, Turns DEF StoreTime
    <2> QED
      BY <1>4, <2>1 DEF StoreTime, GoTo, PollTypeOK, Wrapped, SinceBounded, AgeBounded, PollsKeepDistance
  <1> QED
    BY <1>1, <1>2, <1>3, <1>4 DEF loop

LEMMA MenuPreserves == PollInv /\ Menu_Update => PollInv'
  <1> SUFFICES ASSUME PollInv, Menu_Update PROVE PollInv'
    OBVIOUS
  <1> USE Numbers DEF PollInv
  <1>1. CASE SensorManager_SetUpdatePeriod
    BY <1>1 DEF SensorManager_SetUpdatePeriod, timeVars, AllPeriods,
                PollTypeOK, Wrapped, SinceBounded, AgeBounded, PollsKeepDistance
  <1>2. CASE ForcedPoll
    BY <1>2 DEF ForcedPoll, periodVars, PollTypeOK, Wrapped, SinceBounded, AgeBounded, PollsKeepDistance
  <1> QED
    BY <1>1, <1>2 DEF Menu_Update

\* The invariant is inductive.
LEMMA PollInvariant == PollSpec => []PollInv
  <1>1. PollInv /\ [PollNext]_sensorVars => PollInv'
    <2>1. PollInv /\ UNCHANGED sensorVars => PollInv'
      BY DEF sensorVars, timeVars, periodVars, PollInv, PollTypeOK, Wrapped, SinceBounded, AgeBounded,
             PollsKeepDistance
    <2> QED
      BY <2>1, TickPreserves, LoopPreserves, MenuPreserves DEF PollNext
  <1> QED
    BY PollInitially, <1>1, PTL DEF PollSpec

-----------------------------------------------------------------------------
(* The theorems about the polling *)

\* The types, and that l_LastUpdateTime shows the time that has passed.
THEOREM PollTypes == PollSpec => []PollTypeOK
  BY PollInvariant, PTL DEF PollInv

\* SensorManager_Update reads the sensors only when the period has really passed,
\* for every period of 16 bits and every start of the clock, wraps included.
THEOREM KeepsDistance == PollSpec => []PollsKeepDistance
  BY PollInvariant, PTL DEF PollInv

\* No wrap of the clock puts a reading off: once there are values they are at most
\* the longest period and four steps of the loop old.
THEOREM StaysFresh == PollSpec => []ValuesAreFresh
  <1>1. PollInv => ValuesAreFresh
    <2> SUFFICES ASSUME PollInv PROVE ValuesAreFresh
      OBVIOUS
    <2> QED
      BY Numbers DEF PollInv, PollTypeOK, AgeBounded, ValuesAreFresh
  <1> QED
    BY <1>1, PollInvariant, PTL
=============================================================================

------------------------------ MODULE SensorList -----------------------------
(* The sensor list of the dialog (PCMonitorGUIDlg.cpp): one thread builds it, *)
(* another refreshes its values, the window starts either; both go through    *)
(* Commander to the firmware's sensor handlers (Server.cpp).                  *)
(*                                                                            *)
(* A sensor is its index in the firmware's table; a reading is the index of   *)
(* the sensor it was taken from.                                              *)
EXTENDS Naturals, Sequences

CONSTANTS
    ALL_SENSORS,    \* sensors in the firmware's table
    FAIL_LIMIT,     \* calls without an answer in a row before a thread gives up (10)
    MaxCalls,       \* bound: calls made with each command
    MaxLost,        \* bound: packets lost
    MaxClicks       \* bound: clicks of the two buttons

ASSUME SensorAssumption ==
    /\ ALL_SENSORS \in Nat \ {0}
    /\ FAIL_LIMIT \in Nat \ {0}
    /\ MaxCalls \in Nat /\ MaxLost \in Nat /\ MaxClicks \in Nat

VARIABLES
    requests, responses, m_CommandWaiting, storing,
    caller, sent, timeouts, got,        \* Commander
    m_SensorList,
    m_BuildingSensorList, m_UpdatingSensorList, m_SensorListBuilt,
    builder,    \* the thread in BuildSensorList
    updater,    \* the thread in UpdateSensorList
    asked,      \* the index the n-th call with a command asked for
    lost,       \* history: packets lost
    clicks      \* history: clicks

LIST == "LIST_SENSORS"
UPDATE == "UPDATE_SENSOR"

C == INSTANCE Commander WITH Commands <- {LIST, UPDATE}, Answered <- {LIST, UPDATE}

cmdVars == <<requests, responses, m_CommandWaiting, storing, caller, sent, timeouts, got>>
flagVars == <<m_BuildingSensorList, m_UpdatingSensorList, m_SensorListBuilt>>
threadVars == <<builder, updater>>
boundVars == <<lost, clicks>>
vars == <<cmdVars, m_SensorList, flagVars, threadVars, asked, boundVars>>

NoThread == [pc |-> "off", index |-> 0, failedmessagecount |-> 0]

Init ==
    /\ C!Init
    /\ m_SensorList = <<>>
    /\ m_BuildingSensorList = FALSE
    /\ m_UpdatingSensorList = FALSE
    /\ m_SensorListBuilt = FALSE
    /\ builder = NoThread
    /\ updater = NoThread
    /\ asked = [c \in {LIST, UPDATE} |-> <<>>]
    /\ lost = 0
    /\ clicks = 0

-----------------------------------------------------------------------------
(* The window.  Both buttons join the last thread of their kind, whose last    *)
(* statement was to clear its flag.                                            *)

Click ==
    /\ clicks < MaxClicks
    /\ clicks' = clicks + 1
    /\ UNCHANGED <<cmdVars, asked, lost>>

OnBnClickedLstsnsbtn ==
    /\ Click
    /\ ~m_BuildingSensorList /\ ~m_UpdatingSensorList
    /\ m_SensorList' = <<>>
    /\ m_BuildingSensorList' = TRUE
    /\ m_SensorListBuilt' = FALSE
    /\ builder' = [NoThread EXCEPT !.pc = "name"]
    /\ UNCHANGED <<m_UpdatingSensorList, updater>>

\* Mutant of OnBnClickedUpdatesnsbtn: that a list is being built is not asked.
UpdateWhileBuilding ==
    /\ Click
    /\ ~m_UpdatingSensorList
    /\ m_UpdatingSensorList' = TRUE
    /\ updater' = [NoThread EXCEPT !.pc = "value"]
    /\ UNCHANGED <<m_SensorList, m_BuildingSensorList, m_SensorListBuilt, builder>>

OnBnClickedUpdatesnsbtn ==
    /\ Click
    /\ ~m_BuildingSensorList /\ ~m_UpdatingSensorList /\ m_SensorListBuilt
    /\ m_UpdatingSensorList' = TRUE
    /\ updater' = [NoThread EXCEPT !.pc = "value"]
    /\ UNCHANGED <<m_SensorList, m_BuildingSensorList, m_SensorListBuilt, builder>>

-----------------------------------------------------------------------------
(* Calls of Commander *)

Ask(c, index) ==
    /\ C!BuildAndSendPacket(c)
    /\ asked' = [asked EXCEPT ![c] = Append(@, index)]

\* The index the answer is to, which is not compared with the one asked for.
AnsweredIndex(c) == asked[c][got'[c].hi]

(* BuildSensorList *)

\* Mutant of AskName: one failure too many is allowed.
AskNameOnceMore ==
    /\ builder.pc = "name"
    /\ builder.failedmessagecount <= FAIL_LIMIT
    /\ Ask(LIST, builder.index)
    /\ UNCHANGED <<m_SensorList, flagVars, threadVars, boundVars>>

AskName ==
    /\ builder.pc = "name"
    /\ builder.failedmessagecount < FAIL_LIMIT
    /\ Ask(LIST, builder.index)
    /\ UNCHANGED <<m_SensorList, flagVars, threadVars, boundVars>>

NameTimesOut ==
    /\ C!TimeOut(LIST)
    /\ builder' = [builder EXCEPT !.failedmessagecount = @ + 1]
    /\ UNCHANGED <<m_SensorList, flagVars, updater, asked, boundVars>>

\* An empty name is the end of the list.
NameReturns ==
    /\ C!CopyHigh(LIST)
    /\ builder' = [pc |-> IF AnsweredIndex(LIST) < ALL_SENSORS THEN "value" ELSE "end",
                   index |-> builder.index, failedmessagecount |-> 0,
                   name |-> AnsweredIndex(LIST)]
    /\ UNCHANGED <<m_SensorList, flagVars, updater, asked, boundVars>>

AskFirstValue ==
    /\ builder.pc = "value"
    /\ Ask(UPDATE, builder.index)
    /\ UNCHANGED <<m_SensorList, flagVars, threadVars, boundVars>>

NextName(b) == [pc |-> "name", index |-> b.index + 1, failedmessagecount |-> b.failedmessagecount]

\* Without a first value the sensor is left out of the list, and this failure is
\* not counted.
FirstValueTimesOut ==
    /\ builder.pc = "value"
    /\ C!TimeOut(UPDATE)
    /\ builder' = NextName(builder)
    /\ UNCHANGED <<m_SensorList, flagVars, updater, asked, boundVars>>

\* Mutant of FirstValueReturns: the index is not moved on.
FirstValueKeepsIndex ==
    /\ builder.pc = "value"
    /\ C!CopyHigh(UPDATE)
    /\ m_SensorList' = Append(m_SensorList,
                              [name |-> builder.name, val |-> AnsweredIndex(UPDATE)])
    /\ builder' = [NextName(builder) EXCEPT !.index = builder.index]
    /\ UNCHANGED <<flagVars, updater, asked, boundVars>>

FirstValueReturns ==
    /\ builder.pc = "value"
    /\ C!CopyHigh(UPDATE)
    /\ m_SensorList' = Append(m_SensorList,
                              [name |-> builder.name, val |-> AnsweredIndex(UPDATE)])
    /\ builder' = NextName(builder)
    /\ UNCHANGED <<flagVars, updater, asked, boundVars>>

ListGivenUp ==
    /\ builder.pc = "name"
    /\ C!At(LIST, "idle")
    /\ builder.failedmessagecount >= FAIL_LIMIT
    /\ builder' = [NoThread EXCEPT !.pc = "end"]
    /\ UNCHANGED <<cmdVars, m_SensorList, flagVars, updater, asked, boundVars>>

ListBuilt ==
    /\ builder.pc = "end"
    /\ m_SensorListBuilt' = TRUE
    /\ builder' = [NoThread EXCEPT !.pc = "leave"]
    /\ UNCHANGED <<cmdVars, m_SensorList, m_BuildingSensorList, m_UpdatingSensorList,
                   updater, asked, boundVars>>

BuilderLeaves ==
    /\ builder.pc = "leave"
    /\ m_BuildingSensorList' = FALSE
    /\ builder' = NoThread
    /\ UNCHANGED <<cmdVars, m_SensorList, m_UpdatingSensorList, m_SensorListBuilt,
                   updater, asked, boundVars>>

(* UpdateSensorList *)

UpdateGoesOn ==
    updater.index < Len(m_SensorList) /\ updater.failedmessagecount < FAIL_LIMIT

AskValue ==
    /\ updater.pc = "value"
    /\ UpdateGoesOn
    /\ Ask(UPDATE, updater.index)
    /\ UNCHANGED <<m_SensorList, flagVars, threadVars, boundVars>>

\* The index moves on whether or not there was an answer.
ValueTimesOut ==
    /\ updater.pc = "value"
    /\ C!TimeOut(UPDATE)
    /\ updater' = [updater EXCEPT !.index = @ + 1, !.failedmessagecount = @ + 1]
    /\ UNCHANGED <<m_SensorList, flagVars, builder, asked, boundVars>>

ValueReturns ==
    /\ updater.pc = "value"
    /\ C!CopyHigh(UPDATE)
    /\ m_SensorList' = [m_SensorList EXCEPT ![updater.index + 1].val = AnsweredIndex(UPDATE)]
    /\ updater' = [updater EXCEPT !.index = @ + 1, !.failedmessagecount = 0]
    /\ UNCHANGED <<flagVars, builder, asked, boundVars>>

UpdaterLeaves ==
    /\ updater.pc = "value"
    /\ C!At(UPDATE, "idle")
    /\ ~UpdateGoesOn
    /\ m_UpdatingSensorList' = FALSE
    /\ updater' = NoThread
    /\ UNCHANGED <<cmdVars, m_SensorList, m_BuildingSensorList, m_SensorListBuilt,
                   builder, asked, boundVars>>

-----------------------------------------------------------------------------
(* The other steps of a call, the listener, and the firmware *)

CallStep ==
    /\ \/ \E c \in {LIST, UPDATE} : C!PollHit(c) \/ C!ClearFlag(c) \/ C!CopyLow(c)
       \/ C!Listen
    /\ UNCHANGED <<m_SensorList, flagVars, threadVars, asked, boundVars>>

\* l_ProcessSensorList and l_ProcessSensorUpdate answer every request with the
\* sensor of its index.
FirmwareStep ==
    /\ C!l_HandleCommand
    /\ UNCHANGED <<m_SensorList, flagVars, threadVars, asked, boundVars>>

Lose ==
    /\ lost < MaxLost
    /\ lost' = lost + 1
    /\ C!LoseRequest \/ C!LoseResponse
    /\ UNCHANGED <<m_SensorList, flagVars, threadVars, asked, clicks>>

BuildSensorList ==
    \/ AskName \/ NameTimesOut \/ NameReturns
    \/ AskFirstValue \/ FirstValueTimesOut \/ FirstValueReturns
    \/ ListGivenUp \/ ListBuilt \/ BuilderLeaves

UpdateSensorList == AskValue \/ ValueTimesOut \/ ValueReturns \/ UpdaterLeaves

Next ==
    \/ OnBnClickedLstsnsbtn
    \/ OnBnClickedUpdatesnsbtn
    \/ BuildSensorList
    \/ UpdateSensorList
    \/ CallStep
    \/ FirmwareStep
    \/ Lose

Spec == Init /\ [][Next]_vars

-----------------------------------------------------------------------------
(* Properties *)

Quiet == timeouts[LIST] = 0 /\ timeouts[UPDATE] = 0

\* Types, the shape of the list, and the call numbers behind asked.
TypeOK ==
    /\ C!TypeOK
    /\ m_SensorList \in Seq([name : 0..(ALL_SENSORS - 1), val : Nat])
    /\ m_BuildingSensorList \in BOOLEAN /\ m_UpdatingSensorList \in BOOLEAN
    /\ m_SensorListBuilt \in BOOLEAN
    /\ builder.pc \in {"off", "name", "value", "end", "leave"}
    /\ builder.failedmessagecount \in 0..FAIL_LIMIT
    /\ updater.pc \in {"off", "value"}
    /\ updater.failedmessagecount \in 0..FAIL_LIMIT
    /\ \A c \in {LIST, UPDATE} : Len(asked[c]) = sent[c]
    /\ lost \in 0..MaxLost
    /\ clicks \in 0..MaxClicks

\* The two threads never run at once, although the flags that keep them apart are
\* set by the window and cleared by the threads without a lock: otherwise both
\* would wait on the one slot of UPDATE_SENSOR, and the list would be emptied or
\* extended under the thread that walks it.
OneThreadOwnsTheList == builder.pc = "off" \/ updater.pc = "off"

\* As long as no call has timed out the list is a prefix of the firmware's table,
\* in its order and with each reading next to its own name; once it is built it
\* is the whole table.  Nothing compares the index in an answer with the one that
\* was asked for.
ListIsTheTable ==
    Quiet => /\ \A i \in 1..Len(m_SensorList) : m_SensorList[i] = [name |-> i - 1, val |-> i - 1]
             /\ m_SensorListBuilt => Len(m_SensorList) = ALL_SENSORS
==============================================================================

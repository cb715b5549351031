------------------------------- MODULE Window --------------------------------
(* The window of the GUI (PCMonitorGUIDlg.cpp): its buttons, its timer and    *)
(* its end, the threads it starts and joins, and the listener that Commander  *)
(* starts for each connection.  NetworkThread is the connection: its calls    *)
(* are made from here.  The work of the threads is SensorList and             *)
(* FileTransfer.                                                              *)
EXTENDS NetworkThread

CONSTANT MaxClicks      \* bound: threads started by a click, but for UpdateSensorList

ASSUME WindowAssumption == MaxClicks \in Nat

VARIABLES
    handler,        \* the handler the window is in
    checked,        \* m_ConnectedChkBox; the Connect button is enabled when it is not set
    busy,           \* m_BuildingSensorList, m_UpdatingSensorList, m_SendingFile
    m_SensorListBuilt,
    worker,         \* the three threads that do the work
    workerJoinable, \* their thread objects
    listener,       \* where PacketParsingThread is
    clicks          \* history: threads started by a click, but for UpdateSensorList

Workers == {"BuildSensorList", "UpdateSensorList", "SendFile"}

workerVars == <<busy, m_SensorListBuilt, worker, workerJoinable, clicks>>
windowVars == <<handler, checked>>
vars == <<networkVars, windowVars, workerVars, listener>>

\* OnInitDialog does not set m_SendingFile.
WindowInit ==
    /\ Init
    /\ handler = "idle"
    /\ checked = FALSE
    /\ busy \in [Workers -> BOOLEAN]
    /\ ~busy["BuildSensorList"] /\ ~busy["UpdateSensorList"]
    /\ m_SensorListBuilt = FALSE
    /\ worker = [w \in Workers |-> "off"]
    /\ workerJoinable = [w \in Workers |-> FALSE]
    /\ listener = "none"
    /\ clicks = 0

Enter(place) == handler' = place
NetworkIdle == frame.window = "idle"

-----------------------------------------------------------------------------
(* Connecting: OnBnClickedConnectbtn, Commander::StartListener *)

ClickConnect ==
    /\ handler = "idle" /\ ~checked
    /\ Connect
    /\ Enter("Connect")
    /\ UNCHANGED <<checked, workerVars, listener>>

Connected ==
    /\ handler = "Connect" /\ NetworkIdle
    /\ Enter(IF result THEN "StartListener" ELSE "status")
    /\ UNCHANGED <<networkVars, checked, workerVars, listener>>

\* Waits for the last listener to end.
StartListener ==
    /\ handler = "StartListener"
    /\ listener \in {"none", "ended"}
    /\ listener' = "loop"
    /\ Enter("lists")
    /\ UNCHANGED <<networkVars, checked, workerVars>>

\* The call of OnBnClickedLstsnsbtn, which returns at once because the box is
\* not set yet: the list is never built here.
ListOnConnect ==
    /\ handler = "lists"
    /\ ~checked
    /\ Enter("status")
    /\ UNCHANGED <<networkVars, checked, workerVars, listener>>

\* Mutant of ConnectionStatus: what Connect returned is not looked at.
StatusConnected ==
    /\ handler = "status"
    /\ checked' = TRUE
    /\ Enter("idle")
    /\ UNCHANGED <<networkVars, workerVars, listener>>

\* UpdateConnectionStatus(Connected())
ConnectionStatus ==
    /\ handler = "status"
    /\ checked' = ~m_Disconnected
    /\ Enter("idle")
    /\ UNCHANGED <<networkVars, workerVars, listener>>

-----------------------------------------------------------------------------
(* Disconnecting, the timer and the end *)

ClickDisconnect ==
    /\ handler = "idle" /\ checked
    /\ Disconnect("window")
    /\ Enter("Disconnect")
    /\ UNCHANGED <<checked, workerVars, listener>>

Disconnected ==
    /\ handler = "Disconnect" /\ NetworkIdle
    /\ checked' = FALSE
    /\ Enter("idle")
    /\ UNCHANGED <<networkVars, workerVars, listener>>

OnTimer ==
    /\ handler \in {"idle", "choosing"}
    /\ m_Disconnected /\ checked
    /\ checked' = FALSE
    /\ UNCHANGED <<networkVars, handler, workerVars, listener>>

OnClose ==
    /\ handler = "idle"
    /\ Disconnect("window")
    /\ Enter("OnClose")
    /\ UNCHANGED <<checked, workerVars, listener>>

\* The joins of OnClose, one after the other, then the end of the window.
CloseOrder == <<"BuildSensorList", "UpdateSensorList", "SendFile">>

JoinOnClose ==
    /\ handler = "OnClose" /\ NetworkIdle
    /\ \E i \in 1..3 :
          /\ workerJoinable[CloseOrder[i]]
          /\ \A j \in 1..(i - 1) : ~workerJoinable[CloseOrder[j]]
          /\ worker[CloseOrder[i]] = "off"
          /\ workerJoinable' = [workerJoinable EXCEPT ![CloseOrder[i]] = FALSE]
    /\ UNCHANGED <<networkVars, windowVars, busy, m_SensorListBuilt, worker, clicks, listener>>

\* The dialog is destroyed.  A thread object that is joinable then terminates the
\* process; nobody joins the last listener.
Destroy ==
    /\ handler = "OnClose" /\ NetworkIdle
    /\ \A w \in Workers : ~workerJoinable[w]
    /\ aborted' = (listener # "none" \/ \E h \in Handlers : joinable[h])
    /\ Enter("destroyed")
    /\ UNCHANGED <<m_NetworkSocket, flagVars, joinable, at, frame, connectVars, lines, startVars, failed,
                   checked, workerVars, listener>>

-----------------------------------------------------------------------------
(* The buttons that start a thread *)

Click == [w \in Workers |-> CASE w = "BuildSensorList" -> "click list"
                               [] w = "UpdateSensorList" -> "click update"
                               [] w = "SendFile" -> "click send"]
Start == [w \in Workers |-> CASE w = "BuildSensorList" -> "start list"
                               [] w = "UpdateSensorList" -> "start update"
                               [] w = "SendFile" -> "start send"]

MayStart(w) ==
    CASE w = "BuildSensorList"  -> ~busy["BuildSensorList"] /\ ~busy["UpdateSensorList"]
      [] w = "UpdateSensorList" -> /\ ~busy["BuildSensorList"] /\ ~busy["UpdateSensorList"]
                                   /\ m_SensorListBuilt
      [] w = "SendFile"         -> ~busy["SendFile"]

ClickWorker(w) ==
    /\ handler = "idle" /\ checked
    /\ w = "BuildSensorList" => clicks < MaxClicks
    /\ MayStart(w)
    /\ Enter(Click[w])
    /\ UNCHANGED <<networkVars, checked, workerVars, listener>>

\* Mutant of JoinWorker: the thread that has ended is not joined.
SkipJoin(w) ==
    /\ handler = Click[w]
    /\ Enter(IF w = "SendFile" THEN "choosing" ELSE Start[w])
    /\ UNCHANGED <<networkVars, checked, workerVars, listener>>

\* The last thread of the kind is joined.  For a transfer a file is then chosen,
\* which the timer does not wait for.
JoinWorker(w) ==
    /\ handler = Click[w]
    /\ workerJoinable[w] => worker[w] = "off"
    /\ workerJoinable' = [workerJoinable EXCEPT ![w] = FALSE]
    /\ Enter(IF w = "SendFile" THEN "choosing" ELSE Start[w])
    /\ UNCHANGED <<networkVars, checked, busy, m_SensorListBuilt, worker, clicks, listener>>

ChooseFile ==
    /\ handler = "choosing"
    /\ (clicks < MaxClicks /\ Enter(Start["SendFile"])) \/ Enter("idle")
    /\ UNCHANGED <<networkVars, checked, workerVars, listener>>

\* The flag is set and the thread started.  A thread object that is still joinable
\* terminates the process.
StartWorker(w) ==
    /\ handler = Start[w]
    /\ aborted' = workerJoinable[w]
    /\ busy' = [busy EXCEPT ![w] = TRUE]
    /\ m_SensorListBuilt' = (m_SensorListBuilt /\ w # "BuildSensorList")
    /\ worker' = [worker EXCEPT ![w] = "runs"]
    /\ workerJoinable' = [workerJoinable EXCEPT ![w] = TRUE]
    /\ clicks' = IF w = "UpdateSensorList" THEN clicks ELSE clicks + 1
    /\ Enter("idle")
    /\ UNCHANGED <<m_NetworkSocket, flagVars, joinable, at, frame, connectVars, lines, startVars, failed,
                   checked, listener>>

-----------------------------------------------------------------------------
(* The other threads *)

\* Mutant of WorkerDone: the flag falls while the thread still works.
WorkerDoneEarly(w) ==
    /\ worker[w] = "runs"
    /\ busy' = [busy EXCEPT ![w] = FALSE]
    /\ m_SensorListBuilt' = (m_SensorListBuilt \/ w = "BuildSensorList")
    /\ UNCHANGED <<networkVars, windowVars, worker, workerJoinable, clicks, listener>>

\* The last thing a thread does is to clear its flag; what is left of it then takes
\* no time.
WorkerDone(w) ==
    /\ worker[w] = "runs"
    /\ worker' = [worker EXCEPT ![w] = "off"]
    /\ busy' = [busy EXCEPT ![w] = FALSE]
    /\ m_SensorListBuilt' = (m_SensorListBuilt \/ w = "BuildSensorList")
    /\ UNCHANGED <<networkVars, windowVars, workerJoinable, clicks, listener>>

\* The listener asks for the connection between two reads.
ListenerLooks ==
    /\ listener = "loop"
    /\ listener' = IF m_Disconnected THEN "ended" ELSE "reads"
    /\ UNCHANGED <<networkVars, windowVars, workerVars>>

ListenerReads ==
    /\ listener = "reads"
    /\ listener' = "loop"
    /\ UNCHANGED <<networkVars, windowVars, workerVars>>

-----------------------------------------------------------------------------
Buttons ==
    \/ ClickConnect \/ ClickDisconnect \/ OnClose
    \/ \E w \in Workers : ClickWorker(w)

InHandler ==
    \/ Connected \/ StartListener \/ ListOnConnect \/ ConnectionStatus
    \/ Disconnected \/ JoinOnClose \/ Destroy
    \/ \E w \in Workers : JoinWorker(w) \/ StartWorker(w)

Rest == <<windowVars, workerVars, listener>>
InNetworkCall == WindowStep /\ UNCHANGED Rest
NetworkBackground == Background /\ UNCHANGED Rest
Listen == ListenerLooks \/ ListenerReads
WindowThread == InHandler \/ OnTimer \/ InNetworkCall
ThreadsEnd ==
    \/ (TXHandler \/ UpdateHandler) /\ UNCHANGED Rest
    \/ \E w \in Workers : m_Disconnected /\ WorkerDone(w)

Running == ~aborted /\ handler # "destroyed"

WindowNext ==
    /\ Running
    /\ \/ Buttons \/ OnTimer \/ InHandler \/ ChooseFile
       \/ InNetworkCall \/ NetworkBackground
       \/ \E w \in Workers : WorkerDone(w)
       \/ Listen

WindowSpec == WindowInit /\ [][WindowNext]_vars

\* The window's thread, the receiver and the listener are scheduled, and of the
\* threads that come to an end always one; connect() returns, and the timer goes on.
\* The work of a thread ends when nothing answers any more, because the loops count
\* their failures; while the server answers it may keep a thread at work for ever.
\* Nothing is assumed of the user, nor of the server.
WindowFairness ==
    /\ WF_vars(Running /\ WindowThread)
    /\ WF_vars(Running /\ RXHandler /\ UNCHANGED Rest)
    /\ WF_vars(Running /\ Listen)
    /\ WF_vars(Running /\ ThreadsEnd)

WindowFairSpec == WindowSpec /\ WindowFairness

-----------------------------------------------------------------------------
(* Properties *)

Clicks == {Click[w] : w \in Workers} \cup {Start[w] : w \in Workers}

\* Types, and the threads behind the flags.
WindowTypeOK ==
    /\ TypeOK
    /\ handler \in {"idle", "Connect", "StartListener", "lists", "status", "Disconnect",
                    "choosing", "OnClose", "destroyed"} \cup Clicks
    /\ checked \in BOOLEAN
    /\ busy \in [Workers -> BOOLEAN]
    /\ m_SensorListBuilt \in BOOLEAN
    /\ worker \in [Workers -> {"off", "runs"}]
    /\ workerJoinable \in [Workers -> BOOLEAN]
    /\ \A w \in Workers : worker[w] = "runs" => busy[w]
    /\ listener \in {"none", "loop", "reads", "ended"}
    /\ clicks \in 0..MaxClicks

\* The process ends by itself only if the receiver of this session or of the last
\* one has failed, or when the window is destroyed after a listener was started.
\* In particular no button starts a thread over one that has not been joined.
EndsByItself ==
    aborted => \/ failed \cap {session - 1, session} # {}
               \/ handler = "destroyed" /\ listener # "none"

\* A click that starts a thread never waits for the network: it joins a thread
\* that has nothing left to do.
ClicksDoNotWait == \A w \in Workers : handler = Click[w] => worker[w] # "runs"

\* Unless a receiver has failed, the box and the buttons it enables show what
\* Connected() says whenever the user can act: whichever of the returns of Connect
\* and Disconnect was taken, and whatever the threads have done meanwhile.
BoxIsConnection ==
    handler \in {"idle", "choosing"} /\ failed \cap {session - 1, session} = {} =>
        (checked <=> ~m_Disconnected)

\* The listener has missed the time without a connection, and the window waits for
\* it: it goes on listening to the next connection.
MissedGap == handler = "StartListener" /\ listener \in {"loop", "reads"} /\ ~m_Disconnected

\* The window comes back to the user whatever the server and the threads do, or
\* waits for ever for a listener that missed the gap between two connections.
WindowReturns ==
    []<>(handler \in {"idle", "choosing", "destroyed"} \/ aborted) \/ <>[]MissedGap

==============================================================================

----------------------------- MODULE Window_proofs ---------------------------
(* Connecting, disconnecting and losing the connection in any order, and the  *)
(* window around it, proved for any number of addresses, connections and      *)
(* clicks.                                                                    *)
(*                                                                            *)
(* The argument: a handler that runs can be joined, unless the window has not *)
(* assigned it yet (CanBeJoined).  Starting a handler over one that has not   *)
(* been joined ends the process, so past the start of the update thread none  *)
(* of the last session is left.  What is left to show is that, in a session   *)
(* whose receiver has not failed, only the window disconnects (OnlyTheWindow) *)
(* and that it has joined every handler whenever it may connect again         *)
(* (ConnectsAfterJoining).                                                    *)
EXTENDS Window, TLAPS

\* The receiver of this session has not failed, and while its threads are being
\* started no update thread of an earlier one is left.
Settled ==
    /\ session \notin failed
    /\ frame.window \in {"startTX", "startUpdate"} => ~joinable["Update"]

CanBeJoined ==
    \A h \in Handlers :
        at[h] # "off" => joinable[h] \/ (h = "Update" /\ frame.window = "assignUpdate")

\* What the window knows at each place of its calls, whatever the other threads do.
WindowKnows ==
    /\ frame.window \in {"joinRX", "close", "flags", "joinUpdate"} => ~joinable["TX"]
    /\ frame.window \in {"close", "flags", "joinUpdate"} => ~joinable["RX"]
    /\ frame.window \in {"flags", "joinUpdate"} => m_NetworkSocket = INVALID_SOCKET
    /\ frame.window \in {"address", "startRX", "joinUpdate"} => m_Disconnected
    /\ frame.window = "startRX" /\ ~joinable["Update"] => m_NetworkSocket # INVALID_SOCKET

\* The threads of a session that did not fail were joined before the next one.
StartsOverNone ==
    session - 1 \notin failed =>
        /\ frame.window = "startTX" => ~joinable["TX"]
        /\ frame.window \in {"startTX", "startUpdate"} => ~joinable["Update"]

ConnectsAfterJoining ==
    Settled => IF frame.window \in {"startTX", "startUpdate", "assignUpdate"}
               THEN ~m_Disconnected
               ELSE m_Disconnected => frame.window = "joinUpdate" \/ \A h \in Handlers : ~joinable[h]

OnlyTheWindow ==
    Settled => \/ frame.update = "idle"
               \/ frame.update = "call" /\ frame.window = "joinUpdate"

ConnectionStands ==
    Settled /\ ~m_Disconnected /\ frame.window # "flags" => m_NetworkSocket # INVALID_SOCKET

\* Each handler works on the connection it was started for.
ServesConnection ==
    Settled =>
        /\ frame.window \in {"startTX", "startUpdate"} => serves["RX"] = m_NetworkSocket
        /\ at["RX"] # "off" => serves["RX"] = m_NetworkSocket
        /\ at["TX"] # "off" /\ frame.window # "startTX" => serves["TX"] = m_NetworkSocket
        /\ at["Update"] # "off" /\ frame.window \notin {"startTX", "startUpdate"} =>
              /\ serves["Update"] = serves["RX"]
              /\ m_NetworkSocket \in {serves["Update"], INVALID_SOCKET}

\* Without a connection there is no open line but those Connect left behind.
ClosedBehind ==
    failed = {} =>
        /\ m_Disconnected /\ frame.window \notin {"address", "startRX"} => LineState = "closed"
        /\ NoConnectionLeaks

NetworkInv ==
    /\ TypeOK /\ CanBeJoined /\ WindowKnows /\ StartsOverNone /\ ConnectsAfterJoining
    /\ OnlyTheWindow /\ ConnectionStands /\ ServesConnection /\ ClosedBehind

\* The window is in a call of the connection only where a handler has made one,
\* and has disconnected when that call is over.
InACall ==
    /\ frame.window \in Connecting => handler = "Connect"
    /\ frame.window \in Places \ {"idle"} => handler \in {"Disconnect", "OnClose"}
    /\ handler \in {"Disconnect", "OnClose"} /\ frame.window = "idle" /\ session \notin failed =>
          m_Disconnected

\* A thread that is about to be started has ended, and then was joined.
StartsEndedThreads ==
    \A w \in Workers :
        /\ handler \in {Click[w], Start[w]} => worker[w] = "off"
        /\ handler = Start[w] => ~workerJoinable[w]
        /\ handler = "choosing" => worker["SendFile"] = "off" /\ ~workerJoinable["SendFile"]
        /\ w = "BuildSensorList" /\ handler \in {Click[w], Start[w]} => clicks < MaxClicks
        /\ w = "SendFile" /\ handler = Start[w] => clicks < MaxClicks

\* BoxIsConnection, and also while a button's handler runs.
BoxShows ==
    handler \in {"idle", "choosing"} \cup Clicks /\ failed \cap {session - 1, session} = {} =>
        (checked <=> ~m_Disconnected)

\* What of it is about the window.
HandlerInv == WindowTypeOK /\ InACall /\ StartsEndedThreads /\ BoxShows /\ EndsByItself

WindowInv == NetworkInv /\ HandlerInv

-----------------------------------------------------------------------------
(* Types *)

Threads == {"window", "update"}

\* The steps of the connection, one by one.
NetworkStep ==
    \/ Connect \/ ConnectStep
    \/ \E t \in Threads : Disconnect(t) \/ DisconnectStep(t)
    \/ JoinsCollide \/ TXHandler \/ RXHandler \/ UpdateWakes \/ LineGoes

LineStates == {"up", "finished", "reset", "shut", "closed"}

\* How many connections there have been, and what becomes of the current one.
LEMMA LinesFacts ==
    ASSUME TypeOK
    PROVE  /\ lines \in Seq(LineStates) /\ Len(lines) \in Nat
           /\ m_NetworkSocket \in 0..Len(lines) /\ 0 \in 0..Len(lines)
           /\ \A i \in 1..Len(lines) : lines[i] \in LineStates
  BY DEF TypeOK, LineStates

LEMMA LineChanges ==
    ASSUME TypeOK, NEW state \in LineStates, Line(state)
    PROVE  /\ lines' \in Seq(LineStates)
           /\ Len(lines') = Len(lines)
           /\ \A i \in 1..Len(lines) : lines'[i] = IF i = m_NetworkSocket THEN state ELSE lines[i]
  BY LinesFacts DEF Line

\* The window and the update thread are each in one place.
LEMMA Moves ==
    ASSUME TypeOK, NEW t \in Threads, NEW place, GoTo(t, place)
    PROVE  /\ frame' = [frame EXCEPT ![t] = place]
           /\ t = "window" => frame'.window = place /\ frame'.update = frame.update
           /\ t = "update" => frame'.update = place /\ frame'.window = frame.window
  BY DEF TypeOK, GoTo, Threads

LEMMA TypePreserved == TypeOK /\ CanBeJoined /\ NetworkStep => TypeOK'
  <1> SUFFICES ASSUME TypeOK, CanBeJoined, NetworkStep PROVE TypeOK'
    OBVIOUS
  <1> USE NetworkAssumption DEF TypeOK, flagVars, connectVars, startVars, Handlers, Places, Connecting, INVALID_SOCKET
  <1>1. CASE Connect
    <2>1. m_NetworkSocket' \in 0..Len(lines) /\ result' \in BOOLEAN
      BY <1>1, LinesFacts DEF Connect
    <2>4. left' \in 0..MaxAddresses
      BY <1>1 DEF Connect
    <2>2. frame' \in [window : Places \cup Connecting, update : Places] /\ frame'.update = frame.update
      BY <1>1 DEF Connect, GoTo
    <2>3. lines' = lines /\ at' = at /\ joinable' = joinable /\ serves' = serves /\ session' = session
      BY <1>1 DEF Connect
    <2> QED
      BY <1>1, <2>1, <2>2, <2>3, <2>4 DEF Connect
  <1>2. CASE AddressAccepts
    BY <1>2 DEF AddressAccepts, Abandon
  <1>3. CASE AddressRefuses
    <2>1. abandoned' \subseteq 1..Len(lines) /\ m_NetworkSocket' \in 0..Len(lines)
      BY <1>3, LinesFacts DEF AddressRefuses, Abandon
    <2>2. lines' = lines /\ left' \in 0..MaxAddresses
      BY <1>3 DEF AddressRefuses
    <2>3. frame' \in [window : Places \cup Connecting, update : Places] /\ frame'.update = frame.update
      BY <1>3 DEF AddressRefuses, GoTo
    <2> QED
      BY <1>3, <2>1, <2>2, <2>3 DEF AddressRefuses
  <1>4. CASE SetNonBlocking
    <2>1. lines' \in Seq(LineStates) /\ Len(lines') = Len(lines)
      BY <1>4, LinesFacts, LineChanges DEF SetNonBlocking, LineStates
    <2> QED
      BY <1>4, <2>1 DEF SetNonBlocking, GoTo, LineStates
  <1>5. CASE StartRX
    <2>1. serves' \in [Handlers -> 0..Len(lines)]
      BY <1>5, LinesFacts DEF StartRX
    <2>2. session' \in Nat /\ failed' \subseteq 0..session'
      BY <1>5 DEF StartRX
    <2>3. joinable' \in [Handlers -> BOOLEAN] /\ aborted' \in BOOLEAN
      BY <1>5 DEF StartRX, Assign
    <2> QED
      BY <1>5, <2>1, <2>2, <2>3 DEF StartRX, GoTo
  <1>6. CASE StartTX
    BY <1>6 DEF StartTX, Assign, GoTo
  <1>7. CASE StartUpdate
    <2>1. CASE joinable.Update
      BY <1>7, <2>1 DEF StartUpdate, Abort
    <2>2. CASE ~joinable.Update
      <3>1. at.Update = "off"
        BY <1>7, <2>2 DEF StartUpdate, CanBeJoined
      <3>2. serves' \in [Handlers -> 0..Len(lines)]
        BY <1>7, <2>2, LinesFacts DEF StartUpdate
      <3> QED
        BY <1>7, <2>2, <3>1, <3>2 DEF StartUpdate, GoTo
    <2> QED
      BY <2>1, <2>2
  <1>8. CASE AssignUpdate
    BY <1>8 DEF AssignUpdate, GoTo
  <1>9. ASSUME NEW t \in Threads, Disconnect(t) PROVE TypeOK'
    BY <1>9 DEF Threads, Disconnect, GoTo
  <1>10. ASSUME NEW t \in Threads, Stop(t) PROVE TypeOK'
    BY <1>10 DEF Threads, Stop, Line, LineState, GoTo
  <1>11. ASSUME NEW t \in Threads, JoinTX(t) PROVE TypeOK'
    BY <1>11 DEF Threads, JoinTX, Join, GoTo
  <1>12. ASSUME NEW t \in Threads, JoinRX(t) PROVE TypeOK'
    BY <1>12 DEF Threads, JoinRX, Join, GoTo
  <1>13. ASSUME NEW t \in Threads, CloseSocket(t) PROVE TypeOK'
    <2>1. lines' \in Seq(LineStates) /\ Len(lines') = Len(lines)
      BY <1>13, LineChanges DEF CloseSocket, LineStates
    <2>2. m_NetworkSocket' \in 0..Len(lines')
      BY <1>13, <2>1, LinesFacts DEF CloseSocket
    <2> QED
      BY <1>13, <2>1, <2>2 DEF Threads, CloseSocket, GoTo, LineStates
  <1>14. ASSUME NEW t \in Threads, SetFlags(t) PROVE TypeOK'
    BY <1>14 DEF Threads, SetFlags, GoTo
  <1>15. ASSUME NEW t \in Threads, JoinUpdate(t) PROVE TypeOK'
    <2>1. CASE t = "update" /\ joinable.Update
      BY <1>15, <2>1 DEF JoinUpdate, Abort
    <2>2. CASE ~(t = "update" /\ joinable.Update)
      <3>1. joinable' \in [Handlers -> BOOLEAN]
        BY <1>15, <2>2 DEF JoinUpdate, Join
      <3> QED
        BY <1>15, <2>2, <3>1 DEF Threads, JoinUpdate, GoTo
    <2> QED
      BY <2>1, <2>2
  <1>16. CASE JoinsCollide
    BY <1>16 DEF JoinsCollide, Abort
  <1>17. CASE TXHandler
    BY <1>17 DEF TXHandler
  <1>18. CASE RXLoop
    BY <1>18 DEF RXLoop
  <1>19. CASE RecvGoesOn
    BY <1>19 DEF RecvGoesOn, LineState
  <1>20. CASE RecvFails
    BY <1>20 DEF RecvFails, LineState
  <1>21. CASE UpdateWakes
    BY <1>21 DEF UpdateWakes, GoTo
  <1>22. CASE LineGoes
    <2>1. lines' \in Seq(LineStates) /\ Len(lines') = Len(lines)
      BY <1>22, LineChanges DEF LineGoes, LineStates
    <2> QED
      BY <1>22, <2>1 DEF LineGoes, LineStates
  <1> QED
    BY <1>1, <1>2, <1>3, <1>4, <1>5, <1>6, <1>7, <1>8, <1>9, <1>10, <1>11, <1>12, <1>13, <1>14, <1>15, <1>16, <1>17, <1>18, <1>19, <1>20, <1>21, <1>22
    DEF NetworkStep, ConnectStep, DisconnectStep, RXHandler

-----------------------------------------------------------------------------
(* Threads and sessions *)

Control ==
    /\ CanBeJoined /\ WindowKnows /\ StartsOverNone /\ ConnectsAfterJoining
    /\ OnlyTheWindow /\ ConnectionStands /\ ServesConnection

LEMMA Shapes ==
    ASSUME TypeOK
    PROVE  /\ joinable \in [Handlers -> BOOLEAN]
           /\ at \in [Handlers -> {"off", "loop", "recv", "spin", "disconnect"}]
           /\ frame \in [window : Places \cup Connecting, update : Places]
           /\ frame.update # "idle" <=> at.Update = "disconnect"
           /\ serves \in [Handlers -> 0..Len(lines)]
           /\ session \in Nat /\ failed \subseteq 0..session
  BY DEF TypeOK

LEMMA ControlPreserved == TypeOK /\ Control /\ NetworkStep => Control'
  <1> SUFFICES ASSUME TypeOK, Control, NetworkStep PROVE Control'
    OBVIOUS
  <1> USE Shapes, Moves, LinesFacts DEF Control, CanBeJoined, WindowKnows, StartsOverNone, ConnectsAfterJoining,
             OnlyTheWindow, ConnectionStands, ServesConnection, Settled,
             flagVars, connectVars, startVars, Handlers, INVALID_SOCKET, Threads
  <1>1. CASE Connect
    BY <1>1 DEF Connect
  <1>2. CASE AddressAccepts
    BY <1>2 DEF AddressAccepts, Abandon
  <1>3. CASE AddressRefuses
    BY <1>3 DEF AddressRefuses, Abandon
  <1>4. CASE SetNonBlocking
    BY <1>4 DEF SetNonBlocking, Line, LineState
  <1>5. CASE StartRX
    BY <1>5 DEF StartRX, Assign
  <1>6. CASE StartTX
    BY <1>6 DEF StartTX, Assign
  <1>7. CASE StartUpdate
    BY <1>7 DEF StartUpdate, Abort
  <1>8. CASE AssignUpdate
    BY <1>8 DEF AssignUpdate
  <1>9. ASSUME NEW t \in Threads, Disconnect(t) PROVE Control'
    BY <1>9 DEF Disconnect
  <1>10. ASSUME NEW t \in Threads, Stop(t) PROVE Control'
    BY <1>10 DEF Stop
  <1>11. ASSUME NEW t \in Threads, JoinTX(t) PROVE Control'
    BY <1>11 DEF JoinTX, Join
  <1>12. ASSUME NEW t \in Threads, JoinRX(t) PROVE Control'
    BY <1>12 DEF JoinRX, Join
  <1>13. ASSUME NEW t \in Threads, CloseSocket(t) PROVE Control'
    BY <1>13 DEF CloseSocket
  <1>14. ASSUME NEW t \in Threads, SetFlags(t) PROVE Control'
    BY <1>14 DEF SetFlags
  <1>15. ASSUME NEW t \in Threads, JoinUpdate(t) PROVE Control'
    BY <1>15 DEF JoinUpdate, Join, Abort
  <1>16. CASE JoinsCollide
    BY <1>16 DEF JoinsCollide, Abort
  <1>17. CASE TXHandler
    BY <1>17 DEF TXHandler
  <1>18. CASE RXLoop
    BY <1>18 DEF RXLoop
  <1>19. CASE RecvGoesOn
    BY <1>19 DEF RecvGoesOn
  <1>20. CASE RecvFails
    BY <1>20 DEF RecvFails
  <1>21. CASE UpdateWakes
    BY <1>21 DEF UpdateWakes
  <1>22. CASE LineGoes
    BY <1>22 DEF LineGoes
  <1> QED
    BY <1>1, <1>2, <1>3, <1>4, <1>5, <1>6, <1>7, <1>8, <1>9, <1>10, <1>11, <1>12, <1>13, <1>14, <1>15, <1>16, <1>17, <1>18, <1>19, <1>20, <1>21, <1>22
    DEF NetworkStep, ConnectStep, DisconnectStep, RXHandler

-----------------------------------------------------------------------------
(* Connections *)

LEMMA ClosedPreserved == TypeOK /\ Control /\ ClosedBehind /\ NetworkStep => ClosedBehind'
  <1> SUFFICES ASSUME TypeOK, Control, ClosedBehind, NetworkStep, failed' = {} PROVE ClosedBehind'
    BY DEF ClosedBehind
  <1>f. failed = {}
    <2>1. failed \subseteq failed'
      BY DEF NetworkStep, ConnectStep, DisconnectStep, RXHandler, Connect, AddressAccepts, AddressRefuses,
             SetNonBlocking, StartRX, StartTX, StartUpdate, AssignUpdate, Disconnect, Stop, JoinTX, JoinRX,
             CloseSocket, SetFlags, JoinUpdate, JoinsCollide, TXHandler, RXLoop, RecvGoesOn, RecvFails,
             UpdateWakes, LineGoes
    <2> QED
      BY <2>1
  <1> USE <1>f, Shapes, Moves, LinesFacts, LineChanges DEF ClosedBehind, NoConnectionLeaks, LineState,
             flagVars, connectVars, startVars, Handlers, INVALID_SOCKET, Threads, LineStates
  <1>w. OnlyTheWindow /\ ConnectsAfterJoining /\ Settled /\ WindowKnows
    BY DEF Control, Settled, StartsOverNone
  <1>1. CASE Connect
    BY <1>1, <1>w DEF WindowKnows, ConnectsAfterJoining, Connect
  <1>2. CASE AddressAccepts
    BY <1>2, <1>w DEF WindowKnows, ConnectsAfterJoining, AddressAccepts, Abandon
  <1>3. CASE AddressRefuses
    BY <1>3, <1>w DEF WindowKnows, ConnectsAfterJoining, AddressRefuses, Abandon
  <1>4. CASE SetNonBlocking
    BY <1>4, <1>w DEF WindowKnows, ConnectsAfterJoining, SetNonBlocking
  <1>5. CASE StartRX
    BY <1>5, <1>w DEF WindowKnows, ConnectsAfterJoining, StartRX, Assign
  <1>6. CASE StartTX
    BY <1>6, <1>w DEF WindowKnows, ConnectsAfterJoining, StartTX, Assign
  <1>7. CASE StartUpdate
    BY <1>7, <1>w DEF WindowKnows, ConnectsAfterJoining, StartUpdate, Abort
  <1>8. CASE AssignUpdate
    BY <1>8, <1>w DEF WindowKnows, ConnectsAfterJoining, AssignUpdate
  <1>9. ASSUME NEW t \in Threads, Disconnect(t) PROVE ClosedBehind'
    BY <1>9, <1>w DEF OnlyTheWindow, WindowKnows, Disconnect
  <1>10. ASSUME NEW t \in Threads, Stop(t) PROVE ClosedBehind'
    BY <1>10, <1>w DEF OnlyTheWindow, WindowKnows, Stop
  <1>11. ASSUME NEW t \in Threads, JoinTX(t) PROVE ClosedBehind'
    BY <1>11, <1>w DEF OnlyTheWindow, WindowKnows, JoinTX, Join
  <1>12. ASSUME NEW t \in Threads, JoinRX(t) PROVE ClosedBehind'
    BY <1>12, <1>w DEF OnlyTheWindow, WindowKnows, JoinRX, Join
  <1>13. ASSUME NEW t \in Threads, CloseSocket(t) PROVE ClosedBehind'
    BY <1>13, <1>w DEF OnlyTheWindow, WindowKnows, CloseSocket
  <1>14. ASSUME NEW t \in Threads, SetFlags(t) PROVE ClosedBehind'
    BY <1>14, <1>w DEF OnlyTheWindow, WindowKnows, SetFlags
  <1>15. ASSUME NEW t \in Threads, JoinUpdate(t) PROVE ClosedBehind'
    BY <1>15, <1>w DEF OnlyTheWindow, WindowKnows, JoinUpdate, Join, Abort
  <1>16. CASE JoinsCollide
    BY <1>16, <1>w DEF WindowKnows, JoinsCollide, Abort
  <1>17. CASE TXHandler
    BY <1>17, <1>w DEF WindowKnows, TXHandler
  <1>18. CASE RXLoop
    BY <1>18, <1>w DEF WindowKnows, RXLoop
  <1>19. CASE RecvGoesOn
    BY <1>19, <1>w DEF WindowKnows, RecvGoesOn
  <1>20. CASE RecvFails
    BY <1>20, <1>w DEF WindowKnows, RecvFails
  <1>21. CASE UpdateWakes
    BY <1>21, <1>w DEF WindowKnows, UpdateWakes
  <1>22. CASE LineGoes
    BY <1>22, <1>w DEF WindowKnows, LineGoes
  <1> QED
    BY <1>1, <1>2, <1>3, <1>4, <1>5, <1>6, <1>7, <1>8, <1>9, <1>10, <1>11, <1>12, <1>13, <1>14, <1>15, <1>16, <1>17, <1>18, <1>19, <1>20, <1>21, <1>22
    DEF NetworkStep, ConnectStep, DisconnectStep, RXHandler

\* Nothing of this depends on aborted.
LEMMA NetworkUnchanged ==
    ASSUME NetworkInv, aborted' \in BOOLEAN,
           UNCHANGED <<m_NetworkSocket, flagVars, joinable, at, frame, connectVars, lines, startVars, failed>>
    PROVE  NetworkInv'
  BY DEF NetworkInv, TypeOK, CanBeJoined, WindowKnows, StartsOverNone, ConnectsAfterJoining, OnlyTheWindow,
         ConnectionStands, ServesConnection, ClosedBehind, NoConnectionLeaks, LineState, Settled,
         flagVars, connectVars, startVars

LEMMA NetworkPreserved == NetworkInv /\ NetworkStep => NetworkInv'
  BY TypePreserved, ControlPreserved, ClosedPreserved DEF NetworkInv, Control

LEMMA NetworkInitially == Init => NetworkInv
  <1> SUFFICES ASSUME Init PROVE NetworkInv
    OBVIOUS
  <1> USE DEF Init, Handlers, INVALID_SOCKET
  <1>1. lines \in Seq({"up", "finished", "reset", "shut", "closed"}) /\ Len(lines) = 0
    OBVIOUS
  <1>2. TypeOK
    <2>1. 0 \in 0..MaxAddresses /\ 0 \in 0..Len(lines)
      BY <1>1, NetworkAssumption
    <2>2. serves \in [Handlers -> 0..Len(lines)] /\ m_NetworkSocket \in 0..Len(lines) /\ left \in 0..MaxAddresses
      BY <2>1
    <2>3. joinable \in [Handlers -> BOOLEAN] /\ frame \in [window : Places \cup Connecting, update : Places]
      BY DEF Places, Connecting
    <2> QED
      BY <1>1, <2>2, <2>3 DEF TypeOK
  <1>3. Control
    BY DEF Control, CanBeJoined, WindowKnows, StartsOverNone, ConnectsAfterJoining, OnlyTheWindow,
           ConnectionStands, ServesConnection, Settled
  <1>4. ClosedBehind
    BY <1>1 DEF ClosedBehind, NoConnectionLeaks, LineState
  <1> QED
    BY <1>2, <1>3, <1>4 DEF NetworkInv, Control

\* The handlers of one session are gone before those of the next run.
LEMMA OneSession == NetworkInv => OneSessionAtATime
  BY Shapes DEF NetworkInv, OneSessionAtATime, CanBeJoined, StartsOverNone, ServesConnection, Settled, Handlers

-----------------------------------------------------------------------------
(* The calls of the connection, as the window sees them *)

\* Only a failure of the receiver of this session or of the last ends the process.
LEMMA AbortsAfterFailure ==
    ASSUME NetworkInv, ~aborted, NetworkStep, aborted'
    PROVE  failed' \cap {session' - 1, session'} # {}
  <1> USE Shapes, Moves DEF NetworkInv, flagVars, connectVars, startVars, Handlers, Threads, Settled, StartsOverNone,
          ConnectsAfterJoining, OnlyTheWindow
  <1>1. CASE StartRX
    <2>1. joinable["RX"] /\ m_Disconnected
      BY <1>1 DEF StartRX, Assign, WindowKnows
    <2>2. session \in failed
      BY <1>1, <2>1 DEF StartRX
    <2> QED
      BY <1>1, <2>2 DEF StartRX
  <1>2. CASE StartTX
    BY <1>2 DEF StartTX, Assign
  <1>3. CASE StartUpdate
    BY <1>3 DEF StartUpdate, Abort
  <1>4. CASE JoinsCollide
    BY <1>4 DEF JoinsCollide, Abort
  <1>5. ASSUME NEW t \in Threads, JoinUpdate(t) PROVE failed' \cap {session' - 1, session'} # {}
    BY <1>5 DEF JoinUpdate, Abort
  <1> QED
    BY <1>1, <1>2, <1>3, <1>4, <1>5
    DEF NetworkStep, ConnectStep, DisconnectStep, RXHandler, Connect, AddressAccepts, AddressRefuses,
        SetNonBlocking, AssignUpdate, Disconnect, Stop, JoinTX, JoinRX, CloseSocket, SetFlags,
        TXHandler, RXLoop, RecvGoesOn, RecvFails, UpdateWakes, LineGoes

\* A step of a call that is in progress, or of the other threads.
BetweenCalls ==
    /\ frame'.window \in Connecting => frame.window \in Connecting
    /\ frame'.window \in Places \ {"idle"} => frame.window \in Places \ {"idle"}
    /\ frame.window \in Places /\ m_Disconnected => m_Disconnected'
    /\ frame.window \in Places \ {"idle"} /\ frame'.window = "idle" => m_Disconnected'
    /\ frame.window = "idle" => session' = session /\ frame'.window = "idle"
    /\ frame.window = "idle" /\ session' \notin failed' => m_Disconnected' = m_Disconnected
    /\ failed \subseteq failed'
    /\ frame.window \in Places => session' = session

LEMMA CallsGoOn ==
    ASSUME NetworkInv, WindowStep \/ Background
    PROVE  BetweenCalls
  <1> USE Shapes, Moves DEF BetweenCalls, NetworkInv, flagVars, connectVars, startVars, Handlers, Threads, Settled,
          OnlyTheWindow, WindowKnows, Places, Connecting
  <1>1. CASE AddressAccepts
    BY <1>1 DEF AddressAccepts, Abandon
  <1>2. CASE AddressRefuses
    BY <1>2 DEF AddressRefuses, Abandon
  <1>3. CASE SetNonBlocking
    BY <1>3 DEF SetNonBlocking
  <1>4. CASE StartRX
    BY <1>4 DEF StartRX, Assign
  <1>5. CASE StartTX
    BY <1>5 DEF StartTX, Assign
  <1>6. CASE StartUpdate
    BY <1>6 DEF StartUpdate, Abort
  <1>7. CASE AssignUpdate
    BY <1>7 DEF AssignUpdate
  <1>8. CASE Disconnect("update")
    BY <1>8 DEF Disconnect
  <1>9. ASSUME NEW t \in Threads, Stop(t) PROVE BetweenCalls
    BY <1>9 DEF Stop
  <1>10. ASSUME NEW t \in Threads, JoinTX(t) PROVE BetweenCalls
    BY <1>10 DEF JoinTX, Join
  <1>11. ASSUME NEW t \in Threads, JoinRX(t) PROVE BetweenCalls
    BY <1>11 DEF JoinRX, Join
  <1>12. ASSUME NEW t \in Threads, CloseSocket(t) PROVE BetweenCalls
    BY <1>12 DEF CloseSocket
  <1>13. ASSUME NEW t \in Threads, SetFlags(t) PROVE BetweenCalls
    <2>1. CASE t = "window"
      <3>1. frame.window = "flags" /\ frame'.window = "joinUpdate" /\ m_Disconnected'
        BY <1>13, <2>1 DEF SetFlags
      <3>2. session' = session /\ failed' = failed
        BY <1>13 DEF SetFlags
      <3> QED
        BY <3>1, <3>2
    <2>2. CASE t = "update"
      <3>1. frame.window = "idle" => session \in failed
        BY <1>13, <2>2 DEF SetFlags
      <3>2. frame'.window = frame.window /\ session' = session /\ failed' = failed /\ m_Disconnected'
        BY <1>13, <2>2 DEF SetFlags
      <3> QED
        BY <3>1, <3>2
    <2> QED
      BY <2>1, <2>2 DEF Threads
  <1>14. ASSUME NEW t \in Threads, JoinUpdate(t) PROVE BetweenCalls
    BY <1>14 DEF JoinUpdate, Join, Abort
  <1>15. CASE JoinsCollide
    BY <1>15 DEF JoinsCollide, Abort
  <1>16. CASE TXHandler
    BY <1>16 DEF TXHandler
  <1>17. CASE RXLoop
    BY <1>17 DEF RXLoop
  <1>18. CASE RecvGoesOn
    BY <1>18 DEF RecvGoesOn
  <1>19. CASE RecvFails
    BY <1>19 DEF RecvFails
  <1>20. CASE UpdateWakes
    BY <1>20 DEF UpdateWakes
  <1>21. CASE LineGoes
    BY <1>21 DEF LineGoes
  <1> QED
    BY <1>1, <1>2, <1>3, <1>4, <1>5, <1>6, <1>7, <1>8, <1>9, <1>10, <1>11, <1>12, <1>13, <1>14, <1>15, <1>16, <1>17, <1>18, <1>19, <1>20, <1>21
    DEF WindowStep, Background, ConnectStep, DisconnectStep, RXHandler, UpdateHandler

-----------------------------------------------------------------------------
(* The window *)

\* The places of the handlers have different names.
LEMMA Names ==
    /\ \A w \in Workers, v \in Workers : Click[w] # Start[v]
    /\ \A w \in Workers, v \in Workers : Click[w] = Click[v] \/ Start[w] = Start[v] => w = v
    /\ \A w \in Workers : {Click[w], Start[w]} \cap
            {"idle", "Connect", "StartListener", "lists", "status", "Disconnect", "choosing", "OnClose",
             "destroyed"} = {}
    /\ Clicks = {Click[w] : w \in Workers} \cup {Start[w] : w \in Workers}
    /\ \A w \in Workers : Click[w] \in Clicks /\ Start[w] \in Clicks
  BY DEF Click, Start, Workers, Clicks

OwnStep ==
    \/ Connected \/ StartListener \/ ListOnConnect \/ ConnectionStatus \/ Disconnected
    \/ OnTimer \/ JoinOnClose \/ ChooseFile \/ ListenerLooks \/ ListenerReads
    \/ \E w \in Workers : ClickWorker(w) \/ JoinWorker(w) \/ WorkerDone(w)

\* Steps that leave the connection alone.
LEMMA OwnStepPreserves == WindowInv /\ ~aborted /\ OwnStep => HandlerInv'
  <1> SUFFICES ASSUME WindowInv, ~aborted, OwnStep PROVE HandlerInv'
    OBVIOUS
  <1> USE Names, WindowAssumption DEF WindowInv, HandlerInv, NetworkIdle, Enter, workerVars, windowVars, OwnStep
  <1>n. NetworkInv /\ UNCHANGED networkVars
    BY DEF Connected, StartListener, ListOnConnect, ConnectionStatus, Disconnected, OnTimer, JoinOnClose,
           ChooseFile, ListenerLooks, ListenerReads, ClickWorker, JoinWorker, WorkerDone
  <1>m. TypeOK'
    BY <1>n, NetworkUnchanged DEF networkVars, NetworkInv, TypeOK
  <1>1. WindowTypeOK'
    <2>1. checked' \in BOOLEAN /\ listener' \in {"none", "loop", "reads", "ended"} /\ clicks' = clicks
          /\ m_SensorListBuilt' \in BOOLEAN
      BY <1>n DEF WindowTypeOK, TypeOK, networkVars, flagVars, Connected, StartListener, ListOnConnect, ConnectionStatus, Disconnected, OnTimer, JoinOnClose,
           ChooseFile, ListenerLooks, ListenerReads, ClickWorker, JoinWorker, WorkerDone
    <2>2. handler' \in {"idle", "Connect", "StartListener", "lists", "status", "Disconnect",
                    "choosing", "OnClose", "destroyed"} \cup Clicks
      BY DEF WindowTypeOK, Workers, Connected, StartListener, ListOnConnect, ConnectionStatus, Disconnected, OnTimer, JoinOnClose,
           ChooseFile, ListenerLooks, ListenerReads, ClickWorker, JoinWorker, WorkerDone
    <2>3. workerJoinable' \in [Workers -> BOOLEAN]
      BY DEF WindowTypeOK, Connected, StartListener, ListOnConnect, ConnectionStatus, Disconnected, OnTimer, JoinOnClose,
           ChooseFile, ListenerLooks, ListenerReads, ClickWorker, JoinWorker, WorkerDone
    <2>4. /\ busy' \in [Workers -> BOOLEAN] /\ worker' \in [Workers -> {"off", "runs"}]
          /\ \A w \in Workers : worker'[w] = "runs" => busy'[w]
      BY DEF WindowTypeOK, Connected, StartListener, ListOnConnect, ConnectionStatus, Disconnected, OnTimer, JoinOnClose,
           ChooseFile, ListenerLooks, ListenerReads, ClickWorker, JoinWorker, WorkerDone
    <2> QED
      BY <1>m, <2>1, <2>2, <2>3, <2>4 DEF WindowTypeOK
  <1>2. InACall'
    <2>1. ASSUME handler' # handler PROVE handler' \notin {"Disconnect", "OnClose"}
      BY <2>1 DEF Workers, Connected, StartListener, ListOnConnect, ConnectionStatus, Disconnected, OnTimer,
                  JoinOnClose, ChooseFile, ListenerLooks, ListenerReads, ClickWorker, JoinWorker, WorkerDone
    <2>2. ASSUME handler' # handler PROVE frame.window = "idle"
      <3>1. \/ frame.window = "idle"
            \/ handler \in {"idle", "StartListener", "lists", "status", "choosing"} \cup Clicks
        BY <2>2 DEF Connected, StartListener, ListOnConnect, ConnectionStatus, Disconnected, OnTimer,
                    JoinOnClose, ChooseFile, ListenerLooks, ListenerReads, ClickWorker, JoinWorker, WorkerDone
      <3>2. frame.window \in Places \cup Connecting
        BY Shapes DEF NetworkInv
      <3>3. handler \in Clicks => handler \notin {"Connect", "Disconnect", "OnClose"}
        OBVIOUS
      <3> QED
        BY <3>1, <3>2, <3>3 DEF InACall
    <2> QED
      BY <1>n, <2>1, <2>2 DEF InACall, networkVars, flagVars, startVars, Connecting, Places
  <1>3. StartsEndedThreads'
    <2>1. CASE handler' = handler
      <3>1. clicks' = clicks
        BY DEF Connected, StartListener, ListOnConnect, ConnectionStatus, Disconnected, OnTimer, JoinOnClose,
               ChooseFile, ListenerLooks, ListenerReads, ClickWorker, JoinWorker, WorkerDone
      <3>3. \A w \in Workers : worker[w] = "off" => worker'[w] = "off"
        BY DEF WindowTypeOK, Connected, StartListener, ListOnConnect, ConnectionStatus, Disconnected, OnTimer,
               JoinOnClose, ChooseFile, ListenerLooks, ListenerReads, ClickWorker, JoinWorker, WorkerDone
      <3>4. \A w \in Workers : ~workerJoinable[w] => ~workerJoinable'[w]
        BY DEF WindowTypeOK, Connected, StartListener, ListOnConnect, ConnectionStatus, Disconnected, OnTimer,
               JoinOnClose, ChooseFile, ListenerLooks, ListenerReads, ClickWorker, JoinWorker, WorkerDone
      <3>2. "SendFile" \in Workers
        BY DEF Workers
      <3> QED
        BY <2>1, <3>1, <3>2, <3>3, <3>4 DEF StartsEndedThreads
    <2>2. ASSUME NEW w \in Workers, ClickWorker(w) PROVE StartsEndedThreads'
      BY <2>2 DEF StartsEndedThreads, WindowTypeOK, MayStart, Workers, ClickWorker
    <2>3. ASSUME NEW w \in Workers, JoinWorker(w) PROVE StartsEndedThreads'
      BY <2>3 DEF StartsEndedThreads, WindowTypeOK, Workers, JoinWorker
    <2>4. CASE ChooseFile
      BY <2>4 DEF StartsEndedThreads, Workers, ChooseFile
    <2>5. CASE handler' \notin {"choosing"} \cup Clicks
      BY <2>5 DEF StartsEndedThreads
    <2> QED
      BY <2>1, <2>2, <2>3, <2>4, <2>5
      DEF Connected, StartListener, ListOnConnect, ConnectionStatus, Disconnected, OnTimer, JoinOnClose,
          ListenerLooks, ListenerReads, WorkerDone
  <1>4. BoxShows'
    BY <1>n DEF BoxShows, InACall, networkVars, flagVars, startVars, Connected, StartListener, ListOnConnect, ConnectionStatus, Disconnected, OnTimer, JoinOnClose,
           ChooseFile, ListenerLooks, ListenerReads, ClickWorker, JoinWorker, WorkerDone
  <1>5. EndsByItself'
    BY <1>n DEF networkVars, EndsByItself
  <1> QED
    BY <1>1, <1>2, <1>3, <1>4, <1>5

\* A thread is started only over one that was joined.
LEMMA StartWorkerPreserves ==
    ASSUME WindowInv, ~aborted, NEW w \in Workers, StartWorker(w)
    PROVE  HandlerInv'
  <1> USE Names, WindowAssumption DEF WindowInv, HandlerInv, Enter, flagVars, connectVars, startVars, StartWorker
  <1>1. worker[w] = "off" /\ ~workerJoinable[w] /\ (w # "UpdateSensorList" => clicks < MaxClicks)
    BY DEF StartsEndedThreads, Workers
  <1>2. aborted' = FALSE
    BY <1>1 DEF WindowTypeOK
  <1>3. NetworkInv' /\ TypeOK'
    <2>1. NetworkInv'
      BY <1>2, NetworkUnchanged
    <2> QED
      BY <2>1 DEF NetworkInv
  <1>4. WindowTypeOK'
    <2>1. clicks' \in 0..MaxClicks
      BY <1>1 DEF WindowTypeOK
    <2>2. /\ worker' \in [Workers -> {"off", "runs"}] /\ workerJoinable' \in [Workers -> BOOLEAN]
          /\ busy' \in [Workers -> BOOLEAN] /\ m_SensorListBuilt' \in BOOLEAN
      BY DEF WindowTypeOK
    <2>3. \A v \in Workers : worker'[v] = "runs" => busy'[v]
      BY DEF WindowTypeOK
    <2> QED
      BY <1>3, <2>1, <2>2, <2>3 DEF WindowTypeOK
  <1>5. InACall'
    BY DEF InACall, Connecting, Places
  <1>6. StartsEndedThreads'
    BY DEF StartsEndedThreads
  <1>7. BoxShows'
    BY DEF BoxShows
  <1>8. EndsByItself'
    BY <1>2 DEF EndsByItself
  <1> QED
    BY <1>4, <1>5, <1>6, <1>7, <1>8

\* When the dialog is destroyed the process ends by itself only if there was a
\* listener, or a receiver has failed.
LEMMA DestroyPreserves == WindowInv /\ Destroy => HandlerInv'
  <1> SUFFICES ASSUME WindowInv, Destroy PROVE HandlerInv'
    OBVIOUS
  <1> USE Names DEF WindowInv, HandlerInv, Enter, flagVars, connectVars, startVars, workerVars, Destroy
  <1>1. aborted' => listener # "none" \/ session \in failed
    <2>1. session \notin failed => m_Disconnected /\ frame.window = "idle"
      BY DEF InACall, NetworkIdle
    <2>2. session \notin failed => \A h \in Handlers : ~joinable[h]
      BY <2>1 DEF NetworkInv, ConnectsAfterJoining, Settled
    <2> QED
      BY <2>2
  <1>2. TypeOK'
    BY DEF NetworkInv, TypeOK
  <1>3. WindowTypeOK'
    BY <1>2 DEF WindowTypeOK
  <1>4. InACall'
    BY DEF InACall, NetworkIdle, Places, Connecting
  <1>5. StartsEndedThreads' /\ BoxShows'
    BY DEF StartsEndedThreads, BoxShows
  <1>6. EndsByItself'
    BY <1>1 DEF EndsByItself
  <1> QED
    BY <1>3, <1>4, <1>5, <1>6

\* The calls of the connection are made from three handlers.
LEMMA CallsPreserve ==
    WindowInv /\ ~aborted /\ (ClickConnect \/ ClickDisconnect \/ OnClose) => WindowInv'
  <1> SUFFICES ASSUME WindowInv, ~aborted, ClickConnect \/ ClickDisconnect \/ OnClose PROVE WindowInv'
    OBVIOUS
  <1> USE Names DEF WindowInv, HandlerInv, Enter, workerVars
  <1>1. NetworkInv'
    BY NetworkPreserved DEF NetworkStep, Threads, ClickConnect, ClickDisconnect, OnClose
  <1>2. handler' \in {"Connect", "Disconnect", "OnClose"} /\ UNCHANGED <<checked, workerVars, listener>>
    BY DEF ClickConnect, ClickDisconnect, OnClose
  <1>3. WindowTypeOK'
    BY <1>1, <1>2 DEF WindowTypeOK, NetworkInv
  <1>4. InACall'
    <2>1. CASE ClickConnect
      BY <2>1, Shapes, Moves DEF ClickConnect, Connect, InACall, Places, Connecting, NetworkInv, Threads
    <2>2. CASE ClickDisconnect \/ OnClose
      <3>1. Disconnect("window") /\ handler' \in {"Disconnect", "OnClose"}
        BY <2>2 DEF ClickDisconnect, OnClose
      <3>2. frame'.window \in {"stop", "idle"}
        BY <3>1, Shapes, Moves DEF Disconnect, NetworkInv, Threads
      <3>3. frame'.window = "idle" /\ session \notin failed => m_Disconnected
        BY <3>1, Shapes, Moves DEF Disconnect, NetworkInv, Threads, ConnectionStands, Settled
      <3>4. session' = session /\ failed' = failed /\ m_Disconnected' = m_Disconnected
        BY <3>1 DEF Disconnect, startVars, flagVars
      <3> QED
        BY <3>1, <3>2, <3>3, <3>4 DEF InACall, Connecting
    <2> QED
      BY <2>1, <2>2
  <1>5. StartsEndedThreads' /\ BoxShows'
    BY <1>2 DEF StartsEndedThreads, BoxShows
  <1>6. EndsByItself'
    BY DEF ClickConnect, ClickDisconnect, OnClose, Connect, Disconnect, EndsByItself
  <1> QED
    BY <1>1, <1>3, <1>4, <1>5, <1>6

\* A step of a call in progress, or of the threads of the connection.
LEMMA InCallsPreserves ==
    WindowInv /\ ~aborted /\ (InNetworkCall \/ NetworkBackground) => WindowInv'
  <1> SUFFICES ASSUME WindowInv, ~aborted, InNetworkCall \/ NetworkBackground PROVE WindowInv'
    OBVIOUS
  <1> USE DEF WindowInv, HandlerInv, workerVars, windowVars, Rest
  <1>1. /\ WindowStep \/ Background
        /\ UNCHANGED <<handler, checked, busy, m_SensorListBuilt, worker, workerJoinable, clicks, listener>>
    BY DEF InNetworkCall, NetworkBackground
  <1>2. NetworkStep
    BY <1>1 DEF NetworkStep, WindowStep, Background, UpdateHandler, Threads
  <1>3. NetworkInv' /\ BetweenCalls
    BY <1>1, <1>2, NetworkPreserved, CallsGoOn
  <1>4. frame.window \in Places \cup Connecting /\ frame'.window \in Places \cup Connecting
    BY <1>3, Shapes DEF NetworkInv, TypeOK
  <1>5. WindowTypeOK'
    BY <1>1, <1>3 DEF WindowTypeOK, NetworkInv
  <1>6. InACall'
    BY <1>1, <1>3, <1>4 DEF InACall, BetweenCalls, Places, Connecting
  <1>7. StartsEndedThreads'
    BY <1>1 DEF StartsEndedThreads
  <1>8. BoxShows'
    BY <1>1, <1>3, <1>4, Names DEF InACall, BetweenCalls, BoxShows
  <1>9. EndsByItself'
    BY <1>1, <1>2, AbortsAfterFailure DEF EndsByItself
  <1> QED
    BY <1>3, <1>5, <1>6, <1>7, <1>8, <1>9

-----------------------------------------------------------------------------
(* The theorems *)

LEMMA Initially == WindowInit => WindowInv
  <1> SUFFICES ASSUME WindowInit PROVE WindowInv
    OBVIOUS
  <1> USE Names, WindowAssumption DEF WindowInit
  <1>1. NetworkInv
    BY NetworkInitially
  <1>2. WindowTypeOK
    <2>1. TypeOK /\ 0 \in 0..MaxClicks
      BY <1>1 DEF NetworkInv
    <2>2. /\ worker \in [Workers -> {"off", "runs"}] /\ workerJoinable \in [Workers -> BOOLEAN]
          /\ \A w \in Workers : worker[w] # "runs"
      OBVIOUS
    <2> QED
      BY <2>1, <2>2 DEF WindowTypeOK
  <1>3. InACall /\ StartsEndedThreads /\ BoxShows /\ EndsByItself
    BY DEF Init, InACall, StartsEndedThreads, BoxShows, EndsByItself, Places, Connecting
  <1> QED
    BY <1>1, <1>2, <1>3 DEF WindowInv, HandlerInv

LEMMA Preserved == WindowInv /\ [WindowNext]_vars => WindowInv'
  <1> SUFFICES ASSUME WindowInv, [WindowNext]_vars PROVE WindowInv'
    OBVIOUS
  <1>1. CASE WindowNext
    <2>1. ~aborted
      BY <1>1 DEF WindowNext, Running
    <2>2. CASE OwnStep
      <3>1. HandlerInv'
        BY <2>1, <2>2, OwnStepPreserves
      <3>2. UNCHANGED networkVars
        BY <2>2 DEF OwnStep, Connected, StartListener, ListOnConnect, ConnectionStatus, Disconnected,
                    OnTimer, JoinOnClose, ChooseFile, ListenerLooks, ListenerReads, ClickWorker,
                    JoinWorker, WorkerDone
      <3>3. NetworkInv'
        BY <3>2, NetworkUnchanged DEF WindowInv, NetworkInv, TypeOK, networkVars
      <3> QED
        BY <3>1, <3>3 DEF WindowInv
    <2>3. ASSUME NEW w \in Workers, StartWorker(w) PROVE WindowInv'
      BY <2>1, <2>3, StartWorkerPreserves, NetworkUnchanged DEF WindowInv, HandlerInv, StartWorker, WindowTypeOK
    <2>4. CASE Destroy
      BY <2>4, DestroyPreserves, NetworkUnchanged DEF WindowInv, HandlerInv, Destroy, WindowTypeOK
    <2>5. CASE ClickConnect \/ ClickDisconnect \/ OnClose \/ InNetworkCall \/ NetworkBackground
      BY <2>1, <2>5, CallsPreserve, InCallsPreserves
    <2> QED
      BY <1>1, <2>2, <2>3, <2>4, <2>5 DEF WindowNext, Buttons, InHandler, Listen, OwnStep
  <1>2. CASE UNCHANGED vars
    <2>1. NetworkInv'
      BY <1>2, NetworkUnchanged DEF WindowInv, NetworkInv, TypeOK, vars, networkVars
    <2>2. WindowTypeOK'
      BY <1>2, <2>1 DEF WindowInv, HandlerInv, NetworkInv, WindowTypeOK, vars, windowVars, workerVars
    <2>3. InACall' /\ StartsEndedThreads' /\ BoxShows' /\ EndsByItself'
      BY <1>2 DEF WindowInv, HandlerInv, InACall, StartsEndedThreads, BoxShows, EndsByItself, vars,
                  networkVars, flagVars, startVars, windowVars, workerVars
    <2> QED
      BY <2>1, <2>2, <2>3 DEF WindowInv, HandlerInv
  <1> QED
    BY <1>1, <1>2

LEMMA Invariant == WindowSpec => []WindowInv
  BY Initially, Preserved, PTL DEF WindowSpec

\* The threads behind the flags: a thread at work has its flag set, and the update
\* thread is in a call of Disconnect exactly when it says so.
THEOREM TypeCorrect == WindowSpec => []WindowTypeOK
  <1>1. WindowInv => WindowTypeOK
    BY DEF WindowInv, HandlerInv
  <1> QED
    BY <1>1, Invariant, PTL

\* Connecting and disconnecting in any order (Connect, Disconnect) joins the handlers
\* of a session before those of the next are started.
THEOREM SessionsDoNotMeet == WindowSpec => []OneSessionAtATime
  <1>1. WindowInv => OneSessionAtATime
    BY OneSession DEF WindowInv
  <1> QED
    BY <1>1, Invariant, PTL

\* Connect and Disconnect close what they opened, but for the connections that
\* Connect left behind to try the next address.
THEOREM ConnectionsAreClosed == WindowSpec => []NoConnectionLeaks
  <1>1. WindowInv => NoConnectionLeaks
    BY DEF WindowInv, NetworkInv, ClosedBehind, NoConnectionLeaks
  <1> QED
    BY <1>1, Invariant, PTL

\* No thread object that is still joinable is assigned or destroyed, so that the
\* process goes on, unless a receiver has failed or a listener was never joined.
THEOREM ProcessGoesOn == WindowSpec => []EndsByItself
  <1>1. WindowInv => EndsByItself
    BY DEF WindowInv, HandlerInv
  <1> QED
    BY <1>1, Invariant, PTL

\* The join in the handlers of the buttons finds the thread ended.
THEOREM ButtonsDoNotWait == WindowSpec => []ClicksDoNotWait
  <1>1. WindowInv => ClicksDoNotWait
    BY DEF WindowInv, HandlerInv, StartsEndedThreads, ClicksDoNotWait
  <1> QED
    BY <1>1, Invariant, PTL

\* UpdateConnectionStatus is called, or the timer is about to call it, wherever the
\* connection changes.
THEOREM BoxFollowsConnection == WindowSpec => []BoxIsConnection
  <1>1. WindowInv => BoxIsConnection
    BY DEF WindowInv, HandlerInv, BoxShows, BoxIsConnection
  <1> QED
    BY <1>1, Invariant, PTL

=============================================================================

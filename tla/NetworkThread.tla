---------------------------- MODULE NetworkThread ----------------------------
(* The connection of the GUI and the three threads that serve it              *)
(* (PCMonitorGUI/NetworkThread.cpp): connecting, disconnecting, and a         *)
(* connection that goes by itself.                                            *)
(*                                                                            *)
(* Connect runs in the window's thread, Disconnect in the window's and in the *)
(* update thread, at the same time if it happens so.  What the queues hold is *)
(* the matter of Packets and Listener.                                        *)
EXTENDS Naturals, Sequences, FiniteSets

CONSTANTS
    MaxAddresses,   \* addresses the name of the server may resolve to
    MaxConnections  \* bound: connections made

ASSUME NetworkAssumption == MaxAddresses \in Nat \ {0} /\ MaxConnections \in Nat

Handlers == {"RX", "TX", "Update"}
INVALID_SOCKET == 0

VARIABLES
    m_NetworkSocket,    \* the place of the connection in lines, or INVALID_SOCKET
    m_StopConnection,
    m_Disconnected,
    joinable,           \* m_RXThread, m_TXThread, m_UpdateThread: is it joinable
    at,                 \* where the handlers are, "off" before and after
    frame,              \* where the window and the update thread are in a call
    left,               \* addresses Connect has still to try
    result,             \* what Connect returned
    lines,              \* the connections made, oldest first
    aborted,            \* std::terminate has been called
    abandoned,          \* history: connections left open when the next address was tried
    serves,             \* history: the connection a handler was started for
    session,            \* history: times the handlers were started
    failed              \* history: sessions whose receiver stored m_Disconnected

flagVars == <<m_StopConnection, m_Disconnected>>
connectVars == <<left, result, abandoned>>
startVars == <<serves, session>>
networkVars == <<m_NetworkSocket, flagVars, joinable, at, frame, connectVars, lines, aborted,
                 startVars, failed>>

\* m_StopConnection is not initialised, and not read before Connect has set it.
Init ==
    /\ m_NetworkSocket = INVALID_SOCKET
    /\ m_StopConnection = FALSE
    /\ m_Disconnected = TRUE
    /\ joinable = [h \in Handlers |-> FALSE]
    /\ at = [h \in Handlers |-> "off"]
    /\ frame = [window |-> "idle", update |-> "idle"]
    /\ left = 0
    /\ result = FALSE
    /\ lines = <<>>
    /\ aborted = FALSE
    /\ abandoned = {}
    /\ serves = [h \in Handlers |-> INVALID_SOCKET]
    /\ session = 0
    /\ failed = {}

GoTo(t, place) == frame' = [frame EXCEPT ![t] = place]
LineState == IF m_NetworkSocket = INVALID_SOCKET THEN "closed" ELSE lines[m_NetworkSocket]
Line(state) ==
    lines' = [i \in 1..Len(lines) |-> IF i = m_NetworkSocket THEN state ELSE lines[i]]
Abort == aborted' = TRUE

-----------------------------------------------------------------------------
(* Connect *)

\* Returns at once when there is a connection, when winsock does not start or when
\* the name does not resolve; otherwise there are addresses to try.
Connect ==
    /\ frame.window = "idle"
    /\ IF m_Disconnected
       THEN /\ m_NetworkSocket' = INVALID_SOCKET
            /\ \/ result' = FALSE /\ UNCHANGED <<left, frame>>
               \/ /\ left' \in 1..MaxAddresses
                  /\ GoTo("window", "address")
                  /\ UNCHANGED result
       ELSE result' = FALSE /\ UNCHANGED <<m_NetworkSocket, left, frame>>
    /\ UNCHANGED <<flagVars, joinable, at, lines, abandoned, aborted, startVars, failed>>

Abandon == abandoned' = IF m_NetworkSocket = INVALID_SOCKET THEN abandoned
                        ELSE abandoned \cup {m_NetworkSocket}

\* The loop goes on to the next address after one has accepted.
AddressAccepts ==
    /\ frame.window = "address"
    /\ left > 0
    /\ Len(lines) < MaxConnections
    /\ lines' = Append(lines, "up")
    /\ m_NetworkSocket' = Len(lines')
    /\ Abandon
    /\ left' = left - 1
    /\ UNCHANGED <<flagVars, joinable, at, frame, result, aborted, startVars, failed>>

\* The first address that does not accept ends Connect; a connection made before
\* is left open.
AddressRefuses ==
    /\ frame.window = "address"
    /\ left > 0
    /\ m_NetworkSocket' = INVALID_SOCKET
    /\ Abandon
    /\ left' = 0
    /\ result' = FALSE
    /\ GoTo("window", "idle")
    /\ UNCHANGED <<flagVars, joinable, at, lines, aborted, startVars, failed>>

\* Mutant of SetNonBlocking: the socket is left open.
SetNonBlockingOrLeave ==
    /\ frame.window = "address"
    /\ left = 0
    /\ \/ LineState # "closed" /\ GoTo("window", "startRX") /\ UNCHANGED result
       \/ result' = FALSE /\ GoTo("window", "idle")
    /\ UNCHANGED <<m_NetworkSocket, flagVars, joinable, at, left, abandoned, lines, aborted,
                   startVars, failed>>

\* The socket is made non-blocking.  If that fails it is closed, and
\* m_NetworkSocket keeps it.
SetNonBlocking ==
    /\ frame.window = "address"
    /\ left = 0
    /\ \/ LineState # "closed" /\ GoTo("window", "startRX") /\ UNCHANGED <<lines, result>>
       \/ Line("closed") /\ result' = FALSE /\ GoTo("window", "idle")
    /\ UNCHANGED <<m_NetworkSocket, flagVars, joinable, at, left, abandoned, aborted, startVars,
                   failed>>

\* The flags, then the threads.  Assigning to a thread object that is still
\* joinable terminates the process.
Assign(h) ==
    /\ aborted' = joinable[h]
    /\ joinable' = [joinable EXCEPT ![h] = TRUE]

StartRX ==
    /\ frame.window = "startRX"
    /\ m_StopConnection' = FALSE
    /\ m_Disconnected' = FALSE
    /\ Assign("RX")
    /\ at' = [at EXCEPT !.RX = "loop"]
    /\ serves' = [serves EXCEPT !.RX = m_NetworkSocket]
    /\ session' = session + 1
    /\ GoTo("window", "startTX")
    /\ UNCHANGED <<m_NetworkSocket, connectVars, lines, failed>>

StartTX ==
    /\ frame.window = "startTX"
    /\ Assign("TX")
    /\ at' = [at EXCEPT !.TX = "loop"]
    /\ serves' = [serves EXCEPT !.TX = serves.RX]
    /\ GoTo("window", "startUpdate")
    /\ UNCHANGED <<m_NetworkSocket, flagVars, connectVars, lines, session, failed>>

\* The update thread may run, and look at m_UpdateThread, before it is assigned.
\* If the object still has the last one the process is lost here.
StartUpdate ==
    /\ frame.window = "startUpdate"
    /\ IF joinable.Update
       THEN Abort /\ UNCHANGED <<at, frame, serves>>
       ELSE /\ at' = [at EXCEPT !.Update = "spin"]
            /\ serves' = [serves EXCEPT !.Update = serves.RX]
            /\ GoTo("window", "assignUpdate")
            /\ UNCHANGED aborted
    /\ UNCHANGED <<m_NetworkSocket, flagVars, joinable, connectVars, lines, session, failed>>

AssignUpdate ==
    /\ frame.window = "assignUpdate"
    /\ joinable' = [joinable EXCEPT !.Update = TRUE]
    /\ result' = TRUE
    /\ GoTo("window", "idle")
    /\ UNCHANGED <<m_NetworkSocket, flagVars, at, left, abandoned, lines, aborted, startVars,
                   failed>>

-----------------------------------------------------------------------------
(* Disconnect, called by t *)

Disconnect(t) ==
    /\ frame[t] = IF t = "window" THEN "idle" ELSE "call"
    /\ IF m_NetworkSocket # INVALID_SOCKET
       THEN GoTo(t, "stop") /\ UNCHANGED at
       ELSE /\ GoTo(t, "idle")
            /\ at' = IF t = "update" THEN [at EXCEPT !.Update = "off"] ELSE at
    /\ UNCHANGED <<m_NetworkSocket, flagVars, joinable, connectVars, lines, aborted, startVars,
                   failed>>

Stop(t) ==
    /\ frame[t] = "stop"
    /\ m_StopConnection' = TRUE
    /\ IF LineState \in {"up", "finished"} THEN Line("shut") ELSE UNCHANGED lines
    /\ GoTo(t, "joinTX")
    /\ UNCHANGED <<m_NetworkSocket, m_Disconnected, joinable, at, connectVars, aborted, startVars,
                   failed>>

\* Waits for the thread if there is one to join.
Join(h) ==
    /\ joinable[h] => at[h] = "off"
    /\ joinable' = [joinable EXCEPT ![h] = FALSE]

JoinTX(t) ==
    /\ frame[t] = "joinTX"
    /\ Join("TX")
    /\ GoTo(t, "joinRX")
    /\ UNCHANGED <<m_NetworkSocket, flagVars, at, connectVars, lines, aborted, startVars, failed>>

\* Mutant of JoinRX: the receiver is not waited for.
LeaveRX(t) ==
    /\ frame[t] = "joinRX"
    /\ GoTo(t, "close")
    /\ UNCHANGED <<m_NetworkSocket, flagVars, joinable, at, connectVars, lines, aborted, startVars,
                   failed>>

JoinRX(t) ==
    /\ frame[t] = "joinRX"
    /\ Join("RX")
    /\ GoTo(t, "close")
    /\ UNCHANGED <<m_NetworkSocket, flagVars, at, connectVars, lines, aborted, startVars, failed>>

\* Two threads that join the same object at once: the second handle is gone.
JoinsCollide ==
    /\ frame.window = frame.update
    /\ \/ frame.window = "joinTX" /\ joinable.TX
       \/ frame.window = "joinRX" /\ joinable.RX
    /\ Abort
    /\ UNCHANGED <<m_NetworkSocket, flagVars, joinable, at, frame, connectVars, lines, startVars,
                   failed>>

CloseSocket(t) ==
    /\ frame[t] = "close"
    /\ Line("closed")
    /\ m_NetworkSocket' = INVALID_SOCKET
    /\ GoTo(t, "flags")
    /\ UNCHANGED <<flagVars, joinable, at, connectVars, aborted, startVars, failed>>

\* Mutant of SetFlags: the update thread is not told.
SetStopOnly(t) ==
    /\ frame[t] = "flags"
    /\ m_StopConnection' = FALSE
    /\ GoTo(t, "joinUpdate")
    /\ UNCHANGED <<m_NetworkSocket, m_Disconnected, joinable, at, connectVars, lines, aborted,
                   startVars, failed>>

SetFlags(t) ==
    /\ frame[t] = "flags"
    /\ m_Disconnected' = TRUE
    /\ m_StopConnection' = FALSE
    /\ GoTo(t, "joinUpdate")
    /\ UNCHANGED <<m_NetworkSocket, joinable, at, connectVars, lines, aborted, startVars, failed>>

\* The update thread cannot join itself: the exception ends the process.
JoinUpdate(t) ==
    /\ frame[t] = "joinUpdate"
    /\ IF t = "update" /\ joinable.Update
       THEN Abort /\ UNCHANGED <<joinable, at, frame>>
       ELSE /\ Join("Update")
            /\ GoTo(t, "idle")
            /\ at' = IF t = "update" THEN [at EXCEPT !.Update = "off"] ELSE at
            /\ UNCHANGED aborted
    /\ UNCHANGED <<m_NetworkSocket, flagVars, connectVars, lines, startVars, failed>>

-----------------------------------------------------------------------------
(* The handlers.  The fields they share are read from memory each time. *)

\* One turn of TXHandler sends what is queued; send() does not block.
TXHandler ==
    /\ at.TX = "loop"
    /\ m_StopConnection
    /\ at' = [at EXCEPT !.TX = "off"]
    /\ UNCHANGED <<m_NetworkSocket, flagVars, joinable, frame, connectVars, lines, aborted,
                   startVars, failed>>

RXLoop ==
    /\ at.RX = "loop"
    /\ at' = [at EXCEPT !.RX = IF m_StopConnection THEN "off" ELSE "recv"]
    /\ UNCHANGED <<m_NetworkSocket, flagVars, joinable, frame, connectVars, lines, aborted,
                   startVars, failed>>

\* Data, or nothing yet.  At the end of the stream recv() returns 0 and the error
\* it left on an earlier call, which says "nothing yet" too.
RecvGoesOn ==
    /\ at.RX = "recv"
    /\ LineState \in {"up", "finished", "shut"}
    /\ at' = [at EXCEPT !.RX = "loop"]
    /\ UNCHANGED <<m_NetworkSocket, flagVars, joinable, frame, connectVars, lines, aborted,
                   startVars, failed>>

\* Mutant of RecvFails: a failure is not stored.
RecvFailsUnseen ==
    /\ at.RX = "recv"
    /\ LineState # "up"
    /\ at' = [at EXCEPT !.RX = "loop"]
    /\ UNCHANGED <<m_NetworkSocket, flagVars, joinable, frame, connectVars, lines, aborted,
                   startVars, failed>>

RecvFails ==
    /\ at.RX = "recv"
    /\ LineState # "up"
    /\ m_Disconnected' = TRUE
    /\ failed' = failed \cup {session}
    /\ at' = [at EXCEPT !.RX = "loop"]
    /\ UNCHANGED <<m_NetworkSocket, m_StopConnection, joinable, frame, connectVars, lines, aborted,
                   startVars>>

UpdateWakes ==
    /\ at.Update = "spin"
    /\ m_Disconnected
    /\ at' = [at EXCEPT !.Update = "disconnect"]
    /\ GoTo("update", "call")
    /\ UNCHANGED <<m_NetworkSocket, flagVars, joinable, connectVars, lines, aborted, startVars,
                   failed>>

\* The server closes the connection, or it breaks.  (What becomes of one that was
\* left behind nobody sees.)
LineGoes ==
    /\ \/ LineState = "up" /\ (Line("finished") \/ Line("reset"))
       \/ LineState = "finished" /\ Line("reset")
    /\ UNCHANGED <<m_NetworkSocket, flagVars, joinable, at, frame, connectVars, aborted, startVars,
                   failed>>

-----------------------------------------------------------------------------
ConnectStep ==
    \/ AddressAccepts \/ AddressRefuses \/ SetNonBlocking
    \/ StartRX \/ StartTX \/ StartUpdate \/ AssignUpdate

DisconnectStep(t) ==
    \/ Stop(t) \/ JoinTX(t) \/ JoinRX(t)
    \/ CloseSocket(t) \/ SetFlags(t) \/ JoinUpdate(t)

RXHandler == RXLoop \/ RecvGoesOn \/ RecvFails

UpdateHandler == UpdateWakes \/ Disconnect("update") \/ DisconnectStep("update")

\* What goes on in and around a call of the window.
WindowStep == ConnectStep \/ DisconnectStep("window")
Background == JoinsCollide \/ TXHandler \/ RXHandler \/ UpdateHandler \/ LineGoes

Next ==
    /\ ~aborted
    /\ Connect \/ Disconnect("window") \/ WindowStep \/ Background

Spec == Init /\ [][Next]_networkVars

-----------------------------------------------------------------------------
(* Properties *)

Places == {"idle", "call", "stop", "joinTX", "joinRX", "close", "flags", "joinUpdate"}
Connecting == {"address", "startRX", "startTX", "startUpdate", "assignUpdate"}

\* Types, and where each thread can be.
TypeOK ==
    /\ lines \in Seq({"up", "finished", "reset", "shut", "closed"})
    /\ m_NetworkSocket \in 0..Len(lines)
    /\ m_StopConnection \in BOOLEAN /\ m_Disconnected \in BOOLEAN
    /\ joinable \in [Handlers -> BOOLEAN]
    /\ at \in [Handlers -> {"off", "loop", "recv", "spin", "disconnect"}]
    /\ frame \in [window : Places \cup Connecting, update : Places]
    /\ frame.update # "idle" <=> at.Update = "disconnect"
    /\ left \in 0..MaxAddresses /\ abandoned \subseteq 1..Len(lines)
    /\ result \in BOOLEAN /\ aborted \in BOOLEAN
    /\ serves \in [Handlers -> 0..Len(lines)]
    /\ session \in Nat
    /\ failed \subseteq 0..session

\* As long as neither the receiver of this session nor that of the last one has
\* stored m_Disconnected, the handlers of one session are gone before those of the
\* next run, and RX and TX work on the connection they were started for: connecting
\* and disconnecting in any order joins them in time.  (Otherwise the update thread
\* of one session may close the connection of the next.)
OneSessionAtATime ==
    failed \cap {session - 1, session} = {} =>
        \A h \in Handlers : at[h] # "off" =>
            /\ serves[h] = m_NetworkSocket \/ (h = "Update" /\ m_NetworkSocket = INVALID_SOCKET)
            /\ h = "Update" => serves[h] = serves.RX

\* The firmware serves one client at a time, so a connection that is left open keeps
\* it from every later one.  As long as no receiver has failed, the only ones that
\* may be open are m_NetworkSocket and those that Connect left behind to try the next
\* address.  (Its comment says that it stops at the first one that succeeds.)
NoConnectionLeaks ==
    failed = {} =>
        \A i \in 1..Len(lines) : lines[i] # "closed" => i \in {m_NetworkSocket} \cup abandoned

\* A connection that broke is noticed.
ResetIsNoticed ==
    m_NetworkSocket # INVALID_SOCKET /\ LineState = "reset" /\ at.RX # "off"
        ~> m_Disconnected \/ aborted
==============================================================================

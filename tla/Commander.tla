------------------------------ MODULE Commander ------------------------------
(* The request/answer layer of the GUI (PCMonitorGUI/Commander.cpp) and the   *)
(* dispatch it talks to (PC_Monitor_Hardware/Server.cpp).                     *)
(*                                                                            *)
(* Each command has one slot, m_CommandWaiting[cmd]: a flag and the payload   *)
(* of the last answer.  A caller sends a request, polls the flag without the  *)
(* lock for a second, clears it under the lock and copies the payload after   *)
(* it has let go of the lock.  The listener overwrites the slot whenever a    *)
(* packet arrives.  Nothing in an answer is compared with the request.        *)
(*                                                                            *)
(* Packets are numbered per command by the request they belong to.  The       *)
(* number is not in the program (rng and rsp.index are sent and never looked  *)
(* at); it is what the properties compare.  A payload is copied in two        *)
(* halves, lo and hi, each carrying the number of the packet it came from.    *)
EXTENDS Naturals, Sequences

CONSTANTS
    Commands,   \* the commands the GUI has a call for
    Answered,   \* those whose handler sends an answer
    MaxCalls    \* bound: calls made with one command

ASSUME CommandAssumption ==
    /\ Answered \subseteq Commands
    /\ MaxCalls \in Nat

\* The commands of Commander's calls, and the ones l_HandleCommand answers:
\* VALIDATE_FILE and LOAD_FILE are dropped, the parameter handlers are empty.
GUICommands == {"SEND_FILE", "VALIDATE_FILE", "LOAD_FILE", "LIST_SENSORS", "UPDATE_SENSOR",
                "LIST_PARAMETERS", "READ_PARAMETER", "MODIFY_PARAMETER"}
AnsweringHandlers == {"SEND_FILE", "LIST_SENSORS", "UPDATE_SENSOR"}

VARIABLES
    requests,           \* packets on their way to the firmware, oldest first
    responses,          \* packets on their way to the listener, oldest first
    m_CommandWaiting,   \* the slot of each command
    storing,            \* the packet the listener is copying into its slot
    caller,             \* the call in progress with each command
    sent,               \* history: calls made with each command
    timeouts,           \* history: calls of each command that returned NULL
    got                 \* history: the last payload each command's calls returned

slotVars == <<m_CommandWaiting, storing>>
netVars == <<requests, responses>>
callVars == <<caller, sent, timeouts, got>>
cmdVars == <<netVars, slotVars, callVars>>

Packets == [cmd : Commands, seq : Nat]

\* m_PayloadMutex is held by the listener while it copies, and by a caller only
\* for the one assignment of ClearFlag.
NoPacket == [cmd |-> "none", seq |-> 0]
MutexFree == storing = NoPacket

ASSUME NoneAssumption == "none" \notin Commands

Init ==
    /\ requests = <<>>
    /\ responses = <<>>
    /\ m_CommandWaiting = [c \in Commands |-> [first |-> FALSE, lo |-> 0, hi |-> 0]]
    /\ storing = NoPacket
    /\ caller = [c \in Commands |-> [pc |-> "idle", lo |-> 0]]
    /\ sent = [c \in Commands |-> 0]
    /\ timeouts = [c \in Commands |-> 0]
    /\ got = [c \in Commands |-> [call |-> 0, lo |-> 0, hi |-> 0]]

-----------------------------------------------------------------------------
(* A call.  The dialog makes one call at a time with a command: each of its    *)
(* threads is started only when the last one of its kind is over.              *)

At(c, pc) == caller[c].pc = pc
GoTo(c, pc) == caller' = [caller EXCEPT ![c].pc = pc]

\* The packet goes to the end of the transmit queue.  The flag is not cleared.
BuildAndSendPacket(c) ==
    /\ At(c, "idle")
    /\ sent[c] < MaxCalls
    /\ sent' = [sent EXCEPT ![c] = @ + 1]
    /\ requests' = Append(requests, [cmd |-> c, seq |-> sent[c] + 1])
    /\ GoTo(c, "wait")
    /\ UNCHANGED <<responses, slotVars, timeouts, got>>

\* WaitOnReturn leaves its loop because it saw the flag.
PollHit(c) ==
    /\ At(c, "wait")
    /\ m_CommandWaiting[c].first
    /\ GoTo(c, "clear")
    /\ UNCHANGED <<netVars, slotVars, sent, timeouts, got>>

\* Mutant of TimeOut: the deadline is looked at only once the flag is set.
TimeOutAfterFlag(c) ==
    /\ At(c, "wait")
    /\ m_CommandWaiting[c].first
    /\ timeouts' = [timeouts EXCEPT ![c] = @ + 1]
    /\ GoTo(c, "idle")
    /\ UNCHANGED <<netVars, slotVars, sent, got>>

\* The second is over: NULL, even if the flag has just been set.
TimeOut(c) ==
    /\ At(c, "wait")
    /\ timeouts' = [timeouts EXCEPT ![c] = @ + 1]
    /\ GoTo(c, "idle")
    /\ UNCHANGED <<netVars, slotVars, sent, got>>

\* Mutant of ClearFlag: the flag stays set.
KeepFlag(c) ==
    /\ At(c, "clear")
    /\ MutexFree
    /\ GoTo(c, "copy")
    /\ UNCHANGED <<netVars, slotVars, sent, timeouts, got>>

ClearFlag(c) ==
    /\ At(c, "clear")
    /\ MutexFree
    /\ m_CommandWaiting' = [m_CommandWaiting EXCEPT ![c].first = FALSE]
    /\ GoTo(c, "copy")
    /\ UNCHANGED <<netVars, storing, sent, timeouts, got>>

\* The payload is copied out of the slot without the lock.
CopyLow(c) ==
    /\ At(c, "copy")
    /\ caller' = [caller EXCEPT ![c] = [pc |-> "copyHigh", lo |-> m_CommandWaiting[c].lo]]
    /\ UNCHANGED <<netVars, slotVars, sent, timeouts, got>>

CopyHigh(c) ==
    /\ At(c, "copyHigh")
    /\ got' = [got EXCEPT ![c] = [call |-> sent[c], lo |-> caller[c].lo,
                                  hi |-> m_CommandWaiting[c].hi]]
    /\ caller' = [caller EXCEPT ![c] = [pc |-> "idle", lo |-> 0]]
    /\ UNCHANGED <<netVars, slotVars, sent, timeouts>>

-----------------------------------------------------------------------------
(* The listener, PacketParsingThread, when a packet is complete *)

StoreLow ==
    /\ MutexFree
    /\ responses # <<>>
    /\ storing' = Head(responses)
    /\ responses' = Tail(responses)
    /\ m_CommandWaiting' = [m_CommandWaiting EXCEPT ![storing'.cmd].lo = storing'.seq]
    /\ UNCHANGED <<requests, callVars>>

StoreHigh ==
    /\ ~MutexFree
    /\ m_CommandWaiting' =
         [m_CommandWaiting EXCEPT ![storing.cmd].hi = storing.seq, ![storing.cmd].first = TRUE]
    /\ storing' = NoPacket
    /\ UNCHANGED <<netVars, callVars>>

-----------------------------------------------------------------------------
(* The firmware takes one packet at a time, in order. *)

\* Mutant of l_HandleCommand: the answer carries a tag the GUI does not know.
AnswerWithWrongTag ==
    /\ requests # <<>>
    /\ requests' = Tail(requests)
    /\ responses' = IF Head(requests).cmd \in Answered
                    THEN Append(responses, [Head(requests) EXCEPT !.cmd = "none"])
                    ELSE responses
    /\ UNCHANGED <<slotVars, callVars>>

l_HandleCommand ==
    /\ requests # <<>>
    /\ requests' = Tail(requests)
    /\ responses' = IF Head(requests).cmd \in Answered
                    THEN Append(responses, Head(requests)) ELSE responses
    /\ UNCHANGED <<slotVars, callVars>>

\* A packet that never arrives: send() refused it on the non-blocking socket
\* (its result is ignored), a parser out of step rejected its checksum, or the
\* connection went and came back under it.
LoseRequest ==
    /\ requests # <<>>
    /\ requests' = Tail(requests)
    /\ UNCHANGED <<responses, slotVars, callVars>>

LoseResponse ==
    /\ responses # <<>>
    /\ responses' = Tail(responses)
    /\ UNCHANGED <<requests, slotVars, callVars>>

-----------------------------------------------------------------------------
Call(c) ==
    \/ BuildAndSendPacket(c)
    \/ PollHit(c)
    \/ TimeOut(c)
    \/ ClearFlag(c)
    \/ CopyLow(c)
    \/ CopyHigh(c)

Listen == StoreLow \/ StoreHigh

Next ==
    \/ \E c \in Commands : Call(c)
    \/ Listen
    \/ l_HandleCommand
    \/ LoseRequest
    \/ LoseResponse

Spec == Init /\ [][Next]_cmdVars

\* The threads of the GUI are scheduled, and a lock that is let go again and
\* again is eventually acquired.  Nothing is assumed of the firmware, of the
\* network, or of the user who makes the calls.
Fairness ==
    /\ WF_cmdVars(StoreHigh)
    /\ \A c \in Commands :
          /\ WF_cmdVars(PollHit(c) \/ TimeOut(c))
          /\ SF_cmdVars(ClearFlag(c))
          /\ WF_cmdVars(CopyLow(c) \/ CopyHigh(c))

FairSpec == Spec /\ Fairness

-----------------------------------------------------------------------------
(* Properties *)

\* Types, and the states of a call.
TypeOK ==
    /\ requests \in Seq(Packets)
    /\ responses \in Seq(Packets)
    /\ m_CommandWaiting \in [Commands -> [first : BOOLEAN, lo : Nat, hi : Nat]]
    /\ storing \in Packets \cup {NoPacket}
    /\ caller \in [Commands -> [pc : {"idle", "wait", "clear", "copy", "copyHigh"}, lo : Nat]]
    /\ sent \in [Commands -> Nat]
    /\ timeouts \in [Commands -> Nat]
    /\ got \in [Commands -> [call : Nat, lo : Nat, hi : Nat]]

\* Nothing ties an answer to its request, and the payload is copied without the
\* lock; what a call returns is nevertheless never older than the request by more
\* than the number of calls that have timed out before it, and never newer.  An
\* answer that comes after its call gave up is taken for the next call's, and the
\* delay is never made up; but it does not grow by itself.
LagBounded ==
    \A c \in Commands : \A half \in {got[c].lo, got[c].hi} :
        /\ half <= got[c].call
        /\ got[c].call <= half + timeouts[c]

\* Every call returns: with a payload or, at the latest after its second, with
\* nothing; a handler that does not answer cannot hold a thread of the GUI.
CallsReturn == \A c \in Commands : ~At(c, "idle") ~> At(c, "idle")
==============================================================================

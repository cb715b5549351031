---------------------------- MODULE FileTransfer -----------------------------
(* One file transfer end to end: the dialog's SendFile thread                 *)
(* (PCMonitorGUIDlg.cpp) calls Commander::SendFile, the firmware's            *)
(* l_ProcessSendFile (Server.cpp) turns each message into a call of the file  *)
(* store.  The two ends are the modules Commander and FileHelper; this module *)
(* adds what the messages say and what the thread makes of the answers.       *)
EXTENDS Naturals, Sequences

CONSTANTS
    EEPROM_PAGE_SIZE, LAST_PAGE, PAGE_MOD, LENGTH_MOD, CHECKSUM_MOD, DeviceFaults,
    Image,          \* what ParseHexFile made of the file: a non-empty sequence
    FAIL_LIMIT,     \* calls without an answer in a row before the thread gives up (10)
    MaxCalls,       \* bound: calls of Commander::SendFile
    MaxLost         \* bound: packets lost on the way

\* The sizes are those the file store asks for, and the image fits the device.
ASSUME TransferAssumption ==
    /\ EEPROM_PAGE_SIZE \in Nat /\ EEPROM_PAGE_SIZE >= 2
    /\ LAST_PAGE \in Nat /\ LAST_PAGE >= 1
    /\ PAGE_MOD \in Nat /\ LAST_PAGE < PAGE_MOD
    /\ LENGTH_MOD \in Nat /\ LENGTH_MOD > (LAST_PAGE + 1) * EEPROM_PAGE_SIZE
    /\ CHECKSUM_MOD \in Nat \ {0}
    /\ DeviceFaults \in BOOLEAN
    /\ Image \in Seq(Nat) /\ Len(Image) \in 1..((LAST_PAGE + 1) * EEPROM_PAGE_SIZE)
    /\ FAIL_LIMIT \in Nat \ {0}
    /\ MaxCalls \in Nat /\ MaxLost \in Nat

VARIABLES
    eeprom, FileBuffer, CurrentFileBufferPage, FileBufferDirty,
    FileLength, FileChecksum, fInfo, call, reported, unread,        \* FileHelper
    requests, responses, m_CommandWaiting, storing,
    caller, sent, timeouts, got,                                    \* Commander
    phase,      \* the loop SendFile is in
    index,      \* the byte it is at
    ack,
    failedmessagecount,
    messages,   \* what the n-th call sent
    answers,    \* what the firmware answered to it
    serving,    \* is the firmware inside l_ProcessSendFile?
    lost,       \* history: packets lost
    late        \* history: has a call returned the answer to an earlier one?

F == INSTANCE FileHelper WITH
        Indices <- {}, Payloads <- {}, ReadLengths <- {},
        InitialEEPROM <- [p \in 0..LAST_PAGE |-> [o \in 0..(EEPROM_PAGE_SIZE - 1) |-> 0]]

C == INSTANCE Commander WITH Commands <- {"SEND_FILE"}, Answered <- {"SEND_FILE"}

fileVars == <<eeprom, FileBuffer, CurrentFileBufferPage, FileBufferDirty,
              FileLength, FileChecksum, fInfo, call, reported, unread>>
cmdVars == <<requests, responses, m_CommandWaiting, storing, caller, sent, timeouts, got>>
dialogVars == <<phase, index, ack, failedmessagecount, messages, late>>
firmwareVars == <<answers, serving>>
vars == <<fileVars, cmdVars, dialogVars, firmwareVars, lost>>

SEND_FILE_RESET_INDEX == 16
SEND_FILE_FINALIZE_INDEX == 32
SEND_FILE_CLOSE_INDEX == 0
ACK_OK == 0

\* A message carries half a page at most.
CHUNK == EEPROM_PAGE_SIZE \div 2

Init ==
    /\ F!Init
    /\ C!Init
    /\ phase = "reset"
    /\ index = 0
    /\ ack = 1
    /\ failedmessagecount = 0
    /\ messages = <<>>
    /\ answers = [n \in 1..MaxCalls |-> ACK_OK]
    /\ serving = FALSE
    /\ lost = 0
    /\ late = FALSE

-----------------------------------------------------------------------------
(* The SendFile thread *)

CallerIdle == C!At("SEND_FILE", "idle")

\* Mutant of LoopGoesOn: one failure too many is allowed.
LoopGoesOnOnceMore ==
    /\ failedmessagecount <= FAIL_LIMIT
    /\ IF phase = "data" THEN index < Len(Image) ELSE ack # ACK_OK

LoopGoesOn ==
    /\ failedmessagecount < FAIL_LIMIT
    /\ IF phase = "data" THEN index < Len(Image) ELSE ack # ACK_OK

Chunk ==
    LET size == IF CHUNK > Len(Image) - index THEN Len(Image) - index ELSE CHUNK
    IN  SubSeq(Image, index + 1, index + size)

Message ==
    CASE phase = "reset"    -> [index |-> SEND_FILE_RESET_INDEX, data |-> <<>>]
      [] phase = "data"     -> [index |-> index, data |-> Chunk]
      [] phase = "close"    -> [index |-> SEND_FILE_CLOSE_INDEX, data |-> <<>>]
      [] phase = "finalize" -> [index |-> SEND_FILE_FINALIZE_INDEX, data |-> <<>>]

\* A loop's body starts with the call.
SendMessage ==
    /\ phase # "done"
    /\ LoopGoesOn
    /\ C!BuildAndSendPacket("SEND_FILE")
    /\ messages' = Append(messages, Message)
    /\ UNCHANGED <<fileVars, phase, index, ack, failedmessagecount, late, firmwareVars, lost>>

\* Mutant of NextPhase: no CLOSE is sent.
NextPhaseUnclosed == [reset |-> "data", data |-> "finalize", finalize |-> "done"]

NextPhase ==
    [reset |-> "data", data |-> "close", close |-> "finalize", finalize |-> "done"]

\* A loop ends; ack is set for the next one.
LeaveLoop ==
    /\ phase # "done"
    /\ CallerIdle
    /\ ~LoopGoesOn
    /\ phase' = NextPhase[phase]
    /\ ack' = 1
    /\ UNCHANGED <<fileVars, cmdVars, index, failedmessagecount, messages, late, firmwareVars, lost>>

\* Mutant of CallFails: the failure is not counted.
CallFailsUncounted ==
    /\ C!TimeOut("SEND_FILE")
    /\ UNCHANGED <<fileVars, phase, index, ack, failedmessagecount, messages, late,
                   firmwareVars, lost>>

\* A call gave up.
CallFails ==
    /\ C!TimeOut("SEND_FILE")
    /\ failedmessagecount' = failedmessagecount + 1
    /\ UNCHANGED <<fileVars, phase, index, ack, messages, late, firmwareVars, lost>>

\* A call returns an answer.  It is taken for the answer to this message, and
\* any answer, a refusal too, resets the count of failures.
CallReturns ==
    /\ C!CopyHigh("SEND_FILE")
    /\ LET answer == got'["SEND_FILE"].hi IN
          /\ ack' = answers[answer]
          /\ late' = (late \/ answer # sent["SEND_FILE"])
    /\ failedmessagecount' = 0
    /\ index' = IF phase = "data" /\ ack' = ACK_OK THEN index + CHUNK ELSE index
    /\ UNCHANGED <<fileVars, phase, messages, firmwareVars, lost>>

\* The other steps of a call, and the listener.
CallStep ==
    /\ \/ C!PollHit("SEND_FILE")
       \/ C!ClearFlag("SEND_FILE")
       \/ C!CopyLow("SEND_FILE")
       \/ C!Listen
    /\ UNCHANGED <<fileVars, dialogVars, firmwareVars, lost>>

-----------------------------------------------------------------------------
(* The firmware *)

Arrived == messages[Head(requests).seq]

\* l_ProcessSendFile up to its call of the file store.
l_ProcessSendFile ==
    /\ requests # <<>>
    /\ ~serving
    /\ serving' = TRUE
    /\ \/ /\ Arrived.data # <<>>
          /\ F!File_write(Arrived.index, Arrived.data)
       \/ /\ Arrived.data = <<>>
          /\ Arrived.index = SEND_FILE_RESET_INDEX
          /\ F!File_reset
       \/ /\ Arrived.data = <<>>
          /\ Arrived.index = SEND_FILE_FINALIZE_INDEX
          /\ F!File_finalize
       \/ /\ Arrived.data = <<>>
          /\ Arrived.index \notin {SEND_FILE_RESET_INDEX, SEND_FILE_FINALIZE_INDEX}
          /\ F!File_flush
    /\ UNCHANGED <<cmdVars, dialogVars, answers, lost>>

StoreStep ==
    /\ \/ F!SwitchPage
       \/ F!WriteByte
       \/ F!WriteReturn
    /\ UNCHANGED <<cmdVars, dialogVars, firmwareVars, lost>>

\* The call of the file store has returned: its status is the answer.  For a
\* reset and for a finalize the answer is ACK_OK, whatever happened.
SendAnswer ==
    /\ serving
    /\ F!Idle
    /\ C!l_HandleCommand
    /\ answers' = [answers EXCEPT ![Head(requests).seq] = call.status]
    /\ serving' = FALSE
    /\ UNCHANGED <<fileVars, dialogVars, lost>>

-----------------------------------------------------------------------------
Lose ==
    /\ lost < MaxLost
    /\ lost' = lost + 1
    /\ \/ ~serving /\ C!LoseRequest
       \/ C!LoseResponse
    /\ UNCHANGED <<fileVars, dialogVars, firmwareVars>>

Next ==
    \/ SendMessage
    \/ LeaveLoop
    \/ CallFails
    \/ CallReturns
    \/ CallStep
    \/ l_ProcessSendFile
    \/ StoreStep
    \/ SendAnswer
    \/ Lose

Spec == Init /\ [][Next]_vars

\* The GUI's threads run; nothing is assumed of the firmware or the network.
Fairness ==
    /\ WF_vars(SendMessage \/ LeaveLoop \/ CallReturns)
    /\ WF_vars(CallFails \/ (C!PollHit("SEND_FILE") /\ CallStep))
    /\ WF_vars(CallStep)

FairSpec == Spec /\ Fairness

-----------------------------------------------------------------------------
(* Properties *)

Stored(a) == eeprom[a \div EEPROM_PAGE_SIZE][a % EEPROM_PAGE_SIZE]

\* The types of the thread's and the firmware's own variables, and the numbers
\* that tie messages to calls.
TypeOK ==
    /\ F!TypeOK
    /\ C!TypeOK
    /\ phase \in {"reset", "data", "close", "finalize", "done"}
    /\ index \in 0..(Len(Image) + CHUNK)
    /\ ack \in {0, 1}
    /\ failedmessagecount \in 0..FAIL_LIMIT
    /\ Len(messages) = sent["SEND_FILE"]
    /\ answers \in [1..MaxCalls -> {F!OK, F!ERROR}]
    /\ serving \in BOOLEAN
    /\ lost \in 0..MaxLost
    /\ late \in BOOLEAN

\* When the firmware comes to its first FINALIZE message the whole image is on
\* the device, the half-filled last page included, unless packets were lost AND
\* answers came late.  Late answers alone put the thread ahead of the firmware,
\* but the messages are all delivered, in order; losses alone are noticed and
\* the message is sent again.  (FINALIZE itself then puts its record over the
\* bytes of the image that went to page 0, see DataKeepsOffInfoPage.)
ImageSavedBeforeFinalize ==
    [][/\ l_ProcessSendFile
       /\ Arrived = [index |-> SEND_FILE_FINALIZE_INDEX, data |-> <<>>]
       /\ call.op # "File_finalize"
       /\ ~(late /\ lost > 0)
       => \A a \in 0..(Len(Image) - 1) : Stored(a) = Image[a + 1]]_vars

\* FileHelper.h:6-7 gives page 0 to the information record and starts the data
\* at page 1: file data is never put in the information page.
DataKeepsOffInfoPage == FileBufferDirty => CurrentFileBufferPage # F!FILE_INFO_PAGE

\* The thread ends, answers or no answers: it is joined by the window when it
\* closes.
TransferEnds == <>(phase = "done")
==============================================================================

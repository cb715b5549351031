----------------------------- MODULE FileHelper ------------------------------
(* The firmware's file store (PC_Monitor_Hardware/FileHelper.cpp): a file on  *)
(* an EEPROM behind a write-back buffer of one page.  The firmware is one     *)
(* thread, so a call runs alone; it is split where the code loops, because    *)
(* the power can go at any point and because a call that fails half way       *)
(* leaves the state the steps before it made.                                 *)
(*                                                                            *)
(* Data is abstracted to cells.  The information page keeps its record in two *)
(* cells, the length in cell 0 and the checksum in cell 1.                    *)
EXTENDS Naturals, Sequences

CONSTANTS
    EEPROM_PAGE_SIZE,   \* cells of a page
    LAST_PAGE,          \* the device has the pages 0..LAST_PAGE
    PAGE_MOD,           \* page numbers count modulo this (2^16)
    LENGTH_MOD,         \* FileLength counts modulo this (2^32)
    CHECKSUM_MOD,       \* FileChecksum counts modulo this (2^16)
    Indices,            \* the byte addresses callers ask for
    Payloads,           \* the byte strings callers write
    ReadLengths,        \* the lengths callers read
    DeviceFaults,       \* may a transfer to or from the device fail?
    InitialEEPROM       \* what the device holds when it is first powered

FILE_INFO_PAGE == 0
FILE_DATA_PAGE == 1

Pages == 0..LAST_PAGE
Offsets == 0..(EEPROM_PAGE_SIZE - 1)
PageContents == [Offsets -> Nat]

ASSUME SizeAssumption ==
    /\ EEPROM_PAGE_SIZE \in Nat /\ EEPROM_PAGE_SIZE >= 2
    /\ LAST_PAGE \in Nat /\ LAST_PAGE >= FILE_DATA_PAGE
    /\ PAGE_MOD \in Nat /\ LAST_PAGE < PAGE_MOD
    /\ LENGTH_MOD \in Nat /\ LENGTH_MOD > (LAST_PAGE + 1) * EEPROM_PAGE_SIZE
    /\ CHECKSUM_MOD \in Nat \ {0}

\* The addresses callers ask for have page numbers of 16 bits.
ASSUME CallerAssumption ==
    /\ Indices \subseteq Nat
    /\ Payloads \subseteq Seq(Nat) \ {<<>>}
    /\ ReadLengths \subseteq Nat \ {0}
    /\ \A index \in Indices : \A len \in ReadLengths \cup {Len(buf) : buf \in Payloads} :
          index + len <= PAGE_MOD * EEPROM_PAGE_SIZE

ASSUME DeviceAssumption ==
    /\ DeviceFaults \in BOOLEAN
    /\ InitialEEPROM \in [Pages -> PageContents]

VARIABLES
    eeprom,                 \* the device: survives a power cut
    FileBuffer,             \* the page buffer
    CurrentFileBufferPage,  \* the page it stands for
    FileBufferDirty,        \* is it ahead of the device?
    FileLength,
    FileChecksum,
    fInfo,                  \* the information record as last read or written
    call,                   \* the call in progress, or the last one
    reported,               \* history: has a call answered with an error since
                            \* File_init last read the buffer?
    unread                  \* history: did that read fail, with no page loaded
                            \* since?  Its status is dropped: no call says so

bufferVars == <<FileBuffer, CurrentFileBufferPage, FileBufferDirty>>
infoVars == <<FileLength, FileChecksum, fInfo>>
fileVars == <<eeprom, bufferVars, infoVars, call, reported, unread>>

-----------------------------------------------------------------------------
(* The device (the extEEPROM library).  A transfer moves cells in order and   *)
(* may stop part way; an address outside the device moves nothing.            *)

OK == 0
ERROR == 1

\* The first n cells come from new, the rest from old.
Mixed(old, new, n) == [o \in Offsets |-> IF o < n THEN new[o] ELSE old[o]]

\* Reading page p of the device content mem over a buffer that held old.
ReadOutcomes(mem, p, old) ==
    IF p \in Pages
    THEN {[buf |-> mem[p], status |-> OK]} \cup
         {[buf |-> Mixed(old, mem[p], n), status |-> ERROR] :
             n \in IF DeviceFaults THEN Offsets ELSE {}}
    ELSE {[buf |-> old, status |-> ERROR]}

\* Writing the buffer buf over page p of the device.
WriteOutcomes(p, buf) ==
    {[mem |-> [eeprom EXCEPT ![p] = buf], status |-> OK]} \cup
    {[mem |-> [eeprom EXCEPT ![p] = Mixed(eeprom[p], buf, n)], status |-> ERROR] :
        n \in IF DeviceFaults THEN Offsets ELSE {}}

\* Reading the information record over the copy in memory.  Both callers
\* ignore the status.
InfoOutcomes(mem) ==
    LET read == [length |-> mem[FILE_INFO_PAGE][0], checksum |-> mem[FILE_INFO_PAGE][1]]
    IN  {read} \cup (IF DeviceFaults THEN {fInfo, [fInfo EXCEPT !.length = read.length]} ELSE {})

\* Writing the record info: how far its two cells may get.
WithInfo(info, n) ==
    [eeprom EXCEPT ![FILE_INFO_PAGE] =
        [o \in Offsets |-> IF o < n /\ o = 0 THEN info.length
                           ELSE IF o < n /\ o = 1 THEN info.checksum
                           ELSE eeprom[FILE_INFO_PAGE][o]]]

-----------------------------------------------------------------------------
(* Calls *)

Running == 2

Idle == call.status # Running

NoCall(op, status) ==
    [op |-> op, index |-> 0, len |-> 0, i |-> 0, buf |-> <<>>, status |-> status]

\* Mutant of Return: the error is swallowed.
ReturnSuccess(status) ==
    /\ call' = NoCall(call.op, OK)
    /\ UNCHANGED reported

Return(status) ==
    /\ call' = NoCall(call.op, status)
    /\ reported' = (reported \/ status # OK)

\* The loops of File_write and File_read keep desiredpage and pageoffset; both
\* are functions of the address of the byte they are at.
desiredpage == (call.index + call.i) \div EEPROM_PAGE_SIZE
pageoffset == (call.index + call.i) % EEPROM_PAGE_SIZE

InLoop == call.status = Running /\ call.i < call.len

\* The buffer overlaid on the device: the file as a reader sees it.
View == [eeprom EXCEPT ![CurrentFileBufferPage] = FileBuffer]

\* Mutant of FlushOutcomes: the buffer always goes to the page File_init loads.
FlushToDataPage ==
    IF FileBufferDirty
    THEN WriteOutcomes(FILE_DATA_PAGE, FileBuffer)
    ELSE {[mem |-> eeprom, status |-> OK]}

\* The outcomes of File_flush as its callers see them.
FlushOutcomes ==
    IF FileBufferDirty
    THEN WriteOutcomes(CurrentFileBufferPage, FileBuffer)
    ELSE {[mem |-> eeprom, status |-> OK]}

\* A run of File_init on the device content mem, over a buffer that held old.
\* The dirty flag is left alone.  The status of the read of the record is
\* dropped, and so is that of the buffer: File_reset is void, and the firmware
\* answers 0 to the RESET message.
InitBuffer(mem, old) ==
    /\ CurrentFileBufferPage' = FILE_DATA_PAGE
    /\ \E r \in ReadOutcomes(mem, FILE_DATA_PAGE, old) :
          /\ FileBuffer' = r.buf
          /\ unread' = (r.status # OK)
    /\ reported' = FALSE
    /\ fInfo' \in InfoOutcomes(mem)

Init ==
    /\ eeprom = InitialEEPROM
    /\ CurrentFileBufferPage = FILE_DATA_PAGE
    /\ FileBufferDirty = FALSE
    /\ FileLength = 0
    /\ FileChecksum = 0
    /\ fInfo = [length |-> InitialEEPROM[FILE_INFO_PAGE][0],
                checksum |-> InitialEEPROM[FILE_INFO_PAGE][1]]
    /\ FileBuffer = InitialEEPROM[FILE_DATA_PAGE]
    /\ reported = FALSE
    /\ unread = FALSE
    /\ call = NoCall("File_init", OK)

-----------------------------------------------------------------------------
(* File_write and File_read *)

\* Mutant of File_write: the loop runs while i <= len.
File_writeOneMore(index, buf) ==
    /\ Idle
    /\ call' = [op |-> "File_write", index |-> index, len |-> Len(buf) + 1, i |-> 0,
                buf |-> buf, status |-> Running]
    /\ UNCHANGED <<eeprom, bufferVars, infoVars, reported, unread>>

File_write(index, buf) ==
    /\ Idle
    /\ call' = [op |-> "File_write", index |-> index, len |-> Len(buf), i |-> 0,
                buf |-> buf, status |-> Running]
    /\ UNCHANGED <<eeprom, bufferVars, infoVars, reported, unread>>

File_read(index, len) ==
    /\ Idle
    /\ call' = [op |-> "File_read", index |-> index, len |-> len, i |-> 0,
                buf |-> <<>>, status |-> Running]
    /\ UNCHANGED <<eeprom, bufferVars, infoVars, reported, unread>>

\* Mutant of SwitchPage: the other page is loaded without saving this one.
SwitchPageUnsaved ==
    /\ InLoop
    /\ desiredpage # CurrentFileBufferPage
    /\ FileBufferDirty' = FALSE
    /\ \E r \in ReadOutcomes(eeprom, desiredpage, FileBuffer) :
          /\ FileBuffer' = r.buf
          /\ \/ /\ r.status # OK
                /\ Return(r.status)
                /\ UNCHANGED <<CurrentFileBufferPage, unread>>
             \/ /\ r.status = OK
                /\ CurrentFileBufferPage' = desiredpage
                /\ unread' = FALSE
                /\ UNCHANGED <<call, reported>>
    /\ UNCHANGED <<eeprom, infoVars>>

\* Top of both loops, when the byte is on another page: save the buffer, load
\* the other page.  The dirty flag falls whether or not the save worked, and a
\* load that fails leaves the page number alone.
SwitchPage ==
    /\ InLoop
    /\ desiredpage # CurrentFileBufferPage
    /\ FileBufferDirty' = FALSE
    /\ \E f \in FlushOutcomes :
          /\ eeprom' = f.mem
          /\ \/ /\ f.status # OK
                /\ Return(f.status)
                /\ UNCHANGED <<FileBuffer, CurrentFileBufferPage, unread>>
             \/ /\ f.status = OK
                /\ \E r \in ReadOutcomes(f.mem, desiredpage, FileBuffer) :
                      /\ FileBuffer' = r.buf
                      /\ \/ /\ r.status # OK
                            /\ Return(r.status)
                            /\ UNCHANGED <<CurrentFileBufferPage, unread>>
                         \/ /\ r.status = OK
                            /\ CurrentFileBufferPage' = desiredpage
                            /\ unread' = FALSE
                            /\ UNCHANGED <<call, reported>>
    /\ UNCHANGED infoVars

\* Mutant of WriteByte: the last byte alone decides whether the page is dirty.
WriteByteLastDecides ==
    /\ InLoop
    /\ call.op = "File_write"
    /\ desiredpage = CurrentFileBufferPage
    /\ LET byte == call.buf[call.i + 1] IN
          /\ FileBufferDirty' = (FileBuffer[pageoffset] # byte)
          /\ FileBuffer' = [FileBuffer EXCEPT ![pageoffset] = byte]
    /\ call' = [call EXCEPT !.i = @ + 1]
    /\ UNCHANGED <<eeprom, CurrentFileBufferPage, infoVars, reported, unread>>

\* The rest of File_write's loop body.
WriteByte ==
    /\ InLoop
    /\ call.op = "File_write"
    /\ desiredpage = CurrentFileBufferPage
    /\ LET byte == call.buf[call.i + 1] IN
          /\ FileBufferDirty' = (FileBufferDirty \/ FileBuffer[pageoffset] # byte)
          /\ FileBuffer' = [FileBuffer EXCEPT ![pageoffset] = byte]
    /\ call' = [call EXCEPT !.i = @ + 1]
    /\ UNCHANGED <<eeprom, CurrentFileBufferPage, infoVars, reported, unread>>

\* The rest of File_read's loop body.
ReadByte ==
    /\ InLoop
    /\ call.op = "File_read"
    /\ desiredpage = CurrentFileBufferPage
    /\ call' = [call EXCEPT !.i = @ + 1, !.buf = Append(@, FileBuffer[pageoffset])]
    /\ UNCHANGED <<eeprom, bufferVars, infoVars, reported, unread>>

\* Mutant of LengthAfter: the pages before the data are counted.
LengthFromStart(end) == IF end > FileLength THEN end ELSE FileLength

\* The address after the last byte, counted from the start of the device, is
\* compared with the length; what is stored counts from FILE_DATA_PAGE.
LengthAfter(end) ==
    IF end > FileLength
    THEN (end + LENGTH_MOD - FILE_DATA_PAGE * EEPROM_PAGE_SIZE) % LENGTH_MOD
    ELSE FileLength

WriteReturn ==
    /\ call.status = Running
    /\ call.op = "File_write"
    /\ call.i = call.len
    /\ FileLength' = LengthAfter(call.index + call.len)
    /\ Return(OK)
    /\ UNCHANGED <<eeprom, bufferVars, FileChecksum, fInfo, unread>>

\* The bytes read are kept until the next call.
ReadReturn ==
    /\ call.status = Running
    /\ call.op = "File_read"
    /\ call.i = call.len
    /\ call' = [call EXCEPT !.status = OK]
    /\ UNCHANGED <<eeprom, bufferVars, infoVars, reported, unread>>

-----------------------------------------------------------------------------
(* File_flush, File_reset and File_finalize *)

File_flush ==
    /\ Idle
    /\ \E f \in FlushOutcomes :
          /\ eeprom' = f.mem
          /\ call' = NoCall("File_flush", f.status)
          /\ reported' = (reported \/ f.status # OK)
    /\ FileBufferDirty' = FALSE
    /\ UNCHANGED <<FileBuffer, CurrentFileBufferPage, infoVars, unread>>

File_reset ==
    /\ Idle
    /\ FileLength' = 0
    /\ FileChecksum' = 0
    /\ InitBuffer(eeprom, FileBuffer)
    /\ call' = NoCall("File_reset", OK)
    /\ UNCHANGED <<eeprom, FileBufferDirty>>

\* Byte i of the file on the device.  The page number wraps; a read outside the
\* device fails, and the local buffer keeps the last page that was read.
FileByte(i) ==
    LET page == (FILE_DATA_PAGE + i \div EEPROM_PAGE_SIZE) % PAGE_MOD
    IN  eeprom[IF page \in Pages THEN page ELSE LAST_PAGE][i % EEPROM_PAGE_SIZE]

\* The sum File_finalize's loop makes when every read works.
DataSum ==
    LET sum[n \in 0..FileLength] == IF n = 0 THEN 0 ELSE sum[n - 1] + FileByte(n - 1)
    IN  sum[FileLength] % CHECKSUM_MOD

\* With a failed read the loop adds up whatever the local buffer held.
Checksums ==
    {c \in 0..(CHECKSUM_MOD - 1) : DeviceFaults \/ c = DataSum}

\* Mutant of File_finalize: only the lengths are compared.
File_finalizeByLength ==
    /\ Idle
    /\ \E sum \in Checksums, read \in InfoOutcomes(eeprom) :
          LET info == [length |-> FileLength, checksum |-> sum] IN
          /\ FileChecksum' = sum
          /\ fInfo' = info
          /\ eeprom' = IF read.length = info.length THEN eeprom ELSE WithInfo(info, 2)
    /\ call' = NoCall("File_finalize", OK)
    /\ UNCHANGED <<bufferVars, FileLength, reported, unread>>

\* The page buffer is neither saved nor consulted.
File_finalize ==
    /\ Idle
    /\ \E sum \in Checksums, read \in InfoOutcomes(eeprom) :
          LET info == [length |-> FileLength, checksum |-> sum] IN
          /\ FileChecksum' = sum
          /\ fInfo' = info
          /\ \/ /\ read = info
                /\ UNCHANGED eeprom
             \/ /\ read # info
                /\ \E n \in IF DeviceFaults THEN 0..2 ELSE {2} : eeprom' = WithInfo(info, n)
    /\ call' = NoCall("File_finalize", OK)
    /\ UNCHANGED <<bufferVars, FileLength, reported, unread>>

-----------------------------------------------------------------------------
(* The power goes and comes back: RAM is cleared and setup() runs File_init.  *)
(* A write of the page buffer, or of the record, may be cut short.            *)

FlushPending == FileBufferDirty /\ (Idle \/ (InLoop /\ desiredpage # CurrentFileBufferPage))

CutOutcomes ==
    {eeprom}
    \cup {[eeprom EXCEPT ![CurrentFileBufferPage] =
              Mixed(eeprom[CurrentFileBufferPage], FileBuffer, n)] :
             n \in IF FlushPending THEN Offsets ELSE {}}
    \cup {WithInfo([length |-> FileLength, checksum |-> 0], n) : n \in IF Idle THEN {1} ELSE {}}

PowerCycle ==
    /\ \E mem \in CutOutcomes :
          /\ eeprom' = mem
          /\ InitBuffer(mem, [o \in Offsets |-> 0])
    /\ FileBufferDirty' = FALSE
    /\ FileLength' = 0
    /\ FileChecksum' = 0
    /\ call' = NoCall("File_init", OK)

-----------------------------------------------------------------------------
Operation ==
    \/ \E index \in Indices, buf \in Payloads : File_write(index, buf)
    \/ \E index \in Indices, len \in ReadLengths : File_read(index, len)
    \/ SwitchPage
    \/ WriteByte
    \/ ReadByte
    \/ WriteReturn
    \/ ReadReturn
    \/ File_flush
    \/ File_reset
    \/ File_finalize

Next == Operation \/ PowerCycle

Spec == Init /\ [][Next]_fileVars

-----------------------------------------------------------------------------
(* Properties *)

Calls ==
    [op : {"File_init", "File_write", "File_read", "File_flush", "File_reset", "File_finalize"},
     index : Nat, len : Nat, i : Nat, buf : Seq(Nat), status : {OK, ERROR, Running}]

\* A call in progress is one of the two that loop, inside its loop's bounds.
CallOK ==
    /\ call \in Calls
    /\ call.i <= call.len
    /\ call.op = "File_write" /\ call.status = Running => call.len = Len(call.buf)
    /\ call.op = "File_read" => call.i = Len(call.buf)
    /\ call.status = Running => call.op \in {"File_write", "File_read"}

\* The types of the variables, and the bounds of the loop a call is in.
TypeOK ==
    /\ eeprom \in [Pages -> PageContents]
    /\ FileBuffer \in PageContents
    /\ CurrentFileBufferPage \in Pages
    /\ FileBufferDirty \in BOOLEAN
    /\ FileLength \in 0..(LENGTH_MOD - 1)
    /\ FileChecksum \in 0..(CHECKSUM_MOD - 1)
    /\ fInfo \in [length : Nat, checksum : Nat]
    /\ CallOK
    /\ reported \in BOOLEAN
    /\ unread \in BOOLEAN

\* A clean buffer holds what the device holds, whatever calls were made in
\* between, resets and power cuts included: the flag that decides whether a page
\* is saved may never say "clean" of a page that is ahead of the device.  (The
\* information page is written behind the buffer's back by File_finalize.)
Coherence ==
    ~FileBufferDirty /\ CurrentFileBufferPage # FILE_INFO_PAGE =>
        FileBuffer = eeprom[CurrentFileBufferPage]

\* With a device that fails, bytes may be lost, but of the transfers a call
\* makes on its way none is lost behind the callers' backs: as long as no call
\* has answered with an error since File_init read the buffer, a clean buffer
\* agrees with the device.  The one exception is that read itself: when it fails
\* nobody hears of it, and the buffer may disagree until a page is loaded.
LossIsReported == ~reported /\ ~unread => Coherence

\* What File_read has copied so far is what was last written at those
\* addresses, saved or not, on whichever side of a page switch.
ReadsSeeWrites ==
    call.op = "File_read" /\ call.status # ERROR =>
        \A j \in 1..Len(call.buf) :
            LET a == call.index + j - 1
            IN  call.buf[j] = View[a \div EEPROM_PAGE_SIZE][a % EEPROM_PAGE_SIZE]

\* The length, which bounds File_finalize's loop, stays within the data pages
\* as long as callers keep off the information page.
LengthWithinData == FileLength <= LAST_PAGE * EEPROM_PAGE_SIZE

\* When File_finalize is done, the record on the device gives the length and
\* the checksum of the data on the device, whether or not it had to be written,
\* as long as callers keep off the information page (a length that has wrapped
\* makes the loop read the information page as well).
FinalizedRecordIsCurrent ==
    call.op = "File_finalize" =>
        /\ eeprom[FILE_INFO_PAGE][0] = FileLength
        /\ eeprom[FILE_INFO_PAGE][1] = DataSum

\* "A 0 length message forces a flush of whatever is in the page buffer"
\* (Server.cpp:355): when File_flush answers 0, the device holds the buffer.
FlushForcesBuffer ==
    call.op = "File_flush" /\ call.status = OK /\ CurrentFileBufferPage # FILE_INFO_PAGE =>
        eeprom[CurrentFileBufferPage] = FileBuffer

\* The store is a written-through memory that is at most one page ahead of its
\* device, and that page is only ever lost to a start or a reset of the store:
\* page switches, reads, flushes and calls that fail half way lose nothing.
Restarted == call.op \in {"File_init", "File_reset"}
ABS == INSTANCE ByteStore WITH
          mem <- View, disk <- eeprom, restarted <- Restarted, InfoPage <- FILE_INFO_PAGE
RefinesByteStore == ABS!Spec
==============================================================================

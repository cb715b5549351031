-------------------------- MODULE FileHelper_proofs --------------------------
(* What the file store of FileHelper.cpp guarantees for every page size,      *)
(* device size, payload and device content, proved from the definitions of    *)
(* FileHelper.                                                                *)
EXTENDS FileHelper, TLAPS

-----------------------------------------------------------------------------
(* Arithmetic of addresses, and the values the device hands out *)

\* An address splits into a page and an offset inside it.
LEMMA PageArithmetic ==
    ASSUME NEW a \in Nat
    PROVE  /\ a \div EEPROM_PAGE_SIZE \in Nat
           /\ a % EEPROM_PAGE_SIZE \in Offsets
           /\ a = EEPROM_PAGE_SIZE * (a \div EEPROM_PAGE_SIZE) + (a % EEPROM_PAGE_SIZE)
  <1>1. EEPROM_PAGE_SIZE \in Nat /\ EEPROM_PAGE_SIZE > 0
    BY SizeAssumption
  <1> QED
    BY <1>1 DEF Offsets

\* A cut transfer leaves a page.
LEMMA MixedIsPage ==
    ASSUME NEW old \in PageContents, NEW new \in PageContents, NEW n \in Nat
    PROVE  Mixed(old, new, n) \in PageContents
  BY DEF Mixed, PageContents

\* The data page the buffer starts at exists, and so does the record.
LEMMA KnownPages == FILE_INFO_PAGE \in Pages /\ FILE_DATA_PAGE \in Pages
                    /\ 0 \in Offsets /\ 1 \in Offsets
  BY SizeAssumption DEF FILE_INFO_PAGE, FILE_DATA_PAGE, Pages, Offsets

\* A reset length and a reset checksum fit their widths.
LEMMA ZeroInRange == 0 \in 0..(LENGTH_MOD - 1) /\ 0 \in 0..(CHECKSUM_MOD - 1)
  <1>1. (LAST_PAGE + 1) * EEPROM_PAGE_SIZE >= 0
    BY SizeAssumption
  <1> QED
    BY <1>1, SizeAssumption

\* A read hands back a page; without an error it is the page asked for, and
\* there is an error only from a device that fails or from outside of it.
LEMMA ReadFacts ==
    ASSUME NEW mem \in [Pages -> PageContents], NEW p \in Nat,
           NEW old \in PageContents, NEW r \in ReadOutcomes(mem, p, old)
    PROVE  /\ r.buf \in PageContents
           /\ r.status \in {OK, ERROR}
           /\ r.status = OK => p \in Pages /\ r.buf = mem[p]
           /\ r.status # OK /\ ~DeviceFaults => p \notin Pages /\ r.buf = old
  <1> USE DeviceAssumption DEF OK, ERROR
  <1>1. CASE p \in Pages
    <2>1. mem[p] \in PageContents
      BY <1>1
    <2>2. CASE r = [buf |-> mem[p], status |-> OK]
      BY <2>1, <2>2, <1>1
    <2>3. CASE \E n \in IF DeviceFaults THEN Offsets ELSE {} :
                  r = [buf |-> Mixed(old, mem[p], n), status |-> ERROR]
      <3>1. PICK n \in Offsets : DeviceFaults /\ r = [buf |-> Mixed(old, mem[p], n), status |-> ERROR]
        BY <2>3
      <3>2. n \in Nat
        BY <3>1, SizeAssumption DEF Offsets
      <3>3. r.buf \in PageContents
        BY <3>1, <3>2, <2>1, MixedIsPage
      <3>4. r.status = ERROR /\ DeviceFaults
        BY <3>1
      <3> QED
        BY <3>3, <3>4
    <2> QED
      BY <1>1, <2>2, <2>3 DEF ReadOutcomes
  <1>2. CASE p \notin Pages
    BY <1>2 DEF ReadOutcomes
  <1> QED
    BY <1>1, <1>2

\* The outcomes of saving the buffer: only the buffered page may change, and if
\* there is no error it is saved.
LEMMA FlushFacts ==
    ASSUME TypeOK, NEW f \in FlushOutcomes
    PROVE  /\ f.mem \in [Pages -> PageContents]
           /\ f.status \in {OK, ERROR}
           /\ ~DeviceFaults => f.status = OK
           /\ f.status = OK => f.mem = IF FileBufferDirty THEN View ELSE eeprom
  <1> USE DeviceAssumption DEF OK, ERROR, TypeOK
  <1>1. CASE ~FileBufferDirty
    BY <1>1 DEF FlushOutcomes
  <1>2. CASE FileBufferDirty
    <2>1. CASE f = [mem |-> [eeprom EXCEPT ![CurrentFileBufferPage] = FileBuffer], status |-> OK]
      BY <1>2, <2>1 DEF View
    <2>2. CASE \E n \in IF DeviceFaults THEN Offsets ELSE {} :
                  f = [mem |-> [eeprom EXCEPT ![CurrentFileBufferPage] =
                          Mixed(eeprom[CurrentFileBufferPage], FileBuffer, n)], status |-> ERROR]
      <3>1. PICK n \in Offsets : 
                  DeviceFaults /\ f = [mem |-> [eeprom EXCEPT ![CurrentFileBufferPage] =
                          Mixed(eeprom[CurrentFileBufferPage], FileBuffer, n)], status |-> ERROR]
        BY <2>2
      <3>2. Mixed(eeprom[CurrentFileBufferPage], FileBuffer, n) \in PageContents
        BY <3>1, SizeAssumption, MixedIsPage DEF Offsets
      <3> QED
        BY <3>1, <3>2
    <2> QED
      BY <1>2, <2>1, <2>2 DEF FlushOutcomes, WriteOutcomes
  <1> QED
    BY <1>1, <1>2 DEF TypeOK

\* A record written over the information page leaves every other page alone.
LEMMA InfoFacts ==
    ASSUME TypeOK, NEW info \in [length : Nat, checksum : Nat], NEW n \in Nat
    PROVE  /\ WithInfo(info, n) \in [Pages -> PageContents]
           /\ WithInfo(info, n) = [eeprom EXCEPT ![FILE_INFO_PAGE] = WithInfo(info, n)[FILE_INFO_PAGE]]
  <1> DEFINE cells == [o \in Offsets |-> IF o < n /\ o = 0 THEN info.length
                           ELSE IF o < n /\ o = 1 THEN info.checksum
                           ELSE eeprom[FILE_INFO_PAGE][o]]
  <1>1. cells \in PageContents
    BY KnownPages DEF TypeOK, PageContents
  <1>2. WithInfo(info, n) = [eeprom EXCEPT ![FILE_INFO_PAGE] = cells]
    BY DEF WithInfo
  <1> HIDE DEF cells
  <1> QED
    BY <1>1, <1>2, KnownPages DEF TypeOK

\* A copy of the record holds numbers.
LEMMA InfoOutcomesType ==
    ASSUME TypeOK, NEW mem \in [Pages -> PageContents], NEW read \in InfoOutcomes(mem)
    PROVE  read \in [length : Nat, checksum : Nat]
  <1> DEFINE rec == [length |-> mem[FILE_INFO_PAGE][0], checksum |-> mem[FILE_INFO_PAGE][1]]
  <1>1. rec \in [length : Nat, checksum : Nat]
    BY KnownPages DEF PageContents
  <1>2. fInfo \in [length : Nat, checksum : Nat]
    BY DEF TypeOK
  <1>3. read \in {rec, fInfo, [fInfo EXCEPT !.length = rec.length]}
    BY DEF InfoOutcomes
  <1> HIDE DEF rec
  <1> QED
    BY <1>1, <1>2, <1>3

\* File_init leaves a page in the buffer and numbers in the record.
LEMMA InitBufferFacts ==
    ASSUME TypeOK, NEW mem \in [Pages -> PageContents], NEW old \in PageContents,
           InitBuffer(mem, old)
    PROVE  /\ CurrentFileBufferPage' = FILE_DATA_PAGE
           /\ FileBuffer' \in PageContents
           /\ fInfo' \in [length : Nat, checksum : Nat]
           /\ reported' \in BOOLEAN /\ unread' \in BOOLEAN
           /\ ~unread' => FileBuffer' = mem[FILE_DATA_PAGE]
           /\ ~DeviceFaults => FileBuffer' = mem[FILE_DATA_PAGE]
  <1>1. PICK r \in ReadOutcomes(mem, FILE_DATA_PAGE, old) :
            FileBuffer' = r.buf /\ unread' = (r.status # OK)
    BY DEF InitBuffer
  <1>2. FILE_DATA_PAGE \in Nat
    BY DEF FILE_DATA_PAGE
  <1>3. /\ r.buf \in PageContents
        /\ r.status \in {OK, ERROR}
        /\ r.status = OK => FILE_DATA_PAGE \in Pages /\ r.buf = mem[FILE_DATA_PAGE]
        /\ r.status # OK /\ ~DeviceFaults => FILE_DATA_PAGE \notin Pages /\ r.buf = old
    BY <1>2, ReadFacts
  <1>4. fInfo' \in [length : Nat, checksum : Nat]
    BY InfoOutcomesType DEF InitBuffer
  <1> QED
    BY <1>1, <1>3, <1>4, KnownPages DEF InitBuffer, OK, ERROR

\* After a power cut the device holds pages, and has changed in one page only.
LEMMA CutFacts ==
    ASSUME TypeOK, NEW mem \in CutOutcomes
    PROVE  mem \in [Pages -> PageContents]
  <1>1. CASE mem = eeprom
    BY <1>1 DEF TypeOK
  <1>2. CASE \E n \in Offsets : mem = [eeprom EXCEPT ![CurrentFileBufferPage] =
              Mixed(eeprom[CurrentFileBufferPage], FileBuffer, n)]
    <2>1. PICK n \in Offsets : mem = [eeprom EXCEPT ![CurrentFileBufferPage] =
              Mixed(eeprom[CurrentFileBufferPage], FileBuffer, n)]
      BY <1>2
    <2>2. Mixed(eeprom[CurrentFileBufferPage], FileBuffer, n) \in PageContents
      BY <2>1, SizeAssumption, MixedIsPage DEF Offsets, TypeOK
    <2> QED
      BY <2>1, <2>2 DEF TypeOK
  <1>3. CASE mem = WithInfo([length |-> FileLength, checksum |-> 0], 1)
    <2>1. [length |-> FileLength, checksum |-> 0] \in [length : Nat, checksum : Nat]
      BY SizeAssumption DEF TypeOK
    <2> QED
      BY <1>3, <2>1, InfoFacts
  <1> QED
    BY <1>1, <1>2, <1>3 DEF CutOutcomes

\* File_finalize changes the device in the information page at most.
LEMMA FinalizeFacts ==
    ASSUME TypeOK, File_finalize
    PROVE  /\ eeprom' \in [Pages -> PageContents]
           /\ eeprom' = [eeprom EXCEPT ![FILE_INFO_PAGE] = eeprom'[FILE_INFO_PAGE]]
           /\ FileChecksum' \in 0..(CHECKSUM_MOD - 1)
           /\ fInfo' \in [length : Nat, checksum : Nat]
  <1>1. PICK sum \in Checksums, read \in InfoOutcomes(eeprom) :
            LET info == [length |-> FileLength, checksum |-> sum] IN
            /\ FileChecksum' = sum
            /\ fInfo' = info
            /\ \/ UNCHANGED eeprom
               \/ \E n \in IF DeviceFaults THEN 0..2 ELSE {2} : eeprom' = WithInfo(info, n)
    BY DEF File_finalize
  <1> DEFINE info == [length |-> FileLength, checksum |-> sum]
  <1>2. sum \in 0..(CHECKSUM_MOD - 1)
    BY <1>1 DEF Checksums
  <1>3. info \in [length : Nat, checksum : Nat]
    BY <1>2, SizeAssumption DEF TypeOK
  <1>4. CASE UNCHANGED eeprom
    BY <1>1, <1>2, <1>3, <1>4, KnownPages DEF TypeOK
  <1>5. CASE \E n \in IF DeviceFaults THEN 0..2 ELSE {2} : eeprom' = WithInfo(info, n)
    <2>1. PICK n \in Nat : eeprom' = WithInfo(info, n)
      BY <1>5
    <2> HIDE DEF info
    <2>2. /\ WithInfo(info, n) \in [Pages -> PageContents]
          /\ WithInfo(info, n) = [eeprom EXCEPT ![FILE_INFO_PAGE] = WithInfo(info, n)[FILE_INFO_PAGE]]
      BY <1>3, InfoFacts
    <2> QED
      BY <1>1, <1>2, <1>3, <2>1, <2>2 DEF info
  <1> QED
    BY <1>1, <1>4, <1>5

-----------------------------------------------------------------------------
(* Type correctness *)


\* The record of a call that is over.
LEMMA NoCallType ==
    ASSUME NEW op \in {"File_init", "File_write", "File_read", "File_flush",
                       "File_reset", "File_finalize"},
           NEW status \in {OK, ERROR},
           call' = NoCall(op, status)
    PROVE  CallOK' /\ call'.status # Running
  <1>1. <<>> \in Seq(Nat) /\ Len(<<>>) = 0
    OBVIOUS
  <1> QED
    BY <1>1 DEF NoCall, OK, ERROR, Running, CallOK, Calls

\* Where the loop of File_write or File_read is.
LEMMA AddressFacts ==
    ASSUME TypeOK
    PROVE  /\ call.index + call.i \in Nat
           /\ desiredpage \in Nat
           /\ pageoffset \in Offsets
           /\ call.index + call.i = EEPROM_PAGE_SIZE * desiredpage + pageoffset
  <1>1. call.index + call.i \in Nat
    BY DEF TypeOK, CallOK, Calls
  <1> QED
    BY <1>1, PageArithmetic DEF desiredpage, pageoffset

\* A call that returns leaves the record of a call that is over, and an error
\* is remembered.
LEMMA ReturnFacts ==
    ASSUME TypeOK, NEW s \in {OK, ERROR}, Return(s)
    PROVE  /\ CallOK' /\ call'.status # Running
           /\ reported' \in BOOLEAN
           /\ s # OK => reported'
           /\ reported => reported'
  <1>1. call.op \in {"File_init", "File_write", "File_read", "File_flush",
                     "File_reset", "File_finalize"}
    BY DEF TypeOK, CallOK, Calls
  <1>2. call' = NoCall(call.op, s) /\ reported' = (reported \/ s # OK)
    BY DEF Return
  <1>3. CallOK' /\ call'.status # Running
    BY <1>1, <1>2, NoCallType
  <1> QED
    BY <1>2, <1>3 DEF TypeOK

\* The power comes up in a well-typed state.
LEMMA TypeInit == Init => TypeOK
  <1> SUFFICES ASSUME Init PROVE TypeOK
    OBVIOUS
  <1>1. InitialEEPROM[FILE_INFO_PAGE] \in PageContents /\ InitialEEPROM[FILE_DATA_PAGE] \in PageContents
    BY DeviceAssumption, KnownPages
  <1>2. InitialEEPROM[FILE_INFO_PAGE][0] \in Nat /\ InitialEEPROM[FILE_INFO_PAGE][1] \in Nat
    BY <1>1, KnownPages DEF PageContents
  <1>3. 0 \in 0..(LENGTH_MOD - 1) /\ 0 \in 0..(CHECKSUM_MOD - 1)
    BY ZeroInRange
  <1>4. CallOK
    <2>1. <<>> \in Seq(Nat) /\ Len(<<>>) = 0
      OBVIOUS
    <2> QED
      BY <2>1 DEF Init, NoCall, OK, ERROR, Running, CallOK, Calls
  <1> QED
    BY <1>1, <1>2, <1>3, <1>4, KnownPages, DeviceAssumption DEF Init, TypeOK

\* What SwitchPage does, its two ways to fail and its way on, in one place.
LEMMA SwitchFacts ==
    ASSUME TypeOK, SwitchPage
    PROVE  /\ eeprom' \in [Pages -> PageContents]
           /\ FileBuffer' \in PageContents
           /\ FileBufferDirty' = FALSE
           /\ CallOK'
           /\ reported' \in BOOLEAN /\ unread' \in BOOLEAN
           /\ UNCHANGED infoVars
           /\ \/ /\ CurrentFileBufferPage' = CurrentFileBufferPage
                 /\ call'.status # Running /\ call' = NoCall(call.op, ERROR)
                 /\ reported'
                 /\ ~DeviceFaults => /\ eeprom' = IF FileBufferDirty THEN View ELSE eeprom
                                     /\ FileBuffer' = FileBuffer
                                     /\ desiredpage \notin Pages
              \/ /\ CurrentFileBufferPage' = desiredpage /\ desiredpage \in Pages
                 /\ UNCHANGED <<call, reported>>
                 /\ eeprom' = IF FileBufferDirty THEN View ELSE eeprom
                 /\ FileBuffer' = eeprom'[CurrentFileBufferPage']
  <1>1. PICK f \in FlushOutcomes :
            /\ eeprom' = f.mem
            /\ \/ /\ f.status # OK
                  /\ Return(f.status)
                  /\ UNCHANGED <<FileBuffer, CurrentFileBufferPage>>
               \/ /\ f.status = OK
                  /\ \E r \in ReadOutcomes(f.mem, desiredpage, FileBuffer) :
                        /\ FileBuffer' = r.buf
                        /\ \/ /\ r.status # OK
                              /\ Return(r.status)
                              /\ UNCHANGED CurrentFileBufferPage
                           \/ /\ r.status = OK
                              /\ CurrentFileBufferPage' = desiredpage
                              /\ UNCHANGED <<call, reported>>
    BY DEF SwitchPage
  <1>2. /\ f.mem \in [Pages -> PageContents] /\ f.status \in {OK, ERROR}
        /\ ~DeviceFaults => f.status = OK
        /\ f.status = OK => f.mem = IF FileBufferDirty THEN View ELSE eeprom
    BY FlushFacts
  <1>3. FileBufferDirty' = FALSE /\ UNCHANGED infoVars
    BY DEF SwitchPage
  <1>4. unread' \in BOOLEAN
    BY DEF SwitchPage, TypeOK
  <1>5. desiredpage \in Nat
    BY AddressFacts
  <1>6. CASE f.status # OK /\ Return(f.status) /\ UNCHANGED <<FileBuffer, CurrentFileBufferPage>>
    <2>1. f.status = ERROR
      BY <1>2, <1>6
    <2>2. CallOK' /\ call'.status # Running /\ reported' \in BOOLEAN /\ reported'
      BY <1>2, <1>6, ReturnFacts
    <2>3. call' = NoCall(call.op, ERROR)
      BY <1>6, <2>1 DEF Return
    <2> QED
      BY <1>1, <1>2, <1>3, <1>4, <1>6, <2>2, <2>3 DEF TypeOK
  <1>7. CASE /\ f.status = OK
             /\ \E r \in ReadOutcomes(f.mem, desiredpage, FileBuffer) :
                  /\ FileBuffer' = r.buf
                  /\ \/ /\ r.status # OK
                        /\ Return(r.status)
                        /\ UNCHANGED CurrentFileBufferPage
                     \/ /\ r.status = OK
                        /\ CurrentFileBufferPage' = desiredpage
                        /\ UNCHANGED <<call, reported>>
    <2>1. PICK r \in ReadOutcomes(f.mem, desiredpage, FileBuffer) :
                  /\ FileBuffer' = r.buf
                  /\ \/ /\ r.status # OK
                        /\ Return(r.status)
                        /\ UNCHANGED CurrentFileBufferPage
                     \/ /\ r.status = OK
                        /\ CurrentFileBufferPage' = desiredpage
                        /\ UNCHANGED <<call, reported>>
      BY <1>7
    <2>2. FileBuffer \in PageContents
      BY DEF TypeOK
    <2>3. /\ r.buf \in PageContents
          /\ r.status \in {OK, ERROR}
          /\ r.status = OK => desiredpage \in Pages /\ r.buf = f.mem[desiredpage]
          /\ r.status # OK /\ ~DeviceFaults => desiredpage \notin Pages /\ r.buf = FileBuffer
      BY <1>2, <1>5, <2>2, ReadFacts
    <2>4. CASE r.status # OK /\ Return(r.status) /\ UNCHANGED CurrentFileBufferPage
      <3>1. r.status = ERROR
        BY <2>3, <2>4
      <3>2. CallOK' /\ call'.status # Running /\ reported' \in BOOLEAN /\ reported'
        BY <2>3, <2>4, ReturnFacts
      <3>3. call' = NoCall(call.op, ERROR)
        BY <2>4, <3>1 DEF Return
      <3> QED
        BY <1>1, <1>2, <1>3, <1>4, <1>7, <2>1, <2>3, <2>4, <3>2, <3>3 DEF TypeOK
    <2>5. CASE r.status = OK /\ CurrentFileBufferPage' = desiredpage /\ UNCHANGED <<call, reported>>
      <3>1. CallOK'
        BY <2>5 DEF TypeOK, CallOK
      <3> QED
        BY <1>1, <1>2, <1>3, <1>4, <1>7, <2>1, <2>3, <2>5, <3>1 DEF TypeOK
    <2> QED
      BY <2>1, <2>4, <2>5
  <1> QED
    BY <1>1, <1>6, <1>7
-----------------------------------------------------------------------------
(* Type correctness *)

\* The start of a File_write keeps the types, whatever it is to write.
LEMMA WriteTypes ==
    ASSUME TypeOK, NEW index \in Nat, NEW buf \in Seq(Nat), File_write(index, buf)
    PROVE  TypeOK'
  <1> USE DEF bufferVars, infoVars
  <1>1. Len(buf) \in Nat
    OBVIOUS
  <1>2. CallOK'
    BY <1>1 DEF File_write, CallOK, Calls, Running
  <1> QED
    BY <1>2 DEF File_write, TypeOK

\* Every step of the store keeps the types.
LEMMA TypeNext == TypeOK /\ [Next]_fileVars => TypeOK'
  <1> SUFFICES ASSUME TypeOK, [Next]_fileVars PROVE TypeOK'
    OBVIOUS
  <1> USE DEF bufferVars, infoVars
  <1>1. ASSUME NEW index \in Indices, NEW buf \in Payloads, File_write(index, buf)
        PROVE  TypeOK'
    <2>1. index \in Nat /\ buf \in Seq(Nat)
      BY CallerAssumption
    <2> QED
      BY <1>1, <2>1, WriteTypes
  <1>2. ASSUME NEW index \in Indices, NEW len \in ReadLengths, File_read(index, len)
        PROVE  TypeOK'
    <2>1. index \in Nat /\ len \in Nat /\ <<>> \in Seq(Nat) /\ Len(<<>>) = 0
      BY CallerAssumption
    <2>2. CallOK'
      BY <1>2, <2>1 DEF File_read, CallOK, Calls, Running
    <2> QED
      BY <1>2, <2>2 DEF File_read, TypeOK
  <1>3. CASE SwitchPage
    BY <1>3, SwitchFacts DEF TypeOK
  <1>4. CASE WriteByte
    <2>1. call.i < call.len /\ call.len = Len(call.buf) /\ call.i \in Nat /\ call.buf \in Seq(Nat)
      BY <1>4 DEF WriteByte, InLoop, TypeOK, CallOK, Calls
    <2>2. call.buf[call.i + 1] \in Nat
      <3>1. call.i + 1 \in 1..Len(call.buf)
        BY <2>1
      <3> QED
        BY <2>1, <3>1
    <2>3. FileBuffer' \in PageContents
      <3>1. FileBuffer' = [FileBuffer EXCEPT ![pageoffset] = call.buf[call.i + 1]]
        BY <1>4 DEF WriteByte
      <3> QED
        BY <2>2, <3>1 DEF TypeOK, PageContents
    <2>4. CallOK'
      <3>1. call' = [call EXCEPT !.i = @ + 1]
        BY <1>4 DEF WriteByte
      <3>2. call' \in Calls
        BY <2>1, <3>1 DEF TypeOK, CallOK, Calls
      <3>3. call'.i <= call'.len
        BY <2>1, <3>1 DEF TypeOK, CallOK, Calls
      <3>4. call.op = "File_write" /\ call.status = Running
        BY <1>4 DEF WriteByte, InLoop
      <3> QED
        BY <2>1, <3>1, <3>2, <3>3, <3>4 DEF TypeOK, CallOK, Calls
    <2>5. FileBufferDirty' \in BOOLEAN
      BY <1>4 DEF WriteByte, TypeOK
    <2> QED
      BY <1>4, <2>3, <2>4, <2>5 DEF WriteByte, TypeOK
  <1>5. CASE ReadByte
    <2>1. call.i < call.len /\ call.i = Len(call.buf) /\ call.i \in Nat /\ call.len \in Nat
          /\ call.buf \in Seq(Nat) /\ call.index \in Nat
      BY <1>5 DEF ReadByte, InLoop, TypeOK, CallOK, Calls
    <2>2. pageoffset \in Offsets
      BY AddressFacts
    <2>3. FileBuffer[pageoffset] \in Nat
      BY <2>2 DEF TypeOK, PageContents
    <2>4. Append(call.buf, FileBuffer[pageoffset]) \in Seq(Nat)
          /\ Len(Append(call.buf, FileBuffer[pageoffset])) = Len(call.buf) + 1
      BY <2>1, <2>3
    <2>5. CallOK'
      <3> DEFINE bytes == Append(call.buf, FileBuffer[pageoffset])
                 next == call.i + 1
      <3>1. call' = [call EXCEPT !.i = next, !.buf = bytes]
        BY <1>5, <2>1 DEF ReadByte, TypeOK, CallOK, Calls
      <3>2. call \in Calls
        BY DEF TypeOK, CallOK
      <3>3. bytes \in Seq(Nat) /\ next \in Nat /\ Len(bytes) = next /\ next <= call.len
        BY <2>1, <2>4
      <3>4. call.op = "File_read"
        BY <1>5 DEF ReadByte
      <3> HIDE DEF bytes, next
      <3>5. call' \in Calls /\ call'.i = next /\ call'.len = call.len
            /\ call'.buf = bytes /\ call'.op = call.op
        BY <3>1, <3>2, <3>3 DEF Calls
      <3> QED
        BY <3>3, <3>4, <3>5 DEF CallOK
    <2> QED
      BY <1>5, <2>5 DEF ReadByte, TypeOK
  <1>6. CASE WriteReturn
    <2>1. call.index + call.len \in Nat
      BY DEF TypeOK, CallOK, Calls
    <2>2. LengthAfter(call.index + call.len) \in 0..(LENGTH_MOD - 1)
      <3>1. LENGTH_MOD > EEPROM_PAGE_SIZE /\ LENGTH_MOD \in Nat
        <4>1. (LAST_PAGE + 1) * EEPROM_PAGE_SIZE >= 1 * EEPROM_PAGE_SIZE
          BY SizeAssumption DEF FILE_DATA_PAGE
        <4> QED
          BY <4>1, SizeAssumption
      <3>2. \A x \in Nat : x % LENGTH_MOD \in 0..(LENGTH_MOD - 1)
        BY <3>1, SizeAssumption
      <3>3. call.index + call.len + LENGTH_MOD - FILE_DATA_PAGE * EEPROM_PAGE_SIZE \in Nat
        BY <2>1, <3>1, SizeAssumption DEF FILE_DATA_PAGE
      <3> QED
        BY <3>2, <3>3 DEF LengthAfter, TypeOK
    <2>3. OK \in {OK, ERROR}
      OBVIOUS
    <2>4. CallOK' /\ reported' \in BOOLEAN
      BY <1>6, <2>3, ReturnFacts DEF WriteReturn
    <2> QED
      BY <1>6, <2>2, <2>4 DEF WriteReturn, TypeOK
  <1>7. CASE ReadReturn
    <2>1. CallOK'
      BY <1>7 DEF ReadReturn, TypeOK, CallOK, Calls, OK, Running
    <2> QED
      BY <1>7, <2>1 DEF ReadReturn, TypeOK
  <1>8. CASE File_flush
    <2>1. PICK f \in FlushOutcomes :
              /\ eeprom' = f.mem
              /\ call' = NoCall("File_flush", f.status)
              /\ reported' = (reported \/ f.status # OK)
      BY <1>8 DEF File_flush
    <2>2. f.mem \in [Pages -> PageContents] /\ f.status \in {OK, ERROR}
      BY FlushFacts
    <2>3. CallOK'
      BY <2>1, <2>2, NoCallType
    <2> QED
      BY <1>8, <2>1, <2>2, <2>3 DEF File_flush, TypeOK
  <1>9. CASE File_reset
    <2>1. CallOK'
      BY <1>9, NoCallType DEF File_reset
    <2>2. InitBuffer(eeprom, FileBuffer)
      BY <1>9 DEF File_reset
    <2>3. CurrentFileBufferPage' \in Pages /\ FileBuffer' \in PageContents
          /\ fInfo' \in [length : Nat, checksum : Nat]
          /\ reported' \in BOOLEAN /\ unread' \in BOOLEAN
      BY <2>2, InitBufferFacts, KnownPages DEF TypeOK
    <2>4. 0 \in 0..(LENGTH_MOD - 1) /\ 0 \in 0..(CHECKSUM_MOD - 1)
      BY ZeroInRange
    <2> QED
      BY <1>9, <2>1, <2>3, <2>4 DEF File_reset, TypeOK
  <1>10. CASE File_finalize
    <2>1. CallOK'
      BY <1>10, NoCallType DEF File_finalize
    <2>2. UNCHANGED <<bufferVars, FileLength, reported, unread>>
      BY <1>10 DEF File_finalize
    <2> QED
      BY <1>10, <2>1, <2>2, FinalizeFacts DEF TypeOK
  <1>11. CASE PowerCycle
    <2>1. CallOK'
      BY <1>11, NoCallType DEF PowerCycle
    <2>2. PICK mem \in CutOutcomes : eeprom' = mem /\ InitBuffer(mem, [o \in Offsets |-> 0])
      BY <1>11 DEF PowerCycle
    <2>3. mem \in [Pages -> PageContents] /\ [o \in Offsets |-> 0] \in PageContents
      BY CutFacts DEF PageContents
    <2>4. CurrentFileBufferPage' \in Pages /\ FileBuffer' \in PageContents
          /\ fInfo' \in [length : Nat, checksum : Nat]
          /\ reported' \in BOOLEAN /\ unread' \in BOOLEAN
      BY <2>2, <2>3, InitBufferFacts, KnownPages
    <2>5. 0 \in 0..(LENGTH_MOD - 1) /\ 0 \in 0..(CHECKSUM_MOD - 1)
      BY ZeroInRange
    <2> QED
      BY <1>11, <2>1, <2>2, <2>3, <2>4, <2>5 DEF PowerCycle, TypeOK
  <1>12. CASE UNCHANGED fileVars
    BY <1>12 DEF fileVars, TypeOK, CallOK
  <1> QED
    BY <1>1, <1>2, <1>3, <1>4, <1>5, <1>6, <1>7, <1>8, <1>9, <1>10, <1>11, <1>12
       DEF Next, Operation

\* The variables of FileHelper.cpp keep their types, FileLength and FileChecksum
\* their widths, and the buffer stands for a page of the device.
THEOREM TypeCorrect == Spec => []TypeOK
  <1> QED
    BY TypeInit, TypeNext, PTL DEF Spec
-----------------------------------------------------------------------------
(* A clean buffer agrees with the device.                                     *)
(* The two properties share their argument: a step that ends with a clean     *)
(* buffer either left buffer and device alone, or has just copied one to the  *)
(* other.  They differ in the steps where a transfer failed: LossIsReported   *)
(* is then discharged by the error that was answered, Coherence by the        *)
(* assumption that only addresses outside the device fail.                    *)

\* Putting a byte: the buffer changes at one cell, and only a dirty buffer
\* changes at all.
LEMMA WriteByteFacts ==
    ASSUME TypeOK, WriteByte
    PROVE  /\ UNCHANGED <<eeprom, CurrentFileBufferPage, reported, unread>>
           /\ FileBuffer' = [FileBuffer EXCEPT ![pageoffset] = FileBuffer'[pageoffset]]
           /\ ~FileBufferDirty' => ~FileBufferDirty /\ FileBuffer' = FileBuffer
  <1>1. pageoffset \in Offsets
    BY AddressFacts
  <1>2. FileBuffer' = [FileBuffer EXCEPT ![pageoffset] = call.buf[call.i + 1]]
    BY DEF WriteByte
  <1>3. FileBufferDirty' = (FileBufferDirty \/ FileBuffer[pageoffset] # call.buf[call.i + 1])
    BY DEF WriteByte
  <1>4. FileBuffer'[pageoffset] = call.buf[call.i + 1]
    BY <1>1, <1>2 DEF TypeOK, PageContents
  <1> QED
    BY <1>1, <1>2, <1>3, <1>4 DEF WriteByte, TypeOK, PageContents

\* One step cannot make a clean buffer differ from the device without an error
\* being answered, unless it is File_init's read that failed.
LEMMA LossNext == TypeOK /\ LossIsReported /\ [Next]_fileVars => LossIsReported'
  <1> SUFFICES ASSUME TypeOK, LossIsReported, [Next]_fileVars, ~reported', ~unread',
                      ~FileBufferDirty', CurrentFileBufferPage' # FILE_INFO_PAGE
               PROVE  FileBuffer' = eeprom'[CurrentFileBufferPage']
    BY DEF LossIsReported, Coherence
  <1> USE DEF bufferVars, infoVars
  <1>1. CASE UNCHANGED <<eeprom, bufferVars, reported, unread>>
    BY <1>1 DEF LossIsReported, Coherence
  <1>2. CASE SwitchPage
    <2>1. CASE CurrentFileBufferPage' = CurrentFileBufferPage /\ reported'
      BY <2>1
    <2>2. CASE FileBuffer' = eeprom'[CurrentFileBufferPage']
      BY <2>2
    <2> QED
      BY <1>2, <2>1, <2>2, SwitchFacts
  <1>3. CASE WriteByte
    BY <1>3, WriteByteFacts DEF LossIsReported, Coherence
  <1>4. CASE File_flush
    <2>1. PICK f \in FlushOutcomes : eeprom' = f.mem /\ reported' = (reported \/ f.status # OK)
      BY <1>4 DEF File_flush
    <2>2. ~reported /\ f.status = OK
      BY <2>1
    <2>3. eeprom' = IF FileBufferDirty THEN View ELSE eeprom
      BY <2>1, <2>2, FlushFacts
    <2>4. UNCHANGED <<FileBuffer, CurrentFileBufferPage, unread>>
      BY <1>4 DEF File_flush
    <2>5. CASE FileBufferDirty
      BY <2>3, <2>4, <2>5 DEF View, TypeOK
    <2>6. CASE ~FileBufferDirty
      BY <2>2, <2>3, <2>4, <2>6 DEF LossIsReported, Coherence
    <2> QED
      BY <2>5, <2>6
  <1>5. CASE File_reset
    <2>1. InitBuffer(eeprom, FileBuffer) /\ UNCHANGED eeprom
      BY <1>5 DEF File_reset
    <2> QED
      BY <2>1, InitBufferFacts DEF TypeOK
  <1>6. CASE File_finalize
    <2>1. UNCHANGED <<bufferVars, reported, unread>>
      BY <1>6 DEF File_finalize
    <2>2. eeprom' = [eeprom EXCEPT ![FILE_INFO_PAGE] = eeprom'[FILE_INFO_PAGE]]
      BY <1>6, FinalizeFacts
    <2>3. eeprom'[CurrentFileBufferPage] = eeprom[CurrentFileBufferPage]
      BY <2>1, <2>2 DEF TypeOK
    <2> QED
      BY <2>1, <2>3 DEF LossIsReported, Coherence
  <1>7. CASE PowerCycle
    <2>1. PICK mem \in CutOutcomes : eeprom' = mem /\ InitBuffer(mem, [o \in Offsets |-> 0])
      BY <1>7 DEF PowerCycle
    <2>2. mem \in [Pages -> PageContents] /\ [o \in Offsets |-> 0] \in PageContents
      BY CutFacts DEF PageContents
    <2> QED
      BY <2>1, <2>2, InitBufferFacts
  <1>8. CASE WriteReturn
    <2>1. UNCHANGED <<eeprom, bufferVars, unread>> /\ Return(OK)
      BY <1>8 DEF WriteReturn
    <2>2. ~reported
      BY <2>1 DEF Return
    <2> QED
      BY <2>1, <2>2 DEF LossIsReported, Coherence
  <1> QED
    BY <1>1, <1>2, <1>3, <1>4, <1>5, <1>6, <1>7, <1>8
       DEF Next, Operation, File_write, File_read, ReadByte, ReadReturn, fileVars

\* Whatever the device does, a page is lost only after a call has answered with
\* an error: the dirty flag of FileHelper.cpp never hides an unsaved page from
\* callers that have seen none, as long as File_init's own read, whose status
\* FileHelper.cpp:36 drops, has worked or a page has been loaded since.
THEOREM LossReported == Spec => []LossIsReported
  <1>1. Init => LossIsReported
    BY DEF Init, LossIsReported, Coherence
  <1> QED
    BY <1>1, LossNext, TypeCorrect, PTL DEF Spec

\* On a device that does not fail, a step keeps a clean buffer in agreement
\* with the device even if a call is refused for its address.
LEMMA CoherenceNext ==
    ~DeviceFaults /\ TypeOK /\ Coherence /\ [Next]_fileVars => Coherence'
  <1> SUFFICES ASSUME ~DeviceFaults, TypeOK, Coherence, [Next]_fileVars,
                      ~FileBufferDirty', CurrentFileBufferPage' # FILE_INFO_PAGE
               PROVE  FileBuffer' = eeprom'[CurrentFileBufferPage']
    BY DEF Coherence
  <1> USE DEF bufferVars, infoVars
  <1>1. CASE UNCHANGED <<eeprom, bufferVars>>
    BY <1>1 DEF Coherence
  <1>2. CASE SwitchPage
    <2>1. CASE /\ CurrentFileBufferPage' = CurrentFileBufferPage
               /\ eeprom' = IF FileBufferDirty THEN View ELSE eeprom
               /\ FileBuffer' = FileBuffer
      <3>1. CASE FileBufferDirty
        BY <2>1, <3>1 DEF View, TypeOK
      <3>2. CASE ~FileBufferDirty
        BY <2>1, <3>2 DEF Coherence
      <3> QED
        BY <3>1, <3>2
    <2>2. CASE FileBuffer' = eeprom'[CurrentFileBufferPage']
      BY <2>2
    <2> QED
      BY <1>2, <2>1, <2>2, SwitchFacts
  <1>3. CASE WriteByte
    BY <1>3, WriteByteFacts DEF Coherence
  <1>4. CASE File_flush
    <2>1. PICK f \in FlushOutcomes : eeprom' = f.mem
      BY <1>4 DEF File_flush
    <2>2. eeprom' = IF FileBufferDirty THEN View ELSE eeprom
      BY <2>1, FlushFacts
    <2>3. UNCHANGED <<FileBuffer, CurrentFileBufferPage>>
      BY <1>4 DEF File_flush
    <2>4. CASE FileBufferDirty
      BY <2>2, <2>3, <2>4 DEF View, TypeOK
    <2>5. CASE ~FileBufferDirty
      BY <2>2, <2>3, <2>5 DEF Coherence
    <2> QED
      BY <2>4, <2>5
  <1>5. CASE File_reset
    <2>1. InitBuffer(eeprom, FileBuffer) /\ UNCHANGED eeprom
      BY <1>5 DEF File_reset
    <2> QED
      BY <2>1, InitBufferFacts DEF TypeOK
  <1>6. CASE File_finalize
    <2>1. UNCHANGED bufferVars
      BY <1>6 DEF File_finalize
    <2>2. eeprom' = [eeprom EXCEPT ![FILE_INFO_PAGE] = eeprom'[FILE_INFO_PAGE]]
      BY <1>6, FinalizeFacts
    <2>3. eeprom'[CurrentFileBufferPage] = eeprom[CurrentFileBufferPage]
      BY <2>1, <2>2 DEF TypeOK
    <2> QED
      BY <2>1, <2>3 DEF Coherence
  <1>7. CASE PowerCycle
    <2>1. PICK mem \in CutOutcomes : eeprom' = mem /\ InitBuffer(mem, [o \in Offsets |-> 0])
      BY <1>7 DEF PowerCycle
    <2>2. mem \in [Pages -> PageContents] /\ [o \in Offsets |-> 0] \in PageContents
      BY CutFacts DEF PageContents
    <2> QED
      BY <2>1, <2>2, InitBufferFacts
  <1> QED
    BY <1>1, <1>2, <1>3, <1>4, <1>5, <1>6, <1>7
       DEF Next, Operation, File_write, File_read, ReadByte, ReadReturn, WriteReturn, fileVars

\* On a device that does not fail a clean buffer always agrees with it, whatever
\* calls, refused calls, resets and power cuts came before.
THEOREM Coherent == ASSUME ~DeviceFaults PROVE Spec => []Coherence
  <1>1. Init => Coherence
    BY DEF Init, Coherence
  <1>2. TypeOK /\ Coherence /\ [Next]_fileVars => Coherence'
    BY CoherenceNext
  <1> QED
    BY <1>1, <1>2, TypeCorrect, PTL DEF Spec
-----------------------------------------------------------------------------
(* Callers that keep off the information page.  The buffer then never stands  *)
(* for that page, and an address the loop has passed is on the device.        *)

DataOnly == \A index \in Indices : index >= EEPROM_PAGE_SIZE

OnDataPages ==
    /\ CurrentFileBufferPage # FILE_INFO_PAGE
    /\ call.status = Running => call.index >= EEPROM_PAGE_SIZE /\ call.len > 0
    /\ call.status = Running /\ call.i > 0 =>
          call.index + call.i <= (LAST_PAGE + 1) * EEPROM_PAGE_SIZE

\* A page number bounds the addresses of its page.
LEMMA AddressBound ==
    ASSUME NEW p \in Nat, NEW o \in Offsets, p <= LAST_PAGE
    PROVE  EEPROM_PAGE_SIZE * p + o < (LAST_PAGE + 1) * EEPROM_PAGE_SIZE
  <1>1. EEPROM_PAGE_SIZE * p <= EEPROM_PAGE_SIZE * LAST_PAGE
    BY SizeAssumption
  <1>2. (LAST_PAGE + 1) * EEPROM_PAGE_SIZE = EEPROM_PAGE_SIZE * LAST_PAGE + EEPROM_PAGE_SIZE
    BY SizeAssumption
  <1>3. EEPROM_PAGE_SIZE * p \in Nat /\ EEPROM_PAGE_SIZE * LAST_PAGE \in Nat
    BY SizeAssumption
  <1> QED
    BY <1>1, <1>2, <1>3, SizeAssumption DEF Offsets

\* An address past the information page is on a data page.
LEMMA DataAddress ==
    ASSUME TypeOK, call.index >= EEPROM_PAGE_SIZE
    PROVE  desiredpage # FILE_INFO_PAGE
  <1>1. call.index + call.i >= EEPROM_PAGE_SIZE
    BY SizeAssumption DEF TypeOK, CallOK, Calls
  <1>2. pageoffset < EEPROM_PAGE_SIZE
    BY AddressFacts, SizeAssumption DEF Offsets
  <1>3. ASSUME desiredpage = 0 PROVE FALSE
    <2>1. EEPROM_PAGE_SIZE * desiredpage = 0
      BY <1>3, SizeAssumption
    <2> QED
      BY <1>1, <1>2, <2>1, AddressFacts, SizeAssumption DEF Offsets
  <1> QED
    BY <1>3 DEF FILE_INFO_PAGE

\* No step of such callers reaches the information page through the buffer.
LEMMA OnDataPagesNext ==
    DataOnly /\ TypeOK /\ OnDataPages /\ [Next]_fileVars => OnDataPages'
  <1> SUFFICES ASSUME DataOnly, TypeOK, OnDataPages, [Next]_fileVars PROVE OnDataPages'
    OBVIOUS
  <1> USE DEF bufferVars, infoVars
  <1>a. FILE_DATA_PAGE # FILE_INFO_PAGE
    BY DEF FILE_DATA_PAGE, FILE_INFO_PAGE
  <1>b. ASSUME CurrentFileBufferPage' \in {CurrentFileBufferPage, FILE_DATA_PAGE}, call'.status # Running
        PROVE  OnDataPages'
    BY <1>a, <1>b DEF OnDataPages
  <1>1. ASSUME NEW index \in Indices, NEW buf \in Payloads, File_write(index, buf)
        PROVE  OnDataPages'
    <2>1. buf \in Seq(Nat) /\ buf # <<>> /\ Len(buf) > 0
      BY CallerAssumption
    <2> QED
      BY <1>1, <2>1 DEF File_write, OnDataPages, DataOnly
  <1>2. ASSUME NEW index \in Indices, NEW len \in ReadLengths, File_read(index, len)
        PROVE  OnDataPages'
    <2>1. len > 0
      BY CallerAssumption
    <2> QED
      BY <1>2, <2>1 DEF File_read, OnDataPages, DataOnly
  <1>3. CASE SwitchPage
    <2>1. CASE CurrentFileBufferPage' = CurrentFileBufferPage /\ call'.status # Running
      BY <2>1, <1>b
    <2>2. CASE CurrentFileBufferPage' = desiredpage /\ UNCHANGED call
      <3>1. call.status = Running
        BY <1>3 DEF SwitchPage, InLoop
      <3> QED
        BY <2>2, <3>1, DataAddress DEF OnDataPages
    <2> QED
      BY <1>3, <2>1, <2>2, SwitchFacts
  <1>4. CASE WriteByte \/ ReadByte
    <2>1. call.status = Running /\ desiredpage \in Pages
      BY <1>4 DEF WriteByte, ReadByte, InLoop, TypeOK
    <2>2. call.index + call.i < (LAST_PAGE + 1) * EEPROM_PAGE_SIZE
      <3>1. desiredpage \in Nat /\ desiredpage <= LAST_PAGE
        BY <2>1, SizeAssumption DEF Pages
      <3>2. EEPROM_PAGE_SIZE * desiredpage + pageoffset < (LAST_PAGE + 1) * EEPROM_PAGE_SIZE
        BY <3>1, AddressFacts, AddressBound
      <3> QED
        BY <3>2, AddressFacts
    <2>3. /\ call'.index = call.index /\ call'.i = call.i + 1 /\ call'.len = call.len
          /\ UNCHANGED CurrentFileBufferPage
      BY <1>4 DEF WriteByte, ReadByte, TypeOK, CallOK, Calls
    <2>4. call.index \in Nat /\ call.i \in Nat /\ (LAST_PAGE + 1) * EEPROM_PAGE_SIZE \in Nat
      BY SizeAssumption DEF TypeOK, CallOK, Calls
    <2>5. call'.index + call'.i <= (LAST_PAGE + 1) * EEPROM_PAGE_SIZE
      BY <2>2, <2>3, <2>4
    <2> QED
      BY <2>1, <2>3, <2>5 DEF OnDataPages
  <1>5. CASE WriteReturn
    BY <1>5, <1>b, ReturnFacts DEF WriteReturn
  <1>6. CASE ReadReturn
    BY <1>6, <1>b DEF ReadReturn, TypeOK, CallOK, Calls, OK, Running
  <1>7. CASE File_flush
    <2>1. PICK f \in FlushOutcomes : call' = NoCall("File_flush", f.status)
      BY <1>7 DEF File_flush
    <2>2. f.status \in {OK, ERROR}
      BY FlushFacts
    <2> QED
      BY <1>7, <1>b, <2>1, <2>2 DEF File_flush, NoCall, OK, ERROR, Running
  <1>8. CASE File_reset
    BY <1>8, <1>b DEF File_reset, InitBuffer, NoCall, OK, Running
  <1>9. CASE File_finalize
    BY <1>9, <1>b DEF File_finalize, NoCall, OK, Running
  <1>10. CASE PowerCycle
    BY <1>10, <1>b DEF PowerCycle, InitBuffer, NoCall, OK, Running
  <1>11. CASE UNCHANGED fileVars
    BY <1>11 DEF fileVars, OnDataPages
  <1> QED
    BY <1>1, <1>2, <1>3, <1>4, <1>5, <1>6, <1>7, <1>8, <1>9, <1>10, <1>11
       DEF Next, Operation

\* The buffer starts on a data page.
LEMMA OnDataPagesInit == Init => OnDataPages
  BY DEF Init, OnDataPages, NoCall, OK, Running, FILE_DATA_PAGE, FILE_INFO_PAGE

-----------------------------------------------------------------------------
(* The length stays within the data pages *)

\* A step keeps the length within the data pages: where it grows, the loop has
\* just put its last byte on the device.
LEMMA LengthNext ==
    TypeOK /\ OnDataPages /\ LengthWithinData /\ [Next]_fileVars => LengthWithinData'
  <1> SUFFICES ASSUME TypeOK, OnDataPages, LengthWithinData, [Next]_fileVars
               PROVE  LengthWithinData'
    OBVIOUS
  <1> USE DEF bufferVars, infoVars
  <1>1. CASE UNCHANGED FileLength
    BY <1>1 DEF LengthWithinData
  <1>2. CASE FileLength' = 0
    <2>1. LAST_PAGE * EEPROM_PAGE_SIZE >= 0
      BY SizeAssumption
    <2> QED
      BY <1>2, <2>1 DEF LengthWithinData
  <1>3. CASE WriteReturn
    <2> DEFINE end == call.index + call.len
               all == (LAST_PAGE + 1) * EEPROM_PAGE_SIZE
    <2>1. FileLength' = LengthAfter(end) /\ call.status = Running /\ call.i = call.len
      BY <1>3 DEF WriteReturn
    <2>2. end \in Nat /\ end >= EEPROM_PAGE_SIZE /\ end <= all
      BY <2>1, SizeAssumption DEF OnDataPages, TypeOK, CallOK, Calls
    <2>3. all \in Nat /\ all = LAST_PAGE * EEPROM_PAGE_SIZE + EEPROM_PAGE_SIZE
          /\ LENGTH_MOD > all /\ LAST_PAGE * EEPROM_PAGE_SIZE \in Nat
      BY SizeAssumption
    <2> HIDE DEF end, all
    <2>4. (end + LENGTH_MOD - FILE_DATA_PAGE * EEPROM_PAGE_SIZE) % LENGTH_MOD
            = end - EEPROM_PAGE_SIZE
      <3> DEFINE d == end - EEPROM_PAGE_SIZE
      <3>1. d \in Nat /\ d < LENGTH_MOD /\ LENGTH_MOD \in Nat
        BY <2>2, <2>3, SizeAssumption
      <3>2. end + LENGTH_MOD - FILE_DATA_PAGE * EEPROM_PAGE_SIZE = d + LENGTH_MOD
        BY <2>2, SizeAssumption DEF FILE_DATA_PAGE
      <3> HIDE DEF d
      <3>3. (d + LENGTH_MOD) % LENGTH_MOD = d
        BY <3>1
      <3> QED
        BY <3>2, <3>3 DEF d
    <2>5. CASE end > FileLength
      BY <2>1, <2>2, <2>3, <2>4, <2>5, SizeAssumption DEF LengthAfter, LengthWithinData
    <2>6. CASE ~(end > FileLength)
      BY <2>1, <2>6 DEF LengthAfter, LengthWithinData
    <2> QED
      BY <2>5, <2>6
  <1> QED
    BY <1>1, <1>2, <1>3
       DEF Next, Operation, File_write, File_read, SwitchPage, WriteByte, ReadByte,
           ReadReturn, File_flush, File_reset, File_finalize, PowerCycle, fileVars

\* As long as callers keep off the information page FileLength, and with it the
\* loop of File_finalize, is bounded by the data pages of the device.
THEOREM LengthBounded == ASSUME DataOnly PROVE Spec => []LengthWithinData
  <1>1. Init => LengthWithinData
    <2>1. LAST_PAGE * EEPROM_PAGE_SIZE >= 0
      BY SizeAssumption
    <2> QED
      BY <2>1 DEF Init, LengthWithinData
  <1>2. TypeOK /\ OnDataPages /\ [Next]_fileVars => OnDataPages'
    BY OnDataPagesNext
  <1> QED
    BY <1>1, <1>2, OnDataPagesInit, LengthNext, TypeCorrect, PTL DEF Spec

-----------------------------------------------------------------------------
(* What File_finalize writes                                                  *)

\* A byte of the file lies on a data page, whose number does not wrap.
LEMMA BytePage ==
    ASSUME TypeOK, LengthWithinData, NEW i \in 0..(FileLength - 1)
    PROVE  /\ FILE_DATA_PAGE + i \div EEPROM_PAGE_SIZE \in Pages \ {FILE_INFO_PAGE}
           /\ FileByte(i) = eeprom[FILE_DATA_PAGE + i \div EEPROM_PAGE_SIZE][i % EEPROM_PAGE_SIZE]
  <1> DEFINE d == i \div EEPROM_PAGE_SIZE
             o == i % EEPROM_PAGE_SIZE
  <1>1. i \in Nat /\ i < LAST_PAGE * EEPROM_PAGE_SIZE
    BY SizeAssumption DEF TypeOK, LengthWithinData
  <1>2. d \in Nat /\ o \in Offsets /\ i = EEPROM_PAGE_SIZE * d + o
    BY <1>1, PageArithmetic
  <1> HIDE DEF d, o
  <1>3. d < LAST_PAGE
    <2> SUFFICES ASSUME d >= LAST_PAGE PROVE FALSE
      BY <1>2, SizeAssumption
    <2>1. EEPROM_PAGE_SIZE * d >= EEPROM_PAGE_SIZE * LAST_PAGE
      BY <1>2, SizeAssumption
    <2>2. EEPROM_PAGE_SIZE * LAST_PAGE = LAST_PAGE * EEPROM_PAGE_SIZE
      BY SizeAssumption
    <2> QED
      BY <1>1, <1>2, <2>1, <2>2, SizeAssumption DEF Offsets
  <1>4. FILE_DATA_PAGE + d \in Pages \ {FILE_INFO_PAGE}
    BY <1>2, <1>3, SizeAssumption DEF Pages, FILE_INFO_PAGE, FILE_DATA_PAGE
  <1>5. (FILE_DATA_PAGE + d) % PAGE_MOD = FILE_DATA_PAGE + d
    <2>1. 1 + d \in 0..(PAGE_MOD - 1) /\ PAGE_MOD \in Nat \ {0}
      BY <1>2, <1>3, SizeAssumption
    <2>2. \A m \in Nat \ {0} : \A x \in 0..(m - 1) : x % m = x
      OBVIOUS
    <2> QED
      BY <2>1, <2>2 DEF FILE_DATA_PAGE
  <1> QED
    BY <1>4, <1>5 DEF FileByte, d, o

\* The sum of a file within the data pages depends on those pages alone.
LEMMA SameSum ==
    ASSUME TypeOK, LengthWithinData, UNCHANGED FileLength,
           \A p \in Pages \ {FILE_INFO_PAGE} : eeprom'[p] = eeprom[p]
    PROVE  DataSum' = DataSum
  <1>1. \A i \in 0..(FileLength - 1) : FileByte(i)' = FileByte(i)
    <2> TAKE i \in 0..(FileLength - 1)
    <2> DEFINE page == FILE_DATA_PAGE + i \div EEPROM_PAGE_SIZE
    <2>1. page \in Pages \ {FILE_INFO_PAGE} /\ FileByte(i) = eeprom[page][i % EEPROM_PAGE_SIZE]
      BY BytePage
    <2>2. page % PAGE_MOD = page
      <3>1. page \in 0..(PAGE_MOD - 1) /\ PAGE_MOD \in Nat \ {0}
        BY <2>1, SizeAssumption DEF Pages
      <3>2. \A m \in Nat \ {0} : \A x \in 0..(m - 1) : x % m = x
        OBVIOUS
      <3> HIDE DEF page
      <3> QED
        BY <3>1, <3>2
    <2>3. FileByte(i)' = eeprom'[page][i % EEPROM_PAGE_SIZE]
      BY <2>1, <2>2 DEF FileByte
    <2> HIDE DEF page
    <2> QED
      BY <2>1, <2>3
  <1>2. \A n \in 0..FileLength : n # 0 => n - 1 \in 0..(FileLength - 1)
    BY DEF TypeOK
  <1>3. \A f : [n \in 0..FileLength |-> IF n = 0 THEN 0 ELSE f[n - 1] + FileByte(n - 1)']
                = [n \in 0..FileLength |-> IF n = 0 THEN 0 ELSE f[n - 1] + FileByte(n - 1)]
    BY <1>1, <1>2
  <1>4. (CHOOSE f : f = [n \in 0..FileLength |-> IF n = 0 THEN 0 ELSE f[n - 1] + FileByte(n - 1)'])
        = (CHOOSE f : f = [n \in 0..FileLength |-> IF n = 0 THEN 0 ELSE f[n - 1] + FileByte(n - 1)])
    BY <1>3, Zenon
  <1>5. DataSum = (CHOOSE f : f = [n \in 0..FileLength |->
                      IF n = 0 THEN 0 ELSE f[n - 1] + FileByte(n - 1)])[FileLength] % CHECKSUM_MOD
    BY DEF DataSum
  <1>6. DataSum' = (CHOOSE f : f = [n \in 0..FileLength' |->
                      IF n = 0 THEN 0 ELSE f[n - 1] + FileByte(n - 1)'])[FileLength'] % CHECKSUM_MOD
    BY DEF DataSum
  <1>7. FileLength' = FileLength
    OBVIOUS
  <1> QED
    BY <1>4, <1>5, <1>6, <1>7

\* The record of the length and of the sum fills the two cells of the record.
LEMMA FinalizedRecord ==
    ASSUME ~DeviceFaults, TypeOK, File_finalize
    PROVE  /\ eeprom'[FILE_INFO_PAGE][0] = FileLength
           /\ eeprom'[FILE_INFO_PAGE][1] = DataSum
  <1>1. PICK sum \in Checksums, read \in InfoOutcomes(eeprom) :
            \/ /\ read = [length |-> FileLength, checksum |-> sum]
               /\ UNCHANGED eeprom
            \/ eeprom' = WithInfo([length |-> FileLength, checksum |-> sum], 2)
    BY DEF File_finalize
  <1>2. sum = DataSum
    BY DEF Checksums
  <1>3. read = [length |-> eeprom[FILE_INFO_PAGE][0], checksum |-> eeprom[FILE_INFO_PAGE][1]]
    BY DEF InfoOutcomes
  <1> DEFINE info == [length |-> FileLength, checksum |-> sum]
  <1>4. CASE read = info /\ UNCHANGED eeprom
    <2>1. read.length = FileLength /\ read.checksum = sum
      BY <1>4
    <2>2. read.length = eeprom[FILE_INFO_PAGE][0] /\ read.checksum = eeprom[FILE_INFO_PAGE][1]
      BY <1>3
    <2> QED
      BY <1>2, <1>4, <2>1, <2>2
  <1>5. CASE eeprom' = WithInfo(info, 2)
    <2>1. info.length = FileLength /\ info.checksum = sum
      OBVIOUS
    <2> HIDE DEF info
    <2>2. WithInfo(info, 2)[FILE_INFO_PAGE] =
            [o \in Offsets |-> IF o < 2 /\ o = 0 THEN info.length
                               ELSE IF o < 2 /\ o = 1 THEN info.checksum
                               ELSE eeprom[FILE_INFO_PAGE][o]]
      BY KnownPages DEF WithInfo, TypeOK
    <2>3. /\ WithInfo(info, 2)[FILE_INFO_PAGE][0] = info.length
          /\ WithInfo(info, 2)[FILE_INFO_PAGE][1] = info.checksum
      BY <2>2, KnownPages
    <2> QED
      BY <1>2, <1>5, <2>1, <2>3
  <1> QED
    BY <1>1, <1>4, <1>5

\* A call that is in its loop is not a finalize, and stays none.
LEMMA LoopKeepsOp ==
    ASSUME TypeOK,
           \/ SwitchPage \/ WriteByte \/ ReadByte \/ WriteReturn \/ ReadReturn
    PROVE  call'.op = call.op /\ call.op \in {"File_write", "File_read"}
  <1>1. call.op \in {"File_write", "File_read"}
    BY DEF SwitchPage, WriteByte, ReadByte, WriteReturn, ReadReturn, InLoop, TypeOK, CallOK
  <1>2. call \in Calls
    BY DEF TypeOK, CallOK
  <1>3. CASE SwitchPage
    <2>1. call' = NoCall(call.op, ERROR) \/ call' = call
      BY <1>3, SwitchFacts
    <2> QED
      BY <1>1, <2>1 DEF NoCall
  <1>4. CASE WriteReturn
    BY <1>1, <1>4 DEF WriteReturn, Return, NoCall
  <1>5. CASE WriteByte \/ ReadByte \/ ReadReturn
    BY <1>1, <1>2, <1>5 DEF WriteByte, ReadByte, ReadReturn, Calls
  <1> QED
    BY <1>1, <1>3, <1>4, <1>5

\* A step keeps the record current until the next call.
LEMMA FinalizedNext ==
    ~DeviceFaults /\ TypeOK /\ LengthWithinData /\ FinalizedRecordIsCurrent /\ [Next]_fileVars
        => FinalizedRecordIsCurrent'
  <1> SUFFICES ASSUME ~DeviceFaults, TypeOK, LengthWithinData, FinalizedRecordIsCurrent,
                      [Next]_fileVars
               PROVE  FinalizedRecordIsCurrent'
    OBVIOUS
  <1>1. CASE SwitchPage \/ WriteByte \/ ReadByte \/ WriteReturn \/ ReadReturn
    BY <1>1, LoopKeepsOp DEF FinalizedRecordIsCurrent
  <1>2. CASE \/ \E index \in Indices, buf \in Payloads : File_write(index, buf)
             \/ \E index \in Indices, len \in ReadLengths : File_read(index, len)
    BY <1>2 DEF File_write, File_read, FinalizedRecordIsCurrent
  <1>3. CASE File_flush \/ File_reset \/ PowerCycle
    <2>1. call'.op \in {"File_flush", "File_reset", "File_init"}
      BY <1>3 DEF File_flush, File_reset, PowerCycle, NoCall
    <2> QED
      BY <2>1 DEF FinalizedRecordIsCurrent
  <1>4. CASE File_finalize
    <2>1. /\ eeprom' = [eeprom EXCEPT ![FILE_INFO_PAGE] = eeprom'[FILE_INFO_PAGE]]
          /\ UNCHANGED FileLength
      BY <1>4, FinalizeFacts DEF File_finalize
    <2>2. \A p \in Pages \ {FILE_INFO_PAGE} : eeprom'[p] = eeprom[p]
      BY <2>1 DEF TypeOK
    <2>3. DataSum' = DataSum
      BY <2>1, <2>2, SameSum
    <2> QED
      BY <1>4, <2>1, <2>3, FinalizedRecord DEF FinalizedRecordIsCurrent
  <1>5. CASE UNCHANGED fileVars
    <2>1. UNCHANGED <<eeprom, FileLength, call>>
      BY <1>5 DEF fileVars, infoVars
    <2>2. DataSum' = DataSum
      BY <2>1, SameSum
    <2> QED
      BY <2>1, <2>2 DEF FinalizedRecordIsCurrent
  <1> QED
    BY <1>1, <1>2, <1>3, <1>4, <1>5 DEF Next, Operation

\* On a device that does not fail, for callers that keep off the information
\* page, and whatever the calls, the power cuts and the record found there,
\* File_finalize leaves the length and the checksum of the data that is on the
\* device, be it by writing the record or by finding it equal.
THEOREM FinalizedCurrent ==
    ASSUME ~DeviceFaults, DataOnly PROVE Spec => []FinalizedRecordIsCurrent
  <1>1. Init => FinalizedRecordIsCurrent
    BY DEF Init, NoCall, FinalizedRecordIsCurrent
  <1>2. TypeOK /\ LengthWithinData /\ FinalizedRecordIsCurrent /\ [Next]_fileVars
            => FinalizedRecordIsCurrent'
    BY FinalizedNext
  <1>3. Spec => []LengthWithinData
    BY LengthBounded
  <1> QED
    BY <1>1, <1>2, <1>3, TypeCorrect, PTL DEF Spec

-----------------------------------------------------------------------------
(* A flush that answers 0 has saved the buffer *)

\* A step keeps what the last flush promised until the next call.
LEMMA FlushNext ==
    ~DeviceFaults /\ TypeOK /\ Coherence /\ FlushForcesBuffer /\ [Next]_fileVars
        => FlushForcesBuffer'
  <1> SUFFICES ASSUME ~DeviceFaults, TypeOK, Coherence, FlushForcesBuffer, [Next]_fileVars
               PROVE  FlushForcesBuffer'
    OBVIOUS
  <1>1. CASE SwitchPage \/ WriteByte \/ ReadByte \/ WriteReturn \/ ReadReturn
    BY <1>1, LoopKeepsOp DEF FlushForcesBuffer
  <1>2. CASE \/ \E index \in Indices, buf \in Payloads : File_write(index, buf)
             \/ \E index \in Indices, len \in ReadLengths : File_read(index, len)
    BY <1>2 DEF File_write, File_read, FlushForcesBuffer
  <1>3. CASE File_finalize \/ File_reset \/ PowerCycle
    <2>1. call'.op \in {"File_finalize", "File_reset", "File_init"}
      BY <1>3 DEF File_finalize, File_reset, PowerCycle, NoCall
    <2> QED
      BY <2>1 DEF FlushForcesBuffer
  <1>4. CASE File_flush
    <2>1. eeprom' = IF FileBufferDirty THEN View ELSE eeprom
      BY <1>4, FlushFacts DEF File_flush
    <2>2. UNCHANGED <<FileBuffer, CurrentFileBufferPage>>
      BY <1>4 DEF File_flush
    <2>3. CASE FileBufferDirty
      BY <2>1, <2>2, <2>3 DEF FlushForcesBuffer, View, TypeOK
    <2>4. CASE ~FileBufferDirty
      BY <2>1, <2>2, <2>4 DEF FlushForcesBuffer, Coherence
    <2> QED
      BY <2>3, <2>4
  <1>5. CASE UNCHANGED fileVars
    BY <1>5 DEF fileVars, bufferVars, FlushForcesBuffer
  <1> QED
    BY <1>1, <1>2, <1>3, <1>4, <1>5 DEF Next, Operation

\* The comment of Server.cpp:355 on a message of length 0, for a device that does
\* not fail: when File_flush answers 0 the device holds what the buffer holds.
\* (With a device that fails the comment is wrong, see FlushForcesBuffer.)
THEOREM FlushForced == ASSUME ~DeviceFaults PROVE Spec => []FlushForcesBuffer
  <1>1. Init => FlushForcesBuffer
    BY DEF Init, NoCall, FlushForcesBuffer
  <1>2. TypeOK /\ Coherence /\ FlushForcesBuffer /\ [Next]_fileVars => FlushForcesBuffer'
    BY FlushNext
  <1> QED
    BY <1>1, <1>2, TypeCorrect, Coherent, PTL DEF Spec

-----------------------------------------------------------------------------
(* Refinement: the store is a written-through memory, at most one page ahead  *)

\* The view is a device content.
LEMMA ViewType == ASSUME TypeOK PROVE View \in [Pages -> PageContents]
  BY DEF View, TypeOK

\* Saving a buffer that is clean or not leaves the view on the device.
LEMMA SavedView ==
    ASSUME TypeOK, Coherence, CurrentFileBufferPage # FILE_INFO_PAGE
    PROVE  (IF FileBufferDirty THEN View ELSE eeprom) = View
  <1>1. CASE ~FileBufferDirty
    <2>1. [eeprom EXCEPT ![CurrentFileBufferPage] = eeprom[CurrentFileBufferPage]] = eeprom
      BY DEF TypeOK
    <2> QED
      BY <1>1, <2>1 DEF View, Coherence
  <1> QED
    BY <1>1

\* A page switch moves the boundary between buffer and device, not the view.
LEMMA SwitchView ==
    ASSUME ~DeviceFaults, TypeOK, Coherence, OnDataPages, SwitchPage
    PROVE  View' = View /\ eeprom' = View
  <1>1. eeprom' = View
    BY SwitchFacts, SavedView DEF OnDataPages
  <1>2. CASE CurrentFileBufferPage' = CurrentFileBufferPage /\ FileBuffer' = FileBuffer
    <2>1. View' = [View EXCEPT ![CurrentFileBufferPage] = FileBuffer]
      BY <1>1, <1>2 DEF View
    <2> QED
      BY <1>1, <2>1 DEF View, TypeOK
  <1>3. CASE FileBuffer' = eeprom'[CurrentFileBufferPage']
    <2>1. [eeprom' EXCEPT ![CurrentFileBufferPage'] = eeprom'[CurrentFileBufferPage']] = eeprom'
      BY <1>1, ViewType
    <2> QED
      BY <1>1, <1>3, <2>1 DEF View
  <1> QED
    BY <1>1, <1>2, <1>3, SwitchFacts

\* After File_init the view is the device.
LEMMA InitBufferView ==
    ASSUME ~DeviceFaults, TypeOK, NEW mem \in [Pages -> PageContents],
           NEW old \in PageContents, InitBuffer(mem, old), eeprom' = mem
    PROVE  View' = mem
  <1>1. FileBuffer' = mem[FILE_DATA_PAGE] /\ CurrentFileBufferPage' = FILE_DATA_PAGE
    BY InitBufferFacts
  <1> QED
    BY <1>1 DEF View

\* The store starts with nothing unsaved.
LEMMA RefinesInit == Init => ABS!Init
  <1> SUFFICES ASSUME Init PROVE View = eeprom /\ Restarted = TRUE
    BY DEF ABS!Init
  <1> QED
    BY DeviceAssumption DEF Init, View, NoCall, Restarted

\* A call that is over is marked by its name alone.
LEMMA CallOver ==
    ASSUME NEW op, NEW status, call' = NoCall(op, status)
    PROVE  /\ op \in {"File_init", "File_reset"} => Restarted' = TRUE
           /\ op \notin {"File_init", "File_reset"} => Restarted' = FALSE
  BY DEF NoCall, Restarted

\* A call that loops is neither a start nor a reset.
LEMMA LoopStep ==
    ASSUME TypeOK,
           \/ SwitchPage \/ WriteByte \/ ReadByte \/ WriteReturn \/ ReadReturn
           \/ \E index \in Indices, buf \in Payloads : File_write(index, buf)
           \/ \E index \in Indices, len \in ReadLengths : File_read(index, len)
    PROVE  Restarted' = FALSE
  <1>1. CASE \/ \E index \in Indices, buf \in Payloads : File_write(index, buf)
             \/ \E index \in Indices, len \in ReadLengths : File_read(index, len)
    BY <1>1 DEF File_write, File_read, Restarted
  <1>2. CASE SwitchPage \/ WriteByte \/ ReadByte \/ WriteReturn \/ ReadReturn
    BY <1>2, LoopKeepsOp DEF Restarted
  <1> QED
    BY <1>1, <1>2

\* Every step of the store is a step of the written-through memory, or no step.
LEMMA RefinesNext ==
    ASSUME ~DeviceFaults, TypeOK, Coherence, OnDataPages, [Next]_fileVars
    PROVE  [ABS!Next]_(ABS!storeVars)
  <1> USE DEF bufferVars, infoVars
  <1>0. CASE UNCHANGED fileVars
    BY <1>0 DEF fileVars, ABS!storeVars, View, Restarted
  <1>1. CASE \/ ReadByte \/ WriteReturn \/ ReadReturn
             \/ \E index \in Indices, buf \in Payloads : File_write(index, buf)
             \/ \E index \in Indices, len \in ReadLengths : File_read(index, len)
    <2>1. UNCHANGED <<eeprom, bufferVars>>
      BY <1>1 DEF ReadByte, WriteReturn, ReadReturn, File_write, File_read
    <2>2. Restarted' = FALSE
      BY <1>1, LoopStep
    <2>3. ABS!Begin
      BY <2>1, <2>2 DEF ABS!Begin, View
    <2> QED
      BY <2>3 DEF ABS!Next
  <1>2. CASE SwitchPage
    <2>1. View' = View /\ eeprom' = View
      BY <1>2, SwitchView
    <2>2. CASE FileBufferDirty
      <3>1. eeprom' = [eeprom EXCEPT ![CurrentFileBufferPage] = View[CurrentFileBufferPage]]
        BY <2>1 DEF View, TypeOK
      <3>2. ABS!WriteBack(CurrentFileBufferPage)
        BY <1>2, <2>1, <3>1, LoopStep DEF ABS!WriteBack
      <3> QED
        BY <3>2 DEF ABS!Next, TypeOK
    <2>3. CASE ~FileBufferDirty
      <3>1. View = eeprom
        BY <2>3, SavedView DEF OnDataPages
      <3>2. ABS!Begin
        BY <1>2, <2>1, <3>1, LoopStep DEF ABS!Begin
      <3> QED
        BY <3>2 DEF ABS!Next
    <2> QED
      BY <2>2, <2>3
  <1>3. CASE WriteByte
    <2> DEFINE p == CurrentFileBufferPage
               o == pageoffset
    <2>1. p \in Pages /\ o \in Offsets
      BY AddressFacts DEF TypeOK
    <2>2. UNCHANGED <<eeprom, CurrentFileBufferPage>> /\ FileBuffer' = [FileBuffer EXCEPT ![o] = FileBuffer'[o]]
      BY <1>3, WriteByteFacts
    <2>3. View[p] = FileBuffer /\ View'[p] = FileBuffer'
      BY <2>1, <2>2 DEF View, TypeOK
    <2>4. View' = [View EXCEPT ![p] = FileBuffer']
      BY <2>1, <2>2 DEF View, TypeOK
    <2>5. View' = [View EXCEPT ![p][o] = View'[p][o]]
      BY <2>1, <2>2, <2>3, <2>4
    <2>6. \A q \in Pages \ {p} : View[q] = eeprom[q]
      BY DEF View, TypeOK
    <2> HIDE DEF p, o
    <2>7. ABS!Put(p, o)
      BY <1>3, <2>2, <2>5, <2>6, LoopStep DEF ABS!Put
    <2> QED
      BY <2>1, <2>7 DEF ABS!Next
  <1>4. CASE File_flush
    <2>1. PICK f \in FlushOutcomes : eeprom' = f.mem
      BY <1>4 DEF File_flush
    <2>2. eeprom' = IF FileBufferDirty THEN View ELSE eeprom
      BY <2>1, FlushFacts
    <2>3. eeprom' = View
      BY <2>2, SavedView DEF OnDataPages
    <2>4. UNCHANGED <<FileBuffer, CurrentFileBufferPage>>
      BY <1>4 DEF File_flush
    <2>5. View' = View
      BY <2>3, <2>4 DEF View, TypeOK
    <2>6. eeprom' = [eeprom EXCEPT ![CurrentFileBufferPage] = View[CurrentFileBufferPage]]
      BY <2>3 DEF View, TypeOK
    <2>7. Restarted' = FALSE
      <3>1. PICK g \in FlushOutcomes : call' = NoCall("File_flush", g.status)
        BY <1>4 DEF File_flush
      <3>2. "File_flush" \notin {"File_init", "File_reset"}
        OBVIOUS
      <3> QED
        BY <3>1, <3>2, CallOver
    <2>8. ABS!WriteBack(CurrentFileBufferPage)
      BY <2>5, <2>6, <2>7 DEF ABS!WriteBack
    <2> QED
      BY <2>8 DEF ABS!Next, TypeOK
  <1>5. CASE File_reset
    <2>1. InitBuffer(eeprom, FileBuffer) /\ eeprom' = eeprom
      BY <1>5 DEF File_reset
    <2>2. View' = eeprom
      BY <2>1, InitBufferView DEF TypeOK
    <2>3. eeprom' = [eeprom EXCEPT ![FILE_INFO_PAGE] = eeprom'[FILE_INFO_PAGE]]
      BY <2>1, KnownPages DEF TypeOK
    <2>4. Restarted' = TRUE
      BY <1>5, CallOver DEF File_reset
    <2>5. ABS!Restart
      BY <2>1, <2>2, <2>3, <2>4 DEF ABS!Restart
    <2> QED
      BY <2>5 DEF ABS!Next
  <1>6. CASE File_finalize
    <2>1. UNCHANGED bufferVars
      BY <1>6 DEF File_finalize
    <2>2. /\ eeprom' = [eeprom EXCEPT ![FILE_INFO_PAGE] = eeprom'[FILE_INFO_PAGE]]
          /\ eeprom' \in [Pages -> PageContents]
      BY <1>6, FinalizeFacts
    <2>3. View' = [View EXCEPT ![FILE_INFO_PAGE] = eeprom'[FILE_INFO_PAGE]]
      BY <2>1, <2>2, KnownPages DEF View, TypeOK, OnDataPages
    <2>4. Restarted' = FALSE
      <3>1. "File_finalize" \notin {"File_init", "File_reset"}
        OBVIOUS
      <3> QED
        BY <1>6, <3>1, CallOver DEF File_finalize
    <2>5. ABS!RecordInfo
      BY <2>2, <2>3, <2>4 DEF ABS!RecordInfo
    <2> QED
      BY <2>5 DEF ABS!Next
  <1>7. CASE PowerCycle
    <2>1. PICK mem \in CutOutcomes : eeprom' = mem /\ InitBuffer(mem, [o \in Offsets |-> 0])
      BY <1>7 DEF PowerCycle
    <2>2. mem \in [Pages -> PageContents] /\ [o \in Offsets |-> 0] \in PageContents
      BY CutFacts DEF PageContents
    <2>3. View' = eeprom'
      BY <2>1, <2>2, InitBufferView
    <2>7. Restarted' = TRUE
      BY <1>7, CallOver DEF PowerCycle
    <2>4. CASE mem = eeprom
      <3>1. eeprom' = [eeprom EXCEPT ![FILE_INFO_PAGE] = eeprom'[FILE_INFO_PAGE]]
        BY <2>1, <2>4, KnownPages DEF TypeOK
      <3> QED
        BY <2>3, <2>7, <3>1 DEF ABS!Restart, ABS!Next
    <2>5. CASE \E n \in Offsets : mem = [eeprom EXCEPT ![CurrentFileBufferPage] =
                 Mixed(eeprom[CurrentFileBufferPage], FileBuffer, n)]
      <3>1. PICK n \in Offsets : mem = [eeprom EXCEPT ![CurrentFileBufferPage] =
                 Mixed(eeprom[CurrentFileBufferPage], FileBuffer, n)]
        BY <2>5
      <3> DEFINE written == {o \in Offsets : o < n}
                 p == CurrentFileBufferPage
      <3>2. View[p] = FileBuffer /\ p \in Pages
        BY DEF View, TypeOK
      <3>3. Mixed(eeprom[p], FileBuffer, n) =
              [o \in Offsets |-> IF o \in written THEN View[p][o] ELSE eeprom[p][o]]
        BY <3>2 DEF Mixed
      <3>4. eeprom' = [eeprom EXCEPT ![p] =
              [o \in Offsets |-> IF o \in written THEN View[p][o] ELSE eeprom[p][o]]]
        BY <2>1, <3>1, <3>3
      <3>5. written \in SUBSET Offsets
        OBVIOUS
      <3> HIDE DEF written, p
      <3>6. ABS!Restart
        BY <2>3, <2>7, <3>2, <3>4, <3>5 DEF ABS!Restart
      <3> QED
        BY <3>6 DEF ABS!Next
    <2>6. CASE mem = WithInfo([length |-> FileLength, checksum |-> 0], 1)
      <3>1. [length |-> FileLength, checksum |-> 0] \in [length : Nat, checksum : Nat]
        BY SizeAssumption DEF TypeOK
      <3>2. eeprom' = [eeprom EXCEPT ![FILE_INFO_PAGE] = eeprom'[FILE_INFO_PAGE]]
        BY <2>1, <2>6, <3>1, InfoFacts
      <3> QED
        BY <2>3, <2>7, <3>2 DEF ABS!Restart, ABS!Next
    <2> QED
      BY <2>1, <2>4, <2>5, <2>6 DEF CutOutcomes
  <1> QED
    BY <1>0, <1>1, <1>2, <1>3, <1>4, <1>5, <1>6, <1>7 DEF Next, Operation

\* On a device that does not fail, and with callers that keep off the
\* information page, the file store implements ByteStore: whatever the calls and
\* wherever the power goes, at most one page is ahead of the device, and what is
\* lost is lost to a start or a reset of the store.
THEOREM Refines == ASSUME ~DeviceFaults, DataOnly PROVE Spec => RefinesByteStore
  <1>1. TypeOK /\ OnDataPages /\ [Next]_fileVars => OnDataPages'
    BY OnDataPagesNext
  <1>2. TypeOK /\ Coherence /\ [Next]_fileVars => Coherence'
    BY CoherenceNext
  <1>3. Init => Coherence
    BY DEF Init, Coherence
  <1>4. TypeOK /\ Coherence /\ OnDataPages /\ [Next]_fileVars => [ABS!Next]_(ABS!storeVars)
    BY RefinesNext
  <1> QED
    BY <1>1, <1>2, <1>3, <1>4, OnDataPagesInit, RefinesInit, TypeCorrect, PTL
       DEF Spec, RefinesByteStore, ABS!Spec

-----------------------------------------------------------------------------
(* What is read is what was written *)

\* What File_read has copied so far, against the memory mem.
Copied(c, mem) ==
    \A j \in 1..Len(c.buf) :
        c.buf[j] = mem[(c.index + j - 1) \div EEPROM_PAGE_SIZE][(c.index + j - 1) % EEPROM_PAGE_SIZE]

\* A step of File_read's loop copies what its caller would see, and the page
\* switches in between leave what it has copied alone.
LEMMA ReadsNext ==
    ASSUME ~DeviceFaults, TypeOK, Coherence, OnDataPages, ReadsSeeWrites, [Next]_fileVars
    PROVE  ReadsSeeWrites'
  <1> SUFFICES ASSUME call'.op = "File_read", call'.status # ERROR PROVE Copied(call', View')
    BY DEF ReadsSeeWrites, Copied
  <1>a. call.op = "File_read" /\ call.status # ERROR => Copied(call, View)
    BY DEF ReadsSeeWrites, Copied
  <1>1. CASE \E index \in Indices, len \in ReadLengths : File_read(index, len)
    <2>1. Len(call'.buf) = 0
      BY <1>1 DEF File_read
    <2> QED
      BY <2>1 DEF Copied
  <1>2. CASE SwitchPage
    <2>1. call' = call
      BY <1>2, SwitchFacts DEF NoCall
    <2>2. View' = View
      BY <1>2, SwitchView
    <2> QED
      BY <1>a, <2>1, <2>2
  <1>3. CASE ReadByte
    <2> DEFINE byte == FileBuffer[pageoffset]
    <2>1. /\ call.op = "File_read" /\ call.status = Running
          /\ desiredpage = CurrentFileBufferPage
          /\ call' = [call EXCEPT !.i = @ + 1, !.buf = Append(@, byte)]
          /\ UNCHANGED <<eeprom, bufferVars>>
      BY <1>3 DEF ReadByte, InLoop
    <2>2. /\ call \in Calls /\ call.buf \in Seq(Nat) /\ call.i = Len(call.buf)
          /\ call.index \in Nat /\ Len(call.buf) \in Nat
      BY <2>1 DEF TypeOK, CallOK, Calls
    <2>3. call'.buf = Append(call.buf, byte) /\ call'.index = call.index
      BY <2>1, <2>2 DEF Calls
    <2>4. byte \in Nat
      BY AddressFacts DEF TypeOK, PageContents
    <2>5. View' = View
      BY <2>1 DEF View, bufferVars
    <2>6. byte = View[desiredpage][pageoffset]
      BY <2>1 DEF View, TypeOK
    <2>7. Copied(call, View)
      BY <1>a, <2>1 DEF Running, ERROR
    <2> HIDE DEF byte
    <2>8. Len(call'.buf) = Len(call.buf) + 1
      BY <2>2, <2>3, <2>4
    <2>9. ASSUME NEW j \in 1..Len(call'.buf)
          PROVE  call'.buf[j] = View[(call.index + j - 1) \div EEPROM_PAGE_SIZE]
                                    [(call.index + j - 1) % EEPROM_PAGE_SIZE]
      <3>1. CASE j \in 1..Len(call.buf)
        <4>1. call'.buf[j] = call.buf[j]
          BY <2>2, <2>3, <2>4, <3>1
        <4> QED
          BY <2>7, <3>1, <4>1 DEF Copied
      <3>2. CASE j = Len(call.buf) + 1
        <4>1. call'.buf[j] = byte
          BY <2>2, <2>3, <2>4, <3>2
        <4>2. call.index + j - 1 = call.index + call.i
          BY <2>2, <3>2
        <4> QED
          BY <2>6, <4>1, <4>2 DEF desiredpage, pageoffset
      <3> QED
        BY <2>2, <2>8, <3>1, <3>2
    <2> QED
      BY <2>3, <2>5, <2>9 DEF Copied
  <1>4. CASE ReadReturn
    <2>1. /\ UNCHANGED <<eeprom, bufferVars>> /\ call' = [call EXCEPT !.status = OK]
          /\ call.op = "File_read" /\ call.status = Running
      BY <1>4 DEF ReadReturn
    <2>2. call'.buf = call.buf /\ call'.index = call.index
      BY <2>1 DEF TypeOK, CallOK, Calls
    <2>3. View' = View
      BY <2>1 DEF View, bufferVars
    <2>4. Copied(call, View)
      BY <1>a, <2>1 DEF Running, ERROR
    <2> QED
      BY <2>2, <2>3, <2>4 DEF Copied
  <1>5. CASE WriteByte \/ WriteReturn
    <2>1. call.op = "File_write"
      BY <1>5 DEF WriteByte, WriteReturn
    <2> QED
      BY <1>5, <2>1, LoopKeepsOp
  <1>6. CASE \/ \E index \in Indices, buf \in Payloads : File_write(index, buf)
             \/ File_flush \/ File_finalize \/ File_reset \/ PowerCycle
    BY <1>6 DEF File_write, File_flush, File_finalize, File_reset, PowerCycle, NoCall
  <1>7. CASE UNCHANGED fileVars
    <2>1. call' = call /\ View' = View
      BY <1>7 DEF fileVars, bufferVars, View
    <2> QED
      BY <1>a, <2>1
  <1> QED
    BY <1>1, <1>2, <1>3, <1>4, <1>5, <1>6, <1>7 DEF Next, Operation

\* On a device that does not fail, and with callers that keep off the
\* information page, File_read hands out what was last written at each address,
\* saved or still in the buffer, however many pages the read crosses.
THEOREM ReadsCurrent == ASSUME ~DeviceFaults, DataOnly PROVE Spec => []ReadsSeeWrites
  <1>1. Init => ReadsSeeWrites
    BY DEF Init, NoCall, ReadsSeeWrites
  <1>2. TypeOK /\ OnDataPages /\ [Next]_fileVars => OnDataPages'
    BY OnDataPagesNext
  <1>3. TypeOK /\ Coherence /\ OnDataPages /\ ReadsSeeWrites /\ [Next]_fileVars
            => ReadsSeeWrites'
    BY ReadsNext
  <1> QED
    BY <1>1, <1>2, <1>3, OnDataPagesInit, TypeCorrect, Coherent, PTL DEF Spec
-----------------------------------------------------------------------------
(* What the steps do to the bytes, on whatever page, until File_finalize puts  *)
(* its record behind the buffer's back; for those who compose the store.       *)

Clean == ~FileBufferDirty => FileBuffer = eeprom[CurrentFileBufferPage]

Byte(mem, a) == mem[a \div EEPROM_PAGE_SIZE][a % EEPROM_PAGE_SIZE]

LEMMA CleanView ==
    ASSUME TypeOK, Clean
    PROVE  /\ (IF FileBufferDirty THEN View ELSE eeprom) = View
           /\ ~FileBufferDirty => View = eeprom
  <1>1. CASE ~FileBufferDirty
    <2>1. [eeprom EXCEPT ![CurrentFileBufferPage] = eeprom[CurrentFileBufferPage]] = eeprom
      BY DEF TypeOK
    <2> QED
      BY <1>1, <2>1 DEF View, Clean
  <1> QED
    BY <1>1

\* A page that is on the device is always reached, and no byte changes on the way.
LEMMA CleanSwitch ==
    ASSUME ~DeviceFaults, TypeOK, Clean, SwitchPage, desiredpage \in Pages
    PROVE  View' = View /\ Clean' /\ UNCHANGED <<call, reported>>
  <1>1. /\ eeprom' = View /\ CurrentFileBufferPage' = desiredpage
        /\ FileBuffer' = eeprom'[CurrentFileBufferPage'] /\ UNCHANGED <<call, reported>>
    BY SwitchFacts, CleanView
  <1>2. [eeprom' EXCEPT ![CurrentFileBufferPage'] = eeprom'[CurrentFileBufferPage']] = eeprom'
    BY <1>1, ViewType
  <1> QED
    BY <1>1, <1>2 DEF View, Clean

LEMMA CleanFlush ==
    ASSUME ~DeviceFaults, TypeOK, Clean, File_flush
    PROVE  /\ eeprom' = View /\ View' = View /\ Clean' /\ ~FileBufferDirty'
           /\ call' = NoCall("File_flush", OK)
  <1>1. PICK f \in FlushOutcomes : eeprom' = f.mem /\ call' = NoCall("File_flush", f.status)
    BY DEF File_flush
  <1>2. eeprom' = View /\ call' = NoCall("File_flush", OK)
    BY <1>1, FlushFacts, CleanView
  <1>3. UNCHANGED <<FileBuffer, CurrentFileBufferPage>> /\ FileBufferDirty' = FALSE
    BY DEF File_flush
  <1>4. View' = View
    BY <1>2, <1>3 DEF View, TypeOK
  <1>5. View[CurrentFileBufferPage] = FileBuffer
    BY DEF View, TypeOK
  <1> QED
    BY <1>2, <1>3, <1>4, <1>5 DEF Clean

LEMMA CleanReset ==
    ASSUME ~DeviceFaults, TypeOK, File_reset
    PROVE  Clean' /\ call' = NoCall("File_reset", OK)
  <1>1. InitBuffer(eeprom, FileBuffer) /\ eeprom' = eeprom /\ call' = NoCall("File_reset", OK)
    BY DEF File_reset
  <1>2. FileBuffer' = eeprom[FILE_DATA_PAGE] /\ CurrentFileBufferPage' = FILE_DATA_PAGE
    BY <1>1, InitBufferFacts DEF TypeOK
  <1> QED
    BY <1>1, <1>2 DEF Clean

\* A byte is put where it belongs and no other one changes.
LEMMA CleanWrite ==
    ASSUME TypeOK, Clean, WriteByte
    PROVE  /\ Clean' /\ call' = [call EXCEPT !.i = @ + 1]
           /\ \A a \in Nat : a \div EEPROM_PAGE_SIZE \in Pages =>
                 Byte(View', a) = IF a = call.index + call.i THEN call.buf[call.i + 1] ELSE Byte(View, a)
  <1> DEFINE p == CurrentFileBufferPage
             o == pageoffset
             byte == call.buf[call.i + 1]
  <1>1. p \in Pages /\ o \in Offsets /\ p = desiredpage
        /\ call.index + call.i = EEPROM_PAGE_SIZE * p + o
    BY AddressFacts DEF TypeOK, WriteByte
  <1>2. /\ UNCHANGED <<eeprom, CurrentFileBufferPage>> /\ FileBuffer' = [FileBuffer EXCEPT ![o] = byte]
        /\ call' = [call EXCEPT !.i = @ + 1]
    BY DEF WriteByte
  <1>3. Clean'
    BY WriteByteFacts DEF Clean
  <1>4. /\ View'[p] = [FileBuffer EXCEPT ![o] = byte] /\ View[p] = FileBuffer
        /\ \A q \in Pages \ {p} : View'[q] = View[q]
    BY <1>1, <1>2 DEF View, TypeOK
  <1>5. ASSUME NEW a \in Nat, a \div EEPROM_PAGE_SIZE \in Pages
        PROVE  Byte(View', a) = IF a = call.index + call.i THEN byte ELSE Byte(View, a)
    <2> DEFINE q == a \div EEPROM_PAGE_SIZE
               c == a % EEPROM_PAGE_SIZE
    <2>1. q \in Pages /\ c \in Offsets /\ a = EEPROM_PAGE_SIZE * q + c
      BY <1>5, PageArithmetic
    <2>2. a = call.index + call.i => q = p /\ c = o
      BY <1>1 DEF desiredpage, pageoffset, WriteByte
    <2>3. q = p /\ c = o => a = call.index + call.i
      BY <1>1, <2>1
    <2>4. FileBuffer \in [Offsets -> Nat]
      BY DEF TypeOK, PageContents
    <2> HIDE DEF p, o, byte, q, c
    <2>5. View'[q][c] = IF q = p /\ c = o THEN byte ELSE View[q][c]
      <3>1. CASE q = p
        BY <1>1, <1>4, <2>1, <2>4, <3>1
      <3>2. CASE q # p
        BY <1>4, <2>1, <3>2
      <3> QED
        BY <3>1, <3>2
    <2>6. Byte(View', a) = View'[q][c] /\ Byte(View, a) = View[q][c]
      BY DEF Byte, q, c
    <2> QED
      BY <2>2, <2>3, <2>5, <2>6
  <1> QED
    BY <1>2, <1>3, <1>5

==============================================================================

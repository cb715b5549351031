------------------------------- MODULE HexFile -------------------------------
(* The reader of the program file, CPCMonitorGUIDlg::ParseHexFile: a state    *)
(* machine over the characters of an Intel HEX file that fills the image the  *)
(* transfer sends.                                                            *)
(*                                                                            *)
(* A file is a sequence of records, one to a line.  Characters are numbers:   *)
(* the digits 0..BASE-1, the colon, the end of a line, and anything else.     *)
(* The states that read the digits of one field are one state with a count.   *)
(* One character of the file may be damaged.                                  *)
EXTENDS Integers, Sequences

CONSTANTS
    BASE,                   \* of the digits (16)
    APPLICATION_DATA_START, \* address of the first byte of the image (0x4000)
    DataSize,               \* size of Data (32)
    MaxSize,                \* size of Binary (65536)
    Files                   \* the files: sequences of records [address, type, data]

BYTE == BASE * BASE
Bytes == 0..(BYTE - 1)
Addresses == 0..(BYTE * BYTE - 1)
Records == [address : Addresses, type : Bytes, data : Seq(Bytes)]

ASSUME HexAssumption ==
    /\ BASE \in Nat /\ BASE >= 2
    /\ APPLICATION_DATA_START \in Addresses
    /\ DataSize \in Nat /\ MaxSize \in Nat
    /\ BYTE * BYTE - 1 - APPLICATION_DATA_START + DataSize <= MaxSize
    /\ Files \subseteq Seq(Records)
    /\ \A f \in Files : \A i \in 1..Len(f) : Len(f[i].data) < BYTE

Colon == BASE
EndOfLine == BASE + 1
Characters == 0..(BASE + 2)

VARIABLES
    file,               \* its characters
    pos,                \* how many of them were read
    ParseState,
    digits, value,      \* of the field that is read: digits so far, and their value
    Line,               \* LineByteCount, LineAddress, LineRecordType, Data and Checksum
    Binary,
    TotalByteCount,
    overrun,            \* something outside Data or Binary was written
    records,            \* history: the records the file was written from
    damage              \* history: where a character was damaged, or 0, and what it was

fileVars == <<file, records, damage>>
imageVars == <<Binary, TotalByteCount>>
hexVars == <<fileVars, pos, ParseState, digits, value, Line, imageVars, overrun>>

-----------------------------------------------------------------------------
(* The file *)

Sum(bytes) ==
    LET sum[n \in 0..Len(bytes)] == IF n = 0 THEN 0 ELSE (sum[n - 1] + bytes[n]) % BYTE
    IN  sum[Len(bytes)]

\* The bytes of a record: count, address, type, data, and the sum's complement.
Body(r) == <<Len(r.data), r.address \div BYTE, r.address % BYTE, r.type>> \o r.data
Raw(r) == Append(Body(r), (BYTE - Sum(Body(r))) % BYTE)

\* Two digits for each byte.
Digits(bytes) ==
    [k \in 1..(2 * Len(bytes)) |->
        IF k % 2 = 1 THEN bytes[(k + 1) \div 2] \div BASE ELSE bytes[k \div 2] % BASE]

Text(r) == <<Colon>> \o Digits(Raw(r)) \o <<EndOfLine>>

\* The first n records of rs, one to a line.
Texts(rs, n) ==
    LET text[k \in 0..n] == IF k = 0 THEN <<>> ELSE text[k - 1] \o Text(rs[k])
    IN  text[n]

\* A file that was written from records: as it was written, or with any one of its
\* characters replaced by any other.
FileOfRecords ==
    /\ records \in Files
    /\ LET text == Texts(records, Len(records)) IN
          \/ damage = [at |-> 0, was |-> 0] /\ file = text
          \/ \E at \in 1..Len(text) : \E c \in Characters \ {text[at]} :
                damage = [at |-> at, was |-> text[at]] /\ file = [text EXCEPT ![at] = c]

NoImage == [a \in 0..(MaxSize - 1) |-> 0]
NoLine == [count |-> 0, address |-> 0, type |-> 0, Data |-> <<>>, Checksum |-> 0]

Init ==
    /\ FileOfRecords
    /\ pos = 0
    /\ ParseState = "START_OF_LINE"
    /\ digits = 0 /\ value = 0
    /\ Line = NoLine
    /\ Binary = NoImage
    /\ TotalByteCount = 0
    /\ overrun = FALSE

-----------------------------------------------------------------------------
(* The parser: a field's digits but the last, and one action per field *)

NumDigits == [BYTE_COUNT |-> 2, ADDRESS |-> 4, RECORD_TYPE |-> 2, DATA |-> 2, CHECKSUM |-> 2]

\* Anything that is not a digit counts as 0.
HexDigitToDecimal(c) == IF c < BASE THEN c ELSE 0
Field == value * BASE + HexDigitToDecimal(file[pos + 1])

Read ==
    /\ ~overrun
    /\ pos < Len(file)
    /\ pos' = pos + 1
    /\ UNCHANGED fileVars

StartOfLine ==
    /\ ParseState = "START_OF_LINE"
    /\ Read
    /\ IF file[pos + 1] = Colon
       THEN Line' = NoLine /\ ParseState' = "BYTE_COUNT"
       ELSE UNCHANGED <<Line, ParseState>>
    /\ UNCHANGED <<digits, value, imageVars, overrun>>

\* The first digit of a byte of data is written into Data at once.
FirstDigits ==
    /\ ParseState # "START_OF_LINE"
    /\ digits < NumDigits[ParseState] - 1
    /\ Read
    /\ digits' = digits + 1
    /\ value' = Field
    /\ overrun' = (ParseState = "DATA" /\ Len(Line.Data) >= DataSize)
    /\ UNCHANGED <<ParseState, Line, imageVars>>

LastDigit(state) ==
    /\ ParseState = state
    /\ digits = NumDigits[state] - 1
    /\ Read
    /\ digits' = 0 /\ value' = 0

Add(n) == (Line.Checksum + n) % BYTE

ByteCount ==
    /\ LastDigit("BYTE_COUNT")
    /\ Line' = [Line EXCEPT !.count = Field, !.Checksum = Add(Field)]
    /\ ParseState' = "ADDRESS"
    /\ UNCHANGED <<imageVars, overrun>>

Address ==
    /\ LastDigit("ADDRESS")
    /\ Line' = [Line EXCEPT !.address = Field, !.Checksum = Add((Field \div BYTE) + Field)]
    /\ ParseState' = "RECORD_TYPE"
    /\ UNCHANGED <<imageVars, overrun>>

RecordType ==
    /\ LastDigit("RECORD_TYPE")
    /\ Line' = [Line EXCEPT !.type = Field, !.Checksum = Add(Field)]
    /\ ParseState' = IF Line.count > 0 THEN "DATA" ELSE "CHECKSUM"
    /\ UNCHANGED <<imageVars, overrun>>

\* Mutant of DataByte: one byte more than the count says.
DataByteAfterLast ==
    /\ LastDigit("DATA")
    /\ Line' = [Line EXCEPT !.Data = Append(@, Field), !.Checksum = Add(Field)]
    /\ ParseState' = IF Len(Line'.Data) > Line.count THEN "CHECKSUM" ELSE "DATA"
    /\ UNCHANGED <<imageVars, overrun>>

DataByte ==
    /\ LastDigit("DATA")
    /\ Line' = [Line EXCEPT !.Data = Append(@, Field), !.Checksum = Add(Field)]
    /\ ParseState' = IF Len(Line'.Data) >= Line.count THEN "CHECKSUM" ELSE "DATA"
    /\ UNCHANGED <<imageVars, overrun>>

Overlay(image, first, data) ==
    [a \in DOMAIN image |-> IF a - first \in 0..(Len(data) - 1) THEN data[a - first + 1] ELSE image[a]]

\* Mutant of Accepted: the type of the record is not looked at.
AnyType(checksum) ==
    (Line.Checksum + checksum) % BYTE = 0 /\ Line.address >= APPLICATION_DATA_START

\* Mutant of Accepted: the checksum is not looked at.
AnyChecksum(checksum) == Line.type = 0 /\ Line.address >= APPLICATION_DATA_START

\* The checksum is the sum's complement.
Accepted(checksum) ==
    /\ (Line.Checksum + checksum) % BYTE = 0
    /\ Line.type = 0
    /\ Line.address >= APPLICATION_DATA_START

LineChecksum ==
    /\ LastDigit("CHECKSUM")
    /\ ParseState' = "START_OF_LINE"
    /\ IF Accepted(Field)
       THEN LET addr == Line.address - APPLICATION_DATA_START IN
            /\ Binary' = Overlay(Binary, addr, Line.Data)
            /\ TotalByteCount' = TotalByteCount + Line.count
            /\ overrun' = (addr + Line.count > MaxSize)
       ELSE UNCHANGED <<imageVars, overrun>>
    /\ UNCHANGED Line

ParseHexFile ==
    \/ StartOfLine \/ FirstDigits
    \/ ByteCount \/ Address \/ RecordType \/ DataByte \/ LineChecksum

Spec == Init /\ [][ParseHexFile]_hexVars

-----------------------------------------------------------------------------
(* Properties *)

\* Types of the parser's state.
TypeOK ==
    /\ file \in Seq(Characters)
    /\ pos \in 0..Len(file)
    /\ ParseState \in {"START_OF_LINE"} \cup DOMAIN NumDigits
    /\ digits \in 0..3
    /\ value \in Addresses
    /\ Line \in [count : Bytes, address : Addresses, type : Bytes, Data : Seq(Bytes), Checksum : Bytes]
    /\ Len(Line.Data) <= IF Line.count < DataSize THEN Line.count ELSE DataSize
    /\ Binary \in [0..(MaxSize - 1) -> Bytes]
    /\ TotalByteCount \in Nat
    /\ overrun \in BOOLEAN

\* The text of record i is file[Begin(i)] to file[End(i)], and the end of the line.
\* Two characters for each byte, and there are five besides the data.
Begin(i) == Len(Texts(records, i - 1)) + 1
End(i) == Begin(i) + 2 * (Len(records[i].data) + 5)

CountDamaged == \E i \in 1..Len(records) : damage.at \in {Begin(i) + 1, Begin(i) + 2}

\* The colon of the next record is then read as a digit of the count, as every digit
\* of that record is read one place too late.
EndOfLineIsColon ==
    \E i \in 1..Len(records) : damage.at = End(i) + 1 /\ file[damage.at] = Colon

\* The one character makes the parser lose the place in records other than its own.
Misframed == CountDamaged \/ EndOfLineIsColon

Damaged(i) ==
    /\ damage.at \in Begin(i)..End(i)
    /\ damage.at # Begin(i) => HexDigitToDecimal(file[damage.at]) # damage.was

\* The records the image should hold when pos characters were read.
Kept(i) ==
    /\ End(i) <= pos
    /\ ~Damaged(i)
    /\ records[i].type = 0
    /\ records[i].address >= APPLICATION_DATA_START

KeptRecords == {i \in 1..Len(records) : Kept(i)}

\* The image and the count that some of the records leave, the later over the earlier.
Store(was, r) ==
    [Binary |-> Overlay(was.Binary, r.address - APPLICATION_DATA_START, r.data),
     TotalByteCount |-> was.TotalByteCount + Len(r.data)]
Leaves(rs, kept) ==
    LET after[n \in 0..Len(rs)] ==
            IF n = 0 THEN [Binary |-> NoImage, TotalByteCount |-> 0]
            ELSE IF n \in kept THEN Store(after[n - 1], rs[n]) ELSE after[n - 1]
    IN  after[Len(rs)]

\* Wherever the file ends, the image holds the data records that were read up to
\* there, each at its address and the later over the earlier; other types, low
\* addresses and half a record leave nothing.  A damaged character costs the record
\* it is in, never a byte of another one, unless it is in a count field or is the end
\* of a line that became a colon: then the records after it can be lost as well.
HoldsTheRecords ==
    ~Misframed /\ ~overrun =>
        [Binary |-> Binary, TotalByteCount |-> TotalByteCount] = Leaves(records, KeptRecords)

\* Data has room for 32 bytes and the format allows 255.  Nothing outside Data or
\* Binary is written if the counts are within DataSize, as those of the repository's
\* own files are: whatever the addresses, and whichever other character is damaged, but
\* for an end of a line that became a colon.
WritesInBounds ==
    ~Misframed /\ (\A i \in 1..Len(records) : Len(records[i].data) <= DataSize) => ~overrun

\* Each record that was kept begins at the start or where an earlier one ends.
NoGap ==
    \A i \in KeptRecords :
        \/ records[i].address = APPLICATION_DATA_START
        \/ \E j \in KeptRecords :
              j < i /\ records[i].address = records[j].address + Len(records[j].data)

\* The transfer sends the first TotalByteCount bytes of the image.  Without a gap
\* these are all that was stored.  (With a gap they are not: the end of the image
\* stays behind.)
CountReachesTheEnd ==
    ~Misframed /\ ~overrun /\ NoGap =>
        \A a \in DOMAIN Binary : Binary[a] # 0 => a < TotalByteCount
==============================================================================

# Remote PC Monitor: a TLA+ verification project

The program has two halves. The **firmware** (`PC_Monitor_Hardware/`, an
Arduino M0 sketch) serves one TCP client: it stores an uploaded file in an I2C
EEPROM and reports sensor readings. The **GUI** (`PCMonitorGUI/`, an MFC dialog)
connects to it, uploads Intel-HEX images and shows the sensors. The two halves
share `Msgs.h`, the packet and message layouts.

This directory models the parts where the program can go wrong in ways a test
would hardly reach, checks them with TLC on small instances and proves the main
properties with TLAPS for every size.

## 1. Inventory

| part | state | operations | talks to |
|---|---|---|---|
| file store, `FileHelper.cpp` | one page buffer, its page number and dirty flag; file length and checksum; the last information record; the EEPROM | `File_init`, `File_write`, `File_read`, `File_flush`, `File_reset`, `File_finalize` | called by `Server.cpp` and `setup()`; calls the extEEPROM library |
| packet parser and connection, `Server.cpp` | parser state, one shared packet, the client, "connections allowed", statistics | `Server_Update`, `l_ParsePacket`, `Server_ToggleConnectionsAllowed` | the Ethernet library; `l_HandleCommand` |
| dispatch and handlers, `Server.cpp` | the shared packet, a message counter | `l_HandleCommand`, `l_ProcessSendFile`, `l_ProcessSensorList`, `l_ProcessSensorUpdate`, `l_BuildAndSendPacket` | file store, sensor manager |
| sensor manager | table of last values, update period, time of the last update | `SensorManager_Update`, `SensorManager_Poll`, `SensorManager_GetEntry` | called by `loop()` and the handlers |
| control parameters, FRAM, menu | a constant table; nothing; a menu that the sketch never calls | | |
| request/answer layer, `Commander.cpp` | one slot (flag, payload) per command, the payload mutex, parser state | the calls (`SendFile`, `ListSensors`, ...), `WaitOnReturn`, the listener `PacketParsingThread` | network threads; called from the dialog's threads |
| network threads, `NetworkThread.cpp` | socket, two byte queues with their mutexes, the stop and disconnected flags, three threads | `Connect`, `Disconnect`, `write`, `read`, `TXHandler`, `RXHandler`, `UpdateHandler` | winsock; `Commander`; the dialog |
| dialog, `PCMonitorGUIDlg.cpp` | busy flags, the sensor list and its lock, one thread per long operation | `SendFile`, `BuildSensorList`, `UpdateSensorList`, `ParseHexFile`, the buttons, `OnTimer`, `OnClose` | `Commander`, `NetworkThread` |

What is hard: in the firmware there is one thread, but the power can go between
any two steps and any EEPROM transfer can fail half way. In the GUI the caller
and the listener share a slot without holding the lock long enough, answers are
not tied to requests, packets can be lost (`send()` on a non-blocking socket,
result ignored), and several threads start, stop and join each other.
`PROJECT.json` lists these hazards, each at its line.

What makes each part correct:

* file store: bytes a call has accepted are readable, and reach the device
  unless a call said otherwise; a power cut costs at most the buffered page; the
  record describes the data;
* request/answer layer: every call returns; the answer is the one to its
  request, or at least not arbitrarily old;
* file transfer: when it is finalized the image is on the device; it ends;
* packet parser: after any garbage or reconnection it finds packets again;
* network threads: connecting, disconnecting and a dropped connection in any
  order never hang a thread, and no byte crosses from one session to the next;
* listener: a slot holds what the firmware sent, whatever the chunks;
* window: it always comes back to the user, and shows the connection as it is;
* sensor list: position *i* of the list is sensor *i* of the firmware;
* hex parser: the image holds the records, and the number of bytes sent covers it;
* sensor manager: the sensors are read once a period, wherever the clock wraps.

## 2. Modules

| module | models |
|---|---|
| `ByteStore` | abstract: a paged memory written through to a device, at most one page behind, which loses something only at a start or a reset |
| `FileHelper` | `FileHelper.cpp` with device faults and power cuts; refines `ByteStore` |
| `Commander` | the calls of `Commander.cpp`, the slots, the listener, the firmware's dispatch and a network that loses packets |
| `FileTransfer` | the `SendFile` thread of the dialog, `l_ProcessSendFile`; composes `Commander` and `FileHelper` by INSTANCE over shared variables |
| `Packets` | packets over a byte stream: `BuildAndSendPacket` and `TXHandler` of the GUI, `Server_Update` and `l_ParsePacket` of the firmware |
| `SensorList` | the threads `BuildSensorList` and `UpdateSensorList`, the two buttons that start them, and the firmware's sensor handlers; composes `Commander` by INSTANCE over shared variables |
| `NetworkThread` | `NetworkThread.cpp`: `Connect`, `Disconnect` from two threads, the three handlers, and a connection that goes by itself |
| `Window` | the dialog's buttons, timer and end, the threads it starts and joins, and the listener; extends `NetworkThread`, whose calls it makes |
| `Listener` | `Commander::PacketParsingThread` over the receive queue, from one session to the next |
| `HexFile` | `ParseHexFile` on files with a damaged character or none |
| `SensorManager` | `SensorManager.cpp` in the sketch's loop, on a clock that wraps |
| `MCFileHelper`, `MCCommander`, `MCFileTransfer`, `MCPackets`, `MCSensorList`, `MCListener`, `MCHexFile` | values of the constants for TLC |
| `FileHelper_proofs`, `Commander_proofs`, `FileTransfer_proofs`, `Packets_proofs`, `Listener_proofs`, `Window_proofs`, `HexFile_proofs` | the theorems of these modules; those of `NetworkThread` are in `Window_proofs` |
| `Sensors_proofs` | the theorems of `SensorList` and of `SensorManager`, whose specification is called `PollSpec` so that both can be used together |

Operators whose comment starts with "Mutant of" are not part of any model. Each
is a plausible slip in the definition after it; replacing the definition by it
must violate the property `PROJECT.json` names, which shows that the property
depends on the code.

### FileHelper

`eeprom` is the device and survives `PowerCycle`; the other variables have the
names of the C globals. A byte is a cell and the information record takes two
cells of page 0. `File_write` and `File_read` loop, so each is a begin action,
then `SwitchPage`, `WriteByte` or `ReadByte` per byte, and a return; `call` is
the frame of the running call and keeps the status of the last one. The other
calls are one action each. Every device transfer has the outcomes the library
allows: done, or, when `DeviceFaults` holds, an error after any number of cells.
A power cut can come before any action, and in the middle of a page write or
of the record's write. `reported` and `unread` are history: has a call answered
with an error since `File_init` last read the buffer, and did that read itself fail
with no page loaded since. `File_init` drops the status of that read, `File_reset` is
void and the firmware answers 0 to its message, so of this one failure no call says
anything, and `LossIsReported` names it as its exception.

`FileLength` counts modulo `LENGTH_MOD`, the checksum modulo `CHECKSUM_MOD` and
page numbers modulo `PAGE_MOD`, in place of 2^32, 2^16 and 2^16. Writing to page 0
wraps the length, as the code does, and `File_finalize` then takes its page
numbers around as well; callers ask for addresses whose page numbers have 16 bits
(`CallerAssumption`). The products of a page number and the page size, which are
the addresses the library is given, are not cut. The comparison that decides
whether the record is rewritten is the code's.

### Commander

One slot per command: `first` is the flag, `lo` and `hi` the two halves of the
payload, each carrying the number of the request its packet answers. A call is
`BuildAndSendPacket`, then `PollHit` (the unlocked poll) or `TimeOut`, then
`ClearFlag` (the only locked step of a caller), `CopyLow`, `CopyHigh`. The
listener is `StoreLow`, `StoreHigh` under the lock. `TimeOut` may come at any
time: a second is longer or shorter than any exchange. The numbers are history:
the program's `rng` byte and `rsp.index` are sent and never compared. The
dialog makes one call at a time with a command (`OneThreadOwnsTheList` of
`SensorList` is what justifies this for `UPDATE_SENSOR`, which two threads use);
different commands run concurrently.

The packets of both directions are FIFO (TCP), and a packet may be lost as a
whole: a `send()` that would block, a checksum that does not match.

### FileTransfer

`phase` is the loop of `SendFile` the thread is in; `messages` and `answers`
record what the n-th call said and was told. `late` and `lost` are history. The
firmware handles one message at a time, through all steps of the file store.

### Packets

The stream, `wire`, is the sequence of packets on their way, each cut off after
the `upto` bytes that `send()` took of it; `off` bytes of the first have been
read. The parser sees one byte at a time and knows no boundaries. There is one
action per parser state. `TXHandler` sends a packet whole, not at all, or in part,
since its socket does not block and its result is ignored. When the connection
breaks, what is on the wire is lost and what is queued is not, so a packet can
reach the next client; nobody resets the parser. `Server_Update` is `Accept`, the
parser, and `ClientStop`, taken in the order the client's state allows. `session`
is the GUI's end: the transmit thread runs from `Connect`, when the user asks for
it, until `Disconnect`, and once the connection broke what it takes from the queue
is lost. The firmware's client notices the break (`gone`), or does not: a silent
one leaves `client.connected()` true (`stale`) until the network chip gives up the
connection, which it need not (`SocketTimesOut`). `m_MessageCount` is never
initialised, so it starts anywhere in `FirstCounts`. `sent`, `handled`, `first`,
`spoiled` and `cuts` are history.

Losing whole packets (not sent at all) leaves framing alone; `cuts` counts the
events that can leave the parser inside a packet.
`CutCostsOnePacket` asks that packets hold no further start byte. Without it the
cost is not bounded by the cuts: a start byte that stands at the same place of
every packet can be taken for the first byte again and again.

### SensorList

A sensor is its index in the firmware's table, and a reading is the index of the
sensor it was taken from: the answer to call *n* is about the index call *n*
asked for (`asked`), whatever the caller believes. A thread is its program
counter, its index and its count of failures in a row; the flags are the
dialog's. The buttons ask that the "connected" box is ticked; here it may be at
any time. The lock of the list is left out: the threads exclude
each other by the flags, which is `OneThreadOwnsTheList`.

`ListIsTheTable` holds until a call times out. Afterwards it does not: a sensor
whose first reading times out is left out and every later entry moves up by one,
while `UpdateSensorList` asks for the reading of an entry by its position; and a
late answer is taken for the next request, as in `Commander`.

### NetworkThread

`frame` is where the window's thread and the update thread are inside `Connect`
or `Disconnect`, `at` is where the handlers are, `joinable` says which
`std::thread` objects are joinable. `lines` lists the sockets ever connected, so
that a socket left open behind `m_NetworkSocket` stays visible; `abandoned` are
those `Connect` left open itself when it went on to the next address. Only the
line of `m_NetworkSocket` can go: nobody looks at the others. A step is one
statement that another thread can see (a join, a thread start), or a few that follow
one another: `Stop` sets the flag and calls `shutdown`, `CloseSocket` closes the
socket and forgets it, `SetFlags` sets both flags, and `StartRX` both flags before it
starts the receiver. `UpdateHandler` may run before the object
that holds it has been assigned, and then does not find itself joinable.
Assigning to a joinable object, joining oneself and two joins of one object set
`aborted`, after which nothing happens: the standard library ends the process
(two joins at once are undefined, and are taken for that too).

`RecvFails` is `recv()` failing with anything but "would block". At a graceful
close `recv()` returns 0 without setting the error, so there both outcomes are
possible. The receiver may also fail on a socket that `Disconnect` has shut.
`failed` holds the sessions in which that happened: it wakes the update thread,
which runs `Disconnect` and joins itself at its end. The safety properties
say that nothing else goes wrong. There is no run of this module alone: its calls
come from `Window`, whose handlers make them in every order the window allows.

### Window

`handler` is the message handler the window's thread is in; while it is inside
`Connect` or `Disconnect` the steps are those of `NetworkThread`. `worker` are the
three threads that do the work, reduced to running or not; a thread clears its
flag as the last thing it does, so that and its end are one step. Their work is
in `SensorList` and `FileTransfer`. The timer is
served when no handler runs, and while the file dialog is open. `m_SendingFile`
starts with any value, since nobody sets it. `Destroy` is the end of the dialog
object: its thread objects are destroyed, and the listener's is still joinable.

The first step of a button is one action with the guard its check box gives it:
a click that the box or a flag turns away changes nothing and is left out.

### Listener

The stream is bytes: `coming` is on the wire and `m_RXQ` in the queue, `Send`
is the firmware's `l_BuildAndSendPacket`, `RXHandler` moves any number of bytes
at a time. `ReadChunk` takes a chunk and applies `ParseByte` to it byte by byte; there is
one operator per parser state. The slots' other side, the caller who clears the
flag, is in `Commander`, and here only the listener writes them. A new thread
finds anything in its locals, which matters if it does not start at a start
byte. `unset`, `inherited` and `cuts` record how that can come about: nobody
initialises `m_ParsingState` (`Commander.h:47`, `Commander.cpp:8`), so the first
thread may start in any state or in none; a thread's last chunk may end inside a
packet, and a session too. The two properties (`Whole`) leave out all three: the
program does nothing to exclude the first, and from such a start it may write outside
its payload, lose packets or stay deaf.

### HexFile

A file is a sequence of records written out in digits, with at most one character
replaced by any other; the parser then reads it one character at a time. Its two
or four states per field are one state with a count of digits. The two bytes of an
address go into the checksum when they are complete, as in the code. The reading
in blocks of 256 bytes is left out, since the state outlives the block.
`HoldsTheRecords` compares the image after every character with a fold over the
records it was written from. Two kinds of damage cost more than their own record
(`Misframed`), and the properties leave them out: in a count field, which moves
the record's end, and an end of a line that becomes a colon, after which the colon
of the next record is read as a digit of its count and that record is lost as
well.

### SensorManager

`Tick` lets up to `StepTime` pass in each step of the loop, and a step of the
loop is one of `Server_Update`, the question whether the period is over, the
reading, and the second look at the clock. What the server does with a request is
in `Packets` and `Commander`; here it takes time. The menu's two entries that touch
the sensors are there as an environment: the sketch does not call them, and
`Periods` may be empty.

## 3. Runs

| run | shows | bounds |
|---|---|---|
| `store` | coherence, reads see writes, length bound, record, flush, and the refinement of `ByteStore`, on a working device with power cuts | 3 pages of 2 cells, strings of 1 to 3 bytes that stay in a page, cross one boundary or two, or run off the device |
| `store_faults` | losses are reported, but for those of `File_init`'s own read | the same device, every transfer may stop after 0 or 1 cells; fewer calls |
| `store_forced_flush` | **finding**: a repeated flush answers 0 without saving | as above |
| `calls` | the lag of answers is bounded by the timeouts, so it is zero before the first; every call returns | 2 commands that are answered and one that never is, 2 calls each |
| `transfer` | the image is saved before it is finalized; the thread ends | image of 5 cells: three messages, two pages, a short last message; 1 lost packet, 2 failures in a row give up; 12 calls, the most its six messages can take |
| `transfer_info_page` | **finding**: the image overlaps the information page | as `transfer`, 8 calls |
| `packets` | framing is exact without cuts; a cut costs at most one whole packet if packets are quiet; in an open session the stream drains, unless the firmware holds on to a client whose connection broke silently | bytes modulo 8, start byte 5, payloads of 2 bytes; 3 packets, 2 cuts |
| `sensors` | the list is the firmware's table while no call has timed out; its two threads exclude each other | 2 sensors, 5 calls per command, 1 lost packet, 3 clicks, 2 failures in a row give up |
| `window` | sessions do not mix, no socket is left open and the process goes on unless a receiver has failed; the box is the connection; no click waits for work; a broken connection is noticed; the window comes back, or waits for a listener that missed the gap | a name with up to 2 addresses, 2 connections, the list updated as often as one likes and one other thread started |
| `listener` | a slot holds the last answer of its command, and nothing else is written, if the parser's state starts as `WAITING_FOR_STX` and sessions and listeners end between packets | bytes modulo 4, start byte 3, payloads of 2 bytes, 2 commands, 2 packets, 2 sessions |
| `hex_file` | the image holds the intact records; its length covers it if there is no gap | digits to base 3, records of up to 3 bytes, files of two or three records, each character replaced by each other one; the properties except counts and an end of a line that becomes a colon |
| `sensor_manager` | readings keep their distance, values stay fresh | a clock modulo 32, periods 0, 3 and 6, steps of up to 2 ms |

Safety and liveness of a component are checked by one run, under its fair
specification: fairness adds no step and takes none away, so what holds in every
state does not depend on it.

Two cells per page are the least that tell a page boundary from a cell boundary
and a half-written page from a whole one; three pages are an information page
and two data pages to switch between. Two calls per command are a late answer and
the call that takes it; three (without the third command) give the same. In
`transfer` the number of calls does not bind: a message fails twice at the most. One loss
and one late answer together already break the property when its last
precondition is dropped, so the bound reaches the case the precondition
excludes; the instance with two losses, three failures in a row and nine calls
(4.5 million states) gives the same answer for the image.

The payloads of `packets` hold no start byte, or one in either place; the
counter starts at 0, 3 or 6, so that three packets are numbered 1 2 3, or 4 5 6
(the start byte as a number), or 7 0 1 (it wraps). Three packets are a broken
one, the one its rest swallows and one that must survive; two cuts let the
second come while the parser is still lost from the first. Five calls in
`sensors` are a whole list with its readings, a refresh and a second list begun;
with six calls (6.5 million states) the answer is the same.

Two connections in `window` and `listener` are enough for everything a session can
leave to the next; with two addresses both may belong to one `Connect`. Updating
the list is not bounded, so a thread is started over one that has ended, and runs
beside the one other thread. In `listener` the start byte is a byte of
data, a number or neither, and a chunk (7 bytes) holds a packet and the
beginning of the next. In `hex_file` the room for data is 2 bytes and one record
has 3, and the records include a gap, an overlap, an address below the image, the
last address, and other types with and without data. In `sensor_manager` the clock
wraps every few periods, and the loop never stops, so every phase of the clock
against the loop is reached.

Deadlock is checked in the `store` runs and in `sensor_manager`. The others set
`CHECK_DEADLOCK FALSE`: users stop after `MaxCalls` calls, `MaxPackets` packets,
or the last connection; a transfer, a file or the process ends.

### Fairness

`Commander!Fairness`: the caller's thread and the listener run (weak fairness
on their steps); a lock that is released again and again is eventually acquired
(strong fairness on `ClearFlag`, the listener holds the lock for one copy). The
poll is left by `PollHit` or `TimeOut` because the steady clock advances.
`FileTransfer!Fairness` is the same for the one thread. `Packets!FairSpec` asks
for weak fairness of `TXHandler` (the transmit thread runs) and of
`Server_Update` (`loop()` calls it over and over). The transmit thread only steps while
there is a session, and no fairness is asked of `Connect`, `Disconnect` or
`SocketTimesOut`: the user need not connect again, a broken session may stay
unnoticed, and so may the silent end of a client. `StreamDrains` is therefore about a
session that stays open and a client that is not stale.

`WindowFairness` of `Window`: the window's thread, the receiver and the listener
run, `connect()` returns, and the timer goes on. Of the threads that can come to
their end (the transmitter, the update thread and the workers) always one does,
which is less than fairness of each. The work of a worker thread is only assumed
to end when there is no connection, because its loops count failures; while the
server answers it may take for ever (a chunk refused again and again).

### What the runs found

1. `File_flush` clears the dirty flag even if the write failed
   (`FileHelper.cpp:243`), so the next flush claims success; the transfer
   thread's CLOSE loop repeats exactly that call.
2. `SendFile` starts at index 0 (`PCMonitorGUIDlg.cpp:333`), which is the
   information page of `FileHelper.h:6`; `File_finalize` then overwrites the
   first bytes of the image.
Other behaviour the properties had to exclude, each in a proviso of theirs:

* `Connect` does not stop at the first address that accepts (`NetworkThread.cpp:83`,
  against the comment above it). The earlier socket stays open, and the firmware
  serves no second client; if a later address refuses, `Connect` reports failure.
  `NoConnectionLeaks` names these sockets (`abandoned`) and says that they are the
  only ones.
* After a receive failure (a broken connection, or one shut by `Disconnect`) the
  update thread runs `Disconnect` and joins itself, which ends the process, unless
  its object was not yet assigned or was joined before. If the window connects
  again in between, the old update thread closes the new connection.
* A listener that does not look while there is no connection goes on with the
  next one, and `StartListener`, in the window's thread, waits for it as long as
  that connection lasts (`MissedGap`).
* A chunk may end inside a packet, so a listener may end there even if the session
  did not. The next one goes on in `READING_PAYLOAD` with an index and a checksum
  nobody has set, and may write outside its buffer.
* `Commander`'s destructor does not join the listener: after any successful
  connection, closing the window ends the process by `std::terminate`.
* The list of sensors asked for at the end of a connect is never built
  (`ListOnConnect`): the check box is set one statement later.
* The first listener starts in whatever state `m_ParsingState` holds, which nobody
  initialises; in `READING_PAYLOAD` it writes with an index nobody has set.
* `File_init` drops the status of its read of the buffer: after one that failed, at
  `setup()` or in a RESET answered with 0, the buffer may not be the page it says.
* A client whose connection broke silently is kept by the firmware, which accepts no
  other as long as `client.connected()` says so.
* `ParseHexFile` writes beyond `Data[32]` for a record of more than 32 bytes, and
  an image with a gap is sent without its end.

`ImageSavedBeforeFinalize` needs its last precondition: a lost packet together
with a late answer lets the thread take an old acknowledgement for the lost
chunk's and leaves a hole in the image, with every message acknowledged.

## 4. Proofs

Each theorem is of the form `Spec => []Inv`, for every value of the constants
that the module's `ASSUME` admits. Those assumptions are about sizes (a page has
two cells, a byte holds the length of a payload, the clock is wider than the
longest period and four steps of the loop) and say that the bounds of the model
are numbers; the bounds themselves (calls, packets, cuts, sessions, ...) may be
as large as one likes, so the theorems do not depend on them.

### FileHelper

For every page size of at least 2, device size, set of calls and initial content:

* `TypeCorrect`: `TypeOK` is inductive as it stands.
* `LossReported`: `TypeOK /\ LossIsReported` is inductive, faults included. The
  exception of `LossIsReported`, a failed read of the buffer in `File_init`, is part
  of the property (`unread`), and nothing is claimed until a page is loaded.
* `Coherent`: without faults `TypeOK /\ Coherence` is inductive.
* `LengthBounded`: if callers keep off the information page (`DataOnly`), with
  the strengthening `OnDataPages`: the buffer is on a data page and the call in
  progress addresses data pages.
* `FinalizedCurrent`, without faults and under `DataOnly`: `File_finalize` leaves
  the length and the sum of the data on the device, whether it writes the record
  or finds it equal. The sum is the same function before and after, because the
  record's page is none of the data pages, and no page number of the file wraps
  (`BytePage`, `SameSum`). For a length that has wrapped nothing is claimed; no
  induction over the data is needed.
* `FlushForced`, without faults, from `Coherent`. With faults it is finding 1
  of section 3.
* `ReadsCurrent`, without faults and under `DataOnly`: what a running `File_read`
  has copied agrees with `View`, the device overlaid with the buffer, and no
  page switch in between changes `View`.
* `Refines`, under these two conditions: every step of the store is a
  step of `ByteStore` or a stutter. The mapping takes `mem` to `View`. Coherence
  is what makes a page switch with a clean buffer leave `View` alone.

`~DeviceFaults` and `DataOnly` are conditions on constants; `store` runs with
both. Where the code leaves them (a device that fails, `SendFile`'s index 0),
the runs that expect a violation show what happens.

### Commander and SensorList

`Commander_proofs` proves, for every set of commands and every number of calls,
`CommanderTypes` and `LagIsBounded`, which says as well that a call returns its own
answer as long as none of its command has timed out. The invariant behind it
is `InFlight` (packets of a command are numbered increasingly along
the path requests, responses, slot, and never above `sent`), `SlotOrder` (the
halves of the slot differ only while the listener is storing) and `Credit`: a caller
that is waiting can only find, in its slot or on the way, packets not older than
its request by more than the calls that have timed out. `LagBounded` alone is
not inductive: it speaks only of what a call has already returned.

`Sensors_proofs` proves `ListTypes`, `ThreadsTakeTurns` and
`ListFollowsTable` for every table of sensors. It takes `Commander`'s invariant
over through an INSTANCE of `Commander_proofs`: every step of the list threads is
a step of `Commander` or leaves it alone. On top of it stand `Owners` (a flag is
set exactly while its thread runs, and at most one runs), `Calls` (a call in
progress is that of the thread which may make it, and the last index asked for is
the one the thread is at) and `Builds` (without a timeout, the list is the first
entries of the table, as many as the builder's index). That an answer is about
the index asked for follows from `LagBounded` with no timeouts.

### FileTransfer

`FileTransfer_proofs` proves `TransferTypes` and, on a device that does not fail,
`ImageSaved`: `ImageSavedBeforeFinalize` for every image, page size, limit of
failures and number of calls and lost packets. It takes the invariants of
`Commander` and the one of a file store without faults (`Clean`) over through
INSTANCEs of their proof modules. A
step of the handler is a step of the store, so what the store's lemmas say of a
page switch, a byte and a flush says what became of the image.

`TypeInv` are the types together with `Commander`'s invariant and `Counts` (the
thread never exceeds its limits in a call). `TransferInv` is the inductive
invariant. The messages of a transfer have an order (`Script`, `After`), and
`Upcoming` is the one the thread is at.

* `ThreadOK`: the call in progress carries `Upcoming`.
* `FirmwareOK`: a running `File_write` is that of the message at the head of the
  queue, and every message was answered with 0, as the device does not fail.
* `QueueOK`: each message in the queue is the one before it or the next of the
  transfer, and the last one is `Upcoming` or just before it. Without a late
  answer all of them are `Upcoming`, because the thread goes on only when the
  queue is empty; without a loss the last one is that of the last call.
* `DataOK`: the bytes in front of the message at the head are in the store
  (`Saved`), after its handling also its own, and before a FINALIZE
  nothing is left in the buffer.
* `OverOK`: after the first FINALIZE the queue and the thread hold nothing else.

The last three hold only while packets were not lost or answers not late
(`Accounted`), the proviso of the property. `ImageSavedBeforeFinalize` is not inductive
by far: it speaks of one step, at the end of a transfer. The assumptions say that
the image has at least a byte and fits the device: in the code it has at most
49152 bytes, from 0x4000 to 0xFFFF, and the device 131072 (`kbits_1024`).

### Packets

`Packets_proofs` proves, for every size of a payload, start byte, set of payloads
and number of packets, cuts and sessions:

* `TypeCorrect`, from `Sound`: the entries of the queue and of the wire are
  packets that were sent, in the order of their numbers, and the parser's index
  is in its bounds for each state.
* `FramingIsExact`, from `Framing`: while nothing is cut, the parser's state, index
  and checksum are those of the bytes read of the packet that is arriving
  (`InPlace`), and what was handled was sent before what is on its way. That a
  whole packet passes the checksum takes the sum of its bytes, a function defined
  by recursion over the position; the first lemmas of the module show that such a
  function exists and what it is.
* `EveryCutCostsOne`, from `Credit`, an account of the cuts: packets that came
  through and were swallowed, plus one while the parser is not in its place, plus
  packets on the wire that stop half way, are never more than the cuts. It needs
  `NotBehind`: a parser out of its place has read more of its packet than has
  been read of the one arriving, or waits for a start byte, so the end of a
  whole packet always finds it in its place again. That is where the packets have
  to be quiet (no second start byte).

### Listener

`Listener_proofs` proves `TypeCorrect`, `SlotsAreLastAnswers` and
`ListenerStaysInBounds`, for every size of a payload, set of answers, and number
of answers and sessions. The invariant is `Track`: if the first listener found
`WAITING_FOR_STX` (`~unset`, which the program does not see to), then while every
session and every listener has ended between two packets there is a place in the
stream, *q* packets and *o* bytes of the next, such that what is queued followed
by what has not arrived is the rest of the packets sent; the slots hold the last
of the first *q* answers; and the parser is in the state, and has collected the
bytes and the sum, that belong to *o* bytes of a packet (`At`). One byte moves the
place by one (`ParseStep`), and a chunk does so byte by byte, by induction over
the chunk. `TypeCorrect` has no proviso: an inherited or unset state keeps its
types as well, since `ParseByte` marks an access out of bounds instead of making
it.

### NetworkThread and Window

`Window_proofs` proves the six safety properties of the `window` run over
`WindowSpec`, for any number of addresses, connections and clicks, with one
invariant, `WindowInv`. Its first half speaks of the connection: which
thread objects are joinable at which place of `Connect` and `Disconnect`
(`CanBeJoined`, `StartsOverNone`), that only the window's thread starts a session
and only after the last one's handlers were joined (`OnlyTheWindow`,
`ConnectsAfterJoining`), which session the handlers serve (`ServesConnection`), and
that what was opened is closed (`ClosedBehind`). The second half speaks of the
window: in which handler each of these places can be (`InACall`), that a thread
about to be started has ended (`StartsEndedThreads`), and that the box shows the
connection whenever no handler runs (`BoxShows`). Most conjuncts are about sessions
whose receiver has not failed (`Settled`): after a failure the update thread
disconnects too, and the properties exclude what then happens by name.

### SensorManager

`Sensors_proofs` also proves `PollTypes`, `KeepsDistance` and `StaysFresh` for any
width of the clock, set of periods up to `LongestPeriod`, and length of a step.
The program's difference of two clock readings is the time that has really passed
modulo the clock (a conjunct of `PollTypeOK`); `SinceBounded` and `AgeBounded`
bound that time at each place of the loop, so it never reaches a whole turn. The
assumption `LongestPeriod + 4 * StepTime < CLOCK` holds in the code by far: the
period has 16 bits, the clock 32, and counts milliseconds.

### HexFile

`HexFile_proofs` proves the four invariants of the `hex_file` run, for every base
of the digits, size of a line and of the image, file of records, and damaged
character. The assumption that the image reaches from the lowest address of data
to the highest with a line to spare holds in the code: 0xFFFF - 0x4000 + 32 is less
than the 65536 bytes of `Binary`. Records have fewer than 256 bytes of data, so
that the count is a byte.

* `TypeCorrect`, from `TypeInv`: the value of the digits read so far is within what
  so many digits can say (`ValueOK`), and a byte of data is begun only where there is
  one to come (`DataOK`).
* `WriteBounds` and the other two need `InPlace`: between two records the parser
  waits for a colon, in a record whose colon is damaged it waits for the next one,
  and in any other record its line holds what the characters of that record say up
  to its place, the sum included. A colon that damage put inside a record is read as
  a digit there (`ColonStarts`); only at the end of a line would the parser take it
  for the start of a record, which `Misframed` leaves out together with damaged counts.
* `ImageHoldsTheRecords` adds what the end of a record does. The text of an intact
  record sums to 0 modulo 256, and changing one byte by less than 256 changes that
  (`SumChanged`), so a damaged record is turned away; an intact one is added to
  what the records before it have left (`LeavesOneMore`). `WritesInBounds` and
  `ImageHoldsTheRecords` are inductive only together with `InPlace`: they say nothing
  of the line being read.
* `CountCoversTheImage` follows from `ImageHoldsTheRecords` by induction over the
  records: without a gap, the bytes counted so far are at least those up to the end
  of every record stored (`Covered`).

The sums, texts and images are functions defined by recursion over a number. That
they exist, and the inductions, come from the well-founded order of the numbers
(`WFMin`), applied to sets.

### Model-checked only

* liveness (`CallsReturn`, `TransferEnds`, `StreamDrains`, `ResetIsNoticed`,
  `WindowReturns`), which is beyond the prover, and with it fairness and
  `ENABLED`;
* the two properties that are expected to be violated.

## 5. What is left

Every part that keeps state and that section 6 does not list has its module, with
the abstractions section 2 names. Every safety property that a run expects to hold
is a theorem, under the conditions that section 4 names. What stays open:

* the liveness properties, as said above; they are checked on the small instances
  of section 3 only;
* nothing is left of `ImageSaved` on a device with faults: with `DeviceFaults = TRUE`
  in `MCFileTransfer.cfg` TLC finds the property violated, since the CLOSE that is
  repeated after a failed write claims success (finding 1);
* that packets taken as wholes (`Commander`) stand for their bytes (`Packets`,
  `Listener`): `FramingIsExact` and `SlotsAreLastAnswers` say so for each direction
  of a stream that is not cut, but no refinement joins the modules;
* the hazards of `PROJECT.json` that no property covers, each with the reason.

## 6. Not modelled

The serial menu (compiled with the sketch but never called: its include and its
call are commented out) and what only it calls, such as
`Server_ToggleConnectionsAllowed`; the FRAM driver (unused); the control
parameters (a constant table with empty load and save); the parameter and
validate/load handlers of the firmware (empty or never dispatched); the MFC
window code; the log, which only the window's thread could write and nobody
does; the readings of the sensors (three constants and one `analogRead`);
`SetIP` and `SetPort`, which pass on the text of two fields; and the formats of
names, numbers and log lines.

------------------------------ MODULE ByteStore ------------------------------
(* What the firmware's file store promises, without a page buffer: a memory  *)
(* of pages that is written through to a device page by page.  mem is what   *)
(* a reader of the store sees, disk what survives a power cut.  At most one   *)
(* page may be ahead of the device at any time, so that a power cut, or a     *)
(* reset of the store, costs at most the unsaved part of that one page.       *)
(* The information page is the exception: it goes straight to the device.     *)
EXTENDS Naturals

CONSTANTS
    Pages,      \* the pages of the device
    Offsets,    \* the cells of a page
    InfoPage    \* the page that holds the file information record

VARIABLES
    mem,
    disk,
    restarted   \* was a start or a reset the last thing the store did?

storeVars == <<mem, disk, restarted>>

Init == mem = disk /\ restarted = TRUE

\* The next operation begins.
Begin ==
    /\ restarted' = FALSE
    /\ UNCHANGED <<mem, disk>>

\* One cell of page p takes a new value; no other page is ahead of the device.
Put(p, o) ==
    /\ \A q \in Pages \ {p} : mem[q] = disk[q]
    /\ mem' = [mem EXCEPT ![p][o] = mem'[p][o]]
    /\ restarted' = FALSE
    /\ UNCHANGED disk

\* Page p reaches the device.
WriteBack(p) ==
    /\ disk' = [disk EXCEPT ![p] = mem[p]]
    /\ restarted' = FALSE
    /\ UNCHANGED mem

\* The information record is replaced, on the device at once.
RecordInfo ==
    /\ disk' = [disk EXCEPT ![InfoPage] = disk'[InfoPage]]
    /\ mem' = [mem EXCEPT ![InfoPage] = disk'[InfoPage]]
    /\ restarted' = FALSE

\* The store starts again, and only then may anything be lost: the reader's view
\* falls back to the device.  The write that was under way may have reached some
\* cells of its page.
Restart ==
    /\ \/ \E p \in Pages, written \in SUBSET Offsets :
             disk' = [disk EXCEPT ![p] =
                        [o \in Offsets |-> IF o \in written THEN mem[p][o] ELSE disk[p][o]]]
       \/ disk' = [disk EXCEPT ![InfoPage] = disk'[InfoPage]]
    /\ mem' = disk'
    /\ restarted' = TRUE

Next ==
    \/ Begin
    \/ \E p \in Pages, o \in Offsets : Put(p, o)
    \/ \E p \in Pages : WriteBack(p)
    \/ RecordInfo
    \/ Restart

Spec == Init /\ [][Next]_storeVars
==============================================================================

----------------------------- MODULE MCFileHelper ----------------------------
(* TLC instance of FileHelper: an information page and two data pages of two   *)
(* cells, callers that keep off the information page, run past the end of the  *)
(* device, and write strings that stay inside a page or cross one or two.      *)
EXTENDS FileHelper

MCIndices == {2, 3, 5}
MCPayloads == {<<1>>, <<1, 0>>, <<0, 1, 1>>}
MCReadLengths == {1, 3}

\* With a device that fails every transfer has several outcomes: fewer calls,
\* still one inside a page and one across the boundary.
MCFaultIndices == {3, 4}
MCFaultPayloads == {<<1>>, <<0, 1>>}
MCFaultReadLengths == {2}

MCInitialEEPROM == [p \in Pages |-> [o \in Offsets |-> 0]]
==============================================================================

------------------------------- MODULE MCHexFile ------------------------------
(* TLC instance of HexFile: digits 0..2, so bytes 0..8 and addresses 0..80.   *)
EXTENDS HexFile

Record(address, type, data) == [address |-> address, type |-> type, data |-> data]

\* The start of the image, what follows it, another record over the start, a gap and
\* the last address, an address below the image, the end.
MCRecords == {Record(27, 0, <<1, 8>>), Record(29, 0, <<5>>), Record(27, 0, <<3>>),
              Record(80, 0, <<7, 2>>), Record(26, 0, <<6>>), Record(0, 1, <<>>)}

\* Every file of two of them, one of three, a type that is ignored with data that
\* would be stored, and a count over DataSize.
MCFiles == [1..2 -> MCRecords]
             \cup {<<Record(27, 0, <<1>>), Record(28, 0, <<5>>), Record(29, 0, <<2, 3>>)>>,
                   <<Record(27, 3, <<2>>), Record(27, 0, <<4>>)>>,
                   <<Record(27, 0, <<1, 2, 3>>), Record(0, 1, <<>>)>>}
==============================================================================

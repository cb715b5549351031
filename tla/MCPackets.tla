------------------------------- MODULE MCPackets -----------------------------
(* TLC instance of Packets: payloads of two bytes, without the start byte and *)
(* with it in either place.                                                    *)
EXTENDS Packets

MCPayloads == {<<0, 1>>, <<5, 1>>, <<3, 5>>}

\* Three packets are numbered 1 2 3 (quiet), 4 5 6 (the start byte as a number)
\* or 7 0 1 (the counter wraps).
MCFirstCounts == {0, 3, 6}
==============================================================================

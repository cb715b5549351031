---------------------------- MODULE MCFileTransfer ---------------------------
(* TLC instance of FileTransfer: pages of four cells, an image of three       *)
(* messages whose last is short, the first two on page 0 and the last on      *)
(* page 1.                                                                    *)
EXTENDS FileTransfer

MCImage == <<1, 2, 3, 4, 5>>
==============================================================================

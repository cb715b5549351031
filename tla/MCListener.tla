------------------------------ MODULE MCListener ------------------------------
(* TLC instance of Listener: two commands; the start byte is a command's      *)
(* data, a number, or neither.                                                *)
EXTENDS Listener

MCAnswers == {<<0, 1>>, <<1, 3>>}
==============================================================================

----------------------------- MODULE MCCommander -----------------------------
(* TLC instance of Commander: two commands that are answered, whose packets   *)
(* share the channels and the listener, and one that is not.                  *)
EXTENDS Commander

MCCommands == {"SEND_FILE", "UPDATE_SENSOR", "VALIDATE_FILE"}
MCAnswered == MCCommands \cap AnsweringHandlers
==============================================================================

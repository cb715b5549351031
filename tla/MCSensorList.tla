----------------------------- MODULE MCSensorList ----------------------------
(* TLC instance of SensorList: a table of two sensors, a list built once or   *)
(* twice and refreshed in between, one lost packet.                           *)
EXTENDS SensorList
==============================================================================

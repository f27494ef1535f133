------------------------ MODULE MCGameLogListManager ------------------------
(***************************************************************************)
(* Instances of GameLogListManager for TLC.                                *)
(***************************************************************************)
EXTENDS GameLogListManager

TwoLogs == 1..2

(* Later logs are of later games.                                          *)
Dates == [l \in Logs |-> l]
=============================================================================

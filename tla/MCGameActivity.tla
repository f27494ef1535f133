--------------------------- MODULE MCGameActivity ---------------------------
(***************************************************************************)
(* Instances of GameActivity for TLC.                                      *)
(***************************************************************************)
EXTENDS GameActivity

CONSTANTS m1, d1   \* a move on the board and a drop

BlackPlay == [by |-> "BLACK", move |-> m1]
NoSavedGames == {}
OneSavedPlay == {<<BlackPlay>>}
NoMatedBoards == {}

BlackHuman == {{"BLACK"}}
EveryPlayerType == SUBSET Sides      \* HC, CH, HH and CC

NoRotation == {}
WhileWaiting == {"busy", "promoting"}
IdleRotation == {"idle"}
AnySituation == Situations
OnceStarted == Situations \ {"starting"}
=============================================================================

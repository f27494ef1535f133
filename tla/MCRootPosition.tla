--------------------------- MODULE MCRootPosition ---------------------------
(***************************************************************************)
(* Small games for RootPosition.  In s0 and s2 Black chooses between a     *)
(* check and a quiet move that lead White to the same replies, so a game   *)
(* wanders through a cycle of four plies with any mixture of checks.       *)
(***************************************************************************)
EXTENDS RootPosition

B(from, to) == [by |-> "BLACK", from |-> from, to |-> to]
W(from, to) == [by |-> "WHITE", from |-> from, to |-> to]

Cycle == {B("s0", "b1"), W("b1", "s2"), B("s2", "b3"), W("b3", "s0"),
          B("s0", "q1"), W("q1", "s2"), B("s2", "q3"), W("q3", "s0")}

(* The position the game starts from does not recur.                       *)
Opening == {B("z0", "b1"), B("z0", "q1")}

(* White evades with a check, to which every answer is a check: there the  *)
(* engine may be left without a move.                                      *)
CounterChecks == {W("b1", "c2"), B("c2", "b3")}

(* A mate, and a move that leaves the king in check.                       *)
Ends == {B("s2", "m3"), B("s2", "h3")}

(* Captures: Black takes a piece, White takes one back.                    *)
Captures == {B("s0", "x1"), W("x1", "x2"), B("x2", "q3")}

CycleGraph == Opening \cup Cycle \cup CounterChecks \cup Ends
CaptureGraph == Opening \cup Cycle \cup Captures \cup Ends

Boards == {m.from : m \in CycleGraph \cup CaptureGraph}
            \cup {m.to : m \in CycleGraph \cup CaptureGraph}

WhiteChecked == {<<"WHITE", p>> : p \in {"b1", "b3", "m3"}}
BlackChecked == {<<"BLACK", p>> : p \in {"c2", "h3"}}
AllChecks == WhiteChecked \cup BlackChecked

BoardMaterial == [p \in Boards |-> IF p = "x1" THEN 2 ELSE IF p = "x2" THEN 1 ELSE 0]

Nobody == {}
BlackEngine == {"BLACK"}
WhiteEngine == {"WHITE"}
=============================================================================

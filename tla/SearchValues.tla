---------------------------- MODULE SearchValues ----------------------------
(* What the search promises.  Pruning, extensions, reductions and the table     *)
(* decide how deep each line is looked at; whatever they decide, a value lies   *)
(* between the least and the most that its position can be worth.               *)
EXTENDS Search

CONSTANT Refusable  \* positions that a line may come back to and be refused

LegalMoves(p) == ToSet(Moves[p]) \ Illegal[p]
Sooner(value, plies) ==
    CASE value > score_max_eval   -> value + plies
      [] value < - score_max_eval -> value - plies
      [] OTHER                    -> value
OfMove(value) == - Sooner(value, -1)
Here(value, ply) == Sooner(value, ply - 1)

Least(S) == CHOOSE x \in S : \A y \in S : x <= y
Most(S)  == CHOOSE x \in S : \A y \in S : x >= y

(* Where the graph is cut off there are no moves and no check; no search comes  *)
(* as far.                                                                      *)
MatedHere == - (score_mate1ply + 1)
WithoutMoves(p) == IF Moves[p] # << >> \/ p \in Checked THEN MatedHere ELSE Eval[p]

(* A line may stop at p with its evaluation, or go on with any legal move; the  *)
(* side to move can count only on a move that is not refused.  With a better    *)
(* hand than in a position of the other side to move, it may pass.              *)
BetterHand(p, q) == NoBetter(Turn[p], HAND[q][0], HAND[p][0])
Passes ==
    [p \in Positions |->
       {q \in Positions : /\ HASH_KEY[q] = HASH_KEY[p] /\ Turn[q] # Turn[p]
                          /\ BetterHand(p, q)}] @@ << >>
WorthGiven(worth, p) ==
    LET child(m) == worth[Made[p][m]]
        sure     == {m \in LegalMoves(p) : Made[p][m] \notin Refusable}
    IN  [least |-> Least({Eval[p],
                          Most({WithoutMoves(p)} \cup {OfMove(child(m).most) : m \in sure})}),
         most  |-> Most({Eval[p]}
                        \cup {OfMove(child(m).least) : m \in LegalMoves(p)}
                        \cup {- worth[q].least : q \in Passes[p]}
                        \cup (IF p \in MateIn3Ply THEN {score_max_eval} ELSE {}))]
OnePlyMore(worth) == [p \in Positions |-> WorthGiven(worth, p)] @@ << >>
FourPliesMore(worth) == OnePlyMore(OnePlyMore(OnePlyMore(OnePlyMore(worth))))
Worth == FourPliesMore(FourPliesMore(FourPliesMore(FourPliesMore(
            [p \in Positions |-> [least |-> 0, most |-> 0]]))))

(* The lines of the graph are short enough for Worth to be settled.             *)
ASSUME LinesAssumption == OnePlyMore(Worth) = Worth

(* What hash_probe takes from shogi: more in hand is worth no less, and neither *)
(* is a move worth less than a pass.                                            *)
ASSUME HandsAssumption ==
    \A p, q \in Positions :
      HASH_KEY[p] = HASH_KEY[q] /\ BetterHand(p, q) =>
        /\ Turn[p] = Turn[q] => /\ Worth[p].least >= Worth[q].least
                                /\ Worth[p].most >= Worth[q].most
        /\ Turn[p] # Turn[q] => Worth[p].most >= - Worth[q].least

(* What futility pruning takes from eval_max_score(): no move gains more.       *)
ASSUME MaxScoreAssumption ==
    \A p \in Positions : \A m \in LegalMoves(p) : MaxScore[p][m] >= - Eval[Made[p][m]]

------------------------------------------------------------------------------
(* A value above alpha is no more than the position can be worth, a value below *)
(* beta no less; score_inferior is not a value but a refused move.              *)
IsTrue(p, value, ply, alpha, beta) ==
    \/ Magnitude(value) = score_inferior
    \/ /\ alpha < value => Here(value, ply) <= Worth[p].most
       /\ value < beta  => Here(value, ply) >= Worth[p].least

(* search() and search_quies() return no value that their position cannot have, *)
(* through null moves, reduced depths, mates counted from the root, and answers *)
(* of the table.                                                                *)
ValuesAreTrue == IsTrue(ret.p, ret.value, ret.ply, ret.alpha, ret.beta)

(* hash_probe() gives no false answer, whatever position is asked for on a      *)
(* board that is in the table: with another hand, the other side to move, or an *)
(* entry that an earlier search or an aborted one left.                         *)
InTable == {t.tt.prefer[i].key : i \in DOMAIN t.tt.prefer}
             \cup {t.tt.always[i].key : i \in DOMAIN t.tt.always}
Windows == {<< - score_bound, score_bound>>, << -200, 200>>, <<99, 100>>, << -300, -299>>}
TableIsTrue ==
    g.pc \in {"iteration", "answer"} =>
      \A p \in Positions :
        HASH_KEY[p] \in InTable => \A w \in Windows :
          LET r == hash_probe(t.tt, p, 2, 0, w[1], w[2], NodeFlags, FALSE)
          IN  /\ r.type \in {"lower", "exact"} => Here(r.value, 2) <= Worth[p].most
              /\ r.type \in {"upper", "exact"} => Here(r.value, 2) >= Worth[p].least

(* Where the loop of search() ends without a cut-off, the stages of             *)
(* gen_next_move and gen_next_evasion gave it every move once: none is lost     *)
(* between the stages, though the list is cut and joined again, and none comes  *)
(* back, though the hash move and the killers are among the captures and the    *)
(* rest.                                                                        *)
EachMoveIsTriedOnce ==
    [][ (stack # << >> /\ stack' = Below /\ Top.pc = "moves" /\ ~ g.root_abort)
          => /\ Len(Top.tried) = Len(Moves[Top.p])
             /\ ToSet(Top.tried) = ToSet(Moves[Top.p]) ]_vars

(* The move that iterate() plays starts a line of legal moves, and its value is *)
(* one that the line and the root position can have; a search that was stopped  *)
(* has not looked at all moves, so only its line backs the value.               *)
RECURSIVE IsLine(_, _)
IsLine(p, line) ==
    line = << >> \/ (Head(line) \in LegalMoves(p) /\ IsLine(Made[p][Head(line)], Tail(line)))
AnswerIsBacked ==
    g.pc = "answer" =>
      LET value == BySide(g.root, t.last_root_value)
          line  == t.last_pv.line
      IN  /\ line # << >>
          /\ IsLine(g.root, line)
          /\ Magnitude(value) # score_inferior =>
               /\ value <= OfMove(Worth[Made[g.root][Head(line)]].least)
               /\ g.root_abort \/ value >= Worth[g.root].least

(* Every add_rejections() of a search is taken back on each way out of the      *)
(* node, cut-offs, the preliminary search and an abort included: a position     *)
(* left behind would be refused in the next search.                             *)
LeavesNoTrace ==
    g.pc = "answer" => \A k \in DOMAIN t.sibling : t.sibling[k] = NoSibling
=============================================================================

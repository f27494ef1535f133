------------------------------- MODULE Search -------------------------------
(* The tree search of the engine: search (search.c), search_quies (quiesrch.c), *)
(* the choice of the next move (next.c), searchr and save_result (searchr.c),   *)
(* make_root_move_list (root.c), iterate (iterate.c), and the rejections of     *)
(* hash.c.                                                                      *)
(*                                                                              *)
(* The calls of search that have not returned are the frames of a stack; a step *)
(* is what a call does up to its next call or its return.  What the C code      *)
(* keeps per ply in tree_t, and what therefore survives a call, is in t; what   *)
(* iterate and searchr keep is in g.  The rules of shogi are a graph of         *)
(* positions; positions do not repeat on a line (RootPosition has the           *)
(* repetitions), so detect_rep answers no_rep.                                  *)
EXTENDS TransTable, Sequences, FiniteSets, SequencesExt

CONSTANTS
    Moves,       \* Moves[p]: what the generators write: captures, then others
    Made,        \* Made[p][m]: the position after m
    Captures,    \* Captures[p]: those of GenCaptures
    Minor,       \* Minor[p]: captures of a pawn, promotions of other pieces
    Losing,      \* Losing[p]: captures that swap() gives less than 0
    Illegal,     \* Illegal[p]: moves that leave the own king in check
    Declined,    \* Declined[p]: positions after a declined promotion
    Checked,     \* the positions whose side to move is in check
    Eval,        \* Eval[p]: evaluate(), for the side to move
    MaxScore,    \* MaxScore[p][m]: eval_max_score()
    MateIn1Ply,  \* MateIn1Ply[p]: a move, or MOVE_NA
    MateIn3Ply,  \* the positions where is_mate_in3ply() succeeds
    Passed,      \* Passed[p]: the position after a null move
    Promotions,  \* the moves that promote
    Recaptures,  \* Recaptures[<<n, m>>]: the extension where m takes back after n
    DullKillers, \* moves whose killer value is below 0
    Roots,       \* the positions a search may be started in
    Signals,     \* the counts of nodes at which a search may be told to stop
    Replies,     \* Replies[p]: how the opponent may answer the engine's move
    Searches,    \* the number of searches in a row
    PLY_MAX, REJEC_MIN_DEPTH, QUIES_PLY_LIMIT, depth_limit

VARIABLES
    stack,  \* the calls of search that have not returned, the innermost last
    ret,    \* the last return of search
    t,      \* tree_t, the tables and last_pv
    g       \* iterate and searchr

vars == <<stack, ret, t, g>>

Plies == 0 .. PLY_MAX
AllMoves == UNION {{Moves[p][i] : i \in 1 .. Len(Moves[p])} : p \in Positions}

EXT_CHECK  == PLY_INC
EXT_ONEREP == (PLY_INC * 2) \div 4
EXT_RECAP1 == PLY_INC \div 4
EXT_RECAP2 == (PLY_INC * 2) \div 4

NodeFlags == {"do_null", "do_recap", "do_mate", "do_futile"}

Top   == stack[Len(stack)]
Below == SubSeq(stack, 1, Len(stack) - 1)

------------------------------------------------------------------------------
(* Lines.  pv[k].line is a[k] .. a[length] of the C array.                      *)
Pv(line, type, depth) == [line |-> line, type |-> type, depth |-> depth]
pv_close(tr, ply, type) ==
    [tr EXCEPT !.pv[ply-1] = Pv(<<tr.cur[ply-1]>>, type, tr.iteration_depth)]
pv_copy(tr, ply) ==
    [tr EXCEPT !.pv[ply-1] = [tr.pv[ply] EXCEPT !.line = <<tr.cur[ply-1]>> \o @]]
CloseWithin(tr, ply, type, alpha, value, beta) ==
    IF alpha < value /\ value < beta THEN pv_close(tr, ply, type) ELSE tr

------------------------------------------------------------------------------
(* Quiescence search: captures that swap() likes, without hash table and        *)
(* without a look at the clock.                                                 *)
QuiesMoves(p, alpha, qui_ply) ==
    SelectSeq(Moves[p], LAMBDA m : /\ m \in Captures[p] \ Losing[p]
                                   /\ qui_ply >= QUIES_PLY_LIMIT => m \notin Minor[p]
                                   /\ alpha < MaxScore[p][m]
                                   /\ m \notin Illegal[p])

RECURSIVE SearchQuies(_, _, _, _, _, _)
SearchQuies(tr0, p, alpha_old, beta, ply, qui_ply) ==
    LET tr    == [tr0 EXCEPT !.nodes = @ + 1]
        alpha == Larger(alpha_old, Eval[p])
        mate  == IF p \in Checked \/ qui_ply >= QUIES_PLY_LIMIT
                 THEN MOVE_NA ELSE MateIn1Ply[p]
        value == score_mate1ply + 1 - ply
        moves == QuiesMoves(p, alpha, qui_ply)
        Try(s, m) ==
            LET r == SearchQuies([s.tr EXCEPT !.cur[ply] = m], Made[p][m],
                                 -beta, -s.value, ply + 1, qui_ply + 1)
            IN  IF s.value >= beta THEN s
                ELSE [tr |-> r.tr, value |-> Larger(s.value, -r.value)]
        best  == FoldLeft(Try, [tr |-> tr, value |-> alpha], moves)
        line  == IF best.value = Eval[p] THEN pv_close(best.tr, ply, "no_rep")
                                         ELSE pv_copy(best.tr, ply)
    IN  IF alpha_old < Eval[p] /\ beta <= Eval[p]
        THEN [tr |-> [tr EXCEPT !.cur[ply] = MOVE_PASS], value |-> Eval[p]]
        ELSE IF ply >= PLY_MAX - 1
        THEN [tr |-> [(IF alpha # alpha_old THEN pv_close(tr, ply, "no_rep") ELSE tr)
                        EXCEPT !.cur[ply] = MOVE_NA],
              value |-> Eval[p]]
        ELSE IF mate # MOVE_NA
        THEN [tr |-> CloseWithin([tr EXCEPT !.cur[ply] = mate], ply, "mate_search",
                                 alpha, value, beta),
              value |-> value]
        ELSE IF best.value >= beta
        THEN best
        ELSE IF qui_ply < QUIES_PLY_LIMIT /\ p \in MateIn3Ply
        THEN [tr |-> CloseWithin(best.tr, ply, "mate_search", best.value,
                                 score_max_eval, beta),
              value |-> score_max_eval]
        ELSE [tr |-> IF best.value = alpha_old THEN best.tr ELSE line,
              value |-> best.value]

------------------------------------------------------------------------------
(* The choice of the next move: the hash move, good captures and killers, the   *)
(* two moves with the best history, the rest.  next[ply] has the moves that are *)
(* still in the list, how many of them belong to the stage of captures, and     *)
(* which killers were among those tried (phase_done).  The values that order    *)
(* the moves of a stage are left out, but whether a value is below 0 is not.    *)
Start(tr, ply) == [tr EXCEPT !.next[ply] = [phase |-> "hash", list |-> << >>,
                                            remaining |-> 0, done |-> {}]]

Hand(tr, ply, m, phase, list, remaining) ==
    [tr |-> [tr EXCEPT !.cur[ply] = m,
                       !.next[ply].phase = phase, !.next[ply].list = list,
                       !.next[ply].remaining = remaining,
                       !.next[ply].done = @ \cup ({m} \cap ToSet(tr.killer[ply]))],
     move |-> m]

Misc(tr, ply) ==
    LET list == tr.next[ply].list
    IN  IF list = << >>
        THEN [tr |-> [tr EXCEPT !.next[ply].phase = "misc"], move |-> MOVE_NA]
        ELSE Hand(tr, ply, Head(list), "misc", Tail(list), 0)

ByHistory(tr, ply, c, phase) ==
    LET list == tr.next[ply].list
        H(i) == tr.history[c][list[i]]
        best == {i \in DOMAIN list :
                   /\ H(i) > 0
                   /\ \A j \in DOMAIN list : H(j) < H(i) \/ (H(j) = H(i) /\ i <= j)}
        i    == CHOOSE j \in best : TRUE
    IN  IF best = {} THEN Misc(tr, ply)
        ELSE Hand(tr, ply, list[i], phase, RemoveAt(list, i), 0)

IsGoodKiller(tr, ply, m) == m \in ToSet(tr.killer[ply]) \ DullKillers

GoodCaptures(tr, p, ply) ==
    SelectSeq(Moves[p],
        LAMBDA m : /\ m \in Captures[p] /\ m # tr.amove_hash[ply]
                   /\ m \in Losing[p] => IsGoodKiller(tr, ply, m))
LosingCaptures(tr, p, ply) ==
    SelectSeq(Moves[p],
        LAMBDA m : /\ m \in Losing[p] /\ m # tr.amove_hash[ply]
                   /\ ~ IsGoodKiller(tr, ply, m))
GoodKillers(tr, p, ply) ==
    SelectSeq(tr.killer[ply],
        LAMBDA m : /\ m \in ToSet(Moves[p]) \ Captures[p]
                   /\ m \notin DullKillers /\ m # tr.amove_hash[ply])
QuietMoves_KillersAgain(tr, p, ply) ==
    SelectSeq(Moves[p],
        LAMBDA m : m \notin Captures[p] /\ m # tr.amove_hash[ply])
QuietMoves(tr, p, ply) ==
    SelectSeq(Moves[p],
        LAMBDA m : /\ m \notin Captures[p] /\ m # tr.amove_hash[ply]
                   /\ m \notin tr.next[ply].done)

GoodThenQuiet(tr, p, ply) ==
    LET n == tr.next[ply]
        all == [tr EXCEPT !.next[ply].list = @ \o QuietMoves(tr, p, ply)]
    IN  IF n.remaining > 0
        THEN Hand(tr, ply, Head(n.list), "capture", Tail(n.list), n.remaining - 1)
        ELSE ByHistory(all, ply, Turn[p], "history2")

gen_next_move(tr, p, ply) ==
    LET good  == GoodCaptures(tr, p, ply) \o GoodKillers(tr, p, ply)
        begun == [tr EXCEPT !.next[ply] =
                    [phase |-> "capture", list |-> good \o LosingCaptures(tr, p, ply),
                     remaining |-> Len(good), done |-> {}]]
        b     == begun.next[ply]
        hash  == tr.amove_hash[ply]
        phase == tr.next[ply].phase
    IN  CASE phase = "hash" ->
               IF hash # MOVE_NA
               THEN Hand(begun, ply, hash, "capture", b.list, b.remaining)
               ELSE GoodThenQuiet(begun, p, ply)
          [] phase = "capture"  -> GoodThenQuiet(tr, p, ply)
          [] phase = "history2" -> ByHistory(tr, ply, Turn[p], "misc")
          [] phase = "misc"     -> Misc(tr, ply)

gen_next_evasion(tr, p, ply) ==
    LET hash  == tr.amove_hash[ply]
        all   == [tr EXCEPT !.next[ply].list =
                    SelectSeq(Moves[p], LAMBDA m : m # hash)]
        phase == tr.next[ply].phase
    IN  IF phase = "hash" /\ hash # MOVE_NA THEN Hand(tr, ply, hash, "genall", << >>, 0)
        ELSE IF phase \in {"hash", "genall"} THEN Misc(all, ply)
        ELSE Misc(tr, ply)

(* A move that cut off, or the best of a node that raised alpha: it counts, and *)
(* it becomes the first killer unless it is the best capture.                   *)
BestCapture(p) ==
    {m \in Captures[p] \ Losing[p] : m = SelectSeq(Moves[p], LAMBDA x : x \in Captures[p])[1]}

history(tr, p, ply, depth, move) ==
    LET counted == IF move \in Captures[p] THEN tr
                   ELSE [tr EXCEPT !.history[Turn[p]][move] = @ + depth]
        first   == tr.killer[ply][1]
    IN  IF tr.nsuc[ply] # 0 THEN tr
        ELSE IF move \in BestCapture(p) \cup {first} THEN counted
        ELSE [counted EXCEPT !.killer[ply] = <<move, first>>]

------------------------------------------------------------------------------
(* Rejections: a position that the mover could have reached before with no      *)
(* worse hand, in the game (by_root) or at least two of its moves ago (sibling, *)
(* which remembers the ply).                                                    *)
Siblings(p) ==
    {Made[p][m] : m \in ToSet(Moves[p]) \ Illegal[p]} \cup Declined[p]
Add(tbl, qs, entry(_)) ==
    [k \in DOMAIN tbl |-> LET here == {q \in qs : HASH_KEY[q] = k}
                         IN  IF here = {} THEN tbl[k] ELSE entry(CHOOSE q \in here : TRUE)]

ByRoot(q, parent) ==
    [turn |-> Flip(Turn[q]), hand |-> HAND[q][0], parent |-> HASH_KEY[parent]]
NotByRoot == [turn |-> 0, hand |-> EmptyEntry.hand, parent |-> 0]
add_rejections_root(tr, p, m) ==
    [tr EXCEPT !.by_root = Add(@, Siblings(p) \ {Made[p][m]}, LAMBDA q : ByRoot(q, p))]

SiblingEntry(q, ply) == [ply |-> ply, turn |-> Flip(Turn[q]), hand |-> HAND[q][0]]
NoSibling == [ply |-> 0, turn |-> 0, hand |-> EmptyEntry.hand]

add_rejections(tr, p, ply) ==
    [tr EXCEPT !.sibling =
       Add(@, {q \in Siblings(p) : @[HASH_KEY[q]] = NoSibling},
           LAMBDA q : SiblingEntry(q, ply))]
sub_rejections(tr, p, ply) ==
    [tr EXCEPT !.sibling =
       [k \in DOMAIN @ |->
          IF \E q \in Siblings(p) : HASH_KEY[q] = k /\ @[k] = SiblingEntry(q, ply)
          THEN NoSibling ELSE @[k]]]

NoBetter(c, hand, ref) ==
    IF c = 1 THEN is_hand_eq_supe(hand, ref) ELSE is_hand_eq_supe(ref, hand)

rejections_probe(tr, p, ply, parent) ==
    LET mover == Flip(Turn[p])
        r     == tr.by_root[HASH_KEY[p]]
        s     == tr.sibling[HASH_KEY[p]]
    IN  \/ /\ r # NotByRoot
           /\ r.turn = mover
           /\ NoBetter(mover, HAND[p][0], r.hand)
           /\ r.parent # HASH_KEY[parent]
        \/ /\ s # NoSibling
           /\ s.ply + 2 < ply
           /\ s.turn = mover
           /\ NoBetter(mover, HAND[p][0], s.hand)

------------------------------------------------------------------------------
(* search().  A frame is one call: its arguments and local variables, and where *)
(* it waits (pc).  tried is a history variable: the moves the loop has taken.   *)
Frame(p, alpha, beta, depth, ply, state) ==
    [p |-> p, alpha |-> alpha, beta |-> beta, alpha_old |-> alpha,
     depth |-> depth, ply |-> ply, state |-> state, pc |-> "enter",
     move |-> MOVE_NA, expanded |-> FALSE, new_depth |-> 0, reduced |-> 0,
     state_new |-> {}, tried |-> << >>]

Running(pc) == g.pc = "search" /\ stack # << >> /\ ~ g.root_abort /\ Top.pc = pc
NullWindow(f) == f.beta = f.alpha_old + 1
Deep(f) == f.depth >= REJEC_MIN_DEPTH
WithRejections(f, tr) == IF Deep(f) THEN add_rejections(tr, f.p, f.ply) ELSE tr
NoRejections(f, tr)   == IF Deep(f) THEN sub_rejections(tr, f.p, f.ply) ELSE tr

Return(value, tr) ==
    /\ stack' = Below
    /\ ret' = [value |-> value, p |-> Top.p, alpha |-> Top.alpha_old,
               beta |-> Top.beta, ply |-> Top.ply]
    /\ t' = tr
    /\ UNCHANGED g
Continue(f, tr) ==
    /\ stack' = Append(Below, f)
    /\ t' = tr
    /\ UNCHANGED <<ret, g>>
Call(f, callee, tr) ==
    /\ stack' = Below \o <<f, callee>>
    /\ t' = tr
    /\ UNCHANGED <<ret, g>>
WithCur(tr, ply, m) == [tr EXCEPT !.cur[ply] = m]

IsQuies(f) == t.nsuc[f.ply] = 0 /\ f.depth < PLY_INC
EnterQuies ==
    /\ Running("enter") /\ IsQuies(Top)
    /\ LET r == SearchQuies(t, Top.p, Top.alpha, Top.beta, Top.ply, 1)
       IN  Return(r.value, r.tr)

Visited == [t EXCEPT !.nodes = @ + 1]
EnterAtPlyMax ==
    /\ Running("enter") /\ ~ IsQuies(Top) /\ Top.ply >= PLY_MAX - 1
    /\ Return(Eval[Top.p],
              WithCur(CloseWithin(Visited, Top.ply, "no_rep", Top.alpha,
                                  Eval[Top.p], Top.beta), Top.ply, MOVE_NA))

(* detect_signals() may tell the search to stop: the node limit is reached, the *)
(* time is up, or a command arrived.                                            *)
Searched == Running("enter") /\ ~ IsQuies(Top) /\ Top.ply < PLY_MAX - 1
EnterSignal ==
    /\ Searched /\ Visited.nodes \in Signals
    /\ g' = [g EXCEPT !.root_abort = TRUE]
    /\ stack' = Below
    /\ t' = Visited
    /\ UNCHANGED ret

Before(ply) ==
    LET above == SelectSeq(stack, LAMBDA f : f.ply = ply - 1)
    IN  IF above = << >> THEN g.root ELSE Last(above).p
Refused == rejections_probe(t, Top.p, Top.ply, Before(Top.ply))
EnterRefused ==
    /\ Searched /\ Refused
    /\ Return(score_inferior,
              WithCur(CloseWithin(Visited, Top.ply, "superi_rep", Top.alpha,
                                  score_inferior, Top.beta), Top.ply, MOVE_NA))

(* At worst the side to move is mated here, at best it mates with its move.     *)
Mated(ply) == - (score_mate1ply + 2 - ply)
Mates(ply) == score_mate1ply + 1 - ply
OutOfReach(f) == f.beta <= Mated(f.ply) \/ Mates(f.ply) <= f.alpha
EnterMateBounds ==
    /\ Searched /\ ~ Refused /\ OutOfReach(Top)
    /\ IF Top.beta <= Mated(Top.ply)
       THEN Return(Mated(Top.ply), WithCur(Visited, Top.ply, MOVE_NA))
       ELSE Return(Mates(Top.ply), Visited)

EnterProbe ==
    /\ Searched /\ ~ Refused /\ ~ OutOfReach(Top)
    /\ \E f \in {[Top EXCEPT !.alpha = Larger(@, Mated(Top.ply)), !.pc = "prune"]} :
       \E r \in {hash_probe(t.tt, f.p, f.ply, f.depth, f.alpha, f.beta, f.state,
                            t.nsuc[f.ply] # 0 \/ t.nsuc[f.ply - 1] # 0)} :
       \E tr \in {[Visited EXCEPT !.amove_hash[f.ply] = r.move]} :
         IF r.type = "exact"
         THEN Return(r.value,
                     IF r.value <= f.alpha THEN tr
                     ELSE IF r.value < f.beta THEN pv_close(tr, f.ply, "hash_hit")
                     ELSE WithCur(tr, f.ply, r.move))
         ELSE \E looked \in {IF r.type = "lower" THEN WithCur(tr, f.ply, r.move) ELSE tr} :
                IF r.type \in {"lower", "upper"} /\ NullWindow(f)
                THEN Return(r.value, looked)
                ELSE Continue(IF r.type = "none" THEN [f EXCEPT !.state = r.state] ELSE f,
                              WithRejections(f, looked))

(* A mate in one; then the null move.                                           *)
MatesNow(f) ==
    /\ t.nsuc[f.ply] = 0 /\ "do_mate" \in f.state /\ MateIn1Ply[f.p] # MOVE_NA
PruneByMate ==
    /\ Running("prune") /\ MatesNow(Top)
    /\ LET f     == Top
           mate  == MateIn1Ply[f.p]
           value == Mates(f.ply)
           tr    == [WithCur(t, f.ply, mate) EXCEPT !.tt =
                       hash_store(@, f.p, f.ply, f.depth, "exact", value, mate, FALSE)]
       IN  Return(value, NoRejections(f, CloseWithin(tr, f.ply, "mate_search",
                                                     f.alpha, value, f.beta)))

TriesNull(f) ==
    /\ t.nsuc[f.ply] = 0
    /\ 2 * PLY_INC <= f.depth
    /\ "do_null" \in f.state
    /\ NullWindow(f)
    /\ f.beta <= Eval[f.p]
PruneByNull ==
    /\ Running("prune") /\ ~ MatesNow(Top) /\ TriesNull(Top)
    /\ LET f  == Top
           tr == [WithCur(t, f.ply, MOVE_PASS) EXCEPT !.nsuc[f.ply + 1] = 0]
       IN  Call([f EXCEPT !.pc = "null"],
                Frame(Passed[f.p], -f.beta, 1 - f.beta, NullDepth(f.depth),
                      f.ply + 1, {"do_mate", "do_recap", "do_futile"}), tr)

NoPruning ==
    /\ Running("prune") /\ ~ MatesNow(Top) /\ ~ TriesNull(Top)
    /\ Continue([Top EXCEPT !.pc = "deepen"], t)

NullReturns ==
    /\ Running("null")
    /\ LET f     == Top
           value == - ret.value
           stored == IF NullDepth(f.depth) < PLY_INC
                     THEN [t EXCEPT !.tt = hash_store(@, f.p, f.ply, f.depth, "lower",
                             value, MOVE_NA, "mate_threat" \in f.state)]
                     ELSE t
       IN  IF f.beta <= value
           THEN Return(value, NoRejections(f, stored))
           ELSE Continue([f EXCEPT !.pc = "deepen",
                                   !.state = IF value = - (score_mate1ply - f.ply)
                                             THEN @ \cup {"mate_threat"} ELSE @], t)

(* A node of the principal variation without a hash move is searched two plies  *)
(* less deep first, at the same ply.                                            *)
DeepensFirst(f) ==
    /\ t.amove_hash[f.ply] = MOVE_NA
    /\ f.depth >= 3 * PLY_INC
    /\ \/ f.alpha = g.root_alpha /\ f.beta = g.root_beta
       \/ f.alpha = - g.root_beta /\ f.beta = - g.root_alpha
Deepen ==
    /\ Running("deepen") /\ DeepensFirst(Top)
    /\ LET f == Top
       IN  Call([f EXCEPT !.pc = "iid"],
                Frame(f.p, - score_bound, f.beta, f.depth - 2 * PLY_INC, f.ply,
                      {"do_mate", "do_recap"}),
                NoRejections(f, t))
IidReturns ==
    /\ Running("iid")
    /\ LET f    == Top
           line == t.pv[f.ply - 1].line
           best == IF f.beta <= ret.value /\ IsMove(t.cur[f.ply]) THEN t.cur[f.ply]
                   ELSE IF ret.value < f.beta /\ Len(line) >= 2 THEN line[2]
                   ELSE t.amove_hash[f.ply]
           tr   == [t EXCEPT !.amove_hash[f.ply] = best]
       IN  Continue([f EXCEPT !.pc = "moves"], Start(WithRejections(f, tr), f.ply))
NoDeepening ==
    /\ Running("deepen") /\ ~ DeepensFirst(Top)
    /\ Continue([Top EXCEPT !.pc = "moves"], Start(t, Top.ply))

------------------------------------------------------------------------------
(* The loop over the moves.  Consider is what it decides about its next move.   *)
LimitExtension(e, ply) ==
    IF e = 0 \/ ply <= 2 * t.iteration_depth THEN e
    ELSE IF ply >= 4 * t.iteration_depth THEN 0
    ELSE (e * (4 * t.iteration_depth - ply)) \div (2 * t.iteration_depth)

Recaptured(f, m) ==
    /\ t.nsuc[f.ply] = 0
    /\ "do_recap" \in f.state
    /\ <<t.cur[f.ply - 1], m>> \in DOMAIN Recaptures

Extension(f, m, check) ==
    IF check THEN EXT_CHECK
    ELSE IF t.nsuc[f.ply] # 0 /\ Len(Moves[f.p]) = 1 THEN EXT_ONEREP
    ELSE IF Recaptured(f, m) THEN Recaptures[<<t.cur[f.ply - 1], m>>]
    ELSE 0

Margin(depth) == CASE 2 * PLY_INC <= depth -> EFUTIL_MG2
                   [] PLY_INC <= depth /\ depth < 2 * PLY_INC -> EFUTIL_MG1
                   [] OTHER -> 0

Calm(f, check) == ~ check /\ t.nsuc[f.ply] = 0
IsLate(f, check, depth) ==
    /\ Calm(f, check) /\ PLY_INC <= depth /\ f.expanded
    /\ "mate_threat" \notin f.state
ReducedFirst(f, m, check, depth) ==
    IsLate(f, check, depth) /\ NullWindow(f) /\ m \notin Captures[f.p]
ReducedNext(f, q, check, depth) ==
    IsLate(f, check, depth) /\ Eval[f.p] > - Eval[q]

(* A hopeless move is left out, before it is made by the most it can gain, and  *)
(* after it is made by the evaluation.                                          *)
Hopeless(f, check, value, depth) ==
    /\ Calm(f, check) /\ depth < 3 * PLY_INC
    /\ value <= f.alpha - Margin(depth)
Verdict(f, m, q, check, depth1, depth2) ==
    IF Hopeless(f, check, MaxScore[f.p][m], depth1) THEN "futile"
    ELSE IF t.nsuc[f.ply] = 0 /\ m \in Illegal[f.p] THEN "illegal"
    ELSE IF Hopeless(f, check, - Eval[q], depth2) THEN "futile"
    ELSE "search"

Considered(f, tr, m, q, check, depth) ==
    LET first == ReducedFirst(f, m, check, depth)
        reduced == IF first \/ ReducedNext(f, q, check, depth) THEN PLY_INC ELSE 0
    IN  [verdict |-> Verdict(f, m, q, check, IF first THEN depth - PLY_INC ELSE depth,
                             depth - reduced),
         tr |-> [tr EXCEPT !.nsuc[f.ply + 1] = IF check THEN t.nsuc[f.ply - 1] + 1 ELSE 0],
         move |-> m, child |-> q, depth |-> depth - reduced, reduced |-> reduced,
         state |-> IF ~ check /\ Recaptured(f, m) THEN NodeFlags \ {"do_recap"}
                   ELSE NodeFlags]

NextMove(f) == IF t.nsuc[f.ply] # 0 THEN gen_next_evasion(t, f.p, f.ply)
               ELSE gen_next_move(t, f.p, f.ply)
WithNext(f, next) ==
    LET m == next.move
        q == Made[f.p][m]
        depth == f.depth + LimitExtension(Extension(f, m, q \in Checked), f.ply) - PLY_INC
    IN  IF m = MOVE_NA THEN [verdict |-> "none", tr |-> next.tr]
        ELSE Considered(f, next.tr, m, q, q \in Checked, depth)
Consider(f) == WithNext(f, NextMove(f))

Loops == Running("moves")
Taken(f, c) == [f EXCEPT !.move = c.move, !.tried = Append(@, c.move)]
SkipIllegal ==
    /\ Loops
    /\ \E c \in {Consider(Top)} :
         c.verdict = "illegal" /\ Continue(Taken(Top, c), c.tr)
PruneFutile ==
    /\ Loops
    /\ \E c \in {Consider(Top)} :
         /\ c.verdict = "futile"
         /\ Continue([Taken(Top, c) EXCEPT !.expanded = TRUE], c.tr)

(* The first move is searched with the whole window, the others with a null     *)
(* window and, if they raise alpha, again.                                      *)
Descend ==
    /\ Loops
    /\ \E c \in {Consider(Top)} :
         /\ c.verdict = "search"
         /\ Call([Taken(Top, c) EXCEPT
                    !.pc = IF Top.expanded THEN "null window" ELSE "window",
                    !.new_depth = c.depth, !.reduced = c.reduced, !.state_new = c.state],
                 Frame(c.child, IF Top.expanded THEN - Top.alpha - 1 ELSE - Top.beta,
                       - Top.alpha, c.depth, Top.ply + 1, c.state),
                 c.tr)

(* What the loop does with the value of a move. *)
Raises(f, value) == f.alpha < value
Settle(f, value) ==
    IF f.beta <= value
    THEN LET best == history(t, f.p, f.ply, f.depth, f.move)
             kept == [best EXCEPT !.tt =
                        hash_store(@, f.p, f.ply, f.depth, "lower", value, f.move,
                                   "mate_threat" \in f.state)]
         IN  Return(value, NoRejections(f, kept))
    ELSE Continue([f EXCEPT !.pc = "moves", !.expanded = TRUE,
                            !.alpha = Larger(@, value)], t)

NeedsWindow_IfReduced(f, value) == Raises(f, value) /\ f.reduced # 0
NeedsWindow(f, value) ==
    Raises(f, value) /\ (f.reduced # 0 \/ f.beta # f.alpha + 1)
NullWindowReturns ==
    /\ Running("null window")
    /\ LET f == Top
           value == - ret.value
           depth == f.new_depth + f.reduced
       IN  IF NeedsWindow(f, value)
           THEN Call([f EXCEPT !.pc = "window", !.new_depth = depth],
                     Frame(Made[f.p][f.move], - f.beta, - f.alpha, depth, f.ply + 1,
                           f.state_new), t)
           ELSE Settle(f, value)
WindowReturns == Running("window") /\ Settle(Top, - ret.value)

(* All moves were tried: no move at all is mate, and a node whose moves all     *)
(* repeat or were refused is worth that.                                        *)
KeepEnd_AsExact(f, tr, type, move) ==
    [tr EXCEPT !.tt = hash_store(@, f.p, f.ply, f.depth, "exact", f.alpha, move,
                                 "mate_threat" \in f.state)]
KeepEnd(f, tr, type, move) ==
    [tr EXCEPT !.tt = hash_store(@, f.p, f.ply, f.depth, type, f.alpha, move,
                                 "mate_threat" \in f.state)]
BestOf(f, tr) == tr.pv[f.ply].line[1]
LoopEnds ==
    /\ Loops
    /\ \E f \in {Top}, c \in {Consider(Top)} : \E tr \in {NoRejections(f, c.tr)} :
         /\ c.verdict = "none"
         /\ IF ~ f.expanded
            THEN Return(f.alpha, IF f.alpha # f.alpha_old
                                 THEN pv_close(tr, f.ply, "no_rep") ELSE tr)
            ELSE IF f.alpha <= Mated(f.ply)
            THEN Return(- score_inferior,
                        WithCur(CloseWithin(tr, f.ply, "superi_rep", f.alpha_old,
                                            - score_inferior, f.beta),
                                f.ply, MOVE_NA))
            ELSE IF f.alpha # f.alpha_old
            THEN Return(f.alpha,
                        KeepEnd(f, pv_copy(history(tr, f.p, f.ply, f.depth, BestOf(f, tr)),
                                           f.ply),
                                "exact", BestOf(f, tr)))
            ELSE Return(f.alpha, KeepEnd(f, tr, "upper", MOVE_NA))

(* root_abort: every call that waits gives up.                                  *)
Unwind_KeepsRejections ==
    /\ g.pc = "search" /\ g.root_abort /\ stack # << >>
    /\ stack' = Below
    /\ UNCHANGED <<t, ret, g>>
Unwind ==
    /\ g.pc = "search" /\ g.root_abort /\ stack # << >>
    /\ stack' = Below
    /\ t' = IF Top.pc = "iid" THEN t ELSE NoRejections(Top, t)
    /\ UNCHANGED <<ret, g>>

SearchStep ==
    \/ EnterQuies \/ EnterAtPlyMax \/ EnterSignal \/ EnterRefused
    \/ EnterMateBounds \/ EnterProbe
    \/ PruneByMate \/ PruneByNull \/ NoPruning \/ NullReturns
    \/ Deepen \/ IidReturns \/ NoDeepening
    \/ SkipIllegal \/ PruneFutile \/ Descend \/ NullWindowReturns \/ WindowReturns
    \/ LoopEnds \/ Unwind

------------------------------------------------------------------------------
(* The root: the list of moves, ordered by quiescence search with the move of   *)
(* the last principal variation in front.                                       *)
Legal(p) == SelectSeq(Moves[p], LAMBDA m : m \notin Illegal[p])
ByValue(s) == SortSeq(s, LAMBDA a, b : a.key > b.key \/ (a.key = b.key /\ a.at < b.at))

RootList(tr, moves) ==
    LET kept == IF moves[1].key >= - score_max_eval
                THEN SelectSeq(moves, LAMBDA e : e.key >= - score_max_eval)
                ELSE moves
    IN  [tr |-> tr, value |-> moves[1].value,
         list |-> [i \in DOMAIN kept |->
                     [move |-> kept[i].move, nodes |-> 0, status |-> {}]]]
make_root_move_list(tr0, root, first) ==
    LET Value(s, m) ==
          LET q == Made[root][m]
              r == SearchQuies([s.tr EXCEPT !.cur[1] = m,
                                            !.nsuc[2] = IF q \in Checked
                                                        THEN s.tr.nsuc[0] + 1 ELSE @],
                               q, - score_bound, score_bound, 2, 1)
              value == - r.value + (IF m \in Promotions THEN 1 ELSE 0)
          IN  [tr |-> r.tr,
               list |-> Append(s.list,
                          [move |-> m, value |-> value, at |-> Len(s.list),
                           key |-> IF m = first THEN score_bound + 1 ELSE value])]
        all   == FoldLeft(Value, [tr |-> tr0, list |-> << >>], Legal(root))
    IN  RootList(all.tr, ByValue(all.list))

(* out_pv() lengthens a line that ended in the hash table.                      *)
Follows(r, p, line, value) ==
    /\ r.type = "exact" /\ r.value = value
    /\ r.move \in ToSet(Moves[p]) \ Illegal[p]
    /\ r.move \notin ToSet(line)
AtLeaf(tr, p, ply) == hash_probe(tr.tt, p, ply, 0, - score_bound, score_bound, {}, FALSE)
RECURSIVE AlongHash(_, _, _, _, _)
AlongHash(tr, r, line, p, value) ==
    IF Follows(r, p, line, value)
    THEN AlongHash(tr, AtLeaf(tr, Made[p][r.move], Len(line) + 2), Append(line, r.move),
                   Made[p][r.move], - value)
    ELSE line

RECURSIVE After(_, _)
After(p, line) == IF line = << >> THEN p ELSE After(Made[p][Head(line)], Tail(line))

out_pv(tr, pv0, value, root) ==
    IF pv0.type # "hash_hit" THEN pv0
    ELSE [pv0 EXCEPT !.line = AlongHash(tr, AtLeaf(tr, After(root, @), Len(@) + 1), @,
                                        After(root, @),
                                        IF Len(@) % 2 = 0 THEN value ELSE - value)]

(* The aspiration window, with the widths of a time control that may be         *)
(* exceeded.                                                                    *)
aspiration_hwdth == MT_CAP_DRAGON \div 8
aspiration_fail1 == MT_CAP_DRAGON \div 2

Widened(nfail) == CASE nfail = 0 -> aspiration_hwdth
                    [] nfail = 1 -> aspiration_fail1 - aspiration_hwdth
set_root_beta(nfail, old) ==
    IF nfail >= 2 \/ old + Widened(nfail) > score_max_eval THEN score_bound
    ELSE old + Widened(nfail)
set_root_alpha(nfail, old) ==
    IF nfail >= 2 \/ old - Widened(nfail) < - score_max_eval THEN - score_bound
    ELSE old - Widened(nfail)

------------------------------------------------------------------------------
(* iterate(): the last principal variation or an exact entry of the table give  *)
(* the depth to begin with.                                                     *)
BySide(root, value) == IF Turn[root] = 1 THEN - value ELSE value

AtDepth(tr, root, n) ==
    hash_probe(tr.tt, root, 1, n * PLY_INC + PLY_INC \div 2, - score_bound, score_bound,
               {}, FALSE)
FromTable(tr, root, depth) ==
    LET value == AtDepth(tr, root, depth).value
    IN  [pv |-> out_pv(tr, Pv(<< >>, "hash_hit", depth), value, root),
         depth |-> depth, value |-> value]
Deepest(exact) ==
    CHOOSE k \in 0 .. depth_limit + 1 : 1 .. k \subseteq exact /\ k + 1 \notin exact

Nothing == [pv |-> Pv(<< >>, "hash_hit", 0), depth |-> 0, value |-> - score_bound]
Found(pre) == IF pre.pv.line = << >> THEN Nothing ELSE pre
Preliminary(tr, root, depth) ==
    IF tr.last_pv.line # << >>
    THEN [pv |-> [tr.last_pv EXCEPT !.type = "prev_solution"],
          depth |-> tr.last_pv.depth, value |-> BySide(root, tr.last_root_value)]
    ELSE IF depth > 0 THEN Found(FromTable(tr, root, depth)) ELSE Nothing

Cleared(tr) == [tr EXCEPT !.nodes = 0, !.iteration_depth = 0,
                          !.cur[0] = MOVE_NA,
                          !.killer = [ply \in Plies |-> <<MOVE_NA, MOVE_NA>>]]

First(pv) == IF pv.line = << >> THEN MOVE_NA ELSE Head(pv.line)
StartOf(pre, roots) ==
    LET best == roots.list[1].move
    IN  IF First(pre.pv) = best THEN pre
        ELSE [pv |-> Pv(<<best>>, "no_rep", 1), depth |-> 0, value |-> roots.value]
IsKnown(start) ==
    Magnitude(start.value) > score_max_eval \/ start.depth >= depth_limit

Begin ==
    /\ g.pc = "begin"
    /\ \E clear \in {Cleared(t)} :
       \E pre \in {Preliminary(clear, g.root,
                     Deepest({n \in 1 .. depth_limit + 1 :
                                AtDepth(clear, g.root, n).type = "exact"}))} :
       \E roots \in {make_root_move_list([clear EXCEPT !.iteration_depth = pre.depth],
                                         g.root, First(pre.pv))} :
       \E start \in {StartOf(pre, roots)} :
       \E tr \in {[roots.tr EXCEPT !.last_pv = start.pv,
                                   !.last_root_value = BySide(g.root, start.value),
                                   !.iteration_depth = start.depth]} :
         IF IsKnown(start)
         THEN /\ t' = tr
              /\ g' = [g EXCEPT !.pc = "answer", !.root_abort = FALSE,
                                !.pv0 = start.pv, !.root_value = start.value]
         ELSE /\ t' = add_rejections([tr EXCEPT !.iteration_depth = @ + 1], g.root, 1)
              /\ g' = [g EXCEPT !.pc = "iteration", !.root_abort = FALSE,
                         !.list = roots.list, !.pv0 = start.pv,
                         !.root_beta  = set_root_beta(0, start.value),
                         !.root_alpha = set_root_alpha(0, start.value),
                         !.root_value = set_root_alpha(0, start.value)]
    /\ UNCHANGED <<stack, ret>>

(* The moves of the line are put in the table.                                  *)
RECURSIVE StoreLine(_, _, _)
StoreLine(tt, p, line) ==
    IF line = << >> \/ Head(line) \notin ToSet(Moves[p]) \ Illegal[p] THEN tt
    ELSE hash_store_pv(StoreLine(tt, Made[p][Head(line)], Tail(line)), p, Head(line))

BeginIteration ==
    /\ g.pc = "iteration"
    /\ t' = [t EXCEPT !.tt = StoreLine(@, g.root, g.pv0.line)]
    /\ g' = [g EXCEPT !.pc = "trial", !.root_nfail_high = 0, !.root_nfail_low = 0,
                      !.list = [i \in DOMAIN @ |-> [@[i] EXCEPT !.status =
                                   IF i = 1 THEN {"first"} ELSE {}]]]
    /\ UNCHANGED <<stack, ret>>

(* searchr(): alpha and beta are its own, expanded says that its first move has *)
(* been searched.                                                               *)
BeginTrial ==
    /\ g.pc = "trial"
    /\ g' = [g EXCEPT !.pc = "roots", !.alpha = g.root_alpha, !.beta = g.root_beta,
                      !.expanded = FALSE]
    /\ UNCHANGED <<stack, ret, t>>

RootDepthHere == t.iteration_depth * PLY_INC + PLY_INC \div 2
RootDepth(q) == RootDepthHere + (IF q \in Checked THEN EXT_CHECK - PLY_INC ELSE - PLY_INC)
Unsearched == {i \in DOMAIN g.list : "searched" \notin g.list[i].status}
CallRoot(m, alpha, beta, tr) ==
    /\ stack' = <<Frame(Made[g.root][m], - beta, - alpha, RootDepth(Made[g.root][m]),
                        2, NodeFlags)>>
    /\ t' = tr
    /\ UNCHANGED ret

NextRootMove ==
    /\ g.pc = "roots" /\ Unsearched # {}
    /\ LET i == CHOOSE k \in Unsearched : \A j \in Unsearched : k <= j
           m == g.list[i].move
           q == Made[g.root][m]
           tr == [t EXCEPT !.cur[1] = m,
                           !.nsuc[2] = IF q \in Checked THEN t.nsuc[0] + 1 ELSE 0]
       IN  /\ CallRoot(m, g.alpha, IF g.expanded THEN g.alpha + 1 ELSE g.beta, tr)
           /\ g' = [g EXCEPT !.pc = "search", !.list[i].status = @ \cup {"searched"},
                             !.nodes_start = t.nodes,
                             !.awaits = IF g.expanded THEN "null window" ELSE "first"]

(* What searchr does with the value of a root move; save_result moves it to the *)
(* front.                                                                       *)
Place(m) == CHOOSE i \in DOMAIN g.list : g.list[i].move = m
Counted(tr, m) == [g.list EXCEPT ![Place(m)].nodes = tr.nodes - g.nodes_start]
InFront(list, i) == <<list[i]>> \o RemoveAt(list, i)

NotBetter(list) ==
    /\ g' = [g EXCEPT !.pc = "roots", !.list = list]
    /\ t' = t
Better(value, list, saved) ==
    /\ g' = [g EXCEPT !.pc = "roots", !.list = list, !.pv0 = saved, !.alpha = value,
                      !.root_value = value, !.value = value, !.expanded = TRUE]
    /\ t' = t
TooGood(value, list, closed) ==
    /\ g' = [g EXCEPT !.pc = "fail high", !.list = list, !.pv0 = closed.pv[1],
                      !.root_value = value, !.value = value, !.expanded = TRUE]
    /\ t' = [closed EXCEPT !.tt = hash_store(@, g.root, 1, RootDepthHere, "lower", value,
                                             t.cur[1], FALSE)]
SettleRoot(value) ==
    \E list \in {Counted(t, t.cur[1])} : \E front \in {InFront(list, Place(t.cur[1]))} :
      CASE value <= g.alpha -> NotBetter(list)
        [] g.alpha < value /\ value < g.beta ->
             Better(value, front, out_pv(t, t.pv[1], value, g.root))
        [] OTHER -> TooGood(value, front, pv_close(t, 2, "pv_fail_high"))

Returned(awaits) ==
    g.pc = "search" /\ stack = << >> /\ ~ g.root_abort /\ g.awaits = awaits
FirstReturns ==
    /\ Returned("first")
    /\ IF - ret.value <= g.alpha
       THEN /\ g' = [g EXCEPT !.pc = "fail low", !.value = - ret.value]
            /\ UNCHANGED t
       ELSE SettleRoot(- ret.value)
    /\ UNCHANGED <<stack, ret>>
RootNullWindowReturns ==
    /\ Returned("null window")
    /\ IF g.alpha < - ret.value
       THEN /\ CallRoot(t.cur[1], g.alpha, g.beta, t)
            /\ g' = [g EXCEPT !.awaits = "window"]
       ELSE SettleRoot(- ret.value) /\ UNCHANGED <<stack, ret>>
RootWindowReturns ==
    /\ Returned("window")
    /\ SettleRoot(- ret.value)
    /\ UNCHANGED <<stack, ret>>

(* All root moves were searched: alpha is the value, if it is above root_alpha. *)
RootsEnd ==
    /\ g.pc = "roots" /\ Unsearched = {}
    /\ t' = [t EXCEPT !.tt = hash_store(@, g.root, 1, RootDepthHere, "exact", g.alpha,
                                        t.pv[1].line[1], FALSE)]
    /\ g' = [g EXCEPT !.pc = IF g.alpha <= g.root_alpha THEN "fail low" ELSE "done",
                      !.value = g.alpha]
    /\ UNCHANGED <<stack, ret>>

(* The window is widened until the value is inside; a third time would end the  *)
(* program (exit(1)).                                                           *)
Again(list, flag) ==
    [list EXCEPT ![1].status = (@ \ {"searched"}) \cup {flag}]

FailHigh ==
    /\ g.pc = "fail high"
    /\ LET once == set_root_beta(g.root_nfail_high + 1, g.root_beta)
           twice == g.value >= once
       IN  g' = [g EXCEPT !.pc = "trial", !.list = Again(@, "failhigh"),
                   !.root_nfail_high = @ + (IF twice THEN 2 ELSE 1),
                   !.root_beta = IF twice THEN set_root_beta(g.root_nfail_high + 2, once)
                                          ELSE once]
    /\ UNCHANGED <<stack, ret, t>>
FailLow ==
    /\ g.pc = "fail low"
    /\ LET once  == set_root_alpha(g.root_nfail_low + 1, g.root_alpha)
           twice == g.value <= once
           alpha == IF twice THEN set_root_alpha(g.root_nfail_low + 2, once) ELSE once
       IN  g' = IF "first" \notin g.list[1].status
                THEN [g EXCEPT !.pc = "done", !.root_value = g.root_alpha]
                ELSE [g EXCEPT !.pc = "trial", !.list = Again(@, "faillow"),
                         !.root_nfail_low = @ + (IF twice THEN 2 ELSE 1),
                         !.root_alpha = alpha, !.root_value = alpha]
    /\ UNCHANGED <<stack, ret, t>>

(* searchr gives up; a move that was seen to raise alpha is kept all the same.  *)
AbortReachesRoot ==
    /\ g.pc = "search" /\ stack = << >> /\ g.root_abort
    /\ LET closed == pv_close(t, 2, "pv_fail_high")
       IN  IF g.awaits = "window"
           THEN /\ t' = closed
                /\ g' = [g EXCEPT !.pc = "done", !.root_value = g.alpha + 1,
                                  !.pv0 = closed.pv[1]]
           ELSE /\ g' = [g EXCEPT !.pc = "done"]
                /\ UNCHANGED t
    /\ UNCHANGED <<stack, ret>>

(* The end of a trial: its result counts if it is inside the window.            *)
Inside == g.root_alpha < g.root_value /\ g.root_value < g.root_beta
Resort(list) ==
    LET rest == [i \in 1 .. Len(list) - 1 |->
                   [entry |-> list[i + 1], key |-> list[i + 1].nodes, at |-> i]]
        sorted == ByValue(rest)
    IN  <<list[1]>> \o [i \in DOMAIN sorted |-> sorted[i].entry]

Saturated(tt) ==
    LET rows == Cardinality(DOMAIN tt.prefer)
        n    == Cardinality({i \in DOMAIN tt.prefer : tt.prefer[i].age = tt.age})
                + Cardinality({s \in DOMAIN tt.always : tt.always[s].age = tt.age})
    IN  100 * n > 9 * 3 * rows

EndTrial ==
    /\ g.pc = "done"
    /\ LET kept  == IF Inside
                    THEN [t EXCEPT !.last_pv = g.pv0,
                                   !.last_root_value = BySide(g.root, g.root_value)]
                    ELSE t
           over  == \/ g.root_abort
                    \/ Inside /\ \/ Magnitude(g.value) > score_max_eval
                                 \/ t.iteration_depth >= depth_limit
           clean == sub_rejections(kept, g.root, 1)
       IN  IF over
           THEN /\ t' = [clean EXCEPT
                           !.history = [c \in Sides |-> [m \in DOMAIN @[c] |->
                                                           @[c][m] \div 256]],
                           !.tt.age = IF Saturated(clean.tt) THEN (@ + 1) % 8 ELSE @]
                /\ g' = [g EXCEPT !.pc = "answer"]
           ELSE /\ t' = [kept EXCEPT !.iteration_depth = @ + 1]
                /\ g' = [g EXCEPT !.pc = "iteration", !.list = Resort(@),
                           !.root_beta  = IF Inside THEN set_root_beta(0, g.value) ELSE @,
                           !.root_alpha = IF Inside THEN set_root_alpha(0, g.value) ELSE @,
                           !.root_value = IF Inside THEN set_root_alpha(0, g.value) ELSE @]
    /\ UNCHANGED <<stack, ret>>

(* The engine makes its move and the opponent answers: make_move_root keeps the *)
(* line while the game follows it.  The engine never resigns: the app sets      *)
(* resign_threshold to 999999, which no value reaches.                          *)
MakeRoot(tr, p, m) ==
    LET check == Made[p][m] \in Checked
        nsuc2 == IF check THEN tr.nsuc[0] + 1 ELSE 0
        pv    == tr.last_pv
        follows == Len(pv.line) >= 2 /\ pv.line[1] = m
    IN  [add_rejections_root(tr, p, m) EXCEPT
                   !.nsuc = [@ EXCEPT ![0] = tr.nsuc[1], ![1] = nsuc2],
                   !.last_pv = IF follows
                               THEN [pv EXCEPT !.line = Tail(@),
                                       !.depth = IF check \/ @ = 0 THEN @ ELSE @ - 1]
                               ELSE Pv(<< >>, pv.type, 0),
                   !.last_root_value = IF follows THEN @ ELSE 0]

NextTurn ==
    /\ g.pc = "answer" /\ g.searches < Searches
    /\ LET m == t.last_pv.line[1]
           q == Made[g.root][m]
       IN  \E reply \in Replies[q] :
             /\ t' = MakeRoot(MakeRoot(t, g.root, m), q, reply)
             /\ g' = [g EXCEPT !.pc = "begin", !.root = Made[q][reply],
                               !.searches = @ + 1]
    /\ UNCHANGED <<stack, ret>>

(* The engine may be asked no more: a search can stop nowhere else.             *)
Answered == g.pc = "answer" /\ UNCHANGED vars

Init ==
    /\ \E p \in Roots :
         g = [pc |-> "begin", root |-> p, searches |-> 1,
              list |-> << >>, pv0 |-> Pv(<< >>, "no_rep", 0), awaits |-> "first",
              alpha |-> 0, beta |-> 0, value |-> 0, expanded |-> FALSE,
              nodes_start |-> 0, root_abort |-> FALSE,
              root_alpha |-> - score_bound, root_beta |-> score_bound,
              root_value |-> - score_bound, root_nfail_high |-> 0,
              root_nfail_low |-> 0]
    /\ t = [amove_hash |-> [ply \in Plies |-> MOVE_NA],
            cur        |-> [ply \in Plies |-> MOVE_NA],
            nsuc       |-> [ply \in 0 .. PLY_MAX + 1 |->
                              IF ply = 1 /\ g.root \in Checked THEN 1 ELSE 0],
            killer     |-> [ply \in Plies |-> <<MOVE_NA, MOVE_NA>>],
            next       |-> [ply \in Plies |-> [phase |-> "hash", list |-> << >>,
                                               remaining |-> 0, done |-> {}]],
            pv         |-> [ply \in Plies |-> Pv(<<MOVE_NA>>, "no_rep", 0)],
            history    |-> [c \in Sides |-> [m \in AllMoves |-> 0]],
            sibling    |-> [k \in DOMAIN Index |-> NoSibling],
            by_root    |-> [k \in DOMAIN Index |-> NotByRoot],
            tt |-> clear_trans_table, nodes |-> 0, iteration_depth |-> 0,
            last_pv |-> Pv(<< >>, "no_rep", 0), last_root_value |-> 0]
    /\ stack = << >>
    /\ ret = [value |-> 0, p |-> g.root, alpha |-> 0, beta |-> 0, ply |-> 0]

Next ==
    \/ Begin \/ BeginIteration \/ BeginTrial \/ NextRootMove
    \/ SearchStep
    \/ FirstReturns \/ RootNullWindowReturns \/ RootWindowReturns \/ RootsEnd
    \/ FailHigh \/ FailLow \/ AbortReachesRoot \/ EndTrial \/ NextTurn
    \/ Answered

Spec == Init /\ [][Next]_vars
=============================================================================

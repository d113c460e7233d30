--------------------------- MODULE MCSquadSearch ----------------------------
(* A squad of five from ten players of three clubs, two of which may come  *)
(* from one; four of them play.                                            *)
EXTENDS SquadSearch, TLC

MCPosOf == [p \in Player |-> IF p <= 2 THEN "G" ELSE IF p <= 6 THEN "D" ELSE "F"]
MCPosNames == <<"G", "D", "F">>
MCQuota == "G" :> 1 @@ "D" :> 2 @@ "F" :> 2
MCXIMin == "G" :> 1 @@ "D" :> 1 @@ "F" :> 1
MCRounds == "singles" :> 20 @@ "pairs" :> 6 @@ "funded" :> 3

MCBenchWorth(w, xi, bench) == BenchWeight * MapThenSumSet(LAMBDA p : w.score[p], bench)

Market(prices, scores, teams, fit) ==
  [price |-> prices, score |-> scores, club |-> teams, fit |-> fit]

(* Markets with no pattern to them; one player in some is short of minutes.*)
Mixed(a, b) ==
  Market([p \in Player |-> 2 + ((p * p * a + b) % 7)],
         [p \in Player |-> 1 + ((p * a + p * p * b) % 11)],
         [p \in Player |-> 1 + ((p * (a + b) + (p \div 3)) % 3)],
         Player \ {8 * (a - 1)})

(* One where two sales fund the same upgrade, and what they leave on the   *)
(* bench is a near-tie; and where 3, 4 and 7 are three of one club.        *)
Near ==
  Market(<<4, 4, 4, 10, 2, 3, 6, 9, 6, 6>>, <<3, 4, 8, 3, 1, 2, 10, 20, 9, 5>>,
         <<2, 2, 1, 1, 3, 3, 1, 2, 3, 3>>, Player)

MCWorld == {Near} \cup {Mixed(a, b) : a \in 1..2, b \in 1..2}

New == [budget |-> 24, starts |-> {}, locks |-> {}, excluded |-> {}, owned |-> {}, max |-> 0,
        boost |-> FALSE]

(* A squad to revise.                                                      *)
Owned(max) == [New EXCEPT !.owned = {1, 3, 4, 7, 9}, !.max = max]

MCRequest ==
  {New, [New EXCEPT !.budget = 18], [New EXCEPT !.budget = 12], [New EXCEPT !.boost = TRUE, !.budget = 30],
   [New EXCEPT !.starts = {3, 4, 7, 8}, !.locks = {3, 4, 7, 8}],
   [New EXCEPT !.locks = {8}, !.starts = {8}], [New EXCEPT !.locks = {3, 9}, !.excluded = {9, 4}],
   [New EXCEPT !.locks = {3, 4, 5}],
   Owned(1), Owned(2), [Owned(2) EXCEPT !.locks = {3, 7}], [Owned(2) EXCEPT !.locks = {1, 3, 4, 7, 9}], [Owned(0) EXCEPT !.budget = 26],
   [Owned(2) EXCEPT !.locks = {2}], [Owned(2) EXCEPT !.owned = {1, 3, 4}],
   [Owned(3) EXCEPT !.excluded = {3}], [Owned(5) EXCEPT !.budget = 22],
   [Owned(2) EXCEPT !.budget = 30], [Owned(1) EXCEPT !.budget = 30], [New EXCEPT !.starts = {1, 2}, !.locks = {1, 2}]}
=============================================================================

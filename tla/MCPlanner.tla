----------------------------- MODULE MCPlanner ------------------------------
(* Planner with squads of one or two players ranked by number: the best    *)
(* legal squad is the lowest, and a seed's variety does without its best.  *)
EXTENDS Planner, FiniteSetsExt

Legal(lock, block) == {s \in Squad : Obeys(s, lock, block)}

Best(squads) ==
  IF squads = {} THEN None
  ELSE CHOOSE s \in squads : \A r \in squads : SumSet(s) <= SumSet(r)

MCOptimum(lock, block) == Best(Legal(lock, block))

(* The seed is the player to do without; where that cannot be, the optimum.*)
MCVaried(seed, lock, block) ==
  IF Legal(lock, block \cup {seed}) = {} THEN MCOptimum(lock, block)
  ELSE Best(Legal(lock, block \cup {seed}))

CONSTANT Held
MCOwned(t) == Held

MCClicks == [op : {"lock", "block"}, who : {1}]
            \cup [op : {"optimise", "reset", "arrange"}] \cup [op : {"replace"}, out : {2}, into : {3}]
=============================================================================

------------------------------ MODULE MCSeason ------------------------------
(* Season on a squad of three from six players, two of the squad of one    *)
(* position, for four gameweeks with the second set of chips from the      *)
(* third.  Each configuration turns on what its name says; Greedy funds a  *)
(* purchase from two sales, which may be for one arrival.                  *)
EXTENDS Season, TLC

MCPos == [p \in Player |-> IF p \in {"d1", "d2", "d3"} THEN "D" ELSE "F"]

MCSlotPos == [s \in Slot |-> IF s = "F" THEN "F" ELSE "D"]

(* d1, d3 and f1 play for one club, of which two may be held.              *)
MCClub == [p \in Player |-> IF p \in {"d1", "d3", "f1"} THEN "x" ELSE p]

(* A price that moves once.                                                *)
From(first, w, then) == [v \in Week |-> IF v < w THEN first ELSE then]

(* d1 rises, so that selling him keeps half; d3 falls.                     *)
Moving == ("d1" :> From(3, 2, 6)) @@ ("d2" :> From(2, 2, 2)) @@ ("d3" :> From(4, 3, 3))
          @@ ("f1" :> From(2, 3, 5)) @@ ("f2" :> From(3, 2, 4)) @@ ("f3" :> From(7, 3, 6))

(* Nothing moves but one premium.                                          *)
Steady == ("d1" :> From(3, 2, 3)) @@ ("d2" :> From(2, 2, 2)) @@ ("d3" :> From(4, 2, 4))
          @@ ("f1" :> From(3, 2, 3)) @@ ("f2" :> From(2, 3, 4)) @@ ("f3" :> From(5, 2, 5))

MCMarket == {Moving, Steady}

On(chips) == [k \in Chip |-> IF k \in DOMAIN chips THEN chips[k] ELSE 0]

Plain == [sets |-> 2, planned |-> FALSE, first |-> NoChips, second |-> NoChips,
          wildcard |-> "off", freehit |-> FALSE, boost |-> FALSE,
          bankUpTo |-> 3, maxHits |-> 1, hitCeiling |-> 0, maxMoves |-> 0,
          fundingSales |-> 1, lookahead |-> FALSE, unified |-> FALSE]

Greedy   == [Plain EXCEPT !.fundingSales = 2]
TwoHits  == [Plain EXCEPT !.maxHits = 2, !.hitCeiling = 2, !.bankUpTo = 2]
OneHit   == [Plain EXCEPT !.maxHits = 2, !.bankUpTo = 2]
Banker   == [Plain EXCEPT !.lookahead = TRUE, !.maxHits = 0]
Together == [Plain EXCEPT !.unified = TRUE]
Frugal   == [Plain EXCEPT !.maxMoves = 1]
Rules2   == [Plain EXCEPT !.wildcard = "on", !.freehit = TRUE, !.boost = TRUE,
                          !.maxHits = 0, !.maxMoves = 1]
Rules1   == [Rules2 EXCEPT !.sets = 1, !.wildcard = "firsthalf"]
Lively   == [Rules2 EXCEPT !.maxHits = 1, !.maxMoves = 0]
Planned  == [Plain EXCEPT !.planned = TRUE, !.maxMoves = 1, !.freehit = TRUE,
               !.first = On("wildcard" :> 2 @@ "boost" :> 3 @@ "captain" :> 4)]
PlanAndRule == [Rules1 EXCEPT !.first = On("boost" :> 2 @@ "captain" :> 3)]
FreeHitPlan == [Plain EXCEPT !.first = On("freehit" :> 2), !.second = On("freehit" :> 4)]
Collides    == [Frugal EXCEPT !.first = On("boost" :> 2 @@ "captain" :> 2)]
WrongSet    == [Frugal EXCEPT !.first = On("boost" :> 3)]
NoSecond    == [Frugal EXCEPT !.sets = 1, !.second = On("boost" :> 3)]

MCConfig == {Greedy, TwoHits, OneHit, Banker, Together, Frugal, Rules2, Rules1, Lively, Planned,
             PlanAndRule, FreeHitPlan, Collides, WrongSet, NoSecond}
=============================================================================

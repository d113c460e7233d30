----------------------------- MODULE SquadRules ------------------------------
(***************************************************************************)
(* What a squad is worth and costs, and the two exact sub-problems that    *)
(* Engine.Optimize (internal/analysis) solves on the way to one: the       *)
(* cheapest legal completion of a squad in progress (fillBound), and the   *)
(* best eleven of a formation when no club limit applies (dpSeeds).        *)
(*                                                                         *)
(* Prices are tenths of a million.  Scores are whole numbers, in place of  *)
(* floats whose near-ties Eps (1e-9 in the code) tells apart.              *)
(***************************************************************************)
EXTENDS Integers, FiniteSets, FiniteSetsExt, SequencesExt

CONSTANTS Player,      \* element ids; their order breaks ties
          Position, PosNames, \* the positions, and posNames, their order
          Keeper, PosOf,
          Quota,       \* squadQuota
          XIMin, XIMax, XISize,
          Club, MaxPerClub, \* clubs are numbered in the order of their names
          PerPrice,    \* candidates a seed keeps at a price: 4
          Whole, ViceShare, \* one point, and ViceCaptainWeight of one
          BenchWorth(_, _, _), \* benchValue of a market, an eleven and its bench
          Eps,
          World,       \* the markets, see Worlds
          Request      \* the requests, see Requests

(* A market: prices, scores, clubs, and who clears the floors of minutes   *)
(* and availability for the request at hand.                               *)
Worlds == [price : [Player -> Nat \ {0}], score : [Player -> Nat],
           club : [Player -> Club], fit : SUBSET Player]

Total(f) == SumFunctionOnSet(f, Position)

SquadSize == Total(Quota)

At(squad, pos) == {p \in squad : PosOf[p] = pos}

Filled(squad) == \A pos \in Position : Cardinality(At(squad, pos)) = Quota[pos]

(* OptimizeRequest.  Forced starters are folded into the locks.  An owned  *)
(* fifteen is one FPL let the manager pick, though a player's move may     *)
(* have put a club over its limit since; an empty one asks for a new squad.*)
Requests == {r \in [budget : Nat, starts : SUBSET Player, locks : SUBSET Player,
                    excluded : SUBSET Player, owned : SUBSET Player, max : Nat,
                    boost : BOOLEAN] :
               /\ r.starts \subseteq r.locks
               /\ Cardinality(r.owned) = SquadSize => Filled(r.owned)}

(* boundInfeasible: no sum of money comes near it.                         *)
Infeasible == 2^30

ASSUME SquadConstants ==
  /\ Player \subseteq Nat /\ IsFiniteSet(Player)
  /\ IsFiniteSet(Position) /\ Range(PosNames) = Position /\ Keeper \in Position
  /\ PosOf \in [Player -> Position]
  /\ Quota \in [Position -> Nat] /\ XIMin \in [Position -> Nat] /\ XIMax \in [Position -> Nat]
  /\ XISize \in Nat /\ Club \subseteq Nat /\ IsFiniteSet(Club) /\ MaxPerClub \in Nat \ {0}
  /\ {PerPrice, Whole, ViceShare, Eps} \subseteq Nat
  /\ World \subseteq Worlds /\ Request \subseteq Requests

(* A squad has the places an eleven may need, and posNames names each of   *)
(* its positions once.                                                     *)
ASSUME ElevenFits ==
  /\ \A pos \in Position : XIMax[pos] <= Quota[pos]
  /\ PosNames \in Seq(Position)
  /\ \A m, n \in DOMAIN PosNames : PosNames[m] = PosNames[n] => m = n

(* All the players together cost less than the mark of what cannot be had. *)
ASSUME MoneyIsBelowTheMark ==
  /\ \A w \in World : SumFunctionOnSet(w.price, Player) < Infeasible
  /\ \A r \in Request : r.budget < Infeasible

(* Whatever a bench is worth, it is a number.                              *)
ASSUME BenchIsWorthANumber ==
  \A squad \in SUBSET Player : Filled(squad) =>
    \A w \in World, xi \in SUBSET squad : BenchWorth(w, xi, squad \ xi) \in Int

VARIABLES world, req

Price(p) == world.price[p]
Score(p) == world.score[p]
Team(p)  == world.club[p]

Cost(players)   == SumFunctionOnSet(world.price, players)
Scored(players) == SumFunctionOnSet(world.score, players)
In(squad, c)    == {p \in squad : Team(p) = c}

(* Excluded players are left out; locked ones need clear no floor.         *)
Pool == {p \in Player \ req.excluded : p \in req.locks \/ p \in world.fit}

(* The stable sorts: by price and then score; by score; by score for the   *)
(* money.                                                                  *)
Stronger(p, q) == Score(p) > Score(q) \/ (Score(p) = Score(q) /\ p < q)

Cheaper(p, q) == Price(p) < Price(q) \/ (Price(p) = Price(q) /\ Stronger(p, q))

BetterValue(p, q) ==
  \/ Score(p) * Price(q) > Score(q) * Price(p)
  \/ Score(p) * Price(q) = Score(q) * Price(p) /\ p < q

Rank(p, among, Before(_, _)) == Cardinality({q \in among : Before(q, p)})

Foremost(n, among, Before(_, _)) == {p \in among : Rank(p, among, Before) < n}

InOrder(among, Before(_, _)) ==
  [n \in 1..Cardinality(among) |-> CHOOSE p \in among : Rank(p, among, Before) = n - 1]

WithinClubs(squad) == \A c \in Club : Cardinality(In(squad, c)) <= MaxPerClub

(* squadIsLegal, of any players.                                           *)
Legal(squad) ==
  squad \subseteq Player /\ Filled(squad) /\ WithinClubs(squad) /\ Cost(squad) <= req.budget

(* The best scorers of each position at each price.                        *)
Frontier(pool, pos, n) ==
  {p \in At(pool, pos) : Rank(p, {q \in At(pool, pos) : Price(q) = Price(p)}, Stronger) < n}

-----------------------------------------------------------------------------
(* The objective: the best eleven, and its bench.                          *)

Formation ==
  {f \in [Position -> 0..XISize] :
     Total(f) = XISize /\ \A pos \in Position : f[pos] \in XIMin[pos]..XIMax[pos]}

Forced(squad, pos) == Cardinality(At(req.starts \cap squad, pos))

(* A forced starter is called before anyone else of his position.          *)
Called(p, q) ==
  \/ p \in req.starts /\ q \notin req.starts
  \/ (p \in req.starts <=> q \in req.starts) /\ Stronger(p, q)

Fields(squad) ==
  {f \in Formation : \A pos \in Position : f[pos] \in Forced(squad, pos)..Cardinality(At(squad, pos))}

Eleven(squad, f) == UNION {Foremost(f[pos], At(squad, pos), Called) : pos \in Position}

(* The armband: the best scorer counts twice, the next for the chance that *)
(* the best does not play.                                                 *)
Armband(xi) ==
  LET captain == Foremost(1, xi, Stronger)
      vice    == Foremost(1, xi \ captain, Stronger)
  IN  Whole * Scored(captain) + ViceShare * Scored(vice)

XIValue(xi) == Whole * Scored(xi) + Armband(xi)

(* A formation of the most worth (of equals the code's first); without one *)
(* everyone is benched.                                                    *)
BestXI(squad) ==
  IF Fields(squad) = {} THEN {}
  ELSE Eleven(squad, CHOOSE f \in Fields(squad) : \A g \in Fields(squad) :
                       XIValue(Eleven(squad, g)) <= XIValue(Eleven(squad, f)))

Objective(squad) ==
  LET xi == BestXI(squad)
      bench == squad \ xi
  IN  XIValue(xi) + (IF req.boost THEN Whole * Scored(bench) ELSE BenchWorth(world, xi, bench))

(* checkLocksAndForcedStarts: the forced starters fit one formation.       *)
Larger(a, b) == IF a > b THEN a ELSE b

StartsFit ==
  /\ \A pos \in Position : Forced(req.starts, pos) <= XIMax[pos]
  /\ MapThenSumSet(LAMBDA pos : Larger(XIMin[pos], Forced(req.starts, pos)), Position \ {Keeper})
       <= XISize - 1

-----------------------------------------------------------------------------
(* fillBound: the least that completing a squad costs.  The candidate it   *)
(* is asked about is in the squad here.                                    *)

Free(squad, pos) == At(Pool \ squad, pos)

(* fillNeed.                                                               *)
Need(squad, pos) == Larger(0, Quota[pos] - Cardinality(At(squad, pos)))

Headroom(squad, c) == Larger(0, MaxPerClub - Cardinality(In(squad, c)))

(* tier1Position: each position has the headroom of every club to itself.  *)
Admitted(squad, pos) ==
  {p \in Free(squad, pos) :
     Rank(p, In(Free(squad, pos), Team(p)), Cheaper) < Headroom(squad, Team(p))}

Tier1(squad) ==
  IF \E pos \in Position : Cardinality(Admitted(squad, pos)) < Need(squad, pos) THEN Infeasible
  ELSE SumFunctionOnSet(
         [pos \in Position |-> Cost(Foremost(Need(squad, pos), Admitted(squad, pos), Cheaper))], Position)

(* cumulative: the k cheapest of a club at a position.                     *)
Cumulative(squad, pos, c, k) == Cost(Foremost(k, In(Free(squad, pos), c), Cheaper))

(* What each club may supply to a need, no more than it has or has room    *)
(* for.                                                                    *)
Supplies(squad, c) ==
  {a \in [Position -> 0..Headroom(squad, c)] :
     Total(a) <= Headroom(squad, c)
     /\ \A pos \in Position : a[pos] <= Cardinality(In(Free(squad, pos), c))}

(* What a club is paid for supplying so many to each position.             *)
Bill(squad, c, a) ==
  SumFunctionOnSet([pos \in Position |-> Cumulative(squad, pos, c, a[pos])], Position)

(* A club more: the least paid for each need that may still be left.       *)
Served(squad, c, dp) ==
  LET cells == {[need |-> [pos \in Position |-> x[1].need[pos] - x[2][pos]],
                 cost |-> x[1].cost + Bill(squad, c, x[2])] :
                  x \in {y \in dp \X Supplies(squad, c) :
                          \A pos \in Position : y[2][pos] <= y[1].need[pos]}}
  IN  {x \in cells : \A y \in cells : y.need = x.need => x.cost <= y.cost}

Unserved(squad) == {[need |-> [pos \in Position |-> Need(squad, pos)], cost |-> 0]}

(* Tier 2 is exact: taken club by club, a club's room is spent once.       *)
Tier2(squad) ==
  LET dp   == FoldSet(LAMBDA c, cells : Served(squad, c, cells), Unserved(squad), Club)
      done == {x \in dp : Total(x.need) = 0}
  IN  IF done = {} THEN Infeasible ELSE (CHOOSE x \in done : TRUE).cost

(* A faulty variant: the lower bound is taken for the price.               *)
BoundOnly(squad) == Tier1(squad)

Exact(squad) == IF Tier1(squad) >= Infeasible THEN Tier1(squad) ELSE Tier2(squad)

FillCost(squad, remaining) ==
  IF Tier1(squad) > remaining THEN Tier1(squad) ELSE Tier2(squad)

-----------------------------------------------------------------------------
(* dpSeeds.                                                                *)

SeedPool(pos) == Frontier(Pool \ req.locks, pos, PerPrice)

Spendable == req.budget - Cost(req.locks)

(* The best set for each number of players and each cost; which of equals  *)
(* is not said here.                                                       *)
Kept(points) ==
  {CHOOSE x \in {y \in points : y.n = z.n /\ y.cost = z.cost} :
     \A y \in points : y.n = z.n /\ y.cost = z.cost => y.score <= x.score : z \in points}

NoPicks == [n |-> 0, cost |-> 0, score |-> 0, picks |-> {}]

Joined(x, y) == [n |-> x.n + y.n, cost |-> x.cost + y.cost, score |-> x.score + y.score,
                 picks |-> x.picks \cup y.picks]

Affordable(points) == {x \in points : x.cost <= Spendable}

(* A player is offered to every set so far that has room for him.          *)
Offer(pos, points, p) ==
  Kept(points \cup Affordable({Joined(x, [n |-> 1, cost |-> Price(p), score |-> Score(p), picks |-> {p}]) :
                                 x \in {y \in points : y.n < Quota[pos] - Cardinality(At(req.locks, pos))}}))

Queue(pos) == InOrder(SeedPool(pos), Cheaper)

(* positionCurve: players are offered one by one.                          *)
PositionCurve(pos) == FoldLeft(LAMBDA points, p : Offer(pos, points, p), {NoPicks}, Queue(pos))

(* combine: the best split of each cost between two curves.                *)
Combine(a, b) == Kept(Affordable({Joined(x[1], x[2]) : x \in a \X b}))

(* Locked players start first, and the rest of the quota is the bench.     *)
Starters(f, pos) == f[pos] - Cardinality(At(req.locks, pos))

BenchNeed(f, pos) == Quota[pos] - f[pos]

Bench(f, xi) == UNION {Foremost(BenchNeed(f, pos), SeedPool(pos) \ xi, Cheaper) : pos \in Position}

(* What is left for the eleven once the cheapest bench is reserved.        *)
XIBudget(f) == Spendable - Cost(Bench(f, {}))

(* One position more: as many of its players as the formation starts.      *)
Take(f, so, pos) == Combine(so, {x \in PositionCurve(pos) : x.n = Starters(f, pos)})

(* The picks of a formation: the best of the combined curves for the money.*)
Picks(f) ==
  LET elevens == FoldLeft(LAMBDA so, pos : Take(f, so, pos), {NoPicks}, PosNames)
      within  == {x \in elevens : x.cost <= XIBudget(f)}
  IN  IF within = {} THEN {} ELSE (CHOOSE x \in within : \A y \in within : y.score <= x.score).picks

Seatable(f) ==
  /\ Spendable >= 0 /\ XIBudget(f) > 0
  /\ \A pos \in Position :
       /\ Starters(f, pos) >= 0
       /\ Cardinality(SeedPool(pos)) >= Quota[pos] - Cardinality(At(req.locks, pos))

(* The fifteen of a formation: locks, picks, and the cheapest of the rest. *)
Seed(f) == req.locks \cup Picks(f) \cup Bench(f, Picks(f))

Seeds == {s \in {Seed(f) : f \in {g \in Formation : Seatable(g)}} :
            Cost(s) <= req.budget /\ Cardinality(s) = SquadSize}
=============================================================================

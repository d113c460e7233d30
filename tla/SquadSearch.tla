---------------------------- MODULE SquadSearch -----------------------------
(***************************************************************************)
(* Engine.Optimize (internal/analysis): build the best legal fifteen, or   *)
(* revise an owned one by at most so many players.  A request is refused   *)
(* or filled greedily, and the filled or the owned squad is polished by    *)
(* three kinds of move, each applied until it gains nothing: single swaps, *)
(* pairs that fund an upgrade from one sale, and upgrades funded from      *)
(* several.  A new squad is then polished again from the best seed, and    *)
(* the better one is the answer.                                           *)
(*                                                                         *)
(* The pairs are scanned by several workers at once; what they find is     *)
(* replayed in order.  Prices, scores and the request stand still.  Not    *)
(* here: the template lock, price overrides and the tie-breaking nudges,   *)
(* which change the market before the search reads it.                     *)
(***************************************************************************)
EXTENDS SquadRules

CONSTANTS Worker,              \* GOMAXPROCS goroutines
          CheapN, StrongN,     \* candidates of a pair's two halves: 14 and 30
          FundN,               \* positionFrontier's per price: 2
          FundingSlack, FundingCandidates, \* 25 and 6
          BenchWeight,         \* what a point on the bench is taken for in funding
          Rounds               \* how often each kind of move is tried: 200, 60, 30

Kinds == {"singles", "pairs", "funded"}

ASSUME SearchConstants ==
  /\ Worker # {} /\ {CheapN, StrongN, FundN, FundingSlack, FundingCandidates, BenchWeight} \subseteq Nat
  /\ Rounds \in [Kinds -> Nat]

VARIABLES stage,  \* asked, fill, polish, scan, done or refused
          squad, spend, clubs, spent, best, \* polish's own running figures
          moves,  \* the kinds of move still to run, the first of them running
          round,  \* moves of that kind made
          scan,   \* the paired scan: chunks left, what each worker holds, what was found
          first   \* the squad polished from the greedy fill, while a seed is polished

vars == <<world, req, stage, squad, spend, clubs, spent, best, moves, round, scan, first>>

NoScan == [left |-> {}, held |-> [w \in Worker |-> {}], found |-> {}]
NoFirst == [squad |-> {}, best |-> 0, spend |-> 0]

Counts(players) == [c \in Club |-> Cardinality(In(players, c))]

Init ==
  /\ world \in World /\ req \in Request /\ stage = "asked"
  /\ squad = {} /\ spend = 0 /\ clubs = Counts({}) /\ spent = 0 /\ best = 0
  /\ moves = <<>> /\ round = 0 /\ scan = NoScan /\ first = NoFirst

-----------------------------------------------------------------------------
(* The request, and the greedy fill.                                       *)

LocksFit ==
  /\ \A pos \in Position : Cardinality(At(req.locks, pos)) <= Quota[pos]
  /\ WithinClubs(req.locks) /\ Cost(req.locks) <= req.budget

Answerable == StartsFit /\ LocksFit /\ Exact(req.locks) <= req.budget - Cost(req.locks)

Refuse ==
  /\ stage = "asked" /\ ~Answerable
  /\ stage' = "refused"
  /\ UNCHANGED <<world, req, squad, spend, clubs, spent, best, moves, round, scan, first>>

TakeLocks ==
  /\ stage = "asked" /\ Answerable
  /\ stage' = "fill" /\ squad' = req.locks /\ spend' = Cost(req.locks) /\ clubs' = Counts(req.locks)
  /\ UNCHANGED <<world, req, spent, best, moves, round, scan, first>>

(* Room for him, and for the cheapest legal rest after him.                *)
Addable ==
  {p \in Pool \ squad :
     LET left == req.budget - spend - Price(p) IN
     /\ Cardinality(At(squad, PosOf[p])) < Quota[PosOf[p]] /\ clubs[Team(p)] < MaxPerClub
     /\ FillCost(squad \cup {p}, left) <= left}

(* The best value that may be added; with none the request fails after all.*)
(* The quotas add up to SquadSize: the squad has fewer until it is Filled. *)
Fill ==
  /\ stage = "fill" /\ ~Filled(squad)
  /\ IF Addable = {}
     THEN stage' = "refused" /\ UNCHANGED <<squad, spend, clubs>>
     ELSE \E p \in Foremost(1, Addable, BetterValue) :
            /\ squad' = squad \cup {p} /\ spend' = spend + Price(p)
            /\ clubs' = [clubs EXCEPT ![Team(p)] = @ + 1]
            /\ UNCHANGED stage
  /\ UNCHANGED <<world, req, spent, best, moves, round, scan, first>>

(* changeBudget.  No limit is a limit of zero.                             *)
Unlimited == req.owned = {} \/ req.max = 0

Distance(players) == IF req.owned = {} THEN 0 ELSE Cardinality(players \ req.owned)

(* A faulty variant: the sign is the other way round.                      *)
Nearer(out, in) ==
  IF Unlimited THEN 0
  ELSE IF out \in req.owned /\ in \notin req.owned THEN -1
  ELSE IF out \notin req.owned /\ in \in req.owned THEN 1 ELSE 0

(* How far one swap moves the squad from the owned one.                    *)
Delta(out, in) ==
  IF Unlimited THEN 0
  ELSE IF out \in req.owned /\ in \notin req.owned THEN 1
  ELSE IF out \notin req.owned /\ in \in req.owned THEN -1 ELSE 0

(* Under a limit the dear moves choose first.                              *)
Order == IF Unlimited THEN <<"singles", "pairs", "funded">> ELSE <<"funded", "pairs", "singles">>

Polish(players) ==
  /\ stage' = "polish" /\ squad' = players /\ spend' = Cost(players) /\ clubs' = Counts(players)
  /\ spent' = Distance(players) /\ best' = Objective(players)
  /\ moves' = Order /\ round' = 0

(* boundedRevisionSeed: only the owned fifteen will do, with every lock.   *)
Revisable == Cardinality(req.owned) = SquadSize /\ req.locks \subseteq req.owned

RefuseRevision ==
  /\ stage = "fill" /\ Filled(squad) /\ ~Unlimited /\ ~Revisable
  /\ stage' = "refused"
  /\ UNCHANGED <<world, req, squad, spend, clubs, spent, best, moves, round, scan, first>>

PolishFilled ==
  /\ stage = "fill" /\ Filled(squad) /\ Unlimited
  /\ Polish(squad)
  /\ UNCHANGED <<world, req, scan, first>>

PolishOwned ==
  /\ stage = "fill" /\ Filled(squad) /\ ~Unlimited /\ Revisable
  /\ Polish(req.owned)
  /\ UNCHANGED <<world, req, scan, first>>

-----------------------------------------------------------------------------
(* polish.                                                                 *)

Running(kind) == stage = "polish" /\ moves # <<>> /\ Head(moves) = kind

(* This kind of move has nothing left to gain, or has had its rounds.      *)
NextKind ==
  /\ stage' = "polish" /\ moves' = Tail(moves) /\ round' = 0
  /\ UNCHANGED <<squad, spend, clubs, spent, best>>

Swapped(players, out, in) == (players \ {out}) \cup {in}

SpendAfter(out, in) == spend - Price(out) + Price(in)

(* clubCountAfter.                                                         *)
ClubAfter(out, in) == IF Team(out) = Team(in) THEN clubs[Team(in)] ELSE clubs[Team(in)] + 1

WithinLimit(d) == Unlimited \/ spent + d <= req.max

(* A faulty variant: the best so far starts from nothing.                  *)
FromNothing(scored) == {m \in scored : \A n \in scored : n.score <= m.score + Eps}

(* The moves that gain the most: with Eps between them the scan's order,   *)
(* which is not kept here, decides.                                        *)
Uphill(scored) ==
  {m \in scored : m.score > best + Eps /\ \A n \in scored : n.score <= m.score + Eps}

Singles ==
  {[out |-> m[1], in |-> m[2], score |-> Objective(Swapped(squad, m[1], m[2]))] :
     m \in {x \in (squad \ req.locks) \X (Pool \ squad) :
       /\ PosOf[x[1]] = PosOf[x[2]]
       /\ SpendAfter(x[1], x[2]) <= req.budget
       /\ ClubAfter(x[1], x[2]) <= MaxPerClub
       /\ WithinLimit(Delta(x[1], x[2]))}}

(* A faulty variant: the club that sells keeps its count.                  *)
Arrived(counts, out, in) == [counts EXCEPT ![Team(in)] = @ + 1]

Moved(counts, out, in) ==
  [c \in Club |-> counts[c] - (IF c = Team(out) THEN 1 ELSE 0) + (IF c = Team(in) THEN 1 ELSE 0)]

ApplySingle(m) ==
  /\ squad' = Swapped(squad, m.out, m.in) /\ spend' = SpendAfter(m.out, m.in)
  /\ clubs' = Moved(clubs, m.out, m.in)
  /\ spent' = spent + Delta(m.out, m.in) /\ best' = m.score
  /\ round' = round + 1
  /\ UNCHANGED <<stage, moves>>

RunSingles ==
  /\ Running("singles")
  /\ LET up == IF round < Rounds["singles"] THEN Uphill(Singles) ELSE {} IN
     IF up = {} THEN NextKind ELSE \E m \in up : ApplySingle(m)
  /\ UNCHANGED <<world, req, scan, first>>

-----------------------------------------------------------------------------
(* runPairs: a sale that frees money, and an upgrade bought with it.  The  *)
(* work is cut into chunks, one for each sale and replacement.             *)

Cheapest(pos)  == Foremost(CheapN, At(Pool, pos), Cheaper)
Strongest(pos) == Foremost(StrongN, At(Pool, pos), Stronger)

ChunkBefore(a, b) == a[1] < b[1] \/ (a[1] = b[1] /\ Cheaper(a[2], b[2]))

(* chunkList.                                                              *)
Chunks == {x \in (squad \ req.locks) \X Pool : x[2] \in Cheapest(PosOf[x[1]])}

(* A faulty variant: each half is allowed by itself.                       *)
EachHalfAlone(o, i, uo, ui) == ClubAfter(o, i) <= MaxPerClub /\ ClubAfter(uo, ui) <= MaxPerClub

(* clubsLegalAfterPair: the clubs that either half touches, after both.    *)
ClubsAfterPair(o, i, uo, ui) ==
  \A c \in {Team(o), Team(i), Team(uo), Team(ui)} :
    Moved(Moved(clubs, o, i), uo, ui)[c] <= MaxPerClub

UpBefore(a, b) == a.upOut < b.upOut \/ (a.upOut = b.upOut /\ Stronger(a.upIn, b.upIn))

AfterPair(o, i, uo, ui) == Swapped(Swapped(squad, o, i), uo, ui)

(* What one chunk may be paired with.                                      *)
Paired(o, i) ==
  IF i \in squad \/ Price(o) <= Price(i) \/ ClubAfter(o, i) > MaxPerClub THEN {}
  ELSE {[out |-> o, in |-> i, upOut |-> m[1], upIn |-> m[2],
         score |-> Objective(AfterPair(o, i, m[1], m[2]))] :
          m \in {x \in (squad \ (req.locks \cup {o})) \X (Pool \ (squad \cup {i})) :
            /\ x[2] \in Strongest(PosOf[x[1]])
            /\ SpendAfter(o, i) - Price(x[1]) + Price(x[2]) <= req.budget
            /\ ClubsAfterPair(o, i, x[1], x[2])
            /\ WithinLimit(Delta(o, i) + Delta(x[1], x[2]))}}

(* scan: those that beat the score the scan began with.                    *)
Scanned(ch) == {m \in Paired(ch[1], ch[2]) : m.score > best + Eps}

(* Without a chunk there is nothing to scan.                               *)
BeginScan ==
  /\ Running("pairs")
  /\ IF Chunks = {} \/ round >= Rounds["pairs"]
     THEN NextKind /\ UNCHANGED scan
     ELSE /\ stage' = "scan" /\ scan' = [NoScan EXCEPT !.left = Chunks]
          /\ UNCHANGED <<squad, spend, clubs, spent, best, moves, round>>
  /\ UNCHANGED <<world, req, first>>

(* A worker claims the next chunk off the shared counter...                *)
Claim(w) ==
  /\ stage = "scan" /\ scan.held[w] = {}
  /\ \E ch \in Foremost(1, scan.left, ChunkBefore) :
       scan' = [scan EXCEPT !.left = @ \ {ch}, !.held[w] = {ch}]
  /\ UNCHANGED <<world, req, stage, squad, spend, clubs, spent, best, moves, round, first>>

(* ...and files what it finds under that chunk, which each find names.     *)
File(w) ==
  /\ stage = "scan"
  /\ \E ch \in scan.held[w] : scan' = [scan EXCEPT !.held[w] = {}, !.found = @ \cup Scanned(ch)]
  /\ UNCHANGED <<world, req, stage, squad, spend, clubs, spent, best, moves, round, first>>

(* The serial scan's own test, against a best that rises.                  *)
Accept(so, cand) == IF cand.score > so.score + Eps THEN cand ELSE so

Entry == [score |-> best]

(* The serial scan's order: by chunk, and by the upgrade in it.            *)
ScanBefore(a, b) ==
  \/ ChunkBefore(<<a.out, a.in>>, <<b.out, b.in>>)
  \/ a.out = b.out /\ a.in = b.in /\ UpBefore(a, b)

InScanOrder(pairs) == InOrder(pairs, ScanBefore)

(* A faulty variant: the highest score wins.                               *)
Highest(found) ==
  FoldLeft(LAMBDA so, cand : IF cand.score > so.score THEN cand ELSE so, Entry, InScanOrder(found))

(* reduce: what was found is replayed in the scan's order.                 *)
Replay(found) == FoldLeft(Accept, Entry, InScanOrder(found))

ApplyPair(m) ==
  /\ squad' = AfterPair(m.out, m.in, m.upOut, m.upIn)
  /\ spend' = SpendAfter(m.out, m.in) - Price(m.upOut) + Price(m.upIn)
  /\ clubs' = Moved(Moved(clubs, m.out, m.in), m.upOut, m.upIn)
  /\ spent' = spent + Delta(m.out, m.in) + Delta(m.upOut, m.upIn)
  /\ best' = m.score /\ stage' = "polish" /\ round' = round + 1
  /\ UNCHANGED moves

Scanning == scan.left # {} \/ \E w \in Worker : scan.held[w] # {}

(* Once every worker is back, the winner of the replay is applied.         *)
Reduce ==
  /\ stage = "scan" /\ ~Scanning
  /\ \/ Replay(scan.found) = Entry /\ NextKind
     \/ \E m \in scan.found : Replay(scan.found) = m /\ ApplyPair(m)
  /\ scan' = NoScan
  /\ UNCHANGED <<world, req, first>>

-----------------------------------------------------------------------------
(* fundedUpgrade: sales of several players fund one upgrade.               *)

(* What a sale does to the score, a starter's counting in full.            *)
ProxyGain(xi, m) == (Score(m[2]) - Score(m[1])) * (IF m[1] \in xi THEN Whole ELSE BenchWeight)

Frees(m) == Price(m[1]) - Price(m[2])

(* One replacement for each player and each sum it frees: the strongest.   *)
Downgrades(uo, ui, short) ==
  LET may == {m \in (squad \ (req.locks \cup {uo})) \X (Pool \ (squad \cup {ui})) :
                /\ m[2] \in Frontier(Pool, PosOf[m[1]], FundN)
                /\ Frees(m) \in 1..(short + FundingSlack)
                /\ ClubAfter(m[1], m[2]) <= MaxPerClub}
  IN  {m \in may : \A n \in may :
         n[1] = m[1] /\ Price(n[2]) = Price(m[2]) => n[2] = m[2] \/ Stronger(m[2], n[2])}

(* fundingCombos: player by player, the best gain for each sum freed, the  *)
(* last sum standing for all above it.  Of equal gains the first reached   *)
(* stays: the player's own place left alone, then the smaller sums.        *)
Layer(dp, sales, xi, cap) ==
  LET cells == {[x EXCEPT !.from = -1] : x \in dp} \cup
               {[freed |-> Min({x[1].freed + Frees(x[2]), cap}), gain |-> x[1].gain + ProxyGain(xi, x[2]),
                 sales |-> x[1].sales \cup {x[2]}, from |-> x[1].freed, last |-> Frees(x[2])] : x \in dp \X sales}
      Leads(x, y) == \/ x.gain > y.gain
                     \/ x.gain = y.gain /\ x.from < y.from
                     \/ x.gain = y.gain /\ x.from = y.from /\ x.last <= y.last
  IN  {CHOOSE x \in {y \in cells : y.freed = z.freed} :
         \A y \in cells : y.freed = z.freed => Leads(x, y) : z \in cells}

(* Of equal gains the code's sort leaves the order open; here the one that *)
(* frees less is first.                                                    *)
GainsMore(x, y) == x.gain > y.gain \/ (x.gain = y.gain /\ x.freed < y.freed)

(* The best few sums.  A player bought into two places is struck out only  *)
(* now.                                                                    *)
Combos(uo, ui, short) ==
  LET sales == Downgrades(uo, ui, short)
      xi    == BestXI(squad)
      start == {[freed |-> 0, gain |-> 0, sales |-> {}, from |-> -1, last |-> 0]}
      dp    == FoldLeft(LAMBDA t, o : Layer(t, {m \in sales : m[1] = o}, xi, short + FundingSlack),
                        start, InOrder(squad, <))
      tried == Foremost(FundingCandidates, {x \in dp : x.freed >= short}, GainsMore)
  IN  {s \in {x.sales : x \in tried} : \A m, n \in s : m[2] = n[2] => m = n}

(* The squads so reached: legal, with their locks, within the limit.       *)
FundedSquads ==
  UNION {LET short == SpendAfter(u[1], u[2]) - req.budget IN
         {(squad \ ({u[1]} \cup {m[1] : m \in s})) \cup ({u[2]} \cup {m[2] : m \in s}) :
            s \in IF short > 0 THEN Combos(u[1], u[2], short) ELSE {}} :
         u \in {m \in (squad \ req.locks) \X (Pool \ squad) :
                  /\ m[2] \in Frontier(Pool, PosOf[m[1]], FundN)
                  /\ Score(m[2]) > Score(m[1]) /\ ClubAfter(m[1], m[2]) <= MaxPerClub}}

Funded ==
  {[squad |-> s, score |-> Objective(s)] :
     s \in {t \in FundedSquads : Legal(t) /\ req.locks \subseteq t
                                 /\ (Unlimited \/ Distance(t) <= req.max)}}

RunFunded ==
  /\ Running("funded")
  /\ LET up == IF round < Rounds["funded"] THEN Uphill(Funded) ELSE {} IN
     IF up = {} THEN NextKind
     ELSE \E m \in up :
            /\ squad' = m.squad /\ spend' = Cost(m.squad) /\ clubs' = Counts(m.squad)
            /\ spent' = Distance(m.squad) /\ best' = m.score /\ round' = round + 1
            /\ UNCHANGED <<stage, moves>>
  /\ UNCHANGED <<world, req, scan, first>>

-----------------------------------------------------------------------------
(* The seeds, and the answer.                                              *)

Over(players) == {c \in Club : Cardinality(In(players, c)) > MaxPerClub}

Weaker(p, q) == Score(p) < Score(q) \/ (Score(p) = Score(q) /\ p < q)

(* One round of repairClubs: the weakest of the first club over its limit  *)
(* makes way for the strongest that fits.  Players are taken in the order  *)
(* of their ids for that of the seed.                                      *)
Repair(players) ==
  IF Over(players) = {} THEN players
  ELSE LET club == Min(Over(players))
           gone == CHOOSE p \in In(players, club) : \A q \in In(players, club) : p = q \/ Weaker(p, q)
           fits == {p \in At(Pool, PosOf[gone]) \ players :
                      /\ Team(p) = club \/ Cardinality(In(players, Team(p))) < MaxPerClub
                      /\ Cost(players) - Price(gone) + Price(p) <= req.budget}
       IN  IF fits = {} THEN {} ELSE (players \ {gone}) \cup Foremost(1, fits, Stronger)

Repaired(seed) == FoldLeft(LAMBDA s, n : Repair(s), seed, [n \in 1..(SquadSize - 1) |-> n])

(* Each seed as repaired, if it came out legal and kept the locks.         *)
Starts == {s \in {Repaired(seed) : seed \in Seeds} : Legal(s) /\ req.locks \subseteq s /\ Objective(s) > 0}

Polished == stage = "polish" /\ moves = <<>>

PolishSeed ==
  /\ Polished /\ Unlimited /\ first = NoFirst
  /\ \E s \in Starts :
       /\ \A t \in Starts : Objective(t) <= Objective(s)
       /\ Polish(s)
  /\ first' = [squad |-> squad, best |-> best, spend |-> spend]
  /\ UNCHANGED <<world, req, scan>>

(* The polished seed has to gain something, and to be legal.               *)
SeedWins == best > first.best + Eps /\ Legal(squad) /\ req.locks \subseteq squad

Answer ==
  /\ Polished /\ (first = NoFirst => ~Unlimited \/ Starts = {})
  /\ stage' = "done"
  /\ IF first = NoFirst \/ SeedWins THEN UNCHANGED <<squad, best, spend, clubs>>
     ELSE /\ squad' = first.squad /\ best' = first.best /\ spend' = first.spend
          /\ clubs' = Counts(first.squad)
  /\ first' = NoFirst
  /\ UNCHANGED <<world, req, spent, moves, round, scan>>

Finished == stage \in {"done", "refused"} /\ UNCHANGED vars

Next ==
  \/ Refuse \/ TakeLocks \/ Fill \/ RefuseRevision \/ PolishFilled \/ PolishOwned
  \/ RunSingles \/ BeginScan \/ (\E w \in Worker : Claim(w) \/ File(w)) \/ Reduce \/ RunFunded
  \/ PolishSeed \/ Answer \/ Finished

Spec == Init /\ [][Next]_vars

-----------------------------------------------------------------------------
(* The search keeps to what its variables may hold: no club is counted     *)
(* below none, what a revision has spent of its limit stays a number of    *)
(* players, and a chunk is left, held or done with.  What spend and best   *)
(* hold, BooksAreRight says.                                               *)
TypeOK ==
  /\ world \in World /\ req \in Request
  /\ stage \in {"asked", "fill", "polish", "scan", "done", "refused"}
  /\ squad \subseteq Player /\ first.squad \subseteq Player
  /\ clubs \in [Club -> Nat] /\ spent \in Nat /\ round \in Nat /\ moves \in Seq(Kinds)
  /\ scan.left \subseteq Player \X Player
  /\ scan.held \in [Worker -> SUBSET (Player \X Player)]
  /\ \A w \in Worker : scan.held[w] \cap scan.left = {}

(* What fillBound and dpSeeds claim to solve, by looking at every set of   *)
(* players.                                                                *)
Completions(players) ==
  {s \in {players \cup t : t \in kSubset(SquadSize - Cardinality(players), Pool \ players)} :
     Filled(s) /\ WithinClubs(s)}

CheapestCompletion(players) ==
  Min({Cost(s \ players) : s \in Completions(players)} \cup {Infeasible})

(* A seed looks at no more than PerPrice of a position at any one price.   *)
Rivals(players, p) == {q \in At(players, PosOf[p]) : Price(q) = Price(p)}

ElevenPicks(f) ==
  {s \in kSubset(XISize - Cardinality(req.locks), Pool \ req.locks) :
     /\ \A pos \in Position : Cardinality(At(s, pos)) = Starters(f, pos)
     /\ \A p \in s : Cardinality(Rivals(s, p)) <= PerPrice
     /\ Cost(s) <= XIBudget(f)}

(* The bound the greedy fill trusts is the price of the cheapest legal     *)
(* completion, neither more nor less: a request is refused only when no    *)
(* squad answers it, and the fill never strands (fillBound).  The eleven a *)
(* seed starts from is the best of its formation for its money, of all     *)
(* that take no more than PerPrice of a position at one price (dpSeeds).   *)
SolvesExactly ==
  /\ stage \in {"asked", "fill"} /\ LocksFit =>
       Exact(IF stage = "asked" THEN req.locks ELSE squad)
         = CheapestCompletion(IF stage = "asked" THEN req.locks ELSE squad)
  /\ stage = "refused" /\ StartsFit /\ LocksFit /\ (Unlimited \/ Revisable) =>
       \A s \in Completions(req.locks) : Cost(s) > req.budget
  /\ Polished /\ Unlimited /\ first = NoFirst =>
       \A f \in {g \in Formation : Seatable(g)} :
         \A s \in ElevenPicks(f) : Scored(s) <= Scored(Picks(f))

(* The serial search tries every pair, in order.                           *)
AllPairs == UNION {Paired(ch[1], ch[2]) : ch \in Chunks}

SerialScan == FoldLeft(Accept, Entry, InScanOrder(AllPairs))

(* Whatever the workers' order, the move made is the one the serial scan   *)
(* makes: its test is against a best that moves, so neither the highest    *)
(* score nor the first found will do, and what a worker leaves out is what *)
(* that test would have refused (pairScan.reduce).                         *)
ReplayIsTheScan == stage = "scan" /\ ~Scanning => Replay(scan.found) = SerialScan

(* From the first polish to the answer a squad fills its quotas, holds its *)
(* locks, keeps to the club limit but for what an owned squad was over it  *)
(* from the start, and is no further from the owned one than was allowed.  *)
ObeysTheRequest ==
  stage \in {"polish", "scan", "done"} =>
    /\ Filled(squad) /\ req.locks \subseteq squad
    /\ \A c \in Club : Cardinality(In(squad, c)) > MaxPerClub =>
         ~Unlimited /\ Cardinality(In(squad, c)) <= Cardinality(In(req.owned, c))
    /\ ~Unlimited => Cardinality(squad \ req.owned) <= req.max

(* The figures that moves carry forward are those of the squad itself, so  *)
(* the answer costs and scores what it says, and it is within the budget   *)
(* unless it is the owned squad and that was not.                          *)
BooksAreRight ==
  stage \in {"polish", "scan", "done"} =>
    /\ spend = Cost(squad) /\ best = Objective(squad) /\ clubs = Counts(squad)
    /\ ~Unlimited => spent = Distance(squad)
    /\ spend <= req.budget \/ squad = req.owned

(* The answer is never worse than a seed, nor than the squad it revises    *)
(* (TestOptimizerIsNeverWorseThanAnExactSeed).                             *)
NeverWorseThanItsStart ==
  stage = "done" =>
    IF Unlimited THEN \A s \in Starts : Objective(s) <= best + Eps ELSE Objective(req.owned) <= best
=============================================================================

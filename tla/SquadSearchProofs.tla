------------------------- MODULE SquadSearchProofs --------------------------
(***************************************************************************)
(* Whatever the market, the request, the sizes of the search and the       *)
(* number of workers, a squad that is polished or answered obeys its       *)
(* request.  Each kind of move checks a few clubs and keeps a few counts;  *)
(* the lemmas say what a swap does to any count of a squad's players, and  *)
(* the invariant that the counts are the squad's own.                      *)
(*                                                                         *)
(* The same of its books: prices are sums over players (Sums), so a swap   *)
(* moves them by its two ends, and no move is made that loses.             *)
(*                                                                         *)
(* Then, the workers: none of them loses a chunk, and a replay of what     *)
(* they found is the serial scan, by induction on the last pair in line.   *)
(* And the exact sub-problems: what fillBound says is the price of the     *)
(* cheapest completion, club by club, so the fill never strands; and the   *)
(* curves of dpSeeds lose no better eleven.                                *)
(***************************************************************************)
EXTENDS SquadSearch, Sums

(* What a player counts for in a set.                                      *)
One(p, X) == IF p \in X THEN 1 ELSE 0

(* A swap moves the count of any set of players by its two ends.           *)
LEMMA SwapCount ==
  ASSUME NEW S, IsFiniteSet(S), NEW X, NEW o \in S, NEW i, i \notin S
  PROVE  /\ IsFiniteSet(Swapped(S, o, i))
         /\ Cardinality(Swapped(S, o, i) \cap X)
              = Cardinality(S \cap X) - One(o, X) + One(i, X)
<1> DEFINE A == S \cap X
           B == A \ {o}
<1>1. IsFiniteSet(A) /\ Cardinality(A) \in Nat
  BY FS_Intersection, FS_CardinalityType
<1>2. IsFiniteSet(B) /\ Cardinality(B) = Cardinality(A) - One(o, X)
  <2>1. IsFiniteSet(B) /\ Cardinality(B) = IF o \in A THEN Cardinality(A) - 1 ELSE Cardinality(A)
    BY <1>1, FS_RemoveElement
  <2>2. o \in A <=> o \in X
    OBVIOUS
  <2>. QED
    BY <1>1, <2>1, <2>2 DEF One
<1>3. Cardinality(B \cup {i}) = Cardinality(B) + 1
  <2>1. i \notin B
    OBVIOUS
  <2>. QED
    BY <1>2, <2>1, FS_AddElement
<1>4. Cardinality(Swapped(S, o, i) \cap X) = Cardinality(B) + One(i, X)
  <2>1. CASE i \in X
    <3>1. Swapped(S, o, i) \cap X = B \cup {i}
      BY <2>1 DEF Swapped
    <3>2. Cardinality(Swapped(S, o, i) \cap X) = Cardinality(B \cup {i})
      BY <3>1
    <3>. QED
      BY <2>1, <3>2, <1>3 DEF One
  <2>2. CASE i \notin X
    <3>1. Swapped(S, o, i) \cap X = B
      BY <2>2 DEF Swapped
    <3>2. Cardinality(B) \in Nat
      BY <1>2, FS_CardinalityType
    <3>3. Cardinality(Swapped(S, o, i) \cap X) = Cardinality(B)
      BY <3>1
    <3>. QED
      BY <2>2, <3>2, <3>3 DEF One
  <2>. QED
    BY <2>1, <2>2
<1>5. IsFiniteSet(Swapped(S, o, i))
  BY FS_RemoveElement, FS_AddElement DEF Swapped
<1>. QED
  BY <1>2, <1>4, <1>5

-----------------------------------------------------------------------------
(* What holds of the players throughout: a squad is finite, its clubs and  *)
(* positions are those of the constants.                                   *)
Players == world \in Worlds /\ req \in Requests

LEMMA Constants ==
  ASSUME world \in World, req \in Request
  PROVE  Players
BY SquadConstants DEF Players

LEMMA Teams ==
  ASSUME Players, NEW p \in Player
  PROVE  Team(p) \in Club /\ PosOf[p] \in Position
BY SquadConstants DEF Players, Worlds, Team

LEMMA OwnedPlayers ==
  ASSUME Players
  PROVE  /\ req.owned \subseteq Player /\ req.locks \subseteq Player /\ req.max \in Nat
         /\ Cardinality(req.owned) = SquadSize => Filled(req.owned)
BY DEF Players, Requests

LEMMA SquadIsFinite ==
  ASSUME NEW S, S \subseteq Player
  PROVE  /\ IsFiniteSet(S)
         /\ \A X : IsFiniteSet(S \cap X) /\ Cardinality(S \cap X) \in Nat
BY SquadConstants, FS_Subset, FS_Intersection, FS_CardinalityType

(* Counts by position, by club and against the owned squad are counts of   *)
(* sets of players.                                                        *)
OfPosition(pos) == {p \in Player : PosOf[p] = pos}
OfClub(c) == {p \in Player : Team(p) = c}

LEMMA CountsOfSets ==
  ASSUME NEW S, S \subseteq Player
  PROVE  /\ \A pos : At(S, pos) = S \cap OfPosition(pos)
         /\ \A c : In(S, c) = S \cap OfClub(c)
         /\ S \ req.owned = S \cap (Player \ req.owned)
BY DEF At, In, OfPosition, OfClub

LEMMA CountType ==
  ASSUME NEW S, S \subseteq Player
  PROVE  /\ \A pos : Cardinality(At(S, pos)) \in Nat
         /\ \A c : Cardinality(In(S, c)) \in Nat
         /\ Cardinality(S \ req.owned) \in Nat
         /\ Counts(S) \in [Club -> Nat]
<1>1. \A pos : Cardinality(At(S, pos)) \in Nat
  BY CountsOfSets, SquadIsFinite
<1>2. \A c : Cardinality(In(S, c)) \in Nat
  BY CountsOfSets, SquadIsFinite
<1>3. Cardinality(S \ req.owned) \in Nat
  BY CountsOfSets, SquadIsFinite
<1>. QED
  BY <1>1, <1>2, <1>3 DEF Counts

(* A swap within a position leaves every quota as it was.                  *)
LEMMA SwapKeepsQuotas ==
  ASSUME NEW S, S \subseteq Player, Filled(S),
         NEW o \in S, NEW i \in Player, i \notin S, PosOf[i] = PosOf[o]
  PROVE  Filled(Swapped(S, o, i))
<1>1. ASSUME NEW pos \in Position
      PROVE  Cardinality(At(Swapped(S, o, i), pos)) = Cardinality(At(S, pos))
  <2>1. Swapped(S, o, i) \subseteq Player
    BY DEF Swapped
  <2>2. o \in OfPosition(pos) <=> i \in OfPosition(pos)
    BY DEF OfPosition
  <2>3. Cardinality(Swapped(S, o, i) \cap OfPosition(pos))
          = Cardinality(S \cap OfPosition(pos)) - One(o, OfPosition(pos)) + One(i, OfPosition(pos))
    BY SwapCount, SquadIsFinite
  <2>4. Cardinality(S \cap OfPosition(pos)) \in Nat
    BY SquadIsFinite
  <2>5. /\ Cardinality(At(S, pos)) = Cardinality(S \cap OfPosition(pos))
        /\ Cardinality(At(Swapped(S, o, i), pos)) = Cardinality(Swapped(S, o, i) \cap OfPosition(pos))
    BY <2>1, CountsOfSets
  <2>. QED
    BY <2>2, <2>3, <2>4, <2>5 DEF One
<1>. QED
  BY <1>1 DEF Filled

(* The clubs that polish counts along are those of the squad it swaps to.  *)
LEMMA SwapCountsClubs ==
  ASSUME Players, NEW S, S \subseteq Player, NEW o \in S, NEW i \in Player, i \notin S
  PROVE  Moved(Counts(S), o, i) = Counts(Swapped(S, o, i))
<1>1. ASSUME NEW c \in Club
      PROVE  Moved(Counts(S), o, i)[c] = Counts(Swapped(S, o, i))[c]
  <2>1. Swapped(S, o, i) \subseteq Player
    BY DEF Swapped
  <2>2. (o \in OfClub(c) <=> c = Team(o)) /\ (i \in OfClub(c) <=> c = Team(i))
    BY DEF OfClub
  <2>3. Cardinality(Swapped(S, o, i) \cap OfClub(c))
          = Cardinality(S \cap OfClub(c)) - One(o, OfClub(c)) + One(i, OfClub(c))
    BY SwapCount, SquadIsFinite
  <2>4. /\ Counts(S)[c] = Cardinality(S \cap OfClub(c))
        /\ Counts(Swapped(S, o, i))[c] = Cardinality(Swapped(S, o, i) \cap OfClub(c))
    BY <2>1, CountsOfSets DEF Counts
  <2>. QED
    BY <2>2, <2>3, <2>4 DEF Moved, One
<1>. QED
  BY <1>1 DEF Moved, Counts

(* And what it has spent of the limit is how far it is from the owned one. *)
LEMMA SwapCountsChanges ==
  ASSUME Players, ~Unlimited, NEW S, S \subseteq Player, NEW o \in S, NEW i \in Player, i \notin S
  PROVE  Cardinality(Swapped(S, o, i) \ req.owned) = Cardinality(S \ req.owned) + Delta(o, i)
<1> DEFINE X == Player \ req.owned
<1>1. Swapped(S, o, i) \subseteq Player
  BY DEF Swapped
<1>2. Cardinality(Swapped(S, o, i) \cap X) = Cardinality(S \cap X) - One(o, X) + One(i, X)
  BY SwapCount, SquadIsFinite
<1>3. Cardinality(S \cap X) \in Nat
  BY SquadIsFinite
<1>4. One(i, X) - One(o, X) = Delta(o, i)
  BY DEF Delta, One
<1>5. One(i, X) \in Int /\ One(o, X) \in Int
  BY DEF One
<1>6. /\ Cardinality(S \ req.owned) = Cardinality(S \cap X)
      /\ Cardinality(Swapped(S, o, i) \ req.owned) = Cardinality(Swapped(S, o, i) \cap X)
  BY <1>1, CountsOfSets
<1>. QED
  BY <1>2, <1>3, <1>4, <1>5, <1>6

-----------------------------------------------------------------------------
(* The invariant.                                                          *)

Sound(S) ==
  /\ Filled(S) /\ req.locks \subseteq S
  /\ \A c \in Club : Cardinality(In(S, c)) > MaxPerClub =>
       ~Unlimited /\ Cardinality(In(S, c)) <= Cardinality(In(req.owned, c))

(* What the search must know of a pair it applies.                         *)
PairOK(m) ==
  /\ m.out \in squad \ req.locks /\ m.in \in Player \ squad
  /\ m.upOut \in squad \ (req.locks \cup {m.out}) /\ m.upIn \in Player \ (squad \cup {m.in})
  /\ PosOf[m.in] = PosOf[m.out] /\ PosOf[m.upIn] = PosOf[m.upOut]
  /\ ClubsAfterPair(m.out, m.in, m.upOut, m.upIn)
  /\ WithinLimit(Delta(m.out, m.in) + Delta(m.upOut, m.upIn))

Searching == stage \in {"polish", "scan", "done"}

FillInv == stage = "fill" => req.locks \subseteq squad /\ WithinClubs(squad)

PolishInv ==
  Searching =>
    /\ Sound(squad)
    /\ ~Unlimited => spent = Cardinality(squad \ req.owned) /\ spent <= req.max

FirstInv == first = NoFirst \/ (Unlimited /\ Sound(first.squad))

ScanInv ==
  stage = "scan" =>
    /\ moves # <<>>
    /\ scan.left \subseteq Chunks /\ \A w \in Worker : scan.held[w] \subseteq Chunks
    /\ \A m \in scan.found : PairOK(m)

SearchInv == clubs = Counts(squad) /\ FillInv /\ PolishInv /\ FirstInv /\ ScanInv

(* Market and request stand still.                                         *)
LEMMA Frame ==
  ASSUME UNCHANGED <<world, req>>
  PROVE  /\ (Counts(squad))' = Counts(squad')
         /\ (Sound(squad))' <=> Sound(squad')
         /\ (Sound(first.squad))' <=> Sound(first'.squad)
         /\ (WithinClubs(squad))' <=> WithinClubs(squad')
         /\ Unlimited' <=> Unlimited
         /\ (squad \ req.owned)' = squad' \ req.owned
BY DEF Counts, Sound, WithinClubs, Filled, At, In, Team, Unlimited

(* What a step that is not part of a scan has to show.                     *)
LEMMA Arrives ==
  ASSUME UNCHANGED <<world, req>>, stage' \in {"polish", "done", "refused"}, clubs' = Counts(squad'),
         FirstInv',
         stage' # "refused" =>
           /\ Sound(squad')
           /\ ~Unlimited => spent' = Cardinality(squad' \ req.owned) /\ spent' <= req.max
  PROVE  SearchInv'
BY Frame DEF SearchInv, FillInv, PolishInv, ScanInv, Searching

LEMMA FirstStays ==
  ASSUME UNCHANGED <<world, req, first>>, FirstInv
  PROVE  FirstInv'
BY Frame DEF FirstInv, NoFirst

(* No club comes nearer to breaking the limit than it was.                 *)
LEMMA ClubsHold ==
  ASSUME Players, NEW S, NEW T, Sound(S), S \subseteq Player, T \subseteq Player, Filled(T), req.locks \subseteq T,
         \A c \in Club : Counts(T)[c] <= MaxPerClub \/ Counts(T)[c] <= Counts(S)[c]
  PROVE  Sound(T)
<1>1. ASSUME NEW c \in Club, Cardinality(In(T, c)) > MaxPerClub
      PROVE  ~Unlimited /\ Cardinality(In(T, c)) <= Cardinality(In(req.owned, c))
  <2>1. Counts(T)[c] = Cardinality(In(T, c)) /\ Counts(S)[c] = Cardinality(In(S, c))
    BY DEF Counts
  <2>2. Cardinality(In(T, c)) \in Nat /\ Cardinality(In(S, c)) \in Nat /\ MaxPerClub \in Nat
    BY CountType, SquadConstants
  <2>3. Cardinality(In(T, c)) <= Cardinality(In(S, c)) /\ Cardinality(In(S, c)) > MaxPerClub
    BY <1>1, <2>1, <2>2
  <2>4. ~Unlimited /\ Cardinality(In(S, c)) <= Cardinality(In(req.owned, c))
    BY <2>3 DEF Sound
  <2>5. Cardinality(In(req.owned, c)) \in Nat
    BY OwnedPlayers, CountType
  <2>. QED
    BY <2>2, <2>3, <2>4, <2>5
<1>. QED
  BY <1>1 DEF Sound

-----------------------------------------------------------------------------
(* The moves.                                                              *)

LEMMA SingleIsSound ==
  ASSUME Players, NEW S, S \subseteq Player, Sound(S), clubs = Counts(S),
         NEW o \in S \ req.locks, NEW i \in Player \ S, PosOf[o] = PosOf[i],
         ClubAfter(o, i) <= MaxPerClub
  PROVE  Sound(Swapped(S, o, i)) /\ Swapped(S, o, i) \subseteq Player
<1> DEFINE T == Swapped(S, o, i)
<1>1. T \subseteq Player /\ req.locks \subseteq T
  BY DEF Swapped, Sound
<1>2. Filled(T)
  BY SwapKeepsQuotas DEF Sound
<1>3. ASSUME NEW c \in Club
      PROVE  Counts(T)[c] <= MaxPerClub \/ Counts(T)[c] <= Counts(S)[c]
  <2>1. Counts(T)[c] = Moved(Counts(S), o, i)[c]
    BY SwapCountsClubs
  <2>2. Counts(S) \in [Club -> Nat] /\ Team(o) \in Club /\ Team(i) \in Club
    BY CountType, Teams
  <2>3. CASE c = Team(i)
    BY <2>1, <2>2, <2>3 DEF Moved, ClubAfter
  <2>4. CASE c # Team(i)
    BY <2>1, <2>2, <2>4 DEF Moved
  <2>. QED
    BY <2>3, <2>4
<1>. QED
  BY <1>1, <1>2, <1>3, ClubsHold DEF Sound

LEMMA PairIsSound ==
  ASSUME Players, squad \subseteq Player, Sound(squad), clubs = Counts(squad), NEW m, PairOK(m)
  PROVE  LET T == AfterPair(m.out, m.in, m.upOut, m.upIn)
         IN  /\ Sound(T) /\ T \subseteq Player
             /\ Counts(T) = Moved(Moved(clubs, m.out, m.in), m.upOut, m.upIn)
             /\ ~Unlimited => Cardinality(T \ req.owned)
                  = Cardinality(squad \ req.owned) + Delta(m.out, m.in) + Delta(m.upOut, m.upIn)
<1> DEFINE H == Swapped(squad, m.out, m.in)
           T == Swapped(H, m.upOut, m.upIn)
<1>1. /\ m.out \in squad /\ m.in \in Player /\ m.in \notin squad
      /\ H \subseteq Player /\ m.upOut \in H /\ m.upIn \in Player /\ m.upIn \notin H
  BY DEF PairOK, Swapped
<1>2. T \subseteq Player /\ req.locks \subseteq T
  BY <1>1 DEF PairOK, Swapped, Sound
<1>3. Filled(H)
  BY <1>1, SwapKeepsQuotas DEF PairOK, Sound
<1>4. Filled(T)
  BY <1>1, <1>3, SwapKeepsQuotas DEF PairOK
<1>5. Counts(H) = Moved(clubs, m.out, m.in)
  BY <1>1, SwapCountsClubs
<1>6. Counts(T) = Moved(Moved(clubs, m.out, m.in), m.upOut, m.upIn)
  BY <1>1, <1>5, SwapCountsClubs
<1>7. ASSUME NEW c \in Club
      PROVE  Counts(T)[c] <= MaxPerClub \/ Counts(T)[c] <= Counts(squad)[c]
  <2>1. CASE c \in {Team(m.out), Team(m.in), Team(m.upOut), Team(m.upIn)}
    BY <2>1, <1>6 DEF PairOK, ClubsAfterPair
  <2>2. CASE c \notin {Team(m.out), Team(m.in), Team(m.upOut), Team(m.upIn)}
    <3>1. Counts(squad) \in [Club -> Nat]
      BY CountType
    <3>2. Counts(T)[c] = Counts(squad)[c]
      BY <2>2, <3>1, <1>6 DEF Moved
    <3>. QED
      BY <3>1, <3>2
  <2>. QED
    BY <2>1, <2>2
<1>8. Sound(T)
  BY <1>2, <1>4, <1>7, ClubsHold
<1>9. ASSUME ~Unlimited
      PROVE  Cardinality(T \ req.owned)
               = Cardinality(squad \ req.owned) + Delta(m.out, m.in) + Delta(m.upOut, m.upIn)
  <2>1. Cardinality(H \ req.owned) = Cardinality(squad \ req.owned) + Delta(m.out, m.in)
    BY <1>1, <1>9, SwapCountsChanges
  <2>2. Cardinality(T \ req.owned) = Cardinality(H \ req.owned) + Delta(m.upOut, m.upIn)
    BY <1>1, <1>9, SwapCountsChanges
  <2>. QED
    BY <2>1, <2>2
<1>. QED
  BY <1>2, <1>6, <1>8, <1>9 DEF AfterPair

-----------------------------------------------------------------------------
(* The steps.                                                              *)

LEMMA NoScanType ==
  /\ NoScan.left = {} /\ NoScan.found = {} /\ NoScan.held \in [Worker -> SUBSET (Player \X Player)]
  /\ \A w \in Worker : NoScan.held[w] = {}
BY DEF NoScan

LEMMA OrderType == Order \in Seq(Kinds)
<1>1. <<"singles", "pairs", "funded">> \in Seq(Kinds)
  BY DEF Kinds
<1>2. <<"funded", "pairs", "singles">> \in Seq(Kinds)
  BY DEF Kinds
<1>. QED
  BY <1>1, <1>2 DEF Order

LEMMA PoolPlayers == Pool \subseteq Player
BY DEF Pool

LEMMA InitInv ==
  ASSUME Init
  PROVE  TypeOK /\ SearchInv
<1>1. Players
  BY Constants DEF Init
<1>2. Counts({}) \in [Club -> Nat]
  BY CountType
<1>3. TypeOK
  BY <1>2, NoScanType DEF Init, TypeOK, NoFirst
<1>4. SearchInv
  BY DEF Init, SearchInv, FillInv, PolishInv, FirstInv, ScanInv, Searching
<1>. QED
  BY <1>3, <1>4

LEMMA RefuseInv ==
  ASSUME TypeOK, SearchInv, Refuse \/ RefuseRevision
  PROVE  TypeOK' /\ SearchInv'
<1>1. UNCHANGED <<world, req, squad, clubs, first>> /\ stage' = "refused"
  BY DEF Refuse, RefuseRevision
<1>2. TypeOK'
  BY DEF TypeOK, Refuse, RefuseRevision
<1>3. SearchInv'
  BY <1>1, Arrives, FirstStays DEF SearchInv
<1>. QED
  BY <1>2, <1>3

LEMMA TakeLocksInv ==
  ASSUME TypeOK, SearchInv, TakeLocks
  PROVE  TypeOK' /\ SearchInv'
<1>1. Players /\ req.locks \subseteq Player
  BY Constants, OwnedPlayers DEF TypeOK
<1>2. TypeOK'
  BY <1>1, CountType DEF TypeOK, TakeLocks
<1>3. WithinClubs(req.locks)
  BY DEF TakeLocks, Answerable, LocksFit
<1>4. SearchInv'
  BY <1>3, Frame, FirstStays DEF TakeLocks, SearchInv, FillInv, PolishInv, ScanInv, Searching
<1>. QED
  BY <1>2, <1>4

LEMMA FillStepInv ==
  ASSUME TypeOK, SearchInv, Fill
  PROVE  TypeOK' /\ SearchInv'
<1>1. Players
  BY Constants DEF TypeOK
<1>2. CASE Addable = {}
  <2>1. UNCHANGED <<world, req, squad, clubs, first>> /\ stage' = "refused"
    BY <1>2 DEF Fill
  <2>2. TypeOK'
    BY <1>2 DEF TypeOK, Fill
  <2>. QED
    BY <2>1, <2>2, Arrives, FirstStays DEF SearchInv
<1>3. CASE Addable # {}
  <2>1. PICK p \in Addable : /\ squad' = squad \cup {p} /\ clubs' = [clubs EXCEPT ![Team(p)] = @ + 1]
                             /\ stage' = stage
    BY <1>3 DEF Fill, Foremost
  <2>2. p \in Player /\ p \notin squad /\ Team(p) \in Club /\ clubs[Team(p)] < MaxPerClub
    BY <1>1, Teams, PoolPlayers DEF Addable
  <2>3. squad \subseteq Player /\ squad' \subseteq Player /\ Counts(squad) \in [Club -> Nat]
    BY <2>1, <2>2, CountType DEF TypeOK
  <2>4. ASSUME NEW c \in Club
        PROVE  Counts(squad')[c] = IF c = Team(p) THEN Counts(squad)[c] + 1 ELSE Counts(squad)[c]
    <3>1. CASE c = Team(p)
      <4>1. In(squad', c) = In(squad, c) \cup {p} /\ p \notin In(squad, c)
        BY <2>1, <2>2, <3>1 DEF In
      <4>2. IsFiniteSet(In(squad, c))
        BY <2>3, CountsOfSets, SquadIsFinite
      <4>3. Cardinality(In(squad, c) \cup {p}) = Cardinality(In(squad, c)) + 1
        BY <4>1, <4>2, FS_AddElement
      <4>. QED
        BY <3>1, <4>1, <4>3 DEF Counts
    <3>2. CASE c # Team(p)
      <4>1. In(squad', c) = In(squad, c)
        BY <2>1, <3>2 DEF In
      <4>. QED
        BY <3>2, <4>1 DEF Counts
    <3>. QED
      BY <3>1, <3>2
  <2>5. clubs' = Counts(squad')
    <3>1. clubs = Counts(squad)
      BY DEF SearchInv
    <3>2. clubs' = [c \in Club |-> IF c = Team(p) THEN Counts(squad)[c] + 1 ELSE Counts(squad)[c]]
      BY <2>1, <2>3, <3>1
    <3>3. Counts(squad') = [c \in Club |-> Counts(squad')[c]]
      BY DEF Counts
    <3>. QED
      BY <2>4, <3>2, <3>3
  <2>6. WithinClubs(squad')
    <3>1. ASSUME NEW c \in Club
          PROVE  Cardinality(In(squad', c)) <= MaxPerClub
      <4>1. Counts(squad)[c] <= MaxPerClub /\ Counts(squad)[c] \in Nat
        BY <2>3 DEF SearchInv, FillInv, WithinClubs, Counts, Fill
      <4>2. Counts(squad')[c] <= MaxPerClub
        BY <2>2, <2>4, <4>1, SquadConstants DEF SearchInv
      <4>. QED
        BY <4>2 DEF Counts
    <3>. QED
      BY <3>1 DEF WithinClubs
  <2>7. TypeOK'
    <3>1. clubs' \in [Club -> Nat]
      BY <2>3, <2>5, CountType
    <3>2. UNCHANGED <<world, req, stage, spent, moves, round, scan, first>>
      BY <2>1 DEF Fill
    <3>. QED
      BY <2>3, <3>1, <3>2 DEF TypeOK
  <2>8. UNCHANGED <<world, req, first>> /\ stage' = "fill" /\ req.locks \subseteq squad
    BY <2>1 DEF Fill, SearchInv, FillInv
  <2>9. SearchInv'
    BY <2>1, <2>5, <2>6, <2>8, Frame, FirstStays
       DEF SearchInv, FillInv, PolishInv, ScanInv, Searching
  <2>. QED
    BY <2>7, <2>9
<1>. QED
  BY <1>2, <1>3

(* What starts a polish: a squad of players that obeys the request.        *)
LEMMA PolishStarts ==
  ASSUME TypeOK, UNCHANGED <<world, req, scan>>, stage # "scan", NEW S, Polish(S), S \subseteq Player, Sound(S),
         ~Unlimited => Cardinality(S \ req.owned) <= req.max,
         FirstInv', first'.squad \subseteq Player
  PROVE  TypeOK' /\ SearchInv'
<1>1. Players
  BY Constants DEF TypeOK
<1>2. clubs' = Counts(squad') /\ squad' = S /\ stage' = "polish" /\ Counts(S) \in [Club -> Nat]
  BY CountType DEF Polish
<1>3. Distance(S) \in Nat /\ (~Unlimited => Distance(S) = Cardinality(S \ req.owned))
  BY CountType DEF Distance, Unlimited
<1>4. spent' = Distance(S)
  BY DEF Polish
<1>5. TypeOK'
  BY <1>2, <1>3, <1>4, OrderType DEF TypeOK, Polish
<1>6. SearchInv'
  BY <1>2, <1>3, <1>4, Arrives
<1>. QED
  BY <1>5, <1>6

LEMMA PolishFilledInv ==
  ASSUME TypeOK, SearchInv, PolishFilled
  PROVE  TypeOK' /\ SearchInv'
<1>1. Sound(squad)
  <2>1. Players
    BY Constants DEF TypeOK
  <2>2. \A c \in Club : Cardinality(In(squad, c)) \in Nat /\ Cardinality(In(squad, c)) <= MaxPerClub
    BY CountType DEF TypeOK, SearchInv, FillInv, WithinClubs, PolishFilled
  <2>3. Filled(squad) /\ req.locks \subseteq squad
    BY DEF SearchInv, FillInv, PolishFilled
  <2>. QED
    BY <2>2, <2>3, SquadConstants DEF Sound
<1>2. Polish(squad) /\ Unlimited /\ UNCHANGED <<world, req, scan, first>> /\ stage = "fill"
  BY DEF PolishFilled
<1>3. FirstInv' /\ first'.squad \subseteq Player
  BY <1>2, FirstStays DEF SearchInv, TypeOK
<1>. QED
  BY <1>1, <1>2, <1>3, PolishStarts DEF TypeOK

LEMMA PolishOwnedInv ==
  ASSUME TypeOK, SearchInv, PolishOwned
  PROVE  TypeOK' /\ SearchInv'
<1>1. Players
  BY Constants DEF TypeOK
<1>2. /\ req.owned \subseteq Player /\ Filled(req.owned) /\ req.locks \subseteq req.owned /\ ~Unlimited
      /\ req.max \in Nat
  BY <1>1, OwnedPlayers DEF PolishOwned, Revisable
<1>3. \A c \in Club : Cardinality(In(req.owned, c)) \in Nat
  BY <1>2, CountType
<1>4. Sound(req.owned)
  BY <1>2, <1>3 DEF Sound
<1>5. Cardinality(req.owned \ req.owned) = 0
  BY FS_EmptySet
<1>6. Polish(req.owned) /\ UNCHANGED <<world, req, scan, first>> /\ stage = "fill"
  BY DEF PolishOwned
<1>7. FirstInv' /\ first'.squad \subseteq Player
  BY <1>6, FirstStays DEF SearchInv, TypeOK
<1>. QED
  BY <1>2, <1>4, <1>5, <1>6, <1>7, PolishStarts

(* A kind of move that is done with leaves the squad as it is.             *)
LEMMA NextKindInv ==
  ASSUME TypeOK, SearchInv, stage \in {"polish", "scan"}, moves # <<>>, NextKind, UNCHANGED <<world, req, first>>,
         scan' \in {scan, NoScan}
  PROVE  TypeOK' /\ SearchInv'
<1>1. UNCHANGED <<squad, clubs, spent>> /\ stage' = "polish" /\ moves' \in Seq(Kinds) /\ round' = 0
  BY DEF NextKind, TypeOK
<1>2. TypeOK'
  BY <1>1, NoScanType DEF TypeOK
<1>3. SearchInv'
  BY <1>1, Arrives, FirstStays DEF SearchInv, PolishInv, Searching
<1>. QED
  BY <1>2, <1>3

LEMMA RunSinglesInv ==
  ASSUME TypeOK, SearchInv, RunSingles
  PROVE  TypeOK' /\ SearchInv'
<1>1. Players
  BY Constants DEF TypeOK
<1>2. UNCHANGED <<world, req, scan, first>> /\ stage = "polish" /\ moves # <<>>
  BY DEF RunSingles, Running
<1>3. CASE NextKind
  BY <1>2, <1>3, NextKindInv
<1>4. ASSUME NEW m \in Singles, ApplySingle(m)
      PROVE  TypeOK' /\ SearchInv'
  <2>1. /\ m.out \in squad \ req.locks /\ m.in \in Player \ squad /\ PosOf[m.out] = PosOf[m.in]
        /\ ClubAfter(m.out, m.in) <= MaxPerClub /\ WithinLimit(Delta(m.out, m.in))
    BY <1>4, PoolPlayers DEF Singles
  <2>2. squad \subseteq Player /\ clubs = Counts(squad) /\ Sound(squad)
    BY <1>2 DEF TypeOK, SearchInv, PolishInv, Searching
  <2>3. squad' = Swapped(squad, m.out, m.in) /\ clubs' = Moved(clubs, m.out, m.in)
        /\ spent' = spent + Delta(m.out, m.in) /\ stage' = "polish" /\ UNCHANGED moves /\ round' = round + 1
    BY <1>2, <1>4 DEF ApplySingle
  <2>4. Sound(squad') /\ squad' \subseteq Player
    BY <1>1, <2>1, <2>2, <2>3, SingleIsSound
  <2>5. clubs' = Counts(squad') /\ clubs' \in [Club -> Nat]
    <3>1. Moved(Counts(squad), m.out, m.in) = Counts(Swapped(squad, m.out, m.in))
      BY <1>1, <2>1, <2>2, SwapCountsClubs
    <3>2. clubs' = Counts(squad')
      BY <2>2, <2>3, <3>1
    <3>. QED
      BY <2>4, <3>2, CountType
  <2>6. ASSUME ~Unlimited
        PROVE  spent' = Cardinality(squad' \ req.owned) /\ spent' <= req.max /\ spent' \in Nat
    <3>1. spent = Cardinality(squad \ req.owned)
      BY <1>2, <2>6 DEF SearchInv, PolishInv, Searching
    <3>2. spent' = Cardinality(squad' \ req.owned)
      BY <1>1, <2>1, <2>2, <2>3, <2>6, <3>1, SwapCountsChanges
    <3>3. spent' <= req.max
      BY <2>1, <2>3, <2>6 DEF WithinLimit
    <3>. QED
      BY <2>4, <3>2, <3>3, CountType
  <2>7. Unlimited => spent' = spent
    BY <2>3 DEF TypeOK, Delta
  <2>8. TypeOK'
    BY <1>2, <2>3, <2>4, <2>5, <2>6, <2>7 DEF TypeOK
  <2>9. SearchInv'
    BY <1>2, <2>3, <2>4, <2>5, <2>6, Arrives, FirstStays DEF SearchInv
  <2>. QED
    BY <2>8, <2>9
<1>. QED
  BY <1>3, <1>4 DEF RunSingles, Uphill

(* While the pairs are scanned the squad stands still, and so does what a  *)
(* pair has to be.                                                         *)
LEMMA ScanFrame ==
  ASSUME TypeOK, SearchInv, stage \in {"polish", "scan"}, moves # <<>>, stage' = "scan",
         UNCHANGED <<world, req, squad, spend, clubs, spent, moves, round, first>>,
         scan'.left \subseteq Chunks, scan'.held \in [Worker -> SUBSET Chunks],
         \A w \in Worker : scan'.held[w] \cap scan'.left = {},
         \A m \in scan'.found : PairOK(m)
  PROVE  TypeOK' /\ SearchInv'
<1>1. Chunks \subseteq Player \X Player
  BY PoolPlayers DEF Chunks, TypeOK
<1>2. TypeOK'
  BY <1>1 DEF TypeOK
<1>3. Chunks' = Chunks
  BY DEF Chunks, Cheapest, Pool, Foremost, Rank, At, Cheaper, Stronger, Price, Score
<1>4. ASSUME NEW m, PairOK(m)
      PROVE  PairOK(m)'
  <2>1. Delta(m.out, m.in)' = Delta(m.out, m.in) /\ Delta(m.upOut, m.upIn)' = Delta(m.upOut, m.upIn)
    BY DEF Delta, Unlimited
  <2>2. \A d : WithinLimit(d)' <=> WithinLimit(d)
    BY DEF WithinLimit, Unlimited
  <2>3. ClubsAfterPair(m.out, m.in, m.upOut, m.upIn)' <=> ClubsAfterPair(m.out, m.in, m.upOut, m.upIn)
    BY DEF ClubsAfterPair, Moved, Team
  <2>. QED
    BY <1>4, <2>1, <2>2, <2>3 DEF PairOK
<1>5. ScanInv'
  BY <1>3, <1>4 DEF ScanInv
<1>6. PolishInv'
  BY Frame DEF SearchInv, PolishInv, Searching
<1>7. FillInv' /\ FirstInv'
  BY FirstStays DEF SearchInv, FillInv
<1>8. clubs' = (Counts(squad))'
  BY Frame DEF SearchInv
<1>. QED
  BY <1>2, <1>5, <1>6, <1>7, <1>8 DEF SearchInv

LEMMA BeginScanInv ==
  ASSUME TypeOK, SearchInv, BeginScan
  PROVE  TypeOK' /\ SearchInv'
<1>1. UNCHANGED <<world, req, first>> /\ stage = "polish" /\ moves # <<>>
  BY DEF BeginScan, Running
<1>2. CASE NextKind /\ UNCHANGED scan
  BY <1>1, <1>2, NextKindInv
<1>3. CASE /\ stage' = "scan" /\ scan' = [NoScan EXCEPT !.left = Chunks]
           /\ UNCHANGED <<squad, spend, clubs, spent, best, moves, round>>
  <2>1. scan'.left = Chunks /\ scan'.held = NoScan.held /\ scan'.found = {}
    BY <1>3 DEF NoScan
  <2>2. NoScan.held \in [Worker -> SUBSET Chunks] /\ \A w \in Worker : NoScan.held[w] = {}
    BY DEF NoScan
  <2>. QED
    BY <1>1, <1>3, <2>1, <2>2, ScanFrame
<1>. QED
  BY <1>2, <1>3 DEF BeginScan

LEMMA ClaimInv ==
  ASSUME TypeOK, SearchInv, NEW w \in Worker, Claim(w)
  PROVE  TypeOK' /\ SearchInv'
<1>1. PICK ch \in scan.left : scan' = [scan EXCEPT !.left = @ \ {ch}, !.held[w] = {ch}]
  BY DEF Claim, Foremost
<1>2. /\ stage = "scan" /\ moves # <<>> /\ scan.left \subseteq Chunks
      /\ \A m \in scan.found : PairOK(m)
  BY DEF Claim, SearchInv, ScanInv
<1>3. scan.held \in [Worker -> SUBSET Chunks]
  BY <1>2 DEF TypeOK, SearchInv, ScanInv
<1>4. /\ scan'.left = scan.left \ {ch} /\ scan'.held = [scan.held EXCEPT ![w] = {ch}]
      /\ scan'.found = scan.found
  BY <1>1
<1>5. scan'.held \in [Worker -> SUBSET Chunks] /\ scan'.left \subseteq Chunks
  BY <1>2, <1>3, <1>4
<1>6. \A v \in Worker : scan'.held[v] \cap scan'.left = {}
  BY <1>3, <1>4 DEF TypeOK
<1>7. \A m \in scan'.found : PairOK(m)
  BY <1>2, <1>4
<1>. QED
  BY <1>2, <1>5, <1>6, <1>7, ScanFrame DEF Claim

(* What a chunk may be paired with makes a pair the search may apply.      *)
LEMMA PairedPairs ==
  ASSUME squad \subseteq Player, NEW ch \in Chunks, NEW m \in Paired(ch[1], ch[2])
  PROVE  PairOK(m)
<1>1. /\ ch[1] \in squad \ req.locks /\ ch[2] \in Pool /\ ch[2] \in Cheapest(PosOf[ch[1]])
  BY DEF Chunks
<1>2. ch[2] \notin squad
  BY DEF Paired
<1>3. PosOf[ch[2]] = PosOf[ch[1]]
  BY <1>1 DEF Cheapest, Foremost, At
<1>4. PICK x \in (squad \ (req.locks \cup {ch[1]})) \X (Pool \ (squad \cup {ch[2]})) :
        /\ x[2] \in Strongest(PosOf[x[1]]) /\ ClubsAfterPair(ch[1], ch[2], x[1], x[2])
        /\ WithinLimit(Delta(ch[1], ch[2]) + Delta(x[1], x[2]))
        /\ m.out = ch[1] /\ m.in = ch[2] /\ m.upOut = x[1] /\ m.upIn = x[2]
  BY DEF Paired
<1>5. PosOf[x[2]] = PosOf[x[1]]
  BY <1>4 DEF Strongest, Foremost, At
<1>. QED
  BY <1>1, <1>2, <1>3, <1>4, <1>5, PoolPlayers DEF PairOK

LEMMA ScannedPairs ==
  ASSUME squad \subseteq Player, NEW ch \in Chunks, NEW m \in Scanned(ch)
  PROVE  PairOK(m)
BY PairedPairs DEF Scanned

LEMMA FileInv ==
  ASSUME TypeOK, SearchInv, NEW w \in Worker, File(w)
  PROVE  TypeOK' /\ SearchInv'
<1>1. PICK ch \in scan.held[w] :
        scan' = [scan EXCEPT !.held[w] = {}, !.found = @ \cup Scanned(ch)]
  BY DEF File
<1>2. /\ stage = "scan" /\ moves # <<>> /\ scan.left \subseteq Chunks /\ ch \in Chunks
      /\ \A m \in scan.found : PairOK(m)
  BY <1>1 DEF File, SearchInv, ScanInv
<1>3. scan.held \in [Worker -> SUBSET Chunks]
  BY <1>2 DEF TypeOK, SearchInv, ScanInv
<1>4. /\ scan'.left = scan.left /\ scan'.held = [scan.held EXCEPT ![w] = {}]
      /\ scan'.found = scan.found \cup Scanned(ch)
  BY <1>1
<1>5. scan'.held \in [Worker -> SUBSET Chunks] /\ scan'.left \subseteq Chunks
  BY <1>2, <1>3, <1>4
<1>6. \A v \in Worker : scan'.held[v] \cap scan'.left = {}
  BY <1>3, <1>4 DEF TypeOK
<1>7. \A m \in scan'.found : PairOK(m)
  BY <1>2, <1>4, ScannedPairs DEF TypeOK
<1>. QED
  BY <1>2, <1>5, <1>6, <1>7, ScanFrame DEF File

LEMMA ReduceInv ==
  ASSUME TypeOK, SearchInv, Reduce
  PROVE  TypeOK' /\ SearchInv'
<1>1. Players
  BY Constants DEF TypeOK
<1>2. UNCHANGED <<world, req, first>> /\ stage = "scan" /\ moves # <<>> /\ scan' = NoScan
  BY DEF Reduce, SearchInv, ScanInv
<1>3. CASE NextKind
  BY <1>2, <1>3, NextKindInv
<1>4. ASSUME NEW m \in scan.found, ApplyPair(m)
      PROVE  TypeOK' /\ SearchInv'
  <2>1. PairOK(m) /\ squad \subseteq Player /\ clubs = Counts(squad) /\ Sound(squad)
    BY <1>2 DEF TypeOK, SearchInv, ScanInv, PolishInv, Searching
  <2>2. /\ squad' = AfterPair(m.out, m.in, m.upOut, m.upIn)
        /\ clubs' = Moved(Moved(clubs, m.out, m.in), m.upOut, m.upIn)
        /\ spent' = spent + Delta(m.out, m.in) + Delta(m.upOut, m.upIn)
        /\ stage' = "polish" /\ UNCHANGED moves /\ round' = round + 1
    BY <1>4 DEF ApplyPair
  <2>3. Sound(squad') /\ squad' \subseteq Player /\ clubs' = Counts(squad')
    BY <1>1, <2>1, <2>2, PairIsSound
  <2>4. clubs' \in [Club -> Nat]
    BY <2>3, CountType
  <2>5. ASSUME ~Unlimited
        PROVE  spent' = Cardinality(squad' \ req.owned) /\ spent' <= req.max /\ spent' \in Nat
    <3>1. spent = Cardinality(squad \ req.owned)
      BY <1>2, <2>5 DEF SearchInv, PolishInv, Searching
    <3>2. spent' = Cardinality(squad' \ req.owned)
      BY <1>1, <2>1, <2>2, <2>5, <3>1, PairIsSound
    <3>3. Delta(m.out, m.in) \in Int /\ Delta(m.upOut, m.upIn) \in Int /\ spent \in Int
      BY DEF Delta, TypeOK
    <3>4. spent + (Delta(m.out, m.in) + Delta(m.upOut, m.upIn)) <= req.max
      BY <2>1, <2>5 DEF PairOK, WithinLimit
    <3>5. spent' <= req.max
      BY <2>2, <3>3, <3>4
    <3>. QED
      BY <2>3, <3>2, <3>5, CountType
  <2>6. Unlimited => spent' = spent
    BY <2>2 DEF TypeOK, Delta
  <2>7. TypeOK'
    BY <1>2, <2>2, <2>3, <2>4, <2>5, <2>6, NoScanType DEF TypeOK
  <2>8. SearchInv'
    BY <1>2, <2>2, <2>3, <2>5, Arrives, FirstStays DEF SearchInv
  <2>. QED
    BY <2>7, <2>8
<1>. QED
  BY <1>3, <1>4 DEF Reduce

(* A legal squad with its locks is sound.                                  *)
LEMMA LegalIsSound ==
  ASSUME Players, NEW S, Legal(S), req.locks \subseteq S
  PROVE  Sound(S) /\ S \subseteq Player
<1>1. S \subseteq Player /\ Filled(S) /\ WithinClubs(S)
  BY DEF Legal
<1>2. \A c \in Club : Cardinality(In(S, c)) \in Nat
  BY <1>1, CountType
<1>. QED
  BY <1>1, <1>2, SquadConstants DEF Sound, WithinClubs

LEMMA RunFundedInv ==
  ASSUME TypeOK, SearchInv, RunFunded
  PROVE  TypeOK' /\ SearchInv'
<1>1. Players
  BY Constants DEF TypeOK
<1>2. UNCHANGED <<world, req, scan, first>> /\ stage = "polish" /\ moves # <<>>
  BY DEF RunFunded, Running
<1>3. CASE NextKind
  BY <1>2, <1>3, NextKindInv
<1>4. ASSUME NEW m \in Funded,
             /\ squad' = m.squad /\ clubs' = Counts(m.squad) /\ spent' = Distance(m.squad)
             /\ round' = round + 1 /\ UNCHANGED <<stage, moves>>
      PROVE  TypeOK' /\ SearchInv'
  <2>1. /\ Legal(m.squad) /\ req.locks \subseteq m.squad
        /\ Unlimited \/ Distance(m.squad) <= req.max
    BY DEF Funded
  <2>2. Sound(m.squad) /\ m.squad \subseteq Player
    BY <1>1, <2>1, LegalIsSound
  <2>3. Counts(m.squad) \in [Club -> Nat] /\ Cardinality(m.squad \ req.owned) \in Nat
    BY <2>2, CountType
  <2>4. Distance(m.squad) \in Nat /\ (~Unlimited => Distance(m.squad) = Cardinality(m.squad \ req.owned))
    BY <2>3 DEF Distance, Unlimited
  <2>5. TypeOK'
    BY <1>2, <1>4, <2>2, <2>3, <2>4 DEF TypeOK
  <2>6. SearchInv'
    BY <1>2, <1>4, <2>1, <2>2, <2>4, Arrives, FirstStays DEF SearchInv
  <2>. QED
    BY <2>5, <2>6
<1>. QED
  BY <1>3, <1>4 DEF RunFunded, Uphill

LEMMA PolishSeedInv ==
  ASSUME TypeOK, SearchInv, PolishSeed
  PROVE  TypeOK' /\ SearchInv'
<1>1. Players
  BY Constants DEF TypeOK
<1>2. PICK S \in Starts : Polish(S)
  BY DEF PolishSeed
<1>3. UNCHANGED <<world, req, scan>> /\ stage = "polish" /\ Unlimited
  BY DEF PolishSeed, Polished
<1>4. Sound(S) /\ S \subseteq Player
  BY <1>1, LegalIsSound DEF Starts
<1>5. first'.squad = squad /\ first' = [squad |-> squad, best |-> best, spend |-> spend]
  BY DEF PolishSeed
<1>6. Sound(squad) /\ squad \subseteq Player
  BY <1>3 DEF TypeOK, SearchInv, PolishInv, Searching
<1>7. FirstInv' /\ first'.squad \subseteq Player
  BY <1>3, <1>5, <1>6, Frame DEF FirstInv
<1>. QED
  BY <1>2, <1>3, <1>4, <1>7, PolishStarts

LEMMA AnswerInv ==
  ASSUME TypeOK, SearchInv, Answer
  PROVE  TypeOK' /\ SearchInv'
<1>1. Players
  BY Constants DEF TypeOK
<1>2. /\ UNCHANGED <<world, req, spent, moves, round, scan>> /\ stage = "polish" /\ stage' = "done"
      /\ first' = NoFirst
  BY DEF Answer, Polished
<1>3. FirstInv' /\ first'.squad \subseteq Player
  BY <1>2 DEF FirstInv, NoFirst
<1>4. CASE UNCHANGED <<squad, best, spend, clubs>>
  <2>1. TypeOK'
    BY <1>2, <1>3, <1>4 DEF TypeOK
  <2>2. SearchInv'
    BY <1>2, <1>3, <1>4, Arrives DEF SearchInv, PolishInv, Searching
  <2>. QED
    BY <2>1, <2>2
<1>5. CASE first # NoFirst /\ squad' = first.squad /\ clubs' = Counts(first.squad)
  <2>1. Unlimited /\ Sound(squad') /\ squad' \subseteq Player /\ clubs' = Counts(squad')
    BY <1>5 DEF SearchInv, FirstInv, TypeOK
  <2>2. TypeOK'
    BY <1>2, <1>3, <2>1, CountType DEF TypeOK
  <2>3. SearchInv'
    BY <1>2, <1>3, <2>1, Arrives
  <2>. QED
    BY <2>2, <2>3
<1>. QED
  BY <1>4, <1>5 DEF Answer

LEMMA StepInv ==
  ASSUME TypeOK, SearchInv, [Next]_vars
  PROVE  TypeOK' /\ SearchInv'
<1>1. CASE UNCHANGED vars
  <2>1. TypeOK'
    BY <1>1 DEF TypeOK, vars
  <2>2. CASE stage = "scan"
    <3>1. scan.held \in [Worker -> SUBSET Chunks] /\ scan.left \subseteq Chunks /\ moves # <<>>
      BY <2>2 DEF TypeOK, SearchInv, ScanInv
    <3>. QED
      BY <1>1, <2>1, <2>2, <3>1, ScanFrame DEF TypeOK, SearchInv, ScanInv, vars
  <2>3. CASE stage # "scan"
    <3>1. ScanInv'
      BY <1>1, <2>3 DEF ScanInv, vars
    <3>2. FillInv' /\ PolishInv' /\ FirstInv' /\ clubs' = (Counts(squad))'
      BY <1>1, Frame, FirstStays DEF SearchInv, FillInv, PolishInv, Searching, vars
    <3>. QED
      BY <2>1, <3>1, <3>2 DEF SearchInv
  <2>. QED
    BY <2>2, <2>3
<1>2. CASE Refuse \/ RefuseRevision
  BY <1>2, RefuseInv
<1>3. CASE TakeLocks
  BY <1>3, TakeLocksInv
<1>4. CASE Fill
  BY <1>4, FillStepInv
<1>5. CASE PolishFilled
  BY <1>5, PolishFilledInv
<1>6. CASE PolishOwned
  BY <1>6, PolishOwnedInv
<1>7. CASE RunSingles
  BY <1>7, RunSinglesInv
<1>8. CASE BeginScan
  BY <1>8, BeginScanInv
<1>9. CASE \E w \in Worker : Claim(w) \/ File(w)
  BY <1>9, ClaimInv, FileInv
<1>10. CASE Reduce
  BY <1>10, ReduceInv
<1>11. CASE RunFunded
  BY <1>11, RunFundedInv
<1>12. CASE PolishSeed
  BY <1>12, PolishSeedInv
<1>13. CASE Answer
  BY <1>13, AnswerInv
<1>14. CASE Finished
  BY <1>1, <1>14 DEF Finished
<1>. QED
  BY <1>1, <1>2, <1>3, <1>4, <1>5, <1>6, <1>7, <1>8, <1>9, <1>10, <1>11, <1>12, <1>13, <1>14 DEF Next

-----------------------------------------------------------------------------
(* The search keeps to its types whatever the market and the request: no   *)
(* club is counted below none, what a revision has spent is a number of    *)
(* players, and no chunk is both held and left.                            *)
THEOREM TypeCorrect == Spec => []TypeOK
<1>1. Init => TypeOK /\ SearchInv
  BY InitInv
<1>2. TypeOK /\ SearchInv /\ [Next]_vars => (TypeOK /\ SearchInv)'
  BY StepInv
<1>. QED
  BY <1>1, <1>2, PTL DEF Spec

(* The answer, and every squad on the way to it, fills its quotas, holds   *)
(* its locks, is over the club limit only where the owned squad was and by *)
(* no more, and is within the changes allowed.                             *)
THEOREM KeepsToTheRequest == Spec => []ObeysTheRequest
<1>1. Init => TypeOK /\ SearchInv
  BY InitInv
<1>2. TypeOK /\ SearchInv /\ [Next]_vars => (TypeOK /\ SearchInv)'
  BY StepInv
<1>3. SearchInv => ObeysTheRequest
  BY DEF SearchInv, PolishInv, Searching, Sound, ObeysTheRequest
<1>. QED
  BY <1>1, <1>2, <1>3, PTL DEF Spec

-----------------------------------------------------------------------------
(* While market and request stand, so does all that is reckoned from them. *)

LEMMA RulesStand ==
  ASSUME UNCHANGED <<world, req>>
  PROVE  /\ \A p : Price(p)' = Price(p) /\ Score(p)' = Score(p) /\ Team(p)' = Team(p)
         /\ \A S : Cost(S)' = Cost(S) /\ Scored(S)' = Scored(S)
         /\ Pool' = Pool /\ Spendable' = Spendable
         /\ \A S, c : In(S, c)' = In(S, c)
         /\ \A S : Legal(S)' <=> Legal(S)
BY DEF Cost, Scored, Price, Score, Pool, Spendable, In, Legal, WithinClubs, Team

LEMMA OrdersStand ==
  ASSUME UNCHANGED <<world, req>>
  PROVE  /\ \A n, X : Foremost(n, X, Stronger)' = Foremost(n, X, Stronger)
         /\ \A n, X : Foremost(n, X, Cheaper)' = Foremost(n, X, Cheaper)
         /\ \A n, X : Foremost(n, X, Called)' = Foremost(n, X, Called)
         /\ \A X : InOrder(X, Cheaper)' = InOrder(X, Cheaper)
         /\ \A n, X, pos : Frontier(X, pos, n)' = Frontier(X, pos, n)
<1>1. /\ \A p, q : Stronger(p, q)' <=> Stronger(p, q)
      /\ \A p, q : Cheaper(p, q)' <=> Cheaper(p, q)
      /\ \A p, q : Called(p, q)' <=> Called(p, q)
  BY RulesStand DEF Stronger, Cheaper, Called
<1>2. \A n, X : Foremost(n, X, Stronger)' = Foremost(n, X, Stronger)
  BY <1>1 DEF Foremost, Rank
<1>3. \A n, X : Foremost(n, X, Cheaper)' = Foremost(n, X, Cheaper)
  BY <1>1 DEF Foremost, Rank
<1>4. \A n, X : Foremost(n, X, Called)' = Foremost(n, X, Called)
  BY <1>1 DEF Foremost, Rank
<1>5. \A X : InOrder(X, Cheaper)' = InOrder(X, Cheaper)
  <2>1. \A p, X : Rank(p, X, Cheaper)' = Rank(p, X, Cheaper)
    BY <1>1 DEF Rank
  <2>. QED
    BY <2>1 DEF InOrder
<1>6. \A n, X, pos : Frontier(X, pos, n)' = Frontier(X, pos, n)
  BY <1>1, RulesStand DEF Frontier, Rank
<1>. QED
  BY <1>2, <1>3, <1>4, <1>5, <1>6

LEMMA ObjectiveStands ==
  ASSUME UNCHANGED <<world, req>>, NEW S
  PROVE  Objective(S)' = Objective(S)
<1>1. ASSUME NEW X PROVE XIValue(X)' = XIValue(X)
  BY OrdersStand, RulesStand DEF XIValue, Armband
<1>2. ASSUME NEW f PROVE Eleven(S, f)' = Eleven(S, f)
  <2>. DEFINE X(pos) == Foremost(f[pos], At(S, pos), Called)
  <2>1. ASSUME NEW pos \in Position PROVE X(pos)' = X(pos)
    BY OrdersStand DEF At
  <2>. QED
    BY <2>1 DEF Eleven
<1>3. Fields(S)' = Fields(S)
  BY DEF Fields, Forced
<1>4. BestXI(S)' = BestXI(S)
  BY <1>1, <1>2, <1>3 DEF BestXI
<1>. QED
  BY <1>1, <1>4, RulesStand DEF Objective

LEMMA RepairStands ==
  ASSUME UNCHANGED <<world, req>>, NEW S
  PROVE  Repair(S)' = Repair(S)
<1>. DEFINE club == Min(Over(S))
            gone == CHOOSE p \in In(S, club) : \A q \in In(S, club) : p = q \/ Weaker(p, q)
            fits == {p \in At(Pool, PosOf[gone]) \ S :
                      /\ Team(p) = club \/ Cardinality(In(S, Team(p))) < MaxPerClub
                      /\ Cost(S) - Price(gone) + Price(p) <= req.budget}
            taken == Foremost(1, fits, Stronger)
<1>1. Over(S)' = Over(S) /\ club' = club /\ \A c : In(S, c)' = In(S, c)
  BY RulesStand DEF Over
<1>2. \A p, q : Weaker(p, q)' <=> Weaker(p, q)
  BY RulesStand DEF Weaker
<1>3. gone' = gone
  BY <1>1, <1>2
<1>4. fits' = fits
  <2>. HIDE DEF club, gone
  <2>. QED
    BY <1>1, <1>3, RulesStand DEF At
<1>5. taken' = taken
  <2>. HIDE DEF fits
  <2>. QED
    BY <1>4, OrdersStand
<1>6. Repair(S) = IF Over(S) = {} THEN S ELSE IF fits = {} THEN {} ELSE (S \ {gone}) \cup taken
  BY DEF Repair
<1>7. Repair(S)' = IF Over(S)' = {} THEN S ELSE IF fits' = {} THEN {} ELSE (S \ {gone'}) \cup taken'
  BY DEF Repair
<1>. HIDE DEF club, gone, fits, taken
<1>. QED
  BY <1>1, <1>3, <1>4, <1>5, <1>6, <1>7

LEMMA RepairedStands ==
  ASSUME UNCHANGED <<world, req>>, NEW S
  PROVE  Repaired(S)' = Repaired(S)
<1>1. \A X : Repair(X)' = Repair(X)
  BY RepairStands
<1>. QED
  BY <1>1 DEF Repaired, FoldLeft, MapThenFoldSet

(* FoldLeft tabulates its results for the first n elements.                *)
Curves(pos, it) ==
  it = [s \in SUBSET DOMAIN Queue(pos) |->
         IF s = {} THEN {NoPicks} ELSE Offer(pos, it[s \ {Max(s)}], Queue(pos)[Max(s)])]
CurvesOf(pos) == CHOOSE it : Curves(pos, it)

LEMMA CurveStands ==
  ASSUME UNCHANGED <<world, req>>, NEW pos
  PROVE  PositionCurve(pos)' = PositionCurve(pos)
<1>1. PositionCurve(pos) = CurvesOf(pos)[DOMAIN Queue(pos)]
  BY DEF PositionCurve, FoldLeft, MapThenFoldSet, Curves, CurvesOf
<1>2. PositionCurve(pos)' = CurvesOf(pos)'[DOMAIN Queue(pos)']
  BY DEF PositionCurve, FoldLeft, MapThenFoldSet, Curves, CurvesOf
<1>3. Queue(pos)' = Queue(pos)
  <2>1. SeedPool(pos)' = SeedPool(pos)
    BY RulesStand, OrdersStand DEF SeedPool
  <2>. QED
    BY <2>1, OrdersStand DEF Queue
<1>4. \A X, p : Offer(pos, X, p)' = Offer(pos, X, p)
  <2>1. \A Y : Affordable(Y)' = Affordable(Y)
    BY RulesStand DEF Affordable
  <2>2. \A Y : {y \in Y : y.n < Quota[pos] - Cardinality(At(req.locks, pos))}'
                 = {y \in Y : y.n < Quota[pos] - Cardinality(At(req.locks, pos))}
    OBVIOUS
  <2>3. \A p : Price(p)' = Price(p) /\ Score(p)' = Score(p)
    BY RulesStand
  <2>. QED
    BY <2>1, <2>2, <2>3 DEF Offer
<1>5. \A it : Curves(pos, it)' <=> Curves(pos, it)
  BY <1>3, <1>4 DEF Curves
<1>6. CurvesOf(pos)' = CurvesOf(pos)
  BY <1>5 DEF CurvesOf
<1>. QED
  BY <1>1, <1>2, <1>3, <1>6

LEMMA BenchStands ==
  ASSUME UNCHANGED <<world, req>>, NEW f
  PROVE  /\ \A X : Bench(f, X)' = Bench(f, X)
         /\ XIBudget(f)' = XIBudget(f)
         /\ Seatable(f)' <=> Seatable(f)
         /\ \A pos : Starters(f, pos)' = Starters(f, pos)
<1>1. \A pos : SeedPool(pos)' = SeedPool(pos)
  BY RulesStand, OrdersStand DEF SeedPool
<1>2. ASSUME NEW X PROVE Bench(f, X)' = Bench(f, X)
  <2>. DEFINE Y(pos) == Foremost(BenchNeed(f, pos), SeedPool(pos) \ X, Cheaper)
  <2>1. ASSUME NEW pos \in Position PROVE Y(pos)' = Y(pos)
    BY <1>1, OrdersStand DEF BenchNeed
  <2>. QED
    BY <2>1 DEF Bench
<1>3. XIBudget(f)' = XIBudget(f)
  BY <1>2, RulesStand DEF XIBudget
<1>4. \A pos : Starters(f, pos)' = Starters(f, pos)
  BY DEF Starters
<1>5. Seatable(f)' <=> Seatable(f)
  BY <1>1, <1>3, <1>4, RulesStand DEF Seatable
<1>. QED
  BY <1>2, <1>3, <1>4, <1>5

Elevens(f, it) ==
  it = [s \in SUBSET DOMAIN PosNames |->
         IF s = {} THEN {NoPicks} ELSE Take(f, it[s \ {Max(s)}], PosNames[Max(s)])]
ElevensOf(f) == CHOOSE it : Elevens(f, it)

LEMMA PicksStand ==
  ASSUME UNCHANGED <<world, req>>, NEW f
  PROVE  Picks(f)' = Picks(f)
<1>. DEFINE elevens == ElevensOf(f)[DOMAIN PosNames]
            within == {x \in elevens : x.cost <= XIBudget(f)}
<1>1. ASSUME NEW so, NEW pos PROVE Take(f, so, pos)' = Take(f, so, pos)
  <2>1. \A Y : Affordable(Y)' = Affordable(Y)
    BY RulesStand DEF Affordable
  <2>2. \A a, b : Combine(a, b)' = Combine(a, b)
    BY <2>1 DEF Combine
  <2>3. PositionCurve(pos)' = PositionCurve(pos) /\ Starters(f, pos)' = Starters(f, pos)
    BY CurveStands, BenchStands
  <2>. QED
    BY <2>2, <2>3 DEF Take
<1>2. elevens' = elevens
  <2>1. \A it : Elevens(f, it)' <=> Elevens(f, it)
    BY <1>1 DEF Elevens
  <2>. QED
    BY <2>1 DEF ElevensOf
<1>3. within' = within
  <2>. HIDE DEF elevens
  <2>. QED
    BY <1>2, BenchStands
<1>4. Picks(f) = IF within = {} THEN {} ELSE (CHOOSE x \in within : \A y \in within : y.score <= x.score).picks
  BY DEF Picks, FoldLeft, MapThenFoldSet, Elevens, ElevensOf
<1>5. Picks(f)' = IF within' = {} THEN {} ELSE (CHOOSE x \in within' : \A y \in within' : y.score <= x.score).picks
  BY DEF Picks, FoldLeft, MapThenFoldSet, Elevens, ElevensOf
<1>. HIDE DEF within
<1>. QED
  BY <1>3, <1>4, <1>5

LEMMA StartsStand ==
  ASSUME UNCHANGED <<world, req>>
  PROVE  Starts' = Starts
<1>1. ASSUME NEW f PROVE (Seatable(f)' <=> Seatable(f)) /\ Seed(f)' = Seed(f)
  <2>1. /\ Picks(f)' = Picks(f)
        /\ \A X : Bench(f, X)' = Bench(f, X)
        /\ Seatable(f)' <=> Seatable(f)
    BY PicksStand, BenchStands
  <2>. QED
    BY <2>1 DEF Seed
<1>2. Seeds' = Seeds
  BY <1>1, RulesStand DEF Seeds
<1>3. \A S : Repaired(S)' = Repaired(S) /\ Objective(S)' = Objective(S)
  BY RepairedStands, ObjectiveStands
<1>. QED
  BY <1>2, <1>3, RulesStand DEF Starts

-----------------------------------------------------------------------------
(* What a squad costs and what it is worth are numbers.                    *)

(* Prices are positive, and scores are numbers.                            *)
LEMMA MarketType ==
  ASSUME Players
  PROVE  /\ \A p \in Player : world.price[p] \in Nat \ {0} /\ world.score[p] \in Nat
         /\ req.budget \in Nat /\ Eps \in Nat /\ Whole \in Nat /\ ViceShare \in Nat
BY SquadConstants DEF Players, Worlds, Requests

LEMMA CostType ==
  ASSUME Players, NEW S, S \subseteq Player
  PROVE  Cost(S) \in Nat /\ Scored(S) \in Nat
<1>1. IsFiniteSet(S) /\ (\A p \in S : world.price[p] \in Nat) /\ (\A p \in S : world.score[p] \in Nat)
  BY SquadIsFinite, MarketType
<1>. QED
  BY <1>1, SumPositive DEF Cost, Scored

(* A swap moves the cost by the two prices.                                *)
LEMMA SwapCost ==
  ASSUME Players, NEW S, S \subseteq Player, NEW o \in S, NEW i \in Player, i \notin S
  PROVE  Cost(Swapped(S, o, i)) = Cost(S) - Price(o) + Price(i)
<1>. DEFINE T == Swapped(S, o, i)
            R == S \ {o}
<1>1. IsFiniteSet(S) /\ IsFiniteSet(T) /\ T \subseteq Player /\ i \in T /\ T \ {i} = R /\ R \subseteq Player
  BY SquadIsFinite, SwapCount DEF Swapped
<1>2. (\A p \in S : world.price[p] \in Int) /\ (\A p \in T : world.price[p] \in Int)
  BY <1>1, MarketType
<1>3. Cost(S) = Price(o) + Cost(R)
  BY <1>1, <1>2, SumRemove DEF Cost, Price
<1>4. Cost(T) = Price(i) + Cost(R)
  <2>1. SumFunctionOnSet(world.price, T) = world.price[i] + SumFunctionOnSet(world.price, T \ {i})
    BY <1>1, <1>2, SumRemove
  <2>. QED
    BY <1>1, <2>1 DEF Cost, Price
<1>5. Cost(R) \in Nat /\ Price(o) \in Nat /\ Price(i) \in Nat
  BY <1>1, CostType, MarketType DEF Price
<1>. QED
  BY <1>3, <1>4, <1>5

LEMMA AddCost ==
  ASSUME Players, NEW S, S \subseteq Player, NEW i \in Player, i \notin S
  PROVE  Cost(S \cup {i}) = Cost(S) + Price(i)
<1>. DEFINE T == S \cup {i}
<1>1. T \subseteq Player /\ IsFiniteSet(T) /\ T \ {i} = S
  BY SquadIsFinite
<1>2. \A p \in T : world.price[p] \in Int
  BY <1>1, MarketType
<1>3. SumFunctionOnSet(world.price, T) = world.price[i] + SumFunctionOnSet(world.price, T \ {i})
  BY <1>1, <1>2, SumRemove
<1>4. Cost(S) \in Nat /\ Price(i) \in Nat
  BY CostType, MarketType DEF Price
<1>5. Cost(T) = Price(i) + Cost(S)
  BY <1>1, <1>3 DEF Cost, Price
<1>. QED
  BY <1>4, <1>5

(* The eleven is of the squad.                                             *)
LEMMA ElevenOfSquad ==
  ASSUME NEW S
  PROVE  BestXI(S) \subseteq S
<1>1. \A f : Eleven(S, f) \subseteq S
  BY DEF Eleven, Foremost, At
<1>. QED
  BY <1>1 DEF BestXI

LEMMA ObjectiveType ==
  ASSUME world \in World, req \in Request, NEW S, S \subseteq Player, Filled(S)
  PROVE  Objective(S) \in Int
<1>. DEFINE xi == BestXI(S)
            captain == Foremost(1, xi, Stronger)
            vice == Foremost(1, xi \ captain, Stronger)
<1>1. Players
  BY Constants
<1>2. xi \subseteq S /\ xi \subseteq Player /\ S \ xi \subseteq Player
  BY ElevenOfSquad
<1>3. captain \subseteq Player /\ vice \subseteq Player
  <2>. HIDE DEF xi
  <2>. QED
    BY <1>2 DEF Foremost
<1>4. /\ Scored(xi) \in Nat /\ Scored(S \ xi) \in Nat
      /\ Scored(captain) \in Nat /\ Scored(vice) \in Nat
  <2>. HIDE DEF xi, captain, vice
  <2>. QED
    BY <1>1, <1>2, <1>3, CostType
<1>5. XIValue(xi) = Whole * Scored(xi) + (Whole * Scored(captain) + ViceShare * Scored(vice))
  BY DEF XIValue, Armband
<1>6. XIValue(xi) \in Int
  <2>. HIDE DEF xi, captain, vice
  <2>. QED
    BY <1>1, <1>4, <1>5, MarketType
<1>7. BenchWorth(world, xi, S \ xi) \in Int
  <2>. HIDE DEF xi
  <2>. QED
    BY <1>2, BenchIsWorthANumber
<1>8. Objective(S) = XIValue(xi) + (IF req.boost THEN Whole * Scored(S \ xi) ELSE BenchWorth(world, xi, S \ xi))
  BY DEF Objective
<1>. HIDE DEF xi
<1>. QED
  BY <1>1, <1>4, <1>6, <1>7, <1>8, MarketType

(* The fill leaves no player in whom it cannot pay.                        *)
LEMMA FillCostIsACost ==
  ASSUME Players, NEW S, S \subseteq Player, NEW left \in Int, FillCost(S, left) <= left
  PROVE  left >= 0
<1>. DEFINE f == [pos \in Position |-> Cost(Foremost(Need(S, pos), Admitted(S, pos), Cheaper))]
<1>1. Tier1(S) \in Nat
  <2>1. ASSUME NEW pos \in Position PROVE f[pos] \in Nat
    <3>1. Foremost(Need(S, pos), Admitted(S, pos), Cheaper) \subseteq Player
      BY PoolPlayers DEF Foremost, Admitted, Free, At
    <3>. QED
      BY <3>1, CostType
  <2>2. Tier1(S) = Infeasible \/ Tier1(S) = SumFunctionOnSet(f, Position)
    BY DEF Tier1
  <2>. HIDE DEF f
  <2>3. SumFunctionOnSet(f, Position) \in Nat
    BY <2>1, SumPositive, SquadConstants
  <2>4. Infeasible \in Nat
    BY DEF Infeasible
  <2>. QED
    BY <2>2, <2>3, <2>4
<1>2. Tier1(S) <= left
  BY <1>1 DEF FillCost
<1>. QED
  BY <1>1, <1>2

-----------------------------------------------------------------------------
(* The books: what the moves carry forward, and what was beaten on the way.*)

FillBooks == stage = "fill" => spend = Cost(squad) /\ spend <= req.budget

SquadBooks ==
  Searching =>
    /\ spend = Cost(squad) /\ best = Objective(squad)
    /\ spend <= req.budget \/ (~Unlimited /\ squad = req.owned)

FirstBooks ==
  \/ first = NoFirst
  \/ /\ stage \notin {"asked", "fill"}
     /\ first.best = Objective(first.squad)
     /\ first.spend = Cost(first.squad) /\ first.spend <= req.budget

(* What a worker has found is scored and paid for as it will be applied.   *)
PairBooks(m) ==
  /\ m.score = Objective(AfterPair(m.out, m.in, m.upOut, m.upIn)) /\ m.score > best + Eps
  /\ SpendAfter(m.out, m.in) - Price(m.upOut) + Price(m.upIn) <= req.budget

ScanBooks == stage = "scan" => \A m \in scan.found : PairBooks(m)

(* What the polish set out from is not better than what it holds.          *)
StartBeaten ==
  /\ Searching /\ ~Unlimited => Filled(req.owned) /\ Objective(req.owned) <= best
  /\ stage \in {"polish", "scan"} /\ first # NoFirst => \A s \in Starts : Objective(s) <= best

BooksInv == FillBooks /\ SquadBooks /\ FirstBooks /\ ScanBooks /\ StartBeaten /\ NeverWorseThanItsStart

(* The whole of what holds.                                                *)
SoundBooks == TypeOK /\ SearchInv /\ BooksInv

LEMMA BooksStand ==
  ASSUME UNCHANGED <<world, req>>
  PROVE  /\ Starts' = Starts /\ (Unlimited' <=> Unlimited) /\ (Searching' <=> stage' \in {"polish", "scan", "done"})
         /\ Objective(req.owned)' = Objective(req.owned) /\ Cost(squad)' = Cost(squad')
         /\ Objective(squad)' = Objective(squad')
         /\ \A S : Objective(S)' = Objective(S)
         /\ Cost(first.squad)' = Cost(first'.squad)
         /\ Objective(first.squad)' = Objective(first'.squad)
<1>1. (\A S : Objective(S)' = Objective(S)) /\ (\A S : Cost(S)' = Cost(S))
  BY ObjectiveStands, RulesStand
<1>2. Cost(squad)' = Cost(squad') /\ Cost(first.squad)' = Cost(first'.squad)
  BY DEF Cost
<1>3. Objective(squad)' = Objective(squad')
  BY ObjectiveStands
<1>. QED
  BY <1>1, <1>2, <1>3, StartsStand, Frame DEF Searching

(* What a step that is no part of a scan has to show.                      *)
LEMMA BooksArrive ==
  ASSUME UNCHANGED <<world, req, first>>, BooksInv, stage' \in {"polish", "refused"},
         stage' = "polish" =>
           /\ spend' = Cost(squad') /\ best' = Objective(squad')
           /\ spend' <= req.budget \/ (~Unlimited /\ squad' = req.owned)
           /\ ~Unlimited => Filled(req.owned) /\ Objective(req.owned) <= best'
           /\ first # NoFirst => \A s \in Starts : Objective(s) <= best'
  PROVE  BooksInv'
<1>1. FillBooks' /\ ScanBooks' /\ NeverWorseThanItsStart'
  BY DEF FillBooks, ScanBooks, NeverWorseThanItsStart
<1>2. SquadBooks'
  BY BooksStand DEF SquadBooks
<1>3. FirstBooks'
  <2>1. first' = first /\ NoFirst' = NoFirst /\ req'.budget = req.budget
    BY DEF NoFirst
  <2>. QED
    BY <2>1, BooksStand DEF BooksInv, FirstBooks
<1>4. StartBeaten'
  <2>1. first' = first /\ NoFirst' = NoFirst
    BY DEF NoFirst
  <2>2. Filled(req.owned)' <=> Filled(req.owned)
    BY DEF Filled, At
  <2>. QED
    BY <2>1, <2>2, BooksStand DEF StartBeaten
<1>. QED
  BY <1>1, <1>2, <1>3, <1>4 DEF BooksInv

(* A kind of move that is done with leaves the books as they are.          *)
LEMMA BooksRest ==
  ASSUME BooksInv, stage \in {"polish", "scan"}, NextKind, UNCHANGED <<world, req, first>>
  PROVE  BooksInv'
<1>1. UNCHANGED <<squad, spend, best>> /\ stage' = "polish"
  BY DEF NextKind
<1>2. /\ spend = Cost(squad) /\ best = Objective(squad)
      /\ spend <= req.budget \/ (~Unlimited /\ squad = req.owned)
      /\ ~Unlimited => Filled(req.owned) /\ Objective(req.owned) <= best
      /\ first # NoFirst => \A s \in Starts : Objective(s) <= best
  BY DEF BooksInv, SquadBooks, StartBeaten, Searching
<1>. QED
  BY <1>1, <1>2, BooksArrive

(* A move that gains something leaves what the search set out from further *)
(* behind.                                                                 *)
LEMMA BooksImprove ==
  ASSUME SoundBooks, stage \in {"polish", "scan"}, UNCHANGED <<world, req, first>>, stage' = "polish",
         squad' \subseteq Player, Filled(squad'),
         spend' = Cost(squad'), spend' <= req.budget, best' = Objective(squad'), best' > best + Eps
  PROVE  BooksInv'
<1>1. world \in World /\ req \in Request /\ Players
  BY Constants DEF SoundBooks, TypeOK
<1>2. squad \subseteq Player /\ Filled(squad) /\ best = Objective(squad)
  BY DEF SoundBooks, TypeOK, SearchInv, PolishInv, BooksInv, SquadBooks, Searching, Sound
<1>3. best \in Int /\ best' \in Int /\ Eps \in Nat
  BY <1>1, <1>2, ObjectiveType, MarketType
<1>4. best < best'
  BY <1>3
<1>5. ASSUME NEW s, s \subseteq Player, Filled(s), Objective(s) <= best
      PROVE  Objective(s) <= best'
  <2>1. Objective(s) \in Int
    BY <1>1, <1>5, ObjectiveType
  <2>. QED
    BY <1>3, <1>4, <1>5, <2>1
<1>6. ~Unlimited => Filled(req.owned) /\ Objective(req.owned) <= best'
  <2>1. ASSUME ~Unlimited PROVE Filled(req.owned) /\ Objective(req.owned) <= best'
    <3>1. Filled(req.owned) /\ Objective(req.owned) <= best
      BY <2>1 DEF SoundBooks, BooksInv, StartBeaten, Searching
    <3>2. req.owned \subseteq Player
      BY <1>1, OwnedPlayers
    <3>. QED
      BY <1>5, <3>1, <3>2
  <2>. QED
    BY <2>1
<1>7. ASSUME first # NoFirst, NEW s \in Starts PROVE Objective(s) <= best'
  <2>1. Objective(s) <= best
    BY <1>7 DEF SoundBooks, BooksInv, StartBeaten
  <2>2. s \subseteq Player /\ Filled(s)
    BY DEF Starts, Legal
  <2>. QED
    BY <1>5, <2>1, <2>2
<1>. QED
  BY <1>6, <1>7, BooksArrive DEF SoundBooks

-----------------------------------------------------------------------------
(* The steps of the fill and of polish.                                    *)

LEMMA BooksBegin == ASSUME Init PROVE BooksInv
BY DEF Init, BooksInv, FillBooks, SquadBooks, FirstBooks, ScanBooks, StartBeaten, NeverWorseThanItsStart, Searching

LEMMA BooksRefuse ==
  ASSUME BooksInv, Refuse \/ RefuseRevision
  PROVE  BooksInv'
BY BooksArrive DEF Refuse, RefuseRevision

(* Before the polish only the money counts.                                *)
LEMMA BooksFill ==
  ASSUME UNCHANGED <<world, req, first>>, BooksInv, stage \in {"asked", "fill"}, stage' = "fill",
         spend' = Cost(squad'), spend' <= req.budget
  PROVE  BooksInv'
<1>1. FillBooks'
  BY BooksStand DEF FillBooks
<1>2. SquadBooks' /\ ScanBooks' /\ StartBeaten' /\ NeverWorseThanItsStart'
  BY DEF SquadBooks, ScanBooks, StartBeaten, NeverWorseThanItsStart, Searching
<1>3. FirstBooks'
  <2>1. first' = first /\ NoFirst' = NoFirst /\ req'.budget = req.budget
    BY DEF NoFirst
  <2>. QED
    BY <2>1 DEF BooksInv, FirstBooks
<1>. QED
  BY <1>1, <1>2, <1>3 DEF BooksInv

LEMMA BooksTakeLocks ==
  ASSUME BooksInv, TakeLocks
  PROVE  BooksInv'
BY BooksFill DEF TakeLocks, Answerable, LocksFit

LEMMA BooksFillStep ==
  ASSUME SoundBooks, Fill
  PROVE  BooksInv'
<1>1. Players /\ squad \subseteq Player /\ BooksInv
  BY Constants DEF SoundBooks, TypeOK
<1>2. CASE Addable = {}
  BY <1>1, <1>2, BooksArrive DEF Fill
<1>3. CASE Addable # {}
  <2>1. PICK p \in Addable : squad' = squad \cup {p} /\ spend' = spend + Price(p) /\ stage' = stage
    BY <1>3 DEF Fill, Foremost
  <2>2. /\ p \in Player /\ p \notin squad
        /\ FillCost(squad \cup {p}, req.budget - spend - Price(p)) <= req.budget - spend - Price(p)
    BY PoolPlayers DEF Addable
  <2>3. spend = Cost(squad) /\ stage = "fill" /\ UNCHANGED <<world, req, first>>
    BY <1>1 DEF BooksInv, FillBooks, Fill
  <2>4. spend \in Nat /\ Price(p) \in Nat /\ req.budget \in Nat
    BY <1>1, <2>2, <2>3, CostType, MarketType DEF Price
  <2>5. req.budget - spend - Price(p) >= 0
    <3>1. squad \cup {p} \subseteq Player /\ req.budget - spend - Price(p) \in Int
      BY <1>1, <2>2, <2>4
    <3>. QED
      BY <1>1, <2>2, <3>1, FillCostIsACost
  <2>6. spend' = Cost(squad')
    BY <1>1, <2>1, <2>2, <2>3, AddCost
  <2>7. spend' <= req.budget
    BY <2>1, <2>4, <2>5
  <2>. QED
    BY <1>1, <2>1, <2>3, <2>6, <2>7, BooksFill
<1>. QED
  BY <1>2, <1>3

LEMMA BooksPolishFilled ==
  ASSUME SoundBooks, PolishFilled
  PROVE  BooksInv'
<1>1. UNCHANGED <<world, req, first>> /\ stage = "fill" /\ Unlimited /\ Polish(squad)
  BY DEF PolishFilled
<1>2. spend = Cost(squad) /\ spend <= req.budget /\ FirstBooks /\ BooksInv
  BY <1>1 DEF SoundBooks, BooksInv, FillBooks
<1>3. /\ stage' = "polish" /\ squad' = squad /\ spend' = Cost(squad) /\ best' = Objective(squad)
  BY <1>1 DEF Polish
<1>4. first = NoFirst
  BY <1>1, <1>2 DEF FirstBooks
<1>. QED
  BY <1>1, <1>2, <1>3, <1>4, BooksArrive

LEMMA BooksPolishOwned ==
  ASSUME SoundBooks, PolishOwned
  PROVE  BooksInv'
<1>1. world \in World /\ req \in Request /\ Players
  BY Constants DEF SoundBooks, TypeOK
<1>2. UNCHANGED <<world, req, first>> /\ stage = "fill" /\ ~Unlimited /\ Polish(req.owned)
  BY DEF PolishOwned
<1>3. req.owned \subseteq Player /\ Filled(req.owned)
  BY <1>1, OwnedPlayers DEF PolishOwned, Revisable
<1>4. Objective(req.owned) \in Int
  BY <1>1, <1>3, ObjectiveType
<1>5. /\ stage' = "polish" /\ squad' = req.owned
      /\ spend' = Cost(req.owned) /\ best' = Objective(req.owned)
  BY <1>2 DEF Polish
<1>6. first = NoFirst /\ BooksInv
  BY <1>2 DEF SoundBooks, BooksInv, FirstBooks
<1>. QED
  BY <1>2, <1>3, <1>4, <1>5, <1>6, BooksArrive

LEMMA BooksRunSingles ==
  ASSUME SoundBooks, RunSingles
  PROVE  BooksInv'
<1>1. Players
  BY Constants DEF SoundBooks, TypeOK
<1>2. UNCHANGED <<world, req, first>> /\ stage = "polish"
  BY DEF RunSingles, Running
<1>3. CASE NextKind
  BY <1>2, <1>3, BooksRest DEF SoundBooks
<1>4. ASSUME NEW m \in Singles, m.score > best + Eps, ApplySingle(m)
      PROVE  BooksInv'
  <2>1. /\ m.out \in squad /\ m.in \in Player /\ m.in \notin squad /\ PosOf[m.out] = PosOf[m.in]
        /\ SpendAfter(m.out, m.in) <= req.budget /\ m.score = Objective(Swapped(squad, m.out, m.in))
    BY <1>4, PoolPlayers DEF Singles
  <2>2. squad \subseteq Player /\ Filled(squad) /\ spend = Cost(squad)
    BY <1>2 DEF SoundBooks, TypeOK, SearchInv, PolishInv, BooksInv, SquadBooks, Searching, Sound
  <2>3. /\ squad' = Swapped(squad, m.out, m.in) /\ spend' = SpendAfter(m.out, m.in)
        /\ best' = m.score /\ stage' = "polish"
    BY <1>2, <1>4 DEF ApplySingle
  <2>4. squad' \subseteq Player /\ Filled(squad')
    BY <2>1, <2>2, <2>3, SwapKeepsQuotas DEF Swapped
  <2>5. Cost(squad') = Cost(squad) - Price(m.out) + Price(m.in)
    BY <1>1, <2>1, <2>2, <2>3, SwapCost
  <2>6. spend' = Cost(squad')
    BY <2>2, <2>3, <2>5 DEF SpendAfter
  <2>. QED
    BY <1>2, <1>4, <2>1, <2>3, <2>4, <2>6, BooksImprove
<1>. QED
  BY <1>3, <1>4 DEF RunSingles, Uphill

LEMMA BooksRunFunded ==
  ASSUME SoundBooks, RunFunded
  PROVE  BooksInv'
<1>1. UNCHANGED <<world, req, first>> /\ stage = "polish"
  BY DEF RunFunded, Running
<1>2. CASE NextKind
  BY <1>1, <1>2, BooksRest DEF SoundBooks
<1>3. ASSUME NEW m \in Funded, m.score > best + Eps,
             squad' = m.squad, spend' = Cost(m.squad), best' = m.score, UNCHANGED stage
      PROVE  BooksInv'
  <2>1. Legal(m.squad) /\ m.score = Objective(m.squad)
    BY DEF Funded
  <2>2. squad' \subseteq Player /\ Filled(squad') /\ spend' <= req.budget
    BY <1>3, <2>1 DEF Legal
  <2>. QED
    BY <1>1, <1>3, <2>1, <2>2, BooksImprove
<1>. QED
  BY <1>2, <1>3 DEF RunFunded, Uphill

-----------------------------------------------------------------------------
(* The scan, the seed and the answer.                                      *)

(* While the pairs are scanned the books stand still.                      *)
LEMMA BooksScan ==
  ASSUME BooksInv, stage \in {"polish", "scan"}, stage' = "scan",
         UNCHANGED <<world, req, squad, spend, best, first>>,
         \A m \in scan'.found : PairBooks(m)
  PROVE  BooksInv'
<1>1. ASSUME NEW m, PairBooks(m) PROVE PairBooks(m)'
  <2>1. AfterPair(m.out, m.in, m.upOut, m.upIn)' = AfterPair(m.out, m.in, m.upOut, m.upIn)
    BY DEF AfterPair, Swapped
  <2>2. Objective(AfterPair(m.out, m.in, m.upOut, m.upIn))' = Objective(AfterPair(m.out, m.in, m.upOut, m.upIn))
    BY <2>1, ObjectiveStands
  <2>3. /\ SpendAfter(m.out, m.in)' = SpendAfter(m.out, m.in)
        /\ \A p : Price(p)' = Price(p)
    BY DEF SpendAfter, Price
  <2>. QED
    BY <1>1, <2>2, <2>3 DEF PairBooks
<1>2. ScanBooks'
  BY <1>1 DEF ScanBooks
<1>3. FillBooks' /\ NeverWorseThanItsStart'
  BY DEF FillBooks, NeverWorseThanItsStart
<1>4. SquadBooks'
  BY BooksStand DEF BooksInv, SquadBooks, Searching
<1>5. first' = first /\ NoFirst' = NoFirst
  BY DEF NoFirst
<1>6. FirstBooks'
  BY <1>5, BooksStand DEF BooksInv, FirstBooks
<1>7. StartBeaten'
  <2>1. Filled(req.owned)' <=> Filled(req.owned)
    BY DEF Filled, At
  <2>. QED
    BY <1>5, <2>1, BooksStand DEF BooksInv, StartBeaten, Searching
<1>. QED
  BY <1>2, <1>3, <1>4, <1>6, <1>7 DEF BooksInv

LEMMA BooksBeginScan ==
  ASSUME BooksInv, BeginScan
  PROVE  BooksInv'
<1>1. UNCHANGED <<world, req, first>> /\ stage = "polish"
  BY DEF BeginScan, Running
<1>2. CASE NextKind
  BY <1>1, <1>2, BooksRest
<1>3. CASE /\ stage' = "scan" /\ scan' = [NoScan EXCEPT !.left = Chunks]
           /\ UNCHANGED <<squad, spend, clubs, spent, best, moves, round>>
  <2>1. scan'.found = {}
    BY <1>3 DEF NoScan
  <2>. QED
    BY <1>1, <1>3, <2>1, BooksScan
<1>. QED
  BY <1>2, <1>3 DEF BeginScan

LEMMA BooksClaim ==
  ASSUME BooksInv, NEW w \in Worker, Claim(w)
  PROVE  BooksInv'
<1>1. PICK ch \in scan.left : scan' = [scan EXCEPT !.left = @ \ {ch}, !.held[w] = {ch}]
  BY DEF Claim, Foremost
<1>2. scan'.found = scan.found
  BY <1>1
<1>3. \A m \in scan'.found : PairBooks(m)
  BY <1>2 DEF BooksInv, ScanBooks, Claim
<1>. QED
  BY <1>3, BooksScan DEF Claim

(* What a chunk yields is priced and scored as it would be applied.        *)
LEMMA ScannedBooks ==
  ASSUME NEW ch, NEW m \in Scanned(ch)
  PROVE  PairBooks(m)
<1>1. m.score > best + Eps /\ m \in Paired(ch[1], ch[2])
  BY DEF Scanned
<1>2. PICK x \in (squad \ (req.locks \cup {ch[1]})) \X (Pool \ (squad \cup {ch[2]})) :
        /\ SpendAfter(ch[1], ch[2]) - Price(x[1]) + Price(x[2]) <= req.budget
        /\ m.out = ch[1] /\ m.in = ch[2] /\ m.upOut = x[1] /\ m.upIn = x[2]
        /\ m.score = Objective(AfterPair(ch[1], ch[2], x[1], x[2]))
  BY <1>1 DEF Paired
<1>. QED
  BY <1>1, <1>2 DEF PairBooks

LEMMA BooksFile ==
  ASSUME BooksInv, NEW w \in Worker, File(w)
  PROVE  BooksInv'
<1>1. PICK ch \in scan.held[w] :
        scan' = [scan EXCEPT !.held[w] = {}, !.found = @ \cup Scanned(ch)]
  BY DEF File
<1>2. scan'.found = scan.found \cup Scanned(ch)
  BY <1>1
<1>3. \A m \in scan'.found : PairBooks(m)
  BY <1>2, ScannedBooks DEF BooksInv, ScanBooks, File
<1>. QED
  BY <1>3, BooksScan DEF File

LEMMA BooksReduce ==
  ASSUME SoundBooks, Reduce
  PROVE  BooksInv'
<1>1. Players
  BY Constants DEF SoundBooks, TypeOK
<1>2. UNCHANGED <<world, req, first>> /\ stage = "scan"
  BY DEF Reduce
<1>3. CASE NextKind
  BY <1>2, <1>3, BooksRest DEF SoundBooks
<1>4. ASSUME NEW m \in scan.found, ApplyPair(m)
      PROVE  BooksInv'
  <2>. DEFINE H == Swapped(squad, m.out, m.in)
              T == Swapped(H, m.upOut, m.upIn)
  <2>1. PairOK(m) /\ PairBooks(m)
    BY <1>2 DEF SoundBooks, SearchInv, ScanInv, BooksInv, ScanBooks
  <2>2. squad \subseteq Player /\ Sound(squad) /\ spend = Cost(squad) /\ clubs = Counts(squad)
    BY <1>2 DEF SoundBooks, TypeOK, SearchInv, PolishInv, BooksInv, SquadBooks, Searching
  <2>3. /\ squad' = T /\ best' = m.score /\ stage' = "polish"
        /\ spend' = SpendAfter(m.out, m.in) - Price(m.upOut) + Price(m.upIn)
    BY <1>4 DEF ApplyPair, AfterPair
  <2>4. /\ m.out \in squad /\ m.in \in Player /\ m.in \notin squad
        /\ H \subseteq Player /\ m.upOut \in H /\ m.upIn \in Player /\ m.upIn \notin H
    BY <2>1, <2>2 DEF PairOK, Swapped
  <2>5. squad' \subseteq Player /\ Filled(squad')
    BY <1>1, <2>1, <2>2, <2>3, PairIsSound DEF AfterPair, Sound
  <2>6. Cost(H) = Cost(squad) - Price(m.out) + Price(m.in)
    BY <1>1, <2>2, <2>4, SwapCost
  <2>7. Cost(T) = Cost(H) - Price(m.upOut) + Price(m.upIn)
    BY <1>1, <2>4, SwapCost
  <2>8. spend' = Cost(squad')
    BY <2>2, <2>3, <2>6, <2>7 DEF SpendAfter
  <2>9. spend' <= req.budget /\ best' = Objective(squad') /\ best' > best + Eps
    BY <2>1, <2>3 DEF PairBooks, AfterPair
  <2>. QED
    BY <1>2, <2>3, <2>5, <2>8, <2>9, BooksImprove
<1>. QED
  BY <1>3, <1>4 DEF Reduce

LEMMA BooksPolishSeed ==
  ASSUME SoundBooks, PolishSeed
  PROVE  BooksInv'
<1>1. PICK S \in Starts : Polish(S) /\ \A s \in Starts : Objective(s) <= Objective(S)
  BY DEF PolishSeed
<1>2. UNCHANGED <<world, req>> /\ stage = "polish" /\ Unlimited
  BY DEF PolishSeed, Polished
<1>3. /\ squad' = S /\ spend' = Cost(S) /\ best' = Objective(S) /\ stage' = "polish"
  BY <1>1 DEF Polish
<1>4. first'.squad = squad /\ first'.best = best /\ first'.spend = spend
  BY DEF PolishSeed
<1>5. /\ spend = Cost(squad) /\ best = Objective(squad) /\ spend <= req.budget
  BY <1>2 DEF SoundBooks, BooksInv, SquadBooks, Searching
<1>6. FirstBooks'
  BY <1>2, <1>3, <1>4, <1>5, RulesStand, ObjectiveStands DEF FirstBooks
<1>7. FillBooks' /\ ScanBooks' /\ NeverWorseThanItsStart'
  BY <1>3 DEF FillBooks, ScanBooks, NeverWorseThanItsStart
<1>8. SquadBooks'
  <2>1. Cost(S) <= req.budget
    BY DEF Starts, Legal
  <2>. QED
    BY <1>2, <1>3, <2>1, BooksStand DEF SquadBooks
<1>9. StartBeaten'
  BY <1>1, <1>2, <1>3, BooksStand DEF StartBeaten
<1>. QED
  BY <1>6, <1>7, <1>8, <1>9 DEF BooksInv

LEMMA BooksAnswer ==
  ASSUME SoundBooks, Answer
  PROVE  BooksInv'
<1>1. world \in World /\ req \in Request /\ Players
  BY Constants DEF SoundBooks, TypeOK
<1>2. /\ UNCHANGED <<world, req>> /\ stage = "polish" /\ stage' = "done" /\ first' = NoFirst
      /\ first = NoFirst => ~Unlimited \/ Starts = {}
  BY DEF Answer, Polished
<1>3. /\ squad \subseteq Player /\ Sound(squad)
      /\ spend = Cost(squad) /\ best = Objective(squad)
      /\ spend <= req.budget \/ (~Unlimited /\ squad = req.owned)
      /\ ~Unlimited => Filled(req.owned) /\ Objective(req.owned) <= best
      /\ first # NoFirst => \A s \in Starts : Objective(s) <= best
  BY <1>2 DEF SoundBooks, TypeOK, SearchInv, PolishInv, BooksInv, SquadBooks, StartBeaten, Searching
<1>4. first # NoFirst =>
        /\ Unlimited /\ first.squad \subseteq Player /\ Sound(first.squad)
        /\ first.best = Objective(first.squad)
        /\ first.spend = Cost(first.squad) /\ first.spend <= req.budget
  BY DEF SoundBooks, TypeOK, SearchInv, FirstInv, BooksInv, FirstBooks
<1>5. best \in Int /\ (first # NoFirst => first.best \in Int) /\ Eps \in Nat
  BY <1>1, <1>3, <1>4, ObjectiveType, MarketType DEF Sound
<1>6. \A s \in Starts : Objective(s) \in Int
  BY <1>1, ObjectiveType DEF Starts, Legal
<1>7. FillBooks' /\ ScanBooks' /\ FirstBooks'
  BY <1>2 DEF FillBooks, ScanBooks, FirstBooks, NoFirst
<1>8. CASE UNCHANGED <<squad, best, spend>> /\ (first = NoFirst \/ SeedWins)
  <2>1. SquadBooks'
    BY <1>2, <1>3, <1>8, BooksStand DEF SquadBooks
  <2>2. StartBeaten'
    BY <1>2, <1>3, <1>8, BooksStand, Frame DEF StartBeaten, Filled, At
  <2>3. \A s \in Starts : Unlimited => Objective(s) <= best + Eps
    BY <1>2, <1>3, <1>5, <1>6
  <2>4. NeverWorseThanItsStart'
    BY <1>2, <1>3, <1>8, <2>3, BooksStand DEF NeverWorseThanItsStart
  <2>. QED
    BY <1>7, <2>1, <2>2, <2>4 DEF BooksInv
<1>9. CASE /\ first # NoFirst /\ ~SeedWins
           /\ squad' = first.squad /\ best' = first.best /\ spend' = first.spend
  <2>1. SquadBooks'
    BY <1>2, <1>4, <1>9, BooksStand DEF SquadBooks
  <2>2. StartBeaten'
    BY <1>2, <1>4, <1>9, BooksStand DEF StartBeaten
  <2>3. Legal(squad) /\ req.locks \subseteq squad
    <3>1. ASSUME NEW c \in Club PROVE Cardinality(In(squad, c)) <= MaxPerClub
      <4>1. ~(Cardinality(In(squad, c)) > MaxPerClub)
        BY <1>3, <1>4, <1>9 DEF Sound
      <4>2. Cardinality(In(squad, c)) \in Nat /\ MaxPerClub \in Nat
        BY <1>3, CountType, SquadConstants
      <4>. QED
        BY <4>1, <4>2
    <3>. QED
      BY <1>3, <1>4, <1>9, <3>1 DEF Legal, WithinClubs, Sound
  <2>4. best <= first.best + Eps
    BY <1>5, <1>9, <2>3 DEF SeedWins
  <2>5. \A s \in Starts : Objective(s) <= first.best + Eps
    BY <1>3, <1>5, <1>6, <1>9, <2>4
  <2>6. NeverWorseThanItsStart'
    BY <1>2, <1>4, <1>9, <2>5, BooksStand DEF NeverWorseThanItsStart
  <2>. QED
    BY <1>7, <2>1, <2>2, <2>6 DEF BooksInv
<1>. QED
  BY <1>8, <1>9 DEF Answer

-----------------------------------------------------------------------------
(* All steps, and what the books are good for.                             *)

LEMMA BooksStutter ==
  ASSUME BooksInv, UNCHANGED vars
  PROVE  BooksInv'
<1>. UNCHANGED <<world, req, stage, squad, spend, best, scan, first>>
  BY DEF vars
<1>1. CASE stage = "scan"
  BY <1>1, BooksScan DEF BooksInv, ScanBooks
<1>2. CASE stage # "scan"
  <2>1. ScanBooks'
    BY <1>2 DEF ScanBooks
  <2>2. FillBooks' /\ SquadBooks'
    BY BooksStand DEF BooksInv, FillBooks, SquadBooks, Searching
  <2>3. FirstBooks' /\ (first' = first /\ NoFirst' = NoFirst)
    BY BooksStand DEF BooksInv, FirstBooks, NoFirst
  <2>4. StartBeaten' /\ NeverWorseThanItsStart'
    <3>1. Filled(req.owned)' <=> Filled(req.owned)
      BY DEF Filled, At
    <3>. QED
      BY <2>3, <3>1, BooksStand DEF BooksInv, StartBeaten, NeverWorseThanItsStart, Searching
  <2>. QED
    BY <2>1, <2>2, <2>3, <2>4 DEF BooksInv
<1>. QED
  BY <1>1, <1>2

LEMMA BooksStep ==
  ASSUME SoundBooks, [Next]_vars
  PROVE  SoundBooks'
<1>1. TypeOK' /\ SearchInv'
  BY StepInv DEF SoundBooks
<1>2. BooksInv
  BY DEF SoundBooks
<1>. SUFFICES BooksInv'
  BY <1>1 DEF SoundBooks
<1>3. CASE UNCHANGED vars
  BY <1>2, <1>3, BooksStutter
<1>4. CASE Refuse \/ RefuseRevision
  BY <1>2, <1>4, BooksRefuse
<1>5. CASE TakeLocks
  BY <1>2, <1>5, BooksTakeLocks
<1>6. CASE Fill
  BY <1>6, BooksFillStep
<1>7. CASE PolishFilled
  BY <1>7, BooksPolishFilled
<1>8. CASE PolishOwned
  BY <1>8, BooksPolishOwned
<1>9. CASE RunSingles
  BY <1>9, BooksRunSingles
<1>10. CASE BeginScan
  BY <1>2, <1>10, BooksBeginScan
<1>11. CASE \E w \in Worker : Claim(w) \/ File(w)
  BY <1>2, <1>11, BooksClaim, BooksFile
<1>12. CASE Reduce
  BY <1>12, BooksReduce
<1>13. CASE RunFunded
  BY <1>13, BooksRunFunded
<1>14. CASE PolishSeed
  BY <1>14, BooksPolishSeed
<1>15. CASE Answer
  BY <1>15, BooksAnswer
<1>16. CASE Finished
  BY <1>3, <1>16 DEF Finished
<1>. QED
  BY <1>3, <1>4, <1>5, <1>6, <1>7, <1>8, <1>9, <1>10, <1>11, <1>12, <1>13, <1>14, <1>15, <1>16 DEF Next

LEMMA BooksHold == Spec => []SoundBooks
<1>1. Init => SoundBooks
  BY InitInv, BooksBegin DEF SoundBooks
<1>2. SoundBooks /\ [Next]_vars => SoundBooks'
  BY BooksStep
<1>. QED
  BY <1>1, <1>2, PTL DEF Spec

(* The figures that the moves carry forward are the squad's own: the       *)
(* answer costs and scores what it says, and is within the budget unless   *)
(* it is the owned squad as it was.                                        *)
THEOREM CarriesItsBooks == Spec => []BooksAreRight
<1>1. SoundBooks => BooksAreRight
  <2>1. SUFFICES ASSUME SoundBooks, Searching PROVE BooksAreRight
    BY DEF BooksAreRight, Searching
  <2>2. /\ spend = Cost(squad) /\ best = Objective(squad) /\ clubs = Counts(squad)
        /\ spend <= req.budget \/ squad = req.owned
    BY <2>1 DEF SoundBooks, SearchInv, BooksInv, SquadBooks
  <2>3. ~Unlimited => spent = Distance(squad)
    BY <2>1 DEF SoundBooks, SearchInv, PolishInv, Distance, Unlimited
  <2>. QED
    BY <2>2, <2>3 DEF BooksAreRight
<1>. QED
  BY <1>1, BooksHold, PTL

(* The search never hands back less than it set out from, neither than any *)
(* seed of a new squad nor than the squad it revises: no move loses, and   *)
(* of the two polished squads the better is kept.                          *)
THEOREM GainsOrKeeps == Spec => []NeverWorseThanItsStart
<1>1. SoundBooks => NeverWorseThanItsStart
  BY DEF SoundBooks, BooksInv
<1>. QED
  BY <1>1, BooksHold, PTL

-----------------------------------------------------------------------------
(* The replay.  FoldLeft recurses over sets of places in the line; a table *)
(* of what it yields for each exists, and there is only one.               *)
Replays(it, line, S) ==
  it = [s \in SUBSET S |-> IF s = {} THEN Entry ELSE Accept(it[s \ {Max(s)}], line[Max(s)])]

ReplayTable(line, S) == CHOOSE it : Replays(it, line, S)

ReplayOf(line, S) == ReplayTable(line, S)[S]

ReplayRows(line, S) == [s \in SUBSET S |-> ReplayOf(line, s)]

LEMMA ReplayIsTable ==
  ASSUME NEW line
  PROVE  FoldLeft(Accept, Entry, line) = ReplayOf(line, DOMAIN line)
BY DEF FoldLeft, MapThenFoldSet, Replays, ReplayTable, ReplayOf

LEMMA MaxIsIn ==
  ASSUME NEW S, IsFiniteSet(S), S \subseteq Int, S # {}
  PROVE  Max(S) \in S /\ \A y \in S : y <= Max(S)
<1>. DEFINE B == {s \in SUBSET S : s = {} \/ \E x \in s : \A y \in s : x >= y}
<1>1. {} \in B
  OBVIOUS
<1>2. ASSUME NEW s \in SUBSET S, NEW x \in s, s \ {x} \in B PROVE s \in B
  <2>1. CASE s \ {x} = {}
    <3>1. \A y \in s : x >= y
      BY <2>1
    <3>. QED
      BY <3>1
  <2>2. CASE s \ {x} # {}
    <3>1. PICK z \in s \ {x} : \A y \in s \ {x} : z >= y
      BY <1>2, <2>2
    <3>2. CASE z >= x
      <4>1. \A y \in s : z >= y
        BY <3>1, <3>2
      <4>. QED
        BY <4>1
    <3>3. CASE ~(z >= x)
      <4>1. \A y \in s : x >= y
        BY <3>1, <3>3
      <4>. QED
        BY <4>1
    <3>. QED
      BY <3>2, <3>3
  <2>. QED
    BY <2>1, <2>2
<1>. HIDE DEF B
<1>3. S \in B
  BY <1>1, <1>2, OneByOne
<1>4. \E x \in S : \A y \in S : x >= y
  BY <1>3 DEF B
<1>. QED
  BY <1>4 DEF Max

LEMMA TableOfReplays ==
  ASSUME NEW line, NEW S, IsFiniteSet(S), S \subseteq Int
  PROVE  Replays(ReplayRows(line, S), line, S)
<1>. DEFINE Good(s) == \A it : Replays(it, line, s) <=> it = ReplayRows(line, s)
            B == {s \in SUBSET S : ~Good(s)}
<1>1. SUFFICES ASSUME B # {} PROVE FALSE
  <2>1. Good(S)
    BY <1>1
  <2>. QED
    BY <2>1
<1>2. PICK s \in B : \A u \in SUBSET s : u # s => u \notin B
  <2>. HIDE DEF B
  <2>1. B \subseteq SUBSET S
    BY DEF B
  <2>. QED
    BY <1>1, <2>1, LeastSubset
<1>3. ASSUME NEW u \in SUBSET s, u # s PROVE Good(u)
  BY <1>2, <1>3
<1>4. ASSUME NEW u \in SUBSET s, u # {} PROVE Max(u) \in u
  <2>1. IsFiniteSet(u) /\ u \subseteq Int
    BY <1>2, FS_Subset
  <2>. QED
    BY <1>4, <2>1, MaxIsIn
<1>. DEFINE p == Max(s)
            Outcome == IF s = {} THEN Entry ELSE Accept(ReplayOf(line, s \ {p}), line[p])
            J == [u \in SUBSET s |-> IF u = s THEN Outcome ELSE ReplayOf(line, u)]
<1>p. s # {} => p \in s
  BY <1>4
<1>. HIDE DEF p, Good
<1>5. ASSUME NEW u \in SUBSET s, u # s, u # {}
      PROVE  ReplayOf(line, u) = Accept(ReplayOf(line, u \ {Max(u)}), line[Max(u)])
  <2>1. Replays(ReplayRows(line, u), line, u)
    BY <1>3, <1>5 DEF Good
  <2>2. u \in SUBSET u /\ u \ {Max(u)} \in SUBSET u
    OBVIOUS
  <2>3. ReplayRows(line, u)[u] = Accept(ReplayRows(line, u)[u \ {Max(u)}], line[Max(u)])
    BY <1>5, <2>1, <2>2 DEF Replays
  <2>. QED
    BY <2>2, <2>3 DEF ReplayRows
<1>6. ReplayOf(line, {}) = Entry
  <2>1. \A it : Replays(it, line, {}) <=> it = [u \in SUBSET {} |-> Entry]
    <3>. SUFFICES ASSUME NEW it PROVE Replays(it, line, {}) <=> it = [u \in SUBSET {} |-> Entry]
      OBVIOUS
    <3>1. [u \in SUBSET {} |-> IF u = {} THEN Entry ELSE Accept(it[u \ {Max(u)}], line[Max(u)])]
            = [u \in SUBSET {} |-> Entry]
      OBVIOUS
    <3>. QED
      BY <3>1 DEF Replays
  <2>2. ReplayTable(line, {}) = [u \in SUBSET {} |-> Entry]
    BY <2>1 DEF ReplayTable
  <2>. QED
    BY <2>2 DEF ReplayOf
<1>7. Replays(J, line, s)
  <2>1. ASSUME NEW u \in SUBSET s
        PROVE  J[u] = IF u = {} THEN Entry ELSE Accept(J[u \ {Max(u)}], line[Max(u)])
    <3>1. CASE u = {}
      BY <1>6, <3>1
    <3>2. CASE u # {} /\ u # s
      <4>1. u \ {Max(u)} \in SUBSET s /\ u \ {Max(u)} # s
        BY <3>2
      <4>. QED
        BY <1>5, <3>2, <4>1
    <3>3. CASE u # {} /\ u = s
      <4>1. s \ {p} \in SUBSET s /\ s \ {p} # s
        BY <1>p, <3>3
      <4>. QED
        BY <3>3, <4>1 DEF p
    <3>. QED
      BY <3>1, <3>2, <3>3
  <2>2. J = [u \in SUBSET s |-> J[u]]
    OBVIOUS
  <2>. HIDE DEF J
  <2>. QED
    BY <2>1, <2>2 DEF Replays
<1>8. ASSUME NEW it, Replays(it, line, s) PROVE it = J
  <2>1. ASSUME NEW u \in SUBSET s, u # s PROVE it[u] = ReplayOf(line, u)
    <3>. DEFINE r == [w \in SUBSET u |-> it[w]]
    <3>1. ASSUME NEW w \in SUBSET u
          PROVE  r[w] = IF w = {} THEN Entry ELSE Accept(r[w \ {Max(w)}], line[Max(w)])
      <4>1. w \in SUBSET s /\ w \ {Max(w)} \in SUBSET u
        OBVIOUS
      <4>2. it[w] = IF w = {} THEN Entry ELSE Accept(it[w \ {Max(w)}], line[Max(w)])
        BY <1>8, <4>1 DEF Replays
      <4>. QED
        BY <4>1, <4>2
    <3>2. r = [w \in SUBSET u |-> r[w]]
      OBVIOUS
    <3>. HIDE DEF r
    <3>3. Replays(r, line, u)
      BY <3>1, <3>2 DEF Replays
    <3>4. r = ReplayRows(line, u)
      BY <1>3, <2>1, <3>3 DEF Good
    <3>5. r[u] = ReplayOf(line, u)
      BY <3>4 DEF ReplayRows
    <3>. QED
      BY <3>5 DEF r
  <2>2. it[s] = Outcome
    <3>1. it[s] = IF s = {} THEN Entry ELSE Accept(it[s \ {p}], line[p])
      BY <1>8 DEF Replays, p
    <3>2. s # {} => s \ {p} # s
      BY <1>p
    <3>. QED
      BY <2>1, <3>1, <3>2
  <2>3. it = [u \in SUBSET s |-> it[u]]
    BY <1>8 DEF Replays
  <2>4. \A u \in SUBSET s : it[u] = J[u]
    BY <2>1, <2>2
  <2>. HIDE DEF J
  <2>5. J = [u \in SUBSET s |-> J[u]]
    BY DEF J
  <2>. QED
    BY <2>3, <2>4, <2>5
<1>9. ReplayTable(line, s) = J
  <2>. HIDE DEF J
  <2>1. \A it : Replays(it, line, s) <=> it = J
    BY <1>7, <1>8
  <2>. QED
    BY <2>1 DEF ReplayTable
<1>10. J = ReplayRows(line, s)
  <2>1. ReplayOf(line, s) = Outcome
    BY <1>9 DEF ReplayOf
  <2>. QED
    BY <2>1 DEF ReplayRows
<1>11. Good(s)
  <2>. HIDE DEF J
  <2>. QED
    BY <1>7, <1>8, <1>10 DEF Good
<1>. QED
  BY <1>11, <1>2

(* So the replay of n finds is that of the first n - 1, and then the last. *)
LEMMA ReplayLast ==
  ASSUME NEW line, NEW n \in Nat, n # 0
  PROVE  ReplayOf(line, 1..n) = Accept(ReplayOf(line, 1..(n - 1)), line[n])
<1>1. IsFiniteSet(1..n) /\ 1..n \subseteq Int /\ 1..n # {}
  <2>1. IsFiniteSet(1..n)
    BY FS_Interval
  <2>2. 1 \in 1..n
    OBVIOUS
  <2>. QED
    BY <2>1, <2>2
<1>2. Max(1..n) \in 1..n /\ \A y \in 1..n : y <= Max(1..n)
  BY <1>1, MaxIsIn
<1>3. Max(1..n) = n /\ (1..n) \ {n} = 1..(n - 1)
  BY <1>2
<1>4. Replays(ReplayRows(line, 1..n), line, 1..n)
  BY <1>1, TableOfReplays
<1>5. 1..n \in SUBSET (1..n) /\ 1..(n - 1) \in SUBSET (1..n)
  OBVIOUS
<1>6. ReplayRows(line, 1..n)[1..n] = Accept(ReplayRows(line, 1..n)[1..(n - 1)], line[n])
  BY <1>1, <1>3, <1>4, <1>5 DEF Replays
<1>. QED
  BY <1>5, <1>6 DEF ReplayRows

LEMMA ReplayNone ==
  ASSUME NEW line
  PROVE  ReplayOf(line, {}) = Entry
<1>1. Replays(ReplayRows(line, {}), line, {})
  BY TableOfReplays, FS_EmptySet
<1>2. {} \in SUBSET {}
  OBVIOUS
<1>3. ReplayRows(line, {})[{}] = Entry
  BY <1>1, <1>2 DEF Replays
<1>. QED
  BY <1>2, <1>3 DEF ReplayRows

(* Two lines that agree on their first n are replayed alike so far.        *)
LEMMA ReplayAgrees ==
  ASSUME NEW a, NEW b, NEW n \in Nat, \A k \in 1..n : a[k] = b[k]
  PROVE  ReplayOf(a, 1..n) = ReplayOf(b, 1..n)
<1>1. ASSUME NEW s \in SUBSET (1..n), s # {} PROVE a[Max(s)] = b[Max(s)]
  <2>1. IsFiniteSet(1..n)
    BY FS_Interval
  <2>2. IsFiniteSet(s)
    BY <2>1, FS_Subset
  <2>3. \A k \in s : k \in 1..n /\ k \in Int
    OBVIOUS
  <2>4. Max(s) \in s
    BY <1>1, <2>2, <2>3, MaxIsIn
  <2>. QED
    BY <2>3, <2>4
<1>2. ASSUME NEW it PROVE Replays(it, a, 1..n) <=> Replays(it, b, 1..n)
  <2>1. [s \in SUBSET (1..n) |-> IF s = {} THEN Entry ELSE Accept(it[s \ {Max(s)}], a[Max(s)])]
          = [s \in SUBSET (1..n) |-> IF s = {} THEN Entry ELSE Accept(it[s \ {Max(s)}], b[Max(s)])]
    BY <1>1
  <2>. QED
    BY <2>1 DEF Replays
<1>. QED
  BY <1>2 DEF ReplayOf, ReplayTable

-----------------------------------------------------------------------------
(* The line: what is replayed stands in the order of the serial scan.      *)

(* The last of some pairs: all others are before him, and he before none.  *)
Closes(x, pairs) ==
  /\ x \in pairs /\ ~ScanBefore(x, x)
  /\ \A q \in pairs \ {x} : ScanBefore(q, x) /\ ~ScanBefore(x, q) /\ ~ScanBefore(q, q)

LEMMA LastInLine ==
  ASSUME NEW A, IsFiniteSet(A), NEW x, Closes(x, A)
  PROVE  LET n == Cardinality(A)
         IN  /\ n \in Nat \ {0} /\ Cardinality(A \ {x}) = n - 1
             /\ InScanOrder(A)[n] = x
             /\ \A k \in 1..(n - 1) : InScanOrder(A)[k] = InScanOrder(A \ {x})[k]
<1>. DEFINE n == Cardinality(A)
            R == A \ {x}
            Earlier(p, S) == {q \in S : ScanBefore(q, p)}
<1>1. x \in A /\ IsFiniteSet(R) /\ Cardinality(R) = n - 1 /\ n \in Nat /\ Cardinality(R) \in Nat
  BY FS_RemoveElement, FS_CardinalityType DEF Closes
<1>2. n \in Nat \ {0}
  BY <1>1
<1>3. Earlier(x, A) = R
  BY DEF Closes
<1>4. ASSUME NEW p \in R
      PROVE  /\ Earlier(p, A) = Earlier(p, R)
             /\ Cardinality(Earlier(p, A)) \in Nat /\ Cardinality(Earlier(p, A)) < n - 1
  <2>1. Earlier(p, A) = Earlier(p, R) /\ Earlier(p, A) \subseteq R \ {p}
    BY DEF Closes
  <2>2. IsFiniteSet(R \ {p}) /\ Cardinality(R \ {p}) = Cardinality(R) - 1
    BY <1>1, FS_RemoveElement
  <2>3. IsFiniteSet(Earlier(p, A)) /\ Cardinality(Earlier(p, A)) <= Cardinality(R \ {p})
    BY <2>1, <2>2, FS_Subset
  <2>4. Cardinality(Earlier(p, A)) \in Nat
    BY <2>3, FS_CardinalityType
  <2>. QED
    BY <1>1, <2>1, <2>2, <2>3, <2>4
<1>5. /\ \A p, S : Rank(p, S, ScanBefore) = Cardinality(Earlier(p, S))
      /\ \A k \in 1..n : InScanOrder(A)[k] = CHOOSE p \in A : Cardinality(Earlier(p, A)) = k - 1
      /\ \A k \in 1..(n - 1) : InScanOrder(R)[k] = CHOOSE p \in R : Cardinality(Earlier(p, R)) = k - 1
  BY <1>1 DEF InScanOrder, InOrder, Rank
<1>. HIDE DEF n, R, Earlier
<1>6. InScanOrder(A)[n] = x
  <2>1. ASSUME NEW p \in A PROVE Cardinality(Earlier(p, A)) = n - 1 <=> p = x
    <3>1. CASE p = x
      BY <1>1, <1>3, <3>1
    <3>2. CASE p # x
      <4>1. p \in R
        BY <3>2 DEF R
      <4>. QED
        BY <1>2, <1>4, <3>2, <4>1
    <3>. QED
      BY <3>1, <3>2
  <2>2. InScanOrder(A)[n] = CHOOSE p \in A : Cardinality(Earlier(p, A)) = n - 1
    BY <1>2, <1>5
  <2>. QED
    BY <1>1, <2>1, <2>2
<1>7. ASSUME NEW k \in 1..(n - 1) PROVE InScanOrder(A)[k] = InScanOrder(R)[k]
  <2>1. \A p : (p \in A /\ Cardinality(Earlier(p, A)) = k - 1) <=> (p \in R /\ Cardinality(Earlier(p, R)) = k - 1)
    <3>1. ASSUME NEW p \in A, Cardinality(Earlier(p, A)) = k - 1 PROVE p # x
      BY <1>1, <1>2, <1>3, <3>1
    <3>2. \A p : p \in R <=> p \in A /\ p # x
      BY DEF R
    <3>. QED
      BY <1>4, <3>1, <3>2
  <2>2. InScanOrder(A)[k] = CHOOSE p \in A : Cardinality(Earlier(p, A)) = k - 1
    BY <1>2, <1>5
  <2>3. InScanOrder(R)[k] = CHOOSE p \in R : Cardinality(Earlier(p, R)) = k - 1
    BY <1>5
  <2>. QED
    BY <2>1, <2>2, <2>3
<1>8. Cardinality(A) = n /\ A \ {x} = R
  BY DEF n, R
<1>. QED
  BY <1>1, <1>2, <1>6, <1>7, <1>8

(* Hence the replay of all is that of all but the last, and then the last. *)
LEMMA ReplayUnfolds ==
  ASSUME NEW A, IsFiniteSet(A), NEW x, Closes(x, A)
  PROVE  Replay(A) = Accept(Replay(A \ {x}), x)
<1>. DEFINE n == Cardinality(A)
            a == InScanOrder(A)
            b == InScanOrder(A \ {x})
<1>1. /\ n \in Nat \ {0} /\ Cardinality(A \ {x}) = n - 1 /\ a[n] = x
      /\ \A k \in 1..(n - 1) : a[k] = b[k]
  BY LastInLine
<1>2. DOMAIN a = 1..n /\ DOMAIN b = 1..(n - 1)
  BY <1>1 DEF InScanOrder, InOrder
<1>3. Replay(A) = ReplayOf(a, 1..n) /\ Replay(A \ {x}) = ReplayOf(b, 1..(n - 1))
  BY <1>2, ReplayIsTable DEF Replay
<1>. HIDE DEF n, a, b
<1>4. ReplayOf(a, 1..n) = Accept(ReplayOf(a, 1..(n - 1)), x)
  BY <1>1, ReplayLast
<1>5. ReplayOf(a, 1..(n - 1)) = ReplayOf(b, 1..(n - 1))
  BY <1>1, ReplayAgrees
<1>. QED
  BY <1>3, <1>4, <1>5

LEMMA ReplayOfNone == Replay({}) = Entry
<1>1. Cardinality({}) = 0
  BY FS_EmptySet
<1>2. DOMAIN InScanOrder({}) = {}
  BY <1>1 DEF InScanOrder, InOrder
<1>. QED
  BY <1>2, ReplayIsTable, ReplayNone DEF Replay

-----------------------------------------------------------------------------
(* The serial scan's order is a strict one, and any two pairs differ in it.*)
AtWork(m) == m.out \in Player /\ m.in \in Player /\ m.upOut \in Player /\ m.upIn \in Player

LEMMA OrderIsStrict ==
  ASSUME Players, NEW a, NEW b, NEW c, AtWork(a), AtWork(b), AtWork(c)
  PROVE  /\ ~ScanBefore(a, a)
         /\ ScanBefore(a, b) => ~ScanBefore(b, a)
         /\ ScanBefore(a, b) /\ ScanBefore(b, c) => ScanBefore(a, c)
<1>1. /\ \A p \in Player : p \in Int
      /\ \A p \in Player : Score(p) \in Int /\ Price(p) \in Int
  BY SquadConstants, MarketType DEF Score, Price
<1>2. ASSUME NEW p \in Player, NEW q \in Player, NEW r \in Player
      PROVE  /\ ~Stronger(p, p) /\ (Stronger(p, q) => ~Stronger(q, p))
             /\ Stronger(p, q) /\ Stronger(q, r) => Stronger(p, r)
  BY <1>1 DEF Stronger
<1>3. ASSUME NEW p \in Player, NEW q \in Player, NEW r \in Player
      PROVE  /\ ~Cheaper(p, p) /\ (Cheaper(p, q) => ~Cheaper(q, p))
             /\ Cheaper(p, q) /\ Cheaper(q, r) => Cheaper(p, r)
  BY <1>1, <1>2 DEF Cheaper
<1>4. \A m, n : ScanBefore(m, n) <=>
        \/ m.out < n.out
        \/ m.out = n.out /\ Cheaper(m.in, n.in)
        \/ m.out = n.out /\ m.in = n.in /\ m.upOut < n.upOut
        \/ m.out = n.out /\ m.in = n.in /\ m.upOut = n.upOut /\ Stronger(m.upIn, n.upIn)
  BY DEF ScanBefore, ChunkBefore, UpBefore
<1>5. ~ScanBefore(a, a) /\ (ScanBefore(a, b) => ~ScanBefore(b, a))
  BY <1>1, <1>2, <1>3, <1>4 DEF AtWork
<1>6. ScanBefore(a, b) /\ ScanBefore(b, c) => ScanBefore(a, c)
  BY <1>1, <1>2, <1>3, <1>4 DEF AtWork
<1>. QED
  BY <1>5, <1>6

(* A pair that any chunk may be paired with is one the search may apply.   *)
LEMMA AllPairsOK ==
  ASSUME squad \subseteq Player, NEW m \in AllPairs
  PROVE  /\ PairOK(m) /\ AtWork(m)
         /\ m = [out |-> m.out, in |-> m.in, upOut |-> m.upOut, upIn |-> m.upIn,
                 score |-> Objective(AfterPair(m.out, m.in, m.upOut, m.upIn))]
<1>1. PICK ch \in Chunks : m \in Paired(ch[1], ch[2])
  BY DEF AllPairs
<1>2. PairOK(m)
  BY <1>1, PairedPairs
<1>3. AtWork(m)
  BY <1>2 DEF PairOK, AtWork
<1>4. PICK x : m = [out |-> ch[1], in |-> ch[2], upOut |-> x[1], upIn |-> x[2],
                    score |-> Objective(AfterPair(ch[1], ch[2], x[1], x[2]))]
  BY <1>1 DEF Paired
<1>. QED
  BY <1>2, <1>3, <1>4

LEMMA OrderIsTotal ==
  ASSUME Players, squad \subseteq Player, NEW a \in AllPairs, NEW b \in AllPairs, a # b
  PROVE  ScanBefore(a, b) \/ ScanBefore(b, a)
<1>1. /\ \A p \in Player : p \in Int
      /\ \A p \in Player : Score(p) \in Int /\ Price(p) \in Int
  BY SquadConstants, MarketType DEF Score, Price
<1>2. \A p, q \in Player : p # q => Stronger(p, q) \/ Stronger(q, p)
  BY <1>1 DEF Stronger
<1>3. \A p, q \in Player : p # q => Cheaper(p, q) \/ Cheaper(q, p)
  BY <1>1, <1>2 DEF Cheaper
<1>4. AtWork(a) /\ AtWork(b)
  BY AllPairsOK
<1>5. a.out # b.out \/ a.in # b.in \/ a.upOut # b.upOut \/ a.upIn # b.upIn
  <2>1. /\ a = [out |-> a.out, in |-> a.in, upOut |-> a.upOut, upIn |-> a.upIn,
                score |-> Objective(AfterPair(a.out, a.in, a.upOut, a.upIn))]
        /\ b = [out |-> b.out, in |-> b.in, upOut |-> b.upOut, upIn |-> b.upIn,
                score |-> Objective(AfterPair(b.out, b.in, b.upOut, b.upIn))]
    BY AllPairsOK
  <2>. QED
    BY <2>1
<1>. QED
  BY <1>1, <1>2, <1>3, <1>4, <1>5 DEF AtWork, ScanBefore, ChunkBefore, UpBefore

LEMMA SomeoneCloses ==
  ASSUME Players, squad \subseteq Player, NEW A, A \subseteq AllPairs, IsFiniteSet(A), A # {}
  PROVE  \E x : Closes(x, A)
<1>0. \A m \in A : AtWork(m)
  BY AllPairsOK
<1>. DEFINE B == {s \in SUBSET A : s = {} \/ \E x \in s : \A q \in s \ {x} : ScanBefore(q, x)}
<1>1. {} \in B
  OBVIOUS
<1>2. ASSUME NEW s \in SUBSET A, NEW x \in s, s \ {x} \in B PROVE s \in B
  <2>1. CASE s \ {x} = {}
    BY <2>1
  <2>2. CASE s \ {x} # {}
    <3>1. PICK z \in s \ {x} : \A q \in (s \ {x}) \ {z} : ScanBefore(q, z)
      BY <1>2, <2>2
    <3>2. ScanBefore(x, z) \/ ScanBefore(z, x)
      <4>1. x \in AllPairs /\ z \in AllPairs /\ x # z
        BY <3>1
      <4>. QED
        BY <4>1, OrderIsTotal
    <3>3. CASE ScanBefore(x, z)
      <4>1. \A q \in s \ {z} : ScanBefore(q, z)
        BY <3>1, <3>3
      <4>. QED
        BY <3>1, <4>1
    <3>4. CASE ScanBefore(z, x)
      <4>1. ASSUME NEW q \in s \ {x} PROVE ScanBefore(q, x)
        <5>1. q = z \/ ScanBefore(q, z)
          BY <3>1
        <5>2. AtWork(q) /\ AtWork(z) /\ AtWork(x)
          BY <1>0, <3>1
        <5>. QED
          BY <3>4, <5>1, <5>2, OrderIsStrict
      <4>. QED
        BY <4>1
    <3>. QED
      BY <3>2, <3>3, <3>4
  <2>. QED
    BY <2>1, <2>2
<1>. HIDE DEF B
<1>3. A \in B
  BY <1>1, <1>2, OneByOne
<1>4. PICK x \in A : \A q \in A \ {x} : ScanBefore(q, x)
  BY <1>3 DEF B
<1>5. ~ScanBefore(x, x) /\ \A q \in A : ~ScanBefore(q, q)
  BY <1>0, OrderIsStrict
<1>6. ASSUME NEW q \in A \ {x} PROVE ~ScanBefore(x, q)
  <2>1. AtWork(q) /\ AtWork(x) /\ ScanBefore(q, x)
    BY <1>0, <1>4
  <2>. QED
    BY <2>1, OrderIsStrict
<1>. QED
  BY <1>4, <1>5, <1>6 DEF Closes

LEMMA PairsAreFinite ==
  ASSUME Players, squad \subseteq Player
  PROVE  IsFiniteSet(AllPairs)
<1>. DEFINE W == (Player \X Player) \X (Player \X Player)
            made == [x \in W |-> [out |-> x[1][1], in |-> x[1][2], upOut |-> x[2][1], upIn |-> x[2][2],
                                  score |-> Objective(AfterPair(x[1][1], x[1][2], x[2][1], x[2][2]))]]
            T == {made[x] : x \in W}
<1>1. IsFiniteSet(W)
  <2>1. IsFiniteSet(Player \X Player)
    BY SquadConstants, FS_Product
  <2>. QED
    BY <2>1, FS_Product
<1>2. ASSUME NEW m \in AllPairs PROVE m \in T
  <2>1. /\ AtWork(m)
        /\ m = [out |-> m.out, in |-> m.in, upOut |-> m.upOut, upIn |-> m.upIn,
                score |-> Objective(AfterPair(m.out, m.in, m.upOut, m.upIn))]
    BY AllPairsOK
  <2>. DEFINE x == <<<<m.out, m.in>>, <<m.upOut, m.upIn>>>>
  <2>2. x \in W
    BY <2>1 DEF AtWork
  <2>3. made[x] = m
    BY <2>1, <2>2
  <2>. QED
    BY <2>2, <2>3
<1>. HIDE DEF W
<1>3. made \in Surjection(W, T)
  BY DEF Surjection
<1>. HIDE DEF made, T
<1>4. IsFiniteSet(T)
  BY <1>1, <1>3, FS_Surjection
<1>. QED
  BY <1>2, <1>4, FS_Subset

(* A pair that does not beat the score the scan began with never wins: the *)
(* replay may leave all of them out.                                       *)
Beating == {m \in AllPairs : m.score > best + Eps}

LEMMA ReplayLeavesOut ==
  ASSUME world \in World, req \in Request, squad \subseteq Player, Sound(squad), clubs = Counts(squad),
         best = Objective(squad)
  PROVE  Replay(Beating) = Replay(AllPairs)
<1>1. Players
  BY Constants
<1>2. best \in Int /\ Eps \in Nat
  BY <1>1, ObjectiveType, MarketType DEF Sound
<1>3. ASSUME NEW m \in AllPairs PROVE m.score \in Int
  <2>1. /\ PairOK(m) /\ m.score = Objective(AfterPair(m.out, m.in, m.upOut, m.upIn))
    BY AllPairsOK
  <2>2. /\ AfterPair(m.out, m.in, m.upOut, m.upIn) \subseteq Player
        /\ Filled(AfterPair(m.out, m.in, m.upOut, m.upIn))
    BY <1>1, <2>1, PairIsSound DEF Sound
  <2>. QED
    BY <2>1, <2>2, ObjectiveType
<1>. DEFINE Good(s) == /\ Replay(s) = Replay(s \cap Beating)
                       /\ Replay(s).score \in Int /\ Replay(s).score >= best
            Bad == {s \in SUBSET AllPairs : ~Good(s)}
<1>4. SUFFICES ASSUME Bad # {} PROVE FALSE
  <2>1. Good(AllPairs)
    BY <1>4
  <2>2. AllPairs \cap Beating = Beating
    BY DEF Beating
  <2>. QED
    BY <2>1, <2>2
<1>5. PICK s \in Bad : \A u \in SUBSET s : u # s => u \notin Bad
  <2>1. Bad \subseteq SUBSET AllPairs
    OBVIOUS
  <2>. HIDE DEF Bad
  <2>. QED
    BY <1>1, <1>4, <2>1, PairsAreFinite, LeastSubset
<1>6. s \subseteq AllPairs /\ IsFiniteSet(s)
  BY <1>1, <1>5, PairsAreFinite, FS_Subset
<1>7. CASE s = {}
  <2>1. Replay(s) = Entry /\ s \cap Beating = s
    BY <1>7, ReplayOfNone
  <2>2. Good(s)
    BY <1>2, <2>1 DEF Entry
  <2>. QED
    BY <1>5, <2>2
<1>8. CASE s # {}
  <2>1. PICK x : Closes(x, s)
    BY <1>1, <1>6, <1>8, SomeoneCloses
  <2>. DEFINE r == s \ {x}
              so == Replay(r)
  <2>2. x \in s /\ x \in AllPairs /\ x.score \in Int
    BY <1>3, <1>6, <2>1 DEF Closes
  <2>3. r \in SUBSET s /\ r # s /\ r \in SUBSET AllPairs
    BY <1>6, <2>2
  <2>4. Good(r)
    BY <1>5, <2>3
  <2>5. Replay(s) = Accept(so, x)
    BY <1>6, <2>1, ReplayUnfolds
  <2>6. Replay(s).score \in Int /\ Replay(s).score >= best
    <3>1. so.score \in Int /\ so.score >= best
      BY <2>4
    <3>. HIDE DEF so
    <3>. QED
      BY <1>2, <2>2, <2>5, <3>1 DEF Accept
  <2>7. CASE x \in Beating
    <3>1. Closes(x, s \cap Beating) /\ IsFiniteSet(s \cap Beating)
      BY <1>6, <2>1, <2>7, FS_Subset DEF Closes
    <3>2. Replay(s \cap Beating) = Accept(Replay((s \cap Beating) \ {x}), x)
      BY <3>1, ReplayUnfolds
    <3>3. (s \cap Beating) \ {x} = r \cap Beating
      OBVIOUS
    <3>4. Replay(s \cap Beating) = Replay(s)
      BY <2>4, <2>5, <3>2, <3>3
    <3>. QED
      BY <1>5, <2>6, <3>4
  <2>8. CASE x \notin Beating
    <3>1. x.score <= best + Eps
      BY <1>2, <2>2, <2>8 DEF Beating
    <3>2. so.score \in Int /\ so.score >= best
      BY <2>4
    <3>3. Replay(s) = so
      <4>. HIDE DEF so
      <4>. QED
        BY <1>2, <2>2, <2>5, <3>1, <3>2 DEF Accept
    <3>4. s \cap Beating = r \cap Beating
      BY <2>8
    <3>5. Replay(s \cap Beating) = Replay(s)
      BY <2>4, <3>3, <3>4
    <3>. QED
      BY <1>5, <2>6, <3>5
  <2>. QED
    BY <2>7, <2>8
<1>. QED
  BY <1>7, <1>8

-----------------------------------------------------------------------------
(* No chunk is lost between the workers: each is left, or held by one of   *)
(* them, or has been filed.                                                *)
ScanInFull ==
  stage = "scan" =>
    /\ \A m \in scan.found : \E ch \in Chunks : m \in Scanned(ch)
    /\ \A ch \in Chunks : \/ ch \in scan.left
                          \/ \E w \in Worker : scan.held[w] = {ch}
                          \/ Scanned(ch) \subseteq scan.found

LEMMA ScanStands ==
  ASSUME UNCHANGED <<world, req, squad, spend, clubs, spent, best>>
  PROVE  Chunks' = Chunks /\ \A ch : Scanned(ch)' = Scanned(ch)
<1>1. Chunks' = Chunks
  BY DEF Chunks, Cheapest, Pool, Foremost, Rank, At, Cheaper, Stronger, Price, Score
<1>2. ASSUME NEW o, NEW i PROVE Paired(o, i)' = Paired(o, i)
  <2>1. /\ \A p : Price(p)' = Price(p)
        /\ Pool' = Pool
        /\ \A pos : Strongest(pos)' = Strongest(pos)
        /\ \A p, q : Delta(p, q)' = Delta(p, q)
        /\ \A p, q : ClubAfter(p, q)' = ClubAfter(p, q)
    BY RulesStand, OrdersStand DEF Strongest, At, Delta, Unlimited, ClubAfter
  <2>2. /\ \A p, q : SpendAfter(p, q)' = SpendAfter(p, q)
        /\ \A d : WithinLimit(d)' <=> WithinLimit(d)
        /\ \A u, v : ClubsAfterPair(o, i, u, v)' <=> ClubsAfterPair(o, i, u, v)
    BY <2>1 DEF SpendAfter, WithinLimit, Unlimited, ClubsAfterPair, Moved, Team
  <2>3. \A u, v : Objective(AfterPair(o, i, u, v))' = Objective(AfterPair(o, i, u, v))
    <3>1. \A u, v : AfterPair(o, i, u, v)' = AfterPair(o, i, u, v)
      BY DEF AfterPair, Swapped
    <3>. QED
      BY <3>1, ObjectiveStands
  <2>. QED
    BY <2>1, <2>2, <2>3 DEF Paired
<1>3. \A ch : Scanned(ch)' = Scanned(ch)
  BY <1>2 DEF Scanned
<1>. QED
  BY <1>1, <1>3

LEMMA FullClaim ==
  ASSUME TypeOK, SearchInv, ScanInFull, NEW w \in Worker, Claim(w)
  PROVE  ScanInFull'
<1>1. PICK ch \in scan.left : scan' = [scan EXCEPT !.left = @ \ {ch}, !.held[w] = {ch}]
  BY DEF Claim, Foremost
<1>2. /\ stage = "scan" /\ scan.held[w] = {} /\ scan.held \in [Worker -> SUBSET (Player \X Player)]
      /\ UNCHANGED <<world, req, squad, spend, clubs, spent, best>>
  BY DEF Claim, TypeOK
<1>3. /\ scan'.left = scan.left \ {ch} /\ scan'.held = [scan.held EXCEPT ![w] = {ch}]
      /\ scan'.found = scan.found
  BY <1>1
<1>4. scan'.held[w] = {ch} /\ \A v \in Worker : v # w => scan'.held[v] = scan.held[v]
  BY <1>2, <1>3
<1>5. Chunks' = Chunks /\ \A c : Scanned(c)' = Scanned(c)
  BY <1>2, ScanStands
<1>6. ASSUME NEW c \in Chunks
      PROVE  \/ c \in scan'.left
             \/ \E v \in Worker : scan'.held[v] = {c}
             \/ Scanned(c) \subseteq scan'.found
  <2>1. CASE c \in scan.left
    BY <1>3, <1>4, <2>1
  <2>2. ASSUME NEW v \in Worker, scan.held[v] = {c} PROVE \E u \in Worker : scan'.held[u] = {c}
    <3>1. v # w
      BY <1>2, <2>2
    <3>. QED
      BY <1>4, <2>2, <3>1
  <2>. QED
    BY <1>2, <1>3, <2>1, <2>2 DEF ScanInFull
<1>. QED
  BY <1>2, <1>3, <1>5, <1>6 DEF ScanInFull

LEMMA FullFile ==
  ASSUME TypeOK, SearchInv, ScanInFull, NEW w \in Worker, File(w)
  PROVE  ScanInFull'
<1>1. PICK ch \in scan.held[w] : scan' = [scan EXCEPT !.held[w] = {}, !.found = @ \cup Scanned(ch)]
  BY DEF File
<1>2. /\ stage = "scan" /\ scan.held \in [Worker -> SUBSET (Player \X Player)] /\ ch \in Chunks
      /\ UNCHANGED <<world, req, squad, spend, clubs, spent, best>>
  BY <1>1 DEF File, TypeOK, SearchInv, ScanInv
<1>3. /\ scan'.left = scan.left /\ scan'.held = [scan.held EXCEPT ![w] = {}]
      /\ scan'.found = scan.found \cup Scanned(ch)
  BY <1>1
<1>4. \A v \in Worker : v # w => scan'.held[v] = scan.held[v]
  BY <1>2, <1>3
<1>5. Chunks' = Chunks /\ \A c : Scanned(c)' = Scanned(c)
  BY <1>2, ScanStands
<1>6. ASSUME NEW c \in Chunks
      PROVE  \/ c \in scan'.left
             \/ \E v \in Worker : scan'.held[v] = {c}
             \/ Scanned(c) \subseteq scan'.found
  <2>1. ASSUME NEW v \in Worker, scan.held[v] = {c}
        PROVE  (\E u \in Worker : scan'.held[u] = {c}) \/ Scanned(c) \subseteq scan'.found
    <3>1. CASE v = w
      <4>1. c = ch
        BY <1>1, <2>1, <3>1
      <4>. QED
        BY <1>3, <4>1
    <3>2. CASE v # w
      BY <1>4, <2>1, <3>2
    <3>. QED
      BY <3>1, <3>2
  <2>. QED
    BY <1>2, <1>3, <2>1 DEF ScanInFull
<1>7. \A m \in scan'.found : \E c \in Chunks : m \in Scanned(c)
  BY <1>2, <1>3 DEF ScanInFull
<1>. QED
  BY <1>5, <1>6, <1>7 DEF ScanInFull

LEMMA FullBegin ==
  ASSUME BeginScan
  PROVE  ScanInFull'
<1>1. CASE NextKind
  BY <1>1 DEF NextKind, ScanInFull
<1>2. CASE /\ scan' = [NoScan EXCEPT !.left = Chunks]
           /\ UNCHANGED <<world, req, squad, spend, clubs, spent, best>>
  <2>1. scan'.left = Chunks /\ scan'.found = {}
    BY <1>2 DEF NoScan
  <2>2. Chunks' = Chunks
    BY <1>2, ScanStands
  <2>. QED
    BY <2>1, <2>2 DEF ScanInFull
<1>. QED
  BY <1>1, <1>2 DEF BeginScan

LEMMA FullStep ==
  ASSUME SoundBooks, ScanInFull, [Next]_vars
  PROVE  ScanInFull'
<1>1. TypeOK /\ SearchInv
  BY DEF SoundBooks
<1>2. CASE UNCHANGED vars
  <2>1. UNCHANGED <<world, req, stage, squad, spend, clubs, spent, best, scan>>
    BY <1>2 DEF vars
  <2>2. Chunks' = Chunks /\ \A c : Scanned(c)' = Scanned(c)
    BY <2>1, ScanStands
  <2>. QED
    BY <2>1, <2>2 DEF ScanInFull
<1>3. CASE BeginScan
  BY <1>3, FullBegin
<1>4. CASE \E w \in Worker : Claim(w) \/ File(w)
  BY <1>1, <1>4, FullClaim, FullFile
<1>5. CASE Refuse \/ TakeLocks \/ Fill \/ RefuseRevision \/ PolishFilled \/ PolishOwned
  BY <1>5 DEF ScanInFull, Refuse, TakeLocks, Fill, RefuseRevision, PolishFilled, PolishOwned, Polish
<1>6. CASE RunSingles
  <2>1. stage' = "polish"
    BY <1>6 DEF RunSingles, Running, NextKind, ApplySingle
  <2>. QED
    BY <2>1 DEF ScanInFull
<1>7. CASE RunFunded
  <2>1. stage' = "polish"
    BY <1>7 DEF RunFunded, Running, NextKind
  <2>. QED
    BY <2>1 DEF ScanInFull
<1>8. CASE Reduce \/ PolishSeed \/ Answer
  <2>1. stage' # "scan"
    BY <1>8 DEF Reduce, NextKind, ApplyPair, PolishSeed, Polish, Answer
  <2>. QED
    BY <2>1 DEF ScanInFull
<1>9. CASE Finished
  BY <1>2, <1>9 DEF Finished
<1>. QED
  BY <1>2, <1>3, <1>4, <1>5, <1>6, <1>7, <1>8, <1>9 DEF Next

(* Once every chunk has been filed, what was found is just the pairs that  *)
(* beat the score the scan began with.                                     *)
LEMMA FoundIsBeating ==
  ASSUME ScanInFull, stage = "scan", ~Scanning
  PROVE  scan.found = Beating
<1>1. ASSUME NEW m \in scan.found PROVE m \in Beating
  BY <1>1 DEF ScanInFull, Scanned, Beating, AllPairs
<1>2. ASSUME NEW m \in Beating PROVE m \in scan.found
  <2>1. PICK ch \in Chunks : m \in Scanned(ch)
    BY <1>2 DEF Scanned, Beating, AllPairs
  <2>2. Scanned(ch) \subseteq scan.found
    BY DEF ScanInFull, Scanning
  <2>. QED
    BY <2>1, <2>2
<1>. QED
  BY <1>1, <1>2

(* The move the workers' finds lead to is the one the serial scan makes,   *)
(* however many workers there are and in whatever order they come back:    *)
(* no chunk is lost between them, what they leave out the serial scan      *)
(* would have refused, and the replay takes the rest in its order.         *)
THEOREM WorkersDoNotMatter == Spec => []ReplayIsTheScan
<1>1. Init => SoundBooks /\ ScanInFull
  BY InitInv, BooksBegin DEF SoundBooks, Init, ScanInFull
<1>2. SoundBooks /\ ScanInFull /\ [Next]_vars => (SoundBooks /\ ScanInFull)'
  BY BooksStep, FullStep
<1>3. SoundBooks /\ ScanInFull => ReplayIsTheScan
  <2>1. SUFFICES ASSUME SoundBooks, ScanInFull, stage = "scan", ~Scanning
                 PROVE  Replay(scan.found) = SerialScan
    BY DEF ReplayIsTheScan
  <2>2. /\ world \in World /\ req \in Request /\ squad \subseteq Player
        /\ Sound(squad) /\ clubs = Counts(squad) /\ best = Objective(squad)
    BY <2>1 DEF SoundBooks, TypeOK, SearchInv, PolishInv, BooksInv, SquadBooks, Searching
  <2>3. Replay(scan.found) = Replay(AllPairs)
    BY <2>1, <2>2, FoundIsBeating, ReplayLeavesOut
  <2>. QED
    BY <2>3 DEF Replay, SerialScan
<1>. QED
  BY <1>1, <1>2, <1>3, PTL DEF Spec

-----------------------------------------------------------------------------
(* The least a completion costs.  First, orders and what is foremost in    *)
(* them.                                                                   *)


(* Of some numbers one is the least.                                       *)
LEMMA LeastNumber ==
  ASSUME NEW S, S \subseteq Nat, S # {}
  PROVE  \E x \in S : \A y \in S : x <= y
<1>1. PICK x \in S : \A y \in S : <<y, x>> \notin OpToRel(<, Nat)
  BY NatLessThanWellFounded, WFMin
<1>2. ASSUME NEW y \in S PROVE x <= y
  <2>1. ~(y < x)
    BY <1>1 DEF OpToRel
  <2>. QED
    BY <2>1
<1>. QED
  BY <1>2

-----------------------------------------------------------------------------
(* The two orders.                                                         *)
CheapFirst  == {x \in Player \X Player : Cheaper(x[1], x[2])}
StrongFirst == {x \in Player \X Player : Stronger(x[1], x[2])}

(* Both are strict orders of any players.                                  *)
LEMMA OrdersAreStrict ==
  ASSUME Players, NEW A, A \subseteq Player
  PROVE  Strict(CheapFirst, A) /\ Strict(StrongFirst, A)
<1>1. \A p \in A : Price(p) \in Nat /\ Score(p) \in Nat /\ p \in Nat
  BY MarketType, SquadConstants DEF Price, Score
<1>2. /\ \A p, q \in A : <<p, q>> \in CheapFirst <=> Cheaper(p, q)
      /\ \A p, q \in A : <<p, q>> \in StrongFirst <=> Stronger(p, q)
  BY DEF CheapFirst, StrongFirst
<1>3. /\ \A p \in A : ~Stronger(p, p)
      /\ \A p, q \in A : p # q => Stronger(p, q) \/ Stronger(q, p)
      /\ \A p, q, r \in A : Stronger(p, q) /\ Stronger(q, r) => Stronger(p, r)
  BY <1>1 DEF Stronger
<1>4. /\ \A p \in A : ~Cheaper(p, p)
      /\ \A p, q \in A : p # q => Cheaper(p, q) \/ Cheaper(q, p)
      /\ \A p, q, r \in A : Cheaper(p, q) /\ Cheaper(q, r) => Cheaper(p, r)
  BY <1>1, <1>3 DEF Cheaper
<1>. QED
  BY <1>2, <1>3, <1>4 DEF Strict

(* A rank is a place in the order.                                         *)
LEMMA RanksArePlaces ==
  ASSUME NEW A, A \subseteq Player, NEW p \in Player
  PROVE  /\ Rank(p, A, Cheaper) = Place(CheapFirst, A, p)
         /\ Rank(p, A, Stronger) = Place(StrongFirst, A, p)
<1>1. {q \in A : Cheaper(q, p)} = Before(CheapFirst, A, p)
  BY DEF Before, CheapFirst
<1>2. {q \in A : Stronger(q, p)} = Before(StrongFirst, A, p)
  BY DEF Before, StrongFirst
<1>. QED
  BY <1>1, <1>2 DEF Rank, Place

(* The cheapest n of some players cost no more than any n of them.         *)
LEMMA CheapestOnes ==
  ASSUME Players, NEW A, A \subseteq Player, NEW n \in Nat
  PROVE  LET F == Foremost(n, A, Cheaper) IN
         /\ F \subseteq A
         /\ n <= Cardinality(A) => Cardinality(F) = n
         /\ \A m \in Nat : m <= n => Foremost(m, A, Cheaper) \subseteq F
         /\ \A T \in SUBSET A : Cardinality(T) = n => n <= Cardinality(A) /\ Cost(F) <= Cost(T)
<1>. DEFINE F == Foremost(n, A, Cheaper)
<1>0. IsFiniteSet(A) /\ Strict(CheapFirst, A)
  BY OrdersAreStrict, SquadIsFinite
<1>1. \A m : Foremost(m, A, Cheaper) = {x \in A : Place(CheapFirst, A, x) < m}
  BY RanksArePlaces DEF Foremost
<1>2. /\ F \subseteq A /\ IsFiniteSet(F)
      /\ Cardinality(F) = IF n <= Cardinality(A) THEN n ELSE Cardinality(A)
      /\ \A x \in F, y \in A \ F : <<x, y>> \in CheapFirst
  BY <1>0, <1>1, FirstOnes
<1>3. \A m \in Nat : m <= n => Foremost(m, A, Cheaper) \subseteq F
  BY <1>0, <1>1, PlacesGrow
<1>4. ASSUME NEW T \in SUBSET A, Cardinality(T) = n PROVE n <= Cardinality(A) /\ Cost(F) <= Cost(T)
  <2>1. IsFiniteSet(T) /\ n <= Cardinality(A)
    BY <1>0, <1>4, FS_Subset
  <2>2. Cardinality(F) = Cardinality(T)
    BY <1>2, <1>4, <2>1
  <2>3. \A y \in F \cup T : world.price[y] \in Int
    BY <1>2, MarketType
  <2>4. ASSUME NEW x \in F \ T, NEW y \in T \ F PROVE world.price[x] <= world.price[y]
    <3>1. Cheaper(x, y) /\ world.price[x] \in Nat /\ world.price[y] \in Nat
      BY <1>2, MarketType DEF CheapFirst
    <3>2. Price(x) < Price(y) \/ Price(x) = Price(y)
      BY <3>1 DEF Cheaper
    <3>. QED
      BY <3>1, <3>2 DEF Price
  <2>. HIDE DEF F
  <2>5. SumFunctionOnSet(world.price, F) <= SumFunctionOnSet(world.price, T)
    BY <1>2, <2>1, <2>2, <2>3, <2>4, Exchange
  <2>. QED
    BY <2>1, <2>5 DEF Cost
<1>. QED
  BY <1>2, <1>3, <1>4

(* The strongest n of some players score no less than any n of them.       *)
LEMMA StrongestOnes ==
  ASSUME Players, NEW A, A \subseteq Player, NEW n \in Nat
  PROVE  LET F == Foremost(n, A, Stronger) IN
         /\ F \subseteq A
         /\ n <= Cardinality(A) => Cardinality(F) = n
         /\ \A m \in Nat : m <= n => Foremost(m, A, Stronger) \subseteq F
         /\ \A T \in SUBSET A : Cardinality(T) = n => Scored(T) <= Scored(F)
<1>. DEFINE F == Foremost(n, A, Stronger)
<1>0. IsFiniteSet(A) /\ Strict(StrongFirst, A)
  BY OrdersAreStrict, SquadIsFinite
<1>1. \A m : Foremost(m, A, Stronger) = {x \in A : Place(StrongFirst, A, x) < m}
  BY RanksArePlaces DEF Foremost
<1>2. /\ F \subseteq A /\ IsFiniteSet(F)
      /\ Cardinality(F) = IF n <= Cardinality(A) THEN n ELSE Cardinality(A)
      /\ \A x \in F, y \in A \ F : <<x, y>> \in StrongFirst
  BY <1>0, <1>1, FirstOnes
<1>3. \A m \in Nat : m <= n => Foremost(m, A, Stronger) \subseteq F
  BY <1>0, <1>1, PlacesGrow
<1>4. ASSUME NEW T \in SUBSET A, Cardinality(T) = n PROVE Scored(T) <= Scored(F)
  <2>1. IsFiniteSet(T) /\ n <= Cardinality(A)
    BY <1>0, <1>4, FS_Subset
  <2>2. Cardinality(F) = Cardinality(T)
    BY <1>2, <1>4, <2>1
  <2>3. \A y \in T \cup F : world.score[y] \in Int
    BY <1>2, MarketType
  <2>4. ASSUME NEW x \in T \ F, NEW y \in F \ T PROVE world.score[x] <= world.score[y]
    <3>1. Stronger(y, x) /\ world.score[x] \in Nat /\ world.score[y] \in Nat
      BY <1>2, MarketType DEF StrongFirst
    <3>2. Score(x) < Score(y) \/ Score(x) = Score(y)
      BY <3>1 DEF Stronger, Score
    <3>. QED
      BY <3>1, <3>2 DEF Score
  <2>. HIDE DEF F
  <2>5. SumFunctionOnSet(world.score, T) <= SumFunctionOnSet(world.score, F)
    BY <1>2, <2>1, <2>2, <2>3, <2>4, Exchange
  <2>. QED
    BY <2>1, <2>5 DEF Scored
<1>. QED
  BY <1>2, <1>3, <1>4

-----------------------------------------------------------------------------
(* Counts and costs, position by position and club by club.                *)

(* A squad is as many, and as dear, as its positions together.             *)
LEMMA CountByPosition ==
  ASSUME NEW S, S \subseteq Player
  PROVE  SumFunctionOnSet([pos \in Position |-> Cardinality(At(S, pos))], Position) = Cardinality(S)
<1>. DEFINE one == [p \in S |-> 1]
<1>1. \A X \in SUBSET S : IsFiniteSet(X) /\ \A y \in X : one[y] = 1
  BY SquadIsFinite
<1>. HIDE DEF one
<1>2. \A X \in SUBSET S : SumFunctionOnSet(one, X) = Cardinality(X)
  BY <1>1, CountIsSum
<1>3. SumFunctionOnSet(one, S) = SumFunctionOnSet([pos \in Position |-> SumFunctionOnSet(one, {y \in S : PosOf[y] = pos})], Position)
  <2>1. IsFiniteSet(S) /\ (\A y \in S : one[y] \in Int) /\ (\A y \in S : PosOf[y] \in Position)
    BY <1>1, SquadConstants
  <2>2. IsFiniteSet(Position)
    BY SquadConstants
  <2>. QED
    BY <2>1, <2>2, SumByGroups
<1>4. \A pos : SumFunctionOnSet(one, {y \in S : PosOf[y] = pos}) = Cardinality(At(S, pos))
  BY <1>2 DEF At
<1>5. [pos \in Position |-> SumFunctionOnSet(one, {y \in S : PosOf[y] = pos})]
        = [pos \in Position |-> Cardinality(At(S, pos))]
  BY <1>4
<1>. QED
  BY <1>2, <1>3, <1>5

LEMMA CostByPosition ==
  ASSUME Players, NEW S, S \subseteq Player
  PROVE  SumFunctionOnSet([pos \in Position |-> Cost(At(S, pos))], Position) = Cost(S)
<1>1. IsFiniteSet(S) /\ (\A y \in S : world.price[y] \in Int) /\ (\A y \in S : PosOf[y] \in Position)
      /\ IsFiniteSet(Position)
  <2>1. \A y \in S : world.price[y] \in Int
    BY MarketType
  <2>2. \A y \in S : PosOf[y] \in Position
    BY SquadConstants
  <2>. QED
    BY <2>1, <2>2, SquadIsFinite, SquadConstants
<1>2. SumFunctionOnSet(world.price, S)
        = SumFunctionOnSet([pos \in Position |-> SumFunctionOnSet(world.price, {y \in S : PosOf[y] = pos})], Position)
  BY <1>1, SumByGroups
<1>3. [pos \in Position |-> SumFunctionOnSet(world.price, {y \in S : PosOf[y] = pos})]
        = [pos \in Position |-> Cost(At(S, pos))]
  BY DEF Cost, At
<1>. QED
  BY <1>2, <1>3 DEF Cost

(* Two sets apart: their counts and costs add up.                          *)
AreApart(S, T) == S \subseteq Player /\ T \subseteq Player /\ S \cap T = {}

AddUp(S, T) ==
  /\ Cardinality(S \cup T) = Cardinality(S) + Cardinality(T)
  /\ Cost(S \cup T) = Cost(S) + Cost(T) /\ Scored(S \cup T) = Scored(S) + Scored(T)
  /\ \A pos : Cardinality(At(S \cup T, pos)) = Cardinality(At(S, pos)) + Cardinality(At(T, pos))
  /\ \A c : Cardinality(In(S \cup T, c)) = Cardinality(In(S, c)) + Cardinality(In(T, c))

LEMMA Apart ==
  ASSUME Players, NEW S, NEW T, AreApart(S, T)
  PROVE  AddUp(S, T)
<1>0. S \subseteq Player /\ T \subseteq Player /\ S \cap T = {}
  BY DEF AreApart
<1>1. ASSUME NEW X, X \subseteq Player, NEW Y, Y \subseteq Player, X \cap Y = {}
      PROVE  Cardinality(X \cup Y) = Cardinality(X) + Cardinality(Y)
  <2>1. IsFiniteSet(X) /\ IsFiniteSet(Y) /\ Cardinality(X) \in Nat /\ Cardinality(Y) \in Nat
    BY <1>1, SquadIsFinite, FS_CardinalityType
  <2>2. Cardinality(X \cup Y) = Cardinality(X) + Cardinality(Y) - Cardinality(X \cap Y)
    BY <2>1, FS_Union
  <2>3. Cardinality(X \cap Y) = 0
    BY <1>1, FS_EmptySet
  <2>. QED
    BY <2>1, <2>2, <2>3
<1>2. ASSUME NEW f, \A p \in Player : f[p] \in Nat
      PROVE  SumFunctionOnSet(f, S \cup T) = SumFunctionOnSet(f, S) + SumFunctionOnSet(f, T)
  <2>1. IsFiniteSet(S \cup T) /\ S \in SUBSET (S \cup T) /\ (S \cup T) \ S = T
    BY <1>0, SquadIsFinite
  <2>2. \A y \in S \cup T : f[y] \in Int
    BY <1>0, <1>2
  <2>. QED
    BY <2>1, <2>2, SumSplits
<1>3. \A pos : At(S \cup T, pos) = At(S, pos) \cup At(T, pos) /\ At(S, pos) \cap At(T, pos) = {}
               /\ At(S, pos) \subseteq Player /\ At(T, pos) \subseteq Player
  BY <1>0 DEF At
<1>4. \A c : In(S \cup T, c) = In(S, c) \cup In(T, c) /\ In(S, c) \cap In(T, c) = {}
             /\ In(S, c) \subseteq Player /\ In(T, c) \subseteq Player
  BY <1>0 DEF In
<1>5. \A pos : Cardinality(At(S \cup T, pos)) = Cardinality(At(S, pos)) + Cardinality(At(T, pos))
  BY <1>1, <1>3
<1>6. \A c : Cardinality(In(S \cup T, c)) = Cardinality(In(S, c)) + Cardinality(In(T, c))
  BY <1>1, <1>4
<1>7. Cost(S \cup T) = Cost(S) + Cost(T) /\ Scored(S \cup T) = Scored(S) + Scored(T)
  BY <1>2, MarketType DEF Cost, Scored
<1>. QED
  BY <1>0, <1>1, <1>5, <1>6, <1>7 DEF AddUp

(* A squad that can still be completed, and what completes it.             *)
Fitting(K) ==
  /\ K \subseteq Player /\ WithinClubs(K)
  /\ \A pos \in Position : Cardinality(At(K, pos)) <= Quota[pos]

Rests(K) ==
  {t \in SUBSET (Pool \ K) :
     /\ \A pos \in Position : Cardinality(At(t, pos)) = Need(K, pos)
     /\ \A c \in Club : Cardinality(In(t, c)) <= Headroom(K, c)}

(* Needs and headrooms are numbers.                                        *)
LEMMA NeedType ==
  ASSUME Players, NEW K, Fitting(K)
  PROVE  /\ \A pos \in Position : Need(K, pos) \in Nat /\ Need(K, pos) = Quota[pos] - Cardinality(At(K, pos))
         /\ \A c \in Club : Headroom(K, c) \in Nat /\ Headroom(K, c) = MaxPerClub - Cardinality(In(K, c))
<1>1. \A pos \in Position : Quota[pos] \in Nat /\ Cardinality(At(K, pos)) \in Nat /\ Cardinality(At(K, pos)) <= Quota[pos]
  BY CountType, SquadConstants DEF Fitting
<1>2. \A c \in Club : Cardinality(In(K, c)) \in Nat /\ Cardinality(In(K, c)) <= MaxPerClub /\ MaxPerClub \in Nat
  BY CountType, SquadConstants DEF Fitting, WithinClubs
<1>3. \A pos \in Position : Need(K, pos) \in Nat /\ Need(K, pos) = Quota[pos] - Cardinality(At(K, pos))
  BY <1>1 DEF Need, Larger
<1>4. \A c \in Club : Headroom(K, c) \in Nat /\ Headroom(K, c) = MaxPerClub - Cardinality(In(K, c))
  BY <1>2 DEF Headroom, Larger
<1>. QED
  BY <1>3, <1>4

(* What is missing is the sum of what every position needs.                *)
LEMMA NeedsAddUp ==
  ASSUME Players, NEW K, Fitting(K)
  PROVE  SumFunctionOnSet([pos \in Position |-> Need(K, pos)], Position) = SquadSize - Cardinality(K)
<1>. DEFINE have == [pos \in Position |-> Cardinality(At(K, pos))]
            need == [pos \in Position |-> Need(K, pos)]
<1>1. ASSUME NEW pos \in Position
      PROVE  have[pos] \in Int /\ need[pos] \in Int /\ Quota[pos] = have[pos] + need[pos]
  <2>1. Cardinality(At(K, pos)) \in Nat /\ Quota[pos] \in Nat
    BY CountType, SquadConstants DEF Fitting
  <2>. QED
    BY <2>1, NeedType
<1>2. IsFiniteSet(Position) /\ IsFiniteSet(K)
  BY SquadConstants, SquadIsFinite DEF Fitting
<1>3. SumFunctionOnSet(have, Position) = Cardinality(K)
  BY CountByPosition DEF Fitting
<1>. HIDE DEF have, need
<1>4. SumFunctionOnSet(Quota, Position) = SumFunctionOnSet(have, Position) + SumFunctionOnSet(need, Position)
  BY <1>1, <1>2, SumAdds
<1>5. SumFunctionOnSet(need, Position) \in Int /\ Cardinality(K) \in Int
  BY <1>1, <1>2, SumType, FS_CardinalityType
<1>6. SumFunctionOnSet(need, Position) = SquadSize - Cardinality(K)
  BY <1>3, <1>4, <1>5 DEF SquadSize, Total
<1>. QED
  BY <1>6 DEF need

(* The completions are the squad with a rest of it.                        *)
LEMMA CompletionsAreRests ==
  ASSUME Players, NEW K, Fitting(K)
  PROVE  /\ Completions(K) = {K \cup t : t \in Rests(K)}
         /\ \A t \in Rests(K) : t \subseteq Player /\ K \cap t = {} /\ (K \cup t) \ K = t
<1>1. ASSUME NEW t \in SUBSET (Pool \ K)
      PROVE  /\ t \subseteq Player /\ K \cap t = {} /\ (K \cup t) \ K = t
             /\ t \in Rests(K) <=> Filled(K \cup t) /\ WithinClubs(K \cup t)
  <2>1. t \subseteq Player /\ K \cap t = {} /\ (K \cup t) \ K = t /\ K \subseteq Player
    BY PoolPlayers DEF Fitting
  <2>2. /\ \A pos : Cardinality(At(K \cup t, pos)) = Cardinality(At(K, pos)) + Cardinality(At(t, pos))
        /\ \A c : Cardinality(In(K \cup t, c)) = Cardinality(In(K, c)) + Cardinality(In(t, c))
    <3>1. AreApart(K, t)
      BY <2>1 DEF AreApart
    <3>2. AddUp(K, t)
      BY <3>1, Apart
    <3>. QED
      BY <3>2 DEF AddUp
  <2>3. /\ \A pos : Cardinality(At(K, pos)) \in Nat /\ Cardinality(At(t, pos)) \in Nat
        /\ \A c : Cardinality(In(K, c)) \in Nat /\ Cardinality(In(t, c)) \in Nat
    BY <2>1, CountType
  <2>4. ASSUME NEW pos \in Position
        PROVE  Cardinality(At(t, pos)) = Need(K, pos) <=> Cardinality(At(K \cup t, pos)) = Quota[pos]
    <3>1. Need(K, pos) = Quota[pos] - Cardinality(At(K, pos)) /\ Quota[pos] \in Nat
      BY NeedType, SquadConstants
    <3>2. /\ Cardinality(At(K \cup t, pos)) = Cardinality(At(K, pos)) + Cardinality(At(t, pos))
          /\ Cardinality(At(K, pos)) \in Nat /\ Cardinality(At(t, pos)) \in Nat
      BY <2>2, <2>3
    <3>. QED
      BY <3>1, <3>2
  <2>5. ASSUME NEW c \in Club
        PROVE  Cardinality(In(t, c)) <= Headroom(K, c) <=> Cardinality(In(K \cup t, c)) <= MaxPerClub
    <3>1. Headroom(K, c) = MaxPerClub - Cardinality(In(K, c)) /\ MaxPerClub \in Nat
      BY NeedType, SquadConstants
    <3>2. /\ Cardinality(In(K \cup t, c)) = Cardinality(In(K, c)) + Cardinality(In(t, c))
          /\ Cardinality(In(K, c)) \in Nat /\ Cardinality(In(t, c)) \in Nat
      BY <2>2, <2>3
    <3>. QED
      BY <3>1, <3>2
  <2>. QED
    BY <2>1, <2>4, <2>5 DEF Rests, Filled, WithinClubs
<1>2. ASSUME NEW t \in Rests(K) PROVE Cardinality(t) = SquadSize - Cardinality(K)
  <2>1. t \subseteq Player /\ \A pos \in Position : Cardinality(At(t, pos)) = Need(K, pos)
    BY <1>1 DEF Rests
  <2>2. [pos \in Position |-> Cardinality(At(t, pos))] = [pos \in Position |-> Need(K, pos)]
    BY <2>1
  <2>. QED
    BY <2>1, <2>2, CountByPosition, NeedsAddUp
<1>3. Rests(K) \subseteq SUBSET (Pool \ K)
  BY DEF Rests
<1>4. ASSUME NEW s \in Completions(K) PROVE \E t \in Rests(K) : s = K \cup t
  <2>1. PICK t \in SUBSET (Pool \ K) : s = K \cup t /\ Filled(s) /\ WithinClubs(s)
    BY DEF Completions, kSubset
  <2>. QED
    BY <1>1, <2>1
<1>5. ASSUME NEW t \in Rests(K) PROVE K \cup t \in Completions(K)
  <2>1. t \in kSubset(SquadSize - Cardinality(K), Pool \ K)
    BY <1>2, <1>3 DEF kSubset
  <2>2. Filled(K \cup t) /\ WithinClubs(K \cup t)
    BY <1>1, <1>3
  <2>. QED
    BY <2>1, <2>2 DEF Completions
<1>6. Completions(K) = {K \cup t : t \in Rests(K)}
  BY <1>4, <1>5
<1>7. \A t \in Rests(K) : t \subseteq Player /\ K \cap t = {} /\ (K \cup t) \ K = t
  BY <1>1, <1>3
<1>. QED
  BY <1>6, <1>7

(* The cheapest completion is the cheapest rest, or the mark.              *)
LEMMA CheapestRest ==
  ASSUME Players, NEW K, Fitting(K)
  PROVE  LET m == CheapestCompletion(K) IN
         /\ m \in Nat /\ m <= Infeasible
         /\ \A t \in Rests(K) : m <= Cost(t)
         /\ m = Infeasible \/ \E t \in Rests(K) : m = Cost(t)
<1>. DEFINE S == {Cost(s \ K) : s \in Completions(K)} \cup {Infeasible}
<1>1. S = {Cost(t) : t \in Rests(K)} \cup {Infeasible}
  <2>1. {Cost(s \ K) : s \in Completions(K)} = {Cost(t) : t \in Rests(K)}
    <3>. DEFINE R == Rests(K)
    <3>1. Completions(K) = {K \cup t : t \in R} /\ \A t \in R : (K \cup t) \ K = t
      BY CompletionsAreRests
    <3>. HIDE DEF R
    <3>2. ASSUME NEW s \in Completions(K) PROVE \E t \in R : Cost(s \ K) = Cost(t)
      BY <3>1
    <3>3. ASSUME NEW t \in R PROVE \E s \in Completions(K) : Cost(s \ K) = Cost(t)
      <4>1. K \cup t \in Completions(K) /\ Cost((K \cup t) \ K) = Cost(t)
        BY <3>1
      <4>. QED
        BY <4>1
    <3>4. {Cost(s \ K) : s \in Completions(K)} = {Cost(t) : t \in R}
      <4>1. ASSUME NEW z \in {Cost(s \ K) : s \in Completions(K)} PROVE z \in {Cost(t) : t \in R}
        BY <3>2
      <4>2. ASSUME NEW z \in {Cost(t) : t \in R} PROVE z \in {Cost(s \ K) : s \in Completions(K)}
        <5>1. PICK t \in R : z = Cost(t)
          OBVIOUS
        <5>2. PICK s \in Completions(K) : Cost(s \ K) = Cost(t)
          BY <3>3
        <5>. QED
          BY <5>1, <5>2
      <4>. QED
        BY <4>1, <4>2
    <3>. QED
      BY <3>4 DEF R
  <2>. QED
    BY <2>1
<1>2. \A t \in Rests(K) : Cost(t) \in Nat
  BY CompletionsAreRests, CostType
<1>. HIDE DEF S
<1>3. S \subseteq Nat /\ S # {} /\ Infeasible \in S
  BY <1>1, <1>2 DEF Infeasible
<1>4. \E x \in S : \A y \in S : x <= y
  BY <1>3, LeastNumber
<1>5. Min(S) \in S /\ \A y \in S : Min(S) <= y
  BY <1>4 DEF Min
<1>6. CheapestCompletion(K) = Min(S)
  BY DEF CheapestCompletion, S
<1>. QED
  BY <1>1, <1>3, <1>5, <1>6

-----------------------------------------------------------------------------
(* Tier 1.                                                                 *)

(* Whom a position may take.                                               *)
LEMMA FreePlayers ==
  ASSUME NEW K, NEW pos
  PROVE  /\ Free(K, pos) \subseteq Player /\ Admitted(K, pos) \subseteq Player
         /\ Free(K, pos) \subseteq Pool \ K
         /\ \A p \in Free(K, pos) : PosOf[p] = pos
         /\ \A p \in Admitted(K, pos) : PosOf[p] = pos
BY PoolPlayers DEF Free, At, Admitted

(* For any players of a position that fit the clubs' room there are as     *)
(* many admitted, and no dearer.                                           *)
LEMMA AdmittedSuffice ==
  ASSUME Players, NEW K, Fitting(K), NEW pos \in Position, NEW u \in SUBSET Free(K, pos),
         \A c \in Club : Cardinality(In(u, c)) <= Headroom(K, c)
  PROVE  /\ Cardinality(u) <= Cardinality(Admitted(K, pos))
         /\ Cost(Foremost(Cardinality(u), Admitted(K, pos), Cheaper)) <= Cost(u)
<1>. DEFINE A == Free(K, pos)
            V(c) == Foremost(Cardinality(In(u, c)), In(A, c), Cheaper)
            v == UNION {V(c) : c \in Club}
<1>1. A \subseteq Player /\ u \subseteq Player /\ \A c : In(A, c) \subseteq Player
  BY FreePlayers DEF In
<1>2. ASSUME NEW c \in Club
      PROVE  /\ V(c) \subseteq In(A, c) /\ Cardinality(V(c)) = Cardinality(In(u, c))
             /\ Cost(V(c)) <= Cost(In(u, c)) /\ V(c) \subseteq Admitted(K, pos)
  <2>. DEFINE n == Cardinality(In(u, c))
  <2>1. In(u, c) \in SUBSET In(A, c) /\ n \in Nat
    <3>1. In(u, c) \in SUBSET In(A, c)
      BY DEF In
    <3>. QED
      BY <1>1, <3>1, CountType
  <2>2. /\ V(c) \subseteq In(A, c) /\ (n <= Cardinality(In(A, c)) => Cardinality(V(c)) = n)
        /\ n <= Cardinality(In(A, c)) /\ Cost(V(c)) <= Cost(In(u, c))
    BY <1>1, <2>1, CheapestOnes
  <2>3. V(c) \subseteq Admitted(K, pos)
    <3>1. ASSUME NEW p \in V(c) PROVE p \in Admitted(K, pos)
      <4>1. p \in A /\ Team(p) = c /\ p \in Player
        BY <1>1, <2>2 DEF In
      <4>2. Rank(p, In(A, c), Cheaper) < n
        BY DEF Foremost
      <4>3. Rank(p, In(A, c), Cheaper) \in Nat
        <5>1. {q \in In(A, c) : Cheaper(q, p)} \subseteq Player
          BY <1>1
        <5>. QED
          BY <5>1, SquadIsFinite, FS_CardinalityType DEF Rank
      <4>4. Rank(p, In(A, c), Cheaper) < Headroom(K, c)
        BY <2>1, <4>2, <4>3, NeedType
      <4>. QED
        BY <4>1, <4>4 DEF Admitted
    <3>. QED
      BY <3>1
  <2>. QED
    BY <2>2, <2>3
<1>3. v \subseteq Admitted(K, pos) /\ v \subseteq Player
  BY <1>2, FreePlayers
<1>4. ASSUME NEW c \in Club PROVE In(v, c) = V(c)
  <2>. HIDE DEF V
  <2>. QED
    BY <1>2, <1>4 DEF In
<1>5. /\ IsFiniteSet(v) /\ IsFiniteSet(u) /\ IsFiniteSet(Club)
      /\ (\A p \in v \cup u : world.club[p] \in Club)
      /\ (\A p \in v : world.price[p] \in Int) /\ (\A p \in u : world.price[p] \in Int)
  <2>1. \A p \in v \cup u : world.club[p] \in Club
    BY <1>1, <1>3, Teams DEF Team
  <2>2. (\A p \in v : world.price[p] \in Int) /\ (\A p \in u : world.price[p] \in Int)
    BY <1>1, <1>3, MarketType
  <2>. QED
    BY <1>1, <1>3, <2>1, <2>2, SquadIsFinite, SquadConstants
<1>6. /\ \A c : {p \in v : world.club[p] = c} = In(v, c)
      /\ \A c : {p \in u : world.club[p] = c} = In(u, c)
  BY DEF In, Team
<1>. HIDE DEF v
<1>7. \A c \in Club : Cardinality(In(v, c)) = Cardinality(In(u, c)) /\ Cost(In(v, c)) <= Cost(In(u, c))
  BY <1>2, <1>4
<1>8. Cardinality(v) = Cardinality(u)
  <2>1. \A c \in Club : Cardinality(In(v, c)) \in Nat
    BY <1>3, CountType
  <2>2. /\ \A c \in Club : Cardinality({p \in v : world.club[p] = c}) <= Cardinality({p \in u : world.club[p] = c})
        /\ \A c \in Club : Cardinality({p \in u : world.club[p] = c}) <= Cardinality({p \in v : world.club[p] = c})
    <3>1. \A m, n \in Nat : m = n => m <= n /\ n <= m
      OBVIOUS
    <3>. QED
      BY <1>6, <1>7, <2>1, <3>1
  <2>3. Cardinality(v) <= Cardinality(u)
    BY <1>5, <2>2, CountsAgree
  <2>4. u \cup v = v \cup u
    OBVIOUS
  <2>5. Cardinality(u) <= Cardinality(v)
    BY <1>5, <2>2, <2>4, CountsAgree
  <2>. QED
    BY <1>5, <2>3, <2>5, FS_CardinalityType
<1>9. Cost(v) <= Cost(u)
  <2>1. \A c \in Club : SumFunctionOnSet(world.price, {p \in v : world.club[p] = c})
                          <= SumFunctionOnSet(world.price, {p \in u : world.club[p] = c})
    BY <1>6, <1>7 DEF Cost
  <2>2. SumFunctionOnSet(world.price, v) <= SumFunctionOnSet(world.price, u)
    BY <1>5, <2>1, GroupsOutweigh
  <2>. QED
    BY <2>2 DEF Cost
<1>10. /\ Cardinality(u) \in Nat /\ v \in SUBSET Admitted(K, pos) /\ Admitted(K, pos) \subseteq Player
       /\ Foremost(Cardinality(u), Admitted(K, pos), Cheaper) \subseteq Player
  BY <1>3, <1>5, FreePlayers, FS_CardinalityType DEF Foremost
<1>11. /\ Cardinality(u) <= Cardinality(Admitted(K, pos))
       /\ Cost(Foremost(Cardinality(u), Admitted(K, pos), Cheaper)) <= Cost(v)
  BY <1>8, <1>10, CheapestOnes
<1>. QED
  <2>1. Cost(v) \in Nat /\ Cost(u) \in Nat /\ Cost(Foremost(Cardinality(u), Admitted(K, pos), Cheaper)) \in Nat
    BY <1>1, <1>3, <1>10, CostType
  <2>. QED
    BY <1>9, <1>11, <2>1

(* Tier 1 is no more than any completion costs.                            *)
LEMMA Tier1IsABound ==
  ASSUME Players, NEW K, Fitting(K), NEW t \in Rests(K)
  PROVE  Tier1(K) <= Cost(t)
<1>. DEFINE least == [pos \in Position |-> Cost(Foremost(Need(K, pos), Admitted(K, pos), Cheaper))]
            paid  == [pos \in Position |-> Cost(At(t, pos))]
<1>1. t \subseteq Player
  BY CompletionsAreRests
<1>2. ASSUME NEW pos \in Position
      PROVE  /\ Need(K, pos) <= Cardinality(Admitted(K, pos)) /\ least[pos] <= paid[pos]
             /\ least[pos] \in Int /\ paid[pos] \in Int
  <2>1. At(t, pos) \in SUBSET Free(K, pos) /\ Cardinality(At(t, pos)) = Need(K, pos)
    BY DEF Rests, Free, At
  <2>2. ASSUME NEW c \in Club PROVE Cardinality(In(At(t, pos), c)) <= Headroom(K, c)
    <3>1. In(At(t, pos), c) \in SUBSET In(t, c)
      BY DEF In, At
    <3>2. In(t, c) \subseteq Player /\ IsFiniteSet(In(t, c))
      BY <1>1, SquadIsFinite DEF In
    <3>3. /\ Cardinality(In(At(t, pos), c)) <= Cardinality(In(t, c))
          /\ Cardinality(In(At(t, pos), c)) \in Nat /\ Cardinality(In(t, c)) \in Nat
      BY <3>1, <3>2, FS_Subset, FS_CardinalityType
    <3>. QED
      BY <3>3, NeedType DEF Rests
  <2>3. /\ Cardinality(At(t, pos)) <= Cardinality(Admitted(K, pos))
        /\ Cost(Foremost(Cardinality(At(t, pos)), Admitted(K, pos), Cheaper)) <= Cost(At(t, pos))
    BY <2>1, <2>2, AdmittedSuffice
  <2>4. At(t, pos) \subseteq Player /\ Foremost(Need(K, pos), Admitted(K, pos), Cheaper) \subseteq Player
    BY <1>1, FreePlayers DEF At, Foremost
  <2>. QED
    BY <2>1, <2>3, <2>4, CostType
<1>3. Tier1(K) = SumFunctionOnSet(least, Position)
  <2>1. ~\E pos \in Position : Cardinality(Admitted(K, pos)) < Need(K, pos)
    <3>1. ASSUME NEW pos \in Position PROVE ~(Cardinality(Admitted(K, pos)) < Need(K, pos))
      <4>1. Cardinality(Admitted(K, pos)) \in Nat /\ Need(K, pos) \in Nat
        BY FreePlayers, NeedType, SquadIsFinite, FS_CardinalityType
      <4>. QED
        BY <1>2, <4>1
    <3>. QED
      BY <3>1
  <2>. QED
    BY <2>1 DEF Tier1
<1>4. SumFunctionOnSet(paid, Position) = Cost(t)
  BY <1>1, CostByPosition
<1>. HIDE DEF least, paid
<1>5. SumFunctionOnSet(least, Position) <= SumFunctionOnSet(paid, Position)
  BY <1>2, SumMonotone, SquadConstants
<1>. QED
  BY <1>3, <1>4, <1>5

(* No players cost as much as the mark.                                    *)
LEMMA BelowTheMark ==
  ASSUME world \in World, req \in Request, NEW S, S \subseteq Player
  PROVE  Cost(S) < Infeasible
<1>1. Players
  BY Constants
<1>2. Cost(S \cup (Player \ S)) = Cost(S) + Cost(Player \ S) /\ S \cup (Player \ S) = Player
  <2>1. AreApart(S, Player \ S) /\ S \cup (Player \ S) = Player
    BY DEF AreApart
  <2>2. AddUp(S, Player \ S)
    BY <1>1, <2>1, Apart
  <2>. QED
    BY <2>1, <2>2 DEF AddUp
<1>3. Cost(Player) < Infeasible
  BY MoneyIsBelowTheMark DEF Cost
<1>4. Cost(S) \in Nat /\ Cost(Player \ S) \in Nat /\ Infeasible \in Nat
  BY <1>1, CostType DEF Infeasible
<1>. QED
  BY <1>2, <1>3, <1>4

(* Tier 1 is a sum of money or the mark.                                   *)
LEMMA Tier1Type ==
  ASSUME world \in World, req \in Request, NEW K, Fitting(K)
  PROVE  Tier1(K) \in Nat /\ Tier1(K) <= Infeasible
<1>. DEFINE F(pos) == Foremost(Need(K, pos), Admitted(K, pos), Cheaper)
            S == UNION {F(pos) : pos \in Position}
<1>1. Players
  BY Constants
<1>2. \A pos \in Position : F(pos) \subseteq Player /\ \A p \in F(pos) : PosOf[p] = pos
  BY FreePlayers DEF Foremost
<1>3. S \subseteq Player /\ \A pos \in Position : At(S, pos) = F(pos)
  <2>. HIDE DEF F
  <2>. QED
    BY <1>2 DEF At
<1>4. [pos \in Position |-> Cost(F(pos))] = [pos \in Position |-> Cost(At(S, pos))]
  BY <1>3
<1>. HIDE DEF S
<1>5. SumFunctionOnSet([pos \in Position |-> Cost(F(pos))], Position) = Cost(S)
  BY <1>1, <1>3, <1>4, CostByPosition
<1>6. Cost(S) \in Nat /\ Cost(S) < Infeasible /\ Infeasible \in Nat
  BY <1>1, <1>3, CostType, BelowTheMark DEF Infeasible
<1>7. Tier1(K) = Infeasible \/ Tier1(K) = Cost(S)
  BY <1>5 DEF Tier1
<1>. QED
  BY <1>6, <1>7

-----------------------------------------------------------------------------

(* Tier 2: what the clubs of D may supply to a squad in progress, what is  *)
(* then still needed, and the table that says the least it costs.          *)
Partial(K, D) ==
  {t \in SUBSET (Pool \ K) :
     /\ \A p \in t : Team(p) \in D
     /\ \A pos \in Position : Cardinality(At(t, pos)) <= Need(K, pos)
     /\ \A c \in Club : Cardinality(In(t, c)) <= Headroom(K, c)}

(* What one club may supply.                                               *)
OfOneClub(K, c) ==
  {u \in SUBSET (Pool \ K) : (\A p \in u : Team(p) = c) /\ Cardinality(u) <= Headroom(K, c)}

Left(K, t) == [pos \in Position |-> Need(K, pos) - Cardinality(At(t, pos))]

Answers(K, D, dp) ==
  /\ \A x \in dp : \E t \in Partial(K, D) : x = [need |-> Left(K, t), cost |-> Cost(t)]
  /\ \A t \in Partial(K, D) : \E x \in dp : x.need = Left(K, t) /\ x.cost <= Cost(t)
  /\ \A x, y \in dp : x.need = y.need => x.cost = y.cost

Cells == [need : [Position -> Nat], cost : Nat]

(* What a club is said to supply, some of its players do, for that price.  *)
LEMMA SupplyIsOfPlayers ==
  ASSUME Players, NEW K, Fitting(K), NEW c \in Club, NEW a \in Supplies(K, c)
  PROVE  \E u \in OfOneClub(K, c) :
           (\A pos \in Position : Cardinality(At(u, pos)) = a[pos]) /\ Cost(u) = Bill(K, c, a)
<1>. DEFINE G(pos) == In(Free(K, pos), c)
            F(pos) == Foremost(a[pos], G(pos), Cheaper)
            u == UNION {F(pos) : pos \in Position}
<1>1. ASSUME NEW pos \in Position
      PROVE  /\ F(pos) \subseteq Pool \ K /\ F(pos) \subseteq Player /\ Cardinality(F(pos)) = a[pos]
             /\ \A p \in F(pos) : Team(p) = c /\ PosOf[p] = pos
  <2>1. G(pos) \subseteq Player /\ a[pos] \in Nat /\ a[pos] <= Cardinality(G(pos))
    BY FreePlayers, NeedType DEF In, Supplies
  <2>2. F(pos) \subseteq G(pos) /\ Cardinality(F(pos)) = a[pos]
    BY <2>1, CheapestOnes
  <2>. QED
    BY <2>1, <2>2, FreePlayers DEF In
<1>2. u \subseteq Player /\ u \in SUBSET (Pool \ K) /\ (\A p \in u : Team(p) = c)
      /\ \A pos \in Position : At(u, pos) = F(pos)
  <2>. HIDE DEF F
  <2>. QED
    BY <1>1 DEF At
<1>3. \A pos \in Position : Cardinality(At(u, pos)) = a[pos] /\ Cost(At(u, pos)) = Cumulative(K, pos, c, a[pos])
  BY <1>1, <1>2 DEF Cumulative
<1>. HIDE DEF u
<1>4. [pos \in Position |-> Cardinality(At(u, pos))] = a
  BY <1>3 DEF Supplies
<1>5. Cardinality(u) <= Headroom(K, c)
  <2>1. SumFunctionOnSet(a, Position) = Cardinality(u)
    BY <1>2, <1>4, CountByPosition
  <2>. QED
    BY <2>1 DEF Supplies, Total
<1>6. Cost(u) = Bill(K, c, a)
  <2>1. [pos \in Position |-> Cost(At(u, pos))] = [pos \in Position |-> Cumulative(K, pos, c, a[pos])]
    BY <1>3
  <2>. QED
    BY <1>2, <2>1, CostByPosition DEF Bill
<1>7. u \in OfOneClub(K, c)
  BY <1>2, <1>5 DEF OfOneClub
<1>. QED
  BY <1>3, <1>6, <1>7

(* What some players of a club supply costs the club's bill or more.       *)
LEMMA PlayersAreASupply ==
  ASSUME Players, NEW K, Fitting(K), NEW c \in Club, NEW u \in OfOneClub(K, c)
  PROVE  LET a == [pos \in Position |-> Cardinality(At(u, pos))] IN
         a \in Supplies(K, c) /\ Bill(K, c, a) <= Cost(u)
<1>. DEFINE a == [pos \in Position |-> Cardinality(At(u, pos))]
            paid == [pos \in Position |-> Cost(At(u, pos))]
            bill == [pos \in Position |-> Cumulative(K, pos, c, a[pos])]
<1>0. u \in SUBSET (Pool \ K) /\ (\A p \in u : Team(p) = c) /\ Cardinality(u) <= Headroom(K, c)
  BY DEF OfOneClub
<1>1. u \subseteq Player /\ IsFiniteSet(u) /\ Cardinality(u) \in Nat
  BY <1>0, PoolPlayers, SquadIsFinite, FS_CardinalityType
<1>2. ASSUME NEW pos \in Position
      PROVE  /\ a[pos] \in Nat /\ a[pos] <= Cardinality(u)
             /\ a[pos] <= Cardinality(In(Free(K, pos), c))
             /\ bill[pos] <= paid[pos] /\ bill[pos] \in Int /\ paid[pos] \in Int
  <2>1. At(u, pos) \in SUBSET In(Free(K, pos), c) /\ At(u, pos) \in SUBSET u
    BY <1>0 DEF At, In, Free
  <2>2. a[pos] = Cardinality(At(u, pos)) /\ a[pos] \in Nat /\ a[pos] <= Cardinality(u)
    BY <1>1, <2>1, FS_Subset, FS_CardinalityType
  <2>3. In(Free(K, pos), c) \subseteq Player
    BY FreePlayers DEF In
  <2>4. /\ a[pos] <= Cardinality(In(Free(K, pos), c))
        /\ Cost(Foremost(a[pos], In(Free(K, pos), c), Cheaper)) <= Cost(At(u, pos))
    <3>. DEFINE A == In(Free(K, pos), c)
                T == At(u, pos)
                n == a[pos]
    <3>1. A \subseteq Player /\ n \in Nat /\ T \in SUBSET A /\ Cardinality(T) = n
      BY <2>1, <2>2, <2>3
    <3>. HIDE DEF A, T, n
    <3>2. n <= Cardinality(A) /\ Cost(Foremost(n, A, Cheaper)) <= Cost(T)
      BY <3>1, CheapestOnes
    <3>. QED
      BY <3>2 DEF A, T, n
  <2>5. Foremost(a[pos], In(Free(K, pos), c), Cheaper) \subseteq Player /\ At(u, pos) \subseteq Player
    BY <1>1, <2>1, <2>3 DEF Foremost
  <2>. QED
    BY <2>2, <2>4, <2>5, CostType DEF Cumulative
<1>3. SumFunctionOnSet(a, Position) = Cardinality(u) /\ SumFunctionOnSet(paid, Position) = Cost(u)
  BY <1>1, CountByPosition, CostByPosition
<1>4. a \in Supplies(K, c)
  <2>1. ASSUME NEW pos \in Position PROVE a[pos] \in 0..Headroom(K, c)
    BY <1>0, <1>1, <1>2, NeedType
  <2>2. a \in [Position -> 0..Headroom(K, c)]
    BY <2>1
  <2>3. Total(a) <= Headroom(K, c)
    BY <1>0, <1>3 DEF Total
  <2>. QED
    BY <1>2, <2>2, <2>3 DEF Supplies
<1>5. Bill(K, c, a) <= Cost(u)
  <2>1. Bill(K, c, a) = SumFunctionOnSet(bill, Position)
    BY DEF Bill
  <2>. HIDE DEF bill, paid
  <2>2. SumFunctionOnSet(bill, Position) <= SumFunctionOnSet(paid, Position)
    BY <1>2, SumMonotone, SquadConstants
  <2>. QED
    BY <1>3, <2>1, <2>2
<1>. QED
  BY <1>4, <1>5

(* What may be served once a club is added, before only the least is kept. *)
ServedCell(K, c, x, a) ==
  [need |-> [pos \in Position |-> x.need[pos] - a[pos]], cost |-> x.cost + Bill(K, c, a)]

MayServe(x, a) == \A pos \in Position : a[pos] <= x.need[pos]

ServedCells(K, c, dp) ==
  {ServedCell(K, c, x[1], x[2]) : x \in {y \in dp \X Supplies(K, c) : MayServe(y[1], y[2])}}

LEMMA ServedIs ==
  ASSUME NEW K, NEW c, NEW dp
  PROVE  /\ Served(K, c, dp) = {x \in ServedCells(K, c, dp) :
                                  \A y \in ServedCells(K, c, dp) : y.need = x.need => x.cost <= y.cost}
         /\ \A z \in ServedCells(K, c, dp) :
              \E x \in dp, a \in Supplies(K, c) : MayServe(x, a) /\ z = ServedCell(K, c, x, a)
         /\ \A x \in dp, a \in Supplies(K, c) : MayServe(x, a) => ServedCell(K, c, x, a) \in ServedCells(K, c, dp)
<1>1. Served(K, c, dp) = {x \in ServedCells(K, c, dp) :
                            \A y \in ServedCells(K, c, dp) : y.need = x.need => x.cost <= y.cost}
  BY DEF Served, ServedCells, ServedCell, MayServe
<1>2. ASSUME NEW z \in ServedCells(K, c, dp)
      PROVE  \E x \in dp, a \in Supplies(K, c) : MayServe(x, a) /\ z = ServedCell(K, c, x, a)
  BY DEF ServedCells
<1>3. ASSUME NEW x \in dp, NEW a \in Supplies(K, c), MayServe(x, a)
      PROVE  ServedCell(K, c, x, a) \in ServedCells(K, c, dp)
  <2>1. <<x, a>> \in {y \in dp \X Supplies(K, c) : MayServe(y[1], y[2])}
    BY <1>3
  <2>2. ServedCell(K, c, <<x, a>>[1], <<x, a>>[2]) \in ServedCells(K, c, dp)
    BY <2>1 DEF ServedCells
  <2>. QED
    BY <2>2
<1>. QED
  BY <1>1, <1>2, <1>3

(* What is served is a table again.                                        *)
LEMMA ServedType ==
  ASSUME Players, NEW K, Fitting(K), NEW c \in Club, NEW dp \in SUBSET Cells
  PROVE  ServedCells(K, c, dp) \in SUBSET Cells /\ Served(K, c, dp) \in SUBSET Cells
<1>1. ASSUME NEW x \in dp, NEW a \in Supplies(K, c), MayServe(x, a)
      PROVE  ServedCell(K, c, x, a) \in Cells
  <2>1. x.need \in [Position -> Nat] /\ x.cost \in Nat
    BY DEF Cells
  <2>2. Bill(K, c, a) \in Nat
    <3>1. PICK u \in OfOneClub(K, c) : Cost(u) = Bill(K, c, a)
      BY SupplyIsOfPlayers
    <3>2. u \subseteq Player
      BY PoolPlayers DEF OfOneClub
    <3>. QED
      BY <3>1, <3>2, CostType
  <2>3. \A pos \in Position : a[pos] \in Nat
    BY NeedType DEF Supplies
  <2>4. \A pos \in Position : x.need[pos] - a[pos] \in Nat
    BY <1>1, <2>1, <2>3 DEF MayServe
  <2>. QED
    BY <2>1, <2>2, <2>4 DEF ServedCell, Cells
<1>. QED
  BY <1>1, ServedIs

-----------------------------------------------------------------------------

(* What a part of a rest counts for.                                       *)
LEMMA PartialType ==
  ASSUME Players, NEW K, Fitting(K), NEW D, NEW t \in Partial(K, D)
  PROVE  /\ t \subseteq Player /\ t \subseteq Pool \ K /\ Cost(t) \in Nat
         /\ \A pos \in Position : Cardinality(At(t, pos)) \in Nat /\ Left(K, t)[pos] \in Nat
                                  /\ Left(K, t)[pos] = Need(K, pos) - Cardinality(At(t, pos))
         /\ \A c : Cardinality(In(t, c)) \in Nat
         /\ [need |-> Left(K, t), cost |-> Cost(t)] \in Cells
<1>1. t \subseteq Player /\ t \subseteq Pool \ K
  BY PoolPlayers DEF Partial
<1>2. Cost(t) \in Nat
  BY <1>1, CostType
<1>3. ASSUME NEW pos \in Position
      PROVE  Cardinality(At(t, pos)) \in Nat /\ Left(K, t)[pos] \in Nat
             /\ Left(K, t)[pos] = Need(K, pos) - Cardinality(At(t, pos))
  <2>1. Cardinality(At(t, pos)) \in Nat /\ Cardinality(At(t, pos)) <= Need(K, pos) /\ Need(K, pos) \in Nat
    BY <1>1, CountType, NeedType DEF Partial
  <2>. QED
    BY <2>1 DEF Left
<1>4. Left(K, t) \in [Position -> Nat]
  BY <1>3 DEF Left
<1>5. \A c : Cardinality(In(t, c)) \in Nat
  BY <1>1, CountType
<1>. QED
  BY <1>1, <1>2, <1>3, <1>4, <1>5 DEF Cells

(* Another club's players may join those the clubs of D supply.            *)
Joins(K, D, c, t, u) ==
  /\ t \cup u \in Partial(K, D \cup {c}) /\ Cost(t \cup u) = Cost(t) + Cost(u)
  /\ \A pos \in Position : Left(K, t \cup u)[pos] = Left(K, t)[pos] - Cardinality(At(u, pos))

LEMMA ClubJoins ==
  ASSUME Players, NEW K, Fitting(K), NEW D, NEW c \in Club, c \notin D, NEW t \in Partial(K, D),
         NEW u \in OfOneClub(K, c),
         \A pos \in Position : Cardinality(At(u, pos)) <= Left(K, t)[pos]
  PROVE  Joins(K, D, c, t, u)
<1>0. (\A p \in u : Team(p) = c) /\ Cardinality(u) <= Headroom(K, c)
  BY DEF OfOneClub
<1>1. t \subseteq Player /\ u \subseteq Player /\ t \cap u = {} /\ t \cup u \in SUBSET (Pool \ K)
  BY PoolPlayers DEF Partial, OfOneClub
<1>2. /\ Cost(t \cup u) = Cost(t) + Cost(u)
      /\ \A pos : Cardinality(At(t \cup u, pos)) = Cardinality(At(t, pos)) + Cardinality(At(u, pos))
      /\ \A d : Cardinality(In(t \cup u, d)) = Cardinality(In(t, d)) + Cardinality(In(u, d))
  <2>1. AreApart(t, u)
    BY <1>1 DEF AreApart
  <2>2. AddUp(t, u)
    BY <2>1, Apart
  <2>. QED
    BY <2>2 DEF AddUp
<1>3. ASSUME NEW pos \in Position
      PROVE  /\ Left(K, t \cup u)[pos] = Left(K, t)[pos] - Cardinality(At(u, pos))
             /\ Cardinality(At(t \cup u, pos)) <= Need(K, pos)
  <2>1. /\ Left(K, t)[pos] = Need(K, pos) - Cardinality(At(t, pos))
        /\ Cardinality(At(t, pos)) \in Nat /\ Cardinality(At(u, pos)) \in Nat /\ Need(K, pos) \in Nat
        /\ Cardinality(At(u, pos)) <= Left(K, t)[pos]
    <3>1. Left(K, t)[pos] = Need(K, pos) - Cardinality(At(t, pos)) /\ Cardinality(At(t, pos)) \in Nat
      BY <1>1, CountType DEF Left
    <3>2. Cardinality(At(u, pos)) \in Nat /\ Need(K, pos) \in Nat
      BY <1>1, CountType, NeedType
    <3>. QED
      BY <3>1, <3>2
  <2>2. Cardinality(At(t \cup u, pos)) = Cardinality(At(t, pos)) + Cardinality(At(u, pos))
    BY <1>2
  <2>3. Left(K, t \cup u)[pos] = Need(K, pos) - Cardinality(At(t \cup u, pos))
    BY DEF Left
  <2>. QED
    BY <2>1, <2>2, <2>3
<1>4. ASSUME NEW d \in Club PROVE Cardinality(In(t \cup u, d)) <= Headroom(K, d)
  <2>1. Cardinality(In(t, d)) \in Nat /\ Cardinality(In(u, d)) \in Nat /\ Cardinality({}) = 0
    BY <1>1, CountType, FS_EmptySet
  <2>2. Cardinality(In(t \cup u, d)) = Cardinality(In(t, d)) + Cardinality(In(u, d))
    BY <1>2
  <2>3. CASE d = c
    <3>1. In(t, d) = {} /\ In(u, d) = u
      BY <1>0, <2>3 DEF In, Partial
    <3>2. Cardinality(In(t, d)) = 0 /\ Cardinality(In(u, d)) <= Headroom(K, d)
      BY <1>0, <2>1, <2>3, <3>1
    <3>3. Cardinality(In(t \cup u, d)) = Cardinality(In(u, d))
      BY <2>1, <2>2, <3>2
    <3>. QED
      BY <3>2, <3>3
  <2>4. CASE d # c
    <3>1. In(u, d) = {}
      BY <1>0, <2>4 DEF In
    <3>2. Cardinality(In(u, d)) = 0 /\ Cardinality(In(t, d)) <= Headroom(K, d)
      BY <2>1, <3>1 DEF Partial
    <3>3. Cardinality(In(t \cup u, d)) = Cardinality(In(t, d))
      BY <2>1, <2>2, <3>2
    <3>. QED
      BY <3>2, <3>3
  <2>. QED
    BY <2>3, <2>4
<1>5. \A p \in t \cup u : Team(p) \in D \cup {c}
  BY <1>0 DEF Partial
<1>6. t \cup u \in Partial(K, D \cup {c})
  BY <1>1, <1>3, <1>4, <1>5 DEF Partial
<1>. QED
  BY <1>2, <1>3, <1>6 DEF Joins

(* And without one club's players the rest are supplied by the others.     *)
LEMMA ClubLeaves ==
  ASSUME Players, NEW K, Fitting(K), NEW D, NEW c \in Club, NEW t \in Partial(K, D \cup {c})
  PROVE  LET u == In(t, c) IN
         /\ t \ u \in Partial(K, D) /\ u \in OfOneClub(K, c)
         /\ Cost(t) = Cost(t \ u) + Cost(u)
         /\ \A pos \in Position : Left(K, t)[pos] = Left(K, t \ u)[pos] - Cardinality(At(u, pos))
<1>. DEFINE u == In(t, c)
            r == t \ u
<1>1. /\ u \subseteq Player /\ r \subseteq Player /\ r \cap u = {} /\ r \cup u = t
      /\ u \in SUBSET (Pool \ K) /\ r \in SUBSET (Pool \ K) /\ \A p \in u : Team(p) = c
  BY PoolPlayers DEF Partial, In
<1>2. \A p \in r : Team(p) \in D
  BY DEF Partial, In
<1>3. Cardinality(u) <= Headroom(K, c)
  BY DEF Partial
<1>. HIDE DEF u, r
<1>4. /\ Cost(t) = Cost(r) + Cost(u)
      /\ \A pos : Cardinality(At(t, pos)) = Cardinality(At(r, pos)) + Cardinality(At(u, pos))
      /\ \A d : Cardinality(In(t, d)) = Cardinality(In(r, d)) + Cardinality(In(u, d))
  <2>1. AreApart(r, u)
    BY <1>1 DEF AreApart
  <2>2. AddUp(r, u)
    BY <2>1, Apart
  <2>. QED
    BY <1>1, <2>2 DEF AddUp
<1>5. /\ \A pos : Cardinality(At(r, pos)) \in Nat /\ Cardinality(At(u, pos)) \in Nat
      /\ \A d : Cardinality(In(r, d)) \in Nat /\ Cardinality(In(u, d)) \in Nat
  BY <1>1, CountType
<1>6. ASSUME NEW pos \in Position
      PROVE  /\ Left(K, t)[pos] = Left(K, r)[pos] - Cardinality(At(u, pos))
             /\ Cardinality(At(r, pos)) <= Need(K, pos)
  <2>1. /\ Cardinality(At(t, pos)) = Cardinality(At(r, pos)) + Cardinality(At(u, pos))
        /\ Cardinality(At(r, pos)) \in Nat /\ Cardinality(At(u, pos)) \in Nat /\ Need(K, pos) \in Nat
        /\ Cardinality(At(t, pos)) <= Need(K, pos)
    BY <1>4, <1>5, NeedType DEF Partial
  <2>2. Left(K, t)[pos] = Need(K, pos) - Cardinality(At(t, pos)) /\ Left(K, r)[pos] = Need(K, pos) - Cardinality(At(r, pos))
    BY DEF Left
  <2>. QED
    BY <2>1, <2>2
<1>7. ASSUME NEW d \in Club PROVE Cardinality(In(r, d)) <= Headroom(K, d)
  <2>1. /\ Cardinality(In(t, d)) = Cardinality(In(r, d)) + Cardinality(In(u, d))
        /\ Cardinality(In(r, d)) \in Nat /\ Cardinality(In(u, d)) \in Nat /\ Headroom(K, d) \in Nat
        /\ Cardinality(In(t, d)) <= Headroom(K, d)
    BY <1>4, <1>5, NeedType DEF Partial
  <2>. QED
    BY <2>1
<1>8. r \in Partial(K, D)
  BY <1>1, <1>2, <1>6, <1>7 DEF Partial
<1>9. u \in OfOneClub(K, c)
  BY <1>1, <1>3 DEF OfOneClub
<1>. QED
  BY <1>4, <1>6, <1>8, <1>9 DEF u, r

(* A club more: what the table answered for some clubs it answers for one  *)
(* more.                                                                   *)
LEMMA ServedStep ==
  ASSUME Players, NEW K, Fitting(K), NEW D, NEW c \in Club, c \notin D, NEW dp, Answers(K, D, dp)
  PROVE  Answers(K, D \cup {c}, Served(K, c, dp))
<1>. DEFINE cells == ServedCells(K, c, dp)
            S == Served(K, c, dp)
<1>0. dp \in SUBSET Cells
  BY PartialType DEF Answers
<1>1. cells \in SUBSET Cells /\ S \subseteq cells
  BY <1>0, ServedType, ServedIs
<1>2. ASSUME NEW z \in cells PROVE \E t \in Partial(K, D \cup {c}) : z = [need |-> Left(K, t), cost |-> Cost(t)]
  <2>1. PICK x \in dp, a \in Supplies(K, c) : MayServe(x, a) /\ z = ServedCell(K, c, x, a)
    BY <1>2, ServedIs
  <2>2. PICK t \in Partial(K, D) : x = [need |-> Left(K, t), cost |-> Cost(t)]
    BY DEF Answers
  <2>3. PICK u \in OfOneClub(K, c) :
           (\A pos \in Position : Cardinality(At(u, pos)) = a[pos]) /\ Cost(u) = Bill(K, c, a)
    BY SupplyIsOfPlayers
  <2>4. \A pos \in Position : Cardinality(At(u, pos)) <= Left(K, t)[pos]
    BY <2>1, <2>2, <2>3 DEF MayServe
  <2>5. /\ t \cup u \in Partial(K, D \cup {c}) /\ Cost(t \cup u) = Cost(t) + Cost(u)
        /\ \A pos \in Position : Left(K, t \cup u)[pos] = Left(K, t)[pos] - Cardinality(At(u, pos))
    <3>1. Joins(K, D, c, t, u)
      BY <2>4, ClubJoins
    <3>. QED
      BY <3>1 DEF Joins
  <2>6. [pos \in Position |-> x.need[pos] - a[pos]] = Left(K, t \cup u)
    <3>1. \A pos \in Position : x.need[pos] - a[pos] = Left(K, t \cup u)[pos]
      BY <2>2, <2>3, <2>5
    <3>2. Left(K, t \cup u) = [pos \in Position |-> Left(K, t \cup u)[pos]]
      BY DEF Left
    <3>. QED
      BY <3>1, <3>2
  <2>7. z = [need |-> Left(K, t \cup u), cost |-> Cost(t \cup u)]
    BY <2>1, <2>2, <2>3, <2>5, <2>6 DEF ServedCell
  <2>. QED
    BY <2>5, <2>7
<1>3. ASSUME NEW t \in Partial(K, D \cup {c}) PROVE \E z \in cells : z.need = Left(K, t) /\ z.cost <= Cost(t)
  <2>. DEFINE u == In(t, c)
              a == [pos \in Position |-> Cardinality(At(u, pos))]
  <2>1. /\ t \ u \in Partial(K, D) /\ u \in OfOneClub(K, c)
        /\ Cost(t) = Cost(t \ u) + Cost(u)
        /\ \A pos \in Position : Left(K, t)[pos] = Left(K, t \ u)[pos] - Cardinality(At(u, pos))
    BY ClubLeaves
  <2>. HIDE DEF u
  <2>2. a \in Supplies(K, c) /\ Bill(K, c, a) <= Cost(u)
    BY <2>1, PlayersAreASupply
  <2>3. PICK x \in dp : x.need = Left(K, t \ u) /\ x.cost <= Cost(t \ u)
    BY <2>1 DEF Answers
  <2>4. \A pos \in Position : a[pos] = Cardinality(At(u, pos))
    OBVIOUS
  <2>. HIDE DEF a
  <2>5. ASSUME NEW pos \in Position PROVE x.need[pos] - a[pos] = Left(K, t)[pos] /\ a[pos] <= x.need[pos]
    <3>1. Left(K, t)[pos] \in Nat /\ Left(K, t \ u)[pos] \in Nat
      <4>1. Left(K, t)[pos] \in Nat
        BY PartialType
      <4>. DEFINE r == t \ u
      <4>. HIDE DEF r
      <4>2. r \in Partial(K, D)
        BY <2>1 DEF r
      <4>3. Left(K, r)[pos] \in Nat
        BY <4>2, PartialType
      <4>. QED
        BY <4>1, <4>3 DEF r
    <3>2. a[pos] \in Nat
      <4>1. u \subseteq Player
        BY <2>1, PoolPlayers DEF OfOneClub
      <4>. QED
        <5>1. Cardinality(At(u, pos)) \in Nat
          BY <4>1, CountType
        <5>. QED
          BY <2>4, <5>1
    <3>3. x.need[pos] = Left(K, t \ u)[pos] /\ Left(K, t)[pos] = Left(K, t \ u)[pos] - a[pos]
      BY <2>1, <2>3, <2>4
    <3>. QED
      BY <3>1, <3>2, <3>3
  <2>6. ServedCell(K, c, x, a) \in cells
    BY <2>2, <2>5, ServedIs DEF MayServe
  <2>7. ServedCell(K, c, x, a).need = Left(K, t)
    BY <2>5 DEF ServedCell, Left
  <2>8. ServedCell(K, c, x, a).cost <= Cost(t)
    <3>1. x.cost \in Nat /\ Cost(t \ u) \in Nat /\ Cost(u) \in Nat
      <4>1. u \subseteq Player
        BY <2>1, PoolPlayers DEF OfOneClub
      <4>. QED
        BY <1>0, <2>1, <4>1, PartialType, CostType DEF Cells
    <3>2. x.cost + Bill(K, c, a) \in Nat
      BY <1>1, <2>6 DEF ServedCell, Cells
    <3>3. Bill(K, c, a) \in Int
      <4>1. PICK v \in OfOneClub(K, c) : Cost(v) = Bill(K, c, a)
        BY <2>2, SupplyIsOfPlayers
      <4>2. v \subseteq Player
        BY PoolPlayers DEF OfOneClub
      <4>. QED
        BY <4>1, <4>2, CostType
    <3>4. ServedCell(K, c, x, a).cost = x.cost + Bill(K, c, a)
      BY DEF ServedCell
    <3>. QED
      BY <2>1, <2>2, <2>3, <3>1, <3>3, <3>4
  <2>. QED
    BY <2>6, <2>7, <2>8
<1>4. ASSUME NEW z \in cells PROVE \E x \in S : x.need = z.need /\ x.cost <= z.cost
  <2>. DEFINE N == {y.cost : y \in {y \in cells : y.need = z.need}}
  <2>1. N \subseteq Nat /\ z.cost \in N
    BY <1>1 DEF Cells
  <2>2. PICK n \in N : \A m \in N : n <= m
    BY <2>1, LeastNumber
  <2>3. PICK x \in cells : x.need = z.need /\ x.cost = n
    OBVIOUS
  <2>4. \A y \in cells : y.need = x.need => x.cost <= y.cost
    BY <2>2, <2>3
  <2>. HIDE DEF cells
  <2>5. x \in S
    BY <2>3, <2>4, ServedIs DEF cells
  <2>. QED
    BY <2>1, <2>2, <2>3, <2>5
<1>5. ASSUME NEW x \in S, NEW y \in S, x.need = y.need PROVE x.cost = y.cost
  <2>1. x.cost <= y.cost /\ y.cost <= x.cost
    BY <1>5, ServedIs
  <2>2. x.cost \in Nat /\ y.cost \in Nat
    BY <1>1 DEF Cells
  <2>. QED
    BY <2>1, <2>2
<1>6. \A t \in Partial(K, D \cup {c}) : \E x \in S : x.need = Left(K, t) /\ x.cost <= Cost(t)
  <2>. TAKE t \in Partial(K, D \cup {c})
  <2>1. PICK z \in cells : z.need = Left(K, t) /\ z.cost <= Cost(t)
    BY <1>3
  <2>2. PICK x \in S : x.need = z.need /\ x.cost <= z.cost
    BY <1>4
  <2>3. x.cost \in Nat /\ z.cost \in Nat /\ Cost(t) \in Nat
    BY <1>1, PartialType DEF Cells
  <2>. QED
    BY <2>1, <2>2, <2>3
<1>. HIDE DEF cells, S
<1>7. \A x \in S : \E t \in Partial(K, D \cup {c}) : x = [need |-> Left(K, t), cost |-> Cost(t)]
  BY <1>1, <1>2
<1>8. Answers(K, D \cup {c}, S)
  BY <1>5, <1>6, <1>7 DEF Answers
<1>. QED
  BY <1>8 DEF S

-----------------------------------------------------------------------------

(* Tier 2 takes the clubs one by one: a table of what is served once those *)
(* of a set have been taken.                                               *)
IsServing(h, K) ==
  h = [D \in SUBSET Club |-> IF D = {} THEN Unserved(K) ELSE Served(K, Pick(D), h[D \ {Pick(D)}])]

Servings(K) == CHOOSE h : IsServing(h, K)

LEMMA Tier2Is ==
  ASSUME NEW K
  PROVE  Tier2(K) = LET done == {x \in Servings(K)[Club] : Total(x.need) = 0}
                    IN  IF done = {} THEN Infeasible ELSE (CHOOSE x \in done : TRUE).cost
BY DEF Tier2, FoldSet, MapThenFoldSet, Servings, IsServing, Pick

(* At first nothing is served, and every need is left.                     *)
LEMMA Unserving ==
  ASSUME Players, NEW K, Fitting(K)
  PROVE  Answers(K, {}, Unserved(K)) /\ Unserved(K) \in SUBSET Cells
<1>. DEFINE none == [need |-> [pos \in Position |-> Need(K, pos)], cost |-> 0]
<1>1. /\ \A pos : At({}, pos) = {}
      /\ \A c : In({}, c) = {}
      /\ Cardinality({}) = 0 /\ Cost({}) = 0
  BY FS_EmptySet, SumEmpty DEF At, In, Cost
<1>2. \A pos \in Position : Need(K, pos) \in Nat
  BY NeedType
<1>3. \A c \in Club : Headroom(K, c) \in Nat
  BY NeedType
<1>4. {} \in Partial(K, {})
  BY <1>1, <1>2, <1>3 DEF Partial
<1>5. \A t \in Partial(K, {}) : t = {}
  BY DEF Partial
<1>6. Left(K, {}) = [pos \in Position |-> Need(K, pos)]
  <2>1. \A pos \in Position : Need(K, pos) - Cardinality(At({}, pos)) = Need(K, pos)
    BY <1>1, <1>2
  <2>. QED
    BY <2>1 DEF Left
<1>7. none = [need |-> Left(K, {}), cost |-> Cost({})]
  BY <1>1, <1>6
<1>8. none \in Cells
  BY <1>2 DEF Cells
<1>9. Unserved(K) = {none}
  BY DEF Unserved
<1>. HIDE DEF none
<1>10. none.need = Left(K, {}) /\ none.cost = 0
  BY <1>1, <1>7
<1>11. \A x \in Unserved(K) : \E t \in Partial(K, {}) : x = [need |-> Left(K, t), cost |-> Cost(t)]
  BY <1>4, <1>7, <1>9
<1>12. \A t \in Partial(K, {}) : \E x \in Unserved(K) : x.need = Left(K, t) /\ x.cost <= Cost(t)
  <2>. TAKE t \in Partial(K, {})
  <2>1. t = {} /\ none \in Unserved(K)
    BY <1>5, <1>9
  <2>2. none.need = Left(K, t) /\ none.cost <= Cost(t)
    BY <1>1, <1>10, <2>1
  <2>. QED
    BY <2>1, <2>2
<1>13. \A x, y \in Unserved(K) : x.need = y.need => x.cost = y.cost
  BY <1>9
<1>. QED
  BY <1>8, <1>9, <1>11, <1>12, <1>13 DEF Answers

(* So the last table answers for all clubs.                                *)
LEMMA ServingsAnswer ==
  ASSUME Players, NEW K, Fitting(K)
  PROVE  Answers(K, Club, Servings(K)[Club])
<1>. DEFINE k == [D \in SUBSET Club |-> Pick(D)]
            g == [y \in Club \X SUBSET Cells |-> Served(K, y[1], y[2])]
            base == Unserved(K)
            V == SUBSET Cells
<1>1. IsFiniteSet(Club)
  BY SquadConstants
<1>2. \A D \in SUBSET Club : D # {} => k[D] \in D
  BY PickIsIn
<1>3. ASSUME NEW x \in Club, NEW v \in V PROVE g[<<x, v>>] \in V /\ g[<<x, v>>] = Served(K, x, v)
  <2>1. g[<<x, v>>] = Served(K, x, v)
    BY <1>3
  <2>. HIDE DEF g
  <2>. QED
    BY <1>3, <2>1, ServedType
<1>4. base \in V
  BY Unserving
<1>5. \A D \in SUBSET Club : k[D] = Pick(D)
  OBVIOUS
<1>. HIDE DEF k, g, V, base
<1>6. \E h : Stepped(h, Club, base, k, g) /\ \A D \in SUBSET Club : h[D] \in V
  <2>1. \A x \in Club, v \in V : g[<<x, v>>] \in V
    BY <1>3
  <2>2. Steps(Club, V, base, k, g)
    BY <1>1, <1>2, <1>4, <2>1 DEF Steps
  <2>. QED
    BY <2>2, StepTable
<1>7. \E h : IsServing(h, K)
  <2>1. PICK h : /\ h = [D \in SUBSET Club |-> IF D = {} THEN base ELSE g[<<k[D], h[D \ {k[D]}]>>]]
                 /\ \A D \in SUBSET Club : h[D] \in V
    BY <1>6 DEF Stepped
  <2>2. ASSUME NEW D \in SUBSET Club
        PROVE  (IF D = {} THEN base ELSE g[<<k[D], h[D \ {k[D]}]>>])
                 = (IF D = {} THEN Unserved(K) ELSE Served(K, Pick(D), h[D \ {Pick(D)}]))
    <3>1. CASE D = {}
      BY <3>1 DEF base
    <3>2. CASE D # {}
      <4>1. k[D] = Pick(D) /\ Pick(D) \in Club /\ D \ {Pick(D)} \in SUBSET Club
        BY <1>2, <1>5, <3>2
      <4>2. h[D \ {Pick(D)}] \in V
        BY <2>1, <4>1
      <4>. QED
        BY <1>3, <3>2, <4>1, <4>2
    <3>. QED
      BY <3>1, <3>2
  <2>3. h = [D \in SUBSET Club |-> IF D = {} THEN Unserved(K) ELSE Served(K, Pick(D), h[D \ {Pick(D)}])]
    <3>. DEFINE F(D) == IF D = {} THEN base ELSE g[<<k[D], h[D \ {k[D]}]>>]
                G(D) == IF D = {} THEN Unserved(K) ELSE Served(K, Pick(D), h[D \ {Pick(D)}])
    <3>1. h = [D \in SUBSET Club |-> F(D)]
      BY <2>1
    <3>2. \A D \in SUBSET Club : F(D) = G(D)
      BY <2>2
    <3>. HIDE DEF F, G
    <3>3. h = [D \in SUBSET Club |-> G(D)]
      BY <3>1, <3>2
    <3>. QED
      BY <3>3 DEF G
  <2>. QED
    BY <2>3 DEF IsServing
<1>. DEFINE h == Servings(K)
            J == {D \in SUBSET Club : Answers(K, D, h[D])}
<1>8. IsServing(h, K)
  BY <1>7 DEF Servings
<1>. HIDE DEF h
<1>9. ASSUME NEW D \in SUBSET Club
      PROVE  h[D] = IF D = {} THEN Unserved(K) ELSE Served(K, Pick(D), h[D \ {Pick(D)}])
  BY <1>8 DEF IsServing
<1>10. {} \in J
  <2>1. h[{}] = Unserved(K)
    BY <1>9
  <2>. QED
    BY <2>1, Unserving
<1>11. ASSUME NEW D \in SUBSET Club, D # {}, D \ {k[D]} \in J PROVE D \in J
  <2>. DEFINE c == Pick(D)
              E == D \ {c}
  <2>1. c \in D /\ c \in Club /\ c \notin E /\ D = E \cup {c} /\ k[D] = c
    BY <1>5, <1>11, PickIsIn
  <2>2. h[D] = Served(K, c, h[E])
    BY <1>9, <1>11
  <2>3. Answers(K, E, h[E])
    BY <1>11, <2>1
  <2>. HIDE DEF c, E
  <2>4. Answers(K, E \cup {c}, Served(K, c, h[E]))
    BY <2>1, <2>3, ServedStep
  <2>. QED
    BY <2>1, <2>2, <2>4
<1>. HIDE DEF J
<1>12. Club \in J
  BY <1>1, <1>2, <1>10, <1>11, StepsKeep
<1>. QED
  BY <1>12 DEF J, h

(* The table is exact: of the cheapest completion it says what it costs.   *)
LEMMA Tier2IsExact ==
  ASSUME world \in World, req \in Request, NEW K, Fitting(K)
  PROVE  Tier2(K) = CheapestCompletion(K)
<1>. DEFINE dp == Servings(K)[Club]
            done == {x \in dp : Total(x.need) = 0}
            m == CheapestCompletion(K)
<1>0. Players
  BY Constants
<1>1. Answers(K, Club, dp)
  BY <1>0, ServingsAnswer
<1>2. Tier2(K) = IF done = {} THEN Infeasible ELSE (CHOOSE x \in done : TRUE).cost
  BY Tier2Is
<1>3. /\ m \in Nat /\ m <= Infeasible
      /\ \A t \in Rests(K) : m <= Cost(t)
      /\ m = Infeasible \/ \E t \in Rests(K) : m = Cost(t)
  BY <1>0, CheapestRest
<1>. HIDE DEF dp, m
<1>4. ASSUME NEW t \in Partial(K, Club), \A pos \in Position : Left(K, t)[pos] = 0 PROVE t \in Rests(K)
  <2>1. ASSUME NEW pos \in Position PROVE Cardinality(At(t, pos)) = Need(K, pos)
    <3>1. /\ Cardinality(At(t, pos)) \in Nat /\ Need(K, pos) \in Nat
          /\ Left(K, t)[pos] = Need(K, pos) - Cardinality(At(t, pos))
      <4>1. t \subseteq Player
        BY <1>0, PartialType
      <4>. QED
        BY <1>0, <4>1, CountType, NeedType DEF Left
    <3>. QED
      BY <1>4, <3>1
  <2>. QED
    BY <2>1 DEF Partial, Rests
<1>5. ASSUME NEW t \in Rests(K)
      PROVE  t \in Partial(K, Club) /\ Left(K, t) = [pos \in Position |-> 0]
  <2>1. t \subseteq Player /\ \A pos \in Position : Cardinality(At(t, pos)) = Need(K, pos) /\ Need(K, pos) \in Nat
    BY <1>0, CompletionsAreRests, NeedType DEF Rests
  <2>2. \A p \in t : Team(p) \in Club
    BY <1>0, <2>1, Teams
  <2>3. \A pos \in Position : Cardinality(At(t, pos)) <= Need(K, pos)
    BY <2>1
  <2>4. t \in Partial(K, Club)
    BY <2>2, <2>3 DEF Rests, Partial
  <2>5. \A pos \in Position : Need(K, pos) - Cardinality(At(t, pos)) = 0
    BY <2>1
  <2>. QED
    BY <2>4, <2>5 DEF Left
<1>6. ASSUME NEW x \in done
      PROVE  /\ x \in dp /\ (\A pos \in Position : x.need[pos] = 0) /\ x.need = [pos \in Position |-> 0]
             /\ \E t \in Rests(K) : x.cost = Cost(t)
  <2>1. PICK t \in Partial(K, Club) : x = [need |-> Left(K, t), cost |-> Cost(t)]
    BY <1>1 DEF Answers
  <2>. DEFINE n == x.need
  <2>2. n = Left(K, t) /\ n = [pos \in Position |-> n[pos]] /\ \A pos \in Position : n[pos] \in Nat
    <3>1. n = Left(K, t)
      BY <2>1
    <3>2. Left(K, t) = [pos \in Position |-> Left(K, t)[pos]]
      BY DEF Left
    <3>3. Left(K, t) \in [Position -> Nat]
      <4>1. [need |-> Left(K, t), cost |-> Cost(t)] \in Cells
        BY <1>0, PartialType
      <4>. QED
        BY <4>1 DEF Cells
    <3>. QED
      BY <3>1, <3>2, <3>3
  <2>3. SumFunctionOnSet(n, Position) = 0
    BY DEF Total
  <2>. HIDE DEF n
  <2>4. ASSUME NEW pos \in Position PROVE n[pos] = 0
    <3>1. /\ IsFiniteSet(Position) /\ (\A q \in Position : n[q] \in Int)
          /\ IsFiniteSet(Position \ {pos}) /\ \A q \in Position \ {pos} : n[q] \in Nat
      BY <2>2, SquadConstants, FS_Subset
    <3>2. SumFunctionOnSet(n, Position) = n[pos] + SumFunctionOnSet(n, Position \ {pos})
      BY <3>1, SumRemove
    <3>3. SumFunctionOnSet(n, Position \ {pos}) \in Nat
      BY <3>1, SumPositive
    <3>. QED
      BY <2>2, <2>3, <3>2, <3>3
  <2>5. t \in Rests(K)
    BY <1>4, <2>2, <2>4
  <2>. QED
    BY <2>1, <2>2, <2>4, <2>5 DEF n
<1>7. ASSUME NEW t \in Rests(K) PROVE \E x \in done : x.cost <= Cost(t)
  <2>1. PICK x \in dp : x.need = Left(K, t) /\ x.cost <= Cost(t)
    BY <1>1, <1>5 DEF Answers
  <2>2. x.need = [pos \in Position |-> 0]
    BY <1>5, <2>1
  <2>3. SumFunctionOnSet(x.need, Position) = 0
    <3>. DEFINE z == [pos \in Position |-> 0]
    <3>1. IsFiniteSet(Position) /\ \A pos \in Position : z[pos] = 0
      BY SquadConstants
    <3>. HIDE DEF z
    <3>2. SumFunctionOnSet(z, Position) = 0
      BY <3>1, SumNothing
    <3>. QED
      BY <2>2, <3>2 DEF z
  <2>4. x \in done
    BY <2>3 DEF Total
  <2>. QED
    BY <2>1, <2>4
<1>. HIDE DEF done
<1>8. CASE done = {}
  <2>1. Rests(K) = {}
    BY <1>7, <1>8
  <2>2. m = Infeasible
    BY <1>3, <2>1
  <2>. QED
    BY <1>2, <1>8, <2>2 DEF m
<1>9. CASE done # {}
  <2>. DEFINE x == CHOOSE x \in done : TRUE
  <2>1. x \in done /\ Tier2(K) = x.cost
    BY <1>2, <1>9
  <2>. HIDE DEF x
  <2>2. PICK t \in Rests(K) : x.cost = Cost(t)
    BY <1>6, <2>1
  <2>3. m <= x.cost /\ x.cost \in Nat /\ x.cost < Infeasible
    <3>1. t \subseteq Player
      BY <1>0, CompletionsAreRests
    <3>. QED
      BY <1>0, <1>3, <2>2, <3>1, CostType, BelowTheMark
  <2>4. PICK u \in Rests(K) : m = Cost(u)
    BY <1>3, <2>3 DEF Infeasible
  <2>5. PICK y \in done : y.cost <= Cost(u)
    BY <1>7
  <2>6. y.cost = x.cost
    <3>1. x \in dp /\ y \in dp /\ x.need = y.need
      BY <1>6, <2>1
    <3>. QED
      BY <1>1, <3>1 DEF Answers
  <2>7. m = x.cost
    BY <1>3, <2>3, <2>4, <2>5, <2>6
  <2>. QED
    BY <2>1, <2>7 DEF m
<1>. QED
  BY <1>8, <1>9

(* Both stages together: the first never hides a completion from the       *)
(* second.                                                                 *)
LEMMA ExactIsCheapest ==
  ASSUME world \in World, req \in Request, NEW K, Fitting(K)
  PROVE  Exact(K) = CheapestCompletion(K)
<1>0. Players
  BY Constants
<1>1. Tier2(K) = CheapestCompletion(K)
  BY Tier2IsExact
<1>2. Tier1(K) \in Nat /\ Tier1(K) <= Infeasible /\ Infeasible \in Nat
  BY Tier1Type DEF Infeasible
<1>3. CASE Tier1(K) >= Infeasible
  <2>1. Tier1(K) = Infeasible
    BY <1>2, <1>3
  <2>2. ASSUME NEW t \in Rests(K) PROVE FALSE
    <3>1. t \subseteq Player
      BY <1>0, CompletionsAreRests
    <3>2. Cost(t) \in Nat /\ Cost(t) < Infeasible
      BY <1>0, <3>1, CostType, BelowTheMark
    <3>3. Tier1(K) <= Cost(t)
      BY <1>0, Tier1IsABound
    <3>. QED
      BY <1>2, <2>1, <3>2, <3>3
  <2>3. CheapestCompletion(K) = Infeasible
    BY <1>0, <2>2, CheapestRest
  <2>. QED
    BY <1>3, <2>1, <2>3 DEF Exact
<1>4. CASE ~(Tier1(K) >= Infeasible)
  BY <1>1, <1>4 DEF Exact
<1>. QED
  BY <1>3, <1>4

-----------------------------------------------------------------------------
(* The fill.                                                               *)


(* One player more.                                                        *)
OneMore(L, K, p) ==
  /\ \A pos \in Position : Cardinality(At(L, pos)) = Cardinality(At(K, pos)) + (IF pos = PosOf[p] THEN 1 ELSE 0)
  /\ \A c \in Club : Cardinality(In(L, c)) = Cardinality(In(K, c)) + (IF c = Team(p) THEN 1 ELSE 0)
  /\ Cost(L) = Cost(K) + Price(p)

LEMMA PlayerJoins ==
  ASSUME Players, NEW K, K \subseteq Player, NEW p \in Player \ K
  PROVE  OneMore(K \cup {p}, K, p)
<1>. DEFINE T == {p}
<1>1. /\ \A pos \in Position : At(T, pos) = IF pos = PosOf[p] THEN {p} ELSE {}
      /\ \A c \in Club : In(T, c) = IF c = Team(p) THEN {p} ELSE {}
  BY DEF At, In
<1>2. Cardinality({p}) = 1 /\ Cardinality({}) = 0
  BY FS_Singleton, FS_EmptySet
<1>3. Cost(T) = Price(p)
  <2>. DEFINE f == world.price
  <2>1. f[p] \in Nat
    BY MarketType
  <2>2. p \in T /\ T \ {p} = {} /\ \A q \in T : f[q] \in Int
    BY <2>1
  <2>3. IsFiniteSet(T)
    BY FS_Singleton
  <2>. HIDE DEF f, T
  <2>4. SumFunctionOnSet(f, T) = f[p] + SumFunctionOnSet(f, T \ {p})
    BY <2>2, <2>3, SumRemove
  <2>5. SumFunctionOnSet(f, T) = f[p]
    BY <2>1, <2>2, <2>4, SumEmpty
  <2>. QED
    BY <2>5 DEF f, Cost, Price
<1>4. AreApart(K, T)
  BY DEF AreApart
<1>. HIDE DEF T
<1>5. /\ Cost(K \cup T) = Cost(K) + Cost(T)
      /\ \A pos : Cardinality(At(K \cup T, pos)) = Cardinality(At(K, pos)) + Cardinality(At(T, pos))
      /\ \A c : Cardinality(In(K \cup T, c)) = Cardinality(In(K, c)) + Cardinality(In(T, c))
  <2>1. AddUp(K, T)
    BY <1>4, Apart
  <2>. QED
    BY <2>1 DEF AddUp
<1>6. \A pos \in Position : Cardinality(At(T, pos)) = IF pos = PosOf[p] THEN 1 ELSE 0
  BY <1>1, <1>2
<1>7. \A c \in Club : Cardinality(In(T, c)) = IF c = Team(p) THEN 1 ELSE 0
  BY <1>1, <1>2
<1>. QED
  BY <1>3, <1>5, <1>6, <1>7 DEF T, OneMore

HasRoom(K, p) ==
  Cardinality(At(K, PosOf[p])) < Quota[PosOf[p]] /\ Cardinality(In(K, Team(p))) < MaxPerClub

(* Who finds room leaves a squad that fits.                                *)
LEMMA RoomFits ==
  ASSUME Players, NEW K, Fitting(K), NEW p \in Player \ K, HasRoom(K, p)
  PROVE  /\ Fitting(K \cup {p})
         /\ \A pos \in Position : Need(K \cup {p}, pos) = Need(K, pos) - (IF pos = PosOf[p] THEN 1 ELSE 0)
         /\ \A c \in Club : Headroom(K \cup {p}, c) = Headroom(K, c) - (IF c = Team(p) THEN 1 ELSE 0)
<1>. DEFINE L == K \cup {p}
<1>0. K \subseteq Player /\ L \subseteq Player
  BY DEF Fitting
<1>1. /\ \A pos \in Position : Cardinality(At(L, pos)) = Cardinality(At(K, pos)) + (IF pos = PosOf[p] THEN 1 ELSE 0)
      /\ \A c \in Club : Cardinality(In(L, c)) = Cardinality(In(K, c)) + (IF c = Team(p) THEN 1 ELSE 0)
  <2>1. OneMore(L, K, p)
    BY <1>0, PlayerJoins
  <2>. QED
    BY <2>1 DEF OneMore
<1>. HIDE DEF L
<1>2. ASSUME NEW pos \in Position
      PROVE  /\ Cardinality(At(L, pos)) <= Quota[pos] /\ Cardinality(At(K, pos)) \in Nat /\ Quota[pos] \in Nat
             /\ Cardinality(At(K, pos)) <= Quota[pos]
  <2>1. Cardinality(At(K, pos)) \in Nat /\ Cardinality(At(K, pos)) <= Quota[pos] /\ Quota[pos] \in Nat
    BY <1>0, CountType, SquadConstants DEF Fitting
  <2>2. pos = PosOf[p] => Cardinality(At(K, pos)) < Quota[pos]
    BY DEF HasRoom
  <2>. QED
    BY <1>1, <2>1, <2>2
<1>3. ASSUME NEW c \in Club
      PROVE  /\ Cardinality(In(L, c)) <= MaxPerClub /\ Cardinality(In(K, c)) \in Nat /\ MaxPerClub \in Nat
             /\ Cardinality(In(K, c)) <= MaxPerClub
  <2>1. Cardinality(In(K, c)) \in Nat /\ Cardinality(In(K, c)) <= MaxPerClub /\ MaxPerClub \in Nat
    BY <1>0, CountType, SquadConstants DEF Fitting, WithinClubs
  <2>2. c = Team(p) => Cardinality(In(K, c)) < MaxPerClub
    BY DEF HasRoom
  <2>. QED
    BY <1>1, <2>1, <2>2
<1>4. Fitting(L)
  BY <1>0, <1>2, <1>3 DEF Fitting, WithinClubs
<1>5. ASSUME NEW pos \in Position
      PROVE  Need(L, pos) = Need(K, pos) - (IF pos = PosOf[p] THEN 1 ELSE 0)
  <2>1. Need(L, pos) = Quota[pos] - Cardinality(At(L, pos)) /\ Need(K, pos) = Quota[pos] - Cardinality(At(K, pos))
    BY <1>4, NeedType
  <2>. QED
    BY <1>1, <1>2, <2>1
<1>6. ASSUME NEW c \in Club
      PROVE  Headroom(L, c) = Headroom(K, c) - (IF c = Team(p) THEN 1 ELSE 0)
  <2>1. Headroom(L, c) = MaxPerClub - Cardinality(In(L, c)) /\ Headroom(K, c) = MaxPerClub - Cardinality(In(K, c))
    BY <1>4, NeedType
  <2>. QED
    BY <1>1, <1>3, <2>1
<1>. QED
  BY <1>4, <1>5, <1>6 DEF L

(* A player of a rest has room, and after him the rest is a rest.          *)
LEMMA RestShrinks ==
  ASSUME Players, NEW K, Fitting(K), NEW t \in Rests(K), NEW p \in t
  PROVE  /\ p \in Pool \ K /\ HasRoom(K, p)
         /\ t \ {p} \in Rests(K \cup {p}) /\ Cost(t) = Cost(t \ {p}) + Price(p)
<1>. DEFINE r == t \ {p}
<1>1. t \subseteq Player /\ t \subseteq Pool \ K /\ r \subseteq Player /\ p \in Player \ r /\ p \in Player \ K
      /\ r \cup {p} = t /\ r \in SUBSET (Pool \ (K \cup {p})) /\ PosOf[p] \in Position /\ Team(p) \in Club
  <2>1. t \subseteq Player /\ t \subseteq Pool \ K
    BY CompletionsAreRests DEF Rests
  <2>2. p \in Player
    BY <2>1
  <2>. QED
    BY <2>1, <2>2, Teams
<1>. HIDE DEF r
<1>2. /\ \A pos \in Position : Cardinality(At(t, pos)) = Cardinality(At(r, pos)) + (IF pos = PosOf[p] THEN 1 ELSE 0)
      /\ \A c \in Club : Cardinality(In(t, c)) = Cardinality(In(r, c)) + (IF c = Team(p) THEN 1 ELSE 0)
      /\ Cost(t) = Cost(r) + Price(p)
  <2>1. OneMore(r \cup {p}, r, p)
    BY <1>1, PlayerJoins
  <2>2. OneMore(t, r, p)
    BY <1>1, <2>1
  <2>. QED
    BY <2>2 DEF OneMore
<1>3. /\ \A pos : Cardinality(At(r, pos)) \in Nat
      /\ \A c : Cardinality(In(r, c)) \in Nat
  BY <1>1, CountType
<1>4. HasRoom(K, p)
  <2>1. Cardinality(At(t, PosOf[p])) = Need(K, PosOf[p]) /\ Cardinality(In(t, Team(p))) <= Headroom(K, Team(p))
    BY <1>1 DEF Rests
  <2>2. /\ Cardinality(At(t, PosOf[p])) = Cardinality(At(r, PosOf[p])) + 1
        /\ Cardinality(In(t, Team(p))) = Cardinality(In(r, Team(p))) + 1
    BY <1>1, <1>2
  <2>3. /\ Need(K, PosOf[p]) = Quota[PosOf[p]] - Cardinality(At(K, PosOf[p]))
        /\ Headroom(K, Team(p)) = MaxPerClub - Cardinality(In(K, Team(p)))
    BY <1>1, NeedType
  <2>4. /\ Cardinality(At(r, PosOf[p])) \in Nat /\ Cardinality(In(r, Team(p))) \in Nat
        /\ Cardinality(At(K, PosOf[p])) \in Nat /\ Cardinality(In(K, Team(p))) \in Nat
        /\ Quota[PosOf[p]] \in Nat /\ MaxPerClub \in Nat
    BY <1>1, <1>3, CountType, SquadConstants DEF Fitting
  <2>5. Cardinality(At(K, PosOf[p])) < Quota[PosOf[p]]
    <3>1. Cardinality(At(r, PosOf[p])) + 1 = Quota[PosOf[p]] - Cardinality(At(K, PosOf[p]))
      BY <2>1, <2>2, <2>3
    <3>. QED
      BY <2>4, <3>1
  <2>6. Cardinality(In(K, Team(p))) < MaxPerClub
    <3>1. Cardinality(In(r, Team(p))) + 1 <= MaxPerClub - Cardinality(In(K, Team(p)))
      BY <2>1, <2>2, <2>3
    <3>. QED
      BY <2>4, <3>1
  <2>. QED
    BY <2>5, <2>6 DEF HasRoom
<1>5. /\ \A pos \in Position : Need(K \cup {p}, pos) = Need(K, pos) - (IF pos = PosOf[p] THEN 1 ELSE 0)
      /\ \A c \in Club : Headroom(K \cup {p}, c) = Headroom(K, c) - (IF c = Team(p) THEN 1 ELSE 0)
  BY <1>1, <1>4, RoomFits
<1>6. ASSUME NEW pos \in Position PROVE Cardinality(At(r, pos)) = Need(K \cup {p}, pos)
  <2>1. Cardinality(At(t, pos)) = Need(K, pos)
    BY DEF Rests
  <2>2. Cardinality(At(t, pos)) = Cardinality(At(r, pos)) + (IF pos = PosOf[p] THEN 1 ELSE 0)
    BY <1>2
  <2>3. Need(K \cup {p}, pos) = Need(K, pos) - (IF pos = PosOf[p] THEN 1 ELSE 0)
    BY <1>5
  <2>4. Cardinality(At(r, pos)) \in Nat
    BY <1>3
  <2>. QED
    BY <2>1, <2>2, <2>3, <2>4
<1>7. ASSUME NEW c \in Club PROVE Cardinality(In(r, c)) <= Headroom(K \cup {p}, c)
  <2>1. Cardinality(In(t, c)) <= Headroom(K, c) /\ Headroom(K, c) \in Nat
    BY NeedType DEF Rests
  <2>2. Cardinality(In(t, c)) = Cardinality(In(r, c)) + (IF c = Team(p) THEN 1 ELSE 0)
    BY <1>2
  <2>3. Headroom(K \cup {p}, c) = Headroom(K, c) - (IF c = Team(p) THEN 1 ELSE 0)
    BY <1>5
  <2>4. Cardinality(In(r, c)) \in Nat
    BY <1>3
  <2>. QED
    BY <2>1, <2>2, <2>3, <2>4
<1>8. r \in Rests(K \cup {p})
  BY <1>1, <1>6, <1>7 DEF Rests
<1>. QED
  BY <1>1, <1>2, <1>4, <1>8 DEF r

(* A squad that can be completed for the money left has a player to add... *)
LEMMA SomeoneCanBeAdded ==
  ASSUME world \in World, req \in Request, Fitting(squad), ~Filled(squad), clubs = Counts(squad),
         spend = Cost(squad), CheapestCompletion(squad) <= req.budget - spend
  PROVE  Addable # {}
<1>0. Players
  BY Constants
<1>1. squad \subseteq Player /\ spend \in Nat /\ req.budget \in Nat /\ req.budget < Infeasible
  BY <1>0, CostType, MarketType, MoneyIsBelowTheMark DEF Fitting
<1>2. PICK t \in Rests(squad) : Cost(t) <= req.budget - spend
  <2>1. CheapestCompletion(squad) # Infeasible
    BY <1>1 DEF Infeasible
  <2>. QED
    BY <1>0, <2>1, CheapestRest
<1>3. PICK pos \in Position : Cardinality(At(squad, pos)) # Quota[pos]
  BY DEF Filled
<1>4. t \subseteq Player /\ Cardinality(At(t, pos)) > 0
  <2>1. /\ Cardinality(At(squad, pos)) \in Nat /\ Quota[pos] \in Nat /\ Cardinality(At(squad, pos)) <= Quota[pos]
        /\ Need(squad, pos) = Quota[pos] - Cardinality(At(squad, pos))
    BY <1>0, <1>1, CountType, NeedType, SquadConstants DEF Fitting
  <2>2. Cardinality(At(t, pos)) = Need(squad, pos)
    BY DEF Rests
  <2>. QED
    BY <1>0, <1>3, <2>1, <2>2, CompletionsAreRests
<1>5. PICK p \in t : PosOf[p] = pos
  <2>1. At(t, pos) # {}
    BY <1>4, FS_EmptySet
  <2>. QED
    BY <2>1 DEF At
<1>. DEFINE K == squad \cup {p}
            left == req.budget - spend - Price(p)
<1>6. /\ p \in Pool \ squad /\ HasRoom(squad, p) /\ p \in Player \ squad
      /\ t \ {p} \in Rests(K) /\ Cost(t) = Cost(t \ {p}) + Price(p)
  BY <1>0, <1>4, RestShrinks, PoolPlayers
<1>7. Fitting(K)
  BY <1>0, <1>6, RoomFits
<1>. HIDE DEF K
<1>8. Cost(t \ {p}) \in Nat /\ Price(p) \in Nat /\ Cost(t) \in Nat /\ left \in Int /\ Cost(t \ {p}) <= left
  <2>1. Cost(t \ {p}) \in Nat /\ Price(p) \in Nat /\ Cost(t) \in Nat
    BY <1>0, <1>4, <1>6, CostType, MarketType DEF Price
  <2>. QED
    BY <1>1, <1>2, <1>6, <2>1
<1>. HIDE DEF left
<1>9. /\ Tier1(K) \in Nat /\ Tier1(K) <= Cost(t \ {p})
      /\ Tier2(K) \in Nat /\ Tier2(K) <= Cost(t \ {p})
  <2>1. Tier1(K) \in Nat /\ Tier1(K) <= Cost(t \ {p})
    BY <1>0, <1>6, <1>7, Tier1Type, Tier1IsABound
  <2>2. Tier2(K) = CheapestCompletion(K)
    BY <1>7, Tier2IsExact
  <2>3. CheapestCompletion(K) \in Nat /\ CheapestCompletion(K) <= Cost(t \ {p})
    BY <1>0, <1>6, <1>7, CheapestRest
  <2>. QED
    BY <2>1, <2>2, <2>3
<1>10. FillCost(K, left) <= left
  BY <1>8, <1>9 DEF FillCost
<1>11. clubs[Team(p)] = Cardinality(In(squad, Team(p)))
  BY <1>0, <1>6, Teams DEF Counts
<1>. QED
  BY <1>6, <1>10, <1>11 DEF Addable, HasRoom, K, left

(* ...and whoever is added, the rest can still be had.                     *)
LEMMA AddedStillCompletes ==
  ASSUME world \in World, req \in Request, Fitting(squad), clubs = Counts(squad), spend = Cost(squad),
         NEW p \in Addable
  PROVE  /\ Fitting(squad \cup {p}) /\ Cost(squad \cup {p}) = spend + Price(p)
         /\ CheapestCompletion(squad \cup {p}) <= req.budget - (spend + Price(p))
<1>. DEFINE K == squad \cup {p}
            left == req.budget - spend - Price(p)
<1>0. Players
  BY Constants
<1>1. p \in Player \ squad /\ squad \subseteq Player
  BY PoolPlayers DEF Addable, Fitting
<1>2. HasRoom(squad, p)
  <2>1. clubs[Team(p)] = Cardinality(In(squad, Team(p)))
    BY <1>0, <1>1, Teams DEF Counts
  <2>. QED
    BY <2>1 DEF Addable, HasRoom
<1>3. Fitting(K) /\ Cost(K) = spend + Price(p)
  <2>1. OneMore(K, squad, p)
    BY <1>0, <1>1, PlayerJoins
  <2>2. Fitting(K)
    BY <1>0, <1>1, <1>2, RoomFits
  <2>. QED
    BY <2>1, <2>2 DEF OneMore
<1>4. FillCost(K, left) <= left
  BY DEF Addable
<1>5. left \in Int /\ req.budget - (spend + Price(p)) = left
  <2>1. spend \in Nat /\ Price(p) \in Nat /\ req.budget \in Nat
    BY <1>0, <1>1, CostType, MarketType DEF Price
  <2>. QED
    BY <2>1
<1>. HIDE DEF K, left
<1>6. Tier2(K) <= left
  <2>1. Tier1(K) \in Nat
    BY <1>3, Tier1Type
  <2>. QED
    BY <1>4, <1>5, <2>1 DEF FillCost
<1>7. CheapestCompletion(K) <= left
  BY <1>3, <1>6, Tier2IsExact
<1>. QED
  BY <1>3, <1>5, <1>7 DEF K, left

(* While market and request stand, so do the completions of a squad.       *)
LEMMA CompletionsStand ==
  ASSUME UNCHANGED <<world, req>>, NEW S
  PROVE  /\ Completions(S)' = Completions(S) /\ CheapestCompletion(S)' = CheapestCompletion(S)
         /\ (Fitting(S)' <=> Fitting(S))
<1>1. (\A X : WithinClubs(X)' <=> WithinClubs(X)) /\ Pool' = Pool /\ (\A X : Cost(X)' = Cost(X))
  BY RulesStand DEF WithinClubs
<1>2. Completions(S)' = Completions(S)
  BY <1>1 DEF Completions, Filled, At
<1>3. {Cost(s \ S) : s \in Completions(S)}' = {Cost(s \ S) : s \in Completions(S)}
  <2>. DEFINE C == Completions(S)
  <2>1. C' = C
    BY <1>2
  <2>. HIDE DEF C
  <2>2. {Cost(s \ S) : s \in C}' = {Cost(s \ S) : s \in C}
    BY <1>1, <2>1
  <2>. QED
    BY <2>2 DEF C
<1>4. CheapestCompletion(S)' = CheapestCompletion(S)
  BY <1>3 DEF CheapestCompletion, Min
<1>5. Fitting(S)' <=> Fitting(S)
  BY <1>1 DEF Fitting, At
<1>. QED
  BY <1>2, <1>4, <1>5

LEMMA RequestStands ==
  ASSUME UNCHANGED <<world, req>>
  PROVE  /\ StartsFit' <=> StartsFit
         /\ LocksFit' <=> LocksFit
         /\ Revisable' <=> Revisable
         /\ Unlimited' <=> Unlimited
         /\ \A S : Completions(S)' = Completions(S)
         /\ Completions(req.locks)' = Completions(req.locks)
         /\ (CheapestCompletion(squad))' = CheapestCompletion(squad')
         /\ (Fitting(squad))' <=> Fitting(squad')
         /\ \A S : Cost(S)' = Cost(S)
<1>1. StartsFit' <=> StartsFit
  <2>1. req' = req
    OBVIOUS
  <2>. QED
    BY <2>1 DEF StartsFit, Forced, At, Larger, MapThenSumSet, MapThenFoldSet
<1>2. LocksFit' <=> LocksFit
  BY RulesStand DEF LocksFit, WithinClubs, At
<1>3. (Revisable' <=> Revisable) /\ (Unlimited' <=> Unlimited)
  BY DEF Revisable, Unlimited
<1>4. /\ \A S : Completions(S)' = Completions(S)
      /\ Completions(req.locks)' = Completions(req.locks)
      /\ (CheapestCompletion(squad))' = CheapestCompletion(squad')
      /\ (Fitting(squad))' <=> Fitting(squad')
  BY CompletionsStand
<1>. QED
  BY <1>1, <1>2, <1>3, <1>4, RulesStand

(* While the squad is being filled, its rest can be had for the money left;*)
(* and who was refused, though his locks fit, could not have been served.  *)
FillEnds ==
  stage = "fill" => LocksFit /\ Fitting(squad) /\ CheapestCompletion(squad) <= req.budget - spend

RefusedRightly ==
  stage = "refused" /\ StartsFit /\ LocksFit /\ (Unlimited \/ Revisable) =>
    \A s \in Completions(req.locks) : Cost(s) > req.budget

Answered == FillEnds /\ RefusedRightly

(* Locks that fit are a squad that can be asked about.                     *)
LEMMA LocksAreFitting ==
  ASSUME world \in World, req \in Request, LocksFit
  PROVE  Fitting(req.locks)
BY Constants, OwnedPlayers DEF LocksFit, Fitting

(* The fill begins with money enough; it adds no one who would leave too   *)
(* little, and while the squad is short there is always someone to add.    *)
LEMMA AnsweredTakeLocks ==
  ASSUME SoundBooks, TakeLocks
  PROVE  Answered'
<1>1. /\ LocksFit /\ Exact(req.locks) <= req.budget - Cost(req.locks)
      /\ UNCHANGED <<world, req>> /\ stage' = "fill" /\ squad' = req.locks /\ spend' = Cost(req.locks)
  BY DEF TakeLocks, Answerable
<1>2. Fitting(req.locks) /\ CheapestCompletion(req.locks) <= req.budget - Cost(req.locks)
  BY <1>1, LocksAreFitting, ExactIsCheapest DEF SoundBooks, TypeOK
<1>3. /\ LocksFit' /\ Fitting(squad') /\ CheapestCompletion(squad') <= req.budget - spend'
      /\ (Fitting(squad))' <=> Fitting(squad')
      /\ (CheapestCompletion(squad))' = CheapestCompletion(squad')
  BY <1>1, <1>2, RequestStands
<1>. QED
  BY <1>1, <1>3 DEF Answered, FillEnds, RefusedRightly

LEMMA AnsweredFill ==
  ASSUME SoundBooks, Answered, Fill
  PROVE  Answered'
<1>1. /\ world \in World /\ req \in Request /\ UNCHANGED <<world, req>> /\ stage = "fill" /\ ~Filled(squad)
      /\ LocksFit /\ Fitting(squad) /\ CheapestCompletion(squad) <= req.budget - spend
      /\ clubs = Counts(squad) /\ spend = Cost(squad)
  BY DEF SoundBooks, TypeOK, SearchInv, BooksInv, FillBooks, Answered, FillEnds, Fill
<1>2. Addable # {}
  BY <1>1, SomeoneCanBeAdded
<1>3. PICK p \in Addable : squad' = squad \cup {p} /\ spend' = spend + Price(p) /\ stage' = stage
  BY <1>2 DEF Fill, Foremost
<1>4. /\ Fitting(squad \cup {p})
      /\ CheapestCompletion(squad \cup {p}) <= req.budget - (spend + Price(p))
  BY <1>1, AddedStillCompletes
<1>5. /\ LocksFit' /\ Fitting(squad') /\ CheapestCompletion(squad') <= req.budget - spend'
      /\ (Fitting(squad))' <=> Fitting(squad')
      /\ (CheapestCompletion(squad))' = CheapestCompletion(squad')
  BY <1>1, <1>3, <1>4, RequestStands
<1>. QED
  BY <1>1, <1>3, <1>5 DEF Answered, FillEnds, RefusedRightly

(* A refusal at the start: the bound says what the cheapest costs.         *)
LEMMA AnsweredRefuse ==
  ASSUME SoundBooks, Refuse
  PROVE  Answered'
<1>1. world \in World /\ req \in Request /\ UNCHANGED <<world, req>> /\ stage' = "refused" /\ ~Answerable /\ Players
  BY Constants DEF SoundBooks, TypeOK, Refuse
<1>2. ASSUME StartsFit, LocksFit, NEW s \in Completions(req.locks)
      PROVE  Cost(s) > req.budget
  <2>. DEFINE K == req.locks
  <2>1. Fitting(K) /\ K \subseteq Player
    BY <1>1, <1>2, LocksAreFitting DEF Fitting
  <2>2. ~(Exact(K) <= req.budget - Cost(K))
    BY <1>1, <1>2 DEF Answerable
  <2>3. s \in Completions(K)
    BY <1>2
  <2>. HIDE DEF K
  <2>4. Exact(K) = CheapestCompletion(K)
    BY <1>1, <2>1, ExactIsCheapest
  <2>5. PICK t \in Rests(K) : s = K \cup t /\ t \subseteq Player /\ K \cap t = {}
    BY <1>1, <2>1, <2>3, CompletionsAreRests
  <2>6. CheapestCompletion(K) \in Nat /\ CheapestCompletion(K) <= Cost(t)
    BY <1>1, <2>1, CheapestRest
  <2>7. Cost(s) = Cost(K) + Cost(t)
    <3>1. AreApart(K, t)
      BY <2>1, <2>5 DEF AreApart
    <3>2. AddUp(K, t)
      BY <1>1, <3>1, Apart
    <3>. QED
      BY <2>5, <3>2 DEF AddUp
  <2>8. Cost(K) \in Nat /\ Cost(t) \in Nat /\ req.budget \in Nat
    BY <1>1, <2>1, <2>5, CostType, MarketType
  <2>. QED
    BY <2>2, <2>4, <2>6, <2>7, <2>8
<1>3. RefusedRightly'
  <2>1. /\ req'.budget = req.budget /\ Completions(req.locks)' = Completions(req.locks)
        /\ (StartsFit' <=> StartsFit) /\ (LocksFit' <=> LocksFit) /\ \A S : Cost(S)' = Cost(S)
    BY <1>1, RequestStands
  <2>2. StartsFit /\ LocksFit => \A s \in Completions(req.locks) : Cost(s) > req.budget
    BY <1>2
  <2>. QED
    BY <2>1, <2>2 DEF RefusedRightly
<1>. QED
  BY <1>1, <1>3 DEF Answered, FillEnds

LEMMA AnsweredStep ==
  ASSUME SoundBooks, Answered, [Next]_vars
  PROVE  Answered'
<1>1. CASE TakeLocks
  BY <1>1, AnsweredTakeLocks
<1>2. CASE Fill
  BY <1>2, AnsweredFill
<1>3. CASE Refuse
  BY <1>3, AnsweredRefuse
<1>4. CASE RefuseRevision
  <2>1. stage' = "refused" /\ ~Unlimited /\ ~Revisable /\ UNCHANGED <<world, req>>
    BY <1>4 DEF RefuseRevision
  <2>. QED
    BY <2>1, RequestStands DEF Answered, FillEnds, RefusedRightly
<1>5. CASE UNCHANGED vars
  <2>1. UNCHANGED <<world, req, stage, squad, spend>>
    BY <1>5 DEF vars
  <2>2. /\ LocksFit' <=> LocksFit
        /\ (Fitting(squad))' <=> Fitting(squad')
        /\ (CheapestCompletion(squad))' = CheapestCompletion(squad')
        /\ StartsFit' <=> StartsFit
        /\ Revisable' <=> Revisable
        /\ Unlimited' <=> Unlimited
        /\ Completions(req.locks)' = Completions(req.locks)
        /\ \A S : Cost(S)' = Cost(S)
    BY <2>1, RequestStands
  <2>3. FillEnds'
    BY <2>1, <2>2 DEF Answered, FillEnds
  <2>4. RefusedRightly'
    BY <2>1, <2>2 DEF Answered, RefusedRightly
  <2>. QED
    BY <2>3, <2>4 DEF Answered
<1>6. CASE \/ PolishFilled \/ PolishOwned \/ RunSingles \/ BeginScan \/ Reduce \/ RunFunded
           \/ PolishSeed \/ Answer \/ \E w \in Worker : Claim(w) \/ File(w)
  <2>1. stage' \in {"polish", "scan", "done"}
    BY <1>6 DEF PolishFilled, PolishOwned, Polish, RunSingles, Running, NextKind, ApplySingle, BeginScan,
                Reduce, ApplyPair, RunFunded, PolishSeed, Answer, Claim, File
  <2>. QED
    BY <2>1 DEF Answered, FillEnds, RefusedRightly
<1>7. CASE Finished
  BY <1>5, <1>7 DEF Finished
<1>. QED
  BY <1>1, <1>2, <1>3, <1>4, <1>5, <1>6, <1>7 DEF Next

-----------------------------------------------------------------------------
(* The elevens of the seeds.                                               *)


(* The seeds look at the best scorers at each price: for any players of a  *)
(* position, few enough at a price, these offer as many, as dear, and no   *)
(* worse.                                                                  *)
Priced(S, pr) == {q \in S : Price(q) = pr}

LEMMA FrontierSuffices ==
  ASSUME Players, NEW pos \in Position, NEW u \in SUBSET At(Pool \ req.locks, pos),
         \A p \in u : Cardinality(Priced(u, Price(p))) <= PerPrice
  PROVE  \E v \in SUBSET SeedPool(pos) :
           Cardinality(v) = Cardinality(u) /\ Cost(v) = Cost(u) /\ Scored(u) <= Scored(v)
<1>. DEFINE A == At(Pool \ req.locks, pos)
            I == {world.price[p] : p \in Player}
            V(pr) == Foremost(Cardinality(Priced(u, pr)), Priced(A, pr), Stronger)
            v == UNION {V(pr) : pr \in I}
<1>1. A \subseteq Player /\ u \subseteq Player /\ \A pr : Priced(A, pr) \subseteq Player /\ Priced(u, pr) \subseteq Player
  BY PoolPlayers DEF At, Priced
<1>2. IsFiniteSet(I)
  <2>. DEFINE priced == [p \in Player |-> world.price[p]]
  <2>1. priced \in Surjection(Player, I)
    BY DEF Surjection
  <2>. HIDE DEF priced, I
  <2>. QED
    BY <2>1, SquadConstants, FS_Surjection
<1>3. ASSUME NEW pr \in I
      PROVE  /\ V(pr) \subseteq Priced(A, pr) /\ Cardinality(V(pr)) = Cardinality(Priced(u, pr))
             /\ Scored(Priced(u, pr)) <= Scored(V(pr)) /\ Cost(V(pr)) = Cost(Priced(u, pr))
             /\ V(pr) \subseteq SeedPool(pos)
  <2>. DEFINE n == Cardinality(Priced(u, pr))
              L == Priced(u, pr)
              B == Priced(A, pr)
  <2>1. L \in SUBSET B /\ IsFiniteSet(L) /\ IsFiniteSet(B) /\ B \subseteq Player /\ n \in Nat /\ Cardinality(L) = n
    BY <1>1, SquadIsFinite, FS_CardinalityType DEF Priced
  <2>2. n <= PerPrice
    <3>1. CASE L = {}
      <4>1. n = 0 /\ PerPrice \in Nat
        BY <3>1, FS_EmptySet, SquadConstants
      <4>. QED
        BY <4>1
    <3>2. CASE L # {}
      BY <3>2 DEF Priced
    <3>. QED
      BY <3>1, <3>2
  <2>3. n <= Cardinality(B)
    BY <2>1, FS_Subset
  <2>4. V(pr) \subseteq B /\ Cardinality(V(pr)) = n /\ Scored(L) <= Scored(V(pr))
    <3>. DEFINE F == Foremost(n, B, Stronger)
    <3>. HIDE DEF n, L, B
    <3>1. F \subseteq B /\ Cardinality(F) = n /\ Scored(L) <= Scored(F)
      BY <2>1, <2>3, StrongestOnes
    <3>. QED
      BY <3>1 DEF n, L, B
  <2>5. Cost(V(pr)) = Cost(L)
    <3>. DEFINE H == V(pr)
                w == world.price
    <3>1. /\ IsFiniteSet(H) /\ Cardinality(H) = Cardinality(L)
          /\ \A q \in L \cup H : w[q] = pr /\ w[q] \in Nat
      <4>1. H \subseteq B /\ Cardinality(H) = Cardinality(L)
        BY <2>4
      <4>2. \A q \in B : w[q] = pr /\ w[q] \in Nat
        BY <2>1, MarketType DEF Priced, Price
      <4>3. IsFiniteSet(H)
        BY <2>1, <4>1, FS_Subset
      <4>. HIDE DEF H, L, B, w
      <4>. QED
        BY <2>1, <4>1, <4>2, <4>3
    <3>. HIDE DEF H, L, w
    <3>2. /\ \A q \in L \cup H : w[q] \in Int
          /\ \A q \in H \cup L : w[q] \in Int
          /\ \A x \in L \ H, y \in H \ L : w[x] <= w[y]
          /\ \A x \in H \ L, y \in L \ H : w[x] <= w[y]
      BY <3>1
    <3>3. SumFunctionOnSet(w, L) <= SumFunctionOnSet(w, H) /\ SumFunctionOnSet(w, H) <= SumFunctionOnSet(w, L)
      BY <2>1, <3>1, <3>2, Exchange
    <3>4. SumFunctionOnSet(w, L) \in Int /\ SumFunctionOnSet(w, H) \in Int
      BY <2>1, <3>1, <3>2, SumType
    <3>. QED
      BY <3>3, <3>4 DEF Cost, w, H
  <2>6. V(pr) \subseteq SeedPool(pos)
    <3>1. ASSUME NEW p \in V(pr) PROVE p \in SeedPool(pos)
      <4>1. p \in A /\ Price(p) = pr
        BY <2>4 DEF Priced
      <4>2. Rank(p, B, Stronger) < n
        BY DEF Foremost
      <4>3. Rank(p, B, Stronger) \in Nat /\ PerPrice \in Nat
        <5>1. {q \in B : Stronger(q, p)} \subseteq Player
          BY <2>1
        <5>. QED
          BY <5>1, SquadIsFinite, FS_CardinalityType, SquadConstants DEF Rank
      <4>4. Rank(p, B, Stronger) < PerPrice
        BY <2>1, <2>2, <4>2, <4>3
      <4>5. B = {q \in At(Pool \ req.locks, pos) : Price(q) = Price(p)}
        BY <4>1 DEF Priced
      <4>. QED
        BY <4>1, <4>4, <4>5 DEF SeedPool, Frontier
    <3>. QED
      BY <3>1
  <2>. QED
    BY <2>1, <2>4, <2>5, <2>6
<1>4. v \subseteq SeedPool(pos) /\ v \subseteq Player /\ v \subseteq A
  <2>1. \A pr \in I : V(pr) \subseteq SeedPool(pos) /\ V(pr) \subseteq A
    BY <1>3 DEF Priced
  <2>. HIDE DEF V, A
  <2>. QED
    BY <1>1, <2>1
<1>5. \A pr \in I : Priced(v, pr) = V(pr)
  <2>1. \A pr \in I : \A q \in V(pr) : Price(q) = pr
    BY <1>3 DEF Priced
  <2>. HIDE DEF V, I
  <2>. QED
    BY <2>1 DEF Priced
<1>6. /\ IsFiniteSet(v) /\ IsFiniteSet(u)
      /\ \A q \in u \cup v : world.price[q] \in I
      /\ \A q \in u \cup v : world.price[q] \in Int /\ world.score[q] \in Int
  <2>. HIDE DEF v
  <2>1. u \cup v \subseteq Player
    BY <1>1, <1>4
  <2>2. \A q \in Player : world.price[q] \in Int /\ world.score[q] \in Int
    BY MarketType
  <2>3. \A q \in Player : world.price[q] \in I
    OBVIOUS
  <2>. HIDE DEF I
  <2>. QED
    BY <1>1, <1>4, <2>1, <2>2, <2>3, SquadIsFinite
<1>. HIDE DEF v, V, I
<1>7. /\ \A pr : {q \in v : world.price[q] = pr} = Priced(v, pr)
      /\ \A pr : {q \in u : world.price[q] = pr} = Priced(u, pr)
  BY DEF Priced, Price
<1>8. ASSUME NEW pr \in I
      PROVE  /\ Cardinality({q \in v : world.price[q] = pr}) <= Cardinality({q \in u : world.price[q] = pr})
             /\ Cardinality({q \in u : world.price[q] = pr}) <= Cardinality({q \in v : world.price[q] = pr})
             /\ Cost({q \in v : world.price[q] = pr}) <= Cost({q \in u : world.price[q] = pr})
             /\ Cost({q \in u : world.price[q] = pr}) <= Cost({q \in v : world.price[q] = pr})
             /\ Scored({q \in u : world.price[q] = pr}) <= Scored({q \in v : world.price[q] = pr})
  <2>1. /\ Cardinality(Priced(v, pr)) = Cardinality(Priced(u, pr)) /\ Cost(Priced(v, pr)) = Cost(Priced(u, pr))
        /\ Scored(Priced(u, pr)) <= Scored(Priced(v, pr))
    BY <1>3, <1>5
  <2>2. /\ Cardinality(Priced(u, pr)) <= Cardinality(Priced(u, pr))
        /\ Cost(Priced(u, pr)) <= Cost(Priced(u, pr))
    <3>1. Cardinality(Priced(u, pr)) \in Nat /\ Cost(Priced(u, pr)) \in Nat
      BY <1>1, SquadIsFinite, FS_CardinalityType, CostType
    <3>. QED
      BY <3>1
  <2>3. {q \in v : world.price[q] = pr} = Priced(v, pr) /\ {q \in u : world.price[q] = pr} = Priced(u, pr)
    BY <1>7
  <2>. QED
    BY <2>1, <2>2, <2>3
<1>9. Cardinality(v) = Cardinality(u)
  <2>1. Cardinality(v) <= Cardinality(u)
    <3>1. \A q \in v \cup u : world.price[q] \in I
      BY <1>6
    <3>2. \A pr \in I : Cardinality({q \in v : world.price[q] = pr}) <= Cardinality({q \in u : world.price[q] = pr})
      BY <1>8
    <3>. QED
      BY <1>2, <1>6, <3>1, <3>2, CountsAgree
  <2>2. Cardinality(u) <= Cardinality(v)
    <3>1. \A q \in u \cup v : world.price[q] \in I
      BY <1>6
    <3>2. \A pr \in I : Cardinality({q \in u : world.price[q] = pr}) <= Cardinality({q \in v : world.price[q] = pr})
      BY <1>8
    <3>. QED
      BY <1>2, <1>6, <3>1, <3>2, CountsAgree
  <2>. QED
    BY <1>6, <2>1, <2>2, FS_CardinalityType
<1>10. Scored(u) <= Scored(v)
  <2>1. \A pr \in I : SumFunctionOnSet(world.score, {q \in u : world.price[q] = pr})
                        <= SumFunctionOnSet(world.score, {q \in v : world.price[q] = pr})
    BY <1>8 DEF Scored
  <2>2. (\A q \in u : world.score[q] \in Int) /\ \A q \in v : world.score[q] \in Int
    BY <1>6
  <2>3. SumFunctionOnSet(world.score, u) <= SumFunctionOnSet(world.score, v)
    BY <1>2, <1>6, <2>1, <2>2, GroupsOutweigh
  <2>. QED
    BY <2>3 DEF Scored
<1>11. Cost(v) = Cost(u)
  <2>1. /\ \A pr \in I : SumFunctionOnSet(world.price, {q \in u : world.price[q] = pr})
                          <= SumFunctionOnSet(world.price, {q \in v : world.price[q] = pr})
        /\ \A pr \in I : SumFunctionOnSet(world.price, {q \in v : world.price[q] = pr})
                          <= SumFunctionOnSet(world.price, {q \in u : world.price[q] = pr})
    BY <1>8 DEF Cost
  <2>2. (\A q \in u : world.price[q] \in Int) /\ (\A q \in v : world.price[q] \in Int) /\ u \cup v = v \cup u
    BY <1>6
  <2>3. SumFunctionOnSet(world.price, u) <= SumFunctionOnSet(world.price, v)
    BY <1>2, <1>6, <2>1, <2>2, GroupsOutweigh
  <2>4. \A q \in v \cup u : world.price[q] \in I
    BY <1>6, <2>2
  <2>5. SumFunctionOnSet(world.price, v) <= SumFunctionOnSet(world.price, u)
    BY <1>2, <1>6, <2>1, <2>2, <2>4, GroupsOutweigh
  <2>6. SumFunctionOnSet(world.price, v) \in Int /\ SumFunctionOnSet(world.price, u) \in Int
    BY <1>6, <2>2, SumType
  <2>. QED
    BY <2>3, <2>5, <2>6 DEF Cost
<1>. QED
  BY <1>4, <1>9, <1>10, <1>11

(* The points of a curve, and the sets of them whose scores have a bound.  *)
Points == [n : Nat, cost : Nat, score : Nat, picks : SUBSET Player]

PointSets == {v \in SUBSET Points : \E b \in Nat : \A x \in v : x.score <= b}

(* A set of points with a bound has a best one.                            *)
LEMMA SomeBest ==
  ASSUME NEW v \in PointSets, v # {}
  PROVE  \E x \in v : \A y \in v : y.score <= x.score
<1>1. PICK b \in Nat : \A x \in v : x.score <= b
  BY DEF PointSets
<1>2. \A x \in v : x.score \in Nat
  BY DEF PointSets, Points
<1>. DEFINE short == {b - x.score : x \in v}
<1>3. short \subseteq Nat /\ short # {}
  BY <1>1, <1>2
<1>. HIDE DEF short
<1>4. PICK m \in short : \A k \in short : m <= k
  BY <1>3, LeastNumber
<1>5. PICK x \in v : m = b - x.score
  BY <1>4 DEF short
<1>6. ASSUME NEW y \in v PROVE y.score <= x.score
  <2>1. b - y.score \in short
    BY DEF short
  <2>2. b - x.score <= b - y.score
    BY <1>4, <1>5, <2>1
  <2>. QED
    BY <1>1, <1>2, <2>2
<1>. QED
  BY <1>6

(* Of the points of one size and one cost the best stays.                  *)
LEMMA KeptKeeps ==
  ASSUME NEW v \in PointSets
  PROVE  /\ Kept(v) \subseteq v /\ Kept(v) \in PointSets
         /\ \A z \in v : \E x \in Kept(v) : x.n = z.n /\ x.cost = z.cost /\ z.score <= x.score
<1>. DEFINE Best(z) == CHOOSE x \in {y \in v : y.n = z.n /\ y.cost = z.cost} :
                         \A y \in v : y.n = z.n /\ y.cost = z.cost => y.score <= x.score
<1>1. Kept(v) = {Best(z) : z \in v}
  BY DEF Kept
<1>2. ASSUME NEW z \in v
      PROVE  /\ Best(z) \in v /\ Best(z).n = z.n /\ Best(z).cost = z.cost
             /\ z.score <= Best(z).score
  <2>. DEFINE L == {y \in v : y.n = z.n /\ y.cost = z.cost}
  <2>1. L \in PointSets /\ L # {}
    BY DEF PointSets
  <2>. HIDE DEF L
  <2>2. PICK x \in L : \A y \in L : y.score <= x.score
    BY <2>1, SomeBest
  <2>3. \E a \in L : \A y \in v : y.n = z.n /\ y.cost = z.cost => y.score <= a.score
    BY <2>2 DEF L
  <2>4. Best(z) \in L /\ \A y \in v : y.n = z.n /\ y.cost = z.cost => y.score <= Best(z).score
    BY <2>3 DEF L
  <2>. HIDE DEF Best
  <2>. QED
    BY <2>4 DEF L
<1>. HIDE DEF Best
<1>3. Kept(v) \subseteq v
  BY <1>1, <1>2
<1>4. Kept(v) \in PointSets
  BY <1>3 DEF PointSets
<1>5. \A z \in v : \E x \in Kept(v) : x.n = z.n /\ x.cost = z.cost /\ z.score <= x.score
  BY <1>1, <1>2
<1>. QED
  BY <1>3, <1>4, <1>5

(* Two points joined are a point.                                          *)
LEMMA JoinedType ==
  ASSUME NEW x \in Points, NEW y \in Points
  PROVE  /\ Joined(x, y) \in Points
         /\ Joined(x, y).n = x.n + y.n /\ Joined(x, y).cost = x.cost + y.cost
         /\ Joined(x, y).score = x.score + y.score /\ Joined(x, y).picks = x.picks \cup y.picks
BY DEF Joined, Points

(* What a set of players is as a point.                                    *)
Point(u) == [n |-> Cardinality(u), cost |-> Cost(u), score |-> Scored(u), picks |-> u]

LEMMA PointType ==
  ASSUME Players
  PROVE  /\ \A u \in SUBSET Player : Point(u) \in Points
         /\ Point({}) = NoPicks
<1>1. ASSUME NEW u \in SUBSET Player PROVE Point(u) \in Points
  BY SquadIsFinite, FS_CardinalityType, CostType DEF Point, Points
<1>2. Point({}) = NoPicks
  BY FS_EmptySet, SumEmpty DEF Point, NoPicks, Cost, Scored
<1>. QED
  BY <1>1, <1>2

(* Two sets apart are together as their points joined.                     *)
LEMMA PointsJoin ==
  ASSUME Players, NEW u, NEW w, AreApart(u, w)
  PROVE  Point(u \cup w) = Joined(Point(u), Point(w))
<1>1. AddUp(u, w)
  BY Apart
<1>. QED
  BY <1>1 DEF AddUp, Point, Joined

LEMMA PointOfOne ==
  ASSUME Players, NEW p \in Player
  PROVE  Point({p}) = [n |-> 1, cost |-> Price(p), score |-> Score(p), picks |-> {p}]
<1>1. ASSUME NEW f, f[p] \in Int PROVE SumFunctionOnSet(f, {p}) = f[p]
  <2>1. IsFiniteSet({p}) /\ {p} \ {p} = {} /\ \A y \in {p} : f[y] \in Int
    BY <1>1, FS_Singleton
  <2>2. SumFunctionOnSet(f, {p}) = f[p] + SumFunctionOnSet(f, {p} \ {p})
    BY <2>1, SumRemove
  <2>3. SumFunctionOnSet(f, {p} \ {p}) = 0
    BY <2>1, SumEmpty
  <2>. QED
    BY <1>1, <2>2, <2>3
<1>2. Cost({p}) = Price(p) /\ Scored({p}) = Score(p)
  BY <1>1, MarketType DEF Cost, Scored, Price, Score
<1>3. Cardinality({p}) = 1
  BY FS_Singleton
<1>. QED
  BY <1>2, <1>3 DEF Point

-----------------------------------------------------------------------------
(* The curve of a position, once the players of Q have been offered: its   *)
(* points are sets of them, and of any of them that there is room and      *)
(* money for there are as many, as dear, and no better.                    *)
Room(pos) == Quota[pos] - Cardinality(At(req.locks, pos))

Drawn(pos, Q, v) ==
  /\ v \in PointSets
  /\ \A x \in v : x.picks \subseteq Q /\ x = Point(x.picks)
  /\ \A u \in SUBSET Q : Cardinality(u) <= Room(pos) /\ Cost(u) <= Spendable =>
       \E x \in v : x.n = Cardinality(u) /\ x.cost = Cost(u) /\ Scored(u) <= x.score

LEMMA NothingDrawn ==
  ASSUME Players, NEW pos
  PROVE  Drawn(pos, {}, {NoPicks})
<1>1. Point({}) = NoPicks /\ NoPicks \in Points
  BY PointType
<1>2. {NoPicks} \in PointSets
  <2>1. 0 \in Nat /\ \A x \in {NoPicks} : x.score <= 0
    BY DEF NoPicks
  <2>. QED
    BY <1>1, <2>1 DEF PointSets
<1>3. NoPicks.n = Cardinality({}) /\ NoPicks.cost = Cost({}) /\ NoPicks.score = Scored({}) /\ NoPicks.picks = {}
  BY <1>1 DEF Point
<1>4. Scored({}) <= NoPicks.score
  <2>1. Scored({}) \in Nat
    BY CostType
  <2>. QED
    BY <1>3, <2>1
<1>. QED
  BY <1>1, <1>2, <1>3, <1>4 DEF Drawn

(* An offer leaves points whose scores have a bound.                       *)
LEMMA OfferType ==
  ASSUME Players, NEW pos, NEW v \in PointSets, NEW p \in Player
  PROVE  LET one == [n |-> 1, cost |-> Price(p), score |-> Score(p), picks |-> {p}]
             more == Affordable({Joined(x, one) : x \in {y \in v : y.n < Room(pos)}})
         IN  /\ v \cup more \in PointSets /\ Offer(pos, v, p) = Kept(v \cup more)
             /\ Offer(pos, v, p) \in PointSets
<1>. DEFINE one == [n |-> 1, cost |-> Price(p), score |-> Score(p), picks |-> {p}]
            more == Affordable({Joined(x, one) : x \in {y \in v : y.n < Room(pos)}})
<1>1. one \in Points
  BY MarketType DEF Points, Price, Score
<1>2. PICK b \in Nat : \A x \in v : x.score <= b
  BY DEF PointSets
<1>3. v \subseteq Points /\ one.score \in Nat
  BY <1>1 DEF PointSets, Points
<1>. HIDE DEF one
<1>4. ASSUME NEW z \in more PROVE z \in Points /\ z.score <= b + one.score
  <2>1. PICK x \in v : z = Joined(x, one)
    BY DEF Affordable
  <2>2. x \in Points /\ x.score \in Nat
    BY <1>3 DEF Points
  <2>. QED
    BY <1>1, <1>2, <1>3, <2>1, <2>2, JoinedType
<1>. HIDE DEF more
<1>5. \A z \in v \cup more : z \in Points /\ z.score <= b + one.score
  <2>1. ASSUME NEW z \in v PROVE z \in Points /\ z.score <= b + one.score
    <3>1. z \in Points /\ z.score \in Nat
      BY <1>3 DEF Points
    <3>. QED
      BY <1>2, <1>3, <3>1
  <2>. QED
    BY <1>4, <2>1
<1>6. v \cup more \in PointSets
  <2>1. b + one.score \in Nat
    BY <1>3
  <2>. QED
    BY <1>5, <2>1 DEF PointSets
<1>7. Offer(pos, v, p) = Kept(v \cup more)
  BY DEF Offer, Room, more, one
<1>. QED
  BY <1>6, <1>7, KeptKeeps DEF more, one

(* A player more: of the sets with him and without him, none is missed.    *)
LEMMA OfferDraws ==
  ASSUME Players, NEW pos, NEW Q \in SUBSET Player, NEW p \in Player \ Q, NEW v, Drawn(pos, Q, v),
         Room(pos) \in Int, Spendable \in Int
  PROVE  Drawn(pos, Q \cup {p}, Offer(pos, v, p))
<1>. DEFINE one == [n |-> 1, cost |-> Price(p), score |-> Score(p), picks |-> {p}]
            more == Affordable({Joined(x, one) : x \in {y \in v : y.n < Room(pos)}})
            w == Offer(pos, v, p)
<1>1. /\ v \in PointSets /\ v \subseteq Points
      /\ \A x \in v : x.picks \subseteq Q /\ x = Point(x.picks)
  BY DEF Drawn, PointSets
<1>2. v \cup more \in PointSets /\ w = Kept(v \cup more) /\ w \in PointSets
  BY <1>1, OfferType
<1>3. one = Point({p}) /\ one \in Points /\ one.n = 1 /\ one.cost = Price(p) /\ one.score = Score(p) /\ one.picks = {p}
  BY PointOfOne, PointType
<1>4. /\ w \subseteq v \cup more
      /\ \A z \in v \cup more : \E x \in w : x.n = z.n /\ x.cost = z.cost /\ z.score <= x.score
  <2>. HIDE DEF one, more, w
  <2>. QED
    BY <1>2, KeptKeeps
<1>5. /\ \A z \in more : \E x \in v : x.n < Room(pos) /\ z = Joined(x, one)
      /\ \A x \in v : x.n < Room(pos) /\ Joined(x, one).cost <= Spendable => Joined(x, one) \in more
  BY DEF Affordable
<1>. HIDE DEF one, more, w
<1>6. ASSUME NEW z \in w PROVE z.picks \subseteq Q \cup {p} /\ z = Point(z.picks)
  <2>1. CASE z \in v
    BY <1>1, <2>1
  <2>2. CASE z \in more
    <3>1. PICK x \in v : z = Joined(x, one)
      BY <1>5, <2>2
    <3>2. x \in Points /\ x = Point(x.picks) /\ x.picks \subseteq Q
      BY <1>1
    <3>3. AreApart(x.picks, {p})
      BY <3>2 DEF AreApart
    <3>4. Point(x.picks \cup {p}) = Joined(x, one)
      BY <1>3, <3>2, <3>3, PointsJoin
    <3>5. z.picks = x.picks \cup {p}
      <4>1. Joined(x, one).picks = x.picks \cup one.picks
        BY <1>3, <3>2, JoinedType
      <4>. QED
        BY <1>3, <3>1, <4>1
    <3>. QED
      BY <3>1, <3>2, <3>4, <3>5
  <2>. QED
    BY <1>4, <2>1, <2>2
<1>7. ASSUME NEW u \in SUBSET (Q \cup {p}), Cardinality(u) <= Room(pos), Cost(u) <= Spendable
      PROVE  \E x \in w : x.n = Cardinality(u) /\ x.cost = Cost(u) /\ Scored(u) <= x.score
  <2>1. \E z \in v \cup more : z.n = Cardinality(u) /\ z.cost = Cost(u) /\ Scored(u) <= z.score
    <3>1. CASE p \notin u
      <4>1. u \in SUBSET Q
        BY <3>1
      <4>. QED
        BY <1>7, <4>1 DEF Drawn
    <3>2. CASE p \in u
      <4>. DEFINE t == u \ {p}
      <4>1. t \in SUBSET Q /\ t \cup {p} = u /\ t \subseteq Player
        BY <3>2
      <4>. HIDE DEF t
      <4>2. AreApart(t, {p})
        BY <4>1 DEF AreApart
      <4>3. AddUp(t, {p})
        BY <4>2, Apart
      <4>4. /\ Cardinality(u) = Cardinality(t) + 1 /\ Cost(u) = Cost(t) + Price(p)
            /\ Scored(u) = Scored(t) + Score(p)
        <5>1. Cardinality({p}) = 1 /\ Cost({p}) = Price(p) /\ Scored({p}) = Score(p)
          BY <1>3 DEF Point
        <5>. QED
          BY <4>1, <4>3, <5>1 DEF AddUp
      <4>5. /\ Cardinality(t) \in Nat /\ Cost(t) \in Nat /\ Scored(t) \in Nat
            /\ Price(p) \in Nat /\ Score(p) \in Nat
        BY <4>1, SquadIsFinite, FS_CardinalityType, CostType, MarketType DEF Price, Score
      <4>6. Cardinality(t) < Room(pos) /\ Cardinality(t) <= Room(pos) /\ Cost(t) <= Spendable
        BY <1>7, <4>4, <4>5
      <4>7. PICK x \in v : x.n = Cardinality(t) /\ x.cost = Cost(t) /\ Scored(t) <= x.score
        BY <4>1, <4>6 DEF Drawn
      <4>8. x \in Points /\ x.score \in Nat
        BY <1>1 DEF Points
      <4>9. /\ Joined(x, one).n = Cardinality(u) /\ Joined(x, one).cost = Cost(u)
            /\ Joined(x, one).score = x.score + Score(p)
        BY <1>3, <4>4, <4>7, <4>8, JoinedType
      <4>10. Scored(u) <= Joined(x, one).score
        BY <4>4, <4>5, <4>7, <4>8, <4>9
      <4>11. Joined(x, one) \in more
        BY <1>5, <1>7, <4>6, <4>7, <4>9
      <4>. QED
        BY <4>9, <4>10, <4>11
    <3>. QED
      BY <3>1, <3>2
  <2>2. PICK z \in v \cup more : z.n = Cardinality(u) /\ z.cost = Cost(u) /\ Scored(u) <= z.score
    BY <2>1
  <2>3. PICK x \in w : x.n = z.n /\ x.cost = z.cost /\ z.score <= x.score
    BY <1>4
  <2>4. z.score \in Nat /\ x.score \in Nat /\ Scored(u) \in Nat
    <3>1. \A y \in v \cup more : y.score \in Nat
      BY <1>2 DEF PointSets, Points
    <3>2. u \subseteq Player
      OBVIOUS
    <3>. QED
      BY <1>4, <3>1, <3>2, CostType
  <2>5. Scored(u) <= x.score
    BY <2>2, <2>3, <2>4
  <2>. QED
    BY <2>2, <2>3, <2>5
<1>. QED
  BY <1>2, <1>6, <1>7 DEF Drawn, w

LEMMA SeedPoolPlayers ==
  ASSUME NEW pos
  PROVE  SeedPool(pos) \subseteq Player /\ \A p \in SeedPool(pos) : PosOf[p] = pos
BY PoolPlayers DEF SeedPool, Frontier, At

(* The queue names each player of the seed's pool once.                    *)
LEMMA QueueIsALine ==
  ASSUME Players, NEW pos
  PROVE  LET D == DOMAIN Queue(pos)
             q == Queue(pos)
         IN  /\ IsFiniteSet(D) /\ D \subseteq Int
             /\ \A m \in D : q[m] \in SeedPool(pos)
             /\ \A m, n \in D : q[m] = q[n] => m = n
             /\ {q[m] : m \in D} = SeedPool(pos)
<1>. DEFINE A == SeedPool(pos)
            N == Cardinality(A)
            q == Queue(pos)
            At1(m) == CHOOSE p \in A : Place(CheapFirst, A, p) = m - 1
<1>1. A \subseteq Player /\ IsFiniteSet(A) /\ N \in Nat
  BY SeedPoolPlayers, SquadIsFinite, FS_CardinalityType
<1>2. Strict(CheapFirst, A)
  BY <1>1, OrdersAreStrict
<1>3. DOMAIN q = 1..N
  BY DEF Queue, InOrder
<1>4. \A m \in 1..N : q[m] = CHOOSE p \in A : Rank(p, A, Cheaper) = m - 1
  BY DEF Queue, InOrder
<1>5. \A p \in A : Rank(p, A, Cheaper) = Place(CheapFirst, A, p)
  BY <1>1, RanksArePlaces
<1>. HIDE DEF A, N, q
<1>6. ASSUME NEW m \in 1..N PROVE q[m] \in A /\ Place(CheapFirst, A, q[m]) = m - 1
  <2>1. m - 1 \in 0..(Cardinality(A) - 1)
    BY <1>1 DEF N
  <2>2. \E p \in A : Place(CheapFirst, A, p) = m - 1
    BY <1>1, <1>2, <2>1, PlacesAreTaken
  <2>3. \E p \in A : Rank(p, A, Cheaper) = m - 1
    BY <1>5, <2>2
  <2>4. q[m] \in A /\ Rank(q[m], A, Cheaper) = m - 1
    BY <1>4, <2>3
  <2>. QED
    BY <1>5, <2>4
<1>7. ASSUME NEW m \in 1..N, NEW n \in 1..N, q[m] = q[n] PROVE m = n
  <2>1. m - 1 = n - 1
    BY <1>6, <1>7
  <2>. QED
    BY <2>1
<1>8. ASSUME NEW p \in A PROVE \E m \in 1..N : q[m] = p
  <2>. DEFINE m == Place(CheapFirst, A, p) + 1
  <2>1. Place(CheapFirst, A, p) \in 0..(N - 1)
    BY <1>1, <1>2, PlacesGrow DEF N
  <2>2. m \in 1..N /\ m - 1 = Place(CheapFirst, A, p)
    BY <1>1, <2>1
  <2>. HIDE DEF m
  <2>3. q[m] \in A /\ Place(CheapFirst, A, q[m]) = Place(CheapFirst, A, p)
    BY <1>6, <2>2
  <2>4. q[m] = p
    BY <1>1, <1>2, <2>3, PlacesGrow
  <2>. QED
    BY <2>2, <2>4
<1>9. {q[m] : m \in 1..N} = A
  BY <1>6, <1>8
<1>10. IsFiniteSet(1..N) /\ 1..N \subseteq Int
  BY <1>1, FS_Interval
<1>. QED
  BY <1>3, <1>6, <1>7, <1>9, <1>10 DEF A, q

(* The money and the room left are numbers.                                *)
LEMMA RoomType ==
  ASSUME Players
  PROVE  Spendable \in Int /\ \A pos \in Position : Room(pos) \in Int
<1>1. Spendable \in Int
  BY OwnedPlayers, MarketType, CostType DEF Spendable
<1>2. ASSUME NEW pos \in Position PROVE Room(pos) \in Int
  <2>1. req.locks \subseteq Player
    BY OwnedPlayers
  <2>2. Cardinality(At(req.locks, pos)) \in Nat
    BY <2>1, CountType
  <2>3. Quota[pos] \in Nat
    BY SquadConstants
  <2>. QED
    BY <2>2, <2>3 DEF Room
<1>. QED
  BY <1>1, <1>2

(* So the curve that positionCurve returns is drawn from the whole pool.   *)
LEMMA CurveIsDrawn ==
  ASSUME Players, NEW pos \in Position
  PROVE  Drawn(pos, SeedPool(pos), PositionCurve(pos))
<1>. DEFINE D == DOMAIN Queue(pos)
            q == Queue(pos)
            V == PointSets
            base == {NoPicks}
            k == [s \in SUBSET D |-> Max(s)]
            g == [y \in D \X V |-> Offer(pos, y[2], q[y[1]])]
            Of(s) == {q[m] : m \in s}
<1>1. /\ IsFiniteSet(D) /\ D \subseteq Int
      /\ \A m \in D : q[m] \in SeedPool(pos)
      /\ \A m, n \in D : q[m] = q[n] => m = n
      /\ Of(D) = SeedPool(pos)
  BY QueueIsALine
<1>2. PositionCurve(pos) = CurvesOf(pos)[D]
  BY DEF PositionCurve, FoldLeft, MapThenFoldSet, Curves, CurvesOf
<1>3. \A it : Curves(pos, it) <=>
        it = [s \in SUBSET D |-> IF s = {} THEN base ELSE Offer(pos, it[s \ {Max(s)}], q[Max(s)])]
  BY DEF Curves
<1>4. \A m \in D, v \in V : g[<<m, v>>] = Offer(pos, v, q[m])
  OBVIOUS
<1>5. \A s \in SUBSET D : k[s] = Max(s)
  OBVIOUS
<1>6. base \in V
  BY NothingDrawn DEF Drawn
<1>. HIDE DEF D, q, V, base, k, g
<1>7. ASSUME NEW s \in SUBSET D, s # {} PROVE k[s] \in s /\ Max(s) \in s
  <2>1. IsFiniteSet(s) /\ s \subseteq Int
    BY <1>1, FS_Subset
  <2>. QED
    BY <1>5, <1>7, <2>1, MaxIsIn
<1>8. ASSUME NEW m \in D, NEW v \in V PROVE g[<<m, v>>] \in V
  <2>1. q[m] \in Player
    BY <1>1, SeedPoolPlayers
  <2>2. Offer(pos, v, q[m]) \in V
    BY <2>1, OfferType DEF V
  <2>. QED
    BY <1>4, <2>2
<1>9. \E h : Stepped(h, D, base, k, g) /\ \A s \in SUBSET D : h[s] \in V
  <2>1. Steps(D, V, base, k, g)
    BY <1>1, <1>6, <1>7, <1>8 DEF Steps
  <2>. QED
    BY <2>1, StepTable
<1>10. \E h : Curves(pos, h)
  <2>1. PICK h : /\ h = [s \in SUBSET D |-> IF s = {} THEN base ELSE g[<<k[s], h[s \ {k[s]}]>>]]
                 /\ \A s \in SUBSET D : h[s] \in V
    BY <1>9 DEF Stepped
  <2>. DEFINE F(s) == IF s = {} THEN base ELSE g[<<k[s], h[s \ {k[s]}]>>]
              G(s) == IF s = {} THEN base ELSE Offer(pos, h[s \ {Max(s)}], q[Max(s)])
  <2>2. ASSUME NEW s \in SUBSET D PROVE F(s) = G(s)
    <3>1. CASE s = {}
      BY <3>1
    <3>2. CASE s # {}
      <4>1. k[s] = Max(s) /\ Max(s) \in D /\ s \ {Max(s)} \in SUBSET D
        BY <1>5, <1>7, <3>2
      <4>2. h[s \ {Max(s)}] \in V
        BY <2>1, <4>1
      <4>. QED
        BY <1>4, <3>2, <4>1, <4>2
    <3>. QED
      BY <3>1, <3>2
  <2>3. h = [s \in SUBSET D |-> F(s)]
    BY <2>1
  <2>. HIDE DEF F, G
  <2>4. h = [s \in SUBSET D |-> G(s)]
    BY <2>2, <2>3
  <2>5. h = [s \in SUBSET D |-> IF s = {} THEN base ELSE Offer(pos, h[s \ {Max(s)}], q[Max(s)])]
    BY <2>4 DEF G
  <2>. QED
    BY <1>3, <2>5
<1>. DEFINE h == CurvesOf(pos)
            J == {s \in SUBSET D : Drawn(pos, Of(s), h[s])}
<1>11. h = [s \in SUBSET D |-> IF s = {} THEN base ELSE Offer(pos, h[s \ {Max(s)}], q[Max(s)])]
  <2>1. Curves(pos, h)
    BY <1>10 DEF CurvesOf
  <2>. QED
    BY <1>3, <2>1
<1>. HIDE DEF h
<1>12. \A s \in SUBSET D : h[s] = IF s = {} THEN base ELSE Offer(pos, h[s \ {Max(s)}], q[Max(s)])
  BY <1>11
<1>13. {} \in J
  <2>1. h[{}] = base /\ Of({}) = {}
    BY <1>12
  <2>. QED
    BY <2>1, NothingDrawn DEF base
<1>14. ASSUME NEW s \in SUBSET D, s # {}, s \ {k[s]} \in J PROVE s \in J
  <2>. DEFINE m == Max(s)
              t == s \ {m}
  <2>1. m \in s /\ m \in D /\ k[s] = m /\ t \in SUBSET D /\ s = t \cup {m} /\ m \notin t
    BY <1>5, <1>7, <1>14
  <2>2. h[s] = Offer(pos, h[t], q[m])
    BY <1>12, <1>14
  <2>. HIDE DEF m, t
  <2>3. Drawn(pos, Of(t), h[t])
    BY <1>14, <2>1 DEF t
  <2>4. Of(t) \in SUBSET Player /\ q[m] \in Player \ Of(t)
    BY <1>1, <2>1, SeedPoolPlayers
  <2>5. Of(s) = Of(t) \cup {q[m]}
    BY <2>1
  <2>. HIDE DEF Of
  <2>6. Drawn(pos, Of(t) \cup {q[m]}, Offer(pos, h[t], q[m]))
    BY <2>3, <2>4, RoomType, OfferDraws
  <2>. QED
    BY <2>2, <2>5, <2>6
<1>. HIDE DEF J
<1>15. D \in J
  BY <1>1, <1>7, <1>13, <1>14, StepsKeep
<1>. QED
  BY <1>1, <1>2, <1>15 DEF J, h

(* The elevens so far, once the positions of E have been taken: each is a  *)
(* set of players of them, and of any that starts the formation's numbers  *)
(* there from the seed's pools, and that there is money for, there is one  *)
(* as dear and no worse.                                                   *)
Starting(f, E) ==
  {u \in SUBSET Player :
     /\ \A p \in u : PosOf[p] \in E
     /\ \A pos \in E : At(u, pos) \subseteq SeedPool(pos) /\ Cardinality(At(u, pos)) = Starters(f, pos)}

Assembled(f, E, v) ==
  /\ v \in PointSets
  /\ \A x \in v : (\A p \in x.picks : PosOf[p] \in E) /\ x = Point(x.picks)
  /\ \A u \in Starting(f, E) : Cost(u) <= Spendable =>
       \E x \in v : x.cost = Cost(u) /\ Scored(u) <= x.score

LEMMA NothingAssembled ==
  ASSUME Players, NEW f
  PROVE  Assembled(f, {}, {NoPicks})
<1>1. Drawn(1, {}, {NoPicks})
  BY NothingDrawn
<1>2. /\ {NoPicks} \in PointSets
      /\ \A x \in {NoPicks} : x.picks = {} /\ x = Point(x.picks)
  BY <1>1 DEF Drawn
<1>3. \A u \in Starting(f, {}) : u = {}
  BY DEF Starting
<1>4. NoPicks = Point({}) /\ Scored({}) \in Nat
  BY PointType, CostType
<1>5. NoPicks.cost = Cost({}) /\ Scored({}) <= NoPicks.score
  <2>1. NoPicks.cost = Cost({}) /\ NoPicks.score = Scored({})
    BY <1>4 DEF Point
  <2>. QED
    BY <1>4, <2>1
<1>. QED
  BY <1>2, <1>3, <1>5 DEF Assembled

(* Two sets of points with a bound each: so has what they join to.         *)
LEMMA CombineType ==
  ASSUME NEW a \in PointSets, NEW b \in PointSets
  PROVE  LET both == Affordable({Joined(x[1], x[2]) : x \in a \X b})
         IN  both \in PointSets /\ Combine(a, b) = Kept(both) /\ Combine(a, b) \in PointSets
<1>. DEFINE both == Affordable({Joined(x[1], x[2]) : x \in a \X b})
<1>1. PICK m \in Nat : \A x \in a : x.score <= m
  BY DEF PointSets
<1>2. PICK n \in Nat : \A x \in b : x.score <= n
  BY DEF PointSets
<1>3. a \subseteq Points /\ b \subseteq Points
  BY DEF PointSets
<1>4. ASSUME NEW z \in both PROVE z \in Points /\ z.score <= m + n
  <2>1. PICK x \in a, y \in b : z = Joined(x, y)
    BY DEF Affordable
  <2>2. x \in Points /\ x.score \in Nat /\ y \in Points /\ y.score \in Nat
    BY <1>3 DEF Points
  <2>3. z \in Points /\ z.score = x.score + y.score
    BY <2>1, <2>2, JoinedType
  <2>4. x.score <= m /\ y.score <= n
    BY <1>1, <1>2
  <2>. QED
    BY <2>2, <2>3, <2>4
<1>. HIDE DEF both
<1>5. both \in PointSets
  <2>1. m + n \in Nat
    OBVIOUS
  <2>. QED
    BY <1>4, <2>1 DEF PointSets
<1>6. Combine(a, b) = Kept(both)
  BY DEF Combine, both
<1>. QED
  BY <1>5, <1>6, KeptKeeps DEF both

LEMMA TakeType ==
  ASSUME Players, NEW f, NEW so \in PointSets, NEW pos \in Position
  PROVE  Take(f, so, pos) \in PointSets
<1>. DEFINE c == {x \in PositionCurve(pos) : x.n = Starters(f, pos)}
<1>1. PositionCurve(pos) \in PointSets
  BY CurveIsDrawn DEF Drawn
<1>2. c \in PointSets
  BY <1>1 DEF PointSets
<1>3. Take(f, so, pos) = Combine(so, c)
  BY DEF Take
<1>. HIDE DEF c
<1>. QED
  BY <1>2, <1>3, CombineType

(* A position more: of the ways to split the money, none is missed.        *)
LEMMA TakeAssembles ==
  ASSUME Players, NEW f, NEW E, NEW pos \in Position, pos \notin E, NEW so, Assembled(f, E, so),
         Starters(f, pos) <= Room(pos)
  PROVE  Assembled(f, E \cup {pos}, Take(f, so, pos))
<1>. DEFINE c == {x \in PositionCurve(pos) : x.n = Starters(f, pos)}
            both == Affordable({Joined(x[1], x[2]) : x \in so \X c})
            w == Take(f, so, pos)
            F == E \cup {pos}
<1>1. Drawn(pos, SeedPool(pos), PositionCurve(pos))
  BY CurveIsDrawn
<1>2. /\ c \in PointSets /\ c \subseteq Points
      /\ \A x \in c : x.picks \subseteq SeedPool(pos) /\ x = Point(x.picks)
  BY <1>1 DEF Drawn, PointSets
<1>3. /\ so \in PointSets /\ so \subseteq Points
      /\ \A x \in so : (\A p \in x.picks : PosOf[p] \in E) /\ x = Point(x.picks)
  BY DEF Assembled, PointSets
<1>4. w = Combine(so, c)
  BY DEF Take
<1>5. /\ \A z \in both : \E x \in so, y \in c : z = Joined(x, y)
      /\ \A x \in so, y \in c : Joined(x, y).cost <= Spendable => Joined(x, y) \in both
  <2>1. ASSUME NEW x \in so, NEW y \in c, Joined(x, y).cost <= Spendable PROVE Joined(x, y) \in both
    <3>. DEFINE xy == <<x, y>>
    <3>1. xy \in so \X c /\ xy[1] = x /\ xy[2] = y
      OBVIOUS
    <3>2. Joined(x, y) \in {Joined(z[1], z[2]) : z \in so \X c}
      BY <3>1
    <3>. QED
      BY <2>1, <3>2 DEF Affordable
  <2>2. \A z \in both : \E x \in so, y \in c : z = Joined(x, y)
    BY DEF Affordable
  <2>. QED
    BY <2>1, <2>2
<1>6. both \in PointSets /\ w = Kept(both) /\ w \in PointSets
  <2>. HIDE DEF c, w
  <2>. QED
    BY <1>2, <1>3, <1>4, CombineType
<1>7. /\ w \subseteq both
      /\ \A z \in both : \E x \in w : x.n = z.n /\ x.cost = z.cost /\ z.score <= x.score
  <2>. HIDE DEF both, w
  <2>. QED
    BY <1>6, KeptKeeps
<1>8. SeedPool(pos) \subseteq Player /\ \A p \in SeedPool(pos) : PosOf[p] = pos
  BY SeedPoolPlayers
<1>9. \A t \in SUBSET SeedPool(pos) : Cardinality(t) = Starters(f, pos) /\ Cost(t) <= Spendable =>
        \E x \in c : x.cost = Cost(t) /\ Scored(t) <= x.score
  BY <1>1 DEF Drawn
<1>. HIDE DEF c, both, w
<1>10. ASSUME NEW z \in w PROVE (\A p \in z.picks : PosOf[p] \in F) /\ z = Point(z.picks)
  <2>1. PICK x \in so, y \in c : z = Joined(x, y)
    BY <1>5, <1>7
  <2>2. /\ x \in Points /\ y \in Points /\ x = Point(x.picks) /\ y = Point(y.picks)
        /\ (\A p \in x.picks : PosOf[p] \in E) /\ y.picks \subseteq SeedPool(pos)
        /\ x.picks \subseteq Player
    BY <1>2, <1>3 DEF Points
  <2>3. AreApart(x.picks, y.picks)
    BY <1>8, <2>2 DEF AreApart
  <2>4. Point(x.picks \cup y.picks) = Joined(x, y)
    BY <2>2, <2>3, PointsJoin
  <2>5. z.picks = x.picks \cup y.picks
    BY <2>1, <2>2, JoinedType
  <2>6. \A p \in z.picks : PosOf[p] \in F
    BY <1>8, <2>2, <2>5
  <2>. QED
    BY <2>1, <2>4, <2>5, <2>6
<1>11. ASSUME NEW u \in Starting(f, F), Cost(u) <= Spendable
       PROVE  \E x \in w : x.cost = Cost(u) /\ Scored(u) <= x.score
  <2>. DEFINE s == {p \in u : PosOf[p] \in E}
              t == At(u, pos)
  <2>1. /\ u \subseteq Player /\ (\A p \in u : PosOf[p] \in F)
        /\ \A q \in F : At(u, q) \subseteq SeedPool(q) /\ Cardinality(At(u, q)) = Starters(f, q)
    BY DEF Starting
  <2>2. s \cup t = u /\ s \subseteq Player /\ t \subseteq Player /\ s \cap t = {}
    BY <2>1 DEF At
  <2>3. t \in SUBSET SeedPool(pos) /\ Cardinality(t) = Starters(f, pos)
    BY <2>1
  <2>4. s \in Starting(f, E)
    <3>1. \A q \in E : At(s, q) = At(u, q)
      BY DEF At
    <3>. QED
      BY <2>1, <2>2, <3>1 DEF Starting
  <2>. HIDE DEF s, t
  <2>5. AreApart(s, t)
    BY <2>2 DEF AreApart
  <2>6. AddUp(s, t)
    BY <2>5, Apart
  <2>7. Cost(u) = Cost(s) + Cost(t) /\ Scored(u) = Scored(s) + Scored(t)
    BY <2>2, <2>6 DEF AddUp
  <2>8. /\ Cost(s) \in Nat /\ Cost(t) \in Nat /\ Scored(s) \in Nat /\ Scored(t) \in Nat
        /\ Spendable \in Int
    BY <2>2, CostType, RoomType
  <2>9. Cost(s) <= Spendable /\ Cost(t) <= Spendable
    BY <1>11, <2>7, <2>8
  <2>10. PICK x \in so : x.cost = Cost(s) /\ Scored(s) <= x.score
    BY <2>4, <2>9 DEF Assembled
  <2>11. PICK y \in c : y.cost = Cost(t) /\ Scored(t) <= y.score
    BY <1>9, <2>3, <2>9
  <2>12. x \in Points /\ y \in Points /\ x.score \in Nat /\ y.score \in Nat
    BY <1>2, <1>3 DEF Points
  <2>13. Joined(x, y).cost = Cost(u) /\ Joined(x, y).score = x.score + y.score
    BY <2>7, <2>10, <2>11, <2>12, JoinedType
  <2>14. Joined(x, y) \in both /\ Scored(u) <= Joined(x, y).score
    BY <1>5, <1>11, <2>7, <2>8, <2>10, <2>11, <2>12, <2>13
  <2>15. PICK z \in w : z.cost = Joined(x, y).cost /\ Joined(x, y).score <= z.score
    BY <1>7, <2>14
  <2>16. z.score \in Nat
    BY <1>6 DEF PointSets, Points
  <2>. QED
    BY <2>7, <2>8, <2>12, <2>13, <2>14, <2>15, <2>16
<1>. QED
  BY <1>6, <1>10, <1>11 DEF Assembled, w

(* Hence the elevens, once every position has been taken.                  *)
ElevensFrom(f) == ElevensOf(f)[DOMAIN PosNames]

LEMMA ElevensAreAssembled ==
  ASSUME Players, NEW f \in Formation
  PROVE  Assembled(f, Position, ElevensFrom(f))
<1>. DEFINE D == DOMAIN PosNames
            V == PointSets
            base == {NoPicks}
            k == [s \in SUBSET D |-> Max(s)]
            g == [y \in D \X V |-> Take(f, y[2], PosNames[y[1]])]
            Of(s) == {PosNames[m] : m \in s}
<1>1. /\ IsFiniteSet(D) /\ D \subseteq Int
      /\ \A m \in D : PosNames[m] \in Position
      /\ \A m, n \in D : PosNames[m] = PosNames[n] => m = n
      /\ Of(D) = Position
  <2>1. D = 1..Len(PosNames) /\ Len(PosNames) \in Nat /\ \A m \in D : PosNames[m] \in Position
    BY ElevenFits
  <2>2. IsFiniteSet(1..Len(PosNames))
    BY <2>1, FS_Interval
  <2>3. \A m, n \in D : PosNames[m] = PosNames[n] => m = n
    BY ElevenFits
  <2>4. Of(D) = Position
    BY SquadConstants DEF Range
  <2>. QED
    BY <2>1, <2>2, <2>3, <2>4
<1>3. \A it : Elevens(f, it) <=>
        it = [s \in SUBSET D |-> IF s = {} THEN base ELSE Take(f, it[s \ {Max(s)}], PosNames[Max(s)])]
  BY DEF Elevens
<1>4. \A m \in D, v \in V : g[<<m, v>>] = Take(f, v, PosNames[m])
  OBVIOUS
<1>5. \A s \in SUBSET D : k[s] = Max(s)
  OBVIOUS
<1>6. base \in V
  BY NothingAssembled DEF Assembled
<1>. HIDE DEF D, V, base, k, g
<1>7. ASSUME NEW s \in SUBSET D, s # {} PROVE k[s] \in s /\ Max(s) \in s
  <2>1. IsFiniteSet(s) /\ s \subseteq Int
    BY <1>1, FS_Subset
  <2>. QED
    BY <1>5, <1>7, <2>1, MaxIsIn
<1>8. ASSUME NEW m \in D, NEW v \in V PROVE g[<<m, v>>] \in V
  <2>1. Take(f, v, PosNames[m]) \in V
    BY <1>1, TakeType DEF V
  <2>. QED
    BY <1>4, <2>1
<1>9. \E h : Stepped(h, D, base, k, g) /\ \A s \in SUBSET D : h[s] \in V
  <2>1. Steps(D, V, base, k, g)
    BY <1>1, <1>6, <1>7, <1>8 DEF Steps
  <2>. QED
    BY <2>1, StepTable
<1>10. \E h : Elevens(f, h)
  <2>1. PICK h : /\ h = [s \in SUBSET D |-> IF s = {} THEN base ELSE g[<<k[s], h[s \ {k[s]}]>>]]
                 /\ \A s \in SUBSET D : h[s] \in V
    BY <1>9 DEF Stepped
  <2>. DEFINE F(s) == IF s = {} THEN base ELSE g[<<k[s], h[s \ {k[s]}]>>]
              G(s) == IF s = {} THEN base ELSE Take(f, h[s \ {Max(s)}], PosNames[Max(s)])
  <2>2. ASSUME NEW s \in SUBSET D PROVE F(s) = G(s)
    <3>1. CASE s = {}
      BY <3>1
    <3>2. CASE s # {}
      <4>1. k[s] = Max(s) /\ Max(s) \in D /\ s \ {Max(s)} \in SUBSET D
        BY <1>5, <1>7, <3>2
      <4>2. h[s \ {Max(s)}] \in V
        BY <2>1, <4>1
      <4>. QED
        BY <1>4, <3>2, <4>1, <4>2
    <3>. QED
      BY <3>1, <3>2
  <2>3. h = [s \in SUBSET D |-> F(s)]
    BY <2>1
  <2>. HIDE DEF F, G
  <2>4. h = [s \in SUBSET D |-> G(s)]
    BY <2>2, <2>3
  <2>5. h = [s \in SUBSET D |-> IF s = {} THEN base ELSE Take(f, h[s \ {Max(s)}], PosNames[Max(s)])]
    BY <2>4 DEF G
  <2>. QED
    BY <1>3, <2>5
<1>. DEFINE h == ElevensOf(f)
            J == {s \in SUBSET D : Assembled(f, Of(s), h[s])}
<1>11. h = [s \in SUBSET D |-> IF s = {} THEN base ELSE Take(f, h[s \ {Max(s)}], PosNames[Max(s)])]
  <2>1. Elevens(f, h)
    BY <1>10 DEF ElevensOf
  <2>. QED
    BY <1>3, <2>1
<1>. HIDE DEF h
<1>12. \A s \in SUBSET D : h[s] = IF s = {} THEN base ELSE Take(f, h[s \ {Max(s)}], PosNames[Max(s)])
  BY <1>11
<1>13. {} \in J
  <2>1. h[{}] = base /\ Of({}) = {}
    BY <1>12
  <2>. QED
    BY <2>1, NothingAssembled DEF base
<1>14. \A pos \in Position : Starters(f, pos) <= Room(pos)
  <2>. TAKE pos \in Position
  <2>1. f[pos] \in Int /\ f[pos] <= Quota[pos] /\ Quota[pos] \in Int
    <3>1. f[pos] \in XIMin[pos]..XIMax[pos] /\ XIMax[pos] <= Quota[pos]
      BY ElevenFits DEF Formation
    <3>2. XIMin[pos] \in Nat /\ XIMax[pos] \in Nat /\ Quota[pos] \in Nat
      BY SquadConstants
    <3>. QED
      BY <3>1, <3>2
  <2>2. Cardinality(At(req.locks, pos)) \in Nat
    <3>1. req.locks \subseteq Player
      BY OwnedPlayers
    <3>. QED
      BY <3>1, CountType
  <2>. QED
    BY <2>1, <2>2 DEF Starters, Room
<1>15. ASSUME NEW s \in SUBSET D, s # {}, s \ {k[s]} \in J PROVE s \in J
  <2>. DEFINE m == Max(s)
              t == s \ {m}
  <2>1. m \in s /\ m \in D /\ k[s] = m /\ t \in SUBSET D /\ s = t \cup {m} /\ m \notin t
    BY <1>5, <1>7, <1>15
  <2>2. h[s] = Take(f, h[t], PosNames[m])
    BY <1>12, <1>15
  <2>. HIDE DEF m, t
  <2>3. Assembled(f, Of(t), h[t])
    BY <1>15, <2>1 DEF t
  <2>4. PosNames[m] \in Position /\ PosNames[m] \notin Of(t)
    BY <1>1, <2>1
  <2>5. Of(s) = Of(t) \cup {PosNames[m]}
    BY <2>1
  <2>. HIDE DEF Of
  <2>6. Assembled(f, Of(t) \cup {PosNames[m]}, Take(f, h[t], PosNames[m]))
    BY <1>14, <2>3, <2>4, TakeAssembles
  <2>. QED
    BY <2>2, <2>5, <2>6
<1>. HIDE DEF J
<1>16. D \in J
  BY <1>1, <1>7, <1>13, <1>15, StepsKeep
<1>. QED
  BY <1>1, <1>16 DEF J, h, ElevensFrom, D

(* Players gathered position by position, each from his own.               *)
LEMMA Gathered ==
  ASSUME NEW V, \A pos \in Position : V[pos] \in SUBSET Player /\ \A p \in V[pos] : PosOf[p] = pos
  PROVE  LET u == UNION {V[pos] : pos \in Position}
         IN  u \subseteq Player /\ \A pos \in Position : At(u, pos) = V[pos]
BY DEF At

(* Two sets as dear, and the one no worse, in every position.              *)
LEMMA ByPosition ==
  ASSUME Players, NEW s, s \subseteq Player, NEW u, u \subseteq Player,
         \A pos \in Position : Cost(At(u, pos)) = Cost(At(s, pos)) /\ Scored(At(s, pos)) <= Scored(At(u, pos))
  PROVE  Cost(u) = Cost(s) /\ Scored(s) <= Scored(u)
<1>1. Cost(u) = Cost(s)
  <2>. DEFINE F == [pos \in Position |-> Cost(At(u, pos))]
              G == [pos \in Position |-> Cost(At(s, pos))]
  <2>1. F = G
    OBVIOUS
  <2>2. SumFunctionOnSet(F, Position) = Cost(u) /\ SumFunctionOnSet(G, Position) = Cost(s)
    BY CostByPosition
  <2>. HIDE DEF F, G
  <2>. QED
    BY <2>1, <2>2
<1>2. /\ IsFiniteSet(Position) /\ IsFiniteSet(s) /\ IsFiniteSet(u)
      /\ (\A p \in s : world.score[p] \in Int) /\ (\A p \in u : world.score[p] \in Int)
      /\ \A p \in s \cup u : PosOf[p] \in Position
  <2>1. IsFiniteSet(Position) /\ \A p \in Player : PosOf[p] \in Position
    BY SquadConstants
  <2>2. IsFiniteSet(s) /\ IsFiniteSet(u)
    BY SquadIsFinite
  <2>3. \A p \in Player : world.score[p] \in Int
    BY MarketType
  <2>. QED
    BY <2>1, <2>2, <2>3
<1>3. \A pos \in Position : SumFunctionOnSet(world.score, {p \in s : PosOf[p] = pos})
                              <= SumFunctionOnSet(world.score, {p \in u : PosOf[p] = pos})
  BY DEF Scored, At
<1>4. SumFunctionOnSet(world.score, s) <= SumFunctionOnSet(world.score, u)
  BY <1>2, <1>3, GroupsOutweigh
<1>. QED
  BY <1>1, <1>4 DEF Scored

(* The eleven a seed starts from is the best of its formation for the      *)
(* money: what the frontier leaves out is never missed, and the curves and *)
(* their combination lose nothing.                                         *)
LEMMA PicksAreBest ==
  ASSUME Players, NEW f \in Formation, Seatable(f), NEW s \in ElevenPicks(f)
  PROVE  Scored(s) <= Scored(Picks(f))
<1>. DEFINE Better(pos, v) == /\ Cardinality(v) = Cardinality(At(s, pos)) /\ Cost(v) = Cost(At(s, pos))
                              /\ Scored(At(s, pos)) <= Scored(v)
            V == [pos \in Position |-> CHOOSE v \in SUBSET SeedPool(pos) : Better(pos, v)]
            u == UNION {V[pos] : pos \in Position}
<1>1. /\ s \subseteq Pool \ req.locks /\ s \subseteq Player
      /\ \A pos \in Position : Cardinality(At(s, pos)) = Starters(f, pos)
      /\ \A p \in s : Cardinality(Rivals(s, p)) <= PerPrice
      /\ Cost(s) <= XIBudget(f)
  BY PoolPlayers DEF ElevenPicks, kSubset
<1>2. ASSUME NEW pos \in Position PROVE \E v \in SUBSET SeedPool(pos) : Better(pos, v)
  <2>. DEFINE t == At(s, pos)
  <2>1. t \in SUBSET At(Pool \ req.locks, pos)
    BY <1>1 DEF At
  <2>2. ASSUME NEW p \in t PROVE Cardinality(Priced(t, Price(p))) <= PerPrice
    <3>1. p \in s /\ PosOf[p] = pos
      BY DEF At
    <3>2. Rivals(s, p) = Priced(t, Price(p))
      BY <3>1 DEF Rivals, Priced
    <3>3. Cardinality(Rivals(s, p)) <= PerPrice
      BY <1>1, <3>1
    <3>. QED
      BY <3>2, <3>3
  <2>. HIDE DEF t
  <2>3. \E v \in SUBSET SeedPool(pos) :
          Cardinality(v) = Cardinality(t) /\ Cost(v) = Cost(t) /\ Scored(t) <= Scored(v)
    BY <2>1, <2>2, FrontierSuffices
  <2>. QED
    BY <2>3 DEF t
<1>3. \A pos \in Position : V[pos] \in SUBSET SeedPool(pos) /\ Better(pos, V[pos])
  <2>. TAKE pos \in Position
  <2>1. V[pos] = CHOOSE v \in SUBSET SeedPool(pos) : Better(pos, v)
    OBVIOUS
  <2>. HIDE DEF V, Better
  <2>. QED
    BY <1>2, <2>1
<1>. HIDE DEF V
<1>4. u \subseteq Player /\ \A pos \in Position : At(u, pos) = V[pos]
  BY <1>3, SeedPoolPlayers, Gathered
<1>. HIDE DEF u
<1>5. Cost(u) = Cost(s) /\ Scored(s) <= Scored(u)
  <2>1. \A pos \in Position : Cost(At(u, pos)) = Cost(At(s, pos)) /\ Scored(At(s, pos)) <= Scored(At(u, pos))
    BY <1>3, <1>4
  <2>. QED
    BY <1>1, <1>4, <2>1, ByPosition
<1>6. XIBudget(f) <= Spendable /\ XIBudget(f) \in Int
  <2>1. Bench(f, {}) \subseteq Player
    <3>1. \A pos \in Position : Foremost(BenchNeed(f, pos), SeedPool(pos) \ {}, Cheaper) \subseteq Player
      BY SeedPoolPlayers DEF Foremost
    <3>. QED
      BY <3>1 DEF Bench
  <2>2. Cost(Bench(f, {})) \in Nat
    BY <2>1, CostType
  <2>. QED
    BY <2>2, RoomType DEF XIBudget
<1>7. u \in Starting(f, Position) /\ Cost(u) \in Nat /\ Cost(u) <= XIBudget(f) /\ Cost(u) <= Spendable
  <2>1. \A p \in u : PosOf[p] \in Position
    BY <1>4, SquadConstants
  <2>2. \A pos \in Position : At(u, pos) \subseteq SeedPool(pos) /\ Cardinality(At(u, pos)) = Starters(f, pos)
    BY <1>1, <1>3, <1>4
  <2>3. Cost(u) \in Nat /\ Cost(u) <= XIBudget(f)
    BY <1>1, <1>4, <1>5, CostType
  <2>. QED
    BY <1>4, <1>6, <2>1, <2>2, <2>3, RoomType DEF Starting
<1>. DEFINE elevens == ElevensFrom(f)
            within == {x \in elevens : x.cost <= XIBudget(f)}
<1>8. Assembled(f, Position, elevens)
  BY ElevensAreAssembled
<1>9. Picks(f) = IF within = {} THEN {} ELSE (CHOOSE x \in within : \A y \in within : y.score <= x.score).picks
  BY DEF Picks, FoldLeft, MapThenFoldSet, Elevens, ElevensOf, ElevensFrom
<1>. HIDE DEF elevens
<1>10. PICK x \in elevens : x.cost = Cost(u) /\ Scored(u) <= x.score
  BY <1>7, <1>8 DEF Assembled
<1>11. x \in within /\ within \in PointSets /\ within # {}
  <2>1. elevens \in PointSets
    BY <1>8 DEF Assembled
  <2>2. x \in within
    BY <1>7, <1>10
  <2>3. within \in PointSets
    BY <2>1 DEF PointSets
  <2>. QED
    BY <2>2, <2>3
<1>12. \A y \in within : y = Point(y.picks)
  BY <1>8 DEF Assembled
<1>. HIDE DEF within
<1>. DEFINE top == CHOOSE z \in within : \A y \in within : y.score <= z.score
<1>13. top \in within /\ \A y \in within : y.score <= top.score
  BY <1>11, SomeBest
<1>14. Picks(f) = top.picks
  BY <1>9, <1>11
<1>. HIDE DEF top
<1>15. top = Point(top.picks) /\ top.score \in Nat /\ x.score \in Nat
  BY <1>11, <1>12, <1>13 DEF PointSets, Points
<1>16. top.score = Scored(Picks(f))
  BY <1>14, <1>15 DEF Point
<1>17. Scored(s) \in Nat /\ Scored(u) \in Nat
  BY <1>1, <1>4, CostType
<1>18. x.score <= top.score
  BY <1>11, <1>13
<1>. QED
  BY <1>5, <1>10, <1>15, <1>16, <1>17, <1>18

LEMMA AnsweredHolds == Spec => [](SoundBooks /\ Answered)
<1>1. Init => SoundBooks /\ Answered
  <2>1. Init => SoundBooks
    BY InitInv, BooksBegin DEF SoundBooks
  <2>2. Init => Answered
    BY DEF Init, Answered, FillEnds, RefusedRightly
  <2>. QED
    BY <2>1, <2>2
<1>2. SoundBooks /\ Answered /\ [Next]_vars => (SoundBooks /\ Answered)'
  BY BooksStep, AnsweredStep
<1>. QED
  BY <1>1, <1>2, PTL DEF Spec

(* A request that was taken is never refused for want of a player: while   *)
(* the squad is short there is someone who may be added, whoever was added *)
(* before him (the greedy loop's "could not fill a legal 15-man squad").   *)
THEOREM FillNeverStrands == Spec => [](stage = "fill" /\ ~Filled(squad) => Addable # {})
<1>1. SoundBooks /\ Answered => (stage = "fill" /\ ~Filled(squad) => Addable # {})
  <2>. SUFFICES ASSUME SoundBooks, Answered, stage = "fill", ~Filled(squad) PROVE Addable # {}
    OBVIOUS
  <2>1. /\ world \in World /\ req \in Request
        /\ Fitting(squad) /\ CheapestCompletion(squad) <= req.budget - spend
        /\ clubs = Counts(squad) /\ spend = Cost(squad)
    BY DEF SoundBooks, TypeOK, SearchInv, BooksInv, FillBooks, Answered, FillEnds
  <2>. QED
    BY <2>1, SomeoneCanBeAdded
<1>. QED
  BY <1>1, AnsweredHolds, PTL

(* The bound the greedy fill trusts is the price of the cheapest legal     *)
(* completion, whatever the market: who is refused could not be served,    *)
(* and the fill never strands.  And the eleven a seed starts from is the   *)
(* best of its formation for its money (fillBound, dpSeeds).               *)
THEOREM SolvesWhatItClaims == Spec => []SolvesExactly
<1>1. SoundBooks /\ Answered => SolvesExactly
  <2>. SUFFICES ASSUME SoundBooks, Answered PROVE SolvesExactly
    OBVIOUS
  <2>1. world \in World /\ req \in Request /\ Players
    BY Constants DEF SoundBooks, TypeOK
  <2>2. ASSUME stage = "asked", LocksFit PROVE Exact(req.locks) = CheapestCompletion(req.locks)
    BY <2>1, <2>2, LocksAreFitting, ExactIsCheapest
  <2>3. ASSUME stage = "fill" PROVE Exact(squad) = CheapestCompletion(squad)
    <3>1. Fitting(squad)
      BY <2>3 DEF Answered, FillEnds
    <3>. QED
      BY <2>1, <3>1, ExactIsCheapest
  <2>4. ASSUME NEW f \in {g \in Formation : Seatable(g)}, NEW s \in ElevenPicks(f)
        PROVE  Scored(s) <= Scored(Picks(f))
    BY <2>1, PicksAreBest
  <2>5. stage = "refused" /\ StartsFit /\ LocksFit /\ (Unlimited \/ Revisable) =>
          \A s \in Completions(req.locks) : Cost(s) > req.budget
    BY DEF Answered, RefusedRightly
  <2>. QED
    BY <2>2, <2>3, <2>4, <2>5 DEF SolvesExactly
<1>. QED
  BY <1>1, AnsweredHolds, PTL
=============================================================================

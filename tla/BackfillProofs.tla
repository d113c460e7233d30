--------------------------- MODULE BackfillProofs ---------------------------
(***************************************************************************)
(* Theorems about Backfill for every season that is Honest, every number   *)
(* of gameweeks, crawls, attempts and every cadence.                       *)
(***************************************************************************)
EXTENDS Backfill, FiniteSetTheorems, WellFoundedInduction, TLAPS

-----------------------------------------------------------------------------
(* A nonempty set of instants has a latest one.                            *)
LEMMA MaxIsIn ==
  ASSUME NEW S \in SUBSET Time, S # {}
  PROVE  Max(S) \in S /\ \A y \in S : Max(S) >= y
<1>. DEFINE T == {LastTime - s : s \in S}
<1>0. LastTime \in Nat
  BY BackfillConstants
<1>1. T \subseteq Nat /\ T # {}
  <2>1. \A s \in S : s \in Int /\ s <= LastTime
    BY <1>0 DEF Time
  <2>2. \A s \in S : LastTime - s \in Nat
    BY <1>0, <2>1
  <2>3. T \subseteq Nat
    BY <2>2
  <2>4. PICK s \in S : TRUE
    OBVIOUS
  <2>5. LastTime - s \in T
    OBVIOUS
  <2>. QED
    BY <2>3, <2>5
<1>. DEFINE R == {ss \in Nat \X Nat : ss[1] < ss[2]}
<1>r. IsWellFoundedOn(R, Nat)
  BY NatLessThanWellFounded DEF OpToRel
<1>. HIDE DEF T, R
<1>2. \E x \in T : \A y \in T : <<y, x>> \notin R
  BY <1>1, <1>r, WFMin
<1>. USE DEF T, R
<1>s. PICK x \in T : \A y \in T : <<y, x>> \notin R
  BY <1>2
<1>3. \A y \in T : x <= y
  <2>. TAKE y \in T
  <2>1. x \in Nat /\ y \in Nat
    BY <1>1
  <2>2. <<y, x>> \in Nat \X Nat /\ <<y, x>>[1] = y /\ <<y, x>>[2] = x
    BY <2>1
  <2>3. ~(y < x)
    <3>. SUFFICES ASSUME y < x PROVE FALSE
      OBVIOUS
    <3>1. <<y, x>> \in R
      BY <2>2
    <3>. QED
      BY <1>s, <3>1
  <2>. QED
    BY <2>1, <2>3
<1>4. PICK m \in S : x = LastTime - m
  OBVIOUS
<1>5. \A y \in S : m >= y
  <2>. TAKE y \in S
  <2>1. LastTime - y \in T
    OBVIOUS
  <2>2. LastTime - m <= LastTime - y
    BY <2>1, <1>3, <1>4
  <2>. QED
    BY <2>2, <1>0 DEF Time
<1>. QED
  BY <1>4, <1>5 DEF Max

(* What Honest and the type of a season say of the season at hand.         *)
LEMMA WorldFacts ==
  ASSUME world \in World
  PROVE  /\ world \in Season /\ Honest(world)
         /\ world.crawls \subseteq Time
         /\ \A g \in Gameweek : /\ world.first[g] \in Time /\ world.final[g] \in Time
                                /\ world.from[g] \in Time
                                /\ world.hardBound[g] \in Time \cup {None}
BY BackfillConstants DEF Season

LEMMA SelectIsBefore ==
  ASSUME world \in World, NEW b \in Time, SelectPreDeadline(b) # None
  PROVE  SelectPreDeadline(b) \in world.crawls /\ SelectPreDeadline(b) < b
<1>1. Before(b) \in SUBSET Time /\ Before(b) # {}
  BY WorldFacts DEF Before, SelectPreDeadline
<1>2. Max(Before(b)) \in Before(b)
  BY <1>1, MaxIsIn
<1>. QED
  BY <1>1, <1>2 DEF SelectPreDeadline, Before

LEMMA CandidateFacts ==
  ASSUME TypeOK, Candidate # None
  PROVE  /\ Candidate \in world.crawls /\ Candidate \in Time /\ Candidate < bound
         /\ tries # attempts
         /\ Candidate = SelectPreDeadline(bound)
<1>1. SelectPreDeadline(bound) # None /\ tries # attempts
  BY DEF Candidate
<1>2. Candidate = SelectPreDeadline(bound)
  BY DEF Candidate
<1>. QED
  BY <1>1, <1>2, SelectIsBefore, WorldFacts DEF TypeOK

LEMMA DeadlineType ==
  ASSUME world \in World, NEW g \in Gameweek, NEW s
  PROVE  Deadline(g, s) \in Time
BY WorldFacts DEF Deadline

(* The payload's own check is proof enough where the season archive knows  *)
(* no match: FPL shows the deadline that was to whoever comes too late.    *)
LEMMA VerifiedIsEarly ==
  ASSUME world \in World, NEW g \in Gameweek, NEW s \in Time,
         world.hardBound[g] = None, VerifyPreDeadline(g, s)
  PROVE  s < world.final[g]
<1>1. s < Deadline(g, s)
  BY DEF VerifyPreDeadline
<1>2. world.from[g] <= world.final[g]
  <2>1. world.final[g] # None
    BY WorldFacts, BackfillConstants DEF Time
  <2>. QED
    BY <2>1, WorldFacts DEF Honest
<1>3. CASE s < world.from[g]
  BY <1>2, <1>3, WorldFacts DEF Time
<1>4. CASE ~(s < world.from[g])
  BY <1>1, <1>4 DEF Deadline
<1>. QED
  BY <1>3, <1>4

LEMMA CeilingIsFinal ==
  ASSUME world \in World, NEW g \in Gameweek, Ceiling(g) # None
  PROVE  Ceiling(g) = world.final[g]
BY WorldFacts DEF Honest, Ceiling

LEMMA CapturesCount ==
  ASSUME NEW g \in Gameweek
  PROVE  Cardinality(Captures(g)) \in Nat
<1>1. IsFiniteSet(Time)
  BY BackfillConstants, FS_Interval DEF Time
<1>2. Captures(g) \subseteq Time
  BY DEF Captures
<1>. QED
  BY <1>1, <1>2, FS_Subset, FS_CardinalityType

-----------------------------------------------------------------------------
(* The inductive invariant, first for the actions that leave the store     *)
(* and the search alone.                                                   *)
LEMMA InitInv == Init => BackfillInv
<1>. SUFFICES ASSUME Init PROVE BackfillInv
  OBVIOUS
<1>0. 1 \in Gameweek /\ 0 \in Time /\ 0 \in 0..attempts
  BY BackfillConstants DEF Gameweek, Time
<1>1. TypeOK
  BY <1>0 DEF Init, TypeOK
<1>2. PhaseInv /\ BoundInv /\ HandInv /\ StoreInv
  BY DEF Init, PhaseInv, BoundInv, HandInv, StoreInv
<1>. QED
  BY <1>1, <1>2 DEF BackfillInv

LEMMA IdleInv ==
  ASSUME BackfillInv, Idle, UNCHANGED <<world, disk>>,
         report' \in [Gameweek -> Nat \cup {None}]
  PROVE  BackfillInv'
<1>. USE DEF BackfillInv, Idle, disk
<1>0. 1 \in Gameweek /\ 0 \in Time /\ 0 \in 0..attempts
  BY BackfillConstants DEF Gameweek, Time
<1>1. TypeOK'
  BY <1>0 DEF TypeOK
<1>2. PhaseInv' /\ BoundInv' /\ HandInv'
  BY DEF PhaseInv, BoundInv, HandInv
<1>3. StoreInv'
  BY DEF StoreInv, Early
<1>. QED
  BY <1>1, <1>2, <1>3

(* What an action leaves alone when it stays in the gameweek.              *)
LEMMA CalendarInv ==
  ASSUME BackfillInv,
         Run \/ Index \/ DiscoverDeadlines \/ SaveDeadlines \/ WriteDeadlines \/ SaveLastFails
  PROVE  BackfillInv'
<1>. USE DEF BackfillInv, loop, disk
<1>1. CASE Run
  <2>1. counted' \in [Gameweek -> Nat]
    BY <1>1, CapturesCount DEF Run
  <2>2. dl' \in Calendar \cup {None}
    BY <1>1 DEF Run, TypeOK
  <2>3. pc' \in {"report", "index"} /\ UNCHANGED <<world, disk, loop, dirty, report>>
    BY <1>1 DEF Run
  <2>4. TypeOK'
    BY <2>1, <2>2, <2>3 DEF TypeOK
  <2>5. PhaseInv' /\ BoundInv' /\ HandInv' /\ StoreInv'
    BY <1>1, <2>3 DEF Run, PhaseInv, BoundInv, HandInv, StoreInv, Early
  <2>. QED
    BY <2>4, <2>5
<1>2. CASE Index
  BY <1>2 DEF Index, TypeOK, PhaseInv, BoundInv, HandInv, StoreInv, Early
<1>3. CASE DiscoverDeadlines
  <2>1. dl' \in Calendar /\ dl' # None
    <3>1. PICK s \in world.crawls :
            dl' = [by |-> [g \in Gameweek |-> Deadline(g, s)],
                   confirmed |-> [g \in Gameweek |-> FALSE]]
      BY <1>3 DEF DiscoverDeadlines
    <3>2. dl' \in Calendar
      BY <3>1, DeadlineType DEF Calendar, TypeOK
    <3>. QED
      BY <3>2, BackfillConstants
  <2>2. TypeOK'
    BY <1>3, <2>1 DEF DiscoverDeadlines, TypeOK
  <2>3. PhaseInv' /\ BoundInv' /\ HandInv' /\ StoreInv'
    BY <1>3, <2>1 DEF DiscoverDeadlines, PhaseInv, BoundInv, HandInv, StoreInv, Early
  <2>. QED
    BY <2>2, <2>3
<1>4. CASE SaveDeadlines
  BY <1>4 DEF SaveDeadlines, TypeOK, PhaseInv, BoundInv, HandInv, StoreInv, Early
<1>5. CASE WriteDeadlines
  BY <1>5 DEF WriteDeadlines, TypeOK, PhaseInv, BoundInv, HandInv, StoreInv, Early
<1>6. CASE SaveLastFails
  BY <1>6 DEF SaveLastFails, TypeOK, PhaseInv, BoundInv, HandInv, StoreInv, Early
<1>. QED
  BY <1>1, <1>2, <1>3, <1>4, <1>5, <1>6

(* Leaving a gameweek clears the search; nothing is in hand.               *)
LEMMA LeaveInv ==
  ASSUME BackfillInv, pc \in {"week", "resolve", "rest"}, Leave(gw),
         dl' \in Calendar, dirty' \in BOOLEAN,
         UNCHANGED <<world, disk, counted, writing, report>>
  PROVE  BackfillInv'
<1>. USE DEF BackfillInv, disk
<1>0. 0 \in Time /\ 0 \in 0..attempts /\ None \notin Calendar
  BY BackfillConstants DEF Time
<1>1. gw' \in Gameweek
  <2>1. gw \in Gameweek
    BY DEF TypeOK
  <2>2. gw' = IF gw < LastWeek THEN gw + 1 ELSE 1
    BY DEF Leave
  <2>. HIDE DEF BackfillInv
  <2>. QED
    BY <2>1, <2>2, BackfillConstants DEF Gameweek
<1>2. writing' = None
  BY DEF PhaseInv
<1>3. pc' \in {"week", "save last", "report"} /\ chosen' = None /\ wanted' = {}
  BY DEF Leave
<1>4. TypeOK'
  BY <1>0, <1>1, <1>3 DEF TypeOK, Leave
<1>5. PhaseInv' /\ BoundInv' /\ HandInv' /\ StoreInv'
  BY <1>0, <1>2, <1>3 DEF PhaseInv, BoundInv, HandInv, StoreInv, Early
<1>. QED
  BY <1>4, <1>5

(* The search.  A bound only ever falls, or rises below the ceiling; and a *)
(* crawl that verifies below the ceiling is early.                         *)
LEMMA ResolvingInv ==
  ASSUME BackfillInv, Resolving
  PROVE  BackfillInv'
<1>. USE DEF BackfillInv, disk
<1>i. Time \subseteq Int
  BY DEF Time
<1>0. world \in World /\ gw \in Gameweek /\ bound \in Time /\ Time \subseteq Int
  BY <1>i DEF TypeOK
<1>n. Ceiling(gw) \in Time \cup {None} /\ None \notin Time /\ None \notin Calendar
  BY <1>0, WorldFacts, BackfillConstants DEF Ceiling, Time
<1>1. CASE SkipWeek
  <2>1. dl \in Calendar
    BY <1>1 DEF SkipWeek, TypeOK, PhaseInv
  <2>. QED
    BY <1>1, <2>1, LeaveInv DEF SkipWeek, TypeOK
<1>2. CASE StartWeek
  <2>1. dl.by[gw] \in Time
    BY <1>0, <1>2 DEF StartWeek, TypeOK, PhaseInv, Calendar
  <2>2. bound' \in Time /\ (Ceiling(gw) # None => bound' <= Ceiling(gw))
    <3>1. bound' = IF Ceiling(gw) # None /\ Ceiling(gw) < dl.by[gw] THEN Ceiling(gw)
                   ELSE dl.by[gw]
      BY <1>2 DEF StartWeek, Earlier
    <3>2. dl.by[gw] \in Int /\ (Ceiling(gw) # None => Ceiling(gw) \in Int)
      BY <1>0, <1>n, <2>1
    <3>. QED
      BY <1>n, <2>1, <3>1, <3>2
  <2>3. TypeOK'
    BY <1>2, <2>2, BackfillConstants DEF StartWeek, TypeOK
  <2>4. PhaseInv' /\ BoundInv' /\ HandInv' /\ StoreInv'
    BY <1>2, <2>2 DEF StartWeek, PhaseInv, BoundInv, HandInv, StoreInv, Early, Ceiling
  <2>. QED
    BY <2>3, <2>4
<1>3. ASSUME Candidate # None
      PROVE  /\ Candidate \in world.crawls /\ Candidate \in Time /\ Candidate < bound
             /\ tries + 1 \in 0..attempts
  <2>1. Candidate \in world.crawls /\ Candidate \in Time /\ Candidate < bound
        /\ tries # attempts
    BY <1>3, CandidateFacts
  <2>2. tries \in 0..attempts
    BY DEF TypeOK
  <2>. HIDE DEF BackfillInv
  <2>3. tries + 1 \in 0..attempts
    BY <2>1, <2>2, BackfillConstants
  <2>. QED
    BY <2>1, <2>3
<1>4. CASE FetchFails
  <2>1. Candidate # None /\ UNCHANGED <<world, disk, pc, dl, counted, gw, chosen, wanted,
                                        writing, dirty, report>>
        /\ bound' = Candidate /\ tries' = tries + 1
    BY <1>4 DEF FetchFails
  <2>2. TypeOK'
    <3>1. bound' \in Time /\ tries' \in 0..attempts
      BY <1>3, <2>1
    <3>. QED
      BY <2>1, <3>1 DEF TypeOK
  <2>3. BoundInv'
    BY <1>0, <1>3, <1>n, <2>1 DEF BoundInv, Ceiling
  <2>4. PhaseInv' /\ HandInv' /\ StoreInv'
    BY <2>1 DEF PhaseInv, HandInv, StoreInv, Early
  <2>. QED
    BY <2>2, <2>3, <2>4
<1>5. CASE Refused
  <2>1. Candidate # None /\ UNCHANGED <<world, disk, pc, dl, counted, gw, chosen, wanted,
                                        writing, dirty, report>>
        /\ tries' = tries + 1
        /\ bound' = IF Deadline(gw, Candidate) < bound THEN Deadline(gw, Candidate)
                    ELSE Candidate
    BY <1>5 DEF Refused
  <2>2. bound' \in Time /\ bound' < bound
    BY <1>0, <1>3, <2>1, DeadlineType
  <2>3. TypeOK'
    <3>1. tries' \in 0..attempts
      BY <1>3, <2>1
    <3>. QED
      BY <2>1, <2>2, <3>1 DEF TypeOK
  <2>4. BoundInv'
    BY <1>0, <1>n, <2>1, <2>2 DEF BoundInv, Ceiling
  <2>5. PhaseInv' /\ HandInv' /\ StoreInv'
    BY <2>1 DEF PhaseInv, HandInv, StoreInv, Early
  <2>. QED
    BY <2>3, <2>4, <2>5
<1>6. CASE Verified
  <2>. DEFINE d == Deadline(gw, Candidate)
  <2>1. /\ pc = "resolve" /\ Candidate # None /\ VerifyPreDeadline(gw, Candidate)
        /\ chosen' = Candidate /\ dl' = [dl EXCEPT !.by[gw] = d]
        /\ UNCHANGED <<world, disk, counted, gw, wanted, dirty, report>>
    BY <1>6 DEF Verified
  <2>2. \/ Widens(gw, d) /\ bound' = d /\ tries' = tries + 1 /\ UNCHANGED <<pc, writing>>
        \/ pc' = "store" /\ writing' = Candidate /\ UNCHANGED <<bound, tries>>
    BY <1>6 DEF Verified
  <2>3. d \in Time
    BY <1>0, DeadlineType
  <2>4. dl' \in Calendar
    <3>1. dl \in Calendar
      BY <2>1 DEF TypeOK, PhaseInv
    <3>. QED
      BY <2>1, <2>3, <3>1 DEF Calendar
  <2>5. Early(gw, Candidate)
    <3>1. CASE Ceiling(gw) = None
      BY <1>0, <1>3, <2>1, <3>1, VerifiedIsEarly DEF Early, Ceiling
    <3>2. CASE Ceiling(gw) # None
      <4>1. bound <= Ceiling(gw) /\ Ceiling(gw) = world.final[gw]
        BY <1>0, <2>1, <3>2, CeilingIsFinal DEF BoundInv
      <4>2. Ceiling(gw) \in Time
        BY <1>n, <3>2
      <4>. QED
        BY <1>0, <1>3, <2>1, <4>1, <4>2 DEF Early
    <3>. QED
      BY <3>1, <3>2
  <2>6. TypeOK'
    BY <1>3, <2>1, <2>2, <2>3, <2>4 DEF TypeOK
  <2>7. BoundInv'
    <3>1. CASE Widens(gw, d) /\ bound' = d
      BY <1>0, <1>n, <2>1, <2>3, <3>1 DEF BoundInv, Widens, Ceiling
    <3>2. CASE pc' = "store"
      BY <3>2 DEF BoundInv
    <3>. QED
      BY <2>2, <3>1, <3>2
  <2>9. PhaseInv'
    BY <1>n, <2>1, <2>2, <2>4 DEF PhaseInv
  <2>10. HandInv' /\ StoreInv'
    BY <2>1, <2>2, <2>5 DEF HandInv, StoreInv, Early
  <2>. QED
    BY <2>6, <2>7, <2>9, <2>10
<1>7. CASE Chosen
  <2>1. CASE chosen = None
    <3>1. dl \in Calendar
      BY <1>7 DEF Chosen, TypeOK, PhaseInv
    <3>. QED
      BY <1>7, <2>1, <3>1, LeaveInv DEF Chosen, TypeOK
  <2>2. CASE chosen # None
    BY <1>7, <2>2 DEF Chosen, TypeOK, PhaseInv, BoundInv, HandInv, StoreInv, Early
  <2>. QED
    BY <2>1, <2>2
<1>. QED
  BY <1>1, <1>2, <1>4, <1>5, <1>6, <1>7 DEF Resolving

(* The rest of a gameweek's run-up lies behind the crawl it hangs on.      *)
LEMMA StoredInv ==
  ASSUME BackfillInv, pc \in {"store", "payload", "manifest"}, NEW n, Stored(n),
         dirs' \in [Gameweek -> [Time -> {"none", "bare", "torn", "done"}]], StoreInv'
  PROVE  BackfillInv'
<1>. USE DEF BackfillInv
<1>1. /\ writing' = None /\ pc' = "rest"
      /\ UNCHANGED <<world, saved, dl, counted, gw, bound, chosen, tries, dirty, report>>
  BY DEF Stored
<1>2. world.crawls \subseteq Time
  BY WorldFacts DEF TypeOK
<1>3. wanted' \subseteq world.crawls /\ \A s \in wanted' : Early(gw, s)
  <2>1. CASE wanted' = SelectWindow(PreviousDeadline, chosen, Want(n))
    <3>1. chosen # None /\ Early(gw, chosen) /\ chosen \in world.crawls
      BY DEF PhaseInv, HandInv, TypeOK
    <3>2. \A s \in wanted' : s \in world.crawls /\ s < chosen
      BY <2>1 DEF SelectWindow
    <3>3. world.final[gw] \in Time
      BY WorldFacts DEF TypeOK
    <3>4. chosen \in Int /\ world.final[gw] \in Int /\ \A s \in wanted' : s \in Int
      BY <1>2, <3>1, <3>2, <3>3 DEF Time
    <3>. QED
      BY <3>1, <3>2, <3>4 DEF Early
  <2>2. CASE wanted' = {}
    BY <2>2
  <2>3. CASE wanted' = wanted
    BY <2>3 DEF TypeOK, HandInv
  <2>. QED
    BY <2>1, <2>2, <2>3 DEF Stored
<1>4. TypeOK'
  BY <1>1, <1>3 DEF TypeOK
<1>5. PhaseInv' /\ BoundInv' /\ HandInv'
  BY <1>1, <1>3 DEF PhaseInv, BoundInv, HandInv, Early
<1>. QED
  BY <1>4, <1>5

LEMMA StoringInv ==
  ASSUME BackfillInv, Storing
  PROVE  BackfillInv'
<1>. USE DEF BackfillInv, disk, loop
<1>0. world.crawls \subseteq Time
  BY WorldFacts DEF TypeOK
<1>1. CASE NotStored \/ MakeDirFails \/ WriteFails
  <2>1. pc \in {"store", "payload", "manifest"} /\ Stored(0) /\ UNCHANGED dirs
    BY <1>1 DEF NotStored, MakeDirFails, WriteFails
  <2>2. UNCHANGED world
    BY <2>1 DEF Stored
  <2>3. StoreInv'
    BY <2>1, <2>2 DEF StoreInv, Early
  <2>4. dirs' \in [Gameweek -> [Time -> {"none", "bare", "torn", "done"}]]
    BY <2>1 DEF TypeOK
  <2>. QED
    BY <2>1, <2>3, <2>4, StoredInv
<1>2. ASSUME NEW v \in {"bare", "torn", "done"}, writing # None, UNCHANGED world,
             dirs' = [dirs EXCEPT ![gw][writing] = v]
      PROVE  /\ dirs' \in [Gameweek -> [Time -> {"none", "bare", "torn", "done"}]]
             /\ StoreInv'
  <2>1. gw \in Gameweek /\ writing \in Time /\ Early(gw, writing)
    BY <1>0, <1>2 DEF TypeOK, HandInv
  <2>2. dirs' \in [Gameweek -> [Time -> {"none", "bare", "torn", "done"}]]
    BY <1>2, <2>1 DEF TypeOK
  <2>3. ASSUME NEW g \in Gameweek, NEW s \in Time, dirs'[g][s] # "none"
        PROVE  Early(g, s)
    <3>1. CASE g = gw /\ s = writing
      BY <2>1, <3>1
    <3>2. CASE ~(g = gw /\ s = writing)
      <4>1. dirs'[g][s] = dirs[g][s]
        BY <1>2, <2>1, <3>2 DEF TypeOK
      <4>. QED
        BY <2>3, <4>1 DEF StoreInv
    <3>. QED
      BY <3>1, <3>2
  <2>4. StoreInv'
    BY <1>2, <2>3 DEF StoreInv, Early
  <2>. QED
    BY <2>2, <2>4
<1>3. CASE MakeDir \/ WritePayload
  <2>1. /\ pc \in {"store", "payload"} /\ pc' \in {"payload", "manifest"}
        /\ UNCHANGED <<world, saved, dl, counted, loop, dirty, report>>
        /\ dirs' = [dirs EXCEPT ![gw][writing] = "bare"]
             \/ dirs' = [dirs EXCEPT ![gw][writing] = "torn"]
    BY <1>3 DEF MakeDir, WritePayload
  <2>2. writing # None
    BY <2>1 DEF PhaseInv
  <2>3. dirs' \in [Gameweek -> [Time -> {"none", "bare", "torn", "done"}]] /\ StoreInv'
    BY <1>2, <2>1, <2>2
  <2>4. TypeOK'
    BY <2>1, <2>3 DEF TypeOK
  <2>5. dirs'[gw][writing] # "done"
    BY <1>0, <2>1, <2>2 DEF TypeOK
  <2>6. PhaseInv' /\ BoundInv' /\ HandInv'
    BY <2>1, <2>5 DEF PhaseInv, BoundInv, HandInv, Early
  <2>. QED
    BY <2>3, <2>4, <2>6
<1>4. CASE WriteManifest
  <2>1. pc = "manifest" /\ Stored(1) /\ dirs' = [dirs EXCEPT ![gw][writing] = "done"]
    BY <1>4 DEF WriteManifest
  <2>2. writing # None /\ UNCHANGED world
    BY <2>1 DEF PhaseInv, Stored
  <2>3. dirs' \in [Gameweek -> [Time -> {"none", "bare", "torn", "done"}]] /\ StoreInv'
    BY <1>2, <2>1, <2>2
  <2>. QED
    BY <2>1, <2>3, StoredInv
<1>5. CASE FetchNext
  <2>1. wanted \in SUBSET Time /\ wanted # {}
    BY <1>0, <1>5 DEF FetchNext, TypeOK
  <2>2. Max(wanted) \in wanted
    BY <2>1, MaxIsIn
  <2>3. Max(wanted) \in world.crawls /\ Max(wanted) # None /\ Early(gw, Max(wanted))
    <3>1. Max(wanted) \in world.crawls /\ Early(gw, Max(wanted))
      BY <2>2 DEF TypeOK, HandInv
    <3>2. None \notin Time
      BY BackfillConstants DEF Time
    <3>. QED
      BY <1>0, <3>1, <3>2
  <2>4. /\ pc = "rest" /\ wanted' \subseteq wanted
        /\ \/ pc' = "store" /\ writing' = Max(wanted)
           \/ UNCHANGED <<pc, writing>>
        /\ UNCHANGED <<world, disk, dl, counted, gw, bound, chosen, tries, dirty, report>>
    BY <1>5 DEF FetchNext
  <2>5. TypeOK'
    BY <2>3, <2>4 DEF TypeOK
  <2>6. PhaseInv'
    <3>1. chosen # None /\ dl # None
      BY <2>4 DEF PhaseInv
    <3>. QED
      BY <2>3, <2>4, <3>1 DEF PhaseInv
  <2>7. BoundInv' /\ StoreInv'
    BY <2>4 DEF BoundInv, StoreInv, Early
  <2>8. HandInv'
    BY <2>3, <2>4 DEF HandInv, Early
  <2>. QED
    BY <2>5, <2>6, <2>7, <2>8
<1>6. CASE EndWeek
  <2>1. pc = "rest" /\ Confirm(gw) /\ Leave(gw)
        /\ UNCHANGED <<world, disk, counted, writing, report>>
    BY <1>6 DEF EndWeek
  <2>2. dl \in Calendar /\ dirty \in BOOLEAN
    BY <2>1 DEF TypeOK, PhaseInv
  <2>3. dl' \in Calendar /\ dirty' \in BOOLEAN
    BY <2>1, <2>2 DEF Confirm, Calendar
  <2>. QED
    BY <2>1, <2>3, LeaveInv
<1>. QED
  BY <1>1, <1>3, <1>4, <1>5, <1>6 DEF Storing

-----------------------------------------------------------------------------
(* Every step keeps the invariant.                                         *)
LEMMA StepInv == BackfillInv /\ [Next]_vars => BackfillInv'
<1>. SUFFICES ASSUME BackfillInv, [Next]_vars PROVE BackfillInv'
  OBVIOUS
<1>1. CASE Resolving
  BY <1>1, ResolvingInv
<1>2. CASE Storing
  BY <1>2, StoringInv
<1>3. CASE Run \/ Index \/ DiscoverDeadlines \/ SaveDeadlines \/ WriteDeadlines
           \/ SaveLastFails
  BY <1>3, CalendarInv
<1>4. CASE Finish \/ Kill
  <2>1. report' \in [Gameweek -> Nat \cup {None}]
    BY <1>4, CapturesCount DEF Finish, Kill, End, BackfillInv, TypeOK
  <2>2. Idle /\ UNCHANGED <<world, disk>>
    BY <1>4 DEF Finish, Kill, End
  <2>. QED
    BY <2>1, <2>2, IdleInv
<1>5. CASE UNCHANGED vars
  <2>1. TypeOK'
    BY <1>5 DEF vars, BackfillInv, TypeOK
  <2>2. PhaseInv'
    BY <1>5 DEF vars, BackfillInv, PhaseInv
  <2>3. BoundInv' /\ HandInv'
    BY <1>5 DEF vars, BackfillInv, BoundInv, HandInv, Early, Ceiling
  <2>4. StoreInv'
    BY <1>5 DEF vars, BackfillInv, StoreInv, Early
  <2>. QED
    BY <2>1, <2>2, <2>3, <2>4 DEF BackfillInv
<1>. QED
  BY <1>1, <1>2, <1>3, <1>4, <1>5 DEF Next

LEMMA Inductive == Spec => []BackfillInv
BY InitInv, StepInv, PTL DEF Spec

(* Type correctness.                                                       *)
THEOREM TypeCorrect == Spec => []TypeOK
<1>1. BackfillInv => TypeOK
  BY DEF BackfillInv
<1>. QED
  BY <1>1, Inductive, PTL

(* No capture is filed that was crawled at or after the true deadline of   *)
(* its gameweek, whatever FPL's calendar did, whichever fetches and writes *)
(* failed and whenever runs were killed (resolve, Backfilled.Write).       *)
THEOREM NeverHindsight == Spec => []NoHindsight
<1>1. BackfillInv => NoHindsight
  <2>1. \A g \in Gameweek : \A s \in Captures(g) : s \in Time /\ dirs[g][s] # "none"
    BY DEF Captures
  <2>. QED
    BY <2>1 DEF BackfillInv, StoreInv, NoHindsight, Early
<1>. QED
  BY <1>1, Inductive, PTL

(* Write never touches a directory that is there.                          *)
LEMMA NothingUnfiled ==
  ASSUME BackfillInv, [Next]_vars
  PROVE  \A g \in Gameweek : Captures(g) \subseteq Captures(g)'
<1>0. ASSUME UNCHANGED dirs
      PROVE  \A g \in Gameweek : Captures(g) \subseteq Captures(g)'
  BY <1>0 DEF Captures
<1>1. ASSUME NEW v \in {"bare", "torn", "done"}, dirs[gw][writing] # "done" \/ v = "done",
             dirs' = [dirs EXCEPT ![gw][writing] = v]
      PROVE  \A g \in Gameweek : Captures(g) \subseteq Captures(g)'
  <2>. SUFFICES ASSUME NEW g \in Gameweek, NEW s \in Time, dirs[g][s] = "done"
                PROVE  dirs'[g][s] = "done"
    BY DEF Captures
  <2>. QED
    BY <1>1 DEF BackfillInv, TypeOK
<1>2. CASE MakeDir
  BY <1>1, <1>2 DEF MakeDir
<1>3. CASE WritePayload
  <2>1. dirs[gw][writing] # "done"
    BY <1>3 DEF WritePayload, BackfillInv, PhaseInv
  <2>. QED
    BY <1>1, <1>3, <2>1 DEF WritePayload
<1>4. CASE WriteManifest
  BY <1>1, <1>4 DEF WriteManifest
<1>5. CASE ~(MakeDir \/ WritePayload \/ WriteManifest)
  <2>1. UNCHANGED dirs
    BY <1>5 DEF Next, vars, disk, Run, Index, DiscoverDeadlines, SaveDeadlines,
         WriteDeadlines, SaveLastFails, Resolving, SkipWeek, StartWeek, FetchFails, Refused,
         Verified, Chosen, Storing, NotStored, MakeDirFails, WriteFails, FetchNext, EndWeek,
         Finish, Kill, End
  <2>. QED
    BY <1>0, <2>1
<1>. QED
  BY <1>2, <1>3, <1>4, <1>5

(* What is filed stays as it is, over every run, failure and kill.         *)
THEOREM CapturesStay == Spec => Immutable
<1>1. ASSUME BackfillInv, [Next]_vars
      PROVE  [\A g \in Gameweek : Captures(g) \subseteq Captures(g)']_vars
  BY <1>1, NothingUnfiled
<1>. QED
  BY <1>1, Inductive, PTL DEF Spec, Immutable

-----------------------------------------------------------------------------
(* The cadence.  Counting is over instants, of which there are finitely    *)
(* many.                                                                   *)
LEMMA InstantsCount ==
  ASSUME NEW S \in SUBSET Time
  PROVE  IsFiniteSet(S) /\ Cardinality(S) \in Nat
<1>1. IsFiniteSet(Time)
  BY BackfillConstants, FS_Interval DEF Time
<1>. QED
  BY <1>1, FS_Subset, FS_CardinalityType

(* A nonempty set of instants has an earliest one.                         *)
LEMMA EarliestIsIn ==
  ASSUME NEW S \in SUBSET Time, S # {}
  PROVE  \E m \in S : \A s \in S : m <= s
<1>. DEFINE R == {ss \in Nat \X Nat : ss[1] < ss[2]}
<1>1. IsWellFoundedOn(R, Nat)
  BY NatLessThanWellFounded DEF OpToRel
<1>2. S \subseteq Nat
  BY BackfillConstants DEF Time
<1>. HIDE DEF R
<1>3. PICK m \in S : \A s \in S : <<s, m>> \notin R
  BY <1>1, <1>2, WFMin
<1>4. ASSUME NEW s \in S PROVE m <= s
  <2>1. <<s, m>> \in Nat \X Nat /\ <<s, m>>[1] = s /\ <<s, m>>[2] = m
    BY <1>2
  <2>2. ~(s < m)
    BY <1>3, <2>1 DEF R
  <2>. QED
    BY <1>2, <2>2
<1>. QED
  BY <1>4

(* The n latest of any crawls are at most n: all but the earliest of them  *)
(* are later than it, and those are fewer than n.                          *)
LEMMA WindowFits ==
  ASSUME world \in World, NEW a, NEW b, NEW n \in Nat
  PROVE  Cardinality(SelectWindow(a, b, n)) <= n
<1>. DEFINE in == {s \in world.crawls : a < s /\ s < b}
            W == {s \in in : Cardinality({r \in in : r > s}) < n}
<1>1. W = SelectWindow(a, b, n)
  BY DEF SelectWindow
<1>2. in \in SUBSET Time /\ W \in SUBSET Time
  BY WorldFacts
<1>3. CASE W = {}
  <2>1. Cardinality(W) = 0
    BY <1>3, FS_EmptySet
  <2>. HIDE DEF W
  <2>. QED
    BY <1>1, <2>1
<1>4. CASE W # {}
  <2>1. PICK m \in W : \A s \in W : m <= s
    BY <1>2, <1>4, EarliestIsIn
  <2>. DEFINE later == {r \in in : r > m}
  <2>2. W \ {m} \subseteq later
    <3>. SUFFICES ASSUME NEW s \in W, s # m PROVE s \in in /\ s > m
      OBVIOUS
    <3>1. m <= s /\ s \in Int /\ m \in Int
      BY <1>2, <2>1 DEF Time
    <3>. QED
      BY <3>1
  <2>3. later \in SUBSET Time /\ Cardinality(later) < n
    BY <1>2, <2>1
  <2>. HIDE DEF later, in, W
  <2>4. Cardinality(W \ {m}) <= Cardinality(later) /\ Cardinality(later) \in Nat
    BY <2>2, <2>3, InstantsCount, FS_Subset
  <2>5. Cardinality(W \ {m}) = Cardinality(W) - 1 /\ Cardinality(W) \in Nat
    BY <1>2, <2>1, InstantsCount, FS_RemoveElement
  <2>. QED
    BY <1>1, <2>3, <2>4, <2>5
<1>. QED
  BY <1>3, <1>4

LEMMA HeldCounts ==
  ASSUME NEW g \in Gameweek
  PROVE  Held(g) \in Nat /\ IsFiniteSet(Captures(g))
  BY InstantsCount DEF Held, Captures

(* Nothing but a manifest adds to what is filed.                           *)
LEMMA NothingFiled ==
  ASSUME BackfillInv, NEW v \in {"bare", "torn"}, dirs[gw][writing] # "done", writing # None,
         UNCHANGED dirs \/ dirs' = [dirs EXCEPT ![gw][writing] = v]
  PROVE  \A g \in Gameweek : Held(g)' = Held(g)
<1>. SUFFICES ASSUME NEW g \in Gameweek PROVE Captures(g)' = Captures(g)
  BY DEF Held
<1>1. CASE UNCHANGED dirs
  BY <1>1 DEF Captures
<1>2. CASE dirs' = [dirs EXCEPT ![gw][writing] = v]
  <2>1. ASSUME NEW s \in Time PROVE dirs'[g][s] = "done" <=> dirs[g][s] = "done"
    <3>1. CASE g = gw /\ s = writing
      BY <1>2, <3>1 DEF BackfillInv, TypeOK
    <3>2. CASE ~(g = gw /\ s = writing)
      BY <1>2, <3>2 DEF BackfillInv, TypeOK
    <3>. QED
      BY <3>1, <3>2
  <2>. QED
    BY <2>1 DEF Captures
<1>. QED
  BY <1>1, <1>2

LEMMA OneFiled ==
  ASSUME BackfillInv, pc = "manifest", dirs' = [dirs EXCEPT ![gw][writing] = "done"]
  PROVE  \A g \in Gameweek : Held(g)' = IF g = gw THEN Held(g) + 1 ELSE Held(g)
<1>1. gw \in Gameweek /\ writing \in Time /\ dirs[gw][writing] # "done"
  BY WorldFacts DEF BackfillInv, TypeOK, PhaseInv
<1>2. ASSUME NEW g \in Gameweek, g = gw PROVE Held(g)' = Held(g) + 1
  <2>1. ASSUME NEW s \in Time PROVE dirs'[g][s] = "done" <=> dirs[g][s] = "done" \/ s = writing
    BY <1>1, <1>2 DEF BackfillInv, TypeOK
  <2>2. Captures(g)' = Captures(g) \cup {writing} /\ writing \notin Captures(g)
    BY <1>1, <1>2, <2>1 DEF Captures
  <2>3. IsFiniteSet(Captures(g))
    BY HeldCounts
  <2>. QED
    BY <2>2, <2>3, FS_AddElement DEF Held
<1>3. ASSUME NEW g \in Gameweek, g # gw PROVE Held(g)' = Held(g)
  <2>1. dirs'[g] = dirs[g]
    BY <1>1, <1>3 DEF BackfillInv, TypeOK
  <2>. QED
    BY <2>1 DEF Held, Captures
<1>. QED
  BY <1>2, <1>3

CountedInv == BackfillInv /\ CadenceInv

(* Between gameweeks, and between runs, nothing is in hand.                *)
LEMMA LeaveCadence ==
  ASSUME CountedInv, pc \in {"week", "resolve", "rest"}, Leave(gw), UNCHANGED <<disk, counted>>
  PROVE  CadenceInv'
<1>1. gw \in Gameweek /\ LastWeek \in Nat
  BY BackfillConstants DEF CountedInv, BackfillInv, TypeOK
<1>2. \A g \in Gameweek : Held(g)' = Held(g)
  BY DEF disk, Held, Captures
<1>3. /\ pc' \in {"week", "save last", "report"} /\ chosen' = None /\ wanted' = {}
      /\ pc' = "week" => gw' = gw + 1
  BY DEF Leave
<1>4. WithinCadence'
  BY <1>2 DEF CountedInv, CadenceInv, WithinCadence, Held
<1>5. CountInv'
  <2>. SUFFICES ASSUME pc' = "week", NEW g \in Gameweek, g >= gw' PROVE counted[g] = Held(g)
    BY <1>2, <1>3 DEF CountInv
  <2>1. g > gw /\ g >= gw
    BY <1>1, <1>3 DEF Gameweek
  <2>. QED
    BY <2>1 DEF CountedInv, CadenceInv, CountInv
<1>6. RoomInv'
  BY <1>3 DEF RoomInv
<1>. QED
  BY <1>4, <1>5, <1>6 DEF CadenceInv

LEMMA QuietCadence ==
  ASSUME CountedInv, UNCHANGED dirs, chosen' = None, wanted' = {},
         pc' \in {"idle", "report", "save last"}
  PROVE  CadenceInv'
<1>1. \A g \in Gameweek : Held(g)' = Held(g)
  BY DEF Held, Captures
<1>2. WithinCadence'
  BY <1>1 DEF CountedInv, CadenceInv, WithinCadence, Held
<1>. QED
  BY <1>2 DEF CadenceInv, CountInv, RoomInv

(* A run up to its first gameweek.                                         *)
LEMMA OpeningCadence ==
  ASSUME CountedInv,
         Run \/ Index \/ DiscoverDeadlines \/ SaveDeadlines \/ WriteDeadlines \/ SaveLastFails
  PROVE  CadenceInv'
<1>. USE DEF disk, loop
<1>1. UNCHANGED <<dirs, loop>>
  BY DEF Run, Index, DiscoverDeadlines, SaveDeadlines, WriteDeadlines, SaveLastFails
<1>2. \A g \in Gameweek : Held(g)' = Held(g)
  BY <1>1 DEF Held, Captures
<1>3. WithinCadence'
  BY <1>2 DEF CountedInv, CadenceInv, WithinCadence, Held
<1>4. pc' \in {"index", "discover", "save first", "write first", "week", "write last", "report"}
  BY DEF Run, Index, DiscoverDeadlines, SaveDeadlines, WriteDeadlines, SaveLastFails
<1>5. RoomInv'
  BY <1>1, <1>4 DEF CountedInv, CadenceInv, RoomInv
<1>6. CountInv'
  <2>. SUFFICES ASSUME pc' \in {"index", "discover", "save first", "write first", "week"},
                       NEW g \in Gameweek, g >= gw
                PROVE  counted'[g] = Held(g)
    BY <1>1, <1>2, <1>4 DEF CountInv
  <2>1. CASE Run
    BY <2>1 DEF Run, Held
  <2>2. CASE ~Run
    <3>1. /\ counted' = counted
          /\ pc \in {"index", "discover", "save first", "write first"}
      BY <2>2 DEF Index, DiscoverDeadlines, SaveDeadlines, WriteDeadlines, SaveLastFails
    <3>. QED
      BY <3>1 DEF CountedInv, CadenceInv, CountInv
  <2>. QED
    BY <2>1, <2>2
<1>. QED
  BY <1>3, <1>5, <1>6 DEF CadenceInv

(* The search keeps the gameweek's count and its own hands empty.          *)
LEMMA ResolvingCadence ==
  ASSUME CountedInv, Resolving
  PROVE  CadenceInv'
<1>. USE DEF disk
<1>0. gw \in Gameweek /\ gw >= gw /\ \A g \in Gameweek : g > gw => g >= gw
  <2>1. gw \in Gameweek
    BY DEF CountedInv, BackfillInv, TypeOK
  <2>. QED
    BY <2>1 DEF Gameweek
<1>1. CASE SkipWeek
  BY <1>1, LeaveCadence DEF SkipWeek
<1>2. CASE Chosen /\ chosen = None
  BY <1>2, LeaveCadence DEF Chosen
<1>3. CASE ~SkipWeek /\ ~(Chosen /\ chosen = None)
  <2>1. UNCHANGED <<dirs, counted, gw>>
    BY <1>3 DEF Resolving, StartWeek, FetchFails, Refused, Verified, Chosen
  <2>2. \A g \in Gameweek : Held(g)' = Held(g)
    BY <2>1 DEF Held, Captures
  <2>3. WithinCadence'
    BY <2>2 DEF CountedInv, CadenceInv, WithinCadence, Held
  <2>4. /\ pc \in {"week", "resolve"} /\ counted[gw] < Cadence /\ wanted' = {}
        /\ pc' \in {"resolve", "store"}
        /\ pc' = "store" => writing' = chosen'
    BY <1>3 DEF Resolving, StartWeek, FetchFails, Refused, Verified, Chosen, CountedInv,
         CadenceInv, RoomInv
  <2>5. \A g \in Gameweek : g >= gw => counted[g] = Held(g)
    BY <2>4 DEF CountedInv, CadenceInv, CountInv
  <2>6. CountInv'
    BY <1>0, <2>1, <2>2, <2>4, <2>5 DEF CountInv
  <2>7. RoomInv'
    <3>1. Held(gw)' = counted[gw]
      <4>1. Held(gw) = counted[gw]
        BY <1>0, <2>5
      <4>. QED
        BY <2>1, <4>1 DEF Held, Captures
    <3>2. chosen' \notin wanted'
      BY <2>4
    <3>. QED
      BY <2>1, <2>4, <3>1, <3>2 DEF RoomInv
  <2>. QED
    BY <2>3, <2>6, <2>7 DEF CadenceInv
<1>. QED
  BY <1>1, <1>2, <1>3

(* One crawl is dealt with, filed or not: what is then wanted still fits.  *)
LEMMA StoredCadence ==
  ASSUME CountedInv, pc \in {"store", "payload", "manifest"}, NEW n \in {0, 1}, Stored(n),
         \A g \in Gameweek : Held(g)' = IF g = gw THEN Held(g) + n ELSE Held(g)
  PROVE  CadenceInv'
<1>1. /\ pc' = "rest" /\ UNCHANGED <<world, counted, gw, chosen>>
      /\ IF writing = chosen
         THEN wanted' = IF Want(n) > 0 THEN SelectWindow(PreviousDeadline, chosen, Want(n)) ELSE {}
         ELSE wanted' = wanted
  BY DEF Stored
<1>2. /\ gw \in Gameweek /\ gw \in Int /\ counted[gw] \in Nat /\ Held(gw) \in Nat
      /\ Cadence \in Nat /\ world \in World /\ wanted \in SUBSET Time
  <2>1. gw \in Gameweek /\ counted[gw] \in Nat /\ world \in World /\ wanted \subseteq world.crawls
    BY DEF CountedInv, BackfillInv, TypeOK
  <2>2. wanted \in SUBSET Time
    BY <2>1, WorldFacts
  <2>3. gw \in Int /\ Held(gw) \in Nat /\ Cadence \in Nat
    BY <2>1, HeldCounts, BackfillConstants DEF Gameweek
  <2>. QED
    BY <2>1, <2>2, <2>3
<1>3. IF writing = chosen THEN Held(gw) = counted[gw] /\ counted[gw] < Cadence
      ELSE Held(gw) + Cardinality(wanted) < Cadence
  BY DEF CountedInv, CadenceInv, RoomInv
<1>4. Held(gw) + n + Cardinality(wanted') <= Cadence
  <2>1. CASE writing # chosen
    <3>1. Cardinality(wanted) \in Nat
      BY <1>2, InstantsCount
    <3>. QED
      BY <1>1, <1>2, <1>3, <2>1, <3>1
  <2>2. CASE writing = chosen /\ Want(n) > 0
    <3>1. Want(n) \in Nat /\ Held(gw) + n + Want(n) = Cadence
      BY <1>2, <1>3, <2>2 DEF Want
    <3>2. Cardinality(wanted') <= Want(n)
      BY <1>1, <1>2, <2>2, <3>1, WindowFits
    <3>3. wanted' \in SUBSET Time
      BY <1>1, <1>2, <2>2, WorldFacts DEF SelectWindow
    <3>4. Cardinality(wanted') \in Nat
      BY <3>3, InstantsCount
    <3>. QED
      BY <1>2, <3>1, <3>2, <3>4
  <2>3. CASE writing = chosen /\ ~(Want(n) > 0)
    <3>1. wanted' = {} /\ Cardinality({}) = 0
      BY <1>1, <2>3, FS_EmptySet
    <3>. QED
      BY <1>2, <1>3, <2>3, <3>1
  <2>. QED
    BY <2>1, <2>2, <2>3
<1>5. Cardinality(wanted') \in Nat
  <2>1. wanted' \in SUBSET Time
    BY <1>1, <1>2, WorldFacts DEF SelectWindow
  <2>. QED
    BY <2>1, InstantsCount
<1>6. Held(gw)' = Held(gw) + n
  <2>1. \A g \in Gameweek : g = gw' => Held(gw)' = Held(g)'
    BY DEF Held, Captures
  <2>. QED
    BY <1>1, <1>2, <2>1
<1>7. WithinCadence'
  <2>. SUFFICES ASSUME NEW g \in Gameweek PROVE Held(g)' <= Cadence
    BY DEF WithinCadence, Held
  <2>1. CASE g = gw
    BY <1>2, <1>4, <1>5, <2>1
  <2>2. CASE g # gw
    BY <2>2 DEF CountedInv, CadenceInv, WithinCadence, Held
  <2>. QED
    BY <2>1, <2>2
<1>8. chosen' \notin wanted'
  <2>1. CASE writing # chosen
    BY <1>1, <2>1 DEF CountedInv, CadenceInv, RoomInv
  <2>2. CASE writing = chosen /\ chosen \in wanted'
    <3>1. chosen \in Time /\ chosen < chosen
      BY <1>1, <1>2, <2>2, WorldFacts DEF SelectWindow
    <3>. QED
      BY <3>1 DEF Time
  <2>. QED
    BY <1>1, <2>1, <2>2
<1>9. CountInv'
  <2>. SUFFICES ASSUME NEW g \in Gameweek, g > gw PROVE counted[g] = Held(g)'
    BY <1>1 DEF CountInv
  <2>1. g # gw
    BY <1>2 DEF Gameweek
  <2>. QED
    BY <2>1 DEF CountedInv, CadenceInv, CountInv
<1>10. RoomInv'
  BY <1>1, <1>4, <1>6, <1>8 DEF RoomInv
<1>. QED
  BY <1>7, <1>9, <1>10 DEF CadenceInv

LEMMA StoringCadence ==
  ASSUME CountedInv, Storing
  PROVE  CadenceInv'
<1>. USE DEF disk, loop
<1>0. /\ gw \in Gameweek /\ Held(gw) \in Nat
      /\ pc \in {"store", "payload", "manifest"} => writing # None
  BY HeldCounts DEF CountedInv, BackfillInv, TypeOK, PhaseInv
<1>1. CASE NotStored \/ MakeDirFails \/ WriteFails
  <2>1. pc \in {"store", "payload", "manifest"} /\ Stored(0) /\ UNCHANGED dirs
    BY <1>1 DEF NotStored, MakeDirFails, WriteFails
  <2>2. \A g \in Gameweek : Held(g) \in Nat /\ Held(g)' = Held(g)
    BY <2>1, HeldCounts DEF Held, Captures
  <2>3. \A g \in Gameweek : Held(g)' = IF g = gw THEN Held(g) + 0 ELSE Held(g)
    BY <2>2
  <2>. QED
    BY <2>1, <2>3, StoredCadence
<1>2. CASE WriteManifest
  <2>1. pc = "manifest" /\ Stored(1) /\ dirs' = [dirs EXCEPT ![gw][writing] = "done"]
    BY <1>2 DEF WriteManifest
  <2>2. \A g \in Gameweek : Held(g)' = IF g = gw THEN Held(g) + 1 ELSE Held(g)
    BY <2>1, OneFiled DEF CountedInv
  <2>. QED
    BY <2>1, <2>2, StoredCadence
<1>3. CASE MakeDir \/ WritePayload
  <2>1. /\ pc \in {"store", "payload"} /\ pc' \in {"payload", "manifest"}
        /\ UNCHANGED <<world, saved, dl, counted, loop, dirty, report>>
    BY <1>3 DEF MakeDir, WritePayload
  <2>2. /\ dirs[gw][writing] # "done"
        /\ \E v \in {"bare", "torn"} : dirs' = [dirs EXCEPT ![gw][writing] = v]
    BY <1>3 DEF MakeDir, WritePayload, CountedInv, BackfillInv, PhaseInv
  <2>3. \A g \in Gameweek : Held(g)' = Held(g)
    BY <1>0, <2>1, <2>2, NothingFiled DEF CountedInv
  <2>4. Held(gw)' = Held(gw)
    <3>1. \A g \in Gameweek : g = gw' => Held(gw)' = Held(g)'
      BY DEF Held, Captures
    <3>. QED
      BY <1>0, <2>1, <2>3, <3>1
  <2>5. WithinCadence'
    BY <2>3 DEF CountedInv, CadenceInv, WithinCadence, Held
  <2>6. CountInv'
    BY <2>1, <2>3 DEF CountedInv, CadenceInv, CountInv
  <2>7. RoomInv'
    BY <2>1, <2>4 DEF CountedInv, CadenceInv, RoomInv
  <2>. QED
    BY <2>5, <2>6, <2>7 DEF CadenceInv
<1>4. CASE FetchNext
  <2>1. /\ pc = "rest" /\ wanted # {} /\ wanted' = wanted \ {Max(wanted)}
        /\ \/ pc' = "store" /\ writing' = Max(wanted)
           \/ pc' = "rest"
        /\ UNCHANGED <<dirs, counted, gw, chosen>>
    BY <1>4 DEF FetchNext
  <2>2. wanted \in SUBSET Time
    <3>1. wanted \subseteq world.crawls /\ world \in World
      BY DEF CountedInv, BackfillInv, TypeOK
    <3>. QED
      BY <3>1, WorldFacts
  <2>3. Max(wanted) \in wanted
    BY <2>1, <2>2, MaxIsIn
  <2>4. Cardinality(wanted') = Cardinality(wanted) - 1 /\ Cardinality(wanted) \in Nat
    BY <2>1, <2>2, <2>3, InstantsCount, FS_RemoveElement
  <2>5. \A g \in Gameweek : Held(g)' = Held(g)
    BY <2>1 DEF Held, Captures
  <2>6. Held(gw)' = Held(gw)
    BY <2>1 DEF Held, Captures
  <2>7. WithinCadence'
    BY <2>5 DEF CountedInv, CadenceInv, WithinCadence, Held
  <2>8. CountInv'
    BY <2>1, <2>5 DEF CountedInv, CadenceInv, CountInv
  <2>9. Held(gw) + Cardinality(wanted) <= Cadence /\ chosen \notin wanted /\ Cadence \in Nat
    BY <2>1, BackfillConstants DEF CountedInv, CadenceInv, RoomInv
  <2>10. chosen' \notin wanted' /\ Max(wanted) # chosen'
    BY <2>1, <2>3, <2>9
  <2>11. Held(gw) + Cardinality(wanted') < Cadence
    BY <1>0, <2>4, <2>9
  <2>12. RoomInv'
    BY <1>0, <2>1, <2>4, <2>6, <2>9, <2>10, <2>11 DEF RoomInv
  <2>. QED
    BY <2>7, <2>8, <2>12 DEF CadenceInv
<1>5. CASE EndWeek
  BY <1>5, LeaveCadence DEF EndWeek
<1>. QED
  BY <1>1, <1>2, <1>3, <1>4, <1>5 DEF Storing

LEMMA CadenceStep == CountedInv /\ [Next]_vars => CadenceInv'
<1>. SUFFICES ASSUME CountedInv, [Next]_vars PROVE CadenceInv'
  OBVIOUS
<1>1. CASE Resolving
  BY <1>1, ResolvingCadence
<1>2. CASE Storing
  BY <1>2, StoringCadence
<1>3. CASE Run \/ Index \/ DiscoverDeadlines \/ SaveDeadlines \/ WriteDeadlines
           \/ SaveLastFails
  BY <1>3, OpeningCadence
<1>4. CASE Finish \/ Kill
  BY <1>4, QuietCadence DEF Finish, Kill, End, Idle, disk
<1>5. CASE UNCHANGED vars
  <2>1. UNCHANGED <<dirs, pc, gw, counted, chosen, writing, wanted>>
    BY <1>5 DEF vars
  <2>. QED
    BY <2>1 DEF CountedInv, CadenceInv, WithinCadence, CountInv, RoomInv, Held, Captures
<1>. QED
  BY <1>1, <1>2, <1>3, <1>4, <1>5 DEF Next

LEMMA CadenceStart == Init => CadenceInv
<1>. SUFFICES ASSUME Init PROVE CadenceInv
  OBVIOUS
<1>1. ASSUME NEW g \in Gameweek PROVE Cardinality(Captures(g)) = 0
  <2>1. Captures(g) = {}
    BY DEF Init, Captures
  <2>. QED
    BY <2>1, FS_EmptySet
<1>2. WithinCadence
  BY <1>1, BackfillConstants DEF WithinCadence
<1>. QED
  BY <1>2 DEF Init, CadenceInv, CountInv, RoomInv

LEMMA CountedHolds == Spec => []CountedInv
<1>1. Init => CountedInv
  BY InitInv, CadenceStart DEF CountedInv
<1>2. CountedInv /\ [Next]_vars => CountedInv'
  BY StepInv, CadenceStep DEF CountedInv
<1>. QED
  BY <1>1, <1>2, PTL DEF Spec

(* No gameweek ever holds more crawls than the cadence asks for, however   *)
(* runs were cut short and whichever fetches failed (Run, resolve and the  *)
(* window behind the crawl it chose).                                      *)
THEOREM NeverBeyondCadence == Spec => []WithinCadence
<1>1. CountedInv => WithinCadence
  BY DEF CountedInv, CadenceInv
<1>. QED
  BY <1>1, CountedHolds, PTL

-----------------------------------------------------------------------------
(* The table.  What it counted is filed still, as captures stay.           *)
LEMMA MoreHeld ==
  ASSUME \A g \in Gameweek : Captures(g) \subseteq Captures(g)'
  PROVE  \A g \in Gameweek : Held(g) <= Held(g)' /\ Held(g) \in Nat /\ Held(g)' \in Nat
<1>. TAKE g \in Gameweek
<1>1. Captures(g)' \in SUBSET Time /\ Captures(g) \in SUBSET Time
  BY DEF Captures
<1>2. IsFiniteSet(Captures(g)') /\ Captures(g) \subseteq Captures(g)'
  BY <1>1, InstantsCount
<1>3. Cardinality(Captures(g)) <= Cardinality(Captures(g)')
  BY <1>2, FS_Subset
<1>. QED
  BY <1>1, <1>3, InstantsCount DEF Held

LEMMA ReportStep ==
  ASSUME BackfillInv, ReportInv, [Next]_vars
  PROVE  ReportInv'
<1>1. \A g \in Gameweek : Held(g) <= Held(g)' /\ Held(g) \in Nat /\ Held(g)' \in Nat
  BY NothingUnfiled, MoreHeld
<1>2. CASE UNCHANGED report
  BY <1>1, <1>2 DEF ReportInv
<1>3. CASE Finish /\ Openable
  <2>1. ASSUME NEW g \in Gameweek PROVE report'[g] = Held(g)
    BY <1>3, <2>1 DEF Finish, Held
  <2>. QED
    BY <1>1, <2>1 DEF ReportInv
<1>4. UNCHANGED report \/ (Finish /\ Openable)
  BY DEF Next, vars, Run, Index, DiscoverDeadlines, SaveDeadlines,
     WriteDeadlines, SaveLastFails, Resolving, SkipWeek, StartWeek, FetchFails, Refused,
     Verified, Chosen, Storing, NotStored, MakeDir, MakeDirFails, WriteFails, WritePayload,
     WriteManifest, Stored, FetchNext, EndWeek, Finish, Kill, End
<1>. QED
  BY <1>2, <1>3, <1>4

LEMMA ReportHolds == Spec => []ReportInv
<1>1. Init => ReportInv
  BY BackfillConstants DEF Init, ReportInv
<1>. QED
  BY <1>1, ReportStep, Inductive, PTL DEF Spec

(* A season whose table says it is complete is not asked for again: Run    *)
(* goes from the store straight to its table.                              *)
THEOREM CompleteIsSilent == Spec => SilentWhenComplete
<1>1. ASSUME BackfillInv, ReportInv, [Next]_vars
      PROVE  [pc = "idle" /\ saved \in Calendar
              /\ (\A g \in Gameweek : report[g] \in Nat /\ report[g] >= Cadence)
                => pc' \in {"idle", "report"}]_vars
  <2>. SUFFICES ASSUME pc = "idle", saved \in Calendar,
                       \A g \in Gameweek : report[g] \in Nat /\ report[g] >= Cadence
                PROVE  pc' \in {"idle", "report"}
    OBVIOUS
  <2>1. \A g \in Gameweek : Held(g) >= Cadence
    <3>. TAKE g \in Gameweek
    <3>1. report[g] <= Held(g) /\ Held(g) \in Nat /\ Cadence \in Nat
      BY <1>1, HeldCounts, BackfillConstants DEF ReportInv
    <3>. QED
      BY <3>1
  <2>2. CASE Run
    <3>1. dl' = saved /\ dl' # None
      BY <2>2, BackfillConstants DEF Run
    <3>2. Complete(counted')
      BY <2>1, <2>2 DEF Run, Complete, Held
    <3>. QED
      BY <2>2, <3>1, <3>2 DEF Run
  <2>3. CASE ~Run
    <3>1. pc' = pc
      BY <1>1, <2>3 DEF Next, vars, Index, DiscoverDeadlines, SaveDeadlines,
         WriteDeadlines, SaveLastFails, Resolving, SkipWeek, StartWeek, FetchFails, Refused,
         Verified, Chosen, Storing, NotStored, MakeDir, MakeDirFails, WriteFails, WritePayload,
         WriteManifest, Stored, FetchNext, EndWeek, Finish, Kill, End
    <3>. QED
      BY <3>1
  <2>. QED
    BY <2>2, <2>3
<1>. QED
  BY <1>1, Inductive, ReportHolds, PTL DEF Spec, SilentWhenComplete
=============================================================================

------------------------------ MODULE Backfill ------------------------------
(***************************************************************************)
(* The backfill of one finished season (internal/backfill/run.go) into the *)
(* capture store (internal/capture): which crawl of the Internet Archive   *)
(* is filed as evidence for which gameweek, when FPL's own calendar moved  *)
(* within the season, fetches fail, writes fail and the run is killed and  *)
(* started again.                                                          *)
(*                                                                         *)
(* Times are instants of the season.  A crawl is known by its instant, and *)
(* a stored capture by its gameweek and crawl, as its directory is.  The   *)
(* minute that directory names are rounded to is left out.                 *)
(***************************************************************************)
EXTENDS Integers, FiniteSets, FiniteSetsExt

CONSTANTS LastWeek,  \* gameweeks are 1..LastWeek (the code's 38)
          LastTime,  \* bound on the instants
          World,     \* seasons: see Season
          Cadence,   \* Options.PerGameweek
          attempts,  \* crawls resolve asks for before it gives up
          None, Torn

Gameweek == 1..LastWeek
Time     == 0..LastTime

(* A season: the deadline first published for each gameweek, the true one, *)
(* the instant FPL published the change, the ceiling the season archive    *)
(* gives (ninety minutes before the first kickoff: the true deadline, or   *)
(* None where it records no match), and the crawls the Archive holds.      *)
Season == [first : [Gameweek -> Time], final : [Gameweek -> Time], from : [Gameweek -> Time],
           hardBound : [Gameweek -> Time \cup {None}], crawls : SUBSET Time]

(* deadlines.json: a deadline per gameweek, and whether it was read inside *)
(* the gameweek's own run-up.                                              *)
Calendar == [by : [Gameweek -> Time], confirmed : [Gameweek -> BOOLEAN]]

(* FPL may be late to correct a deadline that moved, but only where the    *)
(* season archive knows the match; otherwise a payload served after the    *)
(* deadline shows the deadline that was.                                   *)
Honest(w) ==
  \A g \in Gameweek :
    \/ w.hardBound[g] = w.final[g]
    \/ w.hardBound[g] = None /\ w.from[g] <= w.final[g]

ASSUME BackfillConstants ==
  /\ LastWeek \in Nat \ {0} /\ LastTime \in Nat /\ Cadence \in Nat \ {0} /\ attempts \in Nat
  /\ World \subseteq {w \in Season : Honest(w)}
  /\ None \notin Int \cup Calendar /\ Torn \notin Int \cup Calendar

VARIABLES world,
          dirs,     \* per gameweek and crawl: no directory, one without a manifest
                    \* ("bare"), with half of one ("torn"), or a capture ("done")
          saved,    \* deadlines.json: a calendar, None or Torn
          pc,       \* where the run is, "idle" between runs
          dl,       \* the run's calendar, or None
          counted,  \* the captures per gameweek the run found when it opened the store
          gw, bound, chosen, tries, \* resolve: the gameweek, its bound, the crawl, the loop
          wanted,   \* resolve: crawls still to fetch for a denser cadence
          writing,  \* the crawl being written, or None
          dirty,    \* whether a deadline was confirmed since the calendar was saved
          report    \* per gameweek: the capture count of the last run's table, or None

disk == <<dirs, saved>>
loop == <<gw, bound, chosen, tries, wanted, writing>>
vars == <<world, dirs, saved, pc, dl, counted, gw, bound, chosen, tries, wanted, writing,
          dirty, report>>

-----------------------------------------------------------------------------
(* What a crawl's own payload says.                                        *)

Deadline(g, s) == IF s < world.from[g] THEN world.first[g] ELSE world.final[g]

IsNext(g, s) ==
  /\ s < Deadline(g, s)
  /\ \A h \in Gameweek : h < g => Deadline(h, s) <= s

(* VerifyPreDeadline.  Finished is left out: a gameweek is finished only   *)
(* after its deadline, and the bound is what the first test checks.        *)
VerifyPreDeadline(g, s) ==
  s < Deadline(g, s) /\ ~\E h \in Gameweek : h > g /\ IsNext(h, s)

Before(b) == {s \in world.crawls : s < b}

(* Faulty: the zero snapshot where nothing qualifies.                      *)
SelectOrZero(b) == IF Before(b) = {} THEN 0 ELSE Max(Before(b))

SelectPreDeadline(b) == IF Before(b) = {} THEN None ELSE Max(Before(b))

(* The n latest crawls between two instants.                               *)
SelectWindow(after, before, n) ==
  LET in == {s \in world.crawls : after < s /\ s < before}
  IN  {s \in in : Cardinality({r \in in : r > s}) < n}

Captures(g) == {s \in Time : dirs[g][s] = "done"}

-----------------------------------------------------------------------------
Idle ==
  /\ pc' = "idle" /\ dl' = None
  /\ gw' = 1 /\ bound' = 0 /\ chosen' = None /\ tries' = 0 /\ wanted' = {}
  /\ writing' = None /\ dirty' = FALSE
  /\ counted' = [g \in Gameweek |-> 0]

Init ==
  /\ world \in World
  /\ dirs = [g \in Gameweek |-> [s \in Time |-> "none"]]
  /\ saved = None
  /\ pc = "idle" /\ dl = None
  /\ gw = 1 /\ bound = 0 /\ chosen = None /\ tries = 0 /\ wanted = {}
  /\ writing = None /\ dirty = FALSE
  /\ counted = [g \in Gameweek |-> 0]
  /\ report = [g \in Gameweek |-> None]

(* The run returns with an error, or is killed between any two steps.      *)
End  == Idle /\ UNCHANGED <<world, disk, report>>
Kill == pc # "idle" /\ End

(* capture.Open fails on a manifest that does not parse, and passes over a *)
(* directory that has none.                                                *)
Openable == \A g \in Gameweek, s \in Time : dirs[g][s] # "torn"

(* Faulty: a season is only complete past its cadence.                     *)
PastCadence(c) == \A g \in Gameweek : c[g] > Cadence

Complete(c) == \A g \in Gameweek : c[g] >= Cadence

(* Run opens the store and the cached calendar.  A complete season goes    *)
(* straight to its table.                                                  *)
Run ==
  /\ pc = "idle" /\ Openable
  /\ dl' = IF saved = Torn THEN None ELSE saved
  /\ counted' = [g \in Gameweek |-> Cardinality(Captures(g))]
  /\ pc' = IF dl' # None /\ Complete(counted') THEN "report" ELSE "index"
  /\ UNCHANGED <<world, disk, loop, dirty, report>>

(* The Archive's index; empty or failing, it ends the run.                 *)
Index ==
  /\ pc = "index" /\ world.crawls # {}
  /\ pc' = IF dl = None THEN "discover" ELSE "week"
  /\ UNCHANGED <<world, disk, dl, counted, loop, dirty, report>>

(* Pass one reads every deadline out of one crawl that the cross-check     *)
(* against the season archive let through.                                 *)
DiscoverDeadlines ==
  /\ pc = "discover"
  /\ \E s \in world.crawls :
       dl' = [by |-> [g \in Gameweek |-> Deadline(g, s)],
              confirmed |-> [g \in Gameweek |-> FALSE]]
  /\ pc' = "save first"
  /\ UNCHANGED <<world, disk, counted, loop, dirty, report>>

(* SaveDeadlines truncates deadlines.json and then writes it.              *)
SaveDeadlines ==
  /\ \/ pc = "save first" /\ pc' = "write first"
     \/ pc = "save last" /\ pc' = "write last"
  /\ saved' = Torn
  /\ UNCHANGED <<world, dirs, dl, counted, loop, dirty, report>>

WriteDeadlines ==
  /\ \/ pc = "write first" /\ pc' = "week"
     \/ pc = "write last" /\ pc' = "report"
  /\ saved' = dl
  /\ UNCHANGED <<world, dirs, dl, counted, loop, dirty, report>>

(* A last save that fails is logged, and the table is printed all the same.*)
SaveLastFails ==
  /\ pc \in {"save last", "write last"}
  /\ pc' = "report"
  /\ UNCHANGED <<world, disk, dl, counted, loop, dirty, report>>

-----------------------------------------------------------------------------
(* resolve: the crawl for one gameweek, and its true deadline on the way.  *)

Ceiling(g) == world.hardBound[g]

Earlier(a, b) == IF a # None /\ a < b THEN a ELSE b

Leave(g) ==
  /\ pc' = IF g < LastWeek THEN "week" ELSE IF dirty' THEN "save last" ELSE "report"
  /\ gw' = IF g < LastWeek THEN g + 1 ELSE 1
  /\ bound' = 0 /\ chosen' = None /\ tries' = 0 /\ wanted' = {}

(* The gameweek is behind: a deadline read anew is marked confirmed.       *)
Confirm(g) ==
  LET fresh == chosen # None /\ ~dl.confirmed[g]
  IN  /\ dl' = IF fresh THEN [dl EXCEPT !.confirmed[g] = TRUE] ELSE dl
      /\ dirty' = (dirty \/ fresh)

SkipWeek ==
  /\ pc = "week" /\ counted[gw] >= Cadence
  /\ UNCHANGED dirty
  /\ Leave(gw)
  /\ UNCHANGED <<world, disk, dl, counted, writing, report>>

StartWeek ==
  /\ pc = "week" /\ counted[gw] < Cadence
  /\ pc' = "resolve"
  /\ bound' = Earlier(Ceiling(gw), dl.by[gw])
  /\ chosen' = None /\ tries' = 0 /\ wanted' = {}
  /\ UNCHANGED <<world, disk, dl, counted, gw, writing, dirty, report>>

(* The crawl the loop asks for next: None when it has nothing to gain.     *)
Candidate ==
  LET s == SelectPreDeadline(bound)
  IN  IF tries = attempts \/ s = None THEN None
      ELSE IF chosen # None /\ s <= chosen THEN None ELSE s

FetchFails ==
  /\ pc = "resolve" /\ Candidate # None
  /\ bound' = Candidate /\ tries' = tries + 1
  /\ UNCHANGED <<world, disk, pc, dl, counted, gw, chosen, wanted, writing, dirty, report>>

(* The payload says its crawl is too late: step back, to the deadline it   *)
(* reports if that is earlier.                                             *)
Refused ==
  /\ pc = "resolve" /\ Candidate # None /\ ~VerifyPreDeadline(gw, Candidate)
  /\ bound' = IF Deadline(gw, Candidate) < bound THEN Deadline(gw, Candidate) ELSE Candidate
  /\ tries' = tries + 1
  /\ UNCHANGED <<world, disk, pc, dl, counted, gw, chosen, wanted, writing, dirty, report>>

(* Faulty: the season archive is a starting point and not a ceiling.       *)
WidenAnyway(g, d) == d > bound

(* A later deadline widens the search only when it is below the ceiling.   *)
Widens(g, d) == d > bound /\ (Ceiling(g) = None \/ d < Ceiling(g))

Verified ==
  /\ pc = "resolve" /\ Candidate # None /\ VerifyPreDeadline(gw, Candidate)
  /\ chosen' = Candidate
  /\ dl' = [dl EXCEPT !.by[gw] = Deadline(gw, Candidate)]
  /\ IF Widens(gw, Deadline(gw, Candidate))
     THEN /\ bound' = Deadline(gw, Candidate) /\ tries' = tries + 1
          /\ UNCHANGED <<pc, writing>>
     ELSE /\ pc' = "store" /\ writing' = Candidate
          /\ UNCHANGED <<bound, tries>>
  /\ UNCHANGED <<world, disk, counted, gw, wanted, dirty, report>>

(* The loop is over, with a crawl or with none.                            *)
Chosen ==
  /\ pc = "resolve" /\ Candidate = None
  /\ IF chosen = None
     THEN UNCHANGED <<dl, dirty, writing>> /\ Leave(gw)
     ELSE /\ pc' = "store" /\ writing' = chosen
          /\ UNCHANGED <<dl, dirty, gw, bound, chosen, tries, wanted>>
  /\ UNCHANGED <<world, disk, counted, report>>

-----------------------------------------------------------------------------
(* store: Backfilled.Write makes the directory, the payload and, last, the *)
(* manifest.  It never writes into a directory that is there.              *)

(* Faulty: the crawls of the denser cadence ignore the one just stored.    *)
WantAll(stored) == Cadence - counted[gw]

Want(stored) == Cadence - counted[gw] - stored

PreviousDeadline == IF gw > 1 THEN dl.by[gw - 1] ELSE -1

(* One crawl is dealt with: go on to the rest of the run-up behind it.     *)
Stored(n) ==
  /\ writing' = None
  /\ IF writing = chosen
     THEN wanted' = IF Want(n) > 0 THEN SelectWindow(PreviousDeadline, chosen, Want(n)) ELSE {}
     ELSE UNCHANGED wanted
  /\ pc' = "rest"
  /\ UNCHANGED <<world, saved, dl, counted, gw, bound, chosen, tries, dirty, report>>

(* The crawl is filed already, its directory is there without a manifest,  *)
(* or its payload is refused.                                              *)
NotStored ==
  /\ pc = "store"
  /\ dirs[gw][writing] # "none" \/ ~VerifyPreDeadline(gw, writing)
  /\ Stored(0) /\ UNCHANGED dirs

MakeDirFails == pc = "store" /\ Stored(0) /\ UNCHANGED dirs

(* Faulty: a directory that is there is written into.                      *)
Overwrite ==
  /\ pc = "store" /\ VerifyPreDeadline(gw, writing)
  /\ dirs' = [dirs EXCEPT ![gw][writing] = "bare"]
  /\ pc' = "payload"
  /\ UNCHANGED <<world, saved, dl, counted, loop, dirty, report>>

MakeDir ==
  /\ pc = "store"
  /\ dirs[gw][writing] = "none" /\ VerifyPreDeadline(gw, writing)
  /\ dirs' = [dirs EXCEPT ![gw][writing] = "bare"]
  /\ pc' = "payload"
  /\ UNCHANGED <<world, saved, dl, counted, loop, dirty, report>>

(* The payload or the manifest cannot be written: what is there stays.     *)
WriteFails == pc \in {"payload", "manifest"} /\ Stored(0) /\ UNCHANGED dirs

WritePayload ==
  /\ pc = "payload"
  /\ dirs' = [dirs EXCEPT ![gw][writing] = "torn"]
  /\ pc' = "manifest"
  /\ UNCHANGED <<world, saved, dl, counted, loop, dirty, report>>

WriteManifest ==
  /\ pc = "manifest"
  /\ dirs' = [dirs EXCEPT ![gw][writing] = "done"]
  /\ Stored(1)

(* The next crawl of a denser cadence, or the end of the gameweek.         *)
FetchNext ==
  /\ pc = "rest" /\ wanted # {}
  /\ wanted' = wanted \ {Max(wanted)}
  /\ \/ pc' = "store" /\ writing' = Max(wanted)
     \/ UNCHANGED <<pc, writing>>
  /\ UNCHANGED <<world, disk, dl, counted, gw, bound, chosen, tries, dirty, report>>

EndWeek ==
  /\ pc = "rest" /\ wanted = {}
  /\ Confirm(gw)
  /\ Leave(gw)
  /\ UNCHANGED <<world, disk, counted, writing, report>>

-----------------------------------------------------------------------------
(* finish: the table describes the store, and not what this run did.       *)
Finish ==
  /\ pc = "report"
  /\ report' = IF Openable THEN [g \in Gameweek |-> Cardinality(Captures(g))] ELSE report
  /\ Idle
  /\ UNCHANGED <<world, disk>>

Resolving == SkipWeek \/ StartWeek \/ FetchFails \/ Refused \/ Verified \/ Chosen
Storing   == NotStored \/ MakeDir \/ MakeDirFails \/ WriteFails \/ WritePayload \/ WriteManifest
             \/ FetchNext \/ EndWeek

Next ==
  \/ Run \/ Index \/ DiscoverDeadlines \/ SaveDeadlines \/ WriteDeadlines \/ SaveLastFails
  \/ Resolving \/ Storing \/ Finish \/ Kill

Spec == Init /\ [][Next]_vars

-----------------------------------------------------------------------------
TypeOK ==
  /\ world \in World
  /\ dirs \in [Gameweek -> [Time -> {"none", "bare", "torn", "done"}]]
  /\ saved \in Calendar \cup {None, Torn}
  /\ pc \in {"idle", "index", "discover", "save first", "write first", "week", "resolve",
             "store", "payload", "manifest", "rest", "save last", "write last", "report"}
  /\ dl \in Calendar \cup {None}
  /\ counted \in [Gameweek -> Nat]
  /\ gw \in Gameweek /\ bound \in Time /\ tries \in 0..attempts
  /\ chosen \in world.crawls \cup {None} /\ writing \in world.crawls \cup {None}
  /\ wanted \subseteq world.crawls
  /\ dirty \in BOOLEAN
  /\ report \in [Gameweek -> Nat \cup {None}]

(* The one rule that must not be got wrong: no capture is ever filed that  *)
(* was crawled at or after the true deadline of its gameweek, although the *)
(* calendar the run starts from may be late by days, FPL's own correction  *)
(* may come after the deadline, and a run may be killed anywhere.  About   *)
(* the strict selection, the payload's own check and the ceiling.          *)
NoHindsight == \A g \in Gameweek : \A s \in Captures(g) : s < world.final[g]

(* A capture is evidence about a moment: once filed it is never rewritten  *)
(* or removed, by this run or a later one.                                 *)
Immutable == [][\A g \in Gameweek : Captures(g) \subseteq Captures(g)']_vars

(* However often runs are killed and repeated with other fetches failing,  *)
(* a gameweek never holds more crawls than the cadence asks for.           *)
WithinCadence == \A g \in Gameweek : Cardinality(Captures(g)) <= Cadence

(* A season reported complete costs nothing to run again: the next run,    *)
(* which reads the calendar from disk, makes no request.                   *)
SilentWhenComplete ==
  [][pc = "idle" /\ saved \in Calendar /\ (\A g \in Gameweek : report[g] \in Nat /\ report[g] >= Cadence)
     => pc' \in {"idle", "report"}]_vars

(* resolve's comment, internal/backfill/run.go: "if it says we could have  *)
(* gone later, widen and try again".  A crawl that is settled on leaves no *)
(* later one before the deadline its own payload reports.                  *)
LatestIsTaken ==
  pc = "store" /\ writing = chosen /\ tries < attempts =>
    ~\E s \in world.crawls : chosen < s /\ s < dl.by[gw]

(* The row for a gameweek without captures, internal/backfill/run.go: "no  *)
(* crawl of bootstrap-static before this deadline is held by the Internet  *)
(* Archive".                                                               *)
GapIsReal ==
  \A g \in Gameweek : report[g] = 0 => ~\E s \in world.crawls : s < world.final[g]

-----------------------------------------------------------------------------
(* What makes NoHindsight inductive: the search never looks past the       *)
(* ceiling, and nothing it settled on is past the true deadline.           *)
Early(g, s) == s < world.final[g]

BoundInv == pc = "resolve" /\ Ceiling(gw) # None => bound <= Ceiling(gw)

HandInv ==
  /\ chosen # None => Early(gw, chosen)
  /\ writing # None => Early(gw, writing)
  /\ \A s \in wanted : Early(gw, s)

StoreInv == \A g \in Gameweek, s \in Time : dirs[g][s] # "none" => Early(g, s)

PhaseInv ==
  /\ pc \in {"store", "payload", "manifest"} <=> writing # None
  /\ pc \in {"store", "payload", "manifest", "rest"} => chosen # None
  /\ pc \in {"payload", "manifest"} => dirs[gw][writing] # "done"
  /\ pc \notin {"idle", "index", "discover", "report"} => dl # None

(* What makes WithinCadence inductive: the counts a run took when it       *)
(* opened the store are right for every gameweek it has yet to come to,    *)
(* and in the one at hand what is filed, in hand and wanted fits.          *)
Held(g) == Cardinality(Captures(g))

CountInv ==
  /\ pc \in {"index", "discover", "save first", "write first", "week", "resolve"} =>
       \A g \in Gameweek : g >= gw => counted[g] = Held(g)
  /\ pc \in {"store", "payload", "manifest", "rest"} =>
       \A g \in Gameweek : g > gw => counted[g] = Held(g)

RoomInv ==
  /\ pc = "resolve" => counted[gw] < Cadence /\ wanted = {}
  /\ chosen \notin wanted
  /\ pc \in {"store", "payload", "manifest"} =>
       IF writing = chosen THEN Held(gw) = counted[gw] /\ counted[gw] < Cadence
       ELSE Held(gw) + Cardinality(wanted) < Cadence
  /\ pc = "rest" => Held(gw) + Cardinality(wanted) <= Cadence

CadenceInv == WithinCadence /\ CountInv /\ RoomInv

(* What the last table said is filed still.                                *)
ReportInv == \A g \in Gameweek : report[g] \in Nat => report[g] <= Held(g)

BackfillInv == TypeOK /\ PhaseInv /\ BoundInv /\ HandInv /\ StoreInv
=============================================================================

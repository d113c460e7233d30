----------------------------- MODULE MCBackfill -----------------------------
(* Backfill on seasons of two gameweeks: the first is played as planned,   *)
(* and the second may move, earlier or later, with notice or without.      *)
EXTENDS Backfill

CONSTANTS Firsts, Finals, Froms, \* the second gameweek's deadlines and the notice
          Bounds,                \* whether the season archive records its match
          Crawls                 \* the crawls the Archive may hold

Played == 2

Pair(a, b) == [g \in Gameweek |-> IF g = 1 THEN a ELSE b]

MCWorld ==
  {w \in [first : {Pair(Played, f) : f \in Firsts}, final : {Pair(Played, f) : f \in Finals},
          from : {Pair(0, f) : f \in Froms},
          hardBound : {Pair(Played, f) : f \in Finals \cup {None}},
          crawls : Crawls] :
     /\ w.hardBound[2] # None => w.hardBound[2] = w.final[2]
     /\ (w.hardBound[2] # None) \in Bounds
     /\ Honest(w)}

(* Nothing fails and no run is killed.                                     *)
SmoothNext ==
  \/ Run \/ Index \/ DiscoverDeadlines \/ SaveDeadlines \/ WriteDeadlines
  \/ SkipWeek \/ StartWeek \/ Refused \/ Verified \/ Chosen
  \/ NotStored \/ MakeDir \/ WritePayload \/ WriteManifest \/ FetchNext \/ EndWeek \/ Finish

(* Runs are killed, and nothing else fails.                                *)
KillSpec == Init /\ [][SmoothNext \/ Kill]_vars

SmoothSpec == Init /\ [][SmoothNext]_vars
=============================================================================

------------------------------- MODULE Roster -------------------------------
(***************************************************************************)
(* The standing overrides of internal/config/roster.go, as operators.      *)
(*                                                                         *)
(* A roster is three lists of overrides: lock, exclude and minutes.  The   *)
(* code keeps each list free of a second entry for a player (every append  *)
(* goes through removeCode first), and no reader depends on the order of a *)
(* list, so a list is a function from players to an override or NoOverride.*)
(* The name, the reason and the date an override was set on are left out:  *)
(* nothing decides on them.                                                *)
(***************************************************************************)
EXTENDS Integers

CONSTANTS Player,      \* permanent player codes
          Minutes,     \* expected-minutes figures an analyst may give
          Gameweek,    \* gameweek numbers an override may lapse after
          Day,         \* dates an override may be checked on
          NoOverride,  \* the absence of an override in a list
          Unset        \* a nil expected_minutes

ASSUME RosterConstants ==
  /\ Gameweek \subseteq Nat \ {0}
  /\ Day \subseteq Nat
  /\ Unset \notin Minutes
  /\ NoOverride \notin [start : BOOLEAN, mins : Minutes \cup {Unset},
                        confirmed : BOOLEAN, until : Gameweek \cup {0}, checked : Day]

(* RosterOverride: start is MustStart, until is UntilGameweek (0 never     *)
(* lapses) and checked is LastChecked.                                     *)
Override == [start : BOOLEAN, mins : Minutes \cup {Unset}, confirmed : BOOLEAN,
             until : Gameweek \cup {0}, checked : Day]

OverrideList == [Player -> Override \cup {NoOverride}]

ListName    == {"lock", "exclude", "minutes"}
RosterValue == [ListName -> OverrideList]

EmptyList   == [p \in Player |-> NoOverride]
EmptyRoster == [l \in ListName |-> EmptyList]

Held(list) == {p \in Player : list[p] # NoOverride}

(* Faulty: the entry to be dropped stays.                                  *)
removeNothing(list, p) == list

removeCode(list, p) == [list EXCEPT ![p] = NoOverride]
place(list, p, o)   == [list EXCEPT ![p] = o]

Expired(o, gw) == o.until > 0 /\ gw > o.until

Active(list, gw) == {p \in Held(list) : ~Expired(list[p], gw)}

-----------------------------------------------------------------------------
(* One call of Roster.Set is a record: the mode, the player and what the   *)
(* caller supplied.  say is the tri-state confirmed argument.              *)
Mode == {"lock", "start", "exclude", "minutes", "clear", "confirm"}
Said == {"unsaid", "yes", "no"}

SetCall == [kind : {"set"}, mode : Mode, player : Player, mins : Minutes \cup {Unset},
            until : Gameweek \cup {0}, say : Said]

(* The first list, in the order lock, exclude, minutes, that holds p.      *)
HoldingList(r, p) ==
  IF r["lock"][p] # NoOverride THEN "lock"
  ELSE IF r["exclude"][p] # NoOverride THEN "exclude" ELSE "minutes"

Standing(r, p) == \E l \in ListName : r[l][p] # NoOverride

SetRefused(r, c) ==
  \/ c.mode = "minutes" /\ c.mins = Unset
  \/ c.mode = "confirm" /\ ~Standing(r, c.player)

(* Faulty: dated a day ahead.                                              *)
TomorrowsOverride(r, c, today) ==
  [start |-> c.mode = "start", mins |-> c.mins,
   confirmed |-> c.mode = "minutes" /\ c.say = "yes",
   until |-> c.until, checked |-> today + 1]

(* Faulty: an omitted confirmed read as false.                             *)
UnconfirmingOverride(r, c, today) ==
  [start |-> c.mode = "start", mins |-> c.mins,
   confirmed |-> c.mode = "minutes" /\ c.say = "yes",
   until |-> c.until, checked |-> today]

(* What Set stores: the caller's figures, MustStart only for "start", and  *)
(* for "minutes" the confidence stated, or else the one already on file.   *)
NewOverride(r, c, today) ==
  [start     |-> c.mode = "start",
   mins      |-> c.mins,
   confirmed |-> /\ c.mode = "minutes"
                 /\ \/ c.say = "yes"
                    \/ /\ c.say = "unsaid"
                       /\ r["minutes"][c.player] # NoOverride
                       /\ r["minutes"][c.player].confirmed,
   until     |-> c.until,
   checked   |-> today]

(* confirm: what is on file, with a new date and perhaps a new expiry.     *)
Reverified(o, c, today) ==
  [o EXCEPT !.checked = today, !.until = IF c.until > 0 THEN c.until ELSE @]

(* The lists a mode takes the player off, and the one it puts him on.      *)
TakenOff(mode) ==
  [lock |-> {"exclude"}, start |-> {"exclude"}, exclude |-> {"lock"},
   minutes |-> {"lock", "exclude"}, clear |-> ListName, confirm |-> {}][mode]

PutOn(mode) ==
  [lock |-> {"lock"}, start |-> {"lock"}, exclude |-> {"exclude"},
   minutes |-> {"minutes"}, clear |-> {}, confirm |-> {}][mode]

confirm(r, c, today) ==
  LET l == HoldingList(r, c.player)
  IN  [r EXCEPT ![l] = place(@, c.player, Reverified(@[c.player], c, today))]

Set(r, c, today) ==
  IF c.mode = "confirm" THEN confirm(r, c, today)
  ELSE [l \in ListName |->
          IF l \in PutOn(c.mode) THEN place(r[l], c.player, NewOverride(r, c, today))
          ELSE IF l \in TakenOff(c.mode) THEN removeCode(r[l], c.player)
          ELSE r[l]]

-----------------------------------------------------------------------------
(* Roster.Remove drops one player from one list.                           *)
RemoveCall == [kind : {"remove"}, list : ListName, player : Player]

Remove(r, l, p) == [r EXCEPT ![l] = removeCode(@, p)]

-----------------------------------------------------------------------------
(* The calls the squad server makes in one go when it persists a session:  *)
(* Set "lock" for every locked player, then Set "exclude" for every        *)
(* excluded one, then Remove from all three lists for every dismissed one. *)
CorrectionsCall == [kind : {"corrections"}, lock : SUBSET Player,
                    exclude : SUBSET Player, dismissed : SUBSET Player]

PlainOverride(today) ==
  [start |-> FALSE, mins |-> Unset, confirmed |-> FALSE, until |-> 0, checked |-> today]

placeAll(list, ps, o) == [p \in Player |-> IF p \in ps THEN o ELSE list[p]]
removeAll(list, ps)   == placeAll(list, ps, NoOverride)

Corrections(r, c, today) ==
  LET o == PlainOverride(today)
      lock    == removeAll(placeAll(r["lock"], c.lock, o), c.exclude)
      exclude == placeAll(removeAll(r["exclude"], c.lock), c.exclude, o)
  IN  [l \in ListName |->
         removeAll(IF l = "lock" THEN lock ELSE IF l = "exclude" THEN exclude ELSE r[l],
                   c.dismissed)]

-----------------------------------------------------------------------------
Call == SetCall \cup RemoveCall \cup CorrectionsCall

Refused(r, c) == c.kind = "set" /\ SetRefused(r, c)

(* The roster a call leaves behind when it is not refused.                 *)
Apply(r, c, today) ==
  IF c.kind = "set" THEN Set(r, c, today)
  ELSE IF c.kind = "remove" THEN Remove(r, c.list, c.player)
  ELSE Corrections(r, c, today)

(* The players a call is about.                                            *)
Named(c) ==
  IF c.kind = "corrections" THEN c.lock \cup c.exclude \cup c.dismissed ELSE {c.player}

(* No player is both locked and excluded.                                  *)
Exclusive(r) == Held(r["lock"]) \cap Held(r["exclude"]) = {}
=============================================================================

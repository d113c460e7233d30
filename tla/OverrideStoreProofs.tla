------------------------ MODULE OverrideStoreProofs -------------------------
(***************************************************************************)
(* Theorems about OverrideStore for every number of players, threads, days *)
(* and calls.                                                              *)
(***************************************************************************)
EXTENDS OverrideStore, TLAPS

-----------------------------------------------------------------------------
(* What the operators of Roster do to a roster.                            *)

LEMMA EmptyType == EmptyRoster \in RosterValue
BY DEF EmptyRoster, EmptyList, RosterValue, OverrideList

LEMMA NewOverrideType ==
  ASSUME NEW r, NEW c \in SetCall, NEW d \in Day
  PROVE  NewOverride(r, c, d) \in Override
BY DEF SetCall, NewOverride, Override

(* A "confirm" that is not refused finds an override to refresh.           *)
LEMMA ConfirmFinds ==
  ASSUME NEW r \in RosterValue, NEW c \in SetCall, c.mode = "confirm", ~Refused(r, c)
  PROVE  /\ HoldingList(r, c.player) \in ListName
         /\ r[HoldingList(r, c.player)][c.player] # NoOverride
         /\ r[HoldingList(r, c.player)][c.player] \in Override
BY DEF HoldingList, Refused, SetRefused, Standing, ListName, RosterValue, OverrideList,
   SetCall

(* A call that is not refused turns a roster into a roster.                *)
LEMMA ApplyType ==
  ASSUME NEW r \in RosterValue, NEW c \in Call, NEW d \in Day, ~Refused(r, c)
  PROVE  Apply(r, c, d) \in RosterValue
<1>1. CASE c \in SetCall
  <2>1. c.kind = "set"
    BY <1>1 DEF SetCall
  <2>2. CASE c.mode = "confirm"
    <3> DEFINE l == HoldingList(r, c.player)
    <3>1. l \in ListName /\ r[l][c.player] \in Override
      BY <1>1, <2>2, ConfirmFinds
    <3>2. Reverified(r[l][c.player], c, d) \in Override
      BY <1>1, <3>1 DEF Reverified, Override, SetCall
    <3>3. place(r[l], c.player, Reverified(r[l][c.player], c, d)) \in OverrideList
      BY <3>1, <3>2 DEF RosterValue, OverrideList, place
    <3>4. confirm(r, c, d) = [r EXCEPT ![l] = place(r[l], c.player, Reverified(r[l][c.player], c, d))]
      BY DEF confirm
    <3>5. confirm(r, c, d) \in RosterValue
      BY <3>1, <3>3, <3>4 DEF RosterValue
    <3>. QED
      BY <2>1, <2>2, <3>5 DEF Apply, Set
  <2>3. CASE c.mode # "confirm"
    <3>1. NewOverride(r, c, d) \in Override
      BY <1>1, NewOverrideType
    <3>2. ASSUME NEW l \in ListName
          PROVE  /\ place(r[l], c.player, NewOverride(r, c, d)) \in OverrideList
                 /\ removeCode(r[l], c.player) \in OverrideList
                 /\ r[l] \in OverrideList
      BY <3>1 DEF RosterValue, OverrideList, place, removeCode
    <3>3. Set(r, c, d) \in RosterValue
      BY <2>3, <3>2 DEF Set, RosterValue
    <3>. QED
      BY <2>1, <3>3 DEF Apply
  <2>. QED
    BY <2>2, <2>3
<1>2. CASE c \in RemoveCall
  <2>1. c.kind = "remove" /\ c.list \in ListName
    BY <1>2 DEF RemoveCall
  <2>2. removeCode(r[c.list], c.player) \in OverrideList
    BY <2>1 DEF RosterValue, OverrideList, removeCode
  <2>3. Remove(r, c.list, c.player) \in RosterValue
    BY <2>1, <2>2 DEF Remove, RosterValue
  <2>. QED
    BY <2>1, <2>3 DEF Apply
<1>3. CASE c \in CorrectionsCall
  <2>1. c.kind = "corrections"
    BY <1>3 DEF CorrectionsCall
  <2>2. PlainOverride(d) \in Override
    BY DEF PlainOverride, Override
  <2>3. ASSUME NEW list \in OverrideList, NEW ps, NEW o \in Override \cup {NoOverride}
        PROVE  placeAll(list, ps, o) \in OverrideList
    BY DEF placeAll, OverrideList
  <2>4. \A l \in ListName : r[l] \in OverrideList
    BY DEF RosterValue
  <2>5. Corrections(r, c, d) \in RosterValue
    BY <2>2, <2>3, <2>4 DEF Corrections, removeAll, RosterValue, ListName
  <2>. QED
    BY <2>1, <2>5 DEF Apply
<1>. QED
  BY <1>1, <1>2, <1>3 DEF Call

(* A call never leaves a player on both lists who was not on both before.  *)
LEMMA ApplyExclusive ==
  ASSUME NEW r \in RosterValue, NEW c \in Call, NEW d \in Day, ~Refused(r, c),
         Exclusive(r)
  PROVE  Exclusive(Apply(r, c, d))
<1>. DEFINE a == Apply(r, c, d)
<1>. SUFFICES ASSUME NEW p \in Player
              PROVE  a["lock"][p] = NoOverride \/ a["exclude"][p] = NoOverride
  BY DEF Exclusive, Held
<1>0. r["lock"][p] = NoOverride \/ r["exclude"][p] = NoOverride
  BY DEF Exclusive, Held
<1>a. r["lock"] \in OverrideList /\ r["exclude"] \in OverrideList
  BY DEF RosterValue, ListName
<1>1. CASE c \in SetCall
  <2>1. c.kind = "set"
    BY <1>1 DEF SetCall
  <2>2. CASE c.mode = "confirm"
    <3> DEFINE l == HoldingList(r, c.player)
    <3>1. l \in ListName /\ r[l][c.player] # NoOverride
      BY <1>1, <2>2, ConfirmFinds
    <3>2. a = [r EXCEPT ![l] = place(r[l], c.player, Reverified(r[l][c.player], c, d))]
      BY <2>1, <2>2 DEF Apply, Set, confirm
    <3>3. \A k \in ListName : k # l => a[k] = r[k]
      BY <3>2 DEF RosterValue
    <3>4. a[l] = [r[l] EXCEPT ![c.player] = Reverified(r[l][c.player], c, d)]
      BY <3>1, <3>2 DEF RosterValue, place
    <3>5. r[l][p] = NoOverride => a[l][p] = NoOverride
      BY <3>1, <3>4 DEF RosterValue, OverrideList
    <3>. QED
      BY <1>0, <3>3, <3>5 DEF ListName
  <2>3. CASE c.mode # "confirm"
    <3>1. a = [l \in ListName |->
                 IF l \in PutOn(c.mode) THEN place(r[l], c.player, NewOverride(r, c, d))
                 ELSE IF l \in TakenOff(c.mode) THEN removeCode(r[l], c.player)
                 ELSE r[l]]
      BY <2>1, <2>3 DEF Apply, Set
    <3>2. c.mode \in Mode /\ c.player \in Player
      BY <1>1 DEF SetCall
    <3>3. ASSUME NEW l \in {"lock", "exclude"}, l \notin PutOn(c.mode)
          PROVE  (r[l][p] = NoOverride => a[l][p] = NoOverride)
      BY <3>1, <3>2, <3>3, <1>a DEF OverrideList, removeCode, ListName
    <3>4. ASSUME NEW l \in {"lock", "exclude"}, l \notin PutOn(c.mode), l \in TakenOff(c.mode)
          PROVE  a[l][c.player] = NoOverride
      BY <3>1, <3>2, <3>4, <1>a DEF OverrideList, removeCode, ListName
    <3>5. ASSUME NEW l \in {"lock", "exclude"}, p # c.player
          PROVE  a[l][p] = r[l][p]
      BY <3>1, <3>2, <3>5, <1>a DEF OverrideList, removeCode, place, ListName
    <3>6. \A l \in {"lock", "exclude"} : l \in PutOn(c.mode) =>
             \A k \in {"lock", "exclude"} \ {l} :
                k \notin PutOn(c.mode) /\ k \in TakenOff(c.mode)
      BY <2>3, <3>2 DEF PutOn, TakenOff, Mode, ListName
    <3>. QED
      BY <1>0, <3>3, <3>4, <3>5, <3>6
  <2>. QED
    BY <2>2, <2>3
<1>2. CASE c \in RemoveCall
  <2>1. c.kind = "remove" /\ c.list \in ListName /\ c.player \in Player
    BY <1>2 DEF RemoveCall
  <2>2. a = [r EXCEPT ![c.list] = [r[c.list] EXCEPT ![c.player] = NoOverride]]
    BY <2>1 DEF Apply, Remove, removeCode
  <2>3. \A l \in {"lock", "exclude"} : r[l][p] = NoOverride => a[l][p] = NoOverride
    BY <2>1, <2>2 DEF RosterValue, OverrideList, ListName
  <2>. QED
    BY <1>0, <2>3
<1>3. CASE c \in CorrectionsCall
  <2>1. a = Corrections(r, c, d)
    BY <1>3 DEF CorrectionsCall, Apply
  <2>. QED
    BY <1>0, <2>1 DEF Corrections, removeAll, placeAll, ListName
<1>. QED
  BY <1>1, <1>2, <1>3 DEF Call

(* Set touches no list's entry for another player.                         *)
LEMMA SetElsewhere ==
  ASSUME NEW r \in RosterValue, NEW c \in SetCall, NEW d \in Day, ~Refused(r, c),
         NEW l \in ListName, NEW p \in Player, p # c.player
  PROVE  Set(r, c, d)[l][p] = r[l][p]
<1>0. r[l] \in OverrideList
  BY DEF RosterValue
<1>1. CASE c.mode = "confirm"
  <2> DEFINE h == HoldingList(r, c.player)
  <2>1. h \in ListName
    BY <1>1, ConfirmFinds
  <2>2. Set(r, c, d) = [r EXCEPT ![h] = place(r[h], c.player, Reverified(r[h][c.player], c, d))]
    BY <1>1 DEF Set, confirm
  <2>. QED
    BY <1>0, <2>1, <2>2 DEF place, RosterValue, OverrideList
<1>2. CASE c.mode # "confirm"
  BY <1>0, <1>2 DEF Set, place, removeCode, OverrideList
<1>. QED
  BY <1>1, <1>2

(* A call leaves every entry of a player it does not name as it was.       *)
LEMMA ApplyElsewhere ==
  ASSUME NEW r \in RosterValue, NEW c \in Call, NEW d \in Day, ~Refused(r, c),
         NEW l \in ListName, NEW p \in Player, p \notin Named(c)
  PROVE  Apply(r, c, d)[l][p] = r[l][p]
<1>0. r[l] \in OverrideList
  BY DEF RosterValue
<1>1. CASE c \in SetCall
  BY <1>1, SetElsewhere DEF SetCall, Named, Apply
<1>2. CASE c \in RemoveCall
  BY <1>0, <1>2 DEF RemoveCall, Named, Apply, Remove, removeCode, RosterValue, OverrideList
<1>3. CASE c \in CorrectionsCall
  <2>1. p \notin c.lock \cup c.exclude \cup c.dismissed /\ Apply(r, c, d) = Corrections(r, c, d)
    BY <1>3 DEF CorrectionsCall, Named, Apply
  <2>2. \A ps, o, list : p \notin ps => placeAll(list, ps, o)[p] = list[p]
    BY DEF placeAll
  <2>3. \A ps, list : p \notin ps => removeAll(list, ps)[p] = list[p]
    BY <2>2 DEF removeAll
  <2>. QED
    BY <2>1, <2>2, <2>3 DEF Corrections, ListName
<1>. QED
  BY <1>1, <1>2, <1>3 DEF Call

(* A confirmed minutes entry that a call leaves unconfirmed was contradicted. *)
LEMMA ApplyCarries ==
  ASSUME NEW r \in RosterValue, NEW c \in Call, NEW d \in Day, ~Refused(r, c),
         NEW p \in Player,
         r["minutes"][p] # NoOverride, r["minutes"][p].confirmed,
         Apply(r, c, d)["minutes"][p] # NoOverride, ~Apply(r, c, d)["minutes"][p].confirmed
  PROVE  c.kind = "set" /\ c.say = "no"
<1>0. r["minutes"] \in OverrideList /\ r["minutes"][p] \in Override
  BY DEF RosterValue, OverrideList, ListName
<1>1. CASE c \in SetCall
  <2>1. c.kind = "set" /\ c.say \in Said /\ c.mode \in Mode /\ p = c.player
    BY <1>1, ApplyElsewhere DEF SetCall, Named, ListName
  <2>2. CASE c.mode = "confirm"
    <3> DEFINE h == HoldingList(r, c.player)
    <3>1. h \in ListName /\ r[h][p] \in Override
      BY <1>1, <2>1, <2>2, ConfirmFinds
    <3>2. Apply(r, c, d) = [r EXCEPT ![h] = place(r[h], p, Reverified(r[h][p], c, d))]
      BY <2>1, <2>2 DEF Apply, Set, confirm
    <3>3. Reverified(r[h][p], c, d).confirmed = r[h][p].confirmed
      BY <3>1 DEF Reverified, Override
    <3>. QED
      BY <1>0, <3>1, <3>2, <3>3 DEF place, RosterValue, OverrideList, ListName
  <2>3. CASE c.mode = "minutes"
    <3>1. Apply(r, c, d)["minutes"] = place(r["minutes"], p, NewOverride(r, c, d))
      BY <2>1, <2>3 DEF Apply, Set, PutOn, ListName
    <3>2. ~NewOverride(r, c, d).confirmed
      BY <1>0, <3>1 DEF place, OverrideList
    <3>. QED
      BY <2>1, <2>3, <3>2 DEF NewOverride, Said
  <2>4. CASE c.mode \in {"lock", "start", "exclude", "clear"}
    <3>1. Apply(r, c, d)["minutes"] \in {r["minutes"], removeCode(r["minutes"], p)}
      BY <2>1, <2>4 DEF Apply, Set, PutOn, TakenOff, ListName
    <3>. QED
      BY <1>0, <3>1 DEF removeCode, OverrideList
  <2>. QED
    BY <2>1, <2>2, <2>3, <2>4 DEF Mode
<1>2. CASE c \in RemoveCall
  <2>1. /\ c.list \in ListName /\ c.player \in Player
        /\ Apply(r, c, d) = [r EXCEPT ![c.list] = removeCode(r[c.list], c.player)]
    BY <1>2 DEF RemoveCall, Apply, Remove
  <2>. QED
    BY <1>0, <2>1 DEF removeCode, RosterValue, OverrideList, ListName
<1>3. CASE c \in CorrectionsCall
  <2>1. Apply(r, c, d)["minutes"] = removeAll(r["minutes"], c.dismissed)
    BY <1>3 DEF CorrectionsCall, Apply, Corrections, ListName
  <2>. QED
    BY <1>0, <2>1 DEF removeAll, placeAll
<1>. QED
  BY <1>1, <1>2, <1>3 DEF Call

-----------------------------------------------------------------------------
(* Type correctness.                                                       *)

LEMMA LoadedType ==
  ASSUME disk \in RosterValue, NEW w \in BOOLEAN
  PROVE  /\ Loaded(w) \in RosterValue
         /\ Loaded(w)["lock"] = IF w THEN disk["lock"] ELSE EmptyList
         /\ Loaded(w)["exclude"] = disk["exclude"]
         /\ Loaded(w)["minutes"] = disk["minutes"]
<1>1. EmptyList \in OverrideList
  BY DEF EmptyList, OverrideList
<1>2. disk["lock"] \in OverrideList
  BY DEF RosterValue, ListName
<1>3. (IF w THEN disk["lock"] ELSE EmptyList) \in OverrideList
  BY <1>1, <1>2
<1>. QED
  BY <1>3 DEF Loaded, RosterValue, ListName

LEMMA CallsAreCalls == AgentCalls \cup ServeCalls \subseteq Call
BY StoreConstants DEF Call

LEMMA TypeInit == Init => TypeOK
BY EmptyType, StoreConstants DEF Init, TypeOK, Idle

LEMMA TypeStep == TypeOK /\ [Next]_vars => TypeOK'
<1>. SUFFICES ASSUME TypeOK, [Next]_vars PROVE TypeOK'
  OBVIOUS
<1>. USE DEF TypeOK
<1>1. CASE Start
  BY <1>1, LoadedType DEF Start
<1>2. CASE Stop
  BY <1>2, EmptyType DEF Stop, Idle
<1>3. CASE NextDay
  BY <1>3 DEF NextDay
<1>4. ASSUME NEW t \in Thread, NEW c \in AgentCalls \cup ServeCalls, Begin(t, c)
      PROVE  TypeOK'
  <2>1. c \in Call
    BY CallsAreCalls
  <2>2. Apply(mem, c, day) \in RosterValue /\ AfterMutate(c) \in RosterValue
    BY <1>4, <2>1, ApplyType DEF Begin, AfterMutate
  <2>. QED
    BY <1>4, <2>1, <2>2 DEF Begin
<1>5. ASSUME NEW t \in Thread, Release(t)
      PROVE  /\ mu' \in Thread \cup {Free}
             /\ pc' \in [Thread -> {"idle", "config", "team"}]
             /\ call' \in [Thread -> Call \cup {NoCall}]
             /\ next' \in [Thread -> RosterValue]
  BY <1>5, EmptyType DEF Release
<1>6. ASSUME NEW t \in Thread, Publish(t)
      PROVE  /\ mu' \in Thread \cup {Free}
             /\ pc' \in [Thread -> {"idle", "config", "team"}]
             /\ call' \in [Thread -> Call \cup {NoCall}]
             /\ next' \in [Thread -> RosterValue]
             /\ mem' \in RosterValue /\ behind' \in BOOLEAN /\ mixed' \in BOOLEAN
  BY <1>5, <1>6 DEF Publish
<1>7. ASSUME NEW t \in Thread, WriteConfig(t)
      PROVE  TypeOK'
  <2>1. next[t] \in RosterValue
    OBVIOUS
  <2>2. disk' \in RosterValue
    BY <1>7, <2>1 DEF WriteConfig, RosterValue, ListName
  <2>3. CASE teamChanged(mem, next[t])
    BY <1>7, <2>2, <2>3 DEF WriteConfig
  <2>4. CASE ~teamChanged(mem, next[t])
    BY <1>6, <1>7, <2>2, <2>4 DEF WriteConfig
  <2>. QED
    BY <2>3, <2>4
<1>8. ASSUME NEW t \in Thread, ConfigFails(t)
      PROVE  TypeOK'
  BY <1>5, <1>8 DEF ConfigFails
<1>9. ASSUME NEW t \in Thread, WriteTeam(t)
      PROVE  TypeOK'
  <2>1. next[t] \in RosterValue
    OBVIOUS
  <2>2. disk' \in RosterValue
    BY <1>9, <2>1 DEF WriteTeam, RosterValue, ListName
  <2>. QED
    BY <1>6, <1>9, <2>2 DEF WriteTeam
<1>10. ASSUME NEW t \in Thread, TeamFails(t)
       PROVE  TypeOK'
  BY <1>5, <1>10 DEF TeamFails
<1>11. CASE UNCHANGED vars
  BY <1>11 DEF vars
<1>. QED
  BY <1>1, <1>2, <1>3, <1>4, <1>7, <1>8, <1>9, <1>10, <1>11 DEF Next, Saving

(* Every variable keeps its type, whatever the constants.                  *)
THEOREM TypeCorrect == Spec => []TypeOK
BY TypeInit, TypeStep, PTL DEF Spec


-----------------------------------------------------------------------------
(* The inductive invariant.                                                *)

LEMMA SameListFacts ==
  ASSUME NEW a, NEW b, NEW c
  PROVE  /\ SameList(a, a)
         /\ SameList(a, b) /\ SameList(b, c) => SameList(a, c)
BY DEF SameList, SameOverride

(* Lists that agree up to verification hold the same players.              *)
LEMMA SameListHeld ==
  ASSUME NEW a, NEW b, SameList(a, b)
  PROVE  Held(a) = Held(b)
BY DEF SameList, SameOverride, Held

LEMMA EmptyExclusive == Exclusive(EmptyRoster)
BY DEF Exclusive, Held, EmptyRoster, EmptyList, ListName

(* Confirming an override moves its date and expiry, and nothing else.     *)
LEMMA ConfirmKeeps ==
  ASSUME NEW r \in RosterValue, NEW c \in SetCall, c.mode = "confirm", ~Refused(r, c),
         NEW d \in Day, NEW k \in ListName
  PROVE  SameList(r[k], Apply(r, c, d)[k])
<1>. DEFINE l == HoldingList(r, c.player)
            o == Reverified(r[l][c.player], c, d)
<1>1. Apply(r, c, d) = [r EXCEPT ![l] = place(r[l], c.player, o)]
  BY DEF Apply, Set, confirm, SetCall
<1>2. /\ l \in ListName /\ r[l][c.player] \in Override
      /\ r[l][c.player] # NoOverride
  BY ConfirmFinds
<1>3. /\ o.start = r[l][c.player].start /\ o.mins = r[l][c.player].mins
      /\ o.confirmed = r[l][c.player].confirmed /\ o \in Override
  BY <1>2 DEF Reverified, Override, SetCall
<1>4. o # NoOverride
  BY <1>3, RosterConstants DEF Override
<1>5. CASE l = k
  <2>1. Apply(r, c, d)[k] = [r[k] EXCEPT ![c.player] = o]
    BY <1>1, <1>5 DEF place, RosterValue
  <2>2. r[k] \in OverrideList
    BY DEF RosterValue
  <2>. QED
    BY <2>1, <2>2, <1>2, <1>3, <1>4, <1>5 DEF SameList, SameOverride, OverrideList
<1>6. CASE l # k
  <2>1. Apply(r, c, d)[k] = r[k]
    BY <1>1, <1>2, <1>6 DEF RosterValue
  <2>. QED
    BY <2>1 DEF SameList, SameOverride
<1>. QED
  BY <1>5, <1>6

LEMMA InvInit == Init => StoreInv
<1>. SUFFICES ASSUME Init PROVE StoreInv
  OBVIOUS
<1>1. TypeOK
  BY TypeInit
<1>2. MutexInv /\ CopyInv /\ DownInv /\ FilesInv
  BY StoreConstants DEF Init, MutexInv, CopyInv, DownInv, FilesInv, Idle, EmptyRoster, ListName
<1>3. ExclusiveInv
  BY EmptyExclusive DEF Init, ExclusiveInv
<1>. QED
  BY <1>1, <1>2, <1>3 DEF StoreInv

LEMMA StartStep == StoreInv /\ Start => StoreInv'
<1>. SUFFICES ASSUME StoreInv, Start PROVE StoreInv'
  OBVIOUS
<1>. USE DEF StoreInv
<1>1. TypeOK'
  BY TypeStep DEF Next
<1>2. pc = Idle /\ ~behind /\ ~team /\ proc = "down" /\ proc' # "down" /\ team' \in BOOLEAN
  BY DEF DownInv, Start
<1>3. \A t \in Thread : pc[t] = "idle" /\ pc'[t] = "idle"
  BY <1>2 DEF Idle, Start
<1>4. /\ mem'["lock"] = IF team' THEN disk["lock"] ELSE EmptyList
      /\ mem'["exclude"] = disk["exclude"]
      /\ mem'["minutes"] = disk["minutes"]
  BY <1>2, LoadedType DEF TypeOK, Start
<1>5. MutexInv' /\ CopyInv'
  BY <1>3 DEF MutexInv, CopyInv, Start
<1>6. DownInv'
  BY <1>2, <1>4 DEF DownInv
<1>7. FilesInv'
  BY <1>2, <1>4, SameListFacts DEF FilesInv, Start
<1>8. ExclusiveInv'
  <2>1. ~mixed => Exclusive(disk)
    BY <1>2, <1>3 DEF ExclusiveInv
  <2>2. ~mixed => Exclusive(mem')
    BY <2>1, <1>4 DEF Exclusive, Held, EmptyList
  <2>. QED
    BY <2>1, <2>2 DEF ExclusiveInv, Start
<1>. QED
  BY <1>1, <1>5, <1>6, <1>7, <1>8

LEMMA StopStep == StoreInv /\ Stop => StoreInv'
<1>. SUFFICES ASSUME StoreInv, Stop PROVE StoreInv'
  OBVIOUS
<1>. USE DEF StoreInv
<1>1. TypeOK'
  BY TypeStep DEF Next
<1>2. MutexInv' /\ CopyInv' /\ DownInv' /\ FilesInv'
  BY StoreConstants DEF Stop, MutexInv, CopyInv, DownInv, FilesInv, Idle, EmptyRoster, ListName
<1>3. ExclusiveInv'
  BY EmptyExclusive DEF Stop, ExclusiveInv
<1>. QED
  BY <1>1, <1>2, <1>3

LEMMA NextDayStep == StoreInv /\ NextDay => StoreInv'
<1>. SUFFICES ASSUME StoreInv, NextDay PROVE StoreInv'
  OBVIOUS
<1>. USE DEF StoreInv
<1>1. TypeOK'
  BY TypeStep DEF Next
<1>2. MutexInv' /\ CopyInv' /\ DownInv' /\ FilesInv' /\ ExclusiveInv'
  BY DEF NextDay, MutexInv, CopyInv, DownInv, FilesInv, ExclusiveInv, teamChanged
<1>. QED
  BY <1>1, <1>2

LEMMA BeginStep ==
  ASSUME StoreInv, NEW t \in Thread, NEW c \in AgentCalls \cup ServeCalls, Begin(t, c)
  PROVE  StoreInv'
<1>. USE DEF StoreInv
<1>1. TypeOK'
  BY TypeStep DEF Next
<1>2. c \in Call /\ day \in Day /\ ~Refused(mem, c) /\ mem \in RosterValue
  BY CallsAreCalls DEF TypeOK, Begin
<1>3. \A u \in Thread : pc[u] = "idle"
  BY StoreConstants DEF MutexInv, Begin, Acquire
<1>4. /\ mem' = AfterMutate(c) /\ pc' = [pc EXCEPT ![t] = "config"]
      /\ pc'[t] = "config" /\ call'[t] = c /\ next'[t] = Apply(mem, c, day) /\ mu' = t
      /\ teamChanged(AfterMutate(c), Apply(mem, c, day)) => team
      /\ UNCHANGED <<proc, team, disk, behind, mixed>> /\ proc # "down"
  BY DEF Begin, TypeOK
<1>5. \A u \in Thread \ {t} : pc'[u] = "idle"
  BY <1>3, <1>4 DEF TypeOK
<1>6. \/ mem' = mem
      \/ /\ c \in SetCall /\ c.mode = "confirm" /\ mem' = next'[t]
         /\ SameList(mem["lock"], mem'["lock"])
  <2>1. CASE c.kind = "set" /\ c.mode = "confirm"
    <3>1. c \in SetCall
      BY <1>2, <2>1 DEF Call, RemoveCall, CorrectionsCall
    <3>. QED
      BY <3>1, <2>1, <1>2, <1>4, ConfirmKeeps DEF AfterMutate, ListName
  <2>2. CASE ~(c.kind = "set" /\ c.mode = "confirm")
    BY <2>2, <1>4 DEF AfterMutate
  <2>. QED
    BY <2>1, <2>2
<1>7. MutexInv'
  BY <1>4, <1>5 DEF MutexInv
<1>8. CopyInv'
  <2>1. \/ next'[t] = mem'
        \/ \E d \in Day : ~Refused(mem', c) /\ next'[t] = Apply(mem', c, d)
    BY <1>2, <1>4, <1>6
  <2>. QED
    BY <2>1, <1>2, <1>4, <1>5 DEF CopyInv
<1>9. DownInv'
  <2>1. ~team => mem'["lock"] = EmptyList
    <3>1. ASSUME ~team PROVE mem'["lock"] = EmptyList
      <4>1. mem["lock"] = EmptyList
        BY <3>1 DEF DownInv
      <4>2. mem["lock"] \in OverrideList /\ mem'["lock"] \in OverrideList
        BY <1>1 DEF TypeOK, RosterValue, ListName
      <4>3. SameList(mem["lock"], mem'["lock"])
        BY <1>6, SameListFacts
      <4>. QED
        BY <4>1, <4>2, <4>3 DEF SameList, SameOverride, EmptyList, OverrideList
    <3>. QED
      BY <3>1
  <2>. QED
    BY <2>1, <1>4 DEF DownInv
<1>10. FilesInv'
  <2>1. team => SameList(disk["lock"], mem'["lock"])
    BY <1>4, <1>6, SameListFacts DEF FilesInv
  <2>2. mem' # next'[t] => mem' = mem
    BY <1>6
  <2>. QED
    BY <2>1, <2>2, <1>3, <1>4, <1>5 DEF FilesInv
<1>11. ExclusiveInv'
  <2>1. ~mixed => Exclusive(mem')
    BY <1>2, <1>4, <1>6, ApplyExclusive DEF ExclusiveInv
  <2>. QED
    BY <2>1, <1>3, <1>4, <1>5 DEF ExclusiveInv
<1>. QED
  BY <1>1, <1>7, <1>8, <1>9, <1>10, <1>11


(* What a thread inside the read-modify-write knows.                       *)
LEMMA HolderFacts ==
  ASSUME StoreInv, NEW t \in Thread, pc[t] # "idle"
  PROVE  /\ mu = t /\ proc # "down"
         /\ \A u \in Thread \ {t} : pc[u] = "idle"
         /\ next[t] \in RosterValue /\ mem \in RosterValue /\ disk \in RosterValue
         /\ ~mixed => Exclusive(next[t])
<1>. USE DEF StoreInv
<1>1. ~mixed => Exclusive(next[t])
  BY ApplyExclusive DEF ExclusiveInv, CopyInv, TypeOK
<1>. QED
  BY <1>1 DEF MutexInv, CopyInv, TypeOK

(* Leaving the read-modify-write: no thread is inside any more.            *)
LEMMA ReleaseFacts ==
  ASSUME StoreInv, NEW t \in Thread, pc[t] # "idle", Release(t)
  PROVE  (\A u \in Thread : pc'[u] = "idle") /\ MutexInv' /\ CopyInv'
<1>1. \A u \in Thread : pc'[u] = "idle"
  BY HolderFacts DEF Release, StoreInv, TypeOK
<1>2. mu' = Free
  BY DEF Release
<1>. QED
  BY <1>1, <1>2, StoreConstants DEF MutexInv, CopyInv

(* A save that succeeds leaves the files and the roster in agreement.      *)
LEMMA PublishStep ==
  ASSUME StoreInv, NEW t \in Thread, pc[t] # "idle", Publish(t),
         UNCHANGED <<proc, team>>, TypeOK',
         disk'["exclude"] = next[t]["exclude"], disk'["minutes"] = next[t]["minutes"],
         team => SameList(disk'["lock"], next[t]["lock"]),
         teamChanged(mem, next[t]) => team
  PROVE  StoreInv'
<1>. USE DEF StoreInv
<1>1. /\ mem' = next[t] /\ behind' = FALSE /\ mixed' = (mixed \/ ~team)
      /\ \A u \in Thread : pc'[u] = "idle"
      /\ MutexInv' /\ CopyInv' /\ proc # "down"
  BY ReleaseFacts, HolderFacts DEF Publish
<1>2. DownInv'
  BY <1>1 DEF DownInv, teamChanged
<1>3. FilesInv'
  BY <1>1 DEF FilesInv
<1>4. ExclusiveInv'
  <2>1. ~mixed' => Exclusive(mem')
    BY <1>1, HolderFacts
  <2>2. ~mixed' => Held(disk'["lock"]) = Held(mem'["lock"])
    BY <1>1, SameListHeld
  <2>3. ~mixed' => Exclusive(disk')
    BY <2>1, <2>2, <1>1 DEF Exclusive, Held
  <2>. QED
    BY <2>1, <2>3 DEF ExclusiveInv
<1>. QED
  BY <1>1, <1>2, <1>3, <1>4

LEMMA WriteConfigStep ==
  ASSUME StoreInv, NEW t \in Thread, WriteConfig(t)
  PROVE  StoreInv'
<1>. USE DEF StoreInv
<1>1. TypeOK'
  BY TypeStep DEF Next, Saving
<1>2. pc[t] = "config" /\ UNCHANGED <<day, proc, team>>
  BY DEF WriteConfig
<1>3. /\ disk'["exclude"] = next[t]["exclude"] /\ disk'["minutes"] = next[t]["minutes"]
      /\ disk'["lock"] = disk["lock"]
  BY <1>2, HolderFacts DEF WriteConfig, RosterValue, ListName
<1>4. CASE teamChanged(mem, next[t])
  <2>1. /\ pc' = [pc EXCEPT ![t] = "team"] /\ pc'[t] = "team"
        /\ UNCHANGED <<mu, mem, call, next, behind, mixed>>
    BY <1>4 DEF WriteConfig, TypeOK
  <2>2. \A u \in Thread \ {t} : pc'[u] = "idle"
    BY <1>2, <2>1, HolderFacts DEF TypeOK
  <2>3. team /\ proc # "down"
    BY <1>2, <1>4 DEF CopyInv
  <2>4. MutexInv'
    BY <1>2, <2>1 DEF MutexInv, TypeOK
  <2>5. CopyInv'
    BY <1>2, <1>3, <2>1, <2>2, <2>3 DEF CopyInv
  <2>6. DownInv'
    BY <1>2, <2>1, <2>3 DEF DownInv
  <2>7. FilesInv'
    BY <1>2, <1>3, <2>1 DEF FilesInv
  <2>8. ExclusiveInv'
    BY <2>1 DEF ExclusiveInv
  <2>. QED
    BY <1>1, <2>4, <2>5, <2>6, <2>7, <2>8
<1>5. CASE ~teamChanged(mem, next[t])
  <2>1. Publish(t)
    BY <1>5 DEF WriteConfig
  <2>2. team => SameList(disk'["lock"], next[t]["lock"])
    BY <1>2, <1>3, <1>5, HolderFacts DEF FilesInv, teamChanged
  <2>. QED
    BY <1>1, <1>2, <1>3, <1>5, <2>1, <2>2, PublishStep
<1>. QED
  BY <1>4, <1>5

LEMMA WriteTeamStep ==
  ASSUME StoreInv, NEW t \in Thread, WriteTeam(t)
  PROVE  StoreInv'
<1>. USE DEF StoreInv
<1>1. TypeOK'
  BY TypeStep DEF Next, Saving
<1>2. pc[t] = "team" /\ UNCHANGED <<day, proc, team>> /\ Publish(t)
  BY DEF WriteTeam
<1>3. disk' = [disk EXCEPT !["lock"] = next[t]["lock"]]
  BY DEF WriteTeam
<1>4. /\ disk'["exclude"] = disk["exclude"] /\ disk'["minutes"] = disk["minutes"]
      /\ disk'["lock"] = next[t]["lock"]
  BY <1>2, <1>3, HolderFacts DEF RosterValue, ListName
<1>5. team /\ disk["exclude"] = next[t]["exclude"] /\ disk["minutes"] = next[t]["minutes"]
  BY <1>2 DEF CopyInv
<1>6. SameList(disk'["lock"], next[t]["lock"])
  BY <1>4, SameListFacts
<1>. QED
  BY <1>1, <1>2, <1>4, <1>5, <1>6, PublishStep

LEMMA ConfigFailsStep ==
  ASSUME StoreInv, NEW t \in Thread, ConfigFails(t)
  PROVE  StoreInv'
<1>. USE DEF StoreInv
<1>1. TypeOK'
  BY TypeStep DEF Next, Saving
<1>2. /\ pc[t] = "config" /\ UNCHANGED <<day, proc, team, mem, disk, mixed>>
      /\ behind' = (behind \/ mem = next[t])
  BY DEF ConfigFails
<1>3. (\A u \in Thread : pc'[u] = "idle") /\ MutexInv' /\ CopyInv'
  BY <1>2, ReleaseFacts DEF ConfigFails
<1>4. (\A u \in Thread \ {t} : pc[u] = "idle") /\ proc # "down"
  BY <1>2, HolderFacts
<1>5. DownInv'
  BY <1>2, <1>4 DEF DownInv
<1>6. FilesInv'
  BY <1>2, <1>4 DEF FilesInv
<1>7. ExclusiveInv'
  BY <1>2, <1>4 DEF ExclusiveInv
<1>. QED
  BY <1>1, <1>3, <1>5, <1>6, <1>7

LEMMA TeamFailsStep ==
  ASSUME StoreInv, NEW t \in Thread, TeamFails(t)
  PROVE  StoreInv'
<1>. USE DEF StoreInv
<1>1. TypeOK'
  BY TypeStep DEF Next, Saving
<1>2. /\ pc[t] = "team" /\ UNCHANGED <<day, proc, team, mem, disk, mixed>>
      /\ behind' = TRUE /\ Release(t)
  BY DEF TeamFails
<1>3. MutexInv' /\ CopyInv' /\ proc # "down"
  BY <1>2, ReleaseFacts, HolderFacts
<1>4. DownInv' /\ FilesInv' /\ ExclusiveInv'
  BY <1>2, <1>3 DEF DownInv, FilesInv, ExclusiveInv
<1>. QED
  BY <1>1, <1>3, <1>4

LEMMA InvStep == StoreInv /\ [Next]_vars => StoreInv'
<1>. SUFFICES ASSUME StoreInv, [Next]_vars PROVE StoreInv'
  OBVIOUS
<1>1. CASE UNCHANGED vars
  BY <1>1 DEF vars, StoreInv, TypeOK, MutexInv, CopyInv, DownInv, FilesInv, ExclusiveInv,
     teamChanged
<1>. QED
  BY <1>1, StartStep, StopStep, NextDayStep, BeginStep, WriteConfigStep, ConfigFailsStep,
     WriteTeamStep, TeamFailsStep DEF Next, Saving

(* The inductive invariant holds in every behaviour.                       *)
THEOREM StoreInvariant == Spec => []StoreInv
BY InvInit, InvStep, PTL DEF Spec

(* A call that reported success survives a restart.                        *)
THEOREM SavedSurvives == Spec => []SavedIsLoaded
<1>1. StoreInv => SavedIsLoaded
  <2>. SUFFICES ASSUME StoreInv, proc # "down", mu = Free, ~behind
                PROVE  /\ Loaded(team)["exclude"] = mem["exclude"]
                       /\ Loaded(team)["minutes"] = mem["minutes"]
                       /\ SameList(Loaded(team)["lock"], mem["lock"])
    BY DEF SavedIsLoaded
  <2>. USE DEF StoreInv
  <2>1. \A t \in Thread : pc[t] = "idle"
    BY StoreConstants DEF MutexInv
  <2>2. /\ Loaded(team)["lock"] = IF team THEN disk["lock"] ELSE EmptyList
        /\ Loaded(team)["exclude"] = disk["exclude"]
        /\ Loaded(team)["minutes"] = disk["minutes"]
    BY LoadedType DEF TypeOK
  <2>. QED
    BY <2>1, <2>2, SameListFacts DEF FilesInv, DownInv
<1>. QED
  BY <1>1, StoreInvariant, PTL

(* No player is both locked and excluded while the files were never mixed. *)
THEOREM NeverBothLists == Spec => []ExclusiveUnlessMixed
<1>1. StoreInv => ExclusiveUnlessMixed
  BY DEF StoreInv, ExclusiveInv, ExclusiveUnlessMixed
<1>. QED
  BY <1>1, StoreInvariant, PTL

(* A process with no team file never adopts a lock it could not save.      *)
THEOREM LocksHaveAHome == Spec => []NoLockWithoutHome
<1>1. StoreInv => NoLockWithoutHome
  BY DEF StoreInv, DownInv, NoLockWithoutHome, Held, EmptyList
<1>. QED
  BY <1>1, StoreInvariant, PTL

-----------------------------------------------------------------------------
(* What a step may change.                                                 *)

(* A step that is none of the four writes of a save starts a call, ends    *)
(* the process, or leaves the roster and the files alone.                  *)
LEMMA StepsOfTheStore ==
  ASSUME [Next]_vars
  PROVE  \/ Start \/ Stop \/ UNCHANGED <<proc, mem, disk, behind, pc, team, next, call>>
         \/ \E t \in Thread, c \in AgentCalls \cup ServeCalls : Begin(t, c)
         \/ \E t \in Thread : WriteConfig(t)
         \/ \E t \in Thread : ConfigFails(t)
         \/ \E t \in Thread : WriteTeam(t)
         \/ \E t \in Thread : TeamFails(t)
BY DEF Next, Saving, NextDay, vars

(* Where no save has failed and none is between its two writes, config.json*)
(* holds what the process does, up to the verification that a confirm in   *)
(* progress has already moved.                                             *)
MatchInv ==
  proc # "down" /\ ~behind /\ (\A t \in Thread : pc[t] # "team") =>
    SameList(disk["exclude"], mem["exclude"]) /\ SameList(disk["minutes"], mem["minutes"])

LEMMA MatchStep == StoreInv /\ MatchInv /\ [Next]_vars => MatchInv'
<1>. SUFFICES ASSUME StoreInv, MatchInv, [Next]_vars PROVE MatchInv'
  OBVIOUS
<1>t. TypeOK
  BY DEF StoreInv
<1>1. CASE Start
  <2>1. mem'["exclude"] = disk["exclude"] /\ mem'["minutes"] = disk["minutes"] /\ disk' = disk
    BY <1>1, <1>t, LoadedType DEF Start, TypeOK
  <2>. QED
    BY <2>1, SameListFacts DEF MatchInv
<1>2. CASE Stop
  BY <1>2 DEF Stop, MatchInv
<1>3. CASE UNCHANGED <<proc, mem, disk, behind, pc, team, next, call>>
  BY <1>3 DEF MatchInv
<1>4. ASSUME NEW t \in Thread, NEW c \in AgentCalls \cup ServeCalls, Begin(t, c)
      PROVE  MatchInv'
  <2>1. c \in Call /\ day \in Day /\ ~Refused(mem, c) /\ mem \in RosterValue
    BY <1>4, <1>t, CallsAreCalls DEF TypeOK, Begin
  <2>2. /\ mem' = AfterMutate(c) /\ UNCHANGED <<disk, behind, proc>> /\ proc # "down"
        /\ \A u \in Thread : pc[u] = "idle"
    BY <1>4, StoreConstants DEF Begin, Acquire, StoreInv, MutexInv
  <2>3. ASSUME NEW l \in {"exclude", "minutes"} PROVE SameList(mem[l], mem'[l])
    <3>1. CASE c.kind = "set" /\ c.mode = "confirm"
      <4>1. c \in SetCall /\ l \in ListName
        BY <2>1, <3>1 DEF Call, RemoveCall, CorrectionsCall, ListName
      <4>. QED
        BY <2>1, <2>2, <3>1, <4>1, ConfirmKeeps DEF AfterMutate
    <3>2. CASE ~(c.kind = "set" /\ c.mode = "confirm")
      BY <2>2, <3>2, SameListFacts DEF AfterMutate
    <3>. QED
      BY <3>1, <3>2
  <2>. QED
    BY <2>2, <2>3, SameListFacts DEF MatchInv
<1>5. ASSUME NEW t \in Thread, WriteConfig(t) PROVE MatchInv'
  <2>1. /\ pc[t] = "config" /\ disk'["exclude"] = next[t]["exclude"]
        /\ disk'["minutes"] = next[t]["minutes"]
    BY <1>5, HolderFacts DEF WriteConfig, RosterValue, ListName
  <2>2. pc'[t] = "team" \/ mem' = next[t]
    BY <1>5, <1>t DEF WriteConfig, Publish, TypeOK
  <2>. QED
    BY <2>1, <2>2, SameListFacts DEF MatchInv
<1>6. ASSUME NEW t \in Thread, ConfigFails(t) PROVE MatchInv'
  <2>1. pc[t] = "config" /\ UNCHANGED <<proc, mem, disk>> /\ (behind => behind')
    BY <1>6, <1>t DEF ConfigFails, TypeOK
  <2>2. \A u \in Thread : pc[u] # "team"
    BY <2>1, HolderFacts
  <2>. QED
    BY <2>1, <2>2 DEF MatchInv
<1>7. ASSUME NEW t \in Thread, WriteTeam(t) PROVE MatchInv'
  <2>1. pc[t] = "team" /\ mem' = next[t] /\ disk' = [disk EXCEPT !["lock"] = next[t]["lock"]]
    BY <1>7 DEF WriteTeam, Publish
  <2>2. disk'["exclude"] = disk["exclude"] /\ disk'["minutes"] = disk["minutes"]
    BY <2>1, <1>t DEF TypeOK, RosterValue, ListName
  <2>3. disk["exclude"] = next[t]["exclude"] /\ disk["minutes"] = next[t]["minutes"]
    BY <2>1 DEF StoreInv, CopyInv
  <2>. QED
    BY <2>1, <2>2, <2>3, SameListFacts DEF MatchInv
<1>8. ASSUME NEW t \in Thread, TeamFails(t) PROVE MatchInv'
  BY <1>8 DEF TeamFails, MatchInv
<1>. QED
  BY <1>1, <1>2, <1>3, <1>4, <1>5, <1>6, <1>7, <1>8, StepsOfTheStore

(* The copy that a call saves differs from the roster only about the       *)
(* players that it names.                                                  *)
LEMMA CopyNamed ==
  ASSUME StoreInv, NEW t \in Thread, pc[t] # "idle", NEW l \in ListName,
         NEW p \in Player, p \notin Named(call[t])
  PROVE  next[t][l][p] = mem[l][p]
<1>1. mem \in RosterValue /\ call[t] \in Call
  BY DEF StoreInv, TypeOK, CopyInv
<1>2. next[t] = mem \/ \E d \in Day : ~Refused(mem, call[t]) /\ next[t] = Apply(mem, call[t], d)
  BY DEF StoreInv, CopyInv
<1>. QED
  BY <1>1, <1>2, ApplyElsewhere

(* A save changes nobody's standing but that of the players its call names.*)
THEOREM OnlyTheNamed == Spec => SavesTouchOnlyTheNamed
<1>. DEFINE Named1 == disk' # disk /\ ~behind =>
              \A l \in ListName, p \in Player :
                ~SameOverride(disk[l][p], disk'[l][p]) =>
                  \E t \in Thread : mu = t /\ p \in Named(call[t])
<1>1. Init => StoreInv /\ MatchInv
  BY InvInit DEF Init, MatchInv
<1>2. StoreInv /\ MatchInv /\ [Next]_vars => (StoreInv /\ MatchInv)'
  BY InvStep, MatchStep
<1>3. StoreInv /\ MatchInv /\ [Next]_vars => Named1
  <2>. SUFFICES ASSUME StoreInv, MatchInv, [Next]_vars, disk' # disk, ~behind,
                       NEW l \in ListName, NEW p \in Player,
                       ~SameOverride(disk[l][p], disk'[l][p])
                PROVE  \E t \in Thread : mu = t /\ p \in Named(call[t])
    BY Zenon
  <2>1. ASSUME NEW t \in Thread, pc[t] # "idle", p \notin Named(call[t]),
               SameList(disk[l], mem[l]), disk'[l] = next[t][l]
        PROVE  FALSE
    <3>1. next[t][l][p] = mem[l][p]
      BY <2>1, CopyNamed
    <3>. QED
      BY <2>1, <3>1 DEF SameList
  <2>2. ASSUME NEW t \in Thread, WriteConfig(t) PROVE mu = t /\ p \in Named(call[t])
    <3>1. /\ pc[t] = "config" /\ disk'["exclude"] = next[t]["exclude"]
          /\ disk'["minutes"] = next[t]["minutes"] /\ disk'["lock"] = disk["lock"]
      BY <2>2, HolderFacts DEF WriteConfig, RosterValue, ListName
    <3>2. mu = t /\ proc # "down" /\ \A u \in Thread : pc[u] # "team"
      BY <3>1, HolderFacts
    <3>3. l # "lock"
      BY <3>1 DEF SameOverride
    <3>4. SameList(disk[l], mem[l]) /\ disk'[l] = next[t][l]
      BY <3>1, <3>2, <3>3 DEF MatchInv, ListName
    <3>. QED
      BY <2>1, <3>1, <3>2, <3>4
  <2>3. ASSUME NEW t \in Thread, WriteTeam(t) PROVE mu = t /\ p \in Named(call[t])
    <3>1. pc[t] = "team" /\ disk' = [disk EXCEPT !["lock"] = next[t]["lock"]]
      BY <2>3 DEF WriteTeam
    <3>2. mu = t /\ proc # "down" /\ team /\ disk \in RosterValue
      BY <3>1, HolderFacts DEF StoreInv, CopyInv
    <3>3. l = "lock" /\ disk'[l] = next[t][l]
      BY <3>1, <3>2 DEF SameOverride, RosterValue, ListName
    <3>4. SameList(disk[l], mem[l])
      BY <3>2, <3>3 DEF StoreInv, FilesInv
    <3>. QED
      BY <2>1, <3>1, <3>2, <3>3, <3>4
  <2>4. \E t \in Thread : WriteConfig(t) \/ WriteTeam(t)
    BY StepsOfTheStore DEF Start, Stop, Begin, ConfigFails, TeamFails
  <2>. QED
    BY <2>2, <2>3, <2>4
<1>. QED
  BY <1>1, <1>2, <1>3, PTL DEF Spec, SavesTouchOnlyTheNamed

(* A confirmed minutes override stays so unless a caller said no.          *)
THEOREM ConfirmedStays == Spec => ConfirmedIsCarried
<1>. DEFINE Carried1 == proc' = proc /\ mem'["minutes"] # mem["minutes"] => \A p \in Player :
         /\ mem["minutes"][p] # NoOverride /\ mem'["minutes"][p] # NoOverride
         /\ mem["minutes"][p].confirmed /\ ~mem'["minutes"][p].confirmed
         => \E t \in Thread : mu = t /\ call[t].kind = "set" /\ call[t].say = "no"
<1>1. StoreInv /\ [Next]_vars => Carried1
  <2>. SUFFICES ASSUME StoreInv, [Next]_vars, proc' = proc, mem'["minutes"] # mem["minutes"],
                       NEW p \in Player,
                       mem["minutes"][p] # NoOverride, mem'["minutes"][p] # NoOverride,
                       mem["minutes"][p].confirmed, ~mem'["minutes"][p].confirmed
                PROVE  \E t \in Thread : mu = t /\ call[t].kind = "set" /\ call[t].say = "no"
    BY Zenon
  <2>1. ASSUME NEW t \in Thread, pc[t] # "idle", mem' = next[t]
        PROVE  mu = t /\ call[t].kind = "set" /\ call[t].say = "no"
    <3>1. mem \in RosterValue /\ call[t] \in Call /\ mu = t
      BY <2>1, HolderFacts DEF StoreInv, TypeOK, CopyInv
    <3>2. \E d \in Day : ~Refused(mem, call[t]) /\ next[t] = Apply(mem, call[t], d)
      BY <2>1 DEF StoreInv, CopyInv
    <3>. QED
      BY <2>1, <3>1, <3>2, ApplyCarries
  <2>2. ASSUME NEW t \in Thread, NEW c \in AgentCalls \cup ServeCalls, Begin(t, c)
        PROVE  FALSE
    <3>1. c \in Call /\ day \in Day /\ ~Refused(mem, c) /\ mem \in RosterValue
      BY <2>2, CallsAreCalls DEF StoreInv, TypeOK, Begin
    <3>2. mem' = Apply(mem, c, day) /\ c.kind = "set" /\ c.mode = "confirm"
      BY <2>2 DEF Begin, AfterMutate
    <3>3. c \in SetCall
      BY <3>1, <3>2 DEF Call, RemoveCall, CorrectionsCall
    <3>4. SameList(mem["minutes"], mem'["minutes"])
      BY <3>1, <3>2, <3>3, ConfirmKeeps DEF ListName
    <3>. QED
      BY <3>4 DEF SameList, SameOverride
  <2>3. \E t \in Thread : pc[t] # "idle" /\ mem' = next[t]
    <3>1. ~Start /\ ~Stop
      BY DEF Start, Stop
    <3>2. ASSUME NEW t \in Thread, WriteConfig(t) \/ WriteTeam(t)
          PROVE  pc[t] # "idle" /\ mem' = next[t]
      BY <3>2 DEF WriteConfig, WriteTeam, Publish
    <3>. QED
      BY <2>2, <3>1, <3>2, StepsOfTheStore DEF ConfigFails, TeamFails
  <2>. QED
    BY <2>1, <2>3
<1>. QED
  BY <1>1, StoreInvariant, PTL DEF Spec, ConfirmedIsCarried

-----------------------------------------------------------------------------
(* The refinement.                                                         *)

(* The book's copies of the operators of Roster are the store's own.       *)
LEMMA BookLists ==
  /\ Book!EmptyRoster = EmptyRoster
  /\ Book!RosterValue = RosterValue
  /\ Book!Call = Call
  /\ \A r, c : Book!Refused(r, c) <=> Refused(r, c)
<1>1. Book!EmptyRoster = EmptyRoster
  BY DEF Book!EmptyRoster, EmptyRoster, Book!EmptyList, EmptyList, Book!ListName, ListName
<1>2. Book!RosterValue = RosterValue
  BY DEF Book!RosterValue, RosterValue, Book!OverrideList, OverrideList, Book!Override,
     Override, Book!ListName, ListName
<1>3. Book!Call = Call
  BY DEF Book!Call, Call, Book!SetCall, SetCall, Book!RemoveCall, RemoveCall,
     Book!CorrectionsCall, CorrectionsCall, Book!Mode, Mode, Book!Said, Said,
     Book!ListName, ListName
<1>4. \A r, c : Book!Refused(r, c) <=> Refused(r, c)
  BY DEF Book!Refused, Refused, Book!SetRefused, SetRefused, Book!Standing, Standing,
     Book!ListName, ListName
<1>. QED
  BY <1>1, <1>2, <1>3, <1>4

LEMMA BookApply ==
  ASSUME NEW r, NEW c, NEW d
  PROVE  Book!Apply(r, c, d) = Apply(r, c, d)
<1>1. Book!confirm(r, c, d) = confirm(r, c, d)
  BY DEF Book!confirm, confirm, Book!HoldingList, HoldingList, Book!place, place,
     Book!Reverified, Reverified
<1>2. Book!NewOverride(r, c, d) = NewOverride(r, c, d)
  BY DEF Book!NewOverride, NewOverride
<1>3. Book!PutOn(c.mode) = PutOn(c.mode) /\ Book!TakenOff(c.mode) = TakenOff(c.mode)
  BY DEF Book!PutOn, PutOn, Book!TakenOff, TakenOff, Book!ListName, ListName
<1>4. Book!Set(r, c, d) = Set(r, c, d)
  BY <1>1, <1>2, <1>3 DEF Book!Set, Set, Book!place, place, Book!removeCode, removeCode,
     Book!ListName, ListName
<1>5. Book!Remove(r, c.list, c.player) = Remove(r, c.list, c.player)
  BY DEF Book!Remove, Remove, Book!removeCode, removeCode
<1>6. Book!Corrections(r, c, d) = Corrections(r, c, d)
  BY DEF Book!Corrections, Corrections, Book!PlainOverride, PlainOverride, Book!placeAll,
     placeAll, Book!removeAll, removeAll, Book!ListName, ListName
<1>. QED
  BY <1>4, <1>5, <1>6 DEF Book!Apply, Apply

(* Every step of the store is one step of the book, or leaves it alone.    *)
LEMMA BookStep ==
  StoreInv /\ [Next]_vars => [Book!Open \/ Book!Close \/ Book!Take]_(Book!bookVars)
<1>. SUFFICES ASSUME StoreInv, [Next]_vars
              PROVE  Book!Open \/ Book!Close \/ Book!Take \/ UNCHANGED Book!bookVars
  OBVIOUS
<1>. USE DEF StoreInv
<1>1. CASE Start
  BY <1>1, LoadedType, BookLists DEF Start, Book!Open, TypeOK
<1>2. CASE Stop
  BY <1>2, BookLists DEF Stop, Book!Close
<1>3. CASE NextDay \/ UNCHANGED vars
  BY <1>3 DEF NextDay, vars, Book!bookVars
<1>4. ASSUME NEW t \in Thread, NEW c \in AgentCalls \cup ServeCalls, Begin(t, c)
      PROVE  Book!Take \/ UNCHANGED Book!bookVars
  <2>1. c \in Call /\ day \in Day /\ ~Refused(mem, c)
    BY <1>4, CallsAreCalls DEF TypeOK, Begin
  <2>2. mem' = mem \/ mem' = Apply(mem, c, day)
    BY <1>4 DEF Begin, AfterMutate
  <2>. QED
    BY <1>4, <2>1, <2>2, BookLists, BookApply DEF Begin, Book!Take, Book!bookVars
<1>5. ASSUME NEW t \in Thread, pc[t] # "idle", Publish(t), UNCHANGED proc
      PROVE  Book!Take \/ UNCHANGED Book!bookVars
  <2>1. mem' = next[t] /\ proc # "down" /\ call[t] \in Call
    BY <1>5 DEF Publish, CopyInv
  <2>2. \/ next[t] = mem
        \/ \E d \in Day : ~Refused(mem, call[t]) /\ next[t] = Apply(mem, call[t], d)
    BY <1>5 DEF CopyInv
  <2>. QED
    BY <1>5, <2>1, <2>2, BookLists, BookApply DEF Book!Take, Book!bookVars
<1>6. ASSUME NEW t \in Thread, Saving(t)
      PROVE  Book!Take \/ UNCHANGED Book!bookVars
  <2>1. CASE WriteConfig(t)
    <3>1. CASE teamChanged(mem, next[t])
      BY <2>1, <3>1 DEF WriteConfig, Book!bookVars
    <3>2. CASE ~teamChanged(mem, next[t])
      BY <2>1, <3>2, <1>5 DEF WriteConfig
    <3>. QED
      BY <3>1, <3>2
  <2>2. CASE ConfigFails(t) \/ TeamFails(t)
    BY <2>2 DEF ConfigFails, TeamFails, Book!bookVars
  <2>3. CASE WriteTeam(t)
    BY <2>3, <1>5 DEF WriteTeam
  <2>. QED
    BY <1>6, <2>1, <2>2, <2>3 DEF Saving
<1>. QED
  BY <1>1, <1>2, <1>3, <1>4, <1>6 DEF Next

(* The store implements the atomic book.                                   *)
THEOREM StoreImplementsBook == Spec => ImplementsBook
<1>1. Init => Book!BookInit
  BY BookLists DEF Init, Book!BookInit
<1>. QED
  BY <1>1, BookStep, StoreInvariant, PTL DEF Spec, ImplementsBook, Book!BookSpec

=============================================================================

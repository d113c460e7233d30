--------------------------- MODULE OverrideStore ----------------------------
(***************************************************************************)
(* The store of standing overrides: config.json and team.json, the copy a  *)
(* running process answers from, and the read-modify-write every writer    *)
(* makes under one mutex (Toolbox.updateConfig in internal/agent/tools.go, *)
(* action and persistCorrections in cmd/armband).                          *)
(*                                                                         *)
(* A writer copies the roster, changes the copy, and config.SavePair writes*)
(* config.json and then, if the locks moved, team.json.  Either write may  *)
(* fail, and the process may stop between any two steps.  Processes run one*)
(* at a time, an agent run or the squad server under -persist, each started*)
(* with or without -team.                                                  *)
(***************************************************************************)
EXTENDS Roster

CONSTANTS Thread,      \* concurrent tool calls, or requests of the server
          Free,        \* the mutex is not held
          AgentCalls,  \* calls the agent makes through set_player_status
          ServeCalls,  \* calls the squad server makes
          NoCall       \* a thread with no call in progress

ASSUME StoreConstants ==
  /\ Free \notin Thread
  /\ AgentCalls \subseteq SetCall
  /\ ServeCalls \subseteq {c \in SetCall : c.mode \in {"lock", "exclude"}}
                          \cup RemoveCall \cup CorrectionsCall
  /\ NoCall \notin Call
  /\ 0 \in Day

VARIABLES day,     \* today
          proc,    \* "down", or which kind of process is running
          team,    \* whether it was started with -team
          mu,      \* the thread holding Toolbox.mu or squadServer.mu, or Free
          mem,     \* the roster in the process: Toolbox.Cfg or *squadServer.cfg
          disk,    \* team.json (lock) and config.json (exclude, minutes)
          pc,      \* per thread: "idle", about to write "config", or "team"
          call,    \* per thread: the call it is making
          next,    \* per thread: the changed copy it is saving
          behind,  \* history: mem may differ from the files since a failed save
          mixed    \* history: the two files may disagree about a player

vars == <<day, proc, team, mu, mem, disk, pc, call, next, behind, mixed>>

Idle == [t \in Thread |-> "idle"]

Init ==
  /\ day = 0
  /\ proc = "down" /\ team = FALSE
  /\ mu = Free
  /\ mem = EmptyRoster
  /\ disk = EmptyRoster
  /\ pc = Idle
  /\ call = [t \in Thread |-> NoCall]
  /\ next = [t \in Thread |-> EmptyRoster]
  /\ behind = FALSE /\ mixed = FALSE

-----------------------------------------------------------------------------
(* Faulty: the team file read although -team was not given.                *)
LoadedRegardless(withTeam) == disk

(* loadConfigPair: config.json, with the team file laid over it if named.  *)
Loaded(withTeam) == [disk EXCEPT !["lock"] = IF withTeam THEN @ ELSE EmptyList]

Start ==
  /\ proc = "down"
  /\ proc' \in {"agent", "serve"}
  /\ team' \in BOOLEAN
  /\ mem' = Loaded(team')
  /\ UNCHANGED <<day, mu, disk, pc, call, next, behind, mixed>>

(* The process ends or is killed, between or inside the steps of a save.   *)
Stop ==
  /\ proc # "down"
  /\ proc' = "down" /\ team' = FALSE
  /\ mu' = Free
  /\ mem' = EmptyRoster
  /\ pc' = Idle
  /\ call' = [t \in Thread |-> NoCall]
  /\ next' = [t \in Thread |-> EmptyRoster]
  /\ behind' = FALSE
  /\ mixed' = (mixed \/ behind \/ \E t \in Thread : pc[t] = "team")
  /\ UNCHANGED <<day, disk>>

NextDay ==
  /\ day + 1 \in Day
  /\ day' = day + 1
  /\ UNCHANGED <<proc, team, mu, mem, disk, pc, call, next, behind, mixed>>

-----------------------------------------------------------------------------
Calls == IF proc = "agent" THEN AgentCalls ELSE ServeCalls

(* The roster of the process once the copy has been changed.  Most modes   *)
(* build new lists and leave it alone; confirm writes through the list the *)
(* copy shares with it.                                                    *)
AfterMutate(c) ==
  IF c.kind = "set" /\ c.mode = "confirm" THEN Apply(mem, c, day) ELSE mem

(* Faulty: Save in place of SavePair, which never looks at the locks.      *)
neverChanged(before, after) == FALSE

(* A lock repeated with another reason alone counts as unchanged here.     *)
teamChanged(before, after) == before["lock"] # after["lock"]

(* Faulty: the read-modify-write begins without the mutex.                 *)
Unguarded(t) == pc[t] = "idle"

Acquire(t) == pc[t] = "idle" /\ mu = Free

(* Take the mutex, copy the roster and change the copy.  A call Roster.Set *)
(* refuses, or one that moves a lock with no team file to put it in, ends  *)
(* here and changes nothing.                                               *)
Begin(t, c) ==
  /\ proc # "down"
  /\ Acquire(t)
  /\ c \in Calls
  /\ ~Refused(mem, c)
  /\ teamChanged(AfterMutate(c), Apply(mem, c, day)) => team
  /\ mu' = t
  /\ mem' = AfterMutate(c)
  /\ pc' = [pc EXCEPT ![t] = "config"]
  /\ call' = [call EXCEPT ![t] = c]
  /\ next' = [next EXCEPT ![t] = Apply(mem, c, day)]
  /\ UNCHANGED <<day, proc, team, disk, behind, mixed>>

Release(t) ==
  /\ mu' = Free
  /\ pc' = [pc EXCEPT ![t] = "idle"]
  /\ call' = [call EXCEPT ![t] = NoCall]
  /\ next' = [next EXCEPT ![t] = EmptyRoster]

(* Faulty: the copy was saved and not adopted.                             *)
Forget(t) ==
  /\ behind' = FALSE
  /\ mixed' = (mixed \/ ~team)
  /\ Release(t)
  /\ UNCHANGED mem

(* The save succeeded: the copy becomes the roster of the process.         *)
Publish(t) ==
  /\ mem' = next[t]
  /\ behind' = FALSE
  /\ mixed' = (mixed \/ ~team)
  /\ Release(t)

WriteConfig(t) ==
  /\ pc[t] = "config"
  /\ disk' = [disk EXCEPT !["exclude"] = next[t]["exclude"], !["minutes"] = next[t]["minutes"]]
  /\ IF teamChanged(mem, next[t])
     THEN /\ pc' = [pc EXCEPT ![t] = "team"]
          /\ UNCHANGED <<mu, mem, call, next, behind, mixed>>
     ELSE Publish(t)
  /\ UNCHANGED <<day, proc, team>>

(* Save returns its error and nothing reached config.json.                 *)
ConfigFails(t) ==
  /\ pc[t] = "config"
  /\ behind' = (behind \/ mem = next[t])
  /\ Release(t)
  /\ UNCHANGED <<day, proc, team, mem, disk, mixed>>

WriteTeam(t) ==
  /\ pc[t] = "team"
  /\ disk' = [disk EXCEPT !["lock"] = next[t]["lock"]]
  /\ Publish(t)
  /\ UNCHANGED <<day, proc, team>>

(* SaveTeam returns its error after config.json was already replaced.      *)
TeamFails(t) ==
  /\ pc[t] = "team"
  /\ behind' = TRUE
  /\ Release(t)
  /\ UNCHANGED <<day, proc, team, mem, disk, mixed>>

Saving(t) == WriteConfig(t) \/ ConfigFails(t) \/ WriteTeam(t) \/ TeamFails(t)

Next ==
  \/ Start \/ Stop \/ NextDay
  \/ \E t \in Thread :
       \/ \E c \in AgentCalls \cup ServeCalls : Begin(t, c)
       \/ Saving(t)

Spec == Init /\ [][Next]_vars


-----------------------------------------------------------------------------
TypeOK ==
  /\ day \in Day
  /\ proc \in {"down", "agent", "serve"} /\ team \in BOOLEAN
  /\ mu \in Thread \cup {Free}
  /\ mem \in RosterValue /\ disk \in RosterValue
  /\ pc \in [Thread -> {"idle", "config", "team"}]
  /\ call \in [Thread -> Call \cup {NoCall}]
  /\ next \in [Thread -> RosterValue]
  /\ behind \in BOOLEAN /\ mixed \in BOOLEAN

(* Two lists hold the same overrides, except for how far each has been     *)
(* re-verified: the date and the expiry that "confirm" moves.              *)
SameOverride(a, b) ==
  \/ a = b
  \/ /\ a # NoOverride /\ b # NoOverride
     /\ a.start = b.start /\ a.mins = b.mins /\ a.confirmed = b.confirmed

SameList(a, b) == \A p \in Player : SameOverride(a[p], b[p])

(* A call that reported success survives a restart: whenever no save is in *)
(* progress and none has failed since the last good one, a process started *)
(* the same way would load the very roster this one answers from.  The     *)
(* locks agree up to their verification: confirming a lock is not written  *)
(* to team.json.  About SavePair deciding which of two files to write.     *)
SavedIsLoaded ==
  proc # "down" /\ mu = Free /\ ~behind =>
    /\ Loaded(team)["exclude"] = mem["exclude"]
    /\ Loaded(team)["minutes"] = mem["minutes"]
    /\ SameList(Loaded(team)["lock"], mem["lock"])

(* The running process never holds a player both locked and excluded, as   *)
(* long as the two files were never left disagreeing: no run ended between *)
(* the two writes of a save, and none saved without -team.  About Set      *)
(* removing from the opposite list when the lists live in different files. *)
ExclusiveUnlessMixed == ~mixed => Exclusive(mem)

(* A process with no team file never holds a lock: the call is refused,    *)
(* where adopting it would report success for a lock that is in no file.   *)
NoLockWithoutHome == ~team => Held(mem["lock"]) = {}

(* A save changes the standing of nobody but the players its call names:   *)
(* what another call put in either file is still there afterwards.  After  *)
(* a failed save this is not claimed: the next one overwrites its half.    *)
SavesTouchOnlyTheNamed ==
  [][disk' # disk /\ ~behind =>
       \A l \in ListName, p \in Player :
         ~SameOverride(disk[l][p], disk'[l][p]) =>
           \E t \in Thread : mu = t /\ p \in Named(call[t])]_vars

(* A nailed starter is never walked back in silence: a minutes override    *)
(* marked confirmed stays confirmed through every later correction, unless *)
(* the caller said no.  About Roster.Set resolving the tri-state argument. *)
ConfirmedIsCarried ==
  [][proc' = proc /\ mem'["minutes"] # mem["minutes"] => \A p \in Player :
         /\ mem["minutes"][p] # NoOverride /\ mem'["minutes"][p] # NoOverride
         /\ mem["minutes"][p].confirmed /\ ~mem'["minutes"][p].confirmed
         => \E t \in Thread : mu = t /\ call[t].kind = "set" /\ call[t].say = "no"]_vars

(* The detailed store implements the atomic book: the roster the process   *)
(* answers from changes by one whole call at a time.                       *)
Book == INSTANCE AtomicBook WITH live <- proc # "down", book <- mem

ImplementsBook == Book!BookSpec

(* Roster.Set's comment, internal/config/roster.go: a player "cannot be    *)
(* locked and excluded at once", said of every roster the process holds.   *)
NeverLockedAndExcluded == Exclusive(mem)

-----------------------------------------------------------------------------
(* What makes the properties above inductive.                              *)

(* The thread inside the read-modify-write is the holder of the mutex.     *)
MutexInv == \A t \in Thread : pc[t] # "idle" <=> mu = t

(* The copy being saved is the roster of the process with one call applied;*)
(* for "confirm" the call is already in the roster itself.                 *)
CopyInv ==
  \A t \in Thread : pc[t] # "idle" =>
    /\ proc # "down" /\ call[t] \in Call
    /\ \/ next[t] = mem
       \/ \E d \in Day : ~Refused(mem, call[t]) /\ next[t] = Apply(mem, call[t], d)
    /\ teamChanged(mem, next[t]) => team
    /\ pc[t] = "team" => /\ team
                         /\ disk["exclude"] = next[t]["exclude"]
                         /\ disk["minutes"] = next[t]["minutes"]

DownInv ==
  /\ proc = "down" => ~team /\ ~behind /\ mem = EmptyRoster /\ pc = Idle
  /\ ~team => mem["lock"] = EmptyList

(* What the files hold, seen from the running process.                     *)
FilesInv ==
  proc # "down" =>
    /\ team => SameList(disk["lock"], mem["lock"])
    /\ /\ ~behind
       /\ \A t \in Thread : pc[t] # "team" /\ (pc[t] = "config" => mem # next[t])
       => disk["exclude"] = mem["exclude"] /\ disk["minutes"] = mem["minutes"]

ExclusiveInv ==
  ~mixed => /\ Exclusive(mem)
            /\ ~behind /\ (\A t \in Thread : pc[t] # "team") => Exclusive(disk)

StoreInv == TypeOK /\ MutexInv /\ CopyInv /\ DownInv /\ FilesInv /\ ExclusiveInv
=============================================================================

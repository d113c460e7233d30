----------------------------- MODULE AgentTurn ------------------------------
(***************************************************************************)
(* One run of the agent after another: Agent.Ask of                        *)
(* internal/agent/agent.go and the tools its model calls, each in the      *)
(* steps that its locks make of it.                                        *)
(*                                                                         *)
(* A run loads config.json, builds an engine from it and asks.  A reply of *)
(* the API calls tools, pauses, or ends the turn.  The tool runner starts  *)
(* the calls of one reply together and sends the next request when all of  *)
(* them have returned.  Two tools change what other tools read:            *)
(* set_player_status writes the config and then the engine's minutes;      *)
(* update_competition_status writes the engine's windows and then the      *)
(* config.  SavePair's two files are OverrideStore's matter: here a save   *)
(* writes both or nothing.  The API and the SDK's runner are external.     *)
(***************************************************************************)
EXTENDS Roster, FiniteSets

CONSTANTS Now,            \* the gameweek the runs are made before
          Club,
          Competition,
          European,       \* the competitions kept in Congestion.European
          End,            \* dates a window may end on, and none given:
          NoEnd,
          NoWindow,       \* a club is not in a competition
          FirstWindows,   \* the windows config.json has before the first run
          ToolCall,       \* calls the API may ask for
          Reply,          \* the sets of calls it may make in one reply
          MaxIterations,  \* Config.MaxIterations, requests to a runner
          MaxRestarts     \* resumptions of a paused turn, 4 in the code

(* Congestion: whether each club is in each competition, and till when.    *)
Windows == [Competition -> End \cup {NoWindow}]
Congestion == [Club -> Windows]

(* update_competition_status: set an end date, or none, or remove the      *)
(* window.                                                                 *)
WindowCall == [kind : {"window"}, club : Club, comp : Competition, end : End,
               remove : BOOLEAN]

(* Faulty: a fifth resumption.                                             *)
OnceMore(n) == n <= MaxRestarts

(* Whether a turn paused for the n+1st time is resumed.                    *)
MayResume(n) == n < MaxRestarts

ASSUME TurnConstants ==
  /\ Now \in Nat \ {0} /\ 0 \in Day
  /\ European \subseteq Competition
  /\ NoEnd \in End /\ NoWindow \notin End
  /\ FirstWindows \in Congestion
  /\ ToolCall \subseteq {c \in SetCall : c.mode = "minutes" => c.mins # Unset} \cup WindowCall
  /\ Reply \subseteq SUBSET ToolCall
  /\ MaxIterations \in Nat \ {0}
  /\ MaxRestarts \in Nat

SetCalls    == ToolCall \cap SetCall
WindowCalls == ToolCall \cap WindowCall

(* What the engine holds of a player's minutes: one entry of each of its   *)
(* three maps, or none.                                                    *)
Correction == [mins : Minutes, until : Gameweek \cup {0}, confirmed : BOOLEAN]
NoCorrection == [mins |-> Unset, until |-> 0, confirmed |-> FALSE]
EngineMinutes == [Player -> Correction \cup {NoCorrection}]

Settings == [roster : RosterValue, cong : Congestion]

VARIABLES file,        \* config.json and team.json
          cfg,         \* Toolbox.Cfg
          minutes,     \* Engine.MinutesOverride, ...Until and ...Confirmed
          cong,        \* Engine.Cong
          phase,       \* "down", "asking" the API, or running its "tools"
          iterations,  \* requests made of the current runner
          restarts,    \* resumptions in this Ask
          unheld,      \* replies that Ask's runner.Params.Messages lacks
          at,          \* per call: where its handler stands
          confirmed,   \* per call: what it read back
          copy         \* per call: the congestion it edits, then saves

engine == <<minutes, cong>>
loop   == <<phase, iterations, restarts, unheld>>
local  == <<at, confirmed, copy>>
vars   == <<file, cfg, engine, loop, local>>

Stage  == {"none", "called", "written", "readback", "edited", "swapped",
           "refused", "unsaved", "done"}
Ended  == {"none", "refused", "unsaved", "done"}

Idle       == [c \in ToolCall |-> "none"]
NothingRead == [c \in ToolCall |-> FALSE]
NoCopies   == [c \in ToolCall |-> FirstWindows]
NoneInstalled == [p \in Player |-> NoCorrection]
FirstSettings == [roster |-> EmptyRoster, cong |-> FirstWindows]

Init ==
  /\ file = FirstSettings /\ cfg = FirstSettings
  /\ minutes = NoneInstalled /\ cong = FirstWindows
  /\ phase = "down" /\ iterations = 0 /\ restarts = 0 /\ unheld = 0
  /\ at = Idle /\ confirmed = NothingRead /\ copy = NoCopies

-----------------------------------------------------------------------------
(* applyMinutesOverrides: the corrections in force of those on file.       *)
Installed(o) == [mins |-> o.mins, until |-> o.until, confirmed |-> o.confirmed]

Loaded(roster) ==
  LET list == roster["minutes"]
  IN  [p \in Player |->
         IF p \in Active(list, Now) /\ list[p].mins # Unset THEN Installed(list[p])
         ELSE NoCorrection]

(* A run: the config is read, the engine is built and the first request    *)
(* sent.                                                                   *)
Start ==
  /\ phase = "down"
  /\ cfg' = file
  /\ minutes' = Loaded(file.roster) /\ cong' = file.cong
  /\ phase' = "asking" /\ iterations' = 1
  /\ UNCHANGED <<file, restarts, unheld, local>>

(* The process is gone, and all it held.                                   *)
Down ==
  /\ cfg' = FirstSettings
  /\ minutes' = NoneInstalled /\ cong' = FirstWindows
  /\ phase' = "down" /\ iterations' = 0 /\ restarts' = 0 /\ unheld' = 0
  /\ at' = Idle /\ confirmed' = NothingRead /\ copy' = NoCopies
  /\ UNCHANGED file

-----------------------------------------------------------------------------
(* Replies of the API.                                                     *)

(* The first runner is Ask's own; what a resumed one accumulates reaches   *)
(* Ask's when its loop is over.                                            *)
Accumulated == IF restarts = 0 THEN 0 ELSE unheld + 1

CallTools(reply) ==
  /\ phase = "asking"
  /\ phase' = "tools"
  /\ at' = [c \in ToolCall |-> IF c \in reply THEN "called" ELSE "none"]
  /\ unheld' = Accumulated
  /\ UNCHANGED <<file, cfg, engine, iterations, restarts, confirmed, copy>>

(* Faulty: runner = resumed forgotten.                                     *)
NotHandedOver(n) == n

(* The replies runner lacks once the loop over a resumed one has ended.    *)
HandedOver(n) == 0

(* Faulty: the resumption is not counted.                                  *)
Uncounted(n) == n
Counted(n) == n + 1

(* pause_turn: a new runner goes on from runner's messages and this reply. *)
Pause ==
  /\ phase = "asking"
  /\ MayResume(restarts)
  /\ restarts' = Counted(restarts) /\ iterations' = 1
  /\ unheld' = HandedOver(unheld)
  /\ UNCHANGED <<file, cfg, engine, phase, local>>

(* The last reply is in: an answer, a refusal, an empty text, a pause too  *)
(* many, an API error, or calls that the runner has no request left for.   *)
Finish ==
  /\ phase = "asking"
  /\ Down

(* All calls have returned: the next request, if one is left.              *)
AllReturned == phase = "tools" /\ \A c \in ToolCall : at[c] \in Ended

Join ==
  /\ AllReturned
  /\ IF iterations < MaxIterations
     THEN /\ phase' = "asking" /\ iterations' = iterations + 1
          /\ at' = Idle
          /\ UNCHANGED <<file, cfg, engine, restarts, unheld, confirmed, copy>>
     ELSE Down

-----------------------------------------------------------------------------
(* set_player_status, which is updateConfig under t.mu, ...                *)
Written(c) == [cfg EXCEPT !.roster = Set(@, c, 0)]

ToldEngine(c) == c.mode \in {"minutes", "clear"}

WriteStatus(c) ==
  /\ at[c] = "called" /\ ~SetRefused(cfg.roster, c)
  /\ cfg' = Written(c) /\ file' = Written(c)
  /\ at' = [at EXCEPT ![c] = IF ToldEngine(c) THEN "written" ELSE "done"]
  /\ UNCHANGED <<engine, loop, confirmed, copy>>

(* ... or fails: there is nothing to confirm, or SavePair reports an error.*)
(* confirm edits entries that the copy shares with t.Cfg.                  *)
FailStatus(c) ==
  /\ at[c] = "called"
  /\ cfg' = IF c.mode = "confirm" /\ ~SetRefused(cfg.roster, c) THEN Written(c) ELSE cfg
  /\ at' = [at EXCEPT ![c] = "refused"]
  /\ UNCHANGED <<file, engine, loop, confirmed, copy>>

(* Faulty: the carry-forward rule left out of the second derivation.       *)
Rederived(r, c) == c.say = "yes"

(* What Set resolved Confirmed to, as the config has it by now.            *)
Resolved(r, c) == r["minutes"][c.player] # NoOverride /\ r["minutes"][c.player].confirmed

ReadBack(c) ==
  /\ at[c] = "written" /\ c.mode = "minutes"
  /\ confirmed' = [confirmed EXCEPT ![c] = Resolved(cfg.roster, c)]
  /\ at' = [at EXCEPT ![c] = "readback"]
  /\ UNCHANGED <<file, cfg, engine, loop, copy>>

SetMinutesOverride(c) ==
  /\ at[c] = "readback" /\ c.mode = "minutes"
  /\ minutes' = [minutes EXCEPT ![c.player] =
                   [mins |-> c.mins, until |-> c.until, confirmed |-> confirmed[c]]]
  /\ confirmed' = [confirmed EXCEPT ![c] = FALSE]
  /\ at' = [at EXCEPT ![c] = "done"]
  /\ UNCHANGED <<file, cfg, cong, loop, copy>>

ClearMinutesOverride(c) ==
  /\ at[c] = "written" /\ c.mode = "clear"
  /\ minutes' = [minutes EXCEPT ![c.player] = NoCorrection]
  /\ at' = [at EXCEPT ![c] = "done"]
  /\ UNCHANGED <<file, cfg, cong, loop, confirmed, copy>>

-----------------------------------------------------------------------------
(* update_competition_status: the club's windows are copied without the    *)
(* lock and edited: one that is there keeps its end date where the call    *)
(* gives none, ...                                                         *)
Edited(g, c) ==
  [g EXCEPT ![c.club][c.comp] =
     IF c.remove THEN NoWindow ELSE IF c.end = NoEnd /\ @ # NoWindow THEN @ ELSE c.end]

EditWindows(c) ==
  /\ at[c] = "called"
  /\ IF c.remove /\ cong[c.club][c.comp] = NoWindow
     THEN /\ at' = [at EXCEPT ![c] = "refused"]
          /\ UNCHANGED copy
     ELSE /\ at' = [at EXCEPT ![c] = "edited"]
          /\ copy' = [copy EXCEPT ![c] = Edited(cong, c)]
  /\ UNCHANGED <<file, cfg, engine, loop, confirmed>>

SameMap(a, b) == a \in European <=> b \in European

(* Faulty: the whole map installed as the tool read it.                    *)
SwappedMap(g, edited, c) ==
  [b \in Club |-> [k \in Competition |->
     IF SameMap(k, c.comp) THEN edited[b][k] ELSE g[b][k]]]

(* ... replace what the engine's map has of that club by now, ...          *)
Swapped(g, edited, c) ==
  [g EXCEPT ![c.club] = [k \in Competition |->
     IF SameMap(k, c.comp) THEN edited[c.club][k] ELSE @[k]]]

SetCompetitionWindows(c) ==
  /\ at[c] = "edited"
  /\ cong' = Swapped(cong, copy[c], c)
  /\ copy' = [copy EXCEPT ![c] = cong']
  /\ at' = [at EXCEPT ![c] = "swapped"]
  /\ UNCHANGED <<file, cfg, minutes, loop, confirmed>>

(* Faulty: only this club's windows are put into the config.               *)
PatchedSettings(s, updated, c) ==
  [s EXCEPT !.cong = [@ EXCEPT ![c.club] = updated[c.club]]]

(* ... and the engine's whole congestion, as it was then, is put into the  *)
(* config.                                                                 *)
Recongested(s, updated, c) == [s EXCEPT !.cong = updated]

SaveWindows(c) ==
  /\ at[c] = "swapped"
  /\ cfg' = Recongested(cfg, copy[c], c) /\ file' = cfg'
  /\ at' = [at EXCEPT ![c] = "done"]
  /\ copy' = [copy EXCEPT ![c] = FirstWindows]
  /\ UNCHANGED <<engine, loop, confirmed>>

FailWindows(c) ==
  /\ at[c] = "swapped"
  /\ at' = [at EXCEPT ![c] = "unsaved"]
  /\ copy' = [copy EXCEPT ![c] = FirstWindows]
  /\ UNCHANGED <<file, cfg, engine, loop, confirmed>>

-----------------------------------------------------------------------------
Answer == (\E reply \in Reply : CallTools(reply)) \/ Pause \/ Finish

SetStatus(c) ==
  WriteStatus(c) \/ FailStatus(c) \/ ReadBack(c) \/ SetMinutesOverride(c) \/ ClearMinutesOverride(c)

UpdateCompetition(c) ==
  EditWindows(c) \/ SetCompetitionWindows(c) \/ SaveWindows(c) \/ FailWindows(c)

Tool == (\E c \in SetCalls : SetStatus(c)) \/ (\E c \in WindowCalls : UpdateCompetition(c))

(* The process is stopped, at any point.                                   *)
Stop == phase # "down" /\ Down

Next == Start \/ Answer \/ Tool \/ Join \/ Stop

(* The API answers or its client gives up, and a goroutine that may take a *)
(* step takes it in the end.                                               *)
Spec == Init /\ [][Next]_vars /\ WF_vars(Answer) /\ WF_vars(Tool) /\ WF_vars(Join)

-----------------------------------------------------------------------------
(* Every variable keeps its type; in particular a turn is resumed at most  *)
(* MaxRestarts times and no runner makes more than MaxIterations requests. *)
TypeOK ==
  /\ file \in Settings /\ cfg \in Settings
  /\ minutes \in EngineMinutes /\ cong \in Congestion
  /\ phase \in {"down", "asking", "tools"}
  /\ iterations \in 0..MaxIterations /\ restarts \in 0..MaxRestarts /\ unheld \in Nat
  /\ at \in [ToolCall -> Stage]
  /\ confirmed \in [ToolCall -> BOOLEAN] /\ copy \in [ToolCall -> Congestion]

(* No other call of this reply is about the player.                        *)
LoneOnPlayer(c) == \A d \in SetCalls \ {c} : at[d] # "none" => d.player # c.player

Entry(list, p) == IF list[p] = NoOverride THEN NoCorrection ELSE Installed(list[p])

(* set_player_status "binds optimize_squad and suggest_transfers from here *)
(* on, and every future run": however the other calls of the reply fell    *)
(* between its steps, a minutes or clear call that succeeded leaves the    *)
(* engine with what it asked for and the files with the same, confidence   *)
(* and expiry included.  Two calls about one player are left out: they     *)
(* may leave the engine and the files apart.                               *)
AnOverrideBindsAtOnce ==
  AllReturned =>
    \A c \in SetCalls :
      at[c] = "done" /\ LoneOnPlayer(c) /\ ToldEngine(c) =>
        /\ minutes[c.player] = Entry(file.roster["minutes"], c.player)
        /\ minutes[c.player].mins = IF c.mode = "minutes" THEN c.mins ELSE Unset

SameWindows(c, d) == c.club = d.club /\ SameMap(c.comp, d.comp)

(* What a call asks of its window: to be gone, or to be there, and to end  *)
(* on the date given if one is.                                            *)
Holds(window, c) ==
  /\ c.remove <=> window = NoWindow
  /\ ~c.remove /\ c.end # NoEnd => window = c.end

(* However calls of one reply overlap, the engine scores every correction  *)
(* that got as far as the engine: a call about another club, or another of *)
(* the two maps, never takes one back.                                     *)
EngineHoldsEveryCorrection ==
  AllReturned =>
    \A c \in WindowCalls :
      /\ at[c] \in {"done", "unsaved"}
      /\ \A d \in WindowCalls \ {c} : at[d] # "none" => ~SameWindows(c, d)
      => Holds(cong[c.club][c.comp], c)

(* "Persist so the correction survives to next week's review": a saved     *)
(* correction made by the only update_competition_status of its reply      *)
(* leaves the files with all the engine knows of competitions, what        *)
(* earlier replies failed to save included.  Two in one reply may save     *)
(* their snapshots in the other order, and the later one is lost.          *)
ALoneCorrectionIsSaved ==
  AllReturned =>
    \A c \in WindowCalls :
      at[c] = "done" /\ (\A d \in WindowCalls \ {c} : at[d] = "none") => file.cong = cong

(* A resumed turn goes on from every reply and tool result of the turns    *)
(* before it, however often it pauses.                                     *)
ResumesWithItsWork == phase = "asking" /\ iterations = 1 => unheld = 0

(* Every question comes to an end, whatever the model asks for and however *)
(* often its turn pauses.                                                  *)
EveryAskEnds == phase # "down" ~> phase = "down"
=============================================================================

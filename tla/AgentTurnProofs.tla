-------------------------- MODULE AgentTurnProofs ---------------------------
(***************************************************************************)
(* Theorems about AgentTurn for every set of players, clubs, competitions, *)
(* tool calls and replies, and every cap on iterations and restarts.       *)
(***************************************************************************)
EXTENDS AgentTurn, TLAPS

-----------------------------------------------------------------------------
(* What Roster.Set does to a roster.                                       *)

LEMMA EmptyType == EmptyRoster \in RosterValue
BY DEF EmptyRoster, EmptyList, RosterValue, OverrideList

LEMMA NewOverrideType ==
  ASSUME NEW r, NEW c \in SetCall, NEW d \in Day
  PROVE  NewOverride(r, c, d) \in Override
BY DEF SetCall, NewOverride, Override

(* A "confirm" that is not refused finds an override to refresh.           *)
LEMMA ConfirmFinds ==
  ASSUME NEW r \in RosterValue, NEW c \in SetCall, c.mode = "confirm", ~Refused(r, c)
  PROVE  /\ HoldingList(r, c.player) \in ListName
         /\ r[HoldingList(r, c.player)][c.player] # NoOverride
         /\ r[HoldingList(r, c.player)][c.player] \in Override
BY DEF HoldingList, Refused, SetRefused, Standing, ListName, RosterValue, OverrideList,
   SetCall

(* A call of set_player_status that is not refused makes a roster.         *)
LEMMA SetType ==
  ASSUME NEW r \in RosterValue, NEW c \in SetCall, NEW d \in Day, ~Refused(r, c)
  PROVE  Set(r, c, d) \in RosterValue
<1>1. CASE c.mode = "confirm"
  <2> DEFINE l == HoldingList(r, c.player)
  <2>1. l \in ListName /\ r[l][c.player] \in Override
    BY <1>1, ConfirmFinds
  <2>2. Reverified(r[l][c.player], c, d) \in Override
    BY <2>1 DEF Reverified, Override, SetCall
  <2>3. place(r[l], c.player, Reverified(r[l][c.player], c, d)) \in OverrideList
    BY <2>1, <2>2 DEF RosterValue, OverrideList, place
  <2>4. confirm(r, c, d) = [r EXCEPT ![l] = place(r[l], c.player, Reverified(r[l][c.player], c, d))]
    BY DEF confirm
  <2>5. confirm(r, c, d) \in RosterValue
    BY <2>1, <2>3, <2>4 DEF RosterValue
  <2>. QED
    BY <1>1, <2>5 DEF Set
<1>2. CASE c.mode # "confirm"
  <2>1. NewOverride(r, c, d) \in Override
    BY NewOverrideType
  <2>2. ASSUME NEW l \in ListName
        PROVE  /\ place(r[l], c.player, NewOverride(r, c, d)) \in OverrideList
               /\ removeCode(r[l], c.player) \in OverrideList
               /\ r[l] \in OverrideList
    BY <2>1 DEF RosterValue, OverrideList, place, removeCode
  <2>. QED
    BY <1>2, <2>2 DEF Set, RosterValue
<1>. QED
  BY <1>1, <1>2

(* Set touches no list's entry for another player.                         *)
LEMMA SetElsewhere ==
  ASSUME NEW r \in RosterValue, NEW c \in SetCall, NEW d \in Day, ~Refused(r, c),
         NEW l \in ListName, NEW p \in Player, p # c.player
  PROVE  Set(r, c, d)[l][p] = r[l][p]
<1>0. r[l] \in OverrideList
  BY DEF RosterValue
<1>1. CASE c.mode = "confirm"
  <2> DEFINE h == HoldingList(r, c.player)
  <2>1. h \in ListName
    BY <1>1, ConfirmFinds
  <2>2. Set(r, c, d) = [r EXCEPT ![h] = place(r[h], c.player, Reverified(r[h][c.player], c, d))]
    BY <1>1 DEF Set, confirm
  <2>. QED
    BY <1>0, <2>1, <2>2 DEF place, RosterValue, OverrideList
<1>2. CASE c.mode # "confirm"
  BY <1>0, <1>2 DEF Set, place, removeCode, OverrideList
<1>. QED
  BY <1>1, <1>2

-----------------------------------------------------------------------------
(* Type correctness.                                                       *)

LEMMA FirstType ==
  /\ FirstSettings \in Settings
  /\ NoneInstalled \in EngineMinutes
  /\ FirstWindows \in Congestion
  /\ Idle \in [ToolCall -> Stage] /\ NothingRead \in [ToolCall -> BOOLEAN]
  /\ NoCopies \in [ToolCall -> Congestion]
BY EmptyType, TurnConstants
   DEF FirstSettings, Settings, NoneInstalled, EngineMinutes, Idle, Stage, NothingRead, NoCopies

LEMMA DownType ==
  ASSUME file \in Settings, Down
  PROVE  TypeOK'
BY FirstType, TurnConstants DEF Down, TypeOK

LEMMA LoadedType ==
  ASSUME NEW r \in RosterValue
  PROVE  Loaded(r) \in EngineMinutes
<1>1. r["minutes"] \in OverrideList
  BY DEF RosterValue, ListName
<1>2. ASSUME NEW p \in Player, r["minutes"][p] # NoOverride, r["minutes"][p].mins # Unset
      PROVE  Installed(r["minutes"][p]) \in Correction
  BY <1>1, <1>2 DEF OverrideList, Override, Installed, Correction
<1>. QED
  BY <1>2 DEF Loaded, EngineMinutes, Active, Held

(* A call that is not refused writes settings, and only the roster's.      *)
LEMMA WrittenFacts ==
  ASSUME cfg \in Settings, NEW c \in SetCalls, ~SetRefused(cfg.roster, c)
  PROVE  /\ Written(c) \in Settings
         /\ Written(c).cong = cfg.cong
         /\ Written(c).roster = Set(cfg.roster, c, 0)
         /\ Set(cfg.roster, c, 0) \in RosterValue
         /\ ~Refused(cfg.roster, c)
<1>1. c \in SetCall /\ c \in Call /\ c.kind = "set" /\ 0 \in Day
  BY TurnConstants DEF SetCalls, SetCall, Call
<1>2. ~Refused(cfg.roster, c)
  BY <1>1 DEF Refused
<1>3. cfg.roster \in RosterValue
  BY DEF Settings
<1>4. Set(cfg.roster, c, 0) \in RosterValue
  BY <1>1, <1>2, <1>3, SetType
<1>. QED
  BY <1>2, <1>4 DEF Written, Settings

LEMMA EditedType ==
  ASSUME NEW g \in Congestion, NEW h \in Congestion, NEW c \in WindowCalls
  PROVE  Edited(g, c) \in Congestion /\ Swapped(g, h, c) \in Congestion
BY TurnConstants DEF Edited, Swapped, Congestion, Windows, WindowCalls, WindowCall

LEMMA TypeInit == Init => TypeOK
BY FirstType, TurnConstants DEF Init, TypeOK

LEMMA SetStatusType ==
  ASSUME TypeOK, NEW c \in SetCalls, SetStatus(c)
  PROVE  TypeOK'
<1>. USE DEF TypeOK, loop, engine
<1>0. c \in ToolCall /\ c.player \in Player /\ c.until \in Gameweek \cup {0}
  BY DEF SetCalls, SetCall
<1>s. {"refused", "done", "written", "readback"} \subseteq Stage
  BY DEF Stage
<1>1. CASE WriteStatus(c)
  BY <1>0, <1>1, <1>s, WrittenFacts DEF WriteStatus
<1>2. CASE FailStatus(c)
  BY <1>0, <1>2, <1>s, WrittenFacts DEF FailStatus
<1>3. CASE ReadBack(c)
  <2>1. cfg.roster["minutes"] \in OverrideList
    BY DEF Settings, RosterValue, ListName
  <2>2. Resolved(cfg.roster, c) \in BOOLEAN
    BY <1>0, <2>1 DEF Resolved, OverrideList, Override
  <2>. QED
    BY <1>0, <1>3, <1>s, <2>2 DEF ReadBack
<1>4. CASE SetMinutesOverride(c)
  <2>1. ASSUME c.mode = "minutes"
        PROVE  [mins |-> c.mins, until |-> c.until, confirmed |-> confirmed[c]] \in Correction
    BY <1>0, <2>1, TurnConstants DEF Correction, SetCalls, SetCall, WindowCall
  <2>. QED
    BY <1>0, <1>4, <1>s, <2>1 DEF SetMinutesOverride, EngineMinutes
<1>5. CASE ClearMinutesOverride(c)
  BY <1>0, <1>5, <1>s DEF ClearMinutesOverride, EngineMinutes
<1>. QED
  BY <1>1, <1>2, <1>3, <1>4, <1>5 DEF SetStatus

LEMMA UpdateCompetitionType ==
  ASSUME TypeOK, NEW c \in WindowCalls, UpdateCompetition(c)
  PROVE  TypeOK'
<1>. USE DEF TypeOK, loop, engine
<1>0. c \in ToolCall /\ copy[c] \in Congestion
  BY DEF WindowCalls
<1>s. {"refused", "edited", "swapped", "unsaved", "done"} \subseteq Stage
  BY DEF Stage
<1>1. CASE EditWindows(c)
  <2>1. Edited(cong, c) \in Congestion
    BY EditedType
  <2>2. at' \in [ToolCall -> Stage] /\ UNCHANGED <<file, cfg, minutes, cong, phase, iterations, restarts,
                                                 unheld, confirmed>>
    BY <1>0, <1>1, <1>s DEF EditWindows
  <2>3. copy' \in [ToolCall -> Congestion]
    BY <1>0, <1>1, <2>1 DEF EditWindows
  <2>. QED
    BY <2>2, <2>3
<1>2. CASE SetCompetitionWindows(c)
  BY <1>0, <1>2, <1>s, EditedType DEF SetCompetitionWindows
<1>3. CASE SaveWindows(c)
  BY <1>0, <1>3, <1>s, TurnConstants DEF SaveWindows, Recongested, Settings
<1>4. CASE FailWindows(c)
  BY <1>0, <1>4, <1>s, TurnConstants DEF FailWindows
<1>. QED
  BY <1>1, <1>2, <1>3, <1>4 DEF UpdateCompetition

LEMMA TypeStep == TypeOK /\ [Next]_vars => TypeOK'
<1>. SUFFICES ASSUME TypeOK, [Next]_vars PROVE TypeOK'
  OBVIOUS
<1>1. CASE Start
  <2>1. file.roster \in RosterValue /\ file.cong \in Congestion
    BY DEF TypeOK, Settings
  <2>. QED
    BY <1>1, <2>1, LoadedType, TurnConstants DEF Start, TypeOK, local
<1>2. ASSUME NEW reply \in Reply, CallTools(reply) PROVE TypeOK'
  BY <1>2 DEF CallTools, TypeOK, engine, Accumulated, Stage
<1>3. CASE Pause
  BY <1>3, TurnConstants DEF Pause, TypeOK, engine, local, MayResume, Counted, HandedOver
<1>4. CASE Down
  BY <1>4, DownType DEF TypeOK
<1>5. CASE Join /\ ~Down
  BY <1>5, FirstType, TurnConstants DEF Join, TypeOK, engine
<1>6. ASSUME NEW c \in SetCalls, SetStatus(c) PROVE TypeOK'
  BY <1>6, SetStatusType
<1>7. ASSUME NEW c \in WindowCalls, UpdateCompetition(c) PROVE TypeOK'
  BY <1>7, UpdateCompetitionType
<1>8. CASE UNCHANGED vars
  BY <1>8 DEF vars, engine, loop, local, TypeOK
<1>. QED
  BY <1>1, <1>2, <1>3, <1>4, <1>5, <1>6, <1>7, <1>8 DEF Next, Answer, Tool, Stop, Finish

(* Every variable keeps its type: no turn is resumed more than MaxRestarts *)
(* times (Agent.Ask) and no runner asks more than MaxIterations times.     *)
THEOREM TypeCorrect == Spec => []TypeOK
<1>1. Init => TypeOK
  BY TypeInit
<1>2. TypeOK /\ [Next]_vars => TypeOK'
  BY TypeStep
<1>. QED
  BY <1>1, <1>2, PTL DEF Spec

-----------------------------------------------------------------------------
(* Where the loop stands: calls are made only by a run that waits for      *)
(* them, and a runner at its first request lacks nothing.                  *)
LoopInv ==
  /\ phase # "tools" => at = Idle
  /\ phase = "down" => iterations = 0 /\ unheld = 0
  /\ phase # "down" => iterations >= 1
  /\ ResumesWithItsWork

LEMMA LoopInit == Init => LoopInv
BY DEF Init, LoopInv, ResumesWithItsWork

(* A step of the handler of one call.                                      *)
Handler(c) ==
  \/ c \in SetCalls /\ SetStatus(c)
  \/ c \in WindowCalls /\ UpdateCompetition(c)

LEMMA ToolIsAHandler == Tool => \E c \in ToolCall : Handler(c)
<1>1. \A c \in SetCalls \cup WindowCalls : c \in ToolCall
  BY DEF SetCalls, WindowCalls
<1>. QED
  BY <1>1, Zenon DEF Tool, Handler

(* A step of a handler changes no other handler's stage, and the loop not  *)
(* at all.                                                                 *)
LEMMA HandlerStep ==
  ASSUME TypeOK, NEW c \in ToolCall, Handler(c)
  PROVE  /\ UNCHANGED loop
         /\ at[c] # "none" /\ at'[c] # "none"
         /\ \A d \in ToolCall \ {c} : at'[d] = at[d]
BY DEF TypeOK, Handler, SetStatus, UpdateCompetition, WriteStatus, FailStatus, ReadBack,
   SetMinutesOverride, ClearMinutesOverride, EditWindows, SetCompetitionWindows,
   SaveWindows, FailWindows

LEMMA LoopStep == TypeOK /\ LoopInv /\ [Next]_vars => LoopInv'
<1>. SUFFICES ASSUME TypeOK, LoopInv, [Next]_vars PROVE LoopInv'
  OBVIOUS
<1>. USE DEF LoopInv, ResumesWithItsWork
<1>1. CASE Start
  BY <1>1 DEF Start, local
<1>2. ASSUME NEW reply \in Reply, CallTools(reply) PROVE LoopInv'
  BY <1>2 DEF CallTools
<1>3. CASE Pause
  BY <1>3 DEF Pause, HandedOver, local
<1>4. CASE Down
  BY <1>4 DEF Down
<1>5. CASE Join /\ ~Down
  BY <1>5 DEF Join, AllReturned, TypeOK
<1>6. CASE Tool
  <2>1. PICK c \in ToolCall : Handler(c)
    BY <1>6, ToolIsAHandler
  <2>2. UNCHANGED loop /\ at[c] # "none"
    BY <2>1, HandlerStep
  <2>3. phase = "tools"
    BY <2>2 DEF Idle
  <2>. QED
    BY <2>2, <2>3 DEF loop
<1>7. CASE UNCHANGED vars
  BY <1>7 DEF vars, loop, local
<1>. QED
  BY <1>1, <1>2, <1>3, <1>4, <1>5, <1>6, <1>7 DEF Next, Answer, Stop, Finish

(* A resumed turn goes on from every reply before it: Ask hands the        *)
(* finished runner over before it makes the next.                          *)
THEOREM ResumesWhole == Spec => []ResumesWithItsWork
<1>1. Init => TypeOK /\ LoopInv
  BY TypeInit, LoopInit
<1>2. TypeOK /\ LoopInv /\ [Next]_vars => (TypeOK /\ LoopInv)'
  BY TypeStep, LoopStep
<1>3. LoopInv => ResumesWithItsWork
  BY DEF LoopInv
<1>. QED
  BY <1>1, <1>2, <1>3, PTL DEF Spec

-----------------------------------------------------------------------------
(* Overrides bind at once.  While a lone call is between its steps, the    *)
(* config and the files agree about its player, on what it asked for; what *)
(* it read back is what they hold; and once it is done the engine does.    *)
OnFile(c) ==
  LET o == file.roster["minutes"][c.player]
  IN  /\ cfg.roster["minutes"][c.player] = o
      /\ c.mode = "minutes" => o # NoOverride /\ o.mins = c.mins /\ o.until = c.until
      /\ c.mode = "clear"   => o = NoOverride

BindInv ==
  \A c \in SetCalls :
    ToldEngine(c) /\ LoneOnPlayer(c) =>
      /\ at[c] \in {"written", "readback", "done"} => OnFile(c)
      /\ at[c] = "readback" =>
           c.mode = "minutes" /\ confirmed[c] = file.roster["minutes"][c.player].confirmed
      /\ at[c] = "done" =>
           minutes[c.player] = Entry(file.roster["minutes"], c.player)

LEMMA IdleBinds == at = Idle => BindInv
BY DEF BindInv, Idle, SetCalls

(* What a "minutes" or "clear" call writes for its own player.             *)
LEMMA WrittenEntry ==
  ASSUME cfg \in Settings, NEW c \in SetCalls, ToldEngine(c), ~SetRefused(cfg.roster, c)
  PROVE  LET o == Set(cfg.roster, c, 0)["minutes"][c.player]
         IN  /\ c.mode = "minutes" => o # NoOverride /\ o.mins = c.mins /\ o.until = c.until
             /\ c.mode = "clear"   => o = NoOverride
<1>1. c \in SetCall /\ c.player \in Player /\ 0 \in Day
  BY TurnConstants DEF SetCalls, SetCall
<1>2. cfg.roster["minutes"] \in OverrideList
  BY DEF Settings, RosterValue, ListName
<1>3. NewOverride(cfg.roster, c, 0) \in Override
  BY <1>1, NewOverrideType
<1>4. NewOverride(cfg.roster, c, 0) # NoOverride
  BY <1>3, RosterConstants DEF Override
<1>5. CASE c.mode = "minutes"
  <2>1. Set(cfg.roster, c, 0)["minutes"] = place(cfg.roster["minutes"], c.player, NewOverride(cfg.roster, c, 0))
    BY <1>5 DEF Set, PutOn, ListName
  <2>. QED
    BY <1>1, <1>2, <1>4, <1>5, <2>1 DEF place, OverrideList, NewOverride
<1>6. CASE c.mode = "clear"
  <2>1. Set(cfg.roster, c, 0)["minutes"] = removeCode(cfg.roster["minutes"], c.player)
    BY <1>6 DEF Set, PutOn, TakenOff, ListName
  <2>. QED
    BY <1>1, <1>2, <1>6, <2>1 DEF removeCode, OverrideList
<1>. QED
  BY <1>5, <1>6 DEF ToldEngine

(* Nothing that a call about another player does reaches this one.         *)
LEMMA OtherPlayers ==
  ASSUME TypeOK, NEW c \in SetCalls, SetStatus(c), NEW p \in Player, p # c.player
  PROVE  /\ cfg'.roster["minutes"][p] = cfg.roster["minutes"][p]
         /\ file'.roster["minutes"][p] \in {file.roster["minutes"][p], cfg.roster["minutes"][p]}
         /\ minutes'[p] = minutes[p]
<1>. USE DEF TypeOK
<1>1. ASSUME ~SetRefused(cfg.roster, c)
      PROVE  Written(c).roster["minutes"][p] = cfg.roster["minutes"][p]
  <2>1. Written(c).roster = Set(cfg.roster, c, 0) /\ ~Refused(cfg.roster, c)
    BY <1>1, WrittenFacts
  <2>2. c \in SetCall /\ 0 \in Day /\ "minutes" \in ListName /\ cfg.roster \in RosterValue
    BY TurnConstants DEF SetCalls, ListName, Settings
  <2>. QED
    BY <2>1, <2>2, SetElsewhere
<1>2. c.player \in Player
  BY DEF SetCalls, SetCall
<1>3. CASE WriteStatus(c)
  BY <1>1, <1>3 DEF WriteStatus, engine
<1>4. CASE FailStatus(c)
  BY <1>1, <1>4 DEF FailStatus, engine
<1>5. CASE ReadBack(c)
  BY <1>5 DEF ReadBack, engine
<1>6. CASE SetMinutesOverride(c)
  BY <1>2, <1>6 DEF SetMinutesOverride, EngineMinutes
<1>7. CASE ClearMinutesOverride(c)
  BY <1>2, <1>7 DEF ClearMinutesOverride, EngineMinutes
<1>. QED
  BY <1>3, <1>4, <1>5, <1>6, <1>7 DEF SetStatus

LEMMA BindStep == TypeOK /\ LoopInv /\ BindInv /\ [Next]_vars => BindInv'
<1>. SUFFICES ASSUME TypeOK, LoopInv, BindInv, [Next]_vars PROVE BindInv'
  OBVIOUS
<1>i. at' = Idle => BindInv'
  BY DEF BindInv, Idle, SetCalls
<1>1. CASE Start
  BY <1>1, <1>i DEF Start, local, LoopInv
<1>2. ASSUME NEW reply \in Reply, CallTools(reply) PROVE BindInv'
  BY <1>2 DEF CallTools, BindInv, SetCalls
<1>3. CASE Pause
  BY <1>3, <1>i DEF Pause, local, LoopInv
<1>4. CASE Down
  BY <1>4, <1>i DEF Down
<1>5. CASE Join /\ ~Down
  BY <1>5, <1>i DEF Join
<1>6. ASSUME NEW d \in SetCalls, SetStatus(d) PROVE BindInv'
  <2>0. d \in ToolCall /\ Handler(d)
    BY <1>6 DEF Handler, SetCalls
  <2>1. /\ at[d] # "none" /\ at'[d] # "none"
        /\ \A c \in ToolCall \ {d} : at'[c] = at[c]
    BY <2>0, HandlerStep
  <2>. SUFFICES ASSUME NEW c \in SetCalls, ToldEngine(c), LoneOnPlayer(c)'
                PROVE  /\ at'[c] \in {"written", "readback", "done"} => OnFile(c)'
                       /\ at'[c] = "readback" =>
                            c.mode = "minutes" /\ confirmed'[c] = file'.roster["minutes"][c.player].confirmed
                       /\ at'[c] = "done" =>
                            minutes'[c.player] = Entry(file'.roster["minutes"], c.player)
    BY DEF BindInv, ToldEngine
  <2>2. LoneOnPlayer(c)
    BY <2>1 DEF LoneOnPlayer, SetCalls
  <2>p. c \in ToolCall /\ c.player \in Player
    BY DEF SetCalls, SetCall
  <2>3. CASE c # d
    <3>1. d.player # c.player
      BY <2>1, <2>2, <2>3 DEF LoneOnPlayer
    <3>2. /\ cfg'.roster["minutes"][c.player] = cfg.roster["minutes"][c.player]
          /\ file'.roster["minutes"][c.player] \in
               {file.roster["minutes"][c.player], cfg.roster["minutes"][c.player]}
          /\ minutes'[c.player] = minutes[c.player]
      BY <1>6, <2>p, <3>1, OtherPlayers
    <3>3. at'[c] = at[c] /\ confirmed'[c] = confirmed[c]
      BY <1>6, <2>1, <2>3, <2>p DEF SetStatus, WriteStatus, FailStatus, ReadBack,
         SetMinutesOverride, ClearMinutesOverride, TypeOK
    <3>4. CASE at[c] \in {"written", "readback", "done"}
      <4>1. OnFile(c)
        BY <2>2, <3>4 DEF BindInv
      <4>2. file'.roster["minutes"][c.player] = file.roster["minutes"][c.player]
        BY <3>2, <4>1 DEF OnFile
      <4>3. OnFile(c)'
        BY <3>2, <4>1, <4>2 DEF OnFile
      <4>4. Entry(file'.roster["minutes"], c.player) = Entry(file.roster["minutes"], c.player)
        BY <4>2 DEF Entry
      <4>. QED
        BY <2>2, <3>2, <3>3, <4>2, <4>3, <4>4 DEF BindInv
    <3>. QED
      BY <3>3, <3>4
  <2>4. CASE c = d
    <3>1. CASE WriteStatus(c)
      <4>1. cfg'.roster = Set(cfg.roster, c, 0) /\ file' = cfg' /\ ~SetRefused(cfg.roster, c)
        BY <3>1, WrittenFacts DEF WriteStatus, TypeOK
      <4>2. at'[c] = "written"
        BY <2>p, <3>1 DEF WriteStatus, TypeOK
      <4>3. OnFile(c)'
        BY <4>1, WrittenEntry DEF OnFile, TypeOK
      <4>. QED
        BY <4>2, <4>3
    <3>2. CASE FailStatus(c)
      BY <2>p, <3>2 DEF FailStatus, TypeOK
    <3>3. CASE ReadBack(c)
      <4>1. at[c] = "written" /\ at'[c] = "readback" /\ UNCHANGED <<file, cfg>> /\ c.mode = "minutes"
        BY <2>p, <3>3 DEF ReadBack, TypeOK
      <4>2. OnFile(c)
        BY <2>2, <4>1 DEF BindInv
      <4>3. confirmed'[c] = Resolved(cfg.roster, c)
        BY <2>p, <3>3 DEF ReadBack, TypeOK
      <4>4. cfg.roster["minutes"][c.player] \in Override \cup {NoOverride}
        BY <2>p DEF TypeOK, Settings, RosterValue, OverrideList, ListName
      <4>5. confirmed'[c] = file.roster["minutes"][c.player].confirmed
        BY <4>1, <4>2, <4>3, <4>4 DEF OnFile, Resolved, Override
      <4>. QED
        BY <4>1, <4>2, <4>5 DEF OnFile
    <3>4. CASE SetMinutesOverride(c)
      <4>1. /\ at[c] = "readback" /\ at'[c] = "done" /\ UNCHANGED <<file, cfg>>
            /\ c.mode = "minutes"
            /\ minutes'[c.player] = [mins |-> c.mins, until |-> c.until, confirmed |-> confirmed[c]]
        BY <2>p, <3>4 DEF SetMinutesOverride, TypeOK, EngineMinutes
      <4>2. OnFile(c) /\ confirmed[c] = file.roster["minutes"][c.player].confirmed
        BY <2>2, <4>1 DEF BindInv
      <4>3. minutes'[c.player] = Entry(file.roster["minutes"], c.player)
        BY <4>1, <4>2 DEF OnFile, Entry, Installed
      <4>. QED
        BY <4>1, <4>2, <4>3 DEF OnFile
    <3>5. CASE ClearMinutesOverride(c)
      <4>1. /\ at[c] = "written" /\ at'[c] = "done" /\ UNCHANGED <<file, cfg>>
            /\ c.mode = "clear" /\ minutes'[c.player] = NoCorrection
        BY <2>p, <3>5 DEF ClearMinutesOverride, TypeOK, EngineMinutes
      <4>2. OnFile(c)
        BY <2>2, <4>1 DEF BindInv
      <4>. QED
        BY <4>1, <4>2 DEF OnFile, Entry
    <3>. QED
      BY <1>6, <2>4, <3>1, <3>2, <3>3, <3>4, <3>5 DEF SetStatus
  <2>. QED
    BY <2>3, <2>4
<1>7. ASSUME NEW d \in WindowCalls, UpdateCompetition(d) PROVE BindInv'
  <2>0. d \in ToolCall /\ Handler(d) /\ d \notin SetCalls
    BY <1>7 DEF Handler, SetCalls, WindowCalls, SetCall, WindowCall
  <2>1. \A c \in ToolCall \ {d} : at'[c] = at[c]
    BY <2>0, HandlerStep
  <2>2. \A c \in SetCalls : at'[c] = at[c]
    BY <2>0, <2>1 DEF SetCalls
  <2>3. /\ UNCHANGED <<minutes, confirmed>> /\ cfg'.roster = cfg.roster
        /\ file'.roster \in {file.roster, cfg.roster}
    BY <1>7 DEF UpdateCompetition, EditWindows, SetCompetitionWindows, SaveWindows, FailWindows,
       engine, Recongested, TypeOK, Settings
  <2>. SUFFICES ASSUME NEW c \in SetCalls, ToldEngine(c), LoneOnPlayer(c)'
                PROVE  /\ at'[c] \in {"written", "readback", "done"} => OnFile(c)'
                       /\ at'[c] = "readback" =>
                            c.mode = "minutes" /\ confirmed'[c] = file'.roster["minutes"][c.player].confirmed
                       /\ at'[c] = "done" =>
                            minutes'[c.player] = Entry(file'.roster["minutes"], c.player)
    BY DEF BindInv, ToldEngine
  <2>4. LoneOnPlayer(c)
    BY <2>2 DEF LoneOnPlayer
  <2>. QED
    BY <2>2, <2>3, <2>4 DEF BindInv, OnFile, Entry
<1>8. CASE UNCHANGED vars
  BY <1>8 DEF vars, engine, loop, local, BindInv, LoneOnPlayer, ToldEngine, OnFile, Entry
<1>. QED
  BY <1>1, <1>2, <1>3, <1>4, <1>5, <1>6, <1>7, <1>8 DEF Next, Answer, Tool, Stop, Finish

(* A minutes or clear call that succeeded, the only one of its reply about *)
(* its player, leaves engine and files with what it asked for, whatever    *)
(* else runs beside it.                                                    *)
THEOREM BindsAtOnce == Spec => []AnOverrideBindsAtOnce
<1>1. Init => TypeOK /\ LoopInv /\ BindInv
  BY TypeInit, LoopInit, IdleBinds DEF Init
<1>2. TypeOK /\ LoopInv /\ BindInv /\ [Next]_vars => (TypeOK /\ LoopInv /\ BindInv)'
  BY TypeStep, LoopStep, BindStep
<1>3. BindInv => AnOverrideBindsAtOnce
  <2>. SUFFICES ASSUME BindInv, NEW c \in SetCalls,
                       at[c] = "done", LoneOnPlayer(c), ToldEngine(c)
                PROVE  /\ minutes[c.player] = Entry(file.roster["minutes"], c.player)
                       /\ minutes[c.player].mins = IF c.mode = "minutes" THEN c.mins ELSE Unset
    BY DEF AnOverrideBindsAtOnce
  <2>1. OnFile(c) /\ minutes[c.player] = Entry(file.roster["minutes"], c.player)
    BY DEF BindInv
  <2>2. CASE c.mode = "minutes"
    BY <2>1, <2>2 DEF OnFile, Entry, Installed
  <2>3. CASE c.mode = "clear"
    BY <2>1, <2>3 DEF OnFile, Entry, NoCorrection
  <2>. QED
    BY <2>1, <2>2, <2>3 DEF ToldEngine
<1>. QED
  BY <1>1, <1>2, <1>3, PTL DEF Spec

-----------------------------------------------------------------------------
(* Corrections of competitions.  The edited copy holds the correction and, *)
(* once it is swapped in, so does the engine: another call replaces the    *)
(* windows of another club, or of the other map.  The only such call of a  *)
(* reply carries the engine's own congestion from then to the config.      *)
Uncontested(c) == \A d \in WindowCalls \ {c} : at[d] # "none" => ~SameWindows(c, d)

OnlyCorrection(c) == \A d \in WindowCalls \ {c} : at[d] = "none"

EngineInv ==
  \A c \in WindowCalls :
    Uncontested(c) =>
      /\ at[c] = "edited" => Holds(copy[c][c.club][c.comp], c)
      /\ at[c] \in {"swapped", "unsaved", "done"} => Holds(cong[c.club][c.comp], c)

SaveInv ==
  \A c \in WindowCalls :
    OnlyCorrection(c) =>
      /\ at[c] = "swapped" => copy[c] = cong
      /\ at[c] = "done" => file.cong = cong /\ cfg.cong = cong

WindowInv == EngineInv /\ SaveInv

LEMMA IdleWindows == at = Idle => WindowInv
BY DEF WindowInv, EngineInv, SaveInv, Idle, WindowCalls

LEMMA EditTakes ==
  ASSUME NEW g \in Congestion, NEW c \in WindowCalls
  PROVE  Holds(Edited(g, c)[c.club][c.comp], c)
BY TurnConstants DEF Edited, Holds, Congestion, Windows, WindowCalls, WindowCall

LEMMA SwapTakes ==
  ASSUME NEW g \in Congestion, NEW h \in Congestion, NEW c \in WindowCalls
  PROVE  /\ Swapped(g, h, c)[c.club][c.comp] = h[c.club][c.comp]
         /\ \A d \in WindowCalls : ~SameWindows(d, c) =>
              Swapped(g, h, c)[d.club][d.comp] = g[d.club][d.comp]
BY DEF Swapped, SameWindows, SameMap, Congestion, Windows, WindowCalls, WindowCall

LEMMA WindowStep == TypeOK /\ LoopInv /\ WindowInv /\ [Next]_vars => WindowInv'
<1>. SUFFICES ASSUME TypeOK, LoopInv, WindowInv, [Next]_vars PROVE WindowInv'
  OBVIOUS
<1>i. at' = Idle => WindowInv'
  BY DEF WindowInv, EngineInv, SaveInv, Idle, WindowCalls
<1>1. CASE Start
  BY <1>1, <1>i DEF Start, local, LoopInv
<1>2. ASSUME NEW reply \in Reply, CallTools(reply) PROVE WindowInv'
  BY <1>2 DEF CallTools, WindowInv, EngineInv, SaveInv, WindowCalls
<1>3. CASE Pause
  BY <1>3, <1>i DEF Pause, local, LoopInv
<1>4. CASE Down
  BY <1>4, <1>i DEF Down
<1>5. CASE Join /\ ~Down
  BY <1>5, <1>i DEF Join
<1>6. ASSUME NEW d \in SetCalls, SetStatus(d) PROVE WindowInv'
  <2>0. d \in ToolCall /\ Handler(d) /\ d \notin WindowCalls
    BY <1>6 DEF Handler, SetCalls, WindowCalls, SetCall, WindowCall
  <2>1. \A c \in WindowCalls : at'[c] = at[c]
    BY <2>0, HandlerStep DEF WindowCalls
  <2>2. ~SetRefused(cfg.roster, d) => Written(d).cong = cfg.cong
    BY WrittenFacts DEF TypeOK
  <2>3. /\ UNCHANGED <<cong, copy>> /\ cfg'.cong = cfg.cong
        /\ file'.cong \in {file.cong, cfg.cong}
    BY <1>6, <2>2 DEF SetStatus, WriteStatus, FailStatus, ReadBack, SetMinutesOverride,
       ClearMinutesOverride, engine
  <2>4. EngineInv'
    BY <2>1, <2>3 DEF WindowInv, EngineInv, Uncontested, SameWindows, Holds
  <2>5. SaveInv'
    BY <2>1, <2>3 DEF WindowInv, SaveInv, OnlyCorrection
  <2>. QED
    BY <2>4, <2>5 DEF WindowInv
<1>7. ASSUME NEW d \in WindowCalls, UpdateCompetition(d) PROVE WindowInv'
  <2>0. d \in ToolCall /\ Handler(d) /\ copy[d] \in Congestion
    BY <1>7 DEF Handler, WindowCalls, TypeOK
  <2>1. at[d] # "none" /\ at'[d] # "none" /\ \A c \in WindowCalls \ {d} : at'[c] = at[c]
    BY <2>0, HandlerStep DEF WindowCalls
  <2>2. \A c \in WindowCalls \ {d} : copy'[c] = copy[c]
    BY <1>7 DEF WindowCalls, TypeOK, UpdateCompetition, EditWindows, SetCompetitionWindows,
       SaveWindows, FailWindows
  <2>3. \A c \in WindowCalls : Uncontested(c)' => Uncontested(c)
    BY <2>1 DEF Uncontested, SameWindows
  <2>4. \A c \in WindowCalls \ {d} : Uncontested(c) => ~SameWindows(c, d)
    BY <2>1 DEF Uncontested
  <2>5. \A c \in WindowCalls \ {d} : ~OnlyCorrection(c)'
    BY <2>1 DEF OnlyCorrection
  <2>6. CASE EditWindows(d)
    <3>1. /\ UNCHANGED <<file, cfg, cong>>
          /\ \/ at'[d] = "refused"
             \/ at'[d] = "edited" /\ copy'[d] = Edited(cong, d)
      BY <2>0, <2>6 DEF EditWindows, engine, TypeOK
    <3>2. at'[d] = "edited" => Holds(copy'[d][d.club][d.comp], d)
      BY <3>1, EditTakes DEF TypeOK
    <3>3. EngineInv'
      BY <2>1, <2>2, <2>3, <3>1, <3>2 DEF WindowInv, EngineInv, Holds
    <3>4. SaveInv'
      BY <2>5, <3>1 DEF SaveInv
    <3>. QED
      BY <3>3, <3>4 DEF WindowInv
  <2>7. CASE SetCompetitionWindows(d)
    <3>1. /\ at[d] = "edited" /\ at'[d] = "swapped"
          /\ cong' = Swapped(cong, copy[d], d) /\ copy'[d] = cong'
      BY <2>0, <2>7 DEF SetCompetitionWindows, TypeOK
    <3>2. cong \in Congestion
      BY DEF TypeOK
    <3>3. Uncontested(d) => Holds(cong'[d.club][d.comp], d)
      BY <2>0, <3>1, <3>2, SwapTakes DEF WindowInv, EngineInv
    <3>4. \A c \in WindowCalls \ {d} :
            Uncontested(c) => cong'[c.club][c.comp] = cong[c.club][c.comp]
      BY <2>0, <2>4, <3>1, <3>2, SwapTakes
    <3>5. EngineInv'
      BY <2>1, <2>2, <2>3, <3>1, <3>3, <3>4 DEF WindowInv, EngineInv, Holds
    <3>6. SaveInv'
      BY <2>5, <3>1 DEF SaveInv
    <3>. QED
      BY <3>5, <3>6 DEF WindowInv
  <2>8. CASE SaveWindows(d)
    <3>1. /\ at[d] = "swapped" /\ at'[d] = "done" /\ UNCHANGED cong
          /\ cfg'.cong = copy[d] /\ file' = cfg'
      BY <2>0, <2>8 DEF SaveWindows, engine, Recongested, TypeOK, Settings
    <3>2. EngineInv'
      BY <2>1, <2>2, <2>3, <3>1 DEF WindowInv, EngineInv, Holds
    <3>3. OnlyCorrection(d)' => OnlyCorrection(d)
      BY <2>1 DEF OnlyCorrection
    <3>4. SaveInv'
      BY <2>5, <3>1, <3>3 DEF WindowInv, SaveInv
    <3>. QED
      BY <3>2, <3>4 DEF WindowInv
  <2>9. CASE FailWindows(d)
    <3>1. at[d] = "swapped" /\ at'[d] = "unsaved" /\ UNCHANGED cong
      BY <2>0, <2>9 DEF FailWindows, engine, TypeOK
    <3>2. EngineInv'
      BY <2>1, <2>2, <2>3, <3>1 DEF WindowInv, EngineInv, Holds
    <3>3. SaveInv'
      BY <2>5, <3>1 DEF SaveInv
    <3>. QED
      BY <3>2, <3>3 DEF WindowInv
  <2>. QED
    BY <1>7, <2>6, <2>7, <2>8, <2>9 DEF UpdateCompetition
<1>8. CASE UNCHANGED vars
  BY <1>8 DEF vars, engine, loop, local, WindowInv, EngineInv, SaveInv, Uncontested,
     OnlyCorrection, SameWindows, Holds
<1>. QED
  BY <1>1, <1>2, <1>3, <1>4, <1>5, <1>6, <1>7, <1>8 DEF Next, Answer, Tool, Stop, Finish

LEMMA WindowInvAlways == Spec => []WindowInv
<1>1. Init => TypeOK /\ LoopInv /\ WindowInv
  BY TypeInit, LoopInit, IdleWindows DEF Init
<1>2. TypeOK /\ LoopInv /\ WindowInv /\ [Next]_vars => (TypeOK /\ LoopInv /\ WindowInv)'
  BY TypeStep, LoopStep, WindowStep
<1>. QED
  BY <1>1, <1>2, PTL DEF Spec

(* No correction the engine has taken is undone by one about another club  *)
(* or another map, however their handlers overlap.                         *)
THEOREM EngineTakesAll == Spec => []EngineHoldsEveryCorrection
<1>1. WindowInv => EngineHoldsEveryCorrection
  BY DEF WindowInv, EngineInv, EngineHoldsEveryCorrection, Uncontested, Holds
<1>. QED
  BY <1>1, WindowInvAlways, PTL

(* A saved correction that no other of its reply races leaves the files    *)
(* with all that the engine knows of competitions.                         *)
THEOREM LoneIsSaved == Spec => []ALoneCorrectionIsSaved
<1>1. WindowInv => ALoneCorrectionIsSaved
  BY DEF WindowInv, SaveInv, ALoneCorrectionIsSaved, OnlyCorrection
<1>. QED
  BY <1>1, WindowInvAlways, PTL

=============================================================================

---------------------------- MODULE SeasonProofs ----------------------------
(***************************************************************************)
(* Theorems about Season for every squad size, price history, calendar and *)
(* configuration, every limit on hits, moves and funding sales included.   *)
(***************************************************************************)
EXTENDS Season, Sums

-----------------------------------------------------------------------------
(* The types.                                                              *)

LEMMA ConfigTypes ==
  ASSUME cfg \in Config
  PROVE  /\ cfg.sets \in {1, 2} /\ cfg.first \in [Chip -> Nat] /\ cfg.second \in [Chip -> Nat]
         /\ cfg.bankUpTo \in Nat \ {0} /\ cfg.maxHits \in Nat /\ cfg.hitCeiling \in Nat
         /\ cfg.maxMoves \in Nat /\ cfg.fundingSales \in Nat
BY SeasonConstants DEF Configuration

LEMMA WeekTypes ==
  ASSUME TypeOK
  PROVE  /\ start \in Week /\ gw \in Week /\ gw \in Nat /\ start \in Nat /\ start <= gw
         /\ LastGW \in Nat
BY SeasonConstants DEF TypeOK, Week

LEMMA PriceIsPositive ==
  ASSUME TypeOK, NEW p \in Player
  PROVE  Buy(p) \in Nat \ {0}
<1>1. AtLeastOne(gw - 1) \in Week
  BY WeekTypes DEF AtLeastOne, Week
<1>2. price \in [Player -> [Week -> Nat \ {0}]]
  BY SeasonConstants DEF TypeOK
<1>. QED
  BY <1>1, <1>2 DEF Buy, MarketPrice

LEMMA RaisesType ==
  ASSUME NEW paid \in Nat, NEW market \in Nat
  PROVE  Raises(paid, market) \in Nat /\ Raises(paid, market) <= market
<1>1. CASE paid = 0 \/ market <= paid
  BY <1>1 DEF Raises, SellPrice
<1>2. CASE paid # 0 /\ ~(market <= paid)
  <2>1. market - paid \in Nat /\ market > paid
    BY <1>2
  <2>2. (market - paid) \div 2 \in Nat /\ (market - paid) \div 2 <= market - paid
    BY <2>1
  <2>3. Raises(paid, market) = paid + (market - paid) \div 2
    BY <1>2 DEF Raises, SellPrice
  <2>. QED
    BY <2>1, <2>2, <2>3
<1>. QED
  BY <1>1, <1>2

LEMMA LineupType ==
  ASSUME NEW h \in Lineup
  PROVE  h \in [Slot -> Player]
BY DEF Lineup

LEMMA ChangedIsFinite ==
  ASSUME NEW next
  PROVE  IsFiniteSet(Changed(next)) /\ Cardinality(Changed(next)) \in Nat
<1>1. Changed(next) \subseteq Slot
  BY DEF Changed
<1>. QED
  BY <1>1, SeasonConstants, FS_Subset, FS_CardinalityType

(* What sales at stale quotes lose in one trade.                           *)
Lost(next) == SumFunctionOnSet([s \in Slot |-> Stale(held[s])], Changed(next))

LEMMA LostType ==
  ASSUME TypeOK, NEW next
  PROVE  Lost(next) \in Int
<1>. DEFINE l == [s \in Slot |-> Stale(held[s])]
<1>1. ASSUME NEW s \in Changed(next) PROVE l[s] \in Int
  <2>1. s \in Slot /\ held[s] \in Player
    BY DEF Changed, TypeOK
  <2>2. Buy(held[s]) \in Nat /\ bought[held[s]] \in Nat /\ before.bought[held[s]] \in Nat
    BY <2>1, PriceIsPositive DEF TypeOK
  <2>3. Raises(bought[held[s]], Buy(held[s])) \in Nat /\ WeekQuote(held[s]) \in Nat
    BY <2>2, RaisesType DEF WeekQuote
  <2>4. Stale(held[s]) \in Int
    BY <2>3 DEF Stale
  <2>. QED
    BY <2>1, <2>4
<1>2. Lost(next) = SumFunctionOnSet(l, Changed(next))
  BY DEF Lost
<1>. HIDE DEF l
<1>. QED
  BY <1>1, <1>2, ChangedIsFinite, SumType

(* What a settled trade leaves, but for the money.                         *)
LEMMA TradeFacts ==
  ASSUME NEW next, Trade(next)
  PROVE  /\ held' = next /\ bought' = BoughtAfter(next)
         /\ made' = made + Cardinality(Changed(next)) /\ short' = short + Lost(next)
BY DEF Trade, Lost

LEMMA TradeTypes ==
  ASSUME TypeOK, NEW next \in Lineup, Trade(next)
  PROVE  /\ held' \in [Slot -> Player] /\ bought' \in [Player -> Nat] /\ made' \in Nat
         /\ short' \in Int
<1>1. \A p \in Player : Buy(p) \in Nat
  BY PriceIsPositive
<1>2. BoughtAfter(next) \in [Player -> Nat]
  BY <1>1 DEF BoughtAfter, TypeOK
<1>. QED
  BY <1>2, TradeFacts, LineupType, ChangedIsFinite, LostType DEF TypeOK

LEMMA AccruedType ==
  ASSUME TypeOK
  PROVE  Accrued \in 0..cfg.bankUpTo
BY ConfigTypes DEF TypeOK, Accrued

LEMMA LimitTypes ==
  ASSUME TypeOK, NEW a \in Nat
  PROVE  MostHits \in Nat /\ HitCeiling \in Nat /\ MoveLimit(a) \in Nat
         /\ MoveLimit(a) <= a + MostHits
<1>1. HitCeiling \in Nat
  BY ConfigTypes DEF HitCeiling, TypeOK
<1>2. MostHits \in Nat
  BY <1>1, ConfigTypes DEF MostHits, TypeOK
<1>. QED
  BY <1>1, <1>2, ConfigTypes DEF MoveLimit, TypeOK

(* Hits cover exactly what the allowance does not.                         *)
LEMMA HitsCover ==
  ASSUME TypeOK, NEW n \in Nat
  PROVE  /\ HitsNeeded(n) \in Nat /\ free - (n - HitsNeeded(n)) \in 0..cfg.bankUpTo
         /\ HitsNeeded(n) = IF n > free THEN n - free ELSE 0
         /\ free - (n - HitsNeeded(n)) = IF free > n THEN free - n ELSE 0
<1>1. free \in Nat /\ free <= cfg.bankUpTo /\ cfg.bankUpTo \in Nat
  BY ConfigTypes DEF TypeOK
<1>. QED
  BY <1>1 DEF HitsNeeded

LEMMA ScheduleType ==
  ASSUME cfg \in Config
  PROVE  Schedule(cfg) \in [1..2 -> [Chip -> Nat]]
<1>1. NoChips \in [Chip -> Nat]
  BY DEF NoChips
<1>2. SplitChipSets(cfg.sets, cfg.first) \in [1..2 -> [Chip -> Nat]]
  BY <1>1, ConfigTypes DEF SplitChipSets
<1>. QED
  BY <1>2, ConfigTypes DEF Schedule

LEMMA ConsultType ==
  ASSUME TypeOK, NEW k \in Chip, NEW on, Consult(k, on)
  PROVE  fired' \in [Chip -> SUBSET (start..LastGW)]
<1>1. gw \in start..LastGW /\ fired \in [Chip -> SUBSET (start..LastGW)]
  BY DEF TypeOK
<1>. QED
  BY <1>1 DEF Consult

LEMMA InitType ==
  ASSUME Init
  PROVE  TypeOK
<1>1. start \in Week /\ LastGW \in Nat /\ start \in start..LastGW
  BY SeasonConstants DEF Init, Week
<1>2. cfg.bankUpTo \in Nat \ {0}
  BY ConfigTypes DEF Init
<1>3. plan \in [1..2 -> [Chip -> Nat]]
  BY DEF Init, NoChips
<1>4. fired \in [Chip -> SUBSET (start..LastGW)]
  BY DEF Init
<1>5. bought \in [Player -> Nat]
  BY DEF Init
<1>6. /\ before.held = held /\ before.bought = bought /\ before.free = free
      /\ before.short = short /\ short = 0
      /\ held \in [Slot -> Player] /\ free = 1
  BY DEF Init
<1>7. ft \in 1..MaxBanked
  BY SeasonConstants DEF Init
<1>. QED
  BY <1>1, <1>2, <1>3, <1>4, <1>5, <1>6, <1>7 DEF Init, TypeOK, Phase

(* A step that leaves the squad, the wallet and the allowance's reading    *)
(* alone keeps their types.                                                *)
LEMMA NextType ==
  ASSUME TypeOK, [Next]_vars
  PROVE  TypeOK'
<1>. USE DEF TypeOK
<1>w. /\ gw \in Nat /\ start \in Nat /\ LastGW \in Nat /\ gw \in start..LastGW
      /\ free \in Nat /\ free <= cfg.bankUpTo /\ cfg.bankUpTo \in Nat \ {0}
  BY WeekTypes, ConfigTypes
<1>a. Accrued \in 0..cfg.bankUpTo /\ Accrued \in Nat
  BY AccruedType, ConfigTypes
<1>c. "wildcard" \in Chip /\ "freehit" \in Chip /\ "boost" \in Chip /\ "captain" \in Chip
  BY DEF Chip
<1>1. CASE Refuse
  BY <1>1, ScheduleType DEF Refuse, static, wallet, Phase
<1>2. CASE Open
  <2>1. PICK h \in Fifteen : /\ held' = h
                             /\ bought' = [p \in Player |-> IF p \in Squad(h) THEN Buy(p) ELSE 0]
    BY <1>2 DEF Open
  <2>2. held' \in [Slot -> Player]
    BY <2>1 DEF Fifteen, Lineup
  <2>3. bought' \in [Player -> Nat]
    BY <2>1, PriceIsPositive
  <2>4. before'.held = held' /\ before'.bought = bought' /\ before'.free = free'
        /\ before'.short = short' /\ short' = short
    BY <1>2 DEF Open, Snapshot
  <2>5. plan' \in [1..2 -> [Chip -> Nat]]
    BY <1>2, ScheduleType DEF Open
  <2>. QED
    BY <1>2, <2>2, <2>3, <2>4, <2>5 DEF Open, static, wallet, Phase
<1>3. CASE Fail
  BY <1>3 DEF Fail, static, wallet, Phase
<1>4. CASE ConsultWildcard
  BY <1>4, <1>c, ConsultType DEF ConsultWildcard, static, wallet, Phase
<1>5. CASE ConsultFreeHit
  BY <1>5, <1>c, ConsultType DEF ConsultFreeHit, static, wallet, Phase
<1>6. CASE PlayWildcard
  <2>1. PICK next \in Rebuilt : Trade(next)
    BY <1>6 DEF PlayWildcard
  <2>2. next \in Lineup
    BY DEF Rebuilt, Fifteen
  <2>3. held' \in [Slot -> Player] /\ bought' \in [Player -> Nat] /\ made' \in Nat
        /\ short' \in Int
    BY <2>1, <2>2, TradeTypes
  <2>4. played' \subseteq Chip \X (start..LastGW)
    BY <1>6, <1>c DEF PlayWildcard
  <2>. QED
    BY <1>6, <1>a, <2>3, <2>4 DEF PlayWildcard, static, Phase
<1>7. CASE SitOut
  BY <1>7, <1>a DEF SitOut, static, wallet, Phase
<1>8. CASE Bank
  BY <1>8, <1>a DEF Bank, static, wallet, Phase
<1>9. CASE Decide
  <2>1. left' \in Nat
    BY <1>9, <1>a, LimitTypes DEF Decide
  <2>. QED
    BY <1>9, <1>a, <2>1 DEF Decide, static, wallet, Phase
<1>10. CASE Unify
  <2>1. PICK next \in Rebuilt :
          /\ Trade(next)
          /\ hits' = HitsNeeded(Cardinality(Changed(next)))
          /\ free' = free - (Cardinality(Changed(next)) - HitsNeeded(Cardinality(Changed(next))))
    BY <1>10 DEF Unify
  <2>2. next \in Lineup
    BY DEF Rebuilt, Fifteen
  <2>3. held' \in [Slot -> Player] /\ bought' \in [Player -> Nat] /\ made' \in Nat
        /\ short' \in Int
    BY <2>1, <2>2, TradeTypes
  <2>4. hits' \in Nat /\ free' \in 0..cfg.bankUpTo
    BY <2>1, ChangedIsFinite, HitsCover
  <2>. QED
    BY <1>10, <2>3, <2>4 DEF Unify, static, Phase
<1>11. CASE FundedPair
  <2>. DEFINE n(h) == Cardinality(Changed(h))
  <2>1. PICK next \in Lineup :
          /\ Trade(next) /\ n(next) <= left
          /\ hits' = hits + HitsNeeded(n(next))
          /\ free' = free - (n(next) - HitsNeeded(n(next)))
          /\ left' = left - n(next) /\ phase' \in {"single", "doubled"}
    BY <1>11 DEF FundedPair
  <2>2. held' \in [Slot -> Player] /\ bought' \in [Player -> Nat] /\ made' \in Nat
        /\ short' \in Int
    BY <2>1, TradeTypes
  <2>3. n(next) \in Nat
    BY ChangedIsFinite
  <2>4. HitsNeeded(n(next)) \in Nat
        /\ free - (n(next) - HitsNeeded(n(next))) \in 0..cfg.bankUpTo
    BY <2>3, HitsCover
  <2>5. hits' \in Nat /\ free' \in 0..cfg.bankUpTo /\ left' \in Nat
    BY <2>1, <2>3, <2>4
  <2>. QED
    BY <1>11, <2>1, <2>2, <2>5 DEF FundedPair, static, Phase
<1>12. CASE NoPair
  BY <1>12 DEF NoPair, static, wallet, Phase
<1>13. CASE Swap
  <2>1. PICK next \in Lineup : Trade(next)
    BY <1>13 DEF Swap
  <2>2. held' \in [Slot -> Player] /\ bought' \in [Player -> Nat] /\ made' \in Nat
        /\ short' \in Int
    BY <2>1, TradeTypes
  <2>3. hits' \in Nat /\ free' \in 0..cfg.bankUpTo /\ left' \in Nat
    BY <1>13, <1>w DEF Swap
  <2>. QED
    BY <1>13, <2>2, <2>3 DEF Swap, static, Phase
<1>14. CASE Rest
  BY <1>14 DEF Rest, static, wallet, Phase
<1>15. CASE Field
  <2>1. played' \subseteq Chip \X (start..LastGW)
    BY <1>15, <1>c DEF Field
  <2>. QED
    BY <1>15, <2>1 DEF Field, static, wallet, Phase
<1>16. CASE ConsultBoost
  BY <1>16, <1>c, ConsultType DEF ConsultBoost, static, wallet, Phase
<1>17. CASE Score
  <2>1. played' \subseteq Chip \X (start..LastGW)
    BY <1>17, <1>c DEF Score
  <2>. QED
    BY <1>17, <2>1 DEF Score, static, wallet, Phase
<1>18. CASE Finish
  <2>1. ft' \in 1..MaxBanked
    BY <1>18, SeasonConstants DEF Finish, ReadOff
  <2>2. /\ gw' \in start..LastGW /\ phase' \in Phase
        /\ hits' \in Nat /\ left' \in Nat /\ made' \in Nat
    BY <1>18, <1>w DEF Finish, Phase
  <2>3. /\ before'.held \in [Slot -> Player] /\ before'.bought \in [Player -> Nat]
        /\ before'.free \in 0..cfg.bankUpTo /\ before'.short \in Int
    BY <1>18 DEF Finish, wallet
  <2>. QED
    BY <1>18, <2>1, <2>2, <2>3 DEF Finish, static, wallet
<1>19. CASE Ended \/ UNCHANGED vars
  BY <1>19 DEF Ended, vars
<1>. QED
  BY <1>1, <1>2, <1>3, <1>4, <1>5, <1>6, <1>7, <1>8, <1>9, <1>10, <1>11, <1>12, <1>13, <1>14,
     <1>15, <1>16, <1>17, <1>18, <1>19 DEF Next

(* For every configuration, the free transfers saved never exceed what may *)
(* be saved, and every other variable keeps its type.                      *)
THEOREM TypeCorrect == Spec => []TypeOK
<1>1. Init => TypeOK
  BY InitType
<1>2. TypeOK /\ [Next]_vars => TypeOK'
  BY NextType
<1>. QED
  BY <1>1, <1>2, PTL DEF Spec

-----------------------------------------------------------------------------
(* Chips.  The plan was judged before the season began, so what has to be  *)
(* carried through it is that no rule fires for a planned chip, twice in a *)
(* set, or in a gameweek another chip has.                                 *)

PlanIsValid == phase # "refused" => ValidChipSets(cfg.sets, plan)

RulesYield ==
  \A k \in Chip : fired[k] # {} => \A s \in 1..2 : plan[s][k] = 0

OncePerSet ==
  \A k \in Chip : \A v, w \in fired[k] : SetOfGW(v) = SetOfGW(w) => v = w

OneAWeek ==
  phase # "refused" =>
    \A k, l \in Chip : \A w \in Week : Plays(k, w) /\ Plays(l, w) => k = l

PlayedIsDue == \A k \in Chip : \A w \in Week : <<k, w>> \in played => Plays(k, w)

NothingYet ==
  phase \in {"entry", "refused"} => (\A k \in Chip : fired[k] = {}) /\ played = {}

ChipInv == PlanIsValid /\ RulesYield /\ OncePerSet /\ OneAWeek /\ PlayedIsDue /\ NothingYet

LEMMA ChipNames ==
  "wildcard" \in Chip /\ "freehit" \in Chip /\ "boost" \in Chip /\ "captain" \in Chip
BY DEF Chip

LEMMA NoChipsAreValid ==
  ASSUME NEW sets \in {1, 2}
  PROVE  ValidChipSets(sets, [s \in 1..2 |-> NoChips])
<1>1. \A s \in 1..2, k \in Chip : [t \in 1..2 |-> NoChips][s][k] = 0
  BY DEF NoChips
<1>2. ResetGW \in Nat \ {0}
  BY SeasonConstants
<1>. QED
  BY <1>1, <1>2 DEF ValidChipSets, InTheirSets

(* A valid plan plays no two chips in one gameweek.                        *)
LEMMA ValidMeansOne ==
  ASSUME ValidChipSets(cfg.sets, plan), NEW w \in Week, NEW k \in Chip, NEW l \in Chip,
         PlannedFor(k, w), PlannedFor(l, w)
  PROVE  k = l
<1>1. PICK s \in 1..2 : plan[s][k] = w
  BY DEF PlannedFor
<1>2. PICK t \in 1..2 : plan[t][l] = w
  BY DEF PlannedFor
<1>3. w # 0
  BY DEF Week
<1>. QED
  BY <1>1, <1>2, <1>3 DEF ValidChipSets

LEMMA InitChips ==
  ASSUME Init
  PROVE  ChipInv
<1>1. cfg.sets \in {1, 2}
  BY ConfigTypes DEF Init
<1>2. \A k \in Chip : fired[k] = {}
  BY DEF Init
<1>3. \A s \in 1..2, k \in Chip : plan[s][k] = 0
  BY DEF Init, NoChips
<1>4. \A k \in Chip, w \in Week : ~Plays(k, w)
  BY <1>2, <1>3 DEF Plays, PlannedFor, Week
<1>5. PlanIsValid
  BY <1>1, NoChipsAreValid DEF Init, PlanIsValid
<1>. QED
  BY <1>2, <1>4, <1>5
     DEF Init, ChipInv, RulesYield, OncePerSet, OneAWeek, PlayedIsDue, NothingYet

(* Whether a chip's rule fires or not, a rule consulted keeps them.        *)
LEMMA ConsultChips ==
  ASSUME TypeOK, ChipInv, phase \notin {"entry", "refused"}, phase' \notin {"entry", "refused"},
         NEW c \in Chip, UNCHANGED <<cfg, plan, gw, played>>,
         \/ fired' = fired
         \/ Eligible(c, gw) /\ fired' = [fired EXCEPT ![c] = @ \cup {gw}]
  PROVE  ChipInv'
<1>. USE DEF ChipInv
<1>0. gw \in Week /\ fired \in [Chip -> SUBSET (start..LastGW)]
  BY WeekTypes DEF TypeOK
<1>1. CASE fired' = fired
  <2>1. \A k \in Chip, w \in Week : Plays(k, w)' <=> Plays(k, w)
    BY <1>1 DEF Plays, PlannedFor
  <2>. QED
    BY <1>1, <2>1 DEF PlanIsValid, RulesYield, OncePerSet, OneAWeek, PlayedIsDue, NothingYet,
                      SetOfGW
<1>2. CASE Eligible(c, gw) /\ fired' = [fired EXCEPT ![c] = @ \cup {gw}]
  <2>1. /\ \A k \in Chip : k # c => fired'[k] = fired[k]
        /\ fired'[c] = fired[c] \cup {gw}
    BY <1>0, <1>2
  <2>2. \A k \in Chip, w \in Week : Plays(k, w)' <=> Plays(k, w) \/ (k = c /\ w = gw)
    BY <2>1 DEF Plays, PlannedFor
  <2>3. \A k \in Chip : ~Plays(k, gw)
    BY <1>2 DEF Eligible, AnyPlays
  <2>4. RulesYield'
    BY <1>2, <2>1 DEF Eligible, RulesYield
  <2>5. OncePerSet'
    <3>1. \A w : SetOfGW(w)' = SetOfGW(w)
      BY DEF SetOfGW
    <3>2. \A v \in fired[c] : SetOfGW(v) # SetOfGW(gw)
      BY <1>2 DEF Eligible, Unspent
    <3>. QED
      BY <2>1, <3>1, <3>2 DEF OncePerSet
  <2>6. OneAWeek'
    BY <2>2, <2>3 DEF OneAWeek
  <2>7. PlayedIsDue'
    BY <2>2 DEF PlayedIsDue
  <2>. QED
    BY <2>4, <2>5, <2>6, <2>7 DEF PlanIsValid, NothingYet
<1>. QED
  BY <1>1, <1>2

(* So does a chip played that is due.                                      *)
LEMMA PlayedChips ==
  ASSUME TypeOK, ChipInv, phase \notin {"entry", "refused"}, phase' \notin {"entry", "refused"},
         UNCHANGED <<cfg, plan, fired>>,
         NEW S, played' = played \cup S,
         \A x \in S : \E k \in Chip : x = <<k, gw>> /\ Plays(k, gw)
  PROVE  ChipInv'
<1>1. \A k \in Chip, w \in Week : Plays(k, w)' <=> Plays(k, w)
  BY DEF Plays, PlannedFor
<1>2. PlayedIsDue'
  <2>. SUFFICES ASSUME NEW k \in Chip, NEW w \in Week, <<k, w>> \in played \cup S
                PROVE  Plays(k, w)
    BY <1>1 DEF PlayedIsDue
  <2>1. CASE <<k, w>> \in S
    <3>1. PICK l \in Chip : <<k, w>> = <<l, gw>> /\ Plays(l, gw)
      BY <2>1
    <3>2. k = l /\ w = gw
      BY <3>1
    <3>. QED
      BY <3>1, <3>2
  <2>. QED
    BY <2>1 DEF ChipInv, PlayedIsDue
<1>. QED
  BY <1>1, <1>2 DEF ChipInv, PlanIsValid, RulesYield, OncePerSet, OneAWeek, NothingYet, SetOfGW

LEMMA NextChips ==
  ASSUME TypeOK, ChipInv, [Next]_vars
  PROVE  ChipInv'
<1>. USE ChipNames
<1>1. CASE Refuse
  <2>1. played = {} /\ \A k \in Chip : fired[k] = {}
    BY <1>1 DEF Refuse, ChipInv, NothingYet
  <2>. QED
    BY <1>1, <2>1 DEF Refuse, static, ChipInv, PlanIsValid, RulesYield, OncePerSet, OneAWeek,
                      PlayedIsDue, NothingYet
<1>2. CASE Open
  <2>1. played' = {} /\ \A k \in Chip : fired'[k] = {}
    BY <1>2 DEF Open, ChipInv, NothingYet
  <2>2. ValidChipSets(cfg.sets, plan)'
    BY <1>2 DEF Open, static
  <2>3. OneAWeek'
    <3>. SUFFICES ASSUME NEW k \in Chip, NEW l \in Chip, NEW w \in Week,
                         Plays(k, w)', Plays(l, w)'
                  PROVE  k = l
      BY DEF OneAWeek
    <3>1. PlannedFor(k, w)' /\ PlannedFor(l, w)'
      BY <2>1 DEF Plays
    <3>2. PICK s \in 1..2 : plan'[s][k] = w
      BY <3>1 DEF PlannedFor
    <3>3. PICK t \in 1..2 : plan'[t][l] = w
      BY <3>1 DEF PlannedFor
    <3>4. w # 0
      BY DEF Week
    <3>. QED
      BY <2>2, <3>2, <3>3, <3>4 DEF ValidChipSets
  <2>. QED
    BY <1>2, <2>1, <2>2, <2>3 DEF Open, ChipInv, PlanIsValid, RulesYield, OncePerSet,
                                  PlayedIsDue, NothingYet
<1>3. CASE /\ UNCHANGED <<cfg, plan, fired, played>>
           /\ phase \notin {"entry", "refused"} /\ phase' \notin {"entry", "refused"}
  <2>. DEFINE S == {}
  <2>1. played' = played \cup S
    BY <1>3
  <2>2. \A x \in S : \E k \in Chip : x = <<k, gw>> /\ Plays(k, gw)
    OBVIOUS
  <2>. HIDE DEF S
  <2>. QED
    BY <1>3, <2>1, <2>2, PlayedChips
<1>4. CASE ConsultWildcard
  BY <1>4, ConsultChips DEF ConsultWildcard, Consult, static
<1>5. CASE ConsultFreeHit
  BY <1>5, ConsultChips DEF ConsultFreeHit, Consult, static
<1>6. CASE ConsultBoost
  BY <1>6, ConsultChips DEF ConsultBoost, Consult, static
<1>7. CASE PlayWildcard
  <2>. DEFINE S == {<<"wildcard", gw>>}
  <2>1. played' = played \cup S /\ UNCHANGED <<cfg, plan, fired>>
        /\ phase \notin {"entry", "refused"} /\ phase' \notin {"entry", "refused"}
    BY <1>7 DEF PlayWildcard, static
  <2>2. \A x \in S : \E k \in Chip : x = <<k, gw>> /\ Plays(k, gw)
    BY <1>7 DEF PlayWildcard
  <2>. HIDE DEF S
  <2>. QED
    BY <2>1, <2>2, PlayedChips
<1>8. CASE Field
  <2>. DEFINE S == IF Plays("freehit", gw) THEN {<<"freehit", gw>>} ELSE {}
  <2>1. played' = played \cup S /\ UNCHANGED <<cfg, plan, fired>>
        /\ phase \notin {"entry", "refused"} /\ phase' \notin {"entry", "refused"}
    BY <1>8 DEF Field, static
  <2>2. \A x \in S : \E k \in Chip : x = <<k, gw>> /\ Plays(k, gw)
    OBVIOUS
  <2>. HIDE DEF S
  <2>. QED
    BY <2>1, <2>2, PlayedChips
<1>9. CASE Score
  <2>. DEFINE S == IF Plays("boost", gw) THEN {<<"boost", gw>>}
                   ELSE IF PlannedFor("captain", gw) THEN {<<"captain", gw>>} ELSE {}
  <2>1. played' = played \cup S /\ UNCHANGED <<cfg, plan, fired>>
        /\ phase \notin {"entry", "refused"} /\ phase' \notin {"entry", "refused"}
    BY <1>9 DEF Score, static
  <2>2. \A x \in S : \E k \in Chip : x = <<k, gw>> /\ Plays(k, gw)
    BY DEF Plays
  <2>. HIDE DEF S
  <2>. QED
    BY <2>1, <2>2, PlayedChips
<1>10. CASE Fail
  <2>1. UNCHANGED <<cfg, plan, fired, played>> /\ phase' = "failed" /\ phase # "refused"
    BY <1>10 DEF Fail, static
  <2>2. \A k \in Chip, w \in Week : Plays(k, w)' <=> Plays(k, w)
    BY <2>1 DEF Plays, PlannedFor
  <2>. QED
    BY <2>1, <2>2 DEF ChipInv, PlanIsValid, RulesYield, OncePerSet, OneAWeek, PlayedIsDue,
                      NothingYet, SetOfGW
<1>11. CASE SitOut \/ Bank \/ Decide
  BY <1>3, <1>11 DEF SitOut, Bank, Decide, OrdinaryWeek, static
<1>12. CASE Unify \/ NoPair \/ Swap \/ Rest
  BY <1>3, <1>12 DEF Unify, NoPair, Swap, Rest, static
<1>13. CASE FundedPair
  BY <1>3, <1>13 DEF FundedPair, static
<1>14. CASE Finish
  BY <1>3, <1>14 DEF Finish, static
<1>15. CASE UNCHANGED vars
  <2>1. UNCHANGED <<cfg, plan, gw, phase, fired, played>>
    BY <1>15 DEF vars
  <2>2. \A k \in Chip, w \in Week : Plays(k, w)' <=> Plays(k, w)
    BY <2>1 DEF Plays, PlannedFor
  <2>. QED
    BY <2>1, <2>2 DEF ChipInv, PlanIsValid, RulesYield, OncePerSet, OneAWeek, PlayedIsDue,
                      NothingYet, SetOfGW
<1>. QED
  BY <1>1, <1>2, <1>4, <1>5, <1>6, <1>7, <1>8, <1>9, <1>10, <1>11, <1>12, <1>13, <1>14, <1>15
     DEF Next, Ended

LEMMA ChipsInvariant == Spec => [](TypeOK /\ ChipInv)
<1>1. Init => ChipInv
  BY InitChips
<1>2. TypeOK /\ ChipInv /\ [Next]_vars => ChipInv'
  BY NextChips
<1>. QED
  BY <1>1, <1>2, TypeCorrect, PTL DEF Spec

LEMMA WhatIsPlayed ==
  ASSUME TypeOK, ChipInv, NEW x \in played
  PROVE  x[1] \in Chip /\ x[2] \in Week /\ x = <<x[1], x[2]>> /\ Plays(x[1], x[2])
<1>1. x \in Chip \X (start..LastGW)
  BY DEF TypeOK
<1>2. x[1] \in Chip /\ x[2] \in Week /\ x = <<x[1], x[2]>>
  BY <1>1, WeekTypes DEF Week
<1>. QED
  BY <1>2 DEF ChipInv, PlayedIsDue

(* No two chips are played in one gameweek, by plan, by rule or by one of  *)
(* each.                                                                   *)
THEOREM OneChip == Spec => []OneChipAWeek
<1>1. ASSUME TypeOK, ChipInv
      PROVE  OneChipAWeek
  <2>. SUFFICES ASSUME NEW x \in played, NEW y \in played, x[2] = y[2]
                PROVE  x = y
    BY DEF OneChipAWeek
  <2>1. phase # "refused"
    BY <1>1 DEF ChipInv, NothingYet
  <2>2. /\ x[1] \in Chip /\ x[2] \in Week /\ x = <<x[1], x[2]>> /\ Plays(x[1], x[2])
        /\ y[1] \in Chip /\ y = <<y[1], y[2]>> /\ Plays(y[1], y[2])
    BY <1>1, WhatIsPlayed
  <2>3. x[1] = y[1]
    BY <1>1, <2>1, <2>2 DEF ChipInv, OneAWeek
  <2>. QED
    BY <2>2, <2>3
<1>. QED
  BY <1>1, ChipsInvariant, PTL

(* A chip due in two weeks of one set is due in one week.                  *)
LEMMA DueOnce ==
  ASSUME TypeOK, ChipInv, phase # "refused", NEW k \in Chip, NEW v \in Week, NEW w \in Week,
         Plays(k, v), Plays(k, w), SetOfGW(v) = SetOfGW(w)
  PROVE  v = w
<1>1. v # 0 /\ w # 0 /\ v \in Nat /\ w \in Nat
  BY DEF Week
<1>2. CASE fired[k] # {}
  <2>1. \A s \in 1..2 : plan[s][k] = 0
    BY <1>2 DEF ChipInv, RulesYield
  <2>2. v \in fired[k] /\ w \in fired[k]
    BY <1>1, <2>1 DEF Plays, PlannedFor
  <2>. QED
    BY <2>2 DEF ChipInv, OncePerSet
<1>3. CASE fired[k] = {}
  <2>1. PICK s \in 1..2 : plan[s][k] = v
    BY <1>3 DEF Plays, PlannedFor
  <2>2. PICK t \in 1..2 : plan[t][k] = w
    BY <1>3 DEF Plays, PlannedFor
  <2>3. InTheirSets(cfg.sets, plan)
    BY DEF ChipInv, PlanIsValid, ValidChipSets
  <2>4. cfg.sets \in {1, 2} /\ ResetGW \in Nat
    BY ConfigTypes, SeasonConstants DEF TypeOK
  <2>5. \A u \in 1..2 : plan[u][k] # 0 /\ plan[u][k] \in Nat => SetOfGW(plan[u][k]) = u
    <3>1. /\ plan[2][k] # 0 => cfg.sets >= 2 /\ plan[2][k] >= ResetGW
          /\ cfg.sets >= 2 => plan[1][k] < ResetGW
      BY <2>3 DEF InTheirSets
    <3>. QED
      BY <2>4, <3>1 DEF SetOfGW
  <2>6. s = t
    BY <1>1, <2>1, <2>2, <2>5
  <2>. QED
    BY <2>1, <2>2, <2>6
<1>. QED
  BY <1>2, <1>3

(* No chip is spent twice in one of the sets the season grants.            *)
THEOREM OnceInASet == Spec => []OnceOfAKind
<1>1. ASSUME TypeOK, ChipInv
      PROVE  OnceOfAKind
  <2>. SUFFICES ASSUME NEW x \in played, NEW y \in played, x[1] = y[1],
                       SetOfGW(x[2]) = SetOfGW(y[2])
                PROVE  x[2] = y[2]
    BY <1>1, WhatIsPlayed DEF OnceOfAKind
  <2>1. /\ x[1] \in Chip /\ x[2] \in Week /\ y[2] \in Week
        /\ Plays(x[1], x[2]) /\ Plays(x[1], y[2])
    BY <1>1, WhatIsPlayed
  <2>2. phase # "refused"
    BY <1>1 DEF ChipInv, NothingYet
  <2>. QED
    BY <1>1, <2>1, <2>2, DueOnce
<1>. QED
  BY <1>1, ChipsInvariant, PTL

-----------------------------------------------------------------------------
(* Hits and free transfers: what each phase of a week has left of the      *)
(* allowance, and what it may still spend.                                 *)

ChipWeek == Plays("wildcard", gw) \/ Plays("freehit", gw)

Balanced ==
  /\ hits = IF made > Allowance THEN made - Allowance ELSE 0
  /\ free = IF Allowance > made THEN Allowance - made ELSE 0

Untouched == hits = 0 /\ made = 0 /\ free = before.free

HitInv ==
  /\ phase = "entry" => Untouched /\ free = 1 /\ gw = start
  /\ phase \in {"triggers", "freehit", "decide"} => Untouched /\ gw > start
  /\ phase \in {"unified", "pair"} =>
       hits = 0 /\ made = 0 /\ free = Allowance /\ left = MoveLimit(Allowance)
  /\ phase = "single" => Balanced /\ made + left = MoveLimit(Allowance)
  /\ phase \in {"unified", "pair", "single"} => gw > start /\ ~ChipWeek
  /\ phase \in {"field", "boost", "score", "record", "done"} =>
       IF ChipWeek THEN hits = 0 /\ free = Allowance
       ELSE Balanced /\ hits <= MostHits
  /\ phase \in {"field", "boost", "score", "record", "done"} /\ gw = start => made = 0

LEMMA AllowanceType ==
  ASSUME TypeOK
  PROVE  Allowance \in Nat /\ Allowance <= cfg.bankUpTo
BY ConfigTypes DEF TypeOK, Allowance

(* A balanced week within its limit takes no more hits than it may.        *)
LEMMA WithinLimit ==
  ASSUME TypeOK, Balanced, made <= MoveLimit(Allowance)
  PROVE  hits <= MostHits
BY AllowanceType, LimitTypes DEF Balanced, TypeOK

LEMMA HitTheorem ==
  ASSUME TypeOK, HitInv
  PROVE  HitsAreTheExcess
<1>1. CASE phase \in {"unified", "pair"}
  BY <1>1, AllowanceType, LimitTypes DEF HitInv, HitsAreTheExcess, Trading, ChipWeek, TypeOK
<1>2. CASE phase = "single"
  <2>1. made <= MoveLimit(Allowance)
    BY <1>2, AllowanceType, LimitTypes DEF HitInv, TypeOK
  <2>. QED
    BY <1>2, <2>1, WithinLimit DEF HitInv, HitsAreTheExcess, ChipWeek, Balanced
<1>3. CASE phase \in {"field", "boost", "score", "record", "done"}
  BY <1>3 DEF HitInv, HitsAreTheExcess, ChipWeek, Balanced
<1>. QED
  BY <1>1, <1>2, <1>3 DEF HitsAreTheExcess, Trading

LEMMA InitHits ==
  ASSUME Init
  PROVE  HitInv
BY DEF Init, HitInv, Untouched

(* A rule consulted for another chip does not make this a wildcard or a    *)
(* free-hit week.                                                          *)
LEMMA SameWeek ==
  ASSUME UNCHANGED <<plan, gw>>, UNCHANGED fired
  PROVE  ChipWeek' <=> ChipWeek
BY DEF ChipWeek, Plays, PlannedFor

LEMMA NextHits ==
  ASSUME TypeOK, HitInv, [Next]_vars
  PROVE  HitInv'
<1>t. /\ gw \in Nat /\ start \in Nat /\ free \in Nat /\ before.free \in Nat /\ made \in Nat
      /\ hits \in Nat /\ left \in Nat /\ Allowance \in Nat /\ MostHits \in Nat
      /\ cfg.bankUpTo \in Nat \ {0}
  BY WeekTypes, ConfigTypes, AllowanceType, LimitTypes DEF TypeOK
<1>s. ASSUME UNCHANGED <<cfg, start, gw>>, before'.free = before.free
      PROVE  /\ Allowance' = Allowance /\ MostHits' = MostHits
             /\ MoveLimit(Allowance)' = MoveLimit(Allowance)
  BY <1>s DEF Allowance, MostHits, HitCeiling, MoveLimit
<1>1. CASE Refuse \/ Fail
  BY <1>1 DEF Refuse, Fail, HitInv
<1>2. CASE Open
  <2>1. /\ phase' = "field" /\ gw' = start' /\ hits' = 0 /\ made' = 0 /\ free' = 1
        /\ Allowance' = 1
    BY <1>2 DEF Open, HitInv, Untouched, Allowance, static
  <2>2. MostHits' \in Nat
    BY <1>2, <1>t DEF Open, static, MostHits, HitCeiling
  <2>. QED
    BY <2>1, <2>2 DEF HitInv, Balanced
<1>3. CASE ConsultWildcard \/ ConsultFreeHit
  BY <1>3 DEF ConsultWildcard, ConsultFreeHit, HitInv, Untouched, static
<1>4. CASE PlayWildcard \/ SitOut \/ Bank \/ Decide
  <2>d. phase = "decide" /\ UNCHANGED <<cfg, start, gw, plan, fired, before, hits>>
        /\ free' = Accrued
    BY <1>4 DEF PlayWildcard, SitOut, Bank, Decide, OrdinaryWeek, static
  <2>1. hits = 0 /\ made = 0 /\ free = before.free /\ gw > start
    BY <2>d DEF HitInv, Untouched
  <2>2. Allowance' = Allowance /\ MostHits' = MostHits
        /\ MoveLimit(Allowance)' = MoveLimit(Allowance)
    BY <2>d, <1>s
  <2>3. free' = Allowance /\ gw' > start' /\ gw' # start'
    BY <2>d, <2>1, <1>t DEF Accrued, Allowance
  <2>4. ChipWeek' <=> ChipWeek
    BY <2>d, SameWeek
  <2>5. CASE PlayWildcard \/ SitOut
    BY <1>t, <2>1, <2>2, <2>3, <2>4, <2>5, <2>d DEF PlayWildcard, SitOut, HitInv, ChipWeek
  <2>6. CASE Bank
    BY <1>t, <2>1, <2>2, <2>3, <2>4, <2>6, <2>d DEF Bank, OrdinaryWeek, HitInv, ChipWeek, Balanced
  <2>7. CASE Decide
    <3>1. ~ChipWeek /\ left' = MoveLimit(Allowance) /\ made' = 0
          /\ phase' \in {"unified", "pair", "single"}
      BY <2>1, <2>3, <2>7, <2>d DEF Decide, OrdinaryWeek, ChipWeek
    <3>2. left' \in Nat
      BY <3>1, <1>t, LimitTypes
    <3>. QED
      BY <1>t, <2>1, <2>2, <2>3, <2>4, <3>1, <3>2, <2>d DEF HitInv, Balanced
  <2>. QED
    BY <1>4, <2>5, <2>6, <2>7
<1>5. CASE Unify
  <2>. DEFINE n(h) == Cardinality(Changed(h))
  <2>1. PICK next \in Rebuilt :
          /\ n(next) <= left /\ Trade(next)
          /\ hits' = HitsNeeded(n(next)) /\ free' = free - (n(next) - HitsNeeded(n(next)))
    BY <1>5 DEF Unify
  <2>2. n(next) \in Nat /\ made' = made + n(next)
    BY <2>1, ChangedIsFinite, TradeFacts
  <2>3. /\ phase = "unified" /\ phase' = "field"
        /\ UNCHANGED <<cfg, start, gw, plan, fired, before>>
    BY <1>5 DEF Unify, static
  <2>4. /\ made = 0 /\ free = Allowance /\ left = MoveLimit(Allowance)
        /\ gw > start /\ ~ChipWeek
    BY <2>3 DEF HitInv
  <2>5. Allowance' = Allowance /\ MostHits' = MostHits /\ ~ChipWeek'
    BY <2>3, <2>4, <1>s, SameWeek
  <2>6. /\ hits' = IF n(next) > free THEN n(next) - free ELSE 0
        /\ free' = IF free > n(next) THEN free - n(next) ELSE 0
    BY <2>1, <2>2, HitsCover
  <2>7. made' = n(next) /\ n(next) <= Allowance + MostHits
    BY <1>t, <2>1, <2>2, <2>4, LimitTypes
  <2>8. Balanced' /\ hits' <= MostHits'
    BY <1>t, <2>2, <2>4, <2>5, <2>6, <2>7 DEF Balanced
  <2>9. gw' # start'
    BY <1>t, <2>3, <2>4
  <2>. QED
    BY <2>3, <2>5, <2>8, <2>9 DEF HitInv
<1>6. CASE FundedPair
  <2>. DEFINE n(h) == Cardinality(Changed(h))
  <2>1. PICK next \in Lineup :
          /\ Trade(next) /\ n(next) <= left
          /\ hits' = hits + HitsNeeded(n(next))
          /\ free' = free - (n(next) - HitsNeeded(n(next)))
          /\ left' = left - n(next)
          /\ phase' \in {"single", "doubled"}
    BY <1>6 DEF FundedPair
  <2>2. n(next) \in Nat /\ made' = made + n(next)
    BY <2>1, ChangedIsFinite, TradeFacts
  <2>3. phase = "pair" /\ UNCHANGED <<cfg, start, gw, plan, fired, before>>
    BY <1>6 DEF FundedPair, static
  <2>4. /\ made = 0 /\ hits = 0 /\ free = Allowance /\ left = MoveLimit(Allowance)
        /\ gw > start /\ ~ChipWeek
    BY <2>3 DEF HitInv
  <2>5. /\ Allowance' = Allowance /\ MoveLimit(Allowance)' = MoveLimit(Allowance)
        /\ gw' > start' /\ ~ChipWeek'
    BY <2>3, <2>4, <1>s, SameWeek
  <2>6. /\ HitsNeeded(n(next)) = IF n(next) > free THEN n(next) - free ELSE 0
        /\ free' = IF free > n(next) THEN free - n(next) ELSE 0
    BY <2>1, <2>2, HitsCover
  <2>7. Balanced'
    BY <1>t, <2>1, <2>2, <2>4, <2>5, <2>6 DEF Balanced
  <2>8. made' + left' = MoveLimit(Allowance)'
    BY <1>t, <2>1, <2>2, <2>4, <2>5, LimitTypes
  <2>. QED
    BY <2>1, <2>5, <2>7, <2>8 DEF HitInv
<1>7. CASE NoPair \/ Rest
  <2>1. /\ phase \in {"unified", "pair", "single"} /\ phase' \in {"single", "field"}
        /\ phase' = "field" => phase # "pair"
        /\ phase' = "single" => phase = "pair"
        /\ UNCHANGED <<cfg, start, gw, plan, fired, before, hits, made, free, left>>
    BY <1>7 DEF NoPair, Rest, static
  <2>2. Allowance' = Allowance /\ MostHits' = MostHits
        /\ MoveLimit(Allowance)' = MoveLimit(Allowance) /\ ChipWeek' = ChipWeek
    BY <2>1, <1>s DEF ChipWeek, Plays, PlannedFor
  <2>3. gw > start /\ ~ChipWeek /\ Balanced
    BY <1>t, <2>1 DEF HitInv, Balanced
  <2>4. made <= MoveLimit(Allowance) /\ (phase = "pair" => made + left = MoveLimit(Allowance))
    <3>1. MoveLimit(Allowance) \in Nat /\ left \in Nat /\ made \in Nat
      BY <1>t, LimitTypes
    <3>2. CASE phase \in {"unified", "pair"}
      BY <3>1, <3>2 DEF HitInv
    <3>3. CASE phase = "single"
      <4>1. made + left = MoveLimit(Allowance)
        BY <3>3 DEF HitInv
      <4>. QED
        BY <3>1, <3>3, <4>1
    <3>. QED
      BY <2>1, <3>2, <3>3
  <2>5. hits <= MostHits
    BY <2>3, <2>4, WithinLimit
  <2>6. Balanced'
    BY <2>1, <2>2, <2>3 DEF Balanced
  <2>7. gw' > start' /\ gw' # start' /\ ~ChipWeek' /\ hits' <= MostHits'
        /\ (phase = "pair" => made' + left' = MoveLimit(Allowance)')
    BY <1>t, <2>1, <2>2, <2>3, <2>4, <2>5
  <2>. QED
    BY <2>1, <2>6, <2>7 DEF HitInv
<1>8. CASE Swap
  <2>1. PICK next \in Lineup : Trade(next) /\ Cardinality(Changed(next)) = 1
    BY <1>8 DEF Swap
  <2>2. made' = made + 1
    BY <2>1, TradeFacts
  <2>3. /\ phase = "single" /\ phase' = "single" /\ left > 0 /\ left' = left - 1
        /\ \/ free > 0 /\ free' = free - 1 /\ hits' = hits
           \/ free = 0 /\ hits' = hits + 1 /\ free' = free
        /\ UNCHANGED <<cfg, start, gw, plan, fired, before>>
    BY <1>8 DEF Swap, static
  <2>4. Allowance' = Allowance /\ MoveLimit(Allowance)' = MoveLimit(Allowance)
        /\ ChipWeek' = ChipWeek
    BY <2>3, <1>s DEF ChipWeek, Plays, PlannedFor
  <2>5. Balanced /\ made + left = MoveLimit(Allowance) /\ gw > start /\ ~ChipWeek
    BY <2>3 DEF HitInv
  <2>6. Balanced'
    BY <1>t, <2>2, <2>3, <2>4, <2>5 DEF Balanced
  <2>7. made' + left' = MoveLimit(Allowance)'
    BY <1>t, <2>2, <2>3, <2>4, <2>5
  <2>. QED
    BY <2>3, <2>4, <2>5, <2>6, <2>7 DEF HitInv
<1>9. CASE Field \/ ConsultBoost \/ Score
  <2>1. /\ phase \in {"field", "boost", "score"} /\ phase' \in {"boost", "score", "record"}
        /\ UNCHANGED <<cfg, start, gw, plan, before, hits, made, free>>
    BY <1>9 DEF Field, ConsultBoost, Score, static
  <2>2. fired'["wildcard"] = fired["wildcard"] /\ fired'["freehit"] = fired["freehit"]
    BY <1>9, ChipNames DEF Field, ConsultBoost, Score, Consult, TypeOK
  <2>3. Allowance' = Allowance /\ MostHits' = MostHits /\ ChipWeek' = ChipWeek
    BY <2>1, <2>2, <1>s DEF ChipWeek, Plays, PlannedFor
  <2>. QED
    BY <2>1, <2>3 DEF HitInv, Balanced
<1>10. CASE Finish
  <2>1. CASE gw = LastGW
    <3>1. /\ phase = "record" /\ phase' = "done"
          /\ UNCHANGED <<cfg, start, gw, plan, fired, before, hits, made, free>>
      BY <1>10, <2>1 DEF Finish, static
    <3>2. Allowance' = Allowance /\ MostHits' = MostHits /\ ChipWeek' = ChipWeek
      BY <3>1, <1>s DEF ChipWeek, Plays, PlannedFor
    <3>. QED
      BY <3>1, <3>2 DEF HitInv, Balanced
  <2>2. CASE gw # LastGW
    <3>1. /\ phase' = "triggers" /\ gw' = gw + 1 /\ start' = start /\ gw >= start
          /\ hits' = 0 /\ made' = 0 /\ before'.free = free'
      BY <1>10, <2>2, WeekTypes DEF Finish, static
    <3>. QED
      BY <1>t, <3>1 DEF HitInv, Untouched
  <2>. QED
    BY <2>1, <2>2
<1>11. CASE UNCHANGED vars
  BY <1>11 DEF vars, HitInv, Untouched, Balanced, Allowance, MostHits, HitCeiling, MoveLimit,
               ChipWeek, Plays, PlannedFor
<1>. QED
  BY <1>1, <1>2, <1>3, <1>4, <1>5, <1>6, <1>7, <1>8, <1>9, <1>10, <1>11 DEF Next, Ended

LEMMA HitsInvariant == Spec => [](TypeOK /\ HitInv)
<1>1. Init => HitInv
  BY InitHits
<1>2. TypeOK /\ HitInv /\ [Next]_vars => HitInv'
  BY NextHits
<1>. QED
  BY <1>1, <1>2, TypeCorrect, PTL DEF Spec

(* The hits of a week are the transfers beyond its allowance, never more   *)
(* than the limits permit, and what is carried on is what was not spent.   *)
THEOREM HitsAreExact == Spec => []HitsAreTheExcess
<1>1. TypeOK /\ HitInv => HitsAreTheExcess
  BY HitTheorem
<1>. QED
  BY <1>1, HitsInvariant, PTL

-----------------------------------------------------------------------------
(* The wallet.  Trading needs the players held to be different: a player   *)
(* sold from one slot would otherwise still be held in another.            *)

Live == Trading \cup {"triggers", "freehit", "decide"}

Tracked == \A p \in Player : bought[p] # 0 <=> p \in Squad(held)

WalletInv == phase \in Live => Different(held) /\ Tracked

LEMMA TradeTracks ==
  ASSUME TypeOK, Different(held), Tracked, NEW next \in Lineup, Trade(next)
  PROVE  Tracked'
<1>1. held' = next /\ bought' = BoughtAfter(next)
  BY TradeFacts
<1>. SUFFICES ASSUME NEW p \in Player
              PROVE  BoughtAfter(next)[p] # 0 <=> p \in Squad(next)
  BY <1>1 DEF Tracked, Squad
<1>2. CASE p \in New(next)
  <2>1. BoughtAfter(next)[p] = Buy(p) /\ Buy(p) # 0
    BY <1>2, PriceIsPositive DEF BoughtAfter
  <2>2. p \in Squad(next)
    BY <1>2 DEF New, Changed, Squad
  <2>. QED
    BY <2>1, <2>2
<1>3. CASE p \notin New(next) /\ p \in Gone(next)
  <2>1. BoughtAfter(next)[p] = 0
    BY <1>3 DEF BoughtAfter
  <2>2. PICK s \in Slot : held[s] = p /\ next[s] # held[s]
    BY <1>3 DEF Gone, Changed
  <2>3. ASSUME NEW t \in Slot, next[t] = p
        PROVE  FALSE
    <3>1. next[t] = held[t]
      BY <1>3, <2>3 DEF New, Changed
    <3>2. s = t
      BY <2>2, <2>3, <3>1 DEF Different
    <3>. QED
      BY <2>2, <2>3, <3>2
  <2>. QED
    BY <2>1, <2>3 DEF Squad
<1>4. CASE p \notin New(next) /\ p \notin Gone(next)
  <2>1. BoughtAfter(next)[p] = bought[p]
    BY <1>4 DEF BoughtAfter
  <2>2. p \in Squad(held) <=> p \in Squad(next)
    BY <1>4 DEF New, Gone, Changed, Squad
  <2>. QED
    BY <2>1, <2>2 DEF Tracked
<1>. QED
  BY <1>2, <1>3, <1>4

(* One swap for a player not held leaves them different.                   *)
LEMMA SwapDiffers ==
  ASSUME TypeOK, Different(held), NEW next \in Lineup, Arrivals(next),
         Cardinality(Changed(next)) = 1
  PROVE  Different(next)
<1>1. PICK x : Changed(next) = {x}
  BY ChangedIsFinite, FS_Singleton
<1>. SUFFICES ASSUME NEW s \in Slot, NEW t \in Slot, next[s] = next[t]
              PROVE  s = t
  BY DEF Different
<1>2. CASE s \in Changed(next) /\ t \in Changed(next)
  BY <1>1, <1>2
<1>3. CASE s \notin Changed(next) /\ t \notin Changed(next)
  BY <1>3 DEF Changed, Different
<1>4. CASE (s \in Changed(next)) # (t \in Changed(next))
  BY <1>4 DEF Changed, New, Squad, Arrivals
<1>. QED
  BY <1>2, <1>3, <1>4

LEMMA NextWallet ==
  ASSUME TypeOK, WalletInv, [Next]_vars
  PROVE  WalletInv'
<1>1. CASE UNCHANGED <<held, bought>> /\ (phase' \in Live => phase \in Live)
  BY <1>1 DEF WalletInv, Different, Tracked, Squad
<1>2. CASE Open
  <2>1. PICK h \in Fifteen : /\ held' = h
                             /\ bought' = [p \in Player |-> IF p \in Squad(h) THEN Buy(p) ELSE 0]
    BY <1>2 DEF Open
  <2>2. Different(held)'
    BY <2>1 DEF Fifteen, Different
  <2>3. Squad(held)' = Squad(h)
    BY <2>1 DEF Squad
  <2>4. Tracked'
    BY <2>1, <2>3, PriceIsPositive DEF Tracked
  <2>. QED
    BY <2>2, <2>4 DEF WalletInv
<1>3. CASE PlayWildcard \/ Unify
  <2>1. PICK next \in Rebuilt : Trade(next)
    BY <1>3 DEF PlayWildcard, Unify
  <2>2. next \in Lineup /\ Different(next)
    BY DEF Rebuilt, Fifteen
  <2>3. phase \in Live
    BY <1>3 DEF PlayWildcard, Unify, Live, Trading
  <2>4. Tracked'
    BY <2>1, <2>2, <2>3, TradeTracks DEF WalletInv
  <2>5. Different(held)'
    BY <2>1, <2>2, TradeFacts DEF Different
  <2>. QED
    BY <2>4, <2>5 DEF WalletInv
<1>4. CASE FundedPair
  <2>1. PICK next \in Lineup :
          Trade(next) /\ phase' = IF Different(next) THEN "single" ELSE "doubled"
    BY <1>4 DEF FundedPair
  <2>2. phase \in Live
    BY <1>4 DEF FundedPair, Live, Trading
  <2>3. Tracked'
    BY <2>1, <2>2, TradeTracks DEF WalletInv
  <2>4. phase' \in Live => Different(held)'
    BY <2>1, TradeFacts DEF Different, Live, Trading
  <2>. QED
    BY <2>3, <2>4 DEF WalletInv
<1>5. CASE Swap
  <2>1. PICK next \in Lineup :
          Arrivals(next) /\ Cardinality(Changed(next)) = 1 /\ Trade(next)
    BY <1>5 DEF Swap
  <2>2. phase \in Live
    BY <1>5 DEF Swap, Live, Trading
  <2>3. Tracked'
    BY <2>1, <2>2, TradeTracks DEF WalletInv
  <2>4. Different(next)
    BY <2>1, <2>2, SwapDiffers DEF WalletInv
  <2>5. Different(held)'
    BY <2>1, <2>4, TradeFacts DEF Different
  <2>. QED
    BY <2>3, <2>5 DEF WalletInv
<1>6. CASE Refuse \/ Fail \/ ConsultWildcard \/ ConsultFreeHit \/ SitOut \/ Bank \/ Decide
  BY <1>1, <1>6 DEF Refuse, Fail, ConsultWildcard, ConsultFreeHit, SitOut, Bank, Decide,
                    OrdinaryWeek, wallet, Live, Trading
<1>7. CASE NoPair \/ Rest \/ Field \/ ConsultBoost \/ Score \/ Finish \/ UNCHANGED vars
  BY <1>1, <1>7 DEF NoPair, Rest, Field, ConsultBoost, Score, Finish, vars, wallet, Live, Trading
<1>. QED
  BY <1>2, <1>3, <1>4, <1>5, <1>6, <1>7 DEF Next, Ended

LEMMA WalletInvariant == Spec => [](TypeOK /\ WalletInv)
<1>1. Init => WalletInv
  BY DEF Init, WalletInv, Live, Trading
<1>2. TypeOK /\ WalletInv /\ [Next]_vars => WalletInv'
  BY NextWallet
<1>. QED
  BY <1>1, <1>2, TypeCorrect, PTL DEF Spec

(* Through swaps, funded pairs, rebuilds and wildcards, the wallet knows   *)
(* what was paid for exactly the players held.                             *)
THEOREM WalletIsExact == Spec => []WalletTracksTheSquad
<1>1. TypeOK /\ WalletInv => WalletTracksTheSquad
  <2>. SUFFICES ASSUME TypeOK, WalletInv, phase \in Live
                PROVE  {p \in Player : bought[p] # 0} = Squad(held)
    BY DEF WalletTracksTheSquad, Live
  <2>1. Squad(held) \subseteq Player
    BY DEF Squad, TypeOK
  <2>. QED
    BY <2>1 DEF WalletInv, Tracked
<1>. QED
  BY <1>1, WalletInvariant, PTL

-----------------------------------------------------------------------------
(* Money.  Worth is a sum over the slots; what one trade does to it is     *)
(* what it does in the slots it changes.  There the sale settles at what   *)
(* the wallet would raise, or loses the difference by a stale quote: who   *)
(* is held cost what he cost as the week began, or what he costs now, and  *)
(* nobody raises more than that.                                           *)

AsQuoted ==
  \A p \in Squad(held) :
    bought[p] = Buy(p) \/ (p \in Squad(before.held) /\ bought[p] = before.bought[p])

Unmoved ==
  held = before.held /\ bank = before.bank /\ bought = before.bought /\ short = before.short

LEMMA SquadIsHeld ==
  ASSUME TypeOK
  PROVE  \A s \in Slot : held[s] \in Player /\ held[s] \in Squad(held)
BY DEF TypeOK, Squad

LEMMA SaleIsWorth ==
  ASSUME TypeOK, AsQuoted, NEW p \in Squad(held)
  PROVE  /\ Sale(p) \in Nat /\ Stale(p) \in Nat /\ Quoted(p) = Sale(p)
         /\ Sale(p) + Stale(p) = Raises(bought[p], Buy(p))
<1>1. p \in Player
  BY SquadIsHeld DEF Squad
<1>2. /\ Buy(p) \in Nat \ {0} /\ bought[p] \in Nat /\ before.bought[p] \in Nat
  BY <1>1, PriceIsPositive DEF TypeOK
<1>3. Raises(Buy(p), Buy(p)) = Buy(p)
  BY <1>2 DEF Raises, SellPrice
<1>4. /\ Raises(bought[p], Buy(p)) \in Nat
      /\ WeekQuote(p) \in Nat /\ WeekQuote(p) <= Buy(p)
  BY <1>2, RaisesType DEF WeekQuote
<1>5. CASE p \in Squad(before.held)
  <2>1. Sale(p) = WeekQuote(p) /\ Quoted(p) = WeekQuote(p)
        /\ Stale(p) = Raises(bought[p], Buy(p)) - WeekQuote(p)
    BY <1>5 DEF Sale, Quoted, Stale
  <2>2. Raises(bought[p], Buy(p)) >= WeekQuote(p)
    BY <1>2, <1>3, <1>4 DEF AsQuoted, WeekQuote
  <2>. QED
    BY <1>4, <2>1, <2>2
<1>6. CASE p \notin Squad(before.held)
  <2>1. bought[p] = Buy(p)
    BY <1>6 DEF AsQuoted
  <2>. QED
    BY <1>2, <1>3, <1>6, <2>1 DEF Sale, Quoted, Stale
<1>. QED
  BY <1>5, <1>6

(* The week's first trade sells at quotes that are still fresh.            *)
LEMMA FirstLosesNothing ==
  ASSUME TypeOK, Unmoved, NEW next
  PROVE  Lost(next) = 0
<1>. DEFINE l == [s \in Slot |-> Stale(held[s])]
<1>1. ASSUME NEW s \in Changed(next) PROVE l[s] = 0
  <2>1. s \in Slot /\ held[s] \in Player
    BY DEF Changed, TypeOK
  <2>2. bought[held[s]] \in Nat /\ Buy(held[s]) \in Nat
    BY <2>1, PriceIsPositive DEF TypeOK
  <2>3. Raises(bought[held[s]], Buy(held[s])) \in Nat
    BY <2>2, RaisesType
  <2>4. Stale(held[s]) = 0
    BY <2>3 DEF Stale, WeekQuote, Unmoved
  <2>. QED
    BY <2>1, <2>4
<1>2. Lost(next) = SumFunctionOnSet(l, Changed(next))
  BY DEF Lost
<1>. HIDE DEF l
<1>. QED
  BY <1>1, <1>2, ChangedIsFinite, SumNothing

(* Who stays was not sold in another slot, and who arrives was not held.   *)
LEMMA PaidAfter ==
  ASSUME TypeOK, Different(held), NEW next \in Lineup, NEW s \in Slot
  PROVE  /\ next[s] # held[s] => BoughtAfter(next)[next[s]] = Buy(next[s])
         /\ next[s] = held[s] /\ New(next) \cap Squad(held) = {}
              => BoughtAfter(next)[next[s]] = bought[held[s]]
<1>0. next[s] \in Player
  BY LineupType
<1>1. ASSUME next[s] # held[s] PROVE BoughtAfter(next)[next[s]] = Buy(next[s])
  <2>1. next[s] \in New(next)
    BY <1>1 DEF New, Changed
  <2>. QED
    BY <1>0, <2>1 DEF BoughtAfter
<1>2. ASSUME next[s] = held[s], New(next) \cap Squad(held) = {}
      PROVE  BoughtAfter(next)[next[s]] = bought[held[s]]
  <2>1. next[s] \notin New(next)
    BY <1>2 DEF Squad
  <2>2. next[s] \notin Gone(next)
    BY <1>2 DEF Gone, Changed, Different
  <2>. QED
    BY <1>0, <1>2, <2>1, <2>2 DEF BoughtAfter
<1>. QED
  BY <1>1, <1>2

(* What the settled legs bring in, sales less purchases.                   *)
Takings(next) == SumFunctionOnSet([s \in Slot |-> Sale(held[s]) - Buy(next[s])], Changed(next))

LEMMA TradeKeepsWorth ==
  ASSUME TypeOK, Different(held), AsQuoted, bank \in Int,
         NEW next \in Lineup, New(next) \cap Squad(held) = {}
  PROVE  /\ Takings(next) \in Int /\ Lost(next) \in Nat /\ Worth(held, bank, bought) \in Int
         /\ Worth(next, bank + Takings(next), BoughtAfter(next))
              = Worth(held, bank, bought) - Lost(next)
<1>. DEFINE f == [s \in Slot |-> Raises(bought[held[s]], Buy(held[s]))]
            g == [s \in Slot |-> Raises(BoughtAfter(next)[next[s]], Buy(next[s]))]
            e == [s \in Slot |-> Sale(held[s]) - Buy(next[s])]
            l == [s \in Slot |-> Stale(held[s])]
            d == [s \in Slot |-> (Sale(held[s]) - Buy(next[s])) + Stale(held[s])]
            T == Changed(next)
<1>1. T \in SUBSET Slot /\ IsFiniteSet(Slot) /\ IsFiniteSet(T)
  BY SeasonConstants, ChangedIsFinite DEF Changed
<1>2. ASSUME NEW s \in Slot
      PROVE  /\ f[s] = Raises(bought[held[s]], Buy(held[s])) /\ f[s] \in Int
             /\ g[s] = Raises(BoughtAfter(next)[next[s]], Buy(next[s])) /\ g[s] \in Int
             /\ e[s] = Sale(held[s]) - Buy(next[s]) /\ l[s] = Stale(held[s])
             /\ d[s] = (Sale(held[s]) - Buy(next[s])) + Stale(held[s])
  <2>1. held[s] \in Player /\ next[s] \in Player
    BY SquadIsHeld, LineupType
  <2>2. Buy(held[s]) \in Nat /\ Buy(next[s]) \in Nat /\ bought[held[s]] \in Nat
    BY <2>1, PriceIsPositive DEF TypeOK
  <2>3. BoughtAfter(next)[next[s]] \in Nat
    BY <2>1, <2>2, PriceIsPositive DEF BoughtAfter, TypeOK
  <2>4. Raises(bought[held[s]], Buy(held[s])) \in Nat
        /\ Raises(BoughtAfter(next)[next[s]], Buy(next[s])) \in Nat
    BY <2>2, <2>3, RaisesType
  <2>. QED
    BY <2>4
<1>3. ASSUME NEW s \in T
      PROVE  d[s] = f[s] - g[s] /\ e[s] \in Int /\ l[s] \in Nat /\ d[s] = e[s] + l[s]
  <2>1. s \in Slot /\ next[s] # held[s] /\ held[s] \in Squad(held)
    BY SquadIsHeld DEF Changed
  <2>2. next[s] \in Player
    BY <2>1, LineupType
  <2>3. BoughtAfter(next)[next[s]] = Buy(next[s]) /\ Buy(next[s]) \in Nat \ {0}
    BY <2>1, <2>2, PaidAfter, PriceIsPositive
  <2>4. Raises(BoughtAfter(next)[next[s]], Buy(next[s])) = Buy(next[s])
    BY <2>3 DEF Raises, SellPrice
  <2>5. /\ Sale(held[s]) \in Nat /\ Stale(held[s]) \in Nat
        /\ Sale(held[s]) + Stale(held[s]) = Raises(bought[held[s]], Buy(held[s]))
    BY <2>1, SaleIsWorth
  <2>. QED
    BY <1>2, <2>1, <2>3, <2>4, <2>5
<1>4. ASSUME NEW s \in Slot \ T PROVE f[s] = g[s]
  <2>1. next[s] = held[s]
    BY DEF Changed
  <2>. QED
    BY <1>2, <2>1, PaidAfter
<1>. HIDE DEF f, g, e, l, d, T
<1>5. SumFunctionOnSet(f, Slot) = SumFunctionOnSet(g, Slot) + SumFunctionOnSet(d, T)
  <2>1. \A s \in Slot : f[s] \in Int /\ g[s] \in Int
    BY <1>2
  <2>2. \A s \in T : d[s] = f[s] - g[s]
    BY <1>3
  <2>. QED
    BY <1>1, <1>4, <2>1, <2>2, SumChanges
<1>6. SumFunctionOnSet(d, T) = SumFunctionOnSet(e, T) + SumFunctionOnSet(l, T)
  BY <1>1, <1>3, SumAdds
<1>7. /\ SumFunctionOnSet(f, Slot) \in Int /\ SumFunctionOnSet(g, Slot) \in Int
      /\ SumFunctionOnSet(e, T) \in Int /\ SumFunctionOnSet(l, T) \in Nat
  BY <1>1, <1>2, <1>3, SumType, SumPositive
<1>8. Takings(next) = SumFunctionOnSet(e, T) /\ Lost(next) = SumFunctionOnSet(l, T)
  BY DEF Takings, Lost, e, l, T
<1>9. /\ Worth(held, bank, bought) = bank + SumFunctionOnSet(f, Slot)
      /\ Worth(next, bank + Takings(next), BoughtAfter(next))
           = bank + Takings(next) + SumFunctionOnSet(g, Slot)
  BY DEF Worth, f, g
<1>. QED
  BY <1>5, <1>6, <1>7, <1>8, <1>9

(* A squad raises no more than it would cost at market.                    *)
LEMMA WorthIsAtMostCost ==
  ASSUME TypeOK, NEW h \in [Slot -> Player], NEW paid \in [Player -> Nat], NEW money \in Int
  PROVE  Cost(h) \in Int /\ Worth(h, money, paid) \in Int
         /\ Worth(h, money, paid) <= money + Cost(h)
<1>. DEFINE f == [s \in Slot |-> Raises(paid[h[s]], Buy(h[s]))]
            g == [s \in Slot |-> Buy(h[s])]
<1>1. ASSUME NEW s \in Slot PROVE f[s] \in Int /\ g[s] \in Int /\ f[s] <= g[s]
  <2>1. paid[h[s]] \in Nat /\ Buy(h[s]) \in Nat
    BY PriceIsPositive
  <2>2. Raises(paid[h[s]], Buy(h[s])) \in Nat /\ Raises(paid[h[s]], Buy(h[s])) <= Buy(h[s])
    BY <2>1, RaisesType
  <2>. QED
    BY <2>1, <2>2
<1>2. Cost(h) = SumFunctionOnSet(g, Slot) /\ Worth(h, money, paid) = money + SumFunctionOnSet(f, Slot)
  BY DEF Cost, Worth
<1>. HIDE DEF f, g
<1>3. IsFiniteSet(Slot)
  BY SeasonConstants
<1>4. /\ SumFunctionOnSet(f, Slot) \in Int /\ SumFunctionOnSet(g, Slot) \in Int
      /\ SumFunctionOnSet(f, Slot) <= SumFunctionOnSet(g, Slot)
  BY <1>1, <1>3, SumType, SumMonotone
<1>. QED
  BY <1>2, <1>4

(* The money a trade leaves, by the two tests the code makes beforehand.   *)
LEMMA RebuildIsPaid ==
  ASSUME TypeOK, Different(held), AsQuoted, Unmoved, bank \in Nat, NEW next \in Rebuilt,
         Cost(next) <= Worth(held, bank, bought)
  PROVE  bank + Takings(next) \in Nat
<1>1. next \in Lineup /\ New(next) \cap Squad(held) = {} /\ next \in [Slot -> Player]
  BY LineupType DEF Rebuilt, Fifteen
<1>2. Takings(next) \in Int
      /\ Worth(next, bank + Takings(next), BoughtAfter(next)) = Worth(held, bank, bought)
  BY <1>1, TradeKeepsWorth, FirstLosesNothing
<1>3. BoughtAfter(next) \in [Player -> Nat]
  BY PriceIsPositive DEF BoughtAfter, TypeOK
<1>4. bank + Takings(next) \in Int
  BY <1>2
<1>5. Worth(next, bank + Takings(next), BoughtAfter(next)) <= bank + Takings(next) + Cost(next)
      /\ Cost(next) \in Int /\ Worth(next, bank + Takings(next), BoughtAfter(next)) \in Int
  BY <1>1, <1>3, <1>4, WorthIsAtMostCost
<1>. QED
  BY <1>2, <1>4, <1>5

LEMMA SwapsArePaid ==
  ASSUME TypeOK, AsQuoted, bank \in Nat, NEW next \in Lineup,
         Freed(next, Changed(next)) + bank >= 0
  PROVE  bank + Takings(next) \in Nat
<1>. DEFINE q == [s \in Slot |-> Quoted(held[s]) - Buy(next[s])]
            d == [s \in Slot |-> Sale(held[s]) - Buy(next[s])]
<1>1. ASSUME NEW s \in Changed(next) PROVE q[s] \in Int /\ q[s] = d[s]
  <2>1. s \in Slot /\ held[s] \in Player /\ held[s] \in Squad(held) /\ next[s] \in Player
    BY SquadIsHeld, LineupType DEF Changed
  <2>2. Buy(held[s]) \in Nat /\ Buy(next[s]) \in Nat /\ bought[held[s]] \in Nat
    BY <2>1, PriceIsPositive DEF TypeOK
  <2>3. Quoted(held[s]) = Sale(held[s]) /\ Quoted(held[s]) \in Nat
    BY <2>1, SaleIsWorth
  <2>. QED
    BY <2>1, <2>2, <2>3
<1>2. Freed(next, Changed(next)) = SumFunctionOnSet(q, Changed(next))
      /\ Takings(next) = SumFunctionOnSet(d, Changed(next))
  BY DEF Freed, Takings
<1>. HIDE DEF q, d
<1>3. SumFunctionOnSet(q, Changed(next)) = SumFunctionOnSet(d, Changed(next))
      /\ SumFunctionOnSet(q, Changed(next)) \in Int
  BY <1>1, ChangedIsFinite, SumSame, SumType
<1>. QED
  BY <1>2, <1>3

LEMMA StaysQuoted ==
  ASSUME TypeOK, Different(held), AsQuoted, NEW next \in Lineup,
         New(next) \cap Squad(held) = {}, UNCHANGED <<before, gw, price>>, Trade(next)
  PROVE  AsQuoted'
<1>1. held' = next /\ bought' = BoughtAfter(next)
  BY TradeFacts
<1>2. Squad(held)' = Squad(next) /\ Squad(before.held)' = Squad(before.held) /\ before' = before
      /\ \A p : Buy(p)' = Buy(p)
  BY <1>1 DEF Squad, Buy, MarketPrice
<1>. SUFFICES ASSUME NEW s \in Slot
              PROVE  \/ BoughtAfter(next)[next[s]] = Buy(next[s])
                     \/ /\ next[s] \in Squad(before.held)
                        /\ BoughtAfter(next)[next[s]] = before.bought[next[s]]
  BY <1>1, <1>2 DEF AsQuoted, Squad
<1>3. CASE next[s] = held[s]
  BY <1>3, PaidAfter, SquadIsHeld DEF AsQuoted
<1>4. CASE next[s] # held[s]
  BY <1>4, PaidAfter
<1>. QED
  BY <1>3, <1>4

SameWorth ==
  /\ Worth(held, bank, bought) + short
       = Worth(before.held, before.bank, before.bought) + before.short
  /\ short >= before.short

MoneyInv ==
  /\ bank \in Nat /\ short \in Nat
  /\ phase = "entry" => short = 0
  /\ phase \in Live => AsQuoted /\ SameWorth
  /\ phase \in {"triggers", "freehit", "decide", "unified", "pair"} => Unmoved

(* A week's trade, whichever test let it through.                          *)
LEMMA TradeKeepsMoney ==
  ASSUME TypeOK, WalletInv, MoneyInv, phase \in Live, NEW next \in Lineup,
         New(next) \cap Squad(held) = {},
         bank + Takings(next) \in Nat, Trade(next), UNCHANGED <<before, gw, price>>,
         phase' \notin {"entry", "triggers", "freehit", "decide", "unified", "pair"}
  PROVE  MoneyInv'
<1>1. /\ held' = next /\ bought' = BoughtAfter(next) /\ bank' = bank + Takings(next)
      /\ short' = short + Lost(next)
  BY DEF Trade, Takings, Lost
<1>2. AsQuoted'
  BY StaysQuoted DEF WalletInv, MoneyInv
<1>3. /\ Lost(next) \in Nat /\ Worth(held, bank, bought) \in Int
      /\ Worth(next, bank + Takings(next), BoughtAfter(next))
           = Worth(held, bank, bought) - Lost(next)
  <2>1. bank \in Int
    BY DEF MoneyInv
  <2>. QED
    BY <2>1, TradeKeepsWorth DEF WalletInv, MoneyInv
<1>4. /\ Worth(held, bank, bought)' = Worth(next, bank + Takings(next), BoughtAfter(next))
      /\ Worth(before.held, before.bank, before.bought)'
           = Worth(before.held, before.bank, before.bought)
      /\ (before.short)' = before.short /\ before.short \in Int
  BY <1>1 DEF Worth, Buy, MarketPrice, TypeOK
<1>5. SameWorth' /\ short' \in Nat
  <2>1. /\ Worth(next, bank + Takings(next), BoughtAfter(next)) + (short + Lost(next))
             = Worth(held, bank, bought) + short
        /\ short + Lost(next) >= short /\ short + Lost(next) \in Nat /\ short \in Nat
    BY <1>3 DEF MoneyInv
  <2>2. SameWorth
    BY DEF MoneyInv
  <2>3. short + Lost(next) >= before.short
    BY <1>3, <1>4, <2>1, <2>2 DEF SameWorth
  <2>. QED
    BY <1>1, <1>4, <2>1, <2>2, <2>3 DEF SameWorth
<1>. QED
  BY <1>1, <1>2, <1>5 DEF MoneyInv

LEMMA NextMoney ==
  ASSUME TypeOK, WalletInv, MoneyInv, [Next]_vars
  PROVE  MoneyInv'
<1>1. ASSUME UNCHANGED <<held, bank, bought, short, before, gw, price>>,
             phase' # "entry" \/ phase = "entry", phase' \in Live => phase \in Live,
             phase' \in {"triggers", "freehit", "decide", "unified", "pair"}
               => phase \in {"triggers", "freehit", "decide", "unified", "pair"}
      PROVE  MoneyInv'
  <2>1. (AsQuoted /\ SameWorth => AsQuoted' /\ SameWorth') /\ (Unmoved => Unmoved')
    BY <1>1 DEF AsQuoted, SameWorth, Unmoved, Squad, Worth, Buy, MarketPrice
  <2>. QED
    BY <1>1, <2>1 DEF MoneyInv
<1>2. CASE Open
  <2>1. PICK h \in Fifteen :
          /\ Cost(h) <= Budget /\ held' = h /\ bank' = Budget - Cost(h)
          /\ bought' = [p \in Player |-> IF p \in Squad(h) THEN Buy(p) ELSE 0]
    BY <1>2 DEF Open
  <2>2. phase' = "field" /\ UNCHANGED <<gw, price>>
        /\ short' = short
        /\ before' = [held |-> held', bank |-> bank', bought |-> bought', short |-> short',
                      free |-> free']
    BY <1>2 DEF Open, Snapshot, static
  <2>3. h \in [Slot -> Player] /\ (\A p \in Player : (bought')[p] = IF p \in Squad(h) THEN Buy(p) ELSE 0)
    BY <2>1, LineupType DEF Fifteen
  <2>4. Cost(h) \in Int
    BY <2>3, WorthIsAtMostCost, PriceIsPositive DEF TypeOK
  <2>5. bank' \in Nat
    BY <2>1, <2>4, SeasonConstants
  <2>6. AsQuoted' /\ SameWorth' /\ short' \in Nat
    <3>1. short' \in Nat
      BY <2>2 DEF MoneyInv
    <3>. QED
      BY <2>2, <3>1 DEF AsQuoted, SameWorth
  <2>. QED
    BY <2>2, <2>5, <2>6 DEF MoneyInv
<1>3. CASE PlayWildcard \/ Unify
  <2>1. PICK next \in Rebuilt : Cost(next) <= Worth(held, bank, bought) /\ Trade(next)
    BY <1>3 DEF PlayWildcard, Unify
  <2>2. /\ phase \in Live /\ Unmoved /\ UNCHANGED <<before, gw, price>>
        /\ phase' \notin {"entry", "triggers", "freehit", "decide", "unified", "pair"}
    BY <1>3 DEF PlayWildcard, Unify, Live, Trading, MoneyInv, static
  <2>3. next \in Lineup /\ New(next) \cap Squad(held) = {}
    BY DEF Rebuilt, Fifteen
  <2>4. bank + Takings(next) \in Nat
    BY <2>1, <2>2, RebuildIsPaid DEF WalletInv, MoneyInv
  <2>. QED
    BY <2>1, <2>2, <2>3, <2>4, TradeKeepsMoney
<1>4. CASE FundedPair \/ Swap
  <2>1. PICK next \in Lineup :
          Arrivals(next) /\ Freed(next, Changed(next)) + bank >= 0 /\ Trade(next)
    BY <1>4 DEF FundedPair, Swap
  <2>2. /\ phase \in Live /\ UNCHANGED <<before, gw, price>>
        /\ phase' \notin {"entry", "triggers", "freehit", "decide", "unified", "pair"}
    BY <1>4 DEF FundedPair, Swap, Live, Trading, static
  <2>3. New(next) \cap Squad(held) = {}
    BY <2>1 DEF Arrivals
  <2>4. bank + Takings(next) \in Nat
    BY <2>1, <2>2, SwapsArePaid DEF MoneyInv
  <2>. QED
    BY <2>1, <2>2, <2>3, <2>4, TradeKeepsMoney
<1>5. CASE Decide
  <2>1. /\ UNCHANGED <<held, bank, bought, short, before, gw, price>>
        /\ phase = "decide" /\ phase' # "entry" /\ phase \in Live
    BY <1>5 DEF Decide, OrdinaryWeek, wallet, static, Live
  <2>. QED
    BY <1>1, <2>1
<1>6. CASE Refuse \/ Fail \/ ConsultWildcard \/ ConsultFreeHit \/ SitOut \/ Bank
  BY <1>1, <1>6 DEF Refuse, Fail, ConsultWildcard, ConsultFreeHit, SitOut, Bank,
                    OrdinaryWeek, wallet, static, Live, Trading
<1>7. CASE NoPair \/ Rest \/ Field \/ ConsultBoost \/ Score \/ UNCHANGED vars
  BY <1>1, <1>7 DEF NoPair, Rest, Field, ConsultBoost, Score, vars, wallet, static, Live, Trading
<1>8. CASE Finish
  <2>1. CASE gw = LastGW
    BY <1>1, <1>8, <2>1 DEF Finish, wallet, static, Live, Trading
  <2>2. CASE gw # LastGW
    <3>1. /\ UNCHANGED <<held, bank, bought, short>> /\ phase' # "entry"
          /\ before' = [held |-> held, bank |-> bank, bought |-> bought, short |-> short,
                        free |-> free]
      BY <1>8, <2>2 DEF Finish, wallet
    <3>2. AsQuoted' /\ SameWorth' /\ Unmoved' /\ short' \in Nat
      BY <3>1 DEF AsQuoted, SameWorth, Unmoved, MoneyInv
    <3>. QED
      BY <3>1, <3>2 DEF MoneyInv
  <2>. QED
    BY <2>1, <2>2
<1>. QED
  BY <1>2, <1>3, <1>4, <1>5, <1>6, <1>7, <1>8 DEF Next, Ended

(* The bank pays for every change, whichever test of the code let it       *)
(* through, and no week's trading raises money: the squad's selling value  *)
(* and the bank together are what they were, less what the replay lost on  *)
(* players it bought back and sold again at the quote they had before.     *)
THEOREM MoneyAddsUp == Spec => []MoneyIsRight
<1>1. Init => MoneyInv
  BY SeasonConstants DEF Init, MoneyInv, Live, Trading
<1>2. TypeOK /\ WalletInv /\ MoneyInv /\ [Next]_vars => MoneyInv'
  BY NextMoney
<1>3. MoneyInv => MoneyIsRight
  BY DEF MoneyInv, MoneyIsRight, NeverOverdrawn, TradingMakesNoMoney, SameWorth, Live
<1>. QED
  BY <1>1, <1>2, <1>3, WalletInvariant, PTL DEF Spec

-----------------------------------------------------------------------------
(* A free hit.  While it may still be played this week, nothing has been   *)
(* done to the squad, and once it is due, nothing will be.                 *)

AsItBegan ==
  held = before.held /\ bank = before.bank /\ bought = before.bought /\ made = 0

BackInv ==
  Plays("freehit", gw) \/ phase \in {"entry", "triggers", "freehit", "decide"} => AsItBegan

LEMMA NextBack ==
  ASSUME TypeOK, ChipInv, HitInv, BackInv, [Next]_vars
  PROVE  BackInv'
<1>1. ASSUME UNCHANGED <<held, bank, bought, made, before>>, AsItBegan
      PROVE  BackInv'
  BY <1>1 DEF BackInv, AsItBegan
<1>2. ASSUME UNCHANGED <<plan, gw, fired>>, ~Plays("freehit", gw),
             phase' \notin {"entry", "triggers", "freehit", "decide"}
      PROVE  BackInv'
  BY <1>2 DEF BackInv, Plays, PlannedFor
<1>3. ASSUME UNCHANGED <<plan, gw, held, bank, bought, made, before>>,
             fired'["freehit"] = fired["freehit"],
             phase' \notin {"entry", "triggers", "freehit", "decide"}
      PROVE  BackInv'
  BY <1>3 DEF BackInv, AsItBegan, Plays, PlannedFor
<1>4. CASE Refuse
  BY <1>1, <1>4 DEF Refuse, BackInv, wallet
<1>5. CASE Open
  <2>1. made' = 0
    BY <1>5 DEF Open, HitInv, Untouched
  <2>. QED
    BY <1>5, <2>1 DEF Open, Snapshot, BackInv, AsItBegan
<1>6. CASE ConsultWildcard \/ ConsultFreeHit \/ SitOut
  BY <1>1, <1>6 DEF ConsultWildcard, ConsultFreeHit, SitOut, BackInv, wallet
<1>7. CASE PlayWildcard
  <2>1. ~Plays("freehit", gw)
    BY <1>7, ChipNames, WeekTypes DEF PlayWildcard, ChipInv, OneAWeek
  <2>. QED
    BY <1>2, <1>7, <2>1 DEF PlayWildcard
<1>8. CASE Bank \/ Decide
  BY <1>2, <1>8 DEF Bank, Decide, OrdinaryWeek
<1>9. CASE Unify \/ FundedPair \/ NoPair \/ Swap \/ Rest
  <2>1. /\ phase \in {"unified", "pair", "single"}
        /\ phase' \notin {"entry", "triggers", "freehit", "decide"}
        /\ UNCHANGED <<plan, gw, fired>>
    BY <1>9 DEF Unify, FundedPair, NoPair, Swap, Rest
  <2>. QED
    BY <1>2, <2>1 DEF HitInv, ChipWeek
<1>10. CASE Field \/ ConsultBoost \/ Score \/ Fail
  <2>1. fired'["freehit"] = fired["freehit"]
    BY <1>10, ChipNames DEF Field, ConsultBoost, Score, Fail, Consult, TypeOK
  <2>. QED
    BY <1>3, <1>10, <2>1 DEF Field, ConsultBoost, Score, Fail, wallet
<1>11. CASE Finish
  BY <1>3, <1>11 DEF Finish, BackInv, AsItBegan, wallet
<1>12. CASE UNCHANGED vars
  BY <1>12 DEF vars, BackInv, AsItBegan, Plays, PlannedFor
<1>. QED
  BY <1>4, <1>5, <1>6, <1>7, <1>8, <1>9, <1>10, <1>11, <1>12 DEF Next, Ended

(* A free hit hands back the squad, the money and what was paid for every  *)
(* player as they were before its week.                                    *)
THEOREM SquadComesBack == Spec => []FreeHitHandsBack
<1>1. Init => BackInv
  BY DEF Init, BackInv, AsItBegan
<1>2. TypeOK /\ ChipInv /\ HitInv /\ BackInv /\ [Next]_vars => BackInv'
  BY NextBack
<1>3. TypeOK /\ ChipInv /\ BackInv => FreeHitHandsBack
  BY ChipNames, WeekTypes DEF ChipInv, PlayedIsDue, BackInv, AsItBegan, FreeHitHandsBack
<1>. QED
  BY <1>1, <1>2, <1>3, ChipsInvariant, HitsInvariant, PTL DEF Spec

-----------------------------------------------------------------------------
(* No chip is lost: when a week's play of a kind of chip is over, the      *)
(* chips of that kind due by then have been played.                        *)

Settled(k) ==
  \/ phase \in {"record", "done"}
  \/ k = "freehit" /\ phase \in {"boost", "score"}
  \/ k = "wildcard" /\ phase \in {"field", "boost", "score"}

NoneLost ==
  \A k \in Chip, w \in Week :
    /\ Plays(k, w) /\ w >= start /\ (k = "wildcard" => w > start)
    /\ w < gw \/ (w = gw /\ Settled(k))
    => <<k, w>> \in played

DropInv ==
  /\ phase \in Live => NoneLost
  /\ phase = "done" => gw = LastGW
  /\ fired["captain"] = {}

(* A step that plays what its phase settles loses nothing.                 *)
LEMMA SettledStep ==
  ASSUME TypeOK, NoneLost, UNCHANGED <<start, gw, plan>>, played \subseteq played',
         \A k \in Chip : fired'[k] \subseteq fired[k] \cup {gw},
         \A k \in Chip : Settled(k)' =>
            \/ Settled(k) /\ fired'[k] = fired[k]
            \/ Plays(k, gw)' /\ (k = "wildcard" => gw > start) => <<k, gw>> \in played'
  PROVE  NoneLost'
<1>. SUFFICES ASSUME NEW k \in Chip, NEW w \in Week, Plays(k, w)', w >= start,
                     k = "wildcard" => w > start,
                     w < gw \/ (w = gw /\ Settled(k)')
              PROVE  <<k, w>> \in played'
  BY DEF NoneLost
<1>t. gw \in Nat /\ w \in Nat
  BY WeekTypes DEF Week
<1>1. CASE w < gw
  <2>1. Plays(k, w)
    BY <1>t, <1>1 DEF Plays, PlannedFor
  <2>. QED
    BY <1>1, <2>1 DEF NoneLost
<1>2. CASE w = gw /\ Settled(k)'
  <2>1. CASE Settled(k) /\ fired'[k] = fired[k]
    <3>1. Plays(k, w)
      BY <2>1 DEF Plays, PlannedFor
    <3>. QED
      BY <1>2, <2>1, <3>1 DEF NoneLost
  <2>. QED
    BY <1>2, <2>1
<1>. QED
  BY <1>1, <1>2

LEMMA NextDrop ==
  ASSUME TypeOK, ChipInv, HitInv, DropInv, [Next]_vars
  PROVE  DropInv'
<1>n. "captain" \in Chip /\ "boost" \in Chip /\ "freehit" \in Chip /\ "wildcard" \in Chip
      /\ Chip = {"wildcard", "freehit", "boost", "captain"}
  BY DEF Chip
<1>t. gw \in Week /\ gw \in Nat /\ start \in Nat /\ start <= gw
      /\ fired \in [Chip -> SUBSET (start..LastGW)]
  BY WeekTypes DEF TypeOK
<1>p. \A k \in Chip : UNCHANGED <<plan, gw>> /\ fired'[k] = fired[k]
        => (Plays(k, gw)' <=> Plays(k, gw))
  BY DEF Plays, PlannedFor
<1>1. CASE Refuse \/ Fail
  BY <1>1 DEF Refuse, Fail, DropInv, Live, Trading
<1>2. CASE Open
  <2>1. gw' = start' /\ phase' = "field" /\ UNCHANGED <<gw, start, fired>>
    BY <1>2 DEF Open, HitInv, static
  <2>2. NoneLost'
    BY <1>t, <2>1 DEF NoneLost, Settled, Week
  <2>. QED
    BY <2>1, <2>2 DEF DropInv
<1>3. CASE ConsultWildcard \/ ConsultFreeHit \/ ConsultBoost
  <2>1. /\ UNCHANGED <<start, gw, plan, played>> /\ phase \in Live /\ phase' # "done"
        /\ \A k \in Chip : fired'[k] \subseteq fired[k] \cup {gw}
        /\ fired'["captain"] = fired["captain"]
    BY <1>3, <1>n, <1>t DEF ConsultWildcard, ConsultFreeHit, ConsultBoost, Consult, static,
                            Live, Trading
  <2>2. \A k \in Chip : Settled(k)' => Settled(k) /\ fired'[k] = fired[k]
    BY <1>3, <1>n, <1>t DEF ConsultWildcard, ConsultFreeHit, ConsultBoost, Consult, Settled
  <2>3. NoneLost'
    BY <2>1, <2>2, SettledStep DEF DropInv
  <2>. QED
    BY <2>1, <2>3 DEF DropInv
<1>4. CASE PlayWildcard \/ SitOut \/ Bank \/ Decide
  <2>1. /\ UNCHANGED <<start, gw, plan, fired>> /\ phase = "decide"
        /\ phase' \in {"field", "unified", "pair", "single"}
        /\ played \subseteq played'
        /\ Plays("wildcard", gw) => <<"wildcard", gw>> \in played'
    BY <1>4 DEF PlayWildcard, SitOut, Bank, Decide, OrdinaryWeek, static
  <2>2. \A k \in Chip : Settled(k)' => k = "wildcard"
    BY <2>1 DEF Settled
  <2>3. \A k \in Chip : Settled(k)' /\ Plays(k, gw)' => <<k, gw>> \in played'
    BY <1>p, <2>1, <2>2
  <2>4. NoneLost
    BY <2>1 DEF DropInv, Live
  <2>5. NoneLost'
    BY <2>1, <2>3, <2>4, SettledStep
  <2>. QED
    BY <2>1, <2>5 DEF DropInv
<1>5. CASE Unify \/ FundedPair \/ NoPair \/ Swap \/ Rest
  <2>1. /\ UNCHANGED <<start, gw, plan, fired, played>>
        /\ phase \in {"unified", "pair", "single"}
        /\ phase' \in {"field", "single", "doubled"}
    BY <1>5 DEF Unify, FundedPair, NoPair, Swap, Rest, static
  <2>2. ~Plays("wildcard", gw)'
    BY <1>n, <1>p, <2>1 DEF HitInv, ChipWeek
  <2>3. \A k \in Chip : Settled(k)' => ~Plays(k, gw)'
    BY <2>1, <2>2 DEF Settled
  <2>4. NoneLost
    BY <2>1 DEF DropInv, Live, Trading
  <2>5. NoneLost'
    BY <2>1, <2>3, <2>4, SettledStep
  <2>. QED
    BY <2>1, <2>5 DEF DropInv
<1>6. CASE Field
  <2>1. /\ UNCHANGED <<start, gw, plan, fired>> /\ phase = "field" /\ phase' = "boost"
        /\ played \subseteq played'
        /\ Plays("freehit", gw) => <<"freehit", gw>> \in played'
    BY <1>6 DEF Field, static
  <2>2. \A k \in Chip : Settled(k)' =>
          \/ Settled(k) /\ fired'[k] = fired[k]
          \/ Plays(k, gw)' => <<k, gw>> \in played'
    BY <1>p, <2>1 DEF Settled
  <2>3. NoneLost
    BY <2>1 DEF DropInv, Live, Trading
  <2>4. NoneLost'
    BY <2>1, <2>2, <2>3, SettledStep
  <2>. QED
    BY <2>1, <2>4 DEF DropInv
<1>7. CASE Score
  <2>1. /\ UNCHANGED <<start, gw, plan, fired>> /\ phase = "score" /\ phase' = "record"
        /\ played \subseteq played'
        /\ Plays("boost", gw) => <<"boost", gw>> \in played'
        /\ ~Plays("boost", gw) /\ PlannedFor("captain", gw) => <<"captain", gw>> \in played'
    BY <1>7 DEF Score, static
  <2>2. Plays("captain", gw) => ~Plays("boost", gw) /\ PlannedFor("captain", gw)
    BY <1>n, <1>t, <2>1 DEF ChipInv, OneAWeek, Plays, DropInv
  <2>3. \A k \in Chip : Settled(k)' =>
          \/ Settled(k) /\ fired'[k] = fired[k]
          \/ Plays(k, gw)' => <<k, gw>> \in played'
    BY <1>n, <1>p, <2>1, <2>2 DEF Settled
  <2>4. NoneLost
    BY <2>1 DEF DropInv, Live, Trading
  <2>5. NoneLost'
    BY <2>1, <2>3, <2>4, SettledStep
  <2>. QED
    BY <2>1, <2>5 DEF DropInv
<1>8. CASE Finish
  <2>1. /\ UNCHANGED <<start, plan, fired, played>> /\ phase = "record"
        /\ \/ phase' = "done" /\ gw' = gw /\ gw = LastGW
           \/ phase' = "triggers" /\ gw' = gw + 1
    BY <1>8 DEF Finish, static
  <2>2. \A k \in Chip, w \in Week : Plays(k, w)' <=> Plays(k, w)
    BY <2>1 DEF Plays, PlannedFor
  <2>3. NoneLost /\ \A k \in Chip : Settled(k)
    BY <2>1 DEF DropInv, Live, Trading, Settled
  <2>4. \A k \in Chip, w \in Week : w < gw' \/ (w = gw' /\ Settled(k)') => w < gw \/ w = gw
    BY <1>t, <2>1 DEF Settled, Week
  <2>5. NoneLost'
    BY <2>1, <2>2, <2>3, <2>4 DEF NoneLost
  <2>. QED
    BY <2>1, <2>5 DEF DropInv, static
<1>9. CASE UNCHANGED vars
  BY <1>9 DEF vars, DropInv, NoneLost, Settled, Plays, PlannedFor
<1>. QED
  BY <1>1, <1>2, <1>3, <1>4, <1>5, <1>6, <1>7, <1>8, <1>9 DEF Next, Ended

LEMMA DropInvariant == Spec => [](TypeOK /\ ChipInv /\ HitInv /\ DropInv)
<1>1. Init => DropInv
  BY ChipNames DEF Init, DropInv, Live, Trading
<1>2. TypeOK /\ ChipInv /\ HitInv /\ DropInv /\ [Next]_vars => DropInv'
  BY NextDrop
<1>. QED
  BY <1>1, <1>2, ChipsInvariant, HitsInvariant, PTL DEF Spec

(* Every chip planned for a week that is over was played in it, but a      *)
(* wildcard planned for the week of entry.                                 *)
THEOREM PlannedChipsArePlayed == Spec => []NoPlannedChipIsDropped
<1>1. ASSUME TypeOK, ChipInv, HitInv, DropInv
      PROVE  NoPlannedChipIsDropped
  <2>. SUFFICES ASSUME NEW k \in Chip, NEW w \in start..LastGW,
                       phase \notin {"entry", "refused", "failed", "doubled"},
                       PlannedFor(k, w), w < gw \/ phase = "done",
                       k = "wildcard" => w > start
                PROVE  <<k, w>> \in played
    BY DEF NoPlannedChipIsDropped
  <2>1. phase \in Live
    BY <1>1 DEF TypeOK, Phase, Live, Trading
  <2>2. w \in Week /\ w >= start /\ Plays(k, w)
    BY <1>1, WeekTypes DEF Week, Plays
  <2>3. w < gw \/ (w = gw /\ Settled(k))
    BY <1>1, WeekTypes DEF DropInv, Settled
  <2>. QED
    BY <1>1, <2>1, <2>2, <2>3 DEF DropInv, NoneLost
<1>. QED
  BY <1>1, DropInvariant, PTL

-----------------------------------------------------------------------------
(* The replay's allowance beside the one read off its history.  A chip     *)
(* that kept the history's free transfers was one the week's decision kept *)
(* them for, which is where the chips come in.                             *)

AgreeInv ==
  cfg.bankUpTo = MaxBanked /\ phase \in (Live \ {"done"}) \cup {"entry"} =>
    IF gw = start THEN ft = 1
    ELSE IF start > 1 THEN ft = Allowance ELSE ft <= Allowance /\ Allowance <= ft + 1

(* What a week leaves, of the replay's count and of the history's.         *)
LEMMA WeekLeaves ==
  ASSUME TypeOK, ChipInv, HitInv, DropInv, phase = "record", gw > 1
  PROVE  \/ free = Allowance /\ ReadOff = IF ft < MaxBanked THEN ft + 1 ELSE MaxBanked
         \/ /\ free = IF Allowance > made THEN Allowance - made ELSE 0
            /\ ReadOff = IF (IF ft < made THEN 0 ELSE ft - made) < MaxBanked
                         THEN (IF ft < made THEN 0 ELSE ft - made) + 1 ELSE MaxBanked
<1>t. gw \in Nat /\ gw \in Week /\ start \in Nat /\ start <= gw
      /\ ft \in Nat /\ made \in Nat /\ Allowance \in Nat /\ MaxBanked \in Nat
  BY WeekTypes, AllowanceType, SeasonConstants DEF TypeOK
<1>. DEFINE chip == <<"wildcard", gw>> \in played \/ <<"freehit", gw>> \in played
            kept == IF chip THEN ft ELSE IF ft < made THEN 0 ELSE ft - made
<1>r. ReadOff = IF kept < MaxBanked THEN kept + 1 ELSE MaxBanked
  <2>1. gw # 1
    BY <1>t
  <2>. QED
    BY <2>1, Zenon DEF ReadOff
<1>1. CASE chip
  <2>1. ChipWeek
    BY <1>t, <1>1, ChipNames DEF ChipInv, PlayedIsDue, ChipWeek
  <2>. QED
    BY <1>1, <1>r, <2>1 DEF HitInv
<1>2. CASE ~chip
  <2>1. ReadOff = IF (IF ft < made THEN 0 ELSE ft - made) < MaxBanked
                  THEN (IF ft < made THEN 0 ELSE ft - made) + 1 ELSE MaxBanked
    BY <1>2, <1>r
  <2>2. CASE ChipWeek
    <3>1. gw = start
      BY <1>2, <1>t, <2>2, ChipNames DEF DropInv, NoneLost, Settled, ChipWeek, Live, Trading
    <3>2. made = 0 /\ free = Allowance
      BY <2>2, <3>1 DEF HitInv
    <3>. QED
      BY <1>t, <2>1, <3>2
  <2>3. CASE ~ChipWeek
    BY <2>1, <2>3 DEF HitInv, Balanced
  <2>. QED
    BY <2>2, <2>3
<1>. QED
  BY <1>1, <1>2

LEMMA NextAgree ==
  ASSUME TypeOK, ChipInv, HitInv, DropInv, AgreeInv, [Next]_vars
  PROVE  AgreeInv'
<1>t. /\ gw \in Nat /\ start \in Nat /\ start <= gw /\ start >= 1
      /\ free \in Nat /\ before.free \in Nat /\ made \in Nat /\ ft \in Nat
      /\ Allowance \in Nat /\ Allowance <= cfg.bankUpTo /\ free <= cfg.bankUpTo
      /\ cfg.bankUpTo \in Nat \ {0} /\ MaxBanked \in Nat \ {0}
  <2>1. /\ gw \in Nat /\ start \in Nat /\ start <= gw /\ start >= 1
        /\ cfg.bankUpTo \in Nat \ {0} /\ MaxBanked \in Nat \ {0}
    BY WeekTypes, ConfigTypes, SeasonConstants DEF TypeOK, Week
  <2>2. /\ free \in 0..cfg.bankUpTo /\ before.free \in 0..cfg.bankUpTo
        /\ made \in Nat /\ ft \in 1..MaxBanked
    BY DEF TypeOK
  <2>. QED
    BY <2>1, <2>2, AllowanceType
<1>1. ASSUME UNCHANGED <<cfg, start, gw, ft, before>>, phase \in Live \cup {"entry"},
             phase' # "done" => phase # "done"
      PROVE  AgreeInv'
  BY <1>1 DEF AgreeInv, Allowance
<1>2. CASE Refuse \/ Fail
  BY <1>2 DEF Refuse, Fail, AgreeInv, Live, Trading
<1>3. CASE Open
  <2>1. gw' = start' /\ ft' = ft /\ gw = start /\ cfg' = cfg /\ phase = "entry"
    BY <1>3 DEF Open, HitInv, static
  <2>. QED
    BY <2>1 DEF AgreeInv
<1>4. CASE ConsultWildcard \/ ConsultFreeHit \/ ConsultBoost
  BY <1>1, <1>4 DEF ConsultWildcard, ConsultFreeHit, ConsultBoost, static, Live, Trading
<1>5. CASE PlayWildcard \/ SitOut \/ Bank \/ Decide
  BY <1>1, <1>5 DEF PlayWildcard, SitOut, Bank, Decide, OrdinaryWeek, static, Live, Trading
<1>6. CASE Unify \/ FundedPair \/ NoPair \/ Swap \/ Rest \/ Field \/ Score
  <2>1. UNCHANGED <<cfg, start, gw, ft, before>> /\ phase \in Live /\ phase # "done"
    BY <1>6 DEF Unify, FundedPair, NoPair, Swap, Rest, Field, Score, static, Live, Trading
  <2>. QED
    BY <1>1, <2>1
<1>7. CASE Finish
  <2>1. CASE gw = LastGW
    BY <1>7, <2>1 DEF Finish, AgreeInv, Live, Trading
  <2>2. CASE gw # LastGW
    <3>1. /\ gw' = gw + 1 /\ start' = start /\ cfg' = cfg /\ before'.free = free
          /\ ft' = ReadOff /\ phase = "record"
      BY <1>7, <2>2 DEF Finish, static
    <3>2. gw' # start' /\ Allowance' = IF free < cfg.bankUpTo THEN free + 1 ELSE free
      BY <1>t, <3>1 DEF Allowance
    <3>. SUFFICES ASSUME cfg.bankUpTo = MaxBanked
                  PROVE  IF start > 1 THEN ReadOff = Allowance'
                         ELSE ReadOff <= Allowance' /\ Allowance' <= ReadOff + 1
      BY <3>1, <3>2 DEF AgreeInv
    <3>3. IF gw = start THEN ft = 1 /\ Allowance = 1
          ELSE IF start > 1 THEN ft = Allowance ELSE ft <= Allowance /\ Allowance <= ft + 1
      BY <3>1 DEF AgreeInv, Live, Trading, Allowance
    <3>4. CASE gw = 1
      <4>1. ReadOff = 1 /\ start = 1 /\ made = 0
        BY <1>t, <3>1, <3>3, <3>4 DEF ReadOff, HitInv
      <4>2. free = 1
        BY <1>t, <3>1, <3>3, <3>4, <4>1 DEF HitInv, Balanced
      <4>. QED
        BY <1>t, <3>2, <4>1, <4>2
    <3>5. CASE gw > 1
      <4>1. \/ free = Allowance /\ ReadOff = IF ft < MaxBanked THEN ft + 1 ELSE MaxBanked
            \/ /\ free = IF Allowance > made THEN Allowance - made ELSE 0
               /\ ReadOff = IF (IF ft < made THEN 0 ELSE ft - made) < MaxBanked
                            THEN (IF ft < made THEN 0 ELSE ft - made) + 1 ELSE MaxBanked
        BY <3>1, <3>5, WeekLeaves
      <4>2. ft <= MaxBanked
        BY <1>t DEF TypeOK
      <4>. QED
        BY <1>t, <3>2, <3>3, <3>5, <4>1, <4>2
    <3>. QED
      BY <1>t, <3>4, <3>5
  <2>. QED
    BY <2>1, <2>2
<1>8. CASE UNCHANGED vars
  BY <1>8 DEF vars, AgreeInv, Allowance
<1>. QED
  BY <1>2, <1>3, <1>4, <1>5, <1>6, <1>7, <1>8 DEF Next, Ended

(* Where as many free transfers may be saved, the replay and the reading   *)
(* of the same history never differ, but by the one an opening gameweek    *)
(* earns.                                                                  *)
THEOREM AllowancesAgree == Spec => []AllowanceAgrees
<1>1. Init => AgreeInv
  BY DEF Init, AgreeInv
<1>2. TypeOK /\ ChipInv /\ HitInv /\ DropInv /\ AgreeInv /\ [Next]_vars => AgreeInv'
  BY NextAgree
<1>3. ASSUME TypeOK, HitInv, AgreeInv
      PROVE  AllowanceAgrees
  <2>. SUFFICES ASSUME phase = "triggers", cfg.bankUpTo = MaxBanked
                PROVE  IF start > 1 THEN ft = Accrued ELSE ft <= Accrued /\ Accrued <= ft + 1
    BY DEF AllowanceAgrees
  <2>1. free = before.free /\ gw # start /\ phase \in Live
    BY <1>3, WeekTypes DEF HitInv, Untouched, Live, Trading
  <2>2. Accrued = Allowance
    BY <2>1 DEF Accrued, Allowance
  <2>. QED
    BY <1>3, <2>1, <2>2 DEF AgreeInv
<1>. QED
  BY <1>1, <1>2, <1>3, DropInvariant, PTL DEF Spec

-----------------------------------------------------------------------------
(* The replay as a season of the game.  What the rules of the game ask of  *)
(* each step is what the invariants above say of it; a season's opening,   *)
(* its trades, its chips and its deadlines are steps of the manager, and   *)
(* the rest of a week is not seen.                                         *)

LEMMA SumIsTheGames ==
  ASSUME NEW f, NEW S
  PROVE  Game!SumFunctionOnSet(f, S) = SumFunctionOnSet(f, S)
BY DEF Game!SumFunctionOnSet, SumFunctionOnSet, Game!FoldFunctionOnSet, FoldFunctionOnSet,
       Game!MapThenFoldSet, MapThenFoldSet

LEMMA CountIsTheGames ==
  ASSUME NEW S
  PROVE  Game!Cardinality(S) = Cardinality(S)
BY DEF Game!Cardinality, Cardinality

LEMMA ShownIsBuy ==
  ASSUME TypeOK, NEW p
  PROVE  Game!Shown(p, gw) = Buy(p)
<1>1. gw \in Nat /\ gw >= 1
  BY WeekTypes DEF Week
<1>2. AtLeastOne(gw - 1) = IF gw = 1 THEN 1 ELSE gw - 1
  BY <1>1 DEF AtLeastOne
<1>. QED
  BY <1>2 DEF Game!Shown, Buy, MarketPrice

(* What has been played this week, by the phase it has reached, and that   *)
(* nothing is bought before the season opens.                              *)
PlayedBy(k) ==
  \/ phase \in {"record", "done", "failed", "doubled"}
  \/ phase = "field" /\ k = "wildcard"
  \/ phase \in {"boost", "score"} /\ k \in {"wildcard", "freehit"}

FreshInv ==
  /\ \A x \in played : x[2] < gw \/ (x[2] = gw /\ PlayedBy(x[1]))
  /\ phase = "entry" => bought = [p \in Player |-> 0]

LEMMA NextFresh ==
  ASSUME TypeOK, FreshInv, [Next]_vars
  PROVE  FreshInv'
<1>t. gw \in Nat /\ \A x \in played : x[2] \in Nat
  BY WeekTypes DEF TypeOK, Week
<1>1. ASSUME played' = played, gw' = gw, phase' # "entry",
             \A k : PlayedBy(k) => PlayedBy(k)'
      PROVE  FreshInv'
  BY <1>1 DEF FreshInv
<1>2. CASE Refuse \/ Open
  <2>1. phase = "entry" /\ played' = played /\ gw' = gw /\ phase' # "entry"
    BY <1>2 DEF Refuse, Open
  <2>2. \A k : ~PlayedBy(k)
    BY <2>1 DEF PlayedBy
  <2>. QED
    BY <1>1, <2>1, <2>2
<1>3. CASE Fail \/ ConsultWildcard \/ ConsultFreeHit \/ SitOut \/ Bank \/ Decide
  <2>1. /\ played' = played /\ gw' = gw /\ phase' # "entry"
        /\ phase' = "failed" \/ phase \in {"triggers", "freehit", "decide"}
    BY <1>3 DEF Fail, ConsultWildcard, ConsultFreeHit, SitOut, Bank, Decide, OrdinaryWeek
  <2>2. \A k : PlayedBy(k) => PlayedBy(k)'
    BY <2>1 DEF PlayedBy
  <2>. QED
    BY <1>1, <2>1, <2>2
<1>4. CASE Unify \/ FundedPair \/ NoPair \/ Swap \/ Rest
  <2>1. /\ played' = played /\ gw' = gw /\ phase' # "entry"
        /\ phase \in {"unified", "pair", "single"}
    BY <1>4 DEF Unify, FundedPair, NoPair, Swap, Rest
  <2>2. \A k : ~PlayedBy(k)
    BY <2>1 DEF PlayedBy
  <2>. QED
    BY <1>1, <2>1, <2>2
<1>5. CASE PlayWildcard
  <2>1. /\ played' = played \cup {<<"wildcard", gw>>} /\ gw' = gw
        /\ phase = "decide" /\ phase' = "field"
    BY <1>5 DEF PlayWildcard
  <2>2. PlayedBy("wildcard")' /\ \A k : ~PlayedBy(k)
    BY <2>1 DEF PlayedBy
  <2>. QED
    BY <2>1, <2>2 DEF FreshInv
<1>6. CASE Field
  <2>1. /\ played' \subseteq played \cup {<<"freehit", gw>>} /\ gw' = gw
        /\ phase = "field" /\ phase' = "boost"
    BY <1>6 DEF Field
  <2>2. PlayedBy("freehit")' /\ \A k : PlayedBy(k) => PlayedBy(k)'
    BY <2>1 DEF PlayedBy
  <2>. QED
    BY <2>1, <2>2 DEF FreshInv
<1>7. CASE ConsultBoost
  <2>1. played' = played /\ gw' = gw /\ phase = "boost" /\ phase' = "score"
    BY <1>7 DEF ConsultBoost
  <2>2. \A k : PlayedBy(k) => PlayedBy(k)'
    BY <2>1 DEF PlayedBy
  <2>. QED
    BY <1>1, <2>1, <2>2
<1>8. CASE Score
  <2>1. /\ played' \subseteq played \cup {<<"boost", gw>>, <<"captain", gw>>} /\ gw' = gw
        /\ phase' = "record"
    BY <1>8 DEF Score
  <2>2. \A k : PlayedBy(k)'
    BY <2>1 DEF PlayedBy
  <2>. QED
    BY <2>1, <2>2 DEF FreshInv
<1>9. CASE Finish
  <2>1. /\ played' = played
        /\ (gw' = gw /\ phase' = "done") \/ (gw' = gw + 1 /\ phase' = "triggers")
    BY <1>9 DEF Finish
  <2>2. CASE gw' = gw /\ phase' = "done"
    BY <2>1, <2>2 DEF FreshInv, PlayedBy
  <2>3. CASE gw' = gw + 1 /\ phase' = "triggers"
    <3>1. \A x \in played : x[2] < gw'
      BY <1>t, <2>3 DEF FreshInv
    <3>. QED
      BY <2>1, <2>3, <3>1 DEF FreshInv
  <2>. QED
    BY <2>1, <2>2, <2>3
<1>10. CASE UNCHANGED vars
  BY <1>10 DEF vars, FreshInv, PlayedBy
<1>. QED
  BY <1>2, <1>3, <1>4, <1>5, <1>6, <1>7, <1>8, <1>9, <1>10 DEF Next, Ended

SeasonInv ==
  TypeOK /\ ChipInv /\ HitInv /\ WalletInv /\ BackInv /\ DropInv /\ MoneyInv /\ FreshInv

LEMMA SeasonInvariant == Spec => []SeasonInv
<1>1. Init => WalletInv /\ BackInv /\ MoneyInv /\ FreshInv
  BY SeasonConstants DEF Init, WalletInv, BackInv, AsItBegan, MoneyInv, FreshInv, Live, Trading
<1>2. TypeOK /\ ChipInv /\ HitInv /\ DropInv
        /\ WalletInv /\ BackInv /\ MoneyInv /\ FreshInv /\ [Next]_vars
      => WalletInv' /\ BackInv' /\ MoneyInv' /\ FreshInv'
  BY NextWallet, NextBack, NextMoney, NextFresh
<1>. QED
  BY <1>1, <1>2, DropInvariant, PTL DEF Spec, SeasonInv

(* The manager's view of a season under way, before a step and after it.   *)
LEMMA UnderWay ==
  ASSUME SeasonInv, phase \in Live
  PROVE  /\ Opened /\ phase # "doubled"
         /\ Kept.held = held /\ Kept.bank = bank /\ Kept.bought = bought /\ Kept.short = short
<1>1. /\ phase # "doubled"
      /\ Kept.held = held /\ Kept.bank = bank /\ Kept.bought = bought /\ Kept.short = short
  BY DEF Live, Trading, Kept
<1>2. PICK s \in Slot : TRUE
  BY SeasonConstants
<1>3. held[s] \in Player /\ held[s] \in Squad(held)
  BY SquadIsHeld DEF SeasonInv
<1>4. bought[held[s]] # 0
  BY <1>3 DEF SeasonInv, WalletInv, Tracked
<1>. QED
  BY <1>1, <1>3, <1>4 DEF Opened

LEMMA StillUnderWay ==
  ASSUME SeasonInv', phase' \in Live
  PROVE  /\ Opened' /\ phase' # "doubled"
         /\ (Kept.held)' = held' /\ (Kept.bank)' = bank' /\ (Kept.bought)' = bought'
         /\ (Kept.short)' = short'
<1>1. /\ phase' # "doubled" /\ (Kept.held)' = held' /\ (Kept.bank)' = bank'
      /\ (Kept.bought)' = bought' /\ (Kept.short)' = short'
  BY DEF Live, Trading, Kept
<1>2. PICK s \in Slot : TRUE
  BY SeasonConstants
<1>3. held'[s] \in Player /\ held'[s] \in Squad(held)'
  BY DEF SeasonInv, TypeOK, Squad
<1>4. bought'[held'[s]] # 0
  BY <1>3 DEF SeasonInv, WalletInv, Tracked
<1>. QED
  BY <1>1, <1>3, <1>4 DEF Opened

(* A trade between two legal squads is the exchange of those who differ:   *)
(* what the slots take in is what the players sold raise, less what those  *)
(* bought are shown at.                                                    *)
LEMMA WhoIsExchanged ==
  ASSUME Different(held), NEW next, Different(next), New(next) \cap Squad(held) = {}
  PROVE  /\ Squad(next) \ Squad(held) = New(next)
         /\ Squad(held) \ Squad(next) = Gone(next)
<1>1. New(next) \subseteq Squad(next) /\ Gone(next) \subseteq Squad(held)
  BY DEF New, Gone, Changed, Squad
<1>2. Squad(next) \ Squad(held) \subseteq New(next)
  BY DEF New, Changed, Squad
<1>3. Squad(held) \ Squad(next) \subseteq Gone(next)
  BY DEF Gone, Changed, Squad
<1>4. ASSUME NEW s \in Changed(next), NEW t \in Slot, next[t] = held[s]
      PROVE  FALSE
  <2>1. s \in Slot /\ next[s] # held[s] /\ held[s] \in Squad(held)
    BY DEF Changed, Squad
  <2>2. t \notin Changed(next)
    BY <1>4, <2>1 DEF New
  <2>3. next[t] = held[t]
    BY <2>2 DEF Changed
  <2>4. s = t
    BY <1>4, <2>1, <2>3 DEF Different
  <2>. QED
    BY <1>4, <2>1, <2>4
<1>5. Gone(next) \cap Squad(next) = {}
  BY <1>4 DEF Gone, Squad
<1>. QED
  BY <1>1, <1>2, <1>3, <1>5

LEMMA AsManyArrive ==
  ASSUME NEW next, Different(next)
  PROVE  Cardinality(New(next)) = Cardinality(Changed(next))
<1>. DEFINE f == [s \in Changed(next) |-> next[s]]
<1>1. Changed(next) \subseteq Slot
  BY DEF Changed
<1>2. f \in Bijection(Changed(next), New(next))
  BY <1>1 DEF Bijection, Injection, IsInjective, Surjection, New, Different
<1>. QED
  BY <1>2, ChangedIsFinite, FS_Bijection DEF ExistsBijection

LEMMA ProceedsAreSales ==
  ASSUME SeasonInv, phase \in Live, NEW p \in Squad(held)
  PROVE  Game!Proceeds(p) = Sale(p) + Stale(p) /\ Sale(p) \in Nat /\ Stale(p) \in Nat
<1>1. TypeOK /\ AsQuoted /\ Tracked /\ gw \in Nat
  BY WeekTypes DEF SeasonInv, MoneyInv, WalletInv
<1>2. p \in Player
  BY <1>1, SquadIsHeld DEF Squad
<1>3. bought[p] \in Nat /\ bought[p] # 0 /\ Buy(p) \in Nat
  BY <1>1, <1>2, PriceIsPositive DEF TypeOK, Tracked
<1>4. Sale(p) \in Nat /\ Stale(p) \in Nat /\ Sale(p) + Stale(p) = Raises(bought[p], Buy(p))
  BY <1>1, SaleIsWorth
<1>5. Game!Shown(p, gw) = Buy(p)
  BY <1>1, ShownIsBuy
<1>6. Opened /\ Kept.bought = bought
  BY UnderWay
<1>7. Game!Proceeds(p) = SellPrice(bought[p], Buy(p))
  BY <1>5, <1>6 DEF Game!Proceeds, SellPrice
<1>. QED
  BY <1>3, <1>4, <1>7 DEF Raises

LEMMA TakingsAreTheGames ==
  ASSUME SeasonInv, phase \in Live, NEW next \in Fifteen, New(next) \cap Squad(held) = {}
  PROVE  /\ Takings(next) + Lost(next)
              = Game!SumFunctionOnSet([p \in Player |-> Game!Proceeds(p)], Gone(next))
                  - Game!Spent(New(next), gw)
         /\ Takings(next) \in Int /\ Lost(next) \in Nat
         /\ Game!SumFunctionOnSet([p \in Player |-> Game!Proceeds(p)], Gone(next)) \in Int
         /\ Game!Spent(New(next), gw) \in Int
<1>. DEFINE T     == Changed(next)
            raise == [p \in Player |-> Game!Proceeds(p)]
            shown == [p \in Player |-> Game!Shown(p, gw)]
            sale  == [s \in Slot |-> Sale(held[s]) + Stale(held[s])]
            buy   == [s \in Slot |-> Buy(next[s])]
            l     == [s \in Slot |-> Stale(held[s])]
            d     == [s \in Slot |-> Sale(held[s]) - Buy(next[s])]
            full  == [s \in Slot |-> (Sale(held[s]) - Buy(next[s])) + Stale(held[s])]
<1>0. TypeOK /\ Different(held) /\ Different(next) /\ next \in [Slot -> Player]
  BY LineupType DEF SeasonInv, WalletInv, Fifteen
<1>1. IsFiniteSet(T) /\ T \subseteq Slot
  BY ChangedIsFinite DEF Changed
<1>2. ASSUME NEW s \in T
      PROVE  /\ sale[s] \in Int /\ sale[s] = raise[held[s]] /\ raise[held[s]] \in Int
             /\ buy[s] \in Int /\ buy[s] = shown[next[s]] /\ shown[next[s]] \in Int
             /\ d[s] \in Int /\ l[s] \in Nat /\ full[s] = d[s] + l[s] /\ full[s] \in Int
             /\ sale[s] = full[s] + buy[s]
  <2>1. s \in Slot /\ held[s] \in Player /\ held[s] \in Squad(held) /\ next[s] \in Player
    BY <1>0, <1>1, SquadIsHeld
  <2>2. /\ Game!Proceeds(held[s]) = Sale(held[s]) + Stale(held[s])
        /\ Sale(held[s]) \in Nat /\ Stale(held[s]) \in Nat
    BY <2>1, ProceedsAreSales
  <2>3. Game!Shown(next[s], gw) = Buy(next[s]) /\ Buy(next[s]) \in Nat
    BY <1>0, <2>1, ShownIsBuy, PriceIsPositive
  <2>. QED
    BY <2>1, <2>2, <2>3
<1>3. \A s, t \in T : (held[s] = held[t] => s = t) /\ (next[s] = next[t] => s = t)
  BY <1>0, <1>1 DEF Different
<1>4. Gone(next) = {held[s] : s \in T} /\ New(next) = {next[s] : s \in T}
  BY DEF Gone, New
<1>5. /\ Takings(next) = SumFunctionOnSet(d, T) /\ Lost(next) = SumFunctionOnSet(l, T)
      /\ Game!Spent(New(next), gw) = SumFunctionOnSet(shown, New(next))
      /\ Game!SumFunctionOnSet(raise, Gone(next)) = SumFunctionOnSet(raise, Gone(next))
  BY SumIsTheGames DEF Takings, Lost, Game!Spent
<1>. HIDE DEF T, raise, shown, sale, buy, l, d, full
<1>6. SumFunctionOnSet(sale, T) = SumFunctionOnSet(raise, Gone(next))
  BY <1>1, <1>2, <1>3, <1>4, SumPlaces
<1>7. SumFunctionOnSet(buy, T) = SumFunctionOnSet(shown, New(next))
  BY <1>1, <1>2, <1>3, <1>4, SumPlaces
<1>8. /\ SumFunctionOnSet(sale, T) = SumFunctionOnSet(full, T) + SumFunctionOnSet(buy, T)
      /\ SumFunctionOnSet(full, T) = SumFunctionOnSet(d, T) + SumFunctionOnSet(l, T)
  BY <1>1, <1>2, SumAdds
<1>9. /\ SumFunctionOnSet(sale, T) \in Int /\ SumFunctionOnSet(buy, T) \in Int
      /\ SumFunctionOnSet(d, T) \in Int /\ SumFunctionOnSet(l, T) \in Nat
  BY <1>1, <1>2, SumType, SumPositive
<1>10. /\ Takings(next) + Lost(next)
            = Game!SumFunctionOnSet(raise, Gone(next)) - Game!Spent(New(next), gw)
       /\ Takings(next) \in Int /\ Lost(next) \in Nat
       /\ Game!SumFunctionOnSet(raise, Gone(next)) \in Int /\ Game!Spent(New(next), gw) \in Int
  BY <1>5, <1>6, <1>7, <1>8, <1>9
<1>. QED
  BY <1>10 DEF raise

LEMMA TradeIsAnExchange ==
  ASSUME SeasonInv, SeasonInv', phase \in Live, phase' \in Live, NEW next \in Fifteen,
         New(next) \cap Squad(held) = {}, Trade(next), UNCHANGED <<gw, price>>
  PROVE  Squad(next) \in LegalSquads /\ Game!Exchange(Squad(next))
<1>1. /\ held' = next /\ bought' = BoughtAfter(next) /\ bank' = bank + Takings(next)
      /\ made' = made + Cardinality(Changed(next)) /\ short' = short + Lost(next)
  BY DEF Trade, Takings, Lost
<1>2. /\ Opened /\ Kept.held = held /\ Kept.bank = bank /\ Kept.bought = bought
      /\ Kept.short = short /\ phase # "doubled"
  BY UnderWay
<1>3. /\ Opened' /\ (Kept.held)' = held' /\ (Kept.bank)' = bank' /\ (Kept.bought)' = bought'
      /\ (Kept.short)' = short' /\ phase' # "doubled"
  BY StillUnderWay
<1>4. /\ Different(held) /\ Different(next) /\ TypeOK /\ Tracked
      /\ bank \in Nat /\ bank' \in Nat /\ short \in Nat /\ short' \in Nat
  BY DEF SeasonInv, WalletInv, MoneyInv, Fifteen
<1>5. /\ Squad(next) \ Squad(held) = New(next) /\ Squad(held) \ Squad(next) = Gone(next)
      /\ Game!Cardinality(New(next)) = Cardinality(Changed(next))
  BY <1>4, WhoIsExchanged, AsManyArrive, CountIsTheGames
<1>6. Squad(held)' = Squad(next)
  BY <1>1 DEF Squad
<1>7. /\ bank' + short' =
           (bank + short) + Game!SumFunctionOnSet([p \in Player |-> Game!Proceeds(p)], Gone(next))
             - Game!Spent(New(next), gw)
      /\ bank' + short' >= 0
  BY <1>1, <1>4, TakingsAreTheGames
<1>8. bought' = [p \in Player |-> IF p \in New(next) THEN Game!Shown(p, gw)
                                  ELSE IF p \in Squad(next) THEN bought[p] ELSE 0]
  <2>1. ASSUME NEW p \in Player
        PROVE  BoughtAfter(next)[p] = IF p \in New(next) THEN Game!Shown(p, gw)
                                      ELSE IF p \in Squad(next) THEN bought[p] ELSE 0
    <3>1. Game!Shown(p, gw) = Buy(p)
      BY <1>4, ShownIsBuy
    <3>2. p \notin New(next) /\ p \in Squad(next) => p \notin Gone(next)
      BY <1>5
    <3>3. p \notin New(next) /\ p \notin Squad(next) /\ p \notin Gone(next) => bought[p] = 0
      BY <1>4, <1>5 DEF Tracked
    <3>. QED
      BY <3>1, <3>2, <3>3 DEF BoughtAfter
  <2>. QED
    BY <1>1, <2>1 DEF BoughtAfter
<1>9. Squad(next) \in LegalSquads
  BY DEF LegalSquads
<1>10. made' = made + Game!Cardinality(New(next))
  BY <1>1, <1>4, <1>5
<1>. QED
  BY <1>2, <1>3, <1>5, <1>6, <1>7, <1>8, <1>9, <1>10 DEF Game!Exchange

(* A chip due this week and not yet played in it may still be played.      *)
LEMMA StillAvailable ==
  ASSUME SeasonInv, phase \in Live, NEW k \in Chip, Plays(k, gw),
         \A x \in played : x[2] = gw => x[1] # k
  PROVE  Game!Available(k)
<1>0. TypeOK /\ ChipInv /\ phase # "refused" /\ gw \in Week /\ Opened
  BY WeekTypes, UnderWay DEF SeasonInv, Live, Trading
<1>1. \A w : Game!SetOf(w) = SetOfGW(w)
  BY <1>0, ConfigTypes DEF Game!SetOf, SetOfGW, TypeOK
<1>. SUFFICES ASSUME NEW x \in played
              PROVE  x[2] # gw /\ (x[1] = k => SetOfGW(x[2]) # SetOfGW(gw))
  BY <1>0, <1>1 DEF Game!Available
<1>2. x[1] \in Chip /\ x[2] \in Week /\ Plays(x[1], x[2])
  BY <1>0, WhatIsPlayed
<1>3. x[2] # gw
  BY <1>0, <1>2 DEF ChipInv, OneAWeek
<1>4. ASSUME x[1] = k, SetOfGW(x[2]) = SetOfGW(gw) PROVE FALSE
  BY <1>0, <1>2, <1>3, <1>4, DueOnce
<1>. QED
  BY <1>3, <1>4

(* Steps the manager does not see.                                         *)
Unseen ==
  UNCHANGED <<cfg, start, price, gw, held, bank, bought, short, before, made, hits, played>>

LEMMA UnseenStep ==
  ASSUME Unseen, phase # "doubled", phase' # "doubled"
  PROVE  UNCHANGED Game!vars
<1>1. /\ (Kept.held)' = Kept.held /\ (Kept.bank)' = Kept.bank /\ (Kept.bought)' = Kept.bought
      /\ (Kept.short)' = Kept.short /\ Allowance' = Allowance
  BY DEF Unseen, Kept, Allowance
<1>2. Opened' <=> Opened
  BY <1>1 DEF Opened
<1>3. Squad(Kept.held)' = Squad(Kept.held)
  BY <1>1 DEF Squad
<1>. QED
  BY <1>1, <1>2, <1>3, Zenon DEF Unseen, Game!vars

(* The opening is the manager's entry.                                     *)
LEMMA OpenEnters ==
  ASSUME SeasonInv, SeasonInv', Open
  PROVE  Game!Enter
<1>1. PICK h \in Fifteen :
        /\ Cost(h) <= Budget /\ held' = h /\ bank' = Budget - Cost(h)
        /\ bought' = [p \in Player |-> IF p \in Squad(h) THEN Buy(p) ELSE 0]
  BY DEF Open
<1>2. /\ phase = "entry" /\ phase' = "field" /\ phase' \in Live
      /\ UNCHANGED <<cfg, start, price, gw, made, hits, played>>
  BY DEF Open, static, Live, Trading
<1>3. /\ TypeOK /\ gw = start /\ bought = [p \in Player |-> 0]
      /\ short' = 0 /\ bank' \in Nat
  BY <1>2 DEF SeasonInv, HitInv, FreshInv, MoneyInv, Open
<1>4. ~Opened /\ phase # "doubled"
  BY <1>2, <1>3 DEF Opened, Kept
<1>5. /\ Opened' /\ (Kept.held)' = held' /\ (Kept.bank)' = bank' /\ (Kept.bought)' = bought'
      /\ (Kept.short)' = short' /\ phase' # "doubled"
      /\ (Kept.bank)' + (Kept.short)' = Budget - Cost(h)
  BY <1>1, <1>2, <1>3, StillUnderWay
<1>6. Squad(h) \in LegalSquads /\ Squad(held)' = Squad(h) /\ gw \in 1..LastGW
  BY <1>1, <1>3, WeekTypes DEF LegalSquads, Squad, Week
<1>7. Game!Spent(Squad(h), gw) = Cost(h)
  <2>. DEFINE shown == [p \in Player |-> Game!Shown(p, gw)]
              buy   == [s \in Slot |-> Buy(h[s])]
  <2>1. h \in [Slot -> Player] /\ \A s, t \in Slot : h[s] = h[t] => s = t
    BY LineupType DEF Fifteen, Different
  <2>2. \A s \in Slot : shown[h[s]] \in Int /\ buy[s] = shown[h[s]]
    BY <1>3, <2>1, ShownIsBuy, PriceIsPositive
  <2>3. Squad(h) = {h[s] : s \in Slot} /\ Cost(h) = SumFunctionOnSet(buy, Slot)
        /\ Game!Spent(Squad(h), gw) = SumFunctionOnSet(shown, Squad(h))
    BY SumIsTheGames DEF Squad, Cost, Game!Spent
  <2>. HIDE DEF shown, buy
  <2>4. SumFunctionOnSet(buy, Slot) = SumFunctionOnSet(shown, {h[s] : s \in Slot})
    BY <2>1, <2>2, SeasonConstants, SumPlaces
  <2>. QED
    BY <2>3, <2>4
<1>8. bought' = [p \in Player |-> IF p \in Squad(h) THEN Game!Shown(p, gw) ELSE 0]
  BY <1>1, <1>3, ShownIsBuy
<1>9. Allowance' = 1
  BY <1>2, <1>3 DEF Allowance
<1>. QED
  BY <1>1, <1>2, <1>4, <1>5, <1>6, <1>7, <1>8, <1>9 DEF Game!Enter

(* A week's ordinary trade is the manager's transfers.                     *)
LEMMA TradeTransfers ==
  ASSUME SeasonInv, SeasonInv', phase \in {"unified", "pair", "single"},
         phase' \in {"single", "field"}, NEW next \in Fifteen,
         New(next) \cap Squad(held) = {}, Trade(next),
         UNCHANGED <<cfg, start, price, gw, plan, fired, before, played>>
  PROVE  Game!Transfers
<1>1. phase \in Live /\ phase' \in Live /\ phase # "doubled" /\ phase' # "doubled"
  BY DEF Live, Trading
<1>2. ~ChipWeek /\ ~ChipWeek'
  BY SameWeek DEF SeasonInv, HitInv
<1>3. hits' = IF made' > Allowance THEN made' - Allowance ELSE 0
  <2>1. Balanced' /\ Allowance' = Allowance
    BY <1>2 DEF SeasonInv, HitInv, Allowance
  <2>. QED
    BY <2>1 DEF Balanced
<1>4. Squad(next) \in LegalSquads /\ Game!Exchange(Squad(next))
  BY <1>1, TradeIsAnExchange
<1>5. Opened /\ Opened' /\ gw \in Week /\ gw > 0 /\ Allowance' = Allowance
  BY <1>1, UnderWay, StillUnderWay, WeekTypes DEF SeasonInv, Week, Allowance
<1>6. <<"freehit", gw>> \notin played /\ <<"wildcard", gw>> \notin played
  BY <1>2, <1>5, ChipNames DEF SeasonInv, ChipInv, PlayedIsDue, ChipWeek
<1>. QED
  BY <1>1, <1>3, <1>4, <1>5, <1>6 DEF Game!Transfers, Game!Playing

LEMMA WildcardPlays ==
  ASSUME SeasonInv, SeasonInv', PlayWildcard
  PROVE  Game!Wildcard
<1>1. PICK next \in Rebuilt : Trade(next)
  BY DEF PlayWildcard
<1>2. /\ phase = "decide" /\ phase' = "field" /\ phase \in Live /\ phase' \in Live
      /\ Plays("wildcard", gw) /\ played' = played \cup {<<"wildcard", gw>>}
      /\ UNCHANGED <<cfg, start, price, gw, hits, before>>
  BY DEF PlayWildcard, static, Live, Trading
<1>3. next \in Fifteen /\ New(next) \cap Squad(held) = {}
  BY DEF Rebuilt
<1>4. Squad(next) \in LegalSquads /\ Game!Exchange(Squad(next))
  BY <1>1, <1>2, <1>3, TradeIsAnExchange
<1>5. Opened /\ Opened' /\ gw > 0 /\ Allowance' = Allowance /\ made = 0
  BY <1>2, UnderWay, StillUnderWay, WeekTypes
     DEF SeasonInv, Week, Allowance, HitInv, Untouched
<1>6. \A x \in played : x[2] = gw => x[1] # "wildcard"
  <2>1. gw \in Nat /\ \A k : ~PlayedBy(k)
    BY <1>2, WeekTypes DEF SeasonInv, PlayedBy
  <2>. QED
    BY <2>1 DEF SeasonInv, FreshInv
<1>7. Game!Available("wildcard")
  BY <1>2, <1>6, ChipNames, StillAvailable
<1>. QED
  BY <1>2, <1>4, <1>5, <1>7 DEF Game!Wildcard

(* A chip that changes no squad for good, when it is scored.               *)
LEMMA ChipActivates ==
  ASSUME SeasonInv, SeasonInv', phase \in Live, phase' \in Live, NEW k \in Chip \ {"wildcard"},
         Plays(k, gw), \A x \in played : x[2] = gw => x[1] # k,
         k = "freehit" => made = 0, played' = played \cup {<<k, gw>>},
         UNCHANGED <<cfg, start, price, gw, held, bank, bought, short, before, made, hits>>
  PROVE  Game!Activate
<1>1. Game!Available(k)
  BY StillAvailable
<1>2. /\ Opened /\ Opened' /\ gw > 0 /\ Allowance' = Allowance
      /\ phase # "doubled" /\ phase' # "doubled"
  BY UnderWay, StillUnderWay, WeekTypes DEF SeasonInv, Week, Allowance
<1>3. /\ (Kept.held)' = Kept.held /\ (Kept.bank)' = Kept.bank /\ (Kept.bought)' = Kept.bought
      /\ (Kept.short)' = Kept.short
  BY UnderWay, StillUnderWay
<1>4. Squad(Kept.held)' = Squad(Kept.held)
  BY <1>3 DEF Squad
<1>5. /\ Game!Available(k) /\ (k = "freehit" => (IF phase = "doubled" THEN 0 ELSE made) = 0)
      /\ played' = played \cup {<<k, IF Opened THEN gw ELSE 0>>}
  BY <1>1, <1>2
<1>. QED
  BY <1>2, <1>3, <1>4, <1>5 DEF Game!Activate

(* A new week is the manager's deadline: what is carried on is what a chip *)
(* that was played, and not only due, left alone.                          *)
LEMMA WeekEnds ==
  ASSUME SeasonInv, SeasonInv', Finish, gw # LastGW
  PROVE  Game!Deadline
<1>1. /\ phase = "record" /\ phase' = "triggers" /\ phase \in Live /\ phase' \in Live
      /\ gw' = gw + 1 /\ hits' = 0 /\ made' = 0 /\ before'.free = free
      /\ UNCHANGED <<cfg, start, price, plan, held, bank, bought, short, played>>
  BY DEF Finish, static, wallet, Live, Trading
<1>2. /\ Opened /\ Opened' /\ phase # "doubled" /\ phase' # "doubled"
      /\ Kept.held = held /\ Kept.bank = bank /\ Kept.bought = bought /\ Kept.short = short
      /\ (Kept.held)' = held /\ (Kept.bank)' = bank /\ (Kept.bought)' = bought
      /\ (Kept.short)' = short
  BY <1>1, UnderWay, StillUnderWay
<1>3. /\ gw \in Nat /\ gw > 0 /\ gw < LastGW /\ LastGW \in Nat /\ start <= gw /\ start \in Nat
      /\ made \in Nat /\ free \in Nat /\ free <= cfg.bankUpTo /\ cfg.bankUpTo \in Nat
      /\ Allowance \in Nat
  <2>1. TypeOK
    BY DEF SeasonInv
  <2>2. gw \in Nat /\ gw > 0 /\ gw < LastGW /\ LastGW \in Nat /\ start <= gw /\ start \in Nat
    BY <2>1, WeekTypes DEF Week
  <2>3. cfg.bankUpTo \in Nat /\ made \in Nat /\ free \in 0..cfg.bankUpTo
    BY <2>1, ConfigTypes DEF TypeOK
  <2>. QED
    BY <2>1, <2>2, <2>3, AllowanceType
<1>4. Allowance' = IF free < cfg.bankUpTo THEN free + 1 ELSE free
  BY <1>1, <1>3 DEF Allowance
<1>. DEFINE spent == <<"wildcard", gw>> \in played \/ <<"freehit", gw>> \in played
            kept  == IF spent THEN Allowance
                     ELSE IF Allowance > made THEN Allowance - made ELSE 0
<1>5. free = kept
  <2>1. spent => ChipWeek
    BY ChipNames, WeekTypes DEF SeasonInv, ChipInv, PlayedIsDue, ChipWeek
  <2>2. CASE ~ChipWeek
    BY <1>1, <2>1, <2>2 DEF SeasonInv, HitInv, Balanced
  <2>3. CASE ChipWeek /\ spent
    BY <1>1, <2>3 DEF SeasonInv, HitInv
  <2>4. CASE ChipWeek /\ ~spent
    <3>1. gw = start
      BY <1>1, <1>3, <2>4, ChipNames, WeekTypes
         DEF SeasonInv, DropInv, NoneLost, Settled, ChipWeek
    <3>2. made = 0 /\ free = Allowance
      BY <1>1, <2>4, <3>1 DEF SeasonInv, HitInv
    <3>. QED
      BY <1>3, <2>4, <3>2
  <2>. QED
    BY <2>2, <2>3, <2>4
<1>6. Allowance' = IF kept + 1 > cfg.bankUpTo THEN cfg.bankUpTo ELSE kept + 1
  BY <1>3, <1>4, <1>5
<1>. HIDE DEF spent
<1>7. Squad(Kept.held)' = Squad(Kept.held)
  BY <1>2 DEF Squad
<1>. QED
  BY <1>1, <1>2, <1>3, <1>6, <1>7 DEF Game!Deadline, Game!Playing, spent

LEMMA GameStep ==
  ASSUME SeasonInv, SeasonInv', [Next]_vars
  PROVE  [Game!Next]_(Game!vars)
<1>1. CASE Refuse \/ SitOut \/ Bank \/ Decide
  <2>1. Unseen /\ phase # "doubled" /\ phase' # "doubled"
    BY <1>1 DEF Refuse, SitOut, Bank, Decide, OrdinaryWeek, Unseen, static, wallet
  <2>. QED
    BY <2>1, UnseenStep
<1>2. CASE Fail \/ ConsultWildcard \/ ConsultFreeHit \/ NoPair \/ Rest \/ ConsultBoost
  <2>1. Unseen /\ phase # "doubled" /\ phase' # "doubled"
    BY <1>2 DEF Fail, ConsultWildcard, ConsultFreeHit, NoPair, Rest, ConsultBoost,
                Unseen, static, wallet
  <2>. QED
    BY <2>1, UnseenStep
<1>3. CASE Open
  BY <1>3, OpenEnters DEF Game!Next
<1>4. CASE PlayWildcard
  BY <1>4, WildcardPlays DEF Game!Next
<1>5. CASE Unify
  <2>1. PICK next \in Rebuilt : Trade(next)
    BY <1>5 DEF Unify
  <2>2. next \in Fifteen /\ New(next) \cap Squad(held) = {}
    BY DEF Rebuilt
  <2>3. /\ phase = "unified" /\ phase' = "field"
        /\ UNCHANGED <<cfg, start, price, gw, plan, fired, before, played>>
    BY <1>5 DEF Unify, static
  <2>. QED
    BY <2>1, <2>2, <2>3, TradeTransfers DEF Game!Next
<1>6. CASE FundedPair
  <2>1. PICK next \in Lineup :
          /\ Arrivals(next) /\ Trade(next)
          /\ phase' = IF Different(next) THEN "single" ELSE "doubled"
    BY <1>6 DEF FundedPair
  <2>2. /\ phase = "pair"
        /\ UNCHANGED <<cfg, start, price, gw, plan, fired, before, played>>
    BY <1>6 DEF FundedPair, static
  <2>3. CASE Different(next)
    <3>1. next \in Fifteen /\ New(next) \cap Squad(held) = {} /\ phase' = "single"
      BY <2>1, <2>3 DEF Fifteen, Arrivals
    <3>. QED
      BY <2>1, <2>2, <3>1, TradeTransfers DEF Game!Next
  <2>4. CASE ~Different(next)
    <3>1. /\ Kept.held = before.held /\ Kept.bank = before.bank /\ Kept.bought = before.bought
          /\ Kept.short = before.short
          /\ made = 0 /\ hits = 0 /\ phase # "doubled"
      BY <2>2 DEF SeasonInv, MoneyInv, Unmoved, HitInv, Kept
    <3>2. phase' = "doubled" /\ Kept' = before /\ Allowance' = Allowance
      BY <2>1, <2>2, <2>4 DEF Kept, Allowance
    <3>3. Opened' <=> Opened
      BY <3>1, <3>2 DEF Opened
    <3>4. Squad(Kept.held)' = Squad(Kept.held)
      BY <3>1, <3>2 DEF Squad
    <3>. QED
      BY <2>2, <3>1, <3>2, <3>3, <3>4, Zenon DEF Game!vars
  <2>. QED
    BY <2>3, <2>4
<1>7. CASE Swap
  <2>1. PICK next \in Lineup :
          Arrivals(next) /\ Cardinality(Changed(next)) = 1 /\ Trade(next)
    BY <1>7 DEF Swap
  <2>2. /\ phase = "single" /\ phase' = "single"
        /\ UNCHANGED <<cfg, start, price, gw, plan, fired, before, played>>
    BY <1>7 DEF Swap, static
  <2>3. Different(next)
    BY <2>1, <2>2, SwapDiffers DEF SeasonInv, WalletInv, Live, Trading
  <2>4. next \in Fifteen /\ New(next) \cap Squad(held) = {}
    BY <2>1, <2>3 DEF Fifteen, Arrivals
  <2>. QED
    BY <2>1, <2>2, <2>4, TradeTransfers DEF Game!Next
<1>8. CASE Field
  <2>1. /\ phase = "field" /\ phase' = "boost" /\ phase \in Live /\ phase' \in Live
        /\ UNCHANGED <<cfg, start, price, gw, held, bank, bought, short, before, made, hits>>
    BY <1>8 DEF Field, static, wallet, Live, Trading
  <2>2. CASE Plays("freehit", gw)
    <3>1. played' = played \cup {<<"freehit", gw>>} /\ made = 0
      BY <1>8, <2>2 DEF Field, SeasonInv, BackInv, AsItBegan
    <3>2. \A x \in played : x[2] = gw => x[1] # "freehit"
      BY <2>1, WeekTypes DEF SeasonInv, FreshInv, PlayedBy
    <3>3. "freehit" \in Chip \ {"wildcard"}
      BY ChipNames
    <3>. QED
      BY <2>1, <2>2, <3>1, <3>2, <3>3, ChipActivates DEF Game!Next
  <2>3. CASE ~Plays("freehit", gw)
    <3>1. Unseen
      BY <1>8, <2>1, <2>3 DEF Field, Unseen
    <3>. QED
      BY <2>1, <3>1, UnseenStep
  <2>. QED
    BY <2>2, <2>3
<1>9. CASE Score
  <2>1. /\ phase = "score" /\ phase' = "record" /\ phase \in Live /\ phase' \in Live
        /\ UNCHANGED <<cfg, start, price, gw, held, bank, bought, short, before, made, hits>>
    BY <1>9 DEF Score, static, wallet, Live, Trading
  <2>2. \A x \in played : x[2] = gw => x[1] # "boost" /\ x[1] # "captain"
    BY <2>1, WeekTypes DEF SeasonInv, FreshInv, PlayedBy
  <2>3. CASE Plays("boost", gw)
    <3>1. played' = played \cup {<<"boost", gw>>} /\ "boost" \in Chip \ {"wildcard"}
      BY <1>9, <2>3, ChipNames DEF Score
    <3>. QED
      BY <2>1, <2>2, <2>3, <3>1, ChipActivates DEF Game!Next
  <2>4. CASE ~Plays("boost", gw) /\ PlannedFor("captain", gw)
    <3>1. /\ played' = played \cup {<<"captain", gw>>} /\ "captain" \in Chip \ {"wildcard"}
          /\ Plays("captain", gw)
      BY <1>9, <2>4, ChipNames DEF Score, Plays
    <3>. QED
      BY <2>1, <2>2, <3>1, ChipActivates DEF Game!Next
  <2>5. CASE ~Plays("boost", gw) /\ ~PlannedFor("captain", gw)
    <3>1. Unseen
      BY <1>9, <2>1, <2>5 DEF Score, Unseen
    <3>. QED
      BY <2>1, <3>1, UnseenStep
  <2>. QED
    BY <2>3, <2>4, <2>5
<1>10. CASE Finish
  <2>1. CASE gw = LastGW
    <3>1. Unseen /\ phase # "doubled" /\ phase' # "doubled"
      BY <1>10, <2>1 DEF Finish, Unseen, static, wallet
    <3>. QED
      BY <3>1, UnseenStep
  <2>2. CASE gw # LastGW
    BY <1>10, <2>2, WeekEnds DEF Game!Next
  <2>. QED
    BY <2>1, <2>2
<1>11. CASE UNCHANGED vars
  <2>1. UNCHANGED <<cfg, price, gw, made, hits, played>> /\ Kept' = Kept
        /\ (phase' = "doubled" <=> phase = "doubled") /\ Allowance' = Allowance
    BY <1>11 DEF vars, Kept, Allowance
  <2>2. (Opened' <=> Opened) /\ Squad(Kept.held)' = Squad(Kept.held)
    BY <2>1 DEF Opened, Squad
  <2>. QED
    BY <2>1, <2>2, Zenon DEF Game!vars
<1>. QED
  BY <1>1, <1>2, <1>3, <1>4, <1>5, <1>6, <1>7, <1>8, <1>9, <1>10, <1>11 DEF Next, Ended

(* Every season the replay plays, whatever its configuration and whatever  *)
(* the scores say, is one a manager could have played under the game's     *)
(* rules on squads, money, transfers, hits and chips: never with less      *)
(* money than the replay had, and with more where it sold at stale quotes. *)
THEOREM EverySeasonIsLegal == Spec => PlaysALegalSeason
<1>1. Init => Game!Init
  <2>. SUFFICES ASSUME Init PROVE Game!Init
    OBVIOUS
  <2>1. /\ phase # "doubled" /\ Kept.bought = [p \in Player |-> 0]
        /\ Kept.bank + Kept.short = Budget
    BY SeasonConstants DEF Init, Kept
  <2>2. ~Opened
    BY <2>1 DEF Opened
  <2>3. [cap |-> cfg.bankUpTo, sets |-> cfg.sets] \in GameRules
    BY DEF Init, GameRules
  <2>. QED
    BY <2>1, <2>2, <2>3 DEF Init, Game!Init
<1>2. SeasonInv /\ SeasonInv' /\ [Next]_vars => [Game!Next]_(Game!vars)
  BY GameStep
<1>. QED
  BY <1>1, <1>2, SeasonInvariant, PTL DEF Spec, PlaysALegalSeason, Game!Spec

(* Purchase prices follow the squad through every trade, a free hit and    *)
(* its return.                                                             *)
THEOREM SquadAndWallet == Spec => []SquadAndWalletAgree
<1>1. WalletTracksTheSquad /\ FreeHitHandsBack => SquadAndWalletAgree
  BY DEF SquadAndWalletAgree
<1>. QED
  BY <1>1, WalletIsExact, SquadComesBack, PTL

(* Every season keeps to the game's rules on chips, hits and free          *)
(* transfers.                                                              *)
THEOREM RulesAreKept == Spec => []KeepsTheRules
<1>1. OneChipAWeek /\ OnceOfAKind /\ NoPlannedChipIsDropped /\ HitsAreTheExcess /\ AllowanceAgrees
        => KeepsTheRules
  BY DEF KeepsTheRules
<1>. QED
  BY <1>1, OneChip, OnceInASet, PlannedChipsArePlayed, HitsAreExact, AllowancesAgree, PTL
=============================================================================

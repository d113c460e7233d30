------------------------------- MODULE Season -------------------------------
(***************************************************************************)
(* One replayed season (internal/backtest): a squad is bought, and in      *)
(* every later gameweek a chip rule, the wildcard, or the transfer search  *)
(* may change it, before the eleven is fielded and a scoring chip played.  *)
(* What a player or a rule is worth is left open: whatever the scores say, *)
(* the search may accept or decline any change the code would let it make. *)
(*                                                                         *)
(* A squad is a player for each slot.  A week is decided at the prices of  *)
(* the week before.  The oracles and the template-core overlay are left    *)
(* out: both are off unless an experiment sets them.                       *)
(***************************************************************************)
EXTENDS Integers, FiniteSets, FiniteSetsExt, Functions

CONSTANTS Player, Slot, Position,
          PlayerPos, SlotPos, Club, \* of a player, of a slot, the club of a player
          ClubCap,   \* MaxPerClub
          LastGW,    \* the code's 38
          ResetGW,   \* ChipResetGW
          MaxBanked, \* fpl.MaxBankedTransfers
          Market,    \* the price histories a season may have
          Budget, Entry, \* SimConfig.Budget, and the values of StartGW
          Config     \* the configurations replayed: see Configuration

Chip == {"wildcard", "freehit", "boost", "captain"}
Week == 1..LastGW

(* SimConfig, as far as it steers: the sets of chips the season grants,    *)
(* whether a planner answered with one plan or both sets were written out, *)
(* which chip rules are on, and the limits on transfers.                   *)
Configuration ==
  [sets : {1, 2}, planned : BOOLEAN, first : [Chip -> Nat], second : [Chip -> Nat],
   wildcard : {"off", "on", "firsthalf"}, freehit : BOOLEAN, boost : BOOLEAN,
   bankUpTo : Nat \ {0}, maxHits : Nat, hitCeiling : Nat, maxMoves : Nat,
   fundingSales : Nat, lookahead : BOOLEAN, unified : BOOLEAN]

ASSUME SeasonConstants ==
  /\ LastGW \in Nat \ {0} /\ ResetGW \in Nat \ {0} /\ MaxBanked \in Nat \ {0}
  /\ ClubCap \in Nat /\ Budget \in Nat /\ Entry \subseteq Week
  /\ PlayerPos \in [Player -> Position] /\ SlotPos \in [Slot -> Position]
  /\ Market \subseteq [Player -> [Week -> Nat \ {0}]]
  /\ Config \subseteq Configuration
  /\ IsFiniteSet(Slot) /\ Slot # {}

VARIABLES cfg, start, price,
          plan,         \* the schedule in force: a week per set and chip, 0 for none
          gw, phase,
          held,         \* the squad
          bank, bought, \* the wallet: money, and what each player cost (0: untracked)
          short,        \* history: what sales at a stale quote have lost
          free,         \* free transfers
          hits, left,   \* this week's hits, and the moves its search may still make
          made,         \* this week's transfers
          fired,        \* per chip, the gameweeks its rule played it in
          played,       \* the chips a week was actually scored under
          before,       \* the squad, the wallet and free as the week began
          ft            \* free transfers as internal/fpl reads them off the history

static == <<cfg, start, price>>
wallet == <<bank, bought, short>>
vars == <<cfg, start, price, plan, gw, phase, held, bank, bought, short, free, hits, left,
          made, fired, played, before, ft>>

Phase == {"entry", "triggers", "freehit", "decide", "unified", "pair", "single",
          "field", "boost", "score", "record", "refused", "failed", "doubled", "done"}

-----------------------------------------------------------------------------
(* Money.                                                                  *)

AtLeastOne(w) == IF w < 1 THEN 1 ELSE w

MarketPrice(p, w) == price[p][AtLeastOne(w)]

(* fpl.SellPrice: half of any rise is kept, rounded down.                  *)
SellPrice(paid, market) == IF market <= paid THEN market ELSE paid + (market - paid) \div 2

(* wallet.sellPrice.                                                       *)
Raises(paid, market) == IF paid = 0 THEN market ELSE SellPrice(paid, market)

Squad(h) == {h[s] : s \in Slot}

Buy(p) == MarketPrice(p, gw - 1)

(* What the squad raises, and the bank: wallet.value.                      *)
Worth(h, money, paid) ==
  money + SumFunctionOnSet([s \in Slot |-> Raises(paid[h[s]], Buy(h[s]))], Slot)

Cost(h) == SumFunctionOnSet([s \in Slot |-> Buy(h[s])], Slot)

(* What he raised as the week's decision began: the map decide takes.      *)
WeekQuote(p) == Raises(before.bought[p], Buy(p))

(* What the search believes a player raises: the market, for one bought    *)
(* since.                                                                  *)
Quoted(p) == IF p \in Squad(before.held) THEN WeekQuote(p) ELSE Buy(p)

(* Faulty: a sale settles at market.                                       *)
SaleAtMarket(p) == Buy(p)

(* settleSale: at the quote, or as the wallet prices it where there is     *)
(* none.  A wildcard sells before any quote is taken, at the same price.   *)
Sale(p) == IF p \in Squad(before.held) THEN WeekQuote(p) ELSE Raises(bought[p], Buy(p))

(* The quotes are not taken again within a week: a player sold, bought     *)
(* back and sold once more raises what he would have when it began, and    *)
(* not what he cost since.                                                 *)
Stale(p) == IF p \in Squad(before.held) THEN Raises(bought[p], Buy(p)) - WeekQuote(p) ELSE 0

Changed(next) == {s \in Slot : next[s] # held[s]}
Gone(next)    == {held[s] : s \in Changed(next)}
New(next)     == {next[s] : s \in Changed(next)}

(* Faulty: the wallet remembers what a player it sold cost.                *)
BoughtKeepingSales(next) ==
  [p \in Player |-> IF p \in New(next) THEN Buy(p) ELSE bought[p]]

BoughtAfter(next) ==
  [p \in Player |-> IF p \in New(next) THEN Buy(p)
                    ELSE IF p \in Gone(next) THEN 0 ELSE bought[p]]

(* Every leg sold and bought.                                              *)
Trade(next) ==
  /\ held' = next
  /\ bank' = bank + SumFunctionOnSet([s \in Slot |-> Sale(held[s]) - Buy(next[s])], Changed(next))
  /\ bought' = BoughtAfter(next)
  /\ short' = short + SumFunctionOnSet([s \in Slot |-> Stale(held[s])], Changed(next))
  /\ made' = made + Cardinality(Changed(next))

(* Every slot filled from its position.                                    *)
Lineup == {h \in [Slot -> Player] : \A s \in Slot : PlayerPos[h[s]] = SlotPos[s]}

(* No club has more than its share.                                        *)
WithinClubs(h) == \A p \in Squad(h) : Cardinality({s \in Slot : Club[h[s]] = Club[p]}) <= ClubCap

Different(h) == \A s, t \in Slot : h[s] = h[t] => s = t

(* What Optimize may answer.                                               *)
Fifteen == {h \in Lineup : WithinClubs(h) /\ Different(h)}

(* A rebuilt squad: who is kept keeps his slot.                            *)
Rebuilt == {h \in Fifteen : New(h) \cap Squad(held) = {}}

-----------------------------------------------------------------------------
(* Chips.                                                                  *)

NoChips == [k \in Chip |-> 0]

(* splitChipSets: a planner's weeks go to the sets they fall in, and a     *)
(* week past the season is dropped where there are two.                    *)
SplitChipSets(sets, p) ==
  IF sets < 2 THEN [s \in 1..2 |-> IF s = 1 THEN p ELSE NoChips]
  ELSE [s \in 1..2 |-> [k \in Chip |->
         IF (IF p[k] >= ResetGW THEN 2 ELSE 1) = s /\ p[k] <= LastGW THEN p[k] ELSE 0]]

(* The sets a configuration writes out, or its planner's.                  *)
Schedule(c) ==
  IF c.planned THEN SplitChipSets(c.sets, c.first)
  ELSE [s \in 1..2 |-> IF s = 1 THEN c.first ELSE c.second]

(* Each set within its own weeks.                                          *)
InTheirSets(sets, p) ==
  \A k \in Chip :
    /\ p[2][k] # 0 => sets >= 2 /\ p[2][k] >= ResetGW
    /\ sets >= 2 => p[1][k] < ResetGW

(* validateChipSets.                                                       *)
ValidChipSets(sets, p) ==
  /\ InTheirSets(sets, p)
  /\ \A s, t \in 1..2, k, l \in Chip :
       p[s][k] = p[t][l] /\ p[s][k] # 0 => s = t /\ k = l

PlannedFor(k, w) == \E s \in 1..2 : plan[s][k] = w

Plays(k, w) == PlannedFor(k, w) \/ w \in fired[k]

AnyPlays(w) == \E k \in Chip : Plays(k, w)

(* Faulty: the reset gameweek itself counts as the first set's.            *)
SetOfGWLate(w) == IF cfg.sets >= 2 /\ w > ResetGW THEN 2 ELSE 1

SetOfGW(w) == IF cfg.sets >= 2 /\ w >= ResetGW THEN 2 ELSE 1

(* No rule spent this chip in the set this week belongs to.                *)
Unspent(k, w) == \A v \in fired[k] : SetOfGW(v) # SetOfGW(w)

(* Faulty: a plan only blocks the rule until its own week is past.         *)
EligibleAfterPlan(k, w) ==
  Unspent(k, w) /\ (\A s \in 1..2 : plan[s][k] < w) /\ ~AnyPlays(w)

(* eligible: not fired in this set, planned nowhere in the season, and no  *)
(* other chip in this week.                                                *)
Eligible(k, w) ==
  Unspent(k, w) /\ (\A s \in 1..2 : plan[s][k] = 0) /\ ~AnyPlays(w)

(* consult: what the chip would be worth clears the bar, or does not.      *)
Consult(k, on) ==
  \E fires \in BOOLEAN :
    /\ fires => on /\ Eligible(k, gw)
    /\ fired' = IF fires THEN [fired EXCEPT ![k] = @ \cup {gw}] ELSE fired

WildcardOn ==
  cfg.wildcard # "off" /\ (cfg.wildcard = "firsthalf" => gw < ResetGW)

-----------------------------------------------------------------------------
(* Free transfers.                                                         *)

(* Faulty: nothing caps what is saved up.                                  *)
AccruedWithoutCap == free + 1

(* One more each week, up to what may be saved.                            *)
Accrued == IF free < cfg.bankUpTo THEN free + 1 ELSE free

HitCeiling == IF cfg.hitCeiling = 0 THEN 1 ELSE cfg.hitCeiling

(* The hits a week may take, however it spends its moves.                  *)
MostHits == IF cfg.maxHits > HitCeiling THEN HitCeiling ELSE cfg.maxHits

(* analysis.MoveLimit.                                                     *)
MoveLimit(allowance) ==
  IF cfg.maxMoves > 0 /\ cfg.maxMoves < allowance + MostHits
  THEN cfg.maxMoves ELSE allowance + MostHits

HitsNeeded(n) == IF free < n THEN n - free ELSE 0

(* The funding sales a search may use, beside the purchase they fund.      *)
MaxDowns ==
  IF cfg.fundingSales > 0 /\ cfg.fundingSales < left - 1 THEN cfg.fundingSales ELSE left - 1

(* fpl.FreeTransfers, one gameweek further: the first of a season is       *)
(* passed over, a wildcard or a free hit spends nothing.                   *)
ReadOff ==
  IF gw = 1 THEN ft
  ELSE LET kept == IF <<"wildcard", gw>> \in played \/ <<"freehit", gw>> \in played THEN ft
                   ELSE IF ft < made THEN 0 ELSE ft - made
       IN  IF kept < MaxBanked THEN kept + 1 ELSE MaxBanked

-----------------------------------------------------------------------------
Init ==
  /\ cfg \in Config /\ start \in Entry /\ price \in Market
  /\ plan = [s \in 1..2 |-> NoChips]
  /\ gw = start /\ phase = "entry"
  /\ held \in [Slot -> Player] /\ held = CHOOSE h \in [Slot -> Player] : TRUE
  /\ bank = Budget /\ bought = [p \in Player |-> 0] /\ short = 0
  /\ free = 1 /\ hits = 0 /\ left = 0 /\ made = 0
  /\ fired = [k \in Chip |-> {}] /\ played = {}
  /\ before = [held |-> held, bank |-> bank, bought |-> bought, short |-> short, free |-> free]
  /\ ft = 1

Snapshot ==
  before' = [held |-> held', bank |-> bank', bought |-> bought', short |-> short', free |-> free']

(* The plan is resolved and judged before anything is bought.              *)
Refuse ==
  /\ phase = "entry"
  /\ plan' = Schedule(cfg) /\ ~ValidChipSets(cfg.sets, plan')
  /\ phase' = "refused"
  /\ UNCHANGED <<static, gw, held, wallet, free, hits, left, made, fired, played, before, ft>>

(* The opening squad, at the prices shown before its first gameweek.  No   *)
(* decision is taken in that week: the squad was just bought.              *)
Open ==
  /\ phase = "entry"
  /\ plan' = Schedule(cfg) /\ ValidChipSets(cfg.sets, plan')
  /\ \E h \in Fifteen :
       /\ Cost(h) <= Budget
       /\ held' = h /\ bank' = Budget - Cost(h)
       /\ bought' = [p \in Player |-> IF p \in Squad(h) THEN Buy(p) ELSE 0]
  /\ phase' = "field"
  /\ UNCHANGED <<static, gw, short, free, hits, left, made, fired, played, ft>>
  /\ Snapshot

(* Optimize finds no squad, for the opening, a wildcard or a free hit.     *)
Fail ==
  /\ \/ phase = "entry" /\ ValidChipSets(cfg.sets, Schedule(cfg))
     \/ phase = "decide" /\ Plays("wildcard", gw)
     \/ phase = "field" /\ Plays("freehit", gw)
  /\ phase' = "failed"
  /\ UNCHANGED <<static, plan, gw, held, wallet, free, hits, left, made, fired, played,
                 before, ft>>

ConsultWildcard ==
  /\ phase = "triggers"
  /\ Consult("wildcard", WildcardOn)
  /\ phase' = "freehit"
  /\ UNCHANGED <<static, plan, gw, held, wallet, free, hits, left, made, played, before, ft>>

(* Asked only where the squad's clubs do not all play, which is left open. *)
ConsultFreeHit ==
  /\ phase = "freehit"
  /\ Consult("freehit", cfg.freehit)
  /\ phase' = "decide"
  /\ UNCHANGED <<static, plan, gw, held, wallet, free, hits, left, made, played, before, ft>>

(* playWildcard: any squad the money buys, no hits; the allowance grows.   *)
PlayWildcard ==
  /\ phase = "decide" /\ Plays("wildcard", gw)
  /\ \E next \in Rebuilt : Cost(next) <= Worth(held, bank, bought) /\ Trade(next)
  /\ free' = Accrued
  /\ played' = played \cup {<<"wildcard", gw>>}
  /\ phase' = "field"
  /\ UNCHANGED <<static, plan, gw, hits, left, fired, before, ft>>

(* A free hit hands the squad back, so nothing is bought for good.         *)
SitOut ==
  /\ phase = "decide" /\ ~Plays("wildcard", gw) /\ Plays("freehit", gw)
  /\ free' = Accrued
  /\ phase' = "field"
  /\ UNCHANGED <<static, plan, gw, held, wallet, hits, left, made, fired, played, before, ft>>

OrdinaryWeek ==
  phase = "decide" /\ ~Plays("wildcard", gw) /\ ~Plays("freehit", gw)

(* effectiveHorizon: there is a week left to wait for.                     *)
MayBank == cfg.lookahead /\ Accrued < cfg.bankUpTo /\ gw < LastGW

(* shouldBank: next week's package is worth more than this week's.         *)
Bank ==
  /\ OrdinaryWeek /\ MayBank
  /\ free' = Accrued
  /\ phase' = "field"
  /\ UNCHANGED <<static, plan, gw, held, wallet, hits, left, made, fired, played, before, ft>>

(* decide: the week's allowance, and the search that spends it.            *)
Decide ==
  /\ OrdinaryWeek
  /\ free' = Accrued
  /\ left' = MoveLimit(Accrued)
  /\ phase' = IF cfg.unified THEN "unified" ELSE IF left' >= 2 THEN "pair" ELSE "single"
  /\ UNCHANGED <<static, plan, gw, held, wallet, hits, made, fired, played, before, ft>>

(* unifiedDecide: the best squad within so many changes.  Who stays is     *)
(* budgeted at market, so the squad's worth cannot be overspent.           *)
Unify ==
  /\ phase = "unified" /\ left >= 1
  /\ \E next \in Rebuilt :
       LET n == Cardinality(Changed(next)) IN
       /\ n >= 1 /\ n <= left
       /\ Cost(next) <= Worth(held, bank, bought)
       /\ HitsNeeded(n) <= cfg.maxHits
       /\ Trade(next)
       /\ hits' = HitsNeeded(n) /\ free' = free - (n - HitsNeeded(n))
  /\ phase' = "field"
  /\ UNCHANGED <<static, plan, gw, left, fired, played, before, ft>>

(* What leaving the squad would raise for these slots, less the arrivals.  *)
Freed(next, slots) == SumFunctionOnSet([s \in Slot |-> Quoted(held[s]) - Buy(next[s])], slots)

(* The changed slots are filled with players the squad does not own by     *)
(* now: one it sold this week may come back in another's place.            *)
Arrivals(next) == WithinClubs(next) /\ New(next) \cap Squad(held) = {}

(* takeFundedPair: a purchase out of reach of one swap, and the sales that *)
(* pay for it, each of which frees money.  Nobody is bought both as the    *)
(* purchase and to fund it, but two sales may be for the same arrival: a   *)
(* season that then holds one player twice is not followed further.        *)
FundedPair ==
  /\ phase = "pair"
  /\ \E next \in Lineup, up \in Slot :
       LET n     == Cardinality(Changed(next))
           downs == Changed(next) \ {up}
       IN
       /\ up \in Changed(next) /\ Arrivals(next)
       /\ n - 1 \in 1..MaxDowns /\ n <= left
       /\ Freed(next, {up}) + bank < 0
       /\ \A s \in downs : Freed(next, {s}) > 0 /\ next[s] # next[up]
       /\ Freed(next, Changed(next)) + bank >= 0
       /\ HitsNeeded(n) <= HitCeiling
       /\ Trade(next)
       /\ hits' = hits + HitsNeeded(n) /\ free' = free - (n - HitsNeeded(n))
       /\ left' = left - n
       /\ phase' = IF Different(next) THEN "single" ELSE "doubled"
  /\ UNCHANGED <<static, plan, gw, fired, played, before, ft>>

NoPair ==
  /\ phase = "pair" /\ phase' = "single"
  /\ UNCHANGED <<static, plan, gw, held, wallet, free, hits, left, made, fired, played,
                 before, ft>>

(* One swap, the board read again after each: on a free transfer while     *)
(* there is one, on a hit after that.                                      *)
Swap ==
  /\ phase = "single" /\ left > 0
  /\ \E next \in Lineup :
       /\ Arrivals(next) /\ Cardinality(Changed(next)) = 1
       /\ Freed(next, Changed(next)) + bank >= 0
       /\ Trade(next)
  /\ \/ free > 0 /\ free' = free - 1 /\ hits' = hits
     \/ free = 0 /\ hits < cfg.maxHits /\ hits' = hits + 1 /\ free' = free
  /\ left' = left - 1
  /\ UNCHANGED <<static, plan, gw, phase, fired, played, before, ft>>

Rest ==
  /\ phase \in {"single", "unified"} /\ phase' = "field"
  /\ UNCHANGED <<static, plan, gw, held, wallet, free, hits, left, made, fired, played,
                 before, ft>>

-----------------------------------------------------------------------------
(* The week itself.                                                        *)

(* A free hit fields a squad the money would buy, and leaves what is held. *)
Field ==
  /\ phase = "field"
  /\ IF Plays("freehit", gw)
     THEN /\ \E h \in Fifteen : Cost(h) <= Worth(held, bank, bought)
          /\ played' = played \cup {<<"freehit", gw>>}
     ELSE UNCHANGED played
  /\ phase' = "boost"
  /\ UNCHANGED <<static, plan, gw, held, wallet, free, hits, left, made, fired, before, ft>>

(* Asked once the bench is known, and not in the entry week.               *)
ConsultBoost ==
  /\ phase = "boost"
  /\ Consult("boost", cfg.boost /\ gw > start)
  /\ phase' = "score"
  /\ UNCHANGED <<static, plan, gw, held, wallet, free, hits, left, made, played, before, ft>>

(* The bench boost is asked for first; a triple captain beside it is lost. *)
Score ==
  /\ phase = "score"
  /\ played' = played \cup (IF Plays("boost", gw) THEN {<<"boost", gw>>}
                            ELSE IF PlannedFor("captain", gw) THEN {<<"captain", gw>>}
                            ELSE {})
  /\ phase' = "record"
  /\ UNCHANGED <<static, plan, gw, held, wallet, free, hits, left, made, fired, before, ft>>

Finish ==
  /\ phase = "record"
  /\ ft' = ReadOff
  /\ IF gw = LastGW THEN phase' = "done" /\ gw' = gw /\ UNCHANGED <<hits, left, made, before>>
     ELSE /\ phase' = "triggers" /\ gw' = gw + 1
          /\ hits' = 0 /\ left' = 0 /\ made' = 0
          /\ before' = [held |-> held, bank |-> bank, bought |-> bought, short |-> short,
                       free |-> free]
  /\ UNCHANGED <<static, plan, held, wallet, free, fired, played>>

Ended == phase \in {"refused", "failed", "doubled", "done"} /\ UNCHANGED vars

Next ==
  \/ Refuse \/ Open \/ Fail
  \/ ConsultWildcard \/ ConsultFreeHit \/ PlayWildcard \/ SitOut
  \/ Bank \/ Decide \/ Unify \/ FundedPair \/ NoPair \/ Swap \/ Rest
  \/ Field \/ ConsultBoost \/ Score \/ Finish \/ Ended

Spec == Init /\ [][Next]_vars

-----------------------------------------------------------------------------
(* Properties.                                                             *)

(* The types, with the free transfers within what may be saved.            *)
TypeOK ==
  /\ cfg \in Config /\ start \in Entry /\ price \in Market
  /\ plan \in [1..2 -> [Chip -> Nat]]
  /\ gw \in start..LastGW /\ phase \in Phase
  /\ held \in [Slot -> Player] /\ bought \in [Player -> Nat]
  /\ short \in Int /\ free \in 0..cfg.bankUpTo /\ hits \in Nat /\ left \in Nat /\ made \in Nat
  /\ fired \in [Chip -> SUBSET (start..LastGW)]
  /\ played \subseteq Chip \X (start..LastGW)
  /\ before.held \in [Slot -> Player] /\ before.bought \in [Player -> Nat]
  /\ before.short \in Int /\ before.free \in 0..cfg.bankUpTo
  /\ ft \in 1..MaxBanked

Trading == {"unified", "pair", "single", "field", "boost", "score", "record", "done"}

(* The allowance this week's decision has.                                 *)
Allowance ==
  IF gw = start THEN 1 ELSE IF before.free < cfg.bankUpTo THEN before.free + 1 ELSE before.free

(* The bank is never overdrawn, whichever of the searches, the wildcard    *)
(* or the opening squad spent it: each has an affordability test of its    *)
(* own, and none is tested again when the wallet is settled.               *)
NeverOverdrawn == bank \in Nat

(* The wallet knows what was paid for exactly the players held, through    *)
(* swaps, funded pairs, rebuilds and wildcards: a price forgotten, or kept *)
(* for a player sold, would misprice his sale for the rest of the season   *)
(* (playWildcard's comment).                                               *)
WalletTracksTheSquad ==
  phase \in Trading \cup {"triggers", "freehit", "decide"} =>
    {p \in Player : bought[p] # 0} = Squad(held)

(* Trading raises no money: the squad's selling value and the bank are     *)
(* worth after the week's decision what they were before it, less what     *)
(* players bought back and sold again lost by their stale quotes.  The     *)
(* replay once sold at market and handed the policy money (wallet.go).     *)
TradingMakesNoMoney ==
  phase \in Trading =>
    /\ Worth(held, bank, bought) + short
         = Worth(before.held, before.bank, before.bought) + before.short
    /\ short >= before.short

(* However a week's moves were found, its hits are the transfers beyond    *)
(* the allowance and no more than the limits permit, and what is carried   *)
(* on is what was not spent; a wildcard or a free hit spends nothing.      *)
HitsAreTheExcess ==
  phase \in Trading =>
    IF Plays("wildcard", gw) \/ Plays("freehit", gw) THEN hits = 0 /\ free = Allowance
    ELSE /\ hits = IF made > Allowance THEN made - Allowance ELSE 0
         /\ free = IF Allowance > made THEN Allowance - made ELSE 0
         /\ hits <= MostHits

(* No chip is played twice in one set, by its plan, its rule or one of     *)
(* each: a rule once fired again after the plan's week (eligible).         *)
OnceOfAKind ==
  \A x, y \in played : x[1] = y[1] /\ SetOfGW(x[2]) = SetOfGW(y[2]) => x = y

(* Two chips are never played in one gameweek.                             *)
OneChipAWeek == \A x, y \in played : x[2] = y[2] => x = y

(* Every chip planned for a gameweek that is over was played in it: no     *)
(* rule's chip displaced it, nor the order of the scoring switch.  The     *)
(* exception is the code's own: a wildcard planned for the entry week,     *)
(* where no decision is taken, is dropped without a word.                  *)
NoPlannedChipIsDropped ==
  \A k \in Chip, w \in start..LastGW :
    (/\ phase \notin {"entry", "refused", "failed", "doubled"} /\ PlannedFor(k, w)
     /\ w < gw \/ phase = "done"
     /\ k = "wildcard" => w > start) => <<k, w>> \in played

(* The week after a free hit begins with the squad, the money and the      *)
(* purchase prices the week before it began with.                          *)
FreeHitHandsBack ==
  <<"freehit", gw>> \in played =>
    held = before.held /\ bank = before.bank /\ bought = before.bought /\ made = 0

(* The free transfers the replay decides with and those internal/fpl reads *)
(* off the same season's history are the same number, where as many may be *)
(* saved.  A season entered in its first gameweek is the exception: the    *)
(* replay earns a transfer there and the history does not, so the replay   *)
(* may have one more.                                                      *)
AllowanceAgrees ==
  phase = "triggers" /\ cfg.bankUpTo = MaxBanked =>
    IF start > 1 THEN ft = Accrued ELSE ft <= Accrued /\ Accrued <= ft + 1

(* What the tests of each path promise together: the bank pays for every   *)
(* change, and no change raises money.                                     *)
MoneyIsRight == NeverOverdrawn /\ TradingMakesNoMoney

(* The wallet and the squad go together, through every trade and through a *)
(* free hit and its return.                                                *)
SquadAndWalletAgree == WalletTracksTheSquad /\ FreeHitHandsBack

(* The chips, hits and free transfers of a season are those the game's     *)
(* rules allow, however plans, rules and searches meet in a week.          *)
KeepsTheRules ==
  OneChipAWeek /\ OnceOfAKind /\ NoPlannedChipIsDropped /\ HitsAreTheExcess /\ AllowanceAgrees

LegalSquads == {Squad(h) : h \in Fifteen}

GameRules == {[cap |-> c.bankUpTo, sets |-> c.sets] : c \in Config}

(* A season is followed to the trade that bought one player twice.         *)
Kept == IF phase = "doubled" THEN before
        ELSE [held |-> held, bank |-> bank, bought |-> bought, short |-> short, free |-> free]

Opened == \E p \in Player : Kept.bought[p] # 0

(* Every season the replay plays is one a manager could have played, with  *)
(* the money he would have where stale quotes lost the replay some.        *)
Game == INSTANCE FplGame WITH
  Squads    <- LegalSquads,
  Prices    <- Market,
  Rules     <- GameRules,
  rules     <- [cap |-> cfg.bankUpTo, sets |-> cfg.sets],
  week      <- IF Opened THEN gw ELSE 0,
  squad     <- IF Opened THEN Squad(Kept.held) ELSE {},
  paid      <- Kept.bought,
  bank      <- Kept.bank + Kept.short,
  allowance <- IF Opened THEN Allowance ELSE 0,
  made      <- IF phase = "doubled" THEN 0 ELSE made,
  hits      <- IF phase = "doubled" THEN 0 ELSE hits,
  used      <- played

PlaysALegalSeason == Game!Spec
=============================================================================

------------------------------ MODULE FplGame -------------------------------
(***************************************************************************)
(* Fantasy Premier League as a manager plays it, one season: what the      *)
(* rules let him do to his squad, his money, his free transfers and his    *)
(* chips, and nothing of how he decides.  A replay is only a result about  *)
(* the game if every season it plays is a behaviour of this module.        *)
(*                                                                         *)
(* A week's transactions are at the price shown before its deadline.       *)
(* Whether the season's first gameweek earns a free transfer is left open: *)
(* the replay and the reading of a manager's history differ on it.         *)
(***************************************************************************)
EXTENDS Integers, FiniteSets, FiniteSetsExt, Functions

CONSTANTS Player, Chip, LastGW, ResetGW,
          Squads, \* the sets of players that make a squad
          Prices, \* a price for each player and gameweek
          Budget,
          Rules   \* the most free transfers that may be saved, and the sets of chips

VARIABLES rules, price,
          week,        \* 0 before the manager enters
          squad, paid, \* who is held, and what each cost (0: not held)
          bank,
          allowance,   \* the free transfers the week began with
          made, hits,  \* transfers made this week, and those paid for in points
          used         \* the chips played, each with its gameweek

vars == <<rules, price, week, squad, paid, bank, allowance, made, hits, used>>

Init ==
  /\ rules \in Rules /\ price \in Prices
  /\ week = 0 /\ squad = {} /\ paid = [p \in Player |-> 0] /\ bank = Budget
  /\ allowance = 0 /\ made = 0 /\ hits = 0 /\ used = {}

Shown(p, w) == price[p][IF w = 1 THEN 1 ELSE w - 1]

(* Half of any rise is kept, rounded down; a fall is taken in full.        *)
Proceeds(p) ==
  LET now == Shown(p, week) IN
  IF now <= paid[p] THEN now ELSE paid[p] + (now - paid[p]) \div 2

Spent(players, w) == SumFunctionOnSet([p \in Player |-> Shown(p, w)], players)

Playing(chip) == <<chip, week>> \in used

SetOf(w) == IF rules.sets = 2 /\ w >= ResetGW THEN 2 ELSE 1

(* A chip is played once in each set, and no two in one gameweek.          *)
Available(chip) ==
  \A u \in used : u[2] # week /\ (u[1] = chip => SetOf(u[2]) # SetOf(week))

(* The manager may join in any gameweek.                                   *)
Enter ==
  /\ week = 0
  /\ \E w \in 1..LastGW, s \in Squads :
       /\ Spent(s, w) <= Budget
       /\ week' = w /\ squad' = s /\ bank' = Budget - Spent(s, w)
       /\ paid' = [p \in Player |-> IF p \in s THEN Shown(p, w) ELSE 0]
  /\ allowance' = 1
  /\ UNCHANGED <<rules, price, made, hits, used>>

(* Sales at what they raise, purchases at what is shown, never on credit.  *)
Exchange(s) ==
  /\ squad' = s
  /\ bank' = bank + SumFunctionOnSet([p \in Player |-> Proceeds(p)], squad \ s)
                  - Spent(s \ squad, week)
  /\ bank' >= 0
  /\ paid' = [p \in Player |-> IF p \in s \ squad THEN Shown(p, week)
                               ELSE IF p \in s THEN paid[p] ELSE 0]
  /\ made' = made + Cardinality(s \ squad)

(* Transfers beyond the allowance cost a hit each.                         *)
Transfers ==
  /\ week > 0 /\ ~Playing("freehit") /\ ~Playing("wildcard")
  /\ \E s \in Squads : Exchange(s)
  /\ hits' = IF made' > allowance THEN made' - allowance ELSE 0
  /\ UNCHANGED <<rules, price, week, allowance, used>>

Wildcard ==
  /\ week > 0 /\ made = 0 /\ Available("wildcard")
  /\ \E s \in Squads : Exchange(s)
  /\ used' = used \cup {<<"wildcard", week>>}
  /\ UNCHANGED <<rules, price, week, allowance, hits>>

(* A free hit is only played in a week without transfers.                  *)
Activate ==
  /\ week > 0
  /\ \E chip \in Chip \ {"wildcard"} :
       /\ Available(chip) /\ (chip = "freehit" => made = 0)
       /\ used' = used \cup {<<chip, week>>}
  /\ UNCHANGED <<rules, price, week, squad, paid, bank, allowance, made, hits>>

(* What is left is saved, and one is earned, up to the most that may be.   *)
(* A wildcard or a free hit spends none.                                   *)
Deadline ==
  /\ week > 0 /\ week < LastGW
  /\ \E earned \in {0, 1} :
       LET kept == IF Playing("wildcard") \/ Playing("freehit") THEN allowance
                   ELSE IF allowance > made THEN allowance - made ELSE 0
           next == kept + earned
       IN  /\ earned = 0 => week = 1
           /\ allowance' = IF next > rules.cap THEN rules.cap ELSE next
  /\ week' = week + 1 /\ made' = 0 /\ hits' = 0
  /\ UNCHANGED <<rules, price, squad, paid, bank, used>>

Next == Enter \/ Transfers \/ Wildcard \/ Activate \/ Deadline

Spec == Init /\ [][Next]_vars
=============================================================================

------------------------------ MODULE Planner -------------------------------
(***************************************************************************)
(* The squad page and its session: cmd/armband/session.go, webroutes.go,   *)
(* importteam.go and internal/webui/assets/static/app.js.                  *)
(*                                                                         *)
(* The reader's whole team is one cookie that every tab of the browser     *)
(* shares.  A page sends its own copy of it, PENDING, with each save; the  *)
(* answer is the document built from that session and replaces both the    *)
(* page's copy and the cookie.  The server keeps nothing, so a request is  *)
(* its cookie or its body, taken when it is sent and answered in one step. *)
(* What a lineup holds, chips and the transfer baseline are left out, and  *)
(* so is -persist, whose writes OverrideStore models.                      *)
(***************************************************************************)
EXTENDS Naturals, Sequences, FiniteSets

CONSTANTS Tab, Player, SquadSize,
          Team, Owned(_),      \* FPL entries and the fifteen each holds
          Barred,              \* players config.json excludes
          Seed,                \* what newSeed draws
          Optimum(_, _),       \* the optimiser under locks and blocks, or None
          Varied(_, _, _),     \* the same for a seed's variety
          authed,              \* whether requests carry the server's token
          Clicks,              \* the corrections, swaps and buttons readers use
          MaxClicks,           \* bound on what readers do
          None

Squad == {s \in SUBSET Player : Cardinality(s) = SquadSize}

Obeys(s, lock, block) == lock \subseteq s /\ s \cap block = {}

Click == [op : {"lock", "block"}, who : Player] \cup [op : {"optimise", "reset", "arrange"}]
         \cup [op : {"replace"}, out : Player, into : Player]

ASSUME PlannerConstants ==
  /\ SquadSize \in Nat \ {0} /\ MaxClicks \in Nat /\ Clicks \subseteq Click
  /\ Barred \subseteq Player /\ authed \in BOOLEAN
  /\ \A t \in Team : Owned(t) \in Squad
  /\ \A x \in Squad \cup Seed \cup Team : x # None
  /\ \A lock, block \in SUBSET Player :
       \A s \in {Optimum(lock, block)} \cup {Varied(seed, lock, block) : seed \in Seed} :
         s # None => s \in Squad /\ Obeys(s, lock, block)

VARIABLES jar,       \* the session cookie
          loading,   \* per tab: the cookie its GET /api/state was sent with, or None
          doc,       \* per tab: the document on screen, or None
          pending,   \* per tab: PENDING
          chain,     \* per tab: the saves waiting their turn
          saving,    \* per tab: the body of the PUT /api/session in flight, or None
          importing, \* per tab: the PUT /api/import in flight, with its cookie, or None
          inflight,  \* per tab: INFLIGHT
          busy,      \* per tab: whether body.saving is set
          thrown,    \* history: per tab, the saves whose mutation threw
          clicks,    \* how much the readers have done
          owner,     \* history: the tab whose document is the cookie's, or None
          meant,     \* history: per tab, the session its reader has asked for
          sure       \* history: whether nothing of the tab's failed or raced since

vars == <<jar, loading, doc, pending, chain, saving, importing, inflight, busy, thrown,
          clicks, owner, meant, sure>>

counts == <<inflight, busy, thrown>>

-----------------------------------------------------------------------------
(* The session.                                                            *)

Session == [seed : Seed \cup {None}, opt : BOOLEAN, squad : SUBSET Player,
            lock : SUBSET Player, excl : SUBSET Player, dis : SUBSET Player,
            entry : Team \cup {None}]

ASSUME NoneIsApart == None \notin Tab /\ None \notin Session

empty == [seed |-> None, opt |-> FALSE, squad |-> {}, lock |-> {}, excl |-> {}, dis |-> {},
          entry |-> None]

settled(s) == [s EXCEPT !.lock = @ \ s.dis, !.excl = @ \ s.dis]

(* Faulty: a duplicate is not looked for.                                  *)
AnyFifteen(s) == TRUE

validateSession(s) == s.squad = {} \/ s.squad \in Squad

(* applyTo, over forPlanner's copy of the config: the reader wins.         *)
Locked(s)  == s.lock \ s.excl
Blocked(s) == (Barred \ (s.dis \cup s.lock)) \cup s.excl

(* Faulty: the stored fifteen outranks the corrections.                    *)
StoredFirst(s) ==
  IF s.squad \in Squad THEN s.squad
  ELSE IF s.opt \/ s.seed = None THEN Optimum(Locked(s), Blocked(s))
  ELSE Varied(s.seed, Locked(s), Blocked(s))

(* buildSquadPage: the stored fifteen while it obeys the corrections, or a *)
(* new one; None where the optimiser finds none.                           *)
buildSquad(s) ==
  IF s.squad \in Squad /\ Obeys(s.squad, Locked(s), Blocked(s)) THEN s.squad
  ELSE IF s.opt \/ s.seed = None THEN Optimum(Locked(s), Blocked(s))
  ELSE Varied(s.seed, Locked(s), Blocked(s))

fromImport(s, team) ==
  [s EXCEPT !.squad = Owned(team), !.entry = team, !.opt = FALSE, !.seed = None]

-----------------------------------------------------------------------------
(* The mutations a page queues.                                            *)

(* Faulty: a new correction leaves its opposite where it is.               *)
AddOnly(p, kind, who) ==
  IF who \in (IF kind = "lock" THEN p.lock ELSE p.excl)
  THEN [p EXCEPT !.lock = @ \ {who}, !.excl = @ \ {who}, !.dis = @ \cup {who}]
  ELSE IF kind = "lock" THEN [p EXCEPT !.lock = @ \cup {who}]
  ELSE [p EXCEPT !.excl = @ \cup {who}]

toggleCorrection(p, kind, who) ==
  LET off == [p EXCEPT !.lock = @ \ {who}, !.excl = @ \ {who}, !.dis = @ \ {who}]
  IN  IF who \in (IF kind = "lock" THEN p.lock ELSE p.excl)
      THEN [off EXCEPT !.dis = @ \cup {who}]
      ELSE IF kind = "lock" THEN [off EXCEPT !.lock = @ \cup {who}]
      ELSE [off EXCEPT !.excl = @ \cup {who}]

optimise(p) == [p EXCEPT !.opt = TRUE, !.squad = {}]

reset(p) == [optimise(p) EXCEPT !.lock = {}, !.excl = {}]

replace(p, out, into) ==
  IF out \in p.squad THEN [p EXCEPT !.squad = (@ \ {out}) \cup {into}] ELSE p

(* saveArrangement writes the lineup, and leaves all else as it is.        *)
Mutated(p, c) ==
  IF c.op \in {"lock", "block"} THEN toggleCorrection(p, c.op, c.who)
  ELSE IF c.op = "replace" THEN replace(p, c.out, c.into)
  ELSE IF c.op = "reset" THEN reset(p)
  ELSE IF c.op = "optimise" THEN optimise(p) ELSE p

Idle(t) == chain[t] = <<>> /\ saving[t] = None

-----------------------------------------------------------------------------
Init ==
  /\ jar = empty
  /\ loading = [t \in Tab |-> None] /\ doc = [t \in Tab |-> None]
  /\ pending = [t \in Tab |-> empty]
  /\ chain = [t \in Tab |-> <<>>]
  /\ saving = [t \in Tab |-> None] /\ importing = [t \in Tab |-> None]
  /\ inflight = [t \in Tab |-> 0] /\ busy = [t \in Tab |-> FALSE] /\ thrown = [t \in Tab |-> 0]
  /\ clicks = 0
  /\ owner = None
  /\ meant = [t \in Tab |-> empty] /\ sure = [t \in Tab |-> FALSE]

Act == clicks < MaxClicks /\ clicks' = clicks + 1

(* A tab is opened or reloaded: its script starts over, and whatever it    *)
(* had in flight is aborted.                                               *)
Open(t) ==
  /\ Act
  /\ loading' = [loading EXCEPT ![t] = jar]
  /\ doc' = [doc EXCEPT ![t] = None]
  /\ chain' = [chain EXCEPT ![t] = <<>>]
  /\ saving' = [saving EXCEPT ![t] = None]
  /\ importing' = [importing EXCEPT ![t] = None]
  /\ inflight' = [inflight EXCEPT ![t] = 0]
  /\ busy' = [busy EXCEPT ![t] = FALSE]
  /\ thrown' = [thrown EXCEPT ![t] = 0]
  /\ pending' = [pending EXCEPT ![t] = empty]
  /\ meant' = [meant EXCEPT ![t] = empty]
  /\ sure' = [sure EXCEPT ![t] = FALSE]
  /\ UNCHANGED <<jar, owner>>

(* Faulty: the page keeps its own lists, and takes the fifteen alone.      *)
FifteenOnly(t, s, squad) ==
  /\ doc' = [doc EXCEPT ![t] = [s EXCEPT !.seed = None, !.squad = squad]]
  /\ pending' = [pending EXCEPT ![t].squad = squad]

(* hydrate rebuilds PENDING from the document.  The seed is not in it.     *)
hydrate(t, s, squad) ==
  LET p == [s EXCEPT !.seed = None, !.squad = squad]
  IN  /\ doc' = [doc EXCEPT ![t] = p]
      /\ pending' = [pending EXCEPT ![t] = p]

(* An answer that reaches the page, or whose cookie alone does.            *)
Answered(t, s) ==
  /\ hydrate(t, s, buildSquad(s))
  /\ owner' = t

Lost ==
  /\ owner' = IF jar' = jar THEN owner ELSE None
  /\ UNCHANGED <<doc, pending>>

(* GET /api/state mints a seed where there is none, and then writes the    *)
(* session it was sent with, whether or not the document can be built.     *)
Minted(s) ==
  IF authed /\ s.seed = None /\ ~s.opt THEN {[s EXCEPT !.seed = seed] : seed \in Seed} ELSE {s}

state(t) ==
  /\ loading[t] # None
  /\ \E s \in Minted(loading[t]) :
       /\ jar' = IF s # loading[t] THEN s ELSE jar
       /\ \/ /\ buildSquad(s) # None
             /\ hydrate(t, s, buildSquad(s))
             /\ owner' = IF s # loading[t] \/ loading[t] = jar THEN t ELSE owner
             /\ meant' = [meant EXCEPT ![t] = pending'[t]]
             /\ sure' = [sure EXCEPT ![t] = TRUE]
          \/ Lost /\ UNCHANGED <<meant, sure>>
  /\ loading' = [loading EXCEPT ![t] = None]
  /\ UNCHANGED <<chain, saving, importing, counts, clicks>>

LoadFails(t) ==
  /\ loading[t] # None
  /\ loading' = [loading EXCEPT ![t] = None]
  /\ UNCHANGED <<jar, doc, pending, chain, saving, importing, counts, clicks, owner, meant, sure>>

(* Faulty, as the page once was: nothing is queued while a save runs.      *)
saveUnlessBusy(t, c) ==
  /\ doc[t] # None /\ Act
  /\ c.op = "reset" => pending[t].entry = None
  /\ IF Idle(t) THEN /\ chain' = [chain EXCEPT ![t] = Append(@, c)]
                     /\ inflight' = [inflight EXCEPT ![t] = @ + 1]
     ELSE UNCHANGED <<chain, inflight>>
  /\ meant' = [meant EXCEPT ![t] = Mutated(@, c)]
  /\ UNCHANGED <<jar, loading, doc, pending, saving, importing, busy, thrown, owner, sure>>

(* save counts the mutation and queues it; it runs when its turn comes.    *)
(* Reset on a page with an imported team is an import.                     *)
save(t, c) ==
  /\ doc[t] # None /\ Act
  /\ c.op = "reset" => pending[t].entry = None
  /\ chain' = [chain EXCEPT ![t] = Append(@, c)]
  /\ inflight' = [inflight EXCEPT ![t] = @ + 1]
  /\ meant' = [meant EXCEPT ![t] = Mutated(@, c)]
  /\ UNCHANGED <<jar, loading, doc, pending, saving, importing, busy, thrown, owner, sure>>

sendSave(t) ==
  /\ chain[t] # <<>> /\ saving[t] = None
  /\ pending' = [pending EXCEPT ![t] = Mutated(@, Head(chain[t]))]
  /\ saving' = [saving EXCEPT ![t] = pending'[t]]
  /\ chain' = [chain EXCEPT ![t] = Tail(@)]
  /\ busy' = [busy EXCEPT ![t] = TRUE]
  /\ UNCHANGED <<jar, loading, doc, importing, inflight, thrown, clicks, owner, meant, sure>>

(* Faulty: save has no .catch, and a rejected CHAIN skips what waits in it. *)
SkipsTheRest(t) ==
  /\ chain[t] # <<>> /\ saving[t] = None /\ Head(chain[t]).op = "arrange"
  /\ chain' = [chain EXCEPT ![t] = <<>>]
  /\ thrown' = [thrown EXCEPT ![t] = @ + 1]
  /\ UNCHANGED <<jar, loading, doc, pending, saving, importing, inflight, busy, clicks,
                 owner, meant, sure>>

(* syncArrangement throws inside the mutation: sendSave gets no further,   *)
(* save's .catch keeps the chain, and INFLIGHT stays as save left it.      *)
Throws(t) ==
  /\ chain[t] # <<>> /\ saving[t] = None /\ Head(chain[t]).op = "arrange"
  /\ chain' = [chain EXCEPT ![t] = Tail(@)]
  /\ thrown' = [thrown EXCEPT ![t] = @ + 1]
  /\ UNCHANGED <<jar, loading, doc, pending, saving, importing, inflight, busy, clicks,
                 owner, meant, sure>>

(* sendSave's .finally.                                                    *)
Finally(t) ==
  /\ saving' = [saving EXCEPT ![t] = None]
  /\ inflight' = [inflight EXCEPT ![t] = @ - 1]
  /\ busy' = [busy EXCEPT ![t] = @ /\ inflight[t] # 1]
  /\ UNCHANGED thrown

Stored(t) == settled(saving[t])

Storable(t) == validateSession(Stored(t)) /\ buildSquad(Stored(t)) # None

saveSession(t) ==
  /\ saving[t] # None /\ Storable(t)
  /\ jar' = Stored(t)
  /\ Answered(t, Stored(t))
  /\ Finally(t)
  /\ IF sure[t] \/ chain[t] # <<>> THEN UNCHANGED <<meant, sure>>
     ELSE /\ meant' = [meant EXCEPT ![t] = pending'[t]]
          /\ sure' = [sure EXCEPT ![t] = importing[t] = None]
  /\ UNCHANGED <<loading, chain, importing, clicks>>

(* The server refuses the session or cannot build it, or the network loses *)
(* the request or the document.  The mutation stays in PENDING.            *)
SaveFails(t) ==
  /\ saving[t] # None
  /\ \/ UNCHANGED <<jar, owner>>
     \/ Storable(t) /\ jar' = Stored(t) /\ owner' = None
  /\ Finally(t)
  /\ sure' = [sure EXCEPT ![t] = FALSE]
  /\ UNCHANGED <<loading, doc, pending, chain, importing, clicks, meant>>

(* importTeam, outside the chain: the session is the one in the cookie.    *)
importTeam(t, team) ==
  /\ doc[t] # None /\ importing[t] = None /\ Act
  /\ importing' = [importing EXCEPT ![t] = [cookie |-> jar, team |-> team]]
  /\ sure' = [sure EXCEPT ![t] = FALSE]
  /\ UNCHANGED <<jar, loading, doc, pending, chain, saving, counts, owner, meant>>

Imported(t) ==
  /\ importing[t] # None
  /\ LET s == fromImport(importing[t].cookie, importing[t].team)
     IN  /\ buildSquad(s) # None
         /\ jar' = s
         /\ Answered(t, s) \/ Lost
  /\ importing' = [importing EXCEPT ![t] = None]
  /\ UNCHANGED <<loading, chain, saving, counts, clicks, meant, sure>>

ImportFails(t) ==
  /\ importing[t] # None
  /\ importing' = [importing EXCEPT ![t] = None]
  /\ UNCHANGED <<jar, loading, doc, pending, chain, saving, counts, clicks, owner, meant, sure>>

Arrives(t) == state(t) \/ LoadFails(t)
Runs(t)    == sendSave(t) \/ Throws(t)
Settles(t) == saveSession(t) \/ SaveFails(t)

Next ==
  \E t \in Tab :
    \/ Open(t) \/ Arrives(t) \/ Runs(t) \/ Settles(t) \/ Imported(t) \/ ImportFails(t)
    \/ \E c \in Clicks : save(t, c)
    \/ \E team \in Team : importTeam(t, team)

(* The page runs what is queued, and a fetch is answered or rejected.      *)
Fairness == \A t \in Tab : WF_vars(Runs(t)) /\ WF_vars(Settles(t))

Spec == Init /\ [][Next]_vars /\ Fairness

-----------------------------------------------------------------------------
TypeOK ==
  /\ jar \in Session /\ jar.squad \in Squad \cup {{}}
  /\ loading \in [Tab -> Session \cup {None}] /\ doc \in [Tab -> Session \cup {None}]
  /\ pending \in [Tab -> Session] /\ saving \in [Tab -> Session \cup {None}]
  /\ chain \in [Tab -> Seq(Clicks)]
  /\ importing \in [Tab -> [cookie : Session, team : Team] \cup {None}]
  /\ inflight \in [Tab -> Nat] /\ busy \in [Tab -> BOOLEAN] /\ thrown \in [Tab -> Nat]
  /\ clicks \in 0..MaxClicks /\ owner \in Tab \cup {None}
  /\ meant \in [Tab -> Session] /\ sure \in [Tab -> BOOLEAN]

Corrections(s) == [lock |-> s.lock, excl |-> s.excl, dis |-> s.dis]

(* The comment on toggleCorrection: lock and block are mutually exclusive, *)
(* and a dismissed code is in neither list, in the cookie and on every     *)
(* page, over imports, other tabs and failures.                            *)
Exclusive == \A s \in {jar} \cup {pending[t] : t \in Tab} : s.lock \cap s.excl = {}
Settled   == jar.lock \cap jar.dis = {} /\ jar.excl \cap jar.dis = {}
OneStandingPerPlayer == Exclusive /\ Settled

(* buildSquadPage: a block means never picked and a lock means in every    *)
(* squad, so the fifteen on a page obeys the corrections drawn beside it.  *)
ShownObeys ==
  \A t \in Tab : doc[t] # None => Obeys(doc[t].squad, Locked(doc[t]), Blocked(doc[t]))

(* save's comment: saves run one at a time, in the order they were asked   *)
(* for, and none is dropped.  Once a tab is idle, the cookie holds what    *)
(* its reader clicked, in order, unless a request of his failed, he        *)
(* imported meanwhile, or another tab wrote.                               *)
NoneIsDropped ==
  \A t \in Tab : owner = t /\ sure[t] /\ Idle(t) => Corrections(jar) = Corrections(meant[t])

(* PENDING's comment: hydrate rebuilds it from the document, never from    *)
(* the page's memory.  An idle page whose document is the cookie's will    *)
(* save the session that is stored, with the fifteen it shows.             *)
PageIsStored ==
  \A t \in Tab : owner = t /\ Idle(t) /\ sure[t] =>
    /\ pending[t] = doc[t]
    /\ Corrections(doc[t]) = Corrections(jar) /\ doc[t].entry = jar.entry /\ doc[t].opt = jar.opt

(* save's .catch and INFLIGHT's comment: whatever is refused, lost or      *)
(* thrown, every save that was asked for gets its turn, and when none is   *)
(* left INFLIGHT has counted them all out and the controls are the         *)
(* reader's again, but for a save whose own mutation threw: that one is    *)
(* never sent or counted out, and may leave the page marked busy.          *)
CountedOut(t)    == inflight[t] = thrown[t] /\ (busy[t] => thrown[t] > 0)
EverySaveSettles == \A t \in Tab : chain[t] # <<>> ~> Idle(t) /\ CountedOut(t)

(* state's comment, cmd/armband/webroutes.go: the first GET mints a seed   *)
(* "and every later GET is a pure read": one sent with a cookie that holds *)
(* a session already never undoes a correction a save has stored.          *)
ReadsArePure ==
  [][\A t \in Tab : loading[t] # empty /\ state(t) => Corrections(jar') = Corrections(jar)]_vars

-----------------------------------------------------------------------------
(* What makes OneStandingPerPlayer and ShownObeys inductive: every copy of *)
(* the session, wherever it is on its way, has its lists apart.            *)
Proper(s) == s.lock \cap s.excl = {} /\ s.lock \cap s.dis = {} /\ s.excl \cap s.dis = {}

CopiesInv ==
  /\ Proper(jar)
  /\ \A t \in Tab :
       /\ Proper(pending[t])
       /\ loading[t] # None => Proper(loading[t]) /\ loading[t].squad \in Squad \cup {{}}
       /\ saving[t] # None => Proper(saving[t])
       /\ importing[t] # None => Proper(importing[t].cookie)

(* INFLIGHT counts the saves that wait, the one in flight and those that   *)
(* threw, and a page marked busy has one to wait for.                      *)
Counted(t) ==
  /\ inflight[t] = Len(chain[t]) + (IF saving[t] = None THEN 0 ELSE 1) + thrown[t]
  /\ busy[t] => inflight[t] > 0

CountInv == \A t \in Tab : Counted(t)

PlannerInv == TypeOK /\ CopiesInv /\ ShownObeys /\ CountInv
=============================================================================

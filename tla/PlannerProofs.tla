--------------------------- MODULE PlannerProofs ----------------------------
(***************************************************************************)
(* Theorems about Planner for every set of tabs and players, every squad   *)
(* size and every optimiser that obeys the corrections it is given.        *)
(***************************************************************************)
EXTENDS Planner, TLAPS

-----------------------------------------------------------------------------
(* Every click keeps a page's lists apart.                                 *)
LEMMA ToggleKeeps ==
  ASSUME NEW p \in Session, NEW kind \in {"lock", "block"}, NEW who \in Player
  PROVE  /\ toggleCorrection(p, kind, who) \in Session
         /\ Proper(p) => Proper(toggleCorrection(p, kind, who))
<1>. DEFINE off == [p EXCEPT !.lock = @ \ {who}, !.excl = @ \ {who}, !.dis = @ \ {who}]
<1>1. /\ off \in Session
      /\ off.lock = p.lock \ {who} /\ off.excl = p.excl \ {who} /\ off.dis = p.dis \ {who}
  BY DEF Session
<1>2. toggleCorrection(p, kind, who) \in
        {[off EXCEPT !.dis = @ \cup {who}], [off EXCEPT !.lock = @ \cup {who}], [off EXCEPT !.excl = @ \cup {who}]}
  BY DEF toggleCorrection
<1>. HIDE DEF off
<1>3. ASSUME NEW s \in {[off EXCEPT !.dis = @ \cup {who}], [off EXCEPT !.lock = @ \cup {who}],
                        [off EXCEPT !.excl = @ \cup {who}]}
      PROVE  s \in Session /\ (Proper(p) => Proper(s))
  <2>1. CASE s = [off EXCEPT !.dis = @ \cup {who}]
    BY <1>1, <2>1 DEF Session, Proper
  <2>2. CASE s = [off EXCEPT !.lock = @ \cup {who}]
    BY <1>1, <2>2 DEF Session, Proper
  <2>3. CASE s = [off EXCEPT !.excl = @ \cup {who}]
    BY <1>1, <2>3 DEF Session, Proper
  <2>. QED
    BY <1>3, <2>1, <2>2, <2>3
<1>. QED
  BY <1>2, <1>3

LEMMA MutatedKeeps ==
  ASSUME NEW p \in Session, NEW c \in Clicks
  PROVE  Mutated(p, c) \in Session /\ (Proper(p) => Proper(Mutated(p, c)))
<1>1. c \in Click
  BY PlannerConstants
<1>2. CASE c \in [op : {"lock", "block"}, who : Player]
  <2>1. c.op \in {"lock", "block"} /\ c.who \in Player
    BY <1>2
  <2>. QED
    BY <2>1, ToggleKeeps DEF Mutated
<1>3. CASE c \in [op : {"optimise", "reset", "arrange"}]
  <2>1. c.op \in {"optimise", "reset", "arrange"}
    BY <1>3
  <2>. QED
    BY <2>1 DEF Mutated, optimise, reset, Session, Proper
<1>4. CASE c \in [op : {"replace"}, out : Player, into : Player]
  <2>1. c.op = "replace" /\ c.into \in Player
    BY <1>4
  <2>. QED
    BY <2>1 DEF Mutated, replace, Session, Proper
<1>. QED
  BY <1>1, <1>2, <1>3, <1>4 DEF Click

LEMMA SettledKeeps ==
  ASSUME NEW s \in Session, Proper(s)
  PROVE  settled(s) \in Session /\ Proper(settled(s))
  BY DEF settled, Session, Proper

(* An import keeps the corrections and brings a legal fifteen.             *)
LEMMA ImportKeeps ==
  ASSUME NEW s \in Session, Proper(s), NEW team \in Team
  PROVE  /\ fromImport(s, team) \in Session
         /\ Proper(fromImport(s, team))
         /\ fromImport(s, team).squad \in Squad
<1>1. Owned(team) \in Squad /\ Owned(team) \in SUBSET Player
  BY PlannerConstants DEF Squad
<1>. QED
  BY <1>1 DEF fromImport, Session, Proper

(* Whatever a session holds, the fifteen built from it obeys it.           *)
LEMMA BuiltObeys ==
  ASSUME NEW s \in Session, buildSquad(s) # None
  PROVE  buildSquad(s) \in Squad /\ Obeys(buildSquad(s), Locked(s), Blocked(s))
<1>1. Locked(s) \in SUBSET Player /\ Blocked(s) \in SUBSET Player
  BY PlannerConstants DEF Session, Locked, Blocked
<1>2. CASE s.squad \in Squad /\ Obeys(s.squad, Locked(s), Blocked(s))
  BY <1>2 DEF buildSquad
<1>3. CASE ~(s.squad \in Squad /\ Obeys(s.squad, Locked(s), Blocked(s)))
  <2>1. CASE s.opt \/ s.seed = None
    <3>1. buildSquad(s) = Optimum(Locked(s), Blocked(s))
      BY <1>3, <2>1 DEF buildSquad
    <3>. QED
      BY <1>1, <3>1, PlannerConstants
  <2>2. CASE ~(s.opt \/ s.seed = None)
    <3>1. buildSquad(s) = Varied(s.seed, Locked(s), Blocked(s))
      BY <1>3, <2>2 DEF buildSquad
    <3>2. s.seed \in Seed
      BY <2>2 DEF Session
    <3>. QED
      BY <1>1, <3>1, <3>2, PlannerConstants
  <2>. QED
    BY <2>1, <2>2
<1>. QED
  BY <1>2, <1>3

(* A document drawn from a proper session is one, and is obeyed.           *)
LEMMA Hydrated ==
  ASSUME NEW s \in Session, Proper(s), buildSquad(s) # None,
         NEW p, p = [s EXCEPT !.seed = None, !.squad = buildSquad(s)]
  PROVE  p \in Session /\ Proper(p) /\ Obeys(p.squad, Locked(p), Blocked(p))
<1>1. buildSquad(s) \in Squad /\ Obeys(buildSquad(s), Locked(s), Blocked(s))
  BY BuiltObeys
<1>2. buildSquad(s) \in SUBSET Player
  BY <1>1 DEF Squad
<1>3. p \in Session /\ p.squad = buildSquad(s) /\ Proper(p)
  BY <1>2 DEF Session, Proper
<1>4. Locked(p) = Locked(s) /\ Blocked(p) = Blocked(s)
  BY DEF Session, Locked, Blocked
<1>. QED
  BY <1>1, <1>3, <1>4

-----------------------------------------------------------------------------
LEMMA HydrateInv ==
  ASSUME PlannerInv, NEW t \in Tab, NEW s \in Session, Proper(s),
         buildSquad(s) # None, hydrate(t, s, buildSquad(s))
  PROVE  /\ doc' \in [Tab -> Session \cup {None}] /\ pending' \in [Tab -> Session]
         /\ \A u \in Tab : Proper(pending'[u])
         /\ ShownObeys'
<1>. DEFINE p == [s EXCEPT !.seed = None, !.squad = buildSquad(s)]
<1>1. p \in Session /\ Proper(p) /\ Obeys(p.squad, Locked(p), Blocked(p))
  BY Hydrated
<1>2. doc' = [doc EXCEPT ![t] = p] /\ pending' = [pending EXCEPT ![t] = p]
  BY DEF hydrate
<1>. HIDE DEF p
<1>3. doc' \in [Tab -> Session \cup {None}] /\ pending' \in [Tab -> Session]
  BY <1>1, <1>2 DEF PlannerInv, TypeOK
<1>4. \A u \in Tab : pending'[u] = IF u = t THEN p ELSE pending[u]
  BY <1>2 DEF PlannerInv, TypeOK
<1>5. \A u \in Tab : doc'[u] = IF u = t THEN p ELSE doc[u]
  BY <1>2 DEF PlannerInv, TypeOK
<1>6. \A u \in Tab : Proper(pending'[u])
  BY <1>1, <1>4 DEF PlannerInv, CopiesInv
<1>7. ShownObeys'
  <2>. SUFFICES ASSUME NEW u \in Tab, doc'[u] # None
                PROVE  Obeys(doc'[u].squad, Locked(doc'[u]), Blocked(doc'[u]))
    BY DEF ShownObeys, Obeys, Locked, Blocked
  <2>1. CASE u = t
    BY <1>1, <1>5, <2>1
  <2>2. CASE u # t
    BY <1>5, <2>2 DEF PlannerInv, ShownObeys
  <2>. QED
    BY <2>1, <2>2
<1>. QED
  BY <1>3, <1>6, <1>7

(* What is stored for a save that is answered.                             *)
LEMMA StoredKeeps ==
  ASSUME PlannerInv, NEW t \in Tab, saving[t] # None, Storable(t)
  PROVE  /\ Stored(t) \in Session /\ Proper(Stored(t))
         /\ Stored(t).squad \in Squad \cup {{}} /\ buildSquad(Stored(t)) # None
<1>1. saving[t] \in Session /\ Proper(saving[t])
  BY DEF PlannerInv, TypeOK, CopiesInv
<1>2. Stored(t) \in Session /\ Proper(Stored(t))
  BY <1>1, SettledKeeps DEF Stored
<1>. QED
  BY <1>2 DEF Storable, validateSession

LEMMA MintedKeeps ==
  ASSUME NEW s \in Session, Proper(s), s.squad \in Squad \cup {{}}, NEW r \in Minted(s)
  PROVE  r \in Session /\ Proper(r) /\ r.squad \in Squad \cup {{}}
<1>1. CASE r = s
  BY <1>1
<1>2. CASE \E seed \in Seed : r = [s EXCEPT !.seed = seed]
  <2>1. PICK seed \in Seed : r = [s EXCEPT !.seed = seed]
    BY <1>2
  <2>2. r \in Session /\ r.squad = s.squad
    BY <2>1 DEF Session
  <2>3. r.lock = s.lock /\ r.excl = s.excl /\ r.dis = s.dis
    BY <2>1 DEF Session
  <2>. QED
    BY <2>2, <2>3 DEF Proper
<1>. QED
  BY <1>1, <1>2 DEF Minted

-----------------------------------------------------------------------------
LEMMA EmptyIsProper == empty \in Session /\ Proper(empty) /\ empty.squad = {}
  BY DEF empty, Session, Proper

LEMMA InitCount == Init => CountInv
  BY DEF Init, CountInv, Counted

(* Where a tab's queue and its counts stay as they are, so does the sum.   *)
LEMMA SameCount ==
  ASSUME CountInv, UNCHANGED <<chain, saving, counts>> PROVE CountInv'
  BY DEF CountInv, Counted, counts

(* What one tab does is counted in that tab alone.                         *)
LEMMA OneTabCounts ==
  ASSUME PlannerInv, NEW t \in Tab, Counted(t)',
         \A u \in Tab : u # t => /\ chain'[u] = chain[u] /\ saving'[u] = saving[u]
                                /\ inflight'[u] = inflight[u] /\ busy'[u] = busy[u]
                                /\ thrown'[u] = thrown[u]
  PROVE  CountInv'
<1>1. ASSUME NEW u \in Tab PROVE Counted(u)'
  <2>1. CASE u = t
    BY <2>1
  <2>2. CASE u # t
    BY <2>2 DEF PlannerInv, CountInv, Counted
  <2>. QED
    BY <2>1, <2>2
<1>. QED
  BY <1>1 DEF CountInv

(* The counts of a tab are numbers, and they add up.                       *)
LEMMA CountsOf ==
  ASSUME PlannerInv, NEW t \in Tab
  PROVE  /\ Len(chain[t]) \in Nat /\ inflight[t] \in Nat /\ thrown[t] \in Nat
         /\ saving[t] = None => inflight[t] = Len(chain[t]) + thrown[t]
         /\ saving[t] # None => inflight[t] = Len(chain[t]) + 1 + thrown[t]
         /\ busy[t] => inflight[t] > 0
<1>1. chain[t] \in Seq(Clicks) /\ inflight[t] \in Nat /\ thrown[t] \in Nat
  BY DEF PlannerInv, TypeOK
<1>2. Len(chain[t]) \in Nat
  BY <1>1
<1>3. /\ inflight[t] = Len(chain[t]) + (IF saving[t] = None THEN 0 ELSE 1) + thrown[t]
      /\ busy[t] => inflight[t] > 0
  BY DEF PlannerInv, CountInv, Counted
<1>4. saving[t] = None => inflight[t] = Len(chain[t]) + thrown[t]
  <2>. SUFFICES ASSUME saving[t] = None PROVE inflight[t] = Len(chain[t]) + thrown[t]
    OBVIOUS
  <2>1. (IF saving[t] = None THEN 0 ELSE 1) = 0
    OBVIOUS
  <2>. QED
    BY <1>1, <1>2, <1>3, <2>1
<1>5. saving[t] # None => inflight[t] = Len(chain[t]) + 1 + thrown[t]
  BY <1>1, <1>2, <1>3
<1>. QED
  BY <1>1, <1>2, <1>3, <1>4, <1>5

LEMMA InitInv == Init => PlannerInv
<1>. SUFFICES ASSUME Init PROVE PlannerInv
  OBVIOUS
<1>1. TypeOK
  BY EmptyIsProper, PlannerConstants DEF Init, TypeOK
<1>2. CopiesInv
  BY EmptyIsProper DEF Init, CopiesInv
<1>3. ShownObeys
  BY DEF Init, ShownObeys
<1>. QED
  BY <1>1, <1>2, <1>3, InitCount DEF PlannerInv

LEMMA OpenInv ==
  ASSUME PlannerInv, NEW t \in Tab, Open(t) PROVE PlannerInv'
<1>1. TypeOK'
  BY EmptyIsProper, PlannerConstants DEF PlannerInv, TypeOK, Open, Act
<1>2. CopiesInv'
  BY EmptyIsProper DEF PlannerInv, TypeOK, CopiesInv, Open
<1>3. ShownObeys'
  BY DEF PlannerInv, TypeOK, ShownObeys, Open
<1>4. CountInv'
  <2>1. /\ chain'[t] = <<>> /\ saving'[t] = None /\ inflight'[t] = 0 /\ thrown'[t] = 0 /\ ~busy'[t]
    BY DEF PlannerInv, TypeOK, Open
  <2>2. Counted(t)'
    BY <2>1 DEF Counted
  <2>. QED
    BY <2>2, OneTabCounts DEF PlannerInv, TypeOK, Open
<1>. QED
  BY <1>1, <1>2, <1>3, <1>4 DEF PlannerInv

LEMMA stateInv ==
  ASSUME PlannerInv, NEW t \in Tab, state(t) PROVE PlannerInv'
<1>0. loading[t] \in Session /\ Proper(loading[t]) /\ loading[t].squad \in Squad \cup {{}}
  BY DEF PlannerInv, TypeOK, CopiesInv, state
<1>1. PICK s \in Minted(loading[t]) :
        /\ jar' = IF s # loading[t] THEN s ELSE jar
        /\ \/ /\ buildSquad(s) # None
              /\ hydrate(t, s, buildSquad(s))
              /\ owner' = IF s # loading[t] \/ loading[t] = jar THEN t ELSE owner
              /\ meant' = [meant EXCEPT ![t] = pending'[t]]
              /\ sure' = [sure EXCEPT ![t] = TRUE]
           \/ Lost /\ UNCHANGED <<meant, sure>>
  BY DEF state
<1>2. s \in Session /\ Proper(s) /\ s.squad \in Squad \cup {{}}
  BY <1>0, MintedKeeps
<1>3. /\ loading' = [loading EXCEPT ![t] = None]
      /\ UNCHANGED <<chain, saving, importing, counts, clicks>>
  BY DEF state
<1>4. /\ doc' \in [Tab -> Session \cup {None}] /\ pending' \in [Tab -> Session]
      /\ \A u \in Tab : Proper(pending'[u])
      /\ ShownObeys'
      /\ meant' \in [Tab -> Session] /\ sure' \in [Tab -> BOOLEAN]
  <2>1. CASE buildSquad(s) # None /\ hydrate(t, s, buildSquad(s))
             /\ meant' = [meant EXCEPT ![t] = pending'[t]] /\ sure' = [sure EXCEPT ![t] = TRUE]
    <3>1. /\ doc' \in [Tab -> Session \cup {None}] /\ pending' \in [Tab -> Session]
          /\ \A u \in Tab : Proper(pending'[u])
          /\ ShownObeys'
      BY <1>2, <2>1, HydrateInv
    <3>. QED
      BY <2>1, <3>1 DEF PlannerInv, TypeOK
  <2>2. CASE Lost /\ UNCHANGED <<meant, sure>>
    BY <2>2 DEF Lost, PlannerInv, TypeOK, CopiesInv, ShownObeys
  <2>. QED
    BY <1>1, <2>1, <2>2
<1>5. jar' \in Session /\ Proper(jar') /\ jar'.squad \in Squad \cup {{}}
  BY <1>1, <1>2 DEF PlannerInv, TypeOK, CopiesInv
<1>6. owner' \in Tab \cup {None}
  BY <1>1 DEF Lost, PlannerInv, TypeOK
<1>7. TypeOK'
  BY <1>3, <1>4, <1>5, <1>6 DEF PlannerInv, TypeOK, counts
<1>8. CopiesInv'
  BY <1>3, <1>4, <1>5 DEF PlannerInv, TypeOK, CopiesInv
<1>. QED
  BY <1>3, <1>4, <1>7, <1>8, SameCount DEF PlannerInv

LEMMA saveInv ==
  ASSUME PlannerInv, NEW t \in Tab, NEW c \in Clicks, save(t, c) PROVE PlannerInv'
<1>1. Mutated(meant[t], c) \in Session
  BY MutatedKeeps DEF PlannerInv, TypeOK
<1>2. meant' \in [Tab -> Session]
  BY <1>1 DEF PlannerInv, TypeOK, save
<1>3. chain[t] \in Seq(Clicks) /\ Append(chain[t], c) \in Seq(Clicks)
  BY DEF PlannerInv, TypeOK
<1>4. chain' \in [Tab -> Seq(Clicks)]
  BY <1>3 DEF PlannerInv, TypeOK, save
<1>5. TypeOK'
  BY <1>2, <1>4, PlannerConstants DEF PlannerInv, TypeOK, save, Act
<1>6. CopiesInv' /\ ShownObeys'
  BY DEF PlannerInv, CopiesInv, ShownObeys, save
<1>7. CountInv'
  <2>1. Len(Append(chain[t], c)) = Len(chain[t]) + 1 /\ Len(chain[t]) \in Nat
    BY <1>3
  <2>2. /\ chain'[t] = Append(chain[t], c) /\ inflight'[t] = inflight[t] + 1
        /\ UNCHANGED <<saving, busy, thrown>>
    BY DEF PlannerInv, TypeOK, save
  <2>3. inflight'[t] \in Nat /\ inflight'[t] > 0 /\ Len(chain'[t]) = Len(chain[t]) + 1
    BY <2>1, <2>2, CountsOf
  <2>4. Counted(t)'
    <3>1. CASE saving[t] = None
      <4>1. inflight'[t] = Len(chain'[t]) + 0 + thrown'[t]
        BY <2>2, <2>3, <3>1, CountsOf
      <4>. QED
        BY <2>2, <2>3, <3>1, <4>1 DEF Counted
    <3>2. CASE saving[t] # None
      <4>1. inflight'[t] = Len(chain'[t]) + 1 + thrown'[t]
        <5>1. inflight[t] = Len(chain[t]) + 1 + thrown[t] /\ thrown[t] \in Nat
          BY <3>2, CountsOf
        <5>2. inflight'[t] = inflight[t] + 1 /\ thrown'[t] = thrown[t]
          BY <2>2
        <5>. QED
          BY <2>1, <2>3, <5>1, <5>2
      <4>. QED
        BY <2>2, <2>3, <3>2, <4>1 DEF Counted
    <3>. QED
      BY <3>1, <3>2
  <2>. QED
    BY <2>2, <2>4, OneTabCounts DEF PlannerInv, TypeOK, save
<1>. QED
  BY <1>5, <1>6, <1>7 DEF PlannerInv

(* The head of a queue leaves it.                                          *)
LEMMA TailCount ==
  ASSUME NEW queue \in Seq(Clicks), queue # <<>>
  PROVE  /\ Head(queue) \in Clicks /\ Tail(queue) \in Seq(Clicks)
         /\ Len(queue) \in Nat /\ Len(Tail(queue)) = Len(queue) - 1
  OBVIOUS

LEMMA ThrowsInv ==
  ASSUME PlannerInv, NEW t \in Tab, Throws(t) PROVE PlannerInv'
<1>1. chain[t] \in Seq(Clicks) /\ chain[t] # <<>>
  BY DEF PlannerInv, TypeOK, Throws
<1>2. TypeOK'
  BY <1>1, TailCount DEF PlannerInv, TypeOK, Throws
<1>3. CopiesInv' /\ ShownObeys'
  BY DEF PlannerInv, CopiesInv, ShownObeys, Throws
<1>4. CountInv'
  <2>1. /\ chain'[t] = Tail(chain[t]) /\ thrown'[t] = thrown[t] + 1 /\ saving[t] = None
        /\ UNCHANGED <<saving, inflight, busy>>
    BY DEF PlannerInv, TypeOK, Throws
  <2>2. Counted(t)'
    BY <1>1, <2>1, TailCount, CountsOf DEF Counted
  <2>. QED
    BY <2>1, <2>2, OneTabCounts DEF PlannerInv, TypeOK, Throws
<1>. QED
  BY <1>2, <1>3, <1>4 DEF PlannerInv

LEMMA sendSaveInv ==
  ASSUME PlannerInv, NEW t \in Tab, sendSave(t) PROVE PlannerInv'
<1>. DEFINE m == Mutated(pending[t], Head(chain[t]))
<1>1. chain[t] \in Seq(Clicks) /\ chain[t] # <<>>
  BY DEF PlannerInv, TypeOK, sendSave
<1>2. /\ Head(chain[t]) \in Clicks /\ Tail(chain[t]) \in Seq(Clicks)
      /\ Len(chain[t]) \in Nat /\ Len(Tail(chain[t])) = Len(chain[t]) - 1
  BY <1>1, TailCount
<1>3. pending[t] \in Session /\ Proper(pending[t])
  BY DEF PlannerInv, TypeOK, CopiesInv
<1>4. m \in Session /\ Proper(m)
  BY <1>2, <1>3, MutatedKeeps
<1>5. pending' = [pending EXCEPT ![t] = m]
  BY DEF sendSave
<1>. HIDE DEF m
<1>6. pending'[t] = m /\ saving' = [saving EXCEPT ![t] = m]
  BY <1>5 DEF sendSave, PlannerInv, TypeOK
<1>7. TypeOK'
  BY <1>2, <1>4, <1>5, <1>6 DEF PlannerInv, TypeOK, sendSave
<1>8. CopiesInv'
  BY <1>4, <1>5, <1>6 DEF PlannerInv, TypeOK, CopiesInv, sendSave
<1>9. ShownObeys'
  BY DEF PlannerInv, ShownObeys, sendSave
<1>10. CountInv'
  <2>1. /\ saving[t] = None /\ saving'[t] = m /\ m # None /\ chain'[t] = Tail(chain[t])
        /\ UNCHANGED <<inflight, thrown>>
    BY <1>4, <1>6, NoneIsApart DEF PlannerInv, TypeOK, sendSave
  <2>2. Counted(t)'
    BY <1>2, <2>1, CountsOf DEF Counted
  <2>. QED
    BY <1>6, <2>1, <2>2, OneTabCounts DEF PlannerInv, TypeOK, sendSave
<1>. QED
  BY <1>7, <1>8, <1>9, <1>10 DEF PlannerInv

(* An answer, whatever it is, is counted out.                              *)
LEMMA FinallyCounts ==
  ASSUME PlannerInv, NEW t \in Tab, saving[t] # None, chain' = chain, Finally(t)
  PROVE  /\ saving' \in [Tab -> Session \cup {None}] /\ saving'[t] = None
         /\ \A u \in Tab : u # t => saving'[u] = saving[u]
         /\ inflight' \in [Tab -> Nat] /\ busy' \in [Tab -> BOOLEAN] /\ thrown' \in [Tab -> Nat]
         /\ CountInv'
<1>1. inflight[t] = Len(chain[t]) + 1 + thrown[t] /\ inflight[t] \in Nat \ {0}
  BY CountsOf
<1>2. /\ saving' \in [Tab -> Session \cup {None}] /\ saving'[t] = None
      /\ \A u \in Tab : u # t => saving'[u] = saving[u]
      /\ busy' \in [Tab -> BOOLEAN] /\ thrown' \in [Tab -> Nat]
  BY DEF PlannerInv, TypeOK, Finally
<1>3. inflight' \in [Tab -> Nat]
  BY <1>1 DEF PlannerInv, TypeOK, Finally
<1>4. inflight'[t] = inflight[t] - 1 /\ thrown'[t] = thrown[t] /\ (busy'[t] => inflight[t] # 1)
  BY DEF PlannerInv, TypeOK, Finally
<1>5. Counted(t)'
  BY <1>1, <1>2, <1>4, CountsOf DEF Counted
<1>6. CountInv'
  BY <1>2, <1>5, OneTabCounts DEF PlannerInv, TypeOK, Finally
<1>. QED
  BY <1>2, <1>3, <1>6

LEMMA saveSessionInv ==
  ASSUME PlannerInv, NEW t \in Tab, saveSession(t) PROVE PlannerInv'
<1>1. /\ Stored(t) \in Session /\ Proper(Stored(t))
      /\ Stored(t).squad \in Squad \cup {{}} /\ buildSquad(Stored(t)) # None
  BY StoredKeeps DEF saveSession
<1>2. /\ doc' \in [Tab -> Session \cup {None}] /\ pending' \in [Tab -> Session]
      /\ \A u \in Tab : Proper(pending'[u])
      /\ ShownObeys'
  BY <1>1, HydrateInv DEF saveSession, Answered
<1>3. jar' = Stored(t) /\ owner' = t
  BY DEF saveSession, Answered
<1>7. /\ saving' \in [Tab -> Session \cup {None}] /\ saving'[t] = None
      /\ \A u \in Tab : u # t => saving'[u] = saving[u]
      /\ inflight' \in [Tab -> Nat] /\ busy' \in [Tab -> BOOLEAN] /\ thrown' \in [Tab -> Nat]
      /\ CountInv'
  BY FinallyCounts DEF saveSession
<1>4. meant' \in [Tab -> Session] /\ sure' \in [Tab -> BOOLEAN]
  <2>1. CASE UNCHANGED <<meant, sure>>
    BY <2>1 DEF PlannerInv, TypeOK
  <2>2. CASE /\ meant' = [meant EXCEPT ![t] = pending'[t]]
             /\ sure' = [sure EXCEPT ![t] = importing[t] = None]
    BY <1>2, <2>2 DEF PlannerInv, TypeOK
  <2>. QED
    BY <2>1, <2>2 DEF saveSession
<1>5. TypeOK'
  BY <1>1, <1>2, <1>3, <1>4, <1>7 DEF PlannerInv, TypeOK, saveSession
<1>6. CopiesInv'
  BY <1>1, <1>2, <1>3, <1>7 DEF PlannerInv, TypeOK, CopiesInv, saveSession
<1>. QED
  BY <1>2, <1>5, <1>6, <1>7 DEF PlannerInv

LEMMA SaveFailsInv ==
  ASSUME PlannerInv, NEW t \in Tab, SaveFails(t) PROVE PlannerInv'
<1>1. /\ jar' \in Session /\ Proper(jar') /\ jar'.squad \in Squad \cup {{}}
      /\ owner' \in Tab \cup {None}
  <2>1. CASE UNCHANGED <<jar, owner>>
    BY <2>1 DEF PlannerInv, TypeOK, CopiesInv, Proper
  <2>2. CASE Storable(t) /\ jar' = Stored(t) /\ owner' = None
    BY <2>2, StoredKeeps DEF SaveFails
  <2>. QED
    BY <2>1, <2>2 DEF SaveFails
<1>5. /\ saving' \in [Tab -> Session \cup {None}] /\ saving'[t] = None
      /\ \A u \in Tab : u # t => saving'[u] = saving[u]
      /\ inflight' \in [Tab -> Nat] /\ busy' \in [Tab -> BOOLEAN] /\ thrown' \in [Tab -> Nat]
      /\ CountInv'
  BY FinallyCounts DEF SaveFails
<1>2. TypeOK'
  BY <1>1, <1>5 DEF PlannerInv, TypeOK, SaveFails
<1>3. CopiesInv'
  BY <1>1, <1>5 DEF PlannerInv, TypeOK, CopiesInv, SaveFails
<1>4. ShownObeys'
  BY DEF PlannerInv, ShownObeys, SaveFails
<1>. QED
  BY <1>2, <1>3, <1>4, <1>5 DEF PlannerInv

LEMMA importTeamInv ==
  ASSUME PlannerInv, NEW t \in Tab, NEW team \in Team, importTeam(t, team) PROVE PlannerInv'
<1>. DEFINE r == [cookie |-> jar, team |-> team]
<1>1. r \in [cookie : Session, team : Team] /\ r.cookie = jar
  BY DEF PlannerInv, TypeOK
<1>2. importing' = [importing EXCEPT ![t] = r]
  BY DEF importTeam
<1>. HIDE DEF r
<1>3. TypeOK'
  BY <1>1, <1>2, PlannerConstants DEF PlannerInv, TypeOK, importTeam, Act, counts
<1>4. \A u \in Tab : importing'[u] = IF u = t THEN r ELSE importing[u]
  BY <1>2 DEF PlannerInv, TypeOK
<1>5. CopiesInv'
  BY <1>1, <1>4 DEF PlannerInv, CopiesInv, importTeam
<1>6. ShownObeys'
  BY DEF PlannerInv, ShownObeys, importTeam
<1>7. CountInv'
  BY SameCount DEF PlannerInv, importTeam
<1>. QED
  BY <1>3, <1>5, <1>6, <1>7 DEF PlannerInv

LEMMA ImportedInv ==
  ASSUME PlannerInv, NEW t \in Tab, Imported(t) PROVE PlannerInv'
<1>. DEFINE s == fromImport(importing[t].cookie, importing[t].team)
<1>1. /\ importing[t].cookie \in Session /\ Proper(importing[t].cookie)
      /\ importing[t].team \in Team
  BY DEF PlannerInv, TypeOK, CopiesInv, Imported
<1>2. s \in Session /\ Proper(s) /\ s.squad \in Squad
  BY <1>1, ImportKeeps
<1>3. buildSquad(s) # None /\ jar' = s /\ (Answered(t, s) \/ Lost)
  BY DEF Imported
<1>. HIDE DEF s
<1>4. /\ doc' \in [Tab -> Session \cup {None}] /\ pending' \in [Tab -> Session]
      /\ \A u \in Tab : Proper(pending'[u])
      /\ ShownObeys' /\ owner' \in Tab \cup {None}
  <2>1. CASE Answered(t, s)
    BY <1>2, <1>3, <2>1, HydrateInv DEF Answered
  <2>2. CASE Lost
    BY <2>2 DEF Lost, PlannerInv, TypeOK, CopiesInv, ShownObeys
  <2>. QED
    BY <1>3, <2>1, <2>2
<1>5. TypeOK'
  BY <1>2, <1>3, <1>4 DEF PlannerInv, TypeOK, Imported, counts
<1>6. CopiesInv'
  BY <1>2, <1>3, <1>4 DEF PlannerInv, TypeOK, CopiesInv, Imported
<1>7. CountInv'
  BY SameCount DEF PlannerInv, Imported
<1>. QED
  BY <1>4, <1>5, <1>6, <1>7 DEF PlannerInv

(* The failures that change nothing but the request.                       *)
LEMMA FailuresInv ==
  ASSUME PlannerInv, NEW t \in Tab, LoadFails(t) \/ ImportFails(t) PROVE PlannerInv'
<1>1. CASE LoadFails(t)
  <2>1. TypeOK'
    BY <1>1 DEF PlannerInv, TypeOK, LoadFails, counts
  <2>2. CopiesInv' /\ ShownObeys'
    BY <1>1 DEF PlannerInv, TypeOK, CopiesInv, ShownObeys, LoadFails
  <2>3. CountInv'
    BY <1>1, SameCount DEF PlannerInv, LoadFails
  <2>. QED
    BY <2>1, <2>2, <2>3 DEF PlannerInv
<1>2. CASE ImportFails(t)
  <2>1. TypeOK'
    BY <1>2 DEF PlannerInv, TypeOK, ImportFails, counts
  <2>2. CopiesInv' /\ ShownObeys'
    BY <1>2 DEF PlannerInv, TypeOK, CopiesInv, ShownObeys, ImportFails
  <2>3. CountInv'
    BY <1>2, SameCount DEF PlannerInv, ImportFails
  <2>. QED
    BY <2>1, <2>2, <2>3 DEF PlannerInv
<1>. QED
  BY <1>1, <1>2

LEMMA StepInv == PlannerInv /\ [Next]_vars => PlannerInv'
<1>. SUFFICES ASSUME PlannerInv, [Next]_vars PROVE PlannerInv'
  OBVIOUS
<1>1. CASE Next
  <2>1. PICK t \in Tab :
          \/ Open(t) \/ Arrives(t) \/ Runs(t) \/ Settles(t) \/ Imported(t) \/ ImportFails(t)
          \/ \E c \in Clicks : save(t, c)
          \/ \E team \in Team : importTeam(t, team)
    BY <1>1 DEF Next
  <2>2. CASE Open(t)
    BY <2>2, OpenInv
  <2>3. CASE Arrives(t)
    BY <2>3, stateInv, FailuresInv DEF Arrives
  <2>4. CASE Runs(t)
    BY <2>4, sendSaveInv, ThrowsInv DEF Runs
  <2>5. CASE Settles(t)
    BY <2>5, saveSessionInv, SaveFailsInv DEF Settles
  <2>6. CASE Imported(t)
    BY <2>6, ImportedInv
  <2>7. CASE ImportFails(t)
    BY <2>7, FailuresInv
  <2>8. CASE \E c \in Clicks : save(t, c)
    BY <2>8, saveInv
  <2>9. CASE \E team \in Team : importTeam(t, team)
    BY <2>9, importTeamInv
  <2>. QED
    BY <2>1, <2>2, <2>3, <2>4, <2>5, <2>6, <2>7, <2>8, <2>9
<1>2. CASE UNCHANGED vars
  BY <1>2, SameCount DEF vars, counts, PlannerInv, TypeOK, CopiesInv, ShownObeys
<1>. QED
  BY <1>1, <1>2

LEMMA Inductive == Spec => []PlannerInv
  BY InitInv, StepInv, PTL DEF Spec

-----------------------------------------------------------------------------
(* Every variable of the planner keeps its type, and the cookie never      *)
(* holds a fifteen that is not one.                                        *)
THEOREM TypeCorrect == Spec => []TypeOK
  BY Inductive, PTL DEF PlannerInv

(* No player is both locked and blocked, or dismissed and still in force,  *)
(* in the cookie or on any page.                                           *)
THEOREM OneStanding == Spec => []OneStandingPerPlayer
<1>1. PlannerInv => OneStandingPerPlayer
  BY DEF PlannerInv, CopiesInv, Proper, OneStandingPerPlayer, Exclusive, Settled
<1>. QED
  BY <1>1, Inductive, PTL

(* The fifteen on a page obeys the corrections drawn beside it, for every  *)
(* optimiser that obeys what it is given.                                  *)
THEOREM PagesObey == Spec => []ShownObeys
  BY Inductive, PTL DEF PlannerInv

(* INFLIGHT and body.saving: a tab with nothing queued or in flight has    *)
(* counted every save out and is not marked busy, unless one of its own    *)
(* mutations threw.                                                        *)
THEOREM OnlyThrowsLinger == Spec => [](\A t \in Tab : Idle(t) => CountedOut(t))
<1>1. PlannerInv => \A t \in Tab : Idle(t) => CountedOut(t)
  <2>. SUFFICES ASSUME PlannerInv, NEW t \in Tab, Idle(t) PROVE CountedOut(t)
    OBVIOUS
  <2>1. Len(chain[t]) = 0 /\ saving[t] = None
    BY DEF Idle
  <2>. QED
    BY <2>1, CountsOf DEF CountedOut
<1>. QED
  BY <1>1, Inductive, PTL

-----------------------------------------------------------------------------
(* What makes NoneIsDropped and PageIsStored inductive.  A page that has   *)
(* nothing on its way shows what it would save, and one whose save is in   *)
(* flight has sent what it holds.                                          *)
Loaded(t) ==
  /\ doc[t] = None => chain[t] = <<>> /\ saving[t] = None /\ importing[t] = None /\ ~sure[t]
  /\ loading[t] # None => doc[t] = None

InStep(t) ==
  sure[t] => /\ importing[t] = None
             /\ IF saving[t] = None THEN pending[t] = doc[t] ELSE saving[t] = pending[t]

(* The cookie is the session of the tab that owns it.                      *)
Agrees(s) == Corrections(s) = Corrections(jar) /\ s.entry = jar.entry /\ s.opt = jar.opt

Owns(t) ==
  owner = t => /\ sure[t] => Agrees(doc[t])
               /\ loading[t] # None => loading[t] = jar

(* The corrections the queue leads to, one click after the other, are what *)
(* the reader meant.                                                       *)
Leads(path, from, queue, to) ==
  /\ path \in [0..Len(queue) -> Session]
  /\ Corrections(path[0]) = Corrections(from)
  /\ Corrections(path[Len(queue)]) = Corrections(to)
  /\ \A i \in 1..Len(queue) : Corrections(path[i]) = Corrections(Mutated(path[i - 1], queue[i]))

Pending(t) == sure[t] => \E path : Leads(path, pending[t], chain[t], meant[t])

QueueInv == \A t \in Tab : Loaded(t) /\ InStep(t) /\ Owns(t) /\ Pending(t)

(* A click does to the corrections what it does, whatever else the session *)
(* holds.                                                                  *)
LEMMA MutatedCorrects ==
  ASSUME NEW p \in Session, NEW q \in Session, NEW c \in Clicks, Corrections(p) = Corrections(q)
  PROVE  Corrections(Mutated(p, c)) = Corrections(Mutated(q, c))
<1>0. p.lock = q.lock /\ p.excl = q.excl /\ p.dis = q.dis
  BY DEF Corrections
<1>1. c \in Click
  BY PlannerConstants
<1>2. CASE c \in [op : {"lock", "block"}, who : Player]
  <2>1. c.op \in {"lock", "block"}
    BY <1>2
  <2>. QED
    BY <1>0, <2>1 DEF Mutated, toggleCorrection, Corrections, Session
<1>3. CASE c \in [op : {"optimise", "reset", "arrange"}]
  <2>1. c.op \in {"optimise", "reset", "arrange"}
    BY <1>3
  <2>. QED
    BY <1>0, <2>1 DEF Mutated, optimise, reset, Corrections, Session
<1>4. CASE c \in [op : {"replace"}, out : Player, into : Player]
  <2>1. c.op = "replace"
    BY <1>4
  <2>. QED
    BY <1>0, <2>1 DEF Mutated, replace, Corrections, Session
<1>. QED
  BY <1>1, <1>2, <1>3, <1>4 DEF Click

(* Without a queue, the page is where its reader wants it.                 *)
LEMMA LeadsNowhere ==
  ASSUME NEW from \in Session
  PROVE  \E path : Leads(path, from, <<>>, from)
<1>. DEFINE path == [i \in 0..0 |-> from]
<1>1. Len(<<>>) = 0
  OBVIOUS
<1>2. path \in [0..0 -> Session] /\ path[0] = from
  OBVIOUS
<1>. HIDE DEF path
<1>3. Leads(path, from, <<>>, from)
  BY <1>1, <1>2 DEF Leads
<1>. QED
  BY <1>3

LEMMA LeadsArrives ==
  ASSUME NEW from, NEW to, NEW path, Leads(path, from, <<>>, to)
  PROVE  Corrections(from) = Corrections(to)
  BY DEF Leads

(* One more click at the end of the queue.                                 *)
LEMMA LeadsFurther ==
  ASSUME NEW from, NEW to \in Session, NEW queue \in Seq(Clicks), NEW c \in Clicks,
         NEW path, Leads(path, from, queue, to)
  PROVE  \E new : Leads(new, from, Append(queue, c), Mutated(to, c))
<1>. DEFINE n == Len(queue)
            m == Mutated(path[n], c)
            new == [i \in 0..(n + 1) |-> IF i = n + 1 THEN m ELSE path[i]]
<1>1. n \in Nat /\ Len(Append(queue, c)) = n + 1
  OBVIOUS
<1>2. path[n] \in Session /\ Corrections(path[n]) = Corrections(to) /\ path \in [0..n -> Session]
  BY <1>1 DEF Leads
<1>3. m \in Session /\ Corrections(m) = Corrections(Mutated(to, c))
  BY <1>2, MutatedKeeps, MutatedCorrects
<1>4. Append(queue, c)[n + 1] = c /\ \A i \in 1..n : Append(queue, c)[i] = queue[i]
  BY <1>1
<1>5. \A i \in 0..n : new[i] = path[i]
  BY <1>1
<1>6. new \in [0..(n + 1) -> Session] /\ new[n + 1] = m
  BY <1>1, <1>2, <1>3
<1>. HIDE DEF new
<1>7. ASSUME NEW i \in 1..(n + 1)
      PROVE  Corrections(new[i]) = Corrections(Mutated(new[i - 1], Append(queue, c)[i]))
  <2>1. CASE i = n + 1
    <3>1. new[i - 1] = path[n]
      BY <1>1, <1>5, <2>1
    <3>. QED
      BY <1>4, <1>6, <2>1, <3>1
  <2>2. CASE i # n + 1
    <3>1. i \in 1..n /\ i - 1 \in 0..n
      BY <1>1, <2>2
    <3>2. new[i] = path[i] /\ new[i - 1] = path[i - 1] /\ Append(queue, c)[i] = queue[i]
      BY <1>1, <1>4, <1>5, <3>1
    <3>. QED
      BY <3>1, <3>2 DEF Leads
  <2>. QED
    BY <2>1, <2>2
<1>8. Corrections(new[0]) = Corrections(from)
  BY <1>1, <1>5 DEF Leads
<1>. HIDE DEF m
<1>9. Leads(new, from, Append(queue, c), Mutated(to, c))
  BY <1>1, <1>3, <1>6, <1>7, <1>8 DEF Leads
<1>. QED
  BY <1>9

(* The first click of the queue takes effect.                              *)
LEMMA LeadsOn ==
  ASSUME NEW from \in Session, NEW to, NEW queue \in Seq(Clicks), queue # <<>>,
         NEW path, Leads(path, from, queue, to)
  PROVE  \E new : Leads(new, Mutated(from, Head(queue)), Tail(queue), to)
<1>. DEFINE n == Len(queue)
            new == [i \in 0..(n - 1) |-> path[i + 1]]
<1>1. n \in Nat \ {0} /\ Len(Tail(queue)) = n - 1 /\ Head(queue) = queue[1] /\ queue[1] \in Clicks
  OBVIOUS
<1>2. path \in [0..n -> Session]
  BY DEF Leads
<1>3. \A i \in 1..(n - 1) : Tail(queue)[i] = queue[i + 1]
  BY <1>1
<1>4. new \in [0..(n - 1) -> Session] /\ new[0] = path[1] /\ new[n - 1] = path[n]
  BY <1>1, <1>2
<1>5. \A i \in 0..(n - 1) : new[i] = path[i + 1]
  OBVIOUS
<1>. HIDE DEF new
<1>6. Corrections(new[0]) = Corrections(Mutated(from, Head(queue)))
  <2>1. Corrections(path[1]) = Corrections(Mutated(path[0], queue[1]))
    <3>1. 1 \in 1..n /\ 1 - 1 = 0
      BY <1>1
    <3>. QED
      BY <3>1 DEF Leads
  <2>2. path[0] \in Session /\ Corrections(path[0]) = Corrections(from)
    BY <1>1, <1>2 DEF Leads
  <2>. QED
    BY <1>1, <1>4, <2>1, <2>2, MutatedCorrects
<1>7. ASSUME NEW i \in 1..(n - 1)
      PROVE  Corrections(new[i]) = Corrections(Mutated(new[i - 1], Tail(queue)[i]))
  <2>1. i + 1 \in 1..n /\ (i + 1) - 1 = i /\ i - 1 \in 0..(n - 1) /\ i \in 0..(n - 1) /\ (i - 1) + 1 = i
    BY <1>1
  <2>2. new[i] = path[i + 1] /\ new[i - 1] = path[i] /\ Tail(queue)[i] = queue[i + 1]
    BY <1>3, <1>5, <2>1
  <2>. QED
    BY <2>1, <2>2 DEF Leads
<1>8. Leads(new, Mutated(from, Head(queue)), Tail(queue), to)
  BY <1>1, <1>4, <1>6, <1>7 DEF Leads
<1>. QED
  BY <1>8

(* An answer puts the page where it was, as far as corrections go.         *)
LEMMA LeadsAgain ==
  ASSUME NEW from, NEW again, Corrections(from) = Corrections(again), NEW queue, NEW to,
         NEW path, Leads(path, from, queue, to)
  PROVE  Leads(path, again, queue, to)
  BY DEF Leads

-----------------------------------------------------------------------------
QueueOf(t) == Loaded(t) /\ InStep(t) /\ Owns(t) /\ Pending(t)

SameTab(u) ==
  /\ loading'[u] = loading[u] /\ doc'[u] = doc[u] /\ pending'[u] = pending[u]
  /\ chain'[u] = chain[u] /\ saving'[u] = saving[u] /\ importing'[u] = importing[u]
  /\ meant'[u] = meant[u] /\ sure'[u] = sure[u]

(* What one tab does leaves the others as they are, but for the cookie,    *)
(* which is then no longer theirs.                                         *)
LEMMA OthersKeep ==
  ASSUME NEW u \in Tab, QueueOf(u), SameTab(u), (jar' = jar /\ owner' = owner) \/ owner' # u
  PROVE  QueueOf(u)'
<1>1. Loaded(u)' /\ InStep(u)'
  BY DEF QueueOf, SameTab, Loaded, InStep
<1>2. Pending(u)'
  BY DEF QueueOf, SameTab, Pending
<1>3. Owns(u)'
  BY DEF QueueOf, SameTab, Owns, Agrees, Corrections
<1>. QED
  BY <1>1, <1>2, <1>3 DEF QueueOf

LEMMA LostKeeps ==
  ASSUME NEW u \in Tab, owner' = IF jar' = jar THEN owner ELSE None
  PROVE  (jar' = jar /\ owner' = owner) \/ owner' # u
  BY NoneIsApart

(* A page drawn from a session holds its corrections.                      *)
LEMMA Drawn ==
  ASSUME PlannerInv, NEW t \in Tab, NEW s \in Session, Proper(s), buildSquad(s) # None,
         hydrate(t, s, buildSquad(s))
  PROVE  /\ doc'[t] \in Session /\ pending'[t] = doc'[t] /\ doc'[t] # None
         /\ Corrections(doc'[t]) = Corrections(s)
         /\ doc'[t].entry = s.entry /\ doc'[t].opt = s.opt
         /\ \A u \in Tab : u # t => doc'[u] = doc[u] /\ pending'[u] = pending[u]
<1>. DEFINE p == [s EXCEPT !.seed = None, !.squad = buildSquad(s)]
<1>1. p \in Session
  BY Hydrated
<1>2. p.lock = s.lock /\ p.excl = s.excl /\ p.dis = s.dis /\ p.entry = s.entry /\ p.opt = s.opt
  BY DEF Session
<1>3. doc' = [doc EXCEPT ![t] = p] /\ pending' = [pending EXCEPT ![t] = p]
  BY DEF hydrate
<1>. HIDE DEF p
<1>4. doc'[t] = p /\ pending'[t] = p
  BY <1>3 DEF PlannerInv, TypeOK
<1>5. \A u \in Tab : u # t => doc'[u] = doc[u] /\ pending'[u] = pending[u]
  BY <1>3 DEF PlannerInv, TypeOK
<1>. QED
  BY <1>1, <1>2, <1>4, <1>5, NoneIsApart DEF Corrections

LEMMA SettledCorrects ==
  ASSUME NEW s \in Session, Proper(s)
  PROVE  /\ Corrections(settled(s)) = Corrections(s)
         /\ settled(s).entry = s.entry /\ settled(s).opt = s.opt
  BY DEF settled, Session, Proper, Corrections

LEMMA OpenQueue ==
  ASSUME PlannerInv, QueueInv, NEW t \in Tab, Open(t) PROVE QueueInv'
<1>1. ASSUME NEW u \in Tab PROVE QueueOf(u)'
  <2>1. CASE u = t
    <3>1. /\ doc'[t] = None /\ loading'[t] = jar /\ chain'[t] = <<>> /\ saving'[t] = None
          /\ importing'[t] = None /\ sure'[t] = FALSE /\ jar' = jar
      BY DEF Open, PlannerInv, TypeOK
    <3>. QED
      BY <2>1, <3>1 DEF QueueOf, Loaded, InStep, Owns, Pending
  <2>2. CASE u # t
    <3>1. SameTab(u) /\ jar' = jar /\ owner' = owner
      BY <2>2 DEF Open, PlannerInv, TypeOK, SameTab
    <3>. QED
      BY <3>1, OthersKeep DEF QueueInv, QueueOf
  <2>. QED
    BY <2>1, <2>2
<1>. QED
  BY <1>1 DEF QueueInv, QueueOf

LEMMA stateQueue ==
  ASSUME PlannerInv, QueueInv, NEW t \in Tab, state(t) PROVE QueueInv'
<1>0. loading[t] \in Session /\ Proper(loading[t]) /\ loading[t].squad \in Squad \cup {{}}
  BY DEF PlannerInv, TypeOK, CopiesInv, state
<1>1. PICK s \in Minted(loading[t]) :
        /\ jar' = IF s # loading[t] THEN s ELSE jar
        /\ \/ /\ buildSquad(s) # None
              /\ hydrate(t, s, buildSquad(s))
              /\ owner' = IF s # loading[t] \/ loading[t] = jar THEN t ELSE owner
              /\ meant' = [meant EXCEPT ![t] = pending'[t]]
              /\ sure' = [sure EXCEPT ![t] = TRUE]
           \/ Lost /\ UNCHANGED <<meant, sure>>
  BY DEF state
<1>2. s \in Session /\ Proper(s)
  BY <1>0, MintedKeeps
<1>3. loading' = [loading EXCEPT ![t] = None] /\ UNCHANGED <<chain, saving, importing, clicks>>
  BY DEF state, counts
<1>4. /\ loading'[t] = None /\ doc[t] = None /\ chain[t] = <<>> /\ saving[t] = None
      /\ importing[t] = None /\ ~sure[t]
  BY <1>3 DEF state, PlannerInv, TypeOK, QueueInv, Loaded
<1>5. CASE Lost /\ UNCHANGED <<meant, sure>>
  <2>1. owner' = (IF jar' = jar THEN owner ELSE None) /\ doc' = doc /\ pending' = pending
        /\ UNCHANGED <<meant, sure>>
    BY <1>5 DEF Lost
  <2>2. ASSUME NEW u \in Tab PROVE QueueOf(u)'
    <3>1. CASE u = t
      BY <1>3, <1>4, <2>1, <3>1 DEF QueueOf, Loaded, InStep, Owns, Pending
    <3>2. CASE u # t
      <4>1. SameTab(u)
        BY <1>3, <2>1, <3>2 DEF PlannerInv, TypeOK, SameTab
      <4>. QED
        BY <2>1, <4>1, LostKeeps, OthersKeep DEF QueueInv, QueueOf
    <3>. QED
      BY <3>1, <3>2
  <2>. QED
    BY <2>2 DEF QueueInv, QueueOf
<1>6. CASE /\ buildSquad(s) # None
           /\ hydrate(t, s, buildSquad(s))
           /\ owner' = IF s # loading[t] \/ loading[t] = jar THEN t ELSE owner
           /\ meant' = [meant EXCEPT ![t] = pending'[t]]
           /\ sure' = [sure EXCEPT ![t] = TRUE]
  <2>1. /\ doc'[t] \in Session /\ pending'[t] = doc'[t] /\ doc'[t] # None
        /\ Corrections(doc'[t]) = Corrections(s)
        /\ doc'[t].entry = s.entry /\ doc'[t].opt = s.opt
        /\ \A u \in Tab : u # t => doc'[u] = doc[u] /\ pending'[u] = pending[u]
    BY <1>2, <1>6, Drawn
  <2>2. meant'[t] = pending'[t] /\ sure'[t] = TRUE
    BY <1>6 DEF PlannerInv, TypeOK
  <2>3. owner' = t => jar' = s
    <3>1. s # loading[t] \/ loading[t] = jar \/ owner # t
      BY DEF state, QueueInv, Owns
    <3>. QED
      BY <1>1, <1>6, <3>1
  <2>4. ASSUME NEW u \in Tab PROVE QueueOf(u)'
    <3>1. CASE u = t
      <4>1. Loaded(t)' /\ InStep(t)'
        BY <1>3, <1>4, <2>1 DEF Loaded, InStep
      <4>2. Owns(t)'
        BY <1>4, <2>1, <2>3 DEF Owns, Agrees, Corrections
      <4>3. \E path : Leads(path, pending'[t], chain'[t], meant'[t])
        BY <1>3, <1>4, <2>1, <2>2, LeadsNowhere
      <4>4. Pending(t)'
        BY <4>3 DEF Pending, Leads, Corrections
      <4>. QED
        BY <3>1, <4>1, <4>2, <4>4 DEF QueueOf
    <3>2. CASE u # t
      <4>1. SameTab(u)
        BY <1>3, <1>6, <2>1, <3>2 DEF PlannerInv, TypeOK, SameTab
      <4>2. (jar' = jar /\ owner' = owner) \/ owner' # u
        BY <1>1, <1>6, <3>2
      <4>. QED
        BY <4>1, <4>2, OthersKeep DEF QueueInv, QueueOf
    <3>. QED
      BY <3>1, <3>2
  <2>. QED
    BY <2>4 DEF QueueInv, QueueOf
<1>. QED
  BY <1>1, <1>5, <1>6

LEMMA saveQueue ==
  ASSUME PlannerInv, QueueInv, NEW t \in Tab, NEW c \in Clicks, save(t, c) PROVE QueueInv'
<1>1. /\ doc[t] # None /\ chain'[t] = Append(chain[t], c) /\ meant'[t] = Mutated(meant[t], c)
      /\ UNCHANGED <<jar, loading, doc, pending, saving, importing, owner, sure>>
  BY DEF save, PlannerInv, TypeOK
<1>2. meant[t] \in Session /\ chain[t] \in Seq(Clicks)
  BY DEF PlannerInv, TypeOK
<1>3. ASSUME NEW u \in Tab PROVE QueueOf(u)'
  <2>1. CASE u = t
    <3>1. Loaded(t)' /\ InStep(t)' /\ Owns(t)'
      BY <1>1 DEF QueueInv, Loaded, InStep, Owns, Agrees, Corrections
    <3>2. Pending(t)'
      <4>0. Pending(t)' <=> (sure[t] => \E path : Leads(path, pending[t], chain'[t], meant'[t]))
        BY <1>1 DEF Pending
      <4>. SUFFICES ASSUME sure[t] PROVE \E path : Leads(path, pending[t], chain'[t], meant'[t])
        BY <4>0
      <4>1. PICK path : Leads(path, pending[t], chain[t], meant[t])
        BY DEF QueueInv, Pending
      <4>. QED
        BY <1>1, <1>2, <4>1, LeadsFurther
    <3>. QED
      BY <2>1, <3>1, <3>2 DEF QueueOf
  <2>2. CASE u # t
    <3>1. SameTab(u) /\ jar' = jar /\ owner' = owner
      BY <2>2 DEF save, PlannerInv, TypeOK, SameTab
    <3>. QED
      BY <3>1, OthersKeep DEF QueueInv, QueueOf
  <2>. QED
    BY <2>1, <2>2
<1>. QED
  BY <1>3 DEF QueueInv, QueueOf

LEMMA sendSaveQueue ==
  ASSUME PlannerInv, QueueInv, NEW t \in Tab, sendSave(t) PROVE QueueInv'
<1>1. /\ chain[t] # <<>> /\ saving[t] = None /\ pending'[t] = Mutated(pending[t], Head(chain[t]))
      /\ saving'[t] = pending'[t] /\ chain'[t] = Tail(chain[t])
      /\ UNCHANGED <<jar, loading, doc, importing, clicks, owner, meant, sure>>
  BY DEF sendSave, PlannerInv, TypeOK
<1>2. pending[t] \in Session /\ chain[t] \in Seq(Clicks) /\ Head(chain[t]) \in Clicks
  BY <1>1 DEF PlannerInv, TypeOK
<1>3. ASSUME NEW u \in Tab PROVE QueueOf(u)'
  <2>1. CASE u = t
    <3>0. saving'[t] # None
      BY <1>1, <1>2, MutatedKeeps, NoneIsApart
    <3>1. Loaded(t)' /\ InStep(t)' /\ Owns(t)'
      BY <1>1, <3>0 DEF QueueInv, Loaded, InStep, Owns, Agrees, Corrections
    <3>2. Pending(t)'
      <4>. SUFFICES ASSUME sure'[t] PROVE \E path : Leads(path, pending'[t], chain'[t], meant'[t])
        BY DEF Pending, Leads, Corrections
      <4>1. sure[t] /\ meant'[t] = meant[t]
        BY <1>1
      <4>2. PICK path : Leads(path, pending[t], chain[t], meant[t])
        BY <4>1 DEF QueueInv, Pending
      <4>. QED
        BY <1>1, <1>2, <4>1, <4>2, LeadsOn
    <3>. QED
      BY <2>1, <3>1, <3>2 DEF QueueOf
  <2>2. CASE u # t
    <3>1. SameTab(u) /\ jar' = jar /\ owner' = owner
      BY <2>2 DEF sendSave, PlannerInv, TypeOK, SameTab
    <3>. QED
      BY <3>1, OthersKeep DEF QueueInv, QueueOf
  <2>. QED
    BY <2>1, <2>2
<1>. QED
  BY <1>3 DEF QueueInv, QueueOf

LEMMA ThrowsQueue ==
  ASSUME PlannerInv, QueueInv, NEW t \in Tab, Throws(t) PROVE QueueInv'
<1>1. /\ chain[t] # <<>> /\ saving[t] = None /\ Head(chain[t]).op = "arrange"
      /\ chain'[t] = Tail(chain[t])
      /\ UNCHANGED <<jar, loading, doc, pending, saving, importing, clicks, owner, meant, sure>>
  BY DEF Throws, PlannerInv, TypeOK
<1>2. pending[t] \in Session /\ chain[t] \in Seq(Clicks)
  BY DEF PlannerInv, TypeOK
<1>3. Mutated(pending[t], Head(chain[t])) = pending[t]
  BY <1>1 DEF Mutated
<1>4. ASSUME NEW u \in Tab PROVE QueueOf(u)'
  <2>1. CASE u = t
    <3>1. Loaded(t)' /\ InStep(t)' /\ Owns(t)'
      BY <1>1 DEF QueueInv, Loaded, InStep, Owns, Agrees, Corrections
    <3>2. Pending(t)'
      <4>0. Pending(t)' <=> (sure[t] => \E path : Leads(path, pending[t], chain'[t], meant[t]))
        BY <1>1 DEF Pending
      <4>. SUFFICES ASSUME sure[t] PROVE \E path : Leads(path, pending[t], chain'[t], meant[t])
        BY <4>0
      <4>1. PICK path : Leads(path, pending[t], chain[t], meant[t])
        BY DEF QueueInv, Pending
      <4>. QED
        BY <1>1, <1>2, <1>3, <4>1, LeadsOn
    <3>. QED
      BY <2>1, <3>1, <3>2 DEF QueueOf
  <2>2. CASE u # t
    <3>1. SameTab(u) /\ jar' = jar /\ owner' = owner
      BY <2>2 DEF Throws, PlannerInv, TypeOK, SameTab
    <3>. QED
      BY <3>1, OthersKeep DEF QueueInv, QueueOf
  <2>. QED
    BY <2>1, <2>2
<1>. QED
  BY <1>4 DEF QueueInv, QueueOf

LEMMA saveSessionQueue ==
  ASSUME PlannerInv, QueueInv, NEW t \in Tab, saveSession(t) PROVE QueueInv'
<1>1. /\ Stored(t) \in Session /\ Proper(Stored(t)) /\ buildSquad(Stored(t)) # None
      /\ saving[t] \in Session /\ Proper(saving[t])
  BY StoredKeeps DEF saveSession, PlannerInv, TypeOK, CopiesInv
<1>2. Corrections(Stored(t)) = Corrections(saving[t])
  BY <1>1, SettledCorrects DEF Stored
<1>3. /\ saving[t] # None /\ jar' = Stored(t) /\ owner' = t /\ saving'[t] = None
      /\ hydrate(t, Stored(t), buildSquad(Stored(t)))
      /\ UNCHANGED <<loading, chain, importing, clicks>>
  BY DEF saveSession, Answered, Finally, PlannerInv, TypeOK
<1>4. /\ doc'[t] \in Session /\ pending'[t] = doc'[t] /\ doc'[t] # None
      /\ Corrections(doc'[t]) = Corrections(Stored(t))
      /\ doc'[t].entry = Stored(t).entry /\ doc'[t].opt = Stored(t).opt
      /\ \A u \in Tab : u # t => doc'[u] = doc[u] /\ pending'[u] = pending[u]
  BY <1>1, <1>3, Drawn
<1>5. doc[t] # None /\ loading[t] = None
  BY <1>3 DEF QueueInv, Loaded
<1>6. IF sure[t] \/ chain[t] # <<>> THEN meant' = meant /\ sure' = sure
      ELSE meant'[t] = pending'[t] /\ sure'[t] = (importing[t] = None)
  BY DEF saveSession, PlannerInv, TypeOK
<1>7. \A u \in Tab : u # t => saving'[u] = saving[u] /\ meant'[u] = meant[u] /\ sure'[u] = sure[u]
  BY DEF saveSession, Finally, PlannerInv, TypeOK
<1>8. ASSUME NEW u \in Tab PROVE QueueOf(u)'
  <2>1. CASE u = t
    <3>1. Loaded(t)'
      BY <1>3, <1>4, <1>5 DEF Loaded
    <3>2. InStep(t)'
      BY <1>3, <1>4, <1>6 DEF InStep, QueueInv
    <3>3. Owns(t)'
      BY <1>3, <1>4, <1>5 DEF Owns, Agrees, Corrections
    <3>4. Pending(t)'
      <4>. SUFFICES ASSUME sure'[t] PROVE \E path : Leads(path, pending'[t], chain[t], meant'[t])
        BY <1>3 DEF Pending, Leads, Corrections
      <4>1. CASE sure[t]
        <5>1. PICK path : Leads(path, pending[t], chain[t], meant[t])
          BY <4>1 DEF QueueInv, Pending
        <5>2. Corrections(pending[t]) = Corrections(pending'[t])
          BY <1>2, <1>3, <1>4, <4>1 DEF QueueInv, InStep
        <5>. QED
          BY <1>6, <4>1, <5>1, <5>2, LeadsAgain
      <4>2. CASE ~sure[t]
        <5>1. chain[t] = <<>> /\ meant'[t] = pending'[t] /\ pending'[t] \in Session
          BY <1>4, <1>6, <4>2
        <5>. QED
          BY <5>1, LeadsNowhere
      <4>. QED
        BY <4>1, <4>2
    <3>. QED
      BY <2>1, <3>1, <3>2, <3>3, <3>4 DEF QueueOf
  <2>2. CASE u # t
    <3>1. SameTab(u) /\ owner' # u
      BY <1>3, <1>4, <1>7, <2>2 DEF SameTab
    <3>. QED
      BY <3>1, OthersKeep DEF QueueInv, QueueOf
  <2>. QED
    BY <2>1, <2>2
<1>. QED
  BY <1>8 DEF QueueInv, QueueOf

(* A tab that is no longer sure of anything has only to be loaded.         *)
LEMMA UnsureKeeps ==
  ASSUME NEW t \in Tab, Loaded(t)', ~sure'[t], loading'[t] = None
  PROVE  QueueOf(t)'
  BY DEF QueueOf, InStep, Owns, Pending

LEMMA SaveFailsQueue ==
  ASSUME PlannerInv, QueueInv, NEW t \in Tab, SaveFails(t) PROVE QueueInv'
<1>1. /\ saving[t] # None /\ saving'[t] = None /\ sure'[t] = FALSE
      /\ UNCHANGED <<loading, doc, pending, chain, importing, clicks, meant>>
      /\ (jar' = jar /\ owner' = owner) \/ owner' = None
  BY DEF SaveFails, Finally, PlannerInv, TypeOK
<1>3. ASSUME NEW u \in Tab PROVE QueueOf(u)'
  <2>1. CASE u = t
    <3>1. Loaded(t)' /\ loading'[t] = None
      BY <1>1 DEF QueueInv, Loaded
    <3>. QED
      BY <1>1, <2>1, <3>1, UnsureKeeps
  <2>2. CASE u # t
    <3>1. SameTab(u)
      BY <2>2 DEF SaveFails, Finally, PlannerInv, TypeOK, SameTab
    <3>. QED
      BY <1>1, <3>1, NoneIsApart, OthersKeep DEF QueueInv, QueueOf
  <2>. QED
    BY <2>1, <2>2
<1>. QED
  BY <1>3 DEF QueueInv, QueueOf

LEMMA importTeamQueue ==
  ASSUME PlannerInv, QueueInv, NEW t \in Tab, NEW team \in Team, importTeam(t, team) PROVE QueueInv'
<1>1. /\ doc[t] # None /\ sure'[t] = FALSE
      /\ UNCHANGED <<jar, loading, doc, pending, chain, saving, owner, meant>>
  BY DEF importTeam, PlannerInv, TypeOK
<1>3. ASSUME NEW u \in Tab PROVE QueueOf(u)'
  <2>1. CASE u = t
    <3>1. Loaded(t)' /\ loading'[t] = None
      BY <1>1 DEF QueueInv, Loaded
    <3>. QED
      BY <1>1, <2>1, <3>1, UnsureKeeps
  <2>2. CASE u # t
    <3>1. SameTab(u) /\ jar' = jar /\ owner' = owner
      BY <2>2 DEF importTeam, PlannerInv, TypeOK, SameTab
    <3>. QED
      BY <3>1, OthersKeep DEF QueueInv, QueueOf
  <2>. QED
    BY <2>1, <2>2
<1>. QED
  BY <1>3 DEF QueueInv, QueueOf

LEMMA ImportedQueue ==
  ASSUME PlannerInv, QueueInv, NEW t \in Tab, Imported(t) PROVE QueueInv'
<1>. DEFINE s == fromImport(importing[t].cookie, importing[t].team)
<1>1. /\ importing[t].cookie \in Session /\ Proper(importing[t].cookie)
      /\ importing[t].team \in Team
  BY DEF PlannerInv, TypeOK, CopiesInv, Imported
<1>2. s \in Session /\ Proper(s)
  BY <1>1, ImportKeeps
<1>4. /\ importing[t] # None /\ buildSquad(s) # None /\ (Answered(t, s) \/ Lost)
      /\ UNCHANGED <<loading, chain, saving, clicks, meant, sure>> /\ importing'[t] = None
      /\ \A u \in Tab : u # t => importing'[u] = importing[u]
  BY DEF Imported, PlannerInv, TypeOK
<1>. HIDE DEF s
<1>5. doc[t] # None /\ loading[t] = None /\ ~sure[t]
  BY <1>4 DEF QueueInv, Loaded, InStep
<1>6. /\ doc'[t] # None
      /\ \A u \in Tab : u # t =>
           /\ doc'[u] = doc[u] /\ pending'[u] = pending[u]
           /\ (jar' = jar /\ owner' = owner) \/ owner' # u
  <2>1. CASE Answered(t, s)
    <3>1. /\ doc'[t] # None
          /\ \A u \in Tab : u # t => doc'[u] = doc[u] /\ pending'[u] = pending[u]
      BY <1>2, <1>4, <2>1, Drawn DEF Answered
    <3>. QED
      BY <2>1, <3>1 DEF Answered
  <2>2. CASE Lost
    BY <1>5, <2>2, LostKeeps DEF Lost
  <2>. QED
    BY <1>4, <2>1, <2>2
<1>3. ASSUME NEW u \in Tab PROVE QueueOf(u)'
  <2>1. CASE u = t
    <3>1. Loaded(t)' /\ loading'[t] = None /\ ~sure'[t]
      BY <1>4, <1>5, <1>6 DEF Loaded
    <3>. QED
      BY <2>1, <3>1, UnsureKeeps
  <2>2. CASE u # t
    <3>1. SameTab(u)
      BY <1>4, <1>6, <2>2 DEF SameTab
    <3>. QED
      BY <1>6, <2>2, <3>1, OthersKeep DEF QueueInv, QueueOf
  <2>. QED
    BY <2>1, <2>2
<1>. QED
  BY <1>3 DEF QueueInv, QueueOf

LEMMA FailuresQueue ==
  ASSUME PlannerInv, QueueInv, NEW t \in Tab, LoadFails(t) \/ ImportFails(t) PROVE QueueInv'
<1>1. /\ UNCHANGED <<jar, doc, pending, chain, saving, clicks, owner, meant, sure>>
      /\ loading'[t] = loading[t] \/ loading'[t] = None
      /\ importing'[t] = importing[t] \/ importing'[t] = None
  BY DEF LoadFails, ImportFails, PlannerInv, TypeOK
<1>3. ASSUME NEW u \in Tab PROVE QueueOf(u)'
  <2>1. CASE u = t
    <3>1. Loaded(t)' /\ InStep(t)' /\ Owns(t)' /\ Pending(t)'
      BY <1>1 DEF QueueInv, Loaded, InStep, Owns, Agrees, Corrections, Pending
    <3>. QED
      BY <2>1, <3>1 DEF QueueOf
  <2>2. CASE u # t
    <3>1. SameTab(u) /\ jar' = jar /\ owner' = owner
      BY <2>2 DEF LoadFails, ImportFails, PlannerInv, TypeOK, SameTab
    <3>. QED
      BY <3>1, OthersKeep DEF QueueInv, QueueOf
  <2>. QED
    BY <2>1, <2>2
<1>. QED
  BY <1>3 DEF QueueInv, QueueOf

LEMMA QueueStep == PlannerInv /\ QueueInv /\ [Next]_vars => QueueInv'
<1>. SUFFICES ASSUME PlannerInv, QueueInv, [Next]_vars PROVE QueueInv'
  OBVIOUS
<1>1. CASE Next
  <2>1. PICK t \in Tab :
          \/ Open(t) \/ Arrives(t) \/ Runs(t) \/ Settles(t) \/ Imported(t) \/ ImportFails(t)
          \/ \E c \in Clicks : save(t, c)
          \/ \E team \in Team : importTeam(t, team)
    BY <1>1 DEF Next
  <2>2. CASE Open(t)
    BY <2>2, OpenQueue
  <2>3. CASE Arrives(t)
    BY <2>3, stateQueue, FailuresQueue DEF Arrives
  <2>4. CASE Runs(t)
    BY <2>4, sendSaveQueue, ThrowsQueue DEF Runs
  <2>5. CASE Settles(t)
    BY <2>5, saveSessionQueue, SaveFailsQueue DEF Settles
  <2>6. CASE Imported(t)
    BY <2>6, ImportedQueue
  <2>7. CASE ImportFails(t)
    BY <2>7, FailuresQueue
  <2>8. CASE \E c \in Clicks : save(t, c)
    BY <2>8, saveQueue
  <2>9. CASE \E team \in Team : importTeam(t, team)
    BY <2>9, importTeamQueue
  <2>. QED
    BY <2>1, <2>2, <2>3, <2>4, <2>5, <2>6, <2>7, <2>8, <2>9
<1>2. CASE UNCHANGED vars
  BY <1>2 DEF vars, QueueInv, Loaded, InStep, Owns, Agrees, Corrections, Pending
<1>. QED
  BY <1>1, <1>2

LEMMA QueueStart == Init => QueueInv
  BY NoneIsApart DEF Init, QueueInv, Loaded, InStep, Owns, Pending

LEMMA QueueHolds == Spec => []QueueInv
  BY QueueStart, QueueStep, Inductive, PTL DEF Spec

(* A tab that is done saving finds in the cookie what its reader clicked,  *)
(* in the order of the clicks, whatever the other tabs did before it.      *)
THEOREM NoClickIsLost == Spec => []NoneIsDropped
<1>1. PlannerInv /\ QueueInv => NoneIsDropped
  <2>. SUFFICES ASSUME PlannerInv, QueueInv, NEW t \in Tab, owner = t, sure[t], Idle(t)
                PROVE  Corrections(jar) = Corrections(meant[t])
    BY DEF NoneIsDropped
  <2>1. PICK path : Leads(path, pending[t], <<>>, meant[t])
    BY DEF QueueInv, Pending, Idle
  <2>2. Corrections(pending[t]) = Corrections(meant[t])
    BY <2>1, LeadsArrives
  <2>3. pending[t] = doc[t] /\ Corrections(doc[t]) = Corrections(jar)
    BY DEF QueueInv, InStep, Owns, Agrees, Idle
  <2>. QED
    BY <2>2, <2>3
<1>. QED
  BY <1>1, Inductive, QueueHolds, PTL

(* What an idle page would save is the session that is stored.             *)
THEOREM PageMirrorsCookie == Spec => []PageIsStored
<1>1. QueueInv => PageIsStored
  BY DEF QueueInv, InStep, Owns, Agrees, PageIsStored, Idle
<1>. QED
  BY <1>1, QueueHolds, PTL
=============================================================================

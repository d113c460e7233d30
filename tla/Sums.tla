-------------------------------- MODULE Sums --------------------------------
(***************************************************************************)
(* Sums of a function over a finite set, SumFunctionOnSet of the community *)
(* modules: what the money of a season and the figures of a squad search   *)
(* are.  The fold it is defined by recurses over the set, and induction    *)
(* over it is the choice of a least subset that would fail.  Then folds at  *)
(* large, and the places of a strict order.                                *)
(***************************************************************************)
EXTENDS Integers, FiniteSetsExt, Functions, FiniteSetTheorems, WellFoundedInduction, TLAPS

-----------------------------------------------------------------------------

Pick(s) == CHOOSE x \in s : TRUE

(* A table of the sums of f over the subsets of S.                         *)
Tabulates(it, f, S) ==
  it = [s \in SUBSET S |-> IF s = {} THEN 0 ELSE f[Pick(s)] + it[s \ {Pick(s)}]]

Table(f, S) == CHOOSE it : Tabulates(it, f, S)

LEMMA SumIsTable ==
  ASSUME NEW f, NEW S
  PROVE  SumFunctionOnSet(f, S) = Table(f, S)[S]
BY DEF SumFunctionOnSet, FoldFunctionOnSet, MapThenFoldSet, Table, Tabulates, Pick

LEMMA PickIsIn == ASSUME NEW s, s # {} PROVE Pick(s) \in s
BY DEF Pick

(* A finite set that fails a property has a least subset that does.        *)
LEMMA LeastSubset ==
  ASSUME NEW S, IsFiniteSet(S), NEW B, B \subseteq SUBSET S, B # {}
  PROVE  \E s \in B : \A u \in SUBSET s : u # s => u \notin B
<1>1. IsWellFoundedOn(StrictSubsetOrdering(S), SUBSET S)
  BY FS_StrictSubsetOrderingWellFounded, FS_FiniteSubsetsOfFinite
<1>2. PICK s \in B : \A u \in B : <<u, s>> \notin StrictSubsetOrdering(S)
  BY <1>1, WFMin
<1>3. ASSUME NEW u \in SUBSET s, u # s, u \in B PROVE FALSE
  <2>1. <<u, s>> \in StrictSubsetOrdering(S)
    BY <1>3 DEF StrictSubsetOrdering
  <2>. QED
    BY <1>2, <1>3, <2>1
<1>. QED
  BY <1>2, <1>3

(* One table of a set holds the tables of its subsets, and no other is one.*)
Rows(f, S) == [s \in SUBSET S |-> SumFunctionOnSet(f, s)]

LEMMA TableOfSums ==
  ASSUME NEW f, NEW S, IsFiniteSet(S)
  PROVE  Tabulates(Rows(f, S), f, S)
<1>. DEFINE Good(s) == \A it : Tabulates(it, f, s) <=> it = Rows(f, s)
            B == {s \in SUBSET S : ~Good(s)}
<1>1. SUFFICES ASSUME B # {} PROVE FALSE
  <2>1. Good(S)
    BY <1>1
  <2>. QED
    BY <2>1
<1>2. PICK s \in B : \A u \in SUBSET s : u # s => u \notin B
  <2>. HIDE DEF B
  <2>1. B \subseteq SUBSET S
    BY DEF B
  <2>. QED
    BY <1>1, <2>1, LeastSubset
<1>3. ASSUME NEW u \in SUBSET s, u # s PROVE Good(u)
  BY <1>2, <1>3
<1>. DEFINE p == Pick(s)
            Last == IF s = {} THEN 0 ELSE f[p] + SumFunctionOnSet(f, s \ {p})
            J == [u \in SUBSET s |-> IF u = s THEN Last ELSE SumFunctionOnSet(f, u)]
<1>p. s # {} => p \in s
  BY PickIsIn
<1>. HIDE DEF p, Good
<1>4. ASSUME NEW u \in SUBSET s, u # s, u # {}
      PROVE  SumFunctionOnSet(f, u) = f[Pick(u)] + SumFunctionOnSet(f, u \ {Pick(u)})
  <2>1. Tabulates(Rows(f, u), f, u)
    BY <1>3, <1>4 DEF Good
  <2>2. u \in SUBSET u /\ u \ {Pick(u)} \in SUBSET u
    OBVIOUS
  <2>3. Rows(f, u)[u] = f[Pick(u)] + Rows(f, u)[u \ {Pick(u)}]
    BY <1>4, <2>1, <2>2 DEF Tabulates
  <2>. QED
    BY <2>2, <2>3 DEF Rows
<1>5. SumFunctionOnSet(f, {}) = 0
  <2>1. \A it : Tabulates(it, f, {}) <=> it = [u \in SUBSET {} |-> 0]
    <3>. SUFFICES ASSUME NEW it PROVE Tabulates(it, f, {}) <=> it = [u \in SUBSET {} |-> 0]
      OBVIOUS
    <3>1. [u \in SUBSET {} |-> IF u = {} THEN 0 ELSE f[Pick(u)] + it[u \ {Pick(u)}]] = [u \in SUBSET {} |-> 0]
      OBVIOUS
    <3>. QED
      BY <3>1 DEF Tabulates
  <2>2. Table(f, {}) = [u \in SUBSET {} |-> 0]
    BY <2>1 DEF Table
  <2>. QED
    BY <2>2, SumIsTable
<1>6. Tabulates(J, f, s)
  <2>1. ASSUME NEW u \in SUBSET s
        PROVE  J[u] = IF u = {} THEN 0 ELSE f[Pick(u)] + J[u \ {Pick(u)}]
    <3>1. CASE u = {}
      BY <1>5, <3>1
    <3>2. CASE u # {} /\ u # s
      <4>1. u \ {Pick(u)} \in SUBSET s /\ u \ {Pick(u)} # s
        BY <3>2
      <4>. QED
        BY <1>4, <3>2, <4>1
    <3>3. CASE u # {} /\ u = s
      <4>1. s \ {p} \in SUBSET s /\ s \ {p} # s
        BY <1>p, <3>3
      <4>. QED
        BY <3>3, <4>1 DEF p
    <3>. QED
      BY <3>1, <3>2, <3>3
  <2>2. J = [u \in SUBSET s |-> J[u]]
    OBVIOUS
  <2>. HIDE DEF J
  <2>. QED
    BY <2>1, <2>2 DEF Tabulates
<1>7. ASSUME NEW it, Tabulates(it, f, s) PROVE it = J
  <2>1. ASSUME NEW u \in SUBSET s, u # s PROVE it[u] = SumFunctionOnSet(f, u)
    <3>. DEFINE r == [w \in SUBSET u |-> it[w]]
    <3>1. ASSUME NEW w \in SUBSET u
          PROVE  r[w] = IF w = {} THEN 0 ELSE f[Pick(w)] + r[w \ {Pick(w)}]
      <4>1. w \in SUBSET s /\ w \ {Pick(w)} \in SUBSET u
        OBVIOUS
      <4>2. it[w] = IF w = {} THEN 0 ELSE f[Pick(w)] + it[w \ {Pick(w)}]
        BY <1>7, <4>1 DEF Tabulates
      <4>. QED
        BY <4>1, <4>2
    <3>2. r = [w \in SUBSET u |-> r[w]]
      OBVIOUS
    <3>. HIDE DEF r
    <3>3. Tabulates(r, f, u)
      BY <3>1, <3>2 DEF Tabulates
    <3>4. r = Rows(f, u)
      BY <1>3, <2>1, <3>3 DEF Good
    <3>5. r[u] = SumFunctionOnSet(f, u)
      BY <3>4 DEF Rows
    <3>. QED
      BY <3>5 DEF r
  <2>2. it[s] = Last
    <3>1. it[s] = IF s = {} THEN 0 ELSE f[p] + it[s \ {p}]
      BY <1>7 DEF Tabulates, p
    <3>2. s # {} => s \ {p} # s
      BY <1>p
    <3>. QED
      BY <2>1, <3>1, <3>2
  <2>3. it = [u \in SUBSET s |-> it[u]]
    BY <1>7 DEF Tabulates
  <2>4. \A u \in SUBSET s : it[u] = J[u]
    BY <2>1, <2>2
  <2>. HIDE DEF J
  <2>5. J = [u \in SUBSET s |-> J[u]]
    BY DEF J
  <2>. QED
    BY <2>3, <2>4, <2>5
<1>8. Table(f, s) = J
  <2>. HIDE DEF J
  <2>1. \A it : Tabulates(it, f, s) <=> it = J
    BY <1>6, <1>7
  <2>. QED
    BY <2>1 DEF Table
<1>9. J = Rows(f, s)
  <2>1. SumFunctionOnSet(f, s) = Last
    BY <1>8, SumIsTable
  <2>. QED
    BY <2>1 DEF Rows
<1>10. Good(s)
  <2>. HIDE DEF J
  <2>. QED
    BY <1>6, <1>7, <1>9 DEF Good
<1>. QED
  BY <1>10, <1>2

-----------------------------------------------------------------------------
(* What holds of the empty set, and of a set when it holds of the set      *)
(* without one of its members, holds of every subset.                      *)
LEMMA OneByOne ==
  ASSUME NEW S, IsFiniteSet(S), NEW B, {} \in B,
         \A s \in SUBSET S : \A x \in s : s \ {x} \in B => s \in B
  PROVE  S \in B
<1>. DEFINE Bad == {s \in SUBSET S : s \notin B}
<1>. SUFFICES ASSUME S \notin B PROVE FALSE
  OBVIOUS
<1>1. S \in Bad /\ Bad \subseteq SUBSET S
  OBVIOUS
<1>. HIDE DEF Bad
<1>2. PICK s \in Bad : \A u \in SUBSET s : u # s => u \notin Bad
  BY <1>1, LeastSubset
<1>3. s \in SUBSET S /\ s \notin B
  BY <1>2 DEF Bad
<1>4. PICK x \in s : TRUE
  BY <1>3
<1>5. s \ {x} \in SUBSET s /\ s \ {x} # s
  OBVIOUS
<1>6. s \ {x} \in B
  BY <1>2, <1>3, <1>5 DEF Bad
<1>. QED
  BY <1>3, <1>6

LEMMA SumEmpty == ASSUME NEW f PROVE SumFunctionOnSet(f, {}) = 0
<1>1. Tabulates(Rows(f, {}), f, {})
  BY TableOfSums, FS_EmptySet
<1>2. {} \in SUBSET {}
  OBVIOUS
<1>3. Rows(f, {})[{}] = 0
  BY <1>1, <1>2 DEF Tabulates
<1>. QED
  BY <1>2, <1>3 DEF Rows

LEMMA SumPicks ==
  ASSUME NEW f, NEW S, IsFiniteSet(S), S # {}
  PROVE  SumFunctionOnSet(f, S) = f[Pick(S)] + SumFunctionOnSet(f, S \ {Pick(S)})
<1>1. Tabulates(Rows(f, S), f, S)
  BY TableOfSums
<1>2. S \in SUBSET S /\ S \ {Pick(S)} \in SUBSET S
  OBVIOUS
<1>3. Rows(f, S)[S] = f[Pick(S)] + Rows(f, S)[S \ {Pick(S)}]
  BY <1>1, <1>2 DEF Tabulates
<1>. QED
  BY <1>2, <1>3 DEF Rows

LEMMA SumType ==
  ASSUME NEW f, NEW S, IsFiniteSet(S), \A x \in S : f[x] \in Int
  PROVE  SumFunctionOnSet(f, S) \in Int
<1>. DEFINE Bad == {s \in SUBSET S : SumFunctionOnSet(f, s) \notin Int}
<1>. SUFFICES ASSUME Bad # {} PROVE FALSE
  OBVIOUS
<1>1. Bad \subseteq SUBSET S
  OBVIOUS
<1>. HIDE DEF Bad
<1>2. PICK s \in Bad : \A u \in SUBSET s : u # s => u \notin Bad
  BY <1>1, LeastSubset
<1>3. s \in SUBSET S /\ SumFunctionOnSet(f, s) \notin Int
  BY <1>2 DEF Bad
<1>4. s # {} /\ IsFiniteSet(s)
  <2>1. SumFunctionOnSet(f, {}) \in Int
    BY SumEmpty
  <2>. QED
    BY <1>3, <2>1, FS_Subset
<1>5. Pick(s) \in s /\ f[Pick(s)] \in Int
  BY <1>3, <1>4, PickIsIn
<1>6. SumFunctionOnSet(f, s \ {Pick(s)}) \in Int
  <2>1. s \ {Pick(s)} \in SUBSET s /\ s \ {Pick(s)} # s
    BY <1>5
  <2>. QED
    BY <1>2, <1>3, <2>1 DEF Bad
<1>. QED
  BY <1>3, <1>4, <1>5, <1>6, SumPicks

(* The order of summation does not matter: any member may be taken out.    *)
LEMMA SumRemove ==
  ASSUME NEW f, NEW S, IsFiniteSet(S), \A y \in S : f[y] \in Int, NEW x \in S
  PROVE  SumFunctionOnSet(f, S) = f[x] + SumFunctionOnSet(f, S \ {x})
<1>. DEFINE Good(s) == \A y \in s : SumFunctionOnSet(f, s) = f[y] + SumFunctionOnSet(f, s \ {y})
            Bad == {s \in SUBSET S : ~Good(s)}
<1>. SUFFICES ASSUME Bad # {} PROVE FALSE
  <2>1. S \notin Bad => Good(S)
    OBVIOUS
  <2>. QED
    BY <2>1
<1>1. Bad \subseteq SUBSET S
  OBVIOUS
<1>. HIDE DEF Bad
<1>2. PICK s \in Bad : \A u \in SUBSET s : u # s => u \notin Bad
  BY <1>1, LeastSubset
<1>3. s \in SUBSET S /\ ~Good(s)
  BY <1>2 DEF Bad
<1>4. PICK y \in s : SumFunctionOnSet(f, s) # f[y] + SumFunctionOnSet(f, s \ {y})
  BY <1>3
<1>5. ASSUME NEW u \in SUBSET s, u # s PROVE Good(u)
  <2>1. u \notin Bad /\ u \in SUBSET S
    BY <1>2, <1>3, <1>5
  <2>. QED
    BY <2>1 DEF Bad
<1>6. \A u \in SUBSET s : IsFiniteSet(u) /\ SumFunctionOnSet(f, u) \in Int
  <2>. TAKE u \in SUBSET s
  <2>1. IsFiniteSet(u) /\ \A z \in u : f[z] \in Int
    BY <1>3, FS_Subset
  <2>. QED
    BY <2>1, SumType
<1>. DEFINE p == Pick(s)
<1>7. p \in s
  BY <1>4, PickIsIn
<1>8. SumFunctionOnSet(f, s) = f[p] + SumFunctionOnSet(f, s \ {p})
  BY <1>4, <1>6, SumPicks
<1>. HIDE DEF p
<1>9. y # p
  BY <1>4, <1>8
<1>10. SumFunctionOnSet(f, s \ {p}) = f[y] + SumFunctionOnSet(f, (s \ {p}) \ {y})
  <2>1. s \ {p} \in SUBSET s /\ s \ {p} # s /\ y \in s \ {p}
    BY <1>7, <1>9
  <2>2. Good(s \ {p})
    BY <1>5, <2>1
  <2>. QED
    BY <2>1, <2>2
<1>11. SumFunctionOnSet(f, s \ {y}) = f[p] + SumFunctionOnSet(f, (s \ {y}) \ {p})
  <2>1. s \ {y} \in SUBSET s /\ s \ {y} # s /\ p \in s \ {y}
    BY <1>7, <1>9
  <2>2. Good(s \ {y})
    BY <1>5, <2>1
  <2>. QED
    BY <2>1, <2>2
<1>12. (s \ {p}) \ {y} = (s \ {y}) \ {p} /\ (s \ {p}) \ {y} \in SUBSET s
  OBVIOUS
<1>13. f[p] \in Int /\ f[y] \in Int /\ SumFunctionOnSet(f, (s \ {p}) \ {y}) \in Int
  BY <1>3, <1>6, <1>7, <1>12
<1>. DEFINE r == SumFunctionOnSet(f, (s \ {p}) \ {y})
<1>14. SumFunctionOnSet(f, s) = f[p] + (f[y] + r) /\ SumFunctionOnSet(f, s \ {y}) = f[p] + r
  BY <1>8, <1>10, <1>11, <1>12
<1>. HIDE DEF r
<1>15. f[p] + (f[y] + r) = f[y] + (f[p] + r)
  <2>1. r \in Int
    BY <1>13 DEF r
  <2>. QED
    BY <1>13, <2>1
<1>. QED
  BY <1>4, <1>14, <1>15

-----------------------------------------------------------------------------
(* What two sums have to do with each other.                               *)

(* A sum over part of a set and the sum over the rest.                     *)
LEMMA SumSplits ==
  ASSUME NEW f, NEW S, IsFiniteSet(S), \A y \in S : f[y] \in Int, NEW T \in SUBSET S
  PROVE  SumFunctionOnSet(f, S) = SumFunctionOnSet(f, T) + SumFunctionOnSet(f, S \ T)
<1>. DEFINE B == {s \in SUBSET T :
                   SumFunctionOnSet(f, S) = SumFunctionOnSet(f, s) + SumFunctionOnSet(f, S \ s)}
<1>0. \A u \in SUBSET S : IsFiniteSet(u) /\ SumFunctionOnSet(f, u) \in Int
  <2>. TAKE u \in SUBSET S
  <2>1. IsFiniteSet(u) /\ \A z \in u : f[z] \in Int
    BY FS_Subset
  <2>. QED
    BY <2>1, SumType
<1>1. {} \in B
  <2>1. S \ {} = S /\ SumFunctionOnSet(f, S) \in Int
    BY <1>0
  <2>. QED
    BY <2>1, SumEmpty
<1>2. ASSUME NEW s \in SUBSET T, NEW x \in s, s \ {x} \in B PROVE s \in B
  <2>. DEFINE u == s \ {x}
  <2>1. SumFunctionOnSet(f, S) = SumFunctionOnSet(f, u) + SumFunctionOnSet(f, S \ u)
    BY <1>2
  <2>2. SumFunctionOnSet(f, s) = f[x] + SumFunctionOnSet(f, u)
    <3>1. IsFiniteSet(s) /\ \A z \in s : f[z] \in Int
      BY <1>0
    <3>. QED
      BY <3>1, SumRemove
  <2>3. SumFunctionOnSet(f, S \ u) = f[x] + SumFunctionOnSet(f, S \ s)
    <3>1. x \in S \ u /\ (S \ u) \ {x} = S \ s /\ S \ u \in SUBSET S
      OBVIOUS
    <3>2. IsFiniteSet(S \ u) /\ \A z \in S \ u : f[z] \in Int
      BY <1>0, <3>1
    <3>. HIDE DEF u
    <3>. QED
      BY <3>1, <3>2, SumRemove
  <2>4. /\ f[x] \in Int /\ SumFunctionOnSet(f, u) \in Int
        /\ SumFunctionOnSet(f, S \ s) \in Int
    BY <1>0
  <2>. HIDE DEF u
  <2>5. SumFunctionOnSet(f, S) = SumFunctionOnSet(f, s) + SumFunctionOnSet(f, S \ s)
    BY <2>1, <2>2, <2>3, <2>4
  <2>. QED
    BY <2>5
<1>. HIDE DEF B
<1>3. IsFiniteSet(T)
  BY <1>0
<1>4. T \in B
  BY <1>1, <1>2, <1>3, OneByOne
<1>. QED
  BY <1>4 DEF B

(* Sums of numbers that add up, one by one, add up.                        *)
LEMMA SumAdds ==
  ASSUME NEW f, NEW g, NEW h, NEW S, IsFiniteSet(S),
         \A y \in S : f[y] \in Int /\ g[y] \in Int /\ h[y] = f[y] + g[y]
  PROVE  SumFunctionOnSet(h, S) = SumFunctionOnSet(f, S) + SumFunctionOnSet(g, S)
<1>. DEFINE B == {s \in SUBSET S :
                   SumFunctionOnSet(h, s) = SumFunctionOnSet(f, s) + SumFunctionOnSet(g, s)}
<1>1. {} \in B
  BY SumEmpty
<1>2. ASSUME NEW s \in SUBSET S, NEW x \in s, s \ {x} \in B PROVE s \in B
  <2>. DEFINE u == s \ {x}
  <2>1. IsFiniteSet(s) /\ IsFiniteSet(u) /\ \A z \in s : f[z] \in Int /\ g[z] \in Int /\ h[z] \in Int
    BY FS_Subset
  <2>2. /\ SumFunctionOnSet(f, s) = f[x] + SumFunctionOnSet(f, u)
        /\ SumFunctionOnSet(g, s) = g[x] + SumFunctionOnSet(g, u)
        /\ SumFunctionOnSet(h, s) = h[x] + SumFunctionOnSet(h, u)
    BY <2>1, SumRemove
  <2>3. SumFunctionOnSet(f, u) \in Int /\ SumFunctionOnSet(g, u) \in Int
    BY <2>1, SumType
  <2>4. SumFunctionOnSet(h, u) = SumFunctionOnSet(f, u) + SumFunctionOnSet(g, u)
    BY <1>2
  <2>5. f[x] \in Int /\ g[x] \in Int /\ h[x] = f[x] + g[x]
    OBVIOUS
  <2>. HIDE DEF u
  <2>6. SumFunctionOnSet(h, s) = SumFunctionOnSet(f, s) + SumFunctionOnSet(g, s)
    BY <2>2, <2>3, <2>4, <2>5
  <2>. QED
    BY <2>6
<1>. HIDE DEF B
<1>3. S \in B
  BY <1>1, <1>2, OneByOne
<1>. QED
  BY <1>3 DEF B

(* A sum of what is nowhere negative is not negative.                      *)
LEMMA SumPositive ==
  ASSUME NEW f, NEW S, IsFiniteSet(S), \A y \in S : f[y] \in Nat
  PROVE  SumFunctionOnSet(f, S) \in Nat
<1>. DEFINE B == {s \in SUBSET S : SumFunctionOnSet(f, s) \in Nat}
<1>1. {} \in B
  BY SumEmpty
<1>2. ASSUME NEW s \in SUBSET S, NEW x \in s, s \ {x} \in B PROVE s \in B
  <2>1. IsFiniteSet(s) /\ (\A z \in s : f[z] \in Int) /\ f[x] \in Nat
    BY FS_Subset
  <2>2. SumFunctionOnSet(f, s) = f[x] + SumFunctionOnSet(f, s \ {x})
    BY <2>1, SumRemove
  <2>. QED
    BY <1>2, <2>1, <2>2
<1>. HIDE DEF B
<1>3. S \in B
  BY <1>1, <1>2, OneByOne
<1>. QED
  BY <1>3 DEF B

(* Equal numbers have equal sums.                                          *)
LEMMA SumSame ==
  ASSUME NEW f, NEW g, NEW S, IsFiniteSet(S), \A y \in S : f[y] \in Int /\ f[y] = g[y]
  PROVE  SumFunctionOnSet(f, S) = SumFunctionOnSet(g, S)
<1>. DEFINE zero == [y \in S |-> 0]
<1>1. SumFunctionOnSet(zero, S) = 0
  <2>. DEFINE B == {s \in SUBSET S : SumFunctionOnSet(zero, s) = 0}
  <2>1. {} \in B
    BY SumEmpty
  <2>2. ASSUME NEW s \in SUBSET S, NEW x \in s, s \ {x} \in B PROVE s \in B
    <3>1. IsFiniteSet(s) /\ (\A z \in s : zero[z] = 0)
      BY FS_Subset
    <3>2. SumFunctionOnSet(zero, s \ {x}) = 0
      BY <2>2
    <3>. HIDE DEF zero
    <3>3. SumFunctionOnSet(zero, s) = zero[x] + SumFunctionOnSet(zero, s \ {x})
      BY <3>1, SumRemove
    <3>4. SumFunctionOnSet(zero, s) = 0
      BY <3>1, <3>2, <3>3
    <3>. QED
      BY <3>4
  <2>. HIDE DEF B
  <2>3. S \in B
    BY <2>1, <2>2, OneByOne
  <2>. QED
    BY <2>3 DEF B
<1>2. \A y \in S : f[y] \in Int /\ zero[y] \in Int /\ g[y] = f[y] + zero[y]
  OBVIOUS
<1>. HIDE DEF zero
<1>3. SumFunctionOnSet(g, S) = SumFunctionOnSet(f, S) + SumFunctionOnSet(zero, S)
  BY <1>2, SumAdds
<1>. QED
  BY <1>1, <1>3, SumType

(* A function that is nowhere above another has no greater sum.            *)
LEMMA SumMonotone ==
  ASSUME NEW f, NEW g, NEW S, IsFiniteSet(S),
         \A y \in S : f[y] \in Int /\ g[y] \in Int /\ f[y] <= g[y]
  PROVE  SumFunctionOnSet(f, S) <= SumFunctionOnSet(g, S)
<1>. DEFINE d == [y \in S |-> g[y] - f[y]]
<1>1. \A y \in S : f[y] \in Int /\ d[y] \in Nat /\ g[y] = f[y] + d[y]
  OBVIOUS
<1>. HIDE DEF d
<1>2. SumFunctionOnSet(g, S) = SumFunctionOnSet(f, S) + SumFunctionOnSet(d, S)
  BY <1>1, SumAdds
<1>3. SumFunctionOnSet(d, S) \in Nat /\ SumFunctionOnSet(f, S) \in Int
  BY <1>1, SumPositive, SumType
<1>. QED
  BY <1>2, <1>3

(* What a sum loses where only a part of its terms change is what that     *)
(* part loses.                                                             *)
LEMMA SumChanges ==
  ASSUME NEW f, NEW g, NEW d, NEW S, IsFiniteSet(S), NEW T \in SUBSET S,
         \A y \in S : f[y] \in Int /\ g[y] \in Int,
         \A y \in T : d[y] = f[y] - g[y],
         \A y \in S \ T : f[y] = g[y]
  PROVE  SumFunctionOnSet(f, S) = SumFunctionOnSet(g, S) + SumFunctionOnSet(d, T)
<1>1. IsFiniteSet(T) /\ IsFiniteSet(S \ T)
  BY FS_Subset
<1>2. /\ SumFunctionOnSet(f, S) = SumFunctionOnSet(f, T) + SumFunctionOnSet(f, S \ T)
      /\ SumFunctionOnSet(g, S) = SumFunctionOnSet(g, T) + SumFunctionOnSet(g, S \ T)
  BY SumSplits
<1>3. SumFunctionOnSet(f, S \ T) = SumFunctionOnSet(g, S \ T)
  BY <1>1, SumSame
<1>4. SumFunctionOnSet(f, T) = SumFunctionOnSet(g, T) + SumFunctionOnSet(d, T)
  <2>1. \A y \in T : g[y] \in Int /\ d[y] \in Int /\ f[y] = g[y] + d[y]
    OBVIOUS
  <2>. QED
    BY <1>1, <2>1, SumAdds
<1>5. /\ SumFunctionOnSet(g, T) \in Int /\ SumFunctionOnSet(d, T) \in Int
      /\ SumFunctionOnSet(g, S \ T) \in Int
  <2>1. \A y \in T : g[y] \in Int /\ d[y] \in Int
    OBVIOUS
  <2>. QED
    BY <1>1, <2>1, SumType
<1>. QED
  BY <1>2, <1>3, <1>4, <1>5

(* A sum over the members of a set is a sum over the places they take.     *)
LEMMA SumPlaces ==
  ASSUME NEW S, IsFiniteSet(S), NEW at, \A x, y \in S : at[x] = at[y] => x = y,
         NEW f, NEW g, \A y \in S : f[at[y]] \in Int /\ g[y] = f[at[y]]
  PROVE  SumFunctionOnSet(g, S) = SumFunctionOnSet(f, {at[y] : y \in S})
<1>. DEFINE B == {s \in SUBSET S :
                   SumFunctionOnSet(g, s) = SumFunctionOnSet(f, {at[y] : y \in s})}
<1>1. {} \in B
  <2>1. {at[y] : y \in {}} = {}
    OBVIOUS
  <2>. QED
    BY <2>1, SumEmpty
<1>2. ASSUME NEW s \in SUBSET S, NEW x \in s, s \ {x} \in B PROVE s \in B
  <2>. DEFINE u == s \ {x}
             I == {at[y] : y \in s}
             J == {at[y] : y \in u}
  <2>1. IsFiniteSet(s) /\ \A z \in s : g[z] \in Int
    BY FS_Subset
  <2>2. SumFunctionOnSet(g, s) = g[x] + SumFunctionOnSet(g, u)
    BY <2>1, SumRemove
  <2>3. J = I \ {at[x]} /\ at[x] \in I
    OBVIOUS
  <2>4. IsFiniteSet(I) /\ \A z \in I : f[z] \in Int
    <3>1. [y \in s |-> at[y]] \in Surjection(s, I)
      BY DEF Surjection
    <3>2. IsFiniteSet(I)
      BY <2>1, <3>1, FS_Surjection
    <3>. QED
      BY <3>2
  <2>. HIDE DEF I, J
  <2>5. SumFunctionOnSet(f, I) = f[at[x]] + SumFunctionOnSet(f, J)
    BY <2>3, <2>4, SumRemove
  <2>6. SumFunctionOnSet(g, u) = SumFunctionOnSet(f, J)
    BY <1>2 DEF J
  <2>7. SumFunctionOnSet(g, s) = SumFunctionOnSet(f, I)
    BY <2>2, <2>5, <2>6
  <2>. QED
    BY <2>7 DEF I
<1>. HIDE DEF B
<1>3. S \in B
  BY <1>1, <1>2, OneByOne
<1>. QED
  BY <1>3 DEF B

-----------------------------------------------------------------------------
(* Sums and counts taken group by group, and two sets of one size          *)
(* compared.                                                               *)

(* A count is a sum of ones.                                               *)
LEMMA CountIsSum ==
  ASSUME NEW S, IsFiniteSet(S), NEW f, \A y \in S : f[y] = 1
  PROVE  SumFunctionOnSet(f, S) = Cardinality(S)
<1>. DEFINE B == {s \in SUBSET S : SumFunctionOnSet(f, s) = Cardinality(s)}
<1>1. {} \in B
  BY SumEmpty, FS_EmptySet
<1>2. ASSUME NEW s \in SUBSET S, NEW x \in s, s \ {x} \in B PROVE s \in B
  <2>1. IsFiniteSet(s) /\ (\A z \in s : f[z] \in Int) /\ f[x] = 1
    BY FS_Subset
  <2>2. SumFunctionOnSet(f, s) = f[x] + SumFunctionOnSet(f, s \ {x})
    BY <2>1, SumRemove
  <2>3. Cardinality(s \ {x}) = Cardinality(s) - 1 /\ Cardinality(s) \in Nat
    BY <2>1, FS_RemoveElement, FS_CardinalityType
  <2>. QED
    BY <1>2, <2>1, <2>2, <2>3
<1>. HIDE DEF B
<1>3. S \in B
  BY <1>1, <1>2, OneByOne
<1>. QED
  BY <1>3 DEF B

(* Noughts add up to nothing.                                              *)
LEMMA SumNothing ==
  ASSUME NEW S, IsFiniteSet(S), NEW f, \A y \in S : f[y] = 0
  PROVE  SumFunctionOnSet(f, S) = 0
<1>. DEFINE B == {s \in SUBSET S : SumFunctionOnSet(f, s) = 0}
<1>1. {} \in B
  BY SumEmpty
<1>2. ASSUME NEW s \in SUBSET S, NEW x \in s, s \ {x} \in B PROVE s \in B
  <2>1. IsFiniteSet(s) /\ (\A z \in s : f[z] \in Int) /\ f[x] = 0
    BY FS_Subset
  <2>2. SumFunctionOnSet(f, s) = f[x] + SumFunctionOnSet(f, s \ {x})
    BY <2>1, SumRemove
  <2>. QED
    BY <1>2, <2>1, <2>2
<1>. HIDE DEF B
<1>3. S \in B
  BY <1>1, <1>2, OneByOne
<1>. QED
  BY <1>3 DEF B

(* A sum may be taken group by group.                                      *)
LEMMA SumByGroups ==
  ASSUME NEW f, NEW S, IsFiniteSet(S), \A y \in S : f[y] \in Int,
         NEW I, IsFiniteSet(I), NEW g, \A y \in S : g[y] \in I
  PROVE  SumFunctionOnSet(f, S)
           = SumFunctionOnSet([c \in I |-> SumFunctionOnSet(f, {y \in S : g[y] = c})], I)
<1>. DEFINE Of(s) == [c \in I |-> SumFunctionOnSet(f, {y \in s : g[y] = c})]
            B == {s \in SUBSET S : SumFunctionOnSet(f, s) = SumFunctionOnSet(Of(s), I)}
<1>0. ASSUME NEW s \in SUBSET S, NEW c \in I PROVE Of(s)[c] \in Int
  <2>. DEFINE u == {y \in s : g[y] = c}
  <2>1. IsFiniteSet(u) /\ \A y \in u : f[y] \in Int
    BY FS_Subset
  <2>. HIDE DEF u
  <2>2. SumFunctionOnSet(f, u) \in Int
    BY <2>1, SumType
  <2>. QED
    BY <2>2 DEF u
<1>1. {} \in B
  <2>1. \A c \in I : Of({})[c] = 0
    <3>. TAKE c \in I
    <3>1. {y \in {} : g[y] = c} = {}
      OBVIOUS
    <3>. QED
      BY <3>1, SumEmpty
  <2>. DEFINE h == Of({})
  <2>. HIDE DEF h
  <2>2. SumFunctionOnSet(h, I) = 0
    <3>1. \A y \in I : h[y] = 0
      BY <2>1 DEF h
    <3>. QED
      BY <3>1, SumNothing
  <2>3. SumFunctionOnSet(f, {}) = 0
    BY SumEmpty
  <2>4. SumFunctionOnSet(f, {}) = SumFunctionOnSet(h, I)
    BY <2>2, <2>3
  <2>. QED
    BY <2>4 DEF h
<1>2. ASSUME NEW s \in SUBSET S, NEW x \in s, s \ {x} \in B PROVE s \in B
  <2>. DEFINE u == s \ {x}
             d == [c \in {g[x]} |-> f[x]]
  <2>1. IsFiniteSet(s) /\ (\A z \in s : f[z] \in Int) /\ f[x] \in Int /\ g[x] \in I /\ u \in SUBSET S
    BY FS_Subset
  <2>2. SumFunctionOnSet(f, s) = f[x] + SumFunctionOnSet(f, u)
    BY <2>1, SumRemove
  <2>3. ASSUME NEW c \in I, c # g[x] PROVE Of(s)[c] = Of(u)[c]
    <3>1. {y \in s : g[y] = c} = {y \in u : g[y] = c}
      BY <2>3
    <3>. QED
      BY <3>1
  <2>4. Of(s)[g[x]] = f[x] + Of(u)[g[x]]
    <3>. DEFINE v == {y \in s : g[y] = g[x]}
    <3>1. IsFiniteSet(v) /\ (\A y \in v : f[y] \in Int) /\ x \in v
      BY <2>1, FS_Subset
    <3>2. v \ {x} = {y \in u : g[y] = g[x]}
      OBVIOUS
    <3>. HIDE DEF v
    <3>3. SumFunctionOnSet(f, v) = f[x] + SumFunctionOnSet(f, v \ {x})
      BY <3>1, SumRemove
    <3>. QED
      BY <2>1, <3>2, <3>3 DEF v
  <2>5. SumFunctionOnSet(Of(s), I) = SumFunctionOnSet(Of(u), I) + SumFunctionOnSet(d, {g[x]})
    <3>. DEFINE F == Of(s)
               G == Of(u)
    <3>1. \A c \in I : F[c] \in Int /\ G[c] \in Int
      BY <1>0, <2>1
    <3>2. \A c \in {g[x]} : d[c] = F[c] - G[c]
      <4>1. F[g[x]] = f[x] + G[g[x]] /\ G[g[x]] \in Int
        BY <2>1, <2>4, <3>1
      <4>. HIDE DEF F, G
      <4>. QED
        BY <2>1, <4>1
    <3>3. \A c \in I \ {g[x]} : F[c] = G[c]
      BY <2>3
    <3>. HIDE DEF F, G, d
    <3>4. SumFunctionOnSet(F, I) = SumFunctionOnSet(G, I) + SumFunctionOnSet(d, {g[x]})
      BY <2>1, <3>1, <3>2, <3>3, SumChanges
    <3>. QED
      BY <3>4 DEF F, G
  <2>6. SumFunctionOnSet(d, {g[x]}) = f[x]
    <3>1. IsFiniteSet({g[x]}) /\ {g[x]} \ {g[x]} = {} /\ \A y \in {g[x]} : d[y] \in Int
      BY <2>1, FS_Singleton
    <3>2. d[g[x]] = f[x]
      OBVIOUS
    <3>. HIDE DEF d
    <3>3. SumFunctionOnSet(d, {g[x]}) = d[g[x]] + SumFunctionOnSet(d, {g[x]} \ {g[x]})
      BY <3>1, SumRemove
    <3>. QED
      BY <2>1, <3>1, <3>2, <3>3, SumEmpty
  <2>7. SumFunctionOnSet(f, u) = SumFunctionOnSet(Of(u), I) /\ SumFunctionOnSet(f, u) \in Int
    <3>1. IsFiniteSet(u) /\ \A z \in u : f[z] \in Int
      BY <2>1, FS_Subset
    <3>. QED
      BY <1>2, <3>1, SumType
  <2>. HIDE DEF d, Of, u
  <2>8. SumFunctionOnSet(f, s) = SumFunctionOnSet(Of(s), I)
    BY <2>1, <2>2, <2>5, <2>6, <2>7
  <2>. QED
    BY <2>8
<1>. HIDE DEF B
<1>3. S \in B
  BY <1>1, <1>2, OneByOne
<1>. QED
  BY <1>3 DEF B

(* Groups of no less weight make no less in all.                           *)
LEMMA GroupsOutweigh ==
  ASSUME NEW f, NEW S, IsFiniteSet(S), \A y \in S : f[y] \in Int,
         NEW h, NEW T, IsFiniteSet(T), \A y \in T : h[y] \in Int,
         NEW I, IsFiniteSet(I), NEW g, \A y \in S \cup T : g[y] \in I,
         \A c \in I : SumFunctionOnSet(f, {y \in S : g[y] = c}) <= SumFunctionOnSet(h, {y \in T : g[y] = c})
  PROVE  SumFunctionOnSet(f, S) <= SumFunctionOnSet(h, T)
<1>. DEFINE F == [c \in I |-> SumFunctionOnSet(f, {y \in S : g[y] = c})]
            H == [c \in I |-> SumFunctionOnSet(h, {y \in T : g[y] = c})]
<1>1. SumFunctionOnSet(f, S) = SumFunctionOnSet(F, I) /\ SumFunctionOnSet(h, T) = SumFunctionOnSet(H, I)
  BY SumByGroups
<1>2. ASSUME NEW c \in I PROVE F[c] \in Int /\ H[c] \in Int /\ F[c] <= H[c]
  <2>1. {y \in S : g[y] = c} \in SUBSET S /\ {y \in T : g[y] = c} \in SUBSET T
    OBVIOUS
  <2>2. IsFiniteSet({y \in S : g[y] = c}) /\ IsFiniteSet({y \in T : g[y] = c})
    BY <2>1, FS_Subset
  <2>. QED
    BY <2>1, <2>2, SumType
<1>. HIDE DEF F, H
<1>. QED
  BY <1>1, <1>2, SumMonotone

(* The same of the counts.                                                 *)
LEMMA CountsAgree ==
  ASSUME NEW S, IsFiniteSet(S), NEW T, IsFiniteSet(T),
         NEW I, IsFiniteSet(I), NEW g, \A y \in S \cup T : g[y] \in I,
         \A c \in I : Cardinality({y \in S : g[y] = c}) <= Cardinality({y \in T : g[y] = c})
  PROVE  Cardinality(S) <= Cardinality(T)
<1>. DEFINE one == [y \in S \cup T |-> 1]
<1>1. /\ \A X \in SUBSET (S \cup T) : \A y \in X : one[y] = 1
      /\ \A X \in SUBSET (S \cup T) : IsFiniteSet(X)
  BY FS_Union, FS_Subset
<1>. HIDE DEF one
<1>2. \A X \in SUBSET (S \cup T) : SumFunctionOnSet(one, X) = Cardinality(X)
  BY <1>1, CountIsSum
<1>3. \A c : {y \in S : g[y] = c} \in SUBSET (S \cup T) /\ {y \in T : g[y] = c} \in SUBSET (S \cup T)
  OBVIOUS
<1>4. \A c \in I : SumFunctionOnSet(one, {y \in S : g[y] = c}) <= SumFunctionOnSet(one, {y \in T : g[y] = c})
  BY <1>2, <1>3
<1>5. \A y \in S \cup T : one[y] \in Int
  BY <1>1
<1>6. SumFunctionOnSet(one, S) <= SumFunctionOnSet(one, T)
  BY <1>4, <1>5, GroupsOutweigh
<1>. QED
  BY <1>2, <1>6

(* Two sets of one size: the one whose own are lighter than the other's    *)
(* own is lighter.                                                         *)
LEMMA Exchange ==
  ASSUME NEW L, IsFiniteSet(L), NEW H, IsFiniteSet(H), Cardinality(L) = Cardinality(H),
         NEW w, \A y \in L \cup H : w[y] \in Int,
         \A x \in L \ H, y \in H \ L : w[x] <= w[y]
  PROVE  SumFunctionOnSet(w, L) <= SumFunctionOnSet(w, H)
<1>. DEFINE l == L \ H
            h == H \ L
            c == L \cap H
<1>1. /\ IsFiniteSet(l) /\ IsFiniteSet(h) /\ IsFiniteSet(c) /\ Cardinality(l) = Cardinality(h)
      /\ L \ c = l /\ H \ c = h
  <2>1. /\ IsFiniteSet(l) /\ Cardinality(l) = Cardinality(L) - Cardinality(L \cap H)
        /\ IsFiniteSet(h) /\ Cardinality(h) = Cardinality(H) - Cardinality(H \cap L)
    BY FS_Difference
  <2>2. L \cap H = H \cap L
    OBVIOUS
  <2>. QED
    BY <2>1, <2>2, FS_Intersection
<1>2. PICK m : m \in Bijection(l, h)
  BY <1>1, FS_SameCardinalityBij DEF ExistsBijection
<1>3. /\ \A x \in l : m[x] \in h /\ w[m[x]] \in Int /\ w[x] \in Int /\ w[x] <= w[m[x]]
      /\ \A x, y \in l : m[x] = m[y] => x = y
      /\ {m[y] : y \in l} = h
  BY <1>2 DEF Bijection, Injection, Surjection, IsInjective
<1>. DEFINE v == [x \in l |-> w[m[x]]]
<1>4. \A x \in l : v[x] = w[m[x]]
  OBVIOUS
<1>. HIDE DEF l, h, c, v
<1>5. SumFunctionOnSet(v, l) = SumFunctionOnSet(w, {m[y] : y \in l})
  BY <1>1, <1>3, <1>4, SumPlaces
<1>6. SumFunctionOnSet(w, l) <= SumFunctionOnSet(v, l)
  BY <1>1, <1>3, <1>4, SumMonotone
<1>7. c \in SUBSET L /\ c \in SUBSET H
  BY DEF c
<1>8. /\ SumFunctionOnSet(w, L) = SumFunctionOnSet(w, c) + SumFunctionOnSet(w, L \ c)
      /\ SumFunctionOnSet(w, H) = SumFunctionOnSet(w, c) + SumFunctionOnSet(w, H \ c)
  BY <1>7, SumSplits
<1>9. /\ SumFunctionOnSet(w, c) \in Int /\ SumFunctionOnSet(w, l) \in Int
      /\ SumFunctionOnSet(w, h) \in Int
  <2>1. (\A y \in c : w[y] \in Int) /\ (\A y \in l : w[y] \in Int) /\ (\A y \in h : w[y] \in Int)
    BY DEF c, l, h
  <2>. QED
    BY <1>1, <2>1, SumType
<1>10. SumFunctionOnSet(w, l) <= SumFunctionOnSet(w, h)
  BY <1>3, <1>5, <1>6
<1>11. /\ SumFunctionOnSet(w, L) = SumFunctionOnSet(w, c) + SumFunctionOnSet(w, l)
       /\ SumFunctionOnSet(w, H) = SumFunctionOnSet(w, c) + SumFunctionOnSet(w, h)
  BY <1>1, <1>8
<1>. QED
  BY <1>9, <1>10, <1>11

-----------------------------------------------------------------------------
(* A fold tabulates its results for the subsets of S, each from that of    *)
(* the subset without the element that k picks.  There is such a table.    *)
Steps(S, V, base, k, g) ==
  /\ IsFiniteSet(S) /\ base \in V
  /\ \A s \in SUBSET S : s # {} => k[s] \in s
  /\ \A x \in S, v \in V : g[<<x, v>>] \in V

Stepped(h, S, base, k, g) ==
  h = [s \in SUBSET S |-> IF s = {} THEN base ELSE g[<<k[s], h[s \ {k[s]}]>>]]

LEMMA StepTable ==
  ASSUME NEW S, NEW V, NEW base, NEW k, NEW g, Steps(S, V, base, k, g)
  PROVE  \E h : Stepped(h, S, base, k, g) /\ \A s \in SUBSET S : h[s] \in V
<1>. DEFINE Row(h, s) == h[s] = IF s = {} THEN base ELSE g[<<k[s], h[s \ {k[s]}]>>]
            P(n) == \E h : \A s \in SUBSET S : Cardinality(s) <= n => h[s] \in V /\ Row(h, s)
            B == {u \in SUBSET S : P(Cardinality(u))}
<1>. SUFFICES ASSUME IsFiniteSet(S), base \in V,
                     \A s \in SUBSET S : s # {} => k[s] \in s,
                     \A x \in S, v \in V : g[<<x, v>>] \in V
              PROVE  \E h : Stepped(h, S, base, k, g) /\ \A s \in SUBSET S : h[s] \in V
  BY DEF Steps
<1>0. \A s \in SUBSET S : IsFiniteSet(s) /\ Cardinality(s) \in Nat
  BY FS_Subset, FS_CardinalityType
<1>1. {} \in B
  <2>. DEFINE h == [s \in SUBSET S |-> base]
  <2>1. ASSUME NEW s \in SUBSET S, Cardinality(s) <= 0 PROVE s = {}
    BY <1>0, <2>1, FS_EmptySet
  <2>2. \A s \in SUBSET S : Cardinality(s) <= 0 => h[s] \in V /\ Row(h, s)
    BY <2>1
  <2>. HIDE DEF h
  <2>3. P(0)
    BY <2>2
  <2>. QED
    BY <2>3, FS_EmptySet
<1>2. ASSUME NEW u \in SUBSET S, NEW x \in u, u \ {x} \in B PROVE u \in B
  <2>. DEFINE n == Cardinality(u \ {x})
  <2>1. n \in Nat /\ Cardinality(u) = n + 1
    BY <1>0, FS_RemoveElement
  <2>2. PICK h : \A s \in SUBSET S : Cardinality(s) <= n => h[s] \in V /\ Row(h, s)
    BY <1>2
  <2>. DEFINE j == [s \in SUBSET S |-> IF Cardinality(s) <= n THEN h[s] ELSE g[<<k[s], h[s \ {k[s]}]>>]]
  <2>. HIDE DEF n
  <2>3. ASSUME NEW s \in SUBSET S, Cardinality(s) <= n + 1 PROVE j[s] \in V /\ Row(j, s)
    <3>1. CASE s = {}
      <4>1. Cardinality(s) <= n
        BY <2>1, <3>1, FS_EmptySet
      <4>. QED
        BY <2>2, <3>1, <4>1
    <3>2. CASE s # {}
      <4>. DEFINE t == s \ {k[s]}
      <4>1. k[s] \in s /\ t \in SUBSET S /\ Cardinality(t) = Cardinality(s) - 1
        BY <1>0, <3>2, FS_RemoveElement
      <4>2. Cardinality(t) <= n /\ j[t] = h[t] /\ h[t] \in V
        <5>. HIDE DEF t
        <5>1. Cardinality(s) \in Nat /\ Cardinality(t) \in Nat
          BY <1>0, <4>1
        <5>2. Cardinality(t) <= n
          BY <2>1, <2>3, <4>1, <5>1
        <5>. QED
          BY <2>2, <4>1, <5>2
      <4>3. CASE Cardinality(s) <= n
        BY <2>2, <3>2, <4>2, <4>3
      <4>4. CASE ~(Cardinality(s) <= n)
        BY <3>2, <4>1, <4>2, <4>4
      <4>. QED
        BY <4>3, <4>4
    <3>. QED
      BY <3>1, <3>2
  <2>. HIDE DEF j
  <2>4. P(n + 1)
    BY <2>3
  <2>. QED
    BY <2>1, <2>4
<1>. HIDE DEF B
<1>3. S \in B
  BY <1>1, <1>2, OneByOne
<1>4. PICK h : \A s \in SUBSET S : Cardinality(s) <= Cardinality(S) => h[s] \in V /\ Row(h, s)
  BY <1>3 DEF B
<1>. DEFINE j == [s \in SUBSET S |-> h[s]]
<1>5. ASSUME NEW s \in SUBSET S PROVE j[s] \in V /\ Row(j, s)
  <2>1. Cardinality(s) <= Cardinality(S) /\ s \ {k[s]} \in SUBSET S
    BY FS_Subset
  <2>. QED
    BY <1>4, <2>1
<1>6. j = [s \in SUBSET S |-> j[s]]
  OBVIOUS
<1>. HIDE DEF j
<1>7. j = [s \in SUBSET S |-> IF s = {} THEN base ELSE g[<<k[s], j[s \ {k[s]}]>>]]
  BY <1>5, <1>6
<1>. QED
  BY <1>5, <1>7 DEF Stepped

(* What holds of the empty table and survives each step holds of the last. *)
LEMMA StepsKeep ==
  ASSUME NEW S, IsFiniteSet(S), NEW k, NEW J, {} \in J,
         \A s \in SUBSET S : s # {} => k[s] \in s /\ (s \ {k[s]} \in J => s \in J)
  PROVE  S \in J
<1>. DEFINE Bad == {s \in SUBSET S : s \notin J}
<1>. SUFFICES ASSUME S \notin J PROVE FALSE
  OBVIOUS
<1>1. S \in Bad /\ Bad \subseteq SUBSET S
  OBVIOUS
<1>. HIDE DEF Bad
<1>2. PICK s \in Bad : \A u \in SUBSET s : u # s => u \notin Bad
  BY <1>1, LeastSubset
<1>3. s \in SUBSET S /\ s \notin J /\ s # {}
  BY <1>2 DEF Bad
<1>4. s \ {k[s]} \in SUBSET s /\ s \ {k[s]} # s
  BY <1>3
<1>5. s \ {k[s]} \in J
  BY <1>2, <1>3, <1>4 DEF Bad
<1>. QED
  BY <1>3, <1>5

-----------------------------------------------------------------------------
(* The members of A in a strict order R, and how many come before one.     *)
Strict(R, A) ==
  /\ \A x \in A : <<x, x>> \notin R
  /\ \A x, y \in A : x # y => <<x, y>> \in R \/ <<y, x>> \in R
  /\ \A x, y, z \in A : <<x, y>> \in R /\ <<y, z>> \in R => <<x, z>> \in R

Before(R, A, x) == {y \in A : <<y, x>> \in R}

Place(R, A, x) == Cardinality(Before(R, A, x))

(* Places go up in the order, and no two are the same.                     *)
LEMMA PlacesGrow ==
  ASSUME NEW A, IsFiniteSet(A), NEW R, Strict(R, A)
  PROVE  /\ \A x \in A : Place(R, A, x) \in 0..(Cardinality(A) - 1)
         /\ \A x, y \in A : <<x, y>> \in R => Place(R, A, x) < Place(R, A, y)
         /\ \A x, y \in A : Place(R, A, x) = Place(R, A, y) => x = y
<1>1. ASSUME NEW x \in A
      PROVE  IsFiniteSet(Before(R, A, x)) /\ Place(R, A, x) \in Nat /\ Place(R, A, x) < Cardinality(A)
  <2>1. Before(R, A, x) \in SUBSET (A \ {x})
    BY DEF Before, Strict
  <2>2. IsFiniteSet(A \ {x}) /\ Cardinality(A \ {x}) = Cardinality(A) - 1 /\ Cardinality(A) \in Nat
    BY FS_RemoveElement, FS_CardinalityType
  <2>3. IsFiniteSet(Before(R, A, x)) /\ Cardinality(Before(R, A, x)) <= Cardinality(A \ {x})
    BY <2>1, <2>2, FS_Subset
  <2>4. Cardinality(Before(R, A, x)) \in Nat
    BY <2>3, FS_CardinalityType
  <2>. QED
    BY <2>2, <2>3, <2>4 DEF Place
<1>2. ASSUME NEW x \in A, NEW y \in A, <<x, y>> \in R PROVE Place(R, A, x) < Place(R, A, y)
  <2>1. x \in Before(R, A, y)
    BY <1>2 DEF Before
  <2>2. Before(R, A, x) \in SUBSET (Before(R, A, y) \ {x})
    BY <1>2 DEF Before, Strict
  <2>3. /\ IsFiniteSet(Before(R, A, y) \ {x})
        /\ Cardinality(Before(R, A, y) \ {x}) = Cardinality(Before(R, A, y)) - 1
    BY <1>1, <2>1, FS_RemoveElement
  <2>4. Cardinality(Before(R, A, x)) <= Cardinality(Before(R, A, y) \ {x})
    BY <2>2, <2>3, FS_Subset
  <2>. QED
    BY <1>1, <2>3, <2>4 DEF Place
<1>3. ASSUME NEW x \in A, NEW y \in A, Place(R, A, x) = Place(R, A, y) PROVE x = y
  <2>1. ~(Place(R, A, x) < Place(R, A, y)) /\ ~(Place(R, A, y) < Place(R, A, x))
    BY <1>1, <1>3
  <2>. QED
    BY <1>2, <2>1 DEF Strict
<1>4. ASSUME NEW x \in A PROVE Place(R, A, x) \in 0..(Cardinality(A) - 1)
  BY <1>1, FS_CardinalityType
<1>. QED
  BY <1>2, <1>3, <1>4

(* Every place is somebody's.                                              *)
LEMMA PlacesAreTaken ==
  ASSUME NEW A, IsFiniteSet(A), NEW R, Strict(R, A)
  PROVE  \A n \in 0..(Cardinality(A) - 1) : \E x \in A : Place(R, A, x) = n
<1>. DEFINE N == 0..(Cardinality(A) - 1)
            r == [x \in A |-> Place(R, A, x)]
<1>1. IsFiniteSet(N) /\ Cardinality(N) = Cardinality(A)
  <2>1. Cardinality(A) \in Nat
    BY FS_CardinalityType
  <2>2. Cardinality(N) = IF 0 > Cardinality(A) - 1 THEN 0 ELSE (Cardinality(A) - 1) - 0 + 1
    BY <2>1, FS_Interval
  <2>. QED
    BY <2>1, <2>2, FS_Interval
<1>2. r \in Injection(A, N)
  BY PlacesGrow DEF Injection, IsInjective
<1>3. r \in Surjection(A, N)
  <2>. HIDE DEF N, r
  <2>. QED
    BY <1>1, <1>2, FS_Injection
<1>. QED
  BY <1>3 DEF Surjection

(* The first n.                                                            *)
LEMMA FirstOnes ==
  ASSUME NEW A, IsFiniteSet(A), NEW R, Strict(R, A), NEW n \in Nat, NEW F,
         F = {x \in A : Place(R, A, x) < n}
  PROVE  /\ F \subseteq A /\ IsFiniteSet(F)
         /\ Cardinality(F) = IF n <= Cardinality(A) THEN n ELSE Cardinality(A)
         /\ \A x \in F, y \in A \ F : <<x, y>> \in R
<1>1. F \subseteq A /\ IsFiniteSet(F) /\ Cardinality(A) \in Nat
  BY FS_Subset, FS_CardinalityType
<1>2. ASSUME NEW x \in F, NEW y \in A \ F PROVE <<x, y>> \in R
  <2>1. Place(R, A, x) < n /\ ~(Place(R, A, y) < n) /\ x # y /\ x \in A
    OBVIOUS
  <2>2. ~(Place(R, A, y) < Place(R, A, x))
    BY <2>1, PlacesGrow
  <2>. QED
    BY <2>1, <2>2, PlacesGrow DEF Strict
<1>3. CASE n <= Cardinality(A)
  <2>. DEFINE r == [x \in F |-> Place(R, A, x)]
              N == 0..(n - 1)
  <2>1. r \in Injection(F, N)
    BY PlacesGrow DEF Injection, IsInjective
  <2>2. \A m \in N : \E x \in F : r[x] = m
    <3>1. ASSUME NEW m \in N PROVE \E x \in F : r[x] = m
      <4>1. m \in 0..(Cardinality(A) - 1)
        BY <1>1, <1>3
      <4>2. PICK x \in A : Place(R, A, x) = m
        BY <4>1, PlacesAreTaken
      <4>. QED
        BY <4>2
    <3>. QED
      BY <3>1
  <2>3. IsFiniteSet(N) /\ Cardinality(N) = n
    <3>1. Cardinality(N) = IF 0 > n - 1 THEN 0 ELSE (n - 1) - 0 + 1
      BY FS_Interval
    <3>. QED
      BY <3>1, FS_Interval
  <2>4. r \in Surjection(F, N)
    BY <2>1, <2>2 DEF Surjection, Injection
  <2>. HIDE DEF r, N
  <2>5. Cardinality(F) = n
    BY <2>1, <2>3, <2>4, FS_Injection
  <2>. QED
    BY <1>1, <1>2, <1>3, <2>5
<1>4. CASE ~(n <= Cardinality(A))
  <2>1. F = A
    BY <1>1, <1>4, PlacesGrow
  <2>. QED
    BY <1>1, <1>2, <1>4, <2>1
<1>. QED
  BY <1>3, <1>4
=============================================================================

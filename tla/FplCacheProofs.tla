--------------------------- MODULE FplCacheProofs ---------------------------
(***************************************************************************)
(* Theorems about FplCache for every set of endpoints and callers, every   *)
(* freshness window and every snapshot coverage.                           *)
(***************************************************************************)
EXTENDS FplCache, TLAPS

CallInv == LockInv /\ MissInv /\ GivenInv /\ BodyInv

CallType ==
  /\ memo \in [Memoised -> Time \cup {None}] /\ mu \in Thread \cup {Free}
  /\ pc \in [Thread -> {"idle", "lock", "memo", "overlay", "snapshot", "live", "create",
                       "write", "stale snapshot", "stale overlay"}]
  /\ ep \in [Thread -> Endpoint \cup {None}]
  /\ body \in [Thread -> Time \cup {None}]
  /\ last.ep \in Endpoint \cup {None}
  /\ given \subseteq Memoised \X Time

LEMMA NoneIsNoTime == None \notin Time
  BY CacheConstants

-----------------------------------------------------------------------------
(* A call that returns what it read while nothing was memoised, or what    *)
(* was memoised already.                                                   *)
LEMMA ReturnInv ==
  ASSUME CacheInv, NEW t \in Thread, Reading(t), NEW how, NEW doc \in Time \cup {None},
         ep[t] \in Memoised /\ doc # None => memo[ep[t]] \in {None, doc},
         Return(t, how, doc)
  PROVE  CallType' /\ CallInv'
<1>1. /\ pc' = [pc EXCEPT ![t] = "idle"] /\ ep' = [ep EXCEPT ![t] = None]
      /\ body' = [body EXCEPT ![t] = None]
      /\ last' = [how |-> how, ep |-> ep[t]]
      /\ mu' = IF mu = t THEN Free ELSE mu
  BY DEF Return, Go, Unlocked
<1>2. ep[t] \in Endpoint
  BY DEF CacheInv, LockInv, Reading
<1>3. CASE ~(ep[t] \in Memoised /\ doc # None)
  <2>1. memo' = memo /\ given' = given
    BY <1>3 DEF Return, Kept
  <2>2. CallType'
    BY <1>1, <1>2, <2>1 DEF CallType, CacheInv, TypeOK
  <2>3. LockInv'
    BY <1>1 DEF LockInv, Reading, CacheInv, TypeOK
  <2>4. MissInv'
    BY <1>1, <2>1 DEF MissInv, Reading, CacheInv, TypeOK
  <2>5. GivenInv' /\ BodyInv'
    BY <1>1, <2>1 DEF GivenInv, BodyInv, CacheInv, TypeOK
  <2>. QED
    BY <2>2, <2>3, <2>4, <2>5 DEF CallInv
<1>4. CASE ep[t] \in Memoised /\ doc # None
  <2>1. /\ memo' = [memo EXCEPT ![ep[t]] = doc]
        /\ given' = given \cup {<<ep[t], doc>>}
    BY <1>4 DEF Return, Kept
  <2>2. CallType'
    <3>1. <<ep[t], doc>> \in Memoised \X Time /\ given \subseteq Memoised \X Time
      BY <1>4 DEF CacheInv, TypeOK
    <3>2. given' \subseteq Memoised \X Time
      BY <2>1, <3>1
    <3>3. memo' \in [Memoised -> Time \cup {None}]
      BY <1>4, <2>1 DEF CacheInv, TypeOK
    <3>. QED
      BY <1>1, <1>2, <3>2, <3>3 DEF CallType, CacheInv, TypeOK
  <2>3. LockInv'
    BY <1>1 DEF LockInv, Reading, CacheInv, TypeOK
  <2>4. mu = t
    BY <1>4 DEF CacheInv, LockInv
  <2>5. MissInv'
    BY <1>1, <2>1, <2>4 DEF MissInv, LockInv, Reading, CacheInv, TypeOK
  <2>6. GivenInv'
    <3>. SUFFICES ASSUME NEW x \in given' PROVE memo'[x[1]] = x[2]
      BY DEF GivenInv
    <3>1. CASE x = <<ep[t], doc>>
      BY <1>4, <2>1, <3>1 DEF CacheInv, TypeOK
    <3>2. CASE x \in given
      <4>1. x[1] \in Memoised /\ x[2] \in Time /\ memo[x[1]] = x[2]
        BY <3>2 DEF CacheInv, TypeOK, GivenInv
      <4>2. x[1] = ep[t] => x[2] = doc
        BY <1>4, <4>1, NoneIsNoTime
      <4>. QED
        BY <2>1, <4>1, <4>2 DEF CacheInv, TypeOK
    <3>. QED
      BY <2>1, <3>1, <3>2
  <2>7. BodyInv'
    BY <1>1 DEF BodyInv, CacheInv, TypeOK
  <2>. QED
    BY <2>2, <2>3, <2>5, <2>6, <2>7 DEF CallInv
<1>. QED
  BY <1>3, <1>4

(* A call that goes on past the memo, having found nothing memoised.       *)
LEMMA GoInv ==
  ASSUME CacheInv, NEW t \in Thread, Reading(t),
         ep[t] \in Memoised => memo[ep[t]] = None,
         NEW where \in {"overlay", "snapshot", "live", "create", "write",
                        "stale snapshot", "stale overlay"},
         Go(t, where), where \in {"create", "write"} => body'[t] \in Time,
         body' \in [Thread -> Time \cup {None}],
         \A u \in Thread : u # t => body'[u] = body[u],
         UNCHANGED <<memo, mu, ep, last, given>>
  PROVE  CallType' /\ CallInv'
<1>1. pc' = [pc EXCEPT ![t] = where]
  BY DEF Go
<1>2. CallType'
  BY <1>1 DEF CallType, CacheInv, TypeOK
<1>3. LockInv'
  BY <1>1 DEF LockInv, Reading, CacheInv, TypeOK
<1>4. MissInv'
  BY <1>1 DEF MissInv, Reading, CacheInv, TypeOK
<1>5. GivenInv'
  BY DEF GivenInv, CacheInv
<1>6. BodyInv'
  BY <1>1 DEF BodyInv, CacheInv, TypeOK
<1>. QED
  BY <1>2, <1>3, <1>4, <1>5, <1>6 DEF CallInv

(* What a thread past the memo knows.                                      *)
LEMMA PastMemo ==
  ASSUME CacheInv, NEW t \in Thread,
         pc[t] \in {"overlay", "snapshot", "live", "create", "write",
                    "stale snapshot", "stale overlay"}
  PROVE  /\ Reading(t) /\ ep[t] \in Endpoint /\ up
         /\ ep[t] \in Memoised => memo[ep[t]] = None
<1>1. pc[t] \notin {"idle", "lock", "memo"} /\ Reading(t)
  BY DEF Reading
<1>2. ep[t] \in Endpoint
  BY <1>1 DEF CacheInv, LockInv
<1>3. ep[t] \in Memoised => memo[ep[t]] = None
  BY <1>1 DEF CacheInv, MissInv
<1>4. up
  BY <1>1 DEF CacheInv, DownInv
<1>. QED
  BY <1>1, <1>2, <1>3, <1>4

LEMMA SnapshotFileType ==
  ASSUME CacheInv, NEW e \in Endpoint
  PROVE  SnapshotFile(e) \in File \cup {None}
  BY DEF SnapshotFile, CacheInv, TypeOK, File

LEMMA UsableIsFile ==
  ASSUME NEW f \in File \cup {None, Torn}, Usable(f)
  PROVE  f \in File /\ f.doc \in Time
  BY DEF Usable, File

-----------------------------------------------------------------------------
LEMMA InitInv == Init => CacheInv
<1>. SUFFICES ASSUME Init PROVE CacheInv
  OBVIOUS
<1>1. TypeOK
  <2>1. clock \in Time /\ failures \in Nat
    BY CacheConstants DEF Init, Time
  <2>2. /\ overlay \in [Endpoint -> File \cup {None, Torn}]
        /\ memo \in [Memoised -> Time \cup {None}]
        /\ pc \in [Thread -> {"idle", "lock", "memo", "overlay", "snapshot", "live", "create",
                             "write", "stale snapshot", "stale overlay"}]
    BY DEF Init
  <2>3. /\ ep \in [Thread -> Endpoint \cup {None}]
        /\ body \in [Thread -> Time \cup {None}]
        /\ last.ep \in Endpoint \cup {None}
    BY DEF Init, NoCall
  <2>4. /\ published \in Time \cup {None} /\ snap \in Time \cup {None}
        /\ up \in BOOLEAN /\ serving \in BOOLEAN
        /\ mu \in Thread \cup {Free} /\ given \subseteq Memoised \X Time
    BY DEF Init
  <2>. QED
    BY <2>1, <2>2, <2>3, <2>4 DEF TypeOK
<1>2. LockInv /\ MissInv /\ GivenInv /\ BodyInv /\ FallbackInv /\ DownInv
  <2>1. \A t \in Thread : pc[t] = "idle" /\ ~Reading(t)
    BY DEF Init, Reading
  <2>2. LockInv /\ MissInv
    BY <2>1 DEF LockInv, MissInv
  <2>3. GivenInv /\ DownInv
    BY <2>1 DEF Init, GivenInv, DownInv
  <2>4. BodyInv /\ FallbackInv
    BY <2>1 DEF BodyInv, FallbackInv
  <2>. QED
    BY <2>2, <2>3, <2>4
<1>3. NeverSilent /\ SnapshotNeverErrors
  BY DEF Init, NeverSilent, SnapshotNeverErrors, NoCall
<1>. QED
  BY <1>1, <1>2, <1>3 DEF CacheInv

(* What CacheInv says of the variables a step of a call leaves alone.      *)
LEMMA Assemble ==
  ASSUME CacheInv, CallType', CallInv', FallbackInv', NeverSilent', SnapshotNeverErrors',
         up, UNCHANGED <<clock, published, up, snap>>,
         overlay' \in [Endpoint -> File \cup {None, Torn}],
         serving' \in BOOLEAN, failures' \in Nat
  PROVE  CacheInv'
<1>1. TypeOK'
  BY DEF CacheInv, TypeOK, CallType
<1>2. DownInv'
  BY DEF DownInv
<1>. QED
  BY <1>1, <1>2 DEF CacheInv, CallInv

-----------------------------------------------------------------------------
LEMMA OutsideInv ==
  ASSUME CacheInv, Tick \/ Publish \/ Start \/ Stop PROVE CacheInv'
<1>1. CASE Tick
  <2>1. TypeOK'
    BY <1>1 DEF Tick, CacheInv, TypeOK, files, signals, calls
  <2>2. LockInv' /\ MissInv' /\ GivenInv' /\ BodyInv'
    BY <1>1 DEF Tick, CacheInv, LockInv, MissInv, GivenInv, BodyInv, Reading, files, signals, calls
  <2>3. FallbackInv' /\ DownInv' /\ NeverSilent' /\ SnapshotNeverErrors'
    BY <1>1 DEF Tick, CacheInv, FallbackInv, DownInv, NeverSilent, SnapshotNeverErrors,
                files, signals, calls
  <2>. QED
    BY <2>1, <2>2, <2>3 DEF CacheInv
<1>2. CASE Publish
  <2>1. TypeOK'
    BY <1>2 DEF Publish, CacheInv, TypeOK, signals, calls
  <2>2. LockInv' /\ MissInv' /\ GivenInv' /\ BodyInv'
    BY <1>2 DEF Publish, CacheInv, LockInv, MissInv, GivenInv, BodyInv, Reading, signals, calls
  <2>3. FallbackInv' /\ DownInv' /\ NeverSilent' /\ SnapshotNeverErrors'
    BY <1>2 DEF Publish, CacheInv, FallbackInv, DownInv, NeverSilent, SnapshotNeverErrors,
                signals, calls
  <2>. QED
    BY <2>1, <2>2, <2>3 DEF CacheInv
<1>3. CASE Start
  <2>0. last = NoCall /\ \A t \in Thread : pc[t] = "idle"
    BY <1>3 DEF Start, CacheInv, DownInv
  <2>1. TypeOK'
    BY <1>3 DEF Start, CacheInv, TypeOK, files, signals, calls
  <2>2. LockInv' /\ MissInv' /\ GivenInv' /\ BodyInv'
    BY <1>3 DEF Start, CacheInv, LockInv, MissInv, GivenInv, BodyInv, Reading, files, signals, calls
  <2>3. FallbackInv' /\ DownInv'
    BY <1>3, <2>0 DEF Start, FallbackInv, DownInv, calls
  <2>4. NeverSilent' /\ SnapshotNeverErrors'
    BY <1>3, <2>0 DEF Start, NeverSilent, SnapshotNeverErrors, NoCall
  <2>. QED
    BY <2>1, <2>2, <2>3, <2>4 DEF CacheInv
<1>4. CASE Stop
  <2>0. /\ pc' = [t \in Thread |-> "idle"] /\ ep' = [t \in Thread |-> None]
        /\ last' = NoCall /\ given' = {}
    BY <1>4 DEF Stop
  <2>1. TypeOK'
    BY <1>4 DEF Stop, CacheInv, TypeOK, files, NoCall
  <2>2. \A t \in Thread : pc'[t] = "idle"
    BY <2>0
  <2>3. LockInv' /\ MissInv'
    BY <2>2 DEF LockInv, MissInv, Reading
  <2>4. BodyInv' /\ FallbackInv'
    BY <2>2 DEF BodyInv, FallbackInv
  <2>5. GivenInv' /\ DownInv'
    BY <2>0, <2>2 DEF GivenInv, DownInv
  <2>6. NeverSilent' /\ SnapshotNeverErrors'
    BY <2>0 DEF NeverSilent, SnapshotNeverErrors, NoCall
  <2>. QED
    BY <2>1, <2>3, <2>4, <2>5, <2>6 DEF CacheInv
<1>. QED
  BY <1>1, <1>2, <1>3, <1>4

LEMMA BeginInv ==
  ASSUME CacheInv, NEW t \in Thread, NEW e \in Endpoint, Begin(t, e) PROVE CacheInv'
<1>1. /\ up /\ pc[t] = "idle"
      /\ ep' = [ep EXCEPT ![t] = e]
      /\ pc' = [pc EXCEPT ![t] = IF e \in Memoised THEN "lock" ELSE "overlay"]
      /\ UNCHANGED <<clock, published, overlay, up, snap, memo, serving, failures, mu, body, last, given>>
  BY DEF Begin, Go, files, signals
<1>2. CallType'
  BY <1>1 DEF CallType, CacheInv, TypeOK
<1>3. LockInv'
  BY <1>1 DEF LockInv, Reading, CacheInv, TypeOK
<1>4. MissInv'
  BY <1>1 DEF MissInv, Reading, CacheInv, TypeOK
<1>5. GivenInv' /\ BodyInv'
  BY <1>1 DEF GivenInv, BodyInv, CacheInv, TypeOK
<1>6. FallbackInv'
  BY <1>1 DEF FallbackInv, CacheInv, TypeOK
<1>7. NeverSilent' /\ SnapshotNeverErrors'
  BY <1>1 DEF NeverSilent, SnapshotNeverErrors, CacheInv
<1>8. overlay' \in [Endpoint -> File \cup {None, Torn}] /\ serving' \in BOOLEAN /\ failures' \in Nat
  BY <1>1 DEF CacheInv, TypeOK
<1>. QED
  BY <1>1, <1>2, <1>3, <1>4, <1>5, <1>6, <1>7, <1>8, Assemble DEF CallInv

LEMMA LockStepInv ==
  ASSUME CacheInv, NEW t \in Thread, Lock(t) PROVE CacheInv'
<1>1. /\ pc[t] = "lock" /\ mu = Free /\ mu' = t
      /\ pc' = [pc EXCEPT ![t] = "memo"]
      /\ UNCHANGED <<clock, published, overlay, up, snap, memo, serving, failures, ep, body, last, given>>
  BY DEF Lock, Acquire, Go, files, signals
<1>2. up
  BY <1>1 DEF CacheInv, DownInv
<1>3. CallType'
  BY <1>1 DEF CallType, CacheInv, TypeOK
<1>4. LockInv'
  BY <1>1, CacheConstants DEF LockInv, Reading, CacheInv, TypeOK
<1>5. MissInv'
  BY <1>1 DEF MissInv, Reading, CacheInv, TypeOK
<1>6. GivenInv' /\ BodyInv'
  BY <1>1 DEF GivenInv, BodyInv, CacheInv, TypeOK
<1>7. FallbackInv'
  BY <1>1 DEF FallbackInv, CacheInv, TypeOK
<1>8. NeverSilent' /\ SnapshotNeverErrors'
  BY <1>1 DEF NeverSilent, SnapshotNeverErrors, CacheInv
<1>9. overlay' \in [Endpoint -> File \cup {None, Torn}] /\ serving' \in BOOLEAN /\ failures' \in Nat
  BY <1>1 DEF CacheInv, TypeOK
<1>. QED
  BY <1>1, <1>2, <1>3, <1>4, <1>5, <1>6, <1>7, <1>8, <1>9, Assemble DEF CallInv

(* The fallback facts over a step that returns, or that goes on elsewhere. *)
LEMMA ReturnFallback ==
  ASSUME CacheInv, NEW t \in Thread, NEW how, NEW doc, Return(t, how, doc),
         UNCHANGED snap, failures' = failures,
         how \in {"stale", "error"} => failures > 0,
         how = "error" => snap = None \/ ep[t] \notin Covered
  PROVE  FallbackInv' /\ NeverSilent' /\ SnapshotNeverErrors'
<1>1. /\ pc' = [pc EXCEPT ![t] = "idle"] /\ ep' = [ep EXCEPT ![t] = None]
      /\ last' = [how |-> how, ep |-> ep[t]]
  BY DEF Return, Go
<1>2. FallbackInv'
  BY <1>1 DEF FallbackInv, CacheInv, TypeOK
<1>3. last'.how = how /\ last'.ep = ep[t]
  BY <1>1
<1>. QED
  BY <1>2, <1>3 DEF NeverSilent, SnapshotNeverErrors

LEMMA GoFallback ==
  ASSUME CacheInv, NEW t \in Thread, NEW where, Go(t, where),
         failures > 0 => failures' > 0,
         where \in {"stale snapshot", "stale overlay"} => failures' > 0,
         where = "stale overlay" => snap = None \/ ep[t] \notin Covered,
         UNCHANGED <<snap, ep, last>>
  PROVE  FallbackInv' /\ NeverSilent' /\ SnapshotNeverErrors'
<1>1. pc' = [pc EXCEPT ![t] = where]
  BY DEF Go
<1>2. FallbackInv'
  <2>. SUFFICES ASSUME NEW u \in Thread
                PROVE  /\ pc'[u] \in {"stale snapshot", "stale overlay"} => failures' > 0
                       /\ pc'[u] = "stale overlay" => snap = None \/ ep[u] \notin Covered
    BY DEF FallbackInv
  <2>1. pc'[u] = IF u = t THEN where ELSE pc[u]
    BY <1>1 DEF CacheInv, TypeOK
  <2>. QED
    BY <2>1 DEF CacheInv, FallbackInv
<1>3. NeverSilent'
  BY DEF NeverSilent, CacheInv
<1>4. SnapshotNeverErrors'
  BY DEF SnapshotNeverErrors, CacheInv
<1>. QED
  BY <1>2, <1>3, <1>4

LEMMA CheckMemoInv ==
  ASSUME CacheInv, NEW t \in Thread, CheckMemo(t) PROVE CacheInv'
<1>1. /\ pc[t] = "memo" /\ Reading(t) /\ ep[t] \in Memoised
      /\ UNCHANGED <<clock, published, overlay, up, snap, serving, failures>>
  BY DEF CheckMemo, Reading, CacheInv, LockInv, files, signals
<1>2. up
  BY <1>1 DEF CacheInv, DownInv
<1>3. memo[ep[t]] \in Time \cup {None}
  BY <1>1 DEF CacheInv, TypeOK
<1>4. CallType' /\ CallInv' /\ FallbackInv' /\ NeverSilent' /\ SnapshotNeverErrors'
  <2>1. CASE memo[ep[t]] # None
    <3>1. Return(t, "memo", memo[ep[t]])
      BY <2>1 DEF CheckMemo
    <3>2. CallType' /\ CallInv'
      BY <1>1, <1>3, <3>1, ReturnInv
    <3>3. FallbackInv' /\ NeverSilent' /\ SnapshotNeverErrors'
      BY <1>1, <3>1, ReturnFallback
    <3>. QED
      BY <3>2, <3>3
  <2>2. CASE memo[ep[t]] = None
    <3>1. Go(t, "overlay") /\ UNCHANGED <<memo, mu, ep, body, last, given>>
      BY <2>2 DEF CheckMemo
    <3>2. body' \in [Thread -> Time \cup {None}] /\ failures \in Nat
      BY <3>1 DEF CacheInv, TypeOK
    <3>3. CallType' /\ CallInv'
      BY <1>1, <2>2, <3>1, <3>2, GoInv
    <3>4. failures' = failures
      BY <1>1
    <3>5. FallbackInv' /\ NeverSilent' /\ SnapshotNeverErrors'
      BY <1>1, <3>1, <3>4, GoFallback
    <3>. QED
      BY <3>3, <3>5
  <2>. QED
    BY <2>1, <2>2
<1>5. overlay' \in [Endpoint -> File \cup {None, Torn}] /\ serving' \in BOOLEAN /\ failures' \in Nat
  BY <1>1 DEF CacheInv, TypeOK
<1>. QED
  BY <1>1, <1>2, <1>4, <1>5, Assemble

(* Either fresh read: it returns what the file holds, or goes on.          *)
LEMMA FreshReadInv ==
  ASSUME CacheInv, NEW t \in Thread, pc[t] \in {"overlay", "snapshot"},
         NEW f \in File \cup {None, Torn}, NEW otherwise \in {"snapshot", "live"},
         FreshRead(t, f, otherwise)
  PROVE  CacheInv'
<1>1. /\ Reading(t) /\ ep[t] \in Endpoint /\ up
      /\ ep[t] \in Memoised => memo[ep[t]] = None
  BY PastMemo
<1>2. UNCHANGED <<clock, published, overlay, up, snap, failures>>
  BY DEF FreshRead, files
<1>3. CallType' /\ CallInv' /\ FallbackInv' /\ NeverSilent' /\ SnapshotNeverErrors' /\ serving' \in BOOLEAN
  <2>1. CASE Usable(f) /\ fresh(f, ep[t])
    <3>1. Return(t, "fresh", f.doc) /\ serving' = FALSE
      BY <2>1 DEF FreshRead
    <3>2. f.doc \in Time \cup {None}
      BY <2>1, UsableIsFile
    <3>3. CallType' /\ CallInv'
      BY <1>1, <3>1, <3>2, ReturnInv
    <3>4. FallbackInv' /\ NeverSilent' /\ SnapshotNeverErrors'
      BY <1>2, <3>1, ReturnFallback
    <3>. QED
      BY <3>1, <3>3, <3>4
  <2>2. CASE ~(Usable(f) /\ fresh(f, ep[t]))
    <3>1. Go(t, otherwise) /\ UNCHANGED <<memo, mu, serving, ep, body, last, given>>
      BY <2>2 DEF FreshRead
    <3>2. body' \in [Thread -> Time \cup {None}] /\ serving' \in BOOLEAN
      BY <3>1 DEF CacheInv, TypeOK
    <3>3. CallType' /\ CallInv'
      BY <1>1, <3>1, <3>2, GoInv
    <3>4. failures' = failures
      BY <1>2
    <3>5. FallbackInv' /\ NeverSilent' /\ SnapshotNeverErrors'
      BY <1>2, <3>1, <3>4, GoFallback
    <3>. QED
      BY <3>2, <3>3, <3>5
  <2>. QED
    BY <2>1, <2>2
<1>4. overlay' \in [Endpoint -> File \cup {None, Torn}] /\ failures' \in Nat
  BY <1>2 DEF CacheInv, TypeOK
<1>. QED
  BY <1>1, <1>2, <1>3, <1>4, Assemble

LEMMA ReadsInv ==
  ASSUME CacheInv, NEW t \in Thread, ReadOverlay(t) \/ ReadSnapshot(t) PROVE CacheInv'
<1>1. CASE ReadOverlay(t)
  <2>1. pc[t] = "overlay" /\ FreshRead(t, overlay[ep[t]], "snapshot")
    BY <1>1 DEF ReadOverlay
  <2>2. overlay[ep[t]] \in File \cup {None, Torn}
    BY <2>1, PastMemo DEF CacheInv, TypeOK
  <2>. QED
    BY <2>1, <2>2, FreshReadInv
<1>2. CASE ReadSnapshot(t)
  <2>1. pc[t] = "snapshot" /\ FreshRead(t, SnapshotFile(ep[t]), "live")
    BY <1>2 DEF ReadSnapshot
  <2>2. SnapshotFile(ep[t]) \in File \cup {None, Torn}
    BY <2>1, PastMemo, SnapshotFileType
  <2>. QED
    BY <2>1, <2>2, FreshReadInv
<1>. QED
  BY <1>1, <1>2

LEMMA FetchedInv ==
  ASSUME CacheInv, NEW t \in Thread, Fetched(t) PROVE CacheInv'
<1>1. /\ pc[t] = "live" /\ Go(t, "create") /\ body' = [body EXCEPT ![t] = clock]
      /\ UNCHANGED <<clock, published, overlay, up, snap, memo, serving, failures, mu, ep, last, given>>
  BY DEF Fetched, files, signals
<1>2. /\ Reading(t) /\ up
      /\ ep[t] \in Memoised => memo[ep[t]] = None
  BY <1>1, PastMemo
<1>3. /\ body' \in [Thread -> Time \cup {None}] /\ body'[t] \in Time
      /\ \A u \in Thread : u # t => body'[u] = body[u]
  BY <1>1 DEF CacheInv, TypeOK
<1>4. CallType' /\ CallInv'
  BY <1>1, <1>2, <1>3, GoInv
<1>5. failures' = failures
  BY <1>1
<1>6. FallbackInv' /\ NeverSilent' /\ SnapshotNeverErrors'
  BY <1>1, <1>5, GoFallback
<1>7. overlay' \in [Endpoint -> File \cup {None, Torn}] /\ serving' \in BOOLEAN /\ failures' \in Nat
  BY <1>1 DEF CacheInv, TypeOK
<1>. QED
  BY <1>1, <1>2, <1>4, <1>6, <1>7, Assemble

LEMMA FetchFailsInv ==
  ASSUME CacheInv, NEW t \in Thread, FetchFails(t) PROVE CacheInv'
<1>1. /\ pc[t] = "live" /\ Go(t, "stale snapshot") /\ failures' = failures + 1
      /\ UNCHANGED <<clock, published, overlay, up, snap, memo, serving, mu, ep, body, last, given>>
  BY DEF FetchFails, Counted, files
<1>2. /\ Reading(t) /\ up
      /\ ep[t] \in Memoised => memo[ep[t]] = None
  BY <1>1, PastMemo
<1>3. failures' \in Nat /\ failures' > 0
  <2>1. failures \in Nat
    BY DEF CacheInv, TypeOK
  <2>2. failures' = failures + 1
    BY <1>1
  <2>3. failures + 1 \in Nat /\ failures + 1 > 0
    BY <2>1
  <2>. QED
    BY <2>2, <2>3
<1>4. /\ body' \in [Thread -> Time \cup {None}]
      /\ \A u \in Thread : u # t => body'[u] = body[u]
  BY <1>1 DEF CacheInv, TypeOK
<1>5. CallType' /\ CallInv'
  BY <1>1, <1>2, <1>4, GoInv
<1>6. FallbackInv' /\ NeverSilent' /\ SnapshotNeverErrors'
  BY <1>1, <1>3, GoFallback
<1>7. overlay' \in [Endpoint -> File \cup {None, Torn}] /\ serving' \in BOOLEAN
  BY <1>1 DEF CacheInv, TypeOK
<1>. QED
  BY <1>1, <1>2, <1>3, <1>5, <1>6, <1>7, Assemble

LEMMA FetchEndsInv ==
  ASSUME CacheInv, NEW t \in Thread, NEW how \in {"cancelled", "timeout"}, FetchEnds(t, how)
  PROVE  CacheInv'
<1>1. /\ pc[t] = "live" /\ Return(t, how, None)
      /\ UNCHANGED <<clock, published, overlay, up, snap, serving, failures>>
  BY DEF FetchEnds, files, signals
<1>2. Reading(t) /\ up
  BY <1>1, PastMemo
<1>3. CallType' /\ CallInv'
  BY <1>1, <1>2, ReturnInv
<1>4. FallbackInv' /\ NeverSilent' /\ SnapshotNeverErrors'
  BY <1>1, ReturnFallback
<1>5. overlay' \in [Endpoint -> File \cup {None, Torn}] /\ serving' \in BOOLEAN /\ failures' \in Nat
  BY <1>1 DEF CacheInv, TypeOK
<1>. QED
  BY <1>1, <1>2, <1>3, <1>4, <1>5, Assemble

LEMMA CreateOverlayInv ==
  ASSUME CacheInv, NEW t \in Thread, CreateOverlay(t) PROVE CacheInv'
<1>1. /\ pc[t] = "create" /\ Go(t, "write") /\ overlay' = [overlay EXCEPT ![ep[t]] = Torn]
      /\ UNCHANGED <<clock, published, up, snap, memo, serving, failures, mu, ep, body, last, given>>
  BY DEF CreateOverlay, signals
<1>2. /\ Reading(t) /\ up
      /\ ep[t] \in Memoised => memo[ep[t]] = None
  BY <1>1, PastMemo
<1>3. body' \in [Thread -> Time \cup {None}] /\ body'[t] \in Time
  BY <1>1 DEF CacheInv, TypeOK, BodyInv
<1>4. CallType' /\ CallInv'
  BY <1>1, <1>2, <1>3, GoInv
<1>5. failures' = failures
  BY <1>1
<1>6. FallbackInv' /\ NeverSilent' /\ SnapshotNeverErrors'
  BY <1>1, <1>5, GoFallback
<1>7. overlay' \in [Endpoint -> File \cup {None, Torn}] /\ serving' \in BOOLEAN /\ failures' \in Nat
  BY <1>1 DEF CacheInv, TypeOK
<1>. QED
  BY <1>1, <1>2, <1>4, <1>6, <1>7, Assemble

(* The document is served, whatever became of the overlay.                 *)
LEMMA ServedInv ==
  ASSUME CacheInv, NEW t \in Thread, pc[t] \in {"create", "write"}, Serve(t),
         UNCHANGED <<clock, published, up, snap, failures>>,
         overlay' \in [Endpoint -> File \cup {None, Torn}]
  PROVE  CacheInv'
<1>1. /\ Reading(t) /\ up
      /\ ep[t] \in Memoised => memo[ep[t]] = None
  BY PastMemo
<1>2. Return(t, "live", body[t]) /\ serving' = FALSE
  BY DEF Serve
<1>3. body[t] \in Time \cup {None}
  BY DEF CacheInv, BodyInv
<1>4. CallType' /\ CallInv'
  BY <1>1, <1>2, <1>3, ReturnInv
<1>5. FallbackInv' /\ NeverSilent' /\ SnapshotNeverErrors'
  BY <1>2, ReturnFallback
<1>6. serving' \in BOOLEAN /\ failures' \in Nat
  BY <1>2 DEF CacheInv, TypeOK
<1>. QED
  BY <1>1, <1>4, <1>5, <1>6, Assemble

LEMMA OverlayWrittenInv ==
  ASSUME CacheInv, NEW t \in Thread, SkipOverlay(t) \/ WriteOverlay(t) PROVE CacheInv'
<1>1. CASE SkipOverlay(t)
  <2>1. overlay' \in [Endpoint -> File \cup {None, Torn}]
    BY <1>1 DEF SkipOverlay, files, CacheInv, TypeOK
  <2>. QED
    BY <1>1, <2>1, ServedInv DEF SkipOverlay, files
<1>2. CASE WriteOverlay(t)
  <2>1. pc[t] = "write" /\ body[t] \in Time
    BY <1>2 DEF WriteOverlay, CacheInv, BodyInv
  <2>2. [doc |-> body[t], at |-> clock] \in File
    BY <2>1 DEF CacheInv, TypeOK, File
  <2>3. PICK f \in {Torn, [doc |-> body[t], at |-> clock]} : overlay' = [overlay EXCEPT ![ep[t]] = f]
    BY <1>2 DEF WriteOverlay
  <2>4. overlay' \in [Endpoint -> File \cup {None, Torn}]
    BY <2>2, <2>3 DEF CacheInv, TypeOK
  <2>. QED
    BY <1>2, <2>1, <2>4, ServedInv DEF WriteOverlay
<1>. QED
  BY <1>1, <1>2

LEMMA StaleSnapshotInv ==
  ASSUME CacheInv, NEW t \in Thread, StaleSnapshot(t) PROVE CacheInv'
<1>. DEFINE f == SnapshotFile(ep[t])
<1>1. /\ pc[t] = "stale snapshot"
      /\ IF Usable(f) THEN Return(t, "stale", f.doc) /\ serving' = TRUE
         ELSE /\ Go(t, "stale overlay") /\ UNCHANGED <<memo, mu, ep, body, last, given>>
              /\ UNCHANGED serving
      /\ UNCHANGED <<clock, published, overlay, up, snap, failures>>
  BY DEF StaleSnapshot, serveStale, files
<1>2. /\ Reading(t) /\ up /\ ep[t] \in Endpoint
      /\ ep[t] \in Memoised => memo[ep[t]] = None
  BY <1>1, PastMemo
<1>3. f \in File \cup {None}
  BY <1>2, SnapshotFileType
<1>4. failures > 0
  BY <1>1 DEF CacheInv, FallbackInv
<1>5. CASE Usable(f)
  <2>1. f.doc \in Time \cup {None}
    BY <1>3, <1>5, UsableIsFile
  <2>2. CallType' /\ CallInv'
    BY <1>1, <1>2, <1>5, <2>1, ReturnInv
  <2>3. FallbackInv' /\ NeverSilent' /\ SnapshotNeverErrors'
    BY <1>1, <1>4, <1>5, ReturnFallback
  <2>4. overlay' \in [Endpoint -> File \cup {None, Torn}] /\ serving' \in BOOLEAN /\ failures' \in Nat
    BY <1>1, <1>5 DEF CacheInv, TypeOK
  <2>. QED
    BY <1>1, <1>2, <2>2, <2>3, <2>4, Assemble
<1>6. CASE ~Usable(f)
  <2>1. snap = None \/ ep[t] \notin Covered
    <3>. SUFFICES ASSUME snap # None, ep[t] \in Covered PROVE FALSE
      OBVIOUS
    <3>1. f = [doc |-> snap, at |-> snap] /\ snap \in Time
      BY DEF SnapshotFile, CacheInv, TypeOK
    <3>2. f \in File
      BY <3>1 DEF File
    <3>. QED
      BY <1>6, <3>2, CacheConstants DEF Usable, File
  <2>2. body' \in [Thread -> Time \cup {None}]
    BY <1>1, <1>6 DEF CacheInv, TypeOK
  <2>3. CallType' /\ CallInv'
    BY <1>1, <1>2, <1>6, <2>2, GoInv
  <2>4. failures' = failures
    BY <1>1
  <2>5. FallbackInv' /\ NeverSilent' /\ SnapshotNeverErrors'
    BY <1>1, <1>4, <1>6, <2>1, <2>4, GoFallback
  <2>6. overlay' \in [Endpoint -> File \cup {None, Torn}] /\ serving' \in BOOLEAN /\ failures' \in Nat
    BY <1>1, <1>6 DEF CacheInv, TypeOK
  <2>. QED
    BY <1>1, <1>2, <2>3, <2>5, <2>6, Assemble
<1>. QED
  BY <1>5, <1>6

LEMMA StaleOverlayInv ==
  ASSUME CacheInv, NEW t \in Thread, StaleOverlay(t) PROVE CacheInv'
<1>. DEFINE f == overlay[ep[t]]
<1>1. /\ pc[t] = "stale overlay"
      /\ IF Usable(f) THEN Return(t, "stale", f.doc) /\ serving' = TRUE
         ELSE Return(t, "error", None) /\ UNCHANGED serving
      /\ UNCHANGED <<clock, published, overlay, up, snap, failures>>
  BY DEF StaleOverlay, serveStale, files
<1>2. /\ Reading(t) /\ up /\ ep[t] \in Endpoint
      /\ ep[t] \in Memoised => memo[ep[t]] = None
  BY <1>1, PastMemo
<1>3. failures > 0 /\ (snap = None \/ ep[t] \notin Covered)
  BY <1>1 DEF CacheInv, FallbackInv
<1>4. CallType' /\ CallInv' /\ FallbackInv' /\ NeverSilent' /\ SnapshotNeverErrors' /\ serving' \in BOOLEAN
  <2>1. CASE Usable(f)
    <3>1. f.doc \in Time \cup {None}
      BY <1>2, <2>1, UsableIsFile DEF CacheInv, TypeOK
    <3>2. CallType' /\ CallInv'
      BY <1>1, <1>2, <2>1, <3>1, ReturnInv
    <3>3. FallbackInv' /\ NeverSilent' /\ SnapshotNeverErrors'
      BY <1>1, <1>3, <2>1, ReturnFallback
    <3>. QED
      BY <1>1, <2>1, <3>2, <3>3
  <2>2. CASE ~Usable(f)
    <3>1. CallType' /\ CallInv'
      BY <1>1, <1>2, <2>2, ReturnInv
    <3>2. FallbackInv' /\ NeverSilent' /\ SnapshotNeverErrors'
      BY <1>1, <1>3, <2>2, ReturnFallback
    <3>3. serving' \in BOOLEAN
      BY <1>1, <2>2 DEF CacheInv, TypeOK
    <3>. QED
      BY <3>1, <3>2, <3>3
  <2>. QED
    BY <2>1, <2>2
<1>5. overlay' \in [Endpoint -> File \cup {None, Torn}] /\ failures' \in Nat
  BY <1>1 DEF CacheInv, TypeOK
<1>. QED
  BY <1>1, <1>2, <1>4, <1>5, Assemble

-----------------------------------------------------------------------------
LEMMA StepInv == CacheInv /\ [Next]_vars => CacheInv'
<1>. SUFFICES ASSUME CacheInv, [Next]_vars PROVE CacheInv'
  OBVIOUS
<1>1. CASE Tick \/ Publish \/ Start \/ Stop
  BY <1>1, OutsideInv
<1>2. ASSUME NEW t \in Thread, NEW e \in Endpoint, Begin(t, e) PROVE CacheInv'
  BY <1>2, BeginInv
<1>3. ASSUME NEW t \in Thread, Lock(t) PROVE CacheInv'
  BY <1>3, LockStepInv
<1>4. ASSUME NEW t \in Thread, Step(t) PROVE CacheInv'
  <2>1. CASE CheckMemo(t)
    BY <2>1, CheckMemoInv
  <2>2. CASE ReadOverlay(t) \/ ReadSnapshot(t)
    BY <2>2, ReadsInv
  <2>3. CASE Fetched(t)
    BY <2>3, FetchedInv
  <2>4. CASE FetchFails(t)
    BY <2>4, FetchFailsInv
  <2>5. CASE FetchEnds(t, "cancelled") \/ FetchEnds(t, "timeout")
    BY <2>5, FetchEndsInv
  <2>6. CASE CreateOverlay(t)
    BY <2>6, CreateOverlayInv
  <2>7. CASE SkipOverlay(t) \/ WriteOverlay(t)
    BY <2>7, OverlayWrittenInv
  <2>8. CASE StaleSnapshot(t)
    BY <2>8, StaleSnapshotInv
  <2>9. CASE StaleOverlay(t)
    BY <2>9, StaleOverlayInv
  <2>. QED
    BY <1>4, <2>1, <2>2, <2>3, <2>4, <2>5, <2>6, <2>7, <2>8, <2>9 DEF Step
<1>5. CASE UNCHANGED vars
  <2>1. TypeOK' /\ LockInv' /\ MissInv' /\ GivenInv'
    BY <1>5 DEF vars, CacheInv, TypeOK, LockInv, MissInv, GivenInv, Reading
  <2>2. BodyInv' /\ FallbackInv' /\ DownInv' /\ NeverSilent' /\ SnapshotNeverErrors'
    BY <1>5 DEF vars, CacheInv, BodyInv, FallbackInv, DownInv, NeverSilent, SnapshotNeverErrors
  <2>. QED
    BY <2>1, <2>2 DEF CacheInv
<1>. QED
  BY <1>1, <1>2, <1>3, <1>4, <1>5 DEF Next

LEMMA Inductive == Spec => []CacheInv
  BY InitInv, StepInv, PTL DEF Spec

-----------------------------------------------------------------------------
(* Every variable of the client keeps its type.                            *)
THEOREM TypeCorrect == Spec => []TypeOK
  BY Inductive, PTL DEF CacheInv

(* A process answers from one bootstrap and one list of fixtures for all   *)
(* its life, however many callers race and whatever the files do.          *)
THEOREM OneWorldview == Spec => []OneWorld
<1>1. CacheInv => OneWorld
  BY DEF CacheInv, GivenInv, OneWorld
<1>. QED
  BY <1>1, Inductive, PTL

(* Whatever was served stale, or not at all, a failed fetch was counted.   *)
THEOREM StaleIsCounted == Spec => []NeverSilent
  BY Inductive, PTL DEF CacheInv

(* With a snapshot that covers it, a read ends in an answer unless its     *)
(* caller gave up or it timed out.                                         *)
THEOREM SnapshotAnswers == Spec => []SnapshotNeverErrors
  BY Inductive, PTL DEF CacheInv
=============================================================================

------------------------------ MODULE FplCache ------------------------------
(***************************************************************************)
(* The FPL client of internal/fpl/client.go: a read goes to the overlay    *)
(* this process writes, then to a read-only snapshot, then to FPL itself,  *)
(* and, when FPL fails, to whatever is on disk however old.  Bootstrap and *)
(* Fixtures are memoised for the life of the process under one mutex that  *)
(* is held across the read; every other endpoint is read per request.      *)
(*                                                                         *)
(* A document is known by the moment FPL published it.  The files survive  *)
(* the process; the generator publishes a new snapshot when it likes, and  *)
(* a process keeps the one its path led to when it started.                *)
(***************************************************************************)
EXTENDS Integers, FiniteSets

CONSTANTS Memoised,    \* endpoints memoised under the mutex
          PerRequest,  \* endpoints read anew by every call
          Covered,     \* endpoints the generator publishes
          Thread,      \* concurrent callers
          TTL,         \* freshness window of each endpoint
          Lifetime,    \* bound on the clock
          MaxFailures, \* no call begins after this many failed fetches
          Free, None, Torn

Endpoint == Memoised \cup PerRequest
Time     == 0..Lifetime

ASSUME CacheConstants ==
  /\ Lifetime \in Nat /\ MaxFailures \in Nat
  /\ Memoised \cap PerRequest = {} /\ Covered \subseteq Endpoint
  /\ TTL \in [Endpoint -> Nat]
  /\ Free \notin Thread
  /\ None \notin Time /\ None \notin [doc : Time, at : Time]
  /\ Torn # None /\ Torn \notin [doc : Time, at : Time]

(* A file on disk: what FPL published and the file's modification time.    *)
File == [doc : Time, at : Time]

VARIABLES clock,
          published, \* when the generator published the current snapshot, or None
          overlay,   \* per endpoint: a file, None, or Torn (not valid JSON)
          up,        \* whether a process is running
          snap,      \* Client.snapshotDir: the snapshot it resolved, or None
          memo,      \* Client.bootstrap and Client.fixtures: a document, or None
          mu,        \* the thread holding Client.mu, or Free
          serving,   \* staleness.serving
          failures,  \* staleness.liveFetchFailures
          pc, ep,    \* per thread: where it is, and the endpoint it reads
          body,      \* per thread: the document FPL sent it
          last,      \* history: how the last call to return ended
          given      \* history: memoised documents handed out by this process

files   == <<published, overlay>>
signals == <<serving, failures>>
calls   == <<mu, pc, ep, body>>
vars    == <<clock, published, overlay, up, snap, memo, mu, serving, failures,
             pc, ep, body, last, given>>

NoCall == [how |-> "none", ep |-> None]

Init ==
  /\ clock = 0 /\ published = None
  /\ overlay = [e \in Endpoint |-> None]
  /\ up = FALSE /\ snap = None
  /\ memo = [e \in Memoised |-> None]
  /\ mu = Free /\ serving = FALSE /\ failures = 0
  /\ pc = [t \in Thread |-> "idle"]
  /\ ep = [t \in Thread |-> None]
  /\ body = [t \in Thread |-> None]
  /\ last = NoCall
  /\ given = {}

-----------------------------------------------------------------------------
(* The world outside a call.                                               *)

Tick ==
  /\ clock + 1 \in Time
  /\ clock' = clock + 1
  /\ UNCHANGED <<files, up, snap, memo, signals, calls, last, given>>

(* The generator fetches everything it covers and repoints the symlink.    *)
Publish ==
  /\ published # clock
  /\ published' = clock
  /\ UNCHANGED <<clock, overlay, up, snap, memo, signals, calls, last, given>>

(* NewWithSnapshot resolves the path once; a path that does not exist yet  *)
(* disables the snapshot.                                                  *)
Start ==
  /\ ~up
  /\ up' = TRUE
  /\ snap' \in {published, None}
  /\ UNCHANGED <<clock, files, memo, signals, calls, last, given>>

(* The process ends, or is killed at any step of any call.                 *)
Stop ==
  /\ up
  /\ up' = FALSE
  /\ snap' = None
  /\ memo' = [e \in Memoised |-> None]
  /\ mu' = Free /\ serving' = FALSE /\ failures' = 0
  /\ pc' = [t \in Thread |-> "idle"]
  /\ ep' = [t \in Thread |-> None]
  /\ body' = [t \in Thread |-> None]
  /\ last' = NoCall
  /\ given' = {}
  /\ UNCHANGED <<clock, files>>

-----------------------------------------------------------------------------
(* The file the resolved snapshot holds for an endpoint.                   *)
SnapshotFile(e) ==
  IF snap # None /\ e \in Covered THEN [doc |-> snap, at |-> snap] ELSE None

Usable(f) == f \notin {None, Torn}

fresh(f, e) == clock - f.at < TTL[e]

Go(t, where) == pc' = [pc EXCEPT ![t] = where]

(* Faulty: the mutex stays held when the read returned an error.           *)
ReleasedOnSuccess(t, how) ==
  mu' = IF mu = t /\ how \notin {"error", "cancelled", "timeout"} THEN Free ELSE mu

Unlocked(t, how) == mu' = IF mu = t THEN Free ELSE mu

(* Faulty: what came with an error is memoised too.                        *)
KeptAlways(e, doc) == e \in Memoised

Kept(e, doc) == e \in Memoised /\ doc # None

(* A call returns: with a document, or with an error.  Bootstrap and       *)
(* Fixtures memoise a document and give the mutex back.                    *)
Return(t, how, doc) ==
  /\ Go(t, "idle")
  /\ ep' = [ep EXCEPT ![t] = None]
  /\ body' = [body EXCEPT ![t] = None]
  /\ last' = [how |-> how, ep |-> ep[t]]
  /\ memo' = IF Kept(ep[t], doc) THEN [memo EXCEPT ![ep[t]] = doc] ELSE memo
  /\ given' = IF Kept(ep[t], doc) THEN given \cup {<<ep[t], doc>>} ELSE given
  /\ Unlocked(t, how)

Begin(t, e) ==
  /\ up /\ pc[t] = "idle" /\ failures < MaxFailures
  /\ ep' = [ep EXCEPT ![t] = e]
  /\ Go(t, IF e \in Memoised THEN "lock" ELSE "overlay")
  /\ UNCHANGED <<clock, files, up, snap, memo, signals, mu, body, last, given>>

(* Faulty: Bootstrap read without the mutex.                               *)
Unguarded(t) == pc[t] = "lock"

Acquire(t) == pc[t] = "lock" /\ mu = Free

Lock(t) ==
  /\ Acquire(t)
  /\ mu' = t
  /\ Go(t, "memo")
  /\ UNCHANGED <<clock, files, up, snap, memo, signals, ep, body, last, given>>

CheckMemo(t) ==
  /\ pc[t] = "memo"
  /\ IF memo[ep[t]] # None
     THEN Return(t, "memo", memo[ep[t]])
     ELSE Go(t, "overlay") /\ UNCHANGED <<memo, mu, ep, body, last, given>>
  /\ UNCHANGED <<clock, files, up, snap, signals>>

-----------------------------------------------------------------------------
(* get: the two fresh reads.  One that succeeds clears the stale flag.     *)

FreshRead(t, f, otherwise) ==
  /\ IF Usable(f) /\ fresh(f, ep[t])
     THEN Return(t, "fresh", f.doc) /\ serving' = FALSE
     ELSE Go(t, otherwise) /\ UNCHANGED <<memo, mu, serving, ep, body, last, given>>
  /\ UNCHANGED <<clock, files, up, snap, failures>>

ReadOverlay(t)  == pc[t] = "overlay" /\ FreshRead(t, overlay[ep[t]], "snapshot")
ReadSnapshot(t) == pc[t] = "snapshot" /\ FreshRead(t, SnapshotFile(ep[t]), "live")

(* FPL answers with a document that decodes.                               *)
Fetched(t) ==
  /\ pc[t] = "live"
  /\ body' = [body EXCEPT ![t] = clock]
  /\ Go(t, "create")
  /\ UNCHANGED <<clock, files, up, snap, memo, signals, mu, ep, last, given>>

(* Faulty: a failed fetch that nobody counts.                              *)
Uncounted == failures

Counted == failures + 1

(* FPL does not answer usefully: no connection, another status, or a body  *)
(* that is not the JSON expected.                                          *)
FetchFails(t) ==
  /\ pc[t] = "live"
  /\ failures' = Counted
  /\ Go(t, "stale snapshot")
  /\ UNCHANGED <<clock, files, up, snap, memo, serving, mu, ep, body, last, given>>

(* The caller's context ends, or the thirty seconds of the http client are *)
(* over: both errors are context deadlines to errors.Is, and get returns.  *)
FetchEnds(t, how) ==
  /\ pc[t] = "live"
  /\ Return(t, how, None)
  /\ UNCHANGED <<clock, files, up, snap, signals>>

-----------------------------------------------------------------------------
(* get: os.WriteFile truncates the overlay's file and then writes it.      *)

CreateOverlay(t) ==
  /\ pc[t] = "create"
  /\ overlay' = [overlay EXCEPT ![ep[t]] = Torn]
  /\ Go(t, "write")
  /\ UNCHANGED <<clock, published, up, snap, memo, signals, mu, ep, body, last, given>>

Serve(t) == Return(t, "live", body[t]) /\ serving' = FALSE

(* The file may not be created at all: the error is ignored.               *)
SkipOverlay(t) ==
  /\ pc[t] = "create"
  /\ Serve(t)
  /\ UNCHANGED <<clock, files, up, snap, failures>>

(* A write that fails leaves a torn file.  Where another call finished     *)
(* writing the same file in between, the tail of the longer one remains.   *)
WriteOverlay(t) ==
  /\ pc[t] = "write"
  /\ \E f \in {Torn, [doc |-> body[t], at |-> clock]} : overlay' = [overlay EXCEPT ![ep[t]] = f]
  /\ Serve(t)
  /\ UNCHANGED <<clock, published, up, snap, failures>>

-----------------------------------------------------------------------------
(* get: what is on disk, however old, the snapshot first.                  *)

serveStale(t, f, otherwise) ==
  /\ IF Usable(f)
     THEN Return(t, "stale", f.doc) /\ serving' = TRUE
     ELSE otherwise /\ UNCHANGED serving
  /\ UNCHANGED <<clock, files, up, snap, failures>>

(* Faulty: only what this process fetched itself is a fallback.            *)
OverlayOnly(t) ==
  /\ pc[t] = "stale snapshot"
  /\ Go(t, "stale overlay")
  /\ UNCHANGED <<clock, files, up, snap, signals, memo, mu, ep, body, last, given>>

StaleSnapshot(t) ==
  /\ pc[t] = "stale snapshot"
  /\ serveStale(t, SnapshotFile(ep[t]),
                Go(t, "stale overlay") /\ UNCHANGED <<memo, mu, ep, body, last, given>>)

StaleOverlay(t) ==
  /\ pc[t] = "stale overlay"
  /\ serveStale(t, overlay[ep[t]], Return(t, "error", None))

-----------------------------------------------------------------------------
(* A step of a call in progress, other than waiting for the mutex.         *)
Step(t) ==
  \/ CheckMemo(t) \/ ReadOverlay(t) \/ ReadSnapshot(t)
  \/ Fetched(t) \/ FetchFails(t) \/ FetchEnds(t, "cancelled") \/ FetchEnds(t, "timeout")
  \/ CreateOverlay(t) \/ SkipOverlay(t) \/ WriteOverlay(t)
  \/ StaleSnapshot(t) \/ StaleOverlay(t)

Next ==
  \/ Tick \/ Publish \/ Start \/ Stop
  \/ \E t \in Thread :
       \/ \E e \in Endpoint : Begin(t, e)
       \/ Lock(t) \/ Step(t)

(* Every fetch is over within the client's timeout, and the other steps of *)
(* a call are local; sync.Mutex hands itself to a waiter that has starved. *)
Fairness == \A t \in Thread : WF_vars(Step(t)) /\ SF_vars(Lock(t))

Spec == Init /\ [][Next]_vars /\ Fairness

-----------------------------------------------------------------------------
TypeOK ==
  /\ clock \in Time
  /\ published \in Time \cup {None} /\ snap \in Time \cup {None}
  /\ overlay \in [Endpoint -> File \cup {None, Torn}]
  /\ up \in BOOLEAN /\ serving \in BOOLEAN /\ failures \in Nat
  /\ memo \in [Memoised -> Time \cup {None}]
  /\ mu \in Thread \cup {Free}
  /\ pc \in [Thread -> {"idle", "lock", "memo", "overlay", "snapshot", "live", "create",
                       "write", "stale snapshot", "stale overlay"}]
  /\ ep \in [Thread -> Endpoint \cup {None}]
  /\ body \in [Thread -> Time \cup {None}]
  /\ last.ep \in Endpoint \cup {None}
  /\ given \subseteq Memoised \X Time

(* One worldview: every Bootstrap, and every Fixtures, of one process      *)
(* hands out the same document, however its callers overlap and whatever   *)
(* FPL, the generator and the overlay do meanwhile.  About memoising under *)
(* a mutex that is held across the whole read.                             *)
OneWorld == \A x, y \in given : x[1] = y[1] => x[2] = y[2]

(* Stale data is never silent: a process in which some call fell back to   *)
(* stale data, or found nothing at all, has counted a failed fetch.        *)
NeverSilent == last.how \in {"stale", "error"} => failures > 0

(* The reason for serving stale data: with a snapshot that covers it, a    *)
(* read that was neither given up by its caller nor timed out has an       *)
(* answer, whatever state the overlay was left in by a kill, a failed      *)
(* write or a concurrent writer.                                           *)
SnapshotNeverErrors ==
  last.how = "error" => snap = None \/ last.ep \notin Covered

(* The Client comment, internal/fpl/client.go: if a live fetch fails, the  *)
(* client serves whatever is on disk, rather than erroring.  A fetch that  *)
(* times out is a live fetch that fails; only the caller's own context     *)
(* ending is excepted.                                                     *)
FailedFetchIsServed ==
  last.how \in {"error", "timeout"} => snap = None \/ last.ep \notin Covered

(* Every call returns, whoever else holds the mutex and however FPL fails: *)
(* no path through get leaves the mutex held.                              *)
EveryCallReturns == \A t \in Thread : pc[t] # "idle" ~> pc[t] = "idle"

-----------------------------------------------------------------------------
(* What makes the properties inductive: only the holder of the mutex reads *)
(* a memoised endpoint, and past the memo it has found nothing memoised; a *)
(* call falls back only after a counted failure, and to the overlay only   *)
(* where no snapshot covers it.                                            *)
Reading(t) == pc[t] \notin {"idle", "lock"}

LockInv ==
  \A t \in Thread :
    /\ pc[t] # "idle" => ep[t] \in Endpoint
    /\ pc[t] \in {"lock", "memo"} => ep[t] \in Memoised
    /\ Reading(t) /\ ep[t] \in Memoised => mu = t

MissInv ==
  \A t \in Thread :
    Reading(t) /\ pc[t] # "memo" /\ ep[t] \in Memoised => memo[ep[t]] = None

GivenInv == \A x \in given : memo[x[1]] = x[2]

BodyInv == \A t \in Thread : pc[t] \in {"create", "write"} => body[t] \in Time

FallbackInv ==
  \A t \in Thread :
    /\ pc[t] \in {"stale snapshot", "stale overlay"} => failures > 0
    /\ pc[t] = "stale overlay" => snap = None \/ ep[t] \notin Covered

DownInv == ~up => last = NoCall /\ \A t \in Thread : pc[t] = "idle"

CacheInv ==
  /\ TypeOK /\ LockInv /\ MissInv /\ GivenInv /\ BodyInv /\ FallbackInv /\ DownInv
  /\ NeverSilent /\ SnapshotNeverErrors
=============================================================================

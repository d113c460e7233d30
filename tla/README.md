# Verification of Armband

TLA+ models of the parts of Armband that are hard to get right, the TLC runs
that check them, and TLAPS proofs of what matters most. Paths are relative to
the repository root.

## 1. The system

Armband reads the Fantasy Premier League (FPL) public API, scores players, and
recommends squads, transfers, captains and chips. It runs as

* an **agent** (`cmd/armband` with a question): a Claude tool-use loop over a
  toolbox that reads the engine and writes the user's standing overrides;
* a **squad server** (`cmd/armband -serve`): a page whose state is a cookie, and
  which under `-persist` also writes the overrides;
* **offline jobs**: capture of the live API into an archive, backfill from the
  Wayback Machine, replay of past seasons, and reports.

### Inventory

| Component | State it keeps | Operations | Hard behaviour | What makes it correct |
|---|---|---|---|---|
| Overrides (`internal/config/roster.go`, `team.go`) | three lists (lock, exclude, minutes) and club corrections, in `config.json` and `team.json` | `Set`, `Remove`, `confirm`, `SavePair`, `loadConfigPair` | two files written one after the other; concurrent tool calls; runs with and without `-team` | what was reported saved is what a restart loads; a player is never locked and excluded; no call is lost |
| FPL client (`internal/fpl/client.go`) | a mutable overlay and a read-only snapshot on disk, two memoised documents, staleness flags | `get`, `Bootstrap`, `Fixtures`, `Live`, `ElementSummary`, `FreeTransfers` | concurrent callers, mutex held across the network, crash inside a write, FPL down | a process answers from one bootstrap; stale data is reported; with a snapshot on disk a read never fails |
| Agent toolbox and loop (`internal/agent`) | the engine, the config, the conversation | the tools; `Ask` | the tools of one reply run concurrently; a paused turn is resumed by a new runner | a correction reaches engine and files whatever overlaps it; a resumed turn has all its work; a question ends |
| Squad server (`cmd/armband/serve.go`, `webroutes.go`, `session.go`, `chipteams.go`, `importteam.go`) | none but the cookie and a chip cache; the shared engine under a lock | `state`, `saveSession`, `importTeam`, `chipTeams`, `action` | cookies captured at send and set at receipt; a shared engine re-primed per request | the cookie is what the last answer says; no request sees another's overrides |
| Squad page (`internal/webui/assets/static/app.js`) | `PENDING`, `CHAIN`, `INFLIGHT` | hydrate, toggles, optimise, reset, import | late, lost and failed answers | no click is dropped; every click is answered |
| Scoring engine (`internal/analysis/metrics.go`, ...) | player metrics, overrides in force | `Compute`, the estimators | floating point | which overrides are in force is modelled, the scores are not |
| Optimiser (`squad.go`, `dpseed.go`, `funding.go`, `swaps.go`, `plan.go`) | the best squad so far, its spend, clubs and changes | fill, seeds, swaps, funded moves, transfer search | a pair scan on every core; figures carried from move to move; a bound trusted at every pick | the answer is legal, costed, within the changes allowed and the same whatever the schedule |
| Chips and transfers (`chipschedule.go`, `chips.go`, `banking.go`) | chips planned and played, free transfers banked | schedule, fire, bank | two sets of chips, plans beside rules, caps | a chip is played once in its set, one a week, and none planned is lost |
| Backtest (`internal/backtest`) | squad, purchase prices, bank, chips | week by week simulation | the order of a week's events, six ways to trade | every season replayed is one the game allows |
| Capture, backfill, archive (`internal/capture`, `backfill`, `wayback`) | immutable objects and provenance | capture, resume | interruption, retries, pacing | an object never changes; a resumed run finishes the rest |
| Signups (`internal/signup`) | a table | submit | none of its own: the database decides | not modelled |
| Priors and recent form | cached documents | load, shrink rates | floating point | not modelled |
| Presentation, snapshots, fitting tools | none | formatting, statistics | none | not modelled |

### Interactions

The agent's tools and the server's handlers both go through
`config.SavePair` to the two override files, through `fpl.Client` to FPL, and
install overrides in one shared engine. The page talks to the server by
requests that carry the cookie; the answers set it. The offline jobs use the
client's archive as their input.

## 2. The plan

Modules, in order. Those with a star are written.

1. `Roster`*, `OverrideStore`*, `AtomicBook`* (the store refines the book), proofs in `OverrideStoreProofs`*: what the user decided is not lost.
2. `FplCache`*, proofs in `FplCacheProofs`*: overlay, snapshot, live fetch and memo under concurrent callers.
3. `Backfill`*, proofs in `BackfillProofs`*: evidence from before a deadline, filed once, over kills and retries.
4. `Planner`*, proofs in `PlannerProofs`*: page, cookie and server, several tabs.
5. `Season`*, `FplGame`* (the replay refines the game), proofs in `SeasonProofs`*: free transfers, chips, hits and the wallet of a replayed season.
6. `AgentTurn`* over `Roster`, proofs in `AgentTurnProofs`*: the tools of one reply running together, and the turn that pauses and resumes.
7. `SquadRules`*, `SquadSearch`*, proofs in `SquadSearchProofs`*: building and revising a squad.

`Sums`* holds the lemmas about sums over a finite set that the proofs about money
and about squads cite, the induction they rest on, and what the folds of the community
modules and the places of a strict order come to.

Considered and left out: the engine that the server re-primes per request, which
carries nothing but what scores are computed from. The
signups and the cached priors keep no state that the code, and not a database
or a file, is responsible for. The pacing of the Wayback client and the live capture
series are sequential and retry one request at a time.

## 3. The override store

### Correspondence

`Roster` turns `Roster.Set`, `Remove`, `confirm` and the batch that
`persistCorrections` makes into operators on a roster: a function from the
three lists to a function from players to an override or `NoOverride`. The code
keeps at most one entry per player in a list, because every append goes through
`removeCode`, and nothing reads the order. Names, reasons and the date an
override was first set are left out. `SavePair` compares two lock lists with all
their fields, so in the code a repeated lock with another reason also rewrites
`team.json`, with the same players in it; in the model that save writes
`config.json` alone.

`OverrideStore` is one running process at a time, an agent run or the server
under `-persist`, started with or without `-team`:

| Model | Code |
|---|---|
| `mem` | `Toolbox.Cfg`, or `*squadServer.cfg` |
| `disk["lock"]`, the other two lists of `disk` | `team.json`, `config.json` |
| `mu`, `pc`, `call`, `next` | the mutex and the locals of a call in `updateConfig`, `action`, `persistCorrections` |
| `Start`, `Loaded` | `loadConfigPair`, `Load`, `LoadTeam`, `ApplyTo` |
| `Begin` | taking the mutex, copying, changing the copy, and the refusals that write nothing |
| `WriteConfig`, `WriteTeam` | the two atomic replacements of `SavePair`, then adopting the copy |
| `ConfigFails`, `TeamFails` | either write returning an error |
| `Stop` | the end of the process or a kill, between any two steps |

`confirm` is special: `Roster.confirm` takes a pointer into the list
that the copy shares with the original, so it changes `mem` at once. Two things
follow and the model has both: `SavePair` never sees a confirmed lock as a
change, so the date of a lock is not written to `team.json`, and a failed save
leaves the confirmation in memory. The properties say so: locks agree *up to
their verification*.

`behind` and `mixed` are history variables. `behind` is set by a failed save and
cleared by the next good one; `mixed` is set when the two files may disagree: a
save without `-team`, or a run that ended between the two writes.

### Runs

`override_store` (`MCOverrideStore`, `OverrideStore.cfg`): two players, two
threads, one minutes figure, two days; agent calls in five modes and
three kinds of server calls. Two threads are enough to lose an
update and two players to touch a bystander; players and threads are symmetric.
It checks

* `TypeOK`;
* `SavedIsLoaded`: what was reported saved is what a restart would load;
* `ExclusiveUnlessMixed`: nobody is locked and excluded, unless the files were left disagreeing;
* `NoLockWithoutHome`: a lock is refused where there is no team file to hold it;
* `SavesTouchOnlyTheNamed`: a save changes only the players its call names;
* `ConfirmedIsCarried`: a confirmed minutes override is not unconfirmed in silence;
* `ImplementsBook`: the store refines `AtomicBook`.

`override_split` (`OverrideStoreSplit.cfg`) checks the sentence of
`Roster.Set`'s comment that a player "cannot be locked and excluded at once",
with no failures and no kills, and finds it violated: lock under `-team`,
exclude without it, start again with it.

No fairness is assumed: the properties are safety properties.

### Proofs

`OverrideStoreProofs` proves, for every set of players, threads, figures, days
and calls that satisfies `RosterConstants` and `StoreConstants`, all the
properties of `override_store`, the refinement included:
`TypeCorrect`, `StoreInvariant`, `SavedSurvives`, `NeverBothLists`,
`LocksHaveAHome`, `OnlyTheNamed`, `ConfirmedStays`, `StoreImplementsBook`.

The argument: none of the properties is inductive. `StoreInv` adds
who is inside the read-modify-write (`MutexInv`), that the copy being saved is
the roster of the process with one call applied (`CopyInv`: why nothing can be
lost), what the files hold seen from the process (`FilesInv`, with its exception
between the two writes), and exclusivity of the files as well as of the process
(`ExclusiveInv`). It rests on lemmas about the operators of `Roster`: `Apply`
returns a roster, keeps it exclusive, changes nobody it does not name and
carries a confirmation forward.

The two action properties need one thing more. `OnlyTheNamed` compares a file
before and after a write, and what is written is the process's copy: `MatchInv`
says that config.json holds what the process does while no save has failed, up to the
verification that a confirm in progress has already moved in the process.

## 4. The FPL client

### Correspondence

`FplCache` is `internal/fpl/client.go`: one process at a time, several callers
in it, and the files that outlive it. A document is named by the moment FPL
published it, so two documents are told apart and their content is not.

| Model | Code |
|---|---|
| `overlay` | the files of `cacheDir`: a document and its mtime, absent, or not valid JSON (`Torn`) |
| `published`, `snap` | what the generator's symlink names now; `Client.snapshotDir`, resolved once by `NewWithSnapshot` |
| `memo`, `mu` | `Client.bootstrap` and `Client.fixtures`; `Client.mu` |
| `serving`, `failures` | the two fields of `staleness` |
| `pc`, `ep`, `body` | where a call is, what it reads, what FPL sent it |
| `Begin`, `Lock`, `CheckMemo` | `Bootstrap`, `Fixtures` up to their call of `get`; other endpoints go straight to `get` |
| `ReadOverlay`, `ReadSnapshot` | the two fresh reads of `get` |
| `Fetched`, `FetchFails`, `FetchEnds` | the request: a document that decodes; any failure; the caller's context or the client's own timeout |
| `CreateOverlay`, `WriteOverlay`, `SkipOverlay` | `os.WriteFile`, which truncates and then writes, and whose error is ignored |
| `StaleSnapshot`, `StaleOverlay` | `serveStale`, twice |
| `Publish`, `Start`, `Stop`, `Tick` | the generator; a process starting; its end or a kill at any step; the clock |

Two of the accessors that compute on a payload, the free transfers left and the
selling price, are in `Season`; the roster sets are left out.

### Runs

`fpl_cache` (`MCFplCache`): two callers, one memoised endpoint in the snapshot
and one endpoint read per request and outside it, windows of one tick, one tick
of clock, and no call begun after a counted failure (`MaxFailures`; calls in
progress may still fail, so the counter reaches two). Two callers suffice for
both to miss the memo and for two writers of one file; one tick suffices for a
file to expire and for a second document to exist. It checks

* `TypeOK`;
* `OneWorld`: one bootstrap and one fixture list per process;
* `NeverSilent`: falling back to stale data, or failing, is counted;
* `SnapshotNeverErrors`: with a snapshot that covers it, a read has an answer, in whatever state the overlay is;
* `EveryCallReturns`: no path leaves the mutex held.

Fairness, for `EveryCallReturns` alone: a step of a call in progress is taken
(weak fairness: the steps are local but for the fetch, which the 30 s of
`http.Client.Timeout` ends), and a caller waiting for the mutex gets it (strong
fairness: `sync.Mutex` hands itself to a waiter after a millisecond).

`fpl_timeout` checks the client's comment that a failed fetch is served from
disk, and finds it violated: that same timeout is `context.DeadlineExceeded` to
`errors.Is`, so `get` takes it for the end of the caller's own context.

### Proofs

`FplCacheProofs`: for any endpoints, callers, windows and bounds,
`TypeCorrect`, `OneWorldview`, `StaleIsCounted` and `SnapshotAnswers`. `OneWorld`
is not inductive. `CacheInv` adds that only the holder of the mutex reads a
memoised endpoint (`LockInv`), that past the memo it has found nothing memoised
(`MissInv`), that what was handed out is what is memoised (`GivenInv`), and,
for the other two, that a call falls back only after a counted failure and to
the overlay only where no snapshot covers it (`FallbackInv`).
`EveryCallReturns` is liveness and is only model-checked.

## 5. The backfill

### Correspondence

`Backfill` is `backfill.Run` over one season, run as often as one likes, each
run killed anywhere. Instants are numbers; a crawl of the Archive is its
instant. A season (`world`) says when each gameweek's deadline was first set,
when it truly was, when FPL published the change, the ceiling from the season
archive's kickoffs and the crawls there are.

| Model | Code |
|---|---|
| `dirs` | the capture directories: none, without a manifest (`bare`), with half of one (`torn`), or a capture (`done`) |
| `saved` | `deadlines.json`, which `SaveDeadlines` replaces in place |
| `dl`, `counted` | the calendar of a run; the counts of the index read when it opened the store |
| `gw`, `bound`, `chosen`, `tries`, `wanted` | the locals of `Options.resolve` |
| `Run`, `Index`, `DiscoverDeadlines`, `SaveDeadlines`, `WriteDeadlines`, `SaveLastFails` | `Run` up to its loop and after it |
| `SkipWeek`, `StartWeek`, `FetchFails`, `Refused`, `Verified`, `Chosen` | one gameweek: skip it, or the search of `resolve` with its step back and its widening |
| `NotStored`, `MakeDir`, `WritePayload`, `WriteManifest`, `MakeDirFails`, `WriteFails` | `Options.store` and `Backfilled.Write`, one action per effect on disk |
| `FetchNext`, `EndWeek` | the rest of a denser cadence; marking the deadline confirmed |
| `Finish`, `Kill` | the table; the end of a run anywhere |

Left out: the age in an overlay's name, the minute that directory names are
rounded to, the `finished` flag (it is set only after a deadline, which the
first test of `VerifyPreDeadline` already rules out), the arithmetic of the
cross-check that lets a crawl be the source of the provisional calendar, and the
pacing and retries of the Wayback client (a fetch succeeds or fails).

A payload from before FPL published a change shows the old deadline, in the
model as in reality, so no check of the payload can be enough. The model rests on `Honest`: where
the season archive knows the match, the ceiling is the true deadline (ninety
minutes before the first kickoff is FPL's own rule); where it does not, FPL
had published the correction by the deadline. Every theorem about hindsight is
under that assumption, which is stated in `BackfillConstants`.

### Runs

All use seasons of two gameweeks over instants 0 to 5: the first gameweek as planned, the
second moving earlier, later or not at all, announced in time or late, with and
without a recorded match.

`backfill`: a cadence of two crawls and two attempts, with failing fetches and
writes and kills. Two attempts reach the step back and the widening; the second
crawl of the cadence reaches the window behind the chosen one; the unbounded
number of runs reaches every mix of old and new captures. It checks `TypeOK`,
`NoHindsight`, `WithinCadence`, `Immutable` and `SilentWhenComplete`. Deadlock
is not checked: a store with a torn manifest refuses to open, and everything
stops there.

`backfill_latest` (nothing fails) finds that `resolve` does not widen to a
gameweek's later deadline, although its comment says so: the widening asks for
a deadline strictly below a ceiling that is that very deadline.

`backfill_gap` (kills only) finds that a kill between making a directory and
its manifest leaves a gap for good, which the table then lays to the Archive.

No fairness: all are safety properties.

### Proofs

`BackfillProofs`: `TypeCorrect`, `NeverHindsight`, `CapturesStay`, `NeverBeyondCadence`
and `CompleteIsSilent`, for any
season that is `Honest`, any cadence and any number of attempts. `NoHindsight` is
about what is filed; `BackfillInv` carries it back to the crawl in hand
(`HandInv`), the directory without a manifest (`StoreInv`), the bound that is
never above the ceiling (`BoundInv`) and the phases of a run (`PhaseInv`). The
case that needs an argument is a season without a ceiling, where the payload's
own deadline is shown to be early enough by `Honest`.

`WithinCadence` is about many runs, each of which decides from counts it took once. `CadenceInv`
says that the count of every gameweek still to come is what the store holds
(`CountInv`: nothing but this run files, and it files for the gameweek it is in) and that what is filed, in
hand and wanted for the one at hand fits the cadence (`RoomInv`). It needs that a window of the n
latest crawls holds at most n (`WindowFits`: all but its earliest are
later than that one, and those are fewer than n) and that the crawl it hangs on
is never in it. `CompleteIsSilent` compares a table with a store that
later runs have added to: `ReportInv`, by `NothingUnfiled`.

## 6. The planner

### Correspondence

`Planner` is the session in the browser's cookie, the tabs that share it, and
the three routes that write it.

| Model | Code |
|---|---|
| `jar` | the session cookie; `Session` is the `session` struct |
| `loading`, `saving`, `importing` | per tab, the `GET /api/state`, `PUT /api/session` and `PUT /api/import` in flight, with the cookie or body they were sent with |
| `doc`, `pending`, `chain` | the document on screen, `PENDING`, the saves queued in `CHAIN` |
| `Open`, `state`, `LoadFails` | `boot` and the state handler, which mints a seed |
| `inflight`, `busy` | per tab, `INFLIGHT` and the class `saving` on the body, which disables the controls |
| `save`, `sendSave`, `saveSession`, `SaveFails` | a click counted and queued; its mutation applied and sent; stored and answered; refused, failed or lost; `Finally`: the `.finally` of the last two |
| `Throws` | `save`'s `.catch`: the mutation at the head of the queue throws before anything is sent. Only `saveArrangement`'s is said to, the click `arrange` |
| `importTeam`, `Imported`, `ImportFails` | the import, outside the queue |
| `Locked`, `Blocked`, `buildSquad` | `session.applyTo` over `forPlanner`'s copy of the config; `buildSquadPage` |
| `clicks`, `owner`, `meant`, `sure`, `thrown` | the bound on what readers do; history: whose document is the cookie's, what a tab's reader asked for, whether something of his failed or raced, and how many of his mutations threw |

Left out: what a lineup holds (`arrange` is sent and answered like any save, and changes nothing else of the session), captains, chips and the transfer baseline (they travel with
the session and no property reads them), the size of the cookie, and `-persist`,
whose writes `OverrideStore` models. A tab has one import in flight at a time. The
optimiser is a pair of constant operators, `Optimum` and `Varied`, of which the
assumption says only that they obey the corrections they are given. Reset on a
page with an imported team is an import and is modelled as one.

### Runs

`planner` (`MCPlanner`): two tabs, three players of whom config.json
excludes one, squads of two, one team to import, one seed, and five acts of
the readers: lock and block of the excluded player, a swap, a new lineup, Optimize, Reset, an import and (re)loads. Two
tabs give every race there is on one cookie; five acts allow two loads and
three changes, enough for a queue behind a save in flight with another tab
writing between. It checks `TypeOK`,

* `OneStandingPerPlayer`: nobody is locked and excluded, or dismissed and either;
* `ShownObeys`: the fifteen on a page obeys the corrections drawn beside it;
* `NoneIsDropped`: an idle tab's clicks are in the cookie, in order, unless something of it failed, it imported meanwhile, or another tab wrote;
* `PageIsStored`: what an idle page would send is what is stored;
* `EverySaveSettles`: every save asked for gets its turn, whatever is refused,
  lost or thrown before it; and once none is left, `INFLIGHT` is back to zero and the
  page is not marked busy, unless a mutation threw (`CountedOut`).

Fairness, for the last: the page runs the next save of its queue, which is sent or
throws, and a request in flight is answered or rejected; both come from promises that the
browser settles. Loads and imports need none. Deadlock is not checked: readers
stop.

`planner_read` checks the state handler's comment that every load after the
first is a pure read, and finds it violated: a save drops the seed, so the next
load mints one and writes back the session it was sent with, over another
tab's save.

The comment on `INFLIGHT` says it counts the saves asked for and "not yet
answered". A mutation that throws is counted by `save` and never reaches the
`.finally` that counts it out: from then on `INFLIGHT` does not return to zero, so
the next save leaves `body.saving` set, and the controls disabled, until the page
is reloaded. `EverySaveSettles` excepts exactly that (`thrown`).

A reload may also show another fifteen than the save before it was answered with: the
answer is built without a seed, and the reload with one.

### Proofs

`PlannerProofs`: `TypeCorrect`, `OneStanding`, `PagesObey`, `OnlyThrowsLinger`, `NoClickIsLost` and
`PageMirrorsCookie`, for any tabs,
players, squad size, teams, seeds and optimiser. A page's lists are only as
good as the answer they came from, and that only as good as the body it was sent
or the cookie it was sent with: `PlannerInv` says that every copy of the session, wherever it is on its
way, keeps its lists apart (`CopiesInv`), and that `INFLIGHT` is the saves that wait, the one in flight and
those that threw (`CountInv`), from which `OnlyThrowsLinger` follows: an idle tab has counted every
other save out.

The last two need an invariant of the whole queue, `QueueInv`, which says of every tab

* `Loaded`: without a document it has nothing queued, in flight or promised;
* `InStep`: while nothing of it failed, `PENDING` is the document on screen, or the body of the save in flight;
* `Owns`: while the cookie's document is its own, the document and the cookie hold the same corrections;
* `Pending`: the clicks in its queue, applied in order to `PENDING`, lead to what its
  reader has asked for: there is a path of sessions from one to the other with a click at each
  step (`Leads`).

Each action moves one end of such a path: a click makes it longer at the far end
(`LeadsFurther`), a save sent takes its first step (`LeadsOn`), and an answer, which
may bring another fifteen, leaves the corrections it starts from as they were (`LeadsAgain`), as the effect of a
click on the corrections depends on nothing else of the session (`MutatedCorrects`). An empty queue is a path of
no steps, which is `NoneIsDropped`.
`EverySaveSettles` is liveness and is only model-checked; `OnlyThrowsLinger` is the part of it that holds at every step.

## 7. The replayed season

### Correspondence

`Season` is `backtest.Simulate` with the searches of `internal/analysis` that it
calls. What a player, a chip or a wait is worth is a floating-point score and is
left open: wherever the code compares scores, the model may go either way. What
the code does with money, slots, clubs, hits, free transfers and chips is kept
exactly, so whatever holds of the model holds whatever the scores are.

| Model | Code |
|---|---|
| `cfg`, `start`, `price` | `SimConfig`, `StartGW`, the archived prices (a week is decided at the prices of the week before) |
| `held`, `bank`, `bought` | the squad and the `wallet` |
| `free`, `hits`, `left`, `made` | free transfers, the week's hits, the moves its search has left, its transfers |
| `plan`, `fired`, `played` | the chip sets (`splitChipSets`), what the trigger rules fired, what a week was scored under |
| `Refuse`, `Open`, `Fail` | `validateChipSets`; the opening squad; `Optimize` finding none |
| `ConsultWildcard`, `ConsultFreeHit`, `ConsultBoost` | the three rules of `chiptriggers.go`, through `eligible` |
| `PlayWildcard`, `SitOut`, `Bank`, `Decide` | the head of a week's decision |
| `Unify`, `FundedPair`, `NoPair`, `Swap`, `Rest` | `unifiedDecide`; `takeFundedPair`; the greedy loop |
| `Field`, `Score`, `Finish` | the eleven of a free hit, the scoring switch, the turn of the week |
| `before` | the squad and wallet that the week began with, which a free hit gives back |
| `Sale`, `Stale`, `short` | `settleSale`; what a quote that a purchase has outdated loses; the sum of that (history) |
| `ft`, `ReadOff` | `fpl.FreeTransfers` over the history the season leaves |

`FplGame` is the game as a manager plays it: what the rules let him do, and
nothing of how he decides. A replay is a result about the game only if every
season it plays is a behaviour of `FplGame`.

Left out: the oracles and the template-core overlay (off unless an experiment
sets them), points, benches and captains, and reading the archived seasons.

A search may buy a player back in the week it sold him: a pair that sold him only to
fund another purchase, or two swaps, can do that, and the code excludes who is owned
now and nobody else (`Arrivals`). If he is sold once more that week he is settled
at the quote of the week's start. `short` is a history variable that adds up what this
loses; no guard reads it.

### Run

`season` (`MCSeason`, `Season.cfg`): six players for three slots, two of them of one
position, and one club with a cap that binds; four gameweeks, the second
set of chips from the third, entered in the first or the second; at most three
free transfers; two price histories, one in which players rise and fall; fifteen
configurations, each turning on one part: two funding sales, two hits, one hit under a lower ceiling,
banking ahead, the unified search, a limit on moves, all rules in two sets or in one,
a planner's plan, a plan beside rules, free hits in both sets, and three plans that are
refused. Four gameweeks give two decisions in each set and a wildcard or free hit
with weeks on both sides; three players are enough for a swap, a funded pair
and a hit together. It checks `TypeOK`,

* `MoneyIsRight`: each path has its own test of what can be paid, and the bank stays at zero or above through all of them (`NeverOverdrawn`); a week's trading leaves selling value plus bank as it found it, less what stale quotes lost, which is never a gain (`TradingMakesNoMoney`);
* `SquadAndWalletAgree`: purchase prices are known for exactly the players held (`WalletTracksTheSquad`), and after a free hit the squad, the money and the prices are those of before (`FreeHitHandsBack`);
* `KeepsTheRules`: one play of a chip in each set and one chip in a week (`OnceOfAKind`, `OneChipAWeek`); a planned chip whose week is over was played (`NoPlannedChipIsDropped`); hits are the transfers beyond the allowance, within the limits, and what is unspent is carried (`HitsAreTheExcess`); the replay's free transfers are those `internal/fpl` reads off the history (`AllowanceAgrees`);
* `PlaysALegalSeason`: the replay refines `FplGame`, whose manager has the replay's bank and what stale quotes lost it. He could do all the replay did, and is never the poorer of the two.

All are safety properties and no fairness is assumed.

### Proofs

`SeasonProofs`, for any players, slots, clubs, price histories, length of season and
configurations that meet `SeasonConstants`: `TypeCorrect`, `OneChip`,
`OnceInASet`, `HitsAreExact`, `WalletIsExact`, `SquadComesBack`,
`PlannedChipsArePlayed`, `AllowancesAgree`, and from these `RulesAreKept` and
`SquadAndWallet`; `MoneyAddsUp`; and `EverySeasonIsLegal`, the refinement. Each needs an invariant of its own,
and they build on one another:

* `ChipInv`: the plan is valid and rules yield to it, so two plays of a chip in
  one set would be two plans or two firings;
* `HitInv`: what each phase of a week has left of the allowance and may spend
  (`made + left` is the limit throughout the greedy loop);
* `WalletInv`: the players held are different, without which a sale would drop the price
  of one still held;
* `BackInv`: where a free hit may yet be played this week nothing was traded;
* `DropInv`: every chip due whose phase of the week is past was played; it uses
  `ChipInv`, as the scoring switch plays one chip only;
* `AgreeInv`: the history keeps the free transfers of a chip week exactly where
  the replay did, which is `ChipInv`, `HitInv` and `DropInv` together.

* `MoneyInv`: a player held has the purchase price he was quoted from, or cost what he
  costs now, and nobody raises more than that; so a sale settles at what the wallet would raise
  less a loss that is not negative (`SaleIsWorth`), and loses nothing in the week's first
  trade (`FirstLosesNothing`). The selling value of a squad is a sum over its slots, and the lemmas of
  `Sums` say what a trade does to it: `TradeKeepsWorth` for what it leaves,
  `RebuildIsPaid` and `SwapsArePaid` for the two affordability tests the code has (a rebuild
  budgeted at market, and the legs of a swap or a funded pair one by one);
* `FreshInv`: what has been played this week, by the phase it has reached.

`EverySeasonIsLegal` takes `SeasonInv`, all of these together, and maps each step: `Open` to
`Enter`, `PlayWildcard` to `Wildcard`, the three ways of trading to `Transfers`, `Field` and
`Score` to `Activate`, the turn of a week to `Deadline`, the rest to a stutter. The game exchanges
two sets of players and the replay settles slot by slot; `TakingsAreTheGames` is where
the two sums differ by exactly what stale quotes lose. `Slot` must not be empty: a squad of nobody has no prices to tell
whether the season has opened.

### Where the code and its comments or its parts differ

Seen while modelling; the properties name each as their exception.

* With several funding sales, `takeFundedPair`'s board may sell two players for the
  same arrival (`internal/analysis/swaps.go:666-680`): only the sold slot and the
  upgrade are excluded. The squad then holds one player twice. Such a season ends in
  the phase `doubled` and is not followed: `FplGame` sees it up to the trade before. One
  configuration of the run reaches it.
* `decide` takes the selling prices once, at the head of the week. Its comment and `settleSale`'s
  say that without the oracle the quote and the wallet's own price are the same number
  (`internal/backtest/simulate.go:2721-2723`, `:3497-3499`), and `settleSale`'s that a player bought in
  the week and sold later in it has no quote (`:3509-3511`). A player who was held as the week began, sold,
  bought back and sold again has one, from the price paid before: where he had risen, the replay
  receives less than the wallet would give. The search is shown the same quote, so the
  bank is not overdrawn. The run reaches this state in twelve steps.
* A season entered in gameweek 1 has two free transfers in gameweek 2 by the
  replay's count and one by `fpl.FreeTransfers`, which passes over gameweek 1.
* A wildcard planned for the entry week is dropped without a word: no decision is
  taken in that week.

## 8. The agent's turn

### Correspondence

`AgentTurn` is one question to the agent after another (`Agent.Ask`, which a
process calls once), over the roster that `Roster` defines. The API and the SDK's tool
runner are external: a reply asks for any set of calls the constants allow, pauses, or ends
the turn; the runner starts the calls of one reply together and sends the next request
when all have returned.

| Model | Code |
|---|---|
| `file`, `cfg` | the two override files; `Toolbox.Cfg` |
| `minutes`, `cong` | the engine's three maps of minutes overrides; `Engine.Cong` |
| `phase`, `iterations`, `restarts` | where `Ask` is; requests of the current runner; resumptions |
| `unheld` | how many replies `Ask`'s own `runner` lacks: a resumed runner accumulates its own, and hands over when its loop ends |
| `at`, `confirmed`, `copy` | per call, the locals of its handler |
| `Start` | `loadConfigPair`, `buildEngine`, `applyMinutesOverrides`, the first request |
| `CallTools`, `Pause`, `Finish`, `Join` | the loop of `Ask` |
| `WriteStatus`, `FailStatus`, `ReadBack`, `SetMinutesOverride`, `ClearMinutesOverride` | `set_player_status`: `updateConfig` under the toolbox's lock, then the engine under its own |
| `EditWindows`, `SetCompetitionWindows`, `SaveWindows`, `FailWindows` | `update_competition_status`: a copy edited without a lock, swapped into the engine, then saved |
| `Stop` | the end of the process at any point |

The two files are written as one here, because `OverrideStore` has their order;
`set_price_forecast`, which replaces one map of the engine, and the tools that
only read are left out.

### Run

`agent_turn` (`MCAgentTurn`, `AgentTurn.cfg`): eight calls about two players and
two clubs, one of them without an end date for a window that is there, alone, in pairs about one player, two players or two clubs, and three at once
of both kinds; two competitions, one on each map; two requests to a runner and two
resumptions (four in the code: a second resumption is what exercises handing over
from a resumed runner, and a third repeats it). Nothing bounds the number of
runs. It checks `TypeOK`,

* `AnOverrideBindsAtOnce`: a minutes or clear call that no other contests leaves the engine and the files with what it asked for, confidence and expiry included;
* `EngineHoldsEveryCorrection`: the engine loses no correction to a call about another club or map: a window removed is gone, one corrected is there, and ends on the date given if one was (a call without one leaves the date of a window that is there, `Edited`);
* `ALoneCorrectionIsSaved`: the only correction of a reply leaves the files with all that the engine knows, earlier failed saves included;
* `ResumesWithItsWork`: a resumed turn has every reply before it;
* `EveryAskEnds`: a question ends, whatever is called and however often the turn pauses.

Fairness, for the last: the API answers or its client gives up, a tool's goroutine
that can take a step takes it, and the runner goes on when the last has returned. No
fairness is asked of which answer comes.

### Proofs

`AgentTurnProofs`, for any players, clubs, competitions, calls, replies and caps
that meet `TurnConstants`: `TypeCorrect`, `ResumesWhole`, `BindsAtOnce`,
`EngineTakesAll`, `LoneIsSaved`. The last three speak of a reply whose calls have
all returned; `BindInv` and `WindowInv` say what each
handler has done so far: that a lone call between its steps finds config and
files agreeing on its player (which needs the lemma that another
call leaves him alone), that a copy edited without the lock still holds its correction
when it is swapped in, and that the only correction of a reply carries the
engine's congestion unchanged to the files. `EveryAskEnds` is liveness and is
only model-checked.

### What the properties except, and why

* Two `set_player_status` calls of one reply about one player: config and engine
  are updated under two locks, and the engine may end with the figure of one
  call while the files hold the other's.
* Two `update_competition_status` calls of one reply may save their snapshots in
  the other order (`internal/agent/tools.go:1606` to `1660`), and the files lose one, where the
  code says it is persisted "so the correction survives to next week's review".
  About one club and one map, the engine loses it too.
* `confirm` may move the expiry in the config; the engine keeps the old one until
  the next run.

## 9. The squad optimiser

### Correspondence

`SquadRules` is what a squad costs and is worth (`xiScratch.objective`), and the two
exact sub-problems that `Engine.Optimize` solves on its way: the cheapest legal
completion of a squad in progress (`fillBound`) and the best eleven of each formation
for the money (`dpSeeds`). `SquadSearch` is `Optimize` itself, from the request to
the answer:

| Model | Code |
|---|---|
| `world`, `req` | what `AllMetrics` and the floors of minutes answer; `OptimizeRequest` |
| `squad`, `spend`, `clubs`, `spent`, `best` | `selected`, `spend`, `clubCount` of the fill; `current` and polish's running figures |
| `Refuse`, `TakeLocks`, `Fill` | the checks before a search; the greedy fill |
| `PolishFilled`, `PolishOwned`, `RefuseRevision` | the start of `polish`, from the fill or from the owned fifteen (`boundedRevisionSeed`) |
| `moves`, `round`, `RunSingles`, `NextKind` | the order of `runSingles`, `runPairs`, `runFunded`, and their rounds |
| `BeginScan`, `Claim`, `File`, `Reduce` | one round of `runPairs`: the goroutines of `pairScan.evaluate` claim chunks off an atomic counter and keep what they find under the chunk; `reduce` replays it |
| `RunFunded` | `fundedUpgrade` over `fundingCombos` |
| `first`, `PolishSeed`, `Answer` | `repairClubs` and the ranking of the seeds, the second polish, the exchange at the end |

Scores are whole numbers with a gap `Eps` below which two are a tie, as 1e-9 is in the
code; floating point itself is not here. The worth of a bench is a parameter
(`BenchWorth`), `fit` stands for the floors of minutes and availability, and a request's
lists are sets. Which of several moves tied within `Eps` a single-swap or funded scan
takes depends on an order of players that the model does not keep: any may be
taken (`Uphill`). The pairs, whose order is the point, are kept in it. Left out are the
template lock, price overrides and tie-breaking nudges, all of which
change the market before the search reads it.

Two things the code does, and the model with it: a revision does not sell a player
the request excludes (exclusion only keeps players from being bought), and an
owned squad over the budget is returned as it is when no legal move gains anything.

### Run

`squad_search` (`MCSquadSearch`, `SquadSearch.cfg`): a squad of five, four of whom play, from ten
players of three positions and three clubs with at most two from one; two workers;
five markets, of which one is built so that two sales fund one upgrade, pairs tie nearly, and a club starts
over its limit, and twenty requests: new squads rich, poor and impossible, with locks,
forced starters, exclusions and a bench boost, and revisions by none to five players, locked, over
budget, over the club limit or not to be had. The candidate lists and
rounds of the code (14, 30, 200, 60, 30) shrink to sizes that still cut
something off, and a seed looks at one player of a position at a price (the code: four)
where two can play. Two workers are enough for any order of filing: a find is known by its
chunk, not its worker. It checks `TypeOK`,

* `SolvesExactly`: the bound the fill trusts is the price of the cheapest legal completion, found by looking at all of them, so no request is refused that has an answer and the fill never strands; the eleven of a seed is the best of its formation for its money, of those with no more than `PerPrice` of a position at any one price;
* `ReplayIsTheScan`: whatever order the workers ran in, the pair applied is the one the serial scan would have taken, over all pairs and not only those filed;
* `ObeysTheRequest`: quotas, locks, the club limit (but for what the owned squad was over it) and the changes allowed, after every move;
* `BooksAreRight`: spend, score, clubs and changes are those of the squad, and it is within the budget unless it is the owned one;
* `NeverWorseThanItsStart`: the answer is worth no less than any seed, nor a revision than the squad it revises.

The limit of `PerPrice` in `SolvesExactly` is real. `frontier` (`dpseed.go:313-338`) says that
whoever it drops is dominated, but it keeps four at a price and up to five of a
position play: with five defenders at one price the fifth is not considered, and the seed may score
less than the best. TLC finds such an eleven as soon as the limit is left out of the property. It
costs no more than a weaker seed, and no other property rests on it.

The greedy fill's last refusal, for want of anyone to add, is never taken: that is what
`SolvesExactly` comes to, and what the theorem `FillNeverStrands` says.

### Proofs

`SquadSearchProofs` proves all that the run checks, for any market,
request, squad rules, candidate sizes and number of workers that meet `SquadConstants`,
`SearchConstants`, `BenchIsWorthANumber` (a bench of a full squad has a worth, and it
is a whole number), `ElevenFits` (a squad has the places an eleven may need, and the list
of positions names each once: `squadQuota`, `xiMax`) and `MoneyIsBelowTheMark` (all the players together, and
any budget, cost less than the 2^30 tenths that stand for what cannot be had; without it
`boundInfeasible` would be a price).

*Obeying the request* (`TypeCorrect`, `KeepsToTheRequest`). `ObeysTheRequest` is not
inductive: each move looks at the clubs it touches, in counts carried forward.
`SearchInv` adds that the counts are the squad's own, that a squad being filled is within
the limits, that the one put by while a seed is polished obeys the request too, and that
whatever is left, held or found in a scan belongs to the squad being scanned. The lemmas
count what one swap does to any set of a squad's players (`SwapCount`), from which follow
its quotas, its clubs and its distance from the owned squad; a pair is two swaps, of which
only the end has to be within the limits.

*The books* (`CarriesItsBooks`, `GainsOrKeeps`). `BooksInv` follows what each move carries
forward: in the fill, that the spend is the cost of the squad and within the budget (`FillCost` is never
negative, so where a player's cheapest rest fits the money left after him, he fits himself); then that spend and
score are the squad's own, that what a scan has found carries the score and fits the budget
of the squad it leads to, and that the score has not fallen below that of the owned squad or, while a
seed is polished, of any seed. Costs are sums over players, so `Sums` gives
what a swap does to them (`SwapCost`); a score needs only to be a number
(`ObjectiveType`), and to stand still while the market and the request do. No move is made that does
not gain more than `Eps`, so none falls behind. At the end the polished fill is kept unless
the polished seed beats it by more than `Eps`: that is the slack in `NeverWorseThanItsStart`.

*The workers* (`WorkersDoNotMatter`). `ScanInFull` is the invariant: each chunk is left, or
held by a worker, or everything it can give has been found, and nothing else was found. When no
chunk is left or held, what was found is exactly the pairs that beat the score the scan began
with (`FoundIsBeating`). Replaying these is replaying all pairs, the serial scan (`ReplayLeavesOut`): by
induction on the pairs replayed, the last in line taken off each time (`SomeoneCloses`,
`ReplayUnfolds`), the best so far never falls below what the scan began with, so a pair
that does not beat that is refused. `ReplayUnfolds` has to show that the fold of the community
modules, which recurses over sets of places in the line, is well defined (`TableOfReplays`), and that the order
of the scan is a strict and total one (`OrderIsStrict`, `OrderIsTotal`).

*The exact sub-problems* (`SolvesWhatItClaims`, `FillNeverStrands`). Three arguments meet here.

Tier 1 is a lower bound, position by position: from any players that keep to the clubs' room one can pass, at
no greater cost, to the first of those that `tier1Position` admits, as whoever it does
not admit has a club's worth of cheaper ones before him (`AdmittedSuffice`, `Tier1IsABound`).
Tier 2 is exact: `Answers(K, D, dp)` says of the table after the clubs `D` that each of its cells is
the need and the price of some players of those clubs, that no such players leave the same need for less,
and that a need has one price. A club more keeps that (`ServedStep`), whichever club is taken next,
so the table at the end is the answer (`ServingsAnswer`, `Tier2IsExact`,
`ExactIsCheapest`).

`Answered` is the invariant that carries this through the fill, with `SoundBooks` beside it: while
filling, the squad fits its quotas and clubs and its cheapest completion the money left.
Someone of that completion may then be added (`SomeoneCanBeAdded`), and adding whoever the bound
accepts leaves a completion there is money for (`AddedStillCompletes`). So the fill
ends only with a full squad, and a refusal comes only from the checks before it, where there is no
squad within the budget. `SolvesExactly` alone is not inductive: it compares the bound
with the completions and does not say that there is money for one.

The seeds: `frontier` loses no players worth having but those beyond `PerPrice` at a price
(`FrontierSuffices`). `Drawn` says of a curve that each point is its
picks' number, cost and score, and that no players seen so far do better for the same; offering one more
player keeps it (`OfferDraws`, `CurveIsDrawn`). `Assembled` says the same of the positions
combined so far (`ElevensAreAssembled`), and the best point within the money is the best eleven (`PicksAreBest`).

Both tables are folds of the community modules, whose recursion over sets
and sequences has first to be shown well defined: `StepTable` and `StepsKeep` of `Sums` do that once
for any fold, and the induction over clubs, players and positions is theirs. The "k cheapest" of a set are its first places in a strict order
(`PlacesGrow`, `PlacesAreTaken`, `FirstOnes`).

## 10. What the results rest on

* The bounds above are those of the TLC runs; the theorems hold for every value
  of the constants that meets the named assumptions (`RosterConstants`,
  `StoreConstants`, `CacheConstants`, `BackfillConstants`, `PlannerConstants`, `NoneIsApart`,
  `SeasonConstants`, `TurnConstants`, `SquadConstants`, `SearchConstants`, `BenchIsWorthANumber`,
  `ElevenFits`, `MoneyIsBelowTheMark`).
* Liveness and ENABLED are out of the prover's reach and are model-checked only; every
  safety invariant that a passing run checks is a theorem. The prover cannot use
  the library's induction theorems. Where a proof needs induction over a finite set
  (sums, the replay of a scan, the tables of the two dynamic programs), it takes the least
  subset that would fail (`LeastSubset` and `OneByOne` of `Sums`).
* Two processes that write the same files at once (an agent run beside the
  server under `-persist`) are outside the models: they share no lock,
  and nothing in the repository promises anything about it.
* The hazards of the code, each with the properties that would catch it or
  the reason why none does, are listed in `PROJECT.json`.

### Not modelled

* The scoring engine, the optimiser's horizon plan, what the transfer search prefers, the
  valuations of chips: floating-point arithmetic, which TLC does not have and whose results
  no property of the repository fixes. They are the larger
  part of the source, so most of its lines are outside any module.
* Club corrections (`Roster.Teams`), lineups, chips and the chip cache of the server, and
  the shared engine it re-primes: they carry or compute scores.
* The results pages and the player-detail fetches of the server: reads of generated
  documents.
* The live capture series, the pacing and retries of the Wayback client, the migrations
  of `config.Load`.
* Signups (a single insert, decided by the database), priors and recent form
  (numeric shrinkage of files), presentation and view models (formatting), snapshots
  and fingerprints (pure functions of files), fitting tools (offline statistics).

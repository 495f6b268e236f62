# Enlightenment: a formal model

This directory models the Enlightenment training service (the Python package
`src/enlightenment`, its one page `ui/app.js`) and the workstation tool that makes its
noise model (`tools/udl_characterise.py`) in TLA+. The models are checked with TLC on
small instances. The safety properties of the training store, the drill loop, the storage
probe, the request pipeline, the operator interface, the noise tool and the days of training
are proved with TLAPS for every value of their constants.

The service is one asyncio process (one gunicorn worker) in a container with a
persistent volume. Handlers run on the event loop and hand blocking work to a
pool of threads (`asyncio.to_thread`); several pods may share the volume. All
persistent state is two JSON files, each replaced as a whole by a rename. The
errors that matter are therefore the ones between steps: two threads between a
read and a rename, two tasks between two awaits, a kill between two system calls. The tool
runs by itself on another machine; only the file it publishes crosses to the service.

## 1. Inventory

| Part | State | Operations | Interacts with | Hard behaviours |
| --- | --- | --- | --- | --- |
| Training store, `storage.py` | `training.json` with its revision, its backups, the flock | `seed`, `load`, `upsert_session`, `_take_backup` | called by the session routes from threads, by `_boot`; shared by pods through the volume | read-modify-write across processes, I/O errors and kills at each step, retention by wall clock |
| Progress store, `training/progress.py` | `progress.json`: rating, axes, streaks, run history of each operator | `load`, `save` | called by the drill loop, with no lock | lost updates, an unreadable file taken for an empty one, the history cap |
| Drill loop, `training/drill.py` | `_pending` (served, not yet aged out), `_unresolvable` (withheld items) | `serve`, `select`, `score`, `_evict`, `_withhold` | drill routes through threads; progress store, matcher, generators | overlapping submissions, iteration over a dictionary another thread changes, refusals that would repeat for ever |
| Storage probe, `app.py` | the cached verdict, the probe in flight, `runtime.ready`, a one-worker pool | `_probe_storage`, `_run_probe`, readiness and diagnostics routes, lifespan | every health request; the volume | single flight, late publication, cancellation, a worker stuck in a write, timers racing results |
| Request pipeline, `middleware.py`, `ratelimit.py`, `auth.py`, `app.py` | three limiter tables, the bodies being drained | coarse limiter, `BodyLimitMiddleware`, `require_token`, `_guard_write_rate`, `_guard_drill_rate` | wraps every route | a table that must be bounded without forgetting, a body whose size is not what a header says, a client that stops sending, the order of the refusals |
| Configuration and boot, `config.py` | immutable `Config` | `clean`, `load_config`, `_boot` | write posture of the routes | values pasted with quotes, blanks and characters that do not print; the order of the refusals |
| Content loader and models, `content/`, `tools/validate_content.py` | an immutable content package | `load`, schema gates; the authors' check | drill loop, reference routes | one bad file must neither take the process down nor pass for a package; two readers of one tree that must agree |
| Matching and evaluation, `scoring/` | none | `match`, the rubric's predicates | drill loop | the order of the gates: fillers, compounds, hyphens, negations, contradictions, tolerances |
| Generators, `generators/` | none | `board_for`, `compose`, the registry, the census of unread parameters | drill loop, manifest | the census and the board computed apart; refusals |
| Scheduling and ratings, `training/scoring.py`, `drill.py` | the streaks, due dates, rating and axes of the progress file | `update_ratings`, `next_interval_days`, `select`, `_withhold` | drill loop | starvation of items, interplay of due dates, ratings and refusals over days and restarts |
| Anonymous reads, `training_api.py`, `drill.py`, `identifiers.py` | none | manifest, dashboard, library of procedures | content package, withheld items | lists that are cut, identifiers that are shortened |
| Operator interface, `ui/app.js` | the drill on screen, what was typed for it, `busy`, fetches in flight | `show`, `loadDrill`, `submitAnswer`, `renderReveal`, the loads of the other views | drill routes | fetches that overlap, answer out of order, fail, or are cut off |
| Request models, audit lines | none | validation, redaction | every boundary | none |
| Seeded randomness, `scenario/determinism.py` | named random streams | derive, draw | generators | none |
| Rendering and physics | none | `render` | generators | numeric only |
| Noise tool, `tools/udl_characterise.py` | the stack of `Fetcher.fetch`, what it has fetched, the raw dump and the saved reference, what was published | `fetch`, `analyse`, `queryhelp`, `_write_private`, `assert_crossable` | an archive behind an HTTP service; the operator's files | windows over the offset cap, short pages, requests that fail, kills between open, chmod and write, three routes out past one guard |
| Health check, scripts | none | | | none |

What makes each part correct:

- **Training store.** No acknowledged write is lost; a revision named by the caller
  is the one replaced; a patch never creates; a merge never erases a field; an
  overwrite has a usable backup; an unreadable file is kept; the lock comes back.
- **Progress store and drill loop.** A run moves a rating at most once; what was
  confirmed is stored; saving one operator's answer loses nobody's rows; a stored
  row carries the seed of what was seen; an item that refused is not chosen again;
  the map of an anonymous route stays bounded; every request ends.
- **Storage probe.** One probe at a time that anybody still wants; a stale verdict
  never overwrites a newer one; every caller returns although the volume hangs; a
  lasting failure is noticed.
- **Request pipeline and configuration.** Bounded tables that forget nobody; no body over
  the cap gets in however it is framed; health checks pass; an open route cannot spend a
  gated one's budget, whatever was pasted around the token; every request is answered.
- **Content, boards, marking, days.** What the authors' check approves is served; an answer
  marked right earns more than any other, and is a right reading of the plot but for the
  three gaps `scoring/matching.py:371-384` names; the manifest names what is missing, all of
  it; a card opens its procedure; no item is starved.
- **Operator interface.** An answer is sent for the drill the operator read; the view is
  never left mute; a lost reply leaves no dead form.
- **Noise tool.** Nothing is silently sampled: what is published stands for its whole
  window or says what it leaves out; only distributions cross; the records stay private
  wherever the tool is stopped; every invocation ends.

## 2. Modules

| Module | Models | Notes |
| --- | --- | --- |
| `SessionTable` | the snapshot and the pure functions on it: `merge_session`, `_apply`, `_enforce_cap`, the refusals | shared by the store and its abstract specification |
| `TrainingStore` | `seed` and `upsert_session` step by step: flock, load and checks, backup, pruning, temporary file, rename, release; an `OSError` or a kill at every step | one worker is a thread of any pod |
| `SessionLedger` | what the store promises: every request takes effect at one instant, is refused on what the ledger held then, or fails without effect | abstract specification |
| `TrainingStoreProofs` | theorems, with the lemmas on the table | |
| `OperatorRecord` | one operator's record and how a scored answer changes it | data of the drill loop |
| `DrillLoop` | `serve` and `score`, one step between two accesses to shared state; expiry by a clock that may be set; restarts | no lock in the code, none in the model |
| `DrillLoopProofs` | theorems: types; the bound of the pending map; the stored history and its streaks | |
| `DrillSingleProofs` | theorems: what holds of one thread | EXTENDS `DrillLoopProofs` |
| `StorageProbe` | `_probe_storage` and `_run_probe`, hop by hop of the event loop | the loop's queue of handles is a variable |
| `StorageProbeProofs` | theorems | |
| `RateLimiter` | `RateLimiter.allow` as operators on a table | used by the pipeline |
| `Configuration` | `clean`, `load_config` and every refusal to start, over values as sequences of characters | used by the pipeline |
| `RequestPipeline` | the coarse limiter, the body cap and its drain, parsing, authorisation, the strict limiters, the worker thread | one request per connection at a time |
| `RequestPipelineProofs` | theorems | |
| `AnswerMatching` | `match` over sequences of words, gate by gate | pure operators |
| `RubricScoring` | the evaluator: predicates, awards, caps, total | pure operators |
| `Boards` | `board_for`, `compose`, the registry, what a board leaves unread | pure operators |
| `ContentPackage` | `load` over a tree of files, and `validate`, the authors' check | EXTENDS `Boards` |
| `ServedText` | identifiers cut to bytes with a digest, prose cut with a mark | pure operators |
| `AnonymousReads` | manifest, dashboard, index of procedures, one procedure | EXTENDS `ContentPackage`, `ServedText` |
| `TrainingDays` | one operator over days, restarts and deployed trees: serve, answer, tick | composes the six above |
| `TrainingDaysProofs` | theorems, with the lemmas on the operators of the six | |
| `OperatorInterface` | the page: each handler up to its await and from it | |
| `OperatorInterfaceProofs` | theorems | |
| `Characterise` | one invocation of the noise tool after another: the profile and the credentials, count, halve, page, the private writer, the report, with a request that fails, a volume that is full or a kill at each step | `todo` is the recursion's stack |
| `CharacteriseProofs` | theorems | |
| `NoValue` | Python's `None` | |
| `MC*` | the instances TLC checks | |

`TrainingStore` EXTENDS `SessionTable` and instantiates `SessionLedger` with
`ledger <- file, call <- request, reply <- answer`. `DrillLoop` EXTENDS
`OperatorRecord`; `RequestPipeline` EXTENDS `RateLimiter` and `Configuration`, so that the
token it compares is the one the cleaning of the environment left. `TrainingDays` takes
requests one at a time, because what overlapping ones do to each other is `DrillLoop`'s;
`DrillLoop` in turn leaves open which item is chosen and what an answer is worth, so its
results hold for what `TrainingDays` fixes.

### How the state corresponds to the code

**TrainingStore.** `exists` and `file` are `training.json`; a snapshot is a
readability flag (standing for every malformed shape `load` refuses), the revision
and the rows. `backups` is what `sorted(glob("training.json.*.bak"))` returns, each
backup reduced to the revision it copies, or `Torn` if a fault cut it short. `snap`
is the local variable a writer carries from `load` to the rename; `pc` is the step
it is about to take. `holders` is a set so that the model can also run on a volume
where flock excludes nobody (`LockHolds = FALSE`). The two timestamps of a row are
left out: no decision reads them. `probe_writable` belongs to `StorageProbe`.

**OperatorRecord and DrillLoop.** `file` is `progress.json`. `runs` is every
`_Pending` object ever made, and its index the run id; `pending` is the dictionary
in insertion order, `withheld` the map of reasons, `mine` the local variables of each
thread. A run is past its time to live when `time.time()` says so, and that clock may be
set: an eviction finds any set of the runs held to be expired (`Cutoffs`), or, with
`ClockNeverSteps`, a prefix of the map, which is in the order of the stamps. The competency
axes are one counter, a rating moves anywhere in the direction `update_ratings` moves it, and
the verdict of an answer and the choice among scorable items are left open: the properties hold
for every matcher and every schedule. A seed is a hash of operator, item and attempt, so the
attempt stands for it.

**StorageProbe.** `loop` is the event loop's ready queue. What the loop schedules for
itself (a task's first step, the wake-up of a shield, then of the task behind it)
runs in the order it was scheduled; a request, a pool result or a timer finds its
turn between any two handles. These hops are modelled because the code's own
argument depends on them: the starter of a probe resumes two hops after the probe is
done, and a caller in between may start another. The asyncio, `h11` and
`ThreadPoolExecutor` behaviour is modelled from how the code uses it and is marked
external in the map. `Left` is the done callback an abandoned shield takes back.

**RequestPipeline.** A request is its caller, its route (health check, read, gated
write, open drill answer), the framing headers in order, the size the server will
deliver, the token it sends (a text) and whether its content is right. `Deliverable`
states which framings and sizes the HTTP server can deliver together. `body` is what the
process holds of the body. The reasons to refuse a write come in FastAPI's order
(`Refusal`): a body that is no JSON, then the token, then the body's content or its absence.
`env` is the name of the environment the service was started
in: `Started` are those `load_config` does not refuse, and `Settings` what it returns.

**TrainingDays.** `deployed` is the content tree the process was started on, `withheld`
the keys of `_unresolvable`, `rating`, `schedule` and `attempts` what `progress.json`
keeps of the operator, `screen` the drill being answered with the facts its renderer
drew, `reveal` the debrief. A due date is the number of days until it. Words are model
strings; case folding and punctuation are already done. What a phrasing means is written
beside it: the directions it `claims`, those it `excludes`, and whether it does so in words
the matcher is documented not to look for (`open`). `Right` is the reference the matcher is
held against. `Markers` are the parameters whose name begins with an underscore, which the
census leaves out.

**OperatorInterface.** `drill` is `state.drill`, known by its run id; `text` and `sure`
are the response and the confidence on screen, `prompt` is the drill whose prompt is there
("Loading..." and "No drill available." are none), each reduced to the drill that was on
screen when they were entered, which is all the properties ask of them; `post` is the
answer in flight, hence `state.busy`; `loads` and `others` count the requests in flight;
`plots` are the drills whose plots are in the pane; `said` is whether the banner shows
anything. `Garbled` is the empty object `api()` makes of a body that was cut off.

**Characterise.** `step` is the place in `main`; `todo` holds the calls of the recursive
`Fetcher.fetch` that have not ended, the next one first; `offset` and `total` are its
locals while it pages. The archive is external and does not change while it is queried:
`Listing` is what it answers to an entity and a range whose ends both belong to it,
`ServicePage` how many records it returns at most. `files` says of the raw dump and the
saved reference whether anything is in them and who can read them; `dump` is what the raw
dump says, if it is whole. Of what is measured only the names that would travel with it are
kept: the markings and the labels of the sensors. A gap keeps the count of its records,
which the file holds as text; `CatalogueNumbers` are the counts whose text the guard takes
for a catalogue number (in the code, those of five to eight digits). `EmitFails` is the
`OSError` of `--emit`, which `main` does not catch. A gap names no entity,
as in the code. Files have modes, so the platform is POSIX; a dump that is a bare list, as
another program would write it, is left out.

## 3. Runs

| Run | Question | Instance | Result |
| --- | --- | --- | --- |
| `store_concurrent` | what two writers do to each other, and progress | 2 workers, 3 ids, cap of 2 rows, revisions to 3, 1 backup kept, every fault, fair | holds; 223 thousand states |
| `drill_single` | the loop's promises without overlap | 1 thread, 3 items (one unresolvable), history and pending map at their caps, failures, restarts, any clock | holds; 349 thousand states |
| `drill_threads` | what threads cannot break | 2 threads, unreadable files, failures, restarts, any clock | holds; 1.1 million states |
| `drill_double_click` | is a submission idempotent? | 2 threads, nothing fails | violated |
| `drill_unread` | does a save preserve the others? | 2 operators, a read may fail | violated |
| `probe_flight` | single flight, order, timeouts | 2 callers, 3 probe slots, 1 cancellation, a disk that changes at will, shutdown | holds; 218 thousand states |
| `pipeline` | every layer, every posture | 2 connections, 2 callers, 9 requests, 13 environments of which 4 start, room for 1 caller per table, windows of 2 ticks, clock to 2 | holds; 441 thousand states |
| `training_days` | is everything asked, marked and disclosed as promised? | 13 trees (one sound, the others faulty or refusing in some way), 8 drills, 28 phrasings, 8 of them in the named gaps, 1 restart from any tree to any | holds; 39 thousand states |
| `clean_sheet` | does a scored answer measure a competency? | the sound tree with cues as shipped | violated |
| `operator_view` | what overlapping requests do to the screen | 3 drills, 2 loads and 2 other requests in flight, 1 answer | holds; 30 thousand states |
| `noise_model` | what does a published noise model stand for, and what leaves the tool? | 10 records in two entities, 3 windows, 9 moments, a cap of 3, pages of 2, two halvings at most, every fault and kill | holds; 113 thousand states |
| `noise_gap` | is a window that could not be narrowed reported? | the same | violated |

Every property of a passing run has a mutant: a plausible bug in a mapped definition
(a dropped guard, an off-by-one, a missing reset) under which the same run finds the
property violated. The mutants stand before the definitions they alter.

The types are an invariant of `store_concurrent` and of `training_days`; those of all modules
with actions are proved (section 4).

### Bounds and why they are enough

- *Store.* `MaxRev` ends the writes asked for at revision 3; that is one more than a
  lost update, a stale revision or an eviction by the cap needs. Three ids against a cap of
  two rows let a row be evicted and its id come back. Retention 1 makes pruning happen at
  the second overwrite. `MaxBackups` limits the torn backups of repeated faults. With one
  field, "set" and "absent" are all the merge can see. No symmetry is used, because the
  run checks liveness.
- *Drill loop.* `MaxRuns` is 3 drills for one thread (one more than the history cap
  and two more than the map holds) and 2 for two threads (the second must overlap the
  first). Two ratings are enough to tell a move from none. The threads are
  interchangeable, so `drill_threads`, which checks invariants only, uses their symmetry.
- *Probe.* Three slots are one more than the probes that can coexist; one cancelled
  request is enough to abandon a probe. Time is reduced to "young enough" and to
  timers that fire in the order they were set.
- *Pipeline.* `MaxCalls` stops counting a caller one above the highest limit.
  Chunks of at most 2 against a cap of 2 and bodies of up to 3 put the total below,
  at and over the cap. `MaxTime = 2` is one full window and its end. `MaxValue = 8` and
  `MinToken = 2` leave room for a token in quotes with blanks or an invisible character
  around them, for one that is too short once cleaned, and for one that is too long.
- *Days.* Ratings 1 to 4 put items below, at and two above the operator. `Spacing =
  <<1, 3>>` has a first and a last interval, so a streak outgrows it at the second hit.
  `AttemptCap = 1` tells a measured axis from an unmeasured one. `MaxRestarts = 1`: a
  restart keeps the progress and forgets the rest, so a second is like the first. A day
  ends only when nothing that can be served is due; see the fairness below. Names are cut at 4
  bytes with a character of two, the lists at 1 to 3 entries, documents at 16 bytes, so that
  every cut happens and falls inside a character.
- *Interface.* Two loads in flight are the least that overlap; a third drill tells "the
  last one" from "the other one". Of the other views only what they do to the banner
  matters, and the page starts with two of their requests.
- *Noise tool.* Four observations at one moment are over the cap of 3 in every range that
  holds it, so the widest window is halved until it can be halved no more; the narrowest
  range is that moment alone, its gap has 4 records, and 4 stands for a catalogue number.
  The wide window's gap has 5, and is reported. Three element sets need two pages of 2. One
  fetched observation has a marking with an owner in it, and a sensor whose label looks like
  a catalogue number.

Deadlock is checked in every run: even at the bounds a step is always possible (a seed
in the store, a restart in the drill loop, a disk change in the probe, an exempt health
check in the pipeline, a request for a drill in the days, a choice of view in the page, an
invocation of the tool).

### Fairness

`TrainingStore`: a runnable thread keeps running (weak fairness of its steps), and
flock grants the lock to a worker that keeps asking (strong fairness); nothing is
assumed of faults or calls. `DrillLoop`: threads run. `StorageProbe`: the loop runs
its handles, timers fire, a verdict ages, and the platform keeps probing readiness;
the pool's worker is **not** fair, it may hang for ever, and neither is recovery of
the disk. `RequestPipeline`: the deadline of a drain fires and handlers run; the
client is not fair, it may never send another byte. `Finish` is fair because the
worker threads end: that is `CallIsAnswered` and `RequestEnds` of the other runs.
`TrainingDays`: the operator asks for a drill while none is on screen, answers the one
that is, right or wrong, and the days go by; no single item and no answer is favoured.
That the operator finishes what is due before a day ends is the premise of the property:
with less work than falls due every scheduler leaves something behind. `OperatorInterface`:
the browser ends every request, with a reply or with an error; the page has no timeout of
its own, so nothing else would. `Characterise`: the tool runs, and a request ends with an
answer, an error or the timeout `http_get` gives it; an operator need not invoke anything.

### Findings

1. **A double-click can move a rating twice** (`drill_double_click`, `ScoredOnce`).
   `score` tests `pending.result`, then matches, loads and saves, and only then sets
   it, in a pool of threads and with no lock.
2. **One failed read erases every operator's history** (`drill_unread`,
   `SaveKeepsRows`). `_read` answers an error with an empty store, and `save` merges
   into what `_read` gave it.
3. **No competency is ever measured** (`clean_sheet`, `AnsweredIsMeasured`). The cues
   of `content/cues.json` carry `competency_ids`, which the authors' check resolves; the
   `Cue` model reads `competency_id`, which no cue has. Every answer is filed under the
   axis `""`, and the dashboard shows each competency of the package unmeasured.
4. **A gap cannot be reported** (`noise_gap`, `GapsReachTheFile`). A window that cannot be
   narrowed below the cap is written to `provenance.unrepresented_windows` with its count as
   text. Over the cap of 10,000 that text has five digits or more, and
   `assert_crossable` takes five to eight for a catalogue number: the file is refused,
   because it reports the gap.

Seen while modelling and listed among the hazards, without a run: two overlapping
saves lose one of them (the progress store has no lock); `_evict` can die with
`RuntimeError` or `KeyError` when two threads serve, which is a failed request and a
skipped eviction, though the map is back within its bound when nobody serves
(`PendingIsBounded`, proved while the clock is not set back); `_pending_seed` answers 0 for
a run evicted while it was scored, and that row's debrief cannot redraw what was seen, though
it never redraws another drill (`DebriefRedraws`, proved); the attempt number is counted
in the stored runs, so two drills served before either is answered share a seed, and so do
two attempts once the history has forgotten one. That is why `drill_threads` claims less
than `drill_single`: it claims what threads cannot break.

The training store's promises rest on two assumptions, which its theorems name. Without
`LockHolds` the revision guard is no backstop, although `storage.py` describes it as one:
it compares with the snapshot loaded at the start and nothing is compared again at the
rename, so two writers that both send `If-Match: 0` can both succeed (`store_concurrent.cfg`
with `LockHolds = FALSE` finds `GuardedReplace` violated). Without `ClockNeverSteps` the
fresh backup can be the one pruned, because retention orders backups by name and the name
is the wall clock (`ClockNeverSteps = FALSE`, `OverwriteIsBackedUp`).

Four hazards of `PROJECT.json` have no property, and a fifth has one for its other half. The
lock that excludes nobody and the clock set back are assumed away, as just said. A short page
of the archive is, too (`ServicePage` equals `PageSize`). A waiter that is cancelled must not
take the shared probe with it: the shield is in the model, but a caller whose probe was
cancelled would count as returned like one that was answered. And where two saves overlap, it
is the agreement of what is left that is checked, not that nothing is lost.

Seen while modelling, smaller, and outside what a property says:

- *Noise tool.* The raw dump has no gaps in it, so a model measured from one reports none
  (`docs/RUNBOOK-UDL-CHARACTERISATION.md:181` and `:201` offer it for the same report). If
  the service returns fewer records than `page_size` asks for (`ServicePage < PageSize`), the
  offset still moves by a whole page and the rest of each page is passed over in silence. A
  record at the very moment where a slice is halved is fetched twice and weighs twice.
- *Generators.* `generators/base.py:208` says a drill with an unread parameter "is served
  for study rather than scored", and "must not move a rating"; no rule does that: the
  parameter is reported, and the drill is scored.
- *Matching.* `scoring/matching.py:371-384` names three gaps of `_contradicted`, left open on
  purpose, and the instance has phrasings of each: "it doesn't drift east", "cannot be east",
  "east is wrong", "anything but east" and "hardly east" are marked right where east was
  drawn (a denial that is open-ended); so is "not obviously east" (a denial through a word
  that is no connective); and "not west, east" and "not drifting west, drifting east" are
  right and refused (a direction named to exclude it). `PointsAreEarned` says that the mark
  and the meaning part ways in these ways only, and `MCTrainingDays` assumes (TLC evaluates
  it) that they do part there.
- *Drill loop.* When the clock is set back, entries of the map expire out of order, and three
  threads can leave the map over its bound until the next request: with `MAX_PENDING = 2`,
  one finds runs 1 and 2 expired; a second serves 3 and deletes 2 only; 4 and 5 are served;
  the first deletes 1, which ends the scans of both, and dies on 2; so 3, 4 and 5 stay. TLC
  finds this on an instance of three threads and five runs that is cut down to it; two
  threads hold under any clock (`drill_threads`).
  `_items_without_a_resolvable_answer` looks only at items whose key is computed: an authored
  key that no answer can match is found at the first answer.
  The dashboard's `due_now` counts items that are withheld. `runs_total` is the length of
  the kept history, so it stops at 200. A stored due date without a time zone makes
  `is_due` raise `TypeError`, which its handler of malformed dates does not catch.
  `_withhold` tests and inserts in two steps; both threads write a reason, and either will do.
- *Content.* `content/models.py:11` names "a drill with no accept list" among the faults
  found at load; `accept` defaults to the empty tuple and loads. A composite whose list of
  products is empty draws an empty board. Identifiers need not be unique in a file: of two
  procedures with one identifier the first opens from both cards; of two drills with one the
  model says nothing (`TreesAssumption`).
- *Library.* A procedure whose identifier is over 64 bytes is listed under a shortened
  name that the detail route does not know; one malformed procedure takes the index away.
- *Configuration.* An invisible character before a quote keeps the quotes in the value,
  because `clean` takes quotes off before what does not print: the token is then the one
  with its quotes, and a caller that sends it without them is refused (environment `hidden`;
  it fails closed). `healthcheck.py:46` says its port
  is "the same malformed value the application itself refuses to start on"; the two differ
  on a port in quotes, with an underscore or a sign, and on a blank one.
- *Interface.* Two loads of a drill that overlap leave the plots of both in the pane,
  under the one form. If the later of the two fails, the form of the first stays under "No
  drill available." and an answer to it is still sent and scored; the banner says what
  failed.  Loads of the other views append after their await, so that two
  overlapping ones double a list. A scored answer clears the banner of whatever view is
  shown. A reply that is cut off hides the form before it raises.

Behind the platform's gateway all callers may share one limiter key. `docs/SECURITY.md`
accepts that, and the pipeline's callers `gateway` and `stranger` stand for a shared
and a distinct address.

## 4. Proofs

All proofs are checked by TLAPS from the constants' assumptions only (`ASSUME` in the
modules, evaluated by TLC in every run). Eight modules hold theorems; none of them, nor any
module they use, declares a `RECURSIVE` operator.

**Training store** (`TrainingStoreProofs`). For any workers, requests, ids, fields, cap,
retention and bounds:

- `StoreTypeOK`: with or without a working flock and a monotonic clock. The induction
  needs `Bookkeeping`: a worker inside a call has a request, one past its load has a
  snapshot.
- Where flock holds (`LockHolds`): `StoreOneWriter`, `StoreCopyIsCurrent`,
  `StoreRowsAreUnique`, `StoreGuardedReplace`, `StoreUnreadableIsKept`.
  `CopyIsCurrent` is not inductive: a writer at its load must know that it is alone
  (`HolderAlone`), one at its rename that its copy is the file and was neither
  refused nor stale (`CopyIsReady`), and a missing file must stand for the empty
  snapshot (`NoFileIsEmpty`); `WellFormed` (distinct ids within the cap) is kept by
  merge and cap through `ApplyKeepsIdsApart` and `CapKeepsSuffix`. Their conjunction
  is `IInv`, with `SafeInit`, `SafeStep` and `Safe` as its three facts.
- `StoreRowsAreKept` (`LockHolds`): from `IInv` and a lemma on one write, `UpsertKeepsRows`:
  a row that was in the table is there afterwards with every field it had, or the cap
  dropped it, or it is the one asked for.
- `StoreOverwriteIsBackedUp` (`LockHolds`, `ClockNeverSteps`): `BackupReady` says that from
  the pruning on the newest backup is a copy of the file about to be replaced, and survives
  the pruning.
- `StoreImplementsLedger`: initial states map to initial states and every step maps
  to a ledger step or a stutter; the rename is where a write takes effect, the load
  where a refusal does.
- About the operators: `MergeNeverShrinks`, `UpsertedType`, and the lemma `CapKeepsSuffix`.

**Request pipeline** (`RequestPipelineProofs`). For any connections, callers, requests,
limits, window, cap and bounds: `PipelineTypeOK`, `PipelineTablesAreBounded`,
`PipelineBodiesAreCapped`, `PipelineProbesAreServed`, `PipelineNoWindowIsReset`,
`PipelineOnlyWritersSpend`. `IInv` is `Clock`, `TablesInv` (each table is a finite
function of at most `MaxKeys` windows) and `ConnInv` (what a connection holds fits its
request and the layer it is in: in particular a body that was let through unread is
empty, which is `UnframedIsEmpty`, where what the HTTP server can deliver meets what
`_body_framed` looks at). The limiter has lemmas of its own (`AfterCallIsTable`,
`AfterCallIsBounded`, `AfterCallKeeps`), and so have the ways a connection can move
(`ReplyKeeps`, `GotoKeeps`, `EnterKeeps`), so that each action is a few lines.

`PipelineOnlyWritersSpend` rests on `EnvironmentsAssumption`, through the lemma
`WritersMayWrite`: what `require_token` lets pass is a caller with the token that was written
into the environment, up to blanks, quotes and characters that do not print, or anybody where
writes were waived. The assumption is that cleaning removes nothing else, and leaves nothing
of the token only where nothing was written; it holds of a value with an invisible character
before its quote, which is one of the environments.

**Drill loop** (`DrillLoopProofs`, `DrillSingleProofs`). For any
threads, operators, items, caps and bounds, with unreadable files, failing writes and
restarts:

- `DrillTypeOK`. The induction needs `Frames`: what a thread carries fits the place it is
  at (a run it marks exists, a copy it saves is a record, an item it renders is one).
- `DrillPendingIsBounded`, while the clock is not set back (`ClockNeverSteps`). `EInv` is
  `Unbroken` (the map holds the newest runs, in order and without gaps), `Scans` (the expired
  runs a thread found are, among those still held, the oldest) and `SomebodyCounts`: while
  the map is over its bound, some thread has yet to count it. The argument is about the errors:
  a thread whose eviction dies was not the one to count, because whoever disturbed it has
  inserted or dropped a run, and will.
- `DrillHistoryAddsUp`, `DrillStreaksAgree`. `HInv` says of the file, and of every copy a
  thread loaded or is about to save, that it is consistent in itself (`Consistent`): its
  totals add up, and each streak is the number of hits since the last miss, or at least the
  hits shown where rows were dropped and no miss is left among those kept. `ScoredAddsUp` and
  `ScoredStreaks` are the lemmas for one scored answer, with the history below and at its
  cap, by counting a set of places after a row is appended (`HitsAppend`, `SinceAppend`) and
  after the oldest is dropped (`HitsShift`, `SinceShift`). So a lost update loses whole
  answers and never half of one.
- `DrillDebriefRedraws`. `DInv` says of the file, and of every record and every file a thread
  has read, that a row is of a run that was made and has its seed, or has none and the run is
  no longer held (`Own`). It is kept because a run keeps its seed and one that left the map
  does not come back (`SeedsStay`).
- Of one thread (`OneThread`), which is what the findings say two break:
  `DrillScoredOnce`, `DrillEveryRowRedraws` (no row is without its seed), and, where reads do
  not fail (`~ ReadsMayFail`), `DrillConfirmedIsStored` and `DrillSaveKeepsRows`. `SInv`
  relates the rows of the file to the runs: a row has the seed of its run (`RowsRedraw`), no
  two rows are of one run (`StoredOnce`), a run with a row that is still held has its result or
  its thread is about to set it (`Answered`), a run being scored has no row yet (`Unanswered`),
  and the copy a thread carries is what the file says, with its own row added once it has one
  (`Copies`). `Confirmed` is the other direction: a result that moved the rating is on the
  volume.

**Storage probe** (`StorageProbeProofs`). For any callers, probes remembered together and
cancellations: `ProbeTypeOK`, `ProbeOwnedIsInflight`, `ProbePublishedInOrder`. `TInv` adds
to the types that no handle is in the loop twice (`Once`), that a task is stepped while it is
new and resumed while it is ending (`Tasks`), that whoever is told anything waits for a probe
and its shield is told first (`Shields`), and that a waiter is on the books of its own probe,
once, and has been told nothing (`Books`). Single flight is then inductive: a probe can begin
only when none is in flight that its starter still waits for, and a starter's `finally` clears
its own probe only. The queue is handled by four lemmas on what a step leaves in it
(`AppendIs`, `ThenIs`, `TailIs`, `HeadIs`).

That verdicts are published in order is about the two hops between the end of a task and its
starter's turn. `PInv` says that the wake-ups of two starters are in the loop in the order of
their probes, shields before shields and turns before turns, and that the older probe is done
(`Ordered`); that whoever waits is on the books of its probe or has a handle in the loop
(`Waits`); that a probe that is done has told everybody (`Emptied`); and that the starter of
the probe in flight waits for it (`Flown`). A probe starts only when none is in flight, so
single flight gives that every older one whose starter still waits is done; then its starter
is in the loop already, and when the younger starter's turn is at the head there is no place
before it. Cancelled starters are outside: they publish nothing. Slots are reused, so "older"
is a distance around the ring; `Older` shows that a new probe moves every other one back by
one.

**Operator interface** (`OperatorInterfaceProofs`). For any number of drills and of
requests in flight: `ScreenTypeCorrect`, `ScreenAnswersWhatWasRead`, `ScreenAlwaysAWayOn`.
`IInv` adds `Belongs`: the response and the confidence on screen are for the drill in
`state.drill`, unless that came as the empty object of a reply that was cut off, and a form
that is shown has its drill's plots beside it, and its prompt too unless the banner says what
failed.

**Noise tool** (`CharacteriseProofs`). For any archive, windows, cap, depth, page size and
profile:

- `NoiseTypeOK`, with `Ready`: what the step the tool is at presupposes of its arguments.
- `NoiseNothingSilentlySampled`, where the service returns the pages it is asked for
  (`PageSize <= ServicePage`). `CInv` follows a record of the window: while the tool fetches
  it is there already, in a gap, under a call still on the stack, or of the entity still to
  come (`Searched`); while it pages, what the slice lists before the offset is there
  (`Paged`); afterwards it is there or in a gap (`Gathered`). `HalvesCover` shows that the
  halves of a slice, rounded as Python rounds, leave no moment between them.
- `NoiseRecordsStayPrivate`: a file is filled only after its mode was set (`FilesInv`),
  whatever file of that name was there and wherever the tool is stopped.
- `NoiseOnlyDistributionsCross`: over the three routes out.
- `NoiseRecursionIsBounded`: the calls pending under one are at most as many as it is deep
  (`DepthInv`).

**Days of training** (`TrainingDaysProofs`). For any content trees, vocabulary, registry,
rubric, spacing, bands, widths and caps, over any days, restarts and redeployments:

- `DaysTypeOK` and `DaysShownAndWithheld`. The inductive invariant `DInv` adds to the types
  that what was found at boot stays out of selection and that whatever was withheld since is
  refused by its board (`ForCause`), and that what is on screen renders (`Shown`). The types
  need `ForCause`: what was drawn is drawn from a board, and an item without facts to draw is
  out of selection from the boot. The step that matters is `Serve`: of the attempts of one
  request each withholds at most one item, so that where fewer than the allowed number were
  withheld the last one rendered (`AttemptedIs`, `WithheldAfterIs`, `SelectedIsScorable`).
- `DaysApprovedIsServed`. Two readers of one tree, `validate` and `load`: what the one
  approves, the other keeps whole (`PackageFacts`, the lemmas on `Kept`), and a resolved
  reference has a record at the other end.
- `DaysManifestIsHonest`. The census is of the board (`CensusIsOfTheBoard`), and what is left
  out is named (`GapsAreNamed`): the withheld ids are sorted and cut, and two of those served
  never share a name, because the package knows no two items under one name and shortening
  leaves a digest.
- `DaysCardsOpen`. Cutting a text to bytes keeps it or marks it; of procedures with one
  identifier the first opens.
- `DaysRightEarnsMore`, half of `PointsAreEarned`. `Shaped` says of every outcome of the
  matcher which combinations of verdict, tolerance and credit there are, `TotalsCompared` adds
  up any list of rules under two sets of facts, of which one is right and the other not. It
  holds for a rubric and credits that let it (`FairRubric`, `FairCredits`: awards are not
  negative; a right answer is worth something, uncapped, and more than a miss or a whole
  partial answer; a credit is between nothing and all). `content/rubrics.json` is such a rubric
  and so is the instance, where TLC evaluates both. The rubric of a tree is content, so they
  are hypotheses of the theorem and no assumption of the model.
- `DaysAcceptedIsRead`. Where a direction was drawn, an answer that is marked right says one
  that was drawn, names no other, has no negation the matcher knows before one that was drawn
  with nothing but connectives between, and gives a number near the expected one where one is
  asked for. What the words mean is not in it: a denial in other words is the named gap, and
  which right readings are accepted is left to the instance.

What the code does in a loop is a fold, a recursive function or the first of a list in the
model, so these proofs need induction. The library's induction theorems take an operator as a
parameter, which no installed prover instantiates; here the property is turned into a set.
`LeastOf` (every nonempty set of numbers has a least one) comes from the well-foundedness of
`<` on the naturals, `SetInduction` from `LeastOf`, and `RecursionExists` from that: a
recursion whose every step stays in a set has a value at each place. What the proofs take
from a loop is what such a step preserves, never a closed form.

The constants are assumed to be what the code's types make them. `TreesAssumption`: the lists
of a tree are lists, a drill's identifier is a number that stands for its place in the order
of the texts (`NameOf` gives the text), no two drills share an identifier or have the same text
for one, and a whole file has no text that cannot be encoded. A digest is taken to tell texts
apart. `NothingAssumption` and `OutcomesAssumption`:
`None` is no product, board, refusal or outcome. `RegistryAssumption`, `CapsAssumption`,
`BandAssumption`, `WidthAssumption`, `SizesAssumption`, `ScheduleAssumption`,
`DirectionsAssumption`: the registry is one to one, the caps and bands are numbers in order, the
spacing table ascends. That drills have identifiers of their own is the scope of the model:
neither `load` nor the authors' check rejects a tree in which two share one. Procedures may
share one.

**Only model-checked.** Everything under fairness (`CallIsAnswered`, `RequestEnds`,
`EveryCallerReturns`, `FailureIsNoticed`, `EveryRequestIsAnswered`, `EveryItemComesBack`,
`SubmitComesBack`, `InvocationEnds`): TLAPS 1.4 has no rules for `ENABLED`. Of
`PointsAreEarned` its other half, `ReadingIsMarked`: it holds the matcher against readings
whose meaning is written beside them, so there is no statement of it for every vocabulary;
the instance evaluates it on twenty-eight phrasings, those of the named gaps among them.
`PendingIsBounded` under a clock that is set back is checked with two threads. Every other
property of a passing run is a theorem, under the assumptions named above.

## 5. Not modelled

- *Rendering and physics* (`generators/products.py` and the physics modules): numeric code
  in floating point, out of TLC's reach. `Boards` has which renderers there are, what they
  read, supply and refuse; what they draw is a constant, `Facts`.
- *Elo and Brier arithmetic*: floating point. A rating moves in the direction
  `update_ratings` moves it, by an amount left open, inside its band.
- *Request models, audit lines*: character tests, caps and redaction of single fields, pure
  and without state. The pipeline has their outcome: an invalid request is refused before
  it is counted.
- *Seeded randomness and the run log*: pure functions of hashes. The drill loop uses that a
  seed is determined by operator, item and attempt.
- *Response headers, CORS, the listing route's budget, the product route, the static files*:
  no state another step depends on.
- *Of the content package*: patterns, artefacts, traces, thresholds beyond their file, and
  the warnings of the authors' check.
- *Of the page*: drawing, wording and the countdown.
- *Of the noise tool*: the statistics, the self-test, the profile template and how a record
  is read field by field; how a gap is worded.
- *Health check, scripts, content data, specifications*: they keep no state of the
  service. `tools/validate_content.py` is modelled, as `validate`.

## 6. Plan

Done, in the order in which they were written: the training store with its ledger and
proofs; the drill loop; the storage probe; the request pipeline and its proofs; the
marking, the boards and the content package with the days of training over them; the
anonymous reads; the page and its proofs; the configuration in the pipeline; the proofs of
the drill loop and of the storage probe; the noise tool and its proofs; the streaks, what
one thread keeps, the store's rows and backups, and the order of publication as theorems; the
proofs of the days of training.

Left, in order of importance:

1. The page composed with `DrillLoop` as its server, to follow one answer from the form to
   `progress.json` through a lost reply and a second submission.
2. The run log of `scenario/determinism.py`: what a replay may rely on.

------------------------------ MODULE DrillLoop ------------------------------
(***************************************************************************)
(* training.drill.DrillLoop over training.progress.ProgressStore: serving a *)
(* drill and scoring its answer.  The routes run serve() and score() in a   *)
(* pool of threads (asyncio.to_thread), and neither class takes a lock: a   *)
(* worker is one of those threads, and a step is what it does between two   *)
(* accesses to what the threads share.                                      *)
(***************************************************************************)
EXTENDS OperatorRecord, SequencesExt

CONSTANTS
  Workers,         \* threads of the pool
  Operators,       \* operator ids; the routes use one, the store is per operator
  Reasons,         \* why a renderer refuses an item
  Unresolvable,    \* items whose answer no generator supplies, found at boot
  Wanted,          \* what a caller of serve() may name: items, or None
  None,
  MaxPending,      \* MAX_PENDING, 512 in the code
  MaxTries,        \* MAX_SELECTION_ATTEMPTS, 4 in the code
  ReadsMayFail,    \* may reading progress.json fail?
  ClockNeverSteps, \* is no drill stamped earlier than one held before it?
  MaxRuns          \* bound: drills served

ASSUME SetsAssumption ==
  /\ Unresolvable \subseteq Items
  /\ Wanted \subseteq Items \cup {None}
  /\ None \notin Items \cup Reasons \cup Operators
  /\ "unresolvable" \notin Reasons
ASSUME BoundsAssumption ==
  /\ IsFiniteSet(Workers)
  /\ MaxPending \in Nat \ {0} /\ MaxTries \in Nat \ {0} /\ MaxRuns \in Nat
  /\ ReadsMayFail \in BOOLEAN /\ ClockNeverSteps \in BOOLEAN
VARIABLES
  file,       \* progress.json: a record, or None, for each operator
  runs,       \* the _Pending objects ever made; their index is the run id
  pending,    \* _pending: the run ids held, in insertion order
  withheld,   \* _unresolvable: the reason an item is out of selection, or None
  pc,         \* the step each thread is about to take
  mine        \* its local variables

vars == <<file, runs, pending, withheld, pc, mine>>

Verdicts == {"hit", "miss", "unscorable"}

\* A ScoredDrill: unscorable, or what it did to the rating.
Result == [verdict : Verdicts, before : Ratings, after : Ratings]

\* A _Pending; "known" once its id has been sent to the caller.
Held == [item : Items, seed : Nat, result : Result \cup {None}, known : BOOLEAN]

Blob == [Operators -> OperatorProgress \cup {None}]

\* None is not a value of another kind.
ASSUME NoneAssumption == None \notin OperatorProgress \cup Result

\* The local variables of a thread; blank when it has no use for one yet.
Frame == [op : Operators \cup {None}, named : BOOLEAN, item : Items \cup {None},
          seed : Nat, tries : Nat, reason : Reasons \cup {None},
          expired : SUBSET Nat, seen : Seq(Nat), run : Nat,
          verdict : Verdicts, copy : OperatorProgress, blob : Blob]

NoFile == [o \in Operators |-> None]

blank == [op |-> None, named |-> FALSE, item |-> None, seed |-> 0, tries |-> 0,
          reason |-> None, expired |-> {}, seen |-> << >>, run |-> 0,
          verdict |-> "miss", copy |-> fresh, blob |-> NoFile]

ServeSteps == {"load", "select", "render", "withhold", "note", "hold",
               "evict", "scan", "drop", "count", "pop"}
ScoreSteps == {"find", "progress", "save", "write", "result"}

TypeOK ==
  /\ file \in Blob
  /\ runs \in Seq(Held)
  /\ pending \in Seq(1 .. Len(runs))
  /\ withheld \in [Items -> Reasons \cup {None, "unresolvable"}]
  /\ pc \in [Workers -> {"idle"} \cup ServeSteps \cup ScoreSteps]
  /\ mine \in [Workers -> Frame]

\* _items_without_a_resolvable_answer()
AtBoot == [i \in Items |-> IF i \in Unresolvable THEN "unresolvable" ELSE None]

\* A volume without progress.json, or with one _read() makes nothing of.
Init ==
  /\ file = NoFile
  /\ runs = << >> /\ pending = << >>
  /\ withheld = AtBoot
  /\ pc = [w \in Workers |-> "idle"]
  /\ mine = [w \in Workers |-> blank]

Goto(w, step) == pc' = [pc EXCEPT ![w] = step]
Become(w, frame) == mine' = [mine EXCEPT ![w] = frame]

\* The handler returns or raises: the caller has its answer.
Finish(w) == Goto(w, "idle") /\ Become(w, blank)

shared == <<file, runs, pending, withheld>>
served == <<file, withheld>>

\* _read(): the file, or nothing at all when it cannot be read.
ReadBack == {file} \cup (IF ReadsMayFail THEN {NoFile} ELSE {})

\* Mutant: the stored record is ignored.
LoadFrom_Fresh(blob, op) == fresh

LoadFrom(blob, op) == IF blob[op] = None THEN fresh ELSE blob[op]

-----------------------------------------------------------------------------
(* serve() *)

Serve(w, op, want) ==
  /\ pc[w] = "idle"
  /\ Len(runs) + Cardinality({v \in Workers : pc[v] \in ServeSteps}) < MaxRuns
  /\ Goto(w, "load")
  /\ Become(w, [blank EXCEPT !.op = op, !.item = want, !.named = (want # None)])
  /\ UNCHANGED shared

ServeLoad(w) ==
  /\ pc[w] = "load"
  /\ \E blob \in ReadBack :
       Become(w, [mine[w] EXCEPT !.copy = LoadFrom(blob, mine[w].op)])
  /\ Goto(w, "select")
  /\ UNCHANGED shared

Scorable == {i \in Items : withheld[i] = None}

\* select() or _named(), and the seed of this attempt.  Which scorable item the
\* due dates and the ratings point at is left open.
Select(w) ==
  /\ pc[w] = "select"
  /\ \E i \in IF mine[w].named THEN {mine[w].item} ELSE Scorable :
       Become(w, [mine[w] EXCEPT !.item = i,
                                 !.seed = Attempts(mine[w].copy, i)])
  /\ Goto(w, "render")
  /\ UNCHANGED shared

\* select() has nothing to choose from: 503.
SelectNothing(w) ==
  /\ pc[w] = "select"
  /\ ~ mine[w].named /\ Scorable = {}
  /\ Finish(w)
  /\ UNCHANGED shared

\* compose() and the checks of _serve_one succeed.
Render(w) ==
  /\ pc[w] = "render"
  /\ Goto(w, "hold")
  /\ UNCHANGED <<shared, mine>>

\* One of them refuses the item: a DrillError.
RenderRefused(w, why) ==
  /\ pc[w] = "render"
  /\ Become(w, [mine[w] EXCEPT !.reason = why])
  /\ Goto(w, "withhold")
  /\ UNCHANGED shared

\* A named item is never retried; otherwise again, until the budget is spent.
Retry(w) ==
  IF mine[w].named \/ mine[w].tries + 1 >= MaxTries
    THEN Finish(w)
    ELSE Goto(w, "select") /\ Become(w, [mine[w] EXCEPT !.tries = @ + 1])

\* _withhold looks the item up, and writes it only if it is not there.
Withhold(w) ==
  /\ pc[w] = "withhold"
  /\ IF withheld[mine[w].item] = None
       THEN Goto(w, "note") /\ UNCHANGED mine
       ELSE Retry(w)
  /\ UNCHANGED shared

NoteReason(w) ==
  /\ pc[w] = "note"
  /\ withheld' = [withheld EXCEPT ![mine[w].item] = mine[w].reason]
  /\ Retry(w)
  /\ UNCHANGED <<file, runs, pending>>

\* The stamp of the run and its insertion are one step.
Hold(w) ==
  /\ pc[w] = "hold"
  /\ runs' = Append(runs, [item |-> mine[w].item, seed |-> mine[w].seed,
                           result |-> None, known |-> FALSE])
  /\ pending' = Append(pending, Len(runs'))
  /\ Become(w, [mine[w] EXCEPT !.run = Len(runs')])
  /\ Goto(w, "evict")
  /\ UNCHANGED served

-----------------------------------------------------------------------------
(* _evict() *)

InPending(r) == \E i \in DOMAIN pending : pending[i] = r

\* The map without one of the runs it holds.
Without(r) == RemoveAt(pending, CHOOSE i \in DOMAIN pending : pending[i] = r)

\* The runs that time.time() may put past PENDING_TTL_SECONDS: whoever is held longer
\* than one of them is past it too, unless the clock has been set meanwhile.
Cutoffs ==
  {old \in SUBSET {r \in DOMAIN runs : InPending(r)} :
     ClockNeverSteps => \A r \in old, q \in 1 .. Len(runs) :
                          q < r /\ InPending(q) => q \in old}

\* The list comprehension over _pending starts, with the cutoff just computed.
ScanBegin(w) ==
  /\ pc[w] = "evict"
  /\ \E old \in Cutoffs :
       Become(w, [mine[w] EXCEPT !.expired = old, !.seen = pending])
  /\ Goto(w, "scan")
  /\ UNCHANGED shared

\* It ends, unless _pending changed meanwhile: RuntimeError, and no eviction.
ScanEnd(w) ==
  /\ pc[w] = "scan"
  /\ IF pending = mine[w].seen
       THEN Goto(w, "drop") /\ Become(w, [mine[w] EXCEPT !.seen = << >>])
       ELSE Finish(w)
  /\ UNCHANGED shared

\* del self._pending[run_id], the oldest first: KeyError when another thread
\* has removed it since.
DropExpired(w) ==
  LET oldest == CHOOSE r \in mine[w].expired :
                  \A q \in mine[w].expired : r <= q
  IN  /\ pc[w] = "drop"
      /\ mine[w].expired # {}
      /\ IF InPending(oldest)
           THEN /\ pending' = Without(oldest)
                /\ Become(w, [mine[w] EXCEPT !.expired = @ \ {oldest}])
                /\ UNCHANGED pc
           ELSE /\ Finish(w)
                /\ UNCHANGED pending
      /\ UNCHANGED <<served, runs>>

\* Mutant: age is the only bound.
CountPending_AgeOnly(w) ==
  /\ \/ pc[w] = "count"
     \/ pc[w] = "drop" /\ mine[w].expired = {}
  /\ runs' = [runs EXCEPT ![mine[w].run].known = TRUE]
  /\ Finish(w)
  /\ UNCHANGED <<served, pending>>

\* while len(self._pending) > MAX_PENDING: the served drill is returned when
\* the map is within the bound.
CountPending(w) ==
  /\ \/ pc[w] = "count"
     \/ pc[w] = "drop" /\ mine[w].expired = {}
  /\ IF Len(pending) > MaxPending
       THEN Goto(w, "pop") /\ UNCHANGED <<mine, runs>>
       ELSE /\ Finish(w)
            /\ runs' = [runs EXCEPT ![mine[w].run].known = TRUE]
  /\ UNCHANGED <<served, pending>>

\* Mutant: the oldest is looked up and not removed.
PopOldest_Peek(w) ==
  /\ pc[w] = "pop"
  /\ Goto(w, "count")
  /\ UNCHANGED <<shared, mine>>

\* popitem(last=False): KeyError when the other threads have emptied the map.
PopOldest(w) ==
  /\ pc[w] = "pop"
  /\ IF pending # << >>
       THEN pending' = Tail(pending) /\ Goto(w, "count") /\ UNCHANGED mine
       ELSE Finish(w) /\ UNCHANGED pending
  /\ UNCHANGED <<served, runs>>

-----------------------------------------------------------------------------
(* score() *)

Score(w, op, r, verdict) ==
  /\ pc[w] = "idle"
  /\ runs[r].known
  /\ Goto(w, "find")
  /\ Become(w, [blank EXCEPT !.op = op, !.run = r, !.verdict = verdict])
  /\ UNCHANGED shared

\* Mutant: a scored run is scored again.
Find_NotIdempotent(w) ==
  /\ pc[w] = "find"
  /\ IF InPending(mine[w].run)
       THEN /\ Goto(w, IF mine[w].verdict = "unscorable" THEN "result"
                                                         ELSE "progress")
            /\ UNCHANGED mine
       ELSE Finish(w)
  /\ UNCHANGED shared

\* Unknown or expired: 400.  Scored already: the first result again.  Otherwise
\* the answer is matched, and an unscorable one goes straight to its result.
Find(w) ==
  /\ pc[w] = "find"
  /\ IF InPending(mine[w].run) /\ runs[mine[w].run].result = None
       THEN /\ Goto(w, IF mine[w].verdict = "unscorable" THEN "result"
                                                         ELSE "progress")
            /\ UNCHANGED mine
       ELSE Finish(w)
  /\ UNCHANGED shared

ScoreLoad(w) ==
  /\ pc[w] = "progress"
  /\ \E blob \in ReadBack :
       Become(w, [mine[w] EXCEPT !.copy = LoadFrom(blob, mine[w].op)])
  /\ Goto(w, "save")
  /\ UNCHANGED shared

\* Mutant: the seed is worked out again when the answer is scored.
PendingSeed_NextAttempt(w) == Attempts(mine[w].copy, runs[mine[w].run].item)

\* _pending_seed: the run may have been evicted since score() found it.
PendingSeed(w) ==
  IF InPending(mine[w].run) THEN runs[mine[w].run].seed ELSE NoSeed

\* _record completes the row, and save() reads the file again to merge into it.
Record(w) ==
  LET correct == mine[w].verdict = "hit"
      row(after) == [run |-> mine[w].run, item |-> runs[mine[w].run].item,
                     seed |-> PendingSeed(w), correct |-> correct,
                     before |-> mine[w].copy.rating, after |-> after]
  IN  /\ pc[w] = "save"
      /\ \E after \in RatingsAfter(mine[w].copy.rating, correct),
            blob \in ReadBack :
           Become(w, [mine[w] EXCEPT !.copy = Scored(@, row(after)),
                                     !.blob = blob])
      /\ Goto(w, "write")
      /\ UNCHANGED shared

\* The rename of the temporary file over progress.json.
SaveWrite(w) ==
  /\ pc[w] = "write"
  /\ file' = [mine[w].blob EXCEPT ![mine[w].op] = mine[w].copy]
  /\ Goto(w, "result")
  /\ UNCHANGED <<runs, pending, withheld, mine>>

\* Mutant: the failure is swallowed, and the result kept.
SaveFails_Swallowed(w) ==
  /\ pc[w] = "write"
  /\ Goto(w, "result")
  /\ UNCHANGED <<shared, mine>>

\* An OSError before the rename: 500, and nothing is remembered of the answer.
SaveFails(w) ==
  /\ pc[w] = "write"
  /\ Finish(w)
  /\ UNCHANGED shared

ResultOf(w) ==
  LET kept == mine[w].copy.runs
      last == kept[Len(kept)]
  IN  IF mine[w].verdict = "unscorable"
        THEN [verdict |-> "unscorable", before |-> DefaultRating,
              after |-> DefaultRating]
        ELSE [verdict |-> mine[w].verdict, before |-> last.before,
              after |-> last.after]

\* pending.result = result, whether or not the run is still held.
SetResult(w) ==
  /\ pc[w] = "result"
  /\ runs' = [runs EXCEPT ![mine[w].run].result = ResultOf(w)]
  /\ Finish(w)
  /\ UNCHANGED <<served, pending>>

-----------------------------------------------------------------------------
\* The container restarts: everything but the volume is gone.
Restart ==
  /\ pending' = << >>
  /\ withheld' = AtBoot
  /\ pc' = [w \in Workers |-> "idle"]
  /\ mine' = [w \in Workers |-> blank]
  /\ UNCHANGED <<file, runs>>

-----------------------------------------------------------------------------
Run(w) ==
  \/ ServeLoad(w) \/ Select(w) \/ SelectNothing(w)
  \/ Render(w) \/ (\E why \in Reasons : RenderRefused(w, why))
  \/ Withhold(w) \/ NoteReason(w) \/ Hold(w)
  \/ ScanBegin(w) \/ ScanEnd(w) \/ DropExpired(w)
  \/ CountPending(w) \/ PopOldest(w)
  \/ Find(w) \/ ScoreLoad(w) \/ Record(w)
  \/ SaveWrite(w) \/ SaveFails(w) \/ SetResult(w)

Next ==
  \/ \E w \in Workers :
       \/ \E op \in Operators, want \in Wanted : Serve(w, op, want)
       \/ \E op \in Operators, r \in DOMAIN runs, v \in Verdicts :
            Score(w, op, r, v)
       \/ Run(w)
  \/ Restart

Spec == Init /\ [][Next]_vars

\* A thread of the pool that can run, runs.
FairSpec == Spec /\ \A w \in Workers : WF_vars(Run(w))

-----------------------------------------------------------------------------
(* Properties *)

\* When no request is in flight, at most MAX_PENDING drills are held ("how many
\* may be held at once ... bounds on an UNAUTHENTICATED route").
PendingIsBounded ==
  (\A w \in Workers : pc[w] = "idle") => Len(pending) <= MaxPending

\* One row for each run at most, for all operators together: a double-click, a
\* retry after an error or a restart never moves a rating twice.
ScoredOnce ==
  LET rows == {x \in Operators \X (1 .. MaxRunHistory) :
                 file[x[1]] # None /\ x[2] <= Len(file[x[1]].runs)}
      of(x) == file[x[1]].runs[x[2]].run
  IN  \A x, y \in rows : of(x) = of(y) => x = y

\* The seed of a stored row redraws what the operator saw, whatever was served
\* between the two; only a run that another thread evicted while it was being
\* scored is stored without one, and never with the seed of another drill.
DebriefRedraws ==
  \A o \in Operators : file[o] # None =>
    \A i \in DOMAIN file[o].runs :
      LET row == file[o].runs[i]
      IN  \/ row.seed = runs[row.run].seed
          \/ row.seed = NoSeed /\ ~ InPending(row.run)

\* The rating, the counts and the rows of an operator always agree.
HistoryAddsUp == \A o \in Operators : file[o] # None => AddsUp(file[o])

\* The streak that spaces an item out is the one its rows show.
StreaksAgree ==
  \A o \in Operators : file[o] # None =>
    \A i \in Items : StreakAgrees(file[o], i)

\* A result that says it moved the rating is on the volume, until its row ages
\* out: an answer is never confirmed and then missing from the history.
ConfirmedIsStored ==
  \A r \in DOMAIN runs :
    runs[r].result # None /\ runs[r].result.verdict # "unscorable" =>
      \E o \in Operators :
        /\ file[o] # None
        /\ \/ \E i \in DOMAIN file[o].runs : file[o].runs[i].run = r
           \/ Len(file[o].runs) = MaxRunHistory

\* Saving one operator's answer loses no row of another's, and no row of its own
\* but those that age out.
SaveKeepsRows ==
  [][\A o \in Operators : file[o] # None =>
       /\ file'[o] # None
       /\ file'[o].attempts >= file[o].attempts
       /\ \A i \in DOMAIN file[o].runs :
            \/ \E j \in DOMAIN file'[o].runs :
                 file'[o].runs[j] = file[o].runs[i]
            \/ Len(file'[o].runs) = MaxRunHistory]_vars

\* Every request is answered: the selection budget and the eviction loops end.
RequestEnds == \A w \in Workers : pc[w] # "idle" ~> pc[w] = "idle"
=============================================================================

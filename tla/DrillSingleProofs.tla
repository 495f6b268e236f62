---------------------------- MODULE DrillSingleProofs ---------------------------
(***************************************************************************)
(* What the drill loop promises when one thread serves and scores, for any    *)
(* number of operators, items and drills: the promises that two clicks on     *)
(* two threads break.                                                         *)
(***************************************************************************)
EXTENDS DrillLoopProofs

\* The pool has one thread.
OneThread == \A v, w \in Workers : v = w

\* The run has a row in the file, or one that may have aged out of it.
Stored(r) ==
  \E o \in Operators : /\ file[o] # None
                       /\ \E i \in DOMAIN file[o].runs : file[o].runs[i].run = r
OnVolume(r) ==
  \E o \in Operators :
    /\ file[o] # None
    /\ \/ \E i \in DOMAIN file[o].runs : file[o].runs[i].run = r
       \/ Len(file[o].runs) = MaxRunHistory

\* Every stored row is of a run that was served, with the seed that served it.
RowsRedraw ==
  \A o \in Operators : file[o] # None =>
    \A i \in DOMAIN file[o].runs :
      LET row == file[o].runs[i]
      IN  row.run \in 1 .. Len(runs) /\ row.seed = runs[row.run].seed

\* No two stored rows are of the same run.
StoredOnce ==
  \A o, q \in Operators : file[o] # None /\ file[q] # None =>
    \A i \in DOMAIN file[o].runs, j \in DOMAIN file[q].runs :
      file[o].runs[i].run = file[q].runs[j].run => o = q /\ i = j

\* A stored run that is still held has its result, or is about to get it: that is what
\* makes a second answer to it end in find.
Answered ==
  \A r \in 1 .. Len(runs) : Stored(r) /\ InPending(r) =>
    runs[r].result # None \/ \E w \in Workers : pc[w] = "result" /\ mine[w].run = r

\* A thread that scores a run holds it, and nothing is stored of it.
Unanswered ==
  \A w \in Workers : pc[w] \in {"progress", "save", "write"} =>
    InPending(mine[w].run) /\ ~ Stored(mine[w].run)

\* Its copy is what the file says now, with its own row added once it has recorded it.
Copies ==
  \A w \in Workers :
    /\ pc[w] = "save" => \E b \in ReadBack : mine[w].copy = LoadFrom(b, mine[w].op)
    /\ pc[w] = "write" =>
         /\ mine[w].blob \in ReadBack
         /\ \E b \in ReadBack, row \in Row :
              /\ row.run = mine[w].run /\ row.seed = runs[mine[w].run].seed
              /\ mine[w].copy = Scored(LoadFrom(b, mine[w].op), row)

\* A result that moved the rating is on the volume when it is remembered, and just before.
Confirmed ==
  ~ ReadsMayFail =>
    /\ \A r \in 1 .. Len(runs) :
         runs[r].result # None /\ runs[r].result.verdict # "unscorable" => OnVolume(r)
    /\ \A w \in Workers :
         pc[w] = "result" /\ mine[w].verdict # "unscorable" => OnVolume(mine[w].run)

SInv == RowsRedraw /\ StoredOnce /\ Answered /\ Unanswered /\ Copies /\ Confirmed

-----------------------------------------------------------------------------
(* Steps that store nothing *)

\* No run is taken back, and none gets a result.
RunsStay ==
  /\ Len(runs) <= Len(runs')
  /\ \A r \in 1 .. Len(runs) :
       runs'[r].seed = runs[r].seed /\ runs'[r].result = runs[r].result
  /\ \A r \in 1 .. Len(runs') : r > Len(runs) => runs'[r].result = None

LEMMA SameRuns == ASSUME TInv, runs' = runs PROVE RunsStay
<1>1. Len(runs) \in Nat
  BY LenProperties DEF TInv, TypeOK
<1> QED BY <1>1 DEF RunsStay

LEMMA Quiet ==
  ASSUME TInv, TInv', SInv, file' = file, RunsStay,
         \A r \in 1 .. Len(runs) :
           InPending(r)' => InPending(r) /\ \A v \in Workers : pc[v] # "result",
         \A v \in Workers :
           /\ pc'[v] \notin {"progress", "save", "write"}
           /\ pc'[v] = "result" => mine'[v].verdict = "unscorable"
  PROVE  SInv'
<1>1. Len(runs) \in Nat /\ Len(runs') \in Nat
  BY LenProperties DEF TInv, TypeOK
<1>2. \A r : (Stored(r)' <=> Stored(r)) /\ (OnVolume(r)' <=> OnVolume(r))
  BY DEF Stored, OnVolume
<1>3. \A r : Stored(r) => r \in 1 .. Len(runs)
  BY DEF SInv, RowsRedraw, Stored
<1>4. RowsRedraw'
  BY <1>1 DEF SInv, RowsRedraw, RunsStay
<1>5. StoredOnce'
  BY DEF SInv, StoredOnce
<1>6. Answered'
  <2> SUFFICES ASSUME NEW r \in 1 .. Len(runs'), Stored(r)', InPending(r)'
               PROVE  runs'[r].result # None
    BY DEF Answered
  <2>1. r \in 1 .. Len(runs) /\ Stored(r) /\ InPending(r)
        /\ \A v \in Workers : pc[v] # "result"
    BY <1>2, <1>3
  <2> QED BY <2>1 DEF SInv, Answered, RunsStay
<1>7. Unanswered' /\ Copies'
  BY DEF Unanswered, Copies
<1>8. Confirmed'
  BY <1>1, <1>2 DEF SInv, Confirmed, RunsStay
<1> QED BY <1>4, <1>5, <1>6, <1>7, <1>8 DEF SInv

\* A step of the only thread.
LEMMA QuietStep ==
  ASSUME OneThread, TInv, TInv', SInv, NEW w \in Workers, file' = file, RunsStay,
         \A r \in 1 .. Len(runs) : InPending(r)' => InPending(r),
         pc[w] # "result", pc'[w] \notin {"progress", "save", "write"},
         pc'[w] = "result" => mine'[w].verdict = "unscorable"
  PROVE  SInv'
<1>1. \A v \in Workers : v = w
  BY DEF OneThread
<1> QED BY <1>1, Quiet

\* One that leaves the runs and the map of held drills alone.
LEMMA QuietSame ==
  ASSUME OneThread, TInv, TInv', SInv, NEW w \in Workers, UNCHANGED <<file, runs, pending>>,
         pc[w] # "result", pc'[w] \notin {"progress", "save", "write"},
         pc'[w] = "result" => mine'[w].verdict = "unscorable"
  PROVE  SInv'
<1>1. \A r : InPending(r)' => InPending(r)
  BY DEF InPending
<1> QED BY <1>1, SameRuns, QuietStep

\* Where a step leads.
LEMMA Moved ==
  ASSUME TInv, NEW w \in Workers, NEW step
  PROVE  /\ Goto(w, step) => pc'[w] = step
         /\ Finish(w) => pc'[w] = "idle"
         /\ pc[w] \in {"withhold", "note"} /\ Retry(w) => pc'[w] \in {"idle", "select"}
<1>1. pc \in [Workers -> Steps]
  BY DEF TInv, TypeOK, Steps
<1> QED BY <1>1 DEF Goto, Finish, Retry

LEMMA SingleServing ==
  ASSUME OneThread, TInv, TInv', SInv, NEW w \in Workers,
         \/ \E op \in Operators, want \in Wanted : Serve(w, op, want)
         \/ ServeLoad(w) \/ Select(w) \/ SelectNothing(w) \/ Render(w)
         \/ \E why \in Reasons : RenderRefused(w, why)
         \/ Withhold(w) \/ NoteReason(w)
  PROVE  SInv'
<1>1. UNCHANGED <<file, runs, pending>>
  BY DEF Serve, ServeLoad, Select, SelectNothing, Render, RenderRefused, Withhold, NoteReason,
         shared
<1>2. pc[w] \in {"idle", "load", "select", "render", "withhold", "note"}
  BY DEF Serve, ServeLoad, Select, SelectNothing, Render, RenderRefused, Withhold, NoteReason
<1>3. pc'[w] \in {"load", "select", "render", "hold", "withhold", "note", "idle"}
  <2>1. CASE \/ \E op \in Operators, want \in Wanted : Serve(w, op, want)
             \/ ServeLoad(w) \/ Select(w) \/ SelectNothing(w) \/ Render(w)
             \/ \E why \in Reasons : RenderRefused(w, why)
    BY <2>1, Moved DEF Serve, ServeLoad, Select, SelectNothing, Render, RenderRefused
  <2>2. CASE Withhold(w) \/ NoteReason(w)
    BY <2>2, Moved DEF Withhold, NoteReason
  <2> QED BY <2>1, <2>2
<1> QED BY <1>1, <1>2, <1>3, QuietSame

-----------------------------------------------------------------------------
(* Holding and evicting *)

LEMMA SingleHold ==
  ASSUME OneThread, TInv, TInv', SInv, NEW w \in Workers, Hold(w)
  PROVE  SInv'
<1>1. Len(runs) \in Nat /\ runs \in Seq(Held) /\ pending \in Seq(1 .. Len(runs))
  BY LenProperties DEF TInv, TypeOK
<1> DEFINE run == [item |-> mine[w].item, seed |-> mine[w].seed, result |-> None,
                   known |-> FALSE]
<1>2. runs' = Append(runs, run) /\ run.result = None
  BY DEF Hold
<1> HIDE DEF run
<1>3. /\ Len(runs') = Len(runs) + 1
      /\ \A r \in 1 .. Len(runs) : runs'[r] = runs[r]
      /\ runs'[Len(runs) + 1] = run
  BY <1>1, <1>2
<1>4. RunsStay
  BY <1>1, <1>2, <1>3 DEF RunsStay
<1>5. ASSUME NEW r \in 1 .. Len(runs), InPending(r)' PROVE InPending(r)
  <2>1. /\ DOMAIN pending' = 1 .. Len(pending) + 1 /\ DOMAIN pending = 1 .. Len(pending)
        /\ pending'[Len(pending) + 1] = Len(runs) + 1
        /\ \A i \in 1 .. Len(pending) : pending'[i] = pending[i]
        /\ Len(pending) \in Nat
    BY <1>1, <1>3 DEF Hold
  <2>2. PICK i \in 1 .. Len(pending) + 1 : pending'[i] = r
    BY <1>5, <2>1 DEF InPending
  <2>3. i # Len(pending) + 1
    BY <1>1, <2>1, <2>2
  <2> QED BY <2>1, <2>2, <2>3 DEF InPending
<1>6. pc[w] = "hold" /\ pc'[w] = "evict" /\ file' = file
  BY Moved DEF Hold, served
<1> QED BY <1>4, <1>5, <1>6, QuietStep

LEMMA SingleEvicting ==
  ASSUME OneThread, TInv, TInv', SInv, NEW w \in Workers,
         \/ ScanBegin(w) \/ ScanEnd(w) \/ DropExpired(w) \/ CountPending(w) \/ PopOldest(w)
  PROVE  SInv'
<1>1. /\ pc[w] \in {"evict", "scan", "drop", "count", "pop"}
      /\ pc'[w] \in {"scan", "drop", "count", "pop", "idle"}
      /\ file' = file
  <2>1. pc[w] \in {"evict", "scan", "drop", "count", "pop"} /\ file' = file
    BY DEF ScanBegin, ScanEnd, DropExpired, CountPending, PopOldest, shared, served
  <2>2. pc'[w] \in {"scan", "drop", "count", "pop", "idle"}
    <3>1. CASE ScanBegin(w) \/ ScanEnd(w)
      BY <3>1, Moved DEF ScanBegin, ScanEnd
    <3>2. CASE DropExpired(w)
      BY <3>2, Moved DEF DropExpired
    <3>3. CASE CountPending(w) \/ PopOldest(w)
      BY <3>3, Moved DEF CountPending, PopOldest
    <3> QED BY <3>1, <3>2, <3>3
  <2> QED BY <2>1, <2>2
<1>2. \A r : InPending(r)' => InPending(r)
  <2>1. CASE ScanBegin(w) \/ ScanEnd(w) \/ CountPending(w)
    BY <2>1 DEF ScanBegin, ScanEnd, CountPending, shared, InPending
  <2>2. CASE DropExpired(w)
    <3>1. \/ InPending(Oldest(w)) /\ pending' = Without(Oldest(w))
          \/ pending' = pending
      BY <2>2 DEF DropExpired, Oldest
    <3>2. CASE InPending(Oldest(w)) /\ pending' = Without(Oldest(w))
      BY <3>2, Removed
    <3>3. CASE pending' = pending
      BY <3>3 DEF InPending
    <3> QED BY <3>1, <3>2, <3>3
  <2>3. CASE PopOldest(w)
    <3>1. \/ pending # << >> /\ pending' = Tail(pending)
          \/ pending' = pending
      BY <2>3 DEF PopOldest
    <3>2. CASE pending # << >> /\ pending' = Tail(pending)
      BY <3>2, Removed
    <3>3. CASE pending' = pending
      BY <3>3 DEF InPending
    <3> QED BY <3>1, <3>2, <3>3
  <2> QED BY <2>1, <2>2, <2>3
<1>3. RunsStay
  <2>1. CASE runs' = runs
    BY <2>1, SameRuns
  <2>2. CASE CountPending(w) /\ runs' # runs
    <3>1. runs' = [runs EXCEPT ![mine[w].run].known = TRUE]
      BY <2>2 DEF CountPending
    <3>2. runs \in Seq(Held) /\ mine[w].run \in 1 .. Len(runs) /\ Len(runs) \in Nat
      BY <2>2, Given DEF CountPending, SharedType, Fits, EvictSteps
    <3>3. /\ Len(runs') = Len(runs)
          /\ \A r \in 1 .. Len(runs) :
               runs'[r] = IF r = mine[w].run THEN [runs[r] EXCEPT !.known = TRUE] ELSE runs[r]
      <4>1. DOMAIN runs = 1 .. Len(runs) /\ DOMAIN runs' = DOMAIN runs
        BY <3>1, <3>2, LenProperties
      <4>2. runs' \in Seq(Held)
        BY DEF TInv, TypeOK
      <4>3. Len(runs') = Len(runs)
        BY <3>2, <4>1, <4>2, LenProperties
      <4> QED BY <3>1, <4>1, <4>3
    <3>4. \A r \in 1 .. Len(runs) : runs[r] \in Held
      BY <3>2, ElementOfSeq
    <3>5. \A r \in 1 .. Len(runs) :
            runs'[r].seed = runs[r].seed /\ runs'[r].result = runs[r].result
      BY <3>3, <3>4 DEF Held
    <3> QED BY <3>2, <3>3, <3>5 DEF RunsStay
  <2> QED BY <2>1, <2>2 DEF ScanBegin, ScanEnd, DropExpired, PopOldest, shared
<1> QED BY <1>1, <1>2, <1>3, QuietStep

-----------------------------------------------------------------------------
(* Scoring *)

\* Nothing but the program counter and the frames moves.
LEMMA SameStore ==
  ASSUME TInv, SInv, UNCHANGED <<file, runs, pending>>
  PROVE  /\ RowsRedraw' /\ StoredOnce' /\ ReadBack' = ReadBack
         /\ \A r : /\ Stored(r)' <=> Stored(r)
                   /\ OnVolume(r)' <=> OnVolume(r)
                   /\ InPending(r)' <=> InPending(r)
<1>1. RowsRedraw' /\ StoredOnce'
  BY DEF SInv, RowsRedraw, StoredOnce
<1>2. ReadBack' = ReadBack
  BY DEF ReadBack
<1> QED BY <1>1, <1>2 DEF Stored, OnVolume, InPending

\* A result is not None.
LEMMA ResultIsValue ==
  ASSUME TInv, NEW w \in Workers, pc[w] = "result"
  PROVE  ResultOf(w) \in Result /\ ResultOf(w) # None
<1>1. mine[w] \in Frame /\ Fits("result", mine[w], Len(runs))
  BY Given
<1>2. ResultOf(w) \in Result
  BY <1>1, ResultType
<1> QED BY <1>2, NoneAssumption

\* The first results stay on the volume while nothing is stored.
LEMMA SameConfirmed ==
  ASSUME TInv, SInv, UNCHANGED <<file, runs, pending>>,
         \A v \in Workers : pc'[v] # "result"
  PROVE  Confirmed'
<1>1. \A r : OnVolume(r)' <=> OnVolume(r)
  BY SameStore
<1> QED BY <1>1 DEF SInv, Confirmed

LEMMA SingleFind ==
  ASSUME OneThread, TInv, TInv', SInv, NEW w \in Workers, Find(w)
  PROVE  SInv'
<1>1. pc[w] = "find" /\ UNCHANGED <<file, runs, pending>> /\ \A v \in Workers : v = w
  BY DEF Find, shared, OneThread
<1>2. CASE pc'[w] \notin {"progress", "save", "write", "result"}
  BY <1>1, <1>2, QuietSame
<1>3. CASE pc'[w] \in {"progress", "save", "write", "result"}
  <2>1. /\ InPending(mine[w].run) /\ runs[mine[w].run].result = None /\ mine' = mine
        /\ pc'[w] = IF mine[w].verdict = "unscorable" THEN "result" ELSE "progress"
    BY <1>3, Moved DEF Find
  <2>2. CASE mine[w].verdict = "unscorable"
    BY <1>1, <2>1, <2>2, QuietSame
  <2>3. CASE mine[w].verdict # "unscorable"
    <3>1. mine[w].run \in 1 .. Len(runs)
      BY <1>1, Given DEF Fits, ScoreSteps
    <3>2. ~ Stored(mine[w].run)
      BY <1>1, <2>1, <3>1 DEF SInv, Answered
    <3>3. Answered'
      BY <1>1, <2>1, <2>3, SameStore DEF SInv, Answered
    <3>4. Unanswered'
      BY <1>1, <2>1, <3>2, SameStore DEF Unanswered
    <3>5. Copies' /\ Confirmed'
      BY <1>1, <2>1, <2>3, SameConfirmed DEF Copies
    <3> QED BY <1>1, <3>3, <3>4, <3>5, SameStore DEF SInv
  <2> QED BY <2>2, <2>3
<1> QED BY <1>2, <1>3

LEMMA SingleScoreLoad ==
  ASSUME OneThread, TInv, TInv', SInv, NEW w \in Workers, ScoreLoad(w)
  PROVE  SInv'
<1>1. /\ pc[w] = "progress" /\ pc'[w] = "save" /\ UNCHANGED <<file, runs, pending>>
      /\ \A v \in Workers : v = w
  BY Moved DEF ScoreLoad, shared, OneThread
<1>2. PICK blob \in ReadBack :
        mine' = [mine EXCEPT ![w] = [mine[w] EXCEPT !.copy = LoadFrom(blob, mine[w].op)]]
  BY DEF ScoreLoad, Become
<1>3. /\ mine'[w].copy = LoadFrom(blob, mine[w].op)
      /\ mine'[w].op = mine[w].op /\ mine'[w].run = mine[w].run
  BY <1>2, Given DEF TInv, TypeOK, Frame
<1>4. Answered'
  BY <1>1, SameStore DEF SInv, Answered
<1>5. Unanswered'
  BY <1>1, <1>3, SameStore DEF SInv, Unanswered
<1>6. Copies'
  BY <1>1, <1>2, <1>3, SameStore DEF Copies, LoadFrom
<1>7. Confirmed'
  BY <1>1, SameConfirmed
<1> QED BY <1>1, <1>4, <1>5, <1>6, <1>7, SameStore DEF SInv

LEMMA SingleRecord ==
  ASSUME OneThread, TInv, TInv', SInv, NEW w \in Workers, Record(w)
  PROVE  SInv'
<1>1. /\ pc[w] = "save" /\ pc'[w] = "write" /\ UNCHANGED <<file, runs, pending>>
      /\ \A v \in Workers : v = w
  BY Moved DEF Record, shared, OneThread
<1>2. PICK after \in RatingsAfter(mine[w].copy.rating, mine[w].verdict = "hit"),
           blob \in ReadBack :
        mine' = [mine EXCEPT ![w] =
                   [mine[w] EXCEPT !.copy = Scored(@, RowOf(w, after)), !.blob = blob]]
  BY DEF Record, Become, RowOf
<1> DEFINE row == RowOf(w, after)
<1>3. /\ mine'[w].copy = Scored(mine[w].copy, row) /\ mine'[w].blob = blob
      /\ mine'[w].op = mine[w].op /\ mine'[w].run = mine[w].run
  <2>1. mine[w] \in Frame /\ mine \in [Workers -> Frame]
    BY Given DEF TInv, TypeOK
  <2> HIDE DEF row
  <2>2. mine'[w] = [mine[w] EXCEPT !.copy = Scored(@, row), !.blob = blob]
    BY <1>2, <2>1 DEF row
  <2> QED BY <2>1, <2>2 DEF Frame
<1>4. InPending(mine[w].run) /\ ~ Stored(mine[w].run)
  BY <1>1 DEF SInv, Unanswered
<1>5. row \in Row /\ row.run = mine[w].run /\ row.seed = runs[mine[w].run].seed
  BY <1>1, <1>4, RowType DEF RowOf, PendingSeed
<1> HIDE DEF row
<1>6. PICK b \in ReadBack : mine[w].copy = LoadFrom(b, mine[w].op)
  BY <1>1 DEF SInv, Copies
<1>7. Answered'
  BY <1>1, SameStore DEF SInv, Answered
<1>8. Unanswered'
  BY <1>1, <1>3, <1>4, SameStore DEF Unanswered
<1>9. Copies'
  <2>1. \A o : LoadFrom(b, o)' = LoadFrom(b, o)
    BY DEF LoadFrom
  <2>2. mine'[w].copy = Scored(LoadFrom(b, mine'[w].op), row)
    BY <1>3, <1>6
  <2>3. b \in ReadBack' /\ mine'[w].blob \in ReadBack'
    BY <1>1, <1>2, <1>3, <1>6, SameStore
  <2>4. row.run = mine'[w].run /\ row.seed = runs'[mine'[w].run].seed
    BY <1>1, <1>3, <1>5
  <2> QED BY <1>1, <1>5, <2>2, <2>3, <2>4 DEF Copies
<1>10. Confirmed'
  BY <1>1, SameConfirmed
<1> QED BY <1>1, <1>7, <1>8, <1>9, <1>10, SameStore DEF SInv

LEMMA SingleResult ==
  ASSUME OneThread, TInv, TInv', SInv, NEW w \in Workers, SetResult(w)
  PROVE  SInv'
<1> DEFINE run == mine[w].run
           result == ResultOf(w)
<1>1. /\ pc[w] = "result" /\ pc'[w] = "idle" /\ UNCHANGED <<file, pending>>
      /\ \A v \in Workers : v = w
      /\ runs' = [runs EXCEPT ![run].result = result]
  BY Moved DEF SetResult, served, OneThread
<1>2. runs \in Seq(Held) /\ run \in 1 .. Len(runs) /\ Len(runs) \in Nat
  BY <1>1, Given DEF SharedType, Fits, ScoreSteps
<1>3. result.verdict = mine[w].verdict
  BY DEF ResultOf
<1>4. runs' \in Seq(Held) /\ DOMAIN runs = 1 .. Len(runs)
  BY <1>2, LenProperties DEF TInv, TypeOK
<1> HIDE DEF run, result
<1>5. /\ Len(runs') = Len(runs)
      /\ \A r \in 1 .. Len(runs) :
           runs'[r] = IF r = run THEN [runs[r] EXCEPT !.result = result] ELSE runs[r]
  BY <1>1, <1>2, <1>4, LenProperties
<1>6. \A r \in 1 .. Len(runs) :
        /\ runs'[r].seed = runs[r].seed
        /\ runs'[r].result = IF r = run THEN result ELSE runs[r].result
  <2>1. \A r \in 1 .. Len(runs) : runs[r] \in Held
    BY <1>2, ElementOfSeq
  <2>2. TAKE r \in 1 .. Len(runs)
  <2>3. runs[r] = [item |-> runs[r].item, seed |-> runs[r].seed,
                   result |-> runs[r].result, known |-> runs[r].known]
    BY <2>1 DEF Held
  <2> QED BY <1>5, <2>3
<1>7. result # None
  BY <1>1, ResultIsValue DEF result
<1>8. \A r : /\ Stored(r)' <=> Stored(r)
             /\ OnVolume(r)' <=> OnVolume(r)
             /\ InPending(r)' <=> InPending(r)
  BY <1>1 DEF Stored, OnVolume, InPending
<1>9. RowsRedraw'
  BY <1>1, <1>5, <1>6 DEF SInv, RowsRedraw
<1>10. StoredOnce'
  BY <1>1 DEF SInv, StoredOnce
<1>11. Answered'
  BY <1>1, <1>5, <1>6, <1>7, <1>8 DEF SInv, Answered, run
<1>12. Unanswered' /\ Copies'
  BY <1>1 DEF Unanswered, Copies
<1>13. Confirmed'
  BY <1>1, <1>3, <1>5, <1>6, <1>8 DEF SInv, Confirmed, run
<1> QED BY <1>9, <1>10, <1>11, <1>12, <1>13 DEF SInv

-----------------------------------------------------------------------------
(* The write *)

\* The rows of a record after one more answer: its own row last, and before it the newest
\* of the rows that were there.
LEMMA ScoredRows ==
  ASSUME NEW p \in OperatorProgress, NEW row \in Row
  PROVE  LET n == Len(p.runs)
             k == IF n + 1 > MaxRunHistory THEN MaxRunHistory ELSE n + 1
             more == Scored(p, row).runs
         IN  /\ n \in Nat /\ DOMAIN p.runs = 1 .. n
             /\ k \in Nat \ {0} /\ DOMAIN more = 1 .. k /\ Len(more) = k
             /\ more[k] = row
             /\ \A i \in 1 .. k - 1 : /\ n + 1 - k + i \in 1 .. n
                                      /\ more[i] = p.runs[n + 1 - k + i]
<1> DEFINE n == Len(p.runs)
           k == IF n + 1 > MaxRunHistory THEN MaxRunHistory ELSE n + 1
           rows == Append(p.runs, row)
<1>1. p.runs \in Seq(Row) /\ n \in Nat /\ DOMAIN p.runs = 1 .. n
  BY LenProperties DEF OperatorProgress
<1>2. /\ rows \in Seq(Row) /\ Len(rows) = n + 1 /\ rows[n + 1] = row
      /\ \A i \in 1 .. n : rows[i] = p.runs[i]
  BY <1>1, AppendProperties
<1>3. Scored(p, row).runs = Kept(rows)
  BY DEF Scored
<1> HIDE DEF rows
<1>4. /\ Kept(rows) \in Seq(Row)
      /\ Len(Kept(rows)) = IF Len(rows) > MaxRunHistory THEN MaxRunHistory ELSE Len(rows)
      /\ \A i \in 1 .. Len(Kept(rows)) :
           Kept(rows)[i] = rows[Len(rows) - Len(Kept(rows)) + i]
  BY <1>2, KeptRows
<1>5. Len(Kept(rows)) = k /\ DOMAIN Kept(rows) = 1 .. k
  BY <1>2, <1>4, LenProperties
<1>6. k \in Nat \ {0} /\ k <= n + 1
  BY <1>1, HistoryAssumption
<1> HIDE DEF k, n
<1>7. \A i \in 1 .. k : Kept(rows)[i] = rows[n + 1 - k + i]
  <2> TAKE i \in 1 .. k
  <2>1. Kept(rows)[i] = rows[Len(rows) - Len(Kept(rows)) + i]
    BY <1>4, <1>5
  <2>2. Len(rows) = n + 1 /\ Len(Kept(rows)) = k
    BY <1>2, <1>5
  <2> QED BY <1>1, <1>6, <2>1, <2>2 DEF n
<1>8. Kept(rows)[k] = row
  <2>1. n + 1 - k + k = n + 1 /\ k \in 1 .. k
    BY <1>1, <1>6 DEF n
  <2>2. Kept(rows)[k] = rows[n + 1 - k + k]
    BY <1>7, <2>1
  <2> QED BY <1>2, <2>1, <2>2 DEF n
<1>9. ASSUME NEW i \in 1 .. k - 1
      PROVE  n + 1 - k + i \in 1 .. n /\ Kept(rows)[i] = p.runs[n + 1 - k + i]
  <2>1. i \in 1 .. k /\ n + 1 - k + i \in 1 .. n
    BY <1>1, <1>6 DEF n
  <2>2. rows[n + 1 - k + i] = p.runs[n + 1 - k + i]
    BY <1>2, <2>1 DEF n
  <2> QED BY <1>7, <2>1, <2>2
<1> QED BY <1>1, <1>3, <1>5, <1>6, <1>8, <1>9 DEF k, n

\* What a write puts over the file: the row of its run added to the record of its
\* operator, as far as both reads found it, and the other records.
Writes(w, p, row) ==
  /\ \/ p = fresh /\ (file[mine[w].op] = None \/ ReadsMayFail)
     \/ file[mine[w].op] # None /\ p = file[mine[w].op]
  /\ row.run = mine[w].run /\ row.seed = runs[mine[w].run].seed
  /\ file'[mine[w].op] = Scored(p, row)
  /\ \A o \in Operators \ {mine[w].op} :
       file'[o] = file[o] \/ (ReadsMayFail /\ file'[o] = None)

LEMMA WritesRow ==
  ASSUME TInv, SInv, NEW w \in Workers, SaveWrite(w)
  PROVE  /\ mine[w].op \in Operators /\ mine[w].run \in 1 .. Len(runs)
         /\ \E p \in OperatorProgress, row \in Row : Writes(w, p, row)
<1> DEFINE op == mine[w].op
<1>1. /\ pc[w] = "write" /\ op \in Operators /\ mine[w].run \in 1 .. Len(runs)
      /\ file \in Blob /\ mine[w].blob \in Blob
  BY Given DEF SaveWrite, Fits, ScoreSteps, SharedType, Frame
<1>2. file' = [mine[w].blob EXCEPT ![op] = mine[w].copy] /\ mine[w].blob \in ReadBack
  BY <1>1 DEF SaveWrite, SInv, Copies
<1>3. PICK b \in ReadBack, row \in Row :
        /\ row.run = mine[w].run /\ row.seed = runs[mine[w].run].seed
        /\ mine[w].copy = Scored(LoadFrom(b, op), row)
  BY <1>1 DEF SInv, Copies
<1> DEFINE p == LoadFrom(b, op)
<1>4. b \in Blob /\ p \in OperatorProgress
  BY <1>1, ReadType, LoadType
<1>5. \/ p = fresh /\ (file[op] = None \/ ReadsMayFail)
      \/ file[op] # None /\ p = file[op]
  BY <1>1 DEF ReadBack, NoFile, LoadFrom
<1>6. file'[op] = Scored(p, row)
  BY <1>1, <1>2, <1>3 DEF Blob
<1>7. \A o \in Operators \ {op} : file'[o] = file[o] \/ (ReadsMayFail /\ file'[o] = None)
  BY <1>1, <1>2 DEF Blob, ReadBack, NoFile
<1> HIDE DEF p, op
<1>8. Writes(w, p, row)
  BY <1>3, <1>5, <1>6, <1>7 DEF Writes, op
<1> QED BY <1>1, <1>4, <1>8 DEF op

\* Every row in the file after a write is the new one, or was there before at a place of
\* its own.
LEMMA WrittenRows ==
  ASSUME TInv, NEW w \in Workers, mine[w].op \in Operators,
         NEW p \in OperatorProgress, NEW row \in Row, Writes(w, p, row)
  PROVE  LET op == mine[w].op
             n == Len(p.runs)
             k == Len(file'[op].runs)
             From(o, i) == IF o = op THEN n + 1 - k + i ELSE i
         IN  /\ n \in Nat /\ k \in Nat \ {0} /\ DOMAIN file'[op].runs = 1 .. k
             /\ file'[op].runs[k] = row
             /\ \A o \in Operators : file'[o] # None =>
                  \A i \in DOMAIN file'[o].runs :
                    \/ o = op /\ i = k
                    \/ /\ file[o] # None /\ From(o, i) \in DOMAIN file[o].runs
                       /\ file'[o].runs[i] = file[o].runs[From(o, i)]
<1> DEFINE op == mine[w].op
           n == Len(p.runs)
           k == Len(file'[op].runs)
           From(o, i) == IF o = op THEN n + 1 - k + i ELSE i
<1>1. /\ n \in Nat /\ DOMAIN p.runs = 1 .. n
      /\ k \in Nat \ {0} /\ DOMAIN file'[op].runs = 1 .. k
      /\ file'[op].runs[k] = row
      /\ \A i \in 1 .. k - 1 : /\ n + 1 - k + i \in 1 .. n
                               /\ file'[op].runs[i] = p.runs[n + 1 - k + i]
  <2> DEFINE m == IF n + 1 > MaxRunHistory THEN MaxRunHistory ELSE n + 1
             more == Scored(p, row).runs
  <2>1. /\ n \in Nat /\ DOMAIN p.runs = 1 .. n
        /\ m \in Nat \ {0} /\ DOMAIN more = 1 .. m /\ Len(more) = m
        /\ more[m] = row
        /\ \A i \in 1 .. m - 1 : /\ n + 1 - m + i \in 1 .. n
                                 /\ more[i] = p.runs[n + 1 - m + i]
    BY ScoredRows
  <2>2. file'[op].runs = more
    BY DEF Writes
  <2> HIDE DEF m, more
  <2>3. k = m
    BY <2>1, <2>2
  <2> QED BY <2>1, <2>2, <2>3
<1>2. ASSUME NEW o \in Operators, file'[o] # None, NEW i \in DOMAIN file'[o].runs,
             ~ (o = op /\ i = k)
      PROVE  /\ file[o] # None /\ From(o, i) \in DOMAIN file[o].runs
             /\ file'[o].runs[i] = file[o].runs[From(o, i)]
  <2>1. CASE o # op
    BY <1>2, <2>1 DEF Writes
  <2>2. CASE o = op
    <3>1. i \in 1 .. k - 1
      BY <1>1, <1>2, <2>2
    <3>2. n + 1 - k + i \in 1 .. n /\ file'[op].runs[i] = p.runs[n + 1 - k + i]
      BY <1>1, <3>1
    <3>3. p # fresh
      <4>1. SUFFICES ASSUME p = fresh PROVE FALSE
        OBVIOUS
      <4>2. n = 0
        BY <4>1, EmptySeq DEF fresh
      <4> QED BY <3>2, <4>2
    <3>4. file[op] # None /\ p = file[op]
      BY <3>3 DEF Writes
    <3> QED BY <1>1, <2>2, <3>2, <3>4
  <2> QED BY <2>1, <2>2
<1> QED BY <1>1, <1>2

LEMMA SingleWrite ==
  ASSUME OneThread, TInv, TInv', SInv, NEW w \in Workers, SaveWrite(w)
  PROVE  SInv'
<1> DEFINE op == mine[w].op
           run == mine[w].run
<1>1. /\ pc[w] = "write" /\ pc'[w] = "result" /\ UNCHANGED <<runs, pending, mine>>
      /\ \A v \in Workers : v = w
  BY Moved DEF SaveWrite, OneThread
<1>2. PICK p \in OperatorProgress, row \in Row : Writes(w, p, row)
  BY WritesRow
<1>3. op \in Operators /\ run \in 1 .. Len(runs)
  BY WritesRow
<1> DEFINE n == Len(p.runs)
           k == Len(file'[op].runs)
           From(o, i) == IF o = op THEN n + 1 - k + i ELSE i
           New(o, i) == o = op /\ i = k
           Old(o, i) == /\ file[o] # None /\ From(o, i) \in DOMAIN file[o].runs
                        /\ file'[o].runs[i] = file[o].runs[From(o, i)]
<1>4. /\ n \in Nat /\ k \in Nat \ {0} /\ DOMAIN file'[op].runs = 1 .. k
      /\ file'[op].runs[k] = row
      /\ \A o \in Operators : file'[o] # None =>
           \A i \in DOMAIN file'[o].runs : New(o, i) \/ Old(o, i)
  BY <1>2, <1>3, WrittenRows
<1>5. \A o \in Operators : \A i : New(o, i) => file'[o].runs[i] = row
  BY <1>4
<1>6. row.run = run /\ row.seed = runs[run].seed /\ file'[op] = Scored(p, row)
  BY <1>2 DEF Writes
<1>7. InPending(run) /\ ~ Stored(run)
  BY <1>1 DEF SInv, Unanswered
<1>8. \A o \in Operators : \A i : Old(o, i) => file'[o].runs[i].run # run
  <2>1. ASSUME NEW o \in Operators, NEW i, Old(o, i), file'[o].runs[i].run = run PROVE FALSE
    <3>1. file[o] # None /\ From(o, i) \in DOMAIN file[o].runs
          /\ file[o].runs[From(o, i)].run = run
      BY <2>1
    <3> HIDE DEF From, run
    <3>2. Stored(run)
      BY <3>1 DEF Stored
    <3> QED BY <1>7, <3>2 DEF run
  <2> QED BY <2>1
<1>9. RowsRedraw'
  <2> SUFFICES ASSUME NEW o \in Operators, file'[o] # None, NEW i \in DOMAIN file'[o].runs
               PROVE  /\ file'[o].runs[i].run \in 1 .. Len(runs)
                      /\ file'[o].runs[i].seed = runs[file'[o].runs[i].run].seed
    BY <1>1 DEF RowsRedraw
  <2>1. CASE New(o, i)
    BY <1>3, <1>4, <1>6, <2>1
  <2>2. CASE Old(o, i)
    BY <2>2 DEF SInv, RowsRedraw
  <2> QED BY <1>4, <2>1, <2>2
<1>10. StoredOnce'
  <2> SUFFICES ASSUME NEW o \in Operators, NEW q \in Operators, file'[o] # None, file'[q] # None,
                      NEW i \in DOMAIN file'[o].runs, NEW j \in DOMAIN file'[q].runs,
                      file'[o].runs[i].run = file'[q].runs[j].run
               PROVE  o = q /\ i = j
    BY DEF StoredOnce
  <2>1. CASE New(o, i) /\ New(q, j)
    BY <2>1
  <2>2. CASE New(o, i) /\ Old(q, j)
    <3> HIDE DEF New, Old, run
    <3> QED BY <1>5, <1>6, <1>8, <2>2
  <2>3. CASE Old(o, i) /\ New(q, j)
    <3> HIDE DEF New, Old, run
    <3> QED BY <1>5, <1>6, <1>8, <2>3
  <2>4. CASE Old(o, i) /\ Old(q, j) /\ ~ New(o, i) /\ ~ New(q, j)
    <3>1. o = q /\ From(o, i) = From(q, j)
      <4>1. /\ file[o] # None /\ From(o, i) \in DOMAIN file[o].runs
            /\ file[q] # None /\ From(q, j) \in DOMAIN file[q].runs
            /\ file[o].runs[From(o, i)].run = file[q].runs[From(q, j)].run
        BY <2>4
      <4> HIDE DEF From
      <4> QED BY <4>1 DEF SInv, StoredOnce
    <3>2. CASE o = op
      <4>1. i \in 1 .. k /\ j \in 1 .. k /\ n + 1 - k + i = n + 1 - k + j
        BY <1>4, <3>1, <3>2
      <4>2. i \in Int /\ j \in Int /\ n \in Int /\ k \in Int
        BY <1>4, <4>1
      <4> HIDE DEF n, k
      <4>3. i = j
        BY <4>1, <4>2
      <4> QED BY <3>1, <4>3
    <3>3. CASE o # op
      BY <3>1, <3>3
    <3> QED BY <3>1, <3>2, <3>3
  <2> QED BY <1>4, <2>1, <2>2, <2>3, <2>4
<1>11. \A r : Stored(r)' => Stored(r) \/ r = run
  <2> SUFFICES ASSUME NEW r, Stored(r)' PROVE Stored(r) \/ r = run
    OBVIOUS
  <2>1. PICK o \in Operators : file'[o] # None
                               /\ \E i \in DOMAIN file'[o].runs : file'[o].runs[i].run = r
    BY DEF Stored
  <2>2. PICK i \in DOMAIN file'[o].runs : file'[o].runs[i].run = r
    BY <2>1
  <2>3. CASE New(o, i)
    BY <1>4, <1>6, <2>2, <2>3
  <2>4. CASE Old(o, i)
    <3>1. file[o] # None /\ From(o, i) \in DOMAIN file[o].runs
          /\ file[o].runs[From(o, i)].run = r
      BY <2>2, <2>4
    <3> HIDE DEF From
    <3> QED BY <3>1 DEF Stored
  <2> QED BY <1>4, <2>1, <2>3, <2>4
<1>12. Answered'
  <2> SUFFICES ASSUME NEW r \in 1 .. Len(runs), Stored(r)', InPending(r)'
               PROVE  runs[r].result # None \/ r = run
    BY <1>1 DEF Answered
  <2>1. InPending(r)
    BY <1>1 DEF InPending
  <2> QED BY <1>1, <1>11, <2>1 DEF SInv, Answered
<1>13. Unanswered' /\ Copies'
  BY <1>1 DEF Unanswered, Copies
<1>14. Confirmed'
  <2> SUFFICES ASSUME ~ ReadsMayFail
               PROVE  OnVolume(run)' /\ \A r : OnVolume(r) => OnVolume(r)'
    BY <1>1 DEF SInv, Confirmed
  <2>1. file'[op] # None
    <3>1. file'[op] \in OperatorProgress
      BY <1>2, <1>6, ScoredType
    <3> QED BY <3>1, NoneAssumption
  <2>2. OnVolume(run)'
    <3>1. k \in DOMAIN file'[op].runs /\ file'[op].runs[k].run = run
      BY <1>4, <1>6
    <3>2. run' = run
      BY <1>1
    <3> HIDE DEF op, run, k
    <3> QED BY <1>3, <2>1, <3>1, <3>2 DEF OnVolume
  <2>3. ASSUME NEW r, OnVolume(r) PROVE OnVolume(r)'
    <3>1. PICK o \in Operators :
            /\ file[o] # None
            /\ \/ \E i \in DOMAIN file[o].runs : file[o].runs[i].run = r
               \/ Len(file[o].runs) = MaxRunHistory
      BY <2>3 DEF OnVolume
    <3>2. CASE o # op
      <4>1. file'[o] = file[o]
        BY <1>2, <3>2 DEF Writes
      <4> QED BY <3>1, <4>1 DEF OnVolume
    <3>3. CASE o = op
      <4>1. p = file[op]
        BY <1>2, <3>1, <3>3 DEF Writes
      <4>2. /\ DOMAIN p.runs = 1 .. n
            /\ k = IF n + 1 > MaxRunHistory THEN MaxRunHistory ELSE n + 1
            /\ \A i \in 1 .. k - 1 : file'[op].runs[i] = p.runs[n + 1 - k + i]
        <5> DEFINE m == IF n + 1 > MaxRunHistory THEN MaxRunHistory ELSE n + 1
                   more == Scored(p, row).runs
        <5>1. /\ DOMAIN p.runs = 1 .. n /\ Len(more) = m
              /\ \A i \in 1 .. m - 1 : more[i] = p.runs[n + 1 - m + i]
          BY ScoredRows
        <5>2. file'[op].runs = more
          BY <1>6
        <5>3. k = m
          BY <5>1, <5>2
        <5> HIDE DEF more, m
        <5>4. \A i \in 1 .. k - 1 : file'[op].runs[i] = p.runs[n + 1 - k + i]
          BY <5>1, <5>2, <5>3
        <5> QED BY <5>1, <5>3, <5>4 DEF m
      <4>3. CASE k = MaxRunHistory
        BY <1>3, <2>1, <4>3 DEF OnVolume
      <4>4. CASE k # MaxRunHistory
        <5>1. k = n + 1 /\ n # MaxRunHistory
          BY <1>4, <4>2, <4>4, HistoryAssumption
        <5>2. PICK i \in 1 .. n : p.runs[i].run = r
          BY <3>1, <3>3, <4>1, <4>2, <5>1
        <5>3. i \in 1 .. k /\ i \in 1 .. k - 1 /\ n + 1 - k + i = i
          BY <1>4, <5>1
        <5>4. file'[op].runs[i] = p.runs[i]
          BY <4>2, <5>3
        <5> QED BY <1>3, <1>4, <2>1, <5>2, <5>3, <5>4 DEF OnVolume
      <4> QED BY <4>3, <4>4
    <3> QED BY <3>2, <3>3
  <2> QED BY <2>2, <2>3
<1> QED BY <1>9, <1>10, <1>12, <1>13, <1>14 DEF SInv

-----------------------------------------------------------------------------
LEMMA SingleInit == Init => SInv
<1> SUFFICES ASSUME Init PROVE SInv
  OBVIOUS
<1>1. /\ \A o \in Operators : file[o] = None
      /\ Len(runs) = 0
      /\ \A w \in Workers : pc[w] = "idle"
  BY EmptySeq DEF Init, NoFile
<1> QED BY <1>1 DEF SInv, RowsRedraw, StoredOnce, Answered, Unanswered, Copies, Confirmed, Stored

LEMMA SingleStep ==
  ASSUME OneThread, TInv, TInv', SInv, [Next]_vars
  PROVE  SInv'
<1>1. ASSUME NEW w \in Workers, NEW op \in Operators, NEW r \in DOMAIN runs,
             NEW v \in Verdicts, Score(w, op, r, v)
      PROVE  SInv'
  BY <1>1, Moved, QuietSame DEF Score, shared
<1>2. ASSUME NEW w \in Workers, SaveFails(w)
      PROVE  SInv'
  BY <1>2, Moved, QuietSame DEF SaveFails, shared
<1>3. ASSUME NEW w \in Workers,
             \/ \E op \in Operators, want \in Wanted : Serve(w, op, want)
             \/ Run(w)
      PROVE  SInv'
  <2>1. CASE \/ \E op \in Operators, want \in Wanted : Serve(w, op, want)
             \/ ServeLoad(w) \/ Select(w) \/ SelectNothing(w) \/ Render(w)
             \/ \E why \in Reasons : RenderRefused(w, why)
             \/ Withhold(w) \/ NoteReason(w)
    BY <2>1, SingleServing
  <2>2. CASE \/ Hold(w) \/ ScanBegin(w) \/ ScanEnd(w) \/ DropExpired(w) \/ CountPending(w)
             \/ PopOldest(w)
    BY <2>2, SingleHold, SingleEvicting
  <2>3. CASE \/ Find(w) \/ ScoreLoad(w) \/ Record(w) \/ SaveWrite(w) \/ SaveFails(w)
             \/ SetResult(w)
    BY <1>2, <2>3, SingleFind, SingleScoreLoad, SingleRecord, SingleWrite, SingleResult
  <2> QED BY <1>3, <2>1, <2>2, <2>3 DEF Run
<1>4. CASE UNCHANGED vars
  <2>1. UNCHANGED <<file, runs, pending, pc, mine>>
    BY <1>4 DEF vars
  <2> QED
    BY <2>1 DEF SInv, RowsRedraw, StoredOnce, Answered, Unanswered, Copies, Confirmed, Stored,
                OnVolume, InPending, ReadBack
<1>5. CASE Restart
  <2>1. /\ file' = file /\ RunsStay /\ \A v \in Workers : pc'[v] = "idle"
        /\ \A r : ~ InPending(r)'
    BY <1>5, SameRuns, EmptySeq DEF Restart, InPending
  <2> QED BY <2>1, Quiet
<1> QED BY <1>1, <1>3, <1>4, <1>5 DEF Next

LEMMA SInvHolds ==
  ASSUME OneThread
  PROVE  Spec => []SInv
<1>1. TInv /\ TInv' /\ SInv /\ [Next]_vars => SInv'
  BY SingleStep
<1> QED BY <1>1, SingleInit, TInvHolds, PTL DEF Spec

\* With one thread, a double-click, a retry after an error, an eviction between the
\* answer and its save or a restart never moves a rating twice (score's result, kept in
\* _Pending).
THEOREM DrillScoredOnce ==
  ASSUME OneThread
  PROVE  Spec => []ScoredOnce
<1>1. TInv /\ SInv => ScoredOnce
  <2> DEFINE rows == {x \in Operators \X (1 .. MaxRunHistory) :
                        file[x[1]] # None /\ x[2] <= Len(file[x[1]].runs)}
  <2> SUFFICES ASSUME TInv, SInv, NEW x \in rows, NEW y \in rows,
                      file[x[1]].runs[x[2]].run = file[y[1]].runs[y[2]].run
               PROVE  x = y
    BY DEF ScoredOnce
  <2>1. \A z \in rows : z[1] \in Operators /\ z[2] \in DOMAIN file[z[1]].runs
    <3> TAKE z \in rows
    <3>1. z[1] \in Operators /\ z[2] \in Nat /\ z[2] >= 1 /\ file[z[1]] # None
          /\ z[2] <= Len(file[z[1]].runs)
      BY HistoryAssumption
    <3>2. file[z[1]].runs \in Seq(Row)
      BY <3>1 DEF TInv, TypeOK, Blob, OperatorProgress
    <3> QED BY <3>1, <3>2, LenProperties
  <2>2. x[1] = y[1] /\ x[2] = y[2]
    BY <2>1 DEF SInv, StoredOnce
  <2> QED BY <2>2
<1> QED BY <1>1, SInvHolds, TInvHolds, PTL

\* With one thread no answer is stored without the seed its drill was served with, so
\* every debrief can redraw what the operator saw: nobody evicts a run that is being
\* scored (_pending_seed).
THEOREM DrillEveryRowRedraws ==
  ASSUME OneThread
  PROVE  Spec => []RowsRedraw
<1>1. SInv => RowsRedraw
  BY DEF SInv
<1> QED BY <1>1, SInvHolds, PTL

\* With one thread and a file that can be read, an answer that is confirmed is in the
\* history, whatever writes fail and whenever the pod restarts.
THEOREM DrillConfirmedIsStored ==
  ASSUME OneThread, ~ ReadsMayFail
  PROVE  Spec => []ConfirmedIsStored
<1>1. TInv /\ SInv => ConfirmedIsStored
  <2> SUFFICES ASSUME TInv, SInv PROVE ConfirmedIsStored
    OBVIOUS
  <2>1. DOMAIN runs = 1 .. Len(runs)
    BY LenProperties DEF TInv, TypeOK
  <2> QED BY <2>1 DEF SInv, Confirmed, OnVolume, ConfirmedIsStored
<1> QED BY <1>1, SInvHolds, TInvHolds, PTL

\* With one thread and a file that can be read, storing an answer loses no row of another
\* operator and none of its own but those that age out (ProgressStore.save).
THEOREM DrillSaveKeepsRows ==
  ASSUME OneThread, ~ ReadsMayFail
  PROVE  Spec => SaveKeepsRows
<1> DEFINE RowsKept(o) ==
      file[o] # None =>
        /\ file'[o] # None
        /\ file'[o].attempts >= file[o].attempts
        /\ \A i \in DOMAIN file[o].runs :
             \/ \E j \in DOMAIN file'[o].runs : file'[o].runs[j] = file[o].runs[i]
             \/ Len(file'[o].runs) = MaxRunHistory
<1>1. TInv /\ SInv /\ [Next]_vars => [\A o \in Operators : RowsKept(o)]_vars
  <2> SUFFICES ASSUME TInv, SInv, [Next]_vars, NEW o \in Operators, file[o] # None
               PROVE  RowsKept(o)
    OBVIOUS
  <2>1. file[o] \in OperatorProgress
    BY DEF TInv, TypeOK, Blob
  <2>2. CASE file' = file
    BY <2>1, <2>2 DEF OperatorProgress
  <2>3. ASSUME NEW w \in Workers, SaveWrite(w) PROVE RowsKept(o)
    <3>1. PICK p \in OperatorProgress, row \in Row : Writes(w, p, row)
      BY <2>3, WritesRow
    <3>2. CASE o # mine[w].op
      <4>1. file'[o] = file[o]
        BY <3>1, <3>2 DEF Writes
      <4> QED BY <2>1, <4>1 DEF OperatorProgress
    <3>3. CASE o = mine[w].op
      <4> DEFINE n == Len(p.runs)
                 more == Scored(p, row).runs
                 k == IF n + 1 > MaxRunHistory THEN MaxRunHistory ELSE n + 1
      <4>1. p = file[o] /\ file'[o] = Scored(p, row)
        BY <3>1, <3>3 DEF Writes
      <4>2. file'[o] # None
        BY <3>1, <4>1, ScoredType, NoneAssumption
      <4>3. file'[o].attempts >= file[o].attempts
        BY <2>1, <4>1 DEF Scored, OperatorProgress
      <4>4. /\ n \in Nat /\ DOMAIN p.runs = 1 .. n
            /\ k \in Nat \ {0} /\ DOMAIN more = 1 .. k /\ Len(more) = k
            /\ \A i \in 1 .. k - 1 : more[i] = p.runs[n + 1 - k + i]
        BY ScoredRows
      <4>5. CASE k # MaxRunHistory
        <5>1. k = n + 1
          BY <4>5
        <5>2. \A i \in 1 .. n : i \in 1 .. k - 1 /\ i \in 1 .. k /\ n + 1 - k + i = i
          BY <4>4, <5>1
        <5>3. \A i \in 1 .. n : i \in DOMAIN more /\ more[i] = p.runs[i]
          BY <4>4, <5>2
        <5> QED BY <4>1, <4>2, <4>3, <4>4, <5>3
      <4>6. CASE k = MaxRunHistory
        BY <4>1, <4>2, <4>3, <4>4, <4>6
      <4> QED BY <4>5, <4>6
    <3> QED BY <3>2, <3>3
  <2> QED
    BY <2>2, <2>3
    DEF Next, Run, vars, Serve, ServeLoad, Select, SelectNothing, Render, RenderRefused,
        Withhold, NoteReason, Hold, ScanBegin, ScanEnd, DropExpired, CountPending, PopOldest,
        Score, Find, ScoreLoad, Record, SaveFails, SetResult, Restart, shared, served
<1> QED BY <1>1, SInvHolds, TInvHolds, PTL DEF Spec, SaveKeepsRows
=============================================================================

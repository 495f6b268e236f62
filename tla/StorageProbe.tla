----------------------------- MODULE StorageProbe ----------------------------
(***************************************************************************)
(* The storage verdict behind /healthz, /readyz and the diagnostics:         *)
(* app._probe_storage, its cache, its single flight and its one-worker pool. *)
(*                                                                          *)
(* The claims are about the hops of one asyncio loop, so its queue of handles *)
(* is here.  What comes from outside (a request, the pool's result, a timer)  *)
(* finds its turn anywhere in it; what the loop schedules for itself runs in  *)
(* the order it was scheduled.  Probes take the slots 0..Slots-1 in turn.     *)
(***************************************************************************)
EXTENDS Integers, Sequences, SequencesExt

CONSTANTS
  Callers,     \* requests being served
  Readiness,   \* those of them that move runtime.ready; the rest only read it
  Slots,       \* bound: probe tasks remembered together
  None,
  MaxHangups   \* bound: requests cancelled while they wait

ASSUME CallersAssumption == Readiness \subseteq Callers
ASSUME NoneAssumption == None \notin Callers \cup Nat
ASSUME BoundsAssumption == Slots \in Nat \ {0} /\ MaxHangups \in Nat

VARIABLES
  disk,      \* would a real write to the data directory succeed?
  cached,    \* cached_probe, and is it still young enough to serve?
  inflight,  \* the probe a caller may join, or None
  ready,     \* the last readiness logged
  released,  \* has the lifespan let the pool go?
  loop,      \* the handles the event loop will run, in order
  probe,     \* the probe tasks
  newest,    \* the slot started last
  worker,    \* the pool's thread: idle, busy, or on a job nobody waits for
  on,        \* the probe each caller waits for, or None
  cancelled, \* callers about to be thrown a CancelledError
  hangups

vars == <<disk, cached, inflight, ready, released, loop, probe, newest, worker,
          on, cancelled, hangups>>
env  == <<disk, released, hangups>>

Slot == 0..(Slots - 1)
Handle == [do : {"inner", "wake"}, who : Callers]
            \cup [do : {"step", "resume"}, who : Slot]
Probe == [phase : {"new", "queued", "running", "ending", "done"},
          verdict : BOOLEAN, owner : Callers \cup {None}, waiters : Seq(Callers)]

TypeOK ==
  /\ disk \in BOOLEAN /\ ready \in BOOLEAN /\ released \in BOOLEAN
  /\ cached \in [ok : BOOLEAN, fresh : BOOLEAN]
  /\ inflight \in Slot \cup {None}
  /\ loop \in Seq(Handle)
  /\ probe \in [Slot -> Probe]
  /\ newest \in Slot
  /\ worker \in {"idle", "busy", "lost"}
  /\ on \in [Callers -> Slot \cup {None}]
  /\ cancelled \subseteq {c \in Callers : on[c] # None}
  /\ hangups \in 0..MaxHangups

Unused == [phase |-> "done", verdict |-> FALSE, owner |-> None, waiters |-> << >>]
Started(c) == [phase |-> "new", verdict |-> FALSE, owner |-> c, waiters |-> <<c>>]

\* _boot() has published the verdict of its own probe; where the probe or the
\* seed raised, that verdict is not ok whatever the disk is like.
Init ==
  /\ disk \in BOOLEAN
  /\ \E ok \in {FALSE, disk} : cached = [ok |-> ok, fresh |-> TRUE] /\ ready = ok
  /\ inflight = None
  /\ released = FALSE
  /\ loop = << >>
  /\ probe = [p \in Slot |-> Unused]
  /\ newest = Slots - 1
  /\ worker = "idle"
  /\ on = [c \in Callers |-> None]
  /\ cancelled = {}
  /\ hangups = 0

H(do, who) == [do |-> do, who |-> who]
IsNext(do, who) == loop # << >> /\ Head(loop) = H(do, who)
Then(handles) == loop' = Tail(loop) \o handles
Owns(c) == on[c] # None /\ probe[on[c]].owner = c
Before(p, q) == (newest - p) % Slots > (newest - q) % Slots
Waiting(p) == probe[p].phase \in {"queued", "running"}

-----------------------------------------------------------------------------
\* readiness() notes a verdict, diagnostics() only serves it.
Told(c, ok) == ready' = IF c \in Readiness THEN ok ELSE ready

\* A request finds a verdict young enough, and needs no other.
FromCache(c) ==
  /\ on[c] = None
  /\ cached.fresh
  /\ Told(c, cached.ok)
  /\ UNCHANGED <<env, cached, inflight, loop, probe, newest, worker, on, cancelled>>

InFlight == inflight # None /\ probe[inflight].phase # "done"

\* Await the probe already running.
Join(c) ==
  /\ on[c] = None
  /\ ~ cached.fresh /\ InFlight
  /\ on' = [on EXCEPT ![c] = inflight]
  /\ probe' = [probe EXCEPT ![inflight].waiters = Append(@, c)]
  /\ UNCHANGED <<env, cached, inflight, ready, loop, newest, worker, cancelled>>

\* Start one: ensure_future puts its first step at the end of the loop.
Start(c) ==
  /\ on[c] = None
  /\ ~ cached.fresh /\ ~ InFlight
  /\ LET p == (newest + 1) % Slots IN
       /\ probe[p].phase = "done" /\ p \notin {on[d] : d \in Callers}
       /\ inflight' = p
       /\ newest' = p
       /\ on' = [on EXCEPT ![c] = p]
       /\ probe' = [probe EXCEPT ![p] = Started(c)]
       /\ loop' = Append(loop, H("step", p))
  /\ UNCHANGED <<env, cached, ready, worker, cancelled>>

-----------------------------------------------------------------------------
\* A task that returns wakes the shields that wait for it, in turn.
Ends(p, verdict) ==
  LET waiters == probe[p].waiters IN
  /\ probe' = [probe EXCEPT ![p].phase = "done", ![p].verdict = verdict,
                            ![p].waiters = << >>]
  /\ Then([i \in DOMAIN waiters |-> H("inner", waiters[i])])

\* _run_probe() up to its await: the job goes to the pool, the clock starts.
StepTask(p) ==
  /\ IsNext("step", p)
  /\ ~ released
  /\ probe' = [probe EXCEPT ![p].phase = "queued"]
  /\ Then(<< >>)
  /\ UNCHANGED <<env, cached, inflight, ready, newest, worker, on, cancelled>>

\* Mutant: with no pool of its own the probe runs on the default executor.
StepReleased_Default(p) ==
  /\ IsNext("step", p)
  /\ released
  /\ Ends(p, disk)
  /\ UNCHANGED <<env, cached, inflight, ready, newest, worker, on, cancelled>>

\* After the lifespan there is no pool to ask, and that is a failure.
StepReleased(p) ==
  /\ IsNext("step", p)
  /\ released
  /\ Ends(p, FALSE)
  /\ UNCHANGED <<env, cached, inflight, ready, newest, worker, on, cancelled>>

\* The pool's one worker takes the oldest job that nobody took back.
WorkerStarts(p) ==
  /\ worker = "idle"
  /\ probe[p].phase = "queued"
  /\ \A q \in Slot : probe[q].phase = "queued" => ~ Before(q, p)
  /\ worker' = "busy"
  /\ probe' = [probe EXCEPT ![p].phase = "running"]
  /\ UNCHANGED <<env, cached, inflight, ready, loop, newest, on, cancelled>>

\* What the pool or the timer tells the task, and a turn to see it.
Settle(p, verdict) ==
  /\ probe' = [probe EXCEPT ![p].phase = "ending", ![p].verdict = verdict]
  /\ loop' = Append(loop, H("resume", p))

\* probe_writable() returns what a real write made of the disk.
WorkerEnds(p) ==
  /\ probe[p].phase = "running"
  /\ worker' = "idle"
  /\ Settle(p, disk)
  /\ UNCHANGED <<env, cached, inflight, ready, newest, on, cancelled>>

WorkerEndsLost ==
  /\ worker = "lost"
  /\ worker' = "idle"
  /\ UNCHANGED <<env, cached, inflight, ready, loop, probe, newest, on, cancelled>>

\* Timers fire in the order they were set.
IsDue(p) == \A q \in Slot : Waiting(q) => ~ Before(q, p)

\* Mutant: only a job that has not begun is ever given up.
Timeout_Queued(p) ==
  /\ probe[p].phase = "queued" /\ IsDue(p)
  /\ Settle(p, FALSE)
  /\ UNCHANGED <<env, cached, inflight, ready, newest, worker, on, cancelled>>

\* wait_for gives up: it takes the job back, or leaves it to the worker.
Timeout(p) ==
  /\ Waiting(p) /\ IsDue(p)
  /\ Settle(p, FALSE)
  /\ worker' = IF probe[p].phase = "running" THEN "lost" ELSE worker
  /\ UNCHANGED <<env, cached, inflight, ready, newest, on, cancelled>>

\* A result whose task has not resumed when the timer fires is lost to it.
TimeoutLate(p) ==
  /\ probe[p].phase = "ending" /\ probe[p].verdict /\ IsDue(p)
  /\ probe' = [probe EXCEPT ![p].verdict = FALSE]
  /\ UNCHANGED <<env, cached, inflight, ready, loop, newest, worker, on, cancelled>>

Resume(p) ==
  /\ IsNext("resume", p)
  /\ Ends(p, probe[p].verdict)
  /\ UNCHANGED <<env, cached, inflight, ready, newest, worker, on, cancelled>>

\* The shield passes the result on, unless its caller was cancelled meanwhile.
Inner(c) ==
  /\ IsNext("inner", c)
  /\ Then(IF c \in cancelled THEN << >> ELSE <<H("wake", c)>>)
  /\ UNCHANGED <<env, cached, inflight, ready, probe, newest, worker, on, cancelled>>

-----------------------------------------------------------------------------
\* Mutant: the starter clears whatever is in flight.
ClearInflight_Any(c) == inflight' = IF Owns(c) THEN None ELSE inflight

\* The `finally' of the starter: it clears its own probe, not a later one.
ClearInflight(c) ==
  inflight' = IF Owns(c) /\ inflight = on[c] THEN None ELSE inflight

\* Mutant: another await may come between the verdict and its publication.
Wake_AfterAwait(c) ==
  /\ IsNext("wake", c)
  /\ c \notin cancelled
  /\ ClearInflight(c)
  /\ \/ /\ cached' = IF Owns(c) THEN [ok |-> probe[on[c]].verdict, fresh |-> TRUE]
                               ELSE cached
        /\ Told(c, probe[on[c]].verdict)
        /\ on' = [on EXCEPT ![c] = None]
        /\ Then(<< >>)
     \/ Then(<<Head(loop)>>) /\ UNCHANGED <<cached, ready, on>>
  /\ UNCHANGED <<env, probe, newest, worker, cancelled>>

\* Only the caller that started a probe publishes it.
Wake(c) ==
  /\ IsNext("wake", c)
  /\ c \notin cancelled
  /\ ClearInflight(c)
  /\ cached' = IF Owns(c) THEN [ok |-> probe[on[c]].verdict, fresh |-> TRUE]
                          ELSE cached
  /\ Told(c, probe[on[c]].verdict)
  /\ on' = [on EXCEPT ![c] = None]
  /\ Then(<< >>)
  /\ UNCHANGED <<env, probe, newest, worker, cancelled>>

\* The CancelledError goes through the `finally' and past the publication.
WakeCancelled(c) ==
  /\ IsNext("wake", c)
  /\ c \in cancelled
  /\ ClearInflight(c)
  /\ on' = [on EXCEPT ![c] = None]
  /\ cancelled' = cancelled \ {c}
  /\ Then(<< >>)
  /\ UNCHANGED <<env, cached, ready, probe, newest, worker>>

\* Those who wait, without one who has left.
Left(waiters, c) ==
  IF \E i \in DOMAIN waiters : waiters[i] = c
    THEN RemoveAt(waiters, CHOOSE i \in DOMAIN waiters : waiters[i] = c)
    ELSE waiters

\* A waiting request is cancelled; its shield keeps the probe out of it.
Cancel(c) ==
  /\ on[c] # None /\ c \notin cancelled
  /\ hangups < MaxHangups
  /\ hangups' = hangups + 1
  /\ cancelled' = cancelled \cup {c}
  /\ probe' = [probe EXCEPT ![on[c]].waiters = Left(@, c)]
  /\ loop' = IF H("wake", c) \in Range(loop) THEN loop
                                             ELSE Append(loop, H("wake", c))
  /\ UNCHANGED <<disk, released, cached, inflight, ready, newest, worker, on>>

-----------------------------------------------------------------------------
\* cache_seconds have gone by.
Stale ==
  /\ cached.fresh
  /\ cached' = [cached EXCEPT !.fresh = FALSE]
  /\ UNCHANGED <<env, inflight, ready, loop, probe, newest, worker, on, cancelled>>

DiskChanges ==
  /\ disk' = ~ disk
  /\ UNCHANGED <<cached, inflight, ready, released, loop, probe, newest, worker,
                 on, cancelled, hangups>>

\* The lifespan ends: the pool takes no more jobs, those it has go on.
Release ==
  /\ ~ released
  /\ released' = TRUE
  /\ UNCHANGED <<disk, cached, inflight, ready, loop, probe, newest, worker, on,
                 cancelled, hangups>>

Request(c) == FromCache(c) \/ Join(c) \/ Start(c)

RunHandle ==
  \/ \E c \in Callers : Inner(c) \/ Wake(c) \/ WakeCancelled(c)
  \/ \E p \in Slot : StepTask(p) \/ StepReleased(p) \/ Resume(p)

Next ==
  \/ RunHandle
  \/ \E c \in Callers : Request(c) \/ Cancel(c)
  \/ \E p \in Slot : WorkerStarts(p) \/ WorkerEnds(p)
                       \/ Timeout(p) \/ TimeoutLate(p)
  \/ WorkerEndsLost
  \/ Stale \/ DiskChanges \/ Release

Spec == Init /\ [][Next]_vars

\* The loop runs what it has, timers fire, a verdict ages and the platform
\* keeps asking.  The worker may be stuck in a write for ever.
FairSpec ==
  /\ Spec
  /\ WF_vars(RunHandle)
  /\ \A p \in Slot : WF_vars(Timeout(p))
  /\ WF_vars(Stale)
  /\ \A c \in Readiness : WF_vars(Request(c))

-----------------------------------------------------------------------------
\* A probe whose starter still waits for it is the one new callers join: two
\* run side by side only when the older was abandoned (_probe_storage's
\* single flight, with the `finally' of a late starter in the way).
OwnedIsInflight ==
  \A c \in Callers \ cancelled :
    Owns(c) /\ probe[on[c]].phase # "done" => inflight = on[c]

\* A stale verdict never overwrites a newer one: nobody who still has to publish
\* started before the probe that is published (_probe_storage's docstring).
PublishedInOrder ==
  [][\A c, d \in Callers \ cancelled :
       /\ Owns(c) /\ on'[c] = None
       /\ Owns(d)
       => ~ Before(on[d], on[c])]_vars

\* Every request that waits for a verdict gets one or is cancelled, also when
\* the worker never comes back from the volume (the timeout of _run_probe).
EveryCallerReturns == \A c \in Callers : on[c] # None ~> on[c] = None

\* Once writes fail for good, or the pool is gone for good, the process stops
\* calling itself ready (the cache of _probe_storage is bounded in time, and
\* _run_probe fails closed).
FailureIsNoticed == <>[](~ disk \/ released) => <>[](~ ready)
=============================================================================

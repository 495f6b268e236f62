--------------------------- MODULE StorageProbeProofs --------------------------
(***************************************************************************)
(* For any number of requests, of probes remembered and of hang-ups: the      *)
(* types of the storage probe, its single flight, the order of its verdicts. *)
(***************************************************************************)
EXTENDS StorageProbe, SequenceTheorems, TLAPS

\* No handle is in the loop twice.
Once == \A i, j \in DOMAIN loop : loop[i] = loop[j] => i = j

\* A task is stepped while it is new, and resumed while it is ending.
Tasks ==
  \A p \in Slot, i \in DOMAIN loop :
    /\ loop[i] = H("step", p) => probe[p].phase = "new"
    /\ loop[i] = H("resume", p) => probe[p].phase = "ending"

\* Whoever is told anything waits for a probe, and its shield is told before it is.
Shields ==
  \A c \in Callers, i \in DOMAIN loop :
    /\ loop[i] = H("inner", c) \/ loop[i] = H("wake", c) => on[c] # None
    /\ loop[i] = H("inner", c) =>
         \A j \in DOMAIN loop : loop[j] = H("wake", c) => i < j /\ c \in cancelled

\* A waiter is on the books of its probe once, and has been told nothing yet.
Books ==
  \A p \in Slot :
    /\ \A i, j \in DOMAIN probe[p].waiters :
         probe[p].waiters[i] = probe[p].waiters[j] => i = j
    /\ \A i \in DOMAIN probe[p].waiters :
         /\ on[probe[p].waiters[i]] = p
         /\ \A j \in DOMAIN loop :
              /\ loop[j] # H("inner", probe[p].waiters[i])
              /\ loop[j] # H("wake", probe[p].waiters[i])

TInv == TypeOK /\ Once /\ Tasks /\ Shields /\ Books

-----------------------------------------------------------------------------
(* The loop *)

LEMMA HandleType ==
  /\ \A c \in Callers : H("inner", c) \in Handle /\ H("wake", c) \in Handle
  /\ \A p \in Slot : H("step", p) \in Handle /\ H("resume", p) \in Handle
  BY DEF H, Handle

LEMMA LoopIs ==
  ASSUME TypeOK
  PROVE  loop \in Seq(Handle) /\ Len(loop) \in Nat /\ DOMAIN loop = 1 .. Len(loop)
  BY LenProperties DEF TypeOK

\* A handle at the end of the loop.
LEMMA AppendIs ==
  ASSUME TypeOK, NEW h \in Handle, loop' = Append(loop, h)
  PROVE  /\ loop' \in Seq(Handle) /\ DOMAIN loop' = 1 .. Len(loop) + 1
         /\ \A i \in 1 .. Len(loop) : loop'[i] = loop[i]
         /\ loop'[Len(loop) + 1] = h
<1>1. loop' \in Seq(Handle) /\ Len(loop') = Len(loop) + 1
  BY LoopIs, AppendProperties
<1>2. DOMAIN loop' = 1 .. Len(loop) + 1
  BY <1>1, LenProperties
<1> QED BY <1>1, <1>2, LoopIs, AppendProperties

\* The handle that has run leaves, and those it schedules come at the end.
LEMMA ThenIs ==
  ASSUME TypeOK, loop # << >>, NEW handles \in Seq(Handle), Then(handles)
  PROVE  /\ Len(loop) \in Nat \ {0}
         /\ loop' \in Seq(Handle) /\ DOMAIN loop' = 1 .. Len(loop) - 1 + Len(handles)
         /\ \A i \in 1 .. Len(loop) - 1 : loop'[i] = loop[i + 1]
         /\ \A i \in 1 .. Len(handles) : loop'[Len(loop) - 1 + i] = handles[i]
<1> DEFINE n == Len(loop)
           rest == Tail(loop)
<1>1. n \in Nat \ {0} /\ Len(handles) \in Nat /\ loop' = rest \o handles
  BY LoopIs, EmptySeq, LenProperties DEF Then
<1>2. /\ rest \in Seq(Handle) /\ Len(rest) = n - 1
      /\ \A i \in 1 .. n - 1 : rest[i] = loop[i + 1]
  BY LoopIs, HeadTailProperties
<1> HIDE DEF rest
<1>3. /\ loop' \in Seq(Handle) /\ Len(loop') = n - 1 + Len(handles)
      /\ \A i \in 1 .. n - 1 + Len(handles) :
           loop'[i] = IF i <= n - 1 THEN rest[i] ELSE handles[i - (n - 1)]
  BY <1>1, <1>2, ConcatProperties
<1>4. DOMAIN loop' = 1 .. n - 1 + Len(handles)
  BY <1>3, LenProperties
<1>5. ASSUME NEW i \in 1 .. Len(handles)
      PROVE  loop'[n - 1 + i] = handles[i]
  <2>1. n - 1 + i \in 1 .. n - 1 + Len(handles) /\ ~ (n - 1 + i <= n - 1)
        /\ n - 1 + i - (n - 1) = i
    BY <1>1
  <2> QED BY <1>3, <2>1
<1>6. ASSUME NEW i \in 1 .. n - 1
      PROVE  loop'[i] = loop[i + 1]
  <2>1. i \in 1 .. n - 1 + Len(handles) /\ i <= n - 1
    BY <1>1
  <2> QED BY <1>2, <1>3, <2>1
<1> QED BY <1>1, <1>3, <1>4, <1>5, <1>6

\* The handle that has run leaves, and schedules nothing.
LEMMA TailIs ==
  ASSUME TypeOK, loop # << >>, Then(<< >>)
  PROVE  /\ loop' \in Seq(Handle) /\ 1 \in DOMAIN loop
         /\ \A i \in DOMAIN loop' :
              i \in Nat /\ i + 1 \in DOMAIN loop /\ i + 1 # 1 /\ loop'[i] = loop[i + 1]
<1> DEFINE n == Len(loop)
<1>1. << >> \in Seq(Handle) /\ Len(<< >>) = 0
  OBVIOUS
<1>2. n \in Nat \ {0} /\ DOMAIN loop = 1 .. n
  BY EmptySeq, LoopIs
<1>3. /\ loop' \in Seq(Handle) /\ DOMAIN loop' = 1 .. n - 1 + Len(<< >>)
      /\ \A i \in 1 .. n - 1 : loop'[i] = loop[i + 1]
  BY <1>1, ThenIs
<1>4. DOMAIN loop' = 1 .. n - 1
  BY <1>1, <1>2, <1>3
<1> QED BY <1>2, <1>3, <1>4

\* The handle that runs is the only one of its kind.
LEMMA HeadIs ==
  ASSUME TypeOK, Once, NEW do, NEW who, IsNext(do, who)
  PROVE  /\ loop # << >> /\ 1 \in DOMAIN loop /\ loop[1] = H(do, who)
         /\ \A i \in DOMAIN loop : loop[i] = H(do, who) => i = 1
<1>1. loop # << >> /\ Head(loop) = H(do, who)
  BY DEF IsNext
<1>2. 1 \in DOMAIN loop /\ Head(loop) = loop[1]
  BY <1>1, LoopIs, EmptySeq
<1> QED BY <1>1, <1>2 DEF Once

-----------------------------------------------------------------------------
(* Types *)

LEMMA SlotType == 0 \in Slot /\ Slots - 1 \in Slot /\ \A n \in Nat : n % Slots \in Slot
  BY BoundsAssumption DEF Slot

LEMMA ProbeInit == Init => TInv /\ OwnedIsInflight
<1> SUFFICES ASSUME Init PROVE TInv /\ OwnedIsInflight
  OBVIOUS
<1>1. loop = << >> /\ DOMAIN loop = {} /\ loop \in Seq(Handle)
  BY DEF Init
<1>2. Unused \in Probe /\ DOMAIN Unused.waiters = {}
  <2>1. << >> \in Seq(Callers)
    OBVIOUS
  <2> QED BY <2>1 DEF Unused, Probe
<1>3. TypeOK
  <2>1. probe \in [Slot -> Probe] /\ on \in [Callers -> Slot \cup {None}]
    BY <1>2 DEF Init
  <2>2. cached \in [ok : BOOLEAN, fresh : BOOLEAN] /\ ready \in BOOLEAN /\ disk \in BOOLEAN
    <3>1. disk \in BOOLEAN
      BY DEF Init
    <3>2. PICK ok \in {FALSE, disk} : cached = [ok |-> ok, fresh |-> TRUE] /\ ready = ok
      BY DEF Init
    <3>3. ok \in BOOLEAN
      BY <3>1
    <3> QED BY <3>1, <3>2, <3>3
  <2>3. hangups \in 0 .. MaxHangups /\ newest \in Slot
    BY SlotType, BoundsAssumption DEF Init
  <2> QED BY <1>1, <2>1, <2>2, <2>3 DEF Init, TypeOK
<1>4. Once /\ Tasks /\ Shields
  BY <1>1 DEF Once, Tasks, Shields
<1>5. Books
  BY <1>2 DEF Init, Books
<1>6. OwnedIsInflight
  BY DEF Init, OwnedIsInflight, Owns
<1> QED BY <1>3, <1>4, <1>5, <1>6 DEF TInv

\* Neither the loop nor who waits for what changes.
LEMMA QuietKeeps ==
  ASSUME TInv, TypeOK', loop' = loop, on' = on, cancelled' = cancelled,
         \A p \in Slot :
           /\ probe'[p].waiters = probe[p].waiters
           /\ probe[p].phase \in {"new", "ending"} => probe'[p].phase = probe[p].phase
  PROVE  TInv'
<1>1. Once' /\ Shields'
  BY DEF TInv, Once, Shields
<1>2. Tasks'
  BY DEF TInv, Tasks
<1>3. Books'
  BY DEF TInv, Books
<1> QED BY <1>1, <1>2, <1>3 DEF TInv

\* The pool or the timer has something to tell the task of a probe.
LEMMA SettleKeeps ==
  ASSUME TInv, NEW p \in Slot, NEW verdict \in BOOLEAN, Waiting(p), Settle(p, verdict),
         on' = on, cancelled' = cancelled,
         UNCHANGED <<disk, cached, inflight, ready, released, newest, hangups>>,
         worker' \in {"idle", "busy", "lost"}
  PROVE  TInv'
<1> DEFINE n == Len(loop)
<1>1. TypeOK /\ n \in Nat /\ DOMAIN loop = 1 .. n
  BY LoopIs DEF TInv
<1>2. /\ loop' \in Seq(Handle) /\ DOMAIN loop' = 1 .. n + 1
      /\ \A i \in 1 .. n : loop'[i] = loop[i]
      /\ loop'[n + 1] = H("resume", p)
  <2>1. H("resume", p) \in Handle /\ loop' = Append(loop, H("resume", p))
    BY HandleType DEF Settle
  <2> QED BY <1>1, <2>1, AppendIs
<1>3. probe' = [probe EXCEPT ![p].phase = "ending", ![p].verdict = verdict]
  BY DEF Settle
<1>4. /\ probe' \in [Slot -> Probe] /\ probe'[p].phase = "ending"
      /\ \A q \in Slot : probe'[q].waiters = probe[q].waiters
      /\ \A q \in Slot \ {p} : probe'[q].phase = probe[q].phase
  <2>1. probe \in [Slot -> Probe] /\ probe[p] \in Probe
    BY <1>1 DEF TypeOK
  <2> DEFINE told == [probe[p] EXCEPT !.phase = "ending", !.verdict = verdict]
  <2>2. told \in Probe /\ told.phase = "ending" /\ told.waiters = probe[p].waiters
    BY <2>1 DEF Probe
  <2>3. probe' = [probe EXCEPT ![p] = told]
    BY <1>3, <2>1 DEF Probe
  <2> HIDE DEF told
  <2> QED BY <2>1, <2>2, <2>3
<1>5. TypeOK'
  BY <1>1, <1>2, <1>4 DEF TypeOK
<1>6. \A i \in 1 .. n : loop[i] # H("step", p) /\ loop[i] # H("resume", p)
  BY <1>1 DEF TInv, Tasks, Waiting
<1>7. Once'
  BY <1>1, <1>2, <1>6 DEF TInv, Once
<1>8. Tasks'
  <2>1. \A q \in Slot : H("resume", p) # H("step", q) /\ (H("resume", p) = H("resume", q) => p = q)
    BY DEF H
  <2> QED BY <1>1, <1>2, <1>4, <1>6, <2>1 DEF TInv, Tasks
<1>9. Shields' /\ Books'
  <2>1. \A c \in Callers : H("resume", p) # H("inner", c) /\ H("resume", p) # H("wake", c)
    BY DEF H
  <2>2. Shields'
    BY <1>1, <1>2, <2>1 DEF TInv, Shields
  <2>3. \A q \in Slot : \A i \in DOMAIN probe[q].waiters : probe[q].waiters[i] \in Callers
    BY <1>1, ElementOfSeq, LenProperties DEF TypeOK, Probe
  <2>4. Books'
    BY <1>1, <1>2, <1>4, <2>1, <2>3 DEF TInv, Books
  <2> QED BY <2>2, <2>4
<1> QED BY <1>5, <1>7, <1>8, <1>9 DEF TInv

\* The waiters of a probe are callers.
LEMMA WaitersAre ==
  ASSUME TypeOK, NEW p \in Slot
  PROVE  /\ probe[p].waiters \in Seq(Callers)
         /\ Len(probe[p].waiters) \in Nat
         /\ DOMAIN probe[p].waiters = 1 .. Len(probe[p].waiters)
         /\ \A i \in DOMAIN probe[p].waiters : probe[p].waiters[i] \in Callers
<1>1. probe[p].waiters \in Seq(Callers)
  BY DEF TypeOK, Probe
<1> QED BY <1>1, LenProperties, ElementOfSeq

LEMMA JoinKeeps ==
  ASSUME TInv, NEW c \in Callers, Join(c)
  PROVE  TInv'
<1> DEFINE p == inflight
           more == Append(probe[p].waiters, c)
<1>1. TypeOK /\ on[c] = None /\ p \in Slot
  BY DEF TInv, TypeOK, Join, InFlight
<1>2. /\ on' = [on EXCEPT ![c] = p]
      /\ probe' = [probe EXCEPT ![p].waiters = more]
      /\ UNCHANGED <<env, cached, inflight, ready, loop, newest, worker, cancelled>>
  BY DEF Join
<1>3. /\ more \in Seq(Callers) /\ DOMAIN more = 1 .. Len(probe[p].waiters) + 1
      /\ \A i \in 1 .. Len(probe[p].waiters) : more[i] = probe[p].waiters[i]
      /\ more[Len(probe[p].waiters) + 1] = c
  BY <1>1, WaitersAre, AppendProperties, LenProperties
<1> HIDE DEF more
<1>4. /\ probe' \in [Slot -> Probe] /\ probe'[p].waiters = more
      /\ \A q \in Slot : probe'[q].phase = probe[q].phase
      /\ \A q \in Slot \ {p} : probe'[q].waiters = probe[q].waiters
  <2>1. probe \in [Slot -> Probe]
    BY <1>1 DEF TypeOK
  <2>2. [probe[p] EXCEPT !.waiters = more] \in Probe
    <3>1. probe[p] \in Probe /\ more \in Seq(Callers)
      BY <1>1, <1>3, <2>1
    <3> QED BY <3>1 DEF Probe
  <2> QED BY <1>1, <1>2, <2>1, <2>2 DEF Probe
<1>5. /\ on' \in [Callers -> Slot \cup {None}] /\ on'[c] = p
      /\ \A d \in Callers \ {c} : on'[d] = on[d]
  BY <1>1, <1>2 DEF TypeOK
<1>6. p # None
  BY <1>1, NoneAssumption DEF Slot
<1>7. TypeOK'
  BY <1>1, <1>2, <1>4, <1>5, <1>6 DEF TypeOK, env
<1>8. Once' /\ Tasks'
  BY <1>2, <1>4 DEF TInv, Once, Tasks
<1>9. Shields'
  BY <1>1, <1>2, <1>5 DEF TInv, Shields
<1>10. \A q \in Slot : \A i \in DOMAIN probe[q].waiters : probe[q].waiters[i] # c
  BY <1>1, NoneAssumption DEF TInv, Books, Slot
<1>11. Books'
  <2>1. ASSUME NEW q \in Slot, q # p
        PROVE  /\ \A i, j \in DOMAIN probe'[q].waiters :
                    probe'[q].waiters[i] = probe'[q].waiters[j] => i = j
               /\ \A i \in DOMAIN probe'[q].waiters :
                    /\ on'[probe'[q].waiters[i]] = q
                    /\ \A j \in DOMAIN loop' :
                         /\ loop'[j] # H("inner", probe'[q].waiters[i])
                         /\ loop'[j] # H("wake", probe'[q].waiters[i])
    BY <1>1, <1>2, <1>4, <1>5, <1>10, <2>1, WaitersAre DEF TInv, Books
  <2>2. \A i, j \in DOMAIN more : more[i] = more[j] => i = j
    <3>1. /\ Len(probe[p].waiters) \in Nat
          /\ DOMAIN probe[p].waiters = 1 .. Len(probe[p].waiters)
      BY <1>1, WaitersAre
    <3>2. \A i \in DOMAIN more : i = Len(probe[p].waiters) + 1 \/ i \in DOMAIN probe[p].waiters
      BY <1>3, <3>1
    <3>3. \A i, j \in DOMAIN probe[p].waiters : more[i] = more[j] => i = j
      BY <1>1, <1>3, <3>1 DEF TInv, Books
    <3>4. \A i \in DOMAIN probe[p].waiters : more[i] # more[Len(probe[p].waiters) + 1]
      BY <1>1, <1>3, <1>10, <3>1
    <3> QED BY <3>2, <3>3, <3>4
  <2>3. ASSUME NEW i \in DOMAIN more
        PROVE  /\ on'[more[i]] = p
               /\ \A j \in DOMAIN loop : loop[j] # H("inner", more[i]) /\ loop[j] # H("wake", more[i])
    <3>1. CASE more[i] = c
      BY <1>1, <1>5, <3>1 DEF TInv, Shields
    <3>2. CASE more[i] # c
      <4>1. i \in DOMAIN probe[p].waiters /\ more[i] = probe[p].waiters[i] /\ more[i] \in Callers
        BY <1>1, <1>3, <2>3, <3>2, WaitersAre
      <4> QED BY <1>1, <1>5, <3>2, <4>1 DEF TInv, Books
    <3> QED BY <3>1, <3>2
  <2> QED BY <1>2, <1>4, <2>1, <2>2, <2>3 DEF Books
<1> QED BY <1>7, <1>8, <1>9, <1>11 DEF TInv

LEMMA StartKeeps ==
  ASSUME TInv, NEW c \in Callers, Start(c)
  PROVE  TInv'
<1> DEFINE p == (newest + 1) % Slots
           n == Len(loop)
<1>1. TypeOK /\ on[c] = None /\ n \in Nat /\ DOMAIN loop = 1 .. n
  BY LoopIs DEF TInv, Start
<1>2. p \in Slot
  <2>1. newest + 1 \in Nat
    BY <1>1 DEF TypeOK, Slot
  <2> QED BY <2>1, SlotType
<1>3. /\ probe[p].phase = "done" /\ inflight' = p /\ newest' = p
      /\ on' = [on EXCEPT ![c] = p]
      /\ probe' = [probe EXCEPT ![p] = Started(c)]
      /\ loop' = Append(loop, H("step", p))
      /\ UNCHANGED <<env, cached, ready, worker, cancelled>>
      /\ \A d \in Callers : on[d] # p
  BY DEF Start
<1> HIDE DEF p
<1>4. /\ loop' \in Seq(Handle) /\ DOMAIN loop' = 1 .. n + 1
      /\ \A i \in 1 .. n : loop'[i] = loop[i]
      /\ loop'[n + 1] = H("step", p)
  BY <1>1, <1>2, <1>3, HandleType, AppendIs
<1>5. /\ Started(c) \in Probe /\ Started(c).phase = "new"
      /\ Started(c).waiters = <<c>> /\ DOMAIN <<c>> = {1} /\ <<c>>[1] = c
  <2>1. <<c>> \in Seq(Callers)
    OBVIOUS
  <2> QED BY <2>1 DEF Started, Probe
<1>6. /\ probe' \in [Slot -> Probe] /\ probe'[p] = Started(c)
      /\ \A q \in Slot \ {p} : probe'[q] = probe[q]
  BY <1>1, <1>2, <1>3, <1>5 DEF TypeOK
<1>7. /\ on' \in [Callers -> Slot \cup {None}] /\ on'[c] = p /\ p # None
      /\ \A d \in Callers \ {c} : on'[d] = on[d]
  BY <1>1, <1>2, <1>3, NoneAssumption DEF TypeOK, Slot
<1>8. TypeOK'
  BY <1>1, <1>2, <1>3, <1>4, <1>6, <1>7 DEF TypeOK, env
<1>9. \A i \in 1 .. n : loop[i] # H("step", p) /\ loop[i] # H("resume", p)
  BY <1>1, <1>2, <1>3 DEF TInv, Tasks
<1>10. Once'
  BY <1>1, <1>4, <1>9 DEF TInv, Once
<1>11. Tasks'
  <2>1. \A q \in Slot : H("step", p) # H("resume", q) /\ (H("step", p) = H("step", q) => p = q)
    BY DEF H
  <2> QED BY <1>1, <1>2, <1>4, <1>5, <1>6, <1>9, <2>1 DEF TInv, Tasks
<1>12. \A d \in Callers : H("step", p) # H("inner", d) /\ H("step", p) # H("wake", d)
  BY DEF H
<1>13. Shields'
  BY <1>1, <1>3, <1>4, <1>7, <1>12 DEF TInv, Shields
<1>14. Books'
  <2>1. ASSUME NEW q \in Slot, q # p
        PROVE  /\ \A i, j \in DOMAIN probe'[q].waiters :
                    probe'[q].waiters[i] = probe'[q].waiters[j] => i = j
               /\ \A i \in DOMAIN probe'[q].waiters :
                    /\ on'[probe'[q].waiters[i]] = q
                    /\ \A j \in DOMAIN loop' :
                         /\ loop'[j] # H("inner", probe'[q].waiters[i])
                         /\ loop'[j] # H("wake", probe'[q].waiters[i])
    <3>1. probe'[q] = probe[q]
      BY <1>6, <2>1
    <3>2. \A i \in DOMAIN probe[q].waiters :
            probe[q].waiters[i] \in Callers /\ probe[q].waiters[i] # c
      BY <1>1, NoneAssumption, WaitersAre DEF TInv, Books, Slot
    <3> QED BY <1>1, <1>4, <1>7, <1>12, <3>1, <3>2 DEF TInv, Books
  <2>2. \A j \in DOMAIN loop' : loop'[j] # H("inner", c) /\ loop'[j] # H("wake", c)
    BY <1>1, <1>4, <1>12 DEF TInv, Shields
  <2> QED BY <1>5, <1>6, <1>7, <2>1, <2>2 DEF Books
<1> QED BY <1>8, <1>10, <1>11, <1>13, <1>14 DEF TInv

\* What is left of the loop is still in order.
LEMMA TailOnce ==
  ASSUME Once, \A i \in DOMAIN loop' :
                 i \in Nat /\ i + 1 \in DOMAIN loop /\ loop'[i] = loop[i + 1]
  PROVE  Once'
<1>1. ASSUME NEW i \in DOMAIN loop', NEW j \in DOMAIN loop', loop'[i] = loop'[j]
      PROVE  i = j
  <2>1. i + 1 = j + 1 /\ i \in Nat /\ j \in Nat
    BY <1>1 DEF Once
  <2> QED BY <2>1
<1> QED BY <1>1 DEF Once

LEMMA TailShields ==
  ASSUME Shields, on' = on, cancelled' = cancelled,
         \A i \in DOMAIN loop' :
           i \in Nat /\ i + 1 \in DOMAIN loop /\ loop'[i] = loop[i + 1]
  PROVE  Shields'
<1>1. ASSUME NEW c \in Callers, NEW i \in DOMAIN loop',
             loop'[i] = H("inner", c) \/ loop'[i] = H("wake", c)
      PROVE  on'[c] # None
  BY <1>1 DEF Shields
<1>2. ASSUME NEW c \in Callers, NEW i \in DOMAIN loop', NEW j \in DOMAIN loop',
             loop'[i] = H("inner", c), loop'[j] = H("wake", c)
      PROVE  i < j /\ c \in cancelled'
  <2>1. i + 1 < j + 1 /\ c \in cancelled /\ i \in Nat /\ j \in Nat
    BY <1>2 DEF Shields
  <2> QED BY <2>1
<1> QED BY <1>1, <1>2 DEF Shields

\* A handle runs that schedules nothing and changes no caller's wait.
LEMMA StepTaskKeeps ==
  ASSUME TInv, NEW p \in Slot, StepTask(p)
  PROVE  TInv'
<1>1. /\ TypeOK /\ loop # << >> /\ loop[1] = H("step", p)
      /\ \A i \in DOMAIN loop : loop[i] = H("step", p) => i = 1
  BY HeadIs DEF StepTask, TInv
<1>2. /\ probe' = [probe EXCEPT ![p].phase = "queued"]
      /\ UNCHANGED <<env, cached, inflight, ready, newest, worker, on, cancelled>>
      /\ Then(<< >>)
  BY DEF StepTask
<1>3. /\ loop' \in Seq(Handle) /\ 1 \in DOMAIN loop
      /\ \A i \in DOMAIN loop' :
           i \in Nat /\ i + 1 \in DOMAIN loop /\ i + 1 # 1 /\ loop'[i] = loop[i + 1]
  BY <1>1, <1>2, TailIs
<1>4. /\ probe' \in [Slot -> Probe]
      /\ \A q \in Slot : probe'[q].waiters = probe[q].waiters
      /\ \A q \in Slot \ {p} : probe'[q].phase = probe[q].phase
  BY <1>1, <1>2 DEF TypeOK, Probe
<1>5. TypeOK'
  BY <1>1, <1>2, <1>3, <1>4 DEF TypeOK, env
<1>6. Once'
  BY <1>3, TailOnce DEF TInv
<1>7. Tasks'
  <2>1. probe[p].phase = "new"
    BY <1>1, <1>3 DEF TInv, Tasks
  <2>2. ASSUME NEW q \in Slot, NEW i \in DOMAIN loop'
        PROVE  /\ loop'[i] = H("step", q) => probe'[q].phase = "new"
               /\ loop'[i] = H("resume", q) => probe'[q].phase = "ending"
    <3>1. CASE q = p
      BY <1>1, <1>3, <2>1, <3>1 DEF TInv, Tasks
    <3>2. CASE q # p
      BY <1>3, <1>4, <3>2 DEF TInv, Tasks
    <3> QED BY <3>1, <3>2
  <2> QED BY <2>2 DEF Tasks
<1>8. Shields'
  BY <1>2, <1>3, TailShields DEF TInv
<1>9. Books'
  <2>1. \A q \in Slot : \A i \in DOMAIN probe[q].waiters : \A j \in DOMAIN loop' :
          /\ loop'[j] # H("inner", probe[q].waiters[i])
          /\ loop'[j] # H("wake", probe[q].waiters[i])
    BY <1>3 DEF TInv, Books
  <2> QED BY <1>2, <1>4, <2>1 DEF TInv, Books
<1> QED BY <1>5, <1>6, <1>7, <1>8, <1>9 DEF TInv

\* A task ends: what the loop and the probe are then.
LEMMA EndsIs ==
  ASSUME TInv, NEW p \in Slot, NEW verdict \in BOOLEAN, Ends(p, verdict),
         IsNext("step", p) \/ IsNext("resume", p)
  PROVE  LET n == Len(loop)
             waiters == probe[p].waiters
             k == Len(waiters)
         IN
         /\ n \in Nat \ {0} /\ DOMAIN loop = 1 .. n
         /\ loop[1] \in {H("step", p), H("resume", p)}
         /\ k \in Nat /\ DOMAIN waiters = 1 .. k /\ \A i \in 1 .. k : waiters[i] \in Callers
         /\ loop' \in Seq(Handle) /\ DOMAIN loop' = 1 .. n - 1 + k
         /\ \A i \in 1 .. n - 1 : loop'[i] = loop[i + 1]
         /\ \A i \in 1 .. k : loop'[n - 1 + i] = H("inner", waiters[i])
         /\ probe' \in [Slot -> Probe] /\ probe'[p].phase = "done"
         /\ probe'[p].waiters = << >> /\ probe'[p].owner = probe[p].owner
         /\ \A q \in Slot \ {p} : probe'[q] = probe[q]
         /\ \A i \in DOMAIN loop' :
              \/ i \in 1 .. n - 1 /\ i + 1 \in 2 .. n /\ loop'[i] = loop[i + 1]
              \/ /\ i - (n - 1) \in 1 .. k
                 /\ loop'[i] = H("inner", waiters[i - (n - 1)])
<1> DEFINE n == Len(loop)
           waiters == probe[p].waiters
           told == [i \in DOMAIN waiters |-> H("inner", waiters[i])]
           k == Len(waiters)
<1>1. TypeOK /\ Once /\ DOMAIN loop = 1 .. n
  BY LoopIs DEF TInv
<1>2. /\ loop # << >> /\ n \in Nat \ {0} /\ loop[1] \in {H("step", p), H("resume", p)}
  BY <1>1, HeadIs, EmptySeq, LoopIs
<1>3. /\ k \in Nat /\ DOMAIN waiters = 1 .. k
      /\ \A i \in 1 .. k : waiters[i] \in Callers
  BY <1>1, WaitersAre
<1>4. told \in Seq(Handle) /\ Len(told) = k /\ \A i \in 1 .. k : told[i] = H("inner", waiters[i])
  <2>1. told \in [1 .. k -> Handle] /\ DOMAIN told = 1 .. k
    BY <1>3, HandleType
  <2>2. told \in Seq(Handle)
    BY <1>3, <2>1, SeqDef
  <2>3. Len(told) \in Nat /\ 1 .. Len(told) = 1 .. k
    BY <2>1, <2>2, LenProperties
  <2>4. Len(told) = k
    BY <1>3, <2>3
  <2> QED BY <1>3, <2>2, <2>4
<1>5. Then(told) /\ probe' = [probe EXCEPT ![p].phase = "done", ![p].verdict = verdict,
                                           ![p].waiters = << >>]
  BY DEF Ends
<1> HIDE DEF told
<1>6. /\ loop' \in Seq(Handle) /\ DOMAIN loop' = 1 .. n - 1 + k
      /\ \A i \in 1 .. n - 1 : loop'[i] = loop[i + 1]
      /\ \A i \in 1 .. k : loop'[n - 1 + i] = H("inner", waiters[i])
  BY <1>1, <1>2, <1>4, <1>5, ThenIs
<1>7. /\ probe' \in [Slot -> Probe] /\ probe'[p].phase = "done" /\ probe'[p].waiters = << >>
      /\ probe'[p].owner = probe[p].owner
      /\ \A q \in Slot \ {p} : probe'[q] = probe[q]
  <2>1. probe \in [Slot -> Probe] /\ << >> \in Seq(Callers) /\ DOMAIN << >> = {}
    BY <1>1 DEF TypeOK
  <2> QED BY <1>5, <2>1 DEF Probe
\* Every place of the loop now: one it had before, or one of those told.
<1>8. \A i \in DOMAIN loop' :
         \/ i \in 1 .. n - 1 /\ i + 1 \in 2 .. n /\ loop'[i] = loop[i + 1]
         \/ /\ i - (n - 1) \in 1 .. k
            /\ loop'[i] = H("inner", waiters[i - (n - 1)])
  <2>1. ASSUME NEW i \in DOMAIN loop', ~ (i \in 1 .. n - 1)
        PROVE  /\ i - (n - 1) \in 1 .. k
               /\ loop'[i] = H("inner", waiters[i - (n - 1)])
    <3>1. i - (n - 1) \in 1 .. k /\ n - 1 + (i - (n - 1)) = i
      BY <1>2, <1>3, <1>6, <2>1
    <3> QED BY <1>6, <3>1
  <2> QED BY <1>2, <1>6, <2>1
<1> QED BY <1>1, <1>2, <1>3, <1>6, <1>7, <1>8

\* A task that ends tells its waiters' shields.
LEMMA EndsKeeps ==
  ASSUME TInv, NEW p \in Slot, NEW verdict \in BOOLEAN, Ends(p, verdict),
         IsNext("step", p) \/ IsNext("resume", p),
         UNCHANGED <<env, cached, inflight, ready, newest, worker, on, cancelled>>
  PROVE  TInv'
<1> DEFINE n == Len(loop)
           waiters == probe[p].waiters
           k == Len(waiters)
<1>1. TypeOK /\ Once /\ DOMAIN loop = 1 .. n
  BY LoopIs DEF TInv
<1>2. n \in Nat \ {0} /\ loop[1] \in {H("step", p), H("resume", p)}
  BY EndsIs
<1>3. \A i \in 2 .. n : loop[i] # H("step", p) /\ loop[i] # H("resume", p)
  BY <1>1, <1>2 DEF TInv, Once, Tasks
<1>4. /\ k \in Nat /\ DOMAIN waiters = 1 .. k
      /\ \A i \in 1 .. k : waiters[i] \in Callers
  BY <1>1, WaitersAre
<1>7. /\ loop' \in Seq(Handle) /\ DOMAIN loop' = 1 .. n - 1 + k
      /\ \A i \in 1 .. n - 1 : loop'[i] = loop[i + 1]
      /\ \A i \in 1 .. k : loop'[n - 1 + i] = H("inner", waiters[i])
  BY EndsIs
<1>8. /\ probe' \in [Slot -> Probe] /\ probe'[p].phase = "done" /\ DOMAIN probe'[p].waiters = {}
      /\ \A q \in Slot \ {p} : probe'[q] = probe[q]
  BY EndsIs
<1>9. TypeOK'
  BY <1>1, <1>7, <1>8 DEF TypeOK, env
\* Every place of the loop now: one it had before, or one of those told.
<1>10. \A i \in DOMAIN loop' :
         \/ i \in 1 .. n - 1 /\ i + 1 \in 2 .. n /\ loop'[i] = loop[i + 1]
         \/ /\ i - (n - 1) \in 1 .. k
            /\ loop'[i] = H("inner", waiters[i - (n - 1)])
  BY EndsIs
<1>11. Once'
  <2>1. \A i, j \in 1 .. k : H("inner", waiters[i]) = H("inner", waiters[j]) => i = j
    BY <1>4 DEF H, TInv, Books
  <2>2. \A i \in 1 .. k, j \in 1 .. n : loop[j] # H("inner", waiters[i])
    BY <1>1, <1>4 DEF TInv, Books
  <2>3. \A i, j \in 2 .. n : loop[i] = loop[j] => i = j
    BY <1>1 DEF Once
  <2>4. ASSUME NEW i \in DOMAIN loop', NEW j \in DOMAIN loop', loop'[i] = loop'[j]
        PROVE  i = j
    <3>1. CASE i \in 1 .. n - 1 /\ j \in 1 .. n - 1
      <4>1. loop[i + 1] = loop[j + 1] /\ i + 1 \in 2 .. n /\ j + 1 \in 2 .. n
        BY <1>2, <1>7, <2>4, <3>1
      <4>2. i + 1 = j + 1
        BY <2>3, <4>1
      <4> QED BY <3>1, <4>2
    <3>2. CASE ~ (i \in 1 .. n - 1) /\ ~ (j \in 1 .. n - 1)
      <4>1. i - (n - 1) = j - (n - 1)
        BY <1>10, <2>1, <2>4, <3>2
      <4> QED BY <1>2, <1>7, <4>1
    <3>3. CASE i \in 1 .. n - 1 /\ ~ (j \in 1 .. n - 1)
      <4>1. loop'[i] = loop[i + 1] /\ i + 1 \in 1 .. n
        BY <1>2, <1>7, <3>3
      <4>2. \E m \in 1 .. k : loop'[j] = H("inner", waiters[m])
        BY <1>10, <3>3
      <4> QED BY <2>2, <2>4, <4>1, <4>2
    <3>4. CASE ~ (i \in 1 .. n - 1) /\ j \in 1 .. n - 1
      <4>1. loop'[j] = loop[j + 1] /\ j + 1 \in 1 .. n
        BY <1>2, <1>7, <3>4
      <4>2. \E m \in 1 .. k : loop'[i] = H("inner", waiters[m])
        BY <1>10, <3>4
      <4> QED BY <2>2, <2>4, <4>1, <4>2
    <3> QED BY <3>1, <3>2, <3>3, <3>4
  <2> QED BY <2>4 DEF Once
<1>12. Tasks'
  <2>1. \A q \in Slot, c \in Callers : H("inner", c) # H("step", q) /\ H("inner", c) # H("resume", q)
    BY DEF H
  <2>2. ASSUME NEW q \in Slot, NEW i \in DOMAIN loop'
        PROVE  /\ loop'[i] = H("step", q) => probe'[q].phase = "new"
               /\ loop'[i] = H("resume", q) => probe'[q].phase = "ending"
    BY <1>1, <1>3, <1>4, <1>8, <1>10, <2>1 DEF TInv, Tasks
  <2> QED BY <2>2 DEF Tasks
<1>13. Shields'
  <2>1. \A c, d \in Callers : H("inner", c) # H("wake", d) /\ (H("inner", c) = H("inner", d) => c = d)
    BY DEF H
  <2>2. \A c \in Callers : loop[1] # H("inner", c) /\ loop[1] # H("wake", c)
    BY <1>2 DEF H
  <2>3. ASSUME NEW c \in Callers, NEW i \in DOMAIN loop',
               loop'[i] = H("inner", c) \/ loop'[i] = H("wake", c)
        PROVE  on[c] # None
    <3>1. CASE i \in 1 .. n - 1
      <4>1. i + 1 \in DOMAIN loop /\ (loop[i + 1] = H("inner", c) \/ loop[i + 1] = H("wake", c))
        BY <1>1, <1>2, <1>7, <2>3, <3>1
      <4> QED BY <4>1 DEF TInv, Shields
    <3>2. CASE ~ (i \in 1 .. n - 1)
      <4>1. PICK j \in 1 .. k : c = waiters[j]
        BY <1>4, <1>10, <2>1, <2>3, <3>2
      <4>2. on[c] = p
        BY <1>4, <4>1 DEF TInv, Books
      <4> QED BY <4>2, NoneAssumption DEF Slot
    <3> QED BY <3>1, <3>2
  <2>4. ASSUME NEW c \in Callers, NEW i \in DOMAIN loop', NEW j \in DOMAIN loop',
               loop'[i] = H("inner", c), loop'[j] = H("wake", c)
        PROVE  i < j /\ c \in cancelled
    <3>1. j \in 1 .. n - 1 /\ loop[j + 1] = H("wake", c) /\ j + 1 \in 1 .. n
      BY <1>2, <1>4, <1>10, <2>1, <2>4
    <3>2. \A m \in 1 .. k : waiters[m] # c
      BY <1>1, <1>4, <3>1 DEF TInv, Books
    <3>3. i \in 1 .. n - 1 /\ loop[i + 1] = H("inner", c) /\ i + 1 \in 1 .. n
      BY <1>2, <1>4, <1>10, <2>1, <2>4, <3>2
    <3>4. i + 1 < j + 1 /\ c \in cancelled
      BY <1>1, <3>1, <3>3 DEF TInv, Shields
    <3> QED BY <3>1, <3>3, <3>4
  <2> QED BY <2>3, <2>4 DEF Shields
<1>14. Books'
  <2>1. ASSUME NEW q \in Slot, q # p, NEW i \in DOMAIN probe[q].waiters
        PROVE  /\ on[probe[q].waiters[i]] = q
               /\ \A j \in DOMAIN loop' :
                    /\ loop'[j] # H("inner", probe[q].waiters[i])
                    /\ loop'[j] # H("wake", probe[q].waiters[i])
    <3> DEFINE d == probe[q].waiters[i]
    <3>1. d \in Callers /\ on[d] = q
      BY <1>1, <2>1, WaitersAre DEF TInv, Books
    <3>2. \A m \in 1 .. k : waiters[m] # d
      BY <1>4, <2>1, <3>1 DEF TInv, Books
    <3>3. \A j \in 1 .. n : loop[j] # H("inner", d) /\ loop[j] # H("wake", d)
      BY <1>1, <2>1 DEF TInv, Books
    <3> HIDE DEF d
    <3>4. \A m \in 1 .. k : H("inner", waiters[m]) # H("inner", d) /\ H("inner", waiters[m]) # H("wake", d)
      BY <3>2 DEF H
    <3>5. \A j \in DOMAIN loop' : loop'[j] # H("inner", d) /\ loop'[j] # H("wake", d)
      BY <1>2, <1>10, <3>3, <3>4
    <3> QED BY <3>1, <3>5 DEF d
  <2>2. \A q \in Slot \ {p} : \A i, j \in DOMAIN probe[q].waiters :
          probe[q].waiters[i] = probe[q].waiters[j] => i = j
    BY DEF TInv, Books
  <2> QED BY <1>8, <2>1, <2>2 DEF Books
<1> QED BY <1>9, <1>11, <1>12, <1>13, <1>14 DEF TInv

\* A handle of a caller runs: the probes and their tasks are left alone.
LEMMA TailTasks ==
  ASSUME Tasks, probe' = probe,
         \A i \in DOMAIN loop' :
           i \in Nat /\ i + 1 \in DOMAIN loop /\ loop'[i] = loop[i + 1]
  PROVE  Tasks'
  BY DEF Tasks

\* The last place of so many, or one before it.
LEMMA Places ==
  ASSUME NEW n \in Nat \ {0}
  PROVE  \A i \in 1 .. n : i = n \/ (i \in 1 .. n - 1 /\ i + 1 \in 1 .. n /\ i + 1 # 1)
  OBVIOUS

LEMMA InnerKeeps ==
  ASSUME TInv, NEW c \in Callers, Inner(c)
  PROVE  TInv'
<1> DEFINE n == Len(loop)
<1>1. /\ TypeOK /\ loop # << >> /\ 1 \in DOMAIN loop /\ loop[1] = H("inner", c)
      /\ \A i \in DOMAIN loop : loop[i] = H("inner", c) => i = 1
  BY HeadIs DEF Inner, TInv
<1>2. UNCHANGED <<env, cached, inflight, ready, probe, newest, worker, on, cancelled>>
  BY DEF Inner
<1>3. \A p \in Slot : \A i \in DOMAIN probe[p].waiters : probe[p].waiters[i] # c
  BY <1>1 DEF TInv, Books
<1>4. CASE c \in cancelled
  <2>1. /\ loop' \in Seq(Handle)
        /\ \A i \in DOMAIN loop' :
             i \in Nat /\ i + 1 \in DOMAIN loop /\ i + 1 # 1 /\ loop'[i] = loop[i + 1]
    BY <1>1, <1>4, TailIs DEF Inner
  <2>2. TypeOK'
    BY <1>1, <1>2, <2>1 DEF TypeOK, env
  <2>3. Once' /\ Shields' /\ Tasks'
    BY <1>2, <2>1, TailOnce, TailShields, TailTasks DEF TInv
  <2>4. Books'
    BY <1>2, <2>1 DEF TInv, Books
  <2> QED BY <2>2, <2>3, <2>4 DEF TInv
<1>5. CASE c \notin cancelled
  <2> DEFINE handles == <<H("wake", c)>>
  <2>1. n \in Nat \ {0} /\ DOMAIN loop = 1 .. n
    BY <1>1, LoopIs, EmptySeq
  <2>2. handles \in Seq(Handle) /\ Len(handles) = 1 /\ handles[1] = H("wake", c)
    BY HandleType
  <2>3. Then(handles)
    BY <1>5 DEF Inner
  <2> HIDE DEF handles
  <2>4. /\ loop' \in Seq(Handle) /\ DOMAIN loop' = 1 .. n
        /\ \A i \in 1 .. n - 1 : loop'[i] = loop[i + 1]
        /\ loop'[n] = H("wake", c)
    <3>1. /\ loop' \in Seq(Handle) /\ DOMAIN loop' = 1 .. n - 1 + Len(handles)
          /\ \A i \in 1 .. n - 1 : loop'[i] = loop[i + 1]
          /\ \A i \in 1 .. Len(handles) : loop'[n - 1 + i] = handles[i]
      BY <1>1, <2>2, <2>3, ThenIs
    <3>2. loop'[n - 1 + 1] = handles[1]
      BY <2>2, <3>1
    <3>3. n - 1 + 1 = n
      BY <2>1
    <3> QED BY <2>2, <3>1, <3>2, <3>3
  <2>5. \A i \in DOMAIN loop' :
          i = n \/ (i \in 1 .. n - 1 /\ i + 1 \in 1 .. n /\ i + 1 # 1 /\ loop'[i] = loop[i + 1])
    <3>1. \A i \in 1 .. n : i = n \/ (i \in 1 .. n - 1 /\ i + 1 \in 1 .. n /\ i + 1 # 1)
      BY <2>1, Places
    <3> QED BY <2>4, <3>1
  <2>6. \A i \in 1 .. n : loop[i] # H("wake", c)
    BY <1>1, <1>5, <2>1 DEF TInv, Shields
  <2>7. TypeOK'
    BY <1>1, <1>2, <2>4 DEF TypeOK, env
  <2>8. Once'
    <3>1. ASSUME NEW i \in DOMAIN loop', NEW j \in DOMAIN loop', loop'[i] = loop'[j]
          PROVE  i = j
      <4>1. CASE i \in 1 .. n - 1 /\ j \in 1 .. n - 1
        <5>1. i + 1 = j + 1
          BY <2>1, <2>4, <2>5, <3>1, <4>1 DEF TInv, Once
        <5> QED BY <4>1, <5>1
      <4>2. CASE i = n \/ j = n
        BY <2>4, <2>5, <2>6, <3>1, <4>2
      <4> QED BY <2>5, <4>1, <4>2
    <3> QED BY <3>1 DEF Once
  <2>9. Tasks'
    <3>1. \A p \in Slot : H("wake", c) # H("step", p) /\ H("wake", c) # H("resume", p)
      BY DEF H
    <3>2. ASSUME NEW p \in Slot, NEW i \in DOMAIN loop'
          PROVE  /\ loop'[i] = H("step", p) => probe[p].phase = "new"
                 /\ loop'[i] = H("resume", p) => probe[p].phase = "ending"
      BY <2>1, <2>4, <2>5, <3>1 DEF TInv, Tasks
    <3> QED BY <1>2, <3>2 DEF Tasks
  <2>10. Shields'
    <3>1. \A d \in Callers : H("wake", c) # H("inner", d) /\ (H("wake", c) = H("wake", d) => c = d)
      BY DEF H
    <3>2. on[c] # None
      BY <1>1 DEF TInv, Shields
    <3>3. ASSUME NEW d \in Callers, NEW i \in DOMAIN loop',
                 loop'[i] = H("inner", d) \/ loop'[i] = H("wake", d)
          PROVE  on[d] # None
      BY <2>1, <2>4, <2>5, <3>1, <3>2, <3>3 DEF TInv, Shields
    <3>4. ASSUME NEW d \in Callers, NEW i \in DOMAIN loop', NEW j \in DOMAIN loop',
                 loop'[i] = H("inner", d), loop'[j] = H("wake", d)
          PROVE  i < j /\ d \in cancelled
      <4>1. i \in 1 .. n - 1 /\ i + 1 \in 1 .. n /\ i + 1 # 1 /\ loop[i + 1] = H("inner", d)
        BY <2>4, <2>5, <3>1, <3>4
      <4>2. d # c
        BY <1>1, <2>1, <4>1
      <4>3. j \in 1 .. n - 1 /\ j + 1 \in 1 .. n /\ loop[j + 1] = H("wake", d)
        BY <2>4, <2>5, <3>1, <3>4, <4>2
      <4>4. i + 1 < j + 1 /\ d \in cancelled
        BY <2>1, <4>1, <4>3 DEF TInv, Shields
      <4> QED BY <4>1, <4>3, <4>4
    <3> QED BY <1>2, <3>3, <3>4 DEF Shields
  <2>11. Books'
    <3>1. ASSUME NEW p \in Slot, NEW i \in DOMAIN probe[p].waiters, NEW j \in DOMAIN loop'
          PROVE  /\ loop'[j] # H("inner", probe[p].waiters[i])
                 /\ loop'[j] # H("wake", probe[p].waiters[i])
      <4>1. H("wake", c) # H("inner", probe[p].waiters[i]) /\ H("wake", c) # H("wake", probe[p].waiters[i])
        BY <1>3 DEF H
      <4> QED BY <2>1, <2>4, <2>5, <4>1 DEF TInv, Books
    <3> QED BY <1>2, <3>1 DEF TInv, Books
  <2> QED BY <2>7, <2>8, <2>9, <2>10, <2>11 DEF TInv
<1> QED BY <1>4, <1>5

\* A caller is told, or thrown out: nothing of it is left in the loop.
LEMMA LeaveKeeps ==
  ASSUME TInv, NEW c \in Callers, IsNext("wake", c), Then(<< >>), probe' = probe,
         on' = [on EXCEPT ![c] = None], cancelled' = cancelled \ {c},
         inflight' \in {inflight, None}, ready' \in BOOLEAN,
         cached' \in [ok : BOOLEAN, fresh : BOOLEAN],
         UNCHANGED <<env, newest, worker>>
  PROVE  TInv'
<1>1. /\ TypeOK /\ loop # << >> /\ 1 \in DOMAIN loop /\ loop[1] = H("wake", c)
      /\ \A i \in DOMAIN loop : loop[i] = H("wake", c) => i = 1
  BY HeadIs DEF TInv
<1>2. /\ loop' \in Seq(Handle)
      /\ \A i \in DOMAIN loop' :
           i \in Nat /\ i + 1 \in DOMAIN loop /\ i + 1 # 1 /\ loop'[i] = loop[i + 1]
  BY <1>1, TailIs
<1>3. /\ on' \in [Callers -> Slot \cup {None}] /\ on'[c] = None
      /\ \A d \in Callers \ {c} : on'[d] = on[d]
  BY <1>1 DEF TypeOK
<1>4. TypeOK'
  BY <1>1, <1>2, <1>3 DEF TypeOK, env
<1>5. Once' /\ Tasks'
  BY <1>2, TailOnce, TailTasks DEF TInv
<1>6. \A i \in DOMAIN loop' : loop'[i] # H("inner", c) /\ loop'[i] # H("wake", c)
  <2>1. ASSUME NEW i \in DOMAIN loop, i # 1, loop[i] = H("inner", c)
        PROVE  FALSE
    <3>1. i < 1
      BY <1>1, <2>1 DEF TInv, Shields
    <3> QED BY <1>1, <2>1, <3>1, LoopIs
  <2> QED BY <1>1, <1>2, <2>1
<1>7. Shields'
  <2>1. ASSUME NEW d \in Callers, NEW i \in DOMAIN loop',
               loop'[i] = H("inner", d) \/ loop'[i] = H("wake", d)
        PROVE  on'[d] # None
    BY <1>2, <1>3, <1>6, <2>1 DEF TInv, Shields
  <2>2. ASSUME NEW d \in Callers, NEW i \in DOMAIN loop', NEW j \in DOMAIN loop',
               loop'[i] = H("inner", d), loop'[j] = H("wake", d)
        PROVE  i < j /\ d \in cancelled'
    <3>1. d # c
      BY <1>6, <2>2
    <3>2. i + 1 < j + 1 /\ d \in cancelled /\ i \in Nat /\ j \in Nat
      BY <1>2, <2>2 DEF TInv, Shields
    <3> QED BY <3>1, <3>2
  <2> QED BY <2>1, <2>2 DEF Shields
<1>8. Books'
  <2>1. ASSUME NEW p \in Slot, NEW i \in DOMAIN probe[p].waiters
        PROVE  /\ on'[probe[p].waiters[i]] = p
               /\ \A j \in DOMAIN loop' :
                    /\ loop'[j] # H("inner", probe[p].waiters[i])
                    /\ loop'[j] # H("wake", probe[p].waiters[i])
    <3>1. probe[p].waiters[i] \in Callers /\ probe[p].waiters[i] # c
      BY <1>1, WaitersAre DEF TInv, Books
    <3> QED BY <1>2, <1>3, <3>1 DEF TInv, Books
  <2> QED BY <2>1 DEF TInv, Books
<1> QED BY <1>4, <1>5, <1>7, <1>8 DEF TInv

LEMMA WakeKeeps ==
  ASSUME TInv, NEW c \in Callers, Wake(c) \/ WakeCancelled(c)
  PROVE  TInv'
<1>1. /\ TypeOK /\ 1 \in DOMAIN loop /\ loop[1] = H("wake", c) /\ IsNext("wake", c)
  BY HeadIs DEF TInv, Wake, WakeCancelled
<1>2. on[c] \in Slot
  BY <1>1 DEF TInv, TypeOK, Shields
<1>3. probe[on[c]].verdict \in BOOLEAN
  BY <1>1, <1>2 DEF TypeOK, Probe
<1>4. inflight' \in {inflight, None}
  BY DEF Wake, WakeCancelled, ClearInflight
<1>5. ready' \in BOOLEAN
  BY <1>1, <1>3 DEF Wake, WakeCancelled, Told, TypeOK
<1>6. cached' \in [ok : BOOLEAN, fresh : BOOLEAN]
  <2>1. CASE cached' = cached
    BY <1>1, <2>1 DEF TypeOK
  <2>2. CASE cached' = [ok |-> probe[on[c]].verdict, fresh |-> TRUE]
    BY <1>3, <2>2
  <2> QED BY <2>1, <2>2 DEF Wake, WakeCancelled
<1>7. /\ Then(<< >>) /\ probe' = probe /\ on' = [on EXCEPT ![c] = None]
      /\ cancelled' = cancelled \ {c} /\ UNCHANGED <<env, newest, worker>>
  BY DEF Wake, WakeCancelled
<1> QED BY <1>1, <1>4, <1>5, <1>6, <1>7, LeaveKeeps

\* Who still waits when one has left.
LEMMA LeftIs ==
  ASSUME NEW waiters \in Seq(Callers), NEW c,
         \A i, j \in DOMAIN waiters : waiters[i] = waiters[j] => i = j
  PROVE  LET left == Left(waiters, c)
         IN  /\ left \in Seq(Callers)
             /\ \A i, j \in DOMAIN left : left[i] = left[j] => i = j
             /\ \A i \in DOMAIN left :
                  /\ left[i] \in Callers /\ left[i] # c
                  /\ \E j \in DOMAIN waiters : left[i] = waiters[j]
             /\ \A j \in DOMAIN waiters :
                  waiters[j] # c => \E i \in DOMAIN left : left[i] = waiters[j]
<1> DEFINE n == Len(waiters)
           left == Left(waiters, c)
<1>1. n \in Nat /\ DOMAIN waiters = 1 .. n /\ \A i \in 1 .. n : waiters[i] \in Callers
  BY LenProperties, ElementOfSeq
<1>2. CASE ~ \E i \in DOMAIN waiters : waiters[i] = c
  <2>1. left = waiters
    BY <1>2 DEF Left
  <2> QED BY <1>1, <1>2, <2>1
<1>3. CASE \E i \in DOMAIN waiters : waiters[i] = c
  <2> DEFINE at == CHOOSE i \in DOMAIN waiters : waiters[i] = c
             front == SubSeq(waiters, 1, at - 1)
             back == SubSeq(waiters, at + 1, n)
  <2>1. at \in 1 .. n /\ waiters[at] = c
    BY <1>1, <1>3
  <2>2. left = front \o back
    BY <1>3 DEF Left, RemoveAt
  <2> HIDE DEF at
  <2>3. /\ front \in Seq(Callers) /\ Len(front) = at - 1
        /\ \A i \in 1 .. at - 1 : front[i] = waiters[i]
    <3>1. at - 1 \in Int /\ \A i \in 1 .. at - 1 : waiters[i] \in Callers
      BY <1>1, <2>1
    <3>2. /\ front \in Seq(Callers) /\ Len(front) = IF 1 <= at - 1 THEN at - 1 - 1 + 1 ELSE 0
          /\ \A i \in 1 .. at - 1 - 1 + 1 : front[i] = waiters[1 + i - 1]
      BY <3>1, SubSeqProperties
    <3> QED BY <1>1, <2>1, <3>2
  <2>4. /\ back \in Seq(Callers) /\ Len(back) = n - at
        /\ \A i \in 1 .. n - at : back[i] = waiters[at + i]
    <3>1. at + 1 \in Int /\ n \in Int /\ \A i \in at + 1 .. n : waiters[i] \in Callers
      BY <1>1, <2>1
    <3>2. /\ back \in Seq(Callers) /\ Len(back) = IF at + 1 <= n THEN n - (at + 1) + 1 ELSE 0
          /\ \A i \in 1 .. n - (at + 1) + 1 : back[i] = waiters[at + 1 + i - 1]
      BY <3>1, SubSeqProperties
    <3>3. Len(back) = n - at
      <4>1. n \in Nat /\ at \in 1 .. n
        BY <1>1, <2>1
      <4>2. (IF at + 1 <= n THEN n - (at + 1) + 1 ELSE 0) = n - at
        BY <4>1
      <4> QED BY <3>2, <4>2
    <3>4. ASSUME NEW i \in 1 .. n - at PROVE back[i] = waiters[at + i]
      <4>1. i \in 1 .. n - (at + 1) + 1 /\ at + 1 + i - 1 = at + i
        BY <1>1, <2>1
      <4> QED BY <3>2, <4>1
    <3> QED BY <3>2, <3>3, <3>4
  <2> HIDE DEF front, back, left
  <2>5. /\ left \in Seq(Callers) /\ Len(left) = Len(front) + Len(back)
        /\ \A i \in 1 .. Len(front) + Len(back) :
             left[i] = IF i <= Len(front) THEN front[i] ELSE back[i - Len(front)]
    BY <2>2, <2>3, <2>4, ConcatProperties
  <2>6. /\ DOMAIN left = 1 .. n - 1
        /\ \A i \in 1 .. n - 1 : left[i] = IF i < at THEN waiters[i] ELSE waiters[i + 1]
    <3>1. Len(left) = n - 1
      BY <1>1, <2>1, <2>3, <2>4, <2>5
    <3>2. DOMAIN left = 1 .. n - 1
      BY <2>5, <3>1, LenProperties
    <3>3. ASSUME NEW i \in 1 .. n - 1, i < at PROVE left[i] = waiters[i]
      <4>1. i \in 1 .. at - 1 /\ i \in 1 .. Len(front) + Len(back) /\ i <= Len(front)
        BY <1>1, <2>1, <2>3, <2>4, <3>3
      <4> QED BY <2>3, <2>5, <4>1
    <3>4. ASSUME NEW i \in 1 .. n - 1, ~ (i < at) PROVE left[i] = waiters[i + 1]
      <4>1. /\ i \in 1 .. Len(front) + Len(back) /\ ~ (i <= Len(front))
            /\ i - Len(front) \in 1 .. n - at /\ at + (i - Len(front)) = i + 1
        BY <1>1, <2>1, <2>3, <2>4, <3>4
      <4> QED BY <2>4, <2>5, <4>1
    <3> QED BY <3>2, <3>3, <3>4
  <2> DEFINE from(i) == IF i < at THEN i ELSE i + 1
  <2>7. \A i \in DOMAIN left :
          from(i) \in 1 .. n /\ from(i) # at /\ left[i] = waiters[from(i)]
    BY <1>1, <2>1, <2>6
  <2>8. \A i, j \in DOMAIN left : from(i) = from(j) => i = j
    BY <1>1, <2>1, <2>6
  <2> HIDE DEF from
  <2>9. \A i, j \in DOMAIN left : left[i] = left[j] => i = j
    BY <1>1, <2>7, <2>8
  <2>10. \A i \in DOMAIN left : left[i] \in Callers /\ left[i] # c
    BY <1>1, <2>1, <2>7
  <2>11. \A i \in DOMAIN left : \E j \in DOMAIN waiters : left[i] = waiters[j]
    BY <1>1, <2>7
  <2>12. ASSUME NEW j \in DOMAIN waiters, waiters[j] # c
         PROVE  \E i \in DOMAIN left : left[i] = waiters[j]
    <3>1. CASE j < at
      <4>1. j \in 1 .. n - 1
        BY <1>1, <2>1, <3>1
      <4> QED BY <2>6, <3>1, <4>1
    <3>2. CASE ~ (j < at)
      <4>1. j - 1 \in 1 .. n - 1 /\ ~ (j - 1 < at) /\ j - 1 + 1 = j
        BY <1>1, <2>1, <2>12, <3>2
      <4> QED BY <2>6, <4>1
    <3> QED BY <3>1, <3>2
  <2> QED BY <2>5, <2>9, <2>10, <2>11, <2>12 DEF left
<1> QED BY <1>2, <1>3

\* A cancelled caller is off the books, and its turn to be thrown out is in the loop.
LEMMA CancelIs ==
  ASSUME TInv, NEW c \in Callers, Cancel(c)
  PROVE  LET p == on[c]
             left == Left(probe[p].waiters, c)
             n == Len(loop)
         IN
         /\ p # None /\ p \in Slot /\ n \in Nat /\ DOMAIN loop = 1 .. n
         /\ left \in Seq(Callers)
         /\ \A i, j \in DOMAIN left : left[i] = left[j] => i = j
         /\ \A i \in DOMAIN left :
              /\ left[i] \in Callers /\ left[i] # c
              /\ \E j \in DOMAIN probe[p].waiters : left[i] = probe[p].waiters[j]
         /\ \A j \in DOMAIN probe[p].waiters :
              probe[p].waiters[j] # c => \E i \in DOMAIN left : left[i] = probe[p].waiters[j]
         /\ probe' \in [Slot -> Probe] /\ probe'[p].waiters = left
         /\ \A q \in Slot : /\ probe'[q].phase = probe[q].phase
                            /\ probe'[q].owner = probe[q].owner
         /\ \A q \in Slot \ {p} : probe'[q].waiters = probe[q].waiters
         /\ loop' \in Seq(Handle)
         /\ \A i \in DOMAIN loop : i \in DOMAIN loop' /\ loop'[i] = loop[i]
         /\ \A i \in DOMAIN loop' :
              \/ i \in DOMAIN loop /\ loop'[i] = loop[i]
              \/ /\ i = n + 1 /\ loop'[i] = H("wake", c)
                 /\ \A j \in DOMAIN loop : loop[j] # H("wake", c)
<1> DEFINE p == on[c]
           left == Left(probe[p].waiters, c)
           n == Len(loop)
<1>1. TypeOK /\ p # None /\ p \in Slot /\ n \in Nat /\ DOMAIN loop = 1 .. n
  BY LoopIs DEF TInv, TypeOK, Cancel
<1>2. /\ c \notin cancelled /\ cancelled' = cancelled \cup {c}
      /\ hangups < MaxHangups /\ hangups' = hangups + 1
      /\ probe' = [probe EXCEPT ![p].waiters = left]
      /\ UNCHANGED <<disk, released, cached, inflight, ready, newest, worker, on>>
  BY DEF Cancel
<1>3. /\ left \in Seq(Callers)
      /\ \A i, j \in DOMAIN left : left[i] = left[j] => i = j
      /\ \A i \in DOMAIN left :
           /\ left[i] \in Callers /\ left[i] # c
           /\ \E j \in DOMAIN probe[p].waiters : left[i] = probe[p].waiters[j]
      /\ \A j \in DOMAIN probe[p].waiters :
           probe[p].waiters[j] # c => \E i \in DOMAIN left : left[i] = probe[p].waiters[j]
  <2>1. probe[p].waiters \in Seq(Callers)
    BY <1>1, WaitersAre
  <2>2. \A i, j \in DOMAIN probe[p].waiters :
          probe[p].waiters[i] = probe[p].waiters[j] => i = j
    BY <1>1 DEF TInv, Books
  <2> QED BY <2>1, <2>2, LeftIs
<1> HIDE DEF left
<1>4. /\ probe' \in [Slot -> Probe] /\ probe'[p].waiters = left
      /\ \A q \in Slot : /\ probe'[q].phase = probe[q].phase
                         /\ probe'[q].owner = probe[q].owner
      /\ \A q \in Slot \ {p} : probe'[q].waiters = probe[q].waiters
  <2>1. probe \in [Slot -> Probe]
    BY <1>1 DEF TypeOK
  <2>2. [probe[p] EXCEPT !.waiters = left] \in Probe
    <3>1. probe[p] \in Probe /\ left \in Seq(Callers)
      BY <1>1, <1>3, <2>1
    <3> QED BY <3>1 DEF Probe
  <2> QED BY <1>1, <1>2, <2>1, <2>2 DEF Probe
\* The loop is what it was, or the caller's turn to be thrown out comes last.
<1>5. /\ loop' \in Seq(Handle)
      /\ \A i \in 1 .. n : i \in DOMAIN loop' /\ loop'[i] = loop[i]
      /\ \/ DOMAIN loop' = 1 .. n
         \/ /\ DOMAIN loop' = 1 .. n + 1 /\ loop'[n + 1] = H("wake", c)
            /\ \A i \in 1 .. n : loop[i] # H("wake", c)
  <2>1. CASE H("wake", c) \in Range(loop)
    <3>1. loop' = loop
      BY <2>1 DEF Cancel
    <3> QED BY <1>1, <3>1 DEF TypeOK
  <2>2. CASE ~ (H("wake", c) \in Range(loop))
    <3>1. loop' = Append(loop, H("wake", c)) /\ \A i \in 1 .. n : loop[i] # H("wake", c)
      BY <1>1, <2>2 DEF Cancel, Range
    <3>2. /\ loop' \in Seq(Handle) /\ DOMAIN loop' = 1 .. n + 1
          /\ \A i \in 1 .. n : loop'[i] = loop[i]
          /\ loop'[n + 1] = H("wake", c)
      BY <1>1, <3>1, HandleType, AppendIs
    <3>3. 1 .. n \subseteq 1 .. n + 1
      BY <1>1
    <3> QED BY <3>1, <3>2, <3>3
  <2> QED BY <2>1, <2>2
<1>6. \A i \in DOMAIN loop' :
        \/ i \in DOMAIN loop /\ loop'[i] = loop[i]
        \/ /\ i = n + 1 /\ loop'[i] = H("wake", c)
           /\ \A j \in DOMAIN loop : loop[j] # H("wake", c)
  BY <1>1, <1>5
<1>7. \A i \in DOMAIN loop : i \in DOMAIN loop' /\ loop'[i] = loop[i]
  BY <1>1, <1>5
<1> QED BY <1>1, <1>3, <1>4, <1>5, <1>6, <1>7 DEF left

LEMMA CancelKeeps ==
  ASSUME TInv, NEW c \in Callers, Cancel(c)
  PROVE  TInv'
<1> DEFINE p == on[c]
           left == Left(probe[p].waiters, c)
           n == Len(loop)
<1>1. TypeOK /\ p # None /\ p \in Slot /\ n \in Nat /\ DOMAIN loop = 1 .. n
  BY CancelIs DEF TInv
<1>2. /\ c \notin cancelled /\ cancelled' = cancelled \cup {c}
      /\ hangups < MaxHangups /\ hangups' = hangups + 1
      /\ UNCHANGED <<disk, released, cached, inflight, ready, newest, worker, on>>
  BY DEF Cancel
<1>3. /\ left \in Seq(Callers)
      /\ \A i, j \in DOMAIN left : left[i] = left[j] => i = j
      /\ \A i \in DOMAIN left :
           /\ left[i] \in Callers /\ left[i] # c
           /\ \E j \in DOMAIN probe[p].waiters : left[i] = probe[p].waiters[j]
  BY CancelIs
<1>4. /\ probe' \in [Slot -> Probe] /\ probe'[p].waiters = left
      /\ \A q \in Slot : probe'[q].phase = probe[q].phase
      /\ \A q \in Slot \ {p} : probe'[q].waiters = probe[q].waiters
  BY CancelIs
<1>5. loop' \in Seq(Handle)
  BY CancelIs
<1>6. \A i \in DOMAIN loop' :
        \/ i \in DOMAIN loop /\ loop'[i] = loop[i]
        \/ /\ i = n + 1 /\ loop'[i] = H("wake", c)
           /\ \A j \in DOMAIN loop : loop[j] # H("wake", c)
  BY CancelIs
<1> HIDE DEF left
<1>7. TypeOK'
  <2>1. hangups' \in 0 .. MaxHangups
    BY <1>1, <1>2, BoundsAssumption DEF TypeOK
  <2> QED BY <1>1, <1>2, <1>4, <1>5, <2>1 DEF TypeOK
<1>8. Once'
  BY <1>6 DEF TInv, Once
<1>9. Tasks'
  <2>1. \A q \in Slot : H("wake", c) # H("step", q) /\ H("wake", c) # H("resume", q)
    BY DEF H
  <2> QED BY <1>4, <1>6, <2>1 DEF TInv, Tasks
<1>10. Shields'
  <2>1. \A d \in Callers : H("wake", c) # H("inner", d) /\ (H("wake", c) = H("wake", d) => c = d)
    BY DEF H
  <2>2. ASSUME NEW d \in Callers, NEW i \in DOMAIN loop',
               loop'[i] = H("inner", d) \/ loop'[i] = H("wake", d)
        PROVE  on[d] # None
    BY <1>1, <1>6, <2>1, <2>2 DEF TInv, Shields
  <2>3. ASSUME NEW d \in Callers, NEW i \in DOMAIN loop', NEW j \in DOMAIN loop',
               loop'[i] = H("inner", d), loop'[j] = H("wake", d)
        PROVE  i < j /\ d \in cancelled'
    <3>1. i \in DOMAIN loop /\ loop[i] = H("inner", d)
      BY <1>6, <2>1, <2>3
    <3>2. CASE j \in DOMAIN loop /\ loop'[j] = loop[j]
      BY <1>2, <2>3, <3>1, <3>2 DEF TInv, Shields
    <3>3. CASE j = n + 1 /\ loop'[j] = H("wake", c)
      BY <1>1, <1>2, <2>1, <2>3, <3>1, <3>3
    <3> QED BY <1>6, <3>2, <3>3
  <2> QED BY <1>2, <2>2, <2>3 DEF Shields
<1>11. Books'
  <2>1. ASSUME NEW q \in Slot, NEW m \in DOMAIN probe[q].waiters, probe[q].waiters[m] # c
        PROVE  /\ on[probe[q].waiters[m]] = q
               /\ \A j \in DOMAIN loop' :
                    /\ loop'[j] # H("inner", probe[q].waiters[m])
                    /\ loop'[j] # H("wake", probe[q].waiters[m])
    <3>1. /\ H("wake", c) # H("inner", probe[q].waiters[m])
          /\ H("wake", c) # H("wake", probe[q].waiters[m])
      BY <2>1 DEF H
    <3> QED BY <1>6, <3>1 DEF TInv, Books
  <2>2. ASSUME NEW q \in Slot, q # p, NEW m \in DOMAIN probe[q].waiters
        PROVE  probe[q].waiters[m] # c
    BY <2>2 DEF TInv, Books
  <2>3. ASSUME NEW q \in Slot, q # p
        PROVE  /\ \A i, j \in DOMAIN probe'[q].waiters :
                    probe'[q].waiters[i] = probe'[q].waiters[j] => i = j
               /\ \A i \in DOMAIN probe'[q].waiters :
                    /\ on'[probe'[q].waiters[i]] = q
                    /\ \A j \in DOMAIN loop' :
                         /\ loop'[j] # H("inner", probe'[q].waiters[i])
                         /\ loop'[j] # H("wake", probe'[q].waiters[i])
    BY <1>2, <1>4, <2>1, <2>2, <2>3 DEF TInv, Books
  <2>4. ASSUME NEW i \in DOMAIN left
        PROVE  /\ on'[left[i]] = p
               /\ \A j \in DOMAIN loop' : loop'[j] # H("inner", left[i]) /\ loop'[j] # H("wake", left[i])
    <3>1. PICK m \in DOMAIN probe[p].waiters : left[i] = probe[p].waiters[m]
      BY <1>3
    <3> QED BY <1>1, <1>2, <1>3, <2>1, <3>1
  <2> QED BY <1>3, <1>4, <2>3, <2>4 DEF Books
<1> QED BY <1>7, <1>8, <1>9, <1>10, <1>11 DEF TInv

LEMMA FromCacheKeeps ==
  ASSUME TInv, NEW c \in Callers, FromCache(c)
  PROVE  TInv'
<1>1. TypeOK /\ UNCHANGED <<env, cached, inflight, loop, probe, newest, worker, on, cancelled>>
  BY DEF TInv, FromCache
<1>2. ready' \in BOOLEAN
  BY <1>1 DEF FromCache, Told, TypeOK
<1>3. TypeOK'
  BY <1>1, <1>2 DEF TypeOK, env
<1> QED BY <1>1, <1>3, QuietKeeps

LEMMA WorkerStartsKeeps ==
  ASSUME TInv, NEW p \in Slot, WorkerStarts(p)
  PROVE  TInv'
<1>1. /\ TypeOK /\ worker' = "busy" /\ probe[p].phase = "queued"
      /\ probe' = [probe EXCEPT ![p].phase = "running"]
      /\ UNCHANGED <<env, cached, inflight, ready, loop, newest, on, cancelled>>
  BY DEF TInv, WorkerStarts
<1>2. /\ probe' \in [Slot -> Probe]
      /\ \A q \in Slot : probe'[q].waiters = probe[q].waiters
      /\ \A q \in Slot \ {p} : probe'[q].phase = probe[q].phase
  BY <1>1 DEF TypeOK, Probe
<1>3. TypeOK'
  BY <1>1, <1>2 DEF TypeOK, env
<1> QED BY <1>1, <1>2, <1>3, QuietKeeps

LEMMA TimeoutLateKeeps ==
  ASSUME TInv, NEW p \in Slot, TimeoutLate(p)
  PROVE  TInv'
<1>1. /\ TypeOK /\ probe' = [probe EXCEPT ![p].verdict = FALSE]
      /\ UNCHANGED <<env, cached, inflight, ready, loop, newest, worker, on, cancelled>>
  BY DEF TInv, TimeoutLate
<1>2. /\ probe' \in [Slot -> Probe]
      /\ \A q \in Slot : probe'[q].waiters = probe[q].waiters /\ probe'[q].phase = probe[q].phase
  BY <1>1 DEF TypeOK, Probe
<1>3. TypeOK'
  BY <1>1, <1>2 DEF TypeOK, env
<1> QED BY <1>1, <1>2, <1>3, QuietKeeps

\* The pool answers, or the timer gives up on a job.
LEMMA TellsKeeps ==
  ASSUME TInv, NEW p \in Slot, WorkerEnds(p) \/ Timeout(p)
  PROVE  TInv'
<1>1. disk \in BOOLEAN /\ worker \in {"idle", "busy", "lost"}
  BY DEF TInv, TypeOK
<1>2. CASE WorkerEnds(p)
  <2>1. Waiting(p) /\ Settle(p, disk) /\ worker' = "idle"
        /\ UNCHANGED <<env, cached, inflight, ready, newest, on, cancelled>>
    BY <1>2 DEF WorkerEnds, Waiting
  <2> QED BY <1>1, <2>1, SettleKeeps DEF env
<1>3. CASE Timeout(p)
  <2>1. Waiting(p) /\ Settle(p, FALSE) /\ worker' \in {"lost", worker}
        /\ UNCHANGED <<env, cached, inflight, ready, newest, on, cancelled>>
    BY <1>3 DEF Timeout
  <2> QED BY <1>1, <2>1, SettleKeeps DEF env
<1> QED BY <1>2, <1>3

\* A task ends: its pool is gone, or it has been told.
LEMMA TaskEndsKeeps ==
  ASSUME TInv, NEW p \in Slot, StepReleased(p) \/ Resume(p)
  PROVE  TInv'
<1>1. probe[p].verdict \in BOOLEAN
  BY DEF TInv, TypeOK, Probe
<1>2. CASE StepReleased(p)
  <2>1. /\ Ends(p, FALSE) /\ IsNext("step", p)
        /\ UNCHANGED <<env, cached, inflight, ready, newest, worker, on, cancelled>>
    BY <1>2 DEF StepReleased
  <2> QED BY <2>1, EndsKeeps
<1>3. CASE Resume(p)
  <2>1. /\ Ends(p, probe[p].verdict) /\ IsNext("resume", p)
        /\ UNCHANGED <<env, cached, inflight, ready, newest, worker, on, cancelled>>
    BY <1>3 DEF Resume
  <2> QED BY <1>1, <2>1, EndsKeeps
<1> QED BY <1>2, <1>3

\* The outside: the worker comes back, a verdict ages, the disk, the lifespan.
LEMMA OutsideKeeps ==
  ASSUME TInv, WorkerEndsLost \/ Stale \/ DiskChanges \/ Release \/ UNCHANGED vars
  PROVE  TInv'
<1>1. TypeOK /\ loop' = loop /\ on' = on /\ cancelled' = cancelled /\ probe' = probe
  BY DEF TInv, WorkerEndsLost, Stale, DiskChanges, Release, vars
<1>2. /\ disk' \in BOOLEAN /\ released' \in BOOLEAN /\ worker' \in {"idle", "busy", "lost"}
      /\ UNCHANGED <<inflight, ready, newest, hangups>>
  BY <1>1 DEF TypeOK, WorkerEndsLost, Stale, DiskChanges, Release, vars, env
<1>3. cached' \in [ok : BOOLEAN, fresh : BOOLEAN]
  BY <1>1 DEF TypeOK, WorkerEndsLost, Stale, DiskChanges, Release, vars
<1>4. TypeOK'
  BY <1>1, <1>2, <1>3 DEF TypeOK
<1> QED BY <1>1, <1>4, QuietKeeps

LEMMA ProbeStep == TInv /\ [Next]_vars => TInv'
<1> SUFFICES ASSUME TInv, [Next]_vars PROVE TInv'
  OBVIOUS
<1>1. ASSUME NEW c \in Callers, Inner(c) \/ Wake(c) \/ WakeCancelled(c) PROVE TInv'
  BY <1>1, InnerKeeps, WakeKeeps
<1>2. ASSUME NEW p \in Slot, StepTask(p) \/ StepReleased(p) \/ Resume(p) PROVE TInv'
  BY <1>2, StepTaskKeeps, TaskEndsKeeps
<1>3. ASSUME NEW c \in Callers, Request(c) \/ Cancel(c) PROVE TInv'
  BY <1>3, FromCacheKeeps, JoinKeeps, StartKeeps, CancelKeeps DEF Request
<1>4. ASSUME NEW p \in Slot,
             WorkerStarts(p) \/ WorkerEnds(p) \/ Timeout(p) \/ TimeoutLate(p)
      PROVE  TInv'
  BY <1>4, WorkerStartsKeeps, TellsKeeps, TimeoutLateKeeps
<1>5. CASE WorkerEndsLost \/ Stale \/ DiskChanges \/ Release \/ UNCHANGED vars
  BY <1>5, OutsideKeeps
<1> QED BY <1>1, <1>2, <1>3, <1>4, <1>5 DEF Next, RunHandle

\* The probe's types, of the specification that app.py's loop follows.
THEOREM ProbeTypeOK == Spec => []TypeOK
<1>1. Init => TInv
  BY ProbeInit
<1>2. TInv /\ [Next]_vars => TInv'
  BY ProbeStep
<1>3. TInv => TypeOK
  BY DEF TInv
<1> QED BY <1>1, <1>2, <1>3, PTL DEF Spec

-----------------------------------------------------------------------------
(* Single flight *)

\* No caller leaves, no probe changes hands, and none that is done begins again.
LEMMA QuietFlight ==
  ASSUME TypeOK, OwnedIsInflight, inflight' = inflight, on' = on, cancelled \subseteq cancelled',
         \A p \in Slot : /\ probe'[p].owner = probe[p].owner
                         /\ probe[p].phase = "done" => probe'[p].phase = "done"
  PROVE  OwnedIsInflight'
<1> SUFFICES ASSUME NEW c \in Callers \ cancelled', on[c] # None,
                    probe'[on[c]].owner = c, probe'[on[c]].phase # "done"
             PROVE  inflight = on[c]
  BY DEF OwnedIsInflight, Owns
<1>1. on[c] \in Slot /\ c \in Callers \ cancelled
  BY DEF TypeOK
<1> QED BY <1>1 DEF OwnedIsInflight, Owns

\* A caller joins the probe in flight: if it ever owned that one, so it does now.
LEMMA JoinFlight ==
  ASSUME TypeOK, OwnedIsInflight, NEW c \in Callers, Join(c)
  PROVE  OwnedIsInflight'
<1>1. /\ inflight \in Slot /\ inflight' = inflight /\ cancelled' = cancelled
      /\ on' = [on EXCEPT ![c] = inflight]
      /\ probe' = [probe EXCEPT ![inflight].waiters = Append(@, c)]
  BY DEF TypeOK, Join, InFlight
<1>2. \A p \in Slot : probe'[p].owner = probe[p].owner /\ probe'[p].phase = probe[p].phase
  BY <1>1 DEF TypeOK, Probe
<1>3. on'[c] = inflight /\ \A d \in Callers \ {c} : on'[d] = on[d]
  BY <1>1 DEF TypeOK
<1> SUFFICES ASSUME NEW d \in Callers \ cancelled', on'[d] # None, d # c,
                    probe'[on'[d]].owner = d, probe'[on'[d]].phase # "done"
             PROVE  inflight' = on'[d]
  BY <1>1, <1>3 DEF OwnedIsInflight, Owns
<1>4. on'[d] = on[d] /\ on[d] \in Slot
  BY <1>3 DEF TypeOK
<1> QED BY <1>1, <1>2, <1>4 DEF OwnedIsInflight, Owns

\* A probe is started only when no starter waits for one that still runs.
LEMMA StartFlight ==
  ASSUME TypeOK, OwnedIsInflight, NEW c \in Callers, Start(c)
  PROVE  OwnedIsInflight'
<1> DEFINE p == (newest + 1) % Slots
<1>1. /\ ~ InFlight /\ inflight' = p /\ cancelled' = cancelled
      /\ on' = [on EXCEPT ![c] = p] /\ probe' = [probe EXCEPT ![p] = Started(c)]
      /\ \A d \in Callers : on[d] # p
  BY DEF Start
<1> HIDE DEF p
<1>2. on'[c] = p /\ \A d \in Callers \ {c} : on'[d] = on[d]
  BY <1>1 DEF TypeOK
<1> SUFFICES ASSUME NEW d \in Callers \ cancelled', on'[d] # None, d # c,
                    probe'[on'[d]].owner = d, probe'[on'[d]].phase # "done"
             PROVE  FALSE
  BY <1>1, <1>2 DEF OwnedIsInflight, Owns
<1>3. on'[d] = on[d] /\ on[d] \in Slot /\ on[d] # p
  BY <1>1, <1>2 DEF TypeOK
<1>4. probe'[on[d]] = probe[on[d]]
  BY <1>1, <1>3 DEF TypeOK
<1>5. inflight = on[d]
  BY <1>1, <1>3, <1>4 DEF OwnedIsInflight, Owns
<1> QED BY <1>1, <1>3, <1>4, <1>5 DEF InFlight

\* The `finally' of a starter clears the probe it owns, and nobody else's.
LEMMA WakeFlight ==
  ASSUME TypeOK, OwnedIsInflight, NEW c \in Callers, Wake(c) \/ WakeCancelled(c)
  PROVE  OwnedIsInflight'
<1>1. /\ ClearInflight(c) /\ on' = [on EXCEPT ![c] = None] /\ probe' = probe
      /\ \A d \in Callers \ {c} : d \in cancelled' <=> d \in cancelled
  BY DEF Wake, WakeCancelled
<1>2. on'[c] = None /\ \A d \in Callers \ {c} : on'[d] = on[d]
  BY <1>1 DEF TypeOK
<1> SUFFICES ASSUME NEW d \in Callers \ cancelled', on'[d] # None, d # c,
                    probe'[on'[d]].owner = d, probe'[on'[d]].phase # "done"
             PROVE  inflight' = on'[d]
  BY <1>2 DEF OwnedIsInflight, Owns
<1>3. on'[d] = on[d] /\ d \in Callers \ cancelled
  BY <1>1, <1>2
<1>4. inflight = on[d] /\ probe[on[d]].owner = d
  BY <1>1, <1>3 DEF OwnedIsInflight, Owns
<1>5. ~ (Owns(c) /\ inflight = on[c])
  BY <1>4 DEF Owns
<1> QED BY <1>1, <1>3, <1>4, <1>5 DEF ClearInflight

LEMMA FlightStep == TInv /\ OwnedIsInflight /\ [Next]_vars => OwnedIsInflight'
<1> SUFFICES ASSUME TInv, OwnedIsInflight, [Next]_vars PROVE OwnedIsInflight'
  OBVIOUS
<1>1. TypeOK
  BY DEF TInv
<1>2. ASSUME NEW c \in Callers, Inner(c) \/ FromCache(c)
      PROVE  OwnedIsInflight'
  <2>1. UNCHANGED <<inflight, probe, on, cancelled>>
    BY <1>2 DEF Inner, FromCache
  <2> QED BY <1>1, <2>1, QuietFlight
<1>3. ASSUME NEW c \in Callers, Cancel(c) PROVE OwnedIsInflight'
  <2>1. /\ on[c] \in Slot /\ cancelled' = cancelled \cup {c} /\ inflight' = inflight /\ on' = on
        /\ probe' = [probe EXCEPT ![on[c]].waiters = Left(@, c)]
    BY <1>1, <1>3 DEF TypeOK, Cancel
  <2>2. \A q \in Slot : probe'[q].owner = probe[q].owner /\ probe'[q].phase = probe[q].phase
    BY <1>1, <2>1 DEF TypeOK, Probe
  <2> QED BY <1>1, <2>1, <2>2, QuietFlight
<1>4. ASSUME NEW p \in Slot, StepTask(p) \/ StepReleased(p) \/ Resume(p) PROVE OwnedIsInflight'
  <2>1. UNCHANGED <<inflight, on, cancelled>>
    BY <1>4 DEF StepTask, StepReleased, Resume
  <2>2. CASE StepTask(p)
    <3>1. probe' = [probe EXCEPT ![p].phase = "queued"]
      BY <2>2 DEF StepTask
    <3>2. 1 \in DOMAIN loop /\ loop[1] = H("step", p)
      BY <2>2, HeadIs DEF StepTask, TInv
    <3>3. probe[p].phase = "new"
      BY <3>2 DEF TInv, Tasks
    <3>4. \A q \in Slot : /\ probe'[q].owner = probe[q].owner
                          /\ probe[q].phase = "done" => probe'[q].phase = "done"
      BY <1>1, <3>1, <3>3 DEF TypeOK, Probe
    <3> QED BY <1>1, <2>1, <3>4, QuietFlight
  <2>3. ASSUME NEW verdict, Ends(p, verdict) PROVE OwnedIsInflight'
    <3>1. probe' = [probe EXCEPT ![p].phase = "done", ![p].verdict = verdict,
                                 ![p].waiters = << >>]
      BY <2>3 DEF Ends
    <3>2. \A q \in Slot : /\ probe'[q].owner = probe[q].owner
                          /\ probe[q].phase = "done" => probe'[q].phase = "done"
      BY <1>1, <3>1 DEF TypeOK, Probe
    <3> QED BY <1>1, <2>1, <3>2, QuietFlight
  <2> QED BY <1>4, <2>2, <2>3 DEF StepReleased, Resume
<1>5. ASSUME NEW p \in Slot,
             WorkerStarts(p) \/ WorkerEnds(p) \/ Timeout(p) \/ TimeoutLate(p)
      PROVE  OwnedIsInflight'
  <2>1. UNCHANGED <<inflight, on, cancelled>>
    BY <1>5 DEF WorkerStarts, WorkerEnds, Timeout, TimeoutLate
  <2>2. CASE WorkerStarts(p)
    <3>1. probe[p].phase = "queued" /\ probe' = [probe EXCEPT ![p].phase = "running"]
      BY <2>2 DEF WorkerStarts
    <3>2. \A q \in Slot : /\ probe'[q].owner = probe[q].owner
                          /\ probe[q].phase = "done" => probe'[q].phase = "done"
      BY <1>1, <3>1 DEF TypeOK, Probe
    <3> QED BY <1>1, <2>1, <3>2, QuietFlight
  <2>3. CASE TimeoutLate(p)
    <3>1. probe' = [probe EXCEPT ![p].verdict = FALSE]
      BY <2>3 DEF TimeoutLate
    <3>2. \A q \in Slot : /\ probe'[q].owner = probe[q].owner
                          /\ probe[q].phase = "done" => probe'[q].phase = "done"
      BY <1>1, <3>1 DEF TypeOK, Probe
    <3> QED BY <1>1, <2>1, <3>2, QuietFlight
  <2>4. ASSUME NEW verdict, Settle(p, verdict), Waiting(p) PROVE OwnedIsInflight'
    <3>1. /\ probe[p].phase # "done"
          /\ probe' = [probe EXCEPT ![p].phase = "ending", ![p].verdict = verdict]
      BY <2>4 DEF Settle, Waiting
    <3>2. \A q \in Slot : /\ probe'[q].owner = probe[q].owner
                          /\ probe[q].phase = "done" => probe'[q].phase = "done"
      BY <1>1, <3>1 DEF TypeOK, Probe
    <3> QED BY <1>1, <2>1, <3>2, QuietFlight
  <2>5. WorkerEnds(p) \/ Timeout(p) => Waiting(p) /\ \E verdict : Settle(p, verdict)
    BY DEF WorkerEnds, Timeout, Waiting
  <2> QED BY <1>5, <2>2, <2>3, <2>4, <2>5
<1>6. CASE WorkerEndsLost \/ Stale \/ DiskChanges \/ Release \/ UNCHANGED vars
  <2>1. UNCHANGED <<inflight, probe, on, cancelled>>
    BY <1>6 DEF WorkerEndsLost, Stale, DiskChanges, Release, vars
  <2> QED BY <1>1, <2>1, QuietFlight
<1> QED
  BY <1>1, <1>2, <1>3, <1>4, <1>5, <1>6, JoinFlight, StartFlight, WakeFlight
     DEF Next, RunHandle, Request

\* _probe_storage's single flight: however the handles of the loop are ordered,
\* the probe a starter still waits for is the one new callers join.
THEOREM ProbeOwnedIsInflight == Spec => []OwnedIsInflight
<1>1. Init => TInv /\ OwnedIsInflight
  BY ProbeInit
<1>2. TInv /\ OwnedIsInflight /\ [Next]_vars => TInv' /\ OwnedIsInflight'
  BY ProbeStep, FlightStep
<1> QED BY <1>1, <1>2, PTL DEF Spec

-----------------------------------------------------------------------------
(* Publication in order *)

OnBooks(c) == \E i \in DOMAIN probe[on[c]].waiters : probe[on[c]].waiters[i] = c
Called(c) == \E i \in DOMAIN loop : loop[i] = H("inner", c) \/ loop[i] = H("wake", c)

\* A caller that waits is on the books of its probe, or has its turn in the loop.
Waits == \A c \in Callers \ cancelled : on[c] # None => OnBooks(c) \/ Called(c)

\* A probe that is done has told everybody.
Emptied == \A p \in Slot : probe[p].phase = "done" => probe[p].waiters = << >>

\* The starter of the probe in flight waits for it.
Flown ==
  inflight # None =>
    probe[inflight].owner \in Callers /\ on[probe[inflight].owner] = inflight

\* The wake-ups of two starters are in the loop in the order of their probes.
Ordered ==
  \A c, d \in Callers \ cancelled :
    Owns(c) /\ Owns(d) /\ Before(on[d], on[c]) =>
      /\ probe[on[d]].phase = "done"
      /\ \A i, j \in DOMAIN loop :
           /\ loop[j] = H("inner", c) /\ loop[i] = H("inner", d) => i < j
           /\ loop[j] = H("wake", c) =>
                loop[i] # H("inner", d) /\ (loop[i] = H("wake", d) => i < j)

PInv == Waits /\ Emptied /\ Flown /\ Ordered

\* What is left of the loop when a handle has run moves up one place.
LEMMA TailStays ==
  ASSUME TypeOK, loop # << >>, NEW handles \in Seq(Handle), Then(handles)
  PROVE  \A i \in DOMAIN loop : i # 1 => i - 1 \in DOMAIN loop' /\ loop'[i - 1] = loop[i]
<1>1. /\ Len(loop) \in Nat \ {0} /\ DOMAIN loop = 1 .. Len(loop) /\ Len(handles) \in Nat
      /\ DOMAIN loop' = 1 .. Len(loop) - 1 + Len(handles)
      /\ \A i \in 1 .. Len(loop) - 1 : loop'[i] = loop[i + 1]
  BY LoopIs, ThenIs, LenProperties
<1>2. ASSUME NEW i \in DOMAIN loop, i # 1
      PROVE  i - 1 \in DOMAIN loop' /\ loop'[i - 1] = loop[i]
  <2>1. i - 1 \in 1 .. Len(loop) - 1 /\ i - 1 \in DOMAIN loop' /\ i - 1 + 1 = i
    BY <1>1, <1>2
  <2> QED BY <1>1, <2>1
<1> QED BY <1>2

\* No caller enters the loop who may still publish, nobody starts, and nobody is lost.
LEMMA OrderKeeps ==
  ASSUME TypeOK, Ordered, newest' = newest, NEW k \in {0, 1},
         \A c \in Callers \ cancelled' :
           Owns(c)' => c \notin cancelled /\ on'[c] = on[c],
         \A p \in Slot : /\ probe'[p].owner = probe[p].owner
                         /\ probe[p].phase = "done" => probe'[p].phase = "done",
         \A i \in DOMAIN loop' :
           \/ i \in Int /\ i + k \in DOMAIN loop /\ loop'[i] = loop[i + k]
           \/ \A c \in Callers \ cancelled' :
                loop'[i] # H("inner", c) /\ loop'[i] # H("wake", c)
  PROVE  Ordered'
<1> SUFFICES ASSUME NEW c \in Callers \ cancelled', NEW d \in Callers \ cancelled',
                    Owns(c)', Owns(d)', Before(on[d], on[c])'
             PROVE  /\ probe'[on'[d]].phase = "done"
                    /\ \A i, j \in DOMAIN loop' :
                         /\ loop'[j] = H("inner", c) /\ loop'[i] = H("inner", d) => i < j
                         /\ loop'[j] = H("wake", c) =>
                              loop'[i] # H("inner", d) /\ (loop'[i] = H("wake", d) => i < j)
  BY DEF Ordered
<1>1. /\ c \in Callers \ cancelled /\ on'[c] = on[c] /\ on[c] \in Slot
      /\ d \in Callers \ cancelled /\ on'[d] = on[d] /\ on[d] \in Slot
  BY DEF Owns, TypeOK
<1>2. Owns(c) /\ Owns(d) /\ Before(on[d], on[c])
  BY <1>1 DEF Owns, Before
<1>3. probe[on[d]].phase = "done"
  BY <1>1, <1>2 DEF Ordered
<1>4. ASSUME NEW i \in DOMAIN loop', NEW j \in DOMAIN loop',
             loop'[j] = H("inner", c) \/ loop'[j] = H("wake", c),
             loop'[i] = H("inner", d) \/ loop'[i] = H("wake", d)
      PROVE  /\ i \in Int /\ i + k \in DOMAIN loop /\ loop'[i] = loop[i + k]
             /\ j \in Int /\ j + k \in DOMAIN loop /\ loop'[j] = loop[j + k]
  BY <1>4
<1>5. ASSUME NEW i \in DOMAIN loop', NEW j \in DOMAIN loop'
      PROVE  /\ loop'[j] = H("inner", c) /\ loop'[i] = H("inner", d) => i < j
             /\ loop'[j] = H("wake", c) =>
                  loop'[i] # H("inner", d) /\ (loop'[i] = H("wake", d) => i < j)
  <2>1. CASE loop'[j] = H("inner", c) /\ loop'[i] = H("inner", d)
    <3>1. i + k < j + k /\ i \in Int /\ j \in Int
      BY <1>1, <1>2, <1>4, <2>1 DEF Ordered
    <3>2. i < j
      BY <3>1
    <3> QED BY <2>1, <3>2 DEF H
  <2>2. CASE loop'[j] = H("wake", c) /\ (loop'[i] = H("inner", d) \/ loop'[i] = H("wake", d))
    <3>1. /\ loop[i + k] # H("inner", d) /\ (loop[i + k] = H("wake", d) => i + k < j + k)
          /\ i \in Int /\ j \in Int /\ loop'[i] = loop[i + k]
      BY <1>1, <1>2, <1>4, <2>2 DEF Ordered
    <3>2. loop'[i] # H("inner", d) /\ (loop'[i] = H("wake", d) => i < j)
      BY <3>1
    <3> QED BY <2>2, <3>2 DEF H
  <2> QED BY <2>1, <2>2
<1> QED BY <1>1, <1>3, <1>5

\* The steps that start nothing, end nothing and pass nothing on.
LEMMA QuietOrder ==
  ASSUME TypeOK, PInv, newest' = newest, NEW k \in {0, 1},
         \A c \in Callers \ cancelled' :
           on'[c] # None => c \notin cancelled /\ on'[c] = on[c],
         \A p \in Slot :
           /\ probe'[p].owner = probe[p].owner
           /\ probe'[p].phase = "done" <=> probe[p].phase = "done"
           /\ probe[p].waiters = << >> => probe'[p].waiters = << >>
           /\ \A i \in DOMAIN probe[p].waiters : probe[p].waiters[i] \notin cancelled' =>
                \E j \in DOMAIN probe'[p].waiters : probe'[p].waiters[j] = probe[p].waiters[i],
         \A i \in DOMAIN loop' :
           \/ i \in Int /\ i + k \in DOMAIN loop /\ loop'[i] = loop[i + k]
           \/ \A c \in Callers \ cancelled' :
                loop'[i] # H("inner", c) /\ loop'[i] # H("wake", c),
         \A i \in DOMAIN loop, c \in Callers :
           (loop[i] = H("inner", c) \/ loop[i] = H("wake", c)) /\ on'[c] # None =>
             \E j \in DOMAIN loop' : loop'[j] = loop[i],
         inflight' \in {inflight, None},
         inflight' # None => on'[probe[inflight].owner] = on[probe[inflight].owner]
  PROVE  PInv'
<1>1. Waits'
  <2> SUFFICES ASSUME NEW c \in Callers \ cancelled', on'[c] # None
               PROVE  OnBooks(c)' \/ Called(c)'
    BY DEF Waits
  <2>1. c \in Callers \ cancelled /\ on'[c] = on[c] /\ on[c] \in Slot
    BY DEF TypeOK
  <2>2. OnBooks(c) \/ Called(c)
    BY <2>1 DEF PInv, Waits
  <2>3. OnBooks(c) => OnBooks(c)'
    BY <2>1 DEF OnBooks
  <2>4. Called(c) => Called(c)'
    BY <2>1 DEF Called
  <2> QED BY <2>2, <2>3, <2>4
<1>2. Emptied'
  BY DEF PInv, Emptied
<1>3. Flown'
  <2> SUFFICES ASSUME inflight' # None
               PROVE  /\ probe'[inflight].owner \in Callers
                      /\ on'[probe'[inflight].owner] = inflight
    BY DEF Flown
  <2>1. inflight \in Slot
    BY DEF TypeOK
  <2> QED BY <2>1 DEF PInv, Flown
<1>4. Ordered'
  BY OrderKeeps DEF PInv, Owns
<1> QED BY <1>1, <1>2, <1>3, <1>4 DEF PInv

\* The order of the probes

\* How many slots ago, of two slots.
LEMMA Distance ==
  ASSUME NEW p \in Slot, NEW q \in Slot
  PROVE  (p - q) % Slots = IF q <= p THEN p - q ELSE p - q + Slots
<1> DEFINE a == p - q
           k == a \div Slots
           r == a % Slots
<1>1. Slots \in Nat \ {0} /\ p \in 0 .. Slots - 1 /\ q \in 0 .. Slots - 1
  BY BoundsAssumption DEF Slot
<1>2. a \in Int /\ - Slots < a /\ a < Slots /\ (q <= p <=> a >= 0)
  BY <1>1
<1> HIDE DEF a
<1>3. k \in Int /\ r \in 0 .. Slots - 1 /\ a = (Slots * k) + r
  BY <1>1, <1>2
<1>4. k >= 1 => Slots * k >= Slots
  BY <1>1, <1>3
<1>5. k <= -2 => Slots * k <= -2 * Slots
  BY <1>1, <1>3
<1> HIDE DEF k, r
<1>6. k \in {-1, 0}
  <2>1. ~ (k >= 1)
    BY <1>1, <1>2, <1>3, <1>4
  <2>2. ~ (k <= -2)
    BY <1>1, <1>2, <1>3, <1>5
  <2> QED BY <1>3, <2>1, <2>2
<1>7. Slots * 0 = 0 /\ Slots * (-1) = - Slots
  BY <1>1
<1>8. r = IF a >= 0 THEN a ELSE a + Slots
  <2>1. CASE k = 0
    BY <1>1, <1>2, <1>3, <1>7, <2>1
  <2>2. CASE k = -1
    BY <1>1, <1>2, <1>3, <1>7, <2>2
  <2> QED BY <1>6, <2>1, <2>2
<1> QED BY <1>1, <1>2, <1>8 DEF a, r

LEMMA NextSlot ==
  ASSUME NEW p \in Slot
  PROVE  (p + 1) % Slots = IF p + 1 = Slots THEN 0 ELSE p + 1
<1>1. Slots \in Nat \ {0} /\ p \in 0 .. Slots - 1
  BY BoundsAssumption DEF Slot
<1>2. Slots % Slots = 0
  BY <1>1
<1>3. p + 1 # Slots => (p + 1) % Slots = p + 1
  BY <1>1
<1> QED BY <1>1, <1>2, <1>3

\* Once a new probe has started, every other is one further back.
LEMMA Older ==
  ASSUME NEW n \in Slot, NEW q \in Slot, q # (n + 1) % Slots
  PROVE  (((n + 1) % Slots) - q) % Slots = ((n - q) % Slots) + 1
<1> DEFINE p == (n + 1) % Slots
<1>1. Slots \in Nat \ {0} /\ n \in 0 .. Slots - 1 /\ q \in 0 .. Slots - 1
  BY BoundsAssumption DEF Slot
<1>2. p = IF n + 1 = Slots THEN 0 ELSE n + 1
  BY NextSlot
<1>3. p \in Slot /\ p # q
  BY <1>1, <1>2 DEF Slot
<1> HIDE DEF p
<1>4. (p - q) % Slots = IF q <= p THEN p - q ELSE p - q + Slots
  BY <1>3, Distance
<1>5. (n - q) % Slots = IF q <= n THEN n - q ELSE n - q + Slots
  BY Distance
<1> DEFINE x == (p - q) % Slots
           y == (n - q) % Slots
<1> HIDE DEF x, y
<1>6. x = y + 1
  <2>1. x = (IF q <= p THEN p - q ELSE p - q + Slots) /\ y = (IF q <= n THEN n - q ELSE n - q + Slots)
    BY <1>4, <1>5 DEF x, y
  <2>2. CASE n + 1 = Slots
    <3>1. p = 0
      BY <1>2, <2>2
    <3> QED BY <1>1, <1>3, <2>1, <2>2, <3>1
  <2>3. CASE n + 1 # Slots
    <3>1. p = n + 1
      BY <1>2, <2>3
    <3> QED BY <1>1, <1>3, <2>1, <2>3, <3>1
  <2> QED BY <2>2, <2>3
<1> QED BY <1>6 DEF p, x, y

LEMMA NotOlder ==
  ASSUME TypeOK, NEW p \in Slot
  PROVE  ~ Before(p, p)
<1>1. (newest - p) % Slots = IF p <= newest THEN newest - p ELSE newest - p + Slots
  BY Distance DEF TypeOK
<1>2. (newest - p) % Slots \in Int
  BY <1>1, BoundsAssumption DEF TypeOK, Slot
<1> QED BY <1>2 DEF Before

\* Neither the loop nor who waits for what changes, and nothing ends.
LEMMA StillOrder ==
  ASSUME TypeOK, PInv, UNCHANGED <<newest, loop, on, cancelled, inflight>>,
         \A p \in Slot :
           /\ probe'[p].owner = probe[p].owner /\ probe'[p].waiters = probe[p].waiters
           /\ probe'[p].phase = "done" <=> probe[p].phase = "done"
  PROVE  PInv'
<1>1. \A i \in DOMAIN loop' : i \in Int /\ i + 0 \in DOMAIN loop /\ loop'[i] = loop[i + 0]
  BY LoopIs
<1> QED BY <1>1, QuietOrder

LEMMA SettleOrder ==
  ASSUME TInv, PInv, NEW p \in Slot, NEW verdict, Waiting(p), Settle(p, verdict),
         UNCHANGED <<newest, on, cancelled, inflight>>
  PROVE  PInv'
<1>1. TypeOK /\ Len(loop) \in Nat /\ DOMAIN loop = 1 .. Len(loop)
  BY LoopIs DEF TInv
<1>2. /\ DOMAIN loop' = 1 .. Len(loop) + 1 /\ loop'[Len(loop) + 1] = H("resume", p)
      /\ \A i \in 1 .. Len(loop) : loop'[i] = loop[i]
  <2>1. H("resume", p) \in Handle /\ loop' = Append(loop, H("resume", p))
    BY HandleType DEF Settle
  <2> QED BY <1>1, <2>1, AppendIs
<1>3. \A i \in DOMAIN loop' :
        \/ i \in Int /\ i + 0 \in DOMAIN loop /\ loop'[i] = loop[i + 0]
        \/ loop'[i] = H("resume", p)
  BY <1>1, <1>2
<1>4. \A c \in Callers : H("resume", p) # H("inner", c) /\ H("resume", p) # H("wake", c)
  BY DEF H
<1>5. \A i \in DOMAIN loop : i \in DOMAIN loop' /\ loop'[i] = loop[i]
  BY <1>1, <1>2
<1>6. \A q \in Slot :
        /\ probe'[q].owner = probe[q].owner /\ probe'[q].waiters = probe[q].waiters
        /\ probe'[q].phase = "done" <=> probe[q].phase = "done"
  <2>1. probe' = [probe EXCEPT ![p].phase = "ending", ![p].verdict = verdict]
        /\ probe[p].phase # "done"
    BY DEF Settle, Waiting
  <2> QED BY <1>1, <2>1 DEF TypeOK, Probe
<1> QED BY <1>1, <1>3, <1>4, <1>5, <1>6, QuietOrder

LEMMA StepTaskOrder ==
  ASSUME TInv, PInv, NEW p \in Slot, StepTask(p)
  PROVE  PInv'
<1>1. /\ TypeOK /\ loop # << >> /\ 1 \in DOMAIN loop /\ loop[1] = H("step", p)
      /\ Then(<< >>) /\ probe' = [probe EXCEPT ![p].phase = "queued"]
      /\ UNCHANGED <<newest, on, cancelled, inflight>>
  BY HeadIs DEF StepTask, TInv
<1>2. \A i \in DOMAIN loop' : i \in Int /\ i + 1 \in DOMAIN loop /\ loop'[i] = loop[i + 1]
  BY <1>1, TailIs
<1>3. << >> \in Seq(Handle)
  OBVIOUS
<1>4. \A i \in DOMAIN loop : i # 1 => i - 1 \in DOMAIN loop' /\ loop'[i - 1] = loop[i]
  BY <1>1, <1>3, TailStays
<1>5. \A c \in Callers : H("step", p) # H("inner", c) /\ H("step", p) # H("wake", c)
  BY DEF H
<1>6. \A i \in DOMAIN loop, c \in Callers :
        loop[i] = H("inner", c) \/ loop[i] = H("wake", c) =>
          \E j \in DOMAIN loop' : loop'[j] = loop[i]
  BY <1>1, <1>4, <1>5
<1>7. \A q \in Slot :
        /\ probe'[q].owner = probe[q].owner /\ probe'[q].waiters = probe[q].waiters
        /\ probe'[q].phase = "done" <=> probe[q].phase = "done"
  <2>1. probe[p].phase = "new"
    BY <1>1 DEF TInv, Tasks
  <2> QED BY <1>1, <2>1 DEF TypeOK, Probe
<1> QED BY <1>1, <1>2, <1>6, <1>7, QuietOrder

\* A caller leaves, and clears the probe in flight if it started that one.
LEMMA LeaveOrder ==
  ASSUME TInv, PInv, NEW c \in Callers, Wake(c) \/ WakeCancelled(c)
  PROVE  PInv'
<1>1. /\ TypeOK /\ loop # << >> /\ 1 \in DOMAIN loop /\ loop[1] = H("wake", c)
      /\ Then(<< >>) /\ UNCHANGED <<newest, probe>> /\ ClearInflight(c)
      /\ on' = [on EXCEPT ![c] = None] /\ cancelled' = cancelled \ {c}
  BY HeadIs DEF Wake, WakeCancelled, TInv
<1>2. on'[c] = None /\ \A d \in Callers \ {c} : on'[d] = on[d]
  BY <1>1 DEF TypeOK
<1>3. \A d \in Callers \ cancelled' : on'[d] # None => d \notin cancelled /\ on'[d] = on[d]
  BY <1>1, <1>2
<1>4. \A i \in DOMAIN loop' : i \in Int /\ i + 1 \in DOMAIN loop /\ loop'[i] = loop[i + 1]
  BY <1>1, TailIs
<1>5. << >> \in Seq(Handle)
  OBVIOUS
<1>6. \A i \in DOMAIN loop : i # 1 => i - 1 \in DOMAIN loop' /\ loop'[i - 1] = loop[i]
  BY <1>1, <1>5, TailStays
<1>7. \A d \in Callers : (H("wake", c) = H("inner", d) \/ H("wake", c) = H("wake", d)) => d = c
  BY DEF H
<1>8. \A i \in DOMAIN loop, d \in Callers :
        (loop[i] = H("inner", d) \/ loop[i] = H("wake", d)) /\ on'[d] # None =>
          \E j \in DOMAIN loop' : loop'[j] = loop[i]
  BY <1>1, <1>2, <1>6, <1>7
<1>9. inflight' \in {inflight, None}
  BY <1>1 DEF ClearInflight
<1>10. inflight' # None => on'[probe[inflight].owner] = on[probe[inflight].owner]
  <2> SUFFICES ASSUME inflight' # None
               PROVE  on'[probe[inflight].owner] = on[probe[inflight].owner]
    OBVIOUS
  <2>1. inflight' = inflight /\ ~ (Owns(c) /\ inflight = on[c])
    BY <1>1 DEF ClearInflight
  <2>2. probe[inflight].owner \in Callers /\ on[probe[inflight].owner] = inflight
    BY <2>1 DEF PInv, Flown
  <2>3. probe[inflight].owner # c
    BY <2>1, <2>2 DEF Owns
  <2> QED BY <1>2, <2>2, <2>3
<1> QED BY <1>1, <1>3, <1>4, <1>8, <1>9, <1>10, QuietOrder

LEMMA CancelOrder ==
  ASSUME TInv, PInv, NEW c \in Callers, Cancel(c)
  PROVE  PInv'
<1> DEFINE p == on[c]
           left == Left(probe[p].waiters, c)
           n == Len(loop)
<1>1. TypeOK /\ cancelled' = cancelled \cup {c} /\ UNCHANGED <<newest, on, inflight>>
  BY DEF TInv, Cancel
<1>2. /\ p \in Slot /\ n \in Nat /\ DOMAIN loop = 1 .. n
      /\ \A j \in DOMAIN probe[p].waiters :
           probe[p].waiters[j] # c => \E i \in DOMAIN left : left[i] = probe[p].waiters[j]
      /\ probe'[p].waiters = left
      /\ \A q \in Slot : /\ probe'[q].phase = probe[q].phase
                         /\ probe'[q].owner = probe[q].owner
      /\ \A q \in Slot \ {p} : probe'[q].waiters = probe[q].waiters
      /\ \A i \in DOMAIN loop : i \in DOMAIN loop' /\ loop'[i] = loop[i]
      /\ \A i \in DOMAIN loop' :
           (i \in DOMAIN loop /\ loop'[i] = loop[i]) \/ loop'[i] = H("wake", c)
  BY CancelIs
<1>3. probe[p].waiters = << >> => left = << >>
  BY DEF Left
<1> HIDE DEF p, left, n
<1>4. \A i \in DOMAIN loop' :
        \/ i \in Int /\ i + 0 \in DOMAIN loop /\ loop'[i] = loop[i + 0]
        \/ loop'[i] = H("wake", c)
  BY <1>2
<1>5. \A d \in Callers \ cancelled' : H("wake", c) # H("inner", d) /\ H("wake", c) # H("wake", d)
  BY <1>1 DEF H
<1>6. \A q \in Slot :
        /\ probe[q].waiters = << >> => probe'[q].waiters = << >>
        /\ \A i \in DOMAIN probe[q].waiters : probe[q].waiters[i] \notin cancelled' =>
             \E j \in DOMAIN probe'[q].waiters : probe'[q].waiters[j] = probe[q].waiters[i]
  <2>1. ASSUME NEW q \in Slot
        PROVE  /\ probe[q].waiters = << >> => probe'[q].waiters = << >>
               /\ \A i \in DOMAIN probe[q].waiters : probe[q].waiters[i] \notin cancelled' =>
                    \E j \in DOMAIN probe'[q].waiters : probe'[q].waiters[j] = probe[q].waiters[i]
    <3>1. CASE q = p
      BY <1>1, <1>2, <1>3, <3>1
    <3>2. CASE q # p
      <4>1. probe'[q].waiters = probe[q].waiters
        BY <1>2, <2>1, <3>2
      <4> QED BY <4>1
    <3> QED BY <3>1, <3>2
  <2> QED BY <2>1
<1>7. /\ \A d \in Callers \ cancelled' : on'[d] # None => d \notin cancelled /\ on'[d] = on[d]
      /\ \A q \in Slot : /\ probe'[q].owner = probe[q].owner
                         /\ probe'[q].phase = "done" <=> probe[q].phase = "done"
      /\ inflight' \in {inflight, None}
      /\ inflight' # None => on'[probe[inflight].owner] = on[probe[inflight].owner]
  BY <1>1, <1>2
<1>8. \A i \in DOMAIN loop, d \in Callers :
        (loop[i] = H("inner", d) \/ loop[i] = H("wake", d)) /\ on'[d] # None =>
          \E j \in DOMAIN loop' : loop'[j] = loop[i]
  BY <1>2
<1>9. \A i \in DOMAIN loop' :
        \/ i \in Int /\ i + 0 \in DOMAIN loop /\ loop'[i] = loop[i + 0]
        \/ \A d \in Callers \ cancelled' : loop'[i] # H("inner", d) /\ loop'[i] # H("wake", d)
  BY <1>4, <1>5
<1> QED BY <1>1, <1>6, <1>7, <1>8, <1>9, QuietOrder

\* Whoever joins a probe is not its starter, who waits for it already.
LEMMA JoinOrder ==
  ASSUME TInv, PInv, NEW c \in Callers, Join(c)
  PROVE  PInv'
<1> DEFINE p == inflight
           w == probe[p].waiters
<1>1. /\ TypeOK /\ on[c] = None /\ p \in Slot /\ p # None /\ probe[p].phase # "done"
      /\ on' = [on EXCEPT ![c] = p]
      /\ probe' = [probe EXCEPT ![p].waiters = Append(@, c)]
      /\ UNCHANGED <<newest, loop, cancelled, inflight>>
  BY DEF TInv, TypeOK, Join, InFlight
<1>2. /\ Len(w) \in Nat /\ DOMAIN w = 1 .. Len(w)
      /\ DOMAIN Append(w, c) = 1 .. Len(w) + 1
      /\ \A i \in 1 .. Len(w) : Append(w, c)[i] = w[i]
      /\ Append(w, c)[Len(w) + 1] = c
  BY <1>1, WaitersAre, AppendProperties, LenProperties
<1>3. /\ \A q \in Slot : probe'[q].owner = probe[q].owner /\ probe'[q].phase = probe[q].phase
      /\ probe'[p].waiters = Append(w, c)
      /\ \A q \in Slot \ {p} : probe'[q].waiters = probe[q].waiters
  BY <1>1 DEF TypeOK, Probe
<1>4. on'[c] = p /\ \A d \in Callers \ {c} : on'[d] = on[d]
  BY <1>1 DEF TypeOK
<1>5. probe[p].owner \in Callers /\ probe[p].owner # c
  BY <1>1 DEF PInv, Flown
<1>6. /\ Len(w) + 1 \in DOMAIN probe'[p].waiters /\ probe'[p].waiters[Len(w) + 1] = c
      /\ \A i \in DOMAIN w : i \in DOMAIN probe'[p].waiters /\ probe'[p].waiters[i] = w[i]
  BY <1>2, <1>3
<1> HIDE DEF p, w
<1>7. Waits'
  <2> SUFFICES ASSUME NEW d \in Callers \ cancelled, on'[d] # None
               PROVE  OnBooks(d)' \/ Called(d)'
    BY <1>1 DEF Waits
  <2>1. CASE d = c
    BY <1>4, <1>6, <2>1 DEF OnBooks
  <2>2. CASE d # c
    <3>1. on'[d] = on[d] /\ on[d] \in Slot
      BY <1>1, <1>4, <2>2 DEF TypeOK
    <3>2. CASE OnBooks(d)
      <4>1. CASE on[d] = p
        BY <1>6, <3>1, <3>2, <4>1 DEF OnBooks, w
      <4>2. CASE on[d] # p
        BY <1>3, <3>1, <3>2, <4>2 DEF OnBooks
      <4> QED BY <4>1, <4>2
    <3>3. CASE Called(d)
      BY <1>1, <3>3 DEF Called
    <3> QED BY <3>1, <3>2, <3>3 DEF PInv, Waits
  <2> QED BY <2>1, <2>2
<1>8. Emptied'
  BY <1>1, <1>3 DEF PInv, Emptied
<1>9. Flown'
  BY <1>1, <1>3, <1>4, <1>5 DEF PInv, Flown, p
<1>10. Ordered'
  <2>1. \A d \in Callers \ cancelled' : Owns(d)' => d \notin cancelled /\ on'[d] = on[d]
    BY <1>1, <1>3, <1>4, <1>5 DEF Owns
  <2>2. \A i \in DOMAIN loop' : i \in Int /\ i + 0 \in DOMAIN loop /\ loop'[i] = loop[i + 0]
    BY <1>1, LoopIs
  <2> QED BY <1>1, <1>3, <2>1, <2>2, OrderKeeps DEF PInv
<1> QED BY <1>7, <1>8, <1>9, <1>10 DEF PInv

\* The new probe is younger than all, and those its starter could not join are done.
LEMMA StartOrder ==
  ASSUME TInv, OwnedIsInflight, PInv, NEW c \in Callers, Start(c)
  PROVE  PInv'
<1> DEFINE p == (newest + 1) % Slots
           since(q) == (p - q) % Slots
           before(q) == (newest - q) % Slots
<1>1. /\ TypeOK /\ on[c] = None /\ ~ InFlight /\ inflight' = p /\ newest' = p
      /\ cancelled' = cancelled
      /\ on' = [on EXCEPT ![c] = p] /\ probe' = [probe EXCEPT ![p] = Started(c)]
      /\ loop' = Append(loop, H("step", p))
      /\ \A d \in Callers : on[d] # p
  BY DEF TInv, Start
<1>2. p \in Slot /\ newest \in Slot
  <2>1. newest \in Slot /\ newest + 1 \in Nat
    BY <1>1 DEF TypeOK, Slot
  <2> QED BY <2>1, SlotType
<1>3. \A q \in Slot : q # p => since(q) = before(q) + 1
  BY <1>2, Older
<1>4. since(p) = 0 /\ Slots \in Nat \ {0}
  <2>1. (p - p) % Slots = IF p <= p THEN p - p ELSE p - p + Slots
    BY <1>2, Distance
  <2>2. p \in Int
    BY <1>2, BoundsAssumption DEF Slot
  <2> QED BY <2>1, <2>2, BoundsAssumption
<1>5. \A q \in Slot : before(q) \in Nat /\ since(q) \in Nat
  <2>1. \A q \in Slot : newest - q \in Int /\ p - q \in Int
    BY <1>2, BoundsAssumption DEF Slot
  <2> QED BY <1>4, <2>1
<1>6. /\ \A q, r \in Slot : Before(q, r)' <=> since(q) > since(r)
      /\ \A q, r \in Slot : Before(q, r) <=> before(q) > before(r)
  BY <1>1 DEF Before
<1> HIDE DEF p, since, before
<1>7. \A q, r \in Slot : q # p /\ r # p /\ Before(q, r)' => Before(q, r)
  <2>1. ASSUME NEW q \in Slot, NEW r \in Slot, q # p, r # p, since(q) > since(r)
        PROVE  before(q) > before(r)
    BY <1>3, <1>5, <2>1
  <2> QED BY <1>6, <2>1
<1>8. \A r \in Slot : ~ (since(p) > since(r))
  BY <1>4, <1>5
<1>9. on'[c] = p /\ p # None /\ \A d \in Callers \ {c} : on'[d] = on[d]
  BY <1>1, <1>2, NoneAssumption DEF TypeOK, Slot
<1>10. /\ probe'[p] = Started(c)
       /\ \A q \in Slot \ {p} : probe'[q] = probe[q]
  BY <1>1, <1>2 DEF TypeOK
<1>11. /\ Started(c).owner = c /\ Started(c).phase = "new"
       /\ Started(c).waiters = <<c>> /\ 1 \in DOMAIN <<c>> /\ <<c>>[1] = c
  BY DEF Started
<1>12. /\ Len(loop) \in Nat /\ DOMAIN loop = 1 .. Len(loop)
       /\ DOMAIN loop' = 1 .. Len(loop) + 1 /\ loop'[Len(loop) + 1] = H("step", p)
       /\ \A i \in 1 .. Len(loop) : loop'[i] = loop[i]
  BY <1>1, <1>2, LoopIs, HandleType, AppendIs
<1>13. /\ \A i \in DOMAIN loop : i \in DOMAIN loop' /\ loop'[i] = loop[i]
       /\ \A i \in DOMAIN loop' : (i \in DOMAIN loop /\ loop'[i] = loop[i]) \/ loop'[i] = H("step", p)
  BY <1>12
<1>14. Waits'
  <2> SUFFICES ASSUME NEW d \in Callers \ cancelled, on'[d] # None
               PROVE  OnBooks(d)' \/ Called(d)'
    BY <1>1 DEF Waits
  <2>1. CASE d = c
    BY <1>9, <1>10, <1>11, <2>1 DEF OnBooks
  <2>2. CASE d # c
    <3>1. on'[d] = on[d] /\ on[d] \in Slot \ {p}
      BY <1>1, <1>9, <2>2 DEF TypeOK
    <3>2. OnBooks(d) => OnBooks(d)'
      BY <1>10, <3>1 DEF OnBooks
    <3>3. Called(d) => Called(d)'
      BY <1>13 DEF Called
    <3> QED BY <3>1, <3>2, <3>3 DEF PInv, Waits
  <2> QED BY <2>1, <2>2
<1>15. Emptied'
  <2>1. ASSUME NEW q \in Slot, probe'[q].phase = "done" PROVE probe'[q].waiters = << >>
    <3>1. q # p
      BY <1>10, <1>11, <2>1
    <3>2. probe'[q] = probe[q]
      BY <1>10, <3>1
    <3> QED BY <2>1, <3>2 DEF PInv, Emptied
  <2> QED BY <2>1 DEF Emptied
<1>16. Flown'
  BY <1>1, <1>9, <1>10, <1>11 DEF Flown
<1>17. Ordered'
  <2> SUFFICES ASSUME NEW a \in Callers \ cancelled, NEW d \in Callers \ cancelled,
                      Owns(a)', Owns(d)', Before(on[d], on[a])'
               PROVE  /\ probe'[on'[d]].phase = "done"
                      /\ \A i, j \in DOMAIN loop' :
                           /\ loop'[j] = H("inner", a) /\ loop'[i] = H("inner", d) => i < j
                           /\ loop'[j] = H("wake", a) =>
                                loop'[i] # H("inner", d) /\ (loop'[i] = H("wake", d) => i < j)
    BY <1>1 DEF Ordered
  <2>1. on'[a] \in Slot
    BY <1>1, <1>2, <1>9 DEF Owns, TypeOK
  <2>2. d # c
    <3>1. SUFFICES ASSUME d = c PROVE FALSE
      OBVIOUS
    <3>2. on'[d] = p
      BY <1>9, <3>1
    <3>3. since(p) > since(on'[a])
      BY <1>1, <3>2 DEF Before, since
    <3> QED BY <1>8, <2>1, <3>3
  <2>3. on'[d] = on[d] /\ on[d] \in Slot \ {p} /\ probe'[on[d]] = probe[on[d]]
    BY <1>1, <1>9, <1>10, <2>2 DEF Owns, TypeOK
  <2>4. Owns(d)
    BY <2>3 DEF Owns
  <2>5. probe[on[d]].phase = "done"
    <3>1. SUFFICES ASSUME probe[on[d]].phase # "done" PROVE FALSE
      OBVIOUS
    <3>2. inflight = on[d] /\ inflight # None
      BY <2>4, <3>1 DEF OwnedIsInflight, Owns
    <3> QED BY <1>1, <3>1, <3>2 DEF InFlight
  <2>6. \A x \in Callers : H("step", p) # H("inner", x) /\ H("step", p) # H("wake", x)
    BY DEF H
  <2>7. CASE a = c
    <3>1. \A j \in DOMAIN loop : loop[j] # H("inner", c) /\ loop[j] # H("wake", c)
      BY <1>1 DEF TInv, Shields
    <3>2. \A j \in DOMAIN loop' : loop'[j] # H("inner", a) /\ loop'[j] # H("wake", a)
      BY <1>13, <2>6, <2>7, <3>1
    <3> QED BY <2>3, <2>5, <3>2
  <2>8. CASE a # c
    <3>1. on'[a] = on[a] /\ on[a] \in Slot \ {p} /\ probe'[on[a]] = probe[on[a]]
      BY <1>1, <1>9, <1>10, <2>8 DEF Owns, TypeOK
    <3>2. Owns(a) /\ Before(on[d], on[a])
      BY <1>7, <2>3, <3>1 DEF Owns, Before
    <3>3. ASSUME NEW i \in DOMAIN loop', NEW j \in DOMAIN loop'
          PROVE  /\ loop'[j] = H("inner", a) /\ loop'[i] = H("inner", d) => i < j
                 /\ loop'[j] = H("wake", a) =>
                      loop'[i] # H("inner", d) /\ (loop'[i] = H("wake", d) => i < j)
      <4>1. CASE i \in DOMAIN loop /\ loop'[i] = loop[i] /\ j \in DOMAIN loop /\ loop'[j] = loop[j]
        BY <2>4, <3>2, <4>1 DEF PInv, Ordered
      <4>2. CASE loop'[i] = H("step", p) \/ loop'[j] = H("step", p)
        BY <2>6, <4>2
      <4> QED BY <1>13, <4>1, <4>2
    <3> QED BY <2>3, <2>5, <3>3
  <2> QED BY <2>7, <2>8
<1> QED BY <1>14, <1>15, <1>16, <1>17 DEF PInv

\* The waiters of a probe that ends come after those of the probes that are done.
LEMMA EndsOrder ==
  ASSUME TInv, PInv, NEW p \in Slot, NEW verdict \in BOOLEAN, Ends(p, verdict),
         IsNext("step", p) \/ IsNext("resume", p),
         UNCHANGED <<newest, on, cancelled, inflight>>
  PROVE  PInv'
<1> DEFINE n == Len(loop)
           waiters == probe[p].waiters
           k == Len(waiters)
<1>1. /\ n \in Nat \ {0} /\ DOMAIN loop = 1 .. n
      /\ loop[1] \in {H("step", p), H("resume", p)}
      /\ k \in Nat /\ DOMAIN waiters = 1 .. k /\ \A i \in 1 .. k : waiters[i] \in Callers
      /\ DOMAIN loop' = 1 .. n - 1 + k
      /\ \A i \in 1 .. n - 1 : loop'[i] = loop[i + 1]
      /\ \A i \in 1 .. k : loop'[n - 1 + i] = H("inner", waiters[i])
      /\ probe'[p].phase = "done"
      /\ probe'[p].waiters = << >> /\ probe'[p].owner = probe[p].owner
      /\ \A q \in Slot \ {p} : probe'[q] = probe[q]
      /\ \A i \in DOMAIN loop' :
           \/ i \in 1 .. n - 1 /\ i + 1 \in 2 .. n /\ loop'[i] = loop[i + 1]
           \/ /\ i - (n - 1) \in 1 .. k
              /\ loop'[i] = H("inner", waiters[i - (n - 1)])
  BY EndsIs
<1>2. TypeOK /\ probe[p].phase # "done"
  <2>1. 1 \in DOMAIN loop
    BY <1>1
  <2> QED BY <1>1, <2>1 DEF TInv, Tasks
<1>3. \A i \in 1 .. k : on[waiters[i]] = p
  BY <1>1 DEF TInv, Books
<1> HIDE DEF n, k, waiters
<1>4. \A d \in Callers : /\ loop[1] # H("inner", d) /\ loop[1] # H("wake", d)
  BY <1>1 DEF H
<1>5. Waits'
  <2> SUFFICES ASSUME NEW d \in Callers \ cancelled, on[d] # None
               PROVE  OnBooks(d)' \/ Called(d)'
    BY DEF Waits
  <2>1. on[d] \in Slot
    BY <1>2 DEF TypeOK
  <2>2. CASE OnBooks(d) /\ on[d] = p
    <3>1. PICK i \in 1 .. k : waiters[i] = d
      BY <1>1, <2>2 DEF OnBooks, waiters
    <3>2. n - 1 + i \in DOMAIN loop' /\ loop'[n - 1 + i] = H("inner", d)
      <4>1. n - 1 + i \in 1 .. n - 1 + k
        BY <1>1
      <4> QED BY <1>1, <3>1, <4>1
    <3> QED BY <3>2 DEF Called
  <2>3. CASE OnBooks(d) /\ on[d] # p
    BY <1>1, <2>1, <2>3 DEF OnBooks
  <2>4. CASE Called(d)
    <3>1. PICK i \in DOMAIN loop : loop[i] = H("inner", d) \/ loop[i] = H("wake", d)
      BY <2>4 DEF Called
    <3>2. i # 1
      BY <1>4, <3>1
    <3>3. i - 1 \in 1 .. n - 1 /\ i - 1 + 1 = i /\ i - 1 \in 1 .. n - 1 + k
      BY <1>1, <3>2
    <3>4. i - 1 \in DOMAIN loop' /\ loop'[i - 1] = loop[i]
      BY <1>1, <3>3
    <3> QED BY <3>1, <3>4 DEF Called
  <2> QED BY <2>2, <2>3, <2>4 DEF PInv, Waits
<1>6. Emptied'
  <2>1. ASSUME NEW q \in Slot, probe'[q].phase = "done" PROVE probe'[q].waiters = << >>
    BY <1>1, <2>1 DEF PInv, Emptied
  <2> QED BY <2>1 DEF Emptied
<1>7. \A q \in Slot : probe'[q].owner = probe[q].owner
  BY <1>1
<1>8. Flown'
  BY <1>2, <1>7 DEF PInv, Flown, TypeOK
<1>9. Ordered'
  <2> SUFFICES ASSUME NEW a \in Callers \ cancelled, NEW d \in Callers \ cancelled,
                      Owns(a)', Owns(d)', Before(on[d], on[a])'
               PROVE  /\ probe'[on[d]].phase = "done"
                      /\ \A i, j \in DOMAIN loop' :
                           /\ loop'[j] = H("inner", a) /\ loop'[i] = H("inner", d) => i < j
                           /\ loop'[j] = H("wake", a) =>
                                loop'[i] # H("inner", d) /\ (loop'[i] = H("wake", d) => i < j)
    BY DEF Ordered
  <2>1. on[a] \in Slot /\ on[d] \in Slot
    BY <1>2 DEF Owns, TypeOK
  <2>2. Owns(a) /\ Owns(d) /\ Before(on[d], on[a])
    BY <1>7, <2>1 DEF Owns, Before
  <2>3. probe[on[d]].phase = "done" /\ on[d] # p
    BY <1>2, <2>2 DEF PInv, Ordered
  <2>4. probe'[on[d]].phase = "done"
    BY <1>1, <2>1, <2>3
\* None of those told started the older probe.
  <2>5. \A i \in 1 .. k : H("inner", waiters[i]) # H("inner", d)
    <3>1. \A i \in 1 .. k : waiters[i] # d
      BY <1>3, <2>3
    <3> QED BY <3>1 DEF H
  <2>6. \A i \in 1 .. k : \A x \in Callers : H("inner", waiters[i]) # H("wake", x)
    BY DEF H
  <2>7. ASSUME NEW i \in DOMAIN loop', NEW j \in DOMAIN loop'
        PROVE  /\ loop'[j] = H("inner", a) /\ loop'[i] = H("inner", d) => i < j
               /\ loop'[j] = H("wake", a) =>
                    loop'[i] # H("inner", d) /\ (loop'[i] = H("wake", d) => i < j)
    <3>1. CASE loop'[i] # H("inner", d) /\ loop'[i] # H("wake", d)
      BY <3>1
    <3>2. CASE loop'[i] = H("inner", d) \/ loop'[i] = H("wake", d)
      <4>1. i \in 1 .. n - 1 /\ i + 1 \in DOMAIN loop /\ loop'[i] = loop[i + 1]
        BY <1>1, <2>5, <2>6, <3>2
      <4>2. CASE j \in 1 .. n - 1 /\ j + 1 \in 2 .. n /\ loop'[j] = loop[j + 1]
        <5>1. /\ j + 1 \in DOMAIN loop
              /\ i + 1 < j + 1 <=> i < j
          BY <1>1, <4>1, <4>2
        <5>2. /\ loop[j + 1] = H("inner", a) /\ loop[i + 1] = H("inner", d) => i + 1 < j + 1
              /\ loop[j + 1] = H("wake", a) =>
                   loop[i + 1] # H("inner", d) /\ (loop[i + 1] = H("wake", d) => i + 1 < j + 1)
          BY <2>2, <4>1, <5>1 DEF PInv, Ordered
        <5> QED BY <4>1, <4>2, <5>1, <5>2
      <4>3. CASE j - (n - 1) \in 1 .. k /\ loop'[j] = H("inner", waiters[j - (n - 1)])
        <5>1. i < j
          BY <1>1, <4>1, <4>3
        <5>2. loop'[j] # H("wake", a)
          BY <2>6, <4>3
        <5> QED BY <5>1, <5>2
      <4> QED BY <1>1, <4>2, <4>3
    <3> QED BY <3>1, <3>2
  <2> QED BY <2>4, <2>7
<1> QED BY <1>5, <1>6, <1>8, <1>9 DEF PInv

\* A shield's turn: its caller comes after those whose shields were told earlier.
LEMMA InnerOrder ==
  ASSUME TInv, PInv, NEW c \in Callers, Inner(c)
  PROVE  PInv'
<1> DEFINE n == Len(loop)
           handles == IF c \in cancelled THEN << >> ELSE <<H("wake", c)>>
<1>1. /\ TypeOK /\ loop # << >> /\ 1 \in DOMAIN loop /\ loop[1] = H("inner", c)
      /\ \A i \in DOMAIN loop : loop[i] = H("inner", c) => i = 1
      /\ UNCHANGED <<newest, probe, on, cancelled, inflight>>
  BY HeadIs DEF Inner, TInv
<1>2. /\ handles \in Seq(Handle)
      /\ c \in cancelled => Len(handles) = 0
      /\ c \notin cancelled => Len(handles) = 1 /\ handles[1] = H("wake", c)
  BY HandleType
<1>3. Then(handles)
  BY DEF Inner
<1> HIDE DEF handles
<1>4. /\ n \in Nat \ {0} /\ DOMAIN loop = 1 .. n
      /\ DOMAIN loop' = 1 .. n - 1 + Len(handles)
      /\ \A i \in 1 .. n - 1 : loop'[i] = loop[i + 1]
      /\ \A i \in 1 .. Len(handles) : loop'[n - 1 + i] = handles[i]
  BY <1>1, <1>2, <1>3, ThenIs, LoopIs
<1>5. c \notin cancelled => n \in DOMAIN loop' /\ loop'[n] = H("wake", c)
  <2> SUFFICES ASSUME c \notin cancelled
               PROVE  n \in DOMAIN loop' /\ loop'[n] = H("wake", c)
    OBVIOUS
  <2>1. Len(handles) = 1 /\ handles[1] = H("wake", c)
    BY <1>2
  <2>2. DOMAIN loop' = 1 .. n - 1 + 1 /\ loop'[n - 1 + 1] = H("wake", c)
    BY <1>4, <2>1
  <2>3. n - 1 + 1 = n /\ n \in 1 .. n
    BY <1>4
  <2> QED BY <2>2, <2>3
<1>6. \A i \in DOMAIN loop' :
        \/ i \in 1 .. n - 1 /\ i + 1 \in DOMAIN loop /\ i + 1 # 1 /\ loop'[i] = loop[i + 1]
        \/ i = n /\ loop'[i] = H("wake", c) /\ c \notin cancelled
  <2>1. CASE c \in cancelled
    <3>1. DOMAIN loop' = 1 .. n - 1
      BY <1>2, <1>4, <2>1
    <3> QED BY <1>4, <3>1
  <2>2. CASE c \notin cancelled
    <3>1. n - 1 + 1 = n /\ Len(handles) = 1
      BY <1>2, <1>4, <2>2
    <3>2. DOMAIN loop' = 1 .. n
      BY <1>4, <3>1
    <3> QED BY <1>4, <1>5, <2>2, <3>2
  <2> QED BY <2>1, <2>2
<1>7. \A i \in DOMAIN loop : i # 1 => i - 1 \in DOMAIN loop' /\ loop'[i - 1] = loop[i]
  BY <1>1, <1>2, <1>3, TailStays
<1>8. Waits'
  <2> SUFFICES ASSUME NEW d \in Callers \ cancelled, on[d] # None
               PROVE  OnBooks(d)' \/ Called(d)'
    BY <1>1 DEF Waits
  <2>1. CASE OnBooks(d)
    BY <1>1, <2>1 DEF OnBooks
  <2>2. CASE Called(d) /\ d # c
    <3>1. PICK i \in DOMAIN loop : loop[i] = H("inner", d) \/ loop[i] = H("wake", d)
      BY <2>2 DEF Called
    <3>2. i # 1
      BY <1>1, <2>2, <3>1 DEF H
    <3> QED BY <1>7, <3>1, <3>2 DEF Called
  <2>3. CASE d = c
    BY <1>5, <2>3 DEF Called
  <2> QED BY <2>1, <2>2, <2>3 DEF PInv, Waits
<1>9. Emptied' /\ Flown'
  BY <1>1 DEF PInv, Emptied, Flown
<1>10. Ordered'
  <2> SUFFICES ASSUME NEW a \in Callers \ cancelled, NEW d \in Callers \ cancelled,
                      Owns(a), Owns(d), Before(on[d], on[a]),
                      NEW i \in DOMAIN loop', NEW j \in DOMAIN loop'
               PROVE  /\ probe[on[d]].phase = "done"
                      /\ loop'[j] = H("inner", a) /\ loop'[i] = H("inner", d) => i < j
                      /\ loop'[j] = H("wake", a) =>
                           loop'[i] # H("inner", d) /\ (loop'[i] = H("wake", d) => i < j)
    <3>1. ASSUME NEW a \in Callers \ cancelled, NEW d \in Callers \ cancelled,
                 Owns(a), Owns(d), Before(on[d], on[a])
          PROVE  probe[on[d]].phase = "done"
      BY <3>1 DEF PInv, Ordered
    <3>2. /\ \A a \in Callers : Owns(a)' <=> Owns(a)
          /\ \A a, d \in Callers : Before(on[d], on[a])' <=> Before(on[d], on[a])
      BY <1>1 DEF Owns, Before
    <3> QED BY <1>1, <3>1, <3>2 DEF Ordered
  <2>1. a # d
    <3>1. on[d] \in Slot
      BY <1>1 DEF Owns, TypeOK
    <3> QED BY <1>1, <3>1, NotOlder
  <2>2. \A x, y \in Callers :
          /\ H("wake", x) # H("inner", y) /\ (H("wake", x) = H("wake", y) => x = y)
          /\ (H("inner", x) = H("inner", y) => x = y)
    BY DEF H
  <2>3. probe[on[d]].phase = "done"
    BY DEF PInv, Ordered
  <2>4. \A x, y \in DOMAIN loop :
          /\ loop[y] = H("inner", a) /\ loop[x] = H("inner", d) => x < y
          /\ loop[y] = H("wake", a) =>
               loop[x] # H("inner", d) /\ (loop[x] = H("wake", d) => x < y)
    BY DEF PInv, Ordered
  <2>5. CASE /\ i \in 1 .. n - 1 /\ i + 1 \in DOMAIN loop /\ loop'[i] = loop[i + 1]
             /\ j \in 1 .. n - 1 /\ j + 1 \in DOMAIN loop /\ loop'[j] = loop[j + 1]
    <3>1. i + 1 < j + 1 <=> i < j
      BY <1>4, <2>5
    <3>2. /\ loop[j + 1] = H("inner", a) /\ loop[i + 1] = H("inner", d) => i + 1 < j + 1
          /\ loop[j + 1] = H("wake", a) =>
               loop[i + 1] # H("inner", d) /\ (loop[i + 1] = H("wake", d) => i + 1 < j + 1)
      BY <2>4, <2>5
    <3> QED BY <2>3, <2>5, <3>1, <3>2
\* Its own turn comes last, and no earlier starter's shield is still to run.
  <2>6. CASE /\ i \in 1 .. n - 1 /\ i + 1 \in DOMAIN loop /\ i + 1 # 1 /\ loop'[i] = loop[i + 1]
             /\ j = n /\ loop'[j] = H("wake", c)
    <3>1. i < j
      BY <1>4, <2>6
    <3>2. loop'[j] = H("wake", a) => loop'[i] # H("inner", d)
      <4> SUFFICES ASSUME a = c, loop[i + 1] = H("inner", d) PROVE FALSE
        BY <2>2, <2>6
      <4>1. i + 1 < 1
        BY <1>1, <2>4, <2>6
      <4> QED BY <1>4, <2>6, <4>1
    <3> QED BY <2>3, <3>1, <3>2
  <2>7. CASE /\ i = n /\ loop'[i] = H("wake", c)
             /\ j \in 1 .. n - 1 /\ j + 1 \in DOMAIN loop /\ loop'[j] = loop[j + 1]
    <3>1. loop'[i] # H("inner", d)
      BY <2>2, <2>7
    <3>2. d = c => loop'[j] # H("wake", a)
      BY <1>1, <2>4, <2>7
    <3> QED BY <2>2, <2>3, <2>7, <3>1, <3>2
  <2>8. CASE i = n /\ loop'[i] = H("wake", c) /\ j = n /\ loop'[j] = H("wake", c)
    BY <2>1, <2>2, <2>3, <2>8
  <2> QED BY <1>6, <2>5, <2>6, <2>7, <2>8
<1> QED BY <1>8, <1>9, <1>10 DEF PInv

LEMMA OrderInit == Init => PInv
<1> SUFFICES ASSUME Init PROVE PInv
  OBVIOUS
<1>1. /\ inflight = None /\ \A c \in Callers : on[c] = None
      /\ \A p \in Slot : probe[p].waiters = << >>
  BY DEF Init, Unused
<1> QED BY <1>1 DEF PInv, Waits, Emptied, Flown, Ordered, Owns

LEMMA OrderStep == TInv /\ OwnedIsInflight /\ PInv /\ [Next]_vars => PInv'
<1> SUFFICES ASSUME TInv, OwnedIsInflight, PInv, [Next]_vars PROVE PInv'
  OBVIOUS
<1>1. TypeOK
  BY DEF TInv
<1>2. ASSUME NEW p \in Slot, StepReleased(p) \/ Resume(p) PROVE PInv'
  <2>1. \E verdict \in BOOLEAN : Ends(p, verdict)
    BY <1>1, <1>2 DEF StepReleased, Resume, TypeOK, Probe
  <2>2. /\ IsNext("step", p) \/ IsNext("resume", p)
        /\ UNCHANGED <<newest, on, cancelled, inflight>>
    BY <1>2 DEF StepReleased, Resume
  <2> QED BY <2>1, <2>2, EndsOrder
<1>3. ASSUME NEW c \in Callers, FromCache(c) PROVE PInv'
  <2>1. UNCHANGED <<newest, loop, on, cancelled, inflight, probe>>
    BY <1>3 DEF FromCache
  <2> QED BY <1>1, <2>1, StillOrder
<1>4. ASSUME NEW p \in Slot, WorkerStarts(p) PROVE PInv'
  <2>1. /\ UNCHANGED <<newest, loop, on, cancelled, inflight>> /\ probe[p].phase = "queued"
        /\ probe' = [probe EXCEPT ![p].phase = "running"]
    BY <1>4 DEF WorkerStarts
  <2>2. \A q \in Slot :
          /\ probe'[q].owner = probe[q].owner /\ probe'[q].waiters = probe[q].waiters
          /\ probe'[q].phase = "done" <=> probe[q].phase = "done"
    BY <1>1, <2>1 DEF TypeOK, Probe
  <2> QED BY <1>1, <2>1, <2>2, StillOrder
<1>5. ASSUME NEW p \in Slot, TimeoutLate(p) PROVE PInv'
  <2>1. /\ UNCHANGED <<newest, loop, on, cancelled, inflight>>
        /\ probe' = [probe EXCEPT ![p].verdict = FALSE]
    BY <1>5 DEF TimeoutLate
  <2>2. \A q \in Slot :
          /\ probe'[q].owner = probe[q].owner /\ probe'[q].waiters = probe[q].waiters
          /\ probe'[q].phase = "done" <=> probe[q].phase = "done"
    BY <1>1, <2>1 DEF TypeOK, Probe
  <2> QED BY <1>1, <2>1, <2>2, StillOrder
<1>6. ASSUME NEW p \in Slot, WorkerEnds(p) \/ Timeout(p) PROVE PInv'
  <2>1. /\ Waiting(p) /\ \E verdict : Settle(p, verdict)
        /\ UNCHANGED <<newest, on, cancelled, inflight>>
    BY <1>6 DEF WorkerEnds, Timeout, Waiting
  <2> QED BY <2>1, SettleOrder
<1>7. CASE WorkerEndsLost \/ Stale \/ DiskChanges \/ Release \/ UNCHANGED vars
  <2>1. UNCHANGED <<newest, loop, on, cancelled, inflight, probe>>
    BY <1>7 DEF WorkerEndsLost, Stale, DiskChanges, Release, vars
  <2> QED BY <1>1, <2>1, StillOrder
<1> QED
  BY <1>2, <1>3, <1>4, <1>5, <1>6, <1>7, StepTaskOrder, InnerOrder, LeaveOrder, CancelOrder,
     JoinOrder, StartOrder
     DEF Next, RunHandle, Request

\* Only a caller whose turn it is stops waiting.
LEMMA WhoLeaves ==
  ASSUME TypeOK, Next, NEW c \in Callers, on[c] # None, on'[c] = None
  PROVE  Wake(c) \/ WakeCancelled(c)
<1>1. ASSUME NEW d \in Callers, Join(d) \/ Start(d) PROVE FALSE
  <2>1. /\ on[d] = None
        /\ \E p : p # None /\ on' = [on EXCEPT ![d] = p]
    <3>1. CASE Join(d)
      BY <3>1 DEF Join, InFlight
    <3>2. CASE Start(d)
      <4>1. newest + 1 \in Nat
        BY DEF TypeOK, Slot
      <4>2. (newest + 1) % Slots \in Slot
        BY <4>1, SlotType
      <4>3. (newest + 1) % Slots # None
        BY <4>2, NoneAssumption, BoundsAssumption DEF Slot
      <4> QED BY <3>2, <4>3 DEF Start
    <3> QED BY <1>1, <3>1, <3>2
  <2> QED BY <2>1 DEF TypeOK
<1>2. ASSUME NEW d \in Callers, Wake(d) \/ WakeCancelled(d) PROVE c = d
  <2>1. on' = [on EXCEPT ![d] = None]
    BY <1>2 DEF Wake, WakeCancelled
  <2> QED BY <2>1 DEF TypeOK
<1>3. ASSUME NEW d \in Callers, Inner(d) \/ FromCache(d) \/ Cancel(d) PROVE FALSE
  BY <1>3 DEF Inner, FromCache, Cancel
<1>4. ASSUME NEW p \in Slot,
             \/ StepTask(p) \/ StepReleased(p) \/ Resume(p)
             \/ WorkerStarts(p) \/ WorkerEnds(p) \/ Timeout(p) \/ TimeoutLate(p)
      PROVE  FALSE
  BY <1>4 DEF StepTask, StepReleased, Resume, WorkerStarts, WorkerEnds, Timeout, TimeoutLate
<1>5. CASE WorkerEndsLost \/ Stale \/ DiskChanges \/ Release
  BY <1>5 DEF WorkerEndsLost, Stale, DiskChanges, Release
<1> QED BY <1>1, <1>2, <1>3, <1>4, <1>5 DEF Next, RunHandle, Request

\* When a starter's turn to publish comes, no older probe still has one to publish it.
LEMMA InOrder ==
  ASSUME TInv, PInv, [Next]_vars, NEW c \in Callers \ cancelled, NEW d \in Callers \ cancelled,
         Owns(c), on'[c] = None, Owns(d), Before(on[d], on[c])
  PROVE  FALSE
<1>1. on[c] # None /\ Next
  BY DEF Owns, vars
<1>2. Wake(c) \/ WakeCancelled(c)
  BY <1>1, WhoLeaves DEF TInv
<1>3. 1 \in DOMAIN loop /\ loop[1] = H("wake", c)
  BY <1>2, HeadIs DEF Wake, WakeCancelled, TInv
<1>4. probe[on[d]].phase = "done" /\ on[d] \in Slot /\ on[d] # None
  BY DEF PInv, Ordered, Owns, TInv, TypeOK
<1>5. ~ OnBooks(d)
  <2>1. probe[on[d]].waiters = << >> /\ DOMAIN << >> = {}
    BY <1>4 DEF PInv, Emptied
  <2> QED BY <2>1 DEF OnBooks
<1>6. PICK i \in DOMAIN loop : loop[i] = H("inner", d) \/ loop[i] = H("wake", d)
  BY <1>4, <1>5 DEF PInv, Waits, Called
<1>7. loop[i] # H("inner", d) /\ (loop[i] = H("wake", d) => i < 1)
  BY <1>3 DEF PInv, Ordered
<1>8. ~ (i < 1)
  BY LoopIs DEF TInv
<1> QED BY <1>6, <1>7, <1>8

\* A stale verdict never overwrites a newer one (_probe_storage's docstring): whoever
\* publishes, nobody who has still to publish started an older probe.
THEOREM ProbePublishedInOrder == Spec => PublishedInOrder
<1> DEFINE A == \A c, d \in Callers \ cancelled :
                  /\ Owns(c) /\ on'[c] = None
                  /\ Owns(d)
                  => ~ Before(on[d], on[c])
<1>1. Init => TInv /\ OwnedIsInflight /\ PInv
  BY ProbeInit, OrderInit
<1>2. TInv /\ OwnedIsInflight /\ PInv /\ [Next]_vars
        => TInv' /\ OwnedIsInflight' /\ PInv'
  BY ProbeStep, FlightStep, OrderStep
<1>3. TInv /\ OwnedIsInflight /\ PInv /\ [Next]_vars => [A]_vars
  <2> SUFFICES ASSUME TInv, PInv, [Next]_vars PROVE A
    OBVIOUS
  <2> QED BY InOrder
<1> QED BY <1>1, <1>2, <1>3, PTL DEF Spec, PublishedInOrder

=============================================================================

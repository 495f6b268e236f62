---------------------------- MODULE TrainingStore ---------------------------
(***************************************************************************)
(* storage.TrainingStore, step by step.  A worker is a thread of the pod or *)
(* of another pod on the same volume; each runs seed() or upsert_session()  *)
(* under the flock, and may be killed or meet an OSError at any step.       *)
(*                                                                          *)
(* Backups are kept as the sequence sorted(glob("training.json.*.bak"))     *)
(* returns, each one reduced to the revision it is a copy of: where a fresh *)
(* backup lands in it is where the clock puts its name.                     *)
(***************************************************************************)
EXTENDS SessionTable

CONSTANTS
  Workers,           \* writers
  Requests,          \* the requests the callers make
  None,              \* no request, no answer, nothing loaded
  Retention,         \* BACKUP_RETENTION, 5 in the code
  LockHolds,         \* does flock exclude on this volume?
  ClockNeverSteps,   \* does every backup get a name later than the last?
  MaxRev,            \* bound: no write is asked for from this revision on
  MaxBackups         \* bound: no fault while more backups than this are kept

ASSUME RequestsAssumption == Requests \subseteq Request
ASSUME NoneAssumption == None \notin Request \cup Answer \cup Snapshot
ASSUME BoundsAssumption ==
  /\ Retention \in Nat \ {0}
  /\ LockHolds \in BOOLEAN /\ ClockNeverSteps \in BOOLEAN
  /\ MaxRev \in Nat /\ MaxBackups \in Nat

VARIABLES
  exists,    \* is there a training.json?
  file,      \* what load() makes of it; empty_snapshot when there is none
  backups,   \* the revisions backed up, in file name order
  holders,   \* the workers inside the flock
  pc,        \* the step each worker is about to take
  request,   \* what it was asked, or None
  snap,      \* the snapshot it loaded, or None
  answer     \* what it will tell its caller, or None

vars == <<exists, file, backups, holders, pc, request, snap, answer>>
disk == <<exists, file, backups>>

Locked == {"load", "backup", "prune", "temp", "rename"}
Steps  == {"idle", "lock", "unlock"} \cup Locked

\* A backup cut short by a fault: the open truncated it, the copy never came.
Torn == -1

TypeOK ==
  /\ exists \in BOOLEAN
  /\ file \in Snapshot
  /\ backups \in Seq(Nat \cup {Torn})
  /\ holders \subseteq Workers
  /\ pc \in [Workers -> Steps]
  /\ request \in [Workers -> Requests \cup {None}]
  /\ snap \in [Workers -> Snapshot \cup {None}]
  /\ answer \in [Workers -> Answer \cup {None}]

\* The volume holds nothing, or a snapshot an earlier pod left readable or not.
Init ==
  /\ \/ exists = FALSE /\ file = empty_snapshot
     \/ exists = TRUE /\ file = empty_snapshot
     \/ exists = TRUE /\ file = [empty_snapshot EXCEPT !.readable = FALSE]
  /\ backups = << >>
  /\ holders = {}
  /\ pc = [w \in Workers |-> "idle"]
  /\ request = [w \in Workers |-> None]
  /\ snap = [w \in Workers |-> None]
  /\ answer = [w \in Workers |-> None]

Goto(w, step) == pc' = [pc EXCEPT ![w] = step]

Reply(w, a) == Goto(w, "unlock") /\ answer' = [answer EXCEPT ![w] = a]

-----------------------------------------------------------------------------
Call(w, r) ==
  /\ pc[w] = "idle"
  /\ file.rev < MaxRev \/ r.kind = "seed"
  /\ request' = [request EXCEPT ![w] = r]
  /\ Goto(w, "lock")
  /\ UNCHANGED <<disk, holders, snap, answer>>

\* Mutant: no flock, as before the store was serialised.
Lock_NoFlock(w) ==
  /\ pc[w] = "lock"
  /\ holders' = holders \cup {w}
  /\ Goto(w, "load")
  /\ UNCHANGED <<disk, request, snap, answer>>

\* _exclusive(): block in flock(LOCK_EX) until nobody else is inside.
Lock(w) ==
  /\ pc[w] = "lock"
  /\ LockHolds => holders = {}
  /\ holders' = holders \cup {w}
  /\ Goto(w, "load")
  /\ UNCHANGED <<disk, request, snap, answer>>

\* load(), and the checks that refuse the request on what it returned.
LoadRefused(w) ==
  /\ pc[w] = "load"
  /\ RefusalOf(file, request[w]) # "none"
  /\ Reply(w, Refused(RefusalOf(file, request[w])))
  /\ UNCHANGED <<disk, holders, request, snap>>

\* seed() returns the snapshot it found.
LoadSeeded(w) ==
  /\ pc[w] = "load"
  /\ request[w].kind = "seed" /\ exists
  /\ RefusalOf(file, request[w]) = "none"
  /\ Reply(w, Written(file, file))
  /\ UNCHANGED <<disk, holders, request, snap>>

\* A write goes on with the snapshot it loaded; only an overwrite is backed up.
LoadForWrite(w) ==
  /\ pc[w] = "load"
  /\ request[w].kind = "seed" => ~ exists
  /\ RefusalOf(file, request[w]) = "none"
  /\ snap' = [snap EXCEPT ![w] = file]
  /\ Goto(w, IF exists THEN "backup" ELSE "temp")
  /\ UNCHANGED <<disk, holders, request, answer>>

-----------------------------------------------------------------------------
(* _take_backup *)

\* The backups once one of revision rev is written under a name of position p,
\* over an older one of the same name or between its neighbours.
BackedUpAt(p, rev) ==
  {SubSeq(backups, 1, p - 1) \o <<rev>> \o SubSeq(backups, p, Len(backups))}
    \cup {[backups EXCEPT ![q] = rev] : q \in {p} \cap DOMAIN backups}

\* Where a name stamped now can fall.
BackedUp(rev) ==
  IF ClockNeverSteps
    THEN {Append(backups, rev)}
    ELSE UNION {BackedUpAt(p, rev) : p \in 1 .. Len(backups) + 1}

\* The copy is read from the file again, not from what load() returned.
TakeBackup(w) ==
  /\ pc[w] = "backup"
  /\ backups' \in BackedUp(file.rev)
  /\ Goto(w, "prune")
  /\ UNCHANGED <<exists, file, holders, request, snap, answer>>

\* Mutant: the newest backup is pruned (the sort reversed).
PruneBackup_Newest(w) ==
  /\ pc[w] = "prune"
  /\ Len(backups) > Retention
  /\ backups' = SubSeq(backups, 1, Len(backups) - 1)
  /\ UNCHANGED <<exists, file, holders, pc, request, snap, answer>>

\* backups[:-BACKUP_RETENTION] are unlinked one at a time, the oldest name first.
PruneBackup(w) ==
  /\ pc[w] = "prune"
  /\ Len(backups) > Retention
  /\ backups' = Tail(backups)
  /\ UNCHANGED <<exists, file, holders, pc, request, snap, answer>>

\* Mutant: off by one, nothing left to unlink and still not done.
PruneDone_OffByOne(w) ==
  /\ pc[w] = "prune"
  /\ Len(backups) < Retention
  /\ Goto(w, "temp")
  /\ UNCHANGED <<disk, holders, request, snap, answer>>

PruneDone(w) ==
  /\ pc[w] = "prune"
  /\ Len(backups) <= Retention
  /\ Goto(w, "temp")
  /\ UNCHANGED <<disk, holders, request, snap, answer>>

-----------------------------------------------------------------------------
(* _write_atomic after the backup *)

\* mkstemp, write, fsync: nobody reads the sibling temp file before the rename.
WriteTemp(w) ==
  /\ pc[w] = "temp"
  /\ Goto(w, "rename")
  /\ UNCHANGED <<disk, holders, request, snap, answer>>

\* Mutant: the cap is not applied before the write.
Payload_NoCap(w) ==
  IF request[w].kind = "seed"
    THEN empty_snapshot
    ELSE [snap[w] EXCEPT !.rev = @ + 1, !.sessions = Apply(@, request[w])]

\* What the temp file holds: a seed writes the empty snapshot.
Payload(w) ==
  IF request[w].kind = "seed" THEN empty_snapshot
                              ELSE Upserted(snap[w], request[w])

\* temp_path.replace(self.path)
Replace(w) ==
  /\ pc[w] = "rename"
  /\ exists' = TRUE
  /\ file' = Payload(w)
  /\ Reply(w, Written(snap[w], Payload(w)))
  /\ snap' = [snap EXCEPT ![w] = None]
  /\ UNCHANGED <<backups, holders, request>>

\* The finally clauses, and the answer to the caller.
Unlock(w) ==
  /\ pc[w] = "unlock"
  /\ holders' = holders \ {w}
  /\ request' = [request EXCEPT ![w] = None]
  /\ answer' = [answer EXCEPT ![w] = None]
  /\ Goto(w, "idle")
  /\ UNCHANGED <<disk, snap>>

-----------------------------------------------------------------------------
(* Faults *)

\* A fault during the copy leaves the backup truncated; elsewhere none is made.
FaultBackups(w) ==
  IF pc[w] = "backup" THEN {backups} \cup BackedUp(Torn) ELSE {backups}

\* Bound: the leftover backups of interrupted writes do not pass MaxBackups.
FaultAllowed(w) == pc[w] \in {"backup", "prune"} => Len(backups) <= MaxBackups

\* An OSError of the lock file, the snapshot, the backups or the temp file.
IOError(w) ==
  /\ pc[w] \in {"lock"} \cup Locked
  /\ FaultAllowed(w)
  /\ backups' \in FaultBackups(w)
  /\ snap' = [snap EXCEPT ![w] = None]
  /\ Reply(w, Refused("error"))
  /\ UNCHANGED <<exists, file, holders, request>>

\* The process is killed: the kernel closes its descriptors and drops the flock.
Crash(w) ==
  /\ pc[w] # "idle"
  /\ FaultAllowed(w)
  /\ backups' \in FaultBackups(w)
  /\ holders' = holders \ {w}
  /\ request' = [request EXCEPT ![w] = None]
  /\ snap' = [snap EXCEPT ![w] = None]
  /\ answer' = [answer EXCEPT ![w] = None]
  /\ Goto(w, "idle")
  /\ UNCHANGED <<exists, file>>

-----------------------------------------------------------------------------
\* What a worker does without waiting for anybody.
Run(w) ==
  \/ LoadRefused(w) \/ LoadSeeded(w) \/ LoadForWrite(w)
  \/ TakeBackup(w) \/ PruneBackup(w) \/ PruneDone(w)
  \/ WriteTemp(w) \/ Replace(w) \/ Unlock(w)

Next ==
  \E w \in Workers :
    \/ \E r \in Requests : Call(w, r)
    \/ Lock(w)
    \/ Run(w)
    \/ IOError(w)
    \/ Crash(w)

Spec == Init /\ [][Next]_vars

\* A runnable thread keeps running, and flock grants a free lock to one of those
\* that ask for it again and again.
FairSpec ==
  /\ Spec
  /\ \A w \in Workers : WF_vars(Run(w)) /\ SF_vars(Lock(w))

-----------------------------------------------------------------------------
(* Properties *)

\* Between its load and its rename, a writer's copy is the file as it stands:
\* nobody's committed write can be missing from what it is about to write
\* (storage.py, "exactly why the loss is invisible").
CopyIsCurrent ==
  \A w \in Workers : pc[w] \in Locked \ {"load"} => snap[w] = file

\* Two workers are never both between the flock and its release.
OneWriter ==
  \A v, w \in Workers : pc[v] \in Locked /\ pc[w] \in Locked => v = w

\* The revision guard: a caller that named a revision replaces that revision and
\* no other ("a mismatch is a visible 409 rather than a silent overwrite").
GuardedReplace ==
  [][\A w \in Workers :
       /\ pc[w] = "rename" /\ pc'[w] = "unlock" /\ answer'[w].status = "ok"
       /\ request[w].kind # "seed"
       => request[w].expected \in {NoRevision, file.rev}]_vars

\* No write drops a field of a session it keeps, and the cap drops rows from the
\* front only, never the row just written.  And the row a patch is written to existed
\* until then (must_exist, inside the lock), so no patch brings a partial record into
\* being.
RowsAreKept ==
  [][LET Row(s, id) == CHOOSE i \in DOMAIN s : s[i].id = id
         old == file.sessions
         new == file'.sessions
     IN  /\ \A id \in StoredIds(old) \cap StoredIds(new), f \in Fields :
              old[Row(old, id)].body[f] # Absent
                => new[Row(new, id)].body[f] # Absent
         /\ \A i, j \in DOMAIN old :
              i < j /\ old[i].id \in StoredIds(new)
                => old[j].id \in StoredIds(new)
         /\ \A w \in Workers :
              pc[w] = "rename" /\ pc'[w] = "unlock" /\ answer'[w].status = "ok"
                /\ request[w].kind # "seed"
              => request[w].id \in StoredIds(new)
         /\ \A w \in Workers :
              pc[w] = "rename" /\ new # old /\ pc'[w] # "rename"
                /\ request[w].kind = "patch"
              => StoredIds(new) \subseteq StoredIds(old)]_vars

\* One row per session, and never more rows than the cap.
RowsAreUnique ==
  /\ Len(file.sessions) <= MaxSessions
  /\ \A i, j \in DOMAIN file.sessions :
       file.sessions[i].id = file.sessions[j].id => i = j

\* A rollback is real: when a snapshot is overwritten, a backup of that very
\* snapshot is on the volume, within the retention.
OverwriteIsBackedUp ==
  [][exists /\ file' # file =>
       /\ \E i \in DOMAIN backups : backups[i] = file.rev
       /\ Len(backups) <= Retention]_vars

\* A snapshot load() refuses is evidence: no request and no seed replaces it.
UnreadableIsKept == [][~ file.readable => UNCHANGED <<exists, file>>]_vars

\* Nobody keeps the flock for ever: a caller that is not killed gets an answer.
CallIsAnswered == \A w \in Workers : pc[w] # "idle" ~> pc[w] = "idle"

\* The store implements the ledger: every request takes effect at one instant.
Ledger == INSTANCE SessionLedger WITH
  ledger <- file, call <- request, reply <- answer
LedgerSpec == Ledger!Spec
=============================================================================

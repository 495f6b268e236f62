---------------------------- MODULE SessionTable ----------------------------
(***************************************************************************)
(* The data of the training store and the pure functions storage.py applies *)
(* to it inside its lock: the anti-shrink merge, the insertion of a record, *)
(* the session cap and the checks that refuse a write.                      *)
(*                                                                          *)
(* A session is its id and a body; a field of a body holds a value or is    *)
(* Absent.  The two timestamps are left out: no decision reads them.        *)
(***************************************************************************)
EXTENDS Integers, Sequences

CONSTANTS
  Ids,          \* session ids
  Fields,       \* fields of a session's body (title, scenario, notes)
  Values,       \* what a field may hold
  Absent,       \* the field was not sent, or was never set
  MaxSessions   \* max_sessions, 500 in the code

ASSUME MaxSessionsAssumption == MaxSessions \in Nat \ {0}

Body == [Fields -> Values \cup {Absent}]

Session == [id : Ids, body : Body]

\* NoRevision: the caller sent no usable If-Match, hence expected_rev is None.
NoRevision == -1

\* A "seed" request is TrainingStore.seed() at boot; "post" and "patch" are the
\* two gated routes.  A patch sets must_exist.
Request == [kind : {"seed", "post", "patch"}, id : Ids, body : Body,
            expected : Nat \cup {NoRevision}]

\* A snapshot as load() sees it: unreadable stands for every malformed shape.
Snapshot == [readable : BOOLEAN, rev : Nat, sessions : Seq(Session)]

\* Mutant: the revision starts one too low.
empty_snapshot_MinusOne == [readable |-> TRUE, rev |-> -1, sessions |-> << >>]

empty_snapshot == [readable |-> TRUE, rev |-> 0, sessions |-> << >>]

StoredIds(sessions) == {sessions[i].id : i \in DOMAIN sessions}

\* Mutant: the update replaces the stored body, unsent fields included.
merge_session_Replace(existing, update) == update

merge_session(existing, update) ==
  [f \in Fields |-> IF update[f] = Absent THEN existing[f] ELSE update[f]]

\* next((i for i, item in enumerate(stored) if ...)): the first row of that id.
IsFirstRowOf(sessions, i, id) ==
  /\ sessions[i].id = id
  /\ \A j \in 1 .. i - 1 : sessions[j].id # id

\* Mutant: a record of a known id is appended again.
Apply_AlwaysAppend(sessions, r) ==
  Append(sessions, [id |-> r.id, body |-> r.body])

Apply(sessions, r) ==
  IF r.id \in StoredIds(sessions)
    THEN [i \in DOMAIN sessions |->
            IF IsFirstRowOf(sessions, i, r.id)
              THEN [sessions[i] EXCEPT !.body = merge_session(@, r.body)]
              ELSE sessions[i]]
    ELSE Append(sessions, [id |-> r.id, body |-> r.body])

\* How many of the oldest rows _enforce_cap drops.
Dropped(sessions) ==
  IF Len(sessions) > MaxSessions THEN Len(sessions) - MaxSessions ELSE 0

EnforceCap(sessions) ==
  SubSeq(sessions, Dropped(sessions) + 1, Len(sessions))

\* The snapshot upsert_session writes when it starts from snapshot s.
Upserted(s, r) ==
  [readable |-> s.readable, rev |-> s.rev + 1,
   sessions |-> EnforceCap(Apply(s.sessions, r))]

-----------------------------------------------------------------------------
(* What the caller is told.  "error" is an OSError, answered 500; the other  *)
(* refusals are the ones _write maps to 503, 409 and 404.                    *)

Refusals == {"unavailable", "conflict", "unknown"}

Answer == [status : Refusals \cup {"ok", "error"}, rev : Nat,
           before : Nat, after : Nat]

Refused(status) == [status |-> status, rev |-> 0, before |-> 0, after |-> 0]

\* Mutant: the revision is not checked.
RefusalOf_NoConflict(s, r) ==
  CASE ~ s.readable -> "unavailable"
    [] s.readable /\ r.kind = "patch" /\ r.id \notin StoredIds(s.sessions)
         -> "unknown"
    [] OTHER -> "none"

\* Mutant: must_exist is not checked.
RefusalOf_NoMustExist(s, r) ==
  CASE ~ s.readable -> "unavailable"
    [] s.readable /\ r.kind # "seed" /\ r.expected \notin {NoRevision, s.rev}
         -> "conflict"
    [] OTHER -> "none"

\* Mutant: a malformed snapshot is taken for an empty one.
RefusalOf_Tolerant(s, r) ==
  CASE r.kind # "seed" /\ r.expected \notin {NoRevision, s.rev} -> "conflict"
    [] r.kind = "patch" /\ r.expected \in {NoRevision, s.rev}
         /\ r.id \notin StoredIds(s.sessions) -> "unknown"
    [] OTHER -> "none"

\* load() first, then the revision check, then must_exist.
RefusalOf(s, r) ==
  CASE ~ s.readable -> "unavailable"
    [] s.readable /\ r.kind # "seed" /\ r.expected \notin {NoRevision, s.rev}
         -> "conflict"
    [] s.readable /\ r.kind = "patch" /\ r.expected \in {NoRevision, s.rev}
         /\ r.id \notin StoredIds(s.sessions) -> "unknown"
    [] OTHER -> "none"

\* The WriteResult of a write that went from snapshot s to snapshot t.
Written(s, t) == [status |-> "ok", rev |-> t.rev,
                  before |-> Len(s.sessions), after |-> Len(t.sessions)]
=============================================================================

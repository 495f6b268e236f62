----------------------------- MODULE RateLimiter -----------------------------
(***************************************************************************)
(* ratelimit.RateLimiter: one fixed window of calls for each key, in a table *)
(* of at most MaxKeys.  A table is a function from the keys it tracks to     *)
(* their windows.                                                           *)
(***************************************************************************)
EXTENDS Naturals, FiniteSets

CONSTANTS
  Keys,      \* the callers there are
  MaxKeys,   \* max_keys, MAX_TRACKED_KEYS in the code
  Window     \* window_seconds

ASSUME MaxKeysAssumption == MaxKeys \in Nat
ASSUME WindowAssumption == Window \in Nat \ {0}

Calls == [start : Nat, count : Nat]
IsTable(table) == DOMAIN table \subseteq Keys /\ table \in [DOMAIN table -> Calls]
NoCalls == [k \in {} |-> [start |-> 0, count |-> 0]]

\* The keys whose window has not finished.
Live(table, now) == {k \in DOMAIN table : now - table[k].start < Window}

_drop_expired(table, now) == [k \in Live(table, now) |-> table[k]]

\* A full table has no room for a caller it does not track.
NoRoom(table, key, now) ==
  key \notin Live(table, now) /\ Cardinality(Live(table, now)) >= MaxKeys

\* The window a call falls in, the call counted.
Counted(table, key, now) ==
  IF key \in Live(table, now) THEN [table[key] EXCEPT !.count = @ + 1]
                              ELSE [start |-> now, count |-> 1]

\* Mutant: a full table makes room by forgetting the callers it tracks.
AfterCall_Evict(table, key, now) ==
  LET kept == IF NoRoom(table, key, now) THEN {} ELSE Live(table, now)
  IN  [k \in kept \cup {key} |->
         IF k = key THEN Counted(table, key, now) ELSE table[k]]

\* Mutant: the bound is tested after the key was put in.
AfterCall_NoBound(table, key, now) ==
  [k \in Live(table, now) \cup {key} |->
     IF k = key THEN Counted(table, key, now) ELSE table[k]]

\* What allow() leaves in the table, and whether it lets the call through.
AfterCall(table, key, now) ==
  IF NoRoom(table, key, now) THEN _drop_expired(table, now)
  ELSE [k \in Live(table, now) \cup {key} |->
          IF k = key THEN Counted(table, key, now) ELSE table[k]]

Allows(table, key, now, limit) ==
  ~ NoRoom(table, key, now) /\ Counted(table, key, now).count <= limit
=============================================================================

---------------------------- MODULE SessionLedger ---------------------------
(***************************************************************************)
(* What the training store promises its callers: one ledger on which every  *)
(* request takes effect at a single instant between the call and its        *)
(* answer, or is refused on what the ledger held at that instant, or fails  *)
(* without effect.  A caller may die at any moment; its request has then    *)
(* taken effect wholly or not at all.                                       *)
(***************************************************************************)
EXTENDS SessionTable

CONSTANTS
  Workers,   \* threads and processes that write the ledger
  Requests,  \* the requests they make
  None       \* no request, no answer


VARIABLES
  ledger,   \* the snapshot
  call,     \* call[w]: the request w is making, or None
  reply     \* reply[w]: its answer once it has taken effect, or None

vars == <<ledger, call, reply>>

TypeOK ==
  /\ ledger \in Snapshot
  /\ call \in [Workers -> Requests \cup {None}]
  /\ reply \in [Workers -> Answer \cup {None}]

Init ==
  /\ ledger \in Snapshot
  /\ call = [w \in Workers |-> None]
  /\ reply = [w \in Workers |-> None]

Invoke(w, r) ==
  /\ call[w] = None
  /\ call' = [call EXCEPT ![w] = r]
  /\ UNCHANGED <<ledger, reply>>

Pending(w) == call[w] # None /\ reply[w] = None

Refuse(w) ==
  /\ Pending(w)
  /\ RefusalOf(ledger, call[w]) # "none"
  /\ reply' = [reply EXCEPT ![w] = Refused(RefusalOf(ledger, call[w]))]
  /\ UNCHANGED <<ledger, call>>

\* A seed finds the ledger readable and changes nothing.
Seed(w) ==
  /\ Pending(w)
  /\ call[w].kind = "seed"
  /\ RefusalOf(ledger, call[w]) = "none"
  /\ reply' = [reply EXCEPT ![w] = Written(ledger, ledger)]
  /\ UNCHANGED <<ledger, call>>

Upsert(w) ==
  /\ Pending(w)
  /\ call[w].kind # "seed"
  /\ RefusalOf(ledger, call[w]) = "none"
  /\ ledger' = Upserted(ledger, call[w])
  /\ reply' = [reply EXCEPT ![w] = Written(ledger, ledger')]
  /\ UNCHANGED call

Fail(w) ==
  /\ Pending(w)
  /\ reply' = [reply EXCEPT ![w] = Refused("error")]
  /\ UNCHANGED <<ledger, call>>

\* The caller has its answer, or has died with or without one.
Depart(w) ==
  /\ call[w] # None
  /\ call' = [call EXCEPT ![w] = None]
  /\ reply' = [reply EXCEPT ![w] = None]
  /\ UNCHANGED ledger

Next ==
  \E w \in Workers :
    \/ \E r \in Requests : Invoke(w, r)
    \/ Refuse(w)
    \/ Seed(w)
    \/ Upsert(w)
    \/ Fail(w)
    \/ Depart(w)

Spec == Init /\ [][Next]_vars
=============================================================================

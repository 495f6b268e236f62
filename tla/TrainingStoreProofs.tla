------------------------- MODULE TrainingStoreProofs ------------------------
(***************************************************************************)
(* Proofs about TrainingStore for any set of workers, requests, ids and any *)
(* bounds: its types, and, where flock holds, that no writer ever works on  *)
(* a stale copy and that the store implements SessionLedger.                *)
(***************************************************************************)
EXTENDS TrainingStore, SequenceTheorems, TLAPS

-----------------------------------------------------------------------------
(* What upsert_session writes: a snapshot with at most one row per id, at most  *)
(* MaxSessions rows, and the new row.                                          *)

\* No two rows of a table share an id, and the table is within the cap.
WellFormed(sessions) ==
  /\ Len(sessions) <= MaxSessions
  /\ \A i, j \in DOMAIN sessions : sessions[i].id = sessions[j].id => i = j

\* The merge of two bodies is a body.
LEMMA MergeType ==
  ASSUME NEW old \in Body, NEW upd \in Body
  PROVE  merge_session(old, upd) \in Body
BY DEF merge_session, Body

\* merge_session is anti-shrink: a stored field stays stored.
THEOREM MergeNeverShrinks ==
  ASSUME NEW old \in Body, NEW upd \in Body, NEW f \in Fields,
         old[f] # Absent
  PROVE  merge_session(old, upd)[f] # Absent
BY DEF merge_session, Body

\* Inserting or merging a request keeps the table a sequence of sessions, grows
\* it by one row at most, and keeps every row's id in its place.
LEMMA ApplyType ==
  ASSUME NEW s \in Seq(Session), NEW r \in Request
  PROVE  /\ Apply(s, r) \in Seq(Session)
         /\ r.id \in StoredIds(s) => Len(Apply(s, r)) = Len(s)
         /\ r.id \notin StoredIds(s) =>
              /\ Len(Apply(s, r)) = Len(s) + 1
              /\ Apply(s, r)[Len(s) + 1].id = r.id
         /\ \A i \in 1 .. Len(s) : Apply(s, r)[i].id = s[i].id
<1>1. r.id \in Ids /\ r.body \in Body
  BY DEF Request
<1>2. CASE r.id \in StoredIds(s)
  <2> DEFINE row(i) == IF IsFirstRowOf(s, i, r.id)
                         THEN [s[i] EXCEPT !.body = merge_session(@, r.body)]
                         ELSE s[i]
  <2>1. /\ Len(s) \in Nat /\ DOMAIN s = 1 .. Len(s)
        /\ \A i \in 1 .. Len(s) : s[i] \in Session
    OBVIOUS
  <2>2. \A i \in 1 .. Len(s) : row(i) \in Session /\ row(i).id = s[i].id
    <3> SUFFICES ASSUME NEW i \in 1 .. Len(s)
                 PROVE  row(i) \in Session /\ row(i).id = s[i].id
      OBVIOUS
    <3>1. s[i] \in Session /\ s[i].body \in Body
      BY <2>1 DEF Session
    <3>2. merge_session(s[i].body, r.body) \in Body
      BY <1>1, <3>1, MergeType
    <3> QED
      BY <3>1, <3>2 DEF Session
  <2>3. Apply(s, r) = [i \in 1 .. Len(s) |-> row(i)]
    BY <1>2, <2>1 DEF Apply
  <2>4. Apply(s, r) \in [1 .. Len(s) -> Session]
    BY <2>2, <2>3
  <2> HIDE DEF row
  <2>5. Apply(s, r) \in Seq(Session) /\ Len(Apply(s, r)) = Len(s)
    BY <2>1, <2>4, SeqDef
  <2>6. \A i \in 1 .. Len(s) : Apply(s, r)[i].id = s[i].id
    BY <2>2, <2>3
  <2> QED
    BY <1>2, <2>5, <2>6
<1>3. CASE r.id \notin StoredIds(s)
  <2>1. [id |-> r.id, body |-> r.body] \in Session
    BY <1>1 DEF Session
  <2>2. Apply(s, r) = Append(s, [id |-> r.id, body |-> r.body])
    BY <1>3 DEF Apply
  <2> QED
    BY <1>3, <2>1, <2>2
<1> QED
  BY <1>2, <1>3

\* The rows of a well-formed table stay distinct when a request is applied.
LEMMA ApplyKeepsIdsApart ==
  ASSUME NEW s \in Seq(Session), NEW r \in Request, WellFormed(s)
  PROVE  \A i, j \in DOMAIN Apply(s, r) :
           Apply(s, r)[i].id = Apply(s, r)[j].id => i = j
<1>1. CASE r.id \in StoredIds(s)
  <2>1. DOMAIN Apply(s, r) = 1 .. Len(s) /\ DOMAIN s = 1 .. Len(s)
    BY <1>1, ApplyType
  <2>2. \A i \in 1 .. Len(s) : Apply(s, r)[i].id = s[i].id
    BY <1>1, ApplyType
  <2> QED
    BY <2>1, <2>2 DEF WellFormed
<1>2. CASE r.id \notin StoredIds(s)
  <2>1. /\ DOMAIN Apply(s, r) = 1 .. Len(s) + 1 /\ DOMAIN s = 1 .. Len(s)
        /\ Len(s) \in Nat
    BY <1>2, ApplyType
  <2>2. \A i \in 1 .. Len(s) : Apply(s, r)[i].id # r.id
    BY <1>2, <2>1, ApplyType DEF StoredIds
  <2>3. Apply(s, r)[Len(s) + 1].id = r.id
    BY <1>2, ApplyType
  <2>4. \A i \in 1 .. Len(s) : Apply(s, r)[i].id = s[i].id
    BY ApplyType
  <2>5. ASSUME NEW i \in 1 .. Len(s) + 1, NEW j \in 1 .. Len(s) + 1,
               Apply(s, r)[i].id = Apply(s, r)[j].id
        PROVE  i = j
    <3>1. CASE i \in 1 .. Len(s) /\ j \in 1 .. Len(s)
      BY <2>1, <2>4, <2>5, <3>1 DEF WellFormed
    <3>2. CASE i = Len(s) + 1 \/ j = Len(s) + 1
      BY <2>1, <2>2, <2>3, <2>5, <3>2
    <3> QED
      BY <2>1, <3>1, <3>2
  <2> QED
    BY <2>1, <2>5
<1> QED
  BY <1>1, <1>2

\* The cap keeps a suffix of the table: its last rows, in their order.
LEMMA CapKeepsSuffix ==
  ASSUME NEW s \in Seq(Session)
  PROVE  /\ Dropped(s) \in Nat /\ Len(s) \in Nat
         /\ EnforceCap(s) \in Seq(Session)
         /\ Len(EnforceCap(s)) = Len(s) - Dropped(s)
         /\ Len(EnforceCap(s)) <= MaxSessions
         /\ \A i \in 1 .. Len(s) - Dropped(s) : EnforceCap(s)[i] = s[i + Dropped(s)]
<1> USE MaxSessionsAssumption
<1> DEFINE m == Dropped(s) + 1
<1>1. /\ Len(s) \in Nat /\ DOMAIN s = 1 .. Len(s)
      /\ \A i \in 1 .. Len(s) : s[i] \in Session
  OBVIOUS
<1>2. /\ Dropped(s) \in Nat /\ Dropped(s) <= Len(s)
      /\ Len(s) - Dropped(s) <= MaxSessions
  BY <1>1 DEF Dropped
<1>3. m \in Int /\ \A i \in m .. Len(s) : s[i] \in Session
  BY <1>1, <1>2
<1>4. /\ SubSeq(s, m, Len(s)) \in Seq(Session)
      /\ Len(SubSeq(s, m, Len(s))) = IF m <= Len(s) THEN Len(s) - m + 1 ELSE 0
      /\ \A i \in 1 .. Len(s) - m + 1 : SubSeq(s, m, Len(s))[i] = s[m + i - 1]
  <2> HIDE DEF m
  <2> QED
    BY <1>1, <1>3, SubSeqProperties
<1>5. \A i \in 1 .. Len(s) - Dropped(s) : SubSeq(s, m, Len(s))[i] = s[i + Dropped(s)]
  <2> SUFFICES ASSUME NEW i \in 1 .. Len(s) - Dropped(s)
               PROVE  SubSeq(s, m, Len(s))[i] = s[i + Dropped(s)]
    OBVIOUS
  <2>1. m + i - 1 = i + Dropped(s) /\ i \in 1 .. Len(s) - m + 1
    BY <1>1, <1>2
  <2> QED
    BY <1>4, <2>1
<1>6. EnforceCap(s) = SubSeq(s, m, Len(s))
  BY DEF EnforceCap
<1>7. Len(SubSeq(s, m, Len(s))) = Len(s) - Dropped(s)
  BY <1>1, <1>2, <1>4
<1> QED
  BY <1>1, <1>2, <1>4, <1>5, <1>6, <1>7

\* upsert_session writes a snapshot, at the next revision, still well formed.
THEOREM UpsertedType ==
  ASSUME NEW s \in Snapshot, NEW r \in Request
  PROVE  /\ Upserted(s, r) \in Snapshot
         /\ Upserted(s, r).rev = s.rev + 1
         /\ WellFormed(s.sessions) => WellFormed(Upserted(s, r).sessions)
<1> DEFINE t == Apply(s.sessions, r)
<1>1. s.sessions \in Seq(Session) /\ s.rev \in Nat /\ s.readable \in BOOLEAN
  BY DEF Snapshot
<1>2. t \in Seq(Session)
  BY <1>1, ApplyType
<1>3. EnforceCap(t) \in Seq(Session)
  BY <1>2, CapKeepsSuffix
<1>4. Upserted(s, r) = [readable |-> s.readable, rev |-> s.rev + 1,
                        sessions |-> EnforceCap(t)]
  BY DEF Upserted
<1>5. ASSUME WellFormed(s.sessions)
      PROVE  WellFormed(EnforceCap(t))
  <2> HIDE DEF t
  <2>1. \A i, j \in DOMAIN t : t[i].id = t[j].id => i = j
    BY <1>1, <1>5, ApplyKeepsIdsApart DEF t
  <2> DEFINE d == Dropped(t)
             e == EnforceCap(t)
  <2>2. /\ d \in Nat /\ Len(t) \in Nat
        /\ e \in Seq(Session)
        /\ Len(e) = Len(t) - d
        /\ Len(e) <= MaxSessions
        /\ \A i \in 1 .. Len(t) - d : e[i] = t[i + d]
    BY <1>2, CapKeepsSuffix
  <2> HIDE DEF d, e
  <2>3. DOMAIN e = 1 .. Len(t) - d /\ DOMAIN t = 1 .. Len(t)
    BY <1>2, <2>2
  <2>4. ASSUME NEW i \in DOMAIN e, NEW j \in DOMAIN e, e[i].id = e[j].id
        PROVE  i = j
    <3>1. i + d \in DOMAIN t /\ j + d \in DOMAIN t
      BY <2>2, <2>3
    <3>2. t[i + d].id = t[j + d].id
      BY <2>2, <2>3, <2>4
    <3>3. i + d = j + d
      BY <2>1, <3>1, <3>2
    <3> QED
      BY <2>2, <2>3, <3>3
  <2> QED
    BY <2>2, <2>4 DEF WellFormed, e
<1> QED
  BY <1>1, <1>3, <1>4, <1>5 DEF Snapshot

\* No row loses a field that was set.
LEMMA ApplyKeepsFields ==
  ASSUME NEW s \in Seq(Session), NEW r \in Request,
         NEW i \in 1 .. Len(s), NEW f \in Fields, s[i].body[f] # Absent
  PROVE  Apply(s, r)[i].body[f] # Absent
<1>1. /\ Len(s) \in Nat /\ DOMAIN s = 1 .. Len(s)
      /\ s[i] \in Session /\ r.body \in Body
  BY DEF Request
<1>2. CASE r.id \in StoredIds(s)
  <2> DEFINE merged == merge_session(s[i].body, r.body)
  <2>1. Apply(s, r)[i] = IF IsFirstRowOf(s, i, r.id) THEN [s[i] EXCEPT !.body = merged]
                                                    ELSE s[i]
    BY <1>1, <1>2 DEF Apply
  <2>2. merged[f] # Absent
    BY <1>1, MergeNeverShrinks DEF Session
  <2> HIDE DEF merged
  <2> QED BY <1>1, <2>1, <2>2 DEF Session
<1>3. CASE r.id \notin StoredIds(s)
  BY <1>1, <1>3 DEF Apply
<1> QED BY <1>2, <1>3

\* Where the rows of the new snapshot come from: a suffix of the old rows, and the row of
\* a request whose id was not there.
LEMMA UpsertedRows ==
  ASSUME NEW s \in Snapshot, NEW r \in Request, WellFormed(s.sessions)
  PROVE  LET old == s.sessions
             new == Upserted(s, r).sessions
             d   == Dropped(Apply(old, r))
         IN  /\ d \in Nat /\ Len(old) \in Nat /\ Len(new) \in Nat
             /\ DOMAIN old = 1 .. Len(old) /\ DOMAIN new = 1 .. Len(new)
             /\ r.id \in StoredIds(old) => d = 0 /\ Len(new) = Len(old)
             /\ r.id \notin StoredIds(old) =>
                  Len(new) # 0 /\ Len(new) = Len(old) + 1 - d /\ new[Len(new)].id = r.id
             /\ \A i \in 1 .. Len(new) : i + d \in 1 .. Len(old) =>
                  /\ new[i].id = old[i + d].id
                  /\ \A f \in Fields : old[i + d].body[f] # Absent => new[i].body[f] # Absent
<1> DEFINE old == s.sessions
           new == Upserted(s, r).sessions
           mid == Apply(old, r)
           d   == Dropped(mid)
<1>1. old \in Seq(Session) /\ Len(old) \in Nat /\ DOMAIN old = 1 .. Len(old)
      /\ Len(old) <= MaxSessions /\ MaxSessions \in Nat \ {0}
  BY MaxSessionsAssumption DEF Snapshot, WellFormed
<1>2. /\ mid \in Seq(Session)
      /\ r.id \in StoredIds(old) => Len(mid) = Len(old)
      /\ r.id \notin StoredIds(old) =>
           Len(mid) = Len(old) + 1 /\ mid[Len(old) + 1].id = r.id
      /\ \A i \in 1 .. Len(old) : mid[i].id = old[i].id
  BY <1>1, ApplyType
<1>3. \A i \in 1 .. Len(old) : \A f \in Fields :
        old[i].body[f] # Absent => mid[i].body[f] # Absent
  BY <1>1, ApplyKeepsFields
<1>4. new = EnforceCap(mid)
  BY DEF Upserted
<1> HIDE DEF mid
<1>5. /\ d \in Nat /\ Len(mid) \in Nat /\ new \in Seq(Session)
      /\ Len(new) = Len(mid) - d /\ \A i \in 1 .. Len(mid) - d : new[i] = mid[i + d]
      /\ d = IF Len(mid) > MaxSessions THEN Len(mid) - MaxSessions ELSE 0
  BY <1>2, <1>4, CapKeepsSuffix DEF Dropped
<1> HIDE DEF d, new
<1>6. Len(new) \in Nat /\ DOMAIN new = 1 .. Len(new)
  BY <1>5
<1>7. r.id \in StoredIds(old) => d = 0 /\ Len(new) = Len(old)
  BY <1>1, <1>2, <1>5
<1>8. ASSUME r.id \notin StoredIds(old)
      PROVE  Len(new) # 0 /\ Len(new) = Len(old) + 1 - d /\ new[Len(new)].id = r.id
  <2>1. Len(new) # 0 /\ Len(new) = Len(old) + 1 - d
    BY <1>1, <1>2, <1>5, <1>8
  <2>2. Len(new) \in 1 .. Len(mid) - d /\ Len(new) + d = Len(old) + 1
    BY <1>1, <1>2, <1>5, <1>8, <2>1
  <2>3. new[Len(new)] = mid[Len(new) + d]
    BY <1>5, <2>2
  <2> QED BY <1>2, <1>8, <2>1, <2>2, <2>3
<1>9. ASSUME NEW i \in 1 .. Len(new), i + d \in 1 .. Len(old)
      PROVE  /\ new[i].id = old[i + d].id
             /\ \A f \in Fields : old[i + d].body[f] # Absent => new[i].body[f] # Absent
  <2>1. new[i] = mid[i + d]
    BY <1>5
  <2> QED BY <1>2, <1>3, <1>9, <2>1
<1> QED BY <1>1, <1>5, <1>6, <1>7, <1>8, <1>9 DEF d, new, mid

\* The row of an id.
RowOf(s, id) == CHOOSE i \in DOMAIN s : s[i].id = id

\* An upsert drops no field of a row it keeps and rows only from the front; the row it
\* writes is there, and if it was before, no row is added or dropped.
LEMMA UpsertKeepsRows ==
  ASSUME NEW s \in Snapshot, NEW r \in Request, WellFormed(s.sessions),
         NEW old, old = s.sessions, NEW new, new = Upserted(s, r).sessions
  PROVE  /\ \A id \in StoredIds(old) \cap StoredIds(new), f \in Fields :
              old[RowOf(old, id)].body[f] # Absent => new[RowOf(new, id)].body[f] # Absent
         /\ \A i, j \in DOMAIN old :
              i < j /\ old[i].id \in StoredIds(new) => old[j].id \in StoredIds(new)
         /\ r.id \in StoredIds(new)
         /\ r.id \in StoredIds(old) => StoredIds(new) = StoredIds(old)
<1> DEFINE d == Dropped(Apply(old, r))
           n == Len(old)
           m == Len(new)
<1>1. /\ d \in Nat /\ n \in Nat /\ m \in Nat
      /\ DOMAIN old = 1 .. n /\ DOMAIN new = 1 .. m
      /\ r.id \in StoredIds(old) => d = 0 /\ m = n
      /\ r.id \notin StoredIds(old) => m # 0 /\ m = n + 1 - d /\ new[m].id = r.id
      /\ \A i \in 1 .. m : i + d \in 1 .. n =>
           /\ new[i].id = old[i + d].id
           /\ \A f \in Fields : old[i + d].body[f] # Absent => new[i].body[f] # Absent
  BY UpsertedRows
<1>2. \A i, j \in 1 .. n : old[i].id = old[j].id => i = j
  BY <1>1 DEF WellFormed
<1> HIDE DEF d, n, m
<1>3. m = n - d \/ (m = n + 1 - d /\ r.id \notin StoredIds(old) /\ new[m].id = r.id)
  BY <1>1
<1>4. ASSUME NEW i \in 1 .. n, NEW k \in 1 .. m, old[i].id = new[k].id
      PROVE  k + d = i
  <2>1. CASE k + d \in 1 .. n
    BY <1>1, <1>2, <1>4, <2>1
  <2>2. CASE k + d \notin 1 .. n
    <3>1. k = m /\ m = n + 1 - d /\ r.id \notin StoredIds(old) /\ new[m].id = r.id
      BY <1>1, <1>3, <2>2
    <3>2. old[i].id = r.id
      BY <1>4, <3>1
    <3> QED BY <1>1, <3>1, <3>2 DEF StoredIds
  <2> QED BY <2>1, <2>2
<1>5. ASSUME NEW id \in StoredIds(old) \cap StoredIds(new), NEW f \in Fields,
             old[RowOf(old, id)].body[f] # Absent
      PROVE  new[RowOf(new, id)].body[f] # Absent
  <2>1. RowOf(old, id) \in 1 .. n /\ old[RowOf(old, id)].id = id
    BY <1>1 DEF StoredIds, RowOf
  <2>2. RowOf(new, id) \in 1 .. m /\ new[RowOf(new, id)].id = id
    BY <1>1 DEF StoredIds, RowOf
  <2>3. RowOf(new, id) + d = RowOf(old, id)
    BY <1>4, <2>1, <2>2
  <2> QED BY <1>1, <1>5, <2>1, <2>2, <2>3
<1>6. ASSUME NEW i \in 1 .. n, NEW j \in 1 .. n, i < j, old[i].id \in StoredIds(new)
      PROVE  old[j].id \in StoredIds(new)
  <2>1. PICK k \in 1 .. m : new[k].id = old[i].id
    BY <1>1, <1>6 DEF StoredIds
  <2>2. k + d = i
    BY <1>4, <2>1
  <2>3. j - d \in 1 .. m /\ j - d + d = j
    BY <1>1, <1>3, <1>6, <2>2
  <2>4. new[j - d].id = old[j].id
    BY <1>1, <2>3
  <2> QED BY <1>1, <2>3, <2>4 DEF StoredIds
<1>7. ASSUME r.id \in StoredIds(old) PROVE StoredIds(new) = StoredIds(old)
  <2>1. d = 0 /\ m = n
    BY <1>1, <1>7
  <2>2. \A i \in 1 .. n : i + d = i /\ i + d \in 1 .. n
    BY <1>1, <2>1
  <2>3. \A i \in 1 .. n : new[i].id = old[i].id
    BY <1>1, <2>1, <2>2
  <2> QED BY <1>1, <2>1, <2>3 DEF StoredIds
<1>8. r.id \in StoredIds(new)
  <2>1. CASE r.id \in StoredIds(old)
    BY <1>7, <2>1
  <2>2. CASE r.id \notin StoredIds(old)
    <3>1. m \in 1 .. m /\ new[m].id = r.id
      BY <1>1, <2>2
    <3> QED BY <1>1, <3>1 DEF StoredIds
  <2> QED BY <2>1, <2>2
<1> QED BY <1>1, <1>5, <1>6, <1>7, <1>8

-----------------------------------------------------------------------------
(* Types *)

\* A refusal is one of the statuses the caller may be told.
LEMMA RefusalType ==
  ASSUME NEW s \in Snapshot, NEW r \in Request
  PROVE  RefusalOf(s, r) \in Refusals \cup {"none"}
BY DEF RefusalOf, Refusals

LEMMA RefusedType ==
  ASSUME NEW status \in Refusals \cup {"error"}
  PROVE  Refused(status) \in Answer
BY DEF Refused, Answer

LEMMA WrittenType ==
  ASSUME NEW s \in Snapshot, NEW t \in Snapshot
  PROVE  Written(s, t) \in Answer
<1>1. t.rev \in Nat /\ s.sessions \in Seq(Session) /\ t.sessions \in Seq(Session)
  BY DEF Snapshot
<1>2. Len(s.sessions) \in Nat /\ Len(t.sessions) \in Nat
  BY <1>1
<1> QED
  BY <1>1, <1>2 DEF Written, Answer

LEMMA EmptyType ==
  /\ empty_snapshot \in Snapshot
  /\ [empty_snapshot EXCEPT !.readable = FALSE] \in Snapshot
  /\ WellFormed(empty_snapshot.sessions)
  /\ WellFormed([empty_snapshot EXCEPT !.readable = FALSE].sessions)
<1>1. << >> \in Seq(Session) /\ Len(<< >>) = 0 /\ DOMAIN << >> = {}
  BY EmptySeq
<1>2. WellFormed(<< >>)
  BY <1>1, MaxSessionsAssumption DEF WellFormed
<1> QED
  BY <1>1, <1>2 DEF empty_snapshot, Snapshot

LEMMA BackedUpType ==
  ASSUME NEW rev \in Nat \cup {Torn}, backups \in Seq(Nat \cup {Torn}),
         NEW b \in BackedUp(rev)
  PROVE  b \in Seq(Nat \cup {Torn})
<1> DEFINE Entry == Nat \cup {Torn}
<1>1. Len(backups) \in Nat /\ \A i \in 1 .. Len(backups) : backups[i] \in Entry
  OBVIOUS
<1>2. CASE b = Append(backups, rev)
  BY <1>2
<1>3. ASSUME NEW p \in 1 .. Len(backups) + 1, b \in BackedUpAt(p, rev)
      PROVE  b \in Seq(Entry)
  <2>1. SubSeq(backups, 1, p - 1) \in Seq(Entry)
    BY <1>1, SubSeqProperties, p - 1 \in Int
  <2>2. SubSeq(backups, p, Len(backups)) \in Seq(Entry)
    BY <1>1, SubSeqProperties, p \in Int
  <2>3. CASE b = SubSeq(backups, 1, p - 1) \o <<rev>>
                   \o SubSeq(backups, p, Len(backups))
    <3>1. <<rev>> \in Seq(Entry)
      OBVIOUS
    <3> QED
      BY <2>1, <2>2, <2>3, <3>1, ConcatProperties
  <2>4. CASE b = [backups EXCEPT ![p] = rev] /\ p \in DOMAIN backups
    BY <2>4, ExceptSeq
  <2> QED
    BY <1>3, <2>3, <2>4 DEF BackedUpAt
<1> QED
  BY <1>2, <1>3 DEF BackedUp

-----------------------------------------------------------------------------
\* What a writer puts in its temp file is a snapshot.
LEMMA PayloadType ==
  ASSUME TypeOK, NEW w \in Workers, request[w] # None, snap[w] # None
  PROVE  Payload(w) \in Snapshot
<1>1. request[w] \in Request /\ snap[w] \in Snapshot
  BY RequestsAssumption DEF TypeOK
<1> QED
  BY <1>1, UpsertedType, EmptyType DEF Payload

\* The copy and the request of a worker exist as long as its step needs them.
Bookkeeping ==
  \A w \in Workers :
    /\ pc[w] = "idle" <=> request[w] = None
    /\ pc[w] = "unlock" <=> answer[w] # None
    /\ pc[w] \in Locked \ {"load"} <=> snap[w] # None

\* Each step keeps the types and the bookkeeping, whether flock holds or not.
LEMMA TypeStep ==
  TypeOK /\ Bookkeeping /\ [Next]_vars => TypeOK' /\ Bookkeeping'
<1> SUFFICES ASSUME TypeOK, Bookkeeping, [Next]_vars
             PROVE  TypeOK' /\ Bookkeeping'
  OBVIOUS
<1> USE DEF TypeOK, Bookkeeping, Locked, Steps, Goto, Reply, disk
<1>0. /\ None \notin Requests /\ None \notin Answer /\ None \notin Snapshot
      /\ Requests \subseteq Request
  BY NoneAssumption, RequestsAssumption
<1>1. ASSUME NEW w \in Workers, NEW r \in Requests, Call(w, r)
      PROVE  TypeOK' /\ Bookkeeping'
  BY <1>0, <1>1 DEF Call
<1>2. ASSUME NEW w \in Workers, Lock(w)
      PROVE  TypeOK' /\ Bookkeeping'
  BY <1>0, <1>2 DEF Lock
<1>3. ASSUME NEW w \in Workers, LoadRefused(w)
      PROVE  TypeOK' /\ Bookkeeping'
  <2>1. request[w] \in Request
    BY <1>0, <1>3 DEF LoadRefused
  <2>2. Refused(RefusalOf(file, request[w])) \in Answer
    BY <1>3, <2>1, RefusalType, RefusedType DEF LoadRefused
  <2> QED
    BY <1>0, <1>3, <2>2 DEF LoadRefused
<1>4. ASSUME NEW w \in Workers, LoadSeeded(w)
      PROVE  TypeOK' /\ Bookkeeping'
  <2>1. Written(file, file) \in Answer
    BY WrittenType
  <2> QED
    BY <1>0, <1>4, <2>1 DEF LoadSeeded
<1>5. ASSUME NEW w \in Workers, LoadForWrite(w)
      PROVE  TypeOK' /\ Bookkeeping'
  BY <1>0, <1>5 DEF LoadForWrite
<1>6. ASSUME NEW w \in Workers, TakeBackup(w)
      PROVE  TypeOK' /\ Bookkeeping'
  <2>1. file.rev \in Nat
    BY DEF Snapshot
  <2>2. backups' \in Seq(Nat \cup {Torn})
    BY <1>6, <2>1, BackedUpType DEF TakeBackup
  <2> QED
    BY <1>0, <1>6, <2>2 DEF TakeBackup
<1>7. ASSUME NEW w \in Workers, PruneBackup(w)
      PROVE  TypeOK' /\ Bookkeeping'
  <2>1. backups # << >>
    BY <1>7, BoundsAssumption, EmptySeq DEF PruneBackup
  <2>2. backups' \in Seq(Nat \cup {Torn})
    BY <1>7, <2>1, HeadTailProperties DEF PruneBackup
  <2> QED
    BY <1>0, <1>7, <2>2 DEF PruneBackup
<1>8. ASSUME NEW w \in Workers, PruneDone(w)
      PROVE  TypeOK' /\ Bookkeeping'
  BY <1>0, <1>8 DEF PruneDone
<1>9. ASSUME NEW w \in Workers, WriteTemp(w)
      PROVE  TypeOK' /\ Bookkeeping'
  BY <1>0, <1>9 DEF WriteTemp
<1>10. ASSUME NEW w \in Workers, Replace(w)
       PROVE  TypeOK' /\ Bookkeeping'
  <2>1. Payload(w) \in Snapshot
    BY <1>10, PayloadType DEF Replace
  <2>2. Written(snap[w], Payload(w)) \in Answer
    BY <1>10, <2>1, WrittenType DEF Replace
  <2> QED
    BY <1>0, <1>10, <2>1, <2>2 DEF Replace
<1>11. ASSUME NEW w \in Workers, Unlock(w)
       PROVE  TypeOK' /\ Bookkeeping'
  BY <1>0, <1>11 DEF Unlock
<1>12. ASSUME NEW w \in Workers, backups' \in FaultBackups(w)
       PROVE  backups' \in Seq(Nat \cup {Torn})
  BY <1>12, BackedUpType DEF FaultBackups
<1>13. ASSUME NEW w \in Workers, IOError(w)
       PROVE  TypeOK' /\ Bookkeeping'
  <2>1. Refused("error") \in Answer
    BY RefusedType
  <2>2. backups' \in Seq(Nat \cup {Torn})
    BY <1>12, <1>13 DEF IOError
  <2> QED
    BY <1>0, <1>13, <2>1, <2>2 DEF IOError
<1>14. ASSUME NEW w \in Workers, Crash(w)
       PROVE  TypeOK' /\ Bookkeeping'
  <2>1. backups' \in Seq(Nat \cup {Torn})
    BY <1>12, <1>14 DEF Crash
  <2> QED
    BY <1>0, <1>14, <2>1 DEF Crash
<1>15. CASE UNCHANGED vars
  BY <1>15 DEF vars
<1> QED
  BY <1>1, <1>2, <1>3, <1>4, <1>5, <1>6, <1>7, <1>8, <1>9, <1>10, <1>11, <1>13,
     <1>14, <1>15 DEF Next, Run

LEMMA TypeInit == Init => TypeOK /\ Bookkeeping
<1> SUFFICES ASSUME Init PROVE TypeOK /\ Bookkeeping
  OBVIOUS
<1>1. file \in Snapshot /\ exists \in BOOLEAN
  BY EmptyType DEF Init
<1> QED
  BY <1>1 DEF Init, TypeOK, Bookkeeping, Steps, Locked

\* Type correctness of the store.
THEOREM StoreTypeOK == Spec => []TypeOK
<1>1. Spec => [](TypeOK /\ Bookkeeping)
  BY TypeInit, TypeStep, PTL DEF Spec
<1> QED
  BY <1>1, PTL

-----------------------------------------------------------------------------
(* The inductive invariant.  It is stronger than CopyIsCurrent because that   *)
(* alone does not say who may change the file: the flock's one holder does.   *)

HolderAlone == \A w \in Workers : pc[w] \in Locked => holders = {w}

\* A copy that is to be written is the file, was not refused on it, and a seed
\* keeps one only as long as there is no file.
CopyIsReady ==
  \A w \in Workers :
    pc[w] \in Locked \ {"load"} =>
      /\ snap[w] = file
      /\ RefusalOf(file, request[w]) = "none"
      /\ request[w].kind = "seed" => ~ exists

NoFileIsEmpty == ~ exists => file = empty_snapshot

IInv ==
  /\ TypeOK
  /\ Bookkeeping
  /\ HolderAlone
  /\ CopyIsReady
  /\ NoFileIsEmpty
  /\ WellFormed(file.sessions)

LEMMA SafeInit == Init => IInv
<1> SUFFICES ASSUME Init PROVE IInv
  OBVIOUS
<1>1. WellFormed(file.sessions)
  BY EmptyType DEF Init
<1> QED
  BY <1>1, TypeInit DEF Init, IInv, HolderAlone, CopyIsReady, NoFileIsEmpty, Locked

LEMMA SafeStep == LockHolds /\ IInv /\ [Next]_vars => IInv'
<1> SUFFICES ASSUME LockHolds, IInv, [Next]_vars PROVE IInv'
  OBVIOUS
<1> DEFINE Rest == HolderAlone' /\ CopyIsReady' /\ NoFileIsEmpty'
                     /\ WellFormed(file.sessions)'
<1>0. TypeOK' /\ Bookkeeping'
  BY TypeStep DEF IInv
<1> USE DEF Locked, Goto, Reply, disk
<1>1. ASSUME NEW w \in Workers, NEW r \in Requests, Call(w, r)
      PROVE  Rest
  BY <1>1 DEF Call, IInv, TypeOK, HolderAlone, CopyIsReady, NoFileIsEmpty
<1>2. ASSUME NEW w \in Workers, Lock(w)
      PROVE  Rest
  BY <1>2 DEF Lock, IInv, TypeOK, HolderAlone, CopyIsReady, NoFileIsEmpty
<1>3. ASSUME NEW w \in Workers, LoadRefused(w)
      PROVE  Rest
  BY <1>3 DEF LoadRefused, IInv, TypeOK, HolderAlone, CopyIsReady, NoFileIsEmpty
<1>4. ASSUME NEW w \in Workers, LoadSeeded(w)
      PROVE  Rest
  BY <1>4 DEF LoadSeeded, IInv, TypeOK, HolderAlone, CopyIsReady, NoFileIsEmpty
<1>5. ASSUME NEW w \in Workers, LoadForWrite(w)
      PROVE  Rest
  BY <1>5 DEF LoadForWrite, IInv, TypeOK, HolderAlone, CopyIsReady, NoFileIsEmpty
<1>6. ASSUME NEW w \in Workers, TakeBackup(w)
      PROVE  Rest
  BY <1>6 DEF TakeBackup, IInv, TypeOK, HolderAlone, CopyIsReady, NoFileIsEmpty
<1>7. ASSUME NEW w \in Workers, PruneBackup(w)
      PROVE  Rest
  BY <1>7 DEF PruneBackup, IInv, TypeOK, HolderAlone, CopyIsReady, NoFileIsEmpty
<1>8. ASSUME NEW w \in Workers, PruneDone(w)
      PROVE  Rest
  BY <1>8 DEF PruneDone, IInv, TypeOK, HolderAlone, CopyIsReady, NoFileIsEmpty
<1>9. ASSUME NEW w \in Workers, WriteTemp(w)
      PROVE  Rest
  BY <1>9 DEF WriteTemp, IInv, TypeOK, HolderAlone, CopyIsReady, NoFileIsEmpty
<1>10. ASSUME NEW w \in Workers, Replace(w)
       PROVE  Rest
  <2>1. WellFormed(Payload(w).sessions)
    <3>1. CASE request[w].kind = "seed"
      BY <3>1, EmptyType DEF Payload
    <3>2. CASE request[w].kind # "seed"
      <4>1. snap[w] = file /\ snap[w] \in Snapshot /\ request[w] \in Request
        BY <1>10, NoneAssumption, RequestsAssumption
        DEF Replace, IInv, CopyIsReady, TypeOK, Bookkeeping
      <4>2. WellFormed(snap[w].sessions)
        BY <4>1 DEF IInv
      <4> QED
        BY <3>2, <4>1, <4>2, UpsertedType DEF Payload
    <3> QED
      BY <3>1, <3>2
  <2>2. \A v \in Workers \ {w} : pc'[v] \notin Locked
    BY <1>10 DEF Replace, IInv, TypeOK, HolderAlone
  <2>3. pc'[w] = "unlock"
    BY <1>10 DEF Replace, IInv, TypeOK
  <2> QED
    BY <1>10, <2>1, <2>2, <2>3 DEF Replace, HolderAlone, CopyIsReady, NoFileIsEmpty
<1>11. ASSUME NEW w \in Workers, Unlock(w)
       PROVE  Rest
  BY <1>11 DEF Unlock, IInv, TypeOK, HolderAlone, CopyIsReady, NoFileIsEmpty
<1>12. ASSUME NEW w \in Workers, IOError(w)
       PROVE  Rest
  BY <1>12 DEF IOError, IInv, TypeOK, HolderAlone, CopyIsReady, NoFileIsEmpty
<1>13. ASSUME NEW w \in Workers, Crash(w)
       PROVE  Rest
  BY <1>13 DEF Crash, IInv, TypeOK, HolderAlone, CopyIsReady, NoFileIsEmpty
<1>14. ASSUME UNCHANGED vars
       PROVE  Rest
  <2>1. /\ exists' = exists /\ file' = file /\ holders' = holders
        /\ pc' = pc /\ request' = request /\ snap' = snap
    BY <1>14 DEF vars
  <2> QED
    BY <2>1 DEF IInv, HolderAlone, CopyIsReady, NoFileIsEmpty
<1> HIDE DEF Rest
<1>15. Rest
  BY <1>1, <1>2, <1>3, <1>4, <1>5, <1>6, <1>7, <1>8, <1>9, <1>10, <1>11, <1>12,
     <1>13, <1>14 DEF Next, Run
<1> QED
  BY <1>0, <1>15 DEF IInv, Rest

LEMMA Safe == ASSUME LockHolds PROVE Spec => []IInv
<1>1. IInv /\ [Next]_vars => IInv'
  BY SafeStep
<1> QED
  BY <1>1, SafeInit, PTL DEF Spec

\* Where flock holds, one writer at a time is between the lock and the rename
\* (_exclusive).
THEOREM StoreOneWriter ==
  ASSUME LockHolds
  PROVE  Spec => []OneWriter
<1>1. IInv => OneWriter
  BY DEF IInv, HolderAlone, OneWriter
<1> QED
  BY <1>1, Safe, PTL

\* Where flock holds, no writer works on a copy another write has outdated: the
\* lost update of two workers cannot happen.
THEOREM StoreCopyIsCurrent ==
  ASSUME LockHolds
  PROVE  Spec => []CopyIsCurrent
<1>1. IInv => CopyIsCurrent
  BY DEF IInv, CopyIsReady, CopyIsCurrent
<1> QED
  BY <1>1, Safe, PTL

\* The file never holds two rows of one id, nor more rows than the cap.
THEOREM StoreRowsAreUnique ==
  ASSUME LockHolds
  PROVE  Spec => []RowsAreUnique
<1>1. IInv => RowsAreUnique
  BY DEF IInv, WellFormed, RowsAreUnique
<1> QED
  BY <1>1, Safe, PTL

-----------------------------------------------------------------------------
(* What the invariant says of the steps.                                     *)

\* The step that renames is the only one that changes the file.
LEMMA FileChange ==
  ASSUME TypeOK, [Next]_vars, file' # file \/ exists' # exists
  PROVE  \E w \in Workers : Replace(w)
BY DEF Next, Run, vars, disk, Call, Lock, LoadRefused, LoadSeeded, LoadForWrite,
       TakeBackup, PruneBackup, PruneDone, WriteTemp, Unlock, IOError, Crash

\* Where flock holds, a guarded write replaces the revision it named and no
\* other (expected_rev).
THEOREM StoreGuardedReplace ==
  ASSUME LockHolds
  PROVE  Spec => GuardedReplace
<1> DEFINE Kept(w) ==
      /\ pc[w] = "rename" /\ pc'[w] = "unlock" /\ answer'[w].status = "ok"
      /\ request[w].kind # "seed"
      => request[w].expected \in {NoRevision, file.rev}
<1>1. IInv /\ [Next]_vars => [\A w \in Workers : Kept(w)]_vars
  <2> SUFFICES ASSUME IInv, NEW w \in Workers,
                      pc[w] = "rename", request[w].kind # "seed"
               PROVE  request[w].expected \in {NoRevision, file.rev}
    OBVIOUS
  <2>1. RefusalOf(file, request[w]) = "none"
    BY DEF IInv, CopyIsReady, Locked
  <2> QED
    BY <2>1 DEF RefusalOf
<1> QED
  BY <1>1, Safe, PTL DEF Spec, GuardedReplace

\* Where flock holds, an unreadable snapshot is never replaced (migrate, load).
THEOREM StoreUnreadableIsKept ==
  ASSUME LockHolds
  PROVE  Spec => UnreadableIsKept
<1>1. IInv /\ [Next]_vars => [~ file.readable => UNCHANGED <<exists, file>>]_vars
  <2> SUFFICES ASSUME IInv, [Next]_vars, ~ file.readable,
                      file' # file \/ exists' # exists
               PROVE  FALSE
    OBVIOUS
  <2>1. PICK w \in Workers : Replace(w)
    BY FileChange DEF IInv
  <2>2. RefusalOf(file, request[w]) = "none"
    BY <2>1 DEF IInv, CopyIsReady, Locked, Replace
  <2> QED
    BY <2>2 DEF RefusalOf
<1> QED
  BY <1>1, Safe, PTL DEF Spec, UnreadableIsKept

\* The step from "rename" that answers ok is the rename.
LEMMA RenameStep ==
  ASSUME TypeOK, [Next]_vars, NEW w \in Workers, pc[w] = "rename", pc'[w] # "rename"
  PROVE  \/ Replace(w)
         \/ pc'[w] = "idle" /\ UNCHANGED file
         \/ pc'[w] = "unlock" /\ answer'[w].status = "error" /\ UNCHANGED file
<1>1. PICK v \in Workers :
        \/ \E r \in Requests : Call(v, r)
        \/ Lock(v) \/ Run(v) \/ IOError(v) \/ Crash(v)
  BY DEF Next, vars
<1>2. v = w
  BY <1>1
  DEF TypeOK, Run, Call, Lock, LoadRefused, LoadSeeded, LoadForWrite, TakeBackup, PruneBackup,
      PruneDone, WriteTemp, Replace, Unlock, IOError, Crash, Goto, Reply
<1>3. Replace(w) \/ IOError(w) \/ Crash(w)
  BY <1>1, <1>2
  DEF Run, Call, Lock, LoadRefused, LoadSeeded, LoadForWrite, TakeBackup, PruneBackup,
      PruneDone, WriteTemp, Unlock
<1>4. CASE IOError(w)
  BY <1>4 DEF IOError, TypeOK, Goto, Reply, Refused
<1>5. CASE Crash(w)
  BY <1>5 DEF Crash, TypeOK, Goto
<1> QED BY <1>3, <1>4, <1>5

\* What a rename by an upsert changes of the table.
LEMMA RowsOfUpsert ==
  ASSUME IInv, NEW w \in Workers, Replace(w), request[w].kind # "seed"
  PROVE  /\ request[w] \in Request /\ file \in Snapshot /\ WellFormed(file.sessions)
         /\ RefusalOf(file, request[w]) = "none"
         /\ file' = Upserted(file, request[w])
<1>1. pc[w] = "rename" /\ snap[w] = file /\ RefusalOf(file, request[w]) = "none"
  BY DEF Replace, IInv, CopyIsReady, Locked
<1>2. request[w] \in Request
  BY <1>1, NoneAssumption, RequestsAssumption DEF IInv, TypeOK, Bookkeeping
<1> QED BY <1>1, <1>2 DEF Replace, Payload, IInv, TypeOK

\* Where flock holds, no write drops a field of a row it keeps, the cap drops rows from
\* the front only, the row written is there, and a patch adds none (merge_session,
\* _enforce_cap, must_exist).
THEOREM StoreRowsAreKept ==
  ASSUME LockHolds
  PROVE  Spec => RowsAreKept
<1> DEFINE old == file.sessions
           new == file'.sessions
           FieldsKept == \A id \in StoredIds(old) \cap StoredIds(new), f \in Fields :
                           old[RowOf(old, id)].body[f] # Absent
                             => new[RowOf(new, id)].body[f] # Absent
           FrontDropped == \A i, j \in DOMAIN old :
                             i < j /\ old[i].id \in StoredIds(new)
                               => old[j].id \in StoredIds(new)
           RowWritten == \A w \in Workers :
                           pc[w] = "rename" /\ pc'[w] = "unlock" /\ answer'[w].status = "ok"
                             /\ request[w].kind # "seed"
                           => request[w].id \in StoredIds(new)
           NoneAdded == \A w \in Workers :
                          pc[w] = "rename" /\ new # old /\ pc'[w] # "rename"
                            /\ request[w].kind = "patch"
                          => StoredIds(new) \subseteq StoredIds(old)
<1>1. IInv /\ [Next]_vars => [FieldsKept /\ FrontDropped /\ RowWritten /\ NoneAdded]_vars
  <2> SUFFICES ASSUME IInv, [Next]_vars
               PROVE  FieldsKept /\ FrontDropped /\ RowWritten /\ NoneAdded
    OBVIOUS
  <2>1. ASSUME NEW w \in Workers, Replace(w), request[w].kind # "seed"
        PROVE  /\ FieldsKept /\ FrontDropped /\ request[w].id \in StoredIds(new)
               /\ request[w].kind = "patch" => StoredIds(new) \subseteq StoredIds(old)
    <3>1. /\ request[w] \in Request /\ file \in Snapshot /\ WellFormed(old)
          /\ RefusalOf(file, request[w]) = "none" /\ new = Upserted(file, request[w]).sessions
      BY <2>1, RowsOfUpsert
    <3>2. request[w].kind = "patch" => request[w].id \in StoredIds(old)
      BY <3>1 DEF RefusalOf
    <3> HIDE DEF old, new
    <3> QED BY <3>1, <3>2, UpsertKeepsRows DEF old
  <2>2. CASE new = old
    <3>1. FieldsKept /\ FrontDropped /\ NoneAdded
      BY <2>2 DEF StoredIds
    <3>2. RowWritten
      BY <2>1, RenameStep DEF IInv
    <3> QED BY <3>1, <3>2
  <2>3. CASE new # old
    <3>1. PICK v \in Workers : Replace(v)
      BY <2>3, FileChange DEF IInv
    <3>2. request[v].kind # "seed"
      <4>1. SUFFICES ASSUME request[v].kind = "seed" PROVE FALSE
        OBVIOUS
      <4>2. file = empty_snapshot
        BY <3>1, <4>1 DEF Replace, IInv, CopyIsReady, NoFileIsEmpty, Locked
      <4>3. file' = empty_snapshot
        BY <3>1, <4>1 DEF Replace, Payload
      <4> QED BY <2>3, <4>2, <4>3
    <3>3. \A w \in Workers : pc[w] = "rename" => w = v
      BY <3>1 DEF Replace, IInv, HolderAlone, Locked
    <3> QED BY <2>1, <3>1, <3>2, <3>3
  <2> QED BY <2>2, <2>3
<1> QED
  BY <1>1, Safe, PTL DEF Spec, RowsAreKept, RowOf

-----------------------------------------------------------------------------
(* A rollback is real.                                                       *)

\* Before a writer of an existing file gets to its rename, the newest backup is a copy of
\* that very file, and the pruning has left it and no more than the retention.
LastBackup == backups[Len(backups)]

BackupReady ==
  \A w \in Workers : exists =>
    /\ pc[w] = "prune" => backups # << >> /\ LastBackup = file.rev
    /\ pc[w] \in {"temp", "rename"} =>
         backups # << >> /\ LastBackup = file.rev /\ Len(backups) <= Retention

LEMMA BackupInit == Init => BackupReady
  BY DEF Init, BackupReady

\* The steps of the others do not touch what a writer relies on.
LEMMA BackupStep ==
  ASSUME ClockNeverSteps, LockHolds, IInv, IInv', BackupReady, [Next]_vars
  PROVE  BackupReady'
<1>1. backups \in Seq(Nat \cup {Torn}) /\ Len(backups) \in Nat /\ Retention \in Nat \ {0}
  BY LenProperties, BoundsAssumption DEF IInv, TypeOK
<1>2. pc \in [Workers -> Steps]
  BY DEF IInv, TypeOK
<1>3. \A v, w \in Workers : pc'[v] \in Locked /\ pc'[w] \in Locked => v = w
  BY DEF IInv, HolderAlone
<1> SUFFICES ASSUME NEW w \in Workers, exists', pc'[w] \in {"prune", "temp", "rename"}
             PROVE  /\ backups' # << >> /\ LastBackup' = file'.rev
                    /\ pc'[w] \in {"temp", "rename"} => Len(backups') <= Retention
  BY DEF BackupReady
<1>4. \A v \in Workers : ~ Replace(v)
  <2> SUFFICES ASSUME NEW v \in Workers, Replace(v) PROVE FALSE
    OBVIOUS
  <2>1. pc[v] = "rename" /\ pc'[v] = "unlock" /\ \A u \in Workers \ {v} : pc'[u] = pc[u]
    BY <1>2 DEF Replace, Reply, Goto
  <2>2. pc[w] \in Locked /\ v # w /\ pc[v] \in Locked
    BY <2>1 DEF Locked
  <2> QED BY <2>2 DEF IInv, HolderAlone
<1>5. file' = file /\ exists' = exists
  BY <1>4, FileChange DEF IInv
<1>6. ASSUME NEW v \in Workers, \/ \E r \in Requests : Call(v, r)
                                \/ Lock(v) \/ LoadRefused(v) \/ LoadSeeded(v)
                                \/ WriteTemp(v) \/ Unlock(v)
      PROVE  /\ backups' = backups
             /\ pc'[w] = pc[w] \/ (v = w /\ pc[w] = "temp" /\ pc'[w] = "rename")
  BY <1>2, <1>6 DEF Call, Lock, LoadRefused, LoadSeeded, WriteTemp, Unlock, Goto, Reply, disk
<1>7. ASSUME backups' = backups,
             pc'[w] = pc[w] \/ (pc[w] = "temp" /\ pc'[w] = "rename")
      PROVE  /\ backups' # << >> /\ LastBackup' = file'.rev
             /\ pc'[w] \in {"temp", "rename"} => Len(backups') <= Retention
  BY <1>5, <1>7 DEF BackupReady, LastBackup
<1>8. ASSUME NEW v \in Workers, pc[v] \in Locked, v # w
      PROVE  pc'[w] # pc[w]
  BY <1>8 DEF IInv, HolderAlone, Locked
<1>9. CASE \E v \in Workers : LoadForWrite(v)
  <2>1. PICK v \in Workers : LoadForWrite(v)
    BY <1>9
  <2>2. v = w
    BY <1>2, <1>8, <2>1 DEF LoadForWrite, Goto, Locked
  <2> QED BY <1>2, <1>5, <2>1, <2>2 DEF LoadForWrite, Goto
<1>10. CASE \E v \in Workers : TakeBackup(v)
  <2>1. PICK v \in Workers : TakeBackup(v)
    BY <1>10
  <2>2. v = w /\ pc'[w] = "prune"
    BY <1>2, <1>8, <2>1 DEF TakeBackup, Goto, Locked
  <2>3. backups' = Append(backups, file.rev)
    BY <2>1 DEF TakeBackup, BackedUp
  <2>4. file.rev \in Nat \cup {Torn}
    BY DEF IInv, TypeOK, Snapshot
  <2>5. backups' # << >> /\ LastBackup' = file.rev
    BY <1>1, <2>3, <2>4, AppendProperties, EmptySeq DEF LastBackup
  <2> QED BY <1>5, <2>2, <2>5
<1>11. CASE \E v \in Workers : PruneBackup(v)
  <2>1. PICK v \in Workers : PruneBackup(v)
    BY <1>11
  <2>2. v = w /\ pc[w] = "prune" /\ pc'[w] = "prune" /\ Len(backups) > Retention
        /\ backups' = Tail(backups)
    BY <1>8, <2>1 DEF PruneBackup, Locked
  <2>3. backups # << >> /\ LastBackup = file.rev
    BY <1>5, <2>2 DEF BackupReady
  <2>4. /\ Tail(backups) \in Seq(Nat \cup {Torn}) /\ Len(Tail(backups)) = Len(backups) - 1
        /\ \A i \in 1 .. Len(backups) - 1 : Tail(backups)[i] = backups[i + 1]
    BY <1>1, <2>3, HeadTailProperties
  <2>5. Len(backups) - 1 \in 1 .. Len(backups) - 1
    BY <1>1, <2>2
  <2>6. Tail(backups)[Len(backups) - 1] = backups[Len(backups)]
    BY <1>1, <2>4, <2>5
  <2>7. Tail(backups) # << >>
    BY <2>4, <2>5, EmptySeq
  <2> QED BY <1>5, <2>2, <2>3, <2>4, <2>6, <2>7 DEF LastBackup
<1>12. CASE \E v \in Workers : PruneDone(v)
  <2>1. PICK v \in Workers : PruneDone(v)
    BY <1>12
  <2>2. v = w /\ pc[w] = "prune" /\ Len(backups) <= Retention /\ backups' = backups
    BY <1>2, <1>8, <2>1 DEF PruneDone, Goto, Locked, disk
  <2> QED BY <1>5, <2>2 DEF BackupReady, LastBackup
<1>13. CASE \E v \in Workers : IOError(v) \/ Crash(v)
  <2>1. PICK v \in Workers : IOError(v) \/ Crash(v)
    BY <1>13
  <2>2. v # w /\ pc'[w] = pc[w]
    BY <1>2, <2>1 DEF IOError, Crash, Goto, Reply
  <2>3. pc[v] \notin Locked
    BY <1>8, <2>2
  <2>4. backups' = backups
    BY <2>1, <2>3 DEF IOError, Crash, FaultBackups, Locked
  <2> QED BY <1>7, <2>2, <2>4
<1>14. CASE UNCHANGED vars
  BY <1>7, <1>14 DEF vars, disk
<1> QED
  BY <1>4, <1>6, <1>7, <1>9, <1>10, <1>11, <1>12, <1>13, <1>14 DEF Next, Run

\* Where flock holds and every backup gets a later name than the last, a snapshot is only
\* overwritten while a backup of that very revision is on the volume, within the
\* retention (_take_backup before the rename).  After a clock that steps back the new backup
\* can be the one that is pruned.
THEOREM StoreOverwriteIsBackedUp ==
  ASSUME LockHolds, ClockNeverSteps
  PROVE  Spec => OverwriteIsBackedUp
<1> DEFINE BackedUpNow == exists /\ file' # file =>
             /\ \E i \in DOMAIN backups : backups[i] = file.rev
             /\ Len(backups) <= Retention
<1>1. BackupReady /\ IInv /\ IInv' /\ [Next]_vars => BackupReady'
  BY BackupStep
<1>2. IInv /\ BackupReady /\ [Next]_vars => [BackedUpNow]_vars
  <2> SUFFICES ASSUME IInv, BackupReady, [Next]_vars, exists, file' # file
               PROVE  /\ \E i \in DOMAIN backups : backups[i] = file.rev
                      /\ Len(backups) <= Retention
    OBVIOUS
  <2>1. PICK w \in Workers : pc[w] = "rename"
    BY FileChange DEF IInv, Replace
  <2>2. backups # << >> /\ LastBackup = file.rev /\ Len(backups) <= Retention
    BY <2>1 DEF BackupReady
  <2>3. Len(backups) \in DOMAIN backups
    BY <2>2, LenProperties, EmptySeq DEF IInv, TypeOK
  <2> QED BY <2>2, <2>3 DEF LastBackup
<1> QED
  BY <1>1, <1>2, BackupInit, Safe, PTL DEF Spec, OverwriteIsBackedUp

-----------------------------------------------------------------------------
(* The store implements the ledger.                                          *)

\* The ledger reads the table with the same functions.
LEMMA SameTable ==
  /\ Ledger!Snapshot = Snapshot
  /\ \A status : Ledger!Refused(status) = Refused(status)
  /\ \A t, u : Ledger!Written(t, u) = Written(t, u)
  /\ \A t, r : Ledger!RefusalOf(t, r) = RefusalOf(t, r)
  /\ \A t, r : Ledger!Upserted(t, r) = Upserted(t, r)
<1>1. Ledger!Snapshot = Snapshot
  BY DEF Ledger!Snapshot, Snapshot, Ledger!Session, Session, Ledger!Body, Body
<1>2. \A status : Ledger!Refused(status) = Refused(status)
  BY DEF Ledger!Refused, Refused
<1>3. \A t, u : Ledger!Written(t, u) = Written(t, u)
  BY DEF Ledger!Written, Written
<1>4. \A t, r : Ledger!RefusalOf(t, r) = RefusalOf(t, r)
  BY Zenon DEF Ledger!RefusalOf, RefusalOf, Ledger!NoRevision, NoRevision,
               Ledger!StoredIds, StoredIds
<1>5. \A t, r : Ledger!Upserted(t, r) = Upserted(t, r)
  BY Zenon DEF Ledger!Upserted, Upserted, Ledger!EnforceCap, EnforceCap,
     Ledger!Dropped, Dropped, Ledger!Apply, Apply, Ledger!StoredIds, StoredIds,
     Ledger!IsFirstRowOf, IsFirstRowOf, Ledger!merge_session, merge_session
<1> QED
  BY <1>1, <1>2, <1>3, <1>4, <1>5

LEMMA LedgerInit == Init => Ledger!Init
<1> SUFFICES ASSUME Init PROVE Ledger!Init
  OBVIOUS
<1>1. file \in Snapshot
  BY EmptyType DEF Init
<1> QED
  BY <1>1, SameTable DEF Init, Ledger!Init

\* Every step of the store is a step of the ledger or leaves it alone: a refusal
\* takes effect at the load, a write at the rename.
LEMMA LedgerStep ==
  ASSUME LockHolds, IInv, [Next]_vars
  PROVE  [Ledger!Next]_(Ledger!vars)
<1> USE DEF IInv, TypeOK, Bookkeeping, Locked, Goto, Reply, disk
<1> DEFINE Goal == [Ledger!Next]_(Ledger!vars)
<1>0. None \notin Requests /\ Requests \subseteq Request
  BY NoneAssumption, RequestsAssumption
<1>1. ASSUME NEW w \in Workers, NEW r \in Requests, Call(w, r)
      PROVE  Ledger!Invoke(w, r)
  BY <1>1 DEF Call, Ledger!Invoke
<1>2. ASSUME NEW w \in Workers, LoadRefused(w)
      PROVE  Ledger!Refuse(w)
  BY <1>2, SameTable DEF LoadRefused, Ledger!Refuse, Ledger!Pending
<1>3. ASSUME NEW w \in Workers, LoadSeeded(w)
      PROVE  Ledger!Seed(w)
  BY <1>3, SameTable DEF LoadSeeded, Ledger!Seed, Ledger!Pending
<1>4. ASSUME NEW w \in Workers, Replace(w)
      PROVE  Ledger!Seed(w) \/ Ledger!Upsert(w)
  <2>1. /\ Ledger!Pending(w)
        /\ snap[w] = file
        /\ RefusalOf(file, request[w]) = "none"
        /\ request[w].kind = "seed" => file = empty_snapshot
    BY <1>4 DEF Replace, Ledger!Pending, CopyIsReady, NoFileIsEmpty
  <2>2. /\ file' = Payload(w)
        /\ answer' = [answer EXCEPT ![w] = Written(file, Payload(w))]
        /\ request' = request
    BY <1>4, <2>1 DEF Replace
  <2>3. CASE request[w].kind = "seed"
    <3>1. Payload(w) = file
      BY <2>1, <2>3 DEF Payload
    <3> QED
      BY <2>1, <2>2, <2>3, <3>1, SameTable DEF Ledger!Seed
  <2>4. CASE request[w].kind # "seed"
    <3>1. Payload(w) = Upserted(file, request[w])
      BY <2>1, <2>4 DEF Payload
    <3> QED
      BY <2>1, <2>2, <2>4, <3>1, SameTable DEF Ledger!Upsert
  <2> QED
    BY <2>3, <2>4
<1>5. ASSUME NEW w \in Workers, Unlock(w)
      PROVE  Ledger!Depart(w)
  BY <1>5 DEF Unlock, Ledger!Depart
<1>6. ASSUME NEW w \in Workers, IOError(w)
      PROVE  Ledger!Fail(w)
  BY <1>6, SameTable DEF IOError, Ledger!Fail, Ledger!Pending
<1>7. ASSUME NEW w \in Workers, Crash(w)
      PROVE  Ledger!Depart(w)
  BY <1>7 DEF Crash, Ledger!Depart
<1>8. ASSUME NEW w \in Workers,
             \/ Lock(w) \/ LoadForWrite(w) \/ TakeBackup(w) \/ PruneBackup(w)
             \/ PruneDone(w) \/ WriteTemp(w)
      PROVE  UNCHANGED <<file, request, answer>>
  BY <1>8 DEF Lock, LoadForWrite, TakeBackup, PruneBackup, PruneDone, WriteTemp
<1>9. CASE UNCHANGED vars
  BY <1>9 DEF vars, Ledger!vars
<1>10. CASE \E w \in Workers : \/ \E r \in Requests : Ledger!Invoke(w, r)
                              \/ Ledger!Refuse(w) \/ Ledger!Seed(w)
                              \/ Ledger!Upsert(w) \/ Ledger!Fail(w)
                              \/ Ledger!Depart(w)
  BY <1>10 DEF Ledger!Next
<1>11. CASE UNCHANGED <<file, request, answer>>
  BY <1>11 DEF Ledger!vars
<1> QED
  BY <1>1, <1>2, <1>3, <1>4, <1>5, <1>6, <1>7, <1>8, <1>9, <1>10, <1>11
  DEF Next, Run

\* Where flock holds, every request to the store takes effect at one instant,
\* whatever the other workers, the faults and the crashes do (upsert_session).
THEOREM StoreImplementsLedger ==
  ASSUME LockHolds
  PROVE  Spec => LedgerSpec
<1>1. IInv /\ [Next]_vars => [Ledger!Next]_(Ledger!vars)
  BY LedgerStep
<1> QED
  BY <1>1, LedgerInit, Safe, PTL DEF Spec, LedgerSpec, Ledger!Spec
=============================================================================

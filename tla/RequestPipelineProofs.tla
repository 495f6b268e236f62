------------------------ MODULE RequestPipelineProofs ------------------------
(***************************************************************************)
(* The safety properties of RequestPipeline, for any callers, connections,   *)
(* requests, limits and bounds.  The tables and the connections meet in few  *)
(* actions, so each has lemmas of its own.                                  *)
(***************************************************************************)
EXTENDS RequestPipeline, FiniteSetTheorems, TLAPS

-----------------------------------------------------------------------------
(* The limiter.                                                              *)

\* allow() leaves a table behind.
LEMMA AfterCallIsTable ==
  ASSUME NEW table, IsTable(table), NEW key \in Keys, NEW t \in Nat
  PROVE  IsTable(AfterCall(table, key, t))
<1>1. Live(table, t) \subseteq DOMAIN table /\ Live(table, t) \subseteq Keys
  BY DEF Live, IsTable
<1>2. \A k \in DOMAIN table : table[k] \in Calls
  BY DEF IsTable
<1>3. Counted(table, key, t) \in Calls
  <2>1. CASE key \in Live(table, t)
    BY <2>1, <1>1, <1>2 DEF Counted, Calls
  <2>2. CASE key \notin Live(table, t)
    BY <2>2 DEF Counted, Calls
  <2> QED
    BY <2>1, <2>2
<1>4. CASE NoRoom(table, key, t)
  BY <1>1, <1>2, <1>4 DEF AfterCall, _drop_expired, IsTable
<1>5. CASE ~ NoRoom(table, key, t)
  BY <1>1, <1>2, <1>3, <1>5 DEF AfterCall, IsTable
<1> QED
  BY <1>4, <1>5

Bounded(table) == IsFiniteSet(DOMAIN table) /\ Cardinality(DOMAIN table) <= MaxKeys

\* allow() never lets a table grow past its bound.
LEMMA AfterCallIsBounded ==
  ASSUME NEW table, Bounded(table), NEW key, NEW t
  PROVE  Bounded(AfterCall(table, key, t))
<1> DEFINE live == Live(table, t)
<1>1. live \in SUBSET DOMAIN table
  BY DEF Live
<1>2. IsFiniteSet(live) /\ Cardinality(live) <= Cardinality(DOMAIN table)
  BY <1>1, FS_Subset DEF Bounded
<1>3. Cardinality(live) \in Nat /\ Cardinality(DOMAIN table) \in Nat
  BY <1>2, FS_CardinalityType DEF Bounded
<1>4. Cardinality(live) <= MaxKeys
  BY <1>2, <1>3, MaxKeysAssumption DEF Bounded
<1>5. CASE NoRoom(table, key, t)
  <2>1. DOMAIN AfterCall(table, key, t) = live
    BY <1>5 DEF AfterCall, _drop_expired
  <2> QED
    BY <2>1, <1>2, <1>4 DEF Bounded
<1>6. CASE ~ NoRoom(table, key, t)
  <2>1. DOMAIN AfterCall(table, key, t) = live \cup {key}
    BY <1>6 DEF AfterCall
  <2>2. IsFiniteSet(live \cup {key})
        /\ Cardinality(live \cup {key}) =
             IF key \in live THEN Cardinality(live) ELSE Cardinality(live) + 1
    BY <1>2, FS_AddElement
  <2>3. key \in live \/ Cardinality(live) < MaxKeys
    BY <1>6, <1>3, MaxKeysAssumption DEF NoRoom
  <2>4. Cardinality(live \cup {key}) <= MaxKeys
    BY <2>2, <2>3, <1>3, <1>4, MaxKeysAssumption
  <2> QED
    BY <2>1, <2>2, <2>4 DEF Bounded
<1> QED
  BY <1>5, <1>6

\* A call, granted or not, leaves every window that is not over where it was,
\* and what was counted in it counted.
LEMMA AfterCallKeeps ==
  ASSUME NEW table, IsTable(table), NEW key, NEW t \in Nat,
         NEW k \in Live(table, t)
  PROVE  /\ k \in DOMAIN AfterCall(table, key, t)
         /\ AfterCall(table, key, t)[k].start = table[k].start
         /\ AfterCall(table, key, t)[k].count >= table[k].count
<1>1. k \in DOMAIN table /\ table[k] \in Calls
  BY DEF Live, IsTable
<1>2. table[k].count \in Nat
  BY <1>1 DEF Calls
<1>3. CASE NoRoom(table, key, t)
  BY <1>2, <1>3 DEF AfterCall, _drop_expired
<1>4. CASE ~ NoRoom(table, key, t) /\ k # key
  BY <1>2, <1>4 DEF AfterCall
<1>5. CASE ~ NoRoom(table, key, t) /\ k = key
  <2>1. AfterCall(table, key, t)[k] = [table[k] EXCEPT !.count = @ + 1]
    BY <1>5 DEF AfterCall, Counted
  <2>2. k \in DOMAIN AfterCall(table, key, t)
    BY <1>5 DEF AfterCall
  <2> QED
    BY <2>1, <2>2, <1>1, <1>2 DEF Calls
<1> QED
  BY <1>3, <1>4, <1>5

-----------------------------------------------------------------------------
(* The connections.                                                          *)

\* What TypeOK, BodiesAreCapped and ProbesAreServed say of the connections.
ConnInv ==
  /\ pc \in [Connections -> {"idle", "drain", "parse", "work"}]
  /\ request \in [Connections -> Requests \cup {None}]
  /\ \A s \in Connections : request[s] = None <=> pc[s] = "idle"
  /\ body \in [Connections -> Nat]
  /\ answer \in [route : Routes, status : Statuses] \cup {None}
  /\ BodiesAreCapped
  /\ ProbesAreServed

USE DEF Statuses, Routes

\* A connection that is busy carries one of the requests.
LEMMA Busy ==
  ASSUME ConnInv, NEW s \in Connections, pc[s] # "idle"
  PROVE  /\ request[s] \in Requests
         /\ request[s] \in Request
BY RequestsAssumption DEF ConnInv

\* An answer ends a request; a health check must be told ok.
LEMMA ReplyKeeps ==
  ASSUME ConnInv, NEW s \in Connections, pc[s] # "idle", NEW status \in Statuses,
         request[s].route = "probe" => status = "ok",
         Reply(s, status)
  PROVE  ConnInv'
<1>1. request[s].route \in Routes
  BY Busy DEF Request
<1>2. answer' \in [route : Routes, status : Statuses]
  BY <1>1 DEF Reply
<1>3. /\ pc' \in [Connections -> {"idle", "drain", "parse", "work"}]
      /\ request' \in [Connections -> Requests \cup {None}]
      /\ body' \in [Connections -> Nat]
      /\ \A c \in Connections : request'[c] = None <=> pc'[c] = "idle"
  BY DEF ConnInv, Reply
<1>4. BodiesAreCapped'
  BY BodyAssumption DEF ConnInv, Reply, BodiesAreCapped
<1>5. ProbesAreServed'
  BY DEF ConnInv, Reply, ProbesAreServed
<1> QED
  BY <1>2, <1>3, <1>4, <1>5 DEF ConnInv

\* A request moves on with a body no larger than the cap.
LEMMA GotoKeeps ==
  ASSUME ConnInv, NEW s \in Connections, pc[s] # "idle",
         NEW layer \in {"drain", "parse", "work"},
         layer = "drain" => request[s].route # "probe",
         Goto(s, layer),
         NEW n \in Nat, n <= MaxBody, body' = [body EXCEPT ![s] = n]
  PROVE  ConnInv'
<1>1. /\ pc' \in [Connections -> {"idle", "drain", "parse", "work"}]
      /\ request' \in [Connections -> Requests \cup {None}]
      /\ body' \in [Connections -> Nat]
      /\ answer' = answer
      /\ \A c \in Connections : request'[c] = None <=> pc'[c] = "idle"
  BY DEF ConnInv, Goto
<1>2. BodiesAreCapped'
  BY DEF ConnInv, BodiesAreCapped
<1>3. ProbesAreServed'
  BY DEF ConnInv, Goto, ProbesAreServed
<1> QED
  BY <1>1, <1>2, <1>3 DEF ConnInv

\* A body that is framed by nothing is no body: what passes undrained is empty.
LEMMA UnframedIsEmpty ==
  ASSUME NEW r \in Requests, r.route \in {"write", "answer"}, ~ Drained(r)
  PROVE  r.size = 0
<1>1. \A h \in Range(r.headers) : h = "zero"
  BY DEF Drained, _body_framed
<1>2. r.headers \in Seq(Header) /\ Deliverable(r)
  BY RequestsAssumption DEF Request
<1>3. ASSUME r.headers # << >>
      PROVE  Range(r.headers) # {}
  <2>1. 1 \in DOMAIN r.headers
    BY <1>2, <1>3
  <2> QED
    BY <2>1 DEF Range
<1> QED
  BY <1>1, <1>2, <1>3 DEF Deliverable

LEMMA EnterKeeps ==
  ASSUME ConnInv, NEW s \in Connections, pc[s] = "idle", NEW r \in Requests,
         Enter(s, r)
  PROVE  ConnInv'
<1>0. r \in Request /\ r # None
  BY RequestsAssumption, NoRequest
<1>1. CASE Drained(r) /\ _declared_over_cap(r)
  <2>1. /\ answer' = [route |-> r.route, status |-> "toolarge"]
        /\ UNCHANGED <<pc, request, body>>
    BY <1>1 DEF Enter
  <2>2. r.route \in Routes \ {"probe"}
    BY <1>0, <1>1 DEF Drained, Request
  <2> QED
    BY <2>1, <2>2 DEF ConnInv, BodiesAreCapped, ProbesAreServed
<1>2. CASE ~ (Drained(r) /\ _declared_over_cap(r))
  <2> DEFINE n == IF ~ Drained(r) /\ r.route \in {"write", "answer"}
                    THEN r.size ELSE 0
  <2>1. /\ pc' = [pc EXCEPT ![s] = IF Drained(r) THEN "drain" ELSE "parse"]
        /\ request' = [request EXCEPT ![s] = r]
        /\ body' = [body EXCEPT ![s] = n]
        /\ answer' = answer
    BY <1>2 DEF Enter
  <2>2. n = 0
    BY UnframedIsEmpty
  <2>3. Drained(r) => r.route # "probe"
    BY DEF Drained
  <2> HIDE DEF n
  <2>4. /\ pc' \in [Connections -> {"idle", "drain", "parse", "work"}]
        /\ request' \in [Connections -> Requests \cup {None}]
        /\ body' \in [Connections -> Nat]
        /\ \A c \in Connections : request'[c] = None <=> pc'[c] = "idle"
    BY <2>1, <2>2, <1>0 DEF ConnInv
  <2>5. BodiesAreCapped'
    BY <2>1, <2>2, BodyAssumption DEF ConnInv, BodiesAreCapped
  <2>6. ProbesAreServed'
    <3>1. \A c \in Connections : pc'[c] = "drain" => request'[c].route # "probe"
      BY <2>1, <2>3 DEF ConnInv, ProbesAreServed
    <3> QED
      BY <3>1, <2>1 DEF ConnInv, ProbesAreServed
  <2> QED
    BY <2>1, <2>4, <2>5, <2>6 DEF ConnInv
<1> QED
  BY <1>1, <1>2

-----------------------------------------------------------------------------
(* The steps.                                                                *)

TablesInv ==
  /\ tables = [b \in Buckets |-> tables[b]]
  /\ \A b \in Buckets : IsTable(tables[b]) /\ Bounded(tables[b])

Clock == now \in 0..MaxTime /\ env \in Started

\* The inductive invariant.
IInv == Clock /\ TablesInv /\ ConnInv

LEMMA CallKeeps ==
  ASSUME TablesInv, NEW b \in Buckets, NEW key \in Keys, now \in Nat, Call(b, key)
  PROVE  TablesInv'
<1>1. tables' = [tables EXCEPT ![b] = AfterCall(tables[b], key, now)]
  BY DEF Call
<1>2. IsTable(AfterCall(tables[b], key, now)) /\ Bounded(AfterCall(tables[b], key, now))
  BY AfterCallIsTable, AfterCallIsBounded DEF TablesInv
<1>3. /\ tables' = [c \in Buckets |-> tables'[c]]
      /\ \A c \in Buckets : tables'[c] = IF c = b THEN AfterCall(tables[b], key, now)
                                                  ELSE tables[c]
  BY <1>1 DEF TablesInv
<1> QED
  BY <1>2, <1>3 DEF TablesInv

LEMMA InitHolds == Init => IInv
<1> SUFFICES ASSUME Init
             PROVE  IInv
  OBVIOUS
<1>1. Clock
  BY BodyAssumption DEF Init, Clock
<1>2. IsTable(NoCalls) /\ Bounded(NoCalls)
  <2>1. DOMAIN NoCalls = {}
    BY DEF NoCalls
  <2>2. IsTable(NoCalls)
    BY DEF IsTable, NoCalls
  <2> QED
    BY <2>1, <2>2, FS_EmptySet, MaxKeysAssumption DEF Bounded
<1>3. TablesInv
  BY <1>2 DEF Init, TablesInv
<1>4. ConnInv
  BY BodyAssumption DEF Init, ConnInv, BodiesAreCapped, ProbesAreServed
<1> QED
  BY <1>1, <1>3, <1>4 DEF IInv

LEMMA StepHolds == IInv /\ [Next]_vars => IInv'
<1> SUFFICES ASSUME IInv, [Next]_vars
             PROVE  IInv'
  OBVIOUS
<1> USE DEF IInv
<1>0. now \in Nat
  BY BodyAssumption DEF Clock
<1>1. ASSUME NEW s \in Connections, NEW r \in Requests, ArriveExempt(s, r)
      PROVE  IInv'
  <2>1. UNCHANGED <<now, env, tables>>
    BY <1>1 DEF ArriveExempt
  <2>2. ConnInv'
    BY <1>1, EnterKeeps DEF ArriveExempt
  <2> QED
    BY <2>1, <2>2 DEF Clock, TablesInv
<1>2. ASSUME NEW s \in Connections, NEW r \in Requests, Arrive(s, r)
      PROVE  IInv'
  <2>1. UNCHANGED <<now, env>> /\ r \in Request /\ r.route # "probe"
    BY <1>2, RequestsAssumption DEF Arrive
  <2>2. TablesInv'
    BY <1>2, <1>0, <2>1, CallKeeps DEF Arrive, Buckets, Request
  <2>3. ConnInv'
    <3>1. CASE Admits("coarse", r.key)
      BY <1>2, <3>1, EnterKeeps DEF Arrive
    <3>2. CASE ~ Admits("coarse", r.key)
      <4>1. /\ answer' = [route |-> r.route, status |-> "limited"]
            /\ UNCHANGED <<pc, request, body>>
        BY <1>2, <3>2 DEF Arrive
      <4> QED
        BY <2>1, <4>1 DEF ConnInv, BodiesAreCapped, ProbesAreServed, Request
    <3> QED
      BY <3>1, <3>2
  <2> QED
    BY <2>1, <2>2, <2>3 DEF Clock
<1>3. ASSUME NEW s \in Connections, NEW n \in 0..MaxChunk, Receive(s, n)
      PROVE  IInv'
  <2>1. /\ UNCHANGED <<now, env, tables>>
        /\ pc[s] = "drain"
    BY <1>3 DEF Receive
  <2>2. request[s].route # "probe"
    BY <2>1 DEF ConnInv, ProbesAreServed
  <2>3. body[s] + n \in Nat
    BY BodyAssumption DEF ConnInv
  <2>4. ConnInv'
    <3>1. CASE body[s] + n > MaxBody
      BY <1>3, <2>1, <2>2, <3>1, ReplyKeeps DEF Receive
    <3>2. CASE ~ (body[s] + n > MaxBody)
      <4>1. body[s] + n <= MaxBody
        BY <3>2, <2>3, BodyAssumption
      <4>2. CASE body[s] + n < request[s].size
        <5>1. Goto(s, "drain") /\ body' = [body EXCEPT ![s] = body[s] + n]
          BY <1>3, <3>2, <4>2 DEF Receive
        <5> QED
          BY <2>1, <2>2, <2>3, <4>1, <5>1, GotoKeeps
      <4>3. CASE ~ (body[s] + n < request[s].size)
        <5>1. Goto(s, "parse") /\ body' = [body EXCEPT ![s] = body[s] + n]
          BY <1>3, <3>2, <4>3 DEF Receive
        <5> QED
          BY <2>1, <2>3, <4>1, <5>1, GotoKeeps
      <4> QED
        BY <4>2, <4>3
    <3> QED
      BY <3>1, <3>2
  <2> QED
    BY <2>1, <2>4 DEF Clock, TablesInv
<1>4. ASSUME NEW s \in Connections, Disconnect(s) \/ DrainTimeout(s)
      PROVE  IInv'
  <2>1. UNCHANGED <<now, env, tables>> /\ pc[s] = "drain"
    BY <1>4 DEF Disconnect, DrainTimeout
  <2>2. request[s].route # "probe"
    BY <2>1 DEF ConnInv, ProbesAreServed
  <2>3. ConnInv'
    BY <1>4, <2>1, <2>2, ReplyKeeps DEF Disconnect, DrainTimeout
  <2> QED
    BY <2>1, <2>3 DEF Clock, TablesInv
<1>5. ASSUME NEW s \in Connections, Serve(s) \/ Finish(s)
      PROVE  IInv'
  <2>1. UNCHANGED <<now, env, tables>> /\ pc[s] # "idle"
    BY <1>5 DEF Serve, Finish
  <2>2. ConnInv'
    BY <1>5, <2>1, ReplyKeeps DEF Serve, Finish
  <2> QED
    BY <2>1, <2>2 DEF Clock, TablesInv
<1>6. ASSUME NEW s \in Connections, Refuse(s)
      PROVE  IInv'
  <2>1. UNCHANGED <<now, env, tables>> /\ pc[s] # "idle"
    BY <1>6 DEF Refuse
  <2>2. Refusal(request[s]) \in Statuses
    BY DEF Refusal
  <2>3. ConnInv'
    BY <1>6, <2>1, <2>2, ReplyKeeps DEF Refuse
  <2> QED
    BY <2>1, <2>3 DEF Clock, TablesInv
<1>7. ASSUME NEW s \in Connections, Guard(s)
      PROVE  IInv'
  <2> DEFINE b == Bucket(request[s])
  <2>1. UNCHANGED <<now, env>> /\ pc[s] = "parse"
    BY <1>7 DEF Guard
  <2>2. request[s] \in Request /\ request[s].route \in {"write", "answer"}
    BY <1>7, <2>1, Busy DEF Guard
  <2>3. TablesInv'
    <3>1. b \in Buckets /\ request[s].key \in Keys
      BY <2>2 DEF Bucket, Buckets, Request
    <3>2. Call(b, request[s].key)
      BY <1>7 DEF Guard
    <3> QED
      BY <1>0, <3>1, <3>2, CallKeeps
  <2>4. ConnInv'
    <3>1. CASE Admits(b, request[s].key)
      <4>1. Goto(s, "work") /\ UNCHANGED body
        BY <1>7, <3>1 DEF Guard
      <4>2. /\ body[s] \in Nat /\ body[s] <= MaxBody
            /\ body' = [body EXCEPT ![s] = body[s]]
        BY <4>1 DEF ConnInv, BodiesAreCapped
      <4> QED
        BY <2>1, <4>1, <4>2, GotoKeeps
    <3>2. CASE ~ Admits(b, request[s].key)
      <4>1. Reply(s, "limited")
        BY <1>7, <3>2 DEF Guard
      <4> QED
        BY <2>1, <2>2, <4>1, ReplyKeeps
    <3> QED
      BY <3>1, <3>2
  <2> QED
    BY <2>1, <2>3, <2>4 DEF Clock
<1>8. CASE Tick
  BY <1>8, BodyAssumption DEF Tick, conn, Clock, TablesInv, ConnInv,
     BodiesAreCapped, ProbesAreServed
<1>9. CASE UNCHANGED vars
  BY <1>9 DEF vars, Clock, TablesInv, ConnInv, BodiesAreCapped, ProbesAreServed
<1> QED
  BY <1>1, <1>2, <1>3, <1>4, <1>5, <1>6, <1>7, <1>8, <1>9 DEF Next, Serving

LEMMA Safe == Spec => []IInv
BY InitHolds, StepHolds, PTL DEF Spec

-----------------------------------------------------------------------------
\* The variables hold what they are meant to hold.
THEOREM PipelineTypeOK == Spec => []TypeOK
<1>1. IInv => TypeOK
  BY DEF IInv, Clock, TablesInv, ConnInv, TypeOK
<1> QED
  BY <1>1, Safe, PTL

\* However many callers there are, no limiter tracks more than MaxKeys.
THEOREM PipelineTablesAreBounded == Spec => []TablesAreBounded
<1>1. IInv => TablesAreBounded
  BY DEF IInv, TablesInv, Bounded, TablesAreBounded
<1> QED
  BY <1>1, Safe, PTL

\* No body over the cap gets past the body cap, framed as it may be.
THEOREM PipelineBodiesAreCapped == Spec => []BodiesAreCapped
<1>1. IInv => BodiesAreCapped
  BY DEF IInv, ConnInv
<1> QED
  BY <1>1, Safe, PTL

\* No layer refuses, reads from or times out a health check.
THEOREM PipelineProbesAreServed == Spec => []ProbesAreServed
<1>1. IInv => ProbesAreServed
  BY DEF IInv, ConnInv
<1> QED
  BY <1>1, Safe, PTL

\* The tables change only by a call to a limiter.
LEMMA OnlyCallsChangeTables ==
  ASSUME IInv, Next
  PROVE  \/ UNCHANGED tables
         \/ \E b \in Buckets, key \in Keys : Call(b, key)
<1>1. ASSUME NEW s \in Connections, NEW r \in Requests, Arrive(s, r)
      PROVE  Call("coarse", r.key) /\ r.key \in Keys /\ "coarse" \in Buckets
  BY <1>1, RequestsAssumption DEF Arrive, Request, Buckets
<1>2. ASSUME NEW s \in Connections, Guard(s)
      PROVE  /\ Call(Bucket(request[s]), request[s].key)
             /\ request[s].key \in Keys /\ Bucket(request[s]) \in Buckets
  <2>1. request[s] \in Request
    BY <1>2, Busy DEF Guard, IInv
  <2> QED
    BY <1>2, <2>1 DEF Guard, Request, Bucket, Buckets
<1> QED
  BY <1>1, <1>2
  DEF Next, Serving, ArriveExempt, Receive, Disconnect, DrainTimeout, Serve, Refuse,
      Finish, Tick

\* No pressure on a table makes it forget a window that is not over.
THEOREM PipelineNoWindowIsReset == Spec => NoWindowIsReset
<1> DEFINE Kept == \A b \in Buckets : \A k \in Live(tables[b], now) :
                     /\ k \in DOMAIN tables'[b]
                     /\ tables'[b][k].start = tables[b][k].start
                     /\ tables'[b][k].count >= tables[b][k].count
<1>1. ASSUME IInv, Next
      PROVE  Kept \/ UNCHANGED tables
  <2>1. now \in Nat
    BY <1>1, BodyAssumption DEF IInv, Clock
  <2>2. ASSUME NEW b \in Buckets, NEW key \in Keys, Call(b, key)
        PROVE  Kept
    <3> SUFFICES ASSUME NEW c \in Buckets, NEW k \in Live(tables[c], now)
                 PROVE  /\ k \in DOMAIN tables'[c]
                        /\ tables'[c][k].start = tables[c][k].start
                        /\ tables'[c][k].count >= tables[c][k].count
      OBVIOUS
    <3>1. tables'[c] = IF c = b THEN AfterCall(tables[b], key, now) ELSE tables[c]
      BY <1>1, <2>2 DEF IInv, TablesInv, Call
    <3>2. IsTable(tables[c]) /\ k \in DOMAIN tables[c] /\ tables[c][k].count \in Nat
      BY <1>1 DEF IInv, TablesInv, Live, IsTable, Calls
    <3>3. CASE c = b
      BY <2>1, <3>1, <3>2, <3>3, AfterCallKeeps
    <3>4. CASE c # b
      BY <3>1, <3>2, <3>4
    <3> QED
      BY <3>3, <3>4
  <2> QED
    BY <1>1, <2>2, OnlyCallsChangeTables
<1>2. IInv /\ [Next]_vars => [Kept]_tables
  BY <1>1 DEF vars
<1> QED
  BY <1>2, Safe, PTL DEF Spec, NoWindowIsReset

\* What the configuration makes of the environment is what was written there, up to what
\* cleaning leaves around it; and it leaves a token or a waiver only where one was written.
LEMMA WritersMayWrite ==
  ASSUME env \in Started, NEW r, Authorised(r)
  PROVE  MayWrite(r)
<1> DEFINE found == Environments[env]
           settings == Settings[env]
<1>1. /\ Written(clean(found["ENLIGHTENMENT_TEAM_TOKEN"])) = TokenWritten[env]
      /\ clean(found["ENLIGHTENMENT_TEAM_TOKEN"]) = << >> <=> TokenWritten[env] = << >>
      /\ Written(clean(found["ENLIGHTENMENT_ALLOW_ANONYMOUS"])) =
           Written(found["ENLIGHTENMENT_ALLOW_ANONYMOUS"])
  BY EnvironmentsAssumption DEF Started, TokenWritten
<1>2. /\ settings.team_token = clean(found["ENLIGHTENMENT_TEAM_TOKEN"])
      /\ settings.allow_anonymous_writes =
           (clean(found["ENLIGHTENMENT_ALLOW_ANONYMOUS"]) \in Truthy)
  BY DEF load_config, Settings
<1>3. settings.allow_anonymous_writes => env \in WritesWaived
  BY <1>1, <1>2, EnvironmentsAssumption DEF WritesWaived
<1>4. \/ settings.team_token = << >> /\ settings.allow_anonymous_writes
      \/ settings.team_token # << >> /\ r.token = settings.team_token
  BY DEF Authorised, writes_open, auth_required, token_ok
<1> QED
  BY <1>1, <1>2, <1>3, <1>4 DEF MayWrite

\* Only a caller who may write spends the budget of the gated writes.
THEOREM PipelineOnlyWritersSpend == Spec => OnlyWritersSpend
<1> DEFINE Earned == tables'["strict"] # tables["strict"] =>
                       \E s \in Connections : /\ pc[s] = "parse"
                                              /\ request[s].route = "write"
                                              /\ MayWrite(request[s])
<1>1. ASSUME IInv, Next
      PROVE  Earned
  <2>1. ASSUME NEW s \in Connections, NEW r \in Requests, Arrive(s, r)
        PROVE  tables'["strict"] = tables["strict"]
    BY <1>1, <2>1 DEF Arrive, Call, IInv, TablesInv, Buckets
  <2>2. ASSUME NEW s \in Connections, Guard(s)
        PROVE  Earned
    <3>1. CASE request[s].route = "write"
      <4>1. Refusal(request[s]) = "ok" /\ pc[s] = "parse"
        BY <2>2 DEF Guard
      <4>2. MayWrite(request[s])
        BY <1>1, <3>1, <4>1, WritersMayWrite DEF Refusal, IInv, Clock
      <4> QED
        BY <3>1, <4>1, <4>2
    <3>2. CASE request[s].route # "write"
      BY <1>1, <2>2, <3>2 DEF Guard, Bucket, Call, IInv, TablesInv, Buckets
    <3> QED
      BY <3>1, <3>2
  <2> QED
    BY <1>1, <2>1, <2>2
    DEF Next, Serving, ArriveExempt, Receive, Disconnect, DrainTimeout, Serve, Refuse,
        Finish, Tick
<1>2. IInv /\ [Next]_vars => [Earned]_tables
  BY <1>1 DEF vars
<1> QED
  BY <1>2, Safe, PTL DEF Spec, OnlyWritersSpend
=============================================================================

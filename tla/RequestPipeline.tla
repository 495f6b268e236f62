---------------------------- MODULE RequestPipeline ---------------------------
(***************************************************************************)
(* What a request meets on its way to a handler, from the wire inwards: the  *)
(* coarse limiter, the body cap, the parsing of the body, require_token, the *)
(* strict limiter of its route.  A connection carries one request at a time; *)
(* what a layer does between two awaits is one step.                         *)
(***************************************************************************)
EXTENDS RateLimiter, Configuration, NoValue

CONSTANTS
  Environments,  \* the environments the service may be started in, by name
  Connections,
  Requests,      \* the requests that come in
  Limit,         \* calls per window of each limiter
  MaxBody,       \* MAX_BODY_BYTES
  MaxChunk,      \* bound: the most one receive() delivers
  MaxTime,       \* bound on the clock
  MaxCalls       \* bound: the calls of one caller and window that are counted

Buckets == {"coarse", "strict", "drill"}
Header  == {"zero", "length", "over", "chunked"}
Routes  == {"probe", "read", "write", "answer"}
Request == [key : Keys, route : Routes,
            headers : Seq(Header), size : Nat, token : Seq(STRING),
            content : {"good", "invalid", "notjson"}]

\* The server delivers what the framing says: h11 lets chunked win over a length.
Deliverable(r) ==
  \/ "chunked" \in Range(r.headers)
  \/ "over" \in Range(r.headers) /\ r.size > MaxBody
  \/ Range(r.headers) \subseteq {"length"} /\ r.headers # << >> /\ r.size \in 1..MaxBody
  \/ Range(r.headers) \subseteq {"zero"} /\ r.size = 0

ASSUME RequestsAssumption == \A r \in Requests : r \in Request /\ Deliverable(r)
ASSUME LimitAssumption == Limit \in [Buckets -> Nat \ {0}]
ASSUME BodyAssumption == MaxBody \in Nat /\ MaxChunk \in Nat \ {0} /\ MaxTime \in Nat
ASSUME MaxCallsAssumption == MaxCalls \in Nat
ASSUME NoRequest == None \notin Requests

\* "The app refuses to start rather than guess."
Started == {name \in DOMAIN Environments : ~ Refused(Environments[name])}
Settings == [name \in Started |-> load_config(Environments[name])]

\* What gates a write, in the words of whoever deployed the service.
TokenWritten == [name \in Started |-> Written(Environments[name]["ENLIGHTENMENT_TEAM_TOKEN"])]
WritesWaived ==
  {name \in Started : Written(Environments[name]["ENLIGHTENMENT_ALLOW_ANONYMOUS"]) \in Truthy}

\* Cleaning takes out only what Written leaves out as well; and a token is not made of
\* quotes alone, nor is what waives it written with quotes or blanks of its own.
ASSUME EnvironmentsAssumption ==
  /\ \A name \in DOMAIN Environments :
       LET of(v) == Environments[name][v]
       IN  /\ DOMAIN Environments[name] = Variables
           /\ \A v \in {"ENLIGHTENMENT_TEAM_TOKEN", "ENLIGHTENMENT_ALLOW_ANONYMOUS"} :
                Written(clean(of(v))) = Written(of(v))
           /\ clean(of("ENLIGHTENMENT_TEAM_TOKEN")) = << >> <=>
                Written(of("ENLIGHTENMENT_TEAM_TOKEN")) = << >>
  /\ \A text \in Truthy : Written(text) = text

VARIABLES
  now,
  env,       \* the environment the running service was started in
  tables,    \* the three limiters
  pc,        \* what each connection's request waits for
  request,   \* that request, or None
  body,      \* how much of its body the process holds
  answer     \* the last answer given, and the route it was given on

vars == <<now, env, tables, pc, request, body, answer>>
conn == <<pc, request, body, answer>>

Statuses == {"ok", "gone", "unauthorised", "timeout", "toolarge", "invalid", "limited"}

TypeOK ==
  /\ now \in 0..MaxTime
  /\ env \in Started
  /\ tables = [b \in Buckets |-> tables[b]]
  /\ \A b \in Buckets : IsTable(tables[b])
  /\ pc \in [Connections -> {"idle", "drain", "parse", "work"}]
  /\ request \in [Connections -> Requests \cup {None}]
  /\ \A s \in Connections : request[s] = None <=> pc[s] = "idle"
  /\ body \in [Connections -> Nat]
  /\ answer \in [route : Routes, status : Statuses] \cup {None}

Init ==
  /\ now = 0
  /\ env \in Started
  /\ tables = [b \in Buckets |-> NoCalls]
  /\ pc = [s \in Connections |-> "idle"]
  /\ request = [s \in Connections |-> None]
  /\ body = [s \in Connections |-> 0]
  /\ answer = None

Goto(s, layer) == pc' = [pc EXCEPT ![s] = layer] /\ UNCHANGED <<request, answer>>

Reply(s, status) ==
  /\ answer' = [route |-> request[s].route, status |-> status]
  /\ pc' = [pc EXCEPT ![s] = "idle"]
  /\ request' = [request EXCEPT ![s] = None]
  /\ body' = [body EXCEPT ![s] = 0]

Call(b, key) == tables' = [tables EXCEPT ![b] = AfterCall(@, key, now)]
Admits(b, key) == Allows(tables[b], key, now, Limit[b])

-----------------------------------------------------------------------------
\* Every header is looked at before a body is said to be framed or not.
_body_framed(r) == \E h \in Range(r.headers) : h # "zero"

\* A length is believed only where no transfer-encoding overrides it.
_declared_over_cap(r) ==
  /\ "chunked" \notin Range(r.headers)
  /\ r.headers # << >> /\ Last(r.headers) = "over"

\* Mutant: the header that comes first decides.
Drained_First(r) ==
  /\ r.route \in {"write", "answer"}
  /\ r.headers # << >> /\ Head(r.headers) # "zero"

\* Mutant: the platform's own paths are drained like any other.
Drained_Probes(r) == r.route # "read" /\ _body_framed(r)

\* Exempt paths, and methods without a body, are never read from.
Drained(r) == r.route \in {"write", "answer"} /\ _body_framed(r)

\* The body cap reads the body, refuses it unread, or passes the request on.
Enter(s, r) ==
  \/ /\ Drained(r) /\ _declared_over_cap(r)
     /\ answer' = [route |-> r.route, status |-> "toolarge"]
     /\ UNCHANGED <<pc, request, body>>
  \/ /\ ~ (Drained(r) /\ _declared_over_cap(r))
     /\ pc' = [pc EXCEPT ![s] = IF Drained(r) THEN "drain" ELSE "parse"]
     /\ request' = [request EXCEPT ![s] = r]
     /\ body' = [body EXCEPT ![s] =
                   IF ~ Drained(r) /\ r.route \in {"write", "answer"}
                     THEN r.size ELSE 0]
     /\ UNCHANGED answer

\* A request comes in.  The platform's own paths are not counted.
ArriveExempt(s, r) ==
  /\ pc[s] = "idle"
  /\ r.route = "probe"
  /\ Enter(s, r)
  /\ UNCHANGED <<now, env, tables>>

\* The coarse limiter counts every other request, before its body is looked at.
Arrive(s, r) ==
  /\ pc[s] = "idle"
  /\ r.route # "probe"
  /\ Counted(tables["coarse"], r.key, now).count <= MaxCalls
  /\ Call("coarse", r.key)
  /\ IF Admits("coarse", r.key) THEN Enter(s, r)
     ELSE /\ answer' = [route |-> r.route, status |-> "limited"]
          /\ UNCHANGED <<pc, request, body>>
  /\ UNCHANGED <<now, env>>

\* One receive() of the drain: over the cap is refused, the last chunk ends it.
Receive(s, n) ==
  LET total == body[s] + n IN
  /\ pc[s] = "drain"
  /\ n > 0 \/ request[s].size = 0
  /\ total <= request[s].size
  /\ IF total > MaxBody THEN Reply(s, "toolarge")
     ELSE /\ body' = [body EXCEPT ![s] = total]
          /\ Goto(s, IF total < request[s].size THEN "drain" ELSE "parse")
  /\ UNCHANGED <<now, env, tables>>

\* Mutant: the deadline bounds the wait for the first byte only.
DrainTimeout_First(s) ==
  /\ pc[s] = "drain"
  /\ body[s] = 0
  /\ Reply(s, "timeout")
  /\ UNCHANGED <<now, env, tables>>

\* One deadline bounds the whole drain.
DrainTimeout(s) ==
  /\ pc[s] = "drain"
  /\ Reply(s, "timeout")
  /\ UNCHANGED <<now, env, tables>>

\* The disconnect is replayed, and the handler's read of the body fails on it.
Disconnect(s) ==
  /\ pc[s] = "drain"
  /\ Reply(s, "gone")
  /\ UNCHANGED <<now, env, tables>>

-----------------------------------------------------------------------------
\* token_ok(), which no token satisfies where none is configured.
token_ok(given, expected) == expected # << >> /\ given = expected

\* require_token: nothing is written where no token is set and none was waived.
Authorised(r) ==
  LET settings == Settings[env] IN
  \/ writes_open(settings)
  \/ auth_required(settings) /\ token_ok(r.token, settings.team_token)

Serve(s) ==
  /\ pc[s] = "parse"
  /\ request[s].route \in {"probe", "read"}
  /\ Reply(s, "ok")
  /\ UNCHANGED <<now, env, tables>>

\* Why a write never reaches its handler: a body is decoded first, then require_token
\* runs, and only then is the body's content, or its absence, held against the route.
Refusal(r) ==
  IF r.content = "notjson" /\ r.size > 0 THEN "invalid"
  ELSE IF r.route = "write" /\ ~ Authorised(r) THEN "unauthorised"
  ELSE IF r.content = "invalid" \/ r.size = 0 THEN "invalid"
  ELSE "ok"

Refuse(s) ==
  /\ pc[s] = "parse"
  /\ request[s].route \in {"write", "answer"}
  /\ Refusal(request[s]) # "ok"
  /\ Reply(s, Refusal(request[s]))
  /\ UNCHANGED <<now, env, tables>>

\* Mutant: the drill scorer spends the budget of the gated writes.
Bucket_Shared(r) == "strict"

\* _guard_write_rate and _guard_drill_rate: the open route has its own budget.
Bucket(r) == IF r.route = "write" THEN "strict" ELSE "drill"

\* The handler begins with its limiter, and works in a thread.
Guard(s) ==
  LET r == request[s] IN
  /\ pc[s] = "parse"
  /\ r.route \in {"write", "answer"}
  /\ Refusal(r) = "ok"
  /\ Call(Bucket(r), r.key)
  /\ IF Admits(Bucket(r), r.key) THEN Goto(s, "work") /\ UNCHANGED body ELSE Reply(s, "limited")
  /\ UNCHANGED <<now, env>>

\* The store or the drill loop answers from its worker thread.
Finish(s) ==
  /\ pc[s] = "work"
  /\ Reply(s, "ok")
  /\ UNCHANGED <<now, env, tables>>

Tick ==
  /\ now < MaxTime
  /\ now' = now + 1
  /\ UNCHANGED <<env, tables, conn>>

Serving(s) ==
  DrainTimeout(s) \/ Serve(s) \/ Refuse(s) \/ Guard(s) \/ Finish(s)

Next ==
  \/ \E s \in Connections :
       \/ \E r \in Requests : ArriveExempt(s, r) \/ Arrive(s, r)
       \/ \E n \in 0..MaxChunk : Receive(s, n)
       \/ Disconnect(s) \/ Serving(s)
  \/ Tick

Spec == Init /\ [][Next]_vars
FairSpec == Spec /\ \A s \in Connections : WF_vars(Serving(s))

-----------------------------------------------------------------------------
\* A flood of distinct callers does not grow a limiter's table (ratelimit's
\* module docstring).
TablesAreBounded == \A b \in Buckets : Cardinality(DOMAIN tables[b]) <= MaxKeys

\* No pressure makes a limiter forget what a caller did inside its window: the
\* bound fails closed (ratelimit's module docstring).
NoWindowIsReset ==
  [][\A b \in Buckets : \A k \in Live(tables[b], now) :
       /\ k \in DOMAIN tables'[b]
       /\ tables'[b][k].start = tables[b][k].start
       /\ tables'[b][k].count >= tables[b][k].count]_tables

\* Who may write: the holder of the token that was written, with what was left around it,
\* or anybody where none was and anonymous writes were asked for.
MayWrite(r) ==
  IF TokenWritten[env] # << >> THEN Written(r.token) = TokenWritten[env]
                               ELSE env \in WritesWaived

\* Only a caller who may write spends the budget of the gated writes, so an open
\* route cannot shut a gated one (DRILL_LIMIT's comment), and an absent token opens
\* nothing (_token_dependency's docstring).
OnlyWritersSpend ==
  [][tables'["strict"] # tables["strict"] =>
       \E s \in Connections : /\ pc[s] = "parse"
                              /\ request[s].route = "write"
                              /\ MayWrite(request[s])]_tables

\* However it is framed, no body over the cap is kept or reaches a handler
\* (BodyLimitMiddleware and _body_framed).
BodiesAreCapped == \A s \in Connections : body[s] <= MaxBody

\* A health check is never limited, drained or timed out, whatever body it
\* declares (UNLIMITED_PATHS, in the limiter and in the body cap).
ProbesAreServed ==
  /\ \A s \in Connections : pc[s] = "drain" => request[s].route # "probe"
  /\ answer # None /\ answer.route = "probe" => answer.status = "ok"

\* Every request is answered, also one whose client stops sending (_drain).
EveryRequestIsAnswered ==
  \A s \in Connections : pc[s] # "idle" ~> pc[s] = "idle"
=============================================================================

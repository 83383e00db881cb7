---------------------------- MODULE PublicQuota ----------------------------
(***************************************************************************)
(* The daily quota of the public analyzer and the identities it counts by:  *)
(* the visitor of a signed cookie and the user of a session.               *)
(*                                                                         *)
(* One process uses SQLite; several may share a Postgres database. Inside a *)
(* process every repository method holds the instance lock (mutex), so a    *)
(* method is one step unless another process can get between its           *)
(* statements: the insertion of a user, and the quota's count and insert,   *)
(* which Postgres serializes by an advisory lock of the identity's scope.  *)
(***************************************************************************)
EXTENDS Naturals, FiniteSets

CONSTANTS
    Browsers, Users, Visitors,
    Requests,      \* requests being served at one time
    Processes,     \* API processes
    AnonLimit, FreeLimit, ProLimit,
    MaxArrivals, MaxDay, MaxFaults, MaxCrashes,  \* bounds
    None

ASSUME QuotaAssumption ==
    /\ {AnonLimit, FreeLimit, ProLimit, MaxArrivals, MaxDay, MaxFaults, MaxCrashes} \subseteq Nat
    /\ None \notin Browsers \cup Users \cup Visitors \cup Requests \cup Processes

VARIABLES
    backend,     \* "sqlite" or "postgres", fixed for a deployment
    events,      \* usage_events; madeBy is the user when the row was inserted (history)
    registered,  \* app_users
    pro,         \* users whose subscription grants Pro
    known,       \* anonymous_visitors
    scopeLock,   \* process holding the advisory lock of an identity scope
    conn,        \* connection of a process: "ok" or "aborted"
    mutex,       \* request holding the instance lock of a process
    req,         \* the requests
    cookie, session,   \* of a browser
    day, arrivals, faults, crashes,
    everPro    \* history: users ever Pro, answers with a result

dbVars == <<events, registered, known>>
procVars == <<scopeLock, conn, mutex>>
clientVars == <<cookie, session>>
boundVars == <<arrivals, faults, crashes>>
vars == <<backend, dbVars, pro, procVars, req, clientVars, day, boundVars, everPro>>

Scopes == Users \cup Visitors
Idle == [pc |-> "idle", kind |-> None, proc |-> None, browser |-> None, visitor |-> None,
         user |-> None, limit |-> 0, today |-> 0, new |-> FALSE]

Init ==
    /\ backend \in {"sqlite", "postgres"}
    /\ events = {}
    /\ registered = {}
    /\ pro = {}
    /\ known = {}
    /\ scopeLock = [s \in Scopes |-> None]
    /\ conn = [p \in Processes |-> "ok"]
    /\ mutex = [p \in Processes |-> None]
    /\ req = [r \in Requests |-> Idle]
    /\ cookie = [b \in Browsers |-> None]
    /\ session = [b \in Browsers |-> None]
    /\ day = 0
    /\ arrivals = 0 /\ faults = 0 /\ crashes = 0
    /\ everPro = {}

-----------------------------------------------------------------------------
(* What the handlers compute. *)

\* SELECT COUNT(*): the user's rows, and the visitor's that no user has claimed.
_public_use_count(v, u, since) ==
    Cardinality({e \in events :
        /\ e.day >= since
        /\ (u # None /\ e.user = u) \/ (v # None /\ e.visitor = v /\ e.user = None)})

effective_plan(u) == IF u \in pro THEN "pro" ELSE "free"

\* max_daily_analyses of a plan; an unknown one is the anonymous.
entitlements_for_plan(plan) ==
    CASE plan = "pro" -> ProLimit [] plan = "free" -> FreeLimit [] OTHER -> AnonLimit

_quota_scope(r) == IF req[r].user # None THEN req[r].user ELSE req[r].visitor

Row(r) == [id |-> Cardinality(events) + 1, visitor |-> req[r].visitor,
           user |-> req[r].user, day |-> day,
           madeBy |-> req[r].user]

Goto(r, label) == req' = [req EXCEPT ![r].pc = label]
End(r) == req' = [req EXCEPT ![r] = Idle]
At(r, label) == req[r].pc = label
\* The repository of the request's process can be called: its lock is free and
\* its transaction is not aborted.
Callable(r) == mutex[req[r].proc] = None /\ conn[req[r].proc] = "ok"

\* The cookie rides on the answer of a request that made up a visitor.
_set_visitor_cookie(r) ==
    cookie' = IF req[r].new THEN [cookie EXCEPT ![req[r].browser] = req[r].visitor] ELSE cookie

-----------------------------------------------------------------------------
(* One request *)

\* The user of a session; one that does not verify is refused with 401.
optional_supabase_user(b) == session[b]
verify_supabase_token(b) == session[b] # "expired"

\* The visitor of the cookie, or a fresh one.
_resolve_visitor(b) == IF cookie[b] # None THEN {cookie[b]} ELSE Visitors \ known

\* A visitor made up here is new to every process, so no two insert the same row.
get_or_create_visitor(v) == known' = known \cup {v}

NewRequest(b, p, kind, v) ==
    [Idle EXCEPT !.kind = kind, !.proc = p, !.browser = b, !.visitor = v,
                 !.user = optional_supabase_user(b), !.new = cookie[b] = None,
                 !.limit = entitlements_for_plan("anonymous"),
                 !.pc = IF optional_supabase_user(b) = None THEN "counting" ELSE "user"]

CanArrive(r, b, p) ==
    /\ At(r, "idle")
    /\ arrivals < MaxArrivals
    /\ backend = "sqlite" => \A q \in Requests : req[q].proc \in {None, p}
    /\ mutex[p] = None /\ conn[p] = "ok"
    /\ verify_supabase_token(b)
    /\ arrivals' = arrivals + 1
    /\ UNCHANGED <<backend, events, registered, pro, procVars, clientVars, day, faults, crashes,
                   everPro>>

\* public_analyze and public_quota resolve the visitor before anything else.
_identity_context(r, b, p, kind) ==
    /\ CanArrive(r, b, p)
    /\ \E v \in _resolve_visitor(b) :
          /\ get_or_create_visitor(v)
          /\ req' = [req EXCEPT ![r] = NewRequest(b, p, kind, v)]

\* auth_sync needs a session, and takes the visitor of the cookie or none.
ArriveSync(r, b, p) ==
    /\ CanArrive(r, b, p)
    /\ session[b] # None
    /\ req' = [req EXCEPT ![r] = NewRequest(b, p, "sync", cookie[b])]
    /\ UNCHANGED known

\* get_or_create_user: the SELECT. Without a row the method goes on, under its lock.
FindUser(r) ==
    /\ At(r, "user")
    /\ Callable(r)
    /\ IF req[r].user \in registered
       THEN Goto(r, "plan") /\ UNCHANGED mutex
       ELSE Goto(r, "inserting") /\ mutex' = [mutex EXCEPT ![req[r].proc] = r]
    /\ UNCHANGED <<backend, dbVars, pro, scopeLock, conn, clientVars, day, boundVars, everPro>>

\* Its INSERT. When another process has inserted the user meanwhile the UNIQUE
\* constraint raises and leaves the transaction aborted.
InsertUser(r) ==
    /\ At(r, "inserting")
    /\ mutex' = [mutex EXCEPT ![req[r].proc] = None]
    /\ IF req[r].user \in registered
       THEN /\ conn' = [conn EXCEPT ![req[r].proc] = "aborted"]
            /\ End(r)
            /\ UNCHANGED registered
       ELSE /\ registered' = registered \cup {req[r].user}
            /\ Goto(r, "plan")
            /\ UNCHANGED conn
    /\ UNCHANGED <<backend, events, known, pro, scopeLock, clientVars, day, boundVars, everPro>>

ReadPlan(r) ==
    /\ At(r, "plan")
    /\ Callable(r)
    /\ req' = [req EXCEPT ![r].limit = entitlements_for_plan(effective_plan(req[r].user)),
                          ![r].pc = IF req[r].kind = "sync" THEN "claiming" ELSE "counting"]
    /\ UNCHANGED <<backend, dbVars, pro, procVars, clientVars, day, boundVars, everPro>>

\* Mutant: the visitor's rows are dropped instead of moved.
MutClaimDrops(v, u) == {e \in events : e.visitor # v \/ e.user # None}

\* The unclaimed rows of the visitor become the user's.
claim_visitor_events(v, u) ==
    {IF v # None /\ e.visitor = v /\ e.user = None THEN [e EXCEPT !.user = u] ELSE e : e \in events}

auth_sync(r) ==
    /\ At(r, "claiming")
    /\ Callable(r)
    /\ events' = claim_visitor_events(req[r].visitor, req[r].user)
    /\ End(r)
    /\ UNCHANGED <<backend, registered, known, pro, procVars, clientVars, day, boundVars, everPro>>

\* public_quota answers with the count.
public_quota(r) ==
    /\ At(r, "counting")
    /\ req[r].kind = "quota"
    /\ Callable(r)
    /\ End(r)
    /\ _set_visitor_cookie(r)
    /\ UNCHANGED <<backend, dbVars, pro, procVars, session, day, boundVars, everPro>>

\* public_analyze: at the limit the answer is a 429, which carries no cookie. A text
\* that is too long for the plan is refused too, before the count.
CheckQuota(r) ==
    /\ At(r, "counting")
    /\ req[r].kind = "analyze"
    /\ Callable(r)
    /\ \/ End(r)
       \/ IF _public_use_count(req[r].visitor, req[r].user, day) < req[r].limit
          THEN Goto(r, "analyzing")
          ELSE End(r)
    /\ UNCHANGED <<backend, dbVars, pro, procVars, clientVars, day, boundVars, everPro>>

\* run_public_analysis returns, or raises and the request ends in 422 or 500.
Analyze(r) ==
    /\ At(r, "analyzing")
    /\ Goto(r, "consuming") \/ End(r)
    /\ UNCHANGED <<backend, dbVars, pro, procVars, clientVars, day, boundVars, everPro>>

-----------------------------------------------------------------------------
(* try_consume_public_use *)

Answered(r) ==
    /\ events' = events \cup {Row(r)}
    /\ _set_visitor_cookie(r)

\* SQLite: one process, so that the instance lock makes it one step.
ConsumeSqlite(r) ==
    /\ At(r, "consuming")
    /\ backend = "sqlite"
    /\ Callable(r)
    /\ IF _public_use_count(req[r].visitor, req[r].user, day) >= req[r].limit
       THEN UNCHANGED <<events, cookie>>
       ELSE Answered(r)
    /\ End(r)
    /\ UNCHANGED <<backend, registered, known, pro, procVars, session, day, boundVars, everPro>>

\* Postgres: the date is taken before the wait for the advisory lock.
BeginConsume(r) ==
    /\ At(r, "consuming")
    /\ backend = "postgres"
    /\ Callable(r)
    /\ mutex' = [mutex EXCEPT ![req[r].proc] = r]
    /\ req' = [req EXCEPT ![r].pc = "locking", ![r].today = day]
    /\ UNCHANGED <<backend, dbVars, pro, scopeLock, conn, clientVars, day, boundVars, everPro>>

\* Mutant: the advisory lock is not waited for.
MutCountUnlocked(r) ==
    /\ At(r, "locking")
    /\ IF _public_use_count(req[r].visitor, req[r].user, req[r].today) >= req[r].limit
       THEN /\ mutex' = [mutex EXCEPT ![req[r].proc] = None]
            /\ End(r)
            /\ UNCHANGED scopeLock
       ELSE /\ scopeLock' = [scopeLock EXCEPT ![_quota_scope(r)] = req[r].proc]
            /\ Goto(r, "recording")
            /\ UNCHANGED mutex
    /\ UNCHANGED <<backend, dbVars, pro, conn, clientVars, day, boundVars, everPro>>

\* pg_advisory_xact_lock and the count; the rollback of a refusal releases the lock.
CountUnderLock(r) ==
    /\ At(r, "locking")
    /\ scopeLock[_quota_scope(r)] = None
    /\ IF _public_use_count(req[r].visitor, req[r].user, req[r].today) >= req[r].limit
       THEN /\ mutex' = [mutex EXCEPT ![req[r].proc] = None]
            /\ End(r)
            /\ UNCHANGED scopeLock
       ELSE /\ scopeLock' = [scopeLock EXCEPT ![_quota_scope(r)] = req[r].proc]
            /\ Goto(r, "recording")
            /\ UNCHANGED mutex
    /\ UNCHANGED <<backend, dbVars, pro, conn, clientVars, day, boundVars, everPro>>

\* Mutant: the commit is forgotten, and the lock kept.
MutCommitKeepsLock(r) ==
    /\ At(r, "recording")
    /\ Answered(r)
    /\ mutex' = [mutex EXCEPT ![req[r].proc] = None]
    /\ End(r)
    /\ UNCHANGED <<backend, registered, known, pro, scopeLock, conn, session, day, boundVars, everPro>>

\* INSERT and COMMIT.
InsertAndCommit(r) ==
    /\ At(r, "recording")
    /\ Answered(r)
    /\ scopeLock' = [scopeLock EXCEPT ![_quota_scope(r)] = None]
    /\ mutex' = [mutex EXCEPT ![req[r].proc] = None]
    /\ End(r)
    /\ UNCHANGED <<backend, registered, known, pro, conn, session, day, boundVars, everPro>>

\* A statement raises: Postgres aborts the transaction, which releases its advisory lock,
\* and nobody rolls it back, so the connection stays aborted.
InsertRaises(r) ==
    /\ At(r, "recording")
    /\ faults < MaxFaults
    /\ faults' = faults + 1
    /\ conn' = [conn EXCEPT ![req[r].proc] = "aborted"]
    /\ scopeLock' = [scopeLock EXCEPT ![_quota_scope(r)] = None]
    /\ mutex' = [mutex EXCEPT ![req[r].proc] = None]
    /\ End(r)
    /\ UNCHANGED <<backend, dbVars, pro, clientVars, day, arrivals, crashes, everPro>>

\* Every call on an aborted connection raises: the request ends in an error.
CallRaises(r) ==
    /\ req[r].pc \in {"user", "plan", "claiming", "counting", "consuming"}
    /\ mutex[req[r].proc] = None
    /\ conn[req[r].proc] = "aborted"
    /\ End(r)
    /\ UNCHANGED <<backend, dbVars, pro, procVars, clientVars, day, boundVars, everPro>>

-----------------------------------------------------------------------------
(* The environment *)

\* A process dies and is started again; Postgres ends its session.
Crash(p) ==
    /\ crashes < MaxCrashes
    /\ crashes' = crashes + 1
    /\ req' = [r \in Requests |-> IF req[r].proc = p THEN Idle ELSE req[r]]
    /\ mutex' = [mutex EXCEPT ![p] = None]
    /\ conn' = [conn EXCEPT ![p] = "ok"]
    /\ scopeLock' = [s \in Scopes |-> IF scopeLock[s] = p THEN None ELSE scopeLock[s]]
    /\ UNCHANGED <<backend, dbVars, pro, clientVars, day, arrivals, faults, everPro>>

SignIn(b, s) ==
    /\ session[b] # s
    /\ session' = [session EXCEPT ![b] = s]
    /\ UNCHANGED <<backend, dbVars, pro, procVars, req, cookie, day, boundVars, everPro>>

ChangePlan(u) ==
    /\ pro' = IF u \in pro THEN pro \ {u} ELSE pro \cup {u}
    /\ everPro' = everPro \cup {u}
    /\ UNCHANGED <<backend, dbVars, procVars, req, clientVars, day, boundVars>>

NextDay ==
    /\ day < MaxDay
    /\ day' = day + 1
    /\ UNCHANGED <<backend, dbVars, pro, procVars, req, clientVars, boundVars, everPro>>

Step(r) ==
    \/ FindUser(r) \/ InsertUser(r) \/ ReadPlan(r) \/ auth_sync(r)
    \/ public_quota(r) \/ CheckQuota(r) \/ Analyze(r) \/ ConsumeSqlite(r) \/ BeginConsume(r)
    \/ CountUnderLock(r) \/ InsertAndCommit(r) \/ CallRaises(r)

Next ==
    \/ \E r \in Requests : Step(r) \/ InsertRaises(r)
    \/ \E r \in Requests, b \in Browsers, p \in Processes :
          \/ \E kind \in {"analyze", "quota"} : _identity_context(r, b, p, kind)
          \/ ArriveSync(r, b, p)
    \/ \E p \in Processes : Crash(p)
    \/ \E b \in Browsers, s \in Users \cup {None, "expired"} : SignIn(b, s)
    \/ \E u \in Users : ChangePlan(u)
    \/ NextDay

Spec == Init /\ [][Next]_vars

-----------------------------------------------------------------------------
(* Properties *)

RequestType ==
    [pc : {"idle", "user", "inserting", "plan", "claiming", "counting", "analyzing",
           "consuming", "locking", "recording"},
     kind : {None, "analyze", "quota", "sync"}, proc : Processes \cup {None},
     browser : Browsers \cup {None}, visitor : Visitors \cup {None}, user : Users \cup {None},
     limit : {0, AnonLimit, FreeLimit, ProLimit}, today : 0..MaxDay, new : BOOLEAN]

\* Every variable has its type; an instance lock is held by a request that is in
\* the section the lock protects.
TypeOK ==
    /\ backend \in {"sqlite", "postgres"}
    /\ events \subseteq [id : Nat, visitor : Visitors \cup {None}, user : Users \cup {None},
                         day : 0..MaxDay, madeBy : Users \cup {None}]
    /\ registered \subseteq Users /\ pro \subseteq Users /\ known \subseteq Visitors
    /\ scopeLock \in [Scopes -> Processes \cup {None}]
    /\ conn \in [Processes -> {"ok", "aborted"}]
    /\ mutex \in [Processes -> Requests \cup {None}]
    /\ req \in [Requests -> RequestType]
    /\ cookie \in [Browsers -> Visitors \cup {None}]
    /\ session \in [Browsers -> Users \cup {None, "expired"}]
    /\ day \in 0..MaxDay
    /\ \A p \in Processes : mutex[p] # None =>
          req[mutex[p]].proc = p /\ req[mutex[p]].pc \in {"inserting", "locking", "recording"}

\* However many processes serve a visitor at once, the analyses of one UTC day that
\* are counted as the visitor's own never exceed the anonymous limit
\* (try_consume_public_use under its advisory lock).
AnonBounded ==
    \A v \in known, d \in 0..MaxDay :
        Cardinality({e \in events : e.visitor = v /\ e.user = None /\ e.day = d}) <= AnonLimit

\* The larger of the limits that the plans the user has had allow.
BestLimit(u) == IF u \in everPro /\ ProLimit > FreeLimit THEN ProLimit ELSE FreeLimit

\* The rows a user has made while signed in, as opposed to those claimed at sign-in,
\* never exceed the limit of the best plan the user has had, in spite of plan
\* changes, claims and requests of several browsers and processes in between.
UserBounded ==
    \A u \in Users, d \in 0..MaxDay :
        Cardinality({e \in events : e.madeBy = u /\ e.day = d}) <= BestLimit(u)

\* No daily quota is overrun, whichever way the browsers share visitors, sessions,
\* users and processes (try_consume_public_use counts and inserts under one lock).
QuotaBounded == AnonBounded /\ UserBounded

\* What a signed-in visitor has used never goes down, except by rows that another
\* user claims: signing up does not reset the quota (claim_visitor_events).
NoResetBySignIn ==
    [][\A v \in Visitors, u \in Users, d \in 0..MaxDay :
          \/ _public_use_count(v, u, d)' >= _public_use_count(v, u, d)
          \/ \E e \in events' \ events : e.visitor = v /\ e.user \notin {u, None}]_vars

\* Some request can take its next step while any is being served, also beside an aborted
\* connection: instance locks and advisory locks never wait for each other in a circle, and
\* each lock taken is given back. A request has no loop, so all end.
NoStall ==
    (\E r \in Requests : req[r].pc # "idle") => \E r \in Requests : ENABLED Step(r)

\* "Anonymous visitors are limited to PROVENANCE_PUBLIC_DAILY_LIMIT successful
\* analyses per UTC day" (description of public_analyze): those made without a
\* session, whoever they are attributed to later.
AnonymousDailyLimit ==
    \A v \in Visitors, d \in 0..MaxDay :
        Cardinality({e \in events : e.visitor = v /\ e.madeBy = None /\ e.day = d}) <= AnonLimit
=============================================================================

--------------------------- MODULE RepositoryPair ---------------------------
(***************************************************************************)
(* PostgresRepository, method by method, and the two repositories called    *)
(* with the same arguments at the same time.                               *)
(***************************************************************************)
EXTENDS Repository

(* PostgresRepository: analyses, keys and usage *)

PgSave(st) == Writes(<<Insert("analyses", [id |-> now, at |-> now, status |-> st])>>, now)
PgGet(db, a) == Reads(One({r \in db["analyses"] : r.id = a}))
PgListAnalyses(db, limit, offset) ==
    Reads(<<Page(db["analyses"], limit, offset), Cardinality(db["analyses"])>>)

PgCreateApiKey(h) ==
    Writes(<<Insert("api_keys", [id |-> now, hash |-> h, status |-> "active", at |-> now,
                                 used |-> None])>>, None)
PgKeyByHash(db, h) == Reads(One({r \in db["api_keys"] : r.hash = h}))
PgKeyById(db, k) == Reads(One({r \in db["api_keys"] : r.id = k}))
PgListApiKeys(db) == Reads(Newest(db["api_keys"]))
\* Mutant: the method forgets to commit.
MutRevokeUncommitted(db, k) ==
    Method(<<Update("api_keys", {r \in db["api_keys"] : r.id = k}, [status |-> "revoked"])>>,
           "open", None)
PgRevokeApiKey(db, k) ==
    Writes(<<Update("api_keys", {r \in db["api_keys"] : r.id = k}, [status |-> "revoked"])>>, None)
PgKeyLastUsed(db, k) ==
    Writes(<<Update("api_keys", {r \in db["api_keys"] : r.id = k}, [used |-> now])>>, None)

PgRecordUsage(k, ok, n, det) ==
    Writes(<<Insert("usage_records",
                    [id |-> now, key |-> k, at |-> now, ok |-> ok, chars |-> n,
                     code |-> IF ok THEN 200 ELSE 404, detector |-> det])>>, None)
PgUsageSummary(db, k, since) ==
    LET where == {r \in db["usage_records"] :
                    (k # None => r.key = k) /\ (since # None => r.at >= since)}
        total == Cardinality(where)
        successful == Cardinality({r \in where : r.ok})
    IN  Reads([total |-> total, successful |-> successful, failed |-> total - successful,
               chars |-> Chars(where),
               by_detector |-> CountBy({r \in where : r.detector # None}, "detector")])
PgUsageToday(db, k) ==
    LET rows == {r \in db["usage_records"] : r.key = k /\ r.at >= today}
    IN  Reads(<<Cardinality(rows), Chars(rows)>>)
PgUsageTodayJobs(db, k) ==
    LET rows == {r \in In(db, "jobs", {"queued", "running"}) : r.key = k /\ r.at >= today}
    IN  Reads(<<Cardinality(rows), Chars(rows)>>)
PgUsageByStatus(db) == Reads(CountBy(db["usage_records"], "code"))
PgCommitIfNeeded == Writes(<<>>, None)

-----------------------------------------------------------------------------
(* PostgresRepository: jobs and benchmark runs *)

PgCreateJob(k, n, parent) == Writes(<<Insert("jobs", NewJob(k, n, parent))>>, None)
PgGetJob(db, j) == Reads(One(Jobs(db, j)))
PgUpdateJobStatus(db, j, st, started) ==
    Writes(<<Update("jobs", Jobs(db, j), IF started THEN [status |-> st, started |-> now]
                                          ELSE [status |-> st])>>, None)
PgCompleteJob(db, j) ==
    Writes(<<Update("jobs", Jobs(db, j),
                    [status |-> "completed", completed |-> now, result |-> "result"])>>, None)
PgFailJob(db, j) ==
    Writes(<<Update("jobs", Jobs(db, j),
                    [status |-> "failed", completed |-> now, error |-> "error"])>>, None)
PgListJobs(db, k, limit, offset) ==
    LET mine == {r \in db["jobs"] : r.key = k}
    IN  Reads(<<Page(mine, limit, offset), Cardinality(mine)>>)
PgCancelJobIf(db, j, from, to) ==
    LET rows == {r \in Jobs(db, j) : r.status = from}
    IN  Writes(<<Update("jobs", rows, IF to = "cancelled" THEN CancelledByUser
                                      ELSE [status |-> to])>>, rows # {})
PgJobCounts(db) == Reads(Counts(db["jobs"]))
PgCleanupJobs(db, before) ==
    LET rows == {r \in In(db, "jobs", {"completed", "failed", "cancelled"}) :
                    r.completed # None /\ r.completed < before}
    IN  Writes(<<Delete("jobs", rows)>>, Cardinality(rows))
PgRecoverStaleJobs(db) ==
    LET running == In(db, "jobs", {"running"})  queued == In(db, "jobs", {"queued"})
    IN  Writes(<<Update("jobs", running, Interrupted), Update("jobs", queued, Interrupted)>>,
               Cardinality(running) + Cardinality(queued))

PgCreateRun(k) == Writes(<<Insert("benchmark_runs", NewRun(k))>>, None)
PgGetRun(db, r) == Reads(One(Runs(db, r)))
PgListRuns(db, k, st, limit, offset) ==
    LET where == {x \in db["benchmark_runs"] : x.key = k /\ (st # None => x.status = st)}
    IN  Reads(<<Page(where, limit, offset), Cardinality(where)>>)
\* A column set twice would be an error here; no caller clears a column it gives.
PgUpdateRun(db, r, given, clear) ==
    LET set == IF clear THEN given @@ [started |-> None, completed |-> None, error |-> None]
               ELSE given
    IN  IF DOMAIN set = {} THEN Reads(None)
        ELSE Writes(<<Update("benchmark_runs", Runs(db, r), set)>>, None)
PgCompleteRun(db, r) ==
    Writes(<<Update("benchmark_runs", Runs(db, r),
                    [status |-> "completed", completed |-> now, result |-> "result"])>>, None)
PgFailRun(db, r) ==
    Writes(<<Update("benchmark_runs", Runs(db, r),
                    [status |-> "failed", completed |-> now, error |-> "error"])>>, None)
PgCancelRunIf(db, r, from, to) ==
    LET rows == {x \in Runs(db, r) : x.status = from}
    IN  Writes(<<Update("benchmark_runs", rows,
                        IF to = "cancelled" THEN CancelledByUser ELSE [status |-> to])>>, rows # {})
PgRecoverRuns(db) ==
    LET stale == In(db, "benchmark_runs", {"running", "queued"})
        asked == In(db, "benchmark_runs", {"cancellation_requested"})
    IN  Writes(<<Update("benchmark_runs", stale, Interrupted),
                 Update("benchmark_runs", asked, CancelledByUser)>>,
               Cardinality(stale) + Cardinality(asked))

-----------------------------------------------------------------------------
(* PostgresRepository: identities, quota and billing *)

PgGetOrCreateVisitor(db, v, abuse) ==
    LET row == One(Visitor(db, v)) IN
    IF row = None
    THEN Writes(<<Insert("anonymous_visitors", NewVisitor(v, abuse))>>,
                [id |-> v, at |-> now, new |-> TRUE])
    ELSE Writes(<<Update("anonymous_visitors", {row}, Seen(row, abuse))>>,
                [id |-> row.id, at |-> row.at, new |-> FALSE])

PgGetOrCreateUser(db, u, email) ==
    LET row == One(User(db, u)) IN
    CASE row = None -> Writes(<<Insert("app_users", NewUser(u, email))>>,
                              UserAnswer(NewUser(u, email), email, TRUE))
      [] row # None /\ email \notin {None, row.email} ->
             Writes(<<Update("app_users", {row}, [email |-> email, updated |-> now])>>,
                    UserAnswer(row, email, FALSE))
      [] OTHER -> Reads(UserAnswer(row, row.email, FALSE))

\* No row to update: the transaction is rolled back and the answer is None.
PgSetUserPlan(db, u, plan) ==
    LET row == One(User(db, u)) IN
    IF row = None THEN Method(<<>>, "rollback", None)
    ELSE Writes(<<Update("app_users", {row}, [plan |-> plan, updated |-> now])>>,
                UserAnswer([row EXCEPT !.plan = plan], row.email, FALSE))

PgClaimVisitorEvents(db, v, u) ==
    Writes(<<Update("usage_events", Unclaimed(db, v), [user |-> u])>>, Cardinality(Unclaimed(db, v)))

PgPublicUseCount(db, v, u) ==
    Cardinality({r \in db["usage_events"] :
        r.at >= today /\ ((u # None /\ r.user = u) \/ (v # None /\ r \in Unclaimed(db, v)))})
\* The refusal rolls back, which releases the advisory lock.
PgTryConsume(db, v, u, limit) ==
    LET used == PgPublicUseCount(db, v, u) IN
    IF used >= limit THEN Method(<<>>, "rollback", <<FALSE, 0>>)
    ELSE Writes(<<Insert("usage_events", [id |-> now, at |-> now, visitor |-> v, user |-> u])>>,
                <<TRUE, limit - used - 1>>)

PgSubscriptionForUser(db, u) == Reads(Latest(Subs(db, u)))
PgSubscriptionByCustomer(db, c) ==
    Reads(Latest({r \in db["subscriptions"] : r.customer = c}))
PgUpsert(db, u, c, sub, st) ==
    LET old == IF sub # None THEN One({r \in db["subscriptions"] : r.sub = sub})
               ELSE Latest(Subs(db, u))
        set == IF sub # None THEN [user |-> u, customer |-> c, status |-> st, updated |-> now]
               ELSE [customer |-> c, status |-> st, updated |-> now]
        w == IF old = None THEN Insert("subscriptions", SubRow(now, u, c, sub, st))
             ELSE Update("subscriptions", {old}, set)
    IN  Writes(<<w>>, Latest(Subs(Exec(db, w), u)))
PgRecordWebhook(db, e) ==
    LET new == \A r \in db["billing_webhook_events"] : r.id # e
    IN  Writes(IF new THEN <<Insert("billing_webhook_events", [id |-> e, at |-> now])>> ELSE <<>>, new)

-----------------------------------------------------------------------------
(* A call of both *)

Fresh == [t \in Tables |-> {}]
Connection == [sees |-> Fresh, durable |-> Fresh, state |-> "ok", last |-> "read", answer |-> None]

Init ==
    /\ family \in Families
    /\ lite = Connection /\ pg = Connection
    /\ now = 1
    /\ faults = 0

\* The call returns; a commit makes durable all that the connection sees.
Returned(c, m) ==
    LET after == ExecAll(c.sees, m.writes) IN
    [sees |-> IF m.end = "rollback" THEN c.durable ELSE after,
     durable |-> IF m.end = "commit" THEN after ELSE c.durable,
     state |-> "ok", last |-> IF m.writes = <<>> THEN "read" ELSE "wrote", answer |-> m.answer]

\* The n-th writing statement, or the commit after the last one, raises: what was
\* executed before stays in SQLite's open transaction.
LiteRaises(c, m, n) ==
    [c EXCEPT !.sees = ExecAll(@, SubSeq(m.writes, 1, n - 1)), !.last = "raised", !.answer = None]
\* Postgres discards it, and refuses every statement until a rollback. The handlers
\* call commit_if_needed only after statements that succeeded.
PgRaises(c) == [c EXCEPT !.sees = c.durable, !.state = "aborted", !.last = "raised",
                          !.answer = None]

Call(l, p) ==
    /\ now < MaxCalls
    /\ now' = now + 1
    /\ UNCHANGED family
    /\ \/ /\ lite' = Returned(lite, l)
          /\ pg' = IF pg.state = "ok" THEN Returned(pg, p) ELSE PgRaises(pg)
          /\ UNCHANGED faults
       \/ /\ l.end = "commit"
          /\ faults < MaxFaults
          /\ faults' = faults + 1
          /\ \E n \in 1..(Len(l.writes) + 1) : lite' = LiteRaises(lite, l, n)
          /\ pg' = PgRaises(pg)

\* The process is started again: open transactions are lost.
Restart ==
    /\ lite' = [lite EXCEPT !.sees = lite.durable, !.last = "read", !.answer = None]
    /\ pg' = [pg EXCEPT !.sees = pg.durable, !.state = "ok", !.last = "read",
                        !.answer = None]
    /\ UNCHANGED <<family, now, faults>>

Ids(t) == {r.id : r \in lite.sees[t]} \cup {0}
Pages == {<<1, 0>>, <<2, 1>>}

AnalysisCall ==
    \/ \E st \in {"ok", "unknown"} : Call(LiteSave(st), PgSave(st))
    \/ \E a \in Ids("analyses") : Call(LiteGet(lite.sees, a), PgGet(pg.sees, a))
    \/ \E q \in Pages : Call(LiteListAnalyses(lite.sees, q[1], q[2]),
                             PgListAnalyses(pg.sees, q[1], q[2]))

KeyCall ==
    \/ Call(LiteCreateApiKey(now), PgCreateApiKey(now))
    \/ Call(LiteListApiKeys(lite.sees), PgListApiKeys(pg.sees))
    \/ \E k \in Ids("api_keys") :
          \/ Call(LiteKeyById(lite.sees, k), PgKeyById(pg.sees, k))
          \/ Call(LiteKeyByHash(lite.sees, k), PgKeyByHash(pg.sees, k))
          \/ Call(LiteRevokeApiKey(lite.sees, k), PgRevokeApiKey(pg.sees, k))
          \/ Call(LiteKeyLastUsed(lite.sees, k), PgKeyLastUsed(pg.sees, k))

UsageCall ==
    \/ \E k \in Keys, ok \in BOOLEAN, det \in {"unicode", None} :
          Call(LiteRecordUsage(k, ok, 3, det), PgRecordUsage(k, ok, 3, det))
    \/ \E k \in Keys \cup {None}, since \in {None, 2} :
          Call(LiteUsageSummary(lite.sees, k, since), PgUsageSummary(pg.sees, k, since))
    \/ \E k \in Keys : Call(LiteUsageToday(lite.sees, k), PgUsageToday(pg.sees, k))
    \/ Call(LiteUsageByStatus(lite.sees), PgUsageByStatus(pg.sees))
    \/ Call(LiteCommitIfNeeded, PgCommitIfNeeded)

JobCall ==
    \/ \E k \in Keys, parent \in Ids("jobs") :
          LET p == IF parent = 0 THEN None ELSE parent
          IN  Call(LiteCreateJob(k, 2, p), PgCreateJob(k, 2, p))
    \/ \E k \in Keys : \/ Call(LiteUsageTodayJobs(lite.sees, k), PgUsageTodayJobs(pg.sees, k))
                       \/ \E q \in Pages : Call(LiteListJobs(lite.sees, k, q[1], q[2]),
                                                PgListJobs(pg.sees, k, q[1], q[2]))
    \/ \E j \in Ids("jobs") :
          \/ Call(LiteGetJob(lite.sees, j), PgGetJob(pg.sees, j))
          \/ \E s \in {<<"running", TRUE>>, <<"cancellation_requested", FALSE>>} :
                Call(LiteUpdateJobStatus(lite.sees, j, s[1], s[2]),
                     PgUpdateJobStatus(pg.sees, j, s[1], s[2]))
          \/ Call(LiteCompleteJob(lite.sees, j), PgCompleteJob(pg.sees, j))
          \/ Call(LiteFailJob(lite.sees, j), PgFailJob(pg.sees, j))
          \/ \E s \in {<<"queued", "cancelled">>, <<"queued", "running">>} :
                Call(LiteCancelJobIf(lite.sees, j, s[1], s[2]),
                     PgCancelJobIf(pg.sees, j, s[1], s[2]))
    \/ Call(LiteJobCounts(lite.sees), PgJobCounts(pg.sees))
    \/ \E before \in {2, now} : Call(LiteCleanupJobs(lite.sees, before),
                                     PgCleanupJobs(pg.sees, before))
    \/ Call(LiteRecoverStaleJobs(lite.sees), PgRecoverStaleJobs(pg.sees))

RunCall ==
    \/ \E k \in Keys :
          \/ Call(LiteCreateRun(k), PgCreateRun(k))
          \/ \E st \in {None, "failed"}, q \in Pages :
                Call(LiteListRuns(lite.sees, k, st, q[1], q[2]),
                     PgListRuns(pg.sees, k, st, q[1], q[2]))
    \/ \E r \in Ids("benchmark_runs") :
          \/ Call(LiteGetRun(lite.sees, r), PgGetRun(pg.sees, r))
          \/ \E u \in {<<[status |-> "queued", progress |-> 0, retry |-> 1], TRUE>>,
                       <<[status |-> "running", started |-> now], FALSE>>,
                       <<[progress |-> 1], FALSE>>, <<<<>>, FALSE>>} :
                Call(LiteUpdateRun(lite.sees, r, u[1], u[2]), PgUpdateRun(pg.sees, r, u[1], u[2]))
          \/ Call(LiteCompleteRun(lite.sees, r), PgCompleteRun(pg.sees, r))
          \/ Call(LiteFailRun(lite.sees, r), PgFailRun(pg.sees, r))
          \/ \E s \in {<<"queued", "cancelled">>, <<"running", "cancellation_requested">>} :
                Call(LiteCancelRunIf(lite.sees, r, s[1], s[2]),
                     PgCancelRunIf(pg.sees, r, s[1], s[2]))
    \/ Call(LiteRecoverRuns(lite.sees), PgRecoverRuns(pg.sees))

IdentityCall ==
    \/ \E v \in Keys, abuse \in {None, "abuse"} :
          Call(LiteGetOrCreateVisitor(lite.sees, v, abuse), PgGetOrCreateVisitor(pg.sees, v, abuse))
    \/ \E u \in Keys :
          \/ \E email \in {None, "mail", "other"} :
                Call(LiteGetOrCreateUser(lite.sees, u, email), PgGetOrCreateUser(pg.sees, u, email))
          \/ Call(LiteSetUserPlan(lite.sees, u, "pro"), PgSetUserPlan(pg.sees, u, "pro"))
    \/ \E v \in Keys, u \in Keys \cup {None} :
          \/ u # None /\ Call(LiteClaimVisitorEvents(lite.sees, v, u),
                              PgClaimVisitorEvents(pg.sees, v, u))
          \/ Call(Reads(LitePublicUseCount(lite.sees, v, u)), Reads(PgPublicUseCount(pg.sees, v, u)))
          \/ Call(LiteTryConsume(lite.sees, v, u, 2), PgTryConsume(pg.sees, v, u, 2))

BillingCall ==
    \/ \E u \in Keys, sub \in {None, "sub1", "sub2"}, st \in {"created", "active"} :
          Call(LiteUpsert(lite.sees, u, u, sub, st), PgUpsert(pg.sees, u, u, sub, st))
    \/ \E u \in Keys :
          \/ Call(LiteSubscriptionForUser(lite.sees, u), PgSubscriptionForUser(pg.sees, u))
          \/ Call(LiteSubscriptionByCustomer(lite.sees, u), PgSubscriptionByCustomer(pg.sees, u))
    \/ Call(LiteRecordWebhook(lite.sees, "event"), PgRecordWebhook(pg.sees, "event"))

Next ==
    \/ family = "analyses" /\ AnalysisCall
    \/ family = "keys" /\ KeyCall
    \/ family = "usage" /\ UsageCall
    \/ family = "jobs" /\ JobCall
    \/ family = "runs" /\ RunCall
    \/ family = "identity" /\ IdentityCall
    \/ family = "billing" /\ BillingCall
    \/ Restart

Spec == Init /\ [][Next]_vars

-----------------------------------------------------------------------------
(* Properties *)

\* As long as no statement has raised, the two repositories hold the same rows and
\* give the same answers, whatever the calls: the 42 methods written twice in
\* api/db.py do the same.
BackendsAgree ==
    faults = 0 => lite.durable = pg.durable /\ lite.answer = pg.answer

\* A writing call that has returned leaves nothing in an open transaction, in spite of
\* earlier calls that raised half way, so that a restart loses no write that was
\* answered; without a failure no open transaction hides anything, and Postgres never
\* holds the half of a call (the commit at the end of every writing method).
AnsweredIsDurable ==
    /\ lite.last = "wrote" \/ faults = 0 => lite.sees = lite.durable
    /\ pg.sees = pg.durable
=============================================================================

----------------------------- MODULE Repository -----------------------------
(***************************************************************************)
(* The two repositories of api/db.py, called side by side with the same     *)
(* arguments: SqliteRepository and PostgresRepository implement one protocol *)
(* in two texts. A method is the statements that write, how its transaction *)
(* ends ("commit", "rollback", or "open" when it only reads) and its answer. *)
(* A statement that raises is never rolled back: SQLite leaves what the call *)
(* has written in the open transaction, which the next commit publishes;    *)
(* Postgres refuses every later statement of the connection.               *)
(*                                                                         *)
(* A behaviour is about one family of tables. `now` is the clock of a call  *)
(* and the fresh identifier it makes up: both differ from call to call.    *)
(***************************************************************************)
EXTENDS Integers, Sequences, FiniteSets, SequencesExt, TLC

CONSTANTS
    Keys,           \* API keys, and users or visitors where a table has those
    Families,       \* the families of tables checked
    CallsPerDay,    \* calls after which the UTC date changes
    MaxCalls, MaxFaults,   \* bounds
    None

\* A row of app_users, which None is not.
UserRow == [id : Nat, auth : Keys, email : {None, "mail", "other"}, plan : {"free", "pro"},
            at : Nat, updated : Nat]

ASSUME RepositoryAssumption ==
    /\ {MaxCalls, MaxFaults} \subseteq Nat /\ CallsPerDay \in Nat \ {0}
    /\ Families \subseteq {"analyses", "keys", "usage", "jobs", "runs", "identity", "billing"}
    /\ None \notin UserRow

VARIABLES
    family,
    lite, pg,    \* a connection: the tables it sees, those that are durable, its state
    now,         \* the clock, one tick a call
    faults

vars == <<family, lite, pg, now, faults>>

-----------------------------------------------------------------------------
(* Statements and queries *)

Tables == {"analyses", "api_keys", "usage_records", "jobs", "benchmark_runs",
           "anonymous_visitors", "app_users", "usage_events", "subscriptions",
           "billing_webhook_events"}

Insert(t, row) == [do |-> "insert", table |-> t, rows |-> {row}, set |-> <<>>]
Update(t, rows, set) == [do |-> "update", table |-> t, rows |-> rows, set |-> set]
Delete(t, rows) == [do |-> "delete", table |-> t, rows |-> rows, set |-> <<>>]

\* A row with the columns of SET replaced.
With(row, set) ==
    [c \in DOMAIN set \cup DOMAIN row |-> IF c \in DOMAIN set THEN set[c] ELSE row[c]]

Exec(db, s) ==
    [db EXCEPT ![s.table] =
        CASE s.do = "insert" -> @ \cup s.rows
          [] s.do = "update" -> (@ \ s.rows) \cup {With(r, s.set) : r \in s.rows}
          [] s.do = "delete" -> @ \ s.rows]

\* The statements of a method, one after another.
ExecAll(db, ss) ==
    LET after[n \in 0..Len(ss)] == IF n = 0 THEN db ELSE Exec(after[n - 1], ss[n])
    IN  after[Len(ss)]

Method(writes, end, answer) == [writes |-> writes, end |-> end, answer |-> answer]
Reads(answer) == Method(<<>>, "open", answer)
Writes(ss, answer) == Method(ss, "commit", answer)

\* ORDER BY the time DESC LIMIT ? OFFSET ?
Newest(rows) == SetToSortSeq(rows, LAMBDA a, b : a.at > b.at)
Page(rows, limit, offset) ==
    LET s == Newest(rows)
    IN  SubSeq(s, offset + 1, IF offset + limit < Len(s) THEN offset + limit ELSE Len(s))
Listing(rows, limit, offset) == <<Page(rows, limit, offset), Cardinality(rows)>>
\* fetchone() of a SELECT that finds at most one row, and of one that is ordered.
One(rows) == IF rows = {} THEN None ELSE CHOOSE r \in rows : TRUE
Latest(rows) == IF rows = {} THEN None
                ELSE CHOOSE r \in rows : \A s \in rows : s.updated <= r.updated

\* COALESCE(SUM(character_count), 0)
Chars(rows) == MapThenSumSet(LAMBDA r : r.chars, rows)
\* GROUP BY a column
CountBy(rows, column) ==
    [v \in {r[column] : r \in rows} |-> Cardinality({r \in rows : r[column] = v})]
today == (now \div CallsPerDay) * CallsPerDay

-----------------------------------------------------------------------------
(* SqliteRepository: analyses, keys and usage *)

LiteSave(st) ==
    Writes(<<Insert("analyses", [id |-> now, at |-> now, status |-> st])>>, now)
LiteGet(db, a) == Reads(One({r \in db["analyses"] : r.id = a}))
LiteListAnalyses(db, limit, offset) == Reads(Listing(db["analyses"], limit, offset))

LiteCreateApiKey(h) ==
    Writes(<<Insert("api_keys", [id |-> now, hash |-> h, status |-> "active", at |-> now,
                                 used |-> None])>>, None)
LiteKeyByHash(db, h) == Reads(One({r \in db["api_keys"] : r.hash = h}))
LiteKeyById(db, k) == Reads(One({r \in db["api_keys"] : r.id = k}))
LiteListApiKeys(db) == Reads(Newest(db["api_keys"]))
LiteRevokeApiKey(db, k) ==
    Writes(<<Update("api_keys", {r \in db["api_keys"] : r.id = k}, [status |-> "revoked"])>>, None)
LiteKeyLastUsed(db, k) ==
    Writes(<<Update("api_keys", {r \in db["api_keys"] : r.id = k}, [used |-> now])>>, None)

LiteRecordUsage(k, ok, n, det) ==
    Writes(<<Insert("usage_records",
                    [id |-> now, key |-> k, at |-> now, ok |-> ok, chars |-> n,
                     code |-> IF ok THEN 200 ELSE 404, detector |-> det])>>, None)

LiteUsageSummary(db, k, since) ==
    LET where == {r \in db["usage_records"] :
                    (k # None => r.key = k) /\ (since # None => r.at >= since)}
        good == {r \in where : r.ok}
    IN  Reads([total |-> Cardinality(where), successful |-> Cardinality(good),
               failed |-> Cardinality(where) - Cardinality(good), chars |-> Chars(where),
               by_detector |-> CountBy({r \in where : r.detector # None}, "detector")])

LiteUsageToday(db, k) ==
    LET rows == {r \in db["usage_records"] : r.key = k /\ r.at >= today}
    IN  Reads(<<Cardinality(rows), Chars(rows)>>)
LiteUsageTodayJobs(db, k) ==
    LET rows == {r \in db["jobs"] : /\ r.key = k /\ r.at >= today
                                    /\ r.status \in {"queued", "running"}}
    IN  Reads(<<Cardinality(rows), Chars(rows)>>)
LiteUsageByStatus(db) == Reads(CountBy(db["usage_records"], "code"))
LiteCommitIfNeeded == Writes(<<>>, None)

-----------------------------------------------------------------------------
(* SqliteRepository: jobs and benchmark runs *)

JobStatuses == {"queued", "running", "completed", "failed", "cancelled", "cancellation_requested"}
Counts(rows) == [s \in JobStatuses |-> Cardinality({r \in rows : r.status = s})]

NewJob(k, n, parent) ==
    [id |-> now, key |-> k, status |-> "queued", at |-> now, started |-> None,
     completed |-> None, result |-> None, error |-> None, chars |-> n,
     retry |-> IF parent = None THEN 0 ELSE 1, parent |-> parent]

Jobs(db, j) == {r \in db["jobs"] : r.id = j}
LiteCreateJob(k, n, parent) == Writes(<<Insert("jobs", NewJob(k, n, parent))>>, None)
LiteGetJob(db, j) == Reads(One(Jobs(db, j)))
LiteUpdateJobStatus(db, j, st, started) ==
    Writes(<<Update("jobs", Jobs(db, j), IF started THEN [status |-> st, started |-> now]
                                          ELSE [status |-> st])>>, None)
LiteCompleteJob(db, j) ==
    Writes(<<Update("jobs", Jobs(db, j),
                    [status |-> "completed", completed |-> now, result |-> "result"])>>, None)
LiteFailJob(db, j) ==
    Writes(<<Update("jobs", Jobs(db, j),
                    [status |-> "failed", completed |-> now, error |-> "error"])>>, None)
LiteListJobs(db, k, limit, offset) ==
    Reads(Listing({r \in db["jobs"] : r.key = k}, limit, offset))
LiteCancelJobIf(db, j, from, to) ==
    LET rows == {r \in Jobs(db, j) : r.status = from}
    IN  Writes(<<Update("jobs", rows, IF to = "cancelled"
                    THEN [status |-> to, completed |-> now, error |-> "cancelled by user"]
                    ELSE [status |-> to])>>, rows # {})
LiteJobCounts(db) == Reads(Counts(db["jobs"]))
LiteCleanupJobs(db, before) ==
    LET rows == {r \in db["jobs"] : /\ r.status \in {"completed", "failed", "cancelled"}
                                    /\ r.completed # None /\ r.completed < before}
    IN  Writes(<<Delete("jobs", rows)>>, Cardinality(rows))

Interrupted == [status |-> "failed", completed |-> now, error |-> "interrupted by restart"]
CancelledByUser == [status |-> "cancelled", completed |-> now, error |-> "cancelled by user"]
In(db, t, statuses) == {r \in db[t] : r.status \in statuses}

LiteRecoverStaleJobs(db) ==
    Writes(<<Update("jobs", In(db, "jobs", {"running"}), Interrupted),
             Update("jobs", In(db, "jobs", {"queued"}), Interrupted)>>,
           Cardinality(In(db, "jobs", {"running"})) + Cardinality(In(db, "jobs", {"queued"})))

NewRun(k) ==
    [id |-> now, key |-> k, status |-> "queued", at |-> now, started |-> None,
     completed |-> None, progress |-> None, result |-> None, error |-> None, retry |-> 0]

Runs(db, r) == {x \in db["benchmark_runs"] : x.id = r}
LiteCreateRun(k) == Writes(<<Insert("benchmark_runs", NewRun(k))>>, None)
LiteGetRun(db, r) == Reads(One(Runs(db, r)))
LiteListRuns(db, k, st, limit, offset) ==
    Reads(Listing({x \in db["benchmark_runs"] : x.key = k /\ (st # None => x.status = st)},
                  limit, offset))
\* The attempt's columns are cleared first, then every given column is set.
LiteUpdateRun(db, r, given, clear) ==
    LET set == IF clear THEN given @@ [started |-> None, completed |-> None, error |-> None]
               ELSE given
    IN  IF DOMAIN set = {} THEN Reads(None)
        ELSE Writes(<<Update("benchmark_runs", Runs(db, r), set)>>, None)
LiteCompleteRun(db, r) ==
    Writes(<<Update("benchmark_runs", Runs(db, r),
                    [status |-> "completed", completed |-> now, result |-> "result"])>>, None)
LiteFailRun(db, r) ==
    Writes(<<Update("benchmark_runs", Runs(db, r),
                    [status |-> "failed", completed |-> now, error |-> "error"])>>, None)
LiteCancelRunIf(db, r, from, to) ==
    LET rows == {x \in Runs(db, r) : x.status = from}
    IN  Writes(<<Update("benchmark_runs", rows,
                        IF to = "cancelled" THEN CancelledByUser ELSE [status |-> to])>>, rows # {})
\* Mutant: the recovery of benchmark runs leaves those that wait for a worker.
MutRecoverRuns(db) ==
    LET stale == In(db, "benchmark_runs", {"running"})
        asked == In(db, "benchmark_runs", {"cancellation_requested"})
    IN  Writes(<<Update("benchmark_runs", stale, Interrupted),
                 Update("benchmark_runs", asked, CancelledByUser)>>,
               Cardinality(stale) + Cardinality(asked))
LiteRecoverRuns(db) ==
    LET stale == In(db, "benchmark_runs", {"running", "queued"})
        asked == In(db, "benchmark_runs", {"cancellation_requested"})
    IN  Writes(<<Update("benchmark_runs", stale, Interrupted),
                 Update("benchmark_runs", asked, CancelledByUser)>>,
               Cardinality(stale) + Cardinality(asked))

-----------------------------------------------------------------------------
(* SqliteRepository: identities, quota and billing *)

NewVisitor(v, abuse) == [id |-> v, at |-> now, seen |-> now, abuse |-> abuse]
Visitor(db, v) == {r \in db["anonymous_visitors"] : r.id = v}
Seen(r, abuse) == [seen |-> now, abuse |-> IF abuse = None THEN r.abuse ELSE abuse]

LiteGetOrCreateVisitor(db, v, abuse) ==
    LET row == One(Visitor(db, v)) IN
    IF row = None
    THEN Writes(<<Insert("anonymous_visitors", NewVisitor(v, abuse))>>, [id |-> v, at |-> now, new |-> TRUE])
    ELSE Writes(<<Update("anonymous_visitors", {row}, Seen(row, abuse))>>,
                [id |-> v, at |-> row.at, new |-> FALSE])

User(db, u) == {r \in db["app_users"] : r.auth = u}
NewUser(u, email) == [id |-> now, auth |-> u, email |-> email, plan |-> "free", at |-> now,
                      updated |-> now]
UserAnswer(r, email, new) ==
    [id |-> r.id, auth |-> r.auth, email |-> email, plan |-> r.plan, new |-> new]

LiteGetOrCreateUser(db, u, email) ==
    LET row == One(User(db, u)) IN
    CASE row = None -> Writes(<<Insert("app_users", NewUser(u, email))>>,
                              UserAnswer(NewUser(u, email), email, TRUE))
      [] row # None /\ email \notin {None, row.email} ->
             Writes(<<Update("app_users", {row}, [email |-> email, updated |-> now])>>,
                    UserAnswer(row, email, FALSE))
      [] OTHER -> Reads(UserAnswer(row, IF email # None THEN email ELSE row.email, FALSE))

LiteSetUserPlan(db, u, plan) ==
    LET row == One(User(db, u)) IN
    Writes(<<Update("app_users", User(db, u), [plan |-> plan, updated |-> now])>>,
           IF row = None THEN None ELSE UserAnswer([row EXCEPT !.plan = plan], row.email, FALSE))

Unclaimed(db, v) == {r \in db["usage_events"] : r.visitor = v /\ r.user = None}
LiteClaimVisitorEvents(db, v, u) ==
    Writes(<<Update("usage_events", Unclaimed(db, v), [user |-> u])>>, Cardinality(Unclaimed(db, v)))

LitePublicUseCount(db, v, u) ==
    Cardinality({r \in db["usage_events"] :
        r.at >= today /\ ((u # None /\ r.user = u) \/ (v # None /\ r \in Unclaimed(db, v)))})
LiteTryConsume(db, v, u, limit) ==
    LET used == LitePublicUseCount(db, v, u) IN
    IF used >= limit THEN Reads(<<FALSE, 0>>)
    ELSE Writes(<<Insert("usage_events", [id |-> now, at |-> now, visitor |-> v, user |-> u])>>,
                <<TRUE, limit - used - 1>>)

Subs(db, u) == {r \in db["subscriptions"] : r.user = u}
LiteSubscriptionForUser(db, u) == Reads(Latest(Subs(db, u)))
LiteSubscriptionByCustomer(db, c) ==
    Reads(Latest({r \in db["subscriptions"] : r.customer = c}))

\* With a provider's identifier the row that has it is replaced; without, the
\* latest of the user, whose user, identifier and creation time are kept.
SubRow(id, u, c, sub, st) ==
    [id |-> id, user |-> u, customer |-> c, sub |-> sub, status |-> st, at |-> now, updated |-> now]
LiteUpsert(db, u, c, sub, st) ==
    LET old == IF sub # None THEN One({r \in db["subscriptions"] : r.sub = sub})
               ELSE Latest(Subs(db, u))
        set == IF sub # None THEN [user |-> u, customer |-> c, status |-> st, updated |-> now]
               ELSE [customer |-> c, status |-> st, updated |-> now]
        w == IF old = None THEN Insert("subscriptions", SubRow(now, u, c, sub, st))
             ELSE Update("subscriptions", {old}, set)
    IN  Writes(<<w>>, Latest(Subs(Exec(db, w), u)))

LiteRecordWebhook(db, e) ==
    LET new == \A r \in db["billing_webhook_events"] : r.id # e
    IN  Writes(IF new THEN <<Insert("billing_webhook_events", [id |-> e, at |-> now])>> ELSE <<>>, new)
=============================================================================

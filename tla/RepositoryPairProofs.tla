------------------------ MODULE RepositoryPairProofs ------------------------
(***************************************************************************)
(* The two repositories agree after any calls, for any keys and any number *)
(* of them, and a call that has answered is durable, whatever raised before *)
(* it. Most methods of the two texts are equal terms on equal tables; those *)
(* that are not agree because app_users holds one row per user.            *)
(***************************************************************************)
EXTENDS RepositoryPair, TLAPS

\* Tables with one row per user: what the SELECTs of a user's row rely on.
Tidy(db) ==
    /\ db = [t \in Tables |-> db[t]]
    /\ db["app_users"] \subseteq UserRow
    /\ \A r, s \in db["app_users"] : r.auth = s.auth => r = s

\* A method that writes ends its transaction.
Ended(m) == m.end \in {"open", "commit", "rollback"} /\ (m.end = "open" => m.writes = <<>>)

\* What a method leaves behind, if nothing raises.
Leaves(db, m) == IF m.end = "rollback" THEN db ELSE ExecAll(db, m.writes)

\* On the same tables two methods answer the same and leave the same.
Alike(db, l, p) ==
    l.answer = p.answer /\ Leaves(db, l) = Leaves(db, p) /\ Tidy(Leaves(db, l))

Paired(l, p) ==
    /\ Ended(l) /\ Ended(p)
    /\ lite.sees = pg.sees /\ Tidy(lite.sees) => Alike(lite.sees, l, p)

\* A connection is a record, and its rows, transactions and answers are as they should be.
IsConnection(c) ==
    c = [sees |-> c.sees, durable |-> c.durable, state |-> c.state, last |-> c.last,
         answer |-> c.answer]

PairInv ==
    /\ now \in Nat /\ faults \in Nat
    /\ IsConnection(lite) /\ IsConnection(pg)
    /\ AnsweredIsDurable
    /\ faults = 0 => /\ pg.state = "ok"
                     /\ lite.durable = pg.durable
                     /\ lite.answer = pg.answer
                     /\ Tidy(lite.durable)

-----------------------------------------------------------------------------
(* The statements of a method *)

LEMMA NoStatement == ASSUME NEW db PROVE ExecAll(db, <<>>) = db
<1>. DEFINE f == [n \in 0..0 |-> db]
            Fits(g) == g = [n \in 0..Len(<<>>) |-> IF n = 0 THEN db
                                                   ELSE Exec(g[n - 1], (<<>>)[n])]
<1>1. Fits(f)
  OBVIOUS
<1>2. Fits(CHOOSE g : Fits(g))
  BY <1>1, Zenon
<1>. HIDE DEF f
<1>3. (CHOOSE g : Fits(g))[Len(<<>>)] = db
  BY <1>2
<1>. QED  BY <1>3, Zenon DEF ExecAll

LEMMA OneStatement == ASSUME NEW db, NEW s PROVE ExecAll(db, <<s>>) = Exec(db, s)
<1>. DEFINE f == [n \in 0..1 |-> IF n = 0 THEN db ELSE Exec(db, s)]
            Fits(g) == g = [n \in 0..Len(<<s>>) |-> IF n = 0 THEN db
                                                    ELSE Exec(g[n - 1], <<s>>[n])]
<1>1. Fits(f)
  OBVIOUS
<1>2. Fits(CHOOSE g : Fits(g))
  BY <1>1, Zenon
<1>. HIDE DEF f
<1>3. ASSUME NEW g, Fits(g) PROVE g[1] = Exec(db, s)
  <2>1. g = [n \in 0..1 |-> IF n = 0 THEN db ELSE Exec(g[n - 1], <<s>>[n])]
    BY <1>3
  <2>2. g[0] = db
    BY <2>1
  <2>3. g[1] = Exec(g[0], s)
    BY <2>1
  <2>. QED  BY <2>2, <2>3
<1>4. (CHOOSE g : Fits(g))[Len(<<s>>)] = Exec(db, s)
  BY <1>2, <1>3
<1>. QED  BY <1>4, Zenon DEF ExecAll

LEMMA TwoStatements ==
    ASSUME NEW db, NEW s, NEW t
    PROVE  ExecAll(db, <<s, t>>) = Exec(Exec(db, s), t)
<1>. DEFINE f == [n \in 0..2 |-> IF n = 0 THEN db
                                 ELSE IF n = 1 THEN Exec(db, s) ELSE Exec(Exec(db, s), t)]
            Fits(g) == g = [n \in 0..Len(<<s, t>>) |-> IF n = 0 THEN db
                                                       ELSE Exec(g[n - 1], <<s, t>>[n])]
<1>1. Fits(f)
  OBVIOUS
<1>2. Fits(CHOOSE g : Fits(g))
  BY <1>1, Zenon
<1>. HIDE DEF f
<1>3. ASSUME NEW g, Fits(g) PROVE g[2] = Exec(Exec(db, s), t)
  <2>1. g = [n \in 0..2 |-> IF n = 0 THEN db ELSE Exec(g[n - 1], <<s, t>>[n])]
    BY <1>3
  <2>2. g[0] = db
    BY <2>1
  <2>3. g[1] = Exec(g[0], s)
    BY <2>1
  <2>4. g[2] = Exec(g[1], t)
    BY <2>1
  <2>. QED  BY <2>2, <2>3, <2>4
<1>4. (CHOOSE g : Fits(g))[Len(<<s, t>>)] = Exec(Exec(db, s), t)
  BY <1>2, <1>3
<1>. QED  BY <1>4, Zenon DEF ExecAll

\* A statement on another table than app_users leaves the users' rows alone.
Elsewhere(s) == s.table \in Tables \ {"app_users"}

LEMMA ExecElsewhere ==
    ASSUME NEW db, NEW s, Tidy(db), Elsewhere(s)
    PROVE  Tidy(Exec(db, s))
<1>. DEFINE new == CASE s.do = "insert" -> db[s.table] \cup s.rows
                     [] s.do = "update" -> (db[s.table] \ s.rows) \cup {With(r, s.set) : r \in s.rows}
                     [] s.do = "delete" -> db[s.table] \ s.rows
<1>1. Exec(db, s) = [db EXCEPT ![s.table] = new]
  BY DEF Exec
<1>. HIDE DEF new
<1>2. "app_users" \in Tables
  BY DEF Tables
<1>. QED  BY <1>1, <1>2 DEF Tidy, Elsewhere

\* The statements of a method that touches no user.
Plain(m) ==
    \/ m.writes = <<>>
    \/ \E s \in {m.writes[1]} : m.writes = <<s>> /\ Elsewhere(s)
    \/ \E s \in {m.writes[1]}, t \in {m.writes[2]} :
          m.writes = <<s, t>> /\ Elsewhere(s) /\ Elsewhere(t)

LEMMA PlainKeeps ==
    ASSUME NEW db, NEW m, Tidy(db), Plain(m)
    PROVE  Tidy(ExecAll(db, m.writes))
<1>1. CASE m.writes = <<>>
  BY <1>1, NoStatement
<1>2. CASE \E s \in {m.writes[1]} : m.writes = <<s>> /\ Elsewhere(s)
  BY <1>2, OneStatement, ExecElsewhere
<1>3. ASSUME NEW s, NEW t, m.writes = <<s, t>>, Elsewhere(s), Elsewhere(t)
      PROVE  Tidy(ExecAll(db, m.writes))
  BY <1>3, TwoStatements, ExecElsewhere
<1>. QED  BY <1>1, <1>2, <1>3 DEF Plain

-----------------------------------------------------------------------------
(* A call of both *)

LEMMA CallKeeps ==
    ASSUME PairInv, NEW l, NEW p, Call(l, p), Paired(l, p)
    PROVE  PairInv'
<1>. USE DEF PairInv, Paired
<1>1. now' \in Nat /\ faults' \in Nat
  BY DEF Call
<1>2. CASE faults' = faults
  <2>1. lite' = Returned(lite, l)
    BY <1>2 DEF Call
  <2>2. pg' = IF pg.state = "ok" THEN Returned(pg, p) ELSE PgRaises(pg)
    BY <1>2 DEF Call
  <2>3. IsConnection(lite')
    BY <2>1 DEF Returned, IsConnection
  <2>4. IsConnection(pg') /\ pg'.sees = pg'.durable
    <3>1. CASE pg.state = "ok"
      BY <3>1, <2>2, NoStatement DEF Returned, IsConnection, Ended, AnsweredIsDurable
    <3>2. CASE pg.state # "ok"
      BY <3>2, <2>2 DEF PgRaises, IsConnection
    <3>. QED  BY <3>1, <3>2
  <2>5. lite'.last = "wrote" \/ faults = 0 => lite'.sees = lite'.durable
    BY <2>1, NoStatement DEF Returned, Ended, AnsweredIsDurable
  <2>6. ASSUME faults = 0
        PROVE  /\ pg'.state = "ok" /\ lite'.durable = pg'.durable
               /\ lite'.answer = pg'.answer /\ Tidy(lite'.durable)
    <3>1. lite.sees = lite.durable /\ pg.sees = pg.durable /\ pg.sees = lite.sees
      BY <2>6 DEF AnsweredIsDurable
    <3>2. Alike(lite.sees, l, p)
      BY <2>6, <3>1
    <3>3. lite'.durable = Leaves(lite.sees, l) /\ lite'.answer = l.answer
      BY <2>1, <3>1, NoStatement DEF Returned, Ended, Leaves
    <3>4. pg' = Returned(pg, p)
      BY <2>2, <2>6
    <3>5. pg'.durable = Leaves(lite.sees, p) /\ pg'.answer = p.answer /\ pg'.state = "ok"
      BY <3>4, <3>1, NoStatement DEF Returned, Ended, Leaves
    <3>. QED  BY <3>2, <3>3, <3>5 DEF Alike
  <2>. QED  BY <1>1, <1>2, <2>3, <2>4, <2>5, <2>6 DEF AnsweredIsDurable
<1>3. CASE faults' # faults
  <2>1. faults' # 0 /\ pg' = PgRaises(pg)
    BY <1>3 DEF Call
  <2>2. PICK n \in 1..(Len(l.writes) + 1) : lite' = LiteRaises(lite, l, n)
    BY <1>3 DEF Call
  <2>3. IsConnection(lite') /\ lite'.last = "raised"
    BY <2>2 DEF LiteRaises, IsConnection
  <2>4. IsConnection(pg') /\ pg'.sees = pg'.durable
    BY <2>1 DEF PgRaises, IsConnection
  <2>. QED  BY <1>1, <2>1, <2>3, <2>4 DEF AnsweredIsDurable
<1>. QED  BY <1>2, <1>3

\* The two texts are equal on equal tables, and touch no user.
Common(db, other, l, p) == Ended(l) /\ Ended(p) /\ Plain(l) /\ (db = other => l = p)

LEMMA CommonCall ==
    ASSUME PairInv, NEW l, NEW p, Call(l, p), Common(lite.sees, pg.sees, l, p)
    PROVE  PairInv'
<1>1. Paired(l, p)
  BY PlainKeeps DEF Paired, Common, Alike, Leaves
<1>. QED  BY <1>1, CallKeeps

LEMMA RestartKeeps == PairInv /\ Restart => PairInv'
<1>. SUFFICES ASSUME PairInv, Restart PROVE PairInv'
  OBVIOUS
<1>1. /\ IsConnection(lite') /\ lite'.sees = lite.durable /\ lite'.durable = lite.durable
      /\ lite'.answer = None
  BY DEF Restart, PairInv, IsConnection
<1>2. /\ IsConnection(pg') /\ pg'.sees = pg.durable /\ pg'.durable = pg.durable
      /\ pg'.answer = None /\ pg'.state = "ok"
  BY DEF Restart, PairInv, IsConnection
<1>. QED  BY <1>1, <1>2 DEF PairInv, Restart, AnsweredIsDurable

LEMMA InitPair == Init => PairInv
  BY DEF Init, PairInv, IsConnection, Connection, AnsweredIsDurable, Tidy, Fresh, Tables

-----------------------------------------------------------------------------
(* Analyses, keys and usage *)

LEMMA AnalysisMethods ==
    ASSUME NEW db, NEW other
    PROVE  /\ \A st : Common(db, other, LiteSave(st), PgSave(st))
           /\ \A a : Common(db, other, LiteGet(db, a), PgGet(other, a))
           /\ \A n, m : Common(db, other, LiteListAnalyses(db, n, m), PgListAnalyses(other, n, m))
<1>. USE DEF Common, Ended, Plain, Elsewhere, Tables, Method, Reads, Writes, Insert
<1>1. \A st : Common(db, other, LiteSave(st), PgSave(st))
  BY DEF LiteSave, PgSave
<1>2. \A a : Common(db, other, LiteGet(db, a), PgGet(other, a))
  BY DEF LiteGet, PgGet
<1>3. \A n, m : Common(db, other, LiteListAnalyses(db, n, m), PgListAnalyses(other, n, m))
  BY DEF LiteListAnalyses, PgListAnalyses, Listing
<1>. QED  BY <1>1, <1>2, <1>3, Zenon

LEMMA AnalysisKeeps == PairInv /\ AnalysisCall => PairInv'
<1>. SUFFICES ASSUME PairInv, AnalysisCall PROVE PairInv'
  OBVIOUS
<1>1. CASE \E st \in {"ok", "unknown"} : Call(LiteSave(st), PgSave(st))
  BY <1>1, CommonCall, AnalysisMethods
<1>2. CASE \E a \in Ids("analyses") : Call(LiteGet(lite.sees, a), PgGet(pg.sees, a))
  BY <1>2, CommonCall, AnalysisMethods
<1>3. CASE \E q \in Pages : Call(LiteListAnalyses(lite.sees, q[1], q[2]),
                                 PgListAnalyses(pg.sees, q[1], q[2]))
  BY <1>3, CommonCall, AnalysisMethods
<1>. QED  BY <1>1, <1>2, <1>3 DEF AnalysisCall

LEMMA KeyMethods ==
    ASSUME NEW db, NEW other
    PROVE  /\ \A h : Common(db, other, LiteCreateApiKey(h), PgCreateApiKey(h))
           /\ \A h : Common(db, other, LiteKeyByHash(db, h), PgKeyByHash(other, h))
           /\ \A k : Common(db, other, LiteKeyById(db, k), PgKeyById(other, k))
           /\ Common(db, other, LiteListApiKeys(db), PgListApiKeys(other))
           /\ \A k : Common(db, other, LiteRevokeApiKey(db, k), PgRevokeApiKey(other, k))
           /\ \A k : Common(db, other, LiteKeyLastUsed(db, k), PgKeyLastUsed(other, k))
<1>. USE DEF Common, Ended, Plain, Elsewhere, Tables, Method, Reads, Writes, Insert, Update
<1>1. \A h : Common(db, other, LiteCreateApiKey(h), PgCreateApiKey(h))
  BY DEF LiteCreateApiKey, PgCreateApiKey
<1>2. \A h : Common(db, other, LiteKeyByHash(db, h), PgKeyByHash(other, h))
  BY DEF LiteKeyByHash, PgKeyByHash
<1>3. \A k : Common(db, other, LiteKeyById(db, k), PgKeyById(other, k))
  BY DEF LiteKeyById, PgKeyById
<1>4. Common(db, other, LiteListApiKeys(db), PgListApiKeys(other))
  BY DEF LiteListApiKeys, PgListApiKeys
<1>5. \A k : Common(db, other, LiteRevokeApiKey(db, k), PgRevokeApiKey(other, k))
  BY DEF LiteRevokeApiKey, PgRevokeApiKey
<1>6. \A k : Common(db, other, LiteKeyLastUsed(db, k), PgKeyLastUsed(other, k))
  BY DEF LiteKeyLastUsed, PgKeyLastUsed
<1>. QED  BY <1>1, <1>2, <1>3, <1>4, <1>5, <1>6, Zenon

LEMMA KeyKeeps == PairInv /\ KeyCall => PairInv'
<1>. SUFFICES ASSUME PairInv, KeyCall PROVE PairInv'
  OBVIOUS
<1>1. CASE Call(LiteCreateApiKey(now), PgCreateApiKey(now))
  BY <1>1, CommonCall, KeyMethods
<1>2. CASE Call(LiteListApiKeys(lite.sees), PgListApiKeys(pg.sees))
  BY <1>2, CommonCall, KeyMethods
<1>3. ASSUME NEW k,
             \/ Call(LiteKeyById(lite.sees, k), PgKeyById(pg.sees, k))
             \/ Call(LiteKeyByHash(lite.sees, k), PgKeyByHash(pg.sees, k))
             \/ Call(LiteRevokeApiKey(lite.sees, k), PgRevokeApiKey(pg.sees, k))
             \/ Call(LiteKeyLastUsed(lite.sees, k), PgKeyLastUsed(pg.sees, k))
      PROVE  PairInv'
  BY <1>3, CommonCall, KeyMethods
<1>. QED  BY <1>1, <1>2, <1>3 DEF KeyCall

\* The two summaries differ in what they name; the counts are of the same rows.
LEMMA UsageMethods ==
    ASSUME NEW db, NEW other
    PROVE  /\ \A k, ok, n, det :
                 Common(db, other, LiteRecordUsage(k, ok, n, det), PgRecordUsage(k, ok, n, det))
           /\ \A k, since :
                 Common(db, other, LiteUsageSummary(db, k, since), PgUsageSummary(other, k, since))
           /\ \A k : Common(db, other, LiteUsageToday(db, k), PgUsageToday(other, k))
           /\ \A k : Common(db, other, LiteUsageTodayJobs(db, k), PgUsageTodayJobs(other, k))
           /\ Common(db, other, LiteUsageByStatus(db), PgUsageByStatus(other))
           /\ Common(db, other, LiteCommitIfNeeded, PgCommitIfNeeded)
<1>. USE DEF Common, Ended, Plain, Elsewhere, Tables, Method, Reads, Writes, Insert
<1>1. \A k, ok, n, det :
         Common(db, other, LiteRecordUsage(k, ok, n, det), PgRecordUsage(k, ok, n, det))
  <2>. SUFFICES ASSUME NEW k, NEW ok, NEW n, NEW det
                PROVE  Common(db, other, LiteRecordUsage(k, ok, n, det), PgRecordUsage(k, ok, n, det))
    BY Zenon
  <2>1. Ended(LiteRecordUsage(k, ok, n, det)) /\ Ended(PgRecordUsage(k, ok, n, det)) /\ Plain(LiteRecordUsage(k, ok, n, det))
    BY DEF LiteRecordUsage, PgRecordUsage
  <2>2. db = other => LiteRecordUsage(k, ok, n, det) = PgRecordUsage(k, ok, n, det)
    BY Zenon DEF LiteRecordUsage, PgRecordUsage
  <2>. QED  BY <2>1, <2>2 DEF Common
<1>2. \A k, since :
         Common(db, other, LiteUsageSummary(db, k, since), PgUsageSummary(other, k, since))
  <2>. SUFFICES ASSUME NEW k, NEW since
                PROVE  Common(db, other, LiteUsageSummary(db, k, since), PgUsageSummary(other, k, since))
    BY Zenon
  <2>1. Ended(LiteUsageSummary(db, k, since)) /\ Ended(PgUsageSummary(other, k, since)) /\ Plain(LiteUsageSummary(db, k, since))
    BY DEF LiteUsageSummary, PgUsageSummary
  <2>2. db = other => LiteUsageSummary(db, k, since) = PgUsageSummary(other, k, since)
    BY Zenon DEF LiteUsageSummary, PgUsageSummary
  <2>. QED  BY <2>1, <2>2 DEF Common
<1>3. \A k : Common(db, other, LiteUsageToday(db, k), PgUsageToday(other, k))
  BY DEF LiteUsageToday, PgUsageToday
<1>4. \A k : Common(db, other, LiteUsageTodayJobs(db, k), PgUsageTodayJobs(other, k))
  <2>. SUFFICES ASSUME NEW k, db = other
                PROVE  LiteUsageTodayJobs(db, k) = PgUsageTodayJobs(db, k)
    BY DEF LiteUsageTodayJobs, PgUsageTodayJobs
  <2>1. {r \in db["jobs"] : r.key = k /\ r.at >= today /\ r.status \in {"queued", "running"}}
        = {r \in In(db, "jobs", {"queued", "running"}) : r.key = k /\ r.at >= today}
    BY DEF In
  <2>. QED  BY <2>1 DEF LiteUsageTodayJobs, PgUsageTodayJobs
<1>5. Common(db, other, LiteUsageByStatus(db), PgUsageByStatus(other))
  BY DEF LiteUsageByStatus, PgUsageByStatus
<1>6. Common(db, other, LiteCommitIfNeeded, PgCommitIfNeeded)
  BY DEF LiteCommitIfNeeded, PgCommitIfNeeded
<1>. QED  BY <1>1, <1>2, <1>3, <1>4, <1>5, <1>6, Zenon

LEMMA UsageKeeps == PairInv /\ UsageCall => PairInv'
<1>. SUFFICES ASSUME PairInv, UsageCall PROVE PairInv'
  OBVIOUS
<1>1. ASSUME NEW k, NEW ok, NEW det, Call(LiteRecordUsage(k, ok, 3, det), PgRecordUsage(k, ok, 3, det))
      PROVE  PairInv'
  BY <1>1, CommonCall, UsageMethods
<1>2. ASSUME NEW k, NEW since,
             Call(LiteUsageSummary(lite.sees, k, since), PgUsageSummary(pg.sees, k, since))
      PROVE  PairInv'
  BY <1>2, CommonCall, UsageMethods
<1>3. ASSUME NEW k, Call(LiteUsageToday(lite.sees, k), PgUsageToday(pg.sees, k))
      PROVE  PairInv'
  BY <1>3, CommonCall, UsageMethods
<1>4. CASE Call(LiteUsageByStatus(lite.sees), PgUsageByStatus(pg.sees))
  BY <1>4, CommonCall, UsageMethods
<1>5. CASE Call(LiteCommitIfNeeded, PgCommitIfNeeded)
  BY <1>5, CommonCall, UsageMethods
<1>. QED  BY <1>1, <1>2, <1>3, <1>4, <1>5 DEF UsageCall

-----------------------------------------------------------------------------
(* Jobs and benchmark runs *)

LEMMA JobMethods ==
    ASSUME NEW db, NEW other
    PROVE  /\ \A k, n, parent :
                 Common(db, other, LiteCreateJob(k, n, parent), PgCreateJob(k, n, parent))
           /\ \A j : Common(db, other, LiteGetJob(db, j), PgGetJob(other, j))
           /\ \A j, st, started : Common(db, other, LiteUpdateJobStatus(db, j, st, started),
                                         PgUpdateJobStatus(other, j, st, started))
           /\ \A j : Common(db, other, LiteCompleteJob(db, j), PgCompleteJob(other, j))
           /\ \A j : Common(db, other, LiteFailJob(db, j), PgFailJob(other, j))
           /\ \A k, n, m : Common(db, other, LiteListJobs(db, k, n, m), PgListJobs(other, k, n, m))
           /\ \A j, from, to :
                 Common(db, other, LiteCancelJobIf(db, j, from, to), PgCancelJobIf(other, j, from, to))
           /\ Common(db, other, LiteJobCounts(db), PgJobCounts(other))
           /\ \A before : Common(db, other, LiteCleanupJobs(db, before), PgCleanupJobs(other, before))
           /\ Common(db, other, LiteRecoverStaleJobs(db), PgRecoverStaleJobs(other))
<1>. USE DEF Common, Ended, Plain, Elsewhere, Tables, Method, Reads, Writes, Insert, Update, Delete
<1>1. \A k, n, parent : Common(db, other, LiteCreateJob(k, n, parent), PgCreateJob(k, n, parent))
  <2>. SUFFICES ASSUME NEW k, NEW n, NEW parent
                PROVE  Common(db, other, LiteCreateJob(k, n, parent), PgCreateJob(k, n, parent))
    BY Zenon
  <2>1. Ended(LiteCreateJob(k, n, parent)) /\ Ended(PgCreateJob(k, n, parent)) /\ Plain(LiteCreateJob(k, n, parent))
    BY DEF LiteCreateJob, PgCreateJob
  <2>2. db = other => LiteCreateJob(k, n, parent) = PgCreateJob(k, n, parent)
    BY Zenon DEF LiteCreateJob, PgCreateJob
  <2>. QED  BY <2>1, <2>2 DEF Common
<1>2. \A j : Common(db, other, LiteGetJob(db, j), PgGetJob(other, j))
  BY DEF LiteGetJob, PgGetJob
<1>3. \A j, st, started : Common(db, other, LiteUpdateJobStatus(db, j, st, started),
                                 PgUpdateJobStatus(other, j, st, started))
  BY DEF LiteUpdateJobStatus, PgUpdateJobStatus
<1>4. \A j : Common(db, other, LiteCompleteJob(db, j), PgCompleteJob(other, j))
  BY DEF LiteCompleteJob, PgCompleteJob
<1>5. \A j : Common(db, other, LiteFailJob(db, j), PgFailJob(other, j))
  BY DEF LiteFailJob, PgFailJob
<1>6. \A k, n, m : Common(db, other, LiteListJobs(db, k, n, m), PgListJobs(other, k, n, m))
  <2>. SUFFICES ASSUME NEW k, NEW n, NEW m
                PROVE  Common(db, other, LiteListJobs(db, k, n, m), PgListJobs(other, k, n, m))
    BY Zenon
  <2>1. Ended(LiteListJobs(db, k, n, m)) /\ Ended(PgListJobs(other, k, n, m)) /\ Plain(LiteListJobs(db, k, n, m))
    BY DEF LiteListJobs, PgListJobs
  <2>2. db = other => LiteListJobs(db, k, n, m) = PgListJobs(other, k, n, m)
    BY Zenon DEF LiteListJobs, PgListJobs, Listing
  <2>. QED  BY <2>1, <2>2 DEF Common
<1>7. \A j, from, to :
         Common(db, other, LiteCancelJobIf(db, j, from, to), PgCancelJobIf(other, j, from, to))
  <2>. SUFFICES ASSUME NEW j, NEW from, NEW to
                PROVE  Common(db, other, LiteCancelJobIf(db, j, from, to), PgCancelJobIf(other, j, from, to))
    BY Zenon
  <2>1. Ended(LiteCancelJobIf(db, j, from, to)) /\ Ended(PgCancelJobIf(other, j, from, to)) /\ Plain(LiteCancelJobIf(db, j, from, to))
    BY DEF LiteCancelJobIf, PgCancelJobIf
  <2>2. db = other => LiteCancelJobIf(db, j, from, to) = PgCancelJobIf(other, j, from, to)
    BY Zenon DEF LiteCancelJobIf, PgCancelJobIf, CancelledByUser
  <2>. QED  BY <2>1, <2>2 DEF Common
<1>8. Common(db, other, LiteJobCounts(db), PgJobCounts(other))
  BY DEF LiteJobCounts, PgJobCounts
<1>9. \A before : Common(db, other, LiteCleanupJobs(db, before), PgCleanupJobs(other, before))
  <2>. SUFFICES ASSUME NEW before, db = other
                PROVE  LiteCleanupJobs(db, before) = PgCleanupJobs(db, before)
    BY DEF LiteCleanupJobs, PgCleanupJobs
  <2>1. {r \in db["jobs"] : /\ r.status \in {"completed", "failed", "cancelled"}
                            /\ r.completed # None /\ r.completed < before}
        = {r \in In(db, "jobs", {"completed", "failed", "cancelled"}) :
              r.completed # None /\ r.completed < before}
    BY DEF In
  <2>. QED  BY <2>1 DEF LiteCleanupJobs, PgCleanupJobs
<1>10. Common(db, other, LiteRecoverStaleJobs(db), PgRecoverStaleJobs(other))
  BY DEF LiteRecoverStaleJobs, PgRecoverStaleJobs
<1>. QED  BY <1>1, <1>2, <1>3, <1>4, <1>5, <1>6, <1>7, <1>8, <1>9, <1>10, Zenon

LEMMA JobKeeps == PairInv /\ JobCall => PairInv'
<1>. SUFFICES ASSUME PairInv, JobCall PROVE PairInv'
  OBVIOUS
<1>1. ASSUME NEW k, NEW p, Call(LiteCreateJob(k, 2, p), PgCreateJob(k, 2, p))
      PROVE  PairInv'
  BY <1>1, CommonCall, JobMethods
<1>2. ASSUME NEW k,
             \/ Call(LiteUsageTodayJobs(lite.sees, k), PgUsageTodayJobs(pg.sees, k))
             \/ \E q \in Pages : Call(LiteListJobs(lite.sees, k, q[1], q[2]),
                                      PgListJobs(pg.sees, k, q[1], q[2]))
      PROVE  PairInv'
  BY <1>2, CommonCall, JobMethods, UsageMethods
<1>3. ASSUME NEW j, NEW s,
             \/ Call(LiteGetJob(lite.sees, j), PgGetJob(pg.sees, j))
             \/ Call(LiteUpdateJobStatus(lite.sees, j, s[1], s[2]),
                     PgUpdateJobStatus(pg.sees, j, s[1], s[2]))
             \/ Call(LiteCompleteJob(lite.sees, j), PgCompleteJob(pg.sees, j))
             \/ Call(LiteFailJob(lite.sees, j), PgFailJob(pg.sees, j))
             \/ Call(LiteCancelJobIf(lite.sees, j, s[1], s[2]), PgCancelJobIf(pg.sees, j, s[1], s[2]))
      PROVE  PairInv'
  BY <1>3, CommonCall, JobMethods
<1>4. CASE Call(LiteJobCounts(lite.sees), PgJobCounts(pg.sees))
  BY <1>4, CommonCall, JobMethods
<1>5. ASSUME NEW before, Call(LiteCleanupJobs(lite.sees, before), PgCleanupJobs(pg.sees, before))
      PROVE  PairInv'
  BY <1>5, CommonCall, JobMethods
<1>6. CASE Call(LiteRecoverStaleJobs(lite.sees), PgRecoverStaleJobs(pg.sees))
  BY <1>6, CommonCall, JobMethods
<1>. QED  BY <1>1, <1>2, <1>3, <1>4, <1>5, <1>6 DEF JobCall

LEMMA RunMethods ==
    ASSUME NEW db, NEW other
    PROVE  /\ \A k : Common(db, other, LiteCreateRun(k), PgCreateRun(k))
           /\ \A r : Common(db, other, LiteGetRun(db, r), PgGetRun(other, r))
           /\ \A k, st, n, m :
                 Common(db, other, LiteListRuns(db, k, st, n, m), PgListRuns(other, k, st, n, m))
           /\ \A r, given, clear : Common(db, other, LiteUpdateRun(db, r, given, clear),
                                          PgUpdateRun(other, r, given, clear))
           /\ \A r : Common(db, other, LiteCompleteRun(db, r), PgCompleteRun(other, r))
           /\ \A r : Common(db, other, LiteFailRun(db, r), PgFailRun(other, r))
           /\ \A r, from, to :
                 Common(db, other, LiteCancelRunIf(db, r, from, to), PgCancelRunIf(other, r, from, to))
           /\ Common(db, other, LiteRecoverRuns(db), PgRecoverRuns(other))
<1>. USE DEF Common, Ended, Plain, Elsewhere, Tables, Method, Reads, Writes, Insert, Update
<1>1. \A k : Common(db, other, LiteCreateRun(k), PgCreateRun(k))
  BY DEF LiteCreateRun, PgCreateRun
<1>2. \A r : Common(db, other, LiteGetRun(db, r), PgGetRun(other, r))
  BY DEF LiteGetRun, PgGetRun
<1>3. \A k, st, n, m :
         Common(db, other, LiteListRuns(db, k, st, n, m), PgListRuns(other, k, st, n, m))
  <2>. SUFFICES ASSUME NEW k, NEW st, NEW n, NEW m
                PROVE  Common(db, other, LiteListRuns(db, k, st, n, m), PgListRuns(other, k, st, n, m))
    BY Zenon
  <2>1. Ended(LiteListRuns(db, k, st, n, m)) /\ Ended(PgListRuns(other, k, st, n, m)) /\ Plain(LiteListRuns(db, k, st, n, m))
    BY DEF LiteListRuns, PgListRuns
  <2>2. db = other => LiteListRuns(db, k, st, n, m) = PgListRuns(other, k, st, n, m)
    BY Zenon DEF LiteListRuns, PgListRuns, Listing
  <2>. QED  BY <2>1, <2>2 DEF Common
<1>4. \A r, given, clear : Common(db, other, LiteUpdateRun(db, r, given, clear),
                                  PgUpdateRun(other, r, given, clear))
  BY DEF LiteUpdateRun, PgUpdateRun
<1>5. \A r : Common(db, other, LiteCompleteRun(db, r), PgCompleteRun(other, r))
  BY DEF LiteCompleteRun, PgCompleteRun
<1>6. \A r : Common(db, other, LiteFailRun(db, r), PgFailRun(other, r))
  BY DEF LiteFailRun, PgFailRun
<1>7. \A r, from, to :
         Common(db, other, LiteCancelRunIf(db, r, from, to), PgCancelRunIf(other, r, from, to))
  <2>. SUFFICES ASSUME NEW r, NEW from, NEW to
                PROVE  Common(db, other, LiteCancelRunIf(db, r, from, to), PgCancelRunIf(other, r, from, to))
    BY Zenon
  <2>1. Ended(LiteCancelRunIf(db, r, from, to)) /\ Ended(PgCancelRunIf(other, r, from, to)) /\ Plain(LiteCancelRunIf(db, r, from, to))
    BY DEF LiteCancelRunIf, PgCancelRunIf
  <2>2. db = other => LiteCancelRunIf(db, r, from, to) = PgCancelRunIf(other, r, from, to)
    BY Zenon DEF LiteCancelRunIf, PgCancelRunIf
  <2>. QED  BY <2>1, <2>2 DEF Common
<1>8. Common(db, other, LiteRecoverRuns(db), PgRecoverRuns(other))
  BY DEF LiteRecoverRuns, PgRecoverRuns
<1>. QED  BY <1>1, <1>2, <1>3, <1>4, <1>5, <1>6, <1>7, <1>8, Zenon

LEMMA RunKeeps == PairInv /\ RunCall => PairInv'
<1>. SUFFICES ASSUME PairInv, RunCall PROVE PairInv'
  OBVIOUS
<1>1. ASSUME NEW k,
             \/ Call(LiteCreateRun(k), PgCreateRun(k))
             \/ \E st \in {None, "failed"}, q \in Pages :
                   Call(LiteListRuns(lite.sees, k, st, q[1], q[2]),
                        PgListRuns(pg.sees, k, st, q[1], q[2]))
      PROVE  PairInv'
  BY <1>1, CommonCall, RunMethods
<1>2. ASSUME NEW r, NEW u,
             \/ Call(LiteGetRun(lite.sees, r), PgGetRun(pg.sees, r))
             \/ Call(LiteUpdateRun(lite.sees, r, u[1], u[2]), PgUpdateRun(pg.sees, r, u[1], u[2]))
             \/ Call(LiteCompleteRun(lite.sees, r), PgCompleteRun(pg.sees, r))
             \/ Call(LiteFailRun(lite.sees, r), PgFailRun(pg.sees, r))
             \/ Call(LiteCancelRunIf(lite.sees, r, u[1], u[2]), PgCancelRunIf(pg.sees, r, u[1], u[2]))
      PROVE  PairInv'
  BY <1>2, CommonCall, RunMethods
<1>3. CASE Call(LiteRecoverRuns(lite.sees), PgRecoverRuns(pg.sees))
  BY <1>3, CommonCall, RunMethods
<1>. QED  BY <1>1, <1>2, <1>3 DEF RunCall

-----------------------------------------------------------------------------
(* Identities, quota and billing *)

LEMMA VisitorMethods ==
    ASSUME NEW db, NEW other, NEW v, NEW abuse
    PROVE  Common(db, other, LiteGetOrCreateVisitor(db, v, abuse),
                  PgGetOrCreateVisitor(other, v, abuse))
<1>. USE DEF Ended, Plain, Elsewhere, Tables, Method, Reads, Writes, Insert, Update
<1>. DEFINE row == One(Visitor(db, v))
<1>1. CASE row = None
  BY <1>1 DEF Common, LiteGetOrCreateVisitor, PgGetOrCreateVisitor
<1>2. CASE row # None
  <2>1. row.id = v
    BY <1>2 DEF One, Visitor
  <2>. QED  BY <1>2, <2>1 DEF Common, LiteGetOrCreateVisitor, PgGetOrCreateVisitor
<1>. QED  BY <1>1, <1>2

LEMMA EventMethods ==
    ASSUME NEW db, NEW other, NEW v, NEW u
    PROVE  /\ Common(db, other, LiteClaimVisitorEvents(db, v, u), PgClaimVisitorEvents(other, v, u))
           /\ Common(db, other, Reads(LitePublicUseCount(db, v, u)),
                     Reads(PgPublicUseCount(other, v, u)))
<1>. USE DEF Common, Ended, Plain, Elsewhere, Tables, Method, Reads, Writes, Update
<1>1. Common(db, other, LiteClaimVisitorEvents(db, v, u), PgClaimVisitorEvents(other, v, u))
  BY DEF LiteClaimVisitorEvents, PgClaimVisitorEvents
<1>2. Common(db, other, Reads(LitePublicUseCount(db, v, u)), Reads(PgPublicUseCount(other, v, u)))
  BY DEF LitePublicUseCount, PgPublicUseCount
<1>. QED  BY <1>1, <1>2

\* Postgres rolls a refusal back, which leaves what SQLite leaves: nothing was written.
LEMMA ConsumePaired ==
    ASSUME NEW v, NEW u, NEW limit
    PROVE  Paired(LiteTryConsume(lite.sees, v, u, limit), PgTryConsume(pg.sees, v, u, limit))
<1>. DEFINE l == LiteTryConsume(lite.sees, v, u, limit)
            p == PgTryConsume(pg.sees, v, u, limit)
            used == LitePublicUseCount(lite.sees, v, u)
<1>. USE DEF Ended, Plain, Elsewhere, Tables, Method, Reads, Writes, Insert
<1>1. Ended(l) /\ Ended(p) /\ Plain(l)
  BY DEF LiteTryConsume, PgTryConsume
<1>2. ASSUME lite.sees = pg.sees, Tidy(lite.sees)
      PROVE  Alike(lite.sees, l, p)
  <2>1. PgPublicUseCount(pg.sees, v, u) = used
    BY <1>2 DEF LitePublicUseCount, PgPublicUseCount
  <2>2. CASE used >= limit
    <3>1. l.answer = <<FALSE, 0>> /\ l.end = "open" /\ l.writes = <<>>
      BY <2>2 DEF LiteTryConsume
    <3>2. p.answer = <<FALSE, 0>> /\ p.end = "rollback"
      BY <2>1, <2>2 DEF PgTryConsume
    <3>. QED  BY <1>2, <3>1, <3>2, NoStatement DEF Alike, Leaves
  <2>3. CASE ~(used >= limit)
    <3>1. l = p /\ l.end = "commit"
      BY <2>1, <2>3 DEF LiteTryConsume, PgTryConsume
    <3>. QED  BY <1>1, <1>2, <3>1, PlainKeeps DEF Alike, Leaves
  <2>. QED  BY <2>2, <2>3
<1>. QED  BY <1>1, <1>2 DEF Paired

\* The row that is found is the user's, and the only one.
LEMMA UserRowFound ==
    ASSUME NEW db, Tidy(db), NEW u
    PROVE  /\ One(User(db, u)) = None => User(db, u) = {}
           /\ One(User(db, u)) # None =>
                 /\ User(db, u) = {One(User(db, u))}
                 /\ One(User(db, u)) \in db["app_users"]
                 /\ One(User(db, u)).auth = u
  BY RepositoryAssumption DEF One, User, Tidy

\* What a statement on app_users leaves.
LEMMA ExecUsers ==
    ASSUME NEW db, Tidy(db), NEW s, s.table = "app_users",
           NEW new, new = Exec(db, s)["app_users"]
    PROVE  /\ Exec(db, s) = [t \in Tables |-> Exec(db, s)[t]]
           /\ s.do = "insert" => new = db["app_users"] \cup s.rows
           /\ s.do = "update" => new = (db["app_users"] \ s.rows) \cup {With(r, s.set) : r \in s.rows}
<1>. DEFINE rows == CASE s.do = "insert" -> db["app_users"] \cup s.rows
                      [] s.do = "update" -> (db["app_users"] \ s.rows) \cup {With(r, s.set) : r \in s.rows}
                      [] s.do = "delete" -> db["app_users"] \ s.rows
<1>1. Exec(db, s) = [db EXCEPT !["app_users"] = rows]
  BY DEF Exec
<1>2. /\ s.do = "insert" => rows = db["app_users"] \cup s.rows
      /\ s.do = "update" => rows = (db["app_users"] \ s.rows) \cup {With(r, s.set) : r \in s.rows}
  OBVIOUS
<1>. HIDE DEF rows
<1>3. "app_users" \in Tables
  BY DEF Tables
<1>4. Exec(db, s) = [t \in Tables |-> Exec(db, s)[t]] /\ new = rows
  BY <1>1, <1>3 DEF Tidy
<1>. QED  BY <1>2, <1>4

\* A new row for a user who has none.
LEMMA InsertUser ==
    ASSUME NEW db, Tidy(db), NEW row \in UserRow, User(db, row.auth) = {}
    PROVE  Tidy(Exec(db, Insert("app_users", row)))
<1>. DEFINE s == Insert("app_users", row)
<1>1. s.table = "app_users" /\ s.do = "insert" /\ s.rows = {row}
  BY DEF Insert
<1>. HIDE DEF s
<1>2. /\ Exec(db, s) = [t \in Tables |-> Exec(db, s)[t]]
      /\ Exec(db, s)["app_users"] = db["app_users"] \cup {row}
  BY <1>1, ExecUsers
<1>3. \A r \in db["app_users"] : r.auth # row.auth
  BY DEF User
<1>4. Tidy(Exec(db, s))
  BY <1>2, <1>3 DEF Tidy
<1>. QED  BY <1>4 DEF s

\* A row is replaced by one of the same user.
LEMMA UpdateUser ==
    ASSUME NEW db, Tidy(db), NEW row \in db["app_users"], NEW set,
           With(row, set) \in UserRow, With(row, set).auth = row.auth
    PROVE  Tidy(Exec(db, Update("app_users", {row}, set)))
<1>. DEFINE s == Update("app_users", {row}, set)
            new == With(row, set)
<1>1. s.table = "app_users" /\ s.do = "update" /\ s.rows = {row} /\ s.set = set
  BY DEF Update
<1>2. {With(r, s.set) : r \in s.rows} = {new}
  BY <1>1
<1>. HIDE DEF s, new
<1>3. /\ Exec(db, s) = [t \in Tables |-> Exec(db, s)[t]]
      /\ Exec(db, s)["app_users"] = (db["app_users"] \ {row}) \cup {new}
  BY <1>1, <1>2, ExecUsers
<1>4. new \in UserRow /\ new.auth = row.auth
  BY DEF new
<1>5. Tidy(Exec(db, s))
  BY <1>3, <1>4 DEF Tidy
<1>. QED  BY <1>5 DEF s

LEMMA UserPaired ==
    ASSUME now \in Nat, NEW u \in Keys, NEW email \in {None, "mail", "other"}
    PROVE  Paired(LiteGetOrCreateUser(lite.sees, u, email), PgGetOrCreateUser(pg.sees, u, email))
<1>. DEFINE l == LiteGetOrCreateUser(lite.sees, u, email)
            p == PgGetOrCreateUser(pg.sees, u, email)
            db == lite.sees
            row == One(User(db, u))
            set == [email |-> email, updated |-> now]
<1>. USE DEF Method, Reads, Writes
<1>1. Ended(l) /\ Ended(p)
  BY DEF LiteGetOrCreateUser, PgGetOrCreateUser, Ended
<1>2. ASSUME db = pg.sees, Tidy(db)
      PROVE  Alike(db, l, p)
  <2>1. CASE row = None
    <3>1. l = p /\ l.end = "commit" /\ l.writes = <<Insert("app_users", NewUser(u, email))>>
      BY <1>2, <2>1 DEF LiteGetOrCreateUser, PgGetOrCreateUser
    <3>2. NewUser(u, email) \in UserRow /\ NewUser(u, email).auth = u
      BY DEF NewUser, UserRow
    <3>3. User(db, u) = {}
      BY <1>2, <2>1, UserRowFound
    <3>. QED  BY <1>2, <3>1, <3>2, <3>3, InsertUser, OneStatement DEF Alike, Leaves
  <2>2. CASE row # None /\ email \notin {None, row.email}
    <3>1. l = p /\ l.end = "commit" /\ l.writes = <<Update("app_users", {row}, set)>>
      BY <1>2, <2>2 DEF LiteGetOrCreateUser, PgGetOrCreateUser
    <3>2. row \in db["app_users"] /\ row \in UserRow
      BY <1>2, <2>2, UserRowFound DEF Tidy
    <3>3. With(row, set) \in UserRow /\ With(row, set).auth = row.auth
      BY <3>2 DEF UserRow, With
    <3>. QED  BY <1>2, <3>1, <3>2, <3>3, UpdateUser, OneStatement DEF Alike, Leaves
  <2>3. CASE row # None /\ email \in {None, row.email}
    <3>. DEFINE known == IF email # None THEN email ELSE row.email
    <3>1. known = row.email
      BY <2>3
    <3>. HIDE DEF known
    <3>2. l.answer = UserAnswer(row, known, FALSE) /\ l.end = "open" /\ l.writes = <<>>
      BY <2>3 DEF LiteGetOrCreateUser, known
    <3>3. p.answer = UserAnswer(row, row.email, FALSE) /\ p.end = "open" /\ p.writes = <<>>
      BY <1>2, <2>3 DEF PgGetOrCreateUser
    <3>. QED  BY <1>2, <3>1, <3>2, <3>3, NoStatement DEF Alike, Leaves
  <2>. QED  BY <2>1, <2>2, <2>3
<1>. QED  BY <1>1, <1>2 DEF Paired

\* Without a row SQLite updates none and commits, Postgres rolls back.
LEMMA PlanPaired ==
    ASSUME now \in Nat, NEW u \in Keys
    PROVE  Paired(LiteSetUserPlan(lite.sees, u, "pro"), PgSetUserPlan(pg.sees, u, "pro"))
<1>. DEFINE l == LiteSetUserPlan(lite.sees, u, "pro")
            p == PgSetUserPlan(pg.sees, u, "pro")
            db == lite.sees
            row == One(User(db, u))
            set == [plan |-> "pro", updated |-> now]
<1>. USE DEF Method, Writes
<1>1. Ended(l) /\ Ended(p)
  BY DEF LiteSetUserPlan, PgSetUserPlan, Ended
<1>2. ASSUME db = pg.sees, Tidy(db)
      PROVE  Alike(db, l, p)
  <2>1. l.end = "commit" /\ l.writes = <<Update("app_users", User(db, u), set)>>
    BY DEF LiteSetUserPlan
  <2>2. CASE row = None
    <3>1. p.end = "rollback" /\ p.answer = None /\ l.answer = None
      BY <1>2, <2>2 DEF LiteSetUserPlan, PgSetUserPlan
    <3>2. User(db, u) = {}
      BY <1>2, <2>2, UserRowFound
    <3>3. Exec(db, Update("app_users", {}, set)) = db
      <4>. DEFINE s == Update("app_users", {}, set)
      <4>1. s.table = "app_users" /\ s.do = "update" /\ s.rows = {}
        BY DEF Update
      <4>. HIDE DEF s
      <4>2. Exec(db, s) = [t \in Tables |-> Exec(db, s)[t]] /\ Exec(db, s)["app_users"] = db["app_users"]
        <5>1. {With(r, s.set) : r \in s.rows} = {}
          BY <4>1
        <5>. QED  BY <1>2, <4>1, <5>1, ExecUsers
      <4>3. \A t \in Tables : t # "app_users" => Exec(db, s)[t] = db[t]
        BY <1>2, <4>1 DEF Tidy, Exec
      <4>. QED  BY <1>2, <4>2, <4>3 DEF Tidy, s
    <3>. QED  BY <1>2, <2>1, <3>1, <3>2, <3>3, OneStatement DEF Alike, Leaves
  <2>3. CASE row # None
    <3>1. User(db, u) = {row} /\ row \in db["app_users"] /\ row \in UserRow
      BY <1>2, <2>3, UserRowFound DEF Tidy
    <3>2. l = p
      BY <1>2, <2>3, <3>1 DEF LiteSetUserPlan, PgSetUserPlan
    <3>3. With(row, set) \in UserRow /\ With(row, set).auth = row.auth
      BY <3>1 DEF UserRow, With
    <3>. QED  BY <1>2, <2>1, <3>1, <3>2, <3>3, UpdateUser, OneStatement DEF Alike, Leaves
  <2>. QED  BY <2>2, <2>3
<1>. QED  BY <1>1, <1>2 DEF Paired

LEMMA IdentityKeeps == PairInv /\ IdentityCall => PairInv'
<1>. SUFFICES ASSUME PairInv, IdentityCall PROVE PairInv'
  OBVIOUS
<1>1. ASSUME NEW v, NEW abuse,
             Call(LiteGetOrCreateVisitor(lite.sees, v, abuse), PgGetOrCreateVisitor(pg.sees, v, abuse))
      PROVE  PairInv'
  BY <1>1, CommonCall, VisitorMethods
<1>2. ASSUME NEW u \in Keys, NEW email \in {None, "mail", "other"},
             Call(LiteGetOrCreateUser(lite.sees, u, email), PgGetOrCreateUser(pg.sees, u, email))
      PROVE  PairInv'
  BY <1>2, CallKeeps, UserPaired DEF PairInv
<1>3. ASSUME NEW u \in Keys, Call(LiteSetUserPlan(lite.sees, u, "pro"), PgSetUserPlan(pg.sees, u, "pro"))
      PROVE  PairInv'
  BY <1>3, CallKeeps, PlanPaired DEF PairInv
<1>4. ASSUME NEW v, NEW u,
             \/ Call(LiteClaimVisitorEvents(lite.sees, v, u), PgClaimVisitorEvents(pg.sees, v, u))
             \/ Call(Reads(LitePublicUseCount(lite.sees, v, u)), Reads(PgPublicUseCount(pg.sees, v, u)))
      PROVE  PairInv'
  BY <1>4, CommonCall, EventMethods
<1>5. ASSUME NEW v, NEW u, Call(LiteTryConsume(lite.sees, v, u, 2), PgTryConsume(pg.sees, v, u, 2))
      PROVE  PairInv'
  BY <1>5, CallKeeps, ConsumePaired
<1>. QED  BY <1>1, <1>2, <1>3, <1>4, <1>5 DEF IdentityCall

LEMMA BillingMethods ==
    ASSUME NEW db, NEW other
    PROVE  /\ \A u, c, sub, st :
                 Common(db, other, LiteUpsert(db, u, c, sub, st), PgUpsert(other, u, c, sub, st))
           /\ \A u : Common(db, other, LiteSubscriptionForUser(db, u), PgSubscriptionForUser(other, u))
           /\ \A c : Common(db, other, LiteSubscriptionByCustomer(db, c),
                            PgSubscriptionByCustomer(other, c))
           /\ \A e : Common(db, other, LiteRecordWebhook(db, e), PgRecordWebhook(other, e))
<1>. USE DEF Ended, Plain, Elsewhere, Tables, Method, Reads, Writes, Insert, Update
<1>1. \A u, c, sub, st :
         Common(db, other, LiteUpsert(db, u, c, sub, st), PgUpsert(other, u, c, sub, st))
  <2>. SUFFICES ASSUME NEW u, NEW c, NEW sub, NEW st
                PROVE  Common(db, other, LiteUpsert(db, u, c, sub, st), PgUpsert(other, u, c, sub, st))
    BY Zenon
  <2>1. /\ Ended(LiteUpsert(db, u, c, sub, st)) /\ Ended(PgUpsert(other, u, c, sub, st))
        /\ Plain(LiteUpsert(db, u, c, sub, st))
    BY DEF LiteUpsert, PgUpsert
  <2>2. db = other => LiteUpsert(db, u, c, sub, st) = PgUpsert(other, u, c, sub, st)
    BY Zenon DEF LiteUpsert, PgUpsert
  <2>. QED  BY <2>1, <2>2 DEF Common
<1>2. \A u : Common(db, other, LiteSubscriptionForUser(db, u), PgSubscriptionForUser(other, u))
  BY DEF LiteSubscriptionForUser, PgSubscriptionForUser, Common
<1>3. \A c : Common(db, other, LiteSubscriptionByCustomer(db, c), PgSubscriptionByCustomer(other, c))
  BY DEF LiteSubscriptionByCustomer, PgSubscriptionByCustomer, Common
<1>4. \A e : Common(db, other, LiteRecordWebhook(db, e), PgRecordWebhook(other, e))
  BY DEF LiteRecordWebhook, PgRecordWebhook, Common
<1>. QED  BY <1>1, <1>2, <1>3, <1>4, Zenon

LEMMA BillingKeeps == PairInv /\ BillingCall => PairInv'
<1>. SUFFICES ASSUME PairInv, BillingCall PROVE PairInv'
  OBVIOUS
<1>1. ASSUME NEW u, NEW sub, NEW st,
             Call(LiteUpsert(lite.sees, u, u, sub, st), PgUpsert(pg.sees, u, u, sub, st))
      PROVE  PairInv'
  BY <1>1, CommonCall, BillingMethods
<1>2. ASSUME NEW u,
             \/ Call(LiteSubscriptionForUser(lite.sees, u), PgSubscriptionForUser(pg.sees, u))
             \/ Call(LiteSubscriptionByCustomer(lite.sees, u), PgSubscriptionByCustomer(pg.sees, u))
      PROVE  PairInv'
  BY <1>2, CommonCall, BillingMethods
<1>3. CASE Call(LiteRecordWebhook(lite.sees, "event"), PgRecordWebhook(pg.sees, "event"))
  BY <1>3, CommonCall, BillingMethods
<1>. QED  BY <1>1, <1>2, <1>3 DEF BillingCall

-----------------------------------------------------------------------------
(* The theorems *)

LEMMA NextPair == PairInv /\ [Next]_vars => PairInv'
<1>. SUFFICES ASSUME PairInv, [Next]_vars PROVE PairInv'
  OBVIOUS
<1>1. CASE UNCHANGED vars
  BY <1>1 DEF vars, PairInv, IsConnection, AnsweredIsDurable, Tidy
<1>. QED
  BY <1>1, AnalysisKeeps, KeyKeeps, UsageKeeps, JobKeeps, RunKeeps, IdentityKeeps, BillingKeeps,
     RestartKeeps DEF Next

\* The invariant of the two connections holds in every reachable state.
THEOREM PairInvariant == Spec => []PairInv
  BY InitPair, NextPair, PTL DEF Spec

\* As long as nothing has raised, SqliteRepository and PostgresRepository hold the same rows
\* and have given the same answers, after any number of calls of any methods by any keys.
THEOREM RepositoriesAgree == Spec => []BackendsAgree
<1>1. PairInv => BackendsAgree
  BY DEF PairInv, BackendsAgree
<1>. QED  BY <1>1, PairInvariant, PTL

\* A writing call that has returned is committed, after any failures of earlier calls, and
\* Postgres never shows the half of a call.
THEOREM AnswersAreDurable == Spec => []AnsweredIsDurable
<1>1. PairInv => AnsweredIsDurable
  BY DEF PairInv
<1>. QED  BY <1>1, PairInvariant, PTL

\* While nothing has raised, app_users has one row per identity in both repositories: what
\* get_or_create_user reads before it inserts is enough under the instance lock.
THEOREM OneRowPerUser == Spec => [](faults = 0 => Tidy(lite.sees) /\ Tidy(pg.sees))
<1>1. PairInv => (faults = 0 => Tidy(lite.sees) /\ Tidy(pg.sees))
  BY DEF PairInv, AnsweredIsDurable
<1>. QED  BY <1>1, PairInvariant, PTL
=============================================================================

-------------------------- MODULE PublicQuotaProofs --------------------------
(***************************************************************************)
(* The daily quotas hold for any number of visitors, users, processes and   *)
(* requests and for all limits: the count and the insert of a use are one   *)
(* step in SQLite, and in Postgres the advisory lock keeps everyone else    *)
(* from using up the room that the count has found.                         *)
(***************************************************************************)
EXTENDS PublicQuota, FiniteSetTheorems, TLAPS

\* The identity that a request is counted by is the user, or else the visitor. OwnRows are
\* the rows it has made since a day, as far as nobody has claimed them.
OwnRow(e, v, u) == IF u # None THEN e.madeBy = u ELSE e.visitor = v /\ e.user = None
OwnRows(v, u, since) == {e \in events : e.day >= since /\ OwnRow(e, v, u)}
RowsOn(v, u, d) == {e \in events : e.day = d /\ OwnRow(e, v, u)}
LimitOf(u) == IF u # None THEN BestLimit(u) ELSE AnonLimit

\* A request in progress has a process and an identity; past the plan it has a limit that
\* the identity has a right to.
IdentityOk(r) ==
    /\ req[r].pc # "idle" => req[r].proc \in Processes
    /\ req[r].pc # "idle" => req[r].user # None \/ req[r].visitor # None
    /\ req[r].pc \in {"user", "inserting", "plan", "claiming"} => req[r].user # None
    /\ req[r].pc \in {"counting", "analyzing", "consuming", "locking", "recording"}
          => req[r].limit <= LimitOf(req[r].user)

\* The repository's instance lock is held through a method of more than one step, and the
\* advisory lock of the identity from the count to the commit.
LockOk(r) ==
    /\ req[r].pc \in {"inserting", "locking", "recording"} => mutex[req[r].proc] = r
    /\ req[r].pc \in {"locking", "recording"} => backend = "postgres" /\ req[r].today <= day
    /\ req[r].pc = "recording" => scopeLock[_quota_scope(r)] = req[r].proc

\* What the count has found still holds when the row is inserted.
RoomOk(r) ==
    req[r].pc = "recording" =>
        Cardinality(OwnRows(req[r].visitor, req[r].user, req[r].today)) < req[r].limit

\* Rows are told apart by their ids, and a user's own rows are the user's for good.
EventsInv ==
    /\ IsFiniteSet(events)
    /\ \A e \in events : e.id <= Cardinality(events)
    /\ \A e, f \in events : e.id = f.id => e = f
    /\ \A e \in events : e.madeBy # None => e.user = e.madeBy

\* No identity has more rows of a day than its limit.
UsedInv ==
    \A v \in Visitors \cup {None}, u \in Users \cup {None}, d \in Nat :
        u # None \/ v # None => Cardinality(RowsOn(v, u, d)) <= LimitOf(u)

QuotaInv ==
    /\ TypeOK
    /\ \A r \in Requests : IdentityOk(r) /\ LockOk(r) /\ RoomOk(r)
    /\ EventsInv
    /\ UsedInv
    /\ pro \subseteq everPro

-----------------------------------------------------------------------------
(* What a step does to a request *)

Labels == {"idle", "user", "inserting", "plan", "claiming", "counting", "analyzing",
           "consuming", "locking", "recording"}
RowType == [id : Nat, visitor : Visitors \cup {None}, user : Users \cup {None},
            day : 0..MaxDay, madeBy : Users \cup {None}]

Typed == req \in [Requests -> RequestType]

\* The request goes to a label and keeps its identity; its limit and date may be new.
Goes(r, label) ==
    /\ Typed'
    /\ \A k \in Requests : k # r => req'[k] = req[k]
    /\ req'[r].pc = label
    /\ req'[r].proc = req[r].proc
    /\ req'[r].visitor = req[r].visitor
    /\ req'[r].user = req[r].user
    /\ req'[r].kind = req[r].kind

Ends(r) ==
    /\ Typed'
    /\ \A k \in Requests : k # r => req'[k] = req[k]
    /\ req'[r].pc = "idle"
    /\ req'[r].proc = None

\* Replacing one request.
LEMMA ReplaceRequest ==
    ASSUME Typed, NEW r \in Requests, NEW q \in RequestType, req' = [req EXCEPT ![r] = q]
    PROVE  Typed' /\ req'[r] = q /\ \A k \in Requests : k # r => req'[k] = req[k]
  BY DEF Typed

LEMMA IdleTyped == Idle \in RequestType /\ Idle.pc = "idle" /\ Idle.proc = None
  BY QuotaAssumption DEF Idle, RequestType

LEMMA GotoMoves ==
    ASSUME Typed, NEW r \in Requests, NEW label \in Labels, Goto(r, label)
    PROVE  Goes(r, label) /\ req'[r].limit = req[r].limit /\ req'[r].today = req[r].today
<1>. DEFINE q == [req[r] EXCEPT !.pc = label]
<1>1. req[r] \in RequestType
  BY DEF Typed
<1>2. /\ q \in RequestType /\ q.pc = label /\ q.proc = req[r].proc /\ q.visitor = req[r].visitor
      /\ q.user = req[r].user /\ q.kind = req[r].kind
      /\ q.limit = req[r].limit /\ q.today = req[r].today
  BY <1>1 DEF RequestType, Labels
<1>3. req' = [req EXCEPT ![r] = q]
  BY DEF Goto, Typed
<1>. HIDE DEF q
<1>4. Typed' /\ req'[r] = q /\ \A k \in Requests : k # r => req'[k] = req[k]
  BY <1>2, <1>3, ReplaceRequest
<1>. QED  BY <1>2, <1>4 DEF Goes

LEMMA EndMoves ==
    ASSUME Typed, NEW r \in Requests, End(r)
    PROVE  Ends(r)
  BY IdleTyped, ReplaceRequest DEF End, Ends

\* ReadPlan and BeginConsume.
LEMMA PlanMoves ==
    ASSUME Typed, NEW r \in Requests, ReadPlan(r)
    PROVE  /\ Goes(r, IF req[r].kind = "sync" THEN "claiming" ELSE "counting")
           /\ req'[r].limit = IF req[r].user \in pro THEN ProLimit ELSE FreeLimit
<1>. DEFINE label == IF req[r].kind = "sync" THEN "claiming" ELSE "counting"
            limit == IF req[r].user \in pro THEN ProLimit ELSE FreeLimit
            q == [req[r] EXCEPT !.limit = limit, !.pc = label]
<1>1. req[r] \in RequestType
  BY DEF Typed
<1>2. label \in Labels /\ limit \in {0, AnonLimit, FreeLimit, ProLimit}
  BY DEF Labels
<1>3. req' = [req EXCEPT ![r] = q]
  BY DEF ReadPlan, entitlements_for_plan, effective_plan, Typed
<1>. HIDE DEF label, limit
<1>4. /\ q \in RequestType /\ q.pc = label /\ q.proc = req[r].proc /\ q.visitor = req[r].visitor
      /\ q.user = req[r].user /\ q.kind = req[r].kind /\ q.limit = limit
  BY <1>1, <1>2 DEF RequestType, Labels
<1>. HIDE DEF q
<1>5. Typed' /\ req'[r] = q /\ \A k \in Requests : k # r => req'[k] = req[k]
  BY <1>3, <1>4, ReplaceRequest
<1>. QED  BY <1>4, <1>5 DEF Goes, label, limit

LEMMA BeginMoves ==
    ASSUME Typed, day \in 0..MaxDay, NEW r \in Requests, BeginConsume(r)
    PROVE  Goes(r, "locking") /\ req'[r].limit = req[r].limit /\ req'[r].today = day
<1>. DEFINE q == [req[r] EXCEPT !.pc = "locking", !.today = day]
<1>1. req[r] \in RequestType
  BY DEF Typed
<1>2. /\ q \in RequestType /\ q.pc = "locking" /\ q.proc = req[r].proc
      /\ q.visitor = req[r].visitor /\ q.user = req[r].user /\ q.kind = req[r].kind
      /\ q.limit = req[r].limit /\ q.today = day
  BY <1>1 DEF RequestType
<1>3. req' = [req EXCEPT ![r] = q]
  BY DEF BeginConsume, Typed
<1>. HIDE DEF q
<1>4. Typed' /\ req'[r] = q /\ \A k \in Requests : k # r => req'[k] = req[k]
  BY <1>2, <1>3, ReplaceRequest
<1>. QED  BY <1>2, <1>4 DEF Goes

\* A request that arrives has a process, and the identity of its browser.
LEMMA NewTyped ==
    ASSUME NEW b \in Browsers, NEW p \in Processes, NEW kind \in {"analyze", "quota", "sync"},
           NEW v \in Visitors \cup {None}, session[b] \in Users \cup {None}
    PROVE  LET q == NewRequest(b, p, kind, v)
           IN  /\ q \in RequestType
               /\ q.proc = p /\ q.visitor = v /\ q.user = session[b] /\ q.limit = AnonLimit
               /\ q.pc = IF session[b] = None THEN "counting" ELSE "user"
<1>1. AnonLimit = entitlements_for_plan("anonymous")
  BY DEF entitlements_for_plan
<1>2. PICK new \in BOOLEAN : new = (cookie[b] = None)
  OBVIOUS
<1>3. PICK u \in Users \cup {None} : u = session[b]
  OBVIOUS
<1>4. PICK pc \in {"counting", "user"} : pc = IF session[b] = None THEN "counting" ELSE "user"
  OBVIOUS
<1>. DEFINE q == [Idle EXCEPT !.kind = kind, !.proc = p, !.browser = b, !.visitor = v, !.user = u,
                              !.new = new, !.limit = AnonLimit, !.pc = pc]
<1>5. q = NewRequest(b, p, kind, v)
  BY <1>1, <1>2, <1>3, <1>4, Zenon DEF NewRequest, optional_supabase_user
<1>6. /\ q.proc = p /\ q.visitor = v /\ q.user = u
      /\ q.limit = AnonLimit /\ q.pc = pc
  BY IdleTyped DEF RequestType
<1>7. q \in RequestType
  <2>. DEFINE half == [Idle EXCEPT !.kind = kind, !.proc = p, !.browser = b, !.visitor = v]
  <2>1. half \in RequestType
    BY IdleTyped DEF RequestType
  <2>2. q = [half EXCEPT !.user = u, !.new = new, !.limit = AnonLimit, !.pc = pc]
    OBVIOUS
  <2>. HIDE DEF half, q
  <2>. QED  BY <2>1, <2>2 DEF RequestType
<1>. HIDE DEF q
<1>. QED  BY <1>3, <1>4, <1>5, <1>6, <1>7

-----------------------------------------------------------------------------
(* What the steps keep *)

\* A request takes or gives back the instance lock of its process, and the advisory lock
\* of its identity, only when nobody else holds them: the others keep what they have.
Locking(r) ==
    /\ \/ mutex' = mutex
       \/ /\ mutex[req[r].proc] \in {None, r}
          /\ mutex' \in {[mutex EXCEPT ![req[r].proc] = None], [mutex EXCEPT ![req[r].proc] = r]}
    /\ \/ scopeLock' = scopeLock
       \/ /\ scopeLock[_quota_scope(r)] = None \/ req[r].pc = "recording"
          /\ \E p \in Processes \cup {None} : scopeLock' = [scopeLock EXCEPT ![_quota_scope(r)] = p]

\* A request in progress is counted by a user or a visitor.
LEMMA ScopeOfRequest ==
    ASSUME Typed, NEW r \in Requests, IdentityOk(r), req[r].pc # "idle"
    PROVE  _quota_scope(r) \in Scopes
  BY DEF Typed, RequestType, IdentityOk, _quota_scope, Scopes

\* Two requests that are about to insert have different identities: the advisory lock is
\* one process's, and the instance lock one request's.
LEMMA OneRecorder ==
    ASSUME QuotaInv, NEW r \in Requests, NEW k \in Requests,
           req[r].pc = "recording", req[k].pc = "recording", _quota_scope(r) = _quota_scope(k)
    PROVE  r = k
  BY DEF QuotaInv, LockOk

LEMMA OthersKept ==
    ASSUME QuotaInv, NEW r \in Requests, Locking(r), NEW k \in Requests, k # r,
           req'[k] = req[k], UNCHANGED <<backend, day, everPro>>
    PROVE  IdentityOk(k)' /\ LockOk(k)'
<1>1. IdentityOk(k)'
  BY DEF QuotaInv, IdentityOk, LimitOf, BestLimit
<1>2. req[k].pc \in {"inserting", "locking", "recording"} => mutex'[req[k].proc] = k
  <2>1. mutex \in [Processes -> Requests \cup {None}] /\ k # None
    BY QuotaAssumption DEF QuotaInv, TypeOK
  <2>2. req[k].pc \in {"inserting", "locking", "recording"} =>
           req[k].proc \in Processes /\ mutex[req[k].proc] = k
    BY DEF QuotaInv, LockOk, IdentityOk
  <2>. QED  BY <2>1, <2>2 DEF Locking
<1>3. req[k].pc = "recording" => scopeLock'[_quota_scope(k)] = req[k].proc
  <2>. SUFFICES ASSUME req[k].pc = "recording" PROVE scopeLock'[_quota_scope(k)] = req[k].proc
    OBVIOUS
  <2>1. scopeLock \in [Scopes -> Processes \cup {None}] /\ None \notin Processes
    BY QuotaAssumption DEF QuotaInv, TypeOK
  <2>2. scopeLock[_quota_scope(k)] = req[k].proc /\ req[k].proc \in Processes
    BY DEF QuotaInv, LockOk, IdentityOk
  <2>3. CASE scopeLock' = scopeLock
    BY <2>2, <2>3
  <2>4. CASE scopeLock[_quota_scope(r)] = None \/ req[r].pc = "recording"
    <3>1. _quota_scope(r) # _quota_scope(k)
      BY <2>1, <2>2, <2>4, OneRecorder
    <3>2. _quota_scope(k) \in Scopes
      BY ScopeOfRequest DEF QuotaInv, TypeOK, Typed
    <3>. QED  BY <2>1, <2>2, <3>1, <3>2 DEF Locking
  <2>. QED  BY <2>3, <2>4 DEF Locking
<1>4. _quota_scope(k)' = _quota_scope(k)
  BY DEF _quota_scope
<1>5. LockOk(k)'
  BY <1>2, <1>3, <1>4 DEF QuotaInv, LockOk
<1>. QED  BY <1>1, <1>5

\* What a request's step may do to the tables and the clients that have no part in the count.
OtherTypes ==
    /\ registered \subseteq Users /\ known \subseteq Visitors
    /\ conn \in [Processes -> {"ok", "aborted"}]
    /\ cookie \in [Browsers -> Visitors \cup {None}]
    /\ session \in [Browsers -> Users \cup {None, "expired"}]
Holder(r) ==
    \A p \in Processes : mutex[p] = r =>
        req[r].proc = p /\ req[r].pc \in {"inserting", "locking", "recording"}

LEMMA TypeSteps ==
    ASSUME TypeOK, NEW r \in Requests, Locking(r), Typed', OtherTypes', Holder(r)',
           \A k \in Requests : k # r => req'[k] = req[k],
           UNCHANGED <<backend, pro, day>>, events' \subseteq events \/ events' \in SUBSET RowType
    PROVE  TypeOK'
<1>1. mutex' \in [Processes -> Requests \cup {None}]
  BY DEF Locking, TypeOK
<1>2. scopeLock' \in [Scopes -> Processes \cup {None}]
  BY DEF Locking, TypeOK
<1>3. ASSUME NEW p \in Processes, mutex'[p] # None
      PROVE  req'[mutex'[p]].proc = p /\ req'[mutex'[p]].pc \in {"inserting", "locking", "recording"}
  <2>1. CASE mutex'[p] = r
    BY <2>1 DEF Holder
  <2>2. CASE mutex'[p] # r
    <3>1. mutex'[p] = mutex[p] /\ mutex[p] \in Requests
      BY <1>1, <1>3, <2>2 DEF Locking, TypeOK
    <3>2. req[mutex[p]].proc = p /\ req[mutex[p]].pc \in {"inserting", "locking", "recording"}
      BY <1>3, <3>1 DEF TypeOK
    <3>. QED  BY <2>2, <3>1, <3>2
  <2>. QED  BY <2>1, <2>2
<1>4. events' \in SUBSET RowType /\ events \in SUBSET RowType
  BY DEF TypeOK, RowType
<1>5. /\ backend' \in {"sqlite", "postgres"} /\ pro' \subseteq Users /\ day' \in 0..MaxDay
  BY DEF TypeOK
<1>. QED  BY <1>1, <1>2, <1>3, <1>4, <1>5, Zenon DEF TypeOK, OtherTypes, Typed, RowType

\* A step of one request that leaves the rows alone.
LEMMA RequestSteps ==
    ASSUME QuotaInv, NEW r \in Requests, Locking(r), \A k \in Requests : k # r => req'[k] = req[k],
           UNCHANGED <<backend, events, pro, day, everPro>>,
           Typed', OtherTypes', Holder(r)', IdentityOk(r)', LockOk(r)', RoomOk(r)'
    PROVE  QuotaInv'
<1>1. ASSUME NEW k \in Requests, k # r PROVE IdentityOk(k)' /\ LockOk(k)' /\ RoomOk(k)'
  <2>1. IdentityOk(k)' /\ LockOk(k)'
    BY <1>1, OthersKept
  <2>2. RoomOk(k)'
    BY <1>1 DEF QuotaInv, RoomOk, OwnRows, OwnRow
  <2>. QED  BY <2>1, <2>2
<1>2. EventsInv' /\ pro' \subseteq everPro'
  BY DEF QuotaInv, EventsInv
<1>3. UsedInv'
  BY DEF QuotaInv, UsedInv, RowsOn, OwnRow, LimitOf, BestLimit
<1>4. TypeOK'
  BY TypeSteps DEF QuotaInv
<1>. QED  BY <1>1, <1>2, <1>3, <1>4 DEF QuotaInv

\* A request that ends holds no lock, and has nothing to answer for.
LEMMA EndSteps ==
    ASSUME QuotaInv, NEW r \in Requests, Ends(r), Locking(r), OtherTypes',
           req[r].pc # "idle",
           UNCHANGED <<backend, events, pro, day, everPro>>,
           mutex' = [mutex EXCEPT ![req[r].proc] = None]
              \/ (mutex' = mutex /\ req[r].pc \notin {"inserting", "locking", "recording"})
    PROVE  QuotaInv'
<1>1. Holder(r)'
  <2>. SUFFICES ASSUME NEW p \in Processes, mutex'[p] = r PROVE FALSE
    BY DEF Holder
  <2>1. /\ mutex \in [Processes -> Requests \cup {None}] /\ r # None
        /\ mutex[p] = r => req[r].proc = p /\ req[r].pc \in {"inserting", "locking", "recording"}
    BY QuotaAssumption DEF QuotaInv, TypeOK
  <2>. QED  BY <2>1
<1>2. IdentityOk(r)' /\ LockOk(r)' /\ RoomOk(r)'
  BY DEF Ends, IdentityOk, LockOk, RoomOk
<1>. QED  BY <1>1, <1>2, RequestSteps DEF Ends

-----------------------------------------------------------------------------
(* One request's steps *)

LEMMA FindUserStep ==
    ASSUME QuotaInv, NEW r \in Requests, FindUser(r)
    PROVE  QuotaInv'
<1>1. /\ req[r].pc = "user" /\ mutex[req[r].proc] = None
      /\ UNCHANGED <<backend, dbVars, pro, scopeLock, conn, clientVars, day, everPro>>
      /\ \/ Goto(r, "plan") /\ mutex' = mutex
         \/ Goto(r, "inserting") /\ mutex' = [mutex EXCEPT ![req[r].proc] = r]
  BY DEF FindUser, At, Callable, boundVars
<1>2. /\ IdentityOk(r) /\ req[r].proc \in Processes /\ Typed /\ OtherTypes
      /\ mutex \in [Processes -> Requests \cup {None}] /\ r # None
      /\ \A p \in Processes : mutex[p] # r
  BY <1>1, QuotaAssumption DEF QuotaInv, TypeOK, Typed, OtherTypes, IdentityOk
<1>3. PICK label \in {"plan", "inserting"} :
         /\ Goto(r, label)
         /\ mutex' = IF label = "plan" THEN mutex ELSE [mutex EXCEPT ![req[r].proc] = r]
  BY <1>1
<1>4. Goes(r, label)
  BY <1>2, <1>3, GotoMoves DEF Labels
<1>5. Locking(r) /\ OtherTypes'
  BY <1>1, <1>2 DEF Locking, OtherTypes, dbVars, clientVars
<1>6. Holder(r)' /\ LockOk(r)'
  BY <1>1, <1>2, <1>3, <1>4 DEF Holder, LockOk, Goes
<1>7. IdentityOk(r)' /\ RoomOk(r)'
  BY <1>2, <1>1, <1>3, <1>4 DEF IdentityOk, RoomOk, Goes
<1>. QED  BY <1>1, <1>4, <1>5, <1>6, <1>7, RequestSteps DEF Goes, dbVars

LEMMA InsertUserStep ==
    ASSUME QuotaInv, NEW r \in Requests, InsertUser(r)
    PROVE  QuotaInv'
<1>1. /\ req[r].pc = "inserting" /\ mutex' = [mutex EXCEPT ![req[r].proc] = None]
      /\ UNCHANGED <<backend, events, known, pro, scopeLock, clientVars, day, everPro>>
  BY DEF InsertUser, At, boundVars
<1>2. /\ IdentityOk(r) /\ req[r].proc \in Processes /\ Typed /\ OtherTypes
      /\ mutex \in [Processes -> Requests \cup {None}] /\ r # None
      /\ mutex[req[r].proc] = r /\ req[r].user \in Users
      /\ \A p \in Processes : mutex[p] = r => req[r].proc = p
  BY <1>1, QuotaAssumption
     DEF QuotaInv, TypeOK, Typed, OtherTypes, IdentityOk, LockOk, RequestType
<1>3. Locking(r)
  BY <1>1, <1>2 DEF Locking
<1>4. OtherTypes'
  BY <1>1, <1>2 DEF InsertUser, OtherTypes, clientVars
<1>5. CASE End(r)
  BY <1>1, <1>2, <1>3, <1>4, <1>5, EndMoves, EndSteps
<1>6. CASE Goto(r, "plan")
  <2>1. Goes(r, "plan")
    BY <1>2, <1>6, GotoMoves DEF Labels
  <2>2. Holder(r)'
    BY <1>1, <1>2 DEF Holder
  <2>3. IdentityOk(r)' /\ LockOk(r)' /\ RoomOk(r)'
    BY <1>2, <1>1, <2>1 DEF IdentityOk, LockOk, RoomOk, Goes
  <2>. QED  BY <1>1, <1>3, <1>4, <2>1, <2>2, <2>3, RequestSteps DEF Goes
<1>. QED  BY <1>5, <1>6 DEF InsertUser

\* The limit that a plan has is at most the best one the user is entitled to.
LEMMA ReadPlanStep ==
    ASSUME QuotaInv, NEW r \in Requests, ReadPlan(r)
    PROVE  QuotaInv'
<1>1. /\ req[r].pc = "plan"
      /\ UNCHANGED <<backend, events, registered, known, pro, mutex, scopeLock, conn, cookie, session,
                     day, everPro>>
  BY DEF ReadPlan, At, dbVars, procVars, clientVars, boundVars
<1>2. /\ IdentityOk(r) /\ req[r].proc \in Processes /\ Typed /\ OtherTypes
      /\ \A p \in Processes : mutex[p] # r
  BY <1>1, QuotaAssumption DEF QuotaInv, TypeOK, Typed, OtherTypes, IdentityOk
<1>3. PICK label \in {"claiming", "counting"} : Goes(r, label)
  BY <1>2, PlanMoves
<1>4. req'[r].limit = IF req[r].user \in pro THEN ProLimit ELSE FreeLimit
  BY <1>2, PlanMoves
<1>5. Locking(r) /\ OtherTypes' /\ Holder(r)'
  BY <1>1, <1>2 DEF Locking, OtherTypes, Holder
<1>6. (req[r].limit <= LimitOf(req[r].user))'
  <2>1. req'[r].user = req[r].user /\ req[r].user # None /\ pro \subseteq everPro
    BY <1>1, <1>2, <1>3 DEF Goes, IdentityOk, QuotaInv
  <2>2. FreeLimit \in Nat /\ ProLimit \in Nat
    BY QuotaAssumption
  <2>. QED  BY <1>1, <1>4, <2>1, <2>2 DEF LimitOf, BestLimit
<1>7. IdentityOk(r)' /\ LockOk(r)' /\ RoomOk(r)'
  BY <1>1, <1>2, <1>3, <1>6 DEF IdentityOk, LockOk, RoomOk, Goes
<1>. QED  BY <1>1, <1>3, <1>5, <1>7, RequestSteps DEF Goes

LEMMA PublicQuotaStep ==
    ASSUME QuotaInv, NEW r \in Requests, public_quota(r) \/ CallRaises(r)
    PROVE  QuotaInv'
<1>1. /\ req[r].pc \in {"user", "plan", "claiming", "counting", "consuming"} /\ End(r)
      /\ UNCHANGED <<backend, events, registered, known, pro, mutex, scopeLock, session, day,
                     everPro>>
      /\ conn' = conn
  BY DEF public_quota, CallRaises, At, dbVars, procVars, clientVars, boundVars
<1>2. Typed /\ OtherTypes /\ req[r] \in RequestType
  BY DEF QuotaInv, TypeOK, Typed, OtherTypes
<1>3. cookie' \in [Browsers -> Visitors \cup {None}]
  BY <1>2 DEF public_quota, CallRaises, clientVars, _set_visitor_cookie, OtherTypes, RequestType
<1>4. Locking(r) /\ OtherTypes'
  BY <1>1, <1>2, <1>3 DEF Locking, OtherTypes
<1>. QED  BY <1>1, <1>2, <1>4, EndMoves, EndSteps

LEMMA CheckQuotaStep ==
    ASSUME QuotaInv, NEW r \in Requests, CheckQuota(r) \/ Analyze(r)
    PROVE  QuotaInv'
<1>1. /\ req[r].pc \in {"counting", "analyzing"}
      /\ UNCHANGED <<backend, events, registered, known, pro, mutex, scopeLock, conn, cookie, session,
                     day, everPro>>
      /\ End(r) \/ Goto(r, "analyzing") \/ Goto(r, "consuming")
  BY DEF CheckQuota, Analyze, At, dbVars, procVars, clientVars, boundVars
<1>2. /\ IdentityOk(r) /\ Typed /\ OtherTypes
      /\ \A p \in Processes : mutex[p] # r
  BY <1>1, QuotaAssumption DEF QuotaInv, TypeOK, Typed, OtherTypes, IdentityOk
<1>3. Locking(r) /\ OtherTypes' /\ Holder(r)'
  BY <1>1, <1>2 DEF Locking, OtherTypes, Holder
<1>4. CASE End(r)
  BY <1>1, <1>2, <1>3, <1>4, EndMoves, EndSteps
<1>5. ASSUME NEW label \in {"analyzing", "consuming"}, Goto(r, label) PROVE QuotaInv'
  <2>1. Goes(r, label) /\ req'[r].limit = req[r].limit
    BY <1>2, <1>5, GotoMoves DEF Labels
  <2>2. IdentityOk(r)' /\ LockOk(r)' /\ RoomOk(r)'
    BY <1>1, <1>2, <2>1 DEF IdentityOk, LockOk, RoomOk, Goes, LimitOf, BestLimit
  <2>. QED  BY <1>1, <1>3, <2>1, <2>2, RequestSteps DEF Goes
<1>. QED  BY <1>1, <1>4, <1>5

LEMMA BeginConsumeStep ==
    ASSUME QuotaInv, NEW r \in Requests, BeginConsume(r)
    PROVE  QuotaInv'
<1>1. /\ req[r].pc = "consuming" /\ backend = "postgres" /\ mutex[req[r].proc] = None
      /\ mutex' = [mutex EXCEPT ![req[r].proc] = r]
      /\ UNCHANGED <<backend, events, registered, known, pro, scopeLock, conn, cookie, session,
                     day, everPro>>
  BY DEF BeginConsume, At, Callable, dbVars, clientVars, boundVars
<1>2. /\ IdentityOk(r) /\ req[r].proc \in Processes /\ Typed /\ OtherTypes
      /\ mutex \in [Processes -> Requests \cup {None}] /\ r # None
      /\ \A p \in Processes : mutex[p] # r
      /\ day \in 0..MaxDay /\ MaxDay \in Nat
  BY <1>1, QuotaAssumption DEF QuotaInv, TypeOK, Typed, OtherTypes, IdentityOk
<1>3. Goes(r, "locking") /\ req'[r].limit = req[r].limit /\ req'[r].today = day
  BY <1>2, BeginMoves
<1>4. Locking(r) /\ OtherTypes'
  BY <1>1, <1>2 DEF Locking, OtherTypes
<1>5. Holder(r)' /\ LockOk(r)'
  BY <1>1, <1>2, <1>3 DEF Holder, LockOk, Goes
<1>6. IdentityOk(r)' /\ RoomOk(r)'
  BY <1>1, <1>2, <1>3 DEF IdentityOk, RoomOk, Goes, LimitOf, BestLimit
<1>. QED  BY <1>1, <1>3, <1>4, <1>5, <1>6, RequestSteps DEF Goes

\* The rows that an identity has made are among those that the count counts.
LEMMA OwnAreCounted ==
    ASSUME EventsInv, NEW v, NEW u, NEW since, u # None \/ v # None
    PROVE  /\ Cardinality(OwnRows(v, u, since)) <= _public_use_count(v, u, since)
           /\ Cardinality(OwnRows(v, u, since)) \in Nat
           /\ _public_use_count(v, u, since) \in Nat
<1>. DEFINE counted == {e \in events :
        /\ e.day >= since
        /\ (u # None /\ e.user = u) \/ (v # None /\ e.visitor = v /\ e.user = None)}
<1>1. OwnRows(v, u, since) \in SUBSET counted
  BY DEF OwnRows, OwnRow, EventsInv
<1>2. IsFiniteSet(counted)
  BY FS_Subset DEF EventsInv
<1>3. _public_use_count(v, u, since) = Cardinality(counted)
  BY DEF _public_use_count
<1>. HIDE DEF counted
<1>. QED  BY <1>1, <1>2, <1>3, FS_Subset, FS_CardinalityType

LEMMA CountStep ==
    ASSUME QuotaInv, NEW r \in Requests, CountUnderLock(r)
    PROVE  QuotaInv'
<1>1. /\ req[r].pc = "locking" /\ scopeLock[_quota_scope(r)] = None
      /\ UNCHANGED <<backend, events, registered, known, pro, conn, cookie, session, day, everPro>>
  BY DEF CountUnderLock, At, dbVars, clientVars, boundVars
<1>2. /\ IdentityOk(r) /\ LockOk(r) /\ req[r].proc \in Processes /\ Typed /\ OtherTypes
      /\ req[r] \in RequestType
      /\ mutex \in [Processes -> Requests \cup {None}] /\ r # None
      /\ mutex[req[r].proc] = r
      /\ \A p \in Processes : mutex[p] = r => req[r].proc = p
      /\ scopeLock \in [Scopes -> Processes \cup {None}]
  BY <1>1, QuotaAssumption DEF QuotaInv, TypeOK, Typed, OtherTypes, IdentityOk, LockOk
<1>3. OtherTypes'
  BY <1>1, <1>2 DEF OtherTypes
<1>4. CASE /\ mutex' = [mutex EXCEPT ![req[r].proc] = None] /\ End(r) /\ scopeLock' = scopeLock
  <2>1. Locking(r)
    BY <1>2, <1>4 DEF Locking
  <2>. QED  BY <1>1, <1>2, <1>3, <1>4, <2>1, EndMoves, EndSteps
<1>5. CASE /\ ~(_public_use_count(req[r].visitor, req[r].user, req[r].today) >= req[r].limit)
           /\ scopeLock' = [scopeLock EXCEPT ![_quota_scope(r)] = req[r].proc]
           /\ Goto(r, "recording") /\ mutex' = mutex
  <2>1. Goes(r, "recording") /\ req'[r].limit = req[r].limit /\ req'[r].today = req[r].today
    BY <1>2, <1>5, GotoMoves DEF Labels
  <2>2. Locking(r)
    BY <1>1, <1>2, <1>5 DEF Locking
  <2>3. _quota_scope(r) \in Scopes /\ _quota_scope(r)' = _quota_scope(r)
    BY <1>1, <1>2, <2>1, ScopeOfRequest DEF _quota_scope, Goes
  <2>4. Holder(r)' /\ LockOk(r)'
    BY <1>1, <1>2, <1>5, <2>1, <2>3 DEF Holder, LockOk, Goes
  <2>5. IdentityOk(r)'
    BY <1>1, <1>2, <2>1 DEF IdentityOk, Goes, LimitOf, BestLimit
  <2>6. Cardinality(OwnRows(req[r].visitor, req[r].user, req[r].today)) < req[r].limit
    <3>1. req[r].user # None \/ req[r].visitor # None
      BY <1>1, <1>2 DEF IdentityOk
    <3>2. req[r].limit \in Nat
      BY <1>2, QuotaAssumption DEF RequestType
    <3>. HIDE DEF QuotaInv
    <3>3. EventsInv
      BY DEF QuotaInv
    <3>. QED  BY <1>5, <3>1, <3>2, <3>3, OwnAreCounted
  <2>7. RoomOk(r)'
    BY <1>1, <2>1, <2>6 DEF RoomOk, Goes, OwnRows, OwnRow
  <2>. QED  BY <1>1, <1>3, <2>1, <2>2, <2>4, <2>5, <2>7, RequestSteps DEF Goes
<1>. QED  BY <1>4, <1>5 DEF CountUnderLock

LEMMA InsertRaisesStep ==
    ASSUME QuotaInv, NEW r \in Requests, InsertRaises(r)
    PROVE  QuotaInv'
<1>1. /\ req[r].pc = "recording" /\ End(r)
      /\ scopeLock' = [scopeLock EXCEPT ![_quota_scope(r)] = None]
      /\ UNCHANGED <<backend, events, registered, known, pro, cookie, session, day, everPro>>
      /\ conn' = [conn EXCEPT ![req[r].proc] = "aborted"]
      /\ mutex' = [mutex EXCEPT ![req[r].proc] = None]
  BY DEF InsertRaises, At, dbVars, clientVars
<1>2. Typed /\ OtherTypes /\ mutex[req[r].proc] = r
  BY <1>1 DEF QuotaInv, TypeOK, Typed, OtherTypes, LockOk
<1>3. Locking(r) /\ OtherTypes'
  BY <1>1, <1>2 DEF Locking, OtherTypes
<1>. QED  BY <1>1, <1>2, <1>3, EndMoves, EndSteps

\* A request that arrives has the anonymous limit until its user's plan is read.
LEMMA ArriveSteps ==
    ASSUME QuotaInv, NEW r \in Requests, NEW b \in Browsers, NEW p \in Processes,
           CanArrive(r, b, p), NEW kind \in {"analyze", "quota", "sync"},
           NEW v \in Visitors \cup {None}, v # None \/ session[b] # None,
           req' = [req EXCEPT ![r] = NewRequest(b, p, kind, v)], known' \in SUBSET Visitors
    PROVE  QuotaInv'
<1>1. /\ req[r].pc = "idle" /\ session[b] # "expired"
      /\ UNCHANGED <<backend, events, registered, pro, mutex, scopeLock, conn, cookie, session,
                     day, everPro>>
  BY DEF CanArrive, At, verify_supabase_token, procVars, clientVars
<1>2. /\ Typed /\ OtherTypes /\ session[b] \in Users \cup {None}
      /\ \A q \in Processes : mutex[q] # r
  BY <1>1, QuotaAssumption DEF QuotaInv, TypeOK, Typed, OtherTypes
<1>3. PICK q \in RequestType :
         /\ q = NewRequest(b, p, kind, v)
         /\ q.proc = p /\ q.visitor = v /\ q.user = session[b] /\ q.limit = AnonLimit
         /\ q.pc = IF session[b] = None THEN "counting" ELSE "user"
  BY <1>2, NewTyped
<1>4. Typed' /\ req'[r] = q /\ \A k \in Requests : k # r => req'[k] = req[k]
  BY <1>2, <1>3, ReplaceRequest
<1>5. Locking(r) /\ OtherTypes' /\ Holder(r)'
  BY <1>1, <1>2 DEF Locking, OtherTypes, Holder
<1>6. IdentityOk(r)' /\ LockOk(r)' /\ RoomOk(r)'
  BY <1>3, <1>4, QuotaAssumption DEF IdentityOk, LockOk, RoomOk, LimitOf
<1>. QED  BY <1>1, <1>4, <1>5, <1>6, RequestSteps

LEMMA IdentityStep ==
    ASSUME QuotaInv, NEW r \in Requests, NEW b \in Browsers, NEW p \in Processes,
           \/ \E kind \in {"analyze", "quota"} : _identity_context(r, b, p, kind)
           \/ ArriveSync(r, b, p)
    PROVE  QuotaInv'
<1>1. /\ CanArrive(r, b, p)
      /\ cookie[b] \in Visitors \cup {None} /\ known \subseteq Visitors /\ None \notin Visitors
  BY QuotaAssumption DEF _identity_context, ArriveSync, QuotaInv, TypeOK
<1>2. ASSUME NEW kind \in {"analyze", "quota"}, _identity_context(r, b, p, kind) PROVE QuotaInv'
  <2>1. PICK v \in _resolve_visitor(b) :
           known' = known \cup {v} /\ req' = [req EXCEPT ![r] = NewRequest(b, p, kind, v)]
    BY <1>2 DEF _identity_context, get_or_create_visitor
  <2>2. v \in Visitors
    BY <1>1 DEF _resolve_visitor
  <2>. QED  BY <1>1, <2>1, <2>2, ArriveSteps
<1>3. CASE ArriveSync(r, b, p)
  <2>1. /\ session[b] # None /\ known' = known
        /\ req' = [req EXCEPT ![r] = NewRequest(b, p, "sync", cookie[b])]
    BY <1>3 DEF ArriveSync
  <2>. QED  BY <1>1, <2>1, ArriveSteps
<1>. QED  BY <1>2, <1>3

-----------------------------------------------------------------------------
(* The rows *)

\* A use is recorded while there is room for it and nobody else is about to record one of
\* the same identity.
LEMMA InsertSteps ==
    ASSUME QuotaInv, NEW r \in Requests, req[r].pc \in {"consuming", "recording"},
           Ends(r), Locking(r), Answered(r), NEW since \in Nat, since <= day,
           Cardinality(OwnRows(req[r].visitor, req[r].user, since)) < req[r].limit,
           \A k \in Requests : k # r /\ req[k].pc = "recording" =>
              _quota_scope(k) # _quota_scope(r),
           \/ mutex' = [mutex EXCEPT ![req[r].proc] = None]
           \/ mutex' = mutex /\ req[r].pc = "consuming",
           UNCHANGED <<backend, registered, known, pro, conn, session, day, everPro>>
    PROVE  QuotaInv'
<1>. DEFINE row == Row(r)
<1>1. /\ TypeOK /\ EventsInv /\ UsedInv /\ IdentityOk(r)
      /\ req[r].pc # "idle" /\ req[r] \in RequestType /\ Typed
      /\ day \in Nat /\ day \in 0..MaxDay /\ MaxDay \in Nat /\ events \in SUBSET RowType
      /\ mutex \in [Processes -> Requests \cup {None}] /\ r # None
      /\ \A p \in Processes : mutex[p] = r =>
            req[r].proc = p /\ req[r].pc \in {"inserting", "locking", "recording"}
  BY QuotaAssumption DEF QuotaInv, TypeOK, RowType, Typed
<1>2. Cardinality(events) \in Nat /\ IsFiniteSet(events)
  BY <1>1, FS_CardinalityType DEF EventsInv
<1>3. /\ row \in RowType /\ row.id = Cardinality(events) + 1 /\ row.visitor = req[r].visitor
      /\ row.user = req[r].user /\ row.day = day /\ row.madeBy = req[r].user
  BY <1>1, <1>2 DEF Row, RowType, RequestType
<1>4. events' = events \cup {row}
  BY DEF Answered
<1>. HIDE DEF row
<1>5. EventsInv'
  <2>1. row \notin events
    BY <1>1, <1>2, <1>3 DEF EventsInv
  <2>2. IsFiniteSet(events') /\ Cardinality(events') = Cardinality(events) + 1
    BY <1>2, <1>4, <2>1, FS_AddElement
  <2>3. \A e \in events' : e.id <= Cardinality(events')
    BY <1>1, <1>2, <1>3, <1>4, <2>2 DEF EventsInv, RowType
  <2>4. \A e, f \in events' : e.id = f.id => e = f
    BY <1>1, <1>2, <1>3, <1>4 DEF EventsInv, RowType
  <2>5. \A e \in events' : e.madeBy # None => e.user = e.madeBy
    BY <1>1, <1>3, <1>4 DEF EventsInv
  <2>. QED  BY <2>2, <2>3, <2>4, <2>5 DEF EventsInv
<1>6. UsedInv'
  <2>. SUFFICES ASSUME NEW v \in Visitors \cup {None}, NEW u \in Users \cup {None}, NEW d \in Nat,
                       u # None \/ v # None
                PROVE  Cardinality(RowsOn(v, u, d))' <= LimitOf(u)'
    BY DEF UsedInv
  <2>1. LimitOf(u)' = LimitOf(u) /\ LimitOf(u) \in Nat
    BY QuotaAssumption DEF LimitOf, BestLimit
  <2>2. Cardinality(RowsOn(v, u, d)) <= LimitOf(u) /\ IsFiniteSet(RowsOn(v, u, d))
    BY <1>1, <1>2, FS_Subset DEF UsedInv, RowsOn
  <2>3. CASE d = day /\ OwnRow(row, v, u)
    <3>1. u = req[r].user /\ (u = None => v = req[r].visitor)
      BY <1>3, <2>3 DEF OwnRow
    <3>2. RowsOn(v, u, d)' = RowsOn(v, u, d) \cup {row}
      BY <1>3, <1>4, <2>3 DEF RowsOn, OwnRow
    <3>3. RowsOn(v, u, d) \in SUBSET OwnRows(req[r].visitor, req[r].user, since)
      BY <1>1, <2>3, <3>1 DEF RowsOn, OwnRows, OwnRow
    <3>4. IsFiniteSet(OwnRows(req[r].visitor, req[r].user, since))
      BY <1>2, FS_Subset DEF OwnRows
    <3>5. /\ Cardinality(RowsOn(v, u, d)) <= Cardinality(OwnRows(req[r].visitor, req[r].user, since))
          /\ Cardinality(RowsOn(v, u, d)) \in Nat
          /\ Cardinality(OwnRows(req[r].visitor, req[r].user, since)) \in Nat
      BY <2>2, <3>3, <3>4, FS_Subset, FS_CardinalityType
    <3>6. Cardinality(RowsOn(v, u, d) \cup {row}) <= Cardinality(RowsOn(v, u, d)) + 1
      <4>1. Cardinality(RowsOn(v, u, d) \cup {row}) =
               IF row \in RowsOn(v, u, d) THEN Cardinality(RowsOn(v, u, d))
                                          ELSE Cardinality(RowsOn(v, u, d)) + 1
        BY <2>2, FS_AddElement, Zenon
      <4>. QED  BY <3>5, <4>1
    <3>7. Cardinality(RowsOn(v, u, d) \cup {row}) \in Nat
      BY <2>2, FS_AddElement, FS_CardinalityType
    <3>8. req[r].limit <= LimitOf(u) /\ req[r].limit \in Nat
      BY <1>1, <3>1, QuotaAssumption DEF IdentityOk, RequestType
    <3>. QED  BY <2>1, <3>2, <3>5, <3>6, <3>7, <3>8
  <2>4. CASE ~(d = day /\ OwnRow(row, v, u))
    <3>1. RowsOn(v, u, d)' = RowsOn(v, u, d)
      BY <1>3, <1>4, <2>4 DEF RowsOn, OwnRow
    <3>. QED  BY <2>1, <2>2, <3>1
  <2>. QED  BY <2>3, <2>4
<1>7. ASSUME NEW k \in Requests, k # r PROVE IdentityOk(k)' /\ LockOk(k)' /\ RoomOk(k)'
  <2>1. req'[k] = req[k]
    BY <1>7 DEF Ends
  <2>2. IdentityOk(k)' /\ LockOk(k)'
    BY <1>7, <2>1, OthersKept
  <2>3. RoomOk(k)'
    <3>. SUFFICES ASSUME req[k].pc = "recording"
                  PROVE  Cardinality(OwnRows(req[k].visitor, req[k].user, req[k].today))' < req[k].limit
      BY <2>1 DEF RoomOk
    <3>1. ~OwnRow(row, req[k].visitor, req[k].user)
      BY <1>3, <1>7 DEF OwnRow, _quota_scope
    <3>2. OwnRows(req[k].visitor, req[k].user, req[k].today)'
             = OwnRows(req[k].visitor, req[k].user, req[k].today)
      BY <1>4, <2>1, <3>1 DEF OwnRows, OwnRow
    <3>. QED  BY <3>2 DEF QuotaInv, RoomOk
  <2>. QED  BY <2>2, <2>3
<1>8. IdentityOk(r)' /\ LockOk(r)' /\ RoomOk(r)'
  BY DEF Ends, IdentityOk, LockOk, RoomOk
<1>9. TypeOK'
  <2>1. Holder(r)'
    BY <1>1 DEF Holder
  <2>2. OtherTypes'
    BY <1>1 DEF TypeOK, OtherTypes, Answered, _set_visitor_cookie, RequestType
  <2>3. events' \in SUBSET RowType
    BY <1>1, <1>3, <1>4
  <2>. QED  BY <1>1, <2>1, <2>2, <2>3, TypeSteps DEF Ends
<1>. QED  BY <1>5, <1>6, <1>7, <1>8, <1>9 DEF QuotaInv

LEMMA ConsumeSqliteStep ==
    ASSUME QuotaInv, NEW r \in Requests, ConsumeSqlite(r)
    PROVE  QuotaInv'
<1>1. /\ req[r].pc = "consuming" /\ backend = "sqlite" /\ End(r)
      /\ UNCHANGED <<backend, registered, known, pro, scopeLock, conn, mutex, session, day, everPro>>
  BY DEF ConsumeSqlite, At, procVars, boundVars
<1>2. /\ Typed /\ OtherTypes /\ IdentityOk(r) /\ EventsInv /\ day \in Nat
      /\ req[r] \in RequestType
  BY <1>1, QuotaAssumption DEF QuotaInv, TypeOK, Typed, OtherTypes
<1>3. Ends(r) /\ Locking(r)
  BY <1>1, <1>2, EndMoves DEF Locking
<1>4. CASE UNCHANGED <<events, cookie>>
  <2>1. OtherTypes'
    BY <1>1, <1>2, <1>4 DEF OtherTypes
  <2>. QED  BY <1>1, <1>3, <1>4, <2>1, EndSteps
<1>5. CASE ~(_public_use_count(req[r].visitor, req[r].user, day) >= req[r].limit) /\ Answered(r)
  <2>1. Cardinality(OwnRows(req[r].visitor, req[r].user, day)) < req[r].limit
    <3>1. req[r].user # None \/ req[r].visitor # None
      BY <1>1, <1>2 DEF IdentityOk
    <3>2. req[r].limit \in Nat
      BY <1>2, QuotaAssumption DEF RequestType
    <3>. QED  BY <1>2, <1>5, <3>1, <3>2, OwnAreCounted
  <2>2. \A k \in Requests : req[k].pc # "recording"
    BY <1>1 DEF QuotaInv, LockOk
  <2>. QED  BY <1>1, <1>2, <1>3, <1>5, <2>1, <2>2, InsertSteps
<1>. QED  BY <1>4, <1>5 DEF ConsumeSqlite

LEMMA CommitStep ==
    ASSUME QuotaInv, NEW r \in Requests, InsertAndCommit(r)
    PROVE  QuotaInv'
<1>1. /\ req[r].pc = "recording" /\ End(r) /\ Answered(r)
      /\ mutex' = [mutex EXCEPT ![req[r].proc] = None]
      /\ scopeLock' = [scopeLock EXCEPT ![_quota_scope(r)] = None]
      /\ UNCHANGED <<backend, registered, known, pro, conn, session, day, everPro>>
  BY DEF InsertAndCommit, At, boundVars
<1>2. /\ Typed /\ LockOk(r) /\ RoomOk(r) /\ req[r].today \in Nat
  BY <1>1, QuotaAssumption DEF QuotaInv, TypeOK, Typed, RequestType
<1>3. mutex[req[r].proc] = r /\ req[r].today <= day
      /\ Cardinality(OwnRows(req[r].visitor, req[r].user, req[r].today)) < req[r].limit
  BY <1>1, <1>2 DEF LockOk, RoomOk
<1>4. Ends(r) /\ Locking(r)
  BY <1>1, <1>2, <1>3, EndMoves DEF Locking
<1>5. \A k \in Requests : k # r /\ req[k].pc = "recording" => _quota_scope(k) # _quota_scope(r)
  BY <1>1, OneRecorder
<1>. QED  BY <1>1, <1>2, <1>3, <1>4, <1>5, InsertSteps

\* The row that a row becomes.
Claimed(e, v, u) == IF v # None /\ e.visitor = v /\ e.user = None THEN [e EXCEPT !.user = u] ELSE e

LEMMA ClaimedRow ==
    ASSUME NEW e \in RowType, NEW v, NEW u \in Users
    PROVE  LET g == Claimed(e, v, u)
           IN  /\ g \in RowType
               /\ g.id = e.id /\ g.visitor = e.visitor /\ g.day = e.day /\ g.madeBy = e.madeBy
               /\ g = e \/ (e.user = None /\ g.user = u)
  BY DEF Claimed, RowType

\* Claiming changes the user of some rows and nothing else: there are as many rows as
\* before, and nobody has more of their own.
LEMMA ClaimRows ==
    ASSUME EventsInv, events \in SUBSET RowType, NEW v, NEW u \in Users,
           events' = claim_visitor_events(v, u)
    PROVE  /\ EventsInv' /\ events' \in SUBSET RowType
           /\ \A w \in Visitors \cup {None}, x \in Users \cup {None}, s \in Nat :
                 /\ OwnRows(w, x, s)' \in SUBSET OwnRows(w, x, s)
                 /\ RowsOn(w, x, s)' \in SUBSET RowsOn(w, x, s)
<1>. DEFINE claimed(e) == Claimed(e, v, u)
            f == [e \in events |-> claimed(e)]
<1>1. u # None
  BY QuotaAssumption
<1>2. ASSUME NEW e \in events
      PROVE  /\ claimed(e) \in RowType
             /\ claimed(e).id = e.id /\ claimed(e).visitor = e.visitor
             /\ claimed(e).day = e.day /\ claimed(e).madeBy = e.madeBy
             /\ claimed(e) = e \/ (e.user = None /\ claimed(e).user = u)
  BY ClaimedRow
<1>3. events' = {claimed(e) : e \in events}
  BY DEF claim_visitor_events, Claimed
<1>. HIDE DEF claimed
<1>4. f \in Surjection(events, events')
  BY <1>3 DEF Surjection
<1>5. \A e, d \in events : f[e] = f[d] => e = d
  BY <1>2 DEF EventsInv
<1>6. f \in Injection(events, events')
  BY <1>4, <1>5 DEF Injection, Surjection, IsInjective
<1>7. IsFiniteSet(events') /\ Cardinality(events') = Cardinality(events)
  <2>1. IsFiniteSet(events)
    BY DEF EventsInv
  <2>. HIDE DEF f
  <2>. QED  BY <1>4, <1>6, <2>1, FS_Surjection
<1>8. ASSUME NEW g \in events'
      PROVE  \E e \in events : /\ g = claimed(e) /\ g.id = e.id /\ g.visitor = e.visitor
                               /\ g.day = e.day /\ g.madeBy = e.madeBy
                               /\ g = e \/ (e.user = None /\ g.user = u)
  BY <1>2, <1>3
<1>9. EventsInv'
  <2>1. \A g \in events' : g.id <= Cardinality(events')
    BY <1>7, <1>8 DEF EventsInv
  <2>2. \A g, h \in events' : g.id = h.id => g = h
    BY <1>8 DEF EventsInv
  <2>3. \A g \in events' : g.madeBy # None => g.user = g.madeBy
    BY <1>8 DEF EventsInv
  <2>. QED  BY <1>7, <2>1, <2>2, <2>3 DEF EventsInv
<1>10. events' \in SUBSET RowType
  BY <1>2, <1>3
<1>11. ASSUME NEW w, NEW x, NEW g \in events', OwnRow(g, w, x)
       PROVE  g \in events
  BY <1>1, <1>8, <1>11 DEF OwnRow, EventsInv
<1>12. ASSUME NEW w, NEW x, NEW s
       PROVE  /\ OwnRows(w, x, s)' \in SUBSET OwnRows(w, x, s)
              /\ RowsOn(w, x, s)' \in SUBSET RowsOn(w, x, s)
  BY <1>11 DEF OwnRows, RowsOn, OwnRow
<1>. QED  BY <1>9, <1>10, <1>12

\* The rows that count for a user and a visitor are as many after a claim, unless somebody
\* else has claimed one of the visitor's.
LEMMA ClaimKeepsCount ==
    ASSUME EventsInv, EventsInv', events \in SUBSET RowType, NEW w, NEW x \in Users,
           events' = claim_visitor_events(w, x), NEW v, NEW u \in Users, NEW since,
           \A e \in events' \ events : ~(e.visitor = v /\ e.user \notin {u, None})
    PROVE  _public_use_count(v, u, since)' >= _public_use_count(v, u, since)
<1>. DEFINE Counts(e) == /\ e.day >= since
                         /\ (u # None /\ e.user = u) \/ (v # None /\ e.visitor = v /\ e.user = None)
            before == {e \in events : Counts(e)}
            after == {e \in events' : Counts(e)}
            f == [e \in before |-> Claimed(e, w, x)]
<1>1. events' = {Claimed(e, w, x) : e \in events} /\ u # None /\ x # None
  BY QuotaAssumption DEF claim_visitor_events, Claimed
<1>2. ASSUME NEW e \in before PROVE Claimed(e, w, x) \in after /\ Claimed(e, w, x).id = e.id
  <2>. DEFINE g == Claimed(e, w, x)
  <2>1. /\ g \in events'
        /\ g.id = e.id /\ g.visitor = e.visitor /\ g.day = e.day
        /\ g = e \/ (e.user = None /\ g.user = x)
    BY <1>1, ClaimedRow
  <2>. HIDE DEF g
  <2>2. CASE g = e
    BY <2>1, <2>2 DEF g
  <2>3. CASE g # e
    <3>1. e.user = None /\ g.user = x /\ e.visitor = v /\ v # None
      BY <1>1, <2>1, <2>3
    <3>2. g \notin events
      BY <2>1, <2>3 DEF EventsInv
    <3>3. x = u
      BY <1>1, <2>1, <3>1, <3>2
    <3>4. Counts(g)
      BY <1>1, <2>1, <3>1, <3>3
    <3>. QED  BY <2>1, <3>4 DEF g
  <2>. QED  BY <2>2, <2>3 DEF g
<1>3. \A e, d \in before : f[e] = f[d] => e = d
  BY <1>2 DEF EventsInv
<1>4. IsFiniteSet(before) /\ IsFiniteSet(after)
  BY FS_Subset DEF EventsInv
<1>5. f \in Injection(before, after)
  <2>1. f \in [before -> after]
    BY <1>2
  <2>. HIDE DEF f, before, after
  <2>. QED  BY <1>3, <2>1 DEF Injection, IsInjective
<1>6. _public_use_count(v, u, since) = Cardinality(before)
      /\ _public_use_count(v, u, since)' = Cardinality(after)
  BY DEF _public_use_count
<1>. HIDE DEF before, after, f
<1>. QED  BY <1>4, <1>5, <1>6, FS_Injection, FS_CardinalityType

\* auth_sync: a claim takes nothing from what others may still use.
LEMMA SyncStep ==
    ASSUME QuotaInv, NEW r \in Requests, auth_sync(r)
    PROVE  QuotaInv'
<1>1. /\ req[r].pc = "claiming" /\ End(r)
      /\ events' = claim_visitor_events(req[r].visitor, req[r].user)
      /\ UNCHANGED <<backend, registered, known, pro, scopeLock, conn, mutex, cookie, session, day,
                     everPro>>
  BY DEF auth_sync, At, procVars, clientVars, boundVars
<1>2. /\ TypeOK /\ EventsInv /\ UsedInv /\ Typed /\ OtherTypes /\ IdentityOk(r)
      /\ req[r] \in RequestType /\ events \in SUBSET RowType
      /\ \A p \in Processes : mutex[p] # r
  BY <1>1, QuotaAssumption DEF QuotaInv, TypeOK, Typed, OtherTypes, RowType
<1>3. req[r].user \in Users
  BY <1>1, <1>2 DEF IdentityOk, RequestType
<1>4. /\ EventsInv' /\ events' \in SUBSET RowType
      /\ \A w \in Visitors \cup {None}, x \in Users \cup {None}, s \in Nat :
            /\ OwnRows(w, x, s)' \in SUBSET OwnRows(w, x, s)
            /\ RowsOn(w, x, s)' \in SUBSET RowsOn(w, x, s)
  BY <1>1, <1>2, <1>3, ClaimRows
<1>5. ASSUME NEW w \in Visitors \cup {None}, NEW x \in Users \cup {None}, NEW s \in Nat
      PROVE  /\ Cardinality(OwnRows(w, x, s))' \in Nat
             /\ Cardinality(OwnRows(w, x, s))' <= Cardinality(OwnRows(w, x, s))
             /\ Cardinality(OwnRows(w, x, s)) \in Nat
             /\ Cardinality(RowsOn(w, x, s))' \in Nat
             /\ Cardinality(RowsOn(w, x, s))' <= Cardinality(RowsOn(w, x, s))
             /\ Cardinality(RowsOn(w, x, s)) \in Nat
  <2>1. IsFiniteSet(OwnRows(w, x, s)) /\ IsFiniteSet(RowsOn(w, x, s))
    BY <1>2, FS_Subset DEF EventsInv, OwnRows, RowsOn
  <2>. QED  BY <1>4, <2>1, FS_Subset, FS_CardinalityType
<1>6. Ends(r) /\ Locking(r)
  BY <1>1, <1>2, EndMoves DEF Locking
<1>7. UsedInv'
  <2>. SUFFICES ASSUME NEW v \in Visitors \cup {None}, NEW u \in Users \cup {None}, NEW d \in Nat,
                       u # None \/ v # None
                PROVE  Cardinality(RowsOn(v, u, d))' <= LimitOf(u)'
    BY DEF UsedInv
  <2>1. LimitOf(u)' = LimitOf(u) /\ LimitOf(u) \in Nat
    BY <1>1, QuotaAssumption DEF LimitOf, BestLimit
  <2>2. Cardinality(RowsOn(v, u, d)) <= LimitOf(u)
    BY <1>2 DEF UsedInv
  <2>. QED  BY <1>5, <2>1, <2>2
<1>8. ASSUME NEW k \in Requests, k # r PROVE IdentityOk(k)' /\ LockOk(k)' /\ RoomOk(k)'
  <2>1. req'[k] = req[k] /\ req[k] \in RequestType /\ RoomOk(k)
    BY <1>2, <1>6, <1>8 DEF Ends, QuotaInv, Typed
  <2>2. IdentityOk(k)' /\ LockOk(k)'
    BY <1>1, <1>6, <1>8, <2>1, OthersKept
  <2>3. RoomOk(k)'
    <3>. SUFFICES ASSUME req[k].pc = "recording"
                  PROVE  Cardinality(OwnRows(req[k].visitor, req[k].user, req[k].today))' < req[k].limit
      BY <2>1 DEF RoomOk
    <3>1. PICK w \in Visitors \cup {None}, x \in Users \cup {None}, s \in Nat :
             w = req[k].visitor /\ x = req[k].user /\ s = req[k].today
      BY <2>1, QuotaAssumption DEF RequestType
    <3>2. Cardinality(OwnRows(w, x, s)) < req[k].limit /\ req[k].limit \in Nat
      BY <2>1, <3>1, QuotaAssumption DEF RoomOk, RequestType
    <3>3. /\ Cardinality(OwnRows(w, x, s))' \in Nat /\ Cardinality(OwnRows(w, x, s)) \in Nat
          /\ Cardinality(OwnRows(w, x, s))' <= Cardinality(OwnRows(w, x, s))
      BY <1>5, Zenon
    <3>4. Cardinality(OwnRows(w, x, s))' < req[k].limit
      BY <3>2, <3>3
    <3>. QED  BY <2>1, <3>1, <3>4 DEF OwnRows, OwnRow
  <2>. QED  BY <2>2, <2>3
<1>9. IdentityOk(r)' /\ LockOk(r)' /\ RoomOk(r)'
  BY <1>6 DEF Ends, IdentityOk, LockOk, RoomOk
<1>10. TypeOK'
  <2>1. Holder(r)' /\ OtherTypes'
    BY <1>1, <1>2 DEF Holder, OtherTypes
  <2>. QED  BY <1>1, <1>2, <1>4, <1>6, <2>1, TypeSteps DEF Ends
<1>11. pro' \subseteq everPro'
  BY <1>1 DEF QuotaInv
<1>. QED  BY <1>4, <1>7, <1>8, <1>9, <1>10, <1>11 DEF QuotaInv

\* A process that dies takes its requests and its locks with it, and no others.
LEMMA CrashStep ==
    ASSUME QuotaInv, NEW p \in Processes, Crash(p)
    PROVE  QuotaInv'
<1>1. /\ req' = [r \in Requests |-> IF req[r].proc = p THEN Idle ELSE req[r]]
      /\ mutex' = [mutex EXCEPT ![p] = None]
      /\ conn' = [conn EXCEPT ![p] = "ok"]
      /\ scopeLock' = [s \in Scopes |-> IF scopeLock[s] = p THEN None ELSE scopeLock[s]]
      /\ UNCHANGED <<backend, events, registered, known, pro, cookie, session, day, everPro>>
  BY DEF Crash, dbVars, clientVars
<1>2. TypeOK /\ Typed /\ mutex \in [Processes -> Requests \cup {None}]
      /\ scopeLock \in [Scopes -> Processes \cup {None}] /\ conn \in [Processes -> {"ok", "aborted"}]
  BY DEF QuotaInv, TypeOK, Typed
<1>3. ASSUME NEW r \in Requests
      PROVE  IF req[r].proc = p THEN req'[r] = Idle /\ Idle \in RequestType /\ Idle.pc = "idle"
                                ELSE req'[r] = req[r] /\ req[r] \in RequestType
  BY <1>1, <1>2, IdleTyped DEF Typed
<1>4. Typed'
  BY <1>1, <1>3 DEF Typed
<1>5. ASSUME NEW q \in Processes, mutex'[q] # None
      PROVE  /\ req'[mutex'[q]].proc = q
             /\ req'[mutex'[q]].pc \in {"inserting", "locking", "recording"}
  <2>1. q # p /\ mutex'[q] = mutex[q] /\ mutex[q] \in Requests
    BY <1>1, <1>2, <1>5
  <2>2. req[mutex[q]].proc = q /\ req[mutex[q]].pc \in {"inserting", "locking", "recording"}
    BY <1>2, <1>5, <2>1 DEF TypeOK
  <2>. QED  BY <1>3, <2>1, <2>2
<1>6. /\ mutex' \in [Processes -> Requests \cup {None}]
      /\ scopeLock' \in [Scopes -> Processes \cup {None}]
      /\ conn' \in [Processes -> {"ok", "aborted"}]
  BY <1>1, <1>2
<1>7. TypeOK'
  BY <1>1, <1>2, <1>4, <1>5, <1>6, Zenon DEF TypeOK, Typed
<1>8. ASSUME NEW r \in Requests PROVE IdentityOk(r)' /\ LockOk(r)' /\ RoomOk(r)'
  <2>1. CASE req[r].proc = p
    BY <1>3, <2>1 DEF IdentityOk, LockOk, RoomOk
  <2>2. CASE req[r].proc # p
    <3>1. IdentityOk(r) /\ LockOk(r) /\ RoomOk(r) /\ req'[r] = req[r]
      BY <1>3, <2>2 DEF QuotaInv
    <3>2. IdentityOk(r)' /\ RoomOk(r)'
      BY <1>1, <3>1 DEF IdentityOk, RoomOk, LimitOf, BestLimit, OwnRows, OwnRow
    <3>3. req[r].pc \in {"inserting", "locking", "recording"} => mutex'[req[r].proc] = r
      BY <1>1, <1>2, <2>2, <3>1 DEF LockOk, IdentityOk
    <3>4. req[r].pc = "recording" => scopeLock'[_quota_scope(r)] = req[r].proc
      BY <1>1, <1>2, <2>2, <3>1, ScopeOfRequest DEF LockOk
    <3>5. LockOk(r)'
      BY <1>1, <3>1, <3>3, <3>4 DEF LockOk, _quota_scope
    <3>. QED  BY <3>2, <3>5
  <2>. QED  BY <2>1, <2>2
<1>9. EventsInv' /\ UsedInv' /\ pro' \subseteq everPro'
  <2>1. EventsInv' /\ pro' \subseteq everPro'
    BY <1>1 DEF QuotaInv, EventsInv
  <2>2. UsedInv'
    BY <1>1 DEF QuotaInv, UsedInv, RowsOn, OwnRow, LimitOf, BestLimit
  <2>. QED  BY <2>1, <2>2
<1>. QED  BY <1>7, <1>8, <1>9 DEF QuotaInv

\* Sessions, plans and days change under the requests: a limit only ever grows, and so
\* does the day that a row is dated.
LEMMA EnvironmentStep ==
    ASSUME QuotaInv, UNCHANGED <<backend, events, registered, known, req, scopeLock, mutex, conn, cookie>>,
           session' \in [Browsers -> Users \cup {None, "expired"}],
           day' \in 0..MaxDay, day <= day',
           everPro \subseteq everPro', pro' \subseteq everPro', pro' \subseteq Users
    PROVE  QuotaInv'
<1>1. TypeOK'
  <2>1. TypeOK
    BY DEF QuotaInv
  <2>. QED  BY <2>1, Zenon DEF TypeOK
<1>2. ASSUME NEW u PROVE LimitOf(u) <= LimitOf(u)' /\ LimitOf(u) \in Nat /\ LimitOf(u)' \in Nat
  BY QuotaAssumption DEF LimitOf, BestLimit
<1>3. ASSUME NEW r \in Requests PROVE IdentityOk(r)' /\ LockOk(r)' /\ RoomOk(r)'
  <2>1. IdentityOk(r) /\ LockOk(r) /\ RoomOk(r) /\ req[r] \in RequestType
    BY DEF QuotaInv, TypeOK
  <2>2. req[r].limit \in Nat /\ req[r].today \in Nat /\ day \in Nat /\ day' \in Nat
    BY <2>1, QuotaAssumption DEF QuotaInv, TypeOK, RequestType
  <2>3. req[r].limit <= LimitOf(req[r].user) => (req[r].limit <= LimitOf(req[r].user))'
    <3>1. PICK u : u = req[r].user
      OBVIOUS
    <3>2. req[r].limit <= LimitOf(u) => req[r].limit <= LimitOf(u)'
      BY <1>2, <2>2
    <3>. QED  BY <3>1, <3>2 DEF LimitOf, BestLimit
  <2>4. IdentityOk(r)'
    BY <2>1, <2>3 DEF IdentityOk
  <2>5. LockOk(r)'
    BY <2>1, <2>2 DEF LockOk, _quota_scope
  <2>6. RoomOk(r)'
    BY <2>1 DEF RoomOk, OwnRows, OwnRow
  <2>. QED  BY <2>4, <2>5, <2>6
<1>4. EventsInv'
  BY DEF QuotaInv, EventsInv
<1>5. UsedInv'
  <2>. SUFFICES ASSUME NEW v \in Visitors \cup {None}, NEW u \in Users \cup {None}, NEW d \in Nat,
                       u # None \/ v # None
                PROVE  Cardinality(RowsOn(v, u, d))' <= LimitOf(u)'
    BY DEF UsedInv
  <2>1. Cardinality(RowsOn(v, u, d)) <= LimitOf(u) /\ Cardinality(RowsOn(v, u, d)) \in Nat
    BY FS_Subset, FS_CardinalityType DEF QuotaInv, UsedInv, EventsInv, RowsOn
  <2>2. RowsOn(v, u, d)' = RowsOn(v, u, d)
    BY DEF RowsOn, OwnRow
  <2>. QED  BY <1>2, <2>1, <2>2
<1>. QED  BY <1>1, <1>3, <1>4, <1>5 DEF QuotaInv

-----------------------------------------------------------------------------
(* The invariant holds initially and under every step. *)

LEMMA InitQuota == Init => QuotaInv
<1>. SUFFICES ASSUME Init PROVE QuotaInv
  OBVIOUS
<1>1. /\ events = {} /\ registered = {} /\ pro = {} /\ known = {} /\ everPro = {} /\ day = 0
      /\ backend \in {"sqlite", "postgres"}
      /\ scopeLock = [s \in Scopes |-> None]
      /\ conn = [p \in Processes |-> "ok"] /\ mutex = [p \in Processes |-> None]
      /\ req = [r \in Requests |-> Idle]
      /\ cookie = [b \in Browsers |-> None] /\ session = [b \in Browsers |-> None]
  BY DEF Init
<1>2. MaxDay \in Nat /\ Idle \in RequestType /\ Idle.pc = "idle"
  BY IdleTyped, QuotaAssumption
<1>3. TypeOK
  BY <1>1, <1>2 DEF TypeOK
<1>4. \A r \in Requests : IdentityOk(r) /\ LockOk(r) /\ RoomOk(r)
  BY <1>1, <1>2 DEF IdentityOk, LockOk, RoomOk
<1>5. EventsInv
  BY <1>1, FS_EmptySet DEF EventsInv
<1>6. UsedInv
  <2>. SUFFICES ASSUME NEW v \in Visitors \cup {None}, NEW u \in Users \cup {None}, NEW d \in Nat
                PROVE  Cardinality(RowsOn(v, u, d)) <= LimitOf(u)
    BY DEF UsedInv
  <2>1. RowsOn(v, u, d) = {}
    BY <1>1 DEF RowsOn
  <2>2. LimitOf(u) \in Nat
    BY QuotaAssumption DEF LimitOf, BestLimit
  <2>. QED  BY <2>1, <2>2, FS_EmptySet
<1>. QED  BY <1>1, <1>3, <1>4, <1>5, <1>6 DEF QuotaInv

LEMMA NextQuota == QuotaInv /\ [Next]_vars => QuotaInv'
<1>. SUFFICES ASSUME QuotaInv, [Next]_vars PROVE QuotaInv'
  OBVIOUS
<1>1. ASSUME NEW r \in Requests, Step(r) \/ InsertRaises(r) PROVE QuotaInv'
  BY <1>1, FindUserStep, InsertUserStep, ReadPlanStep, PublicQuotaStep, CheckQuotaStep,
     BeginConsumeStep, CountStep, InsertRaisesStep, ConsumeSqliteStep, CommitStep, SyncStep
     DEF Step
<1>2. ASSUME NEW r \in Requests, NEW b \in Browsers, NEW p \in Processes,
             \/ \E kind \in {"analyze", "quota"} : _identity_context(r, b, p, kind)
             \/ ArriveSync(r, b, p)
      PROVE  QuotaInv'
  BY <1>2, IdentityStep
<1>3. ASSUME NEW p \in Processes, Crash(p) PROVE QuotaInv'
  BY <1>3, CrashStep
<1>4. /\ session \in [Browsers -> Users \cup {None, "expired"}]
      /\ day \in 0..MaxDay /\ MaxDay \in Nat /\ day <= day
      /\ pro \subseteq everPro /\ pro \subseteq Users
  BY QuotaAssumption DEF QuotaInv, TypeOK
<1>5. ASSUME NEW b \in Browsers, NEW s \in Users \cup {None, "expired"}, SignIn(b, s) PROVE QuotaInv'
  BY <1>4, <1>5, EnvironmentStep DEF SignIn, dbVars, procVars
<1>6. ASSUME NEW u \in Users, ChangePlan(u) PROVE QuotaInv'
  BY <1>4, <1>6, EnvironmentStep DEF ChangePlan, dbVars, procVars, clientVars
<1>7. CASE NextDay
  BY <1>4, <1>7, EnvironmentStep DEF NextDay, dbVars, procVars, clientVars
<1>8. CASE UNCHANGED vars
  BY <1>4, <1>8, EnvironmentStep DEF vars, dbVars, procVars, clientVars
<1>. QED  BY <1>1, <1>2, <1>3, <1>5, <1>6, <1>7, <1>8 DEF Next

\* The inductive invariant of the quota holds in every reachable state.
THEOREM QuotaInvariant == Spec => []QuotaInv
  BY InitQuota, NextQuota, PTL DEF Spec

-----------------------------------------------------------------------------

\* Every variable keeps its type, and an instance lock is held only inside a method.
THEOREM TypeCorrect == Spec => []TypeOK
  BY QuotaInvariant, PTL DEF QuotaInv

\* Whatever the limits, however many processes count and insert at once, and however
\* sessions, plans, cookies and days change meanwhile: the rows of a day that are a
\* visitor's own, or that a user has made, never exceed the limit.
THEOREM QuotasHold == Spec => []QuotaBounded
<1>1. ASSUME QuotaInv PROVE QuotaBounded
  <2>. USE <1>1
  <2>1. ASSUME NEW v \in known, NEW d \in 0..MaxDay
        PROVE  Cardinality({e \in events : e.visitor = v /\ e.user = None /\ e.day = d}) <= AnonLimit
    <3>1. v \in Visitors /\ v # None /\ d \in Nat
      BY QuotaAssumption DEF QuotaInv, TypeOK
    <3>2. RowsOn(v, None, d) = {e \in events : e.visitor = v /\ e.user = None /\ e.day = d}
      BY DEF RowsOn, OwnRow
    <3>. QED  BY <3>1, <3>2 DEF QuotaInv, UsedInv, LimitOf
  <2>2. ASSUME NEW u \in Users, NEW d \in 0..MaxDay
        PROVE  Cardinality({e \in events : e.madeBy = u /\ e.day = d}) <= BestLimit(u)
    <3>1. u # None /\ d \in Nat
      BY QuotaAssumption
    <3>2. RowsOn(None, u, d) = {e \in events : e.madeBy = u /\ e.day = d}
      BY <3>1 DEF RowsOn, OwnRow
    <3>. QED  BY <3>1, <3>2 DEF QuotaInv, UsedInv, LimitOf
  <2>. QED  BY <2>1, <2>2 DEF QuotaBounded, AnonBounded, UserBounded
<1>. QED  BY <1>1, QuotaInvariant, PTL

\* Signing up does not reset the quota: what counts for a user and a visitor only shrinks
\* when another user claims the visitor's rows.
THEOREM SignInResetsNothing == Spec => NoResetBySignIn
<1>1. ASSUME QuotaInv, QuotaInv', [Next]_vars, NEW v \in Visitors, NEW u \in Users, NEW d \in 0..MaxDay
      PROVE  \/ _public_use_count(v, u, d)' >= _public_use_count(v, u, d)
             \/ \E e \in events' \ events : e.visitor = v /\ e.user \notin {u, None}
  <2>1. /\ EventsInv /\ EventsInv' /\ events \in SUBSET RowType
        /\ \A r \in Requests : IdentityOk(r) /\ req[r] \in RequestType
    BY <1>1 DEF QuotaInv, TypeOK, RowType
  <2>2. ASSUME events \subseteq events' PROVE _public_use_count(v, u, d)' >= _public_use_count(v, u, d)
    <3>. DEFINE Counts(e) == /\ e.day >= d
                             /\ (u # None /\ e.user = u) \/ (v # None /\ e.visitor = v /\ e.user = None)
                before == {e \in events : Counts(e)}
                after == {e \in events' : Counts(e)}
    <3>1. before \in SUBSET after /\ IsFiniteSet(after)
      BY <2>1, <2>2, FS_Subset DEF EventsInv
    <3>2. _public_use_count(v, u, d) = Cardinality(before)
          /\ _public_use_count(v, u, d)' = Cardinality(after)
      BY DEF _public_use_count
    <3>. HIDE DEF before, after
    <3>. QED  BY <3>1, <3>2, FS_Subset, FS_CardinalityType
  <2>3. ASSUME NEW r \in Requests, auth_sync(r)
        PROVE  \/ _public_use_count(v, u, d)' >= _public_use_count(v, u, d)
               \/ \E e \in events' \ events : e.visitor = v /\ e.user \notin {u, None}
    <3>1. req[r].user \in Users /\ events' = claim_visitor_events(req[r].visitor, req[r].user)
      BY <2>1, <2>3 DEF auth_sync, At, IdentityOk, RequestType
    <3>2. ASSUME \A e \in events' \ events : ~(e.visitor = v /\ e.user \notin {u, None})
          PROVE  _public_use_count(v, u, d)' >= _public_use_count(v, u, d)
      BY <2>1, <3>1, <3>2, ClaimKeepsCount
    <3>. QED  BY <3>2
  <2>4. events \subseteq events' \/ \E r \in Requests : auth_sync(r)
    BY <1>1 DEF Next, Step, vars, dbVars, FindUser, InsertUser, ReadPlan, public_quota, CheckQuota,
       Analyze, ConsumeSqlite, BeginConsume, CountUnderLock, InsertAndCommit, InsertRaises,
       CallRaises, Answered, _identity_context, ArriveSync, CanArrive, Crash, SignIn,
       ChangePlan, NextDay
  <2>. QED  BY <2>2, <2>3, <2>4
<1>2. QuotaInv /\ QuotaInv' /\ [Next]_vars =>
         [\A v \in Visitors, u \in Users, d \in 0..MaxDay :
            \/ _public_use_count(v, u, d)' >= _public_use_count(v, u, d)
            \/ \E e \in events' \ events : e.visitor = v /\ e.user \notin {u, None}]_vars
  BY <1>1
<1>. QED  BY <1>2, QuotaInvariant, PTL DEF Spec, NoResetBySignIn
=============================================================================

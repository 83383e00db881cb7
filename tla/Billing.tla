------------------------------ MODULE Billing ------------------------------
(***************************************************************************)
(* Subscriptions: the checkout and cancel requests, the provider's webhook, *)
(* and the plan that the stored rows grant. The provider is outside: it     *)
(* creates, activates, charges, halts and cancels subscriptions and sends   *)
(* each change as an event, in any order and again until it is accepted.   *)
(*                                                                         *)
(* One repository call or provider request is one step.                    *)
(***************************************************************************)
EXTENDS Naturals, Sequences, SequencesExt, FiniteSets

CONSTANTS
    Users,
    Customers,    \* the provider's customers, who pay
    Subs,         \* provider subscription ids
    Handlers,     \* requests and deliveries in progress at a time
    MaxEvents, MaxClock, MaxRequests, MaxFailures,   \* bounds
    None

ASSUME BillingAssumption ==
    /\ {MaxEvents, MaxClock, MaxRequests, MaxFailures} \subseteq Nat
    /\ {"pending", None} \cap (Users \cup Customers \cup Subs) = {}
    /\ None \notin {"created", "active", "halted", "cancelled"}

VARIABLES
    provider,   \* the provider's subscriptions
    sent,       \* events, in the order they were made
    unacked,    \* events not yet answered with 200 (indices of sent)
    clock,      \* billing periods that have passed
    rows,       \* subscriptions, least recently updated first
    ledger,     \* billing_webhook_events
    task,       \* what each handler does
    requests, failures,
    applied,    \* history: how often an event was applied
    disturbed   \* history: subscriptions with an event lost, dropped or overtaken

providerVars == <<provider, sent, unacked, clock>>
dbVars == <<rows, ledger>>
boundVars == <<requests, failures>>
vars == <<providerVars, dbVars, task, boundVars, applied, disturbed>>

Idle == [pc |-> "idle", user |-> None, sub |-> None, customer |-> None, event |-> 0, row |-> None]
Statuses == {"created", "active", "halted", "cancelled"}

Init ==
    /\ provider = [s \in Subs |-> [owner |-> None, customer |-> None, status |-> None, end |-> 0,
                                scheduled |-> FALSE]]
    /\ sent = <<>> /\ unacked = {}
    /\ clock = 0
    /\ rows = <<>> /\ ledger = {}
    /\ task = [h \in Handlers |-> Idle]
    /\ requests = 0 /\ failures = 0
    /\ applied = <<>>
    /\ disturbed = {}

-----------------------------------------------------------------------------
(* The repository and the plan *)

Stored(s) == {i \in DOMAIN rows : rows[i].sub = s}
Others(s) == IF Stored(s) = {} THEN rows ELSE RemoveAt(rows, CHOOSE i \in Stored(s) : TRUE)

\* Mutant: on a conflict the stored status and end are kept.
MutUpsertKeepsStatus(row) ==
    Append(Others(row.sub),
           IF Stored(row.sub) = {} THEN row
           ELSE LET old == rows[CHOOSE i \in Stored(row.sub) : TRUE]
                IN [row EXCEPT !.status = old.status, !.end = old.end])

\* The row of the provider's subscription id is replaced, and becomes the latest.
upsert_subscription(row) == Append(Others(row.sub), row)

\* ORDER BY updated_at DESC LIMIT 1
LatestOf(mine) == IF mine = {} THEN None ELSE rows[Max(mine)]
get_subscription_for_user(u) == LatestOf({i \in DOMAIN rows : rows[i].user = u})
get_subscription_by_provider_customer(c) ==
    LatestOf({i \in DOMAIN rows : rows[i].customer = c})

\* Mutant: a subscription that has only been created grants Pro.
MutGrantsCreated(row) ==
    /\ row # None
    /\ row.status \in {"created", "active"}
    /\ row.cancel => row.end > clock

subscription_grants_pro(row) ==
    /\ row # None
    /\ row.status = "active"
    /\ row.cancel => row.end > clock

\* No user has the plan set by hand.
effective_plan(u) ==
    IF subscription_grants_pro(get_subscription_for_user(u)) THEN "pro" ELSE "free"

\* An answer or an event shows a subscription with the status and end it has got; it
\* may come without the customer.
Shown(s, status, end) ==
    [sub : {s}, status : {status}, end : {end}, owner : {provider[s].owner},
     customer : {"pending", provider[s].customer}]
RowOf(shown, user, cancel) ==
    [sub |-> shown.sub, user |-> user, customer |-> shown.customer, status |-> shown.status,
     end |-> shown.end, cancel |-> cancel]

Become(h, t) == task' = [task EXCEPT ![h] = t]
End(h) == Become(h, Idle)

\* A process dies, or an answer or a delivery is lost.
Fail == failures < MaxFailures /\ failures' = failures + 1

-----------------------------------------------------------------------------
(* start_checkout *)

BeginRequest(h) ==
    /\ task[h].pc = "idle"
    /\ requests < MaxRequests
    /\ requests' = requests + 1

\* An unpaid subscription of the user is resumed; otherwise a new one is made, also
\* for a user who has an active one.
StartCheckout(h, u) ==
    /\ BeginRequest(h)
    /\ LET existing == get_subscription_for_user(u)
       IN IF existing # None /\ existing.status \in {"created", "halted"}
          THEN End(h)
          ELSE Become(h, [Idle EXCEPT !.pc = "creating", !.user = u])
    /\ UNCHANGED <<providerVars, dbVars, failures, applied, disturbed>>

\* POST /subscriptions; the answer may be lost after the provider has acted. The request
\* names no customer: the one who will pay is whoever opens the checkout, and the provider
\* tells it from then on. Two users may pay as one customer, one user as two.
create_checkout_session(h) ==
    /\ task[h].pc = "creating"
    /\ \/ End(h) /\ UNCHANGED provider
       \/ \E s \in Subs :
             /\ provider[s].status = None
             /\ \E c \in Customers : provider' = [provider EXCEPT ![s] =
                   [owner |-> task[h].user, customer |-> c, status |-> "created", end |-> 0,
                    scheduled |-> FALSE]]
             /\ \/ End(h)
                \/ Become(h, [task[h] EXCEPT !.pc = "saving", !.row =
                      [sub |-> s, status |-> "created", end |-> 0, owner |-> task[h].user,
                       customer |-> "pending"]])
    /\ UNCHANGED <<sent, unacked, clock, dbVars, boundVars, applied, disturbed>>

SaveCheckout(h) ==
    /\ task[h].pc = "saving"
    /\ rows' = upsert_subscription(RowOf(task[h].row, task[h].user, FALSE))
    /\ End(h)
    /\ UNCHANGED <<providerVars, ledger, boundVars, applied, disturbed>>

-----------------------------------------------------------------------------
(* cancel *)

StartCancel(h, u) ==
    /\ BeginRequest(h)
    /\ LET row == get_subscription_for_user(u)
       IN IF row = None
          THEN End(h)
          ELSE Become(h, [Idle EXCEPT !.pc = "cancelling", !.user = row.user, !.sub = row.sub,
                                      !.customer = row.customer])
    /\ UNCHANGED <<providerVars, dbVars, failures, applied, disturbed>>

\* The provider refuses what is not active; the answer may be lost. For a customer that
\* the answer leaves out, the one that has been read is stored again.
cancel_at_period_end(h) ==
    /\ task[h].pc = "cancelling"
    /\ \/ End(h) /\ UNCHANGED provider
       \/ /\ provider[task[h].sub].status = "active"
          /\ provider' = [provider EXCEPT ![task[h].sub].scheduled = TRUE]
          /\ \/ End(h)
             \/ \E shown \in Shown(task[h].sub, "active", provider[task[h].sub].end) :
                   Become(h, [task[h] EXCEPT !.pc = "savingCancel",
                      !.row = IF shown.customer = "pending"
                              THEN [shown EXCEPT !.customer = task[h].customer] ELSE shown])
    /\ UNCHANGED <<sent, unacked, clock, dbVars, boundVars, applied, disturbed>>

\* The row is written from the answer, whatever an event has stored since.
SaveCancel(h) ==
    /\ task[h].pc = "savingCancel"
    /\ rows' = upsert_subscription(RowOf(task[h].row, task[h].user, TRUE))
    /\ End(h)
    /\ UNCHANGED <<providerVars, ledger, boundVars, applied, disturbed>>

-----------------------------------------------------------------------------
(* The webhook *)

\* Mutant: a redelivered event is processed again.
MutRecordAlways(h, e) ==
    /\ task[h].pc = "idle"
    /\ e \in unacked
    /\ ledger' = ledger \cup {e}
    /\ Become(h, [Idle EXCEPT !.pc = "applying", !.event = e])
    /\ UNCHANGED <<sent, provider, clock, unacked, rows, boundVars, applied, disturbed>>

\* record_webhook_event: ON CONFLICT DO NOTHING; a known event is answered with 200.
RecordEvent(h, e) ==
    /\ task[h].pc = "idle"
    /\ e \in unacked
    /\ ledger' = ledger \cup {e}
    /\ IF e \in ledger
       THEN End(h) /\ unacked' = unacked \ {e}
       ELSE Become(h, [Idle EXCEPT !.pc = "applying", !.event = e]) /\ UNCHANGED unacked
    /\ UNCHANGED <<sent, provider, clock, rows, boundVars, applied, disturbed>>

\* Mutant: rows that wait for their customer are taken for the event's.
MutOwnerOfPending(shown) ==
    LET old == get_subscription_by_provider_customer(shown.customer)
    IN IF old # None THEN old.user ELSE shown.owner

\* The user is that of the customer's latest row, or the one the checkout noted.
OwnerOf(shown) ==
    LET old == IF shown.customer = "pending" THEN None
               ELSE get_subscription_by_provider_customer(shown.customer)
    IN IF old # None THEN old.user ELSE shown.owner

\* An event whose subscription has a later one applied, or a cancellation that is
\* about to write an older answer.
Overtaken(e) ==
    \/ \E d \in DOMAIN sent : sent[d].sub = sent[e].sub /\ d < e /\ applied[d] = 0
    \/ \E h \in Handlers : task[h].pc = "savingCancel" /\ task[h].sub = sent[e].sub

\* get_subscription_by_provider_customer: the user is found before the row is written.
LookUpOwner(h) ==
    /\ task[h].pc = "applying"
    /\ Become(h, [task[h] EXCEPT !.pc = "upserting", !.user = OwnerOf(sent[task[h].event])])
    /\ UNCHANGED <<providerVars, dbVars, boundVars, applied, disturbed>>

\* The shown state replaces the row, and the cancellation flag with it.
ApplyEvent(h) ==
    /\ task[h].pc = "upserting"
    /\ LET shown == sent[task[h].event]
       IN /\ rows' = upsert_subscription(RowOf(shown, task[h].user, FALSE))
          /\ disturbed' = IF Overtaken(task[h].event) THEN disturbed \cup {shown.sub} ELSE disturbed
    /\ applied' = [applied EXCEPT ![task[h].event] = @ + 1]
    /\ Become(h, [Idle EXCEPT !.pc = "answering", !.event = task[h].event])
    /\ UNCHANGED <<providerVars, ledger, boundVars>>

\* The provider takes the 200, or it is lost and the event will come again.
AnswerEvent(h) ==
    /\ task[h].pc = "answering"
    /\ \/ unacked' = unacked \ {task[h].event} /\ UNCHANGED failures
       \/ Fail /\ UNCHANGED unacked
    /\ End(h)
    /\ UNCHANGED <<provider, sent, clock, dbVars, requests, applied, disturbed>>

\* The rest of the webhook's handler.
_process_razorpay_event(h) == LookUpOwner(h) \/ ApplyEvent(h) \/ AnswerEvent(h)

Applying(h) == task[h].pc \in {"applying", "upserting"}

\* The process dies, or a call raises: the event stays in the ledger. One that has been
\* applied but not answered comes again.
HandlerDies(h) ==
    /\ task[h].pc # "idle"
    /\ Fail
    /\ disturbed' = IF Applying(h) THEN disturbed \cup {sent[task[h].event].sub}
                    ELSE disturbed
    /\ End(h)
    /\ UNCHANGED <<providerVars, dbVars, requests, applied>>

-----------------------------------------------------------------------------
(* The provider *)

\* A change of a subscription and its event.
Change(s, status, end) ==
    /\ Len(sent) < MaxEvents
    /\ provider' = [provider EXCEPT ![s].status = status, ![s].end = end]
    /\ \E shown \in Shown(s, status, end) : sent' = Append(sent, shown)
    /\ unacked' = unacked \cup {Len(sent) + 1}
    /\ applied' = Append(applied, 0)
    /\ UNCHANGED <<clock, dbVars, task, boundVars, disturbed>>

\* The customer pays the checkout that was handed out, or the overdue period.
Activate(s) ==
    /\ provider[s].status \in {"created", "halted"}
    /\ \E i \in 1..Len(rows) : rows[i].sub = s
    /\ Change(s, "active", clock + 1)

Renew(s) ==
    /\ provider[s].status = "active" /\ provider[s].end <= clock
    /\ IF provider[s].scheduled
       THEN Change(s, "cancelled", provider[s].end)
       ELSE Change(s, "active", clock + 1) \/ Change(s, "halted", provider[s].end)

\* A period ends only when every active subscription has been dealt with.
PeriodEnds ==
    /\ clock < MaxClock
    /\ \A s \in Subs : provider[s].status = "active" => provider[s].end > clock
    /\ clock' = clock + 1
    /\ UNCHANGED <<provider, sent, unacked, dbVars, task, boundVars, applied, disturbed>>

\* The provider gives up on an event, which is lost if it was never taken up.
GiveUp(e) ==
    /\ Fail
    /\ e \in unacked
    /\ unacked' = unacked \ {e}
    /\ disturbed' = IF e \in ledger THEN disturbed ELSE disturbed \cup {sent[e].sub}
    /\ UNCHANGED <<provider, sent, clock, dbVars, task, requests, applied>>

Next ==
    \/ \E h \in Handlers, u \in Users : StartCheckout(h, u) \/ StartCancel(h, u)
    \/ \E h \in Handlers :
          \/ create_checkout_session(h) \/ SaveCheckout(h)
          \/ cancel_at_period_end(h) \/ SaveCancel(h)
          \/ _process_razorpay_event(h) \/ HandlerDies(h)
    \/ \E h \in Handlers, e \in unacked : RecordEvent(h, e)
    \/ \E s \in Subs : Activate(s) \/ Renew(s)
    \/ \E e \in unacked : GiveUp(e)
    \/ PeriodEnds

Spec == Init /\ [][Next]_vars

-----------------------------------------------------------------------------
(* Properties *)

Row == [sub : Subs, user : Users, customer : Customers \cup {"pending"}, status : Statuses,
        end : 0..MaxClock + 1, cancel : BOOLEAN]

\* Every variable has its type; there is one row per subscription (the UNIQUE
\* constraint), and an event being applied is in the ledger.
TypeOK ==
    /\ provider \in [Subs -> [owner : Users \cup {None}, customer : Customers \cup {None},
                              status : Statuses \cup {None}, end : 0..MaxClock + 1,
                              scheduled : BOOLEAN]]
    /\ unacked \subseteq DOMAIN sent /\ ledger \subseteq DOMAIN sent
    /\ \A i \in DOMAIN rows : rows[i] \in Row
    /\ \A i, j \in DOMAIN rows : rows[i].sub = rows[j].sub => i = j
    /\ \A h \in Handlers : Applying(h) => task[h].event \in ledger
    /\ DOMAIN applied = DOMAIN sent
    /\ disturbed \subseteq Subs

\* However often the provider delivers an event, and however many handlers have it at
\* once, it is applied at most once (the ledger of record_webhook_event).
AppliedOnce == \A e \in DOMAIN applied : applied[e] <= 1

\* The provider has announced that s is active.
Paid(s) == \E e \in DOMAIN sent : sent[e].sub = s /\ sent[e].status = "active"

\* The user has a paid subscription of that customer.
PaysAs(u, c) ==
    \E s \in Subs : provider[s].owner = u /\ provider[s].customer = c /\ Paid(s)

\* Whoever's request or event wrote it last, a row belongs to the user who checked the
\* subscription out, or to one who pays as the same customer: events are looked up by
\* customer first, and the checkout does not keep accounts apart there. A customer that
\* is not known yet never leads to an account.
RowsOfTheirOwner ==
    \A i \in DOMAIN rows :
        LET sub == provider[rows[i].sub]
        IN rows[i].user = sub.owner \/ PaysAs(rows[i].user, sub.customer)

\* Pro is granted only to users whose subscription the provider has made active.
ProIsPaid ==
    \A u \in Users : effective_plan(u) = "pro" =>
        \E e \in DOMAIN sent : sent[e].owner = u /\ sent[e].status = "active"

Quiet == unacked = {} /\ \A h \in Handlers : task[h].pc = "idle"

\* When all has been delivered, a row has the status and the period of the provider's
\* subscription, unless one of its events was lost, was dropped by a failure after
\* the ledger entry, or was overtaken by a later one or by a cancellation.
RowsFollowProvider ==
    Quiet => \A i \in DOMAIN rows : rows[i].sub \notin disturbed =>
        /\ rows[i].status = provider[rows[i].sub].status
        /\ rows[i].end = provider[rows[i].sub].end

\* "active grants Pro": a user has Pro while a row of theirs is active and not cancelled.
ActiveGrantsPro ==
    \A i \in DOMAIN rows : rows[i].status = "active" /\ ~rows[i].cancel
        => effective_plan(rows[i].user) = "pro"

\* "An active scheduled subscription retains Pro only through its verified current_end":
\* no Pro from a subscription that was cancelled and whose period is over.
ScheduledEnds ==
    \A u \in Users : effective_plan(u) = "pro" =>
        LET s == get_subscription_for_user(u).sub
        IN ~provider[s].scheduled \/ provider[s].end > clock
=============================================================================

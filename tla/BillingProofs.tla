--------------------------- MODULE BillingProofs ---------------------------
(***************************************************************************)
(* For any number of users, subscriptions, handlers and deliveries: the     *)
(* ledger of webhook events lets each event be applied at most once; a row  *)
(* belongs to the account that checked the subscription out or to one that  *)
(* pays as the same customer, an active row was paid for, and a row that    *)
(* nothing has disturbed follows the provider.                              *)
(***************************************************************************)
EXTENDS Billing, SequenceTheorems, WellFoundedInduction, TLAPS

-----------------------------------------------------------------------------
(* The ledger of webhook events *)

Event == [sub : Subs, status : Statuses, end : Nat, owner : Users,
          customer : Customers \cup {"pending"}]

Subscription == [owner : Users \cup {None}, customer : Customers \cup {None},
                 status : Statuses \cup {None}, end : Nat, scheduled : BOOLEAN]

\* A subscription that exists at the provider has an owner and a customer.
ProviderShape ==
    /\ clock \in Nat
    /\ provider \in [Subs -> Subscription]
    /\ \A s \in Subs : provider[s].status # None =>
          provider[s].owner \in Users /\ provider[s].customer \in Customers
    /\ sent \in Seq(Event)

\* A handler's record has its fields, whatever they hold.
Fields == {"pc", "user", "sub", "customer", "event", "row"}
TaskShape ==
    /\ task = [h \in Handlers |-> task[h]]
    /\ \A h \in Handlers : DOMAIN task[h] = Fields
    /\ \A h \in Handlers : task[h].pc = "creating" => task[h].user \in Users

\* The history, the ledger and the provider's list speak of the same events.
EventsAgree ==
    /\ applied \in Seq(Nat)
    /\ Len(applied) = Len(sent)
    /\ unacked \subseteq DOMAIN applied
    /\ ledger \subseteq DOMAIN applied

\* An event that is being applied is in the ledger, not applied yet, and in the hands
\* of one handler; an event that has been applied or is being answered is in the ledger.
OneAttempt ==
    /\ \A h \in Handlers : Applying(h) =>
          task[h].event \in ledger /\ applied[task[h].event] = 0
    /\ \A h, k \in Handlers : Applying(h) /\ Applying(k)
          /\ task[h].event = task[k].event => h = k
    /\ \A h \in Handlers : task[h].pc = "answering" => task[h].event \in ledger
    /\ \A e \in DOMAIN applied : applied[e] > 0 => e \in ledger

LedgerInv == ProviderShape /\ TaskShape /\ EventsAgree /\ OneAttempt /\ AppliedOnce

-----------------------------------------------------------------------------
(* The invariant holds initially and under every step. *)

\* Nothing has been sent, recorded or applied when the service starts.
LEMMA InitLedger == Init => LedgerInv
  BY BillingAssumption, SMTT(30)
     DEF Init, LedgerInv, ProviderShape, Subscription, TaskShape, EventsAgree, OneAttempt,
         AppliedOnce, Applying, Idle, Fields, Statuses

\* A handler that takes up a record which applies no event, and creates a subscription
\* for a user only, leaves the events in the hands of the other handlers.
LEMMA TaskSteps ==
    ASSUME LedgerInv, NEW h \in Handlers, NEW t,
           DOMAIN t = Fields,
           t.pc \notin {"applying", "upserting"}, t.pc = "creating" => t.user \in Users,
           t.pc = "answering" => t.event \in ledger,
           Become(h, t)
    PROVE  /\ TaskShape'
           /\ \A k \in Handlers : Applying(k)' => k # h /\ task'[k] = task[k]
           /\ \A k \in Handlers : task'[k].pc = "answering" => task'[k].event \in ledger
  <1>1. task' = [task EXCEPT ![h] = t]
    BY DEF Become
  <1>2. \A k \in Handlers : task'[k] = IF k = h THEN t ELSE task[k]
    BY <1>1 DEF LedgerInv, TaskShape
  <1>3. \A k \in Handlers : DOMAIN task'[k] = Fields
    BY <1>2 DEF LedgerInv, TaskShape
  <1>4. task' = [k \in Handlers |-> task'[k]]
    BY <1>1 DEF LedgerInv, TaskShape
  <1>5. TaskShape'
    BY <1>2, <1>3, <1>4 DEF LedgerInv, TaskShape
  <1> QED
    BY <1>2, <1>5 DEF LedgerInv, OneAttempt, Applying

\* Such a step keeps the invariant if it leaves the events and the ledger alone.
LEMMA OtherSteps ==
    ASSUME LedgerInv, ProviderShape', TaskShape',
           UNCHANGED <<sent, ledger, applied>>, unacked' \subseteq unacked,
           \A k \in Handlers : Applying(k)' => task'[k] = task[k],
           \A k \in Handlers : task'[k].pc = "answering" => task'[k].event \in ledger
    PROVE  LedgerInv'
  BY DEF LedgerInv, EventsAgree, OneAttempt, AppliedOnce, Applying

\* Together: a request's step, or that of a handler which ends.
LEMMA RequestSteps ==
    ASSUME LedgerInv, NEW h \in Handlers, NEW t,
           DOMAIN t = Fields,
           t.pc \notin {"applying", "upserting", "answering"},
           t.pc = "creating" => t.user \in Users,
           Become(h, t), ProviderShape', UNCHANGED <<sent, ledger, applied>>,
           unacked' \subseteq unacked
    PROVE  LedgerInv'
  <1>1. /\ TaskShape' /\ \A k \in Handlers : Applying(k)' => k # h /\ task'[k] = task[k]
        /\ \A k \in Handlers : task'[k].pc = "answering" => task'[k].event \in ledger
    BY TaskSteps
  <1> QED
    BY <1>1, OtherSteps

\* A change at the provider adds one event, which nobody has seen.
LEMMA ChangeStep ==
    ASSUME LedgerInv, NEW s \in Subs, NEW status \in Statuses, NEW end \in Nat,
           provider[s].status # None, Change(s, status, end)
    PROVE  LedgerInv'
  <1> USE DEF LedgerInv
  <1>1. provider[s].owner \in Users /\ provider[s].customer \in Customers
    BY DEF ProviderShape
  <1>2. PICK shown \in Shown(s, status, end) : sent' = Append(sent, shown)
    BY DEF Change
  <1>3. shown \in Event
    BY <1>1, BillingAssumption DEF Shown, Event
  <1>4. ProviderShape'
    <2>1. sent' \in Seq(Event) /\ Len(sent') = Len(sent) + 1
      BY <1>2, <1>3 DEF ProviderShape
    <2>2. provider' = [provider EXCEPT ![s].status = status, ![s].end = end] /\ clock' = clock
      BY DEF Change
    <2>3. \A r \in Subs : provider'[r] =
             IF r = s THEN [provider[s] EXCEPT !.status = status, !.end = end] ELSE provider[r]
      BY <2>2 DEF ProviderShape
    <2>4. provider'[s] \in Subscription /\ provider'[s].owner = provider[s].owner
          /\ provider'[s].customer = provider[s].customer
      BY <2>3 DEF ProviderShape, Subscription
    <2>5. provider' \in [Subs -> Subscription]
      BY <2>2, <2>3, <2>4 DEF ProviderShape
    <2>6. \A r \in Subs : provider'[r].status # None =>
             provider'[r].owner \in Users /\ provider'[r].customer \in Customers
      BY <1>1, <2>3, <2>4 DEF ProviderShape
    <2> QED
      BY <2>1, <2>2, <2>5, <2>6 DEF ProviderShape
  <1>5. TaskShape'
    BY DEF Change, TaskShape
  <1>6. applied' = Append(applied, 0) /\ Len(sent') = Len(sent) + 1
        /\ unacked' = unacked \cup {Len(sent) + 1} /\ ledger' = ledger /\ task' = task
    BY <1>2, <1>3 DEF Change, dbVars, ProviderShape
  <1>7. /\ applied' \in Seq(Nat) /\ Len(applied') = Len(applied) + 1
        /\ DOMAIN applied' = DOMAIN applied \cup {Len(applied) + 1}
        /\ applied'[Len(applied) + 1] = 0
        /\ \A e \in DOMAIN applied : applied'[e] = applied[e]
    BY <1>6 DEF EventsAgree
  <1>8. EventsAgree'
    BY <1>6, <1>7 DEF EventsAgree
  <1>9. OneAttempt'
    BY <1>6, <1>7 DEF OneAttempt, EventsAgree, Applying
  <1>10. AppliedOnce'
    BY <1>7 DEF AppliedOnce
  <1> QED
    BY <1>4, <1>5, <1>8, <1>9, <1>10

\* A delivery is taken up only when the ledger does not know the event.
LEMMA RecordStep ==
    ASSUME LedgerInv, NEW h \in Handlers, NEW e \in unacked, RecordEvent(h, e)
    PROVE  LedgerInv'
  <1> USE DEF LedgerInv
  <1>1. ProviderShape'
    BY DEF RecordEvent, ProviderShape
  <1>2. UNCHANGED <<sent, applied>> /\ ledger' = ledger \cup {e} /\ unacked' \subseteq unacked
    BY DEF RecordEvent
  <1>3. e \in DOMAIN applied
    BY DEF EventsAgree
  <1>4. CASE e \in ledger
    <2>1. Become(h, Idle) /\ ledger' = ledger
      BY <1>2, <1>4 DEF RecordEvent, End
    <2> QED
      BY <1>1, <1>2, <2>1, RequestSteps DEF Idle, Fields
  <1>5. CASE e \notin ledger
    <2>1. task' = [task EXCEPT ![h] = [Idle EXCEPT !.pc = "applying", !.event = e]]
      BY <1>5 DEF RecordEvent, Become
    <2>2. \A k \in Handlers : task'[k] =
             IF k = h THEN [Idle EXCEPT !.pc = "applying", !.event = e] ELSE task[k]
      BY <2>1 DEF TaskShape
    <2>3. TaskShape'
      BY <2>1, <2>2 DEF TaskShape, Idle, Fields
    <2>4. EventsAgree'
      BY <1>2, <1>3 DEF EventsAgree
    <2>5. task'[h].pc = "applying" /\ task'[h].event = e
      BY <2>2 DEF Idle
    <2>6. applied[e] = 0
      BY <1>3, <1>5 DEF OneAttempt, EventsAgree
    <2>7. OneAttempt'
      BY <1>2, <1>5, <2>2, <2>5, <2>6 DEF OneAttempt, Applying
    <2>8. AppliedOnce'
      BY <1>2 DEF AppliedOnce
    <2> QED
      BY <1>1, <2>3, <2>4, <2>7, <2>8
  <1> QED
    BY <1>4, <1>5

\* Looking the user up changes nothing but the handler's notes.
LEMMA LookUpStep ==
    ASSUME LedgerInv, NEW h \in Handlers, LookUpOwner(h)
    PROVE  LedgerInv'
  <1> USE DEF LedgerInv
  <1> DEFINE t == [task[h] EXCEPT !.pc = "upserting", !.user = OwnerOf(sent[task[h].event])]
  <1>1. task[h].pc = "applying" /\ task' = [task EXCEPT ![h] = t]
        /\ UNCHANGED <<provider, sent, unacked, clock, ledger, applied>>
    BY DEF LookUpOwner, Become, providerVars, dbVars
  <1>2. DOMAIN t = Fields /\ t.pc = "upserting" /\ t.event = task[h].event
    BY DEF TaskShape, Fields
  <1> HIDE DEF t
  <1>3. \A k \in Handlers : task'[k] = IF k = h THEN t ELSE task[k]
    BY <1>1 DEF TaskShape
  <1>4. TaskShape'
    BY <1>1, <1>2, <1>3 DEF TaskShape
  <1>5. OneAttempt'
    BY <1>1, <1>2, <1>3 DEF OneAttempt, Applying
  <1>6. ProviderShape' /\ EventsAgree' /\ AppliedOnce'
    BY <1>1 DEF ProviderShape, EventsAgree, AppliedOnce
  <1> QED
    BY <1>4, <1>5, <1>6

\* The handler that holds the event applies it, and goes on to answer.
LEMMA ApplyStep ==
    ASSUME LedgerInv, NEW h \in Handlers, ApplyEvent(h)
    PROVE  LedgerInv'
  <1> USE DEF LedgerInv
  <1> DEFINE e == task[h].event
             t == [Idle EXCEPT !.pc = "answering", !.event = e]
  <1>1. /\ task[h].pc = "upserting" /\ Become(h, t)
        /\ applied' = [applied EXCEPT ![e] = @ + 1]
        /\ UNCHANGED <<sent, provider, clock, ledger, unacked>>
    BY DEF ApplyEvent, providerVars
  <1>2. ProviderShape'
    BY <1>1 DEF ProviderShape
  <1>3. e \in ledger /\ e \in DOMAIN applied /\ applied[e] = 0
    BY <1>1 DEF OneAttempt, EventsAgree, Applying
  <1>4. DOMAIN t = Fields /\ t.pc = "answering" /\ t.event = e
    BY DEF Idle, Fields
  <1> HIDE DEF t
  <1>5. /\ TaskShape' /\ \A k \in Handlers : Applying(k)' => k # h /\ task'[k] = task[k]
        /\ \A k \in Handlers : task'[k].pc = "answering" => task'[k].event \in ledger
    BY <1>1, <1>3, <1>4, TaskSteps
  <1>6. /\ applied' \in Seq(Nat) /\ Len(applied') = Len(applied) /\ DOMAIN applied' = DOMAIN applied
        /\ \A d \in DOMAIN applied : applied'[d] = IF d = e THEN 1 ELSE applied[d]
    BY <1>1, <1>3 DEF EventsAgree
  <1>7. EventsAgree'
    BY <1>1, <1>6 DEF EventsAgree
  <1>8. OneAttempt'
    <2>1. \A k \in Handlers : Applying(k)' => Applying(k) /\ task'[k].event = task[k].event
                                             /\ task[k].event # e
      BY <1>1, <1>5 DEF OneAttempt, Applying
    <2> QED
      BY <1>1, <1>3, <1>5, <1>6, <2>1 DEF OneAttempt, EventsAgree
  <1>9. AppliedOnce'
    BY <1>6 DEF AppliedOnce
  <1> QED
    BY <1>2, <1>5, <1>7, <1>8, <1>9

-----------------------------------------------------------------------------

\* Every step keeps the invariant: a request or a failure touches no event, and the
\* others are the lemmas above.
LEMMA NextLedger == LedgerInv /\ [Next]_vars => LedgerInv'
  <1> SUFFICES ASSUME LedgerInv, [Next]_vars PROVE LedgerInv'
    OBVIOUS
  <1>1. ASSUME NEW h \in Handlers, NEW u \in Users, StartCheckout(h, u) PROVE LedgerInv'
    <2>1. UNCHANGED <<providerVars, ledger, applied>>
          /\ (Become(h, Idle) \/ Become(h, [Idle EXCEPT !.pc = "creating", !.user = u]))
      BY <1>1 DEF StartCheckout, dbVars, End
    <2>2. ProviderShape'
      BY <2>1 DEF LedgerInv, ProviderShape, providerVars
    <2>3. CASE Become(h, Idle)
      BY <2>1, <2>2, <2>3, RequestSteps DEF Idle, Fields, providerVars
    <2>4. CASE Become(h, [Idle EXCEPT !.pc = "creating", !.user = u])
      <3> DEFINE t == [Idle EXCEPT !.pc = "creating", !.user = u]
      <3>1. DOMAIN t = Fields /\ t.pc = "creating" /\ t.user = u
        BY DEF Idle, Fields
      <3> HIDE DEF t
      <3>2. Become(h, t)
        BY <2>4 DEF t
      <3> QED
        BY <2>1, <2>2, <3>1, <3>2, RequestSteps DEF providerVars
    <2> QED
      BY <2>1, <2>3, <2>4
  <1>2. ASSUME NEW h \in Handlers, NEW u \in Users, StartCancel(h, u) PROVE LedgerInv'
    <2>1. UNCHANGED <<providerVars, ledger, applied>>
          /\ \E user, sub, customer : Become(h, Idle)
                \/ Become(h, [Idle EXCEPT !.pc = "cancelling", !.user = user, !.sub = sub,
                                        !.customer = customer])
      BY <1>2 DEF StartCancel, dbVars, End
    <2>2. ProviderShape'
      BY <2>1 DEF LedgerInv, ProviderShape, providerVars
    <2>3. CASE Become(h, Idle)
      BY <2>1, <2>2, <2>3, RequestSteps DEF Idle, Fields, providerVars
    <2>4. ASSUME NEW user, NEW sub, NEW customer,
                 Become(h, [Idle EXCEPT !.pc = "cancelling", !.user = user, !.sub = sub,
                                        !.customer = customer])
          PROVE  LedgerInv'
      <3> DEFINE t == [Idle EXCEPT !.pc = "cancelling", !.user = user, !.sub = sub,
                                        !.customer = customer]
      <3>1. DOMAIN t = Fields /\ t.pc = "cancelling"
        BY DEF Idle, Fields
      <3> HIDE DEF t
      <3>2. Become(h, t)
        BY <2>4 DEF t
      <3> QED
        BY <2>1, <2>2, <3>1, <3>2, RequestSteps DEF providerVars
    <2> QED
      BY <2>1, <2>3, <2>4
  <1>3. ASSUME NEW h \in Handlers, create_checkout_session(h) PROVE LedgerInv'
    <2>1. task[h].user \in Users /\ UNCHANGED <<sent, unacked, clock, ledger, applied>>
      BY <1>3 DEF create_checkout_session, dbVars, LedgerInv, TaskShape
    <2>2. \/ Become(h, Idle)
          \/ \E row : Become(h, [task[h] EXCEPT !.pc = "saving", !.row = row])
      BY <1>3 DEF create_checkout_session, End
    <2>3. ProviderShape'
      <3>1. CASE provider' = provider
        BY <2>1, <3>1 DEF LedgerInv, ProviderShape
      <3>2. ASSUME NEW s \in Subs, NEW c \in Customers,
                   provider' = [provider EXCEPT ![s] = [owner |-> task[h].user, customer |-> c,
                      status |-> "created", end |-> 0, scheduled |-> FALSE]]
            PROVE  ProviderShape'
        BY <2>1, <3>2 DEF LedgerInv, ProviderShape, Subscription, Statuses
      <3> QED
        BY <1>3, <3>1, <3>2 DEF create_checkout_session
    <2>4. CASE Become(h, Idle)
      BY <2>1, <2>3, <2>4, RequestSteps DEF Idle, Fields
    <2>5. ASSUME NEW row, Become(h, [task[h] EXCEPT !.pc = "saving", !.row = row])
          PROVE  LedgerInv'
      <3> DEFINE t == [task[h] EXCEPT !.pc = "saving", !.row = row]
      <3>1. DOMAIN t = Fields /\ t.pc = "saving"
        BY DEF LedgerInv, TaskShape, Fields
      <3>2. Become(h, t)
        BY <2>5
      <3> HIDE DEF t
      <3> QED
        BY <2>1, <2>3, <3>1, <3>2, RequestSteps
    <2> QED
      BY <2>2, <2>4, <2>5
  <1>4. ASSUME NEW h \in Handlers, cancel_at_period_end(h) PROVE LedgerInv'
    <2>1. UNCHANGED <<sent, unacked, clock, ledger, applied>>
      BY <1>4 DEF cancel_at_period_end, dbVars
    <2>2. \/ Become(h, Idle)
          \/ \E row : Become(h, [task[h] EXCEPT !.pc = "savingCancel", !.row = row])
      BY <1>4 DEF cancel_at_period_end, End
    <2>3. ProviderShape'
      <3>1. \/ provider' = provider
            \/ provider' = [provider EXCEPT ![task[h].sub].scheduled = TRUE]
        BY <1>4 DEF cancel_at_period_end
      <3>2. CASE provider' = provider
        BY <2>1, <3>2 DEF LedgerInv, ProviderShape
      <3>3. CASE provider' = [provider EXCEPT ![task[h].sub].scheduled = TRUE]
        <4>1. \A s \in Subs : provider'[s] = IF s = task[h].sub
                 THEN [provider[s] EXCEPT !.scheduled = TRUE] ELSE provider[s]
          BY <3>3 DEF LedgerInv, ProviderShape
        <4>2. \A s \in Subs :
                 /\ provider'[s] \in Subscription
                 /\ provider'[s].owner = provider[s].owner
                 /\ provider'[s].customer = provider[s].customer
                 /\ provider'[s].status = provider[s].status
          BY <4>1 DEF LedgerInv, ProviderShape, Subscription
        <4>3. provider' = [s \in Subs |-> provider'[s]]
          BY <3>3 DEF LedgerInv, ProviderShape
        <4> QED
          BY <2>1, <4>2, <4>3 DEF LedgerInv, ProviderShape
      <3> QED
        BY <3>1, <3>2, <3>3
    <2>4. CASE Become(h, Idle)
      BY <2>1, <2>3, <2>4, RequestSteps DEF Idle, Fields
    <2>5. ASSUME NEW row, Become(h, [task[h] EXCEPT !.pc = "savingCancel", !.row = row])
          PROVE  LedgerInv'
      <3> DEFINE t == [task[h] EXCEPT !.pc = "savingCancel", !.row = row]
      <3>1. DOMAIN t = Fields /\ t.pc = "savingCancel"
        BY DEF LedgerInv, TaskShape, Fields
      <3>2. Become(h, t)
        BY <2>5
      <3> HIDE DEF t
      <3> QED
        BY <2>1, <2>3, <3>1, <3>2, RequestSteps
    <2> QED
      BY <2>2, <2>4, <2>5
  <1>5. ASSUME NEW h \in Handlers, SaveCheckout(h) \/ SaveCancel(h) \/ HandlerDies(h)
        PROVE  LedgerInv'
    <2>1. UNCHANGED <<providerVars, ledger, applied>> /\ Become(h, Idle)
      BY <1>5 DEF SaveCheckout, SaveCancel, HandlerDies, dbVars, End
    <2>2. ProviderShape'
      BY <2>1 DEF LedgerInv, ProviderShape, providerVars
    <2> QED
      BY <2>1, <2>2, RequestSteps DEF Idle, Fields, providerVars
  <1>6. ASSUME NEW h \in Handlers, _process_razorpay_event(h) PROVE LedgerInv'
    <2>1. CASE AnswerEvent(h)
      <3>1. /\ UNCHANGED <<sent, provider, clock, ledger, applied>> /\ Become(h, Idle)
            /\ unacked' \subseteq unacked
        BY <2>1 DEF AnswerEvent, dbVars, End
      <3>2. ProviderShape'
        BY <3>1 DEF LedgerInv, ProviderShape
      <3> QED
        BY <3>1, <3>2, RequestSteps DEF Idle, Fields
    <2> QED
      BY <1>6, <2>1, LookUpStep, ApplyStep DEF _process_razorpay_event
  <1>7. ASSUME NEW h \in Handlers, NEW e \in unacked, RecordEvent(h, e) PROVE LedgerInv'
    BY <1>7, RecordStep
  <1>8. ASSUME NEW s \in Subs, Activate(s) \/ Renew(s) PROVE LedgerInv'
    <2>1. provider[s].status # None /\ clock \in Nat /\ provider[s].end \in Nat
      BY <1>8, BillingAssumption DEF Activate, Renew, LedgerInv, ProviderShape, Subscription
    <2>2. \/ Change(s, "active", clock + 1) \/ Change(s, "halted", provider[s].end)
          \/ Change(s, "cancelled", provider[s].end)
      BY <1>8 DEF Activate, Renew
    <2> QED
      BY <2>1, <2>2, ChangeStep DEF Statuses
  <1>9. ASSUME NEW e \in unacked, GiveUp(e) PROVE LedgerInv'
    BY <1>9, OtherSteps DEF GiveUp, dbVars, LedgerInv, ProviderShape, TaskShape, OneAttempt
  <1>10. CASE PeriodEnds
    BY <1>10, OtherSteps DEF PeriodEnds, dbVars, LedgerInv, ProviderShape, TaskShape, OneAttempt
  <1>11. CASE UNCHANGED vars
    BY <1>11, OtherSteps
       DEF vars, providerVars, dbVars, LedgerInv, ProviderShape, TaskShape, OneAttempt
  <1> QED
    BY <1>1, <1>2, <1>3, <1>4, <1>5, <1>6, <1>7, <1>8, <1>9, <1>10, <1>11 DEF Next

\* record_webhook_event's ledger works for any number of handlers, events and
\* redeliveries, whatever fails: no event is applied twice.
THEOREM EventsAppliedOnce == Spec => []AppliedOnce
  <1>1. LedgerInv => AppliedOnce
    BY DEF LedgerInv
  <1> QED
    BY InitLedger, NextLedger, <1>1, PTL DEF Spec

-----------------------------------------------------------------------------
(* The subscription rows *)

\* The provider knows the subscription.
Known(s) == s \in Subs /\ provider[s].status # None

\* It is that of user u, or of the customer as whom u has paid another one.
BelongsTo(s, u) ==
    /\ Known(s) /\ u \in Users
    /\ provider[s].owner = u \/ PaysAs(u, provider[s].customer)

\* The customer's name is left out, or it is the one who has paid for the subscription.
NamesPayer(s, c) == c = "pending" \/ (c = provider[s].customer /\ Paid(s))

HasRow(s) == \E i \in DOMAIN rows : rows[i].sub = s

\* An event of s is still to be applied.
Unapplied(s) == \E e \in DOMAIN sent : sent[e].sub = s /\ applied[e] = 0

\* A row, an answer or an event shows the subscription as the provider has it now.
Matches(row) ==
    row.status = provider[row.sub].status /\ row.end = provider[row.sub].end

\* Handlers that are about to store what the provider has answered.
Storing(h) == task[h].pc \in {"saving", "savingCancel"}
Cancelling(h) == task[h].pc \in {"cancelling", "savingCancel"}

StoredRow == [sub : Subs, user : Users, customer : Customers \cup {"pending"},
              status : Statuses, end : Nat, cancel : BOOLEAN]

\* The UNIQUE constraint on the provider's subscription id.
RowsShape ==
    /\ rows \in Seq(StoredRow)
    /\ \A i, j \in DOMAIN rows : rows[i].sub = rows[j].sub => i = j

\* What was announced or answered: it is stored for a user to whom the subscription
\* belongs and under the customer who pays it, and what it calls active was announced as
\* active.
Genuine(shown, user) ==
    /\ BelongsTo(shown.sub, user)
    /\ NamesPayer(shown.sub, shown.customer)
    /\ shown.status = "active" => Paid(shown.sub)

\* An undisturbed subscription is shown as it is, or a change is still to be applied.
UpToDate(shown) ==
    shown.sub \notin disturbed => Unapplied(shown.sub) \/ Matches(shown)

RowsInv == \A i \in DOMAIN rows : Genuine(rows[i], rows[i].user) /\ UpToDate(rows[i])

\* A checkout stores the first row of its subscription, before anything happens to it;
\* a cancellation is of a subscription that has a row; the user found for an event is one
\* for whom it may be stored.
HandlerFine(h) ==
    /\ Storing(h) =>
          task[h].row \in Event /\ Genuine(task[h].row, task[h].user)
    /\ task[h].pc = "saving" => ~HasRow(task[h].row.sub) /\ Matches(task[h].row)
    /\ Cancelling(h) => BelongsTo(task[h].sub, task[h].user) /\ HasRow(task[h].sub)
    /\ task[h].pc = "cancelling" =>
          NamesPayer(task[h].sub, task[h].customer) /\ task[h].customer \in Customers \cup {"pending"}
    /\ task[h].pc = "upserting" => Genuine(sent[task[h].event], task[h].user)
    /\ task[h].pc = "savingCancel" => task[h].row.sub = task[h].sub /\ UpToDate(task[h].row)

HandlersInv ==
    /\ \A h \in Handlers : HandlerFine(h)
    /\ \A h, k \in Handlers : task[h].pc = "saving" /\ task[k].pc = "saving"
          /\ task[h].row.sub = task[k].row.sub => h = k

\* The provider announces changes of a subscription that has a row and has been paid, with
\* its owner, and the last event shows what the provider has.
EventsInv ==
    /\ \A s \in Subs : provider[s].status = "active" => Paid(s)
    /\ \A e \in DOMAIN sent :
          /\ Genuine(sent[e], sent[e].owner)
          /\ sent[e].owner = provider[sent[e].sub].owner
          /\ HasRow(sent[e].sub) /\ Paid(sent[e].sub)
          /\ (\A d \in DOMAIN sent : sent[d].sub = sent[e].sub => d <= e) => Matches(sent[e])

\* An event of an undisturbed subscription is with a handler or will be delivered, until
\* it is applied, and no later one is applied before it.
DeliveryInv ==
    \A e \in DOMAIN sent : applied[e] = 0 /\ sent[e].sub \notin disturbed =>
        /\ IF e \in ledger
           THEN \E h \in Handlers : Applying(h) /\ task[h].event = e
           ELSE e \in unacked
        /\ \A d \in DOMAIN sent : sent[d].sub = sent[e].sub /\ e < d => applied[d] = 0

RowInv == RowsShape /\ RowsInv /\ HandlersInv /\ EventsInv /\ DeliveryInv

-----------------------------------------------------------------------------
(* Lemmas on the operators of the repository *)

\* The order of the natural numbers is well founded as a set of pairs.
LessOnNat == {p \in Nat \X Nat : p[1] < p[2]}

LEMMA LessIsOrder == OpToRel(<, Nat) = LessOnNat
  BY Zenon DEF OpToRel, LessOnNat

\* A nonempty set of indices has a greatest one: Max is a member and bounds the others.
LEMMA MaxIndex ==
    ASSUME NEW n \in Nat, NEW T \in SUBSET (1..n), T # {}
    PROVE  Max(T) \in T /\ \A i \in T : Max(T) >= i
<1>. DEFINE Mirror == {n - i : i \in T}
<1>1. Mirror \subseteq Nat /\ Mirror # {}
  <2>1. PICK i \in T : TRUE
    OBVIOUS
  <2>2. \A j \in T : n - j \in Nat
    OBVIOUS
  <2>. QED  BY <2>1, <2>2
<1>2. IsWellFoundedOn(LessOnNat, Nat)
  BY LessIsOrder, NatLessThanWellFounded, Zenon
<1>3. PICK x \in Mirror : \A y \in Mirror : ~(<<y, x>> \in LessOnNat)
  BY <1>1, <1>2, WFMin
<1>4. PICK top \in T : x = n - top
  BY <1>3
<1>5. \A i \in T : top >= i
  <2>. TAKE i \in T
  <2>1. n - i \in Mirror /\ n - i \in Nat /\ x \in Nat
    BY <1>1, <1>3
  <2>2. ~(n - i < x)
    BY <1>3, <2>1 DEF LessOnNat
  <2>. QED  BY <1>4, <2>1, <2>2
<1>. QED  BY <1>4, <1>5 DEF Max

\* The latest of some rows is one of them, or None.
LEMMA LatestIsRow ==
    ASSUME RowsShape, NEW mine \in SUBSET (DOMAIN rows), LatestOf(mine) # None
    PROVE  \E i \in mine : LatestOf(mine) = rows[i]
<1>1. mine # {} /\ LatestOf(mine) = rows[Max(mine)]
  BY DEF LatestOf
<1>2. Len(rows) \in Nat /\ mine \in SUBSET (1..Len(rows))
  BY DEF RowsShape
<1>3. Max(mine) \in mine
  BY <1>1, <1>2, MaxIndex
<1>. QED  BY <1>1, <1>3

\* An upsert puts the row last and keeps the rows of the other subscriptions.
LEMMA UpsertRows ==
    ASSUME RowsShape, NEW row \in StoredRow, rows' = upsert_subscription(row)
    PROVE  /\ RowsShape'
           /\ \A i \in DOMAIN rows' : rows'[i] = row
                 \/ \E j \in DOMAIN rows : rows[j].sub # row.sub /\ rows'[i] = rows[j]
           /\ \E i \in DOMAIN rows' : rows'[i] = row
           /\ \A j \in DOMAIN rows : \E i \in DOMAIN rows' : rows'[i].sub = rows[j].sub
<1>. DEFINE kept == Others(row.sub)
<1>1. /\ kept \in Seq(StoredRow)
      /\ \A i \in DOMAIN kept : \E j \in DOMAIN rows : rows[j].sub # row.sub /\ kept[i] = rows[j]
      /\ \A i, j \in DOMAIN kept : kept[i].sub = kept[j].sub => i = j
      /\ \A j \in DOMAIN rows : rows[j].sub # row.sub => \E i \in DOMAIN kept : kept[i] = rows[j]
  <2>1. CASE Stored(row.sub) = {}
    BY <2>1 DEF Others, Stored, RowsShape
  <2>2. CASE Stored(row.sub) # {}
    <3>1. PICK n \in Stored(row.sub) : kept = RemoveAt(rows, n)
      BY <2>2 DEF Others
    <3>2. n \in 1..Len(rows) /\ rows[n].sub = row.sub
      BY DEF Stored, RowsShape
    <3>3. /\ kept \in Seq(StoredRow)
          /\ Len(kept) = Len(rows) - 1
          /\ \A i \in 1..Len(rows) - 1 : kept[i] = IF i < n THEN rows[i] ELSE rows[i + 1]
      <4>. DEFINE front == SubSeq(rows, 1, n - 1)
                  back == SubSeq(rows, n + 1, Len(rows))
      <4>1. rows \in Seq(StoredRow) /\ Len(rows) \in Nat /\ n \in Nat
        BY <3>2 DEF RowsShape
      <4>2. /\ front \in Seq(StoredRow) /\ Len(front) = n - 1
            /\ \A i \in 1..n - 1 : front[i] = rows[i]
        BY <3>2, <4>1, SubSeqProperties
      <4>3. /\ back \in Seq(StoredRow) /\ Len(back) = Len(rows) - n
            /\ \A i \in 1..Len(rows) - n : back[i] = rows[n + i]
        BY <3>2, <4>1, SubSeqProperties
      <4>4. kept = front \o back
        BY <3>1 DEF RemoveAt
      <4>. HIDE DEF front, back, kept
      <4>5. /\ kept \in Seq(StoredRow)
            /\ Len(kept) = Len(front) + Len(back)
            /\ \A i \in 1..Len(front) + Len(back) :
                  kept[i] = IF i <= Len(front) THEN front[i] ELSE back[i - Len(front)]
        BY <4>2, <4>3, <4>4, ConcatProperties, Zenon
      <4>6. ASSUME NEW i \in 1..Len(rows) - 1
            PROVE  kept[i] = IF i < n THEN rows[i] ELSE rows[i + 1]
        <5>1. CASE i < n
          BY <3>2, <4>1, <4>2, <4>5, <5>1
        <5>2. CASE i >= n
          <6>1. i - (n - 1) \in 1..Len(rows) - n /\ n + (i - (n - 1)) = i + 1
            BY <3>2, <4>1, <5>2
          <6>2. back[i - (n - 1)] = rows[i + 1]
            BY <4>3, <6>1
          <6>3. i \in 1..Len(front) + Len(back) /\ ~(i <= Len(front)) /\ Len(front) = n - 1
            BY <3>2, <4>1, <4>2, <4>3, <5>2
          <6>4. kept[i] = back[i - Len(front)]
            BY <4>5, <6>3
          <6>. QED  BY <4>1, <5>2, <6>2, <6>3, <6>4
        <5>. QED  BY <4>1, <5>1, <5>2
      <4>. QED  BY <3>2, <4>1, <4>2, <4>3, <4>5, <4>6
    <3>4. \A j \in DOMAIN rows : rows[j].sub = row.sub => j = n
      BY <3>2 DEF RowsShape
    <3>. HIDE DEF kept
    <3>5. \A i \in DOMAIN kept : \E j \in DOMAIN rows : rows[j].sub # row.sub /\ kept[i] = rows[j]
      BY <3>2, <3>3, <3>4 DEF RowsShape
    <3>6. \A i, j \in DOMAIN kept : kept[i].sub = kept[j].sub => i = j
      <4>. TAKE i, j \in DOMAIN kept
      <4>. DEFINE at(k) == IF k < n THEN k ELSE k + 1
      <4>1. /\ i \in Nat /\ j \in Nat /\ n \in Nat
            /\ at(i) \in DOMAIN rows /\ kept[i] = rows[at(i)]
            /\ at(j) \in DOMAIN rows /\ kept[j] = rows[at(j)]
        BY <3>2, <3>3 DEF RowsShape
      <4>2. at(i) = at(j) => i = j
        BY <4>1
      <4>. QED  BY <4>1, <4>2 DEF RowsShape
    <3>7. ASSUME NEW j \in DOMAIN rows, rows[j].sub # row.sub
          PROVE  \E i \in DOMAIN kept : kept[i] = rows[j]
      <4>1. CASE j < n
        BY <3>2, <3>3, <3>7, <4>1 DEF RowsShape
      <4>2. CASE j > n
        <5>1. j - 1 \in DOMAIN kept /\ kept[j - 1] = rows[j]
          BY <3>2, <3>3, <3>7, <4>2 DEF RowsShape
        <5>. QED  BY <5>1
      <4>. QED  BY <3>2, <3>7, <4>1, <4>2 DEF RowsShape
    <3>. QED  BY <3>3, <3>5, <3>6, <3>7
  <2>. QED  BY <2>1, <2>2
<1>2. rows' = Append(kept, row)
  BY DEF upsert_subscription
<1>. HIDE DEF kept
<1>3. /\ rows' \in Seq(StoredRow) /\ Len(rows') = Len(kept) + 1
      /\ rows'[Len(kept) + 1] = row
      /\ \A i \in DOMAIN kept : i \in DOMAIN rows' /\ rows'[i] = kept[i]
      /\ \A i \in DOMAIN rows' : i \in DOMAIN kept \/ i = Len(kept) + 1
  BY <1>1, <1>2
<1>4. Len(kept) + 1 \in DOMAIN rows'
  BY <1>1, <1>3
<1>5. RowsShape'
  BY <1>1, <1>3 DEF RowsShape
<1>6. \A i \in DOMAIN rows' : rows'[i] = row
         \/ \E j \in DOMAIN rows : rows[j].sub # row.sub /\ rows'[i] = rows[j]
  BY <1>1, <1>3
<1>7. ASSUME NEW j \in DOMAIN rows PROVE \E i \in DOMAIN rows' : rows'[i].sub = rows[j].sub
  <2>1. CASE rows[j].sub = row.sub
    BY <1>3, <1>4, <2>1
  <2>2. CASE rows[j].sub # row.sub
    BY <1>1, <1>3, <2>2
  <2>. QED  BY <2>1, <2>2
<1>. QED  BY <1>3, <1>4, <1>5, <1>6, <1>7

-----------------------------------------------------------------------------
(* Steps *)

\* One handler's record is replaced.
LEMMA TaskMove ==
    ASSUME TaskShape, NEW h \in Handlers, NEW t, Become(h, t)
    PROVE  task'[h] = t /\ \A k \in Handlers : k # h => task'[k] = task[k]
  BY DEF TaskShape, Become

\* When events are neither sent nor recorded nor applied, what was on its way still is,
\* if a handler that lets go of an event leaves its subscription disturbed.
LEMMA DeliveryKept ==
    ASSUME DeliveryInv, UNCHANGED <<sent, applied, ledger>>,
           disturbed \subseteq disturbed',
           \A e \in unacked : e \in unacked' \/ e \in ledger \/ sent[e].sub \in disturbed',
           \A k \in Handlers : Applying(k) =>
              \/ Applying(k)' /\ task'[k].event = task[k].event
              \/ sent[task[k].event].sub \in disturbed'
    PROVE  DeliveryInv'
  BY DEF DeliveryInv, Applying

\* The provider forgets nothing and takes no subscription from its owner or its customer.
KeepsKnown ==
    \A s : Known(s) => /\ Known(s)'
                       /\ provider'[s].owner = provider[s].owner
                       /\ provider'[s].customer = provider[s].customer

\* Only the provider's new subscriptions change what it shows.
SettledProvider ==
    \A s \in Subs :
       \/ /\ provider'[s].owner = provider[s].owner
          /\ provider'[s].customer = provider[s].customer
          /\ provider'[s].status = provider[s].status
          /\ provider'[s].end = provider[s].end
       \/ provider[s].status = None /\ provider'[s].status = "created"

LEMMA SettledKeepsKnown == SettledProvider => KeepsKnown
  BY BillingAssumption DEF SettledProvider, KeepsKnown, Known

\* Whom a subscription belongs to, and who pays for it, stays so.
LEMMA BelongsKept ==
    ASSUME EventsInv, KeepsKnown, \A s : Paid(s) => Paid(s)'
    PROVE  /\ \A s, u : BelongsTo(s, u) => BelongsTo(s, u)'
           /\ \A s, c : Known(s) /\ NamesPayer(s, c) => NamesPayer(s, c)'
<1>1. \A s : Paid(s) => Known(s)
  BY DEF EventsInv, Genuine, BelongsTo, Paid
<1>2. ASSUME NEW u, NEW c, PaysAs(u, c) PROVE PaysAs(u, c)'
  <2>1. PICK s \in Subs : provider[s].owner = u /\ provider[s].customer = c /\ Paid(s)
    BY <1>2 DEF PaysAs
  <2>2. provider'[s].owner = u /\ provider'[s].customer = c /\ Paid(s)'
    BY <1>1, <2>1 DEF KeepsKnown
  <2>. QED  BY <2>2 DEF PaysAs
<1>3. ASSUME NEW s, NEW u, BelongsTo(s, u) PROVE BelongsTo(s, u)'
  <2>1. Known(s)' /\ provider'[s].owner = provider[s].owner
        /\ provider'[s].customer = provider[s].customer
    BY <1>3 DEF BelongsTo, KeepsKnown
  <2>2. CASE provider[s].owner = u
    BY <1>3, <2>1, <2>2 DEF BelongsTo
  <2>3. CASE PaysAs(u, provider[s].customer)
    <3>1. PaysAs(u, provider[s].customer)'
      BY <1>2, <2>1, <2>3
    <3>. QED  BY <1>3, <2>1, <3>1 DEF BelongsTo
  <2>. QED  BY <1>3, <2>2, <2>3 DEF BelongsTo
<1>4. ASSUME NEW s, NEW c, Known(s), NamesPayer(s, c) PROVE NamesPayer(s, c)'
  BY <1>4 DEF NamesPayer, KeepsKnown
<1>. QED  BY <1>3, <1>4

\* A step that changes neither the rows nor the events, nor what the provider's known
\* subscriptions show, keeps the invariant if the handler it moves is in order.
LEMMA SettledSteps ==
    ASSUME RowInv, DeliveryInv', UNCHANGED <<sent, rows, applied>>,
           disturbed \subseteq disturbed',
           SettledProvider,
           NEW h,
           \A k \in Handlers :
              \/ task'[k] = task[k]
              \/ /\ k = h
                 /\ HandlerFine(k)'
                 /\ task'[k].pc = "saving" => provider[task'[k].row.sub].status = None
    PROVE  RowInv'
<1>. USE DEF RowInv
<1>0. /\ \A s : HasRow(s)' <=> HasRow(s)
      /\ \A s : Paid(s)' <=> Paid(s)
      /\ \A s : Unapplied(s)' <=> Unapplied(s)
  BY DEF HasRow, Paid, Unapplied
<1>1. /\ \A s, u : BelongsTo(s, u) => BelongsTo(s, u)'
      /\ \A s, c : Known(s) /\ NamesPayer(s, c) => NamesPayer(s, c)'
      /\ \A s : HasRow(s)' <=> HasRow(s)
      /\ \A s : Paid(s)' <=> Paid(s)
      /\ \A s : Unapplied(s)' <=> Unapplied(s)
  BY <1>0, SettledKeepsKnown, BelongsKept
<1>2. ASSUME NEW shown, NEW u, Genuine(shown, u)
      PROVE  /\ shown.sub \in Subs
             /\ NamesPayer(shown.sub, shown.customer)'
             /\ BelongsTo(shown.sub, u)'
             /\ shown.status = "active" => Paid(shown.sub)'
             /\ Matches(shown) => shown.status = provider'[shown.sub].status
                                  /\ shown.end = provider'[shown.sub].end
             /\ UpToDate(shown) /\ shown.sub \notin disturbed' =>
                   Unapplied(shown.sub)' \/ (shown.status = provider'[shown.sub].status
                                             /\ shown.end = provider'[shown.sub].end)
  <2>1. /\ BelongsTo(shown.sub, u) /\ Known(shown.sub) /\ shown.sub \in Subs
        /\ provider[shown.sub].status # None
    BY <1>2 DEF Genuine, BelongsTo, Known
  <2>2. /\ provider'[shown.sub].status = provider[shown.sub].status
        /\ provider'[shown.sub].end = provider[shown.sub].end
    BY <2>1 DEF SettledProvider
  <2>. QED  BY <1>1, <1>2, <2>1, <2>2 DEF Genuine, Matches, UpToDate
<1>3. RowsShape'
  BY DEF RowsShape
<1>4. RowsInv'
  BY <1>2 DEF RowsInv, Genuine, UpToDate, Matches
<1>5. ASSUME NEW k \in Handlers, task'[k] = task[k] PROVE HandlerFine(k)'
  <2>1. HandlerFine(k)
    BY DEF HandlersInv
  <2>2. Storing(k) => Genuine(task[k].row, task[k].user) /\ task[k].row \in Event
    BY <2>1 DEF HandlerFine
  <2>3. Storing(k)' => (Genuine(task[k].row, task[k].user) /\ task[k].row \in Event)'
    BY <1>2, <1>5, <2>2 DEF Storing, Genuine
  <2>4. (task[k].pc = "saving" => ~HasRow(task[k].row.sub) /\ Matches(task[k].row))'
    BY <1>1, <1>2, <1>5, <2>1, <2>2 DEF HandlerFine, Storing, Matches
  <2>5. (Cancelling(k) => BelongsTo(task[k].sub, task[k].user) /\ HasRow(task[k].sub))'
    BY <1>1, <1>5, <2>1 DEF HandlerFine, Cancelling
  <2>6. (task[k].pc = "savingCancel" => task[k].row.sub = task[k].sub /\ UpToDate(task[k].row))'
    BY <1>2, <1>5, <2>1, <2>2 DEF HandlerFine, Storing, UpToDate, Matches
  <2>7. (task[k].pc = "cancelling" => NamesPayer(task[k].sub, task[k].customer)
                                      /\ task[k].customer \in Customers \cup {"pending"})'
    BY <1>1, <1>5, <2>1 DEF HandlerFine, Cancelling, BelongsTo
  <2>8. (task[k].pc = "upserting" => Genuine(sent[task[k].event], task[k].user))'
    BY <1>2, <1>5, <2>1 DEF HandlerFine, Genuine
  <2>. QED  BY <2>3, <2>4, <2>5, <2>6, <2>7, <2>8 DEF HandlerFine
<1>6. HandlersInv'
  <2>1. \A k \in Handlers : HandlerFine(k)'
    BY <1>5
  <2>2. ASSUME NEW k \in Handlers, task[k].pc = "saving"
        PROVE  provider[task[k].row.sub].status # None
    BY <2>2 DEF HandlersInv, HandlerFine, Storing, Genuine, BelongsTo, Known
  <2>3. ASSUME NEW j \in Handlers, NEW k \in Handlers, task'[j].pc = "saving",
               task'[k].pc = "saving", task'[j].row.sub = task'[k].row.sub
        PROVE  j = k
    BY <2>2, <2>3 DEF HandlersInv
  <2>. QED  BY <2>1, <2>3 DEF HandlersInv
<1>7. EventsInv'
  <2>1. \A s \in Subs : provider'[s].status = "active" => Paid(s)'
    BY <1>1 DEF EventsInv, SettledProvider
  <2>2. ASSUME NEW e \in DOMAIN sent
        PROVE  /\ Genuine(sent[e], sent[e].owner)'
               /\ sent[e].owner = provider'[sent[e].sub].owner
               /\ HasRow(sent[e].sub)' /\ Paid(sent[e].sub)'
               /\ (\A d \in DOMAIN sent : sent[d].sub = sent[e].sub => d <= e) => Matches(sent[e])'
    <3>1. Genuine(sent[e], sent[e].owner) /\ Known(sent[e].sub)
      BY DEF EventsInv, Genuine, BelongsTo
    <3>2. sent[e].owner = provider'[sent[e].sub].owner
      BY <3>1, SettledKeepsKnown DEF EventsInv, KeepsKnown
    <3>. QED  BY <1>1, <1>2, <3>1, <3>2 DEF EventsInv, Genuine, Matches
  <2>. QED  BY <2>1, <2>2 DEF EventsInv
<1>. QED  BY <1>3, <1>4, <1>6, <1>7

\* What is stored is up to date if it must be; an event is taken off only where nothing
\* older is about to be stored.
StoredInTime(shown) ==
    /\ shown.sub \notin disturbed' => Unapplied(shown.sub)' \/ Matches(shown)
    /\ \A s \in Subs : Unapplied(s) /\ s \notin disturbed' =>
          \/ Unapplied(s)'
          \/ s = shown.sub /\ \A k \in Handlers : task[k].pc = "savingCancel" => task[k].sub # s

\* No other checkout is about to store the first row of the subscription.
OnlyStores(h, s) ==
    \A k \in Handlers : task[k].pc = "saving" /\ task[k].row.sub = s => k = h

\* Storing what was answered or announced keeps the invariant: the row is the owner's and
\* up to date.
LEMMA UpsertStep ==
    ASSUME LedgerInv, RowInv, DeliveryInv', NEW h \in Handlers,
           NEW t, t.pc \notin {"saving", "upserting", "cancelling", "savingCancel"}, Become(h, t),
           NEW shown \in Event, NEW user \in Users, NEW cancel \in BOOLEAN,
           Genuine(shown, user), rows' = upsert_subscription(RowOf(shown, user, cancel)),
           UNCHANGED <<sent, provider>>, disturbed \subseteq disturbed',
           StoredInTime(shown), OnlyStores(h, shown.sub)
    PROVE  RowInv'
<1>. USE DEF RowInv, StoredInTime, OnlyStores
<1>. DEFINE row == RowOf(shown, user, cancel)
<1>1. /\ row \in StoredRow
      /\ row.sub = shown.sub /\ row.user = user /\ row.customer = shown.customer
      /\ row.status = shown.status /\ row.end = shown.end
  BY DEF RowOf, StoredRow, Event
<1>. HIDE DEF row
<1>2. /\ RowsShape'
      /\ \A i \in DOMAIN rows' : rows'[i] = row
            \/ \E j \in DOMAIN rows : rows[j].sub # shown.sub /\ rows'[i] = rows[j]
      /\ \A s : HasRow(s)' <=> HasRow(s) \/ s = shown.sub
  BY <1>1, UpsertRows DEF row, HasRow
<1>3. task'[h] = t /\ \A k \in Handlers : k # h => task'[k] = task[k]
  BY TaskMove DEF LedgerInv
<1>0. \A s : Paid(s)' <=> Paid(s)
  BY DEF Paid
<1>4. /\ \A s, u : BelongsTo(s, u)' <=> BelongsTo(s, u)
      /\ \A s, c : NamesPayer(s, c)' <=> NamesPayer(s, c)
      /\ \A s : Paid(s)' <=> Paid(s)
  BY <1>0 DEF BelongsTo, Known, PaysAs, NamesPayer
<1>5. ASSUME NEW r, NEW u, Genuine(r, u)
      PROVE  /\ r.sub \in Subs
             /\ NamesPayer(r.sub, r.customer)'
             /\ BelongsTo(r.sub, u)'
             /\ r.status = "active" => Paid(r.sub)'
             /\ Matches(r) => r.status = provider'[r.sub].status /\ r.end = provider'[r.sub].end
  <2>1. r.sub \in Subs
    BY <1>5 DEF Genuine, BelongsTo, Known
  <2>. QED  BY <1>4, <1>5, <2>1 DEF Genuine, Matches
<1>6. RowsInv'
  <2>1. ASSUME NEW i \in DOMAIN rows' PROVE (Genuine(rows[i], rows[i].user) /\ UpToDate(rows[i]))'
    <3>1. CASE rows'[i] = row
      BY <1>1, <1>5, <3>1 DEF Genuine, UpToDate, Matches
    <3>2. ASSUME NEW j \in DOMAIN rows, rows[j].sub # shown.sub, rows'[i] = rows[j]
          PROVE  (Genuine(rows[i], rows[i].user) /\ UpToDate(rows[i]))'
      <4>1. Genuine(rows[j], rows[j].user) /\ UpToDate(rows[j])
        BY DEF RowsInv
      <4>2. Genuine(rows[i], rows[i].user)'
        BY <1>5, <3>2, <4>1 DEF Genuine
      <4>3. UpToDate(rows[i])'
        BY <1>5, <3>2, <4>1 DEF UpToDate, Matches
      <4>. QED  BY <4>2, <4>3
    <3>. QED  BY <1>2, <3>1, <3>2
  <2>. QED  BY <2>1 DEF RowsInv
<1>7. ASSUME NEW k \in Handlers, k # h PROVE HandlerFine(k)'
  <2>1. HandlerFine(k) /\ task'[k] = task[k]
    BY <1>3, <1>7 DEF HandlersInv
  <2>2. Storing(k) => Genuine(task[k].row, task[k].user) /\ task[k].row \in Event
    BY <2>1 DEF HandlerFine
  <2>3. Storing(k)' => (Genuine(task[k].row, task[k].user) /\ task[k].row \in Event)'
    BY <1>5, <2>1, <2>2 DEF Storing, Genuine
  <2>4. (task[k].pc = "saving" => ~HasRow(task[k].row.sub) /\ Matches(task[k].row))'
    BY <1>2, <1>5, <1>7, <2>1, <2>2 DEF HandlerFine, Storing, Matches
  <2>5. (Cancelling(k) => BelongsTo(task[k].sub, task[k].user) /\ HasRow(task[k].sub))'
    BY <1>2, <1>4, <2>1 DEF HandlerFine, Cancelling
  <2>6. (task[k].pc = "savingCancel" => task[k].row.sub = task[k].sub /\ UpToDate(task[k].row))'
    <3>. SUFFICES ASSUME task[k].pc = "savingCancel"
                  PROVE  (task[k].row.sub = task[k].sub /\ UpToDate(task[k].row))'
      BY <2>1
    <3>1. /\ task[k].row.sub = task[k].sub /\ UpToDate(task[k].row)
          /\ Genuine(task[k].row, task[k].user)
      BY <2>1, <2>2 DEF HandlerFine, Storing
    <3>2. task[k].row.sub \in Subs
      BY <1>5, <3>1
    <3>. QED  BY <1>5, <2>1, <3>1, <3>2 DEF UpToDate, Matches
  <2>7. (task[k].pc = "cancelling" => NamesPayer(task[k].sub, task[k].customer)
                                      /\ task[k].customer \in Customers \cup {"pending"})'
    BY <1>4, <2>1 DEF HandlerFine
  <2>8. (task[k].pc = "upserting" => Genuine(sent[task[k].event], task[k].user))'
    BY <1>5, <2>1 DEF HandlerFine, Genuine
  <2>. QED  BY <2>3, <2>4, <2>5, <2>6, <2>7, <2>8 DEF HandlerFine
<1>8. HandlerFine(h)'
  BY <1>3 DEF HandlerFine, Storing, Cancelling
<1>9. HandlersInv'
  BY <1>3, <1>7, <1>8 DEF HandlersInv
<1>10. EventsInv'
  BY <1>2, <1>4, <1>5 DEF EventsInv, Genuine, Matches
<1>. QED  BY <1>2, <1>6, <1>9, <1>10

\* A change at the provider comes with an event that shows it, which is to be applied.
LEMMA ChangeRows ==
    ASSUME LedgerInv, RowInv, NEW s \in Subs, NEW status \in Statuses, NEW end \in Nat,
           provider[s].status # None, HasRow(s), status = "active" \/ Paid(s),
           Change(s, status, end)
    PROVE  RowInv'
<1>. USE DEF RowInv
<1>1. /\ provider[s].owner \in Users /\ sent \in Seq(Event) /\ Len(applied) = Len(sent)
      /\ applied \in Seq(Nat) /\ ledger \subseteq DOMAIN sent
      /\ DOMAIN provider = Subs /\ DOMAIN provider[s] = {"owner", "customer", "status", "end", "scheduled"}
  BY DEF LedgerInv, ProviderShape, Subscription, EventsAgree
<1>2. /\ UNCHANGED <<rows, ledger, task, disturbed>> /\ applied' = Append(applied, 0)
      /\ unacked' = unacked \cup {Len(sent) + 1}
      /\ provider' = [provider EXCEPT ![s].status = status, ![s].end = end]
  BY DEF Change, dbVars
<1>3. PICK shown \in Shown(s, status, end) : sent' = Append(sent, shown)
  BY DEF Change
<1>4. /\ shown.sub = s /\ shown.status = status /\ shown.end = end
      /\ shown.owner = provider[s].owner
      /\ shown.customer \in {"pending", provider[s].customer}
  BY <1>3 DEF Shown
<1>. DEFINE new == Len(sent) + 1
<1>5. /\ new \in Nat /\ new \notin DOMAIN sent
      /\ DOMAIN sent' = DOMAIN sent \cup {new} /\ sent'[new] = shown
      /\ applied'[new] = 0
      /\ \A e \in DOMAIN sent : e < new /\ sent'[e] = sent[e] /\ applied'[e] = applied[e]
  BY <1>1, <1>2, <1>3
<1>. HIDE DEF new
<1>6. /\ \A r \in Subs : r # s => provider'[r] = provider[r]
      /\ provider'[s].owner = provider[s].owner
      /\ provider'[s].customer = provider[s].customer
      /\ provider'[s].status = status /\ provider'[s].end = end /\ status # None
  BY <1>1, <1>2, BillingAssumption DEF Statuses
<1>7. /\ \A r, u : BelongsTo(r, u) => BelongsTo(r, u)'
      /\ \A r, c : Known(r) /\ NamesPayer(r, c) => NamesPayer(r, c)'
      /\ \A r : HasRow(r)' <=> HasRow(r)
      /\ \A r : Paid(r) => Paid(r)'
      /\ \A r : Unapplied(r) => Unapplied(r)'
      /\ Unapplied(s)'
      /\ Paid(s)' /\ KeepsKnown
  <2>2. \A r : HasRow(r)' <=> HasRow(r)
    BY <1>2 DEF HasRow
  <2>3. ASSUME NEW r, NEW e \in DOMAIN sent, sent[e].sub = r
        PROVE  /\ sent[e].status = "active" => Paid(r)'
               /\ applied[e] = 0 => Unapplied(r)'
    BY <1>5, <2>3 DEF Paid, Unapplied
  <2>4. Unapplied(s)' /\ (status = "active" => Paid(s)')
    BY <1>4, <1>5 DEF Paid, Unapplied
  <2>5. \A r : (Paid(r) => Paid(r)') /\ (Unapplied(r) => Unapplied(r)')
    BY <2>3 DEF Paid, Unapplied
  <2>6. KeepsKnown
    BY <1>6 DEF KeepsKnown, Known
  <2>. QED  BY <2>2, <2>4, <2>5, <2>6, BelongsKept
<1>8. ASSUME NEW r, NEW u, Genuine(r, u)
      PROVE  /\ r.sub \in Subs
             /\ NamesPayer(r.sub, r.customer)'
             /\ BelongsTo(r.sub, u)'
             /\ r.status = "active" => Paid(r.sub)'
             /\ r.sub # s /\ Matches(r) =>
                   r.status = provider'[r.sub].status /\ r.end = provider'[r.sub].end
             /\ UpToDate(r) /\ r.sub \notin disturbed' =>
                   Unapplied(r.sub)' \/ (r.status = provider'[r.sub].status
                                         /\ r.end = provider'[r.sub].end)
  <2>1. BelongsTo(r.sub, u) /\ Known(r.sub) /\ r.sub \in Subs
    BY <1>8 DEF Genuine, BelongsTo, Known
  <2>. QED  BY <1>2, <1>6, <1>7, <1>8, <2>1 DEF Genuine, Matches, UpToDate
<1>9. RowsShape'
  BY <1>2 DEF RowsShape
<1>10. RowsInv'
  BY <1>2, <1>8 DEF RowsInv, Genuine, UpToDate, Matches
<1>11. ASSUME NEW k \in Handlers PROVE HandlerFine(k)'
  <2>1. HandlerFine(k) /\ task'[k] = task[k]
    BY <1>2 DEF HandlersInv
  <2>2. Storing(k) => Genuine(task[k].row, task[k].user) /\ task[k].row \in Event
    BY <2>1 DEF HandlerFine
  <2>3. Storing(k)' => (Genuine(task[k].row, task[k].user) /\ task[k].row \in Event)'
    BY <1>8, <2>1, <2>2 DEF Storing, Genuine
  <2>4. (task[k].pc = "saving" => ~HasRow(task[k].row.sub) /\ Matches(task[k].row))'
    BY <1>7, <1>8, <2>1, <2>2 DEF HandlerFine, Storing, Matches
  <2>5. (Cancelling(k) => BelongsTo(task[k].sub, task[k].user) /\ HasRow(task[k].sub))'
    BY <1>7, <2>1 DEF HandlerFine, Cancelling
  <2>6. (task[k].pc = "savingCancel" => task[k].row.sub = task[k].sub /\ UpToDate(task[k].row))'
    BY <1>8, <2>1, <2>2 DEF HandlerFine, Storing, UpToDate, Matches
  <2>7. (task[k].pc = "cancelling" => NamesPayer(task[k].sub, task[k].customer)
                                      /\ task[k].customer \in Customers \cup {"pending"})'
    BY <1>7, <2>1 DEF HandlerFine, Cancelling, BelongsTo
  <2>8. (task[k].pc = "upserting" => Genuine(sent[task[k].event], task[k].user))'
    <3>1. task[k].pc = "upserting" => task[k].event \in DOMAIN sent
      BY <1>1 DEF LedgerInv, OneAttempt, Applying
    <3>. QED  BY <1>5, <1>8, <2>1, <3>1 DEF HandlerFine, Genuine
  <2>. QED  BY <2>3, <2>4, <2>5, <2>6, <2>7, <2>8 DEF HandlerFine
<1>12. HandlersInv'
  BY <1>2, <1>11 DEF HandlersInv
<1>13. EventsInv'
  <2>1. \A r \in Subs : provider'[r].status = "active" => Paid(r)'
    BY <1>6, <1>7 DEF EventsInv
  <2>2. ASSUME NEW e \in DOMAIN sent
        PROVE  /\ Genuine(sent[e], sent[e].owner)'
               /\ (sent[e].owner = provider[sent[e].sub].owner)'
               /\ HasRow(sent[e].sub)' /\ Paid(sent[e].sub)'
               /\ (\A d \in DOMAIN sent' : sent'[d].sub = sent'[e].sub => d <= e)
                     => Matches(sent[e])'
    <3>1. /\ Genuine(sent[e], sent[e].owner) /\ HasRow(sent[e].sub) /\ sent'[e] = sent[e]
          /\ Paid(sent[e].sub) /\ sent[e].owner = provider[sent[e].sub].owner
      BY <1>5 DEF EventsInv
    <3>4. provider'[sent[e].sub].owner = provider[sent[e].sub].owner
      BY <1>7, <3>1 DEF Genuine, BelongsTo, KeepsKnown
    <3>2. CASE sent[e].sub = s
      <4>1. ~(new <= e) /\ sent'[new].sub = sent'[e].sub /\ new \in DOMAIN sent'
        BY <1>1, <1>4, <1>5, <3>1, <3>2
      <4>. QED  BY <1>7, <1>8, <3>1, <3>4, <4>1 DEF Genuine
    <3>3. CASE sent[e].sub # s
      <4>1. (\A d \in DOMAIN sent' : sent'[d].sub = sent'[e].sub => d <= e) => Matches(sent[e])
        BY <1>5, <3>1 DEF EventsInv
      <4>. QED  BY <1>7, <1>8, <3>1, <3>3, <3>4, <4>1 DEF Genuine, Matches
    <3>. QED  BY <3>2, <3>3
  <2>3. /\ Genuine(shown, shown.owner)' /\ HasRow(shown.sub)' /\ Matches(shown)'
        /\ shown.owner = provider'[shown.sub].owner /\ Paid(shown.sub)'
    BY <1>1, <1>4, <1>6, <1>7 DEF Genuine, Matches, BelongsTo, Known, NamesPayer
  <2>. QED  BY <1>5, <2>1, <2>2, <2>3 DEF EventsInv
<1>14. DeliveryInv'
  <2>1. ASSUME NEW e \in DOMAIN sent, applied[e] = 0, sent[e].sub \notin disturbed
        PROVE  /\ IF e \in ledger'
                  THEN \E k \in Handlers : Applying(k)' /\ task'[k].event = e
                  ELSE e \in unacked'
               /\ \A d \in DOMAIN sent' : sent'[d].sub = sent'[e].sub /\ e < d => applied'[d] = 0
    BY <1>2, <1>5, <2>1 DEF DeliveryInv, Applying
  <2>2. new \notin ledger' /\ new \in unacked' /\ \A d \in DOMAIN sent' : ~(new < d)
    BY <1>1, <1>2, <1>5 DEF new
  <2>. QED  BY <1>2, <1>5, <2>1, <2>2 DEF DeliveryInv
<1>. QED  BY <1>9, <1>10, <1>12, <1>13, <1>14

\* A request that begins a checkout, ends, or fails holds nothing to be stored.
LEMMA IdleSteps ==
    ASSUME LedgerInv, RowInv, NEW h \in Handlers, NEW t, t.pc \in {"idle", "creating"}, Become(h, t),
           UNCHANGED <<sent, rows, applied, ledger>>, disturbed \subseteq disturbed',
           \A e \in unacked : e \in unacked' \/ e \in ledger,
           Applying(h) => sent[task[h].event].sub \in disturbed',
           SettledProvider
    PROVE  RowInv'
<1>1. task'[h] = t /\ \A k \in Handlers : k # h => task'[k] = task[k]
  BY TaskMove DEF LedgerInv
<1>2. DeliveryInv'
  BY <1>1, DeliveryKept DEF RowInv, Applying
<1>3. HandlerFine(h)' /\ task'[h].pc # "saving"
  BY <1>1 DEF HandlerFine, Storing, Cancelling
<1>. QED  BY <1>1, <1>2, <1>3, SettledSteps

\* A request that goes on with an answer in hand, or with the row it has read.
LEMMA AnswerSteps ==
    ASSUME LedgerInv, RowInv, NEW h \in Handlers, NEW t, Become(h, t), ~Applying(h),
           HandlerFine(h)', t.pc = "saving" => provider[t.row.sub].status = None,
           UNCHANGED <<sent, rows, applied, ledger, unacked, disturbed>>,
           SettledProvider
    PROVE  RowInv'
<1>1. task'[h] = t /\ \A k \in Handlers : k # h => task'[k] = task[k]
  BY TaskMove DEF LedgerInv
<1>2. DeliveryInv'
  BY <1>1, DeliveryKept DEF RowInv, Applying
<1>. QED  BY <1>1, <1>2, SettledSteps

LEMMA StartCheckoutRows ==
    ASSUME LedgerInv, RowInv, NEW h \in Handlers, NEW u \in Users, StartCheckout(h, u)
    PROVE  RowInv'
<1>1. /\ UNCHANGED <<provider, sent, unacked, rows, ledger, applied, disturbed>>
      /\ task[h].pc = "idle"
      /\ Become(h, Idle) \/ Become(h, [Idle EXCEPT !.pc = "creating", !.user = u])
  BY DEF StartCheckout, BeginRequest, providerVars, dbVars, End
<1>2. ASSUME NEW t, t.pc \in {"idle", "creating"}, Become(h, t) PROVE RowInv'
  BY <1>1, <1>2, IdleSteps DEF Applying, SettledProvider
<1>3. CASE Become(h, Idle)
  BY <1>2, <1>3 DEF Idle
<1>4. CASE Become(h, [Idle EXCEPT !.pc = "creating", !.user = u])
  <2>. DEFINE t == [Idle EXCEPT !.pc = "creating", !.user = u]
  <2>1. t.pc = "creating"
    BY DEF Idle
  <2>. HIDE DEF t
  <2>2. Become(h, t)
    BY <1>4 DEF t
  <2>. QED  BY <1>2, <2>1, <2>2
<1>. QED  BY <1>1, <1>3, <1>4

\* A cancellation reads the latest row, which is the user's and has the subscription.
LEMMA StartCancelRows ==
    ASSUME LedgerInv, RowInv, NEW h \in Handlers, NEW u \in Users, StartCancel(h, u)
    PROVE  RowInv'
<1>. DEFINE row == get_subscription_for_user(u)
            mine == {i \in DOMAIN rows : rows[i].user = u}
            t == [Idle EXCEPT !.pc = "cancelling", !.user = row.user, !.sub = row.sub,
                          !.customer = row.customer]
<1>1. /\ UNCHANGED <<provider, sent, unacked, rows, ledger, applied, disturbed>>
      /\ task[h].pc = "idle"
      /\ Become(h, Idle) \/ (row # None /\ Become(h, t))
  BY DEF StartCancel, BeginRequest, providerVars, dbVars, End
<1>2. CASE Become(h, Idle)
  BY <1>1, <1>2, IdleSteps DEF Idle, Applying, SettledProvider
<1>3. CASE row # None /\ Become(h, t)
  <2>1. row = LatestOf(mine) /\ mine \in SUBSET (DOMAIN rows)
    BY DEF get_subscription_for_user
  <2>2. PICK i \in mine : row = rows[i]
    BY <1>3, <2>1, LatestIsRow DEF RowInv
  <2>3. /\ BelongsTo(row.sub, row.user) /\ HasRow(row.sub) /\ NamesPayer(row.sub, row.customer)
        /\ row.customer \in Customers \cup {"pending"}
    <3>1. BelongsTo(rows[i].sub, rows[i].user) /\ NamesPayer(rows[i].sub, rows[i].customer)
      BY DEF RowInv, RowsInv, Genuine
    <3>2. HasRow(rows[i].sub)
      BY DEF HasRow
    <3>4. rows[i] \in StoredRow
      BY DEF RowInv, RowsShape
    <3>3. rows[i].customer \in Customers \cup {"pending"}
      BY <3>4 DEF StoredRow
    <3>. QED  BY <2>2, <3>1, <3>2, <3>3
  <2>4. t.pc = "cancelling" /\ t.user = row.user /\ t.sub = row.sub /\ t.customer = row.customer
    BY DEF Idle
  <2>. HIDE DEF t, row
  <2>5. task'[h] = t
    BY <1>3, TaskMove DEF LedgerInv
  <2>7. SettledProvider /\ ~Applying(h)
    BY <1>1 DEF SettledProvider, Applying
  <2>8. /\ \A s, u_ : BelongsTo(s, u_) => BelongsTo(s, u_)'
        /\ \A s, c : Known(s) /\ NamesPayer(s, c) => NamesPayer(s, c)'
        /\ \A s : HasRow(s) => HasRow(s)'
    BY <1>1, <2>7, SettledKeepsKnown, BelongsKept DEF RowInv, Paid, HasRow
  <2>6. HandlerFine(h)'
    BY <2>3, <2>4, <2>5, <2>8 DEF HandlerFine, Storing, Cancelling, BelongsTo
  <2>. QED  BY <1>1, <1>3, <2>4, <2>6, <2>7, AnswerSteps
<1>. QED  BY <1>1, <1>2, <1>3

\* A new subscription is the user's, has no row yet, and nobody else has its answer.
LEMMA CreateRows ==
    ASSUME LedgerInv, RowInv, NEW h \in Handlers, create_checkout_session(h)
    PROVE  RowInv'
<1>1. /\ UNCHANGED <<sent, unacked, rows, ledger, applied, disturbed>>
      /\ task[h].pc = "creating" /\ task[h].user \in Users
      /\ DOMAIN task[h] = Fields
  BY DEF create_checkout_session, dbVars, LedgerInv, TaskShape
<1>2. CASE End(h) /\ UNCHANGED provider
  BY <1>1, <1>2, IdleSteps DEF Idle, End, Applying, SettledProvider
<1>3. ASSUME NEW s \in Subs, provider[s].status = None, NEW c \in Customers,
             provider' = [provider EXCEPT ![s] =
                [owner |-> task[h].user, customer |-> c, status |-> "created", end |-> 0,
                 scheduled |-> FALSE]]
      PROVE  /\ End(h) => RowInv'
             /\ Become(h, [task[h] EXCEPT !.pc = "saving", !.row =
                   [sub |-> s, status |-> "created", end |-> 0, owner |-> task[h].user,
                    customer |-> "pending"]]) => RowInv'
  <2>1. /\ provider'[s].owner = task[h].user /\ provider'[s].status = "created"
        /\ provider'[s].end = 0
        /\ \A r \in Subs : r # s => provider'[r] = provider[r]
    BY <1>3 DEF LedgerInv, ProviderShape
  <2>0. SettledProvider /\ ~Applying(h)
    BY <1>1, <1>3, <2>1 DEF SettledProvider, Applying
  <2>2. ASSUME End(h) PROVE RowInv'
    BY <1>1, <2>0, <2>2, IdleSteps DEF Idle, End
  <2>. DEFINE row == [sub |-> s, status |-> "created", end |-> 0, owner |-> task[h].user,
                      customer |-> "pending"]
              t == [task[h] EXCEPT !.pc = "saving", !.row = row]
  <2>3. ASSUME Become(h, t) PROVE RowInv'
    <3>1. /\ row \in Event /\ row.sub = s /\ row.status = "created" /\ row.end = 0
          /\ row.customer = "pending"
      BY <1>1 DEF Event, Statuses
    <3>. HIDE DEF row
    <3>2. t.pc = "saving" /\ t.row = row /\ t.user = task[h].user
      BY <1>1 DEF Fields
    <3>. HIDE DEF t
    <3>3. task'[h] = t
      BY <2>3, TaskMove DEF LedgerInv
    <3>4. ~HasRow(s)
      BY <1>3 DEF HasRow, RowInv, RowsInv, Genuine, BelongsTo, Known
    <3>5. provider'[s].status # None /\ ~\E i \in DOMAIN rows' : rows'[i].sub = s
      BY <1>1, <2>1, <3>4, BillingAssumption DEF HasRow
    <3>6. Genuine(task[h].row, task[h].user)'
      BY <1>1, <2>1, <3>1, <3>2, <3>3, <3>5, BillingAssumption DEF Genuine, BelongsTo, Known, NamesPayer
    <3>7. (~HasRow(task[h].row.sub) /\ Matches(task[h].row))'
      BY <2>1, <3>1, <3>2, <3>3, <3>5 DEF HasRow, Matches
    <3>8. HandlerFine(h)'
      BY <3>1, <3>2, <3>3, <3>6, <3>7 DEF HandlerFine, Cancelling
    <3>. QED  BY <1>1, <1>3, <2>0, <2>3, <3>1, <3>2, <3>8, AnswerSteps
  <2>. QED  BY <2>2, <2>3
<1>. QED  BY <1>1, <1>2, <1>3 DEF create_checkout_session

\* The provider answers a cancellation with the subscription as it is.
LEMMA CancelRows ==
    ASSUME LedgerInv, RowInv, NEW h \in Handlers, cancel_at_period_end(h)
    PROVE  RowInv'
<1>1. /\ UNCHANGED <<sent, unacked, rows, ledger, applied, disturbed>>
      /\ task[h].pc = "cancelling" /\ DOMAIN task[h] = Fields
  BY DEF cancel_at_period_end, dbVars, LedgerInv, TaskShape
<1>. DEFINE s == task[h].sub  u == task[h].user
            answer(shown) == IF shown.customer = "pending"
                             THEN [shown EXCEPT !.customer = task[h].customer] ELSE shown
<1>2. /\ BelongsTo(s, u) /\ HasRow(s) /\ NamesPayer(s, task[h].customer)
      /\ task[h].customer \in Customers \cup {"pending"}
  BY <1>1 DEF RowInv, HandlersInv, HandlerFine, Cancelling
<1>3. CASE End(h) /\ UNCHANGED provider
  BY <1>1, <1>3, IdleSteps DEF Idle, End, Applying, SettledProvider
<1>4. CASE /\ provider[s].status = "active"
           /\ provider' = [provider EXCEPT ![s].scheduled = TRUE]
           /\ \/ End(h)
              \/ \E shown \in Shown(s, "active", provider[s].end) :
                    Become(h, [task[h] EXCEPT !.pc = "savingCancel", !.row = answer(shown)])
  <2>1. \A r \in Subs : /\ provider'[r].owner = provider[r].owner
                        /\ provider'[r].customer = provider[r].customer
                        /\ provider'[r].status = provider[r].status
                        /\ provider'[r].end = provider[r].end
    BY <1>4 DEF LedgerInv, ProviderShape, Subscription
  <2>0. SettledProvider /\ ~Applying(h)
    BY <1>1, <2>1 DEF SettledProvider, Applying
  <2>2. ASSUME End(h) PROVE RowInv'
    BY <1>1, <2>0, <2>2, IdleSteps DEF Idle, End
  <2>3. ASSUME NEW shown \in Shown(s, "active", provider[s].end),
               Become(h, [task[h] EXCEPT !.pc = "savingCancel", !.row = answer(shown)])
        PROVE  RowInv'
    <3>. DEFINE row == answer(shown)
                t == [task[h] EXCEPT !.pc = "savingCancel", !.row = row]
    <3>1. t.pc = "savingCancel" /\ t.row = row /\ t.user = u /\ t.sub = s
      BY <1>1 DEF Fields
    <3>3. /\ s \in Subs /\ provider[s].owner \in Users /\ provider[s].end \in Nat
          /\ provider[s].customer \in Customers
      BY <1>2 DEF BelongsTo, Known, LedgerInv, ProviderShape, Subscription
    <3>5. Paid(s)
      BY <1>4, <3>3 DEF RowInv, EventsInv
    <3>4. /\ shown \in Event /\ shown.sub = s /\ shown.status = "active"
          /\ shown.end = provider[s].end /\ NamesPayer(s, shown.customer)
      BY <3>3, <3>5 DEF Shown, Event, Statuses, NamesPayer
    <3>11. /\ row \in Event /\ row.sub = s /\ row.status = "active"
           /\ row.end = provider[s].end /\ NamesPayer(s, row.customer)
      BY <1>2, <3>4 DEF Event
    <3>. HIDE DEF row
    <3>2. task'[h] = t
      BY <2>3, TaskMove DEF LedgerInv, row
    <3>. HIDE DEF t
    <3>6. /\ provider'[s].status = "active" /\ provider'[s].end = provider[s].end
      BY <1>4, <2>1, <3>3
    <3>12. /\ \A s_, u_ : BelongsTo(s_, u_) => BelongsTo(s_, u_)'
           /\ \A s_, c : Known(s_) /\ NamesPayer(s_, c) => NamesPayer(s_, c)'
           /\ \A s_ : HasRow(s_) => HasRow(s_)'
           /\ \A s_ : Paid(s_) => Paid(s_)'
      BY <1>1, <2>0, SettledKeepsKnown, BelongsKept DEF RowInv, Paid, HasRow
    <3>7. Genuine(task[h].row, task[h].user)'
      BY <1>2, <3>1, <3>2, <3>5, <3>11, <3>12 DEF Genuine, BelongsTo
    <3>8. (BelongsTo(task[h].sub, task[h].user) /\ HasRow(task[h].sub))'
      BY <1>2, <3>1, <3>2, <3>12
    <3>9. UpToDate(task[h].row)'
      BY <3>1, <3>2, <3>6, <3>11 DEF UpToDate, Matches
    <3>10. HandlerFine(h)'
      BY <3>1, <3>2, <3>7, <3>8, <3>9, <3>11 DEF HandlerFine
    <3>13. Become(h, t)
      BY <2>3 DEF t, row
    <3>. QED  BY <1>1, <2>0, <3>1, <3>10, <3>13, AnswerSteps
  <2>. QED  BY <1>4, <2>2, <2>3
<1>. QED  BY <1>3, <1>4 DEF cancel_at_period_end

\* A checkout stores the answer before anything has happened to the subscription.
LEMMA SaveCheckoutRows ==
    ASSUME LedgerInv, RowInv, NEW h \in Handlers, SaveCheckout(h)
    PROVE  RowInv'
<1>1. /\ task[h].pc = "saving" /\ Become(h, Idle)
      /\ rows' = upsert_subscription(RowOf(task[h].row, task[h].user, FALSE))
      /\ UNCHANGED <<provider, sent, unacked, ledger, applied, disturbed>>
  BY DEF SaveCheckout, providerVars, End
<1>. DEFINE shown == task[h].row  user == task[h].user
<1>2. /\ shown \in Event /\ Genuine(shown, user) /\ Matches(shown)
      /\ \A k \in Handlers : task[k].pc = "saving" /\ task[k].row.sub = shown.sub => k = h
  BY <1>1 DEF RowInv, HandlersInv, HandlerFine, Storing
<1>3. user \in Users /\ Idle.pc = "idle"
  BY <1>2 DEF Genuine, BelongsTo, Idle
<1>4. DeliveryInv'
  BY <1>1, DeliveryKept, TaskMove DEF RowInv, LedgerInv, Applying
<1>5. StoredInTime(shown) /\ OnlyStores(h, shown.sub)
  BY <1>1, <1>2 DEF Unapplied, StoredInTime, OnlyStores
<1>. HIDE DEF shown, user
<1>6. rows' = upsert_subscription(RowOf(shown, user, FALSE)) /\ FALSE \in BOOLEAN
      /\ UNCHANGED <<sent, provider>> /\ disturbed \subseteq disturbed'
      /\ Idle.pc \notin {"saving", "upserting", "cancelling", "savingCancel"}
  BY <1>1, <1>3 DEF shown, user
<1>. QED  BY <1>1, <1>2, <1>3, <1>4, <1>5, <1>6, UpsertStep, Zenon

\* A cancellation stores the answer, which is out of date only if an event is waiting.
LEMMA SaveCancelRows ==
    ASSUME LedgerInv, RowInv, NEW h \in Handlers, SaveCancel(h)
    PROVE  RowInv'
<1>1. /\ task[h].pc = "savingCancel" /\ Become(h, Idle)
      /\ rows' = upsert_subscription(RowOf(task[h].row, task[h].user, TRUE))
      /\ UNCHANGED <<provider, sent, unacked, ledger, applied, disturbed>>
  BY DEF SaveCancel, providerVars, End
<1>2. /\ task[h].row \in Event /\ Genuine(task[h].row, task[h].user)
      /\ UpToDate(task[h].row) /\ HasRow(task[h].row.sub)
  BY <1>1 DEF RowInv, HandlersInv, HandlerFine, Storing, Cancelling
<1>3. task[h].user \in Users /\ Idle.pc = "idle"
  BY <1>2 DEF Genuine, BelongsTo, Idle
<1>4. PICK shown \in Event, user \in Users : shown = task[h].row /\ user = task[h].user
  BY <1>2, <1>3
<1>5. OnlyStores(h, shown.sub)
  BY <1>2, <1>4 DEF RowInv, HandlersInv, HandlerFine, OnlyStores
<1>6. DeliveryInv'
  BY <1>1, DeliveryKept, TaskMove DEF RowInv, LedgerInv, Applying
<1>7. \A s : Unapplied(s) => Unapplied(s)'
  BY <1>1 DEF Unapplied
<1>8. StoredInTime(shown)
  BY <1>1, <1>2, <1>4, <1>7 DEF UpToDate, StoredInTime
<1>9. rows' = upsert_subscription(RowOf(shown, user, TRUE)) /\ TRUE \in BOOLEAN
      /\ UNCHANGED <<sent, provider>> /\ disturbed \subseteq disturbed'
      /\ Idle.pc \notin {"saving", "upserting", "cancelling", "savingCancel"}
      /\ Become(h, Idle) /\ Genuine(shown, user)
  BY <1>1, <1>2, <1>3, <1>4
<1>. QED  BY <1>5, <1>6, <1>8, <1>9, UpsertStep, Zenon

\* A delivery that is new goes to the handler; one that the ledger knows is dropped.
LEMMA RecordRows ==
    ASSUME LedgerInv, RowInv, NEW h \in Handlers, NEW e \in unacked, RecordEvent(h, e)
    PROVE  RowInv'
<1>1. /\ task[h].pc = "idle" /\ ledger' = ledger \cup {e}
      /\ UNCHANGED <<sent, provider, rows, applied, disturbed>>
  BY DEF RecordEvent
<1>2. ASSUME NEW t, t.pc \in {"idle", "applying"}, Become(h, t), DeliveryInv' PROVE RowInv'
  <2>1. task'[h] = t /\ \A k \in Handlers : k # h => task'[k] = task[k]
    BY <1>2, TaskMove DEF LedgerInv
  <2>2. HandlerFine(h)' /\ task'[h].pc # "saving"
    BY <1>2, <2>1 DEF HandlerFine, Storing, Cancelling
  <2>. QED  BY <1>1, <1>2, <2>1, <2>2, SettledSteps DEF SettledProvider
<1>3. CASE e \in ledger
  <2>1. Become(h, Idle) /\ unacked' = unacked \ {e} /\ ledger' = ledger
    BY <1>1, <1>3 DEF RecordEvent, End
  <2>2. \A k \in Handlers : Applying(k) => task'[k] = task[k]
    BY <1>1, <2>1, TaskMove DEF LedgerInv, Applying
  <2>3. DeliveryInv'
    BY <1>1, <1>3, <2>1, <2>2, DeliveryKept DEF RowInv, Applying
  <2>. QED  BY <1>2, <2>1, <2>3 DEF Idle
<1>4. CASE e \notin ledger
  <2>. DEFINE t == [Idle EXCEPT !.pc = "applying", !.event = e]
  <2>1. Become(h, t) /\ unacked' = unacked
    BY <1>4 DEF RecordEvent
  <2>2. t.pc = "applying" /\ t.event = e
    BY DEF Idle
  <2>. HIDE DEF t
  <2>3. task'[h] = t /\ \A k \in Handlers : k # h => task'[k] = task[k]
    BY <2>1, TaskMove DEF LedgerInv
  <2>4. ASSUME NEW d \in DOMAIN sent, applied[d] = 0, sent[d].sub \notin disturbed
        PROVE  IF d \in ledger'
               THEN \E k \in Handlers : Applying(k)' /\ task'[k].event = d
               ELSE d \in unacked'
    <3>1. CASE d = e
      BY <1>1, <2>2, <2>3, <3>1 DEF Applying
    <3>2. CASE d # e
      BY <1>1, <2>1, <2>3, <2>4, <3>2 DEF RowInv, DeliveryInv, Applying
    <3>. QED  BY <3>1, <3>2
  <2>5. DeliveryInv'
    BY <1>1, <2>4 DEF RowInv, DeliveryInv
  <2>. QED  BY <1>2, <2>1, <2>2, <2>5
<1>. QED  BY <1>3, <1>4

\* The row that an event's customer leads to is of a user who pays as that customer.
LEMMA OwnerOfEvent ==
    ASSUME LedgerInv, RowInv, NEW e \in DOMAIN sent
    PROVE  Genuine(sent[e], OwnerOf(sent[e]))
<1>. DEFINE shown == sent[e]
            mine == {i \in DOMAIN rows : rows[i].customer = shown.customer}
<1>0. Genuine(shown, shown.owner)
  BY DEF RowInv, EventsInv
<1>1. CASE shown.customer = "pending" \/ LatestOf(mine) = None
  BY <1>0, <1>1 DEF OwnerOf, get_subscription_by_provider_customer
<1>2. CASE shown.customer # "pending" /\ LatestOf(mine) # None
  <2>1. PICK i \in mine : LatestOf(mine) = rows[i]
    BY <1>2, LatestIsRow DEF RowInv
  <2>2. OwnerOf(shown) = rows[i].user
    BY <1>2, <2>1 DEF OwnerOf, get_subscription_by_provider_customer
  <2>3. /\ BelongsTo(rows[i].sub, rows[i].user) /\ NamesPayer(rows[i].sub, shown.customer)
        /\ NamesPayer(shown.sub, shown.customer) /\ Known(shown.sub)
    BY <1>0, <2>1 DEF RowInv, RowsInv, Genuine, BelongsTo
  <2>4. PaysAs(rows[i].user, provider[shown.sub].customer)
    BY <1>2, <2>3 DEF BelongsTo, Known, NamesPayer, PaysAs
  <2>5. BelongsTo(shown.sub, rows[i].user)
    BY <2>3, <2>4 DEF BelongsTo
  <2>. QED  BY <1>0, <2>2, <2>5 DEF Genuine
<1>. QED  BY <1>1, <1>2

\* The handler goes on with a user for whom the event may be stored.
LEMMA LookUpRows ==
    ASSUME LedgerInv, RowInv, NEW h \in Handlers, LookUpOwner(h)
    PROVE  RowInv'
<1>. DEFINE t == [task[h] EXCEPT !.pc = "upserting", !.user = OwnerOf(sent[task[h].event])]
<1>1. /\ task[h].pc = "applying" /\ Become(h, t) /\ DOMAIN task[h] = Fields
      /\ UNCHANGED <<provider, sent, unacked, rows, ledger, applied, disturbed>>
  BY DEF LookUpOwner, providerVars, dbVars, LedgerInv, TaskShape
<1>2. t.pc = "upserting" /\ t.event = task[h].event /\ t.user = OwnerOf(sent[task[h].event])
  BY <1>1 DEF Fields
<1>. HIDE DEF t
<1>3. task'[h] = t /\ \A k \in Handlers : k # h => task'[k] = task[k]
  BY <1>1, TaskMove DEF LedgerInv
<1>4. task[h].event \in DOMAIN sent
  BY <1>1 DEF LedgerInv, ProviderShape, OneAttempt, Applying, EventsAgree
<1>5. PICK e \in DOMAIN sent : e = task[h].event
  BY <1>4
<1>6. Genuine(sent[e], OwnerOf(sent[e]))
  BY OwnerOfEvent
<1>7. PICK user, shown : user = OwnerOf(sent[e]) /\ shown = sent[e]
  OBVIOUS
<1>8. SettledProvider /\ \A s : Paid(s) => Paid(s)'
  BY <1>1 DEF SettledProvider, Paid
<1>9. Genuine(shown, user)'
  <2>1. /\ \A s, u : BelongsTo(s, u) => BelongsTo(s, u)'
        /\ \A s, c : Known(s) /\ NamesPayer(s, c) => NamesPayer(s, c)'
    BY <1>8, SettledKeepsKnown, BelongsKept DEF RowInv
  <2>. QED  BY <1>6, <1>7, <1>8, <2>1 DEF Genuine, BelongsTo
<1>10. HandlerFine(h)'
  BY <1>1, <1>2, <1>3, <1>5, <1>7, <1>9 DEF HandlerFine, Storing, Cancelling
<1>11. DeliveryInv'
  BY <1>1, <1>2, <1>3, DeliveryKept DEF RowInv, Applying
<1>. QED  BY <1>1, <1>2, <1>3, <1>8, <1>10, <1>11, SettledSteps

\* An event that is not overtaken is applied in order, and nothing older is stored later.
LEMMA ApplyRows ==
    ASSUME LedgerInv, RowInv, NEW h \in Handlers, ApplyEvent(h)
    PROVE  RowInv'
<1>. USE DEF RowInv
<1>. DEFINE t == [Idle EXCEPT !.pc = "answering", !.event = task[h].event]
<1>1. /\ task[h].pc = "upserting" /\ Become(h, t)
      /\ UNCHANGED <<provider, sent, ledger, unacked>>
      /\ applied' = [applied EXCEPT ![task[h].event] = @ + 1]
      /\ rows' = upsert_subscription(RowOf(sent[task[h].event], task[h].user, FALSE))
      /\ disturbed' = IF Overtaken(task[h].event)
                      THEN disturbed \cup {sent[task[h].event].sub} ELSE disturbed
  BY DEF ApplyEvent, providerVars
<1>0. t.pc \notin {"saving", "upserting", "cancelling", "savingCancel"}
  BY DEF Idle
<1>. HIDE DEF t
<1>2. /\ task[h].event \in DOMAIN sent /\ applied[task[h].event] = 0
      /\ sent \in Seq(Event) /\ applied \in Seq(Nat) /\ DOMAIN applied = DOMAIN sent
  BY <1>1 DEF LedgerInv, ProviderShape, EventsAgree, OneAttempt, Applying
<1>3. PICK e \in DOMAIN sent : e = task[h].event
  BY <1>2
<1>4. PICK shown \in Event : shown = sent[e]
  BY <1>2
<1>14. Genuine(sent[e], task[h].user) /\ task[h].user \in Users
  BY <1>1, <1>3 DEF HandlersInv, HandlerFine, Genuine, BelongsTo
<1>15. PICK user \in Users : user = task[h].user
  BY <1>14
<1>5. Genuine(shown, user) /\ HasRow(shown.sub)
  BY <1>4, <1>14, <1>15 DEF EventsInv
<1>6. /\ applied'[e] = 1
      /\ \A d \in DOMAIN sent : d # e => applied'[d] = applied[d]
      /\ disturbed \subseteq disturbed'
      /\ Overtaken(e) => shown.sub \in disturbed'
      /\ \A d \in DOMAIN sent : d \in Nat
  BY <1>1, <1>2, <1>3, <1>4
<1>7. \A k \in Handlers : k # h => task'[k] = task[k]
  BY <1>1, TaskMove DEF LedgerInv
<1>8. ASSUME NEW d \in DOMAIN sent, d # e, sent[d].sub = shown.sub, shown.sub \notin disturbed',
             applied[d] = 0
      PROVE  e < d
  BY <1>4, <1>6, <1>8 DEF Overtaken
<1>9. DeliveryInv'
  <2>. SUFFICES ASSUME NEW d \in DOMAIN sent, applied'[d] = 0, sent[d].sub \notin disturbed'
                PROVE  /\ IF d \in ledger
                          THEN \E k \in Handlers : Applying(k)' /\ task'[k].event = d
                          ELSE d \in unacked'
                       /\ \A f \in DOMAIN sent : sent[f].sub = sent[d].sub /\ d < f => applied'[f] = 0
    BY <1>1 DEF DeliveryInv
  <2>1. d # e /\ applied[d] = 0 /\ sent[d].sub \notin disturbed
    BY <1>6
  <2>2. IF d \in ledger THEN \E k \in Handlers : Applying(k) /\ task[k].event = d
                        ELSE d \in unacked
    BY <2>1 DEF DeliveryInv
  <2>3. IF d \in ledger THEN \E k \in Handlers : Applying(k)' /\ task'[k].event = d
                        ELSE d \in unacked'
    BY <1>1, <1>3, <1>7, <2>1, <2>2 DEF Applying
  <2>4. ASSUME NEW f \in DOMAIN sent, sent[f].sub = sent[d].sub, d < f PROVE applied'[f] = 0
    <3>1. applied[f] = 0
      BY <2>1, <2>4 DEF DeliveryInv
    <3>2. f # e
      BY <1>4, <1>6, <1>8, <2>1, <2>4
    <3>. QED  BY <1>6, <3>1, <3>2
  <2>. QED  BY <2>3, <2>4
<1>10. shown.sub \notin disturbed' => Unapplied(shown.sub)' \/ Matches(shown)
  <2>. SUFFICES ASSUME shown.sub \notin disturbed', ~Unapplied(shown.sub)' PROVE Matches(shown)
    OBVIOUS
  <2>1. \A d \in DOMAIN sent : sent[d].sub = shown.sub => applied'[d] # 0
    BY <1>1 DEF Unapplied
  <2>2. ASSUME NEW d \in DOMAIN sent, sent[d].sub = shown.sub, ~(d <= e) PROVE FALSE
    <3>1. e < d /\ d # e
      BY <1>6, <2>2
    <3>2. applied[d] = 0
      BY <1>2, <1>3, <1>4, <1>6, <2>2, <3>1 DEF DeliveryInv
    <3>. QED  BY <1>6, <2>1, <2>2, <3>1, <3>2
  <2>. QED  BY <1>4, <2>2 DEF EventsInv
<1>11. \A k \in Handlers : task[k].pc = "saving" /\ task[k].row.sub = shown.sub => k = h
  BY <1>5 DEF HandlersInv, HandlerFine
<1>12. ASSUME NEW s \in Subs, Unapplied(s), s \notin disturbed'
       PROVE  \/ Unapplied(s)'
              \/ s = shown.sub /\ \A k \in Handlers : task[k].pc = "savingCancel" => task[k].sub # s
  <2>1. CASE s = shown.sub
    BY <1>4, <1>6, <1>12, <2>1 DEF Overtaken
  <2>2. CASE s # shown.sub
    BY <1>1, <1>4, <1>6, <1>12, <2>2 DEF Unapplied
  <2>. QED  BY <2>1, <2>2
<1>13. rows' = upsert_subscription(RowOf(shown, user, FALSE))
  BY <1>1, <1>3, <1>4, <1>15
<1>16. StoredInTime(shown) /\ OnlyStores(h, shown.sub)
  BY <1>10, <1>11, <1>12 DEF StoredInTime, OnlyStores
<1>17. UNCHANGED <<sent, provider>> /\ disturbed \subseteq disturbed' /\ FALSE \in BOOLEAN
       /\ Become(h, t) /\ RowInv
  BY <1>1, <1>6
<1>. QED  BY <1>0, <1>5, <1>9, <1>13, <1>16, <1>17, UpsertStep, Zenon DEF RowInv

-----------------------------------------------------------------------------
(* The invariant holds initially and under every step. *)

LEMMA InitRows == Init => RowInv
<1>. SUFFICES ASSUME Init PROVE RowInv
  OBVIOUS
<1>1. /\ rows = <<>> /\ sent = <<>> /\ applied = <<>>
      /\ \A h \in Handlers : task[h].pc = "idle"
      /\ \A s \in Subs : provider[s].status = None
  BY DEF Init, Idle
<1>. QED  BY <1>1, BillingAssumption
          DEF RowInv, RowsShape, RowsInv, HandlersInv, HandlerFine, EventsInv, DeliveryInv,
              Storing, Cancelling, Applying

LEMMA NextRows == LedgerInv /\ RowInv /\ [Next]_vars => RowInv'
<1>. SUFFICES ASSUME LedgerInv, RowInv, [Next]_vars PROVE RowInv'
  OBVIOUS
<1>1. ASSUME NEW h \in Handlers, NEW u \in Users, StartCheckout(h, u) \/ StartCancel(h, u)
      PROVE  RowInv'
  BY <1>1, StartCheckoutRows, StartCancelRows
<1>2. ASSUME NEW h \in Handlers,
             \/ create_checkout_session(h) \/ SaveCheckout(h)
             \/ cancel_at_period_end(h) \/ SaveCancel(h) \/ _process_razorpay_event(h)
      PROVE  RowInv'
  <2>1. CASE AnswerEvent(h)
    <3>1. /\ UNCHANGED <<provider, sent, rows, ledger, applied, disturbed>> /\ Become(h, Idle)
          /\ task[h].pc = "answering"
          /\ \A e \in unacked : e \in unacked' \/ e = task[h].event
      BY <2>1 DEF AnswerEvent, dbVars, End
    <3>2. task[h].event \in ledger
      BY <3>1 DEF LedgerInv, OneAttempt
    <3>. QED  BY <3>1, <3>2, IdleSteps DEF Idle, Applying, SettledProvider
  <2>. QED  BY <1>2, <2>1, CreateRows, SaveCheckoutRows, CancelRows, SaveCancelRows, LookUpRows,
               ApplyRows DEF _process_razorpay_event
<1>3. ASSUME NEW h \in Handlers, HandlerDies(h) PROVE RowInv'
  <2>1. /\ UNCHANGED <<provider, sent, unacked, rows, ledger, applied>> /\ Become(h, Idle)
        /\ disturbed \subseteq disturbed'
        /\ Applying(h) => sent[task[h].event].sub \in disturbed'
    BY <1>3 DEF HandlerDies, providerVars, dbVars, End
  <2>. QED  BY <2>1, IdleSteps DEF Idle, SettledProvider
<1>4. ASSUME NEW h \in Handlers, NEW e \in unacked, RecordEvent(h, e) PROVE RowInv'
  BY <1>4, RecordRows
<1>5. ASSUME NEW s \in Subs, Activate(s) \/ Renew(s) PROVE RowInv'
  <2>1. /\ provider[s].status \in {"created", "active", "halted"} /\ provider[s].status # None
        /\ clock + 1 \in Nat /\ provider[s].end \in Nat
        /\ {"active", "halted", "cancelled"} \subseteq Statuses
    BY <1>5, BillingAssumption DEF Activate, Renew, LedgerInv, ProviderShape, Subscription, Statuses
  <2>2. HasRow(s) /\ (Renew(s) => Paid(s))
    <3>1. CASE Activate(s)
      BY <2>1, <3>1 DEF Activate, Renew, HasRow, RowInv, RowsShape
    <3>2. CASE Renew(s)
      BY <3>2 DEF Renew, RowInv, EventsInv, Paid
    <3>. QED  BY <1>5, <3>1, <3>2
  <2>3. \/ Change(s, "active", clock + 1)
        \/ Paid(s) /\ (Change(s, "halted", provider[s].end) \/ Change(s, "cancelled", provider[s].end))
    BY <1>5, <2>2 DEF Activate, Renew
  <2>. QED  BY <2>1, <2>2, <2>3, ChangeRows
<1>6. ASSUME NEW e \in unacked, GiveUp(e) PROVE RowInv'
  <2>1. /\ UNCHANGED <<provider, sent, rows, ledger, task, applied>>
        /\ unacked' = unacked \ {e} /\ disturbed \subseteq disturbed'
        /\ e \notin ledger => sent[e].sub \in disturbed'
    BY <1>6 DEF GiveUp, dbVars
  <2>2. DeliveryInv'
    BY <2>1, DeliveryKept DEF RowInv, Applying
  <2>. QED  BY <2>1, <2>2, SettledSteps DEF SettledProvider
<1>7. CASE PeriodEnds \/ UNCHANGED vars
  <2>1. UNCHANGED <<provider, sent, unacked, rows, ledger, task, applied, disturbed>>
    BY <1>7 DEF PeriodEnds, vars, providerVars, dbVars
  <2>2. DeliveryInv'
    BY <2>1, DeliveryKept DEF RowInv, Applying
  <2>. QED  BY <2>1, <2>2, SettledSteps DEF SettledProvider
<1>. QED  BY <1>1, <1>2, <1>3, <1>4, <1>5, <1>6, <1>7 DEF Next

\* The two invariants of the ledger and of the rows hold in every reachable state.
THEOREM RowsCorrect == Spec => [](LedgerInv /\ RowInv)
  BY InitLedger, NextLedger, InitRows, NextRows, PTL DEF Spec

-----------------------------------------------------------------------------

\* Whoever's request or delivery wrote it last, a stored row names the user who checked
\* the subscription out, or one who has paid as the same customer: the lookup by customer
\* in _process_razorpay_event leads to no other account, also when it reads rows that
\* another handler is about to replace.
THEOREM RowsNameTheirOwner == Spec => []RowsOfTheirOwner
<1>1. RowInv => RowsOfTheirOwner
  BY DEF RowInv, RowsInv, Genuine, BelongsTo, RowsOfTheirOwner
<1>. QED  BY <1>1, RowsCorrect, PTL

\* Pro is granted only to a user one of whose subscriptions the provider has announced
\* as active, whatever order deliveries, answers and failures come in.
THEOREM ProIsPaidFor == Spec => []ProIsPaid
<1>1. ASSUME RowInv PROVE ProIsPaid
  <2>. SUFFICES ASSUME NEW u \in Users, effective_plan(u) = "pro"
                PROVE  \E e \in DOMAIN sent : sent[e].owner = u /\ sent[e].status = "active"
    BY DEF ProIsPaid
  <2>. DEFINE mine == {i \in DOMAIN rows : rows[i].user = u}
  <2>1. LatestOf(mine) # None /\ LatestOf(mine).status = "active"
    BY DEF effective_plan, subscription_grants_pro, get_subscription_for_user
  <2>2. PICK i \in mine : LatestOf(mine) = rows[i]
    BY <1>1, <2>1, LatestIsRow DEF RowInv
  <2>3. BelongsTo(rows[i].sub, u) /\ Paid(rows[i].sub)
    BY <1>1, <2>1, <2>2 DEF RowInv, RowsInv, Genuine
  <2>4. PICK s \in Subs : provider[s].owner = u /\ Paid(s)
    BY <2>3 DEF BelongsTo, Known, PaysAs
  <2>5. PICK e \in DOMAIN sent : sent[e].sub = s /\ sent[e].status = "active"
    BY <2>4 DEF Paid
  <2>. QED  BY <1>1, <2>4, <2>5 DEF RowInv, EventsInv
<1>. QED  BY <1>1, RowsCorrect, PTL

\* When every delivery has been answered and no request is under way, a row shows the
\* status and the period that the provider has, unless one of the subscription's events
\* was lost, dropped after its ledger entry, or overtaken.
THEOREM RowsFollow == Spec => []RowsFollowProvider
<1>1. ASSUME LedgerInv, RowInv PROVE RowsFollowProvider
  <2>. SUFFICES ASSUME Quiet, NEW i \in DOMAIN rows, rows[i].sub \notin disturbed
                PROVE  Matches(rows[i])
    BY DEF RowsFollowProvider, Matches
  <2>1. ~Unapplied(rows[i].sub)
    BY <1>1 DEF RowInv, DeliveryInv, Unapplied, Quiet, Applying
  <2>. QED  BY <1>1, <2>1 DEF RowInv, RowsInv, UpToDate
<1>. QED  BY <1>1, RowsCorrect, PTL
=============================================================================

------------------------------ MODULE Billing ------------------------------
(***************************************************************************)
(* The payment provider's webhook: billing/billingService.js handleWebhook *)
(* and applyEvent, with the subscription's row and the applied events'     *)
(* table of accounts/store.js, for one account (both tables are keyed by   *)
(* it).  The provider emits an event at every change of a subscription and *)
(* delivers each until it has a 2xx, repeated and in any order.            *)
(*                                                                         *)
(* better-sqlite3 is synchronous: a delivery is one turn, save a checkout  *)
(* that asks the provider for its subscription in the middle.              *)
(***************************************************************************)
EXTENDS Integers, FiniteSets

CONSTANTS Subs,          \* the account's subscriptions
          HasKey,        \* STRIPE_SECRET_KEY is set; else payment links
          Overlap,       \* whether deliveries come while a checkout waits for the provider
          SameSecond,    \* whether two changes may carry the same `created`
          LateEvents,    \* whether a subscription is bought before the former's events are through
          MaxEvents, MaxCrashes,  \* bounds
          None

Statuses == {"incomplete", "active", "past_due", "canceled"}

Rows == [sub : Subs, status : Statuses, created : Nat, end : Subs \cup {None}]

ASSUME BillingAssumption ==
  /\ HasKey \in BOOLEAN /\ Overlap \in BOOLEAN
  /\ SameSecond \in BOOLEAN /\ LateEvents \in BOOLEAN
  /\ MaxEvents \in Nat /\ MaxCrashes \in Nat
  /\ None \notin Subs /\ None \notin Statuses /\ None \notin Rows

VARIABLES
  truth,     \* the provider's status of each subscription
  now,       \* the provider's clock, in seconds
  emitted,   \* the events it has emitted
  acked,     \* those it has had a 2xx for
  recorded,  \* billing_events: the ids not to apply again
  row,       \* the account's row of subscriptions, or None
  asking,    \* the checkouts waiting for the provider, with its answer
  crashes

providerVars == <<truth, now, emitted>>
billingVars == <<providerVars, acked, recorded, row, asking, crashes>>

Kinds == {"created", "updated", "deleted", "checkout"}
Events == [id : 1..MaxEvents, kind : Kinds, sub : Subs, status : Statuses, created : 1..(2 * MaxEvents)]

TypeOK ==
  /\ truth \in [Subs -> Statuses \cup {"none"}]
  /\ now \in Nat
  /\ acked \subseteq emitted /\ emitted \subseteq Events
  /\ recorded \subseteq {e.id : e \in emitted}
  /\ row = None \/ (row \in Rows /\ row.created \in 1..(2 * MaxEvents))
  /\ \A w \in asking : w.event \in emitted /\ w.event.id \in recorded /\ w.seen \in Statuses \cup {None}
  /\ crashes \in 0..MaxCrashes

Init ==
  /\ truth = [s \in Subs |-> "none"]
  /\ now = 0
  /\ emitted = {}
  /\ acked = {}
  /\ recorded = {}
  /\ row = None
  /\ asking = {}
  /\ crashes = 0

-----------------------------------------------------------------------------
(* The provider. *)

NextId == Cardinality(emitted) + 1

\* When the next change may come.
Moments == IF SameSecond /\ now > 0 THEN {now, now + 1} ELSE {now + 1}

\* A subscription changes, and one event says so.
Change(s, status, kind) ==
  /\ NextId <= MaxEvents
  /\ truth' = [truth EXCEPT ![s] = status]
  /\ \E t \in Moments :
       /\ now' = t
       /\ emitted' = emitted \cup
            {[id |-> NextId, kind |-> kind, sub |-> s, status |-> status, created |-> t]}

\* It becomes active as its checkout completes: the checkout's own event carries
\* the same second or the next.
Complete(s, kind) ==
  /\ NextId + 1 <= MaxEvents
  /\ truth' = [truth EXCEPT ![s] = "active"]
  /\ \E t \in Moments, later \in {0, 1} :
       /\ now' = t + later
       /\ emitted' = emitted \cup
            {[id |-> NextId, kind |-> kind, sub |-> s, status |-> "active", created |-> t],
             [id |-> NextId + 1, kind |-> "checkout", sub |-> s, status |-> "active", created |-> t + later]}

\* createCheckout refuses an account that has a subscription: another is bought
\* once the first is over.
Subscribe(s) ==
  /\ truth[s] = "none"
  /\ \A p \in Subs \ {s} : truth[p] \in {"none", "canceled"}
  /\ LateEvents \/ (emitted \subseteq acked /\ asking = {})
  /\ Change(s, "incomplete", "created") \/ Complete(s, "created")

Provider(s) ==
  \/ Subscribe(s)
  \/ truth[s] = "incomplete" /\ Complete(s, "updated")
  \/ truth[s] = "active" /\ Change(s, "past_due", "updated")
  \/ truth[s] = "past_due" /\ Change(s, "active", "updated")
  \/ truth[s] \in {"active", "past_due"} /\ Change(s, "canceled", "deleted")

-----------------------------------------------------------------------------
(* The webhook. *)

\* store.isEntitledSubscription, within the period and its grace.
Entitled == row # None /\ row.status \in {"active", "past_due"}

\* Whether the account of the event is known: the metadata of a checkout made
\* with the key names it, a payment link's subscription is known by its row.
Known(e) == HasKey \/ (row # None /\ row.sub = e.sub)

\* Mutation: the last event applied is not compared.
NeverStale(e) == FALSE

IsStale(e) == row # None /\ row.sub = e.sub /\ e.created < row.created

\* An older subscription's event beside the account's running one.
Superseded(e) == row # None /\ row.sub # e.sub /\ Entitled /\ e.kind # "created"

\* Mutation: a canceled row is never taken further.
CanceledForGood(e) == row # None /\ row.status = "canceled" /\ e.status # "canceled"

\* Mutation: a canceled subscription is like any other.
NeverCanceled(e) == FALSE

AlreadyCanceled(e) ==
  row # None /\ row.sub = e.sub /\ row.status = "canceled" /\ e.status # "canceled"

\* What applyEvent makes of an event.
Verdict(e) ==
  CASE e.kind = "checkout" /\ IsStale(e) -> "drop"
    [] e.kind = "checkout" /\ ~IsStale(e) -> IF HasKey THEN "ask" ELSE "apply"
    [] e.kind # "checkout" /\ ~Known(e) -> IF e.kind = "created" THEN "retry" ELSE "drop"
    [] OTHER -> IF IsStale(e) \/ Superseded(e) \/ AlreadyCanceled(e) THEN "drop" ELSE "apply"

\* store.upsertSubscription: a field left out keeps its value, `event_created`
\* never goes back.
Upsert(e, status, end) ==
  row' = [sub |-> e.sub,
          status |-> status,
          created |-> IF row # None /\ row.created > e.created THEN row.created ELSE e.created,
          end |-> IF end # None THEN end ELSE IF row = None THEN None ELSE row.end]

\* A recorded event is answered at once; another is recorded and applied, set
\* aside, forgotten again for a later delivery (a 409), or waits for the
\* subscription itself.
HandleWebhook(e) ==
  \/ /\ e.id \in recorded
     /\ acked' = acked \cup {e}
     /\ UNCHANGED <<recorded, row, asking>>
  \/ /\ e.id \notin recorded
     /\ Verdict(e) = "retry"
     /\ UNCHANGED <<acked, recorded, row, asking>>
  \/ /\ e.id \notin recorded
     /\ Verdict(e) # "retry"
     /\ recorded' = recorded \cup {e.id}
     /\ \/ /\ Verdict(e) = "drop"
           /\ acked' = acked \cup {e}
           /\ UNCHANGED <<row, asking>>
        \/ /\ Verdict(e) = "apply"
           /\ Upsert(e, e.status, IF e.kind = "checkout" THEN None ELSE e.sub)
           /\ acked' = acked \cup {e}
           /\ UNCHANGED asking
        \/ /\ Verdict(e) = "ask"
           /\ asking' = asking \cup {[event |-> e, seen |-> None]}
           /\ UNCHANGED <<row, acked>>

Deliver(id) ==
  /\ Overlap \/ asking = {}
  /\ \E e \in emitted : e.id = id /\ HandleWebhook(e)
  /\ UNCHANGED <<providerVars, crashes>>

\* The provider reads its subscription for a waiting checkout...
ProviderAnswers ==
  /\ \E w \in asking :
       /\ w.seen = None
       /\ asking' = (asking \ {w}) \cup {[w EXCEPT !.seen = truth[w.event.sub]]}
  /\ UNCHANGED <<providerVars, acked, recorded, row, crashes>>

\* ...and the checkout goes on with the answer: applied whatever came meanwhile.
CheckoutApplies ==
  /\ \E w \in asking :
       /\ w.seen # None
       /\ Upsert(w.event, w.seen, w.event.sub)
       /\ acked' = acked \cup {w.event}
       /\ asking' = asking \ {w}
  /\ UNCHANGED <<providerVars, recorded, crashes>>

\* The provider does not answer or refuses: the event is forgotten, a 502.
CheckoutFails ==
  /\ \E w \in asking :
       /\ asking' = asking \ {w}
       /\ recorded' = recorded \ {w.event.id}
  /\ UNCHANGED <<providerVars, acked, row, crashes>>

\* The process stops; its tables stay.
Crash ==
  /\ crashes < MaxCrashes
  /\ crashes' = crashes + 1
  /\ asking' = {}
  /\ UNCHANGED <<providerVars, acked, recorded, row>>

Next ==
  \/ \E s \in Subs : Provider(s) /\ UNCHANGED <<acked, recorded, row, asking, crashes>>
  \/ \E id \in 1..MaxEvents : Deliver(id)
  \/ ProviderAnswers \/ CheckoutApplies \/ CheckoutFails
  \/ Crash

Spec == Init /\ [][Next]_billingVars

\* The provider delivers an event until its 2xx, and answers a question asked
\* again and again; the handler goes on with the answer.
Fairness ==
  /\ \A id \in 1..MaxEvents :
       SF_billingVars(Deliver(id) /\ \E e \in emitted \ acked : e.id = id)
  /\ WF_billingVars(ProviderAnswers)
  /\ SF_billingVars(CheckoutApplies)

FairSpec == Spec /\ Fairness

-----------------------------------------------------------------------------
(* What makes it correct. *)

\* Every event emitted so far has been acknowledged.
Settled == emitted \subseteq acked /\ asking = {}

\* The row's status is one its subscription had at or after the last event
\* applied: no late or repeated delivery takes the licence back to an older state.
RowIsNotOlder ==
  row # None => \E e \in emitted : /\ e.sub = row.sub
                                   /\ e.status = row.status
                                   /\ e.created >= row.created

\* "Canceled is final at the provider": no delivery reopens a canceled subscription.
CanceledIsFinal ==
  [][(row # None /\ row.status = "canceled" /\ row'.sub = row.sub) => row'.status = "canceled"]_billingVars

\* Once every event is acknowledged, the row says what the provider says of the
\* account's running subscription, and is not entitled without one.
SettledIsTruth ==
  Settled =>
    /\ \A s \in Subs : truth[s] \in {"active", "past_due"} =>
         row # None /\ row.sub = s /\ row.status = truth[s]
    /\ Entitled => truth[row.sub] \in {"active", "past_due"}

\* A paid subscription becomes the account's licence, however often the provider
\* fails to answer and whatever it delivers first.
PaidBecomesLicence ==
  \A s \in Subs : truth[s] = "active" ~> (Entitled /\ row.sub = s) \/ truth[s] # "active"

\* With the key and deliveries one at a time, every step keeps this: a canceled
\* row's subscription is canceled at the provider, and a checkout that waits has
\* not read an older status than the one its row was canceled with.
CanceledInv ==
  /\ truth \in [Subs -> Statuses \cup {"none"}]
  /\ \A e \in emitted : e.sub \in Subs /\ (e.status = "canceled" => truth[e.sub] = "canceled")
  /\ asking \subseteq [event : emitted, seen : Statuses \cup {"none", None}]
  /\ \A w \in asking : w.seen = "canceled" => truth[w.event.sub] = "canceled"
  /\ \A v, w \in asking : v = w
  /\ row # None => row.sub \in Subs /\ (row.status = "canceled" => truth[row.sub] = "canceled")
  /\ \A w \in asking : row # None /\ row.sub = w.event.sub /\ row.status = "canceled"
                        => w.seen \in {None, "canceled"}

\* Once every event is acknowledged, the entitled row knows its period's end:
\* "the subscription's own event, retried by the provider when it came first,
\* brings the period's end".
PeriodEndIsBrought == Settled /\ Entitled => row.end = row.sub
=============================================================================

--------------------------- MODULE BillingProofs ---------------------------
(***************************************************************************)
(* A cancellation is final, and once everything is acknowledged the row is *)
(* the provider's truth, for every set of subscriptions and every number   *)
(* of events, repeated and reordered, across crashes, as long as the       *)
(* deliveries do not overlap a checkout's question to the provider.        *)
(***************************************************************************)
EXTENDS Billing, FiniteSetTheorems, TLAPS

LEMMA BillingInit == Init => CanceledInv
  BY BillingAssumption DEF Init, CanceledInv

(* The provider never takes a cancellation back. *)
LEMMA ProviderKeepsInv ==
  ASSUME CanceledInv, NEW s \in Subs, Provider(s), UNCHANGED <<acked, recorded, row, asking, crashes>>
  PROVE  CanceledInv'
  <1>1. PICK status \in Statuses : truth[s] # "canceled" /\ truth' = [truth EXCEPT ![s] = status]
    BY DEF Provider, Subscribe, Change, Complete, Statuses
  <1>2. \A e \in emitted' : \/ e \in emitted
                            \/ e.sub = s /\ (e.status = "canceled" => status = "canceled")
    <2>1. CASE \E k \in Kinds : Complete(s, k)
      <3>1. \A e \in emitted' : e \in emitted \/ (e.sub = s /\ e.status = "active")
        BY <2>1 DEF Complete
      <3> QED
        BY <3>1
    <2>2. CASE \E st \in Statuses, k \in Kinds : Change(s, st, k) /\ truth' = [truth EXCEPT ![s] = st]
      <3>a. PICK st \in Statuses, k \in Kinds : Change(s, st, k) /\ truth' = [truth EXCEPT ![s] = st]
        BY <2>2
      <3>1. /\ st \in Statuses /\ truth' = [truth EXCEPT ![s] = st]
            /\ \A e \in emitted' : e \in emitted \/ (e.sub = s /\ e.status = st)
        BY <3>a DEF Change
      <3>2. st = status
        BY <1>1, <3>1 DEF CanceledInv
      <3> QED
        BY <3>1, <3>2
    <2> QED
      BY <2>1, <2>2 DEF Provider, Subscribe, Change, Statuses, Kinds
  <1>3. emitted \subseteq emitted'
    BY DEF Provider, Subscribe, Change, Complete
  <1>4. /\ truth' \in [Subs -> Statuses \cup {"none"}] /\ truth'[s] = status
        /\ \A p \in Subs : truth[p] = "canceled" => truth'[p] = "canceled"
    BY <1>1 DEF CanceledInv
  <1>5. \A e \in emitted' : e.sub \in Subs /\ (e.status = "canceled" => truth'[e.sub] = "canceled")
    BY <1>2, <1>4 DEF CanceledInv
  <1>6. /\ UNCHANGED <<row, asking>>
        /\ asking' \subseteq [event : emitted', seen : Statuses \cup {"none", None}]
    BY <1>3 DEF CanceledInv
  <1>7. \A w \in asking : w.event.sub \in Subs
    BY DEF CanceledInv
  <1> QED
    BY <1>4, <1>5, <1>6, <1>7 DEF CanceledInv

(* What upsertSubscription leaves in the row. *)
LEMMA UpsertWrites ==
  ASSUME NEW e, NEW status, NEW end, Upsert(e, status, end), None \notin Subs, e.sub \in Subs
  PROVE  row'.sub = e.sub /\ row'.status = status
  BY DEF Upsert

LEMMA DeliverKeepsInv ==
  ASSUME CanceledInv, HasKey, ~Overlap, NEW id \in 1..MaxEvents, Deliver(id)
  PROVE  /\ CanceledInv'
         /\ (row # None /\ row.status = "canceled" /\ row'.sub = row.sub) => row'.status = "canceled"
  <1>1. PICK e \in emitted : HandleWebhook(e)
    BY DEF Deliver
  <1>2. /\ asking = {} /\ UNCHANGED <<truth, emitted>>
        /\ e.sub \in Subs /\ None \notin Subs
        /\ e.status = "canceled" => truth[e.sub] = "canceled"
    BY BillingAssumption DEF Deliver, providerVars, CanceledInv
  <1>3. CASE UNCHANGED <<row, asking>>
    BY <1>2, <1>3 DEF CanceledInv
  <1>4. CASE /\ Verdict(e) = "apply" /\ UNCHANGED asking
             /\ Upsert(e, e.status, IF e.kind = "checkout" THEN None ELSE e.sub)
    <2>1. ~AlreadyCanceled(e)
      BY <1>4, BillingAssumption DEF Verdict
    <2>2. row'.sub = e.sub /\ row'.status = e.status
      BY <1>2, <1>4, UpsertWrites
    <2>3. CanceledInv'
      BY <1>2, <1>4, <2>2 DEF CanceledInv
    <2>4. (row # None /\ row.status = "canceled" /\ row'.sub = row.sub) => row'.status = "canceled"
      BY <2>1, <2>2 DEF AlreadyCanceled
    <2> QED
      BY <2>3, <2>4
  <1>5. CASE UNCHANGED row /\ asking' = asking \cup {[event |-> e, seen |-> None]}
    <2>1. asking' = {[event |-> e, seen |-> None]}
      BY <1>2, <1>5
    <2>2. None # "canceled"
      BY BillingAssumption DEF Statuses
    <2>3. CanceledInv'
      BY <1>2, <1>5, <2>1, <2>2 DEF CanceledInv
    <2> QED
      BY <1>5, <2>3
  <1> QED
    BY <1>1, <1>3, <1>4, <1>5 DEF HandleWebhook

LEMMA AnswersKeepsInv ==
  ASSUME CanceledInv, ProviderAnswers
  PROVE  CanceledInv'
  <1>1. PICK w \in asking : asking' = (asking \ {w}) \cup {[w EXCEPT !.seen = truth[w.event.sub]]}
    BY DEF ProviderAnswers
  <1>2. UNCHANGED <<truth, emitted, row>>
    BY DEF ProviderAnswers, providerVars
  <1> DEFINE v == [w EXCEPT !.seen = truth[w.event.sub]]
  <1>3. asking' = {v}
    BY <1>1 DEF CanceledInv
  <1>4. w.event \in emitted /\ w.event.sub \in Subs
    BY <1>1 DEF CanceledInv
  <1>5. w \in [event : emitted, seen : Statuses \cup {"none", None}] /\ truth[w.event.sub] \in Statuses \cup {"none"}
    BY <1>1, <1>4 DEF CanceledInv
  <1>6. v.event = w.event /\ v.seen = truth[w.event.sub] /\ v \in [event : emitted, seen : Statuses \cup {"none"}]
    BY <1>5
  <1> HIDE DEF v
  <1>7. row # None /\ row.sub = v.event.sub /\ row.status = "canceled" => v.seen = "canceled"
    BY <1>4, <1>6 DEF CanceledInv
  <1> QED
    BY <1>2, <1>3, <1>6, <1>7 DEF CanceledInv

LEMMA AppliesKeepsInv ==
  ASSUME CanceledInv, CheckoutApplies
  PROVE  /\ CanceledInv'
         /\ (row # None /\ row.status = "canceled" /\ row'.sub = row.sub) => row'.status = "canceled"
  <1>1. PICK w \in asking : /\ w.seen # None /\ Upsert(w.event, w.seen, w.event.sub)
                            /\ asking' = asking \ {w}
    BY DEF CheckoutApplies
  <1>2. UNCHANGED <<truth, emitted>> /\ asking' = {}
    BY <1>1 DEF CheckoutApplies, providerVars, CanceledInv
  <1>3. /\ w.event.sub \in Subs
        /\ w.seen = "canceled" => truth[w.event.sub] = "canceled"
    BY <1>1 DEF CanceledInv
  <1>4. row'.sub = w.event.sub /\ row'.status = w.seen
    BY <1>1, <1>3, BillingAssumption, UpsertWrites
  <1>5. CanceledInv'
    BY <1>2, <1>3, <1>4 DEF CanceledInv
  <1>6. (row # None /\ row.status = "canceled" /\ row'.sub = row.sub) => row'.status = "canceled"
    BY <1>1, <1>4 DEF CanceledInv
  <1> QED
    BY <1>5, <1>6

LEMMA BillingStep ==
  ASSUME HasKey, ~Overlap, CanceledInv, [Next]_billingVars
  PROVE  /\ CanceledInv'
         /\ (row # None /\ row.status = "canceled" /\ row'.sub = row.sub) => row'.status = "canceled"
  <1>1. CASE UNCHANGED billingVars
    BY <1>1 DEF billingVars, providerVars, CanceledInv
  <1>2. CASE \E s \in Subs : Provider(s) /\ UNCHANGED <<acked, recorded, row, asking, crashes>>
    BY <1>2, ProviderKeepsInv
  <1>3. CASE \E id \in 1..MaxEvents : Deliver(id)
    BY <1>3, DeliverKeepsInv
  <1>4. CASE ProviderAnswers
    <2>1. row' = row
      BY <1>4 DEF ProviderAnswers
    <2> QED
      BY <1>4, <2>1, AnswersKeepsInv
  <1>5. CASE CheckoutApplies
    BY <1>5, AppliesKeepsInv
  <1>6. CASE CheckoutFails
    BY <1>6 DEF CheckoutFails, providerVars, CanceledInv
  <1>7. CASE Crash
    BY <1>7 DEF Crash, providerVars, CanceledInv
  <1> QED
    BY <1>1, <1>2, <1>3, <1>4, <1>5, <1>6, <1>7 DEF Next

(* "Canceled is final at the provider, which keeps no order: a late or retried
   'updated' never reopens it": billingService's checks give that for every
   order, repetition, failure and crash, with the key set and as long as no
   delivery comes between a checkout's question and its answer's use. *)
THEOREM CancellationIsFinal ==
  ASSUME HasKey, ~Overlap
  PROVE  Spec => CanceledIsFinal
  <1>1. CanceledInv /\ [Next]_billingVars => CanceledInv'
    BY BillingStep
  <1>2. CanceledInv /\ [Next]_billingVars =>
          [(row # None /\ row.status = "canceled" /\ row'.sub = row.sub) => row'.status = "canceled"]_billingVars
    BY BillingStep
  <1> QED
    BY <1>1, <1>2, BillingInit, PTL DEF Spec, CanceledIsFinal
-----------------------------------------------------------------------------
(* Once everything is through, the row is the truth: with the key, deliveries  *)
(* that do not overlap a checkout's question, changes at distinct seconds, and *)
(* a subscription bought once the former's events are through.                 *)

\* The changes of a subscription: its events, its checkouts' apart.
Changes(s) == {e \in emitted : e.sub = s /\ e.kind # "checkout"}

Over(s) == truth[s] \in {"none", "canceled"}

EventsAreTyped ==
  /\ truth \in [Subs -> Statuses \cup {"none"}] /\ now \in Nat
  /\ emitted \subseteq [id : Nat, kind : Kinds, sub : Subs, status : Statuses, created : 1..now]

Numbered(S) ==
  /\ IsFiniteSet(S)
  /\ \A e \in S : e.id \in 1..Cardinality(S)
  /\ \A d, e \in S : d.id = e.id => d = e

\* A subscription's status is its last change's, which is later than the others.
TruthIsTheLastChange ==
  \A s \in Subs :
    IF truth[s] = "none" THEN \A e \in emitted : e.sub # s
    ELSE \E e \in Changes(s) : /\ e.status = truth[s]
                               /\ \A d \in Changes(s) : d = e \/ d.created < e.created

CancellationsAreLast ==
  \A e \in emitted : e.status = "canceled" =>
    /\ truth[e.sub] = "canceled"
    /\ \A d \in Changes(e.sub) : d.created <= e.created

\* One subscription runs after another: no event of one is between two of another.
OneAfterAnother ==
  /\ \A s, p \in Subs : s # p => Over(s) \/ Over(p)
  /\ \A d, f \in emitted : d.sub # f.sub /\ d.created < f.created =>
       /\ truth[d.sub] = "canceled"
       /\ \A e \in emitted : e.sub = d.sub => e.created < f.created

ProviderInv ==
  /\ EventsAreTyped /\ Numbered(emitted)
  /\ TruthIsTheLastChange /\ CancellationsAreLast /\ OneAfterAnother

\* Only events of the last subscription may still have to be delivered.
LateOnesAreTheLast ==
  \A d \in emitted \ acked :
    /\ \A f \in emitted : f.sub # d.sub => f.created < d.created
    /\ \A p \in Subs : p # d.sub => Over(p)

DeliveryInv ==
  /\ acked \subseteq emitted /\ recorded \subseteq {e.id : e \in emitted}
  /\ \A e \in acked : e.id \in recorded
  /\ \A w \in asking : /\ w \in [event : emitted \ acked, seen : Statuses \cup {None}]
                       /\ w.event.kind = "checkout" /\ w.event.id \in recorded
  /\ \A v, w \in asking : v = w
  /\ LateOnesAreTheLast

\* A row of this status and this time has heard of the change e and of none after it,
\* and nothing after e will be taken for stale.
IsAsOf(e, status, created) ==
  /\ e.status = status
  /\ \A d \in Changes(e.sub) : /\ d.id \in recorded => d.created <= e.created
                               /\ d.created > e.created => d.created >= created

RowIsTyped ==
  row # None =>
    /\ row \in Rows
    /\ \E f \in emitted : f.sub = row.sub /\ f.created = row.created

RowIsOfAChange ==
  row # None => \E e \in Changes(row.sub) : IsAsOf(e, row.status, row.created)

RecordedIsInTheRow ==
  \A d \in emitted : d.kind # "checkout" /\ d.id \in recorded =>
    /\ row # None
    /\ IF d.sub = row.sub THEN d.created <= row.created \/ row.status = "canceled"
       ELSE d.created < row.created

CheckoutsAreFresh ==
  \A w \in asking :
    /\ row # None => row.created <= w.event.created
    /\ row # None /\ row.sub = w.event.sub /\ row.status = "canceled" => w.seen \in {None, "canceled"}
    /\ w.seen # None => \E e \in Changes(w.event.sub) : IsAsOf(e, w.seen, w.event.created)

RowInv == RowIsTyped /\ RowIsOfAChange /\ RecordedIsInTheRow /\ CheckoutsAreFresh

LicenceInv == ProviderInv /\ DeliveryInv /\ RowInv

(* One more event, of the next number. *)
LEMMA NumberedGrows ==
  ASSUME NEW S, Numbered(S), NEW x, x.id = Cardinality(S) + 1
  PROVE  /\ Numbered(S \cup {x}) /\ x \notin S
         /\ Cardinality(S \cup {x}) = Cardinality(S) + 1
  <1>1. Cardinality(S) \in Nat
    BY FS_CardinalityType DEF Numbered
  <1>2. \A e \in S : e.id # x.id
    BY <1>1 DEF Numbered
  <1>3. x \notin S
    BY <1>2
  <1>4. IsFiniteSet(S \cup {x}) /\ Cardinality(S \cup {x}) = Cardinality(S) + 1
    BY <1>3, FS_AddElement DEF Numbered
  <1>5. \A e \in S \cup {x} : e.id \in 1..(Cardinality(S) + 1)
    BY <1>1 DEF Numbered
  <1>6. \A d, e \in S \cup {x} : d.id = e.id => d = e
    BY <1>2 DEF Numbered
  <1> QED
    BY <1>3, <1>4, <1>5, <1>6 DEF Numbered

(* What a step of the provider emits: a change of one subscription, later than all the
   events there are, and perhaps the checkout that goes with it. *)
LEMMA ProviderEmits ==
  ASSUME EventsAreTyped, Numbered(emitted), ~SameSecond, NEW s \in Subs, Provider(s)
  PROVE  \E c \in emitted' :
           /\ c.sub = s /\ c.kind # "checkout" /\ c \notin emitted
           /\ truth[s] # "canceled" /\ truth' = [truth EXCEPT ![s] = c.status]
           /\ EventsAreTyped' /\ Numbered(emitted)' /\ emitted \subseteq emitted'
           /\ \A e \in emitted' \ emitted :
                /\ e.sub = s /\ e.created > now /\ e.id > Cardinality(emitted)
                /\ e = c \/ (e.kind = "checkout" /\ e.status = "active")
           /\ truth[s] = "none" => /\ \A p \in Subs \ {s} : Over(p)
                                   /\ LateEvents \/ emitted \subseteq acked
  <1>1. truth[s] = "none" => /\ \A p \in Subs \ {s} : Over(p)
                             /\ LateEvents \/ emitted \subseteq acked
    BY DEF Provider, Subscribe, Over
  <1>2. truth[s] # "canceled"
    BY DEF Provider, Subscribe
  <1>3. PICK st \in Statuses, k \in Kinds \ {"checkout"} :
          Change(s, st, k) \/ (st = "active" /\ Complete(s, k))
    BY DEF Provider, Subscribe, Statuses, Kinds
  <1>4. /\ now \in Nat /\ Moments = {now + 1} /\ Cardinality(emitted) \in Nat
        /\ NextId = Cardinality(emitted) + 1
        /\ truth' = [truth EXCEPT ![s] = st] /\ truth' \in [Subs -> Statuses \cup {"none"}]
    BY <1>3, FS_CardinalityType DEF EventsAreTyped, Numbered, Moments, NextId, Change, Complete
  <1> DEFINE c == [id |-> NextId, kind |-> k, sub |-> s, status |-> st, created |-> now + 1]
             w(later) == [id |-> NextId + 1, kind |-> "checkout", sub |-> s, status |-> "active",
                          created |-> now + 1 + later]
  <1>5. c.id = Cardinality(emitted) + 1 /\ c.created = now + 1 /\ c.kind = k /\ c.sub = s /\ c.status = st
    BY <1>4
  <1>6. /\ Numbered(emitted \cup {c}) /\ c \notin emitted
        /\ Cardinality(emitted \cup {c}) = Cardinality(emitted) + 1
    BY <1>5, NumberedGrows
  <1>7. CASE Change(s, st, k)
    <2>1. now' = now + 1 /\ emitted' = emitted \cup {c}
      BY <1>4, <1>7 DEF Change
    <2>2. c \in [id : Nat, kind : Kinds, sub : Subs, status : Statuses, created : 1..now']
      BY <1>4, <2>1
    <2>3. EventsAreTyped'
      BY <1>4, <2>1, <2>2 DEF EventsAreTyped
    <2>4. \A e \in emitted' \ emitted : e = c
      BY <2>1
    <2>5. c.created > now /\ c.id > Cardinality(emitted)
      BY <1>4, <1>5
    <2>6. Numbered(emitted)'
      BY <1>6, <2>1
    <2> HIDE DEF c
    <2> QED
      BY <1>1, <1>2, <1>4, <1>5, <1>6, <2>1, <2>3, <2>4, <2>5, <2>6
  <1>8. CASE st = "active" /\ Complete(s, k)
    <2>1. PICK later \in {0, 1} : now' = now + 1 + later /\ emitted' = emitted \cup {c, w(later)}
      BY <1>4, <1>8 DEF Complete
    <2> DEFINE x == w(later)
    <2>2. /\ x.id = Cardinality(emitted \cup {c}) + 1 /\ x.created = now + 1 + later
          /\ x.sub = s /\ x.kind = "checkout" /\ x.status = "active"
      BY <1>4, <1>6
    <2>3. c \in [id : Nat, kind : Kinds, sub : Subs, status : Statuses, created : 1..now']
      BY <1>4, <2>1
    <2>4. x \in [id : Nat, kind : Kinds, sub : Subs, status : Statuses, created : 1..now']
      BY <1>4, <2>1 DEF Kinds, Statuses
    <2>5. EventsAreTyped'
      <3>1. emitted' \subseteq [id : Nat, kind : Kinds, sub : Subs, status : Statuses, created : 1..now']
        <4>1. now <= now' /\ now' \in Nat
          BY <1>4, <2>1
        <4> HIDE DEF c, w, x
        <4> QED
          BY <1>4, <2>1, <2>3, <2>4, <4>1 DEF EventsAreTyped, x
      <3> QED
        BY <1>4, <2>1, <3>1 DEF EventsAreTyped
    <2> HIDE DEF c, w, x
    <2>6. emitted' = (emitted \cup {c}) \cup {x}
      BY <2>1 DEF x
    <2>7. Numbered(emitted')
      BY <1>6, <2>2, <2>6, NumberedGrows
    <2>8. \A e \in emitted' \ emitted : e = c \/ e = x
      BY <2>6
    <2>9. c.created > now /\ c.id > Cardinality(emitted) /\ x.created > now /\ x.id > Cardinality(emitted)
      BY <1>4, <1>5, <1>6, <2>2
    <2> QED
      BY <1>1, <1>2, <1>4, <1>5, <1>6, <2>2, <2>5, <2>6, <2>7, <2>8, <2>9
  <1> QED
    BY <1>3, <1>7, <1>8

LEMMA ProviderKeepsLicence ==
  ASSUME LicenceInv, ~SameSecond, ~LateEvents,
         NEW s \in Subs, Provider(s), UNCHANGED <<acked, recorded, row, asking, crashes>>
  PROVE  LicenceInv'
  <1>1. /\ EventsAreTyped /\ Numbered(emitted) /\ TruthIsTheLastChange /\ CancellationsAreLast
        /\ OneAfterAnother /\ DeliveryInv /\ RowInv
    BY DEF LicenceInv, ProviderInv
  <1>2. PICK c \in emitted' :
           /\ c.sub = s /\ c.kind # "checkout" /\ c \notin emitted
           /\ truth[s] # "canceled" /\ truth' = [truth EXCEPT ![s] = c.status]
           /\ EventsAreTyped' /\ Numbered(emitted)' /\ emitted \subseteq emitted'
           /\ \A e \in emitted' \ emitted :
                /\ e.sub = s /\ e.created > now /\ e.id > Cardinality(emitted)
                /\ e = c \/ (e.kind = "checkout" /\ e.status = "active")
           /\ truth[s] = "none" => /\ \A p \in Subs \ {s} : Over(p)
                                   /\ LateEvents \/ emitted \subseteq acked
    BY <1>1, ProviderEmits
  <1>3. /\ truth \in [Subs -> Statuses \cup {"none"}] /\ now \in Nat
        /\ truth'[s] = c.status /\ c.status \in Statuses
        /\ \A p \in Subs : p # s => truth'[p] = truth[p] /\ (Over(p)' <=> Over(p))
        /\ \A e \in emitted : e.sub \in Subs /\ e.created \in Nat /\ e.created <= now /\ e.status \in Statuses
        /\ \A e \in emitted' : e.created \in Nat
        /\ Cardinality(emitted) \in Nat
    <2>1. truth \in [Subs -> Statuses \cup {"none"}] /\ now \in Nat
      BY <1>1 DEF EventsAreTyped
    <2>2. /\ \A e \in emitted : e.sub \in Subs /\ e.created \in Nat /\ e.created <= now /\ e.status \in Statuses
          /\ \A e \in emitted' : e.created \in Nat
          /\ c.status \in Statuses
      BY <1>1, <1>2 DEF EventsAreTyped
    <2>3. truth'[s] = c.status /\ \A p \in Subs : p # s => truth'[p] = truth[p]
      BY <1>2, <2>1
    <2>4. Cardinality(emitted) \in Nat
      BY <1>1, FS_CardinalityType DEF Numbered
    <2> QED
      BY <2>1, <2>2, <2>3, <2>4 DEF Over
  <1>4. \A d \in emitted : d.created < c.created
    BY <1>2, <1>3
  <1>5. \A p \in Subs : p # s => Changes(p)' = Changes(p)
    <2> SUFFICES ASSUME NEW p \in Subs, p # s PROVE Changes(p)' = Changes(p)
      OBVIOUS
    <2> QED
      BY <1>2 DEF Changes
  <1>6. Changes(s)' = Changes(s) \cup {c}
    <2>1. \A e \in emitted' : e.sub = s /\ e.kind # "checkout" <=> e = c \/ e \in Changes(s)
      BY <1>2 DEF Changes
    <2>2. Changes(s) \subseteq emitted'
      BY <1>2 DEF Changes
    <2> QED
      BY <2>1, <2>2 DEF Changes
  <1>7. \A p \in Subs : Changes(p) \subseteq emitted
    BY DEF Changes
  <1>8. "none" \notin Statuses
    BY DEF Statuses
  <1>9. TruthIsTheLastChange'
    <2> SUFFICES ASSUME NEW p \in Subs
                 PROVE (IF truth[p] = "none" THEN \A e \in emitted : e.sub # p
                        ELSE \E e \in Changes(p) : /\ e.status = truth[p]
                               /\ \A d \in Changes(p) : d = e \/ d.created < e.created)'
      BY DEF TruthIsTheLastChange
    <2>1. CASE p = s
      BY <1>3, <1>4, <1>6, <1>7, <1>8, <2>1
    <2>2. CASE p # s
      <3>1. truth'[p] = truth[p] /\ Changes(p)' = Changes(p)
        BY <1>3, <1>5, <2>2
      <3>2. (\A e \in emitted : e.sub # p) => \A e \in emitted' : e.sub # p
        BY <1>2, <2>2
      <3> QED
        BY <1>1, <3>1, <3>2 DEF TruthIsTheLastChange
    <2> QED
      BY <2>1, <2>2
  <1>10. CancellationsAreLast'
    <2> SUFFICES ASSUME NEW e \in emitted', e.status = "canceled"
                 PROVE truth'[e.sub] = "canceled" /\ \A d \in Changes(e.sub)' : d.created <= e.created
      BY DEF CancellationsAreLast
    <2>1. CASE e = c
      <3>1. \A d \in Changes(s)' : d.created <= c.created
        BY <1>3, <1>4, <1>6, <1>7
      <3> QED
        BY <1>2, <1>3, <2>1, <3>1
    <2>2. CASE e \in emitted
      <3>1. truth[e.sub] = "canceled" /\ \A d \in Changes(e.sub) : d.created <= e.created
        BY <1>1, <2>2 DEF CancellationsAreLast
      <3>2. e.sub # s /\ e.sub \in Subs
        BY <1>2, <1>3, <2>2, <3>1
      <3> QED
        BY <1>3, <1>5, <3>1, <3>2
    <2> QED
      BY <1>2, <2>1, <2>2
  <1>11. \A p \in Subs : p # s => Over(p)
    BY <1>1, <1>2 DEF OneAfterAnother, Over
  <1>12. \A d \in emitted : d.sub # s => truth[d.sub] = "canceled" /\ truth'[d.sub] = "canceled"
    <2> SUFFICES ASSUME NEW d \in emitted, d.sub # s
                 PROVE  truth[d.sub] = "canceled" /\ truth'[d.sub] = "canceled"
      OBVIOUS
    <2>1. truth[d.sub] # "none"
      BY <1>1, <1>3 DEF TruthIsTheLastChange
    <2> QED
      BY <1>3, <1>11, <2>1 DEF Over
  <1>13. OneAfterAnother'
    <2>1. \A p, q \in Subs : p # q => (Over(p) \/ Over(q))'
      BY <1>3, <1>11
    <2>2. ASSUME NEW d \in emitted', NEW f \in emitted', d.sub # f.sub, d.created < f.created
          PROVE  /\ truth'[d.sub] = "canceled"
                 /\ \A e \in emitted' : e.sub = d.sub => e.created < f.created
      <3>1. CASE d \in emitted /\ f \in emitted
        <4>1. /\ truth[d.sub] = "canceled"
              /\ \A e \in emitted : e.sub = d.sub => e.created < f.created
          BY <1>1, <2>2, <3>1 DEF OneAfterAnother
        <4>2. d.sub # s
          BY <1>2, <4>1
        <4> QED
          BY <1>2, <1>12, <3>1, <4>1, <4>2
      <3>2. CASE d \in emitted /\ f \notin emitted
        <4>1. f.sub = s /\ f.created > now /\ d.sub # s
          BY <1>2, <2>2, <3>2
        <4>2. \A e \in emitted' : e.sub = d.sub => e \in emitted
          BY <1>2, <4>1
        <4> QED
          BY <1>3, <1>12, <3>2, <4>1, <4>2
      <3>3. CASE d \notin emitted /\ f \in emitted
        BY <1>2, <1>3, <2>2, <3>3
      <3>4. CASE d \notin emitted /\ f \notin emitted
        BY <1>2, <2>2, <3>4
      <3> QED
        BY <3>1, <3>2, <3>3, <3>4
    <2> QED
      BY <2>1, <2>2 DEF OneAfterAnother
  <1>14. LateOnesAreTheLast'
    <2> SUFFICES ASSUME NEW d \in emitted' \ acked
                 PROVE  /\ \A f \in emitted' : f.sub # d.sub => f.created < d.created
                        /\ \A p \in Subs : p # d.sub => Over(p)'
      BY DEF LateOnesAreTheLast
    <2>1. CASE d \in emitted
      <3>1. /\ \A f \in emitted : f.sub # d.sub => f.created < d.created
            /\ \A p \in Subs : p # d.sub => Over(p)
        BY <1>1, <2>1 DEF DeliveryInv, LateOnesAreTheLast
      <3>2. d.sub = s
        BY <1>2, <2>1, <3>1 DEF Over
      <3> QED
        BY <1>2, <1>3, <3>1, <3>2
    <2>2. CASE d \notin emitted
      <3>1. d.sub = s /\ d.created > now
        BY <1>2, <2>2
      <3> QED
        BY <1>2, <1>3, <1>11, <3>1
    <2> QED
      BY <2>1, <2>2
  <1>15. DeliveryInv'
    BY <1>1, <1>2, <1>14 DEF DeliveryInv
  <1>16. ASSUME NEW e \in emitted, NEW status, NEW created \in Nat, created <= now, IsAsOf(e, status, created)
         PROVE  IsAsOf(e, status, created)'
    <2>1. \A d \in Changes(e.sub)' : d \in Changes(e.sub) \/ d = c
      BY <1>3, <1>5, <1>6
    <2>2. c.id \notin recorded
      BY <1>1, <1>2, <1>3 DEF DeliveryInv, Numbered
    <2>3. c.created >= created
      BY <1>2, <1>3, <1>16
    <2> QED
      BY <1>16, <2>1, <2>2, <2>3 DEF IsAsOf
  <1>17. RowIsTyped'
    BY <1>1, <1>2 DEF RowInv, RowIsTyped
  <1>18. row # None => row.sub \in Subs /\ row.created \in Nat /\ row.created <= now
    BY <1>1, <1>3 DEF RowInv, RowIsTyped
  <1>19. \A p \in Subs : Changes(p) \subseteq Changes(p)'
    BY <1>2 DEF Changes
  <1>20. RowIsOfAChange'
    <2> SUFFICES ASSUME row # None PROVE \E e \in Changes(row.sub)' : IsAsOf(e, row.status, row.created)'
      BY DEF RowIsOfAChange
    <2>1. PICK e \in Changes(row.sub) : IsAsOf(e, row.status, row.created)
      BY <1>1 DEF RowInv, RowIsOfAChange
    <2>2. e \in emitted /\ e \in Changes(row.sub)'
      BY <1>7, <1>18, <1>19
    <2> QED
      BY <1>16, <1>18, <2>1, <2>2
  <1>21. RecordedIsInTheRow'
    <2>1. \A d \in emitted' : d.id \in recorded => d \in emitted
      BY <1>1, <1>2, <1>3 DEF DeliveryInv, Numbered
    <2> QED
      BY <1>1, <2>1 DEF RowInv, RecordedIsInTheRow
  <1>22. CheckoutsAreFresh'
    <2>1. \A w \in asking : w.event \in emitted /\ w.event.sub \in Subs /\ w.event.created \in Nat /\ w.event.created <= now
      BY <1>1, <1>3 DEF DeliveryInv
    <2>2. ASSUME NEW w \in asking, w.seen # None
          PROVE  \E e \in Changes(w.event.sub)' : IsAsOf(e, w.seen, w.event.created)'
      <3>1. PICK e \in Changes(w.event.sub) : IsAsOf(e, w.seen, w.event.created)
        BY <1>1, <2>2 DEF RowInv, CheckoutsAreFresh
      <3>2. e \in emitted /\ e \in Changes(w.event.sub)'
        BY <1>7, <1>19, <2>1
      <3> QED
        BY <1>16, <2>1, <3>1, <3>2
    <2> QED
      BY <1>1, <2>2 DEF RowInv, CheckoutsAreFresh
  <1> QED
    BY <1>2, <1>9, <1>10, <1>13, <1>15, <1>17, <1>20, <1>21, <1>22
       DEF LicenceInv, ProviderInv, RowInv

(* What is known when an event not acknowledged yet meets another subscription's row: it
   is newer than everything in it, the row's subscription is over, and no change of its own
   was recorded. *)
LEMMA MeetsAnOldRow ==
  ASSUME LicenceInv, NEW e \in emitted \ acked, row # None, row.sub # e.sub
  PROVE  /\ row.created < e.created
         /\ ~Entitled
         /\ \A d \in Changes(e.sub) : d.id \notin recorded
  <1>1. /\ EventsAreTyped /\ TruthIsTheLastChange /\ OneAfterAnother /\ DeliveryInv /\ LateOnesAreTheLast
        /\ RowIsTyped /\ RowIsOfAChange /\ RecordedIsInTheRow
    BY DEF LicenceInv, ProviderInv, DeliveryInv, RowInv
  <1>2. \A d \in emitted : d.sub \in Subs /\ d.created \in Nat
    BY <1>1 DEF EventsAreTyped
  <1>3. \A f \in emitted : f.sub # e.sub => f.created < e.created
    BY <1>1 DEF LateOnesAreTheLast
  <1>4. PICK f \in emitted : f.sub = row.sub /\ f.created = row.created
    BY <1>1 DEF RowIsTyped
  <1>5. f.created < e.created
    BY <1>3, <1>4
  <1>6. \A d \in Changes(e.sub) : d.id \notin recorded
    <2> SUFFICES ASSUME NEW d \in Changes(e.sub), d.id \in recorded PROVE FALSE
      OBVIOUS
    <2>1. d \in emitted /\ d.sub = e.sub /\ d.kind # "checkout"
      BY DEF Changes
    <2>2. d.created < f.created
      BY <1>1, <1>4, <2>1 DEF RecordedIsInTheRow
    <2>3. e.created < f.created
      BY <1>1, <1>4, <2>1, <2>2 DEF OneAfterAnother
    <2> QED
      BY <1>2, <1>5, <2>3
  <1>7. ~Entitled
    <2>1. truth[row.sub] = "canceled" /\ row.sub \in Subs
      BY <1>1, <1>2, <1>4, <1>5 DEF OneAfterAnother
    <2>2. PICK last \in Changes(row.sub) :
            /\ last.status = "canceled"
            /\ \A d \in Changes(row.sub) : d = last \/ d.created < last.created
      BY <1>1, <2>1 DEF TruthIsTheLastChange
    <2>3. last \in emitted /\ last.sub = row.sub
      BY DEF Changes
    <2>4. last \in acked
      <3> SUFFICES ASSUME last \notin acked PROVE FALSE
        OBVIOUS
      <3>1. e.created < last.created
        BY <1>1, <2>3 DEF LateOnesAreTheLast
      <3>2. last.created < e.created
        BY <1>3, <2>3
      <3> QED
        BY <1>2, <2>3, <3>1, <3>2
    <2>5. last.id \in recorded
      BY <1>1, <2>4 DEF DeliveryInv
    <2>6. PICK g \in Changes(row.sub) : IsAsOf(g, row.status, row.created)
      BY <1>1 DEF RowIsOfAChange
    <2>7. g.sub = row.sub /\ g \in emitted
      BY DEF Changes
    <2>8. last.created <= g.created
      BY <2>5, <2>6, <2>7 DEF IsAsOf
    <2>9. g = last
      BY <1>2, <2>2, <2>3, <2>7, <2>8
    <2> QED
      BY <2>2, <2>6, <2>9 DEF IsAsOf, Entitled
  <1> QED
    BY <1>4, <1>5, <1>6, <1>7

(* Its subscription's row is not later than an event that is not stale. *)
LEMMA UpsertTakes ==
  ASSUME LicenceInv, NEW e \in emitted \ acked, NEW status \in Statuses, Upsert(e, status, e.sub),
         row # None /\ row.sub = e.sub => row.created <= e.created
  PROVE  /\ row' \in Rows /\ row' # None
         /\ row'.sub = e.sub /\ row'.status = status /\ row'.created = e.created
  <1>1. EventsAreTyped /\ RowIsTyped
    BY DEF LicenceInv, ProviderInv, RowInv
  <1>2. e.sub \in Subs /\ e.created \in Nat
    BY <1>1 DEF EventsAreTyped
  <1>3. e.sub # None /\ None \notin Rows
    BY <1>2, BillingAssumption
  <1>4. row # None => row.created <= e.created /\ row.created \in Nat
    BY <1>1, <1>2, MeetsAnOldRow DEF RowIsTyped, Rows
  <1>5. row' = [sub |-> e.sub, status |-> status, created |-> e.created, end |-> e.sub]
    <2>1. (IF row # None /\ row.created > e.created THEN row.created ELSE e.created) = e.created
      BY <1>2, <1>4
    <2> QED
      BY <1>3, <2>1 DEF Upsert
  <1> QED
    BY <1>2, <1>3, <1>5 DEF Rows

(* What stays of the provider's and the deliveries' side when the webhook moves. *)
LEMMA WebhookKeepsProvider ==
  ASSUME ProviderInv, UNCHANGED providerVars
  PROVE  ProviderInv' /\ \A s : Changes(s)' = Changes(s)
  BY DEF ProviderInv, providerVars, EventsAreTyped, TruthIsTheLastChange, CancellationsAreLast,
         OneAfterAnother, Changes, Over

LEMMA AnsweringKeepsDelivery ==
  ASSUME DeliveryInv, UNCHANGED providerVars, asking' = {},
         acked \subseteq acked', acked' \subseteq emitted, recorded' \subseteq {e.id : e \in emitted},
         \A e \in acked' : e.id \in recorded'
  PROVE  DeliveryInv'
  <1>1. LateOnesAreTheLast'
    BY DEF DeliveryInv, LateOnesAreTheLast, providerVars, Over
  <1> QED
    BY <1>1 DEF DeliveryInv, providerVars

(* A row stays as of a change, of which no later one is recorded. *)
LEMMA StaysAsOf ==
  ASSUME NEW g, NEW status, NEW created, IsAsOf(g, status, created), UNCHANGED emitted,
         \A d \in Changes(g.sub) : d.id \in recorded' \ recorded => d.created <= g.created
  PROVE  IsAsOf(g, status, created)'
  <1>1. Changes(g.sub)' = Changes(g.sub)
    BY DEF Changes
  <1> QED
    BY <1>1 DEF IsAsOf

(* An event set aside: a checkout or a change the row already says, or a late one of a
   canceled subscription. *)
LEMMA DropKeepsLicence ==
  ASSUME LicenceInv, HasKey, NEW e \in emitted, e.id \notin recorded, Verdict(e) = "drop",
         recorded' = recorded \cup {e.id}, acked' = acked \cup {e},
         UNCHANGED <<providerVars, row, asking>>, asking = {}
  PROVE  LicenceInv'
  <1>1. /\ ProviderInv /\ EventsAreTyped /\ Numbered(emitted) /\ CancellationsAreLast /\ DeliveryInv
        /\ RowIsTyped /\ RowIsOfAChange /\ RecordedIsInTheRow
    BY DEF LicenceInv, ProviderInv, RowInv
  <1>2. ProviderInv' /\ (\A s : Changes(s)' = Changes(s)) /\ emitted' = emitted
    BY <1>1, WebhookKeepsProvider DEF providerVars
  <1>3. DeliveryInv'
    BY <1>1, AnsweringKeepsDelivery DEF DeliveryInv
  <1>4. e \in emitted \ acked
    BY <1>1 DEF DeliveryInv
  <1>5. \A d \in emitted : d.id = e.id => d = e
    BY <1>1 DEF Numbered
  <1>6. CheckoutsAreFresh'
    BY DEF CheckoutsAreFresh
  <1>7. CASE e.kind = "checkout"
    <2>1. \A s : \A d \in Changes(s) : d.id \notin recorded' \ recorded
      BY <1>5, <1>7 DEF Changes
    <2>2. RowIsOfAChange'
      <3> SUFFICES ASSUME row # None
                   PROVE  \E g \in Changes(row.sub)' : IsAsOf(g, row.status, row.created)'
        BY DEF RowIsOfAChange
      <3>1. PICK g \in Changes(row.sub) : IsAsOf(g, row.status, row.created)
        BY <1>1 DEF RowIsOfAChange
      <3>2. IsAsOf(g, row.status, row.created)'
        BY <1>2, <2>1, <3>1, StaysAsOf
      <3> QED
        BY <1>2, <3>2
    <2>3. RecordedIsInTheRow'
      BY <1>1, <1>2, <1>5, <1>7 DEF RecordedIsInTheRow
    <2> QED
      BY <1>1, <1>2, <1>3, <1>6, <2>2, <2>3 DEF LicenceInv, RowInv, RowIsTyped
  <1>8. CASE e.kind # "checkout"
    <2>1. /\ row # None /\ row.sub = e.sub
          /\ e.created < row.created \/ (row.status = "canceled" /\ e.status # "canceled")
      <3>1. IsStale(e) \/ Superseded(e) \/ AlreadyCanceled(e)
        BY <1>8 DEF Verdict, Known
      <3>2. ~Superseded(e)
        BY <1>4, MeetsAnOldRow DEF Superseded
      <3> QED
        BY <3>1, <3>2 DEF IsStale, AlreadyCanceled
    <2>2. PICK g \in Changes(row.sub) : IsAsOf(g, row.status, row.created)
      BY <1>1, <2>1 DEF RowIsOfAChange
    <2>3. /\ e \in Changes(g.sub) /\ g \in emitted /\ g.sub = row.sub /\ row.created \in Nat
          /\ e.created \in Nat /\ g.created \in Nat
      BY <1>1, <1>8, <2>1 DEF Changes, EventsAreTyped, RowIsTyped, Rows
    <2>4. e.created <= g.created
      <3>1. CASE e.created < row.created
        BY <2>2, <2>3, <3>1 DEF IsAsOf
      <3>2. CASE row.status = "canceled"
        BY <1>1, <2>2, <2>3, <3>2 DEF IsAsOf, CancellationsAreLast
      <3> QED
        BY <2>1, <3>1, <3>2
    <2>5. \A d \in Changes(g.sub) : d.id \in recorded' \ recorded => d.created <= g.created
      BY <1>5, <2>4 DEF Changes
    <2>6. RowIsOfAChange'
      BY <1>2, <2>2, <2>5, StaysAsOf DEF RowIsOfAChange
    <2>7. RecordedIsInTheRow'
      BY <1>1, <1>2, <1>5, <2>1, <2>3 DEF RecordedIsInTheRow
    <2> QED
      BY <1>1, <1>2, <1>3, <1>6, <2>6, <2>7 DEF LicenceInv, RowInv, RowIsTyped
  <1> QED
    BY <1>7, <1>8

(* A change applied: the row is as of it. *)
LEMMA ApplyKeepsLicence ==
  ASSUME LicenceInv, HasKey, NEW e \in emitted, e.id \notin recorded, e.kind # "checkout",
         Verdict(e) = "apply", Upsert(e, e.status, e.sub),
         recorded' = recorded \cup {e.id}, acked' = acked \cup {e},
         UNCHANGED <<providerVars, asking>>, asking = {}
  PROVE  LicenceInv'
  <1>1. /\ ProviderInv /\ EventsAreTyped /\ Numbered(emitted) /\ CancellationsAreLast
        /\ DeliveryInv /\ LateOnesAreTheLast /\ RowIsTyped /\ RecordedIsInTheRow
    BY DEF LicenceInv, ProviderInv, DeliveryInv, RowInv
  <1>2. ProviderInv' /\ (\A s : Changes(s)' = Changes(s)) /\ emitted' = emitted
    BY <1>1, WebhookKeepsProvider DEF providerVars
  <1>3. DeliveryInv'
    BY <1>1, AnsweringKeepsDelivery DEF DeliveryInv
  <1>4. e \in emitted \ acked
    BY <1>1 DEF DeliveryInv
  <1>5. /\ \A d \in emitted : d.id = e.id => d = e
        /\ \A d \in emitted : d.sub \in Subs /\ d.created \in Nat
        /\ e.status \in Statuses /\ e \in Changes(e.sub)
        /\ row # None => row.created \in Nat
    BY <1>1 DEF Numbered, EventsAreTyped, Changes, RowIsTyped, Rows
  <1>6. ~IsStale(e) /\ ~AlreadyCanceled(e)
    BY DEF Verdict, Known
  <1>7. row # None /\ row.sub = e.sub => row.created <= e.created
    BY <1>5, <1>6 DEF IsStale
  <1>8. /\ row' \in Rows /\ row' # None
        /\ row'.sub = e.sub /\ row'.status = e.status /\ row'.created = e.created
    BY <1>4, <1>5, <1>7, UpsertTakes
  <1>9. ASSUME NEW d \in Changes(e.sub), d.id \in recorded'
        PROVE  d.created <= e.created
    <2>0. d \in emitted /\ d.sub = e.sub /\ d.kind # "checkout"
      BY DEF Changes
    <2>1. CASE d = e
      BY <1>5, <2>1
    <2>2. CASE d # e
      <3>1. d.id \in recorded
        BY <1>5, <1>9, <2>0, <2>2
      <3>2. row # None
        BY <1>1, <2>0, <3>1 DEF RecordedIsInTheRow
      <3>3. row.sub = e.sub
        BY <1>4, <3>1, <3>2, MeetsAnOldRow
      <3>4. d.created <= row.created \/ row.status = "canceled"
        BY <1>1, <2>0, <3>1, <3>3 DEF RecordedIsInTheRow
      <3>5. CASE d.created <= row.created
        BY <1>5, <1>7, <2>0, <3>2, <3>3, <3>5
      <3>6. CASE row.status = "canceled"
        <4>1. e.status = "canceled"
          BY <1>6, <3>2, <3>3, <3>6 DEF AlreadyCanceled
        <4> QED
          BY <1>1, <4>1 DEF CancellationsAreLast
      <3> QED
        BY <3>4, <3>5, <3>6
    <2> QED
      BY <2>1, <2>2
  <1>10. RowIsTyped'
    BY <1>2, <1>8 DEF RowIsTyped
  <1>11. RowIsOfAChange'
    <2>1. IsAsOf(e, e.status, e.created)'
      <3>1. \A d \in Changes(e.sub) : d.created \in Nat /\ e.created \in Nat
        BY <1>5 DEF Changes
      <3> QED
        BY <1>2, <1>9, <3>1 DEF IsAsOf
    <2>2. e \in Changes(e.sub)'
      BY <1>2, <1>5
    <2>3. (\E g \in Changes(row.sub) : IsAsOf(g, row.status, row.created))'
      BY <1>8, <2>1, <2>2 DEF IsAsOf
    <2> QED
      BY <2>3 DEF RowIsOfAChange
  <1>12. RecordedIsInTheRow'
    <2> SUFFICES ASSUME NEW d \in emitted, d.kind # "checkout", d.id \in recorded'
                 PROVE  IF d.sub = row'.sub THEN d.created <= row'.created ELSE d.created < row'.created
      BY <1>2, <1>8 DEF RecordedIsInTheRow
    <2>1. CASE d.sub = e.sub
      <3>1. d \in Changes(e.sub)
        BY <2>1 DEF Changes
      <3> QED
        BY <1>8, <1>9, <2>1, <3>1
    <2>2. CASE d.sub # e.sub
      BY <1>1, <1>4, <1>8, <2>2 DEF LateOnesAreTheLast
    <2> QED
      BY <2>1, <2>2
  <1>13. CheckoutsAreFresh'
    BY DEF CheckoutsAreFresh
  <1> QED
    BY <1>2, <1>3, <1>10, <1>11, <1>12, <1>13 DEF LicenceInv, RowInv

(* A checkout that asks for its subscription. *)
LEMMA AskKeepsLicence ==
  ASSUME LicenceInv, NEW e \in emitted, e.id \notin recorded, e.kind = "checkout", ~IsStale(e),
         recorded' = recorded \cup {e.id}, asking' = {[event |-> e, seen |-> None]},
         UNCHANGED <<providerVars, acked, row>>
  PROVE  LicenceInv'
  <1>1. /\ ProviderInv /\ EventsAreTyped /\ Numbered(emitted)
        /\ DeliveryInv /\ LateOnesAreTheLast /\ RowIsTyped /\ RowIsOfAChange /\ RecordedIsInTheRow
    BY DEF LicenceInv, ProviderInv, DeliveryInv, RowInv
  <1>2. ProviderInv' /\ (\A s : Changes(s)' = Changes(s)) /\ emitted' = emitted
    BY <1>1, WebhookKeepsProvider DEF providerVars
  <1>3. e \in emitted \ acked
    BY <1>1 DEF DeliveryInv
  <1>4. /\ \A d \in emitted : d.id = e.id => d = e
        /\ e.created \in Nat
        /\ row # None => row.created \in Nat
    BY <1>1 DEF Numbered, EventsAreTyped, RowIsTyped, Rows
  <1> DEFINE v == [event |-> e, seen |-> None]
  <1>5. /\ v.event = e /\ v.seen = None
        /\ v \in [event : emitted \ acked, seen : Statuses \cup {None}]
    BY <1>3
  <1> HIDE DEF v
  <1>6. asking' = {v}
    BY DEF v
  <1>7. DeliveryInv'
    <2>1. LateOnesAreTheLast'
      BY <1>1, <1>2 DEF LateOnesAreTheLast, Over, providerVars
    <2> QED
      BY <1>1, <1>2, <1>5, <1>6, <2>1 DEF DeliveryInv
  <1>8. row # None => row.created <= e.created
    <2>1. CASE row # None /\ row.sub = e.sub
      BY <1>4, <2>1 DEF IsStale
    <2>2. CASE row # None /\ row.sub # e.sub
      BY <1>3, <1>4, <2>2, MeetsAnOldRow
    <2> QED
      BY <2>1, <2>2
  <1>9. CheckoutsAreFresh'
    BY <1>5, <1>6, <1>8 DEF CheckoutsAreFresh
  <1>10. \A s : \A d \in Changes(s) : d.id \notin recorded' \ recorded
    BY <1>4 DEF Changes
  <1>11. RowIsOfAChange'
    <2> SUFFICES ASSUME row # None
                 PROVE  \E g \in Changes(row.sub)' : IsAsOf(g, row.status, row.created)'
      BY DEF RowIsOfAChange
    <2>1. PICK g \in Changes(row.sub) : IsAsOf(g, row.status, row.created)
      BY <1>1 DEF RowIsOfAChange
    <2>2. IsAsOf(g, row.status, row.created)'
      BY <1>2, <1>10, <2>1, StaysAsOf
    <2> QED
      BY <1>2, <2>2
  <1>12. RecordedIsInTheRow'
    BY <1>1, <1>2, <1>4 DEF RecordedIsInTheRow
  <1> QED
    BY <1>1, <1>2, <1>7, <1>9, <1>11, <1>12 DEF LicenceInv, RowInv, RowIsTyped

LEMMA DeliverKeepsLicence ==
  ASSUME LicenceInv, HasKey, ~Overlap, NEW id \in 1..MaxEvents, Deliver(id)
  PROVE  LicenceInv'
  <1>1. PICK e \in emitted : HandleWebhook(e)
    BY DEF Deliver
  <1>2. asking = {} /\ UNCHANGED providerVars
    BY DEF Deliver
  <1>3. CASE e.id \in recorded /\ acked' = acked \cup {e} /\ UNCHANGED <<recorded, row, asking>>
    <2>1. ProviderInv /\ DeliveryInv /\ RowInv
      BY DEF LicenceInv
    <2>2. ProviderInv' /\ (\A s : Changes(s)' = Changes(s)) /\ emitted' = emitted
      BY <1>2, <2>1, WebhookKeepsProvider DEF providerVars
    <2>3. DeliveryInv'
      BY <1>2, <1>3, <2>1, AnsweringKeepsDelivery DEF DeliveryInv
    <2>4. RowIsTyped' /\ RecordedIsInTheRow' /\ CheckoutsAreFresh'
      BY <1>2, <1>3, <2>1, <2>2 DEF RowInv, RowIsTyped, RecordedIsInTheRow, CheckoutsAreFresh
    <2>5. RowIsOfAChange'
      BY <1>3, <2>1, <2>2 DEF RowInv, RowIsOfAChange, IsAsOf
    <2> QED
      BY <2>2, <2>3, <2>4, <2>5 DEF LicenceInv, RowInv
  <1>4. CASE UNCHANGED <<acked, recorded, row, asking>>
    <2>1. ProviderInv /\ DeliveryInv /\ RowInv
      BY DEF LicenceInv
    <2>2. ProviderInv' /\ (\A s : Changes(s)' = Changes(s)) /\ emitted' = emitted
      BY <1>2, <2>1, WebhookKeepsProvider DEF providerVars
    <2>3. DeliveryInv'
      BY <1>2, <1>4, <2>1, AnsweringKeepsDelivery DEF DeliveryInv
    <2>4. RowIsTyped' /\ RecordedIsInTheRow' /\ CheckoutsAreFresh'
      BY <1>2, <1>4, <2>1, <2>2 DEF RowInv, RowIsTyped, RecordedIsInTheRow, CheckoutsAreFresh
    <2>5. RowIsOfAChange'
      BY <1>4, <2>1, <2>2 DEF RowInv, RowIsOfAChange, IsAsOf
    <2> QED
      BY <2>2, <2>3, <2>4, <2>5 DEF LicenceInv, RowInv
  <1>5. CASE /\ e.id \notin recorded /\ recorded' = recorded \cup {e.id}
             /\ Verdict(e) = "drop" /\ acked' = acked \cup {e} /\ UNCHANGED <<row, asking>>
    BY <1>2, <1>5, DropKeepsLicence
  <1>6. CASE /\ e.id \notin recorded /\ recorded' = recorded \cup {e.id}
             /\ Verdict(e) = "apply" /\ acked' = acked \cup {e} /\ UNCHANGED asking
             /\ Upsert(e, e.status, IF e.kind = "checkout" THEN None ELSE e.sub)
    <2>1. e.kind # "checkout"
      BY <1>6 DEF Verdict
    <2>2. Upsert(e, e.status, e.sub)
      BY <1>6, <2>1
    <2> QED
      BY <1>2, <1>6, <2>1, <2>2, ApplyKeepsLicence
  <1>7. CASE /\ e.id \notin recorded /\ recorded' = recorded \cup {e.id} /\ Verdict(e) = "ask"
             /\ asking' = asking \cup {[event |-> e, seen |-> None]} /\ UNCHANGED <<row, acked>>
    <2>1. e.kind = "checkout" /\ ~IsStale(e)
      BY <1>7 DEF Verdict, IsStale
    <2>2. asking' = {[event |-> e, seen |-> None]}
      BY <1>2, <1>7
    <2> QED
      BY <1>2, <1>7, <2>1, <2>2, AskKeepsLicence
  <1> QED
    BY <1>1, <1>3, <1>4, <1>5, <1>6, <1>7 DEF HandleWebhook

(* The provider answers with its subscription's last change. *)
LEMMA AnswerKeepsLicence ==
  ASSUME LicenceInv, ProviderAnswers
  PROVE  LicenceInv'
  <1>1. /\ ProviderInv /\ EventsAreTyped /\ TruthIsTheLastChange /\ CancellationsAreLast
        /\ DeliveryInv /\ RowInv
    BY DEF LicenceInv, ProviderInv
  <1>2. PICK w \in asking : asking' = (asking \ {w}) \cup {[w EXCEPT !.seen = truth[w.event.sub]]}
    BY DEF ProviderAnswers
  <1>3. UNCHANGED providerVars /\ UNCHANGED <<acked, recorded, row>>
    BY DEF ProviderAnswers
  <1>4. ProviderInv' /\ (\A s : Changes(s)' = Changes(s)) /\ emitted' = emitted
    BY <1>1, <1>3, WebhookKeepsProvider DEF providerVars
  <1> DEFINE sub == w.event.sub
  <1>5. /\ w \in [event : emitted \ acked, seen : Statuses \cup {None}]
        /\ w.event.kind = "checkout" /\ w.event.id \in recorded /\ w.event \in emitted
    BY <1>1 DEF DeliveryInv
  <1>6. sub \in Subs /\ w.event.created \in Nat
    BY <1>1, <1>5 DEF EventsAreTyped
  <1>7. truth[sub] # "none" /\ truth[sub] \in Statuses
    BY <1>1, <1>5, <1>6 DEF TruthIsTheLastChange, EventsAreTyped
  <1>8. PICK v : /\ asking' = {v} /\ v.event = w.event /\ v.seen = truth[sub]
                 /\ v \in [event : emitted \ acked, seen : Statuses \cup {None}]
    <2> DEFINE x == [w EXCEPT !.seen = truth[sub]]
    <2>1. asking' = {x}
      BY <1>1, <1>2 DEF DeliveryInv
    <2>2. x.event = w.event /\ x.seen = truth[sub] /\ x \in [event : emitted \ acked, seen : Statuses \cup {None}]
      BY <1>5, <1>7
    <2> HIDE DEF x
    <2> QED
      BY <2>1, <2>2
  <1>10. DeliveryInv'
    <2>1. LateOnesAreTheLast'
      BY <1>1, <1>3, <1>4 DEF DeliveryInv, LateOnesAreTheLast, Over, providerVars
    <2> QED
      BY <1>1, <1>3, <1>4, <1>5, <1>8, <2>1 DEF DeliveryInv
  <1>11. RowIsTyped' /\ RecordedIsInTheRow'
    BY <1>1, <1>3, <1>4 DEF RowInv, RowIsTyped, RecordedIsInTheRow
  <1>12. RowIsOfAChange'
    BY <1>1, <1>3, <1>4 DEF RowInv, RowIsOfAChange, IsAsOf
  <1>13. CheckoutsAreFresh'
    <2>1. row # None => row.created <= w.event.created
      BY <1>1 DEF RowInv, CheckoutsAreFresh
    <2>2. row # None /\ row.sub = sub /\ row.status = "canceled" => truth[sub] = "canceled"
      <3> SUFFICES ASSUME row # None, row.sub = sub, row.status = "canceled"
                   PROVE  truth[sub] = "canceled"
        OBVIOUS
      <3>1. PICK g \in Changes(sub) : g.status = "canceled"
        BY <1>1 DEF RowInv, RowIsOfAChange, IsAsOf
      <3> QED
        BY <1>1, <3>1 DEF CancellationsAreLast, Changes
    <2>3. PICK last \in Changes(sub) :
            /\ last.status = truth[sub]
            /\ \A d \in Changes(sub) : d = last \/ d.created < last.created
      BY <1>1, <1>6, <1>7 DEF TruthIsTheLastChange
    <2>4. last.sub = sub /\ \A d \in Changes(sub) : d.created \in Nat
      BY <1>1 DEF Changes, EventsAreTyped
    <2>5. IsAsOf(last, v.seen, v.event.created)
      BY <1>6, <1>8, <2>3, <2>4 DEF IsAsOf
    <2>6. IsAsOf(last, v.seen, v.event.created)' /\ last \in Changes(sub)'
      BY <1>3, <1>4, <2>3, <2>5 DEF IsAsOf
    <2> QED
      BY <1>3, <1>8, <2>1, <2>2, <2>6 DEF CheckoutsAreFresh
  <1> QED
    BY <1>4, <1>10, <1>11, <1>12, <1>13 DEF LicenceInv, RowInv

(* The answer is written: the row is as of what the provider said. *)
LEMMA AppliesKeepsLicence ==
  ASSUME LicenceInv, CheckoutApplies
  PROVE  LicenceInv'
  <1>1. /\ ProviderInv /\ EventsAreTyped /\ DeliveryInv /\ LateOnesAreTheLast
        /\ RowIsTyped /\ RecordedIsInTheRow /\ CheckoutsAreFresh
    BY DEF LicenceInv, ProviderInv, DeliveryInv, RowInv
  <1>2. PICK w \in asking : /\ w.seen # None /\ Upsert(w.event, w.seen, w.event.sub)
                            /\ acked' = acked \cup {w.event} /\ asking' = asking \ {w}
    BY DEF CheckoutApplies
  <1>3. asking' = {} /\ recorded' = recorded /\ UNCHANGED providerVars
    BY <1>1, <1>2 DEF CheckoutApplies, DeliveryInv
  <1>4. ProviderInv' /\ (\A s : Changes(s)' = Changes(s)) /\ emitted' = emitted
    BY <1>1, <1>3, WebhookKeepsProvider DEF providerVars
  <1> DEFINE e == w.event
  <1>5. e \in emitted \ acked /\ e.id \in recorded /\ w.seen \in Statuses
    BY <1>1, <1>2 DEF DeliveryInv
  <1> HIDE DEF e
  <1>6. /\ \A d \in emitted : d.sub \in Subs /\ d.created \in Nat
        /\ row # None => row.created \in Nat
    BY <1>1 DEF EventsAreTyped, RowIsTyped, Rows
  <1>7. row # None => row.created <= e.created
    BY <1>1 DEF CheckoutsAreFresh, e
  <1>8. /\ row' \in Rows /\ row' # None
        /\ row'.sub = e.sub /\ row'.status = w.seen /\ row'.created = e.created
    BY <1>2, <1>5, <1>7, UpsertTakes DEF e
  <1>9. DeliveryInv'
    BY <1>1, <1>2, <1>3, <1>5, AnsweringKeepsDelivery DEF DeliveryInv, e
  <1>10. RowIsTyped' /\ CheckoutsAreFresh'
    BY <1>3, <1>4, <1>5, <1>8 DEF RowIsTyped, CheckoutsAreFresh
  <1>11. RowIsOfAChange'
    <2>1. PICK g \in Changes(e.sub) : IsAsOf(g, w.seen, e.created)
      BY <1>1, <1>2 DEF CheckoutsAreFresh, e
    <2>2. IsAsOf(g, w.seen, e.created)' /\ g \in Changes(e.sub)'
      BY <1>3, <1>4, <2>1 DEF IsAsOf
    <2>3. (\E x \in Changes(row.sub) : IsAsOf(x, row.status, row.created))'
      BY <1>8, <2>2 DEF IsAsOf
    <2> QED
      BY <2>3 DEF RowIsOfAChange
  <1>12. RecordedIsInTheRow'
    <2> SUFFICES ASSUME NEW d \in emitted, d.kind # "checkout", d.id \in recorded
                 PROVE  IF d.sub = e.sub THEN d.created <= e.created \/ w.seen = "canceled"
                        ELSE d.created < e.created
      BY <1>3, <1>4, <1>8 DEF RecordedIsInTheRow
    <2>1. CASE d.sub = e.sub
      <3>1. row # None
        BY <1>1 DEF RecordedIsInTheRow
      <3>2. row.sub = e.sub
        BY <1>5, <2>1, <3>1, MeetsAnOldRow DEF Changes
      <3>3. d.created <= row.created \/ row.status = "canceled"
        BY <1>1, <2>1, <3>2 DEF RecordedIsInTheRow
      <3>4. row.status = "canceled" => w.seen = "canceled"
        BY <1>1, <1>2, <3>1, <3>2 DEF CheckoutsAreFresh, e
      <3> QED
        BY <1>5, <1>6, <1>7, <2>1, <3>1, <3>3, <3>4
    <2>2. CASE d.sub # e.sub
      BY <1>1, <1>5, <2>2 DEF LateOnesAreTheLast
    <2> QED
      BY <2>1, <2>2
  <1> QED
    BY <1>4, <1>9, <1>10, <1>11, <1>12 DEF LicenceInv, RowInv

(* A question that ends without its answer: the checkout is forgotten, or the process
   stops with it. *)
LEMMA UnansweredKeepsLicence ==
  ASSUME LicenceInv, CheckoutFails \/ Crash
  PROVE  LicenceInv'
  <1>1. ProviderInv /\ Numbered(emitted) /\ DeliveryInv /\ RowInv
    BY DEF LicenceInv, ProviderInv
  <1>2. asking' = {} /\ UNCHANGED providerVars /\ UNCHANGED <<acked, row>> /\ recorded' \subseteq recorded
    BY <1>1 DEF CheckoutFails, Crash, DeliveryInv
  <1>3. ProviderInv' /\ (\A s : Changes(s)' = Changes(s)) /\ emitted' = emitted
    BY <1>1, <1>2, WebhookKeepsProvider DEF providerVars
  <1>4. \A e \in acked : e.id \in recorded'
    <2>1. CASE Crash
      BY <1>1, <2>1 DEF Crash, DeliveryInv
    <2>2. CASE CheckoutFails
      <3>1. PICK w \in asking : recorded' = recorded \ {w.event.id}
        BY <2>2 DEF CheckoutFails
      <3>2. w.event \in emitted /\ w.event \notin acked
        BY <1>1 DEF DeliveryInv
      <3> QED
        BY <1>1, <3>1, <3>2 DEF DeliveryInv, Numbered
    <2> QED
      BY <2>1, <2>2
  <1>5. DeliveryInv'
    BY <1>1, <1>2, <1>4, AnsweringKeepsDelivery DEF DeliveryInv
  <1>6. RowIsTyped' /\ RecordedIsInTheRow' /\ CheckoutsAreFresh'
    BY <1>1, <1>2, <1>3 DEF RowInv, RowIsTyped, RecordedIsInTheRow, CheckoutsAreFresh
  <1>7. RowIsOfAChange'
    BY <1>1, <1>2, <1>3 DEF RowInv, RowIsOfAChange, IsAsOf
  <1> QED
    BY <1>3, <1>5, <1>6, <1>7 DEF LicenceInv, RowInv

LEMMA LicenceInit == Init => LicenceInv
  <1> SUFFICES ASSUME Init PROVE LicenceInv
    OBVIOUS
  <1>1. EventsAreTyped /\ Numbered(emitted) /\ TruthIsTheLastChange /\ CancellationsAreLast
    BY FS_EmptySet DEF Init, EventsAreTyped, Numbered, TruthIsTheLastChange, CancellationsAreLast
  <1>2. OneAfterAnother /\ DeliveryInv
    BY DEF Init, OneAfterAnother, Over, DeliveryInv, LateOnesAreTheLast
  <1>3. RowInv
    BY DEF Init, RowInv, RowIsTyped, RowIsOfAChange, RecordedIsInTheRow, CheckoutsAreFresh
  <1> QED
    BY <1>1, <1>2, <1>3 DEF LicenceInv, ProviderInv

LEMMA LicenceStep ==
  ASSUME HasKey, ~Overlap, ~SameSecond, ~LateEvents, LicenceInv, [Next]_billingVars
  PROVE  LicenceInv'
  <1>1. CASE UNCHANGED billingVars
    <2>1. ProviderInv /\ DeliveryInv /\ RowInv /\ UNCHANGED providerVars
      BY <1>1 DEF LicenceInv, billingVars
    <2>2. ProviderInv' /\ (\A s : Changes(s)' = Changes(s)) /\ emitted' = emitted
      BY <2>1, WebhookKeepsProvider DEF providerVars
    <2>3. DeliveryInv'
      BY <1>1, <2>1, <2>2 DEF billingVars, providerVars, DeliveryInv, LateOnesAreTheLast, Over
    <2>4. RowInv'
      BY <1>1, <2>1, <2>2 DEF billingVars, RowInv, RowIsTyped, RowIsOfAChange, IsAsOf,
                              RecordedIsInTheRow, CheckoutsAreFresh
    <2> QED
      BY <2>2, <2>3, <2>4 DEF LicenceInv
  <1>2. CASE \E s \in Subs : Provider(s) /\ UNCHANGED <<acked, recorded, row, asking, crashes>>
    BY <1>2, ProviderKeepsLicence
  <1>3. CASE \E id \in 1..MaxEvents : Deliver(id)
    BY <1>3, DeliverKeepsLicence
  <1>4. CASE ProviderAnswers
    BY <1>4, AnswerKeepsLicence
  <1>5. CASE CheckoutApplies
    BY <1>5, AppliesKeepsLicence
  <1>6. CASE CheckoutFails \/ Crash
    BY <1>6, UnansweredKeepsLicence
  <1> QED
    BY <1>1, <1>2, <1>3, <1>4, <1>5, <1>6 DEF Next

LEMMA LicenceIsTheTruth == LicenceInv => SettledIsTruth
  <1> SUFFICES ASSUME LicenceInv, Settled
               PROVE  /\ \A s \in Subs : truth[s] \in {"active", "past_due"} =>
                           row # None /\ row.sub = s /\ row.status = truth[s]
                      /\ Entitled => truth[row.sub] \in {"active", "past_due"}
    BY DEF SettledIsTruth
  <1>1. /\ EventsAreTyped /\ TruthIsTheLastChange /\ OneAfterAnother /\ DeliveryInv
        /\ RowIsTyped /\ RowIsOfAChange /\ RecordedIsInTheRow
    BY DEF LicenceInv, ProviderInv, RowInv
  <1>2. \A e \in emitted : e.id \in recorded /\ e.created \in Nat /\ e.sub \in Subs
    BY <1>1 DEF Settled, DeliveryInv, EventsAreTyped
  <1>3. row # None => row.status = truth[row.sub]
    <2> SUFFICES ASSUME row # None PROVE row.status = truth[row.sub]
      OBVIOUS
    <2>1. PICK g \in Changes(row.sub) : IsAsOf(g, row.status, row.created)
      BY <1>1 DEF RowIsOfAChange
    <2>2. g \in emitted /\ g.sub = row.sub
      BY DEF Changes
    <2>3. PICK last \in Changes(row.sub) :
            /\ last.status = truth[row.sub]
            /\ \A d \in Changes(row.sub) : d = last \/ d.created < last.created
      BY <1>1, <1>2, <2>2 DEF TruthIsTheLastChange
    <2>4. last \in emitted
      BY DEF Changes
    <2>5. last.created <= g.created
      BY <1>2, <2>1, <2>2, <2>3, <2>4 DEF IsAsOf
    <2> QED
      BY <1>2, <2>1, <2>2, <2>3, <2>4, <2>5 DEF IsAsOf
  <1>4. ASSUME NEW s \in Subs, truth[s] \in {"active", "past_due"}
        PROVE  row # None /\ row.sub = s
    <2>1. PICK last \in Changes(s) : last.status = truth[s]
      BY <1>1, <1>4 DEF TruthIsTheLastChange
    <2>2. last \in emitted /\ last.sub = s /\ last.kind # "checkout"
      BY DEF Changes
    <2>3. row # None /\ (row.sub = s \/ last.created < row.created)
      BY <1>1, <1>2, <2>2 DEF RecordedIsInTheRow
    <2>4. PICK f \in emitted : f.sub = row.sub /\ f.created = row.created
      BY <1>1, <2>3 DEF RowIsTyped
    <2>5. f.sub # s => ~(last.created < f.created)
      BY <1>1, <1>4, <2>2 DEF OneAfterAnother
    <2> QED
      BY <2>3, <2>4, <2>5
  <1> QED
    BY <1>3, <1>4 DEF Entitled

(* Once every event is acknowledged the licence's row is the provider's truth, whatever
   order, repetition, failure and crash brought it there: a checkout's answer or a change,
   the last one that counts is written last.  With the key, one delivery at a time beside a
   checkout's question, changes at distinct seconds and no late event of a former
   subscription. *)
THEOREM LicenceSettlesOnTruth ==
  ASSUME HasKey, ~Overlap, ~SameSecond, ~LateEvents
  PROVE  Spec => []SettledIsTruth
  <1>1. LicenceInv /\ [Next]_billingVars => LicenceInv'
    BY LicenceStep
  <1> QED
    BY <1>1, LicenceInit, LicenceIsTheTruth, PTL DEF Spec
=============================================================================

------------------------- MODULE ImportSlotsProofs -------------------------
(***************************************************************************)
(* The import queue and the validator's slots beside it.                   *)
(*                                                                         *)
(* First the queue, for every set of requests and sessions and every       *)
(* QueueMax: its inductive invariant, and that it implements SlotGate.     *)
(* Then the two together, for every finite set of validations and every    *)
(* memory: what is proved of the import queue alone holds beside the       *)
(* validator, the counter never drifts from the JVMs that run while its    *)
(* limit moves under it, and the JVMs fit in the container.                *)
(***************************************************************************)
EXTENDS ValidatorSlots, LineLemmas, FiniteSetTheorems

-----------------------------------------------------------------------------
(* The import queue. *)

(* The line and the requests after a slot is given back. *)
LEMMA ReleaseProperties ==
  ASSUME TypeOK, LineIsExact,
         NEW r \in Requests, pc[r] # "waiting", NEW answer \in Answers,
         Release(r, answer)
  PROVE  /\ waiting' \in Seq(Requests) /\ Len(waiting') < QueueMax
         /\ pc' \in [Requests -> {"idle", "waiting", "granted", "importing"} \cup Answers]
         /\ running' \in BOOLEAN
         /\ LineIsExact'
  <1> USE DEF TypeOK, Release, Answers
  <1>1. CASE waiting = <<>>
    <2>1. /\ waiting' = waiting
          /\ running' = FALSE
          /\ pc' = [pc EXCEPT ![r] = answer]
      BY <1>1
    <2>2. pc'[r] # "waiting" /\ \A q \in Requests \ {r} : pc'[q] = pc[q]
      BY <2>1
    <2>3. \A i \in DOMAIN waiting : waiting[i] \in Requests \ {r}
      BY ElementOfSeq, LenProperties DEF LineIsExact
    <2>4. pc' \in [Requests -> {"idle", "waiting", "granted", "importing"} \cup Answers]
      BY <2>1
    <2>5. waiting' \in Seq(Requests) /\ Len(waiting') < QueueMax /\ running' \in BOOLEAN
      BY <2>1
    <2> HIDE DEF TypeOK, Release, Answers
    <2>6. LineIsExact'
      BY <2>1, <2>2, <2>3 DEF LineIsExact
    <2> QED
      BY <2>4, <2>5, <2>6
  <1>2. CASE waiting # <<>>
    <2>1. /\ Len(waiting) \in Nat \ {0}
          /\ DOMAIN waiting = 1..Len(waiting)
          /\ waiting[1] \in Requests
          /\ Head(waiting) = waiting[1]
      BY <1>2, EmptySeq, LenProperties, ElementOfSeq
    <2>2. /\ waiting' \in Seq(Requests)
          /\ Len(waiting') = Len(waiting) - 1
          /\ DOMAIN waiting' = 1..(Len(waiting) - 1)
          /\ \A i \in 1..(Len(waiting) - 1) : waiting'[i] = waiting[i + 1]
      <3>1. waiting' = Tail(waiting)
        BY <1>2
      <3>2. /\ Tail(waiting) \in Seq(Requests)
            /\ Len(Tail(waiting)) = Len(waiting) - 1
            /\ \A i \in 1..Len(Tail(waiting)) : Tail(waiting)[i] = waiting[i + 1]
        BY <1>2, HeadTailProperties
      <3> HIDE DEF TypeOK, Release
      <3>3. DOMAIN Tail(waiting) = 1..(Len(waiting) - 1)
        BY <3>2, LenProperties
      <3> QED
        BY <3>1, <3>2, <3>3
    <2>3. pc' = [pc EXCEPT ![r] = answer, ![waiting[1]] = "granted"]
      BY <1>2, <2>1
    <2>4. pc' \in [Requests -> {"idle", "waiting", "granted", "importing"} \cup Answers]
      BY <2>1, <2>3
    <2>5. \A i, j \in DOMAIN waiting' : waiting'[i] = waiting'[j] => i = j
      BY <2>1, <2>2 DEF LineIsExact
    <2>6. \A i \in DOMAIN waiting' : pc'[waiting'[i]] = "waiting"
      <3> TAKE i \in DOMAIN waiting'
      <3> HIDE DEF Release
      <3>a. /\ i + 1 \in DOMAIN waiting /\ 1 \in DOMAIN waiting /\ i + 1 # 1
            /\ waiting'[i] = waiting[i + 1]
        BY <2>1, <2>2
      <3>1. /\ i + 1 \in DOMAIN waiting /\ waiting'[i] = waiting[i + 1]
            /\ waiting[i + 1] # waiting[1]
        BY <3>a DEF LineIsExact
      <3>2. waiting[i + 1] \in Requests /\ pc[waiting[i + 1]] = "waiting"
        BY <3>1, <2>1, ElementOfSeq DEF LineIsExact
      <3> QED
        BY <3>1, <3>2, <2>3
    <2>7. \A q \in Requests : pc'[q] = "waiting" =>
             \E i \in DOMAIN waiting' : waiting'[i] = q
      <3> SUFFICES ASSUME NEW q \in Requests, pc'[q] = "waiting"
                   PROVE  \E i \in DOMAIN waiting' : waiting'[i] = q
        OBVIOUS
      <3>1. pc[q] = "waiting" /\ q # waiting[1]
        BY <2>1, <2>3
      <3>2. PICK k \in DOMAIN waiting : waiting[k] = q
        BY <3>1 DEF LineIsExact
      <3>3. k - 1 \in DOMAIN waiting' /\ waiting'[k - 1] = q
        BY <3>1, <3>2, <2>1, <2>2
      <3> QED
        BY <3>3
    <2>8. Len(waiting') < QueueMax
      BY <2>1, <2>2, ImportQueueAssumption
    <2> QED
      BY <1>2, <2>2, <2>4, <2>5, <2>6, <2>7, <2>8 DEF LineIsExact
  <1> QED
    BY <1>1, <1>2

-----------------------------------------------------------------------------
(* Every action keeps the inductive invariant.  SlotNeverLeaks is what makes *)
(* a hand-over safe: the slot given on is nobody else's.                     *)

LEMMA InitInductive == Init => InductiveInv
  <1> SUFFICES ASSUME Init PROVE InductiveInv
    OBVIOUS
  <1> USE DEF Init
  <1>1. waiting \in Seq(Requests) /\ DOMAIN waiting = {} /\ Len(waiting) < QueueMax
    BY EmptySeq, ImportQueueAssumption
  <1>2. TypeOK
    BY <1>1 DEF TypeOK
  <1>3. SlotNeverLeaks
    BY DEF SlotNeverLeaks, Holders
  <1>4. LineIsExact
    BY <1>1 DEF LineIsExact
  <1>5. CurrentIsImporting
    BY ImportQueueAssumption DEF CurrentIsImporting
  <1>6. PartialIsMarked /\ ShutdownStopsImports
    BY DEF PartialIsMarked, ShutdownStopsImports
  <1> QED
    BY <1>2, <1>3, <1>4, <1>5, <1>6 DEF InductiveInv

LEMMA AskKeepsInv ==
  ASSUME InductiveInv, NEW r \in Requests, Ask(r)
  PROVE  InductiveInv'
  <1> USE DEF InductiveInv, Settled
  <1>1. /\ waiting' \in Seq(Requests) /\ Len(waiting') < QueueMax
        /\ \/ waiting' = waiting
           \/ /\ waiting' = Append(waiting, r)
              /\ pc' = [pc EXCEPT ![r] = "waiting"]
    <2>1. CASE waiting' = waiting
      BY <2>1 DEF TypeOK
    <2>2. CASE /\ waiting' = Append(waiting, r) /\ 1 + Len(waiting) < QueueMax
               /\ pc' = [pc EXCEPT ![r] = "waiting"]
      <3>1. /\ Append(waiting, r) \in Seq(Requests)
            /\ Len(Append(waiting, r)) = Len(waiting) + 1
            /\ Len(waiting) \in Nat
        BY AppendProperties, LenProperties DEF TypeOK
      <3> QED
        BY <2>2, <3>1
    <2> QED
      BY <2>1, <2>2 DEF Ask
  <1>2. /\ pc[r] = "idle"
        /\ \E a \in {"busy", "granted", "waiting"} : pc' = [pc EXCEPT ![r] = a]
        /\ running' \in BOOLEAN
        /\ UNCHANGED <<shuttingDown, current, child, marker, db>>
    BY DEF Ask, TypeOK
  <1>3. TypeOK'
    BY <1>1, <1>2 DEF TypeOK, Answers
  <1>4. SlotNeverLeaks'
    BY DEF Ask, TypeOK, SlotNeverLeaks, Holders
  <1>5. LineIsExact'
    <2>1. CASE waiting' = waiting
      <3>1. pc'[r] # "waiting"
        <4>1. CASE waiting = Append(waiting, r)
          BY <4>1, AppendProperties, LenProperties DEF TypeOK
        <4> QED
          BY <2>1, <4>1 DEF Ask, TypeOK
      <3>2. \A i \in DOMAIN waiting : waiting[i] \in Requests \ {r}
        BY <1>2, ElementOfSeq, LenProperties DEF TypeOK, LineIsExact
      <3> QED
        BY <1>2, <2>1, <3>1, <3>2 DEF TypeOK, LineIsExact
    <2>2. CASE waiting' = Append(waiting, r) /\ pc' = [pc EXCEPT ![r] = "waiting"]
      <3>1. /\ Len(waiting) \in Nat
            /\ DOMAIN waiting = 1..Len(waiting)
            /\ DOMAIN waiting' = 1..(Len(waiting) + 1)
            /\ \A i \in 1..Len(waiting) : waiting'[i] = waiting[i]
            /\ waiting'[Len(waiting) + 1] = r
        BY <2>2, AppendProperties, LenProperties DEF TypeOK
      <3>2. \A i \in DOMAIN waiting : waiting[i] \in Requests \ {r}
        BY <1>2, ElementOfSeq, LenProperties DEF TypeOK, LineIsExact
      <3>3. /\ pc'[r] = "waiting"
            /\ \A q \in Requests \ {r} : pc'[q] = pc[q]
        BY <2>2 DEF TypeOK
      <3>4. \A i, j \in DOMAIN waiting' : waiting'[i] = waiting'[j] => i = j
        BY <3>1, <3>2 DEF LineIsExact
      <3>5. \A i \in DOMAIN waiting' : pc'[waiting'[i]] = "waiting"
        BY <3>1, <3>2, <3>3 DEF LineIsExact
      <3>6. \A q \in Requests : pc'[q] = "waiting" => \E i \in DOMAIN waiting' : waiting'[i] = q
        <4> TAKE q \in Requests
        <4>1. CASE q = r
          BY <4>1, <3>1
        <4>2. CASE q # r
          BY <4>2, <3>1, <3>3 DEF LineIsExact
        <4> QED
          BY <4>1, <4>2
      <3> QED
        BY <3>4, <3>5, <3>6 DEF LineIsExact
    <2> QED
      BY <1>1, <2>1, <2>2
  <1>6. CurrentIsImporting'
    BY <1>2 DEF TypeOK, CurrentIsImporting
  <1>7. PartialIsMarked'
    BY <1>2 DEF PartialIsMarked
  <1>8. ShutdownStopsImports'
    BY DEF Ask, TypeOK, ShutdownStopsImports
  <1> QED
    BY <1>3, <1>4, <1>5, <1>6, <1>7, <1>8

LEMMA ForkKeepsInv ==
  ASSUME InductiveInv, NEW r \in Requests, Fork(r)
  PROVE  InductiveInv'
  <1> USE ImportQueueAssumption DEF InductiveInv, TypeOK, Fork
  <1>1. current = None /\ child = "none"
    BY DEF SlotNeverLeaks, Holders, CurrentIsImporting
  <1>2. TypeOK' /\ SlotNeverLeaks'
    BY DEF SlotNeverLeaks, Holders
  <1>3. LineIsExact'
    BY DEF LineIsExact
  <1>4. CurrentIsImporting'
    BY <1>1 DEF CurrentIsImporting
  <1>5. PartialIsMarked' /\ ShutdownStopsImports'
    BY <1>1 DEF PartialIsMarked, ShutdownStopsImports
  <1> QED
    BY <1>2, <1>3, <1>4, <1>5

LEMMA MarkerFailsKeepsInv ==
  ASSUME InductiveInv, NEW r \in Requests, MarkerFails(r)
  PROVE  InductiveInv'
  <1> USE DEF InductiveInv
  <1>1. /\ pc[r] = "granted" /\ "failed" \in Answers
        /\ Release(r, "failed")
        /\ UNCHANGED <<shuttingDown, current, child, marker, db>>
    BY DEF MarkerFails, Answers
  <1>2. TypeOK' /\ LineIsExact'
    BY <1>1, ReleaseProperties DEF TypeOK
  <1>3. SlotNeverLeaks'
    BY <1>1 DEF TypeOK, Release, SlotNeverLeaks, Holders
  <1>4. CurrentIsImporting'
    BY <1>1 DEF TypeOK, Release, SlotNeverLeaks, Holders, CurrentIsImporting
  <1>5. PartialIsMarked' /\ ShutdownStopsImports'
    BY <1>1 DEF PartialIsMarked, ShutdownStopsImports
  <1> QED
    BY <1>2, <1>3, <1>4, <1>5

LEMMA CloseKeepsInv ==
  ASSUME InductiveInv, Close
  PROVE  InductiveInv'
  <1> USE ImportQueueAssumption DEF InductiveInv
  <1> DEFINE s == SessionOf[current]
  <1>1. /\ current \in Requests /\ s \in Sessions
        /\ pc[current] = "importing"
        /\ child \in {"imported", "refused", "dead"}
    BY DEF Close, TypeOK, CurrentIsImporting
  <1>2. PICK answer \in Answers : Release(current, answer)
    BY DEF Close, Answers
  <1>3. /\ current' = None /\ child' = "none"
        /\ UNCHANGED shuttingDown
        /\ marker' = [marker EXCEPT ![s] = FALSE]
        /\ child = "imported" => db' = db
        /\ child # "imported" => db' = [db EXCEPT ![s] = "none"]
    BY DEF Close
  <1> HIDE DEF s
  <1>4. LineIsExact' /\ TypeOK'
    <2>1. /\ waiting' \in Seq(Requests) /\ Len(waiting') < QueueMax
          /\ pc' \in [Requests -> {"idle", "waiting", "granted", "importing"} \cup Answers]
          /\ running' \in BOOLEAN
          /\ LineIsExact'
      BY <1>1, <1>2, ReleaseProperties
    <2>2. marker' \in [Sessions -> BOOLEAN] /\ db' \in [Sessions -> {"none", "partial", "whole"}]
      BY <1>1, <1>3 DEF TypeOK
    <2> QED
      BY <1>3, <2>1, <2>2 DEF TypeOK
  <1>5. SlotNeverLeaks' /\ \A r \in Requests : pc'[r] # "importing"
    <2>1. \A r \in Requests : pc[r] \in {"granted", "importing"} <=> r = current
      BY <1>1 DEF SlotNeverLeaks, Holders
    <2>2. CASE waiting = <<>>
      BY <1>1, <1>2, <2>1, <2>2 DEF TypeOK, Release, Answers, SlotNeverLeaks, Holders
    <2>3. CASE waiting # <<>>
      <3>1. /\ Head(waiting) \in Requests /\ Head(waiting) # current
            /\ pc' = [pc EXCEPT ![current] = answer, ![Head(waiting)] = "granted"]
            /\ running' = running
        <4>1. Head(waiting) = waiting[1] /\ 1 \in DOMAIN waiting /\ waiting[1] \in Requests
          BY <2>3, EmptySeq, LenProperties, ElementOfSeq DEF TypeOK
        <4> QED
          BY <1>1, <1>2, <2>3, <4>1 DEF Release, LineIsExact
      <3>2. running
        BY <2>3 DEF SlotNeverLeaks
      <3>3. \A r \in Requests : pc'[r] \in {"granted", "importing"} <=> r = Head(waiting)
        BY <1>1, <2>1, <3>1 DEF TypeOK, Answers
      <3>4. \A r \in Requests : pc'[r] # "importing"
        BY <1>1, <2>1, <3>1 DEF TypeOK, Answers
      <3> QED
        BY <3>1, <3>2, <3>3, <3>4 DEF SlotNeverLeaks, Holders
    <2> QED
      BY <2>2, <2>3
  <1>6. CurrentIsImporting'
    BY <1>3, <1>5 DEF CurrentIsImporting
  <1>7. PartialIsMarked'
    BY <1>1, <1>3 DEF TypeOK, PartialIsMarked, CurrentIsImporting, s
  <1>8. ShutdownStopsImports'
    BY <1>1, <1>2, <1>3 DEF TypeOK, Release, Answers, ShutdownStopsImports
  <1> QED
    BY <1>4, <1>5, <1>6, <1>7, <1>8

LEMMA QueueTimeoutKeepsInv ==
  ASSUME InductiveInv, NEW i \in DOMAIN waiting, QueueTimeout(i)
  PROVE  InductiveInv'
  <1> USE DEF InductiveInv
  <1> DEFINE q == waiting[i]
  <1>1. /\ Len(waiting) \in Nat /\ DOMAIN waiting = 1..Len(waiting)
        /\ i \in 1..Len(waiting)
        /\ q \in Requests /\ pc[q] = "waiting"
    BY LenProperties, ElementOfSeq DEF TypeOK, LineIsExact
  <1>2. /\ pc' = [pc EXCEPT ![q] = "busy"]
        /\ UNCHANGED <<running, shuttingDown, current, child, marker, db>>
    BY DEF QueueTimeout
  <1>3. /\ waiting' \in Seq(Requests) /\ Len(waiting') < QueueMax
        /\ DOMAIN waiting' = 1..(Len(waiting) - 1)
        /\ \A j \in 1..(Len(waiting) - 1) :
             waiting'[j] = IF j < i THEN waiting[j] ELSE waiting[j + 1]
    <2>1. waiting' = RemoveAt(waiting, i)
      BY DEF QueueTimeout
    <2>2. /\ RemoveAt(waiting, i) \in Seq(Requests)
          /\ Len(RemoveAt(waiting, i)) = Len(waiting) - 1
          /\ \A j \in 1..(Len(waiting) - 1) :
               RemoveAt(waiting, i)[j] = IF j < i THEN waiting[j] ELSE waiting[j + 1]
      BY <1>1, RemoveAtProperties DEF TypeOK
    <2>3. Len(waiting) - 1 < QueueMax
      BY <1>1, ImportQueueAssumption DEF TypeOK
    <2> QED
      BY <2>1, <2>2, <2>3, LenProperties
  <1> HIDE DEF q
  <1>4. TypeOK'
    BY <1>1, <1>2, <1>3 DEF TypeOK, Answers
  <1>5. SlotNeverLeaks'
    <2>1. Holders' = Holders
      BY <1>1, <1>2 DEF TypeOK, Holders
    <2>2. running
      BY <1>1, EmptySeq DEF SlotNeverLeaks, TypeOK
    <2> QED
      BY <1>2, <2>1, <2>2 DEF SlotNeverLeaks
  <1>6. LineIsExact'
    <2> DEFINE old(j) == IF j < i THEN j ELSE j + 1
    <2>1. \A j \in DOMAIN waiting' :
            old(j) \in DOMAIN waiting \ {i} /\ waiting'[j] = waiting[old(j)]
      BY <1>1, <1>3
    <2>2. \A j, k \in DOMAIN waiting' : old(j) = old(k) => j = k
      BY <1>1, <1>3
    <2>3. \A k \in DOMAIN waiting \ {i} : \E j \in DOMAIN waiting' : old(j) = k
      <3> TAKE k \in DOMAIN waiting \ {i}
      <3>1. CASE k < i
        <4>1. k \in DOMAIN waiting' /\ old(k) = k
          BY <3>1, <1>1, <1>3
        <4> QED
          BY <4>1
      <3>2. CASE ~(k < i)
        <4>1. k - 1 \in DOMAIN waiting' /\ old(k - 1) = k
          BY <3>2, <1>1, <1>3
        <4> QED
          BY <4>1
      <3> QED
        BY <3>1, <3>2
    <2> HIDE DEF old
    <2>4. \A k \in DOMAIN waiting \ {i} : waiting[k] \in Requests \ {q}
      BY <1>1, ElementOfSeq DEF TypeOK, LineIsExact, q
    <2>5. pc'[q] = "busy" /\ \A r \in Requests \ {q} : pc'[r] = pc[r]
      BY <1>1, <1>2 DEF TypeOK
    <2>6. \A j, k \in DOMAIN waiting' : waiting'[j] = waiting'[k] => j = k
      BY <2>1, <2>2 DEF LineIsExact
    <2>7. \A j \in DOMAIN waiting' : pc'[waiting'[j]] = "waiting"
      BY <2>1, <2>4, <2>5 DEF LineIsExact
    <2>8. \A r \in Requests : pc'[r] = "waiting" => \E j \in DOMAIN waiting' : waiting'[j] = r
      <3> SUFFICES ASSUME NEW r \in Requests, pc'[r] = "waiting"
                   PROVE  \E j \in DOMAIN waiting' : waiting'[j] = r
        OBVIOUS
      <3>1. r # q /\ pc[r] = "waiting"
        BY <2>5
      <3>2. PICK k \in DOMAIN waiting \ {i} : waiting[k] = r
        BY <3>1 DEF LineIsExact, q
      <3>3. PICK j \in DOMAIN waiting' : old(j) = k
        BY <2>3
      <3> QED
        BY <3>2, <3>3, <2>1
    <2> QED
      BY <2>6, <2>7, <2>8 DEF LineIsExact
  <1>7. CurrentIsImporting'
    BY <1>1, <1>2 DEF TypeOK, CurrentIsImporting
  <1>8. PartialIsMarked'
    BY <1>2 DEF PartialIsMarked
  <1>9. ShutdownStopsImports'
    BY <1>1, <1>2 DEF ShutdownStopsImports
  <1> QED
    BY <1>4, <1>5, <1>6, <1>7, <1>8, <1>9

LEMMA StopAllKeepsInv ==
  ASSUME InductiveInv, StopAll
  PROVE  InductiveInv'
  <1> USE DEF InductiveInv, StopAll, Settled
  <1>1. TypeOK' /\ DOMAIN waiting' = {}
    BY EmptySeq, ImportQueueAssumption DEF TypeOK, Answers
  <1>2. SlotNeverLeaks'
    BY DEF TypeOK, SlotNeverLeaks, Holders
  <1>3. LineIsExact'
    BY <1>1 DEF TypeOK, LineIsExact
  <1>4. CurrentIsImporting'
    BY DEF TypeOK, CurrentIsImporting
  <1>5. PartialIsMarked' /\ ShutdownStopsImports'
    BY DEF TypeOK, PartialIsMarked, ShutdownStopsImports
  <1> QED
    BY <1>1, <1>2, <1>3, <1>4, <1>5

LEMMA RestartKeepsInv ==
  ASSUME InductiveInv, Restart
  PROVE  InductiveInv'
  <1> USE ImportQueueAssumption DEF InductiveInv, Restart
  <1>1. waiting' \in Seq(Requests) /\ DOMAIN waiting' = {} /\ Len(waiting') < QueueMax
    BY EmptySeq
  <1>2. \/ db' = db
        \/ /\ current \in Requests /\ marker[SessionOf[current]]
           /\ \E fate \in {"none", "partial", "whole"} :
                db' = [db EXCEPT ![SessionOf[current]] = fate]
    BY DEF TypeOK, CurrentIsImporting
  <1>3. TypeOK'
    BY <1>1, <1>2 DEF TypeOK
  <1>4. SlotNeverLeaks' /\ LineIsExact' /\ CurrentIsImporting' /\ ShutdownStopsImports'
    BY <1>1 DEF SlotNeverLeaks, Holders, LineIsExact, CurrentIsImporting, ShutdownStopsImports
  <1>5. PartialIsMarked'
    BY <1>2 DEF TypeOK, PartialIsMarked
  <1> QED
    BY <1>3, <1>4, <1>5

LEMMA ChildKeepsInv ==
  ASSUME InductiveInv, Child
  PROVE  InductiveInv'
  <1> USE ImportQueueAssumption
      DEF InductiveInv, Child, ChildRefuses, ChildCreates, ChildLoads, ChildDrops, ChildStops
  <1>1. TypeOK'
    BY DEF TypeOK, CurrentIsImporting
  <1>2. SlotNeverLeaks' /\ LineIsExact'
    BY DEF SlotNeverLeaks, Holders, LineIsExact
  <1>3. CurrentIsImporting'
    BY DEF TypeOK, CurrentIsImporting
  <1>4. PartialIsMarked' /\ ShutdownStopsImports'
    BY DEF TypeOK, CurrentIsImporting, PartialIsMarked, ShutdownStopsImports
  <1> QED
    BY <1>1, <1>2, <1>3, <1>4

LEMMA ForgetKeepsInv ==
  ASSUME InductiveInv, NEW r \in Requests, Forget(r)
  PROVE  InductiveInv'
  BY DEF Forget, Settled, Answers, InductiveInv, TypeOK, SlotNeverLeaks, Holders, LineIsExact,
         CurrentIsImporting, PartialIsMarked, ShutdownStopsImports

LEMMA NewFeedKeepsInv ==
  ASSUME InductiveInv, NEW s \in Sessions, NewFeed(s)
  PROVE  InductiveInv'
  BY ImportQueueAssumption
  DEF NewFeed, Settled, InductiveInv, TypeOK, SlotNeverLeaks, Holders, LineIsExact,
      CurrentIsImporting, PartialIsMarked, ShutdownStopsImports

LEMMA NextKeepsInv == InductiveInv /\ [Next]_importVars => InductiveInv'
  <1> SUFFICES ASSUME InductiveInv, [Next]_importVars
               PROVE  InductiveInv'
    OBVIOUS
  <1>1. CASE UNCHANGED importVars
    BY <1>1 DEF importVars, InductiveInv, TypeOK, SlotNeverLeaks, Holders, LineIsExact,
                CurrentIsImporting, PartialIsMarked, ShutdownStopsImports
  <1>2. CASE Next
    BY <1>2, AskKeepsInv, ForkKeepsInv, MarkerFailsKeepsInv, ForgetKeepsInv,
       QueueTimeoutKeepsInv, NewFeedKeepsInv, CloseKeepsInv, StopAllKeepsInv,
       RestartKeepsInv, ChildKeepsInv
    DEF Next
  <1> QED
    BY <1>1, <1>2

-----------------------------------------------------------------------------
(* The results. *)

(* feedImporter and its child keep the inductive invariant for ever, for
   every number of requests, sessions and places in line. *)
THEOREM ImportsKeepInductiveInv == Spec => []InductiveInv
  BY InitInductive, NextKeepsInv, PTL DEF Spec

(* The state of the import queue stays well formed. *)
THEOREM ImportsTypeCorrect == Spec => []TypeOK
  <1>1. InductiveInv => TypeOK
    BY DEF InductiveInv
  <1> QED
    BY <1>1, ImportsKeepInductiveInv, PTL

(* feedImporter's `running` is true exactly while one request holds the slot:
   never lent twice, never lost. *)
THEOREM ImportSlotNeverLeaks == Spec => []SlotNeverLeaks
  <1>1. InductiveInv => SlotNeverLeaks
    BY DEF InductiveInv
  <1> QED
    BY <1>1, ImportsKeepInductiveInv, PTL

(* A partial gtfs.db always has its _importing marker, across every failure of
   the child and every restart of the API. *)
THEOREM PartialDatabaseIsMarked == Spec => []PartialIsMarked
  <1>1. InductiveInv => PartialIsMarked
    BY DEF InductiveInv
  <1> QED
    BY <1>1, ImportsKeepInductiveInv, PTL

(* After SIGTERM nothing imports or waits, and nothing will. *)
THEOREM ShutdownStopsEveryImport == Spec => []ShutdownStopsImports
  <1>1. InductiveInv => ShutdownStopsImports
    BY DEF InductiveInv
  <1> QED
    BY <1>1, ImportsKeepInductiveInv, PTL

-----------------------------------------------------------------------------
(* The queue implements the gate: every step of it is a step of SlotGate, or *)
(* changes neither who holds the slot nor the line.                          *)

(* SlotGate's own copies of the library's operators are the library's. *)
LEMMA GateOperators ==
  /\ \A S : Gate!Cardinality(S) = Cardinality(S)
  /\ \A s, i : Gate!RemoveAt(s, i) = RemoveAt(s, i)
  <1>1. \A S : Gate!Cardinality(S) = Cardinality(S)
    BY Zenon DEF Gate!Cardinality, Cardinality
  <1>2. \A s, i : Gate!RemoveAt(s, i) = RemoveAt(s, i)
    BY DEF Gate!RemoveAt, RemoveAt
  <1> QED
    BY <1>1, <1>2

LEMMA HoldersCount ==
  ASSUME InductiveInv
  PROVE  /\ running => Cardinality(Holders) = 1
         /\ ~running => Cardinality(Holders) = 0
  <1> USE DEF InductiveInv, SlotNeverLeaks
  <1>1. CASE running
    <2>1. PICK r \in Holders : TRUE
      BY <1>1
    <2>2. Holders = {r}
      BY <2>1
    <2> QED
      BY <1>1, <2>2, FS_Singleton
  <1>2. CASE ~running
    BY <1>2, FS_EmptySet
  <1> QED
    BY <1>1, <1>2

LEMMA ReleaseIsGateStep ==
  ASSUME InductiveInv, NEW r \in Holders, NEW answer \in Answers, Release(r, answer)
  PROVE  Gate!HandOver(r) \/ Gate!Leave(r)
  <1> USE DEF InductiveInv
  <1>1. r \in Requests /\ \A q \in Requests : pc[q] \in {"granted", "importing"} <=> q = r
    BY DEF Holders, SlotNeverLeaks
  <1>2. CASE waiting = <<>>
    <2>1. pc' = [pc EXCEPT ![r] = answer] /\ waiting' = <<>>
      BY <1>2 DEF Release
    <2>2. Holders' = Holders \ {r}
      BY <1>1, <2>1 DEF TypeOK, Holders, Answers
    <2> QED
      BY <1>2, <2>1, <2>2 DEF Gate!Leave
  <1>3. CASE waiting # <<>>
    <2>1. Head(waiting) \in Requests /\ Head(waiting) # r
      <3>1. Head(waiting) = waiting[1] /\ 1 \in DOMAIN waiting /\ waiting[1] \in Requests
        BY <1>3, EmptySeq, LenProperties, ElementOfSeq DEF TypeOK
      <3> QED
        BY <3>1 DEF LineIsExact, Holders
    <2>2. /\ pc' = [pc EXCEPT ![r] = answer, ![Head(waiting)] = "granted"]
          /\ waiting' = Tail(waiting)
      BY <1>3 DEF Release
    <2>3. Holders' = (Holders \ {r}) \cup {Head(waiting)}
      BY <1>1, <2>1, <2>2 DEF TypeOK, Holders, Answers
    <2> QED
      BY <1>3, <2>2, <2>3 DEF Gate!HandOver
  <1> QED
    BY <1>2, <1>3

LEMMA GateInit == Init => Gate!Init
  BY DEF Init, Gate!Init, Holders

LEMMA GateStep ==
  ASSUME InductiveInv, [Next]_importVars
  PROVE  [Gate!Next]_(Gate!gateVars)
  <1> USE DEF InductiveInv, Gate!gateVars
  <1>1. ASSUME NEW r \in Requests, Ask(r)
        PROVE  Gate!Enter(r) \/ Gate!Join(r) \/ UNCHANGED <<Holders, waiting>>
    <2>1. pc[r] = "idle" /\ r \notin Holders
      BY <1>1 DEF Ask, Holders
    <2>2. CASE pc' = [pc EXCEPT ![r] = "granted"] /\ ~running /\ UNCHANGED waiting
      <3>1. Holders' = Holders \cup {r}
        BY <1>1, <2>1, <2>2 DEF TypeOK, Holders
      <3>2. waiting = <<>> /\ Cardinality(Holders) < 1
        BY <2>2, HoldersCount DEF SlotNeverLeaks
      <3> QED
        BY <2>1, <2>2, <3>1, <3>2, GateOperators DEF Gate!Enter
    <2>3. CASE /\ pc' = [pc EXCEPT ![r] = "waiting"] /\ running
               /\ waiting' = Append(waiting, r) /\ 1 + Len(waiting) < QueueMax
      <3>1. Holders' = Holders
        BY <1>1, <2>1, <2>3 DEF TypeOK, Holders
      <3>2. Cardinality(Holders) = 1
        BY <2>3, HoldersCount
      <3>3. Len(waiting) < QueueMax - 1
        BY <2>3, LenProperties, ImportQueueAssumption DEF TypeOK
      <3> QED
        BY <2>3, <3>1, <3>2, <3>3, GateOperators DEF Gate!Join
    <2>4. CASE pc' = [pc EXCEPT ![r] = "busy"] /\ UNCHANGED waiting
      <3>1. Holders' = Holders
        BY <1>1, <2>1, <2>4 DEF TypeOK, Holders
      <3> QED
        BY <2>4, <3>1
    <2> QED
      BY <1>1, <2>2, <2>3, <2>4 DEF Ask
  <1>2. ASSUME NEW r \in Requests, Fork(r)
        PROVE  UNCHANGED <<Holders, waiting>>
    BY <1>2 DEF Fork, TypeOK, Holders
  <1>3. ASSUME NEW r \in Requests, MarkerFails(r)
        PROVE  Gate!HandOver(r) \/ Gate!Leave(r)
    BY <1>3, ReleaseIsGateStep DEF MarkerFails, Holders, Answers
  <1>4. ASSUME NEW r \in Requests, Forget(r)
        PROVE  UNCHANGED <<Holders, waiting>>
    BY <1>4 DEF Forget, Answers, TypeOK, Holders
  <1>5. ASSUME NEW i \in DOMAIN waiting, QueueTimeout(i)
        PROVE  Gate!GiveUp(i)
    <2>1. waiting[i] \in Requests /\ pc[waiting[i]] = "waiting"
      BY LenProperties, ElementOfSeq DEF TypeOK, LineIsExact
    <2> QED
      BY <1>5, <2>1, GateOperators DEF QueueTimeout, TypeOK, Holders, Gate!GiveUp
  <1>6. ASSUME NEW s \in Sessions, NewFeed(s)
        PROVE  UNCHANGED <<Holders, waiting>>
    BY <1>6 DEF NewFeed, Holders
  <1>7. ASSUME Close
        PROVE  \E r \in Requests : Gate!HandOver(r) \/ Gate!Leave(r)
    <2>1. current \in Holders
      BY <1>7, ImportQueueAssumption DEF Close, TypeOK, CurrentIsImporting, Holders
    <2>2. PICK answer \in Answers : Release(current, answer)
      BY <1>7 DEF Close, Answers
    <2> QED
      BY <2>1, <2>2, ReleaseIsGateStep DEF Holders
  <1>8. ASSUME StopAll
        PROVE  Gate!Dismiss
    BY <1>8 DEF StopAll, TypeOK, Holders, Gate!Dismiss
  <1>9. ASSUME Restart
        PROVE  Gate!Reset
    BY <1>9 DEF Restart, Holders, Gate!Reset
  <1>10. ASSUME Child
         PROVE  UNCHANGED <<Holders, waiting>>
    BY <1>10 DEF Child, ChildRefuses, ChildCreates, ChildLoads, ChildDrops, ChildStops, Holders
  <1>11. CASE UNCHANGED importVars
    BY <1>11 DEF importVars, Holders
  <1>12. CASE Next
    BY <1>12, <1>1, <1>2, <1>3, <1>4, <1>5, <1>6, <1>7, <1>8, <1>9, <1>10
    DEF Next, Gate!Next
  <1> QED
    BY <1>11, <1>12

(* feedImporter's queue is a first-come-first-served gate of one slot and
   QueueMax - 1 places in line. *)
THEOREM QueueImplementsGate == Spec => ImplementsGate
  <1>1. InductiveInv /\ [Next]_importVars => [Gate!Next]_(Gate!gateVars)
    BY GateStep
  <1> QED
    BY <1>1, GateInit, ImportsKeepInductiveInv, PTL DEF Spec, ImplementsGate, Gate!Spec

-----------------------------------------------------------------------------
(* The validator beside it. *)

Waiting == {v \in Validations : jvm[v] = "waiting"}

ValidatorsInv == ValidatorsTypeOK /\ ValidatorQueueIsExact /\ ValidatorsAreCounted

-----------------------------------------------------------------------------
(* The composition and the import queue alone. *)

\* The validator only reads the import queue: what it does is a stutter there, and the
\* container's stop is the queue's restart.
LEMMA BothStepIsImportStep == [BothNext]_<<importVars, validatorVars>> => [Next]_importVars
  <1>1. ImportSteps => Next
    BY DEF ImportSteps, Next
  <1>2. StopsAll => Next
    BY DEF StopsAll, Next
  <1> QED
    BY <1>1, <1>2, Zenon DEF BothNext

THEOREM ValidatorsLeaveImportsAlone == BothSpec => Spec
  <1>1. BothInit => Init
    BY DEF BothInit
  <1> QED
    BY <1>1, BothStepIsImportStep, PTL DEF BothSpec, Spec

-----------------------------------------------------------------------------
(* What the invariant says of a state, in the terms of the lemmas. *)

LEMMA ConcurrencyIsPositive == Concurrency \in Nat \ {0} /\ Concurrency <= MaxJvms
  <1> DEFINE fit == (LimitBytes - HeapBytes - MarginBytes) \div XmxBytes
  <1>1. LimitBytes - HeapBytes - MarginBytes \in Int /\ XmxBytes \in Nat \ {0} /\ MaxJvms \in Nat \ {0}
    BY ValidatorSlotsAssumption
  <1>2. fit \in Int
    BY <1>1
  <1> HIDE DEF fit
  <1> QED
    BY <1>1, <1>2 DEF Concurrency, fit

LEMMA SlotsNowIsClose == SlotsNow \in {Concurrency, Concurrency - 1} /\ SlotsNow >= 1 /\ SlotsNow \in Nat
  BY ConcurrencyIsPositive DEF SlotsNow

LEMMA RunningIsFinite == IsFiniteSet(Running) /\ Cardinality(Running) \in Nat
  <1>1. IsFiniteSet(Running)
    BY ValidatorSlotsAssumption, FS_Subset DEF Running
  <1> QED
    BY <1>1, FS_CardinalityType

LEMMA ValidatorQueueIsLine ==
  ValidatorsTypeOK => (ValidatorQueueIsExact <=> LineOf(validatorQueue, Waiting))
  <1> SUFFICES ASSUME ValidatorsTypeOK PROVE ValidatorQueueIsExact <=> LineOf(validatorQueue, Waiting)
    OBVIOUS
  <1>1. \A i \in DOMAIN validatorQueue : validatorQueue[i] \in Validations
    BY LenProperties, ElementOfSeq DEF ValidatorsTypeOK
  <1> QED
    BY <1>1 DEF ValidatorQueueIsExact, LineOf, Waiting

-----------------------------------------------------------------------------
(* Every step keeps the invariant. *)

LEMMA NobodyRunsKeepsInv ==
  ASSUME validatorsRunning = 0, validatorQueue = <<>>, jvm = [v \in Validations |-> "none"]
  PROVE  ValidatorsInv
  <1>1. validatorQueue \in Seq(Validations) /\ DOMAIN validatorQueue = {}
    BY EmptySeq
  <1>2. ValidatorsTypeOK
    BY <1>1, ConcurrencyIsPositive DEF ValidatorsTypeOK
  <1>3. Running = {}
    BY DEF Running
  <1>4. ValidatorsAreCounted
    BY <1>3, FS_EmptySet DEF ValidatorsAreCounted
  <1>5. ValidatorQueueIsExact
    BY <1>1 DEF ValidatorQueueIsExact
  <1> QED
    BY <1>2, <1>4, <1>5 DEF ValidatorsInv

LEMMA ValidateKeepsInv ==
  ASSUME ValidatorsInv, NEW v \in Validations, Validate(v)
  PROVE  ValidatorsInv'
  <1> USE DEF ValidatorsInv
  <1>1. /\ jvm[v] = "none" /\ v \notin Running /\ v \notin Waiting
        /\ LineOf(validatorQueue, Waiting)
        /\ validatorsRunning \in Nat /\ validatorsRunning <= Concurrency
        /\ Concurrency \in Nat \ {0} /\ SlotsNow \in Nat \ {0}
        /\ SlotsNow <= Concurrency /\ SlotsNow >= Concurrency - 1
    BY ValidatorQueueIsLine, ConcurrencyIsPositive, SlotsNowIsClose
    DEF Validate, Running, Waiting, ValidatorsTypeOK
  <1>2. CASE /\ validatorsRunning >= SlotsNow
             /\ validatorQueue' = Append(validatorQueue, v)
             /\ jvm' = [jvm EXCEPT ![v] = "waiting"]
             /\ UNCHANGED validatorsRunning
    <2>1. Append(validatorQueue, v) \in Seq(Validations)
      BY AppendProperties DEF ValidatorsTypeOK
    <2>2. ValidatorsTypeOK'
      BY <1>1, <1>2, <2>1 DEF ValidatorsTypeOK, Concurrency
    <2>3. Running' = Running /\ Waiting' = Waiting \cup {v}
      BY <1>1, <1>2 DEF ValidatorsTypeOK, Running, Waiting
    <2>4. validatorsRunning >= 1 /\ validatorsRunning >= Concurrency - 1
      BY <1>1, <1>2
    <2>5. ValidatorsAreCounted'
      BY <1>2, <2>3, <2>4 DEF ValidatorsAreCounted, Concurrency
    <2>6. LineOf(Append(validatorQueue, v), Waiting \cup {v})
      BY <1>1, AppendLine DEF ValidatorsTypeOK
    <2>7. LineOf(validatorQueue, Waiting)'
      BY <1>2, <2>3, <2>6 DEF LineOf
    <2>8. (ValidatorQueueIsExact <=> LineOf(validatorQueue, Waiting))'
      BY <2>2, ValidatorQueueIsLine, PTL
    <2> QED
      BY <2>2, <2>5, <2>7, <2>8
  <1>3. CASE /\ validatorsRunning < SlotsNow
             /\ validatorsRunning' = validatorsRunning + 1
             /\ jvm' = [jvm EXCEPT ![v] = "running"]
             /\ UNCHANGED validatorQueue
    <2>1. ValidatorsTypeOK'
      BY <1>1, <1>3 DEF ValidatorsTypeOK, Concurrency
    <2>2. Running' = Running \cup {v} /\ Waiting' = Waiting
      BY <1>1, <1>3 DEF ValidatorsTypeOK, Running, Waiting
    <2>3. Cardinality(Running') = Cardinality(Running) + 1
      BY <1>1, <2>2, RunningIsFinite, FS_AddElement
    <2>4. ValidatorsAreCounted'
      BY <1>1, <1>3, <2>3 DEF ValidatorsAreCounted, Concurrency
    <2> QED
      BY <1>1, <1>3, <2>1, <2>2, <2>4, ValidatorQueueIsLine
      DEF ValidatorQueueIsExact, LineOf, Waiting
  <1> QED
    BY <1>2, <1>3 DEF Validate

\* The slot changes hands, or is free again: v leaves it to be `state`.
LEMMA SlotEndsKeepsInv ==
  ASSUME ValidatorsInv, NEW v \in Validations, jvm[v] = "running",
         NEW state \in {"none", "killed"}, SlotEnds(v, state)
  PROVE  ValidatorsInv'
  <1> USE DEF ValidatorsInv
  <1>1. /\ v \in Running /\ v \notin Waiting
        /\ LineOf(validatorQueue, Waiting)
        /\ validatorsRunning \in Nat /\ validatorsRunning <= Concurrency
        /\ Concurrency \in Nat \ {0}
        /\ validatorsRunning = Cardinality(Running)
    BY ValidatorQueueIsLine, ConcurrencyIsPositive
    DEF Running, Waiting, ValidatorsTypeOK, ValidatorsAreCounted
  <1>2. /\ IsFiniteSet(Running \ {v})
        /\ Cardinality(Running \ {v}) = Cardinality(Running) - 1
        /\ Cardinality(Running \ {v}) \in Nat
    BY <1>1, RunningIsFinite, FS_RemoveElement, FS_CardinalityType
  <1>3. CASE /\ validatorQueue = <<>>
             /\ validatorsRunning' = validatorsRunning - 1
             /\ jvm' = [jvm EXCEPT ![v] = state]
             /\ UNCHANGED validatorQueue
    <2>1. ValidatorsTypeOK'
      BY <1>1, <1>2, <1>3 DEF ValidatorsTypeOK, Concurrency
    <2>2. Running' = Running \ {v}
      BY <1>1, <1>3 DEF ValidatorsTypeOK, Running
    <2>3. ValidatorsAreCounted'
      BY <1>1, <1>2, <1>3, <2>2 DEF ValidatorsAreCounted
    <2>4. ValidatorQueueIsExact'
      BY <1>1, <1>3 DEF ValidatorsTypeOK, ValidatorQueueIsExact
    <2> QED
      BY <2>1, <2>3, <2>4
  <1>4. CASE /\ validatorQueue # <<>>
             /\ validatorQueue' = Tail(validatorQueue)
             /\ jvm' = [jvm EXCEPT ![v] = state, ![Head(validatorQueue)] = "running"]
             /\ UNCHANGED validatorsRunning
    <2> DEFINE h == Head(validatorQueue)
    <2>1. /\ h \in Validations /\ h \in Waiting
          /\ Tail(validatorQueue) \in Seq(Validations)
          /\ LineOf(Tail(validatorQueue), Waiting \ {h})
      BY <1>1, <1>4, TailLine DEF ValidatorsTypeOK
    <2>2. h # v /\ jvm[h] = "waiting" /\ h \notin Running \ {v}
      BY <1>1, <2>1 DEF Waiting, Running
    <2>3. jvm' = [jvm EXCEPT ![v] = state, ![h] = "running"]
      BY <1>4
    <2> HIDE DEF h
    <2>4. ValidatorsTypeOK'
      BY <1>1, <1>4, <2>1, <2>3 DEF ValidatorsTypeOK, Concurrency
    <2>5. Running' = (Running \ {v}) \cup {h} /\ Waiting' = Waiting \ {h}
      BY <1>1, <2>1, <2>2, <2>3 DEF ValidatorsTypeOK, Running, Waiting
    <2>6. Cardinality(Running') = Cardinality(Running)
      <3>1. Cardinality((Running \ {v}) \cup {h}) = Cardinality(Running \ {v}) + 1
        BY <1>2, <2>2, FS_AddElement
      <3> QED
        BY <1>2, <2>5, <3>1, RunningIsFinite
    <2>7. ValidatorsAreCounted'
      BY <1>4, <2>6 DEF ValidatorsAreCounted, Concurrency
    <2>8. LineOf(validatorQueue, Waiting)'
      BY <1>4, <2>1, <2>5 DEF LineOf
    <2>9. (ValidatorQueueIsExact <=> LineOf(validatorQueue, Waiting))'
      BY <2>4, ValidatorQueueIsLine, PTL
    <2> QED
      BY <2>4, <2>7, <2>8, <2>9
  <1> QED
    BY <1>3, <1>4 DEF SlotEnds

LEMMA JvmDiesKeepsInv ==
  ASSUME ValidatorsInv, NEW v \in Validations, JvmDies(v)
  PROVE  ValidatorsInv'
  <1> USE DEF ValidatorsInv, JvmDies
  <1>1. ValidatorsTypeOK'
    BY DEF ValidatorsTypeOK, Concurrency
  <1>2. Running' = Running
    BY DEF ValidatorsTypeOK, Running
  <1>3. ValidatorsAreCounted'
    BY <1>2 DEF ValidatorsAreCounted, Concurrency
  <1>4. ValidatorQueueIsExact'
    BY DEF ValidatorsTypeOK, ValidatorQueueIsExact
  <1> QED
    BY <1>1, <1>3, <1>4

LEMMA ValidatorsUnchangedKeepInv == ValidatorsInv /\ UNCHANGED validatorVars => ValidatorsInv'
  BY DEF validatorVars, ValidatorsInv, ValidatorsTypeOK, ValidatorQueueIsExact, ValidatorsAreCounted,
     Running, Concurrency

LEMMA BothNextKeepsInv == ValidatorsInv /\ [BothNext]_<<importVars, validatorVars>> => ValidatorsInv'
  <1> SUFFICES ASSUME ValidatorsInv, [BothNext]_<<importVars, validatorVars>> PROVE ValidatorsInv'
    OBVIOUS
  <1>1. CASE UNCHANGED validatorVars
    BY <1>1, ValidatorsUnchangedKeepInv
  <1>2. ASSUME NEW v \in Validations, JvmExits(v) \/ JvmTimesOut(v) PROVE ValidatorsInv'
    BY <1>2, SlotEndsKeepsInv DEF JvmExits, JvmTimesOut
  <1>3. CASE ValidatorSteps
    BY <1>2, <1>3, ValidateKeepsInv, JvmDiesKeepsInv DEF ValidatorSteps
  <1>4. CASE StopsAll
    <2>1. validatorsRunning' = 0 /\ validatorQueue' = <<>> /\ jvm' = [v \in Validations |-> "none"]
      BY <1>4 DEF StopsAll
    <2>2. (validatorsRunning = 0 /\ validatorQueue = <<>> /\ jvm = [v \in Validations |-> "none"]
             => ValidatorsInv)'
      BY NobodyRunsKeepsInv, PTL
    <2> QED
      BY <2>1, <2>2
  <1> QED
    BY <1>1, <1>3, <1>4 DEF BothNext

LEMMA BothInitHasInv == BothInit => ValidatorsInv
  BY NobodyRunsKeepsInv DEF BothInit, ValidatorsInit

LEMMA ValidatorsKeepInv == BothSpec => []ValidatorsInv
  BY BothInitHasInv, BothNextKeepsInv, PTL DEF BothSpec

-----------------------------------------------------------------------------
(* The results. *)

\* withValidatorSlot's counter is the number of JVMs that run, and whoever is in line has
\* at least one of them to wait for, and all but one of those the container holds: for any
\* number of validations, whatever the import queue does to the limit meanwhile.
THEOREM ValidatorCounterIsExact == BothSpec => []ValidatorsAreCounted
  BY ValidatorsKeepInv, PTL DEF ValidatorsInv

\* The JVMs' heaps fit beside the API's and the margin, or a single JVM runs.
THEOREM ValidatorsFitTheContainer == BothSpec => []JvmsFit
  <1> DEFINE room == LimitBytes - HeapBytes - MarginBytes
             fit == room \div XmxBytes
  <1>1. room \in Int /\ XmxBytes \in Nat \ {0} /\ MaxJvms \in Nat \ {0}
    BY ValidatorSlotsAssumption
  <1>2. fit \in Int /\ fit * XmxBytes <= room
    BY <1>1
  <1>3. Concurrency > 1 => Concurrency <= fit
    BY <1>1, <1>2 DEF Concurrency
  <1>4. ValidatorsInv => JvmsFit
    <2> SUFFICES ASSUME ValidatorsInv, Cardinality(Running) > 1
                 PROVE  Cardinality(Running) * XmxBytes <= room
      BY DEF JvmsFit
    <2> DEFINE n == Cardinality(Running)
    <2>1. n \in Nat /\ n <= Concurrency
      BY RunningIsFinite DEF ValidatorsInv, ValidatorsTypeOK, ValidatorsAreCounted
    <2>2. n <= fit
      BY <1>2, <1>3, <2>1, ConcurrencyIsPositive
    <2> HIDE DEF n, fit, room
    <2>3. n * XmxBytes <= fit * XmxBytes
      BY <1>1, <1>2, <2>1, <2>2
    <2>4. n * XmxBytes <= room
      BY <1>1, <1>2, <2>1, <2>3
    <2> QED
      BY <2>4 DEF n
  <1> QED
    BY <1>4, ValidatorsKeepInv, PTL

\* Beside the validator too, the import slot is never leaked nor lent twice.
THEOREM ImportSlotNeverLeaksBeside == BothSpec => []SlotNeverLeaks
  BY ValidatorsLeaveImportsAlone, ImportSlotNeverLeaks, PTL

=============================================================================

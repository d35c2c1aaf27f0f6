---------------------------- MODULE SharesProofs ----------------------------
(***************************************************************************)
(* The compute gate and the share behind it.                               *)
(*                                                                         *)
(* First the gate, for every finite set of tasks and every MaxRunning and  *)
(* MaxQueued: its counter never drifts from the computations that run, and *)
(* it implements SlotGate.  Then the share, for every set of requests,     *)
(* feeds, files and visitors, behind a gate of one slot: whatever fails,   *)
(* stops, expires, is swept or deleted, and whoever opens the share        *)
(* meanwhile, every file under a link was let through by the validator,    *)
(* and, apart from a publication, each version's card is about its files.  *)
(***************************************************************************)
EXTENDS Shares, LineLemmas, FiniteSetTheorems

-----------------------------------------------------------------------------
(* The compute gate. *)

Waiting == {t \in Tasks : pc[t] = "waiting"}

-----------------------------------------------------------------------------
(* What the invariant says of a state, in the terms of the lemmas. *)

LEMMA QueueIsLine == TypeOK => (QueueIsExact <=> LineOf(queue, Waiting))
  <1> SUFFICES ASSUME TypeOK PROVE QueueIsExact <=> LineOf(queue, Waiting)
    OBVIOUS
  <1>1. \A i \in DOMAIN queue : queue[i] \in Tasks
    BY LenProperties, ElementOfSeq DEF TypeOK
  <1> QED
    BY <1>1 DEF QueueIsExact, LineOf, Waiting

LEMMA ComputingIsFinite == IsFiniteSet(Computing) /\ Cardinality(Computing) \in Nat
  <1>1. IsFiniteSet(Computing)
    BY ComputeGateAssumption, FS_Subset DEF Computing
  <1> QED
    BY <1>1, FS_CardinalityType

(* With the counter exact, release's loop has at most one turn: it hands the
   slot to the head of the line, or nobody waits and the slot is free. *)
LEMMA ReleaseHandsOver ==
  ASSUME InductiveInv, NEW t \in Tasks, Release(t)
  PROVE  \/ /\ queue = <<>> /\ queue' = <<>>
            /\ running \in Nat \ {0} /\ running' = running - 1
            /\ pc' = [pc EXCEPT ![t] = "answered"]
         \/ /\ queue # <<>> /\ queue' = Tail(queue)
            /\ running' = running
            /\ pc' = [pc EXCEPT ![t] = "answered", ![Head(queue)] = "computing"]
  <1> USE DEF InductiveInv
  <1>1. running \in Nat \ {0}
    <2>1. Computing # {}
      BY DEF Release, Computing
    <2>2. Cardinality(Computing) # 0
      BY <2>1, ComputingIsFinite, FS_EmptySet
    <2> QED
      BY <2>2, ComputingIsFinite DEF CounterIsExact
  <1>2. Len(queue) \in Nat /\ DOMAIN queue = 1..Len(queue) /\ MaxRunning \in Nat \ {0}
    BY LenProperties, ComputeGateAssumption DEF TypeOK
  <1>3. running <= MaxRunning
    BY <1>1, <1>2 DEF TypeOK
  <1> DEFINE woken == Fitting(running - 1, Len(queue))
  <1>4. /\ pc[t] = "computing"
        /\ running' = running - 1 + woken
        /\ queue' = SubSeq(queue, woken + 1, Len(queue))
        /\ pc' = [q \in Tasks |->
                    IF q = t THEN "answered"
                    ELSE IF \E i \in 1..woken : queue[i] = q THEN "computing"
                    ELSE pc[q]]
    BY <1>1 DEF Release
  <1>5. CASE queue = <<>>
    <2>1. Len(queue) = 0
      BY <1>5, EmptySeq
    <2>2. woken = 0
      BY <1>1, <1>2, <1>3, <2>1 DEF Fitting
    <2> HIDE DEF woken
    <2>3. queue' = <<>>
      BY <1>4, <2>1, <2>2, SubSeqEmpty
    <2>4. pc' = [pc EXCEPT ![t] = "answered"]
      <3>1. pc' = [q \in Tasks |-> IF q = t THEN "answered" ELSE pc[q]]
        BY <1>4, <2>2
      <3> QED
        BY <3>1 DEF TypeOK
    <2>5. running' = running - 1
      BY <1>1, <1>4, <2>2
    <2> QED
      BY <1>1, <1>5, <2>3, <2>4, <2>5
  <1>6. CASE queue # <<>>
    <2>1. Len(queue) \in Nat \ {0}
      BY <1>6, EmptySeq DEF TypeOK
    <2>2. running = MaxRunning
      BY <1>6 DEF CounterIsExact
    <2>3. woken = 1
      BY <1>1, <1>2, <2>1, <2>2 DEF Fitting
    <2> HIDE DEF woken
    <2>4. queue' = Tail(queue)
      <3>1. SubSeq(queue, 1, Len(queue)) = queue
        BY SubSeqFull DEF TypeOK
      <3>2. Tail(SubSeq(queue, 1, Len(queue))) = SubSeq(queue, 1 + 1, Len(queue))
        BY <2>1, HeadTailOfSubSeq DEF TypeOK
      <3> QED
        BY <1>4, <2>3, <3>1, <3>2
    <2>5. Head(queue) = queue[1] /\ Head(queue) \in Tasks /\ Head(queue) # t
      <3>1. 1 \in DOMAIN queue /\ queue[1] \in Tasks
        BY <1>2, <2>1, ElementOfSeq DEF TypeOK
      <3>2. pc[queue[1]] = "waiting"
        BY <3>1 DEF QueueIsExact
      <3> QED
        BY <1>4, <3>1, <3>2
    <2>6. pc' = [pc EXCEPT ![t] = "answered", ![Head(queue)] = "computing"]
      <3>1. \A q : (\E i \in 1..woken : queue[i] = q) <=> q = Head(queue)
        BY <2>3, <2>5
      <3>2. pc' = [q \in Tasks |->
                     IF q = t THEN "answered" ELSE IF q = Head(queue) THEN "computing" ELSE pc[q]]
        BY <1>4, <3>1
      <3>3. pc \in [Tasks -> States]
        BY DEF TypeOK
      <3> HIDE DEF InductiveInv
      <3> QED
        BY <2>5, <3>2, <3>3
    <2>7. running' = running
      BY <1>1, <1>4, <2>3
    <2> QED
      BY <1>6, <2>4, <2>6, <2>7
  <1> QED
    BY <1>5, <1>6

-----------------------------------------------------------------------------
(* Every action keeps the inductive invariant. *)

LEMMA GateInitInductive == Init => InductiveInv
  <1> SUFFICES ASSUME Init PROVE InductiveInv
    OBVIOUS
  <1> USE DEF Init
  <1>1. queue \in Seq(Tasks) /\ Len(queue) = 0 /\ DOMAIN queue = {}
    BY EmptySeq
  <1>2. TypeOK
    BY <1>1, ComputeGateAssumption DEF TypeOK, States
  <1>3. Computing = {}
    BY DEF Computing
  <1>4. CounterIsExact
    BY <1>3, FS_EmptySet DEF CounterIsExact
  <1>5. QueueIsExact
    BY <1>1 DEF QueueIsExact
  <1> QED
    BY <1>2, <1>4, <1>5 DEF InductiveInv

LEMMA AcquireKeepsInv ==
  ASSUME InductiveInv, NEW t \in Tasks, Acquire(t)
  PROVE  InductiveInv'
  <1> USE DEF InductiveInv
  <1>1. /\ pc[t] = "idle" /\ t \notin Computing /\ t \notin Waiting
        /\ LineOf(queue, Waiting)
        /\ running \in Nat /\ running <= MaxRunning
        /\ Len(queue) \in Nat /\ MaxRunning \in Nat \ {0} /\ MaxQueued \in Nat
    BY QueueIsLine, LenProperties, ComputeGateAssumption
    DEF Acquire, Computing, Waiting, TypeOK
  <1>2. CASE /\ running < MaxRunning /\ running' = running + 1
             /\ pc' = [pc EXCEPT ![t] = "computing"] /\ UNCHANGED queue
    <2>1. TypeOK'
      BY <1>1, <1>2 DEF TypeOK, States
    <2>2. Computing' = Computing \cup {t} /\ Waiting' = Waiting
      BY <1>1, <1>2 DEF TypeOK, Computing, Waiting
    <2>3. Cardinality(Computing') = Cardinality(Computing) + 1
      BY <1>1, <2>2, ComputingIsFinite, FS_AddElement
    <2>4. CounterIsExact'
      BY <1>1, <1>2, <2>3 DEF CounterIsExact
    <2> QED
      BY <1>1, <1>2, <2>1, <2>2, <2>4, QueueIsLine
      DEF QueueIsExact, LineOf, Waiting
  <1>3. CASE pc' = [pc EXCEPT ![t] = "busy"] /\ UNCHANGED <<running, queue>>
    <2>1. TypeOK'
      BY <1>3 DEF TypeOK, States
    <2>2. Computing' = Computing /\ Waiting' = Waiting
      BY <1>1, <1>3 DEF TypeOK, Computing, Waiting
    <2>3. CounterIsExact'
      BY <1>3, <2>2 DEF CounterIsExact
    <2>4. QueueIsExact'
      BY <1>1, <1>3 DEF TypeOK, QueueIsExact
    <2> QED
      BY <2>1, <2>3, <2>4
  <1>4. CASE /\ running >= MaxRunning /\ Len(queue) < MaxQueued
             /\ queue' = Append(queue, t)
             /\ pc' = [pc EXCEPT ![t] = "waiting"] /\ UNCHANGED running
    <2>1. Append(queue, t) \in Seq(Tasks) /\ Len(Append(queue, t)) = Len(queue) + 1
      BY AppendProperties DEF TypeOK
    <2>2. TypeOK'
      BY <1>1, <1>4, <2>1 DEF TypeOK, States
    <2>3. Computing' = Computing /\ Waiting' = Waiting \cup {t}
      BY <1>1, <1>4 DEF TypeOK, Computing, Waiting
    <2>4. CounterIsExact'
      BY <1>1, <1>4, <2>3 DEF CounterIsExact
    <2>5. LineOf(Append(queue, t), Waiting \cup {t})
      BY <1>1, AppendLine DEF TypeOK
    <2>6. LineOf(queue, Waiting)'
      BY <1>4, <2>3, <2>5 DEF LineOf
    <2>7. (QueueIsExact <=> LineOf(queue, Waiting))'
      BY <2>2, QueueIsLine, PTL
    <2> QED
      BY <2>2, <2>4, <2>6, <2>7
  <1> QED
    BY <1>2, <1>3, <1>4 DEF Acquire

LEMMA ReleaseKeepsInv ==
  ASSUME InductiveInv, NEW t \in Tasks, Release(t)
  PROVE  InductiveInv'
  <1> USE DEF InductiveInv
  <1>1. /\ pc[t] = "computing" /\ t \in Computing /\ t \notin Waiting
        /\ LineOf(queue, Waiting) /\ queue \in Seq(Tasks)
        /\ running \in Nat /\ running <= MaxRunning
        /\ Len(queue) \in Nat /\ MaxRunning \in Nat \ {0} /\ MaxQueued \in Nat
    BY QueueIsLine, LenProperties, ComputeGateAssumption
    DEF Release, Computing, Waiting, TypeOK
  <1>2. CASE /\ queue = <<>> /\ queue' = <<>>
             /\ running \in Nat \ {0} /\ running' = running - 1
             /\ pc' = [pc EXCEPT ![t] = "answered"]
    <2>1. TypeOK'
      BY <1>1, <1>2 DEF TypeOK, States
    <2>2. Computing' = Computing \ {t}
      BY <1>1, <1>2 DEF TypeOK, Computing
    <2>3. Cardinality(Computing') = Cardinality(Computing) - 1
      BY <1>1, <2>2, ComputingIsFinite, FS_RemoveElement
    <2>4. CounterIsExact'
      BY <1>2, <2>3 DEF CounterIsExact
    <2>5. QueueIsExact'
      BY <1>1, <1>2 DEF TypeOK, QueueIsExact
    <2> QED
      BY <2>1, <2>4, <2>5
  <1>3. CASE /\ queue # <<>> /\ queue' = Tail(queue)
             /\ running' = running
             /\ pc' = [pc EXCEPT ![t] = "answered", ![Head(queue)] = "computing"]
    <2> DEFINE h == Head(queue)
    <2>1. /\ h \in Tasks /\ h \in Waiting
          /\ Tail(queue) \in Seq(Tasks) /\ Len(Tail(queue)) = Len(queue) - 1
          /\ LineOf(Tail(queue), Waiting \ {h})
      BY <1>1, <1>3, TailLine
    <2>2. h # t /\ pc[h] = "waiting" /\ h \notin Computing \ {t}
      BY <1>1, <2>1 DEF Waiting, Computing
    <2>3. pc' = [pc EXCEPT ![t] = "answered", ![h] = "computing"]
      BY <1>3
    <2> HIDE DEF h
    <2>4. TypeOK'
      BY <1>1, <1>3, <2>1, <2>3 DEF TypeOK, States
    <2>5. Computing' = (Computing \ {t}) \cup {h} /\ Waiting' = Waiting \ {h}
      BY <1>1, <2>1, <2>2, <2>3 DEF TypeOK, Computing, Waiting
    <2>6. Cardinality(Computing') = Cardinality(Computing)
      <3>1. /\ IsFiniteSet(Computing \ {t})
            /\ Cardinality(Computing \ {t}) = Cardinality(Computing) - 1
        BY <1>1, ComputingIsFinite, FS_RemoveElement
      <3>2. Cardinality((Computing \ {t}) \cup {h}) = Cardinality(Computing \ {t}) + 1
        BY <2>2, <3>1, FS_AddElement
      <3> QED
        BY <2>5, <3>1, <3>2, ComputingIsFinite
    <2>7. CounterIsExact'
      BY <1>3, <2>6 DEF CounterIsExact
    <2>8. LineOf(queue, Waiting)'
      BY <1>3, <2>1, <2>5 DEF LineOf
    <2>9. (QueueIsExact <=> LineOf(queue, Waiting))'
      BY <2>4, QueueIsLine, PTL
    <2> QED
      BY <2>4, <2>7, <2>8, <2>9
  <1> QED
    BY <1>2, <1>3, ReleaseHandsOver

LEMMA TimeoutKeepsInv ==
  ASSUME InductiveInv, NEW i \in DOMAIN queue, Timeout(i)
  PROVE  InductiveInv'
  <1> USE DEF InductiveInv
  <1> DEFINE q == queue[i]
  <1>1. /\ queue \in Seq(Tasks) /\ i \in 1..Len(queue) /\ Len(queue) \in Nat
        /\ MaxQueued \in Nat /\ LineOf(queue, Waiting)
    BY QueueIsLine, LenProperties, ComputeGateAssumption DEF TypeOK
  <1>2. q \in Tasks /\ pc[q] = "waiting"
    BY <1>1, ElementOfSeq DEF QueueIsExact
  <1>3. /\ queue' = RemoveAt(queue, i) /\ pc' = [pc EXCEPT ![q] = "busy"]
        /\ running' = running
    BY DEF Timeout
  <1>4. /\ RemoveAt(queue, i) \in Seq(Tasks)
        /\ Len(RemoveAt(queue, i)) = Len(queue) - 1
        /\ LineOf(RemoveAt(queue, i), Waiting \ {q})
    BY <1>1, RemoveAtProperties, RemoveAtLine
  <1>5. queue # <<>>
    BY <1>1, EmptySeq
  <1> HIDE DEF q
  <1>6. TypeOK'
    BY <1>1, <1>2, <1>3, <1>4 DEF TypeOK, States
  <1>7. Computing' = Computing /\ Waiting' = Waiting \ {q}
    BY <1>2, <1>3 DEF TypeOK, Computing, Waiting
  <1>8. CounterIsExact'
    BY <1>3, <1>5, <1>7 DEF CounterIsExact
  <1>9. LineOf(queue, Waiting)'
    BY <1>3, <1>4, <1>7 DEF LineOf
  <1>10. (QueueIsExact <=> LineOf(queue, Waiting))'
    BY <1>6, QueueIsLine, PTL
  <1> QED
    BY <1>6, <1>8, <1>9, <1>10

LEMMA ForgetKeepsInv ==
  ASSUME InductiveInv, NEW t \in Tasks, Forget(t)
  PROVE  InductiveInv'
  <1> USE DEF InductiveInv, Forget
  <1>1. TypeOK'
    BY DEF TypeOK, States
  <1>2. Computing' = Computing
    BY DEF TypeOK, Computing
  <1>3. CounterIsExact'
    BY <1>2 DEF CounterIsExact
  <1>4. QueueIsExact'
    BY DEF TypeOK, QueueIsExact
  <1> QED
    BY <1>1, <1>3, <1>4

LEMMA RestartKeepsInv == InductiveInv /\ Restart => InductiveInv'
  <1> SUFFICES ASSUME Restart PROVE InductiveInv'
    OBVIOUS
  <1> USE DEF Restart
  <1>1. queue' \in Seq(Tasks) /\ Len(queue') = 0 /\ DOMAIN queue' = {}
    BY EmptySeq
  <1>2. TypeOK'
    BY <1>1, ComputeGateAssumption DEF TypeOK, States
  <1>3. Computing' = {}
    BY DEF Computing
  <1>4. CounterIsExact'
    BY <1>3, FS_EmptySet DEF CounterIsExact
  <1>5. QueueIsExact'
    BY <1>1 DEF QueueIsExact
  <1> QED
    BY <1>2, <1>4, <1>5 DEF InductiveInv

LEMMA GateNextKeepsInv == InductiveInv /\ [Next]_gateVars => InductiveInv'
  <1> SUFFICES ASSUME InductiveInv, [Next]_gateVars
               PROVE  InductiveInv'
    OBVIOUS
  <1>1. CASE UNCHANGED gateVars
    BY <1>1 DEF gateVars, InductiveInv, TypeOK, CounterIsExact, Computing, QueueIsExact
  <1>2. CASE Next
    BY <1>2, AcquireKeepsInv, ReleaseKeepsInv, TimeoutKeepsInv, ForgetKeepsInv,
       RestartKeepsInv
    DEF Next
  <1> QED
    BY <1>1, <1>2

-----------------------------------------------------------------------------
(* The results. *)

(* The compute gate keeps its inductive invariant for ever, for every finite
   set of tasks and every limit. *)
THEOREM GateKeepsInductiveInv == Spec => []InductiveInv
  BY GateInitInductive, GateNextKeepsInv, PTL DEF Spec

(* computeGate's counter stays between 0 and DEMAND_MAX_CONCURRENT and its queue
   within MAX_QUEUED: `Math.max(0, running - 1)` never hides a drift. *)
THEOREM GateTypeCorrect == Spec => []TypeOK
  <1>1. InductiveInv => TypeOK
    BY DEF InductiveInv
  <1> QED
    BY <1>1, GateKeepsInductiveInv, PTL

(* computeGate's counter is the number of computations that run, and nobody
   waits while one more would fit. *)
THEOREM GateCounterIsExact == Spec => []CounterIsExact
  <1>1. InductiveInv => CounterIsExact
    BY DEF InductiveInv
  <1> QED
    BY <1>1, GateKeepsInductiveInv, PTL

-----------------------------------------------------------------------------
(* The compute gate implements SlotGate. *)

(* SlotGate's own copies of the library's operators are the library's. *)
LEMMA GateOperators ==
  /\ \A S : Gate!Cardinality(S) = Cardinality(S)
  /\ \A s, i : Gate!RemoveAt(s, i) = RemoveAt(s, i)
  <1>1. \A S : Gate!Cardinality(S) = Cardinality(S)
    BY Zenon DEF Gate!Cardinality, Cardinality
  <1>2. \A s, i : Gate!RemoveAt(s, i) = RemoveAt(s, i)
    BY DEF Gate!RemoveAt, RemoveAt
  <1> QED
    BY <1>1, <1>2

LEMMA GateInit == Init => Gate!Init
  BY DEF Init, Gate!Init, Computing

LEMMA GateStep ==
  ASSUME InductiveInv, [Next]_gateVars
  PROVE  [Gate!Next]_(Gate!gateVars)
  <1> USE DEF InductiveInv, Gate!gateVars
  <1>1. ASSUME NEW t \in Tasks, Acquire(t)
        PROVE  Gate!Enter(t) \/ Gate!Join(t) \/ UNCHANGED <<Computing, queue>>
    <2>1. pc[t] = "idle" /\ t \notin Computing /\ running \in Nat /\ MaxRunning \in Nat
      BY <1>1, ComputeGateAssumption DEF Acquire, Computing, TypeOK
    <2>2. CASE /\ running < MaxRunning
               /\ pc' = [pc EXCEPT ![t] = "computing"] /\ UNCHANGED queue
      <3>1. Computing' = Computing \cup {t}
        BY <2>1, <2>2 DEF TypeOK, Computing
      <3>2. queue = <<>> /\ Cardinality(Computing) < MaxRunning
        BY <2>1, <2>2 DEF CounterIsExact
      <3> QED
        BY <2>1, <2>2, <3>1, <3>2, GateOperators DEF Gate!Enter
    <2>3. CASE pc' = [pc EXCEPT ![t] = "busy"] /\ UNCHANGED queue
      BY <2>1, <2>3 DEF TypeOK, Computing
    <2>4. CASE /\ running >= MaxRunning /\ Len(queue) < MaxQueued
               /\ queue' = Append(queue, t) /\ pc' = [pc EXCEPT ![t] = "waiting"]
      <3>1. Computing' = Computing
        BY <2>1, <2>4 DEF TypeOK, Computing
      <3>2. Cardinality(Computing) = MaxRunning
        BY <2>1, <2>4 DEF TypeOK, CounterIsExact
      <3> QED
        BY <2>4, <3>1, <3>2, GateOperators DEF Gate!Join
    <2> QED
      BY <1>1, <2>2, <2>3, <2>4 DEF Acquire
  <1>2. ASSUME NEW t \in Tasks, Release(t)
        PROVE  Gate!HandOver(t) \/ Gate!Leave(t)
    <2>1. pc[t] = "computing" /\ t \in Computing
      BY <1>2 DEF Release, Computing
    <2>2. CASE /\ queue = <<>> /\ queue' = <<>>
               /\ pc' = [pc EXCEPT ![t] = "answered"]
      <3>1. Computing' = Computing \ {t}
        BY <2>1, <2>2 DEF TypeOK, Computing
      <3> QED
        BY <2>1, <2>2, <3>1 DEF Gate!Leave
    <2>3. CASE /\ queue # <<>> /\ queue' = Tail(queue)
               /\ pc' = [pc EXCEPT ![t] = "answered", ![Head(queue)] = "computing"]
      <3>1. Head(queue) \in Tasks /\ Head(queue) # t
        <4>1. Head(queue) \in Waiting
          BY <2>3, QueueIsLine, TailLine DEF TypeOK
        <4> QED
          BY <2>1, <4>1 DEF Waiting
      <3>2. Computing' = (Computing \ {t}) \cup {Head(queue)}
        BY <2>1, <2>3, <3>1 DEF TypeOK, Computing
      <3> QED
        BY <2>1, <2>3, <3>2 DEF Gate!HandOver
    <2> QED
      BY <1>2, <2>2, <2>3, ReleaseHandsOver
  <1>3. ASSUME NEW i \in DOMAIN queue, Timeout(i)
        PROVE  Gate!GiveUp(i)
    <2>1. pc[queue[i]] = "waiting"
      BY DEF QueueIsExact
    <2> QED
      BY <1>3, <2>1, GateOperators DEF Timeout, TypeOK, Computing, Gate!GiveUp
  <1>4. ASSUME NEW t \in Tasks, Forget(t)
        PROVE  UNCHANGED <<Computing, queue>>
    BY <1>4 DEF Forget, TypeOK, Computing
  <1>5. ASSUME Restart
        PROVE  Gate!Reset
    BY <1>5 DEF Restart, Computing, Gate!Reset
  <1>6. CASE UNCHANGED gateVars
    BY <1>6 DEF gateVars, Computing
  <1>7. CASE Next
    BY <1>7, <1>1, <1>2, <1>3, <1>4, <1>5 DEF Next, Gate!Next
  <1> QED
    BY <1>6, <1>7

(* computeGate is a first-come-first-served gate of DEMAND_MAX_CONCURRENT slots
   and MAX_QUEUED places in line: the same promise as feedImporter's queue. *)
THEOREM ComputeGateImplementsGate == Spec => ImplementsGate
  <1>1. InductiveInv /\ [Next]_gateVars => [Gate!Next]_(Gate!gateVars)
    BY GateStep
  <1> QED
    BY <1>1, GateInit, GateKeepsInductiveInv, PTL DEF Spec, ImplementsGate, Gate!Spec

-----------------------------------------------------------------------------
(* The share. *)

\* Files the validator let through, or none.
SoundFiles(d) == \A f \in Files : d[f] \in Sound \cup {None}

Stages == {"none", "mkdir", "copying", "validating", "moving", "unpacking", "writing", "torn", "done"}

Cards == {c \in Seq(Folders) : Len(c) <= MaxVersions}

\* The types the argument rests on: a job that publishes has a version to make.
FilesOK ==
  /\ card \in Cards
  /\ root \in Folders
  /\ kept \in [1..MaxVersions -> Folders]
  /\ staging \in [1..MaxVersions -> Folders \cup {None}]
  /\ job \in [Tasks -> [stage : Stages, read : Cards, content : Folders]]
  /\ \A t \in Tasks : Number(t) <= MaxVersions
  /\ opening \in [Visitors -> Cards]

\* A job is the work of a task that computes; an idle one has read nothing.
JobsCompute ==
  \A t \in Tasks : /\ job[t].stage # "none" => pc[t] = "computing"
                   /\ job[t].stage = "none" => job[t].read = <<>>

Creating(t) == Creates(t) /\ job[t].stage \in {"mkdir", "copying", "validating", "writing", "torn"}

\* Somebody has, or had, a card of the share in hand.
Shared ==
  \/ card # <<>>
  \/ \E t \in Tasks : job[t].read # <<>>
  \/ \E o \in Visitors : opening[o] # <<>>

\* The token is drawn once: there is no card before the creation's own, whose files
\* passed, and none is created beside one.
SharedIsSound ==
  /\ Shared => SoundFiles(root) /\ token /\ \A t \in Tasks : ~Creating(t)
  /\ \A t \in Tasks : Creating(t) => token
  /\ \A t \in Tasks : (Creating(t) /\ job[t].stage \in {"writing", "torn"}) => SoundFiles(root)

KeptIsSound == \A n \in 1..MaxVersions : SoundFiles(kept[n])

\* What a publication moves is what passed.
MovedIsSound ==
  \A t \in Tasks : job[t].stage \in {"moving", "unpacking"} =>
    /\ ~Creates(t)
    /\ staging[Number(t)] # None => SoundFiles(staging[Number(t)])

SharesInv == FilesOK /\ JobsCompute /\ SharedIsSound /\ KeptIsSound /\ MovedIsSound

-----------------------------------------------------------------------------
(* The share and the gate alone. *)

\* What a request does while it computes is a stutter of the gate.
LEMMA SharesStepIsGateStep == [SharesNext]_<<gateVars, shareVars>> => [Next]_gateVars
  <1> SUFFICES ASSUME SharesNext PROVE [Next]_gateVars
    BY DEF gateVars
  <1>1. GateSteps => Next
    BY DEF GateSteps, Next
  <1>2. ASSUME NEW t \in Tasks, Works(t) PROVE [Next]_gateVars
    <2>1. CASE Finish(t)
      BY <2>1 DEF Finish, Next
    <2> QED
      BY <1>2, <2>1 DEF Works, Start, MakeFolder, Snapshot, Validated, Refused, Fails, MoveOld,
                        MoveNew, RenameFails, WriteStarts, WriteEnds, WriteFails
  <1>3. ASSUME NEW o \in Visitors, OpenStarts(o) \/ OpenEnds(o) PROVE UNCHANGED gateVars
    BY <1>3 DEF OpenStarts, OpenEnds
  <1>4. Stop => Next
    BY DEF Stop, Next
  <1>5. Expire \/ Sweep \/ DeleteAccount => UNCHANGED gateVars
    BY DEF Expire, Sweep, DeleteAccount
  <1> QED
    BY <1>1, <1>2, <1>3, <1>4, <1>5 DEF SharesNext

(* Behind the compute gate a share's requests leave it as it is: every behaviour of the
   two is one of the gate, so that what is proved of withGate alone holds around them. *)
THEOREM SharesLeaveTheGateAlone == SharesSpec => Spec
  <1>1. SharesInit => Init
    BY DEF SharesInit
  <1> QED
    BY <1>1, SharesStepIsGateStep, PTL DEF SharesSpec, Spec

\* withGate around a share's work neither leaks a slot nor lends one twice.
THEOREM GateIsExactAroundShares == SharesSpec => []CounterIsExact
  BY SharesLeaveTheGateAlone, GateCounterIsExact, PTL

\* Creations and publications get the slots first come, first served.
THEOREM SharesAreServedInOrder == SharesSpec => ImplementsGate
  BY SharesLeaveTheGateAlone, ComputeGateImplementsGate, PTL

-----------------------------------------------------------------------------
(* One slot, one job. *)

LEMMA OneComputes ==
  ASSUME MaxRunning = 1, InductiveInv,
         NEW t \in Tasks, NEW u \in Tasks, pc[t] = "computing", pc[u] = "computing"
  PROVE  t = u
  <1>1. IsFiniteSet(Computing) /\ Cardinality(Computing) \in Nat
    BY ComputingIsFinite
  <1>2. Cardinality(Computing) <= 1
    BY DEF InductiveInv, TypeOK, CounterIsExact
  <1>3. t \in Computing /\ u \in Computing
    BY DEF Computing
  <1>4. Cardinality(Computing) # 0
    BY <1>1, <1>3, FS_EmptySet
  <1>5. Cardinality(Computing) = 1
    BY <1>1, <1>2, <1>4
  <1>6. PICK x : Computing = {x}
    BY <1>1, <1>5, FS_Singleton
  <1> QED
    BY <1>3, <1>6

\* While a job is under way the others have none, and have read nothing.
LEMMA OthersAreIdle ==
  ASSUME MaxRunning = 1, InductiveInv, JobsCompute, NEW t \in Tasks, pc[t] = "computing"
  PROVE  \A u \in Tasks : u # t => job[u].stage = "none" /\ job[u].read = <<>>
  BY OneComputes DEF JobsCompute

-----------------------------------------------------------------------------
(* What a step must keep. *)

Jobs == [stage : Stages, read : Cards, content : Folders]

LEMMA EmptyIsSound == Empty \in Folders /\ SoundFiles(Empty)
  BY DEF Empty, Folders, SoundFiles

\* A step of the job under way, which becomes j.
LEMMA WorkKeepsInv ==
  ASSUME SharesInv, NEW t \in Tasks, pc[t] = "computing",
         \A u \in Tasks : u # t => job[u].stage = "none" /\ job[u].read = <<>>,
         UNCHANGED <<pc, opening>>,
         NEW j \in Jobs, j.stage # "none", Len(j.read) + 1 <= MaxVersions,
         job' = [job EXCEPT ![t] = j],
         card' \in Cards, root' \in Folders,
         kept' \in [1..MaxVersions -> Folders],
         staging' \in [1..MaxVersions -> Folders \cup {None}],
         (j.read = <<>> /\ j.stage \in {"mkdir", "copying", "validating", "writing", "torn"}) =>
            token' /\ card' = <<>> /\ \A o \in Visitors : opening[o] = <<>>,
         (j.read = <<>> /\ j.stage \in {"writing", "torn"}) => SoundFiles(root'),
         (card' # <<>> \/ j.read # <<>> \/ \E o \in Visitors : opening[o] # <<>>) =>
            SoundFiles(root') /\ token',
         KeptIsSound',
         j.stage \in {"moving", "unpacking"} =>
            /\ j.read # <<>>
            /\ staging'[Len(j.read) + 1] # None => SoundFiles(staging'[Len(j.read) + 1])
  PROVE  SharesInv'
  <1>1. job \in [Tasks -> Jobs] /\ opening \in [Visitors -> Cards]
    BY DEF SharesInv, FilesOK, Jobs
  <1>2. job' \in [Tasks -> Jobs] /\ job'[t] = j /\ \A u \in Tasks : u # t => job'[u] = job[u]
    BY <1>1
  <1>3. \A u \in Tasks : u # t => job'[u].stage = "none" /\ job'[u].read = <<>>
    BY <1>2
  <1>4. FilesOK'
    <2>1. \A u \in Tasks : Number(u)' <= MaxVersions
      <3> SUFFICES ASSUME NEW u \in Tasks PROVE Len(job'[u].read) + 1 <= MaxVersions
        BY DEF Number
      <3>1. CASE u = t
        BY <3>1, <1>2
      <3>2. CASE u # t
        BY <3>2, <1>2 DEF SharesInv, FilesOK, Number
      <3> QED
        BY <3>1, <3>2
    <2> QED
      BY <1>1, <1>2, <2>1 DEF FilesOK, Jobs
  <1>5. JobsCompute'
    BY <1>2, <1>3 DEF JobsCompute
  <1>6. \A u \in Tasks : Creating(u)' => u = t
    BY <1>3 DEF Creating
  <1>7. Creating(t)' <=> (j.read = <<>> /\ j.stage \in {"mkdir", "copying", "validating", "writing", "torn"})
    BY <1>2 DEF Creating, Creates
  <1>8. Shared' <=> (card' # <<>> \/ j.read # <<>> \/ \E o \in Visitors : opening[o] # <<>>)
    BY <1>2, <1>3 DEF Shared
  <1>9. SharedIsSound'
    <2>1. Shared' => SoundFiles(root') /\ token' /\ \A u \in Tasks : ~Creating(u)'
      BY <1>6, <1>7, <1>8
    <2>2. \A u \in Tasks : Creating(u)' => token'
      BY <1>6, <1>7
    <2>3. \A u \in Tasks : (Creating(u)' /\ job'[u].stage \in {"writing", "torn"}) => SoundFiles(root')
      BY <1>2, <1>6, <1>7
    <2> QED
      BY <2>1, <2>2, <2>3 DEF SharedIsSound, SoundFiles
  <1>10. MovedIsSound'
    BY <1>2, <1>3 DEF MovedIsSound, Number, Creates, SoundFiles
  <1> QED
    BY <1>4, <1>5, <1>9, <1>10 DEF SharesInv

\* A step beside the jobs, which stay as they are.
LEMMA BesideKeepsInv ==
  ASSUME SharesInv, UNCHANGED <<job, token>>,
         \A t \in Tasks : pc[t] = "computing" => pc'[t] = "computing",
         card' \in Cards, root' \in Folders,
         kept' \in [1..MaxVersions -> Folders],
         staging' \in [1..MaxVersions -> Folders \cup {None}],
         opening' \in [Visitors -> Cards],
         Shared' => Shared,
         root' \in {root, Empty},
         \A n \in 1..MaxVersions : kept'[n] \in {kept[n], Empty},
         \A n \in 1..MaxVersions : staging'[n] \in {staging[n], None}
  PROVE  SharesInv'
  <1>1. FilesOK'
    BY DEF SharesInv, FilesOK, Number
  <1>2. JobsCompute'
    BY DEF SharesInv, JobsCompute
  <1>3. SoundFiles(root) => SoundFiles(root')
    BY EmptyIsSound
  <1>4. \A t \in Tasks : Creating(t)' <=> Creating(t)
    BY DEF Creating, Creates
  <1>5. SharedIsSound'
    <2>1. Shared' => SoundFiles(root') /\ token' /\ \A t \in Tasks : ~Creating(t)'
      BY <1>3, <1>4 DEF SharesInv, SharedIsSound
    <2>2. \A t \in Tasks : Creating(t)' => token'
      BY <1>4 DEF SharesInv, SharedIsSound
    <2>3. \A t \in Tasks : (Creating(t)' /\ job'[t].stage \in {"writing", "torn"}) => SoundFiles(root')
      BY <1>3, <1>4 DEF SharesInv, SharedIsSound
    <2> QED
      BY <2>1, <2>2, <2>3 DEF SharedIsSound, SoundFiles
  <1>6. KeptIsSound'
    BY EmptyIsSound DEF SharesInv, KeptIsSound, SoundFiles
  <1>7. MovedIsSound'
    <2> SUFFICES ASSUME NEW t \in Tasks, job[t].stage \in {"moving", "unpacking"},
                        staging'[Number(t)] # None
                 PROVE  SoundFiles(staging'[Number(t)])
      BY DEF MovedIsSound, SharesInv, Number, Creates, SoundFiles
    <2>1. Number(t) \in 1..MaxVersions
      <3>1. job[t].read \in Seq(Folders) /\ Number(t) <= MaxVersions
        BY DEF SharesInv, FilesOK, Cards
      <3> QED
        BY <3>1, LenProperties, SharesAssumption DEF Number
    <2>2. staging'[Number(t)] = staging[Number(t)]
      BY <2>1
    <2> QED
      BY <2>2 DEF SharesInv, MovedIsSound
  <1> QED
    BY <1>1, <1>2, <1>5, <1>6, <1>7 DEF SharesInv

-----------------------------------------------------------------------------
(* The steps of a job. *)

\* What is known of a task whose job is under way.
LEMMA UnderWay ==
  ASSUME MaxRunning = 1, InductiveInv, SharesInv, NEW t \in Tasks, job[t].stage # "none"
  PROVE  /\ pc[t] = "computing"
         /\ \A u \in Tasks : u # t => job[u].stage = "none" /\ job[u].read = <<>>
         /\ job \in [Tasks -> Jobs] /\ job[t] \in Jobs
         /\ Len(job[t].read) + 1 <= MaxVersions
         /\ Number(t) = Len(job[t].read) + 1 /\ Number(t) \in 1..MaxVersions
         /\ job[t].read # <<>> => Number(t) - 1 \in 1..MaxVersions
         /\ Creates(t) <=> job[t].read = <<>>
         /\ \A o \in Visitors : opening[o] # <<>> => Shared
         /\ job[t].read # <<>> => Shared
  <1>1. pc[t] = "computing"
    BY DEF SharesInv, JobsCompute
  <1>2. \A u \in Tasks : u # t => job[u].stage = "none" /\ job[u].read = <<>>
    BY <1>1, OthersAreIdle DEF SharesInv
  <1>3. job \in [Tasks -> Jobs] /\ job[t] \in Jobs
    BY DEF SharesInv, FilesOK, Jobs
  <1>4. job[t].read \in Seq(Folders)
    BY <1>3 DEF Jobs, Cards
  <1>5. Number(t) <= MaxVersions /\ Len(job[t].read) \in Nat
    BY <1>4, LenProperties DEF SharesInv, FilesOK
  <1>6. job[t].read # <<>> => Len(job[t].read) # 0
    BY <1>4, EmptySeq, LenProperties
  <1> QED
    BY <1>1, <1>2, <1>3, <1>5, <1>6, SharesAssumption DEF Number, Creates, Shared

\* The record a change of stage makes.
LEMMA GoesMakes ==
  ASSUME job \in [Tasks -> Jobs], NEW t \in Tasks, NEW s \in Stages, Goes(t, s)
  PROVE  \E j \in Jobs : /\ job' = [job EXCEPT ![t] = j]
                         /\ j.stage = s /\ j.read = job[t].read
  <1> DEFINE j == [stage |-> s, read |-> job[t].read, content |-> job[t].content]
  <1>1. job[t] \in Jobs
    OBVIOUS
  <1>2. [job[t] EXCEPT !.stage = s] = j
    BY <1>1 DEF Jobs
  <1>3. job' = [job EXCEPT ![t] = [job[t] EXCEPT !.stage = s]]
    BY DEF Goes
  <1>4. j \in Jobs
    BY <1>1 DEF Jobs
  <1> QED
    BY <1>2, <1>3, <1>4

LEMMA MakeFolderKeepsInv ==
  ASSUME MaxRunning = 1, InductiveInv, SharesInv, NEW t \in Tasks, MakeFolder(t)
  PROVE  SharesInv'
  <1>1. job[t].stage = "mkdir"
    BY DEF MakeFolder
  <1>2. PICK j \in Jobs : job' = [job EXCEPT ![t] = j] /\ j.stage = "copying" /\ j.read = job[t].read
    BY <1>1, UnderWay, GoesMakes DEF MakeFolder, Stages
  <1>3. staging' \in [1..MaxVersions -> Folders \cup {None}]
    BY <1>1, UnderWay, EmptyIsSound DEF MakeFolder, SharesInv, FilesOK
  <1>4. Creates(t) => Creating(t)
    BY <1>1 DEF Creating
  <1>5. UNCHANGED <<pc, opening, card, root, kept, token>>
    BY DEF MakeFolder, gateVars
  <1>6. card \in Cards /\ root \in Folders /\ kept \in [1..MaxVersions -> Folders]
    BY DEF SharesInv, FilesOK
  <1>7. (card # <<>> \/ job[t].read # <<>> \/ \E o \in Visitors : opening[o] # <<>>) <=> Shared
    BY <1>1, UnderWay DEF Shared
  <1>8. KeptIsSound'
    BY <1>5 DEF SharesInv, KeptIsSound, SoundFiles
  <1>9. SoundFiles(root) <=> SoundFiles(root')
    BY <1>5
  <1> QED
    BY <1>1, <1>2, <1>3, <1>4, <1>5, <1>6, <1>7, <1>8, <1>9, UnderWay, WorkKeepsInv
       DEF SharesInv, SharedIsSound

\* Where a card or a reading of it is in hand while t works.
LEMMA SharedWhileWorking ==
  ASSUME MaxRunning = 1, InductiveInv, SharesInv, NEW t \in Tasks, job[t].stage # "none"
  PROVE  /\ Shared <=> (card # <<>> \/ job[t].read # <<>> \/ \E o \in Visitors : opening[o] # <<>>)
         /\ Shared => SoundFiles(root) /\ token /\ ~Creating(t)
         /\ Creating(t) => token
         /\ (Creating(t) /\ job[t].stage \in {"writing", "torn"}) => SoundFiles(root)
         /\ Creating(t) => card = <<>> /\ \A o \in Visitors : opening[o] = <<>>
  <1>1. Shared <=> (card # <<>> \/ job[t].read # <<>> \/ \E o \in Visitors : opening[o] # <<>>)
    BY UnderWay DEF Shared
  <1> QED
    BY <1>1 DEF SharesInv, SharedIsSound

LEMMA SnapshotKeepsInv ==
  ASSUME MaxRunning = 1, InductiveInv, SharesInv, NEW t \in Tasks, Snapshot(t)
  PROVE  SharesInv'
  <1>1. job[t].stage = "copying"
    BY DEF Snapshot
  <1>2. PICK j \in Jobs : job' = [job EXCEPT ![t] = j] /\ j.stage = "validating" /\ j.read = job[t].read
    BY <1>1, UnderWay, GoesMakes DEF Snapshot, Stages
  <1>3. \A d \in Feeds : Whole(d) \in Folders
    BY DEF Whole, Folders
  <1>4. /\ card \in Cards /\ root \in Folders /\ kept \in [1..MaxVersions -> Folders]
        /\ staging \in [1..MaxVersions -> Folders \cup {None}]
    BY DEF SharesInv, FilesOK
  <1>5. root' \in Folders /\ staging' \in [1..MaxVersions -> Folders \cup {None}]
    BY <1>1, <1>3, <1>4, UnderWay DEF Snapshot
  <1>6. UNCHANGED <<pc, opening, card, kept, token>> /\ (~Creates(t) => root' = root)
    BY DEF Snapshot, gateVars
  <1>7. Creates(t) => Creating(t)
    BY <1>1 DEF Creating
  <1>8. KeptIsSound'
    BY <1>6 DEF SharesInv, KeptIsSound, SoundFiles
  <1>9. ~Creates(t) => (SoundFiles(root) <=> SoundFiles(root'))
    BY <1>6
  <1> QED
    BY <1>1, <1>2, <1>4, <1>5, <1>6, <1>7, <1>8, <1>9, UnderWay, SharedWhileWorking, WorkKeepsInv

LEMMA FailsKeepsInv ==
  ASSUME MaxRunning = 1, InductiveInv, SharesInv, NEW t \in Tasks, Fails(t),
         job[t].stage \in {"copying", "validating", "moving", "unpacking", "writing"}
  PROVE  SharesInv'
  <1>1. PICK j \in Jobs : job' = [job EXCEPT ![t] = j] /\ j.stage = "done" /\ j.read = job[t].read
    BY UnderWay, GoesMakes DEF Fails, Stages
  <1>2. /\ card \in Cards /\ root \in Folders /\ kept \in [1..MaxVersions -> Folders]
        /\ staging \in [1..MaxVersions -> Folders \cup {None}]
    BY DEF SharesInv, FilesOK
  <1>3. <<>> \in Cards
    BY SharesAssumption DEF Cards
  <1>4. UNCHANGED <<pc, opening, token>>
    BY DEF Fails, gateVars
  <1>5. /\ card' \in Cards /\ root' \in Folders /\ kept' \in [1..MaxVersions -> Folders]
        /\ staging' \in [1..MaxVersions -> Folders \cup {None}]
    BY <1>2, <1>3, EmptyIsSound, UnderWay DEF Fails, Removed
  <1>6. card' # <<>> => card' = card
    BY DEF Fails, Removed
  <1>7. SoundFiles(root) => SoundFiles(root')
    BY EmptyIsSound DEF Fails, Removed
  <1>8. KeptIsSound'
    BY EmptyIsSound DEF Fails, Removed, SharesInv, KeptIsSound, SoundFiles
  <1> QED
    BY <1>1, <1>4, <1>5, <1>6, <1>7, <1>8, UnderWay, SharedWhileWorking, WorkKeepsInv

LEMMA RefusedKeepsInv ==
  ASSUME MaxRunning = 1, InductiveInv, SharesInv, NEW t \in Tasks,
         Refused(t) \/ RenameFails(t) \/ WriteFails(t)
  PROVE  SharesInv'
  BY FailsKeepsInv DEF Refused, RenameFails, WriteFails

LEMMA ValidatedKeepsInv ==
  ASSUME MaxRunning = 1, InductiveInv, SharesInv, NEW t \in Tasks, Validated(t)
  PROVE  SharesInv'
  <1> DEFINE j == [stage |-> IF Creates(t) THEN "writing" ELSE "moving",
                   read |-> job[t].read, content |-> Snapshotted(t)]
  <1>1. job[t].stage = "validating"
    BY DEF Validated
  <1>2. /\ card \in Cards /\ root \in Folders /\ kept \in [1..MaxVersions -> Folders]
        /\ staging \in [1..MaxVersions -> Folders \cup {None}]
    BY DEF SharesInv, FilesOK
  <1>3. Snapshotted(t) \in Folders /\ SoundFiles(Snapshotted(t))
    BY <1>1, <1>2, UnderWay DEF Validated, Snapshotted, Passes, SoundFiles
  <1>4. j \in Jobs
    BY <1>1, <1>3, UnderWay DEF Jobs, Stages
  <1>5. job' = [job EXCEPT ![t] = j]
    BY DEF Validated
  <1>6. UNCHANGED <<pc, opening, card, root, kept, staging, token>>
    BY DEF Validated, gateVars
  <1>7. Creates(t) => Creating(t) /\ SoundFiles(root)
    BY <1>1, <1>3 DEF Creating, Snapshotted
  <1>8. ~Creates(t) => SoundFiles(staging[Number(t)])
    BY <1>3 DEF Snapshotted
  <1>9. KeptIsSound'
    BY <1>6 DEF SharesInv, KeptIsSound, SoundFiles
  <1>10. j.stage # "none" /\ j.read = job[t].read
         /\ (j.stage \in {"moving", "unpacking"} <=> ~Creates(t))
    OBVIOUS
  <1> HIDE DEF j
  <1> QED
    BY <1>1, <1>2, <1>4, <1>5, <1>6, <1>7, <1>8, <1>9, <1>10, UnderWay, SharedWhileWorking, WorkKeepsInv

\* The record of a job that a step leaves where it is.
LEMMA StaysMakes ==
  ASSUME job \in [Tasks -> Jobs], NEW t \in Tasks, UNCHANGED job
  PROVE  job' = [job EXCEPT ![t] = job[t]]
  OBVIOUS

LEMMA MoveOldKeepsInv ==
  ASSUME MaxRunning = 1, InductiveInv, SharesInv, NEW t \in Tasks, MoveOld(t)
  PROVE  SharesInv'
  <1>1. job[t].stage = "moving" /\ ~Creates(t)
    BY DEF MoveOld, SharesInv, MovedIsSound
  <1>2. PICK j \in Jobs : /\ job' = [job EXCEPT ![t] = j]
                          /\ j.stage \in {"moving", "unpacking"} /\ j.read = job[t].read
    <2>1. CASE UNCHANGED job
      BY <1>1, <2>1, UnderWay, StaysMakes
    <2>2. CASE Goes(t, "unpacking")
      BY <1>1, <2>2, UnderWay, GoesMakes DEF Stages
    <2> QED
      BY <2>1, <2>2 DEF MoveOld
  <1>3. /\ card \in Cards /\ root \in Folders /\ kept \in [1..MaxVersions -> Folders]
        /\ staging \in [1..MaxVersions -> Folders \cup {None}]
    BY DEF SharesInv, FilesOK
  <1>4. UNCHANGED <<pc, opening, card, staging, token>>
    BY DEF MoveOld, gateVars
  <1>5. Shared
    BY <1>1, UnderWay
  <1>6. SoundFiles(root)
    BY <1>1, <1>5, SharedWhileWorking
  <1>7. /\ root' \in Folders /\ SoundFiles(root')
        /\ kept' \in [1..MaxVersions -> Folders] /\ KeptIsSound'
    <2> DEFINE n == Number(t) - 1
    <2>1. n \in 1..MaxVersions
      BY <1>1, UnderWay
    <2>2. CASE \E f \in Files : /\ kept' = [kept EXCEPT ![n][f] = root[f]]
                                /\ root' = [root EXCEPT ![f] = None]
      <3>1. PICK f \in Files : /\ kept' = [kept EXCEPT ![n][f] = root[f]]
                               /\ root' = [root EXCEPT ![f] = None]
        BY <2>2
      <3>2. root[f] \in Feeds \cup {None} /\ root[f] \in Sound \cup {None}
        BY <1>3, <1>6 DEF Folders, SoundFiles
      <3>3. root' \in Folders /\ SoundFiles(root')
        BY <1>3, <1>6, <3>1 DEF Folders, SoundFiles
      <3>4. kept' = [kept EXCEPT ![n] = [kept[n] EXCEPT ![f] = root[f]]]
        BY <3>1
      <3>5. [kept[n] EXCEPT ![f] = root[f]] \in Folders /\ SoundFiles([kept[n] EXCEPT ![f] = root[f]])
        BY <1>3, <2>1, <3>2 DEF Folders, SoundFiles, SharesInv, KeptIsSound
      <3> HIDE DEF n
      <3>6. kept' \in [1..MaxVersions -> Folders] /\ \A m \in 1..MaxVersions : SoundFiles(kept'[m])
        BY <1>3, <2>1, <3>4, <3>5 DEF SharesInv, KeptIsSound
      <3> QED
        BY <3>3, <3>6 DEF KeptIsSound, SoundFiles
    <2>3. CASE UNCHANGED <<kept, root>>
      BY <1>3, <1>6, <2>3 DEF SharesInv, KeptIsSound, SoundFiles
    <2> QED
      BY <2>2, <2>3 DEF MoveOld
  <1>8. staging[Number(t)] # None => SoundFiles(staging[Number(t)])
    BY <1>1 DEF SharesInv, MovedIsSound
  <1> QED
    BY <1>1, <1>2, <1>3, <1>4, <1>5, <1>7, <1>8, UnderWay, SharedWhileWorking, WorkKeepsInv

LEMMA MoveNewKeepsInv ==
  ASSUME MaxRunning = 1, InductiveInv, SharesInv, NEW t \in Tasks, MoveNew(t)
  PROVE  SharesInv'
  <1> DEFINE n == Number(t)
             from == staging[n]
  <1>1. job[t].stage = "unpacking" /\ ~Creates(t) /\ from # None
    BY DEF MoveNew, SharesInv, MovedIsSound
  <1>2. PICK j \in Jobs : /\ job' = [job EXCEPT ![t] = j]
                          /\ j.stage \in {"unpacking", "writing"} /\ j.read = job[t].read
    <2>1. CASE UNCHANGED job
      BY <1>1, <2>1, UnderWay, StaysMakes
    <2>2. CASE Goes(t, "writing")
      BY <1>1, <2>2, UnderWay, GoesMakes DEF Stages
    <2> QED
      BY <2>1, <2>2 DEF MoveNew
  <1>3. /\ card \in Cards /\ root \in Folders /\ kept \in [1..MaxVersions -> Folders]
        /\ staging \in [1..MaxVersions -> Folders \cup {None}]
    BY DEF SharesInv, FilesOK
  <1>4. UNCHANGED <<pc, opening, card, kept, token>>
    BY DEF MoveNew, gateVars
  <1>5. Shared
    BY <1>1, UnderWay
  <1>6. SoundFiles(root) /\ SoundFiles(from)
    BY <1>1, <1>5, SharedWhileWorking DEF SharesInv, MovedIsSound
  <1>7. n \in 1..MaxVersions /\ from \in Folders
    BY <1>1, <1>3, UnderWay
  <1>8. /\ root' \in Folders /\ SoundFiles(root')
        /\ staging' \in [1..MaxVersions -> Folders \cup {None}]
        /\ staging'[n] # None => SoundFiles(staging'[n])
    <2>1. CASE \E f \in Files : /\ root' = [root EXCEPT ![f] = from[f]]
                                /\ staging' = [staging EXCEPT ![n][f] = None]
      <3>1. PICK f \in Files : /\ root' = [root EXCEPT ![f] = from[f]]
                               /\ staging' = [staging EXCEPT ![n][f] = None]
        BY <2>1
      <3>2. from[f] \in Feeds \cup {None} /\ from[f] \in Sound \cup {None}
        BY <1>6, <1>7 DEF Folders, SoundFiles
      <3>3. [from EXCEPT ![f] = None] \in Folders /\ SoundFiles([from EXCEPT ![f] = None])
        BY <1>6, <1>7 DEF Folders, SoundFiles
      <3>4. staging' = [staging EXCEPT ![n] = [from EXCEPT ![f] = None]]
        BY <3>1
      <3>5. root' \in Folders /\ SoundFiles(root')
        BY <1>3, <1>6, <3>1, <3>2 DEF Folders, SoundFiles
      <3> HIDE DEF n, from
      <3> QED
        BY <1>3, <1>7, <3>3, <3>4, <3>5
    <2>2. CASE root' = root /\ staging' = [staging EXCEPT ![n] = None]
      <3> HIDE DEF n, from
      <3> QED
        BY <1>3, <1>6, <1>7, <2>2
    <2> QED
      BY <2>1, <2>2 DEF MoveNew
  <1>9. KeptIsSound'
    BY <1>4 DEF SharesInv, KeptIsSound, SoundFiles
  <1> QED
    BY <1>1, <1>2, <1>3, <1>4, <1>5, <1>8, <1>9, UnderWay, SharedWhileWorking, WorkKeepsInv

LEMMA WriteStartsKeepsInv ==
  ASSUME MaxRunning = 1, InductiveInv, SharesInv, NEW t \in Tasks, WriteStarts(t)
  PROVE  SharesInv'
  <1>1. job[t].stage = "writing"
    BY DEF WriteStarts
  <1>2. PICK j \in Jobs : job' = [job EXCEPT ![t] = j] /\ j.stage = "torn" /\ j.read = job[t].read
    BY <1>1, UnderWay, GoesMakes DEF WriteStarts, Stages
  <1>3. /\ root \in Folders /\ kept \in [1..MaxVersions -> Folders]
        /\ staging \in [1..MaxVersions -> Folders \cup {None}]
    BY DEF SharesInv, FilesOK
  <1>4. card' = <<>> /\ <<>> \in Cards
    BY SharesAssumption DEF WriteStarts, Cards
  <1>5. UNCHANGED <<pc, opening, root, kept, staging, token>>
    BY DEF WriteStarts, gateVars
  <1>6. Creates(t) => Creating(t)
    BY <1>1 DEF Creating
  <1>7. KeptIsSound' /\ (SoundFiles(root) <=> SoundFiles(root'))
    BY <1>5 DEF SharesInv, KeptIsSound, SoundFiles
  <1> QED
    BY <1>1, <1>2, <1>3, <1>4, <1>5, <1>6, <1>7, UnderWay, SharedWhileWorking, WorkKeepsInv

LEMMA WriteEndsKeepsInv ==
  ASSUME MaxRunning = 1, InductiveInv, SharesInv, NEW t \in Tasks, WriteEnds(t)
  PROVE  SharesInv'
  <1>1. job[t].stage = "torn"
    BY DEF WriteEnds
  <1>2. PICK j \in Jobs : job' = [job EXCEPT ![t] = j] /\ j.stage = "done" /\ j.read = job[t].read
    BY <1>1, UnderWay, GoesMakes DEF WriteEnds, Stages
  <1>3. /\ root \in Folders /\ kept \in [1..MaxVersions -> Folders]
        /\ staging \in [1..MaxVersions -> Folders \cup {None}]
    BY DEF SharesInv, FilesOK
  <1>4. card' \in Cards
    <2>1. <<>> \in Cards
      BY SharesAssumption DEF Cards
    <2>2. job[t].read \in Seq(Folders) /\ job[t].content \in Folders
      BY <1>1, UnderWay DEF Jobs, Cards
    <2>3. /\ Append(job[t].read, job[t].content) \in Seq(Folders)
          /\ Len(Append(job[t].read, job[t].content)) = Len(job[t].read) + 1
      BY <2>2, AppendProperties
    <2> QED
      BY <1>1, <2>1, <2>3, UnderWay DEF WriteEnds, Cards
  <1>5. UNCHANGED <<pc, opening, root, kept, staging, token>>
    BY DEF WriteEnds, gateVars
  <1>6. Creates(t) => Creating(t)
    BY <1>1 DEF Creating
  <1>7. KeptIsSound' /\ (SoundFiles(root) <=> SoundFiles(root'))
    BY <1>5 DEF SharesInv, KeptIsSound, SoundFiles
  <1>8. SoundFiles(root) /\ token
    BY <1>1, <1>6, UnderWay, SharedWhileWorking
  <1> QED
    BY <1>1, <1>2, <1>3, <1>4, <1>5, <1>7, <1>8, UnderWay, WorkKeepsInv

LEMMA StartKeepsInv ==
  ASSUME MaxRunning = 1, InductiveInv, SharesInv, NEW t \in Tasks, Start(t)
  PROVE  SharesInv'
  <1>1. pc[t] = "computing" /\ job[t].stage = "none" /\ job[t].read = <<>>
    BY DEF Start, SharesInv, JobsCompute
  <1>2. \A u \in Tasks : u # t => job[u].stage = "none" /\ job[u].read = <<>>
    BY <1>1, OthersAreIdle DEF SharesInv
  <1>3. /\ job \in [Tasks -> Jobs] /\ card \in Cards /\ root \in Folders
        /\ kept \in [1..MaxVersions -> Folders]
        /\ staging \in [1..MaxVersions -> Folders \cup {None}]
        /\ <<>> \in Cards /\ Len(job[t].read) + 1 <= MaxVersions
    BY <1>1, SharesAssumption DEF SharesInv, FilesOK, Jobs, Cards, Number
  <1>4. UNCHANGED <<pc, opening, card, root, kept, staging>>
    BY DEF Start, gateVars
  <1>5. Shared <=> (card # <<>> \/ \E o \in Visitors : opening[o] # <<>>)
    BY <1>1, <1>2 DEF Shared
  <1>6. Shared => SoundFiles(root) /\ token
    BY DEF SharesInv, SharedIsSound
  <1>7. KeptIsSound' /\ (SoundFiles(root) <=> SoundFiles(root'))
    BY <1>4 DEF SharesInv, KeptIsSound, SoundFiles
  <1>8. CASE ~token /\ owner /\ token' = TRUE /\ Goes(t, "mkdir")
    <2>1. PICK j \in Jobs : job' = [job EXCEPT ![t] = j] /\ j.stage = "mkdir" /\ j.read = <<>>
      BY <1>1, <1>3, <1>8, GoesMakes DEF Stages
    <2>2. Len(j.read) + 1 <= MaxVersions
      BY <1>1, <1>3, <2>1
    <2> QED
      BY <1>1, <1>2, <1>3, <1>4, <1>5, <1>6, <1>7, <1>8, <2>1, <2>2, WorkKeepsInv
  <1>9. CASE /\ card # <<>> /\ ~expired /\ Len(card) < MaxVersions
             /\ job' = [job EXCEPT ![t] = [stage |-> "mkdir", read |-> card, content |-> Empty]]
             /\ UNCHANGED token
    <2> DEFINE j == [stage |-> "mkdir", read |-> card, content |-> Empty]
    <2>1. job' = [job EXCEPT ![t] = j]
      BY <1>9
    <2>2. j \in Jobs
      BY <1>3, EmptyIsSound DEF Jobs, Stages
    <2>3. Len(card) + 1 <= MaxVersions
      <3>1. Len(card) \in Nat
        BY <1>3, LenProperties DEF Cards
      <3> QED
        BY <1>9, <3>1, SharesAssumption
    <2>4. j.stage = "mkdir" /\ j.read = card
      OBVIOUS
    <2> HIDE DEF j
    <2> QED
      BY <1>1, <1>2, <1>3, <1>4, <1>5, <1>6, <1>7, <1>9, <2>1, <2>2, <2>3, <2>4, WorkKeepsInv
  <1>10. CASE Goes(t, "done") /\ UNCHANGED token
    <2>1. PICK j \in Jobs : job' = [job EXCEPT ![t] = j] /\ j.stage = "done" /\ j.read = <<>>
      BY <1>1, <1>3, <1>10, GoesMakes DEF Stages
    <2>2. Len(j.read) + 1 <= MaxVersions
      BY <1>1, <1>3, <2>1
    <2> QED
      BY <1>1, <1>2, <1>3, <1>4, <1>5, <1>6, <1>7, <1>10, <2>1, <2>2, WorkKeepsInv
  <1> QED
    BY <1>8, <1>9, <1>10 DEF Start

\* A step after which no job is under way.
LEMMA RestKeepsInv ==
  ASSUME SharesInv, job' \in [Tasks -> Jobs],
         \A u \in Tasks : job'[u].stage = "none" /\ job'[u].read = <<>>,
         UNCHANGED <<card, root, kept, staging, token>>,
         opening' \in [Visitors -> Cards],
         (\E o \in Visitors : opening'[o] # <<>>) => \E o \in Visitors : opening[o] # <<>>
  PROVE  SharesInv'
  <1>1. \A u \in Tasks : Number(u)' <= MaxVersions
    BY SharesAssumption DEF Number
  <1>2. FilesOK'
    BY <1>1 DEF SharesInv, FilesOK, Jobs
  <1>3. JobsCompute'
    BY DEF JobsCompute
  <1>4. \A u \in Tasks : ~Creating(u)'
    BY DEF Creating
  <1>5. Shared' => SoundFiles(root') /\ token'
    <2>1. Shared' => Shared
      BY DEF Shared
    <2> QED
      BY <2>1 DEF SharesInv, SharedIsSound
  <1>6. SharedIsSound'
    BY <1>4, <1>5 DEF SharedIsSound, SoundFiles
  <1>7. KeptIsSound'
    BY DEF SharesInv, KeptIsSound, SoundFiles
  <1>8. MovedIsSound'
    BY DEF MovedIsSound
  <1> QED
    BY <1>2, <1>3, <1>6, <1>7, <1>8 DEF SharesInv

LEMMA IdleIsAJob == Idle \in Jobs /\ Idle.stage = "none" /\ Idle.read = <<>>
  BY EmptyIsSound, SharesAssumption DEF Idle, Jobs, Stages, Cards

LEMMA FinishKeepsInv ==
  ASSUME MaxRunning = 1, InductiveInv, SharesInv, NEW t \in Tasks, Finish(t)
  PROVE  SharesInv'
  <1>1. job[t].stage = "done" /\ job' = [job EXCEPT ![t] = Idle]
        /\ UNCHANGED <<card, root, kept, staging, token, opening>>
    BY DEF Finish
  <1>2. job' \in [Tasks -> Jobs] /\ \A u \in Tasks : job'[u].stage = "none" /\ job'[u].read = <<>>
    <2>1. job'[t] = Idle /\ \A u \in Tasks : u # t => job'[u] = job[u]
      BY <1>1, UnderWay
    <2> QED
      BY <1>1, <2>1, UnderWay, IdleIsAJob
  <1> QED
    BY <1>1, <1>2, RestKeepsInv DEF SharesInv, FilesOK

LEMMA StopKeepsInv == SharesInv /\ Stop => SharesInv'
  <1> SUFFICES ASSUME SharesInv, Stop PROVE SharesInv'
    OBVIOUS
  <1>1. job' \in [Tasks -> Jobs] /\ \A u \in Tasks : job'[u].stage = "none" /\ job'[u].read = <<>>
    BY IdleIsAJob DEF Stop
  <1>2. opening' \in [Visitors -> Cards] /\ \A o \in Visitors : opening'[o] = <<>>
    BY SharesAssumption DEF Stop, Cards
  <1>3. UNCHANGED <<card, root, kept, staging, token>>
    BY DEF Stop
  <1> QED
    BY <1>1, <1>2, <1>3, RestKeepsInv

-----------------------------------------------------------------------------
(* The steps beside. *)

LEMMA GateStepsKeepInv ==
  ASSUME InductiveInv, SharesInv, GateSteps, UNCHANGED shareVars
  PROVE  SharesInv'
  <1>1. pc \in [Tasks -> States]
    BY DEF InductiveInv, TypeOK
  <1>2. \A t \in Tasks : pc[t] = "computing" => pc'[t] = "computing"
    <2>1. ASSUME NEW u \in Tasks, Acquire(u) \/ Forget(u), NEW t \in Tasks, pc[t] = "computing"
          PROVE  pc'[t] = "computing"
      BY <1>1, <2>1 DEF Acquire, Forget
    <2>2. ASSUME NEW i \in DOMAIN queue, Timeout(i), NEW t \in Tasks, pc[t] = "computing"
          PROVE  pc'[t] = "computing"
      BY <1>1, <2>2 DEF Timeout, InductiveInv, QueueIsExact
    <2> QED
      BY <2>1, <2>2 DEF GateSteps
  <1>3. Shared' => Shared
    BY DEF Shared, shareVars
  <1> QED
    BY <1>2, <1>3, BesideKeepsInv DEF SharesInv, FilesOK, shareVars

LEMMA RemovalKeepsInv ==
  ASSUME SharesInv, UNCHANGED <<pc, job, token, opening>>,
         Removed \/ UNCHANGED <<card, root, kept, staging>>
  PROVE  SharesInv'
  <1>1. /\ card \in Cards /\ root \in Folders /\ kept \in [1..MaxVersions -> Folders]
        /\ staging \in [1..MaxVersions -> Folders \cup {None}]
        /\ opening \in [Visitors -> Cards]
    BY DEF SharesInv, FilesOK
  <1>2. <<>> \in Cards
    BY SharesAssumption DEF Cards
  <1>3. Shared' => Shared
    BY DEF Shared, Removed
  <1> QED
    BY <1>1, <1>2, <1>3, EmptyIsSound, BesideKeepsInv DEF Removed

LEMMA OpeningKeepsInv ==
  ASSUME SharesInv, NEW o \in Visitors, OpenStarts(o) \/ OpenEnds(o)
  PROVE  SharesInv'
  <1>1. /\ card \in Cards /\ root \in Folders /\ kept \in [1..MaxVersions -> Folders]
        /\ staging \in [1..MaxVersions -> Folders \cup {None}]
        /\ opening \in [Visitors -> Cards]
    BY DEF SharesInv, FilesOK
  <1>2. <<>> \in Cards
    BY SharesAssumption DEF Cards
  <1>3. card' \in Cards /\ opening' \in [Visitors -> Cards]
    BY <1>1, <1>2 DEF OpenStarts, OpenEnds
  <1>4. UNCHANGED <<pc, job, token, root, kept, staging>>
    BY DEF OpenStarts, OpenEnds, gateVars
  <1>5. Shared' => Shared
    BY <1>1 DEF Shared, OpenStarts, OpenEnds
  <1> QED
    BY <1>1, <1>3, <1>4, <1>5, BesideKeepsInv

LEMMA SharesInitKeepsInv == SharesInit => SharesInv
  <1> SUFFICES ASSUME SharesInit PROVE SharesInv
    OBVIOUS
  <1>1. job \in [Tasks -> Jobs] /\ \A t \in Tasks : job[t].stage = "none" /\ job[t].read = <<>>
    BY IdleIsAJob DEF SharesInit
  <1>2. <<>> \in Cards
    BY SharesAssumption DEF Cards
  <1>3. FilesOK
    BY <1>1, <1>2, EmptyIsSound, SharesAssumption DEF FilesOK, SharesInit, Number, Jobs
  <1>4. JobsCompute /\ MovedIsSound
    BY <1>1 DEF JobsCompute, MovedIsSound
  <1>5. ~Shared /\ \A t \in Tasks : ~Creating(t)
    BY <1>1 DEF SharesInit, Shared, Creating
  <1>6. SharedIsSound /\ KeptIsSound
    BY <1>5, EmptyIsSound DEF SharedIsSound, KeptIsSound, SharesInit
  <1> QED
    BY <1>3, <1>4, <1>6 DEF SharesInv

LEMMA SharesNextKeepsInv ==
  ASSUME MaxRunning = 1, InductiveInv, SharesInv, [SharesNext]_<<gateVars, shareVars>>
  PROVE  SharesInv'
  <1>1. CASE GateSteps /\ UNCHANGED shareVars
    BY <1>1, GateStepsKeepInv
  <1>2. ASSUME NEW t \in Tasks, Works(t) PROVE SharesInv'
    BY <1>2, StartKeepsInv, MakeFolderKeepsInv, SnapshotKeepsInv, ValidatedKeepsInv,
       RefusedKeepsInv, MoveOldKeepsInv, MoveNewKeepsInv, WriteStartsKeepsInv,
       WriteEndsKeepsInv, FinishKeepsInv DEF Works
  <1>3. ASSUME NEW o \in Visitors, OpenStarts(o) \/ OpenEnds(o) PROVE SharesInv'
    BY <1>3, OpeningKeepsInv
  <1>4. CASE Expire \/ Sweep \/ DeleteAccount
    BY <1>4, RemovalKeepsInv DEF Expire, Sweep, DeleteAccount, gateVars
  <1>5. CASE Stop
    BY <1>5, StopKeepsInv
  <1>6. CASE UNCHANGED <<gateVars, shareVars>>
    BY <1>6, RemovalKeepsInv DEF gateVars, shareVars
  <1> QED
    BY <1>1, <1>2, <1>3, <1>4, <1>5, <1>6 DEF SharesNext

(* Behind a gate of one slot, every file a link serves, of the current version or of a
   former one, was let through by the validator: whatever renames failed midway, whatever
   stopped, and with openings, sweeps and the account's deletion beside a publication. *)
THEOREM LinksServeWhatPassed ==
  ASSUME MaxRunning = 1
  PROVE  SharesSpec => []ServedIsValidated
  <1>1. SharesInv /\ InductiveInv /\ [SharesNext]_<<gateVars, shareVars>> => SharesInv'
    BY SharesNextKeepsInv
  <1>2. SharesSpec => []InductiveInv
    BY SharesLeaveTheGateAlone, GateKeepsInductiveInv, PTL
  <1>3. SharesInv => ServedIsValidated
    BY DEF SharesInv, SharedIsSound, KeptIsSound, Shared, SoundFiles, ServedIsValidated
  <1> QED
    BY <1>1, <1>2, <1>3, SharesInitKeepsInv, PTL DEF SharesSpec

-----------------------------------------------------------------------------
(* What each version's card is about, when nothing else touches a share that a *)
(* publication works on and no publication was cut in its renames.             *)

\* Every file of the feed is there.
HasAll(d) == \A f \in Files : d[f] # None

\* The folder holds what card c says.
Matches(c) ==
  /\ \A m \in 1..(Len(c) - 1) : kept[m] = c[m]
  /\ root = c[Len(c)]

Moving(j) == j.read # <<>> /\ j.stage \in {"moving", "unpacking", "writing"}

\* Where the files are that job j moves: those of the version that goes at the root
\* or under its number, those of the one that comes in the staging folder or at the root.
CreationMatches(j) ==
  j.read = <<>> /\ j.stage \in {"writing", "torn"} => (folder => root = j.content)

PublicationMatches(j) ==
  /\ j.stage \in {"mkdir", "copying", "validating", "moving", "unpacking", "writing"} =>
       card = j.read /\ ~expired
  /\ j.stage \in {"moving", "unpacking", "writing", "torn"} =>
       \A m \in 1..(Len(j.read) - 1) : kept[m] = j.read[m]
  /\ j.stage = "moving" =>
       /\ staging[Len(j.read) + 1] = j.content
       /\ \A f \in Files : IF root[f] # None THEN root[f] = j.read[Len(j.read)][f]
                           ELSE kept[Len(j.read)][f] = j.read[Len(j.read)][f]
  /\ j.stage \in {"unpacking", "writing", "torn"} => kept[Len(j.read)] = j.read[Len(j.read)]
  /\ j.stage = "unpacking" =>
       \A f \in Files : IF staging[Len(j.read) + 1][f] # None
                          THEN staging[Len(j.read) + 1][f] = j.content[f]
                        ELSE root[f] = j.content[f]
  /\ j.stage \in {"writing", "torn"} => root = j.content

JobMatches(j) ==
  /\ CreationMatches(j)
  /\ j.read # <<>> => PublicationMatches(j)
  /\ j.stage \in {"moving", "unpacking", "writing", "torn"} => HasAll(j.content)
  /\ \A m \in 1..Len(j.read) : HasAll(j.read[m])

CardMatches ==
  /\ \A m \in 1..Len(card) : HasAll(card[m])
  /\ (card # <<>> /\ \A t \in Tasks : ~Moving(job[t])) => Matches(card)
  /\ \A o \in Visitors : opening[o] # <<>> =>
       (folder => card = opening[o]) /\ \A t \in Tasks : job[t].stage = "none"
  /\ \A t \in Tasks : JobMatches(job[t])

VersionsInv == ~cut => CardMatches

\* A job that is not there has nothing to match.
LEMMA NoJobMatches ==
  ASSUME NEW j, j.stage = "none", j.read = <<>>
  PROVE  JobMatches(j) /\ JobMatches(j)' /\ ~Moving(j)
  BY DEF JobMatches, CreationMatches, PublicationMatches, Moving

\* A step of the job under way, which becomes j.
LEMMA WorkKeepsMatch ==
  ASSUME job \in [Tasks -> Jobs], NEW t \in Tasks,
         \A u \in Tasks : u # t => job[u].stage = "none" /\ job[u].read = <<>>,
         \A o \in Visitors : opening'[o] = <<>>,
         NEW j \in Jobs, job' = [job EXCEPT ![t] = j],
         \A m \in 1..Len(card') : HasAll(card'[m]),
         (card' # <<>> /\ ~Moving(j)) => Matches(card)',
         JobMatches(j)'
  PROVE  CardMatches'
  <1>1. job'[t] = j /\ \A u \in Tasks : u # t => job'[u] = job[u]
    OBVIOUS
  <1>2. \A u \in Tasks : u # t => job'[u].stage = "none" /\ job'[u].read = <<>>
    BY <1>1
  <1>3. \A u \in Tasks : JobMatches(job[u])'
    <2> SUFFICES ASSUME NEW u \in Tasks PROVE JobMatches(job[u])'
      OBVIOUS
    <2>1. CASE u = t
      BY <1>1, <2>1 DEF JobMatches, CreationMatches, PublicationMatches
    <2>2. CASE u # t
      BY <1>2, <2>2 DEF JobMatches, CreationMatches, PublicationMatches
    <2> QED
      BY <2>1, <2>2
  <1>4. (\A u \in Tasks : ~Moving(job'[u])) => ~Moving(j)
    BY <1>1
  <1>5. (\A m \in 1..Len(card) : HasAll(card[m]))'
    BY DEF HasAll
  <1>6. (card # <<>> /\ \A u \in Tasks : ~Moving(job[u]))' => Matches(card)'
    BY <1>4 DEF Moving
  <1>7. (\A o \in Visitors : opening[o] # <<>> =>
           (folder => card = opening[o]) /\ \A u \in Tasks : job[u].stage = "none")'
    OBVIOUS
  <1> QED
    BY <1>3, <1>5, <1>6, <1>7 DEF CardMatches

\* A step between two renames: the job under way stays as it is.
LEMMA MatchesUnderWay ==
  ASSUME NEW t \in Tasks, job' = job, Moving(job[t]),
         \A u \in Tasks : u # t => job[u].stage = "none" /\ job[u].read = <<>>,
         \A o \in Visitors : opening'[o] = <<>>,
         \A m \in 1..Len(card') : HasAll(card'[m]),
         JobMatches(job[t])'
  PROVE  CardMatches'
  <1>1. \A u \in Tasks : JobMatches(job[u])'
    <2> SUFFICES ASSUME NEW u \in Tasks, u # t PROVE JobMatches(job[u])'
      OBVIOUS
    <2>1. job'[u].stage = "none" /\ job'[u].read = <<>>
      OBVIOUS
    <2> QED
      BY <2>1 DEF JobMatches, CreationMatches, PublicationMatches
  <1>2. Moving(job[t])'
    BY DEF Moving
  <1>3. (\A m \in 1..Len(card) : HasAll(card[m]))'
    BY DEF HasAll
  <1> QED
    BY <1>1, <1>2, <1>3 DEF CardMatches

\* What CardMatches says of the job under way.
LEMMA WorkMatches ==
  ASSUME MaxRunning = 1, InductiveInv, SharesInv, CardMatches, NEW t \in Tasks, job[t].stage # "none"
  PROVE  /\ JobMatches(job[t])
         /\ \A o \in Visitors : opening[o] = <<>>
         /\ card # <<>> /\ ~Moving(job[t]) => Matches(card)
         /\ \A m \in 1..Len(card) : HasAll(card[m])
         /\ job \in [Tasks -> Jobs] /\ job[t] \in Jobs
         /\ \A u \in Tasks : u # t => job[u].stage = "none" /\ job[u].read = <<>>
         /\ job[t].read \in Seq(Folders) /\ job[t].content \in Folders
         /\ Len(job[t].read) \in Nat /\ Number(t) = Len(job[t].read) + 1 /\ Number(t) \in 1..MaxVersions
         /\ job[t].read # <<>> => Len(job[t].read) \in 1..MaxVersions
         /\ Creates(t) <=> job[t].read = <<>>
  <1>1. \A u \in Tasks : u # t => ~Moving(job[u])
    BY UnderWay DEF Moving
  <1>2. job[t] \in Jobs
    BY UnderWay
  <1>3. job[t].read \in Seq(Folders) /\ job[t].content \in Folders
    BY <1>2 DEF Jobs, Cards
  <1>4. Len(job[t].read) \in Nat
    BY <1>3, LenProperties
  <1>5. job[t].read # <<>> => Len(job[t].read) \in 1..MaxVersions
    <2>1. MaxVersions \in Nat
      BY SharesAssumption
    <2>2. job[t].read # <<>> => Number(t) - 1 \in 1..MaxVersions
      BY UnderWay
    <2>3. Number(t) - 1 = Len(job[t].read)
      BY <1>4 DEF Number
    <2> QED
      BY <2>2, <2>3
  <1>6. card # <<>> /\ ~Moving(job[t]) => Matches(card)
    BY <1>1 DEF CardMatches
  <1>7. /\ JobMatches(job[t]) /\ \A m \in 1..Len(card) : HasAll(card[m])
        /\ \A o \in Visitors : opening[o] = <<>>
    BY DEF CardMatches
  <1> QED
    BY <1>2, <1>3, <1>4, <1>5, <1>6, <1>7, UnderWay

\* The record a change of stage makes, with its content.
LEMMA GoesMakesAll ==
  ASSUME job \in [Tasks -> Jobs], NEW t \in Tasks, NEW s \in Stages, Goes(t, s)
  PROVE  \E j \in Jobs : /\ job' = [job EXCEPT ![t] = j]
                         /\ j.stage = s /\ j.read = job[t].read /\ j.content = job[t].content
  <1> DEFINE j == [stage |-> s, read |-> job[t].read, content |-> job[t].content]
  <1>1. job[t] \in Jobs
    OBVIOUS
  <1>2. [job[t] EXCEPT !.stage = s] = j
    BY <1>1 DEF Jobs
  <1>3. job' = [job EXCEPT ![t] = [job[t] EXCEPT !.stage = s]]
    BY DEF Goes
  <1>4. j \in Jobs
    BY <1>1 DEF Jobs
  <1> QED
    BY <1>2, <1>3, <1>4

LEMMA StartKeepsMatch ==
  ASSUME MaxRunning = 1, Apart = TRUE, InductiveInv, SharesInv, CardMatches, NEW t \in Tasks, Start(t)
  PROVE  CardMatches'
  <1>1. pc[t] = "computing" /\ job[t].stage = "none" /\ job[t].read = <<>>
    BY DEF Start, SharesInv, JobsCompute
  <1>2. \A u \in Tasks : u # t => job[u].stage = "none" /\ job[u].read = <<>>
    BY <1>1, OthersAreIdle DEF SharesInv
  <1>3. job \in [Tasks -> Jobs] /\ card \in Cards
    BY DEF SharesInv, FilesOK, Jobs
  <1>4. UNCHANGED <<card, root, kept, staging, folder, opening, expired>> /\ \A o \in Visitors : opening[o] = <<>>
    BY DEF Start
  <1>5. card # <<>> => Matches(card)
    BY <1>1, <1>2 DEF CardMatches, Moving
  <1>6. (card # <<>> => Matches(card)') /\ \A m \in 1..Len(card') : HasAll(card'[m])
    BY <1>4, <1>5 DEF Matches, CardMatches
  <1>7. ASSUME NEW s \in {"mkdir", "done"}, Goes(t, s) PROVE CardMatches'
    <2>1. PICK j \in Jobs : job' = [job EXCEPT ![t] = j] /\ j.stage = s /\ j.read = <<>>
      BY <1>1, <1>3, <1>7, GoesMakes DEF Stages
    <2>2. JobMatches(j)'
      BY <1>7, <2>1 DEF JobMatches, CreationMatches
    <2> QED
      BY <1>2, <1>3, <1>4, <1>6, <2>1, <2>2, WorkKeepsMatch
  <1>8. CASE /\ card # <<>> /\ ~expired
             /\ job' = [job EXCEPT ![t] = [stage |-> "mkdir", read |-> card, content |-> Empty]]
    <2>1. PICK j \in Jobs : job' = [job EXCEPT ![t] = j] /\ j.stage = "mkdir" /\ j.read = card
      <3>1. [stage |-> "mkdir", read |-> card, content |-> Empty] \in Jobs
        BY <1>3, EmptyIsSound DEF Jobs, Stages
      <3> QED
        BY <1>8, <3>1
    <2>2. JobMatches(j)'
      BY <1>4, <1>6, <1>8, <2>1 DEF JobMatches, CreationMatches, PublicationMatches
    <2> QED
      BY <1>2, <1>3, <1>4, <1>6, <2>1, <2>2, WorkKeepsMatch
  <1> QED
    BY <1>7, <1>8 DEF Start

LEMMA SnapshotKeepsMatch ==
  ASSUME MaxRunning = 1, InductiveInv, SharesInv, CardMatches, NEW t \in Tasks, MakeFolder(t) \/ Snapshot(t)
  PROVE  CardMatches'
  <1>1. job[t].stage \in {"mkdir", "copying"}
    BY DEF MakeFolder, Snapshot
  <1>2. PICK j \in Jobs : /\ job' = [job EXCEPT ![t] = j]
                          /\ j.stage \in {"copying", "validating"} /\ j.read = job[t].read
    BY <1>1, UnderWay, GoesMakes DEF MakeFolder, Snapshot, Stages
  <1>3. /\ UNCHANGED <<card, kept, opening, expired>>
        /\ job[t].read # <<>> => root' = root
    BY <1>1, UnderWay DEF MakeFolder, Snapshot
  <1>4. job[t].read = <<>> => card = <<>>
    BY <1>1, UnderWay, SharedWhileWorking DEF Creating
  <1>5. card # <<>> => Matches(card)'
    BY <1>1, <1>3, <1>4, WorkMatches DEF Matches, Moving
  <1>6. JobMatches(j)'
    BY <1>1, <1>2, <1>3, WorkMatches DEF JobMatches, CreationMatches, PublicationMatches
  <1>7. \A m \in 1..Len(card') : HasAll(card'[m])
    BY <1>1, <1>3, WorkMatches
  <1>8. \A o \in Visitors : opening'[o] = <<>>
    BY <1>1, <1>3, WorkMatches
  <1> QED
    BY <1>1, <1>2, <1>3, <1>5, <1>6, <1>7, <1>8, UnderWay, WorkKeepsMatch

LEMMA ValidatedKeepsMatch ==
  ASSUME MaxRunning = 1, InductiveInv, SharesInv, CardMatches, NEW t \in Tasks, Validated(t)
  PROVE  CardMatches'
  <1>1. job[t].stage = "validating"
    BY DEF Validated
  <1>2. root \in Folders /\ staging \in [1..MaxVersions -> Folders \cup {None}]
    BY DEF SharesInv, FilesOK
  <1>3. Snapshotted(t) \in Folders /\ HasAll(Snapshotted(t))
    BY <1>1, <1>2, UnderWay, SharesAssumption DEF Validated, Snapshotted, Passes, HasAll
  <1>4. PICK j \in Jobs : /\ job' = [job EXCEPT ![t] = j]
                          /\ j.read = job[t].read /\ j.content = Snapshotted(t)
                          /\ j.stage = IF job[t].read = <<>> THEN "writing" ELSE "moving"
    <2> DEFINE s == IF Creates(t) THEN "writing" ELSE "moving"
               i == [stage |-> s, read |-> job[t].read, content |-> Snapshotted(t)]
    <2>1. i \in Jobs
      BY <1>1, <1>3, UnderWay DEF Jobs, Stages
    <2>2. job' = [job EXCEPT ![t] = i]
      BY DEF Validated
    <2>3. s = IF job[t].read = <<>> THEN "writing" ELSE "moving"
      BY DEF Creates
    <2>4. i.read = job[t].read /\ i.content = Snapshotted(t) /\ i.stage = s
      OBVIOUS
    <2> HIDE DEF i, s
    <2> QED
      BY <2>1, <2>2, <2>3, <2>4
  <1>6. UNCHANGED <<opening, card, root, kept, staging, folder, expired>>
    BY DEF Validated
  <1>7. job[t].read = <<>> => card = <<>>
    BY <1>1, UnderWay, SharedWhileWorking DEF Creating
  <1>8. card' # <<>> => Matches(card)
    BY <1>1, <1>6, WorkMatches DEF Moving
  <1>9. job[t].read = <<>> => JobMatches(j)'
    BY <1>1, <1>3, <1>4, <1>6, WorkMatches DEF Snapshotted, JobMatches, CreationMatches
  <1>10. job[t].read # <<>> => JobMatches(j)'
    <2> SUFFICES ASSUME job[t].read # <<>> PROVE JobMatches(j)'
      OBVIOUS
    <2>1. card = job[t].read /\ ~expired
      BY <1>1, WorkMatches DEF JobMatches, PublicationMatches
    <2>2. /\ \A m \in 1..(Len(job[t].read) - 1) : kept[m] = job[t].read[m]
          /\ root = job[t].read[Len(job[t].read)]
      BY <1>6, <1>8, <2>1 DEF Matches
    <2>3. HasAll(root)
      BY <1>1, <2>1, <2>2, WorkMatches
    <2>4. staging[Len(job[t].read) + 1] = j.content
      BY <1>1, <1>4, WorkMatches DEF Snapshotted
    <2>5. \A m \in 1..Len(job[t].read) : HasAll(job[t].read[m])
      BY <1>1, WorkMatches DEF JobMatches
    <2> QED
      BY <1>3, <1>4, <1>6, <2>1, <2>2, <2>3, <2>4, <2>5
         DEF JobMatches, CreationMatches, PublicationMatches, HasAll
  <1>11. card' # <<>> => Matches(card)'
    BY <1>6, <1>8 DEF Matches
  <1>12. (\A m \in 1..Len(card') : HasAll(card'[m])) /\ \A o \in Visitors : opening'[o] = <<>>
    BY <1>1, <1>6, WorkMatches
  <1> QED
    BY <1>1, <1>4, <1>9, <1>10, <1>11, <1>12, UnderWay, WorkKeepsMatch

\* A refusal, or a card that finds no folder: a creation goes whole, a publication
\* leaves the share as it was.
LEMMA RefusedKeepsMatch ==
  ASSUME MaxRunning = 1, InductiveInv, SharesInv, CardMatches, NEW t \in Tasks, Fails(t),
         job[t].stage \in {"copying", "validating"} \/ (job[t].stage = "writing" /\ Creates(t))
  PROVE  CardMatches'
  <1>1. PICK j \in Jobs : job' = [job EXCEPT ![t] = j] /\ j.stage = "done" /\ j.read = job[t].read
    BY UnderWay, GoesMakes DEF Fails, Stages
  <1>2. \A o \in Visitors : opening'[o] = <<>>
    BY WorkMatches DEF Fails
  <1>3. JobMatches(j)'
    BY <1>1, WorkMatches DEF JobMatches, CreationMatches, PublicationMatches
  <1>4. CASE Creates(t) /\ Removed
    <2>1. card' = <<>>
      BY <1>4 DEF Removed
    <2>2. \A m \in 1..Len(card') : HasAll(card'[m])
      BY <2>1
    <2> QED
      BY <1>1, <1>2, <1>3, <2>1, <2>2, UnderWay, WorkKeepsMatch
  <1>5. CASE ~Creates(t) /\ UNCHANGED <<card, folder, root, kept, expired>>
    <2>1. card # <<>> => Matches(card)'
      BY <1>5, WorkMatches DEF Matches, Moving
    <2>2. \A m \in 1..Len(card') : HasAll(card'[m])
      BY <1>5, WorkMatches
    <2> QED
      BY <1>1, <1>2, <1>3, <1>5, <2>1, <2>2, UnderWay, WorkKeepsMatch
  <1> QED
    BY <1>4, <1>5 DEF Fails

\* While the files of the version that goes are moved each is at the root or under its
\* number; when none is at the root they are all there.
LEMMA MoveOldKeepsMatch ==
  ASSUME MaxRunning = 1, InductiveInv, SharesInv, CardMatches, NEW t \in Tasks, MoveOld(t)
  PROVE  CardMatches'
  <1> DEFINE r == job[t].read
             n == Len(job[t].read)
  <1>1. job[t].stage = "moving" /\ r # <<>>
    BY DEF MoveOld, SharesInv, MovedIsSound, Creates
  <1>2. n \in 1..MaxVersions /\ n \in Nat /\ Number(t) - 1 = n /\ r \in Seq(Folders)
    BY <1>1, WorkMatches
  <1>3. /\ \A o \in Visitors : opening'[o] = <<>>
        /\ \A m \in 1..Len(card') : HasAll(card'[m])
        /\ UNCHANGED <<card, staging, expired>>
    BY <1>1, WorkMatches DEF MoveOld
  <1>4. JobMatches(job[t]) /\ PublicationMatches(job[t])
    BY <1>1, WorkMatches DEF JobMatches
  <1>5. root \in Folders /\ kept \in [1..MaxVersions -> Folders]
    BY DEF SharesInv, FilesOK
  <1>6. CASE UNCHANGED job /\ \E f \in Files : /\ root[f] # None
                                               /\ kept' = [kept EXCEPT ![n][f] = root[f]]
                                               /\ root' = [root EXCEPT ![f] = None]
    <2>1. PICK f \in Files : /\ root[f] # None
                             /\ kept' = [kept EXCEPT ![n][f] = root[f]]
                             /\ root' = [root EXCEPT ![f] = None]
      BY <1>6
    <2>3. Moving(job[t])
      BY <1>1 DEF Moving
    <2>4. kept' = [kept EXCEPT ![n] = [kept[n] EXCEPT ![f] = root[f]]]
      BY <2>1
    <2> HIDE DEF n
    <2>5. kept'[n] = [kept[n] EXCEPT ![f] = root[f]] /\ \A m \in 1..(n - 1) : kept'[m] = kept[m]
      BY <1>2, <1>5, <2>4
    <2>6. kept[n] \in Folders
      BY <1>2, <1>5
    <2>7. \A g \in Files : IF root'[g] # None THEN root'[g] = r[n][g] ELSE kept'[n][g] = r[n][g]
      <3>1. \A g \in Files : IF root[g] # None THEN root[g] = r[n][g] ELSE kept[n][g] = r[n][g]
        BY <1>1, <1>4 DEF PublicationMatches, n
      <3> QED
        BY <1>5, <2>1, <2>5, <2>6, <3>1 DEF Folders
    <2>8. \A m \in 1..(n - 1) : kept'[m] = r[m]
      BY <1>1, <1>4, <2>5 DEF PublicationMatches, n
    <2>9. JobMatches(job[t]) => (JobMatches(job[t])' <=> PublicationMatches(job[t])')
      BY <1>1, <1>6 DEF JobMatches, CreationMatches
    <2>10. /\ card' = r /\ ~expired' /\ staging'[n + 1] = job[t].content
      BY <1>1, <1>3, <1>4 DEF PublicationMatches, n
    <2>11. PublicationMatches(job[t])'
      BY <1>1, <1>6, <2>7, <2>8, <2>10 DEF PublicationMatches, n
    <2>12. JobMatches(job[t])'
      BY <1>4, <2>9, <2>11
    <2> QED
      BY <1>1, <1>3, <1>6, <2>3, <2>12, UnderWay, MatchesUnderWay
  <1>7. CASE root = Empty /\ Goes(t, "unpacking") /\ UNCHANGED <<kept, root>>
    <2>1. PICK j \in Jobs : /\ job' = [job EXCEPT ![t] = j] /\ j.stage = "unpacking"
                            /\ j.read = r /\ j.content = job[t].content
      BY <1>1, <1>7, UnderWay, GoesMakesAll DEF Stages
    <2>2. Moving(j)
      BY <1>1, <2>1 DEF Moving
    <2> HIDE DEF n
    <2>3. kept[n] = r[n]
      <3>1. kept[n] \in Folders /\ r[n] \in Folders
        BY <1>2, <1>5 DEF n
      <3>2. \A f \in Files : root[f] = None
        BY <1>7 DEF Empty
      <3>3. \A f \in Files : kept[n][f] = r[n][f]
        BY <1>1, <1>4, <3>2 DEF PublicationMatches, n
      <3> QED
        BY <3>1, <3>3 DEF Folders
    <2>4. /\ card' = r /\ ~expired' /\ staging'[n + 1] = j.content
          /\ \A m \in 1..(n - 1) : kept'[m] = r[m]
      BY <1>1, <1>3, <1>4, <1>7, <2>1 DEF PublicationMatches, n
    <2>5. HasAll(j.content) /\ \A m \in 1..n : HasAll(r[m])
      BY <1>1, <1>4, <2>1 DEF JobMatches, n
    <2>6. JobMatches(j)'
      BY <1>1, <1>7, <2>1, <2>3, <2>4, <2>5
         DEF JobMatches, CreationMatches, PublicationMatches, HasAll, n
    <2> QED
      BY <1>1, <1>3, <2>1, <2>2, <2>6, UnderWay, WorkKeepsMatch
  <1> QED
    BY <1>2, <1>6, <1>7 DEF MoveOld

LEMMA MoveNewKeepsMatch ==
  ASSUME MaxRunning = 1, InductiveInv, SharesInv, CardMatches, NEW t \in Tasks, MoveNew(t)
  PROVE  CardMatches'
  <1> DEFINE r == job[t].read
             n == Len(job[t].read)
             from == staging[n + 1]
  <1>1. job[t].stage = "unpacking" /\ r # <<>>
    BY DEF MoveNew, SharesInv, MovedIsSound, Creates
  <1>2. n \in 1..MaxVersions /\ n \in Nat /\ Number(t) = n + 1 /\ n + 1 \in 1..MaxVersions
        /\ job[t].content \in Folders
    BY <1>1, WorkMatches
  <1>3. /\ \A o \in Visitors : opening'[o] = <<>>
        /\ \A m \in 1..Len(card') : HasAll(card'[m])
        /\ UNCHANGED <<card, kept, expired>>
    BY <1>1, WorkMatches DEF MoveNew
  <1>4. JobMatches(job[t]) /\ PublicationMatches(job[t])
    BY <1>1, WorkMatches DEF JobMatches
  <1>5. root \in Folders /\ staging \in [1..MaxVersions -> Folders \cup {None}]
    BY DEF SharesInv, FilesOK
  <1>6. from \in Folders
    BY <1>2, <1>5 DEF MoveNew
  <1>a. \A f \in Files : IF from[f] # None THEN from[f] = job[t].content[f] ELSE root[f] = job[t].content[f]
    BY <1>1, <1>4 DEF PublicationMatches
  <1>b. /\ card' = r /\ ~expired' /\ kept'[n] = r[n]
        /\ \A m \in 1..(n - 1) : kept'[m] = r[m]
    BY <1>1, <1>3, <1>4 DEF PublicationMatches
  <1>c. HasAll(job[t].content) /\ \A m \in 1..n : HasAll(r[m])
    BY <1>1, <1>4 DEF JobMatches
  <1>7. CASE UNCHANGED job /\ \E f \in Files : /\ from[f] # None
                                               /\ root' = [root EXCEPT ![f] = from[f]]
                                               /\ staging' = [staging EXCEPT ![n + 1][f] = None]
    <2>1. PICK f \in Files : /\ from[f] # None
                             /\ root' = [root EXCEPT ![f] = from[f]]
                             /\ staging' = [staging EXCEPT ![n + 1][f] = None]
      BY <1>7
    <2>2. staging' = [staging EXCEPT ![n + 1] = [from EXCEPT ![f] = None]]
      BY <2>1
    <2> HIDE DEF n, from
    <2>3. staging'[n + 1] = [from EXCEPT ![f] = None]
      BY <1>2, <1>5, <2>2
    <2>4. \A g \in Files : IF staging'[n + 1][g] # None THEN staging'[n + 1][g] = job[t].content[g]
                           ELSE root'[g] = job[t].content[g]
      <3> SUFFICES ASSUME NEW g \in Files
                   PROVE  IF staging'[n + 1][g] # None THEN staging'[n + 1][g] = job[t].content[g]
                          ELSE root'[g] = job[t].content[g]
        OBVIOUS
      <3>1. CASE g = f
        <4>1. staging'[n + 1][f] = None /\ root'[f] = from[f]
          BY <1>5, <1>6, <2>1, <2>3 DEF Folders
        <4> QED
          BY <1>a, <2>1, <3>1, <4>1
      <3>2. CASE g # f
        <4>1. staging'[n + 1][g] = from[g] /\ root'[g] = root[g]
          BY <1>5, <1>6, <2>1, <2>3, <3>2 DEF Folders
        <4> QED
          BY <1>a, <4>1
      <3> QED
        BY <3>1, <3>2
    <2>5. PublicationMatches(job[t])'
      BY <1>1, <1>7, <1>b, <2>4 DEF PublicationMatches, n
    <2>6. JobMatches(job[t])'
      BY <1>1, <1>4, <1>7, <2>5 DEF JobMatches, CreationMatches
    <2>7. Moving(job[t])
      BY <1>1 DEF Moving
    <2> QED
      BY <1>1, <1>3, <1>7, <2>6, <2>7, UnderWay, MatchesUnderWay
  <1>8. CASE from = Empty /\ Goes(t, "writing") /\ UNCHANGED root
    <2>1. PICK j \in Jobs : /\ job' = [job EXCEPT ![t] = j] /\ j.stage = "writing"
                            /\ j.read = r /\ j.content = job[t].content
      BY <1>1, <1>8, UnderWay, GoesMakesAll DEF Stages
    <2>2. Moving(j)
      BY <1>1, <2>1 DEF Moving
    <2>3. root = job[t].content
      <3>1. \A f \in Files : from[f] = None
        BY <1>8 DEF Empty
      <3> HIDE DEF from
      <3>2. \A f \in Files : root[f] = job[t].content[f]
        BY <1>a, <3>1
      <3> QED
        BY <1>2, <1>5, <3>2 DEF Folders
    <2> HIDE DEF n, from
    <2>4. JobMatches(j)'
      BY <1>1, <1>8, <1>b, <1>c, <2>1, <2>3
         DEF JobMatches, CreationMatches, PublicationMatches, HasAll, n
    <2> QED
      BY <1>1, <1>3, <2>1, <2>2, <2>4, UnderWay, WorkKeepsMatch
  <1> QED
    BY <1>2, <1>7, <1>8 DEF MoveNew

LEMMA WriteStartsKeepsMatch ==
  ASSUME MaxRunning = 1, InductiveInv, SharesInv, CardMatches, NEW t \in Tasks, WriteStarts(t)
  PROVE  CardMatches'
  <1>1. job[t].stage = "writing"
    BY DEF WriteStarts
  <1>2. PICK j \in Jobs : /\ job' = [job EXCEPT ![t] = j] /\ j.stage = "torn"
                          /\ j.read = job[t].read /\ j.content = job[t].content
    BY <1>1, UnderWay, GoesMakesAll DEF WriteStarts, Stages
  <1>3. UNCHANGED <<folder, root, kept, opening>> /\ card' = <<>>
    BY DEF WriteStarts
  <1>4. JobMatches(j)'
    BY <1>1, <1>2, <1>3, WorkMatches DEF JobMatches, CreationMatches, PublicationMatches
  <1>5. (\A m \in 1..Len(card') : HasAll(card'[m])) /\ \A o \in Visitors : opening'[o] = <<>>
    BY <1>1, <1>3, WorkMatches
  <1> QED
    BY <1>1, <1>2, <1>3, <1>4, <1>5, UnderWay, WorkKeepsMatch

\* The card that is written says where everything is.
LEMMA WriteEndsKeepsMatch ==
  ASSUME MaxRunning = 1, InductiveInv, SharesInv, CardMatches, NEW t \in Tasks, WriteEnds(t)
  PROVE  CardMatches'
  <1> DEFINE r == job[t].read
             c == Append(job[t].read, job[t].content)
  <1>1. job[t].stage = "torn"
    BY DEF WriteEnds
  <1>2. PICK j \in Jobs : /\ job' = [job EXCEPT ![t] = j] /\ j.stage = "done" /\ j.read = r
    BY <1>1, UnderWay, GoesMakes DEF WriteEnds, Stages
  <1>3. UNCHANGED <<folder, root, kept, opening>> /\ card' = IF folder THEN c ELSE <<>>
    BY DEF WriteEnds
  <1>4. r \in Seq(Folders) /\ job[t].content \in Folders /\ Len(r) \in Nat
    BY <1>1, WorkMatches
  <1>5. /\ Len(c) = Len(r) + 1 /\ c[Len(r) + 1] = job[t].content
        /\ \A m \in 1..Len(r) : c[m] = r[m]
    BY <1>4, AppendProperties
  <1>6. JobMatches(job[t])
    BY <1>1, WorkMatches
  <1>7. JobMatches(j)'
    BY <1>2, <1>6 DEF JobMatches, CreationMatches, PublicationMatches
  <1> HIDE DEF c
  <1>8. folder => root = job[t].content
    BY <1>1, <1>6 DEF JobMatches, CreationMatches, PublicationMatches
  <1>9. \A m \in 1..Len(r) : kept[m] = r[m]
    <2>1. CASE r = <<>>
      BY <2>1
    <2>2. CASE r # <<>>
      <3>1. /\ \A m \in 1..(Len(r) - 1) : kept[m] = r[m]
            /\ kept[Len(r)] = r[Len(r)]
        BY <1>1, <1>6, <2>2 DEF JobMatches, PublicationMatches
      <3> QED
        BY <1>4, <3>1
    <2> QED
      BY <2>1, <2>2
  <1>10. card' # <<>> => Matches(card)'
    BY <1>3, <1>4, <1>5, <1>8, <1>9 DEF Matches
  <1>11. \A m \in 1..Len(card') : HasAll(card'[m])
    <2>1. HasAll(job[t].content) /\ \A m \in 1..Len(r) : HasAll(r[m])
      BY <1>1, <1>6 DEF JobMatches
    <2>2. \A m \in 1..Len(c) : HasAll(c[m])
      BY <1>4, <1>5, <2>1
    <2>3. \A m \in 1..Len(<<>>) : HasAll(<<>>[m])
      OBVIOUS
    <2> QED
      BY <1>3, <2>2, <2>3
  <1>12. \A o \in Visitors : opening'[o] = <<>>
    BY <1>1, <1>3, WorkMatches
  <1> QED
    BY <1>1, <1>2, <1>7, <1>10, <1>11, <1>12, UnderWay, WorkKeepsMatch

LEMMA FinishKeepsMatch ==
  ASSUME MaxRunning = 1, InductiveInv, SharesInv, CardMatches, NEW t \in Tasks, Finish(t)
  PROVE  CardMatches'
  <1>1. job[t].stage = "done" /\ job' = [job EXCEPT ![t] = Idle]
        /\ UNCHANGED <<card, root, kept, opening>>
    BY DEF Finish
  <1>2. JobMatches(Idle)'
    BY IdleIsAJob DEF JobMatches, CreationMatches
  <1>3. card' # <<>> => Matches(card)'
    BY <1>1, WorkMatches DEF Matches, Moving
  <1>4. (\A m \in 1..Len(card') : HasAll(card'[m])) /\ \A o \in Visitors : opening'[o] = <<>>
    BY <1>1, WorkMatches
  <1> QED
    BY <1>1, <1>2, <1>3, <1>4, IdleIsAJob, UnderWay, WorkKeepsMatch

-----------------------------------------------------------------------------
(* Beside a publication: nothing, when they keep apart. *)

\* The folder is removed, with no publication under way and no creation's card half written.
LEMMA RemovedKeepsMatch ==
  ASSUME CardMatches, Removed, UNCHANGED <<job, opening>>,
         \A t \in Tasks : job[t].stage # "torn"
                          /\ (job[t].read # <<>> => job[t].stage \in {"none", "done"})
  PROVE  CardMatches'
  <1>1. card' = <<>> /\ folder' = FALSE
    BY DEF Removed
  <1>2. \A t \in Tasks : JobMatches(job[t])'
    BY <1>1 DEF CardMatches, JobMatches, CreationMatches, PublicationMatches
  <1> QED
    BY <1>1, <1>2 DEF CardMatches

LEMMA NobodyWorks ==
  ASSUME SharesInv, \A t \in Tasks : pc[t] # "computing"
  PROVE  \A t \in Tasks : job[t].stage = "none" /\ job[t].read = <<>>
  BY DEF SharesInv, JobsCompute

LEMMA BesideKeepsMatch ==
  ASSUME Apart = TRUE, SharesInv, CardMatches, Expire \/ Sweep \/ DeleteAccount
  PROVE  CardMatches'
  <1>1. CASE Expire
    <2>1. \A t \in Tasks : job[t].stage = "none" /\ job[t].read = <<>>
      BY <1>1, NobodyWorks DEF Expire, Quiet
    <2>2. UNCHANGED <<card, folder, root, kept, staging, job, opening>>
      BY <1>1 DEF Expire
    <2>3. \A t \in Tasks : JobMatches(job[t])'
      BY <2>1, <2>2 DEF JobMatches, CreationMatches
    <2> QED
      BY <2>2, <2>3 DEF CardMatches, Matches, Moving
  <1>2. CASE Sweep
    <2>1. \A t \in Tasks : job[t].stage # "torn"
      BY <1>2 DEF Sweep
    <2>2. \A t \in Tasks : job[t].read # <<>> =>
            ~(job[t].stage \in {"mkdir", "copying", "validating", "moving", "unpacking", "writing"})
      BY <1>2 DEF Sweep, CardMatches, JobMatches, PublicationMatches
    <2>3. \A t \in Tasks : job[t].stage \in Stages
      BY DEF SharesInv, FilesOK
    <2>4. \A t \in Tasks : job[t].read # <<>> => job[t].stage \in {"none", "done"}
      BY <2>1, <2>2, <2>3 DEF Stages
    <2> QED
      BY <1>2, <2>1, <2>4, RemovedKeepsMatch DEF Sweep
  <1>3. CASE DeleteAccount
    <2>1. \A t \in Tasks : job[t].stage = "none" /\ job[t].read = <<>>
      BY <1>3, NobodyWorks DEF DeleteAccount, Quiet
    <2>2. CASE Removed
      BY <1>3, <2>1, <2>2, RemovedKeepsMatch DEF DeleteAccount
    <2>3. CASE UNCHANGED <<card, folder, root, kept, staging, expired>>
      <3>1. UNCHANGED <<job, opening>>
        BY <1>3 DEF DeleteAccount
      <3> QED
        BY <2>3, <3>1 DEF CardMatches, Matches, Moving, JobMatches, CreationMatches, PublicationMatches
    <2> QED
      BY <1>3, <2>2, <2>3 DEF DeleteAccount
  <1> QED
    BY <1>1, <1>2, <1>3

\* An opening writes back the card it read, which nothing has changed since.
LEMMA OpeningKeepsMatch ==
  ASSUME Apart = TRUE, SharesInv, CardMatches, NEW o \in Visitors, OpenStarts(o) \/ OpenEnds(o)
  PROVE  CardMatches'
  <1>1. UNCHANGED <<folder, root, kept, staging, job, expired>>
    BY DEF OpenStarts, OpenEnds
  <1>2. card' = card
    BY DEF OpenStarts, OpenEnds, CardMatches
  <1>3. \A t \in Tasks : JobMatches(job[t])'
    BY <1>1, <1>2 DEF CardMatches, JobMatches, CreationMatches, PublicationMatches
  <1>4. \A v \in Visitors : opening'[v] # <<>> =>
          (folder' => card' = opening'[v]) /\ \A t \in Tasks : job'[t].stage = "none"
    <2>1. opening \in [Visitors -> Cards]
      BY DEF SharesInv, FilesOK
    <2>2. OpenStarts(o) => \A t \in Tasks : job[t].stage = "none"
      BY NobodyWorks DEF OpenStarts, Quiet
    <2> QED
      BY <1>1, <1>2, <2>1, <2>2 DEF OpenStarts, OpenEnds, CardMatches
  <1> QED
    BY <1>1, <1>2, <1>3, <1>4 DEF CardMatches, Matches, Moving

\* A stop leaves the share as it is: torn only by a publication that was moving files.
LEMMA StopKeepsMatch ==
  ASSUME SharesInv, CardMatches, Stop, ~cut'
  PROVE  CardMatches'
  <1>1. UNCHANGED <<card, folder, root, kept, staging, expired>>
    BY DEF Stop
  <1>2. \A t \in Tasks : job'[t] = Idle
    BY DEF Stop
  <1>3. \A t \in Tasks : ~Moving(job[t])
    BY DEF Stop, Moving, Creates
  <1>4. \A t \in Tasks : JobMatches(job[t])'
    BY <1>2, IdleIsAJob DEF JobMatches, CreationMatches
  <1>5. \A o \in Visitors : opening'[o] = <<>>
    BY DEF Stop
  <1> QED
    BY <1>1, <1>3, <1>4, <1>5 DEF CardMatches, Matches

LEMMA VersionsStep ==
  ASSUME MaxRunning = 1, Apart = TRUE, InductiveInv, SharesInv, VersionsInv,
         [SharesNext]_<<gateVars, shareVars>>
  PROVE  VersionsInv'
  <1> SUFFICES ASSUME ~cut' PROVE CardMatches'
    BY DEF VersionsInv
  <1>1. CASE (GateSteps /\ UNCHANGED shareVars) \/ UNCHANGED <<gateVars, shareVars>>
    BY <1>1 DEF shareVars, VersionsInv, CardMatches, Matches, Moving, JobMatches, CreationMatches, PublicationMatches
  <1>2. ASSUME NEW t \in Tasks, Works(t) PROVE CardMatches'
    <2>1. CASE RenameFails(t)
      BY <2>1 DEF RenameFails
    <2>2. CASE WriteFails(t)
      <3>1. ~cut /\ Creates(t) /\ job[t].stage = "writing" /\ Fails(t)
        BY <2>2 DEF WriteFails
      <3> QED
        BY <3>1, RefusedKeepsMatch DEF VersionsInv
    <2>3. CASE Refused(t)
      <3>1. ~cut /\ job[t].stage \in {"copying", "validating"} /\ Fails(t)
        BY <2>3 DEF Refused
      <3> QED
        BY <3>1, RefusedKeepsMatch DEF VersionsInv
    <2>4. CASE ~(RenameFails(t) \/ WriteFails(t) \/ Refused(t))
      <3>1. cut' = cut
        BY <1>2, <2>4 DEF Works, Start, MakeFolder, Snapshot, Validated, MoveOld, MoveNew,
                          WriteStarts, WriteEnds, Finish
      <3>2. CardMatches
        BY <3>1 DEF VersionsInv
      <3> QED
        BY <1>2, <2>4, <3>2, StartKeepsMatch, SnapshotKeepsMatch, ValidatedKeepsMatch, MoveOldKeepsMatch,
           MoveNewKeepsMatch, WriteStartsKeepsMatch, WriteEndsKeepsMatch, FinishKeepsMatch DEF Works
    <2> QED
      BY <2>1, <2>2, <2>3, <2>4
  <1>3. ASSUME NEW o \in Visitors, OpenStarts(o) \/ OpenEnds(o) PROVE CardMatches'
    <2>1. cut' = cut
      BY <1>3 DEF OpenStarts, OpenEnds
    <2> QED
      BY <1>3, <2>1, OpeningKeepsMatch DEF VersionsInv
  <1>4. CASE Expire \/ Sweep \/ DeleteAccount
    <2>1. cut' = cut
      BY <1>4 DEF Expire, Sweep, DeleteAccount
    <2> QED
      BY <1>4, <2>1, BesideKeepsMatch DEF VersionsInv
  <1>5. CASE Stop
    <2>1. ~cut
      BY <1>5 DEF Stop
    <2> QED
      BY <1>5, <2>1, StopKeepsMatch DEF VersionsInv
  <1> QED
    BY <1>1, <1>2, <1>3, <1>4, <1>5 DEF SharesNext

(* Behind a gate of one slot, and with openings, expiry, the sweep and the account's
   deletion away from a publication, each version a card names is its own files: the
   former ones under their numbers, the current one at the root, through any number of
   publications, refusals, failures and stops, none of them in the renames. *)
THEOREM VersionsStayTheirCards ==
  ASSUME MaxRunning = 1, Apart = TRUE
  PROVE  SharesSpec => []VersionsAreTheirCards
  <1>1. SharesInit => VersionsInv
    <2> SUFFICES ASSUME SharesInit PROVE CardMatches
      BY DEF VersionsInv
    <2>1. card = <<>> /\ \A t \in Tasks : job[t] = Idle
      BY DEF SharesInit
    <2>2. \A t \in Tasks : JobMatches(job[t])
      BY <2>1, IdleIsAJob DEF JobMatches, CreationMatches
    <2>3. \A o \in Visitors : opening[o] = <<>>
      BY DEF SharesInit
    <2> QED
      BY <2>1, <2>2, <2>3 DEF CardMatches
  <1>2. SharesInv /\ InductiveInv /\ [SharesNext]_<<gateVars, shareVars>> => SharesInv'
    BY SharesNextKeepsInv
  <1>3. VersionsInv /\ SharesInv /\ InductiveInv /\ [SharesNext]_<<gateVars, shareVars>> => VersionsInv'
    BY VersionsStep
  <1>4. SharesSpec => []InductiveInv
    BY SharesLeaveTheGateAlone, GateKeepsInductiveInv, PTL
  <1>5. VersionsInv => VersionsAreTheirCards
    <2> SUFFICES ASSUME card # <<>>, CardMatches
                 PROVE  /\ \A n \in 1..(Len(card) - 1) : kept[n] = card[n]
                        /\ ~Publishing => root = card[Len(card)]
      BY DEF VersionsInv, VersionsAreTheirCards
    <2>1. CASE \A t \in Tasks : ~Moving(job[t])
      BY <2>1 DEF CardMatches, Matches
    <2>2. CASE \E t \in Tasks : Moving(job[t])
      <3>1. PICK t \in Tasks : Moving(job[t])
        BY <2>2
      <3>2. PublicationMatches(job[t]) /\ Publishing
        BY <3>1 DEF CardMatches, JobMatches, Moving, Publishing, Creates
      <3> QED
        BY <3>1, <3>2 DEF PublicationMatches, Moving
    <2> QED
      BY <2>1, <2>2
  <1> QED
    BY <1>1, <1>2, <1>3, <1>4, <1>5, SharesInitKeepsInv, PTL DEF SharesSpec

=============================================================================

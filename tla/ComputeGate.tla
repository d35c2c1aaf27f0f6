---------------------------- MODULE ComputeGate ----------------------------
(***************************************************************************)
(* demand/computeGate.js: what the shares (and, in the hosted edition, the *)
(* estimates) queue behind.  A counter of the computations running and a   *)
(* queue of resolvers; unlike feedImporter's, a release first counts down, *)
(* then wakes whoever fits.                                                *)
(*                                                                         *)
(* An action is one turn of the event loop: a resolved waiter goes on in   *)
(* the turn that woke it.                                                  *)
(***************************************************************************)
EXTENDS Integers, SequencesExt

CONSTANTS Tasks,      \* the requests that compute
          MaxRunning, \* DEMAND_MAX_CONCURRENT, at least 1
          MaxQueued   \* MAX_QUEUED

ASSUME ComputeGateAssumption ==
  /\ IsFiniteSet(Tasks)
  /\ MaxRunning \in Nat \ {0}
  /\ MaxQueued \in Nat

VARIABLES running,  \* the counter
          queue,    \* the tasks waiting, the oldest first
          pc        \* where each task is

gateVars == <<running, queue, pc>>

States == {"idle", "waiting", "computing", "answered", "busy"}

TypeOK ==
  /\ running \in 0..MaxRunning
  /\ queue \in Seq(Tasks) /\ Len(queue) <= MaxQueued
  /\ pc \in [Tasks -> States]

Init ==
  /\ running = 0
  /\ queue = <<>>
  /\ pc = [t \in Tasks |-> "idle"]

\* acquire: a free slot, a full line, or a place in it.
Acquire(t) ==
  /\ pc[t] = "idle"
  /\ \/ /\ running < MaxRunning
        /\ running' = running + 1
        /\ pc' = [pc EXCEPT ![t] = "computing"]
        /\ UNCHANGED queue
     \/ /\ running >= MaxRunning /\ Len(queue) >= MaxQueued
        /\ pc' = [pc EXCEPT ![t] = "busy"]
        /\ UNCHANGED <<running, queue>>
     \/ /\ running >= MaxRunning /\ Len(queue) < MaxQueued
        /\ queue' = Append(queue, t)
        /\ pc' = [pc EXCEPT ![t] = "waiting"]
        /\ UNCHANGED running

\* Mutation: a woken task is not counted.
ReleaseUncounted(t) ==
  /\ pc[t] = "computing"
  /\ running' = IF running = 0 THEN 0 ELSE running - 1
  /\ queue' = IF queue = <<>> THEN <<>> ELSE Tail(queue)
  /\ pc' = IF queue = <<>>
             THEN [pc EXCEPT ![t] = "answered"]
             ELSE [pc EXCEPT ![t] = "answered", ![Head(queue)] = "computing"]

\* Mutation: a slot given back wakes nobody.
ReleaseWakesNobody(t) ==
  /\ pc[t] = "computing"
  /\ running' = running - 1
  /\ pc' = [pc EXCEPT ![t] = "answered"]
  /\ UNCHANGED queue

\* release's loop: how many of a line of `waiting` a gate running `count` takes.
Fitting(count, waiting) ==
  IF waiting < MaxRunning - count THEN waiting ELSE MaxRunning - count

\* The computation ends or throws; withGate's `finally` releases, and the heads
\* of the line that fit now go on.
Release(t) ==
  /\ pc[t] = "computing"
  /\ LET left == IF running = 0 THEN 0 ELSE running - 1
         woken == Fitting(left, Len(queue))
     IN /\ running' = left + woken
        /\ queue' = SubSeq(queue, woken + 1, Len(queue))
        /\ pc' = [q \in Tasks |->
                    IF q = t THEN "answered"
                    ELSE IF \E i \in 1..woken : queue[i] = q THEN "computing"
                    ELSE pc[q]]

\* A task's timer in line (QUEUE_WAIT_MS).
Timeout(i) ==
  /\ i \in DOMAIN queue
  /\ queue' = RemoveAt(queue, i)
  /\ pc' = [pc EXCEPT ![queue[i]] = "busy"]
  /\ UNCHANGED running

\* An answered client may ask again.
Forget(t) ==
  /\ pc[t] \in {"answered", "busy"}
  /\ pc' = [pc EXCEPT ![t] = "idle"]
  /\ UNCHANGED <<running, queue>>

\* The process stops and starts again.
Restart ==
  /\ running' = 0
  /\ queue' = <<>>
  /\ pc' = [t \in Tasks |-> "idle"]

Next ==
  \/ \E t \in Tasks : Acquire(t) \/ Release(t) \/ Forget(t)
  \/ \E i \in DOMAIN queue : Timeout(i)
  \/ Restart

Spec == Init /\ [][Next]_gateVars

\* Every computation ends; nothing makes a client ask, nor a timer fire.
Fairness == \A t \in Tasks : WF_gateVars(Release(t))

FairSpec == Spec /\ Fairness

-----------------------------------------------------------------------------

Computing == {t \in Tasks : pc[t] = "computing"}

\* The counter is the number of computations that run, and nobody waits while
\* one more would fit: releases, timers and refusals never drift from it.
CounterIsExact ==
  /\ running = Cardinality(Computing)
  /\ queue # <<>> => running = MaxRunning

\* The queue holds each waiting task once, and no other.
QueueIsExact ==
  /\ \A i, j \in DOMAIN queue : queue[i] = queue[j] => i = j
  /\ \A i \in DOMAIN queue : pc[queue[i]] = "waiting"
  /\ \A t \in Tasks : pc[t] = "waiting" => \E i \in DOMAIN queue : queue[i] = t

\* What every step keeps.
InductiveInv == TypeOK /\ CounterIsExact /\ QueueIsExact

\* Whoever waits ends up computing or refused, without its timer's help.
NobodyWaitsForEver == \A t \in Tasks : pc[t] = "waiting" ~> pc[t] # "waiting"

\* The gate is a first-come-first-served gate of MaxRunning slots.
Gate == INSTANCE SlotGate WITH
          Slots <- MaxRunning, LineMax <- MaxQueued,
          holders <- Computing, line <- queue

ImplementsGate == Gate!Spec
=============================================================================

--------------------------- MODULE ValidatorSlots ---------------------------
(***************************************************************************)
(* services/canonicalValidatorService.js beside the import queue: how many *)
(* validator JVMs the container holds (concurrencyFor), and the slots a    *)
(* validation takes (withValidatorSlot).  The limit moves with the import  *)
(* queue: while an import's child runs, one JVM fewer is let in.           *)
(*                                                                         *)
(* As in ImportQueue an action is a turn of the event loop.  A validation  *)
(* that is woken starts its JVM in the turn that woke it.                  *)
(***************************************************************************)
EXTENDS ImportQueue

CONSTANTS
  Validations,  \* the validations that may be in flight: of uploads, exports, shares
  LimitBytes,   \* the memory limit of the container, which has one
  HeapBytes,    \* the API's own heap
  MarginBytes,  \* VALIDATOR_MARGIN_BYTES
  XmxBytes,     \* a JVM's heap
  MaxJvms       \* VALIDATOR_MAX_CONCURRENT

ASSUME ValidatorSlotsAssumption ==
  /\ IsFiniteSet(Validations)
  /\ LimitBytes \in Nat \ {0} /\ HeapBytes \in Nat /\ MarginBytes \in Nat
  /\ XmxBytes \in Nat \ {0}
  /\ MaxJvms \in Nat \ {0}

VARIABLES
  validatorsRunning,  \* the counter
  validatorQueue,     \* the validations waiting, the oldest first
  jvm                 \* per validation, where it is

validatorVars == <<validatorsRunning, validatorQueue, jvm>>

-----------------------------------------------------------------------------

\* Mutation: the API's heap and the margin are forgotten.
ConcurrencyOfTheContainer ==
  LET fit == LimitBytes \div XmxBytes
  IN IF fit < 1 THEN 1 ELSE IF fit < MaxJvms THEN fit ELSE MaxJvms

\* The JVMs whose heaps fit beside the API's, one at least.
Concurrency ==
  LET fit    == (LimitBytes - HeapBytes - MarginBytes) \div XmxBytes
      capped == IF fit < MaxJvms THEN fit ELSE MaxJvms
  IN IF capped < 1 THEN 1 ELSE capped

\* What withValidatorSlot compares the counter with, read from the import queue.
SlotsNow == IF running /\ Concurrency > 1 THEN Concurrency - 1 ELSE Concurrency

ValidatorsInit ==
  /\ validatorsRunning = 0
  /\ validatorQueue = <<>>
  /\ jvm = [v \in Validations |-> "none"]

\* A validation asks for a slot: a JVM at once, or a place in line.
Validate(v) ==
  /\ jvm[v] = "none"
  /\ \/ /\ validatorsRunning >= SlotsNow
        /\ validatorQueue' = Append(validatorQueue, v)
        /\ jvm' = [jvm EXCEPT ![v] = "waiting"]
        /\ UNCHANGED validatorsRunning
     \/ /\ validatorsRunning < SlotsNow
        /\ validatorsRunning' = validatorsRunning + 1
        /\ jvm' = [jvm EXCEPT ![v] = "running"]
        /\ UNCHANGED validatorQueue

\* Mutation: the slot handed over is also counted down.
HandedOverAndFreed(v, state) ==
  /\ validatorsRunning' = validatorsRunning - 1
  /\ validatorQueue' = IF validatorQueue = <<>> THEN <<>> ELSE Tail(validatorQueue)
  /\ jvm' = IF validatorQueue = <<>>
              THEN [jvm EXCEPT ![v] = state]
              ELSE [jvm EXCEPT ![v] = state, ![Head(validatorQueue)] = "running"]

\* Mutation: a slot is given back without a look at the line.
FreedUnseen(v, state) ==
  /\ validatorsRunning' = validatorsRunning - 1
  /\ jvm' = [jvm EXCEPT ![v] = state]
  /\ UNCHANGED validatorQueue

\* withValidatorSlot's `finally`: the head of the line takes the slot over, the
\* import queue is not asked again; or the slot is free.
SlotEnds(v, state) ==
  \/ /\ validatorQueue = <<>>
     /\ validatorsRunning' = validatorsRunning - 1
     /\ jvm' = [jvm EXCEPT ![v] = state]
     /\ UNCHANGED validatorQueue
  \/ /\ validatorQueue # <<>>
     /\ validatorQueue' = Tail(validatorQueue)
     /\ jvm' = [jvm EXCEPT ![v] = state, ![Head(validatorQueue)] = "running"]
     /\ UNCHANGED validatorsRunning

\* The JVM exits, or could not be started.
JvmExits(v) == jvm[v] = "running" /\ SlotEnds(v, "none")

\* Its time is over: killed and answered at once, it dies a little later.
JvmTimesOut(v) == jvm[v] = "running" /\ SlotEnds(v, "killed")

JvmDies(v) ==
  /\ jvm[v] = "killed"
  /\ jvm' = [jvm EXCEPT ![v] = "none"]
  /\ UNCHANGED <<validatorsRunning, validatorQueue>>

\* The container stops with everything in it.
StopsAll ==
  /\ Restart
  /\ validatorsRunning' = 0
  /\ validatorQueue' = <<>>
  /\ jvm' = [v \in Validations |-> "none"]

ImportSteps ==
  \/ \E r \in Requests : Ask(r) \/ Fork(r) \/ MarkerFails(r) \/ Forget(r)
  \/ \E i \in DOMAIN waiting : QueueTimeout(i)
  \/ \E s \in Sessions : NewFeed(s)
  \/ Close \/ StopAll \/ Child

ValidatorSteps == \E v \in Validations : Validate(v) \/ JvmExits(v) \/ JvmTimesOut(v) \/ JvmDies(v)

BothInit == Init /\ ValidatorsInit

BothNext ==
  \/ ImportSteps /\ UNCHANGED validatorVars
  \/ ValidatorSteps /\ UNCHANGED importVars
  \/ StopsAll

BothSpec == BothInit /\ [][BothNext]_<<importVars, validatorVars>>

\* Every JVM ends, by itself or at its time limit; nothing makes one be asked for.
BothFairSpec ==
  /\ BothSpec
  /\ Fairness
  /\ \A v \in Validations : WF_<<importVars, validatorVars>>(JvmExits(v) /\ UNCHANGED importVars)

-----------------------------------------------------------------------------

Running == {v \in Validations : jvm[v] = "running"}

ValidatorsTypeOK ==
  /\ validatorsRunning \in 0..Concurrency
  /\ validatorQueue \in Seq(Validations)
  /\ jvm \in [Validations -> {"none", "waiting", "running", "killed"}]

\* The line holds each waiting validation once, and no other.
ValidatorQueueIsExact ==
  /\ \A i, j \in DOMAIN validatorQueue : validatorQueue[i] = validatorQueue[j] => i = j
  /\ \A i \in DOMAIN validatorQueue : jvm[validatorQueue[i]] = "waiting"
  /\ \A v \in Validations : jvm[v] = "waiting" => \E i \in DOMAIN validatorQueue : validatorQueue[i] = v

\* The counter is the number of JVMs that run, and whoever is in line has as many
\* before it as an import would leave: the limit may go up or down while somebody
\* waits, a slot is never leaked and the line never stands still for nothing.
ValidatorsAreCounted ==
  /\ validatorsRunning = Cardinality(Running)
  /\ validatorQueue # <<>> =>
       /\ validatorsRunning >= 1
       /\ validatorsRunning >= Concurrency - 1

\* The JVMs fit in the container beside the API, or are a single one.
JvmsFit ==
  LET room == LimitBytes - HeapBytes - MarginBytes IN
    Cardinality(Running) > 1 => Cardinality(Running) * XmxBytes <= room

\* Whoever waits for a JVM gets one, imports or not.
NobodyWaitsForTheValidator == \A v \in Validations : jvm[v] = "waiting" ~> jvm[v] # "waiting"

\* While an import runs, the JVMs that start leave it the room of one.
ImportKeepsItsRoom ==
  [][ (running /\ Running' \ Running # {} /\ Concurrency > 1)
        => Cardinality(Running') <= Concurrency - 1 ]_<<importVars, validatorVars>>
=============================================================================

------------------------------ MODULE SlotGate ------------------------------
(***************************************************************************)
(* What the API's two admission gates promise, whatever their code: at     *)
(* most Slots tasks run at once, at most LineMax more stand in line, the   *)
(* line is served first come first served, and a slot given back goes      *)
(* straight to the head of the line, so that no slot is ever idle while    *)
(* somebody waits for one.  db/feedImporter.js (ImportQueue) implements it *)
(* with one slot, demand/computeGate.js (ComputeGate) with several.        *)
(***************************************************************************)
EXTENDS Integers, SequencesExt

CONSTANTS Tasks,    \* what asks for a slot
          Slots,    \* how many run at once
          LineMax   \* how many may wait

VARIABLES holders,  \* the tasks that hold a slot
          line      \* the tasks waiting for one, the oldest first

gateVars == <<holders, line>>

Init == holders = {} /\ line = <<>>

\* A free slot is taken at once, and only when nobody is in line for it.
Enter(t) ==
  /\ t \notin holders
  /\ line = <<>>
  /\ Cardinality(holders) < Slots
  /\ holders' = holders \cup {t}
  /\ UNCHANGED line

\* A task joins the line only when every slot is taken.
Join(t) ==
  /\ Cardinality(holders) = Slots
  /\ Len(line) < LineMax
  /\ line' = Append(line, t)
  /\ UNCHANGED holders

\* A task ends with somebody in line: the head takes its slot in the same step.
HandOver(t) ==
  /\ t \in holders
  /\ line # <<>>
  /\ holders' = (holders \ {t}) \cup {Head(line)}
  /\ line' = Tail(line)

\* A task ends with nobody in line: its slot is free.
Leave(t) ==
  /\ t \in holders
  /\ line = <<>>
  /\ holders' = holders \ {t}
  /\ UNCHANGED line

\* A task in line runs out of patience, wherever it stands.
GiveUp(i) ==
  /\ line' = RemoveAt(line, i)
  /\ UNCHANGED holders

\* The whole line is turned away; the tasks running go on.
Dismiss == line' = <<>> /\ UNCHANGED holders

\* The process stops: nothing runs and nobody waits.
Reset == holders' = {} /\ line' = <<>>

Next ==
  \/ \E t \in Tasks : Enter(t) \/ Join(t) \/ HandOver(t) \/ Leave(t)
  \/ \E i \in DOMAIN line : GiveUp(i)
  \/ Dismiss
  \/ Reset

Spec == Init /\ [][Next]_gateVars
=============================================================================

--------------------------- MODULE ImportProgress ---------------------------
(***************************************************************************)
(* Where a network's opening stands (importProgress.js): the openings that *)
(* requests name, the event streams that follow them, the streams opened   *)
(* before their request, the counts held back by a timer, and what gives   *)
(* way when a table is full.                                               *)
(*                                                                         *)
(* A word is a stage with its counts.  The words of an opening are         *)
(* numbered as they are published; `said` keeps their stages, and a state, *)
(* or what a stream was told, is a word's number (0: none yet).            *)
(***************************************************************************)
EXTENDS Integers, Sequences, FiniteSets, SequencesExt

CONSTANTS
  Ids,           \* the openings' ids, one request each
  Streams,       \* GET /import/progress/:id, one request each
  MaxOpenings,   \* MAX_OPENINGS
  MaxListeners,  \* MAX_LISTENERS
  MaxWaiting,    \* MAX_WAITING
  Working,       \* the stages before the last, in order: 1 .. Working
  MaxWords,      \* bound: words published by the handlers, all openings together
  None

ASSUME TablesAssumption == {MaxOpenings, MaxListeners, MaxWaiting, Working} \subseteq Nat \ {0}
ASSUME WordsAssumption == MaxWords \in Nat

VARIABLES
  order,      \* the ids `openings` holds, the oldest first
  entry,      \* id -> the opening's entry; Blank when it is not held
  waiting,    \* the ids `waiting` holds, the oldest first
  early,      \* id -> the streams that wait for its request
  request,    \* id -> "new", "running", "left" (its client is gone) or "ended"
  said,       \* history: id -> the stages of the words published
  stream,     \* stream -> "new", "open", "closed"
  target,     \* stream -> the id it follows
  heard       \* history: stream -> the words written to it

vars == <<order, entry, waiting, early, request, said, stream, target, heard>>

Done == Working + 1
Failed == Working + 2
Final == {Done, Failed}

\* A new entry: nothing said, no count held back, the last word long ago.
Blank == [state |-> 0, listeners |-> {}, pending |-> "none", due |-> TRUE]

Init ==
  /\ order = << >>
  /\ entry = [i \in Ids |-> Blank]
  /\ waiting = << >>
  /\ early = [i \in Ids |-> {}]
  /\ request = [i \in Ids |-> "new"]
  /\ said = [i \in Ids |-> << >>]
  /\ stream = [s \in Streams |-> "new"]
  /\ target = [s \in Streams |-> None]
  /\ heard = [s \in Streams |-> << >>]

Held == ToSet(order)

\* close, for several streams at once: they leave their openings and those that wait for
\* one; an id nobody waits for any more leaves the line.
Close(streams, e, w, id) ==
  /\ stream' = [s \in Streams |-> IF s \in streams THEN "closed" ELSE stream[s]]
  /\ early' = [i \in Ids |-> w[i] \ streams]
  /\ waiting' = IF w[id] \ streams = {} THEN RemoveFirst(waiting, id) ELSE waiting
  /\ entry' = [i \in Ids |-> [e[i] EXCEPT !.listeners = @ \ streams]]

-----------------------------------------------------------------------------
\* touch: the opening's entry, made now when it is not held, with the streams that waited.
Entry(id) == IF id \in Held THEN entry[id] ELSE [Blank EXCEPT !.listeners = early[id]]

\* The oldest opening, which gives way to a new one when the table is full.
Evicted(id) == IF id \notin Held /\ Len(order) >= MaxOpenings THEN {Head(order)} ELSE {}

\* Mutation: the oldest opening gives way and its streams are left as they are.
TouchedSilently(id, e, told) ==
  /\ order' = IF id \in Held THEN order ELSE Append(IF Evicted(id) = {} THEN order ELSE Tail(order), id)
  /\ Close(told, [i \in Ids |-> IF i = id THEN e ELSE IF i \in Evicted(id) THEN Blank ELSE entry[i]],
           [early EXCEPT ![id] = {}], id)

\* touch and what follows it: id's entry becomes e, the streams in told have had a last
\* word, and those of the opening that gave way are closed without one.
Touched(id, e, told) ==
  /\ order' = IF id \in Held THEN order ELSE Append(IF Evicted(id) = {} THEN order ELSE Tail(order), id)
  /\ Close(told \cup UNION {entry[i].listeners : i \in Evicted(id)},
           [i \in Ids |-> IF i = id THEN e ELSE IF i \in Evicted(id) THEN Blank ELSE entry[i]],
           [early EXCEPT ![id] = {}], id)

Stage(id, word) == IF word = 0 THEN 0 ELSE said[id][word]

\* publish, of a word that is not the opening's first of its stage.
SameStage(id, stage) == Stage(id, Entry(id).state) = stage

\* A word goes out at once when it opens a stage, ends the opening or comes after the
\* interval; otherwise it is held back by the timer.
GoesOut(id, stage) == ~SameStage(id, stage) \/ stage \in Final \/ Entry(id).due

\* Mutation: a count held back is dropped by the next stage.
WordsWithoutTheHeld(id, stage, word) == IF GoesOut(id, stage) THEN <<word>> ELSE << >>

\* What a publication writes: the count held back, before another stage, then the word.
\* A timer that fired left `pending` set: its count is written again.
Words(id, stage, word) ==
  (IF Entry(id).pending # "none" /\ ~SameStage(id, stage) THEN <<Entry(id).state>> ELSE << >>)
  \o (IF GoesOut(id, stage) THEN <<word>> ELSE << >>)

Publish(id, stage) ==
  LET word == Len(said[id]) + 1
      out == GoesOut(id, stage)
      followers == Entry(id).listeners
  IN  /\ said' = [said EXCEPT ![id] = Append(@, stage)]
      /\ heard' = [s \in Streams |-> IF s \in followers THEN heard[s] \o Words(id, stage, word) ELSE heard[s]]
      /\ Touched(id,
                 [Entry(id) EXCEPT !.state = word, !.pending = IF out THEN "none" ELSE "armed",
                                   !.due = IF out THEN FALSE ELSE @],
                 IF stage \in Final THEN followers ELSE {})
      /\ UNCHANGED target

\* follow: the request enters the table before its handler runs.
Begin(id) ==
  /\ request[id] = "new"
  /\ request' = [request EXCEPT ![id] = "running"]
  /\ Touched(id, Entry(id), {})
  /\ UNCHANGED <<said, target, heard>>

\* The handler reports a stage, the one it is in or a later one; when its client left it
\* runs on, and nothing says when it ends.
Report(id) ==
  /\ request[id] \in {"running", "left"}
  /\ FoldFunction(LAMBDA words, n : Len(words) + n, 0, said) < MaxWords
  /\ \E stage \in 1 .. Working :
       /\ \A w \in DOMAIN said[id] : said[id][w] \in Final \/ said[id][w] <= stage
       /\ Publish(id, stage)
  /\ UNCHANGED request

\* The answer's "finish": done under 400, failed otherwise.
Answer(id) ==
  /\ request[id] = "running"
  /\ request' = [request EXCEPT ![id] = "ended"]
  /\ \E stage \in Final : Publish(id, stage)

\* The answer's "close" before it was written: the opening failed.
Leave(id) ==
  /\ request[id] = "running"
  /\ request' = [request EXCEPT ![id] = "left"]
  /\ Publish(id, Failed)

\* COUNT_EVERY_MS have passed since the opening's last word went out.
Elapse(id) ==
  /\ id \in Held
  /\ ~entry[id].due
  /\ entry' = [entry EXCEPT ![id].due = TRUE]
  /\ UNCHANGED <<order, waiting, early, request, said, stream, target, heard>>

\* The timer of a count held back: emit, which leaves `pending` as it is.
TellHeld(id) ==
  /\ id \in Held
  /\ entry[id].pending = "armed"
  /\ entry[id].due
  /\ heard' = [s \in Streams |-> IF s \in entry[id].listeners THEN Append(heard[s], entry[id].state) ELSE heard[s]]
  /\ entry' = [entry EXCEPT ![id].pending = "fired", ![id].due = FALSE]
  /\ UNCHANGED <<order, waiting, early, request, said, stream, target>>

\* forget, by the timer: TTL_MS after the opening's last word.
Forget(id) ==
  /\ id \in Held
  /\ order' = RemoveFirst(order, id)
  /\ Close(entry[id].listeners, [entry EXCEPT ![id] = Blank], early, id)
  /\ UNCHANGED <<request, said, target, heard>>

-----------------------------------------------------------------------------
\* The streams that follow an id, or wait for it.
Followers(id) == IF id \in Held THEN entry[id].listeners ELSE early[id]

\* Mutation: a stream is told from the next word on.
FollowFromNowOn(s, id) ==
  /\ stream[s] = "new"
  /\ id \in Held
  /\ Cardinality(Followers(id)) < MaxListeners
  /\ target' = [target EXCEPT ![s] = id]
  /\ stream' = [stream EXCEPT ![s] = "open"]
  /\ entry' = [entry EXCEPT ![id].listeners = @ \cup {s}]
  /\ UNCHANGED <<order, waiting, early, request, said, heard>>

\* streamProgress, of an opening in the table: told where it stands, closed if it ended.
FollowOpening(s, id) ==
  /\ stream[s] = "new"
  /\ id \in Held
  /\ Cardinality(Followers(id)) < MaxListeners
  /\ target' = [target EXCEPT ![s] = id]
  /\ heard' = IF entry[id].state = 0 THEN heard ELSE [heard EXCEPT ![s] = <<entry[id].state>>]
  /\ IF Stage(id, entry[id].state) \in Final
     THEN stream' = [stream EXCEPT ![s] = "closed"] /\ UNCHANGED entry
     ELSE /\ stream' = [stream EXCEPT ![s] = "open"]
          /\ entry' = [entry EXCEPT ![id].listeners = @ \cup {s}]
  /\ UNCHANGED <<order, waiting, early, request, said>>

\* streamProgress, before the request: the oldest id waited for gives way.
Wait(s, id) ==
  LET full == id \notin ToSet(waiting) /\ Len(waiting) >= MaxWaiting
      gone == IF full THEN early[Head(waiting)] ELSE {}
      line == IF full THEN Tail(waiting) ELSE waiting
  IN  /\ stream[s] = "new"
      /\ id \notin Held
      /\ Cardinality(Followers(id)) < MaxListeners
      /\ target' = [target EXCEPT ![s] = id]
      /\ stream' = [t \in Streams |-> IF t = s THEN "open" ELSE IF t \in gone THEN "closed" ELSE stream[t]]
      /\ early' = [i \in Ids |-> IF i = id THEN early[i] \cup {s} ELSE early[i] \ gone]
      /\ waiting' = IF id \in ToSet(line) THEN line ELSE Append(line, id)
      /\ UNCHANGED <<order, entry, request, said, heard>>

Refuse(s, id) ==
  /\ stream[s] = "new"
  /\ Cardinality(Followers(id)) >= MaxListeners
  /\ stream' = [stream EXCEPT ![s] = "closed"]
  /\ UNCHANGED <<order, entry, waiting, early, request, said, target, heard>>

\* Mutation: only a stream whose opening came is given up by the timer.
GiveUpAfterwards(s) ==
  /\ stream[s] = "open"
  /\ target[s] \in Held
  /\ s \in early[target[s]]
  /\ Close({s}, entry, early, target[s])
  /\ UNCHANGED <<order, request, said, target, heard>>

\* The timer of a stream that waits: WAIT_MS without its request.
GiveUp(s) ==
  /\ stream[s] = "open"
  /\ target[s] \notin Held
  /\ Close({s}, entry, early, target[s])
  /\ UNCHANGED <<order, request, said, target, heard>>

\* The page closes its stream.
Quit(s) ==
  /\ stream[s] = "open"
  /\ Close({s}, entry, early, target[s])
  /\ UNCHANGED <<order, request, said, target, heard>>

Next ==
  \/ \E i \in Ids :
       \/ Begin(i) \/ Report(i) \/ Answer(i) \/ Leave(i)
       \/ Elapse(i) \/ TellHeld(i) \/ Forget(i)
       \/ \E s \in Streams : FollowOpening(s, i) \/ Wait(s, i) \/ Refuse(s, i)
  \/ \E s \in Streams : GiveUp(s) \/ Quit(s)

Spec == Init /\ [][Next]_vars

\* The timers go off; nothing is asked of a client, nor of a handler.
FairSpec ==
  /\ Spec
  /\ \A i \in Ids : WF_vars(Elapse(i)) /\ WF_vars(TellHeld(i)) /\ WF_vars(Forget(i))
  /\ \A s \in Streams : WF_vars(GiveUp(s))

-----------------------------------------------------------------------------
TypeOK ==
  /\ order \in Seq(Ids) /\ Len(order) <= MaxOpenings
  /\ entry \in [Ids -> [state : Nat, listeners : SUBSET Streams,
                        pending : {"none", "armed", "fired"}, due : BOOLEAN]]
  /\ waiting \in Seq(Ids) /\ Len(waiting) <= MaxWaiting
  /\ early \in [Ids -> SUBSET Streams]
  /\ request \in [Ids -> {"new", "running", "left", "ended"}]
  /\ said \in [Ids -> Seq(1 .. Failed)]
  /\ stream \in [Streams -> {"new", "open", "closed"}]
  /\ target \in [Streams -> Ids \cup {None}]
  /\ heard \in [Streams -> Seq(Nat)]

\* A stream that is open is known to the table once, under the id it asked for: as a
\* follower of an opening that is held, or in the line of those that wait for one.  A
\* closed one is known nowhere, an opening never has streams on both sides.
OpenStreamsAreKnown ==
  /\ \A s \in Streams, i \in Ids :
       s \in entry[i].listeners \cup early[i] => stream[s] = "open" /\ target[s] = i
  /\ \A s \in Streams : stream[s] = "open" => s \in Followers(target[s])
  /\ \A i \in Ids : early[i] # {} <=> i \in ToSet(waiting)
  /\ Held \cap ToSet(waiting) = {}

\* A follower has been told where its opening stands, or its count is held back by a timer
\* that will: no event is lost between the stream's opening and the request's.
FollowersAreUpToDate ==
  \A i \in Held : \A s \in entry[i].listeners :
    entry[i].state # 0 => \/ heard[s] # << >> /\ Last(heard[s]) = entry[i].state
                          \/ entry[i].pending = "armed"

\* A stream hears the words in the order they were said, and every stage it follows ends
\* on its last count: between the stages it hears, nothing was skipped.
StagesEndOnTheirLastCount ==
  \A s \in Streams : \A k \in 2 .. Len(heard[s]) :
    LET before == heard[s][k - 1]
        after == heard[s][k]
        words == said[target[s]]
    IN  before <= after /\ (words[before] # words[after] => after = before + 1)

\* Every stream ends, whatever becomes of its request: answered, left by its client,
\* evicted by others, or never sent.
EveryStreamEnds == \A s \in Streams : stream[s] = "open" ~> stream[s] = "closed"

\* After done or failed nothing else is told of an opening.
FailedIsFinal ==
  \A s \in Streams : stream[s] = "open" => request[target[s]] \in {"new", "running"}
=============================================================================

------------------------ MODULE ImportProgressProofs ------------------------
(***************************************************************************)
(* The import's progress for every set of openings and streams and every   *)
(* size of the tables: a stream that is open is where the next word will   *)
(* find it, it has been told where its opening stands, and it hears every  *)
(* stage to its last count.                                                *)
(***************************************************************************)
EXTENDS ImportProgress, LineLemmas

Entries == [state : Nat, listeners : SUBSET Streams,
            pending : {"none", "armed", "fired"}, due : BOOLEAN]

\* The streams that follow an opening or wait for it.
Known(i) == entry[i].listeners \cup early[i]

\* The ids somebody waits for.
Awaited == {i \in Ids : early[i] # {}}

\* Each table holds an id once, and an id is in one of them at most.
TablesAreExact ==
  /\ LineOf(order, Held)
  /\ LineOf(waiting, Awaited)
  /\ \A i \in Ids : IF i \in Held THEN early[i] = {}
                    ELSE entry[i].state = 0 /\ entry[i].listeners = {} /\ entry[i].pending = "none"

StreamsAreKnown ==
  /\ \A s \in Streams, i \in Ids : s \in Known(i) => stream[s] = "open" /\ target[s] = i
  /\ \A s \in Streams : stream[s] = "open" => \E i \in Ids : s \in Known(i)

\* The words h, of those said, come in order, and each stage ends on its last one.
InOrder(h, words) ==
  /\ \A k \in 1 .. Len(h) : h[k] \in 1 .. Len(words)
  /\ \A k \in 2 .. Len(h) : /\ h[k - 1] <= h[k]
                            /\ words[h[k - 1]] # words[h[k]] => h[k] = h[k - 1] + 1

\* What a stream has heard ends where its opening stands, or within the stage it is in
\* while a timer holds that stage's last count.
ToldWhereItStands(i, s) ==
  IF entry[i].state = 0 THEN heard[s] = << >>
  ELSE /\ heard[s] # << >>
       /\ \/ Last(heard[s]) = entry[i].state
          \/ entry[i].pending = "armed" /\ said[i][Last(heard[s])] = said[i][entry[i].state]

WordsAreHeard ==
  /\ \A s \in Streams : stream[s] = "new" => heard[s] = << >>
  /\ \A s \in Streams : heard[s] # << >> => target[s] \in Ids /\ InOrder(heard[s], said[target[s]])
  /\ \A i \in Ids : entry[i].state \in {0, Len(said[i])}
  /\ \A i \in Ids : entry[i].state = 0 => entry[i].pending = "none"
  /\ \A i \in Ids : \A s \in Known(i) : ToldWhereItStands(i, s)

TablesInv == TypeOK /\ TablesAreExact /\ StreamsAreKnown

ProgressInv == TablesInv /\ WordsAreHeard

-----------------------------------------------------------------------------
(* The tables. *)

\* An entry some of whose listeners leave.
LEMMA ListenersLeave ==
  ASSUME NEW e \in Entries, NEW L
  PROVE  /\ [e EXCEPT !.listeners = @ \ L] \in Entries
         /\ [e EXCEPT !.listeners = @ \ L].state = e.state
         /\ [e EXCEPT !.listeners = @ \ L].listeners = e.listeners \ L
         /\ [e EXCEPT !.listeners = @ \ L].pending = e.pending
  BY DEF Entries

LEMMA BlankIsAnEntry ==
  Blank \in Entries /\ Blank.state = 0 /\ Blank.listeners = {} /\ Blank.pending = "none"
  BY DEF Blank, Entries

\* What touch finds, or makes: the streams known of an opening are its entry's.
LEMMA EntryFields ==
  ASSUME TypeOK, TablesAreExact, NEW id \in Ids
  PROVE  /\ Entry(id) \in Entries
         /\ Entry(id).state = entry[id].state
         /\ Entry(id).listeners = Known(id)
         /\ Entry(id).pending = entry[id].pending
  <1>1. entry[id] \in Entries /\ early[id] \subseteq Streams
    BY DEF TypeOK, Entries
  <1>2. CASE id \in Held
    BY <1>1, <1>2 DEF Entry, Known, TablesAreExact
  <1>3. CASE id \notin Held
    BY <1>1, <1>3 DEF Entry, Known, TablesAreExact, Blank, Entries
  <1> QED
    BY <1>2, <1>3

\* The opening that gives way is another one, the oldest held.
LEMMA EvictedIsHeld ==
  ASSUME TypeOK, NEW id \in Ids
  PROVE  /\ Evicted(id) \subseteq Held \ {id}
         /\ Evicted(id) # {} => id \notin Held /\ order # << >> /\ Evicted(id) = {Head(order)}
         /\ Evicted(id) = {} /\ id \notin Held => Len(order) < MaxOpenings
  <1>1. order \in Seq(Ids) /\ Len(order) \in Nat /\ MaxOpenings \in Nat \ {0}
    BY TablesAssumption, LenProperties DEF TypeOK
  <1>2. order # << >> => Head(order) = order[1] /\ 1 \in DOMAIN order
    BY <1>1, EmptySeq, LenProperties
  <1>3. order # << >> => Head(order) \in Held
    BY <1>2 DEF Held, ToSet
  <1>4. Len(order) >= MaxOpenings => order # << >>
    BY <1>1
  <1> QED
    BY <1>1, <1>3, <1>4 DEF Evicted

LEMMA TouchedOrder ==
  ASSUME TypeOK, TablesAreExact, NEW id \in Ids,
         order' = IF id \in Held THEN order
                  ELSE Append(IF Evicted(id) = {} THEN order ELSE Tail(order), id)
  PROVE  /\ order' \in Seq(Ids) /\ Len(order') <= MaxOpenings
         /\ Held' = (Held \ Evicted(id)) \cup {id}
         /\ LineOf(order, Held)'
  <1>1. order \in Seq(Ids) /\ Len(order) \in Nat /\ Len(order) <= MaxOpenings /\ MaxOpenings \in Nat
    BY TablesAssumption, LenProperties DEF TypeOK
  <1>2. LineOf(order, Held)
    BY DEF TablesAreExact
  <1>3. CASE id \in Held
    <2>1. order' = order /\ Evicted(id) = {}
      BY <1>3 DEF Evicted
    <2>2. Held' = Held
      BY <2>1 DEF Held
    <2>3. LineOf(order, Held)'
      BY <1>2, <2>1, <2>2 DEF LineOf
    <2> QED
      BY <1>1, <1>3, <2>1, <2>2, <2>3
  <1>4. CASE id \notin Held
    <2>1. PICK line \in Seq(Ids) : /\ order' = Append(line, id) /\ Len(line) < MaxOpenings
                                    /\ LineOf(line, Held \ Evicted(id))
      <3>1. CASE Evicted(id) = {}
        <4>1. LineOf(order, Held \ Evicted(id))
          BY <1>2, <3>1 DEF LineOf
        <4> QED
          BY <1>1, <1>4, <3>1, <4>1, EvictedIsHeld
      <3>2. CASE Evicted(id) # {}
        <4>1. order # << >> /\ Evicted(id) = {Head(order)}
          BY <3>2, EvictedIsHeld
        <4>2. /\ Tail(order) \in Seq(Ids) /\ Len(Tail(order)) = Len(order) - 1
              /\ LineOf(Tail(order), Held \ {Head(order)})
          BY <1>1, <1>2, <4>1, TailLine
        <4>3. LineOf(Tail(order), Held \ Evicted(id))
          BY <4>1, <4>2
        <4>4. order' = Append(Tail(order), id)
          BY <1>4, <3>2
        <4>5. Len(Tail(order)) < MaxOpenings
          BY <1>1, <4>2
        <4> QED
          BY <4>2, <4>3, <4>4, <4>5
      <3> QED
        BY <3>1, <3>2
    <2>2. id \notin Held \ Evicted(id)
      BY <1>4
    <2>3. /\ LineOf(Append(line, id), (Held \ Evicted(id)) \cup {id})
          /\ Append(line, id) \in Seq(Ids) /\ Len(Append(line, id)) = Len(line) + 1
      BY <2>1, <2>2, AppendLine, AppendProperties
    <2>4. LineOf(order', (Held \ Evicted(id)) \cup {id})
      BY <2>1, <2>3
    <2>5. Held' = (Held \ Evicted(id)) \cup {id}
      BY <2>4, LineSet DEF Held
    <2>6. LineOf(order', Held')
      BY <2>4, <2>5
    <2>7. Len(line) \in Nat
      BY LenProperties
    <2>8. order' \in Seq(Ids) /\ Len(order') = Len(line) + 1
      BY <2>1, <2>3
    <2>9. Len(order') <= MaxOpenings
      BY <1>1, <2>1, <2>7, <2>8
    <2> QED
      BY <2>5, <2>6, <2>8, <2>9
  <1> QED
    BY <1>3, <1>4

\* The line of those somebody waits for, when nobody waits for id any more.
LEMMA AwaitedLeaves ==
  ASSUME TypeOK, TablesAreExact, NEW id \in Ids, waiting' = RemoveFirst(waiting, id),
         Awaited' = Awaited \ {id}
  PROVE  /\ waiting' \in Seq(Ids) /\ Len(waiting') <= MaxWaiting
         /\ LineOf(waiting, Awaited)'
  <1>1. /\ waiting \in Seq(Ids) /\ Len(waiting) \in Nat /\ Len(waiting) <= MaxWaiting
        /\ LineOf(waiting, Awaited) /\ MaxWaiting \in Nat
    BY TablesAssumption, LenProperties DEF TypeOK, TablesAreExact
  <1>2. /\ waiting' \in Seq(Ids) /\ Len(waiting') <= Len(waiting)
        /\ LineOf(waiting', Awaited \ {id})
    BY <1>1, RemoveFirstLine
  <1>3. Len(waiting') \in Nat
    BY <1>2, LenProperties
  <1>4. LineOf(waiting', Awaited')
    BY <1>2
  <1> QED
    BY <1>1, <1>2, <1>3, <1>4

\* close: what becomes of the streams, the entries and those that wait.
LEMMA CloseFields ==
  ASSUME NEW STATE streams, NEW STATE e, NEW STATE w, NEW STATE id, TypeOK,
         streams \subseteq Streams, e \in [Ids -> Entries], w \in [Ids -> SUBSET Streams],
         Close(streams, e, w, id)
  PROVE  /\ stream' \in [Streams -> {"new", "open", "closed"}]
         /\ \A s \in Streams : stream'[s] = IF s \in streams THEN "closed" ELSE stream[s]
         /\ early' \in [Ids -> SUBSET Streams]
         /\ \A i \in Ids : early'[i] = w[i] \ streams
         /\ entry' \in [Ids -> Entries]
         /\ \A i \in Ids : /\ entry'[i].state = e[i].state
                           /\ entry'[i].listeners = e[i].listeners \ streams
                           /\ entry'[i].pending = e[i].pending
         /\ \A i \in Ids : Known(i)' = (e[i].listeners \cup w[i]) \ streams
         /\ waiting' = IF w[id] \ streams = {} THEN RemoveFirst(waiting, id) ELSE waiting
  <1>1. /\ stream' \in [Streams -> {"new", "open", "closed"}]
        /\ \A s \in Streams : stream'[s] = IF s \in streams THEN "closed" ELSE stream[s]
    BY DEF Close, TypeOK
  <1>2. early' \in [Ids -> SUBSET Streams] /\ \A i \in Ids : early'[i] = w[i] \ streams
    BY DEF Close
  <1>3. entry' = [i \in Ids |-> [e[i] EXCEPT !.listeners = @ \ streams]]
    BY DEF Close
  <1>4. \A i \in Ids : /\ entry'[i] \in Entries
                      /\ entry'[i].state = e[i].state
                      /\ entry'[i].listeners = e[i].listeners \ streams
                      /\ entry'[i].pending = e[i].pending
    <2> SUFFICES ASSUME NEW i \in Ids
                 PROVE  /\ entry'[i] \in Entries
                        /\ entry'[i].state = e[i].state
                        /\ entry'[i].listeners = e[i].listeners \ streams
                        /\ entry'[i].pending = e[i].pending
      OBVIOUS
    <2>1. entry'[i] = [e[i] EXCEPT !.listeners = @ \ streams]
      BY <1>3
    <2>2. e[i] \in Entries
      OBVIOUS
    <2> QED
      BY <2>1, <2>2, ListenersLeave
  <1>5. entry' \in [Ids -> Entries]
    BY <1>3, <1>4
  <1>6. \A i \in Ids : Known(i)' = (e[i].listeners \cup w[i]) \ streams
    BY <1>2, <1>4 DEF Known
  <1>7. waiting' = IF w[id] \ streams = {} THEN RemoveFirst(waiting, id) ELSE waiting
    BY DEF Close
  <1> QED
    BY <1>1, <1>2, <1>4, <1>5, <1>6, <1>7

\* What a step must keep for the streams and the entries to stay known of each other.
TablesTyped ==
  /\ order \in Seq(Ids) /\ Len(order) <= MaxOpenings
  /\ entry \in [Ids -> Entries]
  /\ waiting \in Seq(Ids) /\ Len(waiting) <= MaxWaiting
  /\ early \in [Ids -> SUBSET Streams]
  /\ stream \in [Streams -> {"new", "open", "closed"}]

\* touch keeps the tables: its opening has the entry e without the streams told their last
\* word; an opening that gives way has neither words nor streams left; the others stay.
LEMMA TouchedKeepsTables ==
  ASSUME TablesInv, NEW id \in Ids, NEW STATE e, e \in Entries, e.listeners = Known(id),
         NEW STATE told, told \subseteq Known(id), Touched(id, e, told), target' = target
  PROVE  /\ TablesTyped' /\ TablesAreExact' /\ StreamsAreKnown'
         /\ Known(id)' = Known(id) \ told
         /\ entry'[id].state = e.state /\ entry'[id].pending = e.pending
         /\ \A i \in Ids \ {id} :
              IF i \in Evicted(id)
                THEN entry'[i].state = 0 /\ entry'[i].pending = "none" /\ Known(i)' = {}
              ELSE /\ entry'[i].state = entry[i].state /\ entry'[i].pending = entry[i].pending
                   /\ Known(i)' = Known(i)
         /\ \A s \in Streams : stream'[s] \in {stream[s], "closed"}
  <1> DEFINE gone == Evicted(id)
             left == told \cup UNION {entry[i].listeners : i \in gone}
             ee == [i \in Ids |-> IF i = id THEN e ELSE IF i \in gone THEN Blank ELSE entry[i]]
             ww == [early EXCEPT ![id] = {}]
  <1>1. /\ TypeOK /\ TablesAreExact /\ StreamsAreKnown
        /\ entry \in [Ids -> Entries] /\ early \in [Ids -> SUBSET Streams]
    BY DEF TablesInv, TypeOK, Entries
  <1>2. gone \subseteq Held \ {id} /\ Held \subseteq Ids
    <2>1. Held \subseteq Ids
      BY <1>1, LenProperties, ElementOfSeq DEF TypeOK, Held, ToSet
    <2> QED
      BY <1>1, <2>1, EvictedIsHeld
  <1>3. /\ order' \in Seq(Ids) /\ Len(order') <= MaxOpenings
        /\ Held' = (Held \ gone) \cup {id} /\ LineOf(order, Held)'
    BY <1>1, TouchedOrder DEF Touched
  <1>4. left \subseteq Streams /\ ee \in [Ids -> Entries] /\ ww \in [Ids -> SUBSET Streams]
    <2>1. \A i \in Ids : entry[i].listeners \subseteq Streams /\ early[i] \subseteq Streams
      BY <1>1 DEF Entries
    <2>2. left \subseteq Streams
      BY <1>2, <2>1 DEF Known
    <2>3. ee \in [Ids -> Entries]
      BY <1>1, BlankIsAnEntry
    <2> QED
      BY <1>1, <2>2, <2>3
  <1>5. Close(left, ee, ww, id)
    BY DEF Touched
  <1>6. \A i \in Ids : /\ ww[i] = IF i = id THEN {} ELSE early[i]
                      /\ ee[i] = IF i = id THEN e ELSE IF i \in gone THEN Blank ELSE entry[i]
    BY <1>1 DEF ww, ee
  <1>8. /\ \A s \in left : s \in told \/ \E i \in gone : s \in Known(i)
        /\ told \subseteq left /\ told \subseteq Known(id)
    BY <1>2 DEF Known
  <1>9. \A i \in Ids \ (gone \cup {id}) : Known(i) \cap left = {}
    BY <1>1, <1>2, <1>4, <1>8 DEF StreamsAreKnown
  <1>10. \A i \in gone : Known(i) \subseteq left /\ early[i] = {}
    BY <1>1, <1>2 DEF TablesAreExact, Known
  <1>11. Known(id) \cap left = told
    BY <1>1, <1>2, <1>4, <1>8 DEF StreamsAreKnown
  <1> HIDE DEF left, gone, ee, ww
  <1>7. /\ stream' \in [Streams -> {"new", "open", "closed"}]
        /\ \A s \in Streams : stream'[s] = IF s \in left THEN "closed" ELSE stream[s]
        /\ early' \in [Ids -> SUBSET Streams]
        /\ \A i \in Ids : early'[i] = ww[i] \ left
        /\ entry' \in [Ids -> Entries]
        /\ \A i \in Ids : /\ entry'[i].state = ee[i].state
                          /\ entry'[i].listeners = ee[i].listeners \ left
                          /\ entry'[i].pending = ee[i].pending
        /\ \A i \in Ids : Known(i)' = (ee[i].listeners \cup ww[i]) \ left
        /\ waiting' = IF ww[id] \ left = {} THEN RemoveFirst(waiting, id) ELSE waiting
    BY <1>1, <1>4, <1>5, CloseFields
  <1>12. /\ Known(id)' = Known(id) \ told
         /\ \A i \in Ids \ {id} : Known(i)' = IF i \in gone THEN {} ELSE Known(i)
    <2>1. Known(id)' = Known(id) \ told
      BY <1>6, <1>7, <1>11
    <2>2. ASSUME NEW i \in Ids \ {id} PROVE Known(i)' = IF i \in gone THEN {} ELSE Known(i)
      <3>1. CASE i \in gone
        BY <1>6, <1>7, <1>10, <3>1, BlankIsAnEntry
      <3>2. CASE i \notin gone
        <4>1. Known(i)' = Known(i) \ left
          BY <1>6, <1>7, <3>2 DEF Known
        <4> QED
          BY <1>9, <3>2, <4>1
      <3> QED
        BY <3>1, <3>2
    <2> QED
      BY <2>1, <2>2
  <1>13. \A i \in Ids : early'[i] = IF i = id THEN {} ELSE early[i]
    <2> SUFFICES ASSUME NEW i \in Ids PROVE early'[i] = IF i = id THEN {} ELSE early[i]
      OBVIOUS
    <2>1. CASE i = id
      BY <1>6, <1>7, <2>1
    <2>2. CASE i # id
      <3>1. early[i] \cap left = {} /\ early'[i] = early[i] \ left
        BY <1>6, <1>7, <1>9, <1>10, <2>2 DEF Known
      <3> QED
        BY <2>2, <3>1
    <2> QED
      BY <2>1, <2>2
  <1>14. Awaited' = Awaited \ {id}
    BY <1>13 DEF Awaited
  <1>15. waiting' \in Seq(Ids) /\ Len(waiting') <= MaxWaiting /\ LineOf(waiting, Awaited)'
    BY <1>1, <1>6, <1>7, <1>14, AwaitedLeaves
  <1>16. \A i \in Ids : IF i \in Held' THEN early'[i] = {}
                       ELSE entry'[i].state = 0 /\ entry'[i].listeners = {} /\ entry'[i].pending = "none"
    <2> SUFFICES ASSUME NEW i \in Ids
                 PROVE  IF i \in Held' THEN early'[i] = {}
                        ELSE entry'[i].state = 0 /\ entry'[i].listeners = {} /\ entry'[i].pending = "none"
      OBVIOUS
    <2>1. CASE i = id
      BY <1>3, <1>13, <2>1
    <2>2. CASE i # id /\ i \in gone
      BY <1>2, <1>3, <1>6, <1>7, <2>2, BlankIsAnEntry
    <2>3. CASE i # id /\ i \notin gone
      BY <1>1, <1>3, <1>6, <1>7, <1>13, <2>3 DEF TablesAreExact
    <2> QED
      BY <2>1, <2>2, <2>3
  <1>17. TablesAreExact'
    BY <1>3, <1>15, <1>16 DEF TablesAreExact
  <1>18. \A s \in Streams, i \in Ids : s \in Known(i)' <=> s \in Known(i) /\ s \notin left
    <2> SUFFICES ASSUME NEW s \in Streams, NEW i \in Ids
                 PROVE  s \in Known(i)' <=> s \in Known(i) /\ s \notin left
      OBVIOUS
    <2>1. CASE i = id
      BY <1>11, <1>12, <2>1
    <2>2. CASE i # id
      BY <1>9, <1>10, <1>12, <2>2
    <2> QED
      BY <2>1, <2>2
  <1>19. StreamsAreKnown'
    BY <1>1, <1>7, <1>18 DEF StreamsAreKnown
  <1>20. TablesTyped'
    BY <1>3, <1>7, <1>15 DEF TablesTyped
  <1>21. /\ entry'[id].state = e.state /\ entry'[id].pending = e.pending
         /\ \A i \in Ids \ {id} :
              IF i \in gone THEN entry'[i].state = 0 /\ entry'[i].pending = "none"
              ELSE entry'[i].state = entry[i].state /\ entry'[i].pending = entry[i].pending
    BY <1>6, <1>7, BlankIsAnEntry
  <1>22. \A s \in Streams : stream'[s] \in {stream[s], "closed"}
    BY <1>7
  <1> QED
    BY <1>12, <1>17, <1>19, <1>20, <1>21, <1>22 DEF gone

\* A stream leaves: by its page, or by the timer of one that waits.
LEMMA CloseKeepsTables ==
  ASSUME TablesInv, NEW s \in Streams, stream[s] = "open", Close({s}, entry, early, target[s]),
         UNCHANGED <<order, target>>
  PROVE  /\ TablesTyped' /\ TablesAreExact' /\ StreamsAreKnown'
         /\ \A i \in Ids : /\ Known(i)' = Known(i) \ {s}
                           /\ entry'[i].state = entry[i].state /\ entry'[i].pending = entry[i].pending
         /\ stream' = [stream EXCEPT ![s] = "closed"]
  <1>1. /\ TypeOK /\ TablesAreExact /\ StreamsAreKnown
        /\ entry \in [Ids -> Entries] /\ early \in [Ids -> SUBSET Streams]
    BY DEF TablesInv, TypeOK, Entries
  <1>2. target[s] \in Ids
    BY <1>1 DEF StreamsAreKnown
  <1>3. /\ stream' \in [Streams -> {"new", "open", "closed"}]
        /\ \A u \in Streams : stream'[u] = IF u \in {s} THEN "closed" ELSE stream[u]
        /\ early' \in [Ids -> SUBSET Streams]
        /\ \A i \in Ids : early'[i] = early[i] \ {s}
        /\ entry' \in [Ids -> Entries]
        /\ \A i \in Ids : /\ entry'[i].state = entry[i].state
                          /\ entry'[i].listeners = entry[i].listeners \ {s}
                          /\ entry'[i].pending = entry[i].pending
        /\ \A i \in Ids : Known(i)' = (entry[i].listeners \cup early[i]) \ {s}
        /\ waiting' = IF early[target[s]] \ {s} = {} THEN RemoveFirst(waiting, target[s]) ELSE waiting
    BY <1>1, CloseFields
  <1>4. Held' = Held /\ LineOf(order, Held)'
    BY <1>1 DEF TablesAreExact, Held, LineOf
  <1>5. \A i \in Ids \ {target[s]} : early'[i] = early[i]
    <2> SUFFICES ASSUME NEW i \in Ids \ {target[s]} PROVE early'[i] = early[i]
      OBVIOUS
    <2>1. s \notin early[i] /\ early'[i] = early[i] \ {s}
      BY <1>1, <1>3 DEF StreamsAreKnown, Known
    <2> QED
      BY <2>1
  <1>6. waiting' \in Seq(Ids) /\ Len(waiting') <= MaxWaiting /\ LineOf(waiting, Awaited)'
    <2>1. CASE early'[target[s]] = {}
      <3>1. waiting' = RemoveFirst(waiting, target[s])
        BY <1>2, <1>3, <2>1
      <3>2. Awaited' = Awaited \ {target[s]}
        BY <1>2, <1>5, <2>1 DEF Awaited
      <3> QED
        BY <1>1, <1>2, <3>1, <3>2, AwaitedLeaves
    <2>2. CASE early'[target[s]] # {}
      <3>1. waiting' = waiting
        BY <1>2, <1>3, <2>2
      <3>2. early[target[s]] # {}
        BY <1>2, <1>3, <2>2
      <3>3. Awaited' = Awaited
        BY <1>5, <2>2, <3>2 DEF Awaited
      <3> QED
        BY <1>1, <3>1, <3>3 DEF TypeOK, TablesAreExact, LineOf
    <2> QED
      BY <2>1, <2>2
  <1>7. TablesAreExact'
    BY <1>1, <1>3, <1>4, <1>6 DEF TablesAreExact
  <1>8. \A i \in Ids : Known(i)' = Known(i) \ {s}
    BY <1>3 DEF Known
  <1>9. StreamsAreKnown'
    BY <1>1, <1>3, <1>8 DEF StreamsAreKnown
  <1>10. TablesTyped'
    BY <1>1, <1>3, <1>6 DEF TablesTyped, TypeOK
  <1>11. stream' = [stream EXCEPT ![s] = "closed"]
    BY <1>1, <1>3 DEF TypeOK
  <1> QED
    BY <1>3, <1>7, <1>8, <1>9, <1>10, <1>11

LEMMA ForgetKeepsTables ==
  ASSUME TablesInv, NEW id \in Ids, Forget(id)
  PROVE  /\ TablesTyped' /\ TablesAreExact' /\ StreamsAreKnown'
         /\ entry'[id].state = 0 /\ entry'[id].pending = "none" /\ Known(id)' = {}
         /\ \A i \in Ids \ {id} :
              /\ entry'[i].state = entry[i].state /\ entry'[i].pending = entry[i].pending
              /\ Known(i)' = Known(i)
         /\ \A s \in Streams : stream'[s] \in {stream[s], "closed"}
  <1> DEFINE left == entry[id].listeners
             ee == [entry EXCEPT ![id] = Blank]
  <1>1. /\ TypeOK /\ TablesAreExact /\ StreamsAreKnown /\ id \in Held
        /\ entry \in [Ids -> Entries] /\ early \in [Ids -> SUBSET Streams]
    BY DEF TablesInv, TypeOK, Entries, Forget
  <1>2. left \subseteq Streams /\ ee \in [Ids -> Entries]
    BY <1>1, BlankIsAnEntry DEF Entries
  <1>3. order' = RemoveFirst(order, id) /\ UNCHANGED target
    BY DEF Forget
  <1>a. Close(left, ee, early, id)
    BY DEF Forget
  <1>4. early[id] = {} /\ Known(id) = left
    BY <1>1 DEF TablesAreExact, Known
  <1>5. \A i \in Ids \ {id} : Known(i) \cap left = {}
    BY <1>1, <1>2, <1>4 DEF StreamsAreKnown
  <1>6. \A i \in Ids : ee[i] = IF i = id THEN Blank ELSE entry[i]
    BY <1>1
  <1> HIDE DEF ee, left
  <1>7. /\ stream' \in [Streams -> {"new", "open", "closed"}]
        /\ \A s \in Streams : stream'[s] = IF s \in left THEN "closed" ELSE stream[s]
        /\ early' \in [Ids -> SUBSET Streams]
        /\ \A i \in Ids : early'[i] = early[i] \ left
        /\ entry' \in [Ids -> Entries]
        /\ \A i \in Ids : /\ entry'[i].state = ee[i].state
                          /\ entry'[i].listeners = ee[i].listeners \ left
                          /\ entry'[i].pending = ee[i].pending
        /\ \A i \in Ids : Known(i)' = (ee[i].listeners \cup early[i]) \ left
        /\ waiting' = IF early[id] \ left = {} THEN RemoveFirst(waiting, id) ELSE waiting
    BY <1>1, <1>2, <1>a, CloseFields
  <1>8. \A i \in Ids : early'[i] = early[i]
    <2> SUFFICES ASSUME NEW i \in Ids PROVE early'[i] = early[i]
      OBVIOUS
    <2>1. early[i] \cap left = {} /\ early'[i] = early[i] \ left
      BY <1>4, <1>5, <1>7 DEF Known
    <2> QED
      BY <2>1
  <1>9. waiting' \in Seq(Ids) /\ Len(waiting') <= MaxWaiting /\ LineOf(waiting, Awaited)'
    <2>1. waiting' = RemoveFirst(waiting, id)
      BY <1>4, <1>7
    <2>2. Awaited' = Awaited \ {id}
      BY <1>4, <1>8 DEF Awaited
    <2> QED
      BY <1>1, <2>1, <2>2, AwaitedLeaves
  <1>10. /\ order' \in Seq(Ids) /\ Len(order') <= MaxOpenings
         /\ Held' = Held \ {id} /\ LineOf(order, Held)'
    <2>1. /\ order \in Seq(Ids) /\ Len(order) \in Nat /\ Len(order) <= MaxOpenings
          /\ LineOf(order, Held) /\ MaxOpenings \in Nat
      BY <1>1, TablesAssumption, LenProperties DEF TypeOK, TablesAreExact
    <2>2. order' \in Seq(Ids) /\ Len(order') <= Len(order) /\ LineOf(order', Held \ {id})
      BY <1>3, <2>1, RemoveFirstLine
    <2>3. Len(order') \in Nat
      BY <2>2, LenProperties
    <2>4. Held' = Held \ {id}
      BY <2>2, LineSet DEF Held
    <2>5. LineOf(order', Held')
      BY <2>2, <2>4
    <2> QED
      BY <2>1, <2>2, <2>3, <2>4, <2>5
  <1>11. Known(id)' = {} /\ \A i \in Ids \ {id} : Known(i)' = Known(i)
    <2>1. Known(id)' = {}
      BY <1>4, <1>6, <1>7, BlankIsAnEntry
    <2>2. \A i \in Ids \ {id} : Known(i)' = Known(i) \ left
      BY <1>6, <1>7 DEF Known
    <2> QED
      BY <1>5, <2>1, <2>2
  <1>12. /\ entry'[id].state = 0 /\ entry'[id].pending = "none" /\ entry'[id].listeners = {}
         /\ \A i \in Ids \ {id} :
              entry'[i].state = entry[i].state /\ entry'[i].pending = entry[i].pending
    BY <1>6, <1>7, BlankIsAnEntry
  <1>13. \A i \in Ids \ {id} : entry[i].listeners = {} => entry'[i].listeners = {}
    BY <1>6, <1>7
  <1>14. \A i \in Ids : IF i \in Held' THEN early'[i] = {}
                       ELSE entry'[i].state = 0 /\ entry'[i].listeners = {} /\ entry'[i].pending = "none"
    BY <1>1, <1>8, <1>10, <1>12, <1>13 DEF TablesAreExact
  <1>15. TablesAreExact'
    BY <1>9, <1>10, <1>14 DEF TablesAreExact
  <1>16. \A s \in Streams, i \in Ids : s \in Known(i)' <=> s \in Known(i) /\ s \notin left
    BY <1>4, <1>5, <1>11
  <1>17. StreamsAreKnown'
    BY <1>1, <1>3, <1>7, <1>16 DEF StreamsAreKnown
  <1>18. TablesTyped'
    BY <1>7, <1>9, <1>10 DEF TablesTyped
  <1>19. \A s \in Streams : stream'[s] \in {stream[s], "closed"}
    BY <1>7
  <1> QED
    BY <1>11, <1>12, <1>15, <1>17, <1>18, <1>19

\* Nothing enters or leaves a table, and no stream changes sides.
LEMMA SameTables ==
  ASSUME TablesInv, UNCHANGED <<order, waiting, early, target>>,
         entry' \in [Ids -> Entries],
         \A i \in Ids : entry'[i].listeners = entry[i].listeners /\ entry'[i].state = entry[i].state,
         \A i \in Ids \ Held : entry'[i].pending = entry[i].pending,
         stream' \in [Streams -> {"new", "open", "closed"}],
         \A s \in Streams : stream'[s] = stream[s] \/ (stream[s] = "new" /\ stream'[s] = "closed")
  PROVE  /\ TablesTyped' /\ TablesAreExact' /\ StreamsAreKnown'
         /\ \A i \in Ids : Known(i)' = Known(i)
  <1>1. TypeOK /\ TablesAreExact /\ StreamsAreKnown
    BY DEF TablesInv
  <1>2. \A i \in Ids : Known(i)' = Known(i)
    BY DEF Known
  <1>3. Held' = Held /\ Awaited' = Awaited
    BY DEF Held, Awaited
  <1>4. LineOf(order, Held)' /\ LineOf(waiting, Awaited)'
    BY <1>1, <1>3 DEF TablesAreExact, LineOf
  <1>5. TablesAreExact'
    BY <1>1, <1>3, <1>4 DEF TablesAreExact
  <1>6. StreamsAreKnown'
    BY <1>1, <1>2 DEF StreamsAreKnown
  <1>7. TablesTyped'
    BY <1>1 DEF TablesTyped, TypeOK
  <1> QED
    BY <1>2, <1>5, <1>6, <1>7

\* A stream of an opening that is held: it enters the entry, or is closed at once.
LEMMA FollowKeepsTables ==
  ASSUME TablesInv, NEW s \in Streams, NEW id \in Ids, FollowOpening(s, id)
  PROVE  /\ TablesTyped' /\ TablesAreExact' /\ StreamsAreKnown'
         /\ \A i \in Ids : /\ entry'[i].state = entry[i].state /\ entry'[i].pending = entry[i].pending
                           /\ Known(i)' \subseteq Known(i) \cup (IF i = id THEN {s} ELSE {})
  <1>1. /\ TypeOK /\ TablesAreExact /\ StreamsAreKnown /\ id \in Held /\ stream[s] = "new"
        /\ entry \in [Ids -> Entries] /\ target' = [target EXCEPT ![s] = id]
        /\ UNCHANGED <<order, waiting, early>>
    BY DEF TablesInv, TypeOK, Entries, FollowOpening
  <1>2. Held' = Held /\ Awaited' = Awaited
    BY <1>1 DEF Held, Awaited
  <1>3. LineOf(order, Held)' /\ LineOf(waiting, Awaited)'
    BY <1>1, <1>2 DEF TablesAreExact, LineOf
  <1>4. CASE stream' = [stream EXCEPT ![s] = "closed"] /\ UNCHANGED entry
    <2>1. \A i \in Ids : Known(i)' = Known(i)
      BY <1>1, <1>4 DEF Known
    <2>2. TablesAreExact'
      BY <1>1, <1>2, <1>3, <1>4 DEF TablesAreExact
    <2>3. StreamsAreKnown'
      BY <1>1, <1>4, <2>1 DEF StreamsAreKnown, TypeOK
    <2>4. TablesTyped'
      BY <1>1, <1>4 DEF TypeOK, TablesTyped
    <2> QED
      BY <1>4, <2>1, <2>2, <2>3, <2>4
  <1>5. CASE /\ stream' = [stream EXCEPT ![s] = "open"]
             /\ entry' = [entry EXCEPT ![id].listeners = @ \cup {s}]
    <2> DEFINE f == [entry[id] EXCEPT !.listeners = @ \cup {s}]
    <2>1. /\ f \in Entries /\ f.state = entry[id].state /\ f.pending = entry[id].pending
          /\ f.listeners = entry[id].listeners \cup {s}
      BY <1>1 DEF Entries
    <2>2. entry' = [entry EXCEPT ![id] = f]
      BY <1>5
    <2> HIDE DEF f
    <2>3. /\ entry' \in [Ids -> Entries]
          /\ \A i \in Ids : /\ entry'[i].state = entry[i].state /\ entry'[i].pending = entry[i].pending
                            /\ entry'[i].listeners = IF i = id THEN entry[i].listeners \cup {s}
                                                     ELSE entry[i].listeners
      BY <1>1, <2>1, <2>2
    <2>4. \A i \in Ids : Known(i)' = IF i = id THEN Known(i) \cup {s} ELSE Known(i)
      <3> SUFFICES ASSUME NEW i \in Ids
                   PROVE  Known(i)' = IF i = id THEN Known(i) \cup {s} ELSE Known(i)
        OBVIOUS
      <3>1. CASE i = id
        BY <1>1, <2>3, <3>1 DEF Known
      <3>2. CASE i # id
        BY <1>1, <2>3, <3>2 DEF Known
      <3> QED
        BY <3>1, <3>2
    <2>5. TablesAreExact'
      BY <1>1, <1>2, <1>3, <2>3 DEF TablesAreExact
    <2>6. StreamsAreKnown'
      <3>1. \A u \in Streams : /\ stream'[u] = IF u = s THEN "open" ELSE stream[u]
                              /\ target'[u] = IF u = s THEN id ELSE target[u]
        BY <1>1, <1>5 DEF TypeOK
      <3>2. ASSUME NEW u \in Streams, NEW i \in Ids, u \in Known(i)'
            PROVE  stream'[u] = "open" /\ target'[u] = i
        BY <1>1, <2>4, <3>1, <3>2 DEF StreamsAreKnown
      <3>3. ASSUME NEW u \in Streams, stream'[u] = "open"
            PROVE  \E i \in Ids : u \in Known(i)'
        <4>1. u = s => u \in Known(id)'
          BY <2>4
        <4>2. u # s => \E i \in Ids : u \in Known(i)
          BY <1>1, <3>1, <3>3 DEF StreamsAreKnown
        <4> QED
          BY <2>4, <4>1, <4>2
      <3> QED
        BY <3>2, <3>3 DEF StreamsAreKnown
    <2>7. TablesTyped'
      BY <1>1, <1>5, <2>3 DEF TypeOK, TablesTyped
    <2> QED
      BY <2>3, <2>4, <2>5, <2>6, <2>7
  <1> QED
    BY <1>4, <1>5 DEF FollowOpening

\* A stream whose opening has not come: the id it waits for enters the line, whose oldest
\* gives way when it is full.
LEMMA WaitKeepsTables ==
  ASSUME TablesInv, NEW s \in Streams, NEW id \in Ids, Wait(s, id)
  PROVE  /\ TablesTyped' /\ TablesAreExact' /\ StreamsAreKnown'
         /\ \A i \in Ids : Known(i)' \subseteq Known(i) \cup (IF i = id THEN {s} ELSE {})
         /\ \A u \in Streams : stream'[u] = "new" => stream[u] = "new" /\ u # s
  <1> DEFINE full == id \notin ToSet(waiting) /\ Len(waiting) >= MaxWaiting
             gone == IF full THEN early[Head(waiting)] ELSE {}
             line == IF full THEN Tail(waiting) ELSE waiting
  <1>1. /\ TypeOK /\ TablesAreExact /\ StreamsAreKnown /\ id \in Ids \ Held /\ stream[s] = "new"
        /\ entry \in [Ids -> Entries] /\ early \in [Ids -> SUBSET Streams]
        /\ stream \in [Streams -> {"new", "open", "closed"}]
        /\ UNCHANGED <<order, entry>>
    BY DEF TablesInv, TypeOK, Entries, Wait
  <1>2. /\ target' = [target EXCEPT ![s] = id]
        /\ stream' = [t \in Streams |-> IF t = s THEN "open" ELSE IF t \in gone THEN "closed" ELSE stream[t]]
        /\ early' = [i \in Ids |-> IF i = id THEN early[i] \cup {s} ELSE early[i] \ gone]
        /\ waiting' = IF id \in ToSet(line) THEN line ELSE Append(line, id)
    BY DEF Wait
  <1>3. /\ waiting \in Seq(Ids) /\ Len(waiting) \in Nat /\ Len(waiting) <= MaxWaiting
        /\ MaxWaiting \in Nat \ {0} /\ LineOf(waiting, Awaited) /\ ToSet(waiting) = Awaited
    <2>1. LineOf(waiting, Awaited)
      BY <1>1 DEF TablesAreExact
    <2> QED
      BY <1>1, <2>1, LineSet, TablesAssumption, LenProperties DEF TypeOK
  <1>4. PICK first :
          /\ gone = IF full THEN early[first] ELSE {}
          /\ full => first \in Awaited \ {id}
          /\ line \in Seq(Ids) /\ Len(line) <= Len(waiting) /\ (full => Len(line) < MaxWaiting)
          /\ LineOf(line, IF full THEN Awaited \ {first} ELSE Awaited)
    <2>1. CASE ~full
      BY <1>3, <2>1
    <2>2. CASE full
      <3>1. waiting # << >>
        BY <1>3, <2>2
      <3>2. /\ Head(waiting) \in Awaited /\ Tail(waiting) \in Seq(Ids)
            /\ Len(Tail(waiting)) = Len(waiting) - 1
            /\ LineOf(Tail(waiting), Awaited \ {Head(waiting)})
        BY <1>3, <3>1, TailLine
      <3>3. Head(waiting) # id
        BY <1>3, <2>2, <3>2
      <3>4. Len(Tail(waiting)) <= Len(waiting) /\ Len(Tail(waiting)) < MaxWaiting
        BY <1>3, <3>2
      <3>5. gone = early[Head(waiting)] /\ line = Tail(waiting)
        BY <2>2
      <3> HIDE DEF gone, line, full
      <3> QED
        BY <2>2, <3>2, <3>3, <3>4, <3>5
    <2> QED
      BY <2>1, <2>2
  <1>5. full \/ id \in ToSet(waiting) \/ Len(waiting) < MaxWaiting
    BY <1>3
  <1>6. ~full => line = waiting
    OBVIOUS
  <1>7. first \in Awaited => first \in Ids
    BY DEF Awaited
  <1> HIDE DEF full, gone, line
  <1>8. \A i \in Ids : i # first => early[i] \cap gone = {}
    BY <1>1, <1>4, <1>7 DEF StreamsAreKnown, Known
  <1>9. \A i \in Ids : early'[i] = IF i = id THEN early[i] \cup {s}
                                  ELSE IF full /\ i = first THEN {} ELSE early[i]
    <2> SUFFICES ASSUME NEW i \in Ids, i # id
                 PROVE  early'[i] = IF full /\ i = first THEN {} ELSE early[i]
      BY <1>2
    <2>1. early'[i] = early[i] \ gone
      BY <1>2
    <2>2. CASE full /\ i = first
      BY <1>4, <2>1, <2>2
    <2>3. CASE ~full
      <3>1. gone = {}
        BY <1>4, <2>3
      <3> QED
        BY <2>1, <2>3, <3>1
    <2>4. CASE i # first
      <3>1. early[i] \cap gone = {}
        BY <1>8, <2>4
      <3> QED
        BY <2>1, <2>4, <3>1
    <2> QED
      BY <2>2, <2>3, <2>4
  <1>10. Awaited' = (IF full THEN Awaited \ {first} ELSE Awaited) \cup {id}
    BY <1>9 DEF Awaited
  <1>11. waiting' \in Seq(Ids) /\ Len(waiting') <= MaxWaiting /\ LineOf(waiting, Awaited)'
    <2> DEFINE W == IF full THEN Awaited \ {first} ELSE Awaited
    <2>1. LineOf(line, W) /\ ToSet(line) = W
      BY <1>4, LineSet
    <2>2. Len(line) \in Nat
      BY <1>4, LenProperties
    <2>3. CASE id \in W
      <3>1. waiting' = line
        BY <1>2, <2>1, <2>3
      <3>2. Awaited' = W
        BY <1>10, <2>3
      <3> HIDE DEF W
      <3>3. LineOf(waiting', Awaited')
        BY <2>1, <3>1, <3>2
      <3>4. Len(line) <= MaxWaiting
        BY <1>3, <1>4, <2>2
      <3> QED
        BY <1>4, <3>1, <3>3, <3>4
    <2>4. CASE id \notin W
      <3>1. waiting' = Append(line, id)
        BY <1>2, <2>1, <2>4
      <3>2. Len(line) < MaxWaiting
        BY <1>3, <1>4, <1>5, <1>6, <2>4
      <3> HIDE DEF W
      <3>3. LineOf(Append(line, id), W \cup {id})
        BY <1>4, <2>1, <2>4, AppendLine
      <3>4. Append(line, id) \in Seq(Ids) /\ Len(Append(line, id)) = Len(line) + 1
        BY <1>4, AppendProperties
      <3>5. Awaited' = W \cup {id}
        BY <1>10 DEF W
      <3>6. LineOf(waiting', Awaited')
        BY <3>1, <3>3, <3>5
      <3>7. Len(Append(line, id)) <= MaxWaiting
        BY <1>3, <2>2, <3>2, <3>4
      <3> QED
        BY <3>1, <3>4, <3>6, <3>7
    <2> QED
      BY <2>3, <2>4
  <1>12. Held' = Held /\ LineOf(order, Held)'
    BY <1>1 DEF Held, TablesAreExact, LineOf
  <1>13. \A i \in Held : early'[i] = {}
    <2>1. \A i \in Held : i \in Ids
      BY <1>1, LenProperties, ElementOfSeq DEF TypeOK, Held, ToSet
    <2>2. \A i \in Held : early[i] = {} /\ i # id
      BY <1>1, <2>1 DEF TablesAreExact
    <2> QED
      BY <1>9, <2>1, <2>2
  <1>14. TablesAreExact'
    BY <1>1, <1>11, <1>12, <1>13 DEF TablesAreExact
  <1>15. \A i \in Ids : Known(i)' = IF i = id THEN Known(i) \cup {s}
                                   ELSE IF full /\ i = first THEN {} ELSE Known(i)
    <2> SUFFICES ASSUME NEW i \in Ids
                 PROVE  Known(i)' = IF i = id THEN Known(i) \cup {s}
                                    ELSE IF full /\ i = first THEN {} ELSE Known(i)
      OBVIOUS
    <2>1. CASE i = id
      BY <1>1, <1>9, <2>1 DEF Known
    <2>2. CASE i # id /\ ~(full /\ i = first)
      BY <1>1, <1>9, <2>2 DEF Known
    <2>3. CASE i # id /\ full /\ i = first
      <3>1. early[i] # {}
        BY <1>4, <2>3 DEF Awaited
      <3>2. entry[i].listeners = {}
        BY <1>1, <3>1 DEF TablesAreExact
      <3> QED
        BY <1>1, <1>9, <2>3, <3>2 DEF Known
    <2> QED
      BY <2>1, <2>2, <2>3
  <1>16. \A u \in Streams : /\ stream'[u] = IF u = s THEN "open" ELSE IF u \in gone THEN "closed" ELSE stream[u]
                           /\ target'[u] = IF u = s THEN id ELSE target[u]
    BY <1>1, <1>2 DEF TypeOK
  <1>17. full => gone = Known(first) /\ first \in Ids
    <2>1. full => early[first] # {} /\ first \in Ids
      BY <1>4 DEF Awaited
    <2>2. full => entry[first].listeners = {}
      BY <1>1, <2>1 DEF TablesAreExact
    <2> QED
      BY <1>4, <2>1, <2>2 DEF Known
  <1>18. ~full => gone = {}
    BY <1>4
  <1>19. StreamsAreKnown'
    <2>1. ASSUME NEW u \in Streams, NEW i \in Ids, u \in Known(i)'
          PROVE  stream'[u] = "open" /\ target'[u] = i
      <3>1. CASE u = s
        BY <1>1, <1>15, <1>16, <2>1, <3>1 DEF StreamsAreKnown
      <3>2. CASE u # s
        <4>1. u \in Known(i) /\ ~(full /\ i = first /\ i # id)
          BY <1>15, <2>1, <3>2
        <4>2. stream[u] = "open" /\ target[u] = i
          BY <1>1, <4>1 DEF StreamsAreKnown
        <4>3. u \notin gone
          BY <1>1, <1>4, <1>17, <1>18, <4>1, <4>2 DEF StreamsAreKnown
        <4> QED
          BY <1>16, <3>2, <4>2, <4>3
      <3> QED
        BY <3>1, <3>2
    <2>2. ASSUME NEW u \in Streams, stream'[u] = "open"
          PROVE  \E i \in Ids : u \in Known(i)'
      <3>1. CASE u = s
        <4>1. u \in Known(id)'
          BY <1>15, <3>1
        <4> QED
          BY <4>1
      <3>2. CASE u # s
        <4>1. u \notin gone /\ stream[u] = "open"
          BY <1>16, <2>2, <3>2
        <4>2. PICK i \in Ids : u \in Known(i)
          BY <1>1, <4>1 DEF StreamsAreKnown
        <4>3. ~(full /\ i = first)
          BY <1>17, <4>1, <4>2
        <4> QED
          BY <1>15, <4>1, <4>2, <4>3
      <3> QED
        BY <3>1, <3>2
    <2> QED
      BY <2>1, <2>2 DEF StreamsAreKnown
  <1>20. stream' \in [Streams -> {"new", "open", "closed"}] /\ early' \in [Ids -> SUBSET Streams]
    BY <1>1, <1>2
  <1>21. TablesTyped'
    BY <1>1, <1>11, <1>20 DEF TypeOK, TablesTyped
  <1> QED
    BY <1>14, <1>15, <1>16, <1>19, <1>21

-----------------------------------------------------------------------------
(* The words. *)

\* A stream hears one word more: the same as its last, one of the same stage, or the next.
LEMMA HearsNext ==
  ASSUME NEW words, Len(words) \in Nat, NEW h \in Seq(Nat), InOrder(h, words), NEW n \in 1 .. Len(words),
         h # << >> => Last(h) <= n /\ (words[Last(h)] # words[n] => n = Last(h) + 1)
  PROVE  /\ Append(h, n) \in Seq(Nat) /\ Append(h, n) # << >>
         /\ Last(Append(h, n)) = n
         /\ InOrder(Append(h, n), words)
  <1> DEFINE a == Append(h, n)
  <1>1. /\ a \in Seq(Nat) /\ Len(h) \in Nat /\ Len(a) = Len(h) + 1
        /\ \A k \in 1 .. Len(h) : a[k] = h[k]
        /\ a[Len(h) + 1] = n
    BY AppendProperties, LenProperties
  <1> HIDE DEF a
  <1>2. a # << >> /\ Last(a) = n
    BY <1>1 DEF Last
  <1>3. \A k \in 1 .. Len(a) : a[k] \in 1 .. Len(words)
    <2> SUFFICES ASSUME NEW k \in 1 .. Len(a) PROVE a[k] \in 1 .. Len(words)
      OBVIOUS
    <2>1. k \in 1 .. Len(h) \/ k = Len(h) + 1
      BY <1>1
    <2> QED
      BY <1>1, <2>1 DEF InOrder
  <1>4. ASSUME NEW k \in 2 .. Len(a)
        PROVE  a[k - 1] <= a[k] /\ (words[a[k - 1]] # words[a[k]] => a[k] = a[k - 1] + 1)
    <2>1. CASE k <= Len(h)
      <3>1. k \in 2 .. Len(h) /\ k \in 1 .. Len(h) /\ k - 1 \in 1 .. Len(h)
        BY <1>1, <2>1
      <3>2. a[k] = h[k] /\ a[k - 1] = h[k - 1]
        BY <1>1, <3>1
      <3> QED
        BY <3>1, <3>2 DEF InOrder
    <2>2. CASE ~(k <= Len(h))
      <3>1. k = Len(h) + 1 /\ k - 1 = Len(h) /\ Len(h) >= 1
        BY <1>1, <2>2
      <3>2. a[k] = n /\ a[k - 1] = Last(h) /\ h # << >>
        BY <1>1, <3>1 DEF Last
      <3> QED
        BY <3>2
    <2> QED
      BY <2>1, <2>2
  <1> QED
    BY <1>1, <1>2, <1>3, <1>4 DEF InOrder, a

\* What was heard stays in order when a word is said.
LEMMA SaidMore ==
  ASSUME NEW words \in Seq(1 .. Failed), NEW stage \in 1 .. Failed, NEW h \in Seq(Nat), InOrder(h, words)
  PROVE  InOrder(h, Append(words, stage))
  <1>1. /\ Len(words) \in Nat /\ Len(Append(words, stage)) = Len(words) + 1
        /\ \A k \in 1 .. Len(words) : Append(words, stage)[k] = words[k]
    BY AppendProperties, LenProperties
  <1>2. Len(h) \in Nat
    BY LenProperties
  <1>3. \A k \in 2 .. Len(h) : k - 1 \in 1 .. Len(h) /\ k \in 1 .. Len(h)
    BY <1>2
  <1> DEFINE more == Append(words, stage)
  <1>4. \A k \in 1 .. Len(h) : h[k] \in 1 .. Len(words) /\ h[k] \in 1 .. Len(more) /\ more[h[k]] = words[h[k]]
    <2>1. \A k \in 1 .. Len(h) : h[k] \in 1 .. Len(words)
      BY DEF InOrder
    <2>2. 1 .. Len(words) \subseteq 1 .. Len(more)
      BY <1>1
    <2> QED
      BY <1>1, <2>1, <2>2
  <1> HIDE DEF more
  <1>5. ASSUME NEW k \in 2 .. Len(h)
        PROVE  h[k - 1] <= h[k] /\ (more[h[k - 1]] # more[h[k]] => h[k] = h[k - 1] + 1)
    <2>1. h[k - 1] <= h[k] /\ (words[h[k - 1]] # words[h[k]] => h[k] = h[k - 1] + 1)
      BY DEF InOrder
    <2> QED
      BY <1>3, <1>4, <2>1
  <1> QED
    BY <1>4, <1>5 DEF InOrder, more

\* Only a timer, a table or a stream that had heard nothing changes.
LEMMA WordsKept ==
  ASSUME WordsAreHeard, UNCHANGED <<said, heard>>,
         \A s \in Streams : target'[s] = target[s] \/ heard[s] = << >>,
         \A s \in Streams : stream'[s] = "new" => stream[s] = "new",
         \A i \in Ids :
           \/ entry'[i].state = entry[i].state /\ entry'[i].pending = entry[i].pending
           \/ entry'[i].state = 0 /\ entry'[i].pending = "none",
         \A i \in Ids : \A s \in Known(i)' :
           \/ s \in Known(i) /\ entry'[i].state = entry[i].state /\ entry'[i].pending = entry[i].pending
           \/ entry'[i].state = 0 /\ heard[s] = << >>
  PROVE  WordsAreHeard'
  <1>1. \A i \in Ids : \A s \in Known(i)' : ToldWhereItStands(i, s)'
    BY DEF WordsAreHeard, ToldWhereItStands
  <1>2. (\A s \in Streams : stream[s] = "new" => heard[s] = << >>)'
    BY DEF WordsAreHeard
  <1>3. (\A s \in Streams : heard[s] # << >> => target[s] \in Ids /\ InOrder(heard[s], said[target[s]]))'
    BY DEF WordsAreHeard, InOrder
  <1>4. (\A i \in Ids : entry[i].state \in {0, Len(said[i])})'
    BY DEF WordsAreHeard
  <1>5. (\A i \in Ids : entry[i].state = 0 => entry[i].pending = "none")'
    BY DEF WordsAreHeard
  <1> QED
    BY <1>1, <1>2, <1>3, <1>4, <1>5 DEF WordsAreHeard

\* A word, or two, after those a stream has heard.
LEMMA OneMore ==
  ASSUME NEW h \in Seq(Nat), NEW x \in Nat, NEW y \in Nat
  PROVE  /\ h \o (<< >> \o << >>) = h
         /\ h \o (<< >> \o <<x>>) = Append(h, x)
         /\ h \o (<<x>> \o <<y>>) = Append(Append(h, x), y)
  <1>1. << >> \o << >> = << >> /\ << >> \o <<x>> = <<x>> /\ <<x>> \in Seq(Nat) /\ <<y>> \in Seq(Nat)
    OBVIOUS
  <1>2. h \o << >> = h
    BY ConcatEmptySeq
  <1>3. Append(h, x) = h \o <<x>> /\ Append(h, x) \in Seq(Nat)
    BY AppendIsConcat, AppendProperties
  <1>4. Append(Append(h, x), y) = Append(h, x) \o <<y>>
    BY <1>3, AppendIsConcat
  <1>5. h \o (<<x>> \o <<y>>) = (h \o <<x>>) \o <<y>>
    BY <1>1, ConcatAssociative
  <1> QED
    BY <1>1, <1>2, <1>3, <1>4, <1>5

\* What a stream known of an opening hears of a word published.
LEMMA HearsPublished ==
  ASSUME ProgressInv, NEW id \in Ids, NEW s \in Known(id), NEW stage \in 1 .. Failed
  PROVE  LET words == Append(said[id], stage)
             w == Len(said[id]) + 1
             h == heard[s] \o Words(id, stage, w)
         IN  /\ h \in Seq(Nat) /\ InOrder(h, words)
             /\ IF GoesOut(id, stage) THEN h # << >> /\ Last(h) = w
                ELSE h = heard[s] /\ heard[s] # << >> /\ words[Last(heard[s])] = stage
  <1> DEFINE words == Append(said[id], stage)
             w == Len(said[id]) + 1
             h == heard[s] \o Words(id, stage, w)
  <1>a. words = Append(said[id], stage) /\ w = Len(said[id]) + 1
        /\ h = heard[s] \o Words(id, stage, w)
    OBVIOUS
  <1> HIDE DEF words, w, h
  <1> SUFFICES /\ h \in Seq(Nat) /\ InOrder(h, words)
               /\ IF GoesOut(id, stage) THEN h # << >> /\ Last(h) = w
                  ELSE h = heard[s] /\ heard[s] # << >> /\ words[Last(heard[s])] = stage
    BY DEF words, w, h
  <1> USE <1>a
  <1> DEFINE h0 == heard[s]
             n == entry[id].state
             m == Last(heard[s])
  <1>1. /\ TypeOK /\ TablesAreExact /\ StreamsAreKnown /\ WordsAreHeard
        /\ said[id] \in Seq(1 .. Failed) /\ s \in Streams /\ Failed \in Nat
    <2>1. s \in Streams
      BY DEF ProgressInv, TablesInv, TypeOK, Known
    <2>2. Failed \in Nat
      BY TablesAssumption DEF Failed
    <2> QED
      BY <2>1, <2>2 DEF ProgressInv, TablesInv, TypeOK
  <1>2. h0 \in Seq(Nat) /\ Len(h0) \in Nat /\ Len(said[id]) \in Nat
    BY <1>1, LenProperties DEF TypeOK
  <1>3. /\ Len(words) = w /\ w \in Nat \ {0} /\ words[w] = stage
        /\ \A k \in 1 .. (w - 1) : words[k] = said[id][k]
    BY <1>1, <1>2, AppendProperties
  <1>4. Entry(id).state = n /\ Entry(id).pending = entry[id].pending
    BY <1>1, EntryFields
  <1>5. n \in {0, w - 1} /\ n \in Nat
    BY <1>1, <1>2 DEF WordsAreHeard
  <1>6. SameStage(id, stage) <=> n # 0 /\ said[id][n] = stage
    BY <1>4, <1>5 DEF SameStage, Stage
  <1>7. InOrder(h0, words)
    <2>1. CASE h0 = << >>
      BY <2>1 DEF InOrder
    <2>2. CASE h0 # << >>
      <3>1. target[s] = id
        BY <1>1 DEF StreamsAreKnown
      <3>2. InOrder(h0, said[id])
        BY <1>1, <2>2, <3>1 DEF WordsAreHeard
      <3> QED
        BY <1>1, <1>2, <3>2, SaidMore
    <2> QED
      BY <2>1, <2>2
  <1>8. ToldWhereItStands(id, s)
    BY <1>1 DEF WordsAreHeard
  <1>9. w \in Nat /\ n \in Nat /\ h0 \in Seq(Nat) /\ h = h0 \o Words(id, stage, w)
    BY <1>2, <1>3, <1>5
  <1>10. w \in 1 .. Len(words) /\ Len(words) \in Nat
    BY <1>3
  <1>11. CASE n = 0
    <2>1. h0 = << >> /\ ~SameStage(id, stage) /\ entry[id].pending = "none"
      BY <1>1, <1>6, <1>8, <1>11 DEF ToldWhereItStands, WordsAreHeard
    <2>2. GoesOut(id, stage)
      BY <2>1 DEF GoesOut
    <2>3. Words(id, stage, w) = << >> \o <<w>>
      BY <1>4, <2>1, <2>2 DEF Words
    <2>4. h = Append(h0, w)
      <3>1. h0 \o (<< >> \o <<w>>) = Append(h0, w)
        BY <1>9, OneMore
      <3>2. h = h0 \o (<< >> \o <<w>>)
        BY <1>9, <2>3, Zenon
      <3> QED
        BY <3>1, <3>2, Zenon
    <2> HIDE DEF h0, n, m
    <2>5. /\ Append(h0, w) \in Seq(Nat) /\ Append(h0, w) # << >>
          /\ Last(Append(h0, w)) = w /\ InOrder(Append(h0, w), words)
      BY <1>9, <1>7, <1>10, <2>1, HearsNext
    <2> QED
      BY <2>2, <2>4, <2>5
  <1>12. CASE n # 0
    <2>1. n = w - 1 /\ n \in 1 .. Len(words) /\ w = n + 1 /\ words[n] = said[id][n]
      BY <1>3, <1>5, <1>12
    <2>2. /\ h0 # << >>
          /\ m = n \/ (entry[id].pending = "armed" /\ said[id][m] = said[id][n])
      BY <1>8, <1>12 DEF ToldWhereItStands
    <2>3. m \in 1 .. n
      <3>1. InOrder(h0, said[id])
        BY <1>1, <2>2 DEF WordsAreHeard, StreamsAreKnown
      <3>2. Len(h0) \in 1 .. Len(h0)
        BY <1>2, <2>2, EmptySeq
      <3>3. h0[Len(h0)] \in 1 .. Len(said[id])
        BY <3>1, <3>2 DEF InOrder
      <3> QED
        BY <1>2, <2>1, <3>3 DEF Last
    <2>4. words[m] = words[n] /\ m <= n /\ m <= w
      BY <1>3, <1>5, <2>1, <2>2, <2>3
    <2>5. Last(h0) = m
      OBVIOUS
    <2>6. SameStage(id, stage) <=> words[n] = stage
      BY <1>6, <1>12, <2>1
    <2> HIDE DEF h0, n, m
    <2>7. CASE ~GoesOut(id, stage)
      <3>1. SameStage(id, stage)
        BY <2>7 DEF GoesOut
      <3>2. Words(id, stage, w) = << >> \o << >>
        BY <2>7, <3>1 DEF Words
      <3>3. h = h0
        BY <1>9, <3>2, OneMore
      <3> QED
        BY <1>2, <1>7, <2>2, <2>4, <2>5, <2>6, <2>7, <3>1, <3>3 DEF h0
    <2>8. CASE GoesOut(id, stage) /\ ~(entry[id].pending # "none" /\ ~SameStage(id, stage))
      <3>1. Words(id, stage, w) = << >> \o <<w>>
        BY <1>4, <2>8 DEF Words
      <3>2. h = Append(h0, w)
        <4>1. h0 \o (<< >> \o <<w>>) = Append(h0, w)
          BY <1>9, OneMore
        <4>2. h = h0 \o (<< >> \o <<w>>)
          BY <1>9, <3>1, Zenon
        <4> QED
          BY <4>1, <4>2, Zenon
      <3>3. words[m] # words[w] => w = m + 1
        <4>1. CASE SameStage(id, stage)
          BY <1>3, <2>4, <2>6, <4>1
        <4>2. CASE entry[id].pending = "none"
          BY <2>1, <2>2, <4>2
        <4> QED
          BY <2>8, <4>1, <4>2
      <3>4. /\ Append(h0, w) \in Seq(Nat) /\ Append(h0, w) # << >>
            /\ Last(Append(h0, w)) = w /\ InOrder(Append(h0, w), words)
        BY <1>9, <1>7, <1>10, <2>4, <2>5, <3>3, HearsNext
      <3> QED
        BY <2>8, <3>2, <3>4
    <2>9. CASE entry[id].pending # "none" /\ ~SameStage(id, stage)
      <3>1. GoesOut(id, stage)
        BY <2>9 DEF GoesOut
      <3>2. Words(id, stage, w) = <<n>> \o <<w>>
        BY <1>4, <2>9, <3>1 DEF Words
      <3> DEFINE h1 == Append(h0, n)
      <3>3. h1 \in Seq(Nat) /\ h1 # << >> /\ Last(h1) = n /\ InOrder(h1, words)
        BY <1>2, <1>3, <1>7, <2>1, <2>4, <2>5, HearsNext
      <3>4. h = Append(h1, w)
        <4>1. h0 \o (<<n>> \o <<w>>) = Append(h1, w)
          BY <1>9, OneMore
        <4>2. h = h0 \o (<<n>> \o <<w>>)
          BY <1>9, <3>2, Zenon
        <4> QED
          BY <4>1, <4>2, Zenon
      <3> HIDE DEF h1
      <3>5. /\ Append(h1, w) \in Seq(Nat) /\ Append(h1, w) # << >>
            /\ Last(Append(h1, w)) = w /\ InOrder(Append(h1, w), words)
        <4>1. Last(h1) <= w /\ w = Last(h1) + 1
          BY <1>9, <2>1, <3>3
        <4> QED
          BY <1>9, <1>10, <3>3, <4>1, HearsNext
      <3> QED
        BY <3>1, <3>4, <3>5
    <2> QED
      BY <2>7, <2>8, <2>9
  <1> QED
    BY <1>11, <1>12

-----------------------------------------------------------------------------
(* Every action keeps the inductive invariant. *)

LEMMA TypesTogether ==
  ASSUME TablesTyped',
         request' \in [Ids -> {"new", "running", "left", "ended"}],
         said' \in [Ids -> Seq(1 .. Failed)],
         target' \in [Streams -> Ids \cup {None}],
         heard' \in [Streams -> Seq(Nat)]
  PROVE  TypeOK'
  BY DEF TablesTyped, TypeOK, Entries

LEMMA PublishKeepsInv ==
  ASSUME ProgressInv, NEW id \in Ids, NEW stage \in 1 .. Failed, Publish(id, stage),
         request' \in [Ids -> {"new", "running", "left", "ended"}]
  PROVE  ProgressInv'
  <1> DEFINE w == Len(said[id]) + 1
             out == GoesOut(id, stage)
             known == Known(id)
             e == [Entry(id) EXCEPT !.state = w, !.pending = IF out THEN "none" ELSE "armed",
                                    !.due = IF out THEN FALSE ELSE @]
             told == IF stage \in Final THEN known ELSE {}
  <1>1. /\ TypeOK /\ TablesAreExact /\ StreamsAreKnown /\ WordsAreHeard /\ TablesInv
        /\ said \in [Ids -> Seq(1 .. Failed)] /\ Len(said[id]) \in Nat
        /\ heard \in [Streams -> Seq(Nat)]
    BY LenProperties DEF ProgressInv, TablesInv, TypeOK
  <1>2. Entry(id) \in Entries /\ Entry(id).listeners = known
    BY <1>1, EntryFields
  <1>3. out \in BOOLEAN
    BY DEF GoesOut
  <1>4. /\ said' = [said EXCEPT ![id] = Append(@, stage)]
        /\ heard' = [s \in Streams |-> IF s \in known THEN heard[s] \o Words(id, stage, w) ELSE heard[s]]
        /\ Touched(id, e, told)
        /\ target' = target
    BY <1>2 DEF Publish
  <1>5. w \in Nat \ {0}
    BY <1>1
  <1> HIDE DEF out, w, known
  <1>6. e \in Entries /\ e.state = w /\ e.listeners = known /\ e.pending = IF out THEN "none" ELSE "armed"
    <2> DEFINE e0 == Entry(id)
    <2>1. e0 \in Entries /\ e0.listeners = known
      BY <1>2
    <2>2. e = [e0 EXCEPT !.state = w, !.pending = IF out THEN "none" ELSE "armed",
                         !.due = IF out THEN FALSE ELSE @]
      OBVIOUS
    <2> HIDE DEF e, e0
    <2> QED
      BY <1>3, <1>5, <2>1, <2>2 DEF Entries
  <1>7. told \subseteq known
    OBVIOUS
  <1> HIDE DEF e, told
  <1>8. /\ TablesTyped' /\ TablesAreExact' /\ StreamsAreKnown'
        /\ Known(id)' = Known(id) \ told
        /\ entry'[id].state = e.state /\ entry'[id].pending = e.pending
        /\ \A i \in Ids \ {id} :
             IF i \in Evicted(id)
               THEN entry'[i].state = 0 /\ entry'[i].pending = "none" /\ Known(i)' = {}
             ELSE /\ entry'[i].state = entry[i].state /\ entry'[i].pending = entry[i].pending
                  /\ Known(i)' = Known(i)
        /\ \A s \in Streams : stream'[s] \in {stream[s], "closed"}
    BY <1>1, <1>4, <1>6, <1>7, TouchedKeepsTables DEF known
  <1>9. /\ said'[id] = Append(said[id], stage) /\ \A i \in Ids \ {id} : said'[i] = said[i]
        /\ Len(said'[id]) = w /\ said'[id][w] = stage
        /\ said' \in [Ids -> Seq(1 .. Failed)]
    <2>1. /\ Append(said[id], stage) \in Seq(1 .. Failed)
          /\ Len(Append(said[id], stage)) = w /\ Append(said[id], stage)[w] = stage
      BY <1>1, AppendProperties DEF w
    <2> QED
      BY <1>1, <1>4, <2>1
  <1>10. ASSUME NEW s \in known
         PROVE  /\ heard'[s] \in Seq(Nat) /\ InOrder(heard'[s], said'[id])
                /\ IF out THEN heard'[s] # << >> /\ Last(heard'[s]) = w
                   ELSE /\ heard'[s] = heard[s] /\ heard[s] # << >>
                        /\ said'[id][Last(heard[s])] = stage
    <2>1. s \in Known(id) /\ s \in Streams
      BY <1>1 DEF known, Known, TypeOK
    <2>2. heard'[s] = heard[s] \o Words(id, stage, w)
      BY <1>4, <2>1
    <2>3. said'[id] = Append(said[id], stage)
      BY <1>9
    <2> DEFINE words == Append(said[id], stage)
               h == heard[s] \o Words(id, stage, Len(said[id]) + 1)
    <2>4. /\ h \in Seq(Nat) /\ InOrder(h, words)
          /\ IF GoesOut(id, stage) THEN h # << >> /\ Last(h) = Len(said[id]) + 1
             ELSE h = heard[s] /\ heard[s] # << >> /\ words[Last(heard[s])] = stage
      BY <2>1, HearsPublished
    <2>5. heard'[s] = h /\ said'[id] = words /\ w = Len(said[id]) + 1
      BY <2>2, <2>3 DEF w
    <2> HIDE DEF words, h
    <2> QED
      BY <2>4, <2>5 DEF out
  <1>11. \A s \in Streams \ known : heard'[s] = heard[s]
    BY <1>4
  <1>12. heard' \in [Streams -> Seq(Nat)]
    <2>1. \A s \in Streams : heard'[s] \in Seq(Nat)
      BY <1>1, <1>10, <1>11
    <2> QED
      BY <1>4, <2>1
  <1>13. TypeOK'
    BY <1>1, <1>4, <1>8, <1>9, <1>12, TypesTogether DEF TypeOK
  <1>14. known = Known(id)
    BY DEF known
  <1>15. ASSUME NEW s \in Streams, stream'[s] = "new" PROVE heard'[s] = << >>
    <2>1. stream[s] = "new"
      BY <1>8, <1>15
    <2>2. s \notin known
      BY <1>1, <1>14, <2>1 DEF StreamsAreKnown
    <2> QED
      BY <1>1, <1>11, <2>1, <2>2 DEF WordsAreHeard
  <1>16. ASSUME NEW s \in Streams, heard'[s] # << >>
         PROVE  target'[s] \in Ids /\ InOrder(heard'[s], said'[target'[s]])
    <2>1. CASE s \in known
      <3>1. target'[s] = id
        BY <1>1, <1>4, <1>14, <2>1 DEF StreamsAreKnown
      <3> QED
        BY <1>10, <2>1, <3>1
    <2>2. CASE s \notin known
      <3>1. target[s] \in Ids /\ InOrder(heard[s], said[target[s]])
        BY <1>1, <1>11, <1>16, <2>2 DEF WordsAreHeard
      <3>2. InOrder(heard[s], said'[target[s]])
        <4>1. CASE target[s] = id
          <5>1. said[id] \in Seq(1 .. Failed) /\ heard[s] \in Seq(Nat) /\ InOrder(heard[s], said[id])
            BY <1>1, <3>1, <4>1
          <5>2. InOrder(heard[s], Append(said[id], stage))
            BY <5>1, SaidMore
          <5> QED
            BY <1>9, <4>1, <5>2
        <4>2. CASE target[s] # id
          BY <1>9, <3>1, <4>2
        <4> QED
          BY <4>1, <4>2
      <3> QED
        BY <1>4, <1>11, <2>2, <3>1, <3>2
    <2> QED
      BY <2>1, <2>2
  <1>17. ASSUME NEW i \in Ids
         PROVE  /\ entry'[i].state \in {0, Len(said'[i])}
                /\ entry'[i].state = 0 => entry'[i].pending = "none"
    <2>1. CASE i = id
      BY <1>5, <1>6, <1>8, <1>9, <2>1
    <2>2. CASE i # id
      BY <1>1, <1>8, <1>9, <2>2 DEF WordsAreHeard
    <2> QED
      BY <2>1, <2>2
  <1>18. ASSUME NEW i \in Ids, NEW s \in Known(i)' PROVE ToldWhereItStands(i, s)'
    <2>1. CASE i = id
      <3>1. s \in known
        BY <1>8, <1>14, <2>1
      <3>2. entry'[i].state = w /\ (~out => entry'[i].pending = "armed")
        BY <1>6, <1>8, <2>1
      <3> QED
        BY <1>5, <1>9, <1>10, <2>1, <3>1, <3>2 DEF ToldWhereItStands
    <2>2. CASE i # id
      <3>1. /\ s \in Known(i) /\ i \notin Evicted(id)
            /\ entry'[i].state = entry[i].state /\ entry'[i].pending = entry[i].pending
        BY <1>8, <2>2
      <3>2. s \notin known /\ s \in Streams
        BY <1>1, <1>14, <2>2, <3>1 DEF StreamsAreKnown, Known, TypeOK
      <3>3. ToldWhereItStands(i, s)
        BY <1>1, <3>1 DEF WordsAreHeard
      <3> QED
        BY <1>9, <1>11, <2>2, <3>1, <3>2, <3>3 DEF ToldWhereItStands
    <2> QED
      BY <2>1, <2>2
  <1>19. WordsAreHeard'
    BY <1>15, <1>16, <1>17, <1>18 DEF WordsAreHeard
  <1> QED
    BY <1>8, <1>13, <1>19 DEF ProgressInv, TablesInv

LEMMA BeginKeepsInv ==
  ASSUME ProgressInv, NEW id \in Ids, Begin(id)
  PROVE  ProgressInv'
  <1> DEFINE e == Entry(id)
  <1>1. TypeOK /\ TablesAreExact /\ StreamsAreKnown /\ WordsAreHeard /\ TablesInv
    BY DEF ProgressInv, TablesInv
  <1>2. Touched(id, e, {}) /\ UNCHANGED <<said, target, heard>>
    BY DEF Begin
  <1>3. /\ e \in Entries /\ e.listeners = Known(id) /\ e.state = entry[id].state
        /\ e.pending = entry[id].pending
    BY <1>1, EntryFields
  <1> HIDE DEF e
  <1>4. /\ TablesTyped' /\ TablesAreExact' /\ StreamsAreKnown'
        /\ Known(id)' = Known(id) \ {}
        /\ entry'[id].state = e.state /\ entry'[id].pending = e.pending
        /\ \A i \in Ids \ {id} :
             IF i \in Evicted(id)
               THEN entry'[i].state = 0 /\ entry'[i].pending = "none" /\ Known(i)' = {}
             ELSE /\ entry'[i].state = entry[i].state /\ entry'[i].pending = entry[i].pending
                  /\ Known(i)' = Known(i)
        /\ \A s \in Streams : stream'[s] \in {stream[s], "closed"}
    BY <1>1, <1>2, <1>3, TouchedKeepsTables
  <1>5. /\ entry'[id].state = entry[id].state /\ entry'[id].pending = entry[id].pending
        /\ Known(id)' = Known(id)
    BY <1>3, <1>4
  <1>6. WordsAreHeard'
    BY <1>1, <1>2, <1>4, <1>5, WordsKept
  <1>7. TypeOK'
    BY <1>1, <1>2, <1>4, TypesTogether DEF TypeOK, Begin
  <1> QED
    BY <1>4, <1>6, <1>7 DEF ProgressInv, TablesInv

LEMMA SayingKeepsInv ==
  ASSUME ProgressInv, NEW id \in Ids, Report(id) \/ Answer(id) \/ Leave(id)
  PROVE  ProgressInv'
  <1>1. Working \in Nat \ {0} /\ Failed = Working + 2 /\ Final = {Working + 1, Working + 2}
    BY TablesAssumption DEF Failed, Done, Final
  <1>2. request' \in [Ids -> {"new", "running", "left", "ended"}]
    BY DEF ProgressInv, TablesInv, TypeOK, Report, Answer, Leave
  <1>3. \E stage \in 1 .. Failed : Publish(id, stage)
    <2>1. CASE Report(id)
      <3>1. PICK stage \in 1 .. Working : Publish(id, stage)
        BY <2>1 DEF Report
      <3>2. stage \in 1 .. Failed
        BY <1>1
      <3> QED
        BY <3>1, <3>2
    <2>2. CASE Answer(id)
      <3>1. PICK stage \in Final : Publish(id, stage)
        BY <2>2 DEF Answer
      <3>2. stage \in 1 .. Failed
        BY <1>1
      <3> QED
        BY <3>1, <3>2
    <2>3. CASE Leave(id)
      <3>1. Publish(id, Failed) /\ Failed \in 1 .. Failed
        BY <1>1, <2>3 DEF Leave
      <3> QED
        BY <3>1
    <2> QED
      BY <2>1, <2>2, <2>3
  <1> QED
    BY <1>2, <1>3, PublishKeepsInv

LEMMA ElapseKeepsInv ==
  ASSUME ProgressInv, NEW id \in Ids, Elapse(id)
  PROVE  ProgressInv'
  <1> DEFINE f == [entry[id] EXCEPT !.due = TRUE]
  <1>1. /\ TypeOK /\ WordsAreHeard /\ TablesInv /\ entry \in [Ids -> Entries]
        /\ UNCHANGED <<order, waiting, early, request, said, stream, target, heard>>
    BY DEF ProgressInv, TablesInv, TypeOK, Entries, Elapse
  <1>2. entry' = [entry EXCEPT ![id] = f]
    BY DEF Elapse
  <1>3. /\ f \in Entries /\ f.state = entry[id].state /\ f.pending = entry[id].pending
        /\ f.listeners = entry[id].listeners
    BY <1>1 DEF Entries
  <1> HIDE DEF f
  <1>4. /\ entry' \in [Ids -> Entries]
        /\ \A i \in Ids : /\ entry'[i].state = entry[i].state /\ entry'[i].pending = entry[i].pending
                          /\ entry'[i].listeners = entry[i].listeners
    BY <1>1, <1>2, <1>3
  <1>5. /\ TablesTyped' /\ TablesAreExact' /\ StreamsAreKnown'
        /\ \A i \in Ids : Known(i)' = Known(i)
    BY <1>1, <1>4, SameTables DEF TypeOK
  <1>6. WordsAreHeard'
    BY <1>1, <1>4, <1>5, WordsKept
  <1>7. TypeOK'
    BY <1>1, <1>5, TypesTogether DEF TypeOK
  <1> QED
    BY <1>5, <1>6, <1>7 DEF ProgressInv, TablesInv

\* The timer of a held count writes it once more, or for the first time.
LEMMA TellHeldKeepsInv ==
  ASSUME ProgressInv, NEW id \in Ids, TellHeld(id)
  PROVE  ProgressInv'
  <1> DEFINE f == [state |-> entry[id].state, listeners |-> entry[id].listeners,
                   pending |-> "fired", due |-> FALSE]
             n == entry[id].state
  <1>1. /\ TypeOK /\ TablesAreExact /\ StreamsAreKnown /\ WordsAreHeard /\ TablesInv
        /\ entry \in [Ids -> Entries] /\ heard \in [Streams -> Seq(Nat)]
        /\ id \in Held /\ entry[id].pending = "armed"
        /\ UNCHANGED <<order, waiting, early, request, said, stream, target>>
    BY DEF ProgressInv, TablesInv, TypeOK, Entries, TellHeld
  <1>2. entry' = [entry EXCEPT ![id] = f]
    BY <1>1 DEF TellHeld, Entries
  <1>3. /\ f \in Entries /\ f.state = entry[id].state /\ f.pending = "fired"
        /\ f.listeners = entry[id].listeners
    BY <1>1 DEF Entries
  <1> HIDE DEF f
  <1>4. /\ entry' \in [Ids -> Entries]
        /\ \A i \in Ids : /\ entry'[i].state = entry[i].state
                          /\ entry'[i].listeners = entry[i].listeners
                          /\ i # id => entry'[i].pending = entry[i].pending
        /\ entry'[id].pending = "fired"
    BY <1>1, <1>2, <1>3
  <1>5. /\ TablesTyped' /\ TablesAreExact' /\ StreamsAreKnown'
        /\ \A i \in Ids : Known(i)' = Known(i)
    BY <1>1, <1>4, SameTables DEF TypeOK
  <1>6. /\ Known(id) = entry[id].listeners /\ Known(id) \subseteq Streams
        /\ \A s \in Streams : heard'[s] = IF s \in Known(id) THEN Append(heard[s], n) ELSE heard[s]
    BY <1>1 DEF TablesAreExact, Known, TypeOK, TellHeld
  <1>7. n = Len(said[id]) /\ n \in 1 .. Len(said[id]) /\ Len(said[id]) \in Nat
    <2>1. Len(said[id]) \in Nat
      BY <1>1, LenProperties DEF TypeOK
    <2>2. n # 0 /\ n \in {0, Len(said[id])}
      BY <1>1 DEF WordsAreHeard
    <2> QED
      BY <2>1, <2>2
  <1>8. ASSUME NEW s \in Known(id)
        PROVE  /\ heard'[s] \in Seq(Nat) /\ heard'[s] # << >> /\ Last(heard'[s]) = n
               /\ InOrder(heard'[s], said[id])
    <2>1. heard[s] \in Seq(Nat) /\ heard'[s] = Append(heard[s], n) /\ target[s] = id
      BY <1>1, <1>6 DEF StreamsAreKnown
    <2>2. heard[s] # << >> /\ InOrder(heard[s], said[id])
      BY <1>1, <1>6, <1>7, <2>1 DEF WordsAreHeard, ToldWhereItStands
    <2>3. Len(heard[s]) \in 1 .. Len(heard[s])
      BY <2>1, <2>2, EmptySeq, LenProperties
    <2>4. Last(heard[s]) \in 1 .. n
      BY <1>7, <2>2, <2>3 DEF InOrder, Last
    <2>5. said[id][Last(heard[s])] = said[id][n]
      BY <1>1, <1>7 DEF WordsAreHeard, ToldWhereItStands
    <2>6. Last(heard[s]) <= n /\ n \in Nat
      BY <1>7, <2>4
    <2> HIDE DEF n
    <2>7. /\ Append(heard[s], n) \in Seq(Nat) /\ Append(heard[s], n) # << >>
          /\ Last(Append(heard[s], n)) = n /\ InOrder(Append(heard[s], n), said[id])
      BY <1>7, <2>1, <2>2, <2>5, <2>6, HearsNext
    <2> QED
      BY <2>1, <2>7
  <1>9. heard' \in [Streams -> Seq(Nat)]
    <2>1. \A s \in Streams : heard'[s] \in Seq(Nat)
      BY <1>1, <1>6, <1>8
    <2> QED
      BY <2>1 DEF TellHeld
  <1>10. TypeOK'
    BY <1>1, <1>5, <1>9, TypesTogether DEF TypeOK
  <1>11. ASSUME NEW s \in Streams, stream'[s] = "new" PROVE heard'[s] = << >>
    BY <1>1, <1>6, <1>11 DEF StreamsAreKnown, WordsAreHeard
  <1>12. ASSUME NEW s \in Streams, heard'[s] # << >>
         PROVE  target'[s] \in Ids /\ InOrder(heard'[s], said'[target'[s]])
    <2>1. CASE s \in Known(id)
      BY <1>1, <1>8, <2>1 DEF StreamsAreKnown
    <2>2. CASE s \notin Known(id)
      BY <1>1, <1>6, <1>12, <2>2 DEF WordsAreHeard
    <2> QED
      BY <2>1, <2>2
  <1>13. ASSUME NEW i \in Ids
         PROVE  /\ entry'[i].state \in {0, Len(said'[i])}
                /\ entry'[i].state = 0 => entry'[i].pending = "none"
    BY <1>1, <1>4, <1>7 DEF WordsAreHeard
  <1>14. ASSUME NEW i \in Ids, NEW s \in Known(i)' PROVE ToldWhereItStands(i, s)'
    <2>1. CASE i = id
      BY <1>4, <1>5, <1>7, <1>8, <2>1 DEF ToldWhereItStands
    <2>2. CASE i # id
      <3>1. s \in Known(i) /\ s \notin Known(id) /\ s \in Streams
        BY <1>1, <1>5, <2>2 DEF StreamsAreKnown, Known, TypeOK
      <3>2. ToldWhereItStands(i, s)
        BY <1>1, <3>1 DEF WordsAreHeard
      <3> QED
        BY <1>1, <1>4, <1>6, <2>2, <3>1, <3>2 DEF ToldWhereItStands
    <2> QED
      BY <2>1, <2>2
  <1>15. WordsAreHeard'
    BY <1>11, <1>12, <1>13, <1>14 DEF WordsAreHeard
  <1> QED
    BY <1>5, <1>10, <1>15 DEF ProgressInv, TablesInv

LEMMA ForgetKeepsInv ==
  ASSUME ProgressInv, NEW id \in Ids, Forget(id)
  PROVE  ProgressInv'
  <1>1. TypeOK /\ WordsAreHeard /\ TablesInv /\ UNCHANGED <<request, said, target, heard>>
    BY DEF ProgressInv, TablesInv, Forget
  <1>2. /\ TablesTyped' /\ TablesAreExact' /\ StreamsAreKnown'
        /\ entry'[id].state = 0 /\ entry'[id].pending = "none" /\ Known(id)' = {}
        /\ \A i \in Ids \ {id} :
             /\ entry'[i].state = entry[i].state /\ entry'[i].pending = entry[i].pending
             /\ Known(i)' = Known(i)
        /\ \A s \in Streams : stream'[s] \in {stream[s], "closed"}
    BY <1>1, ForgetKeepsTables
  <1>3. WordsAreHeard'
    BY <1>1, <1>2, WordsKept
  <1>4. TypeOK'
    BY <1>1, <1>2, TypesTogether DEF TypeOK
  <1> QED
    BY <1>2, <1>3, <1>4 DEF ProgressInv, TablesInv

LEMMA LeavingKeepsInv ==
  ASSUME ProgressInv, NEW s \in Streams, GiveUp(s) \/ Quit(s)
  PROVE  ProgressInv'
  <1>1. /\ TypeOK /\ WordsAreHeard /\ TablesInv /\ stream[s] = "open"
        /\ Close({s}, entry, early, target[s]) /\ UNCHANGED <<order, request, said, target, heard>>
    BY DEF ProgressInv, TablesInv, GiveUp, Quit
  <1>2. /\ TablesTyped' /\ TablesAreExact' /\ StreamsAreKnown'
        /\ \A i \in Ids : /\ Known(i)' = Known(i) \ {s}
                          /\ entry'[i].state = entry[i].state /\ entry'[i].pending = entry[i].pending
        /\ stream' = [stream EXCEPT ![s] = "closed"]
    BY <1>1, CloseKeepsTables
  <1>3. \A u \in Streams : stream'[u] = "new" => stream[u] = "new"
    BY <1>1, <1>2 DEF TypeOK
  <1>4. WordsAreHeard'
    BY <1>1, <1>2, <1>3, WordsKept
  <1>5. TypeOK'
    BY <1>1, <1>2, TypesTogether DEF TypeOK
  <1> QED
    BY <1>2, <1>4, <1>5 DEF ProgressInv, TablesInv

LEMMA RefuseKeepsInv ==
  ASSUME ProgressInv, NEW s \in Streams, NEW id \in Ids, Refuse(s, id)
  PROVE  ProgressInv'
  <1>1. /\ TypeOK /\ WordsAreHeard /\ TablesInv /\ stream[s] = "new"
        /\ stream' = [stream EXCEPT ![s] = "closed"]
        /\ UNCHANGED <<order, entry, waiting, early, request, said, target, heard>>
        /\ entry \in [Ids -> Entries]
    BY DEF ProgressInv, TablesInv, TypeOK, Entries, Refuse
  <1>2. /\ stream' \in [Streams -> {"new", "open", "closed"}]
        /\ \A u \in Streams : stream'[u] = IF u = s THEN "closed" ELSE stream[u]
    BY <1>1 DEF TypeOK
  <1>3. /\ TablesTyped' /\ TablesAreExact' /\ StreamsAreKnown'
        /\ \A i \in Ids : Known(i)' = Known(i)
    BY <1>1, <1>2, SameTables
  <1>4. WordsAreHeard'
    BY <1>1, <1>2, <1>3, WordsKept
  <1>5. TypeOK'
    BY <1>1, <1>3, TypesTogether DEF TypeOK
  <1> QED
    BY <1>3, <1>4, <1>5 DEF ProgressInv, TablesInv

LEMMA WaitKeepsInv ==
  ASSUME ProgressInv, NEW s \in Streams, NEW id \in Ids, Wait(s, id)
  PROVE  ProgressInv'
  <1>1. /\ TypeOK /\ TablesAreExact /\ WordsAreHeard /\ TablesInv /\ stream[s] = "new" /\ id \notin Held
        /\ target' = [target EXCEPT ![s] = id]
        /\ UNCHANGED <<entry, request, said, heard>>
    BY DEF ProgressInv, TablesInv, Wait
  <1>2. /\ TablesTyped' /\ TablesAreExact' /\ StreamsAreKnown'
        /\ \A i \in Ids : Known(i)' \subseteq Known(i) \cup (IF i = id THEN {s} ELSE {})
        /\ \A u \in Streams : stream'[u] = "new" => stream[u] = "new" /\ u # s
    BY <1>1, WaitKeepsTables
  <1>3. heard[s] = << >> /\ entry[id].state = 0
    BY <1>1 DEF WordsAreHeard, TablesAreExact
  <1>4. /\ target' \in [Streams -> Ids \cup {None}]
        /\ \A u \in Streams : target'[u] = target[u] \/ heard[u] = << >>
    BY <1>1, <1>3 DEF TypeOK
  <1>5. WordsAreHeard'
    BY <1>1, <1>2, <1>3, <1>4, WordsKept
  <1>6. TypeOK'
    BY <1>1, <1>2, <1>4, TypesTogether DEF TypeOK
  <1> QED
    BY <1>2, <1>5, <1>6 DEF ProgressInv, TablesInv

\* A stream that finds its opening hears its state at once.
LEMMA FollowKeepsInv ==
  ASSUME ProgressInv, NEW s \in Streams, NEW id \in Ids, FollowOpening(s, id)
  PROVE  ProgressInv'
  <1> DEFINE n == entry[id].state
  <1>1. /\ TypeOK /\ TablesAreExact /\ StreamsAreKnown /\ WordsAreHeard /\ TablesInv /\ stream[s] = "new"
        /\ target' = [target EXCEPT ![s] = id]
        /\ heard' = IF n = 0 THEN heard ELSE [heard EXCEPT ![s] = <<n>>]
        /\ UNCHANGED <<request, said>>
        /\ heard \in [Streams -> Seq(Nat)] /\ entry \in [Ids -> Entries]
    BY DEF ProgressInv, TablesInv, FollowOpening, TypeOK, Entries
  <1>2. /\ TablesTyped' /\ TablesAreExact' /\ StreamsAreKnown'
        /\ \A i \in Ids : /\ entry'[i].state = entry[i].state /\ entry'[i].pending = entry[i].pending
                          /\ Known(i)' \subseteq Known(i) \cup (IF i = id THEN {s} ELSE {})
    BY <1>1, FollowKeepsTables
  <1>3. heard[s] = << >> /\ \A i \in Ids : s \notin Known(i)
    BY <1>1 DEF WordsAreHeard, StreamsAreKnown
  <1>4. n \in Nat /\ n \in {0, Len(said[id])} /\ Len(said[id]) \in Nat
    BY <1>1, LenProperties DEF WordsAreHeard, Entries, TypeOK
  <1> HIDE DEF n
  <1>5. \A u \in Streams : /\ heard'[u] = IF u = s /\ n # 0 THEN <<n>> ELSE heard[u]
                           /\ target'[u] = IF u = s THEN id ELSE target[u]
                           /\ stream'[u] = "new" => stream[u] = "new" /\ u # s
    <2>1. ASSUME NEW u \in Streams PROVE heard'[u] = IF u = s /\ n # 0 THEN <<n>> ELSE heard[u]
      <3>1. CASE n = 0
        BY <1>1, <3>1
      <3>2. CASE n # 0
        BY <1>1, <3>2
      <3> QED
        BY <3>1, <3>2
    <2>2. ASSUME NEW u \in Streams PROVE target'[u] = IF u = s THEN id ELSE target[u]
      BY <1>1 DEF TypeOK
    <2>3. stream \in [Streams -> {"new", "open", "closed"}]
      BY <1>1 DEF TypeOK
    <2>4. \/ stream' = [stream EXCEPT ![s] = "closed"]
          \/ stream' = [stream EXCEPT ![s] = "open"]
      BY DEF FollowOpening
    <2>5. ASSUME NEW u \in Streams, stream'[u] = "new" PROVE stream[u] = "new" /\ u # s
      BY <2>3, <2>4, <2>5
    <2>6. \A u \in Streams : stream'[u] = "new" => stream[u] = "new" /\ u # s
      BY <2>5
    <2>7. \A u \in Streams : heard'[u] = IF u = s /\ n # 0 THEN <<n>> ELSE heard[u]
      BY <2>1
    <2>8. \A u \in Streams : target'[u] = IF u = s THEN id ELSE target[u]
      BY <2>2
    <2> QED
      BY <2>6, <2>7, <2>8
  <1>6. heard' \in [Streams -> Seq(Nat)] /\ target' \in [Streams -> Ids \cup {None}]
    BY <1>1, <1>4 DEF TypeOK
  <1>7. TypeOK'
    BY <1>1, <1>2, <1>6, TypesTogether DEF TypeOK
  <1>8. n # 0 => InOrder(<<n>>, said[id]) /\ Last(<<n>>) = n /\ <<n>> # << >>
    BY <1>4 DEF InOrder, Last
  <1>9. ASSUME NEW u \in Streams, stream'[u] = "new" PROVE heard'[u] = << >>
    <2>1. stream[u] = "new" /\ u # s /\ heard'[u] = heard[u]
      BY <1>5, <1>9
    <2> QED
      BY <1>1, <2>1 DEF WordsAreHeard
  <1>10. ASSUME NEW u \in Streams, heard'[u] # << >>
         PROVE  target'[u] \in Ids /\ InOrder(heard'[u], said'[target'[u]])
    <2>1. CASE u = s
      BY <1>1, <1>3, <1>5, <1>8, <1>10, <2>1
    <2>2. CASE u # s
      BY <1>1, <1>5, <1>10, <2>2 DEF WordsAreHeard
    <2> QED
      BY <2>1, <2>2
  <1>11. ASSUME NEW i \in Ids
         PROVE  /\ entry'[i].state \in {0, Len(said'[i])}
                /\ entry'[i].state = 0 => entry'[i].pending = "none"
    BY <1>1, <1>2 DEF WordsAreHeard
  <1>12. ASSUME NEW i \in Ids, NEW u \in Known(i)' PROVE ToldWhereItStands(i, u)'
    <2>1. CASE u = s
      <3>1. i = id
        BY <1>2, <1>3, <2>1
      <3>2. s \in Streams /\ entry'[id].state = n
        BY <1>2 DEF n
      <3> QED
        BY <1>3, <1>5, <1>8, <2>1, <3>1, <3>2 DEF ToldWhereItStands
    <2>2. CASE u # s
      <3>1. u \in Known(i) /\ u \in Streams
        BY <1>1, <1>2, <2>2 DEF Known, TypeOK
      <3>2. ToldWhereItStands(i, u)
        BY <1>1, <3>1 DEF WordsAreHeard
      <3> QED
        BY <1>1, <1>2, <1>5, <2>2, <3>1, <3>2 DEF ToldWhereItStands
    <2> QED
      BY <2>1, <2>2
  <1>13. WordsAreHeard'
    BY <1>9, <1>10, <1>11, <1>12 DEF WordsAreHeard
  <1> QED
    BY <1>2, <1>7, <1>13 DEF ProgressInv, TablesInv

-----------------------------------------------------------------------------
(* The results. *)

LEMMA InitHolds == Init => ProgressInv
  <1> SUFFICES ASSUME Init PROVE ProgressInv
    OBVIOUS
  <1>1. /\ order = << >> /\ waiting = << >> /\ Held = {} /\ Awaited = {}
        /\ \A i \in Ids : Known(i) = {} /\ entry[i].state = 0 /\ entry[i].listeners = {}
                         /\ entry[i].pending = "none"
        /\ Blank \in Entries
    BY BlankIsAnEntry DEF Init, Held, Awaited, Known, ToSet
  <1>2. TypeOK
    <2>1. /\ << >> \in Seq(Ids) /\ Len(<< >>) = 0 /\ << >> \in Seq(Nat) /\ << >> \in Seq(1 .. Failed)
          /\ 0 <= MaxOpenings /\ 0 <= MaxWaiting
      BY TablesAssumption
    <2>2. entry \in [Ids -> Entries]
      BY <1>1 DEF Init
    <2> QED
      BY <2>1, <2>2 DEF Init, TypeOK, Entries
  <1>3. LineOf(order, Held) /\ LineOf(waiting, Awaited)
    BY <1>1 DEF LineOf
  <1>4. TablesAreExact
    BY <1>1, <1>3 DEF TablesAreExact
  <1>5. StreamsAreKnown
    BY <1>1 DEF StreamsAreKnown, Init
  <1>6. WordsAreHeard
    BY <1>1 DEF WordsAreHeard, Init
  <1> QED
    BY <1>2, <1>4, <1>5, <1>6 DEF ProgressInv, TablesInv

LEMMA NextKeepsInv == ProgressInv /\ [Next]_vars => ProgressInv'
  <1> SUFFICES ASSUME ProgressInv, [Next]_vars PROVE ProgressInv'
    OBVIOUS
  <1>1. CASE UNCHANGED vars
    <2>1. /\ TypeOK /\ WordsAreHeard /\ TablesInv /\ entry \in [Ids -> Entries]
          /\ UNCHANGED <<order, entry, waiting, early, request, said, stream, target, heard>>
      BY <1>1 DEF vars, ProgressInv, TablesInv, TypeOK, Entries
    <2>2. stream' \in [Streams -> {"new", "open", "closed"}]
      BY <2>1 DEF TypeOK
    <2>3. /\ TablesTyped' /\ TablesAreExact' /\ StreamsAreKnown'
          /\ \A i \in Ids : Known(i)' = Known(i)
      BY <2>1, <2>2, SameTables
    <2>4. WordsAreHeard'
      BY <2>1, <2>3, WordsKept
    <2>5. TypeOK'
      BY <2>1, <2>3, TypesTogether DEF TypeOK
    <2> QED
      BY <2>3, <2>4, <2>5 DEF ProgressInv, TablesInv
  <1>2. ASSUME NEW id \in Ids, Begin(id) PROVE ProgressInv'
    BY <1>2, BeginKeepsInv
  <1>3. ASSUME NEW id \in Ids, Report(id) \/ Answer(id) \/ Leave(id) PROVE ProgressInv'
    BY <1>3, SayingKeepsInv
  <1>4. ASSUME NEW id \in Ids, Elapse(id) \/ TellHeld(id) \/ Forget(id) PROVE ProgressInv'
    BY <1>4, ElapseKeepsInv, TellHeldKeepsInv, ForgetKeepsInv
  <1>5. ASSUME NEW id \in Ids, NEW s \in Streams, FollowOpening(s, id) \/ Wait(s, id) \/ Refuse(s, id)
        PROVE  ProgressInv'
    BY <1>5, FollowKeepsInv, WaitKeepsInv, RefuseKeepsInv
  <1>6. ASSUME NEW s \in Streams, GiveUp(s) \/ Quit(s) PROVE ProgressInv'
    BY <1>6, LeavingKeepsInv
  <1> QED
    BY <1>1, <1>2, <1>3, <1>4, <1>5, <1>6 DEF Next

(* The tables are exact, every open stream is in one of them, and what each stream has
   heard is in order and up to date: this is what every event of the openings, of their
   streams and of the timers keeps. *)
THEOREM ProgressInvariant == Spec => []ProgressInv
  BY InitHolds, NextKeepsInv, PTL DEF Spec

(* The tables of the import's progress keep their types and their bounds: never more
   than MaxOpenings openings and MaxWaiting ids waited for. *)
THEOREM ProgressTypeCorrect == Spec => []TypeOK
  <1>1. ProgressInv => TypeOK
    BY DEF ProgressInv, TablesInv
  <1> QED
    BY <1>1, ProgressInvariant, PTL

(* An event stream that is open is in the entry of the opening it names or in the line of
   those that wait for it, in one place only, and a closed one in none: whatever comes
   first, gives way, is given up or is forgotten. *)
THEOREM StreamsStayKnown == Spec => []OpenStreamsAreKnown
  <1>1. ProgressInv => OpenStreamsAreKnown
    <2> SUFFICES ASSUME ProgressInv PROVE OpenStreamsAreKnown
      OBVIOUS
    <2>1. TypeOK /\ TablesAreExact /\ StreamsAreKnown
      BY DEF ProgressInv, TablesInv
    <2>2. ToSet(waiting) = Awaited /\ Held \subseteq Ids
      BY <2>1, LineSet, LenProperties, ElementOfSeq DEF TablesAreExact, TypeOK, Held, ToSet
    <2>3. \A s \in Streams, i \in Ids :
            s \in entry[i].listeners \cup early[i] => stream[s] = "open" /\ target[s] = i
      BY <2>1 DEF StreamsAreKnown, Known
    <2>4. \A s \in Streams : stream[s] = "open" => s \in Followers(target[s])
      <3> SUFFICES ASSUME NEW s \in Streams, stream[s] = "open" PROVE s \in Followers(target[s])
        OBVIOUS
      <3>1. PICK i \in Ids : s \in Known(i) /\ target[s] = i
        BY <2>1 DEF StreamsAreKnown
      <3> QED
        BY <2>1, <3>1 DEF Followers, Known, TablesAreExact
    <2>5. \A i \in Ids : early[i] # {} <=> i \in ToSet(waiting)
      BY <2>2 DEF Awaited
    <2>6. Held \cap ToSet(waiting) = {}
      BY <2>1, <2>2 DEF TablesAreExact, Awaited
    <2> QED
      BY <2>3, <2>4, <2>5, <2>6 DEF OpenStreamsAreKnown
  <1> QED
    BY <1>1, ProgressInvariant, PTL

(* No word is lost between a stream's opening and its request's: what a follower has heard
   ends where the opening stands, or a timer holds the count it misses. *)
THEOREM FollowersStayUpToDate == Spec => []FollowersAreUpToDate
  <1>1. ProgressInv => FollowersAreUpToDate
    <2> SUFFICES ASSUME ProgressInv, NEW i \in Held, NEW s \in entry[i].listeners, entry[i].state # 0
                 PROVE  \/ heard[s] # << >> /\ Last(heard[s]) = entry[i].state
                        \/ entry[i].pending = "armed"
      BY DEF FollowersAreUpToDate
    <2>1. i \in Ids
      BY LenProperties, ElementOfSeq DEF ProgressInv, TablesInv, TypeOK, Held, ToSet
    <2>2. ToldWhereItStands(i, s)
      BY <2>1 DEF ProgressInv, WordsAreHeard, Known
    <2> QED
      BY <2>2 DEF ToldWhereItStands
  <1> QED
    BY <1>1, ProgressInvariant, PTL

(* "A stage ends on its last count": a stream hears the words in the order they were said,
   and passes from one stage to the next without missing the former's last word, with
   counts held back, timers that fired and openings that gave way and came again. *)
THEOREM StagesEndComplete == Spec => []StagesEndOnTheirLastCount
  <1>1. ProgressInv => StagesEndOnTheirLastCount
    <2> SUFFICES ASSUME ProgressInv, NEW s \in Streams, NEW k \in 2 .. Len(heard[s])
                 PROVE  /\ heard[s][k - 1] <= heard[s][k]
                        /\ said[target[s]][heard[s][k - 1]] # said[target[s]][heard[s][k]]
                             => heard[s][k] = heard[s][k - 1] + 1
      BY DEF StagesEndOnTheirLastCount
    <2>1. heard[s] # << >>
      BY EmptySeq
    <2> QED
      BY <2>1 DEF ProgressInv, WordsAreHeard, InOrder
  <1> QED
    BY <1>1, ProgressInvariant, PTL

=============================================================================

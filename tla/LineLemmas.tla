----------------------------- MODULE LineLemmas -----------------------------
(***************************************************************************)
(* What the operations on a line of waiting tasks do, for the proofs about *)
(* the API's queues and about the tables of the import's progress.         *)
(***************************************************************************)
EXTENDS Integers, SequencesExt, SequenceTheorems, TLAPS

\* The sequence s holds each member of W once, and nothing else.
LineOf(s, W) ==
  /\ \A i, j \in DOMAIN s : s[i] = s[j] => i = j
  /\ \A i \in DOMAIN s : s[i] \in W
  /\ \A w \in W : \E i \in DOMAIN s : s[i] = w

(* What is left of a line when its i-th member leaves. *)
LEMMA RemoveAtProperties ==
  ASSUME NEW S, NEW s \in Seq(S), NEW i \in 1..Len(s)
  PROVE  /\ RemoveAt(s, i) \in Seq(S)
         /\ Len(RemoveAt(s, i)) = Len(s) - 1
         /\ \A j \in 1..(Len(s) - 1) :
              RemoveAt(s, i)[j] = IF j < i THEN s[j] ELSE s[j + 1]
  <1> DEFINE front == SubSeq(s, 1, i - 1)
             back == SubSeq(s, i + 1, Len(s))
  <1>1. /\ front \in Seq(S)
        /\ Len(front) = i - 1
        /\ \A j \in 1..(i - 1) : front[j] = s[j]
    <2>1. \A j \in 1..(i - 1) : s[j] \in S
      BY ElementOfSeq, LenProperties
    <2> QED
      BY <2>1, SubSeqProperties, LenProperties
  <1>2. /\ back \in Seq(S)
        /\ Len(back) = Len(s) - i
        /\ \A j \in 1..(Len(s) - i) : back[j] = s[i + j]
    <2>1. \A j \in (i + 1)..Len(s) : s[j] \in S
      BY ElementOfSeq, LenProperties
    <2> QED
      BY <2>1, SubSeqProperties, LenProperties
  <1> HIDE DEF front, back
  <1>3. /\ front \o back \in Seq(S)
        /\ Len(front \o back) = Len(front) + Len(back)
        /\ \A j \in 1..(Len(front) + Len(back)) : (front \o back)[j] =
             IF j <= Len(front) THEN front[j] ELSE back[j - Len(front)]
    BY <1>1, <1>2, ConcatProperties
  <1>4. Len(s) \in Nat
    BY LenProperties
  <1>5. \A j \in 1..(Len(s) - 1) :
             (front \o back)[j] = IF j < i THEN s[j] ELSE s[j + 1]
    <2> TAKE j \in 1..(Len(s) - 1)
    <2>1. CASE j < i
      BY <2>1, <1>1, <1>2, <1>3, <1>4
    <2>2. CASE ~(j < i)
      <3>1. (front \o back)[j] = back[j - (i - 1)]
        BY <2>2, <1>1, <1>2, <1>3, <1>4
      <3>2. back[j - (i - 1)] = s[i + (j - (i - 1))]
        BY <2>2, <1>2, <1>4
      <3> QED
        BY <2>2, <3>1, <3>2, <1>4
    <2> QED
      BY <2>1, <2>2
  <1>6. RemoveAt(s, i) = front \o back
    BY DEF RemoveAt, front, back
  <1>7. Len(RemoveAt(s, i)) = Len(s) - 1
    <2>1. Len(front) = i - 1 /\ Len(back) = Len(s) - i
      BY <1>1, <1>2
    <2>2. Len(RemoveAt(s, i)) = Len(front) + Len(back)
      BY <1>3, <1>6
    <2> HIDE <1>6
    <2> QED
      BY <2>1, <2>2, <1>4
  <1> QED
    BY <1>3, <1>5, <1>6, <1>7

(* Joining a line. *)
LEMMA AppendLine ==
  ASSUME NEW S, NEW s \in Seq(S), NEW W, LineOf(s, W), NEW t \in S, t \notin W
  PROVE  LineOf(Append(s, t), W \cup {t})
  <1> DEFINE a == Append(s, t)
  <1>1. /\ Len(s) \in Nat /\ DOMAIN s = 1..Len(s)
        /\ a \in Seq(S) /\ Len(a) = Len(s) + 1
        /\ \A i \in 1..Len(s) : a[i] = s[i]
        /\ a[Len(s) + 1] = t
    BY AppendProperties, LenProperties
  <1>2. DOMAIN a = 1..(Len(s) + 1)
    BY <1>1, LenProperties
  <1> HIDE DEF a
  <1>3. \A i \in DOMAIN s : a[i] = s[i] /\ s[i] \in W
    BY <1>1 DEF LineOf
  <1>4. \A i, j \in DOMAIN a : a[i] = a[j] => i = j
    BY <1>1, <1>2, <1>3 DEF LineOf
  <1>5. \A i \in DOMAIN a : a[i] \in W \cup {t}
    BY <1>1, <1>2, <1>3
  <1>6. \A w \in W \cup {t} : \E i \in DOMAIN a : a[i] = w
    <2> TAKE w \in W \cup {t}
    <2>1. CASE w = t
      BY <1>1, <1>2, <2>1
    <2>2. CASE w \in W
      <3>1. PICK i \in DOMAIN s : s[i] = w
        BY <2>2 DEF LineOf
      <3>2. i \in DOMAIN a /\ a[i] = w
        BY <1>1, <1>2, <3>1
      <3> QED
        BY <3>2
    <2> QED
      BY <2>1, <2>2
  <1> QED
    BY <1>4, <1>5, <1>6 DEF LineOf, a

(* Leaving a line, from anywhere in it. *)
LEMMA RemoveAtLine ==
  ASSUME NEW S, NEW s \in Seq(S), NEW W, LineOf(s, W), NEW k \in DOMAIN s
  PROVE  LineOf(RemoveAt(s, k), W \ {s[k]})
  <1> DEFINE r == RemoveAt(s, k)
             old(j) == IF j < k THEN j ELSE j + 1
  <1>1. Len(s) \in Nat /\ DOMAIN s = 1..Len(s) /\ k \in 1..Len(s)
    BY LenProperties
  <1>2. r \in Seq(S) /\ Len(r) = Len(s) - 1
    BY <1>1, RemoveAtProperties
  <1>3. DOMAIN r = 1..(Len(s) - 1)
    BY <1>2, LenProperties
  <1>4. \A j \in DOMAIN r : r[j] = s[old(j)]
    <2>1. \A j \in 1..(Len(s) - 1) : r[j] = IF j < k THEN s[j] ELSE s[j + 1]
      BY <1>1, RemoveAtProperties
    <2> HIDE DEF r
    <2> QED
      BY <1>3, <2>1
  <1> HIDE DEF r
  <1>5. \A j \in DOMAIN r : old(j) \in DOMAIN s \ {k}
    BY <1>1, <1>3
  <1>6. \A i, j \in DOMAIN r : old(i) = old(j) => i = j
    BY <1>1, <1>3
  <1>7. \A i \in DOMAIN s \ {k} : \E j \in DOMAIN r : old(j) = i
    <2> TAKE i \in DOMAIN s \ {k}
    <2>1. CASE i < k
      <3>1. i \in DOMAIN r /\ old(i) = i
        BY <1>1, <1>3, <2>1
      <3> QED
        BY <3>1
    <2>2. CASE ~(i < k)
      <3>1. i - 1 \in DOMAIN r /\ old(i - 1) = i
        BY <1>1, <1>3, <2>2
      <3> QED
        BY <3>1
    <2> QED
      BY <2>1, <2>2
  <1> HIDE DEF old
  <1>8. \A i, j \in DOMAIN r : r[i] = r[j] => i = j
    BY <1>4, <1>5, <1>6 DEF LineOf
  <1>9. \A j \in DOMAIN r : r[j] \in W \ {s[k]}
    BY <1>4, <1>5 DEF LineOf
  <1>10. \A w \in W \ {s[k]} : \E j \in DOMAIN r : r[j] = w
    <2> TAKE w \in W \ {s[k]}
    <2>1. PICK i \in DOMAIN s \ {k} : s[i] = w
      BY DEF LineOf
    <2>2. PICK j \in DOMAIN r : old(j) = i
      BY <1>7
    <2> QED
      BY <1>4, <2>1, <2>2
  <1> QED
    BY <1>8, <1>9, <1>10 DEF LineOf, r

(* The head of a line, and the line it leaves. *)
LEMMA TailLine ==
  ASSUME NEW S, NEW s \in Seq(S), NEW W, LineOf(s, W), s # <<>>
  PROVE  /\ Head(s) \in S /\ Head(s) \in W
         /\ Tail(s) \in Seq(S) /\ Len(Tail(s)) = Len(s) - 1
         /\ LineOf(Tail(s), W \ {Head(s)})
  <1>1. Len(s) \in Nat \ {0} /\ DOMAIN s = 1..Len(s) /\ 1 \in DOMAIN s
    BY EmptySeq, LenProperties
  <1>2. Head(s) = s[1]
    OBVIOUS
  <1>3. /\ Head(s) \in S /\ Tail(s) \in Seq(S) /\ Len(Tail(s)) = Len(s) - 1
        /\ \A i \in 1..Len(Tail(s)) : Tail(s)[i] = s[i + 1]
    BY HeadTailProperties
  <1>4. Tail(s) = RemoveAt(s, 1)
    <2>1. /\ RemoveAt(s, 1) \in Seq(S) /\ Len(RemoveAt(s, 1)) = Len(s) - 1
          /\ \A j \in 1..(Len(s) - 1) :
               RemoveAt(s, 1)[j] = IF j < 1 THEN s[j] ELSE s[j + 1]
      BY <1>1, RemoveAtProperties
    <2>2. \A j \in 1..(Len(s) - 1) : RemoveAt(s, 1)[j] = s[j + 1]
      BY <1>1, <2>1
    <2>3. \A j \in 1..Len(Tail(s)) : Tail(s)[j] = RemoveAt(s, 1)[j]
      BY <1>3, <2>2
    <2> QED
      BY <1>3, <2>1, <2>3, SeqEqual
  <1>5. LineOf(RemoveAt(s, 1), W \ {s[1]})
    BY <1>1, RemoveAtLine
  <1>6. s[1] \in W
    BY <1>1 DEF LineOf
  <1> QED
    BY <1>2, <1>3, <1>4, <1>5, <1>6

(* The line a sequence is. *)
LEMMA LineSet ==
  ASSUME NEW s, NEW W, LineOf(s, W)
  PROVE  ToSet(s) = W
  BY DEF LineOf, ToSet

(* Leaving a line by name, whether in it or not. *)
LEMMA RemoveFirstLine ==
  ASSUME NEW S, NEW s \in Seq(S), NEW W, LineOf(s, W), NEW e
  PROVE  /\ RemoveFirst(s, e) \in Seq(S)
         /\ Len(RemoveFirst(s, e)) <= Len(s)
         /\ LineOf(RemoveFirst(s, e), W \ {e})
  <1>1. Len(s) \in Nat /\ DOMAIN s = 1..Len(s)
    BY LenProperties
  <1>2. CASE ~\E i \in 1..Len(s) : s[i] = e
    <2>1. RemoveFirst(s, e) = s
      BY <1>2 DEF RemoveFirst
    <2>2. e \notin W
      BY <1>1, <1>2 DEF LineOf
    <2>3. LineOf(s, W \ {e})
      BY <2>2 DEF LineOf
    <2> QED
      BY <1>1, <2>1, <2>3
  <1>3. CASE \E i \in 1..Len(s) : s[i] = e
    <2> DEFINE I == {i \in 1..Len(s) : s[i] = e}
    <2>1. PICK k \in 1..Len(s) : s[k] = e
      BY <1>3
    <2>2. I = {k}
      BY <1>1, <2>1 DEF LineOf
    <2>3. Min({k}) = k
      BY <1>1, <2>1 DEF Min
    <2>4. SelectInSeq(s, LAMBDA v : v = e) = IF I # {} THEN Min(I) ELSE 0
      BY DEF SelectInSeq
    <2> HIDE DEF I
    <2>5. SelectInSeq(s, LAMBDA v : v = e) = k
      BY <2>2, <2>3, <2>4
    <2>6. RemoveFirst(s, e) = RemoveAt(s, SelectInSeq(s, LAMBDA v : v = e))
      BY <1>3 DEF RemoveFirst
    <2>7. RemoveFirst(s, e) = RemoveAt(s, k)
      BY <2>5, <2>6
    <2>8. RemoveAt(s, k) \in Seq(S) /\ Len(RemoveAt(s, k)) = Len(s) - 1
      BY <2>1, RemoveAtProperties
    <2>9. LineOf(RemoveAt(s, k), W \ {e})
      BY <1>1, <2>1, RemoveAtLine
    <2> QED
      BY <1>1, <2>7, <2>8, <2>9
  <1> QED
    BY <1>2, <1>3
=============================================================================

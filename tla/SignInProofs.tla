---------------------------- MODULE SignInProofs ----------------------------
(***************************************************************************)
(* Proofs about SignIn, for any browsers, windows and limits: the types    *)
(* with the bounds of every counter, the single use and the order of the   *)
(* codes, the sessions' owners, and the pace of the wrong codes and of the *)
(* codes sent, which sums over the ticks of a window and needs what a fold *)
(* over a finite set adds up to.                                           *)
(***************************************************************************)
EXTENDS SignIn, FiniteSetTheorems, WellFoundedInduction, TLAPS

(* Sums: what FoldFunction leaves, over any finite set. *)

Pick(s) == CHOOSE x \in s : TRUE

\* The values of h summed over each subset of S: the fold's recursion, a step at a time.
SumStep(h, S, f) ==
  [s \in SUBSET S |-> IF s = {} THEN 0 ELSE h[Pick(s)] + f[s \ {Pick(s)}]]
IsSum(h, S, f) == f = SumStep(h, S, f)
Sums(h, S) == CHOOSE f : IsSum(h, S, f)
SumOver(h, S) == Sums(h, DOMAIN h)[S]

LEMMA TotalIsASum == \A h : Total(h) = SumOver(h, DOMAIN h)
  BY DEF Total, FoldFunction, FoldFunctionOnSet, MapThenFoldSet, Sums, SumStep, IsSum, Pick, SumOver

(* Induction over a finite set: what fails for some subset fails for a smallest one. *)
LEMMA SmallestBad ==
  ASSUME NEW S, IsFiniteSet(S), NEW Bad \in SUBSET SUBSET S, Bad # {}
  PROVE  \E T \in Bad : \A U \in SUBSET T : U # T => U \notin Bad
  <1>1. IsWellFoundedOn(StrictSubsetOrdering(S), FiniteSubsetsOf(S))
    BY FS_StrictSubsetOrderingWellFounded
  <1>2. Bad \subseteq FiniteSubsetsOf(S)
    BY FS_Subset DEF FiniteSubsetsOf
  <1> DEFINE R == StrictSubsetOrdering(S)
  <1>3. \E T \in Bad : \A U \in Bad : ~(<<U, T>> \in R)
    <2> HIDE DEF R
    <2> QED
      BY <1>1, <1>2, WFMin DEF R
  <1>4. PICK T \in Bad : \A U \in Bad : ~(<<U, T>> \in R)
    BY <1>3
  <1>5. ASSUME NEW U \in SUBSET T, U # T, U \in Bad PROVE FALSE
    BY <1>4, <1>5 DEF StrictSubsetOrdering
  <1> QED
    BY <1>4, <1>5

LEMMA Picked == \A s : s # {} => Pick(s) \in s
  BY DEF Pick

(* The recursion has one solution. *)
LEMMA SumsAgree ==
  ASSUME NEW h, NEW S, NEW T, NEW f, NEW g, IsFiniteSet(S),
         IsSum(h, S, f), IsSum(h, T, g)
  PROVE  \A s \in SUBSET (S \cap T) : f[s] = g[s]
  <1> DEFINE Bad == {s \in SUBSET (S \cap T) : f[s] # g[s]}
  <1>1. SUFFICES ASSUME Bad # {} PROVE FALSE
    OBVIOUS
  <1>2. Bad \in SUBSET SUBSET S
    OBVIOUS
  <1>3. PICK s \in Bad : \A u \in SUBSET s : u # s => u \notin Bad
    <2> HIDE DEF Bad
    <2> QED
      BY <1>1, <1>2, SmallestBad
  <1>4. s # {} => Pick(s) \in s
    BY Picked
  <1>5. /\ f[s] = IF s = {} THEN 0 ELSE h[Pick(s)] + f[s \ {Pick(s)}]
        /\ g[s] = IF s = {} THEN 0 ELSE h[Pick(s)] + g[s \ {Pick(s)}]
    BY DEF IsSum, SumStep
  <1>6. s # {}
    BY <1>5
  <1>7. f[s \ {Pick(s)}] = g[s \ {Pick(s)}]
    BY <1>3, <1>4, <1>6
  <1> QED
    BY <1>5, <1>6, <1>7

(* It has a solution: the sums of the smaller sets extend to each one. *)
LEMMA SumsExist ==
  ASSUME NEW h, NEW S, IsFiniteSet(S)
  PROVE  IsSum(h, S, Sums(h, S))
  <1> DEFINE Bad == {T \in SUBSET S : ~IsSum(h, T, Sums(h, T))}
  <1>1. SUFFICES ASSUME Bad # {} PROVE FALSE
    OBVIOUS
  <1>2. PICK T \in Bad : \A U \in SUBSET T : U # T => U \notin Bad
    <2>1. Bad \in SUBSET SUBSET S
      OBVIOUS
    <2> HIDE DEF Bad
    <2> QED
      BY <1>1, <2>1, SmallestBad
  <1>3. \A U \in SUBSET T : U # T => IsSum(h, U, Sums(h, U)) /\ IsFiniteSet(U)
    BY <1>2, FS_Subset
  <1> DEFINE Part(u) == Sums(h, u)[u]
             F == [s \in SUBSET T |-> IF s = {} THEN 0 ELSE h[Pick(s)] + Part(s \ {Pick(s)})]
  <1>4. ASSUME NEW s \in SUBSET T, s # {} PROVE F[s \ {Pick(s)}] = Part(s \ {Pick(s)})
    <2> DEFINE u == s \ {Pick(s)}
               v == u \ {Pick(u)}
    <2>1. u \in SUBSET T /\ u # T /\ v \in SUBSET T /\ v # T /\ v \in SUBSET (u \cap v) /\ u \in SUBSET u
      BY <1>4, Picked
    <2>2. /\ IsSum(h, u, Sums(h, u)) /\ IsFiniteSet(u)
          /\ IsSum(h, v, Sums(h, v)) /\ IsFiniteSet(v)
      BY <1>3, <2>1
    <2> HIDE DEF u, v, F
    <2>3. Part(u) = IF u = {} THEN 0 ELSE h[Pick(u)] + Sums(h, u)[v]
      BY <2>1, <2>2 DEF IsSum, SumStep, v
    <2>4. Sums(h, u)[v] = Part(v)
      BY <2>1, <2>2, SumsAgree
    <2>5. F[u] = IF u = {} THEN 0 ELSE h[Pick(u)] + Part(v)
      BY <2>1 DEF F, v
    <2> QED
      BY <2>3, <2>4, <2>5 DEF u
  <1>5. F = SumStep(h, T, F)
    <2>1. \A s \in SUBSET T : F[s] = IF s = {} THEN 0 ELSE h[Pick(s)] + F[s \ {Pick(s)}]
      BY <1>4
    <2>2. F = [s \in SUBSET T |-> F[s]]
      OBVIOUS
    <2> HIDE DEF F
    <2> QED
      BY <2>1, <2>2 DEF SumStep
  <1>6. \E f : IsSum(h, T, f)
    <2> HIDE DEF F
    <2> QED
      BY <1>5 DEF IsSum
  <1>7. IsSum(h, T, Sums(h, T))
    BY <1>6 DEF Sums
  <1> QED
    BY <1>2, <1>7

(* The sum of nothing, and of a set from the member the fold takes first. *)
LEMMA SumFirst ==
  ASSUME NEW D, IsFiniteSet(D), NEW h \in [D -> Nat]
  PROVE  /\ SumOver(h, {}) = 0
         /\ \A S \in SUBSET D : S # {} => SumOver(h, S) = h[Pick(S)] + SumOver(h, S \ {Pick(S)})
  <1> DEFINE f == Sums(h, D)
  <1>0. IsSum(h, D, f)
    BY SumsExist
  <1>2. \A S : SumOver(h, S) = f[S]
    BY DEF SumOver
  <1> HIDE DEF f
  <1>1. f = [S \in SUBSET D |-> IF S = {} THEN 0 ELSE h[Pick(S)] + f[S \ {Pick(S)}]]
    BY <1>0 DEF IsSum, SumStep
  <1>3. \A S \in SUBSET D : f[S] = IF S = {} THEN 0 ELSE h[Pick(S)] + f[S \ {Pick(S)}]
    BY <1>1
  <1> QED
    BY <1>2, <1>3

LEMMA SumIsNumber ==
  ASSUME NEW D, IsFiniteSet(D), NEW h \in [D -> Nat]
  PROVE  \A S \in SUBSET D : SumOver(h, S) \in Nat
  <1> DEFINE Bad == {S \in SUBSET D : SumOver(h, S) \notin Nat}
  <1>1. SUFFICES ASSUME Bad # {} PROVE FALSE
    OBVIOUS
  <1>2. PICK S \in Bad : \A U \in SUBSET S : U # S => U \notin Bad
    <2>1. Bad \in SUBSET SUBSET D
      OBVIOUS
    <2> HIDE DEF Bad
    <2> QED
      BY <1>1, <2>1, SmallestBad
  <1>3. S # {}
    <2>1. SumOver(h, {}) = 0
      BY SumFirst
    <2> QED
      BY <1>2, <2>1
  <1>4. Pick(S) \in S
    BY <1>3, Picked
  <1>5. SumOver(h, S \ {Pick(S)}) \in Nat
    BY <1>2, <1>4
  <1> QED
    BY <1>3, <1>4, <1>5, SumFirst

(* Any member may be taken out first. *)
LEMMA SumWithout ==
  ASSUME NEW D, IsFiniteSet(D), NEW h \in [D -> Nat]
  PROVE  \A S \in SUBSET D : \A x \in S : SumOver(h, S) = h[x] + SumOver(h, S \ {x})
  <1> DEFINE Bad == {S \in SUBSET D : \E x \in S : SumOver(h, S) # h[x] + SumOver(h, S \ {x})}
  <1>1. SUFFICES ASSUME Bad # {} PROVE FALSE
    OBVIOUS
  <1>2. PICK S \in Bad : \A U \in SUBSET S : U # S => U \notin Bad
    <2>1. Bad \in SUBSET SUBSET D
      OBVIOUS
    <2> HIDE DEF Bad
    <2> QED
      BY <1>1, <2>1, SmallestBad
  <1>3. PICK x \in S : SumOver(h, S) # h[x] + SumOver(h, S \ {x})
    BY <1>2
  <1> DEFINE c == Pick(S)
             B == (S \ {c}) \ {x}
  <1>4. c \in S /\ SumOver(h, S) = h[c] + SumOver(h, S \ {c})
    BY <1>3, Picked, SumFirst
  <1>5. c # x
    BY <1>3, <1>4
  <1>6. S \ {c} \notin Bad /\ S \ {x} \notin Bad
    BY <1>2, <1>3, <1>4
  <1>7. SumOver(h, S \ {c}) = h[x] + SumOver(h, B)
    BY <1>3, <1>5, <1>6
  <1>8. SumOver(h, S \ {x}) = h[c] + SumOver(h, (S \ {x}) \ {c})
    BY <1>4, <1>5, <1>6
  <1>9. (S \ {x}) \ {c} = B
    OBVIOUS
  <1>10. SumOver(h, B) \in Nat /\ h[x] \in Nat /\ h[c] \in Nat
    BY <1>3, <1>4, SumIsNumber
  <1> HIDE DEF c, B
  <1> QED
    BY <1>3, <1>4, <1>7, <1>8, <1>9, <1>10

(* What is nowhere more, and nothing outside of T, sums up to no more. *)
LEMMA SumBelow ==
  ASSUME NEW D, IsFiniteSet(D), NEW g \in [D -> Nat], NEW h \in [D -> Nat], NEW T \in SUBSET D
  PROVE  \A S \in SUBSET D :
           (\A x \in S : g[x] = 0 \/ (x \in T /\ g[x] =< h[x])) => SumOver(g, S) =< SumOver(h, T)
  <1> DEFINE Good(S, U) == \A x \in S : g[x] = 0 \/ (x \in U /\ g[x] =< h[x])
             Bad == {S \in SUBSET D : \E U \in SUBSET D : Good(S, U) /\ ~(SumOver(g, S) =< SumOver(h, U))}
  <1>1. SUFFICES ASSUME Bad # {} PROVE FALSE
    OBVIOUS
  <1>2. PICK S \in Bad : \A U \in SUBSET S : U # S => U \notin Bad
    <2>1. Bad \in SUBSET SUBSET D
      OBVIOUS
    <2> HIDE DEF Bad
    <2> QED
      BY <1>1, <2>1, SmallestBad
  <1>3. PICK U \in SUBSET D : Good(S, U) /\ ~(SumOver(g, S) =< SumOver(h, U))
    BY <1>2
  <1>4. SumOver(g, S) \in Nat /\ SumOver(h, U) \in Nat /\ SumOver(g, {}) = 0
    BY <1>2, SumIsNumber, SumFirst
  <1>5. S # {}
    BY <1>3, <1>4
  <1>6. PICK x \in S : TRUE
    BY <1>5
  <1> DEFINE R == S \ {x}
  <1>7. SumOver(g, S) = g[x] + SumOver(g, R) /\ SumOver(g, R) \in Nat /\ R \notin Bad /\ R \in SUBSET D
    BY <1>2, <1>6, SumWithout, SumIsNumber
  <1>8. CASE g[x] = 0
    <2>1. Good(R, U)
      BY <1>3
    <2>2. SumOver(g, R) =< SumOver(h, U)
      BY <1>7, <2>1
    <2> QED
      BY <1>3, <1>4, <1>7, <1>8, <2>2
  <1>9. CASE x \in U /\ g[x] =< h[x]
    <2>1. SumOver(h, U) = h[x] + SumOver(h, U \ {x}) /\ SumOver(h, U \ {x}) \in Nat
      BY <1>9, SumWithout, SumIsNumber
    <2>2. Good(R, U \ {x})
      BY <1>3
    <2>3. SumOver(g, R) =< SumOver(h, U \ {x})
      BY <1>7, <2>2
    <2>4. g[x] \in Nat /\ h[x] \in Nat
      BY <1>6, <1>2
    <2> QED
      BY <1>3, <1>4, <1>7, <1>9, <2>1, <2>3, <2>4
  <1> QED
    BY <1>3, <1>6, <1>8, <1>9

(* Two parts sum up to the whole, or more. *)
LEMMA SumJoined ==
  ASSUME NEW D, IsFiniteSet(D), NEW h \in [D -> Nat], NEW T \in SUBSET D
  PROVE  \A S \in SUBSET D : SumOver(h, S) = SumOver(h, S \cap T) + SumOver(h, S \ T)
  <1> DEFINE Bad == {S \in SUBSET D : SumOver(h, S) # SumOver(h, S \cap T) + SumOver(h, S \ T)}
  <1>1. SUFFICES ASSUME Bad # {} PROVE FALSE
    OBVIOUS
  <1>2. PICK S \in Bad : \A U \in SUBSET S : U # S => U \notin Bad
    <2>1. Bad \in SUBSET SUBSET D
      OBVIOUS
    <2> HIDE DEF Bad
    <2> QED
      BY <1>1, <2>1, SmallestBad
  <1>3. S # {}
    <2>1. SUFFICES ASSUME S = {} PROVE FALSE
      OBVIOUS
    <2>2. S \cap T = S /\ S \ T = S
      BY <2>1
    <2>3. SumOver(h, S) = 0
      BY <2>1, SumFirst
    <2> QED
      BY <1>2, <2>2, <2>3
  <1>4. PICK x \in S : TRUE
    BY <1>3
  <1> DEFINE R == S \ {x}
  <1>5. SumOver(h, S) = h[x] + SumOver(h, R) /\ R \notin Bad /\ R \in SUBSET D /\ h[x] \in Nat
    BY <1>2, <1>4, SumWithout
  <1>6. SumOver(h, R) = SumOver(h, R \cap T) + SumOver(h, R \ T)
    BY <1>5
  <1>7. SumOver(h, R \cap T) \in Nat /\ SumOver(h, R \ T) \in Nat
    BY <1>5, SumIsNumber
  <1>8. CASE x \in T
    <2>1. (S \cap T) \ {x} = R \cap T /\ S \ T = R \ T
      BY <1>8
    <2>2. SumOver(h, S \cap T) = h[x] + SumOver(h, R \cap T)
      BY <1>2, <1>4, <1>8, <2>1, SumWithout
    <2>3. SumOver(h, S) = SumOver(h, S \cap T) + SumOver(h, S \ T)
      <3> HIDE DEF R
      <3>1. SumOver(h, S \ T) = SumOver(h, R \ T)
        BY <2>1
      <3> HIDE DEF Bad
      <3> QED
        BY <1>5, <1>6, <1>7, <2>2, <3>1
    <2> QED
      BY <1>2, <2>3
  <1>9. CASE x \notin T
    <2>1. (S \ T) \ {x} = R \ T /\ S \cap T = R \cap T
      BY <1>9
    <2>2. SumOver(h, S \ T) = h[x] + SumOver(h, R \ T)
      BY <1>2, <1>4, <1>9, <2>1, SumWithout
    <2>3. SumOver(h, S) = SumOver(h, S \cap T) + SumOver(h, S \ T)
      <3> HIDE DEF R
      <3>1. SumOver(h, S \cap T) = SumOver(h, R \cap T)
        BY <2>1
      <3> HIDE DEF Bad
      <3> QED
        BY <1>5, <1>6, <1>7, <2>2, <3>1
    <2> QED
      BY <1>2, <2>3
  <1> QED
    BY <1>8, <1>9

(* The whole is the sum of a part and of the rest. *)
LEMMA SumHalves ==
  ASSUME NEW D, IsFiniteSet(D), NEW h \in [D -> Nat], NEW T \in SUBSET D
  PROVE  SumOver(h, D) = SumOver(h, T) + SumOver(h, D \ T)
  <1>1. SumOver(h, D) = SumOver(h, D \cap T) + SumOver(h, D \ T)
    BY SumJoined
  <1>2. D \cap T = T
    OBVIOUS
  <1> QED
    BY <1>1, <1>2

LEMMA SumTaken ==
  ASSUME NEW D, IsFiniteSet(D), NEW h \in [D -> Nat], NEW S \in SUBSET D, NEW x \in S
  PROVE  SumOver(h, S) = h[x] + SumOver(h, S \ {x})
  BY SumWithout

(* One more at x. *)
LEMMA SumPlusOne ==
  ASSUME NEW D, IsFiniteSet(D), NEW h \in [D -> Nat], NEW g \in [D -> Nat], NEW S \in SUBSET D,
         NEW x \in D, g[x] =< h[x] + 1, \A y \in D : y # x => g[y] =< h[y]
  PROVE  SumOver(g, S) =< SumOver(h, S) + (IF x \in S THEN 1 ELSE 0)
  <1>1. g[x] \in Nat /\ h[x] \in Nat /\ SumOver(g, S) \in Nat /\ SumOver(h, S) \in Nat
    BY SumIsNumber
  <1>2. CASE x \notin S
    <2>1. \A y \in S : y \in S /\ g[y] =< h[y]
      BY <1>2
    <2>2. SumOver(g, S) =< SumOver(h, S)
      BY <2>1, SumBelow
    <2> QED
      BY <1>1, <1>2, <2>2
  <1>3. CASE x \in S
    <2> DEFINE R == S \ {x}
    <2>1. \A y \in R : y \in R /\ g[y] =< h[y]
      OBVIOUS
    <2>2. SumOver(g, R) =< SumOver(h, R)
      BY <2>1, SumBelow
    <2>3. SumOver(g, S) = g[x] + SumOver(g, R)
      BY <1>3, SumTaken
    <2>4. SumOver(h, S) = h[x] + SumOver(h, R)
      BY <1>3, SumTaken
    <2>5. SumOver(g, R) \in Nat /\ SumOver(h, R) \in Nat
      BY SumIsNumber
    <2> QED
      BY <1>1, <1>3, <2>2, <2>3, <2>4, <2>5
  <1> QED
    BY <1>2, <1>3

-----------------------------------------------------------------------------
\* The limits, one by one.
LEMMA Limits ==
  /\ Ttl \in Nat /\ Hour \in Nat /\ Day \in Nat /\ Resend \in Nat
  /\ MaxAttempts \in Nat /\ MaxSends \in Nat /\ PerClient \in Nat /\ PerAddress \in Nat
  /\ MaxTime \in Nat /\ MaxCodes \in Nat
  /\ None \notin Nat /\ None \notin Clients
BY LimitsAssumption, NoneAssumption

USE Limits

\* A window of wrong codes, for some limit.
Windows(limit) == [failures : 0 .. limit, since : Times \cup {None}]

\* The row holds the last code sent, its tries are the ones checked since, and it came
\* after every code that opened a session.
RowIsTheLast ==
  /\ row # None => row.code = sent /\ row.attempts = tries
  /\ \A i \in DOMAIN opened : opened[i] <= sent /\ (row # None => opened[i] < row.code)

IInv == TypeOK /\ CodeOpensOnce /\ SessionsAreHeld /\ RowIsTheLast

-----------------------------------------------------------------------------
\* A window read at any tick is a window.
LEMMA DailyIsWindow ==
  ASSUME now \in Times, NEW limit \in Nat, NEW w \in Windows(limit)
  PROVE  DailyFailures(w) \in Windows(limit)
BY DEF DailyFailures, Windows, NoWindow, Times

\* One more wrong code fits when the limit is not reached.
LEMMA CountedFits ==
  ASSUME now \in Times, NEW limit \in Nat, NEW w \in Windows(limit),
         ~(DailyFailures(w).failures >= limit)
  PROVE  CountedIn(w) \in Windows(limit)
<1> DEFINE daily == DailyFailures(w)
<1>1. daily \in Windows(limit)
  BY DailyIsWindow
<1>2. daily.failures + 1 \in 0 .. limit
  BY <1>1 DEF Windows
<1>3. (IF daily.since = None THEN now ELSE daily.since) \in Times \cup {None}
  BY <1>1 DEF Windows
<1> HIDE DEF daily
<1>4. CountedIn(w) = [failures |-> daily.failures + 1, since |-> IF daily.since = None THEN now ELSE daily.since]
  BY DEF CountedIn, daily
<1>5. QED
  BY <1>2, <1>3, <1>4 DEF Windows

LEMMA RowWindowIsWindow ==
  ASSUME row = None \/ row \in Rows
  PROVE  RowWindow \in Windows(PerAddress)
BY DEF RowWindow, Rows, Windows, NoWindow

\* What a purge leaves of a window is a window.
LEMMA SweptIsWindow ==
  ASSUME NEW limit \in Nat, NEW w \in Windows(limit)
  PROVE  Swept(w) \in Windows(limit)
BY DEF Swept, Windows, NoWindow

-----------------------------------------------------------------------------
LEMMA InitHolds == Init => IInv
BY DEF Init, IInv, TypeOK, CodeOpensOnce, SessionsAreHeld, RowIsTheLast, Codes, Times, NoWindow

\* A new code's row.
LEMMA RequestedRow ==
  ASSUME IInv, NEW c \in Clients, RequestCode(c)
  PROVE  row' \in Rows
<1> USE DEF IInv, Codes
<1>0. SendWindow.sends <= MaxSends /\ now \in Times
  BY DEF RequestCode, TypeOK
<1>1. SendWindow.sends \in 1 .. MaxSends /\ SendWindow.start \in Times
  <2>1. CASE row # None /\ now - row.windowStart < Hour
    <3>1. row \in Rows
      BY <2>1 DEF TypeOK, Rows
    <3>2. row.sends \in 1 .. MaxSends /\ row.windowStart \in Times
      BY <3>1 DEF Rows
    <3>3. SendWindow.sends = row.sends + 1 /\ SendWindow.start = row.windowStart
      BY <2>1 DEF SendWindow
    <3>4. QED
      BY <1>0, <3>2, <3>3
  <2>2. CASE ~(row # None /\ now - row.windowStart < Hour)
    <3>1. SendWindow.sends = 1 /\ SendWindow.start = now
      BY <2>2 DEF SendWindow
    <3>2. QED
      BY <1>0, <3>1
  <2>3. QED
    BY <2>1, <2>2
<1>2. RowWindow.failures \in 0 .. PerAddress /\ RowWindow.since \in Times \cup {None}
  BY RowWindowIsWindow DEF TypeOK, Windows, Rows
<1>3. sent + 1 \in Codes /\ now + Ttl \in Nat /\ 0 \in 0 .. MaxAttempts
  BY DEF TypeOK, RequestCode, Times
<1>4. row' \in Rows
  BY <1>1, <1>2, <1>3 DEF RequestCode, Rows, TypeOK
<1>5. QED
  BY <1>4

LEMMA RequestPreserves ==
  ASSUME IInv, NEW c \in Clients, RequestCode(c)
  PROVE  IInv'
<1> USE DEF IInv, Codes
<1>3. sent + 1 \in Codes
  BY DEF TypeOK, RequestCode
<1>4. row' \in Rows
  BY RequestedRow
<1>5. TypeOK'
  BY <1>3, <1>4 DEF TypeOK, RequestCode, Rows
<1>6. CodeOpensOnce' /\ SessionsAreHeld'
  BY DEF CodeOpensOnce, SessionsAreHeld, RequestCode
<1>7. RowIsTheLast'
  BY <1>3 DEF RowIsTheLast, RequestCode, TypeOK
<1>8. QED
  BY <1>5, <1>6, <1>7

\* A wrong code leaves a row, one of its tries less.
LEMMA WrongRow ==
  ASSUME IInv, NEW c \in Clients, NEW g \in 0 .. sent, WrongCode(c, g)
  PROVE  /\ row' \in Rows /\ row'.code = row.code /\ row'.attempts = row.attempts + 1
         /\ row'.windowStart = row.windowStart /\ row'.sends = row.sends /\ row'.expires = row.expires
         /\ RowWindow' = CountedIn(RowWindow)
<1> USE DEF IInv
<1>1. row \in Rows /\ now \in Times /\ tries \in Nat /\ row.attempts = tries /\ tries < MaxAttempts
  BY DEF WrongCode, Checked, TypeOK, Rows, RowIsTheLast
<1>2. CountedIn(RowWindow) \in Windows(PerAddress)
  BY <1>1, RowWindowIsWindow, CountedFits DEF WrongCode, Checked, Locked
<1> DEFINE address == CountedIn(RowWindow)
<1>5. address.failures \in 0 .. PerAddress /\ address.since \in Times \cup {None}
  BY <1>2 DEF Windows
<1> HIDE DEF address
<1>6. row' = [row EXCEPT !.attempts = @ + 1, !.failures = address.failures, !.failuresSince = address.since]
  BY DEF WrongCode, address
<1>7. row' \in Rows
  <2>1. row.attempts + 1 \in 0 .. MaxAttempts
    BY <1>1 DEF Rows
  <2>2. row' = [code |-> row.code, expires |-> row.expires, attempts |-> row.attempts + 1, sentAt |-> row.sentAt,
                sends |-> row.sends, windowStart |-> row.windowStart,
                failures |-> address.failures, failuresSince |-> address.since]
    BY <1>1, <1>6 DEF Rows
  <2>3. QED
    BY <1>1, <1>5, <2>1, <2>2 DEF Rows
<1>8. /\ row'.code = row.code /\ row'.attempts = row.attempts + 1
      /\ row'.windowStart = row.windowStart /\ row'.sends = row.sends /\ row'.expires = row.expires
      /\ row'.failures = address.failures /\ row'.failuresSince = address.since
  BY <1>1, <1>6 DEF Rows
<1>9. RowWindow' = address
  <2>1. row' # None
    BY <1>7, NoneIsNoRow
  <2>2. address = [failures |-> address.failures, since |-> address.since]
    BY DEF CountedIn, address
  <2>3. QED
    BY <1>8, <2>1, <2>2 DEF RowWindow
<1>10. QED
  BY <1>7, <1>8, <1>9 DEF address

\* A wrong code raises three counters that were below their limits.
LEMMA WrongPreserves ==
  ASSUME IInv, NEW c \in Clients, NEW g \in 0 .. sent, WrongCode(c, g)
  PROVE  IInv'
<1> USE DEF IInv
<1>1. row \in Rows /\ now \in Times /\ tries \in Nat /\ row.attempts = tries /\ tries < MaxAttempts
  BY DEF WrongCode, Checked, TypeOK, Rows, RowIsTheLast
<1>3. failed[c] \in Windows(PerClient)
  BY DEF TypeOK, Windows
<1>4. CountedIn(failed[c]) \in Windows(PerClient)
  BY <1>1, <1>3, CountedFits DEF WrongCode, Checked, Locked
<1>7. row' \in Rows
  BY WrongRow
<1>8. row'.code = row.code /\ row'.attempts = row.attempts + 1
  BY WrongRow
<1>9. failed' \in [Clients -> [failures : 0 .. PerClient, since : Times \cup {None}]]
  BY <1>4 DEF WrongCode, TypeOK, Windows
<1>10. TypeOK'
  <2>1. tries' \in Nat
    BY <1>1 DEF WrongCode
  <2>2. QED
    BY <1>7, <1>9, <2>1 DEF TypeOK, WrongCode, Rows
<1>11. CodeOpensOnce' /\ SessionsAreHeld'
  <2>1. tries' <= MaxAttempts
    BY <1>1 DEF WrongCode
  <2>2. QED
    BY <2>1 DEF CodeOpensOnce, SessionsAreHeld, WrongCode
<1>12. RowIsTheLast'
  <2>1. row # None /\ tries' = tries + 1 /\ UNCHANGED <<sent, opened>>
    BY DEF WrongCode, Checked
  <2>2. QED
    BY <1>1, <1>8, <2>1 DEF RowIsTheLast
<1>13. QED
  BY <1>10, <1>11, <1>12

\* The right code: it is the last one sent, later than every one that opened a session.
LEMMA RightPreserves ==
  ASSUME IInv, NEW c \in Clients, NEW g \in 0 .. sent, RightCode(c, g)
  PROVE  IInv'
<1> USE DEF IInv
<1>1. row \in Rows /\ g = row.code /\ g \in Codes /\ g = sent
  BY DEF RightCode, Checked, TypeOK, Rows, RowIsTheLast
<1>2. CASE TurnAway
  BY <1>2 DEF RightCode, TurnAway, TypeOK, CodeOpensOnce, SessionsAreHeld, RowIsTheLast
<1>3. CASE Admit(c, g)
  <2>1. failed' \in [Clients -> [failures : 0 .. PerClient, since : Times \cup {None}]]
    BY <1>3, SweptIsWindow DEF Admit, TypeOK, Windows
  <2>2. sessions' \subseteq Codes /\ cookie' \in [Clients -> Codes \cup {None}]
    BY <1>1, <1>3 DEF Admit, OpenSession, TypeOK
  <2>3. opened' \in Seq(Codes)
    BY <1>1, <1>3 DEF Admit, TypeOK
  <2>4. TypeOK'
    BY <1>3, <2>1, <2>2, <2>3 DEF TypeOK, RightCode, Admit
  <2>5. /\ Len(opened') = Len(opened) + 1
        /\ DOMAIN opened' = 1 .. Len(opened) + 1
        /\ \A i \in DOMAIN opened : opened'[i] = opened[i]
        /\ opened'[Len(opened) + 1] = g
        /\ Len(opened) \in Nat
        /\ DOMAIN opened = 1 .. Len(opened)
    BY <1>1, <1>3 DEF Admit, TypeOK
  <2>6. \A i \in DOMAIN opened : opened[i] \in Codes /\ opened[i] < g /\ opened[i] <= sent
    BY <1>1, NoneAssumption DEF RowIsTheLast, TypeOK, RightCode, Checked
  <2>7. \A i, j \in DOMAIN opened' : i < j => opened'[i] < opened'[j]
    <3> SUFFICES ASSUME NEW i \in DOMAIN opened', NEW j \in DOMAIN opened', i < j
                 PROVE  opened'[i] < opened'[j]
      OBVIOUS
    <3>1. i \in DOMAIN opened
      BY <2>5
    <3>2. CASE j \in DOMAIN opened
      BY <2>5, <3>1, <3>2 DEF CodeOpensOnce
    <3>3. CASE j = Len(opened) + 1
      BY <2>5, <2>6, <3>1, <3>3
    <3>4. QED
      BY <2>5, <3>2, <3>3
  <2>8. CodeOpensOnce'
    BY <2>7 DEF CodeOpensOnce, RightCode
  <2>9. SessionsAreHeld'
    BY <1>3 DEF SessionsAreHeld, Admit, OpenSession, TypeOK
  <2>10. row' = None /\ sent' = sent /\ tries' = tries
    BY DEF RightCode
  <2>11. \A i \in DOMAIN opened' : opened'[i] <= sent
    <3>1. g <= sent
      BY <1>1 DEF TypeOK
    <3>2. \A i \in DOMAIN opened' : i \in DOMAIN opened \/ i = Len(opened) + 1
      BY <2>5
    <3>3. \A i \in DOMAIN opened : opened'[i] <= sent
      BY <2>5, <2>6
    <3>4. opened'[Len(opened) + 1] <= sent
      BY <2>5, <3>1
    <3>5. QED
      BY <3>2, <3>3, <3>4
  <2>12. RowIsTheLast'
    BY <2>10, <2>11 DEF RowIsTheLast
  <2>13. QED
    BY <2>4, <2>8, <2>9, <2>12
<1>4. QED
  BY <1>2, <1>3 DEF RightCode

LEMMA PurgePreserves == IInv /\ Purge => IInv'
<1> SUFFICES ASSUME IInv, Purge PROVE IInv'
  OBVIOUS
<1> USE DEF IInv, Purge, history
<1>1. failed' \in [Clients -> [failures : 0 .. PerClient, since : Times \cup {None}]]
  BY SweptIsWindow DEF TypeOK, Windows
<1>2. row' = None \/ row' = row
  OBVIOUS
<1>3. TypeOK'
  BY <1>1, <1>2 DEF TypeOK
<1>4. CodeOpensOnce' /\ SessionsAreHeld'
  BY DEF CodeOpensOnce, SessionsAreHeld
<1>5. RowIsTheLast'
  BY <1>2 DEF RowIsTheLast
<1>6. QED
  BY <1>3, <1>4, <1>5

\* The end of a session, of all of them, or of the account.
LEMMA EndingsPreserve ==
  ASSUME IInv,
         \/ \E s \in sessions : Expire(s)
         \/ \E c \in Clients : Logout(c) \/ DeleteAccount(c)
         \/ Disable \/ Enable
  PROVE  IInv'
<1> USE DEF IInv
<1>1. ASSUME NEW s \in sessions, Expire(s) PROVE IInv'
  BY <1>1 DEF Expire, TypeOK, CodeOpensOnce, SessionsAreHeld, RowIsTheLast, history
<1>2. ASSUME NEW c \in Clients, Logout(c) PROVE IInv'
  <2>1. TypeOK' /\ CodeOpensOnce' /\ RowIsTheLast'
    BY <1>2 DEF Logout, TypeOK, CodeOpensOnce, RowIsTheLast, history
  <2>2. SessionsAreHeld'
    BY <1>2 DEF Logout, TypeOK, SessionsAreHeld
  <2>3. QED
    BY <2>1, <2>2
<1>3. ASSUME NEW c \in Clients, DeleteAccount(c) PROVE IInv'
  <2>1. failed' \in [Clients -> [failures : 0 .. PerClient, since : Times \cup {None}]]
    BY <1>3 DEF DeleteAccount, NoWindow
  <2>2. TypeOK'
    BY <1>3, <2>1 DEF DeleteAccount, TypeOK
  <2>3. CodeOpensOnce' /\ RowIsTheLast' /\ SessionsAreHeld'
    BY <1>3 DEF DeleteAccount, CodeOpensOnce, RowIsTheLast, SessionsAreHeld
  <2>4. QED
    BY <2>2, <2>3
<1>4. ASSUME Disable PROVE IInv'
  BY <1>4 DEF Disable, TypeOK, CodeOpensOnce, SessionsAreHeld, RowIsTheLast, history
<1>5. ASSUME Enable PROVE IInv'
  BY <1>5 DEF Enable, TypeOK, CodeOpensOnce, SessionsAreHeld, RowIsTheLast, history
<1>6. QED
  BY <1>1, <1>2, <1>3, <1>4, <1>5

LEMMA TickPreserves == IInv /\ Tick => IInv'
BY DEF IInv, Tick, TypeOK, Times, CodeOpensOnce, SessionsAreHeld, RowIsTheLast

LEMMA NextPreserves == IInv /\ [Next]_vars => IInv'
<1> SUFFICES ASSUME IInv, [Next]_vars PROVE IInv'
  OBVIOUS
<1>1. CASE UNCHANGED vars
  BY <1>1 DEF vars, IInv, TypeOK, CodeOpensOnce, SessionsAreHeld, RowIsTheLast
<1>2. CASE Next
  BY <1>2, RequestPreserves, WrongPreserves, RightPreserves, EndingsPreserve, PurgePreserves, TickPreserves DEF Next
<1>3. QED
  BY <1>1, <1>2

LEMMA Inductive == Spec => []IInv
BY InitHolds, NextPreserves, PTL DEF Spec

-----------------------------------------------------------------------------
\* Every counter of store.js stays within its limit, whatever the order and the time of
\* the requests: tries, codes sent in a window, wrong codes of a client and of the address.
THEOREM SignInTypeCorrect == Spec => []TypeOK
BY Inductive, PTL DEF IInv

\* A code opens one session at most, never after a newer one was sent or used, and takes
\* MaxAttempts wrong codes at most (verifyLoginCode).
THEOREM CodesOpenOnce == Spec => []CodeOpensOnce
BY Inductive, PTL DEF IInv

\* Every session belongs to an open account and to the browser that holds its cookie:
\* neither a disabling, a deletion nor a second sign-in leaves one behind (openSession).
THEOREM SessionsHaveHolders == Spec => []SessionsAreHeld
BY Inductive, PTL DEF IInv

-----------------------------------------------------------------------------
(* The pace of the wrong codes and of the codes sent. *)

After(s) == {t \in Times : t > s}
From(s)  == {t \in Times : t >= s}

\* A window that still counts at tick n.
Open(n, w, span) == w.since # None /\ n - w.since < span

\* A history h of the last span against the window w that counts it.  What is in the
\* window is counted by it, its first one apart from those after it; what was before it
\* had lost its first one when the window opened.
Paced(n, h, w, limit, span) ==
  /\ h \in [Times -> Nat]
  /\ \A t \in Times : t > n \/ n - t >= span => h[t] = 0
  /\ ~Open(n, w, span) => h[n] = 0 /\ SumOver(h, Times) < limit
  /\ Open(n, w, span) =>
       /\ w.since \in Times /\ w.since =< n /\ w.failures \in 1 .. limit
       /\ SumOver(h, After(w.since)) < w.failures
       /\ SumOver(h, From(w.since)) =< w.failures
       /\ SumOver(h, Times \ From(w.since)) < limit

\* The row's window of codes sent.
SentWindow == IF row = None THEN NoWindow ELSE [failures |-> row.sends, since |-> row.windowStart]

PacedInv ==
  /\ row # None => row.windowStart =< row.expires
  /\ wrongAt \in [Clients -> [Times -> Nat]]
  /\ \A c \in Clients : Paced(now, wrongAt[c], failed[c], PerClient, Day)
  /\ Paced(now, missedAt, RowWindow, PerAddress, Day)
  /\ Paced(now, sentAt, SentWindow, MaxSends, Hour)

(* The ticks are finitely many numbers. *)
LEMMA TimesFinite == IsFiniteSet(Times) /\ Times \subseteq Nat
  BY FS_Interval DEF Times

LEMMA AtLeastOne == PerClient >= 1 /\ PerAddress >= 1 /\ MaxSends >= 1 /\ Day >= 1 /\ Hour >= 1
  BY LimitsAssumption

(* What is paced stays below twice the limit. *)
LEMMA PacedTotal ==
  ASSUME NEW n, NEW h, NEW w, NEW limit \in Nat, NEW span, Paced(n, h, w, limit, span)
  PROVE  Total(h) < 2 * limit
  <1>1. h \in [Times -> Nat] /\ DOMAIN h = Times
    BY DEF Paced
  <1>2. Total(h) = SumOver(h, Times) /\ SumOver(h, Times) \in Nat
    BY <1>1, TotalIsASum, TimesFinite, SumIsNumber
  <1>3. CASE ~Open(n, w, span)
    BY <1>2, <1>3 DEF Paced
  <1>4. CASE Open(n, w, span)
    <2> DEFINE S == From(w.since)
    <2>1. SumOver(h, S) =< w.failures /\ SumOver(h, Times \ S) < limit /\ w.failures \in 1 .. limit
      BY <1>4 DEF Paced
    <2>2. S \in SUBSET Times /\ Times \cap S = S
      BY DEF From
    <2> HIDE DEF S
    <2>3. SumOver(h, S) \in Nat /\ SumOver(h, Times \ S) \in Nat
      BY <1>1, <2>2, TimesFinite, SumIsNumber
    <2>4. SumOver(h, Times) = SumOver(h, S) + SumOver(h, Times \ S)
      BY <1>1, <2>2, TimesFinite, SumHalves
    <2>5. SumOver(h, Times) < 2 * limit
      BY <2>1, <2>3, <2>4
    <2> QED
      BY <1>2, <2>5
  <1> QED
    BY <1>3, <1>4

(* An empty history is paced by no window at all. *)
LEMMA PacedNever ==
  ASSUME NEW n \in Times, NEW limit \in Nat, limit >= 1, NEW span
  PROVE  Paced(n, Never, NoWindow, limit, span)
  <1>1. Never \in [Times -> Nat] /\ \A t \in Times : Never[t] = 0
    BY DEF Never
  <1>2. SumOver(Never, {}) = 0
    BY <1>1, TimesFinite, SumFirst
  <1>3. SumOver(Never, Times) =< SumOver(Never, {})
    BY <1>1, TimesFinite, SumBelow
  <1>4. SumOver(Never, Times) \in Nat
    BY <1>1, TimesFinite, SumIsNumber
  <1>5. ~Open(n, NoWindow, span)
    BY DEF Open, NoWindow
  <1> QED
    BY <1>1, <1>2, <1>3, <1>4, <1>5 DEF Paced

(* A window that counts no more may be any other such window. *)
LEMMA PacedClosed ==
  ASSUME NEW n, NEW h, NEW w, NEW v, NEW limit, NEW span,
         Paced(n, h, w, limit, span), ~Open(n, w, span), ~Open(n, v, span)
  PROVE  Paced(n, h, v, limit, span)
  BY DEF Paced

(* One more at tick n, in the window that counts or in one it opens. *)
LEMMA PacedCounted ==
  ASSUME NEW n \in Times, NEW h, NEW g, NEW w, NEW v, NEW limit \in Nat, NEW span \in Nat,
         limit >= 1, span >= 1, Paced(n, h, w, limit, span),
         g \in [Times -> Nat], g[n] = h[n] + 1, \A t \in Times : t # n => g[t] = h[t],
         v.since = IF Open(n, w, span) THEN w.since ELSE n,
         v.failures = IF Open(n, w, span) THEN w.failures + 1 ELSE 1,
         v.failures =< limit
  PROVE  Paced(n, g, v, limit, span)
  <1>1. /\ h \in [Times -> Nat] /\ n \in Nat /\ Times \subseteq Nat
        /\ g[n] =< h[n] + 1 /\ \A t \in Times : t # n => g[t] =< h[t]
    BY TimesFinite DEF Paced
  <1>2. \A t \in Times : t > n \/ n - t >= span => g[t] = 0
    BY <1>1 DEF Paced
  <1>3. ASSUME NEW S \in SUBSET Times
        PROVE  /\ SumOver(g, S) \in Nat /\ SumOver(h, S) \in Nat
               /\ SumOver(g, S) =< SumOver(h, S) + 1
               /\ n \notin S => SumOver(g, S) =< SumOver(h, S)
    <2>1. SumOver(g, S) =< SumOver(h, S) + (IF n \in S THEN 1 ELSE 0)
      BY <1>1, TimesFinite, SumPlusOne
    <2>2. SumOver(g, S) \in Nat /\ SumOver(h, S) \in Nat
      BY <1>1, TimesFinite, SumIsNumber
    <2> QED
      BY <2>1, <2>2
  <1>4. n # None
    BY <1>1
  <1>5. CASE Open(n, w, span)
    <2>1. v.since = w.since /\ v.failures = w.failures + 1 /\ Open(n, v, span)
      BY <1>5 DEF Open
    <2> DEFINE s == w.since
    <2>2. /\ s \in Times /\ s =< n /\ w.failures \in 1 .. limit
          /\ SumOver(h, After(s)) < w.failures
          /\ SumOver(h, From(s)) =< w.failures
          /\ SumOver(h, Times \ From(s)) < limit
      BY <1>5 DEF Paced
    <2>3. /\ After(s) \in SUBSET Times /\ From(s) \in SUBSET Times /\ Times \ From(s) \in SUBSET Times
          /\ n \notin Times \ From(s)
      BY <2>2, <1>1 DEF After, From
    <2>4. v.failures \in 1 .. limit
      BY <2>1, <2>2
    <2> HIDE DEF s
    <2>5. SumOver(g, After(s)) < v.failures
      <3>1. /\ SumOver(g, After(s)) \in Nat /\ SumOver(h, After(s)) \in Nat
            /\ SumOver(g, After(s)) =< SumOver(h, After(s)) + 1
        BY <1>3, <2>3
      <3> QED
        BY <2>1, <2>2, <3>1
    <2>6. SumOver(g, From(s)) =< v.failures
      <3>1. /\ SumOver(g, From(s)) \in Nat /\ SumOver(h, From(s)) \in Nat
            /\ SumOver(g, From(s)) =< SumOver(h, From(s)) + 1
        BY <1>3, <2>3
      <3> QED
        BY <2>1, <2>2, <3>1
    <2>7. SumOver(g, Times \ From(s)) < limit
      <3>1. /\ SumOver(g, Times \ From(s)) \in Nat /\ SumOver(h, Times \ From(s)) \in Nat
            /\ SumOver(g, Times \ From(s)) =< SumOver(h, Times \ From(s))
        BY <1>3, <2>3
      <3> QED
        BY <2>2, <3>1
    <2> QED
      BY <1>1, <1>2, <2>1, <2>2, <2>4, <2>5, <2>6, <2>7 DEF Paced, s
  <1>6. CASE ~Open(n, w, span)
    <2>1. v.since = n /\ v.failures = 1 /\ Open(n, v, span)
      BY <1>1, <1>4, <1>6 DEF Open
    <2>2. h[n] = 0 /\ SumOver(h, Times) < limit /\ \A t \in Times : t > n => h[t] = 0
      BY <1>6 DEF Paced
    <2>3. /\ After(n) \in SUBSET Times /\ From(n) \in SUBSET Times /\ Times \ From(n) \in SUBSET Times
          /\ n \notin Times \ From(n) /\ n \notin After(n)
          /\ (\A t \in After(n) : h[t] = 0) /\ \A t \in From(n) : h[t] = 0
      BY <1>1, <2>2 DEF After, From
    <2>4. SumOver(h, {}) = 0
      BY <1>1, TimesFinite, SumFirst
    <2>5. SumOver(h, After(n)) =< 0
      <3>1. SumOver(h, After(n)) =< SumOver(h, {})
        BY <1>1, <2>3, TimesFinite, SumBelow
      <3> QED
        BY <2>4, <3>1
    <2>6. SumOver(h, From(n)) =< 0
      <3>1. SumOver(h, From(n)) =< SumOver(h, {})
        BY <1>1, <2>3, TimesFinite, SumBelow
      <3> QED
        BY <2>4, <3>1
    <2>7. SumOver(h, Times \ From(n)) =< SumOver(h, Times)
      <3>1. \A t \in Times \ From(n) : t \in Times /\ h[t] =< h[t]
        BY <1>1
      <3> QED
        BY <1>1, <2>3, <3>1, TimesFinite, SumBelow
    <2>8. /\ SumOver(g, After(n)) < 1 /\ SumOver(g, From(n)) =< 1
          /\ SumOver(g, Times \ From(n)) < limit
      <3>1. /\ SumOver(g, After(n)) \in Nat /\ SumOver(h, After(n)) \in Nat
            /\ SumOver(g, After(n)) =< SumOver(h, After(n))
        BY <1>3, <2>3
      <3>2. /\ SumOver(g, From(n)) \in Nat /\ SumOver(h, From(n)) \in Nat
            /\ SumOver(g, From(n)) =< SumOver(h, From(n)) + 1
        BY <1>3, <2>3
      <3>3. /\ SumOver(g, Times \ From(n)) \in Nat /\ SumOver(h, Times \ From(n)) \in Nat
            /\ SumOver(g, Times \ From(n)) =< SumOver(h, Times \ From(n)) /\ SumOver(h, Times) \in Nat
        BY <1>3, <2>3
      <3> QED
        BY <2>2, <2>5, <2>6, <2>7, <3>1, <3>2, <3>3
    <2>9. 1 \in 1 .. limit /\ n =< n
      BY <1>1
    <2> QED
      BY <1>1, <1>2, <2>1, <2>8, <2>9 DEF Paced
  <1> QED
    BY <1>5, <1>6

(* A tick later the history is shorter by one: the first one of a window that closes. *)
LEMMA PacedTick ==
  ASSUME NEW n \in Times, n + 1 \in Times, NEW h, NEW g, NEW w, NEW limit \in Nat, NEW span \in Nat,
         w.since \in Times \cup {None}, limit >= 1, span >= 1, Paced(n, h, w, limit, span),
         g = [t \in Times |-> IF n + 1 - t < span THEN h[t] ELSE 0]
  PROVE  Paced(n + 1, g, w, limit, span)
  <1>1. /\ h \in [Times -> Nat] /\ g \in [Times -> Nat] /\ n \in Nat /\ Times \subseteq Nat
        /\ \A t \in Times : g[t] = 0 \/ g[t] = h[t]
        /\ \A t \in Times : n + 1 - t >= span => g[t] = 0
    BY TimesFinite DEF Paced
  <1>2. \A t \in Times : t > n + 1 \/ n + 1 - t >= span => g[t] = 0
    BY <1>1 DEF Paced
  <1>3. g[n + 1] = 0
    BY <1>1 DEF Paced
  <1>4. ASSUME NEW S \in SUBSET Times
        PROVE  SumOver(g, S) \in Nat /\ SumOver(h, S) \in Nat /\ SumOver(g, S) =< SumOver(h, S)
    <2>1. \A t \in S : g[t] = 0 \/ (t \in S /\ g[t] =< h[t])
      BY <1>1
    <2>2. SumOver(g, S) =< SumOver(h, S)
      BY <1>1, <2>1, TimesFinite, SumBelow
    <2> QED
      BY <1>1, <2>2, TimesFinite, SumIsNumber
  <1>5. CASE ~Open(n, w, span)
    <2>1. ~Open(n + 1, w, span)
      <3>1. CASE w.since = None
        BY <3>1 DEF Open
      <3>2. CASE w.since \in Nat /\ n - w.since >= span
        BY <1>1, <3>2 DEF Open
      <3>3. w.since \in Nat \cup {None}
        BY <1>1
      <3>4. w.since \in Nat => n - w.since \in Int
        BY <1>1
      <3> QED
        BY <1>5, <3>1, <3>2, <3>3, <3>4 DEF Open
    <2>2. SumOver(h, Times) < limit
      BY <1>5 DEF Paced
    <2>3. SumOver(g, Times) < limit
      BY <1>4, <2>2
    <2> QED
      BY <1>1, <1>2, <1>3, <2>1, <2>3 DEF Paced
  <1>6. CASE Open(n, w, span)
    <2> DEFINE s == w.since
    <2>1. /\ s \in Times /\ s =< n /\ w.failures \in 1 .. limit
          /\ SumOver(h, After(s)) < w.failures
          /\ SumOver(h, From(s)) =< w.failures
          /\ SumOver(h, Times \ From(s)) < limit
      BY <1>6 DEF Paced
    <2>2. After(s) \in SUBSET Times /\ From(s) \in SUBSET Times /\ Times \ From(s) \in SUBSET Times
      BY DEF After, From
    <2>3. CASE Open(n + 1, w, span)
      <3>0. s \in Nat /\ s =< n
        BY <1>1, <2>1
      <3> HIDE DEF s
      <3>1. s =< n + 1
        BY <1>1, <3>0
      <3>2. /\ SumOver(g, After(s)) < w.failures /\ SumOver(g, From(s)) =< w.failures
            /\ SumOver(g, Times \ From(s)) < limit
        BY <1>4, <2>1, <2>2
      <3> QED
        BY <1>1, <1>2, <2>1, <2>3, <3>1, <3>2 DEF Paced, s
    <2>4. CASE ~Open(n + 1, w, span)
      <3>1. n + 1 - s >= span
        BY <1>1, <1>6, <2>1, <2>4 DEF Open
      <3>2. \A t \in Times : g[t] = 0 \/ (t \in After(s) /\ g[t] =< h[t])
        <4> SUFFICES ASSUME NEW t \in Times PROVE g[t] = 0 \/ (t \in After(s) /\ g[t] =< h[t])
          OBVIOUS
        <4>0. t \in Nat /\ s \in Nat /\ h[t] \in Nat
          BY <1>1, <2>1
        <4> HIDE DEF s
        <4>1. CASE t =< s
          <5>1. n + 1 - t >= span
            BY <1>1, <3>1, <4>0, <4>1
          <5> QED
            BY <1>1, <5>1
        <4>2. CASE t > s
          <5>1. t \in After(s)
            BY <4>2 DEF After
          <5>2. g[t] = 0 \/ g[t] =< h[t]
            BY <1>1, <4>0
          <5> QED
            BY <5>1, <5>2
        <4> QED
          BY <4>0, <4>1, <4>2
      <3> HIDE DEF s
      <3>3. SumOver(g, Times) =< SumOver(h, After(s))
        BY <1>1, <2>2, <3>2, TimesFinite, SumBelow
      <3>4. SumOver(g, Times) < limit
        BY <1>4, <2>1, <2>2, <3>3
      <3> QED
        BY <1>1, <1>2, <1>3, <2>4, <3>4 DEF Paced
    <2> QED
      BY <2>3, <2>4
  <1> QED
    BY <1>5, <1>6

-----------------------------------------------------------------------------
(* What follows shows PacedInv kept, an action at a time. *)
LEMMA PacedInit == Init => PacedInv
  <1> SUFFICES ASSUME Init PROVE PacedInv
    OBVIOUS
  <1>1. 0 \in Times /\ now = 0 /\ row = None
    BY DEF Init, Times
  <1>2. /\ Paced(now, Never, NoWindow, PerClient, Day)
        /\ Paced(now, Never, NoWindow, PerAddress, Day)
        /\ Paced(now, Never, NoWindow, MaxSends, Hour)
    BY <1>1, AtLeastOne, PacedNever
  <1>3. Never \in [Times -> Nat]
    BY DEF Never
  <1>4. \A c \in Clients : wrongAt[c] = Never /\ failed[c] = NoWindow
    BY DEF Init
  <1>5. wrongAt \in [Clients -> [Times -> Nat]]
    BY <1>3 DEF Init
  <1> QED
    BY <1>1, <1>2, <1>4, <1>5 DEF PacedInv, RowWindow, SentWindow, Init

LEMMA PacedRequest ==
  ASSUME IInv, PacedInv, NEW c \in Clients, RequestCode(c)
  PROVE  PacedInv'
  <1>1. now \in Times /\ now \in Nat /\ (row # None => row \in Rows)
    BY DEF IInv, TypeOK, Times, Rows
  <1>2. /\ row'.windowStart = SendWindow.start /\ row'.sends = SendWindow.sends /\ row'.expires = now + Ttl
        /\ row'.failures = RowWindow.failures /\ row'.failuresSince = RowWindow.since
        /\ row' # None /\ SendWindow.sends =< MaxSends
    <2>1. row' \in Rows
      BY RequestedRow
    <2>2. row' # None
      BY <2>1, NoneIsNoRow
    <2> QED
      BY <2>2 DEF RequestCode
  <1>3. row'.windowStart =< row'.expires
    <2>1. SendWindow.start =< now /\ SendWindow.start \in Nat
      <3>1. CASE row # None /\ now - row.windowStart < Hour
        BY <1>1, <3>1 DEF SendWindow, PacedInv, Paced, SentWindow, Open, Rows, Times
      <3>2. CASE ~(row # None /\ now - row.windowStart < Hour)
        BY <1>1, <3>2 DEF SendWindow
      <3> QED
        BY <3>1, <3>2
    <2> QED
      BY <1>1, <1>2, <2>1
  <1>4. RowWindow' = RowWindow
    BY <1>2 DEF RowWindow, NoWindow
  <1>5. Paced(now, sentAt', SentWindow', MaxSends, Hour)
    <2>1. SentWindow' = [failures |-> SendWindow.sends, since |-> SendWindow.start]
      BY <1>2 DEF SentWindow
    <2>2. /\ SentWindow'.since = IF Open(now, SentWindow, Hour) THEN SentWindow.since ELSE now
          /\ SentWindow'.failures = IF Open(now, SentWindow, Hour) THEN SentWindow.failures + 1 ELSE 1
      <3>1. Open(now, SentWindow, Hour) <=> row # None /\ now - row.windowStart < Hour
        BY <1>1 DEF Open, SentWindow, NoWindow, Rows, Times
      <3> QED
        BY <2>1, <3>1 DEF SendWindow, SentWindow
    <2>3. sentAt \in [Times -> Nat] /\ sentAt' = [sentAt EXCEPT ![now] = @ + 1]
      BY DEF PacedInv, Paced, RequestCode
    <2>4. sentAt' \in [Times -> Nat] /\ sentAt'[now] = sentAt[now] + 1 /\ \A t \in Times : t # now => sentAt'[t] = sentAt[t]
      BY <1>1, <2>3
    <2>5. Paced(now, sentAt, SentWindow, MaxSends, Hour) /\ SentWindow'.failures =< MaxSends
      BY <1>2, <2>1 DEF PacedInv
    <2> QED
      BY <1>1, <2>2, <2>4, <2>5, AtLeastOne, PacedCounted
  <1> QED
    BY <1>3, <1>4, <1>5 DEF PacedInv, RequestCode

(* A wrong code counted in a window that takes it. *)
LEMMA CountedPaced ==
  ASSUME NEW limit \in Nat, limit >= 1, now \in Times, NEW w \in Windows(limit), NEW h, NEW g,
         Paced(now, h, w, limit, Day), ~(DailyFailures(w).failures >= limit),
         g \in [Times -> Nat], g[now] = h[now] + 1, \A t \in Times : t # now => g[t] = h[t]
  PROVE  Paced(now, g, CountedIn(w), limit, Day)
  <1>1. DailyFailures(w) = IF Open(now, w, Day) THEN w ELSE NoWindow
    <2>1. w.since \in Times \cup {None} /\ now \in Nat /\ Times \subseteq Nat
      BY TimesFinite DEF Windows
    <2>2. CASE w.since = None
      BY <2>2 DEF DailyFailures, Open
    <2>3. CASE w.since # None
      <3> DEFINE since == w.since
      <3>1. since \in Nat
        BY <2>1, <2>3
      <3> HIDE DEF since
      <3>2. now - since >= Day <=> ~(now - since < Day)
        BY <2>1, <3>1
      <3> USE DEF since
      <3>3. now - w.since >= Day <=> ~(now - w.since < Day)
        BY <3>2
      <3> QED
        BY <2>3, <3>3 DEF DailyFailures, Open
    <2> QED
      BY <2>2, <2>3
  <1>2. CountedIn(w) \in Windows(limit)
    BY CountedFits
  <1> DEFINE v == CountedIn(w)
  <1>3. /\ v.since = IF Open(now, w, Day) THEN w.since ELSE now
        /\ v.failures = IF Open(now, w, Day) THEN w.failures + 1 ELSE 1
    <2>1. CASE Open(now, w, Day)
      BY <1>1, <2>1 DEF CountedIn, Open
    <2>2. CASE ~Open(now, w, Day)
      BY <1>1, <2>2 DEF CountedIn, NoWindow
    <2> QED
      BY <2>1, <2>2
  <1>4. v.failures =< limit
    BY <1>2 DEF Windows
  <1> HIDE DEF v
  <1>5. Paced(now, g, v, limit, Day)
    BY <1>3, <1>4, AtLeastOne, PacedCounted
  <1> QED
    BY <1>5 DEF v

LEMMA PacedWrong ==
  ASSUME IInv, PacedInv, NEW c \in Clients, NEW g \in 0 .. sent, WrongCode(c, g)
  PROVE  PacedInv'
  <1>1. now \in Times /\ row \in Rows /\ row # None /\ row' \in Rows
    <2>1. row # None
      BY DEF WrongCode, Checked
    <2>2. row' \in Rows
      BY WrongRow
    <2> QED
      BY <2>1, <2>2 DEF IInv, TypeOK
  <1> DEFINE address == CountedIn(RowWindow)
  <1>3. row'.windowStart = row.windowStart /\ row'.sends = row.sends /\ row'.expires = row.expires
    BY WrongRow
  <1>4. RowWindow \in Windows(PerAddress) /\ failed[c] \in Windows(PerClient) /\ ~Locked(c)
    BY <1>1, RowWindowIsWindow DEF IInv, TypeOK, Windows, WrongCode, Checked
  <1>5. row' # None
    BY <1>1, NoneIsNoRow
  <1>6. RowWindow' = address
    BY WrongRow
  <1>7. SentWindow' = SentWindow /\ row'.windowStart =< row'.expires
    BY <1>1, <1>3, <1>5 DEF SentWindow, PacedInv
  <1>8. Paced(now, missedAt', address, PerAddress, Day)
    <2>1. missedAt \in [Times -> Nat] /\ missedAt' = [missedAt EXCEPT ![now] = @ + 1]
      BY DEF PacedInv, Paced, WrongCode
    <2>2. missedAt' \in [Times -> Nat] /\ missedAt'[now] = missedAt[now] + 1 /\ \A t \in Times : t # now => missedAt'[t] = missedAt[t]
      BY <1>1, <2>1
    <2>3. ~(DailyFailures(RowWindow).failures >= PerAddress) /\ Paced(now, missedAt, RowWindow, PerAddress, Day)
      BY <1>4 DEF Locked, PacedInv
    <2> QED
      BY <1>1, <1>4, <2>2, <2>3, AtLeastOne, CountedPaced
  <1>9. wrongAt' \in [Clients -> [Times -> Nat]] /\ \A d \in Clients : Paced(now, wrongAt'[d], failed'[d], PerClient, Day)
    <2>1. wrongAt \in [Clients -> [Times -> Nat]] /\ wrongAt' = [wrongAt EXCEPT ![c][now] = @ + 1]
      BY DEF PacedInv, WrongCode
    <2>2. /\ wrongAt' \in [Clients -> [Times -> Nat]]
          /\ wrongAt'[c][now] = wrongAt[c][now] + 1 /\ \A t \in Times : t # now => wrongAt'[c][t] = wrongAt[c][t]
          /\ \A d \in Clients : d # c => wrongAt'[d] = wrongAt[d]
      BY <1>1, <2>1
    <2>3. failed'[c] = CountedIn(failed[c]) /\ \A d \in Clients : d # c => failed'[d] = failed[d]
      BY DEF WrongCode, IInv, TypeOK
    <2>4. ~(DailyFailures(failed[c]).failures >= PerClient) /\ \A d \in Clients : Paced(now, wrongAt[d], failed[d], PerClient, Day)
      BY <1>4 DEF Locked, PacedInv
    <2>5. wrongAt'[c] \in [Times -> Nat]
      BY <2>2
    <2>6. Paced(now, wrongAt'[c], CountedIn(failed[c]), PerClient, Day)
      BY <1>1, <1>4, <2>2, <2>4, <2>5, AtLeastOne, CountedPaced
    <2> QED
      BY <2>2, <2>3, <2>4, <2>6
  <1>10. now' = now /\ sentAt' = sentAt
    BY DEF WrongCode
  <1> HIDE DEF address
  <1> QED
    BY <1>5, <1>6, <1>7, <1>8, <1>9, <1>10 DEF PacedInv

(* What closes a window leaves its history paced: only one that counts no more closes. *)
LEMMA SweptPaced ==
  ASSUME now \in Times, NEW limit \in Nat, NEW w \in Windows(limit), NEW h,
         Paced(now, h, w, limit, Day)
  PROVE  Paced(now, h, Swept(w), limit, Day)
  <1>1. CASE Swept(w) = w
    BY <1>1
  <1>2. CASE w.since # None /\ w.since < now - Day
    <2> DEFINE since == w.since
    <2>1. since \in Nat /\ now \in Nat
      BY <1>2, TimesFinite DEF Windows
    <2> HIDE DEF since
    <2>2. since < now - Day => ~(now - since < Day)
      BY <2>1
    <2>3. ~Open(now, w, Day)
      BY <1>2, <2>2 DEF Open, since
    <2>4. Swept(w) = NoWindow /\ ~Open(now, NoWindow, Day)
      BY <1>2 DEF Swept, Open, NoWindow
    <2> QED
      BY <2>3, <2>4, PacedClosed
  <1> QED
    BY <1>1, <1>2 DEF Swept

LEMMA FailedPaced ==
  ASSUME IInv, PacedInv, NEW c \in Clients
  PROVE  Paced(now, wrongAt[c], Swept(failed[c]), PerClient, Day)
  <1>1. failed[c] \in Windows(PerClient) /\ now \in Times
    BY DEF IInv, TypeOK, Windows
  <1>2. Paced(now, wrongAt[c], failed[c], PerClient, Day)
    BY DEF PacedInv
  <1> QED
    BY <1>1, <1>2, SweptPaced

\* Nothing was counted since the last right code: there is no row and no history.
LEMMA PacedAnew ==
  ASSUME IInv, row' = None, missedAt' = Never, sentAt' = Never, now' = now
  PROVE  /\ row' # None => row'.windowStart =< row'.expires
         /\ Paced(now, missedAt, RowWindow, PerAddress, Day)'
         /\ Paced(now, sentAt, SentWindow, MaxSends, Hour)'
  <1>1. now \in Times /\ RowWindow' = NoWindow /\ SentWindow' = NoWindow
    BY DEF IInv, TypeOK, RowWindow, SentWindow
  <1>2. Paced(now, Never, NoWindow, PerAddress, Day) /\ Paced(now, Never, NoWindow, MaxSends, Hour)
    BY <1>1, AtLeastOne, PacedNever
  <1> QED
    BY <1>1, <1>2

LEMMA PacedRight ==
  ASSUME IInv, PacedInv, NEW c \in Clients, NEW g \in 0 .. sent, RightCode(c, g)
  PROVE  PacedInv'
  <1>1. row' = None /\ missedAt' = Never /\ sentAt' = Never /\ now' = now /\ wrongAt' = wrongAt
    BY DEF RightCode
  <1>2. \A d \in Clients : Paced(now, wrongAt[d], failed'[d], PerClient, Day)
    <2>1. CASE TurnAway
      BY <2>1 DEF TurnAway, PacedInv
    <2>2. CASE Admit(c, g)
      <3>1. \A d \in Clients : failed'[d] = Swept(failed[d])
        BY <2>2 DEF Admit
      <3> QED
        BY <3>1, FailedPaced
    <2> QED
      BY <2>1, <2>2 DEF RightCode
  <1>3. wrongAt \in [Clients -> [Times -> Nat]]
    BY DEF PacedInv
  <1> QED
    BY <1>1, <1>2, <1>3, PacedAnew DEF PacedInv

(* The purge drops a row whose code ended more than an hour ago, and with it a window of
   codes sent that no longer counts: it opened before the code it let through ended. *)
LEMMA PacedPurge ==
  ASSUME IInv, PacedInv, Purge
  PROVE  PacedInv'
  <1>1. now' = now /\ wrongAt' = wrongAt /\ missedAt' = missedAt /\ sentAt' = sentAt
    BY DEF Purge, history
  <1>2. \A d \in Clients : Paced(now, wrongAt[d], failed'[d], PerClient, Day)
    <2>1. \A d \in Clients : failed'[d] = Swept(failed[d])
      BY DEF Purge
    <2> QED
      BY <2>1, FailedPaced
  <1>3. CASE row' = row
    <2>1. RowWindow' = RowWindow /\ SentWindow' = SentWindow
      BY <1>3 DEF RowWindow, SentWindow
    <2> QED
      BY <1>1, <1>2, <1>3, <2>1 DEF PacedInv
  <1>4. CASE row' # row
    <2>1. /\ row' = None /\ row # None /\ row.expires < now - Hour
          /\ row.failuresSince # None => row.failuresSince < now - Day
      BY <1>4 DEF Purge
    <2>2. row \in Rows /\ now \in Times /\ now \in Nat /\ Times \subseteq Nat /\ row.windowStart =< row.expires
      BY <2>1, TimesFinite DEF IInv, TypeOK, PacedInv
    <2>3. RowWindow' = NoWindow /\ SentWindow' = NoWindow
      BY <2>1 DEF RowWindow, SentWindow
    <2>4. ~Open(now, SentWindow, Hour)
      <3> DEFINE start == row.windowStart
                 ends == row.expires
      <3>1. start \in Nat /\ ends \in Nat /\ start =< ends /\ ends < now - Hour
        BY <2>1, <2>2 DEF Rows
      <3> HIDE DEF start, ends
      <3>2. ~(now - start < Hour)
        BY <2>2, <3>1
      <3>3. SentWindow.since = start
        BY <2>1 DEF SentWindow, start
      <3> QED
        BY <3>2, <3>3 DEF Open
    <2>5. ~Open(now, RowWindow, Day)
      <3> DEFINE since == row.failuresSince
      <3>1. RowWindow.since = since /\ (since # None => since \in Nat /\ since < now - Day)
        BY <2>1, <2>2 DEF RowWindow, Rows
      <3> HIDE DEF since
      <3>2. since # None => ~(now - since < Day)
        BY <2>2, <3>1
      <3> QED
        BY <3>1, <3>2 DEF Open
    <2>6. ~Open(now, NoWindow, Day) /\ ~Open(now, NoWindow, Hour)
      BY DEF Open, NoWindow
    <2>7. /\ Paced(now, missedAt, NoWindow, PerAddress, Day)
          /\ Paced(now, sentAt, NoWindow, MaxSends, Hour)
      BY <2>4, <2>5, <2>6, PacedClosed DEF PacedInv
    <2>8. wrongAt \in [Clients -> [Times -> Nat]]
      BY DEF PacedInv
    <2> QED
      BY <1>1, <1>2, <2>1, <2>3, <2>7, <2>8 DEF PacedInv
  <1> QED
    BY <1>3, <1>4

LEMMA PacedDelete ==
  ASSUME IInv, PacedInv, NEW c \in Clients, DeleteAccount(c)
  PROVE  PacedInv'
  <1>1. row' = None /\ missedAt' = Never /\ sentAt' = Never /\ now' = now
    BY DEF DeleteAccount
  <1>2. \A d \in Clients : wrongAt'[d] = Never /\ failed'[d] = NoWindow
    BY DEF DeleteAccount
  <1>3. now \in Times
    BY DEF IInv, TypeOK
  <1>4. Paced(now, Never, NoWindow, PerClient, Day)
    BY <1>3, AtLeastOne, PacedNever
  <1>5. wrongAt' \in [Clients -> [Times -> Nat]]
    BY DEF DeleteAccount, Never
  <1> QED
    BY <1>1, <1>2, <1>4, <1>5, PacedAnew DEF PacedInv

\* The steps that count nothing and leave the time alone.
LEMMA PacedIdle ==
  ASSUME PacedInv, UNCHANGED <<now, row, failed, wrongAt, missedAt, sentAt>>
  PROVE  PacedInv'
  BY DEF PacedInv, RowWindow, SentWindow

LEMMA PacedTicks ==
  ASSUME IInv, PacedInv, Tick
  PROVE  PacedInv'
  <1>1. now \in Times /\ now + 1 \in Times /\ now' = now + 1
    BY DEF IInv, TypeOK, Tick, Times
  <1>2. /\ row' = row /\ failed' = failed /\ RowWindow' = RowWindow /\ SentWindow' = SentWindow
    BY DEF Tick, RowWindow, SentWindow
  <1>3. Paced(now + 1, missedAt', RowWindow, PerAddress, Day)
    <2>1. RowWindow.since \in Times \cup {None}
      BY RowWindowIsWindow DEF IInv, TypeOK, Windows
    <2>2. missedAt' = [t \in Times |-> IF now + 1 - t < Day THEN missedAt[t] ELSE 0]
      BY DEF Tick, Recent
    <2>3. Paced(now, missedAt, RowWindow, PerAddress, Day)
      BY DEF PacedInv
    <2> QED
      BY <1>1, <2>1, <2>2, <2>3, AtLeastOne, PacedTick
  <1>4. Paced(now + 1, sentAt', SentWindow, MaxSends, Hour)
    <2>1. SentWindow.since \in Times \cup {None}
      BY DEF IInv, TypeOK, SentWindow, NoWindow, Rows
    <2>2. sentAt' = [t \in Times |-> IF now + 1 - t < Hour THEN sentAt[t] ELSE 0]
      BY DEF Tick, Recent
    <2>3. Paced(now, sentAt, SentWindow, MaxSends, Hour)
      BY DEF PacedInv
    <2> QED
      BY <1>1, <2>1, <2>2, <2>3, AtLeastOne, PacedTick
  <1>5. ASSUME NEW c \in Clients
        PROVE  wrongAt'[c] \in [Times -> Nat] /\ Paced(now + 1, wrongAt'[c], failed[c], PerClient, Day)
    <2>1. failed[c].since \in Times \cup {None}
      BY DEF IInv, TypeOK
    <2>2. wrongAt'[c] = [t \in Times |-> IF now + 1 - t < Day THEN wrongAt[c][t] ELSE 0]
      BY DEF Tick, Recent
    <2>3. Paced(now, wrongAt[c], failed[c], PerClient, Day)
      BY DEF PacedInv
    <2>4. Paced(now + 1, wrongAt'[c], failed[c], PerClient, Day)
      BY <1>1, <2>1, <2>2, <2>3, AtLeastOne, PacedTick
    <2> QED
      BY <2>4 DEF Paced
  <1>6. wrongAt' \in [Clients -> [Times -> Nat]]
    <2>1. wrongAt' = [c \in Clients |-> wrongAt'[c]]
      BY DEF Tick
    <2> QED
      BY <1>5, <2>1
  <1>7. row # None => row.windowStart =< row.expires
    BY DEF PacedInv
  <1> QED
    BY <1>1, <1>2, <1>3, <1>4, <1>5, <1>6, <1>7 DEF PacedInv

LEMMA PacedNext == IInv /\ PacedInv /\ [Next]_vars => PacedInv'
  <1> SUFFICES ASSUME IInv, PacedInv, [Next]_vars PROVE PacedInv'
    OBVIOUS
  <1>1. CASE UNCHANGED vars
    BY <1>1, PacedIdle DEF vars
  <1>2. ASSUME NEW c \in Clients, Logout(c) PROVE PacedInv'
    BY <1>2, PacedIdle DEF Logout, history
  <1>3. ASSUME NEW s \in sessions, Expire(s) PROVE PacedInv'
    BY <1>3, PacedIdle DEF Expire, history
  <1>4. CASE Disable \/ Enable
    BY <1>4, PacedIdle DEF Disable, Enable, history
  <1>5. CASE Next
    BY <1>2, <1>3, <1>4, <1>5, PacedRequest, PacedWrong, PacedRight, PacedDelete, PacedPurge, PacedTicks DEF Next
  <1> QED
    BY <1>1, <1>5

LEMMA Paces == Spec => [](IInv /\ PacedInv)
  <1>1. Init => IInv /\ PacedInv
    BY InitHolds, PacedInit
  <1>2. (IInv /\ PacedInv) /\ [Next]_vars => (IInv /\ PacedInv)'
    BY NextPreserves, PacedNext
  <1> QED
    BY <1>1, <1>2, PTL DEF Spec

\* Whatever expires, is replaced or is purged in between, and however the requests fall,
\* a client's wrong codes of any day, the address's since its last right code and the codes
\* sent in any hour stay below twice their limits (lockOf, issueLoginCode, the purges).
THEOREM GuessesStayPaced == Spec => []GuessesArePaced
  <1>1. IInv /\ PacedInv => GuessesArePaced
    <2> SUFFICES ASSUME IInv, PacedInv PROVE GuessesArePaced
      OBVIOUS
    <2>1. /\ \A c \in Clients : Paced(now, wrongAt[c], failed[c], PerClient, Day)
          /\ Paced(now, missedAt, RowWindow, PerAddress, Day)
          /\ Paced(now, sentAt, SentWindow, MaxSends, Hour)
      BY DEF PacedInv
    <2>2. \A c \in Clients : Total(wrongAt[c]) < 2 * PerClient
      <3> SUFFICES ASSUME NEW c \in Clients PROVE Total(wrongAt[c]) < 2 * PerClient
        OBVIOUS
      <3>1. Paced(now, wrongAt[c], failed[c], PerClient, Day)
        BY <2>1
      <3> QED
        BY <3>1, PacedTotal
    <2>3. Total(missedAt) < 2 * PerAddress
      BY <2>1, PacedTotal
    <2>4. Total(sentAt) < 2 * MaxSends
      BY <2>1, PacedTotal
    <2> QED
      BY <2>2, <2>3, <2>4 DEF GuessesArePaced
  <1> QED
    BY <1>1, Paces, PTL
=============================================================================

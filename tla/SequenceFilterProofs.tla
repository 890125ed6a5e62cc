------------------------ MODULE SequenceFilterProofs ------------------------
EXTENDS SequenceFilter, SequenceTheorems, FunctionTheorems, FiniteSetTheorems, NaturalsInduction, TLAPS

\* The steps of the loop: what has been kept of the first i elements.
IsLoop(f, s, Q) ==
  f = [i \in 0 .. Len(s) |->
         IF i = 0 THEN <<>>
         ELSE IF s[i] \in Q THEN Append(f[i - 1], s[i]) ELSE f[i - 1]]

LEMMA KeepIsLoop ==
  ASSUME NEW s, NEW Q
  PROVE  Keep(s, Q) = (CHOOSE f : IsLoop(f, s, Q))[Len(s)]
  BY DEF Keep, IsLoop
\* A set of numbers that is not empty has a least one.
LEMMA LeastNumber ==
  ASSUME NEW T, T \subseteq Nat, T # {}
  PROVE  \E x \in T : \A y \in T : x <= y
<1> DEFINE R == OpToRel(<, Nat)
<1>1. IsWellFoundedOn(R, Nat)
  BY NatLessThanWellFounded
<1>2. \A x, y \in Nat : y < x => <<y, x>> \in R
  BY DEF OpToRel
<1> HIDE DEF R
<1>3. PICK x \in T : \A y \in T : ~ (<<y, x>> \in R)
  BY <1>1, WFMin
<1>4. ASSUME NEW y \in T PROVE x <= y
  <2>1. ~ (y < x)
    BY <1>2, <1>3
  <2> QED
    BY <2>1
<1> QED
  BY <1>4

(***************************************************************************)
(* The loop runs: there is a function that takes all of its steps.  Take   *)
(* the least number of steps that none takes.                              *)
(***************************************************************************)
TakesSteps(f, m, s, Q) ==
  f = [i \in 0 .. m |->
         IF i = 0 THEN <<>>
         ELSE IF s[i] \in Q THEN Append(f[i - 1], s[i]) ELSE f[i - 1]]

LEMMA OneMoreStep ==
  ASSUME NEW s, NEW Q, NEW m \in Nat \ {0}, NEW f, TakesSteps(f, m - 1, s, Q)
  PROVE  \E g : TakesSteps(g, m, s, Q)
<1> DEFINE g == [i \in 0 .. m |->
                   IF i < m THEN f[i]
                   ELSE IF s[i] \in Q THEN Append(f[i - 1], s[i]) ELSE f[i - 1]]
<1>1. m - 1 \in Nat /\ 0 .. m - 1 = {i \in 0 .. m : i < m}
  OBVIOUS
<1>2. \A i \in 0 .. m : i # 0 => i - 1 \in 0 .. m - 1 /\ g[i - 1] = f[i - 1]
  OBVIOUS
<1>3. ASSUME NEW i \in 0 .. m
      PROVE  g[i] = IF i = 0 THEN <<>>
                    ELSE IF s[i] \in Q THEN Append(g[i - 1], s[i]) ELSE g[i - 1]
  <2>1. CASE i < m
    <3>1. f[i] = IF i = 0 THEN <<>>
                 ELSE IF s[i] \in Q THEN Append(f[i - 1], s[i]) ELSE f[i - 1]
      BY <1>1, <2>1 DEF TakesSteps
    <3>2. g[i] = f[i]
      BY <2>1
    <3> HIDE DEF g
    <3> QED
      BY <1>2, <3>1, <3>2
  <2>2. CASE ~ (i < m)
    <3>1. i # 0 /\ g[i] = IF s[i] \in Q THEN Append(f[i - 1], s[i]) ELSE f[i - 1]
      BY <2>2
    <3> HIDE DEF g
    <3> QED
      BY <1>2, <3>1
  <2> QED
    BY <2>1, <2>2
<1>4. g = [i \in 0 .. m |-> g[i]]
  OBVIOUS
<1> HIDE DEF g
<1>5. TakesSteps(g, m, s, Q)
  BY <1>3, <1>4 DEF TakesSteps
<1> QED
  BY <1>5

LEMMA LoopExists ==
  ASSUME NEW s, NEW Q, Len(s) \in Nat
  PROVE  \E f : IsLoop(f, s, Q)
<1> DEFINE T == {m \in Nat : ~ \E f : TakesSteps(f, m, s, Q)}
<1>1. T = {}
  <2> SUFFICES ASSUME T # {} PROVE FALSE
    OBVIOUS
  <2>1. PICK m \in T : \A n \in T : m <= n
    BY LeastNumber
  <2>2. TakesSteps([i \in 0 .. 0 |-> <<>>], 0, s, Q)
    BY DEF TakesSteps
  <2>3. m \in Nat \ {0}
    BY <2>1, <2>2
  <2>4. m - 1 \in Nat /\ m - 1 \notin T
    BY <2>1, <2>3
  <2>5. \E f : TakesSteps(f, m - 1, s, Q)
    BY <2>4
  <2> QED
    BY <2>1, <2>3, <2>5, OneMoreStep
<1> QED
  BY <1>1 DEF TakesSteps, IsLoop

(***************************************************************************)
(* What the loop keeps of the first i elements: those in Q, each once, in  *)
(* their order.  "at" is where they come from.                             *)
(***************************************************************************)
Picks(at, t, s, i, Q) ==
  /\ at \in [1 .. Len(t) -> 1 .. i]
  /\ \A a, b \in 1 .. Len(t) : a < b => at[a] < at[b]
  /\ \A a \in 1 .. Len(t) : t[a] = s[at[a]] /\ s[at[a]] \in Q
  /\ \A k \in 1 .. i : s[k] \in Q => \E a \in 1 .. Len(t) : at[a] = k

LEMMA OneMorePick ==
  ASSUME NEW S, NEW s \in Seq(S), NEW Q, NEW i \in 1 .. Len(s),
         NEW t \in Seq(S), NEW at, Picks(at, t, s, i - 1, Q),
         NEW u, u = IF s[i] \in Q THEN Append(t, s[i]) ELSE t
  PROVE  u \in Seq(S) /\ \E as : Picks(as, u, s, i, Q)
<1>1. CASE s[i] \notin Q
  <2>1. Picks(at, t, s, i, Q)
    BY <1>1 DEF Picks
  <2> QED
    BY <1>1, <2>1
<1>2. CASE s[i] \in Q
  <2> DEFINE as == [a \in 1 .. Len(t) + 1 |-> IF a <= Len(t) THEN at[a] ELSE i]
  <2>1. /\ u \in Seq(S) /\ Len(u) = Len(t) + 1 /\ Len(t) \in Nat
        /\ \A a \in 1 .. Len(t) : u[a] = t[a]
        /\ u[Len(t) + 1] = s[i]
    BY <1>2, AppendProperties
  <2>2. as \in [1 .. Len(u) -> 1 .. i]
    BY <2>1 DEF Picks
  <2>3. ASSUME NEW a \in 1 .. Len(u), NEW b \in 1 .. Len(u), a < b
        PROVE  as[a] < as[b]
    <3>1. a \in 1 .. Len(t) /\ at[a] \in 1 .. i - 1 /\ as[a] = at[a]
      BY <2>1, <2>3 DEF Picks
    <3>2. CASE b = Len(t) + 1
      BY <2>1, <3>1, <3>2
    <3>3. CASE b # Len(t) + 1
      <4>1. b \in 1 .. Len(t) /\ as[b] = at[b]
        BY <2>1, <3>3
      <4> HIDE DEF as
      <4> QED
        BY <2>3, <3>1, <4>1 DEF Picks
    <3> QED
      BY <3>2, <3>3
  <2>4. \A a \in 1 .. Len(u) : u[a] = s[as[a]] /\ s[as[a]] \in Q
    BY <1>2, <2>1 DEF Picks
  <2>5. \A k \in 1 .. i : s[k] \in Q => \E a \in 1 .. Len(u) : as[a] = k
    <3> SUFFICES ASSUME NEW k \in 1 .. i, s[k] \in Q PROVE \E a \in 1 .. Len(u) : as[a] = k
      OBVIOUS
    <3>1. CASE k = i
      BY <2>1, <3>1
    <3>2. CASE k # i
      <4>1. PICK a \in 1 .. Len(t) : at[a] = k
        BY <3>2 DEF Picks
      <4> QED
        BY <2>1, <4>1
    <3> QED
      BY <3>1, <3>2
  <2> HIDE DEF as
  <2>6. Picks(as, u, s, i, Q)
    BY <2>2, <2>3, <2>4, <2>5 DEF Picks
  <2> QED
    BY <2>1, <2>6
<1> QED
  BY <1>1, <1>2

\* What is kept is picked, in order and without repetition.
LEMMA KeepPicks ==
  ASSUME NEW S, NEW s \in Seq(S), NEW Q
  PROVE  Keep(s, Q) \in Seq(S) /\ \E at : Picks(at, Keep(s, Q), s, Len(s), Q)
<1> DEFINE f == CHOOSE g : IsLoop(g, s, Q)
<1>1. IsLoop(f, s, Q)
  BY LoopExists
<1>2. Keep(s, Q) = f[Len(s)]
  BY KeepIsLoop
<1> HIDE DEF f
<1> DEFINE Good(i) == f[i] \in Seq(S) /\ \E at : Picks(at, f[i], s, i, Q)
           T == {i \in 0 .. Len(s) : ~ Good(i)}
<1>3. T = {}
  <2> SUFFICES ASSUME T # {} PROVE FALSE
    OBVIOUS
  <2>1. PICK m \in T : \A n \in T : m <= n
    <3>1. T \subseteq Nat
      OBVIOUS
    <3> HIDE DEF T
    <3> QED
      BY <3>1, LeastNumber
  <2>2. Good(0)
    <3>1. f[0] = <<>>
      BY <1>1 DEF IsLoop
    <3>2. Picks(<<>>, <<>>, s, 0, Q)
      BY DEF Picks
    <3> QED
      BY <3>1, <3>2
  <2>3. m \in 1 .. Len(s)
    <3>1. m \in 0 .. Len(s) /\ m # 0
      BY <2>1, <2>2
    <3> QED
      BY <3>1
  <2>4. Good(m - 1)
    <3>1. m - 1 \in 0 .. Len(s) /\ ~ (m <= m - 1)
      BY <2>3
    <3> HIDE DEF Good
    <3> QED
      BY <2>1, <3>1
  <2>5. f[m] = IF s[m] \in Q THEN Append(f[m - 1], s[m]) ELSE f[m - 1]
    <3>1. m \in 0 .. Len(s) /\ m # 0
      BY <2>3
    <3> QED
      BY <1>1, <3>1 DEF IsLoop
  <2>6. Good(m)
    BY <2>3, <2>4, <2>5, OneMorePick
  <2> QED
    BY <2>1, <2>6
<1>4. Good(Len(s))
  BY <1>3
<1> QED
  BY <1>2, <1>4

(***************************************************************************)
(* What the proofs about the modules need of it.                           *)
(***************************************************************************)
\* A filtered list holds what was in the list and is wanted, and no element
\* twice unless the list did.
LEMMA KeepProperties ==
  ASSUME NEW S, NEW s \in Seq(S), NEW Q
  PROVE  /\ Keep(s, Q) \in Seq(S)
         /\ \A x : x \in Range(Keep(s, Q)) <=> x \in Range(s) /\ x \in Q
         /\ IsInjective(s) => IsInjective(Keep(s, Q))
<1>1. PICK at : Picks(at, Keep(s, Q), s, Len(s), Q)
  BY KeepPicks
<1>2. Keep(s, Q) \in Seq(S) /\ Len(s) \in Nat /\ Len(Keep(s, Q)) \in Nat
  BY KeepPicks
<1> DEFINE t == Keep(s, Q)
<1>3. DOMAIN t = 1 .. Len(t) /\ DOMAIN s = 1 .. Len(s)
  BY <1>2
<1> HIDE DEF t
<1>4. \A x : x \in Range(t) => x \in Range(s) /\ x \in Q
  BY <1>1, <1>3 DEF Picks, Range, t
<1>5. \A x : x \in Range(s) /\ x \in Q => x \in Range(t)
  BY <1>1, <1>3 DEF Picks, Range, t
<1>6. ASSUME IsInjective(s) PROVE IsInjective(t)
  <2> SUFFICES ASSUME NEW a \in 1 .. Len(t), NEW b \in 1 .. Len(t), t[a] = t[b]
               PROVE  a = b
    BY <1>3 DEF IsInjective
  <2>1. at[a] \in 1 .. Len(s) /\ at[b] \in 1 .. Len(s) /\ s[at[a]] = s[at[b]]
    BY <1>1 DEF Picks, t
  <2>2. at[a] = at[b]
    BY <1>3, <1>6, <2>1 DEF IsInjective
  <2>3. a \in Int /\ b \in Int /\ ~ (at[a] < at[b]) /\ ~ (at[b] < at[a])
    BY <2>1, <2>2
  <2>4. ~ (a < b) /\ ~ (b < a)
    BY <1>1, <2>3 DEF Picks, t
  <2> QED
    BY <2>3, <2>4
<1> QED
  BY <1>2, <1>4, <1>5, <1>6 DEF t

\* A list without repetition is as long as the set of its elements.
LEMMA LengthIsCardinality ==
  ASSUME NEW S, NEW s \in Seq(S), IsInjective(s)
  PROVE  IsFiniteSet(Range(s)) /\ Cardinality(Range(s)) = Len(s)
<1>1. s \in [1 .. Len(s) -> Range(s)] /\ Len(s) \in Nat /\ DOMAIN s = 1 .. Len(s)
  BY DEF Range
<1>2. s \in Bijection(1 .. Len(s), Range(s))
  BY <1>1, Fun_IsBij DEF IsInjective, Range
<1>3. ExistsBijection(1 .. Len(s), Range(s))
  BY <1>2, Fun_ExistsBij
<1> QED
  BY <1>1, <1>3, FS_NatBijection, FS_CountingElements

=============================================================================

-------------------------- MODULE EventBusProofs ---------------------------
(***************************************************************************)
(* Proofs about EventBus: the records of the traces agree with the         *)
(* subscriptions and fit the ring, no floor promises an event that was     *)
(* overwritten, and the bus implements EventStream.                        *)
(***************************************************************************)
EXTENDS EventBus, SequenceFilterProofs

(***************************************************************************)
(* The greatest of some numbers with a bound.                              *)
(***************************************************************************)
LEMMA MaxOf ==
  ASSUME NEW S, S \subseteq Nat, S # {}, NEW k \in Nat, \A x \in S : x <= k
  PROVE  Max(S) \in S /\ \A x \in S : x <= Max(S)
<1> DEFINE T == {m \in Nat : \A x \in S : x <= m}
<1>1. PICK m \in T : \A y \in T : m <= y
  <2>1. T \subseteq Nat /\ k \in T
    OBVIOUS
  <2> QED
    BY <2>1, LeastNumber
<1>2. m \in Nat /\ \A x \in S : x \in Nat /\ x <= m
  BY <1>1
<1>3. m \in S
  <2> SUFFICES ASSUME m \notin S PROVE FALSE
    OBVIOUS
  <2>1. PICK x \in S : TRUE
    OBVIOUS
  <2>2. m - 1 \in Nat /\ \A y \in S : y <= m - 1
    BY <1>2, <2>1
  <2>3. m - 1 \in T
    BY <2>2
  <2> QED
    BY <1>1, <1>2, <2>3
<1>4. \E x \in S : \A y \in S : x >= y
  BY <1>2, <1>3
<1>5. Max(S) \in S /\ \A y \in S : Max(S) >= y
  BY <1>4 DEF Max
<1> QED
  BY <1>2, <1>5

LEMMA MaxOfTwo ==
  ASSUME NEW a \in Nat, NEW b \in Nat
  PROVE  Max({a, b}) = IF a <= b THEN b ELSE a
<1>1. Max({a, b}) \in {a, b} /\ \A x \in {a, b} : x <= Max({a, b})
  BY MaxOf, a + b \in Nat, \A x \in {a, b} : x <= a + b
<1> QED
  BY <1>1

\* What is above everything and one of them is the greatest.
LEMMA MaxIs ==
  ASSUME NEW S, S \subseteq Nat, NEW m \in S, \A x \in S : x <= m
  PROVE  Max(S) = m
<1>0. m \in Nat /\ S # {}
  OBVIOUS
<1>1. Max(S) \in S /\ \A x \in S : x <= Max(S)
  BY <1>0, MaxOf
<1>2. Max(S) \in Nat /\ Max(S) <= m /\ m <= Max(S)
  BY <1>1
<1> QED
  BY <1>0, <1>2

(***************************************************************************)
(* What the operations of the store have to keep.  k is the number of      *)
(* events published.                                                       *)
(***************************************************************************)
Note(k) == [floor : 0 .. k, last : 0 .. k, unknown : BOOLEAN, pins : Nat]
Store(k) ==
  [overwritten : 0 .. k, lru : Seq(Traces), pinned : Nat, unknownFloor : 0 .. k,
   trace : [Traces -> Note(k)]]

PinnedTraces(st) == {t \in Traces : st.trace[t].pins > 0}

PinsFit(st) ==
  /\ st.pinned = Cardinality(PinnedTraces(st))
  /\ PinnedTraces(st) \subseteq Known(st)
  /\ IsInjective(st.lru)

Gone(st, t) == {n \in 1 .. st.overwritten : log[n] = t}

FloorFits(st, t) ==
  IF t \in Known(st)
  THEN /\ \A n \in Gone(st, t) : n <= st.trace[t].floor
       /\ ~st.trace[t].unknown => st.trace[t].floor = Max({0} \cup Gone(st, t))
  ELSE \A n \in Gone(st, t) : n <= st.unknownFloor

Floors(st) == \A t \in Traces : FloorFits(st, t)

Sane(st, k) == st \in Store(k) /\ PinsFit(st) /\ Floors(st)

SamePins(st, st1) ==
  /\ st1.pinned = st.pinned
  /\ \A t \in Traces : st1.trace[t].pins = st.trace[t].pins

LEMMA StoreFields ==
  ASSUME NEW k, NEW st \in Store(k)
  PROVE  /\ st.overwritten \in 0 .. k /\ st.lru \in Seq(Traces) /\ st.pinned \in Nat
         /\ st.unknownFloor \in 0 .. k /\ st.trace \in [Traces -> Note(k)]
  BY DEF Store

LEMMA SamePinsFit ==
  ASSUME NEW k \in Nat, NEW st \in Store(k), NEW st1 \in Store(k + 1), PinsFit(st), SamePins(st, st1),
         Known(st) \subseteq Known(st1), IsInjective(st1.lru)
  PROVE  PinsFit(st1)
<1>1. PinnedTraces(st1) = PinnedTraces(st)
  BY DEF PinnedTraces, SamePins
<1> QED
  BY <1>1 DEF PinsFit, SamePins

\* An event is overwritten: its trace's floor is raised to it.
LEMMA EvictKeeps ==
  ASSUME log \in Seq(Traces), NEW st, Sane(st, Len(log))
  PROVE  /\ Sane(Evict(st), Len(log))
         /\ SamePins(st, Evict(st))
         /\ Evict(st).lru = st.lru
<1> DEFINE k == Len(log)
           n == st.overwritten + 1
           t == log[n]
           e == Evict(st)
<1>0. k \in Nat /\ st \in Store(k) /\ st.overwritten \in 0 .. k
  BY DEF Sane, Store
<1>1. CASE Len(log) - st.overwritten < StoreCapacity
  BY <1>1 DEF Evict, SamePins
<1>2. CASE ~(Len(log) - st.overwritten < StoreCapacity)
  <2>0. n = st.overwritten + 1 /\ t = log[n] /\ n - 1 \in 0 .. k
    BY <1>0
  <2>1. n \in 1 .. k /\ t \in Traces
    BY <1>0, <1>2, BusAssumption
  <2>2. /\ st.trace \in [Traces -> Note(k)] /\ st.unknownFloor \in 0 .. k
        /\ st.trace[t] \in Note(k) /\ st.trace[t].floor \in 0 .. k
    BY <1>0, <2>1 DEF Store, Note
  <2>3. \A m \in 0 .. k : Max({m, n}) \in 0 .. k /\ m <= Max({m, n}) /\ n <= Max({m, n})
                          /\ (m < n => Max({m, n}) = n)
    BY <1>0, <2>1, MaxOfTwo
  <2>4. Gone(st, t) \subseteq 0 .. st.overwritten /\ \A u \in Traces : Gone(st, u) \subseteq Nat
    BY <1>0 DEF Gone
  <2>5. CASE t \in Known(st)
    <3> DEFINE f == Max({st.trace[t].floor, n})
    <3> DEFINE r == [st.trace[t] EXCEPT !.floor = f]
    <3>1. e = [st EXCEPT !.overwritten = n, !.trace = [st.trace EXCEPT ![t] = r]]
      BY <1>0, <1>2, <2>5 DEF Evict, Store
    <3>2. f \in 0 .. k /\ st.trace[t].floor <= f /\ n <= f /\ (st.trace[t].floor < n => f = n)
      BY <2>2, <2>3
    <3> HIDE DEF e, f, n, t, k
    <3>0. /\ r \in Note(k) /\ r.floor = f /\ r.unknown = st.trace[t].unknown
          /\ r.pins = st.trace[t].pins
      BY <2>2, <3>2 DEF Note
    <3> HIDE DEF r
    <3>3. /\ e \in Store(k) /\ e.overwritten = n /\ e.lru = st.lru /\ e.unknownFloor = st.unknownFloor
          /\ e.pinned = st.pinned /\ \A u \in Traces \ {t} : e.trace[u] = st.trace[u]
          /\ e.trace[t] = r
      <4> DEFINE g == [st.trace EXCEPT ![t] = r]
      <4>1. g \in [Traces -> Note(k)] /\ g[t] = r /\ \A u \in Traces \ {t} : g[u] = st.trace[u]
        BY <2>1, <2>2, <3>0
      <4>2. n \in 0 .. k
        BY <1>0, <2>0, <2>1
      <4> HIDE DEF g
      <4>3. e \in Store(k) /\ e.overwritten = n /\ e.lru = st.lru /\ e.pinned = st.pinned
            /\ e.unknownFloor = st.unknownFloor /\ e.trace = g
        <5>1. st.lru \in Seq(Traces) /\ st.pinned \in Nat /\ st.unknownFloor \in 0 .. k
          BY <1>0, StoreFields
        <5>2. e = [overwritten |-> n, lru |-> st.lru, pinned |-> st.pinned,
                   unknownFloor |-> st.unknownFloor, trace |-> g]
          BY <1>0, <3>1 DEF Store, g
        <5> QED
          BY <4>1, <4>2, <5>1, <5>2 DEF Store
      <4> QED
        BY <4>1, <4>3
    <3>4. e.trace[t].floor = f /\ e.trace[t].unknown = st.trace[t].unknown
          /\ e.trace[t].pins = st.trace[t].pins
      BY <3>0, <3>3
    <3>5. SamePins(st, e)
      BY <3>3, <3>4 DEF SamePins
    <3>6. PinsFit(e)
      <4>1. PinnedTraces(e) = PinnedTraces(st)
        BY <3>5 DEF PinnedTraces, SamePins
      <4> QED
        BY <3>3, <4>1 DEF PinsFit, Sane, Known
    <3>7. Floors(e)
      <4> SUFFICES ASSUME NEW u \in Traces PROVE FloorFits(e, u)
        BY DEF Floors
      <4>1. FloorFits(st, u)
        BY DEF Sane, Floors
      <4>2. CASE u # t
        <5>1. Gone(e, u) = Gone(st, u)
          BY <1>0, <2>0, <2>1, <3>3, <4>2 DEF Gone
        <5> QED
          BY <3>3, <4>1, <4>2, <5>1 DEF FloorFits, Known
      <4>3. CASE u = t
        <5>1. Gone(e, t) = Gone(st, t) \cup {n}
          BY <1>0, <2>0, <2>1, <3>3 DEF Gone
        <5>2. \A m \in Gone(e, t) : m <= e.trace[t].floor
          BY <1>0, <2>2, <2>4, <2>5, <3>2, <3>4, <4>1, <4>3, <5>1 DEF FloorFits
        <5>3. ASSUME ~e.trace[t].unknown PROVE e.trace[t].floor = Max({0} \cup Gone(e, t))
          <6>1. st.trace[t].floor = Max({0} \cup Gone(st, t))
            BY <2>5, <3>4, <4>1, <4>3, <5>3 DEF FloorFits
          <6>2. Max({0} \cup Gone(st, t)) \in {0} \cup Gone(st, t)
            <7>1. {0} \cup Gone(st, t) \subseteq Nat /\ st.overwritten \in Nat
              BY <1>0, <2>1, <2>4 DEF k
            <7>2. \A x \in {0} \cup Gone(st, t) : x <= st.overwritten
              BY <1>0, <2>4 DEF k
            <7> QED
              BY <7>1, <7>2, MaxOf
          <6>3. st.trace[t].floor < n
            BY <1>0, <2>0, <2>4, <6>1, <6>2
          <6>4. e.trace[t].floor = n
            BY <3>2, <3>4, <6>3
          <6>5. Max({0} \cup Gone(e, t)) = n
            <7>1. {0} \cup Gone(e, t) \subseteq Nat /\ n \in {0} \cup Gone(e, t)
              BY <2>1, <2>4, <5>1 DEF k
            <7>2. \A x \in {0} \cup Gone(e, t) : x <= n
              BY <1>0, <2>0, <2>1, <2>4, <5>1
            <7> QED
              BY <7>1, <7>2, MaxIs
          <6> QED
            BY <6>4, <6>5
        <5> QED
          BY <2>5, <3>3, <4>3, <5>2, <5>3 DEF FloorFits, Known
      <4> QED
        BY <4>2, <4>3
    <3> QED
      BY <3>3, <3>5, <3>6, <3>7 DEF Sane, e, k
  <2>6. CASE t \notin Known(st)
    <3> DEFINE f == Max({st.unknownFloor, n})
    <3>1. e = [st EXCEPT !.overwritten = n, !.unknownFloor = f]
      BY <1>0, <1>2, <2>6 DEF Evict, Store
    <3>2. f \in 0 .. k /\ st.unknownFloor <= f /\ n <= f
      BY <2>2, <2>3
    <3> HIDE DEF e, f, n, t, k
    <3>3. /\ e \in Store(k) /\ e.overwritten = n /\ e.lru = st.lru /\ e.unknownFloor = f
          /\ e.pinned = st.pinned /\ e.trace = st.trace
      <4>0. n \in 0 .. k
        BY <1>0, <2>1
      <4>1. /\ st.lru \in Seq(Traces) /\ st.pinned \in Nat
            /\ st.trace \in [Traces -> Note(k)]
        BY <1>0, StoreFields
      <4>2. e = [overwritten |-> n, lru |-> st.lru, pinned |-> st.pinned,
                 unknownFloor |-> f, trace |-> st.trace]
        BY <1>0, <3>1 DEF Store
      <4> QED
        BY <3>2, <4>0, <4>1, <4>2 DEF Store
    <3>4. SamePins(st, e) /\ PinsFit(e)
      BY <3>3 DEF SamePins, PinsFit, PinnedTraces, Sane, Known
    <3>5. Floors(e)
      <4> SUFFICES ASSUME NEW u \in Traces PROVE FloorFits(e, u)
        BY DEF Floors
      <4>1. FloorFits(st, u) /\ Known(e) = Known(st)
        BY <3>3 DEF Sane, Floors, Known
      <4>2. CASE u # t
        <5>1. Gone(e, u) = Gone(st, u) /\ Gone(st, u) \subseteq Nat
          BY <1>0, <2>0, <2>1, <2>4, <3>3, <4>2 DEF Gone
        <5> QED
          BY <2>2, <3>2, <3>3, <4>1, <5>1 DEF FloorFits
      <4>3. CASE u = t
        <5>1. Gone(e, t) = Gone(st, t) \cup {n}
          BY <1>0, <2>0, <2>1, <3>3 DEF Gone
        <5> QED
          BY <1>0, <2>2, <2>4, <2>6, <3>2, <3>3, <4>1, <4>3, <5>1 DEF FloorFits
      <4> QED
        BY <4>2, <4>3
    <3> QED
      BY <3>3, <3>4, <3>5 DEF Sane, e, k
  <2> QED
    BY <2>5, <2>6
<1> QED
  BY <1>1, <1>2

LEMMA AppendFacts ==
  ASSUME NEW T, NEW q \in Seq(T), NEW t \in T
  PROVE  /\ Append(q, t) \in Seq(T)
         /\ Range(Append(q, t)) = Range(q) \cup {t}
         /\ IsInjective(q) /\ t \notin Range(q) => IsInjective(Append(q, t))
<1> DEFINE a == Append(q, t)
<1>1. /\ a \in Seq(T) /\ Len(q) \in Nat /\ DOMAIN q = 1 .. Len(q)
      /\ DOMAIN a = 1 .. Len(q) + 1 /\ a[Len(q) + 1] = t
      /\ \A i \in 1 .. Len(q) : a[i] = q[i]
  OBVIOUS
<1> HIDE DEF a
<1>2. Range(a) = Range(q) \cup {t}
  <2>1. \A i \in 1 .. Len(q) + 1 : i \in 1 .. Len(q) \/ i = Len(q) + 1
    BY <1>1
  <2>2. 1 .. Len(q) \subseteq 1 .. Len(q) + 1 /\ Len(q) + 1 \in 1 .. Len(q) + 1
    BY <1>1
  <2> QED
    BY <1>1, <2>1, <2>2 DEF Range
<1>3. ASSUME IsInjective(q), t \notin Range(q) PROVE IsInjective(a)
  <2> SUFFICES ASSUME NEW i \in 1 .. Len(q) + 1, NEW j \in 1 .. Len(q) + 1, a[i] = a[j]
               PROVE  i = j
    BY <1>1 DEF IsInjective
  <2>1. (i \in 1 .. Len(q) \/ i = Len(q) + 1) /\ (j \in 1 .. Len(q) \/ j = Len(q) + 1)
    BY <1>1
  <2>2. \A m \in 1 .. Len(q) : a[m] # t
    BY <1>1, <1>3 DEF Range
  <2> QED
    BY <1>1, <1>3, <2>1, <2>2 DEF IsInjective
<1> QED
  BY <1>1, <1>2, <1>3 DEF a

\* The unpinned traces longest unused that Trim drops, and what it leaves.
LEMMA ExcessFacts ==
  ASSUME NEW k, NEW st \in Store(k), PinsFit(st)
  PROVE  /\ Excess(st) \subseteq Known(st) \ PinnedTraces(st)
         /\ Len(Keep(st.lru, Traces \ Excess(st))) <= StoreCapacity + st.pinned
<1> DEFINE free == {t \in Traces : st.trace[t].pins = 0}
           u == Keep(st.lru, free)
           over == Len(st.lru) - (StoreCapacity + st.pinned)
           out == {u[i] : i \in {m \in DOMAIN u : m <= over}}
           left == Keep(st.lru, Traces \ out)
<1>1. Excess(st) = out
  BY DEF Excess
<1>2. /\ st.lru \in Seq(Traces) /\ st.pinned \in Nat /\ IsInjective(st.lru)
      /\ st.pinned = Cardinality(PinnedTraces(st)) /\ PinnedTraces(st) \subseteq Known(st)
  BY StoreFields DEF PinsFit
<1>3. free = Traces \ PinnedTraces(st)
  <2>1. \A t \in Traces : st.trace[t].pins \in Nat
    BY StoreFields DEF Note
  <2> QED
    BY <2>1 DEF PinnedTraces
<1> HIDE DEF free
<1>4. /\ u \in Seq(Traces) /\ IsInjective(u)
      /\ \A x : x \in Range(u) <=> x \in Range(st.lru) /\ x \in free
  BY <1>2, KeepProperties
<1> HIDE DEF u
<1>5. Known(st) \subseteq Traces /\ Len(st.lru) \in Nat /\ DOMAIN st.lru = 1 .. Len(st.lru)
  BY <1>2 DEF Known, Range
<1>6. Range(u) = Known(st) \ PinnedTraces(st)
  BY <1>3, <1>4, <1>5 DEF Known
<1>7. /\ IsFiniteSet(Known(st)) /\ Cardinality(Known(st)) = Len(st.lru)
      /\ IsFiniteSet(Range(u)) /\ Cardinality(Range(u)) = Len(u)
  BY <1>2, <1>4, LengthIsCardinality DEF Known
<1>8. Len(u) = Len(st.lru) - st.pinned
  <2>1. Known(st) \cap PinnedTraces(st) = PinnedTraces(st)
    BY <1>2
  <2>2. Cardinality(Known(st) \ PinnedTraces(st))
          = Cardinality(Known(st)) - Cardinality(Known(st) \cap PinnedTraces(st))
    BY <1>7, FS_Difference
  <2> QED
    BY <1>2, <1>6, <1>7, <2>1, <2>2
<1>9. Len(u) \in Nat /\ DOMAIN u = 1 .. Len(u)
  BY <1>4
<1>10. out \subseteq Known(st) \ PinnedTraces(st)
  <2>1. out \subseteq Range(u)
    BY DEF Range
  <2> QED
    BY <1>6, <2>1
<1>11. over \in Int /\ over <= Len(u) /\ StoreCapacity \in Nat
  BY <1>2, <1>5, <1>8, <1>9, BusAssumption
<1> HIDE DEF over
<1>12. IsFiniteSet(out) /\ (over > 0 => Cardinality(out) = over)
  <2>1. IsFiniteSet(out)
    BY <1>7, <1>10, FS_Difference, FS_Subset
  <2>2. ASSUME over > 0 PROVE Cardinality(out) = over
    <3> DEFINE f == [i \in 1 .. over |-> u[i]]
    <3>1. 1 .. over = {m \in DOMAIN u : m <= over}
      BY <1>9, <1>11, <2>2
    <3>2. f \in Surjection(1 .. over, out)
      BY <3>1, Fun_IsSurj
    <3>3. \A i, j \in 1 .. over : f[i] = f[j] => i = j
      BY <1>4, <3>1 DEF IsInjective
    <3>4. f \in Injection(1 .. over, out)
      BY <3>2, <3>3, Fun_IsInj, Fun_SurjectionProperties
    <3>5. IsFiniteSet(1 .. over) /\ Cardinality(1 .. over) = over
      BY <1>11, <2>2, FS_Interval
    <3> HIDE DEF f, out
    <3> QED
      BY <3>2, <3>4, <3>5, FS_Surjection
  <2> QED
    BY <2>1, <2>2
<1> HIDE DEF out
<1>13. /\ left \in Seq(Traces) /\ IsInjective(left)
       /\ \A x : x \in Range(left) <=> x \in Range(st.lru) /\ x \in Traces \ out
  BY <1>2, KeepProperties
<1> HIDE DEF left
<1>14. Range(left) = Known(st) \ out /\ Cardinality(Range(left)) = Len(left)
  BY <1>5, <1>13, LengthIsCardinality DEF Known
<1>15. Known(st) \cap out = out
  BY <1>10
<1>16. /\ Cardinality(Known(st) \ out) = Cardinality(Known(st)) - Cardinality(out)
       /\ Cardinality(out) \in Nat
  <2>1. Cardinality(Known(st) \ out)
          = Cardinality(Known(st)) - Cardinality(Known(st) \cap out)
    BY <1>7, FS_Difference
  <2>2. Cardinality(out) \in Nat
    BY <1>12, FS_CardinalityType
  <2> QED
    BY <1>15, <2>1, <2>2
<1>17. Len(left) = Len(st.lru) - Cardinality(out)
  BY <1>7, <1>14, <1>16
<1>18. Len(left) <= StoreCapacity + st.pinned
  <2>1. over = Len(st.lru) - (StoreCapacity + st.pinned)
    BY DEF over
  <2>2. over > 0 => Cardinality(out) = over
    BY <1>12
  <2>3. Cardinality(out) \in Nat /\ Len(st.lru) \in Nat /\ st.pinned \in Nat
    BY <1>2, <1>5, <1>16
  <2> QED
    BY <1>11, <1>17, <2>1, <2>2, <2>3
<1> QED
  BY <1>1, <1>10, <1>18 DEF left

\* What Trim forgets of a trace goes into the floor of the unknown ones.
LEMMA TrimKeeps ==
  ASSUME NEW k \in Nat, NEW st, Sane(st, k)
  PROVE  /\ Sane(Trim(st), k) /\ SamePins(st, Trim(st))
         /\ Len(Trim(st).lru) <= StoreCapacity + Trim(st).pinned
         /\ Trim(st).overwritten = st.overwritten
         /\ PinnedTraces(st) \subseteq Known(Trim(st))
<1> DEFINE out == Excess(st)
           q == Keep(st.lru, Traces \ out)
           M == {st.unknownFloor} \cup {st.trace[t].floor : t \in out}
                                  \cup {st.trace[t].last : t \in out}
           u == Max(M)
           g == [t \in Traces |-> IF t \in out THEN Forgotten ELSE st.trace[t]]
           e == Trim(st)
<1>1. st \in Store(k) /\ PinsFit(st) /\ Floors(st)
  BY DEF Sane
<1>2. /\ st.overwritten \in 0 .. k /\ st.lru \in Seq(Traces) /\ st.pinned \in Nat
      /\ st.unknownFloor \in 0 .. k /\ st.trace \in [Traces -> Note(k)]
  BY <1>1, StoreFields
<1>3. e = [overwritten |-> st.overwritten, lru |-> q, pinned |-> st.pinned,
           unknownFloor |-> u, trace |-> g]
  <2>1. e = [st EXCEPT !.lru = q, !.unknownFloor = u, !.trace = g]
    BY Zenon DEF Trim
  <2> HIDE DEF e, q, u, g
  <2> QED
    BY <1>1, <2>1 DEF Store
<1>4. /\ out \subseteq Known(st) \ PinnedTraces(st)
      /\ Len(q) <= StoreCapacity + st.pinned
  BY <1>1, ExcessFacts
<1> HIDE DEF e, out
<1>5. Known(st) \subseteq Traces
  BY <1>2 DEF Known, Range
<1>6. /\ q \in Seq(Traces) /\ IsInjective(q)
      /\ \A x : x \in Range(q) <=> x \in Range(st.lru) /\ x \in Traces \ out
  BY <1>1, <1>2, KeepProperties DEF PinsFit
<1> HIDE DEF q
<1>7. /\ u \in 0 .. k /\ st.unknownFloor <= u
      /\ \A t \in out : st.trace[t].floor <= u
  <2>1. \A t \in out : st.trace[t] \in Note(k)
    BY <1>2, <1>4, <1>5
  <2>2. \A t \in out : st.trace[t].floor \in 0 .. k /\ st.trace[t].last \in 0 .. k
    BY <2>1 DEF Note
  <2>3. M \subseteq 0 .. k /\ M # {}
    BY <1>2, <2>2
  <2>4. \A x \in M : x \in Nat /\ x <= k
    BY <2>3
  <2>5. st.unknownFloor \in M /\ \A t \in out : st.trace[t].floor \in M
    OBVIOUS
  <2> HIDE DEF M
  <2>6. Max(M) \in M /\ \A x \in M : x <= Max(M)
    BY <2>3, <2>4, MaxOf
  <2> QED
    BY <2>3, <2>5, <2>6
<1> HIDE DEF u
<1>8. /\ g \in [Traces -> Note(k)]
      /\ \A t \in Traces \ out : g[t] = st.trace[t]
      /\ \A t \in Traces : g[t].pins = st.trace[t].pins
  <2>1. Forgotten \in Note(k) /\ Forgotten.pins = 0
    BY DEF Forgotten, Note
  <2>2. \A t \in out : t \in Traces /\ t \notin PinnedTraces(st)
    BY <1>4, <1>5
  <2>3. \A t \in Traces : st.trace[t].pins \in Nat
    BY <1>2 DEF Note
  <2>4. \A t \in out : st.trace[t].pins = 0
    BY <2>2, <2>3 DEF PinnedTraces
  <2> QED
    BY <1>2, <2>1, <2>2, <2>4
<1> HIDE DEF g
<1>9. /\ e \in Store(k) /\ e.overwritten = st.overwritten /\ e.lru = q
      /\ e.pinned = st.pinned /\ e.unknownFloor = u /\ e.trace = g
  BY <1>2, <1>3, <1>6, <1>7, <1>8 DEF Store
<1>10. SamePins(st, e)
  BY <1>8, <1>9 DEF SamePins
<1>11. Known(e) = Known(st) \ out
  BY <1>5, <1>6, <1>9 DEF Known
<1>12. PinsFit(e) /\ PinnedTraces(st) \subseteq Known(e)
  <2>1. PinnedTraces(e) = PinnedTraces(st)
    BY <1>10 DEF PinnedTraces, SamePins
  <2> QED
    BY <1>1, <1>4, <1>6, <1>9, <1>11, <2>1 DEF PinsFit
<1>13. Floors(e)
  <2> SUFFICES ASSUME NEW t \in Traces PROVE FloorFits(e, t)
    BY DEF Floors
  <2>1. FloorFits(st, t) /\ Gone(e, t) = Gone(st, t) /\ Gone(st, t) \subseteq Nat
    BY <1>1, <1>9 DEF Floors, Gone
  <2>2. st.trace[t].floor \in Nat /\ st.unknownFloor \in Nat /\ u \in Nat
    BY <1>2, <1>7 DEF Note
  <2>3. CASE t \in out
    <3>1. \A n \in Gone(st, t) : n <= st.trace[t].floor
      BY <1>4, <2>1, <2>3 DEF FloorFits
    <3>2. \A n \in Gone(st, t) : n <= u
      BY <1>7, <2>1, <2>2, <2>3, <3>1
    <3> QED
      BY <1>9, <1>11, <2>1, <2>3, <3>2 DEF FloorFits
  <2>4. CASE t \notin out
    <3>1. (t \in Known(e) <=> t \in Known(st)) /\ e.trace[t] = st.trace[t]
      BY <1>8, <1>9, <1>11, <2>4
    <3>2. CASE t \in Known(st)
      BY <2>1, <3>1, <3>2 DEF FloorFits
    <3>3. CASE t \notin Known(st)
      <4>1. \A n \in Gone(st, t) : n <= st.unknownFloor
        BY <2>1, <3>3 DEF FloorFits
      <4>2. \A n \in Gone(st, t) : n <= u
        BY <1>7, <2>1, <2>2, <4>1
      <4> QED
        BY <1>9, <2>1, <3>1, <3>3, <4>2 DEF FloorFits
    <3> QED
      BY <3>2, <3>3
  <2> QED
    BY <2>3, <2>4
<1> QED
  BY <1>4, <1>9, <1>10, <1>12, <1>13 DEF Sane, e

\* A trace that gets a record starts from the floor of the unknown ones,
\* unless none of its events can have been overwritten.
LEMMA TrackKeeps ==
  ASSUME NEW k \in Nat, NEW st, Sane(st, k), NEW t \in Traces, NEW fresh \in BOOLEAN,
         fresh => Gone(st, t) = {}
  PROVE  /\ Sane(Track(st, t, fresh), k) /\ SamePins(st, Track(st, t, fresh))
         /\ t \in Known(Track(st, t, fresh))
         /\ Track(st, t, fresh).overwritten = st.overwritten
<1>1. /\ st \in Store(k) /\ PinsFit(st) /\ Floors(st)
      /\ st.overwritten \in 0 .. k /\ st.lru \in Seq(Traces) /\ st.pinned \in Nat
      /\ st.unknownFloor \in 0 .. k /\ st.trace \in [Traces -> Note(k)]
  BY StoreFields DEF Sane
<1>2. CASE t \in Known(st)
  BY <1>1, <1>2 DEF Track, SamePins
<1>3. CASE t \notin Known(st)
  <2> DEFINE f == IF fresh THEN 0 ELSE st.unknownFloor
             d == ~fresh /\ st.unknownFloor > 0
             r == [Forgotten EXCEPT !.floor = f, !.unknown = d]
             q == Append(st.lru, t)
             g == [st.trace EXCEPT ![t] = r]
             e == Track(st, t, fresh)
  <2>1. e = [overwritten |-> st.overwritten, lru |-> q, pinned |-> st.pinned,
             unknownFloor |-> st.unknownFloor, trace |-> g]
    BY <1>1, <1>3 DEF Track, Store
  <2>2. f \in 0 .. k /\ d \in BOOLEAN
    BY <1>1
  <2>3. Forgotten \in Note(k) /\ Forgotten.pins = 0
    BY DEF Forgotten, Note
  <2> HIDE DEF e
  <2>4. r \in Note(k) /\ r.floor = f /\ (r.unknown <=> d) /\ r.pins = 0
    <3> HIDE DEF f, d
    <3> QED
      BY <2>2, <2>3 DEF Note
  <2> HIDE DEF r
  <2>5. q \in Seq(Traces) /\ Range(q) = Known(st) \cup {t} /\ IsInjective(q)
    BY <1>1, <1>3, AppendFacts DEF Known, PinsFit
  <2>6. g \in [Traces -> Note(k)] /\ g[t] = r /\ \A u \in Traces \ {t} : g[u] = st.trace[u]
    BY <1>1, <2>4
  <2> HIDE DEF q, g
  <2>7. /\ e \in Store(k) /\ e.overwritten = st.overwritten /\ e.lru = q
        /\ e.pinned = st.pinned /\ e.unknownFloor = st.unknownFloor /\ e.trace = g
    BY <1>1, <2>1, <2>5, <2>6 DEF Store
  <2>8. st.trace[t].pins = 0
    <3>1. st.trace[t].pins \in Nat
      BY <1>1 DEF Note
    <3> QED
      BY <1>1, <1>3, <3>1 DEF PinsFit, PinnedTraces
  <2>9. SamePins(st, e)
    BY <2>4, <2>6, <2>7, <2>8 DEF SamePins
  <2>10. Known(e) = Known(st) \cup {t}
    BY <2>5, <2>7 DEF Known
  <2>11. PinsFit(e)
    <3>1. PinnedTraces(e) = PinnedTraces(st)
      BY <2>9 DEF PinnedTraces, SamePins
    <3> QED
      BY <1>1, <2>5, <2>7, <2>10, <3>1 DEF PinsFit
  <2>12. Floors(e)
    <3> SUFFICES ASSUME NEW u \in Traces PROVE FloorFits(e, u)
      BY DEF Floors
    <3>1. FloorFits(st, u) /\ Gone(e, u) = Gone(st, u) /\ Gone(st, u) \subseteq Nat
      BY <1>1, <2>7 DEF Floors, Gone
    <3>2. CASE u # t
      BY <2>6, <2>7, <2>10, <3>1, <3>2 DEF FloorFits
    <3>3. CASE u = t
      <4>1. \A n \in Gone(st, t) : n <= st.unknownFloor /\ n >= 1
        BY <1>3, <3>1, <3>3 DEF FloorFits, Gone
      <4>2. \A n \in Gone(e, t) : n <= f
        BY <3>1, <3>3, <4>1
      <4>3. ASSUME ~d PROVE f = Max({0} \cup Gone(e, t))
        <5>1. Gone(st, t) = {}
          BY <1>1, <4>1, <4>3, <3>1, <3>3
        <5>2. f = 0 /\ {0} \cup Gone(e, t) = {0}
          BY <1>1, <3>1, <3>3, <4>3, <5>1
        <5>3. Max({0}) = 0
          BY MaxIs
        <5> QED
          BY <5>2, <5>3
      <4> HIDE DEF f, d
      <4> QED
        BY <2>4, <2>6, <2>7, <2>10, <3>3, <4>2, <4>3 DEF FloorFits
    <3> QED
      BY <3>2, <3>3
  <2> QED
    BY <2>7, <2>9, <2>10, <2>11, <2>12 DEF Sane, e
<1> QED
  BY <1>2, <1>3

\* The trace of the appended event moves to the end; the first event of a
\* trace settles a floor that was not known.
LEMMA TouchKeeps ==
  ASSUME NEW k \in Nat, NEW st, Sane(st, k), NEW t \in Known(st), NEW begins \in BOOLEAN,
         begins => Gone(st, t) = {}
  PROVE  /\ Sane(Touch(st, k + 1, t, begins), k + 1)
         /\ SamePins(st, Touch(st, k + 1, t, begins))
         /\ Touch(st, k + 1, t, begins).overwritten = st.overwritten
<1> DEFINE known == st.trace[t].unknown /\ begins
           n == k + 1
           kept == Keep(st.lru, Traces \ {t})
           q == Append(kept, t)
           f == IF known THEN 0 ELSE st.trace[t].floor
           d == st.trace[t].unknown /\ ~begins
           r == [st.trace[t] EXCEPT !.floor = f, !.unknown = d, !.last = n]
           g == [st.trace EXCEPT ![t] = r]
           e == Touch(st, k + 1, t, begins)
<1>1. /\ st \in Store(k) /\ PinsFit(st) /\ Floors(st)
      /\ st.overwritten \in 0 .. k /\ st.lru \in Seq(Traces) /\ st.pinned \in Nat
      /\ st.unknownFloor \in 0 .. k /\ st.trace \in [Traces -> Note(k)]
  BY StoreFields DEF Sane
<1>2. Known(st) \subseteq Traces /\ t \in Traces /\ st.trace[t] \in Note(k)
  BY <1>1 DEF Known, Range
<1>3. e = [overwritten |-> st.overwritten, lru |-> q, pinned |-> st.pinned,
           unknownFloor |-> st.unknownFloor, trace |-> g]
  <2>1. e = [st EXCEPT !.lru = q, !.trace = g]
    <3>1. e = [st EXCEPT !.lru = q, !.trace[t] = r]
      BY Zenon DEF Touch
    <3> HIDE DEF e, q, r
    <3> QED
      BY <1>1, <3>1 DEF Store
  <2> HIDE DEF e, q, g
  <2> QED
    BY <1>1, <2>1 DEF Store
<1> HIDE DEF e
<1>4. /\ f \in 0 .. k /\ d \in BOOLEAN /\ n \in 0 .. k + 1 /\ 0 .. k \subseteq 0 .. k + 1
  BY <1>2 DEF Note
<1>5. /\ r \in Note(k + 1) /\ r.floor = f /\ (r.unknown <=> d) /\ r.pins = st.trace[t].pins
  <2>1. /\ st.trace[t].floor \in 0 .. k + 1 /\ st.trace[t].last \in 0 .. k + 1
        /\ st.trace[t].unknown \in BOOLEAN /\ st.trace[t].pins \in Nat
    BY <1>2, <1>4 DEF Note
  <2>2. st.trace[t] \in Note(k + 1)
    BY <1>2, <1>4 DEF Note
  <2>3. f \in 0 .. k + 1
    BY <1>4
  <2> HIDE DEF f, d, n
  <2> QED
    BY <1>4, <2>2, <2>3 DEF Note
<1> HIDE DEF r, n
<1>6. Note(k) \subseteq Note(k + 1)
  BY <1>4 DEF Note
<1>7. /\ g \in [Traces -> Note(k + 1)] /\ g[t] = r
      /\ \A u \in Traces \ {t} : g[u] = st.trace[u]
  BY <1>1, <1>2, <1>5, <1>6
<1>8. /\ kept \in Seq(Traces) /\ IsInjective(kept)
      /\ \A x : x \in Range(kept) <=> x \in Range(st.lru) /\ x \in Traces \ {t}
  BY <1>1, KeepProperties DEF PinsFit
<1> HIDE DEF kept
<1>9. t \notin Range(kept) /\ Range(kept) = Known(st) \ {t}
  BY <1>2, <1>8 DEF Known
<1>10. q \in Seq(Traces) /\ IsInjective(q) /\ Range(q) = Known(st)
  <2>1. q \in Seq(Traces) /\ Range(q) = Range(kept) \cup {t} /\ IsInjective(q)
    BY <1>2, <1>8, <1>9, AppendFacts
  <2> QED
    BY <1>2, <1>9, <2>1
<1> HIDE DEF q, g
<1>11. /\ e \in Store(k + 1) /\ e.overwritten = st.overwritten /\ e.lru = q
       /\ e.pinned = st.pinned /\ e.unknownFloor = st.unknownFloor /\ e.trace = g
  <2>1. st.overwritten \in 0 .. k + 1 /\ st.unknownFloor \in 0 .. k + 1
    BY <1>1, <1>4
  <2> QED
    BY <1>1, <1>3, <1>7, <1>10, <2>1 DEF Store
<1>12. SamePins(st, e)
  BY <1>5, <1>7, <1>11 DEF SamePins
<1>13. Known(e) = Known(st)
  BY <1>10, <1>11 DEF Known
<1>14. PinsFit(e)
  <2>1. PinnedTraces(e) = PinnedTraces(st)
    BY <1>12 DEF PinnedTraces, SamePins
  <2> QED
    BY <1>1, <1>10, <1>11, <1>13, <2>1 DEF PinsFit
<1>15. Floors(e)
  <2> SUFFICES ASSUME NEW u \in Traces PROVE FloorFits(e, u)
    BY DEF Floors
  <2>1. FloorFits(st, u) /\ Gone(e, u) = Gone(st, u)
    BY <1>1, <1>11 DEF Floors, Gone
  <2>2. CASE u # t
    BY <1>7, <1>11, <1>13, <2>1, <2>2 DEF FloorFits
  <2>3. CASE u = t
    <3>1. e.trace[t].floor = f /\ (e.trace[t].unknown <=> d) /\ t \in Known(e)
      BY <1>5, <1>7, <1>11, <1>13
    <3>2. CASE known
      <4>1. Gone(e, t) = {} /\ f = 0 /\ {0} \cup Gone(e, t) = {0}
        BY <2>1, <2>3, <3>2
      <4>2. Max({0}) = 0
        BY MaxIs
      <4> QED
        BY <2>3, <3>1, <4>1, <4>2 DEF FloorFits
    <3>3. CASE ~known
      <4>1. f = st.trace[t].floor /\ (~d => ~st.trace[t].unknown)
        BY <3>3
      <4> HIDE DEF f, d, known
      <4> QED
        BY <2>1, <2>3, <3>1, <4>1 DEF FloorFits
    <3> QED
      BY <3>2, <3>3
  <2> QED
    BY <2>2, <2>3
<1> QED
  BY <1>11, <1>12, <1>14, <1>15 DEF Sane, e

LEMMA PinnedFinite ==
  ASSUME NEW k, NEW st \in Store(k), PinsFit(st)
  PROVE  IsFiniteSet(PinnedTraces(st)) /\ Cardinality(PinnedTraces(st)) \in Nat
<1>1. IsFiniteSet(Known(st))
  BY StoreFields, LengthIsCardinality DEF Known, PinsFit
<1>2. PinnedTraces(st) \subseteq Known(st)
  BY DEF PinsFit
<1>3. IsFiniteSet(PinnedTraces(st))
  BY <1>1, <1>2, FS_Subset
<1> QED
  BY <1>3, FS_CardinalityType

\* A subscription to a trace pins it.
LEMMA PinKeeps ==
  ASSUME NEW k \in Nat, NEW st, Sane(st, k), NEW t \in Traces, NEW fresh \in BOOLEAN,
         fresh => Gone(st, t) = {}
  PROVE  /\ Sane(Pin(st, t, fresh), k)
         /\ Pin(st, t, fresh).trace[t].pins = st.trace[t].pins + 1
         /\ \A u \in Traces \ {t} : Pin(st, t, fresh).trace[u].pins = st.trace[u].pins
         /\ Pin(st, t, fresh).overwritten = st.overwritten
<1> DEFINE st1 == Track(st, t, fresh)
           p == IF st1.trace[t].pins = 0 THEN st1.pinned + 1 ELSE st1.pinned
           r == [st1.trace[t] EXCEPT !.pins = st1.trace[t].pins + 1]
           g == [st1.trace EXCEPT ![t] = r]
           e == Pin(st, t, fresh)
<1>1. /\ Sane(st1, k) /\ SamePins(st, st1) /\ t \in Known(st1)
      /\ st1.overwritten = st.overwritten
  BY TrackKeeps
<1>2. e = [st1 EXCEPT !.pinned = p, !.trace = [st1.trace EXCEPT ![t] = r]]
  BY DEF Pin
<1> HIDE DEF e, st1
<1>3. /\ st1 \in Store(k) /\ PinsFit(st1) /\ Floors(st1)
      /\ st1.overwritten \in 0 .. k /\ st1.lru \in Seq(Traces) /\ st1.pinned \in Nat
      /\ st1.unknownFloor \in 0 .. k /\ st1.trace \in [Traces -> Note(k)]
  BY <1>1, StoreFields DEF Sane
<1>4. /\ r \in Note(k) /\ r.floor = st1.trace[t].floor /\ r.unknown = st1.trace[t].unknown
      /\ r.pins = st1.trace[t].pins + 1 /\ st1.trace[t].pins \in Nat
  <2> DEFINE m == st1.trace[t].pins + 1
             r0 == st1.trace[t]
  <2>1. r0 \in Note(k) /\ m \in Nat /\ r = [r0 EXCEPT !.pins = m] /\ st1.trace[t].pins \in Nat
    BY <1>3 DEF Note
  <2> HIDE DEF m, r0, r
  <2>2. r \in Note(k) /\ r.floor = r0.floor /\ r.unknown = r0.unknown /\ r.pins = m
    BY <2>1 DEF Note
  <2> QED
    BY <2>1, <2>2 DEF m, r0
<1>5. p \in Nat
  BY <1>3
<1> HIDE DEF r, p
<1>6. g \in [Traces -> Note(k)] /\ g[t] = r /\ \A u \in Traces \ {t} : g[u] = st1.trace[u]
  BY <1>3, <1>4
<1>7. e = [overwritten |-> st1.overwritten, lru |-> st1.lru, pinned |-> p,
           unknownFloor |-> st1.unknownFloor, trace |-> g]
  BY <1>2, <1>3 DEF Store
<1> HIDE DEF g
<1>8. /\ e \in Store(k) /\ e.overwritten = st1.overwritten /\ e.lru = st1.lru
      /\ e.pinned = p /\ e.unknownFloor = st1.unknownFloor /\ e.trace = g
  BY <1>3, <1>5, <1>6, <1>7 DEF Store
<1>9. Known(e) = Known(st1)
  BY <1>8 DEF Known
<1>10. PinnedTraces(e) = PinnedTraces(st1) \cup {t}
  BY <1>4, <1>6, <1>8 DEF PinnedTraces
<1>11. IsFiniteSet(PinnedTraces(st1)) /\ Cardinality(PinnedTraces(st1)) \in Nat
  BY <1>3, PinnedFinite
<1>12. p = Cardinality(PinnedTraces(e))
  <2>1. CASE st1.trace[t].pins = 0
    <3>1. t \notin PinnedTraces(st1)
      BY <2>1 DEF PinnedTraces
    <3>2. Cardinality(PinnedTraces(st1) \cup {t}) = Cardinality(PinnedTraces(st1)) + 1
      BY <1>11, <3>1, FS_AddElement
    <3> QED
      BY <1>3, <1>10, <2>1, <3>2 DEF PinsFit, p
  <2>2. CASE st1.trace[t].pins # 0
    <3>1. t \in PinnedTraces(st1)
      BY <1>4, <2>2 DEF PinnedTraces
    <3>2. PinnedTraces(e) = PinnedTraces(st1)
      BY <1>10, <3>1
    <3> QED
      BY <1>3, <2>2, <3>2 DEF PinsFit, p
  <2> QED
    BY <2>1, <2>2
<1>13. PinsFit(e)
  BY <1>1, <1>3, <1>8, <1>9, <1>10, <1>12 DEF PinsFit
<1>14. Floors(e)
  <2> SUFFICES ASSUME NEW u \in Traces PROVE FloorFits(e, u)
    BY DEF Floors
  <2>1. FloorFits(st1, u) /\ Gone(e, u) = Gone(st1, u)
    BY <1>3, <1>8 DEF Floors, Gone
  <2>2. e.trace[u].floor = st1.trace[u].floor /\ e.trace[u].unknown = st1.trace[u].unknown
    BY <1>4, <1>6, <1>8
  <2> QED
    BY <1>8, <1>9, <2>1, <2>2 DEF FloorFits
<1>15. /\ e.trace[t].pins = st.trace[t].pins + 1
       /\ \A u \in Traces \ {t} : e.trace[u].pins = st.trace[u].pins
  BY <1>1, <1>4, <1>6, <1>8 DEF SamePins
<1> QED
  BY <1>1, <1>8, <1>13, <1>14, <1>15 DEF Sane, e

\* The subscriptions to a topic, of those in R.
To(R, topic) == {s \in R : sub[s].topic = topic}

\* The store counts the subscriptions in R.
Counted(st, R) == \A t \in Traces : st.trace[t].pins = Cardinality(To(R, t))

\* The subscriptions that are gone stop counting.
LEMMA UnpinKeeps ==
  ASSUME NEW k \in Nat, NEW st, Sane(st, k), NEW R, IsFiniteSet(R), NEW gone, gone \subseteq R,
         Counted(st, R)
  PROVE  /\ Sane(Unpin(st, gone), k) /\ Counted(Unpin(st, gone), R \ gone)
         /\ Unpin(st, gone).overwritten = st.overwritten
<1> DEFINE left(t) == st.trace[t].pins - Cardinality(To(gone, t))
           freed == {t \in Traces : st.trace[t].pins > 0 /\ left(t) = 0}
           p == st.pinned - Cardinality(freed)
           g == [t \in Traces |-> [st.trace[t] EXCEPT !.pins = left(t)]]
           e == Unpin(st, gone)
<1>1. /\ st \in Store(k) /\ PinsFit(st) /\ Floors(st)
      /\ st.overwritten \in 0 .. k /\ st.lru \in Seq(Traces) /\ st.pinned \in Nat
      /\ st.unknownFloor \in 0 .. k /\ st.trace \in [Traces -> Note(k)]
  BY StoreFields DEF Sane
<1>2. e = [st EXCEPT !.pinned = p, !.trace = g]
  BY Zenon DEF Unpin, To
<1> HIDE DEF e
<1>3. \A t \in Traces : left(t) = Cardinality(To(R \ gone, t)) /\ left(t) \in Nat
  <2> SUFFICES ASSUME NEW t \in Traces
               PROVE  left(t) = Cardinality(To(R \ gone, t)) /\ left(t) \in Nat
    OBVIOUS
  <2>1. To(R, t) \subseteq R /\ To(R \ gone, t) = To(R, t) \ To(gone, t)
        /\ To(R, t) \cap To(gone, t) = To(gone, t)
    BY DEF To
  <2>2. IsFiniteSet(To(R, t))
    BY <2>1, FS_Subset
  <2>3. /\ IsFiniteSet(To(R, t) \ To(gone, t))
        /\ Cardinality(To(R, t) \ To(gone, t))
             = Cardinality(To(R, t)) - Cardinality(To(R, t) \cap To(gone, t))
    BY <2>2, FS_Difference
  <2>4. Cardinality(To(R, t) \ To(gone, t)) \in Nat
    BY <2>3, FS_CardinalityType
  <2> QED
    BY <2>1, <2>3, <2>4 DEF Counted
<1> HIDE DEF left
<1>4. /\ g \in [Traces -> Note(k)]
      /\ \A t \in Traces : /\ g[t].floor = st.trace[t].floor /\ g[t].pins = left(t)
                           /\ g[t].unknown = st.trace[t].unknown
  <2>1. \A t \in Traces : st.trace[t] \in Note(k)
    BY <1>1
  <2>2. ASSUME NEW t \in Traces
        PROVE  /\ g[t] \in Note(k) /\ g[t].floor = st.trace[t].floor /\ g[t].pins = left(t)
               /\ g[t].unknown = st.trace[t].unknown
    <3> DEFINE r == st.trace[t]
    <3>1. r \in Note(k) /\ left(t) \in Nat /\ g[t] = [r EXCEPT !.pins = left(t)]
      BY <1>3, <2>1
    <3> HIDE DEF r, g
    <3>2. /\ g[t] \in Note(k) /\ g[t].floor = r.floor /\ g[t].pins = left(t)
          /\ g[t].unknown = r.unknown
      BY <3>1 DEF Note
    <3> QED
      BY <3>2 DEF r
  <2>3. g = [t \in Traces |-> g[t]]
    OBVIOUS
  <2> HIDE DEF g
  <2> QED
    BY <2>2, <2>3
<1> HIDE DEF g
<1>5. /\ freed \subseteq PinnedTraces(st)
      /\ {t \in Traces : left(t) > 0} = PinnedTraces(st) \ freed
  <2>1. \A t \in Traces : st.trace[t].pins \in Nat /\ left(t) \in Nat
    BY <1>1, <1>3 DEF Note
  <2>2. \A t \in Traces : left(t) <= st.trace[t].pins
    <3> SUFFICES ASSUME NEW t \in Traces PROVE left(t) <= st.trace[t].pins
      OBVIOUS
    <3>1. To(gone, t) \subseteq R
      BY DEF To
    <3>2. Cardinality(To(gone, t)) \in Nat
      BY <3>1, FS_Subset, FS_CardinalityType
    <3> QED
      BY <2>1, <3>2 DEF left
  <2> QED
    BY <2>1, <2>2 DEF PinnedTraces
<1>6. IsFiniteSet(PinnedTraces(st)) /\ st.pinned = Cardinality(PinnedTraces(st))
  BY <1>1, PinnedFinite DEF PinsFit
<1> HIDE DEF freed
<1>7. p = Cardinality(PinnedTraces(st) \ freed) /\ p \in Nat
  <2>1. PinnedTraces(st) \cap freed = freed
    BY <1>5
  <2>2. /\ IsFiniteSet(PinnedTraces(st) \ freed)
        /\ Cardinality(PinnedTraces(st) \ freed)
             = Cardinality(PinnedTraces(st)) - Cardinality(PinnedTraces(st) \cap freed)
    BY <1>6, FS_Difference
  <2>3. Cardinality(PinnedTraces(st) \ freed) \in Nat
    BY <2>2, FS_CardinalityType
  <2> QED
    BY <1>6, <2>1, <2>2, <2>3
<1> HIDE DEF p
<1>8. e = [overwritten |-> st.overwritten, lru |-> st.lru, pinned |-> p,
           unknownFloor |-> st.unknownFloor, trace |-> g]
  BY <1>1, <1>2 DEF Store
<1>9. /\ e \in Store(k) /\ e.overwritten = st.overwritten /\ e.lru = st.lru
      /\ e.pinned = p /\ e.unknownFloor = st.unknownFloor /\ e.trace = g
  BY <1>1, <1>4, <1>7, <1>8 DEF Store
<1>10. Known(e) = Known(st)
  BY <1>9 DEF Known
<1>11. PinnedTraces(e) = PinnedTraces(st) \ freed
  <2>1. PinnedTraces(e) = {t \in Traces : left(t) > 0}
    BY <1>4, <1>9 DEF PinnedTraces
  <2> QED
    BY <1>5, <2>1
<1>12. PinsFit(e)
  BY <1>1, <1>7, <1>9, <1>10, <1>11 DEF PinsFit
<1>13. Floors(e)
  <2> SUFFICES ASSUME NEW u \in Traces PROVE FloorFits(e, u)
    BY DEF Floors
  <2>1. FloorFits(st, u) /\ Gone(e, u) = Gone(st, u)
    BY <1>1, <1>9 DEF Floors, Gone
  <2> QED
    BY <1>4, <1>9, <1>10, <2>1 DEF FloorFits
<1> QED
  BY <1>3, <1>4, <1>9, <1>12, <1>13 DEF Sane, Counted, e

\* No more traces are listed than may be.
Small(st) == Len(st.lru) <= StoreCapacity + st.pinned

LEMMA ReleaseKeeps ==
  ASSUME NEW k \in Nat, NEW st, Sane(st, k), NEW R, IsFiniteSet(R), NEW gone, gone \subseteq R,
         Counted(st, R)
  PROVE  /\ Sane(Trim(Unpin(st, gone)), k) /\ Counted(Trim(Unpin(st, gone)), R \ gone)
         /\ Small(Trim(Unpin(st, gone)))
         /\ Trim(Unpin(st, gone)).overwritten = st.overwritten
<1> DEFINE st1 == Unpin(st, gone)
           st2 == Trim(st1)
<1>1. /\ Sane(st1, k) /\ st1.overwritten = st.overwritten
      /\ Counted(st1, R \ gone)
  BY UnpinKeeps
<1> HIDE DEF st1
<1>2. /\ Sane(st2, k) /\ SamePins(st1, st2) /\ Small(st2) /\ st2.overwritten = st1.overwritten
  BY <1>1, TrimKeeps DEF Small
<1> HIDE DEF st2
<1>3. Counted(st2, R \ gone)
  BY <1>1, <1>2 DEF Counted, SamePins
<1> QED
  BY <1>1, <1>2, <1>3 DEF st1, st2

\* A publication: an event is overwritten, one is appended to its trace's, and
\* the subscriptions it cut off release theirs.
LEMMA AppendEventKeeps ==
  ASSUME log \in Seq(Traces), Sane(store, Len(log)), NEW R, IsFiniteSet(R), Counted(store, R),
         NEW cut, cut \subseteq R, NEW t \in Traces, NEW begins \in BOOLEAN,
         begins => t \notin Range(log), AppendEvent(Len(log) + 1, t, begins, cut)
  PROVE  /\ Sane(store', Len(log) + 1) /\ Counted(store', R \ cut) /\ Small(store')
         /\ store'.overwritten \in 0 .. Len(log)
<1> DEFINE k == Len(log)
           st1 == Evict(store)
           st2 == Track(st1, t, begins)
           st3 == Touch(st2, k + 1, t, begins)
           st4 == Trim(st3)
<1>1. k \in Nat /\ Sane(store, k)
  OBVIOUS
<1>2. store' = Trim(Unpin(st4, cut))
  BY DEF AppendEvent, Release
<1>3. Sane(st1, k) /\ SamePins(store, st1)
  BY EvictKeeps
<1> HIDE DEF st1
<1>4. st1.overwritten \in 0 .. k
  BY <1>3 DEF Sane, Store
<1>5. \A st : st.overwritten \in 0 .. k /\ begins => Gone(st, t) = {}
  <2>1. \A n \in 1 .. k : begins => log[n] # t
    BY DEF Range
  <2> QED
    BY <1>1, <2>1 DEF Gone
<1>6. /\ Sane(st2, k) /\ SamePins(st1, st2) /\ t \in Known(st2)
      /\ st2.overwritten = st1.overwritten
  BY <1>1, <1>3, <1>4, <1>5, TrackKeeps
<1> HIDE DEF st2
<1>7. /\ Sane(st3, k + 1) /\ SamePins(st2, st3) /\ st3.overwritten = st2.overwritten
  BY <1>1, <1>4, <1>5, <1>6, TouchKeeps
<1> HIDE DEF st3
<1>8. k + 1 \in Nat
  BY <1>1
<1>9. /\ Sane(st4, k + 1) /\ SamePins(st3, st4) /\ st4.overwritten = st3.overwritten
  BY <1>7, <1>8, TrimKeeps
<1> HIDE DEF st4
<1>10. Counted(st4, R)
  BY <1>3, <1>6, <1>7, <1>9 DEF Counted, SamePins
<1> HIDE DEF k
<1>11. /\ Sane(store', k + 1) /\ Counted(store', R \ cut) /\ Small(store')
       /\ store'.overwritten = st4.overwritten
  BY <1>2, <1>8, <1>9, <1>10, ReleaseKeeps
<1> QED
  BY <1>4, <1>6, <1>7, <1>9, <1>11 DEF k

-----------------------------------------------------------------------------
(***************************************************************************)
(* The invariant: what StoreInv says, in the terms of the operations.      *)
(***************************************************************************)
Plain ==
  /\ log \in Seq(Traces) /\ Len(log) <= MaxEvents
  /\ sub \in [Subs -> {NoSub} \cup Subscription]
  /\ closed \in BOOLEAN
  /\ IsFiniteSet(Registered) /\ Cardinality(Registered) <= MaxSubscriptions

BusInv ==
  /\ Plain
  /\ expired \in {0} \cup store.overwritten + 1 .. Len(log)
  /\ Sane(store, Len(log)) /\ Counted(store, Registered) /\ Small(store)

\* The invariant is StoreInv.
LEMMA BusInvIsStoreInv == BusInv => StoreInv
<1> SUFFICES ASSUME BusInv PROVE StoreInv
  OBVIOUS
<1>1. store \in Store(Len(log)) /\ PinsFit(store) /\ Floors(store)
  BY DEF BusInv, Sane
<1>2. TypeOK
  BY <1>1 DEF TypeOK, BusInv, Plain, Store, Note
<1>3. Pinned
  <2>1. \A t \in Traces : store.trace[t].pins > 0 => t \in Known(store)
    BY <1>1 DEF PinsFit, PinnedTraces
  <2>2. \A t \in Traces : store.trace[t].pins = Cardinality({s \in Registered : sub[s].topic = t})
    BY DEF BusInv, Counted, To
  <2> QED
    BY <1>1, <2>1, <2>2 DEF Pinned, BusInv, Plain, Small, PinsFit, PinnedTraces
<1>4. FloorsSound
  <2> SUFFICES ASSUME NEW t \in Traces
               PROVE  IF t \in Known(store)
                      THEN /\ \A n \in Overwritten(t) : n <= store.trace[t].floor
                           /\ ~store.trace[t].unknown =>
                                store.trace[t].floor = Max({0} \cup Overwritten(t))
                      ELSE \A n \in Overwritten(t) : n <= store.unknownFloor
    BY DEF FloorsSound
  <2>1. Overwritten(t) = Gone(store, t)
    BY DEF Overwritten, Gone
  <2> QED
    BY <1>1, <2>1 DEF Floors, FloorFits
<1> QED
  BY <1>2, <1>3, <1>4 DEF StoreInv

LEMMA BusInit == Init => BusInv
<1> SUFFICES ASSUME Init PROVE BusInv
  OBVIOUS
<1>1. /\ log = <<>> /\ expired = 0 /\ closed = FALSE /\ sub = [s \in Subs |-> NoSub]
      /\ store = [overwritten |-> 0, lru |-> <<>>, pinned |-> 0, unknownFloor |-> 0,
                  trace |-> [t \in Traces |-> Forgotten]]
  BY DEF Init
<1>2. Registered = {} /\ IsFiniteSet(Registered) /\ Cardinality(Registered) = 0
  <2>1. Registered = {}
    BY <1>1 DEF Registered, NoSub
  <2> QED
    BY <2>1, FS_EmptySet
<1>3. Plain
  <2>1. log \in Seq(Traces) /\ Len(log) = 0
    BY <1>1
  <2>2. sub \in [Subs -> {NoSub} \cup Subscription] /\ closed \in BOOLEAN
    BY <1>1
  <2>3. 0 <= MaxEvents /\ 0 <= MaxSubscriptions
    BY BusAssumption
  <2> QED
    BY <1>2, <2>1, <2>2, <2>3 DEF Plain
<1>4. /\ store.overwritten = 0 /\ store.lru = <<>> /\ store.pinned = 0
      /\ store.unknownFloor = 0 /\ store.trace = [t \in Traces |-> Forgotten]
      /\ store \in Store(0)
  <2>1. Forgotten \in Note(0)
    BY DEF Forgotten, Note
  <2>2. [t \in Traces |-> Forgotten] \in [Traces -> Note(0)]
    BY <2>1
  <2>3. <<>> \in Seq(Traces) /\ 0 \in 0 .. 0 /\ 0 \in Nat
    OBVIOUS
  <2> DEFINE g == [t \in Traces |-> Forgotten]
  <2> HIDE DEF g
  <2> QED
    BY <1>1, <2>2, <2>3 DEF Store, g
<1>5. \A t \in Traces : store.trace[t].pins = 0 /\ store.trace[t].floor = 0
  BY <1>4 DEF Forgotten
<1>6. PinsFit(store)
  <2>1. PinnedTraces(store) = {} /\ Cardinality({}) = 0
    BY <1>5, FS_EmptySet DEF PinnedTraces
  <2>2. IsInjective(store.lru)
    BY <1>4 DEF IsInjective
  <2> QED
    BY <1>4, <2>1, <2>2 DEF PinsFit
<1>7. Floors(store)
  <2>1. \A t \in Traces : Gone(store, t) = {}
    BY <1>4 DEF Gone
  <2>2. Known(store) = {}
    BY <1>4 DEF Known, Range
  <2> QED
    BY <2>1, <2>2 DEF Floors, FloorFits
<1>8. Counted(store, Registered)
  <2>1. \A t \in Traces : To(Registered, t) = {}
    BY <1>2 DEF To
  <2> QED
    BY <1>5, <2>1, FS_EmptySet DEF Counted
<1>9. Small(store)
  <2>1. Len(store.lru) = 0 /\ StoreCapacity \in Nat
    BY <1>4, BusAssumption
  <2> QED
    BY <1>4, <2>1 DEF Small
<1>10. Len(log) = 0 /\ expired = 0
  BY <1>1
<1> QED
  BY <1>3, <1>4, <1>6, <1>7, <1>8, <1>9, <1>10 DEF BusInv, Sane

\* The events are never changed, so that what is gone stays what it was.
LEMMA CarriedOver ==
  ASSUME log \in Seq(Traces), NEW k \in Nat, Sane(store', k), Len(log') = k,
         store'.overwritten \in 0 .. Len(log), \A n \in 1 .. Len(log) : log'[n] = log[n]
  PROVE  Sane(store, Len(log))'
<1>1. \A t : {n \in 1 .. store'.overwritten : log'[n] = t} = Gone(store', t)
  BY DEF Gone
<1>2. Floors(store)'
  <2>1. \A t \in Traces : FloorFits(store', t)
    BY DEF Sane, Floors
  <2>2. \A t \in Traces : FloorFits(store, t)'
    <3> SUFFICES ASSUME NEW t \in Traces PROVE FloorFits(store, t)'
      OBVIOUS
    <3>1. FloorFits(store', t) /\ Gone(store, t)' = Gone(store', t)
      BY <1>1, <2>1 DEF Gone
    <3>2. Known(store)' = Known(store')
      BY DEF Known
    <3> QED
      BY <3>1, <3>2 DEF FloorFits
  <2> QED
    BY <2>2 DEF Floors
<1>3. Store(Len(log))' = Store(k)
  BY DEF Store, Note
<1>4. PinsFit(store)'
  BY DEF Sane, PinsFit, PinnedTraces, Known
<1> QED
  BY <1>2, <1>3, <1>4 DEF Sane

LEMMA CountedNext ==
  ASSUME NEW R, Registered' = R, Counted(store', R),
         \A s \in R : sub'[s].topic = sub[s].topic
  PROVE  Counted(store, Registered)'
<1>1. \A t : To(Registered, t)' = To(R, t)
  BY DEF To
<1> QED
  BY <1>1 DEF Counted

LEMMA OpenOnes ==
  ASSUME Plain
  PROVE  /\ \A s \in Registered : s \in Subs /\ sub[s] \in Subscription /\ sub[s].state = "open"
         /\ \A s \in Subs : ~Free(s) => sub[s] \in Subscription
  BY DEF Plain, Registered, NoSub, Free

CutAt(r, why, m) == [r EXCEPT !.state = why, !.end = m]
Sent(r, n) == [r EXCEPT !.ch = Append(r.ch, n)]

\* A subscription that is cut off.
LEMMA CutFields ==
  ASSUME NEW r \in Subscription, NEW why \in {"overflowed", "closed"}, NEW m \in Nat
  PROVE  /\ CutAt(r, why, m) \in Subscription
         /\ CutAt(r, why, m).state = why /\ CutAt(r, why, m).end = m
         /\ CutAt(r, why, m).topic = r.topic /\ CutAt(r, why, m).ch = r.ch
         /\ CutAt(r, why, m).pos = r.pos /\ CutAt(r, why, m).after = r.after
         /\ CutAt(r, why, m).cap = r.cap
  BY DEF Subscription, CutAt

\* A subscription that is sent an event.
LEMMA SentFields ==
  ASSUME NEW r \in Subscription, NEW n \in Nat
  PROVE  /\ Sent(r, n) \in Subscription
         /\ Sent(r, n).state = r.state /\ Sent(r, n).end = r.end
         /\ Sent(r, n).topic = r.topic /\ Sent(r, n).ch = Append(r.ch, n)
         /\ Sent(r, n).pos = r.pos /\ Sent(r, n).after = r.after
         /\ Sent(r, n).cap = r.cap
<1> DEFINE q == Append(r.ch, n)
           c == [r EXCEPT !.ch = q]
<1>1. q \in Seq(Nat) /\ Sent(r, n) = c
  BY DEF Subscription, Sent
<1> HIDE DEF q
<1>2. /\ c \in Subscription /\ c.state = r.state /\ c.end = r.end
      /\ c.topic = r.topic /\ c.ch = q /\ c.pos = r.pos /\ c.after = r.after
      /\ c.cap = r.cap
  BY <1>1 DEF Subscription
<1> HIDE DEF c
<1> QED
  BY <1>1, <1>2 DEF q

\* The subscriptions an event is for, and those of them that are full.
For(t) == {s \in Registered : t \in Of(sub[s].topic)}
Overrun(t) == {s \in For(t) : Full(s)}

\* What Publish does to the subscriptions.
LEMMA PublishSubs ==
  ASSUME Plain, NEW t \in Traces, NEW begins \in BOOLEAN, Publish(t, begins)
  PROVE  /\ Overrun(t) \subseteq For(t) /\ For(t) \subseteq Registered
         /\ sub' \in [Subs -> {NoSub} \cup Subscription]
         /\ \A s \in Subs \ For(t) : sub'[s] = sub[s]
         /\ \A s \in For(t) :
              /\ sub'[s] \in Subscription /\ sub'[s].topic = sub[s].topic
              /\ sub'[s].pos = sub[s].pos /\ sub'[s].after = sub[s].after /\ sub'[s].cap = sub[s].cap
         /\ \A s \in Overrun(t) :
              /\ sub'[s].state = "overflowed" /\ sub'[s].end = Len(log)
              /\ sub'[s].ch = sub[s].ch
         /\ \A s \in For(t) \ Overrun(t) :
              /\ sub'[s].state = "open" /\ sub'[s].end = sub[s].end
              /\ sub'[s].ch = Append(sub[s].ch, Len(log) + 1)
         /\ Registered' = Registered \ Overrun(t)
<1> DEFINE to == For(t)
           cut == Overrun(t)
           n == Len(log) + 1
<1>1. cut \subseteq to /\ to \subseteq Registered /\ Len(log) \in Nat /\ n \in Nat
  BY DEF Plain, For, Overrun
<1>2. \A s \in to : s \in Subs /\ sub[s] \in Subscription /\ sub[s].state = "open"
  BY <1>1, OpenOnes
<1>3. sub' = [s \in Subs |->
                IF s \in cut THEN Cut(s, "overflowed")
                ELSE IF s \in to THEN [sub[s] EXCEPT !.ch = Append(@, n)]
                ELSE sub[s]]
  BY DEF Publish, For, Overrun
<1> HIDE DEF to, cut
<1>4. \A s \in cut : sub'[s] = CutAt(sub[s], "overflowed", Len(log))
  BY <1>1, <1>2, <1>3 DEF Cut, CutAt
<1>5. \A s \in to \ cut : sub'[s] = Sent(sub[s], n)
  BY <1>1, <1>2, <1>3 DEF Sent
<1>6. \A s \in Subs \ to : sub'[s] = sub[s]
  BY <1>1, <1>3
<1>7. ASSUME NEW s \in cut
      PROVE  /\ sub'[s] \in Subscription /\ sub'[s].state = "overflowed" /\ sub'[s].end = Len(log)
             /\ sub'[s].topic = sub[s].topic /\ sub'[s].ch = sub[s].ch
             /\ sub'[s].pos = sub[s].pos /\ sub'[s].after = sub[s].after /\ sub'[s].cap = sub[s].cap
  <2>1. sub[s] \in Subscription
    BY <1>1, <1>2
  <2> DEFINE r == sub[s]
             m == Len(log)
  <2>2. r \in Subscription /\ m \in Nat /\ sub'[s] = CutAt(r, "overflowed", m)
    BY <1>1, <1>4, <2>1
  <2> HIDE DEF r, m
  <2>3. /\ CutAt(r, "overflowed", m) \in Subscription
        /\ CutAt(r, "overflowed", m).state = "overflowed" /\ CutAt(r, "overflowed", m).end = m
        /\ CutAt(r, "overflowed", m).topic = r.topic /\ CutAt(r, "overflowed", m).ch = r.ch
        /\ CutAt(r, "overflowed", m).pos = r.pos /\ CutAt(r, "overflowed", m).after = r.after
        /\ CutAt(r, "overflowed", m).cap = r.cap
    BY <2>2, CutFields
  <2> QED
    BY <2>2, <2>3 DEF r, m
<1>8. ASSUME NEW s \in to \ cut
      PROVE  /\ sub'[s] \in Subscription /\ sub'[s].state = "open" /\ sub'[s].end = sub[s].end
             /\ sub'[s].topic = sub[s].topic /\ sub'[s].ch = Append(sub[s].ch, n)
             /\ sub'[s].pos = sub[s].pos /\ sub'[s].after = sub[s].after /\ sub'[s].cap = sub[s].cap
  <2>1. sub[s] \in Subscription
    BY <1>2
  <2> DEFINE r == sub[s]
  <2>2. r \in Subscription /\ n \in Nat /\ sub'[s] = Sent(r, n) /\ r.state = "open"
    BY <1>1, <1>2, <1>5, <2>1
  <2> HIDE DEF r, n
  <2>3. /\ Sent(r, n) \in Subscription /\ Sent(r, n).state = r.state
        /\ Sent(r, n).end = r.end /\ Sent(r, n).topic = r.topic
        /\ Sent(r, n).ch = Append(r.ch, n) /\ Sent(r, n).pos = r.pos
        /\ Sent(r, n).after = r.after /\ Sent(r, n).cap = r.cap
    BY <2>2, SentFields
  <2> QED
    BY <2>2, <2>3 DEF r
<1>9. \A s \in to : /\ sub'[s] \in Subscription /\ sub'[s].topic = sub[s].topic
                    /\ sub'[s].pos = sub[s].pos /\ sub'[s].after = sub[s].after /\ sub'[s].cap = sub[s].cap
  <2> SUFFICES ASSUME NEW s \in to
               PROVE  /\ sub'[s] \in Subscription /\ sub'[s].topic = sub[s].topic
                      /\ sub'[s].pos = sub[s].pos /\ sub'[s].after = sub[s].after /\ sub'[s].cap = sub[s].cap
    OBVIOUS
  <2>1. CASE s \in cut
    BY <1>7, <2>1
  <2>2. CASE s \notin cut
    BY <1>8, <2>2
  <2> QED
    BY <2>1, <2>2
<1>10. sub' \in [Subs -> {NoSub} \cup Subscription]
  <2>1. \A s \in Subs : sub'[s] \in {NoSub} \cup Subscription
    BY <1>6, <1>9 DEF Plain
  <2>2. DOMAIN sub' = Subs /\ sub' = [s \in Subs |-> sub'[s]]
    BY <1>3
  <2> QED
    BY <2>1, <2>2
<1>11. Registered' = Registered \ cut
  <2>1. \A s \in Subs : sub'[s].state = "open" <=> sub[s].state = "open" /\ s \notin cut
    <3> SUFFICES ASSUME NEW s \in Subs
                 PROVE  sub'[s].state = "open" <=> sub[s].state = "open" /\ s \notin cut
      OBVIOUS
    <3>1. CASE s \in cut
      BY <1>7, <3>1
    <3>2. CASE s \in to \ cut
      BY <1>2, <1>8, <3>2
    <3>3. CASE s \notin to
      BY <1>1, <1>6, <3>3
    <3> QED
      BY <3>1, <3>2, <3>3
  <2> QED
    BY <2>1 DEF Registered
<1> QED
  BY <1>1, <1>6, <1>7, <1>8, <1>9, <1>10, <1>11 DEF to, cut

LEMMA FewerOpen ==
  ASSUME Plain, NEW gone
  PROVE  /\ IsFiniteSet(Registered \ gone)
         /\ Cardinality(Registered \ gone) <= MaxSubscriptions
<1>1. IsFiniteSet(Registered) /\ Registered \ gone \subseteq Registered
  BY DEF Plain
<1>2. /\ IsFiniteSet(Registered \ gone)
      /\ Cardinality(Registered \ gone) <= Cardinality(Registered)
  BY <1>1, FS_Subset
<1>3. Cardinality(Registered) \in Nat /\ Cardinality(Registered \ gone) \in Nat
  BY <1>1, <1>2, FS_CardinalityType
<1>4. Cardinality(Registered) <= MaxSubscriptions /\ MaxSubscriptions \in Nat
  BY BusAssumption DEF Plain
<1> QED
  BY <1>2, <1>3, <1>4

LEMMA PublishStep ==
  ASSUME BusInv, NEW t \in Traces, NEW begins \in BOOLEAN, Publish(t, begins)
  PROVE  BusInv'
<1> DEFINE to == For(t)
           cut == Overrun(t)
<1>1. Plain /\ log \in Seq(Traces) /\ Len(log) \in Nat
  BY DEF BusInv, Plain
<1>2. /\ log' = Append(log, t) /\ closed' = closed /\ Len(log) + 1 <= MaxEvents
      /\ begins => t \notin Range(log)
      /\ AppendEvent(Len(log) + 1, t, begins, cut)
      /\ expired' = IF expired > store'.overwritten THEN expired ELSE 0
  BY DEF Publish, For, Overrun
<1>3. /\ log' \in Seq(Traces) /\ Len(log') = Len(log) + 1
      /\ \A n \in 1 .. Len(log) : log'[n] = log[n]
  BY <1>1, <1>2
<1>4. /\ cut \subseteq to /\ to \subseteq Registered
      /\ sub' \in [Subs -> {NoSub} \cup Subscription]
      /\ \A s \in Subs \ to : sub'[s] = sub[s]
      /\ \A s \in to : sub'[s].topic = sub[s].topic
      /\ Registered' = Registered \ cut
  BY <1>1, PublishSubs
<1> HIDE DEF cut, to
<1>5. IsFiniteSet(Registered) /\ Counted(store, Registered) /\ Sane(store, Len(log))
  BY DEF BusInv, Plain
<1>6. /\ Sane(store', Len(log) + 1) /\ Counted(store', Registered \ cut) /\ Small(store')
      /\ store'.overwritten \in 0 .. Len(log)
  <2>1. cut \subseteq Registered
    BY <1>4
  <2> QED
    BY <1>1, <1>2, <1>5, <2>1, AppendEventKeeps
<1>7. Sane(store, Len(log))'
  BY <1>1, <1>3, <1>6, CarriedOver
<1>8. Counted(store, Registered)'
  <2>1. \A s \in Registered \ cut : sub'[s].topic = sub[s].topic
    BY <1>4 DEF Registered
  <2> QED
    BY <1>4, <1>6, <2>1, CountedNext
<1>9. Plain'
  <2>1. IsFiniteSet(Registered') /\ Cardinality(Registered') <= MaxSubscriptions
    BY <1>1, <1>4, FewerOpen
  <2>2. closed' \in BOOLEAN
    BY <1>1, <1>2 DEF Plain
  <2> QED
    BY <1>2, <1>3, <1>4, <2>1, <2>2 DEF Plain
<1>10. expired' \in {0} \cup store'.overwritten + 1 .. Len(log')
  <2>1. expired \in {0} \cup store.overwritten + 1 .. Len(log) /\ store.overwritten \in Nat
    BY <1>5 DEF BusInv, Sane, Store
  <2> QED
    BY <1>1, <1>2, <1>3, <1>6, <2>1
<1>11. Small(store)'
  BY <1>6 DEF Small
<1> QED
  BY <1>7, <1>8, <1>9, <1>10, <1>11 DEF BusInv

\* The events retained for a reader, in order.
LEMMA RetainedFacts ==
  ASSUME log \in Seq(Traces), store.overwritten \in 0 .. Len(log),
         NEW topic, NEW since \in Nat
  PROVE  /\ Retained(topic, since) \in Seq(Nat)
         /\ \A n : n \in Range(Retained(topic, since)) <=>
                     /\ n \in store.overwritten + 1 .. Len(log)
                     /\ log[n] \in Of(topic) /\ n > since /\ n > expired
         /\ \A i, j \in 1 .. Len(Retained(topic, since)) :
              i < j => Retained(topic, since)[i] < Retained(topic, since)[j]
<1> DEFINE o == store.overwritten
           m == Len(log) - o
           r == [i \in 1 .. m |-> o + i]
           Q == {n \in 1 .. Len(log) : log[n] \in Of(topic) /\ n > since /\ n > expired}
           q == Keep(r, Q)
<1>1. Retained(topic, since) = q
  BY DEF Retained
<1>2. /\ o \in Nat /\ m \in Nat /\ Len(log) \in Nat
      /\ \A n : n \in o + 1 .. Len(log) <=> n \in Nat /\ n > o /\ n <= Len(log)
  OBVIOUS
<1>3. /\ r \in Seq(Nat) /\ Len(r) = m /\ \A i \in 1 .. m : r[i] = o + i
  BY <1>2
<1>4. Q \subseteq 1 .. Len(log)
  OBVIOUS
<1>5. \A n : n \in Q <=> /\ n \in 1 .. Len(log) /\ log[n] \in Of(topic)
                         /\ n > since /\ n > expired
  OBVIOUS
<1>6. m = Len(log) - o
  OBVIOUS
<1> HIDE DEF o, m, r, Q
<1>7. q \in Seq(Nat) /\ \E at : Picks(at, q, r, m, Q)
  BY <1>3, KeepPicks
<1>8. \A x : x \in Range(q) <=> x \in Range(r) /\ x \in Q
  BY <1>3, KeepProperties
<1> HIDE DEF q
<1>9. PICK at : Picks(at, q, r, m, Q)
  BY <1>7
<1>10. \A i, j \in 1 .. Len(q) : i < j => q[i] < q[j]
  <2> SUFFICES ASSUME NEW i \in 1 .. Len(q), NEW j \in 1 .. Len(q), i < j PROVE q[i] < q[j]
    OBVIOUS
  <2>1. /\ at[i] \in 1 .. m /\ at[j] \in 1 .. m /\ at[i] < at[j]
        /\ q[i] = r[at[i]] /\ q[j] = r[at[j]]
    BY <1>9 DEF Picks
  <2>2. q[i] = o + at[i] /\ q[j] = o + at[j]
    BY <1>3, <2>1
  <2> QED
    BY <1>2, <2>1, <2>2
<1>11. \A n : n \in Range(r) <=> n \in o + 1 .. Len(log)
  <2>1. DOMAIN r = 1 .. m
    BY <1>3
  <2>2. ASSUME NEW n \in Range(r) PROVE n \in o + 1 .. Len(log)
    <3>1. PICK i \in 1 .. m : r[i] = n
      BY <2>1, <2>2 DEF Range
    <3> QED
      BY <1>2, <1>3, <1>6, <3>1
  <2>3. ASSUME NEW n \in o + 1 .. Len(log) PROVE n \in Range(r)
    <3>1. n - o \in 1 .. m /\ o + (n - o) = n
      BY <1>2, <1>6, <2>3
    <3>2. r[n - o] = n
      BY <1>3, <3>1
    <3> QED
      BY <2>1, <3>1, <3>2 DEF Range
  <2> QED
    BY <2>2, <2>3
<1>12. o + 1 .. Len(log) \subseteq 1 .. Len(log)
  BY <1>2
<1>13. \A n : n \in Range(q) <=> /\ n \in o + 1 .. Len(log) /\ log[n] \in Of(topic)
                                 /\ n > since /\ n > expired
  BY <1>5, <1>8, <1>11, <1>12
<1> QED
  BY <1>1, <1>7, <1>10, <1>13 DEF o

\* What is overwritten or has expired lies at or below the floor.
LEMMA FloorFacts ==
  ASSUME log \in Seq(Traces), NEW st, Sane(st, Len(log)), NEW topic \in Topics,
         expired \in 0 .. Len(log)
  PROVE  /\ Floor(st, topic) \in 0 .. Len(log)
         /\ topic # OfBot =>
              \A n \in 1 .. Len(log) :
                (n <= st.overwritten \/ n <= expired) /\ log[n] \in Of(topic)
                  => n <= Floor(st, topic)
<1> DEFINE k == Len(log)
           stored == IF topic \notin Traces THEN st.overwritten
                     ELSE IF topic \in Known(st) THEN st.trace[topic].floor
                     ELSE st.unknownFloor
           stale == {n \in st.overwritten + 1 .. Len(log) : n <= expired /\ log[n] \in Of(topic)}
           S == {stored} \cup stale
<1>1. Floor(st, topic) = Max(S)
  BY DEF Floor
<1>2. /\ k \in Nat /\ st.overwritten \in 0 .. k /\ st.unknownFloor \in 0 .. k
      /\ st.trace \in [Traces -> Note(k)] /\ Floors(st)
  BY StoreFields DEF Sane
<1>3. stored \in 0 .. k
  BY <1>2 DEF Note
<1>4. \A n \in 1 .. k : n <= st.overwritten /\ log[n] \in Of(topic) /\ topic # OfBot => n <= stored
  <2> SUFFICES ASSUME NEW n \in 1 .. k, n <= st.overwritten, log[n] \in Of(topic), topic # OfBot
               PROVE  n <= stored
    OBVIOUS
  <2>1. CASE topic \notin Traces
    BY <2>1
  <2>2. CASE topic \in Traces
    <3>1. Of(topic) = {topic}
      BY <2>2, BusAssumption DEF Of
    <3>2. n \in Gone(st, topic) /\ FloorFits(st, topic)
      BY <1>2, <2>2, <3>1 DEF Gone, Floors
    <3>3. stored = IF topic \in Known(st) THEN st.trace[topic].floor ELSE st.unknownFloor
      BY <2>2
    <3> HIDE DEF stored
    <3> QED
      BY <3>2, <3>3 DEF FloorFits
  <2> QED
    BY <2>1, <2>2
<1>5. stale \subseteq 0 .. k
  BY <1>2
<1> HIDE DEF stored
<1>6. S \subseteq 0 .. k /\ S # {} /\ stored \in S /\ stale \subseteq S
  BY <1>3, <1>5
<1>7. \A n \in 1 .. k : n > st.overwritten /\ n <= expired /\ log[n] \in Of(topic) => n \in stale
  BY <1>2
<1> HIDE DEF S, stale
<1>8. Max(S) \in S /\ \A x \in S : x <= Max(S)
  <2>1. S \subseteq Nat /\ \A x \in S : x <= k
    BY <1>2, <1>6
  <2> QED
    BY <1>2, <1>6, <2>1, MaxOf
<1>9. \A n \in 1 .. k :
        (n <= st.overwritten \/ n <= expired) /\ log[n] \in Of(topic) /\ topic # OfBot
          => n <= Max(S)
  <2> SUFFICES ASSUME NEW n \in 1 .. k, n <= st.overwritten \/ n <= expired,
                      log[n] \in Of(topic), topic # OfBot
               PROVE  n <= Max(S)
    OBVIOUS
  <2>1. CASE n <= st.overwritten
    <3>1. n <= stored /\ stored <= Max(S)
      BY <1>4, <1>6, <1>8, <2>1
    <3>2. Max(S) \in 0 .. k
      BY <1>6, <1>8
    <3> QED
      BY <1>3, <3>1, <3>2
  <2>2. CASE n > st.overwritten
    <3>1. n \in stale
      BY <1>2, <1>7, <2>2
    <3> QED
      BY <1>6, <1>8, <3>1
  <2> QED
    BY <1>2, <2>1, <2>2
<1> QED
  BY <1>1, <1>6, <1>8, <1>9

\* What a subscription to a topic does to the store.
LEMMA OpenStore ==
  ASSUME BusInv, NEW topic \in Topics, NEW fresh \in BOOLEAN,
         fresh => topic \notin Range(log)
  PROVE  LET st == Trim(Pin(store, topic, fresh)) IN
         /\ Sane(st, Len(log)) /\ Small(st) /\ st.overwritten = store.overwritten
         /\ \A t \in Traces : st.trace[t].pins = IF t = topic THEN store.trace[t].pins + 1
                                                 ELSE store.trace[t].pins
<1> DEFINE k == Len(log)
           st1 == Pin(store, topic, fresh)
           st2 == Trim(st1)
<1>1. k \in Nat /\ Sane(store, k) /\ log \in Seq(Traces) /\ store.overwritten \in 0 .. k
  BY DEF BusInv, Plain, Sane, Store
<1>2. /\ Sane(st1, k) /\ st1.overwritten = store.overwritten
      /\ \A t \in Traces : st1.trace[t].pins = IF t = topic THEN store.trace[t].pins + 1
                                               ELSE store.trace[t].pins
  <2>1. CASE topic \notin Traces
    <3>1. st1 = store
      BY <2>1 DEF Pin
    <3> QED
      BY <1>1, <2>1, <3>1
  <2>2. CASE topic \in Traces
    <3>1. fresh => Gone(store, topic) = {}
      BY <1>1 DEF Gone, Range
    <3> HIDE DEF k
    <3> QED
      BY <1>1, <2>2, <3>1, PinKeeps
  <2> QED
    BY <2>1, <2>2
<1> HIDE DEF st1, k
<1>3. /\ Sane(st2, k) /\ SamePins(st1, st2) /\ Small(st2) /\ st2.overwritten = st1.overwritten
  BY <1>1, <1>2, TrimKeeps DEF Small
<1> HIDE DEF st2
<1>4. \A t \in Traces : st2.trace[t].pins = IF t = topic THEN store.trace[t].pins + 1
                                            ELSE store.trace[t].pins
  BY <1>2, <1>3 DEF SamePins
<1> QED
  BY <1>2, <1>3, <1>4 DEF st1, st2, k

\* How far the topic's events are gone, for a reader that resumes at since.
LostTo(topic, since) ==
  Max({since} \cup {n \in 1 .. Max({store.overwritten, expired}) : log[n] \in Of(topic)})

LEMMA LostFacts ==
  ASSUME log \in Seq(Traces), store.overwritten \in 0 .. Len(log), expired \in 0 .. Len(log),
         NEW topic, NEW since \in 0 .. Len(log)
  PROVE  /\ LostTo(topic, since) \in 0 .. Len(log) /\ since <= LostTo(topic, since)
         /\ LostTo(topic, since) # since =>
              /\ LostTo(topic, since) \in 1 .. Len(log) /\ log[LostTo(topic, since)] \in Of(topic)
              /\ LostTo(topic, since) <= store.overwritten \/ LostTo(topic, since) <= expired
         /\ \A n \in 1 .. Len(log) : log[n] \in Of(topic) =>
              (n > LostTo(topic, since) <=> n > since /\ n > store.overwritten /\ n > expired)
<1> DEFINE m == Max({store.overwritten, expired})
           gone == {n \in 1 .. m : log[n] \in Of(topic)}
           S == {since} \cup gone
           p == LostTo(topic, since)
<1>1. p = Max(S)
  BY DEF LostTo
<1>2. /\ m \in 0 .. Len(log) /\ Len(log) \in Nat
      /\ \A n \in Nat : n <= m <=> n <= store.overwritten \/ n <= expired
  BY MaxOfTwo
<1> HIDE DEF m, p
<1>3. S \subseteq 0 .. Len(log) /\ since \in S /\ gone \subseteq S
  BY <1>2
<1>4. \A n : n \in gone <=> n \in 1 .. Len(log) /\ n <= m /\ log[n] \in Of(topic)
  BY <1>2
<1>5. \A n \in S : n = since \/ n \in gone
  OBVIOUS
<1> HIDE DEF S, gone
<1>6. p \in S /\ \A x \in S : x <= p
  <2>1. S \subseteq Nat /\ S # {} /\ \A x \in S : x <= Len(log)
    BY <1>2, <1>3
  <2> QED
    BY <1>1, <1>2, <2>1, MaxOf
<1>7. p \in 0 .. Len(log) /\ since <= p
  BY <1>3, <1>6
<1>8. p # since => p \in 1 .. Len(log) /\ p <= m /\ log[p] \in Of(topic)
  BY <1>4, <1>5, <1>6
<1>9. p # since => p <= store.overwritten \/ p <= expired
  BY <1>2, <1>7, <1>8
<1>10. ASSUME NEW n \in 1 .. Len(log), log[n] \in Of(topic)
       PROVE  n > p <=> n > since /\ n > store.overwritten /\ n > expired
  <2>1. CASE n > p
    <3>1. n \notin gone /\ n > since
      BY <1>3, <1>6, <1>7, <2>1
    <3>2. ~(n <= m)
      BY <1>4, <1>10, <3>1
    <3> QED
      BY <1>2, <2>1, <3>1, <3>2
  <2>2. CASE ~(n > p)
    <3>1. CASE p = since
      BY <1>7, <2>2, <3>1
    <3>2. CASE p # since
      <4>1. p <= store.overwritten \/ p <= expired
        BY <1>9, <3>2
      <4> QED
        BY <1>7, <2>2, <4>1
    <3> QED
      BY <3>1, <3>2
  <2> QED
    BY <2>1, <2>2
<1> QED
  BY <1>7, <1>8, <1>9, <1>10 DEF p

\* The subscription that Open makes, and what it leaves alone.
LEMMA OpenSubs ==
  ASSUME BusInv, NEW s \in Subs, s \notin Registered, NEW topic \in Topics, NEW fresh \in BOOLEAN,
         NEW replay \in BOOLEAN, NEW since \in 0 .. Len(log),
         fresh => topic \notin Range(log), replay => topic # OfBot,
         Open(s, topic, fresh, replay, since)
  PROVE  /\ sub' \in [Subs -> {NoSub} \cup Subscription]
         /\ \A r \in Subs \ {s} : sub'[r] = sub[r]
         /\ sub'[s] \in Subscription /\ sub'[s].topic = topic
         /\ sub'[s].pos \in 0 .. Len(log) /\ sub'[s].after \in 0 .. Len(log)
         /\ Registered' = IF Admitted THEN Registered \cup {s} ELSE Registered
         /\ Admitted =>
              /\ sub'[s].state = "open" /\ sub'[s].end = 0 /\ sub'[s].cap >= 1
              /\ sub'[s].ch = IF replay THEN Retained(topic, since) ELSE <<>>
              /\ sub'[s].pos = IF replay THEN LostTo(topic, since) ELSE Len(log)
              /\ replay => sub'[s].pos = since \/ sub'[s].pos <= sub'[s].after
              /\ ~replay => sub'[s].after = 0
         /\ ~Admitted =>
              /\ sub'[s].state = "rejected" /\ sub'[s].ch = <<>> /\ sub'[s].after = 0
              /\ sub'[s].pos = Len(log) /\ sub'[s].end = Len(log)
<1> DEFINE k == Len(log)
           st == Trim(Pin(store, topic, fresh))
           ev == IF replay THEN Retained(topic, since) ELSE <<>>
           af == IF replay THEN Floor(st, topic) ELSE 0
           ps == IF replay THEN LostTo(topic, since) ELSE k
           cap == BufferSize + Len(ev)
           a == [state |-> "open", topic |-> topic, ch |-> ev, cap |-> cap,
                 after |-> af, pos |-> ps, end |-> 0]
           b == [state |-> "rejected", topic |-> topic, ch |-> <<>>, cap |-> 0,
                 after |-> 0, pos |-> k, end |-> k]
<1>1. /\ k \in Nat /\ log \in Seq(Traces) /\ store.overwritten \in 0 .. k
      /\ expired \in 0 .. k /\ Plain
  <2>1. k \in Nat /\ store.overwritten \in 0 .. k /\ Plain /\ log \in Seq(Traces)
    BY DEF BusInv, Plain, Sane, Store
  <2>2. expired \in {0} \cup store.overwritten + 1 .. k
    BY DEF BusInv
  <2> QED
    BY <2>1, <2>2
<1>2. sub' = [sub EXCEPT ![s] = IF Admitted THEN a ELSE b]
  BY DEF Open, LostTo
<1>3. Sane(st, k) /\ st.overwritten = store.overwritten
  BY OpenStore
<1> HIDE DEF st
<1>4. ev \in Seq(Nat) /\ cap \in Nat /\ cap >= 1
  <2>1. Retained(topic, since) \in Seq(Nat)
    BY <1>1, RetainedFacts
  <2>2. ev \in Seq(Nat)
    BY <2>1
  <2> HIDE DEF ev
  <2> QED
    BY <2>2, BusAssumption
<1>5. af \in 0 .. k /\ ps \in 0 .. k /\ (replay => ps = since \/ ps <= af)
  <2>1. /\ Floor(st, topic) \in 0 .. k
        /\ topic # OfBot =>
              \A n \in 1 .. Len(log) :
                (n <= st.overwritten \/ n <= expired) /\ log[n] \in Of(topic)
                  => n <= Floor(st, topic)
    BY <1>1, <1>3, FloorFacts
  <2>2. /\ LostTo(topic, since) \in 0 .. k
        /\ LostTo(topic, since) # since =>
              /\ LostTo(topic, since) \in 1 .. Len(log) /\ log[LostTo(topic, since)] \in Of(topic)
              /\ LostTo(topic, since) <= store.overwritten \/ LostTo(topic, since) <= expired
    BY <1>1, LostFacts
  <2> QED
    BY <1>1, <1>3, <2>1, <2>2
<1> HIDE DEF ev, af, ps, cap
<1>6. /\ a \in Subscription /\ a.topic = topic /\ a.pos = ps /\ a.after = af
      /\ a.state = "open" /\ a.end = 0 /\ a.ch = ev /\ a.cap = cap
  BY <1>1, <1>4, <1>5 DEF Subscription
<1>7. /\ b \in Subscription /\ b.topic = topic /\ b.pos = k /\ b.after = 0
      /\ b.state = "rejected" /\ b.end = k /\ b.ch = <<>>
  BY <1>1 DEF Subscription
<1> HIDE DEF a, b
<1>8. /\ sub \in [Subs -> {NoSub} \cup Subscription]
      /\ sub'[s] = IF Admitted THEN a ELSE b
      /\ \A r \in Subs \ {s} : sub'[r] = sub[r]
  BY <1>1, <1>2 DEF Plain
<1>9. sub' \in [Subs -> {NoSub} \cup Subscription]
  BY <1>2, <1>6, <1>7, <1>8
<1>10. Registered' = IF Admitted THEN Registered \cup {s} ELSE Registered
  <2> QED
    BY <1>6, <1>7, <1>8 DEF Registered
<1>11. CASE Admitted
  BY <1>1, <1>4, <1>5, <1>6, <1>8, <1>9, <1>10, <1>11 DEF ev, ps, af
<1>12. CASE ~Admitted
  BY <1>1, <1>7, <1>8, <1>9, <1>10, <1>12
<1> QED
  BY <1>11, <1>12

LEMMA OpenStep ==
  ASSUME BusInv, NEW s \in Subs, s \notin Registered, NEW topic \in Topics, NEW fresh \in BOOLEAN,
         NEW replay \in BOOLEAN, NEW since \in 0 .. Len(log),
         fresh => topic \notin Range(log), replay => topic # OfBot,
         Open(s, topic, fresh, replay, since)
  PROVE  BusInv'
<1> DEFINE st == Trim(Pin(store, topic, fresh))
<1>1. /\ Plain /\ log \in Seq(Traces) /\ Len(log) \in Nat
      /\ Sane(store, Len(log)) /\ Counted(store, Registered) /\ Small(store)
      /\ expired \in {0} \cup store.overwritten + 1 .. Len(log)
  BY DEF BusInv, Plain
<1>2. /\ log' = log /\ expired' = expired /\ closed' = closed
      /\ store' = IF Admitted THEN st ELSE store
  BY DEF Open
<1>3. /\ sub' \in [Subs -> {NoSub} \cup Subscription] /\ sub'[s].topic = topic
      /\ \A r \in Subs \ {s} : sub'[r] = sub[r]
      /\ Registered' = IF Admitted THEN Registered \cup {s} ELSE Registered
  BY OpenSubs
<1>4. /\ Sane(st, Len(log)) /\ Small(st) /\ st.overwritten = store.overwritten
      /\ \A t \in Traces : st.trace[t].pins = IF t = topic THEN store.trace[t].pins + 1
                                              ELSE store.trace[t].pins
  BY OpenStore
<1> HIDE DEF st
<1>5. store.overwritten \in 0 .. Len(log)
  BY <1>1 DEF Sane, Store
<1>6. s \notin Registered /\ Registered \subseteq Subs
  BY DEF Registered
<1>7. /\ Sane(store', Len(log)) /\ store'.overwritten = store.overwritten /\ Small(store')
  BY <1>1, <1>2, <1>4
<1>8. Sane(store, Len(log))' /\ Small(store)'
  <2>1. Len(log') = Len(log) /\ store'.overwritten \in 0 .. Len(log)
    BY <1>2, <1>5, <1>7
  <2>2. \A n \in 1 .. Len(log) : log'[n] = log[n]
    BY <1>2
  <2> QED
    BY <1>1, <1>7, <2>1, <2>2, CarriedOver DEF Small
<1>9. Plain'
  <2>1. IsFiniteSet(Registered') /\ Cardinality(Registered') <= MaxSubscriptions
    <3>1. CASE Admitted
      <4>1. IsFiniteSet(Registered) /\ Cardinality(Registered) < MaxSubscriptions
        BY <1>1, <3>1 DEF Plain, Admitted
      <4>2. /\ IsFiniteSet(Registered \cup {s})
            /\ Cardinality(Registered \cup {s}) = Cardinality(Registered) + 1
        BY <1>6, <4>1, FS_AddElement
      <4>3. Cardinality(Registered) \in Nat /\ MaxSubscriptions \in Nat
        BY <4>1, FS_CardinalityType, BusAssumption
      <4>4. Registered' = Registered \cup {s}
        BY <1>3, <3>1
      <4>5. Cardinality(Registered) + 1 <= MaxSubscriptions
        BY <4>1, <4>3
      <4> QED
        BY <4>2, <4>4, <4>5
    <3>2. CASE ~Admitted
      BY <1>1, <1>3, <3>2 DEF Plain
    <3> QED
      BY <3>1, <3>2
  <2> QED
    BY <1>1, <1>2, <1>3, <2>1 DEF Plain
<1>10. Counted(store, Registered)'
  <2>1. CASE ~Admitted
    <3>1. Registered' = Registered /\ store' = store
      BY <1>2, <1>3, <2>1
    <3>2. \A r \in Registered : sub'[r].topic = sub[r].topic
      BY <1>3, <1>6
    <3> QED
      BY <1>1, <3>1, <3>2, CountedNext
  <2>2. CASE Admitted
    <3>1. Registered' = Registered \cup {s} /\ store' = st
      BY <1>2, <1>3, <2>2
    <3> SUFFICES ASSUME NEW t \in Traces
                 PROVE  store'.trace[t].pins = Cardinality(To(Registered, t)')
      BY DEF Counted
    <3>2. To(Registered, t)' = IF t = topic THEN To(Registered, t) \cup {s}
                               ELSE To(Registered, t)
      BY <1>3, <1>6, <3>1 DEF To
    <3>3. store.trace[t].pins = Cardinality(To(Registered, t))
      BY <1>1 DEF Counted
    <3>4. CASE t # topic
      BY <1>4, <3>1, <3>2, <3>3, <3>4
    <3>5. CASE t = topic
      <4>1. To(Registered, t) \subseteq Registered /\ s \notin To(Registered, t)
        BY <1>6 DEF To
      <4>2. IsFiniteSet(To(Registered, t))
        BY <1>1, <4>1, FS_Subset DEF Plain
      <4>3. Cardinality(To(Registered, t) \cup {s}) = Cardinality(To(Registered, t)) + 1
        BY <4>1, <4>2, FS_AddElement
      <4> QED
        BY <1>4, <3>1, <3>2, <3>3, <3>5, <4>3
    <3> QED
      BY <3>4, <3>5
  <2> QED
    BY <2>1, <2>2
<1>11. expired' \in {0} \cup store'.overwritten + 1 .. Len(log')
  BY <1>1, <1>2, <1>7
<1> QED
  BY <1>8, <1>9, <1>10, <1>11 DEF BusInv

\* The store is left alone, and so are the subscriptions' topics.
LEMMA StoreUntouched ==
  ASSUME BusInv, UNCHANGED <<log, store, closed>>, Registered' = Registered,
         sub' \in [Subs -> {NoSub} \cup Subscription],
         \A s \in Registered : sub'[s].topic = sub[s].topic,
         expired' \in {0} \cup store.overwritten + 1 .. Len(log)
  PROVE  BusInv'
<1>1. /\ Plain /\ log \in Seq(Traces) /\ Len(log) \in Nat /\ Sane(store, Len(log))
      /\ Counted(store, Registered) /\ Small(store) /\ store.overwritten \in 0 .. Len(log)
  BY DEF BusInv, Plain, Sane, Store
<1>2. Sane(store, Len(log))'
  <2>1. /\ Sane(store', Len(log)) /\ store'.overwritten \in 0 .. Len(log)
        /\ Len(log') = Len(log) /\ \A n \in 1 .. Len(log) : log'[n] = log[n]
    BY <1>1
  <2> QED
    BY <1>1, <2>1, CarriedOver
<1>3. Counted(store, Registered)'
  <2>1. Counted(store', Registered)
    BY <1>1
  <2> QED
    BY <2>1, CountedNext
<1>4. Plain'
  BY <1>1 DEF Plain
<1>5. Small(store)'
  BY <1>1 DEF Small
<1> QED
  BY <1>2, <1>3, <1>4, <1>5 DEF BusInv

LEMMA ReceiveStep ==
  ASSUME BusInv, NEW s \in Subs, Receive(s)
  PROVE  /\ BusInv' /\ Registered' = Registered
         /\ \A r \in Subs \ {s} : sub'[r] = sub[r]
         /\ sub[s] \in Subscription /\ sub[s].ch # <<>> /\ sub'[s] \in Subscription
         /\ sub'[s].ch = Tail(sub[s].ch) /\ sub'[s].pos = Head(sub[s].ch)
         /\ sub'[s].state = sub[s].state /\ sub'[s].topic = sub[s].topic
         /\ sub'[s].end = sub[s].end /\ sub'[s].after = sub[s].after
         /\ sub'[s].cap = sub[s].cap
<1> DEFINE q == Tail(sub[s].ch)
           h == Head(sub[s].ch)
           r0 == sub[s]
           r1 == [[r0 EXCEPT !.ch = q] EXCEPT !.pos = h]
<1>1. Plain /\ UNCHANGED <<log, expired, store, closed>> /\ sub[s].ch # <<>>
  BY DEF BusInv, Receive
<1>2. r0 \in Subscription /\ sub \in [Subs -> {NoSub} \cup Subscription]
  BY <1>1, OpenOnes DEF Receive, Plain
<1>3. q \in Seq(Nat) /\ h \in Nat
  <2>1. sub[s].ch \in Seq(Nat)
    BY <1>2 DEF Subscription
  <2> QED
    BY <1>1, <2>1
<1>4. sub' = [sub EXCEPT ![s].ch = q, ![s].pos = h]
  BY DEF Receive
<1> HIDE DEF q, h
<1>5. sub'[s] = r1 /\ \A r \in Subs \ {s} : sub'[r] = sub[r]
  BY <1>2, <1>4
<1> HIDE DEF r0
<1>6. /\ r1 \in Subscription /\ r1.ch = q /\ r1.pos = h /\ r1.state = r0.state
      /\ r1.topic = r0.topic /\ r1.end = r0.end /\ r1.after = r0.after /\ r1.cap = r0.cap
  BY <1>2, <1>3 DEF Subscription
<1> HIDE DEF r1
<1>7. DOMAIN sub' = Subs /\ sub' = [x \in Subs |-> sub'[x]]
  BY <1>2, <1>4
<1>8. sub' \in [Subs -> {NoSub} \cup Subscription]
  <2>1. \A x \in Subs : sub'[x] \in {NoSub} \cup Subscription
    BY <1>2, <1>5, <1>6
  <2> QED
    BY <1>7, <2>1
<1>9. Registered' = Registered
  <2>1. \A x \in Subs : sub'[x].state = sub[x].state
    BY <1>5, <1>6 DEF r0
  <2> QED
    BY <2>1 DEF Registered
<1>10. \A x \in Registered : sub'[x].topic = sub[x].topic
  BY <1>5, <1>6 DEF r0, Registered
<1>11. expired' \in {0} \cup store.overwritten + 1 .. Len(log)
  BY <1>1 DEF BusInv
<1>12. BusInv'
  BY <1>1, <1>8, <1>9, <1>10, <1>11, StoreUntouched
<1> QED
  BY <1>1, <1>2, <1>5, <1>6, <1>9, <1>12 DEF q, h, r0

LEMMA ExpireStep ==
  ASSUME BusInv, Expire
  PROVE  BusInv'
<1>1. /\ UNCHANGED <<log, store, sub, closed>> /\ sub \in [Subs -> {NoSub} \cup Subscription]
      /\ expired' \in {0} \cup store.overwritten + 1 .. Len(log)
  BY DEF BusInv, Plain, Expire
<1>2. Registered' = Registered
  BY <1>1 DEF Registered
<1> QED
  BY <1>1, <1>2, StoreUntouched

\* Subscriptions end and release their traces.
LEMMA ReleaseStep ==
  ASSUME BusInv, NEW gone, gone \subseteq Registered, Release(store, gone),
         UNCHANGED <<log, expired>>, closed' \in BOOLEAN, Registered' = Registered \ gone,
         sub' \in [Subs -> {NoSub} \cup Subscription],
         \A s \in Registered \ gone : sub'[s].topic = sub[s].topic
  PROVE  BusInv'
<1>1. /\ Plain /\ log \in Seq(Traces) /\ Len(log) \in Nat /\ Sane(store, Len(log))
      /\ Counted(store, Registered) /\ store.overwritten \in 0 .. Len(log)
      /\ expired \in {0} \cup store.overwritten + 1 .. Len(log) /\ IsFiniteSet(Registered)
  BY DEF BusInv, Plain, Sane, Store
<1>2. store' = Trim(Unpin(store, gone))
  BY DEF Release
<1>3. /\ Sane(store', Len(log)) /\ Counted(store', Registered \ gone) /\ Small(store')
      /\ store'.overwritten = store.overwritten
  BY <1>1, <1>2, ReleaseKeeps
<1>4. Sane(store, Len(log))' /\ Small(store)'
  <2>1. /\ store'.overwritten \in 0 .. Len(log)
        /\ Len(log') = Len(log) /\ \A n \in 1 .. Len(log) : log'[n] = log[n]
    BY <1>1, <1>3
  <2> QED
    BY <1>1, <1>3, <2>1, CarriedOver DEF Small
<1>5. Counted(store, Registered)'
  BY <1>3, CountedNext
<1>6. IsFiniteSet(Registered') /\ Cardinality(Registered') <= MaxSubscriptions
  BY <1>1, FewerOpen
<1>7. Plain'
  BY <1>1, <1>6 DEF Plain
<1>8. expired' \in {0} \cup store'.overwritten + 1 .. Len(log')
  BY <1>1, <1>3
<1> QED
  BY <1>4, <1>5, <1>7, <1>8 DEF BusInv

LEMMA UnsubscribeStep ==
  ASSUME BusInv, NEW s \in Subs, Unsubscribe(s)
  PROVE  /\ BusInv' /\ Registered' = Registered \ {s} /\ sub'[s] = NoSub
         /\ \A r \in Subs \ {s} : sub'[r] = sub[r]
<1>1. /\ sub \in [Subs -> {NoSub} \cup Subscription] /\ sub' = [sub EXCEPT ![s] = NoSub]
      /\ Release(store, Registered \cap {s}) /\ UNCHANGED <<log, expired, closed>>
      /\ closed \in BOOLEAN
  BY DEF BusInv, Plain, Unsubscribe
<1>2. sub'[s] = NoSub /\ \A r \in Subs \ {s} : sub'[r] = sub[r]
  BY <1>1
<1>3. Registered' = Registered \ {s}
  BY <1>2 DEF Registered, NoSub
<1>4. Registered \ {s} = Registered \ (Registered \cap {s})
  OBVIOUS
<1>5. sub' \in [Subs -> {NoSub} \cup Subscription]
  BY <1>1
<1>6. \A r \in Registered \ (Registered \cap {s}) : sub'[r].topic = sub[r].topic
  BY <1>2 DEF Registered
<1>7. BusInv'
  <2> DEFINE g == Registered \cap {s}
  <2>1. /\ g \subseteq Registered /\ Release(store, g) /\ Registered' = Registered \ g
        /\ \A r \in Registered \ g : sub'[r].topic = sub[r].topic
    BY <1>1, <1>3, <1>4, <1>6
  <2> HIDE DEF g
  <2> QED
    BY <1>1, <1>5, <2>1, ReleaseStep
<1> QED
  BY <1>2, <1>3, <1>7

LEMMA CloseStep ==
  ASSUME BusInv, Close
  PROVE  /\ BusInv' /\ Registered' = {}
         /\ \A s \in Subs \ Registered : sub'[s] = sub[s]
         /\ \A s \in Registered :
              /\ sub'[s] \in Subscription /\ sub'[s].state = "closed" /\ sub'[s].end = Len(log)
              /\ sub'[s].topic = sub[s].topic /\ sub'[s].ch = sub[s].ch
              /\ sub'[s].pos = sub[s].pos /\ sub'[s].after = sub[s].after
<1>1. /\ sub \in [Subs -> {NoSub} \cup Subscription] /\ Plain /\ Len(log) \in Nat
      /\ sub' = [s \in Subs |-> IF s \in Registered THEN Cut(s, "closed") ELSE sub[s]]
      /\ Release(store, Registered) /\ UNCHANGED <<log, expired>> /\ closed' \in BOOLEAN
  BY DEF BusInv, Plain, Close
<1>2. \A s \in Registered : s \in Subs /\ sub[s] \in Subscription
  BY <1>1, OpenOnes
<1>3. \A s \in Subs \ Registered : sub'[s] = sub[s]
  BY <1>1
<1>4. ASSUME NEW s \in Registered
      PROVE  /\ sub'[s] \in Subscription /\ sub'[s].state = "closed" /\ sub'[s].end = Len(log)
             /\ sub'[s].topic = sub[s].topic /\ sub'[s].ch = sub[s].ch
             /\ sub'[s].pos = sub[s].pos /\ sub'[s].after = sub[s].after
  <2> DEFINE r == sub[s]
             m == Len(log)
  <2>1. r \in Subscription /\ m \in Nat /\ sub'[s] = CutAt(r, "closed", m)
    BY <1>1, <1>2 DEF Cut, CutAt
  <2> HIDE DEF r, m
  <2>2. /\ CutAt(r, "closed", m) \in Subscription
        /\ CutAt(r, "closed", m).state = "closed" /\ CutAt(r, "closed", m).end = m
        /\ CutAt(r, "closed", m).topic = r.topic /\ CutAt(r, "closed", m).ch = r.ch
        /\ CutAt(r, "closed", m).pos = r.pos /\ CutAt(r, "closed", m).after = r.after
    BY <2>1, CutFields
  <2> QED
    BY <2>1, <2>2 DEF r, m
<1>5. sub' \in [Subs -> {NoSub} \cup Subscription]
  <2>1. \A x \in Subs : sub'[x] \in {NoSub} \cup Subscription
    BY <1>1, <1>3, <1>4
  <2>2. DOMAIN sub' = Subs /\ sub' = [x \in Subs |-> sub'[x]]
    BY <1>1
  <2> QED
    BY <2>1, <2>2
<1>6. Registered' = {} /\ Registered \ Registered = {}
  <2>1. \A x \in Subs : sub'[x].state # "open"
    <3> SUFFICES ASSUME NEW x \in Subs PROVE sub'[x].state # "open"
      OBVIOUS
    <3>1. CASE x \in Registered
      BY <1>4, <3>1
    <3>2. CASE x \notin Registered
      BY <1>3, <3>2 DEF Registered
    <3> QED
      BY <3>1, <3>2
  <2> QED
    BY <2>1 DEF Registered
<1>7. BusInv'
  <2> DEFINE g == Registered
  <2>1. /\ g \subseteq Registered /\ Release(store, g) /\ Registered' = Registered \ g
        /\ \A r \in Registered \ g : sub'[r].topic = sub[r].topic
    BY <1>1, <1>6
  <2> HIDE DEF g
  <2> QED
    BY <1>1, <1>5, <2>1, ReleaseStep
<1> QED
  BY <1>3, <1>4, <1>6, <1>7

LEMMA SubscribeStep ==
  ASSUME BusInv, NEW s \in Subs,
         Subscribe(s) \/ SubscribeNewTrace(s) \/ SubscribeWithReplay(s)
  PROVE  \E topic \in Topics, fresh, replay \in BOOLEAN, since \in 0 .. Len(log) :
           /\ fresh => topic \notin Range(log)
           /\ replay => topic # OfBot
           /\ Free(s) /\ Open(s, topic, fresh, replay, since)
<1>1. 0 \in 0 .. Len(log) /\ TRUE \in BOOLEAN /\ FALSE \in BOOLEAN
  BY DEF BusInv, Plain
<1>2. CASE Subscribe(s)
  BY <1>1, <1>2 DEF Subscribe
<1>3. CASE SubscribeNewTrace(s)
  BY <1>1, <1>3 DEF SubscribeNewTrace
<1>4. CASE SubscribeWithReplay(s)
  BY <1>1, <1>4 DEF SubscribeWithReplay
<1> QED
  BY <1>2, <1>3, <1>4

LEMMA BusNext == BusInv /\ [Next]_vars => BusInv'
<1> SUFFICES ASSUME BusInv, [Next]_vars PROVE BusInv'
  OBVIOUS
<1>1. ASSUME NEW t \in Traces, NEW begins \in BOOLEAN, Publish(t, begins) PROVE BusInv'
  BY <1>1, PublishStep
<1>2. ASSUME NEW s \in Subs, Subscribe(s) \/ SubscribeNewTrace(s) \/ SubscribeWithReplay(s)
      PROVE  BusInv'
  <2>1. PICK topic \in Topics, fresh \in BOOLEAN, replay \in BOOLEAN, since \in 0 .. Len(log) :
          /\ fresh => topic \notin Range(log)
          /\ replay => topic # OfBot
          /\ Free(s) /\ Open(s, topic, fresh, replay, since)
    BY <1>2, SubscribeStep
  <2> QED
    BY <2>1, OpenStep DEF Free, Registered
<1>3. ASSUME NEW s \in Subs, Receive(s) PROVE BusInv'
  BY <1>3, ReceiveStep
<1>4. ASSUME NEW s \in Subs, Unsubscribe(s) PROVE BusInv'
  BY <1>4, UnsubscribeStep
<1>5. CASE Close
  BY <1>5, CloseStep
<1>6. CASE Expire
  BY <1>6, ExpireStep
<1>7. CASE UNCHANGED vars
  <2>1. /\ UNCHANGED <<log, store, closed>> /\ expired' = expired /\ sub' = sub
    BY <1>7 DEF vars
  <2>2. /\ expired' \in {0} \cup store.overwritten + 1 .. Len(log)
        /\ sub' \in [Subs -> {NoSub} \cup Subscription]
    BY <2>1 DEF BusInv, Plain
  <2>3. Registered' = Registered
    BY <2>1 DEF Registered
  <2> QED
    BY <2>1, <2>2, <2>3, StoreUntouched
<1> QED
  BY <1>1, <1>2, <1>3, <1>4, <1>5, <1>6, <1>7 DEF Next

LEMMA BusAlways == Spec => []BusInv
  BY BusInit, BusNext, PTL DEF Spec

\* StoreInv: the types; what the store records of a trace counts the
\* subscriptions to it, and a pinned trace keeps its record; and no floor, of
\* a trace remembered or forgotten, lies below an event that was overwritten.
THEOREM FloorsNeverPromise == Spec => []StoreInv
  BY BusAlways, BusInvIsStoreInv, PTL

-----------------------------------------------------------------------------
(***************************************************************************)
(* The channels: what is in one is what its reader is still due.           *)
(***************************************************************************)
Limit(s) == IF sub[s].state = "open" THEN Len(log) ELSE sub[s].end
Due(s) == {n \in 1 .. Limit(s) : n > sub[s].pos /\ log[n] \in Of(sub[s].topic)}
InOrder(q) == \A i, j \in 1 .. Len(q) : i < j => q[i] < q[j]

StreamFits(s) ==
  ~Free(s) => /\ sub[s].pos \in 0 .. Len(log) /\ sub[s].end \in 0 .. Len(log)
              /\ sub[s].after \in 0 .. Len(log)
              /\ InOrder(sub[s].ch) /\ Range(sub[s].ch) = Due(s)

Streams == \A s \in Subs : StreamFits(s)

LEMMA HeadAndTail ==
  ASSUME NEW q \in Seq(Nat), q # <<>>, InOrder(q)
  PROVE  /\ Head(q) \in Nat /\ Head(q) \in Range(q) /\ InOrder(Tail(q))
         /\ \A n : n \in Range(Tail(q)) <=> n \in Range(q) /\ n > Head(q)
         /\ \A n \in Range(q) : n \in Nat /\ n >= Head(q)
<1> DEFINE h == Head(q)
           t == Tail(q)
           k == Len(q)
<1>1. /\ k \in Nat \ {0} /\ DOMAIN q = 1 .. k /\ \A i \in 1 .. k : q[i] \in Nat
      /\ h = q[1] /\ t \in Seq(Nat) /\ Len(t) = k - 1 /\ DOMAIN t = 1 .. k - 1
      /\ \A i \in 1 .. k - 1 : t[i] = q[i + 1]
  OBVIOUS
<1> HIDE DEF h, t, k
<1>2. \A i \in 1 .. k - 1 : i + 1 \in 1 .. k
  BY <1>1
<1>3. 1 \in 1 .. k /\ h \in Nat /\ h \in Range(q)
  BY <1>1 DEF Range
<1>4. \A i \in 1 .. k : i # 1 => i - 1 \in 1 .. k - 1 /\ q[i] = t[i - 1]
  BY <1>1
<1>5. \A i \in 1 .. k : i # 1 => q[i] > h
  BY <1>1, <1>3 DEF InOrder, k
<1>6. InOrder(t)
  <2> SUFFICES ASSUME NEW i \in 1 .. k - 1, NEW j \in 1 .. k - 1, i < j PROVE t[i] < t[j]
    BY <1>1 DEF InOrder
  <2>1. i + 1 \in 1 .. k /\ j + 1 \in 1 .. k /\ i + 1 < j + 1
    BY <1>1
  <2> QED
    BY <1>1, <2>1 DEF InOrder, k
<1>7. \A n : n \in Range(t) <=> n \in Range(q) /\ n > h
  <2>1. ASSUME NEW n \in Range(t) PROVE n \in Range(q) /\ n > h
    <3>1. PICK i \in 1 .. k - 1 : t[i] = n
      BY <1>1, <2>1 DEF Range
    <3>2. i + 1 \in 1 .. k /\ q[i + 1] = n /\ i + 1 # 1
      BY <1>1, <3>1
    <3> QED
      BY <1>1, <1>5, <3>2 DEF Range
  <2>2. ASSUME NEW n \in Range(q), n > h PROVE n \in Range(t)
    <3>1. PICK i \in 1 .. k : q[i] = n
      BY <1>1, <2>2 DEF Range
    <3>2. i # 1
      BY <1>1, <1>3, <2>2, <3>1
    <3> QED
      BY <1>1, <1>4, <3>1, <3>2 DEF Range
  <2> QED
    BY <2>1, <2>2
<1>8. \A n \in Range(q) : n \in Nat /\ n >= h
  <2> SUFFICES ASSUME NEW n \in Range(q) PROVE n \in Nat /\ n >= h
    OBVIOUS
  <2>1. PICK i \in 1 .. k : q[i] = n
    BY <1>1 DEF Range
  <2>2. CASE i = 1
    BY <1>1, <1>3, <2>1, <2>2
  <2>3. CASE i # 1
    BY <1>1, <1>3, <1>5, <2>1, <2>3
  <2> QED
    BY <2>2, <2>3
<1> QED
  BY <1>3, <1>6, <1>7, <1>8 DEF h, t

LEMMA OneMoreInOrder ==
  ASSUME NEW q \in Seq(Nat), InOrder(q), NEW m \in Nat, \A n \in Range(q) : n < m
  PROVE  InOrder(Append(q, m))
<1> DEFINE a == Append(q, m)
           k == Len(q)
<1>1. /\ k \in Nat /\ DOMAIN q = 1 .. k /\ Len(a) = k + 1 /\ a[k + 1] = m
      /\ \A i \in 1 .. k : a[i] = q[i]
  OBVIOUS
<1> HIDE DEF a, k
<1> SUFFICES ASSUME NEW i \in 1 .. k + 1, NEW j \in 1 .. k + 1, i < j PROVE a[i] < a[j]
  BY <1>1 DEF InOrder, a
<1>2. i \in 1 .. k /\ (j \in 1 .. k \/ j = k + 1)
  BY <1>1
<1>3. CASE j \in 1 .. k
  BY <1>1, <1>2, <1>3 DEF InOrder, k
<1>4. CASE j = k + 1
  <2>1. q[i] \in Range(q)
    BY <1>1, <1>2 DEF Range
  <2> QED
    BY <1>1, <1>2, <1>4, <2>1
<1> QED
  BY <1>2, <1>3, <1>4

\* A subscription that no step touches stays what it was.
LEMMA SameStream ==
  ASSUME log' = log, NEW s \in Subs, sub'[s] = sub[s], StreamFits(s)
  PROVE  StreamFits(s)'
<1>1. Limit(s)' = Limit(s)
  BY DEF Limit
<1>2. Due(s)' = Due(s)
  BY <1>1 DEF Due
<1> QED
  BY <1>2 DEF StreamFits, Free

LEMMA PublishStreams ==
  ASSUME BusInv, Streams, NEW t \in Traces, NEW begins \in BOOLEAN, Publish(t, begins)
  PROVE  Streams'
<1> SUFFICES ASSUME NEW s \in Subs PROVE StreamFits(s)'
  BY DEF Streams
<1> DEFINE k == Len(log)
           topic == sub[s].topic
<1>1. Plain /\ log \in Seq(Traces) /\ k \in Nat /\ StreamFits(s)
  BY DEF BusInv, Plain, Streams
<1>2. /\ Len(log') = k + 1 /\ log'[k + 1] = t /\ \A n \in 1 .. k : log'[n] = log[n]
  BY <1>1 DEF Publish
<1>3. /\ Overrun(t) \subseteq For(t) /\ For(t) \subseteq Registered
      /\ \A r \in Subs \ For(t) : sub'[r] = sub[r]
      /\ \A r \in For(t) :
           /\ sub'[r] \in Subscription /\ sub'[r].topic = sub[r].topic
           /\ sub'[r].pos = sub[r].pos /\ sub'[r].after = sub[r].after
      /\ \A r \in Overrun(t) :
           /\ sub'[r].state = "overflowed" /\ sub'[r].end = Len(log)
           /\ sub'[r].ch = sub[r].ch
      /\ \A r \in For(t) \ Overrun(t) :
           /\ sub'[r].state = "open" /\ sub'[r].end = sub[r].end
           /\ sub'[r].ch = Append(sub[r].ch, Len(log) + 1)
  BY <1>1, PublishSubs
<1>4. CASE s \notin For(t)
  <2>1. sub'[s] = sub[s]
    BY <1>3, <1>4
  <2>2. CASE Free(s)
    BY <2>1, <2>2 DEF StreamFits, Free
  <2>3. CASE ~Free(s)
    <3>1. /\ sub[s].pos \in 0 .. k /\ sub[s].end \in 0 .. k /\ sub[s].after \in 0 .. k
          /\ InOrder(sub[s].ch) /\ Range(sub[s].ch) = Due(s)
      BY <1>1, <2>3 DEF StreamFits
    <3>2. Limit(s) \in 0 .. k
      BY <1>1, <3>1 DEF Limit
    <3>3. Due(s)' = Due(s)
      <4>1. CASE sub[s].state = "open"
        <5>1. t \notin Of(topic)
          BY <1>4, <4>1 DEF For, Registered
        <5>2. Limit(s)' = k + 1 /\ Limit(s) = k
          BY <1>2, <2>1, <4>1 DEF Limit
        <5>3. \A n \in 1 .. k + 1 : n \in 1 .. k \/ n = k + 1
          BY <1>1
        <5>4. 1 .. k \subseteq 1 .. k + 1
          BY <1>1
        <5> HIDE DEF k
        <5>5. Due(s)' = {n \in 1 .. k + 1 : n > sub[s].pos /\ log'[n] \in Of(topic)}
          BY <2>1, <5>2 DEF Due, Of
        <5> QED
          BY <1>2, <5>1, <5>2, <5>3, <5>4, <5>5 DEF Due
      <4>2. CASE sub[s].state # "open"
        <5>1. Limit(s)' = Limit(s)
          BY <2>1, <4>2 DEF Limit
        <5>2. \A n \in 1 .. Limit(s) : log'[n] = log[n]
          BY <1>1, <1>2, <3>2
        <5>3. Due(s)' = {n \in 1 .. Limit(s) : n > sub[s].pos /\ log'[n] \in Of(topic)}
          BY <2>1, <5>1 DEF Due, Of
        <5> QED
          BY <5>2, <5>3 DEF Due
      <4> QED
        BY <4>1, <4>2
    <3>4. 0 .. k \subseteq 0 .. Len(log')
      BY <1>1, <1>2
    <3> QED
      BY <1>1, <2>1, <3>1, <3>3, <3>4 DEF StreamFits, Free, InOrder
  <2> QED
    BY <2>2, <2>3
<1>5. CASE s \in For(t)
  <2>1. /\ sub[s] \in Subscription /\ sub[s].state = "open" /\ ~Free(s) /\ t \in Of(topic)
    BY <1>1, <1>3, <1>5, OpenOnes DEF Free, For
  <2>2. /\ sub[s].pos \in 0 .. k /\ sub[s].end \in 0 .. k /\ sub[s].after \in 0 .. k
        /\ InOrder(sub[s].ch) /\ Range(sub[s].ch) = Due(s) /\ Limit(s) = k
    BY <1>1, <2>1 DEF StreamFits, Limit
  <2>3. Due(s) = {n \in 1 .. k : n > sub[s].pos /\ log[n] \in Of(topic)}
    BY <2>2 DEF Due
  <2>4. 0 .. k \subseteq 0 .. Len(log') /\ k \in 0 .. Len(log')
    BY <1>1, <1>2
  <2>5. CASE s \in Overrun(t)
    <3>1. sub'[s].state # "open" /\ sub'[s].end = k
      BY <1>3, <2>5
    <3>2. Limit(s)' = k
      BY <3>1 DEF Limit
    <3>3. Due(s)' = {n \in 1 .. k : n > sub[s].pos /\ log'[n] \in Of(topic)}
      BY <1>3, <1>5, <3>2 DEF Due, Of
    <3>4. Due(s)' = Due(s)
      BY <1>2, <2>3, <3>3
    <3>5. /\ sub'[s].pos = sub[s].pos /\ sub'[s].after = sub[s].after
          /\ sub'[s].ch = sub[s].ch
      BY <1>3, <1>5, <2>5
    <3> QED
      BY <2>2, <2>4, <3>1, <3>4, <3>5 DEF StreamFits, InOrder
  <2>6. CASE s \notin Overrun(t)
    <3>1. /\ sub'[s].state = "open" /\ sub'[s].end = sub[s].end
          /\ sub'[s].ch = Append(sub[s].ch, k + 1)
          /\ sub'[s].pos = sub[s].pos /\ sub'[s].after = sub[s].after
          /\ sub'[s].topic = topic
      BY <1>3, <1>5, <2>6
    <3>2. sub[s].ch \in Seq(Nat) /\ k + 1 \in Nat
      BY <1>1, <2>1 DEF Subscription
    <3>3. Limit(s)' = k + 1
      BY <1>2, <3>1 DEF Limit
    <3>4. Due(s)' = {n \in 1 .. k + 1 : n > sub[s].pos /\ log'[n] \in Of(topic)}
      BY <3>1, <3>3 DEF Due, Of
    <3>5. Due(s)' = Due(s) \cup {k + 1}
      <4>1. \A n \in 1 .. k + 1 : n \in 1 .. k \/ n = k + 1
        BY <1>1
      <4>2. 1 .. k \subseteq 1 .. k + 1 /\ k + 1 \in 1 .. k + 1 /\ k + 1 > sub[s].pos
        BY <1>1, <2>2
      <4> HIDE DEF k
      <4> QED
        BY <1>2, <2>1, <2>3, <3>4, <4>1, <4>2
    <3>6. Range(sub'[s].ch) = Due(s)'
      BY <2>2, <3>1, <3>2, <3>5, AppendFacts
    <3>7. InOrder(sub'[s].ch)
      <4>1. \A n \in Range(sub[s].ch) : n < k + 1
        BY <1>1, <2>2, <2>3
      <4> QED
        BY <2>2, <3>1, <3>2, <4>1, OneMoreInOrder
    <3>8. InOrder(sub[s].ch)'
      BY <3>7 DEF InOrder
    <3> QED
      BY <2>2, <2>4, <3>1, <3>6, <3>8 DEF StreamFits
  <2> QED
    BY <2>5, <2>6
<1> QED
  BY <1>4, <1>5

LEMMA OpenStreams ==
  ASSUME BusInv, Streams, NEW s \in Subs, s \notin Registered, NEW topic \in Topics, NEW fresh \in BOOLEAN,
         NEW replay \in BOOLEAN, NEW since \in 0 .. Len(log),
         fresh => topic \notin Range(log), replay => topic # OfBot,
         Open(s, topic, fresh, replay, since)
  PROVE  Streams'
<1> DEFINE k == Len(log)
<1>1. /\ log' = log /\ k \in Nat /\ log \in Seq(Traces) /\ store.overwritten \in 0 .. k
      /\ expired \in 0 .. k
  <2>1. /\ log' = log /\ k \in Nat /\ log \in Seq(Traces) /\ store.overwritten \in 0 .. k
    BY DEF Open, BusInv, Plain, Sane, Store
  <2>2. expired \in {0} \cup store.overwritten + 1 .. k
    BY DEF BusInv
  <2> QED
    BY <2>1, <2>2
<1>2. /\ \A r \in Subs \ {s} : sub'[r] = sub[r]
      /\ sub'[s] \in Subscription /\ sub'[s].topic = topic
      /\ sub'[s].pos \in 0 .. k /\ sub'[s].after \in 0 .. k
      /\ Admitted =>
              /\ sub'[s].state = "open" /\ sub'[s].end = 0
              /\ sub'[s].ch = IF replay THEN Retained(topic, since) ELSE <<>>
              /\ sub'[s].pos = IF replay THEN LostTo(topic, since) ELSE Len(log)
      /\ ~Admitted =>
              /\ sub'[s].state = "rejected" /\ sub'[s].ch = <<>> /\ sub'[s].after = 0
              /\ sub'[s].pos = Len(log) /\ sub'[s].end = Len(log)
  BY OpenSubs
<1>3. InOrder(<<>>) /\ Range(<<>>) = {} /\ 0 \in 0 .. k /\ k \in 0 .. k
  BY <1>1 DEF InOrder, Range
<1>4. Limit(s)' = k
  <2>1. CASE Admitted
    BY <1>1, <1>2, <2>1 DEF Limit
  <2>2. CASE ~Admitted
    BY <1>1, <1>2, <2>2 DEF Limit
  <2> QED
    BY <2>1, <2>2
<1>5. Due(s)' = {n \in 1 .. k : n > sub'[s].pos /\ log[n] \in Of(topic)}
  BY <1>1, <1>2, <1>4 DEF Due, Of
<1>6. sub'[s].end \in 0 .. k
  BY <1>2, <1>3
<1>7. InOrder(sub'[s].ch) /\ Range(sub'[s].ch) = Due(s)'
  <2>1. CASE Admitted /\ replay
    <3>1. /\ Retained(topic, since) \in Seq(Nat)
          /\ \A n : n \in Range(Retained(topic, since)) <=>
                     /\ n \in store.overwritten + 1 .. Len(log)
                     /\ log[n] \in Of(topic) /\ n > since /\ n > expired
          /\ \A i, j \in 1 .. Len(Retained(topic, since)) :
              i < j => Retained(topic, since)[i] < Retained(topic, since)[j]
      BY <1>1, RetainedFacts
    <3>2. \A n \in 1 .. k : log[n] \in Of(topic) =>
              (n > LostTo(topic, since) <=> n > since /\ n > store.overwritten /\ n > expired)
      BY <1>1, LostFacts
    <3>3. sub'[s].ch = Retained(topic, since) /\ sub'[s].pos = LostTo(topic, since)
      BY <1>2, <2>1
    <3>4. \A n : n \in store.overwritten + 1 .. k <=> n \in 1 .. k /\ n > store.overwritten
      BY <1>1
    <3>5. \A n : n \in Range(sub'[s].ch) <=> n \in Due(s)'
      BY <1>5, <3>1, <3>2, <3>3, <3>4
    <3> QED
      BY <3>1, <3>3, <3>5 DEF InOrder
  <2>2. CASE ~(Admitted /\ replay)
    <3>1. sub'[s].ch = <<>> /\ sub'[s].pos = k
      BY <1>2, <2>2
    <3>2. \A n \in 1 .. k : ~(n > k)
      BY <1>1
    <3>3. Due(s)' = {}
      BY <1>5, <3>1, <3>2
    <3> QED
      BY <1>3, <3>1, <3>3
  <2> QED
    BY <2>1, <2>2
<1>8. StreamFits(s)'
  BY <1>1, <1>2, <1>6, <1>7 DEF StreamFits, InOrder
<1> SUFFICES ASSUME NEW r \in Subs \ {s} PROVE StreamFits(r)'
  BY <1>8 DEF Streams
<1> QED
  BY <1>1, <1>2, SameStream DEF Streams

LEMMA ReceiveStreams ==
  ASSUME BusInv, Streams, NEW s \in Subs, Receive(s)
  PROVE  /\ Streams'
         /\ sub'[s].pos \in 1 .. Limit(s) /\ sub'[s].pos > sub[s].pos
         /\ log[sub'[s].pos] \in Of(sub[s].topic) /\ Limit(s) \in 0 .. Len(log)
         /\ \A n \in sub[s].pos + 1 .. sub'[s].pos - 1 : log[n] \notin Of(sub[s].topic)
<1> DEFINE k == Len(log)
           h == Head(sub[s].ch)
           topic == sub[s].topic
<1>1. /\ log' = log /\ k \in Nat /\ ~Free(s)
  BY DEF Receive, BusInv, Plain
<1>2. /\ \A r \in Subs \ {s} : sub'[r] = sub[r]
      /\ sub[s] \in Subscription /\ sub[s].ch # <<>> /\ sub'[s] \in Subscription
      /\ sub'[s].ch = Tail(sub[s].ch) /\ sub'[s].pos = h
      /\ sub'[s].state = sub[s].state /\ sub'[s].topic = topic
      /\ sub'[s].end = sub[s].end /\ sub'[s].after = sub[s].after
  BY ReceiveStep
<1>3. /\ sub[s].pos \in 0 .. k /\ sub[s].end \in 0 .. k /\ sub[s].after \in 0 .. k
      /\ InOrder(sub[s].ch) /\ Range(sub[s].ch) = Due(s)
  BY <1>1 DEF Streams, StreamFits
<1>4. Limit(s) \in 0 .. k /\ Limit(s)' = Limit(s)
  BY <1>1, <1>2, <1>3 DEF Limit
<1>5. sub[s].ch \in Seq(Nat)
  BY <1>2 DEF Subscription
<1>6. /\ h \in Nat /\ h \in Due(s) /\ InOrder(Tail(sub[s].ch))
      /\ \A n : n \in Range(Tail(sub[s].ch)) <=> n \in Due(s) /\ n > h
      /\ \A n \in Due(s) : n \in Nat /\ n >= h
  <2> DEFINE q == sub[s].ch
  <2>1. q \in Seq(Nat) /\ q # <<>> /\ InOrder(q) /\ Range(q) = Due(s)
    BY <1>2, <1>3, <1>5
  <2> HIDE DEF q
  <2>2. /\ Head(q) \in Nat /\ Head(q) \in Range(q) /\ InOrder(Tail(q))
        /\ \A n : n \in Range(Tail(q)) <=> n \in Range(q) /\ n > Head(q)
        /\ \A n \in Range(q) : n \in Nat /\ n >= Head(q)
    BY <2>1, HeadAndTail
  <2> QED
    BY <2>1, <2>2 DEF q
<1> HIDE DEF h
<1>7. h \in 1 .. Limit(s) /\ h > sub[s].pos /\ log[h] \in Of(topic)
  BY <1>6 DEF Due
<1>8. \A n \in sub[s].pos + 1 .. h - 1 : log[n] \notin Of(topic)
  <2> SUFFICES ASSUME NEW n \in sub[s].pos + 1 .. h - 1, log[n] \in Of(topic) PROVE FALSE
    OBVIOUS
  <2>1. n \in 1 .. Limit(s) /\ n > sub[s].pos /\ n < h
    BY <1>1, <1>3, <1>4, <1>7
  <2>2. n \in Due(s)
    BY <2>1 DEF Due
  <2> QED
    BY <1>6, <2>1, <2>2
<1>9. Due(s)' = {n \in Due(s) : n > h}
  <2>1. Due(s)' = {n \in 1 .. Limit(s) : n > h /\ log[n] \in Of(topic)}
    BY <1>1, <1>2, <1>4 DEF Due, Of
  <2>2. \A n \in 1 .. Limit(s) : n > h => n > sub[s].pos
    BY <1>1, <1>3, <1>4, <1>7
  <2> QED
    BY <2>1, <2>2 DEF Due
<1>10. StreamFits(s)'
  <2>1. Range(sub'[s].ch) = Due(s)'
    BY <1>2, <1>6, <1>9
  <2>2. h \in 0 .. k
    BY <1>4, <1>7
  <2> QED
    BY <1>1, <1>2, <1>3, <1>6, <2>1, <2>2 DEF StreamFits, InOrder
<1>11. Streams'
  <2> SUFFICES ASSUME NEW r \in Subs \ {s} PROVE StreamFits(r)'
    BY <1>10 DEF Streams
  <2> QED
    BY <1>1, <1>2, SameStream DEF Streams
<1> QED
  BY <1>2, <1>4, <1>7, <1>8, <1>11

LEMMA UnsubscribeStreams ==
  ASSUME BusInv, Streams, NEW s \in Subs, Unsubscribe(s)
  PROVE  Streams'
<1> SUFFICES ASSUME NEW r \in Subs PROVE StreamFits(r)'
  BY DEF Streams
<1>1. log' = log /\ sub'[s] = NoSub /\ \A x \in Subs \ {s} : sub'[x] = sub[x]
  BY UnsubscribeStep DEF Unsubscribe
<1>2. CASE r = s
  BY <1>1, <1>2 DEF StreamFits, Free, NoSub
<1>3. CASE r # s
  BY <1>1, <1>3, SameStream DEF Streams
<1> QED
  BY <1>2, <1>3

LEMMA CloseStreams ==
  ASSUME BusInv, Streams, Close
  PROVE  Streams'
<1> SUFFICES ASSUME NEW s \in Subs PROVE StreamFits(s)'
  BY DEF Streams
<1>0. log' = log /\ StreamFits(s) /\ Len(log) \in Nat
  BY DEF Close, Streams, BusInv, Plain
<1>1. /\ \A r \in Subs \ Registered : sub'[r] = sub[r]
      /\ \A r \in Registered :
              /\ sub'[r] \in Subscription /\ sub'[r].state = "closed" /\ sub'[r].end = Len(log)
              /\ sub'[r].topic = sub[r].topic /\ sub'[r].ch = sub[r].ch
              /\ sub'[r].pos = sub[r].pos /\ sub'[r].after = sub[r].after
  BY CloseStep
<1>2. CASE s \notin Registered
  BY <1>0, <1>1, <1>2, SameStream
<1>3. CASE s \in Registered
  <2>1. ~Free(s) /\ Limit(s) = Len(log) /\ Limit(s)' = Len(log)
    BY <1>0, <1>1, <1>3 DEF Registered, Free, Limit
  <2>2. Due(s)' = Due(s)
    BY <1>0, <1>1, <1>3, <2>1 DEF Due, Of
  <2>3. Len(log) \in 0 .. Len(log)
    BY <1>0
  <2> QED
    BY <1>0, <1>1, <1>3, <2>1, <2>2, <2>3 DEF StreamFits, InOrder
<1> QED
  BY <1>2, <1>3

LEMMA StreamsInit == Init => Streams
<1> SUFFICES ASSUME Init, NEW s \in Subs PROVE StreamFits(s)
  BY DEF Streams
<1>1. sub[s] = NoSub
  BY DEF Init
<1> QED
  BY <1>1 DEF StreamFits, Free, NoSub

LEMMA StreamsNext == BusInv /\ Streams /\ [Next]_vars => Streams'
<1> SUFFICES ASSUME BusInv, Streams, [Next]_vars PROVE Streams'
  OBVIOUS
<1>1. ASSUME NEW t \in Traces, NEW begins \in BOOLEAN, Publish(t, begins) PROVE Streams'
  BY <1>1, PublishStreams
<1>2. ASSUME NEW s \in Subs, Subscribe(s) \/ SubscribeNewTrace(s) \/ SubscribeWithReplay(s)
      PROVE  Streams'
  <2>1. PICK topic \in Topics, fresh \in BOOLEAN, replay \in BOOLEAN, since \in 0 .. Len(log) :
          /\ fresh => topic \notin Range(log)
          /\ replay => topic # OfBot
          /\ Free(s) /\ Open(s, topic, fresh, replay, since)
    BY <1>2, SubscribeStep
  <2> QED
    BY <2>1, OpenStreams DEF Free, Registered
<1>3. ASSUME NEW s \in Subs, Receive(s) PROVE Streams'
  BY <1>3, ReceiveStreams
<1>4. ASSUME NEW s \in Subs, Unsubscribe(s) PROVE Streams'
  BY <1>4, UnsubscribeStreams
<1>5. CASE Close
  BY <1>5, CloseStreams
<1>6. CASE UNCHANGED <<log, sub>>
  <2> SUFFICES ASSUME NEW s \in Subs PROVE StreamFits(s)'
    BY DEF Streams
  <2> QED
    BY <1>6, SameStream DEF Streams
<1> QED
  BY <1>1, <1>2, <1>3, <1>4, <1>5, <1>6 DEF Next, Expire, vars

\* What every reader finds in its channel: exactly the events it is still due,
\* in order.
LEMMA StreamsAlways == Spec => []Streams
  BY BusAlways, StreamsInit, StreamsNext, PTL DEF Spec

-----------------------------------------------------------------------------
(***************************************************************************)
(* The refinement: every step of the bus is a step of the streams.         *)
(***************************************************************************)

Line(open, topic, told, pos, end) ==
  [open |-> open, topic |-> topic, told |-> told, pos |-> pos, end |-> end]
On(topic, told, pos, end) == Line(TRUE, topic, told, pos, end)
Off(topic, told, pos, end) == Line(FALSE, topic, told, pos, end)
Nobody == [open |-> FALSE, topic |-> {}]

LEMMA LineMoves ==
  ASSUME NEW topic, NEW told, NEW pos, NEW end, NEW m
  PROVE  /\ [On(topic, told, pos, end) EXCEPT !.pos = m] = On(topic, told, m, end)
         /\ [Off(topic, told, pos, end) EXCEPT !.pos = m] = Off(topic, told, m, end)
<1>1. ASSUME NEW b
      PROVE  [Line(b, topic, told, pos, end) EXCEPT !.pos = m] = Line(b, topic, told, m, end)
  BY DEF Line
<1> QED
  BY Zenon, <1>1 DEF On, Off

LEMMA OnFacts ==
  ASSUME NEW topic, NEW told, NEW pos, NEW end
  PROVE  /\ On(topic, told, pos, end) # Nobody /\ On(topic, told, pos, end).open
         /\ On(topic, told, pos, end).topic = topic /\ On(topic, told, pos, end).pos = pos
<1>1. On(topic, told, pos, end).open /\ On(topic, told, pos, end).topic = topic
      /\ On(topic, told, pos, end).pos = pos
  BY DEF On, Line
<1>2. ~Nobody.open
  BY DEF Nobody
<1> QED
  BY <1>1, <1>2

LEMMA OffFacts ==
  ASSUME NEW topic, NEW told, NEW pos, NEW end
  PROVE  /\ Off(topic, told, pos, end) # Nobody /\ ~Off(topic, told, pos, end).open
         /\ Off(topic, told, pos, end).topic = topic /\ Off(topic, told, pos, end).pos = pos
         /\ Off(topic, told, pos, end).end = end
<1>1. ~Off(topic, told, pos, end).open /\ Off(topic, told, pos, end).topic = topic
      /\ Off(topic, told, pos, end).pos = pos /\ Off(topic, told, pos, end).end = end
  BY DEF Off, Line
<1>2. Off(topic, told, pos, end) # Nobody
  <2>1. "told" \in DOMAIN Off(topic, told, pos, end) /\ "told" \notin DOMAIN Nobody
    BY DEF Off, Line, Nobody
  <2> QED
    BY <2>1
<1> QED
  BY <1>1, <1>2

\* What a handle that is open, or not, is to its reader.
OnOf(s) == On(Of(sub[s].topic), sub[s].after, sub[s].pos, sub[s].end)
OffOf(s) == Off(Of(sub[s].topic), sub[s].after, sub[s].pos, sub[s].end)

\* StreamOf, by cases.
StreamOfCases ==
  /\ StreamOf = [s \in Subs |-> StreamOf[s]]
  /\ \A s \in Subs :
       /\ Free(s) => StreamOf[s] = Nobody
       /\ ~Free(s) /\ s \in Registered => StreamOf[s] = OnOf(s)
       /\ ~Free(s) /\ s \notin Registered => StreamOf[s] = OffOf(s)

LEMMA StreamOfIs == StreamOfCases
<1> SUFFICES ASSUME NEW s \in Subs
             PROVE  /\ Free(s) => StreamOf[s] = Nobody
                    /\ ~Free(s) /\ s \in Registered => StreamOf[s] = OnOf(s)
                    /\ ~Free(s) /\ s \notin Registered => StreamOf[s] = OffOf(s)
  BY DEF StreamOf, StreamOfCases
<1> DEFINE L(o) == Line(o, Of(sub[s].topic), sub[s].after, sub[s].pos, sub[s].end)
<1>1. Free(s) => StreamOf[s] = Nobody
  BY DEF StreamOf, Free, Nobody
<1>2. ~Free(s) => StreamOf[s] = L(s \in Registered)
  BY DEF StreamOf, Free, Line
<1>3. s \in Registered => (s \in Registered) = TRUE
  OBVIOUS
<1>4. s \notin Registered => (s \in Registered) = FALSE
  OBVIOUS
<1> QED
  BY Zenon, <1>1, <1>2, <1>3, <1>4 DEF OnOf, OffOf, On, Off

LEMMA StreamOfWillBe == StreamOfCases'
  BY StreamOfIs, PTL

\* A handle whose subscription is what it was is the same to its reader.
LEMMA SameLine ==
  ASSUME NEW s \in Subs, sub'[s] = sub[s]
  PROVE  StreamOf'[s] = StreamOf[s]
<1>1. Free(s)' <=> Free(s)
  BY DEF Free
<1>2. s \in Registered' <=> s \in Registered
  BY DEF Registered
<1>3. OnOf(s)' = OnOf(s) /\ OffOf(s)' = OffOf(s)
  BY DEF OnOf, OffOf, Of, On, Off, Line
<1> QED
  BY <1>1, <1>2, <1>3, StreamOfIs, StreamOfWillBe DEF StreamOfCases

\* A stream that ends, in the words of EventStream.
LEMMA EndedOn ==
  ASSUME NEW topic, NEW told, NEW pos, NEW end
  PROVE  Stream!Ended(On(topic, told, pos, end)) = Off(topic, told, pos, Len(log))
<1> DEFINE x == On(topic, told, pos, end)
           m == Len(log)
           y == Off(topic, told, pos, m)
<1>1. [On(topic, told, pos, end) EXCEPT !.open = FALSE, !.end = m] = Off(topic, told, pos, m)
  <2> HIDE DEF m
  <2>1. ASSUME NEW a, NEW b
        PROVE  [Line(a, topic, told, pos, end) EXCEPT !.open = b] = Line(b, topic, told, pos, end)
    BY DEF Line
  <2>2. ASSUME NEW b
        PROVE  [Line(b, topic, told, pos, end) EXCEPT !.end = m] = Line(b, topic, told, pos, m)
    BY DEF Line
  <2>3. [Line(TRUE, topic, told, pos, end) EXCEPT !.open = FALSE, !.end = m]
        = [[Line(TRUE, topic, told, pos, end) EXCEPT !.open = FALSE] EXCEPT !.end = m]
    OBVIOUS
  <2>4. [Line(TRUE, topic, told, pos, end) EXCEPT !.open = FALSE]
        = Line(FALSE, topic, told, pos, end)
    BY Zenon, <2>1
  <2>5. [Line(FALSE, topic, told, pos, end) EXCEPT !.end = m] = Line(FALSE, topic, told, pos, m)
    BY Zenon, <2>2
  <2> QED
    BY Zenon, <2>3, <2>4, <2>5 DEF On, Off
<1>2. x # Nobody /\ x.open
  BY OnFacts
<1>3. [x EXCEPT !.open = FALSE, !.end = m] = y
  BY <1>1
<1> HIDE DEF x, y
<1>4. Stream!Ended(x) = y
  BY <1>2, <1>3 DEF Stream!Ended, Stream!Absent, Nobody
<1> QED
  BY <1>4 DEF x, y

LEMMA EndedLine ==
  ASSUME NEW s \in Subs, ~Free(s), s \in Registered, ~Free(s)', s \notin Registered',
         sub'[s].topic = sub[s].topic, sub'[s].after = sub[s].after,
         sub'[s].pos = sub[s].pos, sub'[s].end = Len(log)
  PROVE  StreamOf'[s] = Stream!Ended(StreamOf[s])
<1> DEFINE to == Of(sub[s].topic)
<1>1. StreamOf[s] = OnOf(s) /\ StreamOf'[s] = OffOf(s)'
  BY StreamOfIs, StreamOfWillBe DEF StreamOfCases
<1>2. OnOf(s) = On(to, sub[s].after, sub[s].pos, sub[s].end)
  BY DEF OnOf
<1>3. OffOf(s)' = Off(to, sub[s].after, sub[s].pos, Len(log))
  BY DEF OffOf, Of, Off, Line
<1> QED
  BY <1>1, <1>2, <1>3, EndedOn

LEMMA PublishIsPublish ==
  ASSUME BusInv, NEW t \in Traces, NEW begins \in BOOLEAN, Publish(t, begins)
  PROVE  Stream!Publish
<1> DEFINE cut == Overrun(t)
<1>1. Plain /\ log' = Append(log, t)
  BY DEF BusInv, Publish
<1>2. /\ cut \subseteq For(t) /\ For(t) \subseteq Registered
      /\ Registered' = Registered \ cut
      /\ \A r \in Subs \ For(t) : sub'[r] = sub[r]
      /\ \A r \in For(t) :
           /\ sub'[r] \in Subscription /\ sub'[r].topic = sub[r].topic
           /\ sub'[r].pos = sub[r].pos /\ sub'[r].after = sub[r].after
      /\ \A r \in cut : sub'[r].state = "overflowed" /\ sub'[r].end = Len(log)
      /\ \A r \in For(t) \ cut : sub'[r].state = "open" /\ sub'[r].end = sub[r].end
  BY <1>1, PublishSubs
<1>3. /\ \A r \in Registered : r \in Subs /\ ~Free(r)
      /\ \A r \in For(t) : t \in Of(sub[r].topic)
  BY DEF For, Registered, Free
<1> HIDE DEF cut
<1>4. cut \in SUBSET Subs
  BY <1>2, <1>3
<1>5. \A r \in cut : t \in StreamOf[r].topic
  <2> SUFFICES ASSUME NEW r \in cut PROVE t \in StreamOf[r].topic
    OBVIOUS
  <2>1. r \in Subs /\ ~Free(r) /\ t \in Of(sub[r].topic)
    BY <1>2, <1>3
  <2>2. StreamOf[r] = OnOf(r)
    BY <1>2, <2>1, StreamOfIs DEF StreamOfCases
  <2>3. OnOf(r).topic = Of(sub[r].topic)
    BY OnFacts DEF OnOf
  <2> QED
    BY <2>1, <2>2, <2>3
<1>6. ASSUME NEW r \in Subs
      PROVE  StreamOf'[r] = IF r \in cut THEN Stream!Ended(StreamOf[r]) ELSE StreamOf[r]
  <2>1. CASE r \notin For(t)
    <3>1. sub'[r] = sub[r] /\ r \notin cut
      BY <1>2, <2>1
    <3> QED
      BY <3>1, SameLine
  <2>2. CASE r \in cut
    <3>1. /\ r \in Registered /\ ~Free(r) /\ r \notin Registered' /\ ~Free(r)'
          /\ sub'[r].topic = sub[r].topic /\ sub'[r].after = sub[r].after
          /\ sub'[r].pos = sub[r].pos /\ sub'[r].end = Len(log)
      BY <1>2, <1>3, <2>2 DEF Free
    <3> QED
      BY <2>2, <3>1, EndedLine
  <2>3. CASE r \in For(t) \ cut
    <3>1. /\ r \in Registered /\ ~Free(r) /\ r \in Registered' /\ ~Free(r)'
          /\ sub'[r].topic = sub[r].topic /\ sub'[r].after = sub[r].after
          /\ sub'[r].pos = sub[r].pos /\ sub'[r].end = sub[r].end
      BY <1>2, <1>3, <2>3 DEF Free
    <3>2. OnOf(r)' = OnOf(r)
      BY <3>1 DEF OnOf, Of, On, Line
    <3> QED
      BY <2>3, <3>1, <3>2, StreamOfIs, StreamOfWillBe DEF StreamOfCases
  <2> QED
    BY <2>1, <2>2, <2>3
<1>7. StreamOf' = [r \in Subs |-> IF r \in cut THEN Stream!Ended(StreamOf[r]) ELSE StreamOf[r]]
  BY <1>6, StreamOfWillBe DEF StreamOfCases
<1> QED
  BY <1>1, <1>4, <1>5, <1>7 DEF Stream!Publish

\* Only one reader's stream changes.
LEMMA OneLine ==
  ASSUME NEW s \in Subs, \A r \in Subs \ {s} : sub'[r] = sub[r]
  PROVE  StreamOf' = [StreamOf EXCEPT ![s] = StreamOf'[s]]
<1>1. \A r \in Subs \ {s} : StreamOf'[r] = StreamOf[r]
  BY SameLine
<1>2. StreamOf = [r \in Subs |-> StreamOf[r]] /\ StreamOf' = [r \in Subs |-> StreamOf'[r]]
  BY StreamOfIs, StreamOfWillBe DEF StreamOfCases
<1> QED
  BY <1>1, <1>2

LEMMA OfTraces ==
  ASSUME NEW topic \in Topics
  PROVE  Of(topic) \in SUBSET Traces
  BY BusAssumption DEF Of

LEMMA OpenIsListenOrResume ==
  ASSUME BusInv, NEW s \in Subs, Free(s), NEW topic \in Topics, NEW fresh \in BOOLEAN,
         NEW replay \in BOOLEAN, NEW since \in 0 .. Len(log),
         fresh => topic \notin Range(log), replay => topic # OfBot,
         Open(s, topic, fresh, replay, since)
  PROVE  Stream!Listen(s) \/ Stream!Resume(s)
<1> DEFINE k == Len(log)
<1>1. /\ log' = log /\ k \in Nat /\ log \in Seq(Traces) /\ store.overwritten \in 0 .. k
      /\ expired \in 0 .. k
  <2>1. /\ log' = log /\ k \in Nat /\ log \in Seq(Traces) /\ store.overwritten \in 0 .. k
    BY DEF Open, BusInv, Plain, Sane, Store
  <2>2. expired \in {0} \cup store.overwritten + 1 .. k
    BY DEF BusInv
  <2> QED
    BY <2>1, <2>2
<1>2. /\ \A r \in Subs \ {s} : sub'[r] = sub[r]
      /\ sub'[s].topic = topic
      /\ sub'[s].pos \in 0 .. k /\ sub'[s].after \in 0 .. k
      /\ Registered' = IF Admitted THEN Registered \cup {s} ELSE Registered
      /\ Admitted =>
              /\ sub'[s].state = "open" /\ sub'[s].end = 0
              /\ sub'[s].pos = IF replay THEN LostTo(topic, since) ELSE Len(log)
              /\ replay => sub'[s].pos = since \/ sub'[s].pos <= sub'[s].after
              /\ ~replay => sub'[s].after = 0
      /\ ~Admitted =>
              /\ sub'[s].state = "rejected" /\ sub'[s].after = 0
              /\ sub'[s].pos = Len(log) /\ sub'[s].end = Len(log)
  <2>1. s \notin Registered
    BY DEF Registered, Free
  <2> QED
    BY <2>1, OpenSubs
<1>3. s \notin Registered /\ StreamOf[s] = Nobody
  BY StreamOfIs DEF Registered, Free, StreamOfCases
<1>4. ~Stream!Present(s) /\ Of(topic) \in SUBSET Traces
  BY <1>3, OfTraces DEF Stream!Present, Stream!Absent, Nobody
<1>5. StreamOf' = [StreamOf EXCEPT ![s] = StreamOf'[s]]
  BY <1>2, OneLine
<1>6. /\ Admitted =>
           StreamOf'[s] = On(Of(topic), sub'[s].after, sub'[s].pos, sub'[s].end)
      /\ ~Admitted =>
           StreamOf'[s] = Off(Of(topic), sub'[s].after, sub'[s].pos, sub'[s].end)
  <2>1. ~Free(s)'
    BY <1>2 DEF Free
  <2>2. s \in Registered' <=> Admitted
    BY <1>2, <1>3
  <2>3. /\ OnOf(s)' = On(Of(topic), sub'[s].after, sub'[s].pos, sub'[s].end)
        /\ OffOf(s)' = Off(Of(topic), sub'[s].after, sub'[s].pos, sub'[s].end)
    BY <1>2 DEF OnOf, OffOf, Of, On, Off, Line
  <2> QED
    BY <2>1, <2>2, <2>3, StreamOfWillBe DEF StreamOfCases
<1>7. CASE Admitted /\ ~replay
  <2>1. StreamOf'[s] = On(Of(topic), 0, k, 0)
    BY <1>2, <1>6, <1>7
  <2>2. On(Of(topic), 0, k, 0) = Stream!Stream(Of(topic), 0, k)
    BY DEF Stream!Stream, On, Line
  <2> QED
    BY <1>1, <1>4, <1>5, <2>1, <2>2 DEF Stream!Listen
<1>8. CASE Admitted /\ replay
  <2> DEFINE told == sub'[s].after
             pos == sub'[s].pos
  <2>1. StreamOf'[s] = On(Of(topic), told, pos, 0)
    BY <1>2, <1>6, <1>8
  <2>2. since <= pos /\ (pos = since \/ pos <= told)
    <3>1. since <= LostTo(topic, since)
      BY <1>1, LostFacts
    <3> QED
      BY <1>2, <1>8, <3>1
  <2>3. told \in 0 .. Len(log) /\ pos \in 0 .. Len(log)
    BY <1>2
  <2>4. On(Of(topic), told, pos, 0) = Stream!Stream(Of(topic), told, pos)
    BY DEF Stream!Stream, On, Line
  <2> HIDE DEF told, pos
  <2> QED
    BY <1>1, <1>4, <1>5, <2>1, <2>2, <2>3, <2>4 DEF Stream!Resume
<1>9. CASE ~Admitted
  <2>1. StreamOf'[s] = Off(Of(topic), 0, k, k)
    BY <1>2, <1>6, <1>9
  <2>2. On(Of(topic), 0, k, 0) = Stream!Stream(Of(topic), 0, k)
    BY DEF Stream!Stream, On, Line
  <2>3. Stream!Ended(On(Of(topic), 0, k, 0)) = Off(Of(topic), 0, k, k)
    BY EndedOn
  <2> QED
    BY <1>1, <1>4, <1>5, <2>1, <2>2, <2>3 DEF Stream!Listen
<1> QED
  BY <1>7, <1>8, <1>9

LEMMA PresentOnes ==
  ASSUME NEW s \in Subs, ~Free(s)
  PROVE  Stream!Present(s)
<1>1. CASE s \in Registered
  <2>1. StreamOf[s] = OnOf(s)
    BY <1>1, StreamOfIs DEF StreamOfCases
  <2>2. OnOf(s) # Nobody
    BY OnFacts DEF OnOf
  <2> QED
    BY <2>1, <2>2 DEF Stream!Present, Stream!Absent, Nobody
<1>2. CASE s \notin Registered
  <2>1. StreamOf[s] = OffOf(s)
    BY <1>2, StreamOfIs DEF StreamOfCases
  <2>2. OffOf(s) # Nobody
    BY OffFacts DEF OffOf
  <2> QED
    BY <2>1, <2>2 DEF Stream!Present, Stream!Absent, Nobody
<1> QED
  BY <1>1, <1>2

LEMMA ReceiveIsRead ==
  ASSUME BusInv, Streams, NEW s \in Subs, Receive(s)
  PROVE  Stream!Read(s)
<1> DEFINE n == sub'[s].pos
           to == Of(sub[s].topic)
           x == StreamOf[s]
<1>1. /\ log' = log /\ ~Free(s) /\ log \in Seq(Traces) /\ Len(log) \in Nat
  BY DEF Receive, BusInv, Plain
<1>2. /\ n \in 1 .. Limit(s) /\ n > sub[s].pos /\ log[n] \in to /\ Limit(s) \in 0 .. Len(log)
      /\ \A m \in sub[s].pos + 1 .. n - 1 : log[m] \notin to
  BY ReceiveStreams
<1>3. /\ Registered' = Registered /\ \A r \in Subs \ {s} : sub'[r] = sub[r]
      /\ sub'[s].state = sub[s].state /\ sub'[s].topic = sub[s].topic
      /\ sub'[s].end = sub[s].end /\ sub'[s].after = sub[s].after
  BY ReceiveStep
<1>4. Stream!Present(s)
  BY <1>1, PresentOnes
<1>5. /\ x.pos = sub[s].pos /\ x.topic = to /\ (x.open \/ n <= x.end)
      /\ StreamOf'[s] = [x EXCEPT !.pos = n]
  <2>1. ~Free(s)'
    BY <1>1, <1>3 DEF Free
  <2>2. CASE s \in Registered
    <3>1. x = OnOf(s) /\ StreamOf'[s] = OnOf(s)'
      BY <1>1, <1>3, <2>1, <2>2, StreamOfIs, StreamOfWillBe DEF StreamOfCases
    <3>2. x.pos = sub[s].pos /\ x.topic = to /\ x.open
      BY <3>1, OnFacts DEF OnOf
    <3>3. OnOf(s)' = On(to, sub[s].after, n, sub[s].end)
      BY <1>3 DEF OnOf, Of, On, Line
    <3>4. [x EXCEPT !.pos = n] = On(to, sub[s].after, n, sub[s].end)
      <4>1. ASSUME NEW b
            PROVE  [Line(b, to, sub[s].after, sub[s].pos, sub[s].end) EXCEPT !.pos = n]
                     = Line(b, to, sub[s].after, n, sub[s].end)
        BY DEF Line
      <4>2. x = Line(TRUE, to, sub[s].after, sub[s].pos, sub[s].end)
        BY Zenon, <3>1 DEF OnOf, On
      <4> QED
        BY Zenon, <4>1, <4>2 DEF On
    <3> QED
      BY <3>1, <3>2, <3>3, <3>4
  <2>3. CASE s \notin Registered
    <3>1. x = OffOf(s) /\ StreamOf'[s] = OffOf(s)'
      BY <1>1, <1>3, <2>1, <2>3, StreamOfIs, StreamOfWillBe DEF StreamOfCases
    <3>2. x.pos = sub[s].pos /\ x.topic = to /\ x.end = sub[s].end
      BY <3>1, OffFacts DEF OffOf
    <3>3. OffOf(s)' = Off(to, sub[s].after, n, sub[s].end)
      BY <1>3 DEF OffOf, Of, Off, Line
    <3>4. [x EXCEPT !.pos = n] = Off(to, sub[s].after, n, sub[s].end)
      <4>1. ASSUME NEW b
            PROVE  [Line(b, to, sub[s].after, sub[s].pos, sub[s].end) EXCEPT !.pos = n]
                     = Line(b, to, sub[s].after, n, sub[s].end)
        BY DEF Line
      <4>2. x = Line(FALSE, to, sub[s].after, sub[s].pos, sub[s].end)
        BY Zenon, <3>1 DEF OffOf, Off
      <4> QED
        BY Zenon, <4>1, <4>2 DEF Off
    <3>5. Limit(s) = sub[s].end
      BY <2>3 DEF Limit, Registered
    <3>6. n <= x.end
      BY <1>1, <1>2, <3>2, <3>5
    <3> QED
      BY <3>1, <3>2, <3>3, <3>4, <3>6
  <2> QED
    BY <2>2, <2>3
<1>6. n \in DOMAIN log
  BY <1>1, <1>2
<1>7. StreamOf' = [StreamOf EXCEPT ![s] = StreamOf'[s]]
  BY <1>3, OneLine
<1> HIDE DEF n
<1>8. StreamOf' = [StreamOf EXCEPT ![s].pos = n]
  BY <1>5, <1>7
<1>9. Stream!IsNext(s, n)
  BY <1>2, <1>5 DEF Stream!IsNext
<1> QED
  BY <1>1, <1>4, <1>6, <1>8, <1>9 DEF Stream!Read

LEMMA UnsubscribeIsLeave ==
  ASSUME BusInv, NEW s \in Subs, Unsubscribe(s)
  PROVE  Stream!Leave(s)
<1>1. log' = log /\ ~Free(s)
  BY DEF Unsubscribe
<1>2. sub'[s] = NoSub /\ \A r \in Subs \ {s} : sub'[r] = sub[r]
  BY UnsubscribeStep
<1>3. Free(s)'
  BY <1>2 DEF Free, NoSub
<1>4. StreamOf'[s] = Nobody
  BY <1>3, StreamOfWillBe DEF StreamOfCases
<1>5. StreamOf' = [StreamOf EXCEPT ![s] = StreamOf'[s]]
  BY <1>2, OneLine
<1> QED
  BY <1>1, <1>4, <1>5, PresentOnes DEF Stream!Leave, Stream!Absent, Nobody

LEMMA CloseIsShut ==
  ASSUME BusInv, Close
  PROVE  Stream!Shut
<1>1. log' = log
  BY DEF Close
<1>2. /\ Registered' = {}
      /\ \A r \in Subs \ Registered : sub'[r] = sub[r]
      /\ \A r \in Registered :
           /\ sub'[r].state = "closed" /\ sub'[r].end = Len(log)
           /\ sub'[r].topic = sub[r].topic /\ sub'[r].pos = sub[r].pos
           /\ sub'[r].after = sub[r].after
  BY CloseStep
<1>3. ASSUME NEW s \in Subs PROVE StreamOf'[s] = Stream!Ended(StreamOf[s])
  <2>1. CASE s \in Registered
    <3>1. ~Free(s) /\ ~Free(s)' /\ s \notin Registered'
      BY <1>2, <2>1 DEF Registered, Free
    <3> QED
      BY <1>2, <2>1, <3>1, EndedLine
  <2>2. CASE s \notin Registered
    <3>1. StreamOf'[s] = StreamOf[s]
      BY <1>2, <2>2, SameLine
    <3>2. CASE Free(s)
      <4>1. StreamOf[s] = Nobody
        BY <3>2, StreamOfIs DEF StreamOfCases
      <4> QED
        BY <3>1, <4>1 DEF Stream!Ended, Stream!Absent, Nobody
    <3>3. CASE ~Free(s)
      <4>1. StreamOf[s] = OffOf(s)
        BY <2>2, <3>3, StreamOfIs DEF StreamOfCases
      <4>2. ~StreamOf[s].open
        BY <4>1, OffFacts DEF OffOf
      <4> QED
        BY <3>1, <4>2 DEF Stream!Ended
    <3> QED
      BY <3>2, <3>3
  <2> QED
    BY <2>1, <2>2
<1>4. StreamOf' = [r \in Subs |-> Stream!Ended(StreamOf[r])]
  BY <1>3, StreamOfWillBe DEF StreamOfCases
<1> QED
  BY <1>1, <1>4 DEF Stream!Shut

LEMMA BeginsAsStream == Init => Stream!Init
<1> SUFFICES ASSUME Init PROVE Stream!Init
  OBVIOUS
<1>1. log = <<>> /\ \A s \in Subs : sub[s] = NoSub
  BY DEF Init
<1>2. \A s \in Subs : StreamOf[s] = Nobody
  BY <1>1, StreamOfIs DEF StreamOfCases, Free, NoSub
<1>3. StreamOf = [s \in Subs |-> Nobody]
  BY <1>2, StreamOfIs DEF StreamOfCases
<1> QED
  BY <1>1, <1>3 DEF Stream!Init, Stream!Absent, Nobody

\* Every step of the bus is a step of the streams, or leaves them alone.
LEMMA StepsAsStream ==
  BusInv /\ Streams /\ [Next]_vars => [Stream!Next]_<<log, StreamOf>>
<1> SUFFICES ASSUME BusInv, Streams, [Next]_vars
             PROVE  Stream!Next \/ UNCHANGED <<log, StreamOf>>
  OBVIOUS
<1>1. ASSUME NEW t \in Traces, NEW begins \in BOOLEAN, Publish(t, begins) PROVE Stream!Next
  BY <1>1, PublishIsPublish DEF Stream!Next
<1>2. ASSUME NEW s \in Subs, Subscribe(s) \/ SubscribeNewTrace(s) \/ SubscribeWithReplay(s)
      PROVE  Stream!Next
  <2>1. PICK topic \in Topics, fresh \in BOOLEAN, replay \in BOOLEAN, since \in 0 .. Len(log) :
          /\ fresh => topic \notin Range(log)
          /\ replay => topic # OfBot
          /\ Free(s) /\ Open(s, topic, fresh, replay, since)
    BY <1>2, SubscribeStep
  <2>2. Stream!Listen(s) \/ Stream!Resume(s)
    BY <2>1, OpenIsListenOrResume
  <2> QED
    BY <2>2 DEF Stream!Next
<1>3. ASSUME NEW s \in Subs, Receive(s) PROVE Stream!Next
  BY <1>3, ReceiveIsRead DEF Stream!Next
<1>4. ASSUME NEW s \in Subs, Unsubscribe(s) PROVE Stream!Next
  BY <1>4, UnsubscribeIsLeave DEF Stream!Next
<1>5. CASE Close
  BY <1>5, CloseIsShut DEF Stream!Next
<1>6. CASE UNCHANGED <<log, sub>>
  <2>1. \A s \in Subs : StreamOf'[s] = StreamOf[s]
    BY <1>6, SameLine
  <2>2. StreamOf' = StreamOf
    BY <2>1, StreamOfIs, StreamOfWillBe DEF StreamOfCases
  <2> QED
    BY <1>6, <2>2
<1> QED
  BY <1>1, <1>2, <1>3, <1>4, <1>5, <1>6 DEF Next, Expire, vars

\* The bus implements EventStream: a reader receives exactly the events of its
\* topic after its cursor, in order, up to where its stream was cut off; and a
\* reader that resumes lost nothing above the floor it was told.
THEOREM BusImplementsStream == Spec => ImplementsStream
  BY BusAlways, StreamsAlways, BeginsAsStream, StepsAsStream, PTL
     DEF Spec, ImplementsStream, Stream!Spec

=============================================================================

-------------------------- MODULE SchedulingProofs --------------------------
(***************************************************************************)
(* Machine-checked proofs about Scheduling and the slot algorithm of Slots,*)
(* for every set of zones, rules, windows and durations.                   *)
(***************************************************************************)
EXTENDS Scheduling, FiniteSetTheorems, WellFoundedInduction, TLAPS

-----------------------------------------------------------------------------
(* Sorting and merging *)

\* Intervals of one day and one staff member.
Lane(d, f) == [day : {d}, staff : {f}, start : Int, end : Int]

\* The instants of an interval.
Holds(iv, u) == iv.start <= u /\ u < iv.end

(***************************************************************************)
(* The least number of a set.                                              *)
(***************************************************************************)
LEMMA LeastOf ==
  ASSUME NEW T \in SUBSET Nat, T # {}
  PROVE  \E n \in T : \A m \in T : n <= m
  <1>1. PICK x \in T : \A y \in T : ~ (<<y, x>> \in OpToRel(<, Nat))
    BY WFMin, NatLessThanWellFounded
  <1>2. \A y \in T : ~(y < x)
    BY <1>1 DEF OpToRel
  <1> QED BY <1>2

(***************************************************************************)
(* The greater and the lesser of two instants.                             *)
(***************************************************************************)
LEMMA MaxMin ==
  ASSUME NEW x \in Int, NEW y \in Int
  PROVE  /\ Max({x, y}) = (IF x >= y THEN x ELSE y)
         /\ Min({x, y}) = (IF x <= y THEN x ELSE y)
  <1> DEFINE M(m) == m \in {x, y} /\ \A z \in {x, y} : z <= m
             N(m) == m \in {x, y} /\ \A z \in {x, y} : m <= z
  <1>1. Max({x, y}) = CHOOSE m \in {x, y} : \A z \in {x, y} : m >= z
    BY DEF Max
  <1>2. Min({x, y}) = CHOOSE m \in {x, y} : \A z \in {x, y} : m <= z
    BY DEF Min
  <1>3. \E m \in {x, y} : \A z \in {x, y} : m >= z
    OBVIOUS
  <1>4. \E m \in {x, y} : \A z \in {x, y} : m <= z
    OBVIOUS
  <1>5. Max({x, y}) \in {x, y} /\ \A z \in {x, y} : Max({x, y}) >= z
    BY <1>1, <1>3
  <1>6. Min({x, y}) \in {x, y} /\ \A z \in {x, y} : Min({x, y}) <= z
    BY <1>2, <1>4
  <1> QED BY <1>5, <1>6

(***************************************************************************)
(* Before orders the intervals of a lane.                                  *)
(***************************************************************************)
LEMMA BeforeOrder ==
  ASSUME NEW d, NEW f, NEW x \in Lane(d, f), NEW y \in Lane(d, f), NEW z \in Lane(d, f)
  PROVE  /\ ~Before(x, x)
         /\ x # y => Before(x, y) \/ Before(y, x)
         /\ ~(Before(x, y) /\ Before(y, x))
         /\ Before(x, y) /\ Before(y, z) => Before(x, z)
  <1>1. x = [day |-> d, staff |-> f, start |-> x.start, end |-> x.end]
        /\ y = [day |-> d, staff |-> f, start |-> y.start, end |-> y.end]
    BY DEF Lane
  <1>2. x # y => x.start # y.start \/ x.end # y.end
    BY <1>1
  <1>3. /\ x.start \in Int /\ y.start \in Int /\ z.start \in Int
        /\ x.end \in Int /\ y.end \in Int /\ z.end \in Int
    BY DEF Lane
  <1> QED BY <1>2, <1>3 DEF Before

(***************************************************************************)
(* A finite set of intervals of one lane can be put in order: an interval  *)
(* goes to the place that is the number of intervals up to it.             *)
(***************************************************************************)
LEMMA TurnsExist ==
  ASSUME NEW d, NEW f, NEW S \in SUBSET Lane(d, f), IsFiniteSet(S)
  PROVE  \E s \in [1..Cardinality(S) -> S] : \A j, k \in DOMAIN s : j < k => Before(s[j], s[k])
  <1> DEFINE n == Cardinality(S)
             UpTo(x) == {y \in S : y = x \/ Before(y, x)}
             R == [x \in S |-> Cardinality(UpTo(x))]
  <1>1. n \in Nat
    BY FS_CardinalityType
  <1>2. \A x \in S : /\ IsFiniteSet(UpTo(x)) /\ Cardinality(UpTo(x)) \in Nat
                     /\ Cardinality(UpTo(x)) <= n
    <2> TAKE x \in S
    <2>1. UpTo(x) \in SUBSET S
      OBVIOUS
    <2>2. IsFiniteSet(UpTo(x)) /\ Cardinality(UpTo(x)) <= n
      BY <2>1, FS_Subset
    <2> QED BY <2>2, FS_CardinalityType
  <1>3. ASSUME NEW x \in S, NEW y \in S, Before(x, y)
        PROVE  Cardinality(UpTo(x)) < Cardinality(UpTo(y))
    <2>1. UpTo(x) \in SUBSET UpTo(y)
      <3> SUFFICES ASSUME NEW z \in S, z = x \/ Before(z, x) PROVE Before(z, y)
        OBVIOUS
      <3> QED BY <1>3, BeforeOrder
    <2>2. y \in UpTo(y) /\ y \notin UpTo(x)
      BY <1>3, BeforeOrder
    <2>3. /\ Cardinality(UpTo(x)) <= Cardinality(UpTo(y))
          /\ Cardinality(UpTo(x)) # Cardinality(UpTo(y))
      <3>1. IsFiniteSet(UpTo(y))
        BY <1>2
      <3>2. UpTo(x) # UpTo(y)
        BY <2>2
      <3> HIDE DEF UpTo
      <3> QED BY <3>1, <3>2, <2>1, FS_Subset
    <2> HIDE DEF UpTo
    <2> QED BY <1>2, <2>3
  <1>4. ASSUME NEW x \in S PROVE Cardinality(UpTo(x)) \in 1..n
    <2>1. UpTo(x) # {}
      OBVIOUS
    <2>2. Cardinality(UpTo(x)) # 0
      <3> HIDE DEF UpTo
      <3> QED BY <1>2, <2>1, FS_EmptySet
    <2> HIDE DEF UpTo
    <2> QED BY <1>1, <1>2, <2>2
  <1>5. R \in Injection(S, 1..n)
    <2>1. R \in [S -> 1..n]
      <3> HIDE DEF UpTo
      <3> QED BY <1>4
    <2>2. \A x, y \in S : R[x] = R[y] => x = y
      <3> SUFFICES ASSUME NEW x \in S, NEW y \in S, x # y PROVE R[x] # R[y]
        OBVIOUS
      <3>1. Before(x, y) \/ Before(y, x)
        BY BeforeOrder
      <3>2. R[x] = Cardinality(UpTo(x)) /\ R[y] = Cardinality(UpTo(y))
        OBVIOUS
      <3> HIDE DEF R, UpTo
      <3> QED BY <1>2, <1>3, <3>1, <3>2
    <2> HIDE DEF R
    <2> QED BY <2>1, <2>2 DEF Injection, IsInjective
  <1>6. R \in Surjection(S, 1..n)
    <2>1. IsFiniteSet(1..n) /\ Cardinality(1..n) = n
      BY <1>1, FS_Interval
    <2> HIDE DEF R
    <2> QED BY <1>5, <2>1, FS_Injection
  <1>7. \A k \in 1..n : \E x \in S : R[x] = k
    <2> HIDE DEF R
    <2> QED BY <1>6 DEF Surjection
  <1> DEFINE s == [k \in 1..n |-> CHOOSE x \in S : R[x] = k]
  <1>8. \A k \in 1..n : s[k] \in S /\ R[s[k]] = k
    <2> TAKE k \in 1..n
    <2>1. s[k] = CHOOSE x \in S : R[x] = k
      OBVIOUS
    <2>2. \E x \in S : R[x] = k
      BY <1>7
    <2> HIDE DEF R, n, s
    <2> QED BY <2>1, <2>2
  <1>9. s \in [1..n -> S]
    <2>1. \A k \in 1..n : (CHOOSE x \in S : R[x] = k) \in S
      <3> HIDE DEF R
      <3> QED BY <1>7
    <2> HIDE DEF R, n
    <2> QED BY <2>1
  <1>10. ASSUME NEW j \in 1..n, NEW k \in 1..n, j < k PROVE Before(s[j], s[k])
    <2>1. /\ s[j] \in S /\ s[k] \in S
          /\ Cardinality(UpTo(s[j])) = j /\ Cardinality(UpTo(s[k])) = k
      <3> HIDE DEF s
      <3> QED BY <1>8
    <2>2. CASE Before(s[k], s[j])
      <3> HIDE DEF s, UpTo
      <3> QED BY <1>3, <1>10, <2>1, <2>2
    <2>3. CASE s[k] = s[j]
      <3> HIDE DEF s, UpTo
      <3> QED BY <1>10, <2>1, <2>3
    <2> HIDE DEF s
    <2> QED BY <2>1, <2>2, <2>3, BeforeOrder
  <1>11. DOMAIN s = 1..n
    OBVIOUS
  <1> HIDE DEF s
  <1> QED BY <1>9, <1>10, <1>11

\* s has every interval of S, in the order they start.
Queue(s, S) ==
  /\ Len(s) \in Nat /\ s \in [1..Len(s) -> S]
  /\ \A j, k \in 1..Len(s) : j < k => s[j].start <= s[k].start
  /\ \A x \in S : \E k \in 1..Len(s) : s[k] = x

(***************************************************************************)
(* What InTurn returns: every interval, in order.                          *)
(***************************************************************************)
LEMMA InTurnFacts ==
  ASSUME NEW d, NEW f, NEW S \in SUBSET Lane(d, f), IsFiniteSet(S)
  PROVE  Queue(InTurn(S), S)
  <1> DEFINE n == Cardinality(S)
             s == InTurn(S)
  <1>1. n \in Nat
    BY FS_CardinalityType
  <1>2. s \in [1..n -> S] /\ \A j, k \in DOMAIN s : j < k => Before(s[j], s[k])
    BY TurnsExist DEF InTurn
  <1> HIDE DEF s
  <1>3. ASSUME NEW j \in 1..n, NEW k \in 1..n, j < k
        PROVE  s[j] # s[k] /\ s[j].start <= s[k].start
    <2>1. Before(s[j], s[k]) /\ s[j] \in Lane(d, f) /\ s[k] \in Lane(d, f)
      BY <1>2, <1>3
    <2> QED BY <2>1, BeforeOrder DEF Before, Lane
  <1>4. s \in Surjection(1..n, S)
    <2>1. \A j, k \in 1..n : s[j] = s[k] => j = k
      <3> SUFFICES ASSUME NEW j \in 1..n, NEW k \in 1..n, s[j] = s[k] PROVE j = k
        OBVIOUS
      <3>1. ~(j < k) /\ ~(k < j)
        BY <1>3
      <3> QED BY <1>1, <3>1
    <2>2. s \in Injection(1..n, S)
      BY <1>2, <2>1 DEF Injection, IsInjective
    <2>3. Cardinality(1..n) = n
      BY <1>1, FS_Interval
    <2> QED BY <2>2, <2>3, FS_Injection
  <1>5. Len(s) = n
    <2> HIDE DEF n
    <2> QED BY <1>1, <1>2
  <1> QED BY <1>1, <1>2, <1>3, <1>4, <1>5 DEF s, Surjection, Queue

\* Intervals in order, none empty, with a gap between any two.
Tidy(out, d, f) ==
  /\ out \in Seq(Lane(d, f))
  /\ \A i \in 1..Len(out) : out[i].start < out[i].end
  /\ \A i, j \in 1..Len(out) : i < j => out[i].end < out[j].start

\* An interval of the sequence holds the instant.
Among(out, u) == \E i \in 1..Len(out) : Holds(out[i], u)

(***************************************************************************)
(* One turn of the loop of mergeIntervals: the next interval is added to   *)
(* the instants held, and the order and the gaps stay.                     *)
(***************************************************************************)
LEMMA AbsorbFacts ==
  ASSUME NEW d, NEW f, NEW out, Tidy(out, d, f),
         NEW next \in Lane(d, f), next.start < next.end,
         \A i \in 1..Len(out) : out[i].start <= next.start
  PROVE  /\ Tidy(Absorb(out, next), d, f)
         /\ \A i \in 1..Len(Absorb(out, next)) : Absorb(out, next)[i].start <= next.start
         /\ \A u \in Int : Among(Absorb(out, next), u) <=> Among(out, u) \/ Holds(next, u)
  <1> DEFINE n == Len(out)
             cur == out[n]
             new == Absorb(out, next)
             wide == [cur EXCEPT !.end = Max({cur.end, next.end})]
  <1>1. /\ out \in Seq(Lane(d, f)) /\ n \in Nat /\ DOMAIN out = 1..n
        /\ \A i \in 1..n : out[i] \in Lane(d, f)
    BY DEF Tidy
  <1>2. next.start \in Int /\ next.end \in Int
    BY DEF Lane
  <1>3. CASE out # <<>> /\ next.start <= cur.end
    <2>1. n >= 1 /\ n \in 1..n /\ cur \in Lane(d, f)
      BY <1>1, <1>3
    <2>2. /\ cur.start \in Int /\ cur.end \in Int
          /\ cur.start <= next.start /\ cur.start < cur.end
      BY <2>1 DEF Tidy, Lane
    <2>3. /\ wide \in Lane(d, f) /\ wide.start = cur.start
          /\ wide.end = (IF cur.end >= next.end THEN cur.end ELSE next.end)
      BY <1>2, <2>1, <2>2, MaxMin DEF Lane
    <2>4. /\ new \in Seq(Lane(d, f)) /\ Len(new) = n /\ new[n] = wide
          /\ \A i \in 1..(n - 1) : new[i] = out[i]
      <3>1. new = SubSeq(out, 1, n - 1) \o <<wide>>
        BY <1>3 DEF Absorb, Last, Front
      <3>2. /\ SubSeq(out, 1, n - 1) \in Seq(Lane(d, f)) /\ Len(SubSeq(out, 1, n - 1)) = n - 1
            /\ \A i \in 1..(n - 1) : SubSeq(out, 1, n - 1)[i] = out[i]
        BY <1>1, <2>1
      <3>3. <<wide>> \in Seq(Lane(d, f)) /\ Len(<<wide>>) = 1 /\ <<wide>>[1] = wide
        BY <2>3
      <3> HIDE DEF wide, new, n
      <3> QED BY <1>1, <2>1, <3>1, <3>2, <3>3
    <2> HIDE DEF new, wide, n, cur
    <2>5. \A i \in 1..n : i = n \/ (i \in 1..(n - 1) /\ new[i] = out[i])
      BY <1>1, <2>4
    <2>6. \A i \in 1..n : /\ out[i].start \in Int /\ out[i].end \in Int
                          /\ out[i].start < out[i].end /\ out[i].start <= next.start
      BY <1>1 DEF Tidy, Lane, n
    <2>7. \A i \in 1..n : new[i].start = out[i].start
      BY <2>1, <2>3, <2>4, <2>5 DEF cur
    <2>8. Tidy(new, d, f)
      <3>1. \A i \in 1..n : new[i].start < new[i].end
        BY <1>2, <2>1, <2>2, <2>3, <2>4, <2>5, <2>6 DEF cur
      <3>2. ASSUME NEW i \in 1..n, NEW j \in 1..n, i < j
            PROVE  new[i].end < new[j].start
        <4>1. new[i] = out[i]
          BY <1>1, <2>5, <3>2
        <4>2. out[i].end < out[j].start
          BY <3>2 DEF Tidy, n
        <4> QED BY <2>7, <4>1, <4>2
      <3> QED BY <2>4, <3>1, <3>2 DEF Tidy
    <2>9. \A u \in Int : Among(new, u) <=> Among(out, u) \/ Holds(next, u)
      <3> TAKE u \in Int
      <3>1. Holds(wide, u) <=> Holds(cur, u) \/ Holds(next, u)
        BY <1>2, <2>2, <2>3, <1>3 DEF Holds, n, cur
      <3>2. Among(new, u) <=> (\E i \in 1..(n - 1) : Holds(out[i], u)) \/ Holds(wide, u)
        BY <1>1, <2>1, <2>4, <2>5 DEF Among
      <3>3. Among(out, u) <=> (\E i \in 1..(n - 1) : Holds(out[i], u)) \/ Holds(cur, u)
        BY <1>1, <2>1 DEF Among, n, cur
      <3> QED BY <3>1, <3>2, <3>3
    <2> QED BY <2>4, <2>6, <2>7, <2>8, <2>9 DEF new
  <1>4. CASE out = <<>> \/ ~(next.start <= cur.end)
    <2>1. new = Append(out, next)
      BY <1>4 DEF Absorb, Last
    <2>2. /\ new \in Seq(Lane(d, f)) /\ Len(new) = n + 1 /\ new[n + 1] = next
          /\ \A i \in 1..n : new[i] = out[i]
      BY <1>1, <2>1
    <2>3. \A i \in 1..n : /\ out[i].start \in Int /\ out[i].end \in Int
                          /\ out[i].start < out[i].end /\ out[i].start <= next.start
      BY <1>1 DEF Tidy, Lane
    <2>4. \A i \in 1..n : out[i].end < next.start
      <3> SUFFICES ASSUME NEW i \in 1..n PROVE out[i].end < next.start
        OBVIOUS
      <3>1. n \in 1..n /\ out # <<>>
        BY <1>1
      <3>2. cur.end < next.start
        BY <1>2, <1>4, <2>3, <3>1
      <3>3. i = n \/ i < n
        <4>1. i \in 1..n /\ n \in Nat
          BY <1>1
        <4> HIDE DEF n
        <4> QED BY <4>1
      <3>4. i < n => out[i].end < out[n].start
        BY <3>1 DEF Tidy
      <3> QED BY <1>2, <2>3, <3>1, <3>2, <3>3, <3>4
    <2> HIDE DEF new, cur, n
    <2>5. \A i \in 1..(n + 1) : i = n + 1 \/ i \in 1..n
      BY <1>1
    <2>6. Tidy(new, d, f)
      <3>1. \A i \in 1..(n + 1) : new[i].start < new[i].end
        BY <2>2, <2>3, <2>5
      <3>2. ASSUME NEW i \in 1..(n + 1), NEW j \in 1..(n + 1), i < j
            PROVE  new[i].end < new[j].start
        <4>1. i \in 1..n
          BY <1>1, <3>2
        <4>2. j \in 1..n => out[i].end < out[j].start
          BY <3>2, <4>1 DEF Tidy, n
        <4> QED BY <2>2, <2>4, <2>5, <4>1, <4>2
      <3> QED BY <2>2, <3>1, <3>2 DEF Tidy
    <2>7. \A i \in 1..(n + 1) : new[i].start <= next.start
      BY <1>2, <2>2, <2>3, <2>5
    <2>8. \A u \in Int : Among(new, u) <=> Among(out, u) \/ Holds(next, u)
      <3> TAKE u \in Int
      <3>1. Among(out, u) <=> \E i \in 1..n : Holds(out[i], u)
        BY DEF Among, n
      <3>2. Among(new, u) <=> \E i \in 1..(n + 1) : Holds(new[i], u)
        BY <2>2 DEF Among
      <3>3. n + 1 \in 1..(n + 1) /\ \A i \in 1..n : i \in 1..(n + 1)
        BY <1>1
      <3> QED BY <2>2, <2>5, <3>1, <3>2, <3>3
    <2> QED BY <2>2, <2>6, <2>7, <2>8 DEF new
  <1> QED BY <1>3, <1>4

\* The turns of the loop over s, up to the n-th.
Turns(s, n, g) == g = [k \in 0..n |-> IF k = 0 THEN <<>> ELSE Absorb(g[k - 1], s[k])]

(***************************************************************************)
(* The loop of mergeIntervals runs to the end of any sequence.             *)
(***************************************************************************)
LEMMA LoopRuns ==
  ASSUME NEW s, NEW n \in Nat
  PROVE  \E g : Turns(s, n, g)
  <1> DEFINE T == {m \in Nat : ~\E g : Turns(s, m, g)}
  <1>1. ASSUME T # {} PROVE FALSE
    <2>1. PICK m \in T : \A x \in T : m <= x
      BY <1>1, LeastOf
    <2>2. m \in Nat /\ ~\E g : Turns(s, m, g)
      OBVIOUS
    <2>3. CASE m = 0
      <3> DEFINE g == [k \in 0..0 |-> <<>>]
      <3>1. g = [k \in 0..0 |-> IF k = 0 THEN <<>> ELSE Absorb(g[k - 1], s[k])]
        OBVIOUS
      <3> QED BY <2>2, <2>3, <3>1 DEF Turns
    <2>4. CASE m # 0
      <3>1. m - 1 \in Nat /\ m - 1 \notin T
        BY <2>1, <2>2, <2>4
      <3>2. PICK g : Turns(s, m - 1, g)
        BY <3>1
      <3> DEFINE f == [k \in 0..m |-> IF k = m THEN Absorb(g[m - 1], s[m]) ELSE g[k]]
                 b == [k \in 0..m |-> IF k = 0 THEN <<>> ELSE Absorb(f[k - 1], s[k])]
      <3>3. ASSUME NEW k \in 0..m PROVE f[k] = b[k]
        <4>1. CASE k = m
          <5>1. m - 1 \in 0..m /\ m - 1 # m
            BY <2>2, <2>4
          <5>2. f[m - 1] = g[m - 1]
            BY <5>1
          <5> QED BY <2>4, <4>1, <5>2
        <4>2. CASE k # m
          <5>1. k \in 0..(m - 1)
            BY <2>2, <4>2
          <5>2. f[k] = g[k]
            BY <4>2
          <5>3. g[k] = IF k = 0 THEN <<>> ELSE Absorb(g[k - 1], s[k])
            BY <3>2, <5>1 DEF Turns
          <5>4. k # 0 => k - 1 \in 0..m /\ k - 1 # m
            BY <2>2, <5>1
          <5>5. k # 0 => f[k - 1] = g[k - 1]
            BY <5>4
          <5> QED BY <5>2, <5>3, <5>5
        <4> QED BY <4>1, <4>2
      <3>4. f = b
        <4>1. f = [k \in 0..m |-> f[k]] /\ b = [k \in 0..m |-> b[k]]
          OBVIOUS
        <4> HIDE DEF f, b
        <4> QED BY <3>3, <4>1
      <3>5. Turns(s, m, f)
        <4> HIDE DEF f
        <4> QED BY <3>4 DEF Turns
      <3> QED BY <2>2, <3>5
    <2> QED BY <2>3, <2>4
  <1> QED BY <1>1

(***************************************************************************)
(* What mergeIntervals returns is what its last turn leaves.               *)
(***************************************************************************)
LEMMA MergeIs ==
  ASSUME NEW S, Len(InTurn(S)) \in Nat
  PROVE  \E g : /\ Turns(InTurn(S), Len(InTurn(S)), g)
                /\ MergeIntervals(S) = ToSet(g[Len(InTurn(S))])
  <1> DEFINE s == InTurn(S)
             n == Len(s)
             g == CHOOSE g : g = [k \in 0..n |-> IF k = 0 THEN <<>> ELSE Absorb(g[k - 1], s[k])]
  <1>1. MergeIntervals(S) = ToSet(g[n])
    BY DEF MergeIntervals
  <1>2. g = CHOOSE f : Turns(s, n, f)
    BY DEF Turns
  <1> HIDE DEF g, s, n
  <1>3. Turns(s, n, g)
    BY <1>2, LoopRuns DEF s, n
  <1> QED BY <1>1, <1>3 DEF s, n

(***************************************************************************)
(* mergeIntervals keeps the instants that its intervals hold, in intervals *)
(* between any two of which there is a gap.                                *)
(***************************************************************************)
LEMMA MergeFacts ==
  ASSUME NEW d, NEW f, NEW S \in SUBSET Lane(d, f), IsFiniteSet(S),
         \A x \in S : x.start < x.end
  PROVE  /\ MergeIntervals(S) \subseteq Lane(d, f)
         /\ \A x \in MergeIntervals(S) : x.start < x.end
         /\ \A x, y \in MergeIntervals(S) : x = y \/ x.end < y.start \/ y.end < x.start
         /\ \A u \in Int : (\E x \in MergeIntervals(S) : Holds(x, u))
                             <=> (\E x \in S : Holds(x, u))
  <1> DEFINE s == InTurn(S)
             n == Len(s)
  <1>0. Queue(s, S)
    BY InTurnFacts
  <1>1. /\ n \in Nat /\ s \in [1..n -> S]
        /\ \A j, k \in 1..n : j < k => s[j].start <= s[k].start
        /\ \A x \in S : \E k \in 1..n : s[k] = x
    BY <1>0 DEF Queue
  <1> HIDE DEF s, n
  <1>2. PICK g : Turns(s, n, g) /\ MergeIntervals(S) = ToSet(g[n])
    BY <1>1, MergeIs DEF s, n
  <1>3. \A k \in 0..n : g[k] = IF k = 0 THEN <<>> ELSE Absorb(g[k - 1], s[k])
    BY <1>2 DEF Turns
  \* After k turns.
  <1> DEFINE Good(k) ==
        /\ Tidy(g[k], d, f)
        /\ k > 0 => \A i \in 1..Len(g[k]) : g[k][i].start <= s[k].start
        /\ \A u \in Int : Among(g[k], u) <=> \E j \in 1..k : Holds(s[j], u)
             T == {k \in 0..n : ~Good(k)}
  <1>4. Good(0)
    <2>1. g[0] = <<>>
      BY <1>1, <1>3
    <2>2. Len(<<>>) = 0 /\ <<>> \in Seq(Lane(d, f))
      OBVIOUS
    <2> QED BY <2>1, <2>2 DEF Tidy, Among
  <1>5. ASSUME NEW k \in 1..n, Good(k - 1) PROVE Good(k)
    <2>1. k \in 0..n /\ k # 0 /\ k - 1 \in 0..n /\ k \in Nat
      BY <1>1
    <2>2. g[k] = Absorb(g[k - 1], s[k])
      BY <1>3, <2>1
    <2>3. s[k] \in Lane(d, f) /\ s[k].start < s[k].end
      BY <1>1
    <2>4. Tidy(g[k - 1], d, f)
      BY <1>5
    <2>5. \A i \in 1..Len(g[k - 1]) : g[k - 1][i].start <= s[k].start
      <3>1. CASE k = 1
        <4>1. g[k - 1] = <<>>
          BY <1>1, <1>3, <3>1
        <4> QED BY <4>1
      <3>2. CASE k # 1
        <4>1. k - 1 \in 1..n /\ k - 1 < k /\ k - 1 > 0
          BY <2>1, <3>2
        <4>2. s[k - 1].start <= s[k].start /\ s[k - 1].start \in Int /\ s[k].start \in Int
          <5>1. s[k - 1] \in Lane(d, f)
            BY <1>1, <4>1
          <5> QED BY <1>1, <2>3, <4>1, <5>1 DEF Lane
        <4>3. \A i \in 1..Len(g[k - 1]) : g[k - 1][i].start <= s[k - 1].start
          BY <1>5, <4>1
        <4>4. \A i \in 1..Len(g[k - 1]) : g[k - 1][i].start \in Int
          <5>1. \A i \in 1..Len(g[k - 1]) : g[k - 1][i] \in Lane(d, f)
            BY <2>4 DEF Tidy
          <5> QED BY <5>1 DEF Lane
        <4> HIDE DEF Good
        <4> QED BY <4>2, <4>3, <4>4
      <3> QED BY <3>1, <3>2
    <2>6. /\ Tidy(g[k], d, f)
          /\ \A i \in 1..Len(g[k]) : g[k][i].start <= s[k].start
          /\ \A u \in Int : Among(g[k], u) <=> Among(g[k - 1], u) \/ Holds(s[k], u)
      BY <2>2, <2>3, <2>4, <2>5, AbsorbFacts
    <2>7. \A j \in 1..k : j = k \/ j \in 1..(k - 1)
      BY <2>1
    <2>8. k \in 1..k /\ \A j \in 1..(k - 1) : j \in 1..k
      BY <2>1
    <2>9. \A u \in Int : Among(g[k - 1], u) <=> \E j \in 1..(k - 1) : Holds(s[j], u)
      BY <1>5
    <2> QED BY <2>6, <2>7, <2>8, <2>9
  <1>6. Good(n)
    <2> HIDE DEF Good
    <2>1. T = {}
      <3>1. ASSUME T # {} PROVE FALSE
        <4>0. T \in SUBSET Nat
          BY <1>1
        <4>1. PICK m \in T : \A x \in T : m <= x
          <5> HIDE DEF T
          <5> QED BY <3>1, <4>0, LeastOf
        <4>2. m # 0
          BY <1>4, <4>1
        <4>3. m \in 1..n /\ m - 1 \in 0..n /\ ~(m <= m - 1)
          BY <1>1, <4>1, <4>2
        <4>4. Good(m - 1)
          BY <4>1, <4>3
        <4> QED BY <1>5, <4>1, <4>3, <4>4
      <3> QED BY <3>1
    <2>2. n \in 0..n
      BY <1>1
    <2> QED BY <2>1, <2>2
  <1>7. ToSet(g[n]) = {g[n][i] : i \in 1..Len(g[n])}
    <2>1. DOMAIN g[n] = 1..Len(g[n])
      BY <1>6 DEF Tidy
    <2> QED BY <2>1 DEF ToSet
  <1>8. Tidy(g[n], d, f)
    BY <1>6
  <1>9. Len(g[n]) \in Nat /\ \A i \in 1..Len(g[n]) : g[n][i] \in Lane(d, f)
    BY <1>8 DEF Tidy
  <1>10. \A i, j \in 1..Len(g[n]) : i = j \/ i < j \/ j < i
    BY <1>9
  <1>11. \A i, j \in 1..Len(g[n]) : i < j => g[n][i].end < g[n][j].start
    BY <1>8 DEF Tidy
  <1>12. ASSUME NEW u \in Int
         PROVE  (\E x \in MergeIntervals(S) : Holds(x, u)) <=> (\E x \in S : Holds(x, u))
    <2>1. (\E x \in MergeIntervals(S) : Holds(x, u)) <=> Among(g[n], u)
      BY <1>2, <1>7 DEF Among
    <2>2. Among(g[n], u) <=> \E j \in 1..n : Holds(s[j], u)
      BY <1>6
    <2>3. (\E j \in 1..n : Holds(s[j], u)) <=> (\E x \in S : Holds(x, u))
      BY <1>1
    <2> QED BY <2>1, <2>2, <2>3
  <1> HIDE DEF Good
  <1> QED
    <2>1. MergeIntervals(S) \subseteq Lane(d, f)
      BY <1>2, <1>7, <1>9
    <2>2. \A x \in MergeIntervals(S) : x.start < x.end
      BY <1>2, <1>7, <1>8 DEF Tidy
    <2>3. \A x, y \in MergeIntervals(S) : x = y \/ x.end < y.start \/ y.end < x.start
      BY <1>2, <1>7, <1>10, <1>11
    <2> QED BY <1>12, <2>1, <2>2, <2>3

-----------------------------------------------------------------------------
(* Offsets and days *)

ZoneOK(z) == z.before \in Int /\ z.at \in Int /\ z.after \in Int

\* What a request can be computed from: finitely many rules with times of day,
\* a zone and a window.
QueryOK(q) ==
  /\ ZoneOK(q.zone) /\ q.from \in Int /\ q.to \in Int /\ q.dur \in Int
  /\ IsFiniteSet(q.rules)
  /\ \A r \in q.rules : r.start \in 0..(DayLen - 1) /\ r.end \in 0..(DayLen - 1)

(***************************************************************************)
(* time.Date takes one of the two offsets.                                 *)
(***************************************************************************)
LEMMA DateOfEither ==
  ASSUME NEW z, ZoneOK(z), NEW l \in Int
  PROVE  /\ DateOf(z, l) \in Int
         /\ DateOf(z, l) =
              IF IF l < z.at THEN l - z.before < z.at ELSE l - z.after < z.at
              THEN l - z.before ELSE l - z.after
  <1>1. z.before \in Int /\ z.at \in Int /\ z.after \in Int
    BY DEF ZoneOK
  <1>2. CASE l < z.at
    BY <1>1, <1>2 DEF DateOf, Offset
  <1>3. CASE ~(l < z.at)
    BY <1>1, <1>3 DEF DateOf, Offset
  <1> QED BY <1>2, <1>3

\* Times skipped by the change of offset are not nearer to a midnight than
\* there are of them.
KeepsMidnight(z) ==
  LET skipped == z.after - z.before
  IN skipped > 0 =>
       \A d \in Int : \/ d * DayLen < z.at + z.before - skipped
                      \/ d * DayLen > z.at + z.after + skipped

(***************************************************************************)
(* Times of different days keep their order.                               *)
(***************************************************************************)
LEMMA DaysInOrder ==
  ASSUME NEW z, ZoneOK(z), KeepsMidnight(z),
         NEW d \in Int, NEW l \in Int, NEW m \in Int, l < d * DayLen, d * DayLen <= m
  PROVE  DateOf(z, l) <= DateOf(z, m)
  <1> DEFINE n == d * DayLen
  <1>1. n \in Int
    BY SlotsAssumption
  <1>2. z.after - z.before > 0 => \/ n < z.at + z.before - (z.after - z.before)
                                  \/ n > z.at + z.after + (z.after - z.before)
    BY DEF KeepsMidnight
  <1>3. l < n /\ n <= m
    OBVIOUS
  <1>4. z.before \in Int /\ z.at \in Int /\ z.after \in Int
    BY DEF ZoneOK
  <1> HIDE DEF n
  <1> DEFINE a == z.after
             b == z.before
             c == z.at
             x == DateOf(z, l)
             y == DateOf(z, m)
  <1>5. /\ x = IF IF l < c THEN l - b < c ELSE l - a < c THEN l - b ELSE l - a
        /\ y = IF IF m < c THEN m - b < c ELSE m - a < c THEN m - b ELSE m - a
    BY DateOfEither
  <1> HIDE DEF a, b, c, x, y
  <1>6. /\ a \in Int /\ b \in Int /\ c \in Int
        /\ a - b > 0 => n < c + b - (a - b) \/ n > c + a + (a - b)
    BY <1>2, <1>4 DEF a, b, c
  <1>7. x <= y
    <2>1. CASE a <= b
      BY <1>1, <1>3, <1>5, <1>6, <2>1
    <2>2. CASE a > b
      BY <1>1, <1>3, <1>5, <1>6, <2>2
    <2> QED BY <1>6, <2>1, <2>2
  <1> QED BY <1>7 DEF x, y

(***************************************************************************)
(* The slots of an interval follow one another inside it.                  *)
(***************************************************************************)
LEMMA CutFacts ==
  ASSUME NEW iv, iv.start \in Int, iv.end \in Int, NEW dur \in Int, dur > 0
  PROVE  /\ \A s \in Cut(iv, dur) :
              /\ s.staff = iv.staff /\ s.start \in Int /\ s.end \in Int
              /\ iv.start <= s.start /\ s.end <= iv.end /\ s.start < s.end
         /\ \A s, t \in Cut(iv, dur) : s = t \/ s.end <= t.start \/ t.end <= s.start
  <1> DEFINE x == iv.start
             y == iv.end
             n == (y - x) \div dur
             K == 0..(n - 1)
             slot(k) == [staff |-> iv.staff, start |-> x + k * dur, end |-> x + (k + 1) * dur]
  <1>1. x \in Int /\ y \in Int /\ n \in Int /\ n * dur <= y - x
    OBVIOUS
  <1>2. Cut(iv, dur) = {slot(k) : k \in K}
    BY DEF Cut
  <1>3. ASSUME NEW k \in K
        PROVE  k * dur \in Int /\ (k + 1) * dur \in Int /\ 0 <= k * dur
               /\ (k + 1) * dur <= y - x /\ (k + 1) * dur = k * dur + dur
    <2>1. k \in Int /\ 0 <= k /\ k + 1 <= n
      BY <1>1
    <2> HIDE DEF n, K, x, y
    <2>2. k * dur \in Int /\ (k + 1) * dur \in Int /\ 0 <= k * dur /\ (k + 1) * dur = k * dur + dur
      BY <2>1
    <2>3. (k + 1) * dur <= n * dur
      BY <1>1, <2>1
    <2> QED BY <1>1, <2>2, <2>3
  <1>4. ASSUME NEW j \in K, NEW k \in K, j < k
        PROVE  (j + 1) * dur <= k * dur
    <2>1. j \in Int /\ k \in Int /\ j + 1 <= k
      BY <1>1, <1>4
    <2> QED BY <2>1
  <1> HIDE DEF n, x, y
  <1>5. ASSUME NEW s \in Cut(iv, dur)
        PROVE  /\ s.staff = iv.staff /\ s.start \in Int /\ s.end \in Int
               /\ x <= s.start /\ s.end <= y /\ s.start < s.end
    <2>1. PICK k \in K : s = slot(k)
      BY <1>2
    <2> HIDE DEF K
    <2> QED BY <1>1, <1>3, <2>1
  <1>6. ASSUME NEW s \in Cut(iv, dur), NEW t \in Cut(iv, dur)
        PROVE  s = t \/ s.end <= t.start \/ t.end <= s.start
    <2>1. PICK j \in K : s = slot(j)
      BY <1>2
    <2>2. PICK k \in K : t = slot(k)
      BY <1>2
    <2>3. j = k \/ j < k \/ k < j
      BY <1>1
    <2> HIDE DEF K
    <2> QED BY <1>1, <1>3, <1>4, <2>1, <2>2, <2>3
  <1> QED BY <1>5, <1>6 DEF x, y

-----------------------------------------------------------------------------
(* Days and segments *)

FirstMidnight(q) == DateOf(q.zone, LocalDay(q.zone, q.from) * DayLen)

\* The instants of the day loop, up to the n-th.
Visits(q, n, g) ==
  g = [k \in 0..n |-> IF k = 0 THEN FirstMidnight(q)
                               ELSE DateOf(q.zone, Local(q.zone, g[k - 1]) + DayLen)]

(***************************************************************************)
(* The day loop runs to any turn.                                          *)
(***************************************************************************)
LEMMA VisitsRun ==
  ASSUME NEW q, NEW n \in Nat
  PROVE  \E g : Visits(q, n, g)
  <1> DEFINE T == {m \in Nat : ~\E g : Visits(q, m, g)}
             next(u) == DateOf(q.zone, Local(q.zone, u) + DayLen)
  <1>1. ASSUME T # {} PROVE FALSE
    <2>1. PICK m \in T : \A x \in T : m <= x
      BY <1>1, LeastOf
    <2>2. m \in Nat /\ ~\E g : Visits(q, m, g)
      OBVIOUS
    <2>3. CASE m = 0
      <3> DEFINE g == [k \in 0..0 |-> FirstMidnight(q)]
      <3>1. g = [k \in 0..0 |-> IF k = 0 THEN FirstMidnight(q) ELSE next(g[k - 1])]
        OBVIOUS
      <3> QED BY <2>2, <2>3, <3>1 DEF Visits
    <2>4. CASE m # 0
      <3>1. m - 1 \in Nat /\ m - 1 \notin T
        BY <2>1, <2>2, <2>4
      <3>2. PICK g : Visits(q, m - 1, g)
        BY <3>1
      <3>3. \A k \in 0..(m - 1) : g[k] = IF k = 0 THEN FirstMidnight(q) ELSE next(g[k - 1])
        BY <3>2 DEF Visits
      <3> HIDE DEF next
      <3> DEFINE f == [k \in 0..m |-> IF k = m THEN next(g[m - 1]) ELSE g[k]]
                 b == [k \in 0..m |-> IF k = 0 THEN FirstMidnight(q) ELSE next(f[k - 1])]
      <3>4. ASSUME NEW k \in 0..m PROVE f[k] = b[k]
        <4>1. CASE k = m
          <5>1. m - 1 \in 0..m /\ m - 1 # m
            BY <2>2, <2>4
          <5>2. f[m - 1] = g[m - 1]
            BY <5>1
          <5> QED BY <2>4, <4>1, <5>2
        <4>2. CASE k # m
          <5>1. k \in 0..(m - 1)
            BY <2>2, <4>2
          <5>2. f[k] = g[k]
            BY <4>2
          <5>3. k # 0 => k - 1 \in 0..m /\ k - 1 # m
            BY <2>2, <5>1
          <5>4. k # 0 => f[k - 1] = g[k - 1]
            BY <5>3
          <5> QED BY <3>3, <5>1, <5>2, <5>4
        <4> QED BY <4>1, <4>2
      <3>5. f = b
        <4>1. f = [k \in 0..m |-> f[k]] /\ b = [k \in 0..m |-> b[k]]
          OBVIOUS
        <4> HIDE DEF f, b
        <4> QED BY <3>4, <4>1
      <3>6. Visits(q, m, f)
        <4> HIDE DEF f
        <4> QED BY <3>5 DEF Visits, next
      <3> QED BY <2>2, <3>6
    <2> QED BY <2>3, <2>4
  <1> QED BY <1>1

\* The last turn that Days looks at.
LastVisit(q) == (q.to - q.from) \div DayLen + 2

(***************************************************************************)
(* Days are what the loop visits, up to midnight of the last day.          *)
(***************************************************************************)
LEMMA DaysFacts ==
  ASSUME NEW q, QueryOK(q), q.from < q.to
  PROVE  /\ LastVisit(q) \in Nat
         /\ FirstMidnight(q) \in Int
         /\ \E g : /\ \A k \in 0..LastVisit(q) :
                        /\ g[k] \in Int
                        /\ g[k] = IF k = 0 THEN FirstMidnight(q)
                                  ELSE DateOf(q.zone, Local(q.zone, g[k - 1]) + DayLen)
                   /\ Days(q) = {u \in {g[k] : k \in 0..LastVisit(q)} :
                                   u <= DateOf(q.zone, LocalDay(q.zone, q.to) * DayLen)}
  <1> DEFINE last == LastVisit(q)
             next(u) == DateOf(q.zone, Local(q.zone, u) + DayLen)
             g == CHOOSE g : g = [k \in 0..last |->
                    IF k = 0 THEN FirstMidnight(q) ELSE next(g[k - 1])]
  <1>1. last \in Nat
    BY SlotsAssumption DEF QueryOK, LastVisit
  <1>2. Days(q) = {u \in {g[k] : k \in 0..last} :
                     u <= DateOf(q.zone, LocalDay(q.zone, q.to) * DayLen)}
    BY DEF Days, LastVisit, FirstMidnight
  <1>3. g = CHOOSE f : Visits(q, last, f)
    BY DEF Visits
  <1> HIDE DEF g, last
  <1>4. Visits(q, last, g)
    BY <1>1, <1>3, VisitsRun
  <1>5. \A k \in 0..last : g[k] = IF k = 0 THEN FirstMidnight(q) ELSE next(g[k - 1])
    BY <1>4 DEF Visits
  <1>6. \A u \in Int : Local(q.zone, u) \in Int /\ LocalDay(q.zone, u) * DayLen \in Int
    BY SlotsAssumption DEF QueryOK, ZoneOK, Local, LocalDay, Offset
  <1>7. FirstMidnight(q) \in Int
    BY <1>6, DateOfEither DEF QueryOK, FirstMidnight
  <1>8. \A u \in Int : next(u) \in Int
    BY <1>6, DateOfEither, SlotsAssumption DEF QueryOK
  <1> HIDE DEF next
  <1>9. \A k \in 0..last : g[k] \in Int
    <2> DEFINE T == {k \in 0..last : g[k] \notin Int}
    <2>1. ASSUME T # {} PROVE FALSE
      <3>1. T \in SUBSET Nat
        BY <1>1
      <3>2. PICK k \in T : \A x \in T : k <= x
        <4> HIDE DEF T
        <4> QED BY <2>1, <3>1, LeastOf
      <3>3. k # 0
        BY <1>5, <1>7, <3>2
      <3>4. k \in 0..last /\ k - 1 \in 0..last /\ ~(k <= k - 1)
        BY <1>1, <3>3
      <3>5. g[k - 1] \in Int
        BY <3>2, <3>4
      <3>6. g[k] \in Int
        BY <1>5, <1>8, <3>3, <3>4, <3>5
      <3> QED BY <3>6
    <2> QED BY <2>1
  <1>10. \A k \in 0..last :
            g[k] = IF k = 0 THEN FirstMidnight(q)
                   ELSE DateOf(q.zone, Local(q.zone, g[k - 1]) + DayLen)
    BY <1>5 DEF next
  <1> QED BY <1>1, <1>2, <1>7, <1>9, <1>10 DEF last

(***************************************************************************)
(* A segment is what a matching rule opens on a day, and long enough.      *)
(***************************************************************************)
LEMMA SegmentFacts ==
  ASSUME NEW q, QueryOK(q), q.from < q.to, q.dur > 0, NEW s \in Segments(q)
  PROVE  /\ s.day \in Int /\ s \in Lane(s.day, s.staff) /\ s.start < s.end
         /\ \E r \in q.rules :
              /\ Matches(r, q.service, q.staff) /\ r.day = s.day % 7
              /\ s = Segment(r, s.day, q)
              /\ OpensIn(r, s.day, q)
              /\ s.staff = EffectiveStaff(r, q)
              /\ q.from <= s.start /\ s.end <= q.to
              /\ DateOf(q.zone, s.day * DayLen + r.start) <= s.start
              /\ s.end <= DateOf(q.zone, s.day * DayLen + r.end)
  <1>1. PICK r \in q.rules, u \in Days(q) :
          LET day == LocalDay(q.zone, u)
          IN /\ Matches(r, q.service, q.staff) /\ r.day = day % 7 /\ OpensIn(r, day, q)
             /\ s = Segment(r, day, q) /\ s.end - s.start >= q.dur
    BY DEF Segments
  <1> DEFINE day == LocalDay(q.zone, u)
             opens == DateOf(q.zone, day * DayLen + r.start)
             closes == DateOf(q.zone, day * DayLen + r.end)
  <1>2. u \in Int
    <2>1. PICK g : /\ \A k \in 0..LastVisit(q) : g[k] \in Int
                   /\ Days(q) = {v \in {g[k] : k \in 0..LastVisit(q)} :
                                   v <= DateOf(q.zone, LocalDay(q.zone, q.to) * DayLen)}
      BY DaysFacts
    <2> QED BY <2>1
  <1>3. day \in Int
    BY <1>2, SlotsAssumption DEF LocalDay, Local, Offset, QueryOK, ZoneOK
  <1>4. opens \in Int /\ closes \in Int
    <2>1. r.start \in Int /\ r.end \in Int
      BY SlotsAssumption DEF QueryOK
    <2>2. day * DayLen + r.start \in Int /\ day * DayLen + r.end \in Int
      <3> HIDE DEF day
      <3> QED BY <1>3, <2>1, SlotsAssumption
    <2> HIDE DEF day
    <2> QED BY <2>2, DateOfEither DEF QueryOK
  <1>5. /\ s.day = day /\ s.staff = EffectiveStaff(r, q)
        /\ s.start = Max({opens, q.from}) /\ s.end = Min({closes, q.to})
        /\ s = [day |-> s.day, staff |-> s.staff, start |-> s.start, end |-> s.end]
    BY <1>1 DEF Segment
  <1> HIDE DEF day, opens, closes
  <1>6. /\ s.start \in Int /\ s.end \in Int /\ opens <= s.start /\ q.from <= s.start
        /\ s.end <= closes /\ s.end <= q.to
    <2>1. q.from \in Int /\ q.to \in Int
      BY DEF QueryOK
    <2>2. Max({opens, q.from}) = IF opens >= q.from THEN opens ELSE q.from
      BY <1>4, <2>1, MaxMin
    <2>3. Min({closes, q.to}) = IF closes <= q.to THEN closes ELSE q.to
      BY <1>4, <2>1, MaxMin
    <2> QED BY <1>4, <1>5, <2>1, <2>2, <2>3
  <1>7. s.start < s.end
    BY <1>1, <1>6 DEF QueryOK
  <1>8. s \in Lane(s.day, s.staff)
    BY <1>5, <1>6 DEF Lane
  <1> QED BY <1>1, <1>3, <1>5, <1>6, <1>7, <1>8 DEF day, opens, closes

\* The segments of a day and a staff member.
BucketOf(q, d, f) == {t \in Segments(q) : t.day = d /\ t.staff = f}

(***************************************************************************)
(* A bucket meets what mergeIntervals needs.                               *)
(***************************************************************************)
LEMMA BucketFacts ==
  ASSUME NEW q, QueryOK(q), q.from < q.to, q.dur > 0, NEW d, NEW f
  PROVE  /\ BucketOf(q, d, f) \in SUBSET Lane(d, f)
         /\ IsFiniteSet(BucketOf(q, d, f))
         /\ \A x \in BucketOf(q, d, f) : x.start < x.end
  <1> DEFINE F == [r \in q.rules |-> Segment(r, d, q)]
             T == {F[r] : r \in q.rules}
  <1>1. F \in Surjection(q.rules, T)
    BY DEF Surjection
  <1>2. IsFiniteSet(T)
    BY <1>1, FS_Surjection DEF QueryOK
  <1>3. BucketOf(q, d, f) \subseteq T
    <2> SUFFICES ASSUME NEW s \in BucketOf(q, d, f) PROVE \E r \in q.rules : s = Segment(r, d, q)
      OBVIOUS
    <2>1. s \in Segments(q) /\ s.day = d
      BY DEF BucketOf
    <2> QED BY <2>1, SegmentFacts
  <1>4. IsFiniteSet(BucketOf(q, d, f))
    BY <1>2, <1>3, FS_Subset
  <1> QED BY <1>4, SegmentFacts DEF BucketOf

-----------------------------------------------------------------------------
(* Slots *)

\* What the segments of a day and a staff member are merged to.
MergedOf(q, d, f) == MergeIntervals(BucketOf(q, d, f))

(***************************************************************************)
(* A slot is cut from a merged interval of some day.                       *)
(***************************************************************************)
LEMMA SlotOrigin ==
  ASSUME NEW q, q.from \in Int, q.to \in Int, q.dur \in Int, NEW s \in BuildSlots(q)
  PROVE  /\ q.from < q.to /\ q.dur > 0
         /\ \E seg \in Segments(q) :
              \E iv \in MergedOf(q, seg.day, seg.staff) : s \in Cut(iv, q.dur)
  <1> DEFINE segments == Segments(q)
             Bucket(x) == {t \in segments : t.day = x.day /\ t.staff = x.staff}
  <1>1. ~(q.dur <= 0 \/ q.to <= q.from)
    BY DEF BuildSlots
  <1>2. s \in UNION {Cut(iv, q.dur) : iv \in UNION {MergeIntervals(Bucket(x)) : x \in segments}}
    BY <1>1 DEF BuildSlots
  <1>3. PICK iv \in UNION {MergeIntervals(Bucket(x)) : x \in segments} : s \in Cut(iv, q.dur)
    BY <1>2
  <1>4. PICK x \in segments : iv \in MergeIntervals(Bucket(x))
    BY <1>3
  <1>5. Bucket(x) = BucketOf(q, x.day, x.staff)
    BY DEF BucketOf
  <1>6. iv \in MergedOf(q, x.day, x.staff)
    BY <1>4, <1>5 DEF MergedOf
  <1> QED BY <1>1, <1>3, <1>6

(***************************************************************************)
(* A merged interval lies between a start and an end of its segments, and  *)
(* each of its instants in one of them.                                    *)
(***************************************************************************)
LEMMA MergedFacts ==
  ASSUME NEW q, QueryOK(q), q.from < q.to, q.dur > 0, NEW d, NEW f,
         NEW iv \in MergedOf(q, d, f)
  PROVE  /\ iv.start \in Int /\ iv.end \in Int /\ iv.start < iv.end
         /\ iv.staff = f
         /\ \A u \in Int : Holds(iv, u) => \E s \in BucketOf(q, d, f) : Holds(s, u)
         /\ \E s \in BucketOf(q, d, f) : s.start <= iv.start
         /\ \E s \in BucketOf(q, d, f) : iv.end <= s.end
  <1> DEFINE B == BucketOf(q, d, f)
  <1>1. B \in SUBSET Lane(d, f) /\ IsFiniteSet(B) /\ \A x \in B : x.start < x.end
    BY BucketFacts
  <1>2. /\ iv \in Lane(d, f) /\ iv.start < iv.end
        /\ \A u \in Int : Holds(iv, u) => \E s \in B : Holds(s, u)
    <2> HIDE DEF B
    <2>1. iv \in MergeIntervals(B)
      BY DEF MergedOf, B
    <2>2. /\ MergeIntervals(B) \subseteq Lane(d, f)
          /\ \A x \in MergeIntervals(B) : x.start < x.end
          /\ \A u \in Int : (\E x \in MergeIntervals(B) : Holds(x, u)) <=> (\E x \in B : Holds(x, u))
      BY <1>1, MergeFacts
    <2> QED BY <2>1, <2>2
  <1>3. iv.start \in Int /\ iv.end \in Int /\ iv.staff = f
    BY <1>2 DEF Lane
  <1>4. \A s \in B : s.start \in Int /\ s.end \in Int
    BY <1>1 DEF Lane
  <1> HIDE DEF B
  <1>5. \E s \in B : s.start <= iv.start
    <2>1. Holds(iv, iv.start)
      BY <1>2, <1>3 DEF Holds
    <2> QED BY <1>2, <1>3, <2>1 DEF Holds
  <1>6. \E s \in B : iv.end <= s.end
    <2>1. Holds(iv, iv.end - 1) /\ iv.end - 1 \in Int
      BY <1>2, <1>3 DEF Holds
    <2>2. PICK s \in B : Holds(s, iv.end - 1)
      BY <1>2, <2>1
    <2> QED BY <1>3, <1>4, <2>2 DEF Holds
  <1> QED BY <1>2, <1>3, <1>5, <1>6 DEF B

(***************************************************************************)
(* Merged intervals of a staff member: of one day, apart; of two days, in  *)
(* the order of the days.                                                  *)
(***************************************************************************)
LEMMA MergedDaysApart ==
  ASSUME NEW q, QueryOK(q), q.from < q.to, q.dur > 0, KeepsMidnight(q.zone),
         NEW d \in Int, NEW e \in Int, NEW f, d < e,
         NEW iv \in MergedOf(q, d, f), NEW jv \in MergedOf(q, e, f)
  PROVE  iv.end <= jv.start
  <1>1. PICK s \in BucketOf(q, d, f) : iv.end <= s.end
    BY MergedFacts
  <1>2. PICK t \in BucketOf(q, e, f) : t.start <= jv.start
    BY MergedFacts
  <1>3. s \in Segments(q) /\ s.day = d /\ t \in Segments(q) /\ t.day = e
    BY DEF BucketOf
  <1>4. PICK r \in q.rules : s.end <= DateOf(q.zone, d * DayLen + r.end)
    BY <1>3, SegmentFacts
  <1>5. PICK p \in q.rules : DateOf(q.zone, e * DayLen + p.start) <= t.start
    BY <1>3, SegmentFacts
  <1> DEFINE l == d * DayLen + r.end
             m == e * DayLen + p.start
  <1>6. l \in Int /\ m \in Int /\ l < e * DayLen /\ e * DayLen <= m
    <2>1. r.end \in Int /\ r.end < DayLen /\ p.start \in Int /\ 0 <= p.start /\ DayLen \in Nat
      BY SlotsAssumption DEF QueryOK
    <2>2. (d + 1) * DayLen <= e * DayLen
      BY <2>1
    <2>3. (d + 1) * DayLen = d * DayLen + DayLen /\ d * DayLen \in Int /\ e * DayLen \in Int
      BY <2>1
    <2> QED BY <2>1, <2>2, <2>3
  <1> HIDE DEF l, m
  <1>7. /\ DateOf(q.zone, l) <= DateOf(q.zone, m)
        /\ DateOf(q.zone, l) \in Int /\ DateOf(q.zone, m) \in Int
    BY <1>6, DaysInOrder, DateOfEither DEF QueryOK
  <1>8. s.end <= DateOf(q.zone, l) /\ DateOf(q.zone, m) <= t.start
    BY <1>4, <1>5 DEF l, m
  <1>9. s.end \in Int /\ t.start \in Int /\ iv.end \in Int /\ jv.start \in Int
    <2>1. s \in Lane(d, f) /\ t \in Lane(e, f)
      BY BucketFacts
    <2> QED BY <2>1, MergedFacts DEF Lane
  <1> QED BY <1>1, <1>2, <1>7, <1>8, <1>9

(***************************************************************************)
(* The slots of one staff member do not overlap.                           *)
(***************************************************************************)
LEMMA BuiltDisjoint ==
  ASSUME NEW q, QueryOK(q), KeepsMidnight(q.zone),
         NEW s \in BuildSlots(q), NEW t \in BuildSlots(q), s.staff = t.staff, s # t
  PROVE  s.end <= t.start \/ t.end <= s.start
  <1>1. q.from < q.to /\ q.dur > 0 /\ q.dur \in Int
    BY SlotOrigin DEF QueryOK
  <1>x. PICK x \in Segments(q) :
          \E iv \in MergedOf(q, x.day, x.staff) : s \in Cut(iv, q.dur)
    BY SlotOrigin DEF QueryOK
  <1>2. PICK iv \in MergedOf(q, x.day, x.staff) : s \in Cut(iv, q.dur)
    BY <1>x
  <1>y. PICK y \in Segments(q) :
          \E jv \in MergedOf(q, y.day, y.staff) : t \in Cut(jv, q.dur)
    BY SlotOrigin DEF QueryOK
  <1>3. PICK jv \in MergedOf(q, y.day, y.staff) : t \in Cut(jv, q.dur)
    BY <1>y
  <1>4. x.day \in Int /\ y.day \in Int
    BY <1>1, SegmentFacts
  <1>5. /\ iv.start \in Int /\ iv.end \in Int /\ iv.staff = x.staff
        /\ jv.start \in Int /\ jv.end \in Int /\ jv.staff = y.staff
    BY <1>1, MergedFacts
  <1>6. /\ s.staff = x.staff /\ iv.start <= s.start /\ s.end <= iv.end
        /\ s.start \in Int /\ s.end \in Int
    BY <1>1, <1>2, <1>5, CutFacts
  <1>7. /\ t.staff = y.staff /\ jv.start <= t.start /\ t.end <= jv.end
        /\ t.start \in Int /\ t.end \in Int
    BY <1>1, <1>3, <1>5, CutFacts
  <1>8. x.staff = y.staff
    BY <1>6, <1>7
  <1>9. CASE x.day < y.day
    <2>1. iv.end <= jv.start
      BY <1>1, <1>4, <1>8, <1>9, MergedDaysApart
    <2> QED BY <1>5, <1>6, <1>7, <2>1
  <1>10. CASE y.day < x.day
    <2>1. jv.end <= iv.start
      BY <1>1, <1>4, <1>8, <1>10, MergedDaysApart
    <2> QED BY <1>5, <1>6, <1>7, <2>1
  <1>11. CASE x.day = y.day
    <2> DEFINE B == BucketOf(q, x.day, x.staff)
    <2>1. iv \in MergeIntervals(B) /\ jv \in MergeIntervals(B)
      BY <1>8, <1>11 DEF MergedOf
    <2>2. B \in SUBSET Lane(x.day, x.staff) /\ IsFiniteSet(B) /\ \A v \in B : v.start < v.end
      BY <1>1, BucketFacts
    <2> HIDE DEF B
    <2>3. iv = jv \/ iv.end < jv.start \/ jv.end < iv.start
      BY <2>1, <2>2, MergeFacts
    <2>4. CASE iv = jv
      BY <1>1, <1>2, <1>3, <1>5, <2>4, CutFacts
    <2> QED BY <1>5, <1>6, <1>7, <2>3, <2>4
  <1> QED BY <1>4, <1>9, <1>10, <1>11

(***************************************************************************)
(* The local time at DateOf of a time that the change neither skips nor    *)
(* repeats, and the order of instants around it.                           *)
(***************************************************************************)
LEMMA ClearOrder ==
  ASSUME NEW z, ZoneOK(z), NEW l \in Int, Unambiguous(z, l), NEW u \in Int
  PROVE  DateOf(z, l) <= u <=> l <= Local(z, u)
  <1> DEFINE a == z.after
             b == z.before
             c == z.at
             Both == {v \in {l - b, l - a} : Local(z, v) = l}
  <1>1. a \in Int /\ b \in Int /\ c \in Int
    BY DEF ZoneOK
  <1>2. /\ DateOf(z, l) = IF IF l < c THEN l - b < c ELSE l - a < c THEN l - b ELSE l - a
        /\ \A v \in Int : Local(z, v) = IF v < c THEN v + b ELSE v + a
    BY DateOfEither DEF Local, Offset
  <1>3. Cardinality(Both) = 1
    BY DEF Unambiguous
  <1> HIDE DEF a, b, c
  <1>4. l - b \in Int /\ l - a \in Int
    BY <1>1
  <1>5. Both # {}
    <2>1. Cardinality({}) = 0
      BY FS_EmptySet
    <2> HIDE DEF Both
    <2> QED BY <1>3, <2>1
  <1>6. l - b \in Both /\ l - a \in Both => l - b = l - a
    <2>1. ASSUME l - b \in Both, l - a \in Both, l - b # l - a PROVE FALSE
      <3>1. Both = {l - b} \cup {l - a}
        BY <2>1
      <3>2. IsFiniteSet({l - b}) /\ Cardinality({l - b}) = 1
        BY FS_Singleton
      <3>3. Cardinality({l - b} \cup {l - a}) = 2
        BY <2>1, <3>2, FS_AddElement
      <3> HIDE DEF Both
      <3> QED BY <1>3, <3>1, <3>3
    <2> QED BY <2>1
  <1>7. /\ l - b \in Both <=> Local(z, l - b) = l
        /\ l - a \in Both <=> Local(z, l - a) = l
        /\ Local(z, l - b) = l \/ Local(z, l - a) = l
    BY <1>5
  <1>8. \/ l < c + b /\ l < c + a
        \/ l >= c + b /\ l >= c + a
    <2> HIDE DEF Both
    <2> QED BY <1>1, <1>2, <1>4, <1>6, <1>7
  <1> HIDE DEF Both
  <1> QED BY <1>1, <1>2, <1>8

(***************************************************************************)
(* The day of a rule that opens before the window ends is not after it.    *)
(***************************************************************************)
LEMMA NotAfterWindow ==
  ASSUME NEW z, ZoneOK(z), NEW to \in Int, NEW u \in Int,
         u <= DateOf(z, LocalDay(z, to) * DayLen),
         NEW m \in Int, LocalDay(z, u) * DayLen <= m, DateOf(z, m) < to
  PROVE  LocalDay(z, u) <= LocalDay(z, to)
  <1> DEFINE a == z.after
             b == z.before
             c == z.at
             d == LocalDay(z, u)
             e == LocalDay(z, to)
             n == e * DayLen
             p == d * DayLen
  <1>1. a \in Int /\ b \in Int /\ c \in Int /\ DayLen \in Nat /\ DayLen > 0
    BY SlotsAssumption DEF ZoneOK
  <1>2. \A v \in Int : Local(z, v) \in Int /\ Local(z, v) = IF v < c THEN v + b ELSE v + a
    BY <1>1 DEF Local, Offset
  <1>3. /\ d \in Int /\ e \in Int /\ n \in Int /\ p \in Int
        /\ n <= Local(z, to) /\ Local(z, to) < n + DayLen
        /\ p <= Local(z, u) /\ Local(z, u) < p + DayLen
    <2>1. \A v \in Int : /\ v \div DayLen \in Int /\ (v \div DayLen) * DayLen \in Int
                         /\ (v \div DayLen) * DayLen <= v
                         /\ v < (v \div DayLen) * DayLen + DayLen
      BY <1>1
    <2> QED BY <1>2, <2>1 DEF LocalDay
  <1>4. ASSUME d > e PROVE n + DayLen <= p
    <2> HIDE DEF d, e
    <2>1. e + 1 <= d
      BY <1>3, <1>4
    <2>2. (e + 1) * DayLen <= d * DayLen /\ (e + 1) * DayLen = e * DayLen + DayLen
      BY <1>1, <1>3, <2>1
    <2> QED BY <2>2
  <1>5. /\ DateOf(z, n) = IF IF n < c THEN n - b < c ELSE n - a < c THEN n - b ELSE n - a
        /\ DateOf(z, m) = IF IF m < c THEN m - b < c ELSE m - a < c THEN m - b ELSE m - a
    BY <1>3, DateOfEither
  <1>6. u <= DateOf(z, n) /\ p <= m /\ DateOf(z, m) < to
    OBVIOUS
  <1> HIDE DEF a, b, c, n, p
  <1>7. ASSUME n + DayLen <= p PROVE FALSE
    <2>1. CASE to < c
      BY <1>1, <1>2, <1>3, <1>5, <1>6, <1>7, <2>1
    <2>2. CASE ~(to < c)
      BY <1>1, <1>2, <1>3, <1>5, <1>6, <1>7, <2>2
    <2> QED BY <2>1, <2>2
  <1> QED
    <2> HIDE DEF d, e
    <2>1. d <= e
      BY <1>3, <1>4, <1>7
    <2> QED BY <2>1 DEF d, e

(***************************************************************************)
(* Nor is the day of a rule that closes in the window before it.           *)
(***************************************************************************)
LEMMA NotBeforeWindow ==
  ASSUME NEW q, QueryOK(q), q.from < q.to, NEW u \in Days(q),
         NEW l \in Int, l < LocalDay(q.zone, u) * DayLen + DayLen,
         q.from < DateOf(q.zone, l)
  PROVE  LocalDay(q.zone, q.from) <= LocalDay(q.zone, u)
  <1> DEFINE z == q.zone
             a == z.after
             b == z.before
             c == z.at
             d == LocalDay(z, u)
             e == LocalDay(z, q.from)
             n == e * DayLen
             p == d * DayLen
  <1>1. /\ a \in Int /\ b \in Int /\ c \in Int /\ DayLen \in Nat /\ DayLen > 0
        /\ ZoneOK(z) /\ q.from \in Int
    BY SlotsAssumption DEF ZoneOK, QueryOK
  <1>2. \A v \in Int : Local(z, v) \in Int /\ Local(z, v) = IF v < c THEN v + b ELSE v + a
    BY <1>1 DEF Local, Offset
  <1>3. PICK g : /\ \A k \in 0..LastVisit(q) :
                      /\ g[k] \in Int
                      /\ g[k] = IF k = 0 THEN FirstMidnight(q)
                                ELSE DateOf(z, Local(z, g[k - 1]) + DayLen)
                 /\ Days(q) = {v \in {g[k] : k \in 0..LastVisit(q)} :
                                 v <= DateOf(z, LocalDay(z, q.to) * DayLen)}
    BY DaysFacts
  <1>4. PICK i \in 0..LastVisit(q) : u = g[i]
    BY <1>3
  <1>5. u \in Int /\ LastVisit(q) \in Nat
    BY <1>3, <1>4, DaysFacts
  <1>6. /\ d \in Int /\ e \in Int /\ n \in Int /\ p \in Int
        /\ n <= Local(z, q.from) /\ Local(z, q.from) < n + DayLen
        /\ p <= Local(z, u) /\ Local(z, u) < p + DayLen
    <2>1. \A v \in Int : /\ v \div DayLen \in Int /\ (v \div DayLen) * DayLen \in Int
                         /\ (v \div DayLen) * DayLen <= v
                         /\ v < (v \div DayLen) * DayLen + DayLen
      BY <1>1
    <2> QED BY <1>1, <1>2, <1>5, <2>1 DEF LocalDay
  <1>7. ASSUME d < e PROVE p + DayLen <= n
    <2> HIDE DEF d, e
    <2>1. d + 1 <= e
      BY <1>6, <1>7
    <2>2. (d + 1) * DayLen <= e * DayLen /\ (d + 1) * DayLen = d * DayLen + DayLen
      BY <1>1, <1>6, <2>1
    <2> QED BY <2>2
  <1>8. \A m \in Int : /\ DateOf(z, m) \in Int
                       /\ DateOf(z, m) = IF IF m < c THEN m - b < c ELSE m - a < c THEN m - b ELSE m - a
    BY <1>1, DateOfEither
  <1>9. FirstMidnight(q) = DateOf(z, n) /\ l < p + DayLen /\ q.from < DateOf(z, l)
    BY DEF FirstMidnight
  <1>10. ASSUME d < e PROVE FALSE
    <2> HIDE DEF a, b, c, d, e, n, p, z
    <2>1. l < n
      BY <1>1, <1>6, <1>7, <1>9, <1>10
    <2>2. c <= n /\ c <= DateOf(z, n) /\ n <= Local(z, DateOf(z, n))
      <3>1. CASE q.from < c
        BY <1>1, <1>2, <1>6, <1>8, <1>9, <2>1, <3>1
      <3>2. CASE ~(q.from < c)
        BY <1>1, <1>2, <1>6, <1>8, <1>9, <2>1, <3>2
      <3> QED BY <3>1, <3>2
    <2>3. ASSUME NEW v \in Int, c <= v, n <= Local(z, v)
          PROVE  LET w == DateOf(z, Local(z, v) + DayLen) IN c <= w /\ n <= Local(z, w)
      <3> DEFINE m == Local(z, v) + DayLen
      <3>1. m \in Int /\ Local(z, v) = v + a /\ m = v + a + DayLen
        BY <1>1, <1>2, <2>3
      <3>2. n \in Int /\ c <= m /\ m - a = v + DayLen
        BY <1>1, <1>6, <2>2, <2>3, <3>1
      <3> HIDE DEF m
      <3>3. DateOf(z, m) = v + DayLen
        BY <1>1, <1>8, <2>3, <3>1, <3>2
      <3>4. v + DayLen \in Int /\ c <= v + DayLen /\ Local(z, v + DayLen) = v + DayLen + a
        BY <1>1, <1>2, <2>3
      <3>5. c <= DateOf(z, m) /\ n <= Local(z, DateOf(z, m))
        BY <1>1, <2>3, <3>1, <3>2, <3>3, <3>4
      <3> QED BY <3>5 DEF m
    <2> DEFINE T == {k \in 0..LastVisit(q) : ~(c <= g[k] /\ n <= Local(z, g[k]))}
    <2>4. ASSUME T # {} PROVE FALSE
      <3>1. T \in SUBSET Nat
        BY <1>5
      <3>2. PICK k \in T : \A x \in T : k <= x
        <4> HIDE DEF T
        <4> QED BY <2>4, <3>1, LeastOf
      <3>3. k # 0
        BY <1>3, <1>5, <1>9, <2>2, <3>2
      <3>4. k \in 0..LastVisit(q) /\ k - 1 \in 0..LastVisit(q) /\ ~(k <= k - 1)
        BY <1>5, <3>3
      <3>5. c <= g[k - 1] /\ n <= Local(z, g[k - 1]) /\ g[k - 1] \in Int
        BY <1>3, <3>2, <3>4
      <3>6. g[k] = DateOf(z, Local(z, g[k - 1]) + DayLen)
        BY <1>3, <3>3, <3>4
      <3> QED BY <2>3, <3>2, <3>5, <3>6
    <2>5. n <= Local(z, u)
      BY <1>4, <2>4
    <2> QED BY <1>1, <1>2, <1>5, <1>6, <1>7, <1>10, <2>5
  <1> QED
    <2> HIDE DEF d, e
    <2>1. e <= d
      BY <1>6, <1>10
    <2> QED BY <2>1 DEF d, e

(***************************************************************************)
(* The day of a segment is one of the days of the window.                  *)
(***************************************************************************)
LEMMA SegmentDay ==
  ASSUME NEW q, QueryOK(q), q.from < q.to, q.dur > 0, NEW s \in Segments(q)
  PROVE  s.day \in LocalDay(q.zone, q.from)..LocalDay(q.zone, q.to)
  <1>1. PICK r \in q.rules, u \in Days(q) :
          s = Segment(r, LocalDay(q.zone, u), q)
    BY DEF Segments
  <1> DEFINE z == q.zone
             d == LocalDay(z, u)
  <1>2. s.day = d
    BY <1>1 DEF Segment
  <1>3. PICK p \in q.rules :
          /\ DateOf(z, s.day * DayLen + p.start) <= s.start /\ q.from <= s.start
          /\ s.end <= DateOf(z, s.day * DayLen + p.end) /\ s.end <= q.to
          /\ s.start < s.end /\ s.start \in Int /\ s.end \in Int
    BY SegmentFacts DEF Lane
  <1>4. u \in Int /\ u <= DateOf(z, LocalDay(z, q.to) * DayLen)
    <2>1. PICK g : /\ \A k \in 0..LastVisit(q) : g[k] \in Int
                   /\ Days(q) = {v \in {g[k] : k \in 0..LastVisit(q)} :
                                   v <= DateOf(z, LocalDay(z, q.to) * DayLen)}
      BY DaysFacts
    <2> QED BY <2>1
  <1>5. /\ d \in Int /\ LocalDay(z, q.from) \in Int /\ LocalDay(z, q.to) \in Int
    BY <1>4, SlotsAssumption DEF LocalDay, Local, Offset, QueryOK, ZoneOK
  <1> DEFINE m == d * DayLen + p.start
             l == d * DayLen + p.end
  <1>6. m \in Int /\ l \in Int /\ d * DayLen <= m /\ l < d * DayLen + DayLen
    <2>1. /\ p.start \in Int /\ 0 <= p.start /\ p.end \in Int /\ p.end < DayLen
          /\ d * DayLen \in Int /\ DayLen \in Int
      BY <1>5, SlotsAssumption DEF QueryOK
    <2> QED BY <2>1
  <1>7. DateOf(z, m) \in Int /\ DateOf(z, l) \in Int /\ q.from \in Int /\ q.to \in Int
    <2> HIDE DEF m, l
    <2> QED BY <1>6, DateOfEither DEF QueryOK
  <1>8. DateOf(z, m) < q.to /\ q.from < DateOf(z, l)
    <2>1. DateOf(z, m) <= s.start /\ s.end <= DateOf(z, l)
      BY <1>2, <1>3
    <2> HIDE DEF m, l, z
    <2> QED BY <1>3, <1>7, <2>1
  <1> HIDE DEF m, l
  <1>9. d <= LocalDay(z, q.to)
    BY <1>4, <1>6, <1>7, <1>8, NotAfterWindow DEF QueryOK
  <1>10. LocalDay(z, q.from) <= d
    BY <1>6, <1>8, NotBeforeWindow
  <1> HIDE DEF d
  <1> QED BY <1>2, <1>5, <1>9, <1>10

(***************************************************************************)
(* The ends of a slot are instants.                                        *)
(***************************************************************************)
LEMMA BuiltTypes ==
  ASSUME NEW q, QueryOK(q), NEW s \in BuildSlots(q)
  PROVE  s.start \in Int /\ s.end \in Int
  <1>1. q.from < q.to /\ q.dur > 0 /\ q.dur \in Int
    BY SlotOrigin DEF QueryOK
  <1>2. PICK x \in Segments(q) :
          \E iv \in MergedOf(q, x.day, x.staff) : s \in Cut(iv, q.dur)
    BY SlotOrigin DEF QueryOK
  <1>3. PICK iv \in MergedOf(q, x.day, x.staff) : s \in Cut(iv, q.dur)
    BY <1>2
  <1>4. iv.start \in Int /\ iv.end \in Int
    BY <1>1, MergedFacts
  <1> QED BY <1>1, <1>3, <1>4, CutFacts

(***************************************************************************)
(* No instant of a slot is outside the window or the opening hours.        *)
(***************************************************************************)
LEMMA BuiltInOpenHours ==
  ASSUME NEW q, QueryOK(q), ClearRules(q), NEW s \in BuildSlots(q),
         NEW u \in Int, s.start <= u, u < s.end
  PROVE  q.from <= u /\ u < q.to /\ OpenOnTheWall(q, s.staff, u)
  <1>1. q.from < q.to /\ q.dur > 0 /\ q.dur \in Int
    BY SlotOrigin DEF QueryOK
  <1>2. PICK x \in Segments(q) :
          \E iv \in MergedOf(q, x.day, x.staff) : s \in Cut(iv, q.dur)
    BY SlotOrigin DEF QueryOK
  <1>3. PICK iv \in MergedOf(q, x.day, x.staff) : s \in Cut(iv, q.dur)
    BY <1>2
  <1>4. /\ iv.start \in Int /\ iv.end \in Int /\ iv.staff = x.staff
        /\ \A v \in Int : Holds(iv, v) => \E t \in BucketOf(q, x.day, x.staff) : Holds(t, v)
    BY <1>1, MergedFacts
  <1>5. /\ s.staff = x.staff /\ iv.start <= s.start /\ s.end <= iv.end
        /\ s.start \in Int /\ s.end \in Int
    BY <1>1, <1>3, <1>4, CutFacts
  <1>6. PICK t \in BucketOf(q, x.day, x.staff) : Holds(t, u)
    <2>1. Holds(iv, u)
      BY <1>4, <1>5 DEF Holds
    <2> QED BY <1>4, <2>1
  <1> DEFINE z == q.zone
             d == t.day
  <1>7. t \in Segments(q) /\ t.staff = s.staff
    BY <1>5 DEF BucketOf
  <1>8. PICK r \in q.rules :
          /\ Matches(r, q.service, q.staff) /\ r.day = d % 7
          /\ t.staff = EffectiveStaff(r, q)
          /\ q.from <= t.start /\ t.end <= q.to
          /\ DateOf(z, d * DayLen + r.start) <= t.start
          /\ t.end <= DateOf(z, d * DayLen + r.end)
    BY <1>1, <1>7, SegmentFacts
  <1>9. t.start \in Int /\ t.end \in Int /\ d \in Int
    BY <1>1, <1>7, SegmentFacts DEF Lane
  <1>10. t.start <= u /\ u < t.end
    BY <1>6 DEF Holds
  <1>11. d \in LocalDay(z, q.from)..LocalDay(z, q.to)
    BY <1>1, <1>7, SegmentDay
  <1> DEFINE n == d * DayLen
             m == n + r.start
             l == n + r.end
  <1>12. /\ r.start \in Int /\ 0 <= r.start /\ r.end \in Int /\ r.end < DayLen
         /\ n \in Int /\ DayLen \in Nat /\ DayLen > 0
    BY <1>9, SlotsAssumption DEF QueryOK
  <1>13. Unambiguous(z, m) /\ Unambiguous(z, l)
    BY <1>11 DEF ClearRules
  <1>14. m \in Int /\ l \in Int
    BY <1>12
  <1>15. ZoneOK(z) /\ DateOf(z, m) \in Int /\ DateOf(z, l) \in Int /\ q.from \in Int /\ q.to \in Int
    <2> HIDE DEF m, l
    <2> QED BY <1>14, DateOfEither DEF QueryOK
  <1>16. DateOf(z, m) <= t.start /\ t.end <= DateOf(z, l)
    BY <1>8
  <1>17. m <= Local(z, u) /\ ~(l <= Local(z, u))
    <2> HIDE DEF m, l, z
    <2>1. DateOf(z, m) <= u /\ ~(DateOf(z, l) <= u)
      BY <1>9, <1>10, <1>15, <1>16
    <2> QED BY <1>13, <1>14, <1>15, <2>1, ClearOrder
  <1>18. Local(z, u) \in Int
    BY <1>15 DEF ZoneOK, Local, Offset
  <1>19. /\ n + r.start <= Local(z, u) /\ Local(z, u) < n + r.end
    BY <1>12, <1>14, <1>17, <1>18
  <1>20. /\ Local(z, u) \div DayLen = d
         /\ r.start <= Local(z, u) % DayLen /\ Local(z, u) % DayLen < r.end
    <2> DEFINE w == Local(z, u)
               k == w \div DayLen
               o == w % DayLen
    <2>1. /\ k \in Int /\ o \in Int /\ 0 <= o /\ o < DayLen
          /\ w = k * DayLen + o
          /\ k * DayLen \in Int /\ (k + 1) * DayLen = k * DayLen + DayLen
      <3>1. w \in Int
        BY <1>18
      <3>2. k = w \div DayLen
        OBVIOUS
      <3>3. o = w % DayLen
        OBVIOUS
      <3> HIDE DEF w, k, o
      <3>4. k \in Int
        BY <1>12, <3>1, <3>2
      <3>5. o \in Int
        BY <1>12, <3>1, <3>3
      <3>6. 0 <= o /\ o < DayLen
        BY <1>12, <3>1, <3>3
      <3>7. w - DayLen * k = o
        BY <1>12, <3>1, <3>2, <3>3
      <3>8. k * DayLen \in Int /\ (k + 1) * DayLen = k * DayLen + DayLen
        BY <1>12, <3>4
      <3>9. DayLen * k = k * DayLen
        BY <1>12, <3>4
      <3> QED BY <1>12, <3>1, <3>4, <3>5, <3>6, <3>7, <3>8, <3>9
    <2>2. w \in Int /\ n + r.start <= w /\ w < n + r.end
      BY <1>18, <1>19
    <2> HIDE DEF k, o, w, d
    <2>3. (d + 1) * DayLen = n + DayLen
      BY <1>9, <1>12
    <2>4. d = k
      <3>1. CASE d < k
        <4>1. (d + 1) * DayLen <= k * DayLen
          BY <1>9, <1>12, <2>1, <3>1
        <4> HIDE DEF n
        <4> QED BY <1>12, <2>1, <2>2, <2>3, <4>1
      <3>2. CASE k < d
        <4>1. (k + 1) * DayLen <= n
          BY <1>9, <1>12, <2>1, <3>2
        <4> HIDE DEF n
        <4> QED BY <1>12, <2>1, <2>2, <4>1
      <3> QED BY <1>9, <2>1, <3>1, <3>2
    <2>5. r.start <= o /\ o < r.end
      <3>1. n = k * DayLen
        BY <2>4
      <3> HIDE DEF n
      <3> QED BY <1>12, <2>1, <2>2, <3>1
    <2> QED BY <2>4, <2>5 DEF k, o, w
  <1>21. OpenOnTheWall(q, s.staff, u)
    BY <1>7, <1>8, <1>20 DEF OpenOnTheWall
  <1>22. q.from <= u /\ u < q.to
    BY <1>8, <1>9, <1>10, <1>15
  <1> QED BY <1>21, <1>22

-----------------------------------------------------------------------------
(* The reference *)

\* Every local midnight is on the wall clock.
HasMidnights(z) == \A d \in Int : Local(z, DateOf(z, d * DayLen)) = d * DayLen

(***************************************************************************)
(* Then the change of offset skips less than a day, and midnights keep     *)
(* their order.                                                            *)
(***************************************************************************)
LEMMA MidnightsInOrder ==
  ASSUME NEW z, ZoneOK(z), HasMidnights(z)
  PROVE  /\ z.after - z.before < DayLen
         /\ \A d, e \in Int : d <= e => DateOf(z, d * DayLen) <= DateOf(z, e * DayLen)
  <1> DEFINE a == z.after
             b == z.before
             c == z.at
  <1>1. a \in Int /\ b \in Int /\ c \in Int /\ DayLen \in Nat /\ DayLen > 0
    BY SlotsAssumption DEF ZoneOK
  <1>2. \A v \in Int : Local(z, v) \in Int /\ Local(z, v) = IF v < c THEN v + b ELSE v + a
    BY <1>1 DEF Local, Offset
  <1>3. \A m \in Int : /\ DateOf(z, m) \in Int
                       /\ DateOf(z, m) = IF IF m < c THEN m - b < c ELSE m - a < c THEN m - b ELSE m - a
    BY DateOfEither
  <1>4. \A d \in Int : d * DayLen \in Int /\ Local(z, DateOf(z, d * DayLen)) = d * DayLen
    BY <1>1 DEF HasMidnights
  <1> HIDE DEF a, b, c
  <1>5. a - b < DayLen
    <2> DEFINE s == c + b + DayLen - 1
               d == s \div DayLen
               m == d * DayLen
    <2>1. s \in Int
      BY <1>1
    <2> HIDE DEF s
    <2>2. d \in Int /\ m \in Int /\ m <= s /\ s < m + DayLen
      BY <1>1, <2>1
    <2>3. Local(z, DateOf(z, m)) = m
      BY <1>4, <2>2
    <2> HIDE DEF d, m
    <2>4. c + b <= m /\ m < c + b + DayLen
      BY <1>1, <2>2 DEF s
    <2> QED BY <1>1, <1>2, <1>3, <2>2, <2>3, <2>4
  <1>6. ASSUME NEW d \in Int, NEW e \in Int, d <= e
        PROVE  DateOf(z, d * DayLen) <= DateOf(z, e * DayLen)
    <2> DEFINE n == d * DayLen
               p == e * DayLen
    <2>1. n \in Int /\ p \in Int
      BY <1>1
    <2>2. n = p \/ n + DayLen <= p
      <3>1. CASE d = e
        BY <3>1
      <3>2. CASE d # e
        <4>1. (d + 1) * DayLen <= e * DayLen /\ (d + 1) * DayLen = d * DayLen + DayLen
          BY <1>1, <1>6, <3>2
        <4> QED BY <4>1
      <3> QED BY <3>1, <3>2
    <2>3. Local(z, DateOf(z, n)) = n /\ Local(z, DateOf(z, p)) = p
      BY <1>4
    <2> HIDE DEF n, p
    <2>4. DateOf(z, n) <= DateOf(z, p)
      <3>1. DateOf(z, n) \in Int /\ DateOf(z, p) \in Int
        BY <1>3, <2>1
      <3>2. CASE n = p
        BY <3>1, <3>2
      <3>3. CASE n + DayLen <= p
        BY <1>1, <1>2, <1>3, <1>5, <2>1, <2>3, <3>1, <3>3
      <3> QED BY <2>2, <3>2, <3>3
    <2> QED BY <2>4 DEF n, p
  <1> QED BY <1>5, <1>6 DEF a, b

(***************************************************************************)
(* Then the day loop visits midnight of every day of the window.           *)
(***************************************************************************)
LEMMA EveryDayVisited ==
  ASSUME NEW q, QueryOK(q), q.from < q.to, HasMidnights(q.zone),
         NEW d \in LocalDay(q.zone, q.from)..LocalDay(q.zone, q.to)
  PROVE  \E u \in Days(q) : LocalDay(q.zone, u) = d
  <1> DEFINE z == q.zone
             e == LocalDay(z, q.from)
             f == LocalDay(z, q.to)
             last == LastVisit(q)
  <1>1. /\ ZoneOK(z) /\ q.from \in Int /\ q.to \in Int /\ DayLen \in Nat /\ DayLen > 0
        /\ z.before \in Int /\ z.at \in Int /\ z.after \in Int
    BY SlotsAssumption DEF QueryOK, ZoneOK
  <1>2. PICK g : /\ \A k \in 0..last :
                      /\ g[k] \in Int
                      /\ g[k] = IF k = 0 THEN FirstMidnight(q)
                                ELSE DateOf(z, Local(z, g[k - 1]) + DayLen)
                 /\ Days(q) = {v \in {g[k] : k \in 0..last} : v <= DateOf(z, f * DayLen)}
    BY DaysFacts
  <1>3. last \in Nat /\ last = (q.to - q.from) \div DayLen + 2
    BY DaysFacts DEF LastVisit
  <1>4. Local(z, q.from) \in Int /\ Local(z, q.to) \in Int
    BY <1>1 DEF Local, Offset
  <1>5. e \in Int /\ f \in Int
    BY <1>1, <1>4 DEF LocalDay
  <1>6. \A k \in 0..last : g[k] = DateOf(z, (e + k) * DayLen)
    <2> DEFINE T == {k \in 0..last : g[k] # DateOf(z, (e + k) * DayLen)}
    <2>1. ASSUME T # {} PROVE FALSE
      <3>1. T \in SUBSET Nat
        BY <1>3
      <3>2. PICK k \in T : \A x \in T : k <= x
        <4> HIDE DEF T
        <4> QED BY <2>1, <3>1, LeastOf
      <3>3. k # 0
        <4>1. g[0] = DateOf(z, e * DayLen)
          BY <1>2, <1>3 DEF FirstMidnight
        <4> HIDE DEF e
        <4>2. e + 0 = e
          BY <1>5
        <4> QED BY <3>2, <4>1, <4>2
      <3>4. k \in 0..last /\ k - 1 \in 0..last /\ ~(k <= k - 1) /\ k \in Nat
        BY <1>3, <3>3
      <3>5. g[k - 1] = DateOf(z, (e + (k - 1)) * DayLen)
        BY <3>2, <3>4
      <3>6. Local(z, g[k - 1]) = (e + (k - 1)) * DayLen
        <4> HIDE DEF e, z
        <4>1. e + (k - 1) \in Int
          BY <1>5, <3>4
        <4> QED BY <3>5, <4>1 DEF HasMidnights, z
      <3>7. (e + (k - 1)) * DayLen + DayLen = (e + k) * DayLen
        <4> HIDE DEF e
        <4>1. e + k = (e + (k - 1)) + 1 /\ e + (k - 1) \in Int
          BY <1>5, <3>4
        <4>2. \A x \in Int : (x + 1) * DayLen = x * DayLen + DayLen
          BY <1>1
        <4> QED BY <4>1, <4>2
      <3>8. g[k] = DateOf(z, Local(z, g[k - 1]) + DayLen)
        BY <1>2, <3>3, <3>4
      <3>9. g[k] = DateOf(z, (e + k) * DayLen)
        BY <3>6, <3>7, <3>8
      <3> QED BY <3>2, <3>9
    <2> QED BY <2>1
  <1> DEFINE k == d - e
  <1>7. k \in Nat /\ e + k = d /\ d \in Int /\ d <= f
    <2>1. d \in e..f
      OBVIOUS
    <2> HIDE DEF e, f
    <2> QED BY <1>5, <2>1
  <1>8. k <= last
    <2> DEFINE x == Local(z, q.from)
               y == Local(z, q.to)
               w == q.to - q.from
               i == w \div DayLen
    <2>1. y - x < w + DayLen
      <3>1. z.after - z.before < DayLen
        BY <1>1, MidnightsInOrder
      <3> QED BY <1>1, <3>1 DEF Local, Offset
    <2>2. x < e * DayLen + DayLen /\ e * DayLen \in Int
      <3> HIDE DEF x
      <3>1. x \in Int /\ e = x \div DayLen
        BY <1>4 DEF x, LocalDay
      <3> HIDE DEF e
      <3> QED BY <1>1, <3>1
    <2>3. f * DayLen <= y /\ f * DayLen \in Int
      <3> HIDE DEF y
      <3>1. y \in Int /\ f = y \div DayLen
        BY <1>4 DEF y, LocalDay
      <3> HIDE DEF f
      <3> QED BY <1>1, <3>1
    <2>4. w \in Int /\ i \in Int /\ w < i * DayLen + DayLen /\ i * DayLen \in Int
      <3>1. w \in Int
        BY <1>1
      <3> HIDE DEF w
      <3> QED BY <1>1, <3>1
    <2>5. x \in Int /\ y \in Int /\ last = i + 2
      BY <1>3, <1>4
    <2> HIDE DEF x, y, w, i, e, f, last
    <2>6. f * DayLen < e * DayLen + i * DayLen + DayLen + DayLen + DayLen
      BY <1>1, <2>1, <2>2, <2>3, <2>4, <2>5
    <2>7. (e + i + 3) * DayLen = e * DayLen + i * DayLen + DayLen + DayLen + DayLen
      BY <1>1, <1>5, <2>4
    <2>8. f < e + i + 3
      <3>1. CASE e + i + 3 <= f
        <4>1. (e + i + 3) * DayLen <= f * DayLen
          BY <1>1, <1>5, <2>4, <3>1
        <4> QED BY <1>1, <1>5, <2>2, <2>3, <2>4, <2>6, <2>7, <4>1
      <3> QED BY <1>5, <2>4, <3>1
    <2> QED BY <1>5, <1>7, <2>4, <2>5, <2>8
  <1>9. k \in 0..last /\ g[k] = DateOf(z, d * DayLen)
    <2>1. k \in 0..last
      BY <1>3, <1>7, <1>8
    <2> HIDE DEF k
    <2> QED BY <1>6, <1>7, <2>1
  <1>10. g[k] <= DateOf(z, f * DayLen)
    BY <1>1, <1>5, <1>7, <1>9, MidnightsInOrder
  <1>11. LocalDay(z, g[k]) = d
    <2>1. Local(z, g[k]) = d * DayLen
      BY <1>7, <1>9 DEF HasMidnights
    <2>2. (d * DayLen) \div DayLen = d
      BY <1>1, <1>7
    <2> QED BY <2>1, <2>2 DEF LocalDay
  <1> HIDE DEF k
  <1> QED BY <1>2, <1>9, <1>10, <1>11

(***************************************************************************)
(* The segments are what the rules that are long enough hold open.         *)
(***************************************************************************)
LEMMA SegmentsAreOpened ==
  ASSUME NEW q, QueryOK(q), q.from < q.to, q.dur > 0, HasMidnights(q.zone)
  PROVE  Segments(q) = Opened(q, q.dur)
  <1> DEFINE days == LocalDay(q.zone, q.from)..LocalDay(q.zone, q.to)
  <1>1. ASSUME NEW s \in Segments(q) PROVE s \in Opened(q, q.dur)
    <2>1. PICK r \in q.rules :
            /\ Matches(r, q.service, q.staff) /\ r.day = s.day % 7 /\ s = Segment(r, s.day, q)
      BY SegmentFacts
    <2>2. s.day \in days
      BY SegmentDay
    <2>3. s.end - s.start >= q.dur
      BY DEF Segments
    <2> QED BY <2>1, <2>2, <2>3 DEF Opened
  <1>2. ASSUME NEW s \in Opened(q, q.dur) PROVE s \in Segments(q)
    <2>1. s.end - s.start >= q.dur
      BY DEF Opened
    <2>2. PICK d \in days, r \in q.rules :
            Matches(r, q.service, q.staff) /\ r.day = d % 7 /\ s = Segment(r, d, q)
      BY DEF Opened
    <2>3. PICK u \in Days(q) : LocalDay(q.zone, u) = d
      BY EveryDayVisited
    <2>4. OpensIn(r, d, q)
      <3> DEFINE opens == DateOf(q.zone, d * DayLen + r.start)
                 closes == DateOf(q.zone, d * DayLen + r.end)
      <3>1. opens \in Int /\ closes \in Int
        <4>1. r.start \in Int /\ r.end \in Int /\ d \in Int
          BY SlotsAssumption DEF QueryOK
        <4>2. d * DayLen + r.start \in Int /\ d * DayLen + r.end \in Int
          BY <4>1, SlotsAssumption
        <4> QED BY <4>2, DateOfEither DEF QueryOK
      <3>2. /\ s.start = Max({opens, q.from}) /\ s.end = Min({closes, q.to})
            /\ q.from \in Int /\ q.to \in Int /\ q.dur \in Int
        BY <2>2 DEF Segment, QueryOK
      <3> HIDE DEF opens, closes
      <3>3. Max({opens, q.from}) = IF opens >= q.from THEN opens ELSE q.from
        BY <3>1, <3>2, MaxMin
      <3>4. Min({closes, q.to}) = IF closes <= q.to THEN closes ELSE q.to
        BY <3>1, <3>2, MaxMin
      <3>5. closes > opens /\ closes >= q.from /\ opens < q.to
        BY <2>1, <3>1, <3>2, <3>3, <3>4
      <3> QED BY <3>5 DEF OpensIn, opens, closes
    <2> DEFINE openings ==
                 {<<rule, LocalDay(q.zone, v)>> :
                    rule \in {x \in q.rules : Matches(x, q.service, q.staff)},
                    v \in Days(q)}
               open == {o \in openings : /\ o[1].day = o[2] % 7
                                         /\ OpensIn(o[1], o[2], q)}
    <2>5. <<r, d>> \in openings
      BY <2>2, <2>3
    <2>6. <<r, d>> \in open
      <3> HIDE DEF openings
      <3> QED BY <2>2, <2>4, <2>5
    <2>7. s \in {Segment(o[1], o[2], q) : o \in open}
      <3> HIDE DEF open
      <3> QED BY <2>2, <2>6
    <2> QED BY <2>1, <2>7 DEF Segments
  <1> QED BY <1>1, <1>2

\* The instants that the segments of a day and a staff member hold open.
OpenAt(q, d, f) == UNION {s.start..(s.end - 1) : s \in BucketOf(q, d, f)}

\* An instant of open at which a slot begins.
SlotBegins(open, dur, v) ==
  \E x \in open :
    x - 1 \notin open /\ x <= v /\ (v - x) % dur = 0 /\ x..(v + dur - 1) \subseteq open

(***************************************************************************)
(* The slots that tile the open stretches are those of the intervals.      *)
(***************************************************************************)
LEMMA TilesAreCuts ==
  ASSUME NEW q, QueryOK(q), q.from < q.to, q.dur > 0, NEW d, NEW f
  PROVE  {[staff |-> f, start |-> v, end |-> v + q.dur] :
            v \in {u \in OpenAt(q, d, f) : SlotBegins(OpenAt(q, d, f), q.dur, u)}}
           = UNION {Cut(iv, q.dur) : iv \in MergedOf(q, d, f)}
  <1> DEFINE B == BucketOf(q, d, f)
             M == MergedOf(q, d, f)
             open == OpenAt(q, d, f)
             dur == q.dur
  <1>0. dur \in Int /\ dur > 0
    BY DEF QueryOK
  <1>1. B \in SUBSET Lane(d, f) /\ IsFiniteSet(B) /\ \A x \in B : x.start < x.end
    BY BucketFacts
  <1>2. /\ M \subseteq Lane(d, f)
        /\ \A x \in M : x.start < x.end
        /\ \A x, y \in M : x = y \/ x.end < y.start \/ y.end < x.start
        /\ \A u \in Int : (\E x \in M : Holds(x, u)) <=> (\E x \in B : Holds(x, u))
    <2> HIDE DEF B
    <2> QED BY <1>1, MergeFacts DEF MergedOf, B
  <1>3. \A x \in M : x.start \in Int /\ x.end \in Int /\ x.staff = f
    BY <1>2 DEF Lane
  <1>4. open \subseteq Int /\ \A u \in Int : u \in open <=> \E x \in M : Holds(x, u)
    <2>1. \A x \in B : x.start \in Int /\ x.end \in Int
      BY <1>1 DEF Lane
    <2>2. open = UNION {s.start..(s.end - 1) : s \in B}
      BY DEF OpenAt
    <2> HIDE DEF B, open, M
    <2>3. \A u : u \in open <=> \E x \in B : u \in x.start..(x.end - 1)
      BY <2>2
    <2>4. \A u \in Int : u \in open <=> \E x \in B : Holds(x, u)
      BY <2>1, <2>3 DEF Holds
    <2>5. open \subseteq Int
      BY <2>1, <2>3
    <2> QED BY <1>2, <2>4, <2>5
  <1> HIDE DEF B, M, open, dur
  \* An interval is a stretch without neighbours.
  <1>5. ASSUME NEW iv \in M
        PROVE  /\ iv.start \in open /\ iv.start - 1 \notin open /\ iv.end \notin open
               /\ \A u \in Int : iv.start <= u /\ u < iv.end => u \in open
    <2>1. iv.start \in Int /\ iv.end \in Int /\ iv.start < iv.end
      BY <1>2, <1>3
    <2>2. \A u \in Int : iv.start <= u /\ u < iv.end => u \in open
      BY <1>4 DEF Holds
    <2>3. ASSUME NEW jv \in M PROVE ~Holds(jv, iv.start - 1) /\ ~Holds(jv, iv.end)
      <3>1. jv.start \in Int /\ jv.end \in Int /\ jv.start < jv.end
        BY <1>2, <1>3
      <3>2. iv = jv \/ iv.end < jv.start \/ jv.end < iv.start
        BY <1>2
      <3> QED BY <2>1, <3>1, <3>2 DEF Holds
    <2> QED BY <1>4, <2>1, <2>2, <2>3
  \* Slots begin where the interval is cut.
  <1>6. ASSUME NEW v \in Int
        PROVE  SlotBegins(open, dur, v) <=>
                 \E iv \in M : /\ iv.start <= v /\ (v - iv.start) % dur = 0
                               /\ v + dur <= iv.end
    <2>1. ASSUME SlotBegins(open, dur, v)
          PROVE  \E iv \in M : iv.start <= v /\ (v - iv.start) % dur = 0 /\ v + dur <= iv.end
      <3>1. PICK x \in open : /\ x - 1 \notin open /\ x <= v /\ (v - x) % dur = 0
                              /\ x..(v + dur - 1) \subseteq open
        BY <2>1 DEF SlotBegins
      <3>2. PICK iv \in M : Holds(iv, x)
        BY <1>4
      <3>3. /\ iv.start \in Int /\ iv.end \in Int /\ x \in Int
            /\ iv.start <= x /\ x < iv.end
        BY <1>3, <1>4, <3>2 DEF Holds
      <3>4. x = iv.start
        <4>1. ~(iv.start <= x - 1)
          BY <1>5, <3>1, <3>3
        <4> QED BY <3>3, <4>1
      <3>5. v + dur <= iv.end
        <4>1. iv.end \notin x..(v + dur - 1)
          BY <1>5, <3>1
        <4> QED BY <1>0, <3>3, <4>1
      <3> QED BY <3>1, <3>4, <3>5
    <2>2. ASSUME NEW iv \in M, iv.start <= v, (v - iv.start) % dur = 0, v + dur <= iv.end
          PROVE  SlotBegins(open, dur, v)
      <3>1. iv.start \in Int /\ iv.end \in Int
        BY <1>3
      <3>2. iv.start..(v + dur - 1) \subseteq open
        BY <1>0, <1>5, <2>2, <3>1
      <3> QED BY <1>5, <2>2, <3>2 DEF SlotBegins
    <2> QED BY <2>1, <2>2
  <1>7. ASSUME NEW iv \in M, NEW v \in Int
        PROVE  (iv.start <= v /\ (v - iv.start) % dur = 0 /\ v + dur <= iv.end)
                 <=> \E k \in 0..((iv.end - iv.start) \div dur - 1) : v = iv.start + k * dur
    <2> DEFINE x == iv.start
               y == iv.end
               n == (y - x) \div dur
    <2>1. x \in Int /\ y \in Int /\ x < y
      BY <1>2, <1>3
    <2> HIDE DEF x, y
    <2>2. n \in Int /\ n * dur <= y - x /\ y - x < n * dur + dur /\ n * dur \in Int
      BY <1>0, <2>1
    <2> HIDE DEF n
    <2>3. ASSUME x <= v, (v - x) % dur = 0, v + dur <= y
          PROVE  \E k \in 0..(n - 1) : v = x + k * dur
      <3> DEFINE w == v - x
                 k == w \div dur
      <3>1. w \in Int /\ 0 <= w /\ w % dur = 0
        BY <2>1, <2>3
      <3> HIDE DEF w
      <3>2. k \in Int /\ w - dur * k = w % dur
        BY <1>0, <3>1
      <3> HIDE DEF k
      <3>3. dur * k = k * dur /\ k * dur \in Int /\ (k + 1) * dur = k * dur + dur
        BY <1>0, <3>2
      <3>4. w = k * dur
        BY <3>1, <3>2, <3>3
      <3>5. 0 <= k
        <4>1. CASE k < 0
          <5>1. k * dur < 0
            BY <1>0, <3>2, <4>1
          <5> QED BY <3>1, <3>4, <5>1
        <4> QED BY <3>2, <4>1
      <3>6. k < n
        <4>1. CASE n <= k
          <5>1. n * dur <= k * dur
            BY <1>0, <2>2, <3>2, <4>1
          <5>2. k * dur + dur <= y - x
            BY <1>0, <2>1, <2>3, <3>1, <3>3, <3>4 DEF w
          <5> QED BY <1>0, <2>1, <2>2, <3>3, <5>1, <5>2
        <4> QED BY <2>2, <3>2, <4>1
      <3>7. v = x + k * dur
        BY <2>1, <3>3, <3>4 DEF w
      <3> QED BY <2>2, <3>2, <3>5, <3>6, <3>7
    <2>4. ASSUME NEW k \in 0..(n - 1), v = x + k * dur
          PROVE  x <= v /\ (v - x) % dur = 0 /\ v + dur <= y
      <3>1. k \in Int /\ 0 <= k /\ k + 1 <= n
        BY <2>2
      <3>2. k * dur \in Int /\ 0 <= k * dur /\ (k + 1) * dur = k * dur + dur
        BY <1>0, <3>1
      <3>3. (k + 1) * dur <= n * dur
        BY <1>0, <2>2, <3>1
      <3>4. v - x = k * dur
        BY <2>1, <2>4, <3>2
      <3>5. (k * dur) % dur = 0
        BY <1>0, <3>1
      <3> QED BY <1>0, <2>1, <2>2, <2>4, <3>2, <3>3, <3>4, <3>5
    <2> QED BY <2>3, <2>4 DEF x, y, n
  <1> DEFINE L == {[staff |-> f, start |-> v, end |-> v + dur] :
                     v \in {u \in open : SlotBegins(open, dur, u)}}
             R == UNION {Cut(iv, dur) : iv \in M}
  <1>8. ASSUME NEW s \in L PROVE s \in R
    <2>1. PICK v \in open : SlotBegins(open, dur, v) /\ s = [staff |-> f, start |-> v, end |-> v + dur]
      OBVIOUS
    <2>2. v \in Int
      BY <1>4
    <2>3. PICK iv \in M : iv.start <= v /\ (v - iv.start) % dur = 0 /\ v + dur <= iv.end
      BY <1>6, <2>1, <2>2
    <2>4. PICK k \in 0..((iv.end - iv.start) \div dur - 1) : v = iv.start + k * dur
      BY <1>7, <2>2, <2>3
    <2>5. v + dur = iv.start + (k + 1) * dur
      <3>1. k \in Int /\ iv.start \in Int
        BY <1>0, <1>3
      <3>2. (k + 1) * dur = k * dur + dur /\ k * dur \in Int
        BY <1>0, <3>1
      <3> QED BY <1>0, <2>4, <3>1, <3>2
    <2>6. s = [staff |-> iv.staff, start |-> iv.start + k * dur, end |-> iv.start + (k + 1) * dur]
      BY <1>3, <2>1, <2>4, <2>5
    <2>7. s \in Cut(iv, dur)
      BY <2>6 DEF Cut
    <2> QED BY <2>7
  <1>9. ASSUME NEW s \in R PROVE s \in L
    <2>1. PICK iv \in M : s \in Cut(iv, dur)
      OBVIOUS
    <2>2. PICK k \in 0..((iv.end - iv.start) \div dur - 1) :
            s = [staff |-> iv.staff, start |-> iv.start + k * dur, end |-> iv.start + (k + 1) * dur]
      BY <2>1 DEF Cut
    <2> DEFINE v == iv.start + k * dur
    <2>3. k \in Int /\ iv.start \in Int /\ iv.staff = f /\ k * dur \in Int
          /\ (k + 1) * dur = k * dur + dur
      <3>1. k \in Int
        BY <1>0, <1>3
      <3> QED BY <1>0, <1>3, <3>1
    <2>4. v \in Int /\ v + dur = iv.start + (k + 1) * dur
      BY <1>0, <2>3
    <2>5. iv.start <= v /\ (v - iv.start) % dur = 0 /\ v + dur <= iv.end
      <3>1. \E j \in 0..((iv.end - iv.start) \div dur - 1) : v = iv.start + j * dur
        OBVIOUS
      <3> HIDE DEF v
      <3> QED BY <1>7, <2>4, <3>1
    <2>6. s = [staff |-> f, start |-> v, end |-> v + dur]
      BY <2>2, <2>3, <2>4
    <2> HIDE DEF v
    <2>7. SlotBegins(open, dur, v)
      BY <1>6, <2>4, <2>5
    <2>8. v \in open
      <3>1. v < iv.end /\ iv.end \in Int
        BY <1>0, <1>3, <2>4, <2>5
      <3> QED BY <1>5, <2>4, <2>5, <3>1
    <2> QED BY <2>6, <2>7, <2>8
  <1> HIDE DEF L, R
  <1>10. L = R
    BY <1>8, <1>9
  <1> QED BY <1>10 DEF L, R, M, open, dur

(***************************************************************************)
(* BuildSlots comes to the reference.                                      *)
(***************************************************************************)
LEMMA BuiltIsReference ==
  ASSUME NEW q, QueryOK(q), q.from < q.to, q.dur > 0, HasMidnights(q.zone)
  PROVE  BuildSlots(q) = Reference(q, q.dur)
  <1> DEFINE S == Segments(q)
             Tiles(s) == {[staff |-> s.staff, start |-> v, end |-> v + q.dur] :
                            v \in {u \in OpenAt(q, s.day, s.staff) :
                                     SlotBegins(OpenAt(q, s.day, s.staff), q.dur, u)}}
  <1>1. Opened(q, q.dur) = S
    BY SegmentsAreOpened
  <1>2. Reference(q, q.dur) = UNION {Tiles(s) : s \in S}
    <2> DEFINE Instants(d, f) == UNION {s.start..(s.end - 1) :
                                   s \in {t \in S : t.day = d /\ t.staff = f}}
               First(I) == {x \in I : x - 1 \notin I}
               Ref(s) == {[staff |-> s.staff, start |-> u, end |-> u + q.dur] :
                            u \in {v \in Instants(s.day, s.staff) :
                                     \E x \in First(Instants(s.day, s.staff)) :
                                       /\ x <= v /\ (v - x) % q.dur = 0
                                       /\ x..(v + q.dur - 1) \subseteq Instants(s.day, s.staff)}}
    <2>1. Reference(q, q.dur) = UNION {Ref(s) : s \in S}
      BY <1>1 DEF Reference
    <2>2. \A d, f : Instants(d, f) = OpenAt(q, d, f)
      BY DEF OpenAt, BucketOf
    <2>3. ASSUME NEW s \in S PROVE Ref(s) = Tiles(s)
      <3>1. Instants(s.day, s.staff) = OpenAt(q, s.day, s.staff)
        BY <2>2
      <3> HIDE DEF Instants
      <3> QED BY <3>1 DEF SlotBegins
    <2> HIDE DEF Ref, Tiles
    <2> QED BY <2>1, <2>3
  <1>3. \A s \in S : Tiles(s) = UNION {Cut(iv, q.dur) : iv \in MergedOf(q, s.day, s.staff)}
    BY TilesAreCuts
  <1>4. BuildSlots(q) = UNION {Cut(iv, q.dur) :
                          iv \in UNION {MergedOf(q, s.day, s.staff) : s \in S}}
    <2>1. ~(q.dur <= 0 \/ q.to <= q.from)
      BY DEF QueryOK
    <2> QED BY <2>1 DEF BuildSlots, MergedOf, BucketOf
  <1> HIDE DEF Tiles, S
  <1> QED BY <1>2, <1>3, <1>4

-----------------------------------------------------------------------------
(* The request *)

(***************************************************************************)
(* A request's local state has the fields of IdleHandler, no others.       *)
(***************************************************************************)
HandlerShape ==
  h = [pc |-> h.pc, window |-> h.window, serviceId |-> h.serviceId,
       staffId |-> h.staffId, minutes |-> h.minutes, zone |-> h.zone,
       rules |-> h.rules, dur |-> h.dur, slots |-> h.slots]

\* A step of the request keeps what it was asked.
SameAsk ==
  /\ h'.window = h.window /\ h'.serviceId = h.serviceId
  /\ h'.staffId = h.staffId /\ h'.minutes = h.minutes

(***************************************************************************)
(* A new request has been asked something and has read nothing.            *)
(***************************************************************************)
LEMMA BeginFields ==
  ASSUME NEW w \in Window, NEW serviceId \in ServiceId, NEW staffId \in StaffId,
         NEW minutes \in Minutes, Begin(w, serviceId, staffId, minutes)
  PROVE  /\ h.pc = "idle" /\ h'.pc \in {"business", "invalid"} /\ HandlerShape'
         /\ h'.pc = "business" => w[2] > w[1]
         /\ h'.window = w /\ h'.serviceId = serviceId
         /\ h'.staffId = staffId /\ h'.minutes = minutes
  BY DEF Begin, IdleHandler, HandlerShape

(***************************************************************************)
(* The read of the business keeps its zone.                                *)
(***************************************************************************)
LEMMA ReadBusinessFields ==
  ASSUME HandlerShape, ReadBusiness
  PROVE  /\ h.pc = "business" /\ h'.pc = "rules" /\ h'.zone = zone
         /\ SameAsk /\ HandlerShape'
  <1>1. h' = [pc |-> "rules", window |-> h.window, serviceId |-> h.serviceId,
              staffId |-> h.staffId, minutes |-> h.minutes, zone |-> zone,
              rules |-> h.rules, dur |-> h.dur, slots |-> h.slots]
    BY DEF HandlerShape, ReadBusiness
  <1> QED BY <1>1 DEF HandlerShape, SameAsk, ReadBusiness

(***************************************************************************)
(* An answer is built from the zone read first, the rules and a duration.  *)
(***************************************************************************)
LEMMA AnswerFields ==
  ASSUME HandlerShape, NEW rs, NEW d, Answer(rs, d)
  PROVE  /\ h'.pc = "answered" /\ h'.zone = h.zone /\ h'.rules = rs
         /\ h'.dur = SlotLength(h.minutes, h.serviceId, d)
         /\ h'.slots = BuildSlots(Query(h.zone, rs, h'.dur))
         /\ SameAsk /\ HandlerShape'
  <1> DEFINE dur == SlotLength(h.minutes, h.serviceId, d)
  <1>1. h' = [pc |-> "answered", window |-> h.window, serviceId |-> h.serviceId,
              staffId |-> h.staffId, minutes |-> h.minutes, zone |-> h.zone,
              rules |-> rs, dur |-> dur, slots |-> BuildSlots(Query(h.zone, rs, dur))]
    BY DEF HandlerShape, Answer
  <1> QED BY <1>1 DEF HandlerShape, SameAsk

(***************************************************************************)
(* The read of the rules is the last one if no service was asked for.      *)
(***************************************************************************)
LEMMA ReadRulesFields ==
  ASSUME HandlerShape, ReadRules
  PROVE  /\ h.pc = "rules" /\ SameAsk /\ HandlerShape'
         /\ h'.zone = h.zone /\ h'.rules = rules
         /\ \/ h'.pc = "service" /\ h.serviceId # Nil
            \/ /\ h'.pc = "answered" /\ h.serviceId = Nil
               /\ h'.dur = SlotLength(h.minutes, h.serviceId, 0)
               /\ h'.slots = BuildSlots(Query(h.zone, rules, h'.dur))
  <1>1. CASE h.serviceId = Nil
    BY <1>1, AnswerFields DEF ReadRules
  <1>2. CASE h.serviceId # Nil
    <2>1. h' = [pc |-> "service", window |-> h.window, serviceId |-> h.serviceId,
                staffId |-> h.staffId, minutes |-> h.minutes, zone |-> h.zone,
                rules |-> rules, dur |-> h.dur, slots |-> h.slots]
      BY <1>2 DEF HandlerShape, ReadRules
    <2> QED BY <1>2, <2>1 DEF HandlerShape, SameAsk, ReadRules
  <1> QED BY <1>1, <1>2

(***************************************************************************)
(* The read of the service ends the request.                               *)
(***************************************************************************)
LEMMA ReadServiceFields ==
  ASSUME HandlerShape, ReadService
  PROVE  /\ h.pc = "service" /\ SameAsk /\ HandlerShape'
         /\ h'.zone = h.zone /\ h'.rules = h.rules
         /\ \/ h'.pc = "missing"
            \/ /\ h'.pc = "answered" /\ service # Nil
               /\ h'.dur = SlotLength(h.minutes, h.serviceId, service)
               /\ h'.slots = BuildSlots(Query(h.zone, h.rules, h'.dur))
  <1>1. CASE ~(h.serviceId # TheService \/ service = Nil)
    BY <1>1, AnswerFields DEF ReadService
  <1>2. CASE h.serviceId # TheService \/ service = Nil
    <2>1. h' = [pc |-> "missing", window |-> h.window, serviceId |-> h.serviceId,
                staffId |-> h.staffId, minutes |-> h.minutes, zone |-> h.zone,
                rules |-> h.rules, dur |-> h.dur, slots |-> h.slots]
      BY <1>2 DEF HandlerShape, ReadService
    <2> QED BY <1>2, <2>1 DEF HandlerShape, SameAsk, ReadService
  <1> QED BY <1>1, <1>2

(***************************************************************************)
(* The types, with the shape of the request's local state.                 *)
(***************************************************************************)
TypeInv == TypeOK /\ HandlerShape

(***************************************************************************)
(* A request that has not begun asks for nothing.                          *)
(***************************************************************************)
THEOREM TypeInit == Init => TypeInv
  BY OptionalAssumption, BoundAssumption
     DEF Init, TypeInv, TypeOK, HandlerShape, IdleHandler, PC

(***************************************************************************)
(* Only rules that are all valid are stored, and a request keeps its ask.  *)
(***************************************************************************)
THEOREM TypeNext == TypeInv /\ [Next]_vars => TypeInv'
  <1> SUFFICES ASSUME TypeOK, HandlerShape, [Next]_vars PROVE TypeOK' /\ HandlerShape'
    BY DEF TypeInv
  <1>1. ASSUME NEW k \in 0..MaxRules, NEW put \in kSubset(k, Rule), PutRules(put)
        PROVE  TypeOK' /\ HandlerShape'
    <2>1. put \subseteq Rule
      BY DEF kSubset
    <2> QED BY <1>1, <2>1, BoundAssumption
            DEF PutRules, Accepts, MayWrite, TypeOK, HandlerShape
  <1>2. ASSUME NEW z \in Zone, PatchBusiness(z)
        PROVE  TypeOK' /\ HandlerShape'
    BY <1>2, BoundAssumption DEF PatchBusiness, MayWrite, TypeOK, HandlerShape
  <1>3. ASSUME NEW d \in Duration \cup {Nil}, PatchService(d)
        PROVE  TypeOK' /\ HandlerShape'
    BY <1>3, BoundAssumption DEF PatchService, MayWrite, TypeOK, HandlerShape
  <1>4. ASSUME NEW w \in Window, NEW serviceId \in ServiceId, NEW staffId \in StaffId,
               NEW minutes \in Minutes, Begin(w, serviceId, staffId, minutes)
        PROVE  TypeOK' /\ HandlerShape'
    <2>1. UNCHANGED <<zone, rules, service, writes>>
      BY <1>4 DEF Begin
    <2>2. /\ h'.pc \in PC /\ HandlerShape' /\ h'.window = w /\ h'.serviceId = serviceId
          /\ h'.staffId = staffId /\ h'.minutes = minutes
      BY <1>4, BeginFields DEF PC
    <2> QED BY <2>1, <2>2 DEF TypeOK
  <1>5. CASE ReadBusiness
    BY <1>5, ReadBusinessFields DEF ReadBusiness, SameAsk, TypeOK, PC
  <1>6. CASE ReadRules
    BY <1>6, ReadRulesFields DEF ReadRules, SameAsk, TypeOK, PC
  <1>7. CASE ReadService
    BY <1>7, ReadServiceFields DEF ReadService, SameAsk, TypeOK, PC
  <1>8. CASE UNCHANGED vars
    BY <1>8 DEF vars, TypeOK, HandlerShape
  <1> QED BY <1>1, <1>2, <1>3, <1>4, <1>5, <1>6, <1>7, <1>8 DEF Next, ListSlots

(***************************************************************************)
(* Rows and requests have their types, and stored rules are valid ones, in *)
(* every reachable state.                                                  *)
(***************************************************************************)
THEOREM TypeCorrect == Spec => []TypeOK
  <1>1. TypeInv => TypeOK
    BY DEF TypeInv
  <1> QED BY TypeInit, TypeNext, <1>1, PTL DEF Spec

-----------------------------------------------------------------------------
(* One moment or two changes *)

\* m and n differ in one row at most.
OneRowApart(m, n) ==
  \/ m.zone = n.zone /\ m.rules = n.rules
  \/ m.zone = n.zone /\ m.service = n.service
  \/ m.rules = n.rules /\ m.service = n.service

(***************************************************************************)
(* Each row a request has read is that of a moment at which it ran, and    *)
(* two moments alone are one change apart.                                 *)
(***************************************************************************)
MomentsInv ==
  /\ IsFiniteSet(moments)
  /\ h.pc = "idle" => moments = {}
  /\ Running => Rows \in moments
  /\ Cardinality(moments) <= 2 => \A m, n \in moments : OneRowApart(m, n)
  /\ h.pc \in {"rules", "service", "answered"} => \E m \in moments : m.zone = h.zone
  /\ h.pc \in {"service", "answered"} => \E m \in moments : m.rules = h.rules
  /\ Answered =>
       /\ h.slots = BuildSlots(Asked)
       /\ \E m \in moments : h.dur = SlotLength(h.minutes, h.serviceId, m.service)

(***************************************************************************)
(* Before a request there are no moments.                                  *)
(***************************************************************************)
THEOREM MomentsInit == Init => MomentsInv
  BY FS_EmptySet DEF Init, MomentsInv, IdleHandler, Running, Answered

(***************************************************************************)
(* A moment one change from the present one, added to those so far.        *)
(***************************************************************************)
LEMMA MomentAdded ==
  ASSUME NEW M, IsFiniteSet(M), NEW now \in M, NEW next, OneRowApart(now, next),
         Cardinality(M) <= 2 => \A m, n \in M : OneRowApart(m, n)
  PROVE  /\ IsFiniteSet(M \cup {next})
         /\ Cardinality(M \cup {next}) <= 2
              => \A m, n \in M \cup {next} : OneRowApart(m, n)
  <1>1. CASE next \in M
    <2>1. M \cup {next} = M
      BY <1>1
    <2> QED BY <2>1
  <1>2. CASE next \notin M
    <2>1. /\ IsFiniteSet(M \cup {next}) /\ Cardinality(M \cup {next}) = Cardinality(M) + 1
          /\ Cardinality(M) \in Nat
      BY <1>2, FS_AddElement, FS_CardinalityType
    <2>2. ASSUME Cardinality(M \cup {next}) <= 2
          PROVE  M = {now}
      <3>1. Cardinality(M) <= 1
        BY <2>1, <2>2
      <3>2. Cardinality({now}) = 1 /\ {now} \subseteq M
        BY FS_Singleton
      <3>3. Cardinality({now}) <= Cardinality(M)
        BY <3>2, FS_Subset
      <3> QED BY <2>1, <3>1, <3>2, <3>3, FS_Subset
    <2>3. ASSUME Cardinality(M \cup {next}) <= 2
          PROVE  \A m, n \in M \cup {next} : OneRowApart(m, n)
      BY <2>2, <2>3 DEF OneRowApart
    <2> QED BY <2>1, <2>3
  <1> QED BY <1>1, <1>2

(***************************************************************************)
(* A step without the request: one change of one row.                      *)
(***************************************************************************)
LEMMA WriteMoments ==
  ASSUME MomentsInv, UNCHANGED h, Observe, OneRowApart(Rows, Rows')
  PROVE  MomentsInv'
  <1>1. Running' = Running /\ Answered' = Answered /\ (h'.pc = "business" => Running)
    BY DEF Running, Answered
  <1>2. moments \subseteq moments'
    BY DEF Observe
  <1>3. CASE Running
    <2>1. moments' = moments \cup {Rows'} /\ Rows \in moments
      BY <1>3 DEF Observe, MomentsInv
    <2>2. /\ IsFiniteSet(moments')
          /\ Cardinality(moments') <= 2 => \A m, n \in moments' : OneRowApart(m, n)
      BY <2>1, MomentAdded DEF MomentsInv
    <2> QED BY <1>1, <1>2, <1>3, <2>1, <2>2 DEF MomentsInv, Running, Answered
  <1>4. CASE ~Running
    BY <1>1, <1>4 DEF MomentsInv, Observe, Running, Answered, Asked, Query
  <1> QED BY <1>3, <1>4

(***************************************************************************)
(* Every step keeps it.                                                    *)
(***************************************************************************)
THEOREM MomentsNext == TypeInv /\ MomentsInv /\ [Next]_vars => MomentsInv'
  <1> SUFFICES ASSUME TypeOK, HandlerShape, MomentsInv, [Next]_vars PROVE MomentsInv'
    BY DEF TypeInv
  <1>1. ASSUME NEW k \in 0..MaxRules, NEW put \in kSubset(k, Rule), PutRules(put), Observe
        PROVE  MomentsInv'
    BY <1>1, WriteMoments DEF PutRules, Rows, OneRowApart
  <1>2. ASSUME NEW z \in Zone, PatchBusiness(z), Observe
        PROVE  MomentsInv'
    BY <1>2, WriteMoments DEF PatchBusiness, Rows, OneRowApart
  <1>3. ASSUME NEW d \in Duration \cup {Nil}, PatchService(d), Observe
        PROVE  MomentsInv'
    BY <1>3, WriteMoments DEF PatchService, Rows, OneRowApart
  <1>4. ASSUME NEW w \in Window, NEW serviceId \in ServiceId, NEW staffId \in StaffId,
               NEW minutes \in Minutes, Begin(w, serviceId, staffId, minutes), Observe
        PROVE  MomentsInv'
    <2>1. moments = {} /\ h'.pc \in {"business", "invalid"} /\ ~Running
      BY <1>4, BeginFields DEF MomentsInv, Running
    <2>2. CASE h'.pc = "business"
      <3>1. moments' = {Rows'}
        BY <1>4, <2>1, <2>2 DEF Observe
      <3>2. IsFiniteSet(moments') /\ \A m, n \in moments' : OneRowApart(m, n)
        BY <3>1, FS_Singleton DEF OneRowApart
      <3> QED BY <2>2, <3>1, <3>2 DEF MomentsInv, Running, Answered
    <2>3. CASE h'.pc = "invalid"
      <3>1. moments' = {}
        BY <1>4, <2>1, <2>3 DEF Observe
      <3> QED BY <2>3, <3>1, FS_EmptySet DEF MomentsInv, Running, Answered
    <2> QED BY <2>1, <2>2, <2>3
  <1>5. ASSUME ReadBusiness \/ ReadRules \/ ReadService, Observe
        PROVE  MomentsInv'
    <2>1. Rows' = Rows /\ Running /\ Rows \in moments
      BY <1>5 DEF ReadBusiness, ReadRules, ReadService, Rows, Running, MomentsInv
    <2>2. moments' = moments
      BY <1>5, <2>1 DEF Observe
    <2>3. Rows.zone = zone /\ Rows.rules = rules /\ Rows.service = service
      BY DEF Rows
    <2>4. CASE ReadBusiness
      <3>1. h'.pc = "rules" /\ h'.zone = Rows.zone
        BY <2>3, <2>4, ReadBusinessFields
      <3> QED BY <2>1, <2>2, <3>1 DEF MomentsInv, Running, Answered
    <2>5. CASE ReadRules
      <3>1. /\ h.pc = "rules" /\ h'.zone = h.zone /\ h'.rules = Rows.rules /\ SameAsk
            /\ \/ h'.pc = "service"
               \/ /\ h'.pc = "answered" /\ h.serviceId = Nil
                  /\ h'.dur = SlotLength(h.minutes, h.serviceId, 0)
                  /\ h'.slots = BuildSlots(Query(h.zone, rules, h'.dur))
        BY <2>3, <2>5, ReadRulesFields
      <3>2. \E m \in moments : m.zone = h'.zone
        BY <3>1 DEF MomentsInv
      <3>3. CASE h'.pc = "service"
        BY <2>1, <2>2, <3>1, <3>2, <3>3 DEF MomentsInv, Running, Answered
      <3>4. CASE h'.pc = "answered"
        <4>1. h'.slots = BuildSlots(Asked')
          BY <2>3, <3>1, <3>4 DEF Asked, Query, SameAsk
        <4>2. h'.dur = SlotLength(h'.minutes, h'.serviceId, Rows.service)
          BY <3>1, <3>4 DEF SlotLength, SameAsk
        <4> QED BY <2>1, <2>2, <3>1, <3>2, <3>4, <4>1, <4>2 DEF MomentsInv, Running, Answered
      <3> QED BY <3>1, <3>3, <3>4
    <2>6. CASE ReadService
      <3>1. /\ h.pc = "service" /\ h'.zone = h.zone /\ h'.rules = h.rules /\ SameAsk
            /\ \/ h'.pc = "missing"
               \/ /\ h'.pc = "answered"
                  /\ h'.dur = SlotLength(h.minutes, h.serviceId, Rows.service)
                  /\ h'.slots = BuildSlots(Query(h.zone, h.rules, h'.dur))
        BY <2>3, <2>6, ReadServiceFields
      <3>2. CASE h'.pc = "missing"
        BY <2>1, <2>2, <3>2 DEF MomentsInv, Running, Answered
      <3>3. CASE h'.pc = "answered"
        <4>1. h'.slots = BuildSlots(Asked')
          BY <3>1, <3>3 DEF Asked, Query, SameAsk
        <4>2. h'.dur = SlotLength(h'.minutes, h'.serviceId, Rows.service)
          BY <3>1, <3>3 DEF SameAsk
        <4>3. /\ \E m \in moments : m.zone = h'.zone
              /\ \E m \in moments : m.rules = h'.rules
          BY <3>1 DEF MomentsInv
        <4> QED BY <2>1, <2>2, <3>3, <4>1, <4>2, <4>3 DEF MomentsInv, Running, Answered
      <3> QED BY <3>1, <3>2, <3>3
    <2> QED BY <1>5, <2>4, <2>5, <2>6
  <1>6. CASE UNCHANGED vars
    BY <1>6 DEF vars, MomentsInv, Running, Answered, Asked, Query, Rows
  <1> QED BY <1>1, <1>2, <1>3, <1>4, <1>5, <1>6 DEF Next, ListSlots

(***************************************************************************)
(* A list of slots answers for a moment at which the request ran, unless   *)
(* at least two changes came in between.                                   *)
(***************************************************************************)
THEOREM TornOnlyByTwoWrites == Spec => []TornNeedsTwoWrites
  <1>1. MomentsInv => TornNeedsTwoWrites
    <2> SUFFICES ASSUME MomentsInv, Answered, Cardinality(moments) <= 2
                 PROVE  \E now \in moments :
                          h.slots = BuildSlots(Query(now.zone, now.rules,
                                      SlotLength(h.minutes, h.serviceId, now.service)))
      BY DEF TornNeedsTwoWrites
    <2>1. PICK z \in moments : z.zone = h.zone
      BY DEF MomentsInv, Answered
    <2>2. PICK r \in moments : r.rules = h.rules
      BY DEF MomentsInv, Answered
    <2>3. PICK s \in moments : h.dur = SlotLength(h.minutes, h.serviceId, s.service)
      BY DEF MomentsInv
    <2>4. h.slots = BuildSlots(Query(h.zone, h.rules, h.dur))
      BY DEF MomentsInv, Asked
    <2>5. \A m, n \in moments : OneRowApart(m, n)
      BY DEF MomentsInv
    <2>6. z = r \/ z = s \/ r = s
      <3>1. IsFiniteSet(moments)
        BY DEF MomentsInv
      <3>2. ASSUME z # r, z # s, r # s PROVE FALSE
        <4>1. Cardinality({z, r, s}) = 3
          <5>1. IsFiniteSet({z}) /\ Cardinality({z}) = 1
            BY FS_Singleton
          <5>2. IsFiniteSet({z} \cup {r}) /\ Cardinality({z} \cup {r}) = 2
            BY <3>2, <5>1, FS_AddElement
          <5>3. Cardinality(({z} \cup {r}) \cup {s}) = 3
            BY <3>2, <5>2, FS_AddElement
          <5>4. ({z} \cup {r}) \cup {s} = {z, r, s}
            OBVIOUS
          <5> QED BY <5>3, <5>4
        <4>2. Cardinality({z, r, s}) <= Cardinality(moments)
          BY <3>1, FS_Subset
        <4>3. Cardinality(moments) \in Nat
          BY <3>1, FS_CardinalityType
        <4> QED BY <4>1, <4>2, <4>3
      <3> QED BY <3>2
    <2>7. CASE z = r
      <3>1. CASE z.zone = s.zone /\ z.rules = s.rules
        BY <2>1, <2>2, <2>3, <2>4, <2>7, <3>1
      <3>2. CASE z.service = s.service
        BY <2>1, <2>2, <2>3, <2>4, <2>7, <3>2
      <3> QED BY <2>5, <3>1, <3>2 DEF OneRowApart
    <2>8. CASE z = s
      <3>1. CASE z.zone = r.zone /\ z.service = r.service
        BY <2>1, <2>2, <2>3, <2>4, <2>8, <3>1
      <3>2. CASE z.rules = r.rules
        BY <2>1, <2>2, <2>3, <2>4, <2>8, <3>2
      <3> QED BY <2>5, <3>1, <3>2 DEF OneRowApart
    <2>9. CASE r = s
      <3>1. CASE r.rules = z.rules /\ r.service = z.service
        BY <2>1, <2>2, <2>3, <2>4, <2>9, <3>1
      <3>2. CASE r.zone = z.zone
        BY <2>1, <2>2, <2>3, <2>4, <2>9, <3>2
      <3> QED BY <2>5, <3>1, <3>2 DEF OneRowApart
    <2> QED BY <2>6, <2>7, <2>8, <2>9
  <1> QED BY TypeInit, TypeNext, MomentsInit, MomentsNext, <1>1, PTL DEF Spec

-----------------------------------------------------------------------------
(* The slots of an answer *)

(***************************************************************************)
(* A list of slots is computed from values that BuildSlots can work with.  *)
(***************************************************************************)
AskInv ==
  /\ rules \subseteq Rule /\ IsFiniteSet(rules)
  /\ h.pc \in {"rules", "service", "answered"} => h.zone \in Zone
  /\ h.pc \in {"business", "rules", "service", "answered"} =>
       h.window \in Window /\ h.window[2] > h.window[1]
  /\ h.pc \in {"service", "answered"} => h.rules \subseteq Rule /\ IsFiniteSet(h.rules)
  /\ Answered => h.dur \in Nat \ {0} /\ h.slots = BuildSlots(Asked)
  /\ ~Answered => h.slots = {}

(***************************************************************************)
(* There are no slots before a request.                                    *)
(***************************************************************************)
THEOREM AskInit == Init => AskInv
  BY FS_EmptySet DEF Init, AskInv, IdleHandler, Answered

(***************************************************************************)
(* Every step keeps it.                                                    *)
(***************************************************************************)
THEOREM AskNext == TypeInv /\ AskInv /\ [Next]_vars => AskInv'
  <1> SUFFICES ASSUME TypeOK, HandlerShape, AskInv, [Next]_vars PROVE AskInv'
    BY DEF TypeInv
  <1>1. ASSUME NEW k \in 0..MaxRules, NEW put \in kSubset(k, Rule), PutRules(put)
        PROVE  AskInv'
    <2>1. put \subseteq Rule /\ IsFiniteSet(put)
      BY RuleAssumption DEF kSubset
    <2> QED BY <1>1, <2>1 DEF PutRules, AskInv, Answered, Asked, Query
  <1>2. ASSUME NEW z \in Zone, PatchBusiness(z)
        PROVE  AskInv'
    BY <1>2 DEF PatchBusiness, AskInv, Answered, Asked, Query
  <1>3. ASSUME NEW d \in Duration \cup {Nil}, PatchService(d)
        PROVE  AskInv'
    BY <1>3 DEF PatchService, AskInv, Answered, Asked, Query
  <1>4. ASSUME NEW w \in Window, NEW serviceId \in ServiceId, NEW staffId \in StaffId,
               NEW minutes \in Minutes, Begin(w, serviceId, staffId, minutes)
        PROVE  AskInv'
    <2>1. /\ h'.pc \in {"business", "invalid"} /\ h'.window = w /\ h'.slots = {}
          /\ rules' = rules
          /\ h'.pc = "business" => w[2] > w[1]
      BY <1>4, BeginFields DEF Begin, IdleHandler
    <2> QED BY <2>1 DEF AskInv, Answered
  <1>5. CASE ReadBusiness
    <2>1. /\ h.pc = "business" /\ h'.pc = "rules" /\ h'.zone = zone /\ h'.window = h.window
          /\ h'.slots = h.slots /\ rules' = rules
      BY <1>5, ReadBusinessFields DEF ReadBusiness, SameAsk
    <2> QED BY <2>1 DEF AskInv, TypeOK, Answered
  <1>6. ASSUME ReadRules \/ ReadService
        PROVE  AskInv'
    <2>1. /\ h.pc \in {"rules", "service"} /\ SameAsk /\ h'.zone = h.zone /\ rules' = rules
          /\ h'.rules = rules \/ (h'.rules = h.rules /\ h.pc = "service")
      BY <1>6, ReadRulesFields, ReadServiceFields DEF ReadRules, ReadService
    <2>2. h'.rules \subseteq Rule /\ IsFiniteSet(h'.rules) /\ h'.zone \in Zone
          /\ h'.window \in Window /\ h'.window[2] > h'.window[1]
      BY <2>1 DEF AskInv, SameAsk
    <2>3. \/ h'.pc \in {"service", "missing"} /\ h'.slots = h.slots
          \/ /\ h'.pc = "answered"
             /\ h'.dur = SlotLength(h.minutes, h.serviceId, 0)
                \/ (service # Nil /\ h'.dur = SlotLength(h.minutes, h.serviceId, service))
             /\ h'.slots = BuildSlots(Query(h.zone, h'.rules, h'.dur))
      <3>1. CASE ReadRules /\ h.serviceId # Nil
        BY <3>1 DEF ReadRules, HandlerShape
      <3>2. CASE ReadRules /\ h.serviceId = Nil
        BY <3>2, ReadRulesFields
      <3>3. CASE ReadService /\ (h.serviceId # TheService \/ service = Nil)
        BY <3>3 DEF ReadService, HandlerShape
      <3>4. CASE ReadService /\ ~(h.serviceId # TheService \/ service = Nil)
        <4>1. Answer(h.rules, service)
          BY <3>4 DEF ReadService
        <4> QED BY <3>4, <4>1, AnswerFields
      <3> QED BY <1>6, <3>1, <3>2, <3>3, <3>4
    <2>4. CASE h'.pc \in {"service", "missing"} /\ h'.slots = h.slots
      BY <2>1, <2>2, <2>4 DEF AskInv, Answered
    <2>5. CASE h'.pc = "answered"
      <3>1. h'.slots = BuildSlots(Asked')
        BY <2>1, <2>3, <2>5 DEF Asked, Query, SameAsk
      <3>2. h'.dur \in Nat \ {0}
        <4>1. \A d \in Int : SlotLength(h.minutes, h.serviceId, d) \in Nat \ {0}
          BY TimeAssumption DEF SlotLength, TypeOK
        <4>2. service # Nil => service \in Int
          BY TimeAssumption DEF TypeOK
        <4> QED BY <2>3, <2>5, <4>1, <4>2
      <3> QED BY <2>1, <2>2, <2>5, <3>1, <3>2 DEF AskInv, Answered
    <2> QED BY <2>3, <2>4, <2>5
  <1>7. CASE UNCHANGED vars
    BY <1>7 DEF vars, AskInv, Answered, Asked, Query
  <1> QED BY <1>1, <1>2, <1>3, <1>4, <1>5, <1>6, <1>7 DEF Next, ListSlots

(***************************************************************************)
(* So what is proved of BuildSlots holds of an answer.                     *)
(***************************************************************************)
LEMMA AskedOK ==
  ASSUME AskInv, Answered
  PROVE  /\ QueryOK(Asked) /\ Asked.from < Asked.to /\ Asked.dur > 0
         /\ h.slots = BuildSlots(Asked)
  <1>1. /\ Asked.zone = h.zone /\ Asked.rules = h.rules /\ Asked.dur = h.dur
        /\ Asked.from = h.window[1] /\ Asked.to = h.window[2]
    BY DEF Asked, Query
  <1>2. h.zone \in Zone /\ h.window \in Window /\ h.rules \subseteq Rule /\ h.dur \in Nat \ {0}
        /\ IsFiniteSet(h.rules) /\ h.slots = BuildSlots(Asked) /\ h.window[2] > h.window[1]
    BY DEF AskInv, Answered
  <1>3. ZoneOK(h.zone) /\ h.window[1] \in Int /\ h.window[2] \in Int
    BY <1>2, TimeAssumption DEF ZoneOK
  <1> QED BY <1>1, <1>2, <1>3, RuleAssumption DEF QueryOK

(***************************************************************************)
(* Two slots of a staff member never overlap, if no business is in a zone  *)
(* whose change of offset skips times near midnight.                       *)
(***************************************************************************)
THEOREM SlotsNeverOverlap ==
  ASSUME \A z \in Zone : KeepsMidnight(z)
  PROVE  Spec => []SlotsDisjoint
  <1>1. AskInv => SlotsDisjoint
    <2> SUFFICES ASSUME AskInv, NEW s \in h.slots, NEW t \in h.slots,
                        s.staff = t.staff, s # t
                 PROVE  s.end <= t.start \/ t.end <= s.start
      BY DEF SlotsDisjoint
    <2>1. Answered
      BY DEF AskInv
    <2>2. QueryOK(Asked) /\ h.slots = BuildSlots(Asked)
      BY <2>1, AskedOK
    <2>3. KeepsMidnight(Asked.zone)
      BY <2>1 DEF AskInv, Asked, Query, Answered
    <2> QED BY <2>2, <2>3, BuiltDisjoint
  <1> QED BY TypeInit, TypeNext, AskInit, AskNext, <1>1, PTL DEF Spec

(***************************************************************************)
(* Read back on the wall clock, an answer has no instant outside the       *)
(* window or the opening hours of the staff member, unless a rule begins   *)
(* or ends at a time that the change of offset skips or repeats.           *)
(***************************************************************************)
THEOREM SlotsOnlyInOpenHours == Spec => []SlotsInOpenHours
  <1>1. AskInv => SlotsInOpenHours
    <2> SUFFICES ASSUME AskInv, Answered, ClearRules(Asked),
                        NEW s \in h.slots, NEW u \in s.start..(s.end - 1)
                 PROVE  /\ h.window[1] <= u /\ u < h.window[2]
                        /\ OpenOnTheWall(Asked, s.staff, u)
      BY DEF SlotsInOpenHours
    <2>1. QueryOK(Asked) /\ s \in BuildSlots(Asked)
      BY AskedOK
    <2>2. u \in Int /\ s.start <= u /\ u < s.end
      <3>1. s.start \in Int /\ s.end \in Int
        BY <2>1, BuiltTypes
      <3> QED BY <3>1
    <2>3. Asked.from = h.window[1] /\ Asked.to = h.window[2]
      BY DEF Asked, Query
    <2> QED BY <2>1, <2>2, <2>3, BuiltInOpenHours
  <1> QED BY TypeInit, TypeNext, AskInit, AskNext, <1>1, PTL DEF Spec

(***************************************************************************)
(* An answer is what the reference says, if no business is in a zone whose *)
(* change of offset skips a midnight.                                      *)
(***************************************************************************)
THEOREM SlotsAreTheReference ==
  ASSUME \A z \in Zone : HasMidnights(z)
  PROVE  Spec => []SlotsMatchReference
  <1>1. AskInv => SlotsMatchReference
    <2> SUFFICES ASSUME AskInv, Answered PROVE h.slots = Reference(Asked, h.dur)
      BY DEF SlotsMatchReference
    <2>1. /\ QueryOK(Asked) /\ Asked.from < Asked.to /\ Asked.dur > 0
          /\ h.slots = BuildSlots(Asked)
      BY AskedOK
    <2>2. HasMidnights(Asked.zone) /\ Asked.dur = h.dur
      BY DEF AskInv, Asked, Query, Answered
    <2> QED BY <2>1, <2>2, BuiltIsReference
  <1> QED BY TypeInit, TypeNext, AskInit, AskNext, <1>1, PTL DEF Spec
=============================================================================

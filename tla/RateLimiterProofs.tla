-------------------------- MODULE RateLimiterProofs --------------------------
(***************************************************************************)
(* Theorems about RateLimiter, for any number of requests and clients and  *)
(* every limit, window length and lag.                                     *)
(***************************************************************************)
EXTENDS RateLimiter, FiniteSetTheorems, TLAPS

\* The requests of c that passed, having arrived at a or later.
Since(c, a) ==
  {r \in Request : q[r].pc = "passed" /\ q[r].client = c /\ q[r].now >= a}

\* A client's requests are counted by the visitor that the map has for it, and
\* that visitor was made by one of them.
Owned ==
  /\ \A r \in Request : q[r].pc # "idle" => q[r].client \in Client
  /\ \A r \in Request : q[r].pc \in {"count", "passed", "refused"} =>
       q[r].visitor \in Request /\ visitors[q[r].client] = q[r].visitor
  /\ \A c \in Client : visitors[c] # Nil =>
       q[visitors[c]].client = c /\ q[visitors[c]].pc \in {"count", "passed", "refused"}
  /\ \A r \in Request : q[r].pc \in {"idle", "find"} => visitor[r] = NewVisitor

\* No stamp and no window is of the future, and nobody is slower than Lag.
Timely ==
  /\ \A r \in Request : q[r].now <= clock /\ visitor[r].window0 <= clock
  /\ \A r \in InFlight : clock - q[r].now <= Lag

\* Of the requests of c from a on, each window of v before the current one holds
\* no more than Max, the current one as many as it has counted, and k windows
\* take up k times their length.
WindowsHold(c, v, a) ==
  \/ Since(c, a) = {}
  \/ \E k \in Nat : /\ k * Window <= visitor[v].window0 - a + Window - 1
                    /\ Cardinality(Since(c, a)) <= k * Max + visitor[v].count

\* What a visitor counts did pass, within its window or, if the stamp is old, a
\* little before it.
CountsPassed(c, v) ==
  visitor[v].count <=
    Cardinality(Passed(c, visitor[v].window0 - Lag, Window + Lag))

WindowInv ==
  \A c \in Client : visitors[c] # Nil =>
    /\ CountsPassed(c, visitors[c])
    /\ \A a \in 0..MaxTime : WindowsHold(c, visitors[c], a)

IInv ==
  TypeOK /\ Owned /\ Timely /\ WindowInv /\ PassesBounded /\ RefusalEarned

-----------------------------------------------------------------------------
(* Counting sets of requests *)

(***************************************************************************)
(* A set of requests has no more members than one it is part of.           *)
(***************************************************************************)
LEMMA Larger ==
  ASSUME IsFiniteSet(Request), NEW S \in SUBSET Request, NEW T \in SUBSET S
  PROVE  /\ Cardinality(T) \in Nat /\ Cardinality(S) \in Nat
         /\ Cardinality(T) <= Cardinality(S)
<1>1. IsFiniteSet(S)
  BY FS_Subset
<1>2. IsFiniteSet(T) /\ Cardinality(T) <= Cardinality(S)
  BY <1>1, FS_Subset
<1> QED BY <1>1, <1>2, FS_CardinalityType

(***************************************************************************)
(* One more request makes a set larger by one at most.                     *)
(***************************************************************************)
LEMMA OneMore ==
  ASSUME IsFiniteSet(Request), NEW S \in SUBSET Request, NEW r \in Request
  PROVE  /\ S \cup {r} \in SUBSET Request
         /\ Cardinality(S \cup {r}) <= Cardinality(S) + 1
         /\ r \notin S => Cardinality(S \cup {r}) = Cardinality(S) + 1
<1>1. IsFiniteSet(S)
  BY FS_Subset
<1>2. Cardinality(S) \in Nat
  BY <1>1, FS_CardinalityType
<1>3. Cardinality(S \cup {r}) = IF r \in S THEN Cardinality(S) ELSE Cardinality(S) + 1
  BY <1>1, FS_AddElement
<1> QED BY <1>2, <1>3

(***************************************************************************)
(* The sets of requests that the invariant counts.                         *)
(***************************************************************************)
LEMMA SetsOfRequests ==
  \A c, a, l : Passed(c, a, l) \in SUBSET Request /\ Since(c, a) \in SUBSET Request
BY DEF Passed, Since

-----------------------------------------------------------------------------
(* Steps that count nothing *)

(***************************************************************************)
(* The limiter starts with no visitor and no request.                      *)
(***************************************************************************)
LEMMA InitInv == ASSUME IsFiniteSet(Request) PROVE Init => IInv
<1> SUFFICES ASSUME Init PROVE IInv
  OBVIOUS
<1> USE RateLimiterAssumption
<1>1. TypeOK
  BY DEF Init, TypeOK, RequestState, PC, WindowVisitor, NewVisitor
<1>2. Owned
  BY DEF Init, Owned
<1>3. Timely
  BY DEF Init, Timely, InFlight, NewVisitor
<1>4. WindowInv
  BY DEF Init, WindowInv
<1>5. \A c, a, l : Passed(c, a, l) = {}
  BY DEF Init, Passed
<1>6. WindowsMet \in Nat
  BY DEF WindowsMet
<1>7. PassesBounded
  <2>1. Cardinality({}) = 0 /\ 0 <= WindowsMet * Max
    BY <1>6, FS_EmptySet
  <2> QED BY <1>5, <2>1 DEF PassesBounded
<1>8. RefusalEarned
  BY DEF Init, RefusalEarned
<1> QED BY <1>1, <1>2, <1>3, <1>4, <1>7, <1>8 DEF IInv

(***************************************************************************)
(* While nobody is counted the visitors that are in the map stay as they   *)
(* are, and nobody passes or is refused.                                   *)
(***************************************************************************)
LEMMA QuietInv ==
  ASSUME IsFiniteSet(Request), IInv, TypeOK', Owned', Timely', visitor' = visitor,
         \A c \in Client :
           \/ visitors'[c] = visitors[c]
           \/ /\ visitors[c] = Nil /\ visitors'[c] \in Request
              /\ visitor[visitors'[c]] = NewVisitor,
         \A r \in Request :
           /\ q'[r].pc \in {"passed", "refused"} <=> q[r].pc \in {"passed", "refused"}
           /\ q[r].pc \in {"passed", "refused"} => q'[r] = q[r]
  PROVE  IInv'
<1> USE RateLimiterAssumption
<1>1. \A c, a, l : Passed(c, a, l)' = Passed(c, a, l) /\ Since(c, a)' = Since(c, a)
  BY DEF Passed, Since
<1>2. PassesBounded'
  BY <1>1 DEF IInv, PassesBounded
<1>3. RefusalEarned'
  <2>1. \A r \in Request : q'[r].pc = "refused" => q[r].pc = "refused" /\ q'[r] = q[r]
    BY DEF IInv
  <2>2. ASSUME NEW r \in Request, NEW c, NEW t, q'[r].pc = "refused",
               c = q'[r].client, t = q'[r].now
        PROVE  Cardinality(Passed(c, t - (Window + Lag - 1), 2 * (Window + Lag) - 1)') >= Max
    <3>1. q[r].pc = "refused" /\ c = q[r].client /\ t = q[r].now
      BY <2>1, <2>2
    <3>2. Cardinality(Passed(c, t - (Window + Lag - 1), 2 * (Window + Lag) - 1)) >= Max
      BY <3>1 DEF IInv, RefusalEarned
    <3> QED BY <1>1, <3>2
  <2> QED BY <2>2 DEF RefusalEarned, Passed
<1>4. ASSUME NEW c \in Client, NEW v, v = visitors'[c], v # Nil
      PROVE  CountsPassed(c, v)' /\ \A a \in 0..MaxTime : WindowsHold(c, v, a)'
  <2>1. CASE v = visitors[c]
    <3>1. CountsPassed(c, v) /\ \A a \in 0..MaxTime : WindowsHold(c, v, a)
      BY <1>4, <2>1 DEF IInv, WindowInv
    <3>2. CountsPassed(c, v)'
      BY <1>1, <3>1 DEF CountsPassed
    <3>3. ASSUME NEW a \in 0..MaxTime PROVE WindowsHold(c, v, a)'
      BY <1>1, <3>1 DEF WindowsHold
    <3> QED BY <3>2, <3>3
  <2>2. CASE visitors[c] = Nil /\ v \in Request /\ visitor[v] = NewVisitor
    <3>1. visitor'[v].count = 0 /\ visitor'[v].window0 = -Window
      BY <2>2 DEF NewVisitor
    <3>2. CountsPassed(c, v)'
      <4>1. Passed(c, -Window - Lag, Window + Lag)' \in SUBSET Request
        BY DEF Passed
      <4>2. Cardinality(Passed(c, -Window - Lag, Window + Lag)') \in Nat
        BY <4>1, Larger
      <4> QED BY <3>1, <4>2 DEF CountsPassed
    <3>3. ASSUME NEW a \in 0..MaxTime PROVE WindowsHold(c, v, a)'
      <4>1. Since(c, a) = {}
        BY <2>2 DEF IInv, Owned, Since
      <4> QED BY <1>1, <4>1 DEF WindowsHold
    <3> QED BY <3>2, <3>3
  <2> QED BY <1>4, <2>1, <2>2
<1>5. WindowInv'
  BY <1>4 DEF WindowInv, CountsPassed, WindowsHold, Passed, Since
<1> QED BY <1>2, <1>3, <1>5 DEF IInv

(***************************************************************************)
(* What a change of one request's state leaves of it.                      *)
(***************************************************************************)
LEMMA ArriveFacts ==
  ASSUME TypeOK, NEW r \in Request, NEW c \in Client, Arrive(r, c)
  PROVE  /\ q' \in [Request -> RequestState]
         /\ q'[r].pc = "find" /\ q'[r].client = c /\ q'[r].now = clock
         /\ \A x \in Request : x # r => q'[x] = q[x]
<1> DEFINE n == [q[r] EXCEPT !.pc = "find", !.client = c, !.now = clock]
<1>1. n \in RequestState /\ n.pc = "find" /\ n.client = c /\ n.now = clock
  BY DEF TypeOK, RequestState, PC
<1>2. q' = [q EXCEPT ![r] = n]
  BY DEF Arrive
<1> HIDE DEF n
<1> QED BY <1>1, <1>2 DEF TypeOK

(***************************************************************************)
(* The same of a request that was given its visitor.                       *)
(***************************************************************************)
LEMMA FindFacts ==
  ASSUME TypeOK, NEW r \in Request, NEW v \in Request,
         q' = [q EXCEPT ![r] = [@ EXCEPT !.pc = "count", !.visitor = v]]
  PROVE  /\ q' \in [Request -> RequestState]
         /\ q'[r].pc = "count" /\ q'[r].visitor = v
         /\ q'[r].client = q[r].client /\ q'[r].now = q[r].now
         /\ \A x \in Request : x # r => q'[x] = q[x]
<1> DEFINE n == [q[r] EXCEPT !.pc = "count", !.visitor = v]
<1>1. /\ n \in RequestState /\ n.pc = "count" /\ n.visitor = v
      /\ n.client = q[r].client /\ n.now = q[r].now
  BY DEF TypeOK, RequestState, PC
<1>2. q' = [q EXCEPT ![r] = n]
  OBVIOUS
<1> HIDE DEF n
<1> QED BY <1>1, <1>2 DEF TypeOK

(***************************************************************************)
(* The same of a request that was answered.                                *)
(***************************************************************************)
LEMMA AnswerFacts ==
  ASSUME TypeOK, NEW r \in Request, NEW pc \in {"passed", "refused"},
         q' = [q EXCEPT ![r].pc = pc]
  PROVE  /\ q' \in [Request -> RequestState]
         /\ q'[r].pc = pc /\ q'[r].visitor = q[r].visitor
         /\ q'[r].client = q[r].client /\ q'[r].now = q[r].now
         /\ \A x \in Request : x # r => q'[x] = q[x]
<1> DEFINE n == [q[r] EXCEPT !.pc = pc]
<1>1. /\ n \in RequestState /\ n.pc = pc /\ n.visitor = q[r].visitor
      /\ n.client = q[r].client /\ n.now = q[r].now
  BY DEF TypeOK, RequestState, PC
<1>2. q' = [q EXCEPT ![r] = n]
  OBVIOUS
<1> HIDE DEF n
<1> QED BY <1>1, <1>2 DEF TypeOK

(***************************************************************************)
(* A request that reads the clock is on time.                              *)
(***************************************************************************)
LEMMA ArriveInv ==
  ASSUME IsFiniteSet(Request), IInv, NEW r \in Request, NEW c \in Client, Arrive(r, c)
  PROVE  IInv'
<1>1. /\ q' \in [Request -> RequestState] /\ q[r].pc = "idle"
      /\ q'[r].pc = "find" /\ q'[r].client = c /\ q'[r].now = clock
      /\ \A x \in Request : x # r => q'[x] = q[x]
      /\ clock' = clock /\ visitors' = visitors /\ visitor' = visitor
  BY ArriveFacts DEF Arrive, IInv
<1>2. TypeOK'
  BY <1>1 DEF IInv, TypeOK
<1>3. Owned'
  <2>1. \A d \in Client : visitors[d] # Nil => visitors[d] \in Request /\ visitors[d] # r
    BY <1>1 DEF IInv, Owned, TypeOK
  <2> QED BY <1>1, <2>1 DEF IInv, Owned
<1>4. Timely'
  BY <1>1, RateLimiterAssumption DEF IInv, Timely, InFlight, TypeOK
<1> QED BY <1>1, <1>2, <1>3, <1>4, QuietInv

(***************************************************************************)
(* A request finds the visitor of its client, or becomes its maker.        *)
(***************************************************************************)
LEMMA FindInv ==
  ASSUME IsFiniteSet(Request), IInv, NEW r \in Request, Find(r)
  PROVE  IInv'
<1> DEFINE c == q[r].client
           v == IF visitors[c] = Nil THEN r ELSE visitors[c]
<1>1. /\ q[r].pc = "find" /\ clock' = clock /\ visitor' = visitor
      /\ visitors' = [visitors EXCEPT ![c] = v]
      /\ q' = [q EXCEPT ![r] = [@ EXCEPT !.pc = "count", !.visitor = v]]
  BY DEF Find
<1>2. c \in Client /\ v \in Request /\ (visitors[c] # Nil => v = visitors[c])
      /\ (visitors[c] = Nil => v = r) /\ r # Nil
  BY <1>1, RateLimiterAssumption DEF IInv, Owned, TypeOK
<1> HIDE DEF v
<1>3. /\ q' \in [Request -> RequestState]
      /\ q'[r].pc = "count" /\ q'[r].visitor = v /\ q'[r].client = c
      /\ q'[r].now = q[r].now /\ \A x \in Request : x # r => q'[x] = q[x]
  BY <1>1, <1>2, FindFacts DEF IInv
<1>4. /\ visitors' \in [Client -> Request \cup {Nil}] /\ visitors'[c] = v
      /\ \A d \in Client : d # c => visitors'[d] = visitors[d]
  BY <1>1, <1>2 DEF IInv, TypeOK
<1> HIDE DEF c
<1>5. TypeOK'
  BY <1>1, <1>3, <1>4 DEF IInv, TypeOK
<1>6. Owned'
  <2>1. \A d \in Client : visitors[d] # Nil => visitors[d] \in Request /\ visitors[d] # r
    BY <1>1 DEF IInv, Owned, TypeOK
  <2>2. \A x \in Request : q'[x].pc # "idle" => q'[x].client \in Client
    BY <1>2, <1>3 DEF IInv, Owned
  <2>3. ASSUME NEW x \in Request, q'[x].pc \in {"count", "passed", "refused"}
        PROVE  q'[x].visitor \in Request /\ visitors'[q'[x].client] = q'[x].visitor
    <3>1. CASE x = r
      BY <1>2, <1>3, <1>4, <3>1
    <3>2. CASE x # r
      <4>1. /\ q'[x] = q[x] /\ q[x].client \in Client /\ q[x].visitor \in Request
            /\ visitors[q[x].client] = q[x].visitor
        BY <1>3, <2>3, <3>2 DEF IInv, Owned
      <4>2. q[x].client = c => visitors[c] = v
        BY <1>2, <4>1, RateLimiterAssumption
      <4> QED BY <1>4, <4>1, <4>2
    <3> QED BY <3>1, <3>2
  <2>4. ASSUME NEW d \in Client, visitors'[d] # Nil
        PROVE  /\ q'[visitors'[d]].client = d
               /\ q'[visitors'[d]].pc \in {"count", "passed", "refused"}
    <3>1. CASE d = c /\ visitors[c] = Nil
      BY <1>2, <1>3, <1>4, <3>1
    <3>2. CASE ~(d = c /\ visitors[c] = Nil)
      <4>1. visitors'[d] = visitors[d] /\ visitors[d] # Nil
        BY <1>2, <1>4, <2>4, <3>2
      <4> QED BY <1>3, <2>1, <4>1 DEF IInv, Owned
    <3> QED BY <3>1, <3>2
  <2>5. \A x \in Request : q'[x].pc \in {"idle", "find"} => visitor[x] = NewVisitor
    BY <1>3 DEF IInv, Owned
  <2> QED BY <1>1, <2>2, <2>3, <2>4, <2>5 DEF Owned
<1>7. Timely'
  BY <1>1, <1>3 DEF IInv, Timely, InFlight
<1>8. ASSUME NEW d \in Client
      PROVE  \/ visitors'[d] = visitors[d]
             \/ /\ visitors[d] = Nil /\ visitors'[d] \in Request
                /\ visitor[visitors'[d]] = NewVisitor
  BY <1>1, <1>2, <1>4 DEF IInv, Owned
<1> QED BY <1>1, <1>3, <1>5, <1>6, <1>7, <1>8, QuietInv

(***************************************************************************)
(* The clock waits for those who would be slower than Lag.                 *)
(***************************************************************************)
LEMMA TickInv ==
  ASSUME IsFiniteSet(Request), IInv, Tick
  PROVE  IInv'
<1>1. /\ clock' = clock + 1 /\ clock < MaxTime /\ q' = q
      /\ visitors' = visitors /\ visitor' = visitor
      /\ \A r \in InFlight : clock - q[r].now < Lag
  BY DEF Tick
<1>2. TypeOK'
  BY <1>1, RateLimiterAssumption DEF IInv, TypeOK
<1>3. Owned'
  BY <1>1 DEF IInv, Owned
<1>4. Timely'
  <2>1. ASSUME NEW r \in Request PROVE q'[r].now <= clock' /\ visitor'[r].window0 <= clock'
    <3>1. q[r].now \in Int /\ visitor[r].window0 \in Int /\ clock \in Int
      BY RateLimiterAssumption DEF IInv, TypeOK, RequestState, WindowVisitor
    <3> QED BY <1>1, <3>1 DEF IInv, Timely
  <2>2. ASSUME NEW r \in InFlight PROVE clock' - q'[r].now <= Lag
    <3>1. q[r].now \in Int /\ clock \in Int /\ Lag \in Int
      BY RateLimiterAssumption DEF IInv, TypeOK, RequestState, InFlight
    <3>2. clock - q[r].now < Lag
      BY <1>1
    <3> QED BY <1>1, <3>1, <3>2
  <2>3. InFlight' = InFlight
    BY <1>1 DEF InFlight
  <2> QED BY <2>1, <2>2, <2>3 DEF Timely
<1> QED BY <1>1, <1>2, <1>3, <1>4, QuietInv

-----------------------------------------------------------------------------
(* The visitor's critical section *)

(***************************************************************************)
(* What a request that is to be counted knows: its visitor is its          *)
(* client's, its stamp is at most Lag old, and the window is no younger    *)
(* than the clock.                                                         *)
(***************************************************************************)
LEMMA AtCount ==
  ASSUME IInv, NEW r \in Request, q[r].pc = "count"
  PROVE  /\ q[r].client \in Client /\ q[r].visitor \in Request
         /\ visitors[q[r].client] = q[r].visitor /\ q[r].visitor # Nil
         /\ \A d \in Client : d # q[r].client => visitors[d] # q[r].visitor
         /\ q[r].now \in 0..MaxTime /\ q[r].now <= clock /\ clock <= q[r].now + Lag
         /\ clock \in Nat
         /\ visitor[q[r].visitor] \in WindowVisitor
         /\ visitor[q[r].visitor].count \in Nat /\ visitor[q[r].visitor].count <= Max
         /\ visitor[q[r].visitor].window0 \in Int
         /\ visitor[q[r].visitor].window0 >= -Window
         /\ visitor[q[r].visitor].window0 <= clock
<1> USE RateLimiterAssumption
<1> DEFINE v == q[r].visitor
<1>1. /\ q[r].client \in Client /\ v \in Request /\ visitors[q[r].client] = v
  BY DEF IInv, Owned
<1>2. q[v].client = q[r].client /\ v # Nil
  BY <1>1 DEF IInv, Owned
<1>3. \A d \in Client : d # q[r].client => visitors[d] # v
  BY <1>2 DEF IInv, Owned
<1>4. q[r].now \in 0..MaxTime /\ clock \in Nat /\ visitor[v] \in WindowVisitor
  BY <1>1 DEF IInv, TypeOK, RequestState
<1>5. q[r].now <= clock /\ clock <= q[r].now + Lag /\ visitor[v].window0 <= clock
  <2>1. r \in InFlight
    BY DEF InFlight
  <2>2. clock - q[r].now <= Lag
    BY <2>1 DEF IInv, Timely
  <2> QED BY <1>1, <1>4, <2>2 DEF IInv, Timely
<1>6. /\ visitor[v].count \in Nat /\ visitor[v].count <= Max
      /\ visitor[v].window0 \in Int /\ visitor[v].window0 >= -Window
  BY <1>4 DEF WindowVisitor
<1> QED BY <1>1, <1>2, <1>3, <1>4, <1>5, <1>6

(***************************************************************************)
(* A request is refused by a window that is not over and has admitted Max. *)
(***************************************************************************)
LEMMA RefuseInv ==
  ASSUME IsFiniteSet(Request), IInv, NEW r \in Request, q[r].pc = "count",
         visitor[q[r].visitor].count = Max,
         q[r].now - visitor[q[r].visitor].window0 < Window,
         q' = [q EXCEPT ![r].pc = "refused"],
         visitor' = visitor, visitors' = visitors, clock' = clock
  PROVE  IInv'
<1> USE RateLimiterAssumption
<1> DEFINE c == q[r].client
           v == q[r].visitor
           s == visitor[v].window0
           t == q[r].now
<1>1. /\ c \in Client /\ v \in Request /\ visitors[c] = v /\ v # Nil
      /\ t \in 0..MaxTime /\ s \in Int /\ s <= clock /\ clock <= t + Lag /\ clock \in Nat
  BY AtCount
<1>2. /\ q' \in [Request -> RequestState]
      /\ q'[r].pc = "refused" /\ q'[r].visitor = v /\ q'[r].client = c /\ q'[r].now = t
      /\ \A x \in Request : x # r => q'[x] = q[x]
  BY AnswerFacts DEF IInv
<1>3. \A d, a, l : Passed(d, a, l)' = Passed(d, a, l) /\ Since(d, a)' = Since(d, a)
  BY <1>2 DEF Passed, Since
<1>4. TypeOK'
  BY <1>2 DEF IInv, TypeOK
<1>5. Owned'
  BY <1>1, <1>2 DEF IInv, Owned, TypeOK
<1>6. Timely'
  BY <1>2 DEF IInv, Timely, InFlight
<1>7. WindowInv'
  <2>1. ASSUME NEW d \in Client, NEW u, u = visitors[d], u # Nil
        PROVE  CountsPassed(d, u)' /\ \A a \in 0..MaxTime : WindowsHold(d, u, a)'
    <3>1. CountsPassed(d, u) /\ \A a \in 0..MaxTime : WindowsHold(d, u, a)
      BY <2>1 DEF IInv, WindowInv
    <3> QED BY <1>3, <3>1 DEF CountsPassed, WindowsHold
  <2> QED BY <2>1 DEF WindowInv, CountsPassed, WindowsHold, Passed, Since
<1>8. PassesBounded'
  BY <1>3 DEF IInv, PassesBounded
<1>9. RefusalEarned'
  <2>1. ASSUME NEW x \in Request, NEW d, NEW y, q'[x].pc = "refused",
               d = q'[x].client, y = q'[x].now
        PROVE  Cardinality(Passed(d, y - (Window + Lag - 1), 2 * (Window + Lag) - 1)') >= Max
    <3>1. CASE x # r
      <4>1. q[x].pc = "refused" /\ d = q[x].client /\ y = q[x].now
        BY <1>2, <2>1, <3>1
      <4>2. Cardinality(Passed(d, y - (Window + Lag - 1), 2 * (Window + Lag) - 1)) >= Max
        BY <4>1 DEF IInv, RefusalEarned
      <4> QED BY <1>3, <4>2
    <3>2. CASE x = r
      <4>1. d = c /\ y = t
        BY <1>2, <2>1, <3>2
      <4>2. s - Lag <= t /\ t <= s + Window - 1 /\ t \in Int /\ Window \in Int /\ Lag \in Int
        BY <1>1
      <4>3. Max <= Cardinality(Passed(c, s - Lag, Window + Lag))
        BY <1>1 DEF IInv, WindowInv, CountsPassed
      <4> DEFINE S == Passed(c, s - Lag, Window + Lag)
                 T == Passed(c, t - (Window + Lag - 1), 2 * (Window + Lag) - 1)
      <4>4. S \subseteq T
        <5>1. ASSUME NEW z \in (s - Lag)..(s - Lag + (Window + Lag) - 1)
              PROVE  z \in (t - (Window + Lag - 1))
                             ..(t - (Window + Lag - 1) + (2 * (Window + Lag) - 1) - 1)
          <6> HIDE DEF s, t
          <6> QED BY <1>1, <4>2, <5>1
        <5> QED BY <5>1 DEF Passed
      <4>5. T \in SUBSET Request /\ S \in SUBSET Request
        BY SetsOfRequests
      <4>6. Cardinality(S) <= Cardinality(T) /\ Cardinality(S) \in Nat /\ Cardinality(T) \in Nat
        BY <4>4, <4>5, Larger
      <4>7. Max <= Cardinality(T)
        <5> HIDE DEF S, T
        <5> QED BY <4>3, <4>6 DEF S
      <4> QED BY <1>3, <4>1, <4>7
    <3> QED BY <3>1, <3>2
  <2> QED BY <2>1 DEF RefusalEarned, Passed
<1> QED BY <1>4, <1>5, <1>6, <1>7, <1>8, <1>9 DEF IInv

(***************************************************************************)
(* One window more, in ticks and in requests.                              *)
(***************************************************************************)
LEMMA OneWindowMore ==
  ASSUME NEW k \in Nat, NEW m \in Nat
  PROVE  (k + 1) * m = k * m + m /\ k * m \in Nat /\ 0 * m = 0
OBVIOUS

(***************************************************************************)
(* Windows that begin within 2 * Window + Lag - 2 ticks of each other are  *)
(* no more than WindowsMet.                                                *)
(***************************************************************************)
LEMMA WindowsFit ==
  ASSUME NEW k \in Nat, k * Window <= 2 * Window + Lag - 2
  PROVE  WindowsMet \in Nat /\ k * Max + Max <= WindowsMet * Max
<1> USE RateLimiterAssumption
<1> DEFINE x == 2 * Window + Lag - 2
           d == x \div Window
<1>1. x \in Nat
  OBVIOUS
<1>2. d \in Nat /\ x < (d + 1) * Window
  <2> HIDE DEF x
  <2>1. d \in Int /\ x = Window * d + (x % Window) /\ x % Window \in 0..(Window - 1)
    BY <1>1
  <2> QED BY <1>1, <2>1
<1>3. k <= d
  <2> SUFFICES ASSUME k >= d + 1 PROVE FALSE
    BY <1>2
  <2>1. k * Window >= (d + 1) * Window
    BY <1>2
  <2>2. k * Window \in Nat /\ (d + 1) * Window \in Nat
    BY <1>2
  <2> HIDE DEF d
  <2> QED BY <1>1, <1>2, <2>1, <2>2
<1>4. WindowsMet = d + 1
  BY DEF WindowsMet
<1> HIDE DEF d
<1>5. (k + 1) * Max <= (d + 1) * Max
  BY <1>2, <1>3
<1> QED BY <1>2, <1>4, <1>5, OneWindowMore

\* r, of client c with visitor v and stamp t, takes v from count n0 and window s0
\* to count n and window s.
Passes(r, c, v, t, n0, s0, n, s) ==
  /\ c = q[r].client /\ v = q[r].visitor /\ t = q[r].now
  /\ n0 = visitor[v].count /\ s0 = visitor[v].window0
  /\ \/ n = n0 + 1 /\ n <= Max /\ s = s0 /\ t - s < Window
     \/ n = 1 /\ s = t /\ t - s0 >= Window
  /\ q' = [q EXCEPT ![r].pc = "passed"]
  /\ visitor' = [visitor EXCEPT ![v] = [count |-> n, window0 |-> s]]

(***************************************************************************)
(* A request that passes is counted in the window that is open, or opens   *)
(* the next one, which begins a window's length after it at the earliest.  *)
(***************************************************************************)
LEMMA PassInv ==
  ASSUME IsFiniteSet(Request), IInv, NEW r \in Request, q[r].pc = "count",
         visitors' = visitors, clock' = clock,
         NEW c, NEW v, NEW t, NEW n0, NEW s0, NEW n, NEW s,
         Passes(r, c, v, t, n0, s0, n, s)
  PROVE  IInv'
<1> USE RateLimiterAssumption
<1>0. /\ c = q[r].client /\ v = q[r].visitor /\ t = q[r].now
      /\ n0 = visitor[v].count /\ s0 = visitor[v].window0
      /\ \/ n = n0 + 1 /\ n <= Max /\ s = s0 /\ t - s < Window
         \/ n = 1 /\ s = t /\ t - s0 >= Window
      /\ q' = [q EXCEPT ![r].pc = "passed"]
      /\ visitor' = [visitor EXCEPT ![v] = [count |-> n, window0 |-> s]]
  BY DEF Passes
<1>1. /\ c \in Client /\ v \in Request /\ visitors[c] = v /\ v # Nil
      /\ \A d \in Client : d # c => visitors[d] # v
      /\ t \in 0..MaxTime /\ t <= clock /\ clock <= t + Lag /\ clock \in Nat
      /\ n0 \in Nat /\ n0 <= Max /\ s0 \in Int /\ s0 >= -Window /\ s0 <= clock
      /\ visitor[v] \in WindowVisitor
  BY <1>0, AtCount
<1>2. /\ q' \in [Request -> RequestState]
      /\ q'[r].pc = "passed" /\ q'[r].visitor = v /\ q'[r].client = c /\ q'[r].now = t
      /\ \A x \in Request : x # r => q'[x] = q[x]
  BY <1>0, AnswerFacts DEF IInv
<1>3. /\ n \in 1..Max /\ s \in {-Window} \cup 0..MaxTime /\ s \in Int /\ s <= clock
      /\ s - Lag <= t /\ t <= s + Window - 1
  <2>1. s0 \in {-Window} \cup 0..MaxTime
    BY <1>0, <1>1 DEF WindowVisitor
  <2> QED BY <1>0, <1>1, <2>1
<1>4. /\ visitor'[v].count = n /\ visitor'[v].window0 = s
      /\ visitor' \in [Request -> WindowVisitor]
      /\ \A u \in Request : u # v => visitor'[u] = visitor[u]
  <2>1. [count |-> n, window0 |-> s] \in WindowVisitor
    BY <1>3 DEF WindowVisitor
  <2> QED BY <1>0, <1>1, <2>1 DEF IInv, TypeOK
<1>5. ASSUME NEW d, NEW a \in Int
      PROVE  /\ Since(d, a)' \subseteq Since(d, a) \cup {r}
             /\ d # c \/ t < a => Since(d, a)' = Since(d, a)
             /\ Since(d, a) \subseteq Since(d, a)'
             /\ Since(d, a)' \in SUBSET Request
  <2>1. Since(d, a)' = {x \in Request : /\ q'[x].pc = "passed" /\ q'[x].client = d
                                         /\ q'[x].now >= a}
    BY DEF Since
  <2>2. t < a => ~(t >= a)
    BY <1>1, <1>5
  <2>3. r \notin Since(d, a)
    BY DEF Since
  <2>4. \A x \in Request : x # r => (x \in Since(d, a)' <=> x \in Since(d, a))
    BY <1>2, <2>1 DEF Since
  <2>5. d # c \/ t < a => r \notin Since(d, a)'
    BY <1>2, <2>1, <2>2
  <2>6. Since(d, a) \in SUBSET Request /\ Since(d, a)' \in SUBSET Request
    BY <2>1, SetsOfRequests
  <2> QED BY <2>3, <2>4, <2>5, <2>6
<1>6. \A d, a, l : /\ Passed(d, a, l)' \subseteq Passed(d, a, l) \cup {r}
                   /\ d # c \/ t \notin a..(a + l - 1) => Passed(d, a, l)' = Passed(d, a, l)
                   /\ Passed(d, a, l) \subseteq Passed(d, a, l)'
                   /\ Passed(d, a, l)' \in SUBSET Request
                   /\ d = c /\ t \in a..(a + l - 1) =>
                        r \in Passed(d, a, l)' /\ r \notin Passed(d, a, l)
  BY <1>0, <1>2 DEF Passed
<1>7. TypeOK'
  BY <1>2, <1>4 DEF IInv, TypeOK
<1>8. Owned'
  <2>1. q[v].pc \in {"count", "passed", "refused"}
    BY <1>0, <1>1 DEF IInv, Owned
  <2> QED BY <1>0, <1>1, <1>2, <1>4, <2>1 DEF IInv, Owned, TypeOK
<1>9. Timely'
  <2>1. \A x \in Request : visitor'[x].window0 <= clock
    BY <1>3, <1>4 DEF IInv, Timely
  <2>2. \A x \in Request : q'[x].now = q[x].now
    BY <1>0, <1>2
  <2>3. \A x \in InFlight' : x \in InFlight
    BY <1>2 DEF InFlight
  <2>4. InFlight \subseteq Request
    BY DEF InFlight
  <2>5. ASSUME NEW x \in InFlight' PROVE clock' - q'[x].now <= Lag
    BY <2>2, <2>3, <2>4 DEF IInv, Timely
  <2>6. \A x \in Request : q'[x].now <= clock'
    BY <2>2 DEF IInv, Timely
  <2> QED BY <2>1, <2>5, <2>6 DEF Timely
<1>10. CountsPassed(c, v)'
  <2> DEFINE S == Passed(c, s - Lag, Window + Lag)
             T == Passed(c, s - Lag, Window + Lag)'
  <2>1. t \in (s - Lag)..(s - Lag + (Window + Lag) - 1)
    BY <1>0, <1>1, <1>3
  <2>2. r \in T /\ r \notin S /\ S \subseteq T /\ T \in SUBSET Request /\ S \in SUBSET Request
    BY <1>6, <2>1, SetsOfRequests
  <2> HIDE DEF S, T
  <2>3. S \cup {r} \in SUBSET T
    BY <2>2
  <2>4. /\ Cardinality(S) + 1 <= Cardinality(T) /\ Cardinality(S) \in Nat
        /\ Cardinality(T) \in Nat
    <3>1. Cardinality(S \cup {r}) = Cardinality(S) + 1
      BY <2>2, OneMore
    <3>2. Cardinality(S \cup {r}) <= Cardinality(T) /\ Cardinality(T) \in Nat
      BY <2>2, <2>3, Larger
    <3>3. Cardinality(S) \in Nat
      BY <2>2, Larger
    <3> QED BY <3>1, <3>2, <3>3
  <2>5. n <= Cardinality(T)
    <3>1. CASE n = n0 + 1 /\ s = s0
      <4>1. n0 <= Cardinality(S)
        BY <1>0, <1>1, <3>1 DEF S, IInv, WindowInv, CountsPassed
      <4> QED BY <1>0, <1>1, <2>4, <3>1, <4>1
    <3>2. CASE n = 1
      BY <2>4, <3>2
    <3> QED BY <1>0, <3>1, <3>2
  <2> QED BY <1>4, <2>5 DEF T, CountsPassed, Passed
<1>11. ASSUME NEW a \in 0..MaxTime PROVE WindowsHold(c, v, a)'
  <2> DEFINE S == Cardinality(Since(c, a))
             T == Cardinality(Since(c, a)')
  <2>1. S \in Nat /\ T \in Nat /\ T <= S + 1 /\ (t < a => T = S)
    <3>1. Since(c, a) \in SUBSET Request /\ Since(c, a)' \in SUBSET Request
      BY <1>5, SetsOfRequests
    <3>2. /\ Cardinality(Since(c, a) \cup {r}) <= S + 1
          /\ Since(c, a) \cup {r} \in SUBSET Request
      BY <3>1, OneMore
    <3>3. T <= Cardinality(Since(c, a) \cup {r}) /\ T \in Nat
          /\ Cardinality(Since(c, a) \cup {r}) \in Nat
      BY <1>5, <3>2, Larger
    <3>4. S \in Nat
      BY <3>1, Larger
    <3>5. t < a => T = S
      BY <1>5
    <3> HIDE DEF S, T
    <3> QED BY <3>2, <3>3, <3>4, <3>5
  <2>2. SUFFICES ASSUME Since(c, a)' # {}
                 PROVE  \E k \in Nat : k * Window <= s - a + Window - 1 /\ T <= k * Max + n
    BY <1>4 DEF WindowsHold, Since
  <2>3. CASE Since(c, a) = {}
    <3>1. t >= a
      BY <1>0, <1>1, <1>5, <2>2, <2>3
    <3>2. S = 0
      BY <2>3, FS_EmptySet
    <3>3. 0 * Window = 0 /\ 0 * Max = 0
      BY OneWindowMore
    <3>4. 0 * Window <= s - a + Window - 1 /\ T <= 0 * Max + n
      <4> HIDE DEF S, T
      <4> QED BY <1>0, <1>1, <1>3, <2>1, <3>1, <3>2, <3>3
    <3> QED BY <3>4
  <2>4. CASE Since(c, a) # {}
    <3>1. PICK k \in Nat : k * Window <= s0 - a + Window - 1 /\ S <= k * Max + n0
      BY <1>0, <1>1, <2>4 DEF IInv, WindowInv, WindowsHold
    <3>2. /\ (k + 1) * Window = k * Window + Window /\ k * Window \in Nat
          /\ (k + 1) * Max = k * Max + Max /\ k * Max \in Nat
      BY OneWindowMore
    <3>3. CASE n = n0 + 1 /\ s = s0
      <4>1. k * Window <= s - a + Window - 1 /\ T <= k * Max + n
        <5> HIDE DEF S, T
        <5> QED BY <1>0, <1>1, <2>1, <3>1, <3>2, <3>3
      <4> QED BY <4>1
    <3>4. CASE n = 1 /\ s - s0 >= Window
      <4>1. (k + 1) * Window <= s - a + Window - 1 /\ T <= (k + 1) * Max + n
        <5> HIDE DEF S, T
        <5> QED BY <1>0, <1>1, <1>3, <2>1, <3>1, <3>2, <3>4
      <4>2. k + 1 \in Nat
        OBVIOUS
      <4> HIDE DEF S, T
      <4> QED BY <4>1, <4>2
    <3> QED BY <1>0, <3>3, <3>4
  <2> QED BY <2>3, <2>4
<1>12. WindowInv'
  <2>1. ASSUME NEW d \in Client, NEW u, u = visitors[d], u # Nil
        PROVE  CountsPassed(d, u)' /\ \A a \in 0..MaxTime : WindowsHold(d, u, a)'
    <3>1. CASE d = c
      BY <1>0, <1>1, <1>10, <1>11, <2>1, <3>1
    <3>2. CASE d # c
      <4>1. CountsPassed(d, u) /\ \A a \in 0..MaxTime : WindowsHold(d, u, a)
        BY <2>1 DEF IInv, WindowInv
      <4>2. u \in Request /\ visitor'[u] = visitor[u]
        BY <1>0, <1>1, <1>4, <2>1, <3>2 DEF IInv, TypeOK
      <4>3. /\ \A a, l : Passed(d, a, l)' = Passed(d, a, l)
            /\ \A a \in Int : Since(d, a)' = Since(d, a)
        BY <1>5, <1>6, <3>2
      <4>4. CountsPassed(d, u)'
        BY <4>1, <4>2, <4>3 DEF CountsPassed
      <4>5. ASSUME NEW a \in 0..MaxTime PROVE WindowsHold(d, u, a)'
        <5>1. a \in Int
          OBVIOUS
        <5> QED BY <4>1, <4>2, <4>3, <5>1 DEF WindowsHold
      <4> QED BY <4>4, <4>5
    <3> QED BY <3>1, <3>2
  <2> QED BY <1>0, <2>1 DEF WindowInv, CountsPassed, WindowsHold, Passed, Since
<1>13. PassesBounded'
  <2> SUFFICES ASSUME NEW d \in Client, NEW a \in 0..MaxTime
               PROVE  Cardinality(Passed(d, a, Window)') <= WindowsMet * Max
    BY DEF PassesBounded
  <2>1. CASE d # c \/ t \notin a..(a + Window - 1)
    <3>1. Passed(d, a, Window)' = Passed(d, a, Window)
      BY <1>6, <2>1
    <3> QED BY <3>1 DEF IInv, PassesBounded
  <2>2. CASE d = c /\ t \in a..(a + Window - 1)
    <3> DEFINE T == Cardinality(Since(c, a)')
    <3>1. r \in Since(c, a)'
      BY <1>2, <2>2 DEF Since
    <3>2. PICK k \in Nat : k * Window <= s - a + Window - 1 /\ T <= k * Max + n
      BY <1>4, <1>11, <3>1 DEF WindowsHold
    <3>3. k * Window <= 2 * Window + Lag - 2
      <4>1. k * Window \in Nat
        BY OneWindowMore
      <4> HIDE DEF T
      <4> QED BY <1>0, <1>1, <1>3, <2>2, <3>2, <4>1
    <3>4. k * Max + Max <= WindowsMet * Max
      BY <3>3, WindowsFit
    <3>5. Cardinality(Passed(c, a, Window)') <= T /\ T \in Nat
          /\ Cardinality(Passed(c, a, Window)') \in Nat
      <4>1. Passed(c, a, Window)' \in SUBSET Since(c, a)'
        BY <1>2 DEF Passed, Since, TypeOK, RequestState
      <4>2. Since(c, a)' \in SUBSET Request
        BY <1>5
      <4> QED BY <4>1, <4>2, Larger
    <3>6. k * Max \in Nat /\ WindowsMet \in Nat
      BY <3>3, OneWindowMore, WindowsFit
    <3>7. WindowsMet * Max \in Nat
      BY <3>6
    <3> HIDE DEF T
    <3>8. Cardinality(Passed(c, a, Window)') <= WindowsMet * Max
      BY <1>3, <3>2, <3>4, <3>5, <3>6, <3>7
    <3> QED BY <2>2, <3>8
  <2> QED BY <2>1, <2>2
<1>14. RefusalEarned'
  <2>1. ASSUME NEW x \in Request, NEW d, NEW y, q'[x].pc = "refused",
               d = q'[x].client, y = q'[x].now
        PROVE  Cardinality(Passed(d, y - (Window + Lag - 1), 2 * (Window + Lag) - 1)') >= Max
    <3> DEFINE S == Passed(d, y - (Window + Lag - 1), 2 * (Window + Lag) - 1)
               T == Passed(d, y - (Window + Lag - 1), 2 * (Window + Lag) - 1)'
    <3>1. q[x].pc = "refused" /\ d = q[x].client /\ y = q[x].now
      BY <1>2, <2>1
    <3>2. Cardinality(S) >= Max
      BY <3>1 DEF IInv, RefusalEarned
    <3>3. S \in SUBSET T /\ T \in SUBSET Request
      BY <1>6
    <3>4. /\ Cardinality(S) <= Cardinality(T)
          /\ Cardinality(S) \in Nat /\ Cardinality(T) \in Nat
      BY <3>3, Larger
    <3> HIDE DEF S, T
    <3>5. Cardinality(T) >= Max
      BY <3>2, <3>4
    <3> QED BY <3>5 DEF T
  <2> QED BY <2>1 DEF RefusalEarned, Passed
<1> QED BY <1>7, <1>8, <1>9, <1>12, <1>13, <1>14 DEF IInv

(***************************************************************************)
(* A request is counted, or refused, under the lock of its visitor.        *)
(***************************************************************************)
LEMMA CountInv ==
  ASSUME IsFiniteSet(Request), IInv, NEW r \in Request, Count(r)
  PROVE  IInv'
<1> USE RateLimiterAssumption
<1> DEFINE v   == q[r].visitor
           w   == visitor[v]
           cur == Current(w, q[r].now)
<1>1. /\ q[r].pc = "count" /\ clock' = clock /\ visitors' = visitors
      /\ visitor' = [visitor EXCEPT ![v] =
                       IF Full(cur) THEN cur ELSE [cur EXCEPT !.count = @ + 1]]
      /\ q' = [q EXCEPT ![r].pc = IF Full(cur) THEN "refused" ELSE "passed"]
  BY DEF Count
<1>2. /\ v \in Request /\ w \in WindowVisitor /\ q[r].now \in Int
      /\ w.count \in Nat /\ w.count <= Max /\ w.window0 \in Int
  BY <1>1, AtCount
<1>3. CASE q[r].now - w.window0 >= Window
  <2>1. cur = [count |-> 0, window0 |-> q[r].now]
    BY <1>3 DEF Current
  <2>2. ~Full(cur)
    BY <2>1 DEF Full
  <2>3. [cur EXCEPT !.count = @ + 1] = [count |-> 1, window0 |-> q[r].now]
    BY <2>1
  <2> HIDE DEF cur
  <2>4. /\ visitor' = [visitor EXCEPT ![v] = [count |-> 1, window0 |-> q[r].now]]
        /\ q' = [q EXCEPT ![r].pc = "passed"]
    BY <1>1, <2>2, <2>3
  <2>5. Passes(r, q[r].client, v, q[r].now, w.count, w.window0, 1, q[r].now)
    BY <1>1, <1>3, <2>4 DEF Passes
  <2> QED BY <1>1, <2>5, PassInv
<1>4. CASE ~(q[r].now - w.window0 >= Window)
  <2>1. cur = w
    BY <1>4 DEF Current
  <2>2. q[r].now - w.window0 < Window
    BY <1>2, <1>4
  <2>3. CASE Full(w)
    <3>1. w.count = Max
      BY <1>2, <2>3 DEF Full
    <3>2. visitor' = visitor /\ q' = [q EXCEPT ![r].pc = "refused"]
      BY <1>1, <1>2, <2>1, <2>3 DEF IInv, TypeOK
    <3> QED BY <1>1, <2>2, <3>1, <3>2, RefuseInv
  <2>4. CASE ~Full(w)
    <3>1. w.count + 1 <= Max
      BY <1>2, <2>4 DEF Full
    <3>2. [w EXCEPT !.count = @ + 1] = [count |-> w.count + 1, window0 |-> w.window0]
      BY <1>2 DEF WindowVisitor
    <3>3. /\ visitor' = [visitor EXCEPT ![v] =
                           [count |-> w.count + 1, window0 |-> w.window0]]
          /\ q' = [q EXCEPT ![r].pc = "passed"]
      BY <1>1, <2>1, <2>4, <3>2
    <3>4. Passes(r, q[r].client, v, q[r].now, w.count, w.window0,
                 w.count + 1, w.window0)
      BY <1>1, <2>2, <3>1, <3>3 DEF Passes
    <3> QED BY <1>1, <3>4, PassInv
  <2> QED BY <2>3, <2>4
<1> QED BY <1>3, <1>4

-----------------------------------------------------------------------------
(***************************************************************************)
(* Every critical section, and the clock, keeps the invariant.             *)
(***************************************************************************)
LEMMA StepInv ==
  ASSUME IsFiniteSet(Request)
  PROVE  IInv /\ [Next]_vars => IInv'
<1> SUFFICES ASSUME IInv, [Next]_vars PROVE IInv'
  OBVIOUS
<1>1. ASSUME NEW r \in Request, NEW c \in Client, Arrive(r, c) PROVE IInv'
  BY <1>1, ArriveInv
<1>2. ASSUME NEW r \in Request, Find(r) PROVE IInv'
  BY <1>2, FindInv
<1>3. ASSUME NEW r \in Request, Count(r) PROVE IInv'
  BY <1>3, CountInv
<1>4. CASE Tick
  BY <1>4, TickInv
<1>5. CASE UNCHANGED vars
  <2>1. TypeOK' /\ Owned' /\ Timely'
    BY <1>5 DEF vars, IInv, TypeOK, Owned, Timely, InFlight
  <2> QED BY <1>5, <2>1, QuietInv DEF vars
<1> QED BY <1>1, <1>2, <1>3, <1>4, <1>5 DEF Next

(***************************************************************************)
(* The limiter's values have their types in every reachable state.         *)
(***************************************************************************)
THEOREM TypeCorrect ==
  ASSUME IsFiniteSet(Request)
  PROVE  Spec => []TypeOK
<1>1. IInv => TypeOK
  BY DEF IInv
<1> QED BY <1>1, InitInv, StepInv, PTL DEF Spec

(***************************************************************************)
(* Within the length of one window a client passes no more often than the  *)
(* windows that its requests can fall in admit, however requests race for  *)
(* the two locks and however late they are within Lag.                     *)
(***************************************************************************)
THEOREM AlwaysPassesBounded ==
  ASSUME IsFiniteSet(Request)
  PROVE  Spec => []PassesBounded
<1>1. IInv => PassesBounded
  BY DEF IInv
<1> QED BY <1>1, InitInv, StepInv, PTL DEF Spec

(***************************************************************************)
(* Nobody is refused but for Max passed requests of the same client that   *)
(* are less than a window and the lag away.                                *)
(***************************************************************************)
THEOREM AlwaysRefusalEarned ==
  ASSUME IsFiniteSet(Request)
  PROVE  Spec => []RefusalEarned
<1>1. IInv => RefusalEarned
  BY DEF IInv
<1> QED BY <1>1, InitInv, StepInv, PTL DEF Spec
=============================================================================

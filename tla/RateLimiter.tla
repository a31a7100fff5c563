---------------------------- MODULE RateLimiter ----------------------------
(***************************************************************************)
(* The request limiter (slidingLimiter in internal/httpapi, file           *)
(* middleware_ops.go) of one instance of the API: a map of visitors under  *)
(* one lock, each visitor with a lock of its own.  A request reads the     *)
(* clock first, then finds or makes its client's visitor, then is counted  *)
(* by it; one action is one critical section.                              *)
(*                                                                         *)
(* Requests that the middleware lets through uncounted (OPTIONS, health)   *)
(* and the limiter that is switched off (max or window not positive) are   *)
(* left out.  A Request arrives once.                                      *)
(***************************************************************************)
EXTENDS Integers, FiniteSets

CONSTANTS
  Request,
  Client,   \* addresses that requests come from
  Max,      \* requests that a window admits
  Window,   \* length of a window, in ticks of the clock
  Lag,      \* bound: ticks that a request spends between clock and answer
  MaxTime,  \* bound on the clock
  Nil

ASSUME RateLimiterAssumption ==
  /\ Max \in Nat \ {0}
  /\ Window \in Nat \ {0}
  /\ Lag \in Nat
  /\ MaxTime \in Nat
  /\ Nil \notin Request \cup Client

VARIABLES
  clock,
  visitors,  \* client -> its visitor, or Nil; visitors are never removed
  visitor,   \* the visitors, each named by the request that made it
  q          \* the requests

vars == <<clock, visitors, visitor, q>>

\* The critical section a request enters next, or its answer.
PC == {"idle", "find", "count", "passed", "refused"}

RequestState ==
  [pc      : PC,
   client  : Client \cup {Nil},
   now     : 0..MaxTime,
   visitor : Request \cup {Nil}]

\* A zero time is longer ago than any window.
WindowVisitor == [count : 0..Max, window0 : {-Window} \cup 0..MaxTime]

NewVisitor == [count |-> 0, window0 |-> -Window]

\* newSlidingLimiter
Init ==
  /\ clock = 0
  /\ visitors = [c \in Client |-> Nil]
  /\ visitor = [r \in Request |-> NewVisitor]
  /\ q = [r \in Request |-> [pc |-> "idle", client |-> Nil, now |-> 0, visitor |-> Nil]]

----------------------------------------------------------------------------

InFlight == {r \in Request : q[r].pc \in {"find", "count"}}

\* rateLimitMiddleware: the client's address and the clock.
Arrive(r, c) ==
  /\ q[r].pc = "idle"
  /\ q' = [q EXCEPT ![r] = [@ EXCEPT !.pc = "find", !.client = c, !.now = clock]]
  /\ UNCHANGED <<clock, visitors, visitor>>

\* The map's critical section: find the visitor or make one.
Find(r) ==
  LET c == q[r].client
      v == IF visitors[c] = Nil THEN r ELSE visitors[c]
  IN /\ q[r].pc = "find"
     /\ visitors' = [visitors EXCEPT ![c] = v]
     /\ q' = [q EXCEPT ![r] = [@ EXCEPT !.pc = "count", !.visitor = v]]
     /\ UNCHANGED <<clock, visitor>>

\* The count is reset and the window is not moved.
CurrentUnmoved(v, now) ==
  IF now - v.window0 >= Window THEN [v EXCEPT !.count = 0] ELSE v

\* The window is moved and the count kept.
CurrentUnreset(v, now) ==
  IF now - v.window0 >= Window THEN [v EXCEPT !.window0 = now] ELSE v

\* A window that is over: a new one begins with this request.
Current(v, now) ==
  IF now - v.window0 >= Window THEN [count |-> 0, window0 |-> now] ELSE v

\* One request too many.
FullLate(v) == v.count > Max

Full(v) == v.count >= Max

\* The visitor's critical section.
Count(r) ==
  LET v   == q[r].visitor
      cur == Current(visitor[v], q[r].now)
  IN /\ q[r].pc = "count"
     /\ visitor' = [visitor EXCEPT ![v] =
                      IF Full(cur) THEN cur ELSE [cur EXCEPT !.count = @ + 1]]
     /\ q' = [q EXCEPT ![r].pc = IF Full(cur) THEN "refused" ELSE "passed"]
     /\ UNCHANGED <<clock, visitors>>

\* Locks are held for a few instructions: no request waits more than Lag.
Tick ==
  /\ clock < MaxTime
  /\ \A r \in InFlight : clock - q[r].now < Lag
  /\ clock' = clock + 1
  /\ UNCHANGED <<visitors, visitor, q>>

Next ==
  \/ \E r \in Request : (\E c \in Client : Arrive(r, c)) \/ Find(r) \/ Count(r)
  \/ Tick

Spec == Init /\ [][Next]_vars

----------------------------------------------------------------------------
(* Properties.                                                             *)

\* Values have their types.
TypeOK ==
  /\ clock \in 0..MaxTime
  /\ visitors \in [Client -> Request \cup {Nil}]
  /\ visitor \in [Request -> WindowVisitor]
  /\ q \in [Request -> RequestState]

\* The requests of a client that passed, having arrived from first on, within
\* the length of one window.
Passed(c, first, length) ==
  {r \in Request : /\ q[r].pc = "passed" /\ q[r].client = c
                   /\ q[r].now \in first..(first + length - 1)}

\* The windows of a visitor that can count a request of one window length:
\* two, since a window begins at any time, and more for late ones.
WindowsMet == (2 * Window + Lag - 2) \div Window + 1

\* However requests interleave, those of one client that pass within the
\* length of a window are no more than the windows they can fall in admit:
\* no two visitors count for one client and no request goes uncounted.
PassesBounded ==
  \A c \in Client, t \in 0..MaxTime :
    Cardinality(Passed(c, t, Window)) <= WindowsMet * Max

\* A request is refused only when Max others of its own client passed less
\* than a window (and the lag) before or after it: neither another client's
\* requests nor an old count use up its window.
RefusalEarned ==
  \A r \in Request :
    q[r].pc = "refused" =>
      Cardinality(Passed(q[r].client, q[r].now - (Window + Lag - 1),
                         2 * (Window + Lag) - 1)) >= Max

\* CURSOR.md: the limit is one of a sliding window.  It does not hold: a window
\* begins with a request and the next one when it is over.
SlidingWindow ==
  \A c \in Client, t \in 0..MaxTime : Cardinality(Passed(c, t, Window)) <= Max

=============================================================================

------------------------- MODULE NotificationsProofs -------------------------
(***************************************************************************)
(* Theorems about Notifications, with any number of racing dispatchers and *)
(* every fault: its types, that nothing is marked as sent that was not,    *)
(* and which are the only ways to a second message or a lost outcome.      *)
(***************************************************************************)
EXTENDS Notifications, TLAPS

Busy == {"send", "sent", "failed"}

\* The index shows only rows that exist.
IndexInv == \A n \in Notif : gsi4[n] # Nil => rows[n] # Nil

\* A dispatcher works on rows that exist, and saves sent only what was sent.
RunInv ==
  \A w \in Dispatcher :
    /\ \A n \in d[w].todo : rows[n] # Nil
    /\ d[w].pc \in Busy =>
         /\ d[w].item \in Notif /\ d[w].copy \in Notification
         /\ rows[d[w].item] # Nil
    /\ d[w].pc = "sent" => copies[d[w].item] > 0

\* SentWasDelivered is not inductive: the save needs to know that the message
\* went out, and the types of copies need that candidates exist.
IInv == TypeOK /\ IndexInv /\ RunInv /\ SentWasDelivered

-----------------------------------------------------------------------------
LEMMA FirstIsCandidate ==
  ASSUME NEW t, NEW n \in First(t) PROVE n \in t
BY DEF First

\* What Continue leaves in the state, however much is left to do.
LEMMA ContinueFacts ==
  ASSUME TypeOK, NEW w \in Dispatcher, NEW t \in SUBSET Notif, Continue(w, t)
  PROVE  /\ d' \in [Dispatcher -> Run]
         /\ \A v \in Dispatcher : v # w => d'[v] = d[v]
         /\ d'[w].todo = t
         /\ d'[w].pc \in {"idle", "get"}
<1> DEFINE next == IF t = {} THEN IdleRun
                             ELSE [IdleRun EXCEPT !.pc = "get", !.todo = t]
<1>1. next \in Run /\ next.todo = t /\ next.pc \in {"idle", "get"}
  BY DEF Run, IdleRun, PC
<1>2. d' = [d EXCEPT ![w] = next]
  BY DEF Continue
<1> HIDE DEF next
<1> QED BY <1>1, <1>2 DEF TypeOK

\* What PutRow does to the table and the index.
LEMMA PutRowFacts ==
  ASSUME TypeOK, IndexInv, NEW n \in Notif, NEW c \in Notification, PutRow(n, c)
  PROVE  /\ rows' \in [Notif -> Notification \cup {Nil}]
         /\ gsi4' \in [Notif -> Notification \cup {Nil}]
         /\ rows'[n] = c
         /\ \A i \in Notif : i # n => rows'[i] = rows[i]
         /\ \A i \in Notif : rows[i] # Nil => rows'[i] # Nil
         /\ IndexInv'
<1>1. rows' = [rows EXCEPT ![n] = c] /\ rows' \in [Notif -> Notification \cup {Nil}]
  BY DEF PutRow, TypeOK
<1>2. c # Nil
  BY NotificationNilAssumption
<1>3. \A i \in Notif : rows[i] # Nil => rows'[i] # Nil
  BY <1>1, <1>2 DEF TypeOK
<1>4. IndexInv'
  BY <1>1, <1>3 DEF PutRow, IndexInv
<1>5. gsi4' \in [Notif -> Notification \cup {Nil}]
  BY <1>1 DEF PutRow, TypeOK
<1> QED BY <1>1, <1>3, <1>4, <1>5 DEF TypeOK

LEMMA DeliverFacts ==
  ASSUME TypeOK, NEW n \in Notif, Deliver(n)
  PROVE  /\ copies' \in [Notif -> 0 .. 2]
         /\ copies'[n] > 0
         /\ copies[n] = 0 => copies'[n] = 1
         /\ \A i \in Notif : copies[i] > 0 => copies'[i] > 0
         /\ \A i \in Notif : i # n => copies'[i] = copies[i]
BY DEF Deliver, TypeOK

\* The histories only grow.
LEMMA TakeUpFacts ==
  ASSUME TypeOK, NEW w \in Dispatcher, NEW n \in Notif, TakeUp(w, n)
  PROVE  /\ contested \subseteq contested' /\ contested' \subseteq Notif
         /\ unsaved' = unsaved
         /\ (\E v \in Dispatcher \ {w} : IsAt(v, n)) => n \in contested'
BY DEF TakeUp, TypeOK

LEMMA GiveUpFacts ==
  ASSUME IInv, NEW w \in Dispatcher, GiveUp(w)
  PROVE  /\ contested' = contested
         /\ unsaved \subseteq unsaved' /\ unsaved' \subseteq Notif
         /\ d[w].pc \in {"sent", "failed"} /\ copies[d[w].item] > 0
              => d[w].item \in unsaved'
BY DEF GiveUp, IInv, TypeOK, RunInv, Busy

\* A dispatcher that gives up or goes on, with the table as it is.
LEMMA ContinueInv ==
  ASSUME IInv, NEW w \in Dispatcher, NEW t \in SUBSET Notif,
         \A n \in t : rows[n] # Nil, Continue(w, t),
         UNCHANGED <<rows, gsi4, clock, copies>>,
         contested' \subseteq Notif, unsaved' \subseteq Notif
  PROVE  IInv'
<1>1. TypeOK' /\ IndexInv' /\ SentWasDelivered'
  BY ContinueFacts DEF IInv, TypeOK, IndexInv, SentWasDelivered
<1>2. RunInv'
  BY ContinueFacts DEF IInv, RunInv, Busy
<1> QED BY <1>1, <1>2 DEF IInv

\* A dispatcher that saves outcome s for its item and goes on with t.
LEMMA SaveInv ==
  ASSUME IInv, NEW w \in Dispatcher, d[w].pc \in {"sent", "failed"},
         NEW t \in SUBSET d[w].todo, Continue(w, t),
         PutRow(d[w].item, [d[w].copy EXCEPT !.status = d[w].pc]),
         UNCHANGED <<clock, copies, ghosts>>
  PROVE  IInv'
<1> DEFINE n == d[w].item
           c == [d[w].copy EXCEPT !.status = d[w].pc]
<1>1. n \in Notif /\ c \in Notification /\ c.status = d[w].pc
  BY DEF IInv, RunInv, Busy, Notification, Status
<1>2. t \in SUBSET Notif
  BY DEF IInv, TypeOK, Run
<1>3. PutRow(n, c)
  OBVIOUS
<1> HIDE DEF n, c
<1>4. TypeOK' /\ IndexInv'
  BY <1>1, <1>2, <1>3, PutRowFacts, ContinueFacts DEF IInv, TypeOK, ghosts
<1>5. RunInv'
  BY <1>1, <1>2, <1>3, PutRowFacts, ContinueFacts DEF IInv, TypeOK, RunInv, Busy, Run
<1>6. d[w].pc = "sent" => copies[n] > 0
  BY DEF n, IInv, RunInv
<1>7. SentWasDelivered'
  BY <1>1, <1>3, <1>6, PutRowFacts DEF IInv, SentWasDelivered
<1> QED BY <1>4, <1>5, <1>7 DEF IInv
-----------------------------------------------------------------------------
(* The invariant *)

LEMMA InitInv == Init => IInv
<1> SUFFICES ASSUME Init PROVE IInv
  OBVIOUS
<1>1. IdleRun \in Run /\ IdleRun.pc = "idle" /\ IdleRun.todo = {}
  BY DEF IdleRun, Run, PC
<1>2. TypeOK
  BY <1>1, NotificationsAssumption DEF Init, TypeOK
<1>3. IndexInv /\ RunInv /\ SentWasDelivered
  BY <1>1 DEF Init, IndexInv, RunInv, SentWasDelivered, Busy
<1> QED BY <1>2, <1>3 DEF IInv

LEMMA NextInv == IInv /\ [Next]_vars => IInv'
<1> SUFFICES ASSUME IInv, [Next]_vars PROVE IInv'
  OBVIOUS
<1>1. ASSUME NEW n \in Notif, NEW at \in Instant, NEW ch \in Channel, Create(n, at, ch)
      PROVE  IInv'
  <2> DEFINE c == [at |-> at, channel |-> ch, status |-> "scheduled"]
  <2>1. c \in Notification /\ c.status = "scheduled"
    BY DEF Notification, Status
  <2>2. PutRow(n, c)
    BY <1>1 DEF Create
  <2> HIDE DEF c
  <2>3. TypeOK' /\ IndexInv'
    BY <1>1, <2>1, <2>2, PutRowFacts DEF Create, IInv, TypeOK, ghosts
  <2>4. RunInv'
    BY <1>1, <2>1, <2>2, PutRowFacts DEF Create, IInv, RunInv, TypeOK, Run
  <2>5. SentWasDelivered'
    BY <1>1, <2>1, <2>2, PutRowFacts DEF Create, IInv, SentWasDelivered
  <2> QED BY <2>3, <2>4, <2>5 DEF IInv
<1>2. ASSUME NEW w \in Dispatcher, ListDue(w) PROVE IInv'
  <2>1. DueNow \in SUBSET Notif /\ \A n \in DueNow : rows[n] # Nil
    BY DEF DueNow, IInv, IndexInv
  <2> QED BY <1>2, <2>1, ContinueInv DEF ListDue, ghosts, IInv, TypeOK
<1>3. ASSUME NEW w \in Dispatcher, GetFresh(w) PROVE IInv'
  <2>1. PICK n \in First(d[w].todo) :
          IF rows[n].status = "scheduled"
            THEN /\ d' = [d EXCEPT ![w].pc = "send", ![w].item = n, ![w].copy = rows[n]]
                 /\ TakeUp(w, n)
            ELSE Continue(w, d[w].todo \ {n}) /\ UNCHANGED ghosts
    BY <1>3 DEF GetFresh
  <2>2. n \in d[w].todo /\ d[w].todo \in SUBSET Notif
    BY FirstIsCandidate DEF IInv, TypeOK, Run
  <2>3. n \in Notif /\ rows[n] \in Notification /\ rows[n] # Nil
    BY <2>2 DEF IInv, TypeOK, RunInv
  <2>4. UNCHANGED <<rows, gsi4, clock, copies>>
    BY <1>3 DEF GetFresh
  <2>5. CASE rows[n].status = "scheduled"
    <3>1. /\ d' = [d EXCEPT ![w].pc = "send", ![w].item = n, ![w].copy = rows[n]]
          /\ TakeUp(w, n)
      BY <2>1, <2>5
    <3> DEFINE run == [d[w] EXCEPT !.pc = "send", !.item = n, !.copy = rows[n]]
    <3>2. run \in Run
      BY <2>3 DEF IInv, TypeOK, Run, PC
    <3>3. d' = [d EXCEPT ![w] = run]
      BY <3>1
    <3> HIDE DEF run
    <3>4. d' \in [Dispatcher -> Run]
      BY <3>2, <3>3 DEF IInv, TypeOK
    <3>5. TypeOK' /\ IndexInv' /\ SentWasDelivered'
      BY <3>1, <3>4, <2>3, <2>4, TakeUpFacts DEF IInv, TypeOK, IndexInv, SentWasDelivered
    <3>6. RunInv'
      BY <3>1, <2>3, <2>4 DEF IInv, TypeOK, RunInv, Busy, Run
    <3> QED BY <3>5, <3>6 DEF IInv
  <2>6. CASE rows[n].status # "scheduled"
    <3>1. \A i \in d[w].todo \ {n} : rows[i] # Nil
      BY DEF IInv, RunInv
    <3>2. Continue(w, d[w].todo \ {n}) /\ UNCHANGED ghosts
      BY <2>1, <2>6
    <3>3. contested' \subseteq Notif /\ unsaved' \subseteq Notif
      BY <3>2 DEF ghosts, IInv, TypeOK
    <3> QED BY <3>1, <3>2, <3>3, <2>2, <2>4, ContinueInv
  <2> QED BY <2>5, <2>6
<1>4. ASSUME NEW w \in Dispatcher, GetFails(w) PROVE IInv'
  <2>1. PICK n \in First(d[w].todo) : Continue(w, d[w].todo \ {n})
    BY <1>4 DEF GetFails
  <2>2. d[w].todo \in SUBSET Notif /\ \A i \in d[w].todo \ {n} : rows[i] # Nil
    BY DEF IInv, TypeOK, Run, RunInv
  <2> QED BY <1>4, <2>1, <2>2, ContinueInv DEF GetFails, ghosts, IInv, TypeOK
<1>5. ASSUME NEW w \in Dispatcher, Send(w) \/ SendLost(w) PROVE IInv'
  <2>1. /\ d[w].pc = "send" /\ Deliver(d[w].item)
        /\ d' = [d EXCEPT ![w].pc = "sent"] \/ d' = [d EXCEPT ![w].pc = "failed"]
        /\ UNCHANGED <<rows, gsi4, clock, ghosts>>
    BY <1>5 DEF Send, SendLost
  <2>2. d[w].item \in Notif
    BY <2>1 DEF IInv, RunInv, Busy
  <2>3. d' \in [Dispatcher -> Run]
    BY <2>1 DEF IInv, TypeOK, Run, PC
  <2>4. TypeOK' /\ IndexInv'
    BY <2>1, <2>2, <2>3, DeliverFacts DEF IInv, TypeOK, IndexInv, ghosts
  <2>5. SentWasDelivered'
    BY <2>1, <2>2, DeliverFacts DEF IInv, SentWasDelivered
  <2>6. RunInv'
    BY <2>1, <2>2, DeliverFacts DEF IInv, RunInv, TypeOK, Run, Busy
  <2> QED BY <2>4, <2>5, <2>6 DEF IInv
<1>6. ASSUME NEW w \in Dispatcher, SendFails(w) PROVE IInv'
  <2>1. /\ d[w].pc = "send" /\ d' = [d EXCEPT ![w].pc = "failed"]
        /\ UNCHANGED <<rows, gsi4, clock, copies, ghosts>>
    BY <1>6 DEF SendFails
  <2>2. d' \in [Dispatcher -> Run]
    BY <2>1 DEF IInv, TypeOK, Run, PC
  <2>3. TypeOK' /\ IndexInv' /\ SentWasDelivered'
    BY <2>1, <2>2 DEF IInv, TypeOK, IndexInv, SentWasDelivered, ghosts
  <2>4. RunInv'
    BY <2>1 DEF IInv, RunInv, TypeOK, Run, Busy
  <2> QED BY <2>3, <2>4 DEF IInv
<1>7. ASSUME NEW w \in Dispatcher, Save(w) PROVE IInv'
  BY <1>7, SaveInv DEF Save, Skip
<1>8. ASSUME NEW w \in Dispatcher, SaveLost(w) PROVE IInv'
  BY <1>8, SaveInv DEF SaveLost
<1>9. ASSUME NEW w \in Dispatcher, SaveFails(w) \/ Kill(w) PROVE IInv'
  <2>1. PICK t \in SUBSET d[w].todo : Continue(w, t)
    BY <1>9 DEF SaveFails, Kill, Skip
  <2>2. t \in SUBSET Notif /\ \A i \in t : rows[i] # Nil
    BY DEF IInv, TypeOK, Run, RunInv
  <2>3. UNCHANGED <<rows, gsi4, clock, copies>> /\ GiveUp(w)
    BY <1>9 DEF SaveFails, Kill
  <2>4. contested' \subseteq Notif /\ unsaved' \subseteq Notif
    BY <2>3, GiveUpFacts DEF IInv, TypeOK
  <2> QED BY <2>1, <2>2, <2>3, <2>4, ContinueInv
<1>10. ASSUME NEW n \in Notif, Replicate(n) PROVE IInv'
  <2>1. TypeOK' /\ IndexInv' /\ SentWasDelivered'
    BY <1>10 DEF Replicate, IInv, TypeOK, IndexInv, SentWasDelivered, ghosts
  <2>2. RunInv'
    BY <1>10 DEF Replicate, IInv, RunInv
  <2> QED BY <2>1, <2>2 DEF IInv
<1>11. CASE Tick
  <2>1. TypeOK' /\ IndexInv' /\ SentWasDelivered'
    BY <1>11, NotificationsAssumption DEF Tick, IInv, TypeOK, IndexInv, SentWasDelivered, ghosts
  <2>2. RunInv'
    BY <1>11 DEF Tick, IInv, RunInv
  <2> QED BY <2>1, <2>2 DEF IInv
<1>12. CASE UNCHANGED vars
  BY <1>12 DEF vars, ghosts, IInv, TypeOK, IndexInv, RunInv, SentWasDelivered
<1> QED
  BY <1>1, <1>2, <1>3, <1>4, <1>5, <1>6, <1>7, <1>8, <1>9, <1>10, <1>11, <1>12
     DEF Next, Proceed

LEMMA Invariance == Spec => []IInv
BY InitInv, NextInv, PTL DEF Spec

(***************************************************************************)
(* The type invariant holds for every number of notifications and          *)
(* dispatchers, every list limit and every fault.                          *)
(***************************************************************************)
THEOREM TypeCorrect == Spec => []TypeOK
BY Invariance, PTL DEF IInv

(***************************************************************************)
(* DispatchDue never leaves a row marked as sent that the provider did not *)
(* take, however many dispatchers race and wherever they fail.             *)
(***************************************************************************)
THEOREM SentAlwaysDelivered == Spec => []SentWasDelivered
BY Invariance, PTL DEF IInv

-----------------------------------------------------------------------------
(* Racing dispatchers *)

\* Two dispatchers at one notification contest it; the row of one that nobody
\* contests is still scheduled as long as a dispatcher is at it.
AloneInv ==
  \A v, w \in Dispatcher, n \in Notif :
    v # w /\ IsAt(v, n) /\ IsAt(w, n) => n \in contested

ClaimInv ==
  \A w \in Dispatcher, n \in Notif :
    IsAt(w, n) /\ n \notin contested => rows[n].status = "scheduled"

\* What a step does to the dispatchers, told by the one that moves.
Moves(w) ==
  \/ ListDue(w) \/ GetFresh(w) \/ GetFails(w) \/ Send(w) \/ SendFails(w)
  \/ SendLost(w) \/ Save(w) \/ SaveFails(w) \/ SaveLost(w) \/ Kill(w)

LEMMA ContestedGrows ==
  ASSUME IInv, [Next]_vars
  PROVE  contested \subseteq contested' /\ unsaved \subseteq unsaved'
<1>1. ASSUME NEW w \in Dispatcher, GetFresh(w)
      PROVE  contested \subseteq contested' /\ unsaved \subseteq unsaved'
  BY <1>1 DEF GetFresh, TakeUp, ghosts
<1>2. ASSUME NEW w \in Dispatcher, SaveFails(w) \/ Kill(w)
      PROVE  contested \subseteq contested' /\ unsaved \subseteq unsaved'
  BY <1>2 DEF SaveFails, Kill, GiveUp
<1>3. ASSUME UNCHANGED ghosts
      PROVE  contested \subseteq contested' /\ unsaved \subseteq unsaved'
  BY <1>3 DEF ghosts
<1> QED
  BY <1>1, <1>2, <1>3 DEF Next, Proceed, vars, Create, ListDue, GetFails, Send,
     SendFails, SendLost, Save, SaveLost, Replicate, Tick

\* A dispatcher only comes to be at a notification by reading it as scheduled,
\* and then contests it with any other that is at it.
LEMMA ArrivesAt ==
  ASSUME IInv, [Next]_vars, NEW w \in Dispatcher, NEW n \in Notif, IsAt(w, n)'
  PROVE  \/ IsAt(w, n) /\ \A v \in Dispatcher : IsAt(v, n)' => IsAt(v, n)
         \/ /\ rows[n].status = "scheduled" /\ rows' = rows
            /\ \A v \in Dispatcher \ {w} : d'[v] = d[v]
            /\ (\E v \in Dispatcher \ {w} : IsAt(v, n)) => n \in contested'
         \/ \E v \in Dispatcher \ {w} :
              /\ IsAt(w, n) /\ ~IsAt(v, n) /\ IsAt(v, n)'
              /\ n \in contested'
<1> DEFINE Goal ==
      \/ IsAt(w, n) /\ \A v \in Dispatcher : IsAt(v, n)' => IsAt(v, n)
      \/ /\ rows[n].status = "scheduled" /\ rows' = rows
         /\ \A v \in Dispatcher \ {w} : d'[v] = d[v]
         /\ (\E v \in Dispatcher \ {w} : IsAt(v, n)) => n \in contested'
      \/ \E v \in Dispatcher \ {w} :
           /\ IsAt(w, n) /\ ~IsAt(v, n) /\ IsAt(v, n)'
           /\ n \in contested'
<1>1. ASSUME NEW u \in Dispatcher, NEW t \in SUBSET Notif, Continue(u, t)
      PROVE  \A v \in Dispatcher : IsAt(v, n)' => IsAt(v, n)
  BY <1>1, ContinueFacts DEF IsAt, IInv
<1>2. ASSUME d' = d PROVE \A v \in Dispatcher : IsAt(v, n)' => IsAt(v, n)
  BY <1>2 DEF IsAt
<1>3. ASSUME NEW u \in Dispatcher, Send(u) \/ SendFails(u) \/ SendLost(u)
      PROVE  \A v \in Dispatcher : IsAt(v, n)' => IsAt(v, n)
  <2>1. /\ d[u].pc = "send" /\ d \in [Dispatcher -> Run]
        /\ d' = [d EXCEPT ![u].pc = "sent"] \/ d' = [d EXCEPT ![u].pc = "failed"]
    BY <1>3 DEF Send, SendFails, SendLost, IInv, TypeOK
  <2> QED BY <2>1 DEF IsAt, Run
<1>4. ASSUME NEW u \in Dispatcher, Moves(u), ~GetFresh(u)
      PROVE  \A v \in Dispatcher : IsAt(v, n)' => IsAt(v, n)
  <2>1. DueNow \in SUBSET Notif /\ d[u].todo \in SUBSET Notif
    BY DEF DueNow, IInv, TypeOK, Run
  <2>2. CASE Send(u) \/ SendFails(u) \/ SendLost(u)
    BY <2>2, <1>3
  <2>3. CASE ~(Send(u) \/ SendFails(u) \/ SendLost(u))
    <3>1. \E t \in SUBSET Notif : Continue(u, t)
      BY <1>4, <2>1, <2>3
         DEF Moves, ListDue, GetFails, Save, SaveFails, SaveLost, Kill, Skip
    <3> QED BY <3>1, <1>1
  <2> QED BY <2>2, <2>3
<1>5. ASSUME NEW u \in Dispatcher, GetFresh(u) PROVE Goal
  <2>1. PICK i \in First(d[u].todo) :
          IF rows[i].status = "scheduled"
            THEN /\ d' = [d EXCEPT ![u].pc = "send", ![u].item = i, ![u].copy = rows[i]]
                 /\ TakeUp(u, i)
            ELSE Continue(u, d[u].todo \ {i}) /\ UNCHANGED ghosts
    BY <1>5 DEF GetFresh
  <2>2. i \in Notif /\ d[u].todo \ {i} \in SUBSET Notif
    BY FirstIsCandidate DEF IInv, TypeOK, Run
  <2>3. CASE rows[i].status # "scheduled"
    BY <1>1, <2>1, <2>2, <2>3
  <2>4. CASE rows[i].status = "scheduled"
    <3>1. /\ d' = [d EXCEPT ![u].pc = "send", ![u].item = i, ![u].copy = rows[i]]
          /\ TakeUp(u, i) /\ d \in [Dispatcher -> Run]
      BY <2>1, <2>4 DEF IInv, TypeOK
    <3>2. d'[u].pc = "send" /\ d'[u].item = i /\ \A v \in Dispatcher \ {u} : d'[v] = d[v]
      BY <3>1 DEF Run
    <3>3. rows' = rows /\ d[u].pc = "get"
      BY <1>5 DEF GetFresh
    <3>4. (\E v \in Dispatcher \ {u} : IsAt(v, i)) => i \in contested'
      BY <3>1, <2>2, TakeUpFacts DEF IInv
    <3>5. CASE u = w
      <4>1. i = n
        BY <3>2, <3>5 DEF IsAt
      <4> QED BY <2>4, <3>2, <3>3, <3>4, <3>5, <4>1
    <3>6. CASE u # w
      <4>1. IsAt(w, n)
        BY <3>2, <3>6 DEF IsAt
      <4>2. CASE i = n
        <5>1. ~IsAt(u, n) /\ IsAt(u, n)'
          BY <3>2, <3>3, <4>2 DEF IsAt
        <5> QED BY <3>4, <3>6, <4>1, <4>2, <5>1
      <4>3. CASE i # n
        <5>1. \A v \in Dispatcher : IsAt(v, n)' => IsAt(v, n)
          BY <3>2, <4>3 DEF IsAt
        <5> QED BY <4>1, <5>1
      <4> QED BY <4>2, <4>3
    <3> QED BY <3>5, <3>6
  <2> QED BY <2>3, <2>4
<1>6. CASE \A v \in Dispatcher : IsAt(v, n)' => IsAt(v, n)
  BY <1>6
<1>7. (\E u \in Dispatcher : Moves(u)) \/ d' = d
  BY DEF Next, Proceed, Moves, vars, Create, Replicate, Tick
<1> QED BY <1>2, <1>4, <1>5, <1>6, <1>7

\* A settled row that nobody contests stays as it is.
LEMMA SettledStep ==
  ASSUME IInv, ClaimInv, [Next]_vars,
         NEW n \in Notif, n \notin contested, Settled(n)
  PROVE  rows'[n] = rows[n]
<1>1. ASSUME NEW i \in Notif, NEW at \in Instant, NEW ch \in Channel, Create(i, at, ch)
      PROVE  rows'[n] = rows[n]
  BY <1>1 DEF Create, PutRow, IInv, TypeOK, Settled
<1>2. ASSUME NEW w \in Dispatcher, Save(w) \/ SaveLost(w) PROVE rows'[n] = rows[n]
  <2>1. d[w].pc \in {"sent", "failed"}
    BY <1>2 DEF Save, SaveLost
  <2>2. d[w].item # n
    BY <2>1 DEF ClaimInv, IsAt, Settled
  <2> QED BY <1>2, <2>2 DEF Save, SaveLost, PutRow, IInv, TypeOK
<1>3. ASSUME NEW w \in Dispatcher,
             \/ ListDue(w) \/ GetFresh(w) \/ GetFails(w) \/ Send(w) \/ SendFails(w)
             \/ SendLost(w) \/ SaveFails(w) \/ Kill(w)
      PROVE  rows'[n] = rows[n]
  BY <1>3 DEF ListDue, GetFresh, GetFails, Send, SendFails, SendLost, SaveFails, Kill
<1>4. ASSUME NEW i \in Notif, Replicate(i) PROVE rows'[n] = rows[n]
  BY <1>4 DEF Replicate
<1>5. ASSUME Tick \/ UNCHANGED vars PROVE rows'[n] = rows[n]
  BY <1>5 DEF Tick, vars
<1> QED BY <1>1, <1>2, <1>3, <1>4, <1>5 DEF Next, Proceed

LEMMA AloneNext ==
  ASSUME IInv, AloneInv, [Next]_vars PROVE AloneInv'
<1> SUFFICES ASSUME NEW v \in Dispatcher, NEW w \in Dispatcher, NEW n \in Notif,
                    v # w, IsAt(v, n)', IsAt(w, n)'
             PROVE  n \in contested'
  BY DEF AloneInv
<1>1. CASE IsAt(v, n) /\ IsAt(w, n)
  BY <1>1, ContestedGrows DEF AloneInv
<1>2. CASE ~IsAt(v, n)
  BY <1>2, ArrivesAt DEF IsAt
<1>3. CASE ~IsAt(w, n)
  BY <1>3, ArrivesAt DEF IsAt
<1> QED BY <1>1, <1>2, <1>3

LEMMA ClaimNext ==
  ASSUME IInv, AloneInv, ClaimInv, [Next]_vars PROVE ClaimInv'
<1> SUFFICES ASSUME NEW w \in Dispatcher, NEW n \in Notif,
                    IsAt(w, n)', n \notin contested'
             PROVE  rows'[n].status = "scheduled"
  BY DEF ClaimInv
<1>1. n \notin contested
  BY ContestedGrows
<1>2. CASE ~IsAt(w, n)
  BY <1>2, ArrivesAt
<1>3. CASE IsAt(w, n)
  <2>1. rows[n].status = "scheduled" /\ rows[n] # Nil
    BY <1>1, <1>3 DEF ClaimInv, IsAt, IInv, RunInv, Busy
  <2>2. ASSUME NEW i \in Notif, NEW at \in Instant, NEW ch \in Channel, Create(i, at, ch)
        PROVE  rows'[n] = rows[n]
    BY <2>1, <2>2 DEF Create, PutRow, IInv, TypeOK
  <2>3. ASSUME NEW v \in Dispatcher, Save(v) \/ SaveLost(v) PROVE rows'[n] = rows[n]
    <3>1. d[v].pc \in {"sent", "failed"} /\ \E t \in SUBSET Notif : Continue(v, t)
      BY <2>3 DEF Save, SaveLost, Skip, IInv, TypeOK, Run
    <3>2. v # w
      BY <3>1, ContinueFacts DEF IInv, IsAt
    <3>3. d[v].item # n
      BY <1>1, <1>3, <3>1, <3>2 DEF AloneInv, IsAt
    <3> QED BY <2>3, <3>3 DEF Save, SaveLost, PutRow, IInv, TypeOK
  <2>4. ASSUME rows' = rows PROVE rows'[n] = rows[n]
    BY <2>4
  <2>5. rows'[n] = rows[n]
    BY <2>2, <2>3, <2>4
       DEF Next, Proceed, vars, ListDue, GetFresh, GetFails, Send, SendFails,
           SendLost, SaveFails, Kill, Replicate, Tick
  <2> QED BY <2>1, <2>5
<1> QED BY <1>2, <1>3

RaceInv == IInv /\ AloneInv /\ ClaimInv

LEMMA RaceInvariance == Spec => []RaceInv
<1>1. Init => RaceInv
  <2>1. Init => AloneInv /\ ClaimInv
    BY DEF Init, IdleRun, AloneInv, ClaimInv, IsAt
  <2> QED BY <2>1, InitInv DEF RaceInv
<1>2. RaceInv /\ [Next]_vars => RaceInv'
  BY NextInv, AloneNext, ClaimNext DEF RaceInv
<1> QED BY <1>1, <1>2, PTL DEF Spec

(***************************************************************************)
(* However many dispatchers race, whichever saves fail and wherever they   *)
(* are killed, a settled row is overwritten only if two of them were at    *)
(* the notification together (Save in notification_repo.go has no          *)
(* condition; the fresh read is all that stands for one).                  *)
(***************************************************************************)
THEOREM SettledAlwaysSticks == Spec => SettledSticks
<1>1. RaceInv /\ [Next]_vars =>
        [\A n \in Notif \ contested : Settled(n) => rows'[n] = rows[n]]_vars
  BY SettledStep DEF RaceInv
<1> QED BY <1>1, RaceInvariance, PTL DEF Spec, SettledSticks

-----------------------------------------------------------------------------
(* One message each *)

\* A message that went out belongs to a row that is settled, or about to be.
Settling(n) == \E w \in Dispatcher : d[w].pc \in {"sent", "failed"} /\ d[w].item = n

OnceInv == \A n \in Notif \ (contested \cup unsaved) :
             copies[n] <= 1 /\ (copies[n] > 0 => Settled(n) \/ Settling(n))

\* A save settles the row of the dispatcher's item.
LEMMA SaveSettles ==
  ASSUME IInv, NEW w \in Dispatcher, Save(w) \/ SaveLost(w), NEW n, n = d[w].item
  PROVE  Settled(n)'
<1>1. n \in Notif /\ d[w].copy \in Notification /\ d[w].pc \in {"sent", "failed"}
  BY DEF Save, SaveLost, IInv, RunInv, Busy
<1>2. rows'[n] = [d[w].copy EXCEPT !.status = d[w].pc]
  BY <1>1 DEF Save, SaveLost, PutRow, IInv, TypeOK
<1>3. rows'[n] \in Notification /\ rows'[n].status = d[w].pc
  BY <1>1, <1>2 DEF Notification, Status
<1> QED BY <1>1, <1>3, NotificationNilAssumption DEF Settled

LEMMA OnceNext ==
  ASSUME RaceInv, OnceInv, [Next]_vars PROVE OnceInv'
<1> USE DEF RaceInv
<1> SUFFICES ASSUME NEW n \in Notif, n \notin contested', n \notin unsaved'
             PROVE  copies'[n] <= 1 /\ (copies'[n] > 0 => Settled(n)' \/ Settling(n)')
  BY DEF OnceInv
<1> DEFINE Goal == copies'[n] <= 1 /\ (copies'[n] > 0 => Settled(n)' \/ Settling(n)')
<1>1. n \notin contested /\ n \notin unsaved
  BY ContestedGrows
<1>2. copies[n] <= 1 /\ (copies[n] > 0 => Settled(n) \/ Settling(n))
  BY <1>1 DEF OnceInv
<1>3. Settled(n) => Settled(n)'
  BY <1>1, SettledStep DEF Settled
\* It is enough that the one who is about to settle n stays or settles it.
<1>4. ASSUME copies'[n] = copies[n],
             ASSUME NEW w \in Dispatcher, d[w].pc \in {"sent", "failed"},
                    d[w].item = n, copies[n] > 0
             PROVE  d'[w] = d[w] \/ Settled(n)'
      PROVE  Goal
  BY <1>2, <1>3, <1>4 DEF Settling
<1>5. ASSUME NEW i \in Notif, NEW at \in Instant, NEW ch \in Channel, Create(i, at, ch)
      PROVE  Goal
  BY <1>4, <1>5 DEF Create
<1>6. ASSUME NEW v \in Dispatcher, NEW t \in SUBSET Notif, Continue(v, t),
             NEW w \in Dispatcher, w # v
      PROVE  d'[w] = d[w]
  BY <1>6, ContinueFacts DEF IInv
<1>7. ASSUME NEW v \in Dispatcher, ListDue(v) \/ GetFails(v) PROVE Goal
  <2>1. d[v].pc \notin {"sent", "failed"} /\ copies' = copies
    BY <1>7 DEF ListDue, GetFails
  <2>2. DueNow \in SUBSET Notif /\ d[v].todo \in SUBSET Notif
    BY DEF DueNow, IInv, TypeOK, Run
  <2>3. PICK t \in SUBSET Notif : Continue(v, t)
    BY <1>7, <2>2 DEF ListDue, GetFails
  <2>4. \A w \in Dispatcher : d[w].pc \in {"sent", "failed"} => d'[w] = d[w]
    BY <1>6, <2>1, <2>3
  <2> QED BY <1>4, <2>1, <2>4
<1>8. ASSUME NEW v \in Dispatcher, GetFresh(v) \/ SendFails(v) PROVE Goal
  <2>1. d[v].pc \notin {"sent", "failed"} /\ copies' = copies
    BY <1>8 DEF GetFresh, SendFails
  <2>2. \A w \in Dispatcher : w # v => d'[w] = d[w]
    BY <1>8, FirstIsCandidate, <1>6 DEF GetFresh, SendFails, IInv, TypeOK, Run
  <2> QED BY <1>4, <2>1, <2>2
<1>9. ASSUME NEW v \in Dispatcher, Send(v) \/ SendLost(v) PROVE Goal
  <2>1. /\ d[v].pc = "send" /\ Deliver(d[v].item)
        /\ d' = [d EXCEPT ![v].pc = "sent"] \/ d' = [d EXCEPT ![v].pc = "failed"]
    BY <1>9 DEF Send, SendLost
  <2>2. d[v].item \in Notif /\ d \in [Dispatcher -> Run] /\ IsAt(v, d[v].item)
    BY <2>1 DEF IInv, TypeOK, RunInv, Busy, IsAt
  <2>3. CASE d[v].item = n
    <3>1. ~Settled(n)
      BY <1>1, <2>2, <2>3 DEF ClaimInv, Settled
    <3>2. ~Settling(n)
      BY <1>1, <2>1, <2>2, <2>3 DEF Settling, AloneInv, IsAt
    <3>3. copies[n] = 0
      BY <1>2, <3>1, <3>2 DEF IInv, TypeOK
    <3>4. copies'[n] = 1
      BY <2>1, <2>3, <3>3, DeliverFacts DEF IInv
    <3>5. d'[v].pc \in {"sent", "failed"} /\ d'[v].item = n
      BY <2>1, <2>2, <2>3 DEF Run
    <3> QED BY <3>4, <3>5 DEF Settling
  <2>4. CASE d[v].item # n
    <3>1. copies'[n] = copies[n]
      BY <2>1, <2>2, <2>4, DeliverFacts DEF IInv
    <3>2. \A w \in Dispatcher : d[w].pc \in {"sent", "failed"} => d'[w] = d[w]
      BY <2>1, <2>2 DEF Run
    <3> QED BY <1>4, <3>1, <3>2
  <2> QED BY <2>3, <2>4
<1>10. ASSUME NEW v \in Dispatcher, Save(v) \/ SaveLost(v) PROVE Goal
  <2>1. copies' = copies /\ \E t \in SUBSET Notif : Continue(v, t)
    BY <1>10 DEF Save, SaveLost, Skip, IInv, TypeOK, Run
  <2>2. \A w \in Dispatcher : w # v => d'[w] = d[w]
    BY <1>6, <2>1
  <2>3. d[v].item = n => Settled(n)'
    BY <1>10, SaveSettles
  <2> QED BY <1>4, <2>1, <2>2, <2>3
<1>11. ASSUME NEW v \in Dispatcher, SaveFails(v) \/ Kill(v) PROVE Goal
  <2>1. /\ copies' = copies /\ GiveUp(v)
        /\ \E t \in SUBSET Notif : Continue(v, t)
    BY <1>11 DEF SaveFails, Kill, Skip, IInv, TypeOK, Run
  <2>2. \A w \in Dispatcher : w # v => d'[w] = d[w]
    BY <1>6, <2>1
  <2>3. ~(d[v].pc \in {"sent", "failed"} /\ d[v].item = n /\ copies[n] > 0)
    BY <2>1, GiveUpFacts
  <2> QED BY <1>4, <2>1, <2>2, <2>3
<1>12. ASSUME (\E i \in Notif : Replicate(i)) \/ Tick \/ UNCHANGED vars PROVE Goal
  BY <1>4, <1>12 DEF Replicate, Tick, vars
<1> QED
  BY <1>5, <1>7, <1>8, <1>9, <1>10, <1>11, <1>12 DEF Next, Proceed

(***************************************************************************)
(* However many dispatchers race, wherever they fail, however far GSI4     *)
(* trails and whichever answers are lost, a message goes out twice only if *)
(* two dispatchers were at it together or the save after it never happened *)
(* (DispatchDue reads the row again before it sends).                      *)
(***************************************************************************)
THEOREM SentAtMostOnce == Spec => []AtMostOnce
<1>1. Init => OnceInv
  BY DEF Init, OnceInv
<1>2. OnceInv /\ RaceInv /\ [Next]_vars => OnceInv'
  BY OnceNext
<1>3. OnceInv /\ RaceInv => AtMostOnce
  BY DEF OnceInv, AtMostOnce, RaceInv, IInv, TypeOK
<1> QED BY <1>1, <1>2, <1>3, RaceInvariance, PTL DEF Spec
=============================================================================

--------------------------- MODULE Notifications ---------------------------
(***************************************************************************)
(* The notification queue (internal/app/notifications/app.go) over its     *)
(* DynamoDB repository (internal/adapters/dynamo/notification_repo.go).    *)
(* Notifications are created as scheduled rows; a dispatcher (POST         *)
(* dispatch-due, which a timer or an operator calls) lists the due ones    *)
(* from GSI4 and works through them: it reads each row again, sends the    *)
(* message, and saves the outcome.  One action is one call to the table or *)
(* the provider; dispatchers interleave, and nothing claims a row.         *)
(***************************************************************************)
EXTENDS Naturals, FiniteSets

CONSTANTS
  Notif,       \* notifications, numbered as they are created
  Dispatcher,  \* calls of DispatchDue that may run at one time
  Instant,     \* the times a notification may be scheduled at
  Horizon,     \* bound: the time at which the clock stops
  Limit,       \* notifications a call lists at most (50 in the code)
  Faults,      \* what may go wrong, a subset of Fault
  IndexLag,    \* whether GSI4 may trail the table
  Nil

\* The provider rejects the message or the customer cannot be read; it accepts
\* the message and the answer is lost; a row cannot be read again; a row cannot
\* be saved; the Lambda timeout kills the dispatcher.
Fault == {"reject", "lost", "read", "save", "kill"}

ASSUME NotificationsAssumption ==
  /\ Notif \subseteq Nat \ {0}
  /\ Instant \subseteq Nat
  /\ Horizon \in Nat
  /\ Faults \subseteq Fault
  /\ IndexLag \in BOOLEAN

VARIABLES
  rows,    \* NOTIF rows: id -> notification, or Nil
  gsi4,    \* the GSI4 projection of those rows that queries read
  clock,
  copies,  \* history: messages the provider took, 2 for any more than one
  d,       \* the dispatchers' local state
  contested,  \* history: notifications two dispatchers were at together
  unsaved     \* history: taken by the provider, and the outcome never saved

ghosts == <<contested, unsaved>>

vars == <<rows, gsi4, clock, copies, d, ghosts>>

Status == {"scheduled", "sent", "failed"}

\* The other channels can be scheduled, and fail when they are due.
Channel == {"whatsapp", "email"}

Notification == [at: Instant, channel: Channel, status: Status]

ASSUME NotificationNilAssumption == Nil \notin Notification \cup Notif

\* Where a dispatcher stands: the call it makes next.
PC == {"idle", "get", "send", "sent", "failed"}

Run ==
  [pc   : PC,
   todo : SUBSET Notif,              \* the candidates still to do
   item : Notif \cup {Nil},          \* the one it is at
   copy : Notification \cup {Nil}]   \* fresh, the row in memory

IdleRun == [pc |-> "idle", todo |-> {}, item |-> Nil, copy |-> Nil]

Init ==
  /\ rows   = [n \in Notif |-> Nil]
  /\ gsi4   = [n \in Notif |-> Nil]
  /\ clock  = 0
  /\ copies = [n \in Notif |-> 0]
  /\ d      = [w \in Dispatcher |-> IdleRun]
  /\ contested = {}
  /\ unsaved   = {}

-----------------------------------------------------------------------------
(* Helpers *)

\* PutItem on a notification row, with no condition on its status.
PutRow(n, c) ==
  /\ rows' = [rows EXCEPT ![n] = c]
  /\ gsi4' = IF IndexLag THEN gsi4 ELSE rows'

\* Mutant of InDueQueue: the keys stay as they were when the row was created.
InDueQueueForever(c) == c.status \in Status

\* gsi4KeysForNotification: only scheduled rows have keys in the due queue.
InDueQueue(c) == c.status = "scheduled"

\* The order of the due queue: by time, then by id.
Before(i, j) ==
  gsi4[i].at < gsi4[j].at \/ (gsi4[i].at = gsi4[j].at /\ i < j)

\* ListDueScheduled: the first Limit items of the due queue up to now, of which
\* the filter then drops those that are not scheduled.
DueNow ==
  LET due == {n \in Notif : gsi4[n] # Nil /\ InDueQueue(gsi4[n]) /\ gsi4[n].at <= clock}
  IN  {n \in due : /\ Cardinality({i \in due : Before(i, n)}) < Limit
                   /\ gsi4[n].status = "scheduled"}

\* What a dispatcher does with the candidates in t still to do.
Continue(w, t) ==
  d' = [d EXCEPT ![w] = IF t = {} THEN IdleRun
                                  ELSE [IdleRun EXCEPT !.pc = "get", !.todo = t]]

Skip(w) == Continue(w, d[w].todo \ {d[w].item})

\* The candidate is the first one still to do; times do not change, so the
\* table gives the order in which the index listed them.
First(t) ==
  {n \in t : \A i \in t \ {n} :
     rows[n].at < rows[i].at \/ (rows[n].at = rows[i].at /\ n < i)}

Deliver(n) == copies' = [copies EXCEPT ![n] = IF @ = 0 THEN 1 ELSE 2]

\* Dispatcher w read n as scheduled and has not saved its outcome.
IsAt(w, n) == d[w].pc \in {"send", "sent", "failed"} /\ d[w].item = n

\* History: w takes up n, which another dispatcher may be at.
TakeUp(w, n) ==
  /\ contested' = IF \E v \in Dispatcher \ {w} : IsAt(v, n) THEN contested \cup {n}
                                                            ELSE contested
  /\ UNCHANGED unsaved

\* History: w gives up, after the provider took the message of its item or not.
GiveUp(w) ==
  /\ unsaved' = IF d[w].pc \in {"sent", "failed"} /\ copies[d[w].item] > 0
                  THEN unsaved \cup {d[w].item} ELSE unsaved
  /\ UNCHANGED contested

-----------------------------------------------------------------------------
(* The operations *)

\* Mutant of Create: neither the service nor the repository sets the status.
CreateWithoutStatus(n, at, ch) ==
  /\ rows[n] = Nil
  /\ \A i \in Notif : i < n => rows[i] # Nil
  /\ PutRow(n, [at |-> at, channel |-> ch, status |-> ""])
  /\ UNCHANGED <<clock, copies, d, ghosts>>

\* Create, by request or as the reminder of a new booking.
Create(n, at, ch) ==
  /\ rows[n] = Nil
  /\ \A i \in Notif : i < n => rows[i] # Nil
  /\ PutRow(n, [at |-> at, channel |-> ch, status |-> "scheduled"])
  /\ UNCHANGED <<clock, copies, d, ghosts>>

ListDue(w) ==
  /\ d[w].pc = "idle"
  /\ DueNow # {}
  /\ Continue(w, DueNow)
  /\ UNCHANGED <<rows, gsi4, clock, copies, ghosts>>

\* Mutant of GetFresh: the candidate is sent as the index listed it.
GetNothing(w) ==
  /\ d[w].pc = "get"
  /\ \E n \in First(d[w].todo) :
       /\ d' = [d EXCEPT ![w].pc = "send", ![w].item = n,
                         ![w].copy = [rows[n] EXCEPT !.status = "scheduled"]]
       /\ TakeUp(w, n)
  /\ UNCHANGED <<rows, gsi4, clock, copies>>

\* A consistent read of the next candidate; it is skipped if it is settled.
GetFresh(w) ==
  /\ d[w].pc = "get"
  /\ \E n \in First(d[w].todo) :
       IF rows[n].status = "scheduled"
         THEN /\ d' = [d EXCEPT ![w].pc = "send", ![w].item = n, ![w].copy = rows[n]]
              /\ TakeUp(w, n)
         ELSE Continue(w, d[w].todo \ {n}) /\ UNCHANGED ghosts
  /\ UNCHANGED <<rows, gsi4, clock, copies>>

GetFails(w) ==
  /\ "read" \in Faults
  /\ d[w].pc = "get"
  /\ \E n \in First(d[w].todo) : Continue(w, d[w].todo \ {n})
  /\ UNCHANGED <<rows, gsi4, clock, copies, ghosts>>

\* dispatchOne: the customer is read and the message handed to the provider.
Send(w) ==
  /\ d[w].pc = "send"
  /\ d[w].copy.channel = "whatsapp"
  /\ Deliver(d[w].item)
  /\ d' = [d EXCEPT ![w].pc = "sent"]
  /\ UNCHANGED <<rows, gsi4, clock, ghosts>>

\* Mutant of SendFails: the error of dispatchOne is dropped.
SendFailsUnseen(w) ==
  /\ d[w].pc = "send"
  /\ d[w].copy.channel # "whatsapp" \/ "reject" \in Faults
  /\ d' = [d EXCEPT ![w].pc = "sent"]
  /\ UNCHANGED <<rows, gsi4, clock, copies, ghosts>>

SendFails(w) ==
  /\ d[w].pc = "send"
  /\ d[w].copy.channel # "whatsapp" \/ "reject" \in Faults
  /\ d' = [d EXCEPT ![w].pc = "failed"]
  /\ UNCHANGED <<rows, gsi4, clock, copies, ghosts>>

SendLost(w) ==
  /\ "lost" \in Faults
  /\ d[w].pc = "send"
  /\ d[w].copy.channel = "whatsapp"
  /\ Deliver(d[w].item)
  /\ d' = [d EXCEPT ![w].pc = "failed"]
  /\ UNCHANGED <<rows, gsi4, clock, ghosts>>

\* Save: the copy, with its new status, replaces the row.
Save(w) ==
  /\ d[w].pc \in {"sent", "failed"}
  /\ PutRow(d[w].item, [d[w].copy EXCEPT !.status = d[w].pc])
  /\ Skip(w)
  /\ UNCHANGED <<clock, copies, ghosts>>

\* After a message that was sent the call ends with the error; after one that
\* failed the error is dropped.
SaveFails(w) ==
  /\ "save" \in Faults
  /\ \/ d[w].pc = "sent" /\ Continue(w, {})
     \/ d[w].pc = "failed" /\ Skip(w)
  /\ GiveUp(w)
  /\ UNCHANGED <<rows, gsi4, clock, copies>>

\* Mutant of SaveLost: the error of a save is recorded as a failure.
SaveLostThenFailed(w) ==
  /\ "save" \in Faults
  /\ d[w].pc = "sent"
  /\ PutRow(d[w].item, [d[w].copy EXCEPT !.status = "sent"])
  /\ d' = [d EXCEPT ![w].pc = "failed"]
  /\ UNCHANGED <<clock, copies, ghosts>>

\* The error of a save that took effect: the call ends all the same.
SaveLost(w) ==
  /\ "save" \in Faults
  /\ d[w].pc = "sent"
  /\ PutRow(d[w].item, [d[w].copy EXCEPT !.status = "sent"])
  /\ Continue(w, {})
  /\ UNCHANGED <<clock, copies, ghosts>>

-----------------------------------------------------------------------------
(* The environment *)

Kill(w) ==
  /\ "kill" \in Faults
  /\ d[w].pc # "idle"
  /\ Continue(w, {})
  /\ GiveUp(w)
  /\ UNCHANGED <<rows, gsi4, clock, copies>>

Replicate(n) ==
  /\ gsi4[n] # rows[n]
  /\ gsi4' = [gsi4 EXCEPT ![n] = rows[n]]
  /\ UNCHANGED <<rows, clock, copies, d, ghosts>>

Tick ==
  /\ clock < Horizon
  /\ clock' = clock + 1
  /\ UNCHANGED <<rows, gsi4, copies, d, ghosts>>

\* A dispatcher goes on, or a new call is made.
Proceed(w) ==
  \/ ListDue(w) \/ GetFresh(w) \/ Send(w) \/ SendFails(w) \/ SendLost(w)
  \/ Save(w)

Next ==
  \/ \E n \in Notif, at \in Instant, ch \in Channel : Create(n, at, ch)
  \/ \E w \in Dispatcher :
       Proceed(w) \/ GetFails(w) \/ SaveFails(w) \/ SaveLost(w) \/ Kill(w)
  \/ \E n \in Notif : Replicate(n)
  \/ Tick

Spec == Init /\ [][Next]_vars

\* DispatchDue is called again and again and gets on, and GSI4 catches up.
FairSpec ==
  /\ Spec
  /\ \A w \in Dispatcher : WF_vars(Proceed(w))
  /\ \A n \in Notif : WF_vars(Replicate(n))

-----------------------------------------------------------------------------
(* Properties *)

(***************************************************************************)
(* Every variable has its type.                                            *)
(***************************************************************************)
TypeOK ==
  /\ rows   \in [Notif -> Notification \cup {Nil}]
  /\ gsi4   \in [Notif -> Notification \cup {Nil}]
  /\ clock  \in 0 .. Horizon
  /\ copies \in [Notif -> 0 .. 2]
  /\ d      \in [Dispatcher -> Run]
  /\ contested \subseteq Notif
  /\ unsaved   \subseteq Notif

(***************************************************************************)
(* Nothing is marked as sent that the provider did not take, with racing   *)
(* dispatchers, any of them failing or killed at any call (DispatchDue     *)
(* saves sent only after dispatchOne has returned).                        *)
(***************************************************************************)
SentWasDelivered ==
  \A n \in Notif : rows[n] # Nil /\ rows[n].status = "sent" => copies[n] > 0

(***************************************************************************)
(* No customer gets a message twice, but for two reasons: two dispatchers  *)
(* were at the notification together (nothing claims a row), or one that   *)
(* had handed the message over was killed or failed before it saved.  The  *)
(* index that trails is none of them: DispatchDue reads a row again before *)
(* it sends.  Neither is the answer the provider or the table loses.       *)
(***************************************************************************)
AtMostOnce == \A n \in Notif : copies[n] > 1 => n \in contested \cup unsaved

(***************************************************************************)
(* A settled row stays as it is, what was sent is never recorded as failed *)
(* afterwards nor the other way round, unless two dispatchers were at the  *)
(* notification together: Save replaces the row without looking.           *)
(***************************************************************************)
Settled(n) == rows[n] # Nil /\ rows[n].status # "scheduled"

SettledSticks ==
  [][\A n \in Notif \ contested : Settled(n) => rows'[n] = rows[n]]_vars

(***************************************************************************)
(* No customer gets a message twice, whatever races and fails.             *)
(***************************************************************************)
OneMessageEach == \A n \in Notif : copies[n] <= 1

(***************************************************************************)
(* Every notification that is due is sent or fails: settled rows leave the *)
(* due queue, so that they never fill the list and hide those behind them. *)
(***************************************************************************)
DueIsSettled ==
  \A n \in Notif :
    (rows[n] # Nil /\ rows[n].status = "scheduled" /\ rows[n].at <= clock)
      ~> Settled(n)

(***************************************************************************)
(* A message the provider did not take is tried again                      *)
(* (IMPLEMENTATION_PLAN.md: "handle retries + DLQ").                       *)
(***************************************************************************)
FailedIsRetried ==
  \A n \in Notif :
    (rows[n] # Nil /\ rows[n].status = "failed" /\ rows[n].channel = "whatsapp")
      ~> (rows[n] # Nil /\ rows[n].status # "failed")
=============================================================================

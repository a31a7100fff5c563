------------------------------ MODULE Bookings ------------------------------
(***************************************************************************)
(* The booking service (internal/app/bookings/app.go) over its DynamoDB    *)
(* repository (internal/adapters/dynamo/booking_repo.go), as Lambda runs   *)
(* it: every request is a handler that makes one table call after another, *)
(* handlers of different requests interleave between calls, nothing locks  *)
(* the table for the length of a handler, and the Lambda timeout can kill  *)
(* a handler between any two calls.                                        *)
(*                                                                         *)
(* One action is one table call and the local work up to the next one.     *)
(* One tenant is modelled: every key of a booking request carries the      *)
(* tenant's partition key, so tenants do not share a row.                  *)
(***************************************************************************)
EXTENDS BookingDomain, FiniteSets

CONSTANTS
  Request,      \* requests, numbered in the order they arrive
  Key,          \* Idempotency-Key header values
  Ops,          \* the transition routes clients call
  PageSize,     \* items a page of the GSI1 query evaluates (100 in the code)
  MaxPages,     \* pages the overlap check reads at most (20 in the code)
  MaxInFlight,  \* bound: handlers running at once
  IndexLag,     \* whether GSI1 may trail the table
  Nil

ASSUME RequestAssumption == Request \subseteq Nat \ {0}
ASSUME OpsAssumption     == Ops \subseteq LifecycleOp
ASSUME PagingAssumption  == PageSize \in Nat \ {0} /\ MaxPages \in Nat \ {0}
ASSUME NilAssumption     == Nil \notin Booking /\ Nil \notin Key
ASSUME LagAssumption     == IndexLag \in BOOLEAN

\* The ULID a create generates is named after the request that generates it.
BookingId == Request

\* No booking id; idempotency rows hold ids only once they exist.
NoBooking == 0

VARIABLES
  bookings,   \* BOOKING rows: id -> booking, or Nil
  gsi1,       \* the GSI1 projection of those rows that queries read
  idem,       \* IDEMPOTENCY rows: key -> booking id, or NoBooking
  reminders,  \* reminder notifications created for each booking
  h           \* the handlers' local state

vars == <<bookings, gsi1, idem, reminders, h>>

\* Where a handler stands: the table call it makes next.
PC == {"idle", "page", "lookup", "write", "relookup", "replay", "remind",
       "load", "gate", "save", "done"}

\* What the client is told.  "lost": the last call took effect, but its
\* response did not arrive or the handler was killed, so the client gets an
\* error.
Reply == {"none", "created", "replayed", "ok", "lost", "conflict",
          "not_found", "error"}

Handler ==
  [pc    : PC,
   op    : {"none", "create"} \cup LifecycleOp,
   key   : Key \cup {Nil},
   id    : BookingId \cup {NoBooking},  \* the booking the request is about
   copy  : Booking \cup {Nil},          \* the *domain.Booking in memory
   page  : Nat,                         \* pages of the query read so far
   after : Int \X Int,                  \* LastEvaluatedKey of the last page
   clash : BOOLEAN,                     \* a candidate read so far overlaps
   reply : Reply]

IdleHandler ==
  [pc |-> "idle", op |-> "none", key |-> Nil, id |-> NoBooking, copy |-> Nil,
   page |-> 0, after |-> <<0, 0>>, clash |-> FALSE, reply |-> "none"]

Init ==
  /\ bookings  = [b \in BookingId |-> Nil]
  /\ gsi1      = [b \in BookingId |-> Nil]
  /\ idem      = [k \in Key |-> NoBooking]
  /\ reminders = [b \in BookingId |-> 0]
  /\ h         = [r \in Request |-> IdleHandler]

-----------------------------------------------------------------------------
(* Helpers of the handlers *)

InFlight == {r \in Request : h[r].pc \notin {"idle", "done"}}

\* Request r may reach the service now.
Arrives(r) ==
  /\ h[r].pc = "idle"
  /\ \A q \in Request : q < r => h[q].pc # "idle"
  /\ Cardinality(InFlight) < MaxInFlight

\* The steps of a handler's local state: it goes on to another call, is
\* answered, holds a row it read, turns into a replay of another booking, or
\* reads on in the index.
Goto(r, l)      == h' = [h EXCEPT ![r].pc = l]
Answer(r, a)    == h' = [h EXCEPT ![r].pc = "done", ![r].reply = a]
Hold(r, l, b)   == h' = [h EXCEPT ![r].pc = l, ![r].copy = b]
ReplayOf(r, b)  == h' = [h EXCEPT ![r].pc = "replay", ![r].id = b]
ReadOn(r, k, c) == h' = [h EXCEPT ![r].page = @ + 1, ![r].after = k, ![r].clash = c]

UnchangedTable == UNCHANGED <<bookings, gsi1, idem, reminders>>

\* PutItem on a booking row, with no condition.
PutBooking(b, c) ==
  /\ bookings' = [bookings EXCEPT ![b] = c]
  /\ gsi1' = IF IndexLag THEN gsi1 ELSE bookings'

-----------------------------------------------------------------------------
(* The overlap check: assertNoStaffOverlap over FindStaffCandidatesBefore. *)

\* Where an instant sorts in GSI1SK.  The sort key holds RFC3339Nano text, in
\* which "10:00:00.5Z" sorts before "10:00:00Z" because '.' < 'Z'.
TextOrder(t) == IF t % 2 = 0 THEN t + 1 ELSE t - 1

SortKey(b) == <<TextOrder(gsi1[b].start), b>>

KeyLess(p, q) == p[1] < q[1] \/ (p[1] = q[1] /\ p[2] < q[2])

\* The index items the next page starts from: start key up to the window's
\* end key, after the last evaluated key; bookings of every staff member.
Rest(r) ==
  {b \in BookingId :
     /\ gsi1[b] # Nil
     /\ TextOrder(gsi1[b].start) <= TextOrder(h[r].copy.end)
     /\ KeyLess(h[r].after, SortKey(b))}

Page(r) ==
  {b \in Rest(r) :
     Cardinality({c \in Rest(r) : KeyLess(SortKey(c), SortKey(b))}) < PageSize}

LastPage(r) == Page(r) = Rest(r) \/ h[r].page + 1 = MaxPages

\* The query returned a LastEvaluatedKey and the loop goes on.  DynamoDB may
\* return one after a full page that was the last.
MorePages(r) ==
  Cardinality(Page(r)) = PageSize /\ h[r].page + 1 < MaxPages

\* The filter on staff_id and the loop body of assertNoStaffOverlap, over the
\* pages read so far and this one.
Clash(r) ==
  \/ h[r].clash
  \/ \E b \in Page(r) \ {h[r].id} : Blocks(gsi1[b], h[r].copy)

\* Mutant of NextPage: neither the page count nor the start key moves on.
NextPageForgotten(r) ==
  h[r].pc = "page" /\ MorePages(r) /\ UNCHANGED vars

NextPage(r) ==
  /\ h[r].pc = "page"
  /\ MorePages(r)
  /\ \E b \in Page(r) :
       /\ \A c \in Page(r) \ {b} : KeyLess(SortKey(c), SortKey(b))
       /\ ReadOn(r, SortKey(b), Clash(r))
  /\ UnchangedTable

RejectOverlap(r) ==
  /\ h[r].pc = "page"
  /\ LastPage(r)
  /\ Clash(r)
  /\ Answer(r, "conflict")
  /\ UnchangedTable

AcceptSlot(r) ==
  /\ h[r].pc = "page"
  /\ LastPage(r)
  /\ ~Clash(r)
  /\ Goto(r, IF h[r].op = "create" THEN "lookup" ELSE "gate")
  /\ UnchangedTable

-----------------------------------------------------------------------------
(* CreateBooking *)

\* Validation and the customer and service reads only end in an error, which
\* Fail covers; s, t0 and t1 are the window they resolve to.
ArriveCreate(r, k, s, t0, t1) ==
  /\ Arrives(r)
  /\ t0 < t1
  /\ h' = [h EXCEPT ![r] = [IdleHandler EXCEPT
             !.pc = "page", !.op = "create", !.key = k, !.id = r,
             !.copy = [staff |-> s, start |-> t0, end |-> t1,
                       status |-> "created"]]]
  /\ UnchangedTable

\* The idempotency lookup before the transaction, and after it was cancelled.
LookupKey(r) ==
  /\ h[r].pc = "lookup"
  /\ IF idem[h[r].key] = NoBooking
       THEN Goto(r, "write")
       ELSE ReplayOf(r, idem[h[r].key])
  /\ UnchangedTable

\* Mutant of WriteBooking: two puts, and the second can fail.
WriteInTwoPuts(r) ==
  /\ h[r].pc = "write"
  /\ idem[h[r].key] = NoBooking
  /\ idem' = [idem EXCEPT ![h[r].key] = r]
  /\ \/ PutBooking(r, h[r].copy) /\ Goto(r, "remind")
     \/ UNCHANGED <<bookings, gsi1>> /\ Answer(r, "error")
  /\ UNCHANGED reminders

\* Mutant of WriteBooking: no condition on the idempotency row.
WriteWithoutCondition(r) ==
  /\ h[r].pc = "write"
  /\ idem' = [idem EXCEPT ![h[r].key] = r]
  /\ PutBooking(r, h[r].copy)
  /\ Goto(r, "remind")
  /\ UNCHANGED reminders

\* TransactWriteItems: idempotency row and booking row, both or neither, each
\* only if it does not exist.
WriteBooking(r) ==
  /\ h[r].pc = "write"
  /\ idem[h[r].key] = NoBooking
  /\ bookings[r] = Nil
  /\ idem' = [idem EXCEPT ![h[r].key] = r]
  /\ PutBooking(r, h[r].copy)
  /\ Goto(r, "remind")
  /\ UNCHANGED reminders

WriteCancelled(r) ==
  /\ h[r].pc = "write"
  /\ idem[h[r].key] # NoBooking \/ bookings[r] # Nil
  /\ Goto(r, "relookup")
  /\ UnchangedTable

RelookupKey(r) ==
  /\ h[r].pc = "relookup"
  /\ IF idem[h[r].key] = NoBooking
       THEN Answer(r, "error")
       ELSE ReplayOf(r, idem[h[r].key])
  /\ UnchangedTable

\* Mutant of ReplayBooking: the created hook runs on a replay too.
ReplayReminds(r) ==
  h[r].pc = "replay" /\ Goto(r, "remind") /\ UnchangedTable

\* Mutant of ReplayBooking: the replay reports created = true.
ReplayAsCreated(r) ==
  h[r].pc = "replay" /\ Answer(r, "created") /\ UnchangedTable

ReplayBooking(r) ==
  /\ h[r].pc = "replay"
  /\ IF bookings[h[r].id] = Nil
       THEN Answer(r, "not_found")
       ELSE Answer(r, "replayed")
  /\ UnchangedTable

\* sink().BookingCreated: one reminder is created, or its error is dropped.
Remind(r) ==
  /\ h[r].pc = "remind"
  /\ \/ reminders' = [reminders EXCEPT ![h[r].id] = @ + 1]
     \/ UNCHANGED reminders
  /\ \E a \in {"created", "lost"} : Answer(r, a)
  /\ UNCHANGED <<bookings, gsi1, idem>>

-----------------------------------------------------------------------------
(* ConfirmBooking, CancelBooking, CompleteBooking, NoShowBooking *)

ArriveLifecycle(r, op, b) ==
  /\ Arrives(r)
  /\ h' = [h EXCEPT ![r] = [IdleHandler EXCEPT
             !.pc = "load", !.op = op, !.id = b]]
  /\ UnchangedTable

LoadMissing(r) ==
  /\ h[r].pc = "load"
  /\ bookings[h[r].id] = Nil
  /\ Answer(r, "not_found")
  /\ UnchangedTable

\* Mutant of Load: confirm does not check for overlaps again.
LoadNoRecheck(r) ==
  /\ h[r].pc = "load"
  /\ bookings[h[r].id] # Nil
  /\ Hold(r, IF h[r].op = "confirm" THEN "gate" ELSE "save", bookings[h[r].id])
  /\ UnchangedTable

\* Mutant of Load: the routes other than confirm do not look at the status.
LoadUnchecked(r) ==
  /\ h[r].pc = "load"
  /\ bookings[h[r].id] # Nil
  /\ Hold(r, IF h[r].op = "confirm" THEN "page" ELSE "save", bookings[h[r].id])
  /\ UnchangedTable

\* Get; only confirm makes further calls before it looks at the status.
Load(r) ==
  /\ h[r].pc = "load"
  /\ bookings[h[r].id] # Nil
  /\ LET b == bookings[h[r].id]
         legal == b.status \in From[h[r].op]
     IN  \/ h[r].op = "confirm" /\ Hold(r, "page", b)
         \/ h[r].op # "confirm" /\ legal /\ Hold(r, "save", b)
         \/ h[r].op # "confirm" /\ ~legal /\ Answer(r, "conflict")
  /\ UnchangedTable

\* confirmPaymentGate, then Confirm on the copy; paid says whether the payments
\* read from GSI3 satisfy the policy for the service's price.
ConfirmGate(r, paid) ==
  /\ h[r].pc = "gate"
  /\ IF paid /\ h[r].copy.status \in From["confirm"]
       THEN Goto(r, "save")
       ELSE Answer(r, "conflict")
  /\ UnchangedTable

\* Save: the copy, with the status its transition method set, replaces the row.
Save(r) ==
  /\ h[r].pc = "save"
  /\ PutBooking(h[r].id, [h[r].copy EXCEPT !.status = To[h[r].op]])
  /\ \E a \in {"ok", "lost"} : Answer(r, a)
  /\ UNCHANGED <<idem, reminders>>

-----------------------------------------------------------------------------
(* The environment *)

\* A validation, a read or a write without effect fails, or the Lambda timeout
\* kills the handler: the client gets an error.
Fail(r) ==
  /\ h[r].pc \notin {"idle", "done"}
  /\ Answer(r, "error")
  /\ UnchangedTable

\* DynamoDB brings one item of the index up to date.
Replicate(b) ==
  /\ gsi1[b] # bookings[b]
  /\ gsi1' = [gsi1 EXCEPT ![b] = bookings[b]]
  /\ UNCHANGED <<bookings, idem, reminders, h>>

\* Every request has been answered; the model stops here.
AllAnswered ==
  /\ \A r \in Request : h[r].pc = "done"
  /\ UNCHANGED vars

Arrive(r) ==
  \/ \E k \in Key, s \in Staff, t0, t1 \in Instant : ArriveCreate(r, k, s, t0, t1)
  \/ \E op \in Ops, b \in BookingId : ArriveLifecycle(r, op, b)

Step(r) ==
  \/ NextPage(r) \/ RejectOverlap(r) \/ AcceptSlot(r)
  \/ LookupKey(r) \/ WriteBooking(r) \/ WriteCancelled(r)
  \/ RelookupKey(r) \/ ReplayBooking(r) \/ Remind(r)
  \/ LoadMissing(r) \/ Load(r) \/ Save(r)
  \/ \E paid \in BOOLEAN : ConfirmGate(r, paid)

Next ==
  \/ \E r \in Request : Arrive(r) \/ Step(r) \/ Fail(r)
  \/ \E b \in BookingId : Replicate(b)
  \/ AllAnswered

Spec == Init /\ [][Next]_vars

\* A handler that has begun makes its next call, unless it is killed.
Fairness == \A r \in Request : WF_vars(Step(r))

FairSpec == Spec /\ Fairness

-----------------------------------------------------------------------------
(* Properties *)

(***************************************************************************)
(* Every variable has its type: rows, index items and handler copies are   *)
(* bookings with one of the five statuses.                                 *)
(***************************************************************************)
TypeOK ==
  /\ bookings  \in [BookingId -> Booking \cup {Nil}]
  /\ gsi1      \in [BookingId -> Booking \cup {Nil}]
  /\ idem      \in [Key -> BookingId \cup {NoBooking}]
  /\ reminders \in [BookingId -> Nat]
  /\ h         \in [Request -> Handler]

(***************************************************************************)
(* The idempotency rows and the booking rows stay in step at every moment, *)
(* whatever handlers race or are killed: a bound key names a stored        *)
(* booking, and every stored booking is named by exactly one key (the      *)
(* transaction of CreateIfNotExistsWithIdempotency).                       *)
(***************************************************************************)
KeysMatchBookings ==
  /\ \A k \in Key : idem[k] # NoBooking => bookings[idem[k]] # Nil
  /\ \A b \in BookingId : bookings[b] # Nil => \E k \in Key : idem[k] = b
  /\ \A j, k \in Key : idem[j] = idem[k] /\ idem[j] # NoBooking => j = k

ToldBooking(r) == h[r].reply \in {"created", "replayed"}

(***************************************************************************)
(* Retries are safe: all creates with one key that are answered with a     *)
(* booking are answered with the same one, also when they ran at the same  *)
(* time, and at most one of them is told 201 created (CreateBooking and    *)
(* CreateIfNotExistsWithIdempotency).                                      *)
(***************************************************************************)
SameKeySameBooking ==
  \A q, r \in Request :
    ToldBooking(q) /\ ToldBooking(r) /\ h[q].key = h[r].key =>
      /\ h[q].id = h[r].id
      /\ h[q].reply = "created" /\ h[r].reply = "created" => q = r

(***************************************************************************)
(* A customer is never reminded twice of one booking, and never of a       *)
(* booking that is not stored: only the create that made the row schedules *)
(* the reminder, however often it is retried (app.go, "if created").       *)
(***************************************************************************)
RemindedOnce ==
  \A b \in BookingId :
    reminders[b] > 0 => reminders[b] = 1 /\ bookings[b] # Nil

EverConfirmed(b) == b.status \in {"confirmed", "completed", "no_show"}

PassedGate(b) ==
  \E r \in Request : h[r].op = "confirm" /\ h[r].id = b /\ h[r].reply \in {"ok", "lost"}

(***************************************************************************)
(* A booking is confirmed, or was and is now completed or a no-show, only  *)
(* if some confirm request on it got past the overlap check and the        *)
(* payment gate and was saved, in whatever order the five routes' saves    *)
(* overwrote each other.                                                   *)
(***************************************************************************)
ConfirmedPassedGate ==
  \A b \in BookingId :
    bookings[b] # Nil /\ EverConfirmed(bookings[b]) => PassedGate(b)

(***************************************************************************)
(* Every request is answered: paging through the index ends although new   *)
(* bookings keep arriving, and no handler waits for another one.  Since    *)
(* each request arrives once, this is to say that some day none is under   *)
(* way.                                                                    *)
(***************************************************************************)
EveryRequestAnswered ==
  <>[](\A r \in Request : h[r].pc \in {"idle", "done"})

(***************************************************************************)
(* A create whose key already names a booking is answered with it and      *)
(* never rejected (app.go: "persists a booking or replays an idempotent    *)
(* create").                                                               *)
(***************************************************************************)
ReplayNotRejected ==
  [][\A r \in Request :
       h[r].op = "create" /\ h[r].reply = "none" /\ h'[r].reply = "conflict"
         => idem[h[r].key] = NoBooking]_vars

(***************************************************************************)
(* No staff member is reserved twice at one time (IMPLEMENTATION_PLAN.md:  *)
(* "Two clients cannot claim the same staff slot").                        *)
(***************************************************************************)
NoDoubleBooking ==
  \A b, d \in BookingId :
    b # d /\ bookings[b] # Nil /\ bookings[d] # Nil /\ Reserves(bookings[d].status)
      => ~Blocks(bookings[b], bookings[d])

(***************************************************************************)
(* A booking only moves along its lifecycle (PLANNING.md: "allowed state   *)
(* transitions only").                                                     *)
(***************************************************************************)
LegalTransitions ==
  [][\A b \in BookingId :
       bookings[b] # Nil /\ bookings'[b] # bookings[b]
         => LegalMove(bookings[b], bookings'[b])]_vars

-----------------------------------------------------------------------------
(* What the create promises, and how its state maps to it. *)

Idempotent == INSTANCE IdempotentCreate WITH
  Unbound <- NoBooking,
  NoKey   <- Nil,
  ledger  <- idem,
  asked   <- [r \in Request |-> h[r].key],
  answer  <- [r \in Request |->
                IF ToldBooking(r)
                  THEN [id |-> h[r].id, created |-> h[r].reply = "created"]
                  ELSE [id |-> NoBooking, created |-> FALSE]]

(***************************************************************************)
(* The stepwise create implements the atomic idempotent create: a key is   *)
(* bound once and for ever, and only its creator is told it was created.   *)
(***************************************************************************)
ImplementsIdempotentCreate == Idempotent!Spec
=============================================================================

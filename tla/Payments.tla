------------------------------ MODULE Payments ------------------------------
(***************************************************************************)
(* The payment service (internal/app/payments/app.go) over its DynamoDB    *)
(* repository (internal/adapters/dynamo/payment_repo.go): POST /payments,  *)
(* and the provider's webhook.  As in Bookings, one action is one table    *)
(* call and the local work up to the next, and handlers interleave.        *)
(*                                                                         *)
(* Whether a booking accepts payments is the booking service's business;   *)
(* here the variable payable changes freely, and BookingPayments puts the  *)
(* booking rows in its place.                                              *)
(***************************************************************************)
EXTENDS Naturals

CONSTANTS
  PayRequest,      \* requests and webhook deliveries, numbered as they arrive
  PayKey,          \* Idempotency-Key header values
  BookingId,
  Kinds,           \* the payment kinds clients ask for
  Amount,          \* amounts of money, as the text they are compared by
  PayMaxInFlight,  \* bound: successive requests running at once
  IndexLag,        \* whether GSI3 may trail the table
  Signed,          \* whether PAYMENT_WEBHOOK_SECRET is set: it is optional
  Nil

ASSUME PayRequestAssumption == PayRequest \subseteq Nat \ {0}
ASSUME PayLagAssumption     == IndexLag \in BOOLEAN
ASSUME PaySignedAssumption  == Signed \in BOOLEAN

VARIABLES
  payable,   \* bookings that accept payments now
  payments,  \* PAYMENT rows: id -> payment, or Nil
  gsi3,      \* the GSI3 projection of those rows that queries read
  payIdem,   \* IDEMPOTENCY#PAY rows: key -> payment id, or NoPayment
  settled,   \* what the provider knows of each payment
  strays,    \* history: statuses webhooks gave a payment that the provider had not
  p          \* the handlers' local state

vars == <<payable, payments, gsi3, payIdem, settled, strays, p>>

Kind == {"deposit", "full", "balance"}

ASSUME KindsAssumption == Kinds \subseteq Kind

Status == {"pending", "succeeded", "failed", "refunded"}

Payment == [booking: BookingId, kind: Kind, amount: Amount, status: Status]

ASSUME PayNilAssumption ==
  Nil \notin Payment /\ Nil \notin PayKey /\ Nil \notin Status

\* The ULID of a payment is named after the request that generates it.
PaymentId == PayRequest

NoPayment == 0

\* Where a handler stands: the table call it makes next.
PC == {"idle", "booking", "lookup", "write", "relookup", "replay", "respond",
       "load", "save", "done"}

\* "lost": the last call took effect, but the client was not told.
Reply == {"none", "created", "replayed", "ok", "lost", "invalid",
          "not_found", "error"}

Handler ==
  [pc     : PC,
   op     : {"none", "create", "webhook"},
   key    : PayKey \cup {Nil},
   id     : PaymentId \cup {NoPayment},  \* the payment the request is about
   copy   : Payment \cup {Nil},          \* the *domain.Payment in memory
   status : Status \cup {Nil},           \* the status a webhook delivers
   reply  : Reply]

IdleHandler ==
  [pc |-> "idle", op |-> "none", key |-> Nil, id |-> NoPayment, copy |-> Nil,
   status |-> Nil, reply |-> "none"]

\* payable belongs to the booking service and starts out empty there.
Init ==
  /\ payable  = {}
  /\ payments = [i \in PaymentId |-> Nil]
  /\ gsi3     = [i \in PaymentId |-> Nil]
  /\ payIdem  = [k \in PayKey |-> NoPayment]
  /\ settled  = [i \in PaymentId |-> "pending"]
  /\ strays   = [i \in PaymentId |-> {}]
  /\ p        = [r \in PayRequest |-> IdleHandler]

-----------------------------------------------------------------------------
(* Helpers of the handlers *)

\* Request r may reach the service now.
Arrives(r) ==
  /\ p[r].pc = "idle"
  /\ \A q \in PayRequest :
       /\ q < r => p[q].pc # "idle"
       /\ q + PayMaxInFlight <= r => p[q].pc = "done"

Goto(r, l)     == p' = [p EXCEPT ![r].pc = l]
Answer(r, a)   == p' = [p EXCEPT ![r].pc = "done", ![r].reply = a]
ReplayOf(r, i) == p' = [p EXCEPT ![r].pc = "replay", ![r].id = i]
Hold(r, c)     == p' = [p EXCEPT ![r].pc = "save", ![r].copy = c]

UnchangedTable == UNCHANGED <<payments, gsi3, payIdem, settled, strays>>

\* PutItem on a payment row, with no condition.
PutPayment(i, c) ==
  /\ payments' = [payments EXCEPT ![i] = c]
  /\ gsi3' = IF IndexLag THEN gsi3 ELSE payments'

-----------------------------------------------------------------------------
(* CreatePayment *)

ArrivePayment(r, k, b, kind, amount) ==
  /\ Arrives(r)
  /\ p' = [p EXCEPT ![r] = [IdleHandler EXCEPT
             !.pc = "booking", !.op = "create", !.key = k, !.id = r,
             !.copy = [booking |-> b, kind |-> kind, amount |-> amount,
                       status |-> "pending"]]]
  /\ UnchangedTable

\* Bookings.Get and the check of its status: 404 if there is no such booking,
\* 422 if it is over; otherwise the provider opens a checkout session for the
\* new id, which leaves nothing behind here.
ReadBooking(r) ==
  /\ p[r].pc = "booking"
  /\ IF p[r].copy.booking \in payable
       THEN Goto(r, "lookup")
       ELSE \E a \in {"not_found", "invalid"} : Answer(r, a)
  /\ UnchangedTable

LookupKey(r) ==
  /\ p[r].pc = "lookup"
  /\ IF payIdem[p[r].key] = NoPayment
       THEN Goto(r, "write")
       ELSE ReplayOf(r, payIdem[p[r].key])
  /\ UnchangedTable

\* Mutant of WritePayment: no condition on the idempotency row.
WriteWithoutCondition(r) ==
  /\ p[r].pc = "write"
  /\ payIdem' = [payIdem EXCEPT ![p[r].key] = r]
  /\ PutPayment(r, p[r].copy)
  /\ Goto(r, "respond")
  /\ UNCHANGED <<settled, strays>>

\* TransactWriteItems: idempotency row and payment row, both or neither, each
\* only if it does not exist.
WritePayment(r) ==
  /\ p[r].pc = "write"
  /\ payIdem[p[r].key] = NoPayment
  /\ payments[r] = Nil
  /\ payIdem' = [payIdem EXCEPT ![p[r].key] = r]
  /\ PutPayment(r, p[r].copy)
  /\ Goto(r, "respond")
  /\ UNCHANGED <<settled, strays>>

WriteCancelled(r) ==
  /\ p[r].pc = "write"
  /\ payIdem[p[r].key] # NoPayment \/ payments[r] # Nil
  /\ Goto(r, "relookup")
  /\ UnchangedTable

RespondCreated(r) ==
  /\ p[r].pc = "respond"
  /\ Answer(r, "created")
  /\ UnchangedTable

RelookupKey(r) ==
  /\ p[r].pc = "relookup"
  /\ IF payIdem[p[r].key] = NoPayment
       THEN Answer(r, "error")
       ELSE ReplayOf(r, payIdem[p[r].key])
  /\ UnchangedTable

ReplayPayment(r) ==
  /\ p[r].pc = "replay"
  /\ Answer(r, IF payments[p[r].id] = Nil THEN "not_found" ELSE "replayed")
  /\ UnchangedTable

-----------------------------------------------------------------------------
(* RecordWebhook *)

\* The statuses the provider has reported of a payment, oldest first as far
\* as there is an order.
Reported(i) ==
  {"pending"} \cup (IF settled[i] = "refunded" THEN {"succeeded", "refunded"}
                                               ELSE {settled[i]})

\* What a webhook about payment i may say.  The provider delivers each report at
\* least once, late or out of order, and knows the payments that a create opened
\* a session for.  The route compares the body with a signature only if the
\* secret is set; otherwise it takes any of the statuses for any id.
Accepts(i, st) ==
  Signed => p[i].op = "create" /\ st \in Reported(i)

ArriveWebhook(r, i, st) ==
  /\ Arrives(r)
  /\ Accepts(i, st)
  /\ strays' = [strays EXCEPT ![i] = @ \cup ({st} \ Reported(i))]
  /\ p' = [p EXCEPT ![r] = [IdleHandler EXCEPT
             !.pc = "load", !.op = "webhook", !.id = i, !.status = st]]
  /\ UNCHANGED <<payments, gsi3, payIdem, settled>>

LoadPayment(r) ==
  /\ p[r].pc = "load"
  /\ IF payments[p[r].id] = Nil
       THEN Answer(r, "not_found")
       ELSE Hold(r, payments[p[r].id])
  /\ UnchangedTable

\* Mutant of SavePayment: whatever is delivered counts as a success.
SaveAsSucceeded(r) ==
  /\ p[r].pc = "save"
  /\ PutPayment(p[r].id, [p[r].copy EXCEPT !.status = "succeeded"])
  /\ Answer(r, "ok")
  /\ UNCHANGED <<payIdem, settled, strays>>

\* Mutant of SavePayment: the status is stored as the provider spells it.
SaveUnnormalised(r) ==
  /\ p[r].pc = "save"
  /\ PutPayment(p[r].id, [p[r].copy EXCEPT !.status = "SUCCEEDED"])
  /\ Answer(r, "ok")
  /\ UNCHANGED <<payIdem, settled, strays>>

\* Save: the copy, with the status delivered, replaces the row.
SavePayment(r) ==
  /\ p[r].pc = "save"
  /\ PutPayment(p[r].id, [p[r].copy EXCEPT !.status = p[r].status])
  /\ \E a \in {"ok", "lost"} : Answer(r, a)
  /\ UNCHANGED <<payIdem, settled, strays>>

-----------------------------------------------------------------------------
(* The environment *)

\* A validation, a read or a write without effect fails, or the Lambda timeout
\* kills the handler.
Fail(r) ==
  /\ p[r].pc \notin {"idle", "done"}
  /\ Answer(r, "error")
  /\ UnchangedTable

\* The customer pays, the payment fails, or it is refunded, at the provider.
Settle(i, st) ==
  /\ payments[i] # Nil
  /\ \/ settled[i] = "pending" /\ st \in {"succeeded", "failed"}
     \/ settled[i] = "succeeded" /\ st = "refunded"
  /\ settled' = [settled EXCEPT ![i] = st]
  /\ UNCHANGED <<payments, gsi3, payIdem, strays, p>>

Replicate(i) ==
  /\ gsi3[i] # payments[i]
  /\ gsi3' = [gsi3 EXCEPT ![i] = payments[i]]
  /\ UNCHANGED <<payments, payIdem, settled, strays, p>>

Arrive(r) ==
  \/ \E k \in PayKey, b \in BookingId, kind \in Kinds, a \in Amount :
       ArrivePayment(r, k, b, kind, a)
  \/ \E i \in PaymentId, st \in Status : ArriveWebhook(r, i, st)

Step(r) ==
  \/ ReadBooking(r) \/ LookupKey(r) \/ WritePayment(r) \/ WriteCancelled(r)
  \/ RespondCreated(r) \/ RelookupKey(r) \/ ReplayPayment(r)
  \/ LoadPayment(r) \/ SavePayment(r)

\* The payment service and the provider, payable aside.
PaymentNext ==
  \/ \E r \in PayRequest : Arrive(r) \/ Step(r) \/ Fail(r)
  \/ \E i \in PaymentId :
       Replicate(i) \/ \E st \in {"succeeded", "failed", "refunded"} : Settle(i, st)

\* A booking starts or stops accepting payments.
BookingChanges(b) ==
  /\ payable' = IF b \in payable THEN payable \ {b} ELSE payable \cup {b}
  /\ UNCHANGED <<payments, gsi3, payIdem, settled, strays, p>>

Next ==
  \/ PaymentNext /\ UNCHANGED payable
  \/ \E b \in BookingId : BookingChanges(b)

Spec == Init /\ [][Next]_vars

-----------------------------------------------------------------------------
(* Properties *)

(***************************************************************************)
(* Every variable has its type.                                            *)
(***************************************************************************)
TypeOK ==
  /\ payable  \subseteq BookingId
  /\ payments \in [PaymentId -> Payment \cup {Nil}]
  /\ gsi3     \in [PaymentId -> Payment \cup {Nil}]
  /\ payIdem  \in [PayKey -> PaymentId \cup {NoPayment}]
  /\ settled  \in [PaymentId -> Status]
  /\ strays   \in [PaymentId -> SUBSET Status]
  /\ p        \in [PayRequest -> Handler]

\* All that was ever said of payment i: by the provider, and by webhooks alone.
Evidence(i) == Reported(i) \cup strays[i]

(***************************************************************************)
(* A payment row or index item only ever shows a status that the provider  *)
(* has reported of that payment or that a webhook without a report gave    *)
(* that very payment, however webhooks are repeated, reordered and         *)
(* overwritten by each other (RecordWebhook saves the whole row it read).  *)
(* With a secret there are no such webhooks: strays stays empty.           *)
(***************************************************************************)
StatusWasReported ==
  \A i \in PaymentId :
    /\ payments[i] # Nil => payments[i].status \in Evidence(i)
    /\ gsi3[i] # Nil => gsi3[i].status \in Evidence(i)

(***************************************************************************)
(* Once a row shows what the provider settled it keeps showing it, until   *)
(* the provider settles anew (domain/payment.go: "PaymentStatus is the     *)
(* provider/settlement state").                                            *)
(***************************************************************************)
SettlementSticks ==
  [][\A i \in PaymentId :
       payments[i] # Nil /\ payments[i].status = settled[i] /\ settled'[i] = settled[i]
         => payments'[i].status = settled[i]]_vars

(***************************************************************************)
(* A create whose key already names a payment is answered with it and      *)
(* never rejected (openapi.yaml: "Unique key for safe retries on           *)
(* booking/payment creation").                                             *)
(***************************************************************************)
ReplayNotRejected ==
  [][\A r \in PayRequest :
       p[r].op = "create" /\ p[r].reply = "none" /\ p'[r].reply = "invalid"
         => payIdem[p[r].key] = NoPayment]_vars

ToldPayment(r) == p[r].reply \in {"created", "replayed"}

Idempotent == INSTANCE IdempotentCreate WITH
  Request <- PayRequest,
  Key     <- PayKey,
  Unbound <- NoPayment,
  NoKey   <- Nil,
  ledger  <- payIdem,
  asked   <- [r \in PayRequest |-> p[r].key],
  answer  <- [r \in PayRequest |->
                IF ToldPayment(r)
                  THEN [id |-> p[r].id, created |-> p[r].reply = "created"]
                  ELSE [id |-> NoPayment, created |-> FALSE]]

(***************************************************************************)
(* The stepwise create implements the atomic idempotent create: a key is   *)
(* bound once and for ever, and only its creator is told it was created.   *)
(***************************************************************************)
ImplementsIdempotentCreate == Idempotent!Spec
=============================================================================

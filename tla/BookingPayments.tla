-------------------------- MODULE BookingPayments --------------------------
(***************************************************************************)
(* Bookings and Payments over the one table, joined where they meet: a     *)
(* payment is created only for a booking whose row is still active, and a  *)
(* confirm looks at the payments of its booking, then at the price of the  *)
(* service, before it saves (confirmPaymentGate).                          *)
(***************************************************************************)
EXTENDS Bookings

CONSTANTS
  PayRequest, PayKey, Kinds, Amount, PayMaxInFlight,  \* see Payments
  PayIndexLag,  \* whether GSI3 may trail the table; IndexLag is about GSI1
  Signed,       \* whether the provider's webhooks are told from others
  NoPrice,      \* the price of a service that has none
  Price,        \* prices the catalog ever gives the service
  GateLimit     \* payments the gate reads at most (100 in the code)

ASSUME PriceAssumption == Price \subseteq Amount \cup {NoPrice}

VARIABLES
  payments, gsi3, payIdem, settled, strays, p,  \* see Payments
  price,    \* the price of the one service that is modelled
  prices,   \* history: every price it has had
  seen      \* request -> the payments its gate has read, or Nil

payVars     == <<payments, gsi3, payIdem, settled, strays, p>>
composeVars == <<vars, payVars, price, prices, seen>>

\* The bookings CreatePayment accepts are the active ones.
Active == {b \in BookingId : bookings[b] # Nil /\ Reserves(bookings[b].status)}

Pay == INSTANCE Payments WITH payable <- Active, IndexLag <- PayIndexLag

ASSUME ComposedAssumption ==
  /\ PayRequest \subseteq Nat \ {0}
  /\ PayIndexLag \in BOOLEAN /\ Signed \in BOOLEAN
  /\ Kinds \subseteq Pay!Kind
  /\ Nil \notin Pay!Payment /\ Nil \notin PayKey /\ Nil \notin Pay!Status

ComposedInit ==
  /\ Init /\ Pay!Init
  /\ price \in Price
  /\ prices = {price}
  /\ seen = [r \in Request |-> Nil]

\* Mutant of Satisfies: a pending payment counts.
SatisfiesPending(q, pr) ==
  /\ q.status \in {"pending", "succeeded"}
  /\ IF pr # NoPrice
       THEN q.kind = "full" /\ q.amount = pr
       ELSE q.kind \in {"full", "deposit"}

\* SucceededPaymentSatisfiesConfirm, for one payment.
Satisfies(q, pr) ==
  /\ q.status = "succeeded"
  /\ IF pr # NoPrice
       THEN q.kind = "full" /\ q.amount = pr
       ELSE q.kind \in {"full", "deposit"}

\* The payments of booking b that GSI3 shows, oldest first up to the limit.
ListByBooking(b) ==
  LET shown == {i \in PayRequest : gsi3[i] # Nil /\ gsi3[i].booking = b}
  IN  {gsi3[i] : i \in {j \in shown : Cardinality({k \in shown : k < j}) < GateLimit}}

-----------------------------------------------------------------------------
\* The gate's first read.
ReadPayments(r) ==
  /\ h[r].pc = "gate"
  /\ seen[r] = Nil
  /\ seen' = [seen EXCEPT ![r] = ListByBooking(h[r].id)]
  /\ UNCHANGED <<vars, payVars, price, prices>>

\* The gate's second read and its verdict; every other booking step is as in
\* Bookings.
BookingStep(r) ==
  /\ Step(r)
  /\ h[r].pc = "gate" =>
       /\ seen[r] # Nil
       /\ ConfirmGate(r, \E q \in seen[r] : Satisfies(q, price))
  /\ UNCHANGED <<payVars, price, prices, seen>>

\* Arrivals, failures and the index, as in Bookings.
BookingElse ==
  /\ \/ \E r \in Request : Arrive(r) \/ Fail(r)
     \/ \E b \in BookingId : Replicate(b)
     \/ AllAnswered
  /\ UNCHANGED <<payVars, price, prices, seen>>

PaymentStep ==
  /\ UNCHANGED <<vars, price, prices, seen>>
  /\ Pay!PaymentNext

\* The catalog's patch of the service.
PatchPrice(pr) ==
  /\ price' = pr
  /\ prices' = prices \cup {pr}
  /\ UNCHANGED <<vars, payVars, seen>>

ComposedNext ==
  \/ \E r \in Request : ReadPayments(r) \/ BookingStep(r)
  \/ BookingElse
  \/ PaymentStep
  \/ \E pr \in Price : PatchPrice(pr)

ComposedSpec == ComposedInit /\ [][ComposedNext]_composeVars

-----------------------------------------------------------------------------
(* Properties *)

\* A payment of booking b satisfied the policy for a price the service had, once
\* it was said to have succeeded: by the provider, which had settled it, or by a
\* webhook alone.
PaidOnce(b) ==
  \E i \in PayRequest, pr \in prices :
    /\ payments[i] # Nil
    /\ payments[i].booking = b
    /\ "succeeded" \in Pay!Evidence(i)
    /\ Satisfies([payments[i] EXCEPT !.status = "succeeded"], pr)

(***************************************************************************)
(* Nothing is confirmed for free: a booking that is confirmed, or was, has *)
(* a payment of its own that satisfied the policy for a price the service  *)
(* had and of which the provider reported that it succeeded (or, where no  *)
(* secret is set, a webhook that no report stands behind), with payments   *)
(* read from an index that trails, webhooks in any order, prices changing  *)
(* and handlers saving stale copies.                                       *)
(***************************************************************************)
ConfirmedWasPaid ==
  \A b \in BookingId :
    bookings[b] # Nil /\ EverConfirmed(bookings[b]) => PaidOnce(b)

(***************************************************************************)
(* In the moment a booking becomes confirmed its payments satisfy the      *)
(* policy for the service's price (IMPLEMENTATION_PLAN.md: "Booking can    *)
(* move to confirmed only when business rules + payment rules satisfied"). *)
(***************************************************************************)
ConfirmsWhilePaid ==
  [][\A b \in BookingId :
       /\ bookings[b] # Nil /\ bookings[b].status = "created"
       /\ bookings'[b].status = "confirmed"
       => \E i \in PayRequest :
            /\ payments[i] # Nil /\ payments[i].booking = b
            /\ Satisfies(payments[i], price)]_composeVars

(***************************************************************************)
(* Putting the components together takes nothing from either: the composed *)
(* system still implements the booking service with an arbitrary gate, and *)
(* the payment service with arbitrarily changing bookings.                 *)
(***************************************************************************)
ImplementsBookings == Spec
ImplementsPayments == Pay!Spec
=============================================================================

----------------------- MODULE BookingPaymentsProofs -----------------------
(***************************************************************************)
(* Machine-checked proofs about the composition of Bookings and Payments:  *)
(* it implements both, so what was proved of each holds in it, and no      *)
(* booking is confirmed without having been paid for.                      *)
(***************************************************************************)
EXTENDS BookingPayments, BookingsProofs

PayP == INSTANCE PaymentsProofs WITH payable <- Active, IndexLag <- PayIndexLag

-----------------------------------------------------------------------------
(* The components inside the composition *)

(***************************************************************************)
(* Every composed step is a step of the booking service or leaves it       *)
(* alone: the gate's verdict is one of those Bookings allows.              *)
(***************************************************************************)
THEOREM BookingsInside == ComposedSpec => ImplementsBookings
  <1>1. ComposedInit => Init
    BY DEF ComposedInit
  <1>2. [ComposedNext]_composeVars => [Next]_vars
    <2>1. ASSUME NEW r \in Request, ReadPayments(r) \/ BookingStep(r)
          PROVE  [Next]_vars
      BY <2>1 DEF ReadPayments, BookingStep, Next
    <2>2. CASE BookingElse
      BY <2>2 DEF BookingElse, Next
    <2>3. CASE PaymentStep \/ \E pr \in Price : PatchPrice(pr)
      BY <2>3 DEF PaymentStep, PatchPrice
    <2>4. CASE UNCHANGED composeVars
      BY <2>4 DEF composeVars
    <2> QED BY <2>1, <2>2, <2>3, <2>4 DEF ComposedNext
  <1> QED BY <1>1, <1>2, PTL DEF ComposedSpec, Spec, ImplementsBookings

(***************************************************************************)
(* A step of the booking service writes one booking row at most.           *)
(***************************************************************************)
LEMMA OneRowWritten ==
  ASSUME TypeInv, [Next]_vars
  PROVE  \E b \in BookingId \cup {NoBooking} :
           \A d \in BookingId \ {b} : bookings'[d] = bookings[d]
  <1> USE DEF TypeInv, TypeOK
  <1>1. ASSUME UNCHANGED bookings
        PROVE  \E b \in BookingId \cup {NoBooking} :
                 \A d \in BookingId \ {b} : bookings'[d] = bookings[d]
    BY <1>1
  <1>2. ASSUME NEW r \in Request, WriteBooking(r)
        PROVE  \A d \in BookingId \ {r} : bookings'[d] = bookings[d]
    BY <1>2 DEF WriteBooking, PutBooking
  <1>3. ASSUME NEW r \in Request, Save(r)
        PROVE  h[r].id \in BookingId /\ \A d \in BookingId \ {h[r].id} : bookings'[d] = bookings[d]
    BY <1>3 DEF Save, PutBooking, CopyInv
  <1>4. ASSUME NEW r \in Request, Step(r), ~WriteBooking(r), ~Save(r)
        PROVE  UNCHANGED bookings
    BY <1>4 DEF Step, NextPage, RejectOverlap, AcceptSlot, LookupKey, WriteCancelled,
                RelookupKey, ReplayBooking, Remind, LoadMissing, Load, ConfirmGate,
                UnchangedTable
  <1>5. CASE \E r \in Request : Step(r)
    BY <1>1, <1>2, <1>3, <1>4, <1>5 DEF BookingId
  <1>6. CASE ~\E r \in Request : Step(r)
    BY <1>1, <1>6 DEF Next, Arrive, ArriveCreate, ArriveLifecycle, Fail, Replicate,
                      AllAnswered, UnchangedTable, vars
  <1> QED BY <1>5, <1>6

(***************************************************************************)
(* The payment service that is composed is the one the proofs are about.   *)
(***************************************************************************)
LEMMA SamePayments == Pay!PaymentNext <=> PayP!PaymentNext
  BY DEF   Pay!PaymentNext, PayP!PaymentNext, Pay!Arrive, PayP!Arrive,
         Pay!ArrivePayment, PayP!ArrivePayment, Pay!ArriveWebhook,
         PayP!ArriveWebhook, Pay!Accepts, PayP!Accepts, Pay!Arrives, PayP!Arrives,
          Pay!Step, PayP!Step,
         Pay!ReadBooking, PayP!ReadBooking, Pay!LookupKey,
         PayP!LookupKey, Pay!WritePayment, PayP!WritePayment,
         Pay!WriteCancelled, PayP!WriteCancelled,
         Pay!RespondCreated, PayP!RespondCreated, Pay!RelookupKey,
         PayP!RelookupKey, Pay!ReplayPayment, PayP!ReplayPayment,
         Pay!LoadPayment, PayP!LoadPayment, Pay!SavePayment,
         PayP!SavePayment, Pay!Fail, PayP!Fail, Pay!Settle,
         PayP!Settle, Pay!Replicate, PayP!Replicate, Pay!Goto,
         PayP!Goto, Pay!Answer, PayP!Answer, Pay!ReplayOf,
         PayP!ReplayOf, Pay!Hold, PayP!Hold, Pay!UnchangedTable,
         PayP!UnchangedTable, Pay!PutPayment, PayP!PutPayment,
         Pay!PaymentId, PayP!PaymentId, Pay!NoPayment,
         PayP!NoPayment, Pay!IdleHandler, PayP!IdleHandler,
         Pay!Kind, PayP!Kind, Pay!Status, PayP!Status, Pay!Reported,
         PayP!Reported

(***************************************************************************)
(* What was said of a payment is the same to both.                         *)
(***************************************************************************)
LEMMA SameEvidence ==
  \A i \in PayRequest :
    PayP!Evidence(i) = Pay!Evidence(i) /\ PayP!Evidence(i)' = Pay!Evidence(i)'
  BY DEF Pay!Evidence, PayP!Evidence, Pay!Reported, PayP!Reported

(***************************************************************************)
(* Every composed step is a step of the payment service, a booking that    *)
(* starts or stops accepting payments, or nothing to it.                   *)
(***************************************************************************)
LEMMA PaymentsStep ==
  TypeInv /\ [ComposedNext]_composeVars => [PayP!Next]_(PayP!vars)
  <1> SUFFICES ASSUME TypeInv, [ComposedNext]_composeVars
               PROVE  [PayP!Next]_(PayP!vars)
    OBVIOUS
  <1>1. CASE PaymentStep
    BY <1>1, SamePayments DEF PaymentStep, PayP!Next, Active, vars
  <1>2. CASE \/ \E r \in Request : ReadPayments(r)
             \/ \E pr \in Price : PatchPrice(pr)
             \/ UNCHANGED composeVars
    BY <1>2 DEF ReadPayments, PatchPrice, composeVars, payVars, vars, PayP!vars, Active
  <1>3. ASSUME [Next]_vars, UNCHANGED payVars
        PROVE  [PayP!Next]_(PayP!vars)
    <2> PICK b \in BookingId \cup {NoBooking} :
           \A d \in BookingId \ {b} : bookings'[d] = bookings[d]
      BY <1>3, OneRowWritten
    <2>1. \A d \in BookingId \ {b} : d \in Active' <=> d \in Active
      BY DEF Active, Reserves
    <2>2. Active \subseteq BookingId /\ Active' \subseteq BookingId
      BY DEF Active, BookingId
    <2>3. CASE Active' = Active
      BY <1>3, <2>3 DEF PayP!vars, payVars
    <2>4. CASE Active' # Active
      <3>1. b \in BookingId
        BY <2>1, <2>2, <2>4
      <3>2. Active' = IF b \in Active THEN Active \ {b} ELSE Active \cup {b}
        BY <2>1, <2>2, <2>4
      <3> QED BY <1>3, <3>1, <3>2 DEF PayP!Next, PayP!BookingChanges, payVars
    <2> QED BY <2>3, <2>4
  <1>4. CASE BookingElse \/ \E r \in Request : BookingStep(r)
    BY <1>3, <1>4 DEF BookingElse, BookingStep, Next
  <1> QED BY <1>1, <1>2, <1>4 DEF ComposedNext

(***************************************************************************)
(* Neither service holds anything at first.                                *)
(***************************************************************************)
LEMMA PaymentsInit == ComposedInit => PayP!Init
  BY DEF ComposedInit, Init, Active, BookingId, Pay!Init, PayP!Init, Pay!PaymentId,
         PayP!PaymentId, Pay!NoPayment, PayP!NoPayment, Pay!IdleHandler, PayP!IdleHandler

(***************************************************************************)
(* What was proved of the booking service holds in the composition.        *)
(***************************************************************************)
THEOREM BookingInvariants == ComposedSpec => [](TypeInv /\ KeyInv /\ GateInv)
  BY BookingsInside, TypeInit, TypeNext, KeyInit, KeyNext, GateInit, GateNext,
     PTL DEF Spec, ImplementsBookings

(***************************************************************************)
(* What was proved of the payment service holds in the composition, where  *)
(* the booking rows decide which bookings may be paid for.                 *)
(***************************************************************************)
THEOREM PaymentInvariants == ComposedSpec => []PayP!PaymentInv
  <1>1. ComposedSpec => []TypeInv
    BY BookingInvariants, PTL
  <1>0. /\ PayRequest \subseteq Nat \ {0}
        /\ PayIndexLag \in BOOLEAN /\ Signed \in BOOLEAN
        /\ Kinds \subseteq PayP!Kind
        /\ Nil \notin PayP!Payment /\ Nil \notin PayKey /\ Nil \notin PayP!Status
    BY ComposedAssumption
       DEF Pay!Kind, PayP!Kind, Pay!Payment, PayP!Payment, Pay!Status, PayP!Status
  <1>2. ComposedInit => PayP!PaymentInv
    BY <1>0, PaymentsInit, PayP!PaymentInit
  <1>3. TypeInv /\ PayP!PaymentInv /\ [ComposedNext]_composeVars => PayP!PaymentInv'
    BY <1>0, PaymentsStep, PayP!PaymentNextInv
  <1> QED BY <1>1, <1>2, <1>3, PTL DEF ComposedSpec

-----------------------------------------------------------------------------
(* Confirmed bookings were paid for *)

\* A payment of booking b that looked like q, and was settled if q says so.
Backed(q, b) ==
  \E i \in PayRequest :
    /\ payments[i] # Nil /\ payments[i].booking = b
    /\ q.kind = payments[i].kind /\ q.amount = payments[i].amount
    /\ q.status = "succeeded" => "succeeded" \in PayP!Evidence(i)

(***************************************************************************)
(* What the gate has read is backed by payments of its booking, a confirm  *)
(* that is saved or about to be was paid for, and the current price is one *)
(* the service has had.                                                    *)
(***************************************************************************)
Confirms(r) ==
  h[r].op = "confirm" /\ (h[r].pc = "save" \/ h[r].reply \in {"ok", "lost"})

HandlerPaid(r) ==
  /\ seen[r] # Nil =>
       /\ h[r].pc # "idle" /\ h[r].op = "confirm"
       /\ \A q \in seen[r] : Backed(q, h[r].id)
  /\ Confirms(r) => PaidOnce(h[r].id)

PaidInv ==
  /\ seen \in [Request -> (SUBSET PayP!Payment) \cup {Nil}]
  /\ price \in prices
  /\ \A r \in Request : HandlerPaid(r)

(***************************************************************************)
(* A booking step keeps what its handler confirms, and passes the gate     *)
(* only in the gate's own step.                                            *)
(***************************************************************************)
LEMMA ConfirmSteps ==
  ASSUME TypeInv, NEW r \in Request, Step(r) \/ Fail(r)
  PROVE  /\ h[r].pc # "idle" /\ h'[r].pc # "idle"
         /\ h'[r].op = h[r].op
         /\ h[r].op = "confirm" => h'[r].id = h[r].id
         /\ h[r].pc # "gate" /\ Confirms(r)' => Confirms(r)
         /\ \A q \in Request \ {r} : h'[q] = h[q]
  <1> USE DEF TypeInv, TypeOK, Confirms
  <1>1. CASE NextPage(r)
    <2>1. PICK k, c : ReadOn(r, k, c)
      BY <1>1 DEF NextPage
    <2> QED BY <1>1, <2>1 DEF NextPage, ReadOn, Handler
  <1>2. CASE RejectOverlap(r) \/ ReplayBooking(r) \/ LoadMissing(r) \/ Fail(r)
    BY <1>2, AnswerFields DEF RejectOverlap, ReplayBooking, LoadMissing, Fail, Reply
  <1>3. CASE AcceptSlot(r) \/ WriteCancelled(r) \/ WriteBooking(r)
    BY <1>3, GotoFields DEF AcceptSlot, WriteCancelled, WriteBooking, PC
  <1>4. CASE LookupKey(r) \/ RelookupKey(r)
    <2>1. h[r].key \in Key /\ h[r].op = "create"
      BY <1>4 DEF LookupKey, RelookupKey, CopyInv
    <2>2. idem[h[r].key] # NoBooking => idem[h[r].key] \in BookingId
      BY <2>1
    <2> QED BY <1>4, <2>1, <2>2, GotoFields, ReplayOfFields, AnswerFields
            DEF LookupKey, RelookupKey, PC, Reply
  <1>5. CASE Remind(r)
    BY <1>5, AnswerFields DEF Remind, Reply, CopyInv
  <1>6. CASE Load(r)
    <2>1. bookings[h[r].id] \in Booking
      BY <1>6 DEF Load, CopyInv
    <2> QED BY <1>6, <2>1, HoldFields, AnswerFields DEF Load, PC, Reply
  <1>7. CASE Save(r)
    BY <1>7, AnswerFields DEF Save, Reply
  <1>8. CASE \E paid \in BOOLEAN : ConfirmGate(r, paid)
    BY <1>8, GotoFields, AnswerFields DEF ConfirmGate, PC, Reply
  <1> QED BY <1>1, <1>2, <1>3, <1>4, <1>5, <1>6, <1>7, <1>8 DEF Step

(***************************************************************************)
(* A stored payment stays stored with its money, what the provider settled *)
(* it does not take back, and a price it satisfied it still satisfies.     *)
(***************************************************************************)
LEMMA PaidStays ==
  ASSUME PayP!PaymentInv, PayP!RowsKept, PayP!TypeOK', NEW i \in PayRequest,
         payments[i] # Nil
  PROVE  /\ payments'[i] # Nil
         /\ payments'[i].booking = payments[i].booking
         /\ payments'[i].kind = payments[i].kind
         /\ payments'[i].amount = payments[i].amount
         /\ "succeeded" \in PayP!Evidence(i) => "succeeded" \in PayP!Evidence(i)'
         /\ \A pr : Satisfies([payments[i] EXCEPT !.status = "succeeded"], pr)
                      => Satisfies([payments'[i] EXCEPT !.status = "succeeded"], pr)
  <1>1. /\ payments'[i] # Nil
        /\ payments'[i].booking = payments[i].booking
        /\ payments'[i].kind = payments[i].kind
        /\ payments'[i].amount = payments[i].amount
        /\ "succeeded" \in PayP!Evidence(i) => "succeeded" \in PayP!Evidence(i)'
    BY DEF PayP!RowsKept, PayP!SameMoney, PayP!Reported, PayP!PaymentId, PayP!TypeOK, PayP!Status
  <1>2. payments[i] \in PayP!Payment /\ payments'[i] \in PayP!Payment
    BY <1>1 DEF PayP!PaymentInv, PayP!TypeInv, PayP!TypeOK, PayP!PaymentId
  <1>3. \A pr : Satisfies([payments[i] EXCEPT !.status = "succeeded"], pr)
                  => Satisfies([payments'[i] EXCEPT !.status = "succeeded"], pr)
    BY <1>1, <1>2 DEF Satisfies, PayP!Payment
  <1> QED BY <1>1, <1>3

(***************************************************************************)
(* Handler q's obligations are kept when q keeps its booking and stands no *)
(* closer to a saved confirm, or its booking was paid for.                 *)
(***************************************************************************)
LEMMA HandlerPaidKept ==
  ASSUME PayP!PaymentInv, PayP!RowsKept, PayP!TypeOK', prices \subseteq prices',
         NEW q \in Request, HandlerPaid(q), seen'[q] = seen[q],
         seen[q] # Nil =>
           h'[q].pc # "idle" /\ h'[q].op = "confirm" /\ h'[q].id = h[q].id,
         Confirms(q)' => h'[q].id = h[q].id /\ PaidOnce(h[q].id)
  PROVE  HandlerPaid(q)'
  <1>1. ASSUME seen[q] # Nil, NEW x \in seen[q]
        PROVE  Backed(x, h[q].id)'
    <2>1. Backed(x, h[q].id) /\ h'[q].id = h[q].id
      BY <1>1 DEF HandlerPaid
    <2>2. PICK i \in PayRequest :
            /\ payments[i] # Nil /\ payments[i].booking = h[q].id
            /\ x.kind = payments[i].kind /\ x.amount = payments[i].amount
            /\ x.status = "succeeded" => "succeeded" \in PayP!Evidence(i)
      BY <2>1 DEF Backed
    <2> QED BY <2>1, <2>2, PaidStays DEF Backed
  <1>2. ASSUME Confirms(q)'
        PROVE  PaidOnce(h[q].id)'
    <2>1. h'[q].id = h[q].id /\ PaidOnce(h[q].id)
      BY <1>2
    <2>2. PICK i \in PayRequest, pr \in prices :
            /\ payments[i] # Nil
            /\ payments[i].booking = h[q].id
            /\ "succeeded" \in PayP!Evidence(i)
            /\ Satisfies([payments[i] EXCEPT !.status = "succeeded"], pr)
      BY <2>1, SameEvidence DEF PaidOnce
    <2>3. pr \in prices'
      OBVIOUS
    <2>4. /\ payments'[i] # Nil /\ payments'[i].booking = h'[q].id
          /\ "succeeded" \in PayP!Evidence(i)'
          /\ Satisfies([payments'[i] EXCEPT !.status = "succeeded"], pr)
      BY <2>1, <2>2, PaidStays
    <2> QED BY <2>3, <2>4, SameEvidence DEF PaidOnce, Satisfies
  <1> QED BY <1>1, <1>2 DEF HandlerPaid

(***************************************************************************)
(* One handler moves on, and either it stands no closer to a saved confirm *)
(* than before or its booking was paid for: the invariant is kept.         *)
(***************************************************************************)
LEMMA PaidKept ==
  ASSUME PaidInv, PayP!PaymentInv, PayP!RowsKept, PayP!TypeOK', prices \subseteq prices',
         price' \in prices', seen' = seen, NEW r \in Request,
         \A q \in Request \ {r} : h'[q] = h[q],
         seen[r] # Nil =>
           h'[r].pc # "idle" /\ h'[r].op = "confirm" /\ h'[r].id = h[r].id,
         Confirms(r)' => h'[r].id = h[r].id /\ PaidOnce(h[r].id)
  PROVE  PaidInv'
  <1>1. HandlerPaid(r)'
    BY HandlerPaidKept DEF PaidInv
  <1>2. ASSUME NEW q \in Request \ {r}
        PROVE  HandlerPaid(q)'
    <2>1. HandlerPaid(q) /\ h'[q] = h[q]
      BY DEF PaidInv
    <2>2. Confirms(q)' => Confirms(q)
      BY <2>1 DEF Confirms
    <2> QED BY <2>1, <2>2, HandlerPaidKept DEF HandlerPaid
  <1> QED BY <1>1, <1>2 DEF PaidInv

(***************************************************************************)
(* Nothing is read or confirmed at first.                                  *)
(***************************************************************************)
LEMMA PaidInit == ComposedInit => PaidInv
  BY DEF ComposedInit, Init, PaidInv, HandlerPaid, Confirms, IdleHandler

(***************************************************************************)
(* Every composed step keeps what the gates have read backed and what they *)
(* let through paid for.                                                   *)
(***************************************************************************)
THEOREM PaidNext ==
  /\ TypeInv /\ PayP!PaymentInv /\ PayP!PaymentInv' /\ PayP!RowsKept /\ PaidInv
  /\ [ComposedNext]_composeVars
  => PaidInv'
  <1> SUFFICES ASSUME TypeInv, PayP!PaymentInv, PayP!PaymentInv', PayP!RowsKept, PaidInv,
                      [ComposedNext]_composeVars
               PROVE  PaidInv'
    OBVIOUS
  <1>0. /\ PayP!TypeOK /\ PayP!TypeOK'
        /\ price \in prices /\ seen \in [Request -> (SUBSET PayP!Payment) \cup {Nil}]
        /\ \A r \in Request : HandlerPaid(r)
    BY DEF PayP!PaymentInv, PayP!TypeInv, PaidInv
  <1>1. ASSUME NEW r \in Request, ReadPayments(r)
        PROVE  PaidInv'
    <2>1. h[r].op = "confirm" /\ h[r].pc = "gate"
      BY <1>1 DEF ReadPayments, TypeInv, CopyInv
    <2>2. /\ h' = h /\ prices' = prices /\ price' = price /\ payments' = payments
          /\ settled' = settled /\ strays' = strays
          /\ seen' = [seen EXCEPT ![r] = ListByBooking(h[r].id)]
      BY <1>1 DEF ReadPayments, vars, payVars
    <2>3. ASSUME NEW x \in ListByBooking(h[r].id)
          PROVE  x \in PayP!Payment /\ Backed(x, h[r].id)
      <3>1. PICK i \in PayRequest : gsi3[i] # Nil /\ gsi3[i].booking = h[r].id /\ x = gsi3[i]
        BY <2>3 DEF ListByBooking
      <3>2. /\ gsi3[i] \in PayP!Payment
            /\ payments[i] # Nil /\ PayP!SameMoney(gsi3[i], payments[i])
            /\ gsi3[i].status \in PayP!Evidence(i)
        BY <1>0, <3>1 DEF PayP!PaymentInv, PayP!RowsInv, PayP!ReportInv,
                          PayP!StatusWasReported, PayP!TypeOK, PayP!PaymentId
      <3>3. x.status = "succeeded" => "succeeded" \in PayP!Evidence(i)
        BY <3>1, <3>2 DEF PayP!Reported
      <3> QED BY <3>1, <3>2, <3>3 DEF Backed, PayP!SameMoney
    <2>4. seen' \in [Request -> (SUBSET PayP!Payment) \cup {Nil}]
      BY <1>0, <2>2, <2>3
    <2>7. \A i \in PayRequest : PayP!Evidence(i)' = PayP!Evidence(i)
      BY <2>2 DEF PayP!Evidence, PayP!Reported
    <2>5. HandlerPaid(r)'
      BY <1>0, <2>1, <2>2, <2>3, <2>7, SameEvidence DEF HandlerPaid, Confirms, Backed, PaidOnce
    <2>6. ASSUME NEW q \in Request \ {r}
          PROVE  HandlerPaid(q)'
      <3>1. seen'[q] = seen[q]
        BY <1>0, <2>2
      <3> QED BY <1>0, <2>2, <2>7, <3>1, SameEvidence DEF HandlerPaid, Confirms, Backed, PaidOnce
    <2> QED BY <1>0, <2>2, <2>4, <2>5, <2>6 DEF PaidInv
  <1>2. ASSUME NEW r \in Request, BookingStep(r)
        PROVE  PaidInv'
    <2>1. seen' = seen /\ prices' = prices /\ price' = price /\ Step(r)
      BY <1>2 DEF BookingStep
    <2>2. /\ h[r].pc # "idle" /\ h'[r].pc # "idle"
          /\ h'[r].op = h[r].op
          /\ h[r].op = "confirm" => h'[r].id = h[r].id
          /\ h[r].pc # "gate" /\ Confirms(r)' => Confirms(r)
          /\ \A q \in Request \ {r} : h'[q] = h[q]
      BY <2>1, ConfirmSteps
    <2>3. Confirms(r)' => h'[r].id = h[r].id
      BY <2>2 DEF Confirms
    <2>4. ASSUME Confirms(r)', h[r].pc = "gate"
          PROVE  PaidOnce(h[r].id)
      <3>1. seen[r] # Nil /\ ConfirmGate(r, \E q \in seen[r] : Satisfies(q, price))
        BY <1>2, <2>4 DEF BookingStep
      <3>2. \E q \in seen[r] : Satisfies(q, price)
        <4>1. CASE Answer(r, "conflict")
          BY <2>4, <4>1, AnswerFields DEF Confirms, TypeInv, TypeOK, Reply
        <4> QED BY <3>1, <4>1 DEF ConfirmGate
      <3>3. PICK q \in seen[r] : Satisfies(q, price) /\ Backed(q, h[r].id)
        BY <1>0, <3>1, <3>2 DEF HandlerPaid
      <3>4. PICK i \in PayRequest :
              /\ payments[i] # Nil /\ payments[i].booking = h[r].id
              /\ q.kind = payments[i].kind /\ q.amount = payments[i].amount
              /\ q.status = "succeeded" => "succeeded" \in PayP!Evidence(i)
        BY <3>3 DEF Backed
      <3>5. payments[i] \in PayP!Payment
        BY <1>0, <3>4 DEF PayP!TypeOK, PayP!PaymentId
      <3>6. Satisfies([payments[i] EXCEPT !.status = "succeeded"], price)
        BY <3>3, <3>4, <3>5 DEF Satisfies, PayP!Payment
      <3>7. "succeeded" \in PayP!Evidence(i)
        BY <3>3, <3>4 DEF Satisfies
      <3> QED BY <1>0, <3>4, <3>6, <3>7, SameEvidence DEF PaidOnce
    <2>5. Confirms(r)' => PaidOnce(h[r].id)
      BY <1>0, <2>2, <2>4 DEF HandlerPaid
    <2> QED BY <1>0, <2>1, <2>2, <2>3, <2>5, PaidKept DEF HandlerPaid
  <1>3. ASSUME NEW r \in Request, Fail(r), UNCHANGED <<payVars, price, prices, seen>>
        PROVE  PaidInv'
    <2>1. /\ h[r].pc # "idle" /\ h'[r].pc # "idle" /\ h'[r].pc # "save"
          /\ h'[r].op = h[r].op /\ h'[r].id = h[r].id /\ h'[r].reply = "error"
          /\ \A q \in Request \ {r} : h'[q] = h[q]
      BY <1>3, AnswerFields DEF Fail, TypeInv, TypeOK, Reply
    <2> QED BY <1>0, <1>3, <2>1, PaidKept DEF HandlerPaid, Confirms
  <1>4. ASSUME NEW r \in Request, Arrive(r), UNCHANGED <<payVars, price, prices, seen>>
        PROVE  PaidInv'
    <2>1. /\ h[r].pc = "idle" /\ h'[r].pc \in {"page", "load"} /\ h'[r].reply = "none"
          /\ \A q \in Request \ {r} : h'[q] = h[q]
      BY <1>4 DEF Arrive, ArriveCreate, ArriveLifecycle, Arrives, IdleHandler, TypeInv, TypeOK
    <2> QED BY <1>0, <1>4, <2>1, PaidKept DEF HandlerPaid, Confirms
  <1>5. ASSUME h' = h, seen' = seen, prices \subseteq prices', price' \in prices'
        PROVE  PaidInv'
    <2>1. ASSUME NEW q \in Request
          PROVE  HandlerPaid(q)'
      BY <1>0, <1>5, HandlerPaidKept DEF HandlerPaid, Confirms
    <2> QED BY <1>0, <1>5, <2>1 DEF PaidInv
  <1>6. CASE BookingElse
    <2>1. CASE \E b \in BookingId : Replicate(b)
      BY <1>0, <1>5, <1>6, <2>1 DEF BookingElse, Replicate
    <2>2. CASE AllAnswered
      BY <1>0, <1>5, <1>6, <2>2 DEF BookingElse, AllAnswered, vars
    <2> QED BY <1>3, <1>4, <1>6, <2>1, <2>2 DEF BookingElse
  <1>7. CASE PaymentStep \/ (\E pr \in Price : PatchPrice(pr)) \/ UNCHANGED composeVars
    BY <1>0, <1>5, <1>7 DEF PaymentStep, PatchPrice, composeVars, vars
  <1> QED BY <1>1, <1>2, <1>6, <1>7 DEF ComposedNext

(***************************************************************************)
(* No booking is ever confirmed for free: it has a payment of its own that *)
(* satisfied the policy for a price the service had and was said to have   *)
(* succeeded, by the provider or, where no secret is set, by a webhook     *)
(* alone, however stale the index, the price and the copies are that       *)
(* handlers work with.                                                     *)
(***************************************************************************)
THEOREM ConfirmedWasAlwaysPaid == ComposedSpec => []ConfirmedWasPaid
  <1>0. /\ PayRequest \subseteq Nat \ {0}
        /\ PayIndexLag \in BOOLEAN /\ Signed \in BOOLEAN
        /\ Kinds \subseteq PayP!Kind
        /\ Nil \notin PayP!Payment /\ Nil \notin PayKey /\ Nil \notin PayP!Status
    BY ComposedAssumption
       DEF Pay!Kind, PayP!Kind, Pay!Payment, PayP!Payment, Pay!Status, PayP!Status
  <1>1. TypeInv /\ PayP!PaymentInv /\ [ComposedNext]_composeVars => PayP!RowsKept
    BY <1>0, PaymentsStep, PayP!PaymentNextInv
  <1>2. GateInv /\ PaidInv => ConfirmedWasPaid
    BY DEF GateInv, ConfirmedPassedGate, PassedGate, ConfirmedWasPaid, PaidInv,
           HandlerPaid, Confirms
  <1>3. ComposedSpec => []PaidInv
    BY BookingInvariants, PaymentInvariants, PaidInit, PaidNext, <1>1, PTL DEF ComposedSpec
  <1> QED BY BookingInvariants, <1>2, <1>3, PTL

\* As ConfirmedWasPaid, and it is the provider that settled the payment.
ProviderWasPaid ==
  \A b \in BookingId :
    bookings[b] # Nil /\ EverConfirmed(bookings[b]) =>
      \E i \in PayRequest, pr \in prices :
        /\ payments[i] # Nil /\ payments[i].booking = b
        /\ settled[i] \in {"succeeded", "refunded"}
        /\ Satisfies([payments[i] EXCEPT !.status = "succeeded"], pr)

(***************************************************************************)
(* Where the secret is set, no booking is ever confirmed of which the      *)
(* provider did not settle a payment that satisfied the policy.            *)
(***************************************************************************)
THEOREM SignedConfirmedWasPaid == ASSUME Signed PROVE ComposedSpec => []ProviderWasPaid
  <1>0. /\ PayRequest \subseteq Nat \ {0}
        /\ PayIndexLag \in BOOLEAN /\ Signed \in BOOLEAN
        /\ Kinds \subseteq PayP!Kind
        /\ Nil \notin PayP!Payment /\ Nil \notin PayKey /\ Nil \notin PayP!Status
    BY ComposedAssumption
       DEF Pay!Kind, PayP!Kind, Pay!Payment, PayP!Payment, Pay!Status, PayP!Status
  <1>1. ComposedInit => PayP!NoStrays
    BY PaymentsInit DEF PayP!Init, PayP!NoStrays
  <1>2. /\ TypeInv /\ PayP!PaymentInv /\ PayP!NoStrays /\ [ComposedNext]_composeVars
        => PayP!NoStrays'
    BY <1>0, PaymentsStep, PayP!NoStraysNext DEF PayP!PaymentInv, PayP!TypeInv
  <1>3. PayP!NoStrays /\ ConfirmedWasPaid => ProviderWasPaid
    BY DEF PayP!NoStrays, PayP!PaymentId, ConfirmedWasPaid, PaidOnce, ProviderWasPaid,
           Pay!Evidence, Pay!Reported
  <1> QED BY BookingInvariants, PaymentInvariants, ConfirmedWasAlwaysPaid,
             <1>1, <1>2, <1>3, PTL DEF ComposedSpec

(***************************************************************************)
(* The composition implements the payment service, the booking rows        *)
(* deciding what may be paid for: its theorems hold here.                  *)
(***************************************************************************)
THEOREM PaymentsInside == ComposedSpec => ImplementsPayments
  <1>1. ComposedSpec => []TypeInv
    BY BookingInvariants, PTL
  <1>2. ComposedInit => Pay!Init
    BY DEF ComposedInit, Init, Active, BookingId, Pay!Init, Pay!PaymentId,
           Pay!NoPayment, Pay!IdleHandler
  <1>3. [PayP!Next]_(PayP!vars) => [Pay!Next]_(Pay!vars)
    BY SamePayments DEF PayP!Next, Pay!Next, PayP!vars, Pay!vars,
                        PayP!BookingChanges, Pay!BookingChanges
  <1> QED BY <1>1, <1>2, <1>3, PaymentsStep, PTL
          DEF ComposedSpec, ImplementsPayments, Pay!Spec
=============================================================================

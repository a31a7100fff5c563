--------------------------- MODULE PaymentsProofs ---------------------------
(***************************************************************************)
(* Machine-checked proofs about Payments, for every number of requests,    *)
(* webhook deliveries, keys and amounts, with an index that trails or not. *)
(***************************************************************************)
EXTENDS Payments, TLAPS

(***************************************************************************)
(* What an arriving request puts in its handler is well typed.             *)
(***************************************************************************)
LEMMA IdleHandlerType == IdleHandler \in Handler
  BY DEF IdleHandler, Handler, PC, Reply, PaymentId, NoPayment

(***************************************************************************)
(* A payment with another status is a payment of the same money.           *)
(***************************************************************************)
SameMoney(c, d) == c.booking = d.booking /\ c.kind = d.kind /\ c.amount = d.amount

LEMMA SavedCopy ==
  ASSUME NEW c \in Payment, NEW st \in Status
  PROVE  /\ [c EXCEPT !.status = st] \in Payment
         /\ [c EXCEPT !.status = st].status = st
         /\ SameMoney([c EXCEPT !.status = st], c)
  BY DEF Payment, SameMoney

(***************************************************************************)
(* What the handlers hold where they stand: a create its key and the new   *)
(* payment, a webhook the payment it is about and the status delivered.    *)
(***************************************************************************)
Creating(pc) == pc \in {"booking", "lookup", "write", "relookup", "replay", "respond"}

CopyInv ==
  \A r \in PayRequest :
    /\ Creating(p[r].pc) => p[r].key \in PayKey /\ p[r].id \in PaymentId
    /\ p[r].pc \in {"booking", "lookup", "write"} =>
         p[r].copy # Nil /\ p[r].copy.status = "pending"
    /\ p[r].pc \in {"load", "save"} => p[r].id \in PaymentId /\ p[r].status # Nil
    /\ p[r].pc = "save" => p[r].copy # Nil

TypeInv == TypeOK /\ CopyInv

(***************************************************************************)
(* What each step of a handler's local state changes, and what it leaves   *)
(* alone.                                                                  *)
(***************************************************************************)
LEMMA GotoFields ==
  ASSUME p \in [PayRequest -> Handler], NEW r \in PayRequest, NEW l \in PC, Goto(r, l)
  PROVE  /\ p' \in [PayRequest -> Handler]
         /\ p'[r].pc = l
         /\ p'[r].key = p[r].key /\ p'[r].id = p[r].id /\ p'[r].copy = p[r].copy
         /\ p'[r].status = p[r].status /\ p'[r].reply = p[r].reply
         /\ \A q \in PayRequest \ {r} : p'[q] = p[q]
  <1> DEFINE n(x) == [x EXCEPT !.pc = l]
  <1>1. \A x \in Handler :
          /\ n(x) \in Handler
          /\ n(x).pc = l
          /\ n(x).key = x.key /\ n(x).id = x.id /\ n(x).copy = x.copy
          /\ n(x).status = x.status /\ n(x).reply = x.reply
    BY DEF Handler, PC
  <1>2. p' = [p EXCEPT ![r] = n(p[r])]
    BY DEF Goto
  <1> HIDE DEF n
  <1> QED BY <1>1, <1>2

(***************************************************************************)
(* Answer(r, a) ends r's handler with the reply a.                         *)
(***************************************************************************)
LEMMA AnswerFields ==
  ASSUME p \in [PayRequest -> Handler], NEW r \in PayRequest, NEW a \in Reply, Answer(r, a)
  PROVE  /\ p' \in [PayRequest -> Handler]
         /\ p'[r].pc = "done" /\ p'[r].reply = a
         /\ p'[r].key = p[r].key /\ p'[r].id = p[r].id
         /\ \A q \in PayRequest \ {r} : p'[q] = p[q]
  <1> DEFINE n(x) == [x EXCEPT !.pc = "done", !.reply = a]
  <1>1. \A x \in Handler :
          /\ n(x) \in Handler
          /\ n(x).pc = "done" /\ n(x).reply = a
          /\ n(x).key = x.key /\ n(x).id = x.id
    BY DEF Handler, PC
  <1>2. p' = [p EXCEPT ![r] = n(p[r])]
    BY DEF Answer
  <1> HIDE DEF n
  <1> QED BY <1>1, <1>2

(***************************************************************************)
(* ReplayOf(r, i) turns r into a replay of payment i.                      *)
(***************************************************************************)
LEMMA ReplayOfFields ==
  ASSUME p \in [PayRequest -> Handler], NEW r \in PayRequest, NEW i \in PaymentId, ReplayOf(r, i)
  PROVE  /\ p' \in [PayRequest -> Handler]
         /\ p'[r].pc = "replay" /\ p'[r].id = i
         /\ p'[r].key = p[r].key /\ p'[r].reply = p[r].reply
         /\ \A q \in PayRequest \ {r} : p'[q] = p[q]
  <1> DEFINE n(x) == [x EXCEPT !.pc = "replay", !.id = i]
  <1>1. \A x \in Handler :
          /\ n(x) \in Handler
          /\ n(x).pc = "replay" /\ n(x).id = i
          /\ n(x).key = x.key /\ n(x).reply = x.reply
    BY DEF Handler, PC
  <1>2. p' = [p EXCEPT ![r] = n(p[r])]
    BY DEF ReplayOf
  <1> HIDE DEF n
  <1> QED BY <1>1, <1>2

(***************************************************************************)
(* A webhook that has read its payment holds the row.                      *)
(***************************************************************************)
LEMMA HoldFields ==
  ASSUME p \in [PayRequest -> Handler], NEW r \in PayRequest, NEW c \in Payment, Hold(r, c)
  PROVE  /\ p' \in [PayRequest -> Handler]
         /\ p'[r].pc = "save" /\ p'[r].copy = c
         /\ p'[r].key = p[r].key /\ p'[r].id = p[r].id
         /\ p'[r].status = p[r].status /\ p'[r].reply = p[r].reply
         /\ \A q \in PayRequest \ {r} : p'[q] = p[q]
  <1> DEFINE n(x) == [x EXCEPT !.pc = "save", !.copy = c]
  <1>1. \A x \in Handler :
          /\ n(x) \in Handler
          /\ n(x).pc = "save" /\ n(x).copy = c
          /\ n(x).key = x.key /\ n(x).id = x.id
          /\ n(x).status = x.status /\ n(x).reply = x.reply
    BY DEF Handler, PC
  <1>2. p' = [p EXCEPT ![r] = n(p[r])]
    BY DEF Hold
  <1> HIDE DEF n
  <1> QED BY <1>1, <1>2

(***************************************************************************)
(* The handler of a request that just arrived.                             *)
(***************************************************************************)
LEMMA ArriveFields ==
  ASSUME TypeOK, NEW r \in PayRequest, Arrive(r)
  PROVE  /\ p' \in [PayRequest -> Handler]
         /\ \/ /\ p'[r].pc = "booking" /\ p'[r].key \in PayKey /\ p'[r].id \in PaymentId
               /\ p'[r].copy # Nil /\ p'[r].copy.status = "pending"
            \/ /\ p'[r].pc = "load" /\ p'[r].id \in PaymentId
               /\ p'[r].status # Nil /\ p'[r].status \in Evidence(p[r].id)'
         /\ \A q \in PayRequest \ {r} : p'[q] = p[q]
         /\ UNCHANGED <<payments, gsi3, payIdem, settled>>
         /\ strays' \in [PaymentId -> SUBSET Status]
         /\ \A i \in PaymentId : Evidence(i) \subseteq Evidence(i)'
  <1> USE DEF TypeOK
  <1>1. ASSUME NEW k \in PayKey, NEW b \in BookingId, NEW kind \in Kinds, NEW a \in Amount,
               ArrivePayment(r, k, b, kind, a)
        PROVE  /\ p' \in [PayRequest -> Handler]
               /\ p'[r].pc = "booking" /\ p'[r].key \in PayKey /\ p'[r].id \in PaymentId
               /\ p'[r].copy # Nil /\ p'[r].copy.status = "pending"
               /\ \A q \in PayRequest \ {r} : p'[q] = p[q]
    <2> DEFINE c == [booking |-> b, kind |-> kind, amount |-> a, status |-> "pending"]
               n == [IdleHandler EXCEPT !.pc = "booking", !.op = "create", !.key = k,
                                        !.id = r, !.copy = c]
    <2>1. c \in Payment /\ c.status = "pending"
      BY KindsAssumption DEF Payment, Status
    <2> HIDE DEF c
    <2>2. n \in Handler
      BY <2>1, IdleHandlerType DEF Handler, PC, PaymentId
    <2>3. n.pc = "booking" /\ n.key = k /\ n.id = r /\ n.copy = c
      BY DEF IdleHandler
    <2>4. p' = [p EXCEPT ![r] = n]
      BY <1>1 DEF ArrivePayment, c
    <2> HIDE DEF n
    <2> QED BY <2>1, <2>2, <2>3, <2>4, PayNilAssumption DEF PaymentId
  <1>2. ASSUME NEW i \in PaymentId, NEW st \in Status, ArriveWebhook(r, i, st)
        PROVE  /\ p' \in [PayRequest -> Handler]
               /\ p'[r].pc = "load" /\ p'[r].id \in PaymentId
               /\ p'[r].status # Nil /\ p'[r].status \in Evidence(p[r].id)'
               /\ \A q \in PayRequest \ {r} : p'[q] = p[q]
               /\ strays' \in [PaymentId -> SUBSET Status]
               /\ \A j \in PaymentId : Evidence(j) \subseteq Evidence(j)'
    <2> DEFINE n == [IdleHandler EXCEPT !.pc = "load", !.op = "webhook", !.id = i,
                                        !.status = st]
    <2>1. n \in Handler
      BY IdleHandlerType DEF Handler, PC
    <2>2. n.pc = "load" /\ n.id = i /\ n.status = st
      BY DEF IdleHandler
    <2>3. p' = [p EXCEPT ![r] = n]
      BY <1>2 DEF ArriveWebhook
    <2>4. /\ strays' = [strays EXCEPT ![i] = strays[i] \cup ({st} \ Reported(i))]
          /\ settled' = settled
      BY <1>2 DEF ArriveWebhook
    <2>5. strays' \in [PaymentId -> SUBSET Status]
      BY <2>4
    <2>6. \A j \in PaymentId : Evidence(j) \subseteq Evidence(j)'
      BY <2>4 DEF Evidence, Reported
    <2>7. st \in Evidence(i)'
      BY <2>4 DEF Evidence, Reported
    <2>8. p'[r] = n /\ \A q \in PayRequest \ {r} : p'[q] = p[q]
      BY <2>3
    <2>9. p' \in [PayRequest -> Handler]
      BY <2>1, <2>3
    <2> HIDE DEF n
    <2>10. p'[r].pc = "load" /\ p'[r].id = i /\ p'[r].status = st
      BY <2>2, <2>8
    <2>11. st # Nil
      BY PayNilAssumption
    <2> QED BY <2>5, <2>6, <2>7, <2>8, <2>9, <2>10, <2>11
  <1>3. ASSUME UNCHANGED <<settled, strays>>
        PROVE  /\ strays' \in [PaymentId -> SUBSET Status]
               /\ \A j \in PaymentId : Evidence(j) \subseteq Evidence(j)'
    BY <1>3 DEF Evidence, Reported
  <1> QED BY <1>1, <1>2, <1>3 DEF Arrive, ArrivePayment, ArriveWebhook, UnchangedTable

(***************************************************************************)
(* The empty table and the idle handlers have their types.                 *)
(***************************************************************************)
THEOREM TypeInit == Init => TypeInv
  <1> SUFFICES ASSUME Init PROVE TypeInv
    OBVIOUS
  <1>1. TypeOK
    BY IdleHandlerType DEF Init, TypeOK, NoPayment, Status
  <1>2. CopyInv
    BY DEF Init, CopyInv, Creating, IdleHandler
  <1> QED BY <1>1, <1>2 DEF TypeInv

(***************************************************************************)
(* Every call, failure, report and index update keeps the types.           *)
(***************************************************************************)
THEOREM TypeNext == TypeInv /\ [Next]_vars => TypeInv'
  <1> SUFFICES ASSUME TypeOK, CopyInv, [Next]_vars
               PROVE  TypeOK' /\ CopyInv'
    BY DEF TypeInv
  <1> USE DEF TypeOK, PaymentId
  <1> DEFINE Ok == TypeOK' /\ CopyInv'
  <1>1. ASSUME NEW r \in PayRequest, Arrive(r), UNCHANGED payable
        PROVE  Ok
    BY <1>1, ArriveFields DEF UnchangedTable, CopyInv, Creating
  <1>2. ASSUME NEW r \in PayRequest, Step(r), UNCHANGED payable
        PROVE  Ok
    <2> p[r] \in Handler
      OBVIOUS
    <2>1. CASE ReadBooking(r)
      BY <1>2, <2>1, GotoFields, AnswerFields
         DEF ReadBooking, UnchangedTable, CopyInv, Creating, PC, Reply
    <2>2. CASE LookupKey(r)
      BY <1>2, <2>2, GotoFields, ReplayOfFields
         DEF LookupKey, UnchangedTable, CopyInv, Creating, PC, NoPayment
    <2>3. CASE WritePayment(r)
      <3>1. p[r].copy \in Payment /\ r \in PaymentId
        BY <2>3 DEF WritePayment, CopyInv, Handler
      <3> QED BY <1>2, <2>3, <3>1, GotoFields
              DEF WritePayment, PutPayment, CopyInv, Creating, PC
    <2>4. CASE WriteCancelled(r)
      BY <1>2, <2>4, GotoFields DEF WriteCancelled, UnchangedTable, CopyInv, Creating, PC
    <2>5. CASE RespondCreated(r) \/ ReplayPayment(r)
      BY <1>2, <2>5, AnswerFields
         DEF RespondCreated, ReplayPayment, UnchangedTable, CopyInv, Creating, Reply
    <2>6. CASE RelookupKey(r)
      BY <1>2, <2>6, AnswerFields, ReplayOfFields
         DEF RelookupKey, UnchangedTable, CopyInv, Creating, Reply, NoPayment
    <2>7. CASE LoadPayment(r)
      <3>1. p[r].id \in PaymentId
        BY <2>7 DEF LoadPayment, CopyInv
      <3> QED BY <1>2, <2>7, <3>1, AnswerFields, HoldFields, PayNilAssumption
              DEF LoadPayment, UnchangedTable, CopyInv, Creating, Reply
    <2>8. CASE SavePayment(r)
      <3> DEFINE c == [p[r].copy EXCEPT !.status = p[r].status]
      <3>1. p[r].copy \in Payment /\ p[r].status \in Status /\ p[r].id \in PaymentId
        BY <2>8 DEF SavePayment, CopyInv, Handler
      <3>2. c \in Payment
        BY <3>1, SavedCopy
      <3>3. PutPayment(p[r].id, c)
        BY <2>8 DEF SavePayment
      <3> HIDE DEF c
      <3> QED BY <1>2, <2>8, <3>1, <3>2, <3>3, AnswerFields
              DEF SavePayment, PutPayment, CopyInv, Creating, Reply
    <2> QED BY <1>2, <2>1, <2>2, <2>3, <2>4, <2>5, <2>6, <2>7, <2>8 DEF Step
  <1>3. ASSUME NEW r \in PayRequest, Fail(r), UNCHANGED payable
        PROVE  Ok
    BY <1>3, AnswerFields DEF Fail, UnchangedTable, CopyInv, Creating, Reply
  <1>4. ASSUME NEW i \in PaymentId, UNCHANGED payable,
               Replicate(i) \/ \E st \in {"succeeded", "failed", "refunded"} : Settle(i, st)
        PROVE  Ok
    BY <1>4 DEF Replicate, Settle, Status, CopyInv, Creating
  <1>5. ASSUME NEW b \in BookingId, BookingChanges(b)
        PROVE  Ok
    BY <1>5 DEF BookingChanges, CopyInv, Creating
  <1>6. CASE UNCHANGED vars
    BY <1>6 DEF vars, CopyInv, Creating
  <1> QED BY <1>1, <1>2, <1>3, <1>4, <1>5, <1>6 DEF Next, PaymentNext

(***************************************************************************)
(* The types hold in every reachable state.                                *)
(***************************************************************************)
THEOREM TypeCorrect == Spec => []TypeOK
  <1>1. TypeInv => TypeOK
    BY DEF TypeInv
  <1> QED BY TypeInit, TypeNext, <1>1, PTL DEF Spec

-----------------------------------------------------------------------------
(***************************************************************************)
(* Rows, the index and the copies webhooks hold speak of the same money:   *)
(* nothing ever changes the booking, kind or amount of a payment.          *)
(***************************************************************************)
RowsInv ==
  /\ \A i \in PaymentId :
       gsi3[i] # Nil => payments[i] # Nil /\ SameMoney(gsi3[i], payments[i])
  /\ \A r \in PayRequest :
       p[r].pc = "save" =>
         payments[p[r].id] # Nil /\ SameMoney(p[r].copy, payments[p[r].id])

\* What a webhook is about to store was reported, like what is stored.
ReportInv ==
  /\ StatusWasReported
  /\ \A r \in PayRequest :
       p[r].pc \in {"load", "save"} => p[r].status \in Evidence(p[r].id)

PaymentInv == TypeInv /\ RowsInv /\ ReportInv

(***************************************************************************)
(* What a step leaves true of the rows: a payment stays, with its money,   *)
(* and what was reported of it stays reported.                             *)
(***************************************************************************)
RowsKept ==
  \A i \in PaymentId :
    /\ payments[i] # Nil => payments'[i] # Nil /\ SameMoney(payments'[i], payments[i])
    /\ Evidence(i) \subseteq Evidence(i)'

(***************************************************************************)
(* A handler step other than the transaction and Save only moves its       *)
(* handler along; a webhook is about to save only what it has just read.   *)
(***************************************************************************)
LEMMA QuietStep ==
  ASSUME TypeOK, CopyInv, NEW r \in PayRequest,
         Step(r) \/ Fail(r), ~WritePayment(r), ~SavePayment(r)
  PROVE  /\ UnchangedTable
         /\ \A q \in PayRequest \ {r} : p'[q] = p[q]
         /\ p'[r].pc # "load"
         /\ p'[r].pc = "save" =>
              /\ p[r].pc = "load" /\ p'[r].id = p[r].id /\ p'[r].status = p[r].status
              /\ payments[p[r].id] # Nil /\ p'[r].copy = payments[p[r].id]
  <1> USE DEF TypeOK, PaymentId
  <1>1. CASE ReadBooking(r)
    BY <1>1, GotoFields, AnswerFields DEF ReadBooking, PC, Reply
  <1>2. CASE LookupKey(r)
    BY <1>2, GotoFields, ReplayOfFields DEF LookupKey, CopyInv, Creating, PC, NoPayment
  <1>3. CASE WriteCancelled(r)
    BY <1>3, GotoFields DEF WriteCancelled, PC
  <1>4. CASE RespondCreated(r) \/ ReplayPayment(r) \/ Fail(r)
    BY <1>4, AnswerFields DEF RespondCreated, ReplayPayment, Fail, Reply
  <1>5. CASE RelookupKey(r)
    BY <1>5, AnswerFields, ReplayOfFields DEF RelookupKey, CopyInv, Creating, Reply, NoPayment
  <1>6. CASE LoadPayment(r)
    <2>1. p[r].id \in PaymentId
      BY <1>6 DEF LoadPayment, CopyInv
    <2> QED BY <1>6, <2>1, AnswerFields, HoldFields DEF LoadPayment, Reply
  <1> QED BY <1>1, <1>2, <1>3, <1>4, <1>5, <1>6 DEF Step

(***************************************************************************)
(* The transaction and Save write one row: a new one, or the money the row *)
(* had with a reported status.                                             *)
(***************************************************************************)
LEMMA WriteStep ==
  ASSUME PaymentInv, NEW r \in PayRequest, WritePayment(r) \/ SavePayment(r)
  PROVE  \E i \in PaymentId, c \in Payment :
           /\ PutPayment(i, c) /\ UNCHANGED <<settled, strays>>
           /\ payments[i] # Nil => SameMoney(c, payments[i])
           /\ c.status \in Evidence(i)
           /\ p'[r].pc \notin {"load", "save"}
           /\ \A q \in PayRequest \ {r} : p'[q] = p[q]
  <1> USE DEF PaymentInv, TypeInv, TypeOK
  <1>1. CASE WritePayment(r)
    <2>1. p[r].copy \in Payment /\ p[r].copy.status = "pending" /\ r \in PaymentId
      BY <1>1 DEF WritePayment, CopyInv, Handler, PaymentId
    <2>2. p'[r].pc = "respond" /\ \A q \in PayRequest \ {r} : p'[q] = p[q]
      BY <1>1, GotoFields DEF WritePayment, PC
    <2>3. payments[r] = Nil /\ PutPayment(r, p[r].copy) /\ UNCHANGED <<settled, strays>>
      BY <1>1 DEF WritePayment
    <2>4. "pending" \in Evidence(r)
      BY DEF Evidence, Reported
    <2> QED BY <2>1, <2>2, <2>3, <2>4
  <1>2. CASE SavePayment(r)
    <2> DEFINE c == [p[r].copy EXCEPT !.status = p[r].status]
               i == p[r].id
    <2>1. p[r].copy \in Payment /\ p[r].status \in Status /\ i \in PaymentId
      BY <1>2 DEF SavePayment, CopyInv, Handler
    <2>2. c \in Payment /\ c.status = p[r].status /\ SameMoney(c, p[r].copy)
      BY <2>1, SavedCopy
    <2>3. SameMoney(p[r].copy, payments[i]) /\ p[r].status \in Evidence(i)
      BY <1>2 DEF SavePayment, RowsInv, ReportInv
    <2>4. PutPayment(i, c) /\ UNCHANGED <<settled, strays>>
      BY <1>2 DEF SavePayment
    <2>5. p'[r].pc = "done" /\ \A q \in PayRequest \ {r} : p'[q] = p[q]
      BY <1>2, AnswerFields DEF SavePayment, Reply
    <2>6. SameMoney(c, payments[i])
      BY <2>2, <2>3 DEF SameMoney
    <2> HIDE DEF c, i
    <2> QED BY <2>1, <2>2, <2>3, <2>4, <2>5, <2>6
  <1> QED BY <1>1, <1>2

(***************************************************************************)
(* Every step keeps rows, index, copies and reports in agreement, and      *)
(* nothing stored is ever lost.                                            *)
(***************************************************************************)
THEOREM PaymentNextInv ==
  PaymentInv /\ [Next]_vars => PaymentInv' /\ RowsKept
  <1> SUFFICES ASSUME PaymentInv, [Next]_vars
               PROVE  RowsInv' /\ ReportInv' /\ RowsKept
    BY TypeNext DEF PaymentInv
  <1> USE DEF PaymentInv, TypeInv, TypeOK
  <1> DEFINE Ok == RowsInv' /\ ReportInv' /\ RowsKept
  <1>0. TypeInv'
    BY TypeNext
  <1>1. ASSUME NEW r \in PayRequest, UNCHANGED <<payments, gsi3>>,
               \A i \in PaymentId : Evidence(i) \subseteq Evidence(i)',
               \A q \in PayRequest \ {r} : p'[q] = p[q],
               p'[r].pc = "load" => p'[r].status \in Evidence(p[r].id)',
               p'[r].pc = "save" =>
                 /\ p[r].pc = "load" /\ p'[r].id = p[r].id /\ p'[r].status = p[r].status
                 /\ payments[p[r].id] # Nil /\ p'[r].copy = payments[p[r].id]
        PROVE  Ok
    <2>1. RowsKept
      BY <1>1 DEF RowsKept, SameMoney
    <2>2. RowsInv'
      BY <1>1 DEF RowsInv, SameMoney
    <2>3. ASSUME NEW q \in PayRequest, p'[q].pc \in {"load", "save"}
          PROVE  p'[q].status \in Evidence(p[q].id)'
      <3>1. CASE p'[q] # p[q] /\ p'[q].pc = "load"
        BY <1>1, <3>1
      <3>2. CASE p'[q] = p[q] \/ p'[q].pc = "save"
        <4>1. /\ p[q].pc \in {"load", "save"}
              /\ p'[q].id = p[q].id /\ p'[q].status = p[q].status
          BY <1>1, <2>3, <3>2
        <4>2. p[q].id \in PaymentId /\ p[q].status \in Evidence(p[q].id)
          BY <4>1 DEF CopyInv, ReportInv
        <4> QED BY <1>1, <4>1, <4>2
      <3> QED BY <2>3, <3>1, <3>2
    <2>4. StatusWasReported'
      BY <1>1 DEF ReportInv, StatusWasReported
    <2>5. ReportInv'
      BY <2>3, <2>4 DEF ReportInv
    <2> QED BY <2>1, <2>2, <2>5
  <1>2. ASSUME NEW r \in PayRequest, Arrive(r)
        PROVE  Ok
    BY <1>1, <1>2, ArriveFields
  <1>3. ASSUME NEW r \in PayRequest, WritePayment(r) \/ SavePayment(r)
        PROVE  Ok
    <2> PICK i \in PaymentId, c \in Payment :
           /\ PutPayment(i, c) /\ UNCHANGED <<settled, strays>>
           /\ payments[i] # Nil => SameMoney(c, payments[i])
           /\ c.status \in Evidence(i)
           /\ p'[r].pc \notin {"load", "save"}
           /\ \A q \in PayRequest \ {r} : p'[q] = p[q]
      BY <1>3, WriteStep
    <2>1. payments' = [payments EXCEPT ![i] = c] /\ gsi3' \in {gsi3, payments'}
      BY DEF PutPayment
    <2>2. \A j \in PaymentId : Evidence(j)' = Evidence(j)
      BY DEF Evidence, Reported
    <2>3. c # Nil /\ payments'[i] = c /\ \A j \in PaymentId \ {i} : payments'[j] = payments[j]
      BY <2>1, PayNilAssumption
    <2>4. RowsKept
      BY <2>2, <2>3 DEF RowsKept, SameMoney
    <2>5. RowsInv'
      <3>1. ASSUME NEW j \in PaymentId, gsi3'[j] # Nil
            PROVE  payments'[j] # Nil /\ SameMoney(gsi3'[j], payments'[j])
        BY <2>1, <2>3, <3>1 DEF RowsInv, SameMoney
      <3>2. ASSUME NEW q \in PayRequest, p'[q].pc = "save"
            PROVE  payments'[p'[q].id] # Nil /\ SameMoney(p'[q].copy, payments'[p'[q].id])
        <4>1. p'[q] = p[q]
          BY <3>2
        <4>2. p[q].id \in PaymentId
          BY <3>2, <4>1 DEF CopyInv
        <4> QED BY <2>3, <3>2, <4>1, <4>2 DEF RowsInv, SameMoney
      <3> QED BY <3>1, <3>2 DEF RowsInv, SameMoney
    <2>6. ReportInv'
      <3>1. ASSUME NEW j \in PaymentId
            PROVE  /\ payments'[j] # Nil => payments'[j].status \in Evidence(j)'
                   /\ gsi3'[j] # Nil => gsi3'[j].status \in Evidence(j)'
        BY <2>1, <2>2, <2>3 DEF ReportInv, StatusWasReported
      <3>2. ASSUME NEW q \in PayRequest, p'[q].pc \in {"load", "save"}
            PROVE  p'[q].status \in Evidence(p[q].id)'
        <4>1. p'[q] = p[q]
          BY <3>2
        <4>2. p[q].status \in Evidence(p[q].id)
          BY <3>2, <4>1 DEF ReportInv
        <4> QED BY <4>1, <4>2 DEF Evidence, Reported
      <3> QED BY <3>1, <3>2 DEF ReportInv, StatusWasReported
    <2> QED BY <2>4, <2>5, <2>6
  <1>4. ASSUME NEW r \in PayRequest, Step(r) \/ Fail(r)
        PROVE  Ok
    <2>1. UnchangedTable => \A i \in PaymentId : Evidence(i) \subseteq Evidence(i)'
      BY DEF UnchangedTable, Evidence, Reported
    <2> HIDE DEF Ok
    <2>2. CASE WritePayment(r) \/ SavePayment(r)
      BY <1>3, <2>2
    <2>3. CASE ~WritePayment(r) /\ ~SavePayment(r)
      <3>1. /\ UnchangedTable
            /\ \A q \in PayRequest \ {r} : p'[q] = p[q]
            /\ p'[r].pc # "load"
            /\ p'[r].pc = "save" =>
                 /\ p[r].pc = "load" /\ p'[r].id = p[r].id /\ p'[r].status = p[r].status
                 /\ payments[p[r].id] # Nil /\ p'[r].copy = payments[p[r].id]
        BY <1>4, <2>3, QuietStep
      <3>2. UNCHANGED <<payments, gsi3>>
        BY <3>1 DEF UnchangedTable
      <3> QED BY <1>1, <2>1, <3>1, <3>2
    <2> QED BY <2>2, <2>3
  <1>5. ASSUME NEW i \in PaymentId, Replicate(i)
        PROVE  Ok
    <2>1. payments' = payments /\ UNCHANGED <<settled, strays>> /\ p' = p
          /\ gsi3'[i] = payments[i] /\ \A j \in PaymentId \ {i} : gsi3'[j] = gsi3[j]
      BY <1>5 DEF Replicate
    <2>2. RowsKept
      BY <2>1 DEF RowsKept, SameMoney, Evidence, Reported
    <2>3. RowsInv'
      BY <2>1 DEF RowsInv, SameMoney
    <2>4. ReportInv'
      BY <2>1 DEF ReportInv, StatusWasReported, Evidence, Reported
    <2> QED BY <2>2, <2>3, <2>4
  <1>6. ASSUME NEW i \in PaymentId, NEW st \in {"succeeded", "failed", "refunded"},
               Settle(i, st)
        PROVE  Ok
    <2>1. payments' = payments /\ gsi3' = gsi3 /\ p' = p
      BY <1>6 DEF Settle
    <2>2. \A j \in PaymentId : Evidence(j) \subseteq Evidence(j)'
      BY <1>6 DEF Settle, Evidence, Reported
    <2>3. RowsKept
      BY <2>1, <2>2 DEF RowsKept, SameMoney
    <2>4. RowsInv'
      BY <2>1 DEF RowsInv, SameMoney
    <2>5. ReportInv'
      <3>1. \A r \in PayRequest : p[r].pc \in {"load", "save"} => p[r].id \in PaymentId
        BY DEF CopyInv
      <3> QED BY <2>1, <2>2, <3>1 DEF ReportInv, StatusWasReported
    <2> QED BY <2>3, <2>4, <2>5
  <1>7. CASE UNCHANGED <<payments, gsi3, settled, strays, p>>
    BY <1>7 DEF RowsInv, ReportInv, RowsKept, StatusWasReported, Evidence, Reported, SameMoney
  <1> QED BY <1>2, <1>4, <1>5, <1>6, <1>7 DEF Next, PaymentNext, BookingChanges, vars

(***************************************************************************)
(* Nothing is stored, indexed or about to be saved at first.               *)
(***************************************************************************)
THEOREM PaymentInit == Init => PaymentInv
  BY TypeInit DEF Init, PaymentInv, RowsInv, ReportInv, StatusWasReported, IdleHandler

(***************************************************************************)
(* Rows, index items and handlers agree in every reachable state.          *)
(***************************************************************************)
THEOREM PaymentCorrect == Spec => []PaymentInv
  BY PaymentInit, PaymentNextInv, PTL DEF Spec

(***************************************************************************)
(* A payment only ever shows a status the provider reported of it, or one  *)
(* that a webhook without a report gave it, with webhooks repeated,        *)
(* reordered, and saving over each other.                                  *)
(***************************************************************************)
THEOREM StatusAlwaysReported == Spec => []StatusWasReported
  <1>1. PaymentInv => StatusWasReported
    BY DEF PaymentInv, ReportInv
  <1> QED BY PaymentCorrect, <1>1, PTL

\* No webhook gave a payment what the provider had not reported.
NoStrays == \A i \in PaymentId : strays[i] = {}

(***************************************************************************)
(* Where the secret is set a webhook says nothing the provider has not.    *)
(***************************************************************************)
LEMMA NoStraysNext ==
  ASSUME Signed, TypeOK, NoStrays, [Next]_vars
  PROVE  NoStrays'
  <1>1. ASSUME NEW r \in PayRequest, NEW i \in PaymentId, NEW st \in Status,
               ArriveWebhook(r, i, st)
        PROVE  NoStrays'
    BY <1>1 DEF ArriveWebhook, Accepts, NoStrays, TypeOK
  <1>2. CASE UNCHANGED strays
    BY <1>2 DEF NoStrays
  <1> QED BY <1>1, <1>2
          DEF Next, PaymentNext, Arrive, ArrivePayment, Step, ReadBooking, LookupKey,
              WritePayment, WriteCancelled, RespondCreated, RelookupKey, ReplayPayment,
              LoadPayment, SavePayment, Fail, Settle, Replicate, BookingChanges,
              UnchangedTable, vars

\* Rows and index items show nothing but what the provider reported.
ShowsReports ==
  \A i \in PaymentId :
    /\ payments[i] # Nil => payments[i].status \in Reported(i)
    /\ gsi3[i] # Nil => gsi3[i].status \in Reported(i)

(***************************************************************************)
(* Where the secret is set rows and index items show nothing but what the  *)
(* provider reported of the payment.                                       *)
(***************************************************************************)
THEOREM SignedShowsReports == ASSUME Signed PROVE Spec => []ShowsReports
  <1>1. Init => NoStrays
    BY DEF Init, NoStrays
  <1>2. TypeOK /\ NoStrays /\ [Next]_vars => NoStrays'
    BY NoStraysNext
  <1>3. NoStrays /\ StatusWasReported => ShowsReports
    BY DEF NoStrays, StatusWasReported, Evidence, ShowsReports
  <1> QED BY TypeCorrect, StatusAlwaysReported, <1>1, <1>2, <1>3, PTL DEF Spec

-----------------------------------------------------------------------------
(* The stepwise create implements the atomic one of IdempotentCreate *)

(***************************************************************************)
(* What is known of request r at each call of a create: until its          *)
(* transaction there is no payment of its id, so a key that is bound is    *)
(* bound by someone else; after it the key is bound to r.                  *)
(***************************************************************************)
Unwritten(r) == p[r].pc \in {"idle", "booking", "lookup", "write", "relookup"}

CreateHandler(r) ==
  /\ p[r].pc # "done" => p[r].reply = "none"
  /\ p[r].pc = "idle" => p[r] = IdleHandler
  /\ Unwritten(r) => payments[r] = Nil
  /\ Unwritten(r) /\ p[r].pc # "idle" => p[r].id = r
  /\ p[r].pc = "respond" => p[r].id = r /\ payIdem[p[r].key] = r
  /\ p[r].pc = "replay" => p[r].id # r /\ payIdem[p[r].key] = p[r].id

\* A key names a payment that is stored.
KeysStored == \A k \in PayKey : payIdem[k] # NoPayment => payments[payIdem[k]] # Nil

CreateInv == KeysStored /\ \A r \in PayRequest : CreateHandler(r)

(***************************************************************************)
(* No key is bound and no request has arrived at first.                    *)
(***************************************************************************)
THEOREM CreateInit == Init => CreateInv
  BY DEF Init, CreateInv, KeysStored, CreateHandler, Unwritten, IdleHandler, PaymentId

(***************************************************************************)
(* A step of one handler that binds no key and neither adds nor removes a  *)
(* payment keeps the invariant if that handler still satisfies it.         *)
(***************************************************************************)
LEMMA LocalStep ==
  ASSUME TypeOK, CreateInv, NEW r \in PayRequest, payIdem' = payIdem,
         \A i \in PaymentId : payments'[i] = Nil <=> payments[i] = Nil,
         \A q \in PayRequest \ {r} : p'[q] = p[q],
         CreateHandler(r)'
  PROVE  CreateInv'
  <1>1. KeysStored'
    BY PayNilAssumption DEF CreateInv, KeysStored, TypeOK
  <1>2. ASSUME NEW q \in PayRequest \ {r} PROVE CreateHandler(q)'
    <2>1. CreateHandler(q) /\ p'[q] = p[q]
      BY DEF CreateInv
    <2> QED BY <2>1 DEF CreateHandler, Unwritten, PaymentId
  <1> QED BY <1>1, <1>2 DEF CreateInv

(***************************************************************************)
(* Ending a handler keeps the invariant, whatever it answers.              *)
(***************************************************************************)
LEMMA AnswerKeeps ==
  ASSUME TypeOK, CreateInv, NEW r \in PayRequest, NEW a \in Reply, Answer(r, a),
         payIdem' = payIdem,
         \A i \in PaymentId : payments'[i] = Nil <=> payments[i] = Nil
  PROVE  CreateInv'
  <1>1. p'[r].pc = "done" /\ \A q \in PayRequest \ {r} : p'[q] = p[q]
    BY AnswerFields DEF TypeOK
  <1>2. CreateHandler(r)'
    BY <1>1 DEF CreateHandler, Unwritten
  <1> QED BY <1>1, <1>2, LocalStep

(***************************************************************************)
(* A create that goes on to its transaction, or finds it cancelled, or     *)
(* finds its key bound, keeps the invariant.                               *)
(***************************************************************************)
LEMMA CreateGoesOn ==
  ASSUME TypeOK, CopyInv, CreateInv, NEW r \in PayRequest, UnchangedTable,
         p[r].pc \in {"booking", "lookup", "write", "relookup"},
         \/ \E l \in {"lookup", "write", "relookup"} : Goto(r, l)
         \/ payIdem[p[r].key] # NoPayment /\ ReplayOf(r, payIdem[p[r].key])
  PROVE  CreateInv'
  <1> USE DEF TypeOK
  <1>1. /\ p[r].key \in PayKey /\ p[r].id = r /\ payments[r] = Nil
        /\ p[r].reply = "none" /\ r \in PaymentId
    BY DEF CopyInv, Creating, CreateInv, CreateHandler, Unwritten, PaymentId
  <1>2. ASSUME NEW l \in {"lookup", "write", "relookup"}, Goto(r, l)
        PROVE  CreateInv'
    <2>1. /\ p'[r].pc = l /\ p'[r].id = r /\ p'[r].reply = "none"
          /\ \A q \in PayRequest \ {r} : p'[q] = p[q]
      BY <1>1, <1>2, GotoFields DEF PC
    <2>2. CreateHandler(r)'
      BY <1>1, <2>1 DEF CreateHandler, Unwritten, UnchangedTable
    <2> QED BY <2>1, <2>2, LocalStep DEF UnchangedTable
  <1>3. ASSUME payIdem[p[r].key] # NoPayment, ReplayOf(r, payIdem[p[r].key])
        PROVE  CreateInv'
    <2>1. payIdem[p[r].key] \in PaymentId /\ payments[payIdem[p[r].key]] # Nil
      BY <1>1, <1>3 DEF CreateInv, KeysStored
    <2>2. payIdem[p[r].key] # r
      BY <1>1, <2>1
    <2>3. /\ p'[r].pc = "replay" /\ p'[r].id = payIdem[p[r].key]
          /\ p'[r].key = p[r].key /\ p'[r].reply = "none"
          /\ \A q \in PayRequest \ {r} : p'[q] = p[q]
      BY <1>1, <1>3, <2>1, ReplayOfFields
    <2>4. CreateHandler(r)'
      BY <2>2, <2>3 DEF CreateHandler, Unwritten, UnchangedTable
    <2> QED BY <2>3, <2>4, LocalStep DEF UnchangedTable
  <1> QED BY <1>2, <1>3

(***************************************************************************)
(* The transaction binds a free key to the writer's own new payment, so no *)
(* key that others rely on changes.                                        *)
(***************************************************************************)
LEMMA WriteKeeps ==
  ASSUME TypeOK, CopyInv, CreateInv, NEW r \in PayRequest, WritePayment(r)
  PROVE  CreateInv'
  <1> USE DEF TypeOK
  <1>1. /\ p[r].key \in PayKey /\ p[r].id = r /\ p[r].reply = "none"
        /\ p[r].copy # Nil /\ payIdem[p[r].key] = NoPayment
        /\ r \in PaymentId /\ r # NoPayment
    BY PayRequestAssumption
       DEF WritePayment, CopyInv, Creating, CreateInv, CreateHandler, Unwritten, PaymentId,
           NoPayment
  <1>2. /\ p'[r].pc = "respond" /\ p'[r].id = r /\ p'[r].reply = "none"
        /\ p'[r].key = p[r].key
        /\ \A q \in PayRequest \ {r} : p'[q] = p[q]
    BY <1>1, GotoFields DEF WritePayment, PC
  <1>3. /\ payIdem' = [payIdem EXCEPT ![p[r].key] = r]
        /\ payments' = [payments EXCEPT ![r] = p[r].copy]
    BY DEF WritePayment, PutPayment
  <1>4. KeysStored'
    BY <1>1, <1>3 DEF CreateInv, KeysStored
  <1>5. CreateHandler(r)'
    BY <1>1, <1>2, <1>3 DEF CreateHandler, Unwritten
  <1>6. ASSUME NEW q \in PayRequest \ {r} PROVE CreateHandler(q)'
    <2>1. CreateHandler(q) /\ p'[q] = p[q]
      BY <1>2 DEF CreateInv
    <2>2. payments'[q] = payments[q]
      BY <1>3 DEF PaymentId
    <2>3. ASSUME p[q].pc \in {"respond", "replay"}
          PROVE  payIdem'[p[q].key] = payIdem[p[q].key]
      <3>1. p[q].key \in PayKey /\ p[q].id \in PaymentId /\ payIdem[p[q].key] = p[q].id
        BY <2>1, <2>3 DEF CopyInv, Creating, CreateHandler
      <3>2. payIdem[p[q].key] # NoPayment
        BY <3>1, PayRequestAssumption DEF PaymentId, NoPayment
      <3> QED BY <1>1, <1>3, <3>1, <3>2
    <2> QED BY <2>1, <2>2, <2>3 DEF CreateHandler, Unwritten
  <1> QED BY <1>4, <1>5, <1>6 DEF CreateInv

(***************************************************************************)
(* Every step keeps keys, payments and what the creates know of them in    *)
(* agreement.                                                              *)
(***************************************************************************)
THEOREM CreateNext == PaymentInv /\ CreateInv /\ [Next]_vars => CreateInv'
  <1> SUFFICES ASSUME TypeOK, CopyInv, PaymentInv, CreateInv, [Next]_vars
               PROVE  CreateInv'
    BY DEF PaymentInv, TypeInv
  <1> USE DEF TypeOK
  <1>1. ASSUME NEW r \in PayRequest, Arrive(r)
        PROVE  CreateInv'
    <2>1. p[r].pc = "idle" /\ payments[r] = Nil
      BY <1>1 DEF Arrive, ArrivePayment, ArriveWebhook, Arrives, CreateInv, CreateHandler,
                  Unwritten
    <2>2. /\ p'[r].reply = "none"
          /\ \/ p'[r].pc = "booking" /\ p'[r].id = r
             \/ p'[r].pc = "load"
          /\ UNCHANGED <<payments, payIdem>>
          /\ \A q \in PayRequest \ {r} : p'[q] = p[q]
      <3>1. ASSUME NEW k \in PayKey, NEW b \in BookingId, NEW kind \in Kinds, NEW a \in Amount,
                   ArrivePayment(r, k, b, kind, a)
            PROVE  p'[r].reply = "none" /\ p'[r].pc = "booking" /\ p'[r].id = r
        BY <3>1 DEF ArrivePayment, IdleHandler
      <3>2. ASSUME NEW i \in PaymentId, NEW st \in Status, ArriveWebhook(r, i, st)
            PROVE  p'[r].reply = "none" /\ p'[r].pc = "load"
        BY <3>2 DEF ArriveWebhook, IdleHandler
      <3> QED BY <1>1, <3>1, <3>2, ArriveFields DEF Arrive
    <2>3. CreateHandler(r)'
      BY <2>1, <2>2 DEF CreateHandler, Unwritten, UnchangedTable
    <2> QED BY <2>2, <2>3, LocalStep DEF UnchangedTable
  <1>2. ASSUME NEW r \in PayRequest, Step(r)
        PROVE  CreateInv'
    <2>1. CASE ReadBooking(r)
      BY <2>1, AnswerKeeps, CreateGoesOn DEF ReadBooking, UnchangedTable, Reply
    <2>2. CASE LookupKey(r) \/ WriteCancelled(r)
      BY <2>2, CreateGoesOn DEF LookupKey, WriteCancelled
    <2>3. CASE WritePayment(r)
      BY <2>3, WriteKeeps
    <2>4. CASE RelookupKey(r)
      BY <2>4, AnswerKeeps, CreateGoesOn DEF RelookupKey, UnchangedTable, Reply
    <2>5. CASE RespondCreated(r) \/ ReplayPayment(r)
      BY <2>5, AnswerKeeps DEF RespondCreated, ReplayPayment, UnchangedTable, Reply
    <2>6. CASE LoadPayment(r)
      <3>1. p[r].id \in PaymentId /\ p[r].reply = "none"
        BY <2>6 DEF LoadPayment, CopyInv, CreateInv, CreateHandler
      <3>2. CASE payments[p[r].id] = Nil
        BY <2>6, <3>2, AnswerKeeps DEF LoadPayment, UnchangedTable, Reply
      <3>3. CASE payments[p[r].id] # Nil
        <4>1. /\ p'[r].pc = "save" /\ p'[r].reply = "none"
              /\ \A q \in PayRequest \ {r} : p'[q] = p[q]
          BY <2>6, <3>1, <3>3, HoldFields DEF LoadPayment
        <4>2. CreateHandler(r)'
          BY <4>1 DEF CreateHandler, Unwritten
        <4> QED BY <2>6, <4>1, <4>2, LocalStep DEF LoadPayment, UnchangedTable
      <3> QED BY <3>2, <3>3
    <2>7. CASE SavePayment(r)
      <3>1. PICK a \in {"ok", "lost"} : Answer(r, a)
        BY <2>7 DEF SavePayment
      <3> DEFINE c == [p[r].copy EXCEPT !.status = p[r].status]
      <3>2. /\ p[r].id \in PaymentId /\ p[r].copy \in Payment /\ p[r].status \in Status
            /\ payments[p[r].id] # Nil
        BY <2>7 DEF SavePayment, CopyInv, PaymentInv, RowsInv, Handler
      <3>3. c \in Payment
        BY <3>2, SavedCopy
      <3>4. payments' = [payments EXCEPT ![p[r].id] = c] /\ payIdem' = payIdem
        BY <2>7 DEF SavePayment, PutPayment
      <3> HIDE DEF c
      <3>5. \A i \in PaymentId : payments'[i] = Nil <=> payments[i] = Nil
        BY <3>2, <3>3, <3>4, PayNilAssumption
      <3> QED BY <3>1, <3>4, <3>5, AnswerKeeps DEF Reply
    <2> QED BY <1>2, <2>1, <2>2, <2>3, <2>4, <2>5, <2>6, <2>7 DEF Step
  <1>3. ASSUME NEW r \in PayRequest, Fail(r)
        PROVE  CreateInv'
    BY <1>3, AnswerKeeps DEF Fail, UnchangedTable, Reply
  <1>4. CASE UNCHANGED <<payments, payIdem, p>>
    BY <1>4 DEF CreateInv, KeysStored, CreateHandler, Unwritten
  <1> QED BY <1>1, <1>2, <1>3, <1>4
          DEF Next, PaymentNext, Replicate, Settle, BookingChanges, vars

-----------------------------------------------------------------------------
(* The steps, under the refinement mapping of Payments *)

Told(r) == IF ToldPayment(r)
             THEN [id |-> p[r].id, created |-> p[r].reply = "created"]
             ELSE [id |-> NoPayment, created |-> FALSE]

\* What IdempotentCreate sees of the handlers.
Asked   == [r \in PayRequest |-> p[r].key]
Answers == [r \in PayRequest |-> Told(r)]

(***************************************************************************)
(* A step that binds no key and tells nobody of a payment is a stutter.    *)
(***************************************************************************)
LEMMA UntoldStep ==
  ASSUME p \in [PayRequest -> Handler], NEW r \in PayRequest, payIdem' = payIdem,
         p'[r].key = p[r].key, ~ToldPayment(r), ~ToldPayment(r)',
         \A q \in PayRequest \ {r} : p'[q] = p[q]
  PROVE  UNCHANGED <<payIdem, Asked, Answers>>
  <1>1. \A q \in PayRequest : p'[q].key = p[q].key
    OBVIOUS
  <1>2. \A q \in PayRequest : Told(q)' = Told(q)
    BY DEF Told, ToldPayment
  <1> QED BY <1>1, <1>2 DEF Asked, Answers

(***************************************************************************)
(* The transaction binds the key the request asked for.                    *)
(***************************************************************************)
LEMMA WriteBinds ==
  ASSUME TypeOK, CopyInv, CreateInv, NEW r \in PayRequest, WritePayment(r)
  PROVE  Idempotent!Bind(r)
  <1> USE DEF TypeOK
  <1>1. /\ p[r].key \in PayKey /\ p[r].key # Nil /\ payIdem[p[r].key] = NoPayment
        /\ p[r].reply = "none"
    BY PayNilAssumption DEF WritePayment, CopyInv, Creating, CreateInv, CreateHandler
  <1>2. /\ p'[r].key = p[r].key /\ p'[r].reply = "none"
        /\ \A q \in PayRequest \ {r} : p'[q] = p[q]
    BY <1>1, GotoFields DEF WritePayment, PC
  <1>3. Asked' = Asked
    BY <1>2 DEF Asked
  <1>4. \A q \in PayRequest : Told(q)' = Told(q)
    BY <1>1, <1>2 DEF Told, ToldPayment
  <1> QED BY <1>1, <1>3, <1>4 DEF WritePayment, Idempotent!Bind, Asked, Answers, Told

(***************************************************************************)
(* A 201 and a replay both answer with the payment the key is bound to,    *)
(* and only the one that bound it says it was created.                     *)
(***************************************************************************)
LEMMA ReplyAnswers ==
  ASSUME TypeOK, CopyInv, CreateInv, NEW r \in PayRequest,
         RespondCreated(r) \/ (ReplayPayment(r) /\ payments[p[r].id] # Nil)
  PROVE  Idempotent!Answer(r)
  <1> USE DEF TypeOK
  <1>1. /\ p[r].key \in PayKey /\ p[r].key # Nil /\ p[r].id = payIdem[p[r].key]
        /\ p[r].id \in PaymentId /\ ~ToldPayment(r)
    BY PayNilAssumption
       DEF RespondCreated, ReplayPayment, CopyInv, Creating, CreateInv, CreateHandler,
           ToldPayment
  <1>2. PICK a \in {"created", "replayed"} :
          /\ Answer(r, a) /\ payIdem' = payIdem
          /\ a = "created" <=> p[r].id = r
    BY DEF RespondCreated, ReplayPayment, CreateInv, CreateHandler, UnchangedTable
  <1>3. /\ p'[r].key = p[r].key /\ p'[r].id = p[r].id /\ p'[r].reply = a
        /\ \A q \in PayRequest \ {r} : p'[q] = p[q]
    BY <1>2, AnswerFields DEF Reply
  <1>4. Asked' = Asked
    BY <1>3 DEF Asked
  <1>5. Told(r)' = [id |-> payIdem[p[r].key], created |-> payIdem[p[r].key] = r]
    BY <1>1, <1>2, <1>3 DEF Told, ToldPayment
  <1>6. \A q \in PayRequest \ {r} : Told(q)' = Told(q)
    BY <1>3 DEF Told, ToldPayment
  <1>7. Answers' = [Answers EXCEPT ![r] = [id |-> payIdem[p[r].key],
                                           created |-> payIdem[p[r].key] = r]]
    BY <1>5, <1>6 DEF Answers
  <1>8. Told(r) = [id |-> NoPayment, created |-> FALSE]
    BY <1>1 DEF Told
  <1>9. payIdem[p[r].key] # NoPayment
    BY <1>1, PayRequestAssumption DEF NoPayment, PaymentId
  <1> QED BY <1>1, <1>2, <1>4, <1>7, <1>8, <1>9
          DEF Idempotent!Answer, Idempotent!Unanswered, Asked, Answers, Told

(***************************************************************************)
(* Everything Next can do is a step of IdempotentCreate or a stutter:      *)
(* arriving with a key asks, the transaction binds, and the 201 or the     *)
(* replay answers.  Webhooks, the provider and the bookings only stutter.  *)
(***************************************************************************)
THEOREM IdempotentNext ==
  TypeInv /\ CreateInv /\ [Next]_vars => [Idempotent!Next]_(Idempotent!vars)
  <1> SUFFICES ASSUME TypeOK, CopyInv, CreateInv, [Next]_vars
               PROVE  Idempotent!Next \/ UNCHANGED <<payIdem, Asked, Answers>>
    BY DEF TypeInv, Idempotent!vars, Asked, Answers, Told
  <1> USE DEF TypeOK
  <1>0. \A r \in PayRequest : p[r].pc # "done" => p[r].reply = "none"
    BY DEF CreateInv, CreateHandler
  <1>1. ASSUME NEW r \in PayRequest, NEW k \in PayKey, NEW b \in BookingId,
               NEW kind \in Kinds, NEW a \in Amount, ArrivePayment(r, k, b, kind, a)
        PROVE  Idempotent!Ask(r, k)
    <2>1. p[r].reply = "none" /\ p[r].key = Nil
      BY <1>1 DEF ArrivePayment, Arrives, CreateInv, CreateHandler, IdleHandler
    <2>2. /\ p'[r].key = k /\ p'[r].reply = "none" /\ payIdem' = payIdem
          /\ \A q \in PayRequest \ {r} : p'[q] = p[q]
      BY <1>1 DEF ArrivePayment, IdleHandler, UnchangedTable
    <2>3. Asked' = [Asked EXCEPT ![r] = k]
      BY <2>2 DEF Asked
    <2>4. \A q \in PayRequest : Told(q)' = Told(q)
      BY <2>1, <2>2 DEF Told, ToldPayment
    <2> QED BY <2>1, <2>2, <2>3, <2>4 DEF Idempotent!Ask, Asked, Answers, Told
  <1>2. ASSUME NEW r \in PayRequest, NEW i \in PaymentId, NEW st \in Status,
               ArriveWebhook(r, i, st)
        PROVE  UNCHANGED <<payIdem, Asked, Answers>>
    <2>1. p[r].reply = "none" /\ p[r].key = Nil
      BY <1>2 DEF ArriveWebhook, Arrives, CreateInv, CreateHandler, IdleHandler
    <2>2. /\ p'[r].key = Nil /\ p'[r].reply = "none" /\ payIdem' = payIdem
          /\ \A q \in PayRequest \ {r} : p'[q] = p[q]
      BY <1>2 DEF ArriveWebhook, IdleHandler, UnchangedTable
    <2> QED BY <2>1, <2>2, UntoldStep DEF ToldPayment
  <1>3. ASSUME NEW r \in PayRequest, Step(r) \/ Fail(r),
               ~WritePayment(r), ~RespondCreated(r),
               ~(ReplayPayment(r) /\ payments[p[r].id] # Nil)
        PROVE  UNCHANGED <<payIdem, Asked, Answers>>
    <2>1. p[r].pc # "done" /\ p[r].reply = "none"
      BY <1>0, <1>3 DEF Step, Fail, ReadBooking, LookupKey, WriteCancelled, RelookupKey,
                        ReplayPayment, LoadPayment, SavePayment
    <2>2. /\ p'[r].key = p[r].key /\ p'[r].reply \notin {"created", "replayed"}
          /\ \A q \in PayRequest \ {r} : p'[q] = p[q]
      <3>1. CASE ReadBooking(r) \/ WriteCancelled(r)
        BY <2>1, <3>1, GotoFields, AnswerFields DEF ReadBooking, WriteCancelled, PC, Reply
      <3>2. CASE LookupKey(r) \/ RelookupKey(r)
        <4>1. p[r].key \in PayKey
          BY <3>2 DEF LookupKey, RelookupKey, CopyInv, Creating
        <4>2. payIdem[p[r].key] # NoPayment => payIdem[p[r].key] \in PaymentId
          BY <4>1
        <4> QED BY <2>1, <3>2, <4>2, GotoFields, ReplayOfFields, AnswerFields
                DEF LookupKey, RelookupKey, PC, Reply
      <3>3. CASE ReplayPayment(r) \/ SavePayment(r) \/ Fail(r)
        BY <1>3, <3>3, AnswerFields DEF ReplayPayment, SavePayment, Fail, Reply
      <3>4. CASE LoadPayment(r)
        <4>1. p[r].id \in PaymentId
          BY <3>4 DEF LoadPayment, CopyInv
        <4> QED BY <2>1, <3>4, <4>1, HoldFields, AnswerFields DEF LoadPayment, Reply
      <3> QED BY <1>3, <3>1, <3>2, <3>3, <3>4 DEF Step
    <2>3. payIdem' = payIdem
      BY <1>3 DEF Step, Fail, ReadBooking, LookupKey, WriteCancelled, RelookupKey,
                  ReplayPayment, LoadPayment, SavePayment, UnchangedTable
    <2> QED BY <2>1, <2>2, <2>3, UntoldStep DEF ToldPayment
  <1>4. CASE UNCHANGED <<payIdem, p>>
    BY <1>4 DEF Asked, Answers, Told, ToldPayment
  <1>5. CASE \E r \in PayRequest : Arrive(r)
    BY <1>1, <1>2, <1>5 DEF Arrive, Idempotent!Next
  <1>6. CASE \E r \in PayRequest : Step(r) \/ Fail(r)
    BY <1>3, <1>6, WriteBinds, ReplyAnswers DEF Idempotent!Next
  <1> QED BY <1>4, <1>5, <1>6 DEF Next, PaymentNext, Replicate, Settle, BookingChanges, vars

(***************************************************************************)
(* CreatePayment keeps the promise of the Idempotency-Key header: a key is *)
(* bound to one payment for ever, every answer with a payment names the    *)
(* one its key is bound to, and only its creator is told it was created.   *)
(***************************************************************************)
THEOREM ImplementsIdempotency == Spec => ImplementsIdempotentCreate
  <1>1. Init => Idempotent!Init
    BY DEF Init, Idempotent!Init, Idempotent!Unanswered, IdleHandler, ToldPayment
  <1>2. PaymentInv => TypeInv
    BY DEF PaymentInv
  <1> QED BY PaymentInit, PaymentNextInv, CreateInit, CreateNext, <1>1, <1>2, IdempotentNext,
             PTL DEF Spec, ImplementsIdempotentCreate, Idempotent!Spec
=============================================================================

--------------------------- MODULE BookingsProofs ---------------------------
(***************************************************************************)
(* Machine-checked proofs about Bookings and BookingHistory, for every     *)
(* number of requests, keys, staff members and instants, with an index     *)
(* that trails or not.                                                     *)
(***************************************************************************)
EXTENDS BookingHistory, FiniteSetTheorems, TLAPS

(***************************************************************************)
(* What an arriving request puts in its handler is well typed.             *)
(***************************************************************************)
LEMMA IdleHandlerType == IdleHandler \in Handler
  BY DEF IdleHandler, Handler, PC, Reply, BookingId, NoBooking

(***************************************************************************)
(* The value Save writes is a booking.                                     *)
(***************************************************************************)
LEMMA SavedCopyType ==
  ASSUME NEW c \in Booking, NEW op \in LifecycleOp
  PROVE  [c EXCEPT !.status = To[op]] \in Booking
  BY DEF Booking, Status, LifecycleOp, To

(***************************************************************************)
(* The handlers that hold a copy, and what they are working on.  Needed    *)
(* for typing: Save writes the copy back.                                  *)
(***************************************************************************)
CopyInv ==
  \A r \in Request :
    /\ h[r].pc \in {"page", "write", "lookup", "gate", "save"} => h[r].copy # Nil
    /\ h[r].pc \in {"load", "gate", "save"} =>
         h[r].op \in LifecycleOp /\ h[r].id \in BookingId
    /\ h[r].pc = "gate" => h[r].op = "confirm"
    /\ h[r].pc = "page" =>
         /\ h[r].id \in BookingId
         /\ (h[r].op = "create" /\ h[r].key \in Key) \/ h[r].op = "confirm"
    /\ h[r].pc \in {"lookup", "write", "relookup", "replay", "remind"} =>
         h[r].op = "create" /\ h[r].key \in Key /\ h[r].id \in BookingId

TypeInv == TypeOK /\ CopyInv

(***************************************************************************)
(* What each step of a handler's local state changes, and what it leaves   *)
(* alone.                                                                  *)
(***************************************************************************)
LEMMA GotoFields ==
  ASSUME h \in [Request -> Handler], NEW r \in Request, NEW l \in PC, Goto(r, l)
  PROVE  /\ h' \in [Request -> Handler]
         /\ h'[r].pc = l
         /\ h'[r].op = h[r].op /\ h'[r].key = h[r].key /\ h'[r].id = h[r].id /\ h'[r].copy = h[r].copy /\ h'[r].reply = h[r].reply
         /\ \A q \in Request \ {r} : h'[q] = h[q]
  <1> DEFINE n(x) == [x EXCEPT !.pc = l]
  <1>1. \A x \in Handler :
          /\ n(x) \in Handler
          /\ n(x).pc = l
          /\ n(x).op = x.op /\ n(x).key = x.key /\ n(x).id = x.id /\ n(x).copy = x.copy /\ n(x).reply = x.reply
    BY DEF Handler, PC
  <1>2. h' = [h EXCEPT ![r] = n(h[r])]
    BY DEF Goto
  <1> HIDE DEF n
  <1> QED BY <1>1, <1>2

(***************************************************************************)
(* Answer(r, a) ends r's handler with the reply a and touches nothing else *)
(* of it or of other handlers.                                             *)
(***************************************************************************)
LEMMA AnswerFields ==
  ASSUME h \in [Request -> Handler], NEW r \in Request, NEW a \in Reply, Answer(r, a)
  PROVE  /\ h' \in [Request -> Handler]
         /\ h'[r].pc = "done" /\ h'[r].reply = a
         /\ h'[r].op = h[r].op /\ h'[r].key = h[r].key /\ h'[r].id = h[r].id /\ h'[r].copy = h[r].copy
         /\ \A q \in Request \ {r} : h'[q] = h[q]
  <1> DEFINE n(x) == [x EXCEPT !.pc = "done", !.reply = a]
  <1>1. \A x \in Handler :
          /\ n(x) \in Handler
          /\ n(x).pc = "done" /\ n(x).reply = a
          /\ n(x).op = x.op /\ n(x).key = x.key /\ n(x).id = x.id /\ n(x).copy = x.copy
    BY DEF Handler, PC
  <1>2. h' = [h EXCEPT ![r] = n(h[r])]
    BY DEF Answer
  <1> HIDE DEF n
  <1> QED BY <1>1, <1>2

(***************************************************************************)
(* Hold(r, l, b) leaves r with the row it read in memory, at the call l.   *)
(***************************************************************************)
LEMMA HoldFields ==
  ASSUME h \in [Request -> Handler], NEW r \in Request, NEW l \in PC, NEW b \in Booking, Hold(r, l, b)
  PROVE  /\ h' \in [Request -> Handler]
         /\ h'[r].pc = l /\ h'[r].copy = b
         /\ h'[r].op = h[r].op /\ h'[r].key = h[r].key /\ h'[r].id = h[r].id /\ h'[r].reply = h[r].reply
         /\ h'[r].page = h[r].page /\ h'[r].after = h[r].after
         /\ \A q \in Request \ {r} : h'[q] = h[q]
  <1> DEFINE n(x) == [x EXCEPT !.pc = l, !.copy = b]
  <1>1. \A x \in Handler :
          /\ n(x) \in Handler
          /\ n(x).pc = l /\ n(x).copy = b
          /\ n(x).op = x.op /\ n(x).key = x.key /\ n(x).id = x.id /\ n(x).reply = x.reply
          /\ n(x).page = x.page /\ n(x).after = x.after
    BY DEF Handler
  <1>2. h' = [h EXCEPT ![r] = n(h[r])]
    BY DEF Hold
  <1> HIDE DEF n
  <1> QED BY <1>1, <1>2

(***************************************************************************)
(* ReplayOf(r, b) turns r into a replay of booking b.                      *)
(***************************************************************************)
LEMMA ReplayOfFields ==
  ASSUME h \in [Request -> Handler], NEW r \in Request, NEW b \in BookingId, ReplayOf(r, b)
  PROVE  /\ h' \in [Request -> Handler]
         /\ h'[r].pc = "replay" /\ h'[r].id = b
         /\ h'[r].op = h[r].op /\ h'[r].key = h[r].key /\ h'[r].copy = h[r].copy /\ h'[r].reply = h[r].reply
         /\ \A q \in Request \ {r} : h'[q] = h[q]
  <1> DEFINE n(x) == [x EXCEPT !.pc = "replay", !.id = b]
  <1>1. \A x \in Handler :
          /\ n(x) \in Handler
          /\ n(x).pc = "replay" /\ n(x).id = b
          /\ n(x).op = x.op /\ n(x).key = x.key /\ n(x).copy = x.copy /\ n(x).reply = x.reply
    BY DEF Handler, PC
  <1>2. h' = [h EXCEPT ![r] = n(h[r])]
    BY DEF ReplayOf
  <1> HIDE DEF n
  <1> QED BY <1>1, <1>2

(***************************************************************************)
(* ReadOn(r, k, c) moves r one page on in the index and leaves everything  *)
(* else of it alone.                                                       *)
(***************************************************************************)
LEMMA ReadOnFields ==
  ASSUME h \in [Request -> Handler], NEW r \in Request, NEW k \in Int \X Int, NEW c \in BOOLEAN, ReadOn(r, k, c)
  PROVE  /\ h' \in [Request -> Handler]
         /\ h'[r].pc = h[r].pc
         /\ h'[r].page = h[r].page + 1 /\ h'[r].after = k /\ h'[r].clash = c
         /\ h'[r].op = h[r].op /\ h'[r].key = h[r].key /\ h'[r].id = h[r].id /\ h'[r].copy = h[r].copy /\ h'[r].reply = h[r].reply
         /\ \A q \in Request \ {r} : h'[q] = h[q]
  <1> DEFINE n(x, p) == [x EXCEPT !.page = p, !.after = k, !.clash = c]
  <1>1. h[r].page + 1 \in Nat
    BY DEF Handler
  <1>2. ASSUME NEW p \in Nat
        PROVE  n(h[r], p) \in Handler
    <2>1. \A x \in Handler : [x EXCEPT !.page = p, !.after = k, !.clash = c] \in Handler
      BY DEF Handler
    <2> QED BY <2>1
  <1>3. ASSUME NEW p \in Nat
        PROVE  /\ n(h[r], p).pc = h[r].pc
               /\ n(h[r], p).op = h[r].op /\ n(h[r], p).key = h[r].key
               /\ n(h[r], p).id = h[r].id /\ n(h[r], p).copy = h[r].copy
               /\ n(h[r], p).reply = h[r].reply
    BY DEF Handler
  <1>4. ASSUME NEW p \in Nat
        PROVE  n(h[r], p).page = p /\ n(h[r], p).after = k /\ n(h[r], p).clash = c
    BY DEF Handler
  <1>5. h' = [h EXCEPT ![r] = n(h[r], h[r].page + 1)]
    BY DEF ReadOn
  <1> HIDE DEF n
  <1> QED BY <1>1, <1>2, <1>3, <1>4, <1>5

(***************************************************************************)
(* The empty table and the idle handlers have their types.                 *)
(***************************************************************************)
THEOREM TypeInit == Init => TypeInv
  <1> SUFFICES ASSUME Init PROVE TypeInv
    OBVIOUS
  <1>1. TypeOK
    BY IdleHandlerType DEF Init, TypeOK, NoBooking
  <1>2. CopyInv
    BY DEF Init, CopyInv, IdleHandler
  <1> QED BY <1>1, <1>2 DEF TypeInv

(***************************************************************************)
(* Every call of every handler, every failure and every index update keeps *)
(* the types: one step per action.                                         *)
(***************************************************************************)
THEOREM TypeNext == TypeInv /\ [Next]_vars => TypeInv'
  <1> SUFFICES ASSUME TypeOK, CopyInv, [Next]_vars
               PROVE  TypeOK' /\ CopyInv'
    BY DEF TypeInv
  <1> USE DEF TypeOK, BookingId
  <1>1. ASSUME NEW r \in Request, NEW k \in Key, NEW s \in Staff,
               NEW t0 \in Instant, NEW t1 \in Instant,
               ArriveCreate(r, k, s, t0, t1)
        PROVE  TypeOK' /\ CopyInv'
    <2> DEFINE c == [staff |-> s, start |-> t0, end |-> t1, status |-> "created"]
               n == [IdleHandler EXCEPT !.pc = "page", !.op = "create",
                                        !.key = k, !.id = r, !.copy = c]
    <2>1. c \in Booking
      BY DEF Booking, Status
    <2>2. n \in Handler
      BY <2>1, IdleHandlerType DEF Handler, PC
    <2>3. h' = [h EXCEPT ![r] = n]
      BY <1>1 DEF ArriveCreate
    <2>4. n.pc = "page" /\ n.copy = c /\ n.id = r /\ n.op = "create" /\ n.key = k
      BY DEF IdleHandler
    <2> HIDE DEF n, c
    <2>5. TypeOK'
      BY <1>1, <2>2, <2>3 DEF ArriveCreate, UnchangedTable
    <2>6. CopyInv'
      BY <2>1, <2>2, <2>3, <2>4, NilAssumption DEF CopyInv
    <2> QED BY <2>5, <2>6
  <1>2. ASSUME NEW r \in Request, NEW op \in Ops, NEW b \in BookingId,
               ArriveLifecycle(r, op, b)
        PROVE  TypeOK' /\ CopyInv'
    <2> DEFINE n == [IdleHandler EXCEPT !.pc = "load", !.op = op, !.id = b]
    <2>1. op \in LifecycleOp
      BY OpsAssumption
    <2>2. n \in Handler
      BY <2>1, IdleHandlerType DEF Handler, PC
    <2>3. h' = [h EXCEPT ![r] = n]
      BY <1>2 DEF ArriveLifecycle
    <2>4. n.pc = "load" /\ n.id = b /\ n.op = op
      BY DEF IdleHandler
    <2> HIDE DEF n
    <2>5. TypeOK'
      BY <1>2, <2>2, <2>3 DEF ArriveLifecycle, UnchangedTable
    <2>6. CopyInv'
      BY <2>1, <2>2, <2>3, <2>4 DEF CopyInv
    <2> QED BY <2>5, <2>6
  <1>3. ASSUME NEW r \in Request, Step(r)
        PROVE  TypeOK' /\ CopyInv'
    <2> h[r] \in Handler
      OBVIOUS
    <2>1. CASE NextPage(r)
      <3> PICK b \in Page(r) : ReadOn(r, SortKey(b), Clash(r))
        BY <2>1 DEF NextPage
      <3>1. gsi1[b] \in Booking /\ b \in Nat
        BY RequestAssumption DEF Page, Rest
      <3>2. SortKey(b) \in Int \X Int
        <4>1. gsi1[b].start \in Nat
          BY <3>1, InstantAssumption DEF Booking
        <4>2. TextOrder(gsi1[b].start) \in Int
          BY <4>1 DEF TextOrder
        <4> QED BY <3>1, <4>2 DEF SortKey
      <3>3. Clash(r) \in BOOLEAN
        BY DEF Clash, Handler
      <3> QED BY <2>1, <3>2, <3>3, ReadOnFields DEF NextPage, UnchangedTable, CopyInv
    <2>2. CASE RejectOverlap(r)
      BY <2>2, AnswerFields DEF RejectOverlap, UnchangedTable, CopyInv, Reply
    <2>3. CASE AcceptSlot(r)
      BY <2>3, GotoFields DEF AcceptSlot, UnchangedTable, CopyInv, PC, LifecycleOp
    <2>4. CASE LookupKey(r)
      BY <2>4, GotoFields, ReplayOfFields
         DEF LookupKey, UnchangedTable, CopyInv, PC, NoBooking
    <2>5. CASE WriteBooking(r)
      BY <2>5, GotoFields DEF WriteBooking, PutBooking, CopyInv, Handler, PC
    <2>6. CASE WriteCancelled(r)
      BY <2>6, GotoFields DEF WriteCancelled, UnchangedTable, CopyInv, PC
    <2>7. CASE RelookupKey(r)
      BY <2>7, AnswerFields, ReplayOfFields
         DEF RelookupKey, UnchangedTable, CopyInv, Reply, NoBooking
    <2>8. CASE ReplayBooking(r)
      BY <2>8, AnswerFields DEF ReplayBooking, UnchangedTable, CopyInv, Reply
    <2>9. CASE Remind(r)
      BY <2>9, AnswerFields DEF Remind, CopyInv, Reply
    <2>10. CASE LoadMissing(r)
      BY <2>10, AnswerFields DEF LoadMissing, UnchangedTable, CopyInv, Reply
    <2>11. CASE Load(r)
      <3>1. bookings[h[r].id] \in Booking
        BY <2>11 DEF Load, CopyInv
      <3> QED BY <2>11, <3>1, HoldFields, AnswerFields, NilAssumption
              DEF Load, UnchangedTable, CopyInv, PC, Reply
    <2>12. CASE Save(r)
      <3> DEFINE c == [h[r].copy EXCEPT !.status = To[h[r].op]]
      <3>1. h[r].copy \in Booking /\ h[r].op \in LifecycleOp /\ h[r].id \in BookingId
        BY <2>12 DEF Save, CopyInv, Handler
      <3>2. c \in Booking
        BY <3>1, SavedCopyType
      <3>3. PutBooking(h[r].id, c)
        BY <2>12 DEF Save
      <3> HIDE DEF c
      <3> QED BY <2>12, <3>1, <3>2, <3>3, AnswerFields
              DEF Save, PutBooking, CopyInv, Reply
    <2>13. ASSUME NEW paid \in BOOLEAN, ConfirmGate(r, paid)
           PROVE  TypeOK' /\ CopyInv'
      BY <2>13, GotoFields, AnswerFields
         DEF ConfirmGate, UnchangedTable, CopyInv, PC, Reply
    <2> QED BY <1>3, <2>1, <2>2, <2>3, <2>4, <2>5, <2>6, <2>7, <2>8, <2>9, <2>10,
               <2>11, <2>12, <2>13 DEF Step
  <1>4. ASSUME NEW r \in Request, Fail(r)
        PROVE  TypeOK' /\ CopyInv'
    BY <1>4, AnswerFields DEF Fail, UnchangedTable, CopyInv, Reply
  <1>5. ASSUME NEW b \in BookingId, Replicate(b)
        PROVE  TypeOK' /\ CopyInv'
    BY <1>5 DEF Replicate, CopyInv
  <1>6. CASE UNCHANGED vars
    BY <1>6 DEF vars, CopyInv
  <1> QED BY <1>1, <1>2, <1>3, <1>4, <1>5, <1>6 DEF Next, Arrive, AllAnswered

(***************************************************************************)
(* The types hold in every reachable state.                                *)
(***************************************************************************)
THEOREM TypeCorrect == Spec => []TypeOK
  <1>1. TypeInv => TypeOK
    BY DEF TypeInv
  <1> QED BY TypeInit, TypeNext, <1>1, PTL DEF Spec

(***************************************************************************)
(* The strengthening behind the idempotency properties.  A stored booking  *)
(* and its idempotency row point at each other through the key of the      *)
(* request that made them; a request that has not written yet owns no row; *)
(* and a handler past its lookup knows what its key is bound to.           *)
(***************************************************************************)
Unwritten(r) ==
  \/ h[r].pc = "idle"
  \/ h[r].op = "create" /\ h[r].pc \in {"page", "lookup", "write", "relookup"}

KeyRows ==
  /\ \A k \in Key : idem[k] # NoBooking => bookings[idem[k]] # Nil /\ h[idem[k]].key = k
  /\ \A b \in BookingId : bookings[b] # Nil => h[b].key \in Key /\ idem[h[b].key] = b

KeyHandler(r) ==
  /\ h[r].pc # "done" => h[r].reply = "none"
  /\ Unwritten(r) => bookings[r] = Nil
  /\ Unwritten(r) /\ h[r].pc # "idle" => h[r].id = r
  /\ h[r].pc = "replay" => h[r].id = idem[h[r].key] /\ h[r].id # r
  /\ h[r].pc = "remind" => h[r].id = idem[h[r].key] /\ h[r].id = r
  /\ h[r].pc \in {"gate", "save"} \/ (h[r].pc = "page" /\ h[r].op = "confirm")
       => bookings[h[r].id] # Nil
  /\ ToldBooking(r) =>
       /\ h[r].key \in Key /\ h[r].id \in BookingId /\ h[r].id = idem[h[r].key]
       /\ (h[r].reply = "created") <=> (h[r].id = r)

KeyInv == KeyRows /\ \A r \in Request : KeyHandler(r)

(***************************************************************************)
(* No key is bound and nobody has been answered, so idempotency rows and   *)
(* answers agree at first.                                                 *)
(***************************************************************************)
THEOREM KeyInit == Init => KeyInv
  <1> SUFFICES ASSUME Init PROVE KeyInv
    OBVIOUS
  <1>1. KeyRows
    BY DEF Init, KeyRows, BookingId
  <1>2. ASSUME NEW r \in Request PROVE KeyHandler(r)
    BY DEF Init, KeyHandler, Unwritten, IdleHandler, ToldBooking, BookingId
  <1> QED BY <1>1, <1>2 DEF KeyInv

(***************************************************************************)
(* A step that leaves the rows alone and changes one handler keeps the     *)
(* invariant if that handler still satisfies it.                           *)
(***************************************************************************)
LEMMA LocalStep ==
  ASSUME TypeOK, KeyInv, NEW r \in Request,
         bookings' = bookings, idem' = idem,
         \A q \in Request \ {r} : h'[q] = h[q],
         h'[r].key = h[r].key \/ bookings[r] = Nil,
         KeyHandler(r)'
  PROVE  KeyInv'
  <1>0. \A b \in BookingId : bookings[b] # Nil => h'[b].key = h[b].key
    BY DEF BookingId
  <1>1. KeyRows'
    <2>1. ASSUME NEW k \in Key, idem[k] # NoBooking
          PROVE  idem[k] \in BookingId /\ bookings[idem[k]] # Nil /\ h'[idem[k]].key = k
      BY <1>0, <2>1 DEF KeyInv, KeyRows, TypeOK
    <2>2. ASSUME NEW b \in BookingId, bookings[b] # Nil
          PROVE  h'[b].key \in Key /\ idem[h'[b].key] = b
      BY <1>0, <2>2 DEF KeyInv, KeyRows
    <2> QED BY <2>1, <2>2 DEF KeyRows
  <1>2. ASSUME NEW q \in Request \ {r} PROVE KeyHandler(q)'
    <2>1. KeyHandler(q) /\ h'[q] = h[q]
      BY DEF KeyInv
    <2> QED BY <2>1 DEF KeyHandler, Unwritten, ToldBooking
  <1> QED BY <1>1, <1>2 DEF KeyInv

(***************************************************************************)
(* Answering a request with anything but a booking keeps the invariant.    *)
(***************************************************************************)
LEMMA AnswerKeeps ==
  ASSUME TypeOK, KeyInv, NEW r \in Request, NEW a \in Reply \ {"created", "replayed"},
         bookings' = bookings, idem' = idem, Answer(r, a)
  PROVE  KeyInv'
  <1>1. h \in [Request -> Handler]
    BY DEF TypeOK
  <1>2. /\ h'[r].pc = "done" /\ h'[r].reply = a /\ h'[r].key = h[r].key
        /\ \A q \in Request \ {r} : h'[q] = h[q]
    BY <1>1, AnswerFields
  <1>3. KeyHandler(r)'
    BY <1>2 DEF KeyHandler, Unwritten, ToldBooking
  <1> QED BY <1>2, <1>3, LocalStep

(***************************************************************************)
(* A create that has not written goes on to another call before its write. *)
(***************************************************************************)
LEMMA LookupGoes ==
  ASSUME TypeOK, KeyInv, NEW r \in Request, NEW l \in {"write", "relookup"},
         h[r].op = "create", h[r].pc \in {"lookup", "write"},
         bookings' = bookings, idem' = idem, Goto(r, l)
  PROVE  KeyInv'
  <1>1. /\ h'[r].pc = l /\ h'[r].op = h[r].op /\ h'[r].key = h[r].key
        /\ h'[r].id = h[r].id /\ h'[r].reply = h[r].reply
        /\ \A q \in Request \ {r} : h'[q] = h[q]
    BY GotoFields DEF TypeOK, PC
  <1>2. KeyHandler(r)
    BY DEF KeyInv
  <1>3. KeyHandler(r)'
    BY <1>1, <1>2 DEF KeyHandler, Unwritten, ToldBooking
  <1> QED BY <1>1, <1>3, LocalStep

(***************************************************************************)
(* A create that finds its key bound replays the booking of another one.   *)
(***************************************************************************)
LEMMA ReplayKeeps ==
  ASSUME TypeOK, KeyInv, NEW r \in Request, Unwritten(r), h[r].pc # "idle",
         h[r].key \in Key, idem[h[r].key] # NoBooking,
         bookings' = bookings, idem' = idem, ReplayOf(r, idem[h[r].key])
  PROVE  KeyInv'
  <1>1. idem[h[r].key] \in BookingId
    BY DEF TypeOK
  <1>2. /\ h'[r].pc = "replay" /\ h'[r].id = idem[h[r].key] /\ h'[r].key = h[r].key
        /\ h'[r].reply = h[r].reply
        /\ \A q \in Request \ {r} : h'[q] = h[q]
    BY <1>1, ReplayOfFields DEF TypeOK
  <1>3. h[r].reply = "none" /\ bookings[r] = Nil
    BY DEF KeyInv, KeyHandler, Unwritten
  <1>4. idem[h[r].key] # r
    BY <1>3 DEF KeyInv, KeyRows
  <1>5. KeyHandler(r)'
    BY <1>2, <1>3, <1>4 DEF KeyHandler, Unwritten, ToldBooking
  <1> QED BY <1>2, <1>5, LocalStep

(***************************************************************************)
(* Answering a create with the booking its key is bound to.                *)
(***************************************************************************)
LEMMA ToldKeeps ==
  ASSUME TypeOK, KeyInv, NEW r \in Request, NEW a \in {"created", "replayed"},
         h[r].key \in Key, h[r].id \in BookingId, h[r].id = idem[h[r].key],
         a = "created" <=> h[r].id = r,
         bookings' = bookings, idem' = idem, Answer(r, a)
  PROVE  KeyInv'
  <1>1. /\ h'[r].pc = "done" /\ h'[r].reply = a /\ h'[r].key = h[r].key
        /\ h'[r].id = h[r].id
        /\ \A q \in Request \ {r} : h'[q] = h[q]
    BY AnswerFields DEF TypeOK, Reply
  <1>2. KeyHandler(r)'
    BY <1>1 DEF KeyHandler, Unwritten, ToldBooking
  <1> QED BY <1>1, <1>2, LocalStep

(***************************************************************************)
(* The transaction binds a key that is free to a booking that is new.      *)
(***************************************************************************)
LEMMA WriteKeeps ==
  ASSUME TypeOK, CopyInv, KeyInv, NEW r \in Request, WriteBooking(r)
  PROVE  KeyInv'
  <1>1. /\ h[r].pc = "write" /\ h[r].op = "create" /\ h[r].key \in Key
        /\ h[r].copy # Nil /\ idem[h[r].key] = NoBooking /\ bookings[r] = Nil
        /\ idem' = [idem EXCEPT ![h[r].key] = r]
        /\ bookings' = [bookings EXCEPT ![r] = h[r].copy]
        /\ Goto(r, "remind")
    BY DEF WriteBooking, CopyInv, PutBooking
  <1>2. /\ h'[r].pc = "remind" /\ h'[r].op = h[r].op /\ h'[r].key = h[r].key
        /\ h'[r].id = h[r].id /\ h'[r].reply = h[r].reply
        /\ \A q \in Request \ {r} : h'[q] = h[q]
    BY <1>1, GotoFields DEF TypeOK, PC
  <1>3. KeyHandler(r) /\ KeyRows
    BY DEF KeyInv
  <1>4. \A q \in Request : h'[q].key = h[q].key
    BY <1>2
  <1>5. KeyRows'
    <2>1. ASSUME NEW k \in Key, idem'[k] # NoBooking
          PROVE  bookings'[idem'[k]] # Nil /\ h'[idem'[k]].key = k
      <3>1. CASE k = h[r].key
        BY <1>1, <1>4, <3>1 DEF TypeOK, BookingId
      <3>2. CASE k # h[r].key
        <4>1. idem'[k] = idem[k] /\ idem[k] \in Request
          BY <1>1, <2>1, <3>2 DEF TypeOK, BookingId
        <4>2. bookings[idem[k]] # Nil /\ h[idem[k]].key = k
          BY <1>3, <2>1, <4>1 DEF KeyRows
        <4> QED BY <1>1, <1>4, <4>1, <4>2 DEF TypeOK, BookingId
      <3> QED BY <3>1, <3>2
    <2>2. ASSUME NEW b \in BookingId, bookings'[b] # Nil
          PROVE  h'[b].key \in Key /\ idem'[h'[b].key] = b
      <3>1. CASE b = r
        BY <1>1, <1>2, <3>1 DEF TypeOK, BookingId
      <3>2. CASE b # r
        <4>1. bookings[b] # Nil
          BY <1>1, <2>2, <3>2 DEF TypeOK
        <4>2. h[b].key \in Key /\ idem[h[b].key] = b
          BY <1>3, <4>1 DEF KeyRows
        <4>3. h[b].key # h[r].key
          BY <1>1, <4>2, RequestAssumption DEF BookingId, NoBooking
        <4> QED BY <1>1, <1>4, <4>2, <4>3 DEF TypeOK, BookingId
      <3> QED BY <3>1, <3>2
    <2> QED BY <2>1, <2>2 DEF KeyRows
  <1>6. KeyHandler(r)'
    BY <1>1, <1>2, <1>3 DEF KeyHandler, Unwritten, ToldBooking, TypeOK
  <1>7. ASSUME NEW q \in Request \ {r} PROVE KeyHandler(q)'
    <2>1. KeyHandler(q) /\ h'[q] = h[q]
      BY <1>2 DEF KeyInv
    <2>2. bookings'[q] = bookings[q]
      BY <1>1 DEF TypeOK, BookingId
    <2>3. h[q].pc = "replay" \/ h[q].pc = "remind" => h[q].key \in Key /\ h[q].id \in BookingId
      BY DEF CopyInv
    <2>4. ASSUME h[q].key \in Key, h[q].id \in BookingId, h[q].id = idem[h[q].key]
          PROVE  h[q].id = idem'[h[q].key]
      BY <1>1, <2>4, RequestAssumption DEF TypeOK, BookingId, NoBooking
    <2>5. bookings[h[q].id] # Nil => bookings'[h[q].id] # Nil
      BY <1>1 DEF TypeOK, BookingId
    <2> QED BY <2>1, <2>2, <2>3, <2>4, <2>5 DEF KeyHandler, Unwritten, ToldBooking
  <1> QED BY <1>5, <1>6, <1>7 DEF KeyInv

(***************************************************************************)
(* Saving overwrites a row that exists, and makes none.                    *)
(***************************************************************************)
LEMMA SaveKeeps ==
  ASSUME TypeOK, CopyInv, KeyInv, NEW r \in Request, Save(r)
  PROVE  KeyInv'
  <1> DEFINE c == [h[r].copy EXCEPT !.status = To[h[r].op]]
  <1>1. h[r].copy \in Booking /\ h[r].op \in LifecycleOp /\ h[r].id \in BookingId
    BY DEF Save, CopyInv, Handler, TypeOK
  <1>2. c # Nil
    BY <1>1, SavedCopyType, NilAssumption
  <1>3. /\ h[r].pc = "save" /\ idem' = idem
        /\ bookings' = [bookings EXCEPT ![h[r].id] = c]
        /\ \E a \in {"ok", "lost"} : Answer(r, a)
    BY DEF Save, PutBooking
  <1> HIDE DEF c
  <1>4. /\ h'[r].pc = "done" /\ h'[r].reply \in {"ok", "lost"} /\ h'[r].key = h[r].key
        /\ \A q \in Request \ {r} : h'[q] = h[q]
    BY <1>3, AnswerFields DEF TypeOK, Reply
  <1>5. bookings[h[r].id] # Nil
    BY <1>3 DEF KeyInv, KeyHandler
  <1>6. \A b \in BookingId : bookings'[b] = Nil <=> bookings[b] = Nil
    BY <1>1, <1>2, <1>3, <1>5 DEF TypeOK
  <1>7. \A q \in Request : h'[q].key = h[q].key
    BY <1>4
  <1>8. KeyRows'
    BY <1>3, <1>6, <1>7 DEF KeyInv, KeyRows, TypeOK, BookingId
  <1>9. KeyHandler(r)'
    BY <1>4 DEF KeyHandler, Unwritten, ToldBooking
  <1>10. ASSUME NEW q \in Request \ {r} PROVE KeyHandler(q)'
    <2>1. KeyHandler(q) /\ h'[q] = h[q]
      BY <1>4 DEF KeyInv
    <2>2. h[q].pc \in {"gate", "save", "page"} => h[q].id \in BookingId
      BY DEF CopyInv
    <2> QED BY <1>3, <1>6, <2>1, <2>2 DEF KeyHandler, Unwritten, ToldBooking, BookingId
  <1> QED BY <1>8, <1>9, <1>10 DEF KeyInv

(***************************************************************************)
(* Every step keeps idempotency rows, booking rows and answers in          *)
(* agreement; only the transaction and Save write booking rows, and only   *)
(* the transaction binds a key.                                            *)
(***************************************************************************)
THEOREM KeyNext == TypeInv /\ KeyInv /\ [Next]_vars => KeyInv'
  <1> SUFFICES ASSUME TypeOK, CopyInv, KeyInv, [Next]_vars
               PROVE  KeyInv'
    BY DEF TypeInv
  <1> h \in [Request -> Handler]
    BY DEF TypeOK
  <1>1. ASSUME NEW r \in Request, NEW k \in Key, NEW s \in Staff,
               NEW t0 \in Instant, NEW t1 \in Instant,
               ArriveCreate(r, k, s, t0, t1)
        PROVE  KeyInv'
    <2>1. /\ h'[r].pc = "page" /\ h'[r].op = "create" /\ h'[r].id = r
          /\ h'[r].reply = "none"
          /\ \A q \in Request \ {r} : h'[q] = h[q]
      BY <1>1 DEF ArriveCreate, IdleHandler
    <2>2. h[r].pc = "idle" /\ bookings' = bookings /\ idem' = idem
      BY <1>1 DEF ArriveCreate, Arrives, UnchangedTable
    <2>3. bookings[r] = Nil
      BY <2>2 DEF KeyInv, KeyHandler, Unwritten
    <2>4. KeyHandler(r)'
      BY <2>1, <2>2, <2>3 DEF KeyHandler, Unwritten, ToldBooking
    <2> QED BY <2>1, <2>2, <2>3, <2>4, LocalStep
  <1>2. ASSUME NEW r \in Request, NEW op \in Ops, NEW b \in BookingId,
               ArriveLifecycle(r, op, b)
        PROVE  KeyInv'
    <2>1. /\ h'[r].pc = "load" /\ h'[r].op = op /\ h'[r].reply = "none"
          /\ \A q \in Request \ {r} : h'[q] = h[q]
      BY <1>2 DEF ArriveLifecycle, IdleHandler
    <2>2. h[r].pc = "idle" /\ bookings' = bookings /\ idem' = idem
      BY <1>2 DEF ArriveLifecycle, Arrives, UnchangedTable
    <2>3. bookings[r] = Nil
      BY <2>2 DEF KeyInv, KeyHandler, Unwritten
    <2>4. KeyHandler(r)'
      BY <2>1, <2>2, <2>3 DEF KeyHandler, Unwritten, ToldBooking
    <2> QED BY <2>1, <2>2, <2>3, <2>4, LocalStep
  <1>3. ASSUME NEW r \in Request, Step(r)
        PROVE  KeyInv'
    <2>0. KeyRows /\ KeyHandler(r)
      BY DEF KeyInv
    <2>1. CASE NextPage(r)
      <3> PICK b \in Page(r) : ReadOn(r, SortKey(b), Clash(r))
        BY <2>1 DEF NextPage
      <3> DEFINE n == [h[r] EXCEPT !.page = @ + 1, !.after = SortKey(b),
                                   !.clash = Clash(r)]
      <3>1. /\ n.pc = h[r].pc /\ n.op = h[r].op /\ n.key = h[r].key
            /\ n.id = h[r].id /\ n.reply = h[r].reply
        BY DEF Handler
      <3>2. h' = [h EXCEPT ![r] = n]
        BY DEF ReadOn
      <3> HIDE DEF n
      <3>3. KeyHandler(r)'
        BY <2>0, <2>1, <3>1, <3>2
           DEF NextPage, UnchangedTable, KeyHandler, Unwritten, ToldBooking
      <3> QED BY <2>1, <3>1, <3>2, <3>3, LocalStep DEF NextPage, UnchangedTable
    <2>2. CASE RejectOverlap(r)
      <3>1. Answer(r, "conflict") /\ bookings' = bookings /\ idem' = idem
        BY <2>2 DEF RejectOverlap, UnchangedTable
      <3> QED BY <3>1, AnswerKeeps DEF Reply
    <2>3. CASE AcceptSlot(r)
      <3>1. PICK l \in {"lookup", "gate"} :
              /\ Goto(r, l) /\ bookings' = bookings /\ idem' = idem
              /\ h[r].op = "create" <=> l = "lookup"
        BY <2>3 DEF AcceptSlot, UnchangedTable
      <3>2. h[r].pc = "page" /\ (h[r].op = "create" \/ h[r].op = "confirm")
        BY <2>3 DEF AcceptSlot, CopyInv
      <3>3. /\ h'[r].pc = l /\ h'[r].op = h[r].op /\ h'[r].key = h[r].key
            /\ h'[r].id = h[r].id /\ h'[r].reply = h[r].reply
            /\ \A q \in Request \ {r} : h'[q] = h[q]
        BY <3>1, GotoFields DEF PC
      <3>4. KeyHandler(r)'
        BY <2>0, <3>1, <3>2, <3>3 DEF KeyHandler, Unwritten, ToldBooking
      <3> QED BY <3>1, <3>3, <3>4, LocalStep
    <2>4. CASE LookupKey(r)
      <3>1. /\ h[r].pc = "lookup" /\ h[r].op = "create" /\ h[r].key \in Key
            /\ bookings' = bookings /\ idem' = idem
        BY <2>4 DEF LookupKey, UnchangedTable, CopyInv
      <3>2. CASE idem[h[r].key] = NoBooking
        BY <2>0, <2>4, <3>1, <3>2, LookupGoes DEF LookupKey, PC
      <3>3. CASE idem[h[r].key] # NoBooking
        BY <2>4, <3>1, <3>3, ReplayKeeps DEF LookupKey, Unwritten
      <3> QED BY <3>2, <3>3
    <2>5. CASE WriteBooking(r)
      <3> QED BY <2>5, WriteKeeps
    <2>6. CASE WriteCancelled(r)
      <3>1. /\ h[r].pc = "write" /\ h[r].op = "create"
            /\ bookings' = bookings /\ idem' = idem /\ Goto(r, "relookup")
        BY <2>6 DEF WriteCancelled, UnchangedTable, CopyInv
      <3> QED BY <3>1, LookupGoes DEF PC
    <2>7. CASE RelookupKey(r)
      <3>1. /\ h[r].pc = "relookup" /\ h[r].op = "create" /\ h[r].key \in Key
            /\ bookings' = bookings /\ idem' = idem
        BY <2>7 DEF RelookupKey, UnchangedTable, CopyInv
      <3>2. CASE idem[h[r].key] = NoBooking
        BY <2>7, <3>1, <3>2, AnswerKeeps DEF RelookupKey, Reply
      <3>3. CASE idem[h[r].key] # NoBooking
        BY <2>7, <3>1, <3>3, ReplayKeeps DEF RelookupKey, Unwritten
      <3> QED BY <3>2, <3>3
    <2>8. CASE ReplayBooking(r)
      <3>1. /\ h[r].pc = "replay" /\ h[r].key \in Key /\ h[r].id \in BookingId
            /\ bookings' = bookings /\ idem' = idem
        BY <2>8 DEF ReplayBooking, UnchangedTable, CopyInv
      <3>2. CASE Answer(r, "not_found")
        BY <3>1, <3>2, AnswerKeeps DEF Reply
      <3>3. CASE Answer(r, "replayed")
        BY <2>0, <3>1, <3>3, ToldKeeps DEF KeyHandler
      <3> QED BY <2>8, <3>2, <3>3 DEF ReplayBooking
    <2>9. CASE Remind(r)
      <3>1. /\ h[r].pc = "remind" /\ h[r].key \in Key /\ h[r].id \in BookingId
            /\ bookings' = bookings /\ idem' = idem
            /\ Answer(r, "created") \/ Answer(r, "lost")
        BY <2>9 DEF Remind, CopyInv
      <3>2. CASE Answer(r, "created")
        BY <2>0, <3>1, <3>2, ToldKeeps DEF KeyHandler
      <3>3. CASE Answer(r, "lost")
        BY <3>1, <3>3, AnswerKeeps DEF Reply
      <3> QED BY <3>1, <3>2, <3>3
    <2>10. CASE LoadMissing(r)
      <3>1. Answer(r, "not_found") /\ bookings' = bookings /\ idem' = idem
        BY <2>10 DEF LoadMissing, UnchangedTable
      <3> QED BY <3>1, AnswerKeeps DEF Reply
    <2>11. CASE Load(r)
      <3>1. /\ h[r].pc = "load" /\ h[r].op \in LifecycleOp /\ bookings[h[r].id] # Nil
            /\ bookings[h[r].id] \in Booking /\ bookings' = bookings /\ idem' = idem
        BY <2>11 DEF Load, CopyInv, TypeOK, UnchangedTable
      <3>2. CASE Answer(r, "conflict")
        BY <3>1, <3>2, AnswerKeeps DEF Reply
      <3>3. CASE \E l \in {"page", "save"} : Hold(r, l, bookings[h[r].id])
        <4>1. PICK l \in {"page", "save"} : Hold(r, l, bookings[h[r].id])
          BY <3>3
        <4>2. /\ h'[r].pc = l /\ h'[r].op = h[r].op /\ h'[r].key = h[r].key
              /\ h'[r].id = h[r].id /\ h'[r].reply = h[r].reply
              /\ \A q \in Request \ {r} : h'[q] = h[q]
          BY <3>1, <4>1, HoldFields DEF PC
        <4>3. KeyHandler(r)'
          BY <2>0, <3>1, <4>2 DEF KeyHandler, Unwritten, ToldBooking, LifecycleOp
        <4> QED BY <3>1, <4>2, <4>3, LocalStep
      <3> QED BY <2>11, <3>2, <3>3 DEF Load
    <2>12. CASE Save(r)
      <3> QED BY <2>12, SaveKeeps
    <2>13. ASSUME NEW paid \in BOOLEAN, ConfirmGate(r, paid)
           PROVE  KeyInv'
      <3>1. h[r].pc = "gate" /\ bookings' = bookings /\ idem' = idem
        BY <2>13 DEF ConfirmGate, UnchangedTable
      <3>2. CASE Answer(r, "conflict")
        BY <3>1, <3>2, AnswerKeeps DEF Reply
      <3>3. CASE Goto(r, "save")
        <4>1. /\ h'[r].pc = "save" /\ h'[r].op = h[r].op /\ h'[r].key = h[r].key
              /\ h'[r].id = h[r].id /\ h'[r].reply = h[r].reply
              /\ \A q \in Request \ {r} : h'[q] = h[q]
          BY <3>3, GotoFields DEF PC
        <4>2. KeyHandler(r)'
          BY <2>0, <3>1, <4>1 DEF KeyHandler, Unwritten, ToldBooking
        <4> QED BY <3>1, <4>1, <4>2, LocalStep
      <3> QED BY <2>13, <3>2, <3>3 DEF ConfirmGate
    <2> QED BY <1>3, <2>1, <2>2, <2>3, <2>4, <2>5, <2>6, <2>7, <2>8, <2>9, <2>10,
               <2>11, <2>12, <2>13 DEF Step
  <1>4. ASSUME NEW r \in Request, Fail(r)
        PROVE  KeyInv'
    <2>1. Answer(r, "error") /\ bookings' = bookings /\ idem' = idem
      BY <1>4 DEF Fail, UnchangedTable
    <2> QED BY <2>1, AnswerKeeps DEF Reply
  <1>5. ASSUME NEW b \in BookingId, Replicate(b)
        PROVE  KeyInv'
    BY <1>5 DEF Replicate, KeyInv, KeyRows, KeyHandler, Unwritten, ToldBooking
  <1>6. CASE UNCHANGED vars
    BY <1>6 DEF vars, KeyInv, KeyRows, KeyHandler, Unwritten, ToldBooking
  <1> QED BY <1>1, <1>2, <1>3, <1>4, <1>5, <1>6 DEF Next, Arrive, AllAnswered

(***************************************************************************)
(* At every moment each bound key names a stored booking, each stored      *)
(* booking is named by exactly one key.                                    *)
(***************************************************************************)
THEOREM KeysAlwaysMatch == Spec => []KeysMatchBookings
  <1>1. TypeInv /\ KeyInv => KeysMatchBookings
    BY DEF TypeInv, TypeOK, KeyInv, KeyRows, KeysMatchBookings, BookingId
  <1> QED BY TypeInit, TypeNext, KeyInit, KeyNext, <1>1, PTL DEF Spec

(***************************************************************************)
(* Creates that share a key are told the same booking, and at most one of  *)
(* them that it was created, however the handlers interleave.              *)
(***************************************************************************)
THEOREM SameKeyAlwaysSameBooking == Spec => []SameKeySameBooking
  <1>1. KeyInv => SameKeySameBooking
    BY DEF KeyInv, KeyHandler, SameKeySameBooking
  <1> QED BY TypeInit, TypeNext, KeyInit, KeyNext, <1>1, PTL DEF Spec

-----------------------------------------------------------------------------
(***************************************************************************)
(* Every step but the three that write the table only moves its handler.   *)
(***************************************************************************)
LocalMove(r) ==
  \/ \E k \in Int \X Int, c \in BOOLEAN : ReadOn(r, k, c)
  \/ \E a \in Reply \ {"ok", "lost"} : Answer(r, a)
  \/ \E l \in {"lookup", "gate", "write", "relookup", "save"} : Goto(r, l)
  \/ \E l \in {"page", "save"} : bookings[h[r].id] \in Booking /\ Hold(r, l, bookings[h[r].id])
  \/ \E b \in BookingId : ReplayOf(r, b)

(***************************************************************************)
(* What a handler step that neither writes a reminder nor reaches the      *)
(* created hook leaves true of reminders.                                  *)
(***************************************************************************)
LEMMA QuietStep ==
  ASSUME TypeOK, CopyInv, NEW r \in Request, Step(r),
         ~WriteBooking(r), ~Remind(r), ~Save(r)
  PROVE  UnchangedTable /\ LocalMove(r)
  <1>1. CASE NextPage(r)
    <2> PICK b \in Page(r) : ReadOn(r, SortKey(b), Clash(r))
      BY <1>1 DEF NextPage
    <2>1. gsi1[b] \in Booking /\ b \in Nat
      BY RequestAssumption DEF Page, Rest, TypeOK, BookingId
    <2>2. gsi1[b].start \in Nat
      BY <2>1, InstantAssumption DEF Booking
    <2>3. TextOrder(gsi1[b].start) \in Int
      BY <2>2 DEF TextOrder
    <2>4. SortKey(b) \in Int \X Int
      BY <2>1, <2>3 DEF SortKey
    <2>5. Clash(r) \in BOOLEAN
      BY Zenon DEF Clash
    <2> QED BY <1>1, <2>4, <2>5 DEF NextPage, LocalMove
  <1>2. CASE RejectOverlap(r) \/ ReplayBooking(r) \/ LoadMissing(r)
    BY <1>2 DEF RejectOverlap, ReplayBooking, LoadMissing, LocalMove, Reply
  <1>3. CASE AcceptSlot(r) \/ WriteCancelled(r)
    BY <1>3 DEF AcceptSlot, WriteCancelled, LocalMove
  <1>4. CASE LookupKey(r) \/ RelookupKey(r)
    <2>1. h[r].key \in Key
      BY <1>4 DEF LookupKey, RelookupKey, CopyInv
    <2>2. idem[h[r].key] # NoBooking => idem[h[r].key] \in BookingId
      BY <2>1 DEF TypeOK
    <2> QED BY <1>4, <2>2 DEF LookupKey, RelookupKey, LocalMove, Reply
  <1>5. CASE Load(r)
    <2>1. bookings[h[r].id] \in Booking
      BY <1>5 DEF Load, CopyInv, TypeOK
    <2> QED BY <1>5, <2>1 DEF Load, LocalMove, Reply
  <1>6. CASE \E paid \in BOOLEAN : ConfirmGate(r, paid)
    BY <1>6 DEF ConfirmGate, LocalMove, Reply
  <1> QED BY <1>1, <1>2, <1>3, <1>4, <1>5, <1>6 DEF Step

(***************************************************************************)
(* A step that only moves a handler's local state along does not bring it  *)
(* to the created hook, keeps its key and route, and leaves other handlers *)
(* alone.                                                                  *)
(***************************************************************************)
LEMMA LocalMoveFields ==
  ASSUME h \in [Request -> Handler], NEW r \in Request, LocalMove(r)
  PROVE  /\ h'[r].pc = "remind" => h[r].pc = "remind"
         /\ h[r].pc # "idle" => h'[r].pc # "idle"
         /\ h'[r].key = h[r].key /\ h'[r].op = h[r].op
         /\ \A q \in Request \ {r} : h'[q] = h[q]
  <1>1. CASE \E k \in Int \X Int, c \in BOOLEAN : ReadOn(r, k, c)
    BY <1>1, ReadOnFields
  <1>2. CASE \E a \in Reply \ {"ok", "lost"} : Answer(r, a)
    BY <1>2, AnswerFields
  <1>3. CASE \E l \in {"lookup", "gate", "write", "relookup", "save"} : Goto(r, l)
    BY <1>3, GotoFields DEF PC
  <1>4. CASE \E l \in {"page", "save"} :
               bookings[h[r].id] \in Booking /\ Hold(r, l, bookings[h[r].id])
    BY <1>4, HoldFields DEF PC
  <1>5. CASE \E b \in BookingId : ReplayOf(r, b)
    BY <1>5, ReplayOfFields
  <1> QED BY <1>1, <1>2, <1>3, <1>4, <1>5 DEF LocalMove

-----------------------------------------------------------------------------
(* Reminders *)

(***************************************************************************)
(* Only the handler that wrote a booking reminds of it, and only once: a   *)
(* handler about to remind has not yet, and nobody else will.              *)
(***************************************************************************)
RemindInv ==
  /\ \A b \in BookingId : reminders[b] \in {0, 1} /\ (bookings[b] = Nil => reminders[b] = 0)
  /\ \A r \in Request : h[r].pc = "remind" => reminders[r] = 0

(***************************************************************************)
(* Nobody has been reminded at first.                                      *)
(***************************************************************************)
THEOREM RemindInit == Init => RemindInv
  BY DEF Init, RemindInv, IdleHandler, BookingId

(***************************************************************************)
(* Steps that create no reminder, unstore no booking and start no new      *)
(* handler at its reminder keep the invariant.                             *)
(***************************************************************************)
LEMMA RemindKept ==
  ASSUME RemindInv, reminders' = reminders,
         \A b \in BookingId : bookings'[b] = Nil => bookings[b] = Nil,
         \A r \in Request : h'[r].pc = "remind" => h[r].pc = "remind"
  PROVE  RemindInv'
  BY DEF RemindInv, BookingId

(***************************************************************************)
(* Every step keeps the reminder invariant: the created hook runs once for *)
(* the handler that made the row.                                          *)
(***************************************************************************)
THEOREM RemindNext == TypeInv /\ KeyInv /\ RemindInv /\ [Next]_vars => RemindInv'
  <1> SUFFICES ASSUME TypeOK, CopyInv, KeyInv, RemindInv, [Next]_vars
               PROVE  RemindInv'
    BY DEF TypeInv
  <1> h \in [Request -> Handler]
    BY DEF TypeOK
  <1>1. ASSUME NEW r \in Request, Arrive(r)
        PROVE  RemindInv'
    <2>1. reminders' = reminders /\ bookings' = bookings /\ h'[r].pc # "remind"
          /\ \A q \in Request \ {r} : h'[q] = h[q]
      BY <1>1 DEF Arrive, ArriveCreate, ArriveLifecycle, UnchangedTable, IdleHandler
    <2> QED BY <2>1, RemindKept
  <1>2. ASSUME NEW r \in Request, Step(r)
        PROVE  RemindInv'
    <2>1. CASE WriteBooking(r)
      <3>1. /\ bookings[r] = Nil /\ h[r].copy # Nil /\ reminders' = reminders
            /\ bookings' = [bookings EXCEPT ![r] = h[r].copy] /\ Goto(r, "remind")
        BY <2>1 DEF WriteBooking, PutBooking, CopyInv
      <3>2. reminders[r] = 0
        BY <3>1 DEF RemindInv, BookingId
      <3>3. \A q \in Request \ {r} : h'[q] = h[q]
        BY <3>1, GotoFields DEF PC
      <3> QED BY <3>1, <3>2, <3>3 DEF RemindInv, TypeOK, BookingId
    <2>2. CASE Remind(r)
      <3>1. /\ h[r].pc = "remind" /\ h[r].id = r /\ bookings' = bookings
            /\ Answer(r, "created") \/ Answer(r, "lost")
            /\ h[r].key \in Key /\ h[r].id = idem[h[r].key]
        BY <2>2 DEF Remind, KeyInv, KeyHandler, CopyInv
      <3>2. bookings[r] # Nil
        BY <3>1, RequestAssumption DEF KeyInv, KeyRows, NoBooking
      <3>3. reminders[r] = 0 /\ \A b \in BookingId \ {r} : reminders'[b] = reminders[b]
        BY <2>2, <3>1 DEF Remind, RemindInv, TypeOK, BookingId
      <3>4. reminders'[r] \in {0, 1}
        BY <2>2, <3>1, <3>3 DEF Remind, TypeOK, BookingId
      <3>5. h'[r].pc = "done" /\ \A q \in Request \ {r} : h'[q] = h[q]
        BY <3>1, AnswerFields DEF Reply
      <3> QED BY <3>1, <3>2, <3>3, <3>4, <3>5 DEF RemindInv, BookingId
    <2>3. CASE Save(r)
      <3> DEFINE c == [h[r].copy EXCEPT !.status = To[h[r].op]]
      <3>1. h[r].copy \in Booking /\ h[r].op \in LifecycleOp /\ h[r].id \in BookingId
        BY <2>3 DEF Save, CopyInv, Handler
      <3>2. c # Nil
        BY <3>1, SavedCopyType, NilAssumption
      <3>3. /\ bookings' = [bookings EXCEPT ![h[r].id] = c] /\ reminders' = reminders
            /\ \E a \in {"ok", "lost"} : Answer(r, a)
        BY <2>3 DEF Save, PutBooking
      <3> HIDE DEF c
      <3>4. h'[r].pc = "done" /\ \A q \in Request \ {r} : h'[q] = h[q]
        BY <3>3, AnswerFields DEF Reply
      <3>5. \A b \in BookingId : bookings'[b] = Nil => bookings[b] = Nil
        BY <3>1, <3>2, <3>3 DEF TypeOK
      <3> QED BY <3>3, <3>4, <3>5, RemindKept
    <2>4. CASE ~(WriteBooking(r) \/ Remind(r) \/ Save(r))
      <3>1. UnchangedTable /\ LocalMove(r)
        BY <1>2, <2>4, QuietStep
      <3>2. /\ h'[r].pc = "remind" => h[r].pc = "remind"
            /\ \A q \in Request \ {r} : h'[q] = h[q]
        BY <3>1, LocalMoveFields
      <3> QED BY <3>1, <3>2, RemindKept DEF UnchangedTable
    <2> QED BY <2>1, <2>2, <2>3, <2>4
  <1>3. ASSUME NEW r \in Request, Fail(r)
        PROVE  RemindInv'
    <2>1. /\ reminders' = reminders /\ bookings' = bookings /\ h'[r].pc = "done"
          /\ \A q \in Request \ {r} : h'[q] = h[q]
      BY <1>3, AnswerFields DEF Fail, UnchangedTable, Reply
    <2> QED BY <2>1, RemindKept
  <1>4. ASSUME NEW b \in BookingId, Replicate(b)
        PROVE  RemindInv'
    BY <1>4 DEF Replicate, RemindInv
  <1>5. CASE UNCHANGED vars
    BY <1>5 DEF vars, RemindInv
  <1> QED BY <1>1, <1>2, <1>3, <1>4, <1>5 DEF Next, AllAnswered

(***************************************************************************)
(* No booking is ever reminded of twice, and none that is not stored.      *)
(***************************************************************************)
THEOREM AlwaysRemindedOnce == Spec => []RemindedOnce
  <1>1. RemindInv => RemindedOnce
    BY DEF RemindInv, RemindedOnce
  <1> QED BY TypeInit, TypeNext, KeyInit, KeyNext, RemindInit, RemindNext, <1>1, PTL DEF Spec

-----------------------------------------------------------------------------
(* The confirm gate *)

(***************************************************************************)
(* The copies handlers hold are no further along than what passed the      *)
(* gate: a save can write back an old status, but never an unearned one.   *)
(***************************************************************************)
GateHandler(r) ==
  /\ h[r].op \in LifecycleOp /\ h[r].pc \in {"page", "gate", "save"}
       => (EverConfirmed(h[r].copy) => PassedGate(h[r].id))
  /\ h[r].pc = "save" => h[r].copy.status \in From[h[r].op]
  /\ h[r].op = "create" /\ h[r].pc \in {"page", "lookup", "write"}
       => h[r].copy.status = "created"

GateInv == ConfirmedPassedGate /\ \A r \in Request : GateHandler(r)

(***************************************************************************)
(* No booking exists at first, so none is confirmed.                       *)
(***************************************************************************)
THEOREM GateInit == Init => GateInv
  BY DEF Init, GateInv, GateHandler, ConfirmedPassedGate, IdleHandler, BookingId

(***************************************************************************)
(* Once a confirm was saved it stays saved: an answered request changes no *)
(* more.                                                                   *)
(***************************************************************************)
LEMMA PassedStays ==
  ASSUME KeyInv, NEW r \in Request, h[r].pc # "done",
         \A q \in Request \ {r} : h'[q] = h[q]
  PROVE  \A b : PassedGate(b) => PassedGate(b)'
  <1>1. h[r].reply = "none"
    BY DEF KeyInv, KeyHandler
  <1> QED BY <1>1 DEF PassedGate

(***************************************************************************)
(* A step of one handler that stores nothing keeps the invariant if that   *)
(* handler still satisfies it.                                             *)
(***************************************************************************)
LEMMA GateKept ==
  ASSUME KeyInv, GateInv, NEW r \in Request, h[r].pc # "done",
         bookings' = bookings, \A q \in Request \ {r} : h'[q] = h[q],
         GateHandler(r)'
  PROVE  GateInv'
  <1>1. \A b : PassedGate(b) => PassedGate(b)'
    BY PassedStays
  <1>2. ConfirmedPassedGate'
    BY <1>1 DEF GateInv, ConfirmedPassedGate
  <1>3. ASSUME NEW q \in Request \ {r} PROVE GateHandler(q)'
    <2>1. GateHandler(q) /\ h'[q] = h[q]
      BY DEF GateInv
    <2> QED BY <1>1, <2>1 DEF GateHandler
  <1> QED BY <1>2, <1>3 DEF GateInv

(***************************************************************************)
(* Every step keeps the gate invariant: rows, index items and copies that  *)
(* were ever confirmed trace back to a saved confirm.                      *)
(***************************************************************************)
THEOREM GateNext == TypeInv /\ KeyInv /\ GateInv /\ [Next]_vars => GateInv'
  <1> SUFFICES ASSUME TypeOK, CopyInv, KeyInv, GateInv, [Next]_vars
               PROVE  GateInv'
    BY DEF TypeInv
  <1> h \in [Request -> Handler]
    BY DEF TypeOK
  <1>1. ASSUME NEW r \in Request, Arrive(r)
        PROVE  GateInv'
    <2>1. CASE \E k \in Key, s \in Staff, t0, t1 \in Instant : ArriveCreate(r, k, s, t0, t1)
      <3>1. /\ h'[r].pc = "page" /\ h'[r].op = "create" /\ h'[r].copy.status = "created"
            /\ bookings' = bookings /\ \A q \in Request \ {r} : h'[q] = h[q]
        BY <2>1 DEF ArriveCreate, UnchangedTable, IdleHandler
      <3>2. GateHandler(r)'
        BY <3>1 DEF GateHandler, LifecycleOp
      <3>3. h[r].pc # "done"
        BY <2>1 DEF ArriveCreate, Arrives
      <3> QED BY <3>1, <3>2, <3>3, GateKept
    <2>2. CASE \E op \in Ops, b \in BookingId : ArriveLifecycle(r, op, b)
      <3>1. /\ h'[r].pc = "load" /\ bookings' = bookings
            /\ \A q \in Request \ {r} : h'[q] = h[q]
        BY <2>2 DEF ArriveLifecycle, UnchangedTable, IdleHandler
      <3>2. GateHandler(r)'
        BY <3>1 DEF GateHandler
      <3>3. h[r].pc # "done"
        BY <2>2 DEF ArriveLifecycle, Arrives
      <3> QED BY <3>1, <3>2, <3>3, GateKept
    <2> QED BY <1>1, <2>1, <2>2 DEF Arrive
  <1>2. ASSUME NEW r \in Request, Step(r)
        PROVE  GateInv'
    <2>0. GateHandler(r) /\ h[r].pc # "done"
      BY <1>2 DEF GateInv, Step, NextPage, RejectOverlap, AcceptSlot, LookupKey,
                  WriteBooking, WriteCancelled, RelookupKey, ReplayBooking, Remind,
                  LoadMissing, Load, Save, ConfirmGate
    <2>1. CASE NextPage(r)
      <3>1. /\ h'[r].pc = h[r].pc /\ h'[r].op = h[r].op /\ h'[r].copy = h[r].copy
            /\ h'[r].id = h[r].id /\ \A q \in Request \ {r} : h'[q] = h[q]
        BY <2>1 DEF NextPage, ReadOn, Handler
      <3>2. GateHandler(r)'
        BY <2>0, <3>1, PassedStays DEF GateHandler
      <3> QED BY <2>0, <2>1, <3>1, <3>2, GateKept DEF NextPage, UnchangedTable
    <2>2. CASE RejectOverlap(r) \/ ReplayBooking(r) \/ LoadMissing(r) \/ Remind(r)
      <3>1. bookings' = bookings /\ \E a \in Reply : Answer(r, a)
        BY <2>2 DEF RejectOverlap, ReplayBooking, LoadMissing, Remind, UnchangedTable, Reply
      <3>2. h'[r].pc = "done" /\ \A q \in Request \ {r} : h'[q] = h[q]
        BY <3>1, AnswerFields
      <3>3. GateHandler(r)'
        BY <3>2 DEF GateHandler
      <3> QED BY <2>0, <3>1, <3>2, <3>3, GateKept
    <2>3. CASE AcceptSlot(r)
      <3>1. PICK l \in {"lookup", "gate"} : Goto(r, l) /\ bookings' = bookings
        BY <2>3 DEF AcceptSlot, UnchangedTable
      <3>2. /\ h'[r].pc = l /\ h'[r].op = h[r].op /\ h'[r].copy = h[r].copy
            /\ h'[r].id = h[r].id /\ \A q \in Request \ {r} : h'[q] = h[q]
        BY <3>1, GotoFields DEF PC
      <3>3. GateHandler(r)'
        BY <2>0, <2>3, <3>2, PassedStays DEF GateHandler, AcceptSlot
      <3> QED BY <2>0, <3>1, <3>2, <3>3, GateKept
    <2>4. CASE LookupKey(r) \/ RelookupKey(r) \/ WriteCancelled(r)
      <3>1. h[r].op = "create"
        BY <2>4 DEF LookupKey, RelookupKey, WriteCancelled, CopyInv
      <3>2. UnchangedTable /\ LocalMove(r)
        BY <1>2, <2>4, QuietStep
           DEF LookupKey, RelookupKey, WriteCancelled, WriteBooking, Remind, Save
      <3>3. \/ Goto(r, "write") /\ h[r].pc = "lookup"
            \/ Goto(r, "relookup") \/ Answer(r, "error")
            \/ \E b \in BookingId : ReplayOf(r, b)
        BY <2>4 DEF LookupKey, RelookupKey, WriteCancelled, TypeOK, CopyInv
      <3>4. /\ h'[r].op = "create" /\ h'[r].copy = h[r].copy
            /\ (h'[r].pc = "write" /\ h[r].pc = "lookup")
               \/ h'[r].pc \in {"relookup", "done", "replay"}
        BY <3>1, <3>3, GotoFields, AnswerFields, ReplayOfFields DEF PC, Reply
      <3>5. GateHandler(r)'
        BY <2>0, <3>1, <3>4 DEF GateHandler, LifecycleOp
      <3> QED BY <2>0, <3>2, <3>5, GateKept, LocalMoveFields DEF UnchangedTable
    <2>5. CASE WriteBooking(r)
      <3>1. /\ h[r].pc = "write" /\ h[r].op = "create" /\ h[r].copy.status = "created"
            /\ bookings' = [bookings EXCEPT ![r] = h[r].copy] /\ Goto(r, "remind")
        BY <2>0, <2>5 DEF WriteBooking, PutBooking, CopyInv, GateHandler
      <3>2. h'[r].pc = "remind" /\ \A q \in Request \ {r} : h'[q] = h[q]
        BY <3>1, GotoFields DEF PC
      <3>3. ConfirmedPassedGate'
        <4>1. ASSUME NEW b \in BookingId, bookings'[b] # Nil, EverConfirmed(bookings'[b])
              PROVE  PassedGate(b)'
          <5>1. b # r
            BY <3>1, <4>1 DEF EverConfirmed, TypeOK, BookingId
          <5>2. bookings'[b] = bookings[b]
            BY <3>1, <5>1 DEF TypeOK
          <5>3. PassedGate(b)
            BY <4>1, <5>2 DEF GateInv, ConfirmedPassedGate
          <5> QED BY <2>0, <3>2, <5>3, PassedStays
        <4> QED BY <4>1 DEF ConfirmedPassedGate, EverConfirmed
      <3>4. ASSUME NEW q \in Request PROVE GateHandler(q)'
        BY <2>0, <3>2, PassedStays DEF GateInv, GateHandler, EverConfirmed
      <3> QED BY <3>3, <3>4 DEF GateInv
    <2>6. CASE Load(r)
      <3>1. /\ h[r].op \in LifecycleOp /\ bookings[h[r].id] \in Booking
            /\ h[r].id \in BookingId /\ bookings' = bookings
        BY <2>6 DEF Load, CopyInv, TypeOK, UnchangedTable
      <3>2. \/ Answer(r, "conflict")
            \/ Hold(r, "page", bookings[h[r].id])
            \/ /\ Hold(r, "save", bookings[h[r].id])
               /\ bookings[h[r].id].status \in From[h[r].op]
        BY <2>6 DEF Load
      <3>3. CASE Answer(r, "conflict")
        <4>1. h'[r].pc = "done" /\ \A q \in Request \ {r} : h'[q] = h[q]
          BY <3>3, AnswerFields DEF Reply
        <4>2. GateHandler(r)'
          BY <4>1 DEF GateHandler
        <4> QED BY <2>0, <3>1, <4>1, <4>2, GateKept
      <3>4. ASSUME NEW l \in {"page", "save"}, Hold(r, l, bookings[h[r].id]),
                   l = "save" => bookings[h[r].id].status \in From[h[r].op]
            PROVE  GateInv'
        <4>1. /\ Hold(r, l, bookings[h[r].id])
              /\ l = "save" => bookings[h[r].id].status \in From[h[r].op]
          BY <3>4
        <4>2. /\ h'[r].pc = l /\ h'[r].op = h[r].op /\ h'[r].id = h[r].id
              /\ h'[r].copy = bookings[h[r].id]
              /\ \A q \in Request \ {r} : h'[q] = h[q]
          BY <3>1, <4>1, HoldFields DEF PC
        <4>3. EverConfirmed(bookings[h[r].id]) => PassedGate(h[r].id)
          BY <2>6, <3>1 DEF Load, GateInv, ConfirmedPassedGate
        <4>4. GateHandler(r)'
          BY <2>0, <3>1, <4>1, <4>2, <4>3, PassedStays DEF GateHandler, LifecycleOp, EverConfirmed
        <4> QED BY <2>0, <3>1, <4>2, <4>4, GateKept
      <3> QED BY <3>2, <3>3, <3>4
    <2>7. CASE Save(r)
      <3> DEFINE c == [h[r].copy EXCEPT !.status = To[h[r].op]]
      <3>1. h[r].copy \in Booking /\ h[r].op \in LifecycleOp /\ h[r].id \in BookingId
        BY <2>7 DEF Save, CopyInv, Handler
      <3>2. c.status = To[h[r].op]
        BY <3>1 DEF Booking
      <3>3. /\ h[r].pc = "save" /\ bookings' = [bookings EXCEPT ![h[r].id] = c]
            /\ \E a \in {"ok", "lost"} : Answer(r, a)
        BY <2>7 DEF Save, PutBooking
      <3> HIDE DEF c
      <3>4. /\ h'[r].pc = "done" /\ h'[r].reply \in {"ok", "lost"}
            /\ h'[r].op = h[r].op /\ h'[r].id = h[r].id
            /\ \A q \in Request \ {r} : h'[q] = h[q]
        BY <3>3, AnswerFields DEF Reply
      <3>5. EverConfirmed(c) => PassedGate(h[r].id)'
        <4>1. CASE h[r].op = "confirm"
          BY <3>4, <4>1 DEF PassedGate
        <4>2. CASE h[r].op \in {"complete", "no_show"}
          <5>1. h[r].copy.status = "confirmed"
            BY <2>0, <3>3, <4>2 DEF GateHandler, From
          <5>2. PassedGate(h[r].id)
            BY <2>0, <3>1, <3>3, <5>1 DEF GateHandler, EverConfirmed
          <5> QED BY <2>0, <3>4, <5>2, PassedStays
        <4>3. CASE h[r].op = "cancel"
          BY <3>2, <4>3 DEF EverConfirmed, To
        <4> QED BY <3>1, <4>1, <4>2, <4>3 DEF LifecycleOp
      <3>6. ConfirmedPassedGate'
        <4>1. ASSUME NEW b \in BookingId, bookings'[b] # Nil, EverConfirmed(bookings'[b])
              PROVE  PassedGate(b)'
          <5>1. CASE b = h[r].id
            <6>1. bookings'[b] = c
              BY <3>1, <3>3, <5>1 DEF TypeOK
            <6>2. h'[r].id = b
              BY <3>4, <5>1
            <6> QED BY <3>5, <4>1, <6>1, <6>2 DEF EverConfirmed, PassedGate
          <5>2. CASE b # h[r].id
            <6>1. bookings'[b] = bookings[b]
              BY <3>3, <5>2 DEF TypeOK
            <6>2. PassedGate(b)
              BY <4>1, <6>1 DEF GateInv, ConfirmedPassedGate
            <6> QED BY <2>0, <3>4, <6>2, PassedStays
          <5> QED BY <5>1, <5>2
        <4> QED BY <4>1 DEF ConfirmedPassedGate, EverConfirmed
      <3>7. ASSUME NEW q \in Request PROVE GateHandler(q)'
        BY <2>0, <3>4, PassedStays DEF GateInv, GateHandler, EverConfirmed
      <3> QED BY <3>6, <3>7 DEF GateInv
    <2>8. ASSUME NEW paid \in BOOLEAN, ConfirmGate(r, paid)
          PROVE  GateInv'
      <3>1. /\ h[r].pc = "gate" /\ bookings' = bookings
            /\ \/ Goto(r, "save") /\ h[r].copy.status \in From["confirm"]
               \/ Answer(r, "conflict")
        BY <2>8 DEF ConfirmGate, UnchangedTable
      <3>2. /\ h'[r].pc \in {"save", "done"}
            /\ h'[r].pc = "save" => h[r].copy.status \in From["confirm"]
            /\ h'[r].op = h[r].op /\ h'[r].copy = h[r].copy /\ h'[r].id = h[r].id
            /\ \A q \in Request \ {r} : h'[q] = h[q]
        BY <3>1, GotoFields, AnswerFields DEF PC, Reply
      <3>3. h[r].op = "confirm"
        BY <3>1 DEF CopyInv
      <3>4. GateHandler(r)'
        BY <2>0, <3>1, <3>2, <3>3, PassedStays DEF GateHandler
      <3> QED BY <2>0, <3>1, <3>2, <3>4, GateKept
    <2> QED BY <1>2, <2>1, <2>2, <2>3, <2>4, <2>5, <2>6, <2>7, <2>8 DEF Step
  <1>3. ASSUME NEW r \in Request, Fail(r)
        PROVE  GateInv'
    <2>1. /\ bookings' = bookings /\ h'[r].pc = "done" /\ h[r].pc # "done"
          /\ \A q \in Request \ {r} : h'[q] = h[q]
      BY <1>3, AnswerFields DEF Fail, UnchangedTable, Reply
    <2>2. GateHandler(r)'
      BY <2>1 DEF GateHandler
    <2> QED BY <2>1, <2>2, GateKept
  <1>4. ASSUME NEW b \in BookingId, Replicate(b)
        PROVE  GateInv'
    BY <1>4 DEF Replicate, GateInv, GateHandler, ConfirmedPassedGate, PassedGate
  <1>5. CASE UNCHANGED vars
    BY <1>5 DEF vars, GateInv, GateHandler, ConfirmedPassedGate, PassedGate
  <1> QED BY <1>1, <1>2, <1>3, <1>4, <1>5 DEF Next, AllAnswered

(***************************************************************************)
(* No booking is confirmed, completed or a no-show without a confirm that  *)
(* passed the overlap check and the payment gate, however stale the copies *)
(* are that the routes save over each other.                               *)
(***************************************************************************)
THEOREM AlwaysConfirmedPassedGate == Spec => []ConfirmedPassedGate
  <1>1. GateInv => ConfirmedPassedGate
    BY DEF GateInv
  <1> QED BY TypeInit, TypeNext, KeyInit, KeyNext, GateInit, GateNext, <1>1, PTL DEF Spec

-----------------------------------------------------------------------------
(* The stepwise create implements the atomic one of IdempotentCreate *)

(***************************************************************************)
(* Requests that have not arrived hold nothing.                            *)
(***************************************************************************)
IdleInv == \A r \in Request : h[r].pc = "idle" => h[r] = IdleHandler

(***************************************************************************)
(* Idle handlers ask for no key at first.                                  *)
(***************************************************************************)
THEOREM IdleInit == Init => IdleInv
  BY DEF Init, IdleInv

(***************************************************************************)
(* A handler that has not begun has asked for no key and been told         *)
(* nothing, whatever other handlers do.                                    *)
(***************************************************************************)
THEOREM IdleNext == TypeInv /\ IdleInv /\ [Next]_vars => IdleInv'
  <1> SUFFICES ASSUME TypeOK, CopyInv, IdleInv, [Next]_vars
               PROVE  IdleInv'
    BY DEF TypeInv
  <1> h \in [Request -> Handler]
    BY DEF TypeOK
  <1>1. ASSUME NEW r \in Request, h'[r].pc # "idle",
               \A q \in Request \ {r} : h'[q] = h[q]
        PROVE  IdleInv'
    BY <1>1 DEF IdleInv
  <1>2. ASSUME NEW r \in Request, Arrive(r)
        PROVE  IdleInv'
    <2>1. h'[r].pc # "idle" /\ \A q \in Request \ {r} : h'[q] = h[q]
      BY <1>2 DEF Arrive, ArriveCreate, ArriveLifecycle, IdleHandler
    <2> QED BY <1>1, <2>1
  <1>3. ASSUME NEW r \in Request, Step(r)
        PROVE  IdleInv'
    <2>1. h[r].pc # "idle"
      BY <1>3 DEF Step, NextPage, RejectOverlap, AcceptSlot, LookupKey, WriteBooking,
                  WriteCancelled, RelookupKey, ReplayBooking, Remind, LoadMissing,
                  Load, Save, ConfirmGate
    <2>2. CASE WriteBooking(r)
      BY <1>1, <2>2, GotoFields DEF WriteBooking, PC
    <2>3. CASE Remind(r)
      BY <1>1, <2>3, AnswerFields DEF Remind, Reply
    <2>4. CASE Save(r)
      BY <1>1, <2>4, AnswerFields DEF Save, Reply
    <2>5. CASE ~(WriteBooking(r) \/ Remind(r) \/ Save(r))
      <3>1. LocalMove(r)
        BY <1>3, <2>5, QuietStep
      <3> QED BY <1>1, <2>1, <3>1, LocalMoveFields
    <2> QED BY <2>2, <2>3, <2>4, <2>5
  <1>4. ASSUME NEW r \in Request, Fail(r)
        PROVE  IdleInv'
    BY <1>1, <1>4, AnswerFields DEF Fail, Reply
  <1>5. CASE UNCHANGED h
    BY <1>5 DEF IdleInv
  <1> QED BY <1>2, <1>3, <1>4, <1>5 DEF Next, Replicate, AllAnswered, vars

-----------------------------------------------------------------------------
(* The steps, under the refinement mapping of Bookings *)

Told(r) == IF ToldBooking(r)
             THEN [id |-> h[r].id, created |-> h[r].reply = "created"]
             ELSE [id |-> NoBooking, created |-> FALSE]

\* What IdempotentCreate sees of the handlers.
Asked   == [r \in Request |-> h[r].key]
Answers == [r \in Request |-> Told(r)]

(***************************************************************************)
(* A step that binds no key and tells nobody of a booking is a stutter.    *)
(***************************************************************************)
LEMMA UntoldStep ==
  ASSUME h \in [Request -> Handler], NEW r \in Request, idem' = idem,
         h'[r].key = h[r].key, ~ToldBooking(r), ~ToldBooking(r)',
         \A q \in Request \ {r} : h'[q] = h[q]
  PROVE  UNCHANGED <<idem, Asked, Answers>>
  <1>1. \A q \in Request : h'[q].key = h[q].key
    OBVIOUS
  <1>2. \A q \in Request : Told(q)' = Told(q)
    BY DEF Told, ToldBooking
  <1> QED BY <1>1, <1>2 DEF Asked, Answers

(***************************************************************************)
(* Everything Next can do is a step of IdempotentCreate or a stutter:      *)
(* arriving with a key asks, the transaction binds, and the 201 or the     *)
(* replay answers.                                                         *)
(***************************************************************************)
THEOREM IdempotentNext ==
  TypeInv /\ KeyInv /\ IdleInv /\ [Next]_vars => [Idempotent!Next]_(Idempotent!vars)
  <1> SUFFICES ASSUME TypeOK, CopyInv, KeyInv, IdleInv, [Next]_vars
               PROVE  \/ Idempotent!Next
                      \/ UNCHANGED <<idem, Asked, Answers>>
    BY DEF TypeInv, Idempotent!vars, Asked, Answers, Told
  <1> h \in [Request -> Handler]
    BY DEF TypeOK
  <1>0. \A r \in Request : h[r].pc # "done" => h[r].reply = "none"
    BY DEF KeyInv, KeyHandler
  <1>1. ASSUME NEW r \in Request, NEW k \in Key, NEW s \in Staff,
               NEW t0 \in Instant, NEW t1 \in Instant,
               ArriveCreate(r, k, s, t0, t1)
        PROVE  Idempotent!Ask(r, k)
    <2>1. h[r] = IdleHandler /\ h[r].reply = "none" /\ h[r].key = Nil
      BY <1>0, <1>1 DEF ArriveCreate, Arrives, IdleInv, IdleHandler
    <2>2. /\ h'[r].key = k /\ h'[r].reply = "none" /\ idem' = idem
          /\ \A q \in Request \ {r} : h'[q] = h[q]
      BY <1>1 DEF ArriveCreate, IdleHandler, UnchangedTable
    <2>3. Asked' = [Asked EXCEPT ![r] = k]
      BY <2>2 DEF Asked
    <2>4. \A q \in Request : Told(q)' = Told(q)
      BY <2>1, <2>2 DEF Told, ToldBooking
    <2> QED BY <2>1, <2>2, <2>3, <2>4 DEF Idempotent!Ask, Asked, Answers, Told
  <1>2. ASSUME NEW r \in Request, NEW op \in Ops, NEW b \in BookingId,
               ArriveLifecycle(r, op, b)
        PROVE  UNCHANGED <<idem, Asked, Answers>>
    <2>1. h[r].reply = "none" /\ h[r].key = Nil
      BY <1>2 DEF ArriveLifecycle, Arrives, IdleInv, IdleHandler
    <2>2. /\ h'[r].key = Nil /\ h'[r].reply = "none" /\ idem' = idem
          /\ \A q \in Request \ {r} : h'[q] = h[q]
      BY <1>2 DEF ArriveLifecycle, IdleHandler, UnchangedTable
    <2> QED BY <2>1, <2>2, UntoldStep DEF ToldBooking
  <1>3. ASSUME NEW r \in Request, Step(r)
        PROVE  \/ Idempotent!Next
               \/ UNCHANGED <<idem, Asked, Answers>>
    <2>1. h[r].pc # "done" /\ h[r].reply = "none"
      BY <1>0, <1>3 DEF Step, NextPage, RejectOverlap, AcceptSlot, LookupKey, WriteBooking,
                        WriteCancelled, RelookupKey, ReplayBooking, Remind, LoadMissing,
                        Load, Save, ConfirmGate
    <2>2. ~ToldBooking(r)
      BY <2>1 DEF ToldBooking
    <2>3. CASE WriteBooking(r)
      <3>1. h[r].key \in Key /\ h[r].key # Nil /\ idem[h[r].key] = NoBooking
        BY <2>3, NilAssumption DEF WriteBooking, CopyInv
      <3>2. /\ h'[r].key = h[r].key /\ h'[r].reply = "none"
            /\ \A q \in Request \ {r} : h'[q] = h[q]
        BY <2>1, <2>3, GotoFields DEF WriteBooking, PC
      <3>3. Asked' = Asked
        BY <3>2 DEF Asked
      <3>4. \A q \in Request : Told(q)' = Told(q)
        BY <2>2, <3>2 DEF Told, ToldBooking
      <3>5. Idempotent!Bind(r)
        BY <2>3, <3>1, <3>3, <3>4 DEF WriteBooking, Idempotent!Bind, Asked, Answers, Told
      <3> QED BY <3>5 DEF Idempotent!Next
    <2>4. CASE \/ Remind(r) /\ ~Answer(r, "lost")
               \/ ReplayBooking(r) /\ bookings[h[r].id] # Nil
      <3>1. /\ h[r].key \in Key /\ h[r].key # Nil /\ h[r].id = idem[h[r].key]
            /\ h[r].id \in BookingId
        BY <2>4, NilAssumption DEF Remind, ReplayBooking, CopyInv, KeyInv, KeyHandler
      <3>2. PICK a \in {"created", "replayed"} :
              /\ Answer(r, a) /\ idem' = idem
              /\ a = "created" <=> h[r].id = r
        BY <2>4 DEF Remind, ReplayBooking, KeyInv, KeyHandler, UnchangedTable
      <3>3. /\ h'[r].key = h[r].key /\ h'[r].id = h[r].id /\ h'[r].reply = a
            /\ \A q \in Request \ {r} : h'[q] = h[q]
        BY <3>2, AnswerFields DEF Reply
      <3>4. Asked' = Asked
        BY <3>3 DEF Asked
      <3>5. Told(r)' = [id |-> idem[h[r].key], created |-> idem[h[r].key] = r]
        BY <3>1, <3>2, <3>3 DEF Told, ToldBooking
      <3>6. \A q \in Request \ {r} : Told(q)' = Told(q)
        BY <3>3 DEF Told, ToldBooking
      <3>7. Answers' = [Answers EXCEPT ![r] = [id |-> idem[h[r].key],
                                               created |-> idem[h[r].key] = r]]
        BY <3>5, <3>6 DEF Answers
      <3>8. Told(r) = [id |-> NoBooking, created |-> FALSE]
        BY <2>2 DEF Told
      <3>9. idem[h[r].key] # NoBooking
        BY <3>1, RequestAssumption DEF NoBooking, BookingId
      <3>10. Idempotent!Answer(r)
        BY <3>1, <3>2, <3>4, <3>7, <3>8, <3>9
           DEF Idempotent!Answer, Idempotent!Unanswered, Asked, Answers, Told
      <3> QED BY <3>10 DEF Idempotent!Next
    <2>5. CASE Save(r) \/ (Remind(r) /\ Answer(r, "lost"))
      <3>1. /\ h'[r].key = h[r].key /\ h'[r].reply \in {"ok", "lost"} /\ idem' = idem
            /\ \A q \in Request \ {r} : h'[q] = h[q]
        BY <2>5, AnswerFields DEF Save, Remind, Reply
      <3> QED BY <2>2, <3>1, UntoldStep DEF ToldBooking
    <2>6. CASE ~(WriteBooking(r) \/ Remind(r) \/ Save(r)
                 \/ (ReplayBooking(r) /\ bookings[h[r].id] # Nil))
      <3>1. UnchangedTable /\ LocalMove(r)
        BY <1>3, <2>6, QuietStep
      <3>2. h'[r].key = h[r].key /\ \A q \in Request \ {r} : h'[q] = h[q]
        BY <3>1, LocalMoveFields
      <3>3. h'[r].reply \in {"none", "conflict", "not_found", "error"}
        <4>1. CASE NextPage(r)
          <5>1. PICK k, c : ReadOn(r, k, c)
            BY <4>1 DEF NextPage
          <5> QED BY <2>1, <5>1 DEF ReadOn
        <4>2. CASE RejectOverlap(r) \/ ReplayBooking(r) \/ LoadMissing(r)
          BY <2>6, <4>2, AnswerFields
             DEF RejectOverlap, ReplayBooking, LoadMissing, Reply
        <4>3. CASE AcceptSlot(r) \/ WriteCancelled(r)
          BY <2>1, <4>3, GotoFields DEF AcceptSlot, WriteCancelled, PC
        <4>4. CASE LookupKey(r) \/ RelookupKey(r)
          <5>1. h[r].key \in Key
            BY <4>4 DEF LookupKey, RelookupKey, CopyInv
          <5>2. idem[h[r].key] # NoBooking => idem[h[r].key] \in BookingId
            BY <5>1 DEF TypeOK
          <5> QED BY <2>1, <4>4, <5>2, GotoFields, ReplayOfFields, AnswerFields
                  DEF LookupKey, RelookupKey, PC, Reply
        <4>5. CASE Load(r)
          <5>1. bookings[h[r].id] \in Booking
            BY <4>5 DEF Load, CopyInv, TypeOK
          <5> QED BY <2>1, <4>5, <5>1, HoldFields, AnswerFields DEF Load, PC, Reply
        <4>6. CASE \E paid \in BOOLEAN : ConfirmGate(r, paid)
          BY <2>1, <4>6, GotoFields, AnswerFields DEF ConfirmGate, PC, Reply
        <4> QED BY <1>3, <2>6, <4>1, <4>2, <4>3, <4>4, <4>5, <4>6 DEF Step
      <3> QED BY <2>2, <3>1, <3>2, <3>3, UntoldStep DEF ToldBooking, UnchangedTable
    <2> QED BY <1>3, <2>3, <2>4, <2>5, <2>6
  <1>4. ASSUME NEW r \in Request, Fail(r)
        PROVE  UNCHANGED <<idem, Asked, Answers>>
    <2>1. /\ h'[r].key = h[r].key /\ h'[r].reply = "error" /\ idem' = idem
          /\ \A q \in Request \ {r} : h'[q] = h[q]
      BY <1>4, AnswerFields DEF Fail, Reply, UnchangedTable
    <2> QED BY <1>0, <1>4, <2>1, UntoldStep DEF ToldBooking, Fail
  <1>5. CASE UNCHANGED <<idem, h>>
    BY <1>5 DEF Asked, Answers, Told, ToldBooking
  <1>6. CASE \E r \in Request : Arrive(r)
    BY <1>1, <1>2, <1>6 DEF Arrive, Idempotent!Next
  <1>7. CASE \E r \in Request : Step(r)
    BY <1>3, <1>7
  <1>8. CASE \E r \in Request : Fail(r)
    BY <1>4, <1>8
  <1> QED BY <1>5, <1>6, <1>7, <1>8 DEF Next, Replicate, AllAnswered, vars

(***************************************************************************)
(* CreateBooking keeps the promise of the Idempotency-Key header: a key is *)
(* bound to one booking for ever, every answer with a booking names the    *)
(* one its key is bound to, and only its creator is told it was created.   *)
(***************************************************************************)
THEOREM ImplementsIdempotency == Spec => ImplementsIdempotentCreate
  <1>1. Init => Idempotent!Init
    BY DEF Init, Idempotent!Init, Idempotent!Unanswered, IdleHandler, ToldBooking
  <1> QED BY TypeInit, TypeNext, KeyInit, KeyNext, IdleInit, IdleNext, <1>1, IdempotentNext,
             PTL DEF Spec, ImplementsIdempotentCreate, Idempotent!Spec
-----------------------------------------------------------------------------
(* What one step does to one request *)

SameWindow(b, c) == b.staff = c.staff /\ b.start = c.start /\ b.end = c.end

Compete(b, c) == b.staff = c.staff /\ IntervalsOverlap(b, c)

(***************************************************************************)
(* A lifecycle request knows its booking, a request that has read no page  *)
(* begins at the front of the index, and what a confirm saved is stored.   *)
(***************************************************************************)
MoverInv ==
  \A r \in Request :
    /\ h[r].op \in LifecycleOp => h[r].id \in BookingId
    /\ h[r].pc = "load" => h[r].page = 0 /\ h[r].after = <<0, 0>>
    /\ h[r].pc = "page" /\ h[r].page = 0 => h[r].after = <<0, 0>>
    /\ h[r].op = "confirm" /\ h[r].reply \in {"ok", "lost"} => bookings[h[r].id] # Nil

\* A create arrives, and begins at the front of the index.
Starts(r) ==
  /\ h[r].op = "none" /\ h'[r].pc = "page" /\ h'[r].op = "create" /\ h'[r].id = r
  /\ h'[r].page = 0 /\ h'[r].after = <<0, 0>>
  /\ h'[r].copy.start < h'[r].copy.end
  /\ h'[r].reply = "none"

SameAsk(r) == h'[r].op = h[r].op /\ h'[r].id = h[r].id /\ h[r].op # "none"

\* A lifecycle route holds the row it read; only confirm goes on to the index.
Loads(r) ==
  /\ h[r].pc = "load" /\ SameAsk(r) /\ h[r].op \in LifecycleOp
  /\ bookings[h[r].id] # Nil /\ h'[r].copy = bookings[h[r].id]
  /\ \/ h'[r].pc = "page" /\ h'[r].page = 0 /\ h'[r].after = <<0, 0>>
     \/ h'[r].pc = "save" /\ h[r].op # "confirm"
  /\ h'[r].reply = "none"

Reads(r) == NextPage(r) \/ AcceptSlot(r)

\* A request goes on from the lookup to the write, or from the gate to the save.
GoesOn(r) ==
  /\ \/ h[r].pc = "lookup" /\ h'[r].pc = "write"
     \/ h[r].pc = "gate" /\ h'[r].pc = "save"
  /\ SameAsk(r) /\ h'[r].copy = h[r].copy /\ h'[r].reply = "none"

\* A request that is not past a check, and has nothing more to write.
Leaves(r) ==
  /\ h'[r].pc \in {"load", "relookup", "replay", "remind", "done"}
  /\ h'[r].reply \notin {"ok", "lost"} \/ h'[r].op = "create"
  /\ \/ h[r].op = "none" /\ h'[r].op \in LifecycleOp /\ h'[r].id \in BookingId
     \/ SameAsk(r) \/ (h[r].op = "create" /\ h'[r].op = "create")
  /\ h'[r].pc = "load" => h'[r].page = 0 /\ h'[r].after = <<0, 0>>

Moves(r) ==
  \/ h'[r] = h[r]
  \/ Starts(r) \/ Loads(r) \/ Reads(r) \/ GoesOn(r) \/ Leaves(r)
  \/ WriteBooking(r) \/ Save(r)

RequestInv == TypeInv /\ KeyInv /\ IdleInv /\ MoverInv

(***************************************************************************)
(* Whatever happens, a request does one of these.                          *)
(***************************************************************************)
LEMMA EveryMove ==
  ASSUME RequestInv, [Next]_vars, NEW x \in Request
  PROVE  Moves(x)
  <1> h \in [Request -> Handler] /\ TypeOK /\ CopyInv /\ KeyInv
    BY DEF RequestInv, TypeInv, TypeOK
  <1> SUFFICES ASSUME h'[x] # h[x] PROVE Moves(x)
    BY DEF Moves
  <1>1. ASSUME NEW k \in Key, NEW s \in Staff, NEW t0 \in Instant, NEW t1 \in Instant,
               ArriveCreate(x, k, s, t0, t1)
        PROVE  Moves(x)
    <2>1. h[x] = IdleHandler
      BY <1>1 DEF ArriveCreate, Arrives, RequestInv, IdleInv
    <2>2. Starts(x)
      BY <1>1, <2>1 DEF ArriveCreate, Starts, IdleHandler
    <2> QED BY <2>2 DEF Moves
  <1>2. ASSUME NEW op \in Ops, NEW b \in BookingId, ArriveLifecycle(x, op, b)
        PROVE  Moves(x)
    <2>1. h[x] = IdleHandler /\ op \in LifecycleOp
      BY <1>2, OpsAssumption DEF ArriveLifecycle, Arrives, RequestInv, IdleInv
    <2>2. Leaves(x)
      BY <1>2, <2>1 DEF ArriveLifecycle, Leaves, IdleHandler
    <2> QED BY <2>2 DEF Moves
  <1>3. ASSUME h[x].pc \notin {"idle", "done"}, Answer(x, "error")
        PROVE  Leaves(x)
    <2>1. h[x].op # "none"
      BY <1>3 DEF CopyInv, LifecycleOp, Handler, PC
    <2> QED BY <1>3, <2>1, AnswerFields DEF Leaves, SameAsk, Reply
  <1>4. ASSUME Step(x)
        PROVE  Moves(x)
    <2>1. /\ h[x].pc \notin {"idle", "done"} /\ h[x].reply = "none"
      BY <1>4 DEF KeyInv, KeyHandler, Step, NextPage, RejectOverlap, AcceptSlot, LookupKey,
                  WriteBooking, WriteCancelled, RelookupKey, ReplayBooking, Remind,
                  LoadMissing, Load, Save, ConfirmGate
    <2>2. h[x].op # "none"
      BY <2>1 DEF CopyInv, LifecycleOp, Handler, PC
    <2>3. CASE Reads(x) \/ WriteBooking(x) \/ Save(x)
      BY <2>3 DEF Moves
    <2>4. CASE \E a \in {"error", "conflict", "not_found", "replayed"} : Answer(x, a)
      <3>1. Leaves(x)
        BY <2>2, <2>4, AnswerFields DEF Leaves, SameAsk, Reply
      <3> QED BY <3>1 DEF Moves
    <2>5. CASE Remind(x)
      <3>1. h[x].op = "create" /\ \E a \in {"created", "lost"} : Answer(x, a)
        BY <2>5 DEF Remind, CopyInv
      <3>2. Leaves(x)
        BY <2>2, <3>1, AnswerFields DEF Leaves, SameAsk, Reply
      <3> QED BY <3>2 DEF Moves
    <2>6. CASE Goto(x, "relookup") /\ h[x].pc = "write"
      <3>1. Leaves(x)
        BY <2>1, <2>2, <2>6, GotoFields DEF Leaves, SameAsk, PC
      <3> QED BY <3>1 DEF Moves
    <2>7. CASE (Goto(x, "write") /\ h[x].pc = "lookup") \/ (Goto(x, "save") /\ h[x].pc = "gate")
      <3>1. GoesOn(x)
        BY <2>1, <2>2, <2>7, GotoFields DEF GoesOn, SameAsk, PC
      <3> QED BY <3>1 DEF Moves
    <2>8. CASE h[x].pc \in {"lookup", "relookup"} /\ \E b \in BookingId : ReplayOf(x, b)
      <3>1. h[x].op = "create"
        BY <2>8 DEF CopyInv
      <3>2. Leaves(x)
        BY <2>1, <2>8, <3>1, ReplayOfFields DEF Leaves
      <3> QED BY <3>2 DEF Moves
    <2>9. CASE Load(x) /\ ~Answer(x, "conflict")
      <3>1. /\ h[x].op \in LifecycleOp /\ bookings[h[x].id] \in Booking
            /\ h[x].page = 0 /\ h[x].after = <<0, 0>>
        BY <2>9 DEF Load, CopyInv, TypeOK, RequestInv, MoverInv
      <3>2. \/ Hold(x, "page", bookings[h[x].id])
            \/ Hold(x, "save", bookings[h[x].id]) /\ h[x].op # "confirm"
        BY <2>9 DEF Load
      <3>3. /\ h'[x].copy = bookings[h[x].id] /\ SameAsk(x)
            /\ h'[x].page = 0 /\ h'[x].after = <<0, 0>> /\ h'[x].reply = "none"
            /\ h'[x].pc = "page" \/ (h'[x].pc = "save" /\ h[x].op # "confirm")
        BY <2>1, <2>2, <3>1, <3>2, HoldFields DEF SameAsk, PC
      <3>4. h[x].pc = "load" /\ bookings[h[x].id] # Nil
        BY <2>9 DEF Load
      <3>5. Loads(x)
        BY <3>1, <3>3, <3>4 DEF Loads
      <3> QED BY <3>5 DEF Moves
    <2>10. CASE LookupKey(x) \/ RelookupKey(x)
      <3>1. h[x].key \in Key
        BY <2>10 DEF LookupKey, RelookupKey, CopyInv
      <3>2. idem[h[x].key] # NoBooking => idem[h[x].key] \in BookingId
        BY <3>1 DEF TypeOK
      <3> QED BY <2>4, <2>7, <2>8, <2>10, <3>2 DEF LookupKey, RelookupKey
    <2>11. CASE RejectOverlap(x) \/ ReplayBooking(x) \/ LoadMissing(x)
                \/ \E paid \in BOOLEAN : ConfirmGate(x, paid)
      BY <2>4, <2>7, <2>11 DEF RejectOverlap, ReplayBooking, LoadMissing, ConfirmGate
    <2>12. CASE WriteCancelled(x)
      BY <2>6, <2>12 DEF WriteCancelled
    <2> QED BY <1>4, <2>3, <2>4, <2>5, <2>9, <2>10, <2>11, <2>12 DEF Step, Reads
  <1>5. ASSUME NEW r \in Request, Arrive(r) \/ Step(r) \/ Fail(r)
        PROVE  r = x
    <2>1. CASE Arrive(r)
      BY <2>1 DEF Arrive, ArriveCreate, ArriveLifecycle
    <2>2. CASE Fail(r)
      BY <2>2, AnswerFields DEF Fail, Reply
    <2>3. CASE Step(r)
      <3>1. \A q \in Request \ {r} : h'[q] = h[q]
        <4>1. CASE WriteBooking(r)
          BY <4>1, GotoFields DEF WriteBooking, PC
        <4>2. CASE Remind(r) \/ Save(r)
          BY <4>2, AnswerFields DEF Remind, Save, Reply
        <4>3. CASE ~(WriteBooking(r) \/ Remind(r) \/ Save(r))
          BY <2>3, <4>3, QuietStep, LocalMoveFields
        <4> QED BY <4>1, <4>2, <4>3
      <3> QED BY <3>1
    <2> QED BY <1>5, <2>1, <2>2, <2>3
  <1>6. ASSUME Fail(x)
        PROVE  Moves(x)
    BY <1>3, <1>6 DEF Fail, Moves
  <1> QED BY <1>1, <1>2, <1>4, <1>5, <1>6 DEF Next, Arrive, Replicate, AllAnswered, vars

-----------------------------------------------------------------------------
(* What one step does to the table *)

(***************************************************************************)
(* Finitely many bookings are stored; a row, its index item and the copies *)
(* that lifecycle routes hold of it agree on its staff member and window.  *)
(***************************************************************************)
WindowHandler(r) ==
  /\ h[r].op \in LifecycleOp /\ h[r].pc \in {"page", "gate", "save"}
       => SameWindow(h[r].copy, bookings[h[r].id])
  /\ h[r].op = "create" /\ h[r].pc \in {"page", "lookup", "write"}
       => h[r].copy.start < h[r].copy.end

IndexFollows ==
  \A b \in BookingId :
    gsi1[b] # Nil => bookings[b] # Nil /\ SameWindow(gsi1[b], bookings[b])

WindowInv ==
  /\ IsFiniteSet({b \in BookingId : bookings[b] # Nil})
  /\ IndexFollows
  /\ \A r \in Request : WindowHandler(r)

Writes(s) == WriteBooking(s) \/ Save(s)

(***************************************************************************)
(* A write is of the one row that its request is about; it keeps the       *)
(* window, and makes a row hold its slot only if it creates or confirms.   *)
(***************************************************************************)
LEMMA RowWritten ==
  ASSUME RequestInv, WindowInv, NEW s \in Request, Writes(s)
  PROVE  /\ h[s].pc \in {"write", "save"} /\ h'[s].pc \in {"remind", "done"}
         /\ SameAsk(s) /\ \A q \in Request \ {s} : h'[q] = h[q]
         /\ h[s].id \in BookingId
         /\ \A d \in BookingId \ {h[s].id} : bookings'[d] = bookings[d]
         /\ bookings'[h[s].id] \in Booking
         /\ bookings[h[s].id] # Nil => SameWindow(bookings'[h[s].id], bookings[h[s].id])
         /\ gsi1' = gsi1 \/ gsi1' = bookings'
         /\ Reserves(bookings'[h[s].id].status) =>
              \/ h[s].op = "create" /\ h[s].id = s /\ bookings[s] = Nil
              \/ h[s].op = "confirm"
  <1> TypeOK /\ CopyInv /\ KeyInv /\ h \in [Request -> Handler]
    BY DEF RequestInv, TypeInv, TypeOK
  <1>1. CASE WriteBooking(s)
    <2>1. h[s].pc = "write" /\ h[s].op = "create" /\ h[s].copy \in Booking /\ h[s].id = s
      BY <1>1 DEF WriteBooking, CopyInv, TypeOK, Handler, KeyInv, KeyHandler, Unwritten
    <2>2. /\ h'[s].pc = "remind" /\ h'[s].op = h[s].op /\ h'[s].id = h[s].id
          /\ \A q \in Request \ {s} : h'[q] = h[q]
      BY <1>1, GotoFields DEF WriteBooking, PC
    <2>3. /\ bookings[s] = Nil /\ bookings' = [bookings EXCEPT ![s] = h[s].copy]
          /\ gsi1' = gsi1 \/ gsi1' = bookings'
      BY <1>1 DEF WriteBooking, PutBooking
    <2> QED BY <2>1, <2>2, <2>3 DEF SameAsk, BookingId, TypeOK
  <1>2. CASE Save(s)
    <2> DEFINE c == [h[s].copy EXCEPT !.status = To[h[s].op]]
    <2>1. /\ h[s].pc = "save" /\ h[s].copy \in Booking /\ h[s].op \in LifecycleOp
          /\ h[s].id \in BookingId
      BY <1>2 DEF Save, CopyInv, Handler
    <2>2. /\ c \in Booking /\ c.status = To[h[s].op] /\ SameWindow(c, h[s].copy)
      BY <2>1, SavedCopyType DEF Booking, SameWindow
    <2>3. /\ bookings' = [bookings EXCEPT ![h[s].id] = c]
          /\ gsi1' = gsi1 \/ gsi1' = bookings'
          /\ \E a \in {"ok", "lost"} : Answer(s, a)
      BY <1>2 DEF Save, PutBooking
    <2>4. SameWindow(h[s].copy, bookings[h[s].id])
      BY <2>1 DEF WindowInv, WindowHandler
    <2> HIDE DEF c
    <2>5. /\ h'[s].pc = "done" /\ h'[s].op = h[s].op /\ h'[s].id = h[s].id
          /\ \A q \in Request \ {s} : h'[q] = h[q]
      BY <2>3, AnswerFields DEF Reply
    <2>6. bookings'[h[s].id] = c /\ \A d \in BookingId \ {h[s].id} : bookings'[d] = bookings[d]
      BY <2>1, <2>3 DEF TypeOK
    <2>7. Reserves(c.status) => h[s].op = "confirm"
      BY <2>1, <2>2 DEF LifecycleOp, To, Reserves
    <2>8. SameWindow(c, bookings[h[s].id])
      BY <2>2, <2>4 DEF SameWindow
    <2>9. SameAsk(s)
      BY <2>1, <2>5 DEF SameAsk, LifecycleOp
    <2> QED BY <2>1, <2>2, <2>3, <2>5, <2>6, <2>7, <2>8, <2>9
  <1> QED BY <1>1, <1>2 DEF Writes

(***************************************************************************)
(* Every other step leaves the rows alone, and the index or one item of it *)
(* up to date.                                                             *)
(***************************************************************************)
LEMMA TableStep ==
  ASSUME [Next]_vars
  PROVE  \/ \E s \in Request : Writes(s)
         \/ bookings' = bookings /\ gsi1' = gsi1
         \/ bookings' = bookings /\ \E b \in BookingId : gsi1' = [gsi1 EXCEPT ![b] = bookings[b]]
  BY DEF Next, Arrive, ArriveCreate, ArriveLifecycle, Step, NextPage, RejectOverlap,
         AcceptSlot, LookupKey, WriteCancelled, RelookupKey, ReplayBooking, Remind,
         LoadMissing, Load, ConfirmGate, Fail, Replicate, AllAnswered, vars,
         UnchangedTable, Writes

(***************************************************************************)
(* No row disappears, moves to another window or out of the index.         *)
(***************************************************************************)
RowsKeep ==
  \A b \in BookingId :
    /\ bookings[b] # Nil => bookings'[b] # Nil /\ SameWindow(bookings'[b], bookings[b])
    /\ gsi1[b] # Nil => gsi1'[b] # Nil /\ gsi1'[b].start = gsi1[b].start

LEMMA RowsKept ==
  ASSUME RequestInv, WindowInv, [Next]_vars
  PROVE  RowsKeep /\ IndexFollows'
  <1> TypeOK /\ IndexFollows
    BY DEF RequestInv, TypeInv, WindowInv
  <1>1. ASSUME NEW s \in Request, Writes(s)
        PROVE  RowsKeep /\ IndexFollows'
    <2>1. \A b \in BookingId :
            bookings[b] # Nil => bookings'[b] # Nil /\ SameWindow(bookings'[b], bookings[b])
      BY <1>1, RowWritten, NilAssumption DEF SameWindow
    <2>2. gsi1' = gsi1 \/ gsi1' = bookings'
      BY <1>1, RowWritten
    <2> QED BY <2>1, <2>2 DEF RowsKeep, IndexFollows, SameWindow
  <1>2. CASE bookings' = bookings /\ gsi1' = gsi1
    BY <1>2 DEF RowsKeep, IndexFollows, SameWindow
  <1>3. ASSUME NEW b \in BookingId, bookings' = bookings,
               gsi1' = [gsi1 EXCEPT ![b] = bookings[b]]
        PROVE  RowsKeep /\ IndexFollows'
    <2>1. gsi1'[b] = bookings[b] /\ \A d \in BookingId \ {b} : gsi1'[d] = gsi1[d]
      BY <1>3 DEF TypeOK
    <2> QED BY <1>3, <2>1 DEF RowsKeep, IndexFollows, SameWindow
  <1> QED BY <1>1, <1>2, <1>3, TableStep

(***************************************************************************)
(* The empty table, and handlers that hold nothing.                        *)
(***************************************************************************)
THEOREM WindowInit == Init => WindowInv /\ MoverInv
  <1> SUFFICES ASSUME Init PROVE WindowInv /\ MoverInv
    OBVIOUS
  <1>1. {b \in BookingId : bookings[b] # Nil} = {}
    BY DEF Init
  <1>2. IsFiniteSet({b \in BookingId : bookings[b] # Nil})
    BY <1>1, FS_EmptySet
  <1>3. \A r \in Request : h[r].op = "none" /\ h[r].pc = "idle" /\ h[r].reply = "none"
    BY DEF Init, IdleHandler
  <1>4. IndexFollows
    BY DEF Init, IndexFollows
  <1>5. (\A r \in Request : WindowHandler(r)) /\ MoverInv
    BY <1>3 DEF WindowHandler, MoverInv, LifecycleOp
  <1> QED BY <1>2, <1>4, <1>5 DEF WindowInv

(***************************************************************************)
(* Rows, index items and copies keep their windows: a save writes back the *)
(* window that was read, which never changed since.                        *)
(***************************************************************************)
THEOREM WindowNext == RequestInv /\ WindowInv /\ [Next]_vars => WindowInv'
  <1> SUFFICES ASSUME RequestInv, WindowInv, [Next]_vars PROVE WindowInv'
    OBVIOUS
  <1> h \in [Request -> Handler] /\ TypeOK /\ CopyInv /\ KeyInv
    BY DEF RequestInv, TypeInv, TypeOK
  <1>1. RowsKeep /\ IndexFollows'
    BY RowsKept
  <1>2. IsFiniteSet({b \in BookingId : bookings[b] # Nil}')
    <2> DEFINE S == {b \in BookingId : bookings[b] # Nil}
    <2>1. CASE bookings' = bookings
      BY <2>1 DEF WindowInv
    <2>2. ASSUME NEW s \in Request, Writes(s)
          PROVE  IsFiniteSet(S')
      <3>1. S' \subseteq S \cup {h[s].id}
        BY <2>2, RowWritten
      <3>2. IsFiniteSet(S \cup {h[s].id})
        BY FS_AddElement DEF WindowInv
      <3> HIDE DEF S
      <3> QED BY <3>1, <3>2, FS_Subset
    <2> QED BY <2>1, <2>2, TableStep
  <1>3. ASSUME NEW r \in Request
        PROVE  WindowHandler(r)'
    <2> Moves(r) /\ WindowHandler(r)
      BY EveryMove DEF WindowInv
    <2>1. CASE h'[r] = h[r] \/ GoesOn(r) \/ AcceptSlot(r) \/ NextPage(r)
      <3>1. /\ h'[r].op = h[r].op /\ h'[r].id = h[r].id /\ h'[r].copy = h[r].copy
            /\ \/ h'[r].pc = h[r].pc
               \/ h[r].pc = "lookup" /\ h'[r].pc = "write"
               \/ h[r].pc = "gate" /\ h'[r].pc = "save"
               \/ h[r].pc = "page" /\ h'[r].pc = IF h[r].op = "create" THEN "lookup" ELSE "gate"
        <4>1. CASE h'[r] = h[r] \/ GoesOn(r)
          BY <4>1 DEF GoesOn, SameAsk
        <4>2. CASE AcceptSlot(r)
          BY <4>2, GotoFields DEF AcceptSlot, PC
        <4>3. CASE NextPage(r)
          BY <4>3 DEF NextPage, ReadOn, Handler
        <4> QED BY <2>1, <4>1, <4>2, <4>3
      <3>2. h[r].op \in LifecycleOp /\ h[r].pc \in {"page", "gate", "save"}
              => h[r].id \in BookingId /\ bookings[h[r].id] # Nil
        BY DEF KeyInv, KeyHandler, CopyInv, LifecycleOp
      <3>3. h[r].op \in LifecycleOp /\ h[r].pc \in {"page", "gate", "save"}
              => SameWindow(h[r].copy, bookings'[h[r].id])
        BY <1>1, <3>2 DEF RowsKeep, WindowHandler, SameWindow
      <3>4. h[r].pc = "lookup" => h[r].op = "create"
        BY DEF CopyInv
      <3>5. h[r].op = "create" => h[r].op \notin LifecycleOp
        BY DEF LifecycleOp
      <3>6. h[r].pc = "gate" => h[r].op = "confirm"
        BY DEF CopyInv
      <3> QED BY <3>1, <3>3, <3>4, <3>5, <3>6 DEF WindowHandler
    <2>2. CASE Starts(r)
      BY <2>2 DEF Starts, WindowHandler, LifecycleOp
    <2>3. CASE Loads(r)
      <3>1. h[r].id \in BookingId
        BY <2>3 DEF Loads, RequestInv, MoverInv
      <3>2. SameWindow(bookings'[h[r].id], bookings[h[r].id])
        BY <1>1, <2>3, <3>1 DEF RowsKeep, Loads
      <3> QED BY <2>3, <3>2 DEF Loads, SameAsk, WindowHandler, SameWindow, LifecycleOp
    <2>4. CASE Leaves(r)
      BY <2>4 DEF Leaves, WindowHandler
    <2>5. CASE Writes(r)
      <3>1. h'[r].pc \in {"remind", "done"}
        BY <2>5, RowWritten
      <3> QED BY <3>1 DEF WindowHandler
    <2> QED BY <2>1, <2>2, <2>3, <2>4, <2>5 DEF Moves, Reads, Writes
  <1> QED BY <1>1, <1>2, <1>3 DEF WindowInv

(***************************************************************************)
(* Every step keeps what requests know of the booking they are about.      *)
(***************************************************************************)
THEOREM MoverNext == RequestInv /\ WindowInv /\ [Next]_vars => MoverInv'
  <1> SUFFICES ASSUME RequestInv, WindowInv, [Next]_vars, NEW r \in Request
               PROVE  /\ h'[r].op \in LifecycleOp => h'[r].id \in BookingId
                      /\ h'[r].pc = "load" => h'[r].page = 0 /\ h'[r].after = <<0, 0>>
                      /\ h'[r].pc = "page" /\ h'[r].page = 0 => h'[r].after = <<0, 0>>
                      /\ h'[r].op = "confirm" /\ h'[r].reply \in {"ok", "lost"}
                           => bookings'[h'[r].id] # Nil
    BY DEF MoverInv
  <1> h \in [Request -> Handler] /\ TypeOK /\ CopyInv /\ KeyInv /\ MoverInv
    BY DEF RequestInv, TypeInv, TypeOK
  <1> Moves(r) /\ RowsKeep
    BY EveryMove, RowsKept
  <1>1. CASE h'[r] = h[r]
    BY <1>1 DEF MoverInv, RowsKeep, LifecycleOp
  <1>2. CASE Starts(r)
    BY <1>2 DEF Starts, LifecycleOp
  <1>3. CASE Loads(r)
    BY <1>3 DEF Loads, SameAsk, MoverInv
  <1>4. CASE Reads(r)
    <2>1. h[r].reply = "none"
      BY <1>4 DEF Reads, NextPage, AcceptSlot, KeyInv, KeyHandler
    <2>2. CASE NextPage(r)
      <3>1. h'[r].op = h[r].op /\ h'[r].id = h[r].id /\ h'[r].pc = h[r].pc /\ h'[r].reply = h[r].reply
        BY <2>2 DEF NextPage, ReadOn, Handler
      <3>2. h'[r].page # 0
        BY <2>2 DEF NextPage, ReadOn, Handler
      <3> QED BY <2>1, <2>2, <3>1, <3>2 DEF MoverInv, NextPage
    <2>3. CASE AcceptSlot(r)
      BY <2>1, <2>3, GotoFields DEF AcceptSlot, PC, MoverInv
    <2> QED BY <1>4, <2>2, <2>3 DEF Reads
  <1>5. CASE GoesOn(r)
    BY <1>5 DEF GoesOn, SameAsk, MoverInv
  <1>6. CASE Leaves(r)
    BY <1>6 DEF Leaves, SameAsk, MoverInv, LifecycleOp
  <1>7. CASE Writes(r)
    BY <1>7, RowWritten, NilAssumption DEF SameAsk
  <1> QED BY <1>1, <1>2, <1>3, <1>4, <1>5, <1>6, <1>7 DEF Moves, Writes

-----------------------------------------------------------------------------
(* What the histories record *)

HistoryTypeOK ==
  /\ met \in [Request -> SUBSET Request]
  /\ overlooked \in [Request -> SUBSET BookingId]
  /\ revived \subseteq BookingId

(***************************************************************************)
(* Requests that both have yet to write have met.                          *)
(***************************************************************************)
MetInv == \A r, q \in Undecided : r # q => q \in met[r]

Recorded ==
  /\ \A r \in Request :
       /\ met[r] \subseteq met'[r] /\ overlooked[r] \subseteq overlooked'[r]
       /\ \A q \in met'[r] \ met[r] : r \in Undecided' /\ q \in Undecided' /\ r # q
       /\ IF h[r].pc = "page" /\ h'[r] # h[r]
            THEN Missed(r) \subseteq overlooked'[r]
            ELSE overlooked'[r] = overlooked[r]
  /\ revived \subseteq revived'
  /\ \A b \in BookingId : Ended(b) /\ ~Ended(b)' => b \in revived'

(***************************************************************************)
(* Nothing has happened at first.                                          *)
(***************************************************************************)
THEOREM HistoryInit == HInit => HistoryTypeOK /\ MetInv
  BY DEF HInit, Init, IdleHandler, HistoryTypeOK, MetInv, Undecided

(***************************************************************************)
(* A step of the service records what happens in it and forgets nothing.   *)
(***************************************************************************)
LEMMA Recording ==
  ASSUME HistoryTypeOK, MetInv, [HNext]_hvars
  PROVE  Recorded /\ HistoryTypeOK' /\ MetInv'
  <1>1. CASE UNCHANGED hvars
    BY <1>1 DEF hvars, vars, histories, Recorded, HistoryTypeOK, MetInv, Undecided, Ended
  <1>2. CASE Record
    <2>2. \A r \in Request : Missed(r) \subseteq BookingId
      BY DEF Missed
    <2>3. Undecided \subseteq Request /\ Undecided' \subseteq Request
      BY DEF Undecided
    <2>4. \A r \in Request :
            /\ met'[r] = met[r] \cup {q \in Undecided' : r \in Undecided' /\ q # r}
            /\ overlooked'[r] =
                 overlooked[r] \cup IF h[r].pc = "page" /\ h'[r] # h[r] THEN Missed(r) ELSE {}
      BY <1>2 DEF Record
    <2>5. HistoryTypeOK'
      <3>1. met' \in [Request -> SUBSET Request]
        BY <1>2, <2>3 DEF Record, HistoryTypeOK
      <3>2. overlooked' \in [Request -> SUBSET BookingId]
        BY <1>2, <2>2 DEF Record, HistoryTypeOK
      <3>3. revived' \subseteq BookingId
        BY <1>2 DEF Record, HistoryTypeOK
      <3> QED BY <3>1, <3>2, <3>3 DEF HistoryTypeOK
    <2>6. MetInv'
      BY <2>3, <2>4 DEF MetInv
    <2>7. revived' = revived \cup {b \in BookingId : Ended(b) /\ ~Ended(b)'}
      BY <1>2 DEF Record
    <2>8. ASSUME NEW r \in Request
          PROVE  /\ met[r] \subseteq met'[r] /\ overlooked[r] \subseteq overlooked'[r]
                 /\ \A q \in met'[r] \ met[r] : r \in Undecided' /\ q \in Undecided' /\ r # q
                 /\ IF h[r].pc = "page" /\ h'[r] # h[r]
                      THEN Missed(r) \subseteq overlooked'[r]
                      ELSE overlooked'[r] = overlooked[r]
      BY <2>4
    <2> QED BY <2>5, <2>6, <2>7, <2>8 DEF Recorded
  <1> QED BY <1>1, <1>2 DEF HNext

-----------------------------------------------------------------------------
(* The overlap check *)

(***************************************************************************)
(* Stored bookings have sort keys, which lie after the start of the index  *)
(* and are ordered as pairs of integers are.                               *)
(***************************************************************************)
LEMMA SortKeyType ==
  ASSUME TypeOK, NEW b \in BookingId, gsi1[b] # Nil
  PROVE  SortKey(b) \in Int \X Int /\ KeyLess(<<0, 0>>, SortKey(b))
  <1>1. gsi1[b] \in Booking /\ b \in Nat \ {0}
    BY RequestAssumption DEF TypeOK, BookingId
  <1>2. gsi1[b].start \in Nat
    BY <1>1, InstantAssumption DEF Booking
  <1> DEFINE t == gsi1[b].start
  <1>3. TextOrder(t) \in Nat
    BY <1>2 DEF TextOrder
  <1> QED BY <1>1, <1>3 DEF SortKey, KeyLess

(***************************************************************************)
(* The order of sort keys is total and transitive.                         *)
(***************************************************************************)
LEMMA KeyOrder ==
  ASSUME NEW p \in Int \X Int, NEW q \in Int \X Int, NEW s \in Int \X Int
  PROVE  /\ ~KeyLess(p, p)
         /\ KeyLess(p, q) /\ KeyLess(q, s) => KeyLess(p, s)
         /\ ~KeyLess(p, q) /\ ~KeyLess(q, s) => ~KeyLess(p, s)
         /\ KeyLess(p, q) \/ KeyLess(q, p) \/ p = q
  BY DEF KeyLess

(***************************************************************************)
(* A page holds every unread item that sorts before one it holds.          *)
(***************************************************************************)
LEMMA PageIsInitial ==
  ASSUME TypeOK, WindowInv, NEW r \in Request,
         NEW b \in Page(r), NEW d \in Rest(r), ~KeyLess(SortKey(b), SortKey(d))
  PROVE  d \in Page(r)
  <1> DEFINE Before(x) == {c \in Rest(r) : KeyLess(SortKey(c), SortKey(x))}
             Stored == {c \in BookingId : bookings[c] # Nil}
  <1>1. \A c \in Rest(r) : SortKey(c) \in Int \X Int
    BY SortKeyType DEF Rest
  <1>2. b \in Rest(r) /\ Cardinality(Before(b)) < PageSize
    BY DEF Page
  <1>3. Before(d) \subseteq Before(b)
    BY <1>1, <1>2, KeyOrder
  <1>4. Before(b) \subseteq Stored
    BY DEF Rest, WindowInv, IndexFollows
  <1>5. IsFiniteSet(Stored)
    BY DEF WindowInv
  <1> HIDE DEF Before, Stored
  <1>6. IsFiniteSet(Before(b)) /\ Cardinality(Before(b)) \in Nat
    BY <1>4, <1>5, FS_Subset, FS_CardinalityType
  <1>7. /\ IsFiniteSet(Before(d)) /\ Cardinality(Before(d)) \in Nat
        /\ Cardinality(Before(d)) <= Cardinality(Before(b))
    BY <1>3, <1>6, FS_Subset, FS_CardinalityType
  <1>8. Cardinality(Before(d)) < PageSize
    BY <1>2, <1>6, <1>7, PagingAssumption
  <1> QED BY <1>8 DEF Page, Before

(***************************************************************************)
(* r has found booking d, is still to come to it, or has a record that it  *)
(* could not see it.                                                       *)
(***************************************************************************)
Seen(r, d) ==
  \/ d \in overlooked[r]
  \/ h[r].pc = "page" /\ (h[r].clash \/ h[r].page = 0 \/ d \in Rest(r))

(***************************************************************************)
(* What others do takes no booking from before a request that reads on.    *)
(***************************************************************************)
LEMMA SeenKept ==
  ASSUME RequestInv, WindowInv, [Next]_vars, Recorded,
         NEW r \in Request, NEW d \in BookingId, Seen(r, d), h'[r] = h[r]
  PROVE  Seen(r, d)'
  <1>1. overlooked[r] \subseteq overlooked'[r]
    BY DEF Recorded
  <1>2. d \in Rest(r) => d \in Rest(r)'
    BY RowsKept DEF RowsKeep, Rest, SortKey
  <1> QED BY <1>1, <1>2 DEF Seen

(***************************************************************************)
(* Nor does reading a page: a booking in the way is on the page, and then  *)
(* clashes, or on a later one, or it is recorded that the query hides it.  *)
(***************************************************************************)
LEMMA SeenReading ==
  ASSUME RequestInv, WindowInv, Recorded,
         NEW r \in Request, NEW d \in BookingId \ {h[r].id}, Seen(r, d), Reads(r),
         bookings[d] # Nil, Blocks(bookings[d], h[r].copy)
  PROVE  Seen(r, d)'
  <1> TypeOK /\ CopyInv /\ h \in [Request -> Handler]
    BY DEF RequestInv, TypeInv, TypeOK
  <1>1. h[r].pc = "page" /\ gsi1' = gsi1
    BY DEF Reads, NextPage, AcceptSlot, UnchangedTable
  <1>2. h'[r] # h[r] /\ h'[r].copy = h[r].copy
    <2>1. CASE NextPage(r)
      <3>1. h'[r].page # h[r].page /\ h'[r].copy = h[r].copy
        BY <2>1 DEF NextPage, ReadOn, Handler
      <3> QED BY <3>1
    <2>2. CASE AcceptSlot(r)
      <3>1. h'[r].pc # "page" /\ h'[r].copy = h[r].copy
        BY <2>2, GotoFields DEF AcceptSlot, PC
      <3> QED BY <1>1, <3>1
    <2> QED BY <2>1, <2>2 DEF Reads
  <1>3. overlooked[r] \cup Missed(r) \subseteq overlooked'[r]
    BY <1>1, <1>2 DEF Recorded
  <1> SUFFICES ASSUME d \notin overlooked'[r] PROVE Seen(r, d)'
    BY DEF Seen
  <1>4. ~Hidden(r, d) /\ d \notin overlooked[r]
    BY <1>3 DEF Missed
  <1>5. /\ gsi1[d] # Nil /\ Blocks(gsi1[d], h[r].copy)
        /\ TextOrder(gsi1[d].start) <= TextOrder(h[r].copy.end)
    <2>1. gsi1[d] # Nil /\ Blocks(gsi1[d], h[r].copy)
      BY <1>4 DEF Hidden
    <2>2. gsi1[d].start \in Nat /\ h[r].copy.end \in Nat
      BY <1>1, <2>1, InstantAssumption DEF TypeOK, CopyInv, Handler, Booking
    <2>3. TextOrder(gsi1[d].start) \in Int /\ TextOrder(h[r].copy.end) \in Int
      BY <2>2 DEF TextOrder
    <2> QED BY <1>4, <2>1, <2>3 DEF Hidden
  <1>6. h[r].clash \/ d \in Rest(r)
    <2>1. CASE h[r].page = 0
      <3>1. h[r].after = <<0, 0>>
        BY <1>1, <2>1 DEF RequestInv, MoverInv
      <3> QED BY <1>5, <3>1, SortKeyType DEF Rest
    <2> QED BY <1>1, <1>4, <2>1 DEF Seen
  <1>7. d \in Page(r) => Clash(r)
    BY <1>5 DEF Clash
  <1>8. Clash(r) \/ (d \in Rest(r) \ Page(r) /\ ~LastPage(r))
    BY <1>4, <1>6, <1>7 DEF Clash, Hidden
  <1>9. CASE NextPage(r)
    <2> PICK b \in Page(r) : ReadOn(r, SortKey(b), Clash(r))
      BY <1>9 DEF NextPage
    <2>1. b \in BookingId /\ gsi1[b] # Nil /\ SortKey(b) \in Int \X Int
      BY SortKeyType DEF Page, Rest
    <2>2. Clash(r) \in BOOLEAN
      BY Zenon DEF Clash
    <2>3. h'[r].pc = "page" /\ h'[r].after = SortKey(b) /\ h'[r].clash = Clash(r)
      BY <1>1, <2>1, <2>2, ReadOnFields
    <2>4. CASE Clash(r)
      BY <2>3, <2>4 DEF Seen
    <2>5. CASE d \in Rest(r) \ Page(r)
      <3>1. KeyLess(SortKey(b), SortKey(d))
        BY <2>5, PageIsInitial
      <3>2. KeyLess(h'[r].after, SortKey(d)')
        BY <1>1, <2>3, <3>1 DEF SortKey
      <3>3. d \in Rest(r)'
        BY <1>1, <1>2, <1>5, <3>2 DEF Rest
      <3> QED BY <2>3, <3>3 DEF Seen
    <2> QED BY <1>8, <2>4, <2>5
  <1>10. CASE AcceptSlot(r)
    BY <1>8, <1>10 DEF AcceptSlot
  <1> QED BY <1>9, <1>10 DEF Reads

-----------------------------------------------------------------------------
(* What holds of a request that has yet to write *)

(***************************************************************************)
(* The copy a lifecycle route holds is the row, unless another route ran   *)
(* over the same booking at the same time.                                 *)
(***************************************************************************)
FreshInv ==
  \A r \in Request :
    h[r].op \in LifecycleOp /\ h[r].pc \in {"page", "gate", "save"}
      => h[r].copy = bookings[h[r].id] \/ r \in MovedTwice

Checking(r) ==
  h[r].op \in {"create", "confirm"} /\ h[r].pc \in {"page", "lookup", "write", "gate", "save"}

\* r was under way together with a request that claims booking d.
MetClaimant(r, d) == \E q \in met[r] \cap Claimants : Claimed(q) = d

(***************************************************************************)
(* Whatever stands in the way of a request that reserves a slot was seen   *)
(* by it, or was put there by a request it met.                            *)
(***************************************************************************)
CheckInv ==
  \A r \in Request : Checking(r) =>
    \A d \in BookingId \ {h[r].id} :
      bookings[d] # Nil /\ Blocks(bookings[d], h[r].copy) => Seen(r, d) \/ MetClaimant(r, d)

HistoryInv ==
  /\ RequestInv /\ WindowInv /\ GateInv
  /\ HistoryTypeOK /\ MetInv /\ FreshInv /\ CheckInv

(***************************************************************************)
(* Requests ask for the same thing throughout.                             *)
(***************************************************************************)
LEMMA AskKept ==
  ASSUME RequestInv, WindowInv, [Next]_vars, NEW r \in Request
  PROVE  /\ h[r].op \in LifecycleOp => h'[r].op = h[r].op /\ h'[r].id = h[r].id
         /\ h[r].op = "create" => h'[r].op = "create"
  <1> Moves(r) /\ h \in [Request -> Handler]
    BY EveryMove DEF RequestInv, TypeInv, TypeOK
  <1>1. CASE Reads(r)
    <2>1. CASE NextPage(r)
      BY <2>1 DEF NextPage, ReadOn, Handler
    <2>2. CASE AcceptSlot(r)
      BY <2>2, GotoFields DEF AcceptSlot, PC
    <2> QED BY <1>1, <2>1, <2>2 DEF Reads
  <1>2. CASE Writes(r)
    BY <1>2, RowWritten DEF SameAsk
  <1>3. CASE h'[r] = h[r] \/ Starts(r) \/ Loads(r) \/ GoesOn(r) \/ Leaves(r)
    BY <1>3 DEF Starts, Loads, GoesOn, Leaves, SameAsk, LifecycleOp
  <1> QED BY <1>1, <1>2, <1>3 DEF Moves, Writes

(***************************************************************************)
(* Claims and disputes are never over.                                     *)
(***************************************************************************)
LEMMA ClaimsKept ==
  ASSUME RequestInv, WindowInv, [Next]_vars, Recorded
  PROVE  /\ Claimants \subseteq Claimants' /\ Movers \subseteq Movers'
         /\ \A r \in Claimants : Claimed(r)' = Claimed(r)
         /\ \A r \in Movers : h'[r].id = h[r].id
         /\ \A r \in Request, d \in BookingId : MetClaimant(r, d) => MetClaimant(r, d)'
         /\ MovedTwice \subseteq MovedTwice'
  <1>1. Claimants \subseteq Claimants' /\ Movers \subseteq Movers'
    BY AskKept DEF Claimants, Movers, LifecycleOp
  <1>2. \A r \in Claimants : Claimed(r)' = Claimed(r)
    BY AskKept DEF Claimants, Claimed, LifecycleOp
  <1>3. \A r \in Movers : h'[r].id = h[r].id
    BY AskKept DEF Movers
  <1>4. \A r \in Request : met[r] \subseteq met'[r]
    BY DEF Recorded
  <1>5. ASSUME NEW r \in Request, NEW d \in BookingId, MetClaimant(r, d)
        PROVE  MetClaimant(r, d)'
    <2> PICK q \in met[r] \cap Claimants : Claimed(q) = d
      BY <1>5 DEF MetClaimant
    <2>1. q \in (met[r] \cap Claimants)' /\ Claimed(q)' = d
      BY <1>1, <1>2, <1>4
    <2> QED BY <2>1 DEF MetClaimant
  <1>6. Movers \subseteq Request
    BY DEF Movers
  <1>7. MovedTwice \subseteq MovedTwice'
    BY <1>1, <1>3, <1>4, <1>6 DEF MovedTwice
  <1> QED BY <1>1, <1>2, <1>3, <1>5, <1>7

(***************************************************************************)
(* A booking that comes to hold its slot is written by its claimant.       *)
(***************************************************************************)
LEMMA NewlyHeld ==
  ASSUME RequestInv, WindowInv, [Next]_vars, NEW d \in BookingId,
         bookings'[d] # Nil, Reserves(bookings'[d].status),
         bookings[d] = Nil \/ ~Reserves(bookings[d].status)
  PROVE  \E s \in Undecided \cap Claimants :
           Claimed(s) = d /\ h[s].id = d /\ h'[s].pc \in {"remind", "done"}
  <1> PICK s \in Request : Writes(s)
    BY TableStep
  <1>1. d = h[s].id
    BY RowWritten
  <1>2. s \in Claimants /\ Claimed(s) = d
    BY <1>1, RowWritten DEF Claimants, Claimed
  <1>3. s \in Undecided /\ h'[s].pc \in {"remind", "done"}
    BY RowWritten DEF Undecided
  <1> QED BY <1>1, <1>2, <1>3

(***************************************************************************)
(* No request holds a copy at first.                                       *)
(***************************************************************************)
THEOREM CheckInit == Init => FreshInv /\ CheckInv
  BY DEF Init, IdleHandler, FreshInv, CheckInv, Checking, LifecycleOp

(***************************************************************************)
(* A copy stays fresh until another route saves the booking, and that one  *)
(* was met.                                                                *)
(***************************************************************************)
THEOREM FreshNext == HistoryInv /\ [Next]_vars /\ Recorded => FreshInv'
  <1> SUFFICES ASSUME HistoryInv, [Next]_vars, Recorded, NEW r \in Request,
                      h'[r].op \in LifecycleOp, h'[r].pc \in {"page", "gate", "save"},
                      r \notin MovedTwice'
               PROVE  h'[r].copy = bookings'[h'[r].id]
    BY DEF FreshInv
  <1> /\ RequestInv /\ WindowInv /\ MetInv /\ FreshInv /\ h \in [Request -> Handler]
      /\ TypeOK /\ CopyInv /\ KeyInv
    BY DEF HistoryInv, RequestInv, TypeInv, TypeOK
  <1> Moves(r)
    BY EveryMove
  <1>1. CASE Loads(r)
    <2>1. bookings' = bookings
      <3>1. ~ \E s \in Request : Writes(s)
        BY <1>1, RowWritten DEF Loads
      <3> QED BY <3>1, TableStep
    <2> QED BY <1>1, <2>1 DEF Loads, SameAsk
  <1>2. CASE h'[r] = h[r] \/ Reads(r) \/ GoesOn(r)
    <2>1. /\ h'[r].op = h[r].op /\ h'[r].id = h[r].id /\ h'[r].copy = h[r].copy
          /\ h[r].pc \in {"page", "gate", "save"}
      <3>1. CASE NextPage(r)
        BY <3>1 DEF NextPage, ReadOn, Handler
      <3>2. CASE AcceptSlot(r)
        BY <3>2, GotoFields DEF AcceptSlot, PC
      <3>3. CASE h'[r] = h[r]
        BY <3>3
      <3>4. CASE GoesOn(r)
        BY <3>4 DEF GoesOn, SameAsk, CopyInv, LifecycleOp
      <3> QED BY <1>2, <3>1, <3>2, <3>3, <3>4 DEF Reads
    <2>2. h[r].id \in BookingId /\ bookings[h[r].id] # Nil
      BY <2>1 DEF KeyInv, KeyHandler, CopyInv, LifecycleOp
    <2>3. r \notin MovedTwice /\ r \in Movers
      BY <2>1, ClaimsKept DEF Movers
    <2>4. h[r].copy = bookings[h[r].id]
      BY <2>1, <2>3 DEF FreshInv
    <2>5. bookings'[h[r].id] = bookings[h[r].id]
      <3> SUFFICES ASSUME NEW s \in Request, Writes(s), h[s].id = h[r].id PROVE FALSE
        BY <2>2, RowWritten, TableStep
      <3>1. s # r
        BY <1>2, RowWritten
      <3>2. h[s].op \in LifecycleOp
        <4>1. CASE WriteBooking(s)
          BY <2>2, <4>1 DEF WriteBooking, KeyInv, KeyHandler, Unwritten, CopyInv
        <4>2. CASE Save(s)
          BY <4>2 DEF Save, CopyInv
        <4> QED BY <4>1, <4>2 DEF Writes
      <3>3. s \in met[r]
        BY <2>1, <3>1, RowWritten DEF MetInv, Undecided
      <3> QED BY <2>3, <3>2, <3>3 DEF MovedTwice, Movers
    <2> QED BY <2>1, <2>4, <2>5
  <1>3. CASE Starts(r) \/ Leaves(r)
    BY <1>3 DEF Starts, Leaves, LifecycleOp
  <1>4. CASE Writes(r)
    BY <1>4, RowWritten
  <1> QED BY <1>1, <1>2, <1>3, <1>4 DEF Moves, Writes

(***************************************************************************)
(* What stands in the way of a slot at a check's end is seen or disputed:  *)
(* the check reads the whole window, and who takes a slot while it runs    *)
(* is met.                                                                 *)
(***************************************************************************)
THEOREM CheckNext == HistoryInv /\ [Next]_vars /\ Recorded => CheckInv'
  <1> SUFFICES ASSUME HistoryInv, [Next]_vars, Recorded, NEW r \in Request, Checking(r)',
                      NEW d \in BookingId \ {h'[r].id},
                      bookings'[d] # Nil, Blocks(bookings'[d], h'[r].copy)
               PROVE  Seen(r, d)' \/ MetClaimant(r, d)'
    BY DEF CheckInv
  <1> /\ RequestInv /\ WindowInv /\ MetInv /\ CheckInv /\ h \in [Request -> Handler]
      /\ TypeOK /\ CopyInv /\ KeyInv
    BY DEF HistoryInv, RequestInv, TypeInv, TypeOK
  <1> Moves(r)
    BY EveryMove
  <1>1. CASE Starts(r) \/ (Loads(r) /\ h'[r].pc = "page")
    BY <1>1 DEF Starts, Loads, Seen
  <1>2. CASE h'[r] = h[r] \/ Reads(r) \/ GoesOn(r)
    <2>1. h'[r].op = h[r].op /\ h'[r].id = h[r].id /\ h'[r].copy = h[r].copy /\ Checking(r)
      <3>1. CASE NextPage(r)
        BY <3>1 DEF NextPage, ReadOn, Handler, Checking
      <3>2. CASE AcceptSlot(r)
        BY <3>2, GotoFields DEF AcceptSlot, PC, Checking
      <3>3. CASE h'[r] = h[r]
        BY <3>3 DEF Checking
      <3>4. CASE GoesOn(r)
        BY <3>4 DEF GoesOn, SameAsk, Checking
      <3> QED BY <1>2, <3>1, <3>2, <3>3, <3>4 DEF Reads
    <2>2. CASE bookings[d] = Nil \/ ~Reserves(bookings[d].status)
      <3>1. Reserves(bookings'[d].status)
        BY DEF Blocks
      <3> PICK s \in Undecided \cap Claimants :
                 Claimed(s) = d /\ h[s].id = d /\ h'[s].pc \in {"remind", "done"}
        BY <2>2, <3>1, NewlyHeld
      <3>2. s # r /\ r \in Undecided
        BY <2>1 DEF Checking, Undecided
      <3>3. s \in met[r]
        BY <3>2 DEF MetInv
      <3> QED BY <3>3, ClaimsKept DEF MetClaimant
    <2>3. CASE bookings[d] # Nil /\ Reserves(bookings[d].status)
      <3>1. Blocks(bookings[d], h[r].copy)
        BY <2>1, <2>3, RowsKept DEF RowsKeep, SameWindow, Blocks, IntervalsOverlap
      <3>2. Seen(r, d) \/ MetClaimant(r, d)
        BY <2>1, <2>3, <3>1 DEF CheckInv
      <3>3. CASE MetClaimant(r, d)
        BY <3>3, ClaimsKept
      <3>4. CASE Seen(r, d) /\ h'[r] = h[r]
        BY <3>4, SeenKept
      <3>5. CASE Seen(r, d) /\ Reads(r)
        BY <2>1, <2>3, <3>1, <3>5, SeenReading
      <3>6. CASE Seen(r, d) /\ GoesOn(r)
        BY <3>6 DEF GoesOn, Seen, Recorded
      <3> QED BY <1>2, <3>2, <3>3, <3>4, <3>5, <3>6
    <2> QED BY <2>2, <2>3
  <1>3. CASE (Loads(r) /\ h'[r].pc = "save") \/ Leaves(r)
    BY <1>3 DEF Loads, Leaves, SameAsk, Checking, LifecycleOp
  <1>4. CASE Writes(r)
    BY <1>4, RowWritten DEF Checking
  <1> QED BY <1>1, <1>2, <1>3, <1>4 DEF Moves, Writes, Loads

(***************************************************************************)
(* Everything that is known of the requests, the table and the histories   *)
(* holds at first and is kept by every step.                               *)
(***************************************************************************)
THEOREM HistoryInvInit == HInit => HistoryInv
  BY TypeInit, KeyInit, IdleInit, WindowInit, GateInit, HistoryInit, CheckInit
     DEF HInit, HistoryInv, RequestInv

THEOREM HistoryInvNext == HistoryInv /\ [HNext]_hvars => HistoryInv' /\ Recorded /\ [Next]_vars
  <1> SUFFICES ASSUME HistoryInv, [HNext]_hvars
               PROVE  HistoryInv' /\ Recorded /\ [Next]_vars
    OBVIOUS
  <1>1. [Next]_vars
    BY DEF HNext, hvars
  <1>2. Recorded /\ HistoryTypeOK' /\ MetInv'
    BY Recording DEF HistoryInv
  <1>3. RequestInv' /\ WindowInv' /\ GateInv'
    BY <1>1, TypeNext, KeyNext, IdleNext, MoverNext, WindowNext, GateNext
       DEF HistoryInv, RequestInv
  <1>4. FreshInv' /\ CheckInv'
    BY <1>1, <1>2, FreshNext, CheckNext
  <1> QED BY <1>1, <1>2, <1>3, <1>4 DEF HistoryInv

-----------------------------------------------------------------------------
(* The handlers implement the calendar *)

(***************************************************************************)
(* The calendar's copies of the definitions of BookingDomain.              *)
(***************************************************************************)
LEMMA SameDomain ==
  /\ Promise!Booking = Booking /\ Promise!LifecycleOp = LifecycleOp
  /\ Promise!From = From /\ Promise!To = To /\ Promise!Status = Status
  /\ \A b, c : Promise!Blocks(b, c) <=> Blocks(b, c)
  /\ \A s : Promise!Reserves(s) <=> Reserves(s)
  BY DEF Promise!Booking, Promise!Status, Promise!LifecycleOp, Promise!From,
         Promise!To, Promise!Blocks, Promise!Reserves, Promise!IntervalsOverlap,
         Booking, Status, LifecycleOp, From, To, Blocks, Reserves, IntervalsOverlap

(***************************************************************************)
(* Which pairs are in dispute, one by one.                                 *)
(***************************************************************************)
Disputes(b, d) ==
  \/ \E r \in Claimants : b = Claimed(r) /\ d \in Rivals(r)
  \/ \E r \in MovedTwice : b = h[r].id /\ d = h[r].id

LEMMA DisputedPairs ==
  /\ \A b, d : <<b, d>> \in Disputed <=> Disputes(b, d)
  /\ \A p \in Disputed : \E b, d : p = <<b, d>>
  <1>1. ASSUME NEW b, NEW d
        PROVE  <<b, d>> \in Disputed <=> Disputes(b, d)
    <2> DEFINE x == <<b, d>>
    <2>1. x \in Disputed <=>
            \/ \E r \in Claimants : x \in {Claimed(r)} \X Rivals(r)
            \/ \E r \in MovedTwice : x = <<h[r].id, h[r].id>>
      BY Zenon DEF Disputed
    <2>2. \A r \in Claimants :
            x \in {Claimed(r)} \X Rivals(r) <=> b = Claimed(r) /\ d \in Rivals(r)
      OBVIOUS
    <2>3. \A r \in MovedTwice : x = <<h[r].id, h[r].id>> <=> b = h[r].id /\ d = h[r].id
      OBVIOUS
    <2> HIDE DEF x
    <2> QED BY <2>1, <2>2, <2>3 DEF Disputes, x
  <1>2. ASSUME NEW p \in Disputed
        PROVE  \E b, d : p = <<b, d>>
    <2>1. \/ \E r \in Claimants : p \in {Claimed(r)} \X Rivals(r)
          \/ \E r \in MovedTwice : p = <<h[r].id, h[r].id>>
      BY Zenon DEF Disputed
    <2>2. ASSUME NEW r \in Claimants, p \in {Claimed(r)} \X Rivals(r)
          PROVE  p = <<p[1], p[2]>>
      BY <2>2
    <2> QED BY <2>1, <2>2
  <1> QED BY <1>1, <1>2

(***************************************************************************)
(* Disputes are about bookings.                                            *)
(***************************************************************************)
LEMMA DisputedType ==
  ASSUME HistoryInv
  PROVE  Disputed \subseteq BookingId \X BookingId
  <1>1. \A r \in Claimants : Claimed(r) \in BookingId
    BY DEF HistoryInv, RequestInv, MoverInv, Claimants, Claimed, BookingId, LifecycleOp
  <1>2. \A r \in Claimants : Rivals(r) \subseteq BookingId
    BY <1>1 DEF Rivals, HistoryInv, HistoryTypeOK, Claimants
  <1>3. \A r \in MovedTwice : h[r].id \in BookingId
    BY DEF HistoryInv, RequestInv, MoverInv, MovedTwice, Movers
  <1>4. \A b, d : Disputes(b, d) => b \in BookingId /\ d \in BookingId
    BY <1>1, <1>2, <1>3 DEF Disputes
  <1> QED BY <1>4, DisputedPairs

(***************************************************************************)
(* A dispute, once there, stays.                                           *)
(***************************************************************************)
LEMMA DisputedGrows ==
  ASSUME HistoryInv, [Next]_vars, Recorded
  PROVE  Disputed \subseteq Disputed'
  <1> /\ RequestInv /\ WindowInv
      /\ Claimants \subseteq Request /\ MovedTwice \subseteq Movers
    BY DEF HistoryInv, Claimants, MovedTwice
  <1>1. ASSUME NEW r \in Claimants, NEW d \in Rivals(r)
        PROVE  d \in Rivals(r)'
    <2>1. d # Claimed(r) /\ Claimed(r)' = Claimed(r)
      BY ClaimsKept DEF Rivals
    <2>2. CASE d \in overlooked[r]
      BY <2>1, <2>2 DEF Rivals, Recorded
    <2>3. ASSUME NEW q \in met[r] \cap Claimants, d = Claimed(q)
          PROVE  d \in Rivals(r)'
      <3>1. q \in (met[r] \cap Claimants)' /\ Claimed(q)' = d
        BY <2>3, ClaimsKept DEF Recorded
      <3> QED BY <2>1, <3>1 DEF Rivals
    <2> QED BY <2>2, <2>3 DEF Rivals
  <1>2. ASSUME NEW b, NEW d, Disputes(b, d)
        PROVE  Disputes(b, d)'
    <2>1. CASE \E r \in Claimants : b = Claimed(r) /\ d \in Rivals(r)
      <3> PICK r \in Claimants : b = Claimed(r) /\ d \in Rivals(r)
        BY <2>1
      <3>1. r \in Claimants' /\ Claimed(r)' = b /\ d \in Rivals(r)'
        BY <1>1, ClaimsKept
      <3> QED BY <3>1 DEF Disputes
    <2>2. CASE \E r \in MovedTwice : b = h[r].id /\ d = h[r].id
      <3> PICK r \in MovedTwice : b = h[r].id /\ d = h[r].id
        BY <2>2
      <3>1. r \in MovedTwice' /\ h'[r].id = h[r].id
        BY ClaimsKept
      <3> QED BY <3>1 DEF Disputes
    <2> QED BY <1>2, <2>1, <2>2 DEF Disputes
  <1>3. \A b, d : <<b, d>> \in Disputed => <<b, d>> \in Disputed'
    <2>1. (\A b, d : <<b, d>> \in Disputed <=> Disputes(b, d))'
      BY DisputedPairs, PTL
    <2> QED BY <1>2, <2>1, DisputedPairs
  <1> QED BY <1>3, DisputedPairs

(***************************************************************************)
(* A write settles what it disputes before it happens: it adds none.       *)
(***************************************************************************)
LEMMA DisputedAtWrite ==
  ASSUME HistoryInv, HistoryTypeOK', Recorded, NEW s \in Request, Writes(s)
  PROVE  Disputed' = Disputed
  <1> RequestInv /\ WindowInv /\ HistoryTypeOK /\ MetInv
    BY DEF HistoryInv
  <1>1. /\ h[s].pc \in {"write", "save"} /\ h'[s].pc \in {"remind", "done"}
        /\ h'[s].op = h[s].op /\ h'[s].id = h[s].id
        /\ \A q \in Request \ {s} : h'[q] = h[q]
    BY RowWritten DEF SameAsk
  <1>2. \A r \in Request : h'[r].op = h[r].op /\ h'[r].id = h[r].id
    BY <1>1
  <1>3. Undecided' \subseteq Undecided
    BY <1>1 DEF Undecided
  <1>4. met' = met
    <2>1. \A r \in Request : met'[r] = met[r]
      BY <1>3 DEF Recorded, MetInv
    <2> QED BY <2>1 DEF HistoryTypeOK
  <1>5. overlooked' = overlooked
    <2>1. \A r \in Request : overlooked'[r] = overlooked[r]
      BY <1>1 DEF Recorded
    <2> QED BY <2>1 DEF HistoryTypeOK
  <1>6. Claimants' = Claimants /\ Movers' = Movers
    BY <1>2 DEF Claimants, Movers
  <1>7. \A r \in Claimants : Claimed(r)' = Claimed(r)
    BY <1>2 DEF Claimants, Claimed
  <1>8. \A r \in Claimants : Rivals(r)' = Rivals(r)
    BY <1>4, <1>5, <1>6, <1>7 DEF Rivals
  <1>9. MovedTwice' = MovedTwice
    BY <1>2, <1>4, <1>6 DEF MovedTwice, Movers
  <1>10. \A r \in MovedTwice : h'[r].id = h[r].id
    BY <1>2 DEF MovedTwice, Movers
  <1> QED BY <1>6, <1>7, <1>8, <1>9, <1>10 DEF Disputed

(***************************************************************************)
(* Nothing holds the slot of a request that may write now, but what it     *)
(* disputes.                                                               *)
(***************************************************************************)
LEMMA SlotTaken ==
  ASSUME HistoryInv, NEW r \in Request, h[r].op \in {"create", "confirm"},
         h[r].pc \in {"write", "save"}, NEW d \in BookingId \ {h[r].id},
         bookings[d] # Nil, Blocks(bookings[d], h[r].copy)
  PROVE  <<h[r].id, d>> \in Disputed
  <1>1. Seen(r, d) \/ MetClaimant(r, d)
    BY DEF HistoryInv, CheckInv, Checking
  <1>2. r \in Claimants /\ Claimed(r) = h[r].id
    BY DEF HistoryInv, RequestInv, TypeInv, CopyInv, KeyInv, KeyHandler, Unwritten,
           Claimants, Claimed, LifecycleOp
  <1>3. d \in Rivals(r)
    BY <1>1, <1>2 DEF Seen, MetClaimant, Rivals
  <1>4. Disputes(h[r].id, d)
    BY <1>2, <1>3 DEF Disputes
  <1> QED BY <1>4, DisputedPairs

(***************************************************************************)
(* The transaction of a create takes the slot as one atomic step would.    *)
(***************************************************************************)
LEMMA WriteBooks ==
  ASSUME HistoryInv, NEW r \in Request, WriteBooking(r), Disputed' = Disputed
  PROVE  Promise!Next
  <1> TypeOK /\ CopyInv /\ KeyInv
    BY DEF HistoryInv, RequestInv, TypeInv
  <1>1. /\ h[r].pc = "write" /\ h[r].op = "create" /\ h[r].id = r /\ r \in BookingId
        /\ h[r].copy \in Booking
    BY DEF WriteBooking, CopyInv, TypeOK, Handler, KeyInv, KeyHandler, Unwritten, BookingId
  <1>2. h[r].copy.start < h[r].copy.end /\ h[r].copy.status = "created"
    BY <1>1 DEF HistoryInv, WindowInv, WindowHandler, GateInv, GateHandler
  <1>3. Promise!SlotFree(r, h[r].copy)
    BY <1>1, SlotTaken, SameDomain DEF Promise!SlotFree
  <1>4. bookings[r] = Nil /\ bookings' = [bookings EXCEPT ![r] = h[r].copy]
    BY DEF WriteBooking, PutBooking
  <1>5. Promise!Book(r, h[r].copy)
    BY <1>2, <1>3, <1>4 DEF Promise!Book
  <1> QED BY <1>1, <1>5, SameDomain DEF Promise!Next

(***************************************************************************)
(* A save moves the booking as one atomic step would, unless it disputes   *)
(* the status.                                                             *)
(***************************************************************************)
LEMMA SaveMoves ==
  ASSUME HistoryInv, NEW r \in Request, Save(r), Disputed' = Disputed
  PROVE  Promise!Next
  <1> TypeOK /\ CopyInv /\ KeyInv
    BY DEF HistoryInv, RequestInv, TypeInv
  <1> DEFINE b == h[r].id
             op == h[r].op
  <1>1. /\ h[r].pc = "save" /\ h[r].copy \in Booking /\ op \in LifecycleOp
        /\ b \in BookingId /\ bookings[b] # Nil /\ bookings[b] \in Booking
    BY DEF Save, CopyInv, TypeOK, Handler, KeyInv, KeyHandler
  <1>2. SameWindow(h[r].copy, bookings[b]) /\ h[r].copy.status \in From[op]
    BY <1>1 DEF HistoryInv, WindowInv, WindowHandler, GateInv, GateHandler
  <1>3. bookings[b].status \in From[op] \/ <<b, b>> \in Disputed
    <2>1. h[r].copy = bookings[b] \/ r \in MovedTwice
      BY <1>1 DEF HistoryInv, FreshInv
    <2>2. r \in MovedTwice => Disputes(b, b)
      BY DEF Disputes
    <2> QED BY <1>2, <2>1, <2>2, DisputedPairs
  <1>4. op = "confirm" => Promise!SlotFree(b, bookings[b])
    <2> SUFFICES ASSUME op = "confirm", NEW d \in BookingId \ {b}, bookings[d] # Nil,
                        Blocks(bookings[d], bookings[b])
                 PROVE  <<b, d>> \in Disputed
      BY SameDomain DEF Promise!SlotFree
    <2>1. Blocks(bookings[d], h[r].copy)
      BY <1>2 DEF SameWindow, Blocks, IntervalsOverlap
    <2> QED BY <1>1, <2>1, SlotTaken
  <1>5. bookings' = [bookings EXCEPT ![b].status = To[op]]
    <2>1. [h[r].copy EXCEPT !.status = To[op]] = [bookings[b] EXCEPT !.status = To[op]]
      BY <1>1, <1>2 DEF SameWindow, Booking
    <2>2. bookings' = [bookings EXCEPT ![b] = [h[r].copy EXCEPT !.status = To[op]]]
      BY DEF Save, PutBooking
    <2> QED BY <2>1, <2>2
  <1>6. Promise!Move(b, op)
    BY <1>1, <1>3, <1>4, <1>5, SameDomain DEF Promise!Move
  <1> HIDE DEF b, op
  <1> QED BY <1>1, <1>6, SameDomain DEF Promise!Next

(***************************************************************************)
(* Every step of the service is one of the calendar, a dispute that        *)
(* arises, or a stutter.                                                   *)
(***************************************************************************)
THEOREM CalendarStep == HistoryInv /\ [HNext]_hvars => [Promise!Next]_(Promise!vars)
  <1> SUFFICES ASSUME HistoryInv, [HNext]_hvars PROVE [Promise!Next]_(Promise!vars)
    OBVIOUS
  <1>1. HistoryInv' /\ Recorded /\ [Next]_vars
    BY HistoryInvNext
  <1>2. ASSUME NEW s \in Request, Writes(s)
        PROVE  Promise!Next
    <2>1. HistoryTypeOK'
      BY <1>1 DEF HistoryInv
    <2>2. Disputed' = Disputed
      BY <1>1, <1>2, <2>1, DisputedAtWrite
    <2> QED BY <1>2, <2>2, WriteBooks, SaveMoves DEF Writes
  <1>3. CASE bookings' = bookings
    <2>1. Disputed \subseteq Disputed'
      BY <1>1, DisputedGrows
    <2>2. Disputed' \subseteq BookingId \X BookingId
      <3>1. (HistoryInv => Disputed \subseteq BookingId \X BookingId)'
        BY DisputedType, PTL
      <3> QED BY <1>1, <3>1
    <2>3. Promise!Dispute
      BY <1>3, <2>1, <2>2 DEF Promise!Dispute
    <2> QED BY <2>3 DEF Promise!Next
  <1> QED BY <1>1, <1>2, <1>3, TableStep

(***************************************************************************)
(* The stepwise handlers implement the calendar of atomic steps, for every *)
(* number of requests, however they interleave, fail and are killed, with  *)
(* an index that trails and a check that reads only so many pages.         *)
(***************************************************************************)
THEOREM CalendarImplemented == HSpec => ImplementsCalendar
  <1>1. HInit => Promise!Init
    <2> SUFFICES ASSUME HInit PROVE Promise!Init
      OBVIOUS
    <2>1. Claimants = {} /\ Movers = {}
      BY DEF HInit, Init, IdleHandler, Claimants, Movers, LifecycleOp
    <2>2. MovedTwice = {}
      BY <2>1 DEF MovedTwice
    <2>3. Disputed = {}
      BY <2>1, <2>2 DEF Disputed
    <2> QED BY <2>3 DEF HInit, Init, Promise!Init
  <1>2. HistoryInv /\ [HNext]_hvars => HistoryInv'
    BY HistoryInvNext
  <1> QED BY HistoryInvInit, CalendarStep, <1>1, <1>2, PTL
          DEF HSpec, ImplementsCalendar, Promise!Spec

-----------------------------------------------------------------------------
(* What the calendar guarantees, and the handlers with it *)

(***************************************************************************)
(* The calendar's types are those of the service and its disputes.         *)
(***************************************************************************)
LEMMA CalendarType == HistoryInv => Promise!TypeOK
  BY DisputedType, SameDomain DEF HistoryInv, RequestInv, TypeInv, TypeOK, Promise!TypeOK

(***************************************************************************)
(* A move changes the status only.                                         *)
(***************************************************************************)
LEMMA MovedBooking ==
  ASSUME Promise!TypeOK, NEW b \in BookingId, NEW op \in LifecycleOp, Promise!Move(b, op)
  PROVE  /\ bookings[b] \in Booking /\ bookings'[b] \in Booking
         /\ bookings'[b] = [bookings[b] EXCEPT !.status = To[op]]
         /\ SameWindow(bookings'[b], bookings[b]) /\ bookings'[b].status = To[op]
         /\ \A d \in BookingId \ {b} : bookings'[d] = bookings[d]
         /\ bookings[b].status \in From[op] \/ <<b, b>> \in Disputed
         /\ Disputed' = Disputed
  <1>1. bookings[b] \in Booking
    BY SameDomain DEF Promise!Move, Promise!TypeOK
  <1>2. bookings'[b] = [bookings[b] EXCEPT !.status = To[op]]
    BY SameDomain DEF Promise!Move, Promise!TypeOK
  <1>3. [bookings[b] EXCEPT !.status = To[op]] \in Booking
    BY <1>1, SavedCopyType
  <1>4. SameWindow(bookings'[b], bookings[b]) /\ bookings'[b].status = To[op]
    BY <1>1, <1>2 DEF Booking, SameWindow
  <1>5. \A d \in BookingId \ {b} : bookings'[d] = bookings[d]
    BY DEF Promise!Move, Promise!TypeOK
  <1> QED BY SameDomain, <1>1, <1>2, <1>3, <1>4, <1>5 DEF Promise!Move

(***************************************************************************)
(* A slot is checked in the step that takes it or confirms it, so what     *)
(* overlaps is disputed from then on.                                      *)
(***************************************************************************)
LEMMA OverlapsNext ==
  Promise!TypeOK /\ OverlapsAreDisputed /\ [Promise!Next]_(Promise!vars) => OverlapsAreDisputed'
  <1> SUFFICES ASSUME Promise!TypeOK, OverlapsAreDisputed, [Promise!Next]_(Promise!vars),
                      NEW b \in BookingId, NEW d \in BookingId, b # d,
                      bookings'[b] # Nil, bookings'[d] # Nil,
                      Reserves(bookings'[d].status), Blocks(bookings'[b], bookings'[d])
               PROVE  <<b, d>> \in Disputed' \/ <<d, b>> \in Disputed'
    BY SameDomain DEF OverlapsAreDisputed, Promise!NoDoubleBooking
  <1>1. Disputed \subseteq Disputed'
    BY DEF Promise!Next, Promise!vars, Promise!Book, Promise!Move, Promise!Dispute
  <1>2. ASSUME bookings[b] # Nil, bookings[d] # Nil, Reserves(bookings[d].status),
               Blocks(bookings[b], bookings[d])
        PROVE  <<b, d>> \in Disputed' \/ <<d, b>> \in Disputed'
    BY <1>1, <1>2, SameDomain DEF OverlapsAreDisputed, Promise!NoDoubleBooking
  <1>3. CASE bookings' = bookings
    BY <1>2, <1>3
  \* The slot of booking e is free in the step that writes e.
  <1>4. ASSUME NEW e \in BookingId, NEW c,
               \A f \in BookingId \ {e} :
                 /\ bookings'[f] = bookings[f]
                 /\ bookings[f] # Nil /\ Blocks(bookings[f], c) => <<e, f>> \in Disputed,
               SameWindow(bookings'[e], c), e \in {b, d}
        PROVE  <<b, d>> \in Disputed' \/ <<d, b>> \in Disputed'
    <2>1. CASE b = e
      BY <1>1, <1>4, <2>1 DEF SameWindow, Blocks, IntervalsOverlap
    <2>2. CASE d = e
      BY <1>1, <1>4, <2>2 DEF SameWindow, Blocks, IntervalsOverlap
    <2> QED BY <1>4, <2>1, <2>2
  <1>5. ASSUME NEW e \in BookingId, NEW c \in Booking, Promise!Book(e, c)
        PROVE  <<b, d>> \in Disputed' \/ <<d, b>> \in Disputed'
    <2>1. bookings'[e] = c /\ \A f \in BookingId \ {e} : bookings'[f] = bookings[f]
      BY <1>5 DEF Promise!Book, Promise!TypeOK
    <2>2. \A f \in BookingId \ {e} : bookings[f] # Nil /\ Blocks(bookings[f], c) => <<e, f>> \in Disputed
      BY SameDomain, <1>5 DEF Promise!Book, Promise!SlotFree
    <2>3. CASE e \in {b, d}
      BY <1>4, <2>1, <2>2, <2>3 DEF SameWindow
    <2>4. CASE e \notin {b, d}
      BY <1>2, <2>1, <2>4
    <2> QED BY <2>3, <2>4
  <1>6. ASSUME NEW e \in BookingId, NEW op \in LifecycleOp, Promise!Move(e, op)
        PROVE  <<b, d>> \in Disputed' \/ <<d, b>> \in Disputed'
    <2>1. /\ SameWindow(bookings'[e], bookings[e]) /\ bookings'[e].status = To[op]
          /\ \A f \in BookingId \ {e} : bookings'[f] = bookings[f]
      BY <1>6, MovedBooking
    <2>2. CASE e \in {b, d}
      <3>1. Reserves(bookings'[e].status)
        BY <2>2 DEF Blocks
      <3>2. op = "confirm"
        BY <2>1, <3>1 DEF LifecycleOp, To, Reserves
      <3>3. \A f \in BookingId \ {e} :
              bookings[f] # Nil /\ Blocks(bookings[f], bookings[e]) => <<e, f>> \in Disputed
        BY SameDomain, <1>6, <3>2 DEF Promise!Move, Promise!SlotFree
      <3> QED BY <1>4, <2>1, <2>2, <3>3
    <2>3. CASE e \notin {b, d}
      BY <1>2, <2>1, <2>3
    <2> QED BY <2>2, <2>3
  <1> QED BY SameDomain, <1>3, <1>5, <1>6
          DEF Promise!Next, Promise!vars, Promise!Dispute

(***************************************************************************)
(* No staff member is ever reserved twice at one time, but for bookings    *)
(* whose requests met, or one of whom the overlap check could not see.     *)
(***************************************************************************)
THEOREM OverlapsAlwaysDisputed == HSpec => []OverlapsAreDisputed
  <1>1. HInit => OverlapsAreDisputed
    BY DEF HInit, Init, OverlapsAreDisputed, Promise!NoDoubleBooking
  <1>2. HistoryInv /\ [HNext]_hvars => HistoryInv'
    BY HistoryInvNext
  <1> QED BY HistoryInvInit, CalendarStep, CalendarType, OverlapsNext, <1>1, <1>2, PTL DEF HSpec

(***************************************************************************)
(* A booking never leaves its lifecycle, unless two of its own transition  *)
(* requests were under way together; its window and its staff member       *)
(* always stay.                                                            *)
(***************************************************************************)
THEOREM IllegalMovesAlwaysDisputed == HSpec => IllegalMovesAreDisputed
  <1> DEFINE Fine(b) ==
        \/ Promise!LegalStep(bookings[b], bookings'[b])
        \/ /\ <<b, b>> \in Disputed
           /\ bookings'[b].status \in Promise!Status
           /\ bookings'[b] = [bookings[b] EXCEPT !.status = bookings'[b].status]
  <1>1. ASSUME HistoryInv, [HNext]_hvars, NEW b \in BookingId
        PROVE  Fine(b)
    <2>1. Promise!TypeOK /\ [Promise!Next]_(Promise!vars)
      BY <1>1, CalendarStep, CalendarType
    <2>2. ASSUME NEW e \in BookingId, NEW c \in Booking, Promise!Book(e, c)
          PROVE  Fine(b)
      BY <2>1, <2>2 DEF Promise!Book, Promise!TypeOK, Promise!LegalStep
    <2>3. ASSUME NEW e \in BookingId, NEW op \in LifecycleOp, Promise!Move(e, op)
          PROVE  Fine(b)
      <3>1. CASE b = e
        <4>1. /\ bookings'[b] = [bookings[b] EXCEPT !.status = To[op]]
              /\ bookings'[b].status = To[op] /\ bookings[b] # Nil
              /\ bookings[b].status \in From[op] \/ <<b, b>> \in Disputed
          BY <2>1, <2>3, <3>1, MovedBooking, NilAssumption
        <4>2. To[op] \in Status
          BY DEF LifecycleOp, To, Status
        <4>3. CASE bookings[b].status \in From[op]
          <5>1. Promise!LegalMove(bookings[b], bookings'[b])
            BY <4>1, <4>3, SameDomain DEF Promise!LegalMove
          <5> QED BY <5>1 DEF Promise!LegalStep
        <4>4. CASE <<b, b>> \in Disputed
          BY <4>1, <4>2, <4>4, SameDomain
        <4> QED BY <4>1, <4>3, <4>4
      <3>2. CASE b # e
        BY <2>1, <2>3, <3>2, MovedBooking DEF Promise!LegalStep
      <3> QED BY <3>1, <3>2
    <2>4. CASE bookings' = bookings
      BY <2>4 DEF Promise!LegalStep
    <2> HIDE DEF Fine
    <2> QED BY <2>1, <2>2, <2>3, <2>4, SameDomain DEF Promise!Next, Promise!vars, Promise!Dispute
  <1>2. HistoryInv /\ [HNext]_hvars
          => [\A b \in BookingId : Fine(b)]_(Promise!vars) /\ HistoryInv'
    BY <1>1, HistoryInvNext
  <1>3. [\A b \in BookingId : Fine(b)]_(Promise!vars)
          => [\A b \in BookingId :
                \/ Promise!LegalStep(bookings[b], bookings'[b])
                \/ /\ <<b, b>> \in Disputed
                   /\ bookings'[b].status \in Promise!Status
                   /\ bookings'[b] = [bookings[b] EXCEPT !.status = bookings'[b].status]]_(Promise!vars)
    OBVIOUS
  <1> HIDE DEF Fine
  <1> QED BY HistoryInvInit, <1>2, <1>3, PTL
          DEF HSpec, IllegalMovesAreDisputed, Promise!LegalTransitions

-----------------------------------------------------------------------------
(* Confirmed bookings *)

(***************************************************************************)
(* A confirm that went through, or may still.                              *)
(***************************************************************************)
Confirming(r) ==
  /\ h[r].op = "confirm"
  /\ h[r].pc \in {"page", "gate", "save"} \/ h[r].reply \in {"ok", "lost"}

\* A booking that holds its slot and has never ended.
Steady(b) == bookings[b] # Nil /\ Reserves(bookings[b].status) /\ b \notin revived

(***************************************************************************)
(* Of two confirms of competing bookings that never ended, at least one    *)
(* has the other's booking still to come, found it or could not see it:    *)
(* each reads after its own booking was stored, and the second to begin    *)
(* begins after both were.                                                 *)
(***************************************************************************)
ConfirmInv ==
  \A r, q \in Request :
    Confirming(r) /\ Confirming(q) /\ h[r].id # h[q].id
    /\ Steady(h[r].id) /\ Steady(h[q].id)
    /\ Compete(bookings[h[r].id], bookings[h[q].id])
      => Seen(r, h[q].id) \/ Seen(q, h[r].id)

\* r was at its check before this step, or begins it now.
LEMMA ConfirmingBefore ==
  ASSUME HistoryInv, [Next]_vars, Recorded, NEW r \in Request, Confirming(r)'
  PROVE  /\ h'[r].op = h[r].op /\ h'[r].id = h[r].id /\ h[r].id \in BookingId
         /\ bookings[h[r].id] # Nil
         /\ \/ Confirming(r)
            \/ h'[r].pc = "page" /\ h'[r].page = 0
         /\ \/ h'[r].pc = "page" /\ h'[r].page = 0
            \/ h'[r] = h[r] \/ Reads(r)
            \/ overlooked'[r] = overlooked[r] /\ h[r].pc \in {"gate", "save"}
  <1> /\ RequestInv /\ WindowInv /\ h \in [Request -> Handler]
      /\ TypeOK /\ CopyInv /\ KeyInv /\ MoverInv
    BY DEF HistoryInv, RequestInv, TypeInv, TypeOK
  <1> Moves(r)
    BY EveryMove
  <1>1. CASE h'[r] = h[r]
    <2>1. Confirming(r)
      BY <1>1 DEF Confirming
    <2>2. h[r].id \in BookingId /\ bookings[h[r].id] # Nil
      BY <2>1 DEF Confirming, MoverInv, KeyInv, KeyHandler, LifecycleOp
    <2> QED BY <1>1, <2>1, <2>2
  <1>2. CASE Starts(r) \/ Leaves(r)
    BY <1>2 DEF Starts, Leaves, Confirming
  <1>3. CASE Loads(r)
    BY <1>3 DEF Loads, SameAsk, Confirming, MoverInv
  <1>4. CASE Reads(r)
    <2>1. h'[r].op = h[r].op /\ h'[r].id = h[r].id /\ h[r].pc = "page"
      <3>1. CASE NextPage(r)
        BY <3>1 DEF NextPage, ReadOn, Handler
      <3>2. CASE AcceptSlot(r)
        BY <3>2, GotoFields DEF AcceptSlot, PC
      <3> QED BY <1>4, <3>1, <3>2 DEF Reads
    <2>2. Confirming(r)
      BY <2>1 DEF Confirming
    <2>3. h[r].id \in BookingId /\ bookings[h[r].id] # Nil
      BY <2>1, <2>2 DEF Confirming, MoverInv, KeyInv, KeyHandler, LifecycleOp
    <2> QED BY <1>4, <2>1, <2>2, <2>3
  <1>5. CASE GoesOn(r) \/ Save(r)
    <2>1. /\ h'[r].op = h[r].op /\ h'[r].id = h[r].id /\ h[r].op = "confirm"
          /\ h[r].pc \in {"gate", "save"}
      <3>1. CASE GoesOn(r)
        BY <3>1 DEF GoesOn, SameAsk, Confirming, CopyInv
      <3>2. CASE Save(r)
        <4>1. SameAsk(r)
          BY <3>2, RowWritten DEF Writes
        <4> QED BY <3>2, <4>1 DEF Save, SameAsk, Confirming
      <3> QED BY <1>5, <3>1, <3>2
    <2>2. Confirming(r) /\ h[r].id \in BookingId /\ bookings[h[r].id] # Nil
      BY <2>1 DEF Confirming, MoverInv, KeyInv, KeyHandler, LifecycleOp
    <2>3. overlooked'[r] = overlooked[r]
      BY <2>1 DEF Recorded
    <2> QED BY <2>1, <2>2, <2>3
  <1>6. CASE WriteBooking(r)
    <2>1. h[r].op = "create" /\ SameAsk(r)
      BY <1>6, RowWritten DEF WriteBooking, Writes, CopyInv
    <2> QED BY <2>1 DEF SameAsk, Confirming
  <1> QED BY <1>1, <1>2, <1>3, <1>4, <1>5, <1>6 DEF Moves

(***************************************************************************)
(* A booking that is stored and steady after a step was steady before.     *)
(***************************************************************************)
LEMMA SteadyBefore ==
  ASSUME HistoryInv, [Next]_vars, Recorded, NEW b \in BookingId, bookings[b] # Nil, Steady(b)'
  PROVE  Steady(b) /\ SameWindow(bookings'[b], bookings[b])
  <1>1. SameWindow(bookings'[b], bookings[b])
    BY RowsKept DEF HistoryInv, RowsKeep
  <1> QED BY <1>1 DEF Steady, Recorded, Ended

(***************************************************************************)
(* What a confirm has seen of a steady competitor, it still has.           *)
(***************************************************************************)
LEMMA SeenStays ==
  ASSUME HistoryInv, [Next]_vars, Recorded, NEW r \in Request, Confirming(r)',
         NEW d \in BookingId \ {h[r].id}, bookings[d] # Nil, Reserves(bookings[d].status),
         Compete(bookings[d], bookings[h[r].id]), Seen(r, d)
  PROVE  Seen(r, d)'
  <1> RequestInv /\ WindowInv /\ CopyInv
    BY DEF HistoryInv, RequestInv, TypeInv
  <1>1. CASE h'[r].pc = "page" /\ h'[r].page = 0
    BY <1>1 DEF Seen
  <1>2. CASE h'[r] = h[r]
    BY <1>2, SeenKept
  <1>3. CASE Reads(r)
    <2>1. h[r].pc = "page" /\ h[r].op = "confirm"
      BY <1>3, ConfirmingBefore DEF Confirming, Reads, NextPage, AcceptSlot
    <2>2. SameWindow(h[r].copy, bookings[h[r].id])
      BY <2>1 DEF WindowInv, WindowHandler, LifecycleOp
    <2>3. Blocks(bookings[d], h[r].copy)
      BY <2>2 DEF SameWindow, Compete, Blocks, IntervalsOverlap
    <2> QED BY <1>3, <2>3, SeenReading
  <1>4. CASE overlooked'[r] = overlooked[r] /\ h[r].pc \in {"gate", "save"}
    BY <1>4 DEF Seen
  <1> QED BY <1>1, <1>2, <1>3, <1>4, ConfirmingBefore

(***************************************************************************)
(* No confirm has begun at first.                                          *)
(***************************************************************************)
THEOREM ConfirmInit == HInit => ConfirmInv
  <1> SUFFICES ASSUME HInit, NEW r \in Request, Confirming(r) PROVE FALSE
    BY DEF ConfirmInv
  <1> QED BY DEF HInit, Init, IdleHandler, Confirming

(***************************************************************************)
(* Every step keeps it: a confirm begins with everything still to come,    *)
(* and loses no steady competitor as it reads.                             *)
(***************************************************************************)
THEOREM ConfirmNext == HistoryInv /\ ConfirmInv /\ [HNext]_hvars => ConfirmInv'
  <1> SUFFICES ASSUME HistoryInv, ConfirmInv, [HNext]_hvars,
                      NEW r \in Request, NEW q \in Request,
                      Confirming(r)', Confirming(q)', h'[r].id # h'[q].id,
                      Steady(h[r].id)', Steady(h[q].id)',
                      Compete(bookings'[h'[r].id], bookings'[h'[q].id])
               PROVE  Seen(r, h[q].id)' \/ Seen(q, h[r].id)'
    BY DEF ConfirmInv
  <1> Recorded /\ [Next]_vars
    BY HistoryInvNext
  <1> SUFFICES ASSUME NEW b \in BookingId, NEW d \in BookingId, h[r].id = b, h[q].id = d
               PROVE  Seen(r, h[q].id)' \/ Seen(q, h[r].id)'
    BY ConfirmingBefore
  <1>1. h'[r].id = b /\ h'[q].id = d /\ bookings[b] # Nil /\ bookings[d] # Nil /\ b # d
    BY ConfirmingBefore
  <1>2. ASSUME NEW s \in Request, NEW e \in BookingId, h'[s].pc = "page", h'[s].page = 0
        PROVE  Seen(s, e)'
    BY <1>2 DEF Seen
  <1>3. CASE Confirming(r) /\ Confirming(q)
    <2>1. /\ Steady(b) /\ SameWindow(bookings'[b], bookings[b])
          /\ Steady(d) /\ SameWindow(bookings'[d], bookings[d])
      <3>1. Steady(b)' /\ Steady(d)'
        BY <1>1 DEF Steady
      <3> QED BY <1>1, <3>1, SteadyBefore
    <2>2. Compete(bookings[b], bookings[d]) /\ Compete(bookings[d], bookings[b])
      BY <1>1, <2>1 DEF SameWindow, Compete, IntervalsOverlap
    <2>3. Seen(r, d) \/ Seen(q, b)
      BY <1>1, <1>3, <2>1, <2>2 DEF ConfirmInv
    <2>4. Seen(r, d) => Seen(r, d)'
      BY <1>1, <2>1, <2>2, SeenStays DEF Steady
    <2>5. Seen(q, b) => Seen(q, b)'
      BY <1>1, <2>1, <2>2, SeenStays DEF Steady
    <2>6. Seen(r, d)' \/ Seen(q, b)'
      BY <2>3, <2>4, <2>5
    <2> QED BY <1>1, <2>6 DEF Seen
  <1>4. CASE h'[r].pc = "page" /\ h'[r].page = 0
    BY <1>1, <1>2, <1>4 DEF Seen
  <1>5. CASE h'[q].pc = "page" /\ h'[q].page = 0
    BY <1>1, <1>2, <1>5 DEF Seen
  <1> QED BY <1>3, <1>4, <1>5, ConfirmingBefore

(***************************************************************************)
(* Overlapping bookings are both confirmed only if one was brought back    *)
(* after it had ended, or one's confirm could not see the other: for every *)
(* number of requests, with an index that trails, racing cancellations and *)
(* a check that reads only so many pages.                                  *)
(***************************************************************************)
THEOREM NeverDoubleConfirmed == HSpec => []NoDoubleConfirmed
  <1>1. HistoryInv /\ ConfirmInv => NoDoubleConfirmed
    <2> SUFFICES ASSUME HistoryInv, ConfirmInv, NEW b \in BookingId, NEW d \in BookingId,
                        b # d, BothConfirmed(b, d), Blocks(bookings[b], bookings[d]),
                        b \notin revived, d \notin revived
                 PROVE  ConfirmOverlooked(b, d) \/ ConfirmOverlooked(d, b)
      BY DEF NoDoubleConfirmed
    <2>1. PassedGate(b) /\ PassedGate(d)
      BY DEF HistoryInv, GateInv, ConfirmedPassedGate, EverConfirmed, BothConfirmed
    <2> PICK r \in Request :
               h[r].op = "confirm" /\ h[r].id = b /\ h[r].reply \in {"ok", "lost"}
      BY <2>1 DEF PassedGate
    <2> PICK q \in Request :
               h[q].op = "confirm" /\ h[q].id = d /\ h[q].reply \in {"ok", "lost"}
      BY <2>1 DEF PassedGate
    <2>2. Confirming(r) /\ Confirming(q) /\ Steady(b) /\ Steady(d)
      BY DEF Confirming, Steady, BothConfirmed, Reserves
    <2>3. Compete(bookings[b], bookings[d])
      BY DEF Compete, Blocks
    <2>4. Seen(r, d) \/ Seen(q, b)
      BY <2>2, <2>3 DEF ConfirmInv
    <2>5. h[r].pc = "done" /\ h[q].pc = "done"
      BY DEF HistoryInv, RequestInv, KeyInv, KeyHandler
    <2> QED BY <2>4, <2>5 DEF Seen, ConfirmOverlooked
  <1>2. HistoryInv /\ [HNext]_hvars => HistoryInv'
    BY HistoryInvNext
  <1> QED BY HistoryInvInit, ConfirmInit, ConfirmNext, <1>1, <1>2, PTL DEF HSpec

=============================================================================

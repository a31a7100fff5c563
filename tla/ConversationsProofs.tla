------------------------ MODULE ConversationsProofs ------------------------
(***************************************************************************)
(* Theorems about Conversations and the customers below it, for any number *)
(* of requests, messages, customers and phones.                            *)
(***************************************************************************)
EXTENDS Conversations, TLAPS

-----------------------------------------------------------------------------
(* Customers *)

\* A handler that is about to write knows what to write.
QueueInv ==
  \A r \in Request :
    /\ q[r].pc \in {"insert", "check", "save"} => q[r].phone \in Phone
    /\ q[r].pc \in {"check", "save"} => q[r].id \in Customer

\* What a handler may rely on while it is in clean.
CleanInv ==
  \A r \in clean :
    /\ q[r].pc = "insert" => \A i \in Customer : rows[i] # q[r].phone
    /\ q[r].pc = "save" => \/ rows[q[r].id] = q[r].phone
                           \/ \A i \in Customer : rows[i] # q[r].phone

\* DuplicateNeedsOverlap is not inductive: that a write makes no duplicate rests
\* on what the writer's look-up found.
CustomerInv == CustomerTypeOK /\ QueueInv /\ CleanInv /\ DuplicateNeedsOverlap

LEMMA CustomersInitInv == CustomersInit => CustomerInv
BY DEF CustomersInit, CustomerInv, CustomerTypeOK, QueueInv, CleanInv,
       DuplicateNeedsOverlap, Handler, IdleHandler

\* The handler's new state, and nobody else's.
LEMMA GoesFacts ==
  ASSUME CustomerTypeOK, NEW r \in Request, NEW i \in Customer \cup {Nil},
         NEW p \in Phone \cup {Nil},
         NEW pc \in {"insert", "check", "save", "created", "patched", "failed"},
         Goes(r, pc, i, p)
  PROVE  /\ q' \in [Request -> Handler]
         /\ q'[r].pc = pc /\ q'[r].id = i /\ q'[r].phone = p
         /\ \A x \in Request : x # r => q'[x] = q[x]
<1> DEFINE n == [pc |-> pc, id |-> i, phone |-> p]
<1>1. n \in Handler /\ n.pc = pc /\ n.id = i /\ n.phone = p
  BY DEF Handler
<1>2. q' = [q EXCEPT ![r] = n]
  BY DEF Goes
<1> HIDE DEF n
<1> QED BY <1>1, <1>2 DEF CustomerTypeOK

LEMMA GetByPhoneFacts ==
  ASSUME CustomerTypeOK, NEW p \in Phone, NEW i \in GetByPhone(p)
  PROVE  /\ i \in Customer \cup {Nil}
         /\ i # Nil => gsi2[i] = p
         /\ i = Nil => \A j \in Customer : gsi2[j] # p
BY CustomersAssumption DEF GetByPhone

\* A step of r that writes no customer, and looks, if at all, truly.
LEMMA LookInv ==
  ASSUME CustomerInv, NEW r \in Request, UNCHANGED <<rows, overrun>>,
         gsi2' \in [Customer -> Phone \cup {Nil}],
         q' \in [Request -> Handler],
         \A x \in Request : x # r => q'[x] = q[x],
         clean' \in SUBSET Request, clean' \subseteq clean \cup {r},
         q'[r].pc \in {"insert", "check", "save"} => q'[r].phone \in Phone,
         q'[r].pc \in {"check", "save"} => q'[r].id \in Customer,
         r \in clean' => 
           /\ q'[r].pc = "insert" => \A i \in Customer : rows[i] # q'[r].phone
           /\ q'[r].pc = "save" => \/ rows[q'[r].id] = q'[r].phone
                                   \/ \A i \in Customer : rows[i] # q'[r].phone
  PROVE  CustomerInv'
<1>1. CustomerTypeOK'
  BY DEF CustomerInv, CustomerTypeOK
<1>2. QueueInv'
  BY DEF CustomerInv, QueueInv
<1>3. CleanInv'
  BY DEF CustomerInv, CleanInv
<1>4. DuplicateNeedsOverlap'
  BY DEF CustomerInv, DuplicateNeedsOverlap
<1> QED BY <1>1, <1>2, <1>3, <1>4 DEF CustomerInv

\* A write of phone p to customer i by handler r, which is then done.
LEMMA PutInv ==
  ASSUME CustomerInv, NEW r \in Request, NEW i \in Customer, NEW p \in Phone,
         PutCustomer(r, i, p),
         q' \in [Request -> Handler], q'[r].pc \in {"created", "patched"},
         \A x \in Request : x # r => q'[x] = q[x],
         r \in clean => rows[i] = p \/ \A j \in Customer : rows[j] # p
  PROVE  CustomerInv'
<1>1. rows' = [rows EXCEPT ![i] = p] /\ rows' \in [Customer -> Phone \cup {Nil}]
  BY DEF PutCustomer, CustomerInv, CustomerTypeOK
<1>2. /\ clean' = {}
      /\ overrun' = IF r \notin clean THEN overrun \cup {i}
                    ELSE IF rows[i] = p THEN overrun ELSE overrun \ {i}
      /\ gsi2' \in [Customer -> Phone \cup {Nil}]
  BY <1>1 DEF PutCustomer, CustomerInv, CustomerTypeOK
<1>3. CustomerTypeOK'
  BY <1>1, <1>2 DEF CustomerInv, CustomerTypeOK
<1>4. QueueInv' /\ CleanInv'
  BY <1>2 DEF CustomerInv, QueueInv, CleanInv
<1>5. DuplicateNeedsOverlap'
  <2> SUFFICES ASSUME NEW j \in Customer, NEW k \in Customer, j # k,
                      rows'[j] # Nil, rows'[j] = rows'[k]
               PROVE  {j, k} \cap overrun' # {}
    BY DEF DuplicateNeedsOverlap
  <2>1. rows'[i] = p /\ \A x \in Customer : x # i => rows'[x] = rows[x]
    BY <1>1 DEF CustomerInv, CustomerTypeOK
  <2>2. CASE r \notin clean
    BY <2>1, <2>2, <1>2 DEF CustomerInv, DuplicateNeedsOverlap
  <2>3. CASE r \in clean /\ rows[i] = p
    BY <2>1, <2>3, <1>2 DEF CustomerInv, DuplicateNeedsOverlap
  <2>4. CASE r \in clean /\ rows[i] # p
    BY <2>1, <2>4, <1>2 DEF CustomerInv, DuplicateNeedsOverlap
  <2> QED BY <2>2, <2>3, <2>4
<1> QED BY <1>3, <1>4, <1>5 DEF CustomerInv

LEMMA CreateCustomerInv ==
  ASSUME CustomerInv, NEW r \in Request, NEW p \in Phone, CreateCustomer(r, p)
  PROVE  /\ CustomerInv'
         /\ q'[r].pc \in {"insert", "failed"}
         /\ \A x \in Request : x # r => q'[x] = q[x]
<1>1. PICK other \in GetByPhone(p) :
        IF other = Nil THEN Goes(r, "insert", Nil, p) ELSE Goes(r, "failed", Nil, Nil)
  BY DEF CreateCustomer
<1>2. clean' = IF gsi2 = rows THEN clean \cup {r} ELSE clean \ {r}
  BY DEF CreateCustomer, Looked
<1>3. CASE other = Nil
  <2>1. /\ q' \in [Request -> Handler]
        /\ q'[r].pc = "insert" /\ q'[r].phone = p
        /\ \A x \in Request : x # r => q'[x] = q[x]
    BY <1>1, <1>3, GoesFacts DEF CustomerInv
  <2>2. r \in clean' => \A i \in Customer : rows[i] # p
    BY <1>2, <1>3, GetByPhoneFacts DEF CustomerInv
  <2> QED BY <2>1, <2>2, <1>2, LookInv DEF CreateCustomer, CustomerInv, CustomerTypeOK
<1>4. CASE other # Nil
  <2>1. /\ q' \in [Request -> Handler] /\ q'[r].pc = "failed"
        /\ \A x \in Request : x # r => q'[x] = q[x]
    BY <1>1, <1>4, GoesFacts DEF CustomerInv
  <2> QED BY <2>1, <1>2, LookInv DEF CreateCustomer, CustomerInv, CustomerTypeOK
<1> QED BY <1>3, <1>4

LEMMA InsertCustomerInv ==
  ASSUME CustomerInv, NEW r \in Request, InsertCustomer(r)
  PROVE  CustomerInv' /\ q'[r].id \in Customer
<1>1. PICK i \in Customer :
        rows[i] = Nil /\ PutCustomer(r, i, q[r].phone) /\ Goes(r, "created", i, Nil)
  BY DEF InsertCustomer
<1>2. /\ q' \in [Request -> Handler] /\ q'[r].pc = "created" /\ q'[r].id = i
      /\ \A x \in Request : x # r => q'[x] = q[x]
  BY <1>1, GoesFacts DEF CustomerInv
<1>3. /\ q[r].phone \in Phone
      /\ r \in clean => \A j \in Customer : rows[j] # q[r].phone
  BY DEF InsertCustomer, CustomerInv, QueueInv, CleanInv
<1> QED BY <1>1, <1>2, <1>3, PutInv

LEMMA PatchCustomerInv ==
  ASSUME CustomerInv, NEW r \in Request, NEW i \in Customer,
         NEW p \in Phone \cup {Nil}, PatchCustomer(r, i, p)
  PROVE  CustomerInv'
<1>1. CASE rows[i] = Nil
  <2>1. Goes(r, "failed", Nil, Nil) /\ UNCHANGED <<rows, gsi2, overrun, clean>>
    BY <1>1 DEF PatchCustomer
  <2>2. /\ q' \in [Request -> Handler] /\ q'[r].pc = "failed"
        /\ \A x \in Request : x # r => q'[x] = q[x]
    BY <2>1, GoesFacts DEF CustomerInv
  <2> QED BY <2>1, <2>2, LookInv DEF CustomerInv, CustomerTypeOK
<1>2. CASE rows[i] # Nil /\ p \in {Nil, rows[i]}
  <2>1. rows[i] \in Phone
    BY <1>2 DEF CustomerInv, CustomerTypeOK
  <2>2. Goes(r, "save", i, rows[i])
    BY <1>2 DEF PatchCustomer
  <2>3. /\ q' \in [Request -> Handler]
        /\ q'[r].pc = "save" /\ q'[r].id = i /\ q'[r].phone = rows[i]
        /\ \A x \in Request : x # r => q'[x] = q[x]
    BY <2>1, <2>2, GoesFacts DEF CustomerInv
  <2> QED BY <1>2, <2>1, <2>3, LookInv DEF PatchCustomer, CustomerInv, CustomerTypeOK
<1>3. CASE rows[i] # Nil /\ p \notin {Nil, rows[i]}
  <2>1. Goes(r, "check", i, p) /\ p \in Phone
    BY <1>3 DEF PatchCustomer
  <2>2. /\ q' \in [Request -> Handler]
        /\ q'[r].pc = "check" /\ q'[r].id = i /\ q'[r].phone = p
        /\ \A x \in Request : x # r => q'[x] = q[x]
    BY <2>1, GoesFacts DEF CustomerInv
  <2> QED BY <1>3, <2>1, <2>2, LookInv DEF PatchCustomer, CustomerInv, CustomerTypeOK
<1> QED BY <1>1, <1>2, <1>3

LEMMA CheckPhoneInv ==
  ASSUME CustomerInv, NEW r \in Request, CheckPhone(r)
  PROVE  CustomerInv'
<1> DEFINE i == q[r].id
           p == q[r].phone
<1>1. i \in Customer /\ p \in Phone
  BY DEF CheckPhone, CustomerInv, QueueInv
<1>2. PICK other \in GetByPhone(p) :
        IF other \in {Nil, i} THEN Goes(r, "save", i, p) ELSE Goes(r, "failed", Nil, Nil)
  BY DEF CheckPhone
<1>3. clean' = IF gsi2 = rows THEN clean ELSE clean \ {r}
  BY DEF CheckPhone
<1>4. CASE other \in {Nil, i}
  <2>1. /\ q' \in [Request -> Handler]
        /\ q'[r].pc = "save" /\ q'[r].id = i /\ q'[r].phone = p
        /\ \A x \in Request : x # r => q'[x] = q[x]
    BY <1>1, <1>2, <1>4, GoesFacts DEF CustomerInv
  <2>2. r \in clean' => rows[i] = p \/ \A j \in Customer : rows[j] # p
    BY <1>1, <1>3, <1>4, GetByPhoneFacts, CustomersAssumption DEF CustomerInv
  <2> QED BY <1>1, <1>3, <2>1, <2>2, LookInv DEF CheckPhone, CustomerInv, CustomerTypeOK
<1>5. CASE other \notin {Nil, i}
  <2>1. /\ q' \in [Request -> Handler] /\ q'[r].pc = "failed"
        /\ \A x \in Request : x # r => q'[x] = q[x]
    BY <1>2, <1>5, GoesFacts DEF CustomerInv
  <2> QED BY <1>3, <2>1, LookInv DEF CheckPhone, CustomerInv, CustomerTypeOK
<1> QED BY <1>4, <1>5

LEMMA SaveCustomerInv ==
  ASSUME CustomerInv, NEW r \in Request, SaveCustomer(r)
  PROVE  CustomerInv'
<1>1. /\ q[r].id \in Customer /\ q[r].phone \in Phone
      /\ r \in clean => \/ rows[q[r].id] = q[r].phone
                        \/ \A j \in Customer : rows[j] # q[r].phone
  BY DEF SaveCustomer, CustomerInv, QueueInv, CleanInv
<1>2. /\ q' \in [Request -> Handler] /\ q'[r].pc = "patched"
      /\ \A x \in Request : x # r => q'[x] = q[x]
  BY <1>1, GoesFacts DEF SaveCustomer, CustomerInv
<1> QED BY <1>1, <1>2, PutInv DEF SaveCustomer

LEMMA FailCustomerInv ==
  ASSUME CustomerInv, NEW r \in Request, FailCustomer(r)
  PROVE  CustomerInv'
<1>1. /\ q' \in [Request -> Handler] /\ q'[r].pc = "failed"
      /\ \A x \in Request : x # r => q'[x] = q[x]
  BY GoesFacts DEF FailCustomer, CustomerInv
<1> QED BY <1>1, LookInv DEF FailCustomer, CustomerInv, CustomerTypeOK

LEMMA CustomerApiInv ==
  ASSUME CustomerInv, NEW r \in Request, CustomerApi(r)
  PROVE  CustomerInv'
BY CreateCustomerInv, InsertCustomerInv, PatchCustomerInv, CheckPhoneInv,
   SaveCustomerInv, FailCustomerInv DEF CustomerApi

LEMMA ReplicateCustomerInv ==
  ASSUME CustomerInv, NEW i \in Customer, ReplicateCustomer(i)
  PROVE  CustomerInv'
<1>1. gsi2' \in [Customer -> Phone \cup {Nil}] /\ UNCHANGED <<rows, q, clean, overrun>>
  BY DEF ReplicateCustomer, CustomerInv, CustomerTypeOK
<1> QED BY <1>1 DEF CustomerInv, CustomerTypeOK, QueueInv, CleanInv, DuplicateNeedsOverlap

LEMMA CustomerFrame ==
  ASSUME CustomerInv, UNCHANGED customerVars
  PROVE  CustomerInv'
BY DEF customerVars, CustomerInv, CustomerTypeOK, QueueInv, CleanInv, DuplicateNeedsOverlap

-----------------------------------------------------------------------------
(* The handlers' local state *)

Early  == {"idle", "find", "create", "insert"}
Asking == {"index", "make", "reread", "open", "made"}
Going  == {"append", "touch", "book", "reply", "touchReply", "send"}

\* What each field of a handler holds at each call.
ShapeOf(r) ==
  /\ w[r].pc \in Early \cup {"duplicate"} => w[r].cust = Nil
  /\ w[r].pc \in Early \cup Asking \cup {"duplicate"} =>
       w[r].conv = Nil /\ w[r].created = FALSE
  /\ w[r].pc \in Asking \cup Going => w[r].cust \in Customer
  /\ w[r].pc \in Going => w[r].conv \in Request
  /\ w[r].pc \in {"open", "made"} => w[r].found \in Request
  /\ w[r].pc = "made" => w[r].found = r
  /\ w[r].kind = "hook" => w[r].msg \in Msg
  /\ w[r].pc \in {"find", "create", "insert", "append", "touch", "book", "duplicate"} =>
       w[r].kind = "hook"
  /\ w[r].pc \in Asking => w[r].kind \in {"hook", "ensure"}
  /\ w[r].pc = "idle" <=> w[r].kind = Nil

Shape == w \in [Request -> Work] /\ \A r \in Request : ShapeOf(r)

\* The step is r's: nobody else's state changes.
Mine(r) == \A x \in Request : x # r => w'[x] = w[x]

LEMMA CustomerStep == CustomerInv /\ Shape /\ [Next]_vars => CustomerInv'
<1> SUFFICES ASSUME CustomerInv, Shape, [Next]_vars PROVE CustomerInv'
  OBVIOUS
<1>1. ASSUME NEW r \in Request, Webhook(r) PROVE CustomerInv'
  <2>1. CASE CreateSender(r)
    <3>1. w[r].msg \in Msg
      BY <2>1 DEF CreateSender, Shape, ShapeOf
    <3>2. Sender[w[r].msg] \in Phone
      BY <3>1, ConversationsAssumption
    <3> QED BY <2>1, <3>2, CreateCustomerInv DEF CreateSender
  <2>2. CASE InsertSender(r)
    BY <2>2, InsertCustomerInv DEF InsertSender
  <2>3. CASE FindSender(r) \/ \E m \in Msg : Deliver(r, m) \/ DeliverUnanswered(r, m)
    BY <2>3, CustomerFrame DEF Deliver, DeliverUnanswered, FindSender
  <2> QED BY <1>1, <2>1, <2>2, <2>3 DEF Webhook
<1>2. ASSUME NEW r \in Request, Conversation(r) PROVE CustomerInv'
  BY <1>2, CustomerFrame
     DEF Conversation, Ensure, GetIndex, MakeConversation, RereadIndex,
         ReturnConversation, Post, AppendInbound, SaveConversation, Book,
         AppendOutbound, Append, Send, Fail
<1>3. ASSUME NEW r \in Request, Crm(r) PROVE CustomerInv'
  BY <1>3, CustomerApiInv DEF Crm
<1>4. ASSUME NEW i \in Customer, ReplicateCustomer(i) PROVE CustomerInv'
  BY <1>4, ReplicateCustomerInv
<1>5. CASE UNCHANGED vars
  BY <1>5, CustomerFrame DEF vars
<1> QED BY <1>1, <1>2, <1>3, <1>4, <1>5 DEF Next

\* The fields that a step of r to another call keeps.
Kept(r) ==
  /\ w'[r].kind = w[r].kind /\ w'[r].msg = w[r].msg /\ w'[r].cust = w[r].cust
  /\ w'[r].found = w[r].found /\ w'[r].conv = w[r].conv
  /\ w'[r].created = w[r].created

LEMMA PcMove ==
  ASSUME Shape, NEW r \in Request, NEW pc \in Busy \cup {"done", "failed"}, Step(r, pc)
  PROVE  w'[r].pc = pc /\ Kept(r) /\ Mine(r) /\ w' \in [Request -> Work]
<1>1. w' = [w EXCEPT ![r] = [w[r] EXCEPT !.pc = pc]] /\ w[r] \in Work
  BY DEF Step, Shape
<1>2. [w[r] EXCEPT !.pc = pc] \in Work
  BY <1>1 DEF Work
<1>3. w'[r] = [w[r] EXCEPT !.pc = pc] /\ Mine(r) /\ w' \in [Request -> Work]
  BY <1>1, <1>2 DEF Mine, Shape
<1> QED BY <1>1, <1>3 DEF Kept, Work

-----------------------------------------------------------------------------
(* The invariant of the conversations *)

\* A handler has made no conversation before its transaction, and goes to the one
\* that the index names.
TableOf(r) ==
  /\ w[r].pc \in Early \cup {"index", "make", "reread", "open", "duplicate"} =>
       convs[r] = Nil
  /\ w[r].pc \in {"open", "made"} => convIdx[w[r].cust] = w[r].found

TableInv ==
  /\ convs   \in [Request -> Customer \cup {Nil}]
  /\ convIdx \in [Customer -> Request \cup {Nil}]
  /\ OneConversation
  /\ \A r \in Request : TableOf(r)

\* r has recorded its message.
In(r) == \E x \in messages : x.by = r /\ x.direction = "inbound"

Later == {"touchReply", "send", "done", "failed"}

\* What r has put so far.
MessagesOf(r) ==
  /\ w[r].kind = "hook" /\ w[r].pc \in {"touch", "book", "reply", "touchReply", "send"} =>
       In(r)
  /\ w[r].kind = "hook" /\ w[r].pc = "done" /\ Text[w[r].msg] # "empty" => In(r)
  /\ r \in booked =>
       In(r) /\ w[r].kind = "hook" /\ w[r].pc \in Later \cup {"reply"}
  /\ \A x \in messages : x.by = r =>
       /\ x.conv = w[r].conv
       /\ w[r].pc \in Later \cup IF x.direction = "inbound"
                                   THEN {"touch", "book", "reply"} ELSE {}
       /\ x.direction = "inbound" => w[r].kind = "hook"

MessageInv ==
  /\ messages \in SUBSET Message
  /\ booked \in SUBSET Request
  /\ \A r \in Request : MessagesOf(r)

\* r is the delivery of message m that took its marker, if m has an id.
Takes(r, m) == w[r].kind = "hook" /\ w[r].msg = m /\ w[r].pc # "duplicate"

MarkerInv ==
  /\ markers \in SUBSET Named /\ orphans \in SUBSET Named
  /\ \A r \in Request, m \in Named : Takes(r, m) => m \in markers
  /\ \A m \in markers \ orphans : \E r \in Request : Takes(r, m)
  /\ \A r, s \in Request, m \in Named : Takes(r, m) /\ Takes(s, m) => r = s

IInv == Shape /\ TableInv /\ MessageInv /\ MarkerInv

LEMMA InitInv == Init => IInv
<1> SUFFICES ASSUME Init PROVE IInv
  OBVIOUS
<1>1. \A r \in Request : w[r] = IdleWork
  BY DEF Init
<1>2. Shape
  <2>1. Nil # "hook" /\ IdleWork \in Work
    BY ConversationsAssumption DEF IdleWork, NewWork, Work
  <2>2. w \in [Request -> Work]
    BY <2>1 DEF Init
  <2>3. \A r \in Request : ShapeOf(r)
    BY <1>1, <2>1 DEF ShapeOf, IdleWork, NewWork, Early, Asking, Going
  <2> QED BY <2>2, <2>3 DEF Shape
<1>3. TableInv
  BY <1>1 DEF Init, TableInv, TableOf, OneConversation, IdleWork, NewWork
<1>4. MessageInv
  BY <1>1 DEF Init, MessageInv, MessagesOf, IdleWork, NewWork
<1>5. MarkerInv
  <2>1. Nil # "hook"
    BY ConversationsAssumption
  <2>2. \A r \in Request : w[r].kind = Nil
    BY <1>1 DEF IdleWork, NewWork
  <2>3. \A r \in Request, m \in Named : ~Takes(r, m)
    BY <2>1, <2>2 DEF Takes
  <2> QED BY <2>3 DEF Init, MarkerInv
<1> QED BY <1>2, <1>3, <1>4, <1>5 DEF IInv

-----------------------------------------------------------------------------
(* Steps that leave a part of the state alone *)

LEMMA ShapeFrame ==
  ASSUME Shape, NEW r \in Request, Mine(r), w' \in [Request -> Work], ShapeOf(r)'
  PROVE  Shape'
BY DEF Shape, ShapeOf, Mine

LEMMA TableFrame ==
  ASSUME TableInv, NEW r \in Request, Mine(r), UNCHANGED <<convs, convIdx>>, TableOf(r)'
  PROVE  TableInv'
BY DEF TableInv, TableOf, OneConversation, Mine

LEMMA MessageFrame ==
  ASSUME MessageInv, NEW r \in Request, Mine(r), UNCHANGED <<messages, booked>>,
         MessagesOf(r)'
  PROVE  MessageInv'
<1>1. \A x \in Request : MessagesOf(x)'
  BY DEF MessageInv, MessagesOf, Mine, In
<1> QED BY <1>1 DEF MessageInv

\* A step that leaves the message of r what it is.
LEMMA MarkerFrame ==
  ASSUME MarkerInv, NEW r \in Request, Mine(r), UNCHANGED <<markers, orphans>>,
         \A m \in Msg : Takes(r, m)' <=> Takes(r, m)
  PROVE  MarkerInv'
<1>1. \A x \in Request, m \in Msg : Takes(x, m)' <=> Takes(x, m)
  BY DEF Mine, Takes
<1>2. Named \subseteq Msg
  BY ConversationsAssumption
<1> QED BY <1>1, <1>2 DEF MarkerInv

-----------------------------------------------------------------------------
(* One lemma per step *)

LEMMA DeliverInv ==
  ASSUME IInv, NEW r \in Request, NEW m \in Msg,
         Deliver(r, m) \/ DeliverUnanswered(r, m)
  PROVE  IInv'
<1> USE DEF IInv
<1> DEFINE lost == ~Deliver(r, m)
           pc == IF lost \/ m \in markers THEN "duplicate" ELSE "find"
           n == [pc |-> pc,
                 kind |-> "hook", msg |-> m, cust |-> Nil, found |-> Nil,
                 conv |-> Nil, created |-> FALSE]
<1>0. pc \in {"duplicate", "find"}
  OBVIOUS
<1>1. /\ w[r].pc = "idle" /\ w' = [w EXCEPT ![r] = n]
      /\ UNCHANGED <<convs, convIdx, messages, booked>>
  <2>1. CASE Deliver(r, m)
    BY <2>1 DEF Deliver, Free, Begin, NewWork
  <2>2. CASE ~Deliver(r, m)
    BY <2>2 DEF DeliverUnanswered, Free, Begin, NewWork
  <2> QED BY <2>1, <2>2
<1>2. /\ lost => m \in Named \ markers /\ orphans' = orphans \cup {m}
      /\ ~lost => orphans' = orphans
      /\ markers' = IF m \in Named THEN markers \cup {m} ELSE markers
  BY DEF Deliver, DeliverUnanswered
<1>3. /\ n \in Work /\ n.kind = "hook" /\ n.msg = m /\ n.cust = Nil
      /\ n.conv = Nil /\ n.created = FALSE /\ n.pc = pc
  BY <1>0 DEF Work, Busy
<1> HIDE DEF n
<1>4. w'[r] = n /\ Mine(r) /\ w' \in [Request -> Work]
  BY <1>1, <1>3 DEF Shape, Mine
<1>5. Shape'
  <2>1. ShapeOf(r)'
    BY <1>0, <1>3, <1>4, CustomersAssumption, ConversationsAssumption
       DEF ShapeOf, Early, Asking, Going
  <2> QED BY <1>4, <2>1, ShapeFrame
<1>6. TableInv'
  BY <1>0, <1>1, <1>3, <1>4, TableFrame DEF TableInv, TableOf, Early
<1>7. \A x \in messages : x.by # r
  BY <1>1 DEF MessageInv, MessagesOf, Later
<1>8. MessageInv'
  BY <1>0, <1>1, <1>3, <1>4, <1>7, MessageFrame DEF MessageInv, MessagesOf, Later
<1>9. MarkerInv'
  <2>1. Named \subseteq Msg
    BY ConversationsAssumption
  <2>3. \A x \in Request, k \in Msg : x # r => (Takes(x, k)' <=> Takes(x, k))
    BY <1>4 DEF Takes, Mine
  <2>4. \A k \in Msg : ~Takes(r, k)
    BY <1>1, ConversationsAssumption DEF Takes, Shape, ShapeOf
  <2>5. \A k \in Msg : Takes(r, k)' <=> k = m /\ ~lost /\ m \notin markers
    BY <1>3, <1>4 DEF Takes
  <2> HIDE DEF lost, pc
  <2> QED BY <1>2, <2>1, <2>3, <2>4, <2>5 DEF MarkerInv
<1> QED BY <1>5, <1>6, <1>8, <1>9

LEMMA FindSenderInv ==
  ASSUME IInv, CustomerInv, NEW r \in Request, FindSender(r)
  PROVE  IInv'
<1> USE DEF IInv
<1>1. w[r].pc = "find" /\ w[r].kind = "hook" /\ w[r].msg \in Msg /\ w[r] \in Work
  BY DEF FindSender, Shape, ShapeOf
<1>2. PICK i \in GetByPhone(Sender[w[r].msg]) :
        w' = [w EXCEPT ![r] = [w[r] EXCEPT !.pc = IF i = Nil THEN "create" ELSE "index",
                                           !.cust = i]]
  BY <1>1 DEF FindSender, Shape
<1>3. i \in Customer \cup {Nil}
  BY <1>1, GetByPhoneFacts, ConversationsAssumption DEF CustomerInv
<1> DEFINE n == [w[r] EXCEPT !.pc = IF i = Nil THEN "create" ELSE "index", !.cust = i]
<1>4. /\ n \in Work /\ n.kind = "hook" /\ n.msg = w[r].msg /\ n.cust = i
      /\ n.conv = w[r].conv /\ n.created = w[r].created /\ n.found = w[r].found
      /\ n.pc = IF i = Nil THEN "create" ELSE "index"
  BY <1>1, <1>3 DEF Work, Busy
<1>5. w' = [w EXCEPT ![r] = n]
  BY <1>2
<1> HIDE DEF n
<1>6. w'[r] = n /\ Mine(r) /\ w' \in [Request -> Work]
  BY <1>4, <1>5 DEF Shape, Mine
<1>7. Shape'
  BY <1>1, <1>3, <1>4, <1>6, ShapeFrame, ConversationsAssumption
     DEF Shape, ShapeOf, Early, Asking, Going
<1>8. TableInv'
  BY <1>1, <1>4, <1>6, TableFrame DEF FindSender, tables, TableInv, TableOf, Early
<1>9. MessageInv'
  BY <1>1, <1>4, <1>6, MessageFrame DEF FindSender, tables, MessageInv, MessagesOf, Later, In
<1>10. MarkerInv'
  BY <1>1, <1>4, <1>6, MarkerFrame DEF FindSender, tables, Takes
<1> QED BY <1>7, <1>8, <1>9, <1>10

\* A step of r to another call that neither reads nor writes more.
LEMMA MoveInv ==
  ASSUME IInv, NEW r \in Request, NEW pc \in Busy \cup {"done", "failed"},
         Step(r, pc), UNCHANGED tables, w[r].pc \in Busy,
         ShapeOf(r)', TableOf(r)', MessagesOf(r)'
  PROVE  IInv'
<1> USE DEF IInv
<1>1. w'[r].pc = pc /\ Kept(r) /\ Mine(r) /\ w' \in [Request -> Work]
  BY PcMove
<1>2. Shape' /\ TableInv' /\ MessageInv'
  BY <1>1, ShapeFrame, TableFrame, MessageFrame DEF tables
<1>3. MarkerInv'
  BY <1>1, MarkerFrame DEF tables, Takes, Kept, Busy
<1> QED BY <1>2, <1>3

LEMMA FailInv ==
  ASSUME IInv, NEW r \in Request, w[r].pc \in Busy, Step(r, "failed"), UNCHANGED tables
  PROVE  IInv'
<1> USE DEF IInv
<1>1. w'[r].pc = "failed" /\ Kept(r)
  BY PcMove
<1>2. ShapeOf(r)'
  BY <1>1 DEF Shape, ShapeOf, Kept, Early, Asking, Going, Busy
<1>3. TableOf(r)'
  BY <1>1 DEF TableOf, Early
<1>4. MessagesOf(r)'
  BY <1>1 DEF MessageInv, MessagesOf, Later, Kept, In, tables
<1> QED BY <1>2, <1>3, <1>4, MoveInv

LEMMA CreateSenderInv ==
  ASSUME IInv, CustomerInv, NEW r \in Request, CreateSender(r)
  PROVE  IInv'
<1> USE DEF IInv
<1>1. w[r].pc = "create" /\ UNCHANGED tables
  BY DEF CreateSender
<1>2. CASE q'[r].pc # "insert"
  BY <1>1, <1>2, FailInv DEF CreateSender, Busy
<1>3. CASE q'[r].pc = "insert"
  <2>1. Step(r, "insert") /\ w[r].pc \in Busy
    BY <1>1, <1>3 DEF CreateSender, Busy
  <2>2. w'[r].pc = "insert" /\ Kept(r)
    BY <2>1, PcMove DEF Busy
  <2>3. ShapeOf(r)'
    BY <1>1, <2>2 DEF Shape, ShapeOf, Kept, Early, Asking, Going
  <2>4. TableOf(r)'
    BY <1>1, <2>2 DEF TableInv, TableOf, Early, tables
  <2>5. MessagesOf(r)'
    BY <1>1, <2>2 DEF MessageInv, MessagesOf, Later, Kept, In, tables
  <2> QED BY <1>1, <2>1, <2>3, <2>4, <2>5, MoveInv DEF Busy
<1> QED BY <1>2, <1>3

LEMMA InsertSenderInv ==
  ASSUME IInv, CustomerInv, NEW r \in Request, InsertSender(r)
  PROVE  IInv'
<1> USE DEF IInv
<1>1. w[r].pc = "insert" /\ w[r].kind = "hook" /\ w[r] \in Work
  BY DEF InsertSender, Shape, ShapeOf
<1>2. q'[r].id \in Customer
  BY InsertCustomerInv DEF InsertSender
<1> DEFINE n == [w[r] EXCEPT !.pc = "index", !.cust = q'[r].id]
<1>3. /\ n \in Work /\ n.kind = "hook" /\ n.msg = w[r].msg /\ n.cust = q'[r].id
      /\ n.conv = w[r].conv /\ n.created = w[r].created /\ n.found = w[r].found
      /\ n.pc = "index"
  BY <1>1, <1>2 DEF Work, Busy
<1>4. w' = [w EXCEPT ![r] = n]
  BY <1>1 DEF InsertSender, Shape
<1> HIDE DEF n
<1>5. w'[r] = n /\ Mine(r) /\ w' \in [Request -> Work]
  BY <1>3, <1>4 DEF Shape, Mine
<1>6. Shape'
  BY <1>1, <1>2, <1>3, <1>5, ShapeFrame, ConversationsAssumption
     DEF Shape, ShapeOf, Early, Asking, Going
<1>7. TableInv'
  BY <1>1, <1>3, <1>5, TableFrame DEF InsertSender, tables, TableInv, TableOf, Early
<1>8. MessageInv'
  BY <1>1, <1>3, <1>5, MessageFrame DEF InsertSender, tables, MessageInv, MessagesOf, Later, In
<1>9. MarkerInv'
  BY <1>1, <1>3, <1>5, MarkerFrame DEF InsertSender, tables, Takes
<1> QED BY <1>6, <1>7, <1>8, <1>9

\* A request that begins with a customer or a conversation that exists.
LEMMA BeginInv ==
  ASSUME IInv, NEW r \in Request, w[r].pc = "idle", UNCHANGED tables,
         NEW pc, NEW k, NEW i \in Customer, NEW v \in Request \cup {Nil},
         Begin(r, pc, k, Nil, i, v),
         \/ pc = "index" /\ k = "ensure" /\ v = Nil
         \/ pc = "reply" /\ k = "post" /\ v # Nil
  PROVE  IInv'
<1> USE DEF IInv
<1> DEFINE n == NewWork(pc, k, Nil, i, v)
<1>1. w' = [w EXCEPT ![r] = n]
  BY DEF Begin
<1>2. /\ n \in Work /\ n.pc = pc /\ n.kind = k /\ n.cust = i /\ n.conv = v
      /\ n.created = FALSE
  BY DEF NewWork, Work, Busy
<1> HIDE DEF n
<1>3. w'[r] = n /\ Mine(r) /\ w' \in [Request -> Work]
  BY <1>1, <1>2 DEF Shape, Mine
<1>4. Shape'
  BY <1>2, <1>3, ShapeFrame, CustomersAssumption, ConversationsAssumption
     DEF ShapeOf, Early, Asking, Going
<1>5. TableInv'
  BY <1>2, <1>3, TableFrame DEF tables, TableInv, TableOf, Early
<1>6. \A x \in messages : x.by # r
  BY DEF MessageInv, MessagesOf, Later
<1>7. MessageInv'
  BY <1>2, <1>3, <1>6, MessageFrame DEF tables, MessageInv, MessagesOf, Later
<1>8. w[r].kind = Nil /\ Nil # "hook"
  BY ConversationsAssumption DEF Shape, ShapeOf
<1>9. MarkerInv'
  BY <1>2, <1>3, <1>8, MarkerFrame DEF tables, Takes
<1> QED BY <1>4, <1>5, <1>7, <1>9

LEMMA EnsureInv ==
  ASSUME IInv, NEW r \in Request, NEW i \in Customer, Ensure(r, i)
  PROVE  IInv'
BY BeginInv DEF Ensure, Free

LEMMA PostInv ==
  ASSUME IInv, NEW r \in Request, NEW v \in Request, Post(r, v)
  PROVE  IInv'
<1>1. convs[v] \in Customer /\ v # Nil
  BY CustomersAssumption DEF Post, IInv, TableInv
<1> QED BY <1>1, BeginInv DEF Post, Free

\* Reading the index, at first or after a lost race.
LEMMA IndexInv ==
  ASSUME IInv, NEW r \in Request, GetIndex(r) \/ RereadIndex(r)
  PROVE  IInv'
<1> USE DEF IInv
<1> DEFINE v == convIdx[w[r].cust]
           pc == IF v # Nil THEN "open"
                 ELSE IF w[r].pc = "index" THEN "make" ELSE "failed"
           n == [w[r] EXCEPT !.pc = pc, !.found = v]
<1>1. /\ w[r].pc \in {"index", "reread"} /\ UNCHANGED tables /\ w[r] \in Work
      /\ w[r].cust \in Customer /\ v \in Request \cup {Nil}
  BY DEF GetIndex, RereadIndex, Shape, ShapeOf, Asking, TableInv
<1>2. w' = [w EXCEPT ![r] = n]
  <2>1. CASE GetIndex(r)
    BY <2>1 DEF GetIndex
  <2>2. CASE RereadIndex(r)
    BY <2>2 DEF RereadIndex
  <2> QED BY <2>1, <2>2
<1>3. /\ pc \in {"open", "make", "failed"} /\ (pc = "open" => v # Nil)
  OBVIOUS
<1> HIDE DEF pc
<1>4. /\ n \in Work /\ n.pc = pc /\ n.found = v /\ n.kind = w[r].kind
      /\ n.msg = w[r].msg /\ n.cust = w[r].cust /\ n.conv = w[r].conv
      /\ n.created = w[r].created
  BY <1>1, <1>3 DEF Work, Busy
<1> HIDE DEF n, v
<1>5. w'[r] = n /\ Mine(r) /\ w' \in [Request -> Work]
  BY <1>2, <1>4 DEF Shape, Mine
<1>6. Shape'
  BY <1>1, <1>3, <1>4, <1>5, ShapeFrame, ConversationsAssumption DEF Shape, ShapeOf, Early, Asking, Going
<1>7. TableInv'
  BY <1>1, <1>3, <1>4, <1>5, TableFrame DEF tables, TableInv, TableOf, Early, v
<1>8. MessageInv'
  BY <1>1, <1>3, <1>4, <1>5, MessageFrame DEF tables, MessageInv, MessagesOf, Later, In
<1>9. MarkerInv'
  BY <1>1, <1>3, <1>4, <1>5, MarkerFrame DEF tables, Takes
<1> QED BY <1>6, <1>7, <1>8, <1>9

LEMMA MakeInv ==
  ASSUME IInv, NEW r \in Request, MakeConversation(r)
  PROVE  IInv'
<1> USE DEF IInv
<1>1. /\ w[r].pc = "make" /\ w[r] \in Work /\ w[r].cust \in Customer
      /\ UNCHANGED <<markers, messages, booked, orphans>>
  BY DEF MakeConversation, Shape, ShapeOf, Asking
<1>2. CASE convIdx[w[r].cust] # Nil
  <2>1. Step(r, "reread") /\ UNCHANGED tables /\ w[r].pc \in Busy
    BY <1>1, <1>2 DEF MakeConversation, tables, Busy
  <2>2. w'[r].pc = "reread" /\ Kept(r)
    BY <2>1, PcMove DEF Busy
  <2>3. ShapeOf(r)'
    BY <1>1, <2>2 DEF Shape, ShapeOf, Kept, Early, Asking, Going
  <2>4. TableOf(r)'
    BY <1>1, <2>1, <2>2 DEF TableInv, TableOf, Early, tables
  <2>5. MessagesOf(r)'
    BY <1>1, <2>1, <2>2 DEF MessageInv, MessagesOf, Later, Kept, In, tables
  <2> QED BY <2>1, <2>3, <2>4, <2>5, MoveInv DEF Busy
<1>3. CASE convIdx[w[r].cust] = Nil
  <2> DEFINE n == [w[r] EXCEPT !.pc = "made", !.found = r]
             i == w[r].cust
  <2>1. /\ convIdx' = [convIdx EXCEPT ![i] = r] /\ convs' = [convs EXCEPT ![r] = i]
        /\ w' = [w EXCEPT ![r] = n]
    BY <1>3 DEF MakeConversation
  <2>2. /\ n \in Work /\ n.pc = "made" /\ n.found = r /\ n.kind = w[r].kind
        /\ n.msg = w[r].msg /\ n.cust = i /\ n.conv = w[r].conv
        /\ n.created = w[r].created
    BY <1>1 DEF Work, Busy
  <2> HIDE DEF n
  <2>3. w'[r] = n /\ Mine(r) /\ w' \in [Request -> Work]
    BY <2>1, <2>2 DEF Shape, Mine
  <2>4. Shape'
    <3>1. ShapeOf(r)
      BY DEF Shape
    <3>2. ShapeOf(r)'
      BY <1>1, <2>2, <2>3, <3>1 DEF ShapeOf, Early, Asking, Going
    <3> QED BY <2>3, <3>2, ShapeFrame
  <2>5. convs[r] = Nil /\ r # Nil /\ i # Nil
    BY <1>1, CustomersAssumption DEF TableInv, TableOf
  <2>6. /\ convs' \in [Request -> Customer \cup {Nil}]
        /\ convIdx' \in [Customer -> Request \cup {Nil}]
        /\ convs'[r] = i /\ convIdx'[i] = r
        /\ \A x \in Request : x # r => convs'[x] = convs[x]
        /\ \A x \in Customer : x # i => convIdx'[x] = convIdx[x]
    BY <1>1, <2>1 DEF TableInv
  <2>7. OneConversation'
    <3>1. ASSUME NEW x \in Request, convs'[x] # Nil PROVE convIdx'[convs'[x]] = x
      <4>1. CASE x # r
        <5>1. convs'[x] = convs[x] /\ convs[x] \in Customer /\ convIdx[convs[x]] = x
          BY <3>1, <4>1, <2>6 DEF TableInv, OneConversation
        <5>2. convs[x] # i
          BY <5>1, <1>3, CustomersAssumption
        <5> QED BY <5>1, <5>2, <2>6
      <4> QED BY <4>1, <2>6
    <3>2. ASSUME NEW j \in Customer, convIdx'[j] # Nil PROVE convs'[convIdx'[j]] = j
      <4>1. CASE j # i
        <5>1. convIdx'[j] = convIdx[j] /\ convIdx[j] \in Request /\ convs[convIdx[j]] = j
          BY <3>2, <4>1, <2>6 DEF TableInv, OneConversation
        <5>2. convIdx[j] # r
          BY <5>1, <2>5, CustomersAssumption
        <5> QED BY <5>1, <5>2, <2>6
      <4> QED BY <4>1, <2>6
    <3> QED BY <3>1, <3>2 DEF OneConversation
  <2>8. \A x \in Request : TableOf(x)'
    <3> SUFFICES ASSUME NEW x \in Request PROVE TableOf(x)'
      OBVIOUS
    <3>1. CASE x = r
      BY <3>1, <2>2, <2>3, <2>6 DEF TableOf, Early
    <3>2. CASE x # r
      <4>1. w'[x] = w[x] /\ convs'[x] = convs[x]
        BY <3>2, <2>3, <2>6 DEF Mine
      <4>2. w[x].pc \in {"open", "made"} => convIdx'[w[x].cust] = w[x].found
        <5> HAVE w[x].pc \in {"open", "made"}
        <5>1. /\ w[x].cust \in Customer /\ w[x].found \in Request
              /\ convIdx[w[x].cust] = w[x].found
          BY DEF Shape, ShapeOf, Asking, TableInv, TableOf
        <5>2. w[x].cust # i
          BY <5>1, <1>3, CustomersAssumption
        <5> QED BY <5>1, <5>2, <2>6
      <4> QED BY <4>1, <4>2 DEF TableInv, TableOf
    <3> QED BY <3>1, <3>2
  <2>9. TableInv'
    BY <2>6, <2>7, <2>8 DEF TableInv
  <2>10. MessageInv'
    BY <1>1, <2>2, <2>3, MessageFrame DEF MessageInv, MessagesOf, Later, In
  <2>11. MarkerInv'
    BY <1>1, <2>2, <2>3, MarkerFrame DEF Takes
  <2> QED BY <2>4, <2>9, <2>10, <2>11
<1> QED BY <1>2, <1>3

LEMMA ReturnInv ==
  ASSUME IInv, NEW r \in Request, ReturnConversation(r)
  PROVE  IInv'
<1> USE DEF IInv
<1>1. /\ w[r].pc \in {"made", "open"} /\ w[r] \in Work /\ UNCHANGED tables
      /\ w[r].found \in Request /\ w[r].cust \in Customer
  BY DEF ReturnConversation, Shape, ShapeOf, Asking
<1>2. CASE convs[w[r].found] = Nil
  BY <1>1, <1>2, FailInv DEF ReturnConversation, Busy
<1>3. CASE convs[w[r].found] # Nil
  <2> DEFINE pc == AfterEnsure(r)
             made == w[r].pc = "made"
             n == [w[r] EXCEPT !.pc = pc, !.conv = w[r].found, !.created = made]
  <2>1. w' = [w EXCEPT ![r] = n]
    BY <1>3 DEF ReturnConversation
  <2>2. /\ pc \in {"append", "done"} /\ made \in BOOLEAN
        /\ pc = "append" => w[r].kind = "hook"
        /\ pc = "done" => w[r].kind # "hook" \/ Text[w[r].msg] = "empty"
    BY DEF AfterEnsure
  <2> HIDE DEF pc, made
  <2>3. /\ n \in Work /\ n.pc = pc /\ n.found = w[r].found /\ n.kind = w[r].kind
        /\ n.msg = w[r].msg /\ n.cust = w[r].cust /\ n.conv = w[r].found
        /\ n.created = made
    BY <1>1, <2>2 DEF Work, Busy
  <2> HIDE DEF n
  <2>4. w'[r] = n /\ Mine(r) /\ w' \in [Request -> Work]
    BY <2>1, <2>3 DEF Shape, Mine
  <2>5. Shape'
    BY <1>1, <2>2, <2>3, <2>4, ShapeFrame, ConversationsAssumption DEF Shape, ShapeOf, Early, Asking, Going
  <2>6. TableInv'
    BY <1>1, <2>2, <2>3, <2>4, TableFrame DEF tables, TableOf, Early
  <2>7. MessageInv'
    <3>1. \A x \in messages : x.by # r
      BY <1>1 DEF MessageInv, MessagesOf, Later
    <3>2. r \notin booked
      BY <1>1 DEF MessageInv, MessagesOf, Later
    <3> QED BY <1>1, <2>2, <2>3, <2>4, <3>1, <3>2, MessageFrame
            DEF tables, MessageInv, MessagesOf
  <2>8. MarkerInv'
    BY <1>1, <2>2, <2>3, <2>4, MarkerFrame DEF tables, Takes
  <2> QED BY <2>5, <2>6, <2>7, <2>8
<1> QED BY <1>2, <1>3

LEMMA AppendInv ==
  ASSUME IInv, NEW r \in Request, AppendInbound(r) \/ AppendOutbound(r)
  PROVE  IInv'
<1> USE DEF IInv
<1> DEFINE d == IF w[r].pc = "append" THEN "inbound" ELSE "outbound"
           pc == IF w[r].pc = "append" THEN "touch" ELSE "touchReply"
           m == [conv |-> w[r].conv, direction |-> d, by |-> r]
<1>1. /\ w[r].pc \in {"append", "reply"} /\ w[r].conv \in Request
      /\ w[r].pc = "append" => w[r].kind = "hook"
  BY DEF AppendInbound, AppendOutbound, Shape, ShapeOf, Going
<1>2. /\ messages' = messages \cup {m} /\ Step(r, pc)
      /\ UNCHANGED <<convs, convIdx, markers, booked, orphans>>
  BY DEF AppendInbound, AppendOutbound, Append
<1>3. m \in Message /\ m.by = r /\ m.conv = w[r].conv /\ m.direction = d
  BY <1>1 DEF Message
<1>4. /\ w[r].pc = "append" => d = "inbound" /\ pc = "touch"
      /\ w[r].pc = "reply" => d = "outbound" /\ pc = "touchReply"
  OBVIOUS
<1> HIDE DEF m, d, pc
<1>5. w'[r].pc = pc /\ Kept(r) /\ Mine(r) /\ w' \in [Request -> Work]
  BY <1>1, <1>2, <1>4, PcMove DEF Busy
<1>6. Shape'
  <2>1. ShapeOf(r)'
    BY <1>1, <1>4, <1>5 DEF Shape, ShapeOf, Kept, Early, Asking, Going
  <2> QED BY <1>5, <2>1, ShapeFrame
<1>7. TableInv'
  BY <1>1, <1>2, <1>4, <1>5, TableFrame DEF TableInv, TableOf, Kept, Early
<1>8. \A x \in Request : In(x) => In(x)'
  BY <1>2 DEF In
<1>9. \A x \in Request : x # r => MessagesOf(x)'
  <2> SUFFICES ASSUME NEW x \in Request, x # r PROVE MessagesOf(x)'
    OBVIOUS
  <2>1. w'[x] = w[x]
    BY <1>5 DEF Mine
  <2>2. \A k \in messages' : k.by = x => k \in messages
    BY <1>2, <1>3
  <2> QED BY <1>2, <1>8, <2>1, <2>2 DEF MessageInv, MessagesOf
<1>10. MessagesOf(r)'
  <2>1. CASE w[r].pc = "append"
    <3>1. In(r)'
      BY <2>1, <1>2, <1>3, <1>4 DEF In
    <3>2. r \notin booked /\ \A k \in messages : k.by # r
      BY <2>1 DEF MessageInv, MessagesOf, Later
    <3>3. \A k \in messages' : k.by = r => k = m
      BY <1>2, <3>2
    <3> QED BY <2>1, <3>1, <3>2, <3>3, <1>1, <1>2, <1>3, <1>4, <1>5
         DEF MessagesOf, Kept, Later
  <2>2. CASE w[r].pc = "reply"
    <3>1. w[r].kind = "hook" => In(r)'
      BY <2>2, <1>8 DEF MessageInv, MessagesOf
    <3>2. r \in booked => w[r].kind = "hook"
      BY DEF MessageInv, MessagesOf
    <3>3. \A k \in messages' : k.by = r =>
            /\ k.conv = w[r].conv
            /\ k.direction = "inbound" => w[r].kind = "hook"
      BY <1>2, <1>3, <1>4, <2>2 DEF MessageInv, MessagesOf
    <3> QED BY <2>2, <3>1, <3>2, <3>3, <1>2, <1>4, <1>5 DEF MessagesOf, Kept, Later
  <2> QED BY <1>1, <2>1, <2>2
<1>11. MessageInv'
  BY <1>2, <1>3, <1>9, <1>10 DEF MessageInv
<1>12. MarkerInv'
  BY <1>1, <1>2, <1>4, <1>5, MarkerFrame DEF Takes, Kept
<1> QED BY <1>6, <1>7, <1>11, <1>12

LEMMA SaveInv ==
  ASSUME IInv, NEW r \in Request, SaveConversation(r)
  PROVE  IInv'
<1> USE DEF IInv
<1>1. PICK pc \in {"book", "reply", "send"} :
        /\ Step(r, pc) /\ UNCHANGED tables
        /\ \/ w[r].pc = "touch" /\ pc \in {"book", "reply"}
           \/ w[r].pc = "touchReply" /\ pc = "send"
  BY DEF SaveConversation, Dispatch
<1>2. w[r].pc = "touch" => w[r].kind = "hook"
  BY DEF Shape, ShapeOf
<1>3. w'[r].pc = pc /\ Kept(r) /\ w[r].pc \in Busy /\ pc \in Busy
  BY <1>1, PcMove DEF Busy
<1>4. ShapeOf(r)'
  BY <1>1, <1>2, <1>3 DEF Shape, ShapeOf, Kept, Early, Asking, Going
<1>5. TableOf(r)'
  BY <1>1, <1>3 DEF TableOf, Early
<1>6. MessagesOf(r)'
  <2>1. \A k \in messages : k.by = r /\ w[r].pc = "touch" => k.direction = "inbound"
    BY DEF MessageInv, MessagesOf, Later
  <2>2. r \in booked => w[r].pc # "touch"
    BY DEF MessageInv, MessagesOf, Later
  <2> QED BY <1>1, <1>3, <2>1, <2>2 DEF MessageInv, MessagesOf, Kept, Later, In, tables
<1> QED BY <1>1, <1>3, <1>4, <1>5, <1>6, MoveInv

LEMMA BookInv ==
  ASSUME IInv, NEW r \in Request, Book(r)
  PROVE  IInv'
<1> USE DEF IInv
<1>1. /\ w[r].pc = "book" /\ w[r].kind = "hook" /\ Step(r, "reply")
      /\ UNCHANGED <<convs, convIdx, markers, messages, orphans>>
      /\ booked' \subseteq booked \cup {r}
  BY DEF Book, Shape, ShapeOf
<1>2. w'[r].pc = "reply" /\ Kept(r) /\ Mine(r) /\ w' \in [Request -> Work]
  BY <1>1, PcMove DEF Busy
<1>3. Shape'
  <2>1. ShapeOf(r)'
    BY <1>1, <1>2 DEF Shape, ShapeOf, Kept, Early, Asking, Going
  <2> QED BY <1>2, <2>1, ShapeFrame
<1>4. TableInv'
  BY <1>1, <1>2, TableFrame DEF TableOf, Early
<1>5. \A x \in Request : x # r => MessagesOf(x)'
  BY <1>1, <1>2 DEF MessageInv, MessagesOf, In, Mine
<1>6. MessagesOf(r)'
  <2>1. In(r)
    BY <1>1 DEF MessageInv, MessagesOf
  <2>2. \A k \in messages : k.by = r => k.conv = w[r].conv /\ k.direction = "inbound"
    BY <1>1 DEF MessageInv, MessagesOf, Later
  <2> QED BY <1>1, <1>2, <2>1, <2>2 DEF MessagesOf, Kept, In
<1>7. MessageInv'
  BY <1>1, <1>5, <1>6 DEF MessageInv
<1>8. MarkerInv'
  BY <1>1, <1>2, MarkerFrame DEF Takes, Kept
<1> QED BY <1>3, <1>4, <1>7, <1>8

LEMMA SendInv ==
  ASSUME IInv, NEW r \in Request, Send(r)
  PROVE  IInv'
<1> USE DEF IInv
<1>1. w[r].pc = "send" /\ Step(r, "done") /\ UNCHANGED tables /\ w[r].pc \in Busy
  BY DEF Send, Busy
<1>2. w'[r].pc = "done" /\ Kept(r)
  BY <1>1, PcMove
<1>3. ShapeOf(r)'
  BY <1>1, <1>2 DEF Shape, ShapeOf, Kept, Early, Asking, Going
<1>4. TableOf(r)'
  BY <1>2 DEF TableOf, Early
<1>5. MessagesOf(r)'
  BY <1>1, <1>2 DEF MessageInv, MessagesOf, Later, Kept, In, tables
<1> QED BY <1>1, <1>3, <1>4, <1>5, MoveInv

\* Requests to /customers and replication.
LEMMA FrameInv ==
  ASSUME IInv, UNCHANGED conversationVars
  PROVE  IInv'
BY DEF IInv, conversationVars, Shape, ShapeOf, TableInv, TableOf, OneConversation,
       MessageInv, MessagesOf, In, MarkerInv, Takes

LEMMA StepInv == IInv /\ CustomerInv /\ [Next]_vars => IInv'
<1> SUFFICES ASSUME IInv, CustomerInv, [Next]_vars PROVE IInv'
  OBVIOUS
<1>1. ASSUME NEW r \in Request, Webhook(r) PROVE IInv'
  BY <1>1, DeliverInv, FindSenderInv, CreateSenderInv, InsertSenderInv DEF Webhook
<1>2. ASSUME NEW r \in Request, Conversation(r) PROVE IInv'
  <2>1. CASE Fail(r)
    BY <2>1, FailInv DEF Fail
  <2> QED BY <1>2, <2>1, EnsureInv, IndexInv, MakeInv, ReturnInv, PostInv, AppendInv,
             SaveInv, BookInv, SendInv DEF Conversation
<1>3. ASSUME NEW r \in Request, Crm(r) PROVE IInv'
  BY <1>3, FrameInv DEF Crm
<1>4. CASE \E i \in Customer : ReplicateCustomer(i) /\ UNCHANGED conversationVars
  BY <1>4, FrameInv
<1>5. CASE UNCHANGED vars
  BY <1>5, FrameInv DEF vars, conversationVars
<1> QED BY <1>1, <1>2, <1>3, <1>4, <1>5 DEF Next

LEMMA AlwaysInv == Spec => [](IInv /\ CustomerInv)
<1>1. Init => IInv /\ CustomerInv
  BY InitInv, CustomersInitInv DEF Init
<1>2. IInv /\ CustomerInv /\ [Next]_vars => (IInv /\ CustomerInv)'
  BY StepInv, CustomerStep DEF IInv
<1> QED BY <1>1, <1>2, PTL DEF Spec

-----------------------------------------------------------------------------
(* The theorems *)

(***************************************************************************)
(* Every variable keeps its type, in every instance.                       *)
(***************************************************************************)
THEOREM TypeCorrect == Spec => []TypeOK
<1>1. IInv /\ CustomerInv => TypeOK
  BY DEF IInv, CustomerInv, TypeOK, Shape, TableInv, MessageInv, MarkerInv
<1> QED BY <1>1, AlwaysInv, PTL

(***************************************************************************)
(* Of two customers with one phone, one was written by a handler that had  *)
(* looked at a GSI2 that trailed or has changed (DuplicateNeedsOverlap).   *)
(***************************************************************************)
THEOREM DuplicateTheorem == Spec => []DuplicateNeedsOverlap
<1>1. CustomerInv => DuplicateNeedsOverlap
  BY DEF CustomerInv
<1> QED BY <1>1, AlwaysInv, PTL

(***************************************************************************)
(* Conversations and index rows name each other (OneConversation).         *)
(***************************************************************************)
THEOREM OneConversationTheorem == Spec => []OneConversation
<1>1. IInv => OneConversation
  BY DEF IInv, TableInv
<1> QED BY <1>1, AlwaysInv, PTL

(***************************************************************************)
(* A message with an id is recorded, replied to and booked for once, in    *)
(* one conversation, however often it is delivered (ProcessedOnce).        *)
(***************************************************************************)
THEOREM ProcessedOnceTheorem == Spec => []ProcessedOnce
<1>1. IInv => ProcessedOnce
  <2> SUFFICES ASSUME IInv, NEW m \in Named
               PROVE  /\ \A x, y \in messages : {x.by, y.by} \subseteq By(m) =>
                           x.conv = y.conv /\ (x.direction = y.direction => x = y)
                      /\ \A a, b \in booked \cap By(m) : a = b
                      /\ booked \cap By(m) # {} => Recorded(m) # {}
    BY DEF ProcessedOnce
  <2>1. \A x \in messages : x.by \in By(m) => x.by \in Request /\ Takes(x.by, m)
    BY DEF IInv, MessageInv, MessagesOf, Message, By, Takes, Later
  <2>2. \A a \in booked \cap By(m) : a \in Request /\ Takes(a, m) /\ In(a)
    BY DEF IInv, MessageInv, MessagesOf, By, Takes, Later
  <2>3. \A r, s \in Request : Takes(r, m) /\ Takes(s, m) => r = s
    BY DEF IInv, MarkerInv
  <2>4. ASSUME NEW x \in messages, NEW y \in messages, {x.by, y.by} \subseteq By(m)
        PROVE  x.conv = y.conv /\ (x.direction = y.direction => x = y)
    <3>1. x.by = y.by /\ x.by \in Request
      BY <2>1, <2>3, <2>4
    <3>2. x.conv = y.conv
      BY <3>1 DEF IInv, MessageInv, MessagesOf
    <3>3. x \in Message /\ y \in Message
      BY DEF IInv, MessageInv
    <3> QED BY <3>1, <3>2, <3>3 DEF Message
  <2>5. \A a, b \in booked \cap By(m) : a = b
    BY <2>2, <2>3
  <2>6. booked \cap By(m) # {} => Recorded(m) # {}
    BY <2>2 DEF Recorded, In, By
  <2> QED BY <2>4, <2>5, <2>6
<1> QED BY <1>1, AlwaysInv, PTL

(***************************************************************************)
(* A message with a marker that nobody works on is recorded, unless the    *)
(* delivery that took the marker failed, or the answer to the marker's put *)
(* was lost (LossNeedsFailure).                                            *)
(***************************************************************************)
THEOREM LossTheorem == Spec => []LossNeedsFailure
<1>1. IInv => LossNeedsFailure
  <2> SUFFICES ASSUME IInv, NEW m \in markers, Text[m] # "empty",
                      ~\E r \in By(m) : w[r].pc \in Busy,
                      ~\E r \in By(m) : w[r].pc = "failed",
                      m \notin orphans
               PROVE  Recorded(m) # {}
    BY DEF LossNeedsFailure
  <2>1. PICK r \in Request : Takes(r, m)
    BY DEF IInv, MarkerInv
  <2>2. w[r].kind = "hook" /\ w[r].msg = m /\ r \in By(m) /\ w[r].pc # "duplicate"
    BY <2>1 DEF Takes, By
  <2>3. w[r].pc = "done"
    <3>1. w[r].pc \in Busy \cup {"idle", "done", "duplicate", "failed"}
      BY DEF IInv, Shape, Work
    <3>2. w[r].pc # "idle"
      BY <2>2, ConversationsAssumption DEF IInv, Shape, ShapeOf
    <3> QED BY <2>2, <3>1, <3>2
  <2>4. In(r)
    BY <2>2, <2>3 DEF IInv, MessageInv, MessagesOf
  <2> QED BY <2>2, <2>4 DEF In, Recorded
<1> QED BY <1>1, AlwaysInv, PTL

-----------------------------------------------------------------------------
(* EnsureConversation implements IdempotentCreate *)

AskedOf(r)  == IF w[r].kind = "post" THEN Nil ELSE w[r].cust
AnswerOf(r) == [id      |-> IF w[r].kind = "post" THEN Nil ELSE w[r].conv,
                created |-> w[r].created]

\* What IdempotentCreate sees of the handlers.
Asked   == [r \in Request |-> AskedOf(r)]
Answers == [r \in Request |-> AnswerOf(r)]

LedgerStep == Ledger!Next \/ UNCHANGED <<convIdx, Asked, Answers>>

LEMMA UnseenStep ==
  ASSUME NEW r \in Request, Mine(r), convIdx' = convIdx,
         AskedOf(r)' = AskedOf(r), AnswerOf(r)' = AnswerOf(r)
  PROVE  LedgerStep
<1>1. \A x \in Request : AskedOf(x)' = AskedOf(x) /\ AnswerOf(x)' = AnswerOf(x)
  BY DEF Mine, AskedOf, AnswerOf
<1> QED BY <1>1 DEF LedgerStep, Asked, Answers

\* A step of r to another call, without a conversation being made.
LEMMA UnseenMove ==
  ASSUME IInv, NEW r \in Request, NEW pc \in Busy \cup {"done", "failed"}, Step(r, pc),
         convIdx' = convIdx
  PROVE  LedgerStep
<1>1. Kept(r) /\ Mine(r)
  BY PcMove DEF IInv
<1> QED BY <1>1, UnseenStep DEF AskedOf, AnswerOf, Kept

LEMMA AskStep ==
  ASSUME NEW r \in Request, NEW k \in Customer, Mine(r), convIdx' = convIdx,
         AskedOf(r) = Nil, AskedOf(r)' = k, AnswerOf(r)' = AnswerOf(r)
  PROVE  LedgerStep
<1>1. \A x \in Request : x # r => AskedOf(x)' = AskedOf(x)
  BY DEF Mine, AskedOf
<1>2. \A x \in Request : AnswerOf(x)' = AnswerOf(x)
  BY DEF Mine, AnswerOf
<1>3. Asked' = [Asked EXCEPT ![r] = k]
  BY <1>1 DEF Asked
<1>4. Answers' = Answers
  BY <1>2 DEF Answers
<1>5. Ledger!Ask(r, k)
  BY <1>3, <1>4 DEF Ledger!Ask, Asked, Answers, AskedOf, AnswerOf
<1> QED BY <1>5 DEF LedgerStep, Ledger!Next

LEMMA WebhookLedger ==
  ASSUME IInv, CustomerInv, NEW r \in Request, Webhook(r)
  PROVE  LedgerStep
<1> w \in [Request -> Work] /\ ShapeOf(r)
  BY DEF IInv, Shape
<1>1. ASSUME NEW m \in Msg, Deliver(r, m) \/ DeliverUnanswered(r, m) PROVE LedgerStep
  <2>1. /\ w[r].cust = Nil /\ w[r].conv = Nil /\ w[r].created = FALSE
        /\ w[r].kind = Nil
    BY <1>1 DEF Deliver, DeliverUnanswered, Free, ShapeOf, Early
  <2>2. /\ w'[r].cust = Nil /\ w'[r].conv = Nil /\ w'[r].created = FALSE
        /\ w'[r].kind = "hook" /\ Mine(r)
    BY <1>1 DEF Deliver, DeliverUnanswered, Begin, NewWork, Mine
  <2> QED BY <1>1, <2>1, <2>2, UnseenStep DEF Deliver, DeliverUnanswered, AskedOf, AnswerOf
<1>2. CASE FindSender(r)
  <2>1. /\ w[r].pc = "find" /\ w[r].kind = "hook" /\ w[r].msg \in Msg /\ w[r].cust = Nil
        /\ convIdx' = convIdx
    BY <1>2 DEF FindSender, ShapeOf, Early, tables
  <2>2. PICK i \in GetByPhone(Sender[w[r].msg]) :
          w' = [w EXCEPT ![r].pc = IF i = Nil THEN "create" ELSE "index", ![r].cust = i]
    BY <1>2 DEF FindSender
  <2>3. i \in Customer \cup {Nil}
    BY <2>1, GetByPhoneFacts, ConversationsAssumption DEF CustomerInv
  <2>4. /\ w'[r].cust = i /\ w'[r].kind = "hook" /\ w'[r].conv = w[r].conv
        /\ w'[r].created = w[r].created /\ Mine(r)
    BY <2>1, <2>2 DEF Mine, Work
  <2>5. AskedOf(r) = Nil /\ AskedOf(r)' = i /\ AnswerOf(r)' = AnswerOf(r)
    BY <2>1, <2>4 DEF AskedOf, AnswerOf
  <2> QED BY <2>1, <2>3, <2>4, <2>5, UnseenStep, AskStep
<1>3. CASE CreateSender(r)
  BY <1>3, UnseenMove DEF CreateSender, tables, Busy
<1>4. CASE InsertSender(r)
  <2>1. /\ w[r].pc = "insert" /\ w[r].kind = "hook" /\ w[r].cust = Nil
        /\ convIdx' = convIdx
    BY <1>4 DEF InsertSender, ShapeOf, Early, tables
  <2>2. q'[r].id \in Customer
    BY <1>4, InsertCustomerInv DEF InsertSender
  <2>3. /\ w'[r].cust = q'[r].id /\ w'[r].kind = "hook" /\ w'[r].conv = w[r].conv
        /\ w'[r].created = w[r].created /\ Mine(r)
    BY <1>4, <2>1 DEF InsertSender, Mine, Work
  <2>4. AskedOf(r) = Nil /\ AskedOf(r)' = q'[r].id /\ AnswerOf(r)' = AnswerOf(r)
    BY <2>1, <2>3 DEF AskedOf, AnswerOf
  <2> QED BY <2>1, <2>2, <2>3, <2>4, AskStep
<1> QED BY <1>1, <1>2, <1>3, <1>4 DEF Webhook

LEMMA BindStep ==
  ASSUME IInv, NEW r \in Request, MakeConversation(r)
  PROVE  LedgerStep
<1> w \in [Request -> Work] /\ ShapeOf(r)
  BY DEF IInv, Shape
<1>1. /\ w[r].pc = "make" /\ w[r].cust \in Customer /\ w[r].kind # "post"
  BY DEF MakeConversation, ShapeOf, Asking
<1>2. CASE convIdx[w[r].cust] # Nil
  BY <1>2, UnseenMove DEF MakeConversation, Busy
<1>3. CASE convIdx[w[r].cust] = Nil
  <2>1. /\ convIdx' = [convIdx EXCEPT ![w[r].cust] = r]
        /\ w' = [w EXCEPT ![r].pc = "made", ![r].found = r]
    BY <1>3 DEF MakeConversation
  <2>2. \A x \in Request : /\ w'[x].kind = w[x].kind /\ w'[x].cust = w[x].cust
                           /\ w'[x].conv = w[x].conv /\ w'[x].created = w[x].created
    BY <2>1 DEF Work
  <2>3. \A x \in Request : AskedOf(x)' = AskedOf(x) /\ AnswerOf(x)' = AnswerOf(x)
    BY <2>2 DEF AskedOf, AnswerOf
  <2>4. UNCHANGED <<Asked, Answers>>
    BY <2>3 DEF Asked, Answers
  <2>5. Asked[r] = w[r].cust /\ w[r].cust # Nil
    BY <1>1, CustomersAssumption DEF Asked, AskedOf
  <2>6. Ledger!Bind(r)
    BY <1>3, <2>1, <2>4, <2>5 DEF Ledger!Bind, Asked, Answers, AskedOf, AnswerOf
  <2> QED BY <2>6 DEF LedgerStep, Ledger!Next
<1> QED BY <1>2, <1>3

LEMMA AnswerStep ==
  ASSUME IInv, NEW r \in Request, ReturnConversation(r)
  PROVE  LedgerStep
<1> w \in [Request -> Work] /\ ShapeOf(r) /\ TableOf(r)
  BY DEF IInv, Shape, TableInv
<1> DEFINE k == w[r].cust
           v == w[r].found
<1>1. /\ w[r].pc \in {"made", "open"} /\ k \in Customer /\ v \in Request
      /\ w[r].kind # "post" /\ w[r].conv = Nil /\ w[r].created = FALSE
      /\ convIdx[k] = v /\ convIdx' = convIdx
  BY DEF ReturnConversation, ShapeOf, TableOf, Asking, tables
<1>2. CASE convs[v] = Nil
  BY <1>1, <1>2, UnseenMove DEF ReturnConversation, Busy
<1>3. CASE convs[v] # Nil
  <2>1. w' = [w EXCEPT ![r].pc = AfterEnsure(r), ![r].conv = v,
                       ![r].created = (w[r].pc = "made")]
    BY <1>3 DEF ReturnConversation
  <2>2. /\ w'[r].kind = w[r].kind /\ w'[r].cust = k /\ w'[r].conv = v
        /\ w'[r].created = (w[r].pc = "made")
        /\ Mine(r)
    BY <2>1 DEF Work, Mine
  <2>3. w[r].pc = "made" <=> v = r
    <3>1. w[r].pc = "made" => v = r
      BY DEF ShapeOf
    <3>2. w[r].pc = "open" => v # r
      BY <1>1, <1>3 DEF TableOf
    <3> QED BY <1>1, <3>1, <3>2
  <2>4. w'[r].created = (v = r)
    BY <2>2, <2>3
  <2>5. /\ \A x \in Request : AskedOf(x)' = AskedOf(x)
        /\ \A x \in Request : x # r => AnswerOf(x)' = AnswerOf(x)
    BY <2>2 DEF Mine, AskedOf, AnswerOf
  <2>6. /\ AskedOf(r) = k /\ AnswerOf(r) = [id |-> Nil, created |-> FALSE]
        /\ AnswerOf(r)' = [id |-> v, created |-> (v = r)]
    BY <1>1, <2>2, <2>4 DEF AskedOf, AnswerOf
  <2>7. Asked' = Asked /\ Asked[r] = k
    BY <2>5, <2>6 DEF Asked
  <2>8. Answers' = [Answers EXCEPT ![r] = [id |-> v, created |-> (v = r)]]
    BY <2>5, <2>6 DEF Answers
  <2>9. Answers[r] = [id |-> Nil, created |-> FALSE]
    BY <2>6 DEF Answers
  <2>10. k # Nil /\ v # Nil
    BY <1>1, CustomersAssumption
  <2>11. Ledger!Answer(r)
    BY <1>1, <2>7, <2>8, <2>9, <2>10
       DEF Ledger!Answer, Ledger!Unanswered, Asked, Answers, AskedOf, AnswerOf
  <2> QED BY <2>11 DEF LedgerStep, Ledger!Next
<1> QED BY <1>2, <1>3

LEMMA ConversationLedger ==
  ASSUME IInv, NEW r \in Request, Conversation(r)
  PROVE  LedgerStep
<1> w \in [Request -> Work] /\ ShapeOf(r)
  BY DEF IInv, Shape
<1>1. ASSUME NEW i \in Customer, Ensure(r, i) PROVE LedgerStep
  <2>1. /\ w[r].cust = Nil /\ w[r].conv = Nil /\ w[r].created = FALSE
        /\ w[r].kind = Nil
    BY <1>1 DEF Ensure, Free, ShapeOf, Early
  <2>2. /\ w'[r].cust = i /\ w'[r].conv = Nil /\ w'[r].created = FALSE
        /\ w'[r].kind = "ensure" /\ Mine(r)
    BY <1>1 DEF Ensure, Begin, NewWork, Mine
  <2>3. AskedOf(r) = Nil /\ AskedOf(r)' = i /\ AnswerOf(r)' = AnswerOf(r)
    BY <2>1, <2>2 DEF AskedOf, AnswerOf
  <2> QED BY <1>1, <2>2, <2>3, AskStep DEF Ensure, tables
<1>2. ASSUME NEW v \in Request, Post(r, v) PROVE LedgerStep
  <2>1. /\ w[r].cust = Nil /\ w[r].conv = Nil /\ w[r].created = FALSE
        /\ w[r].kind = Nil
    BY <1>2 DEF Post, Free, ShapeOf, Early
  <2>2. w'[r].created = FALSE /\ w'[r].kind = "post" /\ Mine(r)
    BY <1>2 DEF Post, Begin, NewWork, Mine
  <2>3. AskedOf(r)' = AskedOf(r) /\ AnswerOf(r)' = AnswerOf(r)
    BY <2>1, <2>2 DEF AskedOf, AnswerOf
  <2> QED BY <1>2, <2>2, <2>3, UnseenStep DEF Post, tables
<1>3. CASE GetIndex(r) \/ RereadIndex(r)
  <2>1. /\ w'[r].cust = w[r].cust /\ w'[r].conv = w[r].conv
        /\ w'[r].created = w[r].created /\ w'[r].kind = w[r].kind
        /\ Mine(r) /\ convIdx' = convIdx
    BY <1>3 DEF GetIndex, RereadIndex, Mine, Work, tables
  <2> QED BY <2>1, UnseenStep DEF AskedOf, AnswerOf
<1>4. CASE AppendInbound(r) \/ AppendOutbound(r)
  <2>1. PICK pc \in Busy : Step(r, pc) /\ convIdx' = convIdx
    BY <1>4 DEF AppendInbound, AppendOutbound, Append, Busy
  <2> QED BY <2>1, UnseenMove
<1>5. CASE SaveConversation(r)
  <2>1. PICK pc \in Busy : Step(r, pc) /\ convIdx' = convIdx
    BY <1>5 DEF SaveConversation, Dispatch, tables, Busy
  <2> QED BY <2>1, UnseenMove
<1>6. CASE Book(r) \/ Send(r) \/ Fail(r)
  <2>1. PICK pc \in Busy \cup {"done", "failed"} : Step(r, pc) /\ convIdx' = convIdx
    BY <1>6 DEF Book, Send, Fail, tables, Busy
  <2> QED BY <2>1, UnseenMove
<1> QED BY <1>1, <1>2, <1>3, <1>4, <1>5, <1>6, BindStep, AnswerStep DEF Conversation

(***************************************************************************)
(* EnsureConversation implements IdempotentCreate with the customer as the *)
(* key (EnsureImplementsCreate): one conversation per customer, for ever,  *)
(* whoever races to make it, and only its maker is told it was created.    *)
(***************************************************************************)
THEOREM EnsureTheorem == Spec => EnsureImplementsCreate
<1>1. Init => Ledger!Init
  <2> SUFFICES ASSUME Init PROVE Ledger!Init
    OBVIOUS
  <2>1. \A r \in Request : w[r] = IdleWork
    BY DEF Init
  <2>2. \A r \in Request :
          AskedOf(r) = Nil /\ AnswerOf(r) = [id |-> Nil, created |-> FALSE]
    <3>1. /\ IdleWork.kind = Nil /\ IdleWork.cust = Nil /\ IdleWork.conv = Nil
          /\ IdleWork.created = FALSE
      BY DEF IdleWork, NewWork
    <3>2. Nil # "post"
      BY ConversationsAssumption
    <3> QED BY <2>1, <3>1, <3>2 DEF AskedOf, AnswerOf
  <2> QED BY <2>2 DEF Init, Ledger!Init, Ledger!Unanswered, AskedOf, AnswerOf
<1>2. IInv /\ CustomerInv /\ [Next]_vars => [Ledger!Next]_(Ledger!vars)
  <2> SUFFICES ASSUME IInv, CustomerInv, [Next]_vars PROVE LedgerStep
    BY DEF LedgerStep, Ledger!vars, Asked, Answers, AskedOf, AnswerOf
  <2>1. CASE UNCHANGED conversationVars
    BY <2>1 DEF conversationVars, LedgerStep, Asked, Answers, AskedOf, AnswerOf
  <2> QED BY <2>1, WebhookLedger, ConversationLedger DEF Next, Crm, vars
<1> QED BY <1>1, <1>2, AlwaysInv, PTL DEF Spec, EnsureImplementsCreate, Ledger!Spec
=============================================================================

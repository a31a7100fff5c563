--------------------------- MODULE Conversations ---------------------------
(***************************************************************************)
(* Conversations and the WhatsApp webhook (internal/app/conversations/     *)
(* app.go, adapters/dynamo/conversation_repo.go), over the customers they  *)
(* belong to.  A delivery of a provider's message takes the message's      *)
(* dedup marker, finds the sender's customer or creates it, gets or makes  *)
(* the conversation, records the message, books if the text says so, and   *)
(* replies.  The provider delivers a message any number of times, at any   *)
(* time.  One action is one call that matters to others; handlers          *)
(* interleave and may end at any call.                                     *)
(*                                                                         *)
(* There is one channel, so that the key of the conversation index is the  *)
(* customer.  A conversation has the id of the request that makes it.      *)
(***************************************************************************)
EXTENDS Customers

CONSTANTS
  Msg,      \* provider messages
  Sender,   \* Msg -> the phone it is from
  Text,     \* Msg -> what it says: nothing, a BOOK command, anything else
  Named     \* the messages that carry a message_id

ASSUME ConversationsAssumption ==
  /\ Sender \in [Msg -> Phone]
  /\ Text \in [Msg -> {"empty", "book", "chat"}]
  /\ Named \subseteq Msg
  /\ Nil \notin Msg \cup {"hook", "ensure", "post"}

VARIABLES
  convs,      \* CONVERSATION rows: id -> customer, or Nil
  convIdx,    \* CONVO_INDEX rows: customer -> conversation, or Nil
  markers,    \* WEBHOOK_DEDUP rows: the messages that have one
  messages,   \* MESSAGE rows, each with the request that put it
  booked,     \* requests whose BOOK command made a booking
  orphans,    \* history: messages whose marker was put, and its answer lost
  w           \* the handlers' local state

conversationVars == <<convs, convIdx, markers, messages, booked, orphans, w>>
vars == <<customerVars, conversationVars>>

Message == [conv: Request, direction: {"inbound", "outbound"}, by: Request]

\* The call a handler makes next, or how it ended.  find to send are the
\* webhook's; ensure and post are the other two ways in.
Busy == {"find", "create", "insert", "index", "open", "make", "reread", "made",
         "append", "touch", "book", "reply", "touchReply", "send"}

Work ==
  [pc     : Busy \cup {"idle", "done", "duplicate", "failed"},
   kind   : {"hook", "ensure", "post", Nil},
   msg    : Msg \cup {Nil},
   cust   : Customer \cup {Nil},
   found  : Request \cup {Nil},   \* the conversation's id, found or made
   conv   : Request \cup {Nil},   \* the conversation it goes on with
   created: BOOLEAN]              \* whether it made it

NewWork(pc, kind, m, i, v) ==
  [pc |-> pc, kind |-> kind, msg |-> m, cust |-> i, found |-> Nil, conv |-> v,
   created |-> FALSE]

IdleWork == NewWork("idle", Nil, Nil, Nil, Nil)

Init ==
  /\ CustomersInit
  /\ convs    = [r \in Request |-> Nil]
  /\ convIdx  = [i \in Customer |-> Nil]
  /\ markers  = {}
  /\ messages = {}
  /\ booked   = {}
  /\ orphans  = {}
  /\ w        = [r \in Request |-> IdleWork]

-----------------------------------------------------------------------------
Free(r)   == w[r].pc = "idle" /\ q[r].pc = "idle"
Begin(r, pc, kind, m, i, v) == w' = [w EXCEPT ![r] = NewWork(pc, kind, m, i, v)]
Step(r, pc) == w' = [w EXCEPT ![r].pc = pc]

\* What a handler does once it has its conversation.
AfterEnsure(r) ==
  IF w[r].kind = "hook" /\ Text[w[r].msg] # "empty" THEN "append" ELSE "done"

\* What it does with the message once it is recorded.
Dispatch(r) == IF Text[w[r].msg] = "book" THEN "book" ELSE "reply"

tables == <<convs, convIdx, markers, messages, booked, orphans>>

-----------------------------------------------------------------------------
(* The webhook: up to the customer *)

\* Mutant of Deliver: a message without an id takes a marker as well.
DeliverMarkingAll(r, m) ==
  /\ Free(r)
  /\ LET known == m \in markers
     IN  Begin(r, IF known THEN "duplicate" ELSE "find", "hook", m, Nil, Nil)
  /\ markers' = markers \cup {m}
  /\ UNCHANGED <<customerVars, convs, convIdx, messages, booked, orphans>>

\* Mutant of Deliver: the marker is put without a condition.
DeliverAgain(r, m) ==
  /\ Free(r)
  /\ Begin(r, "find", "hook", m, Nil, Nil)
  /\ markers' = IF m \in Named THEN markers \cup {m} ELSE markers
  /\ UNCHANGED <<customerVars, convs, convIdx, messages, booked, orphans>>

\* Mutant of Deliver: a marker stands for the sender, not for the message.
DeliverOfSender(r, m) ==
  /\ Free(r)
  /\ LET known == m \in Named /\ \E n \in markers : Sender[n] = Sender[m]
     IN  Begin(r, IF known THEN "duplicate" ELSE "find", "hook", m, Nil, Nil)
  /\ markers' = IF m \in Named THEN markers \cup {m} ELSE markers
  /\ UNCHANGED <<customerVars, convs, convIdx, messages, booked, orphans>>

\* A delivery, from the signature to the conditional put of the marker; one that
\* fails up to there, or whose put has no effect, changes nothing and is no
\* delivery here.  A message with a marker is answered 200 and left; one without
\* an id has none.
Deliver(r, m) ==
  /\ Free(r)
  /\ LET known == m \in markers
     IN  Begin(r, IF known THEN "duplicate" ELSE "find", "hook", m, Nil, Nil)
  /\ markers' = IF m \in Named THEN markers \cup {m} ELSE markers
  /\ UNCHANGED <<customerVars, convs, convIdx, messages, booked, orphans>>

\* The put of the marker takes effect and its answer is lost.  The client sends it
\* again, meets its own marker, and the delivery is answered as a duplicate.  (If
\* it returns an error instead, that is Deliver, then Fail.)
DeliverUnanswered(r, m) ==
  /\ Faults
  /\ Free(r)
  /\ m \in Named \ markers
  /\ Begin(r, "duplicate", "hook", m, Nil, Nil)
  /\ markers' = markers \cup {m}
  /\ orphans' = orphans \cup {m}
  /\ UNCHANGED <<customerVars, convs, convIdx, messages, booked>>

\* GetCustomerByPhone: from GSI2.
FindSender(r) ==
  /\ w[r].pc = "find"
  /\ \E i \in GetByPhone(Sender[w[r].msg]) :
       w' = [w EXCEPT ![r].pc = IF i = Nil THEN "create" ELSE "index", ![r].cust = i]
  /\ UNCHANGED <<customerVars, tables>>

\* CreateCustomer's own look-up: a conflict is the webhook's error, a 400.
CreateSender(r) ==
  /\ w[r].pc = "create"
  /\ CreateCustomer(r, Sender[w[r].msg])
  /\ Step(r, IF q'[r].pc = "insert" THEN "insert" ELSE "failed")
  /\ UNCHANGED tables

InsertSender(r) ==
  /\ w[r].pc = "insert"
  /\ InsertCustomer(r)
  /\ w' = [w EXCEPT ![r].pc = "index", ![r].cust = q'[r].id]
  /\ UNCHANGED tables

-----------------------------------------------------------------------------
(* EnsureConversation *)

\* POST /conversations, for a customer that exists (404 otherwise).
Ensure(r, i) ==
  /\ Free(r)
  /\ rows[i] # Nil
  /\ Begin(r, "index", "ensure", Nil, i, Nil)
  /\ UNCHANGED <<customerVars, tables>>

\* The index row, read consistently: found, its conversation is opened.
GetIndex(r) ==
  /\ w[r].pc = "index"
  /\ LET v == convIdx[w[r].cust]
     IN  w' = [w EXCEPT ![r].pc = IF v = Nil THEN "make" ELSE "open", ![r].found = v]
  /\ UNCHANGED <<customerVars, tables>>

\* Mutant of MakeConversation: the put of the index row has no condition.
MakeConversationOver(r) ==
  /\ w[r].pc = "make"
  /\ convIdx' = [convIdx EXCEPT ![w[r].cust] = r]
  /\ convs'   = [convs EXCEPT ![r] = w[r].cust]
  /\ w' = [w EXCEPT ![r].pc = "made", ![r].found = r]
  /\ UNCHANGED <<customerVars, markers, messages, booked, orphans>>

\* CreateConversationWithIndex: both rows are put if neither exists, and neither
\* if the index row does.
MakeConversation(r) ==
  /\ w[r].pc = "make"
  /\ IF convIdx[w[r].cust] = Nil
       THEN /\ convIdx' = [convIdx EXCEPT ![w[r].cust] = r]
            /\ convs'   = [convs EXCEPT ![r] = w[r].cust]
            /\ w' = [w EXCEPT ![r].pc = "made", ![r].found = r]
       ELSE Step(r, "reread") /\ UNCHANGED <<convs, convIdx>>
  /\ UNCHANGED <<customerVars, markers, messages, booked, orphans>>

\* Another request made it in the meantime: the index is read again.
RereadIndex(r) ==
  /\ w[r].pc = "reread"
  /\ LET v == convIdx[w[r].cust]
     IN  w' = [w EXCEPT ![r].pc = IF v = Nil THEN "failed" ELSE "open", ![r].found = v]
  /\ UNCHANGED <<customerVars, tables>>

\* EnsureConversation returns: the conversation that was made, or the one that
\* GetConversation reads under the id from the index.
ReturnConversation(r) ==
  /\ w[r].pc \in {"made", "open"}
  /\ IF convs[w[r].found] # Nil
       THEN w' = [w EXCEPT ![r].pc = AfterEnsure(r), ![r].conv = w[r].found,
                           ![r].created = (w[r].pc = "made")]
       ELSE Step(r, "failed")
  /\ UNCHANGED <<customerVars, tables>>

-----------------------------------------------------------------------------
(* Messages *)

Append(r, direction, pc) ==
  /\ messages' = messages \cup
                   {[conv |-> w[r].conv, direction |-> direction, by |-> r]}
  /\ Step(r, pc)
  /\ UNCHANGED <<customerVars, convs, convIdx, markers, booked, orphans>>

\* AppendInboundMessage: the message is put, then the conversation.
AppendInbound(r) == w[r].pc = "append" /\ Append(r, "inbound", "touch")

\* SaveConversation: only the times of the row change, and they are left out.
SaveConversation(r) ==
  /\ \/ w[r].pc = "touch" /\ Step(r, Dispatch(r))
     \/ w[r].pc = "touchReply" /\ Step(r, "send")
  /\ UNCHANGED <<customerVars, tables>>

\* The BOOK command: CreateBooking under a key made of the message's id (a fresh
\* one if it has none) makes a booking once, or refuses.  Any outcome is replied.
Book(r) ==
  /\ w[r].pc = "book"
  /\ \/ /\ w[r].msg \in Named => \A b \in booked : w[b].msg # w[r].msg
        /\ booked' = booked \cup {r}
     \/ UNCHANGED booked
  /\ Step(r, "reply")
  /\ UNCHANGED <<customerVars, convs, convIdx, markers, messages, orphans>>

\* POST /conversations/{id}/messages, for one that exists (404 otherwise).
Post(r, v) ==
  /\ Free(r)
  /\ convs[v] # Nil
  /\ Begin(r, "reply", "post", Nil, convs[v], v)
  /\ UNCHANGED <<customerVars, tables>>

\* The reply, or what was posted, is put.
AppendOutbound(r) == w[r].pc = "reply" /\ Append(r, "outbound", "touchReply")

\* The message goes out.  An error is the webhook's error; a post ignores it.
Send(r) ==
  /\ w[r].pc = "send"
  /\ Step(r, "done")
  /\ UNCHANGED <<customerVars, tables>>

\* A call fails, or the handler is killed.  The marker stays.
Fail(r) ==
  /\ Faults
  /\ w[r].pc \in Busy
  /\ Step(r, "failed")
  /\ UNCHANGED <<customerVars, tables>>

-----------------------------------------------------------------------------
Webhook(r) ==
  \/ \E m \in Msg : Deliver(r, m) \/ DeliverUnanswered(r, m)
  \/ FindSender(r) \/ CreateSender(r) \/ InsertSender(r)

Conversation(r) ==
  \/ \E i \in Customer : Ensure(r, i)
  \/ GetIndex(r) \/ MakeConversation(r) \/ RereadIndex(r) \/ ReturnConversation(r)
  \/ \E v \in Request : Post(r, v)
  \/ AppendInbound(r) \/ SaveConversation(r) \/ Book(r) \/ AppendOutbound(r)
  \/ Send(r) \/ Fail(r)

\* The requests to /customers.
Crm(r) == w[r].pc = "idle" /\ CustomerApi(r) /\ UNCHANGED conversationVars

Next ==
  \/ \E r \in Request : Webhook(r) \/ Conversation(r) \/ Crm(r)
  \/ \E i \in Customer : ReplicateCustomer(i) /\ UNCHANGED conversationVars

Spec == Init /\ [][Next]_vars

-----------------------------------------------------------------------------
(* Properties *)

(***************************************************************************)
(* Every variable has its type.                                            *)
(***************************************************************************)
TypeOK ==
  /\ CustomerTypeOK
  /\ convs    \in [Request -> Customer \cup {Nil}]
  /\ convIdx  \in [Customer -> Request \cup {Nil}]
  /\ markers  \in SUBSET Named
  /\ messages \in SUBSET Message
  /\ booked   \in SUBSET Request
  /\ orphans  \in SUBSET Named
  /\ w        \in [Request -> Work]

By(m) == {r \in Request : w[r].kind = "hook" /\ w[r].msg = m}

Recorded(m) ==
  {x \in messages : x.direction = "inbound" /\ x.by \in By(m)}

(***************************************************************************)
(* EnsureConversation is an idempotent create with the customer as its     *)
(* key: whoever asks first makes the conversation, everyone is given that  *)
(* one, and only its maker is told that it was created (201 or 200), also  *)
(* when two deliveries race between the index and the transaction.         *)
(***************************************************************************)
Ledger == INSTANCE IdempotentCreate WITH
  Request <- Request, Key <- Customer, Unbound <- Nil, NoKey <- Nil,
  ledger  <- convIdx,
  asked   <- [r \in Request |-> IF w[r].kind = "post" THEN Nil ELSE w[r].cust],
  answer  <- [r \in Request |->
                [id      |-> IF w[r].kind = "post" THEN Nil ELSE w[r].conv,
                 created |-> w[r].created]]

EnsureImplementsCreate == Ledger!Spec

(***************************************************************************)
(* Every conversation is the one its customer's index row names, and every *)
(* index row names a conversation of its customer.                         *)
(***************************************************************************)
OneConversation ==
  /\ \A v \in Request : convs[v] # Nil => convIdx[convs[v]] = v
  /\ \A i \in Customer : convIdx[i] # Nil => convs[convIdx[i]] = i

(***************************************************************************)
(* However often the provider delivers a message with an id, and however   *)
(* the deliveries interleave and end, it is recorded once, replied to once *)
(* in the conversation it is recorded in, and books once, never without    *)
(* being recorded.                                                         *)
(***************************************************************************)
ProcessedOnce ==
  \A m \in Named :
    /\ \A x, y \in messages : {x.by, y.by} \subseteq By(m) =>
         x.conv = y.conv /\ (x.direction = y.direction => x = y)
    /\ \A a, b \in booked \cap By(m) : a = b
    /\ booked \cap By(m) # {} => Recorded(m) # {}

(***************************************************************************)
(* A message that has its marker, and that nobody is working on, is in its *)
(* conversation unless the delivery that took the marker failed after it   *)
(* or never learned that it had taken it: no other message and no other    *)
(* delivery can be what loses it.                                          *)
(***************************************************************************)
LossNeedsFailure ==
  \A m \in markers :
    \/ Text[m] = "empty"
    \/ \E r \in By(m) : w[r].pc \in Busy
    \/ \E r \in By(m) : w[r].pc = "failed"
    \/ m \in orphans
    \/ Recorded(m) # {}

(***************************************************************************)
(* IMPLEMENTATION_PLAN.md's answer to webhook duplicates is "Provider id   *)
(* de-duplication + idempotent message append": a message whose redelivery *)
(* is answered 200 as a duplicate has been recorded, or is about to be.    *)
(***************************************************************************)
DuplicateIsRecorded ==
  \A r \in Request :
    w[r].pc = "duplicate" /\ Text[w[r].msg] # "empty" =>
      \/ Recorded(w[r].msg) # {}
      \/ \E o \in By(w[r].msg) : w[o].pc \in Busy
=============================================================================

----------------------------- MODULE Customers -----------------------------
(***************************************************************************)
(* Customers and their phone numbers (internal/app/customers/app.go,       *)
(* adapters/dynamo/customer_repo.go).  A phone belongs to one customer of  *)
(* a business; the check is a query of GSI2, which trails the table, and   *)
(* the write that follows it does not repeat the check.  One action is one *)
(* call to the table; handlers interleave and may end at any call.         *)
(*                                                                         *)
(* One business is modelled, as GSI2's key names it; of a row only the     *)
(* phone is kept.  Customers are never deleted.                            *)
(***************************************************************************)
EXTENDS FiniteSets

CONSTANTS
  Request,   \* requests; a request runs at most one handler
  Customer,  \* customer ids; an unused one stands for a fresh ULID
  Phone,
  IndexLag,  \* whether GSI2 may trail the table
  Faults,    \* whether calls fail and handlers are killed
  Nil

ASSUME CustomersAssumption ==
  /\ IndexLag \in BOOLEAN /\ Faults \in BOOLEAN
  /\ Nil \notin Phone \cup Customer \cup Request

VARIABLES
  rows,     \* CUSTOMER rows: id -> phone, or Nil
  gsi2,     \* what GSI2 shows of them
  q,        \* the handlers' local state
  clean,    \* history: handlers that looked at a GSI2 that was up to date,
            \* with no customer written since
  overrun   \* history: customers last written by a handler that was not in clean

customerVars == <<rows, gsi2, q, clean, overrun>>

Handler ==
  [pc   : {"idle", "insert", "check", "save", "created", "patched", "failed"},
   id   : Customer \cup {Nil},
   phone: Phone \cup {Nil}]   \* the phone to be written

IdleHandler == [pc |-> "idle", id |-> Nil, phone |-> Nil]

CustomersInit ==
  /\ rows    = [i \in Customer |-> Nil]
  /\ gsi2    = [i \in Customer |-> Nil]
  /\ q       = [r \in Request |-> IdleHandler]
  /\ clean   = {}
  /\ overrun = {}

-----------------------------------------------------------------------------
\* Query of GSI2 with Limit 1: any row it shows with the phone, or Nil.
GetByPhone(p) ==
  LET shown == {i \in Customer : gsi2[i] = p}
  IN  IF shown = {} THEN {Nil} ELSE shown

\* A customer row is put, as a whole and whatever it was.
PutCustomer(r, i, p) ==
  /\ rows'    = [rows EXCEPT ![i] = p]
  /\ gsi2'    = IF IndexLag THEN gsi2 ELSE rows'
  /\ overrun' = IF r \notin clean THEN overrun \cup {i}
                ELSE IF rows[i] = p THEN overrun ELSE overrun \ {i}
  /\ clean'   = {}

\* The handler's look at GSI2 tells it the truth, or not.
Looked(r) == clean' = IF gsi2 = rows THEN clean \cup {r} ELSE clean \ {r}

Goes(r, pc, i, p) == q' = [q EXCEPT ![r] = [pc |-> pc, id |-> i, phone |-> p]]

-----------------------------------------------------------------------------
\* POST /customers: the phone is looked up; taken, the answer is 409.
CreateCustomer(r, p) ==
  /\ q[r].pc = "idle"
  /\ \E other \in GetByPhone(p) :
       IF other = Nil THEN Goes(r, "insert", Nil, p) ELSE Goes(r, "failed", Nil, Nil)
  /\ Looked(r)
  /\ UNCHANGED <<rows, gsi2, overrun>>

\* The put of the new row; its condition is about the id, which is fresh.
InsertCustomer(r) ==
  /\ q[r].pc = "insert"
  /\ \E i \in Customer :
       /\ rows[i] = Nil
       /\ PutCustomer(r, i, q[r].phone)
       /\ Goes(r, "created", i, Nil)

\* PATCH /customers/{id}, p = Nil when it does not name a phone: the row is read
\* (404 unless it exists), and a new phone is to be looked up.
PatchCustomer(r, i, p) ==
  /\ q[r].pc = "idle"
  /\ \/ rows[i] = Nil /\ Goes(r, "failed", Nil, Nil) /\ UNCHANGED clean
     \/ /\ rows[i] # Nil
        /\ IF p \in {Nil, rows[i]} THEN Goes(r, "save", i, rows[i])
                                   ELSE Goes(r, "check", i, p)
        /\ clean' = clean \cup {r}
  /\ UNCHANGED <<rows, gsi2, overrun>>

\* Mutant of CheckPhone: any customer found is taken for the one patched.
CheckPhoneOwn(r) ==
  /\ q[r].pc = "check"
  /\ Goes(r, "save", q[r].id, q[r].phone)
  /\ clean' = IF gsi2 = rows THEN clean ELSE clean \ {r}
  /\ UNCHANGED <<rows, gsi2, overrun>>

\* The look-up: 409 if another customer has the phone.
CheckPhone(r) ==
  /\ q[r].pc = "check"
  /\ \E other \in GetByPhone(q[r].phone) :
       IF other \in {Nil, q[r].id} THEN Goes(r, "save", q[r].id, q[r].phone)
                                   ELSE Goes(r, "failed", Nil, Nil)
  /\ clean' = IF gsi2 = rows THEN clean ELSE clean \ {r}
  /\ UNCHANGED <<rows, gsi2, overrun>>

\* The copy that was read, with its changes, replaces the row: a patch that
\* names no phone writes the phone it has read.
SaveCustomer(r) ==
  /\ q[r].pc = "save"
  /\ PutCustomer(r, q[r].id, q[r].phone)
  /\ Goes(r, "patched", q[r].id, Nil)

\* A call fails, or the handler is killed.
FailCustomer(r) ==
  /\ Faults
  /\ q[r].pc \in {"insert", "check", "save"}
  /\ Goes(r, "failed", Nil, Nil)
  /\ UNCHANGED <<rows, gsi2, clean, overrun>>

\* GSI2 catches up with one row.
ReplicateCustomer(i) ==
  /\ gsi2[i] # rows[i]
  /\ gsi2' = [gsi2 EXCEPT ![i] = rows[i]]
  /\ UNCHANGED <<rows, q, clean, overrun>>

CustomerApi(r) ==
  \/ \E p \in Phone : CreateCustomer(r, p)
  \/ InsertCustomer(r)
  \/ \E i \in Customer, p \in Phone \cup {Nil} : PatchCustomer(r, i, p)
  \/ CheckPhone(r)
  \/ SaveCustomer(r)
  \/ FailCustomer(r)

-----------------------------------------------------------------------------
CustomerTypeOK ==
  /\ rows    \in [Customer -> Phone \cup {Nil}]
  /\ gsi2    \in [Customer -> Phone \cup {Nil}]
  /\ q       \in [Request -> Handler]
  /\ clean   \in SUBSET Request
  /\ overrun \in SUBSET Customer

(***************************************************************************)
(* Nothing in the table keeps a phone from two customers, but the handlers *)
(* give one away twice only by overlapping: of two customers with one      *)
(* phone, one was written by a handler that had looked at a GSI2 that      *)
(* trailed, or before another customer was written.                        *)
(***************************************************************************)
DuplicateNeedsOverlap ==
  \A i, j \in Customer :
    i # j /\ rows[i] # Nil /\ rows[i] = rows[j] => {i, j} \cap overrun # {}

(***************************************************************************)
(* PLANNING.md's "phone (unique per tenant; GSI2 `PHONE#`)": no two        *)
(* customers have the same phone.  The look-up before the write does not   *)
(* see to that.                                                            *)
(***************************************************************************)
PhoneIsUnique ==
  \A i, j \in Customer : i # j /\ rows[i] # Nil => rows[i] # rows[j]
=============================================================================

------------------------------ MODULE Catalog ------------------------------
(***************************************************************************)
(* Businesses, services and staff (internal/app/tenancy/app.go,            *)
(* internal/app/catalog/app.go and their repositories).  The three are one *)
(* pattern over rows of their own kind: a create puts a new row, a patch   *)
(* reads the row and puts it back whole, a delete removes it, a list reads *)
(* pages by a cursor that the client passes on.  One action is one call to *)
(* the table, handlers interleave, and a handler may end at any call.      *)
(*                                                                         *)
(* Of a row's fields only the active flag is kept, since lists filter by   *)
(* it; for the others it is enough to know which patches went into a row.  *)
(***************************************************************************)
EXTENDS Naturals, FiniteSets, SequencesExt

CONSTANTS
  Item,         \* ids; an item is created once, by a request of its own
  Request,      \* patches and deletes
  Reader,       \* clients that page through a list
  PageSize,     \* items a page evaluates (the limit of the query, 20 to 100)
  MaxInFlight,  \* bound: patches between their two calls at one time
  ReplicaLag,   \* whether a read that is not consistent may be behind
  Nil

ASSUME CatalogAssumption ==
  /\ Item \subseteq Nat \ {0}
  /\ PageSize \in Nat \ {0}
  /\ MaxInFlight \in Nat
  /\ ReplicaLag \in BOOLEAN

VARIABLES
  rows,     \* BUSINESS, SERVICE and STAFF rows: id -> row, or Nil
  unborn,   \* the ids that no create has taken yet
  replica,  \* what reads that are not consistent may see of them
  h,        \* the handlers' local state
  reader,   \* the clients' local state
  race      \* history: write -> the handlers that held a copy of its row then

vars == <<rows, unborn, replica, h, reader, race>>

\* What the three items have in common; a business is active or suspended.
\* log is a history: the requests whose changes are in the row.
BusinessItem == [kind: {"business"}, active: BOOLEAN, log: SUBSET Request]
ServiceItem  == [kind: {"service"}, active: BOOLEAN, log: SUBSET Request]
StaffItem    == [kind: {"staff"}, active: BOOLEAN, log: SUBSET Request]

Row == BusinessItem \cup ServiceItem \cup StaffItem

ASSUME CatalogNilAssumption == Nil \notin Row \cup Item \cup BOOLEAN

\* The call a handler makes next ("save"), or how it ended.
PC == {"idle", "save", "patched", "deleted", "failed"}

Handler ==
  [pc     : PC,
   id     : Item \cup {Nil},
   active : BOOLEAN \cup {Nil},   \* the patch's active field; Nil leaves it
   copy   : Row \cup {Nil}]       \* the row as it was read

IdleHandler == [pc |-> "idle", id |-> Nil, active |-> Nil, copy |-> Nil]

Listing ==
  [pc     : {"idle", "more", "end"},
   kind   : {"service", "staff"},
   only   : BOOLEAN,            \* active_only
   cursor : Item \cup {0},      \* the key of the last item evaluated
   got    : Seq(Item),
   steady : SUBSET Item]        \* history: rows to be listed all the while

IdleListing ==
  [pc |-> "idle", kind |-> "service", only |-> FALSE, cursor |-> 0,
   got |-> <<>>, steady |-> {}]

Init ==
  /\ rows    = [i \in Item |-> Nil]
  /\ unborn  = Item
  /\ replica = [i \in Item |-> Nil]
  /\ h       = [r \in Request |-> IdleHandler]
  /\ reader  = [c \in Reader |-> IdleListing]
  /\ race    = [r \in Request |-> {}]

-----------------------------------------------------------------------------
(* The table *)

Listable(row, kind, only) ==
  row # Nil /\ row.kind = kind /\ (only => row.active)

\* The table and what stale reads see of it change; a row that stops being
\* listable is no longer steady for the listings under way.
SetTable(table, behind) ==
  /\ rows'    = table
  /\ replica' = behind
  /\ reader'  = [c \in Reader |->
       [reader[c] EXCEPT !.steady =
          {i \in @ : /\ Listable(table[i], reader[c].kind, reader[c].only)
                     /\ Listable(behind[i], reader[c].kind, reader[c].only)}]]

WriteRow(i, row) ==
  LET table == [rows EXCEPT ![i] = row]
  IN  SetTable(table, IF ReplicaLag THEN replica ELSE table)

Holders(i) == {x \in Request : h[x].pc = "save" /\ h[x].id = i}

InFlight == {r \in Request : h[r].pc = "save"}

End(r, pc, i) == h' = [h EXCEPT ![r] = [IdleHandler EXCEPT !.pc = pc, !.id = i]]

-----------------------------------------------------------------------------
(* Handlers *)

\* Mutant of Insert: the default of the active flag is left out.
InsertNoDefault(i, kind, on) ==
  /\ i \in unborn
  /\ unborn' = unborn \ {i}
  /\ WriteRow(i, [kind |-> kind, active |-> on, log |-> {}])
  /\ UNCHANGED <<h, race>>

\* A conditional put of a new row, whose id is a fresh ULID.
Insert(i, kind, on) ==
  /\ i \in unborn
  /\ unborn' = unborn \ {i}
  /\ WriteRow(i, [kind |-> kind, active |-> (on # FALSE), log |-> {}])
  /\ UNCHANGED <<h, race>>

RegisterBusiness(i)  == Insert(i, "business", TRUE)
CreateService(i, on) == Insert(i, "service", on)
CreateStaff(i, on)   == Insert(i, "staff", on)

\* Mutant of Load: the read that starts a patch is not consistent.
LoadBehind(r, kind, i, on) ==
  /\ h[r].pc = "idle"
  /\ Cardinality(InFlight) < MaxInFlight
  /\ IF replica[i] # Nil /\ replica[i].kind = kind
       THEN h' = [h EXCEPT ![r] = [pc |-> "save", id |-> i, active |-> on,
                                   copy |-> replica[i]]]
       ELSE End(r, "failed", Nil)
  /\ UNCHANGED <<rows, unborn, replica, reader, race>>

\* The consistent read that starts a patch; 404 unless the kind has the id.
Load(r, kind, i, on) ==
  /\ h[r].pc = "idle"
  /\ Cardinality(InFlight) < MaxInFlight
  /\ IF rows[i] # Nil /\ rows[i].kind = kind
       THEN h' = [h EXCEPT ![r] = [pc |-> "save", id |-> i, active |-> on,
                                   copy |-> rows[i]]]
       ELSE End(r, "failed", Nil)
  /\ UNCHANGED <<rows, unborn, replica, reader, race>>

PatchBusiness(r, i, on) == Load(r, "business", i, on)
PatchService(r, i, on)  == Load(r, "service", i, on)
PatchStaff(r, i, on)    == Load(r, "staff", i, on)

Patched(r) ==
  [h[r].copy EXCEPT !.active = IF h[r].active = Nil THEN @ ELSE h[r].active,
                    !.log = @ \cup {r}]

\* Save: the patched copy replaces whatever the row is by now.
Save(r) ==
  /\ h[r].pc = "save"
  /\ WriteRow(h[r].id, Patched(r))
  /\ UNCHANGED unborn
  /\ race' = [race EXCEPT ![r] = Holders(h[r].id) \ {r}]
  /\ End(r, "patched", h[r].id)

\* The patch's save fails, or the handler is killed before it.
Fail(r) ==
  /\ h[r].pc = "save"
  /\ End(r, "failed", Nil)
  /\ UNCHANGED <<rows, unborn, replica, reader, race>>

\* A conditional delete; 404 unless the kind has the id.
Delete(r, kind, i) ==
  /\ h[r].pc = "idle"
  /\ IF rows[i] # Nil /\ rows[i].kind = kind
       THEN /\ WriteRow(i, Nil)
            /\ UNCHANGED unborn
            /\ race' = [race EXCEPT ![r] = Holders(i)]
            /\ End(r, "deleted", i)
       ELSE /\ End(r, "failed", Nil)
            /\ UNCHANGED <<rows, unborn, replica, reader, race>>

DeleteService(r, i) == Delete(r, "service", i)
DeleteStaff(r, i)   == Delete(r, "staff", i)

-----------------------------------------------------------------------------
(* Lists *)

\* The first PageSize items of the kind after the cursor, in key order.
Page(table, kind, cursor) ==
  LET rest == {i \in Item : i > cursor /\ Listable(table[i], kind, FALSE)}
  IN  {i \in rest : Cardinality({j \in rest : j < i}) < PageSize}

\* A set of ids in key order.
InOrder(S) ==
  CHOOSE s \in [1..Cardinality(S) -> S] :
    \A j, k \in DOMAIN s : j < k => s[j] < s[k]

\* Mutant of ReadPage: the cursor is the last item that passed the filter, and
\* a page without any ends the list.
ReadPageShown(c, kind, only, cursor, got, steady) ==
  \E table \in {rows, replica} :
    LET page  == Page(table, kind, cursor)
        shown == {i \in page : Listable(table[i], kind, only)}
    IN  reader' = [reader EXCEPT ![c] =
          [pc |-> IF shown = {} THEN "end" ELSE "more",
           kind |-> kind, only |-> only,
           cursor |-> IF shown = {} THEN cursor ELSE Last(InOrder(shown)),
           got |-> got \o InOrder(shown), steady |-> steady]]

\* One page.  The limit counts items before the filter, and the cursor is the
\* last item evaluated, so that a page may be short, even empty, and not be the
\* last.  After a full page DynamoDB may return a cursor although it was the
\* last.  Query is not asked for consistent reads.
ReadPage(c, kind, only, cursor, got, steady) ==
  \E table \in {rows, replica} :
    LET page  == Page(table, kind, cursor)
        full  == Cardinality(page) = PageSize
        shown == {i \in page : Listable(table[i], kind, only)}
    IN  \E more \in IF ~full THEN {FALSE}
                    ELSE IF Page(table, kind, Last(InOrder(page))) = {}
                    THEN BOOLEAN ELSE {TRUE} :
          reader' = [reader EXCEPT ![c] =
            [pc |-> IF more THEN "more" ELSE "end",
             kind |-> kind, only |-> only,
             cursor |-> IF more THEN Last(InOrder(page)) ELSE cursor,
             got |-> got \o InOrder(shown), steady |-> steady]]

SteadyNow(kind, only) ==
  {i \in Item : Listable(rows[i], kind, only) /\ Listable(replica[i], kind, only)}

Begin(c, kind, only) ==
  /\ reader[c].pc = "idle"
  /\ ReadPage(c, kind, only, 0, <<>>, SteadyNow(kind, only))
  /\ UNCHANGED <<rows, unborn, replica, h, race>>

ListServices(c, only) == Begin(c, "service", only)
ListStaff(c)          == Begin(c, "staff", FALSE)

NextPage(c) ==
  LET l == reader[c]
  IN  /\ l.pc = "more"
      /\ ReadPage(c, l.kind, l.only, l.cursor, l.got, l.steady)
      /\ UNCHANGED <<rows, unborn, replica, h, race>>

\* A replica catches up with one row.
Replicate(i) ==
  /\ replica[i] # rows[i]
  /\ SetTable(rows, [replica EXCEPT ![i] = rows[i]])
  /\ UNCHANGED <<unborn, h, race>>

-----------------------------------------------------------------------------
Create(i) ==
  \/ RegisterBusiness(i)
  \/ \E on \in BOOLEAN \cup {Nil} : CreateService(i, on) \/ CreateStaff(i, on)

Write(r) ==
  \/ \E i \in Item, on \in BOOLEAN \cup {Nil} :
       PatchBusiness(r, i, on) \/ PatchService(r, i, on) \/ PatchStaff(r, i, on)
  \/ Save(r)
  \/ Fail(r)
  \/ \E i \in Item : DeleteService(r, i) \/ DeleteStaff(r, i)

Next ==
  \/ \E i \in Item : Create(i) \/ Replicate(i)
  \/ \E r \in Request : Write(r)
  \/ \E c \in Reader :
       (\E only \in BOOLEAN : ListServices(c, only)) \/ ListStaff(c) \/ NextPage(c)

Spec == Init /\ [][Next]_vars

-----------------------------------------------------------------------------
(* Properties *)

(***************************************************************************)
(* Every variable has its type.                                            *)
(***************************************************************************)
TypeOK ==
  /\ rows    \in [Item -> Row \cup {Nil}]
  /\ unborn  \in SUBSET Item
  /\ replica \in [Item -> Row \cup {Nil}]
  /\ h       \in [Request -> Handler]
  /\ reader  \in [Reader -> Listing]
  /\ race    \in [Request -> SUBSET Request]

\* What r did to row i does not show in the row.
Undone(r, i) ==
  /\ h[r].id = i
  /\ \/ h[r].pc = "patched" /\ r \notin rows[i].log
     \/ h[r].pc = "deleted"

(***************************************************************************)
(* Save puts the whole row back without a condition, so patches get lost   *)
(* and deleted rows come back.  This says how far that goes: what a patch  *)
(* or a delete did to a row is undone only by a patch that held a copy of  *)
(* the row at that moment.  One that begins afterwards never undoes it,    *)
(* whatever races before, and in whichever order the copies are saved.     *)
(***************************************************************************)
LostOnlyToOverlap ==
  \A i \in Item : rows[i] # Nil =>
    \A r \in Request : Undone(r, i) => rows[i].log \cap race[r] # {}

(***************************************************************************)
(* A client that follows next_cursor to its end has got every row that was *)
(* to be listed all the while, and none of them twice, with rows created,  *)
(* deleted and switched off between its pages, pages emptied by the        *)
(* active_only filter, and reads that are behind.                          *)
(***************************************************************************)
ListingComplete ==
  \A c \in Reader :
    /\ reader[c].pc = "end" => reader[c].steady \subseteq ToSet(reader[c].got)
    /\ IsInjective(reader[c].got)
=============================================================================

--------------------------- MODULE CatalogProofs ---------------------------
(***************************************************************************)
(* Theorems about Catalog, for any number of rows, patches and deletes,    *)
(* clients and page sizes: only a write that overlapped another can undo   *)
(* it, and a list that is followed to its end is complete.                 *)
(***************************************************************************)
EXTENDS Catalog, FiniteSetTheorems, SequenceTheorems, WellFoundedInduction, TLAPS

\* What the argument needs of the types; the lists have no part in it.
RowTypes ==
  /\ rows   \in [Item -> Row \cup {Nil}]
  /\ unborn \in SUBSET Item
  /\ h      \in [Request -> Handler]
  /\ race   \in [Request -> SUBSET Request]

\* A patch that is about to save has a row and a copy of it.
Holding ==
  \A x \in Request : h[x].pc = "save" => h[x].id \in Item /\ h[x].copy \in Row

\* Nothing is known of an id before it is given out.
Fresh == \A i \in unborn : rows[i] = Nil /\ \A r \in Request : h[r].id # i

\* What r did to row i does not show in row w.
Missing(r, i, w) ==
  /\ h[r].id = i
  /\ \/ h[r].pc = "patched" /\ r \notin w.log
     \/ h[r].pc = "deleted"

\* LostOnlyToOverlap, with the copies that are still to be saved: x misses what
\* r did only if x held its copy then, or some request in the copy did.
CopyInv ==
  \A x, r \in Request :
    h[x].pc = "save" /\ Missing(r, h[x].id, h[x].copy) =>
      x \in race[r] \/ h[x].copy.log \cap race[r] # {}

RowInv ==
  \A i \in Item : rows[i] # Nil =>
    \A r \in Request : Missing(r, i, rows[i]) => rows[i].log \cap race[r] # {}

IInv == RowTypes /\ Holding /\ Fresh /\ CopyInv /\ RowInv

-----------------------------------------------------------------------------
LEMMA InitInv == Init => IInv
<1> SUFFICES ASSUME Init PROVE IInv
  OBVIOUS
<1>1. RowTypes
  BY DEF Init, RowTypes, Handler, IdleHandler, PC
<1>2. Holding /\ CopyInv
  BY DEF Init, Holding, CopyInv, IdleHandler
<1>3. Fresh
  BY CatalogNilAssumption DEF Init, Fresh, IdleHandler
<1>4. RowInv
  BY DEF Init, RowInv
<1> QED BY <1>1, <1>2, <1>3, <1>4 DEF IInv

\* The handler ends with its outcome and drops the copy.
LEMMA EndFacts ==
  ASSUME RowTypes, NEW r \in Request, NEW p \in PC, NEW i \in Item \cup {Nil},
         End(r, p, i)
  PROVE  /\ h' \in [Request -> Handler]
         /\ \A x \in Request : x # r => h'[x] = h[x]
         /\ h'[r].pc = p /\ h'[r].id = i
<1> DEFINE e == [IdleHandler EXCEPT !.pc = p, !.id = i]
<1>1. e \in Handler /\ e.pc = p /\ e.id = i
  BY DEF IdleHandler, Handler
<1>2. h' = [h EXCEPT ![r] = e]
  BY DEF End
<1> HIDE DEF e
<1> QED BY <1>1, <1>2 DEF RowTypes

LEMMA PatchedFacts ==
  ASSUME RowTypes, Holding, NEW r \in Request, h[r].pc = "save"
  PROVE  Patched(r) \in Row /\ Patched(r).log = h[r].copy.log \cup {r}
<1>1. h[r] \in Handler /\ h[r].copy \in Row
  BY DEF RowTypes, Holding
<1>2. h[r].active # Nil => h[r].active \in BOOLEAN
  BY <1>1 DEF Handler
<1> DEFINE c == h[r].copy
           a == IF h[r].active = Nil THEN c.active ELSE h[r].active
<1>3. Patched(r) = [c EXCEPT !.active = a, !.log = c.log \cup {r}]
  BY DEF Patched
<1>4. \A k \in {"business", "service", "staff"} :
        c \in [kind: {k}, active: BOOLEAN, log: SUBSET Request]
          => /\ [c EXCEPT !.active = a, !.log = c.log \cup {r}]
                  \in [kind: {k}, active: BOOLEAN, log: SUBSET Request]
             /\ [c EXCEPT !.active = a, !.log = c.log \cup {r}].log = c.log \cup {r}
  <2> HIDE DEF c
  <2> TAKE k \in {"business", "service", "staff"}
  <2> HAVE c \in [kind: {k}, active: BOOLEAN, log: SUBSET Request]
  <2>1. a \in BOOLEAN
    BY <1>2
  <2> HIDE DEF a
  <2> QED BY <2>1
<1> HIDE DEF c, a
<1>5. c \in Row
  BY <1>1 DEF c
<1>6. PICK k \in {"business", "service", "staff"} :
         c \in [kind: {k}, active: BOOLEAN, log: SUBSET Request]
  BY <1>5 DEF Row, BusinessItem, ServiceItem, StaffItem
<1>7. /\ [c EXCEPT !.active = a, !.log = c.log \cup {r}]
           \in [kind: {k}, active: BOOLEAN, log: SUBSET Request]
      /\ [c EXCEPT !.active = a, !.log = c.log \cup {r}].log = c.log \cup {r}
  BY <1>4, <1>6
<1>8. [c EXCEPT !.active = a, !.log = c.log \cup {r}] \in Row
  BY <1>7 DEF Row, BusinessItem, ServiceItem, StaffItem
<1> QED BY <1>3, <1>7, <1>8 DEF c

-----------------------------------------------------------------------------
(* One lemma per kind of step *)

LEMMA InsertInv ==
  ASSUME IInv, NEW i \in Item, NEW kind \in {"business", "service", "staff"},
         NEW on \in BOOLEAN \cup {Nil}, Insert(i, kind, on)
  PROVE  IInv'
<1> USE DEF IInv
<1> DEFINE row == [kind |-> kind, active |-> (on # FALSE), log |-> {}]
<1>1. row \in Row
  BY DEF Row, BusinessItem, ServiceItem, StaffItem
<1>2. /\ i \in unborn /\ unborn' = unborn \ {i}
      /\ rows' = [rows EXCEPT ![i] = row] /\ h' = h /\ race' = race
  BY DEF Insert, WriteRow, SetTable
<1> HIDE DEF row
<1>3. RowTypes'
  BY <1>1, <1>2 DEF RowTypes
<1>4. Holding' /\ CopyInv'
  BY <1>2 DEF Holding, CopyInv, Missing
<1>5. Fresh'
  BY <1>2 DEF Fresh, RowTypes
<1>6. RowInv'
  BY <1>2 DEF RowInv, Missing, Fresh, RowTypes
<1> QED BY <1>3, <1>4, <1>5, <1>6

LEMMA RejectInv ==
  ASSUME IInv, NEW r \in Request, End(r, "failed", Nil),
         UNCHANGED <<rows, unborn, race>>
  PROVE  IInv'
<1> USE DEF IInv
<1>1. /\ h' \in [Request -> Handler]
      /\ \A x \in Request : x # r => h'[x] = h[x]
      /\ h'[r].pc = "failed" /\ h'[r].id = Nil
  BY EndFacts DEF PC
<1>2. RowTypes'
  BY <1>1 DEF RowTypes
<1>3. Holding' /\ Fresh'
  BY <1>1, CatalogNilAssumption DEF Holding, Fresh, RowTypes
<1>4. CopyInv' /\ RowInv'
  BY <1>1 DEF CopyInv, RowInv, Missing
<1> QED BY <1>2, <1>3, <1>4

LEMMA LoadInv ==
  ASSUME IInv, NEW r \in Request, NEW i \in Item, NEW kind,
         NEW on \in BOOLEAN \cup {Nil}, Load(r, kind, i, on)
  PROVE  IInv'
<1> USE DEF IInv
<1>1. UNCHANGED <<rows, unborn, race>>
  BY DEF Load
<1>2. CASE rows[i] # Nil /\ rows[i].kind = kind
  <2> DEFINE n == [pc |-> "save", id |-> i, active |-> on, copy |-> rows[i]]
  <2>1. h' = [h EXCEPT ![r] = n] /\ h[r].pc = "idle"
    BY <1>2 DEF Load
  <2>2. rows[i] \in Row /\ i \notin unborn
    BY <1>2 DEF RowTypes, Fresh
  <2>3. n \in Handler /\ n.pc = "save" /\ n.id = i /\ n.copy = rows[i]
    BY <2>2 DEF Handler, PC
  <2> HIDE DEF n
  <2>4. /\ h'[r] = n /\ h' \in [Request -> Handler]
        /\ \A x \in Request : x # r => h'[x] = h[x]
    BY <2>1, <2>3 DEF RowTypes
  <2>5. RowTypes' /\ Holding' /\ Fresh'
    BY <1>1, <2>2, <2>3, <2>4 DEF RowTypes, Holding, Fresh
  <2>6. RowInv'
    BY <1>1, <2>3, <2>4 DEF RowInv, Missing
  <2>7. CopyInv'
    <3> SUFFICES ASSUME NEW x \in Request, NEW y \in Request, h'[x].pc = "save",
                        Missing(y, h[x].id, h[x].copy)'
                 PROVE  x \in race[y] \/ h'[x].copy.log \cap race[y] # {}
      BY <1>1 DEF CopyInv
    <3>1. y # r /\ Missing(y, h'[x].id, h'[x].copy)
      BY <2>3, <2>4 DEF Missing
    <3>2. CASE x = r
      BY <3>1, <3>2, <1>2, <2>3, <2>4 DEF RowInv
    <3>3. CASE x # r
      BY <3>1, <3>3, <2>4 DEF CopyInv
    <3> QED BY <3>2, <3>3
  <2> QED BY <2>5, <2>6, <2>7
<1>3. CASE ~(rows[i] # Nil /\ rows[i].kind = kind)
  BY <1>1, <1>3, RejectInv DEF Load
<1> QED BY <1>2, <1>3

LEMMA SaveInv ==
  ASSUME IInv, NEW r \in Request, Save(r)
  PROVE  IInv'
<1> USE DEF IInv
<1> DEFINE i == h[r].id
           row == Patched(r)
<1>1. h[r].pc = "save" /\ i \in Item /\ i \notin unborn
  BY DEF Save, Holding, Fresh
<1>2. row \in Row /\ row.log = h[r].copy.log \cup {r}
  BY <1>1, PatchedFacts
<1>3. /\ rows' = [rows EXCEPT ![i] = row] /\ unborn' = unborn
      /\ race' = [race EXCEPT ![r] = Holders(i) \ {r}]
      /\ End(r, "patched", i)
  BY DEF Save, WriteRow, SetTable
<1>4. /\ h' \in [Request -> Handler]
      /\ \A x \in Request : x # r => h'[x] = h[x]
      /\ h'[r].pc = "patched" /\ h'[r].id = i
  BY <1>1, <1>3, EndFacts DEF PC
<1>5. /\ race'[r] = {x \in Request : h[x].pc = "save" /\ h[x].id = i} \ {r}
      /\ \A y \in Request : y # r => race'[y] = race[y]
      /\ race' \in [Request -> SUBSET Request]
  BY <1>3 DEF RowTypes, Holders
<1> HIDE DEF row
<1>6. RowTypes'
  BY <1>2, <1>3, <1>4, <1>5 DEF RowTypes
<1>7. Holding'
  BY <1>4 DEF Holding
<1>8. Fresh'
  BY <1>1, <1>3, <1>4 DEF Fresh, RowTypes
<1>9. CopyInv'
  <2> SUFFICES ASSUME NEW x \in Request, NEW y \in Request, h'[x].pc = "save",
                      Missing(y, h[x].id, h[x].copy)'
               PROVE  x \in race'[y] \/ h'[x].copy.log \cap race'[y] # {}
    BY DEF CopyInv
  <2>1. x # r /\ h'[x] = h[x]
    BY <1>4
  <2>2. CASE y = r
    BY <2>1, <2>2, <1>4, <1>5 DEF Missing
  <2>3. CASE y # r
    BY <2>1, <2>3, <1>4, <1>5 DEF Missing, CopyInv
  <2> QED BY <2>2, <2>3
<1>10. RowInv'
  <2> SUFFICES ASSUME NEW j \in Item, rows'[j] # Nil, NEW y \in Request,
                      Missing(y, j, rows[j])'
               PROVE  rows'[j].log \cap race'[y] # {}
    BY DEF RowInv
  <2>1. CASE j = i
    <3>1. rows'[j] = row
      BY <2>1, <1>1, <1>3 DEF RowTypes
    <3>2. y # r
      BY <3>1, <1>2, <1>4 DEF Missing
    <3>3. Missing(y, h[r].id, h[r].copy)
      BY <2>1, <3>1, <3>2, <1>2, <1>4 DEF Missing
    <3>4. r \in race[y] \/ h[r].copy.log \cap race[y] # {}
      BY <3>3, <1>1 DEF CopyInv
    <3> QED BY <3>1, <3>2, <3>4, <1>2, <1>5
  <2>2. CASE j # i
    <3>1. rows'[j] = rows[j]
      BY <2>2, <1>3 DEF RowTypes
    <3>2. y # r /\ Missing(y, j, rows[j])
      BY <2>2, <3>1, <1>4 DEF Missing
    <3> QED BY <3>1, <3>2, <1>5 DEF RowInv
  <2> QED BY <2>1, <2>2
<1> QED BY <1>6, <1>7, <1>8, <1>9, <1>10

LEMMA DeleteInv ==
  ASSUME IInv, NEW r \in Request, NEW i \in Item, NEW kind, Delete(r, kind, i)
  PROVE  IInv'
<1> USE DEF IInv
<1>1. CASE rows[i] # Nil /\ rows[i].kind = kind
  <2>1. /\ rows' = [rows EXCEPT ![i] = Nil] /\ unborn' = unborn
        /\ race' = [race EXCEPT ![r] = Holders(i)]
        /\ End(r, "deleted", i) /\ h[r].pc = "idle"
    BY <1>1 DEF Delete, WriteRow, SetTable
  <2>2. i \notin unborn
    BY <1>1 DEF Fresh
  <2>3. /\ h' \in [Request -> Handler]
        /\ \A x \in Request : x # r => h'[x] = h[x]
        /\ h'[r].pc = "deleted" /\ h'[r].id = i
    BY <2>1, EndFacts DEF PC
  <2>4. /\ race'[r] = {x \in Request : h[x].pc = "save" /\ h[x].id = i}
        /\ \A y \in Request : y # r => race'[y] = race[y]
        /\ race' \in [Request -> SUBSET Request]
    BY <2>1 DEF RowTypes, Holders
  <2>5. RowTypes'
    BY <2>1, <2>3, <2>4 DEF RowTypes
  <2>6. Holding' /\ Fresh'
    BY <2>1, <2>2, <2>3 DEF Holding, Fresh, RowTypes
  <2>7. CopyInv'
    <3> SUFFICES ASSUME NEW x \in Request, NEW y \in Request, h'[x].pc = "save",
                        Missing(y, h[x].id, h[x].copy)'
                 PROVE  x \in race'[y] \/ h'[x].copy.log \cap race'[y] # {}
      BY DEF CopyInv
    <3>1. x # r /\ h'[x] = h[x]
      BY <2>3
    <3>2. CASE y = r
      BY <3>1, <3>2, <2>3, <2>4 DEF Missing
    <3>3. CASE y # r
      BY <3>1, <3>3, <2>3, <2>4 DEF Missing, CopyInv
    <3> QED BY <3>2, <3>3
  <2>8. RowInv'
    <3> SUFFICES ASSUME NEW j \in Item, rows'[j] # Nil, NEW y \in Request,
                        Missing(y, j, rows[j])'
                 PROVE  rows'[j].log \cap race'[y] # {}
      BY DEF RowInv
    <3>1. j # i /\ rows'[j] = rows[j]
      BY <2>1 DEF RowTypes
    <3>2. y # r /\ Missing(y, j, rows[j])
      BY <3>1, <2>3 DEF Missing
    <3> QED BY <3>1, <3>2, <2>4 DEF RowInv
  <2> QED BY <2>5, <2>6, <2>7, <2>8
<1>2. CASE ~(rows[i] # Nil /\ rows[i].kind = kind)
  BY <1>2, RejectInv DEF Delete
<1> QED BY <1>1, <1>2

\* Lists, replication and stuttering leave the argument's variables alone.
LEMMA FrameInv ==
  ASSUME IInv, UNCHANGED <<rows, unborn, h, race>>
  PROVE  IInv'
BY DEF IInv, RowTypes, Holding, Fresh, CopyInv, RowInv, Missing

LEMMA StepInv == IInv /\ [Next]_vars => IInv'
<1> SUFFICES ASSUME IInv, [Next]_vars PROVE IInv'
  OBVIOUS
<1>1. CASE UNCHANGED vars
  BY <1>1, FrameInv DEF vars
<1>2. ASSUME NEW i \in Item, Create(i) PROVE IInv'
  BY <1>2, InsertInv DEF Create, RegisterBusiness, CreateService, CreateStaff
<1>3. ASSUME NEW i \in Item, Replicate(i) PROVE IInv'
  BY <1>3, FrameInv DEF Replicate, SetTable
<1>4. ASSUME NEW r \in Request, Write(r) PROVE IInv'
  <2>1. ASSUME NEW i \in Item, NEW on \in BOOLEAN \cup {Nil},
               PatchBusiness(r, i, on) \/ PatchService(r, i, on) \/ PatchStaff(r, i, on)
        PROVE  IInv'
    BY <2>1, LoadInv DEF PatchBusiness, PatchService, PatchStaff
  <2>2. CASE Save(r)
    BY <2>2, SaveInv
  <2>3. CASE Fail(r)
    BY <2>3, RejectInv DEF Fail
  <2>4. ASSUME NEW i \in Item, DeleteService(r, i) \/ DeleteStaff(r, i) PROVE IInv'
    BY <2>4, DeleteInv DEF DeleteService, DeleteStaff
  <2> QED BY <1>4, <2>1, <2>2, <2>3, <2>4 DEF Write
<1>5. ASSUME NEW c \in Reader,
             (\E only \in BOOLEAN : ListServices(c, only)) \/ ListStaff(c) \/ NextPage(c)
      PROVE  IInv'
  BY <1>5, FrameInv DEF ListServices, ListStaff, NextPage, Begin
<1> QED BY <1>1, <1>2, <1>3, <1>4, <1>5 DEF Next

(***************************************************************************)
(* What a patch or a delete did to a business, a service or a staff member *)
(* is undone only by a patch that held a copy of the row at that moment    *)
(* (LostOnlyToOverlap), however many requests race and end.                *)
(***************************************************************************)
THEOREM OverlapTheorem == Spec => []LostOnlyToOverlap
<1>1. IInv => LostOnlyToOverlap
  BY DEF IInv, RowInv, LostOnlyToOverlap, Missing, Undone
<1> QED BY <1>1, InitInv, StepInv, PTL DEF Spec

-----------------------------------------------------------------------------
(* Sets of ids *)

(***************************************************************************)
(* A set of numbers that has a member has a least one.                     *)
(***************************************************************************)
LEMMA LeastOf ==
  ASSUME NEW T \in SUBSET Nat, T # {}
  PROVE  \E n \in T : \A m \in T : n <= m
<1>1. PICK x \in T : \A y \in T : ~ (<<y, x>> \in OpToRel(<, Nat))
  BY WFMin, NatLessThanWellFounded
<1>2. \A y \in T : ~(y < x)
  BY <1>1 DEF OpToRel
<1> QED BY <1>2

(***************************************************************************)
(* Every finite set of ids can be put in key order: an id goes to the      *)
(* place that is the number of ids up to it.                               *)
(***************************************************************************)
LEMMA OrderExists ==
  ASSUME NEW S \in SUBSET Item, IsFiniteSet(S)
  PROVE  \E s \in [1..Cardinality(S) -> S] : \A j, k \in DOMAIN s : j < k => s[j] < s[k]
<1> DEFINE n == Cardinality(S)
           UpTo(x) == {y \in S : y <= x}
           R == [x \in S |-> Cardinality(UpTo(x))]
<1>1. n \in Nat
  BY FS_CardinalityType
<1>2. S \subseteq Nat
  BY CatalogAssumption
<1>3. \A x \in S : IsFiniteSet(UpTo(x)) /\ Cardinality(UpTo(x)) \in Nat /\ Cardinality(UpTo(x)) <= n
  <2> TAKE x \in S
  <2>1. UpTo(x) \in SUBSET S
    OBVIOUS
  <2>2. IsFiniteSet(UpTo(x)) /\ Cardinality(UpTo(x)) <= n
    BY <2>1, FS_Subset
  <2> QED BY <2>2, FS_CardinalityType
<1>4. ASSUME NEW x \in S, NEW y \in S, x < y
      PROVE  Cardinality(UpTo(x)) < Cardinality(UpTo(y))
  <2>1. UpTo(x) \in SUBSET UpTo(y) /\ y \in UpTo(y) /\ y \notin UpTo(x)
    <3>1. x \in Nat /\ y \in Nat /\ \A z \in S : z \in Nat
      BY <1>2
    <3>2. \A z \in S : z <= x => z <= y
      BY <1>4, <3>1
    <3>3. y <= y /\ ~(y <= x)
      BY <1>4, <3>1
    <3> QED BY <3>2, <3>3
  <2>2. UpTo(x) # UpTo(y)
    BY <2>1
  <2>3. /\ Cardinality(UpTo(x)) <= Cardinality(UpTo(y))
        /\ Cardinality(UpTo(x)) # Cardinality(UpTo(y))
    <3>1. IsFiniteSet(UpTo(y))
      BY <1>3
    <3> HIDE DEF UpTo
    <3> QED BY <3>1, <2>1, <2>2, FS_Subset
  <2> HIDE DEF UpTo
  <2> QED BY <1>3, <2>3
<1>5. ASSUME NEW x \in S PROVE Cardinality(UpTo(x)) \in 1..n
  <2>1. UpTo(x) # {}
    BY <1>2
  <2>2. Cardinality(UpTo(x)) # 0
    <3> HIDE DEF UpTo
    <3> QED BY <1>3, <2>1, FS_EmptySet
  <2> HIDE DEF UpTo
  <2> QED BY <1>1, <1>3, <2>2
<1>6. R \in Injection(S, 1..n)
  <2>1. R \in [S -> 1..n]
    <3> HIDE DEF UpTo
    <3> QED BY <1>5
  <2>2. \A x, y \in S : R[x] = R[y] => x = y
    <3> SUFFICES ASSUME NEW x \in S, NEW y \in S, x # y PROVE R[x] # R[y]
      OBVIOUS
    <3>1. x < y \/ y < x
      BY <1>2
    <3>2. R[x] = Cardinality(UpTo(x)) /\ R[y] = Cardinality(UpTo(y))
      OBVIOUS
    <3> HIDE DEF R, UpTo
    <3> QED BY <1>3, <1>4, <3>1, <3>2
  <2> HIDE DEF R
  <2> QED BY <2>1, <2>2 DEF Injection, IsInjective
<1>7. R \in Surjection(S, 1..n)
  <2>1. IsFiniteSet(1..n) /\ Cardinality(1..n) = n
    BY <1>1, FS_Interval
  <2> HIDE DEF R
  <2> QED BY <1>6, <2>1, FS_Injection
<1>8. \A k \in 1..n : \E x \in S : R[x] = k
  <2> HIDE DEF R
  <2> QED BY <1>7 DEF Surjection
<1> DEFINE s == [k \in 1..n |-> CHOOSE x \in S : R[x] = k]
<1>9. \A k \in 1..n : s[k] \in S /\ R[s[k]] = k
  <2> TAKE k \in 1..n
  <2>1. s[k] = CHOOSE x \in S : R[x] = k
    OBVIOUS
  <2>2. \E x \in S : R[x] = k
    BY <1>8
  <2> HIDE DEF R, n, s
  <2> QED BY <2>1, <2>2
<1>10. s \in [1..n -> S]
  <2>1. \A k \in 1..n : (CHOOSE x \in S : R[x] = k) \in S
    <3> HIDE DEF R
    <3> QED BY <1>8
  <2> HIDE DEF R, n
  <2> QED BY <2>1
<1>11. ASSUME NEW j \in 1..n, NEW k \in 1..n, j < k PROVE s[j] < s[k]
  <2>1. /\ s[j] \in S /\ s[k] \in S
        /\ Cardinality(UpTo(s[j])) = j /\ Cardinality(UpTo(s[k])) = k
    <3> HIDE DEF s
    <3> QED BY <1>9
  <2>2. s[j] \in Nat /\ s[k] \in Nat
    BY <1>2, <2>1
  <2>3. CASE s[k] < s[j]
    <3> HIDE DEF s, UpTo
    <3> QED BY <1>4, <1>11, <2>1, <2>3
  <2>4. CASE s[k] = s[j]
    <3> HIDE DEF s, UpTo
    <3> QED BY <1>11, <2>1, <2>4
  <2> HIDE DEF s
  <2> QED BY <2>2, <2>3, <2>4
<1>12. DOMAIN s = 1..n
  OBVIOUS
<1> HIDE DEF s
<1> QED BY <1>10, <1>11, <1>12

(***************************************************************************)
(* What InOrder returns: each id of the set once, the greatest last.       *)
(***************************************************************************)
LEMMA InOrderFacts ==
  ASSUME NEW S \in SUBSET Item, IsFiniteSet(S)
  PROVE  /\ InOrder(S) \in Seq(Item)
         /\ Len(InOrder(S)) = Cardinality(S)
         /\ ToSet(InOrder(S)) = S
         /\ IsInjective(InOrder(S))
         /\ S # {} => /\ Last(InOrder(S)) \in S
                      /\ \A i \in S : i <= Last(InOrder(S))
<1> DEFINE n == Cardinality(S)
           s == InOrder(S)
<1>1. n \in Nat
  BY FS_CardinalityType
<1>2. s \in [1..n -> S] /\ \A j, k \in DOMAIN s : j < k => s[j] < s[k]
  BY OrderExists DEF InOrder
<1>3. S \subseteq Nat
  BY CatalogAssumption
<1> HIDE DEF s
<1>4. \A j, k \in 1..n : s[j] \in Nat /\ s[k] \in Nat /\ (j < k => s[j] < s[k])
  BY <1>2, <1>3
<1>5. IsInjective(s)
  <2> SUFFICES ASSUME NEW j \in 1..n, NEW k \in 1..n, s[j] = s[k] PROVE j = k
    BY <1>2 DEF IsInjective
  <2>1. ~(j < k) /\ ~(k < j)
    BY <1>4
  <2> QED BY <1>1, <2>1
<1>6. s \in Surjection(1..n, S)
  <2>1. s \in Injection(1..n, S)
    BY <1>2, <1>5 DEF Injection
  <2>2. Cardinality(1..n) = n
    BY <1>1, FS_Interval
  <2> QED BY <2>1, <2>2, FS_Injection
<1>7. \A x \in S : \E k \in 1..n : s[k] = x
  BY <1>6 DEF Surjection
<1>8. ToSet(s) = S
  BY <1>2, <1>7 DEF ToSet
<1>9. s \in Seq(Item) /\ Len(s) = n
  <2> HIDE DEF n
  <2> QED BY <1>1, <1>2
<1>10. ASSUME S # {}
       PROVE  Last(s) \in S /\ \A i \in S : i <= Last(s)
  <2>1. n # 0
    BY <1>10, FS_EmptySet
  <2>2. n \in 1..n /\ Last(s) = s[n]
    BY <1>1, <1>9, <2>1 DEF Last
  <2>3. ASSUME NEW i \in S PROVE i <= s[n]
    <3>1. PICK k \in 1..n : s[k] = i
      BY <1>7
    <3>2. k = n \/ k < n
      BY <1>1
    <3> QED BY <1>4, <2>2, <3>1, <3>2
  <2> QED BY <1>2, <2>2, <2>3
<1> QED BY <1>5, <1>8, <1>9, <1>10 DEF s

(***************************************************************************)
(* The items a page looks at.                                              *)
(***************************************************************************)
Rest(table, kind, cursor) ==
  {i \in Item : i > cursor /\ Listable(table[i], kind, FALSE)}

(***************************************************************************)
(* A page is the beginning of the rest, and all of it unless it is full.   *)
(***************************************************************************)
LEMMA PageFacts ==
  ASSUME IsFiniteSet(Item), NEW table, NEW kind, NEW cursor
  PROVE  LET rest == Rest(table, kind, cursor)
             page == Page(table, kind, cursor)
         IN  /\ page \in SUBSET rest /\ IsFiniteSet(page)
             /\ \A i \in page, j \in rest : j < i => j \in page
             /\ page = {} => rest = {}
             /\ Cardinality(page) # PageSize => page = rest
             /\ Cardinality(page) = PageSize => page # {}
<1> DEFINE rest == Rest(table, kind, cursor)
           Below(i) == {j \in rest : j < i}
           page == {i \in rest : Cardinality(Below(i)) < PageSize}
<1>1. page = Page(table, kind, cursor)
  BY DEF Page, Rest
<1>2. rest \in SUBSET Item /\ rest \subseteq Nat /\ IsFiniteSet(rest)
  <2>1. rest \in SUBSET Item
    BY DEF Rest
  <2> HIDE DEF rest
  <2> QED BY <2>1, FS_Subset, CatalogAssumption
<1> HIDE DEF rest
<1>3. page \in SUBSET rest /\ IsFiniteSet(page) /\ Cardinality(page) \in Nat
  <2>1. page \in SUBSET rest
    OBVIOUS
  <2> HIDE DEF page
  <2> QED BY <1>2, <2>1, FS_Subset, FS_CardinalityType
<1>4. ASSUME NEW i PROVE Below(i) \in SUBSET rest /\ IsFiniteSet(Below(i)) /\ Cardinality(Below(i)) \in Nat
  <2>1. Below(i) \in SUBSET rest
    OBVIOUS
  <2> HIDE DEF Below
  <2> QED BY <1>2, <2>1, FS_Subset, FS_CardinalityType
<1>5. ASSUME NEW i \in page, NEW j \in rest, j < i PROVE j \in page
  <2>1. Below(j) \in SUBSET Below(i)
    <3>1. \A k \in rest : k < j => k < i
      BY <1>2, <1>3, <1>5
    <3> QED BY <3>1
  <2>2. Cardinality(Below(j)) <= Cardinality(Below(i))
    <3>1. IsFiniteSet(Below(i))
      BY <1>4
    <3> HIDE DEF Below
    <3> QED BY <2>1, <3>1, FS_Subset
  <2>3. Cardinality(Below(i)) < PageSize
    OBVIOUS
  <2>4. Cardinality(Below(j)) < PageSize
    <3> HIDE DEF Below
    <3> QED BY <1>4, <2>2, <2>3, CatalogAssumption
  <2> QED BY <2>4
<1>6. ASSUME page # rest PROVE Cardinality(page) >= PageSize
  <2> DEFINE T == rest \ page
  <2>1. T \in SUBSET Nat /\ T # {}
    BY <1>2, <1>6
  <2> HIDE DEF T
  <2>2. PICK i \in T : \A m \in T : i <= m
    BY <2>1, LeastOf
  <2>3. i \in rest /\ i \in Nat /\ ~(Cardinality(Below(i)) < PageSize)
    BY <1>2 DEF T
  <2>4. Below(i) \in SUBSET page
    <3> SUFFICES ASSUME NEW j \in rest, j < i, j \notin page PROVE FALSE
      OBVIOUS
    <3>1. j \in T /\ j \in Nat
      BY <1>2 DEF T
    <3> QED BY <2>2, <2>3, <3>1
  <2> HIDE DEF Below, page
  <2>5. Cardinality(Below(i)) <= Cardinality(page)
    BY <1>3, <2>4, FS_Subset
  <2> QED BY <1>3, <1>4, <2>3, <2>5, CatalogAssumption
<1>7. Cardinality(page) <= PageSize
  <2>1. CASE page = {}
    <3> HIDE DEF page
    <3> QED BY <2>1, FS_EmptySet, CatalogAssumption
  <2>2. CASE page # {}
    <3> DEFINE i == Last(InOrder(page))
    <3>1. i \in page /\ \A j \in page : j <= i
      <4> HIDE DEF page
      <4> QED BY <1>2, <1>3, <2>2, InOrderFacts
    <3> HIDE DEF i
    <3>2. page \ {i} \in SUBSET Below(i)
      <4> SUFFICES ASSUME NEW j \in page, j # i PROVE j \in rest /\ j < i
        OBVIOUS
      <4>1. i \in Nat /\ j \in Nat /\ j \in rest /\ j <= i
        BY <1>2, <1>3, <3>1
      <4> QED BY <4>1
    <3>3. Cardinality(Below(i)) < PageSize
      BY <3>1
    <3> HIDE DEF page
    <3>4. IsFiniteSet(page \ {i}) /\ Cardinality(page \ {i}) = Cardinality(page) - 1
      BY <1>3, <3>1, FS_RemoveElement
    <3>5. Cardinality(page \ {i}) <= Cardinality(Below(i))
      <4>1. IsFiniteSet(Below(i))
        BY <1>4
      <4> HIDE DEF Below
      <4> QED BY <3>2, <4>1, FS_Subset
    <3> HIDE DEF Below
    <3> QED BY <1>3, <1>4, <3>3, <3>4, <3>5, CatalogAssumption
  <2> QED BY <2>1, <2>2
<1>8. page = {} => rest = {}
  <2> SUFFICES ASSUME page = {}, rest # {} PROVE FALSE
    OBVIOUS
  <2>1. Cardinality(page) >= PageSize
    BY <1>6
  <2>2. Cardinality(page) = 0
    <3> HIDE DEF page
    <3> QED BY FS_EmptySet
  <2> HIDE DEF page
  <2> QED BY <2>1, <2>2, CatalogAssumption
<1>9. Cardinality(page) = PageSize => page # {}
  <2> HIDE DEF page
  <2> QED BY FS_EmptySet, CatalogAssumption
<1>10. Cardinality(page) # PageSize => page = rest
  <2> HIDE DEF page
  <2> QED BY <1>3, <1>6, <1>7, CatalogAssumption
<1> HIDE DEF page
<1> QED BY <1>1, <1>3, <1>5, <1>8, <1>9, <1>10 DEF rest

-----------------------------------------------------------------------------
(* Lists *)

\* What a client has got of its list: no row twice, none from behind the cursor,
\* and every steady row up to it; at the end, every steady row.
Covered(l) ==
  /\ IsInjective(l.got)
  /\ l.pc = "more" =>
       /\ \A i \in ToSet(l.got) : i <= l.cursor
       /\ \A i \in l.steady : i <= l.cursor => i \in ToSet(l.got)
       /\ l.steady \subseteq SteadyNow(l.kind, l.only)
  /\ l.pc = "end" => l.steady \subseteq ToSet(l.got)

ListInv == \A c \in Reader : Covered(reader[c])

(***************************************************************************)
(* What is on a list that is followed by another one.                      *)
(***************************************************************************)
LEMMA ConcatFacts ==
  ASSUME NEW s \in Seq(Item), NEW t \in Seq(Item), IsInjective(s), IsInjective(t),
         ToSet(s) \cap ToSet(t) = {}
  PROVE  s \o t \in Seq(Item) /\ ToSet(s \o t) = ToSet(s) \cup ToSet(t) /\ IsInjective(s \o t)
<1> DEFINE u == s \o t
           m == Len(s)
           n == Len(t)
<1>1. /\ u \in Seq(Item) /\ Len(u) = m + n /\ m \in Nat /\ n \in Nat
      /\ DOMAIN u = 1..(m + n) /\ DOMAIN s = 1..m /\ DOMAIN t = 1..n
      /\ \A k \in 1..(m + n) : u[k] = IF k <= m THEN s[k] ELSE t[k - m]
  OBVIOUS
<1> HIDE DEF u, m, n
<1>2. \A k \in 1..m : k \in 1..(m + n) /\ u[k] = s[k]
  BY <1>1
<1>3. \A k \in 1..n : k + m \in 1..(m + n) /\ u[k + m] = t[k]
  BY <1>1
<1>4. \A k \in 1..(m + n) : \/ k \in 1..m /\ u[k] = s[k]
                            \/ k - m \in 1..n /\ u[k] = t[k - m]
  BY <1>1
<1>5. ToSet(u) = ToSet(s) \cup ToSet(t)
  <2>1. ASSUME NEW x \in ToSet(u) PROVE x \in ToSet(s) \cup ToSet(t)
    <3>1. PICK k \in 1..(m + n) : x = u[k]
      BY <1>1 DEF ToSet
    <3> QED BY <1>1, <1>4, <3>1 DEF ToSet
  <2>2. ASSUME NEW x \in ToSet(s) PROVE x \in ToSet(u)
    <3>1. PICK k \in 1..m : x = s[k]
      BY <1>1 DEF ToSet
    <3> QED BY <1>1, <1>2, <3>1 DEF ToSet
  <2>3. ASSUME NEW x \in ToSet(t) PROVE x \in ToSet(u)
    <3>1. PICK k \in 1..n : x = t[k]
      BY <1>1 DEF ToSet
    <3> QED BY <1>1, <1>3, <3>1 DEF ToSet
  <2> QED BY <2>1, <2>2, <2>3
<1>6. IsInjective(u)
  <2> SUFFICES ASSUME NEW j \in 1..(m + n), NEW k \in 1..(m + n), u[j] = u[k]
               PROVE  j = k
    BY <1>1 DEF IsInjective
  <2>1. \A i \in 1..m, l \in 1..n : s[i] # t[l]
    BY <1>1 DEF ToSet
  <2>2. CASE j \in 1..m /\ u[j] = s[j] /\ k \in 1..m /\ u[k] = s[k]
    BY <1>1, <2>2 DEF IsInjective
  <2>3. CASE j - m \in 1..n /\ u[j] = t[j - m] /\ k - m \in 1..n /\ u[k] = t[k - m]
    <3>1. j - m = k - m
      BY <1>1, <2>3 DEF IsInjective
    <3> QED BY <1>1, <3>1
  <2> QED BY <1>4, <2>1, <2>2, <2>3
<1> QED BY <1>1, <1>5, <1>6 DEF u

\* A client that has got its list up to the cursor is shown what a page has to
\* be listed, and then has got all.
TurnsPage(table, kind, only, cursor, got, steady, page, shown, all) ==
  /\ only \in BOOLEAN /\ cursor \in Item \cup {0} /\ got \in Seq(Item)
  /\ steady \in SUBSET Item /\ \A i \in steady : Listable(table[i], kind, only)
  /\ IsInjective(got) /\ \A i \in ToSet(got) : i <= cursor
  /\ \A i \in steady : i <= cursor => i \in ToSet(got)
  /\ page = Page(table, kind, cursor)
  /\ shown = {i \in page : Listable(table[i], kind, only)}
  /\ all = got \o InOrder(shown)

(***************************************************************************)
(* A page extends what a client has got by all that is listable up to the  *)
(* new cursor, or to the end.                                              *)
(***************************************************************************)
LEMMA PageCovers ==
  ASSUME IsFiniteSet(Item), NEW table, NEW kind, NEW only, NEW cursor, NEW got,
         NEW steady, NEW page, NEW shown, NEW all,
         TurnsPage(table, kind, only, cursor, got, steady, page, shown, all)
  PROVE  /\ all \in Seq(Item) /\ IsInjective(all)
         /\ Cardinality(page) = PageSize =>
              /\ Last(InOrder(page)) \in Item
              /\ \A i \in ToSet(all) : i <= Last(InOrder(page))
              /\ \A i \in steady : i <= Last(InOrder(page)) => i \in ToSet(all)
         /\ Cardinality(page) # PageSize \/ Page(table, kind, Last(InOrder(page))) = {}
              => steady \subseteq ToSet(all)
<1> DEFINE rest == Rest(table, kind, cursor)
           last == Last(InOrder(page))
<1> USE DEF TurnsPage
<1>1. /\ page \in SUBSET rest /\ IsFiniteSet(page)
      /\ \A i \in page, j \in rest : j < i => j \in page
      /\ Cardinality(page) # PageSize => page = rest
      /\ Cardinality(page) = PageSize => page # {}
  BY PageFacts
<1>2. rest \in SUBSET Item /\ \A i \in rest : i > cursor
  BY DEF Rest
<1>3. Item \subseteq Nat /\ cursor \in Nat
  BY CatalogAssumption
<1>4. \A i \in steady : i \in ToSet(got) \/ i \in rest
  BY <1>3 DEF Rest, Listable
<1> HIDE DEF rest
<1>5. shown \in SUBSET page /\ shown \in SUBSET Item /\ IsFiniteSet(shown)
  <2>1. shown \in SUBSET page
    OBVIOUS
  <2> QED BY <1>1, <1>2, <2>1, FS_Subset
<1>6. InOrder(shown) \in Seq(Item) /\ ToSet(InOrder(shown)) = shown /\ IsInjective(InOrder(shown))
  BY <1>5, InOrderFacts
<1>7. ToSet(got) \subseteq Nat /\ ToSet(got) \cap shown = {}
  <2>1. ToSet(got) \subseteq Nat
    <3>1. \A k \in DOMAIN got : got[k] \in Item
      OBVIOUS
    <3> QED BY <1>3, <3>1 DEF ToSet
  <2>2. ASSUME NEW i \in ToSet(got), i \in shown PROVE FALSE
    <3>1. i \in Nat /\ i <= cursor /\ i > cursor
      BY <1>1, <1>2, <1>5, <2>1, <2>2
    <3> QED BY <1>3, <3>1
  <2> QED BY <2>1, <2>2
<1>8. all \in Seq(Item) /\ IsInjective(all) /\ ToSet(all) = ToSet(got) \cup shown
  BY <1>6, <1>7, ConcatFacts
<1>9. \A i \in steady : i \in page => i \in ToSet(all)
  BY <1>8
<1>10. ASSUME Cardinality(page) = PageSize
       PROVE  /\ last \in page /\ last \in Item
              /\ \A i \in page : i <= last
              /\ \A i \in rest : i <= last => i \in page
  <2>1. last \in page /\ \A i \in page : i <= last
    BY <1>1, <1>2, <1>10, InOrderFacts
  <2> HIDE DEF last
  <2>2. last \in Nat /\ \A i \in rest : i \in Nat
    BY <1>1, <1>2, <1>3, <2>1
  <2>3. \A i \in rest : i <= last => i < last \/ i = last
    BY <2>2
  <2> QED BY <1>1, <1>2, <2>1, <2>3
<1>11. ASSUME Cardinality(page) = PageSize
       PROVE  /\ \A i \in ToSet(all) : i <= last
              /\ \A i \in steady : i <= last => i \in ToSet(all)
  <2> HIDE DEF last
  <2>1. \A i \in ToSet(got) : i <= last
    <3>1. \A i \in ToSet(got) : i \in Nat
      BY <1>7
    <3>2. cursor < last /\ last \in Nat
      BY <1>1, <1>2, <1>3, <1>10, <1>11
    <3> QED BY <1>3, <3>1, <3>2
  <2> QED BY <1>4, <1>5, <1>8, <1>9, <1>10, <1>11, <2>1
<1>12. ASSUME Cardinality(page) # PageSize \/ Page(table, kind, last) = {}
       PROVE  steady \subseteq ToSet(all)
  <2>1. CASE page = rest
    BY <1>4, <1>8, <1>9, <2>1
  <2>2. CASE page # rest
    <3>1. Cardinality(page) = PageSize /\ Page(table, kind, last) = {}
      BY <1>1, <1>12, <2>2
    <3>2. Rest(table, kind, last) = {}
      BY <3>1, PageFacts
    <3> HIDE DEF last
    <3>3. \A i \in rest : ~(i > last)
      BY <3>2 DEF rest, Rest
    <3>4. last \in Nat /\ \A i \in rest : i \in Nat
      BY <1>2, <1>3, <1>10, <3>1
    <3>5. rest \subseteq page
      BY <1>10, <3>1, <3>3, <3>4
    <3> QED BY <1>1, <2>2, <3>5
  <2> QED BY <2>1, <2>2
<1> QED BY <1>8, <1>10, <1>11, <1>12

\* A client that asks for the page after its cursor has got its list up to it.
GotUpTo(kind, only, cursor, got, steady) ==
  /\ kind \in {"service", "staff"} /\ only \in BOOLEAN
  /\ cursor \in Item \cup {0} /\ got \in Seq(Item) /\ steady \in SUBSET Item
  /\ IsInjective(got) /\ \A i \in ToSet(got) : i <= cursor
  /\ \A i \in steady : i <= cursor => i \in ToSet(got)
  /\ steady \subseteq SteadyNow(kind, only)

(***************************************************************************)
(* Reading a page keeps the types and what the lists cover.                *)
(***************************************************************************)
LEMMA PageKeeps ==
  ASSUME IsFiniteSet(Item), TypeOK, ListInv, NEW c \in Reader,
         NEW kind, NEW only, NEW cursor, NEW got, NEW steady,
         GotUpTo(kind, only, cursor, got, steady),
         ReadPage(c, kind, only, cursor, got, steady), UNCHANGED <<rows, replica>>
  PROVE  reader' \in [Reader -> Listing] /\ ListInv'
<1> USE DEF GotUpTo
<1>1. PICK table \in {rows, replica} :
        LET page  == Page(table, kind, cursor)
            full  == Cardinality(page) = PageSize
            shown == {i \in page : Listable(table[i], kind, only)}
        IN  \E more \in IF ~full THEN {FALSE}
                        ELSE IF Page(table, kind, Last(InOrder(page))) = {}
                        THEN BOOLEAN ELSE {TRUE} :
              reader' = [reader EXCEPT ![c] =
                [pc |-> IF more THEN "more" ELSE "end",
                 kind |-> kind, only |-> only,
                 cursor |-> IF more THEN Last(InOrder(page)) ELSE cursor,
                 got |-> got \o InOrder(shown), steady |-> steady]]
  BY DEF ReadPage
<1> DEFINE page  == Page(table, kind, cursor)
           shown == {i \in page : Listable(table[i], kind, only)}
           last  == Last(InOrder(page))
           all   == got \o InOrder(shown)
<1>2. PICK more \in BOOLEAN :
        /\ ~more => Cardinality(page) # PageSize \/ Page(table, kind, last) = {}
        /\ more => Cardinality(page) = PageSize
        /\ reader' = [reader EXCEPT ![c] =
                [pc |-> IF more THEN "more" ELSE "end",
                 kind |-> kind, only |-> only,
                 cursor |-> IF more THEN last ELSE cursor,
                 got |-> all, steady |-> steady]]
  <2> HIDE DEF page, shown, last, all
  <2>1. \E more \in IF ~(Cardinality(page) = PageSize) THEN {FALSE}
                    ELSE IF Page(table, kind, last) = {} THEN BOOLEAN ELSE {TRUE} :
          reader' = [reader EXCEPT ![c] =
                [pc |-> IF more THEN "more" ELSE "end",
                 kind |-> kind, only |-> only,
                 cursor |-> IF more THEN last ELSE cursor,
                 got |-> all, steady |-> steady]]
    BY <1>1 DEF page, shown, last, all
  <2> QED BY <2>1
<1>3. \A i \in steady : Listable(table[i], kind, only)
  BY DEF SteadyNow
<1>4. /\ all \in Seq(Item) /\ IsInjective(all)
      /\ Cardinality(page) = PageSize =>
           /\ last \in Item
           /\ \A i \in ToSet(all) : i <= last
           /\ \A i \in steady : i <= last => i \in ToSet(all)
      /\ Cardinality(page) # PageSize \/ Page(table, kind, last) = {}
           => steady \subseteq ToSet(all)
  <2>1. /\ page = Page(table, kind, cursor) /\ all = got \o InOrder(shown)
        /\ shown = {i \in page : Listable(table[i], kind, only)}
        /\ last = Last(InOrder(page))
    OBVIOUS
  <2> HIDE DEF page, shown, last, all
  <2>2. TurnsPage(table, kind, only, cursor, got, steady, page, shown, all)
    BY <1>3, <2>1 DEF TurnsPage
  <2>3. /\ all \in Seq(Item) /\ IsInjective(all)
        /\ Cardinality(page) = PageSize =>
             /\ Last(InOrder(page)) \in Item
             /\ \A i \in ToSet(all) : i <= Last(InOrder(page))
             /\ \A i \in steady : i <= Last(InOrder(page)) => i \in ToSet(all)
        /\ Cardinality(page) # PageSize \/ Page(table, kind, Last(InOrder(page))) = {}
             => steady \subseteq ToSet(all)
    BY <2>2, PageCovers, Zenon
  <2> QED BY <2>1, <2>3
<1> HIDE DEF page, shown, last, all
<1> DEFINE l == [pc |-> IF more THEN "more" ELSE "end", kind |-> kind, only |-> only,
                 cursor |-> IF more THEN last ELSE cursor, got |-> all, steady |-> steady]
<1>5. /\ l.pc = (IF more THEN "more" ELSE "end") /\ l.kind = kind /\ l.only = only
      /\ l.cursor = (IF more THEN last ELSE cursor) /\ l.got = all /\ l.steady = steady
  OBVIOUS
<1>6. l \in Listing
  BY <1>2, <1>4 DEF Listing
<1>7. reader' = [reader EXCEPT ![c] = l]
  BY <1>2
<1> HIDE DEF l
<1>8. Covered(l)
  BY <1>2, <1>4, <1>5 DEF Covered
<1>9. \A k, o : SteadyNow(k, o)' = SteadyNow(k, o)
  BY DEF SteadyNow
<1>10. \A d \in Reader : Covered(reader'[d])
  BY <1>7, <1>8 DEF ListInv, TypeOK
<1> QED BY <1>6, <1>7, <1>9, <1>10 DEF TypeOK, ListInv, Covered

(***************************************************************************)
(* A write, or a replica that catches up, takes from the steady rows those *)
(* that are not to be listed any more.                                     *)
(***************************************************************************)
LEMMA SetTableKeeps ==
  ASSUME TypeOK, ListInv, NEW table \in [Item -> Row \cup {Nil}],
         NEW behind \in [Item -> Row \cup {Nil}], SetTable(table, behind)
  PROVE  replica' \in [Item -> Row \cup {Nil}] /\ reader' \in [Reader -> Listing] /\ ListInv'
<1> DEFINE Kept(l) == {i \in l.steady : /\ Listable(table[i], l.kind, l.only)
                                        /\ Listable(behind[i], l.kind, l.only)}
           New(c) == [reader[c] EXCEPT !.steady = Kept(reader[c])]
<1>1. /\ rows' = table /\ replica' = behind
      /\ reader' = [c \in Reader |-> New(c)]
  BY DEF SetTable
<1>2. ASSUME NEW c \in Reader
      PROVE  /\ New(c) \in Listing /\ New(c).pc = reader[c].pc /\ New(c).kind = reader[c].kind
             /\ New(c).only = reader[c].only /\ New(c).cursor = reader[c].cursor
             /\ New(c).got = reader[c].got /\ New(c).steady = Kept(reader[c])
  <2>1. reader[c] \in Listing
    BY DEF TypeOK
  <2>2. Kept(reader[c]) \in SUBSET Item
    BY <2>1 DEF Listing
  <2> HIDE DEF Kept
  <2> QED BY <2>1, <2>2 DEF Listing
<1>3. ASSUME NEW c \in Reader
      PROVE  Kept(reader[c]) \subseteq
               {i \in Item : /\ Listable(rows'[i], reader[c].kind, reader[c].only)
                             /\ Listable(replica'[i], reader[c].kind, reader[c].only)}
  <2>1. reader[c].steady \in SUBSET Item
    BY DEF TypeOK, Listing
  <2> QED BY <1>1, <2>1
<1>4. \A c \in Reader : Kept(reader[c]) \subseteq reader[c].steady
  OBVIOUS
<1> HIDE DEF New, Kept
<1>5. ASSUME NEW c \in Reader PROVE Covered(reader[c])'
  <2>1. reader'[c] = New(c)
    BY <1>1
  <2>2. Covered(reader[c])
    BY DEF ListInv
  <2> QED BY <1>2, <1>3, <1>4, <2>1, <2>2 DEF Covered, SteadyNow
<1> QED BY <1>1, <1>2, <1>5 DEF ListInv

(***************************************************************************)
(* The same of a write to one row.                                         *)
(***************************************************************************)
LEMMA WriteKeeps ==
  ASSUME TypeOK, ListInv, NEW i \in Item, NEW row \in Row \cup {Nil}, WriteRow(i, row)
  PROVE  replica' \in [Item -> Row \cup {Nil}] /\ reader' \in [Reader -> Listing] /\ ListInv'
<1> DEFINE table == [rows EXCEPT ![i] = row]
           behind == IF ReplicaLag THEN replica ELSE table
<1>1. table \in [Item -> Row \cup {Nil}]
  BY DEF TypeOK
<1> HIDE DEF table
<1>2. behind \in [Item -> Row \cup {Nil}]
  BY <1>1 DEF TypeOK
<1>3. SetTable(table, behind)
  BY DEF WriteRow, table
<1> HIDE DEF behind
<1> QED BY <1>1, <1>2, <1>3, SetTableKeeps

(***************************************************************************)
(* Every step keeps the types and what the lists cover: a page adds to its *)
(* own list, and what changes the table takes from the steady rows.        *)
(***************************************************************************)
LEMMA ListStep ==
  ASSUME IsFiniteSet(Item)
  PROVE  IInv /\ TypeOK /\ ListInv /\ [Next]_vars => TypeOK' /\ ListInv'
<1> SUFFICES ASSUME IInv, TypeOK, ListInv, [Next]_vars PROVE TypeOK' /\ ListInv'
  OBVIOUS
<1>1. RowTypes'
  BY StepInv DEF IInv
<1>2. SUFFICES /\ replica' \in [Item -> Row \cup {Nil}] /\ reader' \in [Reader -> Listing]
               /\ ListInv'
  BY <1>1 DEF TypeOK, RowTypes
<1>3. CASE UNCHANGED <<rows, replica, reader>>
  BY <1>3 DEF TypeOK, ListInv, Covered, SteadyNow
<1>4. ASSUME NEW i \in Item, NEW kind \in {"business", "service", "staff"},
             NEW on \in BOOLEAN \cup {Nil}, Insert(i, kind, on)
      PROVE  /\ replica' \in [Item -> Row \cup {Nil}] /\ reader' \in [Reader -> Listing]
             /\ ListInv'
  <2> DEFINE row == [kind |-> kind, active |-> (on # FALSE), log |-> {}]
  <2>1. row \in Row
    BY DEF Row, BusinessItem, ServiceItem, StaffItem
  <2>2. WriteRow(i, row)
    BY <1>4 DEF Insert
  <2> HIDE DEF row
  <2> QED BY <2>1, <2>2, WriteKeeps
<1>5. ASSUME NEW i \in Item, Replicate(i)
      PROVE  /\ replica' \in [Item -> Row \cup {Nil}] /\ reader' \in [Reader -> Listing]
             /\ ListInv'
  <2> DEFINE behind == [replica EXCEPT ![i] = rows[i]]
  <2>1. behind \in [Item -> Row \cup {Nil}] /\ rows \in [Item -> Row \cup {Nil}]
    BY DEF TypeOK
  <2>2. SetTable(rows, behind)
    BY <1>5 DEF Replicate
  <2> HIDE DEF behind
  <2> QED BY <2>1, <2>2, SetTableKeeps
<1>6. ASSUME NEW r \in Request, Write(r)
      PROVE  /\ replica' \in [Item -> Row \cup {Nil}] /\ reader' \in [Reader -> Listing]
             /\ ListInv'
  <2>1. CASE Save(r)
    <3>1. h[r].id \in Item /\ Patched(r) \in Row
      BY <2>1, PatchedFacts DEF Save, IInv, Holding
    <3> QED BY <2>1, <3>1, WriteKeeps DEF Save
  <2>2. ASSUME NEW i \in Item, DeleteService(r, i) \/ DeleteStaff(r, i), ~UNCHANGED <<rows, replica, reader>>
        PROVE  /\ replica' \in [Item -> Row \cup {Nil}] /\ reader' \in [Reader -> Listing]
               /\ ListInv'
    <3>1. WriteRow(i, Nil)
      BY <2>2 DEF DeleteService, DeleteStaff, Delete
    <3> QED BY <3>1, WriteKeeps
  <2>3. Save(r) \/ (\E i \in Item : DeleteService(r, i) \/ DeleteStaff(r, i))
          \/ UNCHANGED <<rows, replica, reader>>
    BY <1>6 DEF Write, PatchBusiness, PatchService, PatchStaff, Load, Fail
  <2> QED BY <1>3, <2>1, <2>2, <2>3
<1>7. ASSUME NEW c \in Reader, NEW kind \in {"service", "staff"}, NEW only \in BOOLEAN,
             Begin(c, kind, only)
      PROVE  /\ replica' \in [Item -> Row \cup {Nil}] /\ reader' \in [Reader -> Listing]
             /\ ListInv'
  <2> DEFINE got == <<>>
             steady == SteadyNow(kind, only)
  <2>1. /\ got \in Seq(Item) /\ IsInjective(got) /\ ToSet(got) = {}
        /\ steady \in SUBSET Item
    BY DEF IsInjective, ToSet, SteadyNow
  <2>2. \A i \in Item : ~(i <= 0)
    BY CatalogAssumption
  <2>3. ReadPage(c, kind, only, 0, got, steady) /\ UNCHANGED <<rows, replica>>
    BY <1>7 DEF Begin
  <2>4. GotUpTo(kind, only, 0, got, steady)
    <3>1. steady \subseteq SteadyNow(kind, only)
      OBVIOUS
    <3> HIDE DEF got, steady
    <3> QED BY <2>1, <2>2, <3>1 DEF GotUpTo
  <2> QED BY <2>3, <2>4, PageKeeps DEF TypeOK
<1>8. ASSUME NEW c \in Reader, NextPage(c)
      PROVE  /\ replica' \in [Item -> Row \cup {Nil}] /\ reader' \in [Reader -> Listing]
             /\ ListInv'
  <2> DEFINE l == reader[c]
  <2>1. /\ l.pc = "more"
        /\ ReadPage(c, l.kind, l.only, l.cursor, l.got, l.steady)
        /\ UNCHANGED <<rows, replica>>
    BY <1>8 DEF NextPage
  <2>2. l \in Listing /\ Covered(l)
    BY DEF TypeOK, ListInv
  <2> HIDE DEF l
  <2>3. /\ l.kind \in {"service", "staff"} /\ l.only \in BOOLEAN
        /\ l.cursor \in Item \cup {0} /\ l.got \in Seq(Item) /\ l.steady \in SUBSET Item
    BY <2>2 DEF Listing
  <2>4. /\ IsInjective(l.got) /\ \A i \in ToSet(l.got) : i <= l.cursor
        /\ \A i \in l.steady : i <= l.cursor => i \in ToSet(l.got)
        /\ l.steady \subseteq SteadyNow(l.kind, l.only)
    BY <2>1, <2>2 DEF Covered
  <2>5. GotUpTo(l.kind, l.only, l.cursor, l.got, l.steady)
    BY <2>3, <2>4 DEF GotUpTo
  <2> QED BY <2>1, <2>5, PageKeeps DEF TypeOK
<1>9. CASE UNCHANGED vars
  BY <1>3, <1>9 DEF vars
<1>10. ASSUME NEW i \in Item, Create(i)
       PROVE  /\ replica' \in [Item -> Row \cup {Nil}] /\ reader' \in [Reader -> Listing]
              /\ ListInv'
  BY <1>4, <1>10 DEF Create, RegisterBusiness, CreateService, CreateStaff
<1> QED BY <1>5, <1>6, <1>7, <1>8, <1>9, <1>10 DEF Next, ListServices, ListStaff

(***************************************************************************)
(* Nothing is listed at first.                                             *)
(***************************************************************************)
LEMMA ListInit == Init => TypeOK /\ ListInv
<1> SUFFICES ASSUME Init PROVE TypeOK /\ ListInv
  OBVIOUS
<1>1. IdleListing \in Listing
  BY DEF IdleListing, Listing
<1>2. Covered(IdleListing)
  BY DEF IdleListing, Covered, IsInjective
<1>3. ListInv
  BY <1>2 DEF Init, ListInv
<1>4. TypeOK
  BY <1>1, InitInv DEF IInv, RowTypes, TypeOK, Init
<1> QED BY <1>3, <1>4

(***************************************************************************)
(* The values of the catalog, its copies, replicas and lists have their    *)
(* types in every reachable state.                                         *)
(***************************************************************************)
THEOREM TypeCorrect ==
  ASSUME IsFiniteSet(Item)
  PROVE  Spec => []TypeOK
BY InitInv, StepInv, ListInit, ListStep, PTL DEF Spec

(***************************************************************************)
(* A client that follows next_cursor to its end got every row that was to  *)
(* be listed all the while, and no row twice, with any page size, filter,  *)
(* lag of the replica and writes between its pages.                        *)
(***************************************************************************)
THEOREM ListingAlwaysComplete ==
  ASSUME IsFiniteSet(Item)
  PROVE  Spec => []ListingComplete
<1>1. ListInv => ListingComplete
  BY DEF ListInv, Covered, ListingComplete
<1> QED BY <1>1, InitInv, StepInv, ListInit, ListStep, PTL DEF Spec
=============================================================================

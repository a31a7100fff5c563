-------------------------- MODULE IdempotentCreate --------------------------
(***************************************************************************)
(* What the Idempotency-Key header promises (openapi.yaml, "Unique key for *)
(* safe retries on booking/payment creation"): the first create of a key   *)
(* binds it to the entity it made, for ever; whoever is answered for that  *)
(* key is answered with that entity, and only its creator is told that it  *)
(* was created.                                                            *)
(*                                                                         *)
(* The id of a new entity is generated by the request that creates it, so  *)
(* the request stands for the id.                                          *)
(***************************************************************************)
CONSTANTS Request, Key, Unbound, NoKey

VARIABLES ledger,   \* Key -> the request that bound it, or Unbound
          asked,    \* Request -> the key it asked for, or NoKey
          answer    \* Request -> the entity and the created flag it was told

vars == <<ledger, asked, answer>>

Unanswered == [id |-> Unbound, created |-> FALSE]

Init ==
  /\ ledger = [k \in Key |-> Unbound]
  /\ asked = [r \in Request |-> NoKey]
  /\ answer = [r \in Request |-> Unanswered]

Ask(r, k) ==
  /\ asked[r] = NoKey
  /\ asked' = [asked EXCEPT ![r] = k]
  /\ UNCHANGED <<ledger, answer>>

Bind(r) ==
  /\ asked[r] # NoKey
  /\ ledger[asked[r]] = Unbound
  /\ ledger' = [ledger EXCEPT ![asked[r]] = r]
  /\ UNCHANGED <<asked, answer>>

Answer(r) ==
  /\ asked[r] # NoKey
  /\ ledger[asked[r]] # Unbound
  /\ answer[r] = Unanswered
  /\ answer' = [answer EXCEPT ![r] = [id |-> ledger[asked[r]],
                                      created |-> ledger[asked[r]] = r]]
  /\ UNCHANGED <<ledger, asked>>

Next == \E r \in Request : (\E k \in Key : Ask(r, k)) \/ Bind(r) \/ Answer(r)

Spec == Init /\ [][Next]_vars
=============================================================================

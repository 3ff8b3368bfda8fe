------------------------------ MODULE IdempotentKey ------------------------------
(***************************************************************************)
(* What an idempotency key promises to a client that repeats a request,    *)
(* with no row, no hash and no lookup in sight: the handler runs for one   *)
(* request at a time, takes effect at most once per request, and once a    *)
(* client was answered it does not run again until the key is renewed.     *)
(* It may take effect without an answer, so a repeated request may be      *)
(* charged twice, but only if nobody was answered.  Idempotency implements *)
(* this module.                                                            *)
(***************************************************************************)
CONSTANT Requests

VARIABLES
  holder,   \* the request that has the key: a set of at most one
  charged,  \* requests that took effect since the key was renewed
  answered  \* those whose client was given the handler's answer

kvars == <<holder, charged, answered>>

Init == holder = {} /\ charged = {} /\ answered = {}

Start(q) ==
  /\ holder = {} /\ answered = {} /\ q \notin charged
  /\ holder' = {q}
  /\ UNCHANGED <<charged, answered>>

\* The handler takes effect, and its client is told.
Serve(q) ==
  /\ holder = {q} /\ answered = {} /\ q \notin charged
  /\ charged' = charged \cup {q}
  /\ answered' = {q}
  /\ UNCHANGED holder

\* It takes effect and nobody is told; the process may die of it.
ChargeUnseen(q) ==
  /\ holder = {q} /\ answered = {} /\ q \notin charged
  /\ charged' = charged \cup {q}
  /\ holder' \in {{}, {q}}
  /\ UNCHANGED answered

Leave(q) ==
  /\ holder = {q}
  /\ holder' = {}
  /\ UNCHANGED <<charged, answered>>

Renew ==
  /\ holder = {}
  /\ charged' = {} /\ answered' = {}
  /\ UNCHANGED holder

Next ==
  \/ \E q \in Requests : Start(q) \/ Serve(q) \/ ChargeUnseen(q) \/ Leave(q)
  \/ Renew

Spec == Init /\ [][Next]_kvars
==================================================================================

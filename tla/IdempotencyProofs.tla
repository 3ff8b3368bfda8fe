--------------------------- MODULE IdempotencyProofs ---------------------------
(***************************************************************************)
(* The safety of Idempotency for any number of requests with the key, any  *)
(* hashes, and any number of faults, and that it implements IdempotentKey. *)
(***************************************************************************)
EXTENDS Idempotency, FiniteSetTheorems, TLAPS

Handling == {q \in Requests : pc[q] \in {"handle", "store", "delete"}}

AtMostOne(S) == \A x, y \in S : x = y

Types ==
  /\ record \subseteq Record /\ AtMostOne(record)
  /\ hash \in [Requests -> Hashes]
  /\ pc \in [Requests -> {"start", "create", "handle", "store", "delete", "end"}]
  /\ reply \in [Requests -> Reply]
  /\ faults \in 0 .. MaxFaults
  /\ charged \subseteq Requests

\* While a request is past the interceptor the row is the claim it made.
ClaimIsHeld ==
  \A q \in Handling :
    record = {[hash |-> hash[q], response |-> NoResponse, expired |-> FALSE]}

\* No reply before its time, and a response that waits to be stored is the client's
\* and of a request that took effect.
RepliesInTurn ==
  \A q \in Requests :
    /\ pc[q] \in {"start", "create", "handle", "delete"} => reply[q].kind = "none"
    /\ pc[q] = "store" => reply[q] = [kind |-> "fresh", from |-> q] /\ q \in charged

\* A stored response is the answer that a request which hashes as the row says got
\* since the key was last free.
ResponseIsGenuine ==
  \A row \in record : row.response # NoResponse =>
    /\ row.response \in charged
    /\ hash[row.response] = row.hash /\ reply[row.response].kind = "fresh"

IdempotencyInv ==
  /\ Types
  /\ AtMostOne(Handling)
  /\ ClaimIsHeld
  /\ RepliesInTurn
  /\ ResponseIsGenuine
  /\ AnsweredOnce

-------------------------------------------------------------------------------
(* Sets of at most one element *)

LEMMA CardinalityOfFew ==
  ASSUME NEW S, AtMostOne(S)
  PROVE  IsFiniteSet(S) /\ Cardinality(S) <= 1
<1>1. CASE S = {}
  BY <1>1, FS_EmptySet
<1>2. ASSUME NEW x \in S PROVE IsFiniteSet(S) /\ Cardinality(S) <= 1
  <2>1. S = {x}
    BY <1>2 DEF AtMostOne
  <2>2. IsFiniteSet({x}) /\ Cardinality({x}) = 1
    BY FS_Singleton
  <2> QED
    BY <2>1, <2>2
<1> QED
  BY <1>1, <1>2

LEMMA TypesAreTypeOK == Types => TypeOK
  BY CardinalityOfFew DEF Types, TypeOK

-------------------------------------------------------------------------------
(* Every step keeps the invariant *)

LEMMA IdempotencyInit == Init => IdempotencyInv
<1> SUFFICES ASSUME Init PROVE IdempotencyInv
  OBVIOUS
<1>1. Types
  <2>1. [kind |-> "none", from |-> NoResponse] \in Reply
    BY DEF Reply
  <2> QED
    BY <2>1, IdempotencyAssumption DEF Init, Types, AtMostOne
<1>2. \A q \in Requests : pc[q] = "start" /\ reply[q].kind = "none"
  BY DEF Init
<1>3. Handling = {}
  BY <1>2 DEF Handling
<1> QED
  BY <1>1, <1>2, <1>3
     DEF Init, IdempotencyInv, AtMostOne, ClaimIsHeld, RepliesInTurn, ResponseIsGenuine,
         AnsweredOnce

\* A well-formed reply leaves the replies well formed.
LEMMA ReplyTypes ==
  ASSUME Types, NEW q \in Requests, NEW answer \in Reply, reply' = [reply EXCEPT ![q] = answer]
  PROVE  reply' \in [Requests -> Reply]
  BY DEF Types

\* A request on the way out leaves what the others rely on: it moves to "end", and
\* the row, the hashes and what took effect stay.
LEMMA EndingKeeps ==
  ASSUME IdempotencyInv, NEW q \in Requests, Goto(q, "end"),
         UNCHANGED <<record, hash, charged>>,
         faults' \in 0 .. MaxFaults,
         \/ UNCHANGED reply
         \/ /\ pc[q] \in {"start", "create", "delete"}
            /\ \E kind \in {"conflict", "unprocessable", "error"} : Respond(q, kind, NoResponse)
         \/ /\ pc[q] = "start"
            /\ \E row \in record :
                 row.response # NoResponse /\ row.hash = hash[q] /\ Respond(q, "replay", row.response)
  PROVE  IdempotencyInv'
<1> USE DEF Goto
<1>1. /\ pc'[q] = "end" /\ \A r \in Requests : r # q => pc'[r] = pc[r]
      /\ Handling' = Handling \ {q} /\ Alive' = Alive \ {q}
  BY DEF IdempotencyInv, Types, Handling, Alive
<1>2. \A r \in Requests : r # q => reply'[r] = reply[r]
  BY DEF IdempotencyInv, Types, Respond
<1>3. reply[q].kind = "fresh" => UNCHANGED reply
  BY DEF IdempotencyInv, RepliesInTurn
<1>4. reply'[q].kind = "fresh" => reply[q].kind = "fresh" /\ reply'[q] = reply[q]
  BY DEF IdempotencyInv, Types, Respond
<1>5. Types'
  <2>1. \A row \in record : row.response \in Requests \cup {NoResponse}
    BY DEF IdempotencyInv, Types, Record
  <2>2. /\ \A kind \in {"conflict", "unprocessable", "error"} :
             [kind |-> kind, from |-> NoResponse] \in Reply
        /\ \A r \in Requests : [kind |-> "replay", from |-> r] \in Reply
    BY DEF Reply
  <2>3. reply' \in [Requests -> Reply]
    <3>1. CASE UNCHANGED reply
      BY <3>1 DEF IdempotencyInv, Types
    <3>2. ASSUME NEW answer \in Reply, reply' = [reply EXCEPT ![q] = answer]
          PROVE  reply' \in [Requests -> Reply]
      BY <3>2, ReplyTypes DEF IdempotencyInv
    <3> QED
      BY <2>1, <2>2, <3>1, <3>2 DEF Respond
  <2>4. pc' \in [Requests -> {"start", "create", "handle", "store", "delete", "end"}]
    BY DEF IdempotencyInv, Types
  <2> QED
    BY <2>3, <2>4 DEF IdempotencyInv, Types
<1>6. AtMostOne(Handling') /\ ClaimIsHeld'
  BY <1>1 DEF IdempotencyInv, AtMostOne, ClaimIsHeld
<1>7. RepliesInTurn'
  <2>1. ASSUME NEW r \in Requests, r # q
        PROVE  pc'[r] = pc[r] /\ reply'[r] = reply[r]
    BY <1>1, <1>2, <2>1
  <2>2. RepliesInTurn
    BY DEF IdempotencyInv
  <2> QED
    BY <1>1, <2>1, <2>2 DEF RepliesInTurn
<1>8. \A r \in Requests : reply[r].kind = "fresh" <=> reply'[r].kind = "fresh"
  BY <1>2, <1>3, <1>4
<1>9. ResponseIsGenuine'
  BY <1>8 DEF IdempotencyInv, Types, Record, ResponseIsGenuine
<1>10. AnsweredOnce'
  BY <1>1, <1>8 DEF IdempotencyInv, Types, AnsweredOnce
<1> QED
  BY <1>5, <1>6, <1>7, <1>9, <1>10 DEF IdempotencyInv

LEMMA LookupKeeps ==
  ASSUME IdempotencyInv, NEW q \in Requests, Lookup(q)
  PROVE  IdempotencyInv'
<1>1. CASE record = {} /\ Goto(q, "create") /\ UNCHANGED reply
  <2>1. Types' /\ Handling' = Handling
    BY <1>1 DEF Lookup, Goto, IdempotencyInv, Types, Handling
  <2>2. RepliesInTurn'
    BY <1>1 DEF Lookup, Goto, IdempotencyInv, Types, RepliesInTurn
  <2>3. AnsweredOnce'
    BY <1>1 DEF Lookup, Goto, IdempotencyInv, Types, AnsweredOnce
  <2> QED
    BY <1>1, <2>1, <2>2, <2>3
       DEF Lookup, IdempotencyInv, AtMostOne, ClaimIsHeld, ResponseIsGenuine
<1>2. CASE record # {}
  <2>1. PICK row \in record :
          /\ Goto(q, "end")
          /\ \/ row.hash # hash[q] /\ Respond(q, "unprocessable", NoResponse)
             \/ /\ row.hash = hash[q]
                /\ IF row.response = NoResponse THEN Respond(q, "conflict", NoResponse)
                   ELSE Respond(q, "replay", row.response)
    BY <1>2 DEF Lookup
  <2>2. faults' \in 0 .. MaxFaults
    BY DEF Lookup, IdempotencyInv, Types
  <2>3. pc[q] = "start" /\ UNCHANGED <<record, hash, charged>>
    BY DEF Lookup
  <2> QED
    BY <2>1, <2>2, <2>3, EndingKeeps
<1> QED
  BY <1>1, <1>2 DEF Lookup

\* The row was absent, so nobody is past the interceptor, nobody was answered, and q
\* may go on or be told of an error.
LEMMA ClaimKeeps ==
  ASSUME IdempotencyInv, NEW q \in Requests, record = {}, Claim(q), pc[q] = "create",
         faults' \in 0 .. MaxFaults, UNCHANGED <<hash, charged>>,
         \/ Goto(q, "handle") /\ UNCHANGED reply
         \/ Goto(q, "end") /\ Fail(q)
  PROVE  IdempotencyInv'
<1> DEFINE row == [hash |-> hash[q], response |-> NoResponse, expired |-> FALSE]
<1>1. record' = {row} /\ row \in Record /\ row.response = NoResponse
  BY DEF Claim, IdempotencyInv, Types, Record
<1>2. Handling = {}
  BY DEF IdempotencyInv, ClaimIsHeld
<1>3. \A r \in charged : reply[r].kind # "fresh"
  BY DEF IdempotencyInv, AnsweredOnce
<1>4. /\ pc'[q] \in {"handle", "end"} /\ \A r \in Requests : r # q => pc'[r] = pc[r]
      /\ reply'[q].kind \in {"none", "error"} /\ \A r \in Requests : r # q => reply'[r] = reply[r]
      /\ reply[q].kind = "none"
      /\ pc'[q] = "handle" => reply'[q].kind = "none"
  BY DEF Goto, Fail, Respond, IdempotencyInv, Types, RepliesInTurn
<1>5. Handling' \subseteq {q}
  BY <1>2, <1>4 DEF Handling
<1>6. Types'
  <2>1. record' \subseteq Record /\ AtMostOne(record')
    BY <1>1 DEF AtMostOne
  <2>2. [kind |-> "error", from |-> NoResponse] \in Reply
    BY DEF Reply
  <2> QED
    BY <2>1, <2>2 DEF IdempotencyInv, Types, Goto, Fail, Respond
<1>7. AtMostOne(Handling') /\ ClaimIsHeld'
  BY <1>1, <1>5 DEF AtMostOne, ClaimIsHeld
<1>8. RepliesInTurn'
  BY <1>4 DEF IdempotencyInv, RepliesInTurn
<1>9. ResponseIsGenuine'
  BY <1>1 DEF ResponseIsGenuine
<1>10. AnsweredOnce'
  BY <1>3, <1>4 DEF IdempotencyInv, Types, AnsweredOnce
<1> QED
  BY <1>6, <1>7, <1>8, <1>9, <1>10 DEF IdempotencyInv

LEMMA CreateKeeps ==
  ASSUME IdempotencyInv, NEW q \in Requests, Create(q)
  PROVE  IdempotencyInv'
<1>1. pc[q] = "create" /\ UNCHANGED <<hash, charged>>
  BY DEF Create
<1>2. faults' \in 0 .. MaxFaults
  BY IdempotencyAssumption DEF Create, Fault, IdempotencyInv, Types
<1>3. CASE record = {} /\ Claim(q)
  <2>1. \/ Goto(q, "handle") /\ UNCHANGED reply
        \/ Goto(q, "end") /\ Fail(q)
    BY <1>3 DEF Create
  <2> QED
    BY <1>1, <1>2, <1>3, <2>1, ClaimKeeps
<1>4. CASE ~(record = {} /\ Claim(q))
  <2>1. /\ Goto(q, "end") /\ UNCHANGED record
        /\ \E kind \in {"conflict", "unprocessable", "error"} : Respond(q, kind, NoResponse)
    BY <1>4 DEF Create, Fail
  <2> QED
    BY <1>1, <1>2, <2>1, EndingKeeps
<1> QED
  BY <1>3, <1>4

LEMMA HandleKeeps ==
  ASSUME IdempotencyInv, NEW q \in Requests, Handle(q)
  PROVE  IdempotencyInv'
<1>1. pc[q] = "handle" /\ UNCHANGED <<record, hash>> /\ q \in Handling /\ reply[q].kind = "none"
  BY DEF Handle, Handling, IdempotencyInv, RepliesInTurn
<1>2. /\ pc'[q] \in {"store", "delete"} /\ \A r \in Requests : r # q => pc'[r] = pc[r]
      /\ charged' \in {charged, charged \cup {q}}
      /\ \A r \in Requests : r # q => reply'[r] = reply[r]
      /\ pc'[q] = "store" => reply'[q] = [kind |-> "fresh", from |-> q] /\ q \in charged'
      /\ pc'[q] = "delete" => UNCHANGED reply
  BY DEF Handle, Goto, Respond, IdempotencyInv, Types
<1>3. Handling' = Handling /\ Alive' = Alive
  BY <1>1, <1>2 DEF Handling, Alive
<1>4. Handling = {q}
  BY <1>1 DEF IdempotencyInv, AtMostOne
<1>5. record # {}
  BY <1>1 DEF IdempotencyInv, ClaimIsHeld
<1>6. Types'
  <2>1. [kind |-> "fresh", from |-> q] \in Reply
    BY DEF Reply
  <2>2. faults' \in 0 .. MaxFaults
    BY IdempotencyAssumption DEF Handle, Fault, IdempotencyInv, Types
  <2> QED
    BY <2>1, <2>2 DEF IdempotencyInv, Types, Handle, Goto, Respond
<1>7. AtMostOne(Handling') /\ ClaimIsHeld'
  BY <1>1, <1>3 DEF IdempotencyInv, ClaimIsHeld
<1>8. RepliesInTurn'
  BY <1>1, <1>2 DEF IdempotencyInv, RepliesInTurn
<1>9. \A r \in Requests : r # q \/ pc'[q] = "delete" => reply'[r] = reply[r]
  BY <1>2
<1>10. ResponseIsGenuine'
  BY <1>1, <1>2, <1>9 DEF IdempotencyInv, Types, Record, ResponseIsGenuine
<1>11. \A r \in charged : reply[r].kind # "fresh"
  <2>1. q \in Alive /\ pc[q] # "create"
    BY <1>1 DEF Alive
  <2> QED
    BY <1>1, <2>1 DEF IdempotencyInv, AnsweredOnce
<1>12. Alive \subseteq {q} \cup {r \in Requests : pc[r] = "create"}
  BY <1>4 DEF Alive, Handling
<1>13. \A r \in charged' : reply'[r].kind = "fresh" => r = q
  BY <1>2, <1>11 DEF IdempotencyInv, Types
<1>14. AnsweredOnce'
  BY <1>1, <1>2, <1>3, <1>5, <1>12, <1>13 DEF AnsweredOnce
<1> QED
  BY <1>6, <1>7, <1>8, <1>10, <1>14 DEF IdempotencyInv

\* The row q claimed is filled in; it was the only one.
LEMMA StoreKeeps ==
  ASSUME IdempotencyInv, NEW q \in Requests, Store(q)
  PROVE  IdempotencyInv'
<1>1. /\ pc[q] = "store" /\ Goto(q, "end") /\ UNCHANGED <<hash, reply, charged>>
      /\ faults' \in 0 .. MaxFaults
  BY IdempotencyAssumption DEF Store, Fault, IdempotencyInv, Types
<1>2. CASE UNCHANGED record
  BY <1>1, <1>2, EndingKeeps
<1>3. CASE record' = {[row EXCEPT !.response = q] : row \in record}
  <2> DEFINE claim == [hash |-> hash[q], response |-> NoResponse, expired |-> FALSE]
             row == [claim EXCEPT !.response = q]
  <2>1. q \in Handling
    BY <1>1 DEF Handling
  <2>2. record = {claim}
    BY <2>1 DEF IdempotencyInv, ClaimIsHeld
  <2>3. record' = {row}
    BY <1>3, <2>2
  <2>4. row \in Record /\ row.hash = hash[q] /\ row.response = q
    <3>1. claim \in Record /\ claim.hash = hash[q]
      BY <2>2 DEF IdempotencyInv, Types
    <3> HIDE DEF claim
    <3> QED
      BY <3>1 DEF Record
  <2>5. /\ pc'[q] = "end" /\ \A r \in Requests : r # q => pc'[r] = pc[r]
        /\ Handling' = {}
        /\ Alive' = Alive \ {q}
    BY <1>1, <2>1 DEF Goto, IdempotencyInv, Types, Handling, Alive, AtMostOne
  <2>6. Types'
    <3>1. record' \subseteq Record /\ AtMostOne(record')
      BY <2>3, <2>4 DEF AtMostOne
    <3> QED
      BY <1>1, <3>1 DEF IdempotencyInv, Types, Goto
  <2>7. RepliesInTurn'
    BY <1>1, <2>5 DEF IdempotencyInv, RepliesInTurn
  <2>8. ResponseIsGenuine'
    <3>1. reply[q] = [kind |-> "fresh", from |-> q] /\ q \in charged
      BY <1>1 DEF IdempotencyInv, RepliesInTurn
    <3> QED
      BY <1>1, <2>3, <2>4, <3>1 DEF ResponseIsGenuine
  <2>9. AnsweredOnce'
    BY <1>1, <2>3, <2>5 DEF IdempotencyInv, Types, AnsweredOnce
  <2> QED
    BY <2>5, <2>6, <2>7, <2>8, <2>9 DEF IdempotencyInv, AtMostOne, ClaimIsHeld
<1> QED
  BY <1>2, <1>3 DEF Store

\* q was not answered and nobody else has been since it claimed the row, so giving
\* the row up frees nobody's answer.
LEMMA DeleteKeeps ==
  ASSUME IdempotencyInv, NEW q \in Requests, Delete(q)
  PROVE  IdempotencyInv'
<1>1. /\ pc[q] = "delete" /\ Goto(q, "end") /\ Fail(q) /\ UNCHANGED <<hash, charged>>
      /\ faults' \in 0 .. MaxFaults
  BY IdempotencyAssumption DEF Delete, Fault, IdempotencyInv, Types
<1>2. CASE UNCHANGED record
  BY <1>1, <1>2, EndingKeeps DEF Fail
<1>3. CASE record' = {}
  <2>1. q \in Handling /\ q \in Alive /\ pc[q] # "create" /\ reply[q].kind = "none"
    BY <1>1 DEF Handling, Alive, IdempotencyInv, RepliesInTurn
  <2>2. /\ pc'[q] = "end" /\ \A r \in Requests : r # q => pc'[r] = pc[r]
        /\ Handling' = {}
    BY <1>1, <2>1 DEF Goto, IdempotencyInv, Types, Handling, AtMostOne
  <2>3. reply'[q].kind = "error" /\ \A r \in Requests : r # q => reply'[r] = reply[r]
    BY <1>1 DEF Fail, Respond, IdempotencyInv, Types
  <2>4. Types'
    <3>1. [kind |-> "error", from |-> NoResponse] \in Reply
      BY DEF Reply
    <3>2. reply' \in [Requests -> Reply]
      BY <1>1, <3>1, ReplyTypes DEF IdempotencyInv, Fail, Respond
    <3>3. pc' \in [Requests -> {"start", "create", "handle", "store", "delete", "end"}]
      BY <1>1 DEF IdempotencyInv, Types, Goto
    <3> QED
      BY <1>1, <1>3, <3>2, <3>3 DEF IdempotencyInv, Types, AtMostOne
  <2>5. RepliesInTurn'
    <3>1. RepliesInTurn
      BY DEF IdempotencyInv
    <3> QED
      BY <1>1, <2>2, <2>3, <3>1 DEF RepliesInTurn
  <2>6. \A r \in charged : reply[r].kind # "fresh"
    BY <2>1 DEF IdempotencyInv, AnsweredOnce
  <2>7. AnsweredOnce'
    BY <1>1, <2>3, <2>6 DEF IdempotencyInv, Types, AnsweredOnce
  <2> QED
    BY <1>3, <2>2, <2>4, <2>5, <2>7
       DEF IdempotencyInv, AtMostOne, ClaimIsHeld, ResponseIsGenuine
<1> QED
  BY <1>2, <1>3 DEF Delete

\* What a crashed request had claimed stays claimed; an effect nobody was told of
\* answers nobody.
LEMMA CrashKeeps ==
  ASSUME IdempotencyInv, NEW q \in Requests, Crash(q)
  PROVE  IdempotencyInv'
<1>1. /\ Goto(q, "end") /\ UNCHANGED <<record, hash, reply>>
      /\ faults' \in 0 .. MaxFaults
  BY IdempotencyAssumption DEF Crash, Fault, IdempotencyInv, Types
<1>2. CASE UNCHANGED charged
  BY <1>1, <1>2, EndingKeeps
<1>3. CASE pc[q] = "handle" /\ charged' = charged \cup {q}
  <2>1. reply[q].kind = "none"
    BY <1>3 DEF IdempotencyInv, RepliesInTurn
  <2>2. /\ pc'[q] = "end" /\ \A r \in Requests : r # q => pc'[r] = pc[r]
        /\ Handling' = Handling \ {q} /\ Alive' = Alive \ {q}
    BY <1>1 DEF Goto, IdempotencyInv, Types, Handling, Alive
  <2>3. Types'
    BY <1>1, <1>3 DEF IdempotencyInv, Types, Goto
  <2>4. AtMostOne(Handling') /\ ClaimIsHeld' /\ RepliesInTurn'
    BY <1>1, <1>3, <2>2 DEF IdempotencyInv, AtMostOne, ClaimIsHeld, RepliesInTurn
  <2>5. ResponseIsGenuine'
    BY <1>1, <1>3 DEF IdempotencyInv, ResponseIsGenuine
  <2>6. AnsweredOnce'
    BY <1>1, <1>3, <2>1, <2>2 DEF IdempotencyInv, Types, AnsweredOnce
  <2> QED
    BY <2>3, <2>4, <2>5, <2>6 DEF IdempotencyInv
<1> QED
  BY <1>2, <1>3 DEF Crash

LEMMA ExpireKeeps ==
  ASSUME IdempotencyInv, Expire
  PROVE  IdempotencyInv'
<1>1. /\ Handling = {} /\ record # {} /\ UNCHANGED <<hash, pc, reply, faults, charged>>
      /\ record' = {[row EXCEPT !.expired = TRUE] : row \in record}
  BY DEF Expire, Alive, Handling
<1>2. Handling' = {} /\ Alive' = Alive /\ record' # {}
  BY <1>1 DEF Handling, Alive
<1>3. Types'
  <2>1. record' \subseteq Record
    <3>1. \A row \in Record : [row EXCEPT !.expired = TRUE] \in Record
      BY DEF Record
    <3> QED
      BY <1>1, <3>1 DEF IdempotencyInv, Types
  <2>2. AtMostOne(record')
    BY <1>1 DEF IdempotencyInv, Types, AtMostOne
  <2> QED
    BY <1>1, <2>1, <2>2 DEF IdempotencyInv, Types
<1>4. \A new \in record' : \E row \in record : new.hash = row.hash /\ new.response = row.response
  BY <1>1 DEF IdempotencyInv, Types, Record
<1>5. ResponseIsGenuine'
  BY <1>1, <1>4 DEF IdempotencyInv, ResponseIsGenuine
<1>6. RepliesInTurn' /\ AnsweredOnce'
  BY <1>1, <1>2 DEF IdempotencyInv, RepliesInTurn, AnsweredOnce
<1> QED
  BY <1>2, <1>3, <1>5, <1>6 DEF IdempotencyInv, AtMostOne, ClaimIsHeld

LEMMA PurgeKeeps ==
  ASSUME IdempotencyInv, Purge
  PROVE  IdempotencyInv'
<1>1. /\ charged' = {} /\ UNCHANGED <<hash, pc, reply, faults>>
      /\ \E row \in record : row.expired
  BY DEF Purge
<1>2. record' = {}
  BY DEF Purge, IdempotencyInv, Types, AtMostOne
<1>3. Handling = {}
  BY <1>1 DEF IdempotencyInv, ClaimIsHeld
<1>4. Handling' = {}
  BY <1>1, <1>3 DEF Handling
<1>5. Types'
  BY <1>1, <1>2 DEF IdempotencyInv, Types, AtMostOne
<1>6. RepliesInTurn'
  BY <1>1, <1>3 DEF IdempotencyInv, RepliesInTurn, Handling
<1>7. ResponseIsGenuine' /\ AnsweredOnce'
  BY <1>1, <1>2 DEF ResponseIsGenuine, AnsweredOnce
<1> QED
  BY <1>4, <1>5, <1>6, <1>7 DEF IdempotencyInv, AtMostOne, ClaimIsHeld

LEMMA IdempotencyNext == IdempotencyInv /\ [Next]_vars => IdempotencyInv'
<1> SUFFICES ASSUME IdempotencyInv, [Next]_vars PROVE IdempotencyInv'
  OBVIOUS
<1>1. ASSUME NEW q \in Requests, Intercept(q) PROVE IdempotencyInv'
  BY <1>1, LookupKeeps, CreateKeeps, HandleKeeps, StoreKeeps, DeleteKeeps DEF Intercept
<1>2. ASSUME NEW q \in Requests, Crash(q) PROVE IdempotencyInv'
  BY <1>2, CrashKeeps
<1>3. CASE Expire \/ Purge
  BY <1>3, ExpireKeeps, PurgeKeeps
<1>4. CASE UNCHANGED vars
  <2>1. Handling' = Handling /\ Alive' = Alive
    BY <1>4 DEF vars, Handling, Alive
  <2> QED
    BY <1>4, <2>1
       DEF vars, IdempotencyInv, Types, AtMostOne, ClaimIsHeld, RepliesInTurn,
           ResponseIsGenuine, AnsweredOnce
<1> QED
  BY <1>1, <1>2, <1>3, <1>4 DEF Next

LEMMA IdempotencyIsSafe == Spec => []IdempotencyInv
  BY IdempotencyInit, IdempotencyNext, PTL DEF Spec

-------------------------------------------------------------------------------
(* The theorems *)

\* TypeOK: for one, the key never has two rows.
THEOREM TypeCorrect == Spec => []TypeOK
<1>1. IdempotencyInv => TypeOK
  BY TypesAreTypeOK DEF IdempotencyInv
<1> QED
  BY <1>1, IdempotencyIsSafe, PTL

\* OneHandlerAtATime: however lookups, claims, failed writes and crashes interleave,
\* two requests with the key are never behind the interceptor together.
THEOREM HandlersExclude == Spec => []OneHandlerAtATime
<1>1. IdempotencyInv => OneHandlerAtATime
  BY CardinalityOfFew DEF IdempotencyInv, Handling, OneHandlerAtATime
<1> QED
  BY <1>1, IdempotencyIsSafe, PTL

\* ReplaysTheAnswer: whatever was given back, purged and claimed anew, a replay is
\* the answer of the key's present life, and goes to a request that hashes alike.
THEOREM ReplaySafe == Spec => ReplaysTheAnswer
<1>1. IdempotencyInv /\ [Next]_vars =>
        [\A q \in Requests : reply'[q].kind = "replay" /\ reply[q].kind # "replay" =>
           LET first == reply'[q].from IN
           first \in charged /\ reply[first].kind = "fresh" /\ hash[first] = hash[q]]_vars
  <2> SUFFICES ASSUME IdempotencyInv, Next, NEW q \in Requests,
                      reply'[q].kind = "replay", reply[q].kind # "replay"
               PROVE  LET first == reply'[q].from IN
                      first \in charged /\ reply[first].kind = "fresh" /\ hash[first] = hash[q]
    OBVIOUS
  <2>1. reply \in [Requests -> Reply]
    BY DEF IdempotencyInv, Types
  <2>2. Lookup(q)
    <3>1. ASSUME NEW r \in Requests, Intercept(r) \/ Crash(r), ~Lookup(q) PROVE FALSE
      BY <2>1, <3>1 DEF Intercept, Lookup, Create, Handle, Store, Delete, Crash, Respond, Fail
    <3> QED
      BY <3>1 DEF Next, Expire, Purge
  <2>3. PICK row \in record :
          row.response # NoResponse /\ row.hash = hash[q] /\ Respond(q, "replay", row.response)
    BY <2>1, <2>2 DEF Lookup, Respond
  <2>4. reply'[q].from = row.response
    BY <2>1, <2>3 DEF Respond
  <2> QED
    BY <2>3, <2>4 DEF IdempotencyInv, ResponseIsGenuine
<1> QED
  BY <1>1, IdempotencyIsSafe, PTL DEF Spec, ReplaysTheAnswer

\* AnsweredOnce: between two purges an answered client's request is the only one
\* that takes effect from then on.
THEOREM AnsweredSafe == Spec => []AnsweredOnce
<1>1. IdempotencyInv => AnsweredOnce
  BY DEF IdempotencyInv
<1> QED
  BY <1>1, IdempotencyIsSafe, PTL

-------------------------------------------------------------------------------
(* The interceptor as a key that one request has at a time *)

Answered == {q \in charged : reply[q].kind = "fresh"}

\* A request takes effect on its way out of the handler.
ChargedAreThrough == \A q \in charged : pc[q] \in {"store", "delete", "end"}

KeyInv == IdempotencyInv /\ ChargedAreThrough

LEMMA KeyParts ==
  ASSUME KeyInv
  PROVE  /\ pc \in [Requests -> {"start", "create", "handle", "store", "delete", "end"}]
         /\ reply \in [Requests -> Reply] /\ charged \subseteq Requests
         /\ \A x, y \in Handling : x = y
         /\ Handling # {} => record # {}
         /\ \A q \in Requests :
              pc[q] \in {"start", "create", "handle", "delete"} => reply[q].kind = "none"
         /\ \A q \in Answered :
              record # {} /\ Alive \subseteq {q} \cup {r \in Requests : pc[r] = "create"}
BY DEF KeyInv, IdempotencyInv, Types, AtMostOne, ClaimIsHeld, RepliesInTurn, AnsweredOnce, Answered

\* A request leaves without effect, or never had the key: the answers stand.
LEMMA EndingLeaves ==
  ASSUME KeyInv, NEW q \in Requests, Goto(q, "end"), UNCHANGED charged,
         \A r \in Requests \ {q} : reply'[r] = reply[r],
         reply'[q].kind = "fresh" <=> reply[q].kind = "fresh"
  PROVE  ChargedAreThrough' /\ (K!Leave(q) \/ UNCHANGED K!kvars)
<1>1. /\ pc'[q] = "end" /\ \A r \in Requests : r # q => pc'[r] = pc[r]
  BY KeyParts DEF Goto
<1>2. Handling' = Handling \ {q}
  BY <1>1 DEF Handling
<1>3. Answered' = Answered
  BY KeyParts DEF Answered
<1>4. ChargedAreThrough'
  BY <1>1, KeyParts DEF KeyInv, ChargedAreThrough
<1>5. Handling = {q} \/ q \notin Handling
  BY KeyParts
<1>6. Handling = {q} => K!Leave(q)
  BY <1>2, <1>3 DEF K!Leave, Handling, Answered
<1>7. q \notin Handling => UNCHANGED K!kvars
  BY <1>2, <1>3 DEF K!kvars, Handling, Answered
<1> QED
  BY <1>4, <1>5, <1>6, <1>7

\* Looking up, and every refusal.
LEMMA LookupIsInternal ==
  ASSUME KeyInv, NEW q \in Requests, Lookup(q)
  PROVE  ChargedAreThrough' /\ (K!Leave(q) \/ UNCHANGED K!kvars)
<1>1. pc[q] = "start" /\ reply[q].kind = "none" /\ UNCHANGED charged
  BY KeyParts DEF Lookup
<1>2. CASE Goto(q, "create") /\ UNCHANGED reply
  <2>1. /\ pc'[q] = "create" /\ \A r \in Requests : r # q => pc'[r] = pc[r]
    BY <1>2, KeyParts DEF Goto
  <2>2. Handling' = Handling /\ Answered' = Answered
    BY <1>1, <1>2, <2>1 DEF Handling, Answered
  <2>3. q \notin charged
    BY <1>1 DEF KeyInv, ChargedAreThrough
  <2>4. ChargedAreThrough'
    BY <1>1, <2>1, <2>3, KeyParts DEF KeyInv, ChargedAreThrough
  <2> QED
    BY <1>1, <2>2, <2>4 DEF K!kvars, Handling, Answered
<1>3. CASE Goto(q, "end") /\ \E kind \in {"conflict", "unprocessable", "replay"} :
                               \E from : Respond(q, kind, from)
  <2>1. reply'[q].kind # "fresh" /\ \A r \in Requests \ {q} : reply'[r] = reply[r]
    BY <1>3, KeyParts DEF Respond
  <2> QED
    BY <1>1, <1>3, <2>1, EndingLeaves
<1> QED
  BY <1>2, <1>3 DEF Lookup

\* The key is free when the insert succeeds: no row, so no handler and no answer.
LEMMA CreateStarts ==
  ASSUME KeyInv, NEW q \in Requests, Create(q)
  PROVE  ChargedAreThrough' /\ (K!Start(q) \/ K!Leave(q) \/ UNCHANGED K!kvars)
<1>1. pc[q] = "create" /\ reply[q].kind = "none" /\ UNCHANGED charged
  BY KeyParts DEF Create
<1>2. CASE record = {} /\ Goto(q, "handle") /\ UNCHANGED reply
  <2>1. /\ pc'[q] = "handle" /\ \A r \in Requests : r # q => pc'[r] = pc[r]
    BY <1>2, KeyParts DEF Goto
  <2>2. Handling = {} /\ Answered = {}
    BY <1>2, KeyParts
  <2>3. Handling' = {q}
    BY <2>1, <2>2 DEF Handling
  <2>4. Answered' = Answered
    BY <1>1, <1>2 DEF Answered
  <2>5. q \notin charged
    BY <1>1 DEF KeyInv, ChargedAreThrough
  <2>6. ChargedAreThrough'
    BY <1>1, <2>1, <2>5, KeyParts DEF KeyInv, ChargedAreThrough
  <2>7. K!Start(q)
    BY <1>1, <2>2, <2>3, <2>4, <2>5 DEF K!Start, Handling, Answered
  <2> QED
    BY <2>6, <2>7
<1>3. CASE Goto(q, "end") /\ \E kind \in {"conflict", "error"} : Respond(q, kind, NoResponse)
  <2>1. reply'[q].kind # "fresh" /\ \A r \in Requests \ {q} : reply'[r] = reply[r]
    BY <1>3, KeyParts DEF Respond
  <2> QED
    BY <1>1, <1>3, <2>1, EndingLeaves
<1> QED
  BY <1>2, <1>3 DEF Create, Fail

\* While a request is at the handler nobody was answered yet.
LEMMA NobodyAnswered ==
  ASSUME KeyInv, NEW q \in Requests, pc[q] = "handle"
  PROVE  Handling = {q} /\ Answered = {} /\ q \notin charged /\ reply[q].kind = "none"
<1>1. q \in Handling /\ q \in Alive /\ reply[q].kind = "none"
  BY KeyParts DEF Handling, Alive
<1>2. Answered = {}
  BY <1>1, KeyParts DEF Answered
<1> QED
  BY <1>1, <1>2, KeyParts DEF KeyInv, ChargedAreThrough

LEMMA HandleServes ==
  ASSUME KeyInv, NEW q \in Requests, Handle(q)
  PROVE  ChargedAreThrough' /\ (K!Serve(q) \/ K!ChargeUnseen(q) \/ UNCHANGED K!kvars)
<1>1. /\ pc[q] = "handle" /\ charged' \in {charged, charged \cup {q}}
      /\ Handling = {q} /\ Answered = {} /\ q \notin charged /\ reply[q].kind = "none"
  BY NobodyAnswered DEF Handle
<1>2. /\ pc'[q] \in {"store", "delete"} /\ \A r \in Requests : r # q => pc'[r] = pc[r]
  BY KeyParts DEF Handle, Goto
<1>3. Handling' = Handling
  BY <1>1, <1>2 DEF Handling
<1>4. ChargedAreThrough'
  BY <1>1, <1>2, KeyParts DEF KeyInv, ChargedAreThrough
<1>5. CASE Respond(q, "fresh", q) /\ charged' = charged \cup {q}
  <2>1. reply'[q].kind = "fresh" /\ \A r \in Requests : r # q => reply'[r] = reply[r]
    BY <1>5, KeyParts DEF Respond
  <2>2. Answered' = {q}
    BY <1>1, <1>5, <2>1, KeyParts DEF Answered
  <2>3. K!Serve(q)
    BY <1>1, <1>3, <1>5, <2>2 DEF K!Serve, Handling, Answered
  <2> QED
    BY <1>4, <2>3
<1>6. CASE UNCHANGED reply /\ charged' = charged \cup {q}
  <2>1. Answered' = Answered
    BY <1>1, <1>6 DEF Answered
  <2>2. K!ChargeUnseen(q)
    BY <1>1, <1>3, <1>6, <2>1 DEF K!ChargeUnseen, Handling, Answered
  <2> QED
    BY <1>4, <2>2
<1>7. CASE UNCHANGED <<reply, charged>>
  <2>1. Answered' = Answered
    BY <1>7 DEF Answered
  <2> QED
    BY <1>3, <1>4, <1>7, <2>1 DEF K!kvars, Handling, Answered
<1> QED
  BY <1>5, <1>6, <1>7 DEF Handle

LEMMA CrashLeaves ==
  ASSUME KeyInv, NEW q \in Requests, Crash(q)
  PROVE  ChargedAreThrough' /\ (K!ChargeUnseen(q) \/ K!Leave(q) \/ UNCHANGED K!kvars)
<1>1. Goto(q, "end") /\ UNCHANGED reply
  BY DEF Crash
<1>2. CASE UNCHANGED charged
  BY <1>1, <1>2, EndingLeaves
<1>3. CASE pc[q] = "handle" /\ charged' = charged \cup {q}
  <2>1. Handling = {q} /\ Answered = {} /\ q \notin charged /\ reply[q].kind = "none"
    BY <1>3, NobodyAnswered
  <2>2. /\ pc'[q] = "end" /\ \A r \in Requests : r # q => pc'[r] = pc[r]
    BY <1>1, KeyParts DEF Goto
  <2>3. Handling' = {} /\ Answered' = Answered
    BY <1>1, <1>3, <2>1, <2>2 DEF Handling, Answered
  <2>4. ChargedAreThrough'
    BY <1>3, <2>2, KeyParts DEF KeyInv, ChargedAreThrough
  <2>5. K!ChargeUnseen(q)
    BY <1>3, <2>1, <2>3 DEF K!ChargeUnseen, Handling, Answered
  <2> QED
    BY <2>4, <2>5
<1> QED
  BY <1>2, <1>3 DEF Crash

\* The purge takes expired rows only, so nobody is at work behind them.
LEMMA PurgeRenews ==
  ASSUME KeyInv, Purge
  PROVE  ChargedAreThrough' /\ K!Renew
<1>1. charged' = {} /\ UNCHANGED pc /\ \E row \in record : row.expired
  BY DEF Purge
<1>2. Handling = {} /\ Handling' = {}
  BY <1>1 DEF KeyInv, IdempotencyInv, ClaimIsHeld, Handling
<1>3. Answered' = {}
  BY <1>1 DEF Answered
<1> QED
  BY <1>1, <1>2, <1>3 DEF ChargedAreThrough, K!Renew, Handling, Answered

LEMMA KeyStep == KeyInv /\ [Next]_vars => KeyInv' /\ [K!Next]_(K!kvars)
<1> SUFFICES ASSUME KeyInv, [Next]_vars PROVE ChargedAreThrough' /\ [K!Next]_(K!kvars)
  BY IdempotencyNext DEF KeyInv
<1>1. ASSUME NEW q \in Requests, Store(q) \/ Delete(q)
      PROVE  ChargedAreThrough' /\ (K!Leave(q) \/ UNCHANGED K!kvars)
  <2>1. CASE Store(q)
    BY <2>1, EndingLeaves DEF Store
  <2>2. CASE Delete(q)
    <3>1. Goto(q, "end") /\ UNCHANGED charged /\ reply[q].kind = "none"
      BY <2>2, KeyParts DEF Delete
    <3>2. reply'[q].kind = "error" /\ \A r \in Requests \ {q} : reply'[r] = reply[r]
      BY <2>2, KeyParts DEF Delete, Fail, Respond
    <3> QED
      BY <3>1, <3>2, EndingLeaves
  <2> QED
    BY <1>1, <2>1, <2>2
<1>2. ASSUME NEW q \in Requests, Intercept(q) \/ Crash(q)
      PROVE  ChargedAreThrough' /\ [K!Next]_(K!kvars)
  BY <1>1, <1>2, LookupIsInternal, CreateStarts, HandleServes, CrashLeaves DEF Intercept, K!Next
<1>3. ASSUME UNCHANGED <<pc, reply, charged>>
      PROVE  ChargedAreThrough' /\ UNCHANGED K!kvars
  <2>1. Handling' = Handling /\ Answered' = Answered
    BY <1>3 DEF Handling, Answered
  <2> QED
    BY <1>3, <2>1 DEF KeyInv, ChargedAreThrough, K!kvars, Handling, Answered
<1>4. CASE Expire \/ UNCHANGED vars
  BY <1>3, <1>4 DEF Expire, vars
<1>5. CASE Purge
  BY <1>5, PurgeRenews DEF K!Next
<1> QED
  BY <1>2, <1>4, <1>5 DEF Next

LEMMA KeyInit == Init => KeyInv /\ K!Init
<1> SUFFICES ASSUME Init PROVE ChargedAreThrough /\ K!Init
  BY IdempotencyInit DEF KeyInv
<1> QED
  BY DEF Init, ChargedAreThrough, K!Init

\* RefinesKey: lookups, claims, lost writes, crashes, the TTL and the purge together
\* implement a key that one request has at a time.
THEOREM Refinement == Spec => RefinesKey
  BY KeyInit, KeyStep, PTL DEF Spec, RefinesKey, K!Spec
===============================================================================

-------------------------- MODULE TokenEndpointProofs -------------------------
(***************************************************************************)
(* Theorems about TokenEndpoint for every leeway, lifetime and number of   *)
(* clients: type correctness, and, as long as at most one second begins    *)
(* between the two clock readings of a request, that no assertion is       *)
(* accepted twice.                                                         *)
(***************************************************************************)
EXTENDS TokenEndpoint, TLAPS

(* An assertion the endpoint has accepted is on record.                    *)
OnRecord(a) == used[a.client][a.jti] = a.exp

(* It can no longer be verified.                                           *)
Expired(a) == a.exp <= now - Leeway

(* The request in progress holds an assertion that was timely when it was  *)
(* read.                                                                   *)
HoldsAssertion ==
    loop.pc # "idle" => loop.assertion \in Assertions

(* Every accepted assertion is on record or expired.  The one in progress, *)
(* which may expire while its request stalls, is on record if it was       *)
(* accepted before, because the cut-off cannot have passed its exp.        *)
RecordInv ==
    /\ HoldsAssertion
    /\ \A a \in Assertions : uses[a] > 0 => OnRecord(a) \/ Expired(a)
    /\ loop.pc \in {"verified", "purge", "record"} =>
           (uses[loop.assertion] > 0 => OnRecord(loop.assertion))
    /\ loop.pc = "verified" =>
           /\ loop.at <= now /\ now <= loop.at + Stall
           /\ loop.assertion.exp > loop.at - Leeway
    /\ loop.pc = "purge" =>
           /\ loop.cutoff <= now - Leeway
           /\ loop.cutoff <= loop.assertion.exp
    /\ AcceptedOnce

USE ConstantsAssumption DEF ConstantsAssumption, Times, Exps

(* The types are inductive together with what a request holds.             *)
TypeInv == TypeOK /\ HoldsAssertion

LEMMA TypeInvStep == TypeInv /\ [Next]_vars => TypeInv'
<1> SUFFICES ASSUME TypeInv, [Next]_vars
             PROVE  TypeInv'
  OBVIOUS
<1> USE DEF TypeInv, TypeOK, HoldsAssertion
<1>1. ASSUME NEW a \in Assertions, Verify(a)
      PROVE  TypeInv'
  BY <1>1 DEF Verify, Request
<1>2. CASE ComputeCutoff
  <2>1. now - Leeway \in (0 - Leeway) .. MaxTime
    OBVIOUS
  <2>2. loop' \in Request
    BY <1>2, <2>1 DEF ComputeCutoff, Cutoff, Request
  <2>3. QED
    BY <1>2, <2>2 DEF ComputeCutoff, Request
<1>3. CASE Purge
  BY <1>3 DEF Purge, Request
<1>4. CASE Record
  <2>1. loop.assertion \in Assertions
    BY <1>4 DEF Record
  <2>2. /\ loop.assertion.client \in Clients
        /\ loop.assertion.jti \in Jtis
        /\ loop.assertion.exp \in Exps
    BY <2>1 DEF Assertions
  <2>3. used' \in [Clients -> [Jtis -> Exps \cup {Null}]]
    <3>1. used' = used \/ used' = [used EXCEPT ![loop.assertion.client] =
                         [used[loop.assertion.client] EXCEPT ![loop.assertion.jti] =
                             loop.assertion.exp]]
      BY <1>4 DEF Record
    <3>2. \A f \in [Jtis -> Exps \cup {Null}] :
              [f EXCEPT ![loop.assertion.jti] = loop.assertion.exp]
                  \in [Jtis -> Exps \cup {Null}]
      BY <2>2
    <3>3. QED
      BY <2>2, <3>1, <3>2
  <2>4. uses' \in [Assertions -> Nat]
    BY <1>4, <2>1 DEF Record
  <2>5. QED
    BY <1>4, <2>1, <2>3, <2>4 DEF Record, Request, Idle
<1>5. CASE Answer
  BY <1>5 DEF Answer, Request, Idle
<1>6. CASE Abort
  BY <1>6 DEF Abort, Request, Idle
<1>7. ASSUME NEW c \in Clients, NEW s \in {"approved", "disabled"}, Decide(c, s)
      PROVE  TypeInv'
  BY <1>7 DEF Decide
<1>8. CASE Tick
  BY <1>8 DEF Tick
<1>9. CASE UNCHANGED vars
  BY <1>9 DEF vars
<1>10. QED
  BY <1>1, <1>2, <1>3, <1>4, <1>5, <1>6, <1>7, <1>8, <1>9 DEF Next

(* Every variable keeps its type, whatever the requests and the admins do. *)
THEOREM TypeCorrect == Spec => []TypeOK
<1>1. Init => TypeInv
  BY DEF Init, TypeInv, TypeOK, HoldsAssertion, Request, Idle
<1>2. TypeInv => TypeOK
  BY DEF TypeInv
<1>3. QED
  BY <1>1, <1>2, TypeInvStep, PTL DEF Spec

-------------------------------------------------------------------------------

(* Each step keeps what RecordInv says of past and present assertions.     *)
LEMMA RecordInvStep ==
    ASSUME Stall <= 1
    PROVE  TypeInv /\ RecordInv /\ [Next]_vars => RecordInv'
<1> SUFFICES ASSUME TypeInv, RecordInv, [Next]_vars
             PROVE  RecordInv'
  OBVIOUS
<1>t. TypeInv'
  BY TypeInvStep
<1>0. HoldsAssertion'
  BY <1>t DEF TypeInv
<1>a. \A a \in Assertions : a.client \in Clients /\ a.jti \in Jtis /\ a.exp \in Exps
  BY DEF Assertions
<1> USE DEF TypeInv, TypeOK, RecordInv, HoldsAssertion, OnRecord, Expired, AcceptedOnce
<1>1. ASSUME NEW a \in Assertions, Verify(a)
      PROVE  RecordInv'
  <2>1. uses[a] > 0 => OnRecord(a)
    BY <1>1, <1>a DEF Verify, Timely
  <2>2. QED
    BY <1>1, <1>a, <1>0, <2>1 DEF Verify, Timely
<1>2. CASE ComputeCutoff
  BY <1>2, <1>a, <1>0 DEF ComputeCutoff, Cutoff, Request
<1>3. CASE Purge
  BY <1>3, <1>a, <1>0 DEF Purge, Request
<1>4. CASE Record
  <2>1. CASE Taken(loop.assertion)
    BY <1>4, <2>1 DEF Record, Idle
  <2>2. CASE ~Taken(loop.assertion)
    <3>0. PICK b \in Assertions : b = loop.assertion
      BY <1>4 DEF Record
    <3>1. /\ b \in Assertions
          /\ used[b.client][b.jti] = Null
          /\ used' = [used EXCEPT ![b.client][b.jti] = b.exp]
          /\ uses' = [uses EXCEPT ![b] = @ + 1]
          /\ loop' = [loop EXCEPT !.pc = "answer"]
          /\ now' = now
      BY <1>4, <2>2, <3>0 DEF Record, Taken
    <3>2. uses[b] = 0
      BY <1>4, <1>a, <3>0, <3>1 DEF Record
    <3>3. uses'[b] = 1 /\ OnRecord(b)'
      BY <1>a, <3>1, <3>2
    <3>4. ASSUME NEW a \in Assertions, a # b
          PROVE  /\ uses'[a] = uses[a]
                 /\ uses[a] > 0 => OnRecord(a)' \/ Expired(a)'
      <4>1. uses'[a] = uses[a]
        BY <3>1, <3>4
      <4>2. CASE a.client = b.client /\ a.jti = b.jti
        \* The row b finds free was a's: it has been purged.
        <5>1. ~OnRecord(a)
          BY <4>2, <3>1, <1>a
        <5>2. QED
          BY <4>1, <5>1, <3>1
      <4>3. CASE ~(a.client = b.client /\ a.jti = b.jti)
        <5>1. used'[a.client][a.jti] = used[a.client][a.jti]
          BY <4>3, <3>1, <1>a
        <5>2. QED
          BY <4>1, <5>1, <3>1
      <4>4. QED
        BY <4>1, <4>2, <4>3
    <3>5. loop'.pc = "answer"
      BY <3>1 DEF Request
    <3>6. ASSUME NEW a \in Assertions
          PROVE  uses'[a] <= 1 /\ (uses'[a] > 0 => OnRecord(a)' \/ Expired(a)')
      <4>1. CASE a = b
        BY <4>1, <3>3
      <4>2. CASE a # b
        <5>1. uses[a] <= 1
          OBVIOUS
        <5>2. QED
          BY <4>2, <5>1, <3>4
      <4>3. QED
        BY <4>1, <4>2
    <3>7. QED
      BY <1>0, <3>5, <3>6
  <2>3. QED
    BY <2>1, <2>2
<1>5. CASE Answer
  BY <1>5, <1>0 DEF Answer, Idle
<1>6. CASE Abort
  BY <1>6, <1>0 DEF Abort, Idle
<1>7. ASSUME NEW c \in Clients, NEW s \in {"approved", "disabled"}, Decide(c, s)
      PROVE  RecordInv'
  BY <1>7, <1>0 DEF Decide
<1>8. CASE Tick
  BY <1>8, <1>a, <1>0 DEF Tick, Request
<1>9. CASE UNCHANGED vars
  BY <1>9 DEF vars
<1>10. QED
  BY <1>1, <1>2, <1>3, <1>4, <1>5, <1>6, <1>7, <1>8, <1>9 DEF Next

(* If the process never stalls for more than a second between verifying an *)
(* assertion and computing the purge's cut-off, no assertion is accepted   *)
(* twice, for every leeway, lifetime, client and jti.                      *)
THEOREM SingleUse ==
    ASSUME Stall <= 1
    PROVE  Spec => []AcceptedOnce
<1>1. Init => TypeInv /\ RecordInv
  BY DEF Init, TypeInv, TypeOK, HoldsAssertion, Request, Idle, RecordInv, AcceptedOnce
<1>2. TypeInv /\ RecordInv /\ [Next]_vars => (TypeInv /\ RecordInv)'
  BY TypeInvStep, RecordInvStep
<1>3. RecordInv => AcceptedOnce
  BY DEF RecordInv
<1>4. QED
  BY <1>1, <1>2, <1>3, PTL DEF Spec

(* Under the same condition, what the purge forgets can no longer verify.  *)
THEOREM PurgeIsSafe ==
    ASSUME Stall <= 1
    PROVE  Spec => []ReplayableOnRecord
<1>1. Init => TypeInv /\ RecordInv
  BY DEF Init, TypeInv, TypeOK, HoldsAssertion, Request, Idle, RecordInv, AcceptedOnce
<1>2. TypeInv /\ RecordInv /\ [Next]_vars => (TypeInv /\ RecordInv)'
  BY TypeInvStep, RecordInvStep
<1>3. TypeInv /\ RecordInv => ReplayableOnRecord
  BY DEF TypeInv, TypeOK, RecordInv, ReplayableOnRecord, OnRecord, Expired, Assertions
<1>4. QED
  BY <1>1, <1>2, <1>3, PTL DEF Spec

-------------------------------------------------------------------------------

(* The assertion that a row of used_assertions stands for.                 *)
RowOf(c, j) == [client |-> c, jti |-> j, exp |-> used[c][j]]

(* Every row is there because its client used the jti.                     *)
RowsUsed ==
    \A c \in Clients, j \in Jtis : used[c][j] # Null => uses[RowOf(c, j)] > 0

(* A row expires within the lifetime allowed; behind a request's purge, no *)
(* row expired earlier than the leeway before the request.                 *)
RowsTimely ==
    /\ \A c \in Clients, j \in Jtis :
           used[c][j] # Null =>
               /\ used[c][j] <= now + MaxLifetime
               /\ loop.pc = "record" => used[c][j] >= loop.at - Leeway
    /\ loop.pc \in {"verified", "purge", "record"} =>
           loop.at <= now /\ loop.assertion.exp <= now + MaxLifetime
    /\ loop.pc = "purge" => loop.cutoff >= loop.at - Leeway

(* A row stays, is purged, or is the one that Record inserts.              *)
LEMMA RowStep ==
    ASSUME TypeInv, [Next]_vars, NEW c \in Clients, NEW j \in Jtis,
           used'[c][j] # Null
    PROVE  \/ used'[c][j] = used[c][j]
           \/ /\ Record
              /\ loop.assertion = [client |-> c, jti |-> j, exp |-> used'[c][j]]
              /\ uses'[loop.assertion] > 0
              /\ loop'.pc = "answer"
<1> DEFINE Goal == \/ used'[c][j] = used[c][j]
                   \/ /\ Record
                      /\ loop.assertion = [client |-> c, jti |-> j, exp |-> used'[c][j]]
                      /\ uses'[loop.assertion] > 0
                      /\ loop'.pc = "answer"
<1> USE DEF TypeInv, TypeOK
<1>1. CASE Purge
  BY <1>1 DEF Purge
<1>2. CASE Record
  <2>1. PICK b \in Assertions : b = loop.assertion
    BY <1>2 DEF Record, HoldsAssertion
  <2>2. b.client \in Clients /\ b.jti \in Jtis /\ b = [client |-> b.client, jti |-> b.jti, exp |-> b.exp]
    BY <2>1 DEF Assertions
  <2>3. CASE Taken(b)
    BY <1>2, <2>1, <2>3 DEF Record
  <2>4. CASE ~Taken(b)
    <3>1. /\ used' = [used EXCEPT ![b.client][b.jti] = b.exp]
          /\ uses' = [uses EXCEPT ![b] = @ + 1]
          /\ loop' = [loop EXCEPT !.pc = "answer"]
      BY <1>2, <2>1, <2>4 DEF Record
    <3>2. uses'[b] > 0 /\ loop'.pc = "answer"
      BY <3>1 DEF Request
    <3>3. CASE c = b.client /\ j = b.jti
      BY <1>2, <2>1, <2>2, <3>1, <3>2, <3>3
    <3>4. CASE ~(c = b.client /\ j = b.jti)
      BY <2>2, <3>1, <3>4
    <3>5. QED
      BY <3>3, <3>4
  <2>5. QED
    BY <2>3, <2>4
<1>3. CASE UNCHANGED used
  BY <1>3
<1>4. QED
  BY <1>1, <1>2, <1>3
     DEF Next, vars, Verify, ComputeCutoff, Answer, Abort, Decide, Tick

(* An assertion that was used stays used.                                  *)
LEMMA UsesStay ==
    ASSUME TypeInv, [Next]_vars, NEW a \in Assertions, uses[a] > 0
    PROVE  uses'[a] > 0
<1> USE DEF TypeInv, TypeOK
<1>1. CASE Record
  <2>1. \/ uses' = uses
        \/ uses' = [uses EXCEPT ![loop.assertion] = @ + 1]
    BY <1>1 DEF Record
  <2>2. loop.assertion \in Assertions
    BY <1>1 DEF Record, HoldsAssertion
  <2>3. QED
    BY <2>1, <2>2
<1>2. CASE UNCHANGED uses
  BY <1>2
<1>3. QED
  BY <1>1, <1>2
     DEF Next, vars, Verify, ComputeCutoff, Purge, Answer, Abort, Decide, Tick

(* A request is refused as a replay only for a jti its own client used.    *)
THEOREM ReplaysAreOwn == Spec => []RecordsAreOwn
<1>1. Init => TypeInv /\ RowsUsed
  BY DEF Init, TypeInv, TypeOK, HoldsAssertion, Request, Idle, RowsUsed
<1>2. ASSUME TypeInv, RowsUsed, [Next]_vars
      PROVE  RowsUsed'
  <2> SUFFICES ASSUME NEW c \in Clients, NEW j \in Jtis, used'[c][j] # Null
               PROVE  uses'[[client |-> c, jti |-> j, exp |-> used'[c][j]]] > 0
    BY DEF RowsUsed, RowOf
  <2>1. CASE used'[c][j] = used[c][j]
    <3>1. RowOf(c, j) \in Assertions /\ uses[RowOf(c, j)] > 0
      BY <1>2, <2>1 DEF TypeInv, TypeOK, RowsUsed, RowOf, Assertions
    <3>2. QED
      BY <1>2, <2>1, <3>1, UsesStay DEF RowOf
  <2>2. QED
    BY <1>2, <2>1, RowStep
<1>3. TypeInv /\ RowsUsed => RecordsAreOwn
  <2> SUFFICES ASSUME TypeInv, RowsUsed, loop.pc = "record", Taken(loop.assertion)
               PROVE  \E e \in Exps : uses[[loop.assertion EXCEPT !.exp = e]] > 0
    BY DEF RecordsAreOwn
  <2>1. PICK b \in Assertions : b = loop.assertion
    BY DEF TypeInv, HoldsAssertion
  <2>2. b.client \in Clients /\ b.jti \in Jtis
    BY DEF Assertions
  <2>3. used[b.client][b.jti] \in Exps /\ uses[RowOf(b.client, b.jti)] > 0
    BY <2>1, <2>2 DEF TypeInv, TypeOK, RowsUsed, Taken
  <2>4. RowOf(b.client, b.jti) = [b EXCEPT !.exp = used[b.client][b.jti]]
    BY DEF RowOf, Assertions
  <2>5. QED
    BY <2>1, <2>3, <2>4
<1>4. QED
  BY <1>1, <1>2, <1>3, TypeInvStep, PTL DEF Spec

(* used_assertions holds no row that a request should have purged, and     *)
(* none that expires later than the longest lifetime from now, however     *)
(* long a request stalls.                                                  *)
THEOREM RowsAreBounded == Spec => []RecordsBounded
<1>1. Init => TypeInv /\ RowsTimely
  BY DEF Init, TypeInv, TypeOK, HoldsAssertion, Request, Idle, RowsTimely
<1>2. ASSUME TypeInv, RowsTimely, [Next]_vars
      PROVE  RowsTimely'
  <2>a. TypeInv'
    BY <1>2, TypeInvStep
  <2>b. /\ now \in Nat /\ now' \in Nat /\ loop.at \in Nat /\ loop.cutoff \in Int
        /\ loop \in Request /\ loop' \in Request
        /\ now <= now'
    BY <1>2, <2>a DEF TypeInv, TypeOK, Request, Next, vars, Verify, ComputeCutoff, Purge,
                      Record, Answer, Abort, Decide, Tick
  <2>c. \A c \in Clients, j \in Jtis :
            /\ used[c][j] # Null => used[c][j] \in Nat
            /\ used'[c][j] # Null => used'[c][j] \in Nat
    BY <1>2, <2>a DEF TypeInv, TypeOK
  <2>d. loop.pc # "idle" => loop.assertion.exp \in Nat
    BY <1>2 DEF TypeInv, HoldsAssertion, Assertions
  <2>1. loop'.pc \in {"verified", "purge", "record"} =>
            loop'.at <= now' /\ loop'.assertion.exp <= now' + MaxLifetime
    <3>1. ASSUME NEW a \in Assertions, Verify(a)
          PROVE  loop'.at <= now' /\ loop'.assertion.exp <= now' + MaxLifetime
      BY <2>b, <3>1 DEF Verify, Timely
    <3>2. \/ loop'.pc \in {"idle", "answer"}
          \/ \E a \in Assertions : Verify(a)
          \/ /\ loop.pc \in {"verified", "purge", "record"}
             /\ loop'.at = loop.at /\ loop'.assertion = loop.assertion
      <4>1. CASE ComputeCutoff
        BY <2>b, <4>1 DEF ComputeCutoff, Request
      <4>2. CASE Purge
        BY <2>b, <4>2 DEF Purge, Request
      <4>3. CASE Record
        BY <2>b, <4>3 DEF Record, Request, Idle
      <4>4. CASE Answer \/ Abort
        BY <4>4 DEF Answer, Abort, Idle
      <4>5. CASE UNCHANGED loop
        BY <2>b, <4>5 DEF Request
      <4>6. QED
        BY <1>2, <4>1, <4>2, <4>3, <4>4, <4>5 DEF Next, vars, Decide, Tick
    <3>3. QED
      BY <1>2, <2>b, <2>d, <3>1, <3>2 DEF RowsTimely
  <2>2. loop'.pc = "purge" => loop'.cutoff >= loop'.at - Leeway
    <3>1. CASE ComputeCutoff
      BY <1>2, <2>b, <3>1 DEF ComputeCutoff, Cutoff, RowsTimely, Request
    <3>2. loop'.pc = "purge" => ComputeCutoff \/ loop' = loop
      BY <1>2, <2>b DEF Request, Next, vars, Verify, Purge, Record, Answer, Abort, Decide, Tick, Idle
    <3>3. QED
      BY <1>2, <3>1, <3>2 DEF RowsTimely
  <2>3. ASSUME NEW c \in Clients, NEW j \in Jtis, used'[c][j] # Null
        PROVE  /\ used'[c][j] <= now' + MaxLifetime
               /\ loop'.pc = "record" => used'[c][j] >= loop'.at - Leeway
    <3>1. CASE used'[c][j] = used[c][j]
      <4>1. used'[c][j] <= now' + MaxLifetime
        BY <1>2, <2>b, <2>c, <2>3, <3>1 DEF RowsTimely
      <4>2. CASE Purge
        <5>1. used[c][j] >= loop.cutoff
          BY <2>b, <2>c, <2>3, <3>1, <4>2 DEF Purge
        <5>2. loop.cutoff >= loop.at - Leeway /\ loop'.at = loop.at
          BY <1>2, <2>b, <4>2 DEF Purge, RowsTimely, Request
        <5>3. QED
          BY <2>b, <2>c, <2>3, <3>1, <4>1, <5>1, <5>2
      <4>3. loop'.pc = "record" => Purge \/ loop' = loop
        <5>1. ASSUME NEW a \in Assertions, Verify(a)
              PROVE  loop'.pc # "record"
          BY <5>1 DEF Verify
        <5>2. CASE ComputeCutoff
          BY <2>b, <5>2 DEF ComputeCutoff, Request
        <5>3. CASE Record \/ Answer \/ Abort
          BY <2>b, <5>3 DEF Record, Answer, Abort, Idle, Request
        <5>4. QED
          BY <1>2, <5>1, <5>2, <5>3 DEF Next, vars, Decide, Tick
      <4>4. QED
        BY <1>2, <2>3, <3>1, <4>1, <4>2, <4>3 DEF RowsTimely
    <3>2. CASE /\ Record
               /\ loop.assertion = [client |-> c, jti |-> j, exp |-> used'[c][j]]
               /\ loop'.pc = "answer"
      BY <1>2, <2>b, <3>2 DEF Record, RowsTimely
    <3>3. QED
      BY <1>2, <2>3, <3>1, <3>2, RowStep
  <2>4. QED
    BY <2>1, <2>2, <2>3 DEF RowsTimely
<1>3. RowsTimely => RecordsBounded
  BY DEF RowsTimely, RecordsBounded
<1>4. QED
  BY <1>1, <1>2, <1>3, TypeInvStep, PTL DEF Spec
===============================================================================

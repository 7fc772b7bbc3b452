---------------------------- MODULE RegistryProofs ----------------------------
(***************************************************************************)
(* Proofs about Registry, for every set of ids, keys, sites, registration  *)
(* tokens and admin requests and for every time limit.  The safety         *)
(* properties are not inductive as they stand: what a handler has read and *)
(* still holds (a key, an id, a count) must be related to the rows it is   *)
(* about to write.  Each invariant below is one of those relations.        *)
(***************************************************************************)
EXTENDS Registry, FiniteSetTheorems, TLAPS

USE ConstantsAssumption DEF ConstantsAssumption, Times, Flag

(* What a handler in progress holds is there. *)
LoopTyped ==
    /\ loop.pc \in {"count", "insert", "spend", "recheck", "fetch"} => loop.key \in Keys
    /\ loop.pc \in {"spend", "recheck"} => loop.token \in RegTokens
    /\ loop.pc \in {"fetch", "touch"} => loop.id \in Ids

AdminTyped == \A a \in Admins : admin[a].op # "none" => admin[a].id \in Ids

TypeInv == TypeOK /\ LoopTyped /\ AdminTyped

(* The ids that a handler or the job will write to without looking again.  *)
Held == {c \in Ids : \/ loop.pc = "touch" /\ loop.id = c
                     \/ \E a \in Admins : admin[a].op # "none" /\ admin[a].id = c
                     \/ c \in job.todo}

(* An id in use was generated before: no row, no token and nothing held    *)
(* refers to an id that InsertPending or SpendToken may choose.            *)
IdsIssued ==
    /\ Rows \subseteq issued
    /\ \A t \in RegTokens : (tokens[t] # Null /\ tokens[t].client # Null)
                                => tokens[t].client \in issued
    /\ loop.pc = "fetch" => loop.id \in issued
    /\ Held \subseteq issued

(* Rows are written by id alone only where they are approved, or gone.     *)
RowsInv ==
    /\ RowsConsistent
    /\ Held \cap Rows \subseteq Approved

(* A request that is about to insert a row for a key found none.           *)
KeyInv ==
    /\ OnePendingPerKey
    /\ loop.pc \in {"count", "insert"} => ~KnownKey(loop.key)

(* The queue has a place for a request that is about to insert.            *)
CapInv ==
    /\ PendingCap
    /\ loop.pc = "insert" => BelowLimit

(* Whom the job has listed was idle then, and was not used since unless    *)
(* after the list was made.                                                *)
Listed(row, cutoff) ==
    /\ row.created <= cutoff
    /\ \/ row.lastUsed = Null
       \/ row.lastUsed <= cutoff
       \/ row.lastUsed >= cutoff + IdleAfter

(* A row was used after it was created, and both in the past; the job made *)
(* its list in the past.                                                   *)
TimeInv ==
    /\ \A c \in Rows : /\ clients[c].created <= now
                       /\ clients[c].lastUsed # Null =>
                              clients[c].created <= clients[c].lastUsed
    /\ \A c \in job.todo \cap Rows : Listed(clients[c], job.before)
    /\ job.todo # {} => job.pc = "disabling"
    /\ job.pc = "disabling" => job.before + IdleAfter <= now
    /\ loop.at <= now

(* Whoever was answered with a token's client spent that token, and has    *)
(* the client's key; whoever is about to be answered knows the client.     *)
AnswerInv ==
    /\ TokenAnswersAgree
    /\ \A t \in RegTokens : \A x \in told[t] :
           /\ tokens[t] # Null /\ tokens[t].client = x[2]
           /\ x[2] \in Rows => clients[x[2]].key = x[1]
           /\ x[2] \in issued
    /\ (loop.pc = "fetch" /\ loop.token # Null) =>
           /\ tokens[loop.token] # Null
           /\ tokens[loop.token].client = loop.id
    /\ loop.pc \in {"count", "insert"} => loop.token = Null

-------------------------------------------------------------------------------
(* Types.                                                                  *)

(* Every statement leaves rows, tokens and what handlers hold well typed.  *)
LEMMA TypeInvStep == TypeInv /\ [Next]_vars => TypeInv'
<1> SUFFICES ASSUME TypeInv, [Next]_vars
             PROVE  TypeInv'
  OBVIOUS
<1> USE DEF TypeInv, TypeOK, LoopTyped, AdminTyped
<1>r. \A c \in Ids : c \in Rows <=> clients[c] # Null
  BY DEF Rows
<1>u. \A row \in ClientRow :
          /\ [row EXCEPT !.lastUsed = now] \in ClientRow
          /\ \A s \in Sites : [row EXCEPT !.pending = 0, !.site = s] \in ClientRow
          /\ \A r \in Reasons : [row EXCEPT !.disabled = 1, !.reason = r] \in ClientRow
          /\ [row EXCEPT !.disabled = 0, !.reason = Null] \in ClientRow
  <2> TAKE row \in ClientRow
  <2>1. [row EXCEPT !.lastUsed = now] \in ClientRow
    BY DEF ClientRow
  <2>2. \A s \in Sites : [row EXCEPT !.pending = 0, !.site = s] \in ClientRow
    BY DEF ClientRow
  <2>3. \A r \in Reasons : [row EXCEPT !.disabled = 1, !.reason = r] \in ClientRow
    BY DEF ClientRow
  <2>4. [row EXCEPT !.disabled = 0, !.reason = Null] \in ClientRow
    BY DEF ClientRow
  <2>5. QED
    BY <2>1, <2>2, <2>3, <2>4
<1>d. ASSUME NEW c \in Ids
      PROVE  /\ \A r \in Reasons : Disabled(c, r) \in [Ids -> ClientRow \cup {Null}]
             /\ ReEnabled(c) \in [Ids -> ClientRow \cup {Null}]
  <2>1. CASE c \notin Rows
    BY <2>1 DEF Disabled, ReEnabled
  <2>2. CASE c \in Rows
    <3>1. clients[c] \in ClientRow
      BY <1>r, <2>2
    <3>2. ReEnabled(c) =
              [clients EXCEPT ![c] = [clients[c] EXCEPT !.disabled = 0, !.reason = Null]]
      BY <2>2 DEF ReEnabled
    <3>3. \A row \in ClientRow : [clients EXCEPT ![c] = row] \in [Ids -> ClientRow \cup {Null}]
      OBVIOUS
    <3>4. \A r \in Reasons : Disabled(c, r) \in [Ids -> ClientRow \cup {Null}]
      <4> TAKE r \in Reasons
      <4>1. [clients[c] EXCEPT !.disabled = 1, !.reason = r] \in ClientRow
        BY <1>u, <3>1
      <4>2. Disabled(c, r) =
                [clients EXCEPT ![c] = [clients[c] EXCEPT !.disabled = 1, !.reason = r]]
        BY <2>2 DEF Disabled
      <4>3. QED
        BY <4>1, <4>2, <3>3
    <3>5. ReEnabled(c) \in [Ids -> ClientRow \cup {Null}]
      <4>1. [clients[c] EXCEPT !.disabled = 0, !.reason = Null] \in ClientRow
        BY <1>u, <3>1
      <4>2. QED
        BY <4>1, <3>2, <3>3
    <3>6. QED
      BY <3>4, <3>5
  <2>3. QED
    BY <2>1, <2>2
<1>1. ASSUME NEW k \in Keys, RegisterPending(k)
      PROVE  TypeInv'
  <2>1. loop' = [pc |-> "count", key |-> k, token |-> Null, id |-> Null, at |-> 0]
    BY <1>1 DEF RegisterPending, Idle
  <2>2. QED
    BY <1>1, <2>1 DEF RegisterPending, Request
<1>2. CASE CountPending
  BY <1>2 DEF CountPending, Idle, Request
<1>3. ASSUME NEW c \in Ids, InsertPending(c)
      PROVE  TypeInv'
  <2>1. PendingRow(loop.key) \in ClientRow
    BY <1>3 DEF InsertPending, PendingRow, ClientRow
  <2>2. clients' \in [Ids -> ClientRow \cup {Null}]
    BY <1>3, <2>1 DEF InsertPending
  <2>3. QED
    BY <1>3, <2>2 DEF InsertPending, Request
<1>4. ASSUME NEW k \in Keys, NEW t \in RegTokens, RegisterWithToken(k, t)
      PROVE  TypeInv'
  BY <1>4 DEF RegisterWithToken, Idle, Request
<1>5. ASSUME NEW c \in Ids, SpendToken(c)
      PROVE  TypeInv'
  <2>1. loop.token \in RegTokens /\ tokens[loop.token] \in TokenRow
    BY <1>5 DEF SpendToken, Spendable, Usable
  <2>2. ActiveRow(loop.key, loop.token, loop.at) \in ClientRow
    BY <1>5, <2>1 DEF SpendToken, ActiveRow, ClientRow, TokenRow, Request
  <2>3. clients' \in [Ids -> ClientRow \cup {Null}]
    BY <1>5, <2>2 DEF SpendToken
  <2>4. tokens' \in [RegTokens -> TokenRow \cup {Null}]
    BY <1>5, <2>1 DEF SpendToken, TokenRow
  <2>5. QED
    <3>1. loop' = [loop EXCEPT !.pc = "fetch", !.id = c]
      BY <1>5 DEF SpendToken
    <3>2. loop' \in Request /\ loop'.pc = "fetch" /\ loop'.key = loop.key /\ loop'.id = c
      BY <3>1 DEF Request
    <3>3. QED
      BY <1>5, <2>3, <2>4, <3>2 DEF SpendToken
<1>6. CASE SpendRefused
  BY <1>6 DEF SpendRefused, Request
<1>7. CASE Recheck
  <2>1. CASE Usable(loop.token, loop.at) /\ tokens[loop.token].client # Null
    <3>1. tokens[loop.token] \in TokenRow
      BY <1>7, <2>1 DEF Recheck, Usable
    <3>2. tokens[loop.token].client \in Ids
      BY <2>1, <3>1 DEF TokenRow
    <3>3. QED
      BY <1>7, <2>1, <3>2 DEF Recheck, Request
  <2>2. CASE ~(Usable(loop.token, loop.at) /\ tokens[loop.token].client # Null)
    BY <1>7, <2>2 DEF Recheck, Idle, Request
  <2>3. QED
    BY <2>1, <2>2
<1>8. CASE FetchClient
  BY <1>8 DEF FetchClient, Idle, Request
<1>9. ASSUME NEW c \in Ids, IssueToken(c)
      PROVE  TypeInv'
  <2>1. loop' = [pc |-> "touch", key |-> Null, token |-> Null, id |-> c, at |-> 0]
    BY <1>9 DEF IssueToken, Idle
  <2>2. QED
    BY <1>9, <2>1 DEF IssueToken, Request
<1>10. CASE TouchLastUsed
  <2>1. clients' \in [Ids -> ClientRow \cup {Null}]
    BY <1>10, <1>r, <1>u DEF TouchLastUsed
  <2>2. QED
    BY <1>10, <2>1 DEF TouchLastUsed, Idle, Request
<1>11. CASE LoopAbort
  BY <1>11 DEF LoopAbort, Idle, Request
<1>12. ASSUME NEW c \in Ids, NEW s \in Sites, Approve(c, s)
       PROVE  TypeInv'
  <2>1. clients[c] \in ClientRow
    BY <1>12, <1>r DEF Approve, Awaiting
  <2>2. clients' = [clients EXCEPT ![c] = [clients[c] EXCEPT !.pending = 0, !.site = s]]
    BY <1>12 DEF Approve
  <2>3. clients' \in [Ids -> ClientRow \cup {Null}]
    BY <1>u, <2>1, <2>2
  <2>4. QED
    BY <1>12, <2>3 DEF Approve
<1>13. ASSUME NEW c \in Ids, RejectPending(c)
       PROVE  TypeInv'
  <2>1. clients[c] \in ClientRow
    BY <1>13, <1>r DEF RejectPending, Awaiting
  <2>2. clients' = [clients EXCEPT ![c] =
                       [clients[c] EXCEPT !.disabled = 1, !.reason = "rejected"]]
    BY <1>13 DEF RejectPending
  <2>3. clients' \in [Ids -> ClientRow \cup {Null}]
    BY <1>u, <2>1, <2>2 DEF Reasons
  <2>4. QED
    BY <1>13, <2>3 DEF RejectPending
<1>14. ASSUME NEW c \in Ids, DeletePending(c)
       PROVE  TypeInv'
  BY <1>14 DEF DeletePending
<1>15. ASSUME NEW c \in Ids, DeleteDisabled(c)
       PROVE  TypeInv'
  BY <1>15 DEF DeleteDisabled
<1>16. ASSUME NEW t \in RegTokens, NEW s \in Sites, CreateToken(t, s)
       PROVE  TypeInv'
  BY <1>16 DEF CreateToken, Expiry, TokenRow
<1>17. ASSUME NEW t \in RegTokens, RevokeToken(t)
       PROVE  TypeInv'
  BY <1>17 DEF RevokeToken, Revocable, TokenRow
<1>18. ASSUME NEW a \in Admins, NEW c \in Ids, DisableRead(a, c)
       PROVE  TypeInv'
  BY <1>18 DEF DisableRead, AdminRequest
<1>19. ASSUME NEW a \in Admins, DisableWrite(a)
       PROVE  TypeInv'
  <2>1. clients' \in [Ids -> ClientRow \cup {Null}]
    BY <1>19, <1>d DEF DisableWrite, Reasons
  <2>2. QED
    BY <1>19, <2>1 DEF DisableWrite, Free, AdminRequest
<1>20. ASSUME NEW a \in Admins, NEW c \in Ids, EnableRead(a, c)
       PROVE  TypeInv'
  BY <1>20 DEF EnableRead, AdminRequest
<1>21. ASSUME NEW a \in Admins, EnableWrite(a)
       PROVE  TypeInv'
  <2>1. clients' \in [Ids -> ClientRow \cup {Null}]
    BY <1>21, <1>d DEF EnableWrite
  <2>2. QED
    BY <1>21, <2>1 DEF EnableWrite, Free, AdminRequest
<1>22. ASSUME NEW a \in Admins, AdminAbort(a)
       PROVE  TypeInv'
  BY <1>22 DEF AdminAbort, Free, AdminRequest
<1>23. CASE JobStart
  <2>1. {c \in Enabled : LongIdle(c)} \in SUBSET Ids
    BY DEF Enabled, Approved, Rows
  <2>2. job' = [pc |-> "disabling", todo |-> {c \in Enabled : LongIdle(c)}, before |-> now - IdleAfter]
    BY <1>23 DEF JobStart
  <2>3. QED
    <3>1. job' \in Job
      BY <2>1, <2>2 DEF Job
    <3>2. QED
      BY <1>23, <3>1 DEF JobStart
<1>24. ASSUME NEW c \in Ids, JobDisable(c)
       PROVE  TypeInv'
  <2>1. clients' \in [Ids -> ClientRow \cup {Null}]
    BY <1>24, <1>d DEF JobDisable, Reasons
  <2>2. QED
    BY <1>24, <2>1 DEF JobDisable, Job
<1>25. CASE JobCutoff
  <2>1. now - PendingTTL \in Int
    OBVIOUS
  <2>2. QED
    BY <1>25, <2>1 DEF JobCutoff, Job
<1>26. CASE JobPurge
  BY <1>26 DEF JobPurge, Off, Job
<1>27. CASE JobAbort
  BY <1>27 DEF JobAbort, Killed, Job
<1>28. CASE Tick
  BY <1>28 DEF Tick
<1>29. CASE UNCHANGED vars
  BY <1>29 DEF vars
<1>30. QED
  BY <1>1, <1>2, <1>3, <1>4, <1>5, <1>6, <1>7, <1>8, <1>9, <1>10, <1>11, <1>12,
     <1>13, <1>14, <1>15, <1>16, <1>17, <1>18, <1>19, <1>20, <1>21, <1>22, <1>23,
     <1>24, <1>25, <1>26, <1>27, <1>28, <1>29
     DEF Next, LoopNext, AdminNext, JobStep

(* The empty database, with nobody at work, is well typed.                 *)
LEMMA TypeInvInit == Init => TypeInv
BY DEF Init, TypeInv, TypeOK, LoopTyped, AdminTyped, Idle, Free, Off, Request,
       AdminRequest, Job

(* Whatever the handlers, the job and the failures do in between, every    *)
(* row and every handler's local state keeps its type.                     *)
THEOREM TypeCorrect == Spec => []TypeOK
<1>1. TypeInv => TypeOK
  BY DEF TypeInv
<1>2. QED
  BY TypeInvInit, TypeInvStep, <1>1, PTL DEF Spec


(* What is already generated stays so, and only what a handler has read or *)
(* inserted itself is held.                                                *)
LEMMA IdsIssuedStep == TypeInv /\ IdsIssued /\ [Next]_vars => IdsIssued'
<1> SUFFICES ASSUME TypeInv, IdsIssued, [Next]_vars
             PROVE  IdsIssued'
  OBVIOUS
<1> USE DEF TypeInv, TypeOK, LoopTyped, AdminTyped, IdsIssued, Held, Rows
<1>1. ASSUME NEW k \in Keys, RegisterPending(k)
      PROVE  IdsIssued'
  BY <1>1 DEF RegisterPending, Idle
<1>2. CASE CountPending
  BY <1>2 DEF CountPending, Idle
<1>3. ASSUME NEW c \in Ids, InsertPending(c)
      PROVE  IdsIssued'
  BY <1>3 DEF InsertPending
<1>4. ASSUME NEW k \in Keys, NEW t \in RegTokens, RegisterWithToken(k, t)
      PROVE  IdsIssued'
  BY <1>4 DEF RegisterWithToken, Idle
<1>5. ASSUME NEW c \in Ids, SpendToken(c)
      PROVE  IdsIssued'
  BY <1>5 DEF SpendToken, Spendable, Usable, TokenRow
<1>6. CASE SpendRefused
  BY <1>6 DEF SpendRefused
<1>7. CASE Recheck
  BY <1>7 DEF Recheck, Usable, Idle
<1>8. CASE FetchClient
  BY <1>8 DEF FetchClient, Idle
<1>9. ASSUME NEW c \in Ids, IssueToken(c)
      PROVE  IdsIssued'
  BY <1>9 DEF IssueToken, Idle, Enabled, Approved
<1>10. CASE TouchLastUsed
  BY <1>10 DEF TouchLastUsed, Idle
<1>11. CASE LoopAbort
  BY <1>11 DEF LoopAbort, Idle
<1>12. ASSUME NEW c \in Ids, NEW s \in Sites, Approve(c, s)
       PROVE  IdsIssued'
  BY <1>12 DEF Approve, Awaiting
<1>13. ASSUME NEW c \in Ids, RejectPending(c)
       PROVE  IdsIssued'
  BY <1>13 DEF RejectPending, Awaiting
<1>14. ASSUME NEW c \in Ids, DeletePending(c)
       PROVE  IdsIssued'
  BY <1>14 DEF DeletePending
<1>15. ASSUME NEW c \in Ids, DeleteDisabled(c)
       PROVE  IdsIssued'
  BY <1>15 DEF DeleteDisabled
<1>16. ASSUME NEW t \in RegTokens, NEW s \in Sites, CreateToken(t, s)
       PROVE  IdsIssued'
  BY <1>16 DEF CreateToken
<1>17. ASSUME NEW t \in RegTokens, RevokeToken(t)
       PROVE  IdsIssued'
  BY <1>17 DEF RevokeToken, Revocable, TokenRow
<1>18. ASSUME NEW a \in Admins, NEW c \in Ids, DisableRead(a, c)
       PROVE  IdsIssued'
  BY <1>18 DEF DisableRead, MayDisable, Approved
<1>19. ASSUME NEW a \in Admins, DisableWrite(a)
       PROVE  IdsIssued'
  BY <1>19 DEF DisableWrite, Disabled, Free
<1>20. ASSUME NEW a \in Admins, NEW c \in Ids, EnableRead(a, c)
       PROVE  IdsIssued'
  BY <1>20 DEF EnableRead, MayEnable, Approved
<1>21. ASSUME NEW a \in Admins, EnableWrite(a)
       PROVE  IdsIssued'
  BY <1>21 DEF EnableWrite, ReEnabled, Free
<1>22. ASSUME NEW a \in Admins, AdminAbort(a)
       PROVE  IdsIssued'
  BY <1>22 DEF AdminAbort, Free
<1>23. CASE JobStart
  BY <1>23 DEF JobStart, Off, Enabled, Approved
<1>24. ASSUME NEW c \in Ids, JobDisable(c)
       PROVE  IdsIssued'
  BY <1>24 DEF JobDisable, Disabled
<1>25. CASE JobCutoff
  BY <1>25 DEF JobCutoff
<1>26. CASE JobPurge
  BY <1>26 DEF JobPurge, Off
<1>27. CASE JobAbort
  BY <1>27 DEF JobAbort, Killed
<1>28. CASE Tick
  BY <1>28 DEF Tick
<1>29. CASE UNCHANGED vars
  BY <1>29 DEF vars
<1>30. QED
  BY <1>1, <1>2, <1>3, <1>4, <1>5, <1>6, <1>7, <1>8, <1>9, <1>10, <1>11,
     <1>12, <1>13, <1>14, <1>15, <1>16, <1>17, <1>18, <1>19, <1>20, <1>21,
     <1>22, <1>23, <1>24, <1>25, <1>26, <1>27, <1>28, <1>29
     DEF Next, LoopNext, AdminNext, JobStep

(* A row held for a later write stays approved: no statement takes a row   *)
(* back to pending, and a deleted one does not return.                     *)
LEMMA RowsInvStep == TypeInv /\ IdsIssued /\ RowsInv /\ [Next]_vars => RowsInv'
<1> SUFFICES ASSUME TypeInv, IdsIssued, RowsInv, [Next]_vars
             PROVE  RowsInv'
  OBVIOUS
<1> USE DEF TypeInv, TypeOK, LoopTyped, AdminTyped, IdsIssued, RowsInv, RowsConsistent, Consistent, Held, Rows, Approved, ClientRow
<1>1. ASSUME NEW k \in Keys, RegisterPending(k)
      PROVE  RowsInv'
  BY <1>1 DEF RegisterPending, Idle
<1>2. CASE CountPending
  BY <1>2 DEF CountPending, Idle
<1>3. ASSUME NEW c \in Ids, InsertPending(c)
      PROVE  RowsInv'
  BY <1>3 DEF InsertPending, PendingRow
<1>4. ASSUME NEW k \in Keys, NEW t \in RegTokens, RegisterWithToken(k, t)
      PROVE  RowsInv'
  BY <1>4 DEF RegisterWithToken, Idle
<1>5. ASSUME NEW c \in Ids, SpendToken(c)
      PROVE  RowsInv'
  BY <1>5 DEF SpendToken, Spendable, Usable, TokenRow, ActiveRow
<1>6. CASE SpendRefused
  BY <1>6 DEF SpendRefused
<1>7. CASE Recheck
  BY <1>7 DEF Recheck, Usable, Idle
<1>8. CASE FetchClient
  BY <1>8 DEF FetchClient, Idle
<1>9. ASSUME NEW c \in Ids, IssueToken(c)
      PROVE  RowsInv'
  BY <1>9 DEF IssueToken, Idle, Enabled, Approved
<1>10. CASE TouchLastUsed
  BY <1>10 DEF TouchLastUsed, Idle
<1>11. CASE LoopAbort
  BY <1>11 DEF LoopAbort, Idle
<1>12. ASSUME NEW c \in Ids, NEW s \in Sites, Approve(c, s)
       PROVE  RowsInv'
  BY <1>12 DEF Approve, Awaiting
<1>13. ASSUME NEW c \in Ids, RejectPending(c)
       PROVE  RowsInv'
  BY <1>13 DEF RejectPending, Awaiting
<1>14. ASSUME NEW c \in Ids, DeletePending(c)
       PROVE  RowsInv'
  BY <1>14 DEF DeletePending
<1>15. ASSUME NEW c \in Ids, DeleteDisabled(c)
       PROVE  RowsInv'
  BY <1>15 DEF DeleteDisabled
<1>16. ASSUME NEW t \in RegTokens, NEW s \in Sites, CreateToken(t, s)
       PROVE  RowsInv'
  BY <1>16 DEF CreateToken
<1>17. ASSUME NEW t \in RegTokens, RevokeToken(t)
       PROVE  RowsInv'
  BY <1>17 DEF RevokeToken, Revocable, TokenRow
<1>18. ASSUME NEW a \in Admins, NEW c \in Ids, DisableRead(a, c)
       PROVE  RowsInv'
  BY <1>18 DEF DisableRead, MayDisable, Approved
<1>19. ASSUME NEW a \in Admins, DisableWrite(a)
       PROVE  RowsInv'
  <2>1. \A c \in Ids : \/ clients'[c] = clients[c]
                       \/ /\ c \in Held \cap Rows
                          /\ clients'[c] =
                                [clients[c] EXCEPT !.disabled = 1, !.reason = "disabled-by-admin"]
    BY <1>19 DEF DisableWrite, Disabled
  <2>2. Held' \subseteq Held
    BY <1>19 DEF DisableWrite, Free
  <2>3. ASSUME NEW c \in Rows'
        PROVE  Consistent(clients'[c]) /\ (c \in Held => clients'[c].pending = 0)
    <3>1. CASE clients'[c] = clients[c]
      BY <3>1
    <3>2. CASE clients'[c] # clients[c]
      <4>1. /\ c \in Held /\ c \in Rows
            /\ clients'[c] =
                   [clients[c] EXCEPT !.disabled = 1, !.reason = "disabled-by-admin"]
        <5> HIDE DEF Held
        <5>1. QED
          BY <2>1, <3>2
      <4>2. clients[c].pending = 0
        <5> HIDE DEF Held
        <5>1. QED
          BY <4>1
      <4>3. clients[c] \in ClientRow /\ clients[c].site # Null
        BY <4>1, <4>2
      <4>4. QED
        BY <4>1, <4>2, <4>3
    <3>3. QED
      BY <3>1, <3>2
  <2>4. QED
    BY <2>2, <2>3
<1>20. ASSUME NEW a \in Admins, NEW c \in Ids, EnableRead(a, c)
       PROVE  RowsInv'
  BY <1>20 DEF EnableRead, MayEnable, Approved
<1>21. ASSUME NEW a \in Admins, EnableWrite(a)
       PROVE  RowsInv'
  <2>1. \A c \in Ids : \/ clients'[c] = clients[c]
                       \/ /\ c \in Held \cap Rows
                          /\ clients'[c] = [clients[c] EXCEPT !.disabled = 0, !.reason = Null]
    BY <1>21 DEF EnableWrite, ReEnabled
  <2>2. Held' \subseteq Held
    BY <1>21 DEF EnableWrite, Free
  <2>3. ASSUME NEW c \in Rows'
        PROVE  Consistent(clients'[c]) /\ (c \in Held => clients'[c].pending = 0)
    <3>1. CASE clients'[c] = clients[c]
      BY <3>1
    <3>2. CASE clients'[c] # clients[c]
      <4>1. /\ c \in Held /\ c \in Rows
            /\ clients'[c] = [clients[c] EXCEPT !.disabled = 0, !.reason = Null]
        <5> HIDE DEF Held
        <5>1. QED
          BY <2>1, <3>2
      <4>2. clients[c].pending = 0
        <5> HIDE DEF Held
        <5>1. QED
          BY <4>1
      <4>3. clients[c] \in ClientRow /\ clients[c].site # Null
        BY <4>1, <4>2
      <4>4. QED
        BY <4>1, <4>2, <4>3
    <3>3. QED
      BY <3>1, <3>2
  <2>4. QED
    BY <2>2, <2>3
<1>22. ASSUME NEW a \in Admins, AdminAbort(a)
       PROVE  RowsInv'
  BY <1>22 DEF AdminAbort, Free
<1>23. CASE JobStart
  BY <1>23 DEF JobStart, Off, Enabled, Approved
<1>24. ASSUME NEW c \in Ids, JobDisable(c)
       PROVE  RowsInv'
  BY <1>24 DEF JobDisable, Disabled
<1>25. CASE JobCutoff
  BY <1>25 DEF JobCutoff
<1>26. CASE JobPurge
  BY <1>26 DEF JobPurge, Off
<1>27. CASE JobAbort
  BY <1>27 DEF JobAbort, Killed
<1>28. CASE Tick
  BY <1>28 DEF Tick
<1>29. CASE UNCHANGED vars
  BY <1>29 DEF vars
<1>30. QED
  BY <1>1, <1>2, <1>3, <1>4, <1>5, <1>6, <1>7, <1>8, <1>9, <1>10, <1>11,
     <1>12, <1>13, <1>14, <1>15, <1>16, <1>17, <1>18, <1>19, <1>20, <1>21,
     <1>22, <1>23, <1>24, <1>25, <1>26, <1>27, <1>28, <1>29
     DEF Next, LoopNext, AdminNext, JobStep

(* A row is inserted for a key only after the key was looked up and, with  *)
(* no other request on the loop meanwhile, not found.                      *)
LEMMA KeyInvStep == TypeInv /\ IdsIssued /\ RowsInv /\ KeyInv /\ [Next]_vars => KeyInv'
<1> SUFFICES ASSUME TypeInv, IdsIssued, RowsInv, KeyInv, [Next]_vars
             PROVE  KeyInv'
  OBVIOUS
<1> USE DEF TypeInv, TypeOK, LoopTyped, AdminTyped, IdsIssued, RowsInv, RowsConsistent, Consistent, KeyInv, OnePendingPerKey, KnownKey, Held, Rows, Approved, ClientRow
<1>1. ASSUME NEW k \in Keys, RegisterPending(k)
      PROVE  KeyInv'
  BY <1>1 DEF RegisterPending, KnownKey, Idle
<1>2. CASE CountPending
  BY <1>2 DEF CountPending, BelowLimit, Idle
<1>3. ASSUME NEW c \in Ids, InsertPending(c)
      PROVE  KeyInv'
  BY <1>3 DEF InsertPending, PendingRow
<1>4. ASSUME NEW k \in Keys, NEW t \in RegTokens, RegisterWithToken(k, t)
      PROVE  KeyInv'
  BY <1>4 DEF RegisterWithToken, Idle
<1>5. ASSUME NEW c \in Ids, SpendToken(c)
      PROVE  KeyInv'
  BY <1>5 DEF SpendToken, Spendable, Usable, TokenRow, ActiveRow
<1>6. CASE SpendRefused
  BY <1>6 DEF SpendRefused
<1>7. CASE Recheck
  BY <1>7 DEF Recheck, Usable, Idle
<1>8. CASE FetchClient
  BY <1>8 DEF FetchClient, Idle
<1>9. ASSUME NEW c \in Ids, IssueToken(c)
      PROVE  KeyInv'
  BY <1>9 DEF IssueToken, Idle, Enabled, Approved
<1>10. CASE TouchLastUsed
  BY <1>10 DEF TouchLastUsed, Idle
<1>11. CASE LoopAbort
  BY <1>11 DEF LoopAbort, Idle
<1>12. ASSUME NEW c \in Ids, NEW s \in Sites, Approve(c, s)
       PROVE  KeyInv'
  BY <1>12 DEF Approve, Awaiting
<1>13. ASSUME NEW c \in Ids, RejectPending(c)
       PROVE  KeyInv'
  BY <1>13 DEF RejectPending, Awaiting
<1>14. ASSUME NEW c \in Ids, DeletePending(c)
       PROVE  KeyInv'
  BY <1>14 DEF DeletePending
<1>15. ASSUME NEW c \in Ids, DeleteDisabled(c)
       PROVE  KeyInv'
  BY <1>15 DEF DeleteDisabled, Enabled
<1>16. ASSUME NEW t \in RegTokens, NEW s \in Sites, CreateToken(t, s)
       PROVE  KeyInv'
  BY <1>16 DEF CreateToken
<1>17. ASSUME NEW t \in RegTokens, RevokeToken(t)
       PROVE  KeyInv'
  BY <1>17 DEF RevokeToken, Revocable, TokenRow
<1>18. ASSUME NEW a \in Admins, NEW c \in Ids, DisableRead(a, c)
       PROVE  KeyInv'
  BY <1>18 DEF DisableRead, MayDisable, Approved
<1>19. ASSUME NEW a \in Admins, DisableWrite(a)
       PROVE  KeyInv'
  <2>1. \A c \in Ids : /\ clients'[c] = Null <=> clients[c] = Null
                       /\ clients[c] # Null =>
                              /\ clients'[c].key = clients[c].key
                              /\ clients'[c].site = clients[c].site
                              /\ clients'[c].pending = clients[c].pending
                              /\ clients'[c].via = clients[c].via
                              /\ clients'[c].created = clients[c].created
    BY <1>19 DEF DisableWrite, Disabled
  <2>2. loop' = loop /\ tokens' = tokens
    BY <1>19 DEF DisableWrite
  <2>3. QED
    BY <2>1, <2>2
<1>20. ASSUME NEW a \in Admins, NEW c \in Ids, EnableRead(a, c)
       PROVE  KeyInv'
  BY <1>20 DEF EnableRead, MayEnable, Approved
<1>21. ASSUME NEW a \in Admins, EnableWrite(a)
       PROVE  KeyInv'
  <2>1. \A c \in Ids : /\ clients'[c] = Null <=> clients[c] = Null
                       /\ clients[c] # Null =>
                              /\ clients'[c].key = clients[c].key
                              /\ clients'[c].pending = clients[c].pending
    BY <1>21 DEF EnableWrite, ReEnabled
  <2>2. loop' = loop
    BY <1>21 DEF EnableWrite
  <2>3. QED
    BY <2>1, <2>2
<1>22. ASSUME NEW a \in Admins, AdminAbort(a)
       PROVE  KeyInv'
  BY <1>22 DEF AdminAbort, Free
<1>23. CASE JobStart
  BY <1>23 DEF JobStart, Off, Enabled, Approved
<1>24. ASSUME NEW c \in Ids, JobDisable(c)
       PROVE  KeyInv'
  BY <1>24 DEF JobDisable, Disabled
<1>25. CASE JobCutoff
  BY <1>25 DEF JobCutoff
<1>26. CASE JobPurge
  BY <1>26 DEF JobPurge, Off
<1>27. CASE JobAbort
  BY <1>27 DEF JobAbort, Killed
<1>28. CASE Tick
  BY <1>28 DEF Tick
<1>29. CASE UNCHANGED vars
  BY <1>29 DEF vars
<1>30. QED
  BY <1>1, <1>2, <1>3, <1>4, <1>5, <1>6, <1>7, <1>8, <1>9, <1>10, <1>11,
     <1>12, <1>13, <1>14, <1>15, <1>16, <1>17, <1>18, <1>19, <1>20, <1>21,
     <1>22, <1>23, <1>24, <1>25, <1>26, <1>27, <1>28, <1>29
     DEF Next, LoopNext, AdminNext, JobStep

(* The clock only moves on.                                               *)
LEMMA TimeInvStep == TypeInv /\ IdsIssued /\ TimeInv /\ [Next]_vars => TimeInv'
<1> SUFFICES ASSUME TypeInv, IdsIssued, TimeInv, [Next]_vars
             PROVE  TimeInv'
  OBVIOUS
<1> USE DEF TypeInv, TypeOK, LoopTyped, AdminTyped, IdsIssued, TimeInv, Listed, Held, Rows, ClientRow, Request
<1>1. ASSUME NEW k \in Keys, RegisterPending(k)
      PROVE  TimeInv'
  BY <1>1 DEF RegisterPending, KnownKey, Idle
<1>2. CASE CountPending
  BY <1>2 DEF CountPending, BelowLimit, Idle
<1>3. ASSUME NEW c \in Ids, InsertPending(c)
      PROVE  TimeInv'
  BY <1>3 DEF InsertPending, PendingRow, Reasons
<1>4. ASSUME NEW k \in Keys, NEW t \in RegTokens, RegisterWithToken(k, t)
      PROVE  TimeInv'
  BY <1>4 DEF RegisterWithToken, Idle
<1>5. ASSUME NEW c \in Ids, SpendToken(c)
      PROVE  TimeInv'
  BY <1>5 DEF SpendToken, Spendable, Usable, TokenRow, ActiveRow, Reasons
<1>6. CASE SpendRefused
  BY <1>6 DEF SpendRefused
<1>7. CASE Recheck
  BY <1>7 DEF Recheck, Usable, Idle
<1>8. CASE FetchClient
  BY <1>8 DEF FetchClient, Idle
<1>9. ASSUME NEW c \in Ids, IssueToken(c)
      PROVE  TimeInv'
  BY <1>9 DEF IssueToken, Idle, Enabled, Approved
<1>10. CASE TouchLastUsed
  BY <1>10 DEF TouchLastUsed, Idle
<1>11. CASE LoopAbort
  BY <1>11 DEF LoopAbort, Idle
<1>12. ASSUME NEW c \in Ids, NEW s \in Sites, Approve(c, s)
       PROVE  TimeInv'
  BY <1>12 DEF Approve, Awaiting
<1>13. ASSUME NEW c \in Ids, RejectPending(c)
       PROVE  TimeInv'
  BY <1>13 DEF RejectPending, Awaiting
<1>14. ASSUME NEW c \in Ids, DeletePending(c)
       PROVE  TimeInv'
  BY <1>14 DEF DeletePending
<1>15. ASSUME NEW c \in Ids, DeleteDisabled(c)
       PROVE  TimeInv'
  BY <1>15 DEF DeleteDisabled, Enabled
<1>16. ASSUME NEW t \in RegTokens, NEW s \in Sites, CreateToken(t, s)
       PROVE  TimeInv'
  BY <1>16 DEF CreateToken
<1>17. ASSUME NEW t \in RegTokens, RevokeToken(t)
       PROVE  TimeInv'
  BY <1>17 DEF RevokeToken, Revocable, TokenRow
<1>18. ASSUME NEW a \in Admins, NEW c \in Ids, DisableRead(a, c)
       PROVE  TimeInv'
  BY <1>18 DEF DisableRead, MayDisable, Approved
<1>19. ASSUME NEW a \in Admins, DisableWrite(a)
       PROVE  TimeInv'
  <2>1. \A c \in Ids : /\ clients'[c] = Null <=> clients[c] = Null
                       /\ clients[c] # Null =>
                              /\ clients'[c].created = clients[c].created
                              /\ clients'[c].lastUsed = clients[c].lastUsed
                              /\ clients'[c].reason = "idle" => clients[c].reason = "idle"
    BY <1>19 DEF DisableWrite, Disabled
  <2>2. loop' = loop /\ job' = job /\ now' = now
    BY <1>19 DEF DisableWrite
  <2>3. QED
    BY <2>1, <2>2
<1>20. ASSUME NEW a \in Admins, NEW c \in Ids, EnableRead(a, c)
       PROVE  TimeInv'
  BY <1>20 DEF EnableRead, MayEnable, Approved
<1>21. ASSUME NEW a \in Admins, EnableWrite(a)
       PROVE  TimeInv'
  <2>1. \A c \in Ids : /\ clients'[c] = Null <=> clients[c] = Null
                       /\ clients[c] # Null =>
                              /\ clients'[c].created = clients[c].created
                              /\ clients'[c].lastUsed = clients[c].lastUsed
                              /\ clients'[c].reason = "idle" => clients[c].reason = "idle"
    BY <1>21 DEF EnableWrite, ReEnabled, Reasons
  <2>2. loop' = loop /\ job' = job /\ now' = now
    BY <1>21 DEF EnableWrite
  <2>3. QED
    BY <2>1, <2>2
<1>22. ASSUME NEW a \in Admins, AdminAbort(a)
       PROVE  TimeInv'
  BY <1>22 DEF AdminAbort, Free
<1>23. CASE JobStart
  BY <1>23 DEF JobStart, Off, Enabled, Approved, LongIdle, LastActive
<1>24. ASSUME NEW c \in Ids, JobDisable(c)
       PROVE  TimeInv'
  BY <1>24 DEF JobDisable, Disabled
<1>25. CASE JobCutoff
  BY <1>25 DEF JobCutoff
<1>26. CASE JobPurge
  BY <1>26 DEF JobPurge, Off
<1>27. CASE JobAbort
  BY <1>27 DEF JobAbort, Killed
<1>28. CASE Tick
  <2>1. /\ now' = now + 1 /\ clients' = clients
        /\ job' = job /\ loop' = loop
    BY <1>28 DEF Tick
  <2>2. /\ now \in Int /\ job.before \in Int /\ IdleAfter \in Int
        /\ loop.at \in Int
        /\ \A c \in Rows : clients[c].created \in Int
    BY ConstantsAssumption DEF Job, Times
  <2>3. QED
    BY <2>1, <2>2
<1>29. CASE UNCHANGED vars
  BY <1>29 DEF vars
<1>30. QED
  BY <1>1, <1>2, <1>3, <1>4, <1>5, <1>6, <1>7, <1>8, <1>9, <1>10, <1>11,
     <1>12, <1>13, <1>14, <1>15, <1>16, <1>17, <1>18, <1>19, <1>20, <1>21,
     <1>22, <1>23, <1>24, <1>25, <1>26, <1>27, <1>28, <1>29
     DEF Next, LoopNext, AdminNext, JobStep

(* A spent token points to its client, and nothing changes a spent token.  *)
LEMMA TokenInvStep == TypeInv /\ IdsIssued /\ RowsInv /\ TokenSpentOnce /\ [Next]_vars => TokenSpentOnce'
<1> SUFFICES ASSUME TypeInv, IdsIssued, RowsInv, TokenSpentOnce, [Next]_vars
             PROVE  TokenSpentOnce'
  OBVIOUS
<1> USE DEF TypeInv, TypeOK, LoopTyped, AdminTyped, IdsIssued, RowsInv, RowsConsistent, Consistent, TokenSpentOnce, Held, Rows, Approved, ClientRow
<1>1. ASSUME NEW k \in Keys, RegisterPending(k)
      PROVE  TokenSpentOnce'
  BY <1>1 DEF RegisterPending, Idle
<1>2. CASE CountPending
  BY <1>2 DEF CountPending, Idle
<1>3. ASSUME NEW c \in Ids, InsertPending(c)
      PROVE  TokenSpentOnce'
  BY <1>3 DEF InsertPending, PendingRow
<1>4. ASSUME NEW k \in Keys, NEW t \in RegTokens, RegisterWithToken(k, t)
      PROVE  TokenSpentOnce'
  BY <1>4 DEF RegisterWithToken, Idle
<1>5. ASSUME NEW c \in Ids, SpendToken(c)
      PROVE  TokenSpentOnce'
  BY <1>5 DEF SpendToken, Spendable, Usable, TokenRow, ActiveRow
<1>6. CASE SpendRefused
  BY <1>6 DEF SpendRefused
<1>7. CASE Recheck
  BY <1>7 DEF Recheck, Usable, Idle
<1>8. CASE FetchClient
  BY <1>8 DEF FetchClient, Idle
<1>9. ASSUME NEW c \in Ids, IssueToken(c)
      PROVE  TokenSpentOnce'
  BY <1>9 DEF IssueToken, Idle, Enabled, Approved
<1>10. CASE TouchLastUsed
  BY <1>10 DEF TouchLastUsed, Idle
<1>11. CASE LoopAbort
  BY <1>11 DEF LoopAbort, Idle
<1>12. ASSUME NEW c \in Ids, NEW s \in Sites, Approve(c, s)
       PROVE  TokenSpentOnce'
  BY <1>12 DEF Approve, Awaiting
<1>13. ASSUME NEW c \in Ids, RejectPending(c)
       PROVE  TokenSpentOnce'
  BY <1>13 DEF RejectPending, Awaiting
<1>14. ASSUME NEW c \in Ids, DeletePending(c)
       PROVE  TokenSpentOnce'
  BY <1>14 DEF DeletePending
<1>15. ASSUME NEW c \in Ids, DeleteDisabled(c)
       PROVE  TokenSpentOnce'
  BY <1>15 DEF DeleteDisabled
<1>16. ASSUME NEW t \in RegTokens, NEW s \in Sites, CreateToken(t, s)
       PROVE  TokenSpentOnce'
  BY <1>16 DEF CreateToken
<1>17. ASSUME NEW t \in RegTokens, RevokeToken(t)
       PROVE  TokenSpentOnce'
  BY <1>17 DEF RevokeToken, Revocable, TokenRow
<1>18. ASSUME NEW a \in Admins, NEW c \in Ids, DisableRead(a, c)
       PROVE  TokenSpentOnce'
  BY <1>18 DEF DisableRead, MayDisable, Approved
<1>19. ASSUME NEW a \in Admins, DisableWrite(a)
       PROVE  TokenSpentOnce'
  <2>1. \A c \in Ids : /\ clients'[c] = Null <=> clients[c] = Null
                       /\ clients[c] # Null =>
                              /\ clients'[c].key = clients[c].key
                              /\ clients'[c].site = clients[c].site
                              /\ clients'[c].pending = clients[c].pending
                              /\ clients'[c].via = clients[c].via
                              /\ clients'[c].created = clients[c].created
    BY <1>19 DEF DisableWrite, Disabled
  <2>2. loop' = loop /\ tokens' = tokens
    BY <1>19 DEF DisableWrite
  <2>3. QED
    BY <2>1, <2>2
<1>20. ASSUME NEW a \in Admins, NEW c \in Ids, EnableRead(a, c)
       PROVE  TokenSpentOnce'
  BY <1>20 DEF EnableRead, MayEnable, Approved
<1>21. ASSUME NEW a \in Admins, EnableWrite(a)
       PROVE  TokenSpentOnce'
  <2>1. \A c \in Ids : /\ clients'[c] = Null <=> clients[c] = Null
                       /\ clients[c] # Null =>
                              /\ clients'[c].key = clients[c].key
                              /\ clients'[c].site = clients[c].site
                              /\ clients'[c].pending = clients[c].pending
                              /\ clients'[c].via = clients[c].via
                              /\ clients'[c].created = clients[c].created
    BY <1>21 DEF EnableWrite, ReEnabled
  <2>2. loop' = loop /\ tokens' = tokens
    BY <1>21 DEF EnableWrite
  <2>3. QED
    BY <2>1, <2>2
<1>22. ASSUME NEW a \in Admins, AdminAbort(a)
       PROVE  TokenSpentOnce'
  BY <1>22 DEF AdminAbort, Free
<1>23. CASE JobStart
  BY <1>23 DEF JobStart, Off, Enabled, Approved
<1>24. ASSUME NEW c \in Ids, JobDisable(c)
       PROVE  TokenSpentOnce'
  BY <1>24 DEF JobDisable, Disabled
<1>25. CASE JobCutoff
  BY <1>25 DEF JobCutoff
<1>26. CASE JobPurge
  BY <1>26 DEF JobPurge, Off
<1>27. CASE JobAbort
  BY <1>27 DEF JobAbort, Killed
<1>28. CASE Tick
  BY <1>28 DEF Tick
<1>29. CASE UNCHANGED vars
  BY <1>29 DEF vars
<1>30. QED
  BY <1>1, <1>2, <1>3, <1>4, <1>5, <1>6, <1>7, <1>8, <1>9, <1>10, <1>11,
     <1>12, <1>13, <1>14, <1>15, <1>16, <1>17, <1>18, <1>19, <1>20, <1>21,
     <1>22, <1>23, <1>24, <1>25, <1>26, <1>27, <1>28, <1>29
     DEF Next, LoopNext, AdminNext, JobStep

(* What was answered stays true of the client as long as it exists.        *)
LEMMA AnswerInvStep == TypeInv /\ IdsIssued /\ AnswerInv /\ [Next]_vars => AnswerInv'
<1> SUFFICES ASSUME TypeInv, IdsIssued, AnswerInv, [Next]_vars
             PROVE  AnswerInv'
  OBVIOUS
<1> USE DEF TypeInv, TypeOK, LoopTyped, AdminTyped, IdsIssued, AnswerInv, TokenAnswersAgree, Held, Rows, ClientRow, Request, TokenRow
<1>1. ASSUME NEW k \in Keys, RegisterPending(k)
      PROVE  AnswerInv'
  BY <1>1 DEF RegisterPending, Idle
<1>2. CASE CountPending
  BY <1>2 DEF CountPending, Idle
<1>3. ASSUME NEW c \in Ids, InsertPending(c)
      PROVE  AnswerInv'
  BY <1>3 DEF InsertPending, PendingRow
<1>4. ASSUME NEW k \in Keys, NEW t \in RegTokens, RegisterWithToken(k, t)
      PROVE  AnswerInv'
  BY <1>4 DEF RegisterWithToken, Idle
<1>5. ASSUME NEW c \in Ids, SpendToken(c)
      PROVE  AnswerInv'
  BY <1>5 DEF SpendToken, Spendable, Usable, TokenRow, ActiveRow
<1>6. CASE SpendRefused
  BY <1>6 DEF SpendRefused
<1>7. CASE Recheck
  <2>1. CASE Usable(loop.token, loop.at) /\ tokens[loop.token].client # Null
    <3>1. /\ loop'.token = loop.token /\ loop'.id = tokens[loop.token].client
          /\ loop'.pc = "fetch"
      BY <1>7, <2>1 DEF Recheck
    <3>2. tokens[loop.token] # Null
      BY <2>1 DEF Usable
    <3>3. QED
      BY <1>7, <3>1, <3>2 DEF Recheck
  <2>2. CASE ~(Usable(loop.token, loop.at) /\ tokens[loop.token].client # Null)
    BY <1>7, <2>2 DEF Recheck, Idle
  <2>3. QED
    BY <2>1, <2>2
<1>8. CASE FetchClient
  <2>1. CASE loop.token # Null /\ Answerable(loop.id, loop.key)
    <3>1. loop.token \in RegTokens
      BY <2>1
    <3>2. /\ told' = [told EXCEPT ![loop.token] = @ \cup {<<loop.key, loop.id>>}]
          /\ loop' = Idle
          /\ UNCHANGED <<now, issued, clients, tokens, admin, job>>
      BY <1>8, <2>1, Zenon DEF FetchClient
    <3>3. /\ tokens[loop.token] # Null /\ tokens[loop.token].client = loop.id
          /\ loop.id \in Rows /\ clients[loop.id].key = loop.key
      BY <1>8, <2>1 DEF FetchClient, Answerable
    <3>4. \A y \in told[loop.token] : y = <<loop.key, loop.id>>
      BY <3>1, <3>3
    <3>5. ASSUME NEW t \in RegTokens, NEW y \in told'[t]
          PROVE  y \in told[t] \/ (t = loop.token /\ y = <<loop.key, loop.id>>)
      <4>1. CASE t = loop.token
        BY <3>2, <4>1
      <4>2. CASE t # loop.token
        BY <3>2, <4>2
      <4>3. QED
        BY <4>1, <4>2
    <3>6. TokenAnswersAgree'
      <4>1. ASSUME NEW t \in RegTokens, NEW x \in told'[t], NEW y \in told'[t]
            PROVE  x = y
        <5>1. CASE t = loop.token
          BY <3>4, <3>5, <5>1
        <5>2. CASE t # loop.token
          BY <3>5, <5>2
        <5>3. QED
          BY <5>1, <5>2
      <4>2. QED
        BY <4>1
    <3>7. loop'.pc = "idle"
      BY <3>2 DEF Idle
    <3>8. QED
      BY <3>2, <3>3, <3>5, <3>6, <3>7
  <2>2. CASE ~(loop.token # Null /\ Answerable(loop.id, loop.key))
    BY <1>8, <2>2 DEF FetchClient, Idle
  <2>3. QED
    BY <2>1, <2>2
<1>9. ASSUME NEW c \in Ids, IssueToken(c)
      PROVE  AnswerInv'
  BY <1>9 DEF IssueToken, Idle, Enabled, Approved
<1>10. CASE TouchLastUsed
  BY <1>10 DEF TouchLastUsed, Idle
<1>11. CASE LoopAbort
  BY <1>11 DEF LoopAbort, Idle
<1>12. ASSUME NEW c \in Ids, NEW s \in Sites, Approve(c, s)
       PROVE  AnswerInv'
  BY <1>12 DEF Approve, Awaiting
<1>13. ASSUME NEW c \in Ids, RejectPending(c)
       PROVE  AnswerInv'
  BY <1>13 DEF RejectPending, Awaiting
<1>14. ASSUME NEW c \in Ids, DeletePending(c)
       PROVE  AnswerInv'
  BY <1>14 DEF DeletePending
<1>15. ASSUME NEW c \in Ids, DeleteDisabled(c)
       PROVE  AnswerInv'
  BY <1>15 DEF DeleteDisabled
<1>16. ASSUME NEW t \in RegTokens, NEW s \in Sites, CreateToken(t, s)
       PROVE  AnswerInv'
  BY <1>16 DEF CreateToken
<1>17. ASSUME NEW t \in RegTokens, RevokeToken(t)
       PROVE  AnswerInv'
  BY <1>17 DEF RevokeToken, Revocable, TokenRow
<1>18. ASSUME NEW a \in Admins, NEW c \in Ids, DisableRead(a, c)
       PROVE  AnswerInv'
  BY <1>18 DEF DisableRead, MayDisable, Approved
<1>19. ASSUME NEW a \in Admins, DisableWrite(a)
       PROVE  AnswerInv'
  BY <1>19 DEF DisableWrite, Disabled, Free
<1>20. ASSUME NEW a \in Admins, NEW c \in Ids, EnableRead(a, c)
       PROVE  AnswerInv'
  BY <1>20 DEF EnableRead, MayEnable, Approved
<1>21. ASSUME NEW a \in Admins, EnableWrite(a)
       PROVE  AnswerInv'
  BY <1>21 DEF EnableWrite, ReEnabled, Free
<1>22. ASSUME NEW a \in Admins, AdminAbort(a)
       PROVE  AnswerInv'
  BY <1>22 DEF AdminAbort, Free
<1>23. CASE JobStart
  BY <1>23 DEF JobStart, Off, Enabled, Approved
<1>24. ASSUME NEW c \in Ids, JobDisable(c)
       PROVE  AnswerInv'
  BY <1>24 DEF JobDisable, Disabled
<1>25. CASE JobCutoff
  BY <1>25 DEF JobCutoff
<1>26. CASE JobPurge
  BY <1>26 DEF JobPurge, Off
<1>27. CASE JobAbort
  BY <1>27 DEF JobAbort, Killed
<1>28. CASE Tick
  BY <1>28 DEF Tick
<1>29. CASE UNCHANGED vars
  BY <1>29 DEF vars
<1>30. QED
  BY <1>1, <1>2, <1>3, <1>4, <1>5, <1>6, <1>7, <1>8, <1>9, <1>10, <1>11,
     <1>12, <1>13, <1>14, <1>15, <1>16, <1>17, <1>18, <1>19, <1>20, <1>21,
     <1>22, <1>23, <1>24, <1>25, <1>26, <1>27, <1>28, <1>29
     DEF Next, LoopNext, AdminNext, JobStep

(* Between the count and the insert only other processes run, and they    *)
(* only take registrations out of the queue.                               *)
LEMMA CapInvStep == TypeInv /\ RowsInv /\ CapInv /\ [Next]_vars => CapInv'
<1> SUFFICES ASSUME TypeInv, RowsInv, CapInv, [Next]_vars
             PROVE  CapInv'
  OBVIOUS
<1>f. IsFiniteSet(Awaiting) /\ Cardinality(Awaiting) \in Nat
  BY FS_Subset, FS_CardinalityType DEF Awaiting, Rows
<1>s. ASSUME Awaiting' \subseteq Awaiting,
             loop'.pc = "insert" => loop.pc = "insert" \/ BelowLimit
      PROVE  CapInv'
  <2>1. Cardinality(Awaiting') <= Cardinality(Awaiting) /\ Cardinality(Awaiting') \in Nat
    BY <1>f, <1>s, FS_Subset, FS_CardinalityType
  <2>2. QED
    BY <1>f, <1>s, <2>1 DEF CapInv, PendingCap, BelowLimit
<1> USE DEF TypeInv, TypeOK, RowsInv, Held, Awaiting, Rows, Approved, ClientRow
<1>1. ASSUME NEW k \in Keys, RegisterPending(k)
      PROVE  CapInv'
  BY <1>s, <1>1 DEF RegisterPending, Idle
<1>2. CASE CountPending
  BY <1>s, <1>2 DEF CountPending, Idle
<1>3. ASSUME NEW c \in Ids, InsertPending(c)
      PROVE  CapInv'
  <2>1. Awaiting' \subseteq Awaiting \cup {c}
    BY <1>3 DEF InsertPending
  <2> HIDE DEF Awaiting
  <2>2. Cardinality(Awaiting \cup {c}) <= Cardinality(Awaiting) + 1
    <3>1. \/ Cardinality(Awaiting \cup {c}) = Cardinality(Awaiting)
          \/ Cardinality(Awaiting \cup {c}) = Cardinality(Awaiting) + 1
      BY ONLY <1>f, FS_AddElement
    <3>2. QED
      BY <1>f, <3>1
  <2>3. Cardinality(Awaiting') <= Cardinality(Awaiting \cup {c})
    BY <1>f, <2>1, FS_AddElement, FS_Subset
  <2>4. Cardinality(Awaiting) < MaxPending
    BY <1>3 DEF InsertPending, CapInv, BelowLimit
  <2>5. Cardinality(Awaiting') \in Nat /\ Cardinality(Awaiting \cup {c}) \in Nat
    BY <1>f, <2>1, FS_AddElement, FS_Subset, FS_CardinalityType
  <2>6. Cardinality(Awaiting') <= MaxPending
    BY <1>f, <2>2, <2>3, <2>4, <2>5
  <2>7. loop'.pc = "fetch"
    BY <1>3 DEF InsertPending, TypeInv, TypeOK, Request
  <2>8. QED
    BY <2>6, <2>7 DEF CapInv, PendingCap
<1>4. ASSUME NEW k \in Keys, NEW t \in RegTokens, RegisterWithToken(k, t)
      PROVE  CapInv'
  BY <1>s, <1>4 DEF RegisterWithToken, Idle
<1>5. ASSUME NEW c \in Ids, SpendToken(c)
      PROVE  CapInv'
  BY <1>s, <1>5 DEF SpendToken, Spendable, Usable, TokenRow, ActiveRow
<1>6. CASE SpendRefused
  BY <1>s, <1>6 DEF SpendRefused
<1>7. CASE Recheck
  BY <1>s, <1>7 DEF Recheck, Usable, Idle
<1>8. CASE FetchClient
  BY <1>s, <1>8 DEF FetchClient, Idle
<1>9. ASSUME NEW c \in Ids, IssueToken(c)
      PROVE  CapInv'
  BY <1>s, <1>9 DEF IssueToken, Idle, Enabled, Approved
<1>10. CASE TouchLastUsed
  BY <1>s, <1>10 DEF TouchLastUsed, Idle
<1>11. CASE LoopAbort
  BY <1>s, <1>11 DEF LoopAbort, Idle
<1>12. ASSUME NEW c \in Ids, NEW s \in Sites, Approve(c, s)
       PROVE  CapInv'
  <2>1. Awaiting' \subseteq Awaiting
    BY <1>12 DEF Approve, Awaiting, Rows, TypeInv, TypeOK, ClientRow
  <2>2. QED
    BY <1>12, <2>1, <1>s DEF Approve
<1>13. ASSUME NEW c \in Ids, RejectPending(c)
       PROVE  CapInv'
  BY <1>s, <1>13 DEF RejectPending, Awaiting
<1>14. ASSUME NEW c \in Ids, DeletePending(c)
       PROVE  CapInv'
  BY <1>s, <1>14 DEF DeletePending
<1>15. ASSUME NEW c \in Ids, DeleteDisabled(c)
       PROVE  CapInv'
  BY <1>s, <1>15 DEF DeleteDisabled
<1>16. ASSUME NEW t \in RegTokens, NEW s \in Sites, CreateToken(t, s)
       PROVE  CapInv'
  BY <1>s, <1>16 DEF CreateToken
<1>17. ASSUME NEW t \in RegTokens, RevokeToken(t)
       PROVE  CapInv'
  BY <1>s, <1>17 DEF RevokeToken, Revocable, TokenRow
<1>18. ASSUME NEW a \in Admins, NEW c \in Ids, DisableRead(a, c)
       PROVE  CapInv'
  BY <1>s, <1>18 DEF DisableRead, MayDisable, Approved
<1>19. ASSUME NEW a \in Admins, DisableWrite(a)
       PROVE  CapInv'
  BY <1>s, <1>19 DEF DisableWrite, Disabled, Free
<1>20. ASSUME NEW a \in Admins, NEW c \in Ids, EnableRead(a, c)
       PROVE  CapInv'
  BY <1>s, <1>20 DEF EnableRead, MayEnable, Approved
<1>21. ASSUME NEW a \in Admins, EnableWrite(a)
       PROVE  CapInv'
  BY <1>s, <1>21 DEF EnableWrite, ReEnabled, Free
<1>22. ASSUME NEW a \in Admins, AdminAbort(a)
       PROVE  CapInv'
  BY <1>s, <1>22 DEF AdminAbort, Free
<1>23. CASE JobStart
  BY <1>s, <1>23 DEF JobStart, Off, Enabled, Approved
<1>24. ASSUME NEW c \in Ids, JobDisable(c)
       PROVE  CapInv'
  BY <1>s, <1>24 DEF JobDisable, Disabled
<1>25. CASE JobCutoff
  BY <1>s, <1>25 DEF JobCutoff
<1>26. CASE JobPurge
  BY <1>s, <1>26 DEF JobPurge, Off
<1>27. CASE JobAbort
  BY <1>s, <1>27 DEF JobAbort, Killed
<1>28. CASE Tick
  BY <1>s, <1>28 DEF Tick
<1>29. CASE UNCHANGED vars
  BY <1>s, <1>29 DEF vars
<1>30. QED
  BY <1>1, <1>2, <1>3, <1>4, <1>5, <1>6, <1>7, <1>8, <1>9, <1>10, <1>11,
     <1>12, <1>13, <1>14, <1>15, <1>16, <1>17, <1>18, <1>19, <1>20, <1>21,
     <1>22, <1>23, <1>24, <1>25, <1>26, <1>27, <1>28, <1>29
     DEF Next, LoopNext, AdminNext, JobStep


-------------------------------------------------------------------------------
(* The inductive invariant, and what follows from it.                      *)

RegistryInv ==
    /\ TypeInv
    /\ IdsIssued
    /\ RowsInv
    /\ KeyInv
    /\ CapInv
    /\ TimeInv
    /\ TokenSpentOnce
    /\ AnswerInv

(* The empty database, with nobody at work, satisfies the invariant.       *)
LEMMA RegistryInvInit == Init => RegistryInv
<1> SUFFICES ASSUME Init
             PROVE  RegistryInv
  OBVIOUS
<1>1. TypeInv
  BY TypeInvInit
<1>2. Rows = {} /\ Held = {}
  BY DEF Init, Rows, Held, Idle, Free, Off
<1>3. IdsIssued
  BY <1>2 DEF Init, IdsIssued, Idle
<1>4. RowsInv
  BY <1>2 DEF RowsInv, RowsConsistent
<1>5. KeyInv
  BY <1>2 DEF Init, KeyInv, OnePendingPerKey, KnownKey, Idle
<1>6. CapInv
  <2>1. Cardinality(Awaiting) = 0
    BY <1>2, FS_EmptySet DEF Awaiting
  <2>2. loop.pc = "idle"
    BY DEF Init, Idle
  <2>3. QED
    BY <2>1, <2>2 DEF CapInv, PendingCap
<1>7. TimeInv
  BY <1>2 DEF Init, TimeInv, Idle, Off
<1>8. TokenSpentOnce
  BY <1>2 DEF TokenSpentOnce
<1>9. AnswerInv
  BY DEF Init, AnswerInv, TokenAnswersAgree, Idle
<1>10. QED
  BY <1>1, <1>3, <1>4, <1>5, <1>6, <1>7, <1>8, <1>9 DEF RegistryInv

(* Every step of the loop, an admin, the job and a failure keeps it.       *)
LEMMA RegistryInvStep == RegistryInv /\ [Next]_vars => RegistryInv'
BY TypeInvStep, IdsIssuedStep, RowsInvStep, KeyInvStep, CapInvStep, TimeInvStep,
   TokenInvStep, AnswerInvStep DEF RegistryInv

(* So it holds in every state the registry can reach.                      *)
LEMMA RegistryInvariant == Spec => []RegistryInv
BY RegistryInvInit, RegistryInvStep, PTL DEF Spec

(* The columns of every row tell one story, although disable and enable    *)
(* update by id alone what they, or the job, read before.                  *)
THEOREM ConsistentRows == Spec => []RowsConsistent
<1>1. RegistryInv => RowsConsistent
  BY DEF RegistryInv, RowsInv
<1>2. QED
  BY RegistryInvariant, <1>1, PTL

(* The queue never exceeds its limit, although it is counted before the    *)
(* insert and outside a transaction.                                       *)
THEOREM CapHolds == Spec => []PendingCap
<1>1. RegistryInv => PendingCap
  BY DEF RegistryInv, CapInv
<1>2. QED
  BY RegistryInvariant, <1>1, PTL

(* No key has two registrations that were never approved.                  *)
THEOREM NoDuplicates == Spec => []OnePendingPerKey
<1>1. RegistryInv => OnePendingPerKey
  BY DEF RegistryInv, KeyInv
<1>2. QED
  BY RegistryInvariant, <1>1, PTL

(* A registration token makes at most one client, for its site and in its  *)
(* time.                                                                   *)
THEOREM OneClientPerToken == Spec => []TokenSpentOnce
<1>1. RegistryInv => TokenSpentOnce
  BY DEF RegistryInv
<1>2. QED
  BY RegistryInvariant, <1>1, PTL

(* All the 201s a token ever got name one client and went to one key.      *)
THEOREM OneAnswerPerToken == Spec => []TokenAnswersAgree
<1>1. RegistryInv => TokenAnswersAgree
  BY DEF RegistryInv, AnswerInv
<1>2. QED
  BY RegistryInvariant, <1>1, PTL

(* Whom the job cuts off was idle when it made its list, whatever happened *)
(* to the row since, but for a use after that.                             *)
THEOREM ListedWereIdle == Spec => IdleWhenListed
<1> DEFINE Cut == \A c \in Ids : (JobDisable(c) /\ c \in Rows) =>
                      LET row == clients[c]
                          cutoff == job.before
                      IN  /\ row.created <= cutoff
                          /\ \/ row.lastUsed = Null
                             \/ row.lastUsed <= cutoff
                             \/ row.lastUsed >= cutoff + IdleAfter
<1>1. RegistryInv => Cut
  BY DEF RegistryInv, TimeInv, Listed, JobDisable
<1>2. QED
  BY RegistryInvariant, <1>1, PTL DEF IdleWhenListed
===============================================================================

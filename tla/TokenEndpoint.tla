----------------------------- MODULE TokenEndpoint ----------------------------
(***************************************************************************)
(* POST /token: a client assertion is verified against the clock, its jti  *)
(* is remembered in used_assertions, and only then a token is minted.      *)
(* Rows that can no longer be replayed are purged on the way, so the clock *)
(* is read twice in one request: when the assertion is verified and when   *)
(* the purge's cut-off is computed.                                        *)
(*                                                                         *)
(* All of it runs on the event loop without an await, so one request is in *)
(* progress at a time (loop); the admins change the client's row in        *)
(* between, and the request may die after any statement.                   *)
(*                                                                         *)
(* Time is in whole seconds, which loses nothing: exp is an integer, so    *)
(* exp > now - Leeway and exp <= now + MaxLifetime hold of a fractional    *)
(* now exactly if they hold of its floor, and the cut-off is the floor.    *)
(* The clock does not run backwards.                                       *)
(***************************************************************************)
EXTENDS Integers

CONSTANTS
    Clients,        \* registered clients
    Jtis,           \* the jti values clients choose
    Leeway,         \* ASSERTION_LEEWAY_SECONDS
    MaxLifetime,    \* ASSERTION_MAX_LIFETIME_SECONDS
    Stall,          \* seconds that may begin between the two clock readings
    MaxTime,        \* bound of the model: the clock stops here
    Null

VARIABLES
    now,        \* the wall clock
    status,     \* the client's row: what issue_token tells apart
    used,       \* used_assertions: for (client, jti) the exp stored, or Null
    loop,       \* the request in progress
    uses        \* history: how often each assertion was accepted

vars == <<now, status, used, loop, uses>>

Times == 0 .. MaxTime

Exps == 0 .. MaxTime + MaxLifetime

Assertions == [client : Clients, jti : Jtis, exp : Exps]

Request == [pc        : {"idle", "verified", "purge", "record", "answer"},
            assertion : Assertions \cup {Null},
            pending   : {0, 1},     \* the row as read at the start
            at        : Times,      \* when the assertion was verified
            cutoff    : (0 - Leeway) .. MaxTime]    \* purge_before

ASSUME ConstantsAssumption ==
    /\ Leeway \in Nat /\ MaxLifetime \in Nat /\ Stall \in Nat /\ MaxTime \in Nat
    /\ Null \notin Assertions /\ Null \notin Exps

TypeOK ==
    /\ now \in Times
    /\ status \in [Clients -> {"pending", "approved", "disabled"}]
    /\ used \in [Clients -> [Jtis -> Exps \cup {Null}]]
    /\ loop \in Request
    /\ uses \in [Assertions -> Nat]

Idle == [pc |-> "idle", assertion |-> Null, pending |-> 0, at |-> 0, cutoff |-> 0]

Init ==
    /\ now = 0
    /\ status = [c \in Clients |-> "pending"]
    /\ used = [c \in Clients |-> [j \in Jtis |-> Null]]
    /\ loop = Idle
    /\ uses = [a \in Assertions |-> 0]

-------------------------------------------------------------------------------

(* What jwt.decode and the lifetime check ask of an assertion whose        *)
(* signature, issuer, subject and audience are right.                      *)
TimelyWithoutLimit(a) == a.exp > now - Leeway

Timely(a) == a.exp > now - Leeway /\ a.exp <= now + MaxLifetime

Verify(a) ==
    /\ loop.pc = "idle"
    /\ status[a.client] \in {"pending", "approved"}
    /\ Timely(a)
    /\ loop' = [pc |-> "verified", assertion |-> a,
                pending |-> IF status[a.client] = "pending" THEN 1 ELSE 0,
                at |-> now, cutoff |-> 0]
    /\ UNCHANGED <<now, status, used, uses>>

CutoffWithoutLeeway == now

CutoffLeewayAdded == now + Leeway

Cutoff == now - Leeway

ComputeCutoff ==
    /\ loop.pc = "verified"
    /\ loop' = [loop EXCEPT !.pc = "purge", !.cutoff = Cutoff]
    /\ UNCHANGED <<now, status, used, uses>>

(* The DELETE of record_assertion: every client's old rows. *)
Purge ==
    /\ loop.pc = "purge"
    /\ used' = [c \in Clients |-> [j \in Jtis |->
                    IF used[c][j] # Null /\ used[c][j] < loop.cutoff
                      THEN Null ELSE used[c][j]]]
    /\ loop' = [loop EXCEPT !.pc = "record"]
    /\ UNCHANGED <<now, status, uses>>

(* The primary key is (client_id, jti). *)
TakenByAnyClient(a) == \E c \in Clients : used[c][a.jti] # Null

Taken(a) == used[a.client][a.jti] # Null

(* The INSERT of record_assertion; a duplicate is refused with 401. *)
Record ==
    /\ loop.pc = "record"
    /\ IF Taken(loop.assertion)
         THEN /\ loop' = Idle
              /\ UNCHANGED <<used, uses>>
         ELSE /\ used' = [used EXCEPT ![loop.assertion.client][loop.assertion.jti] =
                              loop.assertion.exp]
              /\ uses' = [uses EXCEPT ![loop.assertion] = @ + 1]
              /\ loop' = [loop EXCEPT !.pc = "answer"]
    /\ UNCHANGED <<now, status>>

(* authorization_pending if the row read at the start was pending, else a  *)
(* token is minted and last_used_at is set (Registry models that column).  *)
Answer ==
    /\ loop.pc = "answer"
    /\ loop' = Idle
    /\ UNCHANGED <<now, status, used, uses>>

Abort ==
    /\ loop.pc # "idle"
    /\ loop' = Idle
    /\ UNCHANGED <<now, status, used, uses>>

(* The admins and the expire job; Registry models how.  A deleted client   *)
(* is refused like a disabled one.                                         *)
Decide(c, s) ==
    /\ status[c] # s
    /\ s # "pending"
    /\ status' = [status EXCEPT ![c] = s]
    /\ UNCHANGED <<now, used, loop, uses>>

Tick ==
    /\ now < MaxTime
    /\ loop.pc = "verified" => now < loop.at + Stall
    /\ now' = now + 1
    /\ UNCHANGED <<status, used, loop, uses>>

Next ==
    \/ \E a \in Assertions : Verify(a)
    \/ ComputeCutoff
    \/ Purge
    \/ Record
    \/ Answer
    \/ Abort
    \/ \E c \in Clients, s \in {"approved", "disabled"} : Decide(c, s)
    \/ Tick

Spec == Init /\ [][Next]_vars

-------------------------------------------------------------------------------

(* README: "each jti is accepted once per client".  No assertion is ever   *)
(* accepted twice: not when it is sent again right away, not around the    *)
(* second in which its row is purged, not after a crash in between.        *)
AcceptedOnce == \A a \in Assertions : uses[a] <= 1

(* The purge never forgets an assertion that would still verify.           *)
ReplayableOnRecord ==
    \A a \in Assertions :
        uses[a] > 0 /\ a.exp > now - Leeway => used[a.client][a.jti] = a.exp

(* An assertion is refused as a replay only if its own client really used  *)
(* that jti: clients do not block each other's jti values.                 *)
RecordsAreOwn ==
    loop.pc = "record" /\ Taken(loop.assertion) =>
        \E e \in Exps : uses[[loop.assertion EXCEPT !.exp = e]] > 0

(* A row is remembered for at most lifetime plus leeway: what is on record *)
(* when a request has purged expired no longer ago than the leeway, and    *)
(* expires no later than the longest lifetime from now.                    *)
RecordsBounded ==
    \A c \in Clients, j \in Jtis :
        used[c][j] # Null =>
            /\ used[c][j] <= now + MaxLifetime
            /\ loop.pc = "record" => used[c][j] >= loop.at - Leeway
===============================================================================

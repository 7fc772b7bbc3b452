------------------------------- MODULE Registry -------------------------------
(***************************************************************************)
(* The registry's database and everything that writes its clients and      *)
(* registration_tokens tables at the same time:                            *)
(*                                                                         *)
(*  - the event loop of the one portal process, which runs the database    *)
(*    part of /register and /token between two awaits.  Two such parts     *)
(*    never overlap, so one record (loop) holds the one in progress;       *)
(*  - the admin handlers, plain functions run by a thread pool;            *)
(*  - the nightly expire job, a process of its own, at most one at a time. *)
(*                                                                         *)
(* Connections are in autocommit mode (db.connect), so each SQL statement  *)
(* is one step, and a handler of several statements is several steps that  *)
(* the others interleave with.  Only register_client is a transaction.     *)
(* Any step may be a handler's or the job's last: a crash, a busy database *)
(* and a deadline all drop the local state and leave what was written.     *)
(*                                                                         *)
(* Time is counted in units of which the time limits are multiples.        *)
(***************************************************************************)
EXTENDS Integers, FiniteSets

CONSTANTS
    Ids,            \* client ids: random, so never generated twice
    Keys,           \* public keys, named by their thumbprint
    Sites,          \* display labels
    RegTokens,      \* registration tokens: random, so never generated twice
    Admins,         \* admin requests that may be in progress at once
    AllowPending,   \* ALLOW_PENDING_REGISTRATION
    MaxPending,     \* MAX_PENDING_CLIENTS
    PendingTTL,     \* PENDING_CLIENT_TTL_SECONDS
    TokenTTL,       \* REGISTRATION_TOKEN_TTL_SECONDS
    IdleAfter,      \* IDLE_DAYS
    MaxTime,        \* bound of the model: the clock stops here
    Null            \* SQL's NULL, and the absence of a row

VARIABLES
    now,        \* the wall clock
    issued,     \* client ids generated so far
    clients,    \* the clients table: a row or Null for every client id
    tokens,     \* the registration_tokens table, likewise
    told,       \* for each token, the (key, client id) pairs answered with 201
    loop,       \* the /register or /token request the event loop is in
    admin,      \* the disable or enable requests in progress
    job         \* the expire job

vars == <<now, issued, clients, tokens, told, loop, admin, job>>

Times == 0 .. MaxTime

Flag == {0, 1}

Reasons == {"rejected", "disabled-by-admin", "idle"}

ClientRow == [key      : Keys,
              site     : Sites \cup {Null},
              pending  : Flag,
              disabled : Flag,
              reason   : Reasons \cup {Null},
              created  : Times,
              lastUsed : Times \cup {Null},
              via      : RegTokens \cup {Null}]  \* history: the token spent

TokenRow == [site    : Sites,
             expires : 0 .. MaxTime + TokenTTL,
             client  : Ids \cup {Null},          \* client_id and used_at
             revoked : Flag]

Request == [pc    : {"idle", "count", "insert", "spend", "recheck", "fetch",
                     "touch"},
            key   : Keys \cup {Null},
            token : RegTokens \cup {Null},
            id    : Ids \cup {Null},
            at    : Times]

AdminRequest == [op : {"none", "disable", "enable"}, id : Ids \cup {Null}]

Job == [pc     : {"off", "disabling", "purging", "killed"},
        todo   : SUBSET Ids,
        before : Int]

ASSUME ConstantsAssumption ==
    /\ IsFiniteSet(Ids)
    /\ AllowPending \in BOOLEAN
    /\ MaxPending \in Nat /\ PendingTTL \in Nat /\ TokenTTL \in Nat
    /\ IdleAfter \in Nat /\ MaxTime \in Nat
    /\ Null \notin Ids \cup Keys \cup Sites \cup RegTokens
    /\ Null \notin Times /\ Null \notin Reasons
    /\ Null \notin ClientRow /\ Null \notin TokenRow

TypeOK ==
    /\ now \in Times
    /\ issued \in SUBSET Ids
    /\ clients \in [Ids -> ClientRow \cup {Null}]
    /\ tokens \in [RegTokens -> TokenRow \cup {Null}]
    /\ told \in [RegTokens -> SUBSET (Keys \X Ids)]
    /\ loop \in Request
    /\ admin \in [Admins -> AdminRequest]
    /\ job \in Job

Idle == [pc |-> "idle", key |-> Null, token |-> Null, id |-> Null, at |-> 0]

Free == [op |-> "none", id |-> Null]

Off == [pc |-> "off", todo |-> {}, before |-> 0]

Killed == [pc |-> "killed", todo |-> {}, before |-> 0]

Init ==
    /\ now = 0
    /\ issued = {}
    /\ clients = [c \in Ids |-> Null]
    /\ tokens = [t \in RegTokens |-> Null]
    /\ told = [t \in RegTokens |-> {}]
    /\ loop = Idle
    /\ admin = [a \in Admins |-> Free]
    /\ job = Off

-------------------------------------------------------------------------------
(* Queries.                                                                *)

Rows == {c \in Ids : clients[c] # Null}

(* Registrations awaiting approval, which the limit counts. *)
Awaiting == {c \in Rows : clients[c].pending = 1 /\ clients[c].disabled = 0}

Approved == {c \in Rows : clients[c].pending = 0}

Enabled == {c \in Approved : clients[c].disabled = 0}

(* The lookup by thumbprint sees every row with the key, whatever its      *)
(* status, so a rejected key is found again.                               *)
KnownKeyForgetsRejected(k) ==
    \E c \in Rows : clients[c].key = k /\ clients[c].disabled = 0

KnownKey(k) == \E c \in Rows : clients[c].key = k

BelowLimitOffByOne == Cardinality(Awaiting) <= MaxPending

BelowLimit == Cardinality(Awaiting) < MaxPending

(* A token that exists, is not revoked and not expired at time m. *)
Usable(t, m) ==
    /\ tokens[t] # Null
    /\ tokens[t].revoked = 0
    /\ tokens[t].expires > m

(* The condition of the UPDATE that spends it. *)
SpendableTwice(t, m) == Usable(t, m)

Spendable(t, m) == Usable(t, m) /\ tokens[t].client = Null

(* The last time a client was active, and whether that is long ago. *)
LastActiveIsCreation(c) == clients[c].created

LastActiveSkipsUnused(c) ==
    IF clients[c].lastUsed # Null THEN clients[c].lastUsed ELSE now

LastActive(c) ==
    IF clients[c].lastUsed # Null THEN clients[c].lastUsed ELSE clients[c].created

LongIdle(c) == LastActive(c) <= now - IdleAfter

-------------------------------------------------------------------------------
(* POST /register without a token: find the key, count, insert, read back. *)

PendingRow(k) ==
    [key |-> k, site |-> Null, pending |-> 1, disabled |-> 0, reason |-> Null,
     created |-> now, lastUsed |-> Null, via |-> Null]

(* A known key is answered with its client at once. *)
RegisterPending(k) ==
    /\ loop.pc = "idle"
    /\ AllowPending
    /\ ~KnownKey(k)
    /\ loop' = [Idle EXCEPT !.pc = "count", !.key = k]
    /\ UNCHANGED <<now, issued, clients, tokens, told, admin, job>>

CountPending ==
    /\ loop.pc = "count"
    /\ loop' = IF BelowLimit THEN [loop EXCEPT !.pc = "insert"] ELSE Idle
    /\ UNCHANGED <<now, issued, clients, tokens, told, admin, job>>

InsertPending(c) ==
    /\ loop.pc = "insert"
    /\ c \notin issued
    /\ issued' = issued \cup {c}
    /\ clients' = [clients EXCEPT ![c] = PendingRow(loop.key)]
    /\ loop' = [loop EXCEPT !.pc = "fetch", !.id = c]
    /\ UNCHANGED <<now, tokens, told, admin, job>>

-------------------------------------------------------------------------------
(* POST /register with a token: check it, spend it, and if it could not be *)
(* spent see whether this very key spent it before.                        *)

ActiveRow(k, t, m) ==
    [key |-> k, site |-> tokens[t].site, pending |-> 0, disabled |-> 0,
     reason |-> Null, created |-> m, lastUsed |-> Null, via |-> t]

RegisterWithToken(k, t) ==
    /\ loop.pc = "idle"
    /\ Usable(t, now)
    /\ loop' = [Idle EXCEPT !.pc = "spend", !.key = k, !.token = t, !.at = now]
    /\ UNCHANGED <<now, issued, clients, tokens, told, admin, job>>

(* The transaction of register_client. *)
SpendToken(c) ==
    /\ loop.pc = "spend"
    /\ Spendable(loop.token, loop.at)
    /\ c \notin issued
    /\ issued' = issued \cup {c}
    /\ clients' = [clients EXCEPT ![c] = ActiveRow(loop.key, loop.token, loop.at)]
    /\ tokens' = [tokens EXCEPT ![loop.token].client = c]
    /\ loop' = [loop EXCEPT !.pc = "fetch", !.id = c]
    /\ UNCHANGED <<now, told, admin, job>>

SpendRefused ==
    /\ loop.pc = "spend"
    /\ ~Spendable(loop.token, loop.at)
    /\ loop' = [loop EXCEPT !.pc = "recheck"]
    /\ UNCHANGED <<now, issued, clients, tokens, told, admin, job>>

Recheck ==
    /\ loop.pc = "recheck"
    /\ loop' = IF Usable(loop.token, loop.at) /\ tokens[loop.token].client # Null
                 THEN [loop EXCEPT !.pc = "fetch", !.id = tokens[loop.token].client]
                 ELSE Idle
    /\ UNCHANGED <<now, issued, clients, tokens, told, admin, job>>

(* The row the 201 is made from.  It may be gone by now, and after a       *)
(* refused spend it must have the caller's key; otherwise there is no 201. *)
AnswerableToAnyKey(c, k) == c \in Rows

Answerable(c, k) == c \in Rows /\ clients[c].key = k

FetchClient ==
    /\ loop.pc = "fetch"
    /\ told' = IF loop.token # Null /\ Answerable(loop.id, loop.key)
                 THEN [told EXCEPT ![loop.token] = @ \cup {<<loop.key, loop.id>>}]
                 ELSE told
    /\ loop' = Idle
    /\ UNCHANGED <<now, issued, clients, tokens, admin, job>>

-------------------------------------------------------------------------------
(* POST /token: read the client, verify and record the assertion (see      *)
(* TokenEndpoint), mint, and only then note the use.                       *)

IssueToken(c) ==
    /\ loop.pc = "idle"
    /\ c \in Enabled
    /\ loop' = [Idle EXCEPT !.pc = "touch", !.id = c]
    /\ UNCHANGED <<now, issued, clients, tokens, told, admin, job>>

TouchLastUsed ==
    /\ loop.pc = "touch"
    /\ clients' = IF loop.id \in Rows
                    THEN [clients EXCEPT ![loop.id].lastUsed = now]
                    ELSE clients
    /\ loop' = Idle
    /\ UNCHANGED <<now, issued, tokens, told, admin, job>>

-------------------------------------------------------------------------------
(* The admin handlers of one statement: approve, reject, delete, create    *)
(* and revoke a registration token.                                        *)

Approve(c, s) ==
    /\ c \in Awaiting
    /\ clients' = [clients EXCEPT ![c].pending = 0, ![c].site = s]
    /\ UNCHANGED <<now, issued, tokens, told, loop, admin, job>>

RejectPending(c) ==
    /\ c \in Awaiting
    /\ clients' = [clients EXCEPT ![c].disabled = 1, ![c].reason = "rejected"]
    /\ UNCHANGED <<now, issued, tokens, told, loop, admin, job>>

(* Waiting or rejected: either may be forgotten. *)
DeletePending(c) ==
    /\ c \in Rows \ Approved
    /\ clients' = [clients EXCEPT ![c] = Null]
    /\ UNCHANGED <<now, issued, tokens, told, loop, admin, job>>

DeleteDisabled(c) ==
    /\ c \in Approved \ Enabled
    /\ clients' = [clients EXCEPT ![c] = Null]
    /\ UNCHANGED <<now, issued, tokens, told, loop, admin, job>>

ExpiryOneLate == now + TokenTTL + 1

Expiry == now + TokenTTL

CreateToken(t, s) ==
    /\ tokens[t] = Null
    /\ tokens' = [tokens EXCEPT ![t] = [site |-> s, expires |-> Expiry,
                                        client |-> Null, revoked |-> 0]]
    /\ UNCHANGED <<now, issued, clients, told, loop, admin, job>>

RevocableAfterUse(t) == tokens[t] # Null /\ tokens[t].revoked = 0

Revocable(t) == tokens[t] # Null /\ tokens[t].revoked = 0 /\ tokens[t].client = Null

RevokeToken(t) ==
    /\ Revocable(t)
    /\ tokens' = [tokens EXCEPT ![t].revoked = 1]
    /\ UNCHANGED <<now, issued, clients, told, loop, admin, job>>

-------------------------------------------------------------------------------
(* The admin handlers that read a row and then update it by its id alone.  *)

(* UPDATE ... WHERE client_id = c, whatever the row says by now. *)
Disabled(c, reason) ==
    IF c \in Rows
      THEN [clients EXCEPT ![c].disabled = 1, ![c].reason = reason]
      ELSE clients

ReEnabled(c) ==
    IF c \in Rows
      THEN [clients EXCEPT ![c].disabled = 0, ![c].reason = Null]
      ELSE clients

MayDisableAnyRow(c) == c \in Rows

MayDisable(c) == c \in Approved

MayEnableRejected(c) == c \in Rows /\ clients[c].disabled = 1

MayEnable(c) == c \in Approved /\ clients[c].disabled = 1

DisableRead(a, c) ==
    /\ admin[a] = Free
    /\ MayDisable(c)
    /\ admin' = [admin EXCEPT ![a] = [op |-> "disable", id |-> c]]
    /\ UNCHANGED <<now, issued, clients, tokens, told, loop, job>>

DisableWrite(a) ==
    /\ admin[a].op = "disable"
    /\ clients' = Disabled(admin[a].id, "disabled-by-admin")
    /\ admin' = [admin EXCEPT ![a] = Free]
    /\ UNCHANGED <<now, issued, tokens, told, loop, job>>

EnableRead(a, c) ==
    /\ admin[a] = Free
    /\ MayEnable(c)
    /\ admin' = [admin EXCEPT ![a] = [op |-> "enable", id |-> c]]
    /\ UNCHANGED <<now, issued, clients, tokens, told, loop, job>>

EnableWrite(a) ==
    /\ admin[a].op = "enable"
    /\ clients' = ReEnabled(admin[a].id)
    /\ admin' = [admin EXCEPT ![a] = Free]
    /\ UNCHANGED <<now, issued, tokens, told, loop, job>>

-------------------------------------------------------------------------------
(* The expire job: list the idle clients by a cut-off, disable them one by *)
(* one, then delete the registrations nobody approved by another.          *)

JobStart ==
    /\ job.pc \in {"off", "killed"}
    /\ job' = [pc |-> "disabling", todo |-> {c \in Enabled : LongIdle(c)},
               before |-> now - IdleAfter]
    /\ UNCHANGED <<now, issued, clients, tokens, told, loop, admin>>

JobDisable(c) ==
    /\ job.pc = "disabling"
    /\ c \in job.todo
    /\ clients' = Disabled(c, "idle")
    /\ job' = [job EXCEPT !.todo = @ \ {c}]
    /\ UNCHANGED <<now, issued, tokens, told, loop, admin>>

(* The cut-off is computed, then used in the DELETE. *)
JobCutoff ==
    /\ job.pc = "disabling"
    /\ job.todo = {}
    /\ job' = [job EXCEPT !.pc = "purging", !.before = now - PendingTTL]
    /\ UNCHANGED <<now, issued, clients, tokens, told, loop, admin>>

StaleRejected(m) == {c \in Rows \ Awaiting : clients[c].pending = 1
                                             /\ clients[c].created < m}

Stale(m) == {c \in Awaiting : clients[c].created < m}

JobPurge ==
    /\ job.pc = "purging"
    /\ clients' = [c \in Ids |-> IF c \in Stale(job.before) THEN Null ELSE clients[c]]
    /\ job' = Off
    /\ UNCHANGED <<now, issued, tokens, told, loop, admin>>

-------------------------------------------------------------------------------
(* Failures: a restart, a busy database or the job's deadline.             *)

LoopAbort ==
    /\ loop.pc # "idle"
    /\ loop' = Idle
    /\ UNCHANGED <<now, issued, clients, tokens, told, admin, job>>

AdminAbort(a) ==
    /\ admin[a] # Free
    /\ admin' = [admin EXCEPT ![a] = Free]
    /\ UNCHANGED <<now, issued, clients, tokens, told, loop, job>>

JobAbort ==
    /\ job.pc \in {"disabling", "purging"}
    /\ job' = Killed
    /\ UNCHANGED <<now, issued, clients, tokens, told, loop, admin>>

Tick ==
    /\ now < MaxTime
    /\ now' = now + 1
    /\ UNCHANGED <<issued, clients, tokens, told, loop, admin, job>>

-------------------------------------------------------------------------------

LoopNext ==
    \/ \E k \in Keys : RegisterPending(k)
    \/ CountPending
    \/ \E c \in Ids : InsertPending(c)
    \/ \E k \in Keys, t \in RegTokens : RegisterWithToken(k, t)
    \/ \E c \in Ids : SpendToken(c)
    \/ SpendRefused
    \/ Recheck
    \/ FetchClient
    \/ \E c \in Ids : IssueToken(c)
    \/ TouchLastUsed
    \/ LoopAbort

AdminNext ==
    \/ \E c \in Ids, s \in Sites : Approve(c, s)
    \/ \E c \in Ids : RejectPending(c)
    \/ \E c \in Ids : DeletePending(c)
    \/ \E c \in Ids : DeleteDisabled(c)
    \/ \E t \in RegTokens, s \in Sites : CreateToken(t, s)
    \/ \E t \in RegTokens : RevokeToken(t)
    \/ \E a \in Admins, c \in Ids : DisableRead(a, c)
    \/ \E a \in Admins : DisableWrite(a)
    \/ \E a \in Admins, c \in Ids : EnableRead(a, c)
    \/ \E a \in Admins : EnableWrite(a)
    \/ \E a \in Admins : AdminAbort(a)

JobStep ==
    \/ JobStart
    \/ \E c \in Ids : JobDisable(c)
    \/ JobCutoff
    \/ JobPurge

Next == LoopNext \/ AdminNext \/ JobStep \/ JobAbort \/ Tick

Spec == Init /\ [][Next]_vars
-------------------------------------------------------------------------------
(* Safety.                                                                 *)

Consistent(row) ==
    IF row.pending = 1
      THEN /\ row.site = Null /\ row.via = Null /\ row.lastUsed = Null
           /\ \/ row.disabled = 0 /\ row.reason = Null
              \/ row.disabled = 1 /\ row.reason = "rejected"
      ELSE /\ row.site # Null
           /\ \/ row.disabled = 0 /\ row.reason = Null
              \/ row.disabled = 1 /\ row.reason \in {"disabled-by-admin", "idle"}

(* The columns of a row always tell one story: a registration not yet      *)
(* approved has no site and is disabled exactly if it was rejected; an     *)
(* approved client has a site, and is disabled exactly if a reason other   *)
(* than rejection says so.  The dashboard's three lists rest on it, and    *)
(* disable_client and enable_client, which update by id alone, could       *)
(* break it.                                                               *)
RowsConsistent == \A c \in Rows : Consistent(clients[c])

(* At most MAX_PENDING_CLIENTS registrations wait at once, although the    *)
(* count and the insert of _register_pending are separate statements.      *)
PendingCap == Cardinality(Awaiting) <= MaxPending

(* A key has at most one registration that was never approved: retries do  *)
(* not pile up, and a rejected key does not wait again beside its          *)
(* rejection.                                                              *)
OnePendingPerKey ==
    \A c, d \in Rows \ Approved : clients[c].key = clients[d].key => c = d

(* A registration token makes at most one client, for the token's own      *)
(* site, before it expires, and is then never revoked.                     *)
TokenSpentOnce ==
    \A c \in Rows :
        clients[c].via # Null =>
            LET row == clients[c]
                token == tokens[row.via]
            IN  /\ token # Null
                /\ token.client = c
                /\ token.revoked = 0
                /\ row.site = token.site
                /\ row.created < token.expires

(* However often /register is retried with one token, by whichever key,    *)
(* every 201 names the same client and went to the same key.               *)
TokenAnswersAgree ==
    \A t \in RegTokens : \A x, y \in told[t] : x = y

(* Whom the job cuts off as idle was idle when it made its list: created   *)
(* and last used no later than its cut-off, whatever admins, uses and      *)
(* restarts came in between.  A use since the list was made is no defence, *)
(* which is the race JobAffectsOnlyIdle shows; one before it is.           *)
IdleWhenListed ==
    [][\A c \in Ids : (JobDisable(c) /\ c \in Rows) =>
          LET row == clients[c]
              cutoff == job.before
          IN  /\ row.created <= cutoff
              /\ \/ row.lastUsed = Null
                 \/ row.lastUsed <= cutoff
                 \/ row.lastUsed >= cutoff + IdleAfter]_vars

-------------------------------------------------------------------------------
(* The registry implements the enrollment contract.                        *)

StageOf(c) ==
    IF c \notin issued THEN "fresh"
    ELSE IF c \notin Rows THEN "gone"
    ELSE IF c \in Awaiting THEN "waiting"
    ELSE IF c \notin Approved THEN "rejected"
    ELSE IF c \in Enabled THEN "active" ELSE "suspended"

LabelOf(c) == IF c \in Rows THEN clients[c].site ELSE Null

InvitationOf(t) ==
    IF tokens[t] = Null THEN [status |-> "none", site |-> Null]
    ELSE [status |-> IF tokens[t].client # Null THEN "spent"
                     ELSE IF tokens[t].revoked = 1 THEN "withdrawn" ELSE "open",
          site |-> tokens[t].site]

E == INSTANCE Enrollment WITH
         stage <- [c \in Ids |-> StageOf(c)],
         label <- [c \in Ids |-> LabelOf(c)],
         invitation <- [t \in RegTokens |-> InvitationOf(t)]

(* Every step of a handler or of the job is one step of the contract or    *)
(* none: nothing returns from rejection, suspension or deletion except     *)
(* through the admin operation made for it, and a working client is never  *)
(* removed.                                                                *)
Lifecycle == E!Spec

(* expire.py: "disable credentials unused for IDLE_DAYS" and "Only         *)
(* currently-enabled, approved rows are affected".  Every client the job   *)
(* disables is, at that moment, approved, enabled and unused that long.    *)
JobAffectsOnlyIdle ==
    [][\A c \in Ids : (JobDisable(c) /\ c \in Rows) => (c \in Enabled /\ LongIdle(c))]_vars

-------------------------------------------------------------------------------
(* Liveness.  Nobody has to use the registry; only the job has to run, and *)
(* to get through at last without being killed.                            *)

FairSpec ==
    /\ Spec
    /\ WF_vars(JobStep)
    /\ WF_vars(Tick)
    /\ <>[](job.pc # "killed")

(* A registration nobody decides on does not wait forever.                 *)
StaleGoes ==
    \A c \in Ids : (c \in Awaiting /\ clients[c].created < now - PendingTTL)
                       ~> (c \notin Awaiting)

Unused(c) ==
    /\ clients[c].created <= now - IdleAfter
    /\ clients[c].lastUsed = Null \/ clients[c].lastUsed <= now - IdleAfter

(* A client that stays unused, or was never used, does not stay enabled    *)
(* forever.                                                                *)
IdleStops ==
    \A c \in Ids : (c \in Enabled /\ Unused(c)) ~> ~(c \in Enabled /\ Unused(c))
===============================================================================

---------------------------- MODULE ReportEndpoint ----------------------------
(***************************************************************************)
(* POST /report and the client_reports table.                              *)
(*                                                                         *)
(* A report's access token is checked first; then the handler awaits the   *)
(* body, and other requests, the admins and the clock go on; then it       *)
(* stores the report and trims the client's old ones, two statements with  *)
(* no await between them.  Several requests can be in progress, and only   *)
(* one of them between its two statements.  The admins disable, enable and *)
(* delete clients, and the foreign key takes a deleted client's reports    *)
(* with it.  The expire job drops what clients that stopped reporting left *)
(* behind, except each one's latest report.                                *)
(***************************************************************************)
EXTENDS Integers, FiniteSets

CONSTANTS
    Clients,        \* clients with an access token
    Requests,       \* /report requests that may be in progress at once
    Retention,      \* METRICS_RETENTION_HOURS
    MaxTime,        \* bound of the model: the clock stops here
    Null

VARIABLES
    now,        \* the wall clock
    status,     \* the client's row
    reports,    \* client_reports: (client, received_at) is its primary key
    requests,   \* the requests in progress
    job         \* the expire job's purge_old_reports

vars == <<now, status, reports, requests, job>>

Times == 0 .. MaxTime

Report == [client : Clients, received : Times]

Cutoffs == (0 - Retention) .. MaxTime

Request == [pc     : {"idle", "body", "trim"},
            client : Clients \cup {Null},
            before : Cutoffs]

Job == [pc : {"off", "purge", "killed"}, before : Cutoffs]

ASSUME ConstantsAssumption ==
    /\ Retention \in Nat /\ MaxTime \in Nat
    /\ Null \notin Clients

TypeOK ==
    /\ now \in Times
    /\ status \in [Clients -> {"enabled", "disabled", "gone"}]
    /\ reports \in SUBSET Report
    /\ requests \in [Requests -> Request]
    /\ job \in Job

Idle == [pc |-> "idle", client |-> Null, before |-> 0]

Off == [pc |-> "off", before |-> 0]

Killed == [pc |-> "killed", before |-> 0]

Init ==
    /\ now = 0
    /\ status = [c \in Clients |-> "enabled"]
    /\ reports = {}
    /\ requests = [r \in Requests |-> Idle]
    /\ job = Off

(* No other request runs between a request's two statements. *)
LoopFree == \A r \in Requests : requests[r].pc # "trim"

ReportsOf(c) == {x \in reports : x.client = c}

-------------------------------------------------------------------------------

(* verify_access_token: approved and enabled, now. *)
Verify(r, c) ==
    /\ LoopFree
    /\ requests[r].pc = "idle"
    /\ status[c] = "enabled"
    /\ requests' = [requests EXCEPT ![r] = [Idle EXCEPT !.pc = "body", !.client = c]]
    /\ UNCHANGED <<now, status, reports, job>>

(* Rate-limited, too large, malformed, or the sender hung up. *)
Refuse(r) ==
    /\ LoopFree
    /\ requests[r].pc = "body"
    /\ requests' = [requests EXCEPT ![r] = Idle]
    /\ UNCHANGED <<now, status, reports, job>>

PurgeBeforeAhead == now + Retention

PurgeBeforeOneLate == now - Retention + 1

PurgeBefore == now - Retention

(* INSERT OR REPLACE; a client that is gone fails the foreign key. *)
Store(r) ==
    /\ LoopFree
    /\ requests[r].pc = "body"
    /\ IF status[requests[r].client] # "gone"
         THEN /\ reports' = reports \cup
                     {[client |-> requests[r].client, received |-> now]}
              /\ requests' = [requests EXCEPT ![r].pc = "trim",
                                              ![r].before = PurgeBefore]
         ELSE /\ requests' = [requests EXCEPT ![r] = Idle]
              /\ UNCHANGED reports
    /\ UNCHANGED <<now, status, job>>

Trim(r) ==
    /\ requests[r].pc = "trim"
    /\ reports' = reports \ {x \in ReportsOf(requests[r].client) :
                                 x.received < requests[r].before}
    /\ requests' = [requests EXCEPT ![r] = Idle]
    /\ UNCHANGED <<now, status, job>>

(* The process died, or the database stayed busy, before the second one. *)
AbortTrim(r) ==
    /\ requests[r].pc = "trim"
    /\ requests' = [requests EXCEPT ![r] = Idle]
    /\ UNCHANGED <<now, status, reports, job>>

-------------------------------------------------------------------------------
(* The admins (Registry models the handlers statement by statement). *)

Disable(c) ==
    /\ status[c] = "enabled"
    /\ status' = [status EXCEPT ![c] = "disabled"]
    /\ UNCHANGED <<now, reports, requests, job>>

Enable(c) ==
    /\ status[c] = "disabled"
    /\ status' = [status EXCEPT ![c] = "enabled"]
    /\ UNCHANGED <<now, reports, requests, job>>

ReportsLeftBehind(c) == reports

(* ON DELETE CASCADE. *)
ReportsWithout(c) == reports \ ReportsOf(c)

Delete(c) ==
    /\ status[c] = "disabled"
    /\ status' = [status EXCEPT ![c] = "gone"]
    /\ reports' = ReportsWithout(c)
    /\ UNCHANGED <<now, requests, job>>

-------------------------------------------------------------------------------
(* The expire job. *)

JobStart ==
    /\ job.pc \in {"off", "killed"}
    /\ job' = [pc |-> "purge", before |-> PurgeBefore]
    /\ UNCHANGED <<now, status, reports, requests>>

OldEvenIfLatest(m) == {x \in reports : x.received < m}

OldUnlessAnyLater(m) == {x \in reports :
    x.received < m /\ \A y \in ReportsOf(x.client) : x.received < y.received}

Old(m) == {x \in reports :
    x.received < m /\ \E y \in ReportsOf(x.client) : x.received < y.received}

JobPurge ==
    /\ job.pc = "purge"
    /\ reports' = reports \ Old(job.before)
    /\ job' = Off
    /\ UNCHANGED <<now, status, requests>>

JobAbort ==
    /\ job.pc = "purge"
    /\ job' = Killed
    /\ UNCHANGED <<now, status, reports, requests>>

Tick ==
    /\ now < MaxTime
    /\ now' = now + 1
    /\ UNCHANGED <<status, reports, requests, job>>

-------------------------------------------------------------------------------

JobStep == JobStart \/ JobPurge

Next ==
    \/ \E r \in Requests, c \in Clients : Verify(r, c)
    \/ \E r \in Requests : Refuse(r)
    \/ \E r \in Requests : Store(r)
    \/ \E r \in Requests : Trim(r)
    \/ \E r \in Requests : AbortTrim(r)
    \/ \E c \in Clients : Disable(c)
    \/ \E c \in Clients : Enable(c)
    \/ \E c \in Clients : Delete(c)
    \/ JobStep
    \/ JobAbort
    \/ Tick

Spec == Init /\ [][Next]_vars

(* The cron job runs, and at last gets through without being killed. *)
FairSpec ==
    /\ Spec
    /\ WF_vars(JobStep)
    /\ <>[](job.pc # "killed")

-------------------------------------------------------------------------------

(* A deleted client takes its health reports with it, also when one of its *)
(* reports is being received at that very moment.                          *)
NoOrphans == \A x \in reports : status[x.client] # "gone"

(* Neither the job nor a request's own trim ever drops the last word heard *)
(* of a client: its latest report only moves forward while it exists.      *)
LatestNeverLost ==
    [][\A x \in reports :
           status'[x.client] # "gone" =>
               \E y \in reports' : y.client = x.client /\ y.received >= x.received]_vars

(* Only what is past retention is dropped while its client exists.         *)
KeptForRetention ==
    [][\A x \in reports \ reports' :
           x.received < now - Retention \/ status'[x.client] = "gone"]_vars

(* What is past retention does not stay, except a client's latest report.  *)
OldReportsGo ==
    \A c \in Clients : \A m, n \in Times :
        LET old    == [client |-> c, received |-> m]
            latest == [client |-> c, received |-> n]
        IN  (m < n /\ m < now - Retention /\ {old, latest} \subseteq reports)
                ~> (old \notin reports)
===============================================================================

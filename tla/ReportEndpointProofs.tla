-------------------------- MODULE ReportEndpointProofs -------------------------
(***************************************************************************)
(* Theorems about ReportEndpoint for any number of clients and concurrent  *)
(* requests and every retention: no report outlives its client, and none   *)
(* is dropped too early or without a later one.                            *)
(***************************************************************************)
EXTENDS ReportEndpoint, TLAPS, WellFoundedInduction

(* A request in progress is a client's, and one request at most is between *)
(* its two statements.                                                     *)
Working ==
    /\ \A r \in Requests : requests[r].pc # "idle" => requests[r].client \in Clients
    /\ \A r, s \in Requests : requests[r].pc = "trim" /\ requests[s].pc = "trim" => r = s

(* What a cut-off computed before lets go is past retention now.           *)
CutoffsPassed ==
    /\ \A r \in Requests : requests[r].pc = "trim" => requests[r].before <= now - Retention
    /\ job.pc = "purge" => job.before <= now - Retention

(* A request that is about to trim has a report its trim spares.           *)
Spared ==
    \A r \in Requests :
        requests[r].pc = "trim" /\ status[requests[r].client] # "gone" =>
            \E y \in reports : /\ y.client = requests[r].client
                               /\ y.received >= requests[r].before

ReportInv == TypeOK /\ Working /\ CutoffsPassed /\ Spared /\ NoOrphans

USE ConstantsAssumption DEF ConstantsAssumption, Times, Cutoffs

(* The job keeps a later report of the same client for every one it drops: *)
(* a client's reports have a latest one.                                   *)
LEMMA LatestKept ==
    ASSUME TypeOK, NEW m, NEW x \in reports
    PROVE  \E y \in reports \ Old(m) : y.client = x.client /\ y.received >= x.received
<1> DEFINE Later == {y \in reports : y.client = x.client /\ y.received >= x.received}
<1> DEFINE Left == {MaxTime - y.received : y \in Later}
<1>1. \A y \in reports : y.received \in 0 .. MaxTime
  BY DEF TypeOK, Report
<1>2. x \in Later
  BY <1>1
<1>3. Left \subseteq Nat /\ Left # {}
  BY <1>1, <1>2
<1>4. \E d \in Left : \A e \in Left : <<e, d>> \notin OpToRel(<, Nat)
  BY <1>3, WFMin, NatLessThanWellFounded
<1>5. PICK y \in Later : \A e \in Left : ~(e < MaxTime - y.received)
  BY <1>1, <1>3, <1>4 DEF OpToRel
<1>6. ASSUME NEW z \in reports, z.client = x.client PROVE ~(y.received < z.received)
  <2>1. SUFFICES ASSUME y.received < z.received PROVE FALSE
    OBVIOUS
  <2>2. z \in Later
    BY <1>1, <1>6, <2>1
  <2>3. MaxTime - z.received \in Left
    BY <2>2
  <2>4. QED
    BY <1>1, <1>5, <2>1, <2>3
<1>7. y \notin Old(m)
  BY <1>6 DEF Old, ReportsOf
<1>8. QED
  BY <1>7

(* Initially there are no reports.                                         *)
LEMMA InitInv == Init => ReportInv
BY DEF Init, ReportInv, TypeOK, Working, CutoffsPassed, Spared, NoOrphans, Idle, Off,
       Request, Report, Job

(* Types are inductive together with whose the requests are.               *)
LEMMA TypeStep ==
    ASSUME TypeOK, Working, [Next]_vars
    PROVE  TypeOK' /\ Working'
<1> DEFINE Goal == TypeOK' /\ Working'
<1> SUFFICES Goal
  OBVIOUS
<1> USE DEF TypeOK, Working, Request, Job, Idle, LoopFree
<1>1. ASSUME NEW r \in Requests, NEW c \in Clients, Verify(r, c) PROVE Goal
  <2> DEFINE new == [Idle EXCEPT !.pc = "body", !.client = c]
  <2>1. new \in Request /\ new.pc = "body" /\ new.client = c
    BY 0 \in (0 - Retention) .. MaxTime
  <2>2. requests' = [requests EXCEPT ![r] = new]
    BY <1>1 DEF Verify
  <2> HIDE DEF new
  <2>3. QED
    BY <1>1, <2>1, <2>2 DEF Verify
<1>2. ASSUME NEW r \in Requests, Refuse(r) PROVE Goal
  BY <1>2 DEF Refuse, PurgeBefore, Off, Killed, Report, ReportsWithout, Old
<1>3. ASSUME NEW r \in Requests, Store(r) PROVE Goal
  BY <1>3 DEF Store, PurgeBefore, Off, Killed, Report, ReportsWithout, Old
<1>4. ASSUME NEW r \in Requests, Trim(r) PROVE Goal
  BY <1>4 DEF Trim, PurgeBefore, Off, Killed, Report, ReportsWithout, Old
<1>5. ASSUME NEW r \in Requests, AbortTrim(r) PROVE Goal
  BY <1>5 DEF AbortTrim, PurgeBefore, Off, Killed, Report, ReportsWithout, Old
<1>6. ASSUME NEW c \in Clients, Disable(c) PROVE Goal
  BY <1>6 DEF Disable, PurgeBefore, Off, Killed, Report, ReportsWithout, Old
<1>7. ASSUME NEW c \in Clients, Enable(c) PROVE Goal
  BY <1>7 DEF Enable, PurgeBefore, Off, Killed, Report, ReportsWithout, Old
<1>8. ASSUME NEW c \in Clients, Delete(c) PROVE Goal
  BY <1>8 DEF Delete, PurgeBefore, Off, Killed, Report, ReportsWithout, Old
<1>9. CASE JobStart
  BY <1>9 DEF JobStart, PurgeBefore, Off, Killed, Report, ReportsWithout, Old
<1>10. CASE JobPurge
  BY <1>10 DEF JobPurge, PurgeBefore, Off, Killed, Report, ReportsWithout, Old
<1>11. CASE JobAbort
  BY <1>11 DEF JobAbort, PurgeBefore, Off, Killed, Report, ReportsWithout, Old
<1>12. CASE Tick
  BY <1>12 DEF Tick, PurgeBefore, Off, Killed, Report, ReportsWithout, Old
<1>13. CASE UNCHANGED vars
  BY <1>13 DEF vars, PurgeBefore, Off, Killed, Report, ReportsWithout, Old
<1>14. QED
  BY <1>1, <1>2, <1>3, <1>4, <1>5, <1>6, <1>7, <1>8, <1>9, <1>10, <1>11, <1>12, <1>13 DEF Next, JobStep

(* Cut-offs are in the past, and the clock does not run backwards.         *)
LEMMA CutoffStep ==
    ASSUME TypeOK, Working, CutoffsPassed, [Next]_vars
    PROVE  CutoffsPassed'
<1> USE DEF TypeOK, Working, CutoffsPassed, Request, Job, Idle
<1>1. ASSUME NEW r \in Requests, NEW c \in Clients, Verify(r, c) PROVE CutoffsPassed'
  BY <1>1 DEF Verify, PurgeBefore, Off, Killed
<1>2. ASSUME NEW r \in Requests, Refuse(r) PROVE CutoffsPassed'
  BY <1>2 DEF Refuse, PurgeBefore, Off, Killed
<1>3. ASSUME NEW r \in Requests, Store(r) PROVE CutoffsPassed'
  BY <1>3 DEF Store, PurgeBefore, Off, Killed
<1>4. ASSUME NEW r \in Requests, Trim(r) PROVE CutoffsPassed'
  BY <1>4 DEF Trim, PurgeBefore, Off, Killed
<1>5. ASSUME NEW r \in Requests, AbortTrim(r) PROVE CutoffsPassed'
  BY <1>5 DEF AbortTrim, PurgeBefore, Off, Killed
<1>6. ASSUME NEW c \in Clients, Disable(c) PROVE CutoffsPassed'
  BY <1>6 DEF Disable, PurgeBefore, Off, Killed
<1>7. ASSUME NEW c \in Clients, Enable(c) PROVE CutoffsPassed'
  BY <1>7 DEF Enable, PurgeBefore, Off, Killed
<1>8. ASSUME NEW c \in Clients, Delete(c) PROVE CutoffsPassed'
  BY <1>8 DEF Delete, PurgeBefore, Off, Killed
<1>9. CASE JobStart
  BY <1>9 DEF JobStart, PurgeBefore, Off, Killed
<1>10. CASE JobPurge
  BY <1>10 DEF JobPurge, PurgeBefore, Off, Killed
<1>11. CASE JobAbort
  BY <1>11 DEF JobAbort, PurgeBefore, Off, Killed
<1>12. CASE Tick
  BY <1>12 DEF Tick, PurgeBefore, Off, Killed
<1>13. CASE UNCHANGED vars
  BY <1>13 DEF vars, PurgeBefore, Off, Killed
<1>14. QED
  BY <1>1, <1>2, <1>3, <1>4, <1>5, <1>6, <1>7, <1>8, <1>9, <1>10, <1>11, <1>12, <1>13 DEF Next, JobStep

(* Reports are stored for clients that exist, and go with them.            *)
LEMMA OrphanStep ==
    ASSUME TypeOK, Working, NoOrphans, [Next]_vars
    PROVE  NoOrphans'
<1> USE DEF TypeOK, NoOrphans, Report
<1>1. ASSUME NEW r \in Requests, NEW c \in Clients, Verify(r, c) PROVE NoOrphans'
  BY <1>1 DEF Verify, ReportsWithout, ReportsOf
<1>2. ASSUME NEW r \in Requests, Refuse(r) PROVE NoOrphans'
  BY <1>2 DEF Refuse, ReportsWithout, ReportsOf
<1>3. ASSUME NEW r \in Requests, Store(r) PROVE NoOrphans'
  BY <1>3, requests[r].client \in Clients DEF Store, Working
<1>4. ASSUME NEW r \in Requests, Trim(r) PROVE NoOrphans'
  BY <1>4 DEF Trim, ReportsWithout, ReportsOf
<1>5. ASSUME NEW r \in Requests, AbortTrim(r) PROVE NoOrphans'
  BY <1>5 DEF AbortTrim, ReportsWithout, ReportsOf
<1>6. ASSUME NEW c \in Clients, Disable(c) PROVE NoOrphans'
  BY <1>6 DEF Disable, ReportsWithout, ReportsOf
<1>7. ASSUME NEW c \in Clients, Enable(c) PROVE NoOrphans'
  BY <1>7 DEF Enable, ReportsWithout, ReportsOf
<1>8. ASSUME NEW c \in Clients, Delete(c) PROVE NoOrphans'
  BY <1>8 DEF Delete, ReportsWithout, ReportsOf
<1>9. CASE JobStart
  BY <1>9 DEF JobStart, ReportsWithout, ReportsOf
<1>10. CASE JobPurge
  BY <1>10 DEF JobPurge, ReportsWithout, ReportsOf
<1>11. CASE JobAbort
  BY <1>11 DEF JobAbort, ReportsWithout, ReportsOf
<1>12. CASE Tick
  BY <1>12 DEF Tick, ReportsWithout, ReportsOf
<1>13. CASE UNCHANGED vars
  BY <1>13 DEF vars, ReportsWithout, ReportsOf
<1>14. QED
  BY <1>1, <1>2, <1>3, <1>4, <1>5, <1>6, <1>7, <1>8, <1>9, <1>10, <1>11, <1>12, <1>13 DEF Next, JobStep

(* The report a request stored, or a later one, is still there when it     *)
(* trims, unless the client was deleted.                                   *)
LEMMA SparedStep ==
    ASSUME TypeOK, Working, Spared, [Next]_vars
    PROVE  Spared'
<1> USE DEF TypeOK, Working, Spared, Request, Report, Idle, LoopFree
<1>1. ASSUME NEW r \in Requests, NEW c \in Clients, Verify(r, c) PROVE Spared'
  BY <1>1 DEF Verify, ReportsWithout, ReportsOf, PurgeBefore, Off, Killed
<1>2. ASSUME NEW r \in Requests, Refuse(r) PROVE Spared'
  BY <1>2 DEF Refuse, ReportsWithout, ReportsOf, PurgeBefore, Off, Killed
<1>3. ASSUME NEW r \in Requests, Store(r) PROVE Spared'
  <2>1. \A s \in Requests \ {r} : requests'[s].pc # "trim"
    BY <1>3 DEF Store
  <2>2. SUFFICES ASSUME requests'[r].pc = "trim"
                 PROVE  \E y \in reports' : /\ y.client = requests'[r].client
                                            /\ y.received >= requests'[r].before
    BY <2>1
  <2>3. /\ requests' = [requests EXCEPT ![r].pc = "trim", ![r].before = now - Retention]
        /\ [client |-> requests[r].client, received |-> now] \in reports'
    BY <1>3, <2>2 DEF Store, PurgeBefore
  <2>4. requests'[r].client = requests[r].client /\ requests'[r].before = now - Retention
    BY <2>3
  <2>5. QED
    BY <2>3, <2>4
<1>4. ASSUME NEW r \in Requests, Trim(r) PROVE Spared'
  BY <1>4 DEF Trim, ReportsWithout, ReportsOf, PurgeBefore, Off, Killed
<1>5. ASSUME NEW r \in Requests, AbortTrim(r) PROVE Spared'
  BY <1>5 DEF AbortTrim, ReportsWithout, ReportsOf, PurgeBefore, Off, Killed
<1>6. ASSUME NEW c \in Clients, Disable(c) PROVE Spared'
  BY <1>6 DEF Disable, ReportsWithout, ReportsOf, PurgeBefore, Off, Killed
<1>7. ASSUME NEW c \in Clients, Enable(c) PROVE Spared'
  BY <1>7 DEF Enable, ReportsWithout, ReportsOf, PurgeBefore, Off, Killed
<1>8. ASSUME NEW c \in Clients, Delete(c) PROVE Spared'
  BY <1>8 DEF Delete, ReportsWithout, ReportsOf, PurgeBefore, Off, Killed
<1>9. CASE JobStart
  BY <1>9 DEF JobStart, ReportsWithout, ReportsOf, PurgeBefore, Off, Killed
<1>10. CASE JobPurge
  <2> SUFFICES ASSUME NEW r \in Requests, requests[r].pc = "trim",
                      status[requests[r].client] # "gone"
               PROVE  \E y \in reports' : /\ y.client = requests[r].client
                                          /\ y.received >= requests[r].before
    BY <1>10 DEF JobPurge
  <2>1. PICK x \in reports : x.client = requests[r].client /\ x.received >= requests[r].before
    OBVIOUS
  <2>2. PICK y \in reports' : y.client = x.client /\ y.received >= x.received
    BY <1>10, LatestKept DEF JobPurge
  <2>3. y.received \in Int /\ x.received \in Int /\ requests[r].before \in Int
    BY <1>10 DEF JobPurge, Old
  <2>4. QED
    BY <2>1, <2>2, <2>3
<1>11. CASE JobAbort
  BY <1>11 DEF JobAbort, ReportsWithout, ReportsOf, PurgeBefore, Off, Killed
<1>12. CASE Tick
  BY <1>12 DEF Tick, ReportsWithout, ReportsOf, PurgeBefore, Off, Killed
<1>13. CASE UNCHANGED vars
  BY <1>13 DEF vars, ReportsWithout, ReportsOf, PurgeBefore, Off, Killed
<1>14. QED
  BY <1>1, <1>2, <1>3, <1>4, <1>5, <1>6, <1>7, <1>8, <1>9, <1>10, <1>11, <1>12, <1>13 DEF Next, JobStep

(* ReportEndpoint keeps its invariant.                                     *)
LEMMA ReportInvHolds == Spec => []ReportInv
<1>1. ReportInv /\ [Next]_vars => ReportInv'
  BY TypeStep, CutoffStep, OrphanStep, SparedStep DEF ReportInv
<1>2. QED
  BY InitInv, <1>1, PTL DEF Spec

(* Rows, requests, reports and the job are as declared.                    *)
THEOREM TypeCorrect == Spec => []TypeOK
<1>1. ReportInv => TypeOK
  BY DEF ReportInv
<1>2. QED
  BY ReportInvHolds, <1>1, PTL

(* No report is of a client that is gone, even if it was being received    *)
(* when the client was deleted.                                            *)
THEOREM ReportsHaveClients == Spec => []NoOrphans
<1>1. ReportInv => NoOrphans
  BY DEF ReportInv
<1>2. QED
  BY ReportInvHolds, <1>1, PTL

(* Only what is past retention is dropped while its client exists: the     *)
(* cut-offs are older than that, however late they are used.               *)
THEOREM RetentionHonoured == Spec => KeptForRetention
<1> DEFINE Kept == \A x \in reports \ reports' :
                       x.received < now - Retention \/ status'[x.client] = "gone"
<1>1. ASSUME ReportInv, [Next]_vars PROVE Kept
  <2> USE DEF ReportInv, TypeOK, Report
  <2>1. ASSUME NEW r \in Requests, Trim(r) PROVE Kept
    BY <1>1, <2>1 DEF Trim, CutoffsPassed, ReportsOf, Request
  <2>2. CASE JobPurge
    BY <1>1, <2>2 DEF JobPurge, CutoffsPassed, Old, Job
  <2>3. ASSUME NEW c \in Clients, Delete(c) PROVE Kept
    BY <1>1, <2>3 DEF Delete, ReportsWithout, ReportsOf
  <2>4. CASE reports \subseteq reports'
    BY <2>4
  <2>5. QED
    BY <1>1, <2>1, <2>2, <2>3, <2>4
       DEF Next, vars, Verify, Refuse, Store, AbortTrim, Disable, Enable, JobStep, JobStart,
           JobAbort, Tick
<1>2. QED
  BY ReportInvHolds, <1>1, PTL DEF Spec, KeptForRetention

(* For every report that is dropped its client's table keeps one that is   *)
(* not older, while the client exists.                                     *)
THEOREM LatestStays == Spec => LatestNeverLost
<1> DEFINE Kept == \A x \in reports :
                       status'[x.client] # "gone" =>
                           \E y \in reports' : y.client = x.client /\ y.received >= x.received
<1>1. ASSUME ReportInv, [Next]_vars PROVE Kept
  <2> USE DEF ReportInv, TypeOK, Report
  <2>1. ASSUME NEW r \in Requests, Trim(r) PROVE Kept
    <3> SUFFICES ASSUME NEW x \in reports, status'[x.client] # "gone"
                 PROVE  \E y \in reports' : y.client = x.client /\ y.received >= x.received
      OBVIOUS
    <3>1. reports' = reports \ {z \in ReportsOf(requests[r].client) :
                                    z.received < requests[r].before}
      BY <2>1 DEF Trim
    <3>2. CASE x \in reports'
      BY <1>1, <3>2
    <3>3. CASE x \notin reports'
      <4>1. x.client = requests[r].client /\ x.received < requests[r].before
        BY <3>1, <3>3 DEF ReportsOf
      <4>2. PICK y \in reports : y.client = requests[r].client /\ y.received >= requests[r].before
        BY <1>1, <2>1, <4>1 DEF Trim, Spared
      <4>3. y \in reports' /\ y.received >= x.received
        BY <1>1, <3>1, <4>1, <4>2 DEF Request
      <4>4. QED
        BY <4>1, <4>2, <4>3
    <3>4. QED
      BY <3>2, <3>3
  <2>2. CASE JobPurge
    BY <1>1, <2>2, LatestKept DEF JobPurge
  <2>3. ASSUME NEW c \in Clients, Delete(c) PROVE Kept
    BY <1>1, <2>3 DEF Delete, ReportsWithout, ReportsOf
  <2>4. CASE reports \subseteq reports'
    BY <1>1, <2>4
  <2>5. QED
    BY <1>1, <2>1, <2>2, <2>3, <2>4
       DEF Next, vars, Verify, Refuse, Store, AbortTrim, Disable, Enable, JobStep, JobStart,
           JobAbort, Tick
<1>2. QED
  BY ReportInvHolds, <1>1, PTL DEF Spec, LatestNeverLost
===============================================================================

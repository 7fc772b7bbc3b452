--------------------------- MODULE RegistryRefinement --------------------------
(***************************************************************************)
(* The registry implements the enrollment contract, for every set of ids,  *)
(* keys, sites, registration tokens and admin requests and for every time  *)
(* limit: each step of a handler, the job or a failure is one step of      *)
(* Enrollment or a stutter.  RegistryInv says what a handler that writes   *)
(* by an id it read before may find there.                                 *)
(***************************************************************************)
EXTENDS RegistryProofs

USE ConstantsAssumption DEF ConstantsAssumption, Times, Flag

(* The contract's view of the tables. *)
Stage == [c \in Ids |-> StageOf(c)]
Label == [c \in Ids |-> LabelOf(c)]
Invitation == [t \in RegTokens |-> InvitationOf(t)]

ContractStep == [E!Next]_(E!vars)

(* The contract sees of a row only whether its id was generated, whether   *)
(* it is there, and three columns.                                         *)
LEMMA SameRow ==
    ASSUME NEW c \in Ids, c \in issued' <=> c \in issued,
           \/ clients'[c] = clients[c]
           \/ /\ clients[c] # Null /\ clients'[c] # Null
              /\ clients'[c].pending = clients[c].pending
              /\ clients'[c].disabled = clients[c].disabled
              /\ clients'[c].site = clients[c].site
    PROVE  StageOf(c)' = StageOf(c) /\ LabelOf(c)' = LabelOf(c)
BY DEF StageOf, LabelOf, Rows, Awaiting, Approved, Enabled

(* A step that changes no row and no token in what the contract sees of    *)
(* them is a stutter.                                                      *)
LEMMA Stutter ==
    ASSUME \A c \in Ids : StageOf(c)' = StageOf(c) /\ LabelOf(c)' = LabelOf(c),
           tokens' = tokens
    PROVE  ContractStep
<1>1. \A t \in RegTokens : InvitationOf(t)' = InvitationOf(t)
  BY DEF InvitationOf
<1>2. Stage' = Stage /\ Label' = Label /\ Invitation' = Invitation
  BY <1>1 DEF Stage, Label, Invitation
<1>3. QED
  BY <1>2 DEF Stage, Label, Invitation, ContractStep, E!vars

(* A step that changes one row moves that client, and nobody else.         *)
LEMMA OneRow ==
    ASSUME NEW c \in Ids,
           \A d \in Ids \ {c} : clients'[d] = clients[d] /\ (d \in issued' <=> d \in issued)
    PROVE  /\ \A d \in Ids \ {c} : StageOf(d)' = StageOf(d) /\ LabelOf(d)' = LabelOf(d)
           /\ Stage' = [Stage EXCEPT ![c] = StageOf(c)']
           /\ Label' = [Label EXCEPT ![c] = LabelOf(c)']
<1>1. \A d \in Ids \ {c} : StageOf(d)' = StageOf(d) /\ LabelOf(d)' = LabelOf(d)
  BY SameRow
<1>2. QED
  BY <1>1 DEF Stage, Label

(* A step that changes one token changes that invitation, and no other.    *)
LEMMA OneToken ==
    ASSUME NEW t \in RegTokens,
           \A u \in RegTokens \ {t} : tokens'[u] = tokens[u]
    PROVE  Invitation' = [Invitation EXCEPT ![t] = InvitationOf(t)']
<1>1. \A u \in RegTokens \ {t} : InvitationOf(u)' = InvitationOf(u)
  BY DEF InvitationOf
<1>2. QED
  BY <1>1 DEF Invitation

(* The stage of a row is told by its columns.                              *)
LEMMA Stages ==
    ASSUME RegistryInv, NEW c \in Ids
    PROVE  /\ c \in Rows => c \in issued
           /\ c \notin issued => StageOf(c) = "fresh"
           /\ c \in issued \ Rows => StageOf(c) = "gone"
           /\ c \in Awaiting => StageOf(c) = "waiting"
           /\ c \in Rows \ Approved /\ c \notin Awaiting => StageOf(c) = "rejected"
           /\ c \in Enabled => StageOf(c) = "active"
           /\ c \in Approved \ Enabled => StageOf(c) = "suspended"
           /\ c \notin Rows \/ c \in Rows \ Approved => LabelOf(c) = Null
BY DEF RegistryInv, IdsIssued, RowsInv, RowsConsistent, Consistent, TypeInv, TypeOK,
       ClientRow, StageOf, LabelOf, Awaiting, Approved, Enabled, Rows

(* What the limit counts is what the contract says is waiting.             *)
LEMMA WaitingIsAwaiting ==
    ASSUME RegistryInv
    PROVE  E!Waiting = Awaiting
<1>1. \A c \in Ids : StageOf(c) = "waiting" <=> c \in Awaiting
  BY Stages DEF StageOf
<1>2. QED
  BY <1>1 DEF E!Waiting, Awaiting, Rows

(* An insert without a token is a Submit.                                  *)
LEMMA InsertIsSubmit ==
    ASSUME RegistryInv, NEW c \in Ids, InsertPending(c)
    PROVE  ContractStep
<1>1. clients' = [clients EXCEPT ![c] = PendingRow(loop.key)] /\ issued' = issued \cup {c}
      /\ tokens' = tokens /\ c \notin issued /\ loop.pc = "insert"
  BY DEF InsertPending
<1>2. PendingRow(loop.key) \in ClientRow
  BY <1>1 DEF PendingRow, ClientRow, RegistryInv, TypeInv, TypeOK, LoopTyped
<1>3. clients'[c] = PendingRow(loop.key) /\ clients'[c] # Null
  BY <1>1, <1>2 DEF RegistryInv, TypeInv, TypeOK
<1>4. StageOf(c)' = "waiting" /\ LabelOf(c)' = Null
  BY <1>1, <1>3 DEF StageOf, LabelOf, Rows, Awaiting, PendingRow
<1>5. StageOf(c) = "fresh" /\ LabelOf(c) = Null
  BY <1>1, Stages
<1>6. /\ Stage' = [Stage EXCEPT ![c] = "waiting"]
      /\ Label' = Label
  <2>1. /\ Stage' = [Stage EXCEPT ![c] = StageOf(c)']
        /\ Label' = [Label EXCEPT ![c] = LabelOf(c)']
    BY <1>1, OneRow DEF RegistryInv, TypeInv, TypeOK
  <2>2. Label[c] = Null
    BY <1>5 DEF Label
  <2>3. QED
    BY <1>4, <2>1, <2>2 DEF Label
<1>7. Invitation' = Invitation
  BY <1>1 DEF Invitation, InvitationOf
<1>8. E!Cardinality(E!Waiting) < MaxPending
  BY <1>1, WaitingIsAwaiting DEF RegistryInv, CapInv, BelowLimit, E!Cardinality, Cardinality
<1>9. E!Submit(c)
  BY <1>5, <1>6, <1>7, <1>8 DEF E!Submit, Stage, Label, Invitation
<1>10. QED
  BY <1>9 DEF ContractStep, E!Next

(* The transaction that spends a token is an Accept.                       *)
LEMMA SpendIsAccept ==
    ASSUME RegistryInv, NEW c \in Ids, SpendToken(c), NEW t, t = loop.token
    PROVE  ContractStep
<1>1. /\ clients' = [clients EXCEPT ![c] = ActiveRow(loop.key, t, loop.at)]
      /\ issued' = issued \cup {c} /\ c \notin issued /\ loop.pc = "spend"
      /\ tokens' = [tokens EXCEPT ![t].client = c]
      /\ tokens[t] # Null /\ tokens[t].revoked = 0 /\ tokens[t].client = Null
  BY DEF SpendToken, Spendable, Usable
<1>2. t \in RegTokens /\ tokens[t] \in TokenRow /\ c # Null
  BY <1>1 DEF RegistryInv, TypeInv, TypeOK, LoopTyped
<1>3. ActiveRow(loop.key, t, loop.at) \in ClientRow
  BY <1>1, <1>2 DEF ActiveRow, ClientRow, TokenRow, RegistryInv, TypeInv, TypeOK, LoopTyped, Request
<1>4. /\ clients'[c] = ActiveRow(loop.key, t, loop.at) /\ clients'[c] # Null
      /\ tokens'[t] = [tokens[t] EXCEPT !.client = c]
  BY <1>1, <1>2, <1>3 DEF RegistryInv, TypeInv, TypeOK
<1>5. tokens'[t] # Null /\ tokens'[t].client = c /\ tokens'[t].site = tokens[t].site
  <2>1. [tokens[t] EXCEPT !.client = c] \in TokenRow
    BY <1>2 DEF TokenRow
  <2>2. QED
    BY <1>2, <1>4, <2>1 DEF TokenRow
<1>6. StageOf(c) = "fresh"
  BY <1>1, Stages
<1>7. StageOf(c)' = "active" /\ LabelOf(c)' = tokens[t].site
  BY <1>1, <1>4 DEF StageOf, LabelOf, Rows, Awaiting, Approved, Enabled, ActiveRow
<1>8. /\ InvitationOf(t) = [status |-> "open", site |-> tokens[t].site]
      /\ InvitationOf(t)' = [status |-> "spent", site |-> tokens[t].site]
  BY <1>1, <1>2, <1>5 DEF InvitationOf
<1>9. /\ Stage' = [Stage EXCEPT ![c] = "active"]
      /\ Label' = [Label EXCEPT ![c] = tokens[t].site]
  BY <1>1, <1>7, OneRow DEF RegistryInv, TypeInv, TypeOK
<1>10. Invitation' = [Invitation EXCEPT ![t].status = "spent"]
  <2>1. Invitation' = [Invitation EXCEPT ![t] = InvitationOf(t)']
    BY <1>1, <1>2, OneToken
  <2>2. [Invitation[t] EXCEPT !.status = "spent"] = InvitationOf(t)'
    BY <1>2, <1>8 DEF Invitation
  <2>3. QED
    BY <2>1, <2>2
<1>a. /\ Invitation[t].status = "open" /\ Invitation[t].site = tokens[t].site
      /\ Stage[c] = "fresh"
  BY <1>2, <1>6, <1>8 DEF Invitation, Stage
<1>b. Label' = [Label EXCEPT ![c] = Invitation[t].site]
  BY <1>9, <1>a
<1>11. E!Accept(t, c)
  BY <1>9, <1>10, <1>a, <1>b DEF E!Accept, Stage, Label, Invitation
<1>12. QED
  BY <1>2, <1>11 DEF ContractStep, E!Next

(* Approval, rejection and the two deletions are what they are called.     *)
LEMMA DecisionSteps ==
    ASSUME RegistryInv, NEW c \in Ids,
           (\E s \in Sites : Approve(c, s)) \/ RejectPending(c)
               \/ DeletePending(c) \/ DeleteDisabled(c)
    PROVE  ContractStep
<1>0. /\ \A d \in Ids \ {c} : clients'[d] = clients[d] /\ (d \in issued' <=> d \in issued)
      /\ tokens' = tokens /\ issued' = issued /\ c \in Rows /\ c \in issued
  BY Stages DEF Approve, RejectPending, DeletePending, DeleteDisabled, Awaiting, Approved,
                RegistryInv, TypeInv, TypeOK
<1>a. /\ Stage' = [Stage EXCEPT ![c] = StageOf(c)']
      /\ Label' = [Label EXCEPT ![c] = LabelOf(c)']
  BY <1>0, OneRow
<1>b. Invitation' = Invitation
  BY <1>0 DEF Invitation, InvitationOf
<1>1. ASSUME NEW s \in Sites, Approve(c, s) PROVE ContractStep
  <2>1. clients[c] \in ClientRow /\ c \in Awaiting
        /\ clients' = [clients EXCEPT ![c] = [clients[c] EXCEPT !.pending = 0, !.site = s]]
    BY <1>1 DEF Approve, Awaiting, Rows, RegistryInv, TypeInv, TypeOK
  <2>2. /\ clients'[c] \in ClientRow /\ clients'[c].pending = 0
        /\ clients'[c].disabled = 0 /\ clients'[c].site = s
    BY <2>1 DEF ClientRow, RegistryInv, TypeInv, TypeOK, Awaiting
  <2>3. StageOf(c) = "waiting" /\ StageOf(c)' = "active" /\ LabelOf(c)' = s
    BY <1>0, <2>1, <2>2, Stages DEF StageOf, LabelOf, Rows, Awaiting, Approved, Enabled
  <2>4. E!Approve(c, s)
    BY <1>a, <1>b, <2>3 DEF E!Approve, Stage, Label, Invitation
  <2>5. QED
    BY <2>4 DEF ContractStep, E!Next
<1>2. CASE RejectPending(c)
  <2>1. clients[c] \in ClientRow /\ c \in Awaiting
        /\ clients' = [clients EXCEPT ![c] = [clients[c] EXCEPT !.disabled = 1,
                                                                !.reason = "rejected"]]
    BY <1>2 DEF RejectPending, Awaiting, Rows, RegistryInv, TypeInv, TypeOK
  <2>2. /\ clients'[c] \in ClientRow /\ clients'[c].pending = 1
        /\ clients'[c].disabled = 1 /\ clients'[c].site = clients[c].site
    BY <2>1 DEF ClientRow, RegistryInv, TypeInv, TypeOK, Awaiting, Reasons
  <2>3. /\ StageOf(c) = "waiting" /\ StageOf(c)' = "rejected"
        /\ LabelOf(c)' = LabelOf(c)
    BY <1>0, <2>1, <2>2, Stages DEF StageOf, LabelOf, Rows, Awaiting, Approved
  <2>4. E!Reject(c)
    BY <1>a, <1>b, <2>3 DEF E!Reject, Stage, Label, Invitation
  <2>5. QED
    BY <2>4 DEF ContractStep, E!Next
<1>3. CASE DeletePending(c)
  <2>1. c \in Rows \ Approved /\ clients'[c] = Null
    BY <1>3 DEF DeletePending, RegistryInv, TypeInv, TypeOK
  <2>2. /\ StageOf(c) \in {"waiting", "rejected"} /\ StageOf(c)' = "gone"
        /\ LabelOf(c) = Null /\ LabelOf(c)' = Null
    BY <1>0, <2>1, Stages DEF StageOf, LabelOf, Rows
  <2>3. E!Forget(c)
    BY <1>a, <1>b, <2>2 DEF E!Forget, Stage, Label, Invitation
  <2>4. QED
    BY <2>3 DEF ContractStep, E!Next
<1>4. CASE DeleteDisabled(c)
  <2>1. c \in Approved \ Enabled /\ clients'[c] = Null
    BY <1>4 DEF DeleteDisabled, RegistryInv, TypeInv, TypeOK
  <2>2. StageOf(c) = "suspended" /\ StageOf(c)' = "gone" /\ LabelOf(c)' = Null
    BY <1>0, <2>1, Stages DEF StageOf, LabelOf, Rows
  <2>3. E!Remove(c)
    BY <1>a, <1>b, <2>2 DEF E!Remove, Stage, Label, Invitation
  <2>4. QED
    BY <2>3 DEF ContractStep, E!Next
<1>5. QED
  BY <1>1, <1>2, <1>3, <1>4

(* A registration token is handed out, and taken back unused.              *)
LEMMA TokenSteps ==
    ASSUME RegistryInv, NEW t \in RegTokens,
           (\E s \in Sites : CreateToken(t, s)) \/ RevokeToken(t)
    PROVE  ContractStep
<1>0. /\ Stage' = Stage /\ Label' = Label
      /\ \A u \in RegTokens \ {t} : tokens'[u] = tokens[u]
  BY SameRow DEF CreateToken, RevokeToken, Stage, Label, RegistryInv, TypeInv, TypeOK
<1>1. Invitation' = [Invitation EXCEPT ![t] = InvitationOf(t)']
  BY <1>0, OneToken
<1>2. ASSUME NEW s \in Sites, CreateToken(t, s) PROVE ContractStep
  <2> DEFINE row == [site |-> s, expires |-> Expiry, client |-> Null, revoked |-> 0]
  <2>1. row \in TokenRow
    BY DEF TokenRow, Expiry, RegistryInv, TypeInv, TypeOK
  <2>2. tokens[t] = Null /\ tokens'[t] = row /\ row # Null
    BY <1>2, <2>1 DEF CreateToken, RegistryInv, TypeInv, TypeOK
  <2>3. /\ InvitationOf(t).status = "none"
        /\ InvitationOf(t)' = [status |-> "open", site |-> s]
    BY <2>2 DEF InvitationOf
  <2>4. E!Invite(t, s)
    BY <1>0, <1>1, <2>3 DEF E!Invite, Stage, Label, Invitation
  <2>5. QED
    BY <2>4 DEF ContractStep, E!Next
<1>3. CASE RevokeToken(t)
  <2>1. /\ tokens[t] \in TokenRow /\ tokens[t] # Null
        /\ tokens[t].revoked = 0 /\ tokens[t].client = Null
        /\ tokens'[t] = [tokens[t] EXCEPT !.revoked = 1]
    BY <1>3 DEF RevokeToken, Revocable, RegistryInv, TypeInv, TypeOK
  <2>2. /\ tokens'[t] \in TokenRow /\ tokens'[t].site = tokens[t].site
        /\ tokens'[t].revoked = 1 /\ tokens'[t].client = Null
    BY <2>1 DEF TokenRow
  <2>3. /\ InvitationOf(t) = [status |-> "open", site |-> tokens[t].site]
        /\ InvitationOf(t)' = [status |-> "withdrawn", site |-> tokens[t].site]
    BY <2>1, <2>2 DEF InvitationOf
  <2>a. [Invitation[t] EXCEPT !.status = "withdrawn"] = InvitationOf(t)'
    BY <2>3 DEF Invitation
  <2>4. Invitation' = [Invitation EXCEPT ![t].status = "withdrawn"]
    BY <1>1, <2>a
  <2>5. E!Withdraw(t)
    BY <1>0, <2>3, <2>4 DEF E!Withdraw, Stage, Label, Invitation
  <2>6. QED
    BY <2>5 DEF ContractStep, E!Next
<1>4. QED
  BY <1>2, <1>3

(* A write by an id that was read before finds an approved client or no    *)
(* row: it suspends or resumes the client, or changes nothing the contract *)
(* sees.                                                                   *)
LEMMA HeldSteps ==
    ASSUME RegistryInv, NEW c \in Held, NEW r \in Reasons,
           clients' = Disabled(c, r) \/ clients' = ReEnabled(c),
           UNCHANGED <<issued, tokens>>
    PROVE  ContractStep
<1>0. /\ c \in Ids
      /\ \A d \in Ids \ {c} : clients'[d] = clients[d] /\ (d \in issued' <=> d \in issued)
      /\ issued' = issued
  BY DEF Held, Disabled, ReEnabled, RegistryInv, TypeInv, TypeOK
<1>1. CASE c \notin Rows
  <2>1. clients' = clients
    BY <1>1 DEF Disabled, ReEnabled
  <2>2. QED
    BY <2>1, SameRow, Stutter
<1>2. CASE c \in Rows
  <2>1. c \in Approved /\ c \in issued /\ clients[c] \in ClientRow
    BY <1>2, Stages DEF RegistryInv, RowsInv, TypeInv, TypeOK, Held, Rows
  <2>2. /\ Stage' = [Stage EXCEPT ![c] = StageOf(c)']
        /\ \A d \in Ids \ {c} : StageOf(d)' = StageOf(d) /\ LabelOf(d)' = LabelOf(d)
        /\ Label' = [Label EXCEPT ![c] = LabelOf(c)']
    BY <1>0, OneRow
  <2>3. Invitation' = Invitation
    BY DEF Invitation, InvitationOf
  <2>4. /\ clients'[c] \in ClientRow /\ clients'[c].pending = 0
        /\ clients'[c].site = clients[c].site
        /\ clients'[c].disabled = IF clients' = Disabled(c, r) THEN 1 ELSE 0
    BY <1>2, <2>1 DEF Disabled, ReEnabled, ClientRow, RegistryInv, TypeInv, TypeOK, Approved
  <2>5. LabelOf(c)' = LabelOf(c)
    BY <1>2, <2>4 DEF LabelOf, Rows
  <2>6. StageOf(c)' = IF clients' = Disabled(c, r) THEN "suspended" ELSE "active"
    BY <1>0, <2>1, <2>4 DEF StageOf, Rows, Awaiting, Approved, Enabled
  <2>7. StageOf(c) = IF c \in Enabled THEN "active" ELSE "suspended"
    BY <1>0, <2>1, Stages
  <2>8. CASE StageOf(c)' = StageOf(c)
    BY <2>2, <2>5, <2>8, Stutter
  <2>9. CASE StageOf(c) = "active" /\ StageOf(c)' = "suspended"
    <3>1. E!Suspend(c)
      BY <1>0, <2>2, <2>3, <2>5, <2>9 DEF E!Suspend, Stage, Label, Invitation
    <3>2. QED
      BY <1>0, <3>1 DEF ContractStep, E!Next
  <2>10. CASE StageOf(c) = "suspended" /\ StageOf(c)' = "active"
    <3>1. E!Resume(c)
      BY <1>0, <2>2, <2>3, <2>5, <2>10 DEF E!Resume, Stage, Label, Invitation
    <3>2. QED
      BY <1>0, <3>1 DEF ContractStep, E!Next
  <2>11. QED
    BY <2>6, <2>7, <2>8, <2>9, <2>10
<1>3. QED
  BY <1>1, <1>2

(* The job's purge is a Lapse of the registrations it finds stale.         *)
LEMMA PurgeIsLapse ==
    ASSUME RegistryInv, JobPurge
    PROVE  ContractStep
<1> DEFINE S == Stale(job.before)
<1>1. /\ S \subseteq Awaiting /\ S \subseteq Ids
      /\ \A c \in Ids : clients'[c] = IF c \in S THEN Null ELSE clients[c]
      /\ issued' = issued /\ tokens' = tokens
  BY DEF JobPurge, Stale, Awaiting, Rows
<1> HIDE DEF S
<1>2. \A c \in S : c \in issued /\ c \in Rows \ Approved /\ LabelOf(c) = Null
  BY <1>1, Stages DEF Awaiting, Approved
<1>3. \A c \in Ids : /\ StageOf(c)' = IF c \in S THEN "gone" ELSE StageOf(c)
                     /\ LabelOf(c)' = LabelOf(c)
  <2>1. ASSUME NEW c \in S PROVE StageOf(c)' = "gone" /\ LabelOf(c)' = LabelOf(c)
    BY <1>1, <1>2 DEF StageOf, LabelOf, Rows
  <2>2. ASSUME NEW c \in Ids \ S
        PROVE  StageOf(c)' = StageOf(c) /\ LabelOf(c)' = LabelOf(c)
    BY <1>1, SameRow
  <2>3. QED
    BY <1>1, <2>1, <2>2
<1>4. /\ Stage' = [c \in Ids |-> IF c \in S THEN "gone" ELSE Stage[c]]
      /\ Label' = Label
  BY <1>3 DEF Stage, Label
<1>5. Invitation' = Invitation
  BY <1>1 DEF Invitation, InvitationOf
<1>6. E!Lapse(S)
  BY <1>1, <1>4, <1>5, WaitingIsAwaiting DEF E!Lapse, Stage, Label, Invitation
<1>7. QED
  BY <1>1, <1>6 DEF ContractStep, E!Next

(* The rest of the steps read, give up, or write what the contract does    *)
(* not see.                                                                *)
LEMMA SilentSteps ==
    ASSUME RegistryInv, UNCHANGED <<issued, tokens>>, UNCHANGED clients \/ TouchLastUsed
    PROVE  ContractStep
<1>1. \A c \in Ids : StageOf(c)' = StageOf(c) /\ LabelOf(c)' = LabelOf(c)
  <2>1. CASE UNCHANGED clients
    BY <2>1, SameRow
  <2>2. CASE TouchLastUsed
    <3> SUFFICES ASSUME NEW c \in Ids
                 PROVE  StageOf(c)' = StageOf(c) /\ LabelOf(c)' = LabelOf(c)
      OBVIOUS
    <3>1. CASE clients'[c] = clients[c]
      BY <3>1, SameRow
    <3>2. CASE clients'[c] # clients[c]
      <4>1. /\ clients[c] \in ClientRow
            /\ clients'[c] = [clients[c] EXCEPT !.lastUsed = now]
        BY <2>2, <3>2 DEF TouchLastUsed, Rows, RegistryInv, TypeInv, TypeOK
      <4>2. clients'[c] \in ClientRow
        BY <4>1 DEF ClientRow, RegistryInv, TypeInv, TypeOK
      <4>3. QED
        BY <4>1, <4>2, SameRow DEF ClientRow
    <3>3. QED
      BY <3>1, <3>2
  <2>3. QED
    BY <2>1, <2>2
<1>2. QED
  BY <1>1, Stutter

(* Every step of the registry is one of these.                             *)
LEMMA StepImplements ==
    ASSUME RegistryInv, [Next]_vars
    PROVE  ContractStep
<1>1. CASE UNCHANGED vars
  BY <1>1, SilentSteps DEF vars
<1>2. ASSUME NEW c \in Ids,
             \/ InsertPending(c) \/ SpendToken(c)
             \/ \E s \in Sites : Approve(c, s)
             \/ RejectPending(c) \/ DeletePending(c) \/ DeleteDisabled(c)
      PROVE  ContractStep
  BY <1>2, InsertIsSubmit, SpendIsAccept, DecisionSteps
<1>3. ASSUME NEW t \in RegTokens, (\E s \in Sites : CreateToken(t, s)) \/ RevokeToken(t)
      PROVE  ContractStep
  BY <1>3, TokenSteps
<1>4. ASSUME NEW a \in Admins, DisableWrite(a) \/ EnableWrite(a) PROVE ContractStep
  <2>1. admin[a].id \in Held
    BY <1>4 DEF DisableWrite, EnableWrite, Held, RegistryInv, TypeInv, AdminTyped
  <2>2. /\ clients' = Disabled(admin[a].id, "disabled-by-admin")
              \/ clients' = ReEnabled(admin[a].id)
        /\ UNCHANGED <<issued, tokens>>
    BY <1>4 DEF DisableWrite, EnableWrite
  <2>3. QED
    BY <2>1, <2>2, HeldSteps DEF Reasons
<1>5. ASSUME NEW c \in Ids, JobDisable(c) PROVE ContractStep
  <2>1. c \in Held /\ clients' = Disabled(c, "idle") /\ UNCHANGED <<issued, tokens>>
    BY <1>5 DEF JobDisable, Held
  <2>2. QED
    BY <2>1, HeldSteps DEF Reasons
<1>6. CASE JobPurge
  BY <1>6, PurgeIsLapse
<1>7. ASSUME \/ \E k \in Keys : RegisterPending(k)
             \/ CountPending
             \/ \E k \in Keys, t \in RegTokens : RegisterWithToken(k, t)
             \/ SpendRefused \/ Recheck \/ FetchClient
             \/ \E c \in Ids : IssueToken(c)
             \/ TouchLastUsed \/ LoopAbort
      PROVE  ContractStep
  <2>1. UNCHANGED <<issued, tokens>> /\ (UNCHANGED clients \/ TouchLastUsed)
    BY <1>7 DEF RegisterPending, CountPending, RegisterWithToken, SpendRefused, Recheck,
                FetchClient, IssueToken, TouchLastUsed, LoopAbort
  <2>2. QED
    BY <2>1, SilentSteps
<1>8. ASSUME \/ \E a \in Admins, c \in Ids : DisableRead(a, c) \/ EnableRead(a, c)
             \/ \E a \in Admins : AdminAbort(a)
             \/ JobStart \/ JobCutoff \/ JobAbort \/ Tick
      PROVE  ContractStep
  <2>1. UNCHANGED <<issued, tokens>> /\ UNCHANGED clients
    BY <1>8 DEF DisableRead, EnableRead, AdminAbort, JobStart, JobCutoff, JobAbort, Tick
  <2>2. QED
    BY <2>1, SilentSteps
<1>9. QED
  BY <1>1, <1>2, <1>3, <1>4, <1>5, <1>6, <1>7, <1>8 DEF Next, LoopNext, AdminNext, JobStep

(* The registry implements the enrollment contract: whatever handlers, the *)
(* job and failures do at the same time, nothing returns from rejection,   *)
(* suspension or deletion by itself, and a working client is never removed.*)
THEOREM RegistryImplementsEnrollment == Spec => Lifecycle
<1>1. Init => E!Init
  <2> SUFFICES ASSUME Init PROVE E!Init
    OBVIOUS
  <2>1. /\ \A c \in Ids : StageOf(c) = "fresh" /\ LabelOf(c) = Null
        /\ \A t \in RegTokens : InvitationOf(t) = [status |-> "none", site |-> Null]
    BY DEF Init, StageOf, LabelOf, InvitationOf, Rows
  <2>2. QED
    BY <2>1 DEF E!Init
<1>2. RegistryInv /\ [Next]_vars => [E!Next]_(E!vars)
  BY StepImplements DEF ContractStep
<1>3. QED
  BY <1>1, <1>2, RegistryInvariant, PTL DEF Spec, Lifecycle, E!Spec
===============================================================================

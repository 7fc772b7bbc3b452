------------------------------ MODULE Enrollment ------------------------------
(***************************************************************************)
(* What the registry promises its administrators about a registration,     *)
(* whatever /register, the dashboard, /token and the expire job do at the  *)
(* same moment: a registration waits for a decision or is invited by a     *)
(* one-time token, a decision is never taken back behind an admin's back,  *)
(* and nothing that works is ever removed.  There is no clock and no       *)
(* request here; Registry implements this specification.                   *)
(***************************************************************************)
EXTENDS Naturals, FiniteSets

CONSTANTS Ids,          \* client ids, each generated once
          Sites,        \* display labels an admin may enter
          RegTokens,    \* one-time registration tokens
          MaxPending,   \* MAX_PENDING_CLIENTS
          Null          \* no value

VARIABLES stage,        \* where each client id is in its life
          label,        \* the site each client id is registered for
          invitation    \* what became of each registration token

vars == <<stage, label, invitation>>

Stages == {"fresh", "waiting", "rejected", "active", "suspended", "gone"}

Invitations == [status : {"none", "open", "spent", "withdrawn"},
                site   : Sites \cup {Null}]

TypeOK ==
    /\ stage \in [Ids -> Stages]
    /\ label \in [Ids -> Sites \cup {Null}]
    /\ invitation \in [RegTokens -> Invitations]

Init ==
    /\ stage = [c \in Ids |-> "fresh"]
    /\ label = [c \in Ids |-> Null]
    /\ invitation = [t \in RegTokens |-> [status |-> "none", site |-> Null]]

Waiting == {c \in Ids : stage[c] = "waiting"}

(* A shoveler without a token asks to be registered. *)
Submit(c) ==
    /\ stage[c] = "fresh"
    /\ Cardinality(Waiting) < MaxPending
    /\ stage' = [stage EXCEPT ![c] = "waiting"]
    /\ UNCHANGED <<label, invitation>>

(* An admin decides on a waiting registration. *)
Approve(c, s) ==
    /\ stage[c] = "waiting"
    /\ stage' = [stage EXCEPT ![c] = "active"]
    /\ label' = [label EXCEPT ![c] = s]
    /\ UNCHANGED invitation

Reject(c) ==
    /\ stage[c] = "waiting"
    /\ stage' = [stage EXCEPT ![c] = "rejected"]
    /\ UNCHANGED <<label, invitation>>

(* An admin forgets a registration that was never approved. *)
Forget(c) ==
    /\ stage[c] \in {"waiting", "rejected"}
    /\ stage' = [stage EXCEPT ![c] = "gone"]
    /\ UNCHANGED <<label, invitation>>

(* Registrations nobody decided on lapse, several at once. *)
Lapse(S) ==
    /\ S \subseteq Waiting
    /\ stage' = [c \in Ids |-> IF c \in S THEN "gone" ELSE stage[c]]
    /\ UNCHANGED <<label, invitation>>

(* An admin hands out a one-time token, and may take it back unused. *)
Invite(t, s) ==
    /\ invitation[t].status = "none"
    /\ invitation' = [invitation EXCEPT ![t] = [status |-> "open", site |-> s]]
    /\ UNCHANGED <<stage, label>>

Withdraw(t) ==
    /\ invitation[t].status = "open"
    /\ invitation' = [invitation EXCEPT ![t].status = "withdrawn"]
    /\ UNCHANGED <<stage, label>>

(* A shoveler spends a token and is active at once, for the token's site. *)
Accept(t, c) ==
    /\ invitation[t].status = "open"
    /\ stage[c] = "fresh"
    /\ invitation' = [invitation EXCEPT ![t].status = "spent"]
    /\ stage' = [stage EXCEPT ![c] = "active"]
    /\ label' = [label EXCEPT ![c] = invitation[t].site]

(* An approved client is suspended and resumed, and removed only while     *)
(* suspended.                                                              *)
Suspend(c) ==
    /\ stage[c] = "active"
    /\ stage' = [stage EXCEPT ![c] = "suspended"]
    /\ UNCHANGED <<label, invitation>>

Resume(c) ==
    /\ stage[c] = "suspended"
    /\ stage' = [stage EXCEPT ![c] = "active"]
    /\ UNCHANGED <<label, invitation>>

Remove(c) ==
    /\ stage[c] = "suspended"
    /\ stage' = [stage EXCEPT ![c] = "gone"]
    /\ label' = [label EXCEPT ![c] = Null]
    /\ UNCHANGED invitation

Next ==
    \/ \E c \in Ids :
           \/ Submit(c) \/ Reject(c) \/ Forget(c)
           \/ Suspend(c) \/ Resume(c) \/ Remove(c)
           \/ \E s \in Sites : Approve(c, s)
           \/ \E t \in RegTokens : Accept(t, c)
    \/ \E S \in SUBSET Ids : Lapse(S)
    \/ \E t \in RegTokens :
           \/ Withdraw(t)
           \/ \E s \in Sites : Invite(t, s)

Spec == Init /\ [][Next]_vars
===============================================================================

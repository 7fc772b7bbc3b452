-------------------------------- MODULE Access --------------------------------
(***************************************************************************)
(* The life of access tokens: /token mints them with the key the portal    *)
(* has loaded, the shoveler presents them to /report, the admins disable   *)
(* and enable the shoveler, operators rotate keys, restart the portal and  *)
(* remove retired keys, and the dashboard tells from last_used_at whether  *)
(* the newest token has expired.  KeyRing is the contract of the key       *)
(* directory; TokenEndpoint models how /token checks an assertion, which   *)
(* is taken as valid here.                                                 *)
(***************************************************************************)
EXTENDS Integers

CONSTANTS
    Kids,       \* numbers of the signing keys
    TTL,        \* TOKEN_TTL_SECONDS
    Leeway,     \* ASSERTION_LEEWAY_SECONDS
    Stall,      \* the clock ticks that one request may span
    MaxTime,    \* bound of the model: the clock stops here
    Null

VARIABLES
    now,        \* the wall clock
    published, active, loaded,      \* the key ring
    client,     \* the shoveler's row, and when it was disabled last
    request,    \* its /token request, between two statements
    tokens,     \* the tokens the shoveler received and that may still count
    signedLast, \* history: when each key could sign last
    page        \* the time a dashboard page started at, or Null

ringVars == <<published, active, loaded>>
vars == <<now, published, active, loaded, client, request, tokens, signedLast, page>>

Ring == INSTANCE KeyRing

Times == 0 .. MaxTime

Token == [kid : Kids, exp : Nat]

ASSUME ConstantsAssumption ==
    /\ Kids \subseteq Nat \ {0}
    /\ TTL \in Nat \ {0}
    /\ {Leeway, Stall, MaxTime} \subseteq Nat
    /\ Null \notin Nat

TypeOK ==
    /\ now \in Times
    /\ published \in SUBSET Kids /\ active \in Kids \cup {0}
    /\ loaded \in [keys : SUBSET Kids, active : Kids \cup {0}]
    /\ client \in [enabled : BOOLEAN, lastUsed : Times \cup {Null}, disabled : Times]
    /\ request \in [pc : {"idle", "mint", "touch", "answer"}, begun : Times,
                    token : Token \cup {Null}]
    /\ tokens \in SUBSET Token
    /\ signedLast \in [Kids -> Times]
    /\ page \in Times \cup {Null}

Idle == [pc |-> "idle", begun |-> 0, token |-> Null]

Init ==
    /\ now = 0
    /\ Ring!Init
    /\ client = [enabled |-> TRUE, lastUsed |-> Null, disabled |-> 0]
    /\ request = Idle
    /\ tokens = {}
    /\ signedLast = [k \in Kids |-> 0]
    /\ page = Null

UpBeforeLoading == TRUE

(* No request is served before the keys are loaded. *)
Up == loaded # Ring!Unloaded

-------------------------------------------------------------------------------
(* /token: read the row, mint, touch, answer. *)

ServedAnyway == TRUE

Served == client.enabled

ReadClient ==
    /\ Up /\ request = Idle
    /\ Served
    /\ request' = [Idle EXCEPT !.pc = "mint", !.begun = now]
    /\ UNCHANGED <<now, ringVars, client, tokens, signedLast, page>>

Mint ==
    /\ request.pc = "mint"
    /\ request' = [request EXCEPT !.pc = "touch",
                       !.token = [kid |-> loaded.active, exp |-> now + TTL]]
    /\ UNCHANGED <<now, ringVars, client, tokens, signedLast, page>>

TouchedWhenBegun == request.begun

Touched == now

Touch ==
    /\ request.pc = "touch"
    /\ client' = [client EXCEPT !.lastUsed = Touched]
    /\ request' = [request EXCEPT !.pc = "answer"]
    /\ UNCHANGED <<now, ringVars, tokens, signedLast, page>>

Answer ==
    /\ request.pc = "answer"
    /\ tokens' = tokens \cup {request.token}
    /\ request' = Idle
    /\ UNCHANGED <<now, ringVars, client, signedLast, page>>

(* A statement failed, or the answer was lost. *)
Lose ==
    /\ request # Idle
    /\ request' = Idle
    /\ UNCHANGED <<now, ringVars, client, tokens, signedLast, page>>

(* verify_access_token, at /report. *)
Verifies(t) ==
    /\ Up
    /\ t.kid \in loaded.keys
    /\ now - Leeway < t.exp
    /\ client.enabled

-------------------------------------------------------------------------------
(* The admins, the operators and the portal's process. *)

Disable ==
    /\ client.enabled
    /\ client' = [client EXCEPT !.enabled = FALSE, !.disabled = now]
    /\ UNCHANGED <<now, ringVars, request, tokens, signedLast, page>>

Enable ==
    /\ ~client.enabled
    /\ client' = [client EXCEPT !.enabled = TRUE, !.disabled = 0]
    /\ UNCHANGED <<now, ringVars, request, tokens, signedLast, page>>

Rotate(k) ==
    /\ Ring!Rotate(k)
    /\ UNCHANGED <<now, client, request, tokens, signedLast, page>>

StartPortal ==
    /\ ~Up
    /\ Ring!Load
    /\ UNCHANGED <<now, client, request, tokens, signedLast, page>>

(* A restart, a redeployment or a crash takes the request along. *)
StopPortal ==
    /\ Up
    /\ Ring!Unload
    /\ signedLast' = [signedLast EXCEPT ![loaded.active] = now]
    /\ request' = Idle
    /\ UNCHANGED <<now, client, tokens, page>>

(* "run generate, then reload/restart the portal ... After the previous    *)
(* tokens' TTL has elapsed, the retired key may be removed".               *)
Removable(k) == loaded.active # k /\ signedLast[k] + TTL <= now

Remove(k) ==
    /\ Removable(k)
    /\ Ring!Remove(k)
    /\ UNCHANGED <<now, client, request, tokens, signedLast, page>>

Tick ==
    /\ now < MaxTime
    /\ request # Idle => now < request.begun + Stall
    /\ page # Null => now < page + Stall
    /\ now' = now + 1
    /\ tokens' = {t \in tokens : t.exp >= now - Stall}      \* forget what no page can be about
    /\ UNCHANGED <<ringVars, client, request, signedLast, page>>

-------------------------------------------------------------------------------
(* A page fixes "now", and reads the row after other SELECTs. *)

OpenPage ==
    /\ page = Null
    /\ page' = now
    /\ UNCHANGED <<now, ringVars, client, request, tokens, signedLast>>

TokenHint == client.lastUsed # Null /\ client.lastUsed + TTL < page

ShowPage ==
    /\ page # Null
    /\ page' = Null
    /\ UNCHANGED <<now, ringVars, client, request, tokens, signedLast>>

Next ==
    \/ ReadClient \/ Mint \/ Touch \/ Answer \/ Lose
    \/ Disable \/ Enable
    \/ \E k \in Kids : Rotate(k)
    \/ StartPortal \/ StopPortal
    \/ \E k \in Kids : Remove(k)
    \/ Tick
    \/ OpenPage \/ ShowPage

Spec == Init /\ [][Next]_vars

-------------------------------------------------------------------------------
(* README: "tokens from a recently-retired key keep validating until they  *)
(* expire."  Whenever the portal is up, every unexpired token of an        *)
(* enabled shoveler is accepted, whatever was rotated, restarted and       *)
(* removed since it was issued.                                            *)
OutstandingVerifies ==
    \A t \in tokens : (Up /\ client.enabled /\ now < t.exp) => Verifies(t)

(* A disabled shoveler is out, for RabbitMQ too, after one token lifetime: *)
(* not even a request that was checked before outlives that by more than   *)
(* the time it took.                                                       *)
CutOff ==
    ~client.enabled => \A t \in tokens : t.exp <= client.disabled + TTL + Stall

(* "Its newest token from this registry expired": at the time of the page  *)
(* every token the shoveler ever received has.                             *)
HintTrue ==
    [][page # Null /\ page' = Null /\ TokenHint => \A t \in tokens : t.exp < page]_vars
===============================================================================

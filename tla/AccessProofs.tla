------------------------------ MODULE AccessProofs -----------------------------
(***************************************************************************)
(* Theorems about Access for every token lifetime, leeway, stall and set   *)
(* of keys: what an access token opens, how long a disabled shoveler is    *)
(* still in, and that the dashboard's hint is true.                        *)
(***************************************************************************)
EXTENDS Access, TLAPS

(* The tokens that were minted and not lost, delivered or not.             *)
Carried == IF request.pc \in {"touch", "answer"} THEN {request.token} ELSE {}

Minted == tokens \cup Carried

(* A request is served by a portal that is up; what is up has a key.       *)
Serving ==
    /\ Up => loaded.active \in loaded.keys
    /\ request # Idle => Up
    /\ request.pc = "idle" => request = Idle
    /\ Carried \subseteq Token

(* No token outlives the last time its key could sign by more than TTL.    *)
SignedInTime ==
    \A t \in Minted :
        /\ t.exp <= now + TTL
        /\ loaded.active # t.kid => t.exp <= signedLast[t.kid] + TTL

(* The key of an unexpired token is listed in the manifest, and loaded.    *)
KeysKept ==
    /\ active \in published \cup {0}
    /\ Up => loaded.active \in published
    /\ \A t \in Minted : now < t.exp =>
           /\ t.kid \in published
           /\ Up => t.kid \in loaded.keys

(* The request of a disabled shoveler began before it was disabled.        *)
BegunBefore ==
    /\ client.disabled <= now
    /\ request # Idle => request.begun <= now /\ now <= request.begun + Stall
    /\ ~client.enabled =>
           /\ request # Idle => request.begun <= client.disabled
           /\ \A t \in Minted : t.exp <= client.disabled + TTL + Stall

(* What was delivered was minted before last_used_at was written.          *)
TouchedAfter ==
    /\ client.lastUsed # Null => client.lastUsed <= now
    /\ \A t \in tokens : client.lastUsed # Null /\ t.exp <= client.lastUsed + TTL
    /\ request.pc = "answer" =>
           client.lastUsed # Null /\ request.token.exp <= client.lastUsed + TTL

AccessInv ==
    TypeOK /\ Serving /\ SignedInTime /\ KeysKept /\ BegunBefore /\ TouchedAfter

USE ConstantsAssumption DEF ConstantsAssumption, Times

(* Initially there are no tokens and no keys.                              *)
LEMMA InitInv == Init => AccessInv
BY DEF Init, AccessInv, TypeOK, Serving, SignedInTime, KeysKept, BegunBefore,
       TouchedAfter, Minted, Carried, Idle, Up, Token, Ring!Init, Ring!Unloaded

(* Types are inductive together with what a request needs of the portal.   *)
LEMMA TypeStep ==
    ASSUME TypeOK, Serving, [Next]_vars
    PROVE  TypeOK' /\ Serving'
<1> DEFINE Goal == TypeOK' /\ Serving'
<1> SUFFICES Goal
  OBVIOUS
<1> USE DEF TypeOK, Serving, Carried, Up, Idle, ringVars
<1>1. CASE ReadClient
  BY <1>1 DEF ReadClient, Served, Touched, Token, Ring!Unloaded, Ring!Load, Ring!Unload
<1>2. CASE Mint
  <2>1. loaded.active \in Kids
    BY <1>2 DEF Mint
  <2>2. [kid |-> loaded.active, exp |-> now + TTL] \in Token
    BY <2>1 DEF Token
  <2>3. request' = [request EXCEPT !.pc = "touch",
                        !.token = [kid |-> loaded.active, exp |-> now + TTL]]
    BY <1>2 DEF Mint
  <2>4. request' \in [pc : {"idle", "mint", "touch", "answer"}, begun : Times,
                       token : Token \cup {Null}]
    BY <2>2, <2>3
  <2>5. Carried' \subseteq Token /\ request'.pc = "touch"
    BY <2>2, <2>3
  <2>6. UNCHANGED <<now, published, active, loaded, client, tokens, signedLast, page>>
    BY <1>2 DEF Mint
  <2>7. TypeOK'
    BY <2>4, <2>6 DEF Token
  <2>8. request # Idle
    BY <1>2 DEF Mint
  <2>9. Serving'
    BY <2>5, <2>6, <2>8 DEF Token, Ring!Unloaded
  <2>10. QED
    BY <2>7, <2>9
<1>3. CASE Touch
  BY <1>3 DEF Touch, Served, Touched, Token, Ring!Unloaded, Ring!Load, Ring!Unload
<1>4. CASE Answer
  BY <1>4 DEF Answer, Served, Touched, Token, Ring!Unloaded, Ring!Load, Ring!Unload
<1>5. CASE Lose
  BY <1>5 DEF Lose, Served, Touched, Token, Ring!Unloaded, Ring!Load, Ring!Unload
<1>6. CASE Disable
  BY <1>6 DEF Disable, Served, Touched, Token, Ring!Unloaded, Ring!Load, Ring!Unload
<1>7. CASE Enable
  <2>1. client' \in [enabled : BOOLEAN, lastUsed : Times \cup {Null}, disabled : Times]
    BY <1>7, 0 \in 0 .. MaxTime DEF Enable
  <2>2. QED
    BY <1>7, <2>1 DEF Enable, Token, Ring!Unloaded
<1>8. CASE StartPortal
  BY <1>8 DEF StartPortal, Served, Touched, Token, Ring!Unloaded, Ring!Load, Ring!Unload
<1>9. CASE StopPortal
  BY <1>9 DEF StopPortal, Served, Touched, Token, Ring!Unloaded, Ring!Load, Ring!Unload
<1>10. CASE Tick
  BY <1>10 DEF Tick, Served, Touched, Token, Ring!Unloaded, Ring!Load, Ring!Unload
<1>11. CASE OpenPage
  BY <1>11 DEF OpenPage, Served, Touched, Token, Ring!Unloaded, Ring!Load, Ring!Unload
<1>12. CASE ShowPage
  BY <1>12 DEF ShowPage, Served, Touched, Token, Ring!Unloaded, Ring!Load, Ring!Unload
<1>13. ASSUME NEW k \in Kids, Rotate(k) PROVE Goal
  BY <1>13 DEF Rotate, Ring!Rotate, Served, Touched, Token, Ring!Unloaded, Ring!Load, Ring!Unload
<1>14. ASSUME NEW k \in Kids, Remove(k) PROVE Goal
  BY <1>14 DEF Remove, Ring!Remove, Removable, Served, Touched, Token, Ring!Unloaded, Ring!Load, Ring!Unload
<1>15. CASE UNCHANGED vars
  BY <1>15 DEF vars, Served, Touched, Token, Ring!Unloaded, Ring!Load, Ring!Unload
<1>16. QED
  BY <1>1, <1>2, <1>3, <1>4, <1>5, <1>6, <1>7, <1>8, <1>9, <1>10, <1>11, <1>12, <1>13, <1>14, <1>15 DEF Next

(* Only Mint adds a token.                                                 *)
LEMMA OnlyMintAdds ==
    ASSUME TypeOK, Serving, [Next]_vars
    PROVE  \A t \in Minted' :
               \/ t \in Minted
               \/ Mint /\ t = [kid |-> loaded.active, exp |-> now + TTL]
<1> DEFINE Goal == \A t \in Minted' :
               \/ t \in Minted
               \/ Mint /\ t = [kid |-> loaded.active, exp |-> now + TTL]
<1> SUFFICES Goal
  OBVIOUS
<1> USE DEF Minted, Carried, Idle, ringVars
<1>1. CASE ReadClient
  BY <1>1 DEF ReadClient
<1>2. CASE Mint
  BY <1>2 DEF Mint
<1>3. CASE Touch
  BY <1>3 DEF Touch
<1>4. CASE Answer
  BY <1>4 DEF Answer
<1>5. CASE Lose
  BY <1>5 DEF Lose
<1>6. CASE Disable
  BY <1>6 DEF Disable
<1>7. CASE Enable
  BY <1>7 DEF Enable
<1>8. CASE StartPortal
  BY <1>8 DEF StartPortal
<1>9. CASE StopPortal
  BY <1>9 DEF StopPortal
<1>10. CASE Tick
  BY <1>10 DEF Tick
<1>11. CASE OpenPage
  BY <1>11 DEF OpenPage
<1>12. CASE ShowPage
  BY <1>12 DEF ShowPage
<1>13. ASSUME NEW k \in Kids, Rotate(k) PROVE Goal
  BY <1>13 DEF Rotate, Ring!Rotate
<1>14. ASSUME NEW k \in Kids, Remove(k) PROVE Goal
  BY <1>14 DEF Remove, Ring!Remove, Removable
<1>15. CASE UNCHANGED vars
  BY <1>15 DEF vars
<1>16. QED
  BY <1>1, <1>2, <1>3, <1>4, <1>5, <1>6, <1>7, <1>8, <1>9, <1>10, <1>11, <1>12, <1>13, <1>14, <1>15 DEF Next

(* Every token still counts from when its key could sign last: a portal    *)
(* that stops writes that time down.                                       *)
LEMMA SignedStep ==
    ASSUME TypeOK, Serving, SignedInTime, [Next]_vars
    PROVE  SignedInTime'
<1> SUFFICES ASSUME NEW t \in Minted'
             PROVE  /\ t.exp <= now' + TTL
                    /\ loaded'.active # t.kid => t.exp <= signedLast'[t.kid] + TTL
  BY DEF SignedInTime
<1>a. t \in Token
  BY TypeStep DEF TypeOK, Serving, Minted, Token
<1>b. t \in Minted \/ (Mint /\ t = [kid |-> loaded.active, exp |-> now + TTL])
  BY OnlyMintAdds
<1>c. t \in Minted =>
          /\ t.exp <= now + TTL
          /\ loaded.active # t.kid => t.exp <= signedLast[t.kid] + TTL
  BY DEF SignedInTime
<1>d. /\ t.kid \in Kids /\ t.exp \in Nat /\ now \in Nat
      /\ loaded.active \in Kids \cup {0}
      /\ \A k \in Kids : k # 0
      /\ \A k \in Kids : signedLast[k] \in Nat
      /\ signedLast \in [Kids -> Times]
  BY <1>a DEF Token, TypeOK
<1> DEFINE Goal == /\ t.exp <= now' + TTL
                   /\ loaded'.active # t.kid => t.exp <= signedLast'[t.kid] + TTL
<1>e. CASE Mint /\ t = [kid |-> loaded.active, exp |-> now + TTL]
  BY <1>d, <1>e DEF Mint, ringVars
<1>f. CASE t \in Minted
  <2> SUFFICES Goal
    OBVIOUS
  <2> HIDE DEF Carried, Minted
  <2> USE DEF ringVars
  <2>1. CASE ReadClient
    BY <2>1, <1>c, <1>d, <1>f DEF ReadClient, Up, Ring!Load, Ring!Unload, Ring!Unloaded
  <2>2. CASE Mint
    BY <2>2, <1>c, <1>d, <1>f DEF Mint, Up, Ring!Load, Ring!Unload, Ring!Unloaded
  <2>3. CASE Touch
    BY <2>3, <1>c, <1>d, <1>f DEF Touch, Up, Ring!Load, Ring!Unload, Ring!Unloaded
  <2>4. CASE Answer
    BY <2>4, <1>c, <1>d, <1>f DEF Answer, Up, Ring!Load, Ring!Unload, Ring!Unloaded
  <2>5. CASE Lose
    BY <2>5, <1>c, <1>d, <1>f DEF Lose, Up, Ring!Load, Ring!Unload, Ring!Unloaded
  <2>6. CASE Disable
    BY <2>6, <1>c, <1>d, <1>f DEF Disable, Up, Ring!Load, Ring!Unload, Ring!Unloaded
  <2>7. CASE Enable
    BY <2>7, <1>c, <1>d, <1>f DEF Enable, Up, Ring!Load, Ring!Unload, Ring!Unloaded
  <2>8. CASE StartPortal
    BY <2>8, <1>c, <1>d, <1>f DEF StartPortal, Up, Ring!Load, Ring!Unload, Ring!Unloaded
  <2>9. CASE StopPortal
    BY <2>9, <1>c, <1>d, <1>f DEF StopPortal, Up, Ring!Load, Ring!Unload, Ring!Unloaded
  <2>10. CASE Tick
    BY <2>10, <1>c, <1>d, <1>f DEF Tick, Up, Ring!Load, Ring!Unload, Ring!Unloaded
  <2>11. CASE OpenPage
    BY <2>11, <1>c, <1>d, <1>f DEF OpenPage, Up, Ring!Load, Ring!Unload, Ring!Unloaded
  <2>12. CASE ShowPage
    BY <2>12, <1>c, <1>d, <1>f DEF ShowPage, Up, Ring!Load, Ring!Unload, Ring!Unloaded
  <2>13. ASSUME NEW k \in Kids, Rotate(k) PROVE Goal
    BY <2>13, <1>c, <1>d, <1>f DEF Rotate, Ring!Rotate, Up, Ring!Load, Ring!Unload, Ring!Unloaded
  <2>14. ASSUME NEW k \in Kids, Remove(k) PROVE Goal
    BY <2>14, <1>c, <1>d, <1>f DEF Remove, Ring!Remove, Removable, Up, Ring!Load, Ring!Unload, Ring!Unloaded
  <2>15. CASE UNCHANGED vars
    BY <2>15, <1>c, <1>d, <1>f DEF vars, Up, Ring!Load, Ring!Unload, Ring!Unloaded
  <2>16. QED
    BY <2>1, <2>2, <2>3, <2>4, <2>5, <2>6, <2>7, <2>8, <2>9, <2>10, <2>11, <2>12, <2>13, <2>14, <2>15 DEF Next
<1>g. QED
  BY <1>b, <1>e, <1>f

(* Keys stay listed, and loaded, for as long as a token needs them.        *)
LEMMA KeysStep ==
    ASSUME TypeOK, Serving, SignedInTime, KeysKept, [Next]_vars
    PROVE  KeysKept'
<1>a. ASSUME NEW t \in Minted'
      PROVE  /\ t.kid \in Kids /\ t.exp \in Nat
             /\ t \in Minted \/ (Mint /\ t = [kid |-> loaded.active, exp |-> now + TTL])
  BY <1>a, TypeStep, OnlyMintAdds DEF TypeOK, Serving, Minted, Token
<1> DEFINE Kept(t) == now' < t.exp => /\ t.kid \in published'
                                      /\ Up' => t.kid \in loaded'.keys
<1> DEFINE RingKept == /\ active' \in published' \cup {0}
                       /\ (Up' => loaded'.active \in published')
<1> DEFINE Goal == RingKept /\ \A t \in Minted' : Kept(t)
<1> SUFFICES Goal
  BY DEF KeysKept
<1> HIDE DEF Minted, Carried
<1> USE DEF TypeOK, KeysKept, Serving, SignedInTime, ringVars, Up
<1>1. CASE ReadClient
  BY <1>1, <1>a DEF ReadClient, Mint, Ring!Load, Ring!Unload, Ring!Unloaded
<1>2. CASE Mint
  BY <1>2, <1>a DEF Mint, Mint, Ring!Load, Ring!Unload, Ring!Unloaded
<1>3. CASE Touch
  BY <1>3, <1>a DEF Touch, Mint, Ring!Load, Ring!Unload, Ring!Unloaded
<1>4. CASE Answer
  BY <1>4, <1>a DEF Answer, Mint, Ring!Load, Ring!Unload, Ring!Unloaded
<1>5. CASE Lose
  BY <1>5, <1>a DEF Lose, Mint, Ring!Load, Ring!Unload, Ring!Unloaded
<1>6. CASE Disable
  BY <1>6, <1>a DEF Disable, Mint, Ring!Load, Ring!Unload, Ring!Unloaded
<1>7. CASE Enable
  BY <1>7, <1>a DEF Enable, Mint, Ring!Load, Ring!Unload, Ring!Unloaded
<1>8. CASE StartPortal
  BY <1>8, <1>a DEF StartPortal, Mint, Ring!Load, Ring!Unload, Ring!Unloaded
<1>9. CASE StopPortal
  BY <1>9, <1>a DEF StopPortal, Mint, Ring!Load, Ring!Unload, Ring!Unloaded
<1>10. CASE Tick
  BY <1>10, <1>a DEF Tick, Mint, Ring!Load, Ring!Unload, Ring!Unloaded
<1>11. CASE OpenPage
  BY <1>11, <1>a DEF OpenPage, Mint, Ring!Load, Ring!Unload, Ring!Unloaded
<1>12. CASE ShowPage
  BY <1>12, <1>a DEF ShowPage, Mint, Ring!Load, Ring!Unload, Ring!Unloaded
<1>13. ASSUME NEW k \in Kids, Rotate(k) PROVE Goal
  BY <1>13, <1>a DEF Rotate, Ring!Rotate, Mint, Ring!Load, Ring!Unload, Ring!Unloaded
<1>14. ASSUME NEW k \in Kids, Remove(k) PROVE Goal
  BY <1>14, <1>a DEF Remove, Ring!Remove, Removable, Mint, Ring!Load, Ring!Unload, Ring!Unloaded
<1>15. CASE UNCHANGED vars
  BY <1>15, <1>a DEF vars, Mint, Ring!Load, Ring!Unload, Ring!Unloaded
<1>16. QED
  BY <1>1, <1>2, <1>3, <1>4, <1>5, <1>6, <1>7, <1>8, <1>9, <1>10, <1>11, <1>12, <1>13, <1>14, <1>15 DEF Next

(* A request that is still in flight when its shoveler is disabled began   *)
(* before, and takes no longer than Stall.                                 *)
LEMMA BegunStep ==
    ASSUME TypeOK, Serving, SignedInTime, BegunBefore, [Next]_vars
    PROVE  BegunBefore'
<1>a. ASSUME NEW t \in Minted'
      PROVE  /\ t.exp \in Nat
             /\ t \in Minted \/ (Mint /\ t = [kid |-> loaded.active, exp |-> now + TTL])
  BY <1>a, TypeStep, OnlyMintAdds DEF TypeOK, Serving, Minted, Token
<1> DEFINE Goal ==
        /\ client'.disabled <= now'
        /\ request' # Idle => request'.begun <= now' /\ now' <= request'.begun + Stall
        /\ ~client'.enabled =>
               /\ request' # Idle => request'.begun <= client'.disabled
               /\ \A t \in Minted' : t.exp <= client'.disabled + TTL + Stall
<1> SUFFICES Goal
  BY DEF BegunBefore, Idle
<1> HIDE DEF Minted, Carried
<1> USE DEF TypeOK, BegunBefore, SignedInTime, ringVars, Idle
<1>1. CASE ReadClient
  BY <1>1, <1>a DEF ReadClient, Mint, Served, Touched, Ring!Load, Ring!Unload, Ring!Unloaded
<1>2. CASE Mint
  BY <1>2, <1>a DEF Mint, Mint, Served, Touched, Ring!Load, Ring!Unload, Ring!Unloaded
<1>3. CASE Touch
  BY <1>3, <1>a DEF Touch, Mint, Served, Touched, Ring!Load, Ring!Unload, Ring!Unloaded
<1>4. CASE Answer
  BY <1>4, <1>a DEF Answer, Mint, Served, Touched, Ring!Load, Ring!Unload, Ring!Unloaded
<1>5. CASE Lose
  BY <1>5, <1>a DEF Lose, Mint, Served, Touched, Ring!Load, Ring!Unload, Ring!Unloaded
<1>6. CASE Disable
  BY <1>6, <1>a DEF Disable, Mint, Served, Touched, Ring!Load, Ring!Unload, Ring!Unloaded
<1>7. CASE Enable
  BY <1>7, <1>a DEF Enable, Mint, Served, Touched, Ring!Load, Ring!Unload, Ring!Unloaded
<1>8. CASE StartPortal
  BY <1>8, <1>a DEF StartPortal, Mint, Served, Touched, Ring!Load, Ring!Unload, Ring!Unloaded
<1>9. CASE StopPortal
  BY <1>9, <1>a DEF StopPortal, Mint, Served, Touched, Ring!Load, Ring!Unload, Ring!Unloaded
<1>10. CASE Tick
  BY <1>10, <1>a DEF Tick, Mint, Served, Touched, Ring!Load, Ring!Unload, Ring!Unloaded
<1>11. CASE OpenPage
  BY <1>11, <1>a DEF OpenPage, Mint, Served, Touched, Ring!Load, Ring!Unload, Ring!Unloaded
<1>12. CASE ShowPage
  BY <1>12, <1>a DEF ShowPage, Mint, Served, Touched, Ring!Load, Ring!Unload, Ring!Unloaded
<1>13. ASSUME NEW k \in Kids, Rotate(k) PROVE Goal
  BY <1>13, <1>a DEF Rotate, Ring!Rotate, Mint, Served, Touched, Ring!Load, Ring!Unload, Ring!Unloaded
<1>14. ASSUME NEW k \in Kids, Remove(k) PROVE Goal
  BY <1>14, <1>a DEF Remove, Ring!Remove, Removable, Mint, Served, Touched, Ring!Load, Ring!Unload, Ring!Unloaded
<1>15. CASE UNCHANGED vars
  BY <1>15, <1>a DEF vars, Mint, Served, Touched, Ring!Load, Ring!Unload, Ring!Unloaded
<1>16. QED
  BY <1>1, <1>2, <1>3, <1>4, <1>5, <1>6, <1>7, <1>8, <1>9, <1>10, <1>11, <1>12, <1>13, <1>14, <1>15 DEF Next

(* /token writes last_used_at between minting a token and answering it.    *)
LEMMA TouchedStep ==
    ASSUME TypeOK, Serving, SignedInTime, TouchedAfter, [Next]_vars
    PROVE  TouchedAfter'
<1>a. request.pc \in {"touch", "answer"} =>
          request.token \in Token /\ request.token.exp <= now + TTL
  BY DEF Serving, SignedInTime, Minted, Carried
<1>b. \A t \in tokens : t.exp \in Nat
  BY DEF TypeOK, Token
<1>c. request.pc \in {"touch", "answer"} => request.token.exp \in Nat
  BY <1>a DEF Token
<1> DEFINE Goal ==
        /\ client'.lastUsed # Null => client'.lastUsed <= now'
        /\ \A t \in tokens' : client'.lastUsed # Null /\ t.exp <= client'.lastUsed + TTL
        /\ request'.pc = "answer" =>
               client'.lastUsed # Null /\ request'.token.exp <= client'.lastUsed + TTL
<1> SUFFICES Goal
  BY DEF TouchedAfter
<1> USE DEF TypeOK, TouchedAfter, ringVars, Idle
<1>1. CASE ReadClient
  BY <1>1, <1>a, <1>b, <1>c DEF ReadClient, Served, Touched, Ring!Load, Ring!Unload, Ring!Unloaded
<1>2. CASE Mint
  BY <1>2, <1>a, <1>b, <1>c DEF Mint, Served, Touched, Ring!Load, Ring!Unload, Ring!Unloaded
<1>3. CASE Touch
  BY <1>3, <1>a, <1>b, <1>c DEF Touch, Served, Touched, Ring!Load, Ring!Unload, Ring!Unloaded
<1>4. CASE Answer
  BY <1>4, <1>a, <1>b, <1>c DEF Answer, Served, Touched, Ring!Load, Ring!Unload, Ring!Unloaded
<1>5. CASE Lose
  BY <1>5, <1>a, <1>b, <1>c DEF Lose, Served, Touched, Ring!Load, Ring!Unload, Ring!Unloaded
<1>6. CASE Disable
  BY <1>6, <1>a, <1>b, <1>c DEF Disable, Served, Touched, Ring!Load, Ring!Unload, Ring!Unloaded
<1>7. CASE Enable
  BY <1>7, <1>a, <1>b, <1>c DEF Enable, Served, Touched, Ring!Load, Ring!Unload, Ring!Unloaded
<1>8. CASE StartPortal
  BY <1>8, <1>a, <1>b, <1>c DEF StartPortal, Served, Touched, Ring!Load, Ring!Unload, Ring!Unloaded
<1>9. CASE StopPortal
  BY <1>9, <1>a, <1>b, <1>c DEF StopPortal, Served, Touched, Ring!Load, Ring!Unload, Ring!Unloaded
<1>10. CASE Tick
  BY <1>10, <1>a, <1>b, <1>c DEF Tick, Served, Touched, Ring!Load, Ring!Unload, Ring!Unloaded
<1>11. CASE OpenPage
  BY <1>11, <1>a, <1>b, <1>c DEF OpenPage, Served, Touched, Ring!Load, Ring!Unload, Ring!Unloaded
<1>12. CASE ShowPage
  BY <1>12, <1>a, <1>b, <1>c DEF ShowPage, Served, Touched, Ring!Load, Ring!Unload, Ring!Unloaded
<1>13. ASSUME NEW k \in Kids, Rotate(k) PROVE Goal
  BY <1>13, <1>a, <1>b, <1>c DEF Rotate, Ring!Rotate, Served, Touched, Ring!Load, Ring!Unload, Ring!Unloaded
<1>14. ASSUME NEW k \in Kids, Remove(k) PROVE Goal
  BY <1>14, <1>a, <1>b, <1>c DEF Remove, Ring!Remove, Removable, Served, Touched, Ring!Load, Ring!Unload, Ring!Unloaded
<1>15. CASE UNCHANGED vars
  BY <1>15, <1>a, <1>b, <1>c DEF vars, Served, Touched, Ring!Load, Ring!Unload, Ring!Unloaded
<1>16. QED
  BY <1>1, <1>2, <1>3, <1>4, <1>5, <1>6, <1>7, <1>8, <1>9, <1>10, <1>11, <1>12, <1>13, <1>14, <1>15 DEF Next

(* Access keeps its invariant.                                             *)
LEMMA AccessInvHolds == Spec => []AccessInv
<1>1. AccessInv /\ [Next]_vars => AccessInv'
  BY TypeStep, SignedStep, KeysStep, BegunStep, TouchedStep DEF AccessInv
<1>2. QED
  BY InitInv, <1>1, PTL DEF Spec

(* The state is as declared: last_used_at, the keys and what is signed.    *)
THEOREM TypeCorrect == Spec => []TypeOK
<1>1. AccessInv => TypeOK
  BY DEF AccessInv
<1>2. QED
  BY AccessInvHolds, <1>1, PTL

(* Whatever is rotated, restarted and removed, an enabled shoveler's       *)
(* unexpired tokens are accepted by every portal that is up.               *)
THEOREM TokensVerify == Spec => []OutstandingVerifies
<1>1. AccessInv => OutstandingVerifies
  <2> SUFFICES ASSUME AccessInv, NEW t \in tokens, Up, client.enabled, now < t.exp
               PROVE  Verifies(t)
    BY DEF OutstandingVerifies
  <2>1. t \in Minted /\ t.exp \in Nat
    BY DEF AccessInv, TypeOK, Minted, Token
  <2>2. t.kid \in loaded.keys
    BY <2>1 DEF AccessInv, KeysKept
  <2>3. now - Leeway < t.exp
    BY <2>1 DEF AccessInv, TypeOK
  <2>4. QED
    BY <2>2, <2>3 DEF Verifies
<1>2. QED
  BY AccessInvHolds, <1>1, PTL

(* A disabled shoveler holds no token that outlives TTL + Stall, counted   *)
(* from the disabling, a request in flight at that moment included.        *)
THEOREM DisabledIsOut == Spec => []CutOff
<1>1. AccessInv => CutOff
  BY DEF AccessInv, BegunBefore, CutOff, Minted
<1>2. QED
  BY AccessInvHolds, <1>1, PTL

(* When the dashboard says that the newest token expired, all of them had  *)
(* when the page was opened.                                               *)
THEOREM HintIsTrue == Spec => HintTrue
<1>1. AccessInv => (page # Null /\ page' = Null /\ TokenHint => \A t \in tokens : t.exp < page)
  <2> SUFFICES ASSUME AccessInv, page # Null, TokenHint, NEW t \in tokens
               PROVE  t.exp < page
    OBVIOUS
  <2>1. t.exp \in Nat /\ page \in Nat /\ client.lastUsed \in Nat
    BY DEF AccessInv, TypeOK, Token, TokenHint
  <2>2. t.exp <= client.lastUsed + TTL
    BY DEF AccessInv, TouchedAfter
  <2>3. QED
    BY <2>1, <2>2 DEF TokenHint
<1>2. QED
  BY AccessInvHolds, <1>1, PTL DEF HintTrue
=============================================================================

--------------------------- MODULE SigningKeysProofs --------------------------
(***************************************************************************)
(* Theorems about SigningKeys for any number of rotation commands, keys    *)
(* and kills: the types always, and, as long as operators rotate one at a  *)
(* time, that the manifest is never unusable, that every token verifies,   *)
(* that there is one session secret, and that the files implement KeyRing. *)
(***************************************************************************)
EXTENDS SigningKeys, TLAPS, FiniteSetTheorems

(* A process at work has a key; a portal that has loaded keys has an       *)
(* active one; cookies were signed with finitely many secrets.             *)
Working ==
    /\ \A p \in Procs : gen[p].pc # "idle" => gen[p].kid \in Kids
    /\ portal.pc \in {"secret", "write", "up"} => portal.active \in Kids
    /\ IsFiniteSet(sessions)

TypeInv == TypeOK /\ Working

USE ConstantsAssumption DEF ConstantsAssumption

(* Manifests are missing, damaged or list numbered keys.                   *)
LEMMA ManifestFacts ==
    /\ Absent \in Manifest /\ Empty \in Manifest /\ Torn \in Manifest
    /\ \A m \in Manifest : /\ m.keys \in SUBSET Kids
                           /\ m.active \in Nat
                           /\ m.state \in {"absent", "empty", "torn", "whole"}
                           /\ m.state = "whole" => m.active \in Kids
                           /\ m.state = "absent" => m = Absent
    /\ \A K \in SUBSET Kids, k \in Kids :
           [state |-> "whole", keys |-> K, active |-> k] \in Manifest
BY DEF Manifest, Whole, Absent, Empty, Torn, Kids

(* Initially nothing is there.                                             *)
LEMMA TypeInit == Init => TypeInv
<1> SUFFICES ASSUME Init PROVE TypeInv
  OBVIOUS
<1>1. Free \in Generator /\ Down \in Server
  BY ManifestFacts DEF Free, Generator, Down, Server
<1>2. QED
  BY <1>1, ManifestFacts, FS_EmptySet DEF Init, TypeInv, TypeOK, Working, Free, Down, Kids, Secret

(* Every step keeps the types.                                             *)
LEMMA TypeStep == TypeInv /\ [Next]_vars => TypeInv'
<1> SUFFICES ASSUME TypeInv, [Next]_vars PROVE TypeInv'
  OBVIOUS
<1>a. Free \in Generator /\ Free.pc = "idle" /\ Down \in Server /\ Down.pc = "down"
  BY ManifestFacts DEF Free, Generator, Down, Server
<1>b. Portal \in Procs /\ Commands \subseteq Procs
  BY DEF Procs
<1> USE ManifestFacts DEF TypeInv, TypeOK, Working
<1>1. ASSUME NEW p \in Procs, CreatePem(p) PROVE TypeInv'
  <2> DEFINE new == [Free EXCEPT !.pc = "pem", !.kid = next]
  <2>1. new \in Generator /\ new.kid \in Kids
    BY <1>a DEF Generator, Kids, Free
  <2>2. gen' = [gen EXCEPT ![p] = new] /\ next' \in Kids
    BY <1>1 DEF CreatePem, Kids
  <2> HIDE DEF new
  <2>3. QED
    BY <1>1, <1>b, <2>1, <2>2 DEF CreatePem
<1>2. ASSUME NEW p \in Procs, WritePem(p) PROVE TypeInv'
  BY <1>2, <1>a, <1>b DEF WritePem, Generator, Server, Secret, Kids
<1>3. ASSUME NEW p \in Procs, ReadManifest(p) PROVE TypeInv'
  <2>1. CASE manifest.state \in {"absent", "whole"}
    <3>1. WithKey(gen[p].kid) \in Manifest
      BY <1>3 DEF ReadManifest, WithKey
    <3>2. gen' = [gen EXCEPT ![p] = [gen[p] EXCEPT !.pc = "open", !.doc = WithKey(gen[p].kid)]]
      BY <1>3, <2>1 DEF ReadManifest
    <3>3. [gen[p] EXCEPT !.pc = "open", !.doc = WithKey(gen[p].kid)] \in Generator
      BY <3>1 DEF Generator
    <3>4. gen' \in [Procs -> Generator]
      BY <3>2, <3>3
    <3>5. \A q \in Procs : gen'[q].pc # "idle" => gen'[q].kid \in Kids
      BY <1>3, <3>2 DEF ReadManifest, Generator
    <3>6. QED
      BY <1>3, <2>1, <3>4, <3>5 DEF ReadManifest
  <2>2. CASE manifest.state \notin {"absent", "whole"}
    BY <1>3, <2>2, <1>a DEF ReadManifest, Raise
  <2>3. QED
    BY <2>1, <2>2
<1>4. ASSUME NEW p \in Procs, OpenTmp(p) PROVE TypeInv'
  BY <1>4, <1>a, <1>b DEF OpenTmp, Generator, Server, Secret, Kids
<1>5. ASSUME NEW p \in Procs, FlushTmp(p) PROVE TypeInv'
  <2>1. Overwritten(tmp, gen[p].doc) \in Manifest /\ Overwritten(manifest, gen[p].doc) \in Manifest
    BY DEF Overwritten, Generator
  <2>2. tmp' \in Manifest /\ manifest' \in Manifest
    BY <1>5, <2>1 DEF FlushTmp
  <2>3. gen' \in [Procs -> Generator] /\ \A q \in Procs : gen'[q].pc # "idle" => gen'[q].kid \in Kids
    BY <1>5 DEF FlushTmp, Generator
  <2>4. QED
    BY <1>5, <2>2, <2>3 DEF FlushTmp
<1>6. ASSUME NEW p \in Procs, Replace(p) PROVE TypeInv'
  <2>1. CASE tmp.state # "absent"
    <3>1. \A q \in Procs : [gen[q] EXCEPT !.fd = Renamed(gen[q].fd)] \in Generator
      BY DEF Generator, Renamed
    <3>2. gen' \in [Procs -> Generator]
      BY <1>6, <2>1, <3>1, <1>a DEF Replace
    <3>3. \A q \in Procs : gen'[q].pc # "idle" => gen'[q].kid \in Kids
      BY <1>6, <2>1, <1>a DEF Replace, Generator
    <3>4. portal' \in Server /\ (portal'.pc \in {"secret", "write", "up"} => portal'.active \in Kids)
      BY <1>6, <2>1, <1>a DEF Replace, Server
    <3>5. QED
      BY <1>6, <2>1, <3>2, <3>3, <3>4 DEF Replace
  <2>2. CASE tmp.state = "absent"
    BY <1>6, <2>2, <1>a DEF Replace, Raise
  <2>3. QED
    BY <2>1, <2>2
<1>7. CASE EnsureKeys
  BY <1>7, <1>a, <1>b DEF EnsureKeys, Generator, Server, Secret, Kids
<1>8. CASE LoadKeys
  BY <1>8, <1>a, <1>b DEF LoadKeys, Loadable, LoadedKeys, Generator, Server, Secret, Kids
<1>9. CASE portal.pc = "secret" /\ secret.state = "absent" /\ CreateSecret
  BY <1>9, <1>a, <1>b DEF CreateSecret, Generator, Server, Secret, Kids
<1>10. CASE portal.pc = "secret" /\ secret.state # "absent" /\ ReuseSecret
  <2>1. portal' \in Server /\ (portal'.pc \in {"secret", "write", "up"} => portal'.active \in Kids)
    BY <1>10, <1>a DEF ReuseSecret, Server
  <2>2. sessions' \in SUBSET Nat /\ IsFiniteSet(sessions')
    BY <1>10, FS_AddElement DEF ReuseSecret, Secret
  <2>3. QED
    BY <1>10, <2>1, <2>2 DEF ReuseSecret
<1>11. CASE WriteSecret
  <2>1. Cardinality(sessions) + 1 \in Nat
    BY FS_CardinalityType
  <2>2. secret' \in Secret /\ secret'.value \in Nat
    BY <1>11, <2>1 DEF WriteSecret, Secret
  <2>3. sessions' \in SUBSET Nat /\ IsFiniteSet(sessions')
    BY <1>11, <2>2, FS_AddElement DEF WriteSecret
  <2>4. portal' \in Server /\ portal'.active \in Kids
    BY <1>11 DEF WriteSecret, Server
  <2>5. QED
    BY <1>11, <2>2, <2>3, <2>4 DEF WriteSecret
<1>12. CASE Sign
  BY <1>12, <1>a, <1>b DEF Sign, Generator, Server, Secret, Kids
<1>13. CASE Restart
  BY <1>13, <1>a, <1>b DEF Restart, Generator, Server, Secret, Kids
<1>14. CASE KillStart
  BY <1>14, <1>a, <1>b DEF KillStart, Generator, Server, Secret, Kids
<1>15. ASSUME NEW p \in Commands, KillCommand(p) PROVE TypeInv'
  BY <1>15, <1>a, <1>b DEF KillCommand, Generator, Server, Secret, Kids
<1>16. CASE UNCHANGED vars
  BY <1>16, <1>a, <1>b DEF vars, Generator, Server, Secret, Kids
<1>17. QED
  BY <1>1, <1>2, <1>3, <1>4, <1>5, <1>6, <1>7, <1>8,
     <1>9, <1>10, <1>11, <1>12, <1>13, <1>14, <1>15, <1>16
     DEF Next, Start, GenerateKey, OpenSecret, Procs

(* The types hold whoever rotates when, and whoever is killed.             *)
THEOREM TypeCorrect == Spec => []TypeOK
<1>1. TypeInv => TypeOK
  BY DEF TypeInv
<1>2. QED
  BY TypeInit, TypeStep, <1>1, PTL DEF Spec

-------------------------------------------------------------------------------

(* What a process does to its key on the way to the manifest, if nobody    *)
(* else is at work: the manifest stays what it read, and the temporary     *)
(* file is its own.                                                        *)
InStep(p) ==
    /\ gen[p].pc # "idle"
    /\ gen[p].kid < next /\ manifest.active < gen[p].kid
    /\ gen[p].pc # "pem" => gen[p].kid \in pems
    /\ gen[p].pc \in {"open", "flush", "replace"} => gen[p].doc = WithKey(gen[p].kid)
    /\ gen[p].fd = IF gen[p].pc = "flush" THEN "tmp" ELSE "none"
    /\ gen[p].pc = "flush" => tmp = Empty
    /\ gen[p].pc = "replace" => tmp = gen[p].doc
    /\ IF p = Portal THEN portal.pc = "generate" ELSE manifest.state = "whole"

OneAtATime ==
    /\ \A p, q \in Procs : p # q => gen[p] = Free \/ gen[q] = Free
    /\ \A p \in Procs : gen[p] # Free => InStep(p)

(* The manifest is missing or lists keys whose files are complete.         *)
Directory ==
    /\ manifest.state \in {"absent", "whole"}
    /\ manifest.state = "whole" =>
           manifest.keys \subseteq pems /\ manifest.active \in manifest.keys
    /\ manifest.active < next
    /\ IsFiniteSet(manifest.keys)

(* The portal that is up has every key that ever signed.                   *)
Served ==
    /\ portal.pc = "generate" => manifest.state = "absent"
    /\ portal.pc \in {"load", "secret", "write", "up"} => manifest.state = "whole"
    /\ portal.pc \in {"down", "generate", "load"} => portal.keys = {} /\ portal.active = 0
    /\ portal.pc \in {"secret", "write", "up"} =>
           /\ portal.active \in portal.keys
           /\ portal.keys \subseteq manifest.keys
           /\ signed \subseteq portal.keys
    /\ signed \subseteq manifest.keys

(* Cookies are signed with what session.secret says.                       *)
Cookies ==
    /\ sessions \subseteq {secret.value}
    /\ secret.state # "whole" => sessions = {}
    /\ portal.pc = "write" => secret.state = "empty"

(* Every first start but the last was killed.                              *)
Numbers ==
    /\ kills <= MaxKills
    /\ next <= MaxKeys + MaxKills + 2
    /\ manifest.state = "absent" =>
           next <= kills + (IF gen[Portal].pc = "idle" THEN 1 ELSE 2)

KeysInv == TypeInv /\ OneAtATime /\ Directory /\ Served /\ Cookies /\ Numbers

(* The lemmas below are about a step of a process, and the rest of them    *)
(* being at rest.                                                          *)
LEMMA Alone ==
    ASSUME KeysInv, NEW p \in Procs, gen[p].pc # "idle"
    PROVE  /\ InStep(p)
           /\ \A q \in Procs \ {p} : gen[q] = Free
BY DEF KeysInv, OneAtATime, Free

LEMMA ReadEffect ==
    ASSUME KeysInv, NEW p \in Procs, ReadManifest(p)
    PROVE  /\ gen' = [gen EXCEPT ![p] = [@ EXCEPT !.pc = "open", !.doc = WithKey(gen[p].kid)]]
           /\ UNCHANGED portal
BY DEF KeysInv, Directory, ReadManifest

LEMMA FlushEffect ==
    ASSUME KeysInv, NEW p \in Procs, FlushTmp(p)
    PROVE  /\ gen' = [gen EXCEPT ![p] = [@ EXCEPT !.pc = "replace", !.fd = "none"]]
           /\ tmp' = gen[p].doc
           /\ UNCHANGED manifest
<1>1. InStep(p) /\ gen[p].pc = "flush"
  BY Alone DEF FlushTmp
<1>2. Overwritten(tmp, gen[p].doc) = gen[p].doc
  <2>1. IsFiniteSet(gen[p].doc.keys)
    BY <1>1, FS_AddElement DEF InStep, WithKey, KeysInv, Directory
  <2>2. Cardinality(gen[p].doc.keys) \in Nat /\ Cardinality({}) = 0
    BY <2>1, FS_CardinalityType, FS_EmptySet
  <2>3. QED
    BY <1>1, <2>2 DEF InStep, Overwritten, Empty
<1>3. QED
  BY <1>1, <1>2 DEF FlushTmp, InStep

LEMMA ReplaceEffect ==
    ASSUME KeysInv, NEW p \in Procs, Replace(p)
    PROVE  /\ gen' = [gen EXCEPT ![p] = Free]
           /\ manifest' = WithKey(gen[p].kid)
           /\ portal' = IF p = Portal THEN [Down EXCEPT !.pc = "load"] ELSE portal
<1>1. InStep(p) /\ gen[p].pc = "replace"
  BY Alone DEF Replace
<1>2. tmp = WithKey(gen[p].kid) /\ tmp.state # "absent"
  BY <1>1 DEF InStep, WithKey
<1>3. \A q \in Procs \ {p} : [gen[q] EXCEPT !.fd = Renamed(gen[q].fd)] = gen[q]
  <2>1. [Free EXCEPT !.fd = Renamed(Free.fd)] = Free
    BY DEF Free, Renamed
  <2>2. QED
    BY <1>1, <2>1, Alone
<1>4. gen' = [q \in Procs |-> IF q = p THEN Free ELSE gen[q]]
  BY <1>2, <1>3 DEF Replace
<1>5. gen' = [gen EXCEPT ![p] = Free]
  BY <1>4 DEF KeysInv, TypeInv, TypeOK
<1>6. QED
  BY <1>2, <1>5 DEF Replace

(* The manifest only ever gains complete keys.                             *)
LEMMA DirectoryStep ==
    ASSUME KeysInv, [Next]_vars
    PROVE  Directory'
<1> USE DEF KeysInv, Directory
<1>1. ASSUME NEW p \in Procs, CreatePem(p) PROVE Directory'
  BY <1>1, ManifestFacts DEF CreatePem, TypeInv, TypeOK, Kids
<1>2. ASSUME NEW p \in Procs, WritePem(p) PROVE Directory'
  BY <1>2, Alone DEF WritePem
<1>3. ASSUME NEW p \in Procs, ReadManifest(p) PROVE Directory'
  BY <1>3, ReadEffect DEF ReadManifest
<1>4. ASSUME NEW p \in Procs, OpenTmp(p) PROVE Directory'
  BY <1>4, Alone DEF OpenTmp
<1>5. ASSUME NEW p \in Procs, FlushTmp(p) PROVE Directory'
  BY <1>5, FlushEffect DEF FlushTmp
<1>6. ASSUME NEW p \in Procs, Replace(p) PROVE Directory'
  <2>1. InStep(p) /\ gen[p].kid \in Kids /\ gen[p].pc = "replace"
    BY <1>6, Alone DEF Replace, TypeInv, Working
  <2>2. manifest' = WithKey(gen[p].kid) /\ pems' = pems /\ next' = next
    BY <1>6, ReplaceEffect DEF Replace
  <2>3. manifest.keys \cup {gen[p].kid} \subseteq pems
    BY <2>1, ManifestFacts DEF InStep, TypeInv, TypeOK, Absent
  <2>4. IsFiniteSet(manifest.keys \cup {gen[p].kid})
    BY FS_AddElement
  <2>5. QED
    BY <2>1, <2>2, <2>3, <2>4 DEF WithKey, InStep
<1>7. CASE EnsureKeys
  BY <1>7 DEF EnsureKeys
<1>8. CASE LoadKeys
  BY <1>8 DEF LoadKeys, Loadable, LoadedKeys
<1>9. CASE portal.pc = "secret" /\ secret.state = "absent" /\ CreateSecret
  BY <1>9 DEF CreateSecret
<1>10. CASE portal.pc = "secret" /\ secret.state # "absent" /\ ReuseSecret
  BY <1>10 DEF ReuseSecret
<1>11. CASE WriteSecret
  BY <1>11 DEF WriteSecret
<1>12. CASE Sign
  BY <1>12 DEF Sign
<1>13. CASE Restart
  BY <1>13 DEF Restart
<1>14. CASE KillStart
  BY <1>14 DEF KillStart
<1>15. ASSUME NEW p \in Commands, KillCommand(p) PROVE Directory'
  BY <1>15 DEF KillCommand
<1>16. CASE UNCHANGED vars
  BY <1>16 DEF vars
<1>17. QED
  BY <1>1, <1>2, <1>3, <1>4, <1>5, <1>6, <1>7, <1>8,
     <1>9, <1>10, <1>11, <1>12, <1>13, <1>14, <1>15, <1>16
     DEF Next, Start, GenerateKey, OpenSecret, Procs

(* A portal is given no less than what signed before.                      *)
LEMMA ServedStep ==
    ASSUME KeysInv, [Next]_vars
    PROVE  Served'
<1> USE DEF KeysInv, Served
<1>1. ASSUME NEW p \in Procs, CreatePem(p) PROVE Served'
  BY <1>1 DEF CreatePem, MayGenerate, Down, WithKey
<1>2. ASSUME NEW p \in Procs, WritePem(p) PROVE Served'
  BY <1>2, Alone DEF WritePem, Down, WithKey
<1>3. ASSUME NEW p \in Procs, ReadManifest(p) PROVE Served'
  BY <1>3, ReadEffect DEF ReadManifest, Down, WithKey
<1>4. ASSUME NEW p \in Procs, OpenTmp(p) PROVE Served'
  BY <1>4, Alone DEF OpenTmp, Down, WithKey
<1>5. ASSUME NEW p \in Procs, FlushTmp(p) PROVE Served'
  BY <1>5, FlushEffect DEF FlushTmp, Down, WithKey
<1>6. ASSUME NEW p \in Procs, Replace(p) PROVE Served'
  <2>1. InStep(p) /\ gen[p].pc = "replace"
    BY <1>6, Alone DEF Replace
  <2>2. /\ manifest' = WithKey(gen[p].kid)
        /\ portal' = IF p = Portal THEN [Down EXCEPT !.pc = "load"] ELSE portal
        /\ signed' = signed
    BY <1>6, ReplaceEffect DEF Replace
  <2>3. CASE p = Portal
    BY <2>1, <2>2, <2>3 DEF InStep, WithKey, Down
  <2>4. CASE p # Portal
    BY <2>1, <2>2, <2>4 DEF InStep, WithKey
  <2>5. QED
    BY <2>3, <2>4
<1>7. CASE EnsureKeys
  BY <1>7 DEF EnsureKeys, Down, WithKey
<1>8. CASE LoadKeys
  BY <1>8 DEF LoadKeys, Loadable, LoadedKeys, Down, WithKey
<1>9. CASE portal.pc = "secret" /\ secret.state = "absent" /\ CreateSecret
  BY <1>9 DEF CreateSecret, Down, WithKey
<1>10. CASE portal.pc = "secret" /\ secret.state # "absent" /\ ReuseSecret
  BY <1>10 DEF ReuseSecret, Down, WithKey
<1>11. CASE WriteSecret
  BY <1>11 DEF WriteSecret, Down, WithKey
<1>12. CASE Sign
  BY <1>12 DEF Sign, Down, WithKey
<1>13. CASE Restart
  BY <1>13 DEF Restart, Down, WithKey
<1>14. CASE KillStart
  BY <1>14 DEF KillStart, Down, WithKey
<1>15. ASSUME NEW p \in Commands, KillCommand(p) PROVE Served'
  BY <1>15 DEF KillCommand, Down, WithKey
<1>16. CASE UNCHANGED vars
  BY <1>16 DEF vars, Down, WithKey
<1>17. QED
  BY <1>1, <1>2, <1>3, <1>4, <1>5, <1>6, <1>7, <1>8,
     <1>9, <1>10, <1>11, <1>12, <1>13, <1>14, <1>15, <1>16
     DEF Next, Start, GenerateKey, OpenSecret, Procs

(* session.secret is written once, and only while no cookie was signed.    *)
LEMMA CookiesStep ==
    ASSUME KeysInv, [Next]_vars
    PROVE  Cookies'
<1> USE DEF KeysInv, Cookies
<1>1. ASSUME NEW p \in Procs, CreatePem(p) PROVE Cookies'
  BY <1>1 DEF CreatePem, MayGenerate, Down
<1>2. ASSUME NEW p \in Procs, WritePem(p) PROVE Cookies'
  BY <1>2, Alone DEF WritePem, Down
<1>3. ASSUME NEW p \in Procs, ReadManifest(p) PROVE Cookies'
  BY <1>3, ReadEffect DEF ReadManifest, Down
<1>4. ASSUME NEW p \in Procs, OpenTmp(p) PROVE Cookies'
  BY <1>4, Alone DEF OpenTmp, Down
<1>5. ASSUME NEW p \in Procs, FlushTmp(p) PROVE Cookies'
  BY <1>5, FlushEffect DEF FlushTmp, Down
<1>6. ASSUME NEW p \in Procs, Replace(p) PROVE Cookies'
  BY <1>6, ReplaceEffect DEF Replace, Down
<1>7. CASE EnsureKeys
  BY <1>7 DEF EnsureKeys, Down
<1>8. CASE LoadKeys
  BY <1>8 DEF LoadKeys, Loadable, LoadedKeys, Down
<1>9. CASE portal.pc = "secret" /\ secret.state = "absent" /\ CreateSecret
  BY <1>9 DEF CreateSecret, Down
<1>10. CASE portal.pc = "secret" /\ secret.state # "absent" /\ ReuseSecret
  BY <1>10 DEF ReuseSecret, Down, TypeInv, TypeOK, Secret
<1>11. CASE WriteSecret
  BY <1>11 DEF WriteSecret, Down
<1>12. CASE Sign
  BY <1>12 DEF Sign, Down
<1>13. CASE Restart
  BY <1>13 DEF Restart, Down
<1>14. CASE KillStart
  BY <1>14 DEF KillStart, Down
<1>15. ASSUME NEW p \in Commands, KillCommand(p) PROVE Cookies'
  BY <1>15 DEF KillCommand, Down
<1>16. CASE UNCHANGED vars
  BY <1>16 DEF vars, Down
<1>17. QED
  BY <1>1, <1>2, <1>3, <1>4, <1>5, <1>6, <1>7, <1>8,
     <1>9, <1>10, <1>11, <1>12, <1>13, <1>14, <1>15, <1>16
     DEF Next, Start, GenerateKey, OpenSecret, Procs

(* The numbers of the keys stay within the bounds of the model.            *)
LEMMA NumbersStep ==
    ASSUME Serialized, KeysInv, [Next]_vars
    PROVE  Numbers'
<1>a. /\ Portal \in Procs /\ Commands \subseteq Procs /\ Free.pc = "idle"
      /\ next \in Nat /\ kills \in Nat /\ gen \in [Procs -> Generator]
  BY DEF KeysInv, TypeInv, TypeOK, Procs, Free, Kids
<1>b. Numbers /\ Served /\ Directory
  BY DEF KeysInv
<1> USE DEF Numbers
<1>1. ASSUME NEW p \in Procs, CreatePem(p) PROVE Numbers'
  <2>1. next' = next + 1 /\ UNCHANGED <<kills, manifest>>
    BY <1>1 DEF CreatePem
  <2>2. CASE p = Portal
    <3>1. manifest.state = "absent" /\ next <= kills + 1
      BY <1>1, <2>2, <1>a, <1>b DEF CreatePem, MayGenerate, Served
    <3>2. gen'[Portal].pc = "pem"
      BY <1>1, <2>2, <1>a DEF CreatePem, Free
    <3>3. QED
      BY <2>1, <3>1, <3>2, <1>a, <1>b
  <2>3. CASE p # Portal
    <3>1. manifest.state = "whole" /\ next <= MaxKeys
      BY <1>1, <2>3 DEF CreatePem, MayGenerate
    <3>2. QED
      BY <2>1, <3>1, <1>a, <1>b
  <2>4. QED
    BY <2>2, <2>3
<1>2. ASSUME NEW p \in Procs, WritePem(p) PROVE Numbers'
  <2>1. gen[p].pc # "idle" /\ gen'[p].pc # "idle"
    BY <1>2, <1>a DEF WritePem, Generator
  <2>2. /\ (gen'[Portal].pc = "idle") <=> (gen[Portal].pc = "idle")
        /\ UNCHANGED <<next, kills>> /\ manifest' = manifest
    BY <1>2, <2>1, <1>a DEF WritePem, Generator
  <2>3. QED
    BY <2>2, <1>b
<1>3. ASSUME NEW p \in Procs, ReadManifest(p) PROVE Numbers'
  <2>1. gen[p].pc # "idle" /\ gen'[p].pc # "idle"
    BY <1>3, ReadEffect, <1>a DEF ReadManifest, Generator
  <2>2. /\ (gen'[Portal].pc = "idle") <=> (gen[Portal].pc = "idle")
        /\ UNCHANGED <<next, kills>> /\ manifest' = manifest
    BY <1>3, ReadEffect, <2>1, <1>a DEF ReadManifest, Generator
  <2>3. QED
    BY <2>2, <1>b
<1>4. ASSUME NEW p \in Procs, OpenTmp(p) PROVE Numbers'
  <2>1. gen[p].pc # "idle" /\ gen'[p].pc # "idle"
    BY <1>4, <1>a DEF OpenTmp, Generator
  <2>2. /\ (gen'[Portal].pc = "idle") <=> (gen[Portal].pc = "idle")
        /\ UNCHANGED <<next, kills>> /\ manifest' = manifest
    BY <1>4, <2>1, <1>a DEF OpenTmp, Generator
  <2>3. QED
    BY <2>2, <1>b
<1>5. ASSUME NEW p \in Procs, FlushTmp(p) PROVE Numbers'
  <2>1. gen[p].pc # "idle" /\ gen'[p].pc # "idle"
    BY <1>5, FlushEffect, <1>a DEF FlushTmp, Generator
  <2>2. /\ (gen'[Portal].pc = "idle") <=> (gen[Portal].pc = "idle")
        /\ UNCHANGED <<next, kills>> /\ manifest' = manifest
    BY <1>5, FlushEffect, <2>1, <1>a DEF FlushTmp, Generator
  <2>3. QED
    BY <2>2, <1>b
<1>6. ASSUME NEW p \in Procs, Replace(p) PROVE Numbers'
  BY <1>6, ReplaceEffect, <1>b DEF Replace, WithKey
<1>7. CASE EnsureKeys
  BY <1>7, <1>a, <1>b DEF EnsureKeys
<1>8. CASE LoadKeys
  BY <1>8, <1>a, <1>b DEF LoadKeys, Loadable, LoadedKeys
<1>9. CASE portal.pc = "secret" /\ secret.state = "absent" /\ CreateSecret
  BY <1>9, <1>a, <1>b DEF CreateSecret
<1>10. CASE portal.pc = "secret" /\ secret.state # "absent" /\ ReuseSecret
  BY <1>10, <1>a, <1>b DEF ReuseSecret
<1>11. CASE WriteSecret
  BY <1>11, <1>a, <1>b DEF WriteSecret
<1>12. CASE Sign
  BY <1>12, <1>a, <1>b DEF Sign
<1>13. CASE Restart
  BY <1>13, <1>a, <1>b DEF Restart
<1>14. CASE KillStart
  <2>1. gen'[Portal].pc = "idle" /\ kills' = kills + 1 /\ kills' <= MaxKills
        /\ UNCHANGED <<next, manifest>>
    BY <1>14, <1>a DEF KillStart
  <2>2. QED
    BY <2>1, <1>a, <1>b
<1>15. ASSUME NEW p \in Commands, KillCommand(p) PROVE Numbers'
  <2>1. gen'[Portal].pc = gen[Portal].pc /\ kills' = kills + 1 /\ kills' <= MaxKills
        /\ UNCHANGED <<next, manifest>>
    BY <1>15, <1>a DEF KillCommand
  <2>2. QED
    BY <2>1, <1>a, <1>b
<1>16. CASE UNCHANGED vars
  BY <1>16, <1>a, <1>b DEF vars
<1>17. QED
  BY <1>1, <1>2, <1>3, <1>4, <1>5, <1>6, <1>7, <1>8,
     <1>9, <1>10, <1>11, <1>12, <1>13, <1>14, <1>15, <1>16
     DEF Next, Start, GenerateKey, OpenSecret, Procs

(* A rotation starts only when nobody else is at work, and nobody else     *)
(* disturbs it.                                                            *)
LEMMA OneAtWork ==
    ASSUME NEW p \in Procs, \A q \in Procs \ {p} : gen'[q] = Free, gen'[p] # Free => InStep(p)'
    PROVE  OneAtATime'
BY DEF OneAtATime

LEMMA OneAtATimeStep ==
    ASSUME Serialized, KeysInv, [Next]_vars
    PROVE  OneAtATime'
<1>a. /\ Portal \in Procs /\ Commands \subseteq Procs /\ Free.pc = "idle"
      /\ next \in Nat /\ gen \in [Procs -> Generator]
      /\ \A q \in Procs : gen[q].kid \in Nat
      /\ manifest.active \in Nat /\ manifest.active < next
  BY ManifestFacts DEF KeysInv, TypeInv, TypeOK, Directory, Procs, Free, Kids, Generator
<1>b. OneAtATime
  BY DEF KeysInv
<1>c. ASSUME NEW p \in Procs, gen[p].pc # "idle"
      PROVE  InStep(p) /\ \A q \in Procs \ {p} : gen[q] = Free
  BY <1>c, Alone
<1>1. ASSUME NEW p \in Procs, CreatePem(p) PROVE OneAtATime'
  <2>1. \A q \in Procs : gen[q] = Free
    <3>1. CASE p = Portal
      BY <1>1, <3>1, <1>a DEF CreatePem, MayGenerate, KeysInv, Served, OneAtATime, InStep
    <3>2. CASE p # Portal
      BY <1>1, <3>2 DEF CreatePem, MayGenerate
    <3>3. QED
      BY <3>1, <3>2
  <2>2. \A q \in Procs \ {p} : gen'[q] = Free
    BY <1>1, <2>1 DEF CreatePem
  <2>3. gen'[p] = [Free EXCEPT !.pc = "pem", !.kid = next] /\ next' = next + 1
        /\ UNCHANGED <<manifest, portal>>
    BY <1>1, <1>a DEF CreatePem
  <2>4. gen'[p].pc = "pem" /\ gen'[p].kid = next /\ gen'[p].fd = "none"
    BY <2>3 DEF Free
  <2>5. IF p = Portal THEN portal.pc = "generate" ELSE manifest.state = "whole"
    BY <1>1 DEF CreatePem, MayGenerate
  <2>6. InStep(p)'
    BY <2>3, <2>4, <2>5, <1>a DEF InStep
  <2>7. QED
    BY <2>2, <2>6, OneAtWork
<1>2. ASSUME NEW p \in Procs, WritePem(p) PROVE OneAtATime'
  <2>1. InStep(p) /\ \A q \in Procs \ {p} : gen[q] = Free
    BY <1>2, <1>c DEF WritePem
  <2>2. \A q \in Procs \ {p} : gen'[q] = Free
    BY <1>2, <2>1, <1>a DEF WritePem
  <2>3. InStep(p)'
    BY <1>2, <2>1, <1>a DEF WritePem, InStep, WithKey, Generator
  <2>4. QED
    BY <2>2, <2>3, OneAtWork
<1>3. ASSUME NEW p \in Procs, ReadManifest(p) PROVE OneAtATime'
  <2>1. InStep(p) /\ \A q \in Procs \ {p} : gen[q] = Free
    BY <1>3, <1>c DEF ReadManifest
  <2>2. \A q \in Procs \ {p} : gen'[q] = Free
    BY <1>3, ReadEffect, <2>1, <1>a DEF ReadManifest
  <2>3. gen[p] \in Generator /\ gen[p].pc = "read" /\ gen[p].fd = "none"
    BY <1>3, <2>1, <1>a DEF ReadManifest, InStep
  <2>4. /\ gen'[p].pc = "open" /\ gen'[p].doc = WithKey(gen[p].kid)
        /\ gen'[p].kid = gen[p].kid /\ gen'[p].fd = "none"
    <3>1. gen'[p] = [gen[p] EXCEPT !.pc = "open", !.doc = WithKey(gen[p].kid)]
      BY <1>3, ReadEffect, <1>a
    <3>2. QED
      BY <2>3, <3>1 DEF Generator
  <2>5. UNCHANGED <<next, pems, manifest, tmp, portal>>
    BY <1>3, ReadEffect DEF ReadManifest
  <2>6. InStep(p)'
    BY <2>1, <2>3, <2>4, <2>5 DEF InStep, WithKey
  <2>7. QED
    BY <2>2, <2>6, OneAtWork
<1>4. ASSUME NEW p \in Procs, OpenTmp(p) PROVE OneAtATime'
  <2>1. InStep(p) /\ \A q \in Procs \ {p} : gen[q] = Free
    BY <1>4, <1>c DEF OpenTmp
  <2>2. \A q \in Procs \ {p} : gen'[q] = Free
    BY <1>4, <2>1, <1>a DEF OpenTmp
  <2>3. InStep(p)'
    BY <1>4, <2>1, <1>a DEF OpenTmp, InStep, WithKey, Generator
  <2>4. QED
    BY <2>2, <2>3, OneAtWork
<1>5. ASSUME NEW p \in Procs, FlushTmp(p) PROVE OneAtATime'
  <2>1. InStep(p) /\ \A q \in Procs \ {p} : gen[q] = Free
    BY <1>5, <1>c DEF FlushTmp
  <2>2. \A q \in Procs \ {p} : gen'[q] = Free
    BY <1>5, FlushEffect, <2>1, <1>a DEF FlushTmp
  <2>3. InStep(p)'
    BY <1>5, FlushEffect, <2>1, <1>a DEF FlushTmp, InStep, WithKey, Generator
  <2>4. QED
    BY <2>2, <2>3, OneAtWork
<1>6. ASSUME NEW p \in Procs, Replace(p) PROVE OneAtATime'
  <2>1. \A q \in Procs : gen'[q] = Free
    BY <1>6, <1>a, <1>c, ReplaceEffect DEF Replace
  <2>2. QED
    BY <2>1, <1>a, OneAtWork
<1>7. CASE EnsureKeys
  BY <1>7, <1>a, <1>b DEF EnsureKeys, OneAtATime, InStep, WithKey
<1>8. CASE LoadKeys
  BY <1>8, <1>a, <1>b DEF LoadKeys, Loadable, LoadedKeys, OneAtATime, InStep, WithKey
<1>9. CASE portal.pc = "secret" /\ secret.state = "absent" /\ CreateSecret
  BY <1>9, <1>a, <1>b DEF CreateSecret, OneAtATime, InStep, WithKey
<1>10. CASE portal.pc = "secret" /\ secret.state # "absent" /\ ReuseSecret
  BY <1>10, <1>a, <1>b DEF ReuseSecret, OneAtATime, InStep, WithKey
<1>11. CASE WriteSecret
  BY <1>11, <1>a, <1>b DEF WriteSecret, OneAtATime, InStep, WithKey
<1>12. CASE Sign
  BY <1>12, <1>a, <1>b DEF Sign, OneAtATime, InStep, WithKey
<1>13. CASE Restart
  BY <1>13, <1>a, <1>b DEF Restart, OneAtATime, InStep, WithKey
<1>14. CASE KillStart
  <2>1. /\ gen' = [gen EXCEPT ![Portal] = Free]
        /\ UNCHANGED <<next, pems, manifest, tmp>>
    BY <1>14 DEF KillStart
  <2>2. \A q \in Procs \ {Portal} : gen'[q] = gen[q]
    BY <2>1, <1>a
  <2>3. gen'[Portal] = Free
    BY <2>1, <1>a
  <2>4. \A q \in Procs \ {Portal} : InStep(q) => InStep(q)'
    BY <2>1, <2>2 DEF InStep, WithKey
  <2>5. QED
    BY <2>2, <2>3, <2>4, <1>b DEF OneAtATime
<1>15. ASSUME NEW p \in Commands, KillCommand(p) PROVE OneAtATime'
  BY <1>15, <1>a, <1>b DEF KillCommand, OneAtATime, InStep, WithKey
<1>16. CASE UNCHANGED vars
  BY <1>16, <1>a, <1>b DEF vars, OneAtATime, InStep, WithKey
<1>17. QED
  BY <1>1, <1>2, <1>3, <1>4, <1>5, <1>6, <1>7, <1>8,
     <1>9, <1>10, <1>11, <1>12, <1>13, <1>14, <1>15, <1>16
     DEF Next, Start, GenerateKey, OpenSecret, Procs

(* Initially there is nothing to be wrong.                                 *)
LEMMA KeysInit == Init => KeysInv
<1> SUFFICES ASSUME Init PROVE KeysInv
  OBVIOUS
<1>1. TypeInv
  BY TypeInit
<1>2. Directory /\ Served /\ Cookies
  BY FS_EmptySet DEF Init, Directory, Served, Cookies, Absent, Down
<1>3. OneAtATime /\ Numbers
  BY DEF Init, OneAtATime, Numbers, Procs, Free, Absent
<1>4. QED
  BY <1>1, <1>2, <1>3 DEF KeysInv

(* SigningKeys keeps its invariant if operators rotate one at a time.      *)
LEMMA KeysInvHolds ==
    ASSUME Serialized
    PROVE  Spec => []KeysInv
<1>1. KeysInv /\ [Next]_vars => KeysInv'
  BY TypeStep, DirectoryStep, ServedStep, CookiesStep, NumbersStep, OneAtATimeStep DEF KeysInv
<1>2. QED
  BY KeysInit, <1>1, PTL DEF Spec

(* Every token ever signed verifies with the keys of the portal that is    *)
(* up, whatever was rotated, restarted and killed.                         *)
THEOREM TokensVerify ==
    ASSUME Serialized
    PROVE  Spec => []OldTokensVerify
<1>1. KeysInv => OldTokensVerify
  BY DEF KeysInv, Served, OldTokensVerify
<1>2. QED
  BY KeysInvHolds, <1>1, PTL

(* No kill leaves a manifest that the next start cannot load.              *)
THEOREM KillsAreHarmless ==
    ASSUME Serialized
    PROVE  Spec => []ManifestUsable
<1>1. KeysInv => ManifestUsable
  BY DEF KeysInv, Directory, ManifestUsable, Loadable
<1>2. QED
  BY KeysInvHolds, <1>1, PTL

(* There is never a second session secret.                                 *)
THEOREM SecretIsKept ==
    ASSUME Serialized
    PROVE  Spec => []OneSecret
<1>1. KeysInv => OneSecret
  <2> SUFFICES ASSUME KeysInv PROVE Cardinality(sessions) <= 1
    BY DEF OneSecret
  <2>1. sessions = {} \/ sessions = {secret.value}
    BY DEF KeysInv, Cookies
  <2>2. Cardinality(sessions) \in {0, 1}
    BY <2>1, FS_EmptySet, FS_Singleton
  <2>3. QED
    BY <2>2
<1>2. QED
  BY KeysInvHolds, <1>1, PTL

(* The files implement the key ring: what a rotation does to the manifest  *)
(* is one addition of a newer key that becomes active, and what a start    *)
(* loads is the manifest as it is.                                         *)
THEOREM FilesImplementRing ==
    ASSUME Serialized
    PROVE  Spec => ImplementsRing
<1> USE DEF Ring!Unloaded
<1>1. Init => Ring!Init
  BY DEF Init, Ring!Init, Absent, Down
<1>2. ASSUME KeysInv, [Next]_vars
      PROVE  [Ring!Next]_Ring!ring
  <2>1. ASSUME NEW p \in Procs, CreatePem(p) PROVE [Ring!Next]_Ring!ring
    BY <2>1, <1>2 DEF CreatePem, MayGenerate, Ring!ring
  <2>2. ASSUME NEW p \in Procs, WritePem(p) PROVE [Ring!Next]_Ring!ring
    BY <2>2, Alone, <1>2 DEF WritePem, Ring!ring
  <2>3. ASSUME NEW p \in Procs, ReadManifest(p) PROVE [Ring!Next]_Ring!ring
    BY <2>3, ReadEffect, <1>2 DEF ReadManifest, Ring!ring
  <2>4. ASSUME NEW p \in Procs, OpenTmp(p) PROVE [Ring!Next]_Ring!ring
    BY <2>4, Alone, <1>2 DEF OpenTmp, Ring!ring
  <2>5. ASSUME NEW p \in Procs, FlushTmp(p) PROVE [Ring!Next]_Ring!ring
    BY <2>5, <1>2, FlushEffect DEF FlushTmp, Ring!ring
  <2>6. ASSUME NEW p \in Procs, Replace(p) PROVE [Ring!Next]_Ring!ring
    <3>1. InStep(p) /\ gen[p].pc = "replace" /\ gen[p].kid \in Kids
      BY <2>6, <1>2, Alone DEF Replace, KeysInv, TypeInv, Working
    <3>2. gen[p].kid \in 1 .. MaxKeys + MaxKills + 1
      BY <1>2, <3>1 DEF KeysInv, TypeInv, TypeOK, Numbers, InStep, Kids
    <3>3. /\ manifest' = WithKey(gen[p].kid)
          /\ portal' = IF p = Portal THEN [Down EXCEPT !.pc = "load"] ELSE portal
      BY <2>6, <1>2, ReplaceEffect
    <3>4. portal'.keys = portal.keys /\ portal'.active = portal.active
      BY <1>2, <3>1, <3>3 DEF KeysInv, Served, InStep, Down
    <3>5. Ring!Rotate(gen[p].kid)
      BY <3>1, <3>3, <3>4 DEF Ring!Rotate, InStep, WithKey
    <3>6. QED
      BY <3>2, <3>5 DEF Ring!Next
  <2>7. CASE EnsureKeys
    <3>1. UNCHANGED manifest /\ portal'.keys = portal.keys /\ portal'.active = portal.active
      BY <2>7, <1>2 DEF EnsureKeys, KeysInv, Served, Down
    <3>2. QED
      BY <3>1 DEF Ring!ring
  <2>8. CASE LoadKeys
    <3>1. Loadable /\ portal.pc = "load"
      BY <2>8, <1>2 DEF LoadKeys, Loadable, KeysInv, Directory, Served
    <3>2. Ring!Load
      BY <2>8, <3>1 DEF LoadKeys, Loadable, LoadedKeys, Ring!Load
    <3>3. QED
      BY <3>2 DEF Ring!Next
  <2>9. CASE portal.pc = "secret" /\ secret.state = "absent" /\ CreateSecret
    BY <2>9, <1>2 DEF CreateSecret, Ring!ring, KeysInv, TypeInv, TypeOK, Server
  <2>10. CASE portal.pc = "secret" /\ secret.state # "absent" /\ ReuseSecret
    <3>1. UNCHANGED manifest
      BY <2>10 DEF ReuseSecret
    <3>2. CASE secret.state = "empty"
      <4>1. Ring!Unload
        BY <2>10, <3>1, <3>2 DEF ReuseSecret, Down, Ring!Unload
      <4>2. QED
        BY <4>1 DEF Ring!Next
    <3>3. CASE secret.state # "empty"
      BY <2>10, <3>1, <3>3, <1>2 DEF ReuseSecret, Ring!ring, KeysInv, TypeInv, TypeOK, Server
    <3>4. QED
      BY <3>2, <3>3
  <2>11. CASE WriteSecret
    BY <2>11, <1>2 DEF WriteSecret, Ring!ring, KeysInv, TypeInv, TypeOK, Server
  <2>12. CASE Sign
    BY <2>12, <1>2 DEF Sign, Ring!ring
  <2>13. CASE Restart
    <3>1. Ring!Unload
      BY <2>13 DEF Restart, Down, Ring!Unload
    <3>2. QED
      BY <3>1 DEF Ring!Next
  <2>14. CASE KillStart
    <3>1. Ring!Unload
      BY <2>14 DEF KillStart, Down, Ring!Unload
    <3>2. QED
      BY <3>1 DEF Ring!Next
  <2>15. ASSUME NEW p \in Commands, KillCommand(p) PROVE [Ring!Next]_Ring!ring
    BY <2>15, <1>2 DEF KillCommand, Ring!ring
  <2>16. CASE UNCHANGED vars
    BY <2>16, <1>2 DEF vars, Ring!ring
  <2>17. QED
    BY <1>2, <2>1, <2>2, <2>3, <2>4, <2>5, <2>6, <2>7, <2>8,
       <2>9, <2>10, <2>11, <2>12, <2>13, <2>14, <2>15, <2>16
       DEF Next, Start, GenerateKey, OpenSecret, Procs
<1>3. QED
  BY <1>1, <1>2, KeysInvHolds, PTL DEF Spec, ImplementsRing, Ring!Spec
=============================================================================

------------------------------ MODULE SigningKeys -----------------------------
(***************************************************************************)
(* The key directory (portal.keys): key files, manifest.json with its      *)
(* temporary file, and session.secret.  The portal writes them on its      *)
(* first start and reads them on every start; the rotation command writes  *)
(* them from a process of its own, at any time.  There is no lock, so each *)
(* file operation is a step, and any process may be killed after any step. *)
(*                                                                         *)
(* Keys are numbered in the order in which they are generated.  The        *)
(* temporary file has one name for all writers: two of them may have the   *)
(* same file open, also while one renames it.                              *)
(***************************************************************************)
EXTENDS Naturals, FiniteSets

CONSTANTS
    Portal,         \* the portal process, one at a time (Recreate)
    Commands,       \* rotation commands that may run at once
    Serialized,     \* operators rotate one at a time, after the first start
    MaxKeys,        \* bound of the model: rotations stop here
    MaxKills        \* bound of the model: processes killed at work

VARIABLES
    next,       \* the number of the next key
    pems,       \* keys whose file is complete
    manifest,   \* manifest.json
    tmp,        \* manifest.json.tmp
    secret,     \* session.secret
    gen,        \* generate_key, in each process that may run it
    portal,     \* the portal and the KeyStore it has loaded
    signed,     \* history: the keys that access tokens were signed with
    sessions,   \* history: the secrets that cookies were signed with
    kills       \* history: how many processes were killed at work

vars == <<next, pems, manifest, tmp, secret, gen, portal, signed, sessions, kills>>

Procs == Commands \cup {Portal}

Kids == Nat \ {0}

(* A file is missing, just opened, nothing that json accepts, or whole.    *)
Absent == [state |-> "absent", keys |-> {}, active |-> 0]
Empty == [state |-> "empty", keys |-> {}, active |-> 0]
Torn == [state |-> "torn", keys |-> {}, active |-> 0]

Whole == [state : {"whole"}, keys : SUBSET Kids, active : Kids]

Manifest == {Absent, Empty, Torn} \cup Whole

Generator == [pc  : {"idle", "pem", "read", "open", "flush", "replace"},
              kid : Nat,
              doc : Manifest,                     \* the manifest to write
              fd  : {"none", "tmp", "manifest"}]  \* where the open file is now

Free == [pc |-> "idle", kid |-> 0, doc |-> Absent, fd |-> "none"]

Server == [pc     : {"down", "generate", "load", "secret", "write", "up"},
           keys   : SUBSET Kids,
           active : Nat]

Down == [pc |-> "down", keys |-> {}, active |-> 0]

Secret == [state : {"absent", "empty", "whole"}, value : Nat]

ASSUME ConstantsAssumption ==
    /\ Portal \notin Commands
    /\ IsFiniteSet(Commands)
    /\ Serialized \in BOOLEAN
    /\ MaxKeys \in Nat /\ MaxKills \in Nat

TypeOK ==
    /\ next \in Kids
    /\ pems \in SUBSET Kids
    /\ manifest \in Manifest
    /\ tmp \in Manifest
    /\ secret \in Secret
    /\ gen \in [Procs -> Generator]
    /\ portal \in Server
    /\ signed \in SUBSET Kids
    /\ sessions \in SUBSET Nat
    /\ kills \in Nat

Init ==
    /\ next = 1
    /\ pems = {}
    /\ manifest = Absent
    /\ tmp = Absent
    /\ secret = [state |-> "absent", value |-> 0]
    /\ gen = [p \in Procs |-> Free]
    /\ portal = Down
    /\ signed = {}
    /\ sessions = {}
    /\ kills = 0

-------------------------------------------------------------------------------
(* generate_key: write the key, read the manifest, add the key, write the  *)
(* manifest under its temporary name, rename it.                           *)

(* Who calls it: the portal when it found no key, and a rotation command.  *)
MayGenerate(p) ==
    IF p = Portal
      THEN portal.pc = "generate"
      ELSE /\ next <= MaxKeys
           /\ Serialized => manifest.state = "whole" /\ \A q \in Procs : gen[q] = Free

CreatePem(p) ==
    /\ gen[p] = Free
    /\ MayGenerate(p)
    /\ gen' = [gen EXCEPT ![p] = [Free EXCEPT !.pc = "pem", !.kid = next]]
    /\ next' = next + 1
    /\ UNCHANGED <<pems, manifest, tmp, secret, portal, signed, sessions, kills>>

WritePem(p) ==
    /\ gen[p].pc = "pem"
    /\ pems' = pems \cup {gen[p].kid}
    /\ gen' = [gen EXCEPT ![p].pc = "read"]
    /\ UNCHANGED <<next, manifest, tmp, secret, portal, signed, sessions, kills>>

(* A process whose generate_key raises is over; a portal then starts anew. *)
Raise(p) ==
    /\ gen' = [gen EXCEPT ![p] = Free]
    /\ portal' = IF p = Portal THEN Down ELSE portal

WithKeyInactive(k) ==
    [state |-> "whole", keys |-> manifest.keys \cup {k}, active |-> manifest.active]

WithKey(k) == [state |-> "whole", keys |-> manifest.keys \cup {k}, active |-> k]

ReadManifest(p) ==
    /\ gen[p].pc = "read"
    /\ IF manifest.state \in {"absent", "whole"}
         THEN /\ gen' = [gen EXCEPT ![p].pc = "open", ![p].doc = WithKey(gen[p].kid)]
              /\ UNCHANGED portal
         ELSE Raise(p)
    /\ UNCHANGED <<next, pems, manifest, tmp, secret, signed, sessions, kills>>

OpenInPlace(p) ==
    /\ gen[p].pc = "open"
    /\ manifest' = Empty
    /\ gen' = [gen EXCEPT ![p].pc = "flush", ![p].fd = "manifest"]
    /\ UNCHANGED <<next, pems, tmp, secret, portal, signed, sessions, kills>>

(* Opening truncates the file of that name, whoever else has it open.      *)
OpenTmp(p) ==
    /\ gen[p].pc = "open"
    /\ tmp' = Empty
    /\ gen' = [gen EXCEPT ![p].pc = "flush", ![p].fd = "tmp"]
    /\ UNCHANGED <<next, pems, manifest, secret, portal, signed, sessions, kills>>

(* Writing starts at offset 0; what was longer keeps its tail.             *)
Overwritten(old, doc) ==
    IF old.state = "torn" \/ Cardinality(old.keys) > Cardinality(doc.keys)
      THEN Torn ELSE doc

FlushTmp(p) ==
    /\ gen[p].pc = "flush"
    /\ tmp' = IF gen[p].fd = "tmp" THEN Overwritten(tmp, gen[p].doc) ELSE tmp
    /\ manifest' = IF gen[p].fd = "manifest" THEN Overwritten(manifest, gen[p].doc)
                                             ELSE manifest
    /\ gen' = [gen EXCEPT ![p].pc = "replace", ![p].fd = "none"]
    /\ UNCHANGED <<next, pems, secret, portal, signed, sessions, kills>>

(* The rename takes along whoever has the temporary file open.             *)
Renamed(fd) == IF fd = "tmp" THEN "manifest" ELSE "none"

Replace(p) ==
    /\ gen[p].pc = "replace"
    /\ IF tmp.state # "absent"
         THEN /\ manifest' = tmp
              /\ tmp' = Absent
              /\ gen' = [q \in Procs |-> IF q = p THEN Free
                                         ELSE [gen[q] EXCEPT !.fd = Renamed(@)]]
              /\ portal' = IF p = Portal THEN [Down EXCEPT !.pc = "load"] ELSE portal
         ELSE /\ Raise(p)
              /\ UNCHANGED <<manifest, tmp>>
    /\ UNCHANGED <<next, pems, secret, signed, sessions, kills>>

-------------------------------------------------------------------------------
(* The start of the portal: ensure_keys, load_keys, the session secret.    *)

EnsureKeys ==
    /\ portal.pc = "down"
    /\ portal' = CASE manifest.state = "absent" -> [Down EXCEPT !.pc = "generate"]
                   [] manifest.state = "whole"  -> [Down EXCEPT !.pc = "load"]
                   [] OTHER                     -> Down       \* json.load raises
    /\ UNCHANGED <<next, pems, manifest, tmp, secret, gen, signed, sessions, kills>>

LoadableDirectory ==
    /\ manifest.state = "whole"
    /\ 1 .. next - 1 \subseteq pems
    /\ manifest.active \in manifest.keys

Loadable ==
    /\ manifest.state = "whole"
    /\ manifest.keys \subseteq pems
    /\ manifest.active \in manifest.keys

LoadActiveOnly == {manifest.active}

LoadedKeys == manifest.keys

LoadKeys ==
    /\ portal.pc = "load"
    /\ portal' = IF Loadable
                   THEN [pc |-> "secret", keys |-> LoadedKeys, active |-> manifest.active]
                   ELSE Down
    /\ UNCHANGED <<next, pems, manifest, tmp, secret, gen, signed, sessions, kills>>

(* Opening with O_EXCL creates the file or finds one, which must not be    *)
(* empty.                                                                  *)
CreateSecret ==
    /\ secret' = [secret EXCEPT !.state = "empty"]
    /\ portal' = [portal EXCEPT !.pc = "write"]
    /\ UNCHANGED <<next, pems, manifest, tmp, gen, signed, sessions, kills>>

ReuseSecret ==
    /\ portal' = IF secret.state = "empty" THEN Down ELSE [portal EXCEPT !.pc = "up"]
    /\ sessions' = IF secret.state = "empty" THEN sessions ELSE sessions \cup {secret.value}
    /\ UNCHANGED <<next, pems, manifest, tmp, secret, gen, signed, kills>>

OpenSecretTruncates ==
    /\ portal.pc = "secret"
    /\ CreateSecret

OpenSecret ==
    /\ portal.pc = "secret"
    /\ \/ secret.state = "absent" /\ CreateSecret
       \/ secret.state # "absent" /\ ReuseSecret

(* A random secret: one that was not seen before.                          *)
WriteSecret ==
    /\ portal.pc = "write"
    /\ secret' = [state |-> "whole", value |-> Cardinality(sessions) + 1]
    /\ sessions' = sessions \cup {secret'.value}
    /\ portal' = [portal EXCEPT !.pc = "up"]
    /\ UNCHANGED <<next, pems, manifest, tmp, gen, signed, kills>>

(* A token is signed with the active key as the portal loaded it.          *)
Sign ==
    /\ portal.pc = "up"
    /\ signed' = signed \cup {portal.active}
    /\ UNCHANGED <<next, pems, manifest, tmp, secret, gen, portal, sessions, kills>>

Restart ==
    /\ portal.pc = "up"
    /\ portal' = Down
    /\ UNCHANGED <<next, pems, manifest, tmp, secret, gen, signed, sessions, kills>>

-------------------------------------------------------------------------------
(* Kills of a start or of a rotation command.                              *)

KillStart ==
    /\ portal.pc \notin {"down", "up"}
    /\ kills < MaxKills
    /\ kills' = kills + 1
    /\ portal' = Down
    /\ gen' = [gen EXCEPT ![Portal] = Free]
    /\ UNCHANGED <<next, pems, manifest, tmp, secret, signed, sessions>>

KillCommand(p) ==
    /\ gen[p] # Free
    /\ kills < MaxKills
    /\ kills' = kills + 1
    /\ gen' = [gen EXCEPT ![p] = Free]
    /\ UNCHANGED <<next, pems, manifest, tmp, secret, portal, signed, sessions>>

GenerateKey(p) ==
    \/ CreatePem(p) \/ WritePem(p) \/ ReadManifest(p)
    \/ OpenTmp(p) \/ FlushTmp(p) \/ Replace(p)

Start == EnsureKeys \/ GenerateKey(Portal) \/ LoadKeys \/ OpenSecret \/ WriteSecret

Next ==
    \/ Start
    \/ \E p \in Commands : GenerateKey(p) \/ KillCommand(p)
    \/ Sign
    \/ Restart
    \/ KillStart

Spec == Init /\ [][Next]_vars

(* Kubernetes starts the portal again and again; nobody has to rotate.     *)
FairSpec == Spec /\ WF_vars(Start)

-------------------------------------------------------------------------------
(* README: "Retired keys remain published in JWKS for existing tokens."    *)
(* Every token the registry ever signed verifies with the keys of the      *)
(* portal that is up, whatever was rotated, restarted or killed since.     *)
OldTokensVerify == portal.pc = "up" => signed \subseteq portal.keys

(* A kill at any step of a first start or of a rotation leaves a manifest  *)
(* that the next start can load, or none.                                  *)
ManifestUsable == manifest.state = "absent" \/ Loadable

(* Sessions survive restarts: all cookies are signed with one secret.      *)
OneSecret == Cardinality(sessions) <= 1

(* A start that is not killed ends with the portal up, unless a first      *)
(* start was killed between creating session.secret and writing it.        *)
StartsUnlessEmpty ==
    portal.pc = "down" ~> (portal.pc = "up" \/ secret.state = "empty")

(* The files implement the key ring: a rotation adds one key and makes it  *)
(* the active one, a start serves the manifest as it is, and nothing else  *)
(* shows, wherever a process was killed.                                   *)
Ring == INSTANCE KeyRing WITH
    Kids      <- 1 .. MaxKeys + MaxKills + 1,
    published <- manifest.keys,
    active    <- manifest.active,
    loaded    <- [keys |-> portal.keys, active |-> portal.active]

ImplementsRing == Ring!Spec

(* keys.py: "generated on first start and reused after, so sessions        *)
(* survive restarts without anyone managing it".  A portal that is down    *)
(* comes up without anyone's help.                                         *)
StartsUnattended == portal.pc = "down" ~> portal.pc = "up"
===============================================================================

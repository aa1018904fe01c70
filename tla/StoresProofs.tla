---------------------------- MODULE StoresProofs ----------------------------
(***************************************************************************)
(* What is proved of the three stores of MCStores: the consent records of  *)
(* the front ends, the snapshot directories of the tabs, and the byte      *)
(* cache of the threads.  They share no state.                             *)
(***************************************************************************)
EXTENDS PluginConsent, Snapshots, SharedCache, ByteCacheLemmas

-----------------------------------------------------------------------------
(***************************************************************************)
(* Consent, for any front ends, manifests, versions, permissions and       *)
(* bounds: a plugin has only powers that were approved, and a settled      *)
(* decision decides every later handler.                                   *)
(*                                                                         *)
(* Neither property is inductive: both speak of handlers, and a handler is *)
(* made from a map of records that other steps wrote.  The invariant says  *)
(* of every map, in the database and in memory, that its records hold      *)
(* approved permissions only and agree with every settled decision, and of *)
(* every handler that it is what the map of its front end gives.           *)
(***************************************************************************)

\* Every record of a map holds permissions that were switched on.
Approved(G, perms) == \A v \in Versions : \A S \in G[v] : S \subseteq perms

\* A map has a record for a settled decision, and it is that decision.
Agrees(G, s) ==
    \E S \in SUBSET Perms : G[s.version] = {S} /\ (s.perm \in S <=> s.value)

Powers(G, m) == get(G, Version[m]) \cap Requested[m]

\* The inductive invariant, part by part.
DownIsEmpty ==
    \A f \in Fronts \ up : grants[f] = NoGrants /\ handler[f] = {} /\ op[f] = {}

RecordsApproved == Approved(db, approved) /\ \A f \in Fronts : Approved(grants[f], approved)

HandlersFollow ==
    \A f \in Fronts : \A h \in handler[f] : h.powers = Powers(grants[f], h.manifest)

OpsApproved == \A f \in Fronts : \A o \in op[f] : o.powers \subseteq approved

SettledIsRecorded ==
    \A s \in settled : Agrees(db, s) /\ \A f \in up : Agrees(grants[f], s)

ConsentInv ==
    /\ ConsentTypeOK
    /\ DownIsEmpty
    /\ RecordsApproved
    /\ HandlersFollow
    /\ OpsApproved
    /\ SettledIsRecorded

----------------------------------------------------------------------------
(* The store and the loader *)

\* Whatever get returns, from one record or from all, some record of the map allows.
LEMMA GetApproved ==
    ASSUME NEW G, NEW v \in Versions, NEW perms, Approved(G, perms)
    PROVE  get(G, v) \subseteq perms
BY DEF get, HasRecord, Approved

\* A version with a record has that record's permissions, whatever other versions have.
LEMMA GetRecorded ==
    ASSUME NEW G, NEW v \in Versions, NEW S, G[v] = {S}
    PROVE  get(G, v) = S
BY DEF get, HasRecord

\* get returns permissions.
LEMMA GetType ==
    ASSUME NEW G \in Grants, NEW v \in Versions
    PROVE  get(G, v) \subseteq Perms
BY DEF get, HasRecord, Grants

\* set and forget give maps again, and touch one version.
LEMMA SetType ==
    ASSUME NEW G \in Grants, NEW v \in Versions, NEW S \in SUBSET Perms
    PROVE  /\ set(G, v, S) \in Grants
           /\ set(G, v, S)[v] = {S}
           /\ \A w \in Versions \ {v} : set(G, v, S)[w] = G[w]
BY DEF set, Grants

LEMMA ForgetType ==
    ASSUME NEW G \in Grants, NEW v \in Versions
    PROVE  /\ forget(G, v) \in Grants
           /\ forget(G, v)[v] = {}
           /\ \A w \in Versions \ {v} : forget(G, v)[w] = G[w]
BY DEF forget, Grants

\* A reload leaves the other front ends' handlers alone, and what it loads has the
\* powers its map gives (registry.rs load_single).
LEMMA ReloadFollows ==
    ASSUME ConsentTypeOK, NEW f \in Fronts, NEW G \in Grants, NEW present \in BOOLEAN,
           NEW m \in Manifests, reload_plugins(f, G, present, m)
    PROVE  /\ handler' \in [Fronts -> SUBSET Handlers]
           /\ \A g \in Fronts \ {f} : handler'[g] = handler[g]
           /\ \A h \in handler'[f] : h.manifest \in Manifests /\ h.powers = Powers(G, h.manifest)
<1>1. PICK loaded \in {{}} \cup (IF present THEN {load_single(G, m)} ELSE {}) :
          handler' = [handler EXCEPT ![f] = loaded]
  BY DEF reload_plugins
<1>2. loaded = {} \/ loaded = {[manifest |-> m, powers |-> Powers(G, m)]}
  BY DEF load_single, intersect, Powers
<1>3. Powers(G, m) \subseteq Perms /\ Version[m] \in Versions
  BY GetType DEF Powers, Versions
<1>4. loaded \in SUBSET Handlers
  BY <1>2, <1>3 DEF Handlers
<1>5. \A h \in loaded : h.manifest \in Manifests /\ h.powers = Powers(G, h.manifest)
  BY <1>2
<1> QED BY <1>1, <1>4, <1>5 DEF ConsentTypeOK

----------------------------------------------------------------------------
(* Initially *)

LEMMA ConsentInitially == ConsentInit => ConsentInv
<1> SUFFICES ASSUME ConsentInit PROVE ConsentInv
  OBVIOUS
<1> USE ManifestAssumption DEF ConsentInit
<1>1. ConsentTypeOK
  BY DEF ConsentTypeOK, Grants, NoGrants
<1>2. DownIsEmpty
  BY DEF DownIsEmpty
<1>3. RecordsApproved
  BY DEF RecordsApproved, Approved, NoGrants
<1>4. HandlersFollow /\ OpsApproved /\ SettledIsRecorded
  BY DEF HandlersFollow, OpsApproved, SettledIsRecorded
<1> QED BY <1>1, <1>2, <1>3, <1>4 DEF ConsentInv

----------------------------------------------------------------------------
(* Each action keeps the invariant *)

LEMMA StartKeeps ==
    ASSUME ConsentInv, NEW f \in Fronts, Start(f)
    PROVE  ConsentInv'
<1> USE DEF Start
<1>1. PICK read \in {db, NoGrants} :
          /\ grants' = [grants EXCEPT ![f] = read]
          /\ settled' = IF read = db THEN settled ELSE {}
          /\ reload_plugins(f, read, wasm, manifest)
  OBVIOUS
<1>2. ConsentTypeOK
  BY DEF ConsentInv
<1>3. read \in Grants
  BY <1>2 DEF ConsentTypeOK, Grants, NoGrants
<1>4. /\ handler' \in [Fronts -> SUBSET Handlers]
      /\ \A g \in Fronts \ {f} : handler'[g] = handler[g]
      /\ \A h \in handler'[f] : h.manifest \in Manifests /\ h.powers = Powers(read, h.manifest)
  BY <1>1, <1>2, <1>3, ReloadFollows DEF ConsentTypeOK
<1>5. grants'[f] = read /\ \A g \in Fronts \ {f} : grants'[g] = grants[g]
  BY <1>1, <1>2 DEF ConsentTypeOK
<1>6. ConsentTypeOK'
  BY <1>1, <1>2, <1>3, <1>4 DEF ConsentTypeOK
<1>7. DownIsEmpty'
  BY <1>4, <1>5 DEF ConsentInv, DownIsEmpty
<1>8. RecordsApproved'
  <2>1. Approved(read, approved)
    BY DEF ConsentInv, RecordsApproved, Approved, NoGrants
  <2> QED BY <1>5, <2>1 DEF ConsentInv, RecordsApproved
<1>9. HandlersFollow'
  BY <1>4, <1>5 DEF ConsentInv, HandlersFollow, Powers, get, HasRecord
<1>10. OpsApproved'
  BY DEF ConsentInv, OpsApproved
<1>11. SettledIsRecorded'
  <2> SUFFICES ASSUME NEW s \in settled'
               PROVE  Agrees(db, s)' /\ \A g \in up' : Agrees(grants'[g], s)
    BY DEF SettledIsRecorded, Agrees
  <2>1. s \in settled /\ read = db
    BY <1>1
  <2>2. Agrees(db, s) /\ \A g \in up : Agrees(grants[g], s)
    BY <2>1 DEF ConsentInv, SettledIsRecorded
  <2>3. Agrees(db, s)'
    BY <2>2 DEF Agrees
  <2>4. Agrees(grants'[f], s)
    BY <1>5, <2>1, <2>2
  <2>5. \A g \in up : Agrees(grants'[g], s)
    BY <1>2, <1>5, <2>2, <2>4 DEF ConsentTypeOK
  <2> QED BY <2>3, <2>4, <2>5
<1> QED BY <1>6, <1>7, <1>8, <1>9, <1>10, <1>11 DEF ConsentInv

LEMMA QuitKeeps ==
    ASSUME ConsentInv, NEW f \in Fronts, Quit(f)
    PROVE  ConsentInv'
<1> USE DEF Quit
<1>1. ConsentTypeOK
  BY DEF ConsentInv
<1>2. NoGrants \in Grants
  BY DEF NoGrants, Grants
<1>3. ConsentTypeOK'
  BY <1>1, <1>2 DEF ConsentTypeOK
<1>4. /\ grants'[f] = NoGrants /\ handler'[f] = {} /\ op'[f] = {}
      /\ \A g \in Fronts \ {f} : grants'[g] = grants[g] /\ handler'[g] = handler[g] /\ op'[g] = op[g]
  BY <1>1 DEF ConsentTypeOK
<1>5. DownIsEmpty'
  BY <1>4 DEF ConsentInv, DownIsEmpty
<1>6. RecordsApproved'
  <2>1. Approved(NoGrants, approved)
    BY DEF Approved, NoGrants
  <2> QED BY <1>4, <2>1 DEF ConsentInv, RecordsApproved
<1>7. HandlersFollow'
  BY <1>4 DEF ConsentInv, HandlersFollow, Powers, get, HasRecord
<1>8. OpsApproved'
  BY <1>4 DEF ConsentInv, OpsApproved
<1>9. SettledIsRecorded'
  <2> SUFFICES ASSUME NEW s \in settled
               PROVE  Agrees(db, s)' /\ \A g \in up' : Agrees(grants'[g], s)
    BY DEF SettledIsRecorded, Agrees
  <2>1. Agrees(db, s) /\ \A g \in up : Agrees(grants[g], s)
    BY DEF ConsentInv, SettledIsRecorded
  <2> QED BY <1>1, <1>4, <2>1 DEF ConsentTypeOK, Agrees
<1> QED BY <1>3, <1>5, <1>6, <1>7, <1>8, <1>9 DEF ConsentInv

LEMMA SaveStateKeeps ==
    ASSUME ConsentInv, NEW f \in Fronts, SaveState(f)
    PROVE  ConsentInv'
<1> USE DEF SaveState
<1>1. ConsentTypeOK'
  BY DEF ConsentInv, ConsentTypeOK
<1>2. DownIsEmpty' /\ OpsApproved'
  BY DEF ConsentInv, DownIsEmpty, OpsApproved
<1>3. RecordsApproved'
  BY DEF ConsentInv, RecordsApproved, Approved
<1>4. HandlersFollow'
  BY DEF ConsentInv, HandlersFollow, Powers, get, HasRecord
<1>5. SettledIsRecorded'
  BY DEF ConsentInv, SettledIsRecorded, Agrees
<1> QED BY <1>1, <1>2, <1>3, <1>4, <1>5 DEF ConsentInv

\* What the directory actions and the switches have in common: one front end takes a map
\* G, writes it or not, and reloads.  They keep the invariant when G holds approved
\* permissions and agrees with what is settled afterwards.
LEMMA MapStepKeeps ==
    ASSUME ConsentInv, NEW f \in up, NEW G \in Grants, NEW present \in BOOLEAN,
           reload_plugins(f, G, present, manifest),
           grants' = [grants EXCEPT ![f] = G],
           db' = db \/ db' = G,
           up' = up, op' = op,
           wasm' \in BOOLEAN, manifest' \in Manifests, switches' \in Nat,
           approved \subseteq approved', approved' \subseteq Perms,
           Approved(G, approved'),
           settled' \subseteq [version : Versions, perm : Perms, value : BOOLEAN],
           \A s \in settled' : Agrees(G, s) /\ (s \in settled \/ (up = {f} /\ db' = G))
    PROVE  ConsentInv'
<1>1. ConsentTypeOK /\ f \in Fronts
  BY DEF ConsentInv, ConsentTypeOK
<1>2. /\ handler' \in [Fronts -> SUBSET Handlers]
      /\ \A g \in Fronts \ {f} : handler'[g] = handler[g]
      /\ \A h \in handler'[f] : h.manifest \in Manifests /\ h.powers = Powers(G, h.manifest)
  BY <1>1, ReloadFollows DEF ConsentTypeOK
<1>3. grants'[f] = G /\ \A g \in Fronts \ {f} : grants'[g] = grants[g]
  BY <1>1 DEF ConsentTypeOK
<1>4. ConsentTypeOK'
  BY <1>1, <1>2 DEF ConsentTypeOK
<1>5. DownIsEmpty'
  BY <1>2, <1>3 DEF ConsentInv, DownIsEmpty
<1>6. RecordsApproved'
  <2>1. Approved(db, approved') /\ \A g \in Fronts : Approved(grants[g], approved')
    BY DEF ConsentInv, RecordsApproved, Approved
  <2>2. Approved(db', approved')
    BY <2>1
  <2>3. \A g \in Fronts : Approved(grants'[g], approved')
    BY <1>3, <2>1
  <2> QED BY <2>2, <2>3 DEF RecordsApproved, Approved
<1>7. HandlersFollow'
  <2> SUFFICES ASSUME NEW g \in Fronts, NEW h \in handler'[g]
               PROVE  h.powers = Powers(grants'[g], h.manifest)
    BY DEF HandlersFollow, Powers, get, HasRecord
  <2>1. CASE g = f
    BY <1>2, <1>3, <2>1
  <2>2. CASE g # f
    BY <1>2, <1>3, <2>2 DEF ConsentInv, HandlersFollow
  <2> QED BY <2>1, <2>2
<1>8. OpsApproved'
  BY DEF ConsentInv, OpsApproved
<1>9. SettledIsRecorded'
  <2> SUFFICES ASSUME NEW s \in settled'
               PROVE  Agrees(db', s) /\ \A g \in up : Agrees(grants'[g], s)
    BY DEF SettledIsRecorded, Agrees
  <2>1. Agrees(G, s)
    OBVIOUS
  <2>2. CASE s \in settled
    <3>1. Agrees(db, s) /\ \A g \in up : Agrees(grants[g], s)
      BY <2>2 DEF ConsentInv, SettledIsRecorded
    <3>2. Agrees(db', s)
      BY <2>1, <3>1
    <3>3. \A g \in up : Agrees(grants'[g], s)
      BY <1>1, <1>3, <2>1, <3>1 DEF ConsentTypeOK
    <3> QED BY <3>2, <3>3
  <2>3. CASE up = {f} /\ db' = G
    BY <1>3, <2>1, <2>3
  <2> QED BY <2>2, <2>3
<1> QED BY <1>4, <1>5, <1>6, <1>7, <1>8, <1>9 DEF ConsentInv

\* Install, Delete and Rescan reload under the map they have.
LEMMA DirectoryKeeps ==
    ASSUME ConsentInv, NEW f \in Fronts, Install(f) \/ Delete(f) \/ Rescan(f)
    PROVE  ConsentInv'
<1>1. ConsentTypeOK /\ f \in up /\ grants[f] \in Grants
  BY DEF ConsentInv, ConsentTypeOK, Install, Delete, Rescan
<1>2. \E present \in BOOLEAN : reload_plugins(f, grants[f], present, manifest)
  BY <1>1 DEF Install, Delete, Rescan, ConsentTypeOK
<1>3. grants' = [grants EXCEPT ![f] = grants[f]]
  BY <1>1 DEF ConsentTypeOK, Install, Delete, Rescan
<1>4. UNCHANGED <<manifest, db, up, op, switches, approved, settled>> /\ wasm' \in BOOLEAN
  BY <1>1 DEF Install, Delete, Rescan, ConsentTypeOK
<1>5. Approved(grants[f], approved)
  BY DEF ConsentInv, RecordsApproved
<1>6. \A s \in settled : Agrees(grants[f], s)
  BY <1>1 DEF ConsentInv, SettledIsRecorded
<1> QED BY <1>1, <1>2, <1>3, <1>4, <1>5, <1>6, MapStepKeeps DEF ConsentTypeOK

LEMMA UninstallKeeps ==
    ASSUME ConsentInv, NEW f \in Fronts, uninstall_plugin(f)
    PROVE  ConsentInv'
<1> DEFINE v == Version[manifest]
<1>1. /\ ConsentTypeOK /\ f \in up /\ grants[f] \in Grants
      /\ v \in Versions /\ NoManifest \in Manifests
  BY ManifestAssumption DEF ConsentInv, ConsentTypeOK, uninstall_plugin, Versions
<1>2. PICK readable \in BOOLEAN, written \in BOOLEAN :
          LET all == IF readable THEN forget(grants[f], v) ELSE grants[f]
          IN  /\ grants' = [grants EXCEPT ![f] = all]
              /\ db' = IF written /\ all # grants[f] THEN all ELSE db
              /\ reload_plugins(f, all, FALSE, manifest)
              /\ settled' = IF readable THEN {s \in settled : s.version # v} ELSE settled
  BY DEF uninstall_plugin
<1> DEFINE all == IF readable THEN forget(grants[f], v) ELSE grants[f]
<1>3. /\ all \in Grants
      /\ readable => all[v] = {}
      /\ \A w \in Versions : (readable => w # v) => all[w] = grants[f][w]
  <2>1. /\ forget(grants[f], v) \in Grants /\ forget(grants[f], v)[v] = {}
        /\ \A w \in Versions \ {v} : forget(grants[f], v)[w] = grants[f][w]
    BY <1>1, ForgetType
  <2> QED BY <1>1, <2>1
<1>4. Approved(all, approved)
  BY <1>3 DEF ConsentInv, RecordsApproved, Approved
<1>5. \A s \in settled' : s \in settled /\ (readable => s.version # v)
  BY <1>2
<1>6. \A s \in settled' : Agrees(all, s)
  <2> SUFFICES ASSUME NEW s \in settled' PROVE Agrees(all, s)
    OBVIOUS
  <2>1. s.version \in Versions /\ all[s.version] = grants[f][s.version]
    BY <1>1, <1>3, <1>5 DEF ConsentTypeOK
  <2>2. Agrees(grants[f], s)
    BY <1>1, <1>5 DEF ConsentInv, SettledIsRecorded
  <2> QED BY <2>1, <2>2 DEF Agrees
<1>7. /\ UNCHANGED <<up, op, switches, approved>>
      /\ wasm' \in BOOLEAN /\ manifest' \in Manifests
  BY <1>1 DEF uninstall_plugin, ConsentTypeOK
<1>8. /\ reload_plugins(f, all, FALSE, manifest)
      /\ grants' = [grants EXCEPT ![f] = all]
      /\ db' = db \/ db' = all
  BY <1>2
<1> HIDE DEF all, v
<1> QED BY <1>1, <1>3, <1>4, <1>5, <1>6, <1>7, <1>8, MapStepKeeps DEF ConsentTypeOK

\* A flipped switch: the new record starts from the handler's powers, so it differs from
\* the old one in this permission and in those the build does not ask for.
LEMMA SetGrantKeeps ==
    ASSUME ConsentInv, NEW f \in Fronts, NEW perm \in Perms, NEW value \in BOOLEAN,
           set_grant(f, perm, value)
    PROVE  ConsentInv'
<1>1. /\ ConsentTypeOK /\ f \in up /\ grants[f] \in Grants
      /\ UNCHANGED <<wasm, manifest, up, op>>
      /\ switches' \in Nat
  BY DEF ConsentInv, ConsentTypeOK, set_grant
<1>2. PICK h \in handler[f], written \in BOOLEAN :
          LET v == Version[h.manifest]
              all == set(grants[f], v, apply_permission(h.powers, perm, value))
          IN  /\ perm \in Requested[h.manifest]
              /\ value = (perm \notin h.powers)
              /\ grants' = [grants EXCEPT ![f] = all]
              /\ db' = IF written THEN all ELSE db
              /\ reload_plugins(f, all, wasm, manifest)
              /\ approved' = IF value THEN approved \cup {perm} ELSE approved
              /\ settled' = Settle(f, v, h.manifest, perm, value, written)
  BY DEF set_grant
<1> DEFINE v == Version[h.manifest]
           record == apply_permission(h.powers, perm, value)
           all == set(grants[f], v, record)
<1>3. h.manifest \in Manifests /\ h.powers \in SUBSET Perms /\ v \in Versions
  BY <1>1 DEF ConsentTypeOK, Handlers, Versions
<1>4. record \in SUBSET Perms
  BY <1>3 DEF apply_permission
<1>5. /\ all \in Grants /\ all[v] = {record}
      /\ \A w \in Versions \ {v} : all[w] = grants[f][w]
  BY <1>1, <1>3, <1>4, SetType
<1>6. h.powers = get(grants[f], v) \cap Requested[h.manifest]
  BY DEF ConsentInv, HandlersFollow, Powers
<1>7. approved \subseteq approved' /\ approved' \subseteq Perms /\ Approved(all, approved')
  <2>1. get(grants[f], v) \subseteq approved
    BY <1>3, GetApproved DEF ConsentInv, RecordsApproved
  <2>2. record \subseteq approved' /\ approved \subseteq approved' /\ approved' \subseteq Perms
    BY <1>1, <1>2, <1>6, <2>1 DEF apply_permission, ConsentTypeOK
  <2>3. Approved(grants[f], approved')
    BY <2>2 DEF ConsentInv, RecordsApproved, Approved
  <2> QED BY <1>5, <2>2, <2>3 DEF Approved
<1>8. settled' = {s \in settled : ~ (s.version = v /\ (s.perm = perm \/ (s.value /\ s.perm \notin Requested[h.manifest])))}
                   \cup (IF written /\ up = {f} THEN {[version |-> v, perm |-> perm, value |-> value]} ELSE {})
  BY <1>2 DEF Settle
<1>9. settled' \subseteq [version : Versions, perm : Perms, value : BOOLEAN]
  BY <1>1, <1>3, <1>8 DEF ConsentTypeOK
<1>10. \A s \in settled' : Agrees(all, s) /\ (s \in settled \/ (up = {f} /\ db' = all))
  <2> SUFFICES ASSUME NEW s \in settled'
               PROVE  Agrees(all, s) /\ (s \in settled \/ (up = {f} /\ db' = all))
    OBVIOUS
  <2>1. CASE s \in settled /\ s.version # v
    <3>1. Agrees(grants[f], s) /\ s.version \in Versions
      BY <1>1, <2>1 DEF ConsentInv, SettledIsRecorded, ConsentTypeOK
    <3>2. all[s.version] = grants[f][s.version]
      BY <1>5, <2>1, <3>1
    <3> QED BY <2>1, <3>1, <3>2 DEF Agrees
  <2>2. CASE /\ s \in settled /\ s.version = v /\ s.perm # perm
             /\ s.value => s.perm \in Requested[h.manifest]
    <3>1. PICK S \in SUBSET Perms : grants[f][v] = {S} /\ (s.perm \in S <=> s.value)
      BY <1>1, <2>2 DEF ConsentInv, SettledIsRecorded, Agrees
    <3>2. h.powers = S \cap Requested[h.manifest]
      BY <1>3, <1>6, <3>1, GetRecorded
    <3>3. s.perm \in record <=> s.value
      BY <2>2, <3>1, <3>2 DEF apply_permission
    <3> QED BY <1>4, <1>5, <2>2, <3>3 DEF Agrees
  <2>3. CASE s = [version |-> v, perm |-> perm, value |-> value] /\ written /\ up = {f}
    <3>1. s.perm \in record <=> s.value
      BY <2>3 DEF apply_permission
    <3>2. Agrees(all, s)
      BY <1>4, <1>5, <2>3, <3>1 DEF Agrees
    <3> QED BY <1>2, <2>3, <3>2
  <2> QED BY <1>8, <2>1, <2>2, <2>3
<1>11. /\ reload_plugins(f, all, wasm, manifest)
       /\ grants' = [grants EXCEPT ![f] = all]
       /\ db' = db \/ db' = all
  BY <1>2
<1> HIDE DEF all, record, v
<1> QED BY <1>1, <1>5, <1>7, <1>9, <1>10, <1>11, MapStepKeeps DEF ConsentTypeOK

\* What depends on the maps, the handlers and the decisions only.
LEMMA MapsUntouched ==
    ASSUME ConsentInv, UNCHANGED <<db, up, grants, handler, approved, settled>>
    PROVE  RecordsApproved' /\ HandlersFollow' /\ SettledIsRecorded'
<1>1. RecordsApproved'
  BY DEF ConsentInv, RecordsApproved, Approved
<1>2. HandlersFollow'
  BY DEF ConsentInv, HandlersFollow, Powers, get, HasRecord
<1>3. SettledIsRecorded'
  BY DEF ConsentInv, SettledIsRecorded, Agrees
<1> QED BY <1>1, <1>2, <1>3

\* The directory changes behind every front end's back.
LEMMA PlaceManifestKeeps ==
    ASSUME ConsentInv, NEW m \in Manifests, PlaceManifest(m)
    PROVE  ConsentInv'
<1>1. ConsentTypeOK'
  BY DEF PlaceManifest, ConsentInv, ConsentTypeOK
<1>2. DownIsEmpty' /\ OpsApproved'
  BY DEF PlaceManifest, ConsentInv, DownIsEmpty, OpsApproved
<1>3. RecordsApproved' /\ HandlersFollow' /\ SettledIsRecorded'
  BY MapsUntouched DEF PlaceManifest
<1> QED BY <1>1, <1>2, <1>3 DEF ConsentInv

\* An operation takes the powers of the handler of the moment, or keeps those it has.
LEMMA OpStepKeeps ==
    ASSUME ConsentInv, NEW f \in Fronts, OpStep(f)
    PROVE  ConsentInv'
<1>1. ConsentTypeOK
  BY DEF ConsentInv
<1>2. UNCHANGED <<wasm, manifest, db, up, grants, handler, switches, approved, settled>>
  BY DEF OpStep, Invoke, FinishInvoke, Respond, FinishMount, RetryMount, MountFile, Dismiss
<1>3. \A h \in handler[f] : h.powers \subseteq approved /\ h.powers \subseteq Perms
  <2> SUFFICES ASSUME NEW h \in handler[f]
               PROVE  h.powers \subseteq approved /\ h.powers \subseteq Perms
    OBVIOUS
  <2>1. h.manifest \in Manifests /\ h.powers \subseteq Perms
    BY <1>1 DEF ConsentTypeOK, Handlers
  <2>2. h.powers \subseteq get(grants[f], Version[h.manifest])
    BY DEF ConsentInv, HandlersFollow, Powers
  <2>3. get(grants[f], Version[h.manifest]) \subseteq approved
    BY <2>1, GetApproved DEF ConsentInv, RecordsApproved, Versions
  <2> QED BY <2>1, <2>2, <2>3
<1>4. \A o \in op[f] : o.powers \subseteq approved /\ o.powers \subseteq Perms
  BY <1>1 DEF ConsentInv, OpsApproved, ConsentTypeOK, Ops
<1>5. \E next :
          /\ op' = [op EXCEPT ![f] = next]
          /\ \/ next = {}
             \/ \E stage \in Stages, powers \in SUBSET Perms :
                    next = Running(stage, powers) /\ powers \subseteq approved
  <2>1. CASE Invoke(f)
    BY <1>3, <2>1 DEF Invoke, Stages
  <2>2. CASE FinishInvoke(f)
    <3>1. PICK o \in op[f] :
              \E next \in {{}, Running("prompt", {}), Running("mounting", o.powers)} :
                  op' = [op EXCEPT ![f] = next]
      BY <2>2 DEF FinishInvoke
    <3>2. /\ "prompt" \in Stages /\ {} \in SUBSET Perms /\ {} \subseteq approved
          /\ "mounting" \in Stages /\ o.powers \in SUBSET Perms /\ o.powers \subseteq approved
      BY <1>4 DEF Stages
    <3>3. PICK next \in {{}, Running("prompt", {}), Running("mounting", o.powers)} :
              op' = [op EXCEPT ![f] = next]
      BY <3>1
    <3>4. \/ next = {}
          \/ \E stage \in Stages, powers \in SUBSET Perms :
                 next = Running(stage, powers) /\ powers \subseteq approved
      BY <3>2, <3>3, Zenon
    <3> QED BY <3>3, <3>4
  <2>3. CASE Respond(f)
    BY <1>3, <2>3 DEF Respond, Stages
  <2>4. CASE FinishMount(f)
    BY <1>4, <2>4 DEF FinishMount, Stages
  <2>5. CASE RetryMount(f)
    BY <1>4, <2>5 DEF RetryMount, Stages
  <2>6. CASE MountFile(f)
    BY <1>3, <2>6 DEF MountFile, Stages
  <2>7. CASE Dismiss(f)
    BY <2>7 DEF Dismiss
  <2> QED BY <2>1, <2>2, <2>3, <2>4, <2>5, <2>6, <2>7 DEF OpStep
<1>6. PICK next :
          /\ op' = [op EXCEPT ![f] = next]
          /\ \/ next = {}
             \/ \E stage \in Stages, powers \in SUBSET Perms :
                    next = Running(stage, powers) /\ powers \subseteq approved
  BY <1>5
<1>7. next \in SUBSET Ops /\ \A o \in next : o.powers \subseteq approved
  BY <1>6 DEF Running, Ops
<1>8. f \in up
  <2>1. f \notin up => handler[f] = {} /\ op[f] = {}
    BY DEF ConsentInv, DownIsEmpty
  <2> QED BY <2>1 DEF OpStep, Invoke, FinishInvoke, Respond, FinishMount, RetryMount, MountFile, Dismiss
<1>9. ConsentTypeOK'
  BY <1>1, <1>2, <1>6, <1>7 DEF ConsentTypeOK
<1>10. op'[f] = next /\ \A g \in Fronts \ {f} : op'[g] = op[g]
  BY <1>1, <1>6 DEF ConsentTypeOK
<1>11. DownIsEmpty'
  BY <1>2, <1>8, <1>10 DEF ConsentInv, DownIsEmpty
<1>12. OpsApproved'
  BY <1>2, <1>7, <1>10 DEF ConsentInv, OpsApproved
<1>13. RecordsApproved' /\ HandlersFollow' /\ SettledIsRecorded'
  BY <1>2, MapsUntouched
<1> QED BY <1>9, <1>11, <1>12, <1>13 DEF ConsentInv

----------------------------------------------------------------------------
(* The theorems *)

LEMMA ConsentStep == ConsentInv /\ [ConsentNext]_consentVars => ConsentInv'
<1> SUFFICES ASSUME ConsentInv, [ConsentNext]_consentVars PROVE ConsentInv'
  OBVIOUS
<1>1. CASE UNCHANGED consentVars
  <2>1. ConsentTypeOK'
    BY <1>1 DEF consentVars, ConsentInv, ConsentTypeOK
  <2>2. DownIsEmpty' /\ OpsApproved'
    BY <1>1 DEF consentVars, ConsentInv, DownIsEmpty, OpsApproved
  <2>3. RecordsApproved' /\ HandlersFollow' /\ SettledIsRecorded'
    BY <1>1, MapsUntouched DEF consentVars
  <2> QED BY <2>1, <2>2, <2>3 DEF ConsentInv
<1>2. CASE ConsentNext
  BY <1>2, StartKeeps, QuitKeeps, SaveStateKeeps, SetGrantKeeps, DirectoryKeeps,
     UninstallKeeps, OpStepKeeps, PlaceManifestKeeps DEF ConsentNext
<1> QED BY <1>1, <1>2

LEMMA ConsentAlways == ConsentSpec => []ConsentInv
<1> QED BY ConsentInitially, ConsentStep, PTL DEF ConsentSpec

\* The type invariant, for every instance.
THEOREM ConsentTyped == ConsentSpec => []ConsentTypeOK
<1>1. ConsentInv => ConsentTypeOK
  BY DEF ConsentInv
<1> QED BY <1>1, ConsentAlways, PTL

\* However many front ends, versions and builds there are, a plugin never has a power its
\* manifest does not ask for or the user has never switched on (grants.rs get, intersect).
THEOREM PowersApproved == ConsentSpec => []PowersWereApproved
<1>1. ConsentInv => PowersWereApproved
  <2> SUFFICES ASSUME ConsentInv, NEW f \in Fronts
               PROVE  /\ \A h \in handler[f] : h.powers \subseteq Requested[h.manifest] \cap approved
                      /\ \A o \in op[f] : o.powers \subseteq approved
    BY DEF PowersWereApproved
  <2>1. \A o \in op[f] : o.powers \subseteq approved
    BY DEF ConsentInv, OpsApproved
  <2>2. ASSUME NEW h \in handler[f]
        PROVE  h.powers \subseteq Requested[h.manifest] \cap approved
    <3>1. Version[h.manifest] \in Versions
      BY DEF ConsentInv, ConsentTypeOK, Handlers, Versions
    <3>2. get(grants[f], Version[h.manifest]) \subseteq approved
      BY <3>1, GetApproved DEF ConsentInv, RecordsApproved
    <3> QED BY <3>2 DEF ConsentInv, HandlersFollow, Powers
  <2> QED BY <2>1, <2>2
<1> QED BY <1>1, ConsentAlways, PTL

\* A settled decision decides every later handler of its version (grants.rs get, set).
THEOREM DecisionsKept == ConsentSpec => []DecisionsHold
<1>1. ConsentInv => DecisionsHold
  <2> SUFFICES ASSUME ConsentInv, NEW f \in Fronts, NEW h \in handler[f], NEW s \in settled,
                      s.version = Version[h.manifest], s.perm \in Requested[h.manifest]
               PROVE  s.perm \in h.powers <=> s.value
    BY DEF DecisionsHold
  <2>1. f \in up
    BY DEF ConsentInv, DownIsEmpty
  <2>2. PICK S \in SUBSET Perms : grants[f][s.version] = {S} /\ (s.perm \in S <=> s.value)
    BY <2>1 DEF ConsentInv, SettledIsRecorded, Agrees
  <2>3. s.version \in Versions
    BY DEF ConsentInv, ConsentTypeOK
  <2>4. h.powers = S \cap Requested[h.manifest]
    <3>1. get(grants[f], s.version) = S
      BY <2>2, <2>3, GetRecorded
    <3>2. h.powers = get(grants[f], Version[h.manifest]) \cap Requested[h.manifest]
      BY DEF ConsentInv, HandlersFollow, Powers
    <3> QED BY <3>1, <3>2
  <2> QED BY <2>2, <2>4
<1> QED BY <1>1, ConsentAlways, PTL

-----------------------------------------------------------------------------
(***************************************************************************)
(* A snapshot gives back what was captured, for any number of tabs, any    *)
(* sources and contents and any bound on the ids.                          *)
(*                                                                         *)
(* SnapshotsReturn is not inductive: the next restore takes its list from  *)
(* the index, and the next capture overwrites the file of its id.  So the  *)
(* invariant also says that the index lists nothing its files contradict,  *)
(* that every id in use is below the counter it goes with, and that the    *)
(* counter of a live store is not behind the one in its index.             *)
(***************************************************************************)

FilesOf == [Ids -> Contents \cup {Nothing, Torn}]

\* Every variable holds a value of its type.
SnapTypeOK ==
    /\ is_egui \in BOOLEAN /\ based \in BOOLEAN
    /\ source \in [Tabs -> Sources \cup {Nothing}]
    /\ store \in [Tabs -> Stores]
    /\ bin \in [Dirs -> FilesOf]
    /\ index \in [Dirs -> Index]
    /\ crowded \subseteq Dirs
    /\ misread \subseteq Dirs

Sound(d) == d \notin crowded /\ d \notin misread

\* The files agree with the entries of a list, whose ids are below n.
Backed(files, list, n) ==
    \A e \in list : e.id < n /\ files[e.id] \in {e.of, Nothing}

IndexGood(files, idx) == idx.readable => Backed(files, idx.entries, idx.next_id)

\* The second conjunct: no id that the index lists is handed out again.
StoreGood(files, idx, st) ==
    /\ Backed(files, st.list, st.next_id)
    /\ idx.readable => idx.next_id <= st.next_id

\* A sound directory has at most one live store.
SnapInv ==
    /\ SnapTypeOK
    /\ \A t \in Tabs : Live(t) /\ Sound(store[t].dir) =>
        /\ StoreGood(bin[store[t].dir], index[store[t].dir], store[t])
        /\ \A u \in Tabs : store[u].dir = store[t].dir => u = t
    /\ \A d \in Dirs : Sound(d) => IndexGood(bin[d], index[d])
    /\ \A t \in Tabs : ~Live(t) => store[t].list = {}
    /\ \A t \in Tabs : source[t] = Nothing => ~Live(t)

----------------------------------------------------------------------------
(* Files, lists and indices *)

\* Writing the file of an id that the list does not use leaves it backed.
LEMMA WriteAbove ==
    ASSUME NEW files \in FilesOf, NEW list \in (SUBSET Listed) \cup (SUBSET Entries),
           NEW n \in Nat, Backed(files, list, n),
           NEW m \in Ids, n <= m, NEW x
    PROVE  Backed([files EXCEPT ![m] = x], list, n)
<1> SUFFICES ASSUME NEW e \in list
             PROVE  e.id < n /\ [files EXCEPT ![m] = x][e.id] \in {e.of, Nothing}
  BY DEF Backed
<1>1. e.id \in Ids /\ e.id < n /\ files[e.id] \in {e.of, Nothing}
  BY DEF Backed, Listed, Entries
<1>2. e.id # m
  BY <1>1 DEF Ids
<1> QED BY <1>1, <1>2 DEF FilesOf

\* Removing a file leaves every list backed.
LEMMA RemoveOne ==
    ASSUME NEW files \in FilesOf, NEW list \in (SUBSET Listed) \cup (SUBSET Entries),
           NEW n \in Nat, Backed(files, list, n), NEW m \in Ids
    PROVE  Backed([files EXCEPT ![m] = Nothing], list, n)
<1> SUFFICES ASSUME NEW e \in list
             PROVE  e.id < n /\ [files EXCEPT ![m] = Nothing][e.id] \in {e.of, Nothing}
  BY DEF Backed
<1>1. e.id \in Ids /\ e.id < n /\ files[e.id] \in {e.of, Nothing}
  BY DEF Backed, Listed, Entries
<1> QED BY <1>1 DEF FilesOf

\* The index that persist_index writes for a store.
Written(st) ==
    [readable |-> TRUE, next_id |-> st.next_id,
     entries |-> {[id |-> e.id, of |-> e.of] : e \in st.list}]

LEMMA WrittenTyped ==
    ASSUME NEW st \in Stores
    PROVE  Written(st) \in Index
<1>1. st.next_id \in Nat /\ st.list \in SUBSET Listed
  BY DEF Stores
<1>2. {[id |-> e.id, of |-> e.of] : e \in st.list} \in SUBSET Entries
  BY <1>1 DEF Listed, Entries
<1> QED BY <1>1, <1>2 DEF Written, Index

LEMMA WrittenGood ==
    ASSUME NEW st \in Stores, NEW files, Backed(files, st.list, st.next_id)
    PROVE  IndexGood(files, Written(st)) /\ StoreGood(files, Written(st), st)
<1>1. st.next_id \in Nat
  BY DEF Stores
<1>2. Backed(files, {[id |-> e.id, of |-> e.of] : e \in st.list}, st.next_id)
  BY DEF Backed
<1> QED BY <1>1, <1>2 DEF Written, IndexGood, StoreGood

LEMMA NoIndexTyped == NoIndex \in Index
BY DEF NoIndex, Index

LEMMA NoIndexGood ==
    ASSUME NEW files, NEW st \in Stores, Backed(files, st.list, st.next_id)
    PROVE  IndexGood(files, NoIndex) /\ StoreGood(files, NoIndex, st)
BY DEF NoIndex, IndexGood, StoreGood

\* What persist_index may leave behind.
LEMMA PersistKeeps ==
    ASSUME NEW st \in Stores, st.dir # Nothing, index \in [Dirs -> Index],
           persist_index(st)
    PROVE  /\ index' = [index EXCEPT ![st.dir] = index'[st.dir]]
           /\ index'[st.dir] \in {index[st.dir], NoIndex, Written(st)}
<1>1. PICK w \in {index[st.dir], NoIndex, Written(st)} :
            index' = [index EXCEPT ![st.dir] = w]
  BY DEF persist_index, Written
<1>2. st.dir \in Dirs
  BY DEF Stores
<1> QED BY <1>1, <1>2

LEMMA AsListed ==
    ASSUME NEW S \in SUBSET Entries
    PROVE  {[id |-> e.id, of |-> e.of, cached |-> FALSE] : e \in S} \in SUBSET Listed
<1> SUFFICES ASSUME NEW e \in S
             PROVE  [id |-> e.id, of |-> e.of, cached |-> FALSE] \in Listed
  OBVIOUS
<1> QED BY DEF Entries, Listed

\* A store restored from a good index is good.
LEMMA FromIndexGood ==
    ASSUME SnapTypeOK, NEW d \in Dirs, index[d].readable, IndexGood(bin[d], index[d])
    PROVE  FromIndex(d) \in Stores /\ StoreGood(bin[d], index[d], FromIndex(d))
<1> DEFINE kept == {e \in index[d].entries : bin[d][e.id] # Nothing}
           list == {[id |-> e.id, of |-> e.of, cached |-> FALSE] : e \in kept}
<1>1. index[d] \in Index
  BY DEF SnapTypeOK
<1>2. kept \in SUBSET Entries
  BY <1>1 DEF Index
<1>3. list \in SUBSET Listed
  BY <1>2, AsListed
<1>4. Backed(bin[d], list, index[d].next_id)
  BY DEF IndexGood, Backed
<1>5. FromIndex(d) = [dir |-> d, next_id |-> index[d].next_id, list |-> list]
  BY DEF FromIndex
<1> HIDE DEF list
<1>6. index[d].next_id \in Nat
  BY <1>1 DEF Index
<1> QED BY <1>3, <1>4, <1>5, <1>6 DEF Stores, StoreGood

LEMMA FreshGood ==
    ASSUME NEW d \in Dirs, NEW files, NEW idx, ~idx.readable
    PROVE  Fresh(d) \in Stores /\ StoreGood(files, idx, Fresh(d))
BY DEF Fresh, Stores, StoreGood, Backed

\* Whatever restore returns is a store of the directory, and a good one unless a
\* readable index was passed over.
LEMMA RestoreGood ==
    ASSUME SnapTypeOK, NEW d \in Dirs, NEW st \in restore(d)
    PROVE  /\ st \in Stores /\ st.dir = d
           /\ ~(index[d].readable /\ st # FromIndex(d)) /\ IndexGood(bin[d], index[d])
                => StoreGood(bin[d], index[d], st)
<1>1. st = Fresh(d) \/ (index[d].readable /\ st = FromIndex(d))
  BY DEF restore
<1>2. index[d] \in Index /\ bin[d] \in FilesOf
  BY DEF SnapTypeOK
<1>3. Fresh(d) \in Stores /\ Fresh(d).dir = d
  BY DEF Fresh, Stores
<1>4. FromIndex(d) \in Stores /\ FromIndex(d).dir = d
  <2>1. {e \in index[d].entries : bin[d][e.id] # Nothing} \in SUBSET Entries
    BY <1>2 DEF Index
  <2>2. {[id |-> e.id, of |-> e.of, cached |-> FALSE] :
            e \in {e \in index[d].entries : bin[d][e.id] # Nothing}} \in SUBSET Listed
    BY <2>1, AsListed
  <2> QED BY <1>2, <2>2 DEF FromIndex, Stores, Index
<1>5. CASE ~index[d].readable
  BY <1>1, <1>3, <1>5, FreshGood
<1>6. CASE index[d].readable
  BY <1>1, <1>3, <1>4, <1>6, FromIndexGood
<1> QED BY <1>5, <1>6

\* The store after a capture: the id is used, and the snapshot listed if its bytes
\* were written.
Used(st) == [st EXCEPT !.next_id = @ + 1]
Holding(st, c) ==
    [Used(st) EXCEPT !.list = @ \cup {[id |-> st.next_id, of |-> c, cached |-> c \in Small]}]

LEMMA UsedIs ==
    ASSUME NEW st \in Stores, NEW c \in Contents, st.next_id \in Ids
    PROVE  /\ Used(st) \in Stores /\ Holding(st, c) \in Stores
           /\ Used(st).next_id = st.next_id + 1 /\ Holding(st, c).next_id = st.next_id + 1
           /\ Used(st).dir = st.dir /\ Holding(st, c).dir = st.dir
           /\ Used(st).list = st.list
           /\ Holding(st, c).list =
                st.list \cup {[id |-> st.next_id, of |-> c, cached |-> c \in Small]}
<1>1. [id |-> st.next_id, of |-> c, cached |-> c \in Small] \in Listed
  BY DEF Listed
<1>2. st.next_id \in Nat /\ st.list \in SUBSET Listed
  BY DEF Stores
<1>3. /\ Used(st) \in Stores /\ Used(st).next_id = st.next_id + 1
      /\ Used(st).dir = st.dir /\ Used(st).list = st.list
  BY <1>2 DEF Used, Stores
<1>4. st.list \cup {[id |-> st.next_id, of |-> c, cached |-> c \in Small]} \in SUBSET Listed
  BY <1>1, <1>2
<1> QED BY <1>3, <1>4 DEF Holding, Stores

\* Whatever a capture leaves of the file and of the index, the store and the index
\* are good again.
LEMMA CaptureGood ==
    ASSUME NEW files \in FilesOf, NEW idx \in Index, NEW st \in Stores,
           StoreGood(files, idx, st), IndexGood(files, idx),
           st.next_id \in Ids, NEW c \in Contents
    PROVE  /\ \A x : /\ StoreGood([files EXCEPT ![st.next_id] = x], idx, Used(st))
                     /\ IndexGood([files EXCEPT ![st.next_id] = x], idx)
           /\ \A i \in {idx, NoIndex, Written(Holding(st, c))} :
                /\ StoreGood([files EXCEPT ![st.next_id] = c], i, Holding(st, c))
                /\ IndexGood([files EXCEPT ![st.next_id] = c], i)
<1> DEFINE n == st.next_id
           with == Holding(st, c)
           after == [files EXCEPT ![n] = c]
<1>1. n \in Nat /\ st.list \in SUBSET Listed /\ idx.entries \in SUBSET Entries
      /\ idx.next_id \in Nat
  BY DEF Stores, Index
<1>2. /\ with \in Stores /\ with.next_id = n + 1 /\ Used(st).next_id = n + 1
      /\ Used(st).list = st.list
      /\ with.list = st.list \cup {[id |-> n, of |-> c, cached |-> c \in Small]}
  BY UsedIs
<1>3. ASSUME NEW x
      PROVE  Backed([files EXCEPT ![n] = x], st.list, n)
  BY <1>1, WriteAbove DEF StoreGood
<1>4. ASSUME NEW x
      PROVE  IndexGood([files EXCEPT ![n] = x], idx)
  BY <1>1, WriteAbove DEF StoreGood, IndexGood
<1>5. ASSUME NEW x
      PROVE  StoreGood([files EXCEPT ![n] = x], idx, Used(st))
  <2>1. \A e \in st.list : e.id \in Nat
    BY <1>1 DEF Listed, Ids
  <2>2. Backed([files EXCEPT ![n] = x], st.list, n + 1)
    BY <1>1, <1>3, <2>1 DEF Backed
  <2> QED BY <1>1, <1>2, <2>2 DEF StoreGood
<1>6. Backed(after, with.list, with.next_id)
  <2> SUFFICES ASSUME NEW e \in with.list
               PROVE  e.id < n + 1 /\ after[e.id] \in {e.of, Nothing}
    BY <1>2 DEF Backed
  <2>1. CASE e \in st.list
    <3>1. e.id \in Nat /\ e.id < n /\ after[e.id] \in {e.of, Nothing}
      BY <1>1, <1>3, <2>1 DEF Backed, Listed, Ids
    <3> QED BY <3>1, <1>1
  <2>2. CASE e = [id |-> n, of |-> c, cached |-> c \in Small]
    BY <1>1, <2>2 DEF FilesOf
  <2> QED BY <1>2, <2>1, <2>2
<1>7. ASSUME NEW i \in {idx, NoIndex, Written(with)}
      PROVE  StoreGood(after, i, with) /\ IndexGood(after, i)
  <2>1. CASE i = idx
    BY <1>1, <1>2, <1>4, <1>6, <2>1 DEF StoreGood
  <2>2. CASE i = NoIndex
    BY <1>2, <1>6, <2>2, NoIndexGood
  <2>3. CASE i = Written(with)
    BY <1>2, <1>6, <2>3, WrittenGood
  <2> QED BY <2>1, <2>2, <2>3
<1> QED BY <1>4, <1>5, <1>7

----------------------------------------------------------------------------
(* One lemma per action *)

LEMMA SnapInitially == SnapInit => SnapInv
<1> SUFFICES ASSUME SnapInit PROVE SnapInv
  OBVIOUS
<1>1. NoStore \in Stores /\ NoIndex \in Index /\ [n \in Ids |-> Nothing] \in FilesOf
  BY DEF NoStore, NoIndex, Stores, Index, FilesOf
<1>2. SnapTypeOK
  BY <1>1 DEF SnapInit, SnapTypeOK
<1>3. \A t \in Tabs : ~Live(t) /\ store[t].list = {}
  BY DEF SnapInit, Live, NoStore
<1>4. \A d \in Dirs : IndexGood(bin[d], index[d])
  BY DEF SnapInit, NoIndex, IndexGood
<1> QED BY <1>2, <1>3, <1>4 DEF SnapInv

\* A step that touches one tab and its directory only has to look at these two, and
\* at whether the directory has a second live store.
LEMMA OneDirectory ==
    ASSUME SnapInv, SnapTypeOK', NEW t \in Tabs, NEW d \in Dirs,
           store'[t].dir = d, source'[t] # Nothing,
           \A u \in Tabs : u # t => store'[u] = store[u] /\ source'[u] = source[u],
           \A x \in Dirs : x # d => bin'[x] = bin[x] /\ index'[x] = index[x],
           crowded \subseteq crowded', misread \subseteq misread',
           Sound(d)' =>
            /\ \A u \in Tabs : store[u].dir = d => u = t
            /\ StoreGood(bin'[d], index'[d], store'[t])
            /\ IndexGood(bin'[d], index'[d])
    PROVE  SnapInv'
<1>1. d # Nothing
  BY SnapshotConstants
<1>2. \A x : Sound(x)' => Sound(x)
  BY DEF Sound
<1>3. ASSUME NEW u \in Tabs, Live(u)', Sound(store[u].dir)'
      PROVE  /\ StoreGood(bin[store[u].dir], index[store[u].dir], store[u])'
             /\ \A v \in Tabs : store'[v].dir = store'[u].dir => v = u
  <2>1. CASE u = t
    BY <1>3, <2>1
  <2>2. CASE u # t
    <3>1. store'[u] = store[u] /\ Live(u) /\ Sound(store[u].dir)
      BY <1>2, <1>3, <2>2 DEF Live
    <3>2. store[u].dir # d
      BY <1>3, <2>2, <3>1
    <3>3. store[u].dir \in Dirs
      BY <1>3, <2>2, <3>1 DEF SnapInv, SnapTypeOK, Stores, Live
    <3>4. /\ bin'[store[u].dir] = bin[store[u].dir]
          /\ index'[store[u].dir] = index[store[u].dir]
      BY <3>2, <3>3
    <3>5. StoreGood(bin[store[u].dir], index[store[u].dir], store[u])
      BY <3>1 DEF SnapInv
    <3>6. \A v \in Tabs : store'[v].dir = store[u].dir => v = u
      BY <3>1, <3>2 DEF SnapInv
    <3> QED BY <3>1, <3>4, <3>5, <3>6
  <2> QED BY <2>1, <2>2
<1>4. ASSUME NEW x \in Dirs, Sound(x)'
      PROVE  IndexGood(bin'[x], index'[x])
  BY <1>2, <1>4 DEF SnapInv
<1>5. \A u \in Tabs : /\ ~Live(u)' => store'[u].list = {}
                      /\ source'[u] = Nothing => ~Live(u)'
  BY <1>1 DEF SnapInv, Live
<1> QED BY <1>3, <1>4, <1>5 DEF SnapInv

LEMMA WitnessGrows ==
    ASSUME NEW t \in Tabs, NEW st \in Stores, st.dir \in Dirs, Witness(t, st), SnapTypeOK
    PROVE  /\ crowded \subseteq crowded' /\ misread \subseteq misread'
           /\ crowded' \subseteq Dirs /\ misread' \subseteq Dirs
           /\ Sound(st.dir)' =>
                /\ Sound(st.dir)
                /\ \A u \in Tabs : store[u].dir = st.dir => u = t
                /\ ~Live(t) => ~(index[st.dir].readable /\ st # FromIndex(st.dir))
BY DEF Witness, Sound, SnapTypeOK

LEMMA KeyIsDir ==
    ASSUME NEW s \in Sources
    PROVE  sidecar_dir(s) \in Dirs
BY SnapshotConstants DEF sidecar_dir, Dirs

\* A tab without a store, whatever it had before.
LEMMA DropKeeps ==
    ASSUME SnapInv, NEW t \in Tabs, store' = [store EXCEPT ![t] = NoStore],
           source' \in [Tabs -> Sources \cup {Nothing}],
           \A u \in Tabs : u # t => source'[u] = source[u],
           UNCHANGED <<is_egui, based, bin, index, crowded, misread>>
    PROVE  SnapInv'
<1>1. NoStore \in Stores /\ NoStore.dir = Nothing /\ NoStore.list = {}
  BY DEF NoStore, Stores
<1>2. SnapTypeOK'
  BY <1>1 DEF SnapInv, SnapTypeOK
<1>3. \A u \in Tabs : store'[u] = IF u = t THEN NoStore ELSE store[u]
  BY DEF SnapInv, SnapTypeOK
<1>4. \A x : Sound(x)' <=> Sound(x)
  BY DEF Sound
<1>5. \A u \in Tabs : Live(u)' => Live(u) /\ u # t
  BY <1>1, <1>3 DEF Live
<1>6. ASSUME NEW u \in Tabs, Live(u)', Sound(store[u].dir)'
      PROVE  /\ StoreGood(bin[store[u].dir], index[store[u].dir], store[u])'
             /\ \A v \in Tabs : store'[v].dir = store'[u].dir => v = u
  <2>1. Live(u) /\ u # t /\ store'[u] = store[u] /\ Sound(store[u].dir)
    BY <1>3, <1>4, <1>5, <1>6
  <2>2. /\ StoreGood(bin[store[u].dir], index[store[u].dir], store[u])
        /\ \A v \in Tabs : store[v].dir = store[u].dir => v = u
    BY <2>1 DEF SnapInv
  <2> QED BY <1>1, <1>3, <2>1, <2>2 DEF Live
<1>7. \A x \in Dirs : Sound(x)' => IndexGood(bin'[x], index'[x])
  BY <1>4 DEF SnapInv
<1>8. \A u \in Tabs : /\ ~Live(u)' => store'[u].list = {}
                      /\ source'[u] = Nothing => ~Live(u)'
  BY <1>1, <1>3 DEF SnapInv, Live
<1> QED BY <1>2, <1>6, <1>7, <1>8 DEF SnapInv

LEMMA OpenKeeps ==
    ASSUME SnapInv, NEW t \in Tabs, NEW s \in Sources, OpenTab(t, s)
    PROVE  SnapInv'
<1>1. s # Nothing /\ source' = [source EXCEPT ![t] = s]
      /\ source' \in [Tabs -> Sources \cup {Nothing}] /\ source'[t] = s
  BY SnapshotConstants DEF SnapInv, SnapTypeOK, OpenTab, Dirs
<1>2. CASE ~is_egui
  BY <1>1, <1>2, DropKeeps DEF OpenTab, SnapInv, SnapTypeOK
<1>3. CASE is_egui
  <2>0. PICK d \in Dirs : d = sidecar_dir(s)
    BY KeyIsDir
  <2>1. PICK st \in restore(d) : store' = [store EXCEPT ![t] = st] /\ Witness(t, st)
    BY <1>3, <2>0 DEF OpenTab
  <2>2. ~Live(t)
    BY DEF OpenTab, SnapInv
  <2>3. /\ st \in Stores /\ st.dir = d
        /\ ~(index[d].readable /\ st # FromIndex(d)) /\ IndexGood(bin[d], index[d])
             => StoreGood(bin[d], index[d], st)
    BY <2>1, RestoreGood DEF SnapInv
  <2>4. /\ crowded \subseteq crowded' /\ misread \subseteq misread'
        /\ crowded' \subseteq Dirs /\ misread' \subseteq Dirs
        /\ Sound(d)' =>
             /\ Sound(d)
             /\ \A u \in Tabs : store[u].dir = d => u = t
             /\ ~(index[d].readable /\ st # FromIndex(d))
    BY <2>1, <2>2, <2>3, WitnessGrows DEF SnapInv
  <2>5. UNCHANGED <<is_egui, based, bin, index>>
    BY DEF OpenTab
  <2>6. SnapTypeOK'
    BY <1>1, <2>1, <2>3, <2>4, <2>5 DEF SnapInv, SnapTypeOK
  <2>7. store'[t] = st /\ \A u \in Tabs : u # t => store'[u] = store[u]
    BY <2>1 DEF SnapInv, SnapTypeOK
  <2>8. \A u \in Tabs : u # t => source'[u] = source[u]
    BY <1>1 DEF SnapInv, SnapTypeOK
  <2>9. Sound(d)' => /\ StoreGood(bin'[d], index'[d], store'[t])
                     /\ IndexGood(bin'[d], index'[d])
    BY <2>2, <2>3, <2>4, <2>5, <2>7 DEF SnapInv
  <2> QED BY <1>1, <2>2, <2>3, <2>4, <2>5, <2>6, <2>7, <2>8, <2>9, OneDirectory
<1> QED BY <1>2, <1>3 DEF SnapInv, SnapTypeOK

LEMMA TakeKeeps ==
    ASSUME SnapInv, NEW t \in Tabs, NEW c \in Contents, TakeSnapshot(t, c)
    PROVE  SnapInv'
<1>1. PICK st \in IF Live(t) THEN {store[t]} ELSE restore(sidecar_dir(source[t])) :
            capture(t, st, c) /\ Witness(t, st)
  BY DEF TakeSnapshot
<1>2. UNCHANGED <<is_egui, based, source>> /\ source[t] # Nothing /\ source[t] \in Sources
  BY DEF TakeSnapshot, SnapInv, SnapTypeOK
<1>3. PICK d : d = st.dir
  OBVIOUS
<1>4. /\ st \in Stores /\ d \in Dirs
      /\ ~Live(t) =>
           (~(index[d].readable /\ st # FromIndex(d)) /\ IndexGood(bin[d], index[d])
             => StoreGood(bin[d], index[d], st))
  <2>1. CASE Live(t)
    BY <1>1, <1>3, <2>1 DEF SnapInv, SnapTypeOK, Stores, Live
  <2>2. CASE ~Live(t)
    <3>1. sidecar_dir(source[t]) \in Dirs
      BY <1>2, KeyIsDir
    <3> QED BY <1>1, <1>3, <2>2, <3>1, RestoreGood DEF SnapInv
  <2> QED BY <2>1, <2>2
<1>5. /\ crowded \subseteq crowded' /\ misread \subseteq misread'
      /\ crowded' \subseteq Dirs /\ misread' \subseteq Dirs
      /\ Sound(d)' =>
           /\ Sound(d)
           /\ \A u \in Tabs : store[u].dir = d => u = t
           /\ ~Live(t) => ~(index[d].readable /\ st # FromIndex(d))
  BY <1>1, <1>3, <1>4, WitnessGrows DEF SnapInv
<1>6. Sound(d)' => StoreGood(bin[d], index[d], st) /\ IndexGood(bin[d], index[d])
  <2>1. Sound(d)' => IndexGood(bin[d], index[d])
    BY <1>4, <1>5 DEF SnapInv
  <2>2. Live(t) /\ Sound(d)' => StoreGood(bin[d], index[d], st)
    BY <1>1, <1>3, <1>5 DEF SnapInv
  <2> QED BY <1>4, <1>5, <2>1, <2>2
<1>7. st.next_id \in Ids /\ bin[d] \in FilesOf /\ index[d] \in Index
  BY <1>1, <1>4 DEF capture, SnapInv, SnapTypeOK
<1> DEFINE n == st.next_id
<1>8. /\ Used(st) \in Stores /\ Holding(st, c) \in Stores
      /\ Used(st).dir = d /\ Holding(st, c).dir = d
  BY <1>3, <1>4, <1>7, UsedIs
<1>9. ASSUME NEW x \in Contents \cup {Nothing, Torn}, NEW i \in Index, NEW next \in Stores,
             next.dir = d,
             bin' = [bin EXCEPT ![d] = [@ EXCEPT ![n] = x]],
             index' = [index EXCEPT ![d] = i],
             store' = [store EXCEPT ![t] = next],
             Sound(d)' => /\ StoreGood([bin[d] EXCEPT ![n] = x], i, next)
                          /\ IndexGood([bin[d] EXCEPT ![n] = x], i)
      PROVE  SnapInv'
  <2>1. [bin[d] EXCEPT ![n] = x] \in FilesOf
    BY <1>7 DEF FilesOf
  <2>2. /\ bin' \in [Dirs -> FilesOf] /\ bin'[d] = [bin[d] EXCEPT ![n] = x]
        /\ \A y \in Dirs : y # d => bin'[y] = bin[y]
    BY <1>4, <1>9, <2>1 DEF SnapInv, SnapTypeOK
  <2>3. /\ index' \in [Dirs -> Index] /\ index'[d] = i
        /\ \A y \in Dirs : y # d => index'[y] = index[y]
    BY <1>4, <1>9 DEF SnapInv, SnapTypeOK
  <2>4. /\ store' \in [Tabs -> Stores] /\ store'[t] = next
        /\ \A u \in Tabs : u # t => store'[u] = store[u]
    BY <1>9 DEF SnapInv, SnapTypeOK
  <2>5. SnapTypeOK'
    BY <1>2, <1>5, <2>2, <2>3, <2>4 DEF SnapInv, SnapTypeOK
  <2>6. Sound(d)' => /\ StoreGood(bin'[d], index'[d], store'[t])
                     /\ IndexGood(bin'[d], index'[d])
    BY <1>9, <2>2, <2>3, <2>4
  <2>7. /\ store'[t].dir = d /\ source'[t] # Nothing
        /\ \A u \in Tabs : u # t => store'[u] = store[u] /\ source'[u] = source[u]
        /\ \A y \in Dirs : y # d => bin'[y] = bin[y] /\ index'[y] = index[y]
    BY <1>2, <1>9, <2>2, <2>3, <2>4
  <2>8. Sound(d)' =>
          /\ \A u \in Tabs : store[u].dir = d => u = t
          /\ StoreGood(bin'[d], index'[d], store'[t])
          /\ IndexGood(bin'[d], index'[d])
    BY <1>5, <2>6
  <2> QED BY <1>4, <1>5, <2>5, <2>7, <2>8, OneDirectory
<1>10. CASE /\ bin' = [bin EXCEPT ![d] = [@ EXCEPT ![n] = c]]
            /\ store' = [store EXCEPT ![t] = Holding(st, c)]
            /\ persist_index(Holding(st, c))
  <2>1. d # Nothing
    BY <1>4, SnapshotConstants
  <2>2. PICK i \in {index[d], NoIndex, Written(Holding(st, c))} :
            index' = [index EXCEPT ![d] = i]
    BY <1>8, <1>10, <2>1, PersistKeeps DEF SnapInv, SnapTypeOK
  <2>3. Sound(d)' => /\ StoreGood([bin[d] EXCEPT ![n] = c], i, Holding(st, c))
                     /\ IndexGood([bin[d] EXCEPT ![n] = c], i)
    BY <1>4, <1>6, <1>7, <2>2, CaptureGood
  <2>4. i \in Index
    BY <1>7, <1>8, <2>2, WrittenTyped, NoIndexTyped
  <2> QED BY <1>8, <1>9, <1>10, <2>2, <2>3, <2>4
<1>11. CASE /\ \E left \in {bin[d][n], Torn} :
                 bin' = [bin EXCEPT ![d] = [@ EXCEPT ![n] = left]]
            /\ store' = [store EXCEPT ![t] = Used(st)]
            /\ UNCHANGED index
  <2>1. PICK x \in Contents \cup {Nothing, Torn} :
            bin' = [bin EXCEPT ![d] = [@ EXCEPT ![n] = x]]
    BY <1>7, <1>11 DEF FilesOf
  <2>2. index' = [index EXCEPT ![d] = index[d]]
    BY <1>4, <1>11 DEF SnapInv, SnapTypeOK
  <2>3. Sound(d)' => /\ StoreGood([bin[d] EXCEPT ![n] = x], index[d], Used(st))
                     /\ IndexGood([bin[d] EXCEPT ![n] = x], index[d])
    BY <1>4, <1>6, <1>7, CaptureGood
  <2> QED BY <1>7, <1>8, <1>9, <1>11, <2>1, <2>2, <2>3
<1> QED BY <1>1, <1>3, <1>10, <1>11 DEF capture, Used, Holding

LEMMA DeleteKeeps ==
    ASSUME SnapInv, NEW t \in Tabs, NEW e \in store[t].list, DeleteSnapshot(t, e)
    PROVE  SnapInv'
<1>1. PICK d, st : d = store[t].dir /\ st = [store[t] EXCEPT !.list = @ \ {e}]
  OBVIOUS
<1>2. Live(t) /\ d # Nothing /\ d \in Dirs /\ store[t] \in Stores /\ e \in Listed
  BY <1>1 DEF SnapInv, SnapTypeOK, Stores, Live
<1>3. st \in Stores /\ st.dir = d /\ st.next_id = store[t].next_id
      /\ st.list = store[t].list \ {e}
  BY <1>1, <1>2 DEF Stores
<1>4. /\ store' = [store EXCEPT ![t] = st]
      /\ \E left \in {bin[d][e.id], Nothing} :
            bin' = [bin EXCEPT ![d] = [@ EXCEPT ![e.id] = left]]
      /\ persist_index(st)
      /\ UNCHANGED <<is_egui, based, source, crowded, misread>>
  BY <1>1, <1>3 DEF DeleteSnapshot
<1>5. e.id \in Ids /\ bin[d] \in FilesOf /\ index[d] \in Index
  BY <1>2 DEF SnapInv, SnapTypeOK, Listed
<1>6. PICK files \in {bin[d], [bin[d] EXCEPT ![e.id] = Nothing]} :
            bin' = [bin EXCEPT ![d] = files]
  <2>1. PICK left \in {bin[d][e.id], Nothing} :
            bin' = [bin EXCEPT ![d] = [bin[d] EXCEPT ![e.id] = left]]
    BY <1>4
  <2>2. [bin[d] EXCEPT ![e.id] = bin[d][e.id]] = bin[d]
    BY <1>5 DEF FilesOf
  <2>3. [bin[d] EXCEPT ![e.id] = left] \in {bin[d], [bin[d] EXCEPT ![e.id] = Nothing]}
    BY <2>1, <2>2
  <2> QED BY <2>1, <2>3
<1>7. files \in FilesOf
  BY <1>5, <1>6 DEF FilesOf
<1>8. PICK i \in {index[d], NoIndex, Written(st)} : index' = [index EXCEPT ![d] = i]
  BY <1>2, <1>3, <1>4, PersistKeeps DEF SnapInv, SnapTypeOK
<1>9. i \in Index
  BY <1>3, <1>5, <1>8, WrittenTyped, NoIndexTyped
<1>10. /\ bin' \in [Dirs -> FilesOf] /\ bin'[d] = files
       /\ \A y \in Dirs : y # d => bin'[y] = bin[y]
  BY <1>2, <1>6, <1>7 DEF SnapInv, SnapTypeOK
<1>11. /\ index' \in [Dirs -> Index] /\ index'[d] = i
       /\ \A y \in Dirs : y # d => index'[y] = index[y]
  BY <1>2, <1>8, <1>9 DEF SnapInv, SnapTypeOK
<1>12. /\ store' \in [Tabs -> Stores] /\ store'[t] = st
       /\ \A u \in Tabs : u # t => store'[u] = store[u]
  BY <1>3, <1>4 DEF SnapInv, SnapTypeOK
<1>13. SnapTypeOK'
  BY <1>4, <1>10, <1>11, <1>12 DEF SnapInv, SnapTypeOK
<1>14. ASSUME Sound(d)'
       PROVE  /\ \A u \in Tabs : store[u].dir = d => u = t
              /\ StoreGood(files, i, st)
              /\ IndexGood(files, i)
  <2>1. Sound(d)
    BY <1>4, <1>14 DEF Sound
  <2>2. /\ StoreGood(bin[d], index[d], store[t]) /\ IndexGood(bin[d], index[d])
        /\ \A u \in Tabs : store[u].dir = d => u = t
    BY <1>1, <1>2, <2>1 DEF SnapInv
  <2>3. /\ store[t].list \in SUBSET Listed /\ store[t].next_id \in Nat
        /\ index[d].entries \in SUBSET Entries /\ index[d].next_id \in Nat
    BY <1>2, <1>5 DEF Stores, Index
  <2>4. Backed(files, store[t].list, store[t].next_id)
    <3>1. Backed(bin[d], store[t].list, store[t].next_id)
      BY <2>2 DEF StoreGood
    <3>2. Backed([bin[d] EXCEPT ![e.id] = Nothing], store[t].list, store[t].next_id)
      BY <1>5, <2>3, <3>1, RemoveOne
    <3> QED BY <1>6, <3>1, <3>2
  <2>5. Backed(files, st.list, st.next_id)
    BY <1>3, <2>4 DEF Backed
  <2>6. IndexGood(files, index[d])
    <3> SUFFICES ASSUME index[d].readable
                 PROVE  Backed(files, index[d].entries, index[d].next_id)
      BY DEF IndexGood
    <3>1. Backed(bin[d], index[d].entries, index[d].next_id)
      BY <2>2 DEF IndexGood
    <3>2. Backed([bin[d] EXCEPT ![e.id] = Nothing], index[d].entries, index[d].next_id)
      BY <1>5, <2>3, <3>1, RemoveOne
    <3> QED BY <1>6, <3>1, <3>2
  <2>7. StoreGood(files, index[d], st)
    BY <1>3, <2>2, <2>5 DEF StoreGood
  <2>8. StoreGood(files, i, st) /\ IndexGood(files, i)
    BY <1>3, <1>8, <2>5, <2>6, <2>7, WrittenGood, NoIndexGood
  <2> QED BY <2>2, <2>8
<1>15. source'[t] # Nothing
  BY <1>2, <1>4 DEF SnapInv
<1>16. /\ store'[t].dir = d
       /\ \A u \in Tabs : u # t => store'[u] = store[u] /\ source'[u] = source[u]
       /\ \A y \in Dirs : y # d => bin'[y] = bin[y] /\ index'[y] = index[y]
       /\ crowded \subseteq crowded' /\ misread \subseteq misread'
  BY <1>3, <1>4, <1>10, <1>11, <1>12
<1>17. Sound(d)' =>
         /\ \A u \in Tabs : store[u].dir = d => u = t
         /\ StoreGood(bin'[d], index'[d], store'[t])
         /\ IndexGood(bin'[d], index'[d])
  BY <1>10, <1>11, <1>12, <1>14
<1> QED BY <1>2, <1>13, <1>15, <1>16, <1>17, OneDirectory

LEMMA RenameKeeps ==
    ASSUME SnapInv, NEW t \in Tabs, RenameSnapshot(t)
    PROVE  SnapInv'
<1>1. PICK d : d = store[t].dir
  OBVIOUS
<1>2. Live(t) /\ d # Nothing /\ d \in Dirs /\ store[t] \in Stores
  BY <1>1 DEF SnapInv, SnapTypeOK, Stores, Live, RenameSnapshot
<1>3. PICK i \in {index[d], NoIndex, Written(store[t])} : index' = [index EXCEPT ![d] = i]
  BY <1>1, <1>2, PersistKeeps DEF SnapInv, SnapTypeOK, RenameSnapshot
<1>4. i \in Index
  BY <1>2, <1>3, WrittenTyped, NoIndexTyped DEF SnapInv, SnapTypeOK
<1>5. /\ index' \in [Dirs -> Index] /\ index'[d] = i
      /\ \A y \in Dirs : y # d => index'[y] = index[y]
  BY <1>2, <1>3, <1>4 DEF SnapInv, SnapTypeOK
<1>6. UNCHANGED <<is_egui, based, source, store, bin, crowded, misread>>
  BY DEF RenameSnapshot
<1>7. SnapTypeOK'
  BY <1>5, <1>6 DEF SnapInv, SnapTypeOK
<1>8. ASSUME Sound(d)'
      PROVE  /\ \A u \in Tabs : store[u].dir = d => u = t
             /\ StoreGood(bin[d], i, store[t])
             /\ IndexGood(bin[d], i)
  <2>1. Sound(d)
    BY <1>6, <1>8 DEF Sound
  <2>2. /\ StoreGood(bin[d], index[d], store[t]) /\ IndexGood(bin[d], index[d])
        /\ \A u \in Tabs : store[u].dir = d => u = t
    BY <1>1, <1>2, <2>1 DEF SnapInv
  <2>3. Backed(bin[d], store[t].list, store[t].next_id)
    BY <2>2 DEF StoreGood
  <2> QED BY <1>2, <1>3, <2>2, <2>3, WrittenGood, NoIndexGood
<1>9. source'[t] # Nothing
  BY <1>2, <1>6 DEF SnapInv
<1>10. Sound(d)' =>
         /\ \A u \in Tabs : store[u].dir = d => u = t
         /\ StoreGood(bin'[d], index'[d], store'[t])
         /\ IndexGood(bin'[d], index'[d])
  BY <1>5, <1>6, <1>8
<1> QED BY <1>1, <1>2, <1>5, <1>6, <1>7, <1>9, <1>10, OneDirectory

\* A step that changes neither stores nor directories.
LEMMA SaveAsKeeps ==
    ASSUME SnapInv, NEW t \in Tabs, NEW f \in Files, SaveAs(t, f)
    PROVE  SnapInv'
<1>1. source' = [source EXCEPT ![t] = f] /\ f \in Sources /\ f # Nothing
  BY SnapshotConstants DEF SaveAs, Dirs
<1>2. UNCHANGED <<is_egui, based, store, bin, index, crowded, misread>>
  BY DEF SaveAs
<1>3. SnapTypeOK'
  BY <1>1, <1>2 DEF SnapInv, SnapTypeOK
<1>4. /\ \A u \in Tabs : Live(u)' <=> Live(u)
      /\ \A x : Sound(x)' <=> Sound(x)
  BY <1>2 DEF Live, Sound
<1>5. \A u \in Tabs : source'[u] = Nothing => ~Live(u)'
  BY <1>1, <1>4 DEF SnapInv, SnapTypeOK
<1> QED BY <1>2, <1>3, <1>4, <1>5 DEF SnapInv

LEMMA CloseKeeps ==
    ASSUME SnapInv, NEW t \in Tabs, CloseTab(t)
    PROVE  SnapInv'
<1>1. /\ source' \in [Tabs -> Sources \cup {Nothing}]
      /\ \A u \in Tabs : u # t => source'[u] = source[u]
  BY DEF CloseTab, SnapInv, SnapTypeOK
<1> QED BY <1>1, DropKeeps DEF CloseTab

LEMMA VanishKeeps ==
    ASSUME SnapInv, NEW d \in Dirs, NEW n \in Ids, Vanish(d, n)
    PROVE  SnapInv'
<1>1. /\ bin' = [bin EXCEPT ![d] = [@ EXCEPT ![n] = Nothing]]
      /\ UNCHANGED <<is_egui, based, source, store, index, crowded, misread>>
  BY DEF Vanish
<1>2. [bin[d] EXCEPT ![n] = Nothing] \in FilesOf
  BY DEF SnapInv, SnapTypeOK, FilesOf
<1>3. SnapTypeOK'
  BY <1>1, <1>2 DEF SnapInv, SnapTypeOK
<1>4. ASSUME NEW x \in Dirs, NEW list \in (SUBSET Listed) \cup (SUBSET Entries),
             NEW m \in Nat, Backed(bin[x], list, m)
      PROVE  Backed(bin'[x], list, m)
  <2>1. bin[x] \in FilesOf
    BY DEF SnapInv, SnapTypeOK
  <2>2. bin'[x] = bin[x] \/ bin'[x] = [bin[x] EXCEPT ![n] = Nothing]
    BY <1>1 DEF SnapInv, SnapTypeOK
  <2> QED BY <1>4, <2>1, <2>2, RemoveOne
<1>5. /\ \A u \in Tabs : Live(u)' <=> Live(u)
      /\ \A x : Sound(x)' <=> Sound(x)
  BY <1>1 DEF Live, Sound
<1>6. ASSUME NEW u \in Tabs, Live(u), Sound(store[u].dir)
      PROVE  StoreGood(bin'[store[u].dir], index[store[u].dir], store[u])
  <2>1. /\ store[u].dir \in Dirs /\ store[u].list \in SUBSET Listed
        /\ store[u].next_id \in Nat
    BY <1>6 DEF SnapInv, SnapTypeOK, Stores, Live
  <2>2. StoreGood(bin[store[u].dir], index[store[u].dir], store[u])
    BY <1>6 DEF SnapInv
  <2> QED BY <1>4, <2>1, <2>2 DEF StoreGood
<1>7. ASSUME NEW x \in Dirs, Sound(x)
      PROVE  IndexGood(bin'[x], index[x])
  <2>1. index[x].entries \in SUBSET Entries /\ index[x].next_id \in Nat
    BY DEF SnapInv, SnapTypeOK, Index
  <2>2. IndexGood(bin[x], index[x])
    BY <1>7 DEF SnapInv
  <2> QED BY <1>4, <2>1, <2>2 DEF IndexGood
<1> QED BY <1>1, <1>3, <1>5, <1>6, <1>7 DEF SnapInv

----------------------------------------------------------------------------
(* The theorems *)

LEMMA SnapStep == SnapInv /\ [SnapNext]_snapVars => SnapInv'
<1> SUFFICES ASSUME SnapInv, [SnapNext]_snapVars PROVE SnapInv'
  OBVIOUS
<1>1. CASE UNCHANGED snapVars
  BY <1>1 DEF snapVars, SnapInv, SnapTypeOK, Live, Sound
<1>2. CASE SnapNext
  BY <1>2, OpenKeeps, TakeKeeps, DeleteKeeps, RenameKeeps, SaveAsKeeps, CloseKeeps,
     VanishKeeps DEF SnapNext
<1> QED BY <1>1, <1>2

LEMMA SnapAlways == SnapSpec => []SnapInv
<1> QED BY SnapInitially, SnapStep, PTL DEF SnapSpec

\* In a directory that one store at a time has used and whose index was never passed
\* over, a listed snapshot gives back the captured bytes or none: failed and half
\* finished writes, deletions, lost files, restarts and Save As never put other bytes
\* under it (snapshot.rs 111-251).
THEOREM SnapshotsKept == SnapSpec => []SnapshotsReturn
<1>1. SnapInv => SnapshotsReturn
  <2> SUFFICES ASSUME SnapInv, NEW t \in Tabs, NEW e \in store[t].list,
                      store[t].dir \notin crowded \cup misread
               PROVE  load_bytes(t, e) \in {e.of, Nothing}
    BY DEF SnapshotsReturn
  <2>1. Live(t) /\ Sound(store[t].dir)
    BY DEF SnapInv, Sound
  <2>2. Backed(bin[store[t].dir], store[t].list, store[t].next_id)
    BY <2>1 DEF SnapInv, StoreGood
  <2> QED BY <2>2 DEF Backed, load_bytes
<1> QED BY <1>1, SnapAlways, PTL

-----------------------------------------------------------------------------
(***************************************************************************)
(* The shared byte cache: no stale bytes without an overlapping read, and  *)
(* the books and the budget, for any number of files, versions, threads    *)
(* and budgets.                                                            *)
(***************************************************************************)

-----------------------------------------------------------------------------
(* The inductive invariant. *)

Slots == [key : [source : SourceIds, chunk : Nat], bytes : FileVersions,
          len : 1 .. CHUNK_SIZE_BYTES, attribution : Readers]

Reading == [pc : {"lookup", "read", "fill", "done"}, source : SourceIds, version : FileVersions,
            attribution : Readers, chunk : Nat, last : Nat, clean : BOOLEAN]

(* A thread in a read is at a chunk of the version it has open. *)
ReaderOK(r) ==
    r = Idle \/ /\ r \in Reading
                /\ r.chunk <= r.last
                /\ r.last \in ChunksOf(Length[r.version])

CacheTyped == IsCache(cache, Slots) /\ cache.limit \in Limits

FilesTyped ==
    /\ current \in [SourceIds -> FileVersions \cup {Closed}]
    /\ overlapped \in SUBSET SourceIds

ReadersTyped == DOMAIN reader = Readers /\ \A w \in Readers : ReaderOK(reader[w])

(* Every slot holds the bytes the tab shows, or its file was dropped during *)
(* a read of it.                                                           *)
SlotsFresh ==
    \A i \in 1 .. Len(cache.chunks) :
       \/ cache.chunks[i].bytes = current[cache.chunks[i].key.source]
       \/ cache.chunks[i].key.source \in overlapped

(* A thread in a read has the version open that the tab shows, and has had  *)
(* its bytes only, or the same.                                            *)
ReadersFresh ==
    \A w \in Readers :
       Busy(w) => \/ reader[w].source \in overlapped
                  \/ reader[w].version = current[reader[w].source] /\ reader[w].clean

SharedInv == CacheTyped /\ FilesTyped /\ ReadersTyped /\ SlotsFresh /\ ReadersFresh

-----------------------------------------------------------------------------
(* Facts. *)

LEMMA SlotsSized == Sized(Slots)
  BY CacheConstants DEF Sized, Slots

(* The slot of a read under way fits any cache of the program. *)
LEMMA NewSlotIs ==
    ASSUME NEW r \in Reading, r.chunk <= r.last, r.last \in ChunksOf(Length[r.version]), CacheTyped
    PROVE  NewSlot(r) \in Slots /\ NewSlot(r).len <= cache.limit
  <1>1. Length[r.version] \in Nat /\ r.chunk \in Nat
    BY SharedConstants DEF Reading, FileVersions
  <1>2. ChunkLen(Length[r.version], r.chunk) \in 1 .. CHUNK_SIZE_BYTES
    BY <1>1, ChunkLenIs
  <1>3. NewSlot(r) \in Slots
    BY <1>2 DEF NewSlot, KeyOf, Slots, Reading
  <1>4. cache.limit >= CHUNK_SIZE_BYTES /\ cache.limit \in Nat /\ CHUNK_SIZE_BYTES \in Nat
    BY CacheConstants DEF CacheTyped
  <1> QED BY <1>2, <1>3, <1>4 DEF NewSlot

(* The invariant of the slots, from where the new slots come. *)
LEMMA FreshFrom ==
    ASSUME SlotsFresh, UNCHANGED <<current, overlapped>>, From(cache'.chunks, cache.chunks)
    PROVE  SlotsFresh'
  BY DEF SlotsFresh, From

-----------------------------------------------------------------------------
(* Each step keeps the invariant. *)

LEMMA SharedInitially == SharedInit => SharedInv
  <1> SUFFICES ASSUME SharedInit PROVE SharedInv
    OBVIOUS
  <1>1. PICK limit \in Limits : cache = EmptyCache(limit)
    BY DEF SharedInit
  <1>2. cache.limit = limit /\ cache.chunks = << >> /\ limit \in Nat
    BY <1>1, CacheConstants DEF EmptyCache
  <1>3. CacheTyped
    <2>1. Distinct(<< >>) /\ << >> \in Seq(Slots)
      BY DEF Distinct
    <2> QED BY <1>1, <1>2, <2>1 DEF CacheTyped, IsCache, EmptyCache
  <1>4. FilesTyped
    <2>1. 1 \in FileVersions
      BY SharedConstants DEF FileVersions
    <2> QED BY <2>1 DEF SharedInit, FilesTyped
  <1>5. ReadersTyped
    BY DEF SharedInit, ReadersTyped, ReaderOK
  <1>6. SlotsFresh
    BY <1>2 DEF SlotsFresh
  <1>7. ReadersFresh
    BY DEF SharedInit, ReadersFresh, Busy, Idle
  <1> QED BY <1>3, <1>4, <1>5, <1>6, <1>7 DEF SharedInv

(* A read goes on to the next chunk. *)
LEMMA ServedOK ==
    ASSUME NEW r \in Reading, ReaderOK(r), NEW bytes
    PROVE  /\ ReaderOK(Served(r, bytes)) /\ Served(r, bytes) \in Reading
           /\ Served(r, bytes).source = r.source /\ Served(r, bytes).version = r.version
           /\ Served(r, bytes).clean = (r.clean /\ bytes = r.version)
  <1>1. r.pc # "idle" /\ r.chunk \in Nat /\ r.last \in Nat /\ r.clean \in BOOLEAN
    BY DEF Reading
  <1>2. r # Idle
    BY <1>1 DEF Idle
  <1>3. r.chunk <= r.last /\ r.last \in ChunksOf(Length[r.version])
    BY <1>2 DEF ReaderOK
  <1> DEFINE c == IF r.chunk = r.last THEN r.chunk ELSE r.chunk + 1
             pc == IF r.chunk = r.last THEN "done" ELSE "lookup"
             clean == (r.clean /\ bytes = r.version)
             s == Served(r, bytes)
  <1>4. c \in Nat /\ c <= r.last /\ pc \in {"lookup", "done"} /\ clean \in BOOLEAN
    BY <1>1, <1>3
  <1>5. s = [r EXCEPT !.clean = clean, !.chunk = c, !.pc = pc]
    BY DEF Served
  <1> HIDE DEF c, pc, clean, s
  <1>6. s \in Reading /\ s.chunk = c /\ s.last = r.last /\ s.version = r.version
        /\ s.source = r.source /\ s.clean = clean
    BY <1>4, <1>5 DEF Reading
  <1> QED BY <1>3, <1>4, <1>6 DEF ReaderOK, s, clean

LEMMA read_withKeeps ==
    ASSUME SharedInv, NEW w \in Readers, read_with(w)
    PROVE  SharedInv'
  <1>0. PICK s \in SourceIds :
          /\ current[s] # Closed
          /\ \E first, last \in ChunksOf(Length[current[s]]) :
                /\ first <= last
                /\ reader' = [reader EXCEPT ![w] = Read(s, current[s], w, first, last)]
    BY DEF read_with
  <1>1. PICK first \in ChunksOf(Length[current[s]]), last \in ChunksOf(Length[current[s]]) :
          /\ first <= last
          /\ reader' = [reader EXCEPT ![w] = Read(s, current[s], w, first, last)]
    BY <1>0
  <1>2. UNCHANGED <<cache, current, overlapped>> /\ ~Busy(w)
    BY DEF read_with
  <1> DEFINE r == Read(s, current[s], w, first, last)
  <1>3. current[s] \in FileVersions /\ first \in Nat /\ last \in Nat
    BY <1>0, <1>1 DEF SharedInv, FilesTyped, ChunksOf
  <1>4. r \in Reading /\ ReaderOK(r) /\ r.clean /\ r.source = s /\ r.version = current[s]
    BY <1>1, <1>3 DEF Reading, ReaderOK, Read
  <1> HIDE DEF r
  <1>5. \A v \in Readers : reader'[v] = IF v = w THEN r ELSE reader[v]
    BY <1>1 DEF SharedInv, ReadersTyped, r
  <1>6. ReadersTyped'
    BY <1>1, <1>4, <1>5 DEF SharedInv, ReadersTyped, r
  <1>7. ReadersFresh'
    BY <1>2, <1>4, <1>5 DEF SharedInv, ReadersFresh, Busy
  <1>8. CacheTyped' /\ FilesTyped' /\ SlotsFresh'
    BY <1>2 DEF SharedInv, CacheTyped, FilesTyped, SlotsFresh
  <1> QED BY <1>6, <1>7, <1>8 DEF SharedInv

(* A thread takes the bytes of a slot. *)
LEMMA ServingKeeps ==
    ASSUME SharedInv, NEW w \in Readers, reader[w] \in Reading,
           UNCHANGED <<current, overlapped>>, CacheTyped', SlotsFresh',
           NEW slot \in Slots, slot.key = KeyOf(reader[w]),
           slot.bytes = current[slot.key.source] \/ slot.key.source \in overlapped,
           reader' = [reader EXCEPT ![w] = Served(@, slot.bytes)]
    PROVE  SharedInv'
  <1> DEFINE r == reader[w]
             s == Served(r, slot.bytes)
  <1>1. ReaderOK(r)
    BY DEF SharedInv, ReadersTyped
  <1>2. /\ ReaderOK(s) /\ s.source = r.source /\ s.version = r.version
        /\ s.clean = (r.clean /\ slot.bytes = r.version)
    BY <1>1, ServedOK
  <1>3. slot.key.source = r.source
    BY DEF KeyOf
  <1>4. Busy(w)
    BY DEF Busy, Reading
  <1>5. reader' = [reader EXCEPT ![w] = s]
    OBVIOUS
  <1> HIDE DEF s
  <1>6. DOMAIN reader' = Readers /\ \A v \in Readers : reader'[v] = IF v = w THEN s ELSE reader[v]
    BY <1>5 DEF SharedInv, ReadersTyped
  <1>7. ReadersTyped'
    BY <1>2, <1>6 DEF SharedInv, ReadersTyped
  <1>8. ReadersFresh'
    <2>1. s.source \in overlapped \/ (s.version = current[s.source] /\ s.clean)
      BY <1>2, <1>3, <1>4 DEF SharedInv, ReadersFresh
    <2> QED BY <2>1, <1>6 DEF SharedInv, ReadersFresh, Busy
  <1>9. FilesTyped'
    BY DEF SharedInv, FilesTyped
  <1> QED BY <1>7, <1>8, <1>9 DEF SharedInv

(* Only the progress of a read changes. *)
LEMMA WaitingKeeps ==
    ASSUME SharedInv, NEW w \in Readers, UNCHANGED <<cache, current, overlapped>>,
           NEW r, r = Idle \/ (r \in Reading /\ \E pc \in {"read", "fill"} :
                                  reader[w] \in Reading /\ r = [reader[w] EXCEPT !.pc = pc]),
           reader' = [reader EXCEPT ![w] = r]
    PROVE  SharedInv'
  <1>1. DOMAIN reader' = Readers /\ \A v \in Readers : reader'[v] = IF v = w THEN r ELSE reader[v]
    BY DEF SharedInv, ReadersTyped
  <1>2. ReaderOK(r)
    <2>1. CASE r = Idle
      BY <2>1 DEF ReaderOK
    <2>2. CASE r # Idle
      <3>1. PICK pc \in {"read", "fill"} : reader[w] \in Reading /\ r = [reader[w] EXCEPT !.pc = pc]
        BY <2>2
      <3>2. r.chunk = reader[w].chunk /\ r.last = reader[w].last /\ r.version = reader[w].version
        BY <3>1 DEF Reading
      <3>3. reader[w] # Idle
        BY <3>1 DEF Idle, Reading
      <3>4. ReaderOK(reader[w])
        BY DEF SharedInv, ReadersTyped
      <3> QED BY <2>2, <3>2, <3>3, <3>4 DEF ReaderOK
    <2> QED BY <2>1, <2>2
  <1>3. r.pc = "idle" \/ (Busy(w) /\ r.source = reader[w].source /\ r.version = reader[w].version
                            /\ r.clean = reader[w].clean)
    BY DEF Idle, Reading, Busy
  <1>4. ReadersTyped'
    BY <1>1, <1>2 DEF SharedInv, ReadersTyped
  <1>5. ReadersFresh'
    BY <1>1, <1>3 DEF SharedInv, ReadersFresh, Busy
  <1>6. CacheTyped' /\ FilesTyped' /\ SlotsFresh'
    BY DEF SharedInv, CacheTyped, FilesTyped, SlotsFresh
  <1> QED BY <1>4, <1>5, <1>6 DEF SharedInv

(* A thread that is doing something is in a read. *)
LEMMA BusyReads ==
    ASSUME SharedInv, NEW w \in Readers, reader[w].pc # "idle"
    PROVE  reader[w] \in Reading
  BY DEF SharedInv, ReadersTyped, ReaderOK, Idle

LEMMA LookUpKeeps ==
    ASSUME SharedInv, NEW w \in Readers, LookUp(w)
    PROVE  SharedInv'
  <1>1. reader[w] \in Reading /\ UNCHANGED <<current, overlapped>>
    BY BusyReads DEF LookUp
  <1> DEFINE key == KeyOf(reader[w])
  <1>2. CASE Holds(cache, key)
    <2>1. PICK i \in 1 .. Len(cache.chunks) : cache.chunks[i].key = key
      BY <1>2 DEF Holds, SharedInv, CacheTyped, IsCache
    <2>2. cache.chunks \in Seq(Slots) /\ Distinct(cache.chunks) /\ cache.chunks[i] \in Slots
      BY DEF SharedInv, CacheTyped, IsCache
    <2>3. SlotOf(cache, key) = cache.chunks[i]
      BY <2>1, <2>2, AtIs DEF SlotOf
    <2>4. /\ cache' = Touch(cache, key)
          /\ reader' = [reader EXCEPT ![w] = Served(@, cache.chunks[i].bytes)]
      BY <1>2, <2>3 DEF LookUp
    <2>5. /\ IsCache(cache', Slots) /\ cache'.limit = cache.limit
          /\ From(cache'.chunks, cache.chunks)
      BY <2>4, TouchIs, SlotsSized DEF SharedInv, CacheTyped
    <2>6. CacheTyped' /\ SlotsFresh'
      BY <1>1, <2>5, FreshFrom DEF SharedInv, CacheTyped
    <2>7. \/ cache.chunks[i].bytes = current[cache.chunks[i].key.source]
          \/ cache.chunks[i].key.source \in overlapped
      BY DEF SharedInv, SlotsFresh
    <2> QED BY <1>1, <2>1, <2>2, <2>4, <2>6, <2>7, ServingKeeps
  <1>3. CASE ~Holds(cache, key)
    <2> DEFINE r == [reader[w] EXCEPT !.pc = "read"]
    <2>1. reader' = [reader EXCEPT ![w] = r] /\ UNCHANGED cache
      BY <1>3 DEF LookUp, SharedInv, ReadersTyped
    <2>2. r \in Reading
      BY <1>1 DEF Reading
    <2> QED BY <1>1, <2>1, <2>2, WaitingKeeps
  <1> QED BY <1>2, <1>3

LEMMA ReadInnerKeeps ==
    ASSUME SharedInv, NEW w \in Readers, ReadInner(w)
    PROVE  SharedInv'
  <1>1. reader[w] \in Reading /\ UNCHANGED <<cache, current, overlapped>>
    BY BusyReads DEF ReadInner
  <1> DEFINE r == [reader[w] EXCEPT !.pc = "fill"]
  <1>2. r \in Reading
    BY <1>1 DEF Reading
  <1>3. reader' = [reader EXCEPT ![w] = r] \/ reader' = [reader EXCEPT ![w] = Idle]
    BY DEF ReadInner
  <1> QED BY <1>1, <1>2, <1>3, WaitingKeeps

LEMMA DeliverKeeps ==
    ASSUME SharedInv, NEW w \in Readers, Deliver(w)
    PROVE  SharedInv'
  BY WaitingKeeps DEF Deliver

LEMMA FillKeeps ==
    ASSUME SharedInv, NEW w \in Readers, Fill(w)
    PROVE  SharedInv'
  <1>1. reader[w] \in Reading /\ UNCHANGED <<current, overlapped>>
    BY BusyReads DEF Fill
  <1> DEFINE r == reader[w]
  <1>2. r.chunk <= r.last /\ r.last \in ChunksOf(Length[r.version]) /\ r # Idle
    BY <1>1 DEF SharedInv, ReadersTyped, ReaderOK, Reading, Idle
  <1>3. PICK new : new = NewSlot(r)
    OBVIOUS
  <1>4. new \in Slots /\ new.len <= cache.limit /\ new.key = KeyOf(r) /\ new.bytes = r.version
    BY <1>1, <1>2, <1>3, NewSlotIs DEF NewSlot, SharedInv
  <1>5. cache' = fill_chunk(cache, new)
    BY <1>3 DEF Fill
  <1>6. IsCache(cache, Slots) /\ cache.limit \in Limits
    BY DEF SharedInv, CacheTyped
  <1>7. /\ IsCache(cache', Slots) /\ cache'.limit = cache.limit
        /\ FromOr(cache'.chunks, cache.chunks, new)
    BY <1>4, <1>5, <1>6, FillIs, SlotsSized
  <1>8. CacheTyped'
    BY <1>6, <1>7 DEF CacheTyped
  <1>9. Busy(w)
    BY <1>1 DEF Busy, Reading
  <1>10. new.bytes = current[new.key.source] \/ new.key.source \in overlapped
    BY <1>4, <1>9 DEF SharedInv, ReadersFresh, KeyOf
  <1>11. SlotsFresh'
    <2> SUFFICES ASSUME NEW i \in 1 .. Len(cache'.chunks)
                 PROVE  \/ cache'.chunks[i].bytes = current[cache'.chunks[i].key.source]
                        \/ cache'.chunks[i].key.source \in overlapped
      BY <1>1 DEF SlotsFresh
    <2>1. CASE cache'.chunks[i] = new
      BY <2>1, <1>10
    <2>2. CASE \E j \in 1 .. Len(cache.chunks) : cache'.chunks[i] = cache.chunks[j]
      BY <2>2 DEF SharedInv, SlotsFresh
    <2> QED BY <2>1, <2>2, <1>7 DEF FromOr
  <1>12. PICK i \in 1 .. Len(cache'.chunks) :
           cache'.chunks[i].key = new.key /\ SlotOf(cache', new.key) = cache'.chunks[i]
    BY <1>4, <1>5, <1>6, FillHolds, SlotsSized
  <1>13. PICK slot : slot = cache'.chunks[i]
    OBVIOUS
  <1>14. slot \in Slots
    BY <1>7, <1>13 DEF IsCache
  <1>15. slot.bytes = current[slot.key.source] \/ slot.key.source \in overlapped
    BY <1>1, <1>11, <1>13 DEF SlotsFresh
  <1>16. reader' = [reader EXCEPT ![w] = Served(@, slot.bytes)] /\ slot.key = KeyOf(reader[w])
    BY <1>4, <1>12, <1>13 DEF Fill
  <1> QED BY <1>1, <1>8, <1>11, <1>14, <1>15, <1>16, ServingKeeps

(* A file is dropped: none of its slots are left, and whoever reads it is   *)
(* known.                                                                  *)
LEMMA DroppingKeeps ==
    ASSUME SharedInv, NEW s \in SourceIds, Dropping(s), NEW v \in FileVersions \cup {Closed},
           current' = [current EXCEPT ![s] = v]
    PROVE  SharedInv'
  <1>1. UNCHANGED reader /\ cache' = drop_source(cache, s)
    BY DEF Dropping
  <1>2. overlapped' \in SUBSET SourceIds /\ overlapped \subseteq overlapped'
    BY DEF Dropping, SharedInv, FilesTyped
  <1>3. \A w \in Readers : Busy(w) /\ reader[w].source = s => s \in overlapped'
    BY DEF Dropping
  <1>4. \A q \in SourceIds : q # s => current'[q] = current[q]
    BY DEF SharedInv, FilesTyped
  <1> DEFINE keys == {key \in KeysOf(cache.chunks) : key.source = s}
  <1>5. cache' = PopAll(cache, keys)
    BY <1>1 DEF drop_source
  <1>6. /\ IsCache(cache', Slots) /\ cache'.limit = cache.limit
        /\ From(cache'.chunks, cache.chunks)
        /\ \A i \in 1 .. Len(cache'.chunks) : cache'.chunks[i].key \notin keys
    <2> HIDE DEF keys
    <2> QED BY <1>5, PopAllIs, SlotsSized DEF SharedInv, CacheTyped
  <1>7. FilesTyped' /\ CacheTyped' /\ ReadersTyped'
    BY <1>1, <1>2, <1>6 DEF SharedInv, FilesTyped, CacheTyped, ReadersTyped
  <1>8. SlotsFresh'
    <2> SUFFICES ASSUME NEW i \in 1 .. Len(cache'.chunks)
                 PROVE  \/ cache'.chunks[i].bytes = current'[cache'.chunks[i].key.source]
                        \/ cache'.chunks[i].key.source \in overlapped'
      BY DEF SlotsFresh
    <2>1. PICK j \in 1 .. Len(cache.chunks) : cache'.chunks[i] = cache.chunks[j]
      BY <1>6 DEF From
    <2>2. cache.chunks[j] \in Slots
      BY DEF SharedInv, CacheTyped, IsCache
    <2>3. cache.chunks[j].key \in KeysOf(cache.chunks)
      BY DEF KeysOf
    <2>4. cache.chunks[j].key.source \in SourceIds \ {s}
      BY <1>6, <2>1, <2>2, <2>3 DEF Slots
    <2>5. \/ cache.chunks[j].bytes = current[cache.chunks[j].key.source]
          \/ cache.chunks[j].key.source \in overlapped
      BY DEF SharedInv, SlotsFresh
    <2> QED BY <1>2, <1>4, <2>1, <2>4, <2>5
  <1>9. ReadersFresh'
    <2> SUFFICES ASSUME NEW w \in Readers, Busy(w)
                 PROVE  \/ reader[w].source \in overlapped'
                        \/ reader[w].version = current'[reader[w].source] /\ reader[w].clean
      BY <1>1 DEF ReadersFresh, Busy
    <2>1. reader[w].source \in SourceIds
      BY BusyReads DEF Busy, Reading
    <2>2. CASE reader[w].source = s
      BY <1>3, <2>2
    <2>3. CASE reader[w].source # s
      BY <1>2, <1>4, <2>1, <2>3 DEF SharedInv, ReadersFresh
    <2> QED BY <2>2, <2>3
  <1> QED BY <1>7, <1>8, <1>9 DEF SharedInv

LEMMA SetLimitKeeps ==
    ASSUME SharedInv, SetLimit
    PROVE  SharedInv'
  <1>1. PICK limit \in Limits : cache' = set_limit(cache, limit)
    BY DEF SetLimit
  <1>2. UNCHANGED <<current, reader, overlapped>> /\ limit \in Nat
    BY CacheConstants DEF SetLimit
  <1>3. IsCache(cache', Slots) /\ cache'.limit = limit /\ From(cache'.chunks, cache.chunks)
    BY <1>1, <1>2, LimitIs, SlotsSized DEF SharedInv, CacheTyped
  <1>4. SlotsFresh'
    BY <1>2, <1>3, FreshFrom DEF SharedInv
  <1> QED BY <1>2, <1>3, <1>4 DEF SharedInv, CacheTyped, FilesTyped, ReadersTyped, ReadersFresh, Busy

LEMMA SharedStep == SharedInv /\ [SharedNext]_sharedVars => SharedInv'
  <1> SUFFICES ASSUME SharedInv, [SharedNext]_sharedVars PROVE SharedInv'
    OBVIOUS
  <1>1. CASE UNCHANGED sharedVars
    BY <1>1 DEF sharedVars, SharedInv, CacheTyped, FilesTyped, ReadersTyped, SlotsFresh,
                ReadersFresh, Busy
  <1>2. ASSUME NEW w \in Readers, read_with(w) \/ LookUp(w) \/ ReadInner(w) \/ Fill(w) \/ Deliver(w)
        PROVE  SharedInv'
    BY <1>2, read_withKeeps, LookUpKeeps, ReadInnerKeeps, FillKeeps, DeliverKeeps
  <1>3. ASSUME NEW s \in SourceIds, Reload(s) PROVE SharedInv'
    BY <1>3, DroppingKeeps DEF Reload
  <1>4. ASSUME NEW s \in SourceIds, Close(s) PROVE SharedInv'
    BY <1>4, DroppingKeeps DEF Close
  <1>5. CASE SetLimit
    BY <1>5, SetLimitKeeps
  <1> QED BY <1>1, <1>2, <1>3, <1>4, <1>5 DEF SharedNext

LEMMA SharedAlways == SharedSpec => []SharedInv
  <1>1. SharedInit => SharedInv
    BY SharedInitially
  <1>2. SharedInv /\ [SharedNext]_sharedVars => SharedInv'
    BY SharedStep
  <1> QED BY <1>1, <1>2, PTL DEF SharedSpec

(* No stale bytes without an overlapping read: Dropping a source leaves     *)
(* nothing of it behind, and a slot or a read holds other bytes than the    *)
(* tab shows only when a read of that source was under way at a drop        *)
(* (fetch_chunk, drop_source).                                             *)
THEOREM StaleOnlyAfterOverlapAlways == SharedSpec => []StaleOnlyAfterOverlap
  <1>1. SharedInv => StaleOnlyAfterOverlap
    <2> SUFFICES ASSUME SharedInv PROVE StaleOnlyAfterOverlap
      OBVIOUS
    <2>1. DOMAIN cache.chunks = 1 .. Len(cache.chunks)
      BY DEF SharedInv, CacheTyped, IsCache
    <2> QED BY <2>1 DEF SharedInv, SlotsFresh, ReadersFresh, StaleOnlyAfterOverlap
  <1> QED BY <1>1, SharedAlways, PTL

-----------------------------------------------------------------------------
(* The books and the budget, as long as the LruCache stays below its own   *)
(* bound on the entries.  At that bound it drops entries by itself and the *)
(* books keep counting them.                                               *)

BelowCapacity == ~Full(cache)

BooksInv == AccountsBalance /\ WithinBudget

(* What a step does to the cache. *)
LEMMA CacheSteps ==
    ASSUME [SharedNext]_sharedVars
    PROVE  \/ UNCHANGED cache
           \/ \E key : cache' = Touch(cache, key)
           \/ \E w \in Readers : Fill(w)
           \/ \E s \in SourceIds : Dropping(s)
           \/ SetLimit
  <1>1. ASSUME NEW w \in Readers, read_with(w) \/ ReadInner(w) \/ Deliver(w)
        PROVE  UNCHANGED cache
    BY <1>1 DEF read_with, ReadInner, Deliver
  <1>2. ASSUME NEW w \in Readers, LookUp(w)
        PROVE  UNCHANGED cache \/ \E key : cache' = Touch(cache, key)
    BY <1>2 DEF LookUp
  <1>3. ASSUME NEW s \in SourceIds, Reload(s) \/ Close(s)
        PROVE  Dropping(s)
    BY <1>3 DEF Reload, Close
  <1> QED BY <1>1, <1>2, <1>3 DEF SharedNext, sharedVars

(* A fill is of a slot that fits. *)
LEMMA FillsASlot ==
    ASSUME SharedInv, NEW w \in Readers, Fill(w)
    PROVE  \E new \in Slots : new.len <= cache.limit /\ cache' = fill_chunk(cache, new)
  <1>1. reader[w] \in Reading
    BY BusyReads DEF Fill
  <1>2. /\ reader[w].chunk <= reader[w].last
        /\ reader[w].last \in ChunksOf(Length[reader[w].version])
    BY <1>1 DEF SharedInv, ReadersTyped, ReaderOK, Reading, Idle
  <1>3. PICK new : new = NewSlot(reader[w])
    OBVIOUS
  <1>4. new \in Slots /\ new.len <= cache.limit
    BY <1>1, <1>2, <1>3, NewSlotIs DEF SharedInv
  <1> QED BY <1>3, <1>4 DEF Fill

LEMMA BooksInitially == SharedInit => BooksInv
  <1> SUFFICES ASSUME SharedInit PROVE BooksInv
    OBVIOUS
  <1>1. PICK limit \in Limits : cache = EmptyCache(limit)
    BY DEF SharedInit
  <1>2. IsCache(cache, Slots)
    BY SharedInitially DEF SharedInv, CacheTyped
  <1>3. /\ cache.chunks = << >> /\ cache.used_bytes = 0 /\ cache.limit \in Nat
        /\ DOMAIN cache.bytes_by_attribution = {}
    BY <1>1, CacheConstants DEF EmptyCache
  <1>4. BytesHeld(<< >>) = 0 /\ \A b : BytesFor(<< >>, b) = 0
    <2> SUFFICES ASSUME NEW b PROVE BytesHeld(<< >>) = 0 /\ BytesFor(<< >>, b) = 0
      OBVIOUS
    <2>1. PICK e : e = << >>
      OBVIOUS
    <2>2. e \in Seq(Slots) /\ Len(e) = 0 /\ 1 .. 0 = {}
      BY <2>1
    <2>3. BytesFor(e, b) = 0
      <3>1. ~ \E i \in 1 .. Len(e) : Bucket(e[i]) = b
        BY <2>2
      <3> QED BY <2>2, <3>1, ForPositive, SlotsSized
    <2>4. BytesHeld(e) = 0
      BY <2>2, HeldNone
    <2> QED BY <2>1, <2>3, <2>4
  <1>5. BooksBalance(cache)
    BY <1>2, <1>3, <1>4, BooksAre, SlotsSized
  <1> QED BY <1>3, <1>5 DEF BooksInv, AccountsBalance, WithinBudget

LEMMA BooksStep ==
    ASSUME SharedInv, BooksInv, BelowCapacity', [SharedNext]_sharedVars
    PROVE  BooksInv'
  <1>1. IsCache(cache, Slots) /\ cache.limit \in Limits
    BY DEF SharedInv, CacheTyped
  <1>2. BooksBalance(cache) /\ cache.used_bytes <= cache.limit /\ ~Full(cache')
    BY DEF BooksInv, AccountsBalance, WithinBudget, BelowCapacity
  <1>3. SUFFICES BooksBalance(cache') /\ cache'.used_bytes <= cache'.limit
    BY DEF BooksInv, AccountsBalance, WithinBudget
  <1>4. CASE UNCHANGED cache
    BY <1>2, <1>4
  <1>5. ASSUME NEW key, cache' = Touch(cache, key)
        PROVE  BooksBalance(cache') /\ cache'.used_bytes <= cache'.limit
    BY <1>1, <1>2, <1>5, TouchIs, SlotsSized
  <1>6. ASSUME NEW w \in Readers, Fill(w)
        PROVE  BooksBalance(cache') /\ cache'.used_bytes <= cache'.limit
    <2>1. PICK new \in Slots : new.len <= cache.limit /\ cache' = fill_chunk(cache, new)
      BY <1>6, FillsASlot
    <2> QED BY <1>1, <1>2, <2>1, FillIs, SlotsSized
  <1>7. ASSUME NEW s \in SourceIds, Dropping(s)
        PROVE  BooksBalance(cache') /\ cache'.used_bytes <= cache'.limit
    <2>1. PICK keys : keys = {key \in KeysOf(cache.chunks) : key.source = s}
      OBVIOUS
    <2>2. cache' = PopAll(cache, keys)
      BY <1>7, <2>1 DEF Dropping, drop_source
    <2>3. BooksBalance(cache') /\ cache'.limit = cache.limit /\ IsCache(cache', Slots)
      BY <1>1, <1>2, <2>2, PopAllIs, SlotsSized
    <2>4. cache'.used_bytes <= cache.used_bytes
      BY <1>1, <2>2, PopAllLess, SlotsSized
    <2>5. cache.used_bytes \in Nat /\ cache'.used_bytes \in Nat /\ cache.limit \in Nat
      BY <1>1, <2>3 DEF IsCache
    <2> QED BY <1>2, <2>3, <2>4, <2>5
  <1>8. CASE SetLimit
    <2>1. PICK limit \in Limits : cache' = set_limit(cache, limit)
      BY <1>8 DEF SetLimit
    <2>2. limit \in Nat
      BY CacheConstants
    <2> QED BY <1>1, <1>2, <2>1, <2>2, LimitIs, SlotsSized
  <1> QED BY <1>4, <1>5, <1>6, <1>7, <1>8, CacheSteps

LEMMA BooksAlways == SharedSpec /\ []BelowCapacity => []BooksInv
  <1>1. SharedInit => BooksInv
    BY BooksInitially
  <1>2. SharedInv /\ BooksInv /\ BelowCapacity' /\ [SharedNext]_sharedVars => BooksInv'
    BY BooksStep
  <1> QED BY <1>1, <1>2, SharedAlways, PTL DEF SharedSpec

(* While the LruCache is below its bound on entries, used_bytes and the     *)
(* per-view tally are what the map holds, whatever reads, drops and changes *)
(* of the budget interleave (fetch_chunk, drop_source, set_limit).          *)
THEOREM AccountsBalanceBelowCapacity == SharedSpec /\ []BelowCapacity => []AccountsBalance
  <1>1. BooksInv => AccountsBalance
    BY DEF BooksInv
  <1> QED BY <1>1, BooksAlways, PTL

(* And then used_bytes never passes the budget, also for threads that       *)
(* missed the same chunk together and under a budget that shrinks.          *)
THEOREM WithinBudgetBelowCapacity == SharedSpec /\ []BelowCapacity => []WithinBudget
  <1>1. BooksInv => WithinBudget
    BY DEF BooksInv
  <1> QED BY <1>1, BooksAlways, PTL

-----------------------------------------------------------------------------
(* What the map really holds, with no hypothesis. *)

HeldInv == Covered(cache) /\ BytesHeld(cache.chunks) <= cache.limit

LEMMA HeldStep ==
    ASSUME SharedInv, HeldInv, [SharedNext]_sharedVars
    PROVE  HeldInv'
  <1>1. IsCache(cache, Slots) /\ cache.limit \in Limits /\ cache.limit \in Nat
    BY DEF SharedInv, CacheTyped, IsCache
  <1>2. Covered(cache) /\ BytesHeld(cache.chunks) <= cache.limit
    BY DEF HeldInv
  <1>3. SUFFICES Covered(cache') /\ BytesHeld(cache'.chunks) <= cache'.limit
    BY DEF HeldInv, Covered
  <1>4. CASE UNCHANGED cache
    BY <1>2, <1>4
  <1>5. ASSUME NEW key, cache' = Touch(cache, key)
        PROVE  Covered(cache') /\ BytesHeld(cache'.chunks) <= cache'.limit
    <2>1. cache'.limit = cache.limit /\ cache'.used_bytes = cache.used_bytes
      BY <1>1, <1>5, TouchIs, SlotsSized
    <2>2. BytesHeld(cache'.chunks) = BytesHeld(cache.chunks)
      BY <1>1, <1>5, TouchHeld, SlotsSized
    <2> QED BY <1>2, <2>1, <2>2 DEF Covered
  <1>6. ASSUME NEW w \in Readers, Fill(w)
        PROVE  Covered(cache') /\ BytesHeld(cache'.chunks) <= cache'.limit
    <2>1. PICK new \in Slots : new.len <= cache.limit /\ cache' = fill_chunk(cache, new)
      BY <1>6, FillsASlot
    <2> QED BY <1>1, <1>2, <2>1, FillHeld, SlotsSized
  <1>7. ASSUME NEW s \in SourceIds, Dropping(s)
        PROVE  Covered(cache') /\ BytesHeld(cache'.chunks) <= cache'.limit
    <2>1. PICK keys : keys = {key \in KeysOf(cache.chunks) : key.source = s}
      OBVIOUS
    <2>2. cache' = PopAll(cache, keys)
      BY <1>7, <2>1 DEF Dropping, drop_source
    <2>3. cache'.limit = cache.limit /\ IsCache(cache', Slots)
      BY <1>1, <2>2, PopAllIs, SlotsSized
    <2>4. Covered(cache') /\ BytesHeld(cache'.chunks) <= BytesHeld(cache.chunks)
      BY <1>1, <1>2, <2>2, PopAllCovers, SlotsSized
    <2>5. BytesHeld(cache.chunks) \in Nat /\ BytesHeld(cache'.chunks) \in Nat
      BY <1>1, <2>3, HeldType, SlotsSized DEF IsCache
    <2> QED BY <1>1, <1>2, <2>3, <2>4, <2>5
  <1>8. CASE SetLimit
    <2>1. PICK limit \in Limits : cache' = set_limit(cache, limit)
      BY <1>8 DEF SetLimit
    <2>2. limit \in Nat
      BY CacheConstants
    <2> QED BY <1>1, <1>2, <2>1, <2>2, LimitHeld, SlotsSized
  <1> QED BY <1>4, <1>5, <1>6, <1>7, <1>8, CacheSteps

(* Whatever the LruCache drops by itself and the books go on counting, the  *)
(* bytes in the map are never more than the budget (fetch_chunk, set_limit, *)
(* lru_capacity_for), nor more than used_bytes.                            *)
THEOREM HeldWithinBudget == SharedSpec => [](BytesHeld(cache.chunks) <= cache.limit)
  <1>1. SharedInit => HeldInv
    <2> SUFFICES ASSUME SharedInit PROVE HeldInv
      OBVIOUS
    <2>1. PICK limit \in Limits : cache = EmptyCache(limit)
      BY DEF SharedInit
    <2>2. Len(cache.chunks) = 0 /\ cache.used_bytes = 0 /\ cache.limit \in Nat
      BY <2>1, CacheConstants DEF EmptyCache
    <2> QED BY <2>2, HeldNone DEF HeldInv, Covered
  <1>2. SharedInv /\ HeldInv /\ [SharedNext]_sharedVars => HeldInv'
    BY HeldStep
  <1>3. HeldInv => BytesHeld(cache.chunks) <= cache.limit
    BY DEF HeldInv
  <1> QED BY <1>1, <1>2, <1>3, SharedAlways, PTL DEF SharedSpec

=============================================================================

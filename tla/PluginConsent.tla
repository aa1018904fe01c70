-------------------------- MODULE PluginConsent --------------------------
(***************************************************************************)
(* What a plugin may do: hxy-plugin-host's grants and loader, the consent  *)
(* switches, install, delete and uninstall of both front ends, and the     *)
(* plugin operations that outlive a change of consent.                     *)
(*                                                                         *)
(* One plugin name.  A record of consent is kept per version (map_key has  *)
(* the name and the version, not the bytes), in one map that every front   *)
(* end loads whole when it starts and writes whole when it saves.  The     *)
(* powers of a handler are fixed when it is loaded; operations and mounts  *)
(* keep the handler they began with, whatever is loaded after it.          *)
(*                                                                         *)
(* A record is a set of sets of permissions: {} when there is none, {S}    *)
(* when S is what it allows.                                               *)
(***************************************************************************)
EXTENDS Naturals, FiniteSets

CONSTANTS
    Fronts,       \* front-end processes, sharing one database and one plugin directory
    Egui,         \* those of them that are the egui build
    Manifests,    \* sidecar manifests the plugin may have, one of them NoManifest
    NoManifest,   \* the plugin without a sidecar: it asks for nothing
    Version,      \* the version each manifest states
    Requested,    \* the permissions each manifest asks for
    Perms,        \* persist, commands and the network patterns
    Commands,     \* the permission to be asked for palette commands
    MaxSwitches,  \* bound on the number of consent switches flipped
    MaxOps        \* bound on the front ends with an operation or a mount at once

Versions == {Version[m] : m \in Manifests}

ASSUME ManifestAssumption ==
    /\ Egui \subseteq Fronts
    /\ NoManifest \in Manifests
    /\ Requested \in [Manifests -> SUBSET Perms]
    /\ Requested[NoManifest] = {}
    /\ Commands \in Perms
    /\ MaxSwitches \in Nat
    /\ MaxOps \in Nat

VARIABLES
    wasm,       \* is the component in the plugin directory?
    manifest,   \* the sidecar beside it
    db,         \* the grants in the database
    up,         \* front ends that run
    grants,     \* the grants each front end has in memory
    handler,    \* what each front end has loaded: at most one handler
    op,         \* the operation or mount each front end has, at most one
    switches,   \* consent switches flipped so far
    approved,   \* permissions the user has ever switched on
    settled     \* decisions that were the only ones being made and reached the database

consentVars == <<wasm, manifest, db, up, grants, handler, op, switches, approved, settled>>

Grants == [Versions -> SUBSET SUBSET Perms]
NoGrants == [v \in Versions |-> {}]
Handlers == [manifest : Manifests, powers : SUBSET Perms]
Stages == {"running", "prompt", "mounting", "failed", "mounted"}
Ops == [stage : Stages, powers : SUBSET Perms]

ConsentInit ==
    /\ wasm = FALSE
    /\ manifest = NoManifest
    /\ db = NoGrants
    /\ up = {}
    /\ grants = [f \in Fronts |-> NoGrants]
    /\ handler = [f \in Fronts |-> {}]
    /\ op = [f \in Fronts |-> {}]
    /\ switches = 0
    /\ approved = {}
    /\ settled = {}

----------------------------------------------------------------------------
(* The store and the loader *)

HasRecord(G, v) == G[v] # {}

\* Bug: a version's own record does not overrule the others.
get_merged(G, v) == UNION UNION {G[w] : w \in Versions}

\* The record of this version, or the union of the records of every version.
get(G, v) ==
    UNION IF HasRecord(G, v) THEN G[v] ELSE UNION {G[w] : w \in Versions}

set(G, v, perms) == [G EXCEPT ![v] = {perms}]
forget(G, v) == [G EXCEPT ![v] = {}]

\* Bug: what was granted counts, asked for or not.
intersect_dropped(granted, requested) == granted

intersect(granted, requested) == granted \cap requested

\* What a directory with this component and this sidecar loads, under these grants.
load_single(G, m) ==
    {[manifest |-> m, powers |-> intersect(get(G, Version[m]), Requested[m])]}

\* Reading the directory, the component or the sidecar, compiling it and probing it
\* may each fail: then there is no handler.
reload_plugins(f, G, present, m) ==
    \E loaded \in {{}} \cup (IF present THEN {load_single(G, m)} ELSE {}) :
        handler' = [handler EXCEPT ![f] = loaded]

----------------------------------------------------------------------------
(* Front ends come and go *)

\* init: the grants are read whole; a failed read starts with none granted, and the
\* next save writes that over what could not be read.
Start(f) ==
    /\ f \notin up
    /\ up' = up \cup {f}
    /\ \E read \in {db, NoGrants} :
        /\ grants' = [grants EXCEPT ![f] = read]
        /\ settled' = IF read = db THEN settled ELSE {}
        /\ reload_plugins(f, read, wasm, manifest)
    /\ UNCHANGED <<wasm, manifest, db, op, switches, approved>>

Quit(f) ==
    /\ f \in up
    /\ up' = up \ {f}
    /\ grants' = [grants EXCEPT ![f] = NoGrants]
    /\ handler' = [handler EXCEPT ![f] = {}]
    /\ op' = [op EXCEPT ![f] = {}]
    /\ UNCHANGED <<wasm, manifest, db, switches, approved, settled>>

\* Any change of egui's state saves all of it, the grants it has in memory included.
SaveState(f) ==
    /\ f \in up \cap Egui
    /\ db' = grants[f]
    /\ UNCHANGED <<wasm, manifest, up, grants, handler, op, switches, approved, settled>>

----------------------------------------------------------------------------
(* The consent switches *)

apply_permission(granted, perm, value) ==
    IF value THEN granted \cup {perm} ELSE granted \ {perm}

\* What a flipped switch settles.  It replaces what was settled for this permission,
\* and drops the approvals of permissions this build does not ask for: the new record
\* starts from the handler's powers.  A decision is settled when it was written and
\* no other front end, with its own map, was running.
Settle(f, v, m, perm, value, written) ==
    {s \in settled : ~ (s.version = v /\ (s.perm = perm \/ (s.value /\ s.perm \notin Requested[m])))}
        \cup (IF written /\ up = {f} THEN {[version |-> v, perm |-> perm, value |-> value]} ELSE {})

\* The switch of one permission the loaded handler asks for.
set_grant(f, perm, value) ==
    /\ f \in up
    /\ switches < MaxSwitches
    /\ switches' = switches + 1
    /\ \E h \in handler[f], written \in BOOLEAN :
        LET v == Version[h.manifest]
            all == set(grants[f], v, apply_permission(h.powers, perm, value))
        IN  /\ perm \in Requested[h.manifest]
            /\ value = (perm \notin h.powers)
            /\ grants' = [grants EXCEPT ![f] = all]
            /\ db' = IF written THEN all ELSE db
            /\ reload_plugins(f, all, wasm, manifest)
            /\ approved' = IF value THEN approved \cup {perm} ELSE approved
            /\ settled' = Settle(f, v, h.manifest, perm, value, written)
    /\ UNCHANGED <<wasm, manifest, up, op>>

----------------------------------------------------------------------------
(* The plugin directory *)

\* The user puts a sidecar beside the component, or takes it away: no front end knows.
PlaceManifest(m) ==
    /\ m # manifest
    /\ manifest' = m
    /\ UNCHANGED <<wasm, db, up, grants, handler, op, switches, approved, settled>>

\* install_to copies the component alone.
Install(f) ==
    /\ f \in up
    /\ wasm' = TRUE
    /\ reload_plugins(f, grants[f], TRUE, manifest)
    /\ UNCHANGED <<manifest, db, up, grants, op, switches, approved, settled>>

\* The panel's Delete removes the component: the sidecar and the record stay.
Delete(f) ==
    /\ f \in up
    /\ wasm
    /\ wasm' = FALSE
    /\ reload_plugins(f, grants[f], FALSE, manifest)
    /\ UNCHANGED <<manifest, db, up, grants, op, switches, approved, settled>>

Rescan(f) ==
    /\ f \in up
    /\ reload_plugins(f, grants[f], wasm, manifest)
    /\ UNCHANGED <<wasm, manifest, db, up, grants, op, switches, approved, settled>>

\* egui's palette: component, sidecar (its removal may fail) and record, which is only
\* looked for when the component could be read, and saved when there was one.
uninstall_plugin(f) ==
    /\ f \in up \cap Egui
    /\ wasm
    /\ wasm' = FALSE
    /\ manifest' \in {manifest, NoManifest}
    /\ \E readable, written \in BOOLEAN :
        LET v == Version[manifest]
            all == IF readable THEN forget(grants[f], v) ELSE grants[f]
        IN  /\ grants' = [grants EXCEPT ![f] = all]
            /\ db' = IF written /\ all # grants[f] THEN all ELSE db
            /\ reload_plugins(f, all, FALSE, manifest)
            /\ settled' = IF readable THEN {s \in settled : s.version # v} ELSE settled
    /\ UNCHANGED <<up, op, switches, approved>>

----------------------------------------------------------------------------
(* Operations: each keeps the powers of the handler it was given *)

MayBegin(f) ==
    /\ op[f] = {}
    /\ Cardinality({g \in Fronts : op[g] # {}}) < MaxOps

Running(stage, powers) == {[stage |-> stage, powers |-> powers]}

\* A palette command: the handler refuses without the commands permission.
Invoke(f) ==
    /\ MayBegin(f)
    /\ \E h \in handler[f] :
        /\ Commands \in h.powers
        /\ op' = [op EXCEPT ![f] = Running("running", h.powers)]
    /\ UNCHANGED <<wasm, manifest, db, up, grants, handler, switches, approved, settled>>

\* finish_invoke: done, a cascade or a trap ends it; a prompt keeps the plugin's name
\* only; a mount runs on with the same handler.
FinishInvoke(f) ==
    /\ \E o \in op[f] :
        /\ o.stage = "running"
        /\ \E next \in {{}, Running("prompt", {}), Running("mounting", o.powers)} :
            op' = [op EXCEPT ![f] = next]
    /\ UNCHANGED <<wasm, manifest, db, up, grants, handler, switches, approved, settled>>

\* The prompt's answer goes to whatever handler has the name now, if any.
Respond(f) ==
    /\ \E o \in op[f] : o.stage = "prompt"
    /\ \E next \in {Running("running", h.powers) : h \in {g \in handler[f] : Commands \in g.powers}}
                   \cup (IF \E h \in handler[f] : Commands \in h.powers THEN {} ELSE {{}}) :
        op' = [op EXCEPT ![f] = next]
    /\ UNCHANGED <<wasm, manifest, db, up, grants, handler, switches, approved, settled>>

\* finish_mount: a tab, a failure, or a failure whose toast keeps the handler for a retry.
FinishMount(f) ==
    /\ \E o \in op[f] :
        /\ o.stage = "mounting"
        /\ \E next \in {{}, Running("failed", o.powers), Running("mounted", o.powers)} :
            op' = [op EXCEPT ![f] = next]
    /\ UNCHANGED <<wasm, manifest, db, up, grants, handler, switches, approved, settled>>

RetryMount(f) ==
    /\ \E o \in op[f] :
        /\ o.stage = "failed"
        /\ op' = [op EXCEPT ![f] = Running("mounting", o.powers)]
    /\ UNCHANGED <<wasm, manifest, db, up, grants, handler, switches, approved, settled>>

\* A file the plugin recognises is mounted without the commands permission.
MountFile(f) ==
    /\ MayBegin(f)
    /\ \E h \in handler[f] : op' = [op EXCEPT ![f] = Running("mounted", h.powers)]
    /\ UNCHANGED <<wasm, manifest, db, up, grants, handler, switches, approved, settled>>

\* The palette is left, the toast dismissed or the mount's tab closed.
Dismiss(f) ==
    /\ \E o \in op[f] : o.stage \in {"prompt", "failed", "mounted"}
    /\ op' = [op EXCEPT ![f] = {}]
    /\ UNCHANGED <<wasm, manifest, db, up, grants, handler, switches, approved, settled>>

OpStep(f) ==
    \/ Invoke(f) \/ FinishInvoke(f) \/ Respond(f) \/ FinishMount(f)
    \/ RetryMount(f) \/ MountFile(f) \/ Dismiss(f)

ConsentNext ==
    \/ \E f \in Fronts :
        \/ Start(f) \/ Quit(f) \/ SaveState(f)
        \/ \E perm \in Perms, value \in BOOLEAN : set_grant(f, perm, value)
        \/ Install(f) \/ Delete(f) \/ Rescan(f) \/ uninstall_plugin(f)
        \/ OpStep(f)
    \/ \E m \in Manifests : PlaceManifest(m)

ConsentSpec == ConsentInit /\ [][ConsentNext]_consentVars

----------------------------------------------------------------------------
(* Properties *)

\* Types of the directory, the database and what each front end keeps (plugins.rs, the
\* globals of the grants and the handlers).
ConsentTypeOK ==
    /\ wasm \in BOOLEAN
    /\ manifest \in Manifests
    /\ db \in Grants
    /\ up \subseteq Fronts
    /\ grants \in [Fronts -> Grants]
    /\ handler \in [Fronts -> SUBSET Handlers]
    /\ op \in [Fronts -> SUBSET Ops]
    /\ switches \in Nat
    /\ approved \subseteq Perms
    /\ settled \subseteq [version : Versions, perm : Perms, value : BOOLEAN]

\* Whatever versions, sidecars, front ends and failed reads a plugin goes through
\* (grants.rs get and intersect, registry.rs load_single), a handler has only powers
\* that its own manifest asks for and that the user has at some time switched on; and
\* an operation or a mount, which may have outlived its handler, has only powers that
\* were switched on.
PowersWereApproved ==
    \A f \in Fronts :
        /\ \A h \in handler[f] : h.powers \subseteq Requested[h.manifest] \cap approved
        /\ \A o \in op[f] : o.powers \subseteq approved

\* A decision about a permission of a version, once written by the only front end
\* running, decides every handler of that version that asks for it, in every front end
\* and after every restart, install and delete (grants.rs get, set; plugins.rs
\* set_grant; desktop.rs apply_plugin_events), until the user decides again, forgets
\* the version, or a front end fails to read the map.
DecisionsHold ==
    \A f \in Fronts : \A h \in handler[f] : \A s \in settled :
        (s.version = Version[h.manifest] /\ s.perm \in Requested[h.manifest])
            => (s.perm \in h.powers <=> s.value)
==========================================================================

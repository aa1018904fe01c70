------------------------------ MODULE MCStores ------------------------------
(***************************************************************************)
(* What several actors keep in one place: the byte cache of the threads,   *)
(* the consent records of the front ends, the snapshot directories of the  *)
(* tabs.  The three share no state, so a behaviour takes the steps of one  *)
(* of them.                                                                *)
(*                                                                         *)
(* Cache: two threads and two files of two chunks.  Consent: one gpui and  *)
(* one egui front end, two permissions, and three sidecars: two builds of  *)
(* version 1 that ask for different things, and version 2.  Snapshots: two *)
(* tabs, an archive and its entry, one content that is cached and one that *)
(* is too large.                                                           *)
(***************************************************************************)
EXTENDS SharedCache, PluginConsent, Snapshots

CONSTANTS gpui, egui, none, first, rebuilt, second, commands, network,
          archive, entry, other, large, little

VARIABLE focus

\* The second version of a file is longer: its last chunk is a full one.
MCLength == <<3, 4>>

MCFronts == {gpui, egui}
MCEgui == {egui}
MCManifests == {none, first, rebuilt, second}
MCPerms == {commands, network}
MCVersion == [m \in MCManifests |-> CASE m = none -> 0 [] m = second -> 2 [] OTHER -> 1]
MCRequested ==
    [m \in MCManifests |->
        CASE m = none -> {} [] m \in {first, second} -> {commands} [] OTHER -> MCPerms]

MCRoot == [s \in Sources |-> archive]

StoresInit ==
    /\ focus \in {"cache", "consent", "snapshots"}
    /\ SharedInit /\ (focus # "cache" => cache.limit = CHOOSE l \in Limits : TRUE)
    /\ ConsentInit
    /\ SnapInit /\ (focus # "snapshots" => is_egui /\ based)

StoresNext ==
    /\ UNCHANGED focus
    /\ \/ focus = "cache" /\ SharedNext /\ UNCHANGED <<consentVars, snapVars>>
       \/ focus = "consent" /\ ConsentNext /\ UNCHANGED <<sharedVars, snapVars>>
       \/ focus = "snapshots" /\ SnapNext /\ UNCHANGED <<sharedVars, consentVars>>

StoresSpec ==
    StoresInit /\ [][StoresNext]_<<focus, sharedVars, consentVars, snapVars>>
=============================================================================

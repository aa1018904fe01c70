----------------------------- MODULE MCAppLife -----------------------------
(***************************************************************************)
(* What outlives a process: the sidecars of one program's files from run to *)
(* run, and the requests of launches that come and go.  The two share no    *)
(* state, so a behaviour takes the steps of one of them.  Where a part is   *)
(* left in its initial state none of its fair actions is enabled.          *)
(***************************************************************************)
EXTENDS MCFileSession, SingleInstance

CONSTANTS first, second, third

VARIABLE focus

ThreeProcs == {first, second, third}

(* Bound: the system opens a file with two of the processes. *)
OpenWithBound == OpenWith(third) \notin asked

LifeInit ==
    /\ focus \in {"session", "launches"}
    /\ SessionInit
    /\ InstanceInit /\ (focus = "session" => namespace = "kernel")

LifeNext ==
    /\ UNCHANGED focus
    /\ \/ focus = "session" /\ SessionNext /\ UNCHANGED instanceVars
       \/ focus = "launches" /\ InstanceNext /\ OpenWithBound' /\ UNCHANGED sessionVars

LifeSpec ==
    /\ LifeInit
    /\ [][LifeNext]_<<focus, sessionVars, instanceVars>>
    /\ SessionFairness
    /\ InstanceFairness

=============================================================================

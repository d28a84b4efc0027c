--------------------------- MODULE ReleaseSwitch ---------------------------
(***************************************************************************)
(* What the release manager promises about the release that is active      *)
(* (docs/PORTABLE_DISTRIBUTION.md, "Update" and "Rollback"), without files,*)
(* links and signatures: only a release that is there is activated, in one *)
(* step; what was active before is then recorded as the one to fall back   *)
(* to; and a failure between the two loses that record, and nothing else.  *)
(***************************************************************************)
CONSTANTS Releases, None

VARIABLES
    available,    \* the releases that can be activated
    active,       \* the active release
    fallback,     \* the release that a rollback activates
    unrecorded    \* what was active before a switch that is not recorded yet:
                  \* at most one release or None

switchVars == <<available, active, fallback, unrecorded>>

Init ==
    /\ available = {}
    /\ active = None
    /\ fallback = None
    /\ unrecorded = {}

Add(v) ==
    /\ v \notin available
    /\ available' = available \cup {v}
    /\ UNCHANGED <<active, fallback, unrecorded>>

Activate(v) ==
    /\ unrecorded = {}
    /\ v \in available
    /\ v # active \/ v = fallback
    /\ active' = v
    /\ unrecorded' = {active}
    /\ UNCHANGED <<available, fallback>>

Record ==
    /\ unrecorded # {}
    /\ fallback' \in unrecorded
    /\ unrecorded' = {}
    /\ UNCHANGED <<available, active>>

Lose ==
    /\ unrecorded # {}
    /\ unrecorded' = {}
    /\ UNCHANGED <<available, active, fallback>>

Next == Record \/ Lose \/ \E v \in Releases : Add(v) \/ Activate(v)

Spec == Init /\ [][Next]_switchVars

=============================================================================

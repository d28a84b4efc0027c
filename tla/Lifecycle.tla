----------------------------- MODULE Lifecycle -----------------------------
(***************************************************************************)
(* The release manager src/deploy/wumbosdctl: install, update and rollback *)
(* as sequences of durable file system steps, any of which may be the last *)
(* before the tool fails or is killed; and what the next run makes of it.  *)
(*                                                                         *)
(* Simplifications:                                                        *)
(*  - one run at a time: the tool takes no lock, parallel runs are not     *)
(*    modelled.  Files may be edited while it runs;                        *)
(*  - every write that the tool makes atomic (rename and fsync) is a step, *)
(*    the reads before it are part of that step; temporary files and the   *)
(*    staging tree are left out;                                           *)
(*  - a call that is refused before it has changed anything is no step;    *)
(*  - a release is known by the digest of its artifact;                    *)
(*  - the targets stand for the unit files; the D-Bus activation file is   *)
(*    deployed like them, and reloading it, which may be put off, is left  *)
(*    out.                                                                 *)
(***************************************************************************)
EXTENDS Naturals, Functions

CONSTANTS
    Versions, Digests, Anchors, Targets, Contents,
    None, Absent,
    WellFormed,   \* digests of artifacts whose members pass validation
    VersionOf,    \* the version in the RELEASE file of an artifact
    Payload,      \* the files that an artifact has for the targets
    MaxCrashes,   \* bound: runs that fail or are killed
    MaxEdits      \* bound: edits of the targets by somebody else

PartialFunctions(S, T) == UNION {[D -> T] : D \in SUBSET S}

\* state.json; releases and owned are keyed by version and by target.
StateFile == [previous : Versions \cup {None},
              releases : PartialFunctions(Versions, Digests),
              owned : PartialFunctions(Targets, Contents)]

ASSUME NoneAssumption ==
    None \notin Versions \cup Digests \cup Anchors /\ None \notin StateFile
ASSUME AbsentAssumption == Absent \notin Contents
ASSUME ArtifactAssumption ==
    /\ WellFormed \subseteq Digests
    /\ VersionOf \in [Digests -> Versions]
    /\ Payload \in [Digests -> [Targets -> Contents]]

\* A manifest with its signature, and the artifact that comes with it.
Candidate == [version : Versions, claimed : Digests, signer : Anchors, digest : Digests]

VARIABLES
    releases,     \* releases/<version>: the materialized artifacts
    current,      \* the link to the active release
    previous,     \* the link to the rollback target
    trust,        \* trust/trusted-signers: the pinned anchor
    state,        \* state.json
    files,        \* the unit files
    activation,   \* ~/.local/bin/wumbosd
    service,      \* the user manager: loaded units, enabled socket, daemon
    run,          \* the run under way
    signers,      \* ghost: whose signature each materialized release came with
    undo,         \* ghost: what was active before the last switch
    lost,         \* ghost: that switch was cut short before it was recorded
    deployed,     \* ghost: what the tool has ever put at a target
    completed,    \* ghost: the last run completed and nobody interfered
    crashes, edits

disk == <<releases, current, previous, trust, state>>
targets == <<files, activation>>
ghosts == <<signers, undo, lost, deployed, completed, crashes, edits>>
vars == <<disk, targets, service, run, ghosts>>

-----------------------------------------------------------------------------
\* No run; else cmd and pc are the command and its next step, version and
\* sha what it activates, old what was active, todo the targets it still has
\* to write; signer (of the manifest that install was given), pinned (the
\* anchor when it began) and raced (somebody edited a target meanwhile) are
\* ghosts.
NoRun == [cmd |-> "none", pc |-> "idle", version |-> None, sha |-> None, adopt |-> FALSE,
          old |-> None, todo |-> {}, signer |-> None, pinned |-> None, raced |-> FALSE]

Idle == run.pc = "idle"
At(pc) == run.pc = pc
GoTo(pc) == run' = [run EXCEPT !.pc = pc]
Begin(cmd, pc, version, sha, adopt, signer) ==
    run' = [NoRun EXCEPT !.cmd = cmd, !.pc = pc, !.version = version, !.sha = sha,
                         !.adopt = adopt, !.old = current, !.todo = Targets,
                         !.signer = signer, !.pinned = trust]

With(f, x, y) == [z \in DOMAIN f \cup {x} |-> IF z = x THEN y ELSE f[z]]
Nothing == [z \in {} |-> None]

\* Mutant: a good signature is enough, whoever made it.
VerifiedAnySigner(c, anchor) == c.claimed = c.digest

\* cmd_verify_manifest with an anchor: signature and artifact hash.
Verified(c, anchor) == c.signer = anchor /\ c.claimed = c.digest

\* validate_payload_members, and the RELEASE file of the tree that is used.
Valid(version, digest) == digest \in WellFormed /\ VersionOf[digest] = version

Owned == IF state = None THEN Nothing ELSE state.owned

\* Mutant: what is recorded as owned is not compared with what is there.
UnproblematicIfOwned(digest, adopt) ==
    /\ \A t \in Targets :
          \/ files[t] = Absent
          \/ t \in DOMAIN Owned
          \/ t \notin DOMAIN Owned /\ files[t] = Payload[digest][t] /\ adopt
    /\ activation # "foreign"

\* check_foreign_state finds nothing to refuse: each target is absent, or
\* still what was recorded, or, when it is unmanaged, adopted as it equals
\* the payload; the activation link is absent or leads to current.
Unproblematic(digest, adopt) ==
    /\ \A t \in Targets :
          \/ files[t] = Absent
          \/ t \in DOMAIN Owned /\ Owned[t] = files[t]
          \/ t \notin DOMAIN Owned /\ files[t] = Payload[digest][t] /\ adopt
    /\ activation # "foreign"

-----------------------------------------------------------------------------
(* install.                                                                *)

\* Up to and including seed_trust.  An anchor that is pinned already has to
\* be the one given; without --seed-trust the run stops at the human gate.
InstallTrust(c, anchor, adopt) ==
    /\ Idle
    /\ current = None
    /\ Verified(c, anchor)
    /\ trust \in {None, anchor}
    /\ trust' = anchor
    /\ Begin("install", "check", c.version, c.claimed, adopt, c.signer)
    /\ completed' = FALSE
    /\ UNCHANGED <<releases, current, previous, state, targets, service,
                   signers, undo, lost, deployed, crashes, edits>>

\* Mutant: a release directory is overwritten.
PromotableAgain(version) == TRUE

\* promote_release refuses a version that is materialized already.
Promotable(version) == version \notin DOMAIN releases

InstallPromote ==
    /\ At("check")
    /\ Valid(run.version, run.sha)
    /\ Unproblematic(run.sha, run.adopt)
    /\ Promotable(run.version)
    /\ releases' = With(releases, run.version, run.sha)
    /\ signers' = With(signers, run.version, run.signer)
    /\ GoTo("link")
    /\ UNCHANGED <<current, previous, trust, state, targets, service,
                   undo, lost, deployed, completed, crashes, edits>>

\* A refusal after the anchor was pinned.
InstallRefused ==
    /\ At("check")
    /\ ~(/\ Valid(run.version, run.sha)
         /\ Unproblematic(run.sha, run.adopt)
         /\ Promotable(run.version))
    /\ run' = NoRun
    /\ UNCHANGED <<disk, targets, service, ghosts>>

\* The first state.json.
InstallState ==
    /\ At("state")
    /\ state' = [previous |-> None, releases |-> Nothing, owned |-> Nothing]
    /\ GoTo("deploy")
    /\ UNCHANGED <<releases, current, previous, trust, targets, service, ghosts>>

-----------------------------------------------------------------------------
(* update.                                                                 *)

Updatable(c) ==
    /\ Idle
    /\ state # None /\ current # None /\ trust # None
    /\ Verified(c, trust)
    /\ current # c.version
    /\ c.digest \in WellFormed

\* A version that is not recorded: it is materialized.
UpdatePromote(c) ==
    /\ Updatable(c)
    /\ c.version \notin DOMAIN state.releases
    /\ Valid(c.version, c.digest)
    /\ Unproblematic(c.digest, FALSE)
    /\ Promotable(c.version)
    /\ releases' = With(releases, c.version, c.digest)
    /\ signers' = With(signers, c.version, c.signer)
    /\ Begin("update", "link", c.version, c.claimed, FALSE, c.signer)
    /\ completed' = FALSE
    /\ UNCHANGED <<current, previous, trust, state, targets, service,
                   undo, lost, deployed, crashes, edits>>

\* Mutant: the artifact is not compared with the one recorded.
UpdateKnownUnchecked(c) ==
    /\ Updatable(c)
    /\ c.version \in DOMAIN state.releases
    /\ c.version \in DOMAIN releases
    /\ VersionOf[releases[c.version]] = c.version
    /\ Unproblematic(releases[c.version], FALSE)
    /\ Begin("update", "link", c.version, c.claimed, FALSE, c.signer)
    /\ completed' = FALSE
    /\ UNCHANGED <<disk, targets, service, signers, undo, lost, deployed,
                   crashes, edits>>

\* A version that is recorded: same version, same bytes, and the tree that
\* is there is used.
UpdateKnown(c) ==
    /\ Updatable(c)
    /\ c.version \in DOMAIN state.releases
    /\ state.releases[c.version] = c.claimed
    /\ c.version \in DOMAIN releases
    /\ VersionOf[releases[c.version]] = c.version
    /\ Unproblematic(releases[c.version], FALSE)
    /\ Begin("update", "link", c.version, c.claimed, FALSE, c.signer)
    /\ completed' = FALSE
    /\ UNCHANGED <<disk, targets, service, signers, undo, lost, deployed,
                   crashes, edits>>

-----------------------------------------------------------------------------
(* rollback checks neither signatures nor targets.  Its first write is the *)
(* switch.                                                                 *)
Rollback ==
    /\ Idle
    /\ state # None /\ current # None
    /\ state.previous # None
    /\ state.previous \in DOMAIN releases
    /\ current' = state.previous
    /\ undo' = current
    /\ lost' = FALSE
    /\ Begin("rollback", "previous", state.previous, None, FALSE, None)
    /\ completed' = FALSE
    /\ UNCHANGED <<releases, previous, trust, state, targets, service,
                   signers, deployed, crashes, edits>>

-----------------------------------------------------------------------------
(* The steps the commands share.                                           *)

\* replace_symlink(current): the release is active from here on.
Link ==
    /\ At("link")
    /\ current' = run.version
    /\ undo' = run.old
    /\ lost' = FALSE
    /\ GoTo(IF run.cmd = "install" THEN "state" ELSE "previous")
    /\ UNCHANGED <<releases, previous, trust, state, targets, service,
                   signers, deployed, completed, crashes, edits>>

\* Mutant: what is recorded as previous is read after the switch.
StatePreviousLate ==
    /\ At("previous")
    /\ state' = [state EXCEPT !.previous = current]
    /\ GoTo("prevlink")
    /\ UNCHANGED <<releases, current, previous, trust, targets, service, ghosts>>

\* state["previous"] = current, as it was at the start.
StatePrevious ==
    /\ At("previous")
    /\ state' = [state EXCEPT !.previous = run.old]
    /\ GoTo("prevlink")
    /\ UNCHANGED <<releases, current, previous, trust, targets, service, ghosts>>

LinkPrevious ==
    /\ At("prevlink")
    /\ previous' = run.old
    /\ GoTo("deploy")
    /\ UNCHANGED <<releases, current, trust, state, targets, service, ghosts>>

\* deploy_owned_files: the staged files are moved in place one by one, ...
Deploy(t) ==
    /\ At("deploy")
    /\ t \in run.todo
    /\ files' = [files EXCEPT ![t] = Payload[releases[run.version]][t]]
    /\ deployed' = [deployed EXCEPT ![t] = @ \cup {files'[t]}]
    /\ run' = [run EXCEPT !.todo = @ \ {t}]
    /\ UNCHANGED <<disk, activation, service, signers, undo, lost, completed,
                   crashes, edits>>

\* ... then the activation link is replaced, whatever is there, ...
DeployActivation ==
    /\ At("deploy")
    /\ run.todo = {}
    /\ activation' = "managed"
    /\ GoTo("own")
    /\ UNCHANGED <<disk, files, service, ghosts>>

\* Mutant: a rollback records a release too.
DeployRecordedAlways ==
    /\ At("own")
    /\ state' = [state EXCEPT !.owned = Payload[releases[run.version]]]
    /\ GoTo("record")
    /\ UNCHANGED <<releases, current, previous, trust, targets, service, ghosts>>

\* ... and what was written is recorded.
DeployRecorded ==
    /\ At("own")
    /\ state' = [state EXCEPT !.owned = Payload[releases[run.version]]]
    /\ GoTo(IF run.cmd = "rollback" THEN "reload" ELSE "record")
    /\ UNCHANGED <<releases, current, previous, trust, targets, service, ghosts>>

RecordRelease ==
    /\ At("record")
    /\ state' = [state EXCEPT !.releases = With(@, run.version, run.sha)]
    /\ GoTo("reload")
    /\ UNCHANGED <<releases, current, previous, trust, targets, service, ghosts>>

\* reconcile_systemd: daemon-reload, enable the socket, try-restart.
Reload ==
    /\ At("reload")
    /\ service' = [service EXCEPT !.units = files]
    /\ GoTo(IF run.cmd = "rollback" THEN "restart" ELSE "enable")
    /\ UNCHANGED <<disk, targets, ghosts>>

Enable ==
    /\ At("enable")
    /\ service' = [service EXCEPT !.enabled = TRUE]
    /\ GoTo("restart")
    /\ UNCHANGED <<disk, targets, ghosts>>

\* Mutant: the daemon that runs is left running.
RestartNothing ==
    /\ At("restart")
    /\ run' = NoRun
    /\ completed' = ~run.raced
    /\ UNCHANGED <<disk, targets, service, signers, undo, lost, deployed,
                   crashes, edits>>

\* Only a daemon that runs is restarted.
Restart ==
    /\ At("restart")
    /\ service' = [service EXCEPT !.running = IF @ = None THEN None ELSE current]
    /\ run' = NoRun
    /\ completed' = ~run.raced
    /\ UNCHANGED <<disk, targets, signers, undo, lost, deployed, crashes, edits>>

-----------------------------------------------------------------------------
(* The world around the tool.                                              *)

\* Mutant: a run that fails removes the release it was to activate.
CrashCleaning ==
    /\ ~Idle
    /\ crashes < MaxCrashes
    /\ releases' = Restrict(releases, DOMAIN releases \ {run.version})
    /\ run' = NoRun
    /\ crashes' = crashes + 1
    /\ lost' = (lost \/ At("previous"))
    /\ UNCHANGED <<current, previous, trust, state, targets, service,
                   signers, undo, deployed, completed, edits>>

\* Mutant: a run that fails goes back to where the previous link leads.
CrashRestoring ==
    /\ ~Idle
    /\ crashes < MaxCrashes
    /\ current' = IF run.version = current /\ previous # None THEN previous ELSE current
    /\ run' = NoRun
    /\ crashes' = crashes + 1
    /\ lost' = (lost \/ At("previous"))
    /\ UNCHANGED <<releases, previous, trust, state, targets, service,
                   signers, undo, deployed, completed, edits>>

\* The run fails or is killed; what it has written stays.
Crash ==
    /\ ~Idle
    /\ crashes < MaxCrashes
    /\ run' = NoRun
    /\ crashes' = crashes + 1
    /\ lost' = (lost \/ At("previous"))
    /\ UNCHANGED <<disk, targets, service, signers, undo, deployed, completed,
                   edits>>

Interfered ==
    /\ edits < MaxEdits
    /\ edits' = edits + 1
    /\ completed' = FALSE
    /\ run' = [run EXCEPT !.raced = ~Idle]

Edit(t, content) ==
    /\ Interfered
    /\ files' = [files EXCEPT ![t] = content]
    /\ UNCHANGED <<disk, activation, service, signers, undo, lost, deployed,
                   crashes>>

EditActivation(entry) ==
    /\ Interfered
    /\ activation' = entry
    /\ UNCHANGED <<disk, files, service, signers, undo, lost, deployed,
                   crashes>>

\* Socket activation starts what the activation link leads to.
Start ==
    /\ service.running = None
    /\ activation = "managed" /\ current # None
    /\ service' = [service EXCEPT !.running = current]
    /\ UNCHANGED <<disk, targets, run, ghosts>>

Stop ==
    /\ service.running # None
    /\ service' = [service EXCEPT !.running = None]
    /\ UNCHANGED <<disk, targets, run, ghosts>>

-----------------------------------------------------------------------------
Init ==
    /\ releases = Nothing
    /\ current = None /\ previous = None /\ trust = None /\ state = None
    /\ files \in [Targets -> Contents \cup {Absent}]
    /\ activation \in {"absent", "foreign"}
    /\ service = [units |-> files, enabled |-> FALSE, running |-> None]
    /\ run = NoRun
    /\ signers = Nothing
    /\ undo = None /\ lost = FALSE
    /\ deployed = [t \in Targets |-> {}]
    /\ completed = FALSE
    /\ crashes = 0 /\ edits = 0

Install ==
    \/ \E c \in Candidate, anchor \in Anchors, adopt \in BOOLEAN :
          InstallTrust(c, anchor, adopt)
    \/ InstallPromote \/ InstallRefused \/ InstallState

Update == \E c \in Candidate : UpdatePromote(c) \/ UpdateKnown(c)

Switch ==
    \/ Link \/ StatePrevious \/ LinkPrevious
    \/ \E t \in Targets : Deploy(t)
    \/ DeployActivation \/ DeployRecorded \/ RecordRelease
    \/ Reload \/ Enable \/ Restart

World ==
    \/ \E t \in Targets, content \in Contents \cup {Absent} : Edit(t, content)
    \/ \E entry \in {"absent", "foreign"} : EditActivation(entry)
    \/ Start \/ Stop

Next == Install \/ Update \/ Rollback \/ Switch \/ Crash \/ World

Spec == Init /\ [][Next]_vars

-----------------------------------------------------------------------------
TypeOK ==
    /\ releases \in PartialFunctions(Versions, Digests)
    /\ current \in Versions \cup {None}
    /\ previous \in Versions \cup {None}
    /\ trust \in Anchors \cup {None}
    /\ state = None \/ state \in StateFile
    /\ files \in [Targets -> Contents \cup {Absent}]
    /\ activation \in {"absent", "managed", "foreign"}
    /\ service \in [units : [Targets -> Contents \cup {Absent}], enabled : BOOLEAN,
                    running : Versions \cup {None}]
    /\ run \in [cmd : {"none", "install", "update", "rollback"},
                pc : {"idle", "check", "link", "state", "previous", "prevlink",
                      "deploy", "own", "record", "reload", "enable", "restart"},
                version : Versions \cup {None}, sha : Digests \cup {None},
                adopt : BOOLEAN, old : Versions \cup {None}, todo : SUBSET Targets,
                signer : Anchors \cup {None}, pinned : Anchors \cup {None},
                raced : BOOLEAN]
    /\ signers \in PartialFunctions(Versions, Anchors)
    /\ undo \in Versions \cup {None} /\ lost \in BOOLEAN
    /\ deployed \in [Targets -> SUBSET Contents]
    /\ completed \in BOOLEAN

(* At every moment, between any two steps and after any crash, the links   *)
(* lead somewhere: the activation link to current, current and the         *)
(* rollback target to a materialized release ("no broken-executable        *)
(* interval exists", docs/PORTABLE_DISTRIBUTION.md).                       *)
ActivationSound ==
    /\ activation = "managed" => current # None
    /\ {current, previous, service.running} \ {None} \subseteq DOMAIN releases
    /\ state # None /\ state.previous # None => state.previous \in DOMAIN releases

(* The chain of trust: whatever is materialized has passed validation as   *)
(* the version it is stored under, and came with a manifest signed by the  *)
(* anchor that is pinned now, however many runs were refused or cut short  *)
(* between pinning one and materializing the other; and what is recorded of*)
(* it is its digest.                                                       *)
MaterializedVerified ==
    /\ \A v \in DOMAIN releases :
          /\ Valid(v, releases[v])
          /\ trust # None /\ v \in DOMAIN signers /\ signers[v] = trust
    /\ state # None => \A v \in DOMAIN state.releases :
                          v \in DOMAIN releases /\ state.releases[v] = releases[v]

(* Releases are immutable, the anchor is pinned once, and no rollback or   *)
(* crash takes a release away (docs/PORTABLE_DISTRIBUTION.md, "Install     *)
(* layout").                                                               *)
NothingRewritten ==
    [][/\ \A v \in DOMAIN releases : v \in DOMAIN releases' /\ releases'[v] = releases[v]
       /\ trust # None => trust' = trust]_vars

(* install and update never overwrite a file that somebody else put there, *)
(* unless it was put there while they ran; crashes of earlier runs, which  *)
(* leave files deployed and not recorded, make no difference.              *)
NeverSeized ==
    [][\A t \in Targets :
         /\ At("deploy") /\ run' # run /\ crashes' = crashes /\ edits' = edits
         /\ run.cmd \in {"install", "update"} /\ ~run.raced
         /\ files'[t] # files[t]
         => files[t] \in {Absent} \cup deployed[t]]_vars

(* When a run has completed, the links, the units, what is loaded, what is *)
(* recorded and what runs are all of one release, however many runs before *)
(* it were cut short.                                                      *)
CompletedRunConsistent ==
    completed =>
        LET units == Payload[releases[current]]
        IN  /\ activation = "managed"
            /\ files = units /\ service.units = units /\ state.owned = units
            /\ service.running \in {None, current}
            /\ state.previous = previous

(* What rollback goes back to is what was active before the last switch:   *)
(* from the record of the switch on, through every later step, run and     *)
(* crash, a rollback that is cut short and run again included.  Only a run *)
(* that fails between the switch and its record loses it, and only until   *)
(* the next switch.                                                        *)
RollbackReturns ==
    ~At("previous") /\ undo # None /\ ~lost =>
        state # None /\ state.previous = undo

\* The release that a rollback activates, and what was active before a switch
\* that state.json does not tell of yet.
Fallback == IF state = None THEN None ELSE state.previous
Unrecorded == IF run.pc \in {"state", "previous"} THEN {run.old} ELSE {}

ActiveRelease == INSTANCE ReleaseSwitch WITH
                     Releases <- Versions,
                     available <- DOMAIN releases,
                     active <- current,
                     fallback <- Fallback,
                     unrecorded <- Unrecorded

(* The tool implements the switch, crashes included: a release is activated*)
(* in one step and only when it is there; what a rollback leads to changes *)
(* in one step too, to what was active before the switch that precedes it  *)
(* ("Running rollback again returns to the release you rolled back from",  *)
(* docs/PORTABLE_DISTRIBUTION.md); a run that is cut short leaves both as  *)
(* they are, whichever step of it was the last.                            *)
ImplementsSwitch == ActiveRelease!Spec

-----------------------------------------------------------------------------
(* What the documents say and the code does not do.                        *)

(* docs/PORTABLE_DISTRIBUTION.md: "Any failure before activation leaves    *)
(* the active release untouched; a failure after it is recoverable with    *)
(* rollback".  Between the switch of the link and the record of what was   *)
(* active before, a failure leaves rollback without its target.            *)
FailureRecoverable ==
    Idle /\ undo # None => state.previous = undo

(* "foreign or drifted installation detected; nothing was changed"         *)
(* (src/deploy/wumbosdctl, cmd_install): the anchor has been pinned by     *)
(* then.                                                                   *)
RefusalChangesNothing ==
    [][/\ At("check") /\ Valid(run.version, run.sha)
       /\ ~Unproblematic(run.sha, run.adopt)
       /\ Idle' /\ crashes' = crashes
       => trust' = run.pinned]_vars

=============================================================================

-------------------------- MODULE LifecycleProofs --------------------------
(***************************************************************************)
(* Proofs about the release manager, for all versions, artifacts, anchors  *)
(* and targets, and for any number of crashes and edits.                   *)
(***************************************************************************)
EXTENDS Lifecycle, TLAPS

-----------------------------------------------------------------------------
Commands == {"none", "install", "update", "rollback"}
Steps == {"idle", "check", "link", "state", "previous", "prevlink",
          "deploy", "own", "record", "reload", "enable", "restart"}
Run == [cmd : Commands, pc : Steps,
        version : Versions \cup {None}, sha : Digests \cup {None},
        adopt : BOOLEAN, old : Versions \cup {None}, todo : SUBSET Targets,
        signer : Anchors \cup {None}, pinned : Anchors \cup {None}, raced : BOOLEAN]

\* The run: once it has a release to activate, that release is materialized,
\* and from the switch on it is active.
Materialized == {"link", "state", "previous", "prevlink", "deploy", "own", "record",
                 "reload", "enable", "restart"}
Switched == Materialized \ {"link"}

RunInv ==
    /\ At("check") => /\ run.cmd = "install" /\ trust # None /\ run.signer = trust
                      /\ run.version \in Versions /\ run.sha \in Digests
    /\ run.pc \in Materialized =>
          /\ run.version \in DOMAIN releases
          /\ run.cmd # "rollback" => releases[run.version] = run.sha
    /\ At("record") => run.cmd # "rollback"
    /\ At("link") /\ run.cmd # "install" => state # None
    /\ run.pc \in Switched => current = run.version
    /\ run.pc \in Switched \ {"state"} => state # None
    /\ run.old # None => run.old \in DOMAIN releases

IInv == TypeOK /\ ActivationSound /\ MaterializedVerified /\ RunInv

-----------------------------------------------------------------------------
(* Partial functions, and the function With that adds a pair to one.       *)

(* The set of partial functions holds what its name says.                  *)
LEMMA PartialFunctionsDef ==
    ASSUME NEW S, NEW T, NEW f
    PROVE  f \in PartialFunctions(S, T) <=> DOMAIN f \subseteq S /\ f \in [DOMAIN f -> T]
BY DEF PartialFunctions

(* With adds one pair and keeps the others.                                *)
LEMMA WithAdds ==
    ASSUME NEW S, NEW T, NEW f \in PartialFunctions(S, T), NEW x \in S, NEW y \in T
    PROVE  /\ With(f, x, y) \in PartialFunctions(S, T)
           /\ DOMAIN With(f, x, y) = DOMAIN f \cup {x}
           /\ With(f, x, y)[x] = y
           /\ \A z \in DOMAIN f : z # x => With(f, x, y)[z] = f[z]
<1>1. DOMAIN f \subseteq S /\ f \in [DOMAIN f -> T]
  BY PartialFunctionsDef
<1>2. /\ DOMAIN With(f, x, y) = DOMAIN f \cup {x}
      /\ With(f, x, y)[x] = y
      /\ \A z \in DOMAIN f : z # x => With(f, x, y)[z] = f[z]
  BY DEF With
<1>3. With(f, x, y) \in [DOMAIN f \cup {x} -> T]
  BY <1>1 DEF With
<1>4. With(f, x, y) \in PartialFunctions(S, T)
  BY <1>1, <1>2, <1>3, PartialFunctionsDef
<1> QED  BY <1>2, <1>4

(* The empty function is a partial function.                               *)
LEMMA NothingIsPartial ==
    ASSUME NEW S, NEW T
    PROVE  Nothing \in PartialFunctions(S, T) /\ DOMAIN Nothing = {}
<1>1. DOMAIN Nothing = {} /\ Nothing \in [{} -> T]
  BY DEF Nothing
<1> QED  BY <1>1, PartialFunctionsDef

(* What an artifact has for the targets is what owned may record.          *)
LEMMA PayloadIsPartial ==
    ASSUME NEW d \in Digests
    PROVE  /\ Payload[d] \in [Targets -> Contents]
           /\ Payload[d] \in PartialFunctions(Targets, Contents)
<1>1. Payload[d] \in [Targets -> Contents]
  BY ArtifactAssumption
<1> QED  BY <1>1, PartialFunctionsDef

-----------------------------------------------------------------------------
(* The record of the run.                                                  *)

(* No run is a run.                                                        *)
LEMMA NoRunIsRun ==
    NoRun \in Run /\ NoRun.pc = "idle" /\ NoRun.old = None /\ NoRun.raced = FALSE
BY DEF NoRun, Run, Commands, Steps

(* What a run starts with.                                                 *)
LEMMA BeginRun ==
    ASSUME TypeOK,
           NEW cmd \in Commands, NEW pc \in Steps, NEW version \in Versions \cup {None},
           NEW sha \in Digests \cup {None}, NEW adopt \in BOOLEAN,
           NEW signer \in Anchors \cup {None},
           Begin(cmd, pc, version, sha, adopt, signer)
    PROVE  /\ run' \in Run
           /\ run'.cmd = cmd /\ run'.pc = pc /\ run'.version = version /\ run'.sha = sha
           /\ run'.adopt = adopt /\ run'.old = current /\ run'.todo = Targets
           /\ run'.signer = signer /\ ~run'.raced
<1>1. run' = [cmd |-> cmd, pc |-> pc, version |-> version, sha |-> sha, adopt |-> adopt,
              old |-> current, todo |-> Targets, signer |-> signer,
              pinned |-> trust, raced |-> FALSE]
  BY DEF Begin, NoRun
<1>2. current \in Versions \cup {None} /\ trust \in Anchors \cup {None}
  BY DEF TypeOK
<1> QED  BY <1>1, <1>2 DEF Run

(* What an update starts with.                                             *)
LEMMA BeginUpdate ==
    ASSUME TypeOK, NEW c \in Candidate, UpdatePromote(c) \/ UpdateKnown(c)
    PROVE  /\ run' \in Run
           /\ run'.cmd = "update" /\ run'.pc = "link" /\ run'.version = c.version
           /\ run'.sha = c.claimed /\ run'.old = current /\ run'.todo = Targets
           /\ ~run'.raced
<1>1. /\ c.version \in Versions \cup {None} /\ c.claimed \in Digests \cup {None}
      /\ c.signer \in Anchors \cup {None}
      /\ "update" \in Commands /\ "link" \in Steps /\ FALSE \in BOOLEAN
  BY DEF Candidate, Commands, Steps
<1>2. Begin("update", "link", c.version, c.claimed, FALSE, c.signer)
  BY DEF UpdatePromote, UpdateKnown
<1>3. run' = [cmd |-> "update", pc |-> "link", version |-> c.version, sha |-> c.claimed,
              adopt |-> FALSE, old |-> current, todo |-> Targets, signer |-> c.signer,
              pinned |-> trust, raced |-> FALSE]
  BY <1>2 DEF Begin, NoRun
<1>4. current \in Versions \cup {None} /\ trust \in Anchors \cup {None}
  BY DEF TypeOK
<1> QED  BY <1>1, <1>3, <1>4 DEF Run

(* A step of a run changes pc and nothing else of it.                      *)
LEMMA GoToRun ==
    ASSUME TypeOK, NEW pc \in Steps, GoTo(pc)
    PROVE  /\ run' \in Run
           /\ run'.pc = pc
           /\ run'.cmd = run.cmd /\ run'.version = run.version /\ run'.sha = run.sha
           /\ run'.adopt = run.adopt /\ run'.old = run.old /\ run'.todo = run.todo
           /\ run'.raced = run.raced
<1>1. run \in Run
  BY DEF TypeOK, Run, Commands, Steps
<1> QED  BY <1>1 DEF GoTo, Run

-----------------------------------------------------------------------------

(* Type correctness, one step after the other.                             *)

(* Nothing is installed, and any file may lie at a target.                 *)
LEMMA TypeInit == Init => TypeOK
<1> SUFFICES ASSUME Init PROVE TypeOK
  OBVIOUS
<1>1. releases \in PartialFunctions(Versions, Digests)
  BY NothingIsPartial DEF Init
<1>2. run \in Run
  BY NoRunIsRun DEF Init
<1>3. signers \in PartialFunctions(Versions, Anchors)
  BY NothingIsPartial DEF Init
<1> QED  BY <1>1, <1>2, <1>3 DEF Init, TypeOK, Run, Commands, Steps

(* Every step keeps the types.  A step of a run needs RunInv: it tells that *)
(* there is a state to change, and which release is deployed.              *)
LEMMA TypeStep == IInv /\ [Next]_vars => TypeOK'
<1> SUFFICES ASSUME IInv, [Next]_vars PROVE TypeOK'
  OBVIOUS
<1> USE DEF disk, targets, ghosts
<1>a. TypeOK /\ RunInv /\ ActivationSound
  BY DEF IInv
<1>b. run \in Run /\ (state = None \/ state \in StateFile)
  BY <1>a DEF TypeOK, Run, Commands, Steps
<1>c. run.pc \in Switched \ {"state"} => state \in StateFile
  BY <1>a, <1>b DEF RunInv
<1>d. run.pc \in Materialized =>
         /\ run.version \in Versions
         /\ releases[run.version] \in Digests
         /\ Payload[releases[run.version]] \in [Targets -> Contents]
         /\ Payload[releases[run.version]] \in PartialFunctions(Targets, Contents)
  <2> SUFFICES ASSUME run.pc \in Materialized
               PROVE  /\ run.version \in Versions
                      /\ releases[run.version] \in Digests
                      /\ Payload[releases[run.version]] \in [Targets -> Contents]
                      /\ Payload[releases[run.version]] \in PartialFunctions(Targets, Contents)
    OBVIOUS
  <2>1. run.version \in DOMAIN releases
    BY <1>a DEF RunInv
  <2>2. DOMAIN releases \subseteq Versions /\ releases \in [DOMAIN releases -> Digests]
    BY <1>a, PartialFunctionsDef DEF TypeOK
  <2> QED  BY <2>1, <2>2, PayloadIsPartial
<1>e. \A x \in DOMAIN releases : x \in Versions
  BY <1>a, PartialFunctionsDef DEF TypeOK
<1>1. ASSUME NEW c \in Candidate, NEW anchor \in Anchors, NEW adopt \in BOOLEAN,
             InstallTrust(c, anchor, adopt)
      PROVE  TypeOK'
  <2>1. c.version \in Versions /\ c.claimed \in Digests /\ c.signer \in Anchors \cup {None}
    BY DEF Candidate
  <2>2. run' \in Run
    BY <1>1, <1>a, <2>1, BeginRun DEF InstallTrust, Commands, Steps
  <2> QED  BY <1>1, <1>a, <2>2 DEF InstallTrust, TypeOK, Run, Commands, Steps
<1>2. ASSUME InstallPromote PROVE TypeOK'
  <2>1. run' \in Run
    BY <1>2, <1>a, GoToRun DEF InstallPromote, Steps
  <2>2. run.version \in Versions /\ run.sha \in Digests
    BY <1>2, <1>a DEF InstallPromote, RunInv
  <2>3. releases' \in PartialFunctions(Versions, Digests)
    BY <1>2, <1>a, <2>2, WithAdds DEF InstallPromote, TypeOK
  <2>4. run.signer \in Anchors /\ signers \in PartialFunctions(Versions, Anchors)
    BY <1>2, <1>a DEF InstallPromote, RunInv, TypeOK
  <2>5. signers' \in PartialFunctions(Versions, Anchors)
    BY <1>2, <2>2, <2>4, WithAdds DEF InstallPromote
  <2> QED  BY <1>2, <1>a, <2>1, <2>3, <2>5 DEF InstallPromote, TypeOK, Run, Commands, Steps
<1>3. ASSUME InstallRefused PROVE TypeOK'
  BY <1>3, <1>a, NoRunIsRun DEF InstallRefused, TypeOK, Run, Commands, Steps
<1>4. ASSUME InstallState PROVE TypeOK'
  <2>1. run' \in Run
    BY <1>4, <1>a, GoToRun DEF InstallState, Steps
  <2>2. state' \in StateFile
    BY <1>4, NothingIsPartial DEF InstallState, StateFile
  <2> QED  BY <1>4, <1>a, <2>1, <2>2 DEF InstallState, TypeOK, Run, Commands, Steps
<1>5. ASSUME NEW c \in Candidate, UpdatePromote(c) PROVE TypeOK'
  <2>1. /\ c.version \in Versions /\ c.claimed \in Digests /\ c.digest \in Digests
        /\ c.signer \in Anchors
    BY DEF Candidate
  <2>2. run' \in Run
    BY <1>5, <1>a, <2>1, BeginUpdate
  <2>3. releases' \in PartialFunctions(Versions, Digests)
    BY <1>5, <1>a, <2>1, WithAdds DEF UpdatePromote, TypeOK
  <2>4. signers' \in PartialFunctions(Versions, Anchors)
    BY <1>5, <1>a, <2>1, WithAdds DEF UpdatePromote, TypeOK
  <2> QED  BY <1>5, <1>a, <2>2, <2>3, <2>4 DEF UpdatePromote, TypeOK, Run, Commands, Steps
<1>6. ASSUME NEW c \in Candidate, UpdateKnown(c) PROVE TypeOK'
  <2>1. c.version \in Versions /\ c.claimed \in Digests /\ c.signer \in Anchors \cup {None}
    BY DEF Candidate
  <2>2. run' \in Run
    BY <1>6, <1>a, <2>1, BeginUpdate
  <2> QED  BY <1>6, <1>a, <2>2 DEF UpdateKnown, TypeOK, Run, Commands, Steps
<1>7. ASSUME Rollback PROVE TypeOK'
  <2>1. state.previous \in Versions
    BY <1>7, <1>e DEF Rollback
  <2>2. run' \in Run
    BY <1>7, <1>a, <2>1, BeginRun DEF Rollback, Commands, Steps
  <2> QED  BY <1>7, <1>a, <2>1, <2>2 DEF Rollback, TypeOK, Run, Commands, Steps
<1>8. ASSUME Link PROVE TypeOK'
  <2>1. run' \in Run
    BY <1>8, <1>a, GoToRun DEF Link, Steps
  <2> QED  BY <1>8, <1>a, <1>b, <1>d, <2>1 DEF Link, At, TypeOK, Run, Commands, Steps, Materialized
<1>9. ASSUME StatePrevious PROVE TypeOK'
  <2>1. run' \in Run
    BY <1>9, <1>a, GoToRun DEF StatePrevious, Steps
  <2>2. state' \in StateFile
    BY <1>9, <1>b, <1>c DEF StatePrevious, At, StateFile, Run, Switched, Materialized
  <2> QED  BY <1>9, <1>a, <2>1, <2>2 DEF StatePrevious, TypeOK, Run, Commands, Steps
<1>10. ASSUME LinkPrevious PROVE TypeOK'
  <2>1. run' \in Run
    BY <1>10, <1>a, GoToRun DEF LinkPrevious, Steps
  <2> QED  BY <1>10, <1>a, <1>b, <2>1 DEF LinkPrevious, TypeOK, Run, Commands, Steps
<1>11. ASSUME NEW t \in Targets, Deploy(t) PROVE TypeOK'
  <2>1. Payload[releases[run.version]][t] \in Contents
    BY <1>11, <1>d DEF Deploy, At, Materialized
  <2>2. files' \in [Targets -> Contents \cup {Absent}] /\ files'[t] \in Contents
    BY <1>11, <1>a, <2>1 DEF Deploy, TypeOK
  <2>3. deployed' \in [Targets -> SUBSET Contents]
    BY <1>11, <1>a, <2>2 DEF Deploy, TypeOK
  <2>4. run' \in Run
    BY <1>11, <1>b DEF Deploy, Run
  <2> QED  BY <1>11, <1>a, <2>2, <2>3, <2>4 DEF Deploy, TypeOK, Run, Commands, Steps
<1>12. ASSUME DeployActivation PROVE TypeOK'
  <2>1. run' \in Run
    BY <1>12, <1>a, GoToRun DEF DeployActivation, Steps
  <2> QED  BY <1>12, <1>a, <2>1 DEF DeployActivation, TypeOK, Run, Commands, Steps
<1>13. ASSUME DeployRecorded PROVE TypeOK'
  <2>1. run' \in Run
    BY <1>13, <1>a, GoToRun DEF DeployRecorded, Steps
  <2>2. state' \in StateFile
    BY <1>13, <1>c, <1>d DEF DeployRecorded, At, StateFile, Switched, Materialized
  <2> QED  BY <1>13, <1>a, <2>1, <2>2 DEF DeployRecorded, TypeOK, Run, Commands, Steps
<1>14. ASSUME RecordRelease PROVE TypeOK'
  <2>1. run' \in Run
    BY <1>14, <1>a, GoToRun DEF RecordRelease, Steps
  <2>2. state \in StateFile /\ run.version \in Versions /\ run.sha \in Digests
    <3>1. run.sha = releases[run.version] /\ state \in StateFile /\ run.version \in Versions
      BY <1>14, <1>a, <1>c, <1>d DEF RecordRelease, At, RunInv, Switched, Materialized
    <3> QED  BY <3>1, <1>14, <1>d DEF RecordRelease, At, Materialized
  <2>3. With(state.releases, run.version, run.sha) \in PartialFunctions(Versions, Digests)
    BY <2>2, WithAdds DEF StateFile
  <2>4. state' = [state EXCEPT !.releases = With(state.releases, run.version, run.sha)]
    BY <1>14 DEF RecordRelease
  <2>5. state' \in StateFile
    BY <2>2, <2>3, <2>4 DEF StateFile
  <2> QED  BY <1>14, <1>a, <2>1, <2>5 DEF RecordRelease, TypeOK, Run, Commands, Steps
<1>15. ASSUME Reload PROVE TypeOK'
  <2>1. run' \in Run
    BY <1>15, <1>a, GoToRun DEF Reload, Steps
  <2> QED  BY <1>15, <1>a, <2>1 DEF Reload, TypeOK, Run, Commands, Steps
<1>16. ASSUME Enable PROVE TypeOK'
  <2>1. run' \in Run
    BY <1>16, <1>a, GoToRun DEF Enable, Steps
  <2> QED  BY <1>16, <1>a, <2>1 DEF Enable, TypeOK, Run, Commands, Steps
<1>17. ASSUME Restart PROVE TypeOK'
  <2>1. service' \in [units : [Targets -> Contents \cup {Absent}], enabled : BOOLEAN,
                      running : Versions \cup {None}]
    BY <1>17, <1>a DEF Restart, TypeOK
  <2>2. completed' \in BOOLEAN
    BY <1>17 DEF Restart
  <2> QED  BY <1>17, <1>a, <2>1, <2>2, NoRunIsRun DEF Restart, TypeOK, Run, Commands, Steps
<1>18. ASSUME Crash PROVE TypeOK'
  BY <1>18, <1>a, NoRunIsRun DEF Crash, TypeOK, Run, Commands, Steps
<1>19. ASSUME Interfered PROVE run' \in Run /\ completed' = FALSE
  BY <1>19, <1>b DEF Interfered, Run, Idle
<1>20. ASSUME NEW t \in Targets, NEW content \in Contents \cup {Absent}, Edit(t, content)
       PROVE  TypeOK'
  <2>1. run' \in Run /\ completed' \in BOOLEAN
    BY <1>20, <1>19 DEF Edit
  <2> QED  BY <1>20, <1>a, <2>1 DEF Edit, TypeOK, Run, Commands, Steps
<1>21. ASSUME NEW entry \in {"absent", "foreign"}, EditActivation(entry)
       PROVE  TypeOK'
  <2>1. run' \in Run /\ completed' \in BOOLEAN
    BY <1>21, <1>19 DEF EditActivation
  <2> QED  BY <1>21, <1>a, <2>1 DEF EditActivation, TypeOK, Run, Commands, Steps
<1>22. ASSUME Start \/ Stop PROVE TypeOK'
  BY <1>22, <1>a DEF Start, Stop, TypeOK
<1>23. ASSUME UNCHANGED vars PROVE TypeOK'
  BY <1>23, <1>a DEF vars, TypeOK
<1> QED
  BY <1>1, <1>2, <1>3, <1>4, <1>5, <1>6, <1>7, <1>8, <1>9, <1>10, <1>11, <1>12, <1>13,
     <1>14, <1>15, <1>16, <1>17, <1>18, <1>20, <1>21, <1>22, <1>23
  DEF Next, Install, Update, Switch, World

-----------------------------------------------------------------------------
(* The links and the chain of trust.                                       *)

(* A step that leaves the disk, the activation link and the daemon alone   *)
(* leaves the links and the chain of trust sound.                          *)
LEMMA Kept ==
    ASSUME IInv, UNCHANGED <<disk, signers, activation, service.running>>
    PROVE  ActivationSound' /\ MaterializedVerified'
BY DEF IInv, disk, ActivationSound, MaterializedVerified, Valid

(* A step within a run, after the switch, keeps what the run relies on.    *)
LEMMA RunKept ==
    ASSUME IInv, UNCHANGED <<releases, current>>, state' # None,
           run.pc \in Switched, run'.pc \in Switched \ {"record"},
           run'.cmd = run.cmd, run'.version = run.version, run'.sha = run.sha,
           run'.old = run.old
    PROVE  RunInv'
BY DEF IInv, RunInv, At, Switched, Materialized

(* When no run is under way there is nothing to rely on.                   *)
LEMMA NoRunRelied == run' = NoRun => RunInv'
BY NoRunIsRun DEF RunInv, At, Switched, Materialized

(* Nothing is materialized at first, and nothing links to it.              *)
LEMMA SoundInit == Init => ActivationSound /\ MaterializedVerified /\ RunInv
<1> SUFFICES ASSUME Init PROVE ActivationSound /\ MaterializedVerified /\ RunInv
  OBVIOUS
<1>1. DOMAIN releases = {}
  BY NothingIsPartial DEF Init
<1>2. RunInv
  BY NoRunIsRun DEF Init, RunInv, At, Switched, Materialized
<1> QED  BY <1>1, <1>2 DEF Init, ActivationSound, MaterializedVerified

(* A release that is added under a new version, having passed validation,  *)
(* leaves the links and the chain of trust sound.                          *)
LEMMA PromoteSound ==
    ASSUME IInv, NEW version \in Versions, NEW digest \in Digests,
           Valid(version, digest), Promotable(version), trust \in Anchors,
           releases' = With(releases, version, digest), signers' = With(signers, version, trust),
           UNCHANGED <<current, previous, trust, state, activation, service>>
    PROVE  /\ ActivationSound' /\ MaterializedVerified'
           /\ DOMAIN releases' = DOMAIN releases \cup {version}
           /\ releases'[version] = digest
           /\ \A v \in DOMAIN releases : releases'[v] = releases[v]
<1>1. /\ DOMAIN releases' = DOMAIN releases \cup {version}
      /\ releases'[version] = digest
      /\ \A v \in DOMAIN releases : v # version => releases'[v] = releases[v]
  BY DEF With
<1>2. version \notin DOMAIN releases
  BY DEF Promotable
<1>3. \A v \in DOMAIN releases : releases'[v] = releases[v]
  BY <1>1, <1>2
<1>4. ActivationSound'
  BY <1>1 DEF IInv, ActivationSound
<1>5. \A v \in DOMAIN releases' : v \in DOMAIN signers' /\ signers'[v] = trust
  <2>1. /\ DOMAIN signers' = DOMAIN signers \cup {version} /\ signers'[version] = trust
        /\ \A v \in DOMAIN signers : v # version => signers'[v] = signers[v]
    BY DEF With
  <2>2. \A v \in DOMAIN releases : v \in DOMAIN signers /\ signers[v] = trust
    BY DEF IInv, MaterializedVerified
  <2> QED  BY <1>1, <2>1, <2>2
<1>6. \A v \in DOMAIN releases' : Valid(v, releases'[v])
  BY <1>1, <1>3 DEF IInv, MaterializedVerified
<1>7. trust' # None
  BY NoneAssumption
<1>8. MaterializedVerified'
  BY <1>1, <1>3, <1>5, <1>6, <1>7 DEF IInv, MaterializedVerified, Valid
<1> QED  BY <1>1, <1>3, <1>4, <1>8

(* Every step, a crash included, keeps the links and the chain of trust.   *)
LEMMA SoundStep == IInv /\ [Next]_vars => (ActivationSound /\ MaterializedVerified /\ RunInv)'
<1> SUFFICES ASSUME IInv, [Next]_vars
             PROVE  ActivationSound' /\ MaterializedVerified' /\ RunInv'
  OBVIOUS
<1> USE DEF disk, targets, ghosts
<1> DEFINE Goal == ActivationSound' /\ MaterializedVerified' /\ RunInv'
<1>a. TypeOK /\ RunInv /\ ActivationSound /\ MaterializedVerified
  BY DEF IInv
<1>b. \A x \in DOMAIN releases : x \in Versions
  BY <1>a, PartialFunctionsDef DEF TypeOK
<1>c. current # None => current \in DOMAIN releases
  BY <1>a DEF ActivationSound
<1>1. ASSUME NEW c \in Candidate, NEW anchor \in Anchors, NEW adopt \in BOOLEAN,
             InstallTrust(c, anchor, adopt)
      PROVE  Goal
  <2>1. c.version \in Versions /\ c.claimed \in Digests /\ c.signer \in Anchors
    BY DEF Candidate
  <2>2. /\ run'.cmd = "install" /\ run'.pc = "check" /\ run'.version = c.version /\ run'.sha = c.claimed
        /\ run'.old = None /\ run'.signer = c.signer
    BY <1>1, <1>a, <2>1, BeginRun DEF InstallTrust, Commands, Steps
  <2>3. trust' # None /\ trust' = c.signer
    BY <1>1, NoneAssumption DEF InstallTrust, Verified
  <2>4. ActivationSound' /\ MaterializedVerified'
    BY <1>1, <1>a, <2>3 DEF InstallTrust, ActivationSound, MaterializedVerified, Valid
  <2>5. RunInv'
    BY <2>1, <2>2, <2>3 DEF RunInv, At, Switched, Materialized
  <2> QED  BY <2>4, <2>5
<1>2. ASSUME InstallPromote PROVE Goal
  <2>1. /\ run'.pc = "link" /\ run'.version = run.version /\ run'.sha = run.sha
        /\ run'.cmd = run.cmd /\ run'.old = run.old
    BY <1>2, <1>a, GoToRun DEF InstallPromote, Steps
  <2>2. /\ run.version \in Versions /\ run.sha \in Digests
        /\ trust \in Anchors /\ run.signer = trust
    BY <1>2, <1>a DEF InstallPromote, RunInv, TypeOK
  <2>3. /\ ActivationSound' /\ MaterializedVerified'
        /\ DOMAIN releases' = DOMAIN releases \cup {run.version}
        /\ releases'[run.version] = run.sha
    BY <1>2, <2>2, PromoteSound DEF InstallPromote
  <2>4. run.cmd = "install"
    BY <1>2, <1>a DEF InstallPromote, RunInv
  <2>5. RunInv'
    BY <1>a, <2>1, <2>3, <2>4 DEF RunInv, At, Switched, Materialized
  <2> QED  BY <2>3, <2>5
<1>3. ASSUME InstallRefused PROVE Goal
  BY <1>3, Kept, NoRunRelied DEF InstallRefused
<1>4. ASSUME InstallState PROVE Goal
  <2>1. /\ run'.pc = "deploy" /\ run'.version = run.version /\ run'.sha = run.sha
        /\ run'.cmd = run.cmd /\ run'.old = run.old
    BY <1>4, <1>a, GoToRun DEF InstallState, Steps
  <2>2. state'.previous = None /\ DOMAIN state'.releases = {}
    BY <1>4, NothingIsPartial DEF InstallState
  <2>3. ActivationSound' /\ MaterializedVerified'
    BY <1>4, <1>a, <2>2 DEF InstallState, ActivationSound, MaterializedVerified, Valid
  <2>4. state' # None
    <3>1. state' \in StateFile
      BY <1>4, NothingIsPartial DEF InstallState, StateFile
    <3> QED  BY <3>1, NoneAssumption
  <2>5. RunInv'
    BY <1>4, <2>1, <2>4, RunKept DEF InstallState, At, Switched, Materialized
  <2> QED  BY <2>3, <2>5
<1>5. ASSUME NEW c \in Candidate, UpdatePromote(c) PROVE Goal
  <2>1. /\ c.version \in Versions /\ c.digest \in Digests /\ c.claimed = c.digest
        /\ trust # None /\ state # None /\ c.signer = trust
        /\ c.signer \in Anchors /\ trust \in Anchors /\ c.signer \in Anchors \cup {None}
    BY <1>5 DEF Candidate, UpdatePromote, Updatable, Verified
  <2>2. /\ run'.pc = "link" /\ run'.version = c.version /\ run'.sha = c.digest
        /\ run'.cmd = "update" /\ run'.old = current
    BY <1>5, <1>a, <2>1, BeginUpdate
  <2>3. /\ ActivationSound' /\ MaterializedVerified'
        /\ DOMAIN releases' = DOMAIN releases \cup {c.version}
        /\ releases'[c.version] = c.digest
    BY <1>5, <2>1, PromoteSound DEF UpdatePromote
  <2>4. RunInv'
    BY <1>5, <1>c, <2>1, <2>2, <2>3 DEF UpdatePromote, RunInv, At, Switched, Materialized
  <2> QED  BY <2>3, <2>4
<1>6. ASSUME NEW c \in Candidate, UpdateKnown(c) PROVE Goal
  <2>1. /\ c.version \in DOMAIN releases /\ releases[c.version] = c.claimed
        /\ state # None
    BY <1>6, <1>a DEF UpdateKnown, Updatable, MaterializedVerified
  <2>2. c.version \in Versions /\ c.claimed \in Digests /\ c.signer \in Anchors \cup {None}
    BY DEF Candidate
  <2>3. /\ run'.pc = "link" /\ run'.version = c.version /\ run'.sha = c.claimed
        /\ run'.cmd = "update" /\ run'.old = current
    BY <1>6, <1>a, <2>2, BeginUpdate
  <2>4. ActivationSound' /\ MaterializedVerified'
    BY <1>6, Kept DEF UpdateKnown
  <2>5. RunInv'
    BY <1>6, <1>c, <2>1, <2>3 DEF UpdateKnown, RunInv, At, Switched, Materialized
  <2> QED  BY <2>4, <2>5
<1>7. ASSUME Rollback PROVE Goal
  <2>1. state.previous \in Versions /\ state.previous \in DOMAIN releases /\ state # None
    BY <1>7, <1>b DEF Rollback
  <2>2. /\ run'.pc = "previous" /\ run'.version = state.previous
        /\ run'.cmd = "rollback" /\ run'.old = current
    BY <1>7, <1>a, <2>1, BeginRun DEF Rollback, Commands, Steps
  <2>3. ActivationSound' /\ MaterializedVerified'
    BY <1>7, <1>a, <2>1, NoneAssumption
    DEF Rollback, ActivationSound, MaterializedVerified, Valid
  <2>4. RunInv'
    BY <1>7, <1>c, <2>1, <2>2 DEF Rollback, RunInv, At, Switched, Materialized
  <2> QED  BY <2>3, <2>4
<1>8. ASSUME Link PROVE Goal
  <2>1. /\ run'.pc \in {"state", "previous"} /\ run'.version = run.version
        /\ run'.pc = "state" <=> run.cmd = "install"
        /\ run'.sha = run.sha /\ run'.cmd = run.cmd /\ run'.old = run.old
    BY <1>8, <1>a, GoToRun DEF Link, Steps
  <2>2. run.version \in DOMAIN releases /\ run.version # None
    BY <1>8, <1>a, <1>b, NoneAssumption DEF Link, RunInv, At, Materialized
  <2>3. ActivationSound' /\ MaterializedVerified'
    BY <1>8, <1>a, <2>2 DEF Link, ActivationSound, MaterializedVerified, Valid
  <2>4. run.cmd # "install" => state # None
    BY <1>8, <1>a DEF Link, RunInv
  <2>5. RunInv'
    BY <1>8, <1>a, <2>1, <2>4 DEF Link, RunInv, At, Switched, Materialized
  <2> QED  BY <2>3, <2>5
<1>9. ASSUME StatePrevious PROVE Goal
  <2>1. /\ run'.pc = "prevlink" /\ run'.version = run.version /\ run'.sha = run.sha
        /\ run'.cmd = run.cmd /\ run'.old = run.old
    BY <1>9, <1>a, GoToRun DEF StatePrevious, Steps
  <2>2. state # None /\ (run.old # None => run.old \in DOMAIN releases)
    BY <1>9, <1>a DEF StatePrevious, At, RunInv, Switched, Materialized
  <2>3. /\ state' # None /\ state'.previous = run.old /\ state'.releases = state.releases
    <3>1. state \in StateFile
      BY <1>a, <2>2 DEF TypeOK, StateFile
    <3>2. state' = [state EXCEPT !.previous = run.old]
      BY <1>9 DEF StatePrevious
    <3>3. state' \in StateFile
      BY <1>a, <3>1, <3>2 DEF TypeOK, Run, StateFile
    <3> QED  BY <3>1, <3>2, <3>3, NoneAssumption DEF StateFile
  <2>4. ActivationSound' /\ MaterializedVerified'
    BY <1>9, <1>a, <2>2, <2>3
    DEF StatePrevious, ActivationSound, MaterializedVerified, Valid
  <2>5. RunInv'
    BY <1>9, <2>1, <2>3, RunKept DEF StatePrevious, At, Switched, Materialized
  <2> QED  BY <2>4, <2>5
<1>10. ASSUME LinkPrevious PROVE Goal
  <2>1. /\ run'.pc = "deploy" /\ run'.version = run.version /\ run'.sha = run.sha
        /\ run'.cmd = run.cmd /\ run'.old = run.old
    BY <1>10, <1>a, GoToRun DEF LinkPrevious, Steps
  <2>2. state # None /\ (run.old # None => run.old \in DOMAIN releases)
    BY <1>10, <1>a DEF LinkPrevious, At, RunInv, Switched, Materialized
  <2>3. ActivationSound' /\ MaterializedVerified'
    BY <1>10, <1>a, <2>2 DEF LinkPrevious, ActivationSound, MaterializedVerified, Valid
  <2>4. RunInv'
    BY <1>10, <2>1, <2>2, RunKept DEF LinkPrevious, At, Switched, Materialized
  <2> QED  BY <2>3, <2>4
<1>11. ASSUME NEW t \in Targets, Deploy(t) PROVE Goal
  <2>1. /\ run'.pc = run.pc /\ run'.version = run.version /\ run'.sha = run.sha
        /\ run'.cmd = run.cmd /\ run'.old = run.old
    BY <1>11, <1>a DEF Deploy, TypeOK
  <2>2. RunInv'
    BY <1>11, <1>a, <2>1 DEF Deploy, RunInv, At
  <2> QED  BY <1>11, <2>2, Kept DEF Deploy
<1>12. ASSUME DeployActivation PROVE Goal
  <2>1. /\ run'.pc = "own" /\ run'.version = run.version /\ run'.sha = run.sha
        /\ run'.cmd = run.cmd /\ run'.old = run.old
    BY <1>12, <1>a, GoToRun DEF DeployActivation, Steps
  <2>2. state # None /\ current # None
    BY <1>12, <1>a, <1>b, NoneAssumption
    DEF DeployActivation, At, RunInv, Switched, Materialized
  <2>3. ActivationSound' /\ MaterializedVerified'
    BY <1>12, <1>a, <2>2 DEF DeployActivation, ActivationSound, MaterializedVerified, Valid
  <2>4. RunInv'
    BY <1>12, <2>1, <2>2, RunKept DEF DeployActivation, At, Switched, Materialized
  <2> QED  BY <2>3, <2>4
<1>13. ASSUME DeployRecorded PROVE Goal
  <2>1. /\ run'.pc \in {"reload", "record"} /\ run'.version = run.version
        /\ run'.pc = "record" => run.cmd # "rollback"
        /\ run'.sha = run.sha /\ run'.cmd = run.cmd /\ run'.old = run.old
    BY <1>13, <1>a, GoToRun DEF DeployRecorded, Steps
  <2>2. state # None
    BY <1>13, <1>a DEF DeployRecorded, At, RunInv, Switched, Materialized
  <2>3. state' # None /\ state'.previous = state.previous /\ state'.releases = state.releases
    <3>1. state \in StateFile
      BY <1>a, <2>2 DEF TypeOK, StateFile
    <3>2. Payload[releases[run.version]] \in PartialFunctions(Targets, Contents)
      <4>1. run.version \in DOMAIN releases
        BY <1>13, <1>a DEF DeployRecorded, At, RunInv, Switched, Materialized
      <4>2. releases[run.version] \in Digests
        BY <4>1, <1>a, PartialFunctionsDef DEF TypeOK
      <4> QED  BY <4>2, PayloadIsPartial
    <3>3. state' \in StateFile
      BY <1>13, <3>1, <3>2 DEF DeployRecorded, StateFile
    <3> QED  BY <1>13, <3>1, <3>3, NoneAssumption DEF DeployRecorded, StateFile
  <2>4. ActivationSound' /\ MaterializedVerified'
    BY <1>13, <1>a, <2>2, <2>3
    DEF DeployRecorded, ActivationSound, MaterializedVerified, Valid
  <2>5. RunInv'
    BY <1>13, <1>a, <2>1, <2>3 DEF DeployRecorded, RunInv, At, Switched, Materialized
  <2> QED  BY <2>4, <2>5
<1>14. ASSUME RecordRelease PROVE Goal
  <2>1. /\ run'.pc = "reload" /\ run'.version = run.version /\ run'.sha = run.sha
        /\ run'.cmd = run.cmd /\ run'.old = run.old
    BY <1>14, <1>a, GoToRun DEF RecordRelease, Steps
  <2>2. /\ state # None /\ run.version \in DOMAIN releases
        /\ releases[run.version] = run.sha
    BY <1>14, <1>a DEF RecordRelease, At, RunInv, Switched, Materialized
  <2>3. state \in StateFile
    BY <1>a, <2>2 DEF TypeOK, StateFile
  <2>4. state' = [state EXCEPT !.releases = With(state.releases, run.version, run.sha)]
    BY <1>14 DEF RecordRelease
  <2>5. /\ state' # None /\ state'.previous = state.previous
        /\ state'.releases = With(state.releases, run.version, run.sha)
    <3>1. run.version \in Versions /\ run.sha \in Digests
      BY <1>a, <2>2, PartialFunctionsDef DEF TypeOK
    <3>2. With(state.releases, run.version, run.sha) \in PartialFunctions(Versions, Digests)
      BY <2>3, <3>1, WithAdds DEF StateFile
    <3>3. state' \in StateFile
      BY <2>3, <2>4, <3>2 DEF StateFile
    <3> QED  BY <2>3, <2>4, <3>3, NoneAssumption DEF StateFile
  <2>6. /\ DOMAIN state'.releases = DOMAIN state.releases \cup {run.version}
        /\ state'.releases[run.version] = run.sha
        /\ \A v \in DOMAIN state.releases :
              v # run.version => state'.releases[v] = state.releases[v]
    BY <2>5 DEF With
  <2>7. ActivationSound'
    BY <1>14, <1>a, <2>2, <2>5 DEF RecordRelease, ActivationSound
  <2>8. MaterializedVerified'
    BY <1>14, <1>a, <2>2, <2>6 DEF RecordRelease, MaterializedVerified, Valid
  <2>9. RunInv'
    BY <1>14, <2>1, <2>5, RunKept DEF RecordRelease, At, Switched, Materialized
  <2> QED  BY <2>7, <2>8, <2>9
<1>15. ASSUME Reload \/ Enable PROVE Goal
  <2>1. /\ run'.pc \in {"restart", "enable"} /\ run'.version = run.version
        /\ run'.sha = run.sha /\ run'.cmd = run.cmd /\ run'.old = run.old
    <3>1. CASE Reload
      BY <3>1, <1>a, GoToRun DEF Reload, Steps
    <3>2. CASE Enable
      BY <3>2, <1>a, GoToRun DEF Enable, Steps
    <3> QED  BY <1>15, <3>1, <3>2
  <2>2. service'.running = service.running
    BY <1>15, <1>a DEF Reload, Enable, TypeOK
  <2>3. run.pc \in {"reload", "enable"} /\ state # None
    BY <1>15, <1>a DEF Reload, Enable, At, RunInv, Switched, Materialized
  <2>4. RunInv'
    BY <1>15, <2>1, <2>3, RunKept DEF Reload, Enable, At, Switched, Materialized
  <2> QED  BY <1>15, <2>2, <2>4, Kept DEF Reload, Enable
<1>16. ASSUME Restart PROVE Goal
  <2>1. service'.running \in {None, current}
    BY <1>16, <1>a DEF Restart, TypeOK
  <2>2. ActivationSound' /\ MaterializedVerified'
    BY <1>16, <1>a, <2>1 DEF Restart, ActivationSound, MaterializedVerified, Valid
  <2> QED  BY <1>16, <2>2, NoRunRelied DEF Restart
<1>17. ASSUME Crash PROVE Goal
  BY <1>17, Kept, NoRunRelied DEF Crash
<1>18. ASSUME Interfered, UNCHANGED disk PROVE RunInv'
  <2>1. /\ run'.pc = run.pc /\ run'.version = run.version /\ run'.sha = run.sha
        /\ run'.cmd = run.cmd /\ run'.old = run.old /\ run'.signer = run.signer
    BY <1>18, <1>a DEF Interfered, TypeOK
  <2> QED  BY <1>18, <1>a, <2>1 DEF RunInv, At
<1>19. ASSUME NEW t \in Targets, NEW content \in Contents \cup {Absent}, Edit(t, content)
       PROVE  Goal
  BY <1>19, <1>18, Kept DEF Edit
<1>20. ASSUME NEW entry \in {"absent", "foreign"}, EditActivation(entry)
       PROVE  Goal
  <2>1. RunInv'
    BY <1>20, <1>18 DEF EditActivation
  <2> QED
    BY <1>20, <1>a, <2>1
    DEF EditActivation, ActivationSound, MaterializedVerified, Valid
<1>21. ASSUME Start \/ Stop PROVE Goal
  <2>1. service'.running \in {None, current}
    BY <1>21, <1>a DEF Start, Stop, TypeOK
  <2>2. RunInv'
    BY <1>21, <1>a DEF Start, Stop, RunInv, At
  <2> QED
    BY <1>21, <1>a, <2>1, <2>2
    DEF Start, Stop, ActivationSound, MaterializedVerified, Valid
<1>22. ASSUME UNCHANGED vars PROVE Goal
  <2>1. RunInv'
    BY <1>22, <1>a DEF vars, RunInv, At
  <2> QED  BY <1>22, <2>1, Kept DEF vars
<1> QED
  BY <1>1, <1>2, <1>3, <1>4, <1>5, <1>6, <1>7, <1>8, <1>9, <1>10, <1>11, <1>12, <1>13,
     <1>14, <1>15, <1>16, <1>17, <1>19, <1>20, <1>21, <1>22
  DEF Next, Install, Update, Switch, World

-----------------------------------------------------------------------------
(* The invariant, and what follows from it at once.                        *)

(* The first layer of the invariant holds in every reachable state.        *)
LEMMA IInvInvariant == Spec => []IInv
<1>1. Init => IInv
  BY TypeInit, SoundInit DEF IInv
<1>2. IInv /\ [Next]_vars => IInv'
  BY TypeStep, SoundStep DEF IInv
<1> QED  BY <1>1, <1>2, PTL DEF Spec

(* The state of the tool, its files and its runs have their types.         *)
THEOREM LifecycleTypes == Spec => []TypeOK
<1>1. IInv => TypeOK
  BY DEF IInv
<1> QED  BY <1>1, IInvInvariant, PTL

(* At every moment, between any two steps of a command and after a failure *)
(* at any of them, every link leads to a release that is there.            *)
THEOREM NeverDangling == Spec => []ActivationSound
<1>1. IInv => ActivationSound
  BY DEF IInv
<1> QED  BY <1>1, IInvInvariant, PTL

(* Whatever is materialized is well-formed and came with a manifest that   *)
(* the pinned anchor has signed, and state.json records the digest of what *)
(* is there.  An anchor is pinned before anything is materialized under it,*)
(* and what is checked in one step of an install is used in a later one.   *)
THEOREM ChainOfTrust == Spec => []MaterializedVerified
<1>1. IInv => MaterializedVerified
  BY DEF IInv
<1> QED  BY <1>1, IInvInvariant, PTL

(* No step of the tool changes a release or the anchor, or takes one away. *)
THEOREM ReleasesImmutable == Spec => NothingRewritten
<1> DEFINE Immutable ==
      /\ \A v \in DOMAIN releases : v \in DOMAIN releases' /\ releases'[v] = releases[v]
      /\ trust # None => trust' = trust
<1>1. IInv /\ [Next]_vars => [Immutable]_vars
  <2> SUFFICES ASSUME IInv, [Next]_vars PROVE Immutable
    OBVIOUS
  <2> USE DEF disk, targets, ghosts
  <2>1. ASSUME NEW version \in Versions, NEW digest \in Digests, Promotable(version),
               releases' = With(releases, version, digest)
        PROVE  \A v \in DOMAIN releases : v \in DOMAIN releases' /\ releases'[v] = releases[v]
    BY <2>1 DEF Promotable, With
  <2>2. ASSUME NEW c \in Candidate, UpdatePromote(c) PROVE Immutable
    BY <2>1, <2>2 DEF UpdatePromote, Candidate
  <2>3. CASE InstallPromote
    BY <2>1, <2>3 DEF InstallPromote, IInv, RunInv
  <2>4. ASSUME UNCHANGED releases, trust # None => trust' = trust PROVE Immutable
    BY <2>4
  <2>5. CASE Install /\ ~InstallPromote
    BY <2>4, <2>5 DEF Install, InstallTrust, InstallRefused, InstallState
  <2>6. ASSUME NEW c \in Candidate, UpdateKnown(c) PROVE Immutable
    BY <2>4, <2>6 DEF UpdateKnown
  <2>7. CASE Rollback
    BY <2>4, <2>7 DEF Rollback
  <2>8. CASE Switch
    BY <2>4, <2>8
    DEF Switch, Link, StatePrevious, LinkPrevious, Deploy, DeployActivation,
        DeployRecorded, RecordRelease, Reload, Enable, Restart
  <2>9. CASE Crash \/ World \/ UNCHANGED vars
    BY <2>4, <2>9 DEF Crash, World, Edit, EditActivation, Start, Stop, vars
  <2> QED  BY <2>2, <2>3, <2>5, <2>6, <2>7, <2>8, <2>9 DEF Next, Update
<1> QED  BY <1>1, IInvInvariant, PTL DEF Spec, NothingRewritten

-----------------------------------------------------------------------------
(* What a run achieves: the second layer of the invariant, over IInv.      *)

Units == Payload[releases[run.version]]

\* Before the first switch there is nothing to go back to.
FirstInv ==
    /\ current = None => previous = None /\ undo = None
    /\ At("check") \/ (At("link") /\ run.cmd = "install") => current = None /\ run.old = None
    /\ At("state") => previous = None /\ undo = None

\* Where rollback leads.
ReturnInv ==
    /\ At("previous") => undo = run.old
    /\ At("prevlink") => state.previous = run.old
    /\ undo # None /\ ~lost /\ ~At("previous") => state # None /\ state.previous = undo
    /\ run.pc \in {"deploy", "own", "record", "reload", "enable", "restart"} =>
          state.previous = previous

\* The targets a run has still to write.
TodoInv ==
    /\ run.pc \in Materialized \ {"deploy"} =>
          run.todo = IF run.pc \in {"link", "state", "previous", "prevlink"} THEN Targets ELSE {}
    /\ At("check") => run.todo = Targets
    /\ run.pc \in Materialized => \A t \in Targets \ run.todo : Units[t] \in deployed[t]

\* Whose the files are: what is recorded as owned was deployed by the tool,
\* and what a run of install or update has still to replace was so too, if
\* nobody has interfered.
OwnedInv ==
    /\ state # None => \A t \in DOMAIN state.owned : state.owned[t] \in deployed[t]
    /\ run.pc \in Materialized /\ run.cmd # "rollback" /\ ~run.raced =>
          \A t \in Targets : files[t] \in {Absent, Units[t]} \cup deployed[t]

\* What a run has achieved so far, if nobody has interfered.
AchievedInv ==
    /\ run.pc \in Materialized /\ ~run.raced => \A t \in Targets \ run.todo : files[t] = Units[t]
    /\ run.pc \in {"own", "record", "reload", "enable", "restart"} /\ ~run.raced =>
          activation = "managed"
    /\ run.pc \in {"record", "reload", "enable", "restart"} => state.owned = Units
    /\ run.pc \in {"enable", "restart"} /\ ~run.raced => service.units = Units
    /\ completed => Idle /\ state # None /\ current # None

FullInv ==
    /\ IInv
    /\ crashes \in Nat /\ edits \in Nat
    /\ FirstInv
    /\ ReturnInv
    /\ TodoInv
    /\ OwnedInv
    /\ AchievedInv
    /\ CompletedRunConsistent

-----------------------------------------------------------------------------
(* The second layer is inductive as well.                                  *)

SameRun ==
    /\ run'.cmd = run.cmd /\ run'.version = run.version /\ run'.sha = run.sha
    /\ run'.adopt = run.adopt /\ run'.old = run.old /\ run'.todo = run.todo
    /\ run'.raced = run.raced

(* Where each step of a run goes, and that it keeps the rest of the run.   *)
LEMMA Moves ==
    ASSUME IInv
    PROVE  /\ InstallPromote => run'.pc = "link" /\ SameRun
           /\ InstallState => run'.pc = "deploy" /\ SameRun
           /\ Link => /\ SameRun
                      /\ run'.pc = IF run.cmd = "install" THEN "state" ELSE "previous"
           /\ StatePrevious => run'.pc = "prevlink" /\ SameRun
           /\ LinkPrevious => run'.pc = "deploy" /\ SameRun
           /\ DeployActivation => run'.pc = "own" /\ SameRun
           /\ DeployRecorded => /\ SameRun
                                /\ run'.pc = IF run.cmd = "rollback" THEN "reload" ELSE "record"
           /\ RecordRelease => run'.pc = "reload" /\ SameRun
           /\ Reload => /\ SameRun
                        /\ run'.pc = IF run.cmd = "rollback" THEN "restart" ELSE "enable"
           /\ Enable => run'.pc = "restart" /\ SameRun
<1>1. TypeOK
  BY DEF IInv
<1>2. ASSUME NEW pc \in Steps, GoTo(pc) PROVE run'.pc = pc /\ SameRun
  BY <1>1, <1>2, GoToRun DEF SameRun
<1> QED
  BY <1>2
  DEF InstallPromote, InstallState, Link, StatePrevious, LinkPrevious, DeployActivation,
      DeployRecorded, RecordRelease, Reload, Enable, Steps

(* What each write of state.json changes.                                  *)
LEMMA Writes ==
    ASSUME IInv
    PROVE  /\ InstallState => state'.previous = None /\ DOMAIN state'.owned = {}
           /\ StatePrevious => state'.previous = run.old /\ state'.owned = state.owned
           /\ DeployRecorded => state'.previous = state.previous /\ state'.owned = Units
           /\ RecordRelease => state'.previous = state.previous /\ state'.owned = state.owned
<1>1. state = None \/ state \in StateFile
  BY DEF IInv, TypeOK
<1>2. run.pc \in Switched \ {"state"} => state \in StateFile
  BY <1>1 DEF IInv, RunInv
<1>3. InstallState => state'.previous = None /\ DOMAIN state'.owned = {}
  BY NothingIsPartial DEF InstallState
<1>4. StatePrevious => state'.previous = run.old /\ state'.owned = state.owned
  BY <1>2 DEF StatePrevious, At, StateFile, Switched, Materialized
<1>5. DeployRecorded => state'.previous = state.previous /\ state'.owned = Units
  BY <1>2 DEF DeployRecorded, At, StateFile, Switched, Materialized, Units
<1>6. RecordRelease => state'.previous = state.previous /\ state'.owned = state.owned
  <2> SUFFICES ASSUME RecordRelease
               PROVE  state'.previous = state.previous /\ state'.owned = state.owned
    OBVIOUS
  <2>1. state' = [state EXCEPT !.releases = With(state.releases, run.version, run.sha)]
    BY DEF RecordRelease
  <2>2. state \in StateFile
    BY <1>2 DEF RecordRelease, At, Switched, Materialized
  <2> QED  BY <2>1, <2>2 DEF StateFile
<1> QED  BY <1>3, <1>4, <1>5, <1>6

(* When there is no run and none has completed, only what outlives a run   *)
(* has to be shown.                                                        *)
LEMMA Rest ==
    ASSUME FullInv, Idle', ~completed', UNCHANGED <<disk, undo>>, deployed' = deployed,
           undo # None /\ ~lost' => state # None /\ state.previous = undo
    PROVE  FirstInv' /\ ReturnInv' /\ TodoInv' /\ OwnedInv' /\ AchievedInv'
           /\ CompletedRunConsistent'
BY DEF FullInv, disk, Idle, At, FirstInv, ReturnInv, TodoInv, OwnedInv, AchievedInv,
       CompletedRunConsistent, Materialized

(* A run that begins has everything still to do.                           *)
LEMMA Fresh ==
    ASSUME FullInv, Idle, ~completed', NEW pc \in {"check", "link"}, run'.pc = pc,
           run'.todo = Targets, run'.old = current, UNCHANGED <<current, previous, state>>,
           UNCHANGED <<undo, lost, deployed>>,
           pc = "check" \/ run'.cmd = "install" => current = None
    PROVE  FirstInv' /\ ReturnInv' /\ TodoInv'
           /\ (state # None => \A t \in DOMAIN state.owned : state.owned[t] \in deployed[t])'
           /\ AchievedInv' /\ CompletedRunConsistent'
BY DEF FullInv, Idle, At, FirstInv, ReturnInv, TodoInv, OwnedInv, AchievedInv,
       CompletedRunConsistent, Materialized

(* What check_foreign_state lets pass is absent, was put there by the tool *)
(* or equals the payload.                                                  *)
LEMMA Unseized ==
    ASSUME FullInv, NEW digest \in Digests, NEW adopt \in BOOLEAN, Unproblematic(digest, adopt),
           NEW t \in Targets
    PROVE  files[t] \in {Absent, Payload[digest][t]} \cup deployed[t]
<1>1. t \in DOMAIN Owned => state # None /\ Owned = state.owned
  BY NothingIsPartial DEF Owned
<1>2. state # None => \A u \in DOMAIN state.owned : state.owned[u] \in deployed[u]
  BY DEF FullInv, OwnedInv
<1> QED  BY <1>1, <1>2 DEF Unproblematic

(* At first there is no run, nothing is owned and nothing has completed.   *)
LEMMA FullInit == Init => FullInv
<1> SUFFICES ASSUME Init PROVE FullInv
  OBVIOUS
<1>1. IInv
  BY TypeInit, SoundInit DEF IInv
<1>2. run.pc = "idle" /\ state = None /\ undo = None /\ previous = None /\ completed = FALSE
  BY NoRunIsRun DEF Init
<1> QED
  BY <1>1, <1>2
  DEF Init, FullInv, FirstInv, ReturnInv, TodoInv, OwnedInv, AchievedInv, CompletedRunConsistent,
      At, Materialized

(* Every step keeps the second layer, given that it keeps the first.       *)
LEMMA FullStep == FullInv /\ IInv' /\ [Next]_vars => FullInv'
<1> SUFFICES ASSUME FullInv, IInv', [Next]_vars PROVE FullInv'
  OBVIOUS
<1> USE DEF disk, targets, ghosts
<1> DEFINE Goal == FirstInv' /\ ReturnInv' /\ TodoInv' /\ OwnedInv' /\ AchievedInv'
                   /\ CompletedRunConsistent'
<1>a. IInv /\ TypeOK /\ RunInv
  BY DEF FullInv, IInv
<1>b. ~Idle => completed = FALSE
  BY <1>a DEF FullInv, AchievedInv, TypeOK
<1>c. /\ run.pc \in Switched => current = run.version /\ current # None
      /\ run.pc \in Switched \ {"state"} => state # None
  <2>1. run.pc \in Switched => run.version # None
    BY <1>a, PartialFunctionsDef, NoneAssumption DEF RunInv, TypeOK, Switched
  <2> QED  BY <1>a, <2>1 DEF RunInv
<1>1. ASSUME NEW c \in Candidate, NEW anchor \in Anchors, NEW adopt \in BOOLEAN,
             InstallTrust(c, anchor, adopt)
      PROVE  Goal
  <2>1. c.version \in Versions /\ c.claimed \in Digests /\ c.signer \in Anchors \cup {None}
    BY DEF Candidate
  <2>2. /\ run'.pc = "check" /\ run'.cmd = "install" /\ run'.old = current
        /\ run'.todo = Targets
    BY <1>1, <1>a, <2>1, BeginRun DEF InstallTrust, Commands, Steps
  <2>3. /\ FirstInv' /\ ReturnInv' /\ TodoInv' /\ AchievedInv' /\ CompletedRunConsistent'
        /\ (state # None => \A t \in DOMAIN state.owned : state.owned[t] \in deployed[t])'
    BY <1>1, <2>2, Fresh DEF InstallTrust
  <2>4. OwnedInv'
    BY <2>2, <2>3 DEF OwnedInv, Materialized
  <2> QED  BY <2>3, <2>4
<1>2. ASSUME InstallPromote PROVE Goal
  <2>1. run'.pc = "link" /\ SameRun
    BY <1>2, <1>a, Moves
  <2>2. /\ run.pc = "check" /\ run.cmd = "install"
        /\ run.version \in Versions /\ run.sha \in Digests /\ run.adopt \in BOOLEAN
    BY <1>2, <1>a DEF InstallPromote, RunInv, TypeOK, At
  <2>3. releases'[run'.version] = run.sha
    <3>1. releases' = With(releases, run.version, run.sha) /\ run'.version = run.version
      BY <1>2, <2>1 DEF InstallPromote, SameRun
    <3> QED  BY <3>1 DEF With
  <2>4. \A t \in Targets : files[t] \in {Absent, Units'[t]} \cup deployed[t]
    BY <1>2, <2>2, <2>3, Unseized DEF InstallPromote, Units
  <2>5. FirstInv' /\ ReturnInv'
    BY <1>2, <2>1, <2>2 DEF InstallPromote, SameRun, FullInv, FirstInv, ReturnInv, At
  <2>6. TodoInv' /\ OwnedInv'
    BY <1>2, <2>1, <2>2, <2>4
    DEF InstallPromote, SameRun, FullInv, TodoInv, OwnedInv, At, Materialized
  <2>7. AchievedInv' /\ CompletedRunConsistent'
    BY <1>2, <1>b, <2>1, <2>2
    DEF InstallPromote, SameRun, FullInv, TodoInv, AchievedInv, CompletedRunConsistent, At,
        Idle, Materialized
  <2> QED  BY <2>5, <2>6, <2>7
<1>3. ASSUME InstallRefused PROVE Goal
  <2>1. ~completed' /\ Idle'
    BY <1>3, <1>b, NoRunIsRun DEF InstallRefused, Idle, At
  <2> QED  BY <1>3, <2>1, Rest DEF InstallRefused, FullInv, ReturnInv, At
<1>4. ASSUME InstallState PROVE Goal
  <2>1. run'.pc = "deploy" /\ SameRun /\ run.pc = "state"
    BY <1>4, <1>a, Moves DEF InstallState, At
  <2>2. state'.previous = None /\ DOMAIN state'.owned = {}
    BY <1>4, <1>a, Writes
  <2>3. FirstInv' /\ ReturnInv'
    BY <1>4, <1>c, <2>1, <2>2
    DEF InstallState, FullInv, FirstInv, ReturnInv, At, Switched, Materialized
  <2>4. TodoInv' /\ OwnedInv'
    BY <1>4, <2>1, <2>2
    DEF InstallState, SameRun, FullInv, TodoInv, OwnedInv, At, Materialized, Units
  <2>5. AchievedInv' /\ CompletedRunConsistent'
    BY <1>4, <1>b, <2>1
    DEF InstallState, SameRun, FullInv, TodoInv, AchievedInv, CompletedRunConsistent, At,
        Idle, Materialized
  <2> QED  BY <2>3, <2>4, <2>5
<1>5. ASSUME NEW c \in Candidate, UpdatePromote(c) PROVE Goal
  <2>1. /\ c.version \in Versions /\ c.digest \in Digests /\ c.claimed = c.digest
        /\ c.signer \in Anchors \cup {None} /\ FALSE \in BOOLEAN
    BY <1>5 DEF Candidate, UpdatePromote, Updatable, Verified
  <2>2. /\ run'.pc = "link" /\ run'.cmd = "update" /\ run'.old = current
        /\ run'.todo = Targets /\ run'.version = c.version
    BY <1>5, <1>a, <2>1, BeginUpdate
  <2>3. /\ FirstInv' /\ ReturnInv' /\ TodoInv' /\ AchievedInv' /\ CompletedRunConsistent'
        /\ (state # None => \A t \in DOMAIN state.owned : state.owned[t] \in deployed[t])'
    BY <1>5, <2>2, Fresh DEF UpdatePromote, Updatable
  <2>4. releases'[run'.version] = c.digest
    <3>1. releases' = With(releases, c.version, c.digest) /\ run'.version = c.version
      BY <1>5, <2>2 DEF UpdatePromote
    <3> QED  BY <3>1 DEF With
  <2>5. \A t \in Targets : files[t] \in {Absent, Units'[t]} \cup deployed[t]
    BY <1>5, <2>1, <2>4, Unseized DEF UpdatePromote, Units
  <2>6. OwnedInv'
    BY <1>5, <2>2, <2>3, <2>5 DEF UpdatePromote, OwnedInv
  <2> QED  BY <2>3, <2>6
<1>6. ASSUME NEW c \in Candidate, UpdateKnown(c) PROVE Goal
  <2>1. /\ c.version \in Versions /\ c.claimed \in Digests /\ FALSE \in BOOLEAN
        /\ releases[c.version] \in Digests /\ c.signer \in Anchors \cup {None}
    BY <1>6, <1>a, PartialFunctionsDef DEF Candidate, UpdateKnown, TypeOK
  <2>2. /\ run'.pc = "link" /\ run'.cmd = "update" /\ run'.old = current
        /\ run'.todo = Targets /\ run'.version = c.version
    BY <1>6, <1>a, <2>1, BeginUpdate
  <2>3. /\ FirstInv' /\ ReturnInv' /\ TodoInv' /\ AchievedInv' /\ CompletedRunConsistent'
        /\ (state # None => \A t \in DOMAIN state.owned : state.owned[t] \in deployed[t])'
    BY <1>6, <2>2, Fresh DEF UpdateKnown, Updatable
  <2>4. \A t \in Targets : files[t] \in {Absent, Units'[t]} \cup deployed[t]
    BY <1>6, <2>1, <2>2, Unseized DEF UpdateKnown, Units
  <2>5. OwnedInv'
    BY <1>6, <2>2, <2>3, <2>4 DEF UpdateKnown, OwnedInv
  <2> QED  BY <2>3, <2>5
<1>7. ASSUME Rollback PROVE Goal
  <2>1. state.previous \in Versions /\ state # None
    BY <1>7, <1>a, PartialFunctionsDef DEF Rollback, TypeOK
  <2>2. /\ run'.pc = "previous" /\ run'.cmd = "rollback" /\ run'.old = current
        /\ run'.todo = Targets
    BY <1>7, <1>a, <2>1, BeginRun DEF Rollback, Commands, Steps
  <2>3. FirstInv' /\ ReturnInv'
    BY <1>7, <2>1, <2>2, NoneAssumption DEF Rollback, FirstInv, ReturnInv, At
  <2>4. TodoInv' /\ OwnedInv'
    BY <1>7, <2>2 DEF Rollback, FullInv, TodoInv, OwnedInv, At, Materialized
  <2>5. AchievedInv' /\ CompletedRunConsistent'
    BY <1>7, <2>2 DEF Rollback, AchievedInv, CompletedRunConsistent, At, Idle
  <2> QED  BY <2>3, <2>4, <2>5
<1>8. ASSUME Link PROVE Goal
  <2>1. /\ run'.pc = IF run.cmd = "install" THEN "state" ELSE "previous"
        /\ SameRun /\ run.pc = "link"
    BY <1>8, <1>a, Moves DEF Link, At
  <2>2. run.version # None
    BY <1>a, <2>1, PartialFunctionsDef, NoneAssumption DEF RunInv, TypeOK, Materialized
  <2>3. FirstInv' /\ ReturnInv'
    BY <1>8, <2>1, <2>2 DEF Link, SameRun, FullInv, FirstInv, ReturnInv, At
  <2>4. TodoInv' /\ OwnedInv'
    BY <1>8, <2>1
    DEF Link, SameRun, FullInv, TodoInv, OwnedInv, At, Materialized, Units
  <2>5. AchievedInv' /\ CompletedRunConsistent'
    BY <1>8, <1>b, <2>1
    DEF Link, SameRun, FullInv, TodoInv, AchievedInv, CompletedRunConsistent, At, Idle,
        Materialized
  <2> QED  BY <2>3, <2>4, <2>5
<1>9. ASSUME StatePrevious PROVE Goal
  <2>1. run'.pc = "prevlink" /\ SameRun /\ run.pc = "previous"
    BY <1>9, <1>a, Moves DEF StatePrevious, At
  <2>2. state'.previous = run.old /\ state'.owned = state.owned /\ state # None /\ state' # None
    BY <1>9, <1>a, <1>c, <2>1, Writes DEF IInv, RunInv, Switched, Materialized
  <2>3. FirstInv' /\ ReturnInv'
    BY <1>9, <1>c, <2>1, <2>2
    DEF StatePrevious, SameRun, FullInv, FirstInv, ReturnInv, At, Switched, Materialized
  <2>4. TodoInv' /\ OwnedInv'
    BY <1>9, <2>1, <2>2
    DEF StatePrevious, SameRun, FullInv, TodoInv, OwnedInv, At, Materialized, Units
  <2>5. AchievedInv' /\ CompletedRunConsistent'
    BY <1>9, <1>b, <2>1
    DEF StatePrevious, SameRun, FullInv, TodoInv, AchievedInv, CompletedRunConsistent, At,
        Idle, Materialized
  <2> QED  BY <2>3, <2>4, <2>5
<1>10. ASSUME LinkPrevious PROVE Goal
  <2>1. run'.pc = "deploy" /\ SameRun /\ run.pc = "prevlink"
    BY <1>10, <1>a, Moves DEF LinkPrevious, At
  <2>2. FirstInv' /\ ReturnInv'
    BY <1>10, <1>c, <2>1
    DEF LinkPrevious, SameRun, FullInv, FirstInv, ReturnInv, At, Switched, Materialized
  <2>3. TodoInv' /\ OwnedInv'
    BY <1>10, <2>1
    DEF LinkPrevious, SameRun, FullInv, TodoInv, OwnedInv, At, Materialized, Units
  <2>4. AchievedInv' /\ CompletedRunConsistent'
    BY <1>10, <1>b, <2>1
    DEF LinkPrevious, SameRun, FullInv, TodoInv, AchievedInv, CompletedRunConsistent, At,
        Idle, Materialized
  <2> QED  BY <2>2, <2>3, <2>4
<1>11. ASSUME NEW t \in Targets, Deploy(t) PROVE Goal
  <2>1. /\ run'.pc = run.pc /\ run'.version = run.version /\ run'.cmd = run.cmd
        /\ run'.old = run.old /\ run'.raced = run.raced /\ run'.todo = run.todo \ {t}
        /\ run.pc = "deploy"
    BY <1>11, <1>a DEF Deploy, TypeOK, At
  <2>2. /\ files'[t] = Units[t]
        /\ \A u \in Targets : u # t => files'[u] = files[u]
        /\ deployed'[t] = deployed[t] \cup {files'[t]}
        /\ \A u \in Targets : u # t => deployed'[u] = deployed[u]
    BY <1>11, <1>a DEF Deploy, TypeOK, Units
  <2>3. Units' = Units
    BY <1>11, <2>1 DEF Deploy, Units
  <2>4. FirstInv' /\ ReturnInv'
    BY <1>11, <2>1 DEF Deploy, FullInv, FirstInv, ReturnInv, At
  <2>5. TodoInv'
    BY <2>1, <2>2, <2>3 DEF FullInv, TodoInv, At, Materialized
  <2>6. OwnedInv'
    <3>1. ASSUME state # None, NEW u \in DOMAIN state.owned
          PROVE  state.owned[u] \in deployed'[u]
      <4>1. u \in Targets
        BY <1>a, <3>1, PartialFunctionsDef DEF TypeOK, StateFile
      <4>2. state.owned[u] \in deployed[u]
        BY <3>1 DEF FullInv, OwnedInv
      <4> QED  BY <2>2, <4>1, <4>2
    <3>2. ASSUME run.cmd # "rollback", ~run.raced, NEW u \in Targets
          PROVE  files'[u] \in {Absent, Units[u]} \cup deployed'[u]
      BY <2>1, <2>2, <3>2 DEF FullInv, OwnedInv, Materialized
    <3>3. state' = state
      BY <1>11 DEF Deploy
    <3> QED  BY <2>1, <2>3, <3>1, <3>2, <3>3 DEF OwnedInv
  <2>7. AchievedInv' /\ CompletedRunConsistent'
    <3>1. ~run.raced => \A u \in Targets \ run'.todo : files'[u] = Units[u]
      BY <2>1, <2>2 DEF FullInv, AchievedInv, Materialized
    <3>2. completed' = FALSE
      BY <1>11, <1>b, <2>1 DEF Deploy, Idle
    <3> QED  BY <2>1, <2>3, <3>1, <3>2 DEF AchievedInv, CompletedRunConsistent, At
  <2> QED  BY <2>4, <2>5, <2>6, <2>7
<1>12. ASSUME DeployActivation PROVE Goal
  <2>1. run'.pc = "own" /\ SameRun /\ run.pc = "deploy" /\ run.todo = {}
    BY <1>12, <1>a, Moves DEF DeployActivation, At
  <2>2. FirstInv' /\ ReturnInv'
    BY <1>12, <2>1
    DEF DeployActivation, SameRun, FullInv, FirstInv, ReturnInv, At
  <2>3. TodoInv' /\ OwnedInv'
    BY <1>12, <2>1
    DEF DeployActivation, SameRun, FullInv, TodoInv, OwnedInv, At, Materialized, Units
  <2>4. AchievedInv' /\ CompletedRunConsistent'
    BY <1>12, <1>b, <2>1
    DEF DeployActivation, SameRun, FullInv, AchievedInv, CompletedRunConsistent, At, Idle,
        Materialized, Units
  <2> QED  BY <2>2, <2>3, <2>4
<1>13. ASSUME DeployRecorded PROVE Goal
  <2>1. /\ run'.pc = IF run.cmd = "rollback" THEN "reload" ELSE "record"
        /\ SameRun /\ run.pc = "own"
    BY <1>13, <1>a, Moves DEF DeployRecorded, At
  <2>2. state'.previous = state.previous /\ state'.owned = Units /\ state # None /\ state' # None
    BY <1>13, <1>a, <1>c, <2>1, Writes DEF IInv, RunInv, Switched, Materialized
  <2>3. FirstInv' /\ ReturnInv'
    BY <1>13, <2>1, <2>2
    DEF DeployRecorded, SameRun, FullInv, FirstInv, ReturnInv, At
  <2>4. Units' = Units
    BY <1>13, <2>1 DEF DeployRecorded, SameRun, Units
  <2>5. TodoInv'
    BY <1>13, <2>1, <2>4 DEF DeployRecorded, SameRun, FullInv, TodoInv, At, Materialized
  <2>6. DOMAIN Units = Targets
    <3>1. releases[run.version] \in Digests
      BY <1>a, <2>1, PartialFunctionsDef DEF RunInv, TypeOK, Materialized
    <3> QED  BY <3>1, PayloadIsPartial DEF Units
  <2>7. \A t \in Targets : Units[t] \in deployed[t]
    BY <2>1 DEF FullInv, TodoInv, Materialized
  <2>8. OwnedInv'
    BY <1>13, <2>1, <2>2, <2>4, <2>6, <2>7
    DEF DeployRecorded, SameRun, FullInv, OwnedInv, Materialized
  <2>9. AchievedInv' /\ CompletedRunConsistent'
    BY <1>13, <1>b, <2>1, <2>2, <2>4
    DEF DeployRecorded, SameRun, FullInv, AchievedInv, CompletedRunConsistent, At, Idle,
        Materialized
  <2> QED  BY <2>3, <2>5, <2>8, <2>9
<1>14. ASSUME RecordRelease PROVE Goal
  <2>1. run'.pc = "reload" /\ SameRun /\ run.pc = "record"
    BY <1>14, <1>a, Moves DEF RecordRelease, At
  <2>2. /\ state'.previous = state.previous /\ state'.owned = state.owned
        /\ state # None /\ state' # None
    BY <1>14, <1>a, <1>c, <2>1, Writes DEF IInv, RunInv, Switched, Materialized
  <2>3. FirstInv' /\ ReturnInv'
    BY <1>14, <2>1, <2>2
    DEF RecordRelease, SameRun, FullInv, FirstInv, ReturnInv, At
  <2>4. TodoInv' /\ OwnedInv'
    BY <1>14, <2>1, <2>2
    DEF RecordRelease, SameRun, FullInv, TodoInv, OwnedInv, At, Materialized, Units
  <2>5. AchievedInv' /\ CompletedRunConsistent'
    BY <1>14, <1>b, <2>1, <2>2
    DEF RecordRelease, SameRun, FullInv, AchievedInv, CompletedRunConsistent, At, Idle,
        Materialized, Units
  <2> QED  BY <2>3, <2>4, <2>5
<1>15. ASSUME Reload PROVE Goal
  <2>1. /\ run'.pc = IF run.cmd = "rollback" THEN "restart" ELSE "enable"
        /\ SameRun /\ run.pc = "reload"
    BY <1>15, <1>a, Moves DEF Reload, At
  <2>2. FirstInv' /\ ReturnInv'
    BY <1>15, <2>1 DEF Reload, SameRun, FullInv, FirstInv, ReturnInv, At
  <2>3. TodoInv' /\ OwnedInv'
    BY <1>15, <2>1
    DEF Reload, SameRun, FullInv, TodoInv, OwnedInv, At, Materialized, Units
  <2>4. ~run.raced => service'.units = Units
    <3>1. service'.units = files /\ files \in [Targets -> Contents \cup {Absent}]
      BY <1>15, <1>a DEF Reload, TypeOK
    <3>2. ~run.raced => \A t \in Targets : files[t] = Units[t]
      BY <2>1 DEF FullInv, AchievedInv, TodoInv, Materialized
    <3>3. Units \in [Targets -> Contents]
      <4>1. releases[run.version] \in Digests
        BY <1>a, <2>1, PartialFunctionsDef DEF RunInv, TypeOK, Materialized
      <4> QED  BY <4>1, PayloadIsPartial DEF Units
    <3> QED  BY <3>1, <3>2, <3>3
  <2>5. AchievedInv' /\ CompletedRunConsistent'
    BY <1>15, <1>b, <2>1, <2>4
    DEF Reload, SameRun, FullInv, AchievedInv, CompletedRunConsistent, At, Idle,
        Materialized, Units
  <2> QED  BY <2>2, <2>3, <2>5
<1>16. ASSUME Enable PROVE Goal
  <2>1. run'.pc = "restart" /\ SameRun /\ run.pc = "enable"
    BY <1>16, <1>a, Moves DEF Enable, At
  <2>2. FirstInv' /\ ReturnInv'
    BY <1>16, <2>1 DEF Enable, SameRun, FullInv, FirstInv, ReturnInv, At
  <2>3. TodoInv' /\ OwnedInv'
    BY <1>16, <2>1
    DEF Enable, SameRun, FullInv, TodoInv, OwnedInv, At, Materialized, Units
  <2>4. service'.units = service.units
    BY <1>16, <1>a DEF Enable, TypeOK
  <2>5. AchievedInv' /\ CompletedRunConsistent'
    BY <1>16, <1>b, <2>1, <2>4
    DEF Enable, SameRun, FullInv, AchievedInv, CompletedRunConsistent, At, Idle,
        Materialized, Units
  <2> QED  BY <2>2, <2>3, <2>5
<1>17. ASSUME Restart PROVE Goal
  <2>1. run.pc = "restart" /\ run'.pc = "idle"
    BY <1>17, NoRunIsRun DEF Restart, At
  <2>2. current = run.version /\ current # None /\ state # None
    BY <1>c, <2>1 DEF Switched, Materialized
  <2>3. FirstInv' /\ ReturnInv' /\ TodoInv' /\ OwnedInv'
    BY <1>17, <2>1
    DEF Restart, FullInv, FirstInv, ReturnInv, TodoInv, OwnedInv, At, Materialized
  <2>4. AchievedInv'
    BY <1>17, <2>1, <2>2 DEF Restart, AchievedInv, At, Idle, Materialized
  <2>5. service'.running \in {None, current} /\ service'.units = service.units
    BY <1>17, <1>a DEF Restart, TypeOK
  <2>6. ~run.raced => files = Units
    <3>1. files \in [Targets -> Contents \cup {Absent}]
      BY <1>a DEF TypeOK
    <3>2. ~run.raced => \A t \in Targets : files[t] = Units[t]
      BY <2>1 DEF FullInv, AchievedInv, TodoInv, Materialized
    <3>3. Units \in [Targets -> Contents]
      <4>1. releases[run.version] \in Digests
        BY <1>a, <2>1, PartialFunctionsDef DEF RunInv, TypeOK, Materialized
      <4> QED  BY <4>1, PayloadIsPartial DEF Units
    <3> QED  BY <3>1, <3>2, <3>3
  <2>7. CompletedRunConsistent'
    BY <1>17, <2>1, <2>2, <2>5, <2>6
    DEF Restart, FullInv, AchievedInv, ReturnInv, CompletedRunConsistent, Units
  <2> QED  BY <2>3, <2>4, <2>7
<1>18. ASSUME Crash PROVE Goal
  <2>1. ~completed' /\ Idle'
    BY <1>18, <1>b, NoRunIsRun DEF FullInv, Crash, Idle
  <2>2. undo # None /\ ~lost' => state # None /\ state.previous = undo
    BY <1>18 DEF FullInv, Crash, ReturnInv
  <2> QED  BY <1>18, <2>1, <2>2, Rest DEF Crash
<1>19. ASSUME Interfered, UNCHANGED <<disk, service, signers, undo, lost, deployed, crashes>>
       PROVE  Goal
  <2>1. /\ run'.pc = run.pc /\ run'.version = run.version /\ run'.cmd = run.cmd
        /\ run'.old = run.old /\ run'.todo = run.todo /\ (run.pc = "idle" \/ run'.raced)
    BY <1>19, <1>a DEF Interfered, TypeOK, Idle
  <2>2. completed' = FALSE
    BY <1>19 DEF Interfered
  <2>3. FirstInv' /\ ReturnInv'
    BY <1>19, <2>1 DEF FullInv, FirstInv, ReturnInv, At
  <2>4. TodoInv' /\ OwnedInv'
    BY <1>19, <2>1 DEF FullInv, TodoInv, OwnedInv, At, Materialized, Units
  <2>5. AchievedInv' /\ CompletedRunConsistent'
    BY <1>19, <2>1, <2>2
    DEF FullInv, AchievedInv, CompletedRunConsistent, At, Materialized, Units
  <2> QED  BY <2>3, <2>4, <2>5
<1>20. ASSUME NEW t \in Targets, NEW content \in Contents \cup {Absent}, Edit(t, content)
       PROVE  Goal
  BY <1>20, <1>19 DEF Edit
<1>21. ASSUME NEW entry \in {"absent", "foreign"}, EditActivation(entry)
       PROVE  Goal
  BY <1>21, <1>19 DEF EditActivation
<1>22. ASSUME Start \/ Stop PROVE Goal
  <2>1. service'.running \in {None, current} /\ service'.units = service.units
    BY <1>22, <1>a DEF Start, Stop, TypeOK
  <2>2. FirstInv' /\ ReturnInv' /\ TodoInv' /\ OwnedInv'
    BY <1>22
    DEF Start, Stop, FullInv, FirstInv, ReturnInv, TodoInv, OwnedInv, At, Units
  <2>3. AchievedInv'
    BY <1>22, <2>1 DEF Start, Stop, FullInv, AchievedInv, At, Idle, Units
  <2>4. CompletedRunConsistent'
    BY <1>22, <2>1 DEF Start, Stop, FullInv, CompletedRunConsistent
  <2> QED  BY <2>2, <2>3, <2>4
<1>23. ASSUME UNCHANGED vars PROVE Goal
  BY <1>23
  DEF vars, FullInv, FirstInv, ReturnInv, TodoInv, OwnedInv, AchievedInv, At, Idle, Units,
      CompletedRunConsistent
<1>24. Goal
  BY <1>1, <1>2, <1>3, <1>4, <1>5, <1>6, <1>7, <1>8, <1>9, <1>10, <1>11, <1>12, <1>13,
     <1>14, <1>15, <1>16, <1>17, <1>18, <1>20, <1>21, <1>22, <1>23
  DEF Next, Install, Update, Switch, World
<1>25. crashes' \in Nat /\ edits' \in Nat
  <2>1. crashes' \in {crashes, crashes + 1} /\ edits' \in {edits, edits + 1}
    BY DEF Next, Install, Update, Switch, World, InstallTrust, InstallPromote, InstallRefused,
           InstallState, UpdatePromote, UpdateKnown, Rollback, Link, StatePrevious,
           LinkPrevious, Deploy, DeployActivation, DeployRecorded, RecordRelease, Reload,
           Enable, Restart, Crash, Edit, EditActivation, Interfered, Start, Stop, vars
  <2> QED  BY <2>1 DEF FullInv
<1> QED  BY <1>24, <1>25 DEF FullInv

(* Both layers hold in every reachable state.                              *)
LEMMA FullInvInvariant == Spec => []FullInv
<1>1. FullInv /\ [Next]_vars => FullInv'
  <2>1. FullInv /\ [Next]_vars => IInv'
    BY TypeStep, SoundStep DEF FullInv, IInv
  <2> QED  BY <2>1, FullStep
<1> QED  BY <1>1, FullInit, PTL DEF Spec

(* A run that completes makes everything agree on one release, whatever    *)
(* the runs before it left behind.                                         *)
THEOREM CompletedRunsConsistent == Spec => []CompletedRunConsistent
<1>1. FullInv => CompletedRunConsistent
  BY DEF FullInv
<1> QED  BY <1>1, FullInvInvariant, PTL

(* From the record of a switch on, rollback leads back to what was active  *)
(* before the last switch, whichever runs are cut short; and a failure     *)
(* before the record can only last until the next switch.                  *)
THEOREM RollbackLeadsBack == Spec => []RollbackReturns
<1>1. FullInv => RollbackReturns
  BY DEF FullInv, ReturnInv, RollbackReturns, Idle, At
<1> QED  BY <1>1, FullInvInvariant, PTL

(* install and update replace only what the tool had put there itself,     *)
(* unless a target is edited while they run.                               *)
THEOREM ForeignFilesKept == Spec => NeverSeized
<1> DEFINE Unforeign ==
      \A t \in Targets :
         /\ At("deploy") /\ run' # run /\ crashes' = crashes /\ edits' = edits
         /\ run.cmd \in {"install", "update"} /\ ~run.raced
         /\ files'[t] # files[t]
         => files[t] \in {Absent} \cup deployed[t]
<1>1. FullInv /\ [Next]_vars => [Unforeign]_vars
  <2> SUFFICES ASSUME FullInv, [Next]_vars PROVE Unforeign
    OBVIOUS
  <2> USE DEF disk, targets, ghosts
  <2>1. ASSUME UNCHANGED files \/ ~UNCHANGED edits PROVE Unforeign
    BY <2>1
  <2>2. ASSUME NEW u \in Targets, Deploy(u) PROVE Unforeign
    <3> SUFFICES ASSUME NEW t \in Targets, run.cmd # "rollback", ~run.raced,
                        files'[t] # files[t]
                 PROVE  files[t] \in {Absent} \cup deployed[t]
      OBVIOUS
    <3>1. t = u /\ files'[t] = Units[t] /\ run.pc = "deploy"
      BY <2>2 DEF Deploy, At, Units, FullInv, IInv, TypeOK
    <3>2. files[t] \in {Absent, Units[t]} \cup deployed[t]
      BY <3>1 DEF FullInv, OwnedInv, Materialized
    <3> QED  BY <3>1, <3>2
  <2>3. CASE Install \/ Update \/ Rollback \/ Crash \/ UNCHANGED vars
    BY <2>1, <2>3
    DEF Install, InstallTrust, InstallPromote, InstallRefused, InstallState, Update,
        UpdatePromote, UpdateKnown, Rollback, Crash, vars
  <2>4. CASE Switch
    BY <2>1, <2>2, <2>4
    DEF Switch, Link, StatePrevious, LinkPrevious, DeployActivation, DeployRecorded,
        RecordRelease, Reload, Enable, Restart
  <2>5. CASE World
    <3>1. edits' = edits => UNCHANGED files
      BY <2>5 DEF FullInv, World, EditActivation, Edit, Interfered, Start, Stop
    <3> QED  BY <2>1, <3>1
  <2> QED  BY <2>3, <2>4, <2>5 DEF Next
<1> QED  BY <1>1, FullInvInvariant, PTL DEF Spec, NeverSeized

-----------------------------------------------------------------------------
(* The switch from one release to another.                                 *)

\* Until it switches, a run knows what is active, which is not what it is to
\* activate; what install records as
\* having been active before is nothing.
OldInv ==
    /\ run.pc \in {"check", "link"} => run.old = current /\ run.version # current
    /\ At("state") => run.old = None

(* What a run knows of the active release stays true up to its switch.     *)
LEMMA OldStep == FullInv /\ OldInv /\ [Next]_vars => OldInv'
<1> SUFFICES ASSUME FullInv, OldInv, [Next]_vars PROVE OldInv'
  OBVIOUS
<1> USE DEF disk, targets, ghosts, At, OldInv
<1>1. IInv /\ TypeOK
  BY DEF FullInv, IInv
<1>2. ASSUME run' = NoRun PROVE OldInv'
  BY <1>2, NoRunIsRun
<1>3. ASSUME NEW c \in Candidate, NEW anchor \in Anchors, NEW adopt \in BOOLEAN,
             InstallTrust(c, anchor, adopt)
      PROVE  OldInv'
  <2>1. c.version \in Versions /\ c.claimed \in Digests /\ c.signer \in Anchors \cup {None}
    BY DEF Candidate
  <2>2. run'.pc = "check" /\ run'.old = current /\ run'.version = c.version
    BY <1>1, <1>3, <2>1, BeginRun DEF InstallTrust, Commands, Steps
  <2> QED  BY <1>3, <2>1, <2>2, NoneAssumption DEF InstallTrust
<1>4. ASSUME NEW c \in Candidate, UpdatePromote(c) \/ UpdateKnown(c) PROVE OldInv'
  <2>1. /\ c.version \in Versions /\ c.claimed \in Digests /\ FALSE \in BOOLEAN
        /\ c.signer \in Anchors \cup {None}
    BY DEF Candidate
  <2>2. run'.pc = "link" /\ run'.old = current /\ run'.version = c.version
    BY <1>1, <1>4, <2>1, BeginUpdate
  <2> QED  BY <1>4, <2>2 DEF UpdatePromote, UpdateKnown, Updatable
<1>5. CASE Rollback
  <2>1. state.previous \in Versions
    BY <1>1, <1>5, PartialFunctionsDef DEF Rollback, TypeOK
  <2> QED  BY <1>1, <1>5, <2>1, BeginRun DEF Rollback, Commands, Steps
<1>6. CASE InstallPromote
  BY <1>1, <1>6, Moves DEF InstallPromote, SameRun
<1>7. CASE Link
  <2>1. run.cmd = "install" => run.old = None
    BY <1>7 DEF Link, FullInv, FirstInv
  <2> QED  BY <1>1, <1>7, <2>1, Moves DEF SameRun
<1>8. CASE InstallState \/ StatePrevious \/ LinkPrevious \/ DeployActivation \/ DeployRecorded
             \/ RecordRelease \/ Reload \/ Enable
  BY <1>1, <1>8, Moves
<1>9. ASSUME NEW t \in Targets, Deploy(t) PROVE OldInv'
  BY <1>1, <1>9 DEF Deploy, TypeOK
<1>10. CASE InstallRefused \/ Restart \/ Crash
  BY <1>2, <1>10 DEF InstallRefused, Restart, Crash
<1>11. CASE World \/ UNCHANGED vars
  <2>1. UNCHANGED <<run.pc, run.old, run.version, current>>
    BY <1>1, <1>11 DEF World, Edit, EditActivation, Interfered, Start, Stop, vars, TypeOK
  <2> QED  BY <2>1
<1> QED
  BY <1>3, <1>4, <1>5, <1>6, <1>7, <1>8, <1>9, <1>10, <1>11 DEF Next, Install, Update, Switch

(* Every step adds a release, activates one, records what was active,      *)
(* loses that record, or is not seen by the switch.                        *)
LEMMA SwitchSteps ==
    FullInv /\ OldInv /\ IInv' /\ [Next]_vars
      => [ActiveRelease!Next]_(ActiveRelease!switchVars)
<1> SUFFICES ASSUME FullInv, OldInv, IInv', [Next]_vars
             PROVE  ActiveRelease!Next \/ UNCHANGED ActiveRelease!switchVars
  OBVIOUS
<1> DEFINE Goal == ActiveRelease!Next \/ UNCHANGED ActiveRelease!switchVars
<1> USE DEF disk, targets, ghosts, At, Idle
<1>1. /\ IInv /\ TypeOK /\ RunInv /\ (state = None \/ state \in StateFile)
      /\ DOMAIN releases \subseteq Versions /\ None \notin Versions
  BY PartialFunctionsDef, NoneAssumption DEF FullInv, IInv, TypeOK
<1>2. ASSUME UNCHANGED <<DOMAIN releases, current, Fallback, Unrecorded>> PROVE Goal
  BY <1>2 DEF ActiveRelease!switchVars
<1>3. ASSUME NEW v \in Versions, NEW d \in Digests, Promotable(v), releases' = With(releases, v, d),
             UNCHANGED <<current, state>>, Unrecorded' = Unrecorded
      PROVE  Goal
  <2>1. DOMAIN releases' = DOMAIN releases \cup {v} /\ v \notin DOMAIN releases
    BY <1>3 DEF Promotable, With
  <2>2. Fallback' = Fallback
    BY <1>3 DEF Fallback
  <2>3. ActiveRelease!Add(v)
    BY <1>3, <2>1, <2>2 DEF ActiveRelease!Add
  <2> QED  BY <2>3 DEF ActiveRelease!Next
<1>4. ASSUME NEW v \in DOMAIN releases, Unrecorded = {}, v # current \/ v = Fallback,
             current' = v, Unrecorded' = {current}, UNCHANGED <<releases, state>>
      PROVE  Goal
  <2>1. v \in Versions /\ Fallback' = Fallback
    BY <1>1, <1>4 DEF Fallback
  <2>2. ActiveRelease!Activate(v)
    BY <1>4, <2>1 DEF ActiveRelease!Activate
  <2> QED  BY <2>1, <2>2 DEF ActiveRelease!Next
<1>5. ASSUME Unrecorded = {run.old}, Unrecorded' = {}, Fallback' = run.old,
             UNCHANGED <<releases, current>>
      PROVE  Goal
  <2>1. ActiveRelease!Record
    BY <1>5 DEF ActiveRelease!Record
  <2> QED  BY <2>1 DEF ActiveRelease!Next
<1>6. ASSUME Unrecorded' = {}, UNCHANGED <<releases, current, state>> PROVE Goal
  <2>1. Fallback' = Fallback
    BY <1>6 DEF Fallback
  <2>2. CASE Unrecorded = {}
    BY <1>2, <1>6, <2>1, <2>2
  <2>3. CASE Unrecorded # {}
    <3>1. ActiveRelease!Lose
      BY <1>6, <2>1, <2>3 DEF ActiveRelease!Lose
    <3> QED  BY <3>1 DEF ActiveRelease!Next
  <2> QED  BY <2>2, <2>3
<1>7. ASSUME run'.pc \notin {"state", "previous"} PROVE Unrecorded' = {}
  BY <1>7 DEF Unrecorded
<1>8. ASSUME NEW c \in Candidate, NEW anchor \in Anchors, NEW adopt \in BOOLEAN,
             InstallTrust(c, anchor, adopt)
      PROVE  Goal
  <2>1. run'.pc = "check"
    BY <1>1, <1>8, BeginRun DEF InstallTrust, Candidate, Commands, Steps
  <2> QED  BY <1>6, <1>7, <1>8, <2>1 DEF InstallTrust
<1>9. CASE InstallPromote
  <2>1. run'.pc = "link" /\ run.pc = "check" /\ run.version \in Versions /\ run.sha \in Digests
    BY <1>1, <1>9, Moves DEF InstallPromote, RunInv
  <2> QED  BY <1>3, <1>9, <2>1 DEF InstallPromote, Unrecorded
<1>10. CASE InstallRefused \/ Restart \/ Crash
  BY <1>6, <1>7, <1>10, NoRunIsRun DEF InstallRefused, Restart, Crash
<1>11. CASE InstallState
  <2>1. run.pc = "state" /\ run'.pc = "deploy" /\ run.old = None
    BY <1>1, <1>11, Moves DEF InstallState, OldInv
  <2>2. Fallback' = None
    BY <1>11 DEF InstallState, Fallback
  <2> QED  BY <1>5, <1>11, <2>1, <2>2 DEF InstallState, Unrecorded
<1>12. ASSUME NEW c \in Candidate, UpdatePromote(c) PROVE Goal
  <2>0. /\ c.version \in Versions /\ c.claimed \in Digests /\ FALSE \in BOOLEAN
        /\ c.signer \in Anchors \cup {None}
    BY DEF Candidate
  <2>1. run'.pc = "link" /\ run.pc = "idle"
    BY <1>1, <1>12, <2>0, BeginUpdate DEF UpdatePromote, Updatable
  <2> QED  BY <1>3, <1>12, <2>1 DEF UpdatePromote, Unrecorded, Candidate
<1>13. ASSUME NEW c \in Candidate, UpdateKnown(c) PROVE Goal
  <2>0. /\ c.version \in Versions /\ c.claimed \in Digests /\ FALSE \in BOOLEAN
        /\ c.signer \in Anchors \cup {None}
    BY DEF Candidate
  <2>1. run'.pc = "link"
    BY <1>1, <1>13, <2>0, BeginUpdate
  <2> QED  BY <1>6, <1>7, <1>13, <2>1 DEF UpdateKnown
<1>14. CASE Rollback
  <2>1. /\ state.previous \in DOMAIN releases /\ state.previous \in Versions
        /\ Fallback = state.previous /\ run.pc = "idle"
    BY <1>1, <1>14 DEF Rollback, Fallback
  <2>2. run'.pc = "previous" /\ run'.old = current
    BY <1>1, <1>14, <2>1, BeginRun DEF Rollback, Commands, Steps
  <2>3. Unrecorded = {} /\ Unrecorded' = {current}
    BY <2>1, <2>2 DEF Unrecorded
  <2> QED  BY <1>4, <1>14, <2>1, <2>3 DEF Rollback
<1>15. CASE Link
  <2>1. /\ run.version \in DOMAIN releases /\ run.pc = "link" /\ run.old = current
        /\ run'.pc \in {"state", "previous"} /\ run'.old = current
    BY <1>1, <1>15, Moves DEF Link, RunInv, OldInv, Materialized, SameRun
  <2>2. Unrecorded = {} /\ Unrecorded' = {current}
    BY <2>1 DEF Unrecorded
  <2>3. run.version # current
    BY <1>15 DEF Link, OldInv
  <2>4. current' = run.version /\ UNCHANGED <<releases, state>>
    BY <1>15 DEF Link
  <2> QED  BY <1>4, <2>1, <2>2, <2>3, <2>4
<1>16. CASE StatePrevious
  <2>1. run.pc = "previous" /\ run'.pc = "prevlink" /\ state'.previous = run.old
    BY <1>1, <1>16, Moves, Writes DEF StatePrevious
  <2>2. state' # None
    BY <2>1 DEF IInv, RunInv, Switched, Materialized
  <2> QED  BY <1>5, <1>16, <2>1, <2>2 DEF StatePrevious, Unrecorded, Fallback
<1>17. CASE LinkPrevious \/ DeployActivation \/ Reload \/ Enable
  BY <1>1, <1>6, <1>7, <1>17, Moves DEF LinkPrevious, DeployActivation, Reload, Enable
<1>18. CASE DeployRecorded \/ RecordRelease
  <2>1. /\ run.pc \in {"own", "record"} /\ run'.pc \in {"reload", "record"}
        /\ state'.previous = state.previous
    BY <1>1, <1>18, Moves, Writes DEF DeployRecorded, RecordRelease
  <2>2. state # None /\ state' # None
    BY <1>1, <2>1 DEF IInv, RunInv, Switched, Materialized
  <2> QED  BY <1>2, <1>18, <2>1, <2>2 DEF DeployRecorded, RecordRelease, Unrecorded, Fallback
<1>19. ASSUME NEW t \in Targets, Deploy(t) PROVE Goal
  <2>1. run'.pc = "deploy"
    BY <1>1, <1>19 DEF Deploy, TypeOK
  <2> QED  BY <1>6, <1>7, <1>19, <2>1 DEF Deploy
<1>20. CASE World \/ UNCHANGED vars
  <2>1. UNCHANGED <<run.pc, run.old, releases, current, state>>
    BY <1>1, <1>20 DEF World, Edit, EditActivation, Interfered, Start, Stop, vars, TypeOK
  <2> QED  BY <1>2, <2>1 DEF Unrecorded, Fallback
<1> QED
  BY <1>8, <1>9, <1>10, <1>11, <1>12, <1>13, <1>14, <1>15, <1>16, <1>17, <1>18, <1>19, <1>20
  DEF Next, Install, Update, Switch

(* Refinement: what the commands do to the active release and to the one   *)
(* that a rollback leads to is the abstract switch, wherever they are cut  *)
(* short.                                                                  *)
THEOREM ToolImplementsSwitch == Spec => ImplementsSwitch
<1>1. Init => OldInv /\ ActiveRelease!Init
  <2>1. ASSUME Init PROVE run.pc = "idle" /\ DOMAIN releases = {} /\ current = None /\ state = None
    BY <2>1, NoRunIsRun DEF Init, Nothing
  <2> QED  BY <2>1 DEF OldInv, At, ActiveRelease!Init, Unrecorded, Fallback
<1>2. FullInv /\ OldInv /\ [Next]_vars => OldInv'
  BY OldStep
<1>3. FullInv /\ FullInv' /\ OldInv /\ [Next]_vars
        => [ActiveRelease!Next]_(ActiveRelease!switchVars)
  BY SwitchSteps DEF FullInv
<1> QED  BY <1>1, <1>2, <1>3, FullInvInvariant, PTL DEF Spec, ImplementsSwitch, ActiveRelease!Spec

=============================================================================

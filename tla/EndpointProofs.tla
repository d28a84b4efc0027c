--------------------------- MODULE EndpointProofs ---------------------------
(***************************************************************************)
(* Proofs about the name and the socket, for any number of daemons, clients*)
(* and disturbances.                                                       *)
(***************************************************************************)
EXTENDS Endpoint, SequenceTheorems, TLAPS

USE EndpointAssumption

\* Where only a standalone daemon gets.
ByItself == Starting \cup {"leaving", "remove"}

(* The bus and the daemons agree on who owns the name.  This is what makes *)
(* OneInstance inductive: RequestName looks at the owner only.             *)
NameInv ==
    \A d \in Daemons :
        /\ owner = d <=> InCharge(d)
        /\ At(d, "start") => daemon[d].conn

\* An activated daemon never gets to a step that unlinks the path.
ModeInv == \A d \in Daemons : daemon[d].pc \in ByItself => daemon[d].mode = "standalone"

IInv == TypeOK /\ NameInv /\ ModeInv

\* What is shown of every step about the path.
StepRespects ==
    \A e \in Daemons :
        path = e /\ InCharge(e) /\ path' # e =>
            \/ daemon'[e] # daemon[e]
            \/ unitOn' # unitOn
            \/ \E d \in Daemons : daemon'[d] # daemon[d] /\ ~InCharge(d)

StepKeepsUnit ==
    path = Unit /\ path' # Unit =>
        \/ unitOn' # unitOn
        \/ \E d \in Daemons : daemon[d].mode = "standalone" /\ daemon'[d] # daemon[d]

StepOK == IInv' /\ StepRespects /\ StepKeepsUnit

PathType == Daemons \cup {None, Stale, Other, Unit}

-----------------------------------------------------------------------------
(* At most one daemon is in charge: the owner.                             *)
LEMMA OneInCharge ==
    ASSUME NameInv
    PROVE  OneInstance
  BY DEF NameInv, OneInstance

(* A step that leaves the path alone respects it.                          *)
LEMMA PathKept ==
    ASSUME path' = path
    PROVE  StepRespects /\ StepKeepsUnit
  BY DEF StepRespects, StepKeepsUnit

(* A daemon takes a step without gaining or losing the name.               *)
LEMMA Moves ==
    ASSUME IInv, NEW d \in Daemons, NEW p \in Process,
           daemon' = [daemon EXCEPT ![d] = p], owner' = owner,
           p.pc \in Running /\ p.conn <=> InCharge(d),
           p.pc = "start" => p.conn,
           p.pc \in ByItself => p.mode = "standalone"
    PROVE  daemon' \in [Daemons -> Process] /\ NameInv' /\ ModeInv'
  <1>1. /\ daemon' \in [Daemons -> Process]
        /\ daemon'[d] = p
        /\ \A e \in Daemons \ {d} : daemon'[e] = daemon[e]
    BY DEF IInv, TypeOK
  <1>2. NameInv'
    BY <1>1 DEF IInv, NameInv, InCharge, At
  <1>3. ModeInv'
    BY <1>1 DEF IInv, ModeInv
  <1> QED BY <1>1, <1>2, <1>3

(* A daemon moves on in the order of run, with nothing but its place       *)
(* changed.                                                                *)
LEMMA GotoOK ==
    ASSUME IInv, NEW d \in Daemons, NEW pc \in Running, daemon[d].pc \in Running,
           Goto(d, pc), owner' = owner,
           pc \in ByItself => daemon[d].mode = "standalone"
    PROVE  /\ daemon' \in [Daemons -> Process] /\ NameInv' /\ ModeInv'
           /\ daemon'[d].pc = pc
  <1> DEFINE p == [daemon[d] EXCEPT !.pc = pc]
  <1>1. daemon[d] \in Process /\ daemon \in [Daemons -> Process]
    BY DEF IInv, TypeOK
  <1>2. p \in Process /\ p.pc = pc /\ p.conn = daemon[d].conn /\ p.mode = daemon[d].mode
    BY <1>1 DEF Process
  <1>3. daemon' = [daemon EXCEPT ![d] = p]
    BY DEF Goto
  <1> HIDE DEF p
  <1>4. pc # "start"
    BY DEF Running, Starting
  <1>5. p.pc \in Running /\ p.conn <=> InCharge(d)
    BY <1>2 DEF InCharge
  <1>6. daemon' \in [Daemons -> Process] /\ NameInv' /\ ModeInv'
    BY <1>2, <1>3, <1>4, <1>5, Moves
  <1> QED BY <1>1, <1>2, <1>3, <1>6

(* A daemon loses its connection to the bus, and its names with it.        *)
LEMMA LosesName ==
    ASSUME IInv, NEW d \in Daemons, daemon[d].pc \in Running,
           daemon' = [daemon EXCEPT ![d].conn = FALSE], owner' = Released(d)
    PROVE  /\ daemon' \in [Daemons -> Process] /\ NameInv' /\ ModeInv'
           /\ owner' \in Daemons \cup {None}
  <1> DEFINE p == [daemon[d] EXCEPT !.conn = FALSE]
  <1>1. daemon[d] \in Process /\ owner \in Daemons \cup {None}
    BY DEF IInv, TypeOK
  <1>2. p \in Process /\ p.pc = daemon[d].pc /\ p.conn = FALSE /\ p.mode = daemon[d].mode
    BY <1>1 DEF Process
  <1>3. daemon' = [daemon EXCEPT ![d] = p]
    OBVIOUS
  <1> HIDE DEF p
  <1>4. /\ daemon' \in [Daemons -> Process] /\ daemon'[d] = p
        /\ \A e \in Daemons \ {d} : daemon'[e] = daemon[e]
    BY <1>2, <1>3 DEF IInv, TypeOK
  <1>5. /\ owner' # d /\ owner' \in Daemons \cup {None}
        /\ \A e \in Daemons \ {d} : owner' = e <=> owner = e
    BY <1>1 DEF Released
  <1>6. p.pc # "start"
    BY <1>2 DEF Running, Starting
  <1>7. NameInv'
    BY <1>2, <1>4, <1>5, <1>6 DEF IInv, NameInv, InCharge, At
  <1>8. ModeInv'
    BY <1>2, <1>4 DEF IInv, ModeInv
  <1> QED BY <1>4, <1>5, <1>7, <1>8

(* A process ends; found is what it leaves at the path.                    *)
LEMMA ExitsOK ==
    ASSUME IInv, NEW d \in Daemons, ~At(d, "off"), NEW found \in PathType,
           Exits(d, found), faults' \in 0..MaxFaults,
           found = path \/ At(d, "remove")
    PROVE  StepOK
  <1>1. /\ daemon' = [daemon EXCEPT ![d] = Off] /\ owner' = Released(d)
        /\ path' = IF found = d THEN Stale ELSE found
        /\ backlog' = [backlog EXCEPT ![d] = <<>>]
        /\ served' = [served EXCEPT ![d] = {}]
        /\ unitOn' = unitOn
    BY DEF Exits
  <1>2. Off \in Process /\ Off.pc = "off"
    BY DEF Off, Process
  <1>3. /\ daemon' \in [Daemons -> Process] /\ daemon'[d] = Off
        /\ \A e \in Daemons \ {d} : daemon'[e] = daemon[e]
        /\ daemon'[d] # daemon[d]
    BY <1>1, <1>2 DEF IInv, TypeOK, At
  <1>4. /\ owner' # d /\ owner' \in Daemons \cup {None}
        /\ \A e \in Daemons \ {d} : owner' = e <=> owner = e
    BY <1>1 DEF Released, IInv, TypeOK
  <1>5. "off" \notin Running /\ "off" \notin ByItself
    BY DEF Running, Starting, ByItself
  <1>6. NameInv' /\ ModeInv'
    <2>1. NameInv'
      BY <1>2, <1>3, <1>4, <1>5 DEF IInv, NameInv, InCharge, At
    <2>2. ModeInv'
      BY <1>2, <1>3, <1>5 DEF IInv, ModeInv
    <2> QED BY <2>1, <2>2
  <1>7. TypeOK'
    <2>1. <<>> \in Seq(Clients) /\ {} \in SUBSET Clients
      BY EmptySeq
    <2>2. backlog' \in [Listeners -> Seq(Clients)] /\ served' \in [Daemons -> SUBSET Clients]
      BY <1>1, <2>1 DEF IInv, TypeOK, Listeners
    <2>3. path' \in Daemons \cup {None, Stale, Other, Unit}
      BY <1>1 DEF PathType
    <2> QED BY <1>1, <1>3, <1>4, <2>2, <2>3 DEF IInv, TypeOK
  <1>8. ASSUME NEW e \in Daemons, path = e, InCharge(e), path' # e, daemon'[e] = daemon[e]
        PROVE  \E c \in Daemons : daemon'[c] # daemon[c] /\ ~InCharge(c)
    <2>1. d # e
      BY <1>3, <1>8
    <2>2. ~InCharge(d)
      BY <1>8, <2>1, OneInCharge DEF IInv, OneInstance
    <2> QED BY <1>3, <2>2
  <1>9. StepRespects
    BY <1>8 DEF StepRespects
  <1>10. StepKeepsUnit
    <2>1. CASE found = path
      BY <1>1, <2>1 DEF StepKeepsUnit
    <2>2. CASE At(d, "remove")
      <3>1. daemon[d].mode = "standalone"
        BY <2>2 DEF IInv, ModeInv, ByItself, At
      <3> QED BY <1>3, <3>1 DEF StepKeepsUnit
    <2> QED BY <2>1, <2>2
  <1> QED BY <1>6, <1>7, <1>9, <1>10 DEF StepOK, IInv

(* The same where the process leaves the path as it found it.              *)
LEMMA ExitsAsFound ==
    ASSUME IInv, NEW d \in Daemons, ~At(d, "off"), Exits(d, path), faults' \in 0..MaxFaults
    PROVE  StepOK
  <1>1. path \in PathType
    BY DEF IInv, TypeOK, PathType
  <1> QED BY <1>1, ExitsOK

(* A daemon moves on and leaves the path and everything shared alone.      *)
LEMMA QuietGotoOK ==
    ASSUME IInv, NEW d \in Daemons, NEW pc \in Running, daemon[d].pc \in Running,
           Goto(d, pc), pc \in ByItself => daemon[d].mode = "standalone",
           UNCHANGED <<owner, path, unitOn, backlog, served>>, faults' \in 0..MaxFaults
    PROVE  StepOK
  <1>1. daemon' \in [Daemons -> Process] /\ NameInv' /\ ModeInv'
    BY GotoOK
  <1>2. TypeOK'
    BY <1>1 DEF IInv, TypeOK
  <1> QED BY <1>1, <1>2, PathKept DEF StepOK, IInv

(* The path changes in a step of a standalone daemon that stays alive.     *)
LEMMA PathTaken ==
    ASSUME IInv, NEW d \in Daemons, daemon'[d] # daemon[d], daemon[d].mode = "standalone"
    PROVE  StepRespects /\ StepKeepsUnit
  <1>1. ASSUME NEW e \in Daemons, InCharge(e), d # e PROVE ~InCharge(d)
    BY <1>1, OneInCharge DEF IInv, OneInstance
  <1> QED BY <1>1 DEF StepRespects, StepKeepsUnit

-----------------------------------------------------------------------------
(* The first steps: up to the name.                                        *)
LEMMA StartOK ==
    ASSUME IInv, NEW d \in Daemons, NEW mode \in {"standalone", "systemd"}, Start(d, mode)
    PROVE  StepOK
  <1> DEFINE p == [Off EXCEPT !.pc = "start", !.mode = mode, !.conn = TRUE]
  <1>1. p \in Process /\ p.pc = "start" /\ p.conn
    BY DEF Off, Process
  <1>2. /\ daemon' = [daemon EXCEPT ![d] = p] /\ At(d, "off")
        /\ UNCHANGED <<owner, path, unitOn, backlog, served, faults>>
    BY DEF Start
  <1> HIDE DEF p
  <1>3. "start" \notin Running /\ "start" \notin ByItself /\ "off" \notin Running
    BY DEF Running, Starting, ByItself
  <1>4. p.pc \in Running /\ p.conn <=> InCharge(d)
    BY <1>1, <1>2, <1>3 DEF InCharge, At
  <1>5. daemon' \in [Daemons -> Process] /\ NameInv' /\ ModeInv'
    BY <1>1, <1>2, <1>3, <1>4, Moves
  <1>6. TypeOK'
    BY <1>2, <1>5 DEF IInv, TypeOK
  <1> QED BY <1>2, <1>5, <1>6, PathKept DEF StepOK, IInv

LEMMA RequestNameOK ==
    ASSUME IInv, NEW d \in Daemons, RequestName(d)
    PROVE  StepOK
  <1> DEFINE p == [daemon[d] EXCEPT !.pc = "named"]
  <1>1. /\ At(d, "start") /\ owner = None /\ owner' = d
        /\ daemon' = [daemon EXCEPT ![d] = p]
        /\ UNCHANGED <<path, unitOn, backlog, served, faults>>
    BY DEF RequestName, Goto
  <1>2. daemon[d] \in Process /\ daemon[d].conn /\ daemon \in [Daemons -> Process]
    BY <1>1 DEF IInv, TypeOK, NameInv
  <1>3. p \in Process /\ p.pc = "named" /\ p.conn
    BY <1>2 DEF Process, Running
  <1> HIDE DEF p
  <1>4. /\ daemon' \in [Daemons -> Process] /\ daemon'[d] = p
        /\ \A e \in Daemons \ {d} : daemon'[e] = daemon[e]
    BY <1>1, <1>2, <1>3
  <1>5. "named" \in Running /\ "named" \notin ByItself
    BY DEF Running, Starting, ByItself
  <1>6. \A e \in Daemons : ~InCharge(e)
    BY <1>1 DEF IInv, NameInv
  <1>7. NameInv'
    BY <1>1, <1>3, <1>4, <1>5, <1>6 DEF IInv, NameInv, InCharge, At
  <1>8. ModeInv'
    BY <1>3, <1>4, <1>5 DEF IInv, ModeInv
  <1>9. TypeOK'
    BY <1>1, <1>4 DEF IInv, TypeOK
  <1> QED BY <1>1, <1>7, <1>8, <1>9, PathKept DEF StepOK, IInv

(* Up to the socket.  Whatever fails ends the process.                     *)
LEMMA StartingUpOK ==
    ASSUME IInv, NEW d \in Daemons, StartingUp(d)
    PROVE  StepOK
  <1>0. /\ {"named", "objects", "serving", "unlink", "bind", "chmod"} \subseteq Running
        /\ {"named", "objects", "serving"} \cap ByItself = {}
        /\ "start" # "off" /\ faults \in 0..MaxFaults
        /\ daemon \in [Daemons -> Process]
    BY DEF Running, Starting, ByItself, IInv, TypeOK
  <1>1. CASE NameTaken(d)
    BY <1>0, <1>1, ExitsAsFound DEF NameTaken, At
  <1>2. CASE RegisterObjects(d)
    BY <1>0, <1>2, QuietGotoOK DEF RegisterObjects, At
  <1>3. CASE Adopt(d)
    <2> DEFINE p == [daemon[d] EXCEPT !.pc = "serving", !.listening = TRUE]
    <2>1. /\ daemon' = [daemon EXCEPT ![d] = p] /\ At(d, "objects")
          /\ UNCHANGED <<owner, path, unitOn, backlog, served, faults>>
      BY <1>3 DEF Adopt
    <2>2. p \in Process /\ p.pc = "serving" /\ p.conn = daemon[d].conn
      BY <1>0 DEF Process
    <2> HIDE DEF p
    <2>3. p.pc \in Running /\ p.conn <=> InCharge(d)
      BY <1>0, <2>1, <2>2 DEF InCharge, At
    <2>4. daemon' \in [Daemons -> Process] /\ NameInv' /\ ModeInv'
      BY <1>0, <2>1, <2>2, <2>3, Moves
    <2>5. TypeOK'
      BY <2>1, <2>4 DEF IInv, TypeOK
    <2> QED BY <2>1, <2>4, <2>5, PathKept DEF StepOK, IInv
  <1>4. CASE Inspect(d)
    <2>1. /\ At(d, "objects") /\ daemon[d].mode = "standalone" /\ faults' = faults
          /\ IF path = Other THEN Exits(d, path)
             ELSE \E pc \in {"bind", "unlink"} :
                     Goto(d, pc) /\ UNCHANGED <<owner, path, unitOn, backlog, served>>
      BY <1>4 DEF Inspect
    <2> QED BY <1>0, <2>1, ExitsAsFound, QuietGotoOK DEF At
  <1>5. CASE UnlinkStale(d)
    <2>1. At(d, "unlink") /\ faults' = faults /\ daemon[d].mode = "standalone"
      BY <1>5 DEF UnlinkStale, IInv, ModeInv, ByItself, Starting, At
    <2>2. CASE path = None
      BY <1>0, <1>5, <2>1, <2>2, ExitsAsFound DEF UnlinkStale, At
    <2>3. CASE path # None
      <3>1. /\ Goto(d, "bind") /\ path' = None
            /\ UNCHANGED <<owner, unitOn, backlog, served>>
        BY <1>5, <2>3 DEF UnlinkStale
      <3>2. /\ daemon' \in [Daemons -> Process] /\ NameInv' /\ ModeInv'
            /\ daemon'[d].pc = "bind"
        BY <1>0, <2>1, <3>1, GotoOK DEF At
      <3>3. TypeOK'
        BY <2>1, <3>1, <3>2 DEF IInv, TypeOK
      <3>4. daemon'[d] # daemon[d]
        BY <2>1, <3>2 DEF At
      <3> QED BY <2>1, <3>2, <3>3, <3>4, PathTaken DEF StepOK, IInv
    <2> QED BY <2>2, <2>3
  <1>6. CASE Bind(d)
    <2>1. At(d, "bind") /\ faults' = faults /\ daemon[d].mode = "standalone"
      BY <1>6 DEF Bind, IInv, ModeInv, ByItself, Starting, At
    <2>2. CASE path # None
      BY <1>0, <1>6, <2>1, <2>2, ExitsAsFound DEF Bind, At
    <2>3. CASE path = None
      <3> DEFINE p == [daemon[d] EXCEPT !.pc = "chmod", !.listening = TRUE]
      <3>1. /\ daemon' = [daemon EXCEPT ![d] = p] /\ path' = d
            /\ UNCHANGED <<owner, unitOn, backlog, served>>
        BY <1>6, <2>3 DEF Bind
      <3>2. /\ p \in Process /\ p.pc = "chmod" /\ p.conn = daemon[d].conn
            /\ p.mode = daemon[d].mode
        BY <1>0 DEF Process
      <3> HIDE DEF p
      <3>3. p.pc \in Running /\ p.conn <=> InCharge(d)
        BY <1>0, <2>1, <3>2 DEF InCharge, At
      <3>4. daemon' \in [Daemons -> Process] /\ NameInv' /\ ModeInv'
        BY <2>1, <3>1, <3>2, <3>3, Moves
      <3>5. TypeOK'
        BY <2>1, <3>1, <3>4 DEF IInv, TypeOK
      <3>6. StepRespects /\ StepKeepsUnit
        BY <2>3 DEF StepRespects, StepKeepsUnit
      <3> QED BY <3>4, <3>5, <3>6 DEF StepOK, IInv
    <2> QED BY <2>2, <2>3
  <1>7. CASE SetMode(d)
    <2>1. /\ At(d, "chmod") /\ faults' = faults
          /\ IF path = None THEN Exits(d, path)
             ELSE Goto(d, "serving") /\ UNCHANGED <<owner, path, unitOn, backlog, served>>
      BY <1>7 DEF SetMode
    <2> QED BY <1>0, <2>1, ExitsAsFound, QuietGotoOK DEF At
  <1> QED BY <1>1, <1>2, <1>3, <1>4, <1>5, <1>6, <1>7, RequestNameOK DEF StartingUp

(* A disturbance.                                                          *)
LEMMA FailingOK ==
    ASSUME IInv, NEW d \in Daemons, Failing(d)
    PROVE  StepOK
  <1>0. /\ {"named", "objects", "serving", "stopping"} \subseteq Running
        /\ "stopping" \notin ByItself /\ "off" \notin {"named", "objects"}
        /\ daemon \in [Daemons -> Process]
        /\ Fault => faults' \in 0..MaxFaults
    BY DEF Running, Starting, ByItself, IInv, TypeOK, Fault
  <1>1. CASE StartupFails(d)
    BY <1>0, <1>1, ExitsAsFound DEF StartupFails, At
  <1>2. CASE Crash(d)
    BY <1>0, <1>2, ExitsAsFound DEF Crash
  <1>3. CASE Terminate(d)
    BY <1>0, <1>3, QuietGotoOK DEF Terminate, At
  <1>4. CASE AcceptFails(d)
    <2> DEFINE p == [daemon[d] EXCEPT !.listening = FALSE]
    <2>1. /\ daemon' = [daemon EXCEPT ![d] = p] /\ At(d, "serving") /\ Fault
          /\ backlog' = [backlog EXCEPT ![d] = <<>>]
          /\ UNCHANGED <<owner, path, unitOn, served>>
      BY <1>4 DEF AcceptFails
    <2>2. /\ p \in Process /\ p.pc = daemon[d].pc /\ p.conn = daemon[d].conn
          /\ p.mode = daemon[d].mode
      BY <1>0 DEF Process
    <2> HIDE DEF p
    <2>3. (p.pc \in Running /\ p.conn) <=> InCharge(d)
      BY <2>2 DEF InCharge
    <2>4. (p.pc = "start" => p.conn) /\ (p.pc \in ByItself => p.mode = "standalone")
      BY <2>2 DEF IInv, NameInv, ModeInv, At
    <2>5. daemon' \in [Daemons -> Process] /\ NameInv' /\ ModeInv'
      BY <2>1, <2>2, <2>3, <2>4, Moves
    <2>6. backlog' \in [Listeners -> Seq(Clients)]
      BY <2>1, EmptySeq DEF IInv, TypeOK
    <2>7. TypeOK'
      BY <1>0, <2>1, <2>5, <2>6 DEF IInv, TypeOK
    <2> QED BY <2>1, <2>5, <2>7, PathKept DEF StepOK, IInv
  <1>5. CASE BusLost(d)
    <2>1. /\ daemon[d].pc \in Running /\ Fault
          /\ daemon' = [daemon EXCEPT ![d].conn = FALSE] /\ owner' = Released(d)
          /\ UNCHANGED <<path, unitOn, backlog, served>>
      BY <1>5 DEF BusLost, InCharge
    <2>2. /\ daemon' \in [Daemons -> Process] /\ NameInv' /\ ModeInv'
          /\ owner' \in Daemons \cup {None}
      BY <2>1, LosesName
    <2>3. TypeOK'
      BY <1>0, <2>1, <2>2 DEF IInv, TypeOK
    <2> QED BY <2>1, <2>2, <2>3, PathKept DEF StepOK, IInv
  <1> QED BY <1>1, <1>2, <1>3, <1>4, <1>5 DEF Failing

(* Shutdown.                                                               *)
LEMMA ShuttingDownOK ==
    ASSUME IInv, NEW d \in Daemons, ShuttingDown(d)
    PROVE  StepOK
  <1>0. /\ {"stopping", "leaving", "remove"} \subseteq Running
        /\ {"leaving", "remove"} \subseteq ByItself
        /\ daemon \in [Daemons -> Process] /\ faults \in 0..MaxFaults
    BY DEF Running, ByItself, IInv, TypeOK
  <1>1. CASE AcceptEnded(d)
    <2>1. At(d, "stopping") /\ faults' = faults
      BY <1>1 DEF AcceptEnded
    <2>2. CASE daemon[d].mode = "systemd"
      BY <1>0, <1>1, <2>1, <2>2, ExitsAsFound DEF AcceptEnded, At
    <2>3. CASE daemon[d].mode # "systemd"
      <3> DEFINE p == [daemon[d] EXCEPT !.pc = "leaving", !.listening = FALSE]
      <3>1. /\ daemon' = [daemon EXCEPT ![d] = p]
            /\ backlog' = [backlog EXCEPT ![d] = <<>>]
            /\ UNCHANGED <<owner, path, unitOn, served>>
        BY <1>1, <2>3 DEF AcceptEnded
      <3>2. /\ p \in Process /\ p.pc = "leaving" /\ p.conn = daemon[d].conn
            /\ p.mode = daemon[d].mode
        BY <1>0 DEF Process, Running
      <3> HIDE DEF p
      <3>3. p.mode = "standalone"
        BY <1>0, <2>3, <3>2 DEF Process
      <3>4. p.pc \in Running /\ p.conn <=> InCharge(d)
        BY <1>0, <2>1, <3>2 DEF InCharge, At
      <3>5. daemon' \in [Daemons -> Process] /\ NameInv' /\ ModeInv'
        BY <2>1, <3>1, <3>2, <3>3, <3>4, Moves DEF IInv, TypeOK
      <3>6. backlog' \in [Listeners -> Seq(Clients)]
        BY <3>1, EmptySeq DEF IInv, TypeOK
      <3>7. TypeOK'
        BY <2>1, <3>1, <3>5, <3>6 DEF IInv, TypeOK
      <3> QED BY <3>1, <3>5, <3>7, PathKept DEF StepOK, IInv
    <2> QED BY <2>2, <2>3
  <1>2. CASE BusReleases(d)
    <2>1. /\ daemon[d].pc \in Running
          /\ daemon' = [daemon EXCEPT ![d].conn = FALSE] /\ owner' = Released(d)
          /\ UNCHANGED <<path, unitOn, backlog, served, faults>>
      BY <1>0, <1>2 DEF BusReleases
    <2>2. /\ daemon' \in [Daemons -> Process] /\ NameInv' /\ ModeInv'
          /\ owner' \in Daemons \cup {None}
      BY <2>1, LosesName
    <2>3. TypeOK'
      BY <2>1, <2>2 DEF IInv, TypeOK
    <2> QED BY <2>1, <2>2, <2>3, PathKept DEF StepOK, IInv
  <1>3. CASE Leave(d)
    <2>1. At(d, "leaving") /\ faults' = faults /\ daemon[d].mode = "standalone"
      BY <1>0, <1>3 DEF Leave, IInv, ModeInv, At
    <2>2. CASE path \in {None, Other}
      BY <1>0, <1>3, <2>1, <2>2, ExitsAsFound DEF Leave, At
    <2>3. CASE path \notin {None, Other}
      BY <1>0, <1>3, <2>1, <2>3, QuietGotoOK DEF Leave, At
    <2> QED BY <2>2, <2>3
  <1>4. CASE Remove(d)
    BY <1>0, <1>4, ExitsOK DEF Remove, At, PathType
  <1> QED BY <1>1, <1>2, <1>3, <1>4 DEF ShuttingDown

(* The accepting, the clients and the socket unit.                         *)
LEMMA OthersOK ==
    ASSUME IInv, UNCHANGED <<daemon, owner>>, path' = path \/ unitOn' # unitOn, TypeOK'
    PROVE  StepOK
  <1>1. NameInv' /\ ModeInv'
    BY DEF IInv, NameInv, ModeInv, InCharge, At
  <1>2. StepRespects /\ StepKeepsUnit
    BY DEF StepRespects, StepKeepsUnit
  <1> QED BY <1>1, <1>2 DEF StepOK, IInv

LEMMA AcceptOK ==
    ASSUME IInv, NEW d \in Daemons, Accept(d)
    PROVE  StepOK
  <1> DEFINE l == ListenerOf(d)
  <1>1. l \in Listeners
    BY DEF ListenerOf, Listeners
  <1>2. /\ backlog[l] # <<>> /\ backlog \in [Listeners -> Seq(Clients)]
        /\ backlog' = [backlog EXCEPT ![l] = Tail(@)]
        /\ served' = [served EXCEPT ![d] = @ \cup {Head(backlog[l])}]
        /\ UNCHANGED <<daemon, owner, path, unitOn, faults>>
    BY DEF Accept, IInv, TypeOK
  <1> HIDE DEF l
  <1>3. Head(backlog[l]) \in Clients /\ Tail(backlog[l]) \in Seq(Clients)
    BY <1>1, <1>2, HeadTailProperties
  <1>4. TypeOK'
    BY <1>1, <1>2, <1>3 DEF IInv, TypeOK
  <1> QED BY <1>2, <1>4, OthersOK

LEMMA OutsideOK ==
    ASSUME IInv,
           \/ UnitStart \/ UnitStop
           \/ \E c \in Clients : Connect(c) \/ \E d \in Daemons : HangUp(d, c)
    PROVE  StepOK
  <1>1. CASE UnitStart
    <2>1. TypeOK' /\ UNCHANGED <<daemon, owner>> /\ unitOn' # unitOn
      BY <1>1 DEF UnitStart, IInv, TypeOK
    <2> QED BY <2>1, OthersOK
  <1>2. CASE UnitStop
    <2>1. UNCHANGED <<daemon, owner, served, faults>> /\ unitOn' = FALSE /\ unitOn = TRUE
      BY <1>2 DEF UnitStop, IInv, TypeOK
    <2>2. backlog' \in [Listeners -> Seq(Clients)] /\ path' = None
      BY <1>2, EmptySeq DEF UnitStop, IInv, TypeOK
    <2>3. TypeOK'
      BY <2>1, <2>2 DEF IInv, TypeOK
    <2> QED BY <2>1, <2>3, OthersOK
  <1>3. ASSUME NEW c \in Clients, Connect(c) PROVE StepOK
    <2>1. /\ backlog' = [backlog EXCEPT ![path] = Append(@, c)] /\ path \in Listeners
          /\ UNCHANGED <<daemon, owner, path, unitOn, served, faults>>
      BY <1>3 DEF Connect, Listeners
    <2>2. Append(backlog[path], c) \in Seq(Clients)
      BY <2>1, AppendProperties DEF IInv, TypeOK
    <2>3. TypeOK'
      BY <2>1, <2>2 DEF IInv, TypeOK
    <2> QED BY <2>1, <2>3, OthersOK
  <1>4. ASSUME NEW c \in Clients, NEW d \in Daemons, HangUp(d, c) PROVE StepOK
    <2>1. TypeOK' /\ UNCHANGED <<daemon, owner, path>>
      BY <1>4 DEF HangUp, IInv, TypeOK
    <2> QED BY <2>1, OthersOK
  <1> QED BY <1>1, <1>2, <1>3, <1>4

-----------------------------------------------------------------------------
(* Every step keeps the invariant and respects the path.                   *)
LEMMA EndpointStep ==
    ASSUME IInv, [Next]_endpointVars
    PROVE  StepOK
  <1>1. CASE UNCHANGED endpointVars
    <2>1. TypeOK' /\ UNCHANGED <<daemon, owner, path>>
      BY <1>1 DEF endpointVars, IInv, TypeOK
    <2> QED BY <2>1, OthersOK
  <1> QED BY <1>1, StartOK, StartingUpOK, AcceptOK, ShuttingDownOK, FailingOK, OutsideOK
          DEF Next

(* Nobody runs at first, and nobody owns the name.                         *)
LEMMA EndpointInit ==
    ASSUME Init
    PROVE  IInv
  <1>1. Off \in Process /\ Off.pc = "off" /\ "off" \notin Running /\ "off" \notin ByItself
    BY DEF Off, Process, Running, Starting, ByItself
  <1>2. <<>> \in Seq(Clients)
    BY EmptySeq
  <1>3. TypeOK
    <2>1. daemon \in [Daemons -> Process] /\ owner = None /\ unitOn = FALSE
      BY <1>1 DEF Init
    <2>2. path \in Daemons \cup {None, Stale, Other, Unit} /\ faults \in 0..MaxFaults
      BY DEF Init
    <2>3. backlog \in [Listeners -> Seq(Clients)]
      BY <1>2 DEF Init
    <2>4. served \in [Daemons -> SUBSET Clients]
      BY DEF Init
    <2> QED BY <2>1, <2>2, <2>3, <2>4 DEF TypeOK
  <1>4. \A d \in Daemons : daemon[d] = Off /\ owner # d
    BY DEF Init
  <1>5. NameInv /\ ModeInv
    BY <1>1, <1>4 DEF NameInv, ModeInv, InCharge, At
  <1> QED BY <1>3, <1>5 DEF IInv

(* The inductive invariant of the processes.                               *)
THEOREM EndpointInvariant == Spec => []IInv
  <1>1. IInv /\ [Next]_endpointVars => IInv'
    BY EndpointStep DEF StepOK
  <1> QED BY <1>1, EndpointInit, PTL DEF Spec

(* Of any number of daemons at most one is past the request for the name   *)
(* with its connection to the bus intact.                                  *)
THEOREM AtMostOneInstance == Spec => []OneInstance
  <1>1. IInv => OneInstance
    BY OneInCharge DEF IInv
  <1> QED BY <1>1, EndpointInvariant, PTL

(* The bus name protects the socket of the daemon in charge.               *)
THEOREM NamedSocketRespected == Spec => EndpointRespected
  <1>1. IInv /\ [Next]_endpointVars =>
          [\A e \in Daemons :
             path = e /\ InCharge(e) /\ path' # e =>
                \/ daemon'[e] # daemon[e]
                \/ unitOn' # unitOn
                \/ \E d \in Daemons : daemon'[d] # daemon[d] /\ ~InCharge(d)]_endpointVars
    BY EndpointStep DEF StepOK, StepRespects
  <1> QED BY <1>1, EndpointInvariant, PTL DEF Spec, EndpointRespected

(* No exit of an activated service, however it comes about, takes the      *)
(* socket of the unit away.                                                *)
THEOREM UnitSocketKept == Spec => ServiceNeverUnlinks
  <1>1. IInv /\ [Next]_endpointVars =>
          [path = Unit /\ path' # Unit =>
             \/ unitOn' # unitOn
             \/ \E d \in Daemons :
                   daemon[d].mode = "standalone" /\ daemon'[d] # daemon[d]]_endpointVars
    BY EndpointStep DEF StepOK, StepKeepsUnit
  <1> QED BY <1>1, EndpointInvariant, PTL DEF Spec, ServiceNeverUnlinks

-----------------------------------------------------------------------------
(* What the path says of the daemon whose socket it is: it has bound it    *)
(* itself, and has not come to an end without looking at the path.         *)
Binding == {"chmod", "serving", "stopping", "leaving", "remove"}

PathInv ==
    \A d \in Daemons :
        path = d => daemon[d].pc \in Binding /\ daemon[d].mode = "standalone"

StepClean == path' = Stale => path = Stale \/ faults' # faults

(* A process ends that has not bound what is at the path.                  *)
LEMMA ExitsClean ==
    ASSUME IInv, PathInv, NEW d \in Daemons, NEW found \in {path, None},
           Exits(d, found), found # d \/ faults' # faults
    PROVE  PathInv' /\ StepClean
  <1>1. /\ \A e \in Daemons \ {d} : daemon'[e] = daemon[e]
        /\ path' = IF found = d THEN Stale ELSE found
    BY DEF Exits, IInv, TypeOK
  <1>2. PathInv'
    BY <1>1 DEF PathInv
  <1>3. StepClean
    BY <1>1 DEF StepClean
  <1> QED BY <1>2, <1>3

(* A daemon moves on and leaves the path alone.                            *)
LEMMA PathKeptClean ==
    ASSUME IInv, PathInv, path' = path,
           \A e \in Daemons : path = e =>
              daemon'[e].pc \in Binding /\ daemon'[e].mode = daemon[e].mode
    PROVE  PathInv' /\ StepClean
  BY DEF PathInv, StepClean

(* Every step keeps what the path says.                                    *)
LEMMA CleanStep ==
    ASSUME IInv, PathInv, [Next]_endpointVars
    PROVE  PathInv' /\ StepClean
  <1>0. /\ daemon \in [Daemons -> Process] /\ faults \in 0..MaxFaults
        /\ {"off", "start", "named", "objects", "unlink", "bind"} \cap Binding = {}
        /\ {"chmod", "serving", "stopping", "leaving", "remove"} = Binding
        /\ Fault => faults' # faults
    BY DEF IInv, TypeOK, Binding, Fault
  <1>1. ASSUME UNCHANGED <<daemon, path>> PROVE PathInv' /\ StepClean
    BY <1>0, <1>1 DEF PathInv, StepClean
  <1>2. ASSUME NEW d \in Daemons, NEW mode \in {"standalone", "systemd"}, Start(d, mode)
        PROVE  PathInv' /\ StepClean
    <2>1. path # d /\ path' = path
      BY <1>0, <1>2 DEF Start, PathInv, At
    <2>2. \A e \in Daemons \ {d} : daemon'[e] = daemon[e]
      BY <1>0, <1>2 DEF Start
    <2> QED BY <2>1, <2>2, PathKeptClean DEF PathInv
  <1>3. ASSUME NEW d \in Daemons, StartingUp(d) PROVE PathInv' /\ StepClean
    <2>1. ASSUME daemon[d].pc \notin Binding, Exits(d, path) PROVE PathInv' /\ StepClean
      BY <2>1, ExitsClean DEF PathInv
    <2>2. ASSUME daemon[d].pc \notin Binding, path' = path,
                 \A e \in Daemons \ {d} : daemon'[e] = daemon[e]
          PROVE  PathInv' /\ StepClean
      BY <2>2, PathKeptClean DEF PathInv
    <2>3. CASE RequestName(d)
      BY <1>0, <2>2, <2>3 DEF RequestName, Goto, At
    <2>4. CASE NameTaken(d)
      BY <1>0, <2>1, <2>4 DEF NameTaken, At
    <2>5. CASE RegisterObjects(d)
      BY <1>0, <2>2, <2>5 DEF RegisterObjects, Goto, At
    <2>6. CASE Adopt(d)
      BY <1>0, <2>2, <2>6 DEF Adopt, At
    <2>7. CASE Inspect(d)
      BY <1>0, <2>1, <2>2, <2>7 DEF Inspect, Goto, At
    <2>8. CASE UnlinkStale(d)
      <3>1. CASE path = None
        BY <1>0, <2>1, <2>8, <3>1 DEF UnlinkStale, At
      <3>2. CASE path # None
        <4>1. path' = None
          BY <2>8, <3>2 DEF UnlinkStale
        <4> QED BY <4>1 DEF PathInv, StepClean
      <3> QED BY <3>1, <3>2
    <2>9. CASE Bind(d)
      <3>1. CASE path # None
        BY <1>0, <2>1, <2>9, <3>1 DEF Bind, At
      <3>2. CASE path = None
        <4>1. /\ path' = d /\ At(d, "bind")
              /\ daemon' = [daemon EXCEPT ![d].pc = "chmod", ![d].listening = TRUE]
          BY <2>9, <3>2 DEF Bind
        <4>2. daemon[d].mode = "standalone"
          BY <4>1 DEF IInv, ModeInv, ByItself, Starting, At
        <4>3. daemon'[d].pc = "chmod" /\ daemon'[d].mode = "standalone"
          BY <1>0, <4>1, <4>2 DEF Process
        <4> QED BY <1>0, <4>1, <4>3 DEF PathInv, StepClean
      <3> QED BY <3>1, <3>2
    <2>10. CASE SetMode(d)
      <3>1. CASE path = None
        <4>1. Exits(d, path) /\ path # d
          BY <2>10, <3>1 DEF SetMode
        <4> QED BY <4>1, ExitsClean
      <3>2. CASE path # None
        <4>1. Goto(d, "serving") /\ path' = path
          BY <2>10, <3>2 DEF SetMode
        <4>2. \A e \in Daemons : path = e =>
                 daemon'[e].pc \in Binding /\ daemon'[e].mode = daemon[e].mode
          BY <1>0, <4>1 DEF Goto, PathInv, Process
        <4> QED BY <4>1, <4>2, PathKeptClean
      <3> QED BY <3>1, <3>2
    <2> QED BY <1>3, <2>3, <2>4, <2>5, <2>6, <2>7, <2>8, <2>9, <2>10 DEF StartingUp
  <1>4. ASSUME NEW d \in Daemons, Failing(d) PROVE PathInv' /\ StepClean
    <2>1. ASSUME Fault, Exits(d, path) PROVE PathInv' /\ StepClean
      BY <1>0, <2>1, ExitsClean
    <2>2. CASE StartupFails(d) \/ Crash(d)
      BY <2>1, <2>2 DEF StartupFails, Crash
    <2>3. CASE AcceptFails(d)
      <3>1. path' = path /\ daemon' = [daemon EXCEPT ![d].listening = FALSE]
        BY <2>3 DEF AcceptFails
      <3>2. \A e \in Daemons : daemon'[e].pc = daemon[e].pc /\ daemon'[e].mode = daemon[e].mode
        BY <1>0, <3>1 DEF Process
      <3> QED BY <3>1, <3>2, PathKeptClean DEF PathInv
    <2>4. CASE BusLost(d)
      <3>1. path' = path /\ daemon' = [daemon EXCEPT ![d].conn = FALSE]
        BY <2>4 DEF BusLost
      <3>2. \A e \in Daemons : daemon'[e].pc = daemon[e].pc /\ daemon'[e].mode = daemon[e].mode
        BY <1>0, <3>1 DEF Process
      <3> QED BY <3>1, <3>2, PathKeptClean DEF PathInv
    <2>5. CASE Terminate(d)
      <3>1. path' = path /\ Goto(d, "stopping")
        BY <2>5 DEF Terminate
      <3>2. \A e \in Daemons : path = e =>
               daemon'[e].pc \in Binding /\ daemon'[e].mode = daemon[e].mode
        BY <1>0, <3>1 DEF Goto, PathInv, Process
      <3> QED BY <3>1, <3>2, PathKeptClean
    <2> QED BY <1>4, <2>2, <2>3, <2>4, <2>5 DEF Failing
  <1>5. ASSUME NEW d \in Daemons, ShuttingDown(d) PROVE PathInv' /\ StepClean
    <2>1. CASE AcceptEnded(d)
      <3>1. CASE daemon[d].mode = "systemd"
        <4>1. Exits(d, path) /\ path # d
          BY <2>1, <3>1 DEF AcceptEnded, PathInv
        <4> QED BY <4>1, ExitsClean
      <3>2. CASE daemon[d].mode # "systemd"
        <4>1. /\ path' = path
              /\ daemon' = [daemon EXCEPT ![d].pc = "leaving", ![d].listening = FALSE]
          BY <2>1, <3>2 DEF AcceptEnded
        <4>2. \A e \in Daemons : path = e =>
                 daemon'[e].pc \in Binding /\ daemon'[e].mode = daemon[e].mode
          BY <1>0, <4>1 DEF PathInv, Process
        <4> QED BY <4>1, <4>2, PathKeptClean
      <3> QED BY <3>1, <3>2
    <2>2. CASE BusReleases(d)
      <3>1. path' = path /\ daemon' = [daemon EXCEPT ![d].conn = FALSE]
        BY <2>2 DEF BusReleases
      <3>2. \A e \in Daemons : daemon'[e].pc = daemon[e].pc /\ daemon'[e].mode = daemon[e].mode
        BY <1>0, <3>1 DEF Process
      <3> QED BY <3>1, <3>2, PathKeptClean DEF PathInv
    <2>3. CASE Leave(d)
      <3>1. CASE path \in {None, Other}
        <4>1. Exits(d, path) /\ path # d
          BY <2>3, <3>1 DEF Leave
        <4> QED BY <4>1, ExitsClean
      <3>2. CASE path \notin {None, Other}
        <4>1. path' = path /\ Goto(d, "remove")
          BY <2>3, <3>2 DEF Leave
        <4>2. \A e \in Daemons : path = e =>
                 daemon'[e].pc \in Binding /\ daemon'[e].mode = daemon[e].mode
          BY <1>0, <4>1 DEF Goto, PathInv, Process
        <4> QED BY <4>1, <4>2, PathKeptClean
      <3> QED BY <3>1, <3>2
    <2>4. CASE Remove(d)
      <3>1. Exits(d, None)
        BY <2>4 DEF Remove
      <3> QED BY <3>1, ExitsClean
    <2> QED BY <1>5, <2>1, <2>2, <2>3, <2>4 DEF ShuttingDown
  <1>6. CASE UnitStart \/ UnitStop
    <2>1. path' \in {Unit, None}
      BY <1>6 DEF UnitStart, UnitStop
    <2> QED BY <2>1 DEF PathInv, StepClean
  <1>7. ASSUME NEW d \in Daemons, Accept(d) PROVE PathInv' /\ StepClean
    BY <1>1, <1>7 DEF Accept
  <1>8. ASSUME NEW c \in Clients, Connect(c) \/ \E d \in Daemons : HangUp(d, c)
        PROVE  PathInv' /\ StepClean
    BY <1>1, <1>8 DEF Connect, HangUp
  <1>9. CASE UNCHANGED endpointVars
    BY <1>1, <1>9 DEF endpointVars
  <1> QED BY <1>2, <1>3, <1>4, <1>5, <1>6, <1>7, <1>8, <1>9 DEF Next

(* Whoever has bound the path is still there to remove it.                 *)
THEOREM BoundByTheLiving == Spec => []PathInv
  <1>1. Init => PathInv
    BY DEF Init, PathInv
  <1>2. IInv /\ PathInv /\ [Next]_endpointVars => PathInv'
    BY CleanStep
  <1> QED BY <1>1, <1>2, EndpointInvariant, PTL DEF Spec

(* No refusal and no shutdown of any daemon leaves a dead socket behind.   *)
THEOREM OrderlyExitsClean == Spec => NoDeadSocketLeft
  <1>1. IInv /\ PathInv /\ [Next]_endpointVars =>
          [path' = Stale => path = Stale \/ faults' # faults]_endpointVars
    BY CleanStep DEF StepClean
  <1> QED BY <1>1, EndpointInvariant, BoundByTheLiving, PTL DEF Spec, NoDeadSocketLeft

=============================================================================

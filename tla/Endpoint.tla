------------------------------ MODULE Endpoint ------------------------------
(***************************************************************************)
(* Daemon processes around the two things a session has only one of: the   *)
(* bus name and the path of the socket.  This is the start-up and shutdown *)
(* of src/src/main.rs (run), the server of src/src/socket.rs (start, accept*)
(* loop, shutdown), and the socket unit of src/systemd/wumbosd.socket.     *)
(*                                                                         *)
(* A daemon goes through its start-up in the order of run; every await is  *)
(* the end of a step.  Between two steps other daemons, the socket unit and*)
(* clients go on, and the process may be killed: by SIGKILL at any time, by*)
(* SIGTERM as long as its handlers are not installed.                      *)
(*                                                                         *)
(* Simplifications: the directory of the socket is checked together with   *)
(* the path (Other stands for either not being what it should be); what    *)
(* happens inside a session is in Daemon.                                  *)
(***************************************************************************)
EXTENDS Naturals, Sequences

CONSTANTS
    Daemons,      \* processes that can run in the session
    Clients,      \* processes that connect to the socket
    None,         \* nothing
    Stale,        \* a socket that nobody listens on
    Other,        \* something that is not a socket
    Unit,         \* the socket that the socket unit holds
    MaxFaults     \* bound: stops, crashes and failures

ASSUME EndpointAssumption ==
    /\ MaxFaults \in Nat
    /\ None # Stale /\ None # Other /\ None # Unit
    /\ Stale # Other /\ Stale # Unit /\ Other # Unit
    /\ {None, Stale, Other, Unit} \cap Daemons = {}

VARIABLES
    daemon,       \* one record for each process
    owner,        \* the owner of BUS_NAME
    path,         \* what is at the path: the socket that the named one bound
    unitOn,       \* the socket unit is active
    backlog,      \* connections not accepted yet, for each listener
    served,       \* the clients that each daemon has a session for
    faults

endpointVars == <<daemon, owner, path, unitOn, backlog, served, faults>>

-----------------------------------------------------------------------------
(* pc: "off"; "start" before the name, "named" before the objects,         *)
(* "objects" before the socket; of a standalone daemon "unlink" a socket it*)
(* found, "bind", "chmod"; "serving"; "stopping" until the accept task has *)
(* ended, "leaving" before it looks at the path, "remove" a socket it found.*)
(* conn: its connection to the bus works; listening: it has a listener.    *)
(***************************************************************************)
Starting == {"unlink", "bind", "chmod"}
Running == {"named", "objects", "serving", "stopping", "leaving", "remove"} \cup Starting

Process ==
    [pc : {"off", "start"} \cup Running, mode : {"standalone", "systemd"},
     conn : BOOLEAN, listening : BOOLEAN]

Off == [pc |-> "off", mode |-> "standalone", conn |-> FALSE, listening |-> FALSE]

Listeners == Daemons \cup {Unit}

\* Whose backlog the daemon accepts from.
ListenerOf(d) == IF daemon[d].mode = "systemd" THEN Unit ELSE d

\* The daemon owns the name and has not lost it.
InCharge(d) == daemon[d].pc \in Running /\ daemon[d].conn

Released(d) == IF owner = d THEN None ELSE owner

Activated == {d \in Daemons : daemon[d].pc # "off" /\ daemon[d].mode = "systemd"}

At(d, pc) == daemon[d].pc = pc
Goto(d, pc) == daemon' = [daemon EXCEPT ![d].pc = pc]

\* The end of a process; found is what the path is left with.
Exits(d, found) ==
    /\ daemon' = [daemon EXCEPT ![d] = Off]
    /\ owner' = Released(d)
    /\ path' = IF found = d THEN Stale ELSE found
    /\ backlog' = [backlog EXCEPT ![d] = <<>>]
    /\ served' = [served EXCEPT ![d] = {}]
    /\ UNCHANGED unitOn

Fault == faults < MaxFaults /\ faults' = faults + 1

-----------------------------------------------------------------------------
(* Start-up.                                                               *)

\* The process starts and connects to the bus.  systemd runs one instance of
\* its service, and only while its socket unit is active.
Start(d, mode) ==
    /\ At(d, "off")
    /\ mode = "systemd" => unitOn /\ Activated = {}
    /\ daemon' = [daemon EXCEPT ![d] =
                    [Off EXCEPT !.pc = "start", !.mode = mode, !.conn = TRUE]]
    /\ UNCHANGED <<owner, path, unitOn, backlog, served, faults>>

\* Mutant: a name that is taken is waited for, and the start-up goes on.
RequestNameQueued(d) ==
    /\ At(d, "start")
    /\ owner' = IF owner = None THEN d ELSE owner
    /\ Goto(d, "named")
    /\ UNCHANGED <<path, unitOn, backlog, served, faults>>

RequestName(d) ==
    /\ At(d, "start")
    /\ owner = None
    /\ owner' = d
    /\ Goto(d, "named")
    /\ UNCHANGED <<path, unitOn, backlog, served, faults>>

\* DoNotQueue: an error when the name is taken.
NameTaken(d) ==
    /\ At(d, "start")
    /\ owner # None
    /\ Exits(d, path)
    /\ UNCHANGED faults

\* The objects, and with notifications enabled the second name and its object.
RegisterObjects(d) ==
    /\ At(d, "named")
    /\ Goto(d, "objects")
    /\ UNCHANGED <<owner, path, unitOn, backlog, served, faults>>

\* The notification name is taken, or LISTEN_PID and LISTEN_FDS are not right.
StartupFails(d) ==
    /\ daemon[d].pc \in {"named", "objects"}
    /\ Fault
    /\ Exits(d, path)

\* inherited_listener.
Adopt(d) ==
    /\ At(d, "objects")
    /\ daemon[d].mode = "systemd"
    /\ daemon' = [daemon EXCEPT ![d].pc = "serving", ![d].listening = TRUE]
    /\ UNCHANGED <<owner, path, unitOn, backlog, served, faults>>

\* Mutant: what is at the path is not looked at.
InspectNothing(d) ==
    /\ At(d, "objects")
    /\ daemon[d].mode = "standalone"
    /\ Goto(d, "bind")
    /\ UNCHANGED <<owner, path, unitOn, backlog, served, faults>>

\* remove_stale_socket looks at the path, ...
Inspect(d) ==
    /\ At(d, "objects")
    /\ daemon[d].mode = "standalone"
    /\ IF path = Other
       THEN Exits(d, path)
       ELSE /\ Goto(d, IF path = None THEN "bind" ELSE "unlink")
            /\ UNCHANGED <<owner, path, unitOn, backlog, served>>
    /\ UNCHANGED faults

\* ... and removes what is there then; nothing there is an error.
UnlinkStale(d) ==
    /\ At(d, "unlink")
    /\ IF path = None
       THEN Exits(d, path)
       ELSE /\ path' = None
            /\ Goto(d, "bind")
            /\ UNCHANGED <<owner, unitOn, backlog, served>>
    /\ UNCHANGED faults

\* UnixListener::bind fails when something is at the path.
Bind(d) ==
    /\ At(d, "bind")
    /\ IF path # None
       THEN Exits(d, path)
       ELSE /\ path' = d
            /\ daemon' = [daemon EXCEPT ![d].pc = "chmod", ![d].listening = TRUE]
            /\ UNCHANGED <<owner, unitOn, backlog, served>>
    /\ UNCHANGED faults

\* set_permissions, by path; then the accept task and the signal handlers.
SetMode(d) ==
    /\ At(d, "chmod")
    /\ IF path = None
       THEN Exits(d, path)
       ELSE /\ Goto(d, "serving")
            /\ UNCHANGED <<owner, path, unitOn, backlog, served>>
    /\ UNCHANGED faults

-----------------------------------------------------------------------------
(* Serving.                                                                *)

\* Mutant: the next client is accepted when the session has ended.
AcceptOneByOne(d) ==
    /\ At(d, "serving")
    /\ daemon[d].listening
    /\ served[d] = {}
    /\ backlog[ListenerOf(d)] # <<>>
    /\ served' = [served EXCEPT ![d] = @ \cup {Head(backlog[ListenerOf(d)])}]
    /\ backlog' = [backlog EXCEPT ![ListenerOf(d)] = Tail(@)]
    /\ UNCHANGED <<daemon, owner, path, unitOn, faults>>

Accept(d) ==
    /\ At(d, "serving")
    /\ daemon[d].listening
    /\ backlog[ListenerOf(d)] # <<>>
    /\ served' = [served EXCEPT ![d] = @ \cup {Head(backlog[ListenerOf(d)])}]
    /\ backlog' = [backlog EXCEPT ![ListenerOf(d)] = Tail(@)]
    /\ UNCHANGED <<daemon, owner, path, unitOn, faults>>

\* An error of accept ends the accept task, which drops the listener; the
\* process goes on.  systemd keeps its own copy of an inherited listener.
AcceptFails(d) ==
    /\ At(d, "serving")
    /\ daemon[d].listening
    /\ Fault
    /\ daemon' = [daemon EXCEPT ![d].listening = FALSE]
    /\ backlog' = [backlog EXCEPT ![d] = <<>>]
    /\ UNCHANGED <<owner, path, unitOn, served>>

\* The connection to the bus breaks; the process goes on without its names.
BusLost(d) ==
    /\ InCharge(d)
    /\ Fault
    /\ daemon' = [daemon EXCEPT ![d].conn = FALSE]
    /\ owner' = Released(d)
    /\ UNCHANGED <<path, unitOn, backlog, served>>

Crash(d) ==
    /\ ~At(d, "off")
    /\ Fault
    /\ Exits(d, path)

-----------------------------------------------------------------------------
(* Shutdown.                                                               *)

\* Ctrl-C or SIGTERM: run drops its clone of the connection and aborts the
\* accept task.
Terminate(d) ==
    /\ At(d, "serving")
    /\ Fault
    /\ Goto(d, "stopping")
    /\ UNCHANGED <<owner, path, unitOn, backlog, served>>

\* Mutant: an inherited socket is removed as well.
AcceptEndedRemoving(d) ==
    /\ At(d, "stopping")
    /\ daemon' = [daemon EXCEPT ![d].pc = "leaving", ![d].listening = FALSE]
    /\ backlog' = [backlog EXCEPT ![d] = <<>>]
    /\ UNCHANGED <<owner, path, unitOn, served, faults>>

\* Mutant: no daemon looks at the path when it ends.
AcceptEndedLeaving(d) ==
    /\ At(d, "stopping")
    /\ Exits(d, path)
    /\ UNCHANGED faults

\* The accept task is gone, with its listener; only a daemon that has bound
\* its socket itself removes it (should_remove_socket).
AcceptEnded(d) ==
    /\ At(d, "stopping")
    /\ IF daemon[d].mode = "systemd"
       THEN Exits(d, path)
       ELSE /\ daemon' = [daemon EXCEPT ![d].pc = "leaving", ![d].listening = FALSE]
            /\ backlog' = [backlog EXCEPT ![d] = <<>>]
            /\ UNCHANGED <<owner, path, unitOn, served>>
    /\ UNCHANGED faults

\* The last clones of the connection are those of the sessions: without one
\* the connection is closed and the bus takes the names back.
BusReleases(d) ==
    /\ daemon[d].pc \in {"leaving", "remove"}
    /\ daemon[d].conn
    /\ served[d] = {}
    /\ daemon' = [daemon EXCEPT ![d].conn = FALSE]
    /\ owner' = Released(d)
    /\ UNCHANGED <<path, unitOn, backlog, served, faults>>

\* remove_socket_if_present looks at the path, ...
Leave(d) ==
    /\ At(d, "leaving")
    /\ IF path \in {None, Other}
       THEN Exits(d, path)
       ELSE /\ Goto(d, "remove")
            /\ UNCHANGED <<owner, path, unitOn, backlog, served>>
    /\ UNCHANGED faults

\* ... and removes what is there then; the process ends.
Remove(d) ==
    /\ At(d, "remove")
    /\ Exits(d, None)
    /\ UNCHANGED faults

-----------------------------------------------------------------------------
(* The socket unit and the clients.                                        *)

\* systemd replaces a socket that is in its way.
UnitStart ==
    /\ ~unitOn
    /\ path # Other
    /\ unitOn' = TRUE
    /\ path' = Unit
    /\ UNCHANGED <<daemon, owner, backlog, served, faults>>

\* RemoveOnStop; the service, which requires the unit, is stopped before.
UnitStop ==
    /\ unitOn
    /\ Activated = {}
    /\ unitOn' = FALSE
    /\ path' = None
    /\ backlog' = [backlog EXCEPT ![Unit] = <<>>]
    /\ UNCHANGED <<daemon, owner, served, faults>>

Waiting(c, l) == \E p \in 1..Len(backlog[l]) : backlog[l][p] = c

Idle(c) ==
    /\ \A l \in Listeners : ~Waiting(c, l)
    /\ \A d \in Daemons : c \notin served[d]

Connect(c) ==
    /\ Idle(c)
    /\ \/ path = Unit
       \/ path \in Daemons /\ daemon[path].listening
    /\ backlog' = [backlog EXCEPT ![path] = Append(@, c)]
    /\ UNCHANGED <<daemon, owner, path, unitOn, served, faults>>

HangUp(d, c) ==
    /\ c \in served[d]
    /\ served' = [served EXCEPT ![d] = @ \ {c}]
    /\ UNCHANGED <<daemon, owner, path, unitOn, backlog, faults>>

-----------------------------------------------------------------------------
Init ==
    /\ daemon = [d \in Daemons |-> Off]
    /\ owner = None
    /\ path \in {None, Stale, Other}
    /\ unitOn = FALSE
    /\ backlog = [l \in Listeners |-> <<>>]
    /\ served = [d \in Daemons |-> {}]
    /\ faults = 0

StartingUp(d) ==
    \/ RequestName(d) \/ NameTaken(d) \/ RegisterObjects(d)
    \/ Adopt(d) \/ Inspect(d) \/ UnlinkStale(d) \/ Bind(d) \/ SetMode(d)

ShuttingDown(d) == AcceptEnded(d) \/ BusReleases(d) \/ Leave(d) \/ Remove(d)

Failing(d) ==
    StartupFails(d) \/ AcceptFails(d) \/ BusLost(d) \/ Crash(d) \/ Terminate(d)

Next ==
    \/ \E d \in Daemons :
          \/ \E mode \in {"standalone", "systemd"} : Start(d, mode)
          \/ StartingUp(d) \/ Accept(d) \/ ShuttingDown(d) \/ Failing(d)
          \/ \E c \in Clients : HangUp(d, c)
    \/ \E c \in Clients : Connect(c)
    \/ UnitStart \/ UnitStop

Spec == Init /\ [][Next]_endpointVars

\* systemd starts the service when a connection waits on its socket.
Activate ==
    /\ backlog[Unit] # <<>>
    /\ \E d \in Daemons : Start(d, "systemd")

Fairness ==
    /\ WF_endpointVars(Activate)
    /\ \A d \in Daemons :
          /\ WF_endpointVars(StartingUp(d))
          /\ WF_endpointVars(Accept(d))
          /\ WF_endpointVars(AcceptEnded(d) \/ Leave(d) \/ Remove(d))

FairSpec == Spec /\ Fairness

-----------------------------------------------------------------------------
TypeOK ==
    /\ daemon \in [Daemons -> Process]
    /\ owner \in Daemons \cup {None}
    /\ path \in Daemons \cup {None, Stale, Other, Unit}
    /\ unitOn \in BOOLEAN
    /\ backlog \in [Listeners -> Seq(Clients)]
    /\ served \in [Daemons -> SUBSET Clients]
    /\ faults \in 0..MaxFaults

(* Only one instance runs in a session (README.md): of two daemons that    *)
(* have not lost the bus, at most one is past the request for the name; so *)
(* at most one of them is where it could remove or bind the socket.        *)
OneInstance == \A d, e \in Daemons : InCharge(d) /\ InCharge(e) => d = e

(* The path is shared, and removed by name, not by identity.  What protects*)
(* the socket of the daemon in charge, at every start and every shutdown of*)
(* another one, is the bus name alone: its socket is only ever taken away  *)
(* by itself, by the socket unit, or by a daemon that has lost the name.   *)
EndpointRespected ==
    [][\A e \in Daemons :
         path = e /\ InCharge(e) /\ path' # e =>
            \/ daemon'[e] # daemon[e]
            \/ unitOn' # unitOn
            \/ \E d \in Daemons : daemon'[d] # daemon[d] /\ ~InCharge(d)]_endpointVars

(* An activated service never unlinks the endpoint (docs/SOCKET_API.md):   *)
(* what systemd bound is only removed by the unit or a standalone daemon.  *)
ServiceNeverUnlinks ==
    [][path = Unit /\ path' # Unit =>
         \/ unitOn' # unitOn
         \/ \E d \in Daemons :
               daemon[d].mode = "standalone" /\ daemon'[d] # daemon[d]]_endpointVars

(* A standalone daemon removes its socket when it stops (README.md, docs/  *)
(* SOCKET_API.md): a socket nobody listens on only comes from a process    *)
(* that was killed or failed on the spot.  No refusal of a start-up and no *)
(* shutdown turns a daemon's socket into one, however other daemons, the   *)
(* socket unit and the loss of the bus come in between.                    *)
NoDeadSocketLeft ==
    [][path' = Stale => path = Stale \/ faults' # faults]_endpointVars

\* Nothing but the daemon d and what other daemons have left behind.
Alone(d) ==
    /\ \A e \in Daemons \ {d} : At(e, "off")
    /\ ~unitOn
    /\ path # Other

(* Whatever a crash at any point has left at the path, the next daemon that*)
(* is started alone gets to serve clients there.                           *)
RestartServes ==
    \A d \in Daemons, n \in 0..MaxFaults :
        (At(d, "start") /\ Alone(d) /\ faults = n) ~>
            \/ At(d, "serving") /\ daemon[d].listening /\ path = d
            \/ ~Alone(d)
            \/ faults > n

\* A service that no longer accepts is not started again.
Deaf == \E d \in Activated : At(d, "serving") /\ ~daemon[d].listening

(* A client that connects to the activation socket is served, whether the  *)
(* service was stopped, starting, running or crashed meanwhile, or failed  *)
(* to accept and was stopped then: unless such a service stays, or         *)
(* standalone daemons keep running beside it.                              *)
WaitingClientServed ==
    <>[](~Deaf /\ \A d \in Daemons : daemon[d].mode = "standalone" => At(d, "off"))
      => \A c \in Clients : Waiting(c, Unit) ~> ~Waiting(c, Unit)

-----------------------------------------------------------------------------
(* docs/SOCKET_API.md: a standalone daemon "removes only that exact socket *)
(* during normal shutdown", the one it has bound.  The code removes what is*)
(* at the path: that can be the socket of the unit, which was started in   *)
(* between, or, with the name free again, of a daemon started meanwhile.   *)
RemovesOnlyItsOwn ==
    [][\A d \in Daemons :
         At(d, "remove") /\ daemon'[d].pc = "off" /\ path' # path => path = d]_endpointVars

=============================================================================

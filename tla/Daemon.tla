------------------------------- MODULE Daemon -------------------------------
(***************************************************************************)
(* The running daemon: the attention and notification stores behind their  *)
(* D-Bus services (src/src/attention.rs, src/src/notification.rs), the     *)
(* broadcast channel, and the tasks that serve the socket clients          *)
(* (src/src/socket.rs).                                                    *)
(*                                                                         *)
(* All tasks run on one thread (src/src/main.rs:33), so what a task does   *)
(* between two awaits is one step.  The awaits at which another task can   *)
(* run are those on the D-Bus connection and on the client's socket.       *)
(*                                                                         *)
(* Simplifications:                                                        *)
(*  - a frame is read and handled in one step: select! may pick the read   *)
(*    branch again at once, so a read that returns several frames is a run *)
(*    of such steps.  Frames are whole; cutting them out of the byte       *)
(*    stream is not modelled here;                                         *)
(*  - a frame is written in one step, when the client's receive buffer has *)
(*    room for it;                                                         *)
(*  - method replies are not modelled, nor are calls that change nothing.  *)
(***************************************************************************)
EXTENDS NotificationStore, Broadcast

CONSTANTS
    Clients,      \* slots of concurrent socket clients
    Calls,        \* the D-Bus methods that are called
    Requests,     \* the frames that clients send
    Replaces,     \* the replaces_id values that Notify is called with
    KeySets,      \* the action sets that Notify is called with
    InCap,        \* bound: requests a client has under way
    OutCap,       \* bound: unread frames that fit in the client's buffer
    BusCap        \* bound: signals waiting for the D-Bus connection

Methods == {"publish", "dismiss", "clear", "notify", "close"}

\* ClientFrame.  "bad" is any frame that ends the session: malformed, of an
\* unsupported protocol or type, too long, or without a field it needs.
Request ==
    [type : {"ping", "clear", "bad"}]
      \cup [type : {"recent"}, limit : Nat]
      \cup [type : {"dismiss"}, id : Nat]
      \cup [type : {"action"}, nid : Nat, key : Keys]

ASSUME CallsAssumption == Calls \subseteq Methods
ASSUME RequestsAssumption == Requests \subseteq Request
ASSUME ReplacesAssumption == Replaces \subseteq 0..MaxNid
ASSUME KeySetsAssumption == KeySets \subseteq SUBSET Keys
ASSUME BoundsAssumption ==
    /\ InCap \in Nat \ {0}
    /\ OutCap \in Nat \ {0}
    /\ BusCap \in Nat \ {0}
ASSUME NoClientIsNone == 0 \notin Clients

VARIABLES
    session,      \* one record for each client slot
    bus,          \* signals in the order of the lock of the connection
    busUp,        \* the D-Bus connection works
    announced     \* ghost: the last event that EventAdded was sent for

busVars == <<bus, busUp, announced>>
vars == <<storeVars, notifVars, session, busVars>>

-----------------------------------------------------------------------------
(* A session.                                                              *)
(*   pc: "off", or where serve_client is: "run" in select!, "write" in     *)
(*       write_frame, "emit" before ActionInvoked has the connection's     *)
(*       lock in sight, "sent" while it waits for the connection;          *)
(*   inq: frames the client has sent and the server has not read, each     *)
(*       with the event the client had last seen for that notification;    *)
(*   eof: the client has gone;                                             *)
(*   queue, lagged: its receiver of the broadcast channel;                 *)
(*   unread: frames the client has not read.                               *)
(* The rest is ghost: acting is the event of the notification whose action *)
(* is about to be signalled; the others are what the frames so far add up  *)
(* to for the client:                                                      *)
(*   view: the events it lists; since: the first event that the list is    *)
(*   complete from; live: the last event it was sent live; shown: for each *)
(*   notification the event it was last shown with, or 0.                  *)
(***************************************************************************)
NotShown == [n \in Nid |-> 0]

NoSession ==
    [pc |-> "off", inq |-> <<>>, eof |-> FALSE, queue |-> <<>>,
     lagged |-> FALSE, unread |-> 0, acting |-> 0,
     view |-> {}, since |-> 0, live |-> 0, shown |-> NotShown]

Sent == [req : Requests, seen : EventId \cup {0}]

Session ==
    [pc : {"off", "run", "write", "emit", "sent"},
     inq : Seq(Sent), eof : BOOLEAN,
     queue : Seq(Update(EventId)), lagged : BOOLEAN,
     unread : Nat, acting : EventId \cup {0},
     view : SUBSET EventId, since : Nat,
     live : EventId \cup {0}, shown : [Nid -> EventId \cup {0}]]

Connected(c) == session[c].pc # "off"

\* The sessions after a send on the broadcast channel.
Broadcasted(u) ==
    [c \in Clients |-> IF Connected(c) THEN Offered(session[c], u) ELSE session[c]]

\* serve_client returns: socket and receiver are dropped.
EndSession(c) == session' = [session EXCEPT ![c] = NoSession]

-----------------------------------------------------------------------------
(* D-Bus signals.  The connection writes one message at a time, in the     *)
(* order in which the emitters asked for it.  A D-Bus method asks in the   *)
(* step that changed the state.  id is the attention event that the signal *)
(* is about, 0 for none; owner is the session that waits for it, or 0.     *)
(***************************************************************************)
Signal(name, id, owner) == [sig |-> name, id |-> id, owner |-> owner]

SignalType ==
    [sig : {"EventAdded", "EventRemoved", "EventCleared",
            "NotificationClosed", "ActionInvoked"},
     id : Nat, owner : Clients \cup {0}]

Emit(name, id, owner) ==
    /\ Len(bus) < BusCap
    /\ bus' = Append(bus, Signal(name, id, owner))
    /\ UNCHANGED <<busUp, announced>>

\* A method call reaches its handler.
Called(method) == method \in Calls /\ busUp


-----------------------------------------------------------------------------
(* D-Bus methods.                                                          *)

DBusPublish(id) ==
    /\ Called("publish")
    /\ Publish(id)
    /\ session' = Broadcasted(Added(id))
    /\ Emit("EventAdded", id, 0)
    /\ UNCHANGED notifVars

DBusDismiss(id) ==
    /\ Called("dismiss")
    /\ Dismiss(id)
    /\ session' = Broadcasted(Removed(id))
    /\ Emit("EventRemoved", id, 0)
    /\ UNCHANGED notifVars

DBusClear ==
    /\ Called("clear")
    /\ Clear
    /\ session' = Broadcasted(Cleared)
    /\ Emit("EventCleared", 0, 0)
    /\ UNCHANGED notifVars

\* Mutant: a replacement is not announced.
NotifyReplacesQuietly(replaces, keys, nid, id) ==
    /\ Called("notify")
    /\ NotifyPublishes(replaces, keys, nid, id)
    /\ session' = Broadcasted(Added(id))
    /\ IF nid \in DOMAIN active THEN UNCHANGED busVars ELSE Emit("EventAdded", id, 0)

Notify(replaces, keys, nid, id) ==
    /\ Called("notify")
    /\ NotifyPublishes(replaces, keys, nid, id)
    /\ session' = Broadcasted(Added(id))
    /\ Emit("EventAdded", id, 0)

NotifyFails(replaces) ==
    /\ Called("notify")
    /\ NotifyWithoutNid(replaces) \/ NotifyWithoutEvent(replaces)
    /\ UNCHANGED <<session, busVars>>

CloseNotification(nid) ==
    /\ Called("close")
    /\ Close(nid)
    /\ Emit("NotificationClosed", active[nid].event, 0)
    /\ UNCHANGED session

\* Mutant: signals are emitted by tasks of their own, in any order.
FlushAny ==
    /\ busUp
    /\ \E p \in DOMAIN bus :
          /\ announced' = IF bus[p].sig = "EventAdded" THEN bus[p].id ELSE announced
          /\ session' = IF bus[p].owner \in Clients
                        THEN [session EXCEPT ![bus[p].owner].pc = "write"]
                        ELSE session
          /\ bus' = RemoveAt(bus, p)
    /\ UNCHANGED <<storeVars, notifVars, busUp>>

\* The connection writes its next message; the emitter goes on.
Flush ==
    /\ busUp
    /\ bus # <<>>
    /\ LET signal == Head(bus)
       IN  /\ announced' = IF signal.sig = "EventAdded" THEN signal.id ELSE announced
           /\ session' = IF signal.owner \in Clients
                         THEN [session EXCEPT ![signal.owner].pc = "write"]
                         ELSE session
    /\ bus' = Tail(bus)
    /\ UNCHANGED <<storeVars, notifVars, busUp>>

\* The message bus goes away: every emit fails from here on.  The D-Bus
\* methods that wait return an error, what they changed stays; the process
\* does not end.
BusLost ==
    /\ busUp
    /\ busUp' = FALSE
    /\ bus' = <<>>
    /\ UNCHANGED <<storeVars, notifVars, session, announced>>

-----------------------------------------------------------------------------
(* The client's side of a session.                                         *)

\* accept: the receiver is subscribed here, and the hello frame is written.
Connect(c) ==
    /\ ~Connected(c)
    /\ session' = [session EXCEPT ![c] =
                     [NoSession EXCEPT !.pc = "write",
                                       !.since = LastIssued + 1,
                                       !.live = LastIssued]]
    /\ UNCHANGED <<storeVars, notifVars, busVars>>

\* The event that a client which has read everything saw last for the
\* notification that it asks an action of.
Seen(c, request) ==
    IF /\ request.type = "action"
       /\ request.nid \in Nid
       /\ session[c].unread = 0
       /\ session[c].pc # "write"
    THEN session[c].shown[request.nid] ELSE 0

Send(c, request) ==
    /\ Connected(c)
    /\ ~session[c].eof
    /\ Len(session[c].inq) < InCap
    /\ session' = [session EXCEPT ![c].inq =
                     Append(@, [req |-> request, seen |-> Seen(c, request)])]
    /\ UNCHANGED <<storeVars, notifVars, busVars>>

ClientRead(c) ==
    /\ session[c].unread > 0
    /\ ~session[c].eof
    /\ session' = [session EXCEPT ![c].unread = @ - 1]
    /\ UNCHANGED <<storeVars, notifVars, busVars>>

\* The client closes its socket; the requests it has sent can still be read.
Disconnect(c) ==
    /\ Connected(c)
    /\ ~session[c].eof
    /\ session' = [session EXCEPT ![c].eof = TRUE]
    /\ UNCHANGED <<storeVars, notifVars, busVars>>

-----------------------------------------------------------------------------
(* serve_client.                                                           *)

\* select! takes the read branch and the next frame is handled.
Handling(c, type) ==
    /\ session[c].pc = "run"
    /\ session[c].inq # <<>>
    /\ Head(session[c].inq).req.type = type

Received(c) == Head(session[c].inq).req

\* The session of a client whose frame was taken and answered.
Answering(s) == [s EXCEPT !.inq = Tail(@), !.pc = "write"]

HandlePing(c) ==
    /\ Handling(c, "ping")
    /\ session' = [session EXCEPT ![c] = Answering(@)]
    /\ UNCHANGED <<storeVars, notifVars, busVars>>

\* What a client knows after a snapshot: the events in it; complete from the
\* oldest of them on, or from the first event on when nothing was cut off; and
\* for each notification attached to one of them, that event.
Snapshot(s, recent) ==
    [s EXCEPT
       !.view = ToSet(recent),
       !.since = CASE Len(recent) = Len(events) -> 1
                   [] recent = <<>> /\ events # <<>> -> LastIssued + 1
                   [] OTHER -> Last(recent),
       !.shown = [n \in Nid |-> IF \E e \in ToSet(recent) : n \in ActiveForEvent(e)
                                THEN active[n].event ELSE @[n]]]

HandleRecent(c) ==
    /\ Handling(c, "recent")
    /\ session' = [session EXCEPT ![c] = Snapshot(Answering(@), Recent(Received(c).limit))]
    /\ UNCHANGED <<storeVars, notifVars, busVars>>

\* Mutant: the removal is not broadcast.
HandleDismissQuietly(c) ==
    /\ Handling(c, "dismiss")
    /\ \/ Dismiss(Received(c).id)
       \/ Received(c).id \notin Stored /\ UNCHANGED storeVars
    /\ session' = [session EXCEPT ![c] = Answering(@)]
    /\ UNCHANGED <<notifVars, busVars>>

\* The reply says whether the event was there.  The broadcast reaches every
\* session, the one that asked included.  No D-Bus signal is emitted.
HandleDismiss(c) ==
    /\ Handling(c, "dismiss")
    /\ \/ /\ Dismiss(Received(c).id)
          /\ session' = [Broadcasted(Removed(Received(c).id)) EXCEPT ![c] = Answering(@)]
       \/ /\ Received(c).id \notin Stored
          /\ session' = [session EXCEPT ![c] = Answering(@)]
          /\ UNCHANGED storeVars
    /\ UNCHANGED <<notifVars, busVars>>

HandleClear(c) ==
    /\ Handling(c, "clear")
    /\ \/ /\ Clear
          /\ session' = [Broadcasted(Cleared) EXCEPT ![c] = Answering(@)]
       \/ /\ events = <<>>
          /\ session' = [session EXCEPT ![c] = Answering(@)]
          /\ UNCHANGED storeVars
    /\ UNCHANGED <<notifVars, busVars>>

\* An accepted action is emitted before it is answered.
HandleAction(c) ==
    /\ Handling(c, "action")
    /\ session' = [session EXCEPT ![c] =
                     IF Invocable(Received(c).nid, Received(c).key)
                     THEN [Answering(@) EXCEPT !.pc = "emit",
                                               !.acting = active[Received(c).nid].event]
                     ELSE Answering(@)]
    /\ UNCHANGED <<storeVars, notifVars, busVars>>

HandleBad(c) ==
    /\ Handling(c, "bad")
    /\ EndSession(c)
    /\ UNCHANGED <<storeVars, notifVars, busVars>>

\* read returns 0.
HandleEof(c) ==
    /\ session[c].pc = "run"
    /\ session[c].eof
    /\ session[c].inq = <<>>
    /\ EndSession(c)
    /\ UNCHANGED <<storeVars, notifVars, busVars>>

\* The request for the connection's lock.  It comes later than the check of
\* the action only when tokio makes a task yield that has done too much in a
\* row; no other step is possible for the session meanwhile.
EmitAction(c) ==
    /\ session[c].pc = "emit"
    /\ busUp
    /\ Emit("ActionInvoked", session[c].acting, c)
    /\ session' = [session EXCEPT ![c].pc = "sent", ![c].acting = 0]
    /\ UNCHANGED <<storeVars, notifVars>>

\* An error of emit ends the session.
EmitFails(c) ==
    /\ session[c].pc \in {"emit", "sent"}
    /\ ~busUp
    /\ EndSession(c)
    /\ UNCHANGED <<storeVars, notifVars, busVars>>

\* The session after a live update was turned into a frame.  Whether an event
\* carries actions is looked up now, not when it was published.
Delivered(s, u) ==
    CASE u.kind = "added" ->
           [s EXCEPT !.view = @ \cup {u.id},
                     !.live = u.id,
                     !.shown = [n \in Nid |-> IF n \in ActiveForEvent(u.id)
                                              THEN u.id ELSE @[n]]]
      [] u.kind = "removed" -> [s EXCEPT !.view = @ \ {u.id}]
      [] u.kind = "cleared" -> [s EXCEPT !.view = {}]

\* The session once recv has returned.
Dequeued(s) == [s EXCEPT !.queue = Tail(@), !.pc = "write"]

\* Mutant: biased towards requests.
RecvWhenIdle(c) ==
    /\ session[c].pc = "run"
    /\ session[c].inq = <<>>
    /\ ~session[c].lagged
    /\ session[c].queue # <<>>
    /\ session' = [session EXCEPT ![c] = Delivered(Dequeued(@), Head(@.queue))]
    /\ UNCHANGED <<storeVars, notifVars, busVars>>

\* select! takes the broadcast branch.
Recv(c) ==
    /\ session[c].pc = "run"
    /\ ~session[c].lagged
    /\ session[c].queue # <<>>
    /\ session' = [session EXCEPT ![c] = Delivered(Dequeued(@), Head(@.queue))]
    /\ UNCHANGED <<storeVars, notifVars, busVars>>

\* Mutant: the session goes on after it has lagged.
RecvLaggedGoesOn(c) ==
    /\ session[c].pc = "run"
    /\ session[c].lagged
    /\ session' = [session EXCEPT ![c].lagged = FALSE]
    /\ UNCHANGED <<storeVars, notifVars, busVars>>

\* RecvError::Lagged.
RecvLagged(c) ==
    /\ session[c].pc = "run"
    /\ session[c].lagged
    /\ EndSession(c)
    /\ UNCHANGED <<storeVars, notifVars, busVars>>

\* write_frame, which has no time limit: it waits until the frame fits.
WriteFrame(c) ==
    /\ session[c].pc = "write"
    /\ session[c].unread < OutCap
    /\ ~session[c].eof
    /\ session' = [session EXCEPT ![c].pc = "run", ![c].unread = @ + 1]
    /\ UNCHANGED <<storeVars, notifVars, busVars>>

\* An error of write_frame ends the session, with requests still unread.
WriteFails(c) ==
    /\ session[c].pc = "write"
    /\ session[c].eof
    /\ EndSession(c)
    /\ UNCHANGED <<storeVars, notifVars, busVars>>

-----------------------------------------------------------------------------
Init ==
    /\ StoreInit
    /\ NotificationInit
    /\ session = [c \in Clients |-> NoSession]
    /\ bus = <<>>
    /\ busUp = TRUE
    /\ announced = 0

DBusCall ==
    \/ \E id \in EventId : DBusPublish(id) \/ DBusDismiss(id)
    \/ DBusClear
    \/ \E replaces \in Replaces, keys \in KeySets :
          \/ \E nid \in Nid, id \in EventId : Notify(replaces, keys, nid, id)
          \/ NotifyFails(replaces)
    \/ \E nid \in Nid : CloseNotification(nid)

Handle(c) ==
    \/ HandlePing(c) \/ HandleRecent(c) \/ HandleDismiss(c) \/ HandleClear(c)
    \/ HandleAction(c) \/ HandleBad(c) \/ HandleEof(c)

\* The steps of the session task of c.
Serve(c) ==
    \/ Handle(c)
    \/ EmitAction(c) \/ EmitFails(c)
    \/ Recv(c) \/ RecvLagged(c)
    \/ WriteFrame(c) \/ WriteFails(c)

\* The steps of the client c.
ClientStep(c) ==
    \/ Connect(c) \/ Disconnect(c) \/ ClientRead(c)
    \/ \E request \in Requests : Send(c, request)

Next ==
    \/ DBusCall
    \/ Flush \/ BusLost
    \/ \E c \in Clients : Serve(c) \/ ClientStep(c)

Spec == Init /\ [][Next]_vars

\* Fairness of the daemon.  A task that can go on is polled again; select!
\* starts from a random branch, so that a branch that is ready again and again
\* is taken.  Nothing is assumed of D-Bus callers.
ServerFairness ==
    /\ WF_vars(Flush)
    /\ \A c \in Clients :
          /\ WF_vars(WriteFrame(c)) /\ WF_vars(WriteFails(c))
          /\ WF_vars(EmitAction(c)) /\ WF_vars(EmitFails(c))
          /\ SF_vars(Handle(c)) /\ SF_vars(Recv(c)) /\ SF_vars(RecvLagged(c))

\* Clients that go on reading what they are sent.
ReaderFairness == \A c \in Clients : WF_vars(ClientRead(c))

ServerFairSpec == Spec /\ ServerFairness
FairSpec == ServerFairSpec /\ ReaderFairness

-----------------------------------------------------------------------------
TypeOK ==
    /\ StoreTypeOK
    /\ NotificationTypeOK
    /\ session \in [Clients -> Session]
    /\ bus \in Seq(SignalType)
    /\ busUp \in BOOLEAN
    /\ announced \in Nat

\* The view that is left when the updates of q have been applied to view.
Settled(view, q) ==
    LET adds(i) == {p \in DOMAIN q : q[p] = Added(i)}
        drops(i) == {p \in DOMAIN q : q[p] \in {Removed(i), Cleared}}
    IN  {i \in EventId : \/ i \in view /\ drops(i) = {}
                         \/ \E p \in adds(i) : \A d \in drops(i) : d < p}

(* A client's list converges.  Whatever mixture of snapshots and live      *)
(* updates it has been sent, once the updates still queued for it are      *)
(* applied it lists every stored event from since on, and nothing but      *)
(* stored events and those the capacity has silently pushed out.  A        *)
(* session that lost an update ends instead.                               *)
MirrorConverges ==
    \A c \in Clients : Connected(c) /\ ~session[c].lagged =>
        LET list == Settled(session[c].view, session[c].queue)
        IN  /\ {i \in Stored : i >= session[c].since} \subseteq list
            /\ list \subseteq Stored \cup evicted

(* What is still queued for a session that lost nothing: the events after  *)
(* the last one delivered, each once, in order, up to the last published.  *)
FeedIntact ==
    \A c \in Clients : Connected(c) /\ ~session[c].lagged =>
        LET q == session[c].queue
            added == {p \in DOMAIN q : q[p].kind = "added"}
        IN  /\ {q[p].id : p \in added} = (session[c].live + 1)..LastIssued
            /\ \A p, r \in added : p < r => q[p].id < q[r].id

(* A client is never shown an older event as actionable for a notification *)
(* after a newer one: replaced events do not come back with actions        *)
(* (docs/SOCKET_API.md, "Notification actions").                           *)
ActionableOnlyNewest ==
    [][\A c \in Clients, n \in Nid :
         Connected(c) /\ Connected(c)' =>
            session'[c].shown[n] >= session[c].shown[n]]_vars

(* A request for an action that is still to be handled was made from the   *)
(* event that its notification has now, or from an older one: however      *)
(* notifications are replaced, closed and opened again in the meantime, an *)
(* action is never taken for an event that came before the one the client  *)
(* saw (docs/SOCKET_API.md, "Notification actions").                       *)
ActionsNeverGoBack ==
    \A c \in Clients : \A p \in DOMAIN session[c].inq :
        LET asked == session[c].inq[p]
        IN  asked.req.type = "action" /\ asked.req.nid \in DOMAIN active =>
                asked.seen <= active[asked.req.nid].event

(* On D-Bus, events are announced in the order of their publication, and a *)
(* removal, a closed notification or an action that a socket client asked  *)
(* for is never signalled before the event it concerns was announced.      *)
SignalsInOrder ==
    LET added == {p \in DOMAIN bus : bus[p].sig = "EventAdded"}
    IN  /\ \A p \in added : bus[p].id > announced
        /\ \A p, r \in added : p < r => bus[p].id < bus[r].id
        /\ \A p \in DOMAIN bus :
             bus[p].sig \in {"EventRemoved", "NotificationClosed", "ActionInvoked"} =>
                \/ bus[p].id <= announced
                \/ \E r \in added : r < p /\ bus[r].id = bus[p].id

\* The abstract feed that the clients see.
Feed == INSTANCE AttentionFeed WITH
            Subscribers <- Clients,
            MaxEvent <- MaxEventId,
            last <- LastIssued,
            on <- {c \in Clients : Connected(c)},
            seen <- [c \in Clients |-> session[c].live]

(* The daemon implements the feed: within a session the live events come   *)
(* one after the other, the first being the one after those published      *)
(* before the connection; a client that missed one is disconnected before  *)
(* it is sent a later one; what happens to a slow client changes neither   *)
(* publication nor what the others are sent (docs/ATTENTION_API.md,        *)
(* "Socket live delivery").                                                *)
ImplementsFeed == Feed!Spec

\* The same feed as the D-Bus connection carries it, from the start of the
\* daemon until the connection is lost.
Connection == IF busUp THEN {"dbus"} ELSE {}

BusFeed == INSTANCE AttentionFeed WITH
               Subscribers <- {"dbus"},
               MaxEvent <- MaxEventId,
               last <- LastIssued,
               on <- Connection,
               seen <- [l \in {"dbus"} |-> IF busUp THEN announced ELSE 0]

(* D-Bus carries the feed too: as long as the connection works, EventAdded *)
(* is sent for every published event, once, in the order of publication    *)
(* and with none left out, whichever method published it and whatever other*)
(* signals wait for the connection (docs/ATTENTION_API.md: "emitted once   *)
(* after successful insertion").                                           *)
ImplementsBusFeed == BusFeed!Spec

(* Every event reaches every client that is connected when it is published *)
(* and goes on reading, or the session ends: a client that keeps sending   *)
(* requests does not starve its own updates.                               *)
UpdatesReachReaders == Feed!Progress

-----------------------------------------------------------------------------
(* What the documents say and the code does not do.                        *)

(* docs/ATTENTION_API.md: EventRemoved is "emitted once after successful   *)
(* dismissal", EventCleared "once after a non-empty clear".  A removal     *)
(* that a socket client asks for is never signalled on D-Bus.              *)
RemovalsSignalled ==
    [][busUp /\ busUp' =>
         \A e \in Stored \ (Stored' \cup evicted') :
            \E p \in DOMAIN bus' :
               \/ bus'[p].sig = "EventRemoved" /\ bus'[p].id = e
               \/ bus'[p].sig = "EventCleared"]_vars

(* docs/SOCKET_API.md: "A client that cannot keep up is disconnected".  A  *)
(* client that stops reading keeps its session in write_frame for good,    *)
(* and the session never gets to see that it lagged.                       *)
SlowClientsDisconnected ==
    \A c \in Clients : session[c].lagged ~> ~Connected(c)

(* docs/NOTIFICATION_INGESTION.md: "unknown, closed, replaced, and stale   *)
(* requests are rejected".  A request that was made from a replaced event  *)
(* is accepted when the replacement has an action with the same key.       *)
StaleActionsRejected ==
    [][\A c \in Clients :
         session[c].pc = "run" /\ session'[c].pc = "emit" =>
            LET request == Head(session[c].inq)
            IN  request.seen \in {0, active[request.req.nid].event}]_vars

=============================================================================

---------------------------- MODULE DaemonProofs ----------------------------
(***************************************************************************)
(* Proofs about the daemon, for every number of clients, every capacity of *)
(* the store and of the channel, and every range of identifiers.           *)
(***************************************************************************)
EXTENDS Daemon, StoreProofs

USE ChannelCapacityAssumption

-----------------------------------------------------------------------------
(* The stores.                                                             *)

(* A D-Bus method changes the stores by one of their own steps, or not at  *)
(* all.                                                                    *)
LEMMA CallsAreStoreSteps ==
    ASSUME DBusCall
    PROVE  [NotificationNext]_notificationVars
  <1>1. ASSUME NEW id \in EventId, DBusPublish(id) \/ DBusDismiss(id)
        PROVE  NotificationNext
    BY <1>1 DEF DBusPublish, DBusDismiss, NotificationNext, StoreNext
  <1>2. ASSUME DBusClear PROVE NotificationNext
    BY <1>2 DEF DBusClear, NotificationNext, StoreNext
  <1>3. ASSUME NEW replaces \in Replaces, NEW keys \in KeySets,
               \/ \E nid \in Nid, id \in EventId : Notify(replaces, keys, nid, id)
               \/ NotifyFails(replaces)
        PROVE  NotificationNext
    <2>1. replaces \in 0..MaxNid /\ keys \in SUBSET Keys
      BY ReplacesAssumption, KeySetsAssumption
    <2> QED BY <1>3, <2>1 DEF Notify, NotifyFails, NotificationNext
  <1>4. ASSUME NEW nid \in Nid, CloseNotification(nid) PROVE NotificationNext
    BY <1>4 DEF CloseNotification, NotificationNext
  <1> QED BY <1>1, <1>2, <1>3, <1>4 DEF DBusCall

(* So does a session: only dismiss and clear requests change the store.    *)
LEMMA ServeStepsStore ==
    ASSUME StoreTypeOK, NEW c \in Clients, Serve(c)
    PROVE  [NotificationNext]_notificationVars
  <1>1. ASSUME HandleDismiss(c) PROVE [StoreNext]_storeVars /\ UNCHANGED notifVars
    <2>1. ASSUME NEW id, Dismiss(id) PROVE id \in EventId
      BY <2>1, StoredIsRange DEF Dismiss
    <2> QED BY <1>1, <2>1 DEF HandleDismiss, StoreNext
  <1>2. ASSUME HandleClear(c) PROVE [StoreNext]_storeVars /\ UNCHANGED notifVars
    BY <1>2 DEF HandleClear, StoreNext
  <1>3. ASSUME Serve(c), ~HandleDismiss(c), ~HandleClear(c)
        PROVE  UNCHANGED notificationVars
    BY <1>3 DEF Serve, Handle, HandlePing, HandleRecent, HandleAction, HandleBad,
                HandleEof, EmitAction, EmitFails, Recv, RecvLagged, WriteFrame,
                WriteFails, notificationVars
  <1> QED BY <1>1, <1>2, <1>3 DEF NotificationNext, notificationVars

(* Every step of the daemon is a step of the stores or leaves them alone.  *)
LEMMA DaemonStepsStores ==
    ASSUME StoreTypeOK, [Next]_vars
    PROVE  [NotificationNext]_notificationVars
  <1>1. ASSUME NEW c \in Clients, ClientStep(c) PROVE UNCHANGED notificationVars
    BY <1>1 DEF ClientStep, Connect, Disconnect, ClientRead, Send, notificationVars
  <1>2. ASSUME Flush \/ BusLost PROVE UNCHANGED notificationVars
    BY <1>2 DEF Flush, BusLost, notificationVars
  <1>3. ASSUME UNCHANGED vars PROVE UNCHANGED notificationVars
    BY <1>3 DEF vars, notificationVars
  <1> QED BY <1>1, <1>2, <1>3, CallsAreStoreSteps, ServeStepsStore DEF Next

(* A step of the stores keeps the events or is a step of the event store.  *)
LEMMA NotificationStepsStore ==
    ASSUME [NotificationNext]_notificationVars
    PROVE  [StoreNext]_storeVars
  BY DEF NotificationNext, NotifyPublishes, NotifyWithoutNid, NotifyWithoutEvent,
         Close, StoreNext, notificationVars

-----------------------------------------------------------------------------
(* The invariants of the stores hold in the running daemon.                *)
THEOREM StoresInvariant == Spec => []NotificationIInv
  <1>1. Init => NotificationIInv
    BY NotificationInitIInv DEF Init
  <1>2. NotificationIInv /\ [Next]_vars => NotificationIInv'
    BY NotificationStep, DaemonStepsStores DEF NotificationIInv, StoreIInv
  <1> QED BY <1>1, <1>2, PTL DEF Spec

(* Whatever its tasks do at the same time, the daemon changes its two      *)
(* stores by one whole operation after the other, with its operands taken  *)
(* from the state as it is then.                                           *)
THEOREM DaemonImplementsStores == Spec => NotificationSpec
  <1>1. Init => StoreInit /\ NotificationInit
    BY DEF Init
  <1>2. NotificationIInv /\ [Next]_vars => [NotificationNext]_<<storeVars, notifVars>>
    BY DaemonStepsStores DEF NotificationIInv, StoreIInv, notificationVars
  <1> QED BY <1>1, <1>2, StoresInvariant, PTL DEF Spec, NotificationSpec

(* The event store of the daemon is a bounded, ordered window.             *)
THEOREM StoreWindow == Spec => []StoreInv
  <1>1. NotificationIInv => StoreInv
    BY DEF NotificationIInv, StoreIInv
  <1> QED BY <1>1, StoresInvariant, PTL

(* No step of the daemon brings an identifier back.                        *)
THEOREM NeverResurrected == Spec => NoResurrection
  <1>1. NotificationIInv /\ [Next]_vars =>
          [/\ LastIssued' >= LastIssued
           /\ \A e \in Stored' \ Stored : e > LastIssued]_storeVars
    BY StoreStep, DaemonStepsStores, NotificationStepsStore DEF NotificationIInv, StoreIInv
  <1> QED BY <1>1, StoresInvariant, PTL DEF Spec, NoResurrection

(* An event belongs to at most one active notification.                    *)
THEOREM OneActive == Spec => []OneActivePerEvent
  <1>1. NotificationIInv => OneActivePerEvent
    BY DEF NotificationIInv
  <1> QED BY <1>1, StoresInvariant, PTL

(* A fresh identifier takes over no active notification.                   *)
THEOREM FreshNeverHijacks == Spec => FreshIdNeverHijacks
  <1>1. NotificationIInv /\ [Next]_vars =>
          [nNext' # nNext =>
             \A n \in DOMAIN active : n \in DOMAIN active' /\ active'[n] = active[n]]_notifVars
    BY FreshStep, DaemonStepsStores DEF NotificationIInv, StoreIInv
  <1> QED BY <1>1, StoresInvariant, PTL DEF Spec, FreshIdNeverHijacks

-----------------------------------------------------------------------------
(* Types of the sessions and of the D-Bus connection.                      *)
DaemonTypeOK ==
    /\ session \in [Clients -> Session]
    /\ bus \in Seq(SignalType)
    /\ busUp \in BOOLEAN
    /\ announced \in Nat

(* The fields of a record of the type Session have their types, and a      *)
(* record with such fields and no others is of that type.                  *)
LEMMA NoSessionType == NoSession \in Session
  BY DEF NoSession, Session, NotShown

(* The updates that are sent have the type of updates.                     *)
LEMMA UpdateTypes ==
    /\ \A id \in EventId : Added(id) \in Update(EventId) /\ Removed(id) \in Update(EventId)
    /\ Cleared \in Update(EventId)
  BY DEF Added, Removed, Cleared, Update

(* A receiver that is offered an update gets it last in its queue, or has  *)
(* lagged; nothing else of the session changes.                            *)
LEMMA OfferedType ==
    ASSUME NEW s \in Session, NEW u \in Update(EventId)
    PROVE  /\ Offered(s, u) \in Session
           /\ Offered(s, u).pc = s.pc
           /\ Offered(s, u).live = s.live
           /\ \/ Offered(s, u).queue = Append(s.queue, u) /\ Offered(s, u).lagged = s.lagged
              \/ Offered(s, u).lagged
  <1>1. s.queue \in Seq(Update(EventId)) /\ Append(s.queue, u) \in Seq(Update(EventId))
    BY AppendProperties DEF Session
  <1>2. CASE Len(s.queue) < ChannelCapacity
    BY <1>1, <1>2 DEF Offered, Session
  <1>3. CASE ~(Len(s.queue) < ChannelCapacity)
    <2>1. s.queue # <<>>
      BY <1>1, <1>3, EmptySeq
    <2>2. Append(Tail(s.queue), u) \in Seq(Update(EventId))
      BY <1>1, <2>1, HeadTailProperties, AppendProperties
    <2> QED BY <1>3, <2>2 DEF Offered, Session
  <1> QED BY <1>2, <1>3

(* Sending on the channel leaves every session a session.                  *)
LEMMA BroadcastedType ==
    ASSUME DaemonTypeOK, NEW u \in Update(EventId)
    PROVE  Broadcasted(u) \in [Clients -> Session]
  BY OfferedType DEF DaemonTypeOK, Broadcasted

(* Taking a request off keeps the receiver as it is.                       *)
LEMMA AnsweringType ==
    ASSUME NEW s \in Session, s.inq # <<>>
    PROVE  /\ Answering(s) \in Session
           /\ Answering(s).pc = "write"
           /\ Answering(s).queue = s.queue
           /\ Answering(s).lagged = s.lagged
           /\ Answering(s).live = s.live
  <1>1. Tail(s.inq) \in Seq(Sent)
    BY HeadTailProperties DEF Session
  <1> QED BY <1>1 DEF Answering, Session

(* Turning an update into a frame moves live to the event it added.        *)
LEMMA DeliveredType ==
    ASSUME NEW s \in Session, NEW u \in Update(EventId)
    PROVE  /\ Delivered(s, u) \in Session
           /\ Delivered(s, u).pc = s.pc
           /\ Delivered(s, u).queue = s.queue
           /\ Delivered(s, u).lagged = s.lagged
           /\ Delivered(s, u).live = IF u.kind = "added" THEN u.id ELSE s.live
  <1>1. CASE u.kind = "added"
    <2> DEFINE shown == [n \in Nid |-> IF n \in ActiveForEvent(u.id) THEN u.id ELSE s.shown[n]]
    <2>1. u.id \in EventId
      BY <1>1 DEF Update, Cleared
    <2>2. shown \in [Nid -> EventId \cup {0}] /\ s.view \cup {u.id} \in SUBSET EventId
      BY <2>1 DEF Session
    <2>3. Delivered(s, u) =
            [s EXCEPT !.view = s.view \cup {u.id}, !.live = u.id, !.shown = shown]
      BY <1>1 DEF Delivered
    <2> HIDE DEF shown
    <2> QED BY <1>1, <2>1, <2>2, <2>3 DEF Session
  <1>2. CASE u.kind = "removed"
    BY <1>2 DEF Delivered, Session, Update
  <1>3. CASE u.kind = "cleared"
    BY <1>3 DEF Delivered, Session, Update
  <1> QED BY <1>1, <1>2, <1>3 DEF Update, Cleared

(* A snapshot changes what the client lists, not its receiver.             *)
LEMMA SnapshotType ==
    ASSUME NotificationIInv, NEW s \in Session, NEW recent \in Seq(EventId)
    PROVE  /\ Snapshot(s, recent) \in Session
           /\ Snapshot(s, recent).pc = s.pc
           /\ Snapshot(s, recent).queue = s.queue
           /\ Snapshot(s, recent).lagged = s.lagged
           /\ Snapshot(s, recent).live = s.live
  <1> DEFINE since == CASE Len(recent) = Len(events) -> 1
                        [] recent = <<>> /\ events # <<>> -> LastIssued + 1
                        [] OTHER -> Last(recent)
             shown == [n \in Nid |-> IF \E e \in ToSet(recent) : n \in ActiveForEvent(e)
                                     THEN active[n].event ELSE s.shown[n]]
  <1>1. LastIssued \in Nat /\ events \in Seq(EventId)
    BY StoredIsRange DEF NotificationIInv, StoreIInv, StoreTypeOK
  <1>2. since \in Nat
    <2>1. CASE recent # <<>>
      <3>1. recent[Len(recent)] \in EventId
        BY <2>1, EmptySeq, ElementOfSeq
      <3> QED BY <1>1, <2>1, <3>1 DEF Last, EventId
    <2>2. CASE recent = <<>>
      BY <1>1, <2>2, EmptySeq
    <2> QED BY <2>1, <2>2
  <1>3. ToSet(recent) \subseteq EventId
    BY LenProperties, ElementOfSeq DEF ToSet
  <1>4. shown \in [Nid -> EventId \cup {0}]
    BY <1>3 DEF Session, ActiveForEvent
  <1>5. Snapshot(s, recent) =
          [s EXCEPT !.view = ToSet(recent), !.since = since, !.shown = shown]
    BY DEF Snapshot
  <1> HIDE DEF since, shown
  <1> QED BY <1>2, <1>3, <1>4, <1>5 DEF Session

(* A snapshot is a sequence of events.                                     *)
LEMMA RecentType ==
    ASSUME StoreTypeOK, NEW limit \in Nat
    PROVE  Recent(limit) \in Seq(EventId)
  <1> DEFINE n == IF limit < Len(events) THEN limit ELSE Len(events)
             s == SubSeq(events, Len(events) - n + 1, Len(events))
  <1>1. events \in Seq(EventId) /\ Len(events) \in Nat /\ n \in 0..Len(events)
    BY LenProperties DEF StoreTypeOK
  <1>2. s \in Seq(EventId)
    BY <1>1, SubSeqProperties
  <1> HIDE DEF n, s
  <1>3. Reverse(s) \in Seq(EventId)
    <2>1. Len(s) \in Nat /\ \A i \in 1..Len(s) : s[(Len(s) - i) + 1] \in EventId
      BY <1>2, LenProperties, ElementOfSeq
    <2> QED BY <2>1 DEF Reverse
  <1> QED BY <1>3 DEF Recent, n, s

-----------------------------------------------------------------------------
(* The signals that wait.  A session is named as the owner of a signal only*)
(* while it waits for that one signal: Flush would else wake up a session  *)
(* that is somewhere else, or has ended.                                   *)
BusInv ==
    /\ ~busUp => bus = <<>>
    /\ \A p \in 1..Len(bus) : bus[p].owner \in Clients =>
          /\ session[bus[p].owner].pc = "sent"
          /\ \A r \in 1..Len(bus) : bus[r].owner = bus[p].owner => r = p

(* What a step of the daemon can do to the sessions, as far as the feed of *)
(* live events is concerned.                                               *)
Same(s, t) ==
    /\ t.queue = s.queue /\ t.lagged = s.lagged /\ t.live = s.live
    /\ t.pc = "off" <=> s.pc = "off"

Quiet ==
    /\ LastIssued' = LastIssued
    /\ \A c \in Clients : Same(session[c], session'[c])

\* Every receiver is offered u.
Fed(s, t, u) ==
    /\ t.live = s.live
    /\ t.pc = "off" <=> s.pc = "off"
    /\ t.pc # "off" => \/ t.queue = Append(s.queue, u) /\ t.lagged = s.lagged
                       \/ t.lagged

AllFed(u) == \A c \in Clients : Fed(session[c], session'[c], u)

Publishes == LastIssued' = LastIssued + 1 /\ AllFed(Added(LastIssued'))

Removes ==
    /\ LastIssued' = LastIssued
    /\ \E u \in Update(EventId) : u.kind # "added" /\ AllFed(u)

Others(c) == \A d \in Clients \ {c} : Same(session[d], session'[d])

Ends(c) ==
    /\ LastIssued' = LastIssued
    /\ Connected(c) /\ session'[c] = NoSession /\ Others(c)

Joins(c) ==
    /\ LastIssued' = LastIssued
    /\ ~Connected(c) /\ Connected(c)' /\ Others(c)
    /\ session'[c].queue = <<>> /\ session'[c].live = LastIssued

Receives(c) ==
    /\ LastIssued' = LastIssued
    /\ Connected(c) /\ Connected(c)' /\ Others(c)
    /\ ~session[c].lagged /\ ~session'[c].lagged
    /\ session[c].queue # <<>>
    /\ session'[c].queue = Tail(session[c].queue)
    /\ session'[c].live = IF Head(session[c].queue).kind = "added"
                          THEN Head(session[c].queue).id ELSE session[c].live

Effect == \/ Quiet \/ Publishes \/ Removes
          \/ \E c \in Clients : Ends(c) \/ Joins(c) \/ Receives(c)

\* What is to be shown of every step.
StepOK == DaemonTypeOK' /\ BusInv' /\ Effect

(* A step that sets one session and leaves the connection alone.           *)
LEMMA OneSession ==
    ASSUME DaemonTypeOK, BusInv, NEW c \in Clients, NEW t \in Session,
           session' = [session EXCEPT ![c] = t], UNCHANGED busVars,
           session[c].pc = "sent" => t.pc = "sent" \/ ~busUp
    PROVE  /\ DaemonTypeOK' /\ BusInv'
           /\ session'[c] = t /\ Others(c)
  <1>1. /\ bus' = bus /\ busUp' = busUp /\ announced' = announced
        /\ session'[c] = t
        /\ \A d \in Clients \ {c} : session'[d] = session[d]
    BY DEF busVars, DaemonTypeOK
  <1>2. DaemonTypeOK'
    BY <1>1 DEF DaemonTypeOK
  <1>3. BusInv'
    <2>1. CASE busUp
      BY <1>1, <2>1 DEF BusInv
    <2>2. CASE ~busUp
      BY <1>1, <2>2, EmptySeq DEF BusInv
    <2> QED BY <2>1, <2>2
  <1> QED BY <1>1, <1>2, <1>3 DEF Others, Same

(* A D-Bus method that asks for a signal: no session waits for it.         *)
LEMMA EmittedForNobody ==
    ASSUME DaemonTypeOK, BusInv, NEW id \in Nat,
           NEW name \in {"EventAdded", "EventRemoved", "EventCleared", "NotificationClosed"},
           busUp, Emit(name, id, 0), session' \in [Clients -> Session],
           \A c \in Clients : session'[c].pc = session[c].pc
    PROVE  DaemonTypeOK' /\ BusInv'
  <1> DEFINE signal == Signal(name, id, 0)
  <1>1. signal \in SignalType /\ signal.owner \notin Clients
    BY NoClientIsNone DEF Signal, SignalType
  <1>2. bus' = Append(bus, signal) /\ busUp' = busUp /\ announced' = announced
    BY DEF Emit
  <1> HIDE DEF signal
  <1>3. /\ bus' \in Seq(SignalType) /\ Len(bus') = Len(bus) + 1
        /\ \A p \in 1..Len(bus) : bus'[p] = bus[p]
        /\ bus'[Len(bus) + 1] = signal
        /\ Len(bus) \in Nat
    BY <1>1, <1>2, AppendProperties, LenProperties DEF DaemonTypeOK
  <1>4. DaemonTypeOK'
    BY <1>2, <1>3 DEF DaemonTypeOK
  <1>5. BusInv'
    BY <1>1, <1>2, <1>3 DEF BusInv
  <1> QED BY <1>4, <1>5

(* Sending on the channel moves no session and offers the update to every  *)
(* receiver.                                                               *)
LEMMA BroadcastFeeds ==
    ASSUME DaemonTypeOK, NEW u \in Update(EventId), session' = Broadcasted(u)
    PROVE  /\ session' \in [Clients -> Session]
           /\ \A c \in Clients : session'[c].pc = session[c].pc
           /\ AllFed(u)
  <1>1. session' \in [Clients -> Session]
    BY BroadcastedType
  <1>2. ASSUME NEW c \in Clients
        PROVE  session'[c].pc = session[c].pc /\ Fed(session[c], session'[c], u)
    <2>1. session[c] \in Session
      BY DEF DaemonTypeOK
    <2>2. CASE Connected(c)
      <3>1. session'[c] = Offered(session[c], u)
        BY <2>2 DEF Broadcasted
      <3> QED BY <2>1, <3>1, OfferedType DEF Fed
    <2>3. CASE ~Connected(c)
      <3>1. session'[c] = session[c]
        BY <2>3 DEF Broadcasted
      <3> QED BY <2>3, <3>1 DEF Fed, Connected
    <2> QED BY <2>2, <2>3
  <1> QED BY <1>1, <1>2 DEF AllFed

(* Publishing over D-Bus, by Publish or by Notify.                         *)
LEMMA PublishOK ==
    ASSUME NotificationIInv, DaemonTypeOK, BusInv, NEW id \in EventId,
           busUp, Publish(id), session' = Broadcasted(Added(id)), Emit("EventAdded", id, 0)
    PROVE  StepOK
  <1>1. LastIssued' = LastIssued + 1 /\ id = LastIssued'
    BY PublishIInv DEF NotificationIInv
  <1>2. DaemonTypeOK' /\ BusInv'
    BY UpdateTypes, BroadcastFeeds, EmittedForNobody DEF EventId
  <1>3. AllFed(Added(LastIssued'))
    BY <1>1, UpdateTypes, BroadcastFeeds
  <1> QED BY <1>1, <1>2, <1>3 DEF StepOK, Effect, Publishes

(* A removal over D-Bus, by Dismiss or by Clear.                           *)
LEMMA RemovalOK ==
    ASSUME DaemonTypeOK, BusInv, NEW u \in Update(EventId), u.kind # "added",
           LastIssued' = LastIssued, busUp, session' = Broadcasted(u), NEW id \in Nat,
           NEW name \in {"EventRemoved", "EventCleared"}, Emit(name, id, 0)
    PROVE  StepOK
  <1>1. DaemonTypeOK' /\ BusInv'
    BY BroadcastFeeds, EmittedForNobody
  <1>2. AllFed(u)
    BY BroadcastFeeds
  <1> QED BY <1>1, <1>2 DEF StepOK, Effect, Removes

(* The D-Bus methods.                                                      *)
LEMMA CallOK ==
    ASSUME NotificationIInv, DaemonTypeOK, BusInv, DBusCall
    PROVE  StepOK
  <1>0. /\ \A id \in EventId : Removed(id).kind # "added"
        /\ Cleared.kind # "added"
    BY DEF Removed, Cleared
  <1>1. ASSUME NEW id \in EventId, DBusPublish(id) PROVE StepOK
    BY <1>1, PublishOK DEF DBusPublish, Called
  <1>2. ASSUME NEW id \in EventId, DBusDismiss(id) PROVE StepOK
    <2>1. LastIssued' = LastIssued
      BY <1>2, DismissIInv DEF DBusDismiss, NotificationIInv
    <2>2. /\ busUp /\ session' = Broadcasted(Removed(id))
          /\ Emit("EventRemoved", id, 0) /\ id \in Nat
      BY <1>2 DEF DBusDismiss, Called, EventId
    <2> QED BY <1>0, <2>1, <2>2, UpdateTypes, RemovalOK
  <1>3. ASSUME DBusClear PROVE StepOK
    <2>1. LastIssued' = LastIssued
      BY <1>3, ClearIInv DEF DBusClear, NotificationIInv
    <2>2. busUp /\ session' = Broadcasted(Cleared) /\ Emit("EventCleared", 0, 0)
      BY <1>3 DEF DBusClear, Called
    <2> QED BY <1>0, <2>1, <2>2, UpdateTypes, RemovalOK
  <1>4. ASSUME NEW replaces, NEW keys, NEW nid, NEW id \in EventId,
               Notify(replaces, keys, nid, id)
        PROVE  StepOK
    BY <1>4, PublishOK DEF Notify, Called, NotifyPublishes
  <1>5. ASSUME NEW replaces, NotifyFails(replaces) PROVE StepOK
    <2>1. /\ UNCHANGED <<session, busVars>> /\ nextId' = nextId
      BY <1>5 DEF NotifyFails, NotifyWithoutNid, NotifyWithoutEvent, storeVars
    <2>2. DaemonTypeOK' /\ BusInv'
      BY <2>1 DEF DaemonTypeOK, BusInv, busVars
    <2>3. Quiet
      BY <2>1 DEF Quiet, Same, LastIssued
    <2> QED BY <2>2, <2>3 DEF StepOK, Effect
  <1>6. ASSUME NEW nid \in Nid, CloseNotification(nid) PROVE StepOK
    <2>1. /\ busUp /\ session' = session /\ nextId' = nextId
          /\ Emit("NotificationClosed", active[nid].event, 0)
      BY <1>6 DEF CloseNotification, Called, Close, storeVars
    <2>2. active[nid].event \in Nat
      BY <1>6 DEF CloseNotification, Close, NotificationIInv, NotificationTypeOK,
                  Entry, EventId
    <2>3. DaemonTypeOK' /\ BusInv'
      BY <2>1, <2>2, EmittedForNobody DEF DaemonTypeOK
    <2>4. Quiet
      BY <2>1 DEF Quiet, Same, LastIssued
    <2> QED BY <2>3, <2>4 DEF StepOK, Effect
  <1> QED BY <1>1, <1>2, <1>3, <1>4, <1>5, <1>6 DEF DBusCall

(* The connection writes a message: the session that waits for it, and no  *)
(* other, goes on; nobody else waits for the same message.                 *)
LEMMA FlushOK ==
    ASSUME DaemonTypeOK, BusInv, Flush
    PROVE  StepOK
  <1> DEFINE signal == Head(bus)
             n == Len(bus)
  <1>1. /\ busUp /\ busUp' = busUp /\ bus # <<>> /\ bus' = Tail(bus)
        /\ announced' = IF signal.sig = "EventAdded" THEN signal.id ELSE announced
        /\ session' = IF signal.owner \in Clients
                      THEN [session EXCEPT ![signal.owner].pc = "write"] ELSE session
        /\ nextId' = nextId
    BY DEF Flush, storeVars
  <1>2. /\ n \in Nat \ {0} /\ signal = bus[1]
        /\ bus' \in Seq(SignalType) /\ Len(bus') = n - 1
        /\ \A p \in 1..(n - 1) : bus'[p] = bus[p + 1]
        /\ \A p \in 1..n : bus[p] \in SignalType
    BY <1>1, EmptySeq, HeadTailProperties, LenProperties, ElementOfSeq DEF DaemonTypeOK
  <1> HIDE DEF signal, n
  <1>3. LastIssued' = LastIssued /\ announced' \in Nat
    <2>1. signal \in SignalType
      BY <1>2
    <2>2. signal.id \in Nat /\ announced \in Nat
      BY <2>1 DEF SignalType, DaemonTypeOK
    <2> QED BY <1>1, <2>2 DEF LastIssued
  <1>4. CASE signal.owner \in Clients
    <2> DEFINE c == signal.owner
    <2>1. /\ session' = [session EXCEPT ![c].pc = "write"]
          /\ session[c].pc = "sent" /\ session[c] \in Session
          /\ \A r \in 1..n : bus[r].owner = c => r = 1
      BY <1>1, <1>2, <1>4 DEF BusInv, DaemonTypeOK, n
    <2>2. /\ session' \in [Clients -> Session]
          /\ \A d \in Clients \ {c} : session'[d] = session[d]
          /\ session'[c] = [session[c] EXCEPT !.pc = "write"]
      BY <1>4, <2>1 DEF DaemonTypeOK, Session
    <2>3. \A d \in Clients : Same(session[d], session'[d])
      BY <2>1, <2>2 DEF Same, Session
    <2> HIDE DEF c
    <2>4. \A p \in 1..(n - 1) : bus'[p].owner # c
      BY <1>2, <2>1
    <2>5. BusInv'
      <3>1. ASSUME NEW p \in 1..(n - 1), bus'[p].owner \in Clients
            PROVE  /\ session'[bus'[p].owner].pc = "sent"
                   /\ \A r \in 1..(n - 1) : bus'[r].owner = bus'[p].owner => r = p
        <4>1. /\ bus'[p] = bus[p + 1] /\ p + 1 \in 1..n
              /\ \A r \in 1..(n - 1) : bus'[r] = bus[r + 1] /\ r + 1 \in 1..n
          BY <1>2
        <4>2. /\ session[bus[p + 1].owner].pc = "sent"
              /\ \A r \in 1..n : bus[r].owner = bus[p + 1].owner => r = p + 1
          BY <3>1, <4>1 DEF BusInv, n
        <4>3. session'[bus'[p].owner] = session[bus[p + 1].owner]
          BY <2>2, <2>4, <3>1, <4>1
        <4> QED BY <4>1, <4>2, <4>3
      <3> QED BY <1>1, <1>2, <3>1 DEF BusInv
    <2> QED BY <1>1, <1>2, <1>3, <2>2, <2>3, <2>5 DEF StepOK, Effect, Quiet, DaemonTypeOK
  <1>5. CASE signal.owner \notin Clients
    <2>1. session' = session
      BY <1>1, <1>5
    <2>2. BusInv'
      <3>1. ASSUME NEW p \in 1..(n - 1), bus'[p].owner \in Clients
            PROVE  /\ session[bus'[p].owner].pc = "sent"
                   /\ \A r \in 1..(n - 1) : bus'[r].owner = bus'[p].owner => r = p
        <4>1. /\ bus'[p] = bus[p + 1] /\ p + 1 \in 1..n
              /\ \A r \in 1..(n - 1) : bus'[r] = bus[r + 1] /\ r + 1 \in 1..n
          BY <1>2
        <4>2. /\ session[bus[p + 1].owner].pc = "sent"
              /\ \A r \in 1..n : bus[r].owner = bus[p + 1].owner => r = p + 1
          BY <3>1, <4>1 DEF BusInv, n
        <4> QED BY <4>1, <4>2
      <3> QED BY <1>1, <1>2, <2>1, <3>1 DEF BusInv
    <2> QED BY <1>1, <1>2, <1>3, <2>1, <2>2 DEF StepOK, Effect, Quiet, Same, DaemonTypeOK
  <1> QED BY <1>4, <1>5

(* When the message bus goes away no signal waits any more.                *)
LEMMA BusLostOK ==
    ASSUME DaemonTypeOK, BusInv, BusLost
    PROVE  StepOK
  <1>1. /\ busUp' = FALSE /\ bus' = <<>> /\ session' = session
        /\ announced' = announced /\ nextId' = nextId
    BY DEF BusLost, storeVars
  <1>2. bus' \in Seq(SignalType) /\ Len(bus') = 0
    BY <1>1, EmptySeq
  <1>3. DaemonTypeOK' /\ BusInv'
    <2>1. DaemonTypeOK'
      BY <1>1, <1>2 DEF DaemonTypeOK
    <2>2. 1..Len(bus') = {}
      BY <1>2
    <2> QED BY <1>1, <2>1, <2>2 DEF BusInv
  <1>4. Quiet
    BY <1>1 DEF Quiet, Same, LastIssued
  <1> QED BY <1>3, <1>4 DEF StepOK, Effect

(* A step of one session that keeps its receiver as it is.                 *)
LEMMA QuietOK ==
    ASSUME DaemonTypeOK, BusInv, NEW c \in Clients, NEW t \in Session,
           session' = [session EXCEPT ![c] = t], UNCHANGED busVars,
           nextId' = nextId, Same(session[c], t),
           session[c].pc = "sent" => t.pc = "sent"
    PROVE  StepOK
  <1>1. DaemonTypeOK' /\ BusInv' /\ session'[c] = t /\ Others(c)
    BY OneSession
  <1>2. Quiet
    BY <1>1 DEF Quiet, Others, LastIssued
  <1> QED BY <1>1, <1>2 DEF StepOK, Effect

(* A session ends, when no signal can be waiting for it.                   *)
LEMMA EndOK ==
    ASSUME DaemonTypeOK, BusInv, NEW c \in Clients, EndSession(c), Connected(c),
           UNCHANGED busVars, nextId' = nextId,
           session[c].pc = "sent" => ~busUp
    PROVE  StepOK
  <1>1. DaemonTypeOK' /\ BusInv' /\ session'[c] = NoSession /\ Others(c)
    BY NoSessionType, OneSession DEF EndSession
  <1>2. Ends(c)
    BY <1>1 DEF Ends, LastIssued
  <1> QED BY <1>1, <1>2 DEF StepOK, Effect

(* The client's steps.                                                     *)
LEMMA ClientOK ==
    ASSUME NotificationIInv, DaemonTypeOK, BusInv, NEW c \in Clients, ClientStep(c)
    PROVE  StepOK
  <1>0. /\ session[c] \in Session /\ LastIssued \in Nat
        /\ nextId' = nextId /\ UNCHANGED busVars
    BY StoredIsRange DEF DaemonTypeOK, NotificationIInv, StoreIInv, ClientStep, Connect,
                         Disconnect, ClientRead, Send, storeVars
  <1>1. CASE Connect(c)
    <2> DEFINE t == [NoSession EXCEPT !.pc = "write", !.since = LastIssued + 1,
                                      !.live = LastIssued]
    <2>1. LastIssued \in EventId \cup {0}
      BY MaxEventIdAssumption
         DEF NotificationIInv, StoreIInv, StoreTypeOK, LastIssued, EventId, None
    <2>a. NoSession.queue = <<>>
      BY DEF NoSession
    <2>2. t \in Session /\ t.pc = "write" /\ t.queue = <<>> /\ t.live = LastIssued
      <3> DEFINE new(s, since, live) ==
                   [s EXCEPT !.pc = "write", !.since = since, !.live = live]
      <3>1. \A s \in Session, since \in Nat, live \in EventId \cup {0} :
              /\ new(s, since, live) \in Session
              /\ new(s, since, live).pc = "write"
              /\ new(s, since, live).queue = s.queue
              /\ new(s, since, live).live = live
        BY DEF Session
      <3>2. LastIssued + 1 \in Nat
        BY <1>0
      <3>3. t = new(NoSession, LastIssued + 1, LastIssued)
        OBVIOUS
      <3> HIDE DEF t, new
      <3> QED BY <2>1, <2>a, <3>1, <3>2, <3>3, NoSessionType
    <2>3. session' = [session EXCEPT ![c] = t] /\ session[c].pc = "off"
      BY <1>1 DEF Connect, Connected
    <2> HIDE DEF t
    <2>4. DaemonTypeOK' /\ BusInv' /\ session'[c] = t /\ Others(c)
      BY <1>0, <2>2, <2>3, OneSession
    <2>5. Joins(c)
      BY <1>0, <2>2, <2>3, <2>4 DEF Joins, Connected, LastIssued
    <2> QED BY <2>4, <2>5 DEF StepOK, Effect
  <1>2. CASE Disconnect(c)
    <2> DEFINE t == [session[c] EXCEPT !.eof = TRUE]
    <2>1. t \in Session /\ Same(session[c], t) /\ t.pc = session[c].pc
      BY <1>0 DEF Session, Same
    <2>2. session' = [session EXCEPT ![c] = t]
      BY <1>2 DEF Disconnect
    <2> HIDE DEF t
    <2> QED BY <1>0, <2>1, <2>2, QuietOK
  <1>3. CASE ClientRead(c)
    <2> DEFINE t == [session[c] EXCEPT !.unread = @ - 1]
    <2>a. session[c].unread - 1 \in Nat
      BY <1>0, <1>3 DEF Session, ClientRead
    <2>1. t \in Session /\ Same(session[c], t) /\ t.pc = session[c].pc
      BY <1>0, <2>a DEF Session, Same
    <2>2. session' = [session EXCEPT ![c] = t]
      BY <1>3 DEF ClientRead
    <2> HIDE DEF t
    <2> QED BY <1>0, <2>1, <2>2, QuietOK
  <1>4. ASSUME NEW request \in Requests, Send(c, request) PROVE StepOK
    <2> DEFINE entry == [req |-> request, seen |-> Seen(c, request)]
               t == [session[c] EXCEPT !.inq = Append(@, entry)]
    <2>1. entry \in Sent
      BY <1>0 DEF Sent, Seen, Session
    <2>2. session' = [session EXCEPT ![c] = t]
      BY <1>4 DEF Send
    <2> HIDE DEF entry
    <2>3. Append(session[c].inq, entry) \in Seq(Sent)
      BY <1>0, <2>1, AppendProperties DEF Session
    <2>4. t \in Session /\ Same(session[c], t) /\ t.pc = session[c].pc
      BY <1>0, <2>3 DEF Session, Same
    <2> HIDE DEF t
    <2> QED BY <1>0, <2>2, <2>4, QuietOK
  <1> QED BY <1>1, <1>2, <1>3, <1>4 DEF ClientStep

(* A request that is answered without touching the stores.                 *)
LEMMA AnswerOK ==
    ASSUME DaemonTypeOK, BusInv, NEW c \in Clients, NEW t \in Session,
           session[c].pc = "run", t.pc # "off",
           t.queue = session[c].queue, t.lagged = session[c].lagged,
           t.live = session[c].live,
           session' = [session EXCEPT ![c] = t], UNCHANGED busVars, nextId' = nextId
    PROVE  StepOK
  BY QuietOK DEF Same

(* A request that removes events: every receiver is offered the update and *)
(* the session that asked goes on to answer.                               *)
LEMMA SocketRemovalOK ==
    ASSUME DaemonTypeOK, BusInv, NEW c \in Clients,
           session[c].pc = "run", session[c].inq # <<>>,
           NEW u \in Update(EventId), u.kind # "added",
           session' = [Broadcasted(u) EXCEPT ![c] = Answering(@)],
           UNCHANGED busVars, LastIssued' = LastIssued
    PROVE  StepOK
  <1> DEFINE fed == Offered(session[c], u)
  <1>1. /\ session[c] \in Session
        /\ \A d \in Clients : session[d] \in Session
        /\ Broadcasted(u) \in [Clients -> Session]
        /\ Broadcasted(u)[c] = fed
    BY BroadcastedType DEF DaemonTypeOK, Broadcasted, Connected
  <1>2. /\ fed \in Session /\ fed.pc = "run" /\ fed.live = session[c].live
        /\ \/ fed.queue = Append(session[c].queue, u) /\ fed.lagged = session[c].lagged
           \/ fed.lagged
        /\ fed.inq = session[c].inq
    <2>1. fed.inq = session[c].inq
      BY <1>1 DEF Offered, Session
    <2> QED BY <1>1, <2>1, OfferedType
  <1> HIDE DEF fed
  <1>3. /\ Answering(fed) \in Session /\ Answering(fed).pc = "write"
        /\ Answering(fed).queue = fed.queue /\ Answering(fed).lagged = fed.lagged
        /\ Answering(fed).live = fed.live
    BY <1>2, AnsweringType
  <1>4. /\ session' \in [Clients -> Session]
        /\ session'[c] = Answering(fed)
        /\ \A d \in Clients \ {c} : session'[d] = Broadcasted(u)[d]
    BY <1>1, <1>3
  <1>5. Fed(session[c], session'[c], u)
    BY <1>2, <1>3, <1>4 DEF Fed
  <1>6. ASSUME NEW d \in Clients \ {c}
        PROVE  Fed(session[d], session'[d], u) /\ session'[d].pc = session[d].pc
    <2>1. CASE Connected(d)
      <3>1. session'[d] = Offered(session[d], u)
        BY <1>4, <2>1 DEF Broadcasted
      <3> QED BY <1>1, <3>1, OfferedType DEF Fed
    <2>2. CASE ~Connected(d)
      <3>1. session'[d] = session[d]
        BY <1>4, <2>2 DEF Broadcasted
      <3> QED BY <2>2, <3>1 DEF Fed, Connected
    <2> QED BY <2>1, <2>2
  <1>7. AllFed(u)
    BY <1>5, <1>6 DEF AllFed
  <1>8. bus' = bus /\ busUp' = busUp /\ announced' = announced
    BY DEF busVars
  <1>9. DaemonTypeOK'
    BY <1>4, <1>8 DEF DaemonTypeOK
  <1>10. BusInv'
    BY <1>6, <1>8 DEF BusInv
  <1> QED BY <1>7, <1>9, <1>10 DEF StepOK, Effect, Removes

(* The requests of a client.                                               *)
LEMMA HandleOK ==
    ASSUME NotificationIInv, DaemonTypeOK, BusInv, NEW c \in Clients, Handle(c)
    PROVE  StepOK
  <1>0. session[c] \in Session /\ session[c].pc = "run" /\ UNCHANGED busVars
    BY DEF DaemonTypeOK, Handle, HandlePing, HandleRecent, HandleDismiss, HandleClear,
           HandleAction, HandleBad, HandleEof, Handling
  <1> DEFINE t == Answering(session[c])
  <1>1. session[c].inq # <<>> =>
          /\ t \in Session /\ t.pc = "write" /\ t.queue = session[c].queue
          /\ t.lagged = session[c].lagged /\ t.live = session[c].live
    BY <1>0, AnsweringType
  <1>2. session[c].inq # <<>> => Received(c) \in Requests
    <2>1. session[c].inq # <<>> => Head(session[c].inq) \in Sent
      BY <1>0, HeadTailProperties DEF Session
    <2> QED BY <2>1 DEF Received, Sent
  <1> HIDE DEF t
  <1>3. ASSUME session[c].inq # <<>>, session' = [session EXCEPT ![c] = t], nextId' = nextId
        PROVE  StepOK
    BY <1>0, <1>1, <1>3, AnswerOK
  <1>4. CASE HandlePing(c)
    BY <1>3, <1>4 DEF HandlePing, Handling, storeVars, t
  <1>5. CASE HandleRecent(c)
    <2> DEFINE recent == Recent(Received(c).limit)
    <2>1. /\ session[c].inq # <<>> /\ Received(c).type = "recent" /\ nextId' = nextId
          /\ session' = [session EXCEPT ![c] = Snapshot(t, recent)]
      BY <1>5 DEF HandleRecent, Handling, Received, storeVars, t
    <2>2. Received(c).limit \in Nat
      BY <1>2, <2>1, RequestsAssumption DEF Request
    <2>3. recent \in Seq(EventId)
      BY <2>2, RecentType DEF NotificationIInv, StoreIInv
    <2> HIDE DEF recent
    <2>4. /\ Snapshot(t, recent) \in Session
          /\ Snapshot(t, recent).pc = t.pc /\ Snapshot(t, recent).queue = t.queue
          /\ Snapshot(t, recent).lagged = t.lagged /\ Snapshot(t, recent).live = t.live
      BY <1>1, <2>1, <2>3, SnapshotType
    <2> QED BY <1>0, <1>1, <2>1, <2>4, AnswerOK
  <1>6. CASE HandleDismiss(c)
    <2>1. session[c].inq # <<>>
      BY <1>6 DEF HandleDismiss, Handling
    <2>2. CASE /\ Dismiss(Received(c).id)
               /\ session' = [Broadcasted(Removed(Received(c).id)) EXCEPT ![c] = Answering(@)]
      <3> DEFINE id == Received(c).id
      <3>1. id \in EventId
        BY <2>2, StoredIsRange DEF NotificationIInv, StoreIInv, Dismiss
      <3>2. LastIssued' = LastIssued
        BY <2>2, <3>1, DismissIInv DEF NotificationIInv
      <3>3. Removed(id) \in Update(EventId) /\ Removed(id).kind # "added"
        BY <3>1, UpdateTypes DEF Removed
      <3> QED BY <1>0, <2>1, <2>2, <3>2, <3>3, SocketRemovalOK
    <2>3. CASE session' = [session EXCEPT ![c] = t] /\ UNCHANGED storeVars
      BY <1>3, <2>1, <2>3 DEF storeVars
    <2> QED BY <1>6, <2>2, <2>3 DEF HandleDismiss, t
  <1>7. CASE HandleClear(c)
    <2>1. session[c].inq # <<>>
      BY <1>7 DEF HandleClear, Handling
    <2>2. CASE Clear /\ session' = [Broadcasted(Cleared) EXCEPT ![c] = Answering(@)]
      <3>1. LastIssued' = LastIssued
        BY <2>2, ClearIInv DEF NotificationIInv
      <3>2. Cleared \in Update(EventId) /\ Cleared.kind # "added"
        BY UpdateTypes DEF Cleared
      <3> QED BY <1>0, <2>1, <2>2, <3>1, <3>2, SocketRemovalOK
    <2>3. CASE session' = [session EXCEPT ![c] = t] /\ UNCHANGED storeVars
      BY <1>3, <2>1, <2>3 DEF storeVars
    <2> QED BY <1>7, <2>2, <2>3 DEF HandleClear, t
  <1>8. CASE HandleAction(c)
    <2> DEFINE event == active[Received(c).nid].event
               r == [t EXCEPT !.pc = "emit", !.acting = event]
    <2>1. session[c].inq # <<>> /\ nextId' = nextId
      BY <1>8 DEF HandleAction, Handling, storeVars
    <2>2. CASE ~Invocable(Received(c).nid, Received(c).key)
      <3>1. session' = [session EXCEPT ![c] = t]
        BY <1>8, <2>2 DEF HandleAction, t
      <3> QED BY <1>3, <2>1, <3>1
    <2>3. CASE Invocable(Received(c).nid, Received(c).key)
      <3>1. session' = [session EXCEPT ![c] = r]
        BY <1>8, <2>3 DEF HandleAction, t
      <3>2. event \in EventId
        BY <2>3 DEF Invocable, NotificationIInv, NotificationTypeOK, Entry
      <3> HIDE DEF event
      <3>3. /\ r \in Session /\ r.pc = "emit" /\ r.queue = t.queue
            /\ r.lagged = t.lagged /\ r.live = t.live
        BY <1>1, <2>1, <3>2 DEF Session
      <3> HIDE DEF r
      <3> QED BY <1>0, <1>1, <2>1, <3>1, <3>3, AnswerOK
    <2> QED BY <2>2, <2>3
  <1>9. CASE HandleBad(c) \/ HandleEof(c)
    <2>1. EndSession(c) /\ nextId' = nextId /\ Connected(c)
      BY <1>0, <1>9 DEF HandleBad, HandleEof, storeVars, Connected
    <2> QED BY <1>0, <2>1, EndOK
  <1> QED BY <1>4, <1>5, <1>6, <1>7, <1>8, <1>9 DEF Handle

(* ActionInvoked is asked for: the session waits for this one signal.      *)
LEMMA EmitActionOK ==
    ASSUME DaemonTypeOK, BusInv, NEW c \in Clients, EmitAction(c)
    PROVE  StepOK
  <1> DEFINE signal == Signal("ActionInvoked", session[c].acting, c)
             n == Len(bus)
  <1>1. signal \in SignalType /\ signal.owner = c
    <2>1. session[c].acting \in Nat
      BY DEF DaemonTypeOK, Session, EventId
    <2> QED BY <2>1 DEF Signal, SignalType
  <1>2. /\ session[c].pc = "emit" /\ session[c] \in Session
        /\ busUp /\ busUp' = busUp /\ announced' = announced /\ nextId' = nextId
        /\ bus' = Append(bus, signal)
        /\ session' = [session EXCEPT ![c].pc = "sent", ![c].acting = 0]
    BY DEF EmitAction, Emit, DaemonTypeOK, storeVars
  <1> HIDE DEF signal
  <1>3. /\ bus' \in Seq(SignalType) /\ Len(bus') = n + 1 /\ n \in Nat
        /\ \A p \in 1..n : bus'[p] = bus[p]
        /\ bus'[n + 1] = signal
    BY <1>1, <1>2, AppendProperties, LenProperties DEF DaemonTypeOK
  <1> HIDE DEF n
  <1>4. /\ session' \in [Clients -> Session]
        /\ \A d \in Clients \ {c} : session'[d] = session[d]
        /\ session'[c] = [session[c] EXCEPT !.pc = "sent", !.acting = 0]
    BY <1>2 DEF DaemonTypeOK, Session
  <1>5. \A d \in Clients : Same(session[d], session'[d])
    BY <1>2, <1>4 DEF Same, Session
  <1>6. session'[c].pc = "sent"
    BY <1>2, <1>4 DEF Session
  <1>7. \A p \in 1..n : bus[p].owner # c
    BY <1>2 DEF BusInv, n
  <1>8. BusInv'
    <2>1. ASSUME NEW p \in 1..(n + 1), bus'[p].owner \in Clients
          PROVE  /\ session'[bus'[p].owner].pc = "sent"
                 /\ \A r \in 1..(n + 1) : bus'[r].owner = bus'[p].owner => r = p
      <3>1. CASE p = n + 1
        BY <1>1, <1>3, <1>6, <1>7, <3>1
      <3>2. CASE p \in 1..n
        <4>1. bus'[p] = bus[p] /\ bus[p].owner # c /\ bus[p].owner \in Clients
          BY <1>3, <1>7, <2>1, <3>2
        <4>2. /\ session[bus[p].owner].pc = "sent"
              /\ \A r \in 1..n : bus[r].owner = bus[p].owner => r = p
          BY <3>2, <4>1 DEF BusInv, n
        <4> QED BY <1>1, <1>3, <1>4, <4>1, <4>2
      <3> QED BY <1>3, <2>1, <3>1, <3>2
    <2> QED BY <1>2, <1>3, <2>1 DEF BusInv
  <1> QED BY <1>2, <1>3, <1>4, <1>5, <1>8
          DEF StepOK, Effect, Quiet, DaemonTypeOK, LastIssued

(* A live update is turned into a frame.                                   *)
LEMMA RecvOK ==
    ASSUME DaemonTypeOK, BusInv, NEW c \in Clients, Recv(c)
    PROVE  StepOK
  <1> DEFINE s == Dequeued(session[c])
             u == Head(session[c].queue)
             t == Delivered(s, u)
  <1>1. /\ session[c] \in Session /\ session[c].pc = "run"
        /\ ~session[c].lagged /\ session[c].queue # <<>>
        /\ nextId' = nextId /\ UNCHANGED busVars
    BY DEF Recv, DaemonTypeOK, storeVars
  <1>a. session' = [session EXCEPT ![c] = t]
    BY DEF Recv
  <1>2. session[c].queue \in Seq(Update(EventId))
    BY <1>1 DEF Session
  <1>3. u \in Update(EventId) /\ Tail(session[c].queue) \in Seq(Update(EventId))
    BY <1>1, <1>2, HeadTailProperties
  <1>4. /\ s \in Session /\ s.pc = "write" /\ s.queue = Tail(session[c].queue)
        /\ s.lagged = session[c].lagged /\ s.live = session[c].live
    BY <1>1, <1>3 DEF Session, Dequeued
  <1> HIDE DEF s, u
  <1>5. /\ t \in Session /\ t.pc = "write" /\ t.queue = Tail(session[c].queue)
        /\ t.lagged = session[c].lagged
        /\ t.live = IF u.kind = "added" THEN u.id ELSE session[c].live
    BY <1>3, <1>4, DeliveredType
  <1> HIDE DEF t
  <1>6. DaemonTypeOK' /\ BusInv' /\ session'[c] = t /\ Others(c)
    BY <1>1, <1>a, <1>5, OneSession
  <1>7. Receives(c)
    BY <1>1, <1>5, <1>6 DEF Receives, Connected, LastIssued, u
  <1> QED BY <1>6, <1>7 DEF StepOK, Effect

(* The steps of a session task.                                            *)
LEMMA ServeOK ==
    ASSUME NotificationIInv, DaemonTypeOK, BusInv, NEW c \in Clients, Serve(c)
    PROVE  StepOK
  <1>1. CASE EmitFails(c) \/ RecvLagged(c) \/ WriteFails(c)
    <2>1. /\ EndSession(c) /\ nextId' = nextId /\ UNCHANGED busVars
          /\ Connected(c) /\ (session[c].pc = "sent" => ~busUp)
      BY <1>1 DEF EmitFails, RecvLagged, WriteFails, storeVars, Connected
    <2> QED BY <2>1, EndOK
  <1>2. CASE WriteFrame(c)
    <2> DEFINE t == [session[c] EXCEPT !.pc = "run", !.unread = @ + 1]
    <2>1. session[c] \in Session /\ session[c].pc = "write"
      BY <1>2 DEF WriteFrame, DaemonTypeOK
    <2>a. session[c].unread + 1 \in Nat
      BY <2>1 DEF Session
    <2>2. t \in Session /\ Same(session[c], t)
      BY <2>1, <2>a DEF Session, Same
    <2>3. session' = [session EXCEPT ![c] = t] /\ UNCHANGED busVars /\ nextId' = nextId
      BY <1>2 DEF WriteFrame, storeVars
    <2> HIDE DEF t
    <2> QED BY <2>1, <2>2, <2>3, QuietOK
  <1> QED BY <1>1, <1>2, HandleOK, EmitActionOK, RecvOK DEF Serve

(* Every step of the daemon.                                               *)
LEMMA DaemonStep ==
    ASSUME NotificationIInv, DaemonTypeOK, BusInv, [Next]_vars
    PROVE  StepOK
  <1>1. ASSUME UNCHANGED vars PROVE StepOK
    <2>1. /\ session' = session /\ bus' = bus /\ busUp' = busUp
          /\ announced' = announced /\ nextId' = nextId
      BY <1>1 DEF vars, storeVars, busVars
    <2> QED BY <2>1 DEF StepOK, Effect, Quiet, Same, DaemonTypeOK, BusInv, LastIssued
  <1> QED BY <1>1, CallOK, FlushOK, BusLostOK, ServeOK, ClientOK DEF Next

(* The daemon starts without sessions and without signals.                 *)
LEMMA DaemonInit ==
    ASSUME Init
    PROVE  NotificationIInv /\ DaemonTypeOK /\ BusInv
  <1>1. NotificationIInv
    BY NotificationInitIInv DEF Init
  <1>2. session \in [Clients -> Session] /\ busUp /\ announced = 0
    BY NoSessionType DEF Init
  <1>3. bus \in Seq(SignalType) /\ Len(bus) = 0
    BY EmptySeq DEF Init
  <1>4. DaemonTypeOK
    BY <1>2, <1>3 DEF DaemonTypeOK
  <1>5. BusInv
    BY <1>2, <1>3 DEF BusInv
  <1> QED BY <1>1, <1>4, <1>5

(* The types, the stores' invariants and the signals' owners together are  *)
(* inductive.                                                              *)
LEMMA DaemonInvariant == Spec => [](NotificationIInv /\ DaemonTypeOK /\ BusInv)
  <1>1. Init => NotificationIInv /\ DaemonTypeOK /\ BusInv
    BY DaemonInit
  <1>2. NotificationIInv /\ DaemonTypeOK /\ BusInv /\ [Next]_vars
          => (NotificationIInv /\ DaemonTypeOK /\ BusInv)'
    <2>1. NotificationIInv /\ [Next]_vars => NotificationIInv'
      BY NotificationStep, DaemonStepsStores DEF NotificationIInv, StoreIInv
    <2> QED BY <2>1, DaemonStep DEF StepOK
  <1> QED BY <1>1, <1>2, PTL DEF Spec

(* Type correctness of the daemon.                                         *)
THEOREM TypeCorrect == Spec => []TypeOK
  <1>1. NotificationIInv /\ DaemonTypeOK => TypeOK
    BY DEF NotificationIInv, StoreIInv, DaemonTypeOK, TypeOK
  <1> QED BY <1>1, DaemonInvariant, PTL

-----------------------------------------------------------------------------
(* The feed of live events.  FeedIntact for one receiver, said of the      *)
(* positions of the queue; that nothing was delivered which was not        *)
(* published (live <= last) is what it lacks to be inductive.              *)
IsAdded(u) == u.kind = "added"

Unbroken(q, live, last) ==
    /\ live <= last
    /\ \A e \in (live + 1)..last : \E p \in 1..Len(q) : IsAdded(q[p]) /\ q[p].id = e
    /\ \A p \in 1..Len(q) : IsAdded(q[p]) => q[p].id \in (live + 1)..last
    /\ \A p, r \in 1..Len(q) : IsAdded(q[p]) /\ IsAdded(q[r]) /\ p < r => q[p].id < q[r].id

FeedInv ==
    \A c \in Clients : Connected(c) /\ ~session[c].lagged =>
        Unbroken(session[c].queue, session[c].live, LastIssued)

(* A receiver that has just subscribed is owed nothing.                    *)
LEMMA EmptyUnbroken ==
    ASSUME NEW last \in Nat
    PROVE  Unbroken(<<>>, last, last)
  <1>1. Len(<<>>) = 0 /\ 1..0 = {} /\ (last + 1)..last = {}
    BY EmptySeq
  <1> QED BY <1>1 DEF Unbroken

(* Publishing puts the next event at the end of what a receiver is owed.   *)
LEMMA PublishedUnbroken ==
    ASSUME NEW q \in Seq(Update(EventId)), NEW live \in Nat, NEW last \in Nat,
           Unbroken(q, live, last)
    PROVE  Unbroken(Append(q, Added(last + 1)), live, last + 1)
  <1> DEFINE r == Append(q, Added(last + 1))
             n == Len(q)
  <1>1. /\ n \in Nat /\ Len(r) = n + 1
        /\ \A p \in 1..n : r[p] = q[p]
        /\ r[n + 1] = Added(last + 1)
    BY AppendProperties, LenProperties
  <1>2. IsAdded(r[n + 1]) /\ r[n + 1].id = last + 1
    BY <1>1 DEF IsAdded, Added
  <1> HIDE DEF r, n
  <1>3. \A e \in (live + 1)..(last + 1) :
          \E p \in 1..(n + 1) : IsAdded(r[p]) /\ r[p].id = e
    BY <1>1, <1>2 DEF Unbroken, n
  <1>4. \A p \in 1..(n + 1) : IsAdded(r[p]) => r[p].id \in (live + 1)..(last + 1)
    BY <1>1, <1>2 DEF Unbroken, n
  <1>5. ASSUME NEW p \in 1..(n + 1), NEW s \in 1..(n + 1), IsAdded(r[p]), IsAdded(r[s]), p < s
        PROVE  r[p].id < r[s].id
    <2>1. p \in 1..n /\ r[p] = q[p] /\ q[p].id \in (live + 1)..last
      BY <1>1, <1>5 DEF Unbroken, n
    <2>2. CASE s = n + 1
      BY <1>2, <2>1, <2>2
    <2>3. CASE s \in 1..n
      <3>1. r[s] = q[s]
        BY <1>1, <2>3
      <3> QED BY <1>5, <2>1, <2>3, <3>1 DEF Unbroken, n
    <2> QED BY <1>1, <2>2, <2>3
  <1>6. live <= last + 1
    BY DEF Unbroken
  <1>7. Unbroken(r, live, last + 1)
    BY <1>1, <1>3, <1>4, <1>5, <1>6 DEF Unbroken
  <1> QED BY <1>7 DEF r

(* A removal in the queue owes the receiver no event.                      *)
LEMMA RemovedUnbroken ==
    ASSUME NEW q \in Seq(Update(EventId)), NEW live \in Nat, NEW last \in Nat,
           NEW u \in Update(EventId), ~IsAdded(u), Unbroken(q, live, last)
    PROVE  Unbroken(Append(q, u), live, last)
  <1> DEFINE r == Append(q, u)
             n == Len(q)
  <1>1. /\ n \in Nat /\ Len(r) = n + 1
        /\ \A p \in 1..n : r[p] = q[p]
        /\ r[n + 1] = u
    BY AppendProperties, LenProperties
  <1> HIDE DEF r, n
  <1>2. \A p \in 1..(n + 1) : IsAdded(r[p]) => p \in 1..n
    BY <1>1
  <1>3. ASSUME NEW e \in (live + 1)..last
        PROVE  \E p \in 1..(n + 1) : IsAdded(r[p]) /\ r[p].id = e
    <2>1. PICK p \in 1..n : IsAdded(q[p]) /\ q[p].id = e
      BY DEF Unbroken, n
    <2>2. p \in 1..(n + 1) /\ r[p] = q[p]
      BY <1>1
    <2> QED BY <2>1, <2>2
  <1>4. \A p \in 1..(n + 1) : IsAdded(r[p]) => r[p].id \in (live + 1)..last
    BY <1>1, <1>2 DEF Unbroken, n
  <1>5. ASSUME NEW p \in 1..(n + 1), NEW s \in 1..(n + 1), IsAdded(r[p]), IsAdded(r[s]), p < s
        PROVE  r[p].id < r[s].id
    <2>1. p \in 1..n /\ s \in 1..n /\ r[p] = q[p] /\ r[s] = q[s]
      BY <1>1, <1>2, <1>5
    <2> QED BY <1>5, <2>1 DEF Unbroken, n
  <1>6. live <= last
    BY DEF Unbroken
  <1>7. Unbroken(r, live, last)
    BY <1>1, <1>3, <1>4, <1>5, <1>6 DEF Unbroken
  <1> QED BY <1>7 DEF r

(* The first event that waits is the one after the last delivered, and     *)
(* what waits behind it is what is owed then.                              *)
LEMMA ReceivedUnbroken ==
    ASSUME NEW q \in Seq(Update(EventId)), NEW live \in Nat, NEW last \in Nat,
           q # <<>>, Unbroken(q, live, last)
    PROVE  IF IsAdded(Head(q))
           THEN /\ Head(q).id = live + 1 /\ live < last
                /\ Unbroken(Tail(q), live + 1, last)
           ELSE Unbroken(Tail(q), live, last)
  <1> DEFINE t == Tail(q)
             n == Len(q)
  <1>1. /\ n \in Nat \ {0} /\ Head(q) = q[1] /\ Len(t) = n - 1
        /\ \A p \in 1..(n - 1) : t[p] = q[p + 1]
    BY EmptySeq, HeadTailProperties, LenProperties
  <1>2. \A p \in 1..n : IsAdded(q[p]) => q[p].id \in Nat
    BY DEF Unbroken, n
  <1> HIDE DEF t, n
  <1>a. \A p \in 1..n : p # 1 => p - 1 \in 1..(n - 1) /\ t[p - 1] = q[p]
    BY <1>1
  <1>b. ASSUME NEW p \in 1..(n - 1), NEW r \in 1..(n - 1), IsAdded(t[p]), IsAdded(t[r]), p < r
        PROVE  t[p].id < t[r].id
    <2>1. /\ t[p] = q[p + 1] /\ t[r] = q[r + 1]
          /\ p + 1 \in 1..n /\ r + 1 \in 1..n /\ p + 1 < r + 1
      BY <1>1, <1>b
    <2> QED BY <1>b, <2>1 DEF Unbroken, n
  <1>3. CASE IsAdded(q[1])
    <2>1. q[1].id \in (live + 1)..last
      BY <1>1, <1>3 DEF Unbroken, n
    <2>2. q[1].id = live + 1 /\ live < last
      <3>1. PICK p \in 1..n : IsAdded(q[p]) /\ q[p].id = live + 1
        BY <2>1 DEF Unbroken, n
      <3>2. p # 1 => q[1].id < q[p].id
        BY <1>1, <1>3, <3>1 DEF Unbroken, n
      <3> QED BY <2>1, <3>1, <3>2
    <2>3. \A e \in (live + 2)..last :
            \E p \in 1..(n - 1) : IsAdded(t[p]) /\ t[p].id = e
      <3>1. ASSUME NEW e \in (live + 2)..last
            PROVE  \E p \in 1..(n - 1) : IsAdded(t[p]) /\ t[p].id = e
        <4>1. PICK p \in 1..n : IsAdded(q[p]) /\ q[p].id = e
          BY DEF Unbroken, n
        <4> QED BY <1>a, <2>2, <4>1
      <3> QED BY <3>1
    <2>4. \A p \in 1..(n - 1) : IsAdded(t[p]) => t[p].id \in (live + 2)..last
      <3>1. ASSUME NEW p \in 1..(n - 1), IsAdded(t[p])
            PROVE  t[p].id \in (live + 2)..last
        <4>1. p + 1 \in 1..n /\ 1 \in 1..n /\ 1 < p + 1 /\ t[p] = q[p + 1]
          BY <1>1
        <4>2. q[p + 1].id \in (live + 1)..last /\ q[1].id < q[p + 1].id
          BY <1>3, <3>1, <4>1 DEF Unbroken, n
        <4> QED BY <2>2, <4>1, <4>2
      <3> QED BY <3>1
    <2>5. \A p, r \in 1..(n - 1) :
            IsAdded(t[p]) /\ IsAdded(t[r]) /\ p < r => t[p].id < t[r].id
      BY <1>b
    <2>6. Unbroken(t, live + 1, last)
      BY <1>1, <2>2, <2>3, <2>4, <2>5 DEF Unbroken
    <2> QED BY <1>1, <1>3, <2>2, <2>6 DEF t
  <1>4. CASE ~IsAdded(q[1])
    <2>1. \A e \in (live + 1)..last :
            \E p \in 1..(n - 1) : IsAdded(t[p]) /\ t[p].id = e
      <3>1. ASSUME NEW e \in (live + 1)..last
            PROVE  \E p \in 1..(n - 1) : IsAdded(t[p]) /\ t[p].id = e
        <4>1. PICK p \in 1..n : IsAdded(q[p]) /\ q[p].id = e
          BY DEF Unbroken, n
        <4> QED BY <1>a, <1>4, <4>1
      <3> QED BY <3>1
    <2>2. \A p \in 1..(n - 1) : IsAdded(t[p]) => t[p].id \in (live + 1)..last
      BY <1>1 DEF Unbroken, n
    <2>3. \A p, r \in 1..(n - 1) :
            IsAdded(t[p]) /\ IsAdded(t[r]) /\ p < r => t[p].id < t[r].id
      BY <1>b
    <2>4. live <= last
      BY DEF Unbroken
    <2>5. Unbroken(t, live, last)
      BY <1>1, <2>1, <2>2, <2>3, <2>4 DEF Unbroken
    <2> QED BY <1>1, <1>4, <2>5 DEF t
  <1> QED BY <1>3, <1>4

(* One step of one session, as the feed sees it.                           *)
LEMMA FeedStep ==
    ASSUME NotificationIInv, DaemonTypeOK, DaemonTypeOK', FeedInv, Effect
    PROVE  FeedInv'
  <1>0. /\ LastIssued \in Nat
        /\ \A c \in Clients : /\ session[c].queue \in Seq(Update(EventId))
                              /\ session[c].live \in Nat
    BY StoredIsRange DEF NotificationIInv, StoreIInv, DaemonTypeOK, Session, EventId
  <1> DEFINE Holds(c) == Connected(c)' /\ ~session'[c].lagged =>
                           Unbroken(session'[c].queue, session'[c].live, LastIssued')
  <1> SUFFICES ASSUME NEW c \in Clients PROVE Holds(c)
    BY DEF FeedInv
  <1>1. ASSUME Same(session[c], session'[c]), LastIssued' = LastIssued PROVE Holds(c)
    BY <1>1 DEF Same, FeedInv, Connected
  <1>2. CASE Quiet
    BY <1>1, <1>2 DEF Quiet
  <1>3. CASE Publishes
    <2>1. LastIssued' = LastIssued + 1 /\ Fed(session[c], session'[c], Added(LastIssued + 1))
      BY <1>3 DEF Publishes, AllFed
    <2>2. SUFFICES ASSUME Connected(c)', ~session'[c].lagged
                   PROVE  Unbroken(session'[c].queue, session'[c].live, LastIssued')
      OBVIOUS
    <2>3. /\ Connected(c) /\ ~session[c].lagged
          /\ session'[c].queue = Append(session[c].queue, Added(LastIssued + 1))
          /\ session'[c].live = session[c].live
      BY <2>1, <2>2 DEF Fed, Connected
    <2> QED BY <1>0, <2>1, <2>3, PublishedUnbroken DEF FeedInv
  <1>4. CASE Removes
    <2>1. PICK u \in Update(EventId) : u.kind # "added" /\ AllFed(u)
      BY <1>4 DEF Removes
    <2>2. LastIssued' = LastIssued /\ Fed(session[c], session'[c], u) /\ ~IsAdded(u)
      BY <1>4, <2>1 DEF Removes, AllFed, IsAdded
    <2>3. SUFFICES ASSUME Connected(c)', ~session'[c].lagged
                   PROVE  Unbroken(session'[c].queue, session'[c].live, LastIssued')
      OBVIOUS
    <2>4. /\ Connected(c) /\ ~session[c].lagged
          /\ session'[c].queue = Append(session[c].queue, u)
          /\ session'[c].live = session[c].live
      BY <2>2, <2>3 DEF Fed, Connected
    <2> QED BY <1>0, <2>2, <2>4, RemovedUnbroken DEF FeedInv
  <1>5. ASSUME NEW d \in Clients, Ends(d) PROVE Holds(c)
    <2>1. CASE c = d
      BY <1>5, <2>1 DEF Ends, Connected, NoSession
    <2>2. CASE c # d
      BY <1>1, <1>5, <2>2 DEF Ends, Others
    <2> QED BY <2>1, <2>2
  <1>6. ASSUME NEW d \in Clients, Joins(d) PROVE Holds(c)
    <2>1. CASE c = d
      BY <1>0, <1>6, <2>1, EmptyUnbroken DEF Joins
    <2>2. CASE c # d
      BY <1>1, <1>6, <2>2 DEF Joins, Others
    <2> QED BY <2>1, <2>2
  <1>7. ASSUME NEW d \in Clients, Receives(d) PROVE Holds(c)
    <2>1. CASE c = d
      <3>1. /\ LastIssued' = LastIssued /\ session[c].queue # <<>>
            /\ Unbroken(session[c].queue, session[c].live, LastIssued)
            /\ session'[c].queue = Tail(session[c].queue)
            /\ session'[c].live = IF IsAdded(Head(session[c].queue))
                                  THEN Head(session[c].queue).id ELSE session[c].live
        BY <1>7, <2>1 DEF Receives, FeedInv, IsAdded
      <3> QED BY <1>0, <3>1, ReceivedUnbroken
    <2>2. CASE c # d
      BY <1>1, <1>7, <2>2 DEF Receives, Others
    <2> QED BY <2>1, <2>2
  <1> QED BY <1>2, <1>3, <1>4, <1>5, <1>6, <1>7 DEF Effect

(* Without sessions no receiver is owed anything.                          *)
LEMMA FeedInit == ASSUME Init PROVE FeedInv
  BY DEF Init, FeedInv, Connected, NoSession

(* All that is needed of the daemon's state, together.                     *)
IInv == NotificationIInv /\ DaemonTypeOK /\ BusInv /\ FeedInv

(* IInv is inductive.                                                      *)
LEMMA DaemonFeedInvariant == Spec => []IInv
  <1>1. Init => IInv
    BY DaemonInit, FeedInit DEF IInv
  <1>2. IInv /\ [Next]_vars => IInv'
    <2>1. NotificationIInv /\ [Next]_vars => NotificationIInv'
      BY NotificationStep, DaemonStepsStores DEF NotificationIInv, StoreIInv
    <2> QED BY <2>1, DaemonStep, FeedStep DEF StepOK, IInv
  <1> QED BY <1>1, <1>2, PTL DEF Spec

(* What waits for a receiver that lost nothing is exactly what it is owed. *)
THEOREM FeedNeverBroken == Spec => []FeedIntact
  <1>1. ASSUME IInv PROVE FeedIntact
    <2> SUFFICES ASSUME NEW c \in Clients, Connected(c), ~session[c].lagged
                 PROVE  LET q == session[c].queue
                            added == {p \in DOMAIN q : q[p].kind = "added"}
                        IN  /\ {q[p].id : p \in added} = (session[c].live + 1)..LastIssued
                            /\ \A p, r \in added : p < r => q[p].id < q[r].id
      BY DEF FeedIntact
    <2>1. Unbroken(session[c].queue, session[c].live, LastIssued)
      BY <1>1 DEF IInv, FeedInv
    <2>2. DOMAIN session[c].queue = 1..Len(session[c].queue)
      <3>1. session[c].queue \in Seq(Update(EventId))
        BY <1>1 DEF IInv, DaemonTypeOK, Session
      <3> QED BY <3>1, LenProperties
    <2> QED BY <2>1, <2>2 DEF Unbroken, IsAdded
  <1> QED BY <1>1, DaemonFeedInvariant, PTL

-----------------------------------------------------------------------------
(* The daemon implements the abstract feed: LastIssued counts the events,  *)
(* the connected sessions are the subscribers, and live is what each has   *)
(* been sent.                                                              *)
LEMMA FeedInitial ==
    ASSUME Init
    PROVE  Feed!Init
  <1>1. LastIssued = 0
    BY DEF Init, StoreInit, LastIssued, None
  <1>2. \A c \in Clients : ~Connected(c) /\ session[c].live = 0
    BY DEF Init, Connected, NoSession
  <1> QED BY <1>1, <1>2 DEF Feed!Init

(* The last identifier issued, whether one is left or not.                 *)
LEMMA LastOf ==
    ASSUME NEW next \in EventId \cup {None}
    PROVE  (IF next = None THEN MaxEventId ELSE next - 1) \in 0..MaxEventId
  <1>1. MaxEventId \in Nat
    BY MaxEventIdAssumption
  <1>2. next # None => next \in 1..MaxEventId
    BY DEF EventId, None
  <1>3. \A n \in Nat : \A i \in 1..n : i - 1 \in 0..n
    OBVIOUS
  <1>4. next # None => next - 1 \in 0..MaxEventId
    BY <1>1, <1>2, <1>3
  <1> QED BY <1>1, <1>4

(* Every step publishes the next event, delivers the next event to one     *)
(* client, lets one come or go, or is not seen by the feed.                *)
LEMMA FeedSteps ==
    ASSUME IInv, IInv', Effect
    PROVE  [Feed!Next]_(Feed!feedVars)
  <1>0. /\ LastIssued \in Nat /\ LastIssued' \in 0..MaxEventId
        /\ \A c \in Clients : /\ session[c] \in Session /\ session[c].live \in Nat
                              /\ session[c].queue \in Seq(Update(EventId))
    <2>1. LastIssued \in Nat /\ \A c \in Clients :
            /\ session[c] \in Session /\ session[c].live \in Nat
            /\ session[c].queue \in Seq(Update(EventId))
      BY StoredIsRange DEF IInv, NotificationIInv, StoreIInv, DaemonTypeOK, Session, EventId
    <2>2. nextId' \in EventId \cup {None}
      BY DEF IInv, NotificationIInv, StoreIInv, StoreTypeOK
    <2>3. LastIssued' \in 0..MaxEventId
      BY <2>2, LastOf DEF LastIssued
    <2> QED BY <2>1, <2>3
  <1> DEFINE Unseen(c) == /\ Connected(c)' <=> Connected(c)
                          /\ session'[c].live = session[c].live
  <1>1. ASSUME LastIssued' = LastIssued, \A c \in Clients : Unseen(c)
        PROVE  UNCHANGED Feed!feedVars
    BY <1>1 DEF Feed!feedVars
  <1>2. CASE Quiet
    BY <1>1, <1>2 DEF Quiet, Same, Connected
  <1>3. CASE Removes
    BY <1>1, <1>3 DEF Removes, AllFed, Fed, Connected
  <1>4. CASE Publishes
    <2>1. LastIssued' = LastIssued + 1 /\ LastIssued < MaxEventId
      BY <1>0, <1>4, MaxEventIdAssumption DEF Publishes
    <2>2. \A c \in Clients : Unseen(c)
      BY <1>4 DEF Publishes, AllFed, Fed, Connected
    <2>3. Feed!Issue
      BY <2>1, <2>2 DEF Feed!Issue
    <2> QED BY <2>3 DEF Feed!Next
  <1>5. ASSUME NEW c \in Clients, Others(c) PROVE \A d \in Clients \ {c} : Unseen(d)
    BY <1>5 DEF Others, Same, Connected
  <1>6. ASSUME NEW c \in Clients, Ends(c) PROVE Feed!Leave(c)
    <2>1. /\ Connected(c) /\ ~Connected(c)' /\ session'[c].live = 0
          /\ LastIssued' = LastIssued /\ \A d \in Clients \ {c} : Unseen(d)
      BY <1>5, <1>6 DEF Ends, NoSession, Connected
    <2>2. {d \in Clients : Connected(d)}' = {d \in Clients : Connected(d)} \ {c}
      BY <2>1
    <2>3. [d \in Clients |-> session[d].live]' =
            [[d \in Clients |-> session[d].live] EXCEPT ![c] = 0]
      BY <2>1
    <2> QED BY <2>1, <2>2, <2>3 DEF Feed!Leave
  <1>7. ASSUME NEW c \in Clients, Joins(c) PROVE Feed!Join(c)
    <2>1. /\ ~Connected(c) /\ Connected(c)' /\ session'[c].live = LastIssued
          /\ LastIssued' = LastIssued /\ \A d \in Clients \ {c} : Unseen(d)
      BY <1>5, <1>7 DEF Joins
    <2>2. {d \in Clients : Connected(d)}' = {d \in Clients : Connected(d)} \cup {c}
      BY <2>1
    <2>3. [d \in Clients |-> session[d].live]' =
            [[d \in Clients |-> session[d].live] EXCEPT ![c] = LastIssued]
      BY <2>1
    <2> QED BY <2>1, <2>2, <2>3 DEF Feed!Join
  <1>8. ASSUME NEW c \in Clients, Receives(c)
        PROVE  Feed!Deliver(c) \/ UNCHANGED Feed!feedVars
    <2>1. /\ Connected(c) /\ Connected(c)' /\ ~session[c].lagged
          /\ LastIssued' = LastIssued /\ \A d \in Clients \ {c} : Unseen(d)
          /\ session[c].queue # <<>>
          /\ session'[c].live = IF IsAdded(Head(session[c].queue))
                                THEN Head(session[c].queue).id ELSE session[c].live
      BY <1>5, <1>8 DEF Receives, IsAdded
    <2>2. Unbroken(session[c].queue, session[c].live, LastIssued)
      BY <2>1 DEF IInv, FeedInv
    <2>3. CASE IsAdded(Head(session[c].queue))
      <3>1. session'[c].live = session[c].live + 1 /\ session[c].live < LastIssued
        BY <1>0, <2>1, <2>2, <2>3, ReceivedUnbroken
      <3>2. {d \in Clients : Connected(d)}' = {d \in Clients : Connected(d)}
        BY <2>1
      <3>3. [d \in Clients |-> session[d].live]' =
              [[d \in Clients |-> session[d].live] EXCEPT ![c] = @ + 1]
        BY <2>1, <3>1
      <3> QED BY <2>1, <3>1, <3>2, <3>3 DEF Feed!Deliver
    <2>4. CASE ~IsAdded(Head(session[c].queue))
      BY <1>1, <2>1, <2>4
    <2> QED BY <2>3, <2>4
  <1> QED BY <1>2, <1>3, <1>4, <1>6, <1>7, <1>8 DEF Effect, Feed!Next

(* Refinement: every behaviour of the daemon is a behaviour of the feed.   *)
THEOREM DaemonImplementsFeed == Spec => ImplementsFeed
  <1>1. Init => Feed!Init
    BY FeedInitial
  <1>2. IInv /\ IInv' /\ [Next]_vars => [Feed!Next]_(Feed!feedVars)
    BY DaemonStep, FeedSteps DEF IInv, StepOK
  <1> QED BY <1>1, <1>2, DaemonFeedInvariant, PTL DEF Spec, ImplementsFeed, Feed!Spec

=============================================================================

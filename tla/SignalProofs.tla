---------------------------- MODULE SignalProofs ----------------------------
(***************************************************************************)
(* Proof that the signals on D-Bus come in order (SignalsInOrder), for     *)
(* every number of clients and every length of the queue of signals.       *)
(*                                                                         *)
(* SignalsInOrder is not inductive: that the queue holds no announcement   *)
(* ahead of its turn says nothing of the announcements that are missing.   *)
(* What is added: as long as the connection works, every published event   *)
(* that was not announced yet is in the queue, and the event whose action  *)
(* a session is about to signal was published.                             *)
(***************************************************************************)
EXTENDS DaemonProofs

Announces(s) == s.sig = "EventAdded"
Concerns(s) == s.sig \in {"EventRemoved", "NotificationClosed", "ActionInvoked"}

(* The queue q of signals, when ann was the last event announced and last  *)
(* the last published.                                                     *)
Orderly(q, ann, last) ==
    /\ ann <= last
    /\ \A e \in (ann + 1)..last : \E p \in 1..Len(q) : Announces(q[p]) /\ q[p].id = e
    /\ \A p \in 1..Len(q) : Announces(q[p]) => q[p].id \in (ann + 1)..last
    /\ \A p, r \in 1..Len(q) : Announces(q[p]) /\ Announces(q[r]) /\ p < r => q[p].id < q[r].id
    /\ \A p \in 1..Len(q) : Concerns(q[p]) =>
          q[p].id <= ann \/ \E r \in 1..Len(q) : r < p /\ Announces(q[r]) /\ q[r].id = q[p].id

ActingInv == \A c \in Clients : session[c].acting <= LastIssued

SignalInv ==
    /\ busUp => Orderly(bus, announced, LastIssued)
    /\ ActingInv

-----------------------------------------------------------------------------
(* The queue of signals.                                                   *)

(* A published event is announced behind everything that waits.            *)
LEMMA AnnouncedOrderly ==
    ASSUME NEW q \in Seq(SignalType), NEW ann \in Nat, NEW last \in Nat,
           Orderly(q, ann, last)
    PROVE  Orderly(Append(q, Signal("EventAdded", last + 1, 0)), ann, last + 1)
  <1> DEFINE s == Signal("EventAdded", last + 1, 0)
             t == Append(q, s)
             n == Len(q)
  <1>1. Announces(s) /\ ~Concerns(s) /\ s.id = last + 1
    BY DEF Signal, Announces, Concerns
  <1>2. s \in SignalType
    BY DEF Signal, SignalType
  <1> HIDE DEF s
  <1>3. /\ n \in Nat /\ Len(t) = n + 1
        /\ \A p \in 1..n : t[p] = q[p]
        /\ t[n + 1] = s
    BY <1>2, AppendProperties, LenProperties
  <1> HIDE DEF t, n
  <1>4. \A p \in 1..(n + 1) : p \in 1..n \/ p = n + 1
    BY <1>3
  <1>5. \A e \in (ann + 1)..(last + 1) : \E p \in 1..(n + 1) : Announces(t[p]) /\ t[p].id = e
    BY <1>1, <1>3 DEF Orderly, n
  <1>6. \A p \in 1..(n + 1) : Announces(t[p]) => t[p].id \in (ann + 1)..(last + 1)
    BY <1>1, <1>3, <1>4 DEF Orderly, n
  <1>7. ASSUME NEW p \in 1..(n + 1), NEW r \in 1..(n + 1), Announces(t[p]), Announces(t[r]), p < r
        PROVE  t[p].id < t[r].id
    <2>1. p \in 1..n /\ t[p] = q[p] /\ q[p].id \in (ann + 1)..last
      BY <1>3, <1>7 DEF Orderly, n
    <2>2. CASE r = n + 1
      BY <1>1, <1>3, <2>1, <2>2
    <2>3. CASE r \in 1..n
      <3>1. t[r] = q[r]
        BY <1>3, <2>3
      <3> QED BY <1>7, <2>1, <2>3, <3>1 DEF Orderly, n
    <2> QED BY <1>4, <2>2, <2>3
  <1>8. ASSUME NEW p \in 1..(n + 1), Concerns(t[p]), ~(t[p].id <= ann)
        PROVE  \E r \in 1..(n + 1) : r < p /\ Announces(t[r]) /\ t[r].id = t[p].id
    <2>1. p \in 1..n /\ t[p] = q[p]
      BY <1>1, <1>3, <1>4, <1>8
    <2>2. PICK r \in 1..n : r < p /\ Announces(q[r]) /\ q[r].id = q[p].id
      BY <1>8, <2>1 DEF Orderly, n
    <2> QED BY <1>3, <2>1, <2>2
  <1>9. Orderly(t, ann, last + 1)
    <2>1. ann <= last + 1
      BY DEF Orderly
    <2> QED BY <1>3, <1>5, <1>6, <1>7, <1>8, <2>1 DEF Orderly
  <1> QED BY <1>9 DEF t, s

(* Any other signal is about an event that was published, if about any:    *)
(* the announcement of that event was made or waits before it.             *)
LEMMA ReportedOrderly ==
    ASSUME NEW q \in Seq(SignalType), NEW ann \in Nat, NEW last \in Nat,
           NEW s \in SignalType, ~Announces(s), Concerns(s) => s.id <= last,
           Orderly(q, ann, last)
    PROVE  Orderly(Append(q, s), ann, last)
  <1> DEFINE t == Append(q, s)
             n == Len(q)
  <1>1. /\ n \in Nat /\ Len(t) = n + 1
        /\ \A p \in 1..n : t[p] = q[p]
        /\ t[n + 1] = s
    BY AppendProperties, LenProperties
  <1>2. s.id \in Nat
    BY DEF SignalType
  <1> HIDE DEF t, n
  <1>3. \A p \in 1..(n + 1) : p \in 1..n \/ p = n + 1
    BY <1>1
  <1>4. ASSUME NEW e \in (ann + 1)..last
        PROVE  \E p \in 1..(n + 1) : Announces(t[p]) /\ t[p].id = e
    <2>1. PICK p \in 1..n : Announces(q[p]) /\ q[p].id = e
      BY DEF Orderly, n
    <2>2. p \in 1..(n + 1) /\ t[p] = q[p]
      BY <1>1
    <2> QED BY <2>1, <2>2
  <1>5. \A p \in 1..(n + 1) : Announces(t[p]) => p \in 1..n /\ t[p] = q[p]
    BY <1>1, <1>3
  <1>6. /\ \A p \in 1..(n + 1) : Announces(t[p]) => t[p].id \in (ann + 1)..last
        /\ \A p, r \in 1..(n + 1) : Announces(t[p]) /\ Announces(t[r]) /\ p < r => t[p].id < t[r].id
    BY <1>5 DEF Orderly, n
  <1>7. ASSUME NEW p \in 1..(n + 1), Concerns(t[p]), ~(t[p].id <= ann)
        PROVE  \E r \in 1..(n + 1) : r < p /\ Announces(t[r]) /\ t[r].id = t[p].id
    <2>1. CASE p \in 1..n
      <3>1. t[p] = q[p]
        BY <1>1, <2>1
      <3>2. PICK r \in 1..n : r < p /\ Announces(q[r]) /\ q[r].id = q[p].id
        BY <1>7, <2>1, <3>1 DEF Orderly, n
      <3> QED BY <1>1, <3>1, <3>2
    <2>2. CASE p = n + 1
      <3>1. t[p] = s /\ s.id \in (ann + 1)..last
        BY <1>1, <1>2, <1>7, <2>2
      <3>2. PICK r \in 1..n : Announces(q[r]) /\ q[r].id = s.id
        BY <3>1 DEF Orderly, n
      <3>3. r \in 1..(n + 1) /\ r < p /\ t[r] = q[r]
        BY <1>1, <2>2
      <3> QED BY <3>1, <3>2, <3>3
    <2> QED BY <1>3, <2>1, <2>2
  <1>8. Orderly(t, ann, last)
    <2>1. ann <= last
      BY DEF Orderly
    <2> QED BY <1>1, <1>4, <1>6, <1>7, <2>1 DEF Orderly
  <1> QED BY <1>8 DEF t

(* The connection writes the first signal.  If it is an announcement it is *)
(* the next one due, and what waits for it was behind it.                  *)
LEMMA FlushedOrderly ==
    ASSUME NEW q \in Seq(SignalType), NEW ann \in Nat, NEW last \in Nat,
           q # <<>>, Orderly(q, ann, last)
    PROVE  /\ Orderly(Tail(q), IF Announces(Head(q)) THEN Head(q).id ELSE ann, last)
           /\ Announces(Head(q)) => Head(q).id = ann + 1 /\ Head(q).id <= last
  <1> DEFINE t == Tail(q)
             n == Len(q)
             now == IF Announces(q[1]) THEN q[1].id ELSE ann
  <1>1. /\ n \in Nat \ {0} /\ Head(q) = q[1] /\ Len(t) = n - 1
        /\ \A p \in 1..(n - 1) : t[p] = q[p + 1]
        /\ \A p \in 1..n : q[p] \in SignalType
    BY EmptySeq, HeadTailProperties, LenProperties, ElementOfSeq
  <1>2. \A p \in 1..n : q[p].id \in Nat
    BY <1>1 DEF SignalType
  <1> HIDE DEF t, n
  <1>3. /\ \A p \in 1..n : p # 1 => p - 1 \in 1..(n - 1) /\ t[p - 1] = q[p]
        /\ \A p \in 1..(n - 1) : p + 1 \in 1..n /\ p + 1 # 1 /\ 1 < p + 1 /\ 1 \in 1..n
    BY <1>1
  <1>4. /\ now \in Nat /\ ann <= now /\ now <= last
        /\ Announces(q[1]) => now = ann + 1
    <2>1. CASE Announces(q[1])
      <3>1. now = q[1].id /\ now \in (ann + 1)..last
        BY <1>1, <2>1 DEF Orderly, n
      <3>2. PICK p \in 1..n : Announces(q[p]) /\ q[p].id = ann + 1
        BY <3>1 DEF Orderly, n
      <3>3. p # 1 => now < ann + 1
        BY <1>1, <2>1, <3>1, <3>2 DEF Orderly, n
      <3> QED BY <3>1, <3>2, <3>3
    <2>2. CASE ~Announces(q[1])
      BY <2>2 DEF Orderly
    <2> QED BY <2>1, <2>2
  <1>a. ~Announces(q[1]) => now = ann
    OBVIOUS
  <1>b. Announces(q[1]) => now = q[1].id
    OBVIOUS
  <1> HIDE DEF now
  <1>5. ASSUME NEW e \in (now + 1)..last
        PROVE  \E p \in 1..(n - 1) : Announces(t[p]) /\ t[p].id = e
    <2>1. e \in (ann + 1)..last /\ e # now
      BY <1>4
    <2>2. PICK p \in 1..n : Announces(q[p]) /\ q[p].id = e
      BY <2>1 DEF Orderly, n
    <2>3. p # 1
      BY <1>b, <2>1, <2>2
    <2> QED BY <1>3, <2>2, <2>3
  <1>6. ASSUME NEW p \in 1..(n - 1), Announces(t[p])
        PROVE  t[p].id \in (now + 1)..last
    <2>1. /\ t[p] = q[p + 1] /\ p + 1 \in 1..n /\ 1 \in 1..n /\ 1 < p + 1
          /\ q[p + 1].id \in (ann + 1)..last
      BY <1>1, <1>3, <1>6 DEF Orderly, n
    <2>2. CASE Announces(q[1])
      <3>1. q[1].id < q[p + 1].id
        BY <1>6, <2>1, <2>2 DEF Orderly, n
      <3> QED BY <1>b, <1>4, <2>1, <2>2, <3>1
    <2>3. CASE ~Announces(q[1])
      BY <1>a, <2>1, <2>3
    <2> QED BY <2>2, <2>3
  <1>7. ASSUME NEW p \in 1..(n - 1), NEW r \in 1..(n - 1), Announces(t[p]), Announces(t[r]), p < r
        PROVE  t[p].id < t[r].id
    <2>1. /\ t[p] = q[p + 1] /\ t[r] = q[r + 1]
          /\ p + 1 \in 1..n /\ r + 1 \in 1..n /\ p + 1 < r + 1
      BY <1>1, <1>7
    <2> QED BY <1>7, <2>1 DEF Orderly, n
  <1>8. ASSUME NEW p \in 1..(n - 1), Concerns(t[p]), ~(t[p].id <= now)
        PROVE  \E r \in 1..(n - 1) : r < p /\ Announces(t[r]) /\ t[r].id = t[p].id
    <2>1. t[p] = q[p + 1] /\ p + 1 \in 1..n /\ q[p + 1].id \in Nat
      BY <1>1, <1>2, <1>3
    <2>2. ~(q[p + 1].id <= ann) /\ q[p + 1].id # now
      BY <1>4, <1>8, <2>1
    <2>3. PICK r \in 1..n : r < p + 1 /\ Announces(q[r]) /\ q[r].id = q[p + 1].id
      BY <1>8, <2>1, <2>2 DEF Orderly, n
    <2>4. r # 1
      BY <1>b, <2>2, <2>3
    <2>5. r - 1 \in 1..(n - 1) /\ r - 1 < p /\ t[r - 1] = q[r]
      BY <1>3, <2>3, <2>4
    <2> QED BY <2>1, <2>3, <2>5
  <1>9. Orderly(t, now, last)
    BY <1>1, <1>4, <1>5, <1>6, <1>7, <1>8 DEF Orderly
  <1>10. Announces(q[1]) => q[1].id = ann + 1 /\ q[1].id <= last
    BY <1>b, <1>4
  <1> QED BY <1>1, <1>9, <1>10 DEF t, now

-----------------------------------------------------------------------------
(* The event that a session is about to signal an action of.               *)

(* Only HandleAction names an event; every other step of a session keeps   *)
(* the one that was named or forgets it.                                   *)
LEMMA ActingKept ==
    ASSUME NEW s \in Session
    PROVE  /\ \A u \in Update(EventId) : Offered(s, u).acting = s.acting
           /\ s.inq # <<>> => Answering(s).acting = s.acting
           /\ s.queue # <<>> => Dequeued(s).acting = s.acting
           /\ \A u \in Update(EventId) : Delivered(s, u).acting = s.acting
           /\ \A recent : Snapshot(s, recent).acting = s.acting
           /\ NoSession.acting = 0
  <1>1. \A u \in Update(EventId) : Offered(s, u).acting = s.acting
    BY DEF Offered, Session
  <1>2. Answering(s).acting = s.acting /\ Dequeued(s).acting = s.acting
    BY DEF Answering, Dequeued, Session
  <1>3. \A u \in Update(EventId) : Delivered(s, u).acting = s.acting
    BY DEF Delivered, Session, Update, Cleared
  <1>4. \A recent : Snapshot(s, recent).acting = s.acting
    BY DEF Snapshot, Session
  <1>5. NoSession.acting = 0
    BY DEF NoSession
  <1> QED BY <1>1, <1>2, <1>3, <1>4, <1>5

(* Sending on the channel names no event.                                  *)
LEMMA BroadcastActing ==
    ASSUME DaemonTypeOK, NEW u \in Update(EventId), NEW c \in Clients
    PROVE  Broadcasted(u)[c].acting = session[c].acting
  BY ActingKept DEF DaemonTypeOK, Broadcasted

(* The requests of a client.                                               *)
LEMMA HandleActing ==
    ASSUME NotificationIInv, DaemonTypeOK, ActingInv, NEW c \in Clients, Handle(c),
           NEW d \in Clients
    PROVE  session'[d].acting <= LastIssued
  <1>1. /\ session \in [Clients -> Session] /\ session[d] \in Session /\ session[c] \in Session
        /\ session[d].acting <= LastIssued /\ session[c].acting <= LastIssued
        /\ LastIssued \in Nat
    BY StoredIsRange DEF DaemonTypeOK, ActingInv, NotificationIInv, StoreIInv
  <1> DEFINE t == Answering(session[c])
  <1>2. session[c].inq # <<>> => t \in Session /\ t.acting <= LastIssued
    BY <1>1, AnsweringType, ActingKept
  <1>3. ASSUME session[c].inq # <<>>, session' = [session EXCEPT ![c] = t]
        PROVE  session'[d].acting <= LastIssued
    BY <1>1, <1>2, <1>3
  <1>4. CASE HandlePing(c)
    BY <1>3, <1>4 DEF HandlePing, Handling
  <1>5. CASE HandleRecent(c)
    <2> DEFINE r == Snapshot(t, Recent(Received(c).limit))
    <2>1. session[c].inq # <<>> /\ session' = [session EXCEPT ![c] = r]
      BY <1>5 DEF HandleRecent, Handling
    <2>2. r.acting <= LastIssued
      BY <1>2, <2>1, ActingKept
    <2> HIDE DEF r
    <2> QED BY <1>1, <2>1, <2>2
  <1>6. ASSUME NEW u \in Update(EventId), session[c].inq # <<>>,
               session' = [Broadcasted(u) EXCEPT ![c] = Answering(@)]
        PROVE  session'[d].acting <= LastIssued
    <2> DEFINE b == Broadcasted(u)
    <2>1. /\ b \in [Clients -> Session] /\ b[c].acting <= LastIssued /\ b[d].acting <= LastIssued
      BY <1>1, BroadcastedType, BroadcastActing
    <2>2. b[c].inq = session[c].inq
      BY <1>1 DEF Broadcasted, Offered, Session
    <2> HIDE DEF b
    <2>3. b[c] \in Session /\ b[c].inq # <<>>
      BY <1>6, <2>1, <2>2
    <2>4. Answering(b[c]).acting <= LastIssued
      BY <2>1, <2>3, ActingKept
    <2>5. session'[d] = IF d = c THEN Answering(b[c]) ELSE b[d]
      BY <1>6, <2>1 DEF b
    <2> QED BY <2>1, <2>4, <2>5
  <1>7. CASE HandleDismiss(c)
    <2>1. session[c].inq # <<>>
      BY <1>7 DEF HandleDismiss, Handling
    <2>2. CASE /\ Dismiss(Received(c).id)
               /\ session' = [Broadcasted(Removed(Received(c).id)) EXCEPT ![c] = Answering(@)]
      <3>1. Received(c).id \in EventId
        BY <2>2, StoredIsRange DEF NotificationIInv, StoreIInv, Dismiss
      <3>2. Removed(Received(c).id) \in Update(EventId)
        BY <3>1, UpdateTypes
      <3> QED BY <1>6, <2>1, <2>2, <3>2
    <2>3. CASE session' = [session EXCEPT ![c] = t]
      BY <1>3, <2>1, <2>3
    <2> QED BY <1>7, <2>2, <2>3 DEF HandleDismiss
  <1>8. CASE HandleClear(c)
    <2>1. session[c].inq # <<>>
      BY <1>8 DEF HandleClear, Handling
    <2>2. CASE session' = [Broadcasted(Cleared) EXCEPT ![c] = Answering(@)]
      BY <1>6, <2>1, <2>2, UpdateTypes
    <2>3. CASE session' = [session EXCEPT ![c] = t]
      BY <1>3, <2>1, <2>3
    <2> QED BY <1>8, <2>2, <2>3 DEF HandleClear
  <1>9. CASE HandleAction(c)
    <2> DEFINE event == active[Received(c).nid].event
    <2>1. session[c].inq # <<>>
      BY <1>9 DEF HandleAction, Handling
    <2>2. CASE ~Invocable(Received(c).nid, Received(c).key)
      BY <1>3, <1>9, <2>1, <2>2 DEF HandleAction
    <2>3. CASE Invocable(Received(c).nid, Received(c).key)
      <3>1. session' = [session EXCEPT ![c] = [t EXCEPT !.pc = "emit", !.acting = event]]
        BY <1>9, <2>3 DEF HandleAction
      <3>2. event <= LastIssued
        BY <2>3 DEF Invocable, NotificationIInv, OneActivePerEvent
      <3> HIDE DEF event
      <3>3. t \in Session
        BY <1>2, <2>1
      <3> HIDE DEF t
      <3>4. [t EXCEPT !.pc = "emit", !.acting = event].acting = event
        BY <3>3 DEF Session
      <3> QED BY <1>1, <3>1, <3>2, <3>4
    <2> QED BY <2>2, <2>3
  <1>10. CASE HandleBad(c) \/ HandleEof(c)
    BY <1>1, <1>10, ActingKept DEF HandleBad, HandleEof, EndSession
  <1> QED BY <1>4, <1>5, <1>7, <1>8, <1>9, <1>10 DEF Handle

(* Every step names an event that was published, if it names one.          *)
LEMMA ActingStep ==
    ASSUME NotificationIInv, DaemonTypeOK, BusInv, ActingInv, [Next]_vars
    PROVE  ActingInv'
  <1>1. /\ session \in [Clients -> Session] /\ LastIssued \in Nat
        /\ \A c \in Clients : /\ session[c] \in Session
                              /\ session[c].acting <= LastIssued /\ session[c].acting \in Nat
    BY StoredIsRange DEF DaemonTypeOK, ActingInv, NotificationIInv, StoreIInv, Session, EventId
  <1>2. LastIssued' \in Nat /\ LastIssued <= LastIssued' /\ DaemonTypeOK'
    BY StoreStep, DaemonStepsStores, NotificationStepsStore, DaemonStep
       DEF NotificationIInv, StoreIInv, StepOK
  <1>3. \A c \in Clients : session'[c].acting \in Nat
    BY <1>2 DEF DaemonTypeOK, Session, EventId
  <1> DEFINE last == LastIssued
  <1>4. SUFFICES ASSUME NEW d \in Clients PROVE session'[d].acting <= LastIssued
    <2>1. last' \in Nat /\ last \in Nat /\ last <= last'
      BY <1>1, <1>2
    <2> HIDE DEF last
    <2>2. \A c \in Clients : session'[c].acting <= last => session'[c].acting <= last'
      BY <1>3, <2>1
    <2> QED BY <2>2 DEF ActingInv, last
  <1>5. ASSUME session' = session PROVE session'[d].acting <= LastIssued
    BY <1>1, <1>5
  <1>6. CASE DBusCall
    <2>1. ASSUME NEW u \in Update(EventId), session' = Broadcasted(u)
          PROVE  session'[d].acting <= LastIssued
      BY <1>1, <2>1, BroadcastActing
    <2>2. \/ \E u \in Update(EventId) : session' = Broadcasted(u)
          \/ session' = session
      BY <1>6, UpdateTypes DEF DBusCall, DBusPublish, DBusDismiss, DBusClear, Notify,
                               NotifyFails, CloseNotification
    <2> QED BY <1>5, <2>1, <2>2
  <1>7. CASE Flush
    <2>1. \/ session' = session
          \/ \E c \in Clients : session' = [session EXCEPT ![c].pc = "write"]
      BY <1>7 DEF Flush
    <2>2. ASSUME NEW c \in Clients, session' = [session EXCEPT ![c].pc = "write"]
          PROVE  session'[d].acting = session[d].acting
      BY <1>1, <2>2 DEF Session
    <2> QED BY <1>1, <1>5, <2>1, <2>2
  <1>8. CASE BusLost \/ UNCHANGED vars
    BY <1>5, <1>8 DEF BusLost, vars
  <1>9. ASSUME NEW c \in Clients, ClientStep(c) PROVE session'[d].acting <= LastIssued
    <2>1. CASE Connect(c)
      <3> DEFINE t == [NoSession EXCEPT !.pc = "write", !.since = LastIssued + 1,
                                        !.live = LastIssued]
      <3>1. t.acting = 0
        BY DEF NoSession
      <3>2. session' = [session EXCEPT ![c] = t]
        BY <2>1 DEF Connect
      <3> HIDE DEF t
      <3> QED BY <1>1, <3>1, <3>2
    <2>2. CASE Disconnect(c) \/ ClientRead(c)
      <3>1. session'[d].acting = session[d].acting
        <4>1. \/ session' = [session EXCEPT ![c].eof = TRUE]
              \/ session' = [session EXCEPT ![c].unread = session[c].unread - 1]
          BY <2>2 DEF Disconnect, ClientRead
        <4>2. session'[d] \in {session[d], [session[d] EXCEPT !.eof = TRUE],
                               [session[d] EXCEPT !.unread = session[c].unread - 1]}
          BY <1>1, <4>1
        <4> QED BY <1>1, <4>2 DEF Session
      <3> QED BY <1>1, <3>1
    <2>3. ASSUME NEW request \in Requests, Send(c, request)
          PROVE  session'[d].acting <= LastIssued
      BY <1>1, <2>3 DEF Send, Session
    <2> QED BY <1>9, <2>1, <2>2, <2>3 DEF ClientStep
  <1>10. ASSUME NEW c \in Clients, Serve(c) PROVE session'[d].acting <= LastIssued
    <2>1. CASE EmitFails(c) \/ RecvLagged(c) \/ WriteFails(c)
      BY <1>1, <2>1, ActingKept DEF EmitFails, RecvLagged, WriteFails, EndSession
    <2>2. CASE EmitAction(c)
      BY <1>1, <2>2 DEF EmitAction, Session
    <2>3. CASE Recv(c)
      <3> DEFINE t == Delivered(Dequeued(session[c]), Head(session[c].queue))
      <3>1. session[c].queue # <<>> /\ session' = [session EXCEPT ![c] = t]
        BY <2>3 DEF Recv
      <3>2. session[c].queue \in Seq(Update(EventId))
        BY <1>1 DEF Session
      <3>3. /\ Head(session[c].queue) \in Update(EventId)
            /\ Tail(session[c].queue) \in Seq(Update(EventId))
        BY <3>1, <3>2, HeadTailProperties
      <3>4. Dequeued(session[c]) \in Session
        BY <1>1, <3>3 DEF Dequeued, Session
      <3>5. t.acting = session[c].acting
        BY <1>1, <3>1, <3>3, <3>4, ActingKept
      <3> HIDE DEF t
      <3> QED BY <1>1, <3>1, <3>5
    <2>4. CASE WriteFrame(c)
      BY <1>1, <2>4 DEF WriteFrame, Session
    <2>5. CASE Handle(c)
      BY <2>5, HandleActing
    <2> QED BY <1>10, <2>1, <2>2, <2>3, <2>4, <2>5 DEF Serve
  <1> QED BY <1>6, <1>7, <1>8, <1>9, <1>10 DEF Next

-----------------------------------------------------------------------------
(* A step of the daemon.                                                   *)

(* The queue of signals, step by step.                                     *)
LEMMA OrderStep ==
    ASSUME NotificationIInv, DaemonTypeOK, BusInv, SignalInv, [Next]_vars, busUp'
    PROVE  Orderly(bus', announced', LastIssued')
  <1>1. /\ bus \in Seq(SignalType) /\ announced \in Nat /\ LastIssued \in Nat
    BY StoredIsRange DEF DaemonTypeOK, NotificationIInv, StoreIInv
  <1>2. busUp => Orderly(bus, announced, LastIssued)
    BY DEF SignalInv
  <1> DEFINE Goal == Orderly(bus', announced', LastIssued')
             Asks(s) == /\ busUp /\ bus' = Append(bus, s) /\ announced' = announced
  <1>3. ASSUME NEW id \in EventId, Publish(id), Asks(Signal("EventAdded", id, 0)) PROVE Goal
    <2>1. LastIssued' = LastIssued + 1 /\ id = LastIssued + 1
      BY <1>3, PublishIInv DEF NotificationIInv
    <2> QED BY <1>1, <1>2, <1>3, <2>1, AnnouncedOrderly
  <1>4. ASSUME NEW s \in SignalType, ~Announces(s), Concerns(s) => s.id <= LastIssued,
               LastIssued' = LastIssued, Asks(s)
        PROVE  Goal
    BY <1>1, <1>2, <1>4, ReportedOrderly
  <1>5. ASSUME bus' = bus, busUp' = busUp, announced' = announced, LastIssued' = LastIssued
        PROVE  Goal
    BY <1>2, <1>5
  <1>6. \A name \in {"EventRemoved", "EventCleared", "NotificationClosed", "ActionInvoked"},
           id \in Nat, owner \in Clients \cup {0} :
          LET s == Signal(name, id, owner)
          IN  /\ s \in SignalType /\ ~Announces(s) /\ s.id = id
              /\ name = "EventCleared" => ~Concerns(s)
    BY DEF Signal, SignalType, Announces, Concerns
  <1>7. CASE DBusCall
    <2>1. ASSUME NEW id \in EventId, DBusPublish(id) PROVE Goal
      BY <1>3, <2>1 DEF DBusPublish, Called, Emit
    <2>2. ASSUME NEW id \in EventId, DBusDismiss(id) PROVE Goal
      <3>1. LastIssued' = LastIssued /\ id <= LastIssued /\ id \in Nat
        BY <2>2, DismissIInv DEF DBusDismiss, NotificationIInv, StoreIInv, StoreInv, EventId
      <3>2. Asks(Signal("EventRemoved", id, 0))
        BY <2>2 DEF DBusDismiss, Called, Emit
      <3> QED BY <1>4, <1>6, <3>1, <3>2
    <2>3. ASSUME DBusClear PROVE Goal
      <3>1. LastIssued' = LastIssued
        BY <2>3, ClearIInv DEF DBusClear, NotificationIInv
      <3>2. Asks(Signal("EventCleared", 0, 0))
        BY <2>3 DEF DBusClear, Called, Emit
      <3> QED BY <1>4, <1>6, <3>1, <3>2
    <2>4. ASSUME NEW replaces, NEW keys, NEW nid, NEW id \in EventId,
                 Notify(replaces, keys, nid, id)
          PROVE  Goal
      BY <1>3, <2>4 DEF Notify, Called, NotifyPublishes, Emit
    <2>5. ASSUME NEW replaces, NotifyFails(replaces) PROVE Goal
      BY <1>5, <2>5 DEF NotifyFails, NotifyWithoutNid, NotifyWithoutEvent, storeVars, busVars,
                        LastIssued
    <2>6. ASSUME NEW nid \in Nid, CloseNotification(nid) PROVE Goal
      <3> DEFINE id == active[nid].event
      <3>1. id \in Nat /\ id <= LastIssued /\ LastIssued' = LastIssued
        BY <2>6 DEF CloseNotification, Close, NotificationIInv, NotificationTypeOK,
                    OneActivePerEvent, Entry, EventId, storeVars, LastIssued
      <3>2. Asks(Signal("NotificationClosed", id, 0))
        BY <2>6 DEF CloseNotification, Called, Emit
      <3> HIDE DEF id
      <3> QED BY <1>4, <1>6, <3>1, <3>2
    <2> QED BY <1>7, <2>1, <2>2, <2>3, <2>4, <2>5, <2>6 DEF DBusCall
  <1>8. CASE Flush
    <2>1. /\ busUp /\ bus # <<>> /\ bus' = Tail(bus) /\ LastIssued' = LastIssued
          /\ announced' = IF Announces(Head(bus)) THEN Head(bus).id ELSE announced
      BY <1>8 DEF Flush, storeVars, LastIssued, Announces
    <2> QED BY <1>1, <1>2, <2>1, FlushedOrderly
  <1>9. CASE BusLost
    BY <1>9 DEF BusLost
  <1>10. CASE UNCHANGED vars
    BY <1>5, <1>10 DEF vars, storeVars, busVars, LastIssued
  <1>11. ASSUME NEW c \in Clients, ClientStep(c) PROVE Goal
    BY <1>5, <1>11 DEF ClientStep, Connect, Disconnect, ClientRead, Send, storeVars, busVars,
                       LastIssued
  <1>12. ASSUME NEW c \in Clients, Serve(c) PROVE Goal
    <2>1. CASE EmitAction(c)
      <3>1. session[c].acting \in Nat /\ session[c].acting <= LastIssued
        BY DEF DaemonTypeOK, Session, EventId, SignalInv, ActingInv
      <3>2. Asks(Signal("ActionInvoked", session[c].acting, c)) /\ LastIssued' = LastIssued
        BY <2>1 DEF EmitAction, Emit, storeVars, LastIssued
      <3> QED BY <1>4, <1>6, <3>1, <3>2
    <2>2. CASE Handle(c)
      <3>1. bus' = bus /\ busUp' = busUp /\ announced' = announced
        BY <2>2 DEF Handle, HandlePing, HandleRecent, HandleDismiss, HandleClear, HandleAction,
                    HandleBad, HandleEof, busVars
      <3>2. LastIssued' = LastIssued
        <4>1. ASSUME NEW id, Dismiss(id) PROVE LastIssued' = LastIssued
          BY <4>1 DEF Dismiss, LastIssued
        <4>2. ASSUME Clear PROVE LastIssued' = LastIssued
          BY <4>2 DEF Clear, LastIssued
        <4>3. ASSUME UNCHANGED storeVars PROVE LastIssued' = LastIssued
          BY <4>3 DEF storeVars, LastIssued
        <4> QED BY <2>2, <4>1, <4>2, <4>3
                DEF Handle, HandlePing, HandleRecent, HandleDismiss, HandleClear,
                    HandleAction, HandleBad, HandleEof
      <3> QED BY <1>5, <3>1, <3>2
    <2>3. CASE EmitFails(c) \/ Recv(c) \/ RecvLagged(c) \/ WriteFrame(c) \/ WriteFails(c)
      BY <1>5, <2>3 DEF EmitFails, Recv, RecvLagged, WriteFrame, WriteFails, storeVars, busVars,
                        LastIssued
    <2> QED BY <1>12, <2>1, <2>2, <2>3 DEF Serve
  <1> QED BY <1>7, <1>8, <1>9, <1>10, <1>11, <1>12 DEF Next

(* Initially nothing was published and nothing waits.                      *)
LEMMA SignalInit == ASSUME Init PROVE SignalInv
  <1>1. LastIssued = 0 /\ announced = 0 /\ bus = <<>>
    BY DEF Init, StoreInit, LastIssued, None
  <1>2. Len(bus) = 0 /\ 1..0 = {} /\ (0 + 1)..0 = {}
    BY <1>1, EmptySeq
  <1>3. Orderly(bus, announced, LastIssued)
    BY <1>1, <1>2 DEF Orderly
  <1>4. ActingInv
    BY <1>1 DEF Init, ActingInv, NoSession
  <1> QED BY <1>3, <1>4 DEF SignalInv

(* The invariant of the signals holds in the running daemon.               *)
LEMMA SignalInvariant == Spec => [](NotificationIInv /\ DaemonTypeOK /\ BusInv /\ SignalInv)
  <1>1. NotificationIInv /\ DaemonTypeOK /\ BusInv /\ SignalInv /\ [Next]_vars => SignalInv'
    BY ActingStep, OrderStep DEF SignalInv
  <1> QED BY <1>1, SignalInit, DaemonInvariant, PTL DEF Spec

(* On D-Bus, events are announced in the order of their publication, and   *)
(* no removal, closed notification or invoked action is signalled before   *)
(* the event it concerns.                                                  *)
THEOREM SignalsOrdered == Spec => []SignalsInOrder
  <1>1. ASSUME DaemonTypeOK, BusInv, SignalInv PROVE SignalsInOrder
    <2>1. DOMAIN bus = 1..Len(bus)
      BY <1>1, LenProperties DEF DaemonTypeOK
    <2>2. CASE busUp
      <3>1. Orderly(bus, announced, LastIssued) /\ announced \in Nat
        BY <1>1, <2>2 DEF SignalInv, DaemonTypeOK
      <3>2. \A p \in 1..Len(bus) : Announces(bus[p]) => bus[p].id > announced
        BY <3>1 DEF Orderly
      <3> QED BY <2>1, <3>1, <3>2 DEF SignalsInOrder, Orderly, Announces, Concerns
    <2>3. CASE ~busUp
      <3>1. Len(bus) = 0 /\ 1..0 = {}
        BY <1>1, <2>3, EmptySeq DEF BusInv
      <3> QED BY <2>1, <3>1 DEF SignalsInOrder
    <2> QED BY <2>2, <2>3
  <1> QED BY <1>1, SignalInvariant, PTL

-----------------------------------------------------------------------------
(* D-Bus carries the feed.                                                 *)

(* A step publishes the next event, announces the next event, loses the    *)
(* connection, or is not seen by those who listen.                         *)
LEMMA BusFeedSteps ==
    ASSUME NotificationIInv, NotificationIInv', DaemonTypeOK, BusInv, SignalInv, [Next]_vars
    PROVE  [BusFeed!Next]_(BusFeed!feedVars)
  <1>1. /\ LastIssued \in Nat /\ LastIssued' \in 0..MaxEventId
        /\ bus \in Seq(SignalType) /\ announced \in Nat /\ MaxEventId \in Nat
    <2>1. nextId' \in EventId \cup {None}
      BY DEF NotificationIInv, StoreIInv, StoreTypeOK
    <2> QED BY <2>1, StoredIsRange, LastOf, MaxEventIdAssumption
            DEF NotificationIInv, StoreIInv, DaemonTypeOK, LastIssued
  <1>2. CASE UNCHANGED <<busUp, announced>>
    <2>1. LastIssued' \in {LastIssued, LastIssued + 1}
      BY DaemonStep DEF StepOK, Effect, Quiet, Publishes, Removes, Ends, Joins, Receives
    <2>2. CASE LastIssued' = LastIssued
      BY <1>2, <2>2 DEF BusFeed!feedVars, Connection
    <2>3. CASE LastIssued' = LastIssued + 1
      <3>1. LastIssued < MaxEventId
        BY <1>1, <2>3
      <3>2. Connection' = Connection
        BY <1>2 DEF Connection
      <3>3. BusFeed!Issue
        BY <1>2, <2>3, <3>1, <3>2 DEF BusFeed!Issue
      <3> QED BY <3>3 DEF BusFeed!Next
    <2> QED BY <2>1, <2>2, <2>3
  <1>3. CASE Flush
    <2>1. /\ busUp /\ busUp' = busUp /\ bus # <<>> /\ LastIssued' = LastIssued
          /\ announced' = IF Announces(Head(bus)) THEN Head(bus).id ELSE announced
      BY <1>3 DEF Flush, storeVars, LastIssued, Announces
    <2>2. CASE Announces(Head(bus))
      <3>1. announced' = announced + 1 /\ announced < LastIssued
        <4>1. Orderly(bus, announced, LastIssued)
          BY <2>1 DEF SignalInv
        <4>2. Head(bus).id = announced + 1 /\ Head(bus).id <= LastIssued
          BY <1>1, <2>1, <2>2, <4>1, FlushedOrderly
        <4> QED BY <1>1, <2>1, <2>2, <4>2
      <3>2. Connection' = Connection /\ "dbus" \in Connection
        BY <2>1 DEF Connection
      <3>3. BusFeed!Deliver("dbus")
        BY <2>1, <3>1, <3>2 DEF BusFeed!Deliver
      <3> QED BY <3>3 DEF BusFeed!Next
    <2>3. CASE ~Announces(Head(bus))
      BY <2>1, <2>3 DEF BusFeed!feedVars, Connection
    <2> QED BY <2>2, <2>3
  <1>4. CASE BusLost
    <2>1. busUp /\ ~busUp' /\ LastIssued' = LastIssued
      BY <1>4 DEF BusLost, storeVars, LastIssued
    <2>2. Connection' = Connection \ {"dbus"} /\ "dbus" \in Connection
      BY <2>1 DEF Connection
    <2>3. BusFeed!Leave("dbus")
      BY <2>1, <2>2 DEF BusFeed!Leave
    <2> QED BY <2>3 DEF BusFeed!Next
  <1>5. UNCHANGED <<busUp, announced>> \/ Flush \/ BusLost
    <2>1. CASE DBusCall
      BY <2>1 DEF DBusCall, DBusPublish, DBusDismiss, DBusClear, Notify, NotifyFails,
                  CloseNotification, Emit, busVars
    <2>2. ASSUME NEW c \in Clients, ClientStep(c) PROVE UNCHANGED <<busUp, announced>>
      BY <2>2 DEF ClientStep, Connect, Disconnect, ClientRead, Send, busVars
    <2>3. ASSUME NEW c \in Clients, Handle(c) PROVE UNCHANGED <<busUp, announced>>
      BY <2>3 DEF Handle, HandlePing, HandleRecent, HandleDismiss, HandleClear, HandleAction,
                  HandleBad, HandleEof, busVars
    <2>4. ASSUME NEW c \in Clients, Serve(c), ~Handle(c) PROVE UNCHANGED <<busUp, announced>>
      BY <2>4 DEF Serve, EmitAction, EmitFails, Recv, RecvLagged, WriteFrame, WriteFails,
                  Emit, busVars
    <2>5. CASE UNCHANGED vars
      BY <2>5 DEF vars, busVars
    <2> QED BY <2>1, <2>2, <2>3, <2>4, <2>5 DEF Next
  <1> QED BY <1>2, <1>3, <1>4, <1>5

(* Refinement: for those who listen on D-Bus the daemon is the abstract    *)
(* feed.  Every published event is announced, once and in order, until the *)
(* connection is lost.                                                     *)
THEOREM DaemonImplementsBusFeed == Spec => ImplementsBusFeed
  <1>1. Init => BusFeed!Init
    <2>1. ASSUME Init PROVE LastIssued = 0 /\ busUp /\ announced = 0
      BY <2>1 DEF Init, StoreInit, LastIssued, None
    <2> QED BY <2>1 DEF BusFeed!Init, Connection
  <1> DEFINE I == NotificationIInv /\ DaemonTypeOK /\ BusInv /\ SignalInv
  <1>2. I /\ I' /\ [Next]_vars => [BusFeed!Next]_(BusFeed!feedVars)
    BY BusFeedSteps
  <1> HIDE DEF I
  <1>3. Spec => []I
    BY SignalInvariant DEF I
  <1> QED BY <1>1, <1>2, <1>3, PTL DEF Spec, ImplementsBusFeed, BusFeed!Spec

=============================================================================

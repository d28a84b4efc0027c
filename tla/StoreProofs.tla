---------------------------- MODULE StoreProofs ----------------------------
(***************************************************************************)
(* Proofs about the two stores, for every capacity and every range of      *)
(* identifiers: typing, the window invariant and the uniqueness of event   *)
(* identifiers; one notification for each event, and fresh notification    *)
(* identifiers that take over nothing.                                     *)
(***************************************************************************)
EXTENDS NotificationStore, SequenceTheorems, TLAPS

USE CapacityAssumption, MaxEventIdAssumption

-----------------------------------------------------------------------------
(* Sequences.                                                              *)

(* Removing the entry at an index keeps the type and the other entries, in *)
(* their order (VecDeque::remove).                                         *)
LEMMA RemoveAtProperties ==
    ASSUME NEW S, NEW s \in Seq(S), NEW i \in 1..Len(s)
    PROVE  /\ RemoveAt(s, i) \in Seq(S)
           /\ Len(RemoveAt(s, i)) = Len(s) - 1
           /\ \A j \in 1..(Len(s) - 1) :
                RemoveAt(s, i)[j] = IF j < i THEN s[j] ELSE s[j + 1]
  <1> DEFINE a == SubSeq(s, 1, i - 1)
             b == SubSeq(s, i + 1, Len(s))
  <1>1. /\ a \in Seq(S) /\ Len(a) = i - 1
        /\ \A j \in 1..(i - 1) : a[j] = s[j]
    BY SubSeqProperties
  <1>2. /\ b \in Seq(S) /\ Len(b) = Len(s) - i
        /\ \A j \in 1..(Len(s) - i) : b[j] = s[i + j]
    BY SubSeqProperties
  <1> HIDE DEF a, b
  <1>3. /\ a \o b \in Seq(S)
        /\ Len(a \o b) = Len(s) - 1
        /\ \A j \in 1..(Len(s) - 1) :
             (a \o b)[j] = IF j <= i - 1 THEN a[j] ELSE b[j - (i - 1)]
    <2>1. /\ a \o b \in Seq(S)
          /\ Len(a \o b) = Len(a) + Len(b)
          /\ \A j \in 1..(Len(a) + Len(b)) :
               (a \o b)[j] = IF j <= Len(a) THEN a[j] ELSE b[j - Len(a)]
      BY <1>1, <1>2, ConcatProperties
    <2>2. Len(a) + Len(b) = Len(s) - 1
      BY <1>1, <1>2
    <2> QED BY <1>1, <2>1, <2>2
  <1>4. RemoveAt(s, i) = a \o b
    BY DEF RemoveAt, a, b
  <1>5. ASSUME NEW j \in 1..(Len(s) - 1)
        PROVE  (a \o b)[j] = IF j < i THEN s[j] ELSE s[j + 1]
    <2>1. CASE j < i
      BY <1>1, <1>3, <2>1
    <2>2. CASE ~(j < i)
      <3>1. (a \o b)[j] = b[j - (i - 1)]
        BY <1>3, <2>2
      <3>2. j - (i - 1) \in 1..(Len(s) - i)
        BY <2>2
      <3>3. b[j - (i - 1)] = s[i + (j - (i - 1))]
        BY <1>2, <3>2
      <3>4. i + (j - (i - 1)) = j + 1
        OBVIOUS
      <3> QED BY <2>2, <3>1, <3>3, <3>4
    <2> QED BY <2>1, <2>2
  <1> QED BY <1>3, <1>4, <1>5

-----------------------------------------------------------------------------
(* The inductive invariant of the store: its type and its window property. *)
StoreIInv == StoreTypeOK /\ StoreInv

(* The order of a sequence of events, spelled out.                         *)
Increasing(s) == \A i, j \in 1..Len(s) : i < j => s[i] < s[j]

(* The stored events are the entries of the queue.                         *)
LEMMA StoredIsRange ==
    ASSUME StoreTypeOK
    PROVE  /\ Len(events) \in Nat
           /\ DOMAIN events = 1..Len(events)
           /\ Stored = {events[i] : i \in 1..Len(events)}
           /\ \A i \in 1..Len(events) : events[i] \in EventId
           /\ LastIssued \in Nat
  <1>1. events \in Seq(EventId)
    BY DEF StoreTypeOK
  <1>2. Len(events) \in Nat /\ DOMAIN events = 1..Len(events)
    BY <1>1, LenProperties
  <1>3. \A i \in 1..Len(events) : events[i] \in EventId
    BY <1>1, ElementOfSeq
  <1>4. LastIssued \in Nat
    BY DEF StoreTypeOK, LastIssued, EventId, None
  <1> QED BY <1>2, <1>3, <1>4 DEF Stored, ToSet

(* Initially the store is empty and in order.                              *)
LEMMA StoreInitIInv == StoreInit => StoreIInv
  BY DEF StoreInit, StoreIInv, StoreTypeOK, StoreInv, Stored, ToSet, LastIssued,
         EventId, None

(* Publishing appends the newest event and evicts at most the oldest.      *)
LEMMA PublishIInv ==
    ASSUME StoreIInv, NEW id \in EventId, Publish(id)
    PROVE  /\ StoreIInv'
           /\ LastIssued' = LastIssued + 1 /\ id = LastIssued'
           /\ Stored' \subseteq Stored \cup {id}
  <1> DEFINE s == Append(events, id)
             n == Len(events)
  <1>1. /\ StoreTypeOK /\ StoreInv
        /\ nextId \in EventId /\ id = nextId
        /\ nextId' = CheckedSucc(id)
        /\ events' = Trimmed(s) /\ evicted' = evicted \cup Overflow(s)
    BY DEF StoreIInv, Publish, StoreTypeOK, None
  <1>2. /\ n \in Nat /\ n <= Capacity
        /\ \A i \in 1..n : events[i] \in EventId /\ events[i] <= LastIssued
        /\ Increasing(events)
        /\ events \in Seq(EventId)
        /\ \A e \in evicted : e \in EventId /\ e <= LastIssued
                              /\ \A i \in 1..n : e < events[i]
    BY <1>1, StoredIsRange DEF StoreInv, Increasing, StoreTypeOK
  <1>3. LastIssued = id - 1 /\ LastIssued' = id
    BY <1>1 DEF LastIssued, CheckedSucc, EventId, None
  <1>4. /\ s \in Seq(EventId) /\ Len(s) = n + 1
        /\ \A i \in 1..n : s[i] = events[i]
        /\ s[n + 1] = id
    BY <1>2, AppendProperties
  <1>5. Increasing(s) /\ \A i \in 1..(n + 1) : s[i] \in EventId /\ s[i] <= id
    BY <1>2, <1>3, <1>4 DEF Increasing, EventId
  <1>6. \A e \in evicted : e \in EventId /\ e <= id /\ \A i \in 1..(n + 1) : e < s[i]
    BY <1>2, <1>3, <1>4 DEF EventId
  <1>7. nextId' \in EventId \cup {None}
    BY <1>1 DEF CheckedSucc, EventId, None
  <1> HIDE DEF s
  <1>8. CASE n + 1 <= Capacity
    <2>1. events' = s /\ evicted' = evicted
      BY <1>1, <1>2, <1>4, <1>8 DEF Trimmed, Overflow
    <2>2. StoreTypeOK'
      BY <1>4, <1>6, <1>7, <2>1 DEF StoreTypeOK
    <2>3. Stored' = {s[i] : i \in 1..(n + 1)} /\ DOMAIN events' = 1..(n + 1)
      BY <1>4, <2>1, LenProperties DEF Stored, ToSet
    <2>4. StoreInv'
      BY <1>3, <1>4, <1>5, <1>6, <1>8, <2>1, <2>3 DEF StoreInv, Increasing
    <2>5. Stored' \subseteq Stored \cup {id}
      BY <1>1, <1>2, <1>4, <2>3, StoredIsRange
    <2> QED BY <1>2, <1>3, <2>2, <2>4, <2>5 DEF StoreIInv, EventId
  <1>9. CASE n = Capacity
    <2>1. events' = Tail(s) /\ evicted' = evicted \cup {s[1]}
      BY <1>1, <1>2, <1>4, <1>9 DEF Trimmed, Overflow
    <2>2. /\ Tail(s) \in Seq(EventId) /\ Len(Tail(s)) = n
          /\ \A i \in 1..n : Tail(s)[i] = s[i + 1]
      BY <1>2, <1>4, HeadTailProperties
    <2>3. Stored' = {s[i + 1] : i \in 1..n} /\ DOMAIN events' = 1..n
      BY <2>1, <2>2, LenProperties DEF Stored, ToSet
    <2>4. StoreTypeOK'
      BY <1>2, <1>5, <1>6, <1>7, <2>1, <2>2 DEF StoreTypeOK
    <2>5. \A e \in evicted' : e <= id /\ \A i \in 1..n : e < s[i + 1]
      <3>1. \A i \in 1..n : s[1] < s[i + 1]
        BY <1>2, <1>4, <1>5 DEF Increasing
      <3> QED BY <1>2, <1>5, <1>6, <2>1, <3>1
    <2>6. \A i, j \in 1..n : i < j => s[i + 1] < s[j + 1]
      BY <1>2, <1>4, <1>5 DEF Increasing
    <2>7. \A e \in Stored' : e <= id
      BY <1>2, <1>5, <2>3
    <2>8. StoreInv'
      <3>1. Len(events') <= Capacity
        BY <1>2, <1>9, <2>1, <2>2
      <3>2. \A i, j \in DOMAIN events' : i < j => events'[i] < events'[j]
        BY <2>1, <2>2, <2>3, <2>6
      <3>3. \A e \in evicted' : e <= LastIssued' /\ \A f \in Stored' : e < f
        BY <1>3, <2>3, <2>5
      <3> QED BY <1>3, <2>7, <3>1, <3>2, <3>3 DEF StoreInv
    <2>9. Stored' \subseteq Stored \cup {id}
      BY <1>1, <1>2, <1>4, <2>3, StoredIsRange
    <2> QED BY <1>2, <1>3, <2>4, <2>8, <2>9 DEF StoreIInv, EventId
  <1> QED BY <1>2, <1>8, <1>9

(* Dismissing removes one event and moves none past another.               *)
LEMMA DismissIInv ==
    ASSUME StoreIInv, NEW id \in EventId, Dismiss(id)
    PROVE  /\ StoreIInv' /\ LastIssued' = LastIssued
           /\ id \in Stored /\ Stored' = Stored \ {id}
  <1> DEFINE n == Len(events)
  <1>1. StoreTypeOK /\ StoreInv /\ nextId' = nextId /\ evicted' = evicted
    BY DEF StoreIInv, Dismiss
  <1>2. PICK k \in 1..n : events[k] = id /\ events' = RemoveAt(events, k)
    BY DEF Dismiss
  <1>3. /\ n \in Nat /\ n <= Capacity
        /\ Stored = {events[i] : i \in 1..n}
        /\ \A i \in 1..n : events[i] \in EventId /\ events[i] <= LastIssued
        /\ Increasing(events)
        /\ events \in Seq(EventId)
        /\ \A e \in evicted : e \in EventId /\ e <= LastIssued
                              /\ \A i \in 1..n : e < events[i]
    BY <1>1, StoredIsRange DEF StoreInv, Increasing, StoreTypeOK
  <1>4. /\ events' \in Seq(EventId) /\ Len(events') = n - 1
        /\ \A j \in 1..(n - 1) : events'[j] = IF j < k THEN events[j] ELSE events[j + 1]
    <2>0. events \in Seq(EventId) /\ k \in 1..Len(events)
      BY <1>3
    <2>1. /\ RemoveAt(events, k) \in Seq(EventId)
          /\ Len(RemoveAt(events, k)) = Len(events) - 1
          /\ \A j \in 1..(Len(events) - 1) :
               RemoveAt(events, k)[j] = IF j < k THEN events[j] ELSE events[j + 1]
      BY <2>0, RemoveAtProperties
    <2> QED BY <1>2, <2>1
  <1> DEFINE old(j) == IF j < k THEN j ELSE j + 1
  <1>a. /\ \A j \in 1..(n - 1) : old(j) \in 1..n /\ old(j) # k /\ events'[j] = events[old(j)]
        /\ \A i, j \in 1..(n - 1) : i < j => old(i) < old(j)
    <2>1. n \in Nat
      BY <1>3
    <2>2. ASSUME NEW j \in 1..(n - 1)
          PROVE  old(j) \in 1..n /\ old(j) # k /\ events'[j] = events[old(j)]
      <3>1. events'[j] = IF j < k THEN events[j] ELSE events[j + 1]
        BY <1>4
      <3> QED BY <2>1, <3>1
    <2>3. ASSUME NEW i \in 1..(n - 1), NEW j \in 1..(n - 1), i < j
          PROVE  old(i) < old(j)
      BY <2>1, <2>3
    <2> QED BY <2>2, <2>3
  <1>b. \A m \in 1..n : m # k => events[m] # id
    BY <1>2, <1>3 DEF Increasing, EventId
  <1> HIDE DEF old
  <1>5. DOMAIN events' = 1..(n - 1) /\ Stored' = {events'[j] : j \in 1..(n - 1)}
    BY <1>4, LenProperties DEF Stored, ToSet
  <1>6. LastIssued' = LastIssued
    BY <1>1 DEF LastIssued
  <1>7. Stored' = Stored \ {id}
    <2>1. ASSUME NEW j \in 1..(n - 1) PROVE events'[j] \in Stored \ {id}
      BY <1>3, <1>a, <1>b
    <2>2. ASSUME NEW i \in 1..n, events[i] # id PROVE events[i] \in Stored'
      <3>1. CASE i < k
        BY <1>2, <1>3, <1>4, <1>5, <3>1
      <3>2. CASE i > k
        <4>1. i - 1 \in 1..(n - 1) /\ ~(i - 1 < k) /\ (i - 1) + 1 = i
          BY <1>2, <1>3, <3>2
        <4> QED BY <1>4, <1>5, <4>1
      <3> QED BY <1>2, <2>2, <3>1, <3>2
    <2> QED BY <1>3, <1>5, <2>1, <2>2
  <1>8. StoreTypeOK'
    BY <1>1, <1>4 DEF StoreTypeOK
  <1>9. \A i, j \in DOMAIN events' : i < j => events'[i] < events'[j]
    BY <1>3, <1>5, <1>a DEF Increasing
  <1>10. StoreInv'
    BY <1>1, <1>3, <1>4, <1>6, <1>7, <1>9 DEF StoreInv
  <1> QED BY <1>2, <1>3, <1>6, <1>7, <1>8, <1>10 DEF StoreIInv

(* Clearing forgets the stored events and no identifier.                   *)
LEMMA ClearIInv ==
    ASSUME StoreIInv, Clear
    PROVE  StoreIInv' /\ LastIssued' = LastIssued /\ Stored' = {}
  <1>1. events' = <<>> /\ nextId' = nextId /\ evicted' = evicted
    BY DEF Clear
  <1>2. LastIssued' = LastIssued
    BY <1>1 DEF LastIssued
  <1>3. Stored' = {} /\ DOMAIN events' = {} /\ Len(events') = 0
    BY <1>1 DEF Stored, ToSet
  <1>4. StoreTypeOK'
    BY <1>1 DEF StoreIInv, StoreTypeOK
  <1>5. StoreInv'
    BY <1>1, <1>2, <1>3 DEF StoreIInv, StoreInv
  <1> QED BY <1>2, <1>3, <1>4, <1>5 DEF StoreIInv

-----------------------------------------------------------------------------
(* A step that leaves the store alone keeps all that is said of it.        *)
LEMMA StoreStutters ==
    ASSUME StoreIInv, UNCHANGED storeVars
    PROVE  StoreIInv' /\ LastIssued' = LastIssued /\ Stored' = Stored
  BY DEF StoreIInv, storeVars, StoreTypeOK, StoreInv, Stored, ToSet, LastIssued

(* A step of the store keeps the invariant and never takes an identifier   *)
(* back.                                                                   *)
LEMMA StoreStep ==
    ASSUME StoreIInv, [StoreNext]_storeVars
    PROVE  /\ StoreIInv'
           /\ LastIssued \in Nat /\ LastIssued' \in Nat
           /\ LastIssued' >= LastIssued
           /\ \A e \in Stored' \ Stored : e > LastIssued
  <1>0. LastIssued \in Nat
    BY StoredIsRange DEF StoreIInv
  <1>1. CASE \E id \in EventId : Publish(id)
    <2>1. PICK id \in EventId : Publish(id)
      BY <1>1
    <2> QED BY <1>0, <2>1, PublishIInv
  <1>2. CASE \E id \in EventId : Dismiss(id)
    BY <1>0, <1>2, DismissIInv
  <1>3. CASE Clear
    BY <1>0, <1>3, ClearIInv
  <1>4. CASE UNCHANGED storeVars
    BY <1>0, <1>4, StoreStutters
  <1> QED BY <1>1, <1>2, <1>3, <1>4 DEF StoreNext

(* The inductive invariant holds of every behaviour of the store.          *)
THEOREM StoreInvariant == StoreSpec => []StoreIInv
  <1>1. StoreIInv /\ [StoreNext]_storeVars => StoreIInv'
    BY StoreStep
  <1> QED BY <1>1, StoreInitIInv, PTL DEF StoreSpec

(* The event store keeps its types.                                        *)
THEOREM StoreTypeCorrect == StoreSpec => []StoreTypeOK
  <1>1. StoreIInv => StoreTypeOK
    BY DEF StoreIInv
  <1> QED BY <1>1, StoreInvariant, PTL

(* The event store is a bounded, ordered window on what was published.     *)
THEOREM StoreIsWindow == StoreSpec => []StoreInv
  <1>1. StoreIInv => StoreInv
    BY DEF StoreIInv
  <1> QED BY <1>1, StoreInvariant, PTL

(* The event store never reuses an identifier.                             *)
THEOREM StoreNeverResurrects == StoreSpec => NoResurrection
  <1>1. StoreIInv /\ [StoreNext]_storeVars =>
          [/\ LastIssued' >= LastIssued
           /\ \A e \in Stored' \ Stored : e > LastIssued]_storeVars
    BY StoreStep
  <1> QED BY <1>1, StoreInvariant, PTL DEF StoreSpec, NoResurrection

-----------------------------------------------------------------------------
(* The notifications.                                                      *)

USE MaxNidAssumption

notificationVars == <<storeVars, notifVars>>

(* The inductive invariant of both stores.  One notification per event is  *)
(* inductive only with the bound on the events of active notifications,    *)
(* and that one only because the event store never takes identifiers back. *)
NotificationIInv == StoreIInv /\ NotificationTypeOK /\ OneActivePerEvent

(* Initially nothing is active.                                            *)
LEMMA NotificationInitIInv == StoreInit /\ NotificationInit => NotificationIInv
  BY StoreInitIInv DEF NotificationInit, NotificationIInv, NotificationTypeOK,
                       OneActivePerEvent, Nid

(* What notification_id allots is an identifier, and one that is not       *)
(* active when the caller named none.                                      *)
LEMMA AllocationProperties ==
    ASSUME NotificationTypeOK, NEW replaces \in 0..MaxNid, NEW nid, NidAllocated(replaces, nid)
    PROVE  /\ nid \in Nid
           /\ nNext' \in Nid
           /\ nNext' # nNext => nid \notin DOMAIN active
  BY DEF NotificationTypeOK, NidAllocated, Fresh, Nid

(* Notify: the new entry is the only one that can point to the new event.  *)
LEMMA NotifyIInv ==
    ASSUME NotificationIInv, NEW replaces \in 0..MaxNid, NEW keys \in SUBSET Keys,
           NEW nid, NEW id \in EventId, NotifyPublishes(replaces, keys, nid, id)
    PROVE  NotificationIInv'
  <1> DEFINE entry == [event |-> id, keys |-> keys]
  <1>1. /\ StoreIInv' /\ LastIssued' = LastIssued + 1 /\ id = LastIssued'
        /\ LastIssued \in Nat
    BY PublishIInv, StoredIsRange DEF NotificationIInv, NotifyPublishes, StoreIInv
  <1>2. nid \in Nid /\ nNext' \in Nid
    BY AllocationProperties DEF NotificationIInv, NotifyPublishes
  <1>3. entry \in Entry /\ entry.event = id /\ active' = Inserted(nid, entry)
    BY DEF Entry, NotifyPublishes
  <1> HIDE DEF entry
  <1>4. /\ DOMAIN active' = DOMAIN active \cup {nid}
        /\ active'[nid] = entry
        /\ \A n \in DOMAIN active : n # nid => active'[n] = active[n]
    BY <1>3 DEF Inserted
  <1>5. NotificationTypeOK'
    BY <1>2, <1>3, <1>4 DEF NotificationIInv, NotificationTypeOK
  <1>6. \A n \in DOMAIN active : active[n].event \in Nat /\ active[n].event < id
    BY <1>1 DEF NotificationIInv, NotificationTypeOK, OneActivePerEvent, Entry, EventId
  <1>7. OneActivePerEvent'
    BY <1>1, <1>3, <1>4, <1>6 DEF NotificationIInv, OneActivePerEvent
  <1> QED BY <1>1, <1>5, <1>7 DEF NotificationIInv

(* The calls that fail leave both stores in order.                         *)
LEMMA NotifyFailsIInv ==
    ASSUME NotificationIInv, NEW replaces \in 0..MaxNid,
           NotifyWithoutNid(replaces) \/ NotifyWithoutEvent(replaces)
    PROVE  NotificationIInv'
  <1>1. UNCHANGED storeVars /\ active' = active
    BY DEF NotifyWithoutNid, NotifyWithoutEvent
  <1>2. nNext' \in Nid
    <2>1. CASE NotifyWithoutNid(replaces)
      BY <2>1 DEF NotifyWithoutNid, Nid
    <2>2. CASE NotifyWithoutEvent(replaces)
      BY <2>2, AllocationProperties DEF NotifyWithoutEvent, NotificationIInv
    <2> QED BY <2>1, <2>2
  <1> QED BY <1>1, <1>2, StoreStutters
          DEF NotificationIInv, NotificationTypeOK, OneActivePerEvent

(* Closing takes one entry away.                                           *)
LEMMA CloseIInv ==
    ASSUME NotificationIInv, NEW nid, Close(nid)
    PROVE  NotificationIInv'
  <1>1. /\ UNCHANGED storeVars /\ nNext' = nNext
        /\ DOMAIN active' = DOMAIN active \ {nid}
        /\ \A n \in DOMAIN active' : active'[n] = active[n]
    BY DEF Close, Removing, Restrict
  <1> QED BY <1>1, StoreStutters
          DEF NotificationIInv, NotificationTypeOK, OneActivePerEvent

(* Any other step of the event store.                                      *)
LEMMA StoreOnlyIInv ==
    ASSUME NotificationIInv, [StoreNext]_storeVars, UNCHANGED notifVars
    PROVE  NotificationIInv'
  <1>1. StoreIInv' /\ LastIssued' >= LastIssued /\ LastIssued \in Nat /\ LastIssued' \in Nat
    BY StoreStep DEF NotificationIInv
  <1>2. nNext' = nNext /\ active' = active
    BY DEF notifVars
  <1>3. \A n \in DOMAIN active : active[n].event \in Nat
    BY DEF NotificationIInv, NotificationTypeOK, Entry, EventId
  <1> QED BY <1>1, <1>2, <1>3 DEF NotificationIInv, NotificationTypeOK, OneActivePerEvent

(* A step of either store keeps the invariant. *)
LEMMA NotificationStep ==
    ASSUME NotificationIInv, [NotificationNext]_notificationVars
    PROVE  NotificationIInv'
  <1>1. CASE StoreNext /\ UNCHANGED notifVars
    BY <1>1, StoreOnlyIInv
  <1>2. CASE UNCHANGED notificationVars
    BY <1>2, StoreOnlyIInv DEF notificationVars
  <1> QED BY <1>1, <1>2, NotifyIInv, NotifyFailsIInv, CloseIInv DEF NotificationNext

(* A step of the stores that moves the search for a fresh identifier       *)
(* leaves every active notification as it was.                             *)
LEMMA FreshStep ==
    ASSUME NotificationIInv, [NotificationNext]_notificationVars, nNext' # nNext,
           NEW n \in DOMAIN active
    PROVE  n \in DOMAIN active' /\ active'[n] = active[n]
  <1>1. CASE \E replaces \in 0..MaxNid, keys \in SUBSET Keys, nid \in Nid, id \in EventId :
                NotifyPublishes(replaces, keys, nid, id)
    <2>1. PICK replaces \in 0..MaxNid, keys \in SUBSET Keys, nid \in Nid, id \in EventId :
                NotifyPublishes(replaces, keys, nid, id)
      BY <1>1
    <2>2. nid \notin DOMAIN active
      BY <2>1, AllocationProperties DEF NotificationIInv, NotifyPublishes
    <2> DEFINE entry == [event |-> id, keys |-> keys]
    <2>3. active' = Inserted(nid, entry)
      BY <2>1 DEF NotifyPublishes
    <2> HIDE DEF entry
    <2> QED BY <2>2, <2>3 DEF Inserted
  <1> QED BY <1>1 DEF NotificationNext, NotifyWithoutNid, NotifyWithoutEvent, Close,
                      notificationVars, notifVars

(* The inductive invariant holds of every behaviour of the two stores.     *)
THEOREM NotificationInvariant == NotificationSpec => []NotificationIInv
  <1>1. NotificationIInv /\ [NotificationNext]_notificationVars => NotificationIInv'
    BY NotificationStep
  <1> QED BY <1>1, NotificationInitIInv, PTL DEF NotificationSpec, notificationVars

=============================================================================

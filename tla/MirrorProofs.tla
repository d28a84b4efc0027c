---------------------------- MODULE MirrorProofs ----------------------------
(***************************************************************************)
(* Proofs about what a socket client makes of the frames it is sent: its   *)
(* list of events converges to the store (MirrorConverges), and no         *)
(* notification goes back to an older event (ActionableOnlyNewest), for    *)
(* every number of clients, capacity and range of identifiers.             *)
(***************************************************************************)
EXTENDS DaemonProofs

-----------------------------------------------------------------------------
(* The list that is left when the updates that wait have been applied.     *)
Drops(u, i) == u \in {Removed(i), Cleared}

Lists(view, q, i) ==
    \/ i \in view /\ \A p \in 1..Len(q) : ~Drops(q[p], i)
    \/ \E p \in 1..Len(q) : q[p] = Added(i) /\ \A r \in 1..Len(q) : Drops(q[r], i) => r < p

Applied(view, u) ==
    CASE u.kind = "added" -> view \cup {u.id}
      [] u.kind = "removed" -> view \ {u.id}
      [] u.kind = "cleared" -> {}

(* Settled, said of one event.                                             *)
LEMMA InSettled ==
    ASSUME NEW q \in Seq(Update(EventId)), NEW view, NEW i \in EventId
    PROVE  i \in Settled(view, q) <=> Lists(view, q, i)
  <1>1. DOMAIN q = 1..Len(q)
    BY LenProperties
  <1> QED BY <1>1 DEF Settled, Lists, Drops

(* An update is one of the three kinds.                                    *)
LEMMA UpdateKinds ==
    ASSUME NEW u \in Update(EventId)
    PROVE  \/ u.id \in EventId /\ u = Added(u.id)
           \/ u.id \in EventId /\ u = Removed(u.id)
           \/ u = Cleared
  BY DEF Update, Added, Removed, Cleared

(* What the update u at the end of the queue changes.                      *)
LEMMA ListsAppend ==
    ASSUME NEW q \in Seq(Update(EventId)), NEW u \in Update(EventId), NEW view,
           NEW i \in EventId
    PROVE  Lists(view, Append(q, u), i) <=>
             \/ u = Added(i)
             \/ Lists(view, q, i) /\ ~Drops(u, i)
  <1> DEFINE t == Append(q, u)
             n == Len(q)
  <1>1. /\ n \in Nat /\ Len(t) = n + 1 /\ t[n + 1] = u
        /\ \A p \in 1..n : t[p] = q[p]
    BY AppendProperties, LenProperties
  <1>2. u = Added(i) => ~Drops(u, i)
    BY DEF Drops, Added, Removed, Cleared
  <1>3. Lists(view, q, i) <=>
          \/ i \in view /\ \A p \in 1..n : ~Drops(q[p], i)
          \/ \E p \in 1..n : q[p] = Added(i) /\ \A r \in 1..n : Drops(q[r], i) => r < p
    BY DEF Lists
  <1>4. Lists(view, t, i) <=>
          \/ i \in view /\ \A p \in 1..(n + 1) : ~Drops(t[p], i)
          \/ \E p \in 1..(n + 1) :
                t[p] = Added(i) /\ \A r \in 1..(n + 1) : Drops(t[r], i) => r < p
    BY <1>1 DEF Lists
  <1> HIDE DEF t, n
  <1>5. /\ n + 1 \in 1..(n + 1) /\ \A p \in 1..n : p \in 1..(n + 1) /\ p < n + 1
        /\ \A p \in 1..(n + 1) : p \in 1..n \/ p = n + 1
    BY <1>1
  <1>6. CASE u = Added(i)
    <2>1. \A r \in 1..(n + 1) : Drops(t[r], i) => r < n + 1
      BY <1>1, <1>2, <1>5, <1>6
    <2> QED BY <1>1, <1>4, <1>5, <1>6, <2>1 DEF t
  <1>7. CASE u # Added(i) /\ Drops(u, i)
    <2>1. ASSUME NEW p \in 1..(n + 1), t[p] = Added(i),
                 \A r \in 1..(n + 1) : Drops(t[r], i) => r < p
          PROVE  FALSE
      <3>1. n + 1 < p
        BY <1>1, <1>5, <1>7, <2>1
      <3> QED BY <1>1, <3>1
    <2> QED BY <1>1, <1>4, <1>5, <1>7, <2>1 DEF t
  <1>8. CASE u # Added(i) /\ ~Drops(u, i)
    <2>1. (\A p \in 1..(n + 1) : ~Drops(t[p], i)) <=> \A p \in 1..n : ~Drops(q[p], i)
      BY <1>1, <1>5, <1>8
    <2>2. ASSUME NEW p \in 1..n
          PROVE  (\A r \in 1..(n + 1) : Drops(t[r], i) => r < p) <=>
                 (\A r \in 1..n : Drops(q[r], i) => r < p)
      BY <1>1, <1>5, <1>8
    <2>3. \A p \in 1..(n + 1) : t[p] = Added(i) => p \in 1..n /\ q[p] = Added(i)
      BY <1>1, <1>5, <1>8
    <2>4. \A p \in 1..n : p \in 1..(n + 1) /\ t[p] = q[p]
      BY <1>1, <1>5
    <2>5. Lists(view, t, i) <=> Lists(view, q, i)
      BY <1>3, <1>4, <2>1, <2>2, <2>3, <2>4
    <2> QED BY <1>8, <2>5 DEF t
  <1> QED BY <1>6, <1>7, <1>8

(* Applying the first update that waits does not change what is left.      *)
LEMMA ListsTail ==
    ASSUME NEW q \in Seq(Update(EventId)), q # <<>>, NEW view, NEW i \in EventId
    PROVE  Lists(Applied(view, Head(q)), Tail(q), i) <=> Lists(view, q, i)
  <1> DEFINE t == Tail(q)
             n == Len(q)
             u == q[1]
             w == Applied(view, u)
  <1>1. /\ n \in Nat \ {0} /\ Head(q) = u /\ Len(t) = n - 1
        /\ \A p \in 1..(n - 1) : t[p] = q[p + 1]
        /\ u \in Update(EventId)
    BY EmptySeq, HeadTailProperties, LenProperties, ElementOfSeq
  <1>2. i \in w <=> u = Added(i) \/ (i \in view /\ ~Drops(u, i))
    BY <1>1 DEF Applied, Drops, Update, Added, Removed, Cleared
  <1>3. u = Added(i) => ~Drops(u, i)
    BY DEF Drops, Added, Removed, Cleared
  <1>4. Lists(view, q, i) <=>
          \/ i \in view /\ \A p \in 1..n : ~Drops(q[p], i)
          \/ \E p \in 1..n : q[p] = Added(i) /\ \A r \in 1..n : Drops(q[r], i) => r < p
    BY DEF Lists
  <1>5. Lists(w, t, i) <=>
          \/ i \in w /\ \A p \in 1..(n - 1) : ~Drops(t[p], i)
          \/ \E p \in 1..(n - 1) :
                t[p] = Added(i) /\ \A r \in 1..(n - 1) : Drops(t[r], i) => r < p
    BY <1>1 DEF Lists
  <1>6. u = q[1]
    OBVIOUS
  <1> HIDE DEF t, n, u, w
  <1>7. /\ 1 \in 1..n
        /\ \A p \in 1..n : p # 1 => p - 1 \in 1..(n - 1) /\ t[p - 1] = q[p] /\ 1 < p
        /\ \A p \in 1..(n - 1) : p + 1 \in 1..n /\ t[p] = q[p + 1] /\ p + 1 # 1
    BY <1>1
  <1> DEFINE Clean == \A p \in 1..(n - 1) : ~Drops(t[p], i)
             Late == \E p \in 1..(n - 1) :
                       t[p] = Added(i) /\ \A r \in 1..(n - 1) : Drops(t[r], i) => r < p
  <1>8. (\A p \in 1..n : ~Drops(q[p], i)) <=> Clean /\ ~Drops(u, i)
    BY <1>6, <1>7
  <1>9. ASSUME NEW p \in 1..(n - 1)
        PROVE  (\A r \in 1..(n - 1) : Drops(t[r], i) => r < p) <=>
               (\A r \in 1..n : Drops(q[r], i) => r < p + 1)
    <2>1. ASSUME \A r \in 1..(n - 1) : Drops(t[r], i) => r < p,
                 NEW r \in 1..n, Drops(q[r], i)
          PROVE  r < p + 1
      <3>1. CASE r = 1
        BY <3>1
      <3>2. CASE r # 1
        <4>1. r - 1 < p
          BY <1>7, <2>1, <3>2
        <4> QED BY <4>1
      <3> QED BY <3>1, <3>2
    <2>2. ASSUME \A r \in 1..n : Drops(q[r], i) => r < p + 1,
                 NEW r \in 1..(n - 1), Drops(t[r], i)
          PROVE  r < p
      <3>1. r + 1 < p + 1
        BY <1>7, <2>2
      <3> QED BY <3>1
    <2> QED BY <2>1, <2>2
  <1>10. (\E p \in 1..n : q[p] = Added(i) /\ \A r \in 1..n : Drops(q[r], i) => r < p)
           <=> Late \/ (u = Added(i) /\ Clean)
    <2>1. ASSUME Late
          PROVE  \E p \in 1..n : q[p] = Added(i) /\ \A r \in 1..n : Drops(q[r], i) => r < p
      <3>1. PICK p \in 1..(n - 1) :
              t[p] = Added(i) /\ \A r \in 1..(n - 1) : Drops(t[r], i) => r < p
        BY <2>1
      <3>2. p + 1 \in 1..n /\ q[p + 1] = Added(i)
        BY <1>7, <3>1
      <3> QED BY <1>9, <3>1, <3>2
    <2>2. ASSUME u = Added(i), Clean
          PROVE  \E p \in 1..n : q[p] = Added(i) /\ \A r \in 1..n : Drops(q[r], i) => r < p
      <3>1. \A r \in 1..n : ~Drops(q[r], i)
        BY <1>3, <1>8, <2>2
      <3> QED BY <1>6, <1>7, <2>2, <3>1
    <2>3. ASSUME NEW p \in 1..n, q[p] = Added(i),
                 \A r \in 1..n : Drops(q[r], i) => r < p
          PROVE  Late \/ (u = Added(i) /\ Clean)
      <3>1. CASE p = 1
        <4>1. \A r \in 1..n : ~Drops(q[r], i)
          BY <2>3, <3>1
        <4> QED BY <1>6, <1>8, <2>3, <3>1, <4>1
      <3>2. CASE p # 1
        <4>1. p - 1 \in 1..(n - 1) /\ t[p - 1] = Added(i) /\ (p - 1) + 1 = p
          BY <1>7, <2>3, <3>2
        <4>2. \A r \in 1..(n - 1) : Drops(t[r], i) => r < p - 1
          BY <1>9, <2>3, <4>1
        <4> QED BY <4>1, <4>2
      <3> QED BY <3>1, <3>2
    <2> QED BY <2>1, <2>2, <2>3
  <1>11. Lists(w, t, i) <=> (i \in w /\ Clean) \/ Late
    BY <1>5
  <1> HIDE DEF Clean, Late
  <1>12. Lists(w, t, i) <=> Lists(view, q, i)
    BY <1>2, <1>4, <1>8, <1>10, <1>11
  <1> QED BY <1>1, <1>12 DEF t, w

(* A longer list to start from leaves a longer list.                       *)
LEMMA ListsMonotone ==
    ASSUME NEW q, NEW v, NEW w, NEW i, i \in v => i \in w, Lists(v, q, i)
    PROVE  Lists(w, q, i)
  BY DEF Lists

-----------------------------------------------------------------------------
(* What the stores give the client.                                        *)

(* Publishing loses track of no event: what leaves the store is evicted.   *)
LEMMA PublishKeepsTrack ==
    ASSUME StoreIInv, NEW id \in EventId, Publish(id)
    PROVE  /\ Stored \cup {id} \subseteq Stored' \cup evicted'
           /\ evicted \subseteq evicted'
           /\ Stored' \subseteq Stored \cup {id}
  <1> DEFINE s == Append(events, id)
             n == Len(events)
  <1>1. /\ s \in Seq(EventId) /\ n \in Nat /\ Len(s) = n + 1
        /\ \A p \in 1..n : s[p] = events[p]
        /\ s[n + 1] = id
        /\ Stored = {events[p] : p \in 1..n}
    BY StoredIsRange, AppendProperties DEF StoreIInv, StoreTypeOK
  <1>2. events' = Trimmed(s) /\ evicted' = evicted \cup Overflow(s)
    BY DEF Publish
  <1>3. Stored' \subseteq Stored \cup {id}
    BY PublishIInv
  <1> HIDE DEF s, n
  <1>4. \A e \in Stored \cup {id} : \E p \in 1..(n + 1) : e = s[p]
    <2>1. n + 1 \in 1..(n + 1) /\ \A p \in 1..n : p \in 1..(n + 1)
      BY <1>1
    <2> QED BY <1>1, <2>1
  <1>5. CASE Len(s) > Capacity
    <2>1. /\ Overflow(s) = {s[1]} /\ events' = Tail(s)
          /\ s # <<>> /\ Len(Tail(s)) = n
          /\ \A p \in 1..n : Tail(s)[p] = s[p + 1]
          /\ Tail(s) \in Seq(EventId)
      <3>1. s # <<>>
        BY <1>1, EmptySeq
      <3>2. Head(s) = s[1] /\ events' = Tail(s) /\ Overflow(s) = {Head(s)}
        BY <1>2, <1>5, <3>1, HeadTailProperties DEF Trimmed, Overflow
      <3>3. /\ Tail(s) \in Seq(EventId) /\ Len(Tail(s)) = Len(s) - 1
            /\ \A p \in 1..Len(Tail(s)) : Tail(s)[p] = s[p + 1]
        BY <1>1, <3>1, HeadTailProperties
      <3> QED BY <1>1, <3>1, <3>2, <3>3
    <2>2. Stored' = {s[p + 1] : p \in 1..n}
      <3>1. DOMAIN Tail(s) = 1..n
        BY <2>1, LenProperties
      <3> QED BY <2>1, <3>1 DEF Stored, ToSet
    <2>3. \A p \in 1..(n + 1) : p = 1 \/ (p - 1 \in 1..n /\ (p - 1) + 1 = p)
      BY <1>1
    <2>4. \A p \in 1..(n + 1) : s[p] \in Stored' \cup Overflow(s)
      <3>1. ASSUME NEW p \in 1..(n + 1), p # 1 PROVE s[p] \in Stored'
        <4>1. p - 1 \in 1..n /\ (p - 1) + 1 = p
          BY <2>3, <3>1
        <4> QED BY <2>2, <4>1
      <3> QED BY <2>1, <3>1
    <2> QED BY <1>2, <1>3, <1>4, <2>4
  <1>6. CASE ~(Len(s) > Capacity)
    <2>1. events' = s /\ evicted' = evicted
      BY <1>2, <1>6 DEF Trimmed, Overflow
    <2>2. Stored' = {s[p] : p \in 1..(n + 1)}
      <3>1. DOMAIN s = 1..(n + 1)
        BY <1>1, LenProperties
      <3> QED BY <2>1, <3>1 DEF Stored, ToSet
    <2> QED BY <1>3, <1>4, <2>1, <2>2
  <1> QED BY <1>5, <1>6

\* The first event that a snapshot is complete from on.
Since(recent) ==
    CASE Len(recent) = Len(events) -> 1
      [] recent = <<>> /\ events # <<>> -> LastIssued + 1
      [] OTHER -> Last(recent)

(* A snapshot holds stored events only, and all of them from Since on.     *)
LEMMA RecentWindow ==
    ASSUME StoreIInv, NEW limit \in Nat
    PROVE  /\ ToSet(Recent(limit)) \subseteq Stored
           /\ \A i \in Stored : i >= Since(Recent(limit)) => i \in ToSet(Recent(limit))
  <1> DEFINE m == Len(events)
             n == IF limit < m THEN limit ELSE m
             s == SubSeq(events, m - n + 1, m)
             r == Reverse(s)
  <1>1. /\ events \in Seq(EventId) /\ m \in Nat /\ n \in 0..m
        /\ Stored = {events[i] : i \in 1..m}
        /\ \A i, j \in 1..m : i < j => events[i] < events[j]
        /\ \A e \in Stored : e <= LastIssued
        /\ LastIssued \in Nat
        /\ \A i \in 1..m : events[i] \in Nat
    BY StoredIsRange DEF StoreIInv, StoreTypeOK, StoreInv, EventId
  <1>2. r = Recent(limit)
    BY DEF Recent
  <1> HIDE DEF n
  <1>3. Len(s) = n /\ \A k \in 1..n : s[k] = events[m - n + k]
    <2>1. /\ m - n + 1 \in Int /\ m \in Int
          /\ m - (m - n + 1) + 1 = n
          /\ \A k \in 1..n : (m - n + 1) + k - 1 = m - n + k
      BY <1>1
    <2>2. \A k \in (m - n + 1)..m : events[k] \in EventId
      BY <1>1, ElementOfSeq
    <2> HIDE DEF m
    <2>3. /\ Len(s) = IF m - n + 1 <= m THEN m - (m - n + 1) + 1 ELSE 0
          /\ \A k \in 1..(m - (m - n + 1) + 1) : s[k] = events[(m - n + 1) + k - 1]
      BY <2>1, <2>2, SubSeqProperties
    <2> HIDE DEF s
    <2>4. Len(s) = n
      BY <1>1, <2>3
    <2> QED BY <2>1, <2>3, <2>4
  <1> HIDE DEF s
  <1>4. Len(r) = n /\ DOMAIN r = 1..n /\ \A k \in 1..n : r[k] = events[m - k + 1]
    <2>1. \A k \in 1..n : (n - k) + 1 \in 1..n /\ m - n + ((n - k) + 1) = m - k + 1
      BY <1>1
    <2>a. r = [k \in 1..n |-> s[(n - k) + 1]]
      BY <1>3 DEF Reverse
    <2>b. \A k \in 1..n : s[(n - k) + 1] = events[m - k + 1]
      BY <1>3, <2>1
    <2> HIDE DEF r
    <2>2. r = [k \in 1..n |-> events[m - k + 1]]
      BY <2>a, <2>b
    <2>3. \A k \in 1..n : m - k + 1 \in 1..m
      BY <1>1
    <2>4. r \in Seq(EventId)
      BY <1>1, <2>2, <2>3
    <2>5. DOMAIN r = 1..n /\ n \in Nat
      BY <1>1, <2>2
    <2> QED BY <2>2, <2>4, <2>5, LenProperties
  <1> HIDE DEF r
  <1>5. ToSet(r) = {events[m - k + 1] : k \in 1..n}
    BY <1>4 DEF ToSet
  <1>6. \A k \in 1..n : m - k + 1 \in 1..m
    BY <1>1
  <1>7. ToSet(r) \subseteq Stored
    BY <1>1, <1>5, <1>6
  <1>8. ASSUME NEW j \in 1..m, j >= m - n + 1 PROVE events[j] \in ToSet(r)
    <2>1. m - j + 1 \in 1..n /\ m - (m - j + 1) + 1 = j
      BY <1>1, <1>8
    <2> QED BY <1>5, <2>1
  <1>9. ASSUME NEW j \in 1..m, events[j] >= Since(r) PROVE events[j] \in ToSet(r)
    <2>1. CASE n = m
      BY <1>1, <1>8, <2>1
    <2>2. CASE n # m /\ n = 0
      <3>1. r = <<>> /\ events # <<>> /\ Len(r) # m
        BY <1>1, <1>4, <2>2, EmptySeq
      <3>2. Since(r) = LastIssued + 1
        BY <3>1 DEF Since
      <3>3. events[j] <= LastIssued /\ events[j] \in Nat
        BY <1>1
      <3> QED BY <1>1, <1>9, <3>2, <3>3
    <2>3. CASE n # m /\ n # 0
      <3>1. r # <<>> /\ Len(r) # m /\ Len(r) = n
        BY <1>4, <2>3, EmptySeq
      <3>2. Since(r) = r[n]
        BY <3>1 DEF Since, Last
      <3>3. n \in 1..n /\ m - n + 1 \in 1..m
        BY <1>1, <2>3
      <3>4. Since(r) = events[m - n + 1]
        BY <1>4, <3>2, <3>3
      <3>5. ~(j < m - n + 1)
        <4>1. j < m - n + 1 => events[j] < events[m - n + 1]
          BY <1>1, <3>3
        <4>2. events[j] \in Nat /\ events[m - n + 1] \in Nat
          BY <1>1, <3>3
        <4> QED BY <1>9, <3>4, <4>1, <4>2
      <3> QED BY <1>1, <1>8, <3>5
    <2> QED BY <2>1, <2>2, <2>3
  <1> QED BY <1>1, <1>2, <1>7, <1>9

-----------------------------------------------------------------------------
(* What a step of the daemon can do to what a client knows.                *)
Plain(s, t) ==
    /\ t.queue = s.queue /\ t.lagged = s.lagged
    /\ t.view = s.view /\ t.since = s.since /\ t.shown = s.shown
    /\ t.pc = "off" <=> s.pc = "off"

\* The receiver is offered u.
Gets(s, t, u) ==
    /\ t.view = s.view /\ t.since = s.since /\ t.shown = s.shown
    /\ t.pc = "off" <=> s.pc = "off"
    /\ t.pc # "off" => \/ t.queue = Append(s.queue, u) /\ t.lagged = s.lagged
                       \/ t.lagged

AllPlain == \A c \in Clients : Plain(session[c], session'[c])
AllGet(u) == \A c \in Clients : Gets(session[c], session'[c], u)

\* Each notification is shown as before, or with the event attached to it now.
ShownNow(s, t) ==
    \A n \in Nid : \/ t.shown[n] = s.shown[n]
                   \/ n \in DOMAIN active /\ t.shown[n] = active[n].event

Joined(s, t) ==
    /\ s.pc = "off"
    /\ t.queue = <<>> /\ t.view = {} /\ t.since = LastIssued + 1 /\ t.shown = NotShown

\* The client gets a snapshot.
Refreshed(s, t) ==
    /\ s.pc # "off" /\ t.pc # "off" /\ ShownNow(s, t)
    /\ t.queue = s.queue /\ t.lagged = s.lagged
    /\ \E limit \in Nat : t.view = ToSet(Recent(limit)) /\ t.since = Since(Recent(limit))

\* The client gets the first update that waits for it.
Fetched(s, t) ==
    /\ s.pc # "off" /\ t.pc # "off" /\ ShownNow(s, t)
    /\ ~s.lagged /\ t.since = s.since
    /\ s.queue # <<>> /\ t.queue = Tail(s.queue)
    /\ t.view = Applied(s.view, Head(s.queue))

OneMoves(c) ==
    /\ UNCHANGED <<storeVars, notifVars>>
    /\ \A d \in Clients \ {c} : Plain(session[d], session'[d])
    /\ \/ session'[c] = NoSession
       \/ Joined(session[c], session'[c])
       \/ Refreshed(session[c], session'[c])
       \/ Fetched(session[c], session'[c])

Moves ==
    \/ UNCHANGED storeVars /\ AllPlain
    \/ \E id \in EventId : Publish(id) /\ AllGet(Added(id))
    \/ \E id \in EventId : Dismiss(id) /\ AllGet(Removed(id))
    \/ Clear /\ AllGet(Cleared)
    \/ \E c \in Clients : OneMoves(c)

(* A step that sets one session.                                           *)
LEMMA SetsOne ==
    ASSUME DaemonTypeOK, NEW c \in Clients, NEW t, session' = [session EXCEPT ![c] = t]
    PROVE  /\ session'[c] = t
           /\ \A d \in Clients \ {c} : Plain(session[d], session'[d])
           /\ Plain(session[c], t) => AllPlain
  BY DEF DaemonTypeOK, Plain, AllPlain

(* Sending on the channel.                                                 *)
LEMMA BroadcastGets ==
    ASSUME DaemonTypeOK, NEW u \in Update(EventId)
    PROVE  /\ Broadcasted(u) \in [Clients -> Session]
           /\ \A c \in Clients : /\ Gets(session[c], Broadcasted(u)[c], u)
                                 /\ Broadcasted(u)[c].inq = session[c].inq
  <1>1. Broadcasted(u) \in [Clients -> Session]
    BY BroadcastedType
  <1>2. ASSUME NEW c \in Clients
        PROVE  Gets(session[c], Broadcasted(u)[c], u) /\ Broadcasted(u)[c].inq = session[c].inq
    <2> DEFINE s == session[c]
               o == Offered(s, u)
    <2>1. s \in Session
      BY DEF DaemonTypeOK
    <2>2. CASE s.pc # "off"
      <3>1. Broadcasted(u)[c] = o
        BY <2>2 DEF Broadcasted, Connected
      <3>2. /\ o.view = s.view /\ o.since = s.since /\ o.shown = s.shown /\ o.inq = s.inq
            /\ o.pc = s.pc
        BY <2>1 DEF Offered, Session
      <3>3. \/ o.queue = Append(s.queue, u) /\ o.lagged = s.lagged
            \/ o.lagged
        BY <2>1, OfferedType
      <3> QED BY <3>1, <3>2, <3>3 DEF Gets
    <2>3. CASE s.pc = "off"
      <3>1. Broadcasted(u)[c] = s
        BY <2>3 DEF Broadcasted, Connected
      <3> QED BY <2>3, <3>1 DEF Gets
    <2> QED BY <2>2, <2>3
  <1> QED BY <1>1, <1>2

(* Answering a request keeps what the client knows.                        *)
LEMMA AnsweringPlain ==
    ASSUME NEW s \in Session
    PROVE  /\ Answering(s).pc = "write" /\ Answering(s).queue = s.queue
           /\ Answering(s).lagged = s.lagged /\ Answering(s).view = s.view
           /\ Answering(s).since = s.since /\ Answering(s).shown = s.shown
  BY DEF Answering, Session

(* A request that removes events.                                          *)
LEMMA SocketRemovalGets ==
    ASSUME DaemonTypeOK, NEW c \in Clients, session[c].pc # "off", NEW u \in Update(EventId),
           session' = [Broadcasted(u) EXCEPT ![c] = Answering(@)]
    PROVE  AllGet(u)
  <1> DEFINE b == Broadcasted(u)
  <1>1. b \in [Clients -> Session] /\ \A d \in Clients : Gets(session[d], b[d], u)
    BY BroadcastGets
  <1>2. session'[c] = Answering(b[c]) /\ \A d \in Clients \ {c} : session'[d] = b[d]
    BY <1>1
  <1> HIDE DEF b
  <1>3. Gets(session[c], Answering(b[c]), u)
    <2>1. b[c] \in Session /\ Gets(session[c], b[c], u)
      BY <1>1
    <2>2. b[c].pc # "off"
      BY <2>1 DEF Gets
    <2> QED BY <2>1, <2>2, AnsweringPlain DEF Gets
  <1> QED BY <1>1, <1>2, <1>3 DEF AllGet

(* The requests of a client.                                               *)
LEMMA HandleMoves ==
    ASSUME NotificationIInv, DaemonTypeOK, NEW c \in Clients, Handle(c)
    PROVE  Moves
  <1>0. session[c] \in Session /\ session[c].pc = "run"
    BY DEF DaemonTypeOK, Handle, HandlePing, HandleRecent, HandleDismiss, HandleClear,
           HandleAction, HandleBad, HandleEof, Handling
  <1> DEFINE t == Answering(session[c])
  <1>1. /\ t.pc = "write" /\ t.queue = session[c].queue /\ t.lagged = session[c].lagged
        /\ t.view = session[c].view /\ t.since = session[c].since
        /\ t.shown = session[c].shown
    BY <1>0, AnsweringPlain
  <1>2. ASSUME session' = [session EXCEPT ![c] = t], UNCHANGED storeVars PROVE Moves
    <2>1. Plain(session[c], t)
      BY <1>0, <1>1 DEF Plain
    <2> HIDE DEF t
    <2> QED BY <1>2, <2>1, SetsOne DEF Moves
  <1>3. CASE HandlePing(c)
    BY <1>2, <1>3 DEF HandlePing
  <1>4. CASE HandleRecent(c)
    <2> DEFINE limit == Received(c).limit
               recent == Recent(limit)
               r == Snapshot(t, recent)
               shown == [n \in Nid |-> IF \E e \in ToSet(recent) : n \in ActiveForEvent(e)
                                       THEN active[n].event ELSE t.shown[n]]
    <2>1. /\ session[c].inq # <<>> /\ session' = [session EXCEPT ![c] = r]
          /\ UNCHANGED <<storeVars, notifVars>>
      BY <1>4 DEF HandleRecent, Handling
    <2>2. limit \in Nat
      <3>1. session[c].inq \in Seq(Sent)
        BY <1>0 DEF Session
      <3>2. Head(session[c].inq) \in Sent
        BY <2>1, <3>1, HeadTailProperties
      <3>3. Received(c) \in Requests /\ Received(c).type = "recent"
        BY <1>4, <3>2 DEF Received, Sent, HandleRecent, Handling
      <3> QED BY <3>3, RequestsAssumption DEF Request
    <2>3. t \in Session
      BY <1>0, <2>1, AnsweringType
    <2> HIDE DEF t, limit
    <2>4. r = [t EXCEPT !.view = ToSet(recent), !.since = Since(recent), !.shown = shown]
      BY DEF Snapshot, Since
    <2> HIDE DEF recent
    <2>a. \A n \in Nid : \/ shown[n] = t.shown[n]
                         \/ n \in DOMAIN active /\ shown[n] = active[n].event
      BY DEF ActiveForEvent
    <2> HIDE DEF r, shown
    <2>5. /\ r.view = ToSet(recent) /\ r.since = Since(recent) /\ r.shown = shown
          /\ r.pc = t.pc /\ r.queue = t.queue /\ r.lagged = t.lagged
      BY <2>3, <2>4 DEF Session
    <2>6. Refreshed(session[c], r)
      BY <1>0, <1>1, <2>2, <2>5, <2>a DEF Refreshed, ShownNow, recent
    <2>7. OneMoves(c)
      BY <2>1, <2>6, SetsOne DEF OneMoves
    <2> QED BY <2>7 DEF Moves
  <1>5. CASE HandleDismiss(c)
    <2>1. CASE /\ Dismiss(Received(c).id)
               /\ session' = [Broadcasted(Removed(Received(c).id)) EXCEPT ![c] = Answering(@)]
      <3> DEFINE id == Received(c).id
      <3>1. id \in EventId
        BY <2>1, StoredIsRange DEF NotificationIInv, StoreIInv, Dismiss
      <3>2. Removed(id) \in Update(EventId)
        BY <3>1, UpdateTypes
      <3>3. AllGet(Removed(id))
        BY <1>0, <2>1, <3>2, SocketRemovalGets
      <3> QED BY <2>1, <3>1, <3>3 DEF Moves
    <2>2. CASE session' = [session EXCEPT ![c] = t] /\ UNCHANGED storeVars
      BY <1>2, <2>2
    <2> QED BY <1>5, <2>1, <2>2 DEF HandleDismiss
  <1>6. CASE HandleClear(c)
    <2>1. CASE Clear /\ session' = [Broadcasted(Cleared) EXCEPT ![c] = Answering(@)]
      <3>1. AllGet(Cleared)
        BY <1>0, <2>1, UpdateTypes, SocketRemovalGets
      <3> QED BY <2>1, <3>1 DEF Moves
    <2>2. CASE session' = [session EXCEPT ![c] = t] /\ UNCHANGED storeVars
      BY <1>2, <2>2
    <2> QED BY <1>6, <2>1, <2>2 DEF HandleClear
  <1>7. CASE HandleAction(c)
    <2> DEFINE event == active[Received(c).nid].event
               r == [t EXCEPT !.pc = "emit", !.acting = event]
    <2>1. UNCHANGED storeVars /\ session[c].inq # <<>>
      BY <1>7 DEF HandleAction, Handling
    <2>2. CASE session' = [session EXCEPT ![c] = t]
      BY <1>2, <2>1, <2>2
    <2>3. CASE session' = [session EXCEPT ![c] = r]
      <3>1. t \in Session
        BY <1>0, <2>1, AnsweringType
      <3> HIDE DEF event, t
      <3>2. /\ r.pc = "emit" /\ r.queue = t.queue /\ r.lagged = t.lagged
            /\ r.view = t.view /\ r.since = t.since /\ r.shown = t.shown
        BY <3>1 DEF Session
      <3>3. Plain(session[c], r)
        BY <1>0, <1>1, <3>2 DEF Plain
      <3> HIDE DEF r
      <3> QED BY <2>1, <2>3, <3>3, SetsOne DEF Moves
    <2> QED BY <1>7, <2>2, <2>3 DEF HandleAction
  <1>8. CASE HandleBad(c) \/ HandleEof(c)
    <2>1. OneMoves(c)
      BY <1>8, SetsOne DEF HandleBad, HandleEof, EndSession, OneMoves
    <2> QED BY <2>1 DEF Moves
  <1> QED BY <1>3, <1>4, <1>5, <1>6, <1>7, <1>8 DEF Handle

(* The D-Bus methods.                                                      *)
LEMMA CallMoves ==
    ASSUME DaemonTypeOK, DBusCall
    PROVE  Moves
  <1>1. ASSUME NEW u \in Update(EventId), session' = Broadcasted(u) PROVE AllGet(u)
    BY <1>1, BroadcastGets DEF AllGet
  <1>2. ASSUME NEW id \in EventId, Publish(id), session' = Broadcasted(Added(id)) PROVE Moves
    <2>1. AllGet(Added(id))
      BY <1>1, <1>2, UpdateTypes
    <2> QED BY <1>2, <2>1 DEF Moves
  <1>3. ASSUME NEW id \in EventId, DBusDismiss(id) PROVE Moves
    <2>1. AllGet(Removed(id)) /\ Dismiss(id)
      BY <1>1, <1>3, UpdateTypes DEF DBusDismiss
    <2> QED BY <2>1 DEF Moves
  <1>4. CASE DBusClear
    <2>1. AllGet(Cleared) /\ Clear
      BY <1>1, <1>4, UpdateTypes DEF DBusClear
    <2> QED BY <2>1 DEF Moves
  <1>5. ASSUME session' = session, UNCHANGED storeVars PROVE Moves
    BY <1>5 DEF Moves, AllPlain, Plain
  <1> QED BY <1>2, <1>3, <1>4, <1>5
          DEF DBusCall, DBusPublish, Notify, NotifyPublishes, NotifyFails, NotifyWithoutNid,
              NotifyWithoutEvent, CloseNotification, Close

(* The client's steps.                                                     *)
LEMMA ClientMoves ==
    ASSUME DaemonTypeOK, NEW c \in Clients, ClientStep(c)
    PROVE  Moves
  <1>0. session[c] \in Session /\ UNCHANGED <<storeVars, notifVars>>
    BY DEF DaemonTypeOK, ClientStep, Connect, Disconnect, ClientRead, Send
  <1>1. CASE Connect(c)
    <2> DEFINE t == [NoSession EXCEPT !.pc = "write", !.since = LastIssued + 1,
                                      !.live = LastIssued]
    <2>1. /\ t.queue = <<>> /\ t.view = {} /\ t.since = LastIssued + 1
          /\ t.shown = NotShown
      BY DEF NoSession
    <2>2. session' = [session EXCEPT ![c] = t] /\ session[c].pc = "off"
      BY <1>1 DEF Connect, Connected
    <2> HIDE DEF t
    <2>3. OneMoves(c)
      BY <1>0, <2>1, <2>2, SetsOne DEF OneMoves, Joined
    <2> QED BY <2>3 DEF Moves
  <1>2. ASSUME NEW t, session' = [session EXCEPT ![c] = t], Plain(session[c], t) PROVE Moves
    BY <1>0, <1>2, SetsOne DEF Moves
  <1>3. CASE Disconnect(c)
    <2> DEFINE t == [session[c] EXCEPT !.eof = TRUE]
    <2>1. Plain(session[c], t)
      BY <1>0 DEF Session, Plain
    <2>2. session' = [session EXCEPT ![c] = t]
      BY <1>3 DEF Disconnect
    <2> HIDE DEF t
    <2> QED BY <1>2, <2>1, <2>2
  <1>4. CASE ClientRead(c)
    <2> DEFINE t == [session[c] EXCEPT !.unread = @ - 1]
    <2>1. Plain(session[c], t)
      BY <1>0 DEF Session, Plain
    <2>2. session' = [session EXCEPT ![c] = t]
      BY <1>4 DEF ClientRead
    <2> HIDE DEF t
    <2> QED BY <1>2, <2>1, <2>2
  <1>5. ASSUME NEW request \in Requests, Send(c, request) PROVE Moves
    <2> DEFINE inq == Append(session[c].inq, [req |-> request, seen |-> Seen(c, request)])
               t == [session[c] EXCEPT !.inq = inq]
    <2>1. session' = [session EXCEPT ![c] = t]
      BY <1>5 DEF Send
    <2> HIDE DEF inq
    <2>2. Plain(session[c], t)
      BY <1>0 DEF Session, Plain
    <2> HIDE DEF t
    <2> QED BY <1>2, <2>1, <2>2
  <1> QED BY <1>1, <1>3, <1>4, <1>5 DEF ClientStep

(* A live update is turned into a frame.                                   *)
LEMMA RecvMoves ==
    ASSUME DaemonTypeOK, NEW c \in Clients, Recv(c)
    PROVE  Moves
  <1> DEFINE s == session[c]
             d == Dequeued(s)
             u == Head(s.queue)
             t == Delivered(d, u)
  <1>1. /\ s \in Session /\ s.pc = "run" /\ ~s.lagged /\ s.queue # <<>>
        /\ UNCHANGED <<storeVars, notifVars>>
        /\ session' = [session EXCEPT ![c] = t]
    BY DEF Recv, DaemonTypeOK
  <1>2. s.queue \in Seq(Update(EventId))
    BY <1>1 DEF Session
  <1>3. u \in Update(EventId) /\ Tail(s.queue) \in Seq(Update(EventId))
    BY <1>1, <1>2, HeadTailProperties
  <1>4. /\ d \in Session /\ d.pc = "write" /\ d.queue = Tail(s.queue)
        /\ d.view = s.view /\ d.since = s.since /\ d.shown = s.shown
    BY <1>1, <1>3 DEF Session, Dequeued
  <1> HIDE DEF d, u
  <1>5. /\ t.pc = d.pc /\ t.queue = d.queue /\ t.since = d.since
        /\ t.view = Applied(d.view, u)
        /\ \A n \in Nid : \/ t.shown[n] = d.shown[n]
                          \/ n \in DOMAIN active /\ t.shown[n] = active[n].event
    <2>1. CASE u.kind = "added"
      <3> DEFINE shown == [n \in Nid |-> IF n \in ActiveForEvent(u.id) THEN u.id
                                         ELSE d.shown[n]]
      <3>1. t = [d EXCEPT !.view = d.view \cup {u.id}, !.live = u.id, !.shown = shown]
        BY <2>1 DEF Delivered
      <3>2. \A n \in Nid : \/ shown[n] = d.shown[n]
                           \/ n \in DOMAIN active /\ shown[n] = active[n].event
        BY DEF ActiveForEvent
      <3> HIDE DEF shown
      <3>3. /\ t.pc = d.pc /\ t.queue = d.queue /\ t.since = d.since
            /\ t.view = d.view \cup {u.id} /\ t.shown = shown
        BY <1>4, <3>1 DEF Session
      <3> QED BY <2>1, <3>2, <3>3 DEF Applied
    <2>2. CASE u.kind = "removed"
      BY <1>4, <2>2 DEF Delivered, Applied, Session
    <2>3. CASE u.kind = "cleared"
      BY <1>4, <2>3 DEF Delivered, Applied, Session
    <2> QED BY <1>3, <2>1, <2>2, <2>3 DEF Update, Cleared
  <1> HIDE DEF t
  <1>6. Fetched(s, t)
    BY <1>1, <1>4, <1>5 DEF Fetched, ShownNow, u
  <1>7. OneMoves(c)
    BY <1>1, <1>6, SetsOne DEF OneMoves
  <1> QED BY <1>7 DEF Moves

(* Every step of the daemon.                                               *)
LEMMA StepMoves ==
    ASSUME NotificationIInv, DaemonTypeOK, BusInv, [Next]_vars
    PROVE  Moves
  <1>1. ASSUME session' = session, UNCHANGED storeVars PROVE Moves
    BY <1>1 DEF Moves, AllPlain, Plain
  <1>2. CASE Flush
    <2>1. ASSUME NEW c \in Clients, session' = [session EXCEPT ![c].pc = "write"],
                 session[c].pc # "off", UNCHANGED storeVars
          PROVE  Moves
      <3> DEFINE t == [session[c] EXCEPT !.pc = "write"]
      <3>1. Plain(session[c], t)
        BY <2>1 DEF DaemonTypeOK, Session, Plain
      <3>2. session' = [session EXCEPT ![c] = t]
        BY <2>1
      <3> HIDE DEF t
      <3> QED BY <2>1, <3>1, <3>2, SetsOne DEF Moves
    <2>2. Head(bus).owner \in Clients => session[Head(bus).owner].pc = "sent"
      <3>1. 1 \in 1..Len(bus) /\ Head(bus) = bus[1]
        BY <1>2, EmptySeq, HeadTailProperties, LenProperties DEF Flush, DaemonTypeOK
      <3> QED BY <3>1 DEF BusInv
    <2> QED BY <1>1, <1>2, <2>1, <2>2 DEF Flush
  <1>3. CASE BusLost \/ UNCHANGED vars
    BY <1>1, <1>3 DEF BusLost, vars
  <1>4. ASSUME NEW c \in Clients, Serve(c) PROVE Moves
    <2>0. session[c] \in Session
      BY DEF DaemonTypeOK
    <2>1. CASE EmitFails(c) \/ RecvLagged(c) \/ WriteFails(c)
      <3>1. OneMoves(c)
        BY <2>1, SetsOne DEF EmitFails, RecvLagged, WriteFails, EndSession, OneMoves
      <3> QED BY <3>1 DEF Moves
    <2>2. ASSUME NEW t, session' = [session EXCEPT ![c] = t], Plain(session[c], t),
                 UNCHANGED storeVars
          PROVE  Moves
      BY <2>2, SetsOne DEF Moves
    <2>3. CASE EmitAction(c)
      <3> DEFINE t == [session[c] EXCEPT !.pc = "sent", !.acting = 0]
      <3>1. Plain(session[c], t)
        BY <2>0, <2>3 DEF Session, Plain, EmitAction
      <3>2. session' = [session EXCEPT ![c] = t] /\ UNCHANGED storeVars
        BY <2>3 DEF EmitAction, DaemonTypeOK
      <3> HIDE DEF t
      <3> QED BY <2>2, <3>1, <3>2
    <2>4. CASE WriteFrame(c)
      <3> DEFINE t == [session[c] EXCEPT !.pc = "run", !.unread = @ + 1]
      <3>1. Plain(session[c], t)
        BY <2>0, <2>4 DEF Session, Plain, WriteFrame
      <3>2. session' = [session EXCEPT ![c] = t] /\ UNCHANGED storeVars
        BY <2>4 DEF WriteFrame
      <3> HIDE DEF t
      <3> QED BY <2>2, <3>1, <3>2
    <2> QED BY <1>4, <2>1, <2>3, <2>4, HandleMoves, RecvMoves DEF Serve
  <1> QED BY <1>2, <1>3, <1>4, CallMoves, ClientMoves DEF Next

-----------------------------------------------------------------------------
(* The client's list.  MirrorConverges for one session; to be inductive it *)
(* lacks that the updates which wait take no stored event away, whatever   *)
(* the client lists now: a snapshot is taken of the store as it is, and    *)
(* the updates that were already waiting are applied to it afterwards.     *)
Mirrors(s) ==
    /\ \A i \in Stored : i >= s.since => Lists(s.view, s.queue, i)
    /\ \A i \in EventId : Lists(s.view, s.queue, i) => i \in Stored \cup evicted
    /\ \A i \in Stored : Lists(EventId, s.queue, i)

MirrorInv == \A c \in Clients : Connected(c) /\ ~session[c].lagged => Mirrors(session[c])

(* One step of one session.                                                *)
LEMMA MirrorStep ==
    ASSUME NotificationIInv, DaemonTypeOK, MirrorInv, Moves
    PROVE  MirrorInv'
  <1>1. /\ StoreIInv
        /\ Stored \subseteq EventId /\ Stored = ToSet(events)
        /\ LastIssued \in Nat /\ \A i \in Stored : i <= LastIssued
        /\ \A c \in Clients : /\ session[c] \in Session
                              /\ session[c].queue \in Seq(Update(EventId))
    BY StoredIsRange DEF NotificationIInv, StoreIInv, StoreInv, DaemonTypeOK, Session, Stored
  <1> DEFINE Holds(c) == Connected(c)' /\ ~session'[c].lagged => Mirrors(session[c])'
  <1> SUFFICES ASSUME NEW c \in Clients PROVE Holds(c)
    BY DEF MirrorInv
  <1> DEFINE s == session[c]
             t == session'[c]
  <1>2. s.pc # "off" /\ ~s.lagged => Mirrors(s)
    BY DEF MirrorInv, Connected
  <1>3. s \in Session /\ s.queue \in Seq(Update(EventId))
    BY <1>1
  <1>4. Holds(c) <=> (t.pc # "off" /\ ~t.lagged =>
          /\ \A i \in Stored' : i >= t.since => Lists(t.view, t.queue, i)
          /\ \A i \in EventId : Lists(t.view, t.queue, i) => i \in Stored' \cup evicted'
          /\ \A i \in Stored' : Lists(EventId, t.queue, i))
    BY DEF Connected, Mirrors
  <1> HIDE DEF s, t, Holds
  <1>5. ASSUME UNCHANGED storeVars PROVE Stored' = Stored /\ evicted' = evicted
    BY <1>5 DEF storeVars, Stored
  <1>6. ASSUME UNCHANGED storeVars, Plain(s, t) PROVE Holds(c)
    BY <1>2, <1>4, <1>5, <1>6 DEF Plain, Mirrors
  \* Every receiver is offered u.
  <1>7. ASSUME NEW u \in Update(EventId), Gets(s, t, u), t.pc # "off", ~t.lagged
        PROVE  /\ Mirrors(s) /\ t.view = s.view /\ t.since = s.since
               /\ \A i \in EventId :
                     /\ Lists(t.view, t.queue, i) <=>
                           u = Added(i) \/ (Lists(s.view, s.queue, i) /\ ~Drops(u, i))
                     /\ Lists(EventId, t.queue, i) <=>
                           u = Added(i) \/ (Lists(EventId, s.queue, i) /\ ~Drops(u, i))
    <2>1. /\ Mirrors(s) /\ t.view = s.view /\ t.since = s.since
          /\ t.queue = Append(s.queue, u)
      BY <1>2, <1>7 DEF Gets
    <2>2. ASSUME NEW view, NEW i \in EventId
          PROVE  Lists(view, t.queue, i) <=>
                   u = Added(i) \/ (Lists(view, s.queue, i) /\ ~Drops(u, i))
      BY <1>3, <2>1, ListsAppend
    <2>3. \A i \in EventId : Lists(s.view, t.queue, i) <=>
             u = Added(i) \/ (Lists(s.view, s.queue, i) /\ ~Drops(u, i))
      BY <2>2
    <2>4. \A i \in EventId : Lists(EventId, t.queue, i) <=>
             u = Added(i) \/ (Lists(EventId, s.queue, i) /\ ~Drops(u, i))
      BY <2>2
    <2> QED BY <2>1, <2>3, <2>4
  <1>8. ASSUME NEW id \in EventId, Publish(id), Gets(s, t, Added(id)) PROVE Holds(c)
    <2>1. /\ Stored \cup {id} \subseteq Stored' \cup evicted'
          /\ evicted \subseteq evicted' /\ Stored' \subseteq Stored \cup {id}
      BY <1>1, <1>8, PublishKeepsTrack
    <2>2. SUFFICES ASSUME t.pc # "off", ~t.lagged PROVE Holds(c)
      BY <1>4
    <2>3. /\ Mirrors(s) /\ t.view = s.view /\ t.since = s.since
          /\ \A i \in EventId :
                /\ Lists(t.view, t.queue, i) <=>
                      Added(id) = Added(i) \/ (Lists(s.view, s.queue, i) /\ ~Drops(Added(id), i))
                /\ Lists(EventId, t.queue, i) <=>
                      Added(id) = Added(i) \/ (Lists(EventId, s.queue, i) /\ ~Drops(Added(id), i))
      BY <1>7, <1>8, <2>2, UpdateTypes
    <2>4. \A i \in EventId : (Added(id) = Added(i) <=> i = id) /\ ~Drops(Added(id), i)
      BY DEF Added, Drops, Removed, Cleared
    <2>5. /\ \A i \in EventId : Lists(t.view, t.queue, i) <=> i = id \/ Lists(s.view, s.queue, i)
          /\ \A i \in EventId : Lists(EventId, t.queue, i) <=> i = id \/ Lists(EventId, s.queue, i)
      BY <2>3, <2>4
    <2> QED BY <1>1, <1>4, <2>1, <2>3, <2>5 DEF Mirrors
  <1>9. ASSUME NEW id \in EventId, Dismiss(id), Gets(s, t, Removed(id)) PROVE Holds(c)
    <2>1. Stored' = Stored \ {id} /\ evicted' = evicted
      BY <1>1, <1>9, DismissIInv DEF Dismiss
    <2>2. SUFFICES ASSUME t.pc # "off", ~t.lagged PROVE Holds(c)
      BY <1>4
    <2>3. /\ Mirrors(s) /\ t.view = s.view /\ t.since = s.since
          /\ \A i \in EventId :
                /\ Lists(t.view, t.queue, i) <=>
                      Removed(id) = Added(i) \/ (Lists(s.view, s.queue, i) /\ ~Drops(Removed(id), i))
                /\ Lists(EventId, t.queue, i) <=>
                      Removed(id) = Added(i) \/ (Lists(EventId, s.queue, i) /\ ~Drops(Removed(id), i))
      BY <1>7, <1>9, <2>2, UpdateTypes
    <2>4. \A i \in EventId : Removed(id) # Added(i) /\ (Drops(Removed(id), i) <=> i = id)
      BY DEF Added, Drops, Removed, Cleared
    <2>5. /\ \A i \in EventId : Lists(t.view, t.queue, i) <=> i # id /\ Lists(s.view, s.queue, i)
          /\ \A i \in EventId : Lists(EventId, t.queue, i) <=> i # id /\ Lists(EventId, s.queue, i)
      BY <2>3, <2>4
    <2> QED BY <1>1, <1>4, <2>1, <2>3, <2>5 DEF Mirrors
  <1>10. ASSUME Clear, Gets(s, t, Cleared) PROVE Holds(c)
    <2>1. Stored' = {} /\ evicted' = evicted
      BY <1>1, <1>10, ClearIInv DEF Clear
    <2>2. SUFFICES ASSUME t.pc # "off", ~t.lagged PROVE Holds(c)
      BY <1>4
    <2>3. \A i \in EventId : Lists(t.view, t.queue, i) <=>
             Cleared = Added(i) \/ (Lists(s.view, s.queue, i) /\ ~Drops(Cleared, i))
      BY <1>7, <1>10, <2>2, UpdateTypes
    <2>4. \A i \in EventId : Cleared # Added(i) /\ Drops(Cleared, i)
      BY DEF Added, Drops, Cleared
    <2>5. \A i \in EventId : ~Lists(t.view, t.queue, i)
      BY <2>3, <2>4
    <2> QED BY <1>4, <2>1, <2>5
  <1>11. ASSUME UNCHANGED storeVars, t = NoSession PROVE Holds(c)
    BY <1>4, <1>11 DEF NoSession
  <1>12. ASSUME UNCHANGED storeVars, Joined(s, t) PROVE Holds(c)
    <2>1. t.queue = <<>> /\ t.view = {} /\ t.since = LastIssued + 1
      BY <1>12 DEF Joined
    <2>2. Len(<<>>) = 0 /\ 1..0 = {}
      BY EmptySeq
    <2>3. \A i \in EventId : ~Lists({}, <<>>, i) /\ Lists(EventId, <<>>, i)
      BY <2>2 DEF Lists
    <2>4. \A i \in Stored : ~(i >= LastIssued + 1)
      BY <1>1 DEF EventId
    <2> QED BY <1>1, <1>4, <1>5, <1>12, <2>1, <2>3, <2>4
  <1>13. ASSUME UNCHANGED storeVars, Refreshed(s, t) PROVE Holds(c)
    <2>1. SUFFICES ASSUME ~t.lagged PROVE Holds(c)
      BY <1>4
    <2>2. PICK limit \in Nat : t.view = ToSet(Recent(limit)) /\ t.since = Since(Recent(limit))
      BY <1>13 DEF Refreshed
    <2>3. t.queue = s.queue /\ Mirrors(s)
      BY <1>2, <1>13, <2>1 DEF Refreshed
    <2>4. /\ t.view \subseteq Stored
          /\ \A i \in Stored : i >= t.since => i \in t.view
      BY <1>1, <2>2, RecentWindow
    <2>5. ASSUME NEW i \in Stored, i >= t.since PROVE Lists(t.view, t.queue, i)
      <3>1. Lists(EventId, s.queue, i) /\ i \in t.view
        BY <2>3, <2>4, <2>5 DEF Mirrors
      <3> QED BY <2>3, <3>1, ListsMonotone
    <2>6. ASSUME NEW i \in EventId, Lists(t.view, t.queue, i) PROVE i \in Stored \cup evicted
      <3>1. CASE i \in Stored
        BY <3>1
      <3>2. CASE i \notin Stored
        <4>1. i \in t.view => i \in s.view
          BY <2>4, <3>2
        <4>2. Lists(s.view, s.queue, i)
          BY <2>3, <2>6, <4>1, ListsMonotone
        <4> QED BY <2>3, <4>2 DEF Mirrors
      <3> QED BY <3>1, <3>2
    <2> QED BY <1>4, <1>5, <1>13, <2>3, <2>5, <2>6 DEF Mirrors
  <1>14. ASSUME UNCHANGED storeVars, Fetched(s, t) PROVE Holds(c)
    <2>1. /\ t.view = Applied(s.view, Head(s.queue)) /\ t.queue = Tail(s.queue)
          /\ t.since = s.since /\ s.queue # <<>> /\ Mirrors(s)
      BY <1>2, <1>14 DEF Fetched
    <2>2. \A i \in EventId : Lists(t.view, t.queue, i) <=> Lists(s.view, s.queue, i)
      BY <1>3, <2>1, ListsTail
    <2>3. ASSUME NEW i \in EventId, Lists(EventId, s.queue, i) PROVE Lists(EventId, t.queue, i)
      <3>1. Lists(Applied(EventId, Head(s.queue)), t.queue, i)
        BY <1>3, <2>1, <2>3, ListsTail
      <3> QED BY <3>1, ListsMonotone
    <2> QED BY <1>1, <1>4, <1>5, <1>14, <2>1, <2>2, <2>3 DEF Mirrors
  <1>15. ASSUME NEW d \in Clients, OneMoves(d) PROVE Holds(c)
    <2>1. UNCHANGED storeVars
      BY <1>15 DEF OneMoves
    <2>2. c # d => Plain(s, t)
      BY <1>15 DEF OneMoves, s, t
    <2>3. c = d => t = NoSession \/ Joined(s, t) \/ Refreshed(s, t) \/ Fetched(s, t)
      BY <1>15 DEF OneMoves, s, t
    <2> QED BY <1>6, <1>11, <1>12, <1>13, <1>14, <2>1, <2>2, <2>3
  <1>16. /\ AllPlain => Plain(s, t)
         /\ \A u : AllGet(u) => Gets(s, t, u)
    BY DEF AllPlain, AllGet, s, t
  <1> QED BY <1>6, <1>8, <1>9, <1>10, <1>15, <1>16 DEF Moves

(* The list of every session mirrors the store.                            *)
LEMMA MirrorInvariant == Spec => [](IInv /\ MirrorInv)
  <1>1. Init => MirrorInv
    BY DEF Init, MirrorInv, Connected, NoSession
  <1>2. IInv /\ MirrorInv /\ [Next]_vars => MirrorInv'
    BY StepMoves, MirrorStep DEF IInv
  <1> QED BY <1>1, <1>2, DaemonFeedInvariant, PTL DEF Spec

(* Once the updates that wait for it are applied, a client that lost none  *)
(* lists every stored event from since on, and nothing but stored and      *)
(* evicted events, whatever snapshots and updates it was sent before.      *)
THEOREM MirrorsConverge == Spec => []MirrorConverges
  <1>1. ASSUME IInv, MirrorInv PROVE MirrorConverges
    <2> SUFFICES ASSUME NEW c \in Clients, Connected(c), ~session[c].lagged
                 PROVE  LET list == Settled(session[c].view, session[c].queue)
                        IN  /\ {i \in Stored : i >= session[c].since} \subseteq list
                            /\ list \subseteq Stored \cup evicted
      BY DEF MirrorConverges
    <2> DEFINE view == session[c].view
               q == session[c].queue
    <2>1. q \in Seq(Update(EventId)) /\ Stored \subseteq EventId
      BY <1>1, StoredIsRange
         DEF IInv, NotificationIInv, StoreIInv, DaemonTypeOK, Session
    <2>2. Mirrors(session[c])
      BY <1>1 DEF MirrorInv
    <2>3. \A i \in EventId : i \in Settled(view, q) <=> Lists(view, q, i)
      BY <2>1, InSettled
    <2>4. Settled(view, q) \subseteq EventId
      BY DEF Settled
    <2> QED BY <2>1, <2>2, <2>3, <2>4 DEF Mirrors
  <1> QED BY <1>1, MirrorInvariant, PTL

-----------------------------------------------------------------------------
(* The notifications that are shown.  No client was shown an event that is *)
(* newer than the one the notification is attached to now.                 *)
ShownInv ==
    \A c \in Clients, n \in Nid :
        /\ session[c].shown[n] <= LastIssued
        /\ n \in DOMAIN active => session[c].shown[n] <= active[n].event

(* A notification that is attached to another event than before got the    *)
(* newest one.                                                             *)
LEMMA ActiveStep ==
    ASSUME NotificationIInv, [NotificationNext]_notificationVars, NEW n \in DOMAIN active'
    PROVE  \/ n \in DOMAIN active /\ active'[n] = active[n]
           \/ active'[n].event = LastIssued'
  <1>1. ASSUME NEW replaces, NEW keys, NEW nid, NEW id \in EventId,
               NotifyPublishes(replaces, keys, nid, id)
        PROVE  \/ n \in DOMAIN active /\ active'[n] = active[n]
               \/ active'[n].event = LastIssued'
    <2>1. id = LastIssued'
      BY <1>1, PublishIInv DEF NotifyPublishes, NotificationIInv
    <2>2. /\ DOMAIN active' = DOMAIN active \cup {nid}
          /\ active'[n] = IF n = nid THEN [event |-> id, keys |-> keys] ELSE active[n]
      BY <1>1 DEF NotifyPublishes, Inserted
    <2> QED BY <2>1, <2>2
  <1>2. ASSUME NEW nid, Close(nid)
        PROVE  n \in DOMAIN active /\ active'[n] = active[n]
    BY <1>2 DEF Close, Removing, Restrict
  <1>3. ASSUME active' = active PROVE n \in DOMAIN active /\ active'[n] = active[n]
    BY <1>3
  <1> QED BY <1>1, <1>2, <1>3
          DEF NotificationNext, NotifyWithoutNid, NotifyWithoutEvent, notifVars, notificationVars

(* What one step does to what one client was shown.                        *)
LEMMA ShownMoves ==
    ASSUME Moves, NEW c \in Clients
    PROVE  \/ session'[c].shown = session[c].shown
           \/ session'[c].shown = NotShown /\ (session'[c].pc = "off" \/ session[c].pc = "off")
           \/ UNCHANGED <<storeVars, notifVars>> /\ ShownNow(session[c], session'[c])
  <1>1. CASE AllPlain \/ \E u : AllGet(u)
    BY <1>1 DEF AllPlain, AllGet, Plain, Gets
  <1>2. ASSUME NEW d \in Clients, OneMoves(d)
        PROVE  \/ session'[c].shown = session[c].shown
               \/ session'[c].shown = NotShown /\ (session'[c].pc = "off" \/ session[c].pc = "off")
               \/ UNCHANGED <<storeVars, notifVars>> /\ ShownNow(session[c], session'[c])
    BY <1>2 DEF OneMoves, Plain, NoSession, Joined, Refreshed, Fetched
  <1> QED BY <1>1, <1>2 DEF Moves

(* ShownInv is kept, and what a session was shown only moves forward.      *)
LEMMA ShownStep ==
    ASSUME NotificationIInv, DaemonTypeOK, DaemonTypeOK', BusInv, ShownInv, [Next]_vars
    PROVE  /\ ShownInv'
           /\ \A c \in Clients, n \in Nid : Connected(c) /\ Connected(c)' =>
                 session'[c].shown[n] >= session[c].shown[n]
  <1> DEFINE last == LastIssued
  <1>1. /\ last \in Nat /\ last' \in Nat /\ last <= last'
        /\ \A n \in DOMAIN active : active[n].event <= last /\ active[n].event \in Nat
        /\ NotificationIInv'
    <2>1. [NotificationNext]_notificationVars /\ [StoreNext]_storeVars
      BY DaemonStepsStores, NotificationStepsStore DEF NotificationIInv, StoreIInv
    <2> QED BY <2>1, StoreStep, NotificationStep
            DEF NotificationIInv, OneActivePerEvent, NotificationTypeOK, Entry, EventId
  <1>2. /\ \A c \in Clients, n \in Nid : session[c].shown[n] \in Nat
        /\ \A c \in Clients, n \in Nid : session'[c].shown[n] \in Nat
    <2>1. \A s \in Session, n \in Nid : s.shown[n] \in Nat
      BY DEF Session, EventId
    <2>2. \A c \in Clients : session[c] \in Session /\ session'[c] \in Session
      BY DEF DaemonTypeOK
    <2> HIDE DEF last
    <2> QED BY <2>1, <2>2
  <1>3. /\ \A n \in DOMAIN active' : \/ n \in DOMAIN active /\ active'[n] = active[n]
                                     \/ active'[n].event = last'
        /\ \A n \in DOMAIN active' : active'[n].event \in Nat
    <2>1. \A n \in DOMAIN active' : active'[n].event \in Nat
      BY <1>1 DEF NotificationIInv, NotificationTypeOK, Entry, EventId
    <2> QED BY <2>1, ActiveStep, DaemonStepsStores DEF NotificationIInv, StoreIInv
  <1>4. SUFFICES ASSUME NEW c \in Clients, NEW n \in Nid
                 PROVE  /\ session'[c].shown[n] <= last'
                        /\ n \in DOMAIN active' => session'[c].shown[n] <= active'[n].event
                        /\ Connected(c) /\ Connected(c)' =>
                              session'[c].shown[n] >= session[c].shown[n]
    BY DEF ShownInv
  <1> DEFINE old == session[c].shown[n]
             new == session'[c].shown[n]
  <1>5. /\ old \in Nat /\ new \in Nat /\ old <= last
        /\ n \in DOMAIN active => old <= active[n].event
    BY <1>2 DEF ShownInv
  <1>6. \/ new = old
        \/ new = 0 /\ ~(Connected(c) /\ Connected(c)')
        \/ /\ last' = last /\ active' = active
           /\ new = old \/ (n \in DOMAIN active /\ new = active[n].event)
    <2>1. UNCHANGED <<storeVars, notifVars>> => last' = last /\ active' = active
      BY DEF storeVars, notifVars, LastIssued
    <2>2. NotShown[n] = 0
      BY DEF NotShown
    <2> QED BY <2>1, <2>2, StepMoves, ShownMoves DEF ShownNow, Connected
  <1> HIDE DEF last, old, new
  <1>7. CASE new = old
    <2>1. new <= last'
      BY <1>1, <1>5, <1>7
    <2>2. n \in DOMAIN active' => new <= active'[n].event
      BY <1>3, <1>5, <1>7, <2>1
    <2>3. new >= old
      BY <1>5, <1>7
    <2> QED BY <2>1, <2>2, <2>3 DEF old, new
  <1>8. CASE new = 0 /\ ~(Connected(c) /\ Connected(c)')
    BY <1>1, <1>3, <1>8 DEF new
  <1>9. CASE last' = last /\ active' = active /\ n \in DOMAIN active /\ new = active[n].event
    BY <1>1, <1>5, <1>9 DEF old, new
  <1> QED BY <1>6, <1>7, <1>8, <1>9

(* At first nothing was shown.                                             *)
LEMMA ShownInit == Init => ShownInv
  <1>1. ASSUME Init, NEW c \in Clients, NEW n \in Nid
        PROVE  session[c].shown[n] = 0 /\ LastIssued = 0 /\ n \notin DOMAIN active
    BY <1>1 DEF Init, NoSession, NotShown, StoreInit, NotificationInit, LastIssued, None
  <1> QED BY <1>1 DEF ShownInv

(* No notification is shown with an older event after a newer one, during  *)
(* a session.                                                              *)
THEOREM ShownOnlyNewer == Spec => ActionableOnlyNewest
  <1>1. Init => ShownInv
    BY ShownInit
  <1>2. IInv /\ IInv' /\ ShownInv /\ [Next]_vars => ShownInv'
    BY ShownStep DEF IInv
  <1>3. IInv /\ IInv' /\ ShownInv /\ [Next]_vars =>
          [\A c \in Clients, n \in Nid : Connected(c) /\ Connected(c)' =>
              session'[c].shown[n] >= session[c].shown[n]]_vars
    BY ShownStep DEF IInv
  <1> QED BY <1>1, <1>2, <1>3, DaemonFeedInvariant, PTL DEF Spec, ActionableOnlyNewest

-----------------------------------------------------------------------------
(* The requests that wait.                                                 *)

(* Only answering a request takes it from the inbox.                       *)
LEMMA InboxKept ==
    ASSUME NEW s \in Session
    PROVE  /\ \A u \in Update(EventId) : Offered(s, u).inq = s.inq
           /\ Answering(s).inq = Tail(s.inq)
           /\ Dequeued(s).inq = s.inq
           /\ \A u \in Update(EventId) : Delivered(s, u).inq = s.inq
           /\ \A recent : Snapshot(s, recent).inq = s.inq
           /\ NoSession.inq = <<>>
  <1>1. \A u \in Update(EventId) : Offered(s, u).inq = s.inq
    BY DEF Offered, Session
  <1>2. Answering(s).inq = Tail(s.inq) /\ Dequeued(s).inq = s.inq
    BY DEF Answering, Dequeued, Session
  <1>3. \A u \in Update(EventId) : Delivered(s, u).inq = s.inq
    BY DEF Delivered, Session, Update, Cleared
  <1>4. \A recent : Snapshot(s, recent).inq = s.inq
    BY DEF Snapshot, Session
  <1>5. NoSession.inq = <<>>
    BY DEF NoSession
  <1> QED BY <1>1, <1>2, <1>3, <1>4, <1>5

\* What a step can do to the inbox of a session.
Asks(s, t, c) ==
    \/ t.inq = s.inq
    \/ t.inq = <<>>
    \/ s.inq # <<>> /\ t.inq = Tail(s.inq)
    \/ \E request \in Requests : t.inq = Append(s.inq, [req |-> request, seen |-> Seen(c, request)])

(* The requests of the client c, as they are handled.                      *)
LEMMA HandleInbox ==
    ASSUME NotificationIInv, DaemonTypeOK, NEW c \in Clients, Handle(c), NEW d \in Clients
    PROVE  Asks(session[d], session'[d], d)
  <1>1. session \in [Clients -> Session] /\ session[d] \in Session /\ session[c] \in Session
    BY DEF DaemonTypeOK
  <1> DEFINE t == Answering(session[c])
  <1>2. ASSUME session[c].inq # <<>> PROVE t \in Session /\ t.inq = Tail(session[c].inq)
    BY <1>1, <1>2, AnsweringType, InboxKept
  <1>3. ASSUME NEW u \in Session, session' = [session EXCEPT ![c] = u],
               session[c].inq # <<>>, u.inq = Tail(session[c].inq)
        PROVE  Asks(session[d], session'[d], d)
    BY <1>1, <1>3 DEF Asks
  <1>4. CASE HandlePing(c)
    BY <1>2, <1>3, <1>4 DEF HandlePing, Handling
  <1>5. CASE HandleRecent(c)
    <2>1. PICK recent : session' = [session EXCEPT ![c] = Snapshot(t, recent)]
      BY <1>5 DEF HandleRecent
    <2>2. session[c].inq # <<>>
      BY <1>5 DEF HandleRecent, Handling
    <2>3. Snapshot(t, recent).inq = Tail(session[c].inq)
      BY <1>2, <2>2, InboxKept
    <2> HIDE DEF t
    <2> QED BY <1>1, <2>1, <2>2, <2>3 DEF Asks
  <1>6. ASSUME NEW u \in Update(EventId), session[c].inq # <<>>,
               session' = [Broadcasted(u) EXCEPT ![c] = Answering(@)]
        PROVE  Asks(session[d], session'[d], d)
    <2>1. /\ Broadcasted(u) \in [Clients -> Session]
          /\ \A e \in Clients : Broadcasted(u)[e].inq = session[e].inq
      BY <1>1, BroadcastedType, InboxKept DEF Broadcasted, DaemonTypeOK
    <2>2. session' = [Broadcasted(u) EXCEPT ![c] = Answering(Broadcasted(u)[c])]
      BY <1>6, <2>1
    <2>3. Answering(Broadcasted(u)[c]).inq = Tail(session[c].inq)
      BY <2>1, InboxKept
    <2>4. d # c => session'[d] = Broadcasted(u)[d]
      BY <2>1, <2>2
    <2>5. session'[c] = Answering(Broadcasted(u)[c])
      BY <2>1, <2>2
    <2> QED BY <1>6, <2>1, <2>3, <2>4, <2>5 DEF Asks
  <1>7. CASE HandleDismiss(c)
    <2>1. session[c].inq # <<>>
      BY <1>7 DEF HandleDismiss, Handling
    <2>2. CASE session' = [session EXCEPT ![c] = Answering(@)]
      BY <1>2, <1>3, <2>1, <2>2
    <2>3. CASE /\ Dismiss(Received(c).id)
               /\ session' = [Broadcasted(Removed(Received(c).id)) EXCEPT ![c] = Answering(@)]
      <3>1. Received(c).id \in EventId
        BY <2>3, StoredIsRange DEF NotificationIInv, StoreIInv, Dismiss
      <3>2. Removed(Received(c).id) \in Update(EventId)
        BY <3>1, UpdateTypes
      <3> QED BY <1>6, <2>1, <2>3, <3>2
    <2> QED BY <1>7, <2>2, <2>3 DEF HandleDismiss
  <1>8. CASE HandleClear(c)
    <2>1. session[c].inq # <<>> /\ Cleared \in Update(EventId)
      BY <1>8, UpdateTypes DEF HandleClear, Handling
    <2> QED BY <1>2, <1>3, <1>6, <1>8, <2>1 DEF HandleClear
  <1>9. CASE HandleAction(c)
    <2> DEFINE event == active[Received(c).nid].event
    <2>1. session[c].inq # <<>>
      BY <1>9 DEF HandleAction, Handling
    <2>2. \/ session' = [session EXCEPT ![c] = t]
          \/ session' = [session EXCEPT ![c] = [t EXCEPT !.pc = "emit", !.acting = event]]
      BY <1>9 DEF HandleAction
    <2> HIDE DEF event
    <2>3. [t EXCEPT !.pc = "emit", !.acting = event].inq = t.inq
      BY <1>2, <2>1 DEF Session
    <2> HIDE DEF t
    <2> QED BY <1>1, <1>2, <2>1, <2>2, <2>3 DEF Asks
  <1>10. CASE HandleBad(c) \/ HandleEof(c)
    BY <1>1, <1>10, InboxKept DEF HandleBad, HandleEof, EndSession, Asks
  <1> QED BY <1>4, <1>5, <1>7, <1>8, <1>9, <1>10 DEF Handle

(* Every step: the client appends what it asks, the session takes requests *)
(* in their order, and the end of the session drops them.                  *)
LEMMA InboxStep ==
    ASSUME NotificationIInv, DaemonTypeOK, [Next]_vars, NEW d \in Clients
    PROVE  Asks(session[d], session'[d], d)
  <1>1. /\ session \in [Clients -> Session]
        /\ \A c \in Clients : session[c] \in Session
    BY DEF DaemonTypeOK
  <1>2. ASSUME session' = session PROVE Asks(session[d], session'[d], d)
    BY <1>2 DEF Asks
  <1>3. ASSUME NEW c \in Clients, NEW t, session' = [session EXCEPT ![c] = t],
               t.inq = session[c].inq \/ t.inq = <<>>
        PROVE  Asks(session[d], session'[d], d)
    BY <1>1, <1>3 DEF Asks
  <1>4. CASE DBusCall
    <2>1. ASSUME NEW u \in Update(EventId), session' = Broadcasted(u)
          PROVE  Asks(session[d], session'[d], d)
      BY <1>1, <2>1, InboxKept DEF Broadcasted, Asks
    <2>2. \/ \E u \in Update(EventId) : session' = Broadcasted(u)
          \/ session' = session
      BY <1>4, UpdateTypes DEF DBusCall, DBusPublish, DBusDismiss, DBusClear, Notify,
                               NotifyFails, CloseNotification
    <2> QED BY <1>2, <2>1, <2>2
  <1>5. CASE Flush
    <2>1. \/ session' = session
          \/ \E c \in Clients : session' = [session EXCEPT ![c].pc = "write"]
      BY <1>5 DEF Flush
    <2>2. ASSUME NEW c \in Clients, session' = [session EXCEPT ![c].pc = "write"]
          PROVE  session'[d].inq = session[d].inq
      BY <1>1, <2>2 DEF Session
    <2> QED BY <1>2, <2>1, <2>2 DEF Asks
  <1>6. CASE BusLost \/ UNCHANGED vars
    BY <1>2, <1>6 DEF BusLost, vars
  <1>7. ASSUME NEW c \in Clients, ClientStep(c) PROVE Asks(session[d], session'[d], d)
    <2>1. CASE Connect(c)
      <3> DEFINE t == [NoSession EXCEPT !.pc = "write", !.since = LastIssued + 1,
                                        !.live = LastIssued]
      <3>1. t.inq = <<>>
        BY DEF NoSession
      <3>2. session' = [session EXCEPT ![c] = t]
        BY <2>1 DEF Connect
      <3> HIDE DEF t
      <3> QED BY <1>3, <3>1, <3>2
    <2>2. CASE Disconnect(c) \/ ClientRead(c)
      <3>1. \/ session' = [session EXCEPT ![c].eof = TRUE]
            \/ session' = [session EXCEPT ![c].unread = session[c].unread - 1]
        BY <2>2 DEF Disconnect, ClientRead
      <3>2. session'[d] \in {session[d], [session[d] EXCEPT !.eof = TRUE],
                             [session[d] EXCEPT !.unread = session[c].unread - 1]}
        BY <1>1, <3>1
      <3> QED BY <1>1, <3>2 DEF Session, Asks
    <2>3. ASSUME NEW request \in Requests, Send(c, request)
          PROVE  Asks(session[d], session'[d], d)
      <3> DEFINE asked == [req |-> request, seen |-> Seen(c, request)]
      <3>1. session' = [session EXCEPT ![c].inq = Append(session[c].inq, asked)]
        BY <2>3 DEF Send
      <3> HIDE DEF asked
      <3>2. session'[d].inq = IF d = c THEN Append(session[c].inq, asked) ELSE session[d].inq
        BY <1>1, <3>1 DEF Session
      <3> QED BY <3>2 DEF Asks, asked
    <2> QED BY <1>7, <2>1, <2>2, <2>3 DEF ClientStep
  <1>8. ASSUME NEW c \in Clients, Serve(c) PROVE Asks(session[d], session'[d], d)
    <2>1. CASE EmitFails(c) \/ RecvLagged(c) \/ WriteFails(c)
      BY <1>1, <1>3, <2>1, InboxKept DEF EmitFails, RecvLagged, WriteFails, EndSession
    <2>2. CASE EmitAction(c)
      BY <1>1, <2>2 DEF EmitAction, Session, Asks
    <2>3. CASE Recv(c)
      <3> DEFINE t == Delivered(Dequeued(session[c]), Head(session[c].queue))
      <3>1. session[c].queue # <<>> /\ session' = [session EXCEPT ![c] = t]
        BY <2>3 DEF Recv
      <3>2. session[c].queue \in Seq(Update(EventId))
        BY <1>1 DEF Session
      <3>3. /\ Head(session[c].queue) \in Update(EventId)
            /\ Tail(session[c].queue) \in Seq(Update(EventId))
        BY <3>1, <3>2, HeadTailProperties
      <3>4. Dequeued(session[c]) \in Session
        BY <1>1, <3>3 DEF Dequeued, Session
      <3>5. t.inq = session[c].inq
        BY <1>1, <3>3, <3>4, InboxKept
      <3> HIDE DEF t
      <3> QED BY <1>3, <3>1, <3>5
    <2>4. CASE WriteFrame(c)
      BY <1>1, <2>4 DEF WriteFrame, Session, Asks
    <2>5. CASE Handle(c)
      BY <2>5, HandleInbox
    <2> QED BY <1>8, <2>1, <2>2, <2>3, <2>4, <2>5 DEF Serve
  <1> QED BY <1>4, <1>5, <1>6, <1>7, <1>8 DEF Next

(* What was seen when a request was made is no newer than what its         *)
(* notification is attached to, and was published.                         *)
Forward(asked) ==
    asked.req.type = "action" =>
        /\ asked.seen \in Nat /\ asked.seen <= LastIssued
        /\ asked.req.nid \in DOMAIN active => asked.seen <= active[asked.req.nid].event

AskedInv ==
    \A c \in Clients : \A p \in 1..Len(session[c].inq) : Forward(session[c].inq[p])

(* A client asks from what it was shown last.                              *)
LEMMA SeenForward ==
    ASSUME NotificationIInv, DaemonTypeOK, ShownInv, NEW c \in Clients, NEW request
    PROVE  Forward([req |-> request, seen |-> Seen(c, request)])
  <1>1. session[c].shown \in [Nid -> EventId \cup {0}] /\ LastIssued \in Nat
    BY StoredIsRange DEF DaemonTypeOK, Session, NotificationIInv, StoreIInv
  <1>2. DOMAIN active \subseteq Nid /\ \A n \in DOMAIN active : active[n].event \in EventId
    BY DEF NotificationIInv, NotificationTypeOK, Entry
  <1>3. CASE Seen(c, request) = 0
    BY <1>1, <1>2, <1>3 DEF Forward, EventId
  <1>4. CASE request.nid \in Nid /\ Seen(c, request) = session[c].shown[request.nid]
    BY <1>1, <1>4 DEF Forward, EventId, ShownInv
  <1> QED BY <1>3, <1>4 DEF Seen

(* What was asked stays so while it waits.                                 *)
LEMMA AskedStep ==
    ASSUME NotificationIInv, DaemonTypeOK, ShownInv, AskedInv, [Next]_vars
    PROVE  AskedInv'
  <1> DEFINE last == LastIssued
  <1>1. /\ last \in Nat /\ last' \in Nat /\ last <= last'
        /\ \A n \in DOMAIN active' : \/ n \in DOMAIN active /\ active'[n] = active[n]
                                     \/ active'[n].event = last'
    <2>1. [NotificationNext]_notificationVars /\ [StoreNext]_storeVars
      BY DaemonStepsStores, NotificationStepsStore DEF NotificationIInv, StoreIInv
    <2> QED BY <2>1, StoreStep, ActiveStep DEF NotificationIInv
  <1>2. ASSUME NEW asked, Forward(asked)
        PROVE  asked.req.type = "action" =>
                  /\ asked.seen \in Nat /\ asked.seen <= last'
                  /\ asked.req.nid \in DOMAIN active' => asked.seen <= active'[asked.req.nid].event
    <2>1. SUFFICES ASSUME asked.req.type = "action"
                   PROVE  /\ asked.seen \in Nat /\ asked.seen <= last'
                          /\ asked.req.nid \in DOMAIN active' =>
                                asked.seen <= active'[asked.req.nid].event
      OBVIOUS
    <2>2. asked.seen \in Nat /\ asked.seen <= last
      BY <1>2, <2>1 DEF Forward
    <2> HIDE DEF last
    <2>3. asked.seen <= last'
      BY <1>1, <2>2
    <2>4. ASSUME asked.req.nid \in DOMAIN active'
          PROVE  asked.seen <= active'[asked.req.nid].event
      BY <1>1, <1>2, <2>1, <2>3, <2>4 DEF Forward
    <2> QED BY <2>2, <2>3, <2>4
  <1>3. SUFFICES ASSUME NEW c \in Clients, NEW p \in 1..Len(session'[c].inq)
                 PROVE  Forward(session'[c].inq[p])
    BY <1>2 DEF AskedInv, Forward
  <1>4. session[c].inq \in Seq(Sent)
    BY DEF DaemonTypeOK, Session
  <1>5. \A r \in 1..Len(session[c].inq) : Forward(session[c].inq[r])
    BY DEF AskedInv
  <1>6. CASE session'[c].inq = session[c].inq
    BY <1>5, <1>6
  <1>7. CASE session'[c].inq = <<>>
    <2>1. Len(session'[c].inq) = 0 /\ 1..0 = {}
      BY <1>7, EmptySeq
    <2> QED BY <2>1
  <1>8. CASE session[c].inq # <<>> /\ session'[c].inq = Tail(session[c].inq)
    <2>1. /\ p + 1 \in 1..Len(session[c].inq)
          /\ Tail(session[c].inq)[p] = session[c].inq[p + 1]
      BY <1>4, <1>8, EmptySeq, HeadTailProperties
    <2> QED BY <1>5, <1>8, <2>1
  <1>9. ASSUME NEW request \in Requests,
               session'[c].inq = Append(session[c].inq, [req |-> request, seen |-> Seen(c, request)])
        PROVE  Forward(session'[c].inq[p])
    <2> DEFINE asked == [req |-> request, seen |-> Seen(c, request)]
               q == session[c].inq
    <2>1. Forward(asked)
      BY SeenForward
    <2>2. asked \in Sent
      BY DEF Sent, Seen, DaemonTypeOK, Session
    <2> HIDE DEF asked, q
    <2>3. q \in Seq(Sent) /\ session'[c].inq = Append(q, asked)
      BY <1>4, <1>9 DEF asked, q
    <2>4. /\ Len(Append(q, asked)) = Len(q) + 1 /\ Len(q) \in Nat
          /\ \A r \in 1..Len(q) : Append(q, asked)[r] = q[r]
          /\ Append(q, asked)[Len(q) + 1] = asked
      BY <2>2, <2>3, AppendProperties, LenProperties
    <2>5. p \in 1..Len(q) \/ p = Len(q) + 1
      BY <2>3, <2>4
    <2> QED BY <1>5, <2>1, <2>3, <2>4, <2>5 DEF q
  <1> QED BY <1>6, <1>7, <1>8, <1>9, InboxStep DEF Asks

(* However long a request waits and whatever is replaced meanwhile, it is  *)
(* never taken for an action of an older event than the client saw.        *)
THEOREM NeverGoesBack == Spec => []ActionsNeverGoBack
  <1>1. Init => ShownInv /\ AskedInv
    <2>1. ASSUME Init, NEW c \in Clients
          PROVE  Len(session[c].inq) = 0 /\ 1..0 = {}
      BY <2>1, EmptySeq DEF Init, NoSession
    <2> QED BY <2>1, ShownInit DEF AskedInv
  <1>2. IInv /\ IInv' /\ ShownInv /\ AskedInv /\ [Next]_vars => ShownInv' /\ AskedInv'
    BY ShownStep, AskedStep DEF IInv
  <1>3. IInv /\ AskedInv => ActionsNeverGoBack
    <2>1. ASSUME IInv, AskedInv, NEW c \in Clients, NEW p \in DOMAIN session[c].inq
          PROVE  Forward(session[c].inq[p])
      <3>1. session[c].inq \in Seq(Sent)
        BY <2>1 DEF IInv, DaemonTypeOK, Session
      <3> QED BY <2>1, <3>1, LenProperties DEF AskedInv
    <2> QED BY <2>1 DEF ActionsNeverGoBack, Forward
  <1> QED BY <1>1, <1>2, <1>3, DaemonFeedInvariant, PTL DEF Spec

=============================================================================

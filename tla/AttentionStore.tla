--------------------------- MODULE AttentionStore ---------------------------
(***************************************************************************)
(* The bounded, in-memory event store of src/src/attention.rs (EventStore):*)
(* a queue of at most Capacity events, oldest first, that hands out        *)
(* strictly increasing identifiers until they run out.                     *)
(*                                                                         *)
(* An event is represented by its identifier: source, title, body and the  *)
(* time stamp never decide anything in this component, and events are      *)
(* immutable.  publish's field validation happens before any state is read,*)
(* so a call it rejects changes nothing and is no step here.               *)
(***************************************************************************)
EXTENDS Naturals, SequencesExt

CONSTANTS
    Capacity,     \* EVENT_STORE_CAPACITY
    MaxEventId    \* u64::MAX

ASSUME CapacityAssumption == Capacity \in Nat \ {0}
ASSUME MaxEventIdAssumption == MaxEventId \in Nat \ {0}

EventId == 1..MaxEventId

\* next_id = None: every identifier has been handed out.
None == 0

VARIABLES
    events,       \* the stored identifiers, oldest first
    nextId,       \* next_id: the identifier the next publish takes, or None
    evicted       \* ghost: the identifiers the capacity pushed out

storeVars == <<events, nextId, evicted>>

-----------------------------------------------------------------------------
Stored == ToSet(events)

\* The last identifier handed out, 0 before the first.
LastIssued == IF nextId = None THEN MaxEventId ELSE nextId - 1

\* Mutant: an unchecked addition.
UncheckedSucc(id) == id + 1

\* Mutant: a wrapping addition.
WrappingSucc(id) == IF id = MaxEventId THEN 1 ELSE id + 1

\* u64::checked_add: None past the largest value.
CheckedSucc(id) == IF id = MaxEventId THEN None ELSE id + 1

\* Mutant: one event too many is kept.
TrimmedLate(s) == IF Len(s) > Capacity + 1 THEN Tail(s) ELSE s

\* pop_front of a queue that has grown past its capacity.
Trimmed(s) == IF Len(s) > Capacity THEN Tail(s) ELSE s
Overflow(s) == IF Len(s) > Capacity THEN {Head(s)} ELSE {}

\* Recent(limit): the newest entries, newest first.  limit is also capped at
\* Capacity, which the queue never exceeds.
Recent(limit) ==
    LET n == IF limit < Len(events) THEN limit ELSE Len(events)
    IN  Reverse(SubSeq(events, Len(events) - n + 1, Len(events)))

-----------------------------------------------------------------------------
StoreInit ==
    /\ events = <<>>
    /\ nextId = 1
    /\ evicted = {}

\* EventStore::publish of an accepted event; id is the one it returns.  With
\* no identifier left the call fails with IdExhausted and changes nothing.
Publish(id) ==
    /\ nextId # None
    /\ id = nextId
    /\ nextId' = CheckedSucc(id)
    /\ events' = Trimmed(Append(events, id))
    /\ evicted' = evicted \cup Overflow(Append(events, id))

\* EventStore::dismiss that finds its event (otherwise: false, no change).
Dismiss(id) ==
    /\ \E i \in 1..Len(events) :
          /\ events[i] = id
          /\ events' = RemoveAt(events, i)
    /\ UNCHANGED <<nextId, evicted>>

\* Mutant: clear starts the identifiers over.
ClearRestarting ==
    /\ events # <<>>
    /\ events' = <<>>
    /\ nextId' = 1
    /\ UNCHANGED evicted

\* EventStore::clear that removes something (otherwise: 0, no change).
Clear ==
    /\ events # <<>>
    /\ events' = <<>>
    /\ UNCHANGED <<nextId, evicted>>

StoreNext ==
    \/ \E id \in EventId : Publish(id) \/ Dismiss(id)
    \/ Clear

StoreSpec == StoreInit /\ [][StoreNext]_storeVars

-----------------------------------------------------------------------------
StoreTypeOK ==
    /\ events \in Seq(EventId)
    /\ nextId \in EventId \cup {None}
    /\ evicted \subseteq EventId

(* The store is a window on the sequence of published events: never longer *)
(* than its capacity, in publication order without a repetition, and what  *)
(* the capacity pushed out is older than everything that is still stored.  *)
StoreInv ==
    /\ Len(events) <= Capacity
    /\ \A i, j \in DOMAIN events : i < j => events[i] < events[j]
    /\ \A e \in Stored : e <= LastIssued
    /\ \A e \in evicted : e <= LastIssued /\ \A f \in Stored : e < f

(* An identifier is never reused, across dismiss, clear and eviction: what *)
(* enters the store is newer than every event published before, and what   *)
(* counts as published before never shrinks.                               *)
NoResurrection ==
    [][/\ LastIssued' >= LastIssued
       /\ \A e \in Stored' \ Stored : e > LastIssued]_storeVars

=============================================================================

------------------------- MODULE NotificationStore -------------------------
(***************************************************************************)
(* The freedesktop notification state of src/src/notification.rs           *)
(* (NotificationStore, NotificationState): which notification identifiers  *)
(* are active, which attention event each one is attached to, and which    *)
(* action keys it accepts.  Every Notify publishes one attention event, so *)
(* the module extends the event store.                                     *)
(*                                                                         *)
(* NotificationInput::new turns every input into one that publish accepts, *)
(* so the only failures of Notify are the two exhausted identifier spaces. *)
(***************************************************************************)
EXTENDS AttentionStore, Functions

CONSTANTS
    MaxNid,       \* u32::MAX
    Keys          \* action keys

ASSUME MaxNidAssumption == MaxNid \in Nat \ {0}

Nid == 1..MaxNid

\* ActiveNotification; labels and the order of the actions decide nothing.
Entry == [event : EventId, keys : SUBSET Keys]

VARIABLES
    nNext,        \* next_id: where the search for a fresh identifier starts
    active        \* active: a function from the active identifiers to Entry

notifVars == <<nNext, active>>

-----------------------------------------------------------------------------
\* HashMap::insert and HashMap::remove.
Inserted(nid, entry) ==
    [n \in DOMAIN active \cup {nid} |-> IF n = nid THEN entry ELSE active[n]]
Removing(nid) == Restrict(active, DOMAIN active \ {nid})

\* Mutant: an event counts as actionable when a newer one replaced it.
ActiveSinceEvent(id) == {n \in DOMAIN active : active[n].event >= id}

\* Mutant: an event gets the actions of older ones.
ActiveUpToEvent(id) == {n \in DOMAIN active : active[n].event <= id}

\* The identifiers attached to an event (active_for_event returns one of them).
ActiveForEvent(id) == {n \in DOMAIN active : active[n].event = id}

\* invoke: the identifier is active and the key is one of its actions.
Invocable(nid, key) == nid \in DOMAIN active /\ key \in active[nid].keys

\* Mutant: identifiers that are active are not skipped.
FreshOrActive == nNext..(MaxNid - 1)

\* The fresh identifiers notification_id can still reach.  u32::MAX is none
\* of them: next_id.checked_add(1) fails before it is returned.
Fresh == {n \in nNext..(MaxNid - 1) : n \notin DOMAIN active}

\* notification_id: a nonzero replaces_id is taken as it is, active or not;
\* otherwise the search stops at the first identifier that is not active.
NidAllocated(replaces, nid) ==
    \/ /\ replaces # 0
       /\ nid = replaces
       /\ UNCHANGED nNext
    \/ /\ replaces = 0
       /\ nid \in Fresh
       /\ \A n \in Fresh : nid <= n
       /\ nNext' = nid + 1

-----------------------------------------------------------------------------
NotificationInit ==
    /\ nNext = 1
    /\ active = [n \in {} |-> 0]

\* NotificationState::notify.  The entry is inserted by publish_with's closure,
\* before the event is broadcast; an entry of the same identifier is replaced.
NotifyPublishes(replaces, keys, nid, id) ==
    /\ NidAllocated(replaces, nid)
    /\ Publish(id)
    /\ active' = Inserted(nid, [event |-> id, keys |-> keys])

\* Mutant: next_id wraps around to 0.
NotifyWrapping(replaces) ==
    /\ replaces = 0
    /\ Fresh = {}
    /\ nNext' = 0
    /\ UNCHANGED <<active, storeVars>>

\* The search runs off the end: next_id is left at u32::MAX.
NotifyWithoutNid(replaces) ==
    /\ replaces = 0
    /\ Fresh = {}
    /\ nNext' = MaxNid
    /\ UNCHANGED <<active, storeVars>>

\* The event identifiers are exhausted: publish fails after the notification
\* identifier was allotted, and the closure does not run.
NotifyWithoutEvent(replaces) ==
    /\ nextId = None
    /\ \E nid \in Nid : NidAllocated(replaces, nid)
    /\ UNCHANGED <<active, storeVars>>

\* NotificationState::close of an active identifier (otherwise: an error, no
\* change).  The attention event stays in the store.
Close(nid) ==
    /\ nid \in DOMAIN active
    /\ active' = Removing(nid)
    /\ UNCHANGED <<nNext, storeVars>>

\* A step of either store: every change of the event store that is not made
\* by Notify leaves the notifications alone.
NotificationNext ==
    \/ \E replaces \in 0..MaxNid, keys \in SUBSET Keys :
          \/ \E nid \in Nid, id \in EventId : NotifyPublishes(replaces, keys, nid, id)
          \/ NotifyWithoutNid(replaces)
          \/ NotifyWithoutEvent(replaces)
    \/ \E nid \in Nid : Close(nid)
    \/ StoreNext /\ UNCHANGED notifVars

NotificationSpec ==
    /\ StoreInit /\ NotificationInit
    /\ [][NotificationNext]_<<storeVars, notifVars>>

-----------------------------------------------------------------------------
NotificationTypeOK ==
    /\ nNext \in Nid
    /\ DOMAIN active \subseteq Nid
    /\ \A n \in DOMAIN active : active[n] \in Entry

(* An event carries the actions of at most one notification, so that       *)
(* active_for_event, which takes the first match of a hash map scan, has   *)
(* no choice; and an entry never points past the last published event.     *)
OneActivePerEvent ==
    /\ \A m, n \in DOMAIN active : active[m].event = active[n].event => m = n
    /\ \A n \in DOMAIN active : active[n].event <= LastIssued

(* A Notify without replaces_id never takes over a notification that is    *)
(* active, although clients may have chosen identifiers ahead of next_id   *)
(* with replaces_id: whenever the search moves, what was active stays.     *)
FreshIdNeverHijacks ==
    [][nNext' # nNext =>
         \A n \in DOMAIN active : n \in DOMAIN active' /\ active'[n] = active[n]]_notifVars

=============================================================================

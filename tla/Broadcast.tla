----------------------------- MODULE Broadcast -----------------------------
(***************************************************************************)
(* The receiving side of tokio::sync::broadcast, as AttentionState and     *)
(* serve_client use it (external: modelled from its use).  A receiver is a *)
(* record with the updates it has not received yet (queue) and whether an  *)
(* update was overwritten before it was received (lagged): recv then       *)
(* returns Lagged first.  A sender never waits.                            *)
(***************************************************************************)
EXTENDS Naturals, Sequences

CONSTANT ChannelCapacity   \* EVENT_CHANNEL_CAPACITY

ASSUME ChannelCapacityAssumption == ChannelCapacity \in Nat \ {0}

\* AttentionUpdate.
Added(id) == [kind |-> "added", id |-> id]
Removed(id) == [kind |-> "removed", id |-> id]
Cleared == [kind |-> "cleared", id |-> 0]

Update(Ids) == [kind : {"added", "removed"}, id : Ids] \cup {Cleared}

\* Mutant: a full receiver misses the newest update without notice.
OfferedOrDropped(r, u) ==
    IF Len(r.queue) < ChannelCapacity THEN [r EXCEPT !.queue = Append(@, u)] ELSE r

\* The receiver r once u has been sent: the oldest update is overwritten when
\* the receiver already has ChannelCapacity of them.
Offered(r, u) ==
    IF Len(r.queue) < ChannelCapacity
    THEN [r EXCEPT !.queue = Append(@, u)]
    ELSE [r EXCEPT !.queue = Append(Tail(@), u), !.lagged = TRUE]

=============================================================================

--------------------------- MODULE AttentionFeed ---------------------------
(***************************************************************************)
(* What the attention socket promises its clients (docs/ATTENTION_API.md,  *)
(* "Socket live delivery"), and D-Bus those who listen to EventAdded,      *)
(* without stores, queues or frames: events are numbered 1, 2, 3, ... as   *)
(* they are published; a client that connects is sent no history; from     *)
(* then on it is sent every event, in order, or it is disconnected; and    *)
(* publication waits for nobody.                                           *)
(***************************************************************************)
EXTENDS Naturals

CONSTANTS Subscribers, MaxEvent

VARIABLES
    last,         \* the last event published
    on,           \* the connected clients
    seen          \* for each of them the last event it was sent, 0 for others

feedVars == <<last, on, seen>>

Init ==
    /\ last = 0
    /\ on \in SUBSET Subscribers
    /\ seen = [c \in Subscribers |-> 0]

Issue ==
    /\ last < MaxEvent
    /\ last' = last + 1
    /\ UNCHANGED <<on, seen>>

Join(c) ==
    /\ c \notin on
    /\ on' = on \cup {c}
    /\ seen' = [seen EXCEPT ![c] = last]
    /\ UNCHANGED last

Deliver(c) ==
    /\ c \in on
    /\ seen[c] < last
    /\ seen' = [seen EXCEPT ![c] = @ + 1]
    /\ UNCHANGED <<last, on>>

Leave(c) ==
    /\ c \in on
    /\ on' = on \ {c}
    /\ seen' = [seen EXCEPT ![c] = 0]
    /\ UNCHANGED last

Next == Issue \/ \E c \in Subscribers : Join(c) \/ Deliver(c) \/ Leave(c)

Spec == Init /\ [][Next]_feedVars

\* Every published event reaches every client that was connected when it was
\* published and stays connected.
Progress ==
    \A c \in Subscribers, e \in 1..MaxEvent :
        (c \in on /\ seen[c] < e /\ e <= last) ~> (c \notin on \/ seen[c] >= e)

=============================================================================

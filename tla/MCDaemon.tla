------------------------------ MODULE MCDaemon ------------------------------
(* Small instances of Daemon: the frames that clients send.                *)
EXTENDS Daemon

CONSTANTS
    RequestTypes, \* the types of frames sent in this instance
    Limits        \* the limits of snapshot requests

MCRequests ==
    {r \in [type : {"ping", "clear", "bad"}]
             \cup [type : {"recent"}, limit : Limits]
             \cup [type : {"dismiss"}, id : EventId]
             \cup [type : {"action"}, nid : Nid, key : Keys] : r.type \in RequestTypes}

MCKeySets == {Keys}

Symmetry == Permutations(Clients)

=============================================================================

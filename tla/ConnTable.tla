----------------------------- MODULE ConnTable -----------------------------
(***************************************************************************)
(* What the tracker promises to the callers of ctcm_query_ipv4: a set of   *)
(* connections, each with the host's communication id, the flow key (the   *)
(* peer's address and QPN) and the host QPN.                               *)
(*                                                                         *)
(* A connection enters the set whole and leaves it whole.  It enters only  *)
(* when neither its key nor its id has one already: the first connection   *)
(* keeps the key.  No step changes a connection in place, and none touches *)
(* two of them.  CM states, ids of the peer, maps and objects do not       *)
(* appear here.                                                            *)
(***************************************************************************)
EXTENDS Naturals

CONSTANTS
    Owner,      \* the host's communication ids
    Key,        \* flow keys
    HostQpn     \* QPNs of the host

VARIABLE conns

Conn == [owner: Owner, key: Key, qpn: HostQpn]

Init == conns = {}

Establish(c) ==
    /\ \A d \in conns : d.owner # c.owner /\ d.key # c.key
    /\ conns' = conns \cup {c}

Withdraw(c) ==
    /\ c \in conns
    /\ conns' = conns \ {c}

Next == \E c \in Conn : Establish(c) \/ Withdraw(c)

Spec == Init /\ [][Next]_conns

\* v is what a query for the key k returns: the QPN of its connection, else 0.
Query(k, v) ==
    \/ \E c \in conns : c.key = k /\ c.qpn = v
    \/ v = 0 /\ \A c \in conns : c.key # k
=============================================================================

--------------------------- MODULE TransferGrant ---------------------------
(***************************************************************************)
(* What a boot file server promises about its transfers, without           *)
(* descriptors, listeners or counters.  A request opens a transfer: it     *)
(* binds the host to the client's transfer id and to one source of bytes.  *)
(* Until the transfer is replaced or withdrawn the binding does not        *)
(* change, and data goes only to the transfer id, only from the source, of *)
(* a transfer that is open.                                                *)
(***************************************************************************)
CONSTANTS
    Hosts,
    Tids,       \* transfer ids
    Sources,    \* what bytes can come from
    NoGrant

VARIABLES
    grant,      \* the transfer of each host, NoGrant for none
    out         \* the data messages of the last step

vars == <<grant, out>>

Init == grant = [h \in Hosts |-> NoGrant] /\ out = {}

Transfer == [tid : Tids, src : Sources]

DataOf(h, g) == [to |-> <<h, g.tid>>, about |-> g.src]

(* The transfers of the hosts other than h can only be withdrawn.          *)
OthersKeptOrWithdrawn(h) ==
    \A g \in Hosts \ {h} : grant'[g] \in {grant[g], NoGrant}

(* A request of h opens a transfer and may send its first data.            *)
Open(h) ==
    /\ grant' \in [Hosts -> Transfer \cup {NoGrant}]
    /\ grant'[h] \in Transfer
    /\ OthersKeptOrWithdrawn(h)
    /\ out' \in {{}, {DataOf(h, grant'[h])}}

(* A request that opens nothing may still withdraw transfers.              *)
Withdraw ==
    /\ grant' \in [Hosts -> Transfer \cup {NoGrant}]
    /\ \A g \in Hosts : grant'[g] \in {grant[g], NoGrant}
    /\ out' = {}

(* The next data of an open transfer.                                      *)
Send(h) ==
    /\ grant[h] # NoGrant
    /\ out' = {DataOf(h, grant[h])}
    /\ UNCHANGED grant

Next == (\E h \in Hosts : Open(h) \/ Send(h)) \/ Withdraw

Spec == Init /\ [][Next]_vars
=============================================================================

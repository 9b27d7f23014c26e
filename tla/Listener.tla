------------------------------ MODULE Listener ------------------------------
(***************************************************************************)
(* The listener list of bootd (listener.c) and the process's descriptor    *)
(* table: the sockets the event loop waits on, in the order of             *)
(* g_listeners, and what every file descriptor refers to.  The operators   *)
(* take and return the record "io" of the three variables, because a       *)
(* packet handler calls several of them in turn within one step.           *)
(*                                                                         *)
(* A listener is its descriptor and the remote address it is connected to  *)
(* (l->d.udp.to), AnyPeer for a service port.  Link and RPC listeners are  *)
(* not in this module: no handler creates or deletes one.  The descriptors *)
(* 1 and 2 (standard output and error) and those of the other services     *)
(* are left out; descriptor 0 is standard input.                           *)
(*                                                                         *)
(* NewUdpMissingReturn and InsertAfterHead are faulty variants, used only  *)
(* to confirm that the properties can fail.                                *)
(***************************************************************************)
EXTENDS Integers, Sequences, Functions

CONSTANTS
    Files,               \* files that can be opened
    Peers,               \* remote addresses (host and port)
    AnyPeer,             \* not connected
    NoListener,          \* the null listener_t pointer
    MaxFd,               \* the largest descriptor the process may open
    NullStoreOutcomes    \* what the store through a null l->name may do

ASSUME MaxFdAssumption == MaxFd \in Nat \ {0}
ASSUME FilesAssumption == Files \cap {"free", "stdin", "socket"} = {}
ASSUME NullStoreAssumption == NullStoreOutcomes \subseteq {"survived", "killed"}

VARIABLES
    listeners,    \* g_listeners, first to last
    fdtab,        \* what each descriptor refers to
    status        \* "starting", then "running" the event loop, "killed" by a
                  \* signal, or "undefined" behaviour

ioVars == <<listeners, fdtab, status>>

Fds == 1 .. MaxFd
FdUses == {"free", "socket"} \cup Files
ListenerRecords == [fd : Fds, peer : Peers \cup {AnyPeer}]

ASSUME NoListenerAssumption == NoListener \notin ListenerRecords

IoTypeOK ==
    /\ listeners \in Seq(ListenerRecords)
    /\ fdtab \in [0 .. MaxFd -> FdUses \cup {"stdin"}]
    /\ status \in {"starting", "running", "killed", "undefined"}

(* Before service_start.                                                   *)
IoInit ==
    /\ listeners = <<>>
    /\ fdtab = [fd \in 0 .. MaxFd |-> IF fd = 0 THEN "stdin" ELSE "free"]
    /\ status = "starting"

Io == [listeners |-> listeners, fdtab |-> fdtab, status |-> status]

IoBecomes(io) ==
    /\ listeners' = io.listeners
    /\ fdtab' = io.fdtab
    /\ status' = io.status

----------------------------------------------------------------------------
Free(io) == {fd \in Fds : io.fdtab[fd] = "free"}

(* The kernel hands out the lowest free descriptor, if there is one.       *)
LowestFree(io) == {fd \in Free(io) : \A other \in Free(io) : fd <= other}

OpenAs(io, fd, use) == [io EXCEPT !.fdtab[fd] = use]

NewUdpMissingReturn(io, peer) ==
    {[io |-> io, l |-> NoListener]} \cup
    UNION {{[io |-> new, l |-> [fd |-> fd, peer |-> peer]] :
              new \in {io, OpenAs(io, fd, "socket")}} : fd \in LowestFree(io)}

(* listener_new_udp: socket() fails when no descriptor is left; after a    *)
(* failing bind() or connect() the socket is closed again.  Either way the *)
(* caller gets a null pointer.                                             *)
listener_new_udp(io, peer) ==
    {[io |-> io, l |-> NoListener]} \cup
    {[io |-> OpenAs(io, fd, "socket"), l |-> [fd |-> fd, peer |-> peer]] :
        fd \in LowestFree(io)}

InsertAfterHead(io, l) ==
    [io EXCEPT !.listeners = IF @ = <<>> THEN <<l>> ELSE <<Head(@), l>>]

(* The insertion of listener_add: a second listener for a descriptor is    *)
(* ignored, a new one goes to the end.                                     *)
Insert(io, l) ==
    IF \E n \in Range(io.listeners) : n.fd = l.fd THEN io
    ELSE [io EXCEPT !.listeners = Append(@, l)]

(* listener_add: a null listener is ignored.  listener_new_udp leaves      *)
(* l->name null, and listener_add then stores to l->name[0]: undefined     *)
(* behaviour, which kills the process unless the build drops the store.    *)
listener_add(io, l) ==
    IF l = NoListener THEN {io}
    ELSE {IF outcome = "killed" THEN [io EXCEPT !.status = "killed"]
          ELSE Insert(io, l) : outcome \in NullStoreOutcomes}

(* The listeners listener_search_by_fd finds for the descriptors fds.      *)
listener_search_by_fd(io, fds) == {l \in Range(io.listeners) : l.fd \in fds}

(* listener_delete of what listener_search_by_fd finds for each of fds:    *)
(* the listeners are unlinked and cleaned up (descriptor closed, memory    *)
(* freed).  For the head of the list control falls through to the          *)
(* "unregistered listener" case, which cleans it up a second time: a use   *)
(* after free.  Nothing happens for a descriptor that is no listener's.    *)
listener_delete(io, fds) ==
    LET found == listener_search_by_fd(io, fds)
    IN  IF found = {} THEN io
        ELSE [listeners |-> SelectSeq(io.listeners, LAMBDA l : l \notin found),
              fdtab |-> [fd \in DOMAIN io.fdtab |->
                           IF \E l \in found : l.fd = fd THEN "free" ELSE io.fdtab[fd]],
              status |-> IF Head(io.listeners) \in found THEN "undefined" ELSE io.status]

(* service_start for the one service port of this module, then the event   *)
(* loop.  A port that cannot be opened is logged and passed over.          *)
ServiceStart ==
    /\ status = "starting"
    /\ \E new \in listener_new_udp(Io, AnyPeer) :
       \E io \in listener_add(new.io, new.l) :
          IoBecomes([io EXCEPT !.status = IF @ = "killed" THEN @ ELSE "running"])
=============================================================================

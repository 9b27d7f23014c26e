----------------------------- MODULE EventLoop -----------------------------
(***************************************************************************)
(* The server loop of bootd (bootd.c, listener_select and the receive      *)
(* functions of listener.c) over the listeners the start-up opens          *)
(* (Services).  One step is one element of the walk over g_listeners, so   *)
(* packets arrive between the handlers, and a handler of the TFTP server   *)
(* lengthens the list that is being walked.                                *)
(*                                                                         *)
(* Kernel and pcap are external: the kernel queues QMax packets of a type  *)
(* for a descriptor and drops the others; pcap reads all of them into a    *)
(* buffer of its own and hands out one frame for each pcap_loop(..., 1).   *)
(* What the handlers do with a packet is in the modules of the services.   *)
(*                                                                         *)
(* AllListed and StopAfterOne are faulty variants, used only to confirm    *)
(* that the properties can fail.                                           *)
(***************************************************************************)
EXTENDS Services

CONSTANTS
    QMax,        \* how many packets the kernel queues, for each type of listener
    FdSetSize    \* FD_SETSIZE

ASSUME EventLoopAssumption ==
    /\ QMax \in [{"link", "udp", "rpc"} -> Nat \ {0}]
    /\ FdSetSize \in Nat \ {0}

VARIABLES
    wait,      \* the packets queued in the kernel for each descriptor
    user,      \* the frames left in pcap's buffer
    ready,     \* the descriptor set as select left it
    at,        \* how far the walk over g_listeners is, 0 in select
    served     \* the descriptors whose queue the last step read

loopVars == <<wait, user, ready, at, served>>
vars == <<serviceVars, loopVars>>

Init ==
    /\ ServicesInit
    /\ wait = [fd \in Fds |-> 0] /\ user = [fd \in Fds |-> 0]
    /\ ready = {} /\ at = 0 /\ served = {}

StartUp ==
    /\ Configure \/ ServiceStart \/ OpenListener \/ Started
    /\ UNCHANGED loopVars

Listed == {l.fd : l \in Range(listeners)}

Arrive ==
    /\ status = "running"
    /\ \E l \in Range(listeners) :
          wait[l.fd] < QMax[l.type] /\ wait' = [wait EXCEPT ![l.fd] = @ + 1]
    /\ served' = {}
    /\ UNCHANGED <<serviceVars, user, ready, at>>

----------------------------------------------------------------------------
AllListed == Listed
Readable == {fd \in Listed : wait[fd] > 0}

(* select returns when a descriptor is readable, and leaves those in the   *)
(* set; what does not fit the set is written outside it ("overrun").        *)
Select ==
    /\ status = "running" /\ at = 0
    /\ served' = {}
    /\ IF \E fd \in Listed : fd >= FdSetSize
       THEN status' = "overrun" /\ UNCHANGED <<ready, at>>
       ELSE Readable # {} /\ ready' = Readable /\ at' = 1 /\ UNCHANGED status
    /\ UNCHANGED <<requests, known, bind, pending, listeners, used, wait, user>>

StopAfterOne == Len(listeners) + 1
FollowingListener == at + 1

(* The listener the walk has come to.                                      *)
Walking == status = "running" /\ at \in DOMAIN listeners
Turn == listeners[at]
Receives(type) == Walking /\ Turn.fd \in ready /\ Turn.type = type /\ at' = FollowingListener

PassOver ==
    /\ Walking /\ Turn.fd \notin ready
    /\ at' = at + 1 /\ served' = {}
    /\ UNCHANGED <<serviceVars, wait, user, ready>>

EndOfWalk ==
    /\ status = "running" /\ at > Len(listeners)
    /\ at' = 0 /\ ready' = {} /\ served' = {}
    /\ UNCHANGED <<serviceVars, wait, user>>

(* The datagram recvfrom takes.  There is none if another handler took it  *)
(* (EAGAIN).                                                               *)
Take(fds) ==
    /\ wait' = [fd \in Fds |-> IF fd \in fds /\ wait[fd] > 0 THEN wait[fd] - 1 ELSE wait[fd]]
    /\ served' = fds
    /\ UNCHANGED <<user, ready>>

(* The lowest free descriptor, or none if the call fails.                  *)
Lowest(free) == {{}} \cup {{fd} : fd \in {x \in free : \A y \in free : x <= y}}

(* A read request lists a data listener at the end of the list and opens   *)
(* the file; socket() and open() may fail, and a null listener is ignored. *)
(* Neither is ever closed: host_session_delete only looks for listeners.   *)
ReadRequest ==
    \E new \in Lowest(Fds \ used) : \E file \in Lowest(Fds \ (used \cup new)) :
        /\ \/ new = {} /\ UNCHANGED <<listeners, status>>
           \/ \E fd \in new : listener_add([type |-> "udp", on |-> "data",
                                           services |-> <<"tftp">>, fd |-> fd])
        /\ status' # "running" => file = {}
        /\ used' = used \cup new \cup file
        /\ UNCHANGED <<requests, known, bind, pending>>

(* i_listener_udp_receive with the handler of the listener's service.      *)
udp_receive ==
    /\ Receives("udp")
    /\ Take({Turn.fd})
    /\ \/ Turn.services = <<"tftp">> /\ wait[Turn.fd] > 0 /\ ReadRequest
       \/ UNCHANGED serviceVars

(* i_listener_rpc_udp_receive: svc_getreqset takes svc_fdset, which holds  *)
(* the descriptors of all RPC listeners.                                   *)
rpc_udp_receive ==
    /\ Receives("rpc")
    /\ Take({l.fd : l \in {n \in Range(listeners) : n.type = "rpc"}})
    /\ UNCHANGED serviceVars

(* i_listener_link_receive: pcap_loop comes back with one frame, and asks  *)
(* the kernel again and again as long as there is none.                    *)
HasFrame(fd) == user[fd] > 0 \/ wait[fd] > 0

(* A boot request of RMP opens a file, unless open() fails.                *)
BootRequest == \E file \in Lowest(Fds \ used) : used' = used \cup file

link_receive ==
    /\ Receives("link")
    /\ LET fd == Turn.fd
       IN  /\ HasFrame(fd)
           /\ user' = [user EXCEPT ![fd] = IF @ > 0 THEN @ - 1 ELSE wait[fd] - 1]
           /\ wait' = [wait EXCEPT ![fd] = IF user[fd] > 0 THEN @ ELSE 0]
           /\ served' = IF user[fd] > 0 THEN {} ELSE {fd}
    /\ \/ "rmp" \in Range(Turn.services) /\ BootRequest
       \/ UNCHANGED used
    /\ UNCHANGED <<requests, known, bind, pending, listeners, status, ready>>

LoopStep == Select \/ PassOver \/ EndOfWalk \/ udp_receive \/ rpc_udp_receive \/ link_receive
Next == StartUp \/ Arrive \/ LoopStep

Spec == Init /\ [][Next]_vars

(* main does nothing but its start-up and the loop.                        *)
FairSpec == Spec /\ WF_vars(StartUp) /\ WF_vars(LoopStep)

----------------------------------------------------------------------------
ListenerRecords == [type : {"link", "udp", "rpc"}, fd : Fds, services : Seq(Range(Registry)),
                    on : Range(Devices) \cup IpWords \cup Range(NameIp) \cup {AnyIp, "data"}]

TypeOK ==
    /\ known \in {<<>>, Devices}
    /\ listeners \in Seq(ListenerRecords)
    /\ used \subseteq Fds /\ Listed \subseteq used /\ ready \subseteq Fds
    /\ wait \in [Fds -> Nat] /\ user \in [Fds -> 0 .. QMax["link"] - 1]
    /\ at \in 0 .. Len(listeners) + 1
    /\ status \in {"configuring", "starting", "running", "exited", "killed", "undefined", "overrun"}

(* What select said of a descriptor is still true when the walk gets to    *)
(* its listener, in spite of the handlers that ran before and of the       *)
(* listeners they appended to the list being walked (listener_select).     *)
(* Otherwise pcap_loop would hold the whole daemon.  An RPC listener may   *)
(* find nothing: the one before it took its datagram too.                  *)
SelectStillHolds ==
    at > 0 => \A i \in at .. Len(listeners) :
        (listeners[i].fd \in ready /\ listeners[i].type # "rpc") => HasFrame(listeners[i].fd)

(* Every listener's queue is read in the end, if the daemon lives: no      *)
(* other listener, however busy, keeps the loop from it.                   *)
DatagramServed ==
    \A fd \in Fds :
        (status = "running" /\ fd \in Listed /\ wait[fd] > 0)
            ~> (fd \in served \/ status # "running")
=============================================================================

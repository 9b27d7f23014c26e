-------------------------------- MODULE Tftp --------------------------------
(***************************************************************************)
(* The TFTP server of bootd (tftp.c) on top of the session table           *)
(* (HostSession) and the listener list (Listener).  One action is one      *)
(* datagram, handled from recvfrom to the last send: bootd is a            *)
(* single-threaded event loop, so handlers never interleave, but every     *)
(* order of datagrams of several clients, ports and listeners occurs,      *)
(* stale and duplicated ones included.                                     *)
(*                                                                         *)
(* A datagram is taken from a listener that can receive it, together with  *)
(* the host util_ip2host finds for its source address (Unknown if none)    *)
(* and its source port, which is the session id.  A read request carries   *)
(* the file util_name2file finds.  Block numbers and file offsets are not  *)
(* in this module: a data message is what it is read from.  The outcome of *)
(* socket(), bind(), connect(), open() and read() is nondeterministic; the *)
(* only hard limit is the number of descriptors.                           *)
(*                                                                         *)
(* The TFTP_FD member fd[1] is never assigned in tftp.c, so fd[] is        *)
(* represented by BF_FD = fd[0].                                           *)
(*                                                                         *)
(* OpenFailsKeepsMinusOne, OpenedClosesOnError, OpenedKeepsSocket and      *)
(* AckDropsSession are faulty variants, used only to confirm that the      *)
(* properties can fail.                                                    *)
(***************************************************************************)
EXTENDS HostSession, Listener

CONSTANTS
    TftpHosts,       \* the hosts with SERVICE_TFTP in h->service
    SERVICE_TFTP,
    Unknown          \* the source of datagrams from no configured host

ASSUME TftpAssumption ==
    /\ TftpHosts \subseteq Hosts
    /\ SERVICE_TFTP \in Services
    /\ Unknown \notin Hosts
    /\ Peers = Hosts \X Sids

VARIABLES
    held,    \* BF_FD and l of each host's session, NoHold where there is none
    sent     \* the datagrams sent by the last step

tftpVars == <<session, g_n_sessions, listeners, fdtab, status, held, sent>>

NoHold == [fd |-> 0, l |-> NoListener]

Sources == (Hosts \cup {Unknown}) \X Sids

(* What the text of an error says, as far as it matters here.              *)
Reasons == {"refused", "busy", "failed"}

ASSUME ReasonsAssumption == Files \cap Reasons = {}

(* No value is taken for the null pointer.                                 *)
ASSUME NullAssumption == NoSession \notin [tid : Sids, src : Files \cup {"stdin"}]

Messages == [op : {"DATA", "ERROR", "RUNT"}, via : Fds, to : Sources,
             about : FdUses \cup {"stdin"} \cup Reasons]

TftpTypeOK ==
    /\ TypeOK
    /\ IoTypeOK
    /\ held \in [Hosts -> [fd : 0 .. MaxFd, l : ListenerRecords \cup {NoListener}]]
    /\ sent \in SUBSET Messages

TftpInit ==
    /\ SessionInit
    /\ IoInit
    /\ held = [h \in Hosts |-> NoHold]
    /\ sent = {}

----------------------------------------------------------------------------
(* A datagram of src arrives at listener l: a connected socket gets only   *)
(* what its peer sends.                                                    *)
Receive(l, src) ==
    /\ status = "running"
    /\ l \in Range(listeners)
    /\ l.peer \in {AnyPeer, src}

Message(op, l, to, about) == [op |-> op, via |-> l.fd, to |-> to, about |-> about]

tftp_send_error(l, to, why) == {Message("ERROR", l, to, why)}

(* util_read from descriptor fd and what is then sent: the block by way of *)
(* listener dl; or, when the read fails, an error by way of l followed by  *)
(* the 4 + (-1) bytes of a data header by way of dl.                       *)
ReadReplies(l, dl, to, from) ==
    { {Message("DATA", dl, to, from)},
      tftp_send_error(l, to, "failed") \cup {Message("RUNT", dl, to, "failed")} }

(* The listeners host_session_delete drops for the sessions of hosts S.    *)
DropListeners(io, S) == listener_delete(io, {held[g].fd : g \in S} \ {0})

(* host_session_add clears the sessions it deletes, and the new one.       *)
HoldsAfterAdd(h) == [g \in Hosts |-> IF g \in Gone(h) THEN NoHold ELSE held[g]]

----------------------------------------------------------------------------
(* The client is not configured, or not for TFTP.                          *)
Denied ==
    \E src \in ((Hosts \ TftpHosts) \cup {Unknown}) \X Sids, l \in Range(listeners) :
        /\ Receive(l, src)
        /\ sent' = tftp_send_error(l, src, "refused")
        /\ UNCHANGED <<sessionVars, ioVars, held>>

(* A read request for a file that is not configured, a write request, or a *)
(* data packet: an error, and no change of the session.                    *)
Rejected(h, p) ==
    \E l \in Range(listeners) :
        /\ Receive(l, <<h, p>>)
        /\ sent' = tftp_send_error(l, <<h, p>>, "refused")
        /\ UNCHANGED <<sessionVars, ioVars, held>>

(* An error packet or an unknown opcode is dropped.                        *)
Ignored(h, p) ==
    \E l \in Range(listeners) :
        /\ Receive(l, <<h, p>>)
        /\ sent' = {}
        /\ UNCHANGED <<sessionVars, ioVars, held>>

----------------------------------------------------------------------------
(* A read request for file f.  The previous session of h is deleted and a  *)
(* data listener connected to the client created and listed, before the    *)
(* session table is asked: whatever fails later, the listener stays.       *)
(* The continuations of the request follow, in the order of the code.      *)

(* host_session_add refuses.                                               *)
Busy(h, p, l, io) ==
    /\ ~Admits(h)
    /\ IoBecomes(io)
    /\ held' = HoldsAfterAdd(h)
    /\ sent' = tftp_send_error(l, <<h, p>>, "busy")

OpenFailsKeepsMinusOne(h, p, l, io) ==
    /\ Admits(h)
    /\ IoBecomes(io)
    /\ held' = [HoldsAfterAdd(h) EXCEPT ![h] = [fd |-> -1, l |-> NoListener]]
    /\ sent' = tftp_send_error(l, <<h, p>>, "failed")

(* open() fails: BF_FD is set to 0 and the session kept.                   *)
OpenFails(h, p, l, io) ==
    /\ Admits(h)
    /\ IoBecomes(io)
    /\ held' = HoldsAfterAdd(h)
    /\ sent' = tftp_send_error(l, <<h, p>>, "failed")

OpenedClosesOnError(h, p, f, l, dl, io) ==
    /\ Admits(h)
    /\ \E fd \in LowestFree(io) :
          /\ IoBecomes(IF dl = NoListener THEN io ELSE OpenAs(io, fd, f))
          /\ held' = [HoldsAfterAdd(h) EXCEPT ![h] = [fd |-> fd, l |-> dl]]
    /\ sent' = {}

OpenedKeepsSocket(h, p, f, l, dl, io) ==
    /\ Admits(h)
    /\ \E fd \in LowestFree(io) : IoBecomes(OpenAs(io, fd, f))
    /\ held' = [HoldsAfterAdd(h) EXCEPT ![h] = [fd |-> l.fd, l |-> dl]]
    /\ sent' = {}

(* The file is open; the first block goes out by way of the data listener  *)
(* dl, if there is one.                                                    *)
Opened(h, p, f, l, dl, io) ==
    /\ Admits(h)
    /\ \E fd \in LowestFree(io) :
          /\ IoBecomes(OpenAs(io, fd, f))
          /\ held' = [HoldsAfterAdd(h) EXCEPT ![h] = [fd |-> fd, l |-> dl]]
    /\ \/ /\ dl = NoListener
          /\ sent' = tftp_send_error(l, <<h, p>>, "failed")
       \/ /\ dl # NoListener
          /\ sent' \in ReadReplies(l, dl, <<h, p>>, f)

(* The store through the null name in listener_add kills the daemon.       *)
Killed(h, io) ==
    /\ host_session_delete(h)
    /\ IoBecomes(io)
    /\ held' = [held EXCEPT ![h] = NoHold]
    /\ sent' = {}

ReadRequest(h, p, f) ==
    \E l \in Range(listeners) :
        /\ Receive(l, <<h, p>>)
        /\ \E new \in listener_new_udp(DropListeners(Io, {h} \cap Active), <<h, p>>) :
           \E io \in listener_add(new.io, new.l) :
              \/ io.status = "killed" /\ Killed(h, io)
              \/ /\ io.status # "killed"
                 /\ host_session_add(h, SERVICE_TFTP, p)
                 /\ LET left == DropListeners(io, Expired \ {h})
                    IN  \/ Busy(h, p, l, left)
                        \/ OpenFails(h, p, l, left)
                        \/ Opened(h, p, f, l, new.l, left)

----------------------------------------------------------------------------
(* An acknowledgement with the host's session id: the next block is read   *)
(* from BF_FD, open or not, and sent by way of the listener it came from,  *)
(* which need not be the session's own.                                    *)
AckAccepted(h, p, l) ==
    /\ CheckResult(h, SERVICE_TFTP, p) = E_NOERROR
    /\ sent' \in ReadReplies(l, l, <<h, p>>, fdtab[held[h].fd])

(* Any other: of block 1 it is dropped, else answered with an error.       *)
AckRefused(h, p, l) ==
    /\ CheckResult(h, SERVICE_TFTP, p) # E_NOERROR
    /\ sent' \in {{}, tftp_send_error(l, <<h, p>>, "refused")}

AckDropsSession(h, p) ==
    \E l \in Range(listeners) :
        /\ Receive(l, <<h, p>>)
        /\ session' = [session EXCEPT ![h] = NoSession]
        /\ AckAccepted(h, p, l) \/ AckRefused(h, p, l)
        /\ UNCHANGED <<g_n_sessions, ioVars, held>>

Ack(h, p) ==
    \E l \in Range(listeners) :
        /\ Receive(l, <<h, p>>)
        /\ host_session_check(h, SERVICE_TFTP, p)
        /\ AckAccepted(h, p, l) \/ AckRefused(h, p, l)
        /\ UNCHANGED <<ioVars, held>>

(* A second passes.                                                        *)
Second ==
    /\ status = "running"
    /\ Tick
    /\ sent' = {}
    /\ UNCHANGED <<ioVars, held>>

Start ==
    /\ ServiceStart
    /\ sent' = {}
    /\ UNCHANGED <<sessionVars, held>>

TftpNext ==
    \/ \E h \in TftpHosts, p \in Sids :
          \/ \E f \in Files : ReadRequest(h, p, f)
          \/ Ack(h, p)
          \/ Rejected(h, p)
          \/ Ignored(h, p)
    \/ Denied
    \/ Start
    \/ Second

TftpSpec == TftpInit /\ [][TftpNext]_tftpVars

----------------------------------------------------------------------------
(* The descriptor a session reads from stays open on a file for as long as *)
(* the session lives, no two sessions share one, and none is a listener's: *)
(* the sockets are created, the files opened and both given up in          *)
(* different orders by requests of different hosts, and the kernel reuses  *)
(* the lowest number.                                                      *)
SessionFdsSafe ==
    \A h \in Active : held[h].fd # 0 =>
        /\ fdtab[held[h].fd] \in Files
        /\ \A g \in Active \ {h} : held[g].fd # held[h].fd

(* Every listener the event loop waits on has an open socket of its own    *)
(* (listener_add: a duplicate descriptor "should not happen ever").        *)
ListenerFdsSafe ==
    /\ \A l \in Range(listeners) : fdtab[l.fd] = "socket"
    /\ IsInjective([i \in DOMAIN listeners |-> listeners[i].fd])

(* listener_delete cleans the head of the list up twice, so it must never  *)
(* be called for it; host_session_delete calls it with whatever listener   *)
(* has one of the session's descriptors.                                   *)
NoDoubleCleanup == status # "undefined"

(* The data listener stored in a session is one the event loop waits on,   *)
(* connected to the client that opened the session: the client's           *)
(* acknowledgements can reach the handler that way.                        *)
DataListenerListed ==
    \A h \in Active : held[h].l # NoListener =>
        /\ held[h].l \in Range(listeners)
        /\ held[h].l.peer = <<h, session[h].sid>>

(* "server busy" is told to a client only while session_max other hosts    *)
(* have sessions they used within the timeout.                             *)
BusyMeansFull ==
    \A m \in sent : m.about = "busy" =>
        Cardinality((Active \ Expired) \ {m.to[1]}) >= SessionMax

(* However requests, retransmissions, evictions and failures interleave, a *)
(* data block goes to the port that opened the host's current session and  *)
(* comes from the file opened then: the descriptor behind a session never  *)
(* changes its meaning.                                                    *)
Granted == [h \in Hosts |->
    IF h \in Active THEN [tid |-> session[h].sid, src |-> fdtab[held[h].fd]]
    ELSE NoSession]
DataSent == {[to |-> m.to, about |-> m.about] : m \in {n \in sent : n.op = "DATA"}}
Grant == INSTANCE TransferGrant WITH
    Tids <- Sids, Sources <- Files \cup {"stdin"}, NoGrant <- NoSession,
    grant <- Granted, out <- DataSent
GrantRefinement == Grant!Spec

(* TFTP uses the session table as HostSession allows: every handler is one *)
(* operation on it, whichever way it fails.                                *)
TableRefinement == SessionSpec

----------------------------------------------------------------------------
(* What the repository says and the code does not do.                      *)

(* "file descriptors" of an active session (host.h): every file the daemon *)
(* has open belongs to some session.  Nothing closes BF_FD when a session  *)
(* is deleted, so every finished transfer leaves its file open.            *)
FilesHeldBySessions ==
    \A fd \in Fds : fdtab[fd] \in Files => \E h \in Active : held[h].fd = fd

(* An acknowledgement "for an error on connect" is ignored: a request that *)
(* was answered with an error transfers nothing.  After a failed open the  *)
(* session stays, with BF_FD = 0, and the acknowledgement passes the check.*)
NothingAfterOpenError == \A m \in sent : m.about # "stdin"

(* Missing values are only "to annoy the programmer": a listener without a *)
(* host name is listed and the daemon runs on.                             *)
SurvivesNamelessListener == status # "killed"
=============================================================================

-------------------------------- MODULE Bootd --------------------------------
(***************************************************************************)
(* All services that keep sessions, together: the TFTP server (tftp.c)     *)
(* next to RMP and RARP (LinkServices), on one host table with clones.  A  *)
(* host boots by RMP and goes on by TFTP, or asks for both at once; it has *)
(* one session, whose id is a port for the one service and a counter for   *)
(* the other.                                                              *)
(*                                                                         *)
(* A datagram comes from the address of a host name: host_add gives a host *)
(* the address of its name, and names are taken to have one address each.  *)
(* Of tftp_handler the listeners and descriptors are left out, which are   *)
(* in module Tftp, and the block numbers, which are in module Transfer.    *)
(***************************************************************************)
EXTENDS LinkServices

CONSTANTS
    Senders,     \* the names whose addresses send datagrams
    Ports        \* the UDP ports they send from

ASSUME BootdAssumption ==
    /\ Senders \subseteq Names /\ Ports \subseteq 0 .. MaxSid
    /\ "tftp" \in Services

VARIABLES
    data,         \* the blocks sent by the last step
    requested     \* history: the port and file of each sender's last read
                  \* request, if the file was opened

bootdVars == <<vars, data, requested>>

Nothing == [sid |-> Null, from |-> "none"]

BootdInit == Init /\ data = {} /\ requested = [n \in Senders |-> Nothing]

----------------------------------------------------------------------------
util_ip2host(t, n) == util_name2host(t, n)

Reply(t, out) ==
    /\ table' = t /\ data' = out
    /\ sent' = {}
    /\ UNCHANGED <<rmp_sid, arp, opened>>

TftpAllowed(h) == h \notin {Null, Forever} /\ "tftp" \in table.hosts[h].services

(* The client is denied, with an error, or the search for it does not end. *)
TftpDenied(n) ==
    LET h == util_ip2host(table, n)
    IN  /\ ~TftpAllowed(h)
        /\ Reply(IF h = Forever THEN Stop(table, "hung") ELSE table, {})
        /\ UNCHANGED requested

(* A file that is not configured, a write request, a data packet, an error *)
(* or an unknown opcode: at most an error is sent.                         *)
TftpRejected(n) ==
    /\ TftpAllowed(util_ip2host(table, n))
    /\ Reply(table, {})
    /\ UNCHANGED requested

(* The block, unless the read fails or there is no listener to send it.    *)
Blocks(n, p, from) == {{}, {[to |-> n, sid |-> p, from |-> from]}}

(* TFTPOP_RRQ for file f: the host's session, of whatever service, makes   *)
(* room for a new one, if the table is not full.  A session whose open()   *)
(* failed has BF_FD 0, and an error is sent.                               *)
TftpRead(n, p, f) ==
    LET h == util_ip2host(table, n)
        old == host_session_delete(table, h)
        new == IF Running(old)
               THEN host_session_add(old, h, NewSession("tftp", p, table.hosts[h].eth))
               ELSE old
        s == new.hosts[h].session
    IN  /\ TftpAllowed(h)
        /\ \/ /\ ~Running(new) \/ s = Null
              /\ Reply(new, {})
              /\ requested' = [requested EXCEPT ![n] = Nothing]
           \/ /\ Running(new) /\ s # Null
              /\ Reply([new EXCEPT !.sess[s].fd = "stdin"], {})
              /\ requested' = [requested EXCEPT ![n] = Nothing]
           \/ /\ Running(new) /\ s # Null
              /\ \E out \in Blocks(n, p, f) : Reply([new EXCEPT !.sess[s].fd = f], out)
              /\ requested' = [requested EXCEPT ![n] = [sid |-> p, from |-> f]]

(* TFTPOP_ACK from port p: the next block of the session's file.           *)
TftpAck(n, p) ==
    LET h == util_ip2host(table, n)
        t == host_session_check(table, h, "tftp", p)
    IN  /\ TftpAllowed(h)
        /\ IF Running(t) /\ CheckResult(table, h, "tftp", p) = E_NOERROR
           THEN \E out \in Blocks(n, p, SessionOf(table, h).fd) : Reply(t, out)
           ELSE Reply(t, {})
        /\ UNCHANGED requested

Datagram(n) ==
    /\ Running(table)
    /\ \/ TftpDenied(n)
       \/ TftpRejected(n)
       \/ \E p \in Ports, f \in Files : TftpRead(n, p, f)
       \/ \E p \in Ports : TftpAck(n, p)

BootdNext ==
    \/ \E n \in Senders : Datagram(n)
    \/ Next /\ data' = {} /\ UNCHANGED requested

BootdSpec == BootdInit /\ [][BootdNext]_bootdVars

----------------------------------------------------------------------------
(* The hosts clones are made of keep no sessions of their own: none of     *)
(* them is the host of a station that is switched on, nor a TFTP client;   *)
(* and no clone has the name of a machine type.                            *)
MachNames == {MachType[e] : e \in Ethers}

TemplatesStayOff ==
    /\ \A config \in Configured : \A i \in DOMAIN config :
          config[i].name \in MachNames =>
             /\ config[i].eth \notin Stations
             /\ config[i].name \in Senders => "tftp" \notin config[i].services
    /\ \A e \in Ethers : EtherNames[e] \cap MachNames = {}

BootdTypeOK ==
    /\ TypeOK
    /\ data \in SUBSET [to : Senders, sid : Ports, from : Source]
    /\ requested \in [Senders -> {Nothing} \cup [sid : Ports, from : Files]]

(* Neither service serves the other's session, although both look at the   *)
(* same pointer and a port may equal an RMP session id: what a read reply  *)
(* or a block carries was opened by a request of the same service, for the *)
(* same client, with the id it was asked for - and a block is of the last  *)
(* read request, not of an earlier one from the same port.  It holds in    *)
(* spite of retransmissions and evictions, and once the RMP ids exceed     *)
(* what fits on the wire.  Data of standard input are what a session whose *)
(* open() failed is served.                                                *)
ServedAsOpened ==
    /\ \A m \in sent : m.from \in Files =>
          [to |-> m.to, sid |-> m.sid, from |-> m.from] \in opened
    /\ \A m \in data : m.from \in Files =>
          requested[m.to] = [sid |-> m.sid, from |-> m.from]

(* A session in use ends by a request of its own host only, of either      *)
(* service: never because another host, perhaps a clone or the host it was *)
(* cloned from, boots, is done, or finds the table full.                   *)
RequestOf(e) ==
    \/ e \in Stations /\ (BootRequest(e) \/ BootDone(e))
    \/ \E n \in Senders, p \in Ports, f \in Files :
          TftpRead(n, p, f) /\ table.hosts[util_ip2host(table, n)].eth = e

Replaced(s) ==
    /\ table.sess[s] # Free
    /\ table.sess[s].idle <= SessionTimeout
    /\ \/ table'.sess[s] = Free
       \/ table'.sess[s].sid # table.sess[s].sid
       \/ table'.sess[s].service # table.sess[s].service

EndedByItsHost ==
    [][\A s \in SessPtrs : Replaced(s) => RequestOf(table.sess[s].owner)]_bootdVars
=============================================================================

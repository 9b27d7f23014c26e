---------------------------- MODULE LinkServices ----------------------------
(***************************************************************************)
(* The services bootd offers on a link: RARP (rarp.c) and RMP (rmp.c), on  *)
(* the host table.  One action is one captured frame, handled to the end;  *)
(* frames of any station come in any order, late and repeated.             *)
(*                                                                         *)
(* A boot request carries the file util_name2file finds (NoFile if none),  *)
(* MachType is what the boot ROM of a station says it is.  Data are        *)
(* abstracted to the file they come from.  Written frames are not lost     *)
(* here: a station cannot tell a lost frame from one not written.          *)
(*                                                                         *)
(* OpenResultsMinusOne is a faulty variant, used only to confirm that      *)
(* TypeOK can fail.                                                        *)
(***************************************************************************)
EXTENDS HostTable

CONSTANTS
    Configured,       \* the tables the configuration may have built
    MachType,         \* the machine type field of each station's requests
    EtherNames,       \* the names util_ether2name may find for each station
    Files, NoFile,
    ReadSizes,        \* numbers of bytes a read of a file may return
    WireModulus,      \* session ids on the wire: 2^16 in the code
    MaxSid,           \* bound on rmp_sid
    MaxHosts,         \* bound on the number of host_t objects
    Stations          \* the stations that are switched on

ASSUME LinkAssumption ==
    /\ Configured \subseteq Seq([name : Names, eth : Ethers, services : SUBSET Services])
    /\ \A config \in Configured : Len(config) <= MaxHosts
    /\ Stations \subseteq Ethers
    /\ MachType \in [Ethers -> Names]
    /\ EtherNames \in [Ethers -> SUBSET Names]
    /\ Files \cap {"none", "stdin", NoFile} = {}
    /\ {"rmp", "rarp"} \subseteq Services
    /\ WireModulus \in Nat \ {0} /\ MaxSid \in Nat \ {0} /\ MaxHosts \in Nat

VARIABLES
    table,      \* hosts, g_hosts, sess, g_n_sessions, status
    rmp_sid,    \* the last session id
    arp,        \* the stations rarp_updatetable has put into the ARP table
    sent,       \* the frames written by the last step
    opened      \* history: the files opened, for whom, with which session id

vars == <<table, rmp_sid, arp, sent, opened>>

WireIds == 0 .. WireModulus - 1
Source == Files \cup {"stdin"}
Sessions == [service : Services, sid : 0 .. MaxSid, fd : Source \cup {"none"},
             idle : 0 .. SessionTimeout + 1, owner : Ethers]

(* Memory that is not allocated holds no session.                          *)
ASSUME FreeAssumption == Free \notin Sessions

Pointers == 0 .. MaxHosts
HostRecords == [name : Names, eth : Ethers, services : SUBSET Services,
                session : SessPtrs \cup {Null}, next : Pointers]
Frames == [type : {"READ_REPL", "BOOT_REPL", "RARP_REPL"}, to : Ethers, sid : WireIds,
           from : Source \cup {"none"}]

(* A table as host_add leaves it at start-up: linked in order, no session. *)
TableOf(config) ==
    [hosts |-> [i \in DOMAIN config |->
                 [name |-> config[i].name, eth |-> config[i].eth,
                  services |-> config[i].services, session |-> Null,
                  next |-> IF i = Len(config) THEN Null ELSE i + 1]],
     g_hosts |-> IF config = <<>> THEN Null ELSE 1,
     sess |-> [s \in SessPtrs |-> Free], g_n_sessions |-> 0, status |-> "running"]

Init ==
    /\ \E config \in Configured : table = TableOf(config)
    /\ rmp_sid = 1
    /\ arp = {} /\ sent = {} /\ opened = {}

----------------------------------------------------------------------------
(* i_listener_link_send refuses frames of less than 62 bytes.              *)
MinLen == 62
link_send(pktlen, type, to, sid, from) ==
    IF pktlen < MinLen THEN {} ELSE {[type |-> type, to |-> to, sid |-> sid, from |-> from]}

(* What rmp_handler finds for the sender e of a frame: the host, or Null   *)
(* for a client that is denied, with the table afterwards.  An unknown     *)
(* station that sends a boot request becomes a clone of the host named as  *)
(* its machine type; the clone is used although host_add may have ignored  *)
(* it.                                                                     *)
Clones(e, src) ==
    {[t |-> t, h |-> Len(t.hosts)] :
        t \in {host_clone(table, src, e, n, ip) : n \in EtherNames[e], ip \in BOOLEAN}}

Found(e, isBootReq) ==
    LET h == util_ether2host(table, e)
        src == util_name2host(table, MachType[e])
    IN  IF h = Forever THEN {[t |-> Stop(table, "hung"), h |-> Null]}
        ELSE IF h = Null /\ isBootReq /\ src # Null THEN Clones(e, src)
        ELSE {[t |-> table, h |-> h]}

Allowed(found, service) ==
    /\ Running(found.t)
    /\ found.h # Null
    /\ service \in found.t.hosts[found.h].services

(* The frame is answered with out, and the table becomes t.                *)
Answer(t, out) ==
    /\ Len(t.hosts) <= MaxHosts
    /\ table' = t
    /\ sent' = out

(* The client is denied, or the daemon has stopped on the way to it.       *)
Denied(e, isBootReq, service) ==
    /\ \E found \in Found(e, isBootReq) :
          ~Allowed(found, service) /\ Answer(found.t, {})
    /\ UNCHANGED <<rmp_sid, arp, opened>>

----------------------------------------------------------------------------
(* A RARP request for station e: the kernel is told its address, which may *)
(* fail, then the reply of max(60, 42) bytes goes to the link.             *)
RarpLen == 60

RarpRequest(e) ==
    \/ Denied(e, FALSE, "rarp")
    \/ /\ \E found \in Found(e, FALSE) :
             /\ Allowed(found, "rarp")
             /\ Answer(found.t, link_send(RarpLen, "RARP_REPL", e, 0, "none"))
       /\ arp' \in {arp, arp \cup {e}}
       /\ UNCHANGED <<rmp_sid, opened>>

(* A boot request of another protocol version, or a probe: the answer to a *)
(* probe is RMP_BOOT_REPL bytes and a server or file name of len bytes.    *)
RMP_BOOT_REPL == 21
NameLens == {0, 41}

Probe(e) ==
    /\ \E found \in Found(e, TRUE), len \in NameLens :
          /\ Allowed(found, "rmp")
          /\ \E out \in {{}, link_send(RMP_BOOT_REPL + len, "BOOT_REPL", e, 0, "none")} :
                Answer(found.t, out)
    /\ UNCHANGED <<rmp_sid, arp, opened>>

(* A boot request for a file: none is configured, and the log message      *)
(* reads the path of the null file; or the session table is full; or       *)
(* open() fails, which leaves BF_FD 0, or succeeds.  The reply that was    *)
(* prepared is not sent in any case.                                       *)
NoSuchFile(t) ==
    /\ Answer(Stop(t, "killed"), {})
    /\ UNCHANGED <<rmp_sid, opened>>

OpenResultsMinusOne(f) == {f, "minus one"}

OpenResults(f) == {f, "stdin"}

WithSession(e, h, t, f, sid) ==
    LET new == host_session_add(t, h, NewSession("rmp", sid, e))
        s == new.hosts[h].session
    IN  /\ rmp_sid' = sid
        /\ \/ /\ ~Running(new) \/ s = Null
              /\ Answer(new, {})
              /\ UNCHANGED opened
           \/ /\ Running(new) /\ s # Null
              /\ \E fd \in OpenResults(f) :
                    /\ Answer([new EXCEPT !.sess[s].fd = fd], {})
                    /\ opened' = IF fd = "stdin" THEN opened
                                 ELSE opened \cup {[to |-> e, sid |-> sid, from |-> f]}

BootFile(e, f) ==
    /\ rmp_sid < MaxSid
    /\ \E found \in Found(e, TRUE) :
          /\ Allowed(found, "rmp")
          /\ IF f = NoFile THEN NoSuchFile(found.t)
             ELSE WithSession(e, found.h, found.t, f, rmp_sid + 1)
    /\ UNCHANGED arp

BootRequest(e) ==
    \/ Denied(e, TRUE, "rmp")
    \/ Probe(e)
    \/ \E f \in Files \cup {NoFile} : BootFile(e, f)

(* A read request: the session is asked for by the id on the wire.  The    *)
(* reply is RMP_READ_REPL bytes and what read() returned, with an error    *)
(* code when that is nothing, or -1.                                       *)
RMP_READ_REPL == 18

ReadReplies(t, h, e, sid) ==
    LET Reply(size, from) == link_send(RMP_READ_REPL + size, "READ_REPL", e, sid, from)
    IN  IF ~Running(t) THEN {{}}
        ELSE IF CheckResult(t, h, "rmp", sid) # E_NOERROR THEN {Reply(0, "none")}
        ELSE {Reply(size, SessionOf(t, h).fd) : size \in ReadSizes \cup {0, -1}}

ReadRequest(e, sid) ==
    \/ Denied(e, FALSE, "rmp")
    \/ /\ \E found \in Found(e, FALSE) :
             /\ Allowed(found, "rmp")
             /\ LET t == host_session_check(found.t, found.h, "rmp", sid)
                IN  \E out \in ReadReplies(t, found.h, e, sid) : Answer(t, out)
       /\ UNCHANGED <<rmp_sid, arp, opened>>

(* The client is done; neither the session id nor the service is looked at.*)
BootDone(e) ==
    \/ Denied(e, FALSE, "rmp")
    \/ /\ \E found \in Found(e, FALSE) :
             /\ Allowed(found, "rmp")
             /\ Answer(host_session_delete(found.t, found.h), {})
       /\ UNCHANGED <<rmp_sid, arp, opened>>

(* i_listener_link_pcap_callback: the handler by the type of the frame.    *)
Frame(e) ==
    /\ Running(table)
    /\ \/ RarpRequest(e)
       \/ BootRequest(e)
       \/ \E sid \in WireIds : ReadRequest(e, sid)
       \/ BootDone(e)

(* A second passes.                                                        *)
Tick ==
    /\ Running(table)
    /\ table' = [table EXCEPT !.sess = [s \in SessPtrs |->
                   IF table.sess[s] = Free \/ table.sess[s].idle > SessionTimeout
                   THEN table.sess[s] ELSE [table.sess[s] EXCEPT !.idle = @ + 1]]]
    /\ sent' = {}
    /\ UNCHANGED <<rmp_sid, arp, opened>>

Next == (\E e \in Stations : Frame(e)) \/ Tick

Spec == Init /\ [][Next]_vars

----------------------------------------------------------------------------
TypeOK ==
    /\ table.hosts \in Seq(HostRecords)
    /\ table.g_hosts \in Pointers
    /\ table.sess \in [SessPtrs -> Sessions \cup {Free}]
    /\ table.g_n_sessions \in Int
    /\ table.status \in {"running", "exited", "killed", "hung", "undefined"}
    /\ rmp_sid \in 1 .. MaxSid
    /\ arp \in SUBSET Ethers
    /\ sent \in SUBSET Frames
    /\ opened \in SUBSET [to : Ethers, sid : 0 .. MaxSid, from : Files]

(* The counter equals the number of session structures that are allocated, *)
(* also those of clones, listed or not: host_clone copies a pointer        *)
(* without counting, host_session_delete frees through either.             *)
CountIsLive ==
    Running(table) =>
        table.g_n_sessions = Cardinality({s \in SessPtrs : table.sess[s] # Free})

(* No two hosts share a session and no session pointer outlives its        *)
(* session, as long as the host a clone is made of never boots itself.     *)
SessionsUnshared ==
    \A h \in DOMAIN table.hosts : HasSession(table, h) =>
        /\ ~Dangling(table, h)
        /\ \A g \in DOMAIN table.hosts \ {h} :
              table.hosts[g].session # table.hosts[h].session

----------------------------------------------------------------------------
(* What the repository says and the code does not do.                      *)

(* A frame has at least 60 bytes without the checksum, as the comment of   *)
(* i_listener_link_send says: a station whose address was just given to    *)
(* the kernel, because it could not answer an ARP request itself, is sent  *)
(* its RARP reply.                                                         *)
RarpAnswered == [][arp' # arp => sent' # {}]_vars
=============================================================================

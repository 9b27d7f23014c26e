---------------------------- MODULE Tftp_proofs ----------------------------
(***************************************************************************)
(* Proofs about the TFTP server of module Tftp, for any number of hosts,   *)
(* ports, files and descriptors.  First, every handler is one operation on *)
(* the session table, so what HostSession_proofs shows of the table holds  *)
(* of the server; then the descriptors; last, what clients are promised.   *)
(***************************************************************************)
EXTENDS Tftp, HostSession_proofs, SequenceTheorems

(* The previous step's session operations: a read request deletes the      *)
(* session and dies, or asks for a new one.                                *)
LEMMA ReadRequestTable ==
  ASSUME NEW h \in TftpHosts, NEW p \in Sids, NEW f \in Files, ReadRequest(h, p, f)
  PROVE  Close(h) \/ Open(h)
BY TftpAssumption DEF ReadRequest, Killed, Close, Open

LEMMA TableStep == TftpNext => [SessionNext]_sessionVars
<1> SUFFICES ASSUME TftpNext PROVE [SessionNext]_sessionVars
  OBVIOUS
<1>1. TftpHosts \subseteq Hosts
  BY TftpAssumption
<1>2. ASSUME NEW h \in TftpHosts, NEW p \in Sids, NEW f \in Files, ReadRequest(h, p, f)
      PROVE  SessionNext
  BY <1>1, <1>2, ReadRequestTable DEF SessionNext
<1>3. ASSUME NEW h \in TftpHosts, NEW p \in Sids, Ack(h, p)
      PROVE  SessionNext
  BY <1>1, <1>3, TftpAssumption DEF Ack, Continue, SessionNext
<1>4. ASSUME NEW h \in TftpHosts, NEW p \in Sids, Rejected(h, p) \/ Ignored(h, p)
      PROVE  UNCHANGED sessionVars
  BY <1>4 DEF Rejected, Ignored
<1>5. CASE Denied
  BY <1>5 DEF Denied
<1>6. CASE Start
  BY <1>6 DEF Start
<1>7. CASE Second
  BY <1>7 DEF Second, SessionNext
<1> QED
  BY <1>2, <1>3, <1>4, <1>5, <1>6, <1>7 DEF TftpNext

(* The TFTP server uses the session table as HostSession allows, on every  *)
(* path through its handler, the failing ones included.                    *)
THEOREM TableImplemented == TftpSpec => TableRefinement
<1>1. TftpInit => SessionInit
  BY DEF TftpInit
<1>2. UNCHANGED tftpVars => UNCHANGED sessionVars
  BY DEF tftpVars, sessionVars
<1> QED
  BY <1>1, <1>2, TableStep, PTL DEF TftpSpec, TableRefinement, SessionSpec

----------------------------------------------------------------------------
(* Facts about the descriptor table and the listener list.                 *)
IoRecord == [listeners : Seq(ListenerRecords),
             fdtab : [0 .. MaxFd -> FdUses \cup {"stdin"}],
             status : {"starting", "running", "killed", "undefined"}]

(* Every listed listener has a socket of its own.                          *)
SafeIo(io) ==
    /\ io \in IoRecord
    /\ \A i \in 1 .. Len(io.listeners) : io.fdtab[io.listeners[i].fd] = "socket"
    /\ \A i, j \in 1 .. Len(io.listeners) :
          io.listeners[i].fd = io.listeners[j].fd => i = j

(* The files open in io are still open in the later table.                 *)
FilesKept(io, later) ==
    \A fd \in 0 .. MaxFd : io.fdtab[fd] \in Files => later.fdtab[fd] = io.fdtab[fd]

(* The socket or file behind a listed listener or a session is not free.   *)
LEMMA ListedFd ==
  ASSUME NEW io \in IoRecord, NEW i \in 1 .. Len(io.listeners)
  PROVE  /\ io.listeners[i] \in ListenerRecords
         /\ io.listeners[i].fd \in Fds
         /\ io.listeners[i].fd \in 0 .. MaxFd
<1>1. io.listeners \in Seq(ListenerRecords)
  BY DEF IoRecord
<1>2. io.listeners[i] \in ListenerRecords
  BY <1>1, ElementOfSeq
<1> QED
  BY <1>2, MaxFdAssumption DEF ListenerRecords, Fds

LEMMA FreeFd ==
  ASSUME NEW io, NEW fd \in LowestFree(io)
  PROVE  fd \in Fds /\ fd \in 0 .. MaxFd /\ io.fdtab[fd] = "free"
BY MaxFdAssumption DEF LowestFree, Free, Fds

LEMMA OpenAsFields ==
  ASSUME NEW io \in IoRecord, NEW use \in FdUses, NEW fd \in 0 .. MaxFd
  PROVE  /\ OpenAs(io, fd, use) \in IoRecord
         /\ OpenAs(io, fd, use).listeners = io.listeners
         /\ OpenAs(io, fd, use).status = io.status
         /\ OpenAs(io, fd, use).fdtab = [io.fdtab EXCEPT ![fd] = use]
BY DEF OpenAs, IoRecord

(* Opening a socket or a file leaves every descriptor in use alone.        *)
LEMMA OpenSafe ==
  ASSUME NEW io, SafeIo(io), NEW fd \in LowestFree(io), NEW use \in FdUses
  PROVE  /\ SafeIo(OpenAs(io, fd, use))
         /\ FilesKept(io, OpenAs(io, fd, use))
         /\ OpenAs(io, fd, use).fdtab[fd] = use
         /\ \A i \in 1 .. Len(io.listeners) : io.listeners[i].fd # fd
<1> DEFINE new == OpenAs(io, fd, use)
<1>1. fd \in 0 .. MaxFd /\ io.fdtab[fd] = "free"
  BY FreeFd
<1>2. io \in IoRecord
  BY DEF SafeIo
<1>3. /\ new \in IoRecord
      /\ new.listeners = io.listeners
      /\ new.fdtab = [io.fdtab EXCEPT ![fd] = use]
  BY <1>1, <1>2, OpenAsFields
<1> HIDE DEF new
<1>4. io.fdtab \in [0 .. MaxFd -> FdUses \cup {"stdin"}]
  BY <1>2 DEF IoRecord
<1>5. ASSUME NEW i \in 1 .. Len(io.listeners)
      PROVE  io.listeners[i].fd # fd /\ new.fdtab[io.listeners[i].fd] = "socket"
  <2>1. io.fdtab[io.listeners[i].fd] = "socket"
    BY DEF SafeIo
  <2>2. io.listeners[i].fd \in 0 .. MaxFd
    BY <1>2, ListedFd
  <2> QED
    BY <1>1, <1>3, <1>4, <2>1, <2>2
<1>6. SafeIo(new)
  BY <1>3, <1>5 DEF SafeIo
<1>7. FilesKept(io, new)
  BY <1>1, <1>3, <1>4, FilesAssumption DEF FilesKept
<1>8. new.fdtab[fd] = use
  BY <1>1, <1>3, <1>4
<1> QED
  BY <1>5, <1>6, <1>7, <1>8 DEF new

(* A listener for a descriptor that no listed one has goes to the end.     *)
LEMMA InsertSafe ==
  ASSUME NEW io, SafeIo(io), NEW l \in ListenerRecords,
         io.fdtab[l.fd] = "socket",
         \A i \in 1 .. Len(io.listeners) : io.listeners[i].fd # l.fd
  PROVE  /\ SafeIo(Insert(io, l))
         /\ Insert(io, l).fdtab = io.fdtab
         /\ Insert(io, l).status = io.status
<1>1. io \in IoRecord /\ io.listeners \in Seq(ListenerRecords)
  BY DEF SafeIo, IoRecord
<1>2. ~\E n \in Range(io.listeners) : n.fd = l.fd
  BY <1>1, LenProperties DEF Range
<1> DEFINE new == Insert(io, l)
<1>3. /\ new \in IoRecord
      /\ new.listeners = Append(io.listeners, l)
      /\ new.fdtab = io.fdtab
      /\ new.status = io.status
  <2> DEFINE longer == Append(io.listeners, l)
  <2>1. longer \in Seq(ListenerRecords)
    BY <1>1, AppendProperties
  <2>2. new = [io EXCEPT !.listeners = longer]
    BY <1>2 DEF Insert
  <2> HIDE DEF longer, new
  <2>3. /\ new \in IoRecord
        /\ new.listeners = longer
        /\ new.fdtab = io.fdtab
        /\ new.status = io.status
    BY <1>1, <2>1, <2>2 DEF IoRecord
  <2> QED
    BY <2>3 DEF longer
<1> HIDE DEF new
<1>4. /\ Len(new.listeners) = Len(io.listeners) + 1
      /\ \A i \in 1 .. Len(new.listeners) :
            new.listeners[i] = IF i = Len(io.listeners) + 1 THEN l ELSE io.listeners[i]
      /\ Len(io.listeners) \in Nat
  BY <1>1, <1>3, AppendProperties
<1>5. SafeIo(new)
  BY <1>3, <1>4 DEF SafeIo
<1> QED
  BY <1>3, <1>5 DEF new

(* The data listener of a read request: after listener_new_udp and         *)
(* listener_add every listed listener still has a socket of its own, and   *)
(* no file in use was touched.                                             *)
LEMMA NewListenerSafe ==
  ASSUME NEW io, SafeIo(io), NEW peer \in Peers \cup {AnyPeer},
         NEW new \in listener_new_udp(io, peer),
         NEW later \in listener_add(new.io, new.l)
  PROVE  /\ SafeIo(later)
         /\ FilesKept(io, later)
         /\ later.status \in {io.status, "killed"}
         /\ new.l \in ListenerRecords \cup {NoListener}
<1>a. io \in IoRecord
  BY DEF SafeIo
<1>1. CASE new = [io |-> io, l |-> NoListener]
  BY <1>1 DEF listener_add, FilesKept
<1>2. CASE \E fd \in LowestFree(io) :
              new = [io |-> OpenAs(io, fd, "socket"), l |-> [fd |-> fd, peer |-> peer]]
  <2>1. PICK fd \in LowestFree(io) :
           new = [io |-> OpenAs(io, fd, "socket"), l |-> [fd |-> fd, peer |-> peer]]
    BY <1>2
  <2> DEFINE opened == OpenAs(io, fd, "socket")
             l == [fd |-> fd, peer |-> peer]
  <2>2. "socket" \in FdUses /\ fd \in Fds /\ fd \in 0 .. MaxFd
    BY FreeFd DEF FdUses
  <2>3. l \in ListenerRecords /\ l # NoListener /\ l.fd = fd
    BY <2>2, NoListenerAssumption DEF ListenerRecords
  <2>4. /\ SafeIo(opened)
        /\ FilesKept(io, opened)
        /\ opened.fdtab[fd] = "socket"
        /\ opened.listeners = io.listeners
        /\ opened.status = io.status
        /\ \A i \in 1 .. Len(io.listeners) : io.listeners[i].fd # fd
    <3>1. /\ SafeIo(opened)
          /\ FilesKept(io, opened)
          /\ opened.fdtab[fd] = "socket"
          /\ \A i \in 1 .. Len(io.listeners) : io.listeners[i].fd # fd
      BY <2>2, OpenSafe
    <3>2. opened.listeners = io.listeners /\ opened.status = io.status
      BY <1>a, <2>2, OpenAsFields
    <3> QED
      BY <3>1, <3>2
  <2>5. new.io = opened /\ new.l = l
    BY <2>1
  <2> HIDE DEF opened, l
  <2>6. /\ SafeIo(Insert(opened, l))
        /\ Insert(opened, l).fdtab = opened.fdtab
        /\ Insert(opened, l).status = opened.status
    BY <2>3, <2>4, InsertSafe
  <2>7. \/ later = [opened EXCEPT !.status = "killed"]
        \/ later = Insert(opened, l)
    BY <2>3, <2>5 DEF listener_add
  <2>8. CASE later = [opened EXCEPT !.status = "killed"]
    <3>1. /\ later \in IoRecord
          /\ later.listeners = opened.listeners
          /\ later.fdtab = opened.fdtab
          /\ later.status = "killed"
      BY <2>4, <2>8 DEF SafeIo, IoRecord
    <3>2. SafeIo(later)
      BY <2>4, <3>1 DEF SafeIo
    <3> QED
      BY <2>3, <2>4, <2>5, <3>1, <3>2 DEF FilesKept
  <2>9. CASE later = Insert(opened, l)
    BY <2>3, <2>4, <2>5, <2>6, <2>9 DEF FilesKept
  <2> QED
    BY <2>7, <2>8, <2>9
<1> QED
  BY <1>1, <1>2 DEF listener_new_udp

(* host_session_delete drops no listener as long as the descriptors of the *)
(* session are files.                                                      *)
LEMMA DropNothing ==
  ASSUME NEW io, SafeIo(io), NEW fds, \A fd \in fds : io.fdtab[fd] \in Files
  PROVE  listener_delete(io, fds) = io
<1>1. io.listeners \in Seq(ListenerRecords)
  BY DEF SafeIo, IoRecord
<1>2. \A i \in 1 .. Len(io.listeners) : io.fdtab[io.listeners[i].fd] = "socket"
  BY DEF SafeIo
<1>3. listener_search_by_fd(io, fds) = {}
  BY <1>1, <1>2, LenProperties, FilesAssumption DEF listener_search_by_fd, Range
<1> QED
  BY <1>3 DEF listener_delete

----------------------------------------------------------------------------
(* The inductive invariant behind the descriptor safety properties.  It    *)
(* adds to them that a host without a session holds nothing (the memset of *)
(* host_session_add): else a new session could inherit a descriptor.       *)
Hold == [fd : 0 .. MaxFd, l : ListenerRecords \cup {NoListener}]

FdInv ==
    /\ SafeIo(Io)
    /\ NoDoubleCleanup
    /\ held \in [Hosts -> Hold]
    /\ \A h \in Hosts \ Active : held[h] = NoHold
    /\ SessionFdsSafe

LEMMA NoHoldType == NoHold \in Hold
BY MaxFdAssumption DEF NoHold, Hold

(* Steps that touch neither descriptors nor the set of sessions.           *)
LEMMA FdInvKept ==
  ASSUME FdInv, UNCHANGED <<ioVars, held, Active>>
  PROVE  FdInv'
<1>1. UNCHANGED <<listeners, fdtab, status, held, Active>>
  BY DEF ioVars
<1>2. UNCHANGED Io
  BY <1>1 DEF Io
<1> QED
  BY <1>1, <1>2 DEF FdInv, SafeIo, NoDoubleCleanup, SessionFdsSafe

LEMMA IoTaken ==
  ASSUME NEW io \in IoRecord, IoBecomes(io)
  PROVE  Io' = io /\ fdtab' = io.fdtab /\ status' = io.status
BY DEF IoBecomes, Io, IoRecord

(* No step of the server deletes a listener.                               *)
LEMMA SessionsDropNothing ==
  ASSUME FdInv, NEW io, SafeIo(io), FilesKept(Io, io), NEW S \in SUBSET Active
  PROVE  DropListeners(io, S) = io
<1> DEFINE fds == {held[g].fd : g \in S} \ {0}
<1>1. \A fd \in fds : io.fdtab[fd] \in Files
  <2> SUFFICES ASSUME NEW g \in S, held[g].fd # 0
               PROVE  io.fdtab[held[g].fd] \in Files
    OBVIOUS
  <2>1. g \in Hosts /\ fdtab[held[g].fd] \in Files
    BY DEF FdInv, SessionFdsSafe, Active
  <2>2. held[g].fd \in 0 .. MaxFd
    BY <2>1 DEF FdInv, Hold
  <2> QED
    BY <2>1, <2>2 DEF FilesKept, Io
<1>2. listener_delete(io, fds) = io
  BY <1>1, DropNothing
<1> QED
  BY <1>2 DEF DropListeners

(* What the sessions hold after host_session_add for h: the new session    *)
(* nothing, the remaining ones what they held, still open.                 *)
LEMMA HoldsSafe ==
  ASSUME FdInv, NEW h \in Hosts, NEW io, FilesKept(Io, io),
         Active' \subseteq (Active \ Gone(h)) \cup {h}
  PROVE  /\ HoldsAfterAdd(h) \in [Hosts -> Hold]
         /\ \A g \in Hosts \ Active' : HoldsAfterAdd(h)[g] = NoHold \/ g \in Active \ Gone(h)
         /\ HoldsAfterAdd(h)[h] = NoHold
         /\ \A g \in Active' \ {h} :
              /\ g \in Active
              /\ HoldsAfterAdd(h)[g] = held[g]
              /\ held[g].fd # 0 => /\ held[g].fd \in 0 .. MaxFd
                                   /\ io.fdtab[held[g].fd] \in Files
<1> DEFINE holds == HoldsAfterAdd(h)
<1>1. \A g \in Hosts : holds[g] = IF g \in Gone(h) THEN NoHold ELSE held[g]
  BY DEF HoldsAfterAdd
<1>2. holds \in [Hosts -> Hold]
  BY NoHoldType DEF HoldsAfterAdd, FdInv
<1>3. holds[h] = NoHold
  BY <1>1 DEF FdInv, Gone
<1>4. \A g \in Hosts \ Active' : holds[g] = NoHold \/ g \in Active \ Gone(h)
  BY <1>1 DEF FdInv
<1>5. ASSUME NEW g \in Active' \ {h}
      PROVE  /\ g \in Active
             /\ holds[g] = held[g]
             /\ held[g].fd # 0 => /\ held[g].fd \in 0 .. MaxFd
                                  /\ io.fdtab[held[g].fd] \in Files
  <2>1. g \in Active \ Gone(h) /\ g \in Hosts
    BY DEF Active
  <2>2. held[g].fd \in 0 .. MaxFd
    BY <2>1 DEF FdInv, Hold
  <2>3. held[g].fd # 0 => fdtab[held[g].fd] \in Files
    BY <2>1 DEF FdInv, SessionFdsSafe
  <2> QED
    BY <1>1, <2>1, <2>2, <2>3 DEF FilesKept, Io
<1> QED
  BY <1>2, <1>3, <1>4, <1>5

(* The three continuations of a read request that get past listener_add.   *)
LEMMA ContinuationSafe ==
  ASSUME TypeOK, FdInv,
         NEW h \in Hosts, NEW p \in Sids, NEW f \in Files, NEW l \in Range(listeners),
         NEW dl \in ListenerRecords \cup {NoListener},
         NEW io, SafeIo(io), FilesKept(Io, io), io.status # "undefined",
         host_session_add(h, SERVICE_TFTP, p),
         \/ Busy(h, p, l, io)
         \/ OpenFails(h, p, l, io)
         \/ Opened(h, p, f, l, dl, io)
  PROVE  FdInv'
<1>1. Active' = (Active \ Gone(h)) \cup (IF Admits(h) THEN {h} ELSE {})
  BY AddActive, TftpAssumption
<1> DEFINE holds == HoldsAfterAdd(h)
<1>2. /\ holds \in [Hosts -> Hold]
      /\ \A g \in Hosts \ Active' : holds[g] = NoHold
      /\ holds[h] = NoHold
      /\ \A g \in Active' \ {h} :
           /\ g \in Active
           /\ holds[g] = held[g]
           /\ held[g].fd # 0 => /\ held[g].fd \in 0 .. MaxFd
                                /\ io.fdtab[held[g].fd] \in Files
  <2>1. Active' \subseteq (Active \ Gone(h)) \cup {h}
    BY <1>1
  <2>2. \A g \in Hosts \ Active' : g \notin Active \ Gone(h)
    BY <1>1
  <2> QED
    BY <2>1, <2>2, HoldsSafe
<1>3. \A g, k \in Active : held[g].fd # 0 /\ g # k => held[g].fd # held[k].fd
  BY DEF FdInv, SessionFdsSafe
<1> HIDE DEF holds
<1>4. CASE held' = holds /\ IoBecomes(io)
  <2>1. Io' = io /\ fdtab' = io.fdtab /\ status' = io.status
    BY <1>4, IoTaken DEF SafeIo
  <2>2. SessionFdsSafe'
    <3> SUFFICES ASSUME NEW g \in Active', holds[g].fd # 0
                 PROVE  /\ io.fdtab[holds[g].fd] \in Files
                        /\ \A k \in Active' \ {g} : holds[k].fd # holds[g].fd
      BY <1>4, <2>1 DEF SessionFdsSafe
    <3>1. g # h
      BY <1>2 DEF NoHold
    <3>2. /\ g \in Active /\ holds[g] = held[g] /\ held[g].fd # 0
          /\ io.fdtab[held[g].fd] \in Files
      BY <1>2, <3>1
    <3>3. ASSUME NEW k \in Active' \ {g} PROVE holds[k].fd # holds[g].fd
      <4>1. CASE k = h
        BY <1>2, <4>1 DEF NoHold
      <4>2. CASE k # h
        BY <1>2, <1>3, <3>2, <4>2
      <4> QED
        BY <4>1, <4>2
    <3> QED
      BY <3>2, <3>3
  <2>3. NoDoubleCleanup'
    BY <2>1 DEF NoDoubleCleanup
  <2>4. \A g \in Hosts \ Active' : held'[g] = NoHold
    BY <1>2, <1>4
  <2> QED
    BY <1>2, <1>4, <2>1, <2>2, <2>3, <2>4 DEF FdInv
<1>5. CASE Opened(h, p, f, l, dl, io)
  <2>1. PICK fd \in LowestFree(io) :
           /\ IoBecomes(OpenAs(io, fd, f))
           /\ held' = [holds EXCEPT ![h] = [fd |-> fd, l |-> dl]]
    BY <1>5 DEF Opened, holds
  <2> DEFINE new == OpenAs(io, fd, f)
  <2>2. fd \in Fds /\ fd \in 0 .. MaxFd /\ io.fdtab[fd] = "free"
    BY FreeFd
  <2>3. io \in IoRecord /\ f \in FdUses
    BY DEF SafeIo, FdUses
  <2>4. SafeIo(new) /\ FilesKept(io, new) /\ new.fdtab[fd] = f
    BY <2>3, OpenSafe
  <2>5. new \in IoRecord /\ new.status = io.status
    BY <2>2, <2>3, OpenAsFields
  <2> HIDE DEF new
  <2>6. Io' = new /\ fdtab' = new.fdtab /\ status' = io.status
    <3>1. IoBecomes(new)
      BY <2>1 DEF new
    <3> QED
      BY <2>5, <3>1, IoTaken
  <2>7. h \in Active'
    BY <1>1, <1>5 DEF Opened
  <2>8. /\ held' \in [Hosts -> Hold]
        /\ held'[h].fd = fd
        /\ \A g \in Hosts \ {h} : held'[g] = holds[g]
    BY <1>2, <2>1, <2>2 DEF Hold
  <2>9. \A g \in Hosts \ Active' : held'[g] = NoHold
    BY <1>2, <2>7, <2>8
  <2>10. ASSUME NEW g \in Active' \ {h}, held'[g].fd # 0
         PROVE  /\ g \in Active /\ held'[g] = held[g]
                /\ new.fdtab[held[g].fd] \in Files
                /\ held[g].fd # fd
    <3>1. /\ g \in Active /\ held'[g] = held[g] /\ held[g].fd # 0
          /\ held[g].fd \in 0 .. MaxFd /\ io.fdtab[held[g].fd] \in Files
      BY <1>2, <2>8, <2>10 DEF Active
    <3>2. new.fdtab[held[g].fd] = io.fdtab[held[g].fd]
      BY <2>4, <3>1 DEF FilesKept
    <3> QED
      BY <2>2, <3>1, <3>2, FilesAssumption
  <2>11. SessionFdsSafe'
    <3> SUFFICES ASSUME NEW g \in Active', held'[g].fd # 0
                 PROVE  /\ new.fdtab[held'[g].fd] \in Files
                        /\ \A k \in Active' \ {g} : held'[k].fd # held'[g].fd
      BY <2>6 DEF SessionFdsSafe
    <3>1. CASE g = h
      BY <2>4, <2>8, <2>10, <3>1
    <3>2. CASE g # h
      <4>1. /\ g \in Active /\ held'[g] = held[g] /\ held[g].fd # fd
            /\ new.fdtab[held[g].fd] \in Files
        BY <2>10, <3>2
      <4>2. ASSUME NEW k \in Active' \ {g} PROVE held'[k].fd # held'[g].fd
        BY <1>3, <2>8, <2>10, <4>1, <4>2
      <4> QED
        BY <4>1, <4>2
    <3> QED
      BY <3>1, <3>2
  <2>12. NoDoubleCleanup'
    BY <2>6 DEF NoDoubleCleanup
  <2> QED
    BY <2>4, <2>6, <2>8, <2>9, <2>11, <2>12 DEF FdInv
<1> QED
  BY <1>4, <1>5 DEF Busy, OpenFails, holds

(* A read request, whichever way it ends.                                  *)
LEMMA ReadRequestSafe ==
  ASSUME TypeOK, FdInv,
         NEW h \in TftpHosts, NEW p \in Sids, NEW f \in Files, ReadRequest(h, p, f)
  PROVE  FdInv'
<1>1. h \in Hosts /\ <<h, p>> \in Peers
  BY TftpAssumption
<1>2. SafeIo(Io) /\ FilesKept(Io, Io)
  BY DEF FdInv, FilesKept
<1>3. DropListeners(Io, {h} \cap Active) = Io
  BY <1>2, SessionsDropNothing
<1> DEFINE Rest(l, new, io) ==
             \/ io.status = "killed" /\ Killed(h, io)
             \/ /\ io.status # "killed"
                /\ host_session_add(h, SERVICE_TFTP, p)
                /\ LET left == DropListeners(io, Expired \ {h})
                   IN  \/ Busy(h, p, l, left)
                       \/ OpenFails(h, p, l, left)
                       \/ Opened(h, p, f, l, new.l, left)
<1>a. PICK l \in Range(listeners), new \in listener_new_udp(Io, <<h, p>>) :
         \E io \in listener_add(new.io, new.l) : Rest(l, new, io)
  BY <1>3 DEF ReadRequest
<1>4. PICK io \in listener_add(new.io, new.l) : Rest(l, new, io)
  BY <1>a
<1>5. /\ SafeIo(io)
      /\ FilesKept(Io, io)
      /\ io.status \in {status, "killed"}
      /\ new.l \in ListenerRecords \cup {NoListener}
  BY <1>1, <1>2, NewListenerSafe DEF Io
<1>6. io.status # "undefined"
  BY <1>5 DEF FdInv, NoDoubleCleanup
<1>7. CASE io.status = "killed" /\ Killed(h, io)
  <2>1. Io' = io /\ fdtab' = io.fdtab /\ status' = io.status
    BY <1>5, <1>7, IoTaken DEF Killed, SafeIo
  <2>2. Active' = Active \ {h}
    BY <1>1, <1>7, DeleteActive DEF Killed
  <2>3. /\ held' \in [Hosts -> Hold]
        /\ \A g \in Hosts : held'[g] = IF g = h THEN NoHold ELSE held[g]
    BY <1>1, <1>7, NoHoldType DEF Killed, FdInv
  <2>4. \A g \in Hosts \ Active' : held'[g] = NoHold
    BY <2>2, <2>3 DEF FdInv
  <2>5. SessionFdsSafe'
    <3> SUFFICES ASSUME NEW g \in Active', held'[g].fd # 0
                 PROVE  /\ fdtab'[held'[g].fd] \in Files
                        /\ \A k \in Active' \ {g} : held'[k].fd # held'[g].fd
      BY DEF SessionFdsSafe
    <3>1. g \in Active /\ g \in Hosts /\ held'[g] = held[g]
      BY <2>2, <2>3 DEF Active
    <3>2. held[g].fd \in 0 .. MaxFd /\ fdtab[held[g].fd] \in Files
      BY <3>1 DEF FdInv, SessionFdsSafe, Hold
    <3>3. fdtab'[held[g].fd] \in Files
      BY <1>5, <2>1, <3>2 DEF FilesKept, Io
    <3>4. ASSUME NEW k \in Active' \ {g} PROVE held'[k].fd # held'[g].fd
      <4>1. k \in Active /\ k \in Hosts /\ held'[k] = held[k]
        BY <2>2, <2>3 DEF Active
      <4> QED
        BY <3>1, <4>1 DEF FdInv, SessionFdsSafe
    <3> QED
      BY <3>1, <3>3, <3>4
  <2>6. NoDoubleCleanup'
    BY <1>6, <2>1 DEF NoDoubleCleanup
  <2> QED
    BY <1>5, <2>1, <2>3, <2>4, <2>5, <2>6 DEF FdInv
<1>8. CASE /\ host_session_add(h, SERVICE_TFTP, p)
           /\ LET left == DropListeners(io, Expired \ {h})
              IN  \/ Busy(h, p, l, left)
                  \/ OpenFails(h, p, l, left)
                  \/ Opened(h, p, f, l, new.l, left)
  <2>1. DropListeners(io, Expired \ {h}) = io
    <3>1. Expired \ {h} \in SUBSET Active
      BY DEF Expired
    <3> QED
      BY <1>5, <3>1, SessionsDropNothing
  <2>2. \/ Busy(h, p, l, io)
        \/ OpenFails(h, p, l, io)
        \/ Opened(h, p, f, l, new.l, io)
    BY <1>8, <2>1
  <2> QED
    BY <1>1, <1>5, <1>6, <1>8, <2>2, ContinuationSafe
<1> QED
  BY <1>4, <1>7, <1>8

LEMMA StartSafe ==
  ASSUME FdInv, Start
  PROVE  FdInv'
<1>1. SafeIo(Io)
  BY DEF FdInv
<1>2. PICK new \in listener_new_udp(Io, AnyPeer) :
         \E io \in listener_add(new.io, new.l) :
            IoBecomes([io EXCEPT !.status = IF @ = "killed" THEN @ ELSE "running"])
  BY DEF Start, ServiceStart
<1>3. PICK io \in listener_add(new.io, new.l) :
         IoBecomes([io EXCEPT !.status = IF @ = "killed" THEN @ ELSE "running"])
  BY <1>2
<1>4. SafeIo(io) /\ FilesKept(Io, io)
  BY <1>1, NewListenerSafe
<1> DEFINE later == [io EXCEPT !.status = IF @ = "killed" THEN @ ELSE "running"]
<1>5. /\ later \in IoRecord
      /\ later.listeners = io.listeners
      /\ later.fdtab = io.fdtab
      /\ later.status \in {"killed", "running"}
  BY <1>4 DEF SafeIo, IoRecord
<1>6. IoBecomes(later)
  BY <1>3
<1> HIDE DEF later
<1>7. Io' = later /\ fdtab' = io.fdtab /\ status' = later.status
  BY <1>5, <1>6, IoTaken
<1>8. SafeIo(later)
  BY <1>4, <1>5 DEF SafeIo
<1>9. UNCHANGED <<session, held, Active>>
  BY DEF Start, sessionVars, Active
<1>10. SessionFdsSafe'
  <2>1. \A h \in Active : held[h].fd \in 0 .. MaxFd
    BY DEF FdInv, Hold, Active
  <2> QED
    BY <1>4, <1>7, <1>9, <2>1 DEF FdInv, SessionFdsSafe, FilesKept, Io
<1>11. NoDoubleCleanup'
  BY <1>5, <1>7 DEF NoDoubleCleanup
<1> QED
  BY <1>7, <1>8, <1>9, <1>10, <1>11 DEF FdInv

(* The inductive step: one case per kind of datagram.                      *)
LEMMA FdInvStep == TypeOK /\ FdInv /\ [TftpNext]_tftpVars => FdInv'
<1> SUFFICES ASSUME TypeOK, FdInv, [TftpNext]_tftpVars PROVE FdInv'
  OBVIOUS
<1>1. ASSUME NEW h \in TftpHosts, NEW p \in Sids, NEW f \in Files, ReadRequest(h, p, f)
      PROVE  FdInv'
  BY <1>1, ReadRequestSafe
<1>2. ASSUME NEW h \in TftpHosts, NEW p \in Sids, Ack(h, p)
      PROVE  FdInv'
  <2>1. host_session_check(h, SERVICE_TFTP, p) /\ UNCHANGED <<ioVars, held>>
    BY <1>2 DEF Ack
  <2>2. UNCHANGED Active
    BY <2>1, CheckActive, TftpAssumption
  <2> QED
    BY <2>1, <2>2, FdInvKept
<1>3. ASSUME UNCHANGED <<sessionVars, ioVars, held>>
      PROVE  FdInv'
  <2>1. UNCHANGED Active
    BY <1>3 DEF sessionVars, Active
  <2> QED
    BY <1>3, <2>1, FdInvKept
<1>4. ASSUME NEW h \in TftpHosts, NEW p \in Sids, Rejected(h, p) \/ Ignored(h, p)
      PROVE  FdInv'
  BY <1>3, <1>4 DEF Rejected, Ignored
<1>5. CASE Denied
  BY <1>3, <1>5 DEF Denied
<1>6. CASE Start
  BY <1>6, StartSafe
<1>7. CASE Second
  BY <1>7, TickActive, FdInvKept DEF Second
<1>8. CASE UNCHANGED tftpVars
  BY <1>3, <1>8 DEF tftpVars, sessionVars, ioVars
<1> QED
  BY <1>1, <1>2, <1>4, <1>5, <1>6, <1>7, <1>8 DEF TftpNext

LEMMA FdInvInit == TftpInit => FdInv
<1> SUFFICES ASSUME TftpInit PROVE FdInv
  OBVIOUS
<1>1. /\ listeners = <<>>
      /\ fdtab \in [0 .. MaxFd -> FdUses \cup {"stdin"}]
      /\ status = "starting"
      /\ held = [h \in Hosts |-> NoHold]
      /\ Active = {}
  BY DEF TftpInit, IoInit, SessionInit, FdUses, Active
<1>2. Io \in IoRecord /\ Len(Io.listeners) = 0
  BY <1>1, EmptySeq DEF Io, IoRecord
<1>3. SafeIo(Io)
  BY <1>2 DEF SafeIo
<1> QED
  BY <1>1, <1>3, NoHoldType DEF FdInv, NoDoubleCleanup, SessionFdsSafe

LEMMA FdInvAlways == TftpSpec => []FdInv
<1>1. TftpSpec => []TypeOK
  BY TableImplemented, TypeCorrect, PTL DEF TableRefinement
<1> QED
  BY <1>1, FdInvInit, FdInvStep, PTL DEF TftpSpec

----------------------------------------------------------------------------
(* The file descriptor of a session is open on a file and its own for as   *)
(* long as the session lives, whatever is evicted, refused or reopened in  *)
(* between.                                                                *)
THEOREM SessionFdsCorrect == TftpSpec => []SessionFdsSafe
<1>1. FdInv => SessionFdsSafe
  BY DEF FdInv
<1> QED
  BY <1>1, FdInvAlways, PTL

(* Every listener the event loop waits on has an open socket of its own.   *)
THEOREM ListenerFdsCorrect == TftpSpec => []ListenerFdsSafe
<1>1. FdInv => ListenerFdsSafe
  <2> SUFFICES ASSUME FdInv PROVE ListenerFdsSafe
    OBVIOUS
  <2>1. /\ listeners \in Seq(ListenerRecords)
        /\ \A i \in 1 .. Len(listeners) : fdtab[listeners[i].fd] = "socket"
        /\ \A i, j \in 1 .. Len(listeners) : listeners[i].fd = listeners[j].fd => i = j
    BY DEF FdInv, SafeIo, IoRecord, Io
  <2>2. DOMAIN listeners = 1 .. Len(listeners)
    BY <2>1, LenProperties
  <2> QED
    BY <2>1, <2>2 DEF ListenerFdsSafe, Range, IsInjective
<1> QED
  BY <1>1, FdInvAlways, PTL

(* No listener is ever cleaned up twice: listener_delete never meets the   *)
(* head of the list, because no session ever holds a socket.               *)
THEOREM NoDoubleCleanupEver == TftpSpec => []NoDoubleCleanup
<1>1. FdInv => NoDoubleCleanup
  BY DEF FdInv
<1> QED
  BY <1>1, FdInvAlways, PTL

(* The session counter is exact and the limit kept under the TFTP server.  *)
THEOREM TftpCounterCorrect == TftpSpec => [](CountExact /\ SessionLimit)
BY TableImplemented, CounterCorrect, LimitKept, PTL DEF TableRefinement

----------------------------------------------------------------------------
(* "server busy": only host_session_add's refusal sends it.                *)
NothingBusy == \A m \in sent' : m.about # "busy"

LEMMA RepliesNotBusy ==
  ASSUME NEW l, NEW dl, NEW to, NEW from \in FdUses \cup {"stdin"},
         NEW replies \in ReadReplies(l, dl, to, from)
  PROVE  \A m \in replies : m.about # "busy"
<1>1. from # "busy"
  BY ReasonsAssumption DEF FdUses, Reasons
<1> QED
  BY <1>1 DEF ReadReplies, tftp_send_error, Message

(* The sessions that are left when h is refused are SessionMax of other    *)
(* hosts, none of them expired.                                            *)
LEMMA BusyLeft ==
  ASSUME TypeOK, CountExact,
         NEW h \in TftpHosts, NEW p \in Sids, NEW l, NEW io,
         host_session_add(h, SERVICE_TFTP, p), Busy(h, p, l, io)
  PROVE  BusyMeansFull'
<1>1. h \in Hosts /\ ~Admits(h)
  BY TftpAssumption DEF Busy
<1>2. Active' = Active \ Gone(h)
  BY <1>1, AddActive, TftpAssumption
<1>3. \A g \in Active' : session'[g] = session[g]
  BY <1>1, <1>2 DEF host_session_add, SessionAfterAdd, Active
<1>4. (Active' \ Expired') \ {h} = Active \ Gone(h)
  BY <1>2, <1>3 DEF Expired, Gone
<1>5. Cardinality(Active \ Gone(h)) = g_n_sessions - Cardinality(Gone(h))
  BY <1>1, RemainingCount
<1>6. Cardinality(Active \ Gone(h)) >= SessionMax
  <2>1. Gone(h) \subseteq Active /\ IsFiniteSet(Gone(h)) /\ Cardinality(Gone(h)) \in Nat
    BY <1>1, ActiveFinite
  <2> QED
    BY <1>1, <1>5, <2>1, SessionMaxAssumption DEF Admits, TypeOK
<1>7. \A m \in sent' : m.to[1] = h
  BY DEF Busy, tftp_send_error, Message
<1> QED
  BY <1>4, <1>6, <1>7 DEF BusyMeansFull

LEMMA BusyStep ==
  TypeOK /\ CountExact /\ FdInv /\ BusyMeansFull /\ [TftpNext]_tftpVars => BusyMeansFull'
<1> SUFFICES ASSUME TypeOK, CountExact, FdInv, BusyMeansFull, [TftpNext]_tftpVars
             PROVE  BusyMeansFull'
  OBVIOUS
<1>1. NothingBusy => BusyMeansFull'
  BY DEF NothingBusy, BusyMeansFull
<1>2. ASSUME NEW h \in TftpHosts, NEW p \in Sids, NEW f \in Files, ReadRequest(h, p, f)
      PROVE  BusyMeansFull'
  <2>1. PICK l, dl, io, left :
          \/ Killed(h, io)
          \/ /\ host_session_add(h, SERVICE_TFTP, p)
             /\ \/ Busy(h, p, l, left)
                \/ OpenFails(h, p, l, left)
                \/ Opened(h, p, f, l, dl, left)
    BY <1>2 DEF ReadRequest
  <2>2. CASE host_session_add(h, SERVICE_TFTP, p) /\ Busy(h, p, l, left)
    BY <2>2, BusyLeft
  <2>3. CASE Killed(h, io)
    BY <1>1, <2>3 DEF Killed, NothingBusy
  <2>4. CASE OpenFails(h, p, l, left)
    BY <1>1, <2>4 DEF OpenFails, NothingBusy, tftp_send_error, Message
  <2>5. CASE Opened(h, p, f, l, dl, left)
    <3>1. CASE sent' = tftp_send_error(l, <<h, p>>, "failed")
      BY <1>1, <3>1 DEF NothingBusy, tftp_send_error, Message
    <3>2. CASE sent' \in ReadReplies(l, dl, <<h, p>>, f)
      <4>1. f \in FdUses
        BY DEF FdUses
      <4> QED
        BY <1>1, <3>2, <4>1, RepliesNotBusy DEF NothingBusy
    <3> QED
      BY <2>5, <3>1, <3>2 DEF Opened
  <2> QED
    BY <2>1, <2>2, <2>3, <2>4, <2>5
<1>3. ASSUME NEW h \in TftpHosts, NEW p \in Sids, Ack(h, p)
      PROVE  BusyMeansFull'
  <2>1. PICK l \in Range(listeners) : AckAccepted(h, p, l) \/ AckRefused(h, p, l)
    BY <1>3 DEF Ack
  <2>2. CASE AckAccepted(h, p, l)
    <3>1. held[h].fd \in 0 .. MaxFd
      BY TftpAssumption DEF FdInv, Hold
    <3>2. fdtab[held[h].fd] \in FdUses \cup {"stdin"}
      BY <3>1 DEF FdInv, SafeIo, IoRecord, Io
    <3> QED
      BY <1>1, <2>2, <3>2, RepliesNotBusy DEF AckAccepted, NothingBusy
  <2>3. CASE AckRefused(h, p, l)
    BY <1>1, <2>3 DEF AckRefused, NothingBusy, tftp_send_error, Message
  <2> QED
    BY <2>1, <2>2, <2>3
<1>4. ASSUME NEW h \in TftpHosts, NEW p \in Sids, Rejected(h, p) \/ Ignored(h, p)
      PROVE  BusyMeansFull'
  BY <1>1, <1>4 DEF Rejected, Ignored, NothingBusy, tftp_send_error, Message
<1>5. CASE Denied
  BY <1>1, <1>5 DEF Denied, NothingBusy, tftp_send_error, Message
<1>6. CASE Start \/ Second
  BY <1>1, <1>6 DEF Start, Second, NothingBusy
<1>7. CASE UNCHANGED tftpVars
  BY <1>7 DEF tftpVars, BusyMeansFull, Active, Expired
<1> QED
  BY <1>2, <1>3, <1>4, <1>5, <1>6, <1>7 DEF TftpNext

(* A client is told that the server is busy only while session_max other   *)
(* hosts have sessions they used within the timeout.                       *)
THEOREM BusyIsFull == TftpSpec => []BusyMeansFull
<1>1. TftpInit => BusyMeansFull
  BY DEF TftpInit, BusyMeansFull
<1>2. TftpSpec => []TypeOK /\ []CountExact
  BY TableImplemented, TypeCorrect, CounterCorrect, PTL DEF TableRefinement
<1> QED
  BY <1>1, <1>2, FdInvAlways, BusyStep, PTL DEF TftpSpec

----------------------------------------------------------------------------
(* Type correctness of the server: what remains beyond FdInv is sent.      *)
LEMMA ListenerType ==
  ASSUME FdInv, NEW l \in Range(listeners)
  PROVE  l \in ListenerRecords /\ l.fd \in Fds
<1>1. listeners \in Seq(ListenerRecords)
  BY DEF FdInv, SafeIo, IoRecord, Io
<1>2. l \in ListenerRecords
  BY <1>1, LenProperties, ElementOfSeq DEF Range
<1> QED
  BY <1>2 DEF ListenerRecords

LEMMA MessageType ==
  ASSUME NEW op \in {"DATA", "ERROR", "RUNT"}, NEW l \in ListenerRecords,
         NEW to \in Sources, NEW about \in FdUses \cup {"stdin"} \cup Reasons
  PROVE  Message(op, l, to, about) \in Messages
BY DEF Message, Messages, ListenerRecords

LEMMA RepliesType ==
  ASSUME NEW l \in ListenerRecords, NEW dl \in ListenerRecords,
         NEW to \in Sources, NEW from \in FdUses \cup {"stdin"},
         NEW why \in Reasons
  PROVE  /\ tftp_send_error(l, to, why) \in SUBSET Messages
         /\ ReadReplies(l, dl, to, from) \subseteq SUBSET Messages
<1>1. \A reason \in Reasons : Message("ERROR", l, to, reason) \in Messages
  BY MessageType
<1>2. "failed" \in Reasons
  BY DEF Reasons
<1>3. Message("DATA", dl, to, from) \in Messages
  BY MessageType
<1>4. Message("RUNT", dl, to, "failed") \in Messages
  BY <1>2, MessageType
<1> QED
  BY <1>1, <1>2, <1>3, <1>4 DEF ReadReplies, tftp_send_error

LEMMA SentType ==
  ASSUME FdInv, TftpNext
  PROVE  sent' \in SUBSET Messages
<1>1. "refused" \in Reasons /\ "busy" \in Reasons /\ "failed" \in Reasons
  BY DEF Reasons
<1>2. ASSUME NEW l \in Range(listeners), NEW src \in Sources, NEW why \in Reasons
      PROVE  tftp_send_error(l, src, why) \in SUBSET Messages
  BY <1>2, ListenerType, MessageType DEF tftp_send_error
<1>3. \A h \in TftpHosts, p \in Sids : h \in Hosts /\ <<h, p>> \in Sources /\ <<h, p>> \in Peers
  BY TftpAssumption DEF Sources
<1>4. ASSUME NEW h \in TftpHosts, NEW p \in Sids, NEW f \in Files, ReadRequest(h, p, f)
      PROVE  sent' \in SUBSET Messages
  <2>1. SafeIo(Io) /\ FilesKept(Io, Io)
    BY DEF FdInv, FilesKept
  <2>2. DropListeners(Io, {h} \cap Active) = Io
    BY <2>1, SessionsDropNothing
  <2>3. PICK l, new, io, left :
          /\ l \in Range(listeners)
          /\ new \in listener_new_udp(Io, <<h, p>>)
          /\ io \in listener_add(new.io, new.l)
          /\ \/ Killed(h, io)
             \/ Busy(h, p, l, left)
             \/ OpenFails(h, p, l, left)
             \/ Opened(h, p, f, l, new.l, left)
    BY <1>4, <2>2 DEF ReadRequest
  <2>4. new.l \in ListenerRecords \cup {NoListener}
    BY <1>3, <2>1, <2>3, NewListenerSafe
  <2>5. CASE new.l \in ListenerRecords /\ sent' \in ReadReplies(l, new.l, <<h, p>>, f)
    <3>1. f \in FdUses \cup {"stdin"} /\ l \in ListenerRecords
      BY <2>3, ListenerType DEF FdUses
    <3> QED
      BY <1>1, <1>3, <2>5, <3>1, RepliesType
  <2>6. CASE \E why \in Reasons : sent' = tftp_send_error(l, <<h, p>>, why)
    BY <1>2, <1>3, <2>3, <2>6
  <2>7. CASE sent' = {}
    BY <2>7
  <2> QED
    BY <1>1, <2>3, <2>4, <2>5, <2>6, <2>7 DEF Killed, Busy, OpenFails, Opened
<1>5. ASSUME NEW h \in TftpHosts, NEW p \in Sids, Ack(h, p)
      PROVE  sent' \in SUBSET Messages
  <2>1. PICK l \in Range(listeners) : AckAccepted(h, p, l) \/ AckRefused(h, p, l)
    BY <1>5 DEF Ack
  <2>2. CASE AckAccepted(h, p, l)
    <3>1. held[h].fd \in 0 .. MaxFd
      BY <1>3 DEF FdInv, Hold
    <3>2. fdtab[held[h].fd] \in FdUses \cup {"stdin"}
      BY <3>1 DEF FdInv, SafeIo, IoRecord, Io
    <3> QED
      BY <1>1, <1>3, <2>2, <3>2, ListenerType, RepliesType DEF AckAccepted
  <2>3. CASE AckRefused(h, p, l)
    BY <1>1, <1>2, <1>3, <2>3 DEF AckRefused
  <2> QED
    BY <2>1, <2>2, <2>3
<1>6. ASSUME NEW h \in TftpHosts, NEW p \in Sids, Rejected(h, p) \/ Ignored(h, p)
      PROVE  sent' \in SUBSET Messages
  <2>1. \/ sent' = {}
        \/ \E l \in Range(listeners) : sent' = tftp_send_error(l, <<h, p>>, "refused")
    BY <1>6 DEF Rejected, Ignored
  <2> QED
    BY <1>1, <1>2, <1>3, <2>1
<1>7. CASE Denied
  <2>1. PICK src \in ((Hosts \ TftpHosts) \cup {Unknown}) \X Sids, l \in Range(listeners) :
           sent' = tftp_send_error(l, src, "refused")
    BY <1>7 DEF Denied
  <2>2. src \in Sources
    BY DEF Sources
  <2> QED
    BY <1>1, <1>2, <2>1, <2>2
<1>8. CASE Start \/ Second
  BY <1>8 DEF Start, Second
<1> QED
  BY <1>4, <1>5, <1>6, <1>7, <1>8 DEF TftpNext

(* Every variable of the server keeps its type; in particular BF_FD is     *)
(* never the -1 of a failed open.                                          *)
THEOREM TftpTypeCorrect == TftpSpec => []TftpTypeOK
<1> DEFINE SentOK == sent \in SUBSET Messages
<1>1. TftpInit => SentOK
  BY DEF TftpInit
<1>2. FdInv /\ SentOK /\ [TftpNext]_tftpVars => SentOK'
  BY SentType DEF tftpVars
<1>3. TypeOK /\ FdInv /\ SentOK => TftpTypeOK
  BY DEF TftpTypeOK, IoTypeOK, FdInv, SafeIo, IoRecord, Io, Hold
<1>4. TftpSpec => []TypeOK
  BY TableImplemented, TypeCorrect, PTL DEF TableRefinement
<1> HIDE DEF SentOK
<1> QED
  BY <1>1, <1>2, <1>3, <1>4, FdInvAlways, PTL DEF TftpSpec

----------------------------------------------------------------------------
(* What the server promises its clients: the listener a session answers by *)
(* is waited on and the client's own, and the server implements the        *)
(* transfers of module TransferGrant.  Both rest on what one step may do   *)
(* to the sessions of others (Apart) and to the descriptors (Grows):       *)
(* nothing the server does removes a listener or gives a file or standard  *)
(* input another meaning.                                                  *)

(* Whoever keeps a session, h aside, keeps what it holds.                  *)
Apart(h) ==
    \A g \in Active' \ {h} :
        g \in Active /\ session'[g].sid = session[g].sid /\ held'[g] = held[g]

Grows(io, later) ==
    /\ Range(io.listeners) \subseteq Range(later.listeners)
    /\ later.fdtab[0] = io.fdtab[0]
    /\ FilesKept(io, later)

(* A listener of peer's own.                                               *)
Listed(io, l, peer) == l # NoListener => l \in Range(io.listeners) /\ l.peer = peer

LEMMA GrowsTransitive ==
  ASSUME NEW io, NEW mid, NEW later, Grows(io, mid), Grows(mid, later)
  PROVE  Grows(io, later)
BY DEF Grows, FilesKept

(* Opening a descriptor, never descriptor 0.                               *)
LEMMA OpenGrows ==
  ASSUME NEW io, SafeIo(io), NEW fd \in LowestFree(io), NEW use \in FdUses
  PROVE  Grows(io, OpenAs(io, fd, use))
<1>1. io \in IoRecord /\ fd \in 0 .. MaxFd /\ fd # 0 /\ 0 \in 0 .. MaxFd
  BY FreeFd, MaxFdAssumption DEF SafeIo, Fds
<1> DEFINE new == OpenAs(io, fd, use)
<1>2. new.listeners = io.listeners /\ new.fdtab = [io.fdtab EXCEPT ![fd] = use]
  BY <1>1, OpenAsFields
<1>3. FilesKept(io, new)
  BY OpenSafe
<1> HIDE DEF new
<1>4. new.fdtab[0] = io.fdtab[0]
  BY <1>1, <1>2 DEF IoRecord
<1> QED
  BY <1>2, <1>3, <1>4 DEF Grows, new

LEMMA InsertGrows ==
  ASSUME NEW io, SafeIo(io), NEW l \in ListenerRecords,
         \A i \in 1 .. Len(io.listeners) : io.listeners[i].fd # l.fd
  PROVE  Grows(io, Insert(io, l)) /\ l \in Range(Insert(io, l).listeners)
<1>1. io \in IoRecord /\ io.listeners \in Seq(ListenerRecords)
  BY DEF SafeIo, IoRecord
<1>2. ~\E n \in Range(io.listeners) : n.fd = l.fd
  BY <1>1, LenProperties DEF Range
<1> DEFINE longer == Append(io.listeners, l)
<1>3. /\ longer \in Seq(ListenerRecords)
      /\ Len(longer) = Len(io.listeners) + 1
      /\ \A i \in 1 .. Len(io.listeners) : longer[i] = io.listeners[i]
      /\ longer[Len(io.listeners) + 1] = l
  BY <1>1, AppendProperties
<1>4. /\ DOMAIN longer = 1 .. Len(longer)
      /\ DOMAIN io.listeners = 1 .. Len(io.listeners)
      /\ Len(io.listeners) \in Nat
  BY <1>1, <1>3, LenProperties
<1>5. Insert(io, l) = [io EXCEPT !.listeners = longer]
  BY <1>2 DEF Insert
<1> HIDE DEF longer
<1>6. Insert(io, l).listeners = longer /\ Insert(io, l).fdtab = io.fdtab
  BY <1>1, <1>5 DEF IoRecord
<1>7. l \in Range(longer) /\ Range(io.listeners) \subseteq Range(longer)
  <2>1. Len(io.listeners) + 1 \in DOMAIN longer
    BY <1>3, <1>4
  <2>2. \A i \in DOMAIN io.listeners : i \in DOMAIN longer /\ longer[i] = io.listeners[i]
    BY <1>3, <1>4
  <2> QED
    BY <1>3, <2>1, <2>2 DEF Range
<1> QED
  BY <1>6, <1>7 DEF Grows, FilesKept

(* The data listener of a read request is listed and connected to peer, if *)
(* the daemon survives listing it.                                         *)
LEMMA NewListenerListed ==
  ASSUME NEW io, SafeIo(io), NEW peer \in Peers \cup {AnyPeer},
         NEW new \in listener_new_udp(io, peer),
         NEW later \in listener_add(new.io, new.l)
  PROVE  /\ Grows(io, later)
         /\ later.status # "killed" => Listed(later, new.l, peer)
<1>1. CASE new = [io |-> io, l |-> NoListener]
  BY <1>1 DEF listener_add, Grows, FilesKept, Listed
<1>2. ASSUME NEW fd \in LowestFree(io),
             new = [io |-> OpenAs(io, fd, "socket"), l |-> [fd |-> fd, peer |-> peer]]
      PROVE  /\ Grows(io, later)
             /\ later.status # "killed" => Listed(later, new.l, peer)
  <2> DEFINE opened == OpenAs(io, fd, "socket")
             l == [fd |-> fd, peer |-> peer]
  <2>1. "socket" \in FdUses /\ fd \in Fds /\ fd \in 0 .. MaxFd /\ io \in IoRecord
    BY FreeFd DEF FdUses, SafeIo
  <2>2. l \in ListenerRecords /\ l # NoListener /\ l.fd = fd /\ l.peer = peer
    BY <2>1, NoListenerAssumption DEF ListenerRecords
  <2>3. /\ Grows(io, opened)
        /\ SafeIo(opened)
        /\ opened.listeners = io.listeners
        /\ \A i \in 1 .. Len(io.listeners) : io.listeners[i].fd # fd
    BY <2>1, OpenGrows, OpenSafe, OpenAsFields
  <2>4. new.io = opened /\ new.l = l
    BY <1>2
  <2> HIDE DEF opened, l
  <2>5. Grows(opened, Insert(opened, l)) /\ l \in Range(Insert(opened, l).listeners)
    BY <2>2, <2>3, InsertGrows
  <2>6. \/ later = [opened EXCEPT !.status = "killed"]
        \/ later = Insert(opened, l)
    BY <2>2, <2>4 DEF listener_add
  <2>7. CASE later = [opened EXCEPT !.status = "killed"]
    <3>1. /\ later.status = "killed"
          /\ later.listeners = opened.listeners
          /\ later.fdtab = opened.fdtab
      BY <2>3, <2>7 DEF SafeIo, IoRecord
    <3> QED
      BY <2>3, <3>1 DEF Grows, FilesKept
  <2>8. CASE later = Insert(opened, l)
    <3>1. Grows(io, later)
      BY <2>3, <2>5, <2>8, GrowsTransitive
    <3> QED
      BY <2>2, <2>4, <2>5, <2>8, <3>1 DEF Listed
  <2> QED
    BY <2>6, <2>7, <2>8
<1> QED
  BY <1>1, <1>2 DEF listener_new_udp

----------------------------------------------------------------------------
(* What a read request of h from port p for file f does, whichever way it  *)
(* ends: h has no session, or one for p that reads standard input, or one  *)
(* for p that reads f and answers by a listener of p's own.                *)
NoData == DataSent' = {}

Without(h) == h \notin Active' /\ NoData

With(h, p) == h \in Active' /\ session'[h].sid = p

WithStdin(h, p) == With(h, p) /\ held'[h] = NoHold /\ NoData

WithFile(h, p, f) ==
    /\ With(h, p)
    /\ held'[h].fd # 0 /\ fdtab'[held'[h].fd] = f
    /\ Listed(Io', held'[h].l, <<h, p>>)
    /\ DataSent' \in {{}, {[to |-> <<h, p>>, about |-> f]}}

LEMMA ErrorsNoData ==
  ASSUME NEW l, NEW to, NEW why, sent' \in {{}, tftp_send_error(l, to, why)}
  PROVE  NoData
BY DEF NoData, DataSent, tftp_send_error, Message

(* A read sends one block of what it reads, or none.                       *)
LEMMA RepliesData ==
  ASSUME NEW l, NEW dl, NEW to, NEW from, sent' \in ReadReplies(l, dl, to, from)
  PROVE  DataSent' \in {{}, {[to |-> to, about |-> from]}}
<1>1. CASE sent' = {Message("DATA", dl, to, from)}
  <2>1. {n \in sent' : n.op = "DATA"} = {Message("DATA", dl, to, from)}
    BY <1>1 DEF Message
  <2> QED
    BY <2>1 DEF DataSent, Message
<1>2. CASE sent' = tftp_send_error(l, to, "failed") \cup {Message("RUNT", dl, to, "failed")}
  <2>1. {n \in sent' : n.op = "DATA"} = {}
    BY <1>2 DEF Message, tftp_send_error
  <2> QED
    BY <2>1 DEF DataSent
<1> QED
  BY <1>1, <1>2 DEF ReadReplies

(* host_session_add: the others keep what they hold or lose their session. *)
LEMMA AddApart ==
  ASSUME TypeOK, NEW h \in Hosts, NEW p \in Sids, host_session_add(h, SERVICE_TFTP, p),
         \A g \in Hosts \ {h} : held'[g] = HoldsAfterAdd(h)[g]
  PROVE  /\ Apart(h)
         /\ Active' = (Active \ Gone(h)) \cup (IF Admits(h) THEN {h} ELSE {})
         /\ Admits(h) => With(h, p)
<1>1. Active' = (Active \ Gone(h)) \cup (IF Admits(h) THEN {h} ELSE {})
  BY AddActive, TftpAssumption
<1>2. \A g \in Hosts : session'[g] = SessionAfterAdd(g, h, SERVICE_TFTP, p)
  BY DEF host_session_add
<1>3. ASSUME NEW g \in Active' \ {h}
      PROVE  g \in Active /\ session'[g].sid = session[g].sid /\ held'[g] = held[g]
  <2>1. g \in Active \ Gone(h) /\ g \in Hosts \ {h}
    BY <1>1 DEF Active
  <2> QED
    BY <1>2, <2>1 DEF SessionAfterAdd, HoldsAfterAdd
<1>4. ASSUME Admits(h) PROVE With(h, p)
  BY <1>1, <1>2, <1>4 DEF With, SessionAfterAdd
<1> QED
  BY <1>1, <1>3, <1>4 DEF Apart

LEMMA ReadRequestEffect ==
  ASSUME TypeOK, FdInv,
         NEW h \in TftpHosts, NEW p \in Sids, NEW f \in Files, ReadRequest(h, p, f)
  PROVE  /\ Apart(h) /\ Grows(Io, Io')
         /\ Without(h) \/ WithStdin(h, p) \/ WithFile(h, p, f)
<1>1. h \in Hosts /\ <<h, p>> \in Peers
  BY TftpAssumption
<1>2. SafeIo(Io) /\ FilesKept(Io, Io)
  BY DEF FdInv, FilesKept
<1>3. DropListeners(Io, {h} \cap Active) = Io
  BY <1>2, SessionsDropNothing
<1> DEFINE Rest(l, new, io) ==
             \/ io.status = "killed" /\ Killed(h, io)
             \/ /\ io.status # "killed"
                /\ host_session_add(h, SERVICE_TFTP, p)
                /\ LET left == DropListeners(io, Expired \ {h})
                   IN  \/ Busy(h, p, l, left)
                       \/ OpenFails(h, p, l, left)
                       \/ Opened(h, p, f, l, new.l, left)
<1>a. PICK l \in Range(listeners), new \in listener_new_udp(Io, <<h, p>>) :
         \E io \in listener_add(new.io, new.l) : Rest(l, new, io)
  BY <1>3 DEF ReadRequest
<1>4. PICK io \in listener_add(new.io, new.l) : Rest(l, new, io)
  BY <1>a
<1>5. /\ SafeIo(io)
      /\ io \in IoRecord
      /\ FilesKept(Io, io)
      /\ Grows(Io, io)
      /\ io.status # "killed" => Listed(io, new.l, <<h, p>>)
  BY <1>1, <1>2, NewListenerSafe, NewListenerListed DEF SafeIo
<1>6. CASE io.status = "killed" /\ Killed(h, io)
  <2>1. Io' = io
    BY <1>5, <1>6, IoTaken DEF Killed
  <2>2. Active' = Active \ {h}
    BY <1>1, <1>6, DeleteActive DEF Killed
  <2>3. Apart(h)
    <3> SUFFICES ASSUME NEW g \in Active' \ {h}
                 PROVE  /\ g \in Active
                        /\ session'[g].sid = session[g].sid
                        /\ held'[g] = held[g]
      BY DEF Apart
    <3>1. g \in Active /\ g \in Hosts
      BY <2>2 DEF Active
    <3>2. session'[g] = session[g]
      BY <1>6, <3>1 DEF Killed, host_session_delete, TypeOK
    <3>3. held'[g] = held[g]
      BY <1>6, <3>1 DEF Killed, FdInv
    <3> QED
      BY <3>1, <3>2, <3>3
  <2>4. Without(h)
    BY <1>6, <2>2 DEF Killed, Without, NoData, DataSent
  <2> QED
    BY <1>5, <2>1, <2>3, <2>4
<1>7. CASE /\ io.status # "killed"
           /\ host_session_add(h, SERVICE_TFTP, p)
           /\ LET left == DropListeners(io, Expired \ {h})
              IN  \/ Busy(h, p, l, left)
                  \/ OpenFails(h, p, l, left)
                  \/ Opened(h, p, f, l, new.l, left)
  <2>1. DropListeners(io, Expired \ {h}) = io
    <3>1. Expired \ {h} \in SUBSET Active
      BY DEF Expired
    <3> QED
      BY <1>5, <3>1, SessionsDropNothing
  <2>2. HoldsAfterAdd(h)[h] = NoHold /\ HoldsAfterAdd(h) \in [Hosts -> Hold]
    BY <1>1, NoHoldType DEF HoldsAfterAdd, FdInv, Gone
  <2>3. CASE Busy(h, p, l, io)
    <3>1. Io' = io
      BY <1>5, <2>3, IoTaken DEF Busy
    <3>2. Apart(h) /\ h \notin Active'
      BY <1>1, <1>7, <2>3, AddApart DEF Busy, Gone
    <3>3. NoData
      BY <2>3, ErrorsNoData DEF Busy
    <3> QED
      BY <1>5, <3>1, <3>2, <3>3 DEF Without
  <2>4. CASE OpenFails(h, p, l, io)
    <3>1. Io' = io
      BY <1>5, <2>4, IoTaken DEF OpenFails
    <3>2. Apart(h) /\ With(h, p)
      BY <1>1, <1>7, <2>4, AddApart DEF OpenFails
    <3>3. NoData
      BY <2>4, ErrorsNoData DEF OpenFails
    <3> QED
      BY <1>5, <2>2, <2>4, <3>1, <3>2, <3>3 DEF WithStdin, OpenFails
  <2>5. CASE Opened(h, p, f, l, new.l, io)
    <3>1. PICK fd \in LowestFree(io) :
             /\ IoBecomes(OpenAs(io, fd, f))
             /\ held' = [HoldsAfterAdd(h) EXCEPT ![h] = [fd |-> fd, l |-> new.l]]
      BY <2>5 DEF Opened
    <3>2. f \in FdUses /\ fd \in 0 .. MaxFd /\ fd # 0
      BY FreeFd DEF FdUses, Fds
    <3> DEFINE open == OpenAs(io, fd, f)
    <3>3. /\ Grows(io, open)
          /\ open \in IoRecord
          /\ open.fdtab[fd] = f
          /\ open.listeners = io.listeners
      <4>1. Grows(io, open)
        BY <1>5, <3>2, OpenGrows
      <4>2. open.fdtab[fd] = f
        BY <1>5, <3>2, OpenSafe
      <4>3. open \in IoRecord /\ open.listeners = io.listeners
        BY <1>5, <3>2, OpenAsFields
      <4> QED
        BY <4>1, <4>2, <4>3
    <3>4. Io' = open /\ fdtab' = open.fdtab
      BY <3>1, <3>3, IoTaken
    <3> HIDE DEF open
    <3>5. Grows(Io, Io')
      BY <1>5, <3>3, <3>4, GrowsTransitive
    <3>6. /\ held'[h].fd = fd /\ held'[h].l = new.l
          /\ \A g \in Hosts \ {h} : held'[g] = HoldsAfterAdd(h)[g]
      BY <1>1, <2>2, <3>1
    <3>7. Apart(h) /\ With(h, p)
      BY <1>1, <1>7, <2>5, <3>6, AddApart DEF Opened
    <3>8. Listed(Io', held'[h].l, <<h, p>>)
      BY <1>5, <1>7, <3>3, <3>4, <3>6 DEF Listed
    <3>9. DataSent' \in {{}, {[to |-> <<h, p>>, about |-> f]}}
      <4>1. CASE sent' = tftp_send_error(l, <<h, p>>, "failed")
        BY <4>1, ErrorsNoData DEF NoData
      <4>2. CASE sent' \in ReadReplies(l, new.l, <<h, p>>, f)
        BY <4>2, RepliesData
      <4> QED
        BY <2>5, <4>1, <4>2 DEF Opened
    <3> QED
      BY <3>2, <3>3, <3>4, <3>5, <3>6, <3>7, <3>8, <3>9 DEF WithFile
  <2> QED
    BY <1>7, <2>1, <2>3, <2>4, <2>5
<1> QED
  BY <1>4, <1>6, <1>7

----------------------------------------------------------------------------
(* The steps that open no session: nobody's session or hold changes, but   *)
(* for the idle times, and no listener goes.                               *)
SessionsKept ==
    /\ Active' = Active /\ held' = held
    /\ \A g \in Active : session'[g].sid = session[g].sid

(* What an acknowledgement of h from port p may lead to.                   *)
Served(h) ==
    /\ h \in Active
    /\ DataSent' = {[to |-> <<h, session[h].sid>>, about |-> fdtab[held[h].fd]]}

LEMMA AckEffect ==
  ASSUME TypeOK, NEW h \in TftpHosts, NEW p \in Sids, Ack(h, p)
  PROVE  /\ SessionsKept /\ Grows(Io, Io')
         /\ NoData \/ Served(h)
<1>1. PICK l \in Range(listeners) :
         /\ host_session_check(h, SERVICE_TFTP, p)
         /\ AckAccepted(h, p, l) \/ AckRefused(h, p, l)
         /\ UNCHANGED <<ioVars, held>>
  BY DEF Ack
<1>2. UNCHANGED Active
  BY <1>1, CheckActive, TftpAssumption
<1>3. ASSUME NEW g \in Active PROVE session'[g].sid = session[g].sid
  <2>1. session[g] \in Session /\ g \in Hosts
    BY DEF Active, TypeOK
  <2>2. CASE session' = [session EXCEPT ![h].idle = 0]
    BY <2>1, <2>2 DEF TypeOK, Session
  <2> QED
    BY <1>1, <2>2 DEF host_session_check
<1>4. Grows(Io, Io')
  BY <1>1 DEF ioVars, Io, Grows, FilesKept
<1>5. CASE AckAccepted(h, p, l)
  <2>1. h \in Active /\ session[h].sid = p
    BY <1>5 DEF AckAccepted, CheckResult, E_NOERROR, E_NOSESSION, E_BADSID
  <2>2. DataSent' \in {{}, {[to |-> <<h, p>>, about |-> fdtab[held[h].fd]]}}
    BY <1>5, RepliesData DEF AckAccepted
  <2> QED
    BY <1>1, <1>2, <1>3, <1>4, <2>1, <2>2 DEF SessionsKept, Served, NoData
<1>6. CASE AckRefused(h, p, l)
  BY <1>1, <1>2, <1>3, <1>4, <1>6, ErrorsNoData DEF SessionsKept, AckRefused
<1> QED
  BY <1>1, <1>5, <1>6

(* Everything else sends no data.                                          *)
LEMMA OtherEffect ==
  ASSUME TypeOK, FdInv,
         \/ \E h \in TftpHosts, p \in Sids : Rejected(h, p) \/ Ignored(h, p)
         \/ Denied \/ Start \/ Second
  PROVE  SessionsKept /\ Grows(Io, Io') /\ NoData
<1>1. CASE Start
  <2>1. PICK new \in listener_new_udp(Io, AnyPeer) :
           \E io \in listener_add(new.io, new.l) :
              IoBecomes([io EXCEPT !.status = IF @ = "killed" THEN @ ELSE "running"])
    BY <1>1 DEF Start, ServiceStart
  <2>2. PICK io \in listener_add(new.io, new.l) :
           IoBecomes([io EXCEPT !.status = IF @ = "killed" THEN @ ELSE "running"])
    BY <2>1
  <2>3. Grows(Io, io) /\ SafeIo(io)
    BY NewListenerListed, NewListenerSafe DEF FdInv
  <2>4. listeners' = io.listeners /\ fdtab' = io.fdtab
    BY <2>2, <2>3 DEF IoBecomes, SafeIo, IoRecord
  <2>5. Grows(Io, Io')
    BY <2>3, <2>4 DEF Grows, FilesKept, Io
  <2> QED
    BY <1>1, <2>5 DEF Start, SessionsKept, sessionVars, Active, NoData, DataSent
<1>2. CASE Second
  <2>1. UNCHANGED Active
    BY <1>2, TickActive DEF Second
  <2>2. ASSUME NEW g \in Active PROVE session'[g].sid = session[g].sid
    <3>1. session[g] \in Session /\ g \in Hosts
      BY DEF Active, TypeOK
    <3> QED
      BY <1>2, <3>1 DEF Second, Tick, Session
  <2> QED
    BY <1>2, <2>1, <2>2 DEF Second, SessionsKept, ioVars, Io, Grows, FilesKept, NoData, DataSent
<1>3. ASSUME UNCHANGED <<sessionVars, ioVars, held>>, NoData
      PROVE  SessionsKept /\ Grows(Io, Io') /\ NoData
  BY <1>3 DEF SessionsKept, sessionVars, Active, ioVars, Io, Grows, FilesKept
<1>4. CASE Denied
  BY <1>3, <1>4, ErrorsNoData DEF Denied
<1>5. ASSUME NEW h \in TftpHosts, NEW p \in Sids, Rejected(h, p) \/ Ignored(h, p)
      PROVE  SessionsKept /\ Grows(Io, Io') /\ NoData
  <2>1. NoData
    BY <1>5, ErrorsNoData DEF Rejected, Ignored, NoData, DataSent
  <2> QED
    BY <1>3, <1>5, <2>1 DEF Rejected, Ignored
<1> QED
  BY <1>1, <1>2, <1>4, <1>5

----------------------------------------------------------------------------
LEMMA ListedStep == TypeOK /\ FdInv /\ DataListenerListed /\ [TftpNext]_tftpVars
                        => DataListenerListed'
<1> SUFFICES ASSUME TypeOK, FdInv, DataListenerListed, [TftpNext]_tftpVars
             PROVE  DataListenerListed'
  OBVIOUS
<1> DEFINE Own(g) == Listed(Io, held[g].l, <<g, session[g].sid>>)
<1>1. \A g \in Active : Own(g)
  BY DEF DataListenerListed, Listed, Io
<1>2. SUFFICES \A g \in Active' : Listed(Io', held'[g].l, <<g, session'[g].sid>>)
  BY DEF DataListenerListed, Listed, Io
<1>3. ASSUME Grows(Io, Io'), NEW g \in Active, session'[g].sid = session[g].sid,
             held'[g] = held[g]
      PROVE  Listed(Io', held'[g].l, <<g, session'[g].sid>>)
  BY <1>1, <1>3 DEF Listed, Grows
<1>4. ASSUME NEW h \in TftpHosts, NEW p \in Sids, NEW f \in Files, ReadRequest(h, p, f)
      PROVE  \A g \in Active' : Listed(Io', held'[g].l, <<g, session'[g].sid>>)
  <2>1. /\ Apart(h) /\ Grows(Io, Io')
        /\ Without(h) \/ WithStdin(h, p) \/ WithFile(h, p, f)
    BY <1>4, ReadRequestEffect
  <2>2. ASSUME NEW g \in Active' \ {h}
        PROVE  Listed(Io', held'[g].l, <<g, session'[g].sid>>)
    BY <1>3, <2>1 DEF Apart
  <2>3. h \in Active' => Listed(Io', held'[h].l, <<h, session'[h].sid>>)
    BY <2>1 DEF Without, WithStdin, WithFile, With, NoHold, Listed
  <2> QED
    BY <2>2, <2>3
<1>5. CASE SessionsKept /\ Grows(Io, Io')
  BY <1>3, <1>5 DEF SessionsKept
<1>6. CASE UNCHANGED tftpVars
  BY <1>1, <1>6 DEF tftpVars, Active, Listed, Io
<1> QED
  BY <1>4, <1>5, <1>6, AckEffect, OtherEffect DEF TftpNext

(* The data listener of a session stays in the list the event loop waits   *)
(* on, connected to the client that opened the session, for as long as the *)
(* session lives: no request, eviction or failure of another host takes it *)
(* away.                                                                   *)
THEOREM DataListenerCorrect == TftpSpec => []DataListenerListed
<1>1. TftpInit => DataListenerListed
  BY DEF TftpInit, SessionInit, Active, DataListenerListed
<1>2. TftpSpec => []TypeOK
  BY TableImplemented, TypeCorrect, PTL DEF TableRefinement
<1> QED
  BY <1>1, <1>2, FdInvAlways, ListedStep, PTL DEF TftpSpec

----------------------------------------------------------------------------
(* The abstract transfers need one fact more: a session whose BF_FD is 0   *)
(* reads standard input, which is never reused.                            *)
StdinOpen == fdtab[0] = "stdin"

Transfers == [tid : Sids, src : Files \cup {"stdin"}]

GrantsTyped ==
    /\ Granted \in [Hosts -> Transfers \cup {NoSession}]
    /\ \A h \in Active : Granted[h] \in Transfers /\ Granted[h] # NoSession

LEMMA GrantedIn == TypeOK /\ FdInv /\ StdinOpen => GrantsTyped
<1> SUFFICES ASSUME TypeOK, FdInv, StdinOpen PROVE GrantsTyped
  OBVIOUS
<1>1. ASSUME NEW h \in Active
      PROVE  [tid |-> session[h].sid, src |-> fdtab[held[h].fd]] \in Transfers
  <2>1. session[h].sid \in Sids
    BY DEF Active, TypeOK, Session
  <2>2. fdtab[held[h].fd] \in Files \cup {"stdin"}
    BY DEF FdInv, SessionFdsSafe, StdinOpen
  <2> QED
    BY <2>1, <2>2 DEF Transfers
<1>2. \A h \in Active : h \in Hosts
  BY DEF Active
<1> QED
  BY <1>1, <1>2, NullAssumption DEF Granted, Transfers, GrantsTyped

(* A session that is kept keeps its transfer: neither its port nor the     *)
(* meaning of its descriptor changes.                                      *)
LEMMA GrantKept ==
  ASSUME FdInv, StdinOpen, Grows(Io, Io'), NEW g \in Active', g \in Active,
         session'[g].sid = session[g].sid, held'[g] = held[g]
  PROVE  Granted'[g] = Granted[g]
<1>1. g \in Hosts
  BY DEF Active
<1>2. fdtab'[held[g].fd] = fdtab[held[g].fd]
  <2>1. CASE held[g].fd = 0
    BY <2>1 DEF Grows, Io
  <2>2. CASE held[g].fd # 0
    <3>1. held[g].fd \in 0 .. MaxFd /\ fdtab[held[g].fd] \in Files
      BY <1>1, <2>2 DEF FdInv, SessionFdsSafe, Hold
    <3> QED
      BY <3>1 DEF Grows, FilesKept, Io
  <2> QED
    BY <2>1, <2>2
<1> QED
  BY <1>1, <1>2 DEF Granted

(* Every handler is one step of the transfers.                             *)
LEMMA GrantStep ==
  ASSUME TypeOK, FdInv, StdinOpen, TypeOK', FdInv', StdinOpen', [TftpNext]_tftpVars
  PROVE  [Grant!Next]_(Grant!vars)
<1>1. /\ Granted' \in [Hosts -> Transfers \cup {NoSession}]
      /\ \A h \in Active' : Granted'[h] \in Transfers
      /\ \A h \in Active : Granted[h] # NoSession
      /\ \A h \in Hosts \ Active' : Granted'[h] = NoSession
  <2>1. GrantsTyped /\ GrantsTyped'
    BY GrantedIn, PTL
  <2> QED
    BY <2>1 DEF GrantsTyped, Granted, Transfers
<1>2. ASSUME NEW h \in TftpHosts, NEW p \in Sids, NEW f \in Files, ReadRequest(h, p, f)
      PROVE  Grant!Open(h) \/ Grant!Withdraw
  <2>1. /\ Apart(h) /\ Grows(Io, Io') /\ h \in Hosts
        /\ Without(h) \/ WithStdin(h, p) \/ WithFile(h, p, f)
    BY <1>2, ReadRequestEffect, TftpAssumption
  <2>2. \A g \in Hosts \ {h} : Granted'[g] \in {Granted[g], NoSession}
    <3>1. ASSUME NEW g \in Active' \ {h} PROVE Granted'[g] = Granted[g]
      BY <2>1, <3>1, GrantKept DEF Apart
    <3> QED
      BY <1>1, <3>1
  <2>3. CASE Without(h)
    BY <1>1, <2>1, <2>2, <2>3 DEF Without, NoData, Grant!Withdraw, Grant!Transfer, Transfers
  <2>4. CASE h \in Active' /\ DataSent' \in {{}, {Grant!DataOf(h, Granted'[h])}}
    BY <1>1, <2>1, <2>2, <2>4 DEF Grant!Open, Grant!OthersKeptOrWithdrawn, Grant!Transfer,
       Transfers
  <2>5. CASE WithStdin(h, p)
    BY <2>4, <2>5 DEF WithStdin, With, NoData
  <2>6. CASE WithFile(h, p, f)
    BY <2>1, <2>4, <2>6 DEF WithFile, With, Granted, Grant!DataOf
  <2> QED
    BY <2>1, <2>3, <2>5, <2>6
<1>3. ASSUME SessionsKept, Grows(Io, Io')
      PROVE  Granted' = Granted
  <2>1. \A g \in Active : Granted'[g] = Granted[g]
    BY <1>3, GrantKept DEF SessionsKept
  <2>2. \A g \in Hosts \ Active : Granted'[g] = Granted[g]
    BY <1>3 DEF SessionsKept, Granted
  <2> QED
    BY <2>1, <2>2 DEF Granted
<1>4. ASSUME SessionsKept, Grows(Io, Io'), NoData
      PROVE  Grant!Withdraw
  BY <1>1, <1>3, <1>4 DEF NoData, Grant!Withdraw, Grant!Transfer, Transfers
<1>5. ASSUME NEW h \in TftpHosts, NEW p \in Sids, Ack(h, p)
      PROVE  Grant!Send(h) \/ Grant!Withdraw
  <2>1. SessionsKept /\ Grows(Io, Io') /\ (NoData \/ Served(h))
    BY <1>5, AckEffect
  <2>2. CASE Served(h)
    BY <1>1, <1>3, <2>1, <2>2 DEF Served, Granted, Active, Grant!Send, Grant!DataOf
  <2> QED
    BY <1>4, <2>1, <2>2
<1>6. CASE \/ \E h \in TftpHosts, p \in Sids : Rejected(h, p) \/ Ignored(h, p)
           \/ Denied \/ Start \/ Second
  BY <1>4, <1>6, OtherEffect DEF Grant!Next
<1>7. CASE UNCHANGED tftpVars
  BY <1>7 DEF tftpVars, Grant!vars, Granted, Active, DataSent
<1> QED
  BY <1>2, <1>5, <1>6, <1>7, TftpAssumption DEF TftpNext, Grant!Next

(* The TFTP server implements the transfers of TransferGrant: whatever is  *)
(* requested again, evicted or refused, data goes only to the port that    *)
(* opened the host's transfer and only from the file opened then.          *)
THEOREM GrantImplemented == TftpSpec => GrantRefinement
<1>1. TftpInit => Grant!Init /\ StdinOpen
  <2> SUFFICES ASSUME TftpInit PROVE Grant!Init /\ StdinOpen
    OBVIOUS
  <2>1. Active = {} /\ sent = {}
    BY DEF TftpInit, SessionInit, Active
  <2>2. fdtab[0] = "stdin"
    BY MaxFdAssumption DEF TftpInit, IoInit
  <2> QED
    BY <2>1, <2>2 DEF Grant!Init, Granted, DataSent, StdinOpen
<1>2. TypeOK /\ FdInv /\ StdinOpen /\ [TftpNext]_tftpVars => StdinOpen'
  <2> SUFFICES ASSUME TypeOK, FdInv, StdinOpen, [TftpNext]_tftpVars PROVE StdinOpen'
    OBVIOUS
  <2>1. Grows(Io, Io') => StdinOpen'
    BY DEF Grows, Io, StdinOpen
  <2> QED
    BY <2>1, ReadRequestEffect, AckEffect, OtherEffect DEF TftpNext, StdinOpen, tftpVars
<1>3. TftpSpec => []TypeOK
  BY TableImplemented, TypeCorrect, PTL DEF TableRefinement
<1>4. TypeOK /\ FdInv /\ StdinOpen /\ TypeOK' /\ FdInv' /\ StdinOpen' /\ [TftpNext]_tftpVars
        => [Grant!Next]_(Grant!vars)
  BY GrantStep
<1> QED
  BY <1>1, <1>2, <1>3, <1>4, FdInvAlways, PTL DEF TftpSpec, GrantRefinement, Grant!Spec
=============================================================================

--------------------------- MODULE EventLoop_proofs ---------------------------
(***************************************************************************)
(* Proofs about the start-up and the server loop (modules Services and     *)
(* EventLoop), for any number of requests, devices, listeners, descriptors *)
(* and queued packets.                                                     *)
(*                                                                         *)
(* Everything rests on descriptors: no two listeners of the list have one  *)
(* in common, every listed descriptor is open, and so a listener that a    *)
(* handler appends during a walk has a descriptor select said nothing of.  *)
(***************************************************************************)
EXTENDS EventLoop, SequenceTheorems, FiniteSetTheorems, TLAPS

----------------------------------------------------------------------------
(* The inductive invariant.  Types of what TypeOK leaves out: the requests *)
(* still to be made, the services' arrays and what is to be opened.        *)
Services == Range(Registry)
RequestSet == [service : Services, host : STRING, port : STRING]
Ips == IpWords \cup Range(NameIp) \cup {AnyIp}
Ports == {0} \cup Range(PortNames)
SockAddrs == [ip : Ips, port : Ports]
Names == Range(Devices) \cup Ips \cup {"data"}
Types == {"link", "udp", "rpc"}
ToOpenRecords == [type : Types, on : Names, port : Ports \cup Range(DefPort),
                  services : Seq(Services)]

Elements(s) == IF s \in LISTEN_LINK THEN Range(Devices) ELSE SockAddrs

BindOK ==
    /\ DOMAIN bind = Services
    /\ \A s \in Services : bind[s] \in Seq(Elements(s))

(* Before service_start nothing is opened; before the loop nothing walked. *)
StagesOK ==
    /\ status = "configuring" => pending = <<>> /\ listeners = <<>>
    /\ status \in {"configuring", "starting"} => at = 0 /\ ready = {}

(* The link elements of a list are for different devices, and each is for  *)
(* all the services that have its device.                                  *)
IsLink(l) == l.type = "link"

LinksOf(q) ==
    /\ \A i \in DOMAIN q :
          IsLink(q[i]) => q[i].on \in Range(known) /\ q[i].services = Filter(q[i].on)
    /\ \A i, j \in DOMAIN q : IsLink(q[i]) /\ IsLink(q[j]) /\ q[i].on = q[j].on => i = j

Apart(p, q) ==
    \A i \in DOMAIN p, j \in DOMAIN q : IsLink(p[i]) /\ IsLink(q[j]) => p[i].on # q[j].on

LinksOK == LinksOf(pending) /\ LinksOf(listeners) /\ Apart(pending, listeners)

(* No two listeners have the same descriptor.                              *)
FdsDiffer == \A i, j \in DOMAIN listeners : listeners[i].fd = listeners[j].fd => i = j

(* The kernel queues packets for listed descriptors only.                  *)
QueuesOK ==
    /\ \A l \in Range(listeners) : wait[l.fd] <= QMax[l.type]
    /\ \A fd \in Fds \ Listed : wait[fd] = 0

IInv ==
    /\ TypeOK /\ requests \in Seq(RequestSet) /\ pending \in Seq(ToOpenRecords)
    /\ BindOK /\ StagesOK /\ LinksOK
    /\ FdsDiffer /\ ready \subseteq used /\ QueuesOK
    /\ SelectStillHolds

----------------------------------------------------------------------------
(* The initial state.                                                      *)
LEMMA InitInv == Init => IInv
<1> SUFFICES ASSUME Init PROVE IInv
  OBVIOUS
<1> USE DEF Init, ServicesInit
<1>1. \A S : <<>> \in Seq(S) /\ Len(<<>>) = 0 /\ DOMAIN <<>> = {}
  OBVIOUS
<1>2. Listed = {}
  BY <1>1 DEF Listed, Range
<1>3. TypeOK
  BY <1>1, <1>2, EventLoopAssumption DEF TypeOK, Listed, Range
<1>4. requests \in Seq(RequestSet)
  BY ServicesAssumption DEF RequestSet, Services
<1>5. BindOK
  BY <1>1 DEF BindOK, Services
<1>6. StagesOK /\ LinksOK /\ FdsDiffer
  BY <1>1 DEF StagesOK, LinksOK, LinksOf, Apart, FdsDiffer
<1>7. QueuesOK /\ SelectStillHolds
  BY <1>2, <1>1 DEF QueuesOK, SelectStillHolds, Range
<1> QED
  BY <1>1, <1>3, <1>4, <1>5, <1>6, <1>7 DEF IInv

----------------------------------------------------------------------------
(* An array takes what fits.                                               *)
LEMMA FirstPlacesType ==
  ASSUME NEW S, NEW array \in Seq(S), NEW n \in Nat
  PROVE  FirstPlaces(array, n) \in Seq(S)
<1> DEFINE m == IF Len(array) < n THEN Len(array) ELSE n
<1>1. m \in Nat /\ \A i \in 1 .. m : array[i] \in S
  OBVIOUS
<1> HIDE DEF m
<1>2. SubSeq(array, 1, m) \in Seq(S)
  BY <1>1, SubSeqProperties
<1> QED
  BY <1>2 DEF FirstPlaces, m

LEMMA AddToType ==
  ASSUME BindOK, NEW s \in Services, NEW new \in Seq(Elements(s)),
         bind' = AddTo(s, new)
  PROVE  BindOK'
<1>1. bind[s] \o new \in Seq(Elements(s)) /\ BindMax \in Nat
  BY ConcatProperties, ServicesAssumption DEF BindOK
<1> DEFINE b == FirstPlaces(bind[s] \o new, BindMax)
<1>2. b \in Seq(Elements(s))
  BY <1>1, FirstPlacesType
<1>3. bind' = [bind EXCEPT ![s] = b]
  BY DEF AddTo
<1> HIDE DEF b
<1> QED
  BY <1>2, <1>3 DEF BindOK, Elements

(* What the requests add has the type of the array.                        *)
LEMMA FoundIs ==
  ASSUME known \in {<<>>, Devices}
  PROVE  Found = Devices /\ known \in Seq(Range(Devices))
<1>1. Devices \in Seq(STRING)
  BY ServicesAssumption
<1>2. Devices \in Seq(Range(Devices)) /\ <<>> \in Seq(Range(Devices))
  <2>1. Len(Devices) \in Nat /\ DOMAIN Devices = 1 .. Len(Devices)
        /\ Devices = [i \in 1 .. Len(Devices) |-> Devices[i]]
    BY <1>1, LenProperties
  <2>2. \A i \in 1 .. Len(Devices) : Devices[i] \in Range(Devices)
    BY <2>1 DEF Range
  <2> QED
    BY <2>1, <2>2, SeqDef
<1> QED
  BY <1>2 DEF Found

LEMMA LinkAddType ==
  ASSUME BindOK, known \in {<<>>, Devices},
         NEW r \in RequestSet, r.service \in LISTEN_LINK, service_link_add(r)
  PROVE  BindOK' /\ known' \in {<<>>, Devices} /\ status' = status
<1>1. r.service \in Services /\ Elements(r.service) = Range(Devices)
  BY DEF RequestSet, Elements
<1>2. CASE r.host \in {"*", "all"}
  BY <1>1, <1>2, FoundIs, AddToType DEF service_link_add
<1>3. CASE r.host \notin {"*", "all"}
  <2>1. known' = Devices /\ status' = status
    BY <1>3, FoundIs DEF service_link_add
  <2>2. CASE r.host \in Range(Devices)
    <3>1. <<r.host>> \in Seq(Range(Devices)) /\ bind' = AddTo(r.service, <<r.host>>)
      BY <1>3, <2>2, FoundIs DEF service_link_add
    <3> QED
      BY <1>1, <2>1, <3>1, AddToType
  <2>3. CASE r.host \notin Range(Devices)
    BY <1>3, <2>1, <2>3, FoundIs DEF service_link_add, BindOK
  <2> QED
    BY <2>2, <2>3
<1> QED
  BY <1>2, <1>3

LEMMA AddressesType ==
  ASSUME NEW r, NEW ips \in Seq(Ips)
  PROVE  Addresses(r, ips) \in Seq(SockAddrs)
<1>1. PortNumber(r) \in Ports
  BY DEF PortNumber, Ports, Range
<1>2. Len(ips) \in Nat /\ DOMAIN ips = 1 .. Len(ips) /\ \A i \in 1 .. Len(ips) : ips[i] \in Ips
  BY LenProperties, ElementOfSeq
<1>3. \A i \in 1 .. Len(ips) : [ip |-> ips[i], port |-> PortNumber(r)] \in SockAddrs
  BY <1>1, <1>2 DEF SockAddrs
<1> QED
  BY <1>2, <1>3 DEF Addresses

LEMMA UdpAddType ==
  ASSUME BindOK, known \in {<<>>, Devices},
         NEW r \in RequestSet, r.service \notin LISTEN_LINK, service_udp_add(r)
  PROVE  BindOK' /\ known' \in {<<>>, Devices} /\ status' \in {status, "exited"}
<1>1. r.service \in Services /\ Elements(r.service) = SockAddrs
  BY DEF RequestSet, Elements
<1>2. \A ips \in Seq(Ips) :
         bind' = AddTo(r.service, Addresses(r, ips)) => BindOK'
  BY <1>1, AddressesType, AddToType
<1>3. UNCHANGED bind => BindOK'
  BY DEF BindOK, Elements
<1>4. CASE HostPortRefused(r) \/ ~PortKnown(r)
  BY <1>3, <1>4 DEF service_udp_add
<1>5. CASE ~(HostPortRefused(r) \/ ~PortKnown(r)) /\ (AnyHost(r) \/ r.host \in IpWords)
  <2>1. <<IF AnyHost(r) THEN AnyIp ELSE r.host>> \in Seq(Ips)
    BY <1>5 DEF Ips
  <2> QED
    BY <1>2, <1>5, <2>1 DEF service_udp_add
<1>6. CASE ~(HostPortRefused(r) \/ ~PortKnown(r)) /\ ~(AnyHost(r) \/ r.host \in IpWords)
  <2>1. known' = Devices
    BY <1>6, FoundIs DEF service_udp_add
  <2>2. CASE r.host \in Range(Devices)
    <3>1. DeviceIps[r.host] \in Seq(Ips)
      BY <2>2, ServicesAssumption, SeqMonotonic DEF Ips
    <3> QED
      BY <1>2, <1>6, <2>1, <2>2, <3>1, FoundIs DEF service_udp_add
  <2>3. CASE r.host \notin Range(Devices) /\ r.host \in DOMAIN NameIp
    <3>1. <<NameIp[r.host]>> \in Seq(Ips)
      BY <2>3 DEF Ips, Range
    <3> QED
      BY <1>2, <1>6, <2>1, <2>3, <3>1, FoundIs DEF service_udp_add
  <2>4. CASE r.host \notin Range(Devices) /\ r.host \notin DOMAIN NameIp
    BY <1>3, <1>6, <2>1, <2>4, FoundIs DEF service_udp_add
  <2> QED
    BY <2>2, <2>3, <2>4
<1> QED
  BY <1>4, <1>5, <1>6

LEMMA RequestsTail ==
  ASSUME requests \in Seq(RequestSet), requests # <<>>
  PROVE  Head(requests) \in RequestSet /\ Tail(requests) \in Seq(RequestSet)
BY HeadTailProperties

(* What the loop keeps is left alone by the start-up.                      *)
LEMMA StartUpFrame ==
  ASSUME IInv, status \in {"configuring", "starting"}, UNCHANGED loopVars
  PROVE  /\ at' = 0 /\ ready' = {} /\ SelectStillHolds'
         /\ wait' = wait /\ wait' \in [Fds -> Nat]
         /\ user' \in [Fds -> 0 .. QMax["link"] - 1]
BY DEF IInv, StagesOK, TypeOK, loopVars, SelectStillHolds

LEMMA ConfigureInv ==
  ASSUME IInv, Configure, UNCHANGED loopVars
  PROVE  IInv'
<1>1. /\ UNCHANGED <<pending, listeners, used>> /\ status = "configuring"
      /\ pending = <<>> /\ listeners = <<>>
      /\ requests \in Seq(RequestSet) /\ requests # <<>> /\ requests' = Tail(requests)
      /\ BindOK /\ known \in {<<>>, Devices}
  BY DEF Configure, IInv, StagesOK, TypeOK, Services
<1>2. Head(requests) \in RequestSet /\ requests' \in Seq(RequestSet)
  BY <1>1, RequestsTail
<1>3. BindOK' /\ known' \in {<<>>, Devices} /\ status' \in {status, "exited"}
  <2> DEFINE r == Head(requests)
  <2>1. IF r.service \in LISTEN_LINK THEN service_link_add(r) ELSE service_udp_add(r)
    BY DEF Configure
  <2> QED
    BY <1>1, <1>2, <2>1, LinkAddType, UdpAddType
<1>4. /\ at' = 0 /\ ready' = {} /\ SelectStillHolds' /\ wait' = wait
      /\ wait' \in [Fds -> Nat] /\ user' \in [Fds -> 0 .. QMax["link"] - 1]
  BY <1>1, StartUpFrame
<1>5. TypeOK'
  BY <1>1, <1>3, <1>4 DEF IInv, TypeOK, Listed
<1>6. StagesOK'
  BY <1>1, <1>3, <1>4 DEF StagesOK
<1>7. LinksOK' /\ FdsDiffer'
  BY <1>1 DEF LinksOK, LinksOf, Apart, FdsDiffer
<1>8. QueuesOK' /\ ready' \subseteq used' /\ pending' \in Seq(ToOpenRecords)
  BY <1>1, <1>4 DEF QueuesOK, IInv, Listed
<1> QED
  BY <1>2, <1>3, <1>4, <1>5, <1>6, <1>7, <1>8 DEF IInv

----------------------------------------------------------------------------
(* The filter of a device has every service that has the device.           *)
LEMMA UsesPositive ==
  ASSUME BindOK, NEW s \in LISTEN_LINK, NEW d
  PROVE  /\ Uses(s, d) \in Nat
         /\ d \in Range(bind[s]) => Uses(s, d) > 0
<1> DEFINE P == {i \in DOMAIN bind[s] : bind[s][i] = d}
<1>1. s \in Services /\ bind[s] \in Seq(Elements(s))
  BY DEF BindOK, LISTEN_LINK, Services, Registry, Range
<1>2. DOMAIN bind[s] = 1 .. Len(bind[s]) /\ Len(bind[s]) \in Nat
  BY <1>1, LenProperties
<1>3. IsFiniteSet(1 .. Len(bind[s]))
  BY <1>2, FS_Interval
<1>4. IsFiniteSet(P)
  BY <1>2, <1>3, FS_Subset
<1>5. Cardinality(P) \in Nat /\ (Cardinality(P) = 0 <=> P = {})
  BY <1>4, FS_CardinalityType, FS_EmptySet
<1>6. d \in Range(bind[s]) => P # {}
  BY DEF Range
<1> HIDE DEF P
<1> QED
  BY <1>5, <1>6 DEF Uses, P

LEMMA JoinFilterHas ==
  ASSUME BindOK, NEW s \in LISTEN_LINK, NEW d, NEW filter \in Seq(Services)
  PROVE  /\ JoinFilter(filter, s, d) \in Seq(Services)
         /\ Range(filter) \subseteq Range(JoinFilter(filter, s, d))
         /\ d \in Range(bind[s]) => s \in Range(JoinFilter(filter, s, d))
<1> DEFINE n == Uses(s, d)
           tail == [i \in 1 .. n |-> s]
<1>1. n \in Nat /\ (d \in Range(bind[s]) => n > 0)
  BY UsesPositive
<1>2. s \in Services
  BY DEF LISTEN_LINK, Services, Registry, Range
<1> HIDE DEF n
<1>3. tail \in Seq(Services) /\ Len(tail) = n /\ \A i \in 1 .. n : tail[i] = s
  BY <1>1, <1>2
<1> HIDE DEF tail
<1> DEFINE all == filter \o tail
<1>4. /\ all \in Seq(Services) /\ Len(filter) \in Nat /\ Len(all) = Len(filter) + n
      /\ \A i \in 1 .. Len(filter) + n :
            all[i] = IF i <= Len(filter) THEN filter[i] ELSE tail[i - Len(filter)]
      /\ DOMAIN all = 1 .. Len(filter) + n /\ DOMAIN filter = 1 .. Len(filter)
  <2>1. /\ all \in Seq(Services) /\ Len(all) = Len(filter) + n
        /\ \A i \in 1 .. Len(filter) + n :
              all[i] = IF i <= Len(filter) THEN filter[i] ELSE tail[i - Len(filter)]
    BY <1>3, ConcatProperties
  <2> HIDE DEF all
  <2> QED
    BY <2>1, LenProperties
<1> HIDE DEF all
<1>5. Range(filter) \subseteq Range(all)
  BY <1>1, <1>4 DEF Range
<1>6. n > 0 => s \in Range(all)
  <2>1. SUFFICES ASSUME n > 0 PROVE s \in Range(all)
    OBVIOUS
  <2>2. Len(filter) + 1 \in DOMAIN all /\ all[Len(filter) + 1] = s
    BY <1>1, <1>3, <1>4, <2>1
  <2> QED
    BY <2>2 DEF Range
<1>7. JoinFilter(filter, s, d) = all
  BY DEF JoinFilter, n, tail, all
<1> QED
  BY <1>1, <1>4, <1>5, <1>6, <1>7

LEMMA FilterHas ==
  ASSUME BindOK, NEW d
  PROVE  /\ Filter(d) \in Seq(Services)
         /\ \A s \in LISTEN_LINK : d \in Range(bind[s]) => s \in Range(Filter(d))
<1> DEFINE a == JoinFilter(<<>>, "rarp", d)
           b == JoinFilter(a, "mop", d)
           c == JoinFilter(b, "rmp", d)
<1>1. LISTEN_LINK = {"rarp", "mop", "rmp"} /\ <<>> \in Seq(Services)
  BY DEF LISTEN_LINK
<1>2. a \in Seq(Services) /\ (d \in Range(bind["rarp"]) => "rarp" \in Range(a))
  BY <1>1, JoinFilterHas
<1> HIDE DEF a
<1>3. /\ b \in Seq(Services) /\ Range(a) \subseteq Range(b)
      /\ d \in Range(bind["mop"]) => "mop" \in Range(b)
  BY <1>1, <1>2, JoinFilterHas
<1> HIDE DEF b
<1>4. /\ c \in Seq(Services) /\ Range(b) \subseteq Range(c)
      /\ d \in Range(bind["rmp"]) => "rmp" \in Range(c)
  BY <1>1, <1>3, JoinFilterHas
<1>5. Filter(d) = c
  BY DEF Filter, a, b, c
<1> HIDE DEF c
<1> QED
  BY <1>1, <1>2, <1>3, <1>4, <1>5

(* Filters change with the arrays only, and so do what links are for.      *)
LEMMA FilterSame ==
  ASSUME UNCHANGED bind
  PROVE  \A d : Filter(d)' = Filter(d)
<1> SUFFICES ASSUME NEW d PROVE Filter(d)' = Filter(d)
  OBVIOUS
<1>1. \A s : {i \in DOMAIN bind'[s] : bind'[s][i] = d} = {i \in DOMAIN bind[s] : bind[s][i] = d}
  OBVIOUS
<1> QED
  BY <1>1 DEF Filter, JoinFilter, Uses

LEMMA LinksSame ==
  ASSUME UNCHANGED <<known, bind>>,
         LinksOf(pending'), LinksOf(listeners'), Apart(pending', listeners')
  PROVE  LinksOK'
BY FilterSame DEF LinksOK, LinksOf, Apart

----------------------------------------------------------------------------
(* What service_start finds to open: sockets, then each device once.       *)
Sockets == ToOpen("dhcp") \o ToOpen("tftp") \o ToOpen("bootparam")
SocketRecords == {p \in ToOpenRecords : ~IsLink(p)}

LEMMA ToOpenType ==
  ASSUME BindOK, NEW s \in Services \ LISTEN_LINK
  PROVE  ToOpen(s) \in Seq(SocketRecords)
<1>1. /\ bind[s] \in Seq(SockAddrs) /\ s \in Services
      /\ s \in LISTEN_UDP => DefPort[s] \in Range(DefPort)
  BY DEF BindOK, Elements, DefPort, Range
<1>2. /\ Len(bind[s]) \in Nat /\ DOMAIN bind[s] = 1 .. Len(bind[s])
      /\ \A i \in 1 .. Len(bind[s]) : bind[s][i] \in SockAddrs
  BY <1>1, LenProperties, ElementOfSeq
<1> DEFINE port(i) == IF bind[s][i].port = 0 /\ s \in LISTEN_UDP THEN DefPort[s]
                      ELSE bind[s][i].port
           e(i) == [type |-> IF s \in LISTEN_UDP THEN "udp" ELSE "rpc", on |-> bind[s][i].ip,
                    port |-> port(i), services |-> <<s>>]
<1>3. \A i \in 1 .. Len(bind[s]) : e(i) \in SocketRecords
  <2>1. SUFFICES ASSUME NEW i \in 1 .. Len(bind[s]) PROVE e(i) \in SocketRecords
    OBVIOUS
  <2>2. bind[s][i].ip \in Names /\ port(i) \in Ports \cup Range(DefPort)
    BY <1>1, <1>2 DEF SockAddrs, Names
  <2>3. <<s>> \in Seq(Services)
    BY <1>1
  <2> HIDE DEF port
  <2> QED
    BY <2>2, <2>3 DEF SocketRecords, ToOpenRecords, Types, IsLink
<1> HIDE DEF e
<1>4. [i \in 1 .. Len(bind[s]) |-> e(i)] \in Seq(SocketRecords)
  BY <1>2, <1>3
<1> QED
  BY <1>2, <1>4 DEF ToOpen, e

LEMMA SocketsType ==
  ASSUME BindOK
  PROVE  Sockets \in Seq(SocketRecords)
<1>1. {"dhcp", "tftp", "bootparam"} \subseteq Services \ LISTEN_LINK
  BY DEF Services, Registry, Range, LISTEN_LINK
<1>2. /\ ToOpen("dhcp") \in Seq(SocketRecords) /\ ToOpen("tftp") \in Seq(SocketRecords)
      /\ ToOpen("bootparam") \in Seq(SocketRecords)
  BY <1>1, ToOpenType
<1> QED
  BY <1>2, ConcatProperties DEF Sockets

LEMMA LinksToOpenType ==
  ASSUME BindOK, known \in {<<>>, Devices}
  PROVE  /\ LinksToOpen \in Seq(ToOpenRecords)
         /\ LinksOf(LinksToOpen)
<1>1. /\ known \in Seq(Range(Devices)) /\ Len(known) \in Nat
      /\ DOMAIN known = 1 .. Len(known)
      /\ \A i \in 1 .. Len(known) : known[i] \in Range(Devices) /\ known[i] \in Range(known)
  BY FoundIs, LenProperties, ElementOfSeq DEF Range
<1>2. \A i, j \in DOMAIN known : known[i] = known[j] => i = j
  BY ServicesAssumption DEF IsInjective
<1> DEFINE e(i) == [type |-> "link", on |-> known[i], port |-> 0, services |-> Filter(known[i])]
<1>3. \A i \in 1 .. Len(known) : e(i) \in ToOpenRecords
  BY <1>1, FilterHas DEF ToOpenRecords, Types, Names, Ports
<1>4. \A i : e(i).type = "link" /\ e(i).on = known[i] /\ e(i).services = Filter(known[i])
  OBVIOUS
<1> HIDE DEF e
<1>5. LinksToOpen = [i \in 1 .. Len(known) |-> e(i)]
  BY <1>1 DEF LinksToOpen, e
<1>6. [i \in 1 .. Len(known) |-> e(i)] \in Seq(ToOpenRecords)
  BY <1>1, <1>3
<1>7. DOMAIN LinksToOpen = DOMAIN known /\ \A i \in DOMAIN known : LinksToOpen[i] = e(i)
  BY <1>1, <1>5
<1>8. LinksOf(LinksToOpen)
  BY <1>1, <1>2, <1>4, <1>7 DEF LinksOf
<1> QED
  BY <1>5, <1>6, <1>8

LEMMA SocketsThenLinks ==
  ASSUME NEW p \in Seq(SocketRecords), NEW q \in Seq(ToOpenRecords), LinksOf(q)
  PROVE  p \o q \in Seq(ToOpenRecords) /\ LinksOf(p \o q)
<1> DEFINE all == p \o q
<1>1. p \in Seq(ToOpenRecords)
  BY SeqMonotonic DEF SocketRecords
<1>2. /\ all \in Seq(ToOpenRecords) /\ Len(p) \in Nat /\ Len(q) \in Nat
      /\ DOMAIN all = 1 .. Len(p) + Len(q) /\ DOMAIN q = 1 .. Len(q)
      /\ \A i \in 1 .. Len(p) + Len(q) : all[i] = IF i <= Len(p) THEN p[i] ELSE q[i - Len(p)]
  BY <1>1, ConcatProperties, LenProperties
<1>3. \A i \in 1 .. Len(p) : ~IsLink(p[i])
  BY ElementOfSeq DEF SocketRecords
<1> HIDE DEF all
<1>4. \A i \in DOMAIN all : IsLink(all[i]) => i - Len(p) \in DOMAIN q /\ all[i] = q[i - Len(p)]
  BY <1>2, <1>3
<1>5. \A i \in DOMAIN all :
         IsLink(all[i]) => all[i].on \in Range(known) /\ all[i].services = Filter(all[i].on)
  BY <1>4 DEF LinksOf
<1>6. ASSUME NEW i \in DOMAIN all, NEW j \in DOMAIN all,
             IsLink(all[i]), IsLink(all[j]), all[i].on = all[j].on
      PROVE  i = j
  <2>1. i - Len(p) = j - Len(p)
    BY <1>4, <1>6 DEF LinksOf
  <2> QED
    BY <1>2, <2>1
<1> QED
  BY <1>2, <1>5, <1>6 DEF LinksOf, all

LEMMA ServiceStartInv ==
  ASSUME IInv, ServiceStart, UNCHANGED loopVars
  PROVE  IInv'
<1>1. /\ UNCHANGED <<requests, known, bind, listeners, used>> /\ status = "configuring"
      /\ pending = <<>> /\ listeners = <<>> /\ BindOK /\ known \in {<<>>, Devices}
  BY DEF ServiceStart, IInv, StagesOK, TypeOK, Services
<1>2. /\ at' = 0 /\ ready' = {} /\ SelectStillHolds' /\ wait' = wait
      /\ wait' \in [Fds -> Nat] /\ user' \in [Fds -> 0 .. QMax["link"] - 1]
  BY <1>1, StartUpFrame
<1>3. \/ pending' = pending /\ status' \in {"exited", "undefined"}
      \/ pending' = Sockets \o LinksToOpen /\ status' = "starting"
  BY DEF ServiceStart, Sockets
<1>4. pending' \in Seq(ToOpenRecords) /\ LinksOf(pending')
  <2>1. <<>> \in Seq(ToOpenRecords) /\ LinksOf(<<>>)
    BY DEF LinksOf
  <2>2. Sockets \o LinksToOpen \in Seq(ToOpenRecords) /\ LinksOf(Sockets \o LinksToOpen)
    BY <1>1, SocketsType, LinksToOpenType, SocketsThenLinks
  <2> QED
    BY <1>1, <1>3, <2>1, <2>2
<1>5. LinksOK'
  <2>1. LinksOf(listeners') /\ Apart(pending', listeners')
    BY <1>1 DEF LinksOf, Apart
  <2> QED
    BY <1>1, <1>4, <2>1, LinksSame
<1>6. TypeOK'
  BY <1>1, <1>2, <1>3 DEF IInv, TypeOK, Listed
<1>7. StagesOK' /\ FdsDiffer' /\ BindOK'
  BY <1>1, <1>2, <1>3 DEF StagesOK, FdsDiffer, BindOK
<1>8. QueuesOK' /\ ready' \subseteq used' /\ requests' \in Seq(RequestSet)
  BY <1>1, <1>2 DEF QueuesOK, IInv, Listed
<1> QED
  BY <1>2, <1>4, <1>5, <1>6, <1>7, <1>8 DEF IInv

----------------------------------------------------------------------------
(* The list grows at its end, by a listener whose descriptor was not open. *)
Grown(l) == listeners' = listeners \/ listeners' = Append(listeners, l)

LEMMA AddGrows ==
  ASSUME NEW l, listener_add(l)
  PROVE  Grown(l) /\ status' \in {status, "killed"}
BY DEF listener_add, Grown

LEMMA ListedIs ==
  ASSUME TypeOK
  PROVE  /\ listeners \in Seq(ListenerRecords) /\ Len(listeners) \in Nat
         /\ DOMAIN listeners = 1 .. Len(listeners)
         /\ \A i \in DOMAIN listeners :
               /\ listeners[i] \in ListenerRecords /\ listeners[i] \in Range(listeners)
               /\ listeners[i].fd \in Listed /\ listeners[i].fd \in Fds
               /\ listeners[i].type \in Types
<1>1. /\ listeners \in Seq(ListenerRecords) /\ Len(listeners) \in Nat
      /\ DOMAIN listeners = 1 .. Len(listeners)
  BY LenProperties DEF TypeOK
<1>2. \A i \in DOMAIN listeners :
         listeners[i] \in ListenerRecords /\ listeners[i] \in Range(listeners)
  BY <1>1, ElementOfSeq DEF Range
<1>3. \A i \in DOMAIN listeners : listeners[i].fd \in Listed
  BY <1>2 DEF Listed
<1> QED
  BY <1>1, <1>2, <1>3 DEF ListenerRecords, Types

LEMMA GrownList ==
  ASSUME TypeOK, FdsDiffer, NEW l \in ListenerRecords, l.fd \notin used, Grown(l)
  PROVE  /\ listeners' \in Seq(ListenerRecords)
         /\ Len(listeners') \in {Len(listeners), Len(listeners) + 1}
         /\ DOMAIN listeners' = 1 .. Len(listeners')
         /\ \A i \in 1 .. Len(listeners) : listeners'[i] = listeners[i]
         /\ \A i \in 1 .. Len(listeners') : i \notin 1 .. Len(listeners) => listeners'[i] = l
         /\ Range(listeners') \subseteq Range(listeners) \cup {l}
         /\ Listed \subseteq Listed' /\ Listed' \subseteq Listed \cup {l.fd}
         /\ FdsDiffer'
<1>1. /\ listeners \in Seq(ListenerRecords) /\ Len(listeners) \in Nat
      /\ DOMAIN listeners = 1 .. Len(listeners)
      /\ \A i \in DOMAIN listeners : listeners[i].fd \in used
  BY ListedIs DEF TypeOK
<1>2. /\ listeners' \in Seq(ListenerRecords)
      /\ Len(listeners') \in {Len(listeners), Len(listeners) + 1}
      /\ DOMAIN listeners' = 1 .. Len(listeners')
      /\ \A i \in 1 .. Len(listeners) : listeners'[i] = listeners[i]
      /\ \A i \in 1 .. Len(listeners') : i \notin 1 .. Len(listeners) => listeners'[i] = l
  <2>1. CASE listeners' = listeners
    BY <1>1, <2>1
  <2>2. CASE listeners' = Append(listeners, l)
    BY <1>1, <2>2, AppendProperties
  <2> QED
    BY <2>1, <2>2 DEF Grown
<1>3. Range(listeners') \subseteq Range(listeners) \cup {l}
  BY <1>1, <1>2 DEF Range
<1>4. Range(listeners) \subseteq Range(listeners')
  <2>1. \A i \in DOMAIN listeners : i \in DOMAIN listeners' /\ listeners'[i] = listeners[i]
    <3> DEFINE m == Len(listeners)
               n == Len(listeners')
    <3>1. /\ m \in Nat /\ n \in {m, m + 1}
          /\ DOMAIN listeners = 1 .. m /\ DOMAIN listeners' = 1 .. n
      BY <1>1, <1>2
    <3>2. \A i \in 1 .. m : listeners'[i] = listeners[i]
      BY <1>2
    <3> HIDE DEF m, n
    <3> QED
      BY <3>1, <3>2
  <2> QED
    BY <2>1 DEF Range
<1>5. Listed \subseteq Listed' /\ Listed' \subseteq Listed \cup {l.fd}
  BY <1>3, <1>4 DEF Listed
<1>6. FdsDiffer'
  <2>1. SUFFICES ASSUME NEW i \in 1 .. Len(listeners'), NEW j \in 1 .. Len(listeners'),
                        listeners'[i].fd = listeners'[j].fd
                 PROVE  i = j
    BY <1>2 DEF FdsDiffer
  <2>2. CASE i \in 1 .. Len(listeners) /\ j \in 1 .. Len(listeners)
    <3>1. i \in DOMAIN listeners /\ j \in DOMAIN listeners
          /\ listeners[i].fd = listeners[j].fd
      BY <1>1, <1>2, <2>1, <2>2
    <3> QED
      BY <3>1 DEF FdsDiffer
  <2>3. CASE i \notin 1 .. Len(listeners) /\ j \notin 1 .. Len(listeners)
    <3> DEFINE m == Len(listeners)
               n == Len(listeners')
    <3>1. m \in Nat /\ n \in {m, m + 1} /\ i \in 1 .. n /\ j \in 1 .. n
          /\ i \notin 1 .. m /\ j \notin 1 .. m
      BY <1>1, <1>2, <2>1, <2>3
    <3> HIDE DEF m, n
    <3> QED
      BY <3>1
  <2>4. CASE i \in 1 .. Len(listeners) /\ j \notin 1 .. Len(listeners)
    BY <1>1, <1>2, <2>1, <2>4
  <2>5. CASE i \notin 1 .. Len(listeners) /\ j \in 1 .. Len(listeners)
    BY <1>1, <1>2, <2>1, <2>5
  <2> QED
    BY <2>2, <2>3, <2>4, <2>5
<1> QED
  BY <1>2, <1>3, <1>5, <1>6

(* The queue of a new listener is empty, and the others do not get longer. *)
LEMMA GrownQueues ==
  ASSUME TypeOK, FdsDiffer, QueuesOK, NEW l \in ListenerRecords, l.fd \notin used, Grown(l),
         wait' \in [Fds -> Nat], \A fd \in Fds : wait'[fd] <= wait[fd]
  PROVE  QueuesOK'
<1>1. /\ Range(listeners') \subseteq Range(listeners) \cup {l}
      /\ Listed \subseteq Listed' /\ Listed \subseteq used
  BY GrownList DEF TypeOK
<1>2. \A fd \in Fds : wait[fd] \in Nat /\ wait'[fd] \in Nat
  BY DEF TypeOK
<1>3. \A fd \in Fds \ Listed : wait'[fd] = 0
  BY <1>2 DEF QueuesOK
<1>4. \A m \in Range(listeners) :
         m.fd \in Fds /\ m.type \in Types /\ QMax[m.type] \in Nat /\ wait[m.fd] <= QMax[m.type]
  BY ListedIs, EventLoopAssumption DEF QueuesOK, Types, Range
<1>5. \A m \in Range(listeners) : wait'[m.fd] <= QMax[m.type]
  BY <1>2, <1>4
<1>6. wait'[l.fd] <= QMax[l.type]
  BY <1>1, <1>3, EventLoopAssumption DEF ListenerRecords
<1>7. \A m \in Range(listeners)' : wait'[m.fd] <= QMax[m.type]
  BY <1>1, <1>5, <1>6
<1> QED
  BY <1>1, <1>3, <1>7 DEF QueuesOK

----------------------------------------------------------------------------
(* A listener is opened for the first of what is left to open.             *)
LEMMA LinksMoved ==
  ASSUME LinksOK, pending \in Seq(ToOpenRecords), pending # <<>>, UNCHANGED <<known, bind>>,
         TypeOK, FdsDiffer, pending' = Tail(pending), NEW fd,
         \/ listeners' = listeners
         \/ /\ Grown(AsListener(Head(pending), fd)) /\ fd \in Fds \ used
            /\ AsListener(Head(pending), fd) \in ListenerRecords
  PROVE  LinksOK'
<1> DEFINE p == Head(pending)
           l == AsListener(p, fd)
<1>1. /\ Len(pending) \in Nat /\ DOMAIN pending = 1 .. Len(pending) /\ 1 \in DOMAIN pending
      /\ p = pending[1]
      /\ Tail(pending) \in Seq(ToOpenRecords)
      /\ DOMAIN Tail(pending) = 1 .. Len(pending) - 1
      /\ \A i \in 1 .. Len(pending) - 1 : Tail(pending)[i] = pending[i + 1]
      /\ \A i \in 1 .. Len(pending) - 1 : i + 1 \in DOMAIN pending
  BY HeadTailProperties, LenProperties
<1>2. l.type = p.type /\ l.on = p.on /\ l.services = p.services /\ l.fd = fd
  BY DEF AsListener
<1> HIDE DEF p, l
<1>3. LinksOf(Tail(pending))
  <2>1. \A i \in DOMAIN Tail(pending) :
           i + 1 \in DOMAIN pending /\ Tail(pending)[i] = pending[i + 1]
    BY <1>1
  <2>2. \A i, j \in DOMAIN Tail(pending) : i + 1 = j + 1 => i = j
    BY <1>1
  <2> QED
    BY <2>1, <2>2 DEF LinksOK, LinksOf
<1>4. Apart(Tail(pending), listeners)
  BY <1>1 DEF LinksOK, Apart
<1>5. /\ IsLink(l) <=> IsLink(p)
      /\ IsLink(p) => p.on \in Range(known) /\ p.services = Filter(p.on)
      /\ \A i \in DOMAIN Tail(pending) : IsLink(p) /\ IsLink(Tail(pending)[i]) =>
                                            p.on # Tail(pending)[i].on
      /\ \A i \in DOMAIN listeners : IsLink(p) /\ IsLink(listeners[i]) => p.on # listeners[i].on
  <2>1. \A i \in DOMAIN Tail(pending) : i + 1 \in DOMAIN pending /\ i + 1 # 1
    BY <1>1
  <2> QED
    BY <1>1, <1>2, <2>1 DEF LinksOK, LinksOf, Apart, IsLink
<1>6. LinksOf(listeners') /\ Apart(Tail(pending), listeners')
  <2>1. CASE listeners' = listeners
    BY <1>4, <2>1 DEF LinksOK
  <2>2. CASE Grown(l) /\ fd \in Fds \ used /\ l \in ListenerRecords
    <3>1. /\ DOMAIN listeners' = 1 .. Len(listeners') /\ DOMAIN listeners = 1 .. Len(listeners)
          /\ \A i \in DOMAIN listeners : listeners'[i] = listeners[i]
          /\ \A i \in DOMAIN listeners' : i \notin DOMAIN listeners => listeners'[i] = l
          /\ \A i, j \in DOMAIN listeners' \ DOMAIN listeners : i = j
      BY <1>2, <2>2, GrownList, ListedIs
    <3>2. LinksOf(listeners')
      <4>1. \A i \in DOMAIN listeners' : IsLink(listeners'[i]) =>
               listeners'[i].on \in Range(known) /\ listeners'[i].services = Filter(listeners'[i].on)
        BY <1>2, <1>5, <3>1 DEF LinksOK, LinksOf
      <4>2. \A i, j \in DOMAIN listeners' :
               IsLink(listeners'[i]) /\ IsLink(listeners'[j]) /\ listeners'[i].on = listeners'[j].on
                  => i = j
        BY <1>2, <1>5, <3>1 DEF LinksOK, LinksOf
      <4> QED
        BY <4>1, <4>2 DEF LinksOf
    <3>3. Apart(Tail(pending), listeners')
      BY <1>2, <1>4, <1>5, <3>1 DEF Apart
    <3> QED
      BY <3>2, <3>3
  <2> QED
    BY <2>1, <2>2 DEF l, p
<1> QED
  BY <1>3, <1>6, LinksSame

LEMMA UnusedFds ==
  ASSUME NEW n, NEW fd \in Unused(n)
  PROVE  fd \in Fds \ used /\ Unused(n) \subseteq Fds
BY DEF Unused

LEMMA AsListenerType ==
  ASSUME NEW p \in ToOpenRecords, NEW fd \in Fds
  PROVE  AsListener(p, fd) \in ListenerRecords /\ AsListener(p, fd).fd = fd
<1>1. p.on \in Range(Devices) \cup IpWords \cup Range(NameIp) \cup {AnyIp, "data"}
  BY DEF ToOpenRecords, Names, Ips
<1> QED
  BY <1>1 DEF ToOpenRecords, Types, Services, AsListener, ListenerRecords

LEMMA OpenListenerInv ==
  ASSUME IInv, OpenListener, UNCHANGED loopVars
  PROVE  IInv'
<1>1. /\ UNCHANGED <<requests, known, bind>> /\ status = "starting"
      /\ pending # <<>> /\ pending' = Tail(pending) /\ pending \in Seq(ToOpenRecords)
      /\ TypeOK /\ LinksOK /\ FdsDiffer /\ QueuesOK
  BY DEF OpenListener, IInv
<1>2. /\ at' = 0 /\ ready' = {} /\ SelectStillHolds' /\ wait' = wait
      /\ wait' \in [Fds -> Nat] /\ user' \in [Fds -> 0 .. QMax["link"] - 1]
  BY <1>1, StartUpFrame DEF IInv
<1>3. pending' \in Seq(ToOpenRecords) /\ Head(pending) \in ToOpenRecords
  BY <1>1, HeadTailProperties
<1>4. /\ listeners' \in Seq(ListenerRecords) /\ Len(listeners') \in Nat
      /\ used' \subseteq Fds /\ Listed' \subseteq used'
      /\ FdsDiffer' /\ QueuesOK' /\ LinksOK' /\ status' \in {"starting", "killed"}
  <2>1. CASE UNCHANGED <<listeners, used, status>>
    <3>1. LinksOK'
      BY <1>1, <1>3, <2>1, LinksMoved
    <3> QED
      BY <1>1, <1>2, <2>1, <3>1 DEF TypeOK, Listed, FdsDiffer, QueuesOK
  <2>2. CASE /\ MayOpen(Head(pending))
             /\ LET new == Unused(FdsOf(Head(pending)))
                IN  /\ used' = used \cup new
                    /\ \E last \in new :
                          /\ \A fd \in new : fd <= last
                          /\ listener_add(AsListener(Head(pending), last))
    <3>1. PICK fd \in Unused(FdsOf(Head(pending))) : listener_add(AsListener(Head(pending), fd))
      BY <2>2
    <3> DEFINE l == AsListener(Head(pending), fd)
    <3>2. /\ fd \in Fds \ used /\ fd \in used' /\ used' \subseteq Fds /\ used \subseteq used'
          /\ l \in ListenerRecords /\ l.fd = fd
      BY <1>1, <1>3, <2>2, <3>1, UnusedFds, AsListenerType DEF TypeOK
    <3>3. Grown(l) /\ status' \in {status, "killed"}
      BY <3>1, AddGrows
    <3> HIDE DEF l
    <3>4. /\ listeners' \in Seq(ListenerRecords) /\ Listed' \subseteq used' /\ FdsDiffer'
          /\ Len(listeners') \in Nat
      BY <1>1, <3>2, <3>3, GrownList, ListedIs DEF TypeOK
    <3>5. QueuesOK'
      <4>1. \A n \in Fds : wait'[n] <= wait[n]
        BY <1>1, <1>2 DEF TypeOK
      <4> QED
        BY <1>1, <1>2, <3>2, <3>3, <4>1, GrownQueues
    <3>6. LinksOK'
      BY <1>1, <3>2, <3>3, LinksMoved DEF l
    <3> QED
      BY <1>1, <3>2, <3>3, <3>4, <3>5, <3>6
  <2> QED
    BY <2>1, <2>2 DEF OpenListener
<1>5. TypeOK'
  BY <1>1, <1>2, <1>4 DEF TypeOK
<1>6. BindOK' /\ StagesOK' /\ requests' \in Seq(RequestSet)
  BY <1>1, <1>2, <1>4 DEF BindOK, StagesOK, IInv
<1> QED
  BY <1>2, <1>3, <1>4, <1>5, <1>6 DEF IInv

(* The loop begins with nothing left to open or walked.                    *)
LEMMA StartedInv ==
  ASSUME IInv, Started, UNCHANGED loopVars
  PROVE  IInv'
<1>1. /\ UNCHANGED <<requests, known, bind, pending, listeners, used>>
      /\ status = "starting" /\ status' = "running"
  BY DEF Started
<1>2. /\ at' = 0 /\ ready' = {} /\ SelectStillHolds' /\ wait' = wait
      /\ wait' \in [Fds -> Nat] /\ user' \in [Fds -> 0 .. QMax["link"] - 1]
  BY <1>1, StartUpFrame
<1>3. TypeOK'
  BY <1>1, <1>2 DEF IInv, TypeOK, Listed
<1>4. /\ BindOK' /\ StagesOK' /\ FdsDiffer' /\ QueuesOK'
      /\ requests' \in Seq(RequestSet) /\ pending' \in Seq(ToOpenRecords)
  BY <1>1, <1>2 DEF IInv, BindOK, StagesOK, FdsDiffer, QueuesOK, Listed
<1>5. LinksOK'
  BY <1>1 DEF IInv, LinksOK, LinksOf, Apart, Filter, JoinFilter, Uses
<1> QED
  BY <1>2, <1>3, <1>4, <1>5 DEF IInv

----------------------------------------------------------------------------
(* The steps of the loop that leave the registry and the list alone.       *)
LEMMA StartedFrame ==
  ASSUME IInv, UNCHANGED <<requests, known, bind, pending>>,
         status \notin {"configuring", "starting"},
         status' \notin {"configuring", "starting", "undefined"}
  PROVE  /\ requests' \in Seq(RequestSet) /\ pending' \in Seq(ToOpenRecords)
         /\ BindOK' /\ StagesOK'
BY DEF IInv, BindOK, StagesOK

LEMMA ListKept ==
  ASSUME IInv, UNCHANGED <<known, bind, pending, listeners>>
  PROVE  LinksOK' /\ FdsDiffer' /\ Listed' = Listed
<1>1. LinksOf(pending') /\ LinksOf(listeners') /\ Apart(pending', listeners')
  BY DEF IInv, LinksOK
<1> QED
  BY <1>1, LinksSame DEF IInv, FdsDiffer, Listed

LEMMA QueuesKept ==
  ASSUME IInv, UNCHANGED listeners, wait' \in [Fds -> Nat],
         \A fd \in Fds : wait'[fd] <= wait[fd]
  PROVE  QueuesOK'
<1>1. /\ \A fd \in Fds : wait[fd] \in Nat /\ wait'[fd] \in Nat
      /\ \A fd \in Fds \ Listed : wait[fd] = 0
      /\ \A m \in Range(listeners) :
            /\ m.fd \in Fds /\ QMax[m.type] \in Nat
            /\ wait[m.fd] <= QMax[m.type]
  BY ListedIs, EventLoopAssumption DEF IInv, TypeOK, QueuesOK, Types, Range
<1>2. \A m \in Range(listeners) : wait'[m.fd] <= QMax[m.type]
  BY <1>1
<1>3. \A fd \in Fds \ Listed : wait'[fd] = 0
  BY <1>1
<1> QED
  BY <1>2, <1>3 DEF QueuesOK, Listed

LEMMA ArriveInv ==
  ASSUME IInv, Arrive
  PROVE  IInv'
<1>1. UNCHANGED <<requests, known, bind, pending, listeners, used, status, user, ready, at>>
      /\ status = "running"
  BY DEF Arrive, serviceVars
<1>2. PICK l \in Range(listeners) :
         wait[l.fd] < QMax[l.type] /\ wait' = [wait EXCEPT ![l.fd] = @ + 1]
  BY DEF Arrive
<1>3. /\ \A m \in Range(listeners) :
            m.fd \in Listed /\ m.fd \in Fds /\ QMax[m.type] \in Nat /\ wait[m.fd] <= QMax[m.type]
      /\ wait \in [Fds -> Nat] /\ \A fd \in Fds \ Listed : wait[fd] = 0
  BY ListedIs, EventLoopAssumption DEF IInv, TypeOK, QueuesOK, Types, Range, Listed
<1>4. wait' \in [Fds -> Nat] /\ \A fd \in Fds : wait'[fd] >= wait[fd]
  BY <1>2, <1>3
<1>5. LinksOK' /\ FdsDiffer' /\ Listed' = Listed
  BY <1>1, ListKept
<1>6. /\ requests' \in Seq(RequestSet) /\ pending' \in Seq(ToOpenRecords)
      /\ BindOK' /\ StagesOK'
  BY <1>1, StartedFrame
<1>7. QueuesOK'
  <2>1. \A m \in Range(listeners) : m.fd = l.fd => m = l
    BY DEF IInv, FdsDiffer, Range
  <2>2. \A m \in Range(listeners) : wait'[m.fd] <= QMax[m.type]
    BY <1>2, <1>3, <2>1
  <2>3. \A fd \in Fds \ Listed : wait'[fd] = 0
    BY <1>2, <1>3
  <2> QED
    BY <1>1, <1>5, <2>2, <2>3 DEF QueuesOK
<1>8. TypeOK'
  BY <1>1, <1>4, <1>5 DEF IInv, TypeOK
<1>9. SelectStillHolds'
  <2>1. SUFFICES ASSUME at > 0, NEW i \in at .. Len(listeners),
                        listeners[i].fd \in ready, listeners[i].type # "rpc"
                 PROVE  user[listeners[i].fd] > 0 \/ wait'[listeners[i].fd] > 0
    BY <1>1 DEF SelectStillHolds, HasFrame
  <2>2. user[listeners[i].fd] > 0 \/ wait[listeners[i].fd] > 0
    BY <2>1 DEF IInv, SelectStillHolds, HasFrame
  <2>3. listeners[i].fd \in Fds
    BY <2>1, ListedIs DEF IInv, TypeOK
  <2> QED
    BY <1>3, <1>4, <2>2, <2>3
<1> QED
  BY <1>1, <1>5, <1>6, <1>7, <1>8, <1>9 DEF IInv

LEMMA SelectInv ==
  ASSUME IInv, Select
  PROVE  IInv'
<1>1. /\ UNCHANGED <<requests, known, bind, pending, listeners, used, wait, user>>
      /\ status = "running" /\ at = 0
      /\ \/ status' = "overrun" /\ UNCHANGED <<ready, at>>
         \/ status' = status /\ ready' = Readable /\ at' = 1
  BY DEF Select
<1>2. LinksOK' /\ FdsDiffer' /\ Listed' = Listed
  BY <1>1, ListKept
<1>3. /\ requests' \in Seq(RequestSet) /\ pending' \in Seq(ToOpenRecords)
      /\ BindOK' /\ StagesOK'
  BY <1>1, StartedFrame
<1>4. QueuesOK'
  BY <1>1, <1>2 DEF IInv, QueuesOK
<1>5. ready' \subseteq used' /\ TypeOK'
  BY <1>1, <1>2, ListedIs DEF IInv, TypeOK, Readable
<1>6. SelectStillHolds'
  BY <1>1 DEF SelectStillHolds, HasFrame, Readable
<1> QED
  BY <1>1, <1>2, <1>3, <1>4, <1>5, <1>6 DEF IInv

LEMMA PassOverInv ==
  ASSUME IInv, PassOver
  PROVE  IInv'
<1>1. /\ UNCHANGED <<requests, known, bind, pending, listeners, used, status, wait, user, ready>>
      /\ status = "running" /\ at' = at + 1 /\ at \in 1 .. Len(listeners)
  BY ListedIs DEF PassOver, Walking, serviceVars, IInv
<1>2. LinksOK' /\ FdsDiffer' /\ Listed' = Listed
  BY <1>1, ListKept
<1>3. /\ requests' \in Seq(RequestSet) /\ pending' \in Seq(ToOpenRecords)
      /\ BindOK' /\ StagesOK'
  BY <1>1, StartedFrame
<1>4. QueuesOK' /\ ready' \subseteq used' /\ TypeOK'
  BY <1>1, <1>2, ListedIs DEF IInv, QueuesOK, TypeOK
<1>5. SelectStillHolds'
  BY <1>1, ListedIs DEF IInv, SelectStillHolds, HasFrame
<1> QED
  BY <1>1, <1>2, <1>3, <1>4, <1>5 DEF IInv

LEMMA EndOfWalkInv ==
  ASSUME IInv, EndOfWalk
  PROVE  IInv'
<1>1. /\ UNCHANGED <<requests, known, bind, pending, listeners, used, status, wait, user>>
      /\ status = "running" /\ at' = 0 /\ ready' = {}
  BY DEF EndOfWalk, serviceVars
<1>2. LinksOK' /\ FdsDiffer' /\ Listed' = Listed
  BY <1>1, ListKept
<1>3. /\ requests' \in Seq(RequestSet) /\ pending' \in Seq(ToOpenRecords)
      /\ BindOK' /\ StagesOK'
  BY <1>1, StartedFrame
<1>4. QueuesOK' /\ ready' \subseteq used' /\ TypeOK' /\ SelectStillHolds'
  BY <1>1, <1>2, ListedIs DEF IInv, QueuesOK, TypeOK, SelectStillHolds
<1> QED
  BY <1>1, <1>2, <1>3, <1>4 DEF IInv

----------------------------------------------------------------------------
(* The handlers.  What a step does to other descriptors than those it      *)
(* reads changes nothing for the rest of the walk.                         *)
LEMMA ReceivesIs ==
  ASSUME IInv, NEW type, Receives(type)
  PROVE  /\ status = "running" /\ at' = at + 1 /\ at \in 1 .. Len(listeners)
         /\ Turn = listeners[at] /\ Turn.fd \in Fds /\ Turn.type = type
         /\ Turn \in Range(listeners)
BY ListedIs DEF Receives, Walking, Turn, FollowingListener, IInv

LEMMA TakeShortens ==
  ASSUME TypeOK, NEW fds, Take(fds)
  PROVE  /\ wait' \in [Fds -> Nat] /\ UNCHANGED <<user, ready>>
         /\ \A fd \in Fds : wait'[fd] <= wait[fd] /\ (fd \notin fds => wait'[fd] = wait[fd])
BY DEF Take, TypeOK

LEMMA RestOfWalk ==
  ASSUME IInv, at \in 1 .. Len(listeners), at' = at + 1, ready' = ready,
         NEW fds,
         \A i \in at + 1 .. Len(listeners) : listeners[i].type # "rpc" => listeners[i].fd \notin fds,
         \A fd \in Fds \ fds : wait'[fd] = wait[fd] /\ user'[fd] = user[fd],
         \/ listeners' = listeners
         \/ \E l \in ListenerRecords : l.fd \notin used /\ Grown(l)
  PROVE  SelectStillHolds'
<1>1. SUFFICES ASSUME NEW i \in at + 1 .. Len(listeners'),
                      listeners'[i].fd \in ready, listeners'[i].type # "rpc"
               PROVE  user'[listeners'[i].fd] > 0 \/ wait'[listeners'[i].fd] > 0
  BY DEF SelectStillHolds, HasFrame
<1>2. i \in 1 .. Len(listeners) /\ listeners'[i] = listeners[i]
  <2>1. CASE listeners' = listeners
    BY <1>1, <2>1, ListedIs DEF IInv
  <2>2. CASE \E l \in ListenerRecords : l.fd \notin used /\ Grown(l)
    <3>1. PICK l \in ListenerRecords : l.fd \notin used /\ Grown(l)
      BY <2>2
    <3>2. /\ Len(listeners') \in {Len(listeners), Len(listeners) + 1} /\ Len(listeners) \in Nat
          /\ \A k \in 1 .. Len(listeners) : listeners'[k] = listeners[k]
          /\ \A k \in 1 .. Len(listeners') : k \notin 1 .. Len(listeners) => listeners'[k] = l
      BY <3>1, GrownList, ListedIs DEF IInv
    <3>3. i \in 1 .. Len(listeners') /\ l.fd \notin ready
      BY <1>1, <3>1, <3>2 DEF IInv
    <3> QED
      BY <1>1, <3>2, <3>3
  <2> QED
    BY <2>1, <2>2
<1>3. listeners[i].fd \in Fds /\ listeners[i].fd \notin fds
  BY <1>1, <1>2, ListedIs DEF IInv
<1>4. user[listeners[i].fd] > 0 \/ wait[listeners[i].fd] > 0
  BY <1>1, <1>2 DEF IInv, SelectStillHolds, HasFrame
<1> QED
  BY <1>2, <1>3, <1>4

(* The descriptor of a new data listener was not open.                     *)
DataListener(fd) == [type |-> "udp", on |-> "data", services |-> <<"tftp">>, fd |-> fd]

LEMMA LowestIs ==
  ASSUME NEW free, NEW fds \in Lowest(free)
  PROVE  fds \subseteq free
BY DEF Lowest

LEMMA ReadRequestGrows ==
  ASSUME IInv, ReadRequest
  PROVE  /\ UNCHANGED <<requests, known, bind, pending>>
         /\ used \subseteq used' /\ used' \subseteq Fds /\ status' \in {status, "killed"}
         /\ \/ listeners' = listeners
            \/ \E fd \in Fds \ used : fd \in used' /\ Grown(DataListener(fd))
<1>0. PICK new \in Lowest(Fds \ used) : \E file \in Lowest(Fds \ (used \cup new)) :
         /\ \/ new = {} /\ UNCHANGED <<listeners, status>>
            \/ \E fd \in new : listener_add(DataListener(fd))
         /\ used' = used \cup new \cup file
         /\ UNCHANGED <<requests, known, bind, pending>>
  BY DEF ReadRequest, DataListener
<1>1. PICK file \in Lowest(Fds \ (used \cup new)) :
         /\ \/ new = {} /\ UNCHANGED <<listeners, status>>
            \/ \E fd \in new : listener_add(DataListener(fd))
         /\ used' = used \cup new \cup file
         /\ UNCHANGED <<requests, known, bind, pending>>
  BY <1>0
<1>2. new \subseteq Fds \ used /\ file \subseteq Fds /\ used \subseteq Fds
  BY LowestIs DEF IInv, TypeOK
<1>3. CASE new = {} /\ UNCHANGED <<listeners, status>>
  BY <1>1, <1>2, <1>3
<1>4. CASE \E fd \in new : listener_add(DataListener(fd))
  <2>1. PICK fd \in new : listener_add(DataListener(fd))
    BY <1>4
  <2>2. Grown(DataListener(fd)) /\ status' \in {status, "killed"}
    BY <2>1, AddGrows
  <2> QED
    BY <1>1, <1>2, <2>2
<1> QED
  BY <1>1, <1>3, <1>4

LEMMA DataListenerType ==
  ASSUME NEW fd \in Fds
  PROVE  /\ DataListener(fd) \in ListenerRecords /\ DataListener(fd).fd = fd
         /\ ~IsLink(DataListener(fd))
<1>1. "tftp" \in Range(Registry)
  BY DEF Registry, Range
<1> QED
  BY <1>1 DEF DataListener, ListenerRecords, IsLink

LEMMA udp_receiveInv ==
  ASSUME IInv, udp_receive
  PROVE  IInv'
<1>1. /\ status = "running" /\ at' = at + 1 /\ at \in 1 .. Len(listeners) /\ Turn.fd \in Fds
      /\ Turn = listeners[at] /\ Len(listeners) \in Nat
  BY ReceivesIs, ListedIs DEF udp_receive, IInv
<1>2. /\ wait' \in [Fds -> Nat] /\ UNCHANGED <<user, ready>>
      /\ \A fd \in Fds : wait'[fd] <= wait[fd] /\ (fd # Turn.fd => wait'[fd] = wait[fd])
  BY TakeShortens DEF udp_receive, IInv
<1>3. /\ UNCHANGED <<requests, known, bind, pending>>
      /\ used \subseteq used' /\ used' \subseteq Fds /\ status' \in {status, "killed"}
      /\ \/ listeners' = listeners
         \/ \E fd \in Fds \ used : fd \in used' /\ Grown(DataListener(fd))
  BY ReadRequestGrows DEF udp_receive, serviceVars, IInv, TypeOK
<1>4. /\ requests' \in Seq(RequestSet) /\ pending' \in Seq(ToOpenRecords)
      /\ BindOK' /\ StagesOK'
  BY <1>1, <1>3, StartedFrame
<1>5. /\ listeners' \in Seq(ListenerRecords) /\ Len(listeners') \in Nat
      /\ Len(listeners) <= Len(listeners')
      /\ Listed' \subseteq used' /\ FdsDiffer' /\ LinksOK' /\ QueuesOK'
  <2>1. CASE listeners' = listeners
    <3>1. FdsDiffer' /\ LinksOK' /\ Listed' = Listed
      <4>1. LinksOf(pending') /\ LinksOf(listeners') /\ Apart(pending', listeners')
        BY <1>3, <2>1 DEF IInv, LinksOK
      <4> QED
        BY <1>3, <2>1, <4>1, LinksSame DEF IInv, FdsDiffer, Listed
    <3>2. QueuesOK'
      BY <1>2, <2>1, QueuesKept
    <3> QED
      BY <1>1, <1>3, <2>1, <3>1, <3>2 DEF IInv, TypeOK
  <2>2. CASE \E fd \in Fds \ used : fd \in used' /\ Grown(DataListener(fd))
    <3>1. PICK fd \in Fds \ used : fd \in used' /\ Grown(DataListener(fd))
      BY <2>2
    <3> DEFINE l == DataListener(fd)
    <3>2. l \in ListenerRecords /\ l.fd = fd /\ ~IsLink(l)
      BY <3>1, DataListenerType
    <3> HIDE DEF l
    <3>3. /\ listeners' \in Seq(ListenerRecords)
          /\ Len(listeners') \in {Len(listeners), Len(listeners) + 1}
          /\ DOMAIN listeners' = 1 .. Len(listeners') /\ DOMAIN listeners = 1 .. Len(listeners)
          /\ \A i \in 1 .. Len(listeners) : listeners'[i] = listeners[i]
          /\ \A i \in 1 .. Len(listeners') : i \notin 1 .. Len(listeners) => listeners'[i] = l
          /\ Listed' \subseteq Listed \cup {l.fd} /\ FdsDiffer'
      BY <3>1, <3>2, GrownList, ListedIs DEF l, IInv
    <3>4. QueuesOK'
      BY <1>2, <3>1, <3>2, GrownQueues DEF l, IInv
    <3>5. \A i \in DOMAIN listeners' :
             IsLink(listeners'[i]) => i \in DOMAIN listeners /\ listeners'[i] = listeners[i]
      BY <3>2, <3>3
    <3>6. LinksOf(listeners') /\ Apart(pending, listeners') /\ LinksOf(pending)
      BY <3>5 DEF IInv, LinksOK, LinksOf, Apart
    <3>7. LinksOK'
      BY <1>3, <3>6, LinksSame
    <3>8. Listed' \subseteq used'
      BY <1>3, <3>1, <3>2, <3>3 DEF IInv, TypeOK
    <3>9. Len(listeners') \in Nat /\ Len(listeners) <= Len(listeners')
      <4>1. /\ Len(listeners) \in Nat
            /\ Len(listeners') = Len(listeners) \/ Len(listeners') = Len(listeners) + 1
        BY <1>1, <3>3
      <4> QED
        BY <4>1
    <3> QED
      BY <3>3, <3>4, <3>7, <3>8, <3>9
  <2> QED
    BY <1>3, <2>1, <2>2
<1>6. TypeOK' /\ ready' \subseteq used'
  BY <1>1, <1>2, <1>3, <1>5 DEF IInv, TypeOK
<1>7. SelectStillHolds'
  <2>1. \A i \in at + 1 .. Len(listeners) : listeners[i].fd \notin {Turn.fd}
    BY <1>1, ListedIs DEF IInv, FdsDiffer
  <2>2. \/ listeners' = listeners
        \/ \E l \in ListenerRecords : l.fd \notin used /\ Grown(l)
    BY <1>3, DataListenerType
  <2> QED
    BY <1>1, <1>2, <2>1, <2>2, RestOfWalk
<1> QED
  BY <1>4, <1>5, <1>6, <1>7 DEF IInv

LEMMA rpc_udp_receiveInv ==
  ASSUME IInv, rpc_udp_receive
  PROVE  IInv'
<1> DEFINE fds == {l.fd : l \in {n \in Range(listeners) : n.type = "rpc"}}
<1>1. /\ status = "running" /\ at' = at + 1 /\ at \in 1 .. Len(listeners)
      /\ Len(listeners) \in Nat
      /\ UNCHANGED <<requests, known, bind, pending, listeners, used, status>>
  BY ReceivesIs, ListedIs DEF rpc_udp_receive, serviceVars, IInv
<1>2. /\ wait' \in [Fds -> Nat] /\ UNCHANGED <<user, ready>>
      /\ \A fd \in Fds : wait'[fd] <= wait[fd] /\ (fd \notin fds => wait'[fd] = wait[fd])
  BY TakeShortens DEF rpc_udp_receive, IInv
<1>3. \A i \in DOMAIN listeners : listeners[i].type # "rpc" => listeners[i].fd \notin fds
  BY DEF IInv, FdsDiffer, Range
<1> HIDE DEF fds
<1>4. LinksOK' /\ FdsDiffer' /\ Listed' = Listed
  BY <1>1, ListKept
<1>5. /\ requests' \in Seq(RequestSet) /\ pending' \in Seq(ToOpenRecords)
      /\ BindOK' /\ StagesOK'
  BY <1>1, StartedFrame
<1>6. QueuesOK' /\ ready' \subseteq used' /\ TypeOK'
  BY <1>1, <1>2, <1>4, QueuesKept DEF IInv, TypeOK
<1>7. SelectStillHolds'
  <2>1. \A i \in at + 1 .. Len(listeners) :
           listeners[i].type # "rpc" => listeners[i].fd \notin fds
    BY <1>1, <1>3, ListedIs DEF IInv
  <2> QED
    BY <1>1, <1>2, <2>1, RestOfWalk
<1> QED
  BY <1>4, <1>5, <1>6, <1>7 DEF IInv

LEMMA link_receiveInv ==
  ASSUME IInv, link_receive
  PROVE  IInv'
<1> DEFINE fd == Turn.fd
<1>1. /\ status = "running" /\ at' = at + 1 /\ at \in 1 .. Len(listeners)
      /\ Len(listeners) \in Nat /\ fd \in Fds /\ Turn = listeners[at]
      /\ Turn.type = "link" /\ Turn \in Range(listeners)
      /\ UNCHANGED <<requests, known, bind, pending, listeners, status, ready>>
      /\ used \subseteq used' /\ used' \subseteq Fds
  <2>1. used \subseteq Fds
    BY DEF IInv, TypeOK
  <2>2. used \subseteq used' /\ used' \subseteq Fds
    BY <2>1, LowestIs DEF link_receive, BootRequest
  <2> QED
    BY <2>2, ReceivesIs, ListedIs DEF link_receive, IInv
<1>2. /\ user[fd] > 0 \/ wait[fd] > 0
      /\ user' = [user EXCEPT ![fd] = IF @ > 0 THEN @ - 1 ELSE wait[fd] - 1]
      /\ wait' = [wait EXCEPT ![fd] = IF user[fd] > 0 THEN @ ELSE 0]
  BY DEF link_receive, HasFrame
<1>3. wait[fd] <= QMax["link"] /\ QMax["link"] \in Nat \ {0}
  BY <1>1, EventLoopAssumption DEF IInv, QueuesOK
<1>4. wait \in [Fds -> Nat] /\ user \in [Fds -> 0 .. QMax["link"] - 1]
  BY DEF IInv, TypeOK
<1>5. user' \in [Fds -> 0 .. QMax["link"] - 1]
  <2>1. user[fd] \in 0 .. QMax["link"] - 1 /\ wait[fd] \in Nat
    BY <1>1, <1>4
  <2>2. (IF user[fd] > 0 THEN user[fd] - 1 ELSE wait[fd] - 1) \in 0 .. QMax["link"] - 1
    BY <1>2, <1>3, <2>1
  <2> QED
    BY <1>1, <1>2, <1>4, <2>2
<1>6. /\ wait' \in [Fds -> Nat] /\ \A n \in Fds : wait'[n] <= wait[n]
      /\ \A n \in Fds \ {fd} : wait'[n] = wait[n] /\ user'[n] = user[n]
  BY <1>1, <1>2, <1>4
<1> HIDE DEF fd
<1>7. LinksOK' /\ FdsDiffer' /\ Listed' = Listed
  BY <1>1, ListKept
<1>8. /\ requests' \in Seq(RequestSet) /\ pending' \in Seq(ToOpenRecords)
      /\ BindOK' /\ StagesOK'
  BY <1>1, StartedFrame
<1>9. QueuesOK' /\ ready' \subseteq used' /\ TypeOK'
  BY <1>1, <1>5, <1>6, <1>7, QueuesKept DEF IInv, TypeOK
<1>10. SelectStillHolds'
  <2>1. \A i \in at + 1 .. Len(listeners) : listeners[i].fd \notin {fd}
    BY <1>1, ListedIs DEF IInv, FdsDiffer, fd
  <2> QED
    BY <1>1, <1>6, <2>1, RestOfWalk
<1> QED
  BY <1>7, <1>8, <1>9, <1>10 DEF IInv

----------------------------------------------------------------------------
LEMMA StutterInv == IInv /\ UNCHANGED vars => IInv'
<1> SUFFICES ASSUME IInv, UNCHANGED vars PROVE IInv'
  OBVIOUS
<1>1. UNCHANGED <<requests, known, bind, pending, listeners, used, status, wait, user, ready, at>>
  BY DEF vars, serviceVars, loopVars
<1>2. LinksOK' /\ FdsDiffer' /\ Listed' = Listed
  BY <1>1, ListKept
<1>3. QueuesOK' /\ TypeOK' /\ SelectStillHolds'
  BY <1>1, <1>2 DEF IInv, QueuesOK, TypeOK, SelectStillHolds, HasFrame
<1>4. BindOK' /\ StagesOK'
  BY <1>1 DEF IInv, BindOK, StagesOK
<1> QED
  BY <1>1, <1>2, <1>3, <1>4 DEF IInv

LEMMA StepInv == IInv /\ [Next]_vars => IInv'
<1> SUFFICES ASSUME IInv, Next PROVE IInv'
  BY StutterInv
<1>1. CASE StartUp
  BY <1>1, ConfigureInv, ServiceStartInv, OpenListenerInv, StartedInv DEF StartUp
<1>2. CASE Arrive
  BY <1>2, ArriveInv
<1>3. CASE LoopStep
  BY <1>3, SelectInv, PassOverInv, EndOfWalkInv, udp_receiveInv, rpc_udp_receiveInv,
     link_receiveInv DEF LoopStep
<1> QED
  BY <1>1, <1>2, <1>3 DEF Next

(* The invariant holds whenever main is in its start-up or in its loop.    *)
THEOREM IInvAlways == Spec => []IInv
<1>1. Init => IInv
  BY InitInv
<1>2. IInv /\ [Next]_vars => IInv'
  BY StepInv
<1> QED
  BY <1>1, <1>2, PTL DEF Spec

(* The walk stays within the list, every listed descriptor is open and     *)
(* pcap never holds more frames than the kernel queued (listener_select,   *)
(* i_listener_link_receive).                                               *)
THEOREM LoopTypeCorrect == Spec => []TypeOK
<1>1. IInv => TypeOK
  BY DEF IInv
<1> QED
  BY <1>1, IInvAlways, PTL

(* Whatever the order of the requests, a device has one link listener, for *)
(* every link service that has the device (service_start).                 *)
THEOREM OneListenerForAllAlways == Spec => []OneListenerForAll
<1>1. IInv => OneListenerForAll
  <2> SUFFICES ASSUME IInv, NEW d \in Range(known) PROVE
           /\ Cardinality(Links(d)) <= 1
           /\ \A i \in Links(d), s \in LISTEN_LINK :
                 d \in Range(bind[s]) => s \in Range(listeners[i].services)
    BY DEF OneListenerForAll
  <2>1. \A i, j \in Links(d) : i = j
    BY DEF IInv, LinksOK, LinksOf, Links, IsLink
  <2>2. Cardinality(Links(d)) <= 1
    <3>1. CASE Links(d) = {}
      BY <3>1, FS_EmptySet
    <3>2. CASE Links(d) # {}
      <4>1. PICK i \in Links(d) : TRUE
        BY <3>2
      <4>2. Links(d) = {i}
        BY <2>1, <4>1
      <4> QED
        <5>1. Cardinality({i}) = 1
          BY FS_Singleton
        <5> QED
          BY <4>2, <5>1
    <3> QED
      BY <3>1, <3>2
  <2>3. \A i \in Links(d) : listeners[i].services = Filter(d)
    BY DEF IInv, LinksOK, LinksOf, Links, IsLink
  <2>4. \A s \in LISTEN_LINK : d \in Range(bind[s]) => s \in Range(Filter(d))
    BY FilterHas DEF IInv
  <2> QED
    BY <2>2, <2>3, <2>4
<1> QED
  BY <1>1, IInvAlways, PTL

(* A handler that appends to the list being walked, or takes a packet,     *)
(* does not falsify what select said of the listeners still to come, so    *)
(* pcap_loop always finds a frame (listener_select).                       *)
THEOREM SelectStillHoldsAlways == Spec => []SelectStillHolds
<1>1. IInv => SelectStillHolds
  BY DEF IInv
<1> QED
  BY <1>1, IInvAlways, PTL
=============================================================================

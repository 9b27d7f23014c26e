------------------------------ MODULE Services ------------------------------
(***************************************************************************)
(* The service registry of bootd and its start-up (service.c, device.c,    *)
(* the listener_new functions of listener.c): what the configuration asks  *)
(* the services to listen on is kept in arrays of fixed size, one link     *)
(* filter is joined for each device, and the listeners are opened.         *)
(*                                                                         *)
(* A request is [service, host, port]; a link service's host is a device.  *)
(* A port that is not written is NoPort.  The text of a filter is the      *)
(* sequence of services joined; that of MOP is malformed.  An array holds  *)
(* its elements from the start; what follows a full one is the next member *)
(* of the union, not the zero that ends a walk.                            *)
(*                                                                         *)
(* FoundAgain and JoinForgets are faulty variants, used only to confirm    *)
(* that the properties can fail.                                           *)
(***************************************************************************)
EXTENDS Integers, Sequences, FiniteSets, SequencesExt

CONSTANTS
    Requests,       \* the sequences of requests a configuration may make
    Devices,        \* the devices device_init finds, in order
    DeviceIps,      \* their addresses
    IpWords,        \* hosts written as addresses
    NameIp,         \* the addresses of the host names that are known
    PortNames,      \* the ports of the service names getservbyname knows
    BindMax,        \* SERVICE_BIND_MAX
    MaxFd,          \* the largest descriptor the process may open
    NullStore       \* what a build may do at the store through a null l->name

Registry == <<"rarp", "dhcp", "mop", "rmp", "tftp", "bootparam">>

ASSUME ServicesAssumption ==
    /\ Requests \subseteq Seq([service : Range(Registry), host : STRING, port : STRING])
    /\ Devices \in Seq(STRING) /\ IsInjective(Devices)
    /\ DeviceIps \in [Range(Devices) -> Seq(IpWords)]
    /\ BindMax \in Nat \ {0} /\ MaxFd \in Nat
    /\ NullStore \subseteq {"survived", "killed"}

VARIABLES
    requests,     \* requests of the configuration still to be made
    known,        \* l_devices
    bind,         \* what each service is to listen on: device[], bindaddr[]
    pending,      \* listeners service_start has still to open
    listeners,    \* g_listeners
    used,         \* the open descriptors
    status        \* "configuring", "starting", "running", "exited", "killed",
                  \* "undefined"

serviceVars == <<requests, known, bind, pending, listeners, used, status>>

LISTEN_LINK == {"rarp", "mop", "rmp"}
LISTEN_UDP == {"dhcp", "tftp"}
LISTEN_RPC_UDP == {"bootparam"}
DefPort == [s \in LISTEN_UDP |-> IF s = "dhcp" THEN 67 ELSE 69]

AnyIp == "0.0.0.0"
NoPort == "none"

ServicesInit ==
    /\ requests \in Requests
    /\ known = <<>>
    /\ bind = [s \in Range(Registry) |-> <<>>]
    /\ pending = <<>> /\ listeners = <<>> /\ used = {}
    /\ status = "configuring"

----------------------------------------------------------------------------
(* The first n places of an array, in which elements may stand twice.      *)
FirstPlaces(array, n) == SubSeq(array, 1, IF Len(array) < n THEN Len(array) ELSE n)

(* l_service_link_device_add, l_service_udp_ip_add, for several elements:  *)
(* they are taken as long as there are empty places.                       *)
AddTo(s, new) == [bind EXCEPT ![s] = FirstPlaces(@ \o new, BindMax)]

FoundAgain == known \o Devices

(* device_search_by_name(name): the devices are looked for if none is      *)
(* known yet; with a null name the list is returned as it is.              *)
Found == IF known = <<>> THEN Devices ELSE known

(* service_link_add: "all" means the devices known so far.  What is not    *)
(* the name of a device is refused, an ethernet address too.               *)
service_link_add(r) ==
    IF r.host \in {"*", "all"}
    THEN bind' = AddTo(r.service, known) /\ UNCHANGED <<known, status>>
    ELSE /\ known' = Found
         /\ bind' = IF r.host \in Range(Found) THEN AddTo(r.service, <<r.host>>) ELSE bind
         /\ UNCHANGED status

(* str_get_hostport and the port: "*" means any host only before a colon,  *)
(* and an address in front of a port is refused.  0 is no port.            *)
AnyHost(r) == r.host = "*" /\ r.port # NoPort
HostPortRefused(r) == r.host \in IpWords /\ r.port # NoPort
PortKnown(r) == r.port \in {NoPort, "*"} \cup DOMAIN PortNames
PortNumber(r) == IF r.port \in DOMAIN PortNames THEN PortNames[r.port] ELSE 0

Addresses(r, ips) == [i \in DOMAIN ips |-> [ip |-> ips[i], port |-> PortNumber(r)]]

(* service_udp_add: any host, an address, a device with all its addresses, *)
(* or a name, which ends the daemon if it is not known.                    *)
service_udp_add(r) ==
    IF HostPortRefused(r) \/ ~PortKnown(r) THEN UNCHANGED <<known, bind, status>>
    ELSE IF AnyHost(r) \/ r.host \in IpWords
    THEN /\ bind' = AddTo(r.service, Addresses(r, <<IF AnyHost(r) THEN AnyIp ELSE r.host>>))
         /\ UNCHANGED <<known, status>>
    ELSE /\ known' = Found
         /\ IF r.host \in Range(Found)
            THEN bind' = AddTo(r.service, Addresses(r, DeviceIps[r.host])) /\ UNCHANGED status
            ELSE IF r.host \in DOMAIN NameIp
            THEN bind' = AddTo(r.service, Addresses(r, <<NameIp[r.host]>>)) /\ UNCHANGED status
            ELSE status' = "exited" /\ UNCHANGED bind

(* One "device" or "bind" value of a service statement.                    *)
Configure ==
    /\ status = "configuring" /\ requests # <<>>
    /\ requests' = Tail(requests)
    /\ LET r == Head(requests)
       IN  IF r.service \in LISTEN_LINK THEN service_link_add(r) ELSE service_udp_add(r)
    /\ UNCHANGED <<pending, listeners, used>>

----------------------------------------------------------------------------
Uses(s, d) == Cardinality({i \in DOMAIN bind[s] : bind[s][i] = d})

JoinForgets(filter, s, d) == IF Uses(s, d) = 0 THEN filter ELSE <<s>>

(* " or " and the service's own filter, behind what the device has, each   *)
(* time the device stands in the service's array.                          *)
JoinFilter(filter, s, d) == filter \o [i \in 1 .. Uses(s, d) |-> s]

(* The link services in the order of the registry.                         *)
Filter(d) == JoinFilter(JoinFilter(JoinFilter(<<>>, "rarp", d), "mop", d), "rmp", d)

(* What there is to open: the addresses of each service, with its port if  *)
(* none was given, then the devices, of which those without a filter are   *)
(* passed over.                                                            *)
ToOpen(s) ==
    [i \in DOMAIN bind[s] |->
       [type |-> IF s \in LISTEN_UDP THEN "udp" ELSE "rpc", on |-> bind[s][i].ip,
        port |-> IF bind[s][i].port = 0 /\ s \in LISTEN_UDP THEN DefPort[s]
                 ELSE bind[s][i].port,
        services |-> <<s>>]]

LinksToOpen ==
    [i \in DOMAIN known |->
       [type |-> "link", on |-> known[i], port |-> 0, services |-> Filter(known[i])]]

(* service_start walks each array to an element that is zero.  Behind a    *)
(* full device[] stands the filter, which is not the name of a device:     *)
(* the daemon exits.  Behind a full bindaddr[] the walk leaves the array   *)
(* and then the structure.                                                 *)
Full == {k \in DOMAIN Registry : Len(bind[Registry[k]]) >= BindMax}

ServiceStart ==
    /\ status = "configuring" /\ requests = <<>>
    /\ \/ /\ \E first \in Full :
                /\ \A k \in Full : first <= k
                /\ status' = IF Registry[first] \in LISTEN_LINK THEN "exited" ELSE "undefined"
          /\ UNCHANGED pending
       \/ /\ Full = {}
          /\ status' = "starting"
          /\ pending' = ToOpen("dhcp") \o ToOpen("tftp") \o ToOpen("bootparam") \o LinksToOpen
    /\ UNCHANGED <<requests, known, bind, listeners, used>>

----------------------------------------------------------------------------
Fds == 1 .. MaxFd
Unused(n) == {fd \in Fds \ used : Cardinality({g \in Fds \ used : g < fd}) < n}

(* A socket is one descriptor.  A link listener has two, libnet's and then *)
(* pcap's, which is the one waited on, and none of them if any stage of    *)
(* listener_new_link fails, as compiling the filter of MOP does.           *)
FdsOf(p) == IF p.type = "link" THEN 2 ELSE 1
MayOpen(p) ==
    /\ p.services # <<>> /\ "mop" \notin Range(p.services)
    /\ Cardinality(Unused(FdsOf(p))) = FdsOf(p)

AsListener(p, fd) == [type |-> p.type, on |-> p.on, services |-> p.services, fd |-> fd]

(* The end of listener_add: a listener whose descriptor is listed already  *)
(* is ignored.  Socket listeners have no name, and a build may keep or     *)
(* drop the store through the null pointer.                                *)
listener_add(l) ==
    \E outcome \in IF l.type = "link" THEN {"survived"} ELSE NullStore :
        IF outcome = "killed" THEN status' = "killed" /\ UNCHANGED listeners
        ELSE /\ listeners' = IF \E n \in Range(listeners) : n.fd = l.fd THEN listeners
                             ELSE Append(listeners, l)
             /\ UNCHANGED status

OpenListener ==
    /\ status = "starting" /\ pending # <<>>
    /\ pending' = Tail(pending)
    /\ \/ /\ MayOpen(Head(pending))
          /\ LET new == Unused(FdsOf(Head(pending)))
             IN  /\ used' = used \cup new
                 /\ \E last \in new :
                       /\ \A fd \in new : fd <= last
                       /\ listener_add(AsListener(Head(pending), last))
       \/ UNCHANGED <<listeners, used, status>>
    /\ UNCHANGED <<requests, known, bind>>

(* The server loop begins.                                                 *)
Started ==
    /\ status = "starting" /\ pending = <<>>
    /\ status' = "running"
    /\ UNCHANGED <<requests, known, bind, pending, listeners, used>>

----------------------------------------------------------------------------
(* "we start only one listener per interface for type link": it listens    *)
(* for every link service that has the device, in whatever order and       *)
(* however often services were given devices.                              *)
Links(d) == {i \in DOMAIN listeners : listeners[i].type = "link" /\ listeners[i].on = d}

OneListenerForAll ==
    \A d \in Range(known) :
        /\ Cardinality(Links(d)) <= 1
        /\ \A i \in Links(d), s \in LISTEN_LINK :
              d \in Range(bind[s]) => s \in Range(listeners[i].services)
=============================================================================

---------------------------- MODULE MCEventLoop ----------------------------
(* Instances of EventLoop for TLC.                                         *)
EXTENDS EventLoop

R(s, h, p) == [service |-> s, host |-> h, port |-> p]

(* Devices before and after they are known, addresses, names and ports     *)
(* that are refused or unknown, and arrays filled to the last place.       *)
RequestLists == {
    <<R("rmp", "all", NoPort), R("rarp", "d1", NoPort), R("rarp", "all", NoPort)>>,
    <<R("rmp", "d1", NoPort), R("rarp", "dx", NoPort), R("tftp", "a1", NoPort)>>,
    <<R("rarp", "d2", NoPort), R("rmp", "d2", NoPort), R("rmp", "d1", NoPort)>>,
    <<R("mop", "d1", NoPort), R("tftp", "a1", "tftp"), R("tftp", "d1", "bad")>>,
    <<R("dhcp", "*", "*"), R("tftp", "h1", "tftp")>>,
    <<R("bootparam", "*", "*"), R("rarp", "d1", NoPort)>>,
    <<R("tftp", "d1", NoPort), R("rmp", "d1", NoPort)>>,
    <<R("rarp", "d1", NoPort), R("rarp", "all", NoPort), R("rarp", "d2", NoPort)>>,
    <<R("tftp", "d1", NoPort), R("tftp", "d2", NoPort), R("tftp", "d2", NoPort)>>,
    <<R("tftp", "*", NoPort)>>, <<R("dhcp", "hx", NoPort)>> }

(* Two RPC listeners, for svc_getreqset.                                   *)
RpcLists == {<<R("bootparam", "*", "*"), R("bootparam", "a1", NoPort)>>}

TwoDevices == <<"d1", "d2">>
DeviceAddresses == [d \in {"d1", "d2"} |-> IF d = "d1" THEN <<"a1">> ELSE <<"a1", "a2">>]
AddressWords == {"a1", "a2", AnyIp}
HostsFile == [h \in {"h1"} |-> "a2"]
ServicesFile == [p \in {"tftp"} |-> 69]
Queues == [t \in {"link", "udp", "rpc"} |-> IF t = "link" THEN 2 ELSE 1]
AllRequests == RequestLists \cup RpcLists
=============================================================================

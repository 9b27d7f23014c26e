------------------------------- MODULE MCBootd -------------------------------
(* Instances of Bootd for TLC.                                             *)
EXTENDS Bootd, TLC

CONSTANTS a, u, tEther,           \* a configured station, one that is not, and
                                  \* the address configured for the machine type
          aName, uName, tName, f1, f2

AllNames == {aName, uName, tName}
AllEthers == {a, u, tEther}
PoweredOn == {a, u}
(* The host of the machine type is denied TFTP, and its clones with it.    *)
TftpSenders == {aName, tName}
TwoFiles == {f1, f2}
FilesSymmetry == Permutations(TwoFiles)
AllThree == {"rmp", "rarp", "tftp"}

Station == [name |-> aName, eth |-> a, services |-> AllThree]
Template == [name |-> tName, eth |-> tEther, services |-> {"rmp"}]
Orders == {<<Station, Template>>, <<Template, Station>>}

Machine == [e \in AllEthers |-> tName]
(* /etc/ethers may know u by a name of its own or as another card of a.    *)
Resolver == [e \in AllEthers |-> IF e = u THEN {uName, aName} ELSE {aName}]

(* The instance is one of those the sessions of hosts are unshared in.     *)
ASSUME InstanceAssumption == TemplatesStayOff
==============================================================================

------------------------------- MODULE MCTftp -------------------------------
(* Instances of Tftp for TLC.                                              *)
EXTENDS Tftp, TLC

CONSTANTS h1, h2, h3, p1, p2, f1, f2

(* Two clients with two ports and two files.                               *)
TwoHosts == {h1, h2}
TwoPorts == {p1, p2}
TwoFiles == {f1, f2}
TwoHostPeers == TwoHosts \X TwoPorts

(* Three clients with one port and one file.                               *)
ThreeHosts == {h1, h2, h3}
OnePort == {p1}
OneFile == {f1}
ThreeHostPeers == ThreeHosts \X OnePort
TwoHostOnePortPeers == TwoHosts \X OnePort

(* The clients, the ports and the files are interchangeable.               *)
TransferSymmetry == Permutations(TwoHosts) \cup Permutations(TwoPorts)
                    \cup Permutations(TwoFiles)
ResourceSymmetry == Permutations(ThreeHosts)
=============================================================================

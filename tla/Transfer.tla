------------------------------ MODULE Transfer ------------------------------
(***************************************************************************)
(* One TFTP client fetching one file from bootd, block by block: the read  *)
(* request and acknowledgement cases of tftp_handler (tftp.c) with the     *)
(* block numbers and offsets that module Tftp leaves out, against a        *)
(* network that loses, duplicates and reorders.  bootd keeps no timer and  *)
(* no block number: it answers an acknowledgement with the block behind    *)
(* it, whatever it sent before, and the client has to repeat itself.       *)
(*                                                                         *)
(* The client is external, as RFC 1350 describes it: it binds to the       *)
(* server port of the first block it gets, acknowledges the block it       *)
(* expects and repeats itself after a timeout; an error, or lost patience, *)
(* makes it begin again from another port.  It is a client that lets the   *)
(* block number wrap.                                                      *)
(*                                                                         *)
(* A file is "blocks" blocks, the last of them short.  Reading is of block *)
(* 1, 2, ... of the file, or of Stdin.  Listener 0 is the service port, 1, *)
(* 2, ... are the data listeners; Null is the null pointer.                *)
(*                                                                         *)
(* NumberUnwrapped, SkipsABlock, EndsEarly and BySessionsListener are      *)
(* faulty variants, used only to confirm that the properties can fail.     *)
(***************************************************************************)
EXTENDS Integers, Sequences, FiniteSets

CONSTANTS
    Sizes,          \* lengths of the file
    Wrap,           \* how many block numbers there are: 65536
    Attempts,       \* how many ports the client tries
    MaxListeners,   \* data listeners until descriptors run out
    MaxFaults,      \* messages lost or repeated, sessions timed out, calls that
                    \* failed, patience lost
    MaxReceived     \* what the client takes before it loses patience

ASSUME TransferAssumption ==
    /\ Sizes \subseteq Nat \ {0}
    /\ {Wrap, Attempts, MaxListeners, MaxReceived} \subseteq Nat \ {0}
    /\ MaxFaults \in Nat

VARIABLES
    blocks,      \* the length of the file
    session,     \* the client's session
    peer,        \* the client port of each data listener
    net,         \* the messages under way
    client,      \* its port, the server port it is bound to, how it fares
    received,    \* the blocks it took
    faults

vars == <<blocks, session, peer, net, client, received, faults>>

Null == -1
Unbound == 0
Stdin == 0
NoSession == [sid |-> 0, open |-> FALSE, l |-> Null]

RRQ(tid) == [op |-> "RRQ", tid |-> tid, at |-> 0, n |-> 0]
ACK(tid, l, n) == [op |-> "ACK", tid |-> tid, at |-> l, n |-> n]
ERROR(tid, l) == [op |-> "ERROR", tid |-> tid, at |-> l]

(* A data header of 4 - 1 bytes, cut off in the middle of its number.      *)
RUNT(tid, l) == [op |-> "RUNT", tid |-> tid, at |-> l]

Init ==
    /\ blocks \in Sizes
    /\ session = NoSession /\ peer = <<>> /\ faults = 0
    /\ client = [tid |-> 1, server |-> Unbound, is |-> "active"]
    /\ received = <<>>
    /\ net = {RRQ(1)}

Active == client.is = "active"

----------------------------------------------------------------------------
NumberUnwrapped(n) == n + 1

(* htons(ntohs(reqs->n) + 1), 16 bits.                                     *)
NumberAfter(n) == (n + 1) % Wrap

SkipsABlock(n) == n + 2

(* The block at offset n * 512.                                            *)
BlockAt(n) == n + 1

EndsEarly(b) == b >= blocks - 1

(* util_read returns fewer bytes than asked for: the last block, or none   *)
(* behind it.                                                              *)
IsShort(b) == b = Stdin \/ b >= blocks

DATA(tid, l, n, b) ==
    [op |-> "DATA", tid |-> tid, at |-> l, n |-> n, block |-> b, short |-> IsShort(b)]

(* What a read leads to: a block by way of listener dl; or, if it fails,   *)
(* an error by way of l and, for want of a return, what is left of the     *)
(* block.  Descriptor 0 is a terminal or the null device.                  *)
Replies(tid, l, dl, n, file) ==
    [fine |-> {DATA(tid, dl, NumberAfter(n), IF file THEN BlockAt(n) ELSE Stdin)},
     failed |-> {ERROR(tid, l), RUNT(tid, dl)}]

(* Message m is taken from the network, or a copy of it stays, and "out"   *)
(* is sent.                                                                *)
Taken(m, out) ==
    \/ net' = (net \ {m}) \cup out /\ UNCHANGED faults
    \/ faults < MaxFaults /\ net' = net \cup out /\ faults' = faults + 1

(* A call failed on the way.                                               *)
Failed(m, out) ==
    /\ faults < MaxFaults /\ faults' = faults + 1
    /\ net' = (net \ {m}) \cup out

Answered(m, replies) == Taken(m, replies.fine) \/ Failed(m, replies.failed)

(* TFTPOP_RRQ: the host's session is deleted and a data listener listed,   *)
(* if there is one to be had; then the session is created, unless the      *)
(* table is full, and the file opened, which may fail.                     *)
ReadRequest(m) ==
    /\ LET room == Len(peer) < MaxListeners
           nl == IF room THEN Len(peer) + 1 ELSE Null
           Session(open, l) == [sid |-> m.tid, open |-> open, l |-> l]
       IN  \/ /\ peer' = IF room THEN Append(peer, m.tid) ELSE peer
             /\ \/ /\ session' \in {NoSession, Session(FALSE, Null)}
                   /\ Failed(m, {ERROR(m.tid, m.at)})
                \/ /\ session' = Session(TRUE, nl)
                   /\ IF room THEN Answered(m, Replies(m.tid, m.at, nl, 0, TRUE))
                      ELSE Taken(m, {ERROR(m.tid, m.at)})
          \/ /\ UNCHANGED peer /\ session' = Session(TRUE, Null)
             /\ Failed(m, {ERROR(m.tid, m.at)})
    /\ UNCHANGED <<blocks, client, received>>

BySessionsListener(l) == IF session.l = Null THEN l ELSE session.l

(* The listener that answers is the one that was asked.                    *)
ReplyBy(l) == l

(* TFTPOP_ACK: an acknowledgement of block 1 in no session is taken for    *)
(* one of an error.                                                        *)
Ack(m) ==
    /\ IF session # NoSession /\ session.sid = m.tid
       THEN Answered(m, Replies(m.tid, m.at, ReplyBy(m.at), m.n, session.open))
       ELSE Taken(m, IF m.n = 1 THEN {} ELSE {ERROR(m.tid, m.at)})
    /\ UNCHANGED <<blocks, session, peer, client, received>>

(* host_session_timeout, in the request of some other host.                *)
SessionTimedOut ==
    /\ Active /\ session # NoSession /\ faults < MaxFaults
    /\ session' = NoSession /\ faults' = faults + 1
    /\ UNCHANGED <<blocks, peer, net, client, received>>

----------------------------------------------------------------------------
LastNumber == Len(received) % Wrap
LastSent == IF client.server = Unbound THEN RRQ(client.tid)
            ELSE ACK(client.tid, client.server, LastNumber)

(* What comes to the port the client uses from the one it is bound to.     *)
Heard(m) == Active /\ m.tid = client.tid /\ client.server \in {Unbound, m.at}
Expected(m) == Heard(m) /\ m.op = "DATA" /\ m.n = NumberAfter(LastNumber)
Repeated(m) == Heard(m) /\ m.op = "DATA" /\ received # <<>> /\ m.n = LastNumber

TakeBlock(m) ==
    /\ Expected(m) /\ Len(received) < MaxReceived
    /\ received' = Append(received, m.block)
    /\ client' = [client EXCEPT !.server = m.at, !.is = IF m.short THEN "done" ELSE @]
    /\ Taken(m, {ACK(m.tid, m.at, m.n)})
    /\ UNCHANGED <<blocks, session, peer>>

(* What it does not expect, a runt among it.                               *)
Ignore(m) ==
    /\ ~Expected(m) /\ ~(Heard(m) /\ m.op = "ERROR")
    /\ Taken(m, IF Repeated(m) THEN {ACK(m.tid, m.at, m.n)} ELSE {})
    /\ UNCHANGED <<blocks, session, peer, client, received>>

(* From the next port, the file from its start; or the client gives up.    *)
(* What is under way to the old port is of no more use.                    *)
BeginAgain(now) ==
    /\ faults + now <= MaxFaults /\ faults' = faults + now
    /\ IF client.tid < Attempts
       THEN /\ client' = [tid |-> client.tid + 1, server |-> Unbound, is |-> "active"]
            /\ received' = <<>>
            /\ net' = {m \in net : m.op \in {"RRQ", "ACK"}} \cup {RRQ(client.tid + 1)}
       ELSE /\ client' = [client EXCEPT !.is = "failed"] /\ net' = {} /\ UNCHANGED received
    /\ UNCHANGED <<blocks, session, peer>>

TakeError(m) == Heard(m) /\ m.op = "ERROR" /\ BeginAgain(0)
LosePatience == Active /\ BeginAgain(1)

Timeout ==
    /\ Active /\ LastSent \notin net
    /\ net' = net \cup {LastSent}
    /\ UNCHANGED <<blocks, session, peer, client, received, faults>>

Lose ==
    /\ Active /\ faults < MaxFaults /\ faults' = faults + 1
    /\ \E m \in net : net' = net \ {m}
    /\ UNCHANGED <<blocks, session, peer, client, received>>

----------------------------------------------------------------------------
(* The model ends with the client.                                         *)
ToServer(m) == (m.op = "RRQ" /\ ReadRequest(m)) \/ (m.op = "ACK" /\ Ack(m))
ToClient(m) == m.op \in {"DATA", "RUNT", "ERROR"} /\ (TakeBlock(m) \/ Ignore(m) \/ TakeError(m))

Next ==
    \/ Active /\ \E m \in net : ToServer(m) \/ ToClient(m)
    \/ SessionTimedOut \/ LosePatience \/ Timeout \/ Lose

(* The network may keep back what is of no use, but not what the client    *)
(* asks again and again, nor an answer it waits for.                       *)
AskServer == Active /\ \E m \in net : m = LastSent /\ ToServer(m)
AnswerClient == \E m \in net : TakeBlock(m) \/ TakeError(m)

Spec == Init /\ [][Next]_vars
FairSpec == Spec /\ WF_vars(Timeout) /\ WF_vars(AskServer) /\ WF_vars(AnswerClient)

----------------------------------------------------------------------------
Tids == 1 .. Attempts
Listeners == 0 .. MaxListeners
Numbers == 0 .. Wrap - 1

TypeOK ==
    /\ session \in [sid : Tids \cup {0}, open : BOOLEAN, l : Listeners \cup {Null}]
    /\ peer \in Seq(Tids)
    /\ \A m \in net : /\ m.tid \in Tids /\ m.at \in Listeners
                      /\ m.op \notin {"ERROR", "RUNT"} => m.n \in Numbers
    /\ client \in [tid : Tids, server : Listeners, is : {"active", "done", "failed"}]

(* Whatever was lost, repeated or answered by way of another listener, and *)
(* whatever session the answers came from, the client has the blocks of    *)
(* the file in their order (tftp.c, TFTPOP_ACK) - as long as there are     *)
(* numbers for them: block Wrap + 1 is read at offset 0.  Standard input   *)
(* alone can get in between.                                               *)
BlocksInOrder ==
    \A i \in DOMAIN received : i <= Wrap => received[i] \in {i, Stdin}

(* A client that thinks it has the file has all of it and nothing else,    *)
(* although the server sends one more, empty block behind the last; a file *)
(* of more blocks than there are numbers never ends.                       *)
CompleteWhenDone ==
    (client.is = "done" /\ \A i \in DOMAIN received : received[i] # Stdin) =>
        received = [i \in 1 .. blocks |-> i]

(* A client whose session is kept gets to an end: no loss, no repetition   *)
(* and no second session for its port leaves it with answers it cannot     *)
(* use, while there are numbers for the blocks.  The server has no timer:  *)
(* it all hangs on the client's.                                           *)
HasSession == session # NoSession /\ session.sid = client.tid
KeptSessionEnds ==
    (blocks <= Wrap /\ <>[](HasSession \/ ~Active)) => <>~Active
=============================================================================

--------------------------- MODULE Transfer_proofs ---------------------------
(***************************************************************************)
(* Proofs about the transfer of one file, block by block (module           *)
(* Transfer), for files, block numbers, ports, listeners and faults        *)
(* without bound.                                                          *)
(*                                                                         *)
(* What keeps the blocks in order is that a data message carries the       *)
(* number of the block it was read for, however late it comes and          *)
(* whichever session, listener or acknowledgement it answers (AsRead).     *)
(***************************************************************************)
EXTENDS Transfer, SequenceTheorems, TLAPS

(* Block numbers without wrapping: the number behind the last one is 0.    *)
LEMMA SmallModulo == \A k \in Numbers : k % Wrap = k
BY TransferAssumption DEF Numbers

LEMMA NumberAfterIs ==
  \A k \in Numbers : NumberAfter(k) = IF k + 1 = Wrap THEN 0 ELSE k + 1
<1>1. Wrap % Wrap = 0
  BY TransferAssumption
<1> QED
  BY <1>1, TransferAssumption DEF Numbers, NumberAfter

----------------------------------------------------------------------------
(* The inductive invariant: the types, what a data message says of its     *)
(* block, and what the client has made of the messages: only the last      *)
(* block it took may be short, and it is done exactly then.                *)
AsRead(m) ==
    /\ m.block \in 0 .. Wrap
    /\ m.block # Stdin => m.n = NumberAfter(m.block - 1)
    /\ m.short = IsShort(m.block)

WellFormed(m) ==
    /\ m.tid \in Tids /\ m.at \in Listeners
    /\ m.op \notin {"ERROR", "RUNT"} => m.n \in Numbers
    /\ m.op = "DATA" => AsRead(m)

NetOK == \A m \in net : WellFormed(m)

Clients == [tid : Tids, server : Listeners, is : {"active", "done", "failed"}]
ServerSessions == [sid : Tids \cup {0}, open : BOOLEAN, l : Listeners \cup {Null}]

Done == client.is = "done"

(* The blocks taken so far, seen apart from the client that took them.     *)
InOrder(taken, done) ==
    /\ taken \in Seq(0 .. Wrap)
    /\ \A i \in 1 .. Len(taken) :
          /\ i <= Wrap => taken[i] \in {i, Stdin}
          /\ IsShort(taken[i]) => done /\ i = Len(taken)
    /\ done => taken # <<>> /\ IsShort(taken[Len(taken)])

ReceivedOK == InOrder(received, Done)

IInv ==
    /\ blocks \in Sizes
    /\ session \in ServerSessions
    /\ peer \in Seq(Tids)
    /\ client \in Clients
    /\ NetOK
    /\ ReceivedOK

----------------------------------------------------------------------------
(* Every message is well formed.                                           *)
LEMMA Ranges ==
  /\ Wrap \in Nat \ {0} /\ Attempts \in Nat \ {0} /\ MaxListeners \in Nat \ {0}
  /\ 0 \in Numbers /\ 0 \in Listeners /\ 1 \in Tids
  /\ \A k \in Int : k % Wrap \in Numbers
BY TransferAssumption DEF Numbers, Listeners, Tids

LEMMA RequestsWellFormed ==
  ASSUME NEW tid \in Tids, NEW at \in Listeners, NEW n \in Numbers
  PROVE  /\ WellFormed(RRQ(tid))
         /\ WellFormed(ACK(tid, at, n))
         /\ WellFormed(ERROR(tid, at)) /\ WellFormed(RUNT(tid, at))
BY Ranges DEF WellFormed, RRQ, ACK, ERROR, RUNT

LEMMA DataWellFormed ==
  ASSUME NEW tid \in Tids, NEW at \in Listeners, NEW k \in Numbers, NEW b \in {BlockAt(k), Stdin}
  PROVE  WellFormed(DATA(tid, at, NumberAfter(k), b))
<1> DEFINE m == DATA(tid, at, NumberAfter(k), b)
<1>1. /\ m.op = "DATA" /\ m.tid = tid /\ m.at = at
      /\ m.n = NumberAfter(k) /\ m.block = b
  BY DEF DATA
<1>2. m.short = IsShort(b)
  BY DEF DATA
<1>3. NumberAfter(k) \in Numbers
  BY Ranges DEF NumberAfter, Numbers
<1>4. b \in 0 .. Wrap /\ (b # Stdin => NumberAfter(k) = NumberAfter(b - 1))
  <2>1. Wrap \in Nat \ {0} /\ k \in 0 .. Wrap - 1
    BY Ranges DEF Numbers
  <2>2. b \in {k + 1, 0}
    BY DEF BlockAt, Stdin
  <2>3. b \in 0 .. Wrap
    BY <2>1, <2>2
  <2>4. b # 0 => b - 1 = k
    BY <2>1, <2>2
  <2> QED
    BY <2>3, <2>4 DEF Stdin
<1> HIDE DEF m
<1>5. AsRead(m)
  BY <1>1, <1>2, <1>4 DEF AsRead
<1> QED
  BY <1>1, <1>3, <1>5 DEF WellFormed, m

(* What is taken from the network, and what a reply adds to it.            *)
LEMMA TakenNet ==
  ASSUME NetOK, UNCHANGED blocks, NEW m, NEW out, \A o \in out : WellFormed(o),
         Taken(m, out) \/ Failed(m, out)
  PROVE  NetOK'
<1>1. net' \subseteq net \cup out
  BY DEF Taken, Failed
<1> QED
  BY <1>1 DEF NetOK, WellFormed, AsRead, IsShort

LEMMA AnsweredNet ==
  ASSUME NetOK, UNCHANGED blocks, NEW m,
         NEW tid \in Tids, NEW l \in Listeners, NEW dl \in Listeners,
         NEW k \in Numbers, NEW file \in BOOLEAN,
         Answered(m, Replies(tid, l, dl, k, file))
  PROVE  NetOK'
<1> DEFINE replies == Replies(tid, l, dl, k, file)
<1>1. \A o \in replies.fine : WellFormed(o)
  BY DataWellFormed DEF Replies
<1>2. \A o \in replies.failed : WellFormed(o)
  BY RequestsWellFormed, Ranges DEF Replies
<1> QED
  BY <1>1, <1>2, TakenNet DEF Answered

----------------------------------------------------------------------------
(* The server's steps.                                                     *)
LEMMA ReadRequestInv ==
  ASSUME IInv, NEW m \in net, m.op = "RRQ", ReadRequest(m)
  PROVE  IInv'
<1>1. UNCHANGED <<blocks, client, received>> /\ m.tid \in Tids /\ m.at \in Listeners
  BY DEF ReadRequest, IInv, NetOK, WellFormed
<1>2. WellFormed(ERROR(m.tid, m.at))
  BY <1>1, Ranges, RequestsWellFormed
<1>3. ReceivedOK'
  BY <1>1 DEF IInv, ReceivedOK, InOrder, Done, IsShort
<1>4. NoSession \in ServerSessions
      /\ \A open \in BOOLEAN, l \in Listeners \cup {Null} :
            [sid |-> m.tid, open |-> open, l |-> l] \in ServerSessions
  BY <1>1 DEF NoSession, ServerSessions
<1> DEFINE room == Len(peer) < MaxListeners
           nl == IF room THEN Len(peer) + 1 ELSE Null
<1>5. /\ peer \in Seq(Tids) /\ Append(peer, m.tid) \in Seq(Tids)
      /\ nl \in Listeners \cup {Null}
      /\ room => nl \in Listeners
  <2>1. peer \in Seq(Tids) /\ Append(peer, m.tid) \in Seq(Tids)
    BY <1>1, AppendProperties DEF IInv
  <2>2. Len(peer) \in Nat
    BY <2>1, LenProperties
  <2>3. room => Len(peer) + 1 \in Listeners
    BY <2>2, TransferAssumption DEF Listeners
  <2> QED
    BY <2>1, <2>3
<1>6. session' \in ServerSessions /\ peer' \in Seq(Tids)
  BY <1>4, <1>5 DEF ReadRequest
<1>7. NetOK'
  <2>1. \/ Failed(m, {ERROR(m.tid, m.at)})
        \/ Taken(m, {ERROR(m.tid, m.at)})
        \/ room /\ Answered(m, Replies(m.tid, m.at, nl, 0, TRUE))
    BY DEF ReadRequest
  <2>2. CASE Failed(m, {ERROR(m.tid, m.at)}) \/ Taken(m, {ERROR(m.tid, m.at)})
    BY <1>1, <1>2, <2>2, TakenNet DEF IInv
  <2>3. CASE room /\ Answered(m, Replies(m.tid, m.at, nl, 0, TRUE))
    BY <1>1, <1>5, <2>3, Ranges, AnsweredNet DEF IInv
  <2> QED
    BY <2>1, <2>2, <2>3
<1> QED
  BY <1>1, <1>3, <1>6, <1>7 DEF IInv

LEMMA AckInv ==
  ASSUME IInv, NEW m \in net, m.op = "ACK", Ack(m)
  PROVE  IInv'
<1>1. /\ UNCHANGED <<blocks, session, peer, client, received>>
      /\ m.tid \in Tids /\ m.at \in Listeners /\ m.n \in Numbers
      /\ session.open \in BOOLEAN
  BY DEF Ack, IInv, NetOK, WellFormed, ServerSessions
<1>2. ReceivedOK'
  BY <1>1 DEF IInv, ReceivedOK, InOrder, Done, IsShort
<1>3. NetOK'
  <2>1. CASE Answered(m, Replies(m.tid, m.at, ReplyBy(m.at), m.n, session.open))
    BY <1>1, <2>1, AnsweredNet DEF ReplyBy, IInv
  <2>2. CASE Taken(m, {}) \/ Taken(m, {ERROR(m.tid, m.at)})
    BY <1>1, <2>2, TakenNet, RequestsWellFormed DEF IInv
  <2> QED
    BY <2>1, <2>2 DEF Ack
<1> QED
  BY <1>1, <1>2, <1>3 DEF IInv

(* host_session_timeout and a loss add nothing to the network.             *)
LEMMA FewerInv ==
  ASSUME IInv, UNCHANGED <<blocks, peer, client, received>>,
         net' \subseteq net, session' \in {session, NoSession}
  PROVE  IInv'
<1>1. ReceivedOK' /\ NetOK'
  BY DEF IInv, ReceivedOK, InOrder, Done, IsShort, NetOK, WellFormed, AsRead
<1>2. NoSession \in ServerSessions
  BY DEF NoSession, ServerSessions
<1> QED
  BY <1>1, <1>2 DEF IInv

----------------------------------------------------------------------------
(* The client's steps.  Of the numbers that are not used twice yet, the    *)
(* one the client expects is that of one block only.                       *)
LEMMA NumbersDiffer ==
  ASSUME NEW k \in Numbers, NEW j \in Numbers, NumberAfter(k) = NumberAfter(j)
  PROVE  k = j
BY NumberAfterIs DEF Numbers

LEMMA LastNumberIs == received \in Seq(0 .. Wrap) =>
    /\ LastNumber \in Numbers
    /\ Len(received) < Wrap => LastNumber = Len(received)
<1> SUFFICES ASSUME received \in Seq(0 .. Wrap)
             PROVE  /\ LastNumber \in Numbers
                    /\ Len(received) < Wrap => LastNumber = Len(received)
  OBVIOUS
<1>1. Len(received) \in Nat
  BY LenProperties
<1>2. Len(received) < Wrap => Len(received) \in Numbers
  BY <1>1, TransferAssumption DEF Numbers
<1> QED
  BY <1>1, <1>2, Ranges, SmallModulo DEF LastNumber

(* The blocks the client has after it took one more.                       *)
LEMMA TakenInOrder ==
  ASSUME InOrder(received, FALSE), NEW m, WellFormed(m), m.op = "DATA",
         m.n = NumberAfter(LastNumber)
  PROVE  InOrder(Append(received, m.block), IsShort(m.block))
<1> DEFINE longer == Append(received, m.block)
<1>1. /\ received \in Seq(0 .. Wrap) /\ Len(received) \in Nat
      /\ AsRead(m) /\ m.block \in 0 .. Wrap
  BY LenProperties DEF InOrder, WellFormed, AsRead
<1>2. /\ longer \in Seq(0 .. Wrap)
      /\ Len(longer) = Len(received) + 1
      /\ \A i \in 1 .. Len(received) : longer[i] = received[i]
      /\ longer[Len(received) + 1] = m.block
  BY <1>1, AppendProperties
<1> HIDE DEF longer
<1>3. ASSUME Len(received) + 1 <= Wrap, m.block # Stdin
      PROVE  m.block = Len(received) + 1
  <2>1. m.block - 1 \in Numbers /\ m.n = NumberAfter(m.block - 1)
    BY <1>1, <1>3, TransferAssumption DEF AsRead, Numbers, Stdin
  <2>2. LastNumber \in Numbers /\ LastNumber = Len(received)
    BY <1>1, <1>3, LastNumberIs, TransferAssumption
  <2>3. m.block - 1 = LastNumber
    BY <2>1, <2>2, NumbersDiffer
  <2> QED
    BY <1>1, <2>2, <2>3
<1>4. \A i \in 1 .. Len(longer) :
        /\ i <= Wrap => longer[i] \in {i, Stdin}
        /\ IsShort(longer[i]) => IsShort(m.block) /\ i = Len(longer)
  <2> SUFFICES ASSUME NEW i \in 1 .. Len(longer)
               PROVE  /\ i <= Wrap => longer[i] \in {i, Stdin}
                      /\ IsShort(longer[i]) => IsShort(m.block) /\ i = Len(longer)
    OBVIOUS
  <2>1. CASE i = Len(received) + 1
    BY <1>2, <1>3, <2>1
  <2>2. CASE i \in 1 .. Len(received)
    BY <1>2, <2>2 DEF InOrder
  <2> QED
    BY <1>1, <1>2, <2>1, <2>2
<1>5. longer # <<>> /\ longer[Len(longer)] = m.block
  BY <1>1, <1>2, EmptySeq
<1> QED
  BY <1>2, <1>4, <1>5 DEF InOrder, longer

LEMMA TakeBlockInv ==
  ASSUME IInv, NEW m \in net, TakeBlock(m)
  PROVE  IInv'
<1>1. /\ UNCHANGED <<blocks, session, peer>>
      /\ WellFormed(m) /\ m.op = "DATA" /\ m.n = NumberAfter(LastNumber)
      /\ Active
  BY DEF TakeBlock, Expected, Heard, IInv, NetOK
<1>2. /\ m.tid \in Tids /\ m.at \in Listeners /\ m.n \in Numbers
      /\ m.short = IsShort(m.block)
  BY <1>1 DEF WellFormed, AsRead
<1>3. NetOK'
  <2>1. WellFormed(ACK(m.tid, m.at, m.n))
    BY <1>2, RequestsWellFormed
  <2>2. Taken(m, {ACK(m.tid, m.at, m.n)})
    BY DEF TakeBlock
  <2> QED
    BY <1>1, <2>1, <2>2, TakenNet DEF IInv
<1>4. client' = [client EXCEPT !.server = m.at, !.is = IF IsShort(m.block) THEN "done" ELSE @]
  BY <1>2 DEF TakeBlock
<1>5. client' \in Clients /\ (Done' <=> IsShort(m.block))
  BY <1>1, <1>2, <1>4 DEF IInv, Clients, Done, Active
<1>6. ~Done
  BY <1>1 DEF Active, Done
<1>7. InOrder(received, FALSE)
  BY <1>6 DEF IInv, ReceivedOK, InOrder
<1>8. InOrder(received', IsShort(m.block))
  BY <1>1, <1>7, TakenInOrder DEF TakeBlock
<1>9. ReceivedOK'
  BY <1>1, <1>5, <1>8 DEF ReceivedOK, InOrder, IsShort
<1> QED
  BY <1>1, <1>3, <1>5, <1>9 DEF IInv

LEMMA IgnoreInv ==
  ASSUME IInv, NEW m \in net, Ignore(m)
  PROVE  IInv'
<1>1. UNCHANGED <<blocks, session, peer, client, received>> /\ WellFormed(m)
  BY DEF Ignore, IInv, NetOK
<1>2. ReceivedOK'
  BY <1>1 DEF IInv, ReceivedOK, InOrder, Done, IsShort
<1>3. NetOK'
  <2>1. CASE Repeated(m)
    <3>1. WellFormed(ACK(m.tid, m.at, m.n))
      BY <1>1, <2>1, RequestsWellFormed DEF WellFormed, Repeated
    <3> QED
      BY <1>1, <2>1, <3>1, TakenNet DEF Ignore, IInv
  <2>2. CASE ~Repeated(m)
    BY <1>1, <2>2, TakenNet DEF Ignore, IInv
  <2> QED
    BY <2>1, <2>2
<1> QED
  BY <1>1, <1>2, <1>3 DEF IInv

LEMMA BeginAgainInv ==
  ASSUME IInv, NEW now, Active, BeginAgain(now)
  PROVE  IInv'
<1>1. UNCHANGED <<blocks, session, peer>> /\ client \in Clients /\ ~Done
  BY DEF BeginAgain, IInv, Active, Done
<1>2. CASE client.tid < Attempts
  <2>1. client.tid + 1 \in Tids
    BY <1>1, <1>2, TransferAssumption DEF Clients, Tids
  <2>2. /\ client' = [tid |-> client.tid + 1, server |-> Unbound, is |-> "active"]
        /\ received' = <<>>
        /\ net' \subseteq net \cup {RRQ(client.tid + 1)}
    BY <1>2 DEF BeginAgain
  <2>3. client' \in Clients /\ ~Done'
    BY <2>1, <2>2, Ranges DEF Clients, Unbound, Done
  <2>4. NetOK'
    <3>1. WellFormed(RRQ(client.tid + 1))
      BY <2>1, Ranges, RequestsWellFormed
    <3> QED
      BY <1>1, <2>2, <3>1 DEF IInv, NetOK, WellFormed, AsRead, IsShort
  <2>5. ReceivedOK'
    BY <2>2, <2>3, EmptySeq DEF ReceivedOK, InOrder
  <2> QED
    BY <1>1, <2>3, <2>4, <2>5 DEF IInv
<1>3. CASE ~(client.tid < Attempts)
  <2>1. client' = [client EXCEPT !.is = "failed"] /\ net' = {} /\ UNCHANGED received
    BY <1>3 DEF BeginAgain
  <2>2. client' \in Clients /\ ~Done'
    BY <1>1, <2>1 DEF Clients, Done
  <2>3. ReceivedOK'
    BY <1>1, <2>1, <2>2 DEF IInv, ReceivedOK, InOrder, IsShort
  <2> QED
    BY <1>1, <2>1, <2>2, <2>3 DEF IInv, NetOK
<1> QED
  BY <1>2, <1>3

LEMMA TimeoutInv ==
  ASSUME IInv, Timeout
  PROVE  IInv'
<1>1. UNCHANGED <<blocks, session, peer, client, received>> /\ net' = net \cup {LastSent}
  BY DEF Timeout
<1>2. client.tid \in Tids /\ client.server \in Listeners /\ LastNumber \in Numbers
  BY LastNumberIs DEF IInv, Clients, ReceivedOK, InOrder
<1>3. WellFormed(LastSent)
  BY <1>2, RequestsWellFormed, Ranges DEF LastSent
<1>4. ReceivedOK' /\ NetOK'
  BY <1>1, <1>3 DEF IInv, ReceivedOK, InOrder, Done, IsShort, NetOK, WellFormed, AsRead
<1> QED
  BY <1>1, <1>4 DEF IInv

----------------------------------------------------------------------------
LEMMA IInvInit == Init => IInv
<1> SUFFICES ASSUME Init PROVE IInv
  OBVIOUS
<1>1. NoSession \in ServerSessions /\ client \in Clients /\ ~Done
  BY Ranges DEF Init, NoSession, ServerSessions, Clients, Unbound, Done
<1>2. NetOK
  BY Ranges, RequestsWellFormed DEF Init, NetOK
<1>3. peer \in Seq(Tids) /\ ReceivedOK
  BY <1>1, EmptySeq DEF Init, ReceivedOK, InOrder
<1> QED
  BY <1>1, <1>2, <1>3 DEF Init, IInv

LEMMA IInvStep == IInv /\ [Next]_vars => IInv'
<1> SUFFICES ASSUME IInv, [Next]_vars PROVE IInv'
  OBVIOUS
<1>1. ASSUME NEW m \in net, ToServer(m) PROVE IInv'
  BY <1>1, ReadRequestInv, AckInv DEF ToServer
<1>2. ASSUME NEW m \in net, ToClient(m) PROVE IInv'
  BY <1>2, TakeBlockInv, IgnoreInv, BeginAgainInv DEF ToClient, TakeError, Heard
<1>3. CASE SessionTimedOut
  BY <1>3, FewerInv DEF SessionTimedOut
<1>4. CASE LosePatience
  BY <1>4, BeginAgainInv DEF LosePatience
<1>5. CASE Timeout
  BY <1>5, TimeoutInv
<1>6. CASE Lose
  BY <1>6, FewerInv DEF Lose
<1>7. CASE UNCHANGED vars
  BY <1>7, FewerInv DEF vars
<1> QED
  BY <1>1, <1>2, <1>3, <1>4, <1>5, <1>6, <1>7 DEF Next

LEMMA IInvAlways == Spec => []IInv
BY IInvInit, IInvStep, PTL DEF Spec

(* The types; in particular every message, however late, names a port, a   *)
(* listener and a block number that exist.                                 *)
THEOREM TransferTypeCorrect == Spec => []TypeOK
<1>1. IInv => TypeOK
  BY DEF IInv, TypeOK, NetOK, WellFormed, Clients, ServerSessions
<1> QED
  BY <1>1, IInvAlways, PTL

(* Whatever is lost, repeated, reordered or answered in another session,   *)
(* the client has the blocks of the file in their order, up to the last    *)
(* block number.                                                           *)
THEOREM InOrderAlways == Spec => []BlocksInOrder
<1>1. IInv => BlocksInOrder
  <2> SUFFICES ASSUME IInv PROVE BlocksInOrder
    OBVIOUS
  <2>1. DOMAIN received = 1 .. Len(received)
    BY LenProperties DEF IInv, ReceivedOK, InOrder
  <2> QED
    BY <2>1 DEF IInv, ReceivedOK, InOrder, BlocksInOrder
<1> QED
  BY <1>1, IInvAlways, PTL

(* Blocks that are in order up to the last number, of which the last alone *)
(* is the file's last block, are the whole file.                           *)
OnlyLastEnds(taken, last, n) ==
    \A i \in 1 .. last :
        /\ taken[i] \in 0 .. Wrap
        /\ i <= Wrap => taken[i] = i
        /\ taken[i] >= n <=> i = last

LEMMA WholeFile ==
  ASSUME NEW last \in Nat \ {0}, NEW n \in Nat \ {0}, NEW taken, OnlyLastEnds(taken, last, n)
  PROVE  last = n /\ \A i \in 1 .. n : taken[i] = i
<1>1. taken[last] >= n /\ taken[last] \in 0 .. Wrap /\ Wrap \in Nat \ {0}
  BY TransferAssumption DEF OnlyLastEnds
<1>2. last <= Wrap
  <2> SUFFICES ASSUME last > Wrap PROVE FALSE
    BY <1>1
  <2>1. taken[Wrap] = Wrap /\ ~(taken[Wrap] >= n)
    BY <1>1 DEF OnlyLastEnds
  <2> QED
    BY <1>1, <2>1
<1>3. last >= n
  BY <1>1, <1>2 DEF OnlyLastEnds
<1>4. ~(last > n)
  <2> SUFFICES ASSUME last > n PROVE FALSE
    OBVIOUS
  <2>1. n \in 1 .. last /\ n <= Wrap /\ n # last
    BY <1>1, <1>2
  <2> QED
    BY <2>1 DEF OnlyLastEnds
<1> QED
  BY <1>1, <1>2, <1>3, <1>4 DEF OnlyLastEnds

(* A client that is done, and was served nothing but the file, has exactly *)
(* the file, of any length.                                                *)
THEOREM CompleteAlways == Spec => []CompleteWhenDone
<1>1. IInv => CompleteWhenDone
  <2> SUFFICES ASSUME IInv, Done, \A i \in DOMAIN received : received[i] # Stdin
               PROVE  received = [i \in 1 .. blocks |-> i]
    BY DEF CompleteWhenDone, Done
  <2>1. /\ received \in Seq(0 .. Wrap)
        /\ Len(received) \in Nat \ {0} /\ DOMAIN received = 1 .. Len(received)
    BY LenProperties, EmptySeq DEF IInv, ReceivedOK, InOrder
  <2>2. blocks \in Nat \ {0}
    BY TransferAssumption DEF IInv
  <2>3. ASSUME NEW i \in 1 .. Len(received)
        PROVE  /\ received[i] \in 0 .. Wrap
               /\ i <= Wrap => received[i] = i
               /\ received[i] >= blocks <=> i = Len(received)
    <3>1. received[i] \in 0 .. Wrap /\ received[i] # Stdin
      BY <2>1, ElementOfSeq
    <3> QED
      BY <2>1, <3>1 DEF IInv, ReceivedOK, InOrder, IsShort
  <2>4. OnlyLastEnds(received, Len(received), blocks)
    BY <2>3 DEF OnlyLastEnds
  <2>5. Len(received) = blocks /\ \A i \in 1 .. blocks : received[i] = i
    BY <2>1, <2>2, <2>4, WholeFile
  <2> QED
    BY <2>1, <2>5
<1> QED
  BY <1>1, IInvAlways, PTL
=============================================================================

--------------------------- MODULE TftpRecvProofs ---------------------------
(***************************************************************************)
(* The receiver implements FileCopy, and its clients know what they have   *)
(* uploaded, for any number of uploads, losses, duplicates and interrupts: *)
(* if a dump has fewer blocks than there are block numbers, or if the      *)
(* network keeps the order of datagrams.                                   *)
(*                                                                         *)
(* Base holds as long as numbers are not mistaken (Sound).  That they are  *)
(* not follows from Short in the one case and from Order in the other.     *)
(***************************************************************************)
EXTENDS TftpRecv, SequenceTheorems, TLAPS

\* What can be on its way to the receiver: the blocks of the one client that was
\* served, each under its number, and errors.
Datagrams ==
    {m \in [op : {"DATA", "ERROR"}, up : Nat, port : Nat, blk : Nat, data : Nat, short : BOOLEAN] :
        m.op = "DATA" => /\ exists /\ m.up = peer
                         /\ m.data \in 1 .. N /\ m.blk = Number(m.data) /\ m.short = (m.data = N)}

\* What can be on its way to a client: acknowledgements, to the client that was
\* served, and errors.
Replies ==
    {m \in [op : {"ACK", "ERROR"}, up : Nat, port : Nat, blk : Nat] :
        m.op = "ACK" => exists /\ m.up = peer}

\* A request with the client that makes it.
Asked == [up : Nat, request : Requests \cup {"none"}]

Types ==
    /\ exists \in BOOLEAN /\ done \in BOOLEAN /\ disk \in Seq([up : Nat, blk : Nat])
    /\ queue \in Seq(Asked)
    /\ peer \in Nat /\ port \in Nat /\ expected_block \in Nat /\ pkt \in Nat
    /\ up \in Nat /\ request \in Requests \cup {"none"} /\ cport \in Nat /\ cblk \in 0 .. N
    /\ toServer \in Seq(Datagrams) /\ toClient \in Seq(Replies)

\* The file holds the first blocks of the dump of the client that was served.
InOrder ==
    /\ Len(disk) <= N
    /\ \A i \in 1 .. Len(disk) : disk[i].blk = i /\ disk[i].up = peer

\* The receiver's variables agree with the file; there is one transfer at most.
Served ==
    /\ ~exists => disk = <<>> /\ ~done /\ st # "recv" /\ cst \notin {"send", "done"}
    /\ exists => expected_block = Len(disk) + 1 /\ pkt = Number(Len(disk))
    /\ st = "recv" => Len(disk) < N
    /\ done => Len(disk) = N

\* A client that sends blocks, or has ended well, is the one that was served.
Known ==
    /\ cst = "send" => up = peer /\ cblk > 0
    /\ cst = "done" => up = peer /\ Len(disk) = N

Base == Types /\ InOrder /\ Served /\ Known

\* No number is taken for another one: not a block's by the receiver, not an
\* acknowledgement's by the client.
Sound ==
    /\ Datagram("DATA") /\ Expected(Head(toServer)) => Head(toServer).data = expected_block
    /\ toClient # <<>> /\ Head(toClient).op = "ACK" /\ Head(toClient).up = up
       /\ cst \in {"ask", "send"} /\ Head(toClient).blk = Number(cblk) => cblk <= Len(disk)

-----------------------------------------------------------------------------
(* Numbers and channels.                                                   *)

\* A number has its range.
LEMMA NumberIsNat == \A b \in Nat : Number(b) \in 0 .. W - 1
  BY TftpRecvAssumption, SMTT(30) DEF Number

\* Below W a number is the block itself.
LEMMA NumberSmall == ASSUME NEW b \in Nat, b < W PROVE Number(b) = b
  BY TftpRecvAssumption, SMTT(30) DEF Number

\* The numbers of two blocks that follow each other differ.
LEMMA NumberNext == ASSUME NEW b \in Nat PROVE Number(b + 1) # Number(b)
<1> SUFFICES ASSUME (b + 1) % W = b % W PROVE FALSE
  BY Zenon DEF Number
<1> DEFINE q == b \div W
<1> DEFINE p == (b + 1) \div W
<1>1. W \in Nat /\ W >= 2 /\ q \in Nat /\ p \in Nat
  BY TftpRecvAssumption, SMTT(30)
<1>2. b = W * q + (b % W) /\ b + 1 = W * p + ((b + 1) % W) /\ (b % W) \in Nat
  BY TftpRecvAssumption, SMTT(30)
<1> HIDE DEF q, p
<1>3. W * p = W * q + 1 /\ W * p \in Nat /\ W * q \in Nat
  BY <1>1, <1>2, SMTT(30)
<1>4. CASE p <= q
  <2>1. W * p <= W * q
    BY <1>1, <1>4, SMTT(30)
  <2> QED BY <2>1, <1>3, SMTT(30)
<1>5. CASE p >= q + 1
  <2>1. W * p >= W * (q + 1)
    BY <1>1, <1>5, SMTT(30)
  <2>2. W * (q + 1) = W * q + W
    BY <1>1, SMTT(30)
  <2> QED BY <2>1, <2>2, <1>3, <1>1, SMTT(30)
<1> QED BY <1>1, <1>4, <1>5, SMTT(30)

\* Reorder and Copy put no new datagram into a channel.
LEMMA SwapIn == ASSUME NEW S, NEW s \in Seq(S), Len(s) > 1 PROVE Swap(s) \in Seq(S)
  BY SMTT(30) DEF Swap

\* A duplicate of the first datagram brings nothing new into a channel.
LEMMA CopyIn == ASSUME NEW S, NEW s \in Seq(S), s # <<>> PROVE <<Head(s)>> \o s \in Seq(S)
  BY SMTT(30)

\* A channel that gains a datagram or not, or loses one or not.
LEMMA SentIn ==
  ASSUME NEW S, NEW s \in Seq(S), NEW e \in S, NEW t, t = s \/ t = Append(s, e)
  PROVE  t \in Seq(S)
<1>1. CASE t = s
  BY <1>1, Zenon
<1>2. CASE t = Append(s, e)
  BY <1>2, AppendProperties, Zenon
<1> QED BY <1>1, <1>2, Zenon

\* Neither does taking the first datagram, as the receiver, the client and Lose do.
LEMMA TakenIn ==
  ASSUME NEW S, NEW s \in Seq(S), NEW t, t = s \/ (s # <<>> /\ t = Tail(s))
  PROVE  t \in Seq(S)
<1>1. CASE t = s
  BY <1>1, Zenon
<1>2. CASE s # <<>> /\ t = Tail(s)
  BY <1>2, HeadTailProperties, Zenon
<1> QED BY <1>1, <1>2, Zenon

\* What may be on its way depends on the transfer only.
LEMMA SameTransfer ==
  ASSUME UNCHANGED <<exists, peer>> PROVE Datagrams' = Datagrams /\ Replies' = Replies
  BY Zenon DEF Datagrams, Replies, Number

\* Before the transfer there are errors only, which the transfer does not touch.
LEMMA NewTransfer ==
  ASSUME ~exists PROVE Datagrams \subseteq Datagrams' /\ Replies \subseteq Replies'
  BY Zenon DEF Datagrams, Replies

-----------------------------------------------------------------------------
(* Base.                                                                   *)

\* No file and empty channels satisfy Base.
LEMMA InitBase == ASSUME Init PROVE Base
<1>1. Types
  <2>1. <<>> \in Seq(Asked) /\ <<>> \in Seq(Datagrams) /\ <<>> \in Seq(Replies)
        /\ <<>> \in Seq([up : Nat, blk : Nat])
    BY SMTT(30)
  <2>2. 0 \in 0 .. N
    BY TftpRecvAssumption, SMTT(30)
  <2> QED
    BY <2>1, <2>2, Zenon DEF Init, Types
<1>2. InOrder /\ Served /\ Known
  BY TftpRecvAssumption, SMTT(30) DEF Init, InOrder, Served, Known
<1> QED
  BY <1>1, <1>2, Zenon DEF Base

\* What may be on its way, if the transfer does not change.
LEMMA ReplyIn ==
  ASSUME NEW u \in Nat, NEW p \in Nat, NEW b \in Nat
  PROVE  /\ Reply("ERROR", u, p, b) \in Replies
         /\ exists /\ u = peer => Reply("ACK", u, p, b) \in Replies
  BY Zenon DEF Reply, Replies

\* A block the served client sends is a datagram the receiver may find.
LEMMA BlockIn ==
  ASSUME Types, NEW b \in 1 .. N, NEW p \in Nat
  PROVE  /\ [Block(b) EXCEPT !.op = "ERROR"] \in Datagrams
         /\ exists /\ up = peer => /\ Block(b) \in Datagrams
                                   /\ [Block(b) EXCEPT !.port = p] \in Datagrams
<1>1. Number(b) \in Nat /\ b \in Nat
  BY NumberIsNat, TftpRecvAssumption, SMTT(30)
<1> QED
  BY <1>1, Zenon DEF Block, Datagrams, Types

\* Requests that are refused, and the client's and the receiver's timeouts,
\* leave the file alone.
LEMMA RefuseBase == ASSUME Base, Refuse PROVE Base'
<1>1. Datagrams' = Datagrams /\ Replies' = Replies
  BY SameTransfer, Zenon DEF Refuse, file
<1>2. Head(queue) \in Asked /\ Tail(queue) \in Seq(Asked)
  BY SMTT(30) DEF Refuse, Base, Types
<1>3. toClient' \in Seq(Replies)
  <2> DEFINE r == Reply("ERROR", Head(queue).up, port + 1, 0)
  <2>1. r \in Replies
    BY <1>2, ReplyIn, SMTT(30) DEF Base, Types, Asked
  <2>2. toClient' = toClient \/ toClient' = Append(toClient, r)
    BY Zenon DEF Refuse
  <2> HIDE DEF r
  <2> QED
    BY <2>1, <2>2, SentIn, Zenon DEF Base, Types
<1>4. Types'
  BY <1>1, <1>2, <1>3, SMTT(30) DEF Refuse, Base, Types, file, client
<1> QED
  BY <1>4, Zenon DEF Refuse, Base, Types, InOrder, Served, Known, file, client

\* The transfer begins with an empty file.
LEMMA ReceiveBase == ASSUME Base, Receive PROVE Base'
<1>1. ~exists
  BY Zenon DEF Receive, Refused, Exists
<1>2. toServer' \in Seq(Datagrams') /\ toClient \in Seq(Replies')
  BY <1>1, NewTransfer, SeqMonotonic, Zenon DEF Receive, Base, Types
<1>3. Head(queue) \in Asked /\ Tail(queue) \in Seq(Asked)
  BY SMTT(30) DEF Receive, Base, Types
<1>4. Reply("ACK", Head(queue).up, port + 1, 0) \in Replies'
  BY <1>3, SMTT(30) DEF Receive, Replies, Reply, Base, Types, Asked
<1>5. Types'
  <2>1. toClient' \in Seq(Replies')
    BY <1>2, <1>4, SMTT(30) DEF Receive
  <2>2. peer' \in Nat /\ port' \in Nat
    BY <1>3, SMTT(30) DEF Receive, Base, Types, Asked
  <2> QED
    BY <1>2, <1>3, <2>1, <2>2, SMTT(30) DEF Receive, Base, Types, client
<1>6. Number(0) = 0 /\ N > 0
  BY TftpRecvAssumption, SMTT(30) DEF Number
<1> QED
  BY <1>1, <1>5, <1>6, SMTT(30) DEF Receive, Base, InOrder, Served, Known, client, Types

\* The block that is written is the next one.
LEMMA DataBase == ASSUME Base, Sound, Data PROVE Base'
<1> DEFINE m == Head(toServer)
<1>1. Datagrams' = Datagrams /\ Replies' = Replies
  BY SameTransfer, Zenon DEF Data
<1>2. m \in Datagrams /\ Tail(toServer) \in Seq(Datagrams) /\ m.op = "DATA" /\ st = "recv"
  BY SMTT(30) DEF Data, Datagram, Base, Types
<1>3. m.data = expected_block /\ m.up = peer /\ exists /\ m.data \in 1 .. N
      /\ m.blk = Number(m.data) /\ m.short = (m.data = N) /\ m.up \in Nat /\ m.blk \in Nat
  BY <1>2, Zenon DEF Sound, Data, Datagrams
<1> HIDE DEF m
<1>4. expected_block = Len(disk) + 1 /\ Len(disk) \in Nat /\ expected_block \in 1 .. N
  BY <1>3, SMTT(30) DEF Base, Served, Types
<1>5. disk' = Append(disk, [up |-> peer, blk |-> Len(disk) + 1])
  BY <1>3, <1>4, Zenon DEF Data, m
<1>6. /\ disk' \in Seq([up : Nat, blk : Nat]) /\ Len(disk') = Len(disk) + 1
      /\ disk'[Len(disk) + 1] = [up |-> peer, blk |-> Len(disk) + 1]
      /\ \A i \in 1 .. Len(disk) : disk'[i] = disk[i]
  BY <1>3, <1>4, <1>5, AppendProperties, SMTT(30) DEF Base, Types
<1>7. Types'
  <2>1. toClient' \in Seq(Replies)
    <3>1. toClient' = Append(toClient, Reply("ACK", peer, port, m.blk))
      BY Zenon DEF Data, m
    <3> QED BY <1>3, <3>1, ReplyIn, SMTT(30) DEF Base, Types
  <2>2. done' \in BOOLEAN
    BY Zenon DEF Data, Base, Types
  <2>3. pkt' \in Nat /\ expected_block' \in Nat
    BY <1>3, SMTT(30) DEF Data, m, Base, Types
  <2> QED
    BY <1>1, <1>2, <1>6, <2>1, <2>2, <2>3, Zenon DEF Data, Base, Types, client, m
<1>8. InOrder'
  BY <1>4, <1>6, TftpRecvAssumption, SMTT(30) DEF Data, Base, InOrder
<1>9. Served'
  <2>1. pkt' = Number(Len(disk')) /\ expected_block' = Len(disk') + 1
    BY <1>3, <1>4, <1>6, Zenon DEF Data, m
  <2>2. st' = "recv" => Len(disk') < N
    <3>1. st' = "recv" => m.data # N
      BY <1>3, Zenon DEF Data, Last, m
    <3> QED BY <3>1, <1>3, <1>4, <1>6, TftpRecvAssumption, SMTT(30)
  <2>3. done' => Len(disk') = N
    <3>1. ~done
      BY <1>2, TftpRecvAssumption, SMTT(30) DEF Base, Served, Types
    <3>2. done' => m.data = N
      BY <1>3, <3>1, Zenon DEF Data, Last, m
    <3> QED BY <3>2, <1>3, <1>4, <1>6, Zenon
  <2> QED
    BY <2>1, <2>2, <2>3, <1>3, Zenon DEF Served, Data
<1>10. Known'
  <2>1. cst # "done"
    BY <1>2, TftpRecvAssumption, SMTT(30) DEF Base, Served, Known, Types
  <2> QED
    BY <2>1, Zenon DEF Data, Base, Known, client
<1> QED
  BY <1>7, <1>8, <1>9, <1>10, Zenon DEF Base

\* The other steps of the receiver repeat an acknowledgement, or end.
LEMMA ReceiverBase ==
  ASSUME Base, Duplicate \/ ClientError \/ Timeout \/ Interrupt \/ Closed PROVE Base'
<1>1. Datagrams' = Datagrams /\ Replies' = Replies
  BY SameTransfer, Zenon DEF Duplicate, ClientError, Timeout, Interrupt, Closed, Listen, file, transfer
<1> DEFINE r == Reply("ACK", peer, port, pkt)
<1>2. st = "recv" => r \in Replies
  BY ReplyIn, Zenon DEF Base, Types, Served
<1>3. /\ UNCHANGED <<file, client, peer, port, expected_block, pkt>> /\ (st' = "recv" => st = "recv")
      /\ toServer' = toServer \/ (toServer # <<>> /\ toServer' = Tail(toServer))
      /\ queue' = queue \/ queue' = <<>>
      /\ toClient' = toClient \/ (st = "recv" /\ toClient' = Append(toClient, r))
  BY Zenon DEF Duplicate, ClientError, Timeout, Interrupt, Closed, Listen, Datagram, file, transfer
<1> HIDE DEF r
<1>4. toServer' \in Seq(Datagrams) /\ toClient' \in Seq(Replies) /\ queue' \in Seq(Asked)
  <2>1. toServer' \in Seq(Datagrams)
    BY <1>3, TakenIn, Zenon DEF Base, Types
  <2>2. toClient' \in Seq(Replies)
    <3>1. CASE toClient' = toClient
      BY <3>1, Zenon DEF Base, Types
    <3>2. CASE st = "recv" /\ toClient' = Append(toClient, r)
      BY <3>2, <1>2, SentIn, Zenon DEF Base, Types
    <3> QED BY <3>1, <3>2, <1>3, Zenon
  <2>3. queue' \in Seq(Asked)
    <3>1. CASE queue' = queue
      BY <3>1, Zenon DEF Base, Types
    <3>2. CASE queue' = <<>>
      BY <3>2, SMTT(30)
    <3> QED BY <3>1, <3>2, <1>3, Zenon
  <2> QED BY <2>1, <2>2, <2>3, Zenon
<1>5. Types'
  BY <1>1, <1>3, <1>4, Zenon DEF Base, Types, file, client
<1> QED
  BY <1>3, <1>5, Zenon DEF Base, InOrder, Served, Known, file, client

\* A new client asks.
LEMMA UploadBase == ASSUME Base, NEW r \in Requests, Upload(r) PROVE Base'
<1>1. Datagrams' = Datagrams /\ Replies' = Replies
  BY SameTransfer, Zenon DEF Upload, file, transfer
<1> DEFINE q == [up |-> up + 1, request |-> r]
<1>2. q \in Asked /\ queue' = Append(queue, q)
  BY SMTT(30) DEF Upload, Asked, Base, Types
<1> HIDE DEF q
<1>3. queue' \in Seq(Asked)
  BY <1>2, SMTT(30) DEF Base, Types
<1>4. cblk' \in 0 .. N
  BY TftpRecvAssumption, SMTT(30) DEF Upload
<1>5. Types'
  BY <1>1, <1>3, <1>4, SMTT(30) DEF Upload, Base, Types, file, transfer
<1> QED
  BY <1>5, Zenon DEF Upload, Base, InOrder, Served, Known, file, transfer

\* A client that ends well has seen the last block acknowledged.
LEMMA AnswerBase == ASSUME Base, Sound, Answer PROVE Base'
<1>1. Datagrams' = Datagrams /\ Replies' = Replies
  BY SameTransfer, Zenon DEF Answer, file, transfer
<1> DEFINE m == Head(toClient)
<1> DEFINE mine == m.up = up /\ cst \in {"ask", "send"} /\ cport \in {0, m.port}
<1> DEFINE acked == mine /\ m.op = "ACK" /\ m.blk = Number(cblk)
<1> DEFINE d == [Block(cblk + 1) EXCEPT !.port = m.port]
<1>2. m \in Replies /\ toClient # <<>> /\ toClient' = Tail(toClient) /\ Tail(toClient) \in Seq(Replies)
  BY SMTT(30) DEF Answer, Base, Types
<1>3. acked => exists /\ up = peer /\ cblk <= Len(disk)
  BY <1>2, Zenon DEF Replies, Sound
<1>4. m.port \in Nat
  BY <1>2, Zenon DEF Replies
<1>5. UNCHANGED <<file, queue, transfer, up, request>>
  BY Zenon DEF Answer
<1>6. CASE acked /\ cblk < N /\ cst' = "send" /\ cport' = m.port /\ cblk' = cblk + 1
           /\ toServer' = Append(toServer, d)
  <2>1. cblk + 1 \in 1 .. N
    BY <1>6, TftpRecvAssumption, SMTT(30) DEF Base, Types
  <2>2. d \in Datagrams
    BY <2>1, <1>3, <1>4, <1>6, BlockIn, Zenon DEF Base
  <2> HIDE DEF d, m, acked
  <2>3. Types'
    BY <1>1, <1>2, <1>4, <1>5, <1>6, <2>1, <2>2, SMTT(30) DEF Base, Types, file, transfer
  <2> QED
    BY <1>3, <1>5, <1>6, <2>1, <2>3, SMTT(30) DEF Base, InOrder, Served, Known, file, transfer
<1>7. CASE acked /\ cblk = N /\ cst' = "done" /\ UNCHANGED <<cport, cblk, toServer>>
  <2> HIDE DEF m, acked
  <2>1. Types'
    BY <1>1, <1>2, <1>5, <1>7, Zenon DEF Base, Types, file, transfer
  <2>2. Len(disk) = N
    BY <1>3, <1>7, TftpRecvAssumption, SMTT(30) DEF Base, InOrder, Types
  <2> QED
    BY <1>3, <1>5, <1>7, <2>1, <2>2, Zenon DEF Base, InOrder, Served, Known, file, transfer
<1>8. CASE (cst' = "failed" \/ cst' = cst) /\ UNCHANGED <<cport, cblk, toServer>>
  <2> HIDE DEF m
  <2>1. Types'
    BY <1>1, <1>2, <1>5, <1>8, Zenon DEF Base, Types, file, transfer
  <2> QED
    BY <1>5, <1>8, <2>1, Zenon DEF Base, InOrder, Served, Known, file, transfer
<1> QED
  BY <1>6, <1>7, <1>8, Zenon DEF Answer

\* The request or the block again, or the end.
LEMMA ClientTimeoutBase == ASSUME Base, NEW says \in BOOLEAN, ClientTimeout(says) PROVE Base'
<1>1. Datagrams' = Datagrams /\ Replies' = Replies
  BY SameTransfer, Zenon DEF ClientTimeout, file, transfer
<1> DEFINE q == [up |-> up, request |-> request]
<1> DEFINE b == Block(cblk)
<1> DEFINE e == [b EXCEPT !.op = "ERROR"]
<1>2. /\ UNCHANGED <<file, transfer, up, request, cport, cblk, toClient>>
      /\ cst' = cst \/ cst' = "failed"
      /\ queue' = queue \/ queue' = Append(queue, q)
      /\ \/ toServer' = toServer
         \/ cst = "send" /\ (toServer' = Append(toServer, b) \/ toServer' = Append(toServer, e))
  BY Zenon DEF ClientTimeout
<1>3. q \in Asked
  BY Zenon DEF Base, Types, Asked
<1>4. cst = "send" /\ cblk > 0 => b \in Datagrams /\ e \in Datagrams
  <2> SUFFICES ASSUME cst = "send", cblk > 0 PROVE b \in Datagrams /\ e \in Datagrams
    BY Zenon
  <2>1. cblk \in 1 .. N
    BY TftpRecvAssumption, SMTT(30) DEF Base, Types
  <2>2. exists /\ up = peer
    BY Zenon DEF Base, Served, Known, Types
  <2> QED
    BY <2>1, <2>2, BlockIn, Zenon DEF Base
<1> HIDE DEF q, b, e
<1>5. queue' \in Seq(Asked)
  BY <1>2, <1>3, SentIn, Zenon DEF Base, Types
<1>6. toServer' \in Seq(Datagrams)
  <2>1. CASE toServer' = toServer
    BY <2>1, Zenon DEF Base, Types
  <2>2. CASE cst = "send" /\ toServer' = Append(toServer, b)
    BY <2>2, <1>4, SentIn, Zenon DEF Base, Types, Known
  <2>3. CASE cst = "send" /\ toServer' = Append(toServer, e)
    BY <2>3, <1>4, SentIn, Zenon DEF Base, Types, Known
  <2> QED BY <1>2, <2>1, <2>2, <2>3, Zenon
<1>7. Types'
  BY <1>1, <1>2, <1>5, <1>6, Zenon DEF Base, Types, file, transfer
<1> QED
  BY <1>2, <1>7, Zenon DEF Base, InOrder, Served, Known, file, transfer

\* The network invents nothing.
LEMMA NetworkBase == ASSUME Base, Lose \/ Copy \/ Reorder PROVE Base'
<1>1. UNCHANGED <<file, transfer, client>>
  BY Zenon DEF Lose, Copy, Reorder
<1>2. Datagrams' = Datagrams /\ Replies' = Replies
  BY <1>1, SameTransfer, Zenon DEF file, transfer
<1>3. toServer \in Seq(Datagrams) /\ toClient \in Seq(Replies) /\ queue \in Seq(Asked)
  BY Zenon DEF Base, Types
<1>4. toServer' \in Seq(Datagrams) /\ toClient' \in Seq(Replies) /\ queue' \in Seq(Asked)
  <2>1. CASE Lose
    BY <2>1, <1>3, TakenIn, Zenon DEF Lose
  <2>2. CASE Copy
    BY <2>2, <1>3, CopyIn, Zenon DEF Copy
  <2>3. CASE Reorder
    BY <2>3, <1>3, SwapIn, Zenon DEF Reorder
  <2> QED BY <2>1, <2>2, <2>3, Zenon
<1>5. Types'
  BY <1>1, <1>2, <1>4, Zenon DEF Base, Types, file, transfer, client
<1> QED
  BY <1>1, <1>5, Zenon DEF Base, InOrder, Served, Known, file, transfer, client

\* Base is kept as long as no number is mistaken.
LEMMA BaseStep == ASSUME Base, Sound, [Next]_vars PROVE Base'
<1>1. CASE UNCHANGED vars
  <2>1. Datagrams' = Datagrams /\ Replies' = Replies
    BY <1>1, SameTransfer, Zenon DEF vars, file, transfer
  <2>2. Types'
    BY <1>1, <2>1, Zenon DEF Base, Types, vars, file, transfer, client
  <2> QED
    BY <1>1, <2>2, Zenon DEF Base, InOrder, Served, Known, vars, file, transfer, client
<1> QED
  BY Zenon, <1>1, RefuseBase, ReceiveBase, DataBase, ReceiverBase, UploadBase, AnswerBase,
     ClientTimeoutBase, NetworkBase DEF Next, Receiver, Client

-----------------------------------------------------------------------------
(* The refinement.                                                         *)

\* A function on 1 .. n is a sequence of length n.
LEMMA FunIsSeq ==
  ASSUME NEW n \in Nat, NEW f \in [1 .. n -> Nat] PROVE f \in Seq(Nat) /\ Len(f) = n
<1>1. f \in Seq(Nat)
  BY SeqDef, Zenon
<1>2. Len(f) \in Nat /\ DOMAIN f = 1 .. Len(f) /\ DOMAIN f = 1 .. n
  BY <1>1, LenProperties, Zenon
<1> QED
  BY <1>1, <1>2, SMTT(30)

\* The sequence 1, ..., n and how it grows.
UpTo(n) == [i \in 1 .. n |-> i]

\* The dump up to block n + 1 is the one up to n and one more block.
LEMMA UpToGrows ==
  ASSUME NEW n \in Nat PROVE UpTo(n + 1) = Append(UpTo(n), n + 1) /\ Len(UpTo(n)) = n
<1>1. UpTo(n) \in [1 .. n -> Nat] /\ UpTo(n + 1) \in [1 .. n + 1 -> Nat]
  BY SMTT(30) DEF UpTo
<1>2. UpTo(n) \in Seq(Nat) /\ Len(UpTo(n)) = n /\ UpTo(n + 1) \in Seq(Nat) /\ Len(UpTo(n + 1)) = n + 1
  BY <1>1, FunIsSeq, SMTT(30)
<1>3. /\ Append(UpTo(n), n + 1) \in Seq(Nat) /\ Len(Append(UpTo(n), n + 1)) = n + 1
      /\ \A i \in 1 .. n : Append(UpTo(n), n + 1)[i] = UpTo(n)[i]
      /\ Append(UpTo(n), n + 1)[n + 1] = n + 1
  BY <1>2, AppendProperties, SMTT(30)
<1>4. \A i \in 1 .. n + 1 : UpTo(n + 1)[i] = Append(UpTo(n), n + 1)[i]
  BY <1>3, SMTT(30) DEF UpTo
<1> QED
  BY <1>2, <1>3, <1>4, SeqEqual, Zenon

\* Every step writes the next block, perhaps the last, or leaves the file alone.
LEMMA Refines ==
  ASSUME Base, Sound, [Next]_vars PROVE [Abstract!Next]_(Abstract!vars)
<1> DEFINE copy == [i \in 1 .. Len(disk) |-> disk[i].blk]
<1>1. Base'
  BY BaseStep, Zenon
<1>2. Len(disk) \in Nat /\ copy = UpTo(Len(disk)) /\ copy' = UpTo(Len(disk'))
  <2>1. copy = UpTo(Len(disk))
    BY Zenon DEF Base, InOrder, UpTo
  <2>2. copy' = UpTo(Len(disk'))
    BY <1>1, Zenon DEF Base, InOrder, UpTo
  <2> QED
    BY <2>1, <2>2, SMTT(30) DEF Base, Types
<1>3. CASE UNCHANGED <<disk, done>>
  BY <1>3, Zenon DEF Abstract!vars
<1>4. CASE Receive
  <2>1. disk = <<>> /\ disk' = <<>> /\ done' = done
    BY <1>4, Zenon DEF Receive, Refused, Exists, Base, Served
  <2> QED
    BY <2>1, Zenon DEF Abstract!vars
<1>5. CASE Data
  <2>1. /\ Len(disk') = Len(disk) + 1 /\ Len(disk') <= N
        /\ done' = done \/ (done' = TRUE /\ Len(disk') = N)
    <3>1. disk' = Append(disk, [up |-> Head(toServer).up, blk |-> Head(toServer).data])
      BY <1>5, Zenon DEF Data
    <3>2. Len(disk') = Len(disk) + 1
      BY <3>1, SMTT(30) DEF Base, Types
    <3>3. done' = done \/ done' = TRUE
      BY <1>5, Zenon DEF Data
    <3> QED
      BY <1>1, <3>2, <3>3, Zenon DEF Base, InOrder, Served
  <2>2. copy' = Append(copy, Len(copy) + 1) /\ Len(copy) = Len(disk)
    BY <1>2, <2>1, UpToGrows, Zenon
  <2>3. UpTo(N) = [i \in 1 .. N |-> i] /\ Len(UpTo(N)) = N /\ N \in Nat
    BY UpToGrows, TftpRecvAssumption, Zenon DEF UpTo
  <2>4. Len(copy) < N /\ UpTo(N)[Len(copy) + 1] = Len(copy) + 1
    BY <1>2, <2>1, <2>2, <2>3, SMTT(30)
  <2>5. done' = done \/ (copy' = UpTo(N) /\ done' = TRUE)
    BY <1>2, <2>1, Zenon
  <2> HIDE DEF copy
  <2>6. Abstract!Extend
    BY <2>2, <2>3, <2>4, <2>5, Zenon DEF Abstract!Extend, copy
  <2> QED
    BY <2>6, Zenon DEF Abstract!Next
<1> QED
  BY <1>3, <1>4, <1>5, Zenon DEF Next, Receiver, Client, Refuse, Duplicate, ClientError, Timeout, Interrupt,
     Closed, Upload, Answer, ClientTimeout, Lose, Copy, Reorder, vars, file

-----------------------------------------------------------------------------
(* Dumps with fewer blocks than there are numbers.                         *)

\* Acknowledgements of no more than n blocks.
AcksUpTo(n) ==
    {m \in [op : {"ACK", "ERROR"}, up : Nat, port : Nat, blk : Nat] : m.op = "ACK" => m.blk <= n}

Short == toClient \in Seq(AcksUpTo(Len(disk)))

\* With fewer blocks than numbers, a number names one block.
LEMMA ShortSound == ASSUME N < W, Base, Short PROVE Sound
<1>1. Len(disk) \in Nat /\ Len(disk) <= N /\ N \in Nat /\ cblk \in 0 .. N /\ W \in Nat
  BY TftpRecvAssumption, SMTT(30) DEF Base, Types, InOrder
<1>2. ASSUME Datagram("DATA"), Expected(Head(toServer)) PROVE Head(toServer).data = expected_block
  <2> DEFINE m == Head(toServer)
  <2>1. m \in Datagrams /\ m.op = "DATA" /\ m.blk = Number(expected_block)
    BY <1>2, SMTT(30) DEF Datagram, Expected, Base, Types
  <2>2. m.blk = Number(m.data) /\ m.data \in 1 .. N
    BY <2>1, Zenon DEF Datagrams
  <2> HIDE DEF m
  <2>3. expected_block \in 1 .. N
    BY <1>1, <1>2, SMTT(30) DEF Datagram, Base, Served
  <2>4. Number(m.data) = m.data /\ Number(expected_block) = expected_block
    BY <1>1, <2>2, <2>3, NumberSmall, SMTT(30)
  <2> QED
    BY <2>1, <2>2, <2>4, Zenon DEF m
<1>3. ASSUME toClient # <<>>, Head(toClient).op = "ACK", Head(toClient).blk = Number(cblk)
      PROVE cblk <= Len(disk)
  <2>1. Head(toClient) \in AcksUpTo(Len(disk))
    BY <1>3, SMTT(30) DEF Short
  <2>2. Head(toClient).blk <= Len(disk)
    BY <1>3, <2>1, Zenon DEF AcksUpTo
  <2>3. Number(cblk) = cblk
    BY <1>1, NumberSmall, SMTT(30)
  <2> QED
    BY <1>3, <2>2, <2>3, Zenon
<1> QED
  BY <1>2, <1>3, Zenon DEF Sound

\* No acknowledgement is of a block the file lacks, in whatever order they arrive.
LEMMA ShortStep == ASSUME N < W, Base, Short, [Next]_vars PROVE Short'
<1>0. Base'
  BY ShortSound, BaseStep, Zenon
<1>1. Len(disk) \in Nat /\ Len(disk) <= N /\ N \in Nat /\ W \in Nat
  BY TftpRecvAssumption, SMTT(30) DEF Base, Types, InOrder
<1>2. ASSUME NEW b \in Nat, NEW u \in Nat, NEW p \in Nat, NEW n \in Nat
      PROVE Reply("ERROR", u, p, b) \in AcksUpTo(n) /\ (b <= n => Reply("ACK", u, p, b) \in AcksUpTo(n))
  BY Zenon DEF Reply, AcksUpTo
<1> DEFINE A == AcksUpTo(Len(disk))
<1>a. toClient \in Seq(A)
  BY Zenon DEF Short
<1>b. ASSUME disk' = disk, toClient' \in Seq(A) PROVE Short'
  BY <1>b, Zenon DEF Short
<1> HIDE DEF A
<1>3. ASSUME disk' = disk, toClient' = toClient \/ (toClient # <<>> /\ toClient' = Tail(toClient))
      PROVE Short'
  BY <1>3, <1>a, <1>b, TakenIn, Zenon
<1>4. CASE Refuse
  <2> DEFINE r == Reply("ERROR", Head(queue).up, port + 1, 0)
  <2>1. Head(queue) \in Asked
    BY <1>4, SMTT(30) DEF Refuse, Base, Types
  <2>2. r \in A
    <3>1. Head(queue).up \in Nat /\ port + 1 \in Nat /\ 0 <= Len(disk)
      BY <1>1, <2>1, SMTT(30) DEF Base, Types, Asked
    <3> QED BY <1>1, <1>2, <3>1, Zenon DEF A
  <2>3. toClient' = toClient \/ toClient' = Append(toClient, r)
    BY <1>4, Zenon DEF Refuse
  <2>4. disk' = disk
    BY <1>4, Zenon DEF Refuse, file
  <2> HIDE DEF r
  <2> QED
    BY <2>2, <2>3, <2>4, <1>a, <1>b, SentIn, Zenon
<1>5. CASE Receive
  <2> DEFINE r == Reply("ACK", Head(queue).up, port + 1, 0)
  <2>1. Head(queue) \in Asked /\ disk = <<>> /\ disk' = <<>> /\ Len(disk) = 0
    BY <1>5, SMTT(30) DEF Receive, Base, Types, Served, Refused, Exists
  <2>2. r \in A
    <3>1. Head(queue).up \in Nat /\ port + 1 \in Nat /\ 0 <= Len(disk)
      BY <1>1, <2>1, SMTT(30) DEF Base, Types, Asked
    <3> QED BY <1>1, <1>2, <3>1, Zenon DEF A
  <2>3. toClient' = Append(toClient, r)
    BY <1>5, Zenon DEF Receive
  <2> HIDE DEF r
  <2> QED
    BY <2>1, <2>2, <2>3, <1>a, <1>b, SentIn, Zenon
<1>6. CASE Data
  <2> DEFINE r == Reply("ACK", peer, port, Head(toServer).blk)
  <2>1. toClient' = Append(toClient, r) /\ pkt' = Head(toServer).blk /\ exists' = exists /\ st = "recv"
    BY <1>6, Zenon DEF Data, Datagram
  <2>2. Len(disk') \in Nat /\ Len(disk) <= Len(disk') /\ Len(disk') <= N
    <3>1. disk' = Append(disk, [up |-> Head(toServer).up, blk |-> Head(toServer).data])
      BY <1>6, Zenon DEF Data
    <3>2. Len(disk') = Len(disk) + 1
      BY <3>1, SMTT(30) DEF Base, Types
    <3> QED BY <1>0, <1>1, <3>2, SMTT(30) DEF Base, InOrder
  <2>3. pkt' = Number(Len(disk')) /\ pkt' \in Nat
    BY <1>0, <2>1, Zenon DEF Base, Served, Types
  <2>4. Number(Len(disk')) = Len(disk')
    BY <1>1, <2>2, NumberSmall, TftpRecvAssumption, SMTT(30)
  <2>5. r \in AcksUpTo(Len(disk'))
    BY <1>2, <2>1, <2>2, <2>3, <2>4, SMTT(30) DEF Base, Types
  <2>6. AcksUpTo(Len(disk)) \subseteq AcksUpTo(Len(disk'))
    BY <1>1, <2>2, SMTT(30) DEF AcksUpTo
  <2> HIDE DEF r
  <2>7. toClient \in Seq(AcksUpTo(Len(disk')))
    BY <2>6, SeqMonotonic, Zenon DEF Short
  <2> QED
    BY <2>1, <2>5, <2>7, SentIn, Zenon DEF Short
<1>7. CASE Duplicate \/ Timeout
  <2> DEFINE r == Reply("ACK", peer, port, pkt)
  <2>1. disk' = disk /\ st = "recv" /\ (toClient' = toClient \/ toClient' = Append(toClient, r))
    BY <1>7, Zenon DEF Duplicate, Timeout, Datagram, file
  <2>2. pkt = Number(Len(disk)) /\ Number(Len(disk)) = Len(disk)
    BY <1>1, <2>1, NumberSmall, TftpRecvAssumption, SMTT(30) DEF Base, Served, Types
  <2>3. r \in A
    BY <1>1, <1>2, <2>2, SMTT(30) DEF Base, Types, A
  <2> HIDE DEF r
  <2> QED
    BY <2>1, <2>3, <1>a, <1>b, SentIn, Zenon
<1>8. CASE Copy
  <2>1. /\ disk' = disk
        /\ toClient' = toClient \/ (toClient # <<>> /\ toClient' = <<Head(toClient)>> \o toClient)
    BY <1>8, Zenon DEF Copy, file
  <2> QED
    BY <2>1, <1>a, <1>b, CopyIn, Zenon
<1>9. CASE Reorder
  <2>1. disk' = disk /\ (toClient' = toClient \/ (Len(toClient) > 1 /\ toClient' = Swap(toClient)))
    BY <1>9, Zenon DEF Reorder, file
  <2> QED
    BY <2>1, <1>a, <1>b, SwapIn, Zenon
<1> QED
  BY <1>3, <1>4, <1>5, <1>6, <1>7, <1>8, <1>9, Zenon DEF Next, Receiver, Client, ClientError, Interrupt,
     Closed, Upload, Answer, ClientTimeout, Lose, vars, file, Listen

-----------------------------------------------------------------------------
(* A network that keeps the order: block numbers may wrap.                 *)

\* The blocks in s are between lo and hi and in order.
Sends(s, lo, hi) ==
    \A i \in 1 .. Len(s) : s[i].op = "DATA" =>
        /\ lo <= s[i].data /\ s[i].data <= hi
        /\ \A j \in 1 .. Len(s) : i <= j /\ s[j].op = "DATA" => s[i].data <= s[j].data

\* The numbers acknowledged in s are old and new, no new one before an old one.
Acks(s, old, new) ==
    \A i \in 1 .. Len(s) : s[i].op = "ACK" =>
        /\ s[i].blk \in {old, new}
        /\ s[i].blk = new =>
             \A j \in 1 .. Len(s) : i <= j /\ s[j].op = "ACK" => s[j].blk = new

\* t has datagrams of s, none before one that comes earlier in s.
Drawn(t, s) ==
    \E f \in [1 .. Len(t) -> 1 .. Len(s)] :
        /\ \A i \in 1 .. Len(t) : t[i] = s[f[i]]
        /\ \A i, j \in 1 .. Len(t) : i <= j => f[i] <= f[j]

\* The client that was served, while it takes acknowledgements.
Active == exists /\ up = peer /\ cst \in {"ask", "send"}

\* The number before that of the block the client sends.
Before == IF cblk = 0 THEN Number(0) ELSE Number(cblk - 1)

\* No request comes from a client of the future, and a client counts from 0.
Asking ==
    /\ swaps \in Nat /\ peer <= up
    /\ queue \in Seq([up : 0 .. up, request : Requests \cup {"none"}])
    /\ cst = "ask" => cblk = 0

\* The receiver is sent its last block and the next one only.
Sent == Sends(toServer, Len(disk), Len(disk) + 1)

\* Receiver and client are at most one block apart, and so is what is on its way
\* between them.
Close ==
    Active => /\ cblk \in {Len(disk), Len(disk) + 1}
              /\ Sends(toServer, Len(disk), cblk)
              /\ Acks(toClient, Before, Number(Len(disk)))

Order == Asking /\ Sent /\ Close

\* A channel that does not change is drawn from itself.
LEMMA DrawnSame == ASSUME NEW S, NEW s \in Seq(S) PROVE Drawn(s, s)
<1> DEFINE f == [i \in 1 .. Len(s) |-> i]
<1>1. f \in [1 .. Len(s) -> 1 .. Len(s)] /\ Len(s) \in Nat
  BY SMTT(30)
<1> QED
  BY <1>1, Zenon DEF Drawn

\* A channel that loses its first datagram is drawn from what it was.
LEMMA DrawnTail == ASSUME NEW S, NEW s \in Seq(S), s # <<>> PROVE Drawn(Tail(s), s)
<1> DEFINE t == Tail(s)
<1> DEFINE f == [i \in 1 .. Len(t) |-> i + 1]
<1>1. Len(s) \in Nat /\ Len(t) = Len(s) - 1 /\ Len(t) \in Nat /\ \A i \in 1 .. Len(t) : t[i] = s[i + 1]
  BY HeadTailProperties, SMTT(30)
<1> HIDE DEF t
<1>2. f \in [1 .. Len(t) -> 1 .. Len(s)]
  BY <1>1, SMTT(30)
<1>3. \A i \in 1 .. Len(t) : t[i] = s[f[i]]
  BY <1>1, Zenon
<1>4. \A i, j \in 1 .. Len(t) : i <= j => f[i] <= f[j]
  BY <1>1, SMTT(30)
<1> HIDE DEF f
<1>5. Drawn(t, s)
  BY <1>2, <1>3, <1>4, Zenon DEF Drawn
<1> QED
  BY <1>5, Zenon DEF t

\* A channel whose first datagram is duplicated is drawn from what it was.
LEMMA DrawnCopy == ASSUME NEW S, NEW s \in Seq(S), s # <<>> PROVE Drawn(<<Head(s)>> \o s, s)
<1> DEFINE t == <<Head(s)>> \o s
<1> DEFINE f == [i \in 1 .. Len(t) |-> IF i = 1 THEN 1 ELSE i - 1]
<1>1. Len(s) \in Nat /\ Len(s) > 0 /\ Len(t) = Len(s) + 1
      /\ \A i \in 1 .. Len(t) : t[i] = IF i = 1 THEN s[1] ELSE s[i - 1]
  BY SMTT(30)
<1> HIDE DEF t
<1>2. f \in [1 .. Len(t) -> 1 .. Len(s)]
  BY <1>1, SMTT(30)
<1>3. \A i \in 1 .. Len(t) : t[i] = s[f[i]]
  BY <1>1, Zenon
<1>4. \A i, j \in 1 .. Len(t) : i <= j => f[i] <= f[j]
  BY <1>1, SMTT(30)
<1> HIDE DEF f
<1>5. Drawn(t, s)
  BY <1>2, <1>3, <1>4, Zenon DEF Drawn
<1> QED
  BY <1>5, Zenon DEF t

\* Losing and duplicating keep both orders.
LEMMA DrawnSends ==
  ASSUME NEW s, NEW t, Drawn(t, s), NEW lo, NEW hi, Sends(s, lo, hi) PROVE Sends(t, lo, hi)
<1>1. PICK f \in [1 .. Len(t) -> 1 .. Len(s)] :
        /\ \A i \in 1 .. Len(t) : t[i] = s[f[i]]
        /\ \A i, j \in 1 .. Len(t) : i <= j => f[i] <= f[j]
  BY Zenon DEF Drawn
<1>2. \A i \in 1 .. Len(t) : f[i] \in 1 .. Len(s)
  BY <1>1, Zenon
<1> SUFFICES ASSUME NEW i \in 1 .. Len(t), t[i].op = "DATA"
             PROVE  /\ lo <= t[i].data /\ t[i].data <= hi
                    /\ \A j \in 1 .. Len(t) : i <= j /\ t[j].op = "DATA" => t[i].data <= t[j].data
  BY Zenon DEF Sends
<1>3. t[i] = s[f[i]] /\ f[i] \in 1 .. Len(s)
  BY <1>1, <1>2, Zenon
<1>4. lo <= t[i].data /\ t[i].data <= hi
  BY <1>3, Zenon DEF Sends
<1>5. ASSUME NEW j \in 1 .. Len(t), i <= j, t[j].op = "DATA" PROVE t[i].data <= t[j].data
  <2>1. t[j] = s[f[j]] /\ f[j] \in 1 .. Len(s) /\ f[i] <= f[j]
    BY <1>1, <1>2, <1>5, Zenon
  <2> QED
    BY <1>3, <1>5, <2>1, Zenon DEF Sends
<1> QED
  BY <1>4, <1>5, Zenon

\* What is drawn from acknowledgements in order is in order.
LEMMA DrawnAcks ==
  ASSUME NEW s, NEW t, Drawn(t, s), NEW old, NEW new, Acks(s, old, new) PROVE Acks(t, old, new)
<1>1. PICK f \in [1 .. Len(t) -> 1 .. Len(s)] :
        /\ \A i \in 1 .. Len(t) : t[i] = s[f[i]]
        /\ \A i, j \in 1 .. Len(t) : i <= j => f[i] <= f[j]
  BY Zenon DEF Drawn
<1>2. \A i \in 1 .. Len(t) : f[i] \in 1 .. Len(s)
  BY <1>1, Zenon
<1> SUFFICES ASSUME NEW i \in 1 .. Len(t), t[i].op = "ACK"
             PROVE  /\ t[i].blk \in {old, new}
                    /\ \A j \in 1 .. Len(t) :
                         t[i].blk = new /\ i <= j /\ t[j].op = "ACK" => t[j].blk = new
  BY Zenon DEF Acks
<1>3. t[i] = s[f[i]] /\ f[i] \in 1 .. Len(s)
  BY <1>1, <1>2, Zenon
<1>4. t[i].blk \in {old, new}
  BY <1>3, Zenon DEF Acks
<1>5. ASSUME NEW j \in 1 .. Len(t), t[i].blk = new, i <= j, t[j].op = "ACK" PROVE t[j].blk = new
  <2>1. t[j] = s[f[j]] /\ f[j] \in 1 .. Len(s) /\ f[i] <= f[j]
    BY <1>1, <1>2, <1>5, Zenon
  <2> QED
    BY <1>3, <1>5, <2>1, Zenon DEF Acks
<1> QED
  BY <1>4, <1>5, Zenon

\* What is sent last goes to the end.
LEMMA AppendSends ==
  ASSUME NEW S, NEW s \in Seq(S), NEW e \in S, NEW lo \in Nat, NEW hi \in Nat, NEW h \in Nat,
         \A i \in 1 .. Len(s) : s[i].data \in Nat,
         Sends(s, lo, hi), lo <= h, hi <= h, e.op = "DATA" => e.data = h
  PROVE  Sends(Append(s, e), lo, h)
<1> DEFINE t == Append(s, e)
<1>1. /\ Len(s) \in Nat /\ Len(t) = Len(s) + 1 /\ t[Len(s) + 1] = e
      /\ \A i \in 1 .. Len(s) : t[i] = s[i]
  BY AppendProperties, SMTT(30)
<1> HIDE DEF t
<1>2. \A i \in 1 .. Len(s) : s[i].op = "DATA" => lo <= s[i].data /\ s[i].data <= h
  BY SMTT(30) DEF Sends
<1>3. \A i \in 1 .. Len(t) : i \in 1 .. Len(s) \/ i = Len(s) + 1
  BY <1>1, SMTT(30)
<1>4. Sends(t, lo, h)
  BY <1>1, <1>2, <1>3, SMTT(30) DEF Sends
<1> QED
  BY <1>4, Zenon DEF t

\* An acknowledgement of the newest block keeps acknowledgements in order.
LEMMA AppendAcks ==
  ASSUME NEW S, NEW s \in Seq(S), NEW e \in S, NEW old, NEW new,
         Acks(s, old, new), e.op = "ACK" => e.blk = new
  PROVE  Acks(Append(s, e), old, new)
<1> DEFINE t == Append(s, e)
<1>1. /\ Len(s) \in Nat /\ Len(t) = Len(s) + 1 /\ t[Len(s) + 1] = e
      /\ \A i \in 1 .. Len(s) : t[i] = s[i]
  BY AppendProperties, SMTT(30)
<1> HIDE DEF t
<1>2. \A i \in 1 .. Len(t) : i \in 1 .. Len(s) \/ i = Len(s) + 1
  BY <1>1, SMTT(30)
<1>3. Acks(t, old, new)
  BY <1>1, <1>2, SMTT(30) DEF Acks
<1> QED
  BY <1>3, Zenon DEF t

\* Once the first datagram is the newer block, or number, the rest is too.
LEMMA TakeSends ==
  ASSUME NEW S, NEW s \in Seq(S), s # <<>>, NEW lo, NEW hi, Sends(s, lo, hi), Head(s).op = "DATA"
  PROVE  Sends(Tail(s), Head(s).data, hi)
<1> DEFINE t == Tail(s)
<1>1. Len(s) \in Nat /\ Len(s) > 0 /\ Len(t) = Len(s) - 1 /\ Head(s) = s[1]
      /\ \A i \in 1 .. Len(t) : t[i] = s[i + 1] /\ i + 1 \in 1 .. Len(s)
  BY HeadTailProperties, SMTT(30)
<1> HIDE DEF t
<1>2. ASSUME NEW i \in 1 .. Len(t), t[i].op = "DATA"
      PROVE  /\ s[1].data <= t[i].data /\ t[i].data <= hi
             /\ \A j \in 1 .. Len(t) : i <= j /\ t[j].op = "DATA" => t[i].data <= t[j].data
  <2>1. t[i] = s[i + 1] /\ i + 1 \in 1 .. Len(s) /\ 1 \in 1 .. Len(s) /\ 1 <= i + 1
    BY <1>1, SMTT(30)
  <2>2. s[1].data <= t[i].data /\ t[i].data <= hi
    BY <1>1, <1>2, <2>1, Zenon DEF Sends
  <2>3. ASSUME NEW j \in 1 .. Len(t), i <= j, t[j].op = "DATA" PROVE t[i].data <= t[j].data
    <3>1. t[j] = s[j + 1] /\ j + 1 \in 1 .. Len(s) /\ i + 1 <= j + 1
      BY <1>1, <2>3, SMTT(30)
    <3> QED
      BY <1>2, <2>1, <2>3, <3>1, Zenon DEF Sends
  <2> QED
    BY <2>2, <2>3, Zenon
<1>3. Sends(t, s[1].data, hi)
  BY <1>2, Zenon DEF Sends
<1> QED
  BY <1>1, <1>3, Zenon DEF t

\* Once the newer number is at the front, the older one has left the channel.
LEMMA TakeAcks ==
  ASSUME NEW S, NEW s \in Seq(S), s # <<>>, NEW old, NEW new, Acks(s, old, new),
         Head(s).op = "ACK", Head(s).blk = new
  PROVE  Acks(Tail(s), new, new)
<1> DEFINE t == Tail(s)
<1>1. Len(s) \in Nat /\ Len(s) > 0 /\ Len(t) = Len(s) - 1 /\ Head(s) = s[1]
      /\ \A i \in 1 .. Len(t) : t[i] = s[i + 1] /\ i + 1 \in 1 .. Len(s)
  BY HeadTailProperties, SMTT(30)
<1> HIDE DEF t
<1>2. Acks(t, new, new)
  BY <1>1, SMTT(30) DEF Acks
<1> QED
  BY <1>2, Zenon DEF t

\* In order, the datagram at the front is about the current block or the one before.
LEMMA OrderSound == ASSUME Base, Order PROVE Sound
<1>1. Len(disk) \in Nat /\ cblk \in Nat
  BY SMTT(30) DEF Base, Types
<1>2. Number(Len(disk) + 1) # Number(Len(disk))
  BY <1>1, NumberNext, Zenon
<1>3. ASSUME Datagram("DATA"), Expected(Head(toServer)) PROVE Head(toServer).data = expected_block
  <2> DEFINE m == Head(toServer)
  <2>1. m \in Datagrams /\ m.op = "DATA" /\ m.blk = Number(expected_block) /\ m = toServer[1]
        /\ 1 \in 1 .. Len(toServer)
    BY <1>3, SMTT(30) DEF Datagram, Expected, Base, Types
  <2>2. m.blk = Number(m.data) /\ m.data \in Nat
    BY <2>1, Zenon DEF Datagrams
  <2>3. Len(disk) <= m.data /\ m.data <= Len(disk) + 1
    BY <2>1, Zenon DEF Order, Sent, Sends
  <2> HIDE DEF m
  <2>4. expected_block = Len(disk) + 1
    BY <1>3, Zenon DEF Datagram, Base, Served, Types
  <2>5. m.data = Len(disk) \/ m.data = Len(disk) + 1
    BY <1>1, <2>2, <2>3, SMTT(30)
  <2> QED
    BY <1>2, <2>1, <2>2, <2>4, <2>5, Zenon DEF m
<1>4. ASSUME toClient # <<>>, Head(toClient).op = "ACK", Head(toClient).up = up,
             cst \in {"ask", "send"}, Head(toClient).blk = Number(cblk)
      PROVE cblk <= Len(disk)
  <2>1. Head(toClient) \in Replies /\ Head(toClient) = toClient[1] /\ 1 \in 1 .. Len(toClient)
    BY <1>4, SMTT(30) DEF Base, Types
  <2>2. Active
    BY <1>4, <2>1, Zenon DEF Replies, Active
  <2>3. Head(toClient).blk \in {Before, Number(Len(disk))} /\ cblk \in {Len(disk), Len(disk) + 1}
    BY <1>4, <2>1, <2>2, Zenon DEF Order, Close, Acks
  <2>4. CASE cblk = Len(disk) + 1
    <3>1. Before = Number(Len(disk))
      BY <1>1, <2>4, SMTT(30) DEF Before
    <3> QED
      BY <1>2, <1>4, <2>3, <2>4, <3>1, Zenon
  <2> QED
    BY <1>1, <2>3, <2>4, SMTT(30)
<1> QED
  BY <1>3, <1>4, Zenon DEF Sound

\* Datagrams that are lost, doubled or ignored, and a client that ends.
LEMMA DrawnOrder ==
  ASSUME Base, Order, UNCHANGED <<exists, disk, peer, up, cblk>>,
         cst' = cst \/ cst' \in {"done", "failed"}, Drawn(toServer', toServer), Drawn(toClient', toClient)
  PROVE  Sent' /\ Close'
<1>1. Sent'
  BY DrawnSends, Zenon DEF Order, Sent
<1>2. Active' => Active
  BY Zenon DEF Active
<1>3. Before' = Before
  BY Zenon DEF Before, Number
<1>4. ASSUME Active PROVE /\ Sends(toServer', Len(disk), cblk)
                          /\ Acks(toClient', Before, Number(Len(disk)))
                          /\ cblk \in {Len(disk), Len(disk) + 1}
  BY <1>4, DrawnSends, DrawnAcks, Zenon DEF Order, Close
<1>5. Number(Len(disk))' = Number(Len(disk))
  BY Zenon DEF Number
<1> QED
  BY <1>1, <1>2, <1>3, <1>4, <1>5, Zenon DEF Close

\* The receiver answers: with an error, or with its last acknowledgement.
LEMMA ReplyOrder ==
  ASSUME Base, Order, UNCHANGED <<exists, disk, peer, up, cblk, cst>>, Drawn(toServer', toServer),
         NEW e \in Replies, toClient' = Append(toClient, e), e.op = "ACK" => e.blk = Number(Len(disk))
  PROVE  Sent' /\ Close'
<1>1. Sent'
  BY DrawnSends, Zenon DEF Order, Sent
<1>2. Active' = Active
  BY Zenon DEF Active
<1>3. Before' = Before
  BY Zenon DEF Before, Number
<1>4. ASSUME Active PROVE /\ Sends(toServer', Len(disk), cblk)
                          /\ Acks(toClient', Before, Number(Len(disk)))
                          /\ cblk \in {Len(disk), Len(disk) + 1}
  <2>1. toClient \in Seq(Replies)
    BY Zenon DEF Base, Types
  <2>2. Acks(toClient', Before, Number(Len(disk)))
    BY <1>4, <2>1, AppendAcks, Zenon DEF Order, Close
  <2> QED
    BY <1>4, <2>2, DrawnSends, Zenon DEF Order, Close
<1>5. Number(Len(disk))' = Number(Len(disk))
  BY Zenon DEF Number
<1> QED
  BY <1>1, <1>2, <1>3, <1>4, <1>5, Zenon DEF Close

\* The transfer begins: nothing but errors is on its way.
LEMMA ReceiveOrder == ASSUME Base, Order, Receive PROVE Sent' /\ Close'
<1>1. ~exists /\ disk' = <<>> /\ Len(disk') = 0
  BY Zenon DEF Receive, Refused, Exists
<1>2. \A i \in 1 .. Len(toServer) : toServer[i].op # "DATA"
  BY <1>1, ElementOfSeq, SMTT(30) DEF Base, Types, Datagrams
<1>3. \A i \in 1 .. Len(toClient) : toClient[i].op # "ACK"
  BY <1>1, ElementOfSeq, SMTT(30) DEF Base, Types, Replies
<1>4. \A lo, hi : Sends(toServer, lo, hi)
  BY <1>2, Zenon DEF Sends
<1> DEFINE e == Reply("ACK", Head(queue).up, port + 1, 0)
<1>5. toServer' = toServer /\ toClient' = Append(toClient, e) /\ cblk' = cblk /\ cst' = cst
  BY Zenon DEF Receive, client
<1>6. e.op = "ACK" /\ e.blk = 0 /\ Number(0) = 0
  BY TftpRecvAssumption, SMTT(30) DEF Reply, Number
<1> HIDE DEF e
<1>7. Acks(toClient, 0, 0)
  BY <1>3, Zenon DEF Acks
<1>8. Acks(Append(toClient, e), 0, 0)
  <2>1. toClient \in Seq(Replies \cup {e})
    BY SeqMonotonic, Zenon DEF Base, Types
  <2> QED
    BY <1>6, <1>7, <2>1, AppendAcks, Zenon
<1>9. Sent'
  BY <1>4, <1>5, Zenon DEF Sent
<1>10. Active' => cblk = 0
  BY <1>1, <1>5, Zenon DEF Active, Base, Served, Order, Asking
<1>11. ASSUME Active' PROVE Before' = 0 /\ Number(Len(disk))' = 0
  BY <1>1, <1>5, <1>6, <1>10, <1>11, Zenon DEF Before, Number
<1>12. Close'
  BY <1>1, <1>4, <1>5, <1>8, <1>10, <1>11, Zenon DEF Close
<1> QED
  BY <1>9, <1>12, Zenon

\* The next block is written: all that follows it in the channel is the same
\* block, and its acknowledgement is the first of a new number.
LEMMA DataOrder == ASSUME Base, Order, Data PROVE Sent' /\ Close'
<1> DEFINE m == Head(toServer)
<1> DEFINE L == Len(disk)
<1>1. m \in Datagrams /\ m.op = "DATA" /\ toServer # <<>> /\ toServer \in Seq(Datagrams)
      /\ toClient \in Seq(Replies) /\ st = "recv" /\ m = toServer[1] /\ 1 \in 1 .. Len(toServer)
  BY SMTT(30) DEF Data, Datagram, Base, Types
<1>2. m.data = L + 1 /\ L \in Nat /\ expected_block = L + 1 /\ exists /\ cblk \in Nat
  BY OrderSound, SMTT(30) DEF Sound, Data, Base, Served, Types, Datagram
<1>3. Len(disk') = L + 1
  <2>1. disk' = Append(disk, [up |-> m.up, blk |-> m.data])
    BY Zenon DEF Data
  <2> QED BY <2>1, SMTT(30) DEF Base, Types
<1> DEFINE e == Reply("ACK", peer, port, m.blk)
<1>4. toServer' = Tail(toServer) /\ toClient' = Append(toClient, e)
      /\ UNCHANGED <<cblk, cst, up, peer, exists>>
  BY Zenon DEF Data, client
<1>5. m.blk = Number(L + 1) /\ m.blk \in Nat
  BY <1>1, <1>2, Zenon DEF Datagrams
<1>6. e \in Replies /\ e.blk = Number(L + 1)
  BY <1>2, <1>5, Zenon DEF Base, Types, Reply, Replies
<1>7. Sends(toServer', L + 1, L + 1)
  <2>1. Sends(Tail(toServer), m.data, L + 1)
    BY <1>1, TakeSends, Zenon DEF Order, Sent
  <2> QED BY <1>2, <1>4, <2>1, Zenon
<1> HIDE DEF m, e
<1>8. Sends(toServer', L + 1, (L + 1) + 1)
  <2>1. \A i \in 1 .. Len(toServer') : toServer'[i].data \in Nat
    <3>1. toServer' \in Seq(Datagrams)
      BY <1>1, <1>4, SMTT(30)
    <3> QED BY <3>1, ElementOfSeq, SMTT(30) DEF Datagrams
  <2> HIDE DEF L
  <2> QED
    BY <1>2, <1>7, <2>1, SMTT(30) DEF Sends
<1>9. Sent'
  BY <1>3, <1>8, Zenon DEF Sent
<1>10. ASSUME Active' PROVE cblk = L + 1 /\ Before = Number(L)
                             /\ Acks(toClient, Number(L), Number(L))
  <2>1. Active
    BY <1>4, <1>10, Zenon DEF Active
  <2>2. cblk \in {L, L + 1} /\ Sends(toServer, L, cblk) /\ Acks(toClient, Before, Number(L))
    BY <2>1, Zenon DEF Order, Close
  <2>3. m.data <= cblk
    BY <1>1, <2>2, Zenon DEF Sends, m
  <2>4. cblk = L + 1
    BY <1>2, <2>2, <2>3, SMTT(30)
  <2>5. Before = Number(L)
    BY <1>2, <2>4, SMTT(30) DEF Before
  <2> QED
    BY <2>2, <2>4, <2>5, Zenon
<1>11. ASSUME Active' PROVE Acks(toClient', Number(L), Number(L + 1))
  <2>1. Number(L) # Number(L + 1)
    BY <1>2, NumberNext, Zenon
  <2>2. Acks(toClient, Number(L), Number(L))
    BY <1>10, <1>11, Zenon
  <2>3. Acks(toClient, Number(L), Number(L + 1))
    BY <2>1, <2>2, Zenon DEF Acks
  <2> QED
    BY <1>1, <1>4, <1>6, <2>3, AppendAcks, Zenon
<1>12. Before' = Before /\ Number(Len(disk))' = Number(L + 1)
  BY <1>3, <1>4, Zenon DEF Before, Number
<1>13. Close'
  BY <1>3, <1>4, <1>7, <1>10, <1>11, <1>12, Zenon DEF Close
<1> QED
  BY <1>9, <1>13, Zenon

\* The client takes an acknowledgement and sends the next block.
LEMMA AnswerOrder == ASSUME Base, Order, Answer PROVE Sent' /\ Close'
<1> DEFINE m == Head(toClient)
<1> DEFINE L == Len(disk)
<1> DEFINE acked == m.up = up /\ cst \in {"ask", "send"} /\ m.op = "ACK" /\ m.blk = Number(cblk)
<1> DEFINE d == [Block(cblk + 1) EXCEPT !.port = m.port]
<1>1. toServer \in Seq(Datagrams) /\ toClient \in Seq(Replies) /\ L \in Nat /\ cblk \in Nat
  BY SMTT(30) DEF Base, Types
<1>2. toClient # <<>> /\ toClient' = Tail(toClient) /\ UNCHANGED <<exists, disk, peer, up>>
      /\ m \in Replies
  BY <1>1, SMTT(30) DEF Answer, file, transfer
<1>3. Drawn(toClient', toClient)
  BY <1>1, <1>2, DrawnTail, Zenon
<1>4. CASE UNCHANGED <<toServer, cblk>> /\ (cst' = cst \/ cst' \in {"done", "failed"})
  BY <1>1, <1>2, <1>3, <1>4, DrawnSame, DrawnOrder, Zenon
<1>5. CASE acked /\ cblk < N /\ cblk' = cblk + 1 /\ cst' = "send" /\ toServer' = Append(toServer, d)
  <2>1. Active /\ cblk <= L
    BY <1>2, <1>5, OrderSound, Zenon DEF Sound, Replies, Active
  <2>2. cblk = L /\ Sends(toServer, L, cblk) /\ Acks(toClient, Before, Number(L))
    BY <1>1, <2>1, SMTT(30) DEF Order, Close
  <2>3. d \in Datagrams /\ d.data = L + 1
    <3>1. cblk + 1 \in 1 .. N /\ m.port \in Nat
      BY <1>1, <1>2, <1>5, TftpRecvAssumption, SMTT(30) DEF Replies
    <3> QED BY <2>1, <2>2, <3>1, BlockIn, Zenon DEF Base, Active, Block
  <2>4. Acks(toClient', Number(L), Number(L))
    BY <1>1, <1>2, <1>5, <2>2, TakeAcks, Zenon
  <2>5. \A i \in 1 .. Len(toServer) : toServer[i].data \in Nat
    BY <1>1, ElementOfSeq, SMTT(30) DEF Datagrams
  <2> HIDE DEF d, L, m
  <2>6. Sends(toServer', L, L + 1)
    BY <1>1, <1>5, <2>2, <2>3, <2>5, AppendSends, SMTT(30)
  <2>7. Before' = Number(L) /\ Number(Len(disk))' = Number(L) /\ Len(disk)' = L /\ cblk' = L + 1
    BY <1>1, <1>2, <1>5, <2>2, SMTT(30) DEF Before, Number, L
  <2> QED
    BY <2>4, <2>6, <2>7, Zenon DEF Sent, Close
<1> QED
  BY <1>4, <1>5, Zenon DEF Answer

\* The client repeats its block, which is the last in the channel.
LEMMA ClientTimeoutOrder ==
  ASSUME Base, Order, NEW says \in BOOLEAN, ClientTimeout(says) PROVE Sent' /\ Close'
<1> DEFINE L == Len(disk)
<1> DEFINE b == Block(cblk)
<1> DEFINE e == [b EXCEPT !.op = "ERROR"]
<1>1. toServer \in Seq(Datagrams) /\ toClient \in Seq(Replies) /\ L \in Nat /\ cblk \in Nat
  BY SMTT(30) DEF Base, Types
<1>2. /\ UNCHANGED <<exists, disk, peer, up, cblk, toClient>>
      /\ cst' = cst \/ cst' = "failed"
      /\ \/ toServer' = toServer
         \/ cst = "send" /\ cst' = cst /\ toServer' = Append(toServer, b)
         \/ cst = "send" /\ cst' = "failed" /\ toServer' = Append(toServer, e)
  BY Zenon DEF ClientTimeout, file, transfer
<1>3. CASE toServer' = toServer
  BY <1>1, <1>2, <1>3, DrawnSame, DrawnOrder, Zenon
<1> SUFFICES ASSUME cst = "send", NEW x, x = b \/ (x = e /\ cst' = "failed"), toServer' = Append(toServer, x)
             PROVE Sent' /\ Close'
  BY <1>2, <1>3, Zenon
<1> HIDE DEF e
<1>4. Active /\ cblk \in 1 .. N
  <2>1. cblk \in 1 .. N
    BY TftpRecvAssumption, SMTT(30) DEF Base, Types, Known
  <2> QED
    BY <2>1, Zenon DEF Base, Types, Known, Served, Active
<1>5. x \in Datagrams /\ (x.op = "DATA" => x.data = cblk)
  <2>1. b \in Datagrams /\ b.data = cblk
    BY <1>4, BlockIn, Zenon DEF Base, Active, Block
  <2>2. e \in Datagrams
    BY <1>4, BlockIn, Zenon DEF Base, e
  <2>3. e.op = "ERROR"
    BY Zenon DEF e, Block
  <2> QED
    BY <2>1, <2>2, <2>3, Zenon
<1> HIDE DEF b
<1>6. cblk \in {L, L + 1} /\ Sends(toServer, L, cblk) /\ Acks(toClient, Before, Number(L))
  BY <1>4, Zenon DEF Order, Close
<1> HIDE DEF L
<1>7. \A i \in 1 .. Len(toServer) : toServer[i].data \in Nat
  <2> SUFFICES ASSUME NEW i \in 1 .. Len(toServer) PROVE toServer[i].data \in Nat
    BY Zenon
  <2>1. toServer[i] \in Datagrams
    BY <1>1, ElementOfSeq, Zenon
  <2> QED
    BY <2>1, Zenon DEF Datagrams
<1>8. Sends(toServer', L, cblk) /\ Sends(toServer', L, L + 1)
  <2>1. L <= cblk /\ cblk <= L + 1 /\ L + 1 \in Nat
    BY <1>1, <1>6, SMTT(30)
  <2>2. Sends(toServer', L, cblk)
    BY <1>1, <1>5, <1>6, <1>7, <2>1, AppendSends, Zenon
  <2>3. \A i \in 1 .. Len(toServer') : toServer'[i].data \in Nat
    <3>1. toServer' \in Seq(Datagrams)
      BY <1>1, <1>5, SentIn, Zenon
    <3>2. ASSUME NEW i \in 1 .. Len(toServer') PROVE toServer'[i] \in Datagrams
      BY <3>1, ElementOfSeq, Zenon
    <3> QED BY <3>2, Zenon DEF Datagrams
  <2>4. cblk \in Nat
    BY <1>1, Zenon
  <2> QED
    BY <1>1, <2>1, <2>2, <2>3, <2>4, SMTT(30) DEF Sends
<1>9. Before' = Before /\ Number(Len(disk))' = Number(L) /\ Len(disk)' = L
  BY <1>2, Zenon DEF Before, Number, L
<1> QED
  BY <1>2, <1>6, <1>8, <1>9, Zenon DEF Sent, Close

\* Requests come from the clients so far, and a client that still asks is at block 0.
LEMMA AskingStep == ASSUME Base, Order, [Next]_vars PROVE Asking'
<1> DEFINE R == Requests \cup {"none"}
<1> DEFINE Q == [up : 0 .. up, request : R]
<1>1. queue \in Seq(Q) /\ swaps \in Nat /\ peer <= up /\ up \in Nat /\ peer \in Nat /\ request \in R
      /\ (cst = "ask" => cblk = 0)
  BY Zenon DEF Order, Asking, Base, Types
<1>2. swaps' \in Nat
  <2>1. CASE Reorder
    BY <1>1, <2>1, SMTT(30) DEF Reorder
  <2>2. CASE swaps' = swaps
    BY <1>1, <2>2, Zenon
  <2> QED
    BY <2>1, <2>2, Zenon DEF Next, Receiver, Client, Refuse, Receive, Data, Duplicate, ClientError,
       Timeout, Closed, Answer, ClientTimeout, Interrupt, Upload, Lose, Copy, vars, bounds
<1>3. ASSUME up' = up, queue' \in Seq(Q), peer' <= up', cst' = "ask" => cst = "ask" /\ cblk' = cblk
      PROVE Asking'
  BY <1>1, <1>2, <1>3, Zenon DEF Asking
<1>4. ASSUME UNCHANGED <<up, peer, cst, cblk>>,
             queue' = queue \/ (queue # <<>> /\ queue' = Tail(queue)) \/ queue' = <<>>
      PROVE Asking'
  <2> HIDE DEF Q
  <2>1. queue' \in Seq(Q)
    <3>1. CASE queue' = <<>>
      BY <3>1, SMTT(30)
    <3> QED BY <1>1, <1>4, <3>1, TakenIn, Zenon
  <2>2. peer' <= up' /\ (cst' = "ask" => cst = "ask" /\ cblk' = cblk)
    BY <1>1, <1>4, Zenon
  <2> QED
    BY <1>3, <1>4, <2>1, <2>2, Zenon
<1>5. CASE Receive
  <2> HIDE DEF Q
  <2>1. Head(queue) \in Q /\ Tail(queue) \in Seq(Q)
    BY <1>1, <1>5, SMTT(30) DEF Receive
  <2>2. Head(queue).up <= up
    BY <1>1, <2>1, SMTT(30) DEF Q
  <2> QED
    BY <1>3, <1>5, <2>1, <2>2, Zenon DEF Receive, client
<1>6. CASE \E r \in Requests : Upload(r)
  <2> PICK r \in Requests : Upload(r)
    BY <1>6, Zenon
  <2> DEFINE q == [up |-> up + 1, request |-> r]
  <2> DEFINE P == [up : 0 .. up + 1, request : R]
  <2>1. up' = up + 1 /\ peer' = peer /\ queue' = Append(queue, q) /\ cblk' = 0
    BY Zenon DEF Upload, transfer
  <2>2. Q \subseteq P /\ q \in P
    BY <1>1, SMTT(30)
  <2> HIDE DEF Q, P, q
  <2>3. queue' \in Seq(P)
    BY <1>1, <2>1, <2>2, SeqMonotonic, SentIn, Zenon
  <2> QED
    BY <1>1, <1>2, <2>1, <2>3, SMTT(30) DEF Asking, P
<1>7. CASE Answer
  <2>1. UNCHANGED <<up, peer, queue>>
    BY <1>7, Zenon DEF Answer, transfer
  <2>2. cst' = "ask" => cst = "ask" /\ cblk' = cblk
    BY <1>7, Zenon DEF Answer
  <2> QED
    BY <1>1, <1>3, <2>1, <2>2, Zenon
<1>8. CASE \E says \in BOOLEAN : ClientTimeout(says)
  <2> DEFINE q == [up |-> up, request |-> request]
  <2>1. UNCHANGED <<up, peer, cblk>> /\ (queue' = queue \/ queue' = Append(queue, q))
        /\ (cst' = "ask" => cst = "ask")
    BY <1>8, Zenon DEF ClientTimeout, transfer
  <2>2. q \in Q
    BY <1>1, SMTT(30)
  <2> HIDE DEF Q, q
  <2>3. queue' \in Seq(Q)
    BY <1>1, <2>1, <2>2, SentIn, Zenon
  <2> QED
    BY <1>1, <1>3, <2>1, <2>3, Zenon
<1> QED
  BY <1>4, <1>5, <1>6, <1>7, <1>8, Zenon DEF Next, Receiver, Client, Refuse, Data, Duplicate, ClientError,
     Timeout, Interrupt, Closed, Lose, Copy, Reorder, Listen, vars, client, transfer

\* A network that keeps the order of datagrams keeps the two windows in step.
LEMMA OrderStep == ASSUME MaxSwap = 0, Base, Order, [Next]_vars PROVE Order'
<1>1. toServer \in Seq(Datagrams) /\ toClient \in Seq(Replies) /\ Len(disk) \in Nat /\ queue \in Seq(Asked)
  BY SMTT(30) DEF Base, Types
<1>2. Drawn(toServer, toServer) /\ (toServer # <<>> => Drawn(Tail(toServer), toServer))
      /\ Drawn(toClient, toClient)
  BY <1>1, DrawnSame, DrawnTail, Zenon
<1>3. CASE Refuse
  <2> DEFINE e == Reply("ERROR", Head(queue).up, port + 1, 0)
  <2>1. UNCHANGED <<exists, disk, peer, up, cblk, cst, toServer>>
        /\ (toClient' = toClient \/ toClient' = Append(toClient, e))
    BY <1>3, Zenon DEF Refuse, file, client
  <2>2. Head(queue) \in Asked
    BY <1>1, <1>3, SMTT(30) DEF Refuse
  <2>3. e \in Replies /\ e.op = "ERROR"
    <3>1. Head(queue).up \in Nat /\ port + 1 \in Nat
      BY <2>2, SMTT(30) DEF Base, Types, Asked
    <3> QED BY <3>1, ReplyIn, Zenon DEF Reply
  <2> HIDE DEF e
  <2> QED
    BY <1>2, <2>1, <2>3, AskingStep, DrawnOrder, ReplyOrder, Zenon DEF Order
<1>4. CASE Duplicate \/ Timeout
  <2> DEFINE e == Reply("ACK", peer, port, pkt)
  <2>1. UNCHANGED <<exists, disk, peer, up, cblk, cst>> /\ st = "recv"
        /\ (toServer' = toServer \/ (toServer # <<>> /\ toServer' = Tail(toServer)))
        /\ (toClient' = toClient \/ toClient' = Append(toClient, e))
    BY <1>4, Zenon DEF Duplicate, Timeout, Datagram, Listen, file, client
  <2>2. e \in Replies /\ e.op = "ACK" /\ e.blk = Number(Len(disk))
    BY <2>1, ReplyIn, Zenon DEF Base, Types, Served, Reply
  <2> HIDE DEF e
  <2> QED
    BY <1>2, <2>1, <2>2, AskingStep, DrawnOrder, ReplyOrder, Zenon DEF Order
<1>5. CASE ClientError \/ Closed \/ Interrupt \/ UNCHANGED vars
  <2>1. UNCHANGED <<exists, disk, peer, up, cblk, cst, toClient>>
        /\ (toServer' = toServer \/ (toServer # <<>> /\ toServer' = Tail(toServer)))
    BY <1>5, Zenon DEF ClientError, Closed, Interrupt, Datagram, Listen, file, client, transfer, vars
  <2> QED
    BY <1>2, <2>1, AskingStep, DrawnOrder, Zenon DEF Order
<1>6. CASE Lose \/ Copy
  <2>1. UNCHANGED <<exists, disk, peer, up, cblk, cst>>
    BY <1>6, Zenon DEF Lose, Copy, file, client, transfer
  <2>2. Drawn(toServer', toServer)
    BY <1>1, <1>2, <1>6, DrawnTail, DrawnCopy, Zenon DEF Lose, Copy
  <2>3. Drawn(toClient', toClient)
    BY <1>1, <1>2, <1>6, DrawnTail, DrawnCopy, Zenon DEF Lose, Copy
  <2> QED
    BY <2>1, <2>2, <2>3, AskingStep, DrawnOrder, Zenon DEF Order
<1>7. CASE Reorder
  BY <1>7, SMTT(30) DEF Reorder, Order, Asking
<1>8. CASE \E r \in Requests : Upload(r)
  <2>1. UNCHANGED <<disk, peer, toServer>> /\ up' = up + 1
    BY <1>8, Zenon DEF Upload, file, transfer
  <2>2. ~Active'
    BY <2>1, SMTT(30) DEF Active, Order, Asking, Base, Types
  <2>3. Sent'
    BY <2>1, Zenon DEF Order, Sent
  <2> QED
    BY <2>2, <2>3, AskingStep, Zenon DEF Order, Close
<1> QED
  BY Zenon, <1>3, <1>4, <1>5, <1>6, <1>7, <1>8, AskingStep, ReceiveOrder, DataOrder, AnswerOrder,
     ClientTimeoutOrder DEF Order, Next, Receiver, Client

-----------------------------------------------------------------------------
(* The theorems.                                                           *)

\* A dump has fewer blocks than there are numbers, or datagrams keep their order.
Distinguishable == N < W \/ MaxSwap = 0

IInv == Base /\ (N < W => Short) /\ (MaxSwap = 0 => Order)

\* Base and the reason why numbers are not mistaken, in either case, in every state.
LEMMA Invariance == ASSUME Distinguishable PROVE Spec => [](IInv /\ Sound)
<1>1. Init => IInv
  <2> SUFFICES ASSUME Init PROVE IInv
    BY Zenon
  <2>1. Short
    <3>1. <<>> \in Seq(AcksUpTo(Len(disk)))
      BY SMTT(30)
    <3> QED BY <3>1, Zenon DEF Init, Short
  <2>2. Order
    <3>1. Asking
      BY SMTT(30) DEF Init, Asking
    <3>2. Sent /\ Close
      BY SMTT(30) DEF Init, Sent, Close, Sends, Active
    <3> QED BY <3>1, <3>2, Zenon DEF Order
  <2> QED
    BY <2>1, <2>2, InitBase, Zenon DEF IInv
<1>2. IInv => Sound
  BY ShortSound, OrderSound, Zenon DEF IInv, Distinguishable
<1>3. IInv /\ [Next]_vars => IInv'
  BY <1>2, BaseStep, ShortStep, OrderStep, Zenon DEF IInv
<1> QED
  BY <1>1, <1>2, <1>3, PTL DEF Spec

\* The receiver implements FileCopy, if numbers can be told apart: whatever is lost
\* and doubled and however often it is interrupted, recv_file writes the blocks of a
\* dump once and in order to a file that did not exist, logs DONE for all of them
\* only, and never touches the file again.
THEOREM CopiesFileHolds == ASSUME Distinguishable PROVE Spec => CopiesFile
<1>1. Init => Abstract!Init
  BY SMTT(30) DEF Init, Abstract!Init
<1>2. IInv /\ Sound /\ [Next]_vars => [Abstract!Next]_(Abstract!vars)
  BY Refines, Zenon DEF IInv
<1> QED
  BY <1>1, <1>2, Invariance, PTL DEF Spec, CopiesFile, Abstract!Spec

\* If numbers can be told apart, a client whose last block recv_file has acknowledged
\* has its whole dump on the disk, and nothing of another client's.
THEOREM ClientKnowsHolds == ASSUME Distinguishable PROVE Spec => []ClientKnows
<1>1. IInv => ClientKnows
  BY Zenon DEF IInv, Base, Known, InOrder, ClientKnows
<1> QED
  BY <1>1, Invariance, PTL

-----------------------------------------------------------------------------
(* Types.                                                                  *)

\* An answer whose number fits.
Answers == [op : {"ACK", "ERROR"}, up : Nat, port : Nat, blk : 0 .. W - 1]

\* What TypeOK says and Base does not.
Sizes ==
    /\ st \in {"listen", "recv"} /\ retries \in 0 .. RETRIES - 1
    /\ cst \in {"ask", "send", "done", "failed"} /\ ctries \in 0 .. CRetries
    /\ ~exists => expected_block = 0 /\ pkt = 0
    /\ toClient \in Seq(Answers)

\* The last acknowledgement's number fits: it is that of the last block written.
LEMMA PktFits == ASSUME Base, Sizes PROVE pkt \in 0 .. W - 1
<1>1. 0 \in 0 .. W - 1
  BY TftpRecvAssumption, SMTT(30)
<1>2. Len(disk) \in Nat
  BY LenProperties, Zenon DEF Base, Types
<1> QED
  BY <1>1, <1>2, NumberIsNat, Zenon DEF Base, Served, Types, Sizes

\* Every step keeps what TypeOK says and Base does not.
LEMMA SizesStep == ASSUME Base, Sizes, [Next]_vars PROVE Sizes'
<1> USE DEF Sizes, file, transfer, client, bounds
<1>1. 0 \in 0 .. W - 1 /\ 0 \in 0 .. RETRIES - 1 /\ 0 \in 0 .. CRetries
  BY TftpRecvAssumption, SMTT(30)
<1>2. ASSUME NEW op \in {"ACK", "ERROR"}, NEW u \in Nat, NEW p \in Nat, NEW b \in 0 .. W - 1
      PROVE  Append(toClient, Reply(op, u, p, b)) \in Seq(Answers)
  <2>1. Reply(op, u, p, b) \in Answers
    BY Zenon DEF Reply, Answers
  <2> QED
    BY <2>1, AppendProperties, Zenon
<1>3. toClient # <<>> => Tail(toClient) \in Seq(Answers)
  BY HeadTailProperties, Zenon
<1>4. peer \in Nat /\ port \in Nat /\ port + 1 \in Nat
  BY SMTT(30) DEF Base, Types
<1>5. queue # <<>> => Head(queue).up \in Nat
  <2>1. queue # <<>> => Head(queue) \in Asked
    BY HeadTailProperties, Zenon DEF Base, Types
  <2> QED
    BY <2>1, Zenon DEF Asked
<1>6. CASE Refuse
  <2>1. toClient' \in Seq(Answers)
    BY <1>1, <1>2, <1>4, <1>5, <1>6, Zenon DEF Refuse
  <2> QED
    BY <1>6, <2>1, Zenon DEF Refuse
<1>7. CASE Receive
  <2>1. toClient' \in Seq(Answers)
    BY <1>1, <1>2, <1>4, <1>5, <1>7, Zenon DEF Receive
  <2> QED
    BY <1>1, <1>7, <2>1, Zenon DEF Receive
<1>8. CASE Data
  <2>1. Head(toServer) \in Datagrams /\ Head(toServer).op = "DATA"
    BY <1>8, HeadTailProperties, Zenon DEF Data, Datagram, Base, Types
  <2>2. exists /\ Head(toServer).blk \in 0 .. W - 1
    <3>1. \A b \in 1 .. N : b \in Nat
      BY TftpRecvAssumption, SMTT(30)
    <3> QED
      BY <2>1, <3>1, NumberIsNat, Zenon DEF Datagrams
  <2>3. toClient' \in Seq(Answers)
    BY <1>2, <1>4, <1>8, <2>2, Zenon DEF Data
  <2>4. st' \in {"listen", "recv"}
    BY <1>8, Zenon DEF Data
  <2> QED
    BY <1>1, <1>8, <2>2, <2>3, <2>4, Zenon DEF Data
<1>9. CASE Duplicate
  <2>1. toClient' \in Seq(Answers)
    BY <1>2, <1>4, <1>9, PktFits, Zenon DEF Duplicate
  <2> QED
    BY <1>1, <1>9, <2>1, Zenon DEF Duplicate
<1>10. CASE ClientError \/ Interrupt \/ Closed
  BY <1>10, Zenon DEF ClientError, Interrupt, Closed, Listen
<1>11. CASE Timeout
  <2>1. toClient' \in Seq(Answers)
    BY <1>2, <1>4, <1>11, PktFits, Zenon DEF Timeout
  <2>2. retries' \in 0 .. RETRIES - 1
    BY <1>11, TftpRecvAssumption, SMTT(30) DEF Timeout, Listen, Retries
  <2> QED
    BY <1>11, <2>1, <2>2, Zenon DEF Timeout, Listen
<1>12. ASSUME NEW r \in Requests, Upload(r) PROVE Sizes'
  BY <1>1, <1>12, Zenon DEF Upload
<1>13. CASE Answer
  BY <1>1, <1>3, <1>13, Zenon DEF Answer
<1>14. ASSUME NEW says \in BOOLEAN, ClientTimeout(says) PROVE Sizes'
  <2>1. ctries' \in 0 .. CRetries
    BY <1>14, TftpRecvAssumption, SMTT(30) DEF ClientTimeout
  <2> QED
    BY <1>14, <2>1, Zenon DEF ClientTimeout
<1>15. CASE Lose \/ Copy \/ Reorder
  <2>1. toClient' \in Seq(Answers)
    <3>1. CASE Lose
      BY <1>3, <3>1, Zenon DEF Lose
    <3>2. CASE Copy
      BY <3>2, CopyIn, Zenon DEF Copy
    <3>3. CASE Reorder
      BY <3>3, SwapIn, Zenon DEF Reorder
    <3> QED
      BY <1>15, <3>1, <3>2, <3>3, Zenon
  <2> QED
    BY <1>15, <2>1, Zenon DEF Lose, Copy, Reorder
<1>16. CASE UNCHANGED vars
  BY <1>16, Zenon DEF vars
<1> HIDE DEF Sizes
<1> QED
  BY <1>6, <1>7, <1>8, <1>9, <1>10, <1>11, <1>12, <1>13, <1>14, <1>15, <1>16, Zenon
     DEF Next, Receiver, Client

\* If numbers can be told apart, every variable keeps its type: no acknowledgement
\* of recv_file has a number of more than 16 bits, none is repeated more often than
\* RETRIES allows, and no block is taken beyond the last.
THEOREM TypeOKHolds == ASSUME Distinguishable PROVE Spec => []TypeOK
<1>1. Init => Sizes
  <2>1. Init => retries \in 0 .. RETRIES - 1 /\ ctries \in 0 .. CRetries
    BY TftpRecvAssumption, SMTT(30) DEF Init
  <2>2. <<>> \in Seq(Answers)
    BY SMTT(30)
  <2> QED
    BY <2>1, <2>2, Zenon DEF Init, Sizes
<1>2. IInv /\ Sizes /\ [Next]_vars => Sizes'
  BY SizesStep, Zenon DEF IInv
<1>3. IInv /\ Sizes => TypeOK
  <2> SUFFICES ASSUME Base, Sizes PROVE TypeOK
    BY Zenon DEF IInv
  <2>1. expected_block \in 0 .. N + 1
    BY TftpRecvAssumption, SMTT(30) DEF Base, Types, InOrder, Served, Sizes
  <2>2. ASSUME NEW i \in 1 .. Len(toClient) PROVE toClient[i].blk \in 0 .. W - 1
    <3>1. toClient[i] \in Answers
      BY ElementOfSeq, Zenon DEF Sizes
    <3> QED
      BY <3>1, Zenon DEF Answers
  <2> QED
    BY <2>1, <2>2, PktFits, Zenon DEF Base, Types, InOrder, Sizes, TypeOK
<1> QED
  BY <1>1, <1>2, <1>3, Invariance, PTL DEF Spec
=============================================================================

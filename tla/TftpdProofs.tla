----------------------------- MODULE TftpdProofs -----------------------------
(***************************************************************************)
(* The server with its client implements FileCopy, for any file with fewer *)
(* blocks than there are block numbers, any timeouts, and whatever the     *)
(* network loses, duplicates, delays and reorders.                         *)
(***************************************************************************)
EXTENDS Tftpd, SequenceTheorems, TLAPS

\* Datagrams: a block is under its number; an acknowledgement comes from the port
\* that the client keeps to, and is of a block it has stored.
Control == [to : {"client", "server"}, port : Nat \ {0}, op : {"OACK", "ERROR", "ACK"},
            blk : Nat, age : Nat]
Blocks == {m \in [to : {"client"}, port : Nat \ {0}, op : {"DATA"}, blk : Nat,
                  data : 1 .. Len(File), age : Nat] : m.blk = m.data}
Acks == {m \in Control : m.op = "ACK" => m.port = cport /\ m.blk <= Len(got)}

\* The client has the first blocks of the file, and all of them when it is done.
Stored ==
    /\ got \in Seq(1 .. Len(File)) /\ Len(got) <= Len(File)
    /\ \A i \in 1 .. Len(got) : got[i] = File[i]
    /\ cst \in {"start", "busy"} => Len(got) < Len(File)
    /\ clast \in Nat /\ clast <= Len(got)

\* DONE is not logged before the client has the file.
Logged == done \in BOOLEAN /\ (done => got = File)

IInv ==
    /\ net \subseteq Blocks \cup Acks
    /\ port \in Nat /\ cport \in Nat /\ block \in 0 .. Len(File)
    /\ st = "await" => port > 0
    /\ Stored /\ Logged

\* The file is not empty.
LEMMA FileIsSeq == Len(File) \in Nat /\ Len(File) > 0 /\ File \in Seq(1 .. Len(File))
<1>1. File \in Seq(1 .. Len(File)) /\ File # <<>>
  BY TftpdAssumption, Zenon
<1> QED
  BY <1>1, LenProperties, EmptySeq, SMTT(30)

\* With fewer blocks than numbers a number is the block itself.
LEMMA NumberIsBlock ==
  ASSUME Len(File) < W, NEW b \in 0 .. Len(File) PROVE Number(b) = b
  BY FileIsSeq, TftpdAssumption, SMTT(30) DEF Number

\* What the server sends is a block or not an acknowledgement.
LEMMA PacketIn ==
  ASSUME Len(File) < W, NEW p \in Nat \ {0}, NEW b \in 0 .. Len(File)
  PROVE  Packet(p, b) \in Blocks \cup Acks
<1>1. CASE b = 0
  BY <1>1, Zenon DEF Packet, Send, Acks, Control
<1>2. CASE b # 0
  BY <1>2, FileIsSeq, NumberIsBlock, SMTT(30) DEF Packet, Blocks
<1> QED BY <1>1, <1>2, Zenon

\* An ERROR in either direction is no acknowledgement.
LEMMA ErrorIn ==
  ASSUME NEW p \in Nat \ {0}
  PROVE  Send(p, "ERROR", 0) \in Acks /\ [Ack(p, 0) EXCEPT !.op = "ERROR"] \in Acks
  BY Zenon DEF Send, Ack, Acks, Control

\* The age of a datagram is neither its block nor its port.
LEMMA OlderIn ==
  ASSUME NEW m \in Blocks \cup Acks PROVE [m EXCEPT !.age = @ + 1] \in Blocks \cup Acks
<1>1. CASE m \in Blocks
  BY <1>1, SMTT(30) DEF Blocks
<1>2. CASE m \in Acks
  BY <1>2, SMTT(30) DEF Acks, Control
<1> QED BY <1>1, <1>2, Zenon

\* The sequences that agree with the file in all its blocks are the file.
LEMMA AllStored ==
  ASSUME NEW s \in Seq(1 .. Len(File)), Len(s) = Len(File), \A i \in 1 .. Len(s) : s[i] = File[i]
  PROVE  s = File
  BY FileIsSeq, SeqEqual, Zenon

\* A step of the server: the datagrams that it leaves and sends keep the
\* invariant, and DONE is logged on the acknowledgement of the last block.
LEMMA ServerStep == ASSUME Len(File) < W, IInv, Server PROVE IInv' /\ [Abstract!Next]_(Abstract!vars)
<1> USE FileIsSeq
<1> DEFINE D == Blocks \cup Acks
<1>1. net \subseteq D /\ port \in Nat /\ port + 1 \in Nat \ {0} /\ block \in 0 .. Len(File)
      /\ (st = "await" => port > 0)
  BY SMTT(30) DEF IInv
<1>2. ASSUME UNCHANGED client, net' \subseteq D, port' \in Nat, st' = "await" => port' > 0,
             block' \in 0 .. Len(File),
             UNCHANGED done \/ (done' = TRUE /\ got = File)
      PROVE  IInv' /\ [Abstract!Next]_(Abstract!vars)
  <2>1. Blocks' = Blocks /\ Acks' = Acks
    BY <1>2, Zenon DEF Blocks, Acks, client
  <2>2. Stored' /\ Logged'
    <3>1. Stored'
      BY <1>2, Zenon DEF IInv, Stored, client
    <3>2. got' = got /\ done \in BOOLEAN /\ (done => got = File)
      BY <1>2, Zenon DEF IInv, Logged, client
    <3>3. CASE UNCHANGED done
      BY <3>1, <3>2, <3>3, Zenon DEF Logged
    <3>4. CASE done' = TRUE /\ got = File
      BY <3>1, <3>2, <3>4, Zenon DEF Logged
    <3> QED BY <1>2, <3>3, <3>4, Zenon
  <2>3. IInv'
    BY <1>2, <2>1, <2>2, Zenon DEF IInv, client
  <2>4. [Abstract!Next]_(Abstract!vars)
    BY <1>2, Zenon DEF IInv, Logged, Abstract!Next, Abstract!Finish, Abstract!vars, client
  <2> QED BY <2>3, <2>4, Zenon
<1>3. CASE Refuse
  <2>1. Send(port + 1, "ERROR", 0) \in D
    BY <1>1, ErrorIn, Zenon
  <2> QED
    BY <1>1, <1>2, <1>3, <2>1, Zenon DEF Refuse
<1>4. CASE Serve
  <2>1. PICK b \in {0, 1} : Begin(port + 1, b, net)
    BY <1>4, Zenon DEF Serve
  <2>2. Packet(port + 1, b) \in D
    BY <1>1, PacketIn, SMTT(30)
  <2> QED
    BY <1>1, <1>2, <1>4, <2>1, <2>2, SMTT(30) DEF Serve, Begin
<1>5. ASSUME NEW m \in net, Acked(m) PROVE IInv' /\ [Abstract!Next]_(Abstract!vars)
  <2>1. m.op = "ACK" /\ m.port = port /\ m.blk = block
    BY <1>1, <1>5, NumberIsBlock, Zenon DEF Acked, Expected
  <2>2. m \in Acks
    BY <1>1, <2>1, Zenon DEF Blocks
  <2>3. port \in Nat \ {0} /\ block <= Len(got)
    BY <2>1, <2>2, Zenon DEF Acks, Control
  <2>4. CASE Last(block)
    <3>1. got = File
      BY <2>3, <2>4, AllStored, SMTT(30) DEF IInv, Stored, Last
    <3>2. (done' = done \/ done' = TRUE) /\ net' \subseteq D /\ port' = port /\ block' = 0
          /\ st' = "listen" /\ UNCHANGED client
      BY <1>1, <1>5, <2>4, Zenon DEF Acked, Listen, IInv, Logged
    <3>3. block' \in 0 .. Len(File) /\ port' \in Nat
      BY <1>1, <3>2, SMTT(30)
    <3> QED BY <1>2, <3>1, <3>2, <3>3, Zenon
  <2>5. CASE ~Last(block)
    <3>1. block + 1 \in 0 .. Len(File)
      BY <1>1, <2>5, SMTT(30) DEF Last
    <3>2. Packet(port, block + 1) \in D
      BY <2>3, <3>1, PacketIn, Zenon
    <3> QED
      BY <1>1, <1>2, <1>5, <2>3, <2>5, <3>1, <3>2, Zenon DEF Acked, Begin
  <2> QED BY <2>4, <2>5, Zenon
<1>6. CASE Timeout
  <2>1. CASE ~TriesLeft
    BY <1>1, <1>2, <1>6, <2>1, SMTT(30) DEF Timeout, Listen
  <2>2. CASE TriesLeft
    <3>1. port \in Nat \ {0}
      BY <1>6, SMTT(30) DEF IInv, Timeout
    <3>2. Packet(port, block) \in D
      BY <1>1, <3>1, PacketIn, Zenon
    <3> QED
      BY <1>1, <1>2, <1>6, <2>2, <3>1, <3>2, Zenon DEF Timeout
  <2> QED BY <2>1, <2>2, Zenon
<1>7. ASSUME NEW m \in net, OldAck(m) \/ ClientError(m) \/ Closed(m)
      PROVE  IInv' /\ [Abstract!Next]_(Abstract!vars)
  <2>1. /\ net' \subseteq D /\ UNCHANGED client /\ UNCHANGED done /\ port' = port
        /\ (block' = block /\ st' = st) \/ (block' = 0 /\ st' = "listen")
    <3>1. CASE OldAck(m)
      BY <1>1, <3>1, Zenon DEF OldAck
    <3>2. CASE ClientError(m)
      BY <1>1, <3>2, Zenon DEF ClientError, Listen
    <3>3. CASE Closed(m)
      BY <1>1, <3>3, Zenon DEF Closed, server
    <3> QED BY <1>7, <3>1, <3>2, <3>3, Zenon
  <2>2. port' \in Nat /\ (st' = "await" => port' > 0) /\ block' \in 0 .. Len(File)
    BY <1>1, <2>1, SMTT(30)
  <2> QED BY <1>2, <2>1, <2>2, Zenon
<1> QED
  BY <1>3, <1>4, <1>5, <1>6, <1>7, Zenon DEF Server

\* A client that takes a datagram: the block that it stores is the next one of the
\* file, and its acknowledgement is of a block that it has.
LEMMA ReceiveStep ==
  ASSUME Len(File) < W, IInv, NEW m \in net, NEW again \in BOOLEAN, ClientReceives(m, again)
  PROVE  IInv' /\ [Abstract!Next]_(Abstract!vars)
<1> USE FileIsSeq
<1> DEFINE mine == cst = "busy" /\ (cport = 0 \/ cport = m.port)
           next == mine /\ m.op = "DATA" /\ m.blk = (Len(got) + 1) % W
           first == mine /\ m.op = "OACK" /\ got = <<>>
           error == mine /\ m.op = "ERROR"
           D == Blocks \cup Acks
<1>1. /\ net \subseteq D /\ m \in D /\ cport \in Nat /\ Stored /\ Logged
      /\ UNCHANGED <<server, request, losses, dups>>
      /\ port' \in Nat /\ block' \in 0 .. Len(File) /\ (st' = "await" => port' > 0)
  BY Zenon DEF IInv, ClientReceives, server
<1>2. m.port \in Nat \ {0} /\ m.blk \in Nat
  BY <1>1, Zenon DEF Blocks, Acks, Control
<1>3. Len(got) \in Nat /\ Len(got) <= Len(File) /\ clast \in Nat /\ clast <= Len(got)
  BY <1>1, SMTT(30) DEF Stored
\* The acknowledgements on their way stay those of the client's port.
<1>4. ASSUME mine, cport' = m.port, Len(got') \in Nat, Len(got) <= Len(got') PROVE D \subseteq D'
  <2>1. ASSUME NEW a \in Acks PROVE a \in Acks'
    <3>1. a \in Control /\ (a.op = "ACK" => a.port = cport /\ a.blk <= Len(got))
      BY Zenon DEF Acks
    <3>2. a.port \in Nat \ {0} /\ a.blk \in Nat
      BY <3>1, Zenon DEF Control
    <3>3. a.op = "ACK" => a.port = cport' /\ a.blk <= Len(got')
      BY <1>3, <1>4, <3>1, <3>2, SMTT(30)
    <3> QED BY <3>1, <3>3, Zenon DEF Acks, Control
  <2>2. Blocks' = Blocks
    BY Zenon DEF Blocks
  <2> QED BY <2>1, <2>2, Zenon
<1>5. ASSUME NEW b \in Nat, cport' = m.port, b <= Len(got') PROVE Ack(m.port, b) \in D'
  BY <1>2, <1>5, Zenon DEF Ack, Acks, Control
<1>6. ASSUME net' \subseteq D', Stored', Logged', cport' \in Nat PROVE IInv'
  BY <1>1, <1>6, Zenon DEF IInv
<1> HIDE DEF D
<1>7. CASE next
  <2>1. /\ got' = Append(got, File[m.data]) /\ clast' = m.blk /\ cport' = m.port
        /\ cst' = (IF m.data = Len(File) THEN "done" ELSE "busy")
        /\ net' = (net \ {m}) \cup {Ack(m.port, m.blk)}
    BY <1>7, Zenon DEF ClientReceives
  <2>2. Len(got) < Len(File)
    BY <1>1, <1>7, Zenon DEF Stored
  <2>3. m \in Blocks /\ m.blk = m.data /\ m.data \in 1 .. Len(File)
    BY <1>1, <1>7, Zenon DEF D, Blocks, Acks, Control
  <2>4. m.blk = Len(got) + 1
    <3>1. Number(Len(got) + 1) = Len(got) + 1
      BY <1>3, <2>2, NumberIsBlock, SMTT(30)
    <3> QED BY <1>7, <3>1, Zenon DEF Number
  <2>5. File[m.data] \in 1 .. Len(File)
    BY <2>3, ElementOfSeq, Zenon
  <2>6. /\ got' \in Seq(1 .. Len(File)) /\ Len(got') = Len(got) + 1
        /\ \A i \in 1 .. Len(got) : got'[i] = got[i]
        /\ got'[Len(got) + 1] = File[m.data]
    BY <1>1, <2>1, <2>5, AppendProperties, SMTT(30) DEF Stored
  <2>7. Stored'
    <3>1. \A i \in 1 .. Len(got') : got'[i] = File[i]
      <4>1. \A i \in 1 .. Len(got') : i \in 1 .. Len(got) \/ i = Len(got) + 1
        BY <1>3, <2>6, SMTT(30)
      <4>2. \A i \in 1 .. Len(got) : got[i] = File[i]
        BY <1>1, Zenon DEF Stored
      <4> QED BY <2>3, <2>4, <2>6, <4>1, <4>2, Zenon
    <3>2. cst' \in {"start", "busy"} => Len(got') < Len(File)
      <4>1. CASE m.data = Len(File)
        BY <2>1, <4>1, Zenon
      <4>2. CASE m.data # Len(File)
        <5>1. Len(got') = m.data
          BY <2>4, <2>3, <2>6, Zenon
        <5> QED BY <2>3, <4>2, <5>1, SMTT(30)
      <4> QED BY <4>1, <4>2, Zenon
    <3>3. clast' \in Nat /\ clast' <= Len(got') /\ Len(got') <= Len(File)
      <4>1. Len(got') = Len(got) + 1
        BY <2>6, Zenon
      <4>2. clast' = Len(got) + 1
        BY <2>1, <2>4, Zenon
      <4> QED BY <1>3, <2>2, <4>1, <4>2, SMTT(30)
    <3> QED BY <2>6, <3>1, <3>2, <3>3, Zenon DEF Stored
  <2>8. ~done /\ done' = done /\ done \in BOOLEAN
    BY <1>1, <2>2, SMTT(30) DEF Logged, server
  <2>9. Logged'
    BY <2>8, Zenon DEF Logged
  <2>10. net' \subseteq D'
    <3>1. D \subseteq D'
      BY <1>3, <1>4, <1>7, <2>1, <2>6, SMTT(30)
    <3>2. Ack(m.port, m.blk) \in D'
      BY <1>2, <1>3, <1>5, <2>1, <2>4, <2>6, SMTT(30)
    <3> QED BY <1>1, <2>1, <3>1, <3>2, Zenon
  <2>11. Abstract!Extend
    BY <1>3, <2>1, <2>2, <2>3, <2>4, <2>8, Zenon DEF Abstract!Extend
  <2> QED
    BY <1>2, <1>6, <2>1, <2>7, <2>9, <2>10, <2>11, Zenon DEF Abstract!Next
<1>8. ASSUME ~next, UNCHANGED got, clast' \in Nat, clast' <= Len(got), cport' \in Nat,
             cst' = cst \/ cst' = "failed", net' \subseteq D'
      PROVE  IInv' /\ [Abstract!Next]_(Abstract!vars)
  <2>1. Stored'
    BY <1>1, <1>8, Zenon DEF Stored
  <2>2. UNCHANGED done
    BY <1>1, Zenon DEF server
  <2>3. Logged'
    BY <1>1, <1>8, <2>2, Zenon DEF Logged
  <2> QED
    BY <1>6, <1>8, <2>1, <2>2, <2>3, Zenon DEF Abstract!vars
<1>9. ASSUME UNCHANGED <<got, cport>> PROVE D' = D
  BY <1>9, Zenon DEF D, Blocks, Acks
<1>10. CASE ~next /\ first
  <2>1. /\ clast' = 0 /\ cport' = m.port /\ net' = (net \ {m}) \cup {Ack(m.port, 0)}
        /\ UNCHANGED <<got, cst>>
    BY <1>10, Zenon DEF ClientReceives
  <2>2. D \subseteq D' /\ Ack(m.port, 0) \in D'
    BY <1>3, <1>4, <1>5, <1>10, <2>1, SMTT(30)
  <2> QED
    BY <1>1, <1>2, <1>3, <1>8, <1>10, <2>1, <2>2, SMTT(30)
<1>11. CASE ~next /\ ~first /\ error
  <2>1. cst' = "failed" /\ net' = net \ {m} /\ UNCHANGED <<got, clast, cport>>
    BY <1>11, Zenon DEF ClientReceives
  <2> QED
    BY <1>1, <1>3, <1>8, <1>9, <1>11, <2>1, Zenon
<1>12. CASE ~next /\ ~first /\ ~error
  <2>1. UNCHANGED <<cst, got, clast, cport>>
    BY <1>12, Zenon DEF ClientReceives
  <2>2. net' \subseteq D'
    <3>1. \/ net' = net \ {m}
          \/ net' = (net \ {m}) \cup {Ack(m.port, m.blk)} /\ clast = m.blk /\ cport = m.port
      BY <1>12, Zenon DEF ClientReceives
    <3>2. CASE net' = net \ {m}
      BY <1>1, <1>9, <2>1, <3>2, Zenon
    <3>3. CASE net' = (net \ {m}) \cup {Ack(m.port, m.blk)} /\ clast = m.blk /\ cport = m.port
      BY <1>1, <1>3, <1>5, <1>9, <2>1, <3>3, Zenon
    <3> QED BY <3>1, <3>2, <3>3, Zenon
  <2> QED
    BY <1>1, <1>3, <1>8, <1>12, <2>1, <2>2, Zenon
<1> QED
  BY <1>7, <1>10, <1>11, <1>12, Zenon

\* The client's requests and timeouts, the network and time change neither what is
\* stored nor what is logged.
LEMMA OtherStep ==
  ASSUME Len(File) < W, IInv,
         \/ \E r \in Requests : ClientRequests(r) \/ RequestLost(r)
         \/ \E says \in BOOLEAN : ClientTimeout(says)
         \/ Network \/ Tick \/ UNCHANGED vars
  PROVE  IInv' /\ [Abstract!Next]_(Abstract!vars)
<1> USE FileIsSeq
<1> DEFINE D == Blocks \cup Acks
<1>1. net \subseteq D /\ cport \in Nat /\ Stored /\ Logged
  BY Zenon DEF IInv
<1>2. ASSUME UNCHANGED <<st, port, block, done, cport, got, clast>>, net' \subseteq D,
             cst' = cst \/ cst' = "failed" \/ (cst = "start" /\ cst' = "busy")
      PROVE  IInv' /\ [Abstract!Next]_(Abstract!vars)
  <2>1. Blocks' = Blocks /\ Acks' = Acks
    BY <1>2, Zenon DEF Blocks, Acks
  <2>2. Stored'
    BY <1>1, <1>2, Zenon DEF Stored
  <2>3. Logged'
    BY <1>1, <1>2, Zenon DEF Logged
  <2>4. IInv'
    BY <1>2, <2>1, <2>2, <2>3, Zenon DEF IInv
  <2> QED
    BY <1>2, <2>4, Zenon DEF Abstract!vars
<1> HIDE DEF D
<1>3. ASSUME NEW r \in Requests, ClientRequests(r) \/ RequestLost(r)
      PROVE  IInv' /\ [Abstract!Next]_(Abstract!vars)
  <2>1. CASE ClientRequests(r)
    BY <1>1, <1>2, <2>1, Zenon DEF ClientRequests
  <2>2. CASE RequestLost(r)
    BY <1>1, <1>2, <2>2, Zenon DEF RequestLost, server
  <2> QED BY <1>3, <2>1, <2>2, Zenon
<1>4. ASSUME NEW says \in BOOLEAN, ClientTimeout(says)
      PROVE  IInv' /\ [Abstract!Next]_(Abstract!vars)
  <2>1. UNCHANGED <<st, port, block, done, cport, got, clast>> /\ (cst' = cst \/ cst' = "failed")
    BY <1>4, Zenon DEF ClientTimeout
  <2>2. \/ net' = net
        \/ cport # 0 /\ net' = net \cup {Ack(cport, clast)}
        \/ cport # 0 /\ net' = net \cup {[Ack(cport, 0) EXCEPT !.op = "ERROR"]}
    BY <1>4, Zenon DEF ClientTimeout
  <2>3. ASSUME cport # 0 PROVE Ack(cport, clast) \in D /\ [Ack(cport, 0) EXCEPT !.op = "ERROR"] \in D
    <3>1. Ack(cport, clast) \in Acks
      BY <1>1, <2>3, Zenon DEF Ack, Acks, Control, Stored
    <3>2. [Ack(cport, 0) EXCEPT !.op = "ERROR"] \in Acks
      BY <1>1, <2>3, ErrorIn, Zenon
    <3> QED BY <3>1, <3>2, Zenon DEF D
  <2>4. net' \subseteq D
    BY <1>1, <2>2, <2>3, Zenon
  <2> QED BY <1>2, <2>1, <2>4, Zenon
<1>5. ASSUME NEW m \in net, Lose(m) \/ Duplicate(m) PROVE IInv' /\ [Abstract!Next]_(Abstract!vars)
  <2>1. UNCHANGED <<server, client>>
    BY <1>5, Zenon DEF Lose, Duplicate
  <2>2. net' \subseteq net \cup {[m EXCEPT !.age = @ + 1]}
    BY <1>5, Zenon DEF Lose, Duplicate
  <2>3. [m EXCEPT !.age = @ + 1] \in D
    BY <1>1, OlderIn, Zenon DEF D
  <2>4. net' \subseteq D
    BY <1>1, <2>2, <2>3, Zenon
  <2> QED BY <1>2, <2>1, <2>4, Zenon DEF server, client
<1>6. CASE Tick
  <2>1. net' = {[m EXCEPT !.age = @ + 1] : m \in net}
    BY <1>6, Zenon DEF Tick
  <2>2. \A m \in net : [m EXCEPT !.age = @ + 1] \in D
    BY <1>1, OlderIn, Zenon DEF D
  <2>3. net' \subseteq D
    BY <2>1, <2>2, Zenon
  <2> QED BY <1>2, <1>6, <2>3, Zenon DEF Tick
<1>7. CASE UNCHANGED vars
  BY <1>1, <1>2, <1>7, Zenon DEF vars, server, client
<1> QED
  BY <1>3, <1>4, <1>5, <1>6, <1>7, Zenon DEF Network

\* Every step keeps the invariant and is a step of FileCopy or none.
LEMMA Step ==
  ASSUME Len(File) < W, IInv, [Next]_vars PROVE IInv' /\ [Abstract!Next]_(Abstract!vars)
  BY ServerStep, ReceiveStep, OtherStep, Zenon DEF Next, Client

\* The server with its client implements FileCopy, if the file has fewer blocks than
\* there are block numbers: whatever the network does and whatever the timeouts are,
\* the client stores the blocks once and in order, and serve_file logs DONE only when
\* it has them all.
THEOREM CopiesFileHolds == ASSUME Len(File) < W PROVE Spec => CopiesFile
<1>1. Init => IInv /\ Abstract!Init
  <2>1. ASSUME Init PROVE Stored
    <3>1. got = <<>> /\ Len(got) = 0 /\ clast = 0 /\ got \in Seq(1 .. Len(File))
      BY <2>1, SMTT(30) DEF Init
    <3> QED BY <3>1, FileIsSeq, SMTT(30) DEF Stored
  <2>2. ASSUME Init PROVE IInv
    <3>1. Logged
      BY <2>2, Zenon DEF Init, Logged
    <3>2. net = {} /\ st = "listen" /\ port = 0 /\ cport = 0 /\ block = 0 /\ Stored
      BY <2>1, <2>2, Zenon DEF Init
    <3> QED BY <3>1, <3>2, FileIsSeq, SMTT(30) DEF IInv
  <2> QED
    BY <2>2, Zenon DEF Init, Abstract!Init
<1>2. IInv /\ [Next]_vars => IInv' /\ [Abstract!Next]_(Abstract!vars)
  BY Step, Zenon
<1> QED
  BY <1>1, <1>2, PTL DEF Spec, CopiesFile, Abstract!Spec

-----------------------------------------------------------------------------
(* Types.                                                                  *)

\* The datagrams of both sides: a number has 16 bits, whatever the file's size,
\* and none is in the network for longer than Delay.
Messages ==
    [to : {"client", "server"}, port : Nat, op : {"OACK", "ERROR", "ACK"},
     blk : 0 .. W - 1, age : 0 .. Delay]
    \cup [to : {"client"}, port : Nat, op : {"DATA"}, blk : 0 .. W - 1, data : Nat, age : 0 .. Delay]

\* TypeOK with the shape of datagrams and what the client repeats.
Typed ==
    /\ net \subseteq Messages
    /\ st \in {"listen", "await"} /\ port \in Nat /\ block \in 0 .. Len(File)
    /\ attempt \in 0 .. RETRIES /\ timer \in 0 .. TS /\ done \in BOOLEAN
    /\ cst \in {"start", "busy", "done", "failed"} /\ ctimer \in 0 .. TC
    /\ cport \in Nat /\ clast \in 0 .. W - 1
    /\ losses \in 0 .. MaxLoss /\ dups \in 0 .. MaxDup

\* What the server and the client send is a datagram.
LEMMA SentTyped ==
  ASSUME NEW p \in Nat
  PROVE  /\ \A b \in 0 .. Len(File) : Packet(p, b) \in Messages
         /\ \A b \in 0 .. W - 1 : Ack(p, b) \in Messages
         /\ Send(p, "ERROR", 0) \in Messages /\ [Ack(p, 0) EXCEPT !.op = "ERROR"] \in Messages
<1>1. 0 \in 0 .. W - 1 /\ 0 \in 0 .. Delay
  BY TftpdAssumption, SMTT(30)
<1>2. ASSUME NEW b \in 0 .. Len(File) PROVE Number(b) \in 0 .. W - 1 /\ b \in Nat
  BY TftpdAssumption, FileIsSeq, SMTT(30) DEF Number
<1>3. ASSUME NEW b \in 0 .. Len(File) PROVE Packet(p, b) \in Messages
  BY <1>1, <1>2, Zenon DEF Packet, Send, Messages
<1>4. ASSUME NEW b \in 0 .. W - 1 PROVE Ack(p, b) \in Messages
  BY <1>1, Zenon DEF Ack, Messages
<1>5. Send(p, "ERROR", 0) \in Messages /\ [Ack(p, 0) EXCEPT !.op = "ERROR"] \in Messages
  BY <1>1, Zenon DEF Send, Ack, Messages
<1> QED
  BY <1>3, <1>4, <1>5, Zenon

\* A datagram that is not too old may become older.
LEMMA OlderTyped ==
  ASSUME NEW m \in Messages, m.age < Delay PROVE [m EXCEPT !.age = @ + 1] \in Messages
<1>1. m.age + 1 \in 0 .. Delay
  BY TftpdAssumption, SMTT(30) DEF Messages
<1> QED
  BY <1>1, Zenon DEF Messages

\* Every step of the server keeps the types.
LEMMA ServerTyped == ASSUME Typed, Server PROVE Typed'
<1> USE DEF Typed, client, server, Listen
<1>1. /\ 0 \in 0 .. Len(File) /\ 1 \in 0 .. Len(File) /\ port + 1 \in Nat
      /\ 0 \in 0 .. RETRIES /\ 1 \in 0 .. RETRIES /\ 0 \in 0 .. TS /\ TS \in 0 .. TS
  BY TftpdAssumption, FileIsSeq, SMTT(30)
<1>2. CASE Refuse
  <2>1. Send(port + 1, "ERROR", 0) \in Messages
    BY <1>1, SentTyped, Zenon
  <2>2. net' \subseteq Messages
    BY <1>2, <2>1, Zenon DEF Refuse
  <2> QED
    BY <1>1, <1>2, <2>2, Zenon DEF Refuse
<1>3. CASE Serve
  <2>1. PICK b \in {0, 1} : Begin(port + 1, b, net)
    BY <1>3, Zenon DEF Serve
  <2>2. b \in 0 .. Len(File) /\ Packet(port + 1, b) \in Messages
    BY <1>1, SentTyped, Zenon
  <2> QED
    BY <1>1, <1>3, <2>1, <2>2, Zenon DEF Serve, Begin
<1>4. ASSUME NEW m \in net, Acked(m) PROVE Typed'
  <2>1. CASE Last(block)
    <3>1. done' \in BOOLEAN
      BY <1>4, <2>1, Zenon DEF Acked
    <3> QED
      BY <1>1, <1>4, <2>1, <3>1, Zenon DEF Acked
  <2>2. CASE ~Last(block)
    <3>1. block + 1 \in 0 .. Len(File)
      BY <2>2, FileIsSeq, SMTT(30) DEF Last
    <3>2. Packet(port, block + 1) \in Messages
      BY <3>1, SentTyped, Zenon
    <3> QED
      BY <1>1, <1>4, <2>2, <3>1, <3>2, Zenon DEF Acked, Begin
  <2> QED
    BY <2>1, <2>2, Zenon
<1>5. ASSUME NEW m \in net, OldAck(m) \/ ClientError(m) \/ Closed(m) PROVE Typed'
  BY <1>1, <1>5, Zenon DEF OldAck, ClientError, Closed
<1>6. CASE Timeout
  <2>1. CASE TriesLeft
    <3>1. attempt' \in 0 .. RETRIES
      BY <1>6, <2>1, TftpdAssumption, SMTT(30) DEF Timeout, TriesLeft, NextAttempt
    <3>2. Packet(port, block) \in Messages
      BY SentTyped, Zenon
    <3> QED
      BY <1>1, <1>6, <2>1, <3>1, <3>2, Zenon DEF Timeout
  <2>2. CASE ~TriesLeft
    BY <1>1, <1>6, <2>2, Zenon DEF Timeout
  <2> QED
    BY <2>1, <2>2, Zenon
<1> HIDE DEF Typed
<1> QED
  BY <1>2, <1>3, <1>4, <1>5, <1>6, Zenon DEF Server

\* Every step of the client keeps the types.
LEMMA ClientTyped == ASSUME Typed, Client PROVE Typed'
<1> USE DEF Typed, server, client
<1>1. TC \in 0 .. TC /\ 0 \in 0 .. W - 1
  BY TftpdAssumption, SMTT(30)
<1>2. ASSUME NEW r \in Requests, ClientRequests(r) PROVE Typed'
  BY <1>1, <1>2, Zenon DEF ClientRequests
<1>3. ASSUME NEW m \in net, NEW again \in BOOLEAN, ClientReceives(m, again) PROVE Typed'
  <2>1. m.port \in Nat /\ m.blk \in 0 .. W - 1
    BY Zenon DEF Messages
  <2>2. Ack(m.port, m.blk) \in Messages /\ Ack(m.port, 0) \in Messages
    BY <1>1, <2>1, SentTyped, Zenon
  <2>3. net' \subseteq Messages
    BY <1>3, <2>2, Zenon DEF ClientReceives
  <2>4. /\ cst' \in {"start", "busy", "done", "failed"} /\ ctimer' \in 0 .. TC
        /\ cport' \in Nat /\ clast' \in 0 .. W - 1
    BY <1>1, <1>3, <2>1, Zenon DEF ClientReceives
  <2> QED
    BY <1>3, <2>3, <2>4, Zenon DEF ClientReceives
<1>4. ASSUME NEW says \in BOOLEAN, ClientTimeout(says) PROVE Typed'
  <2>1. Ack(cport, clast) \in Messages /\ [Ack(cport, 0) EXCEPT !.op = "ERROR"] \in Messages
    BY SentTyped, Zenon
  <2>2. net' \subseteq Messages
    BY <1>4, <2>1, Zenon DEF ClientTimeout
  <2> QED
    BY <1>1, <1>4, <2>2, Zenon DEF ClientTimeout
<1> HIDE DEF Typed
<1> QED
  BY <1>2, <1>3, <1>4, Zenon DEF Client

\* The network and time keep the types.
LEMMA NetworkTyped ==
  ASSUME Typed, Network \/ Tick \/ (\E r \in Requests : RequestLost(r)) PROVE Typed'
<1> USE DEF Typed, server, client
<1>1. CASE Network
  <2>1. PICK m \in net : Lose(m) \/ Duplicate(m)
    BY <1>1, Zenon DEF Network
  <2>2. CASE Lose(m)
    <3>1. losses' \in 0 .. MaxLoss
      <4>1. losses \in 0 .. MaxLoss /\ losses < MaxLoss /\ losses' = losses + 1
        BY <2>2, Zenon DEF Lose
      <4> HIDE DEF Typed, server, client
      <4> QED
        BY <4>1, TftpdAssumption, SMTT(30)
    <3> QED
      BY <2>2, <3>1, Zenon DEF Lose
  <2>3. CASE Duplicate(m)
    <3>1. dups' \in 0 .. MaxDup
      <4>1. dups \in 0 .. MaxDup /\ dups < MaxDup /\ dups' = dups + 1
        BY <2>3, Zenon DEF Duplicate
      <4> HIDE DEF Typed, server, client
      <4> QED
        BY <4>1, TftpdAssumption, SMTT(30)
    <3>2. [m EXCEPT !.age = @ + 1] \in Messages
      BY <2>3, OlderTyped, Zenon DEF Duplicate
    <3> QED
      BY <2>3, <3>1, <3>2, Zenon DEF Duplicate
  <2> QED
    BY <2>1, <2>2, <2>3, Zenon
<1>2. CASE Tick
  <2>1. timer' \in 0 .. TS /\ ctimer' \in 0 .. TC
    <3>1. /\ st = "await" => timer > 0
          /\ cst = "busy" => ctimer > 0
          /\ timer' = (IF st = "await" THEN timer - 1 ELSE timer)
          /\ ctimer' = (IF cst = "busy" THEN ctimer - 1 ELSE ctimer)
      BY <1>2, Zenon DEF Tick
    <3>2. timer \in 0 .. TS /\ ctimer \in 0 .. TC
      BY Zenon
    <3> HIDE DEF Typed, server, client
    <3> QED
      BY <3>1, <3>2, TftpdAssumption, SMTT(30)
  <2>2. \A m \in net : [m EXCEPT !.age = @ + 1] \in Messages
    BY <1>2, OlderTyped, Zenon DEF Tick
  <2>3. net' \subseteq Messages
    BY <1>2, <2>2, Zenon DEF Tick
  <2> QED
    BY <1>2, <2>1, <2>3, Zenon DEF Tick
<1>3. ASSUME NEW r \in Requests, RequestLost(r) PROVE Typed'
  <2>1. losses' \in 0 .. MaxLoss /\ ctimer' \in 0 .. TC
    <3>1. losses \in 0 .. MaxLoss /\ losses < MaxLoss /\ losses' = losses + 1 /\ ctimer' = TC
      BY <1>3, Zenon DEF RequestLost
    <3> HIDE DEF Typed, server, client
    <3> QED
      BY <3>1, TftpdAssumption, SMTT(30)
  <2> QED
    BY <1>3, <2>1, Zenon DEF RequestLost
<1> HIDE DEF Typed
<1> QED
  BY <1>1, <1>2, <1>3, Zenon

\* Every variable keeps its type, for a file of any size: serve_file waits for no
\* block beyond the file and send_await sends none more than RETRIES times, every
\* number has 16 bits, and no timer is started with more than its timeout.
THEOREM TypeOKHolds == Spec => []TypeOK
<1>1. Init => Typed
  <2> SUFFICES ASSUME Init PROVE Typed
    BY Zenon
  <2>1. 0 \in 0 .. Len(File) /\ 0 \in 0 .. RETRIES /\ 0 \in 0 .. TS /\ 0 \in 0 .. TC
        /\ 0 \in 0 .. W - 1 /\ 0 \in 0 .. MaxLoss /\ 0 \in 0 .. MaxDup /\ 0 \in Nat
    BY TftpdAssumption, FileIsSeq, SMTT(30)
  <2> QED
    BY <2>1, Zenon DEF Init, Typed
<1>2. Typed /\ [Next]_vars => Typed'
  <2>1. Typed /\ UNCHANGED vars => Typed'
    BY Zenon DEF Typed, vars, server, client
  <2> QED
    BY <2>1, ServerTyped, ClientTyped, NetworkTyped, Zenon DEF Next
<1>3. Typed => TypeOK
  <2>1. \A m \in Messages : m.to \in {"client", "server"} /\ m.age \in 0 .. Delay /\ m.blk \in 0 .. W - 1
    BY Zenon DEF Messages
  <2> QED
    BY <2>1, Zenon DEF Typed, TypeOK
<1> QED
  BY <1>1, <1>2, <1>3, PTL DEF Spec
=============================================================================

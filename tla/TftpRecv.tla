------------------------------ MODULE TftpRecv ------------------------------
(***************************************************************************)
(* The receiver of NAND dumps (tools/tftp-recv.py): it takes the blocks of *)
(* an upload, writes them to a file that did not exist before, and         *)
(* acknowledges each; clients that upload under the same name, one after   *)
(* another; and a network that loses, duplicates and reorders.             *)
(*                                                                         *)
(* A timeout may come whenever no datagram waits, so the model covers all  *)
(* timeout options.  The client is modelled from what the receiver         *)
(* expects: U-Boot's tftpput, which sends a block until it is acknowledged *)
(* and ignores other acknowledgements.                                     *)
(***************************************************************************)
EXTENDS Naturals, Sequences

CONSTANTS
    N,          \* blocks of a dump; the last one is short
    W,          \* block numbers are taken modulo W (65536)
    RETRIES,
    CRetries,   \* timeouts after which the client gives up
    Requests,   \* what a client may ask
    MaxUploads, \* bound: clients, one after another
    MaxLoss, MaxDup, MaxSwap,   \* bounds: what the network does
    MaxStops    \* bound: interrupts of the receiver

ASSUME TftpRecvAssumption ==
    /\ N \in Nat \ {0} /\ W \in Nat \ {0, 1} /\ RETRIES \in Nat \ {0} /\ CRetries \in Nat
    /\ Requests \subseteq {"put", "badname", "badoption", "malformed", "rrq"}
    /\ MaxUploads \in Nat /\ MaxLoss \in Nat /\ MaxDup \in Nat /\ MaxSwap \in Nat
    /\ MaxStops \in Nat

VARIABLES
    exists, disk,       \* the file: whether it is there, its blocks
    queue,              \* requests at the listening socket
    st, peer, port,     \* "listen" or "recv"; the client served, the socket's port
    expected_block, retries,
    pkt,                \* number in the last acknowledgement; 0 also for the OACK
    done,               \* DONE was logged
    up, request, cst, cport, cblk, ctries,  \* the current client
    toServer, toClient, \* datagrams of transfers
    losses, dups, swaps, stops

file == <<exists, disk, done>>
transfer == <<st, peer, port, expected_block, retries, pkt>>
client == <<up, request, cst, cport, cblk, ctries>>
bounds == <<losses, dups, swaps, stops>>
vars == <<file, queue, transfer, client, toServer, toClient, bounds>>

Init ==
    /\ exists = FALSE /\ disk = <<>> /\ done = FALSE /\ queue = <<>>
    /\ st = "listen" /\ peer = 0 /\ port = 0 /\ expected_block = 0 /\ retries = 0 /\ pkt = 0
    /\ up = 0 /\ request = "none" /\ cst = "failed" /\ cport = 0 /\ cblk = 0 /\ ctries = 0
    /\ toServer = <<>> /\ toClient = <<>>
    /\ losses = 0 /\ dups = 0 /\ swaps = 0 /\ stops = 0

Reply(op, u, p, b) == [op |-> op, up |-> u, port |-> p, blk |-> b]

\* Mutant: the number is not taken modulo 2^16.
MutNumber(b) == b

\* blk = expected_block & 0xFFFF
Number(b) == b % W

-----------------------------------------------------------------------------
(* The receiver.                                                           *)

\* Mutant: the file is opened whether it exists or not.
MutExists == FALSE

\* os.path.exists(path)
Exists == exists

Refused(r) ==
    \/ r \in {"badname", "malformed", "rrq"}
    \/ r = "put" /\ Exists

\* main and recv_file up to the checks.  An option that is not a number
\* raises an exception, which is logged: the client hears nothing.
Refuse ==
    /\ st = "listen" /\ queue # <<>>
    /\ LET q == Head(queue)
       IN  /\ Refused(q.request) \/ q.request = "badoption"
           /\ toClient' = IF q.request = "badoption" /\ ~exists THEN toClient
                          ELSE Append(toClient, Reply("ERROR", q.up, port + 1, 0))
    /\ queue' = Tail(queue) /\ port' = port + 1
    /\ UNCHANGED <<file, st, peer, expected_block, retries, pkt, client, toServer, bounds>>

\* open(path, "wb") creates or truncates; then the OACK, or ACK 0.
Receive ==
    /\ st = "listen" /\ queue # <<>>
    /\ Head(queue).request = "put" /\ ~Refused("put")
    /\ queue' = Tail(queue)
    /\ st' = "recv" /\ peer' = Head(queue).up /\ port' = port + 1
    /\ exists' = TRUE /\ disk' = <<>>
    /\ expected_block' = 1 /\ retries' = 0 /\ pkt' = 0
    /\ toClient' = Append(toClient, Reply("ACK", Head(queue).up, port + 1, 0))
    /\ UNCHANGED <<done, client, toServer, bounds>>

Listen == st' = "listen" /\ UNCHANGED <<peer, port, expected_block, retries, pkt>>

\* Mutant: a block is written whatever its number.
MutExpected(m) == TRUE

Expected(m) == m.blk = Number(expected_block)

\* len(body) < blksize
Last(m) == m.short

\* A datagram for the transfer's socket.
Datagram(op) ==
    st = "recv" /\ toServer # <<>> /\ Head(toServer).port = port /\ Head(toServer).op = op

\* The next block: written, acknowledged, and the end if it is short.
Data ==
    /\ Datagram("DATA") /\ Expected(Head(toServer))
    /\ LET m == Head(toServer)
       IN  /\ disk' = Append(disk, [up |-> m.up, blk |-> m.data])
           /\ pkt' = m.blk
           /\ toClient' = Append(toClient, Reply("ACK", peer, port, m.blk))
           /\ IF Last(m) THEN st' = "listen" /\ done' = TRUE ELSE UNCHANGED <<st, done>>
    /\ expected_block' = expected_block + 1 /\ retries' = 0
    /\ toServer' = Tail(toServer)
    /\ UNCHANGED <<exists, queue, peer, port, client, bounds>>

\* Another block: the last acknowledgement again.
Duplicate ==
    /\ Datagram("DATA") /\ ~Expected(Head(toServer))
    /\ retries' = 0
    /\ toClient' = Append(toClient, Reply("ACK", peer, port, pkt))
    /\ toServer' = Tail(toServer)
    /\ UNCHANGED <<file, queue, st, peer, port, expected_block, pkt, client, bounds>>

ClientError ==
    /\ Datagram("ERROR")
    /\ toServer' = Tail(toServer) /\ Listen
    /\ UNCHANGED <<file, queue, client, toClient, bounds>>

\* Mutant: the number of timeouts is not counted.
MutRetries == retries

Retries == retries + 1

\* socket.timeout: the last acknowledgement again, or the end; what was
\* written stays.
Timeout ==
    /\ st = "recv" /\ toServer = <<>>
    /\ IF Retries >= RETRIES
       THEN Listen /\ UNCHANGED toClient
       ELSE /\ retries' = Retries
            /\ toClient' = Append(toClient, Reply("ACK", peer, port, pkt))
            /\ UNCHANGED <<st, peer, port, expected_block, pkt>>
    /\ UNCHANGED <<file, queue, client, toServer, bounds>>

\* Ctrl-C, in main or in recv_file, and a new start.
Interrupt ==
    /\ stops < MaxStops /\ stops' = stops + 1
    /\ queue' = <<>> /\ Listen
    /\ UNCHANGED <<file, client, toServer, toClient, losses, dups, swaps>>

\* A datagram for a socket that is closed.
Closed ==
    /\ toServer # <<>> /\ (st = "listen" \/ Head(toServer).port # port)
    /\ toServer' = Tail(toServer)
    /\ UNCHANGED <<file, queue, transfer, client, toClient, bounds>>

-----------------------------------------------------------------------------
(* The clients.                                                            *)

Block(b) == [op |-> "DATA", up |-> up, port |-> cport, blk |-> Number(b), data |-> b,
             short |-> b = N]

\* The next client, when the one before it has ended.
Upload(r) ==
    /\ cst \in {"done", "failed"} /\ up < MaxUploads
    /\ up' = up + 1 /\ request' = r /\ cst' = "ask" /\ cport' = 0 /\ cblk' = 0 /\ ctries' = 0
    /\ queue' = Append(queue, [up |-> up + 1, request |-> r])
    /\ UNCHANGED <<file, transfer, toServer, toClient, bounds>>

\* The client answers the datagram at the head of toClient, or ignores it.
Answer ==
    /\ toClient # <<>>
    /\ toClient' = Tail(toClient)
    /\ LET m == Head(toClient)
           mine == m.up = up /\ cst \in {"ask", "send"} /\ cport \in {0, m.port}
           acked == mine /\ m.op = "ACK" /\ m.blk = Number(cblk)
       IN  \/ /\ acked /\ cblk < N
              /\ cst' = "send" /\ cport' = m.port /\ cblk' = cblk + 1 /\ ctries' = 0
              /\ toServer' = Append(toServer, [Block(cblk + 1) EXCEPT !.port = m.port])
           \/ /\ acked /\ cblk = N /\ cst' = "done"
              /\ UNCHANGED <<cport, cblk, ctries, toServer>>
           \/ /\ mine /\ m.op = "ERROR" /\ cst' = "failed"
              /\ UNCHANGED <<cport, cblk, ctries, toServer>>
           \/ /\ ~acked /\ ~(mine /\ m.op = "ERROR")
              /\ UNCHANGED <<cst, cport, cblk, ctries, toServer>>
    /\ UNCHANGED <<file, queue, transfer, up, request, bounds>>

\* The request or the block again, or the end, with an ERROR or without.
ClientTimeout(says) ==
    /\ cst \in {"ask", "send"} /\ toClient = <<>>
    /\ IF ctries < CRetries
       THEN /\ ctries' = ctries + 1 /\ UNCHANGED cst
            /\ IF cst = "ask"
               THEN queue' = Append(queue, [up |-> up, request |-> request]) /\ UNCHANGED toServer
               ELSE toServer' = Append(toServer, Block(cblk)) /\ UNCHANGED queue
       ELSE /\ cst' = "failed" /\ UNCHANGED <<queue, ctries>>
            /\ toServer' = IF says /\ cst = "send"
                           THEN Append(toServer, [Block(cblk) EXCEPT !.op = "ERROR"]) ELSE toServer
    /\ UNCHANGED <<file, transfer, up, request, cport, cblk, toClient, bounds>>

-----------------------------------------------------------------------------
(* The network.                                                            *)

Swap(s) == <<s[2], s[1]>> \o SubSeq(s, 3, Len(s))

\* Does to one channel what it does to its first datagrams.
Lose ==
    /\ losses < MaxLoss /\ losses' = losses + 1
    /\ \/ toServer # <<>> /\ toServer' = Tail(toServer) /\ UNCHANGED <<toClient, queue>>
       \/ toClient # <<>> /\ toClient' = Tail(toClient) /\ UNCHANGED <<toServer, queue>>
       \/ queue # <<>> /\ queue' = Tail(queue) /\ UNCHANGED <<toServer, toClient>>
    /\ UNCHANGED <<file, transfer, client, dups, swaps, stops>>

Copy ==
    /\ dups < MaxDup /\ dups' = dups + 1
    /\ \/ /\ toServer # <<>> /\ toServer' = <<Head(toServer)>> \o toServer
          /\ UNCHANGED toClient
       \/ /\ toClient # <<>> /\ toClient' = <<Head(toClient)>> \o toClient
          /\ UNCHANGED toServer
    /\ UNCHANGED <<file, queue, transfer, client, losses, swaps, stops>>

Reorder ==
    /\ swaps < MaxSwap /\ swaps' = swaps + 1
    /\ \/ Len(toServer) > 1 /\ toServer' = Swap(toServer) /\ UNCHANGED toClient
       \/ Len(toClient) > 1 /\ toClient' = Swap(toClient) /\ UNCHANGED toServer
    /\ UNCHANGED <<file, queue, transfer, client, losses, dups, stops>>

Receiver == Refuse \/ Receive \/ Data \/ Duplicate \/ ClientError \/ Timeout \/ Closed

Client == Answer \/ \E says \in BOOLEAN : ClientTimeout(says)

Next ==
    \/ Receiver \/ Client \/ Interrupt
    \/ \E r \in Requests : Upload(r)
    \/ Lose \/ Copy \/ Reorder

Spec == Init /\ [][Next]_vars

\* Both sides run, and each has its timeouts.
FairSpec == Spec /\ WF_vars(Receiver) /\ WF_vars(Client)

-----------------------------------------------------------------------------
(* Properties.                                                             *)

\* Every variable keeps its type; no acknowledgement has a number of more
\* than 16 bits and no block is taken beyond the last.
TypeOK ==
    /\ exists \in BOOLEAN /\ done \in BOOLEAN /\ Len(disk) <= N
    /\ st \in {"listen", "recv"} /\ pkt \in 0 .. W - 1 /\ retries \in 0 .. RETRIES - 1
    /\ expected_block \in 0 .. N + 1 /\ cblk \in 0 .. N /\ ctries \in 0 .. CRetries
    /\ cst \in {"ask", "send", "done", "failed"}
    /\ \A i \in 1 .. Len(toClient) : toClient[i].blk \in 0 .. W - 1

Abstract == INSTANCE FileCopy WITH File <- [i \in 1 .. N |-> i],
                                   copy <- [i \in 1 .. Len(disk) |-> disk[i].blk]

\* The receiver implements FileCopy: blocks are written once and in order, past
\* the wrap of their number, DONE is logged for a whole file only, and a file
\* that is there is never truncated or written again by a later upload, by a
\* request that was repeated, or after the receiver was interrupted.
CopiesFile == Abstract!Spec

\* A client that ends well has its own dump on the disk, all of it, whatever
\* earlier clients left there and whatever datagrams came late.
ClientKnows == cst = "done" => Len(disk) = N /\ \A i \in 1 .. N : disk[i].up = up

\* recv_file ends: a client that vanished does not keep the receiver.
ReceiverListens == st = "recv" ~> st = "listen"
=============================================================================

-------------------------------- MODULE Tftpd --------------------------------
(***************************************************************************)
(* The read-only TFTP server that the board is flashed from                *)
(* (tools/tftpd.py), a client, and a network that loses, duplicates,       *)
(* delays and reorders datagrams.                                          *)
(*                                                                         *)
(* Time is counted in ticks, because the server's timeout starts again     *)
(* with every datagram that it receives.  The client is modelled from what *)
(* the server expects of it: U-Boot, which acknowledges a block when it    *)
(* has stored it and repeats its last datagram after a timeout of its own. *)
(***************************************************************************)
EXTENDS Naturals, Sequences, FiniteSets

CONSTANTS
    File,       \* the blocks of the file; the last one is short
    W,          \* block numbers are taken modulo W (65536)
    RETRIES,    \* how often a datagram is sent
    TS,         \* the server's timeout
    TC,         \* the client's timeout
    CRetries,   \* timeouts after which the client gives up
    Delay,      \* a datagram is in the network for 1 to Delay ticks
    Requests,   \* the requests that a client may begin with
    MaxLoss,    \* bound: lost datagrams
    MaxDup      \* bound: duplicated datagrams

ASSUME TftpdAssumption ==
    /\ File \in Seq(1 .. Len(File)) /\ File # <<>>
    /\ W \in Nat \ {0, 1} /\ RETRIES \in Nat \ {0} /\ TS \in Nat \ {0} /\ TC \in Nat \ {0}
    /\ CRetries \in Nat /\ Delay \in Nat \ {0} /\ MaxLoss \in Nat /\ MaxDup \in Nat
    /\ Requests \subseteq {"options", "plain", "missing", "denied", "badoption", "malformed", "wrq"}

VARIABLES
    net,            \* datagrams on their way
    queue,          \* requests at the listening socket
    st,             \* what serve_file waits for: "listen" when it does not run
    port,           \* the port of the transfer's socket, a new one for each
    block,          \* the block it waits for; 0 for the OACK
    attempt, timer, \* send_await: times sent, ticks until the timeout
    done,           \* DONE was logged for the client's transfer
    cst, request, cport, got, clast, ctimer, ctries,    \* the client
    losses, dups

server == <<queue, st, port, block, attempt, timer, done>>
client == <<cst, request, cport, got, clast, ctimer, ctries>>
vars == <<net, server, client, losses, dups>>

Init ==
    /\ net = {} /\ queue = <<>> /\ st = "listen" /\ port = 0 /\ block = 0
    /\ attempt = 0 /\ timer = 0 /\ done = FALSE
    /\ cst = "start" /\ request = "none" /\ cport = 0 /\ got = <<>> /\ clast = 0
    /\ ctimer = 0 /\ ctries = 0
    /\ losses = 0 /\ dups = 0

\* A datagram of the transfer at port p: an OACK or ERROR, or a block.
Send(p, op, blk) == [to |-> "client", port |-> p, op |-> op, blk |-> blk, age |-> 0]
Ack(p, blk) == [to |-> "server", port |-> p, op |-> "ACK", blk |-> blk, age |-> 0]

\* The datagrams that may be received now.
Arrived(to) == {m \in net : m.to = to /\ m.age > 0}

-----------------------------------------------------------------------------
(* The server.                                                             *)

\* Mutant: the number is not taken modulo 2^16.
MutNumber(b) == b

\* block & 0xFFFF
Number(b) == b % W

\* The datagram that carries block b of the file, or the OACK.
Packet(p, b) ==
    IF b = 0 THEN Send(p, "OACK", 0)
    ELSE [to |-> "client", port |-> p, op |-> "DATA", blk |-> Number(b), data |-> b, age |-> 0]

\* send_await begins: the first attempt.
Begin(p, b, n) ==
    /\ block' = b /\ attempt' = 1 /\ timer' = TS
    /\ net' = n \cup {Packet(p, b)}

Listen == st' = "listen" /\ attempt' = 0 /\ timer' = 0 /\ block' = 0

\* main: a request that is not served is answered with an ERROR, or, when an
\* option is not a number, with nothing: the exception is only logged.
Refuse ==
    /\ st = "listen" /\ queue # <<>>
    /\ Head(queue) \in {"missing", "denied", "badoption", "malformed", "wrq"}
    /\ queue' = Tail(queue)
    /\ port' = port + 1
    /\ net' = IF Head(queue) = "badoption" THEN net
              ELSE net \cup {Send(port + 1, "ERROR", 0)}
    /\ UNCHANGED <<st, block, attempt, timer, done, client, losses, dups>>

\* serve_file: with options the OACK first, otherwise block 1.
Serve ==
    /\ st = "listen" /\ queue # <<>> /\ Head(queue) \in {"options", "plain"}
    /\ queue' = Tail(queue)
    /\ port' = port + 1 /\ st' = "await"
    /\ Begin(port + 1, IF Head(queue) = "options" THEN 0 ELSE 1, net)
    /\ UNCHANGED <<done, client, losses, dups>>

\* Mutant: any acknowledgement counts.
MutExpected(m) == m.op = "ACK"

Expected(m) == m.op = "ACK" /\ m.blk = Number(block)

\* A short block ends the transfer.
Last(b) == b = Len(File)

\* send_await returns True: the next block, or DONE.
Acked(m) ==
    /\ st = "await" /\ m \in Arrived("server") /\ m.port = port /\ Expected(m)
    /\ IF Last(block)
       THEN /\ done' = (done \/ cport = port) /\ net' = net \ {m} /\ Listen
       ELSE /\ Begin(port, block + 1, net \ {m}) /\ UNCHANGED <<st, done>>
    /\ UNCHANGED <<queue, port, client, losses, dups>>

\* A duplicate: recvfrom waits again, for the whole timeout.
OldAck(m) ==
    /\ st = "await" /\ m \in Arrived("server") /\ m.port = port
    /\ m.op = "ACK" /\ ~Expected(m)
    /\ net' = net \ {m} /\ timer' = TS
    /\ UNCHANGED <<queue, st, port, block, attempt, done, client, losses, dups>>

\* The client's ERROR aborts the transfer.
ClientError(m) ==
    /\ st = "await" /\ m \in Arrived("server") /\ m.port = port /\ m.op = "ERROR"
    /\ net' = net \ {m} /\ Listen
    /\ UNCHANGED <<queue, port, done, client, losses, dups>>

\* Mutant: the first timeout ends the transfer.
MutTriesLeft == FALSE

\* for attempt in range(RETRIES)
TriesLeft == attempt < RETRIES

\* Mutant: attempts are not counted.
MutNextAttempt == attempt

NextAttempt == attempt + 1

\* socket.timeout: send again, or give up.
Timeout ==
    /\ st = "await" /\ timer = 0
    /\ IF TriesLeft
       THEN /\ attempt' = NextAttempt /\ timer' = TS
            /\ net' = net \cup {Packet(port, block)}
            /\ UNCHANGED <<st, block>>
       ELSE Listen /\ UNCHANGED net
    /\ UNCHANGED <<queue, port, done, client, losses, dups>>

\* A datagram for a socket that is closed.
Closed(m) ==
    /\ m \in Arrived("server") /\ (m.port # port \/ st = "listen")
    /\ net' = net \ {m}
    /\ UNCHANGED <<server, client, losses, dups>>

-----------------------------------------------------------------------------
(* The client.                                                             *)

ClientRequests(r) ==
    /\ cst = "start"
    /\ cst' = "busy" /\ request' = r /\ queue' = Append(queue, r)
    /\ ctimer' = TC
    /\ UNCHANGED <<net, st, port, block, attempt, timer, done, cport, got, clast, ctries,
                   losses, dups>>

\* The request itself may be lost.
RequestLost(r) ==
    /\ cst = "start" /\ losses < MaxLoss
    /\ cst' = "busy" /\ request' = r /\ losses' = losses + 1
    /\ ctimer' = TC
    /\ UNCHANGED <<net, server, cport, got, clast, ctries, dups>>

\* The client's answer to m, which it takes only from the port it first heard
\* from: the next block is stored and acknowledged; a repeated one is
\* acknowledged again, or ignored.
ClientReceives(m, again) ==
    /\ m \in Arrived("client")
    /\ LET mine == cst = "busy" /\ (cport = 0 \/ cport = m.port)
           next == mine /\ m.op = "DATA" /\ m.blk = (Len(got) + 1) % W
           first == mine /\ m.op = "OACK" /\ got = <<>>
           error == mine /\ m.op = "ERROR"
       IN  CASE next ->
                  /\ got' = Append(got, File[m.data])
                  /\ cst' = IF m.data = Len(File) THEN "done" ELSE "busy"
                  /\ clast' = m.blk /\ cport' = m.port /\ ctimer' = TC /\ ctries' = 0
                  /\ net' = (net \ {m}) \cup {Ack(m.port, m.blk)}
             [] first ->
                  /\ clast' = 0 /\ cport' = m.port /\ ctimer' = TC /\ ctries' = 0
                  /\ net' = (net \ {m}) \cup {Ack(m.port, 0)}
                  /\ UNCHANGED <<got, cst>>
             [] error ->
                  /\ cst' = "failed" /\ net' = net \ {m}
                  /\ UNCHANGED <<got, clast, cport, ctimer, ctries>>
             [] OTHER ->
                  /\ net' = (net \ {m}) \cup
                       (IF again /\ mine /\ m.op = "DATA" /\ clast = m.blk /\ cport = m.port
                        THEN {Ack(m.port, m.blk)} ELSE {})
                  /\ UNCHANGED <<cst, got, clast, cport, ctimer, ctries>>
    /\ UNCHANGED <<server, request, losses, dups>>

\* The client repeats its last datagram, or gives up and says so or not.
ClientTimeout(says) ==
    /\ cst = "busy" /\ ctimer = 0
    /\ IF ctries < CRetries
       THEN /\ ctries' = ctries + 1 /\ ctimer' = TC
            /\ IF cport = 0 THEN queue' = Append(queue, request) /\ UNCHANGED net
                            ELSE net' = net \cup {Ack(cport, clast)} /\ UNCHANGED queue
            /\ UNCHANGED cst
       ELSE /\ cst' = "failed"
            /\ net' = IF says /\ cport # 0
                      THEN net \cup {[Ack(cport, 0) EXCEPT !.op = "ERROR"]} ELSE net
            /\ UNCHANGED <<queue, ctimer, ctries>>
    /\ UNCHANGED <<st, port, block, attempt, timer, done, request, cport, got, clast, losses, dups>>

-----------------------------------------------------------------------------
(* The network and time.                                                   *)

Lose(m) ==
    /\ m \in net /\ losses < MaxLoss
    /\ net' = net \ {m} /\ losses' = losses + 1
    /\ UNCHANGED <<server, client, dups>>

\* A second copy, told apart by its age.
Duplicate(m) ==
    /\ m \in net /\ dups < MaxDup /\ m.age < Delay
    /\ net' = net \cup {[m EXCEPT !.age = @ + 1]} /\ dups' = dups + 1
    /\ UNCHANGED <<server, client, losses>>

\* Datagrams arrive in time, timeouts and requests are not left waiting.
Tick ==
    /\ \A m \in net : m.age < Delay
    /\ st = "await" => timer > 0
    /\ cst = "busy" => ctimer > 0
    /\ st = "listen" => queue = <<>>
    /\ st = "await" \/ cst = "busy" \/ net # {}
    /\ timer' = IF st = "await" THEN timer - 1 ELSE timer
    /\ ctimer' = IF cst = "busy" THEN ctimer - 1 ELSE ctimer
    /\ net' = {[m EXCEPT !.age = @ + 1] : m \in net}
    /\ UNCHANGED <<queue, st, port, block, attempt, done, cst, request, cport, got, clast,
                   ctries, losses, dups>>

Server ==
    \/ Refuse \/ Serve \/ Timeout
    \/ \E m \in net : Acked(m) \/ OldAck(m) \/ ClientError(m) \/ Closed(m)

Client ==
    \/ \E r \in Requests : ClientRequests(r)
    \/ \E m \in net, again \in BOOLEAN : ClientReceives(m, again)
    \/ \E says \in BOOLEAN : ClientTimeout(says)

Network == \E m \in net : Lose(m) \/ Duplicate(m)

Next == Server \/ Client \/ Network \/ Tick \/ \E r \in Requests : RequestLost(r)

Spec == Init /\ [][Next]_vars

\* Time passes, and what is due happens.
FairSpec == Spec /\ WF_vars(Server) /\ WF_vars(Client) /\ WF_vars(Tick)

-----------------------------------------------------------------------------
(* Properties.                                                             *)

\* Every variable keeps its type: no block beyond the file, no attempt beyond
\* RETRIES.
TypeOK ==
    /\ \A m \in net : m.to \in {"client", "server"} /\ m.age \in 0 .. Delay /\ m.blk \in 0 .. W - 1
    /\ st \in {"listen", "await"} /\ port \in Nat /\ block \in 0 .. Len(File)
    /\ attempt \in 0 .. RETRIES /\ timer \in 0 .. TS /\ done \in BOOLEAN
    /\ cst \in {"start", "busy", "done", "failed"} /\ ctimer \in 0 .. TC
    /\ losses \in 0 .. MaxLoss /\ dups \in 0 .. MaxDup

Abstract == INSTANCE FileCopy WITH copy <- got

\* The server with its client implements FileCopy: whatever the network does,
\* blocks are stored once and in order, also past the wrap of their number,
\* and DONE is logged only when the client has the file.
CopiesFile == Abstract!Spec

\* serve_file ends: the server does not stay with one client.
ServerListens == st = "await" ~> st = "listen"

\* The client's timeout lies between two bounds.  Its repeated acknowledgements
\* are far enough apart for the server's timeout to expire between them,
\* although each starts it again when it arrives, up to Delay later; and the
\* attempts of the server outlast the client's timeouts, on which a client that
\* ignores repeated blocks depends alone.
TimeoutsFit == TC > TS + Delay /\ (MaxLoss + 1) * TC <= RETRIES * TS

\* With such timeouts, and a client that does not give up before, a client that
\* asks for the file gets it, whichever MaxLoss datagrams send_await, the client
\* and the request lose.
FileArrives ==
    TimeoutsFit /\ CRetries > MaxLoss => (request \in {"options", "plain"} ~> got = File)

\* The docstring of send_await: "Send pkt, wait for ACK of expect_block,
\* retransmit on timeout".  A block that is waited for is acknowledged, or it
\* is sent again.
RetransmitsOnTimeout ==
    \A b \in 0 .. Len(File) :
        (st = "await" /\ block = b) ~> done \/ (st = "await" /\ (block > b \/ attempt > 1))
=============================================================================

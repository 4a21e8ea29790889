------------------------------- MODULE NvmeTcp -------------------------------
(***************************************************************************)
(* The NVMe/TCP target: connection slots, the PDUs of a connection, and    *)
(* write and trim data that arrive in pieces after a ready-to-transfer.    *)
(*                                                                         *)
(* Each connection has two TCP streams of PDUs; a PDU is handled whole     *)
(* (nvme_tcp_process_pdu waits until it has arrived) and the connections   *)
(* are served in any order.  The unit of data is a page of a write or a    *)
(* range of a trim.  A call of the FTL may fail at any page.  The data of  *)
(* identify and log pages and the property registers are left out.         *)
(***************************************************************************)
EXTENDS Naturals, Sequences, FiniteSets, SequencesExt

CONSTANTS
    MaxConn,        \* NVME_TCP_MAX_CONNECTIONS
    TcpCid,         \* command identifiers the host uses on a connection
    TotalLpns,      \* pages of the FTL
    Starts,         \* first pages of the host's commands
    Data, Zero,     \* contents of a page
    MaxPages,       \* NVME_TCP_MAX_IO_SIZE: units of g_io_write_buf
    Lengths,        \* pages of writes
    Counts,         \* ranges of trims
    Sizes,          \* pages of reads and write zeroes, length fields of trim ranges
    MaxH2C,         \* maxh2cdata: pages in one data PDU
    MaxInline,      \* units of the longest command with data in its capsule
    SmallHost,      \* whether the bounds on what the host does apply
    Ops             \* commands the host sends

ASSUME TcpAssumption ==
    /\ {MaxConn, TotalLpns, MaxPages, MaxH2C, MaxInline} \cup Lengths \cup Counts \subseteq Nat \ {0}
    /\ Zero \notin Data /\ Starts \subseteq 0..TotalLpns - 1 /\ Sizes \subseteq 1..MaxPages
    /\ SmallHost \in BOOLEAN
    /\ Ops \subseteq {"READ", "WRITE", "TRIM", "WRITE_ZEROES", "OTHER"}

VARIABLES
    conn,       \* g_connections: state, qid and the transfer under way
    wbuf,       \* g_io_write_buf, one for all connections
    owner,      \* history: the connection whose transfer is whole in wbuf
    lost,       \* history: commands of a connection whose transfer another one replaced
    h2t, t2h,   \* the two streams of each connection
    host,       \* phase of each connection and the commands that wait
    disk        \* contents of the FTL

tcpVars == <<conn, wbuf, owner, lost, h2t, t2h, host, disk>>

Conn  == 0..MaxConn - 1
LPN   == 0..TotalLpns - 1
Unit  == 0..MaxPages - 1        \* a unit of g_io_write_buf
Moves == {"WRITE", "TRIM"}      \* the commands that carry data to the target

NoXfer == [op |-> "NONE"]       \* data_buffer is NULL
Closed == [state |-> "CLOSED", qid |-> 0, xfer |-> NoXfer]
NoTcpCmd == [op |-> "NONE"]
Nobody   == MaxConn

Min2(a, b) == IF a < b THEN a ELSE b

(* The units a command carries.                                            *)
Payload(cmd) == IF cmd.op \in Moves THEN cmd.data ELSE <<>>

(* A range of a trim: first page and length field.                         *)
Ranges == [lpn : Starts, n : Sizes]

(* The host's commands; a trim has its pages in its ranges only.           *)
Writes == UNION {[op : {"WRITE"}, lpn : Starts, n : {k}, data : [1..k -> Data]] : k \in Lengths}
TrimCmds == UNION {[op : {"TRIM"}, lpn : {0}, n : {k}, data : [1..k -> Ranges]] : k \in Counts}

TcpCommands == {cmd \in [op : {"READ", "WRITE_ZEROES"}, lpn : Starts, n : Sizes]
                       \cup [op : {"OTHER"}] \cup Writes \cup TrimCmds : cmd.op \in Ops}

TcpInit == /\ conn = [c \in Conn |-> Closed]
           /\ wbuf = [u \in Unit |-> Zero] /\ owner = Nobody
           /\ lost = [c \in Conn |-> {}]
           /\ h2t  = [c \in Conn |-> <<>>]
           /\ t2h  = [c \in Conn |-> <<>>]
           /\ host = [c \in Conn |-> [phase |-> "closed", cmd |-> [i \in TcpCid |-> NoTcpCmd],
                                      got |-> [i \in TcpCid |-> <<>>]]]
           /\ disk = [l \in LPN |-> Zero]

-----------------------------------------------------------------------------
(* The streams.  What the target sends after the host has closed the       *)
(* connection is lost.                                                     *)
Next1(c, type) == h2t[c] # <<>> /\ Head(h2t[c]).type = type
Takes(c)       == h2t' = [h2t EXCEPT ![c] = Tail(@)]
Sends(c, pdus) == t2h' = [t2h EXCEPT ![c] = IF host[c].phase = "closed" THEN <<>> ELSE @ \o pdus]
Resp(cid, ok)  == [type |-> "RESP", cid |-> cid, ok |-> ok]

(* Mutant: the piece that ends the data is not sent.                       *)
BugChunks(cid, data) ==
    [i \in 1..(Len(data) - 1) \div MaxH2C |->
        [type |-> "C2HDATA", cid |-> cid, off |-> (i - 1) * MaxH2C,
         data |-> SubSeq(data, (i - 1) * MaxH2C + 1, i * MaxH2C)]]

(* nvme_tcp_send_c2hdata_chunks.                                           *)
Chunks(cid, data) ==
    [i \in 1..(Len(data) + MaxH2C - 1) \div MaxH2C |->
        [type |-> "C2HDATA", cid |-> cid, off |-> (i - 1) * MaxH2C,
         data |-> SubSeq(data, (i - 1) * MaxH2C + 1, Min2(i * MaxH2C, Len(data)))]]

-----------------------------------------------------------------------------
(* Commands on the FTL.                                                    *)
Zeroes == [i \in LPN |-> Zero]

Written(l, k, pages) == [x \in LPN |-> IF x \in l..l + k - 1 THEN pages[x - l] ELSE disk[x]]

(* ftl_write page by page: k of n pages are written, an error ends the     *)
(* loop.                                                                   *)
WritePages(l, n, pages, ok) ==
    \E k \in 0..n : /\ l + k <= TotalLpns
                    /\ ok <=> (k = n)
                    /\ disk' = Written(l, k, pages)

(* ftl_read page by page; a page that cannot be read is answered as zeroes.*)
ReadResult(l, n) == {[i \in 1..n |-> IF l + i - 1 \in good THEN disk[l + i - 1] ELSE Zero] :
                        good \in {LPN \cap (l..l + n - 1), {}}}

(* The pages ftl_trim discards for a range: one more than its length field *)
(* says, none if it starts behind the last page, in which case it fails.   *)
Trims(r) == IF r.lpn \in LPN THEN LPN \cap (r.lpn..r.lpn + r.n) ELSE {}

(* What the code takes for a range in a unit: any range, if the unit has   *)
(* been overwritten with something else.                                   *)
Parsed(unit) == IF unit \in Ranges THEN {unit} ELSE [lpn : 0..TotalLpns, n : 0..TotalLpns - 1]

(* All ranges are tried and each that can be is discarded.                 *)
TrimPages(n, ranges, ok) ==
    \E rs \in [0..n - 1 -> UNION {Parsed(ranges[k]) : k \in 0..n - 1}] :
        /\ \A k \in 0..n - 1 : rs[k] \in Parsed(ranges[k])
        /\ ok <=> \A k \in 0..n - 1 : rs[k].lpn \in LPN
        /\ disk' = [x \in LPN |-> IF \E k \in 0..n - 1 : x \in Trims(rs[k]) THEN Zero ELSE disk[x]]

(* The end of a transfer: the units of the buffer go to the FTL.           *)
Apply(buf, op, l, total, ok) ==
    \/ op = "WRITE" /\ WritePages(l, total, buf, ok)
    \/ op = "TRIM" /\ TrimPages(total, buf, ok)

-----------------------------------------------------------------------------
Unanswered(c) == {i \in TcpCid : host[c].cmd[i] # NoTcpCmd}

(* The bounds of SmallHost: only a connection that is alone has several    *)
(* commands waiting, or on their way after the host has left; identifiers  *)
(* are taken in order; connections are closed one at a time.               *)
InFlight(c)   == {h2t[c][k].cid : k \in {k \in 1..Len(h2t[c]) : h2t[c][k].type \in {"CAPSULE", "H2CDATA"}}}
FirstOf(i, I) == \A j \in I : i <= j
MayJoin       == SmallHost => \A d \in Conn : /\ \A i \in Unanswered(d) \cup InFlight(d) : FirstOf(i, TcpCid)
                                             /\ lost[d] = {}
MaySubmit(c)  == (SmallHost /\ Unanswered(c) # {}) => \A d \in Conn \ {c} : conn[d].state = "CLOSED"
MayTake(c, i) == SmallHost => FirstOf(i, TcpCid \ Unanswered(c))
MayLeave(c)   == SmallHost => \A d \in Conn \ {c} : host[d].phase = "closed" => h2t[d] = <<>>

(* nvme_tcp_target_process: a new client gets the first free slot.         *)
TcpAccept(c) ==
    /\ conn[c].state = "CLOSED" /\ host[c].phase = "closed" /\ MayJoin
    /\ \A d \in Conn : d < c => conn[d].state # "CLOSED"
    /\ conn' = [conn EXCEPT ![c] = [Closed EXCEPT !.state = "NEW"]]
    /\ host' = [host EXCEPT ![c].phase = "init"]
    /\ h2t'  = [h2t EXCEPT ![c] = <<[type |-> "ICREQ"]>>]
    /\ UNCHANGED <<wbuf, owner, lost, t2h, disk>>

HandleIcReq(c) ==
    /\ Next1(c, "ICREQ") /\ Takes(c)
    /\ conn' = [conn EXCEPT ![c].state = "READY"]
    /\ Sends(c, <<[type |-> "ICRESP"]>>)
    /\ UNCHANGED <<wbuf, owner, lost, host, disk>>

(* Fabrics Connect: an I/O connection gets its queue.                      *)
HandleConnect(c) ==
    /\ Next1(c, "CONNECT") /\ Takes(c)
    /\ conn' = [conn EXCEPT ![c].qid = 1]
    /\ Sends(c, <<[type |-> "CONNECTED"]>>)
    /\ UNCHANGED <<wbuf, owner, lost, host, disk>>

Capsule(c, ops) == Next1(c, "CAPSULE") /\ Head(h2t[c]).cmd.op \in ops /\ Takes(c)

HandleRead(c) ==
    /\ Capsule(c, {"READ"})
    /\ LET p == Head(h2t[c])
       IN  \E data \in ReadResult(p.cmd.lpn, p.cmd.n) :
              Sends(c, Chunks(p.cid, data) \o <<Resp(p.cid, TRUE)>>)
    /\ UNCHANGED <<conn, wbuf, owner, lost, host, disk>>

HandleWriteZeroes(c) ==
    /\ Capsule(c, {"WRITE_ZEROES"})
    /\ LET p == Head(h2t[c])
       IN  \E ok \in BOOLEAN : /\ WritePages(p.cmd.lpn, p.cmd.n, Zeroes, ok)
                               /\ Sends(c, <<Resp(p.cid, ok)>>)
    /\ UNCHANGED <<conn, wbuf, owner, lost, host>>

(* Admin, fabrics and unknown commands: nothing modelled here changes and  *)
(* an error is reported as success.                                        *)
HandleOther(c) ==
    /\ Capsule(c, {"OTHER"})
    /\ Sends(c, <<Resp(Head(h2t[c]).cid, TRUE)>>)
    /\ UNCHANGED <<conn, wbuf, owner, lost, host, disk>>

(* A write or trim that is too long for the buffer is refused.             *)
HandleTooLong(c) ==
    /\ Capsule(c, Moves) /\ Len(Payload(Head(h2t[c]).cmd)) > MaxPages
    /\ Sends(c, <<Resp(Head(h2t[c]).cid, FALSE)>>)
    /\ UNCHANGED <<conn, wbuf, owner, lost, host, disk>>

Filled(buf, off, data) == [u \in Unit |-> IF u \in off..off + Len(data) - 1
                                          THEN data[u - off + 1] ELSE buf[u]]

(* The units a new transfer finds: a trim's are cleared first.             *)
Found(op, total) == [u \in Unit |-> IF op = "TRIM" /\ u < total THEN Zero ELSE wbuf[u]]

(* nvme_tcp_send_r2t: the rest of the data is asked for.                   *)
Asks(cid, here, total) == <<[type |-> "R2T", cid |-> cid, off |-> here, len |-> total - here]>>

(* A write or a trim: data in the capsule first, the rest is asked for.    *)
(* The connection keeps one transfer: one under way is forgotten.          *)
HandleMove(c) ==
    /\ Capsule(c, Moves) /\ Len(Payload(Head(h2t[c]).cmd)) <= MaxPages
    /\ lost' = [lost EXCEPT ![c] = @ \cup (IF conn[c].xfer = NoXfer THEN {} ELSE {conn[c].xfer.cid})]
    /\ LET p     == Head(h2t[c])
           total == Len(Payload(p.cmd))
           here  == Len(p.data)
       IN  /\ wbuf' = Filled(Found(p.cmd.op, total), 0, p.data) /\ owner' = c
           /\ IF here < total
              THEN /\ conn' = [conn EXCEPT ![c].xfer =
                                  [op |-> p.cmd.op, cid |-> p.cid, lpn |-> p.cmd.lpn,
                                   len |-> here, total |-> total]]
                   /\ Sends(c, Asks(p.cid, here, total))
                   /\ UNCHANGED disk
              ELSE /\ conn' = [conn EXCEPT ![c].xfer = NoXfer]
                   /\ \E ok \in BOOLEAN : /\ Apply(wbuf', p.cmd.op, p.cmd.lpn, total, ok)
                                          /\ Sends(c, <<Resp(p.cid, ok)>>)
    /\ UNCHANGED host

-----------------------------------------------------------------------------
(* nvme_tcp_handle_h2cdata.  The identifier in the PDU is not looked at.   *)
Room(x, off) == IF off < x.total THEN x.total - off ELSE 0
Copied(x, p) == SubSeq(p.data, 1, Min2(Len(p.data), Room(x, p.off)))

(* Mutant: the PDU that fills the buffer does not end the transfer.        *)
BugNeverEnds(x, p) == p.last /\ x.len + Len(Copied(x, p)) > x.total

Ends(x, p) == p.last /\ x.len + Len(Copied(x, p)) >= x.total

(* Mutant: each piece goes to the start of the buffer.                     *)
BugOffset(x, p) == 0

Offset(x, p) == p.off

HandleH2CData(c) ==
    /\ Next1(c, "H2CDATA") /\ Takes(c)
    /\ LET p == Head(h2t[c])
           x == conn[c].xfer
       IN  IF x = NoXfer THEN UNCHANGED <<conn, wbuf, owner, t2h, disk>>
           ELSE /\ wbuf' = Filled(wbuf, Offset(x, p), Copied(x, p))
                /\ owner' = IF owner = c THEN c ELSE Nobody
                /\ IF Ends(x, p)
                   THEN /\ conn' = [conn EXCEPT ![c].xfer = NoXfer]
                        /\ \E ok \in BOOLEAN : /\ Apply(wbuf', x.op, x.lpn, x.total, ok)
                                               /\ Sends(c, <<Resp(x.cid, ok)>>)
                   ELSE /\ conn' = [conn EXCEPT ![c].xfer.len = @ + Len(Copied(x, p))]
                        /\ UNCHANGED <<t2h, disk>>
    /\ UNCHANGED <<lost, host>>

(* A termination request marks the connection and nothing else.            *)
HandleTermReq(c) ==
    /\ Next1(c, "TERM") /\ Takes(c)
    /\ conn' = [conn EXCEPT ![c].state = "TERMINATING"]
    /\ UNCHANGED <<wbuf, owner, lost, t2h, host, disk>>

(* close_connection: recv returned 0 or an error.                          *)
HandleClose(c) ==
    /\ Next1(c, "EOF") /\ Takes(c)
    /\ conn' = [conn EXCEPT ![c] = Closed] /\ lost' = [lost EXCEPT ![c] = {}]
    /\ UNCHANGED <<wbuf, owner, t2h, host, disk>>

Target(c) == \/ HandleIcReq(c) \/ HandleConnect(c) \/ HandleRead(c) \/ HandleWriteZeroes(c)
             \/ HandleOther(c) \/ HandleTooLong(c) \/ HandleMove(c) \/ HandleH2CData(c)
             \/ HandleTermReq(c) \/ HandleClose(c)

-----------------------------------------------------------------------------
(* The host.                                                               *)
(* Units a capsule may carry: none if the command has more than MaxInline.  *)
InCapsule(cmd) == LET n == Len(Payload(cmd)) IN IF n <= MaxInline THEN 0..n ELSE {0}

(* A command, with some of its data in the capsule.                        *)
HostSubmits(c) ==
    /\ host[c].phase = "ready" /\ MaySubmit(c)
    /\ \E i \in TcpCid \ Unanswered(c), cmd \in TcpCommands :
         /\ MayTake(c, i)
         /\ \E k \in InCapsule(cmd) :
              h2t' = [h2t EXCEPT ![c] = Append(@, [type |-> "CAPSULE", cid |-> i, cmd |-> cmd,
                                                   data |-> SubSeq(Payload(cmd), 1, k)])]
         /\ host' = [host EXCEPT ![c].cmd[i] = cmd, ![c].got[i] = <<>>]
    /\ UNCHANGED <<conn, wbuf, owner, lost, t2h, disk>>

(* The data PDUs that answer a ready-to-transfer.                          *)
DataPdus(cmd, p) ==
    LET asked == SubSeq(Payload(cmd), p.off + 1, p.off + p.len)
        m     == (p.len + MaxH2C - 1) \div MaxH2C
    IN  [i \in 1..m |-> [type |-> "H2CDATA", cid |-> p.cid, off |-> p.off + (i - 1) * MaxH2C,
                         data |-> SubSeq(asked, (i - 1) * MaxH2C + 1, Min2(i * MaxH2C, p.len)),
                         last |-> i = m]]

HostReceives(c) ==
    /\ t2h[c] # <<>> /\ host[c].phase # "closed"
    /\ t2h' = [t2h EXCEPT ![c] = Tail(@)]
    /\ LET p == Head(t2h[c])
       IN  \/ /\ p.type = "ICRESP"
              /\ h2t' = [h2t EXCEPT ![c] = Append(@, [type |-> "CONNECT"])]
              /\ UNCHANGED host
           \/ /\ p.type = "CONNECTED"
              /\ host' = [host EXCEPT ![c].phase = "ready"]
              /\ UNCHANGED h2t
           \/ /\ p.type = "R2T"
              /\ h2t' = [h2t EXCEPT ![c] = @ \o DataPdus(host[c].cmd[p.cid], p)]
              /\ UNCHANGED host
           \/ /\ p.type = "C2HDATA"
              /\ host' = [host EXCEPT ![c].got[p.cid] = @ \o p.data]
              /\ UNCHANGED h2t
           \/ /\ p.type = "RESP"
              /\ host' = [host EXCEPT ![c].cmd[p.cid] = NoTcpCmd, ![c].got[p.cid] = <<>>]
              /\ UNCHANGED h2t
    /\ UNCHANGED <<conn, wbuf, owner, lost, disk>>

(* The host goes away: after a termination request, or at once, and then   *)
(* any part of what it sent last may be lost.                              *)
HostCloses(c) ==
    /\ host[c].phase = "ready" /\ MayLeave(c)
    /\ \/ h2t' = [h2t EXCEPT ![c] = @ \o <<[type |-> "TERM"], [type |-> "EOF"]>>]
       \/ \E k \in 0..Len(h2t[c]) :
             h2t' = [h2t EXCEPT ![c] = Append(SubSeq(@, 1, k), [type |-> "EOF"])]
    /\ host' = [host EXCEPT ![c] = [phase |-> "closed", cmd |-> [i \in TcpCid |-> NoTcpCmd],
                                    got |-> [i \in TcpCid |-> <<>>]]]
    /\ t2h' = [t2h EXCEPT ![c] = <<>>]
    /\ UNCHANGED <<conn, wbuf, owner, lost, disk>>

TcpNext == \E c \in Conn : \/ TcpAccept(c) \/ Target(c)
                           \/ HostSubmits(c) \/ HostReceives(c) \/ HostCloses(c)

(* The main loop polls every connection that has data, and the host reads. *)
TcpFairness == \A c \in Conn : WF_tcpVars(Target(c)) /\ WF_tcpVars(HostReceives(c))

TcpSpec == TcpInit /\ [][TcpNext]_tcpVars /\ TcpFairness

-----------------------------------------------------------------------------
TcpTypeOK ==
    /\ \A c \in Conn :
         /\ conn[c].state \in {"CLOSED", "NEW", "READY", "TERMINATING"}
         /\ conn[c].qid \in {0, 1}
         /\ conn[c].xfer = NoXfer \/ (conn[c].xfer.len \in Nat /\ conn[c].xfer.op \in Moves)
         /\ lost[c] \subseteq TcpCid
         /\ host[c].phase \in {"closed", "init", "ready"}
    /\ DOMAIN wbuf = Unit /\ DOMAIN disk = LPN
    /\ owner \in Conn \cup {Nobody}

Resps(c)    == {i \in 1..Len(t2h[c]) : t2h[c][i].type = "RESP"}
NewResp(c)  == /\ Len(t2h'[c]) > Len(t2h[c])
               /\ Last(t2h'[c]).type = "RESP"

(* A write that is reported as done has put the data of the host on its    *)
(* pages, however the data were cut into capsule and data PDUs, and while  *)
(* other connections come, go and send commands - as long as no other      *)
(* write or trim used g_io_write_buf between its first piece and its last, *)
(* and no command of its connection has taken the place of another's       *)
(* transfer, whose data are then still on their way.                       *)
WritesFaithful ==
    [][\A c \in Conn : NewResp(c) =>
          LET r   == Last(t2h'[c])
              cmd == host[c].cmd[r.cid]
          IN  (r.ok /\ cmd.op = "WRITE" /\ owner' = c /\ lost'[c] = {}) =>
                 \A i \in 1..cmd.n : disk'[cmd.lpn + i - 1] = cmd.data[i]]_tcpVars

(* When the response to a read arrives, all its pages have arrived.        *)
ReadsComplete ==
    \A c \in Conn :
        (t2h[c] # <<>> /\ Head(t2h[c]).type = "RESP") =>
            LET i == Head(t2h[c]).cid
            IN  host[c].cmd[i].op = "READ" => Len(host[c].got[i]) = host[c].cmd[i].n

OneResponse ==
    \A c \in Conn : \A i \in Resps(c) :
        /\ host[c].cmd[t2h[c][i].cid] # NoTcpCmd
        /\ \A j \in Resps(c) : t2h[c][i].cid = t2h[c][j].cid => i = j

(* The host gets exactly one response to each command: never one it does   *)
(* not wait for, and always one, unless its connection is closed or the    *)
(* command is a write or trim whose place the next one of its connection   *)
(* takes before its data are there. It does so however many commands with  *)
(* data mix on the connection, after data of the replaced one have gone    *)
(* into the buffer of the other, and with other connections in the shared  *)
(* buffer.                                                                 *)
AnsweredExactlyOnce ==
    /\ []OneResponse
    /\ \A c \in Conn, i \in TcpCid : []<>(i \notin Unanswered(c) \/ i \in lost[c])
=============================================================================

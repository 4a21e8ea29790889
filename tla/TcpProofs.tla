----------------------------- MODULE TcpProofs ------------------------------
(***************************************************************************)
(* Theorems about NvmeTcp, for any number of connections and of command    *)
(* identifiers, any length of the data and of a data PDU.                  *)
(***************************************************************************)
EXTENDS NvmeTcp, SequenceTheorems, TLAPS

-----------------------------------------------------------------------------
(* The streams: sequences of anything.                                     *)
IsSeq(s) == \E S : s \in Seq(S)

(* t is s with the list more put at its end, and without its first member. *)
Joined(t, s, more) ==
    /\ IsSeq(t) /\ Len(t) = Len(s) + Len(more)
    /\ \A k \in 1..Len(s) : t[k] = s[k]
    /\ \A k \in 1..Len(more) : t[Len(s) + k] = more[k]

Dropped(t, s) ==
    /\ IsSeq(t) /\ Len(s) = Len(t) + 1
    /\ \A k \in 1..Len(t) : t[k] = s[k + 1]

LEMMA SeqLength == ASSUME NEW s, IsSeq(s) PROVE Len(s) \in Nat /\ (Len(s) = 0 <=> s = <<>>)
<1>1. PICK S : s \in Seq(S)
  BY DEF IsSeq
<1>2. QED
  BY <1>1, LenProperties, EmptySeq

LEMMA SeqNone == IsSeq(<<>>) /\ Len(<<>>) = 0
<1>1. <<>> \in Seq({})
  BY EmptySeq
<1>2. QED
  BY <1>1, EmptySeq DEF IsSeq

LEMMA SeqOne == ASSUME NEW x PROVE IsSeq(<<x>>) /\ Len(<<x>>) = 1 /\ <<x>>[1] = x
<1>1. <<x>> \in Seq({x})
  OBVIOUS
<1>2. QED
  BY <1>1 DEF IsSeq

LEMMA SeqJoined == ASSUME NEW s, IsSeq(s), NEW more, IsSeq(more) PROVE Joined(s \o more, s, more)
<1>1. PICK S : s \in Seq(S)
  BY DEF IsSeq
<1>2. PICK T : more \in Seq(T)
  BY DEF IsSeq
<1>3. s \in Seq(S \cup T) /\ more \in Seq(S \cup T)
  <2>1. \A A, B : A \subseteq B => Seq(A) \subseteq Seq(B)
    BY SeqMonotonic
  <2>2. QED
    BY <1>1, <1>2, <2>1
<1>4. PICK t : t = s \o more
  OBVIOUS
<1>5. /\ t \in Seq(S \cup T) /\ Len(t) = Len(s) + Len(more)
      /\ \A i \in 1..Len(s) + Len(more) : t[i] = IF i <= Len(s) THEN s[i] ELSE more[i - Len(s)]
  BY <1>3, <1>4, ConcatProperties
<1>6. PICK m, n : m = Len(s) /\ n = Len(more) /\ m \in Nat /\ n \in Nat
  BY SeqLength
<1>7. ASSUME NEW k \in 1..m PROVE t[k] = s[k]
  BY <1>5, <1>6
<1>8. ASSUME NEW k \in 1..n PROVE t[m + k] = more[k]
  <2>1. m + k \in 1..m + n /\ ~(m + k <= m) /\ (m + k) - m = k
    BY <1>6
  <2>2. QED
    BY <1>5, <1>6, <2>1
<1>9. QED
  BY <1>4, <1>5, <1>6, <1>7, <1>8 DEF Joined, IsSeq

LEMMA SeqAppended == ASSUME NEW s, IsSeq(s), NEW x PROVE Append(s, x) = s \o <<x>>
<1>1. PICK S : s \in Seq(S)
  BY DEF IsSeq
<1>2. QED
  BY <1>1

LEMMA SeqDropped ==
    ASSUME NEW s, IsSeq(s), s # <<>>
    PROVE  Dropped(Tail(s), s) /\ Head(s) = s[1] /\ 1 \in 1..Len(s)
<1>1. PICK S : s \in Seq(S)
  BY DEF IsSeq
<1>2. PICK t : t = Tail(s) /\ t \in Seq(S) /\ Len(t) = Len(s) - 1 /\ (\A k \in 1..Len(t) : t[k] = s[k + 1])
  BY <1>1, HeadTailProperties
<1>3. Head(s) = s[1] /\ Len(s) \in Nat /\ Len(s) # 0
  BY <1>1, HeadTailProperties, SeqLength
<1>4. QED
  BY <1>2, <1>3 DEF Dropped, IsSeq

(* A function on 1..n is a sequence.                                       *)
LEMMA SeqFunction ==
    ASSUME NEW f, NEW n \in Nat, DOMAIN f = 1..n, f = [k \in 1..n |-> f[k]]
    PROVE  IsSeq(f) /\ Len(f) = n
<1> DEFINE S == {f[k] : k \in 1..n}
<1>1. f \in [1..n -> S]
  OBVIOUS
<1>2. f \in Seq(S)
  <2>1. [1..n -> S] \subseteq Seq(S)
    BY SeqDef
  <2>2. QED
    BY <1>1, <2>1
<1> HIDE DEF S
<1>3. Len(f) \in Nat /\ DOMAIN f = 1..Len(f)
  BY <1>2, LenProperties
<1>4. Len(f) = n
  BY <1>3
<1>5. QED
  BY <1>2, <1>4 DEF IsSeq

(* What a sequence of known length has between two positions.              *)
LEMMA SeqPart ==
    ASSUME NEW s, IsSeq(s), NEW lo \in Nat, NEW hi \in Nat, lo <= hi, hi <= Len(s)
    PROVE  /\ IsSeq(SubSeq(s, lo + 1, hi)) /\ Len(SubSeq(s, lo + 1, hi)) = hi - lo
           /\ \A k \in 1..hi - lo : SubSeq(s, lo + 1, hi)[k] = s[lo + k]
<1>1. PICK S : s \in Seq(S)
  BY DEF IsSeq
<1>2. PICK t : t = SubSeq(s, lo + 1, hi)
  OBVIOUS
<1>3. \A k \in 1..Len(s) : s[k] \in S
  BY <1>1, ElementOfSeq
<1>4. Len(s) \in Nat
  BY SeqLength
<1>5. t \in Seq(S) /\ Len(t) = hi - lo /\ \A k \in 1..hi - lo : t[k] = s[lo + k]
  BY <1>1, <1>2, <1>3, <1>4
<1>6. QED
  BY <1>2, <1>5 DEF IsSeq

-----------------------------------------------------------------------------
(* The pieces of the data of a read.                                       *)
Pieces(n)  == (n + MaxH2C - 1) \div MaxH2C
Sent(n, j) == Min2(j * MaxH2C, n)

LEMMA PieceFacts ==
    ASSUME NEW n \in Nat \ {0}
    PROVE  /\ Pieces(n) \in Nat \ {0} /\ Sent(n, 0) = 0 /\ Sent(n, Pieces(n)) = n
           /\ \A j \in 0..Pieces(n) : Sent(n, j) \in Nat /\ Sent(n, j) <= n
           /\ \A j \in 1..Pieces(n) :
                 Sent(n, j - 1) = (j - 1) * MaxH2C /\ Sent(n, j - 1) < n
                 /\ Sent(n, j - 1) < Sent(n, j)
<1>1. PICK M : M = MaxH2C /\ M \in Nat \ {0}
  BY TcpAssumption
<1>2. PICK m : m = (n + M - 1) \div M
  OBVIOUS
<1>3. m \in Nat /\ m * M <= n + M - 1 /\ n + M - 1 < (m + 1) * M
  BY <1>1, <1>2
<1>4. (m + 1) * M = m * M + M
  BY <1>1, <1>3
<1>5. m # 0 /\ m * M >= n
  <2>1. m * M \in Nat
    BY <1>1, <1>3
  <2>2. m * M >= n
    BY <1>1, <1>3, <1>4, <2>1
  <2>3. m = 0 => m * M = 0
    BY <1>1
  <2>4. QED
    BY <2>2, <2>3
<1>6. ASSUME NEW j \in 1..m PROVE (j - 1) * M < n /\ (j - 1) * M \in Nat /\ j * M = (j - 1) * M + M
  <2>1. PICK d : d = m - j /\ d \in Nat
    BY <1>3
  <2>2. j - 1 \in Nat /\ (j - 1) * M \in Nat /\ d * M \in Nat
    BY <1>1, <2>1
  <2>3. m = (j - 1) + d + 1
    BY <1>3, <2>1
  <2>4. m * M = (j - 1) * M + d * M + M
    <3>1. \A x, y \in Nat : (x + y + 1) * M = x * M + y * M + M
      BY <1>1
    <3>2. QED
      BY <2>1, <2>2, <2>3, <3>1
  <2>5. (j - 1) * M < n
    BY <1>1, <1>3, <2>2, <2>4
  <2>6. j * M = (j - 1) * M + M
    BY <1>1, <2>2
  <2>7. QED
    BY <2>2, <2>5, <2>6
<1>7. Pieces(n) = m
  BY <1>1, <1>2 DEF Pieces
<1>8. 0 * M = 0
  BY <1>1
<1>9. Sent(n, 0) = 0 /\ Sent(n, m) = n
  BY <1>1, <1>3, <1>5, <1>8 DEF Sent, Min2
<1>10. ASSUME NEW j \in 0..m PROVE Sent(n, j) \in Nat /\ Sent(n, j) <= n
  <2>1. j * M \in Nat
    BY <1>1
  <2>2. QED
    BY <1>1, <2>1 DEF Sent, Min2
<1>11. ASSUME NEW j \in 1..m
       PROVE Sent(n, j - 1) = (j - 1) * MaxH2C /\ Sent(n, j - 1) < n /\ Sent(n, j - 1) < Sent(n, j)
  BY <1>1, <1>6 DEF Sent, Min2
<1>12. QED
  BY <1>3, <1>5, <1>7, <1>9, <1>10, <1>11

(* p is piece number j of n pages for command i.                           *)
IsPiece(p, i, n, j) ==
    /\ p.type = "C2HDATA" /\ p.cid = i /\ IsSeq(p.data)
    /\ Len(p.data) = Sent(n, j) - Sent(n, j - 1)

LEMMA ChunksArePieces ==
    ASSUME NEW i, NEW data, IsSeq(data), Len(data) # 0
    PROVE  /\ IsSeq(Chunks(i, data)) /\ Len(Chunks(i, data)) = Pieces(Len(data))
           /\ \A j \in 1..Pieces(Len(data)) : IsPiece(Chunks(i, data)[j], i, Len(data), j)
<1>1. PICK n : n = Len(data) /\ n \in Nat \ {0}
  BY SeqLength
<1>2. PICK m : m = Pieces(n) /\ m \in Nat \ {0}
  BY <1>1, PieceFacts
<1>3. PICK f : f = Chunks(i, data)
  OBVIOUS
<1>4. f = [j \in 1..m |->
            [type |-> "C2HDATA", cid |-> i, off |-> (j - 1) * MaxH2C,
             data |-> SubSeq(data, (j - 1) * MaxH2C + 1, Min2(j * MaxH2C, n))]]
  BY <1>1, <1>2, <1>3 DEF Chunks, Pieces
<1>5. IsSeq(f) /\ Len(f) = m
  <2>1. DOMAIN f = 1..m /\ f = [j \in 1..m |-> f[j]]
    BY <1>4
  <2>2. QED
    BY <1>2, <2>1, SeqFunction
<1>6. ASSUME NEW j \in 1..m PROVE IsPiece(f[j], i, n, j)
  <2>1. PICK lo, hi : lo = (j - 1) * MaxH2C /\ hi = Min2(j * MaxH2C, n)
    OBVIOUS
  <2>2. lo = Sent(n, j - 1) /\ hi = Sent(n, j) /\ lo < hi
    BY <1>1, <1>2, <2>1, PieceFacts DEF Sent
  <2>3. lo \in Nat /\ hi \in Nat /\ hi <= n
    <3>1. j \in 0..m /\ j - 1 \in 0..m
      BY <1>2
    <3>2. QED
      BY <1>1, <1>2, <2>2, <3>1, PieceFacts
  <2>4. PICK part : part = SubSeq(data, lo + 1, hi) /\ IsSeq(part) /\ Len(part) = hi - lo
    <3>1. lo <= hi /\ hi <= Len(data)
      BY <1>1, <2>2, <2>3
    <3>2. IsSeq(SubSeq(data, lo + 1, hi)) /\ Len(SubSeq(data, lo + 1, hi)) = hi - lo
      BY <2>3, <3>1, SeqPart
    <3>3. QED
      BY <3>2
  <2>5. f[j] = [type |-> "C2HDATA", cid |-> i, off |-> lo, data |-> part]
    BY <1>4, <2>1, <2>4
  <2>6. PICK p : p = f[j]
    OBVIOUS
  <2>7. p.type = "C2HDATA" /\ p.cid = i /\ p.data = part
    BY <2>5, <2>6
  <2>8. IsPiece(p, i, n, j)
    BY <2>2, <2>4, <2>7 DEF IsPiece
  <2>9. QED
    BY <2>6, <2>8
<1>7. QED
  BY <1>1, <1>2, <1>3, <1>5, <1>6

-----------------------------------------------------------------------------
(* The commands.                                                           *)
LEMMA CommandFacts ==
    ASSUME NEW cmd \in TcpCommands
    PROVE  /\ cmd.op \in Ops /\ cmd # NoTcpCmd
           /\ cmd.op \in {"READ", "WRITE_ZEROES"} => cmd.n \in 1..MaxPages /\ cmd.lpn \in Starts
           /\ cmd.op = "WRITE" => cmd.lpn \in Starts
           /\ cmd.op \in Moves => cmd.n = Len(cmd.data) /\ cmd.n \in Nat \ {0} /\ IsSeq(cmd.data)
<1>0. NoTcpCmd.op = "NONE" /\ "NONE" \notin Ops
  BY TcpAssumption DEF NoTcpCmd
<1>1. cmd.op \in Ops
  BY DEF TcpCommands
<1>2. CASE cmd \in [op : {"READ", "WRITE_ZEROES"}, lpn : Starts, n : Sizes]
  BY <1>0, <1>1, <1>2, TcpAssumption DEF Moves
<1>3. CASE cmd \in [op : {"OTHER"}]
  BY <1>0, <1>1, <1>3 DEF Moves
<1>4. CASE cmd \in Writes
  <2>1. PICK k \in Lengths : cmd \in [op : {"WRITE"}, lpn : Starts, n : {k}, data : [1..k -> Data]]
    BY <1>4 DEF Writes
  <2>2. /\ k \in Nat \ {0} /\ cmd.op = "WRITE" /\ cmd.lpn \in Starts /\ cmd.n = k
        /\ DOMAIN cmd.data = 1..k /\ cmd.data = [j \in 1..k |-> cmd.data[j]]
    BY <2>1, TcpAssumption
  <2>3. IsSeq(cmd.data) /\ Len(cmd.data) = k
    BY <2>2, SeqFunction
  <2>4. QED
    BY <1>0, <1>1, <2>2, <2>3
<1>5. CASE cmd \in TrimCmds
  <2>1. PICK k \in Counts : cmd \in [op : {"TRIM"}, lpn : {0}, n : {k}, data : [1..k -> Ranges]]
    BY <1>5 DEF TrimCmds
  <2>2. /\ k \in Nat \ {0} /\ cmd.op = "TRIM" /\ cmd.n = k
        /\ DOMAIN cmd.data = 1..k /\ cmd.data = [j \in 1..k |-> cmd.data[j]]
    BY <2>1, TcpAssumption
  <2>3. IsSeq(cmd.data) /\ Len(cmd.data) = k
    BY <2>2, SeqFunction
  <2>4. QED
    BY <1>0, <1>1, <2>2, <2>3
<1>6. QED
  BY <1>2, <1>3, <1>4, <1>5 DEF TcpCommands

LEMMA PayloadFacts ==
    ASSUME NEW cmd \in TcpCommands
    PROVE  /\ IsSeq(Payload(cmd)) /\ Len(Payload(cmd)) \in Nat
           /\ cmd.op \in Moves <=> Len(Payload(cmd)) # 0
           /\ cmd.op = "WRITE" => Payload(cmd) = cmd.data
<1>1. CASE cmd.op \in Moves
  BY <1>1, CommandFacts DEF Payload
<1>2. CASE cmd.op \notin Moves
  BY <1>2, SeqNone DEF Payload, Moves
<1>3. QED
  BY <1>1, <1>2

-----------------------------------------------------------------------------
(* The link between target and host of one connection, with its streams a  *)
(* and b.                                                                  *)

(* Nothing in b is about command i.                                        *)
Quiet(b, i) == \A k \in 1..Len(b) : b[k].type \in {"C2HDATA", "RESP"} => b[k].cid # i

(* A command on its way is the one the host waits for; nothing else in the *)
(* connection is about it yet.                                             *)
OnItsWay(co, ho, a, b, p) ==
    /\ p.cid \in TcpCid /\ p.cmd = ho.cmd[p.cid] /\ p.cmd \in TcpCommands
    /\ ho.got[p.cid] = <<>> /\ Quiet(b, p.cid)
    /\ co.xfer # NoXfer => co.xfer.cid # p.cid
    /\ \E k \in Nat : k <= Len(Payload(p.cmd)) /\ p.data = SubSeq(Payload(p.cmd), 1, k)

CapsulesOk(co, ho, a, b) ==
    \A k \in 1..Len(a) : a[k].type = "CAPSULE" =>
        /\ OnItsWay(co, ho, a, b, a[k])
        /\ \A j \in 1..Len(a) : a[j].type = "CAPSULE" /\ a[j].cid = a[k].cid => j = k

TransferOk(co, ho, b) ==
    co.xfer # NoXfer =>
        /\ co.xfer.cid \in TcpCid /\ ho.cmd[co.xfer.cid] \in TcpCommands
        /\ ho.cmd[co.xfer.cid].op \in Moves /\ Quiet(b, co.xfer.cid)

(* The response to a read of n pages is at r; the host has g already.      *)
Delivered(b, r, i, n, g) ==
    /\ \A q \in 1..Pieces(n) : q < r => IsPiece(b[r - q], i, n, Pieces(n) - q + 1)
    /\ IsSeq(g)
    /\ r <= Pieces(n) => Len(g) = Sent(n, Pieces(n) - (r - 1))
    /\ r > Pieces(n) => Len(g) = 0

ResponseOk(ho, b, r) ==
    LET i == b[r].cid
    IN  /\ i \in TcpCid /\ ho.cmd[i] \in TcpCommands
        /\ \A k \in 1..Len(b) : b[k].type = "RESP" /\ b[k].cid = i => k = r
        /\ ho.cmd[i].op = "READ" => Delivered(b, r, i, ho.cmd[i].n, ho.got[i])

ResponsesOk(ho, b) == \A r \in 1..Len(b) : b[r].type = "RESP" => ResponseOk(ho, b, r)

(* Data in b are followed by their response.                               *)
Followed(ho, b, k) ==
    \E r \in k + 1..Len(b) :
        /\ b[r].type = "RESP" /\ b[r].cid = b[k].cid
        /\ ho.cmd[b[k].cid].op = "READ" /\ r - k <= Pieces(ho.cmd[b[k].cid].n)

DataOk(ho, b) ==
    \A k \in 1..Len(b) : /\ b[k].type = "C2HDATA" => Followed(ho, b, k)
                         /\ b[k].type = "R2T" => b[k].len \in Nat

Talking(co, ho, a, b) ==
    /\ co.state # "CLOSED"
    /\ \A k \in 1..Len(a) : a[k].type \in {"CAPSULE", "H2CDATA"}
    /\ \A k \in 1..Len(b) : b[k].type \in {"R2T", "C2HDATA", "RESP"}
    /\ CapsulesOk(co, ho, a, b) /\ TransferOk(co, ho, b) /\ ResponsesOk(ho, b) /\ DataOk(ho, b)

Idle(ho) == \A i \in TcpCid : ho.cmd[i] = NoTcpCmd

Greeting(co, ho, a, b) ==
    /\ co.state # "CLOSED" /\ co.xfer = NoXfer /\ Idle(ho) /\ Len(a) + Len(b) = 1
    /\ \A k \in 1..Len(a) : a[k].type \in {"ICREQ", "CONNECT"}
    /\ \A k \in 1..Len(b) : b[k].type \in {"ICRESP", "CONNECTED"}

Gone(co, ho, a, b) ==
    /\ b = <<>> /\ Idle(ho)
    /\ \/ co.state = "CLOSED" /\ a = <<>> /\ co.xfer = NoXfer
       \/ /\ co.state # "CLOSED" /\ a # <<>> /\ a[Len(a)].type = "EOF"
          /\ \A k \in 1..Len(a) : a[k].type = "EOF" => k = Len(a)

Link(co, ho, a, b) ==
    /\ DOMAIN co = {"state", "qid", "xfer"} /\ DOMAIN ho = {"phase", "cmd", "got"}
    /\ DOMAIN ho.cmd = TcpCid /\ DOMAIN ho.got = TcpCid
    /\ co.xfer # NoXfer => DOMAIN co.xfer = {"op", "cid", "lpn", "len", "total"}
    /\ IsSeq(a) /\ IsSeq(b)
    /\ ho.phase \in {"closed", "init", "ready"}
    /\ ho.phase = "closed" => Gone(co, ho, a, b)
    /\ ho.phase = "init" => Greeting(co, ho, a, b)
    /\ ho.phase = "ready" => Talking(co, ho, a, b)

LinkInv ==
    /\ DOMAIN conn = Conn /\ DOMAIN host = Conn /\ DOMAIN h2t = Conn /\ DOMAIN t2h = Conn
    /\ \A c \in Conn : Link(conn[c], host[c], h2t[c], t2h[c])

LEMMA LinkMeaning == LinkInv => ReadsComplete /\ OneResponse
<1> SUFFICES ASSUME LinkInv PROVE ReadsComplete /\ OneResponse
  OBVIOUS
<1>1. ASSUME NEW c \in Conn, t2h[c] # <<>>, Head(t2h[c]).type = "RESP",
             host[c].cmd[Head(t2h[c]).cid].op = "READ"
      PROVE  Len(host[c].got[Head(t2h[c]).cid]) = host[c].cmd[Head(t2h[c]).cid].n
  <2>1. PICK ho, b, p : ho = host[c] /\ b = t2h[c] /\ p = Head(b)
    OBVIOUS
  <2>2. IsSeq(b) /\ ho.phase = "ready" /\ ResponsesOk(ho, b)
    <3>1. IsSeq(b) /\ ho.phase \in {"closed", "init", "ready"}
      BY <2>1 DEF LinkInv, Link
    <3>2. ho.phase # "closed"
      BY <1>1, <2>1 DEF LinkInv, Link, Gone
    <3>3. ho.phase # "init"
      <4>1. p = b[1] /\ 1 \in 1..Len(b)
        BY <1>1, <2>1, <3>1, SeqDropped
      <4>2. QED
        BY <1>1, <2>1, <4>1 DEF LinkInv, Link, Greeting
    <3>4. ho.phase = "ready"
      BY <3>1, <3>2, <3>3
    <3>5. QED
      BY <2>1, <3>1, <3>4 DEF LinkInv, Link, Talking
  <2>3. p = b[1] /\ 1 \in 1..Len(b)
    BY <1>1, <2>1, <2>2, SeqDropped
  <2>4. PICK i : i = p.cid
    OBVIOUS
  <2>5. ResponseOk(ho, b, 1)
    BY <1>1, <2>1, <2>2, <2>3 DEF ResponsesOk
  <2>6. PICK n, g : n = ho.cmd[i].n /\ g = ho.got[i] /\ Delivered(b, 1, i, n, g)
    BY <1>1, <2>1, <2>3, <2>4, <2>5 DEF ResponseOk
  <2>7. n \in Nat \ {0}
    <3>1. ho.cmd[i] \in TcpCommands /\ ho.cmd[i].op = "READ"
      BY <1>1, <2>1, <2>3, <2>4, <2>5 DEF ResponseOk
    <3>2. n \in 1..MaxPages /\ MaxPages \in Nat
      BY <2>6, <3>1, CommandFacts, TcpAssumption
    <3>3. QED
      BY <3>2
  <2>8. PICK m : m = Pieces(n) /\ m \in Nat \ {0} /\ Sent(n, m) = n
    BY <2>7, PieceFacts
  <2>9. m - (1 - 1) = m /\ 1 <= m
    BY <2>8
  <2>10. Len(g) = n
    BY <2>6, <2>8, <2>9 DEF Delivered
  <2>11. QED
    BY <2>1, <2>4, <2>6, <2>10
<1>2. OneResponse
  <2> SUFFICES ASSUME NEW c \in Conn, NEW r \in Resps(c)
               PROVE  /\ host[c].cmd[t2h[c][r].cid] # NoTcpCmd
                      /\ \A j \in Resps(c) : t2h[c][r].cid = t2h[c][j].cid => r = j
    BY DEF OneResponse
  <2>1. PICK ho, b : ho = host[c] /\ b = t2h[c]
    OBVIOUS
  <2>2. r \in 1..Len(b) /\ b[r].type = "RESP" /\ ho.phase \in {"closed", "init", "ready"}
    BY <2>1 DEF Resps, LinkInv, Link
  <2>3. ho.phase = "ready"
    <3>1. ho.phase # "closed"
      BY <2>1, <2>2, SeqNone DEF LinkInv, Link, Gone
    <3>2. ho.phase # "init"
      BY <2>1, <2>2 DEF LinkInv, Link, Greeting
    <3>3. QED
      BY <2>2, <3>1, <3>2
  <2>4. ResponseOk(ho, b, r)
    BY <2>1, <2>2, <2>3 DEF LinkInv, Link, Talking, ResponsesOk
  <2>5. QED
    BY <2>1, <2>4, CommandFacts DEF ResponseOk, Resps
<1>3. QED
  BY <1>1, <1>2 DEF ReadsComplete

LEMMA JoinedIndex ==
    ASSUME NEW s, IsSeq(s), NEW more, IsSeq(more), NEW t, Joined(t, s, more), NEW k \in 1..Len(t)
    PROVE  \/ k \in 1..Len(s) /\ t[k] = s[k]
           \/ \E j \in 1..Len(more) : k = Len(s) + j /\ t[k] = more[j]
<1>1. PICK m, n : m = Len(s) /\ n = Len(more) /\ m \in Nat /\ n \in Nat /\ Len(t) = m + n
  BY SeqLength DEF Joined
<1>2. CASE k <= m
  <2>1. k \in 1..m
    BY <1>1, <1>2
  <2>2. QED
    BY <1>1, <2>1 DEF Joined
<1>3. CASE k > m
  <2>1. PICK j : j = k - m /\ j \in 1..n /\ k = m + j
    BY <1>1, <1>3
  <2>2. QED
    BY <1>1, <2>1 DEF Joined
<1>4. QED
  BY <1>1, <1>2, <1>3

LEMMA AppendedIndex ==
    ASSUME NEW s, IsSeq(s), NEW p, NEW t, Joined(t, s, <<p>>), NEW k \in 1..Len(t)
    PROVE  \/ k \in 1..Len(s) /\ t[k] = s[k]
           \/ k = Len(s) + 1 /\ t[k] = p
<1>1. PICK more : more = <<p>>
  OBVIOUS
<1>2. IsSeq(more) /\ Len(more) = 1 /\ more[1] = p /\ Joined(t, s, more)
  BY <1>1, SeqOne
<1>3. CASE k \in 1..Len(s) /\ t[k] = s[k]
  BY <1>3
<1>4. CASE \E j \in 1..Len(more) : k = Len(s) + j /\ t[k] = more[j]
  <2>1. PICK j \in 1..1 : k = Len(s) + j /\ t[k] = more[j]
    BY <1>2, <1>4
  <2>2. j = 1
    BY <2>1
  <2>3. QED
    BY <1>2, <2>1, <2>2
<1>5. QED
  BY <1>2, <1>3, <1>4, JoinedIndex

LEMMA DroppedIndex ==
    ASSUME NEW s, IsSeq(s), NEW t, Dropped(t, s)
    PROVE  /\ Len(t) \in Nat /\ Len(s) = Len(t) + 1
           /\ \A k \in 1..Len(t) : t[k] = s[k + 1] /\ k + 1 \in 1..Len(s) /\ k + 1 # 1
<1>1. Len(t) \in Nat /\ Len(s) = Len(t) + 1 /\ \A k \in 1..Len(t) : t[k] = s[k + 1]
  BY SeqLength DEF Dropped
<1>2. QED
  BY <1>1

(* Command i is not on its way.                                            *)
Without(a, i) == \A k \in 1..Len(a) : a[k].type = "CAPSULE" => a[k].cid # i

LEMMA CapsuleTaken ==
    ASSUME NEW co, NEW ho, NEW a, IsSeq(a), NEW b, CapsulesOk(co, ho, a, b), NEW a2, Dropped(a2, a)
    PROVE  /\ CapsulesOk(co, ho, a2, b)
           /\ a[1].type = "CAPSULE" => OnItsWay(co, ho, a, b, a[1]) /\ Without(a2, a[1].cid)
<1>1. /\ \A k \in 1..Len(a2) : a2[k] = a[k + 1] /\ k + 1 \in 1..Len(a) /\ k + 1 # 1
      /\ 1 \in 1..Len(a)
  BY DroppedIndex
<1>2. CapsulesOk(co, ho, a2, b)
  <2> SUFFICES ASSUME NEW k \in 1..Len(a2), a2[k].type = "CAPSULE"
               PROVE  /\ OnItsWay(co, ho, a2, b, a2[k])
                      /\ \A j \in 1..Len(a2) : a2[j].type = "CAPSULE" /\ a2[j].cid = a2[k].cid => j = k
    BY DEF CapsulesOk
  <2>1. OnItsWay(co, ho, a, b, a2[k])
    BY <1>1 DEF CapsulesOk
  <2>2. OnItsWay(co, ho, a2, b, a2[k])
    BY <2>1 DEF OnItsWay
  <2>3. ASSUME NEW j \in 1..Len(a2), a2[j].type = "CAPSULE", a2[j].cid = a2[k].cid PROVE j = k
    <3>1. j + 1 = k + 1
      BY SMTT(30), <1>1, <2>3 DEF CapsulesOk
    <3>2. QED
      BY <3>1
  <2>4. QED
    BY <2>2, <2>3
<1>3. ASSUME a[1].type = "CAPSULE" PROVE OnItsWay(co, ho, a, b, a[1]) /\ Without(a2, a[1].cid)
  BY <1>1, <1>3 DEF CapsulesOk, Without
<1>4. QED
  BY <1>2, <1>3

-----------------------------------------------------------------------------
(* The answer to command i: the pieces of a read and the response.         *)
IsAnswer(more, ho, i, m) ==
    /\ IsSeq(more) /\ m \in Nat /\ Len(more) = m + 1
    /\ more[m + 1].type = "RESP" /\ more[m + 1].cid = i
    /\ \A j \in 1..m : more[j].type = "C2HDATA" /\ more[j].cid = i
    /\ ho.cmd[i].op # "READ" => m = 0
    /\ ho.cmd[i].op = "READ" =>
          /\ m = Pieces(ho.cmd[i].n) /\ ho.got[i] = <<>>
          /\ \A j \in 1..m : IsPiece(more[j], i, ho.cmd[i].n, j)

LEMMA AnswerQuiet ==
    ASSUME NEW ho, NEW b, IsSeq(b), NEW i, NEW m, NEW more, IsAnswer(more, ho, i, m),
           NEW b2, Joined(b2, b, more), NEW j, j # i, Quiet(b, j)
    PROVE  Quiet(b2, j)
<1> SUFFICES ASSUME NEW k \in 1..Len(b2), b2[k].type \in {"C2HDATA", "RESP"} PROVE b2[k].cid # j
  BY DEF Quiet
<1>1. IsSeq(more)
  BY DEF IsAnswer
<1>2. CASE k \in 1..Len(b) /\ b2[k] = b[k]
  BY <1>2 DEF Quiet
<1>3. ASSUME NEW h \in 1..Len(more), b2[k] = more[h] PROVE b2[k].cid # j
  <2>1. h \in 1..m \/ h = m + 1
    BY DEF IsAnswer
  <2>2. QED
    BY <1>3, <2>1 DEF IsAnswer
<1>4. QED
  BY <1>1, <1>2, <1>3, JoinedIndex

LEMMA AnswerTalks ==
    ASSUME NEW co, NEW ho, NEW a, NEW b, IsSeq(b), NEW i \in TcpCid, ho.cmd[i] \in TcpCommands,
           Quiet(b, i), Without(a, i), co.xfer # NoXfer => co.xfer.cid # i,
           NEW m, NEW more, IsAnswer(more, ho, i, m), NEW b2, Joined(b2, b, more),
           Talking(co, ho, a, b)
    PROVE  Talking(co, ho, a, b2)
<1>1. PICK n : n = Len(b) /\ n \in Nat /\ Len(b2) = n + (m + 1) /\ IsSeq(more) /\ m \in Nat
  BY SeqLength DEF Joined, IsAnswer
<1>2. /\ \A k \in 1..n : b2[k] = b[k]
      /\ \A j \in 1..m + 1 : b2[n + j] = more[j]
  BY <1>1 DEF Joined, IsAnswer
<1>3. \A k \in 1..Len(b2) : k \in 1..n \/ \E j \in 1..m + 1 : k = n + j
  <2> TAKE k \in 1..Len(b2)
  <2>1. CASE k <= n
    BY <1>1, <2>1
  <2>2. CASE k > n
    <3>1. k - n \in 1..m + 1 /\ k = n + (k - n)
      BY <1>1, <2>2
    <3>2. QED
      BY <3>1
  <2>3. QED
    BY <1>1, <2>1, <2>2
<1>4. \A k \in 1..n : k \in 1..Len(b2)
  BY <1>1
<1>5. \A j \in 1..m + 1 : /\ j \in 1..m \/ j = m + 1
                          /\ more[j].cid = i /\ more[j].type \in {"C2HDATA", "RESP"}
                          /\ more[j].type = "RESP" => j = m + 1
  <2>1. \A j \in 1..m + 1 : j \in 1..m \/ j = m + 1
    BY <1>1
  <2>2. QED
    BY <2>1 DEF IsAnswer
<1>6. CapsulesOk(co, ho, a, b2)
  <2> SUFFICES ASSUME NEW k \in 1..Len(a), a[k].type = "CAPSULE"
               PROVE  /\ OnItsWay(co, ho, a, b2, a[k])
                      /\ \A j \in 1..Len(a) : a[j].type = "CAPSULE" /\ a[j].cid = a[k].cid => j = k
    BY DEF CapsulesOk
  <2>1. /\ OnItsWay(co, ho, a, b, a[k])
        /\ \A j \in 1..Len(a) : a[j].type = "CAPSULE" /\ a[j].cid = a[k].cid => j = k
    BY DEF Talking, CapsulesOk
  <2>2. a[k].cid # i /\ Quiet(b, a[k].cid)
    BY <2>1 DEF Without, OnItsWay
  <2>3. Quiet(b2, a[k].cid)
    BY <2>2, AnswerQuiet
  <2>4. QED
    BY <2>1, <2>3 DEF OnItsWay
<1>7. TransferOk(co, ho, b2)
  <2> SUFFICES ASSUME co.xfer # NoXfer
               PROVE  /\ co.xfer.cid \in TcpCid /\ ho.cmd[co.xfer.cid] \in TcpCommands
                      /\ ho.cmd[co.xfer.cid].op \in Moves /\ Quiet(b2, co.xfer.cid)
    BY DEF TransferOk
  <2>1. /\ co.xfer.cid \in TcpCid /\ ho.cmd[co.xfer.cid] \in TcpCommands
        /\ ho.cmd[co.xfer.cid].op \in Moves /\ Quiet(b, co.xfer.cid) /\ co.xfer.cid # i
    BY DEF TransferOk, Talking
  <2>2. QED
    BY <2>1, AnswerQuiet
<1>8. ResponsesOk(ho, b2)
  <2> SUFFICES ASSUME NEW r \in 1..Len(b2), b2[r].type = "RESP" PROVE ResponseOk(ho, b2, r)
    BY DEF ResponsesOk
  <2>1. CASE r \in 1..n
    <3>1. PICK j : j = b[r].cid /\ b2[r] = b[r] /\ j # i
      <4>1. b2[r] = b[r] /\ b[r].type \in {"C2HDATA", "RESP"} /\ r \in 1..Len(b)
        BY <1>1, <1>2, <2>1
      <4>2. b[r].cid # i
        BY <4>1 DEF Quiet
      <4>3. QED
        BY <4>1, <4>2
    <3>2. ResponseOk(ho, b, r)
      BY <1>1, <2>1, <3>1 DEF Talking, ResponsesOk
    <3>3. ASSUME NEW k \in 1..Len(b2), b2[k].type = "RESP", b2[k].cid = j PROVE k = r
      <4>1. k \in 1..n
        BY <1>2, <1>3, <1>5, <3>1, <3>3
      <4>2. QED
        BY <1>1, <1>2, <3>1, <3>2, <3>3, <4>1 DEF ResponseOk
    <3>4. ASSUME ho.cmd[j].op = "READ" PROVE Delivered(b2, r, j, ho.cmd[j].n, ho.got[j])
      <4>1. PICK w, g : w = ho.cmd[j].n /\ g = ho.got[j] /\ Delivered(b, r, j, w, g)
        BY <3>1, <3>2, <3>4 DEF ResponseOk
      <4>2. Pieces(w) \in Nat
        <5>1. w \in 1..MaxPages /\ MaxPages \in Nat
          BY <3>1, <3>2, <3>4, <4>1, CommandFacts, TcpAssumption DEF ResponseOk
        <5>2. w \in Nat \ {0}
          BY <5>1
        <5>3. QED
          BY <5>2, PieceFacts
      <4>3. \A q \in 1..Pieces(w) : q < r => b2[r - q] = b[r - q]
        <5>1. \A q \in 1..Pieces(w) : q < r => r - q \in 1..n
          BY <1>1, <2>1, <4>2
        <5>2. QED
          BY <1>2, <5>1
      <4>4. Delivered(b2, r, j, w, g)
        BY <4>1, <4>3 DEF Delivered
      <4>5. QED
        BY <4>1, <4>4
    <3>5. QED
      BY <3>1, <3>2, <3>3, <3>4 DEF ResponseOk
  <2>2. CASE r \notin 1..n
    <3>1. r = n + (m + 1) /\ b2[r].cid = i
      BY <1>2, <1>3, <1>5, <2>2
    <3>2. ASSUME NEW k \in 1..Len(b2), b2[k].type = "RESP", b2[k].cid = i PROVE k = r
      <4>1. k \notin 1..n
        BY <1>1, <1>2, <3>2 DEF Quiet
      <4>2. QED
        BY <1>2, <1>3, <1>5, <3>1, <3>2, <4>1
    <3>3. ASSUME ho.cmd[i].op = "READ" PROVE Delivered(b2, r, i, ho.cmd[i].n, ho.got[i])
      <4>1. PICK w, g : w = ho.cmd[i].n /\ g = ho.got[i]
        OBVIOUS
      <4>2. m = Pieces(w) /\ g = <<>> /\ \A j \in 1..m : IsPiece(more[j], i, w, j)
        BY <3>3, <4>1 DEF IsAnswer
      <4>3. ASSUME NEW q \in 1..m PROVE IsPiece(b2[r - q], i, w, m - q + 1)
        <5>1. PICK j : j = m - q + 1 /\ j \in 1..m /\ j \in 1..m + 1 /\ r - q = n + j
          BY <1>1, <3>1
        <5>2. b2[r - q] = more[j]
          BY <1>2, <5>1
        <5>3. QED
          BY <4>2, <5>1, <5>2
      <4>4. IsSeq(g) /\ Len(g) = 0
        BY <4>2, SeqNone
      <4>5. r > m /\ ~(r <= m)
        BY <1>1, <3>1
      <4>6. Delivered(b2, r, i, w, g)
        BY <4>2, <4>3, <4>4, <4>5 DEF Delivered
      <4>7. QED
        BY <4>1, <4>6
    <3>4. QED
      BY <3>1, <3>2, <3>3 DEF ResponseOk
  <2>3. QED
    BY <2>1, <2>2
<1>9. DataOk(ho, b2)
  <2> SUFFICES ASSUME NEW k \in 1..Len(b2)
               PROVE  /\ b2[k].type = "C2HDATA" => Followed(ho, b2, k)
                      /\ b2[k].type = "R2T" => b2[k].len \in Nat
    BY DEF DataOk
  <2>1. CASE k \in 1..n
    <3>1. ASSUME b2[k].type = "C2HDATA" PROVE Followed(ho, b2, k)
      <4>1. PICK r \in k + 1..n :
                 /\ b[r].type = "RESP" /\ b[r].cid = b[k].cid
                 /\ ho.cmd[b[k].cid].op = "READ" /\ r - k <= Pieces(ho.cmd[b[k].cid].n)
        BY <1>1, <1>2, <2>1, <3>1 DEF Talking, DataOk, Followed
      <4>2. r \in k + 1..Len(b2) /\ r \in 1..n
        BY <1>1, <2>1
      <4>3. QED
        BY <1>2, <2>1, <4>1, <4>2 DEF Followed
    <3>2. QED
      BY <1>1, <1>2, <2>1, <3>1 DEF Talking, DataOk
  <2>2. CASE k \notin 1..n
    <3>1. PICK j \in 1..m + 1 : k = n + j /\ b2[k] = more[j]
      BY <1>2, <1>3, <2>2
    <3>2. ASSUME b2[k].type = "C2HDATA" PROVE Followed(ho, b2, k)
      <4>1. j # m + 1 /\ j \in 1..m /\ m # 0
        <5>1. j # m + 1
          BY <3>1, <3>2 DEF IsAnswer
        <5>2. j \in 1..m
          BY <1>5, <5>1
        <5>3. QED
          BY <1>1, <5>1, <5>2
      <4>2. PICK r : r = n + (m + 1) /\ r \in k + 1..Len(b2) /\ r - k <= m
        BY <1>1, <3>1, <4>1
      <4>3. b2[r] = more[m + 1]
        <5>1. m + 1 \in 1..m + 1
          BY <1>1
        <5>2. QED
          BY <1>2, <4>2, <5>1
      <4>4. ho.cmd[i].op = "READ" /\ m = Pieces(ho.cmd[i].n)
        BY <4>1 DEF IsAnswer
      <4>5. b2[r].type = "RESP" /\ b2[r].cid = i /\ b2[k].cid = i
        BY <1>5, <3>1, <4>3 DEF IsAnswer
      <4>6. QED
        BY <4>2, <4>4, <4>5 DEF Followed
    <3>3. b2[k].type # "R2T"
      BY <1>5, <3>1
    <3>4. QED
      BY <3>2, <3>3
  <2>3. QED
    BY <2>1, <2>2
<1>10. \A k \in 1..Len(b2) : b2[k].type \in {"R2T", "C2HDATA", "RESP"}
  <2> TAKE k \in 1..Len(b2)
  <2>1. CASE k \in 1..n
    BY <1>1, <1>2, <2>1 DEF Talking
  <2>2. CASE k \notin 1..n
    BY <1>2, <1>3, <1>5, <2>2
  <2>3. QED
    BY <2>1, <2>2
<1>11. QED
  BY <1>6, <1>7, <1>8, <1>9, <1>10 DEF Talking

LEMMA TakenTalks ==
    ASSUME NEW co, NEW ho, NEW a, IsSeq(a), NEW b, Talking(co, ho, a, b), NEW a2, Dropped(a2, a)
    PROVE  Talking(co, ho, a2, b)
<1>1. \A k \in 1..Len(a2) : a2[k].type \in {"CAPSULE", "H2CDATA"}
  BY DroppedIndex DEF Talking
<1>2. CapsulesOk(co, ho, a2, b)
  BY CapsuleTaken DEF Talking
<1>3. QED
  BY <1>1, <1>2 DEF Talking

(* The transfer under way goes on or ends.                                 *)
LEMMA TransferGoesOn ==
    ASSUME NEW co, NEW ho, NEW a, NEW b, Talking(co, ho, a, b),
           NEW co2, co2.state = co.state,
           co2.xfer # NoXfer => co.xfer # NoXfer /\ co2.xfer.cid = co.xfer.cid
    PROVE  Talking(co2, ho, a, b)
<1>1. TransferOk(co2, ho, b)
  BY DEF Talking, TransferOk
<1>2. CapsulesOk(co2, ho, a, b)
  BY DEF Talking, CapsulesOk, OnItsWay
<1>3. QED
  BY <1>1, <1>2 DEF Talking

LEMMA TransferStarts ==
    ASSUME NEW co, NEW ho, NEW a, NEW b, Talking(co, ho, a, b), NEW i \in TcpCid,
           Without(a, i), Quiet(b, i), ho.cmd[i] \in TcpCommands, ho.cmd[i].op \in Moves,
           NEW co2, co2.state = co.state, co2.xfer.cid = i
    PROVE  Talking(co2, ho, a, b)
<1>1. TransferOk(co2, ho, b)
  BY DEF TransferOk
<1>2. CapsulesOk(co2, ho, a, b)
  BY DEF Talking, CapsulesOk, OnItsWay, Without
<1>3. QED
  BY <1>1, <1>2 DEF Talking

LEMMA AskTalks ==
    ASSUME NEW co, NEW ho, NEW a, NEW b, IsSeq(b), Talking(co, ho, a, b),
           NEW p, p.type = "R2T", p.len \in Nat, NEW b2, Joined(b2, b, <<p>>)
    PROVE  Talking(co, ho, a, b2)
<1>1. PICK n : n = Len(b) /\ n \in Nat /\ Len(b2) = n + 1
  BY SeqLength, SeqOne DEF Joined
<1>2. /\ \A k \in 1..n : b2[k] = b[k]
      /\ b2[n + 1] = p
  <2>1. 1 \in 1..1
    OBVIOUS
  <2>2. QED
    BY <1>1, <2>1, SeqOne DEF Joined
<1>3. \A k \in 1..Len(b2) : k \in 1..n \/ k = n + 1
  BY <1>1
<1>4. \A k \in 1..n : k \in 1..Len(b2)
  BY <1>1
<1>5. \A j : Quiet(b, j) => Quiet(b2, j)
  <2> SUFFICES ASSUME NEW j, Quiet(b, j), NEW k \in 1..Len(b2), b2[k].type \in {"C2HDATA", "RESP"}
               PROVE  b2[k].cid # j
    BY DEF Quiet
  <2>1. k \in 1..n
    BY <1>2, <1>3
  <2>2. QED
    BY <1>1, <1>2, <2>1 DEF Quiet
<1>6. CapsulesOk(co, ho, a, b2)
  BY <1>5 DEF Talking, CapsulesOk, OnItsWay
<1>7. TransferOk(co, ho, b2)
  BY <1>5 DEF Talking, TransferOk
<1>8. ResponsesOk(ho, b2)
  <2> SUFFICES ASSUME NEW r \in 1..Len(b2), b2[r].type = "RESP" PROVE ResponseOk(ho, b2, r)
    BY DEF ResponsesOk
  <2>1. r \in 1..n
    BY <1>2, <1>3
  <2>2. ResponseOk(ho, b, r) /\ b2[r] = b[r]
    BY <1>1, <1>2, <2>1 DEF Talking, ResponsesOk
  <2>3. PICK j : j = b[r].cid
    OBVIOUS
  <2>4. ASSUME NEW k \in 1..Len(b2), b2[k].type = "RESP", b2[k].cid = j PROVE k = r
    <3>1. k \in 1..n
      BY <1>2, <1>3, <2>4
    <3>2. QED
      BY <1>1, <1>2, <2>2, <2>3, <2>4, <3>1 DEF ResponseOk
  <2>5. ASSUME ho.cmd[j].op = "READ" PROVE Delivered(b2, r, j, ho.cmd[j].n, ho.got[j])
    <3>1. PICK w, g : w = ho.cmd[j].n /\ g = ho.got[j] /\ Delivered(b, r, j, w, g)
      BY <2>2, <2>3, <2>5 DEF ResponseOk
    <3>2. Pieces(w) \in Nat
      <4>1. w \in 1..MaxPages /\ MaxPages \in Nat
        BY <2>2, <2>3, <2>5, <3>1, CommandFacts, TcpAssumption DEF ResponseOk
      <4>2. w \in Nat \ {0}
        BY <4>1
      <4>3. QED
        BY <4>2, PieceFacts
    <3>3. \A q \in 1..Pieces(w) : q < r => b2[r - q] = b[r - q]
      <4>1. \A q \in 1..Pieces(w) : q < r => r - q \in 1..n
        BY <1>1, <2>1, <3>2
      <4>2. QED
        BY <1>2, <4>1
    <3>4. Delivered(b2, r, j, w, g)
      BY <3>1, <3>3 DEF Delivered
    <3>5. QED
      BY <3>1, <3>4
  <2>6. QED
    BY <2>2, <2>3, <2>4, <2>5 DEF ResponseOk
<1>9. DataOk(ho, b2)
  <2> SUFFICES ASSUME NEW k \in 1..Len(b2)
               PROVE  /\ b2[k].type = "C2HDATA" => Followed(ho, b2, k)
                      /\ b2[k].type = "R2T" => b2[k].len \in Nat
    BY DEF DataOk
  <2>1. CASE k \in 1..n
    <3>1. ASSUME b2[k].type = "C2HDATA" PROVE Followed(ho, b2, k)
      <4>1. PICK r \in k + 1..n :
                 /\ b[r].type = "RESP" /\ b[r].cid = b[k].cid
                 /\ ho.cmd[b[k].cid].op = "READ" /\ r - k <= Pieces(ho.cmd[b[k].cid].n)
        BY <1>1, <1>2, <2>1, <3>1 DEF Talking, DataOk, Followed
      <4>2. r \in k + 1..Len(b2) /\ r \in 1..n
        BY <1>1, <2>1
      <4>3. QED
        BY <1>2, <2>1, <4>1, <4>2 DEF Followed
    <3>2. QED
      BY <1>1, <1>2, <2>1, <3>1 DEF Talking, DataOk
  <2>2. CASE k = n + 1
    BY <1>2, <2>2
  <2>3. QED
    BY <1>3, <2>1, <2>2
<1>10. \A k \in 1..Len(b2) : b2[k].type \in {"R2T", "C2HDATA", "RESP"}
  <2> TAKE k \in 1..Len(b2)
  <2>1. CASE k \in 1..n
    BY <1>1, <1>2, <2>1 DEF Talking
  <2>2. CASE k = n + 1
    BY <1>2, <2>2
  <2>3. QED
    BY <1>3, <2>1, <2>2
<1>11. QED
  BY <1>6, <1>7, <1>8, <1>9, <1>10 DEF Talking

-----------------------------------------------------------------------------
(* The host receives.                                                      *)
LEMMA StillDelivered ==
    ASSUME NEW b, IsSeq(b), NEW b2, Dropped(b2, b), NEW r \in 1..Len(b2), NEW i, NEW n \in Nat \ {0},
           NEW g, Delivered(b, r + 1, i, n, g), ~(b[1].type = "C2HDATA" /\ b[1].cid = i)
    PROVE  Delivered(b2, r, i, n, g)
<1>1. PICK m : m = Pieces(n) /\ m \in Nat \ {0}
  BY PieceFacts
<1>2. Len(b2) \in Nat /\ r \in Nat /\ \A k \in 1..Len(b2) : b2[k] = b[k + 1]
  <2>1. Len(b2) \in Nat /\ \A k \in 1..Len(b2) : b2[k] = b[k + 1]
    BY DroppedIndex
  <2>2. QED
    BY <2>1
<1>3. r > m
  <2> SUFFICES ASSUME r <= m PROVE FALSE
    BY <1>1, <1>2
  <2>1. r \in 1..m /\ r < r + 1 /\ (r + 1) - r = 1
    BY <1>1, <1>2
  <2>2. IsPiece(b[(r + 1) - r], i, n, m - r + 1)
    BY <1>1, <2>1 DEF Delivered
  <2>3. QED
    BY <2>1, <2>2 DEF IsPiece
<1>4. IsSeq(g) /\ Len(g) = 0
  <2>1. r + 1 > m
    BY <1>1, <1>2, <1>3
  <2>2. QED
    BY <1>1, <2>1 DEF Delivered
<1>5. ASSUME NEW q \in 1..m, q < r PROVE IsPiece(b2[r - q], i, n, m - q + 1)
  <2>1. q < r + 1 /\ r - q \in 1..Len(b2) /\ (r - q) + 1 = (r + 1) - q
    BY <1>1, <1>2, <1>5
  <2>2. IsPiece(b[(r + 1) - q], i, n, m - q + 1)
    BY <1>1, <2>1 DEF Delivered
  <2>3. QED
    BY <1>2, <2>1, <2>2
<1>6. ~(r <= m)
  BY <1>1, <1>2, <1>3
<1>7. QED
  BY <1>1, <1>3, <1>4, <1>5, <1>6 DEF Delivered

LEMMA PieceDelivered ==
    ASSUME NEW b, IsSeq(b), NEW b2, Dropped(b2, b), NEW r \in 1..Len(b2), NEW i, NEW n \in Nat \ {0},
           NEW g, Delivered(b, r + 1, i, n, g), r <= Pieces(n)
    PROVE  Delivered(b2, r, i, n, g \o b[1].data)
<1>1. PICK m : m = Pieces(n) /\ m \in Nat \ {0}
  BY PieceFacts
<1>2. Len(b2) \in Nat /\ r \in Nat /\ r >= 1 /\ r <= m /\ \A k \in 1..Len(b2) : b2[k] = b[k + 1]
  <2>1. Len(b2) \in Nat /\ \A k \in 1..Len(b2) : b2[k] = b[k + 1]
    BY DroppedIndex
  <2>2. QED
    BY <1>1, <2>1
<1>3. IsPiece(b[1], i, n, m - r + 1)
  <2>1. r \in 1..m /\ r < r + 1 /\ (r + 1) - r = 1
    BY <1>1, <1>2
  <2>2. IsPiece(b[(r + 1) - r], i, n, m - r + 1)
    BY <1>1, <2>1 DEF Delivered
  <2>3. QED
    BY <2>1, <2>2
<1>4. PICK d, s : d = b[1].data /\ s = m - r /\ s \in 0..m - 1 /\ s + 1 = m - r + 1 /\ (s + 1) - 1 = s
  BY <1>1, <1>2
<1>5. IsSeq(d) /\ Len(d) = Sent(n, s + 1) - Sent(n, s)
  BY <1>3, <1>4 DEF IsPiece
<1>6. IsSeq(g) /\ Len(g) = Sent(n, s)
  <2>1. CASE r + 1 <= m
    <3>1. m - ((r + 1) - 1) = s
      BY <1>2, <1>4
    <3>2. QED
      BY <1>1, <2>1, <3>1 DEF Delivered
  <2>2. CASE r + 1 > m
    <3>1. s = 0
      BY <1>1, <1>2, <1>4, <2>2
    <3>2. QED
      BY <1>1, <2>2, <3>1, PieceFacts DEF Delivered
  <2>3. QED
    BY <1>1, <1>2, <2>1, <2>2
<1>7. Sent(n, s) \in Nat /\ Sent(n, s + 1) \in Nat
  <2>1. s \in 0..m /\ s + 1 \in 0..m
    BY <1>1, <1>4
  <2>2. QED
    BY <1>1, <2>1, PieceFacts
<1>8. IsSeq(g \o d) /\ Len(g \o d) = Sent(n, m - (r - 1))
  <2>1. Joined(g \o d, g, d)
    BY <1>5, <1>6, SeqJoined
  <2>2. Len(g \o d) = Sent(n, s + 1)
    BY <1>5, <1>6, <1>7, <2>1 DEF Joined
  <2>3. s + 1 = m - (r - 1)
    BY <1>1, <1>2, <1>4
  <2>4. QED
    BY <2>1, <2>2, <2>3 DEF Joined
<1>9. ASSUME NEW q \in 1..m, q < r PROVE IsPiece(b2[r - q], i, n, m - q + 1)
  <2>1. q < r + 1 /\ r - q \in 1..Len(b2) /\ (r - q) + 1 = (r + 1) - q
    BY <1>1, <1>2, <1>9
  <2>2. IsPiece(b[(r + 1) - q], i, n, m - q + 1)
    BY <1>1, <2>1 DEF Delivered
  <2>3. QED
    BY <1>2, <2>1, <2>2
<1>10. ~(r > m)
  BY <1>1, <1>2
<1>11. QED
  BY <1>1, <1>2, <1>4, <1>8, <1>9, <1>10 DEF Delivered

(* Of the host's commands only i is touched.                               *)
OthersKept(ho2, ho, i) ==
    \A j \in TcpCid : j # i => ho2.cmd[j] = ho.cmd[j] /\ ho2.got[j] = ho.got[j]

LEMMA ReceivedQuiet ==
    ASSUME NEW b, IsSeq(b), NEW b2, Dropped(b2, b), NEW j, Quiet(b, j)
    PROVE  Quiet(b2, j)
BY DroppedIndex DEF Quiet

LEMMA ReadPieces ==
    ASSUME NEW cmd \in TcpCommands, cmd.op = "READ"
    PROVE  cmd.n \in Nat \ {0} /\ Pieces(cmd.n) \in Nat
<1>1. cmd.n \in 1..MaxPages /\ MaxPages \in Nat
  BY CommandFacts, TcpAssumption
<1>2. cmd.n \in Nat \ {0}
  BY <1>1
<1>3. QED
  BY <1>2, PieceFacts

LEMMA ResponseReceived ==
    ASSUME NEW co, NEW ho, NEW a, NEW b, IsSeq(b), Talking(co, ho, a, b), NEW b2, Dropped(b2, b),
           b[1].type = "RESP", NEW ho2, OthersKept(ho2, ho, b[1].cid)
    PROVE  Talking(co, ho2, a, b2) /\ b[1].cid \in TcpCid
<1>1. /\ Len(b2) \in Nat
      /\ \A k \in 1..Len(b2) : b2[k] = b[k + 1] /\ k + 1 \in 1..Len(b) /\ k + 1 # 1
      /\ Len(b) = Len(b2) + 1
  BY DroppedIndex
<1>2. 1 \in 1..Len(b)
  BY <1>1
<1>3. PICK i : i = b[1].cid /\ ResponseOk(ho, b, 1) /\ i \in TcpCid
  BY <1>2 DEF Talking, ResponsesOk, ResponseOk
<1>4. \A j \in TcpCid : j # i => ho2.cmd[j] = ho.cmd[j] /\ ho2.got[j] = ho.got[j]
  BY <1>3 DEF OthersKept
<1>5. \A j : Quiet(b, j) => j # i
  BY <1>2, <1>3 DEF Quiet
<1>6. CapsulesOk(co, ho2, a, b2)
  <2> SUFFICES ASSUME NEW k \in 1..Len(a), a[k].type = "CAPSULE" PROVE OnItsWay(co, ho2, a, b2, a[k])
    BY DEF CapsulesOk, Talking
  <2>1. OnItsWay(co, ho, a, b, a[k])
    BY DEF Talking, CapsulesOk
  <2>2. a[k].cid \in TcpCid /\ a[k].cid # i /\ Quiet(b2, a[k].cid)
    BY <1>5, <2>1, ReceivedQuiet DEF OnItsWay
  <2>3. QED
    BY <1>4, <2>1, <2>2 DEF OnItsWay
<1>7. TransferOk(co, ho2, b2)
  <2> SUFFICES ASSUME co.xfer # NoXfer
               PROVE  /\ co.xfer.cid \in TcpCid /\ ho2.cmd[co.xfer.cid] \in TcpCommands
                      /\ ho2.cmd[co.xfer.cid].op \in Moves /\ Quiet(b2, co.xfer.cid)
    BY DEF TransferOk
  <2>1. /\ co.xfer.cid \in TcpCid /\ ho.cmd[co.xfer.cid] \in TcpCommands
        /\ ho.cmd[co.xfer.cid].op \in Moves /\ Quiet(b, co.xfer.cid)
    BY DEF TransferOk, Talking
  <2>2. QED
    BY <1>4, <1>5, <2>1, ReceivedQuiet
<1>8. ResponsesOk(ho2, b2)
  <2> SUFFICES ASSUME NEW r \in 1..Len(b2), b2[r].type = "RESP" PROVE ResponseOk(ho2, b2, r)
    BY DEF ResponsesOk
  <2>1. PICK j : j = b2[r].cid
    OBVIOUS
  <2>2. ResponseOk(ho, b, r + 1) /\ b[r + 1].cid = j /\ b[r + 1].type = "RESP"
    BY <1>1, <2>1 DEF Talking, ResponsesOk
  <2>3. j # i /\ j \in TcpCid /\ ho.cmd[j] \in TcpCommands
    BY <1>1, <1>2, <1>3, <2>2 DEF ResponseOk
  <2>4. ASSUME NEW k \in 1..Len(b2), b2[k].type = "RESP", b2[k].cid = j PROVE k = r
    <3>1. k + 1 = r + 1
      BY <1>1, <2>2, <2>4 DEF ResponseOk
    <3>2. QED
      BY <3>1
  <2>5. ASSUME ho.cmd[j].op = "READ" PROVE Delivered(b2, r, j, ho.cmd[j].n, ho.got[j])
    <3>1. Delivered(b, r + 1, j, ho.cmd[j].n, ho.got[j])
      BY <2>2, <2>5 DEF ResponseOk
    <3>2. ho.cmd[j].n \in Nat \ {0} /\ ~(b[1].type = "C2HDATA" /\ b[1].cid = j)
      BY <2>3, <2>5, ReadPieces
    <3>3. QED
      BY <3>1, <3>2, StillDelivered
  <2>6. ho2.cmd[j] = ho.cmd[j] /\ ho2.got[j] = ho.got[j]
    BY <1>4, <2>3
  <2>7. QED
    BY <2>1, <2>3, <2>4, <2>5, <2>6 DEF ResponseOk
<1>9. DataOk(ho2, b2)
  <2> SUFFICES ASSUME NEW k \in 1..Len(b2)
               PROVE  /\ b2[k].type = "C2HDATA" => Followed(ho2, b2, k)
                      /\ b2[k].type = "R2T" => b2[k].len \in Nat
    BY DEF DataOk
  <2>1. ASSUME b2[k].type = "C2HDATA" PROVE Followed(ho2, b2, k)
    <3>1. PICK r \in (k + 1) + 1..Len(b) :
               /\ b[r].type = "RESP" /\ b[r].cid = b[k + 1].cid
               /\ ho.cmd[b[k + 1].cid].op = "READ" /\ r - (k + 1) <= Pieces(ho.cmd[b[k + 1].cid].n)
      BY <1>1, <2>1 DEF Talking, DataOk, Followed
    <3>2. PICK j : j = b[k + 1].cid
      OBVIOUS
    <3>3. r - 1 \in k + 1..Len(b2) /\ r - 1 \in 1..Len(b2) /\ (r - 1) + 1 = r /\ r \in 1..Len(b) /\ r # 1
          /\ (r - 1) - k = r - (k + 1)
      BY <1>1
    <3>4. j \in TcpCid /\ j # i
      BY <1>2, <1>3, <3>1, <3>2, <3>3 DEF Talking, ResponsesOk, ResponseOk
    <3>5. ho2.cmd[j] = ho.cmd[j]
      BY <1>4, <3>4
    <3>6. b2[r - 1] = b[r] /\ b2[k] = b[k + 1]
      BY <1>1, <3>3
    <3>7. QED
      BY <3>1, <3>2, <3>3, <3>5, <3>6 DEF Followed
  <2>2. QED
    BY <1>1, <2>1 DEF Talking, DataOk
<1>10. \A k \in 1..Len(b2) : b2[k].type \in {"R2T", "C2HDATA", "RESP"}
  BY <1>1 DEF Talking
<1>11. QED
  BY <1>3, <1>6, <1>7, <1>8, <1>9, <1>10 DEF Talking

LEMMA DataReceived ==
    ASSUME NEW co, NEW ho, NEW a, NEW b, IsSeq(b), Talking(co, ho, a, b), NEW b2, Dropped(b2, b),
           b[1].type = "C2HDATA", NEW ho2, OthersKept(ho2, ho, b[1].cid),
           ho2.cmd = ho.cmd,
           b[1].cid \in TcpCid => ho2.got[b[1].cid] = ho.got[b[1].cid] \o b[1].data
    PROVE  Talking(co, ho2, a, b2) /\ b[1].cid \in TcpCid
<1>1. /\ Len(b2) \in Nat
      /\ \A k \in 1..Len(b2) : b2[k] = b[k + 1] /\ k + 1 \in 1..Len(b) /\ k + 1 # 1
      /\ Len(b) = Len(b2) + 1
  BY DroppedIndex
<1>2. 1 \in 1..Len(b)
  BY <1>1
<1>3. PICK i : i = b[1].cid
  OBVIOUS
<1>4. PICK r0 \in 1 + 1..Len(b) :
           /\ b[r0].type = "RESP" /\ b[r0].cid = i
           /\ ho.cmd[i].op = "READ" /\ r0 - 1 <= Pieces(ho.cmd[i].n)
  BY <1>2, <1>3 DEF Talking, DataOk, Followed
<1>5. r0 \in 1..Len(b) /\ ResponseOk(ho, b, r0) /\ i \in TcpCid /\ ho.cmd[i] \in TcpCommands
  <2>1. r0 \in 1..Len(b)
    BY <1>1
  <2>2. QED
    BY <1>4, <2>1 DEF Talking, ResponsesOk, ResponseOk
<1>6. \A j \in TcpCid : j # i => ho2.got[j] = ho.got[j]
  BY <1>3 DEF OthersKept
<1>7. \A j : Quiet(b, j) => j # i
  BY <1>2, <1>3 DEF Quiet
<1>8. CapsulesOk(co, ho2, a, b2)
  <2> SUFFICES ASSUME NEW k \in 1..Len(a), a[k].type = "CAPSULE" PROVE OnItsWay(co, ho2, a, b2, a[k])
    BY DEF CapsulesOk, Talking
  <2>1. OnItsWay(co, ho, a, b, a[k])
    BY DEF Talking, CapsulesOk
  <2>2. a[k].cid \in TcpCid /\ a[k].cid # i /\ Quiet(b2, a[k].cid)
    BY <1>7, <2>1, ReceivedQuiet DEF OnItsWay
  <2>3. QED
    BY <1>6, <2>1, <2>2 DEF OnItsWay
<1>9. TransferOk(co, ho2, b2)
  BY ReceivedQuiet DEF Talking, TransferOk
<1>10. ResponsesOk(ho2, b2)
  <2> SUFFICES ASSUME NEW r \in 1..Len(b2), b2[r].type = "RESP" PROVE ResponseOk(ho2, b2, r)
    BY DEF ResponsesOk
  <2>1. PICK j : j = b2[r].cid
    OBVIOUS
  <2>2. ResponseOk(ho, b, r + 1) /\ b[r + 1].cid = j /\ b[r + 1].type = "RESP"
    BY <1>1, <2>1 DEF Talking, ResponsesOk
  <2>3. j \in TcpCid /\ ho.cmd[j] \in TcpCommands
    BY <2>2 DEF ResponseOk
  <2>4. ASSUME NEW k \in 1..Len(b2), b2[k].type = "RESP", b2[k].cid = j PROVE k = r
    <3>1. k + 1 = r + 1
      BY <1>1, <2>2, <2>4 DEF ResponseOk
    <3>2. QED
      BY <3>1
  <2>5. ASSUME ho.cmd[j].op = "READ" PROVE Delivered(b2, r, j, ho.cmd[j].n, ho2.got[j])
    <3>1. Delivered(b, r + 1, j, ho.cmd[j].n, ho.got[j])
      BY <2>2, <2>5 DEF ResponseOk
    <3>2. ho.cmd[j].n \in Nat \ {0} /\ Pieces(ho.cmd[j].n) \in Nat
      BY <2>3, <2>5, ReadPieces
    <3>3. CASE j # i
      <4>1. ~(b[1].type = "C2HDATA" /\ b[1].cid = j) /\ ho2.got[j] = ho.got[j]
        BY <1>3, <1>6, <2>3, <3>3
      <4>2. QED
        BY <3>1, <3>2, <4>1, StillDelivered
    <3>4. CASE j = i
      <4>1. r + 1 = r0
        BY <1>1, <1>4, <1>5, <2>2, <3>4 DEF ResponseOk
      <4>2. r <= Pieces(ho.cmd[j].n)
        BY <1>4, <3>2, <3>4, <4>1
      <4>3. ho2.got[j] = ho.got[j] \o b[1].data
        BY <1>3, <1>5, <3>4
      <4>4. QED
        BY <3>1, <3>2, <4>2, <4>3, PieceDelivered
    <3>5. QED
      BY <3>3, <3>4
  <2>6. QED
    BY <2>1, <2>3, <2>4, <2>5 DEF ResponseOk
<1>11. DataOk(ho2, b2)
  <2> SUFFICES ASSUME NEW k \in 1..Len(b2)
               PROVE  /\ b2[k].type = "C2HDATA" => Followed(ho, b2, k)
                      /\ b2[k].type = "R2T" => b2[k].len \in Nat
    BY SMTT(30) DEF DataOk, Followed
  <2>1. ASSUME b2[k].type = "C2HDATA" PROVE Followed(ho, b2, k)
    <3>1. PICK r \in (k + 1) + 1..Len(b) :
               /\ b[r].type = "RESP" /\ b[r].cid = b[k + 1].cid
               /\ ho.cmd[b[k + 1].cid].op = "READ" /\ r - (k + 1) <= Pieces(ho.cmd[b[k + 1].cid].n)
      BY <1>1, <2>1 DEF Talking, DataOk, Followed
    <3>2. r - 1 \in k + 1..Len(b2) /\ r - 1 \in 1..Len(b2) /\ (r - 1) + 1 = r /\ (r - 1) - k = r - (k + 1)
      BY <1>1
    <3>3. b2[r - 1] = b[r] /\ b2[k] = b[k + 1]
      BY <1>1, <3>2
    <3>4. QED
      BY <3>1, <3>2, <3>3 DEF Followed
  <2>2. QED
    BY <1>1, <2>1 DEF Talking, DataOk
<1>12. \A k \in 1..Len(b2) : b2[k].type \in {"R2T", "C2HDATA", "RESP"}
  BY <1>1 DEF Talking
<1>13. QED
  BY <1>3, <1>5, <1>8, <1>9, <1>10, <1>11, <1>12 DEF Talking

(* A ready-to-transfer leaves b, and data for it are put into a.           *)
LEMMA AskReceived ==
    ASSUME NEW co, NEW ho, NEW a, NEW b, IsSeq(b), Talking(co, ho, a, b), NEW b2, Dropped(b2, b),
           b[1].type = "R2T"
    PROVE  Talking(co, ho, a, b2) /\ b[1].len \in Nat
<1>1. /\ Len(b2) \in Nat
      /\ \A k \in 1..Len(b2) : b2[k] = b[k + 1] /\ k + 1 \in 1..Len(b) /\ k + 1 # 1
      /\ Len(b) = Len(b2) + 1
  BY DroppedIndex
<1>2. 1 \in 1..Len(b)
  BY <1>1
<1>3. CapsulesOk(co, ho, a, b2)
  BY ReceivedQuiet DEF CapsulesOk, Talking, OnItsWay
<1>4. TransferOk(co, ho, b2)
  BY ReceivedQuiet DEF Talking, TransferOk
<1>5. ResponsesOk(ho, b2)
  <2> SUFFICES ASSUME NEW r \in 1..Len(b2), b2[r].type = "RESP" PROVE ResponseOk(ho, b2, r)
    BY DEF ResponsesOk
  <2>1. PICK j : j = b2[r].cid
    OBVIOUS
  <2>2. ResponseOk(ho, b, r + 1) /\ b[r + 1].cid = j /\ b[r + 1].type = "RESP"
    BY <1>1, <2>1 DEF Talking, ResponsesOk
  <2>3. j \in TcpCid /\ ho.cmd[j] \in TcpCommands
    BY <2>2 DEF ResponseOk
  <2>4. ASSUME NEW k \in 1..Len(b2), b2[k].type = "RESP", b2[k].cid = j PROVE k = r
    <3>1. k + 1 = r + 1
      BY <1>1, <2>2, <2>4 DEF ResponseOk
    <3>2. QED
      BY <3>1
  <2>5. ASSUME ho.cmd[j].op = "READ" PROVE Delivered(b2, r, j, ho.cmd[j].n, ho.got[j])
    <3>1. Delivered(b, r + 1, j, ho.cmd[j].n, ho.got[j])
      BY <2>2, <2>5 DEF ResponseOk
    <3>2. ho.cmd[j].n \in Nat \ {0} /\ ~(b[1].type = "C2HDATA" /\ b[1].cid = j)
      BY <2>3, <2>5, ReadPieces
    <3>3. QED
      BY <3>1, <3>2, StillDelivered
  <2>6. QED
    BY <2>1, <2>3, <2>4, <2>5 DEF ResponseOk
<1>6. DataOk(ho, b2)
  <2> SUFFICES ASSUME NEW k \in 1..Len(b2)
               PROVE  /\ b2[k].type = "C2HDATA" => Followed(ho, b2, k)
                      /\ b2[k].type = "R2T" => b2[k].len \in Nat
    BY DEF DataOk
  <2>1. ASSUME b2[k].type = "C2HDATA" PROVE Followed(ho, b2, k)
    <3>1. PICK r \in (k + 1) + 1..Len(b) :
               /\ b[r].type = "RESP" /\ b[r].cid = b[k + 1].cid
               /\ ho.cmd[b[k + 1].cid].op = "READ" /\ r - (k + 1) <= Pieces(ho.cmd[b[k + 1].cid].n)
      BY <1>1, <2>1 DEF Talking, DataOk, Followed
    <3>2. r - 1 \in k + 1..Len(b2) /\ r - 1 \in 1..Len(b2) /\ (r - 1) + 1 = r /\ (r - 1) - k = r - (k + 1)
      BY <1>1
    <3>3. b2[r - 1] = b[r] /\ b2[k] = b[k + 1]
      BY <1>1, <3>2
    <3>4. QED
      BY <3>1, <3>2, <3>3 DEF Followed
  <2>2. QED
    BY <1>1, <2>1 DEF Talking, DataOk
<1>7. \A k \in 1..Len(b2) : b2[k].type \in {"R2T", "C2HDATA", "RESP"}
  BY <1>1 DEF Talking
<1>8. QED
  BY <1>2, <1>3, <1>4, <1>5, <1>6, <1>7 DEF Talking, DataOk

LEMMA DataPut ==
    ASSUME NEW co, NEW ho, NEW a, IsSeq(a), NEW b, Talking(co, ho, a, b),
           NEW more, IsSeq(more), \A k \in 1..Len(more) : more[k].type = "H2CDATA",
           NEW a2, Joined(a2, a, more)
    PROVE  Talking(co, ho, a2, b)
<1>1. PICK n : n = Len(a) /\ n \in Nat
  BY SeqLength
<1>2. \A k \in 1..Len(a2) : /\ a2[k].type \in {"CAPSULE", "H2CDATA"}
                            /\ a2[k].type = "CAPSULE" => k \in 1..n /\ a2[k] = a[k]
  <2> TAKE k \in 1..Len(a2)
  <2>1. \/ k \in 1..Len(a) /\ a2[k] = a[k]
        \/ \E j \in 1..Len(more) : k = Len(a) + j /\ a2[k] = more[j]
    BY JoinedIndex
  <2>2. QED
    BY <1>1, <2>1 DEF Talking
<1>3. CapsulesOk(co, ho, a2, b)
  <2> SUFFICES ASSUME NEW k \in 1..Len(a2), a2[k].type = "CAPSULE"
               PROVE  /\ OnItsWay(co, ho, a2, b, a2[k])
                      /\ \A j \in 1..Len(a2) : a2[j].type = "CAPSULE" /\ a2[j].cid = a2[k].cid => j = k
    BY DEF CapsulesOk
  <2>1. /\ OnItsWay(co, ho, a, b, a2[k])
        /\ \A j \in 1..Len(a) : a[j].type = "CAPSULE" /\ a[j].cid = a[k].cid => j = k
    BY <1>1, <1>2 DEF Talking, CapsulesOk
  <2>2. QED
    BY <1>1, <1>2, <2>1 DEF OnItsWay
<1>4. QED
  BY <1>2, <1>3 DEF Talking

(* The host submits command i.                                             *)
LEMMA CapsulePut ==
    ASSUME NEW co, NEW ho, NEW a, IsSeq(a), NEW b, IsSeq(b), Talking(co, ho, a, b),
           NEW i \in TcpCid, ho.cmd[i] = NoTcpCmd,
           NEW p, p.type = "CAPSULE", p.cid = i, p.cmd \in TcpCommands,
           NEW k \in Nat, k <= Len(Payload(p.cmd)), p.data = SubSeq(Payload(p.cmd), 1, k),
           NEW a2, Joined(a2, a, <<p>>),
           NEW ho2, OthersKept(ho2, ho, i), ho2.cmd[i] = p.cmd, ho2.got[i] = <<>>
    PROVE  Talking(co, ho2, a2, b)
<1>1. PICK n : n = Len(a) /\ n \in Nat /\ Len(a2) = n + 1
  BY SeqLength, SeqOne DEF Joined
<1>2. (\A h \in 1..n : a2[h] = a[h]) /\ a2[n + 1] = p
  <2>1. 1 \in 1..1
    OBVIOUS
  <2>2. QED
    BY <1>1, <2>1, SeqOne DEF Joined
<1>3. \A h \in 1..Len(a2) : h \in 1..n \/ h = n + 1
  BY <1>1
<1>4. ho.cmd[i] \notin TcpCommands
  BY CommandFacts
<1>5. Quiet(b, i)
  <2> SUFFICES ASSUME NEW h \in 1..Len(b), b[h].type \in {"C2HDATA", "RESP"}, b[h].cid = i PROVE FALSE
    BY DEF Quiet
  <2>1. \A r \in 1..Len(b) : b[r].type = "RESP" => b[r].cid # i
    BY <1>4 DEF Talking, ResponsesOk, ResponseOk
  <2>2. b[h].type = "C2HDATA"
    BY <2>1
  <2>3. PICK r \in h + 1..Len(b) : b[r].type = "RESP" /\ b[r].cid = b[h].cid
    BY <2>2 DEF Talking, DataOk, Followed
  <2>4. r \in 1..Len(b)
    BY SeqLength
  <2>5. QED
    BY <2>1, <2>3, <2>4
<1>6. co.xfer # NoXfer => co.xfer.cid # i
  BY <1>4 DEF Talking, TransferOk
<1>7. \A h \in 1..n : a[h].type = "CAPSULE" => a[h].cid # i
  BY <1>1, <1>4 DEF Talking, CapsulesOk, OnItsWay
<1>8. CapsulesOk(co, ho2, a2, b)
  <2> SUFFICES ASSUME NEW h \in 1..Len(a2), a2[h].type = "CAPSULE"
               PROVE  /\ OnItsWay(co, ho2, a2, b, a2[h])
                      /\ \A j \in 1..Len(a2) : a2[j].type = "CAPSULE" /\ a2[j].cid = a2[h].cid => j = h
    BY DEF CapsulesOk
  <2>1. CASE h \in 1..n
    <3>1. /\ OnItsWay(co, ho, a, b, a[h]) /\ a2[h] = a[h] /\ a[h].cid # i
          /\ \A j \in 1..n : a[j].type = "CAPSULE" /\ a[j].cid = a[h].cid => j = h
      BY <1>1, <1>2, <1>7, <2>1 DEF Talking, CapsulesOk
    <3>2. OnItsWay(co, ho2, a2, b, a[h])
      BY <3>1 DEF OnItsWay, OthersKept
    <3>3. QED
      BY <1>2, <1>3, <3>1, <3>2
  <2>2. CASE h = n + 1
    <3>1. a2[h] = p
      BY <1>2, <2>2
    <3>2. OnItsWay(co, ho2, a2, b, p)
      BY <1>5, <1>6 DEF OnItsWay
    <3>3. \A j \in 1..Len(a2) : a2[j].type = "CAPSULE" /\ a2[j].cid = i => j = h
      BY <1>2, <1>3, <1>7, <2>2
    <3>4. QED
      BY <3>1, <3>2, <3>3
  <2>3. QED
    BY <1>3, <2>1, <2>2
<1>9. TransferOk(co, ho2, b)
  BY <1>6 DEF Talking, TransferOk, OthersKept
<1>10. ResponsesOk(ho2, b)
  <2> SUFFICES ASSUME NEW r \in 1..Len(b), b[r].type = "RESP" PROVE ResponseOk(ho2, b, r)
    BY DEF ResponsesOk
  <2>1. ResponseOk(ho, b, r) /\ b[r].cid # i
    BY <1>5 DEF Talking, ResponsesOk, Quiet
  <2>2. QED
    BY <2>1 DEF ResponseOk, OthersKept
<1>11. DataOk(ho2, b)
  <2> SUFFICES ASSUME NEW h \in 1..Len(b), b[h].type = "C2HDATA" PROVE Followed(ho2, b, h)
    BY DEF DataOk, Talking
  <2>1. PICK r \in h + 1..Len(b) :
             /\ b[r].type = "RESP" /\ b[r].cid = b[h].cid
             /\ ho.cmd[b[h].cid].op = "READ" /\ r - h <= Pieces(ho.cmd[b[h].cid].n)
    BY DEF Talking, DataOk, Followed
  <2>2. r \in 1..Len(b)
    BY SeqLength
  <2>3. b[h].cid \in TcpCid /\ b[h].cid # i
    BY <1>5, <2>1, <2>2 DEF Talking, ResponsesOk, ResponseOk, Quiet
  <2>4. QED
    BY <2>1, <2>3 DEF Followed, OthersKept
<1>12. \A h \in 1..Len(a2) : a2[h].type \in {"CAPSULE", "H2CDATA"}
  BY <1>1, <1>2, <1>3 DEF Talking
<1>13. QED
  BY <1>8, <1>9, <1>10, <1>11, <1>12 DEF Talking

-----------------------------------------------------------------------------
(* The actions.                                                            *)

(* One connection goes on to co2, ho2 and the streams a2 and b2.           *)
Moved(c, co2, ho2, a2, b2) ==
    /\ DOMAIN conn' = Conn /\ DOMAIN host' = Conn /\ DOMAIN h2t' = Conn /\ DOMAIN t2h' = Conn
    /\ conn'[c] = co2 /\ host'[c] = ho2 /\ h2t'[c] = a2 /\ t2h'[c] = b2
    /\ \A d \in Conn : d # c => /\ conn'[d] = conn[d] /\ host'[d] = host[d]
                                /\ h2t'[d] = h2t[d] /\ t2h'[d] = t2h[d]

LEMMA MovedLinks ==
    ASSUME LinkInv, NEW c \in Conn, NEW co2, NEW ho2, NEW a2, NEW b2,
           Moved(c, co2, ho2, a2, b2), Link(co2, ho2, a2, b2)
    PROVE  LinkInv'
<1>1. ASSUME NEW d \in Conn PROVE Link(conn'[d], host'[d], h2t'[d], t2h'[d])
  <2>1. CASE d = c
    BY <2>1 DEF Moved
  <2>2. CASE d # c
    <3>1. /\ conn'[d] = conn[d] /\ host'[d] = host[d]
          /\ h2t'[d] = h2t[d] /\ t2h'[d] = t2h[d]
      BY <2>2 DEF Moved
    <3>2. Link(conn[d], host[d], h2t[d], t2h[d])
      BY DEF LinkInv
    <3>3. QED
      BY <3>1, <3>2
  <2>3. QED
    BY <2>1, <2>2
<1>2. QED
  BY <1>1 DEF Moved, LinkInv

(* The target takes a PDU and goes on to co2 and b2.                       *)
Serves(c, co2, b2) == Moved(c, co2, host[c], Tail(h2t[c]), b2)

LEMMA GoneTaken ==
    ASSUME NEW co, NEW ho, NEW a, IsSeq(a), a # <<>>, NEW b, Gone(co, ho, a, b),
           a[1].type # "EOF", NEW a2, Dropped(a2, a), NEW co2, co2.state # "CLOSED"
    PROVE  Gone(co2, ho, a2, <<>>)
<1>1. Len(a2) \in Nat /\ Len(a) = Len(a2) + 1 /\ IsSeq(a2)
  BY DroppedIndex DEF Dropped
<1>2. a[Len(a)].type = "EOF" /\ \A k \in 1..Len(a) : a[k].type = "EOF" => k = Len(a)
  BY DEF Gone
<1>3. Len(a2) # 0
  BY <1>1, <1>2
<1>4. a2 # <<>> /\ Len(a2) \in 1..Len(a2)
  BY <1>1, <1>3, SeqLength
<1>5. a2[Len(a2)].type = "EOF"
  BY <1>1, <1>2, <1>4 DEF Dropped
<1>6. ASSUME NEW k \in 1..Len(a2), a2[k].type = "EOF" PROVE k = Len(a2)
  BY <1>1, <1>2, <1>6, DroppedIndex
<1>7. Idle(ho)
  BY DEF Gone
<1>8. QED
  BY <1>4, <1>5, <1>6, <1>7 DEF Gone

LEMMA SomethingSent ==
    ASSUME LinkInv, NEW c \in Conn, h2t[c] # <<>>
    PROVE  /\ conn[c].state # "CLOSED" /\ Head(h2t[c]) = h2t[c][1] /\ 1 \in 1..Len(h2t[c])
           /\ IsSeq(h2t[c]) /\ IsSeq(t2h[c]) /\ Dropped(Tail(h2t[c]), h2t[c])
<1>1. Link(conn[c], host[c], h2t[c], t2h[c])
  BY DEF LinkInv
<1>2. QED
  BY <1>1, SeqDropped DEF Link, Gone, Greeting, Talking

LEMMA ServedLinks ==
    ASSUME LinkInv, NEW c \in Conn, h2t[c] # <<>>, Head(h2t[c]).type # "EOF",
           NEW co2, NEW b2, Serves(c, co2, b2),
           co2.state # "CLOSED", DOMAIN co2 = {"state", "qid", "xfer"},
           co2.xfer # NoXfer => DOMAIN co2.xfer = {"op", "cid", "lpn", "len", "total"},
           host[c].phase = "closed" => b2 = <<>>,
           host[c].phase # "closed" => IsSeq(b2),
           host[c].phase = "init" => Greeting(co2, host[c], Tail(h2t[c]), b2),
           host[c].phase = "ready" => Talking(co2, host[c], Tail(h2t[c]), b2)
    PROVE  LinkInv'
<1>1. PICK co, ho, a, b : co = conn[c] /\ ho = host[c] /\ a = h2t[c] /\ b = t2h[c]
  OBVIOUS
<1>2. Link(co, ho, a, b)
  BY <1>1 DEF LinkInv
<1>3. PICK a2 : a2 = Tail(h2t[c])
  OBVIOUS
<1>4. Dropped(a2, a) /\ a[1].type # "EOF" /\ IsSeq(a2)
  BY <1>1, <1>3, SomethingSent DEF Dropped
<1>5. ho.phase = "closed" => Gone(co2, ho, a2, b2)
  <2> HAVE ho.phase = "closed"
  <2>1. Gone(co, ho, a, b) /\ IsSeq(a) /\ a # <<>> /\ b2 = <<>>
    BY <1>1, <1>2 DEF Link
  <2>2. Gone(co2, ho, a2, <<>>)
    BY <1>4, <2>1, GoneTaken
  <2>3. QED
    BY <2>1, <2>2
<1>6. IsSeq(b2)
  BY SeqNone
<1>7. Link(co2, ho, a2, b2)
  BY <1>1, <1>2, <1>3, <1>4, <1>5, <1>6 DEF Link
<1>8. Moved(c, co2, ho, a2, b2)
  BY <1>1, <1>3 DEF Serves
<1>9. QED
  BY <1>7, <1>8, MovedLinks

(* What a handler that answers puts into the host's stream.                *)
Answers(c, b2, more) == b2 = IF host[c].phase = "closed" THEN <<>> ELSE t2h[c] \o more

(* The phases a PDU of the host's can arrive in.                           *)
LEMMA PhaseOf ==
    ASSUME LinkInv, NEW c \in Conn, h2t[c] # <<>>
    PROVE  /\ host[c].phase \in {"closed", "init", "ready"}
           /\ host[c].phase = "init" => /\ Head(h2t[c]).type \in {"ICREQ", "CONNECT"}
                                        /\ Greeting(conn[c], host[c], h2t[c], t2h[c])
                                        /\ Len(h2t[c]) = 1 /\ t2h[c] = <<>>
           /\ host[c].phase = "ready" => /\ Head(h2t[c]).type \in {"CAPSULE", "H2CDATA"}
                                         /\ Talking(conn[c], host[c], h2t[c], t2h[c])
           /\ DOMAIN conn[c] = {"state", "qid", "xfer"}
           /\ conn[c].xfer # NoXfer => DOMAIN conn[c].xfer = {"op", "cid", "lpn", "len", "total"}
<1>1. Link(conn[c], host[c], h2t[c], t2h[c])
  BY DEF LinkInv
<1>2. PICK co, ho, a, b : co = conn[c] /\ ho = host[c] /\ a = h2t[c] /\ b = t2h[c]
  OBVIOUS
<1>3. Head(a) = a[1] /\ 1 \in 1..Len(a) /\ IsSeq(b) /\ IsSeq(a)
  BY <1>2, SomethingSent
<1>4. ASSUME ho.phase = "init" PROVE /\ a[1].type \in {"ICREQ", "CONNECT"}
                                     /\ Greeting(co, ho, a, b) /\ Len(a) = 1 /\ b = <<>>
  <2>1. Greeting(co, ho, a, b)
    BY <1>1, <1>2, <1>4 DEF Link
  <2>2. Len(a) \in Nat /\ Len(b) \in Nat /\ Len(a) + Len(b) = 1
    BY <1>3, <2>1, SeqLength DEF Greeting
  <2>3. Len(a) = 1 /\ Len(b) = 0
    <3>1. PICK m, n : m = Len(a) /\ n = Len(b)
      OBVIOUS
    <3>2. m \in Nat /\ n \in Nat /\ m + n = 1 /\ 1 \in 1..m
      BY <1>2, <1>3, <2>2, <3>1
    <3>3. m = 1 /\ n = 0
      BY <3>2
    <3>4. QED
      BY <3>1, <3>3
  <2>4. QED
    BY <1>3, <2>1, <2>3, SeqLength DEF Greeting
<1>5. ASSUME ho.phase = "ready" PROVE a[1].type \in {"CAPSULE", "H2CDATA"} /\ Talking(co, ho, a, b)
  BY <1>1, <1>2, <1>3, <1>5 DEF Link, Talking
<1>6. /\ ho.phase \in {"closed", "init", "ready"} /\ DOMAIN co = {"state", "qid", "xfer"}
      /\ co.xfer # NoXfer => DOMAIN co.xfer = {"op", "cid", "lpn", "len", "total"}
  BY <1>1, <1>2 DEF Link
<1>7. QED
  BY <1>2, <1>3, <1>4, <1>5, <1>6

LEMMA GreetingAnswered ==
    ASSUME NEW co, NEW ho, NEW a, IsSeq(a), Len(a) = 1, NEW b, b = <<>>, Greeting(co, ho, a, b),
           NEW co2, co2.state # "CLOSED", co2.xfer = co.xfer, NEW a2, Dropped(a2, a),
           NEW p, p.type \in {"ICRESP", "CONNECTED"}, NEW b2, Joined(b2, b, <<p>>)
    PROVE  IsSeq(b2) /\ Greeting(co2, ho, a2, b2)
<1>1. Len(a2) = 0
  BY DroppedIndex
<1>2. IsSeq(b2) /\ Len(b2) = 1
  BY SeqNone, SeqOne DEF Joined
<1>3. b2[1] = p
  <2>1. Len(b) = 0 /\ <<p>>[1] = p /\ Len(<<p>>) = 1
    BY SeqNone, SeqOne
  <2>2. b2[Len(b) + 1] = <<p>>[1]
    BY <2>1 DEF Joined
  <2>3. QED
    BY <2>1, <2>2
<1>4. \A k \in 1..Len(a2) : FALSE
  BY <1>1
<1>5. \A k \in 1..Len(b2) : b2[k] = p
  BY <1>2, <1>3
<1>6. co2.xfer = NoXfer /\ Idle(ho)
  BY DEF Greeting
<1>7. QED
  BY <1>1, <1>2, <1>4, <1>5, <1>6 DEF Greeting

LEMMA IcReqLinks == ASSUME LinkInv, NEW c \in Conn, HandleIcReq(c) PROVE LinkInv'
<1>1. PICK co, co2, b2 : co = conn[c] /\ co2 = [co EXCEPT !.state = "READY"] /\ b2 = t2h'[c]
  OBVIOUS
<1>2. PICK p : p = [type |-> "ICRESP"]
  OBVIOUS
<1>3. h2t[c] # <<>> /\ Head(h2t[c]).type = "ICREQ" /\ Answers(c, b2, <<p>>) /\ Serves(c, co2, b2)
  BY <1>1, <1>2 DEF HandleIcReq, Next1, Takes, Sends, Answers, Serves, Moved, LinkInv
<1>4. co2.state # "CLOSED" /\ DOMAIN co2 = {"state", "qid", "xfer"} /\ co2.xfer = co.xfer
  BY <1>1, <1>3, PhaseOf
<1>5. ASSUME host[c].phase = "init" PROVE IsSeq(b2) /\ Greeting(co2, host[c], Tail(h2t[c]), b2)
  <2>1. PICK ho, a, b, a2 : ho = host[c] /\ a = h2t[c] /\ b = t2h[c] /\ a2 = Tail(h2t[c])
    OBVIOUS
  <2>2. /\ IsSeq(a) /\ Len(a) = 1 /\ b = <<>> /\ Greeting(co, ho, a, b) /\ Dropped(a2, a)
    BY <1>1, <1>3, <1>5, <2>1, PhaseOf, SomethingSent
  <2>3. Joined(b2, b, <<p>>)
    BY <1>3, <1>5, <2>1, <2>2, SeqNone, SeqOne, SeqJoined DEF Answers
  <2>4. p.type \in {"ICRESP", "CONNECTED"}
    BY <1>2
  <2>5. IsSeq(b2) /\ Greeting(co2, ho, a2, b2)
    BY <1>4, <2>2, <2>3, <2>4, GreetingAnswered
  <2>6. QED
    BY <2>1, <2>5
<1>6. host[c].phase # "ready" /\ host[c].phase \in {"closed", "init", "ready"}
  BY <1>3, PhaseOf
<1>7. host[c].phase = "closed" => b2 = <<>>
  BY <1>3 DEF Answers
<1>8. co2.xfer # NoXfer => DOMAIN co2.xfer = {"op", "cid", "lpn", "len", "total"}
  BY <1>1, <1>3, <1>4, PhaseOf
<1>9. QED
  BY <1>3, <1>4, <1>5, <1>6, <1>7, <1>8, ServedLinks

LEMMA ConnectLinks == ASSUME LinkInv, NEW c \in Conn, HandleConnect(c) PROVE LinkInv'
<1>1. PICK co, co2, b2 : co = conn[c] /\ co2 = [co EXCEPT !.qid = 1] /\ b2 = t2h'[c]
  OBVIOUS
<1>2. PICK p : p = [type |-> "CONNECTED"]
  OBVIOUS
<1>3. h2t[c] # <<>> /\ Head(h2t[c]).type = "CONNECT" /\ Answers(c, b2, <<p>>) /\ Serves(c, co2, b2)
  BY <1>1, <1>2 DEF HandleConnect, Next1, Takes, Sends, Answers, Serves, Moved, LinkInv
<1>4. co2.state # "CLOSED" /\ DOMAIN co2 = {"state", "qid", "xfer"} /\ co2.xfer = co.xfer
  BY <1>1, <1>3, PhaseOf, SomethingSent
<1>5. ASSUME host[c].phase = "init" PROVE IsSeq(b2) /\ Greeting(co2, host[c], Tail(h2t[c]), b2)
  <2>1. PICK ho, a, b, a2 : ho = host[c] /\ a = h2t[c] /\ b = t2h[c] /\ a2 = Tail(h2t[c])
    OBVIOUS
  <2>2. /\ IsSeq(a) /\ Len(a) = 1 /\ b = <<>> /\ Greeting(co, ho, a, b) /\ Dropped(a2, a)
    BY <1>1, <1>3, <1>5, <2>1, PhaseOf, SomethingSent
  <2>3. Joined(b2, b, <<p>>)
    BY <1>3, <1>5, <2>1, <2>2, SeqNone, SeqOne, SeqJoined DEF Answers
  <2>4. p.type \in {"ICRESP", "CONNECTED"}
    BY <1>2
  <2>5. IsSeq(b2) /\ Greeting(co2, ho, a2, b2)
    BY <1>4, <2>2, <2>3, <2>4, GreetingAnswered
  <2>6. QED
    BY <2>1, <2>5
<1>6. host[c].phase # "ready" /\ host[c].phase \in {"closed", "init", "ready"}
  BY <1>3, PhaseOf
<1>7. host[c].phase = "closed" => b2 = <<>>
  BY <1>3 DEF Answers
<1>8. co2.xfer # NoXfer => DOMAIN co2.xfer = {"op", "cid", "lpn", "len", "total"}
  BY <1>1, <1>3, <1>4, PhaseOf
<1>9. QED
  BY <1>3, <1>4, <1>5, <1>6, <1>7, <1>8, ServedLinks

(* A termination request is only taken once the host has gone.             *)
LEMMA TermReqLinks == ASSUME LinkInv, NEW c \in Conn, HandleTermReq(c) PROVE LinkInv'
<1>1. PICK co, co2, b2 : co = conn[c] /\ co2 = [co EXCEPT !.state = "TERMINATING"] /\ b2 = t2h[c]
  OBVIOUS
<1>2. h2t[c] # <<>> /\ Head(h2t[c]).type = "TERM" /\ Serves(c, co2, b2)
  BY <1>1 DEF HandleTermReq, Next1, Takes, Serves, Moved, LinkInv
<1>3. host[c].phase = "closed" /\ DOMAIN co = {"state", "qid", "xfer"}
  BY <1>1, <1>2, PhaseOf
<1>4. b2 = <<>>
  <2>1. Link(conn[c], host[c], h2t[c], t2h[c])
    BY DEF LinkInv
  <2>2. QED
    BY <1>1, <1>3, <2>1 DEF Link, Gone
<1>5. /\ co2.state # "CLOSED" /\ DOMAIN co2 = {"state", "qid", "xfer"}
      /\ co2.xfer # NoXfer => DOMAIN co2.xfer = {"op", "cid", "lpn", "len", "total"}
  BY <1>1, <1>2, <1>3, PhaseOf
<1>6. QED
  BY <1>2, <1>3, <1>4, <1>5, ServedLinks

LEMMA CloseLinks == ASSUME LinkInv, NEW c \in Conn, HandleClose(c) PROVE LinkInv'
<1>1. PICK co, ho, a, b : co = conn[c] /\ ho = host[c] /\ a = h2t[c] /\ b = t2h[c]
  OBVIOUS
<1>2. PICK a2 : a2 = Tail(h2t[c])
  OBVIOUS
<1>3. a # <<>> /\ Head(a).type = "EOF" /\ Moved(c, Closed, ho, a2, b)
  BY <1>1, <1>2 DEF HandleClose, Next1, Takes, Moved, LinkInv
<1>4. ho.phase = "closed"
  BY <1>1, <1>3, PhaseOf
<1>5. Link(co, ho, a, b) /\ Gone(co, ho, a, b)
  BY <1>1, <1>4 DEF LinkInv, Link
<1>6. Head(a) = a[1] /\ 1 \in 1..Len(a) /\ Dropped(a2, a) /\ IsSeq(a)
  BY <1>1, <1>2, <1>3, SomethingSent
<1>7. a2 = <<>>
  <2>1. Len(a) = 1
    BY <1>3, <1>5, <1>6 DEF Gone
  <2>2. Len(a2) \in Nat /\ Len(a) = Len(a2) + 1 /\ IsSeq(a2)
    BY <1>6, DroppedIndex DEF Dropped
  <2>3. QED
    BY <2>1, <2>2, SeqLength
<1>8. /\ Closed.state = "CLOSED" /\ Closed.xfer = NoXfer /\ DOMAIN Closed = {"state", "qid", "xfer"}
  BY DEF Closed
<1>9. Gone(Closed, ho, a2, b)
  BY <1>5, <1>7, <1>8 DEF Gone
<1>10. Link(Closed, ho, a2, b)
  BY <1>4, <1>5, <1>7, <1>8, <1>9, SeqNone DEF Link
<1>11. QED
  BY <1>3, <1>10, MovedLinks

(* A capsule taken from a connection that is talking, and its answer.      *)
LEMMA CapsuleAnswered ==
    ASSUME NEW co, NEW ho, NEW a, IsSeq(a), a # <<>>, NEW b, IsSeq(b), Talking(co, ho, a, b),
           a[1].type = "CAPSULE", NEW a2, Dropped(a2, a),
           NEW co2, co2.state = co.state,
           co2.xfer # NoXfer => co.xfer # NoXfer /\ co2.xfer.cid = co.xfer.cid,
           NEW m, NEW more, IsAnswer(more, ho, a[1].cid, m), NEW b2, Joined(b2, b, more)
    PROVE  IsSeq(b2) /\ Talking(co2, ho, a2, b2)
<1>1. PICK p, i : p = a[1] /\ i = p.cid
  OBVIOUS
<1>2. OnItsWay(co, ho, a, b, p) /\ Without(a2, i)
  BY <1>1, CapsuleTaken DEF Talking
<1>3. /\ i \in TcpCid /\ ho.cmd[i] \in TcpCommands /\ Quiet(b, i)
      /\ co.xfer # NoXfer => co.xfer.cid # i
  BY <1>1, <1>2 DEF OnItsWay
<1>4. Talking(co, ho, a2, b)
  BY TakenTalks
<1>5. Talking(co2, ho, a2, b)
  BY <1>4, TransferGoesOn
<1>6. co2.xfer # NoXfer => co2.xfer.cid # i
  BY <1>3
<1>7. IsAnswer(more, ho, i, m)
  BY <1>1
<1>8. Talking(co2, ho, a2, b2)
  BY <1>2, <1>3, <1>5, <1>6, <1>7, AnswerTalks
<1>9. QED
  BY <1>8 DEF Joined

(* The data that end a transfer, and its answer.                           *)
LEMMA TransferAnswered ==
    ASSUME NEW co, NEW ho, NEW a, IsSeq(a), a # <<>>, NEW b, IsSeq(b), Talking(co, ho, a, b),
           NEW a2, Dropped(a2, a), co.xfer # NoXfer,
           NEW co2, co2.state = co.state, co2.xfer = NoXfer,
           NEW m, NEW more, IsAnswer(more, ho, co.xfer.cid, m), NEW b2, Joined(b2, b, more)
    PROVE  IsSeq(b2) /\ Talking(co2, ho, a2, b2)
<1>1. PICK i : i = co.xfer.cid
  OBVIOUS
<1>2. Talking(co, ho, a2, b)
  BY TakenTalks
<1>3. i \in TcpCid /\ ho.cmd[i] \in TcpCommands /\ Quiet(b, i)
  BY <1>1 DEF Talking, TransferOk
<1>4. Without(a2, i)
  BY <1>1, <1>2 DEF Talking, CapsulesOk, OnItsWay, Without
<1>5. Talking(co2, ho, a2, b)
  BY <1>2, TransferGoesOn
<1>6. co2.xfer # NoXfer => co2.xfer.cid # i
  OBVIOUS
<1>7. IsAnswer(more, ho, i, m)
  BY <1>1
<1>8. Talking(co2, ho, a2, b2)
  BY <1>3, <1>4, <1>5, <1>6, <1>7, AnswerTalks
<1>9. QED
  BY <1>8 DEF Joined

LEMMA PlainAnswer ==
    ASSUME NEW ho, NEW i, ho.cmd[i].op # "READ", NEW ok
    PROVE  IsAnswer(<<Resp(i, ok)>>, ho, i, 0)
<1>1. PICK r : r = Resp(i, ok)
  OBVIOUS
<1>2. r.type = "RESP" /\ r.cid = i
  BY <1>1 DEF Resp
<1>3. PICK more : more = <<r>>
  OBVIOUS
<1>4. IsSeq(more) /\ Len(more) = 0 + 1 /\ more[0 + 1] = r
  BY <1>3, SeqOne
<1>5. IsAnswer(more, ho, i, 0)
  BY <1>2, <1>4 DEF IsAnswer
<1>6. QED
  BY <1>1, <1>3, <1>5

LEMMA ReadAnswer ==
    ASSUME NEW ho, NEW i, NEW n \in Nat \ {0}, ho.cmd[i].op = "READ", ho.cmd[i].n = n,
           ho.got[i] = <<>>, NEW data, IsSeq(data), Len(data) = n
    PROVE  IsAnswer(Chunks(i, data) \o <<Resp(i, TRUE)>>, ho, i, Pieces(n))
<1>1. PICK s, r, more, m : s = Chunks(i, data) /\ r = Resp(i, TRUE) /\ more = s \o <<r>> /\ m = Pieces(n)
  OBVIOUS
<1>2. r.type = "RESP" /\ r.cid = i
  BY <1>1 DEF Resp
<1>3. IsSeq(s) /\ Len(s) = m /\ \A j \in 1..m : IsPiece(s[j], i, n, j)
  BY <1>1, ChunksArePieces
<1>4. m \in Nat
  BY <1>1, PieceFacts
<1>5. Joined(more, s, <<r>>)
  BY <1>1, <1>3, SeqOne, SeqJoined
<1>6. Len(<<r>>) = 1 /\ <<r>>[1] = r
  BY SeqOne
<1>7. IsSeq(more) /\ Len(more) = m + 1 /\ (\A k \in 1..m : more[k] = s[k]) /\ more[m + 1] = r
  BY <1>3, <1>5, <1>6 DEF Joined
<1>8. \A j \in 1..m : IsPiece(more[j], i, n, j) /\ more[j].type = "C2HDATA" /\ more[j].cid = i
  BY <1>3, <1>7 DEF IsPiece
<1>9. IsAnswer(more, ho, i, m)
  BY <1>1, <1>2, <1>4, <1>7, <1>8 DEF IsAnswer
<1>10. QED
  BY <1>1, <1>9

(* A command answered at once, with the transfer kept or dropped.          *)
LEMMA AnsweredLinks ==
    ASSUME LinkInv, NEW c \in Conn, h2t[c] # <<>>, Head(h2t[c]).type = "CAPSULE",
           NEW co2, NEW b2, Serves(c, co2, b2), co2.state = conn[c].state,
           DOMAIN co2 = {"state", "qid", "xfer"}, co2.xfer \in {NoXfer, conn[c].xfer},
           NEW m, NEW more, Answers(c, b2, more),
           host[c].phase = "ready" => IsAnswer(more, host[c], Head(h2t[c]).cid, m)
    PROVE  LinkInv'
<1>1. PICK co, ho, a, b, a2 : /\ co = conn[c] /\ ho = host[c] /\ a = h2t[c] /\ b = t2h[c]
                              /\ a2 = Tail(h2t[c])
  OBVIOUS
<1>2. /\ co2.xfer # NoXfer => co.xfer # NoXfer /\ co2.xfer.cid = co.xfer.cid
      /\ co2.xfer # NoXfer => DOMAIN co2.xfer = {"op", "cid", "lpn", "len", "total"}
  BY <1>1, PhaseOf
<1>3. ASSUME ho.phase = "ready" PROVE IsSeq(b2) /\ Talking(co2, ho, a2, b2)
  <2>1. /\ IsSeq(a) /\ a # <<>> /\ IsSeq(b) /\ Talking(co, ho, a, b) /\ a[1].type = "CAPSULE"
        /\ Dropped(a2, a) /\ co2.state = co.state /\ IsAnswer(more, ho, a[1].cid, m)
    BY <1>1, <1>3, SomethingSent, PhaseOf
  <2>2. IsSeq(more)
    BY <2>1 DEF IsAnswer
  <2>3. Joined(b2, b, more)
    BY <1>1, <1>3, <2>1, <2>2, SeqJoined DEF Answers
  <2>4. QED
    BY <1>2, <2>1, <2>3, CapsuleAnswered
<1>4. ho.phase \in {"closed", "ready"}
  BY <1>1, PhaseOf
<1>5. ho.phase = "closed" => b2 = <<>>
  BY <1>1 DEF Answers
<1>6. co2.state # "CLOSED"
  BY SomethingSent
<1>7. QED
  BY <1>1, <1>2, <1>3, <1>4, <1>5, <1>6, ServedLinks

(* The command at the head of a connection that is talking.                *)
LEMMA CapsuleCommand ==
    ASSUME LinkInv, NEW c \in Conn, h2t[c] # <<>>, Head(h2t[c]).type = "CAPSULE",
           host[c].phase = "ready"
    PROVE  LET p == Head(h2t[c])
           IN  /\ p.cid \in TcpCid /\ p.cmd \in TcpCommands /\ p.cmd = host[c].cmd[p.cid]
               /\ host[c].got[p.cid] = <<>>
<1>1. PICK co, ho, a, b, a2 : /\ co = conn[c] /\ ho = host[c] /\ a = h2t[c] /\ b = t2h[c]
                              /\ a2 = Tail(h2t[c])
  OBVIOUS
<1>2. /\ Talking(co, ho, a, b) /\ a[1].type = "CAPSULE" /\ a[1] = Head(h2t[c]) /\ 1 \in 1..Len(a)
  BY <1>1, SomethingSent, PhaseOf
<1>3. OnItsWay(co, ho, a, b, a[1])
  BY <1>2 DEF Talking, CapsulesOk
<1>4. QED
  BY <1>1, <1>2, <1>3 DEF OnItsWay

(* The target takes a command and answers it; if the command has data for  *)
(* the target, with an error.                                              *)
AnswersAtOnce(c) ==
    /\ h2t[c] # <<>> /\ Head(h2t[c]).type = "CAPSULE"
    /\ Serves(c, conn[c], t2h'[c]) /\ wbuf' = wbuf /\ owner' = owner /\ lost' = lost
    /\ \E more, m : /\ Answers(c, t2h'[c], more)
                    /\ host[c].phase = "ready" => IsAnswer(more, host[c], Head(h2t[c]).cid, m)
                    /\ Head(h2t[c]).cmd.op \in Moves => ~more[m + 1].ok

LEMMA AtOnceLinks == ASSUME LinkInv, NEW c \in Conn, AnswersAtOnce(c) PROVE LinkInv'
<1>1. PICK more, m : /\ Answers(c, t2h'[c], more)
                     /\ host[c].phase = "ready" => IsAnswer(more, host[c], Head(h2t[c]).cid, m)
  BY DEF AnswersAtOnce
<1>2. PICK co, b2 : co = conn[c] /\ b2 = t2h'[c]
  OBVIOUS
<1>3. h2t[c] # <<>> /\ Head(h2t[c]).type = "CAPSULE" /\ Serves(c, co, b2) /\ Answers(c, b2, more)
  BY <1>1, <1>2 DEF AnswersAtOnce
<1>4. co.state = conn[c].state /\ DOMAIN co = {"state", "qid", "xfer"} /\ co.xfer \in {NoXfer, conn[c].xfer}
  BY <1>2, <1>3, PhaseOf
<1>5. QED
  BY <1>1, <1>3, <1>4, AnsweredLinks

LEMMA ReadAtOnce == ASSUME LinkInv, NEW c \in Conn, HandleRead(c) PROVE AnswersAtOnce(c)
<1>1. PICK p : p = Head(h2t[c]) /\ h2t[c] # <<>> /\ p.type = "CAPSULE" /\ p.cmd.op = "READ"
  BY DEF HandleRead, Capsule, Next1
<1>2. PICK data \in ReadResult(p.cmd.lpn, p.cmd.n) : Sends(c, Chunks(p.cid, data) \o <<Resp(p.cid, TRUE)>>)
  BY <1>1 DEF HandleRead
<1>3. PICK more : more = Chunks(p.cid, data) \o <<Resp(p.cid, TRUE)>>
  OBVIOUS
<1>4. Answers(c, t2h'[c], more) /\ Serves(c, conn[c], t2h'[c])
  BY <1>2, <1>3 DEF HandleRead, Capsule, Takes, Sends, Answers, Serves, Moved, LinkInv
<1>5. ASSUME host[c].phase = "ready" PROVE IsAnswer(more, host[c], p.cid, Pieces(p.cmd.n))
  <2>1. PICK ho, i, n : ho = host[c] /\ i = p.cid /\ n = p.cmd.n
    OBVIOUS
  <2>2. p.cmd \in TcpCommands /\ p.cmd = ho.cmd[i] /\ ho.got[i] = <<>>
    BY <1>1, <1>5, <2>1, CapsuleCommand
  <2>3. n \in Nat \ {0} /\ ho.cmd[i].op = "READ" /\ ho.cmd[i].n = n
    BY <1>1, <2>1, <2>2, ReadPieces
  <2>4. DOMAIN data = 1..n /\ data = [k \in 1..n |-> data[k]]
    BY <2>1 DEF ReadResult
  <2>5. IsSeq(data) /\ Len(data) = n
    BY <2>3, <2>4, SeqFunction
  <2>6. IsAnswer(Chunks(i, data) \o <<Resp(i, TRUE)>>, ho, i, Pieces(n))
    BY <2>2, <2>3, <2>5, ReadAnswer
  <2>7. QED
    BY <1>3, <2>1, <2>6
<1>6. p.cmd.op \notin Moves
  BY <1>1 DEF Moves
<1>7. wbuf' = wbuf /\ owner' = owner /\ lost' = lost
  BY DEF HandleRead
<1>8. QED
  BY <1>1, <1>4, <1>5, <1>6, <1>7 DEF AnswersAtOnce

LEMMA WriteZeroesAtOnce == ASSUME LinkInv, NEW c \in Conn, HandleWriteZeroes(c) PROVE AnswersAtOnce(c)
<1>1. PICK p : p = Head(h2t[c]) /\ h2t[c] # <<>> /\ p.type = "CAPSULE" /\ p.cmd.op = "WRITE_ZEROES"
  BY DEF HandleWriteZeroes, Capsule, Next1
<1>2. PICK ok \in BOOLEAN : Sends(c, <<Resp(p.cid, ok)>>)
  BY <1>1 DEF HandleWriteZeroes
<1>3. PICK more : more = <<Resp(p.cid, ok)>>
  OBVIOUS
<1>4. Answers(c, t2h'[c], more) /\ Serves(c, conn[c], t2h'[c])
  BY <1>2, <1>3 DEF HandleWriteZeroes, Capsule, Takes, Sends, Answers, Serves, Moved, LinkInv
<1>5. ASSUME host[c].phase = "ready" PROVE IsAnswer(more, host[c], p.cid, 0)
  <2>1. p.cmd = host[c].cmd[p.cid]
    BY <1>1, <1>5, CapsuleCommand
  <2>2. QED
    BY <1>1, <1>3, <2>1, PlainAnswer
<1>6. p.cmd.op \notin Moves
  BY <1>1 DEF Moves
<1>7. wbuf' = wbuf /\ owner' = owner /\ lost' = lost
  BY DEF HandleWriteZeroes
<1>8. QED
  BY <1>1, <1>4, <1>5, <1>6, <1>7 DEF AnswersAtOnce

LEMMA OtherAtOnce == ASSUME LinkInv, NEW c \in Conn, HandleOther(c) PROVE AnswersAtOnce(c)
<1>1. PICK p : p = Head(h2t[c]) /\ h2t[c] # <<>> /\ p.type = "CAPSULE" /\ p.cmd.op = "OTHER"
  BY DEF HandleOther, Capsule, Next1
<1>2. PICK more : more = <<Resp(p.cid, TRUE)>>
  OBVIOUS
<1>3. Answers(c, t2h'[c], more) /\ Serves(c, conn[c], t2h'[c])
  BY <1>1, <1>2 DEF HandleOther, Capsule, Takes, Sends, Answers, Serves, Moved, LinkInv
<1>4. ASSUME host[c].phase = "ready" PROVE IsAnswer(more, host[c], p.cid, 0)
  <2>1. p.cmd = host[c].cmd[p.cid]
    BY <1>1, <1>4, CapsuleCommand
  <2>2. QED
    BY <1>1, <1>2, <2>1, PlainAnswer
<1>5. p.cmd.op \notin Moves
  BY <1>1 DEF Moves
<1>6. wbuf' = wbuf /\ owner' = owner /\ lost' = lost
  BY DEF HandleOther
<1>7. QED
  BY <1>1, <1>3, <1>4, <1>5, <1>6 DEF AnswersAtOnce

LEMMA TooLongAtOnce == ASSUME LinkInv, NEW c \in Conn, HandleTooLong(c) PROVE AnswersAtOnce(c)
<1>1. PICK p : p = Head(h2t[c]) /\ h2t[c] # <<>> /\ p.type = "CAPSULE" /\ p.cmd.op \in Moves
  BY DEF HandleTooLong, Capsule, Next1
<1>2. PICK more : more = <<Resp(p.cid, FALSE)>>
  OBVIOUS
<1>3. Answers(c, t2h'[c], more) /\ Serves(c, conn[c], t2h'[c])
  BY <1>1, <1>2 DEF HandleTooLong, Capsule, Takes, Sends, Answers, Serves, Moved, LinkInv
<1>4. ASSUME host[c].phase = "ready" PROVE IsAnswer(more, host[c], p.cid, 0)
  <2>1. p.cmd = host[c].cmd[p.cid]
    BY <1>1, <1>4, CapsuleCommand
  <2>2. host[c].cmd[p.cid].op # "READ"
    BY <1>1, <2>1 DEF Moves
  <2>3. QED
    BY <1>2, <2>2, PlainAnswer
<1>5. ~more[0 + 1].ok
  <2>1. PICK q : q = Resp(p.cid, FALSE)
    OBVIOUS
  <2>2. q.ok = FALSE
    BY <2>1 DEF Resp
  <2>3. 0 + 1 = 1 /\ more[1] = q
    BY <1>2, <2>1, SeqOne
  <2>4. QED
    BY <2>2, <2>3
<1>6. wbuf' = wbuf /\ owner' = owner /\ lost' = lost
  BY DEF HandleTooLong
<1>7. QED
  BY <1>1, <1>3, <1>4, <1>5, <1>6 DEF AnswersAtOnce

(* A command that asks for its data.                                       *)
LEMMA CapsuleAsked ==
    ASSUME NEW co, NEW ho, NEW a, IsSeq(a), a # <<>>, NEW b, IsSeq(b), Talking(co, ho, a, b),
           a[1].type = "CAPSULE", a[1].cmd.op \in Moves, NEW a2, Dropped(a2, a),
           NEW co2, co2.state = co.state, co2.xfer.cid = a[1].cid,
           NEW q, q.type = "R2T", q.len \in Nat, NEW b2, Joined(b2, b, <<q>>)
    PROVE  IsSeq(b2) /\ Talking(co2, ho, a2, b2)
<1>1. PICK p, i : p = a[1] /\ i = p.cid
  OBVIOUS
<1>2. OnItsWay(co, ho, a, b, p) /\ Without(a2, i)
  BY <1>1, CapsuleTaken DEF Talking
<1>3. /\ i \in TcpCid /\ ho.cmd[i] \in TcpCommands /\ Quiet(b, i) /\ ho.cmd[i].op \in Moves
  BY <1>1, <1>2 DEF OnItsWay
<1>4. Talking(co, ho, a2, b)
  BY TakenTalks
<1>5. Talking(co2, ho, a2, b)
  BY <1>1, <1>2, <1>3, <1>4, TransferStarts
<1>6. Talking(co2, ho, a2, b2)
  BY <1>5, AskTalks
<1>7. QED
  BY <1>6 DEF Joined

LEMMA MoveLinks == ASSUME LinkInv, NEW c \in Conn, HandleMove(c) PROVE LinkInv'
<1>1. PICK p : p = Head(h2t[c]) /\ h2t[c] # <<>> /\ p.type = "CAPSULE" /\ p.cmd.op \in Moves
  BY DEF HandleMove, Capsule, Next1
<1>2. PICK total, here : total = Len(Payload(p.cmd)) /\ here = Len(p.data)
  OBVIOUS
<1>3. PICK co, b2 : co = conn[c] /\ b2 = t2h'[c]
  OBVIOUS
<1>4. DOMAIN co = {"state", "qid", "xfer"}
  BY <1>1, <1>3, PhaseOf
<1>5. CASE here < total
  <2>1. PICK x : x = [op |-> p.cmd.op, cid |-> p.cid, lpn |-> p.cmd.lpn, len |-> here, total |-> total]
    OBVIOUS
  <2>2. PICK co2, q : /\ co2 = [co EXCEPT !.xfer = x]
                      /\ q = [type |-> "R2T", cid |-> p.cid, off |-> here, len |-> total - here]
    OBVIOUS
  <2>3. conn' = [conn EXCEPT ![c].xfer = x] /\ Sends(c, <<q>>)
    BY <1>1, <1>2, <1>5, <2>1, <2>2 DEF HandleMove, Asks
  <2>4. Answers(c, b2, <<q>>) /\ Serves(c, co2, b2)
    BY <1>3, <2>2, <2>3 DEF HandleMove, Capsule, Takes, Sends, Answers, Serves, Moved, LinkInv
  <2>5. /\ co2.state = co.state /\ DOMAIN co2 = {"state", "qid", "xfer"} /\ co2.xfer = x
        /\ DOMAIN x = {"op", "cid", "lpn", "len", "total"} /\ x.cid = p.cid
        /\ q.type = "R2T" /\ q.len = total - here
    BY <1>4, <2>1, <2>2
  <2>6. ASSUME host[c].phase = "ready" PROVE q.len \in Nat
    <3>1. p.cmd \in TcpCommands
      BY <1>1, <2>6, CapsuleCommand
    <3>2. total \in Nat
      BY <1>2, <3>1, PayloadFacts
    <3>3. here \in Nat
      <4>1. PICK ho, a, b : ho = host[c] /\ a = h2t[c] /\ b = t2h[c]
        OBVIOUS
      <4>2. Talking(co, ho, a, b) /\ p = a[1] /\ 1 \in 1..Len(a)
        BY <1>1, <1>3, <2>6, <4>1, PhaseOf, SomethingSent
      <4>3. OnItsWay(co, ho, a, b, p)
        BY <1>1, <4>2 DEF Talking, CapsulesOk
      <4>4. PICK k \in Nat : k <= Len(Payload(p.cmd)) /\ p.data = SubSeq(Payload(p.cmd), 1, k)
        BY <4>3 DEF OnItsWay
      <4>5. PICK s : s = Payload(p.cmd) /\ IsSeq(s) /\ 0 <= k /\ k <= Len(s)
        BY <3>1, <4>4, PayloadFacts
      <4>6. IsSeq(SubSeq(s, 0 + 1, k)) /\ Len(SubSeq(s, 0 + 1, k)) = k - 0
        BY <4>5, SeqPart
      <4>7. QED
        BY <1>2, <4>4, <4>5, <4>6
    <3>4. QED
      BY <1>5, <2>5, <3>2, <3>3
  <2>7. ASSUME host[c].phase = "ready"
        PROVE  IsSeq(b2) /\ Talking(co2, host[c], Tail(h2t[c]), b2)
    <3>1. PICK ho, a, b, a2 : ho = host[c] /\ a = h2t[c] /\ b = t2h[c] /\ a2 = Tail(h2t[c])
      OBVIOUS
    <3>2. /\ IsSeq(a) /\ a # <<>> /\ IsSeq(b) /\ Talking(co, ho, a, b) /\ a[1] = p
          /\ Dropped(a2, a)
      BY <1>1, <1>3, <2>7, <3>1, SomethingSent, PhaseOf
    <3>3. Joined(b2, b, <<q>>)
      BY <2>4, <2>7, <3>1, <3>2, SeqOne, SeqJoined DEF Answers
    <3>4. a[1].type = "CAPSULE" /\ a[1].cmd.op \in Moves /\ co2.xfer.cid = a[1].cid
      BY <1>1, <2>5, <3>2
    <3>5. q.type = "R2T" /\ q.len \in Nat /\ co2.state = co.state
      BY <2>5, <2>6, <2>7
    <3>6. IsSeq(b2) /\ Talking(co2, ho, a2, b2)
      BY <3>2, <3>3, <3>4, <3>5, CapsuleAsked
    <3>7. QED
      BY <3>1, <3>6
  <2>8. host[c].phase \in {"closed", "ready"} /\ co2.state # "CLOSED"
    BY <1>1, <1>3, <2>5, PhaseOf, SomethingSent
  <2>9. host[c].phase = "closed" => b2 = <<>>
    BY <2>4 DEF Answers
  <2>10. QED
    BY <1>1, <2>4, <2>5, <2>7, <2>8, <2>9, ServedLinks
<1>6. CASE ~(here < total)
  <2>1. PICK co2 : co2 = [co EXCEPT !.xfer = NoXfer]
    OBVIOUS
  <2>2. PICK ok \in BOOLEAN : conn' = [conn EXCEPT ![c].xfer = NoXfer] /\ Sends(c, <<Resp(p.cid, ok)>>)
    BY <1>1, <1>2, <1>6 DEF HandleMove
  <2>3. PICK more : more = <<Resp(p.cid, ok)>>
    OBVIOUS
  <2>4. Answers(c, b2, more) /\ Serves(c, co2, b2)
    BY <1>3, <2>1, <2>2, <2>3 DEF HandleMove, Capsule, Takes, Sends, Answers, Serves, Moved, LinkInv
  <2>5. co2.state = conn[c].state /\ DOMAIN co2 = {"state", "qid", "xfer"} /\ co2.xfer = NoXfer
    BY <1>3, <1>4, <2>1
  <2>6. ASSUME host[c].phase = "ready" PROVE IsAnswer(more, host[c], p.cid, 0)
    <3>1. p.cmd = host[c].cmd[p.cid]
      BY <1>1, <2>6, CapsuleCommand
    <3>2. host[c].cmd[p.cid].op # "READ"
      BY <1>1, <3>1 DEF Moves
    <3>3. QED
      BY <2>3, <3>2, PlainAnswer
  <2>7. QED
    BY <1>1, <2>4, <2>5, <2>6, AnsweredLinks
<1>7. QED
  BY <1>5, <1>6

LEMMA H2CDataLinks == ASSUME LinkInv, NEW c \in Conn, HandleH2CData(c) PROVE LinkInv'
<1>1. PICK p : p = Head(h2t[c]) /\ h2t[c] # <<>> /\ p.type = "H2CDATA"
  BY DEF HandleH2CData, Next1
<1>2. PICK co, b2, x : co = conn[c] /\ b2 = t2h'[c] /\ x = co.xfer
  OBVIOUS
<1>3. /\ DOMAIN co = {"state", "qid", "xfer"} /\ host[c].phase \in {"closed", "ready"}
      /\ x # NoXfer => DOMAIN x = {"op", "cid", "lpn", "len", "total"}
  BY <1>1, <1>2, PhaseOf
<1>4. PICK a2, b, ho, a : a2 = Tail(h2t[c]) /\ b = t2h[c] /\ ho = host[c] /\ a = h2t[c]
  OBVIOUS
<1>5. /\ IsSeq(a) /\ a # <<>> /\ IsSeq(b) /\ Dropped(a2, a)
      /\ ho.phase = "ready" => Talking(co, ho, a, b)
      /\ ho.phase = "closed" => b = <<>>
  <2>1. Link(co, ho, a, b)
    BY <1>2, <1>4 DEF LinkInv
  <2>2. QED
    BY <1>1, <1>2, <1>4, <2>1, SomethingSent DEF Link, Gone
<1>6. co.state # "CLOSED"
  BY <1>1, <1>2, SomethingSent
<1>7. CASE x = NoXfer
  <2>1. conn' = conn /\ t2h' = t2h
    BY <1>2, <1>7 DEF HandleH2CData
  <2>2. Serves(c, co, b)
    BY <1>2, <1>4, <2>1 DEF HandleH2CData, Takes, Serves, Moved, LinkInv
  <2>3. ho.phase = "ready" => Talking(co, ho, a2, b)
    BY <1>5, TakenTalks
  <2>4. QED
    BY <1>1, <1>2, <1>3, <1>4, <1>5, <1>6, <1>7, <2>2, <2>3, ServedLinks
<1>8. CASE x # NoXfer /\ ~Ends(x, p)
  <2>1. PICK n : n = x.len + Len(Copied(x, p))
    OBVIOUS
  <2>2. conn' = [conn EXCEPT ![c].xfer.len = n] /\ t2h' = t2h
    BY <1>1, <1>2, <1>8, <2>1 DEF HandleH2CData
  <2>3. PICK x2, co2 : x2 = [x EXCEPT !.len = n] /\ co2 = [co EXCEPT !.xfer = x2]
    OBVIOUS
  <2>4. conn' = [conn EXCEPT ![c] = co2]
    BY <1>2, <1>3, <2>2, <2>3
  <2>5. Serves(c, co2, b)
    BY <1>4, <2>2, <2>4 DEF HandleH2CData, Takes, Serves, Moved, LinkInv
  <2>6. /\ co2.state = co.state /\ DOMAIN co2 = {"state", "qid", "xfer"} /\ co2.xfer = x2
        /\ DOMAIN x2 = {"op", "cid", "lpn", "len", "total"} /\ x2.cid = x.cid
    BY <1>3, <1>8, <2>3
  <2>7. ho.phase = "ready" => Talking(co2, ho, a2, b)
    <3> HAVE ho.phase = "ready"
    <3>1. Talking(co, ho, a2, b)
      BY <1>5, TakenTalks
    <3>2. co2.xfer # NoXfer => co.xfer # NoXfer /\ co2.xfer.cid = co.xfer.cid
      BY <1>2, <1>8, <2>6
    <3>3. QED
      BY <2>6, <3>1, <3>2, TransferGoesOn
  <2>8. QED
    BY <1>1, <1>3, <1>4, <1>5, <1>6, <2>5, <2>6, <2>7, ServedLinks
<1>9. CASE x # NoXfer /\ Ends(x, p)
  <2>1. PICK ok \in BOOLEAN : conn' = [conn EXCEPT ![c].xfer = NoXfer] /\ Sends(c, <<Resp(x.cid, ok)>>)
    BY <1>1, <1>2, <1>9 DEF HandleH2CData
  <2>2. PICK more, co2 : more = <<Resp(x.cid, ok)>> /\ co2 = [co EXCEPT !.xfer = NoXfer]
    OBVIOUS
  <2>3. Answers(c, b2, more) /\ Serves(c, co2, b2)
    BY <1>2, <2>1, <2>2 DEF HandleH2CData, Takes, Sends, Answers, Serves, Moved, LinkInv
  <2>4. co2.state = co.state /\ DOMAIN co2 = {"state", "qid", "xfer"} /\ co2.xfer = NoXfer
    BY <1>3, <2>2
  <2>5. ASSUME ho.phase = "ready" PROVE IsSeq(b2) /\ Talking(co2, ho, a2, b2)
    <3>1. Talking(co, ho, a, b) /\ ho.cmd[co.xfer.cid].op # "READ"
      BY <1>2, <1>5, <1>9, <2>5 DEF Talking, TransferOk, Moves
    <3>2. IsAnswer(more, ho, co.xfer.cid, 0) /\ IsSeq(more)
      BY <1>2, <2>2, <3>1, PlainAnswer, SeqOne
    <3>3. Joined(b2, b, more)
      BY <1>4, <1>5, <2>3, <2>5, <3>2, SeqJoined DEF Answers
    <3>4. QED
      BY <1>2, <1>5, <1>9, <2>4, <3>1, <3>2, <3>3, TransferAnswered
  <2>6. ho.phase = "closed" => b2 = <<>>
    BY <1>4, <2>3 DEF Answers
  <2>7. QED
    BY <1>1, <1>3, <1>4, <1>6, <2>3, <2>4, <2>5, <2>6, ServedLinks
<1>10. QED
  BY <1>7, <1>8, <1>9

LEMMA AcceptLinks == ASSUME LinkInv, NEW c \in Conn, TcpAccept(c) PROVE LinkInv'
<1>1. PICK co, ho, a, b : co = conn[c] /\ ho = host[c] /\ a = h2t[c] /\ b = t2h[c]
  OBVIOUS
<1>2. PICK p, a2 : p = [type |-> "ICREQ"] /\ a2 = <<p>>
  OBVIOUS
<1>3. PICK co2, ho2 : co2 = [Closed EXCEPT !.state = "NEW"] /\ ho2 = [ho EXCEPT !.phase = "init"]
  OBVIOUS
<1>4. Link(co, ho, a, b) /\ Gone(co, ho, a, b)
  BY <1>1 DEF LinkInv, Link, TcpAccept
<1>5. Moved(c, co2, ho2, a2, b)
  BY <1>1, <1>2, <1>3 DEF TcpAccept, Moved, LinkInv
<1>6. /\ co2.state = "NEW" /\ co2.xfer = NoXfer /\ DOMAIN co2 = {"state", "qid", "xfer"}
  BY <1>3 DEF Closed
<1>7. /\ ho2.phase = "init" /\ ho2.cmd = ho.cmd /\ ho2.got = ho.got
      /\ DOMAIN ho2 = {"phase", "cmd", "got"} /\ DOMAIN ho2.cmd = TcpCid /\ DOMAIN ho2.got = TcpCid
  BY <1>3, <1>4 DEF Link
<1>8. b = <<>> /\ Idle(ho2)
  BY <1>4, <1>7 DEF Gone, Idle
<1>9. IsSeq(a2) /\ Len(a2) = 1 /\ a2[1] = p /\ IsSeq(b) /\ Len(b) = 0 /\ p.type = "ICREQ"
  BY <1>2, <1>8, SeqOne, SeqNone
<1>10. Greeting(co2, ho2, a2, b)
  BY <1>6, <1>8, <1>9 DEF Greeting
<1>11. Link(co2, ho2, a2, b)
  BY <1>6, <1>7, <1>9, <1>10 DEF Link
<1>12. QED
  BY <1>5, <1>11, MovedLinks

LEMMA SubmitsLinks == ASSUME LinkInv, NEW c \in Conn, HostSubmits(c) PROVE LinkInv'
<1>1. PICK co, ho, a, b : co = conn[c] /\ ho = host[c] /\ a = h2t[c] /\ b = t2h[c]
  OBVIOUS
<1>2. PICK i \in TcpCid \ Unanswered(c), cmd \in TcpCommands :
         /\ \E k \in InCapsule(cmd) :
              h2t' = [h2t EXCEPT ![c] = Append(@, [type |-> "CAPSULE", cid |-> i, cmd |-> cmd,
                                                   data |-> SubSeq(Payload(cmd), 1, k)])]
         /\ host' = [host EXCEPT ![c].cmd[i] = cmd, ![c].got[i] = <<>>]
  BY DEF HostSubmits
<1>3. PICK k \in InCapsule(cmd) :
              h2t' = [h2t EXCEPT ![c] = Append(@, [type |-> "CAPSULE", cid |-> i, cmd |-> cmd,
                                                   data |-> SubSeq(Payload(cmd), 1, k)])]
  BY <1>2
<1>4. PICK p : p = [type |-> "CAPSULE", cid |-> i, cmd |-> cmd, data |-> SubSeq(Payload(cmd), 1, k)]
  OBVIOUS
<1>5. PICK a2, ho2 : a2 = Append(a, p) /\ ho2 = [ho EXCEPT !.cmd[i] = cmd, !.got[i] = <<>>]
  OBVIOUS
<1>6. ho.phase = "ready" /\ Link(co, ho, a, b) /\ Talking(co, ho, a, b) /\ IsSeq(a) /\ IsSeq(b)
  BY <1>1 DEF HostSubmits, LinkInv, Link
<1>7. Moved(c, co, ho2, a2, b)
  BY <1>1, <1>2, <1>3, <1>4, <1>5 DEF HostSubmits, Moved, LinkInv
<1>8. /\ ho2.phase = "ready" /\ DOMAIN ho2 = {"phase", "cmd", "got"}
      /\ DOMAIN ho2.cmd = TcpCid /\ DOMAIN ho2.got = TcpCid
      /\ ho2.cmd[i] = cmd /\ ho2.got[i] = <<>>
  BY <1>5, <1>6 DEF Link
<1>9. OthersKept(ho2, ho, i)
  BY <1>5, <1>6 DEF Link, OthersKept
<1>10. Joined(a2, a, <<p>>)
  BY <1>5, <1>6, SeqAppended, SeqOne, SeqJoined
<1>11. /\ i \in TcpCid /\ ho.cmd[i] = NoTcpCmd
  BY <1>1 DEF Unanswered
<1>12. /\ p.type = "CAPSULE" /\ p.cid = i /\ p.cmd = cmd /\ p.data = SubSeq(Payload(cmd), 1, k)
  BY <1>4
<1>13. k \in Nat /\ k <= Len(Payload(cmd))
  <2>1. Len(Payload(cmd)) \in Nat
    BY PayloadFacts, SeqLength
  <2>2. k \in Nat /\ k <= Len(Payload(cmd))
    BY <2>1 DEF InCapsule
  <2>3. QED
    BY <2>2
<1>14. /\ p.cmd \in TcpCommands /\ k <= Len(Payload(p.cmd)) /\ p.data = SubSeq(Payload(p.cmd), 1, k)
       /\ ho2.cmd[i] = p.cmd
  BY <1>8, <1>12, <1>13
<1>15. Talking(co, ho2, a2, b)
  BY <1>6, <1>8, <1>9, <1>10, <1>11, <1>12, <1>13, <1>14, CapsulePut
<1>16. Link(co, ho2, a2, b)
  BY <1>6, <1>8, <1>10, <1>15 DEF Link, Joined
<1>17. QED
  BY <1>7, <1>16, MovedLinks

LEMMA HostClosesLinks == ASSUME LinkInv, NEW c \in Conn, HostCloses(c) PROVE LinkInv'
<1>1. PICK co, ho, a, b : co = conn[c] /\ ho = host[c] /\ a = h2t[c] /\ b = t2h[c]
  OBVIOUS
<1>2. PICK ho2 : ho2 = [phase |-> "closed", cmd |-> [i \in TcpCid |-> NoTcpCmd],
                          got |-> [i \in TcpCid |-> <<>>]]
  OBVIOUS
<1>3. PICK a2 : a2 = h2t'[c]
  OBVIOUS
<1>4. Moved(c, co, ho2, a2, <<>>)
  <2>1. DOMAIN h2t' = Conn /\ \A d \in Conn : d # c => h2t'[d] = h2t[d]
    BY DEF HostCloses, LinkInv
  <2>2. /\ DOMAIN conn' = Conn /\ DOMAIN host' = Conn /\ DOMAIN t2h' = Conn
        /\ conn'[c] = co /\ host'[c] = ho2 /\ t2h'[c] = <<>>
        /\ \A d \in Conn : d # c => conn'[d] = conn[d] /\ host'[d] = host[d] /\ t2h'[d] = t2h[d]
    BY <1>1, <1>2 DEF HostCloses, LinkInv
  <2>3. QED
    BY <1>3, <2>1, <2>2 DEF Moved
<1>5. Link(co, ho, a, b) /\ Talking(co, ho, a, b) /\ IsSeq(a)
  BY <1>1 DEF HostCloses, LinkInv, Link
<1>6. \A k \in 1..Len(a) : a[k].type # "EOF"
  BY <1>5 DEF Talking
<1>7. Len(a) \in Nat
  BY <1>5, SeqLength
<1>0. PICK t, e : t = [type |-> "TERM"] /\ e = [type |-> "EOF"]
  OBVIOUS
<1>8. t.type = "TERM" /\ e.type = "EOF"
  BY <1>0
<1>9. /\ IsSeq(a2) /\ Len(a2) # 0 /\ a2[Len(a2)].type = "EOF"
      /\ \A k \in 1..Len(a2) : a2[k].type = "EOF" => k = Len(a2)
  <2>1. CASE a2 = a \o <<t, e>>
    <3>1. PICK more : more = <<t, e>>
      OBVIOUS
    <3>2. IsSeq(more) /\ Len(more) = 2 /\ more[1] = t /\ more[2] = e
      <4>1. <<t, e>> \in Seq({t, e}) /\ Len(<<t, e>>) = 2 /\ <<t, e>>[1] = t /\ <<t, e>>[2] = e
        OBVIOUS
      <4>2. QED
        BY <3>1, <4>1 DEF IsSeq
    <3>3. Joined(a2, a, more)
      BY <1>5, <2>1, <3>1, <3>2, SeqJoined
    <3>4. IsSeq(a2) /\ Len(a2) = Len(a) + 2 /\ a2[Len(a) + 2] = e
      BY <3>2, <3>3 DEF Joined
    <3>5. ASSUME NEW k \in 1..Len(a2), a2[k].type = "EOF" PROVE k = Len(a2)
      <4>1. CASE k \in 1..Len(a) /\ a2[k] = a[k]
        BY <1>6, <3>5, <4>1
      <4>2. CASE \E j \in 1..Len(more) : k = Len(a) + j /\ a2[k] = more[j]
        <5>1. PICK j \in 1..2 : k = Len(a) + j /\ a2[k] = more[j]
          BY <3>2, <4>2
        <5>2. j # 1
          BY <1>8, <3>2, <3>5, <5>1
        <5>3. QED
          BY <3>4, <5>1, <5>2
      <4>3. QED
        BY <1>5, <3>2, <3>3, <4>1, <4>2, JoinedIndex
    <3>6. QED
      BY <1>7, <1>8, <3>4, <3>5
  <2>2. CASE \E k \in 0..Len(a) : a2 = Append(SubSeq(a, 1, k), e)
    <3>1. PICK k \in 0..Len(a) : a2 = Append(SubSeq(a, 1, k), e)
      BY <2>2
    <3>2. PICK s : s = SubSeq(a, 1, k)
      OBVIOUS
    <3>3. IsSeq(s) /\ Len(s) = k /\ \A j \in 1..k : s[j] = a[j]
      <4>1. /\ IsSeq(SubSeq(a, 0 + 1, k)) /\ Len(SubSeq(a, 0 + 1, k)) = k - 0
            /\ \A j \in 1..k - 0 : SubSeq(a, 0 + 1, k)[j] = a[0 + j]
        <5>1. k \in Nat /\ 0 \in Nat /\ 0 <= k /\ k <= Len(a)
          BY <1>7
        <5>2. QED
          BY <1>5, <5>1, SeqPart
      <4>2. QED
        BY <1>7, <3>2, <4>1
    <3>4. Joined(a2, s, <<e>>)
      BY <3>1, <3>2, <3>3, SeqAppended, SeqOne, SeqJoined
    <3>5. Len(<<e>>) = 1 /\ <<e>>[1] = e /\ IsSeq(<<e>>)
      BY SeqOne
    <3>6. IsSeq(a2) /\ Len(a2) = k + 1 /\ a2[k + 1] = e
      BY <3>3, <3>4, <3>5 DEF Joined
    <3>7. ASSUME NEW j \in 1..Len(a2), a2[j].type = "EOF" PROVE j = Len(a2)
      <4>1. CASE j \in 1..Len(s) /\ a2[j] = s[j]
        <5>1. j \in 1..Len(a) /\ a2[j] = a[j]
          BY <1>7, <3>3, <4>1
        <5>2. QED
          BY <1>6, <3>7, <5>1
      <4>2. CASE j = Len(s) + 1
        BY <3>3, <3>6, <4>2
      <4>3. QED
        BY <3>3, <3>4, <4>1, <4>2, AppendedIndex
    <3>8. QED
      BY <1>7, <1>8, <3>6, <3>7
  <2>3. QED
    BY <1>0, <1>1, <1>3, <2>1, <2>2 DEF HostCloses, LinkInv
<1>10. a2 # <<>>
  BY <1>9, SeqLength
<1>11. /\ ho2.phase = "closed" /\ DOMAIN ho2 = {"phase", "cmd", "got"} /\ Idle(ho2)
       /\ DOMAIN ho2.cmd = TcpCid /\ DOMAIN ho2.got = TcpCid
  BY <1>2 DEF Idle
<1>12. co.state # "CLOSED"
  BY <1>5 DEF Talking
<1>13. Gone(co, ho2, a2, <<>>)
  BY <1>9, <1>10, <1>11, <1>12 DEF Gone
<1>14. Link(co, ho2, a2, <<>>)
  BY <1>5, <1>9, <1>11, <1>13, SeqNone DEF Link
<1>15. QED
  BY <1>4, <1>14, MovedLinks

LEMMA DataPdusAreData ==
    ASSUME NEW cmd, NEW p, p.len \in Nat
    PROVE  /\ IsSeq(DataPdus(cmd, p)) /\ Len(DataPdus(cmd, p)) = Pieces(p.len)
           /\ \A k \in 1..Len(DataPdus(cmd, p)) : DataPdus(cmd, p)[k].type = "H2CDATA"
<1>1. PICK m : m = (p.len + MaxH2C - 1) \div MaxH2C
  OBVIOUS
<1>2. m \in Nat
  <2>1. PICK M, n : M = MaxH2C /\ n = p.len /\ M \in Nat \ {0} /\ n \in Nat
    BY TcpAssumption
  <2>2. (n + M - 1) \div M \in Nat
    BY <2>1
  <2>3. QED
    BY <1>1, <2>1, <2>2
<1>3. PICK asked : asked = SubSeq(Payload(cmd), p.off + 1, p.off + p.len)
  OBVIOUS
<1>4. PICK f : f = DataPdus(cmd, p)
  OBVIOUS
<1>5. f = [i \in 1..m |-> [type |-> "H2CDATA", cid |-> p.cid, off |-> p.off + (i - 1) * MaxH2C,
                           data |-> SubSeq(asked, (i - 1) * MaxH2C + 1, Min2(i * MaxH2C, p.len)),
                           last |-> i = m]]
  BY <1>1, <1>3, <1>4 DEF DataPdus
<1>6. DOMAIN f = 1..m /\ f = [k \in 1..m |-> f[k]]
  BY <1>5
<1>7. IsSeq(f) /\ Len(f) = m
  BY <1>2, <1>6, SeqFunction
<1>8. \A k \in 1..m : f[k].type = "H2CDATA"
  BY <1>5
<1>9. QED
  BY <1>1, <1>4, <1>7, <1>8 DEF Pieces

LEMMA ReceivesLinks == ASSUME LinkInv, NEW c \in Conn, HostReceives(c) PROVE LinkInv'
<1>1. PICK co, ho, a, b, b2 : /\ co = conn[c] /\ ho = host[c] /\ a = h2t[c] /\ b = t2h[c]
                              /\ b2 = Tail(t2h[c])
  OBVIOUS
<1>2. PICK p : p = Head(b) /\ b # <<>> /\ ho.phase # "closed"
  BY <1>1 DEF HostReceives
<1>3. Link(co, ho, a, b) /\ IsSeq(a) /\ IsSeq(b)
  BY <1>1 DEF LinkInv, Link
<1>4. p = b[1] /\ 1 \in 1..Len(b) /\ Dropped(b2, b) /\ IsSeq(b2)
  BY <1>1, <1>2, <1>3, SeqDropped DEF Dropped
<1>5. /\ ho.phase = "init" => Greeting(co, ho, a, b)
      /\ ho.phase = "ready" => Talking(co, ho, a, b)
      /\ ho.phase \in {"init", "ready"}
  BY <1>2, <1>3 DEF Link
<1>6. \/ /\ p.type = "ICRESP"
         /\ h2t' = [h2t EXCEPT ![c] = Append(@, [type |-> "CONNECT"])]
         /\ UNCHANGED host
      \/ /\ p.type = "CONNECTED"
         /\ host' = [host EXCEPT ![c].phase = "ready"]
         /\ UNCHANGED h2t
      \/ /\ p.type = "R2T"
         /\ h2t' = [h2t EXCEPT ![c] = @ \o DataPdus(host[c].cmd[p.cid], p)]
         /\ UNCHANGED host
      \/ /\ p.type = "C2HDATA"
         /\ host' = [host EXCEPT ![c].got[p.cid] = @ \o p.data]
         /\ UNCHANGED h2t
      \/ /\ p.type = "RESP"
         /\ host' = [host EXCEPT ![c].cmd[p.cid] = NoTcpCmd, ![c].got[p.cid] = <<>>]
         /\ UNCHANGED h2t
  BY <1>1, <1>2 DEF HostReceives
<1>7. t2h' = [t2h EXCEPT ![c] = b2] /\ conn' = conn
  BY <1>1 DEF HostReceives
<1>8. ASSUME ho.phase = "init" PROVE /\ p.type \in {"ICRESP", "CONNECTED"} /\ a = <<>> /\ b2 = <<>>
                                     /\ co.state # "CLOSED" /\ co.xfer = NoXfer /\ Idle(ho)
  <2>1. Greeting(co, ho, a, b)
    BY <1>5, <1>8
  <2>2. Len(a) = 0 /\ Len(b2) = 0
    <3>1. PICK l, m, n : l = Len(a) /\ m = Len(b) /\ n = Len(b2)
      OBVIOUS
    <3>2. l \in Nat /\ m \in Nat /\ n \in Nat /\ m = n + 1 /\ l + m = 1
      BY <1>3, <1>4, <2>1, <3>1, SeqLength, DroppedIndex DEF Greeting
    <3>3. l = 0 /\ n = 0
      BY <3>2
    <3>4. QED
      BY <3>1, <3>3
  <2>3. QED
    BY <1>3, <1>4, <2>1, <2>2, SeqLength DEF Greeting
<1>9. ASSUME ho.phase = "ready" PROVE p.type \in {"R2T", "C2HDATA", "RESP"}
  BY <1>4, <1>5, <1>9 DEF Talking
<1>10. CASE p.type = "ICRESP"
  <2>1. h2t' = [h2t EXCEPT ![c] = Append(@, [type |-> "CONNECT"])] /\ host' = host
    BY <1>6, <1>10
  <2>2. PICK q, a2 : q = [type |-> "CONNECT"] /\ a2 = Append(a, q)
    OBVIOUS
  <2>3. Moved(c, co, ho, a2, b2)
    BY <1>1, <1>7, <2>1, <2>2 DEF Moved, LinkInv
  <2>4. ho.phase = "init" /\ a = <<>> /\ b2 = <<>>
    BY <1>5, <1>8, <1>9, <1>10
  <2>5. IsSeq(a2) /\ Len(a2) = 1 /\ a2[1] = q /\ q.type = "CONNECT"
    <3>1. Append(a, q) = a \o <<q>> /\ Joined(a \o <<q>>, a, <<q>>)
      BY <1>3, SeqAppended, SeqOne, SeqJoined
    <3>2. IsSeq(a2) /\ Len(a2) = Len(a) + Len(<<q>>) /\ Joined(a2, a, <<q>>)
      BY <2>2, <3>1 DEF Joined
    <3>3. Len(a) = 0 /\ Len(<<q>>) = 1 /\ <<q>>[1] = q
      BY <2>4, SeqNone, SeqOne
    <3>4. a2[Len(a) + 1] = <<q>>[1]
      BY <3>2, <3>3 DEF Joined
    <3>5. QED
      BY <2>2, <3>2, <3>3, <3>4
  <2>6. Len(b2) = 0
    BY <2>4, SeqNone
  <2>7. Greeting(co, ho, a2, b2)
    BY <1>8, <2>4, <2>5, <2>6 DEF Greeting
  <2>8. Link(co, ho, a2, b2)
    BY <1>3, <1>4, <2>4, <2>5, <2>7 DEF Link
  <2>9. QED
    BY <2>3, <2>8, MovedLinks
<1>11. CASE p.type = "CONNECTED"
  <2>1. host' = [host EXCEPT ![c].phase = "ready"] /\ h2t' = h2t
    BY <1>6, <1>11
  <2>2. PICK ho2 : ho2 = [ho EXCEPT !.phase = "ready"]
    OBVIOUS
  <2>3. Moved(c, co, ho2, a, b2)
    BY <1>1, <1>7, <2>1, <2>2 DEF Moved, LinkInv
  <2>4. ho.phase = "init" /\ a = <<>> /\ b2 = <<>>
    BY <1>5, <1>8, <1>9, <1>11
  <2>5. /\ ho2.phase = "ready" /\ ho2.cmd = ho.cmd /\ ho2.got = ho.got
        /\ DOMAIN ho2 = {"phase", "cmd", "got"} /\ DOMAIN ho2.cmd = TcpCid /\ DOMAIN ho2.got = TcpCid
    BY <1>3, <2>2 DEF Link
  <2>6. Len(a) = 0 /\ Len(b2) = 0
    BY <2>4, SeqNone
  <2>7. Talking(co, ho2, a, b2)
    BY <1>8, <2>4, <2>6 DEF Talking, CapsulesOk, TransferOk, ResponsesOk, DataOk
  <2>8. Link(co, ho2, a, b2)
    BY <1>3, <1>4, <2>5, <2>7 DEF Link
  <2>9. QED
    BY <2>3, <2>8, MovedLinks
<1>12. CASE p.type = "R2T"
  <2>1. ho.phase = "ready" /\ Talking(co, ho, a, b)
    BY <1>5, <1>8, <1>12
  <2>2. PICK more, a2 : more = DataPdus(ho.cmd[p.cid], p) /\ a2 = a \o more
    OBVIOUS
  <2>3. h2t' = [h2t EXCEPT ![c] = a2] /\ host' = host
    BY <1>1, <1>6, <1>12, <2>2
  <2>4. Moved(c, co, ho, a2, b2)
    BY <1>1, <1>7, <2>3 DEF Moved, LinkInv
  <2>5. Talking(co, ho, a, b2) /\ p.len \in Nat
    BY <1>3, <1>4, <1>12, <2>1, AskReceived
  <2>6. IsSeq(more) /\ \A k \in 1..Len(more) : more[k].type = "H2CDATA"
    BY <2>2, <2>5, DataPdusAreData
  <2>7. Joined(a2, a, more)
    BY <1>3, <2>2, <2>6, SeqJoined
  <2>8. Talking(co, ho, a2, b2)
    BY <1>3, <2>5, <2>6, <2>7, DataPut
  <2>9. Link(co, ho, a2, b2)
    BY <1>3, <1>4, <2>1, <2>7, <2>8 DEF Link, Joined
  <2>10. QED
    BY <2>4, <2>9, MovedLinks
<1>13. CASE p.type = "C2HDATA"
  <2>1. ho.phase = "ready" /\ Talking(co, ho, a, b)
    BY <1>5, <1>8, <1>13
  <2>2. PICK i, ho2 : i = p.cid /\ ho2 = [ho EXCEPT !.got[p.cid] = @ \o p.data]
    OBVIOUS
  <2>3. host' = [host EXCEPT ![c].got[p.cid] = @ \o p.data] /\ h2t' = h2t
    BY <1>6, <1>13
  <2>4. Moved(c, co, ho2, a, b2)
    BY <1>1, <1>7, <2>2, <2>3 DEF Moved, LinkInv
  <2>5. /\ ho2.phase = "ready" /\ ho2.cmd = ho.cmd
        /\ DOMAIN ho2 = {"phase", "cmd", "got"} /\ DOMAIN ho2.cmd = TcpCid /\ DOMAIN ho2.got = TcpCid
    BY <1>3, <2>1, <2>2 DEF Link
  <2>6. OthersKept(ho2, ho, i)
    BY <1>3, <2>2 DEF Link, OthersKept
  <2>7. i \in TcpCid => ho2.got[i] = ho.got[i] \o p.data
    BY <1>3, <2>2 DEF Link
  <2>8. /\ b[1].type = "C2HDATA" /\ OthersKept(ho2, ho, b[1].cid)
        /\ b[1].cid \in TcpCid => ho2.got[b[1].cid] = ho.got[b[1].cid] \o b[1].data
    BY <1>4, <1>13, <2>2, <2>6, <2>7
  <2>9. Talking(co, ho2, a, b2)
    BY <1>3, <1>4, <2>1, <2>5, <2>8, DataReceived
  <2>10. Link(co, ho2, a, b2)
    BY <1>3, <1>4, <2>5, <2>9 DEF Link
  <2>11. QED
    BY <2>4, <2>10, MovedLinks
<1>14. CASE p.type = "RESP"
  <2>1. ho.phase = "ready" /\ Talking(co, ho, a, b)
    BY <1>5, <1>8, <1>14
  <2>2. PICK i, ho2 : i = p.cid /\ ho2 = [ho EXCEPT !.cmd[p.cid] = NoTcpCmd, !.got[p.cid] = <<>>]
    OBVIOUS
  <2>3. host' = [host EXCEPT ![c].cmd[p.cid] = NoTcpCmd, ![c].got[p.cid] = <<>>] /\ h2t' = h2t
    BY <1>6, <1>14
  <2>4. Moved(c, co, ho2, a, b2)
    BY <1>1, <1>7, <2>2, <2>3 DEF Moved, LinkInv
  <2>5. /\ ho2.phase = "ready"
        /\ DOMAIN ho2 = {"phase", "cmd", "got"} /\ DOMAIN ho2.cmd = TcpCid /\ DOMAIN ho2.got = TcpCid
    BY <1>3, <2>1, <2>2 DEF Link
  <2>6. OthersKept(ho2, ho, i)
    BY <1>3, <2>2 DEF Link, OthersKept
  <2>7. b[1].type = "RESP" /\ OthersKept(ho2, ho, b[1].cid)
    BY <1>4, <1>14, <2>2, <2>6
  <2>8. Talking(co, ho2, a, b2)
    BY <1>3, <1>4, <2>1, <2>7, ResponseReceived
  <2>9. Link(co, ho2, a, b2)
    BY <1>3, <1>4, <2>5, <2>8 DEF Link
  <2>10. QED
    BY <2>4, <2>9, MovedLinks
<1>15. QED
  BY <1>6, <1>10, <1>11, <1>12, <1>13, <1>14

LEMMA LinkInit == TcpInit => LinkInv
<1> SUFFICES ASSUME TcpInit PROVE LinkInv
  OBVIOUS
<1>1. ASSUME NEW c \in Conn PROVE Link(conn[c], host[c], h2t[c], t2h[c])
  <2>1. PICK co, ho : co = conn[c] /\ ho = host[c]
    OBVIOUS
  <2>2. /\ co.state = "CLOSED" /\ co.xfer = NoXfer /\ DOMAIN co = {"state", "qid", "xfer"}
    BY <2>1 DEF TcpInit, Closed
  <2>3. /\ ho.phase = "closed" /\ DOMAIN ho = {"phase", "cmd", "got"} /\ Idle(ho)
        /\ DOMAIN ho.cmd = TcpCid /\ DOMAIN ho.got = TcpCid
    BY <2>1 DEF TcpInit, Idle
  <2>4. Gone(co, ho, <<>>, <<>>)
    BY <2>2, <2>3 DEF Gone
  <2>5. Link(co, ho, <<>>, <<>>)
    BY <2>2, <2>3, <2>4, SeqNone DEF Link
  <2>6. h2t[c] = <<>> /\ t2h[c] = <<>>
    BY DEF TcpInit
  <2>7. QED
    BY <2>1, <2>5, <2>6
<1>2. QED
  BY <1>1 DEF TcpInit, LinkInv

LEMMA LinkNext == LinkInv /\ [TcpNext]_tcpVars => LinkInv'
<1> SUFFICES ASSUME LinkInv, [TcpNext]_tcpVars PROVE LinkInv'
  OBVIOUS
<1>1. CASE UNCHANGED tcpVars
  BY <1>1 DEF tcpVars, LinkInv
<1>2. ASSUME NEW c \in Conn, TcpAccept(c) \/ HostSubmits(c) \/ HostReceives(c) \/ HostCloses(c)
      PROVE  LinkInv'
  BY <1>2, AcceptLinks, SubmitsLinks, ReceivesLinks, HostClosesLinks
<1>3. ASSUME NEW c \in Conn, Target(c) PROVE LinkInv'
  BY <1>3, IcReqLinks, ConnectLinks, ReadAtOnce, WriteZeroesAtOnce, OtherAtOnce, TooLongAtOnce, AtOnceLinks,
     MoveLinks, H2CDataLinks, TermReqLinks, CloseLinks DEF Target
<1>4. QED
  BY <1>1, <1>2, <1>3 DEF TcpNext

LEMMA LinkAlways == TcpSpec => []LinkInv
BY LinkInit, LinkNext, PTL DEF TcpSpec

(* nvme_tcp_io_cmd queues the data PDUs of a read, each at its offset, and  *)
(* the response behind them: when the host meets the response, it has      *)
(* appended exactly the pages it asked for, on every connection and for    *)
(* every size.                                                             *)
THEOREM ReadsAreComplete == TcpSpec => []ReadsComplete
<1>1. LinkInv => ReadsComplete
  BY LinkMeaning
<1>2. QED
  BY <1>1, LinkAlways, PTL

(* Whatever way a command is answered - at once, after the data of its     *)
(* capsule, after the last PDU of an R2T, with an error - there is never a *)
(* response to a command the host does not wait for, nor a second one.     *)
THEOREM OneResponseEach == TcpSpec => []OneResponse
<1>1. LinkInv => OneResponse
  BY LinkMeaning
<1>2. QED
  BY <1>1, LinkAlways, PTL

-----------------------------------------------------------------------------
(* The data of a write or trim.                                            *)

NoData(a) == \A k \in 1..Len(a) : a[k].type # "H2CDATA"
NoAsk(b)  == \A k \in 1..Len(b) : b[k].type # "R2T"

(* p is piece number j of the n units of pay behind the first base units.  *)
IsDataPiece(p, pay, base, n, j) ==
    /\ p.type = "H2CDATA" /\ p.off = base + Sent(n, j - 1)
    /\ IsSeq(p.data) /\ Len(p.data) = Sent(n, j) - Sent(n, j - 1)
    /\ \A u \in 1..Sent(n, j) - Sent(n, j - 1) : p.data[u] = pay[base + Sent(n, j - 1) + u]
    /\ p.last <=> j = Pieces(n)

(* The transfer is the one of the command the host waits for.              *)
Matches(x, cmd) ==
    /\ cmd \in TcpCommands /\ x.op = cmd.op /\ x.lpn = cmd.lpn /\ x.total = Len(Payload(cmd))
    /\ x.total <= MaxPages /\ x.len \in Nat /\ x.len < x.total

(* The rest of the data has been asked for: b holds the one request.       *)
AskedAt(x, b, r) ==
    /\ r \in 1..Len(b) /\ b[r].type = "R2T" /\ b[r].cid = x.cid
    /\ b[r].off = x.len /\ b[r].len = x.total - x.len
    /\ \A k \in 1..Len(b) : b[k].type = "R2T" => k = r
Asked(x, a, b) == NoData(a) /\ \E r \in 1..Len(b) : AskedAt(x, b, r)

(* Pieces t + 1 to the last are in a, one behind the other from s + 1 on.  *)
SendingAt(x, pay, a, base, t, s) ==
    /\ base < x.total /\ t < Pieces(x.total - base)
    /\ x.len = base + Sent(x.total - base, t)
    /\ s + (Pieces(x.total - base) - t) <= Len(a)
    /\ \A k \in 1..Len(a) : a[k].type = "H2CDATA" => k - s \in 1..Pieces(x.total - base) - t
    /\ \A j \in 1..Pieces(x.total - base) - t : IsDataPiece(a[s + j], pay, base, x.total - base, t + j)
Sending(x, pay, a, b) == NoAsk(b) /\ \E base, t, s \in Nat : SendingAt(x, pay, a, base, t, s)

MoveOk(x, ho, a, b) ==
    /\ x = NoXfer => NoData(a) /\ NoAsk(b)
    /\ x # NoXfer => /\ Matches(x, ho.cmd[x.cid])
                     /\ Asked(x, a, b) \/ Sending(x, Payload(ho.cmd[x.cid]), a, b)

LEMMA MatchFacts ==
    ASSUME NEW x, NEW cmd, Matches(x, cmd)
    PROVE  /\ x.total \in Nat \ {0} /\ x.total <= MaxPages /\ x.len \in Nat /\ x.len < x.total
           /\ IsSeq(Payload(cmd)) /\ Len(Payload(cmd)) = x.total
<1>1. /\ cmd \in TcpCommands /\ x.total = Len(Payload(cmd)) /\ x.total <= MaxPages
      /\ x.len \in Nat /\ x.len < x.total
  BY DEF Matches
<1>2. IsSeq(Payload(cmd)) /\ x.total \in Nat
  BY <1>1, PayloadFacts
<1>3. QED
  BY <1>1, <1>2

(* The numbers of a transfer that is under way.                            *)
LEMMA SendingNumbers ==
    ASSUME NEW x, NEW cmd, Matches(x, cmd), NEW base \in Nat, NEW t \in Nat,
           base < x.total, t < Pieces(x.total - base)
    PROVE  LET n == x.total - base
           IN  /\ n \in Nat \ {0} /\ Pieces(n) \in Nat \ {0} /\ t + 1 \in 1..Pieces(n)
               /\ Sent(n, t) \in Nat /\ Sent(n, t + 1) \in Nat
               /\ Sent(n, t) < Sent(n, t + 1) /\ Sent(n, t + 1) <= n
               /\ Sent(n, Pieces(n)) = n /\ Sent(n, 0) = 0
               /\ \A j \in 1..Pieces(n) - t : t + j \in 1..Pieces(n)
<1>1. PICK n : n = x.total - base /\ n \in Nat \ {0}
  <2>1. x.total \in Nat
    BY MatchFacts
  <2>2. QED
    BY <2>1
<1>2. PICK m : m = Pieces(n) /\ m \in Nat \ {0} /\ t < m
  BY <1>1, PieceFacts
<1>3. t \in 0..m /\ t + 1 \in 0..m /\ t + 1 \in 1..m /\ (t + 1) - 1 = t
  BY <1>2
<1>4. /\ Sent(n, 0) = 0 /\ Sent(n, m) = n
      /\ \A j \in 0..m : Sent(n, j) \in Nat /\ Sent(n, j) <= n
      /\ \A j \in 1..m : Sent(n, j - 1) < Sent(n, j)
  BY <1>1, <1>2, PieceFacts
<1>5. Sent(n, t) < Sent(n, t + 1)
  BY <1>3, <1>4
<1>6. \A j \in 1..m - t : t + j \in 1..m
  BY <1>2
<1>7. QED
  BY <1>1, <1>2, <1>3, <1>4, <1>5, <1>6

LEMMA MoveTaken ==
    ASSUME NEW x, NEW ho, NEW a, IsSeq(a), NEW b, MoveOk(x, ho, a, b),
           NEW a2, Dropped(a2, a), a[1].type # "H2CDATA"
    PROVE  MoveOk(x, ho, a2, b)
<1>1. /\ Len(a2) \in Nat /\ Len(a) = Len(a2) + 1
      /\ \A k \in 1..Len(a2) : a2[k] = a[k + 1] /\ k + 1 \in 1..Len(a)
  BY DroppedIndex
<1>2. NoData(a) => NoData(a2)
  BY <1>1 DEF NoData
<1>3. ASSUME x # NoXfer, Sending(x, Payload(ho.cmd[x.cid]), a, b)
      PROVE  Sending(x, Payload(ho.cmd[x.cid]), a2, b)
  <2>1. PICK pay : pay = Payload(ho.cmd[x.cid]) /\ Sending(x, pay, a, b) /\ Matches(x, ho.cmd[x.cid])
    BY <1>3 DEF MoveOk
  <2>2. PICK base, t, s \in Nat : SendingAt(x, pay, a, base, t, s)
    BY <2>1 DEF Sending
  <2>3. PICK n, m : n = x.total - base /\ m = Pieces(n)
    OBVIOUS
  <2>4. /\ base < x.total /\ t < m /\ x.len = base + Sent(n, t) /\ s + (m - t) <= Len(a)
        /\ \A k \in 1..Len(a) : a[k].type = "H2CDATA" => k - s \in 1..m - t
        /\ \A j \in 1..m - t : IsDataPiece(a[s + j], pay, base, n, t + j)
    BY <2>2, <2>3 DEF SendingAt
  <2>5. m \in Nat
    BY <2>1, <2>3, <2>4, SendingNumbers
  <2>6. s # 0
    <3>1. s = 0 => IsDataPiece(a[1], pay, base, n, t + 1)
      <4>1. 1 \in 1..m - t
        BY <2>4, <2>5
      <4>2. IsDataPiece(a[s + 1], pay, base, n, t + 1)
        BY <2>4, <4>1
      <4>3. QED
        BY <4>2
    <3>2. QED
      BY <3>1 DEF IsDataPiece
  <2>7. PICK s2 \in Nat : s = s2 + 1
    <3>1. s - 1 \in Nat /\ s = (s - 1) + 1
      BY <2>6
    <3>2. QED
      BY <3>1
  <2>8. s2 + (m - t) <= Len(a2)
    BY <1>1, <2>4, <2>5, <2>7
  <2>9. ASSUME NEW k \in 1..Len(a2), a2[k].type = "H2CDATA" PROVE k - s2 \in 1..m - t
    <3>1. (k + 1) - s \in 1..m - t
      BY <1>1, <2>4, <2>9
    <3>2. k \in Nat /\ (k + 1) - (s2 + 1) = k - s2
      BY <1>1
    <3>3. QED
      BY <2>7, <3>1, <3>2
  <2>10. ASSUME NEW j \in 1..m - t PROVE IsDataPiece(a2[s2 + j], pay, base, n, t + j)
    <3>1. PICK l : l = Len(a2) /\ l \in Nat /\ s2 + (m - t) <= l
      BY <1>1, <2>8
    <3>2. j \in Nat \ {0} /\ j <= m - t
      BY <2>5
    <3>3. s2 + j \in Nat /\ 1 <= s2 + j /\ s2 + j <= l
      BY <2>5, <3>1, <3>2
    <3>4. (s2 + j) + 1 = (s2 + 1) + j
      BY <3>2
    <3>5. a2[s2 + j] = a[s + j]
      BY <1>1, <2>7, <3>1, <3>3, <3>4
    <3>6. QED
      BY <2>4, <3>5
  <2>11. SendingAt(x, pay, a2, base, t, s2)
    BY <2>3, <2>4, <2>8, <2>9, <2>10 DEF SendingAt
  <2>12. QED
    BY <2>1, <2>11 DEF Sending
<1>4. QED
  BY <1>2, <1>3 DEF MoveOk, Asked

LEMMA MovePut ==
    ASSUME NEW x, NEW ho, NEW a, IsSeq(a), NEW b, MoveOk(x, ho, a, b),
           NEW p, p.type # "H2CDATA", NEW a2, Joined(a2, a, <<p>>)
    PROVE  MoveOk(x, ho, a2, b)
<1>1. Len(<<p>>) = 1 /\ <<p>>[1] = p /\ IsSeq(<<p>>)
  BY SeqOne
<1>2. Len(a) \in Nat /\ Len(a2) = Len(a) + 1 /\ \A k \in 1..Len(a) : a2[k] = a[k]
  BY <1>1, SeqLength DEF Joined
<1>3. ASSUME NEW k \in 1..Len(a2), a2[k].type = "H2CDATA" PROVE k \in 1..Len(a) /\ a2[k] = a[k]
  BY <1>3, AppendedIndex
<1>4. NoData(a) => NoData(a2)
  BY <1>3 DEF NoData
<1>5. ASSUME x # NoXfer, Sending(x, Payload(ho.cmd[x.cid]), a, b)
      PROVE  Sending(x, Payload(ho.cmd[x.cid]), a2, b)
  <2>1. PICK pay : pay = Payload(ho.cmd[x.cid]) /\ Sending(x, pay, a, b) /\ Matches(x, ho.cmd[x.cid])
    BY <1>5 DEF MoveOk
  <2>2. PICK base, t, s \in Nat : SendingAt(x, pay, a, base, t, s)
    BY <2>1 DEF Sending
  <2>3. PICK n, m : n = x.total - base /\ m = Pieces(n)
    OBVIOUS
  <2>4. /\ base < x.total /\ t < m /\ x.len = base + Sent(n, t) /\ s + (m - t) <= Len(a)
        /\ \A k \in 1..Len(a) : a[k].type = "H2CDATA" => k - s \in 1..m - t
        /\ \A j \in 1..m - t : IsDataPiece(a[s + j], pay, base, n, t + j)
    BY <2>2, <2>3 DEF SendingAt
  <2>5. m \in Nat
    BY <2>1, <2>3, <2>4, SendingNumbers
  <2>6. s + (m - t) <= Len(a2)
    BY <1>2, <2>4, <2>5
  <2>7. ASSUME NEW k \in 1..Len(a2), a2[k].type = "H2CDATA" PROVE k - s \in 1..m - t
    BY <1>3, <2>4, <2>7
  <2>8. ASSUME NEW j \in 1..m - t PROVE IsDataPiece(a2[s + j], pay, base, n, t + j)
    <3>1. s + j \in 1..Len(a)
      BY <1>2, <2>4, <2>5
    <3>2. QED
      BY <1>2, <2>4, <3>1
  <2>9. SendingAt(x, pay, a2, base, t, s)
    BY <2>3, <2>4, <2>6, <2>7, <2>8 DEF SendingAt
  <2>10. QED
    BY <2>1, <2>9 DEF Sending
<1>6. QED
  BY <1>4, <1>5 DEF MoveOk, Asked

LEMMA MoveAnswered ==
    ASSUME NEW x, NEW ho, NEW a, NEW b, IsSeq(b), MoveOk(x, ho, a, b),
           NEW more, IsSeq(more), NoAsk(more), NEW b2, Joined(b2, b, more)
    PROVE  MoveOk(x, ho, a, b2)
<1>1. Len(b) \in Nat /\ Len(more) \in Nat /\ Len(b2) = Len(b) + Len(more) /\ \A k \in 1..Len(b) : b2[k] = b[k]
  BY SeqLength DEF Joined
<1>2. ASSUME NEW k \in 1..Len(b2), b2[k].type = "R2T" PROVE k \in 1..Len(b) /\ b2[k] = b[k]
  <2>1. \/ k \in 1..Len(b) /\ b2[k] = b[k]
        \/ \E j \in 1..Len(more) : k = Len(b) + j /\ b2[k] = more[j]
    BY JoinedIndex
  <2>2. \A j \in 1..Len(more) : b2[k] # more[j]
    BY <1>2 DEF NoAsk
  <2>3. QED
    BY <2>1, <2>2
<1>3. NoAsk(b) => NoAsk(b2)
  BY <1>2 DEF NoAsk
<1>4. ASSUME Asked(x, a, b) PROVE Asked(x, a, b2)
  <2>1. PICK r \in 1..Len(b) : AskedAt(x, b, r)
    BY <1>4 DEF Asked
  <2>2. r \in 1..Len(b2) /\ b2[r] = b[r]
    BY <1>1
  <2>3. AskedAt(x, b2, r)
    BY <1>2, <2>1, <2>2 DEF AskedAt
  <2>4. QED
    BY <1>4, <2>2, <2>3 DEF Asked
<1>5. QED
  BY <1>3, <1>4 DEF MoveOk, Sending

LEMMA MoveReceived ==
    ASSUME NEW x, NEW ho, NEW a, NEW b, IsSeq(b), MoveOk(x, ho, a, b),
           NEW b2, Dropped(b2, b), b[1].type # "R2T"
    PROVE  MoveOk(x, ho, a, b2)
<1>1. /\ Len(b2) \in Nat /\ Len(b) = Len(b2) + 1
      /\ \A k \in 1..Len(b2) : b2[k] = b[k + 1] /\ k + 1 \in 1..Len(b)
  BY DroppedIndex
<1>2. NoAsk(b) => NoAsk(b2)
  BY <1>1 DEF NoAsk
<1>3. ASSUME Asked(x, a, b) PROVE Asked(x, a, b2)
  <2>1. PICK r \in 1..Len(b) : AskedAt(x, b, r)
    BY <1>3 DEF Asked
  <2>2. r # 1
    BY <2>1 DEF AskedAt
  <2>3. PICK q : q = r - 1 /\ q \in 1..Len(b2) /\ b2[q] = b[r]
    <3>1. r - 1 \in 1..Len(b2) /\ (r - 1) + 1 = r
      BY <1>1, <2>2
    <3>2. QED
      BY <1>1, <3>1
  <2>4. ASSUME NEW k \in 1..Len(b2), b2[k].type = "R2T" PROVE k = q
    <3>1. k + 1 = r
      BY <1>1, <2>1, <2>4 DEF AskedAt
    <3>2. QED
      BY <2>3, <3>1
  <2>5. AskedAt(x, b2, q)
    BY <2>1, <2>3, <2>4 DEF AskedAt
  <2>6. QED
    BY <1>3, <2>3, <2>5 DEF Asked
<1>4. QED
  BY <1>2, <1>3 DEF MoveOk, Sending

LEMMA MoveKept ==
    ASSUME NEW x, NEW ho, NEW a, NEW b, MoveOk(x, ho, a, b),
           NEW ho2, x # NoXfer => ho2.cmd[x.cid] = ho.cmd[x.cid]
    PROVE  MoveOk(x, ho2, a, b)
BY DEF MoveOk

(* What the host sends when it is asked.                                   *)
LEMMA DataPdusArePieces ==
    ASSUME NEW x, NEW cmd, Matches(x, cmd), NEW p, p.off = x.len, p.len = x.total - x.len
    PROVE  LET more == DataPdus(cmd, p)
               n    == x.total - x.len
           IN  /\ IsSeq(more) /\ Len(more) = Pieces(n)
               /\ \A j \in 1..Pieces(n) : IsDataPiece(more[j], Payload(cmd), x.len, n, j)
<1>1. PICK n, l, pay, more : n = x.total - x.len /\ l = x.len /\ pay = Payload(cmd) /\ more = DataPdus(cmd, p)
  OBVIOUS
<1>2. /\ n \in Nat \ {0} /\ l \in Nat /\ IsSeq(pay) /\ Len(pay) = l + n
  <2>1. /\ x.total \in Nat /\ x.len \in Nat /\ x.len < x.total /\ IsSeq(pay) /\ Len(pay) = x.total
    BY <1>1, MatchFacts
  <2>2. x.total - x.len \in Nat \ {0} /\ x.total = x.len + (x.total - x.len)
    BY <2>1
  <2>3. QED
    BY <1>1, <2>1, <2>2
<1>3. PICK asked : asked = SubSeq(pay, l + 1, l + n)
  OBVIOUS
<1>4. IsSeq(asked) /\ Len(asked) = n /\ \A u \in 1..n : asked[u] = pay[l + u]
  <2>1. l + n \in Nat /\ l <= l + n /\ l + n <= Len(pay) /\ (l + n) - l = n
    BY <1>2
  <2>2. /\ IsSeq(SubSeq(pay, l + 1, l + n)) /\ Len(SubSeq(pay, l + 1, l + n)) = (l + n) - l
        /\ \A u \in 1..(l + n) - l : SubSeq(pay, l + 1, l + n)[u] = pay[l + u]
    BY <1>2, <2>1, SeqPart
  <2>3. QED
    BY <1>3, <2>1, <2>2
<1>5. PICK m : m = Pieces(n) /\ m \in Nat \ {0}
  BY <1>2, PieceFacts
<1>6. more = [i \in 1..m |-> [type |-> "H2CDATA", cid |-> p.cid, off |-> l + (i - 1) * MaxH2C,
                              data |-> SubSeq(asked, (i - 1) * MaxH2C + 1, Min2(i * MaxH2C, n)),
                              last |-> i = m]]
  <2>1. p.off = l /\ p.len = n
    BY <1>1
  <2>2. m = (n + MaxH2C - 1) \div MaxH2C
    BY <1>5 DEF Pieces
  <2>3. QED
    BY <1>1, <1>3, <2>1, <2>2 DEF DataPdus
<1>7. IsSeq(more) /\ Len(more) = m
  <2>1. p.len = n /\ p.len \in Nat
    BY <1>1, <1>2
  <2>2. IsSeq(DataPdus(cmd, p)) /\ Len(DataPdus(cmd, p)) = Pieces(p.len)
    BY <2>1, DataPdusAreData
  <2>3. QED
    BY <1>1, <1>5, <2>1, <2>2
<1>8. ASSUME NEW j \in 1..m PROVE IsDataPiece(more[j], pay, l, n, j)
  <2>1. PICK lo, hi : lo = (j - 1) * MaxH2C /\ hi = Min2(j * MaxH2C, n)
    OBVIOUS
  <2>2. lo = Sent(n, j - 1) /\ hi = Sent(n, j) /\ lo < hi
    BY <1>2, <1>5, <2>1, PieceFacts DEF Sent
  <2>3. lo \in Nat /\ hi \in Nat /\ hi <= n
    <3>1. j \in 0..m /\ j - 1 \in 0..m
      BY <1>5
    <3>2. QED
      BY <1>2, <1>5, <2>2, <3>1, PieceFacts
  <2>4. PICK part : /\ part = SubSeq(asked, lo + 1, hi) /\ IsSeq(part) /\ Len(part) = hi - lo
                    /\ \A u \in 1..hi - lo : part[u] = asked[lo + u]
    <3>1. lo <= hi /\ hi <= Len(asked)
      BY <1>4, <2>2, <2>3
    <3>2. /\ IsSeq(SubSeq(asked, lo + 1, hi)) /\ Len(SubSeq(asked, lo + 1, hi)) = hi - lo
          /\ \A u \in 1..hi - lo : SubSeq(asked, lo + 1, hi)[u] = asked[lo + u]
      BY <1>4, <2>3, <3>1, SeqPart
    <3>3. QED
      BY <3>2
  <2>5. ASSUME NEW u \in 1..hi - lo PROVE part[u] = pay[l + lo + u]
    <3>1. lo + u \in 1..n /\ l + (lo + u) = l + lo + u
      BY <1>2, <2>3
    <3>2. QED
      BY <1>4, <2>4, <3>1
  <2>6. PICK q : q = more[j]
    OBVIOUS
  <2>7. q = [type |-> "H2CDATA", cid |-> p.cid, off |-> l + lo, data |-> part, last |-> j = m]
    BY <1>6, <2>1, <2>4, <2>6
  <2>8. q.type = "H2CDATA" /\ q.off = l + lo /\ q.data = part /\ (q.last <=> j = m)
    BY <2>7
  <2>9. IsDataPiece(q, pay, l, n, j)
    BY <1>5, <2>2, <2>4, <2>5, <2>8 DEF IsDataPiece
  <2>10. QED
    BY <2>6, <2>9
<1>9. QED
  BY <1>1, <1>5, <1>7, <1>8

LEMMA AskAnswered ==
    ASSUME NEW x, NEW ho, NEW a, IsSeq(a), NEW b, IsSeq(b), MoveOk(x, ho, a, b),
           b # <<>>, b[1].type = "R2T", NEW b2, Dropped(b2, b),
           NEW a2, Joined(a2, a, DataPdus(ho.cmd[b[1].cid], b[1]))
    PROVE  MoveOk(x, ho, a2, b2)
<1>1. Len(b) \in Nat /\ 1 \in 1..Len(b)
  BY SeqDropped, SeqLength
<1>2. x # NoXfer
  BY <1>1 DEF MoveOk, NoAsk
<1>3. Asked(x, a, b) /\ Matches(x, ho.cmd[x.cid])
  BY <1>1, <1>2 DEF MoveOk, Sending, NoAsk
<1>4. PICK r \in 1..Len(b) : AskedAt(x, b, r)
  BY <1>3 DEF Asked
<1>5. /\ r = 1 /\ b[1].cid = x.cid /\ b[1].off = x.len /\ b[1].len = x.total - x.len
  BY <1>1, <1>4 DEF AskedAt
<1>6. NoAsk(b2)
  BY <1>4, <1>5, DroppedIndex DEF AskedAt, NoAsk
<1>7. PICK cmd, p : cmd = ho.cmd[x.cid] /\ p = b[1]
  OBVIOUS
<1>8. PICK more, n, m, pay, l :
         more = DataPdus(cmd, p) /\ n = x.total - x.len /\ m = Pieces(n) /\ pay = Payload(cmd) /\ l = x.len
  OBVIOUS
<1>9. /\ IsSeq(more) /\ Len(more) = m /\ \A j \in 1..m : IsDataPiece(more[j], pay, l, n, j)
  <2>1. Matches(x, cmd) /\ p.off = x.len /\ p.len = x.total - x.len
    BY <1>3, <1>5, <1>7
  <2>2. QED
    BY <1>8, <2>1, DataPdusArePieces
<1>10. Joined(a2, a, more)
  BY <1>5, <1>7, <1>8
<1>11. Len(a) \in Nat /\ m \in Nat
  BY <1>9, SeqLength
<1>12. /\ Len(a2) = Len(a) + m
       /\ \A j \in 1..m : a2[Len(a) + j] = more[j]
  BY <1>9, <1>10 DEF Joined
<1>13. NoData(a)
  BY <1>3 DEF Asked
<1>14. ASSUME NEW k \in 1..Len(a2), a2[k].type = "H2CDATA" PROVE k - Len(a) \in 1..m - 0
  <2>1. PICK j \in 1..m : k = Len(a) + j
    BY <1>9, <1>10, <1>13, <1>14, JoinedIndex DEF NoData
  <2>2. k - Len(a) = j /\ m - 0 = m
    BY <1>11, <2>1
  <2>3. QED
    BY <2>2
<1>15. ASSUME NEW j \in 1..m - 0 PROVE IsDataPiece(a2[Len(a) + j], pay, l, n, 0 + j)
  <2>1. j \in 1..m /\ 0 + j = j
    BY <1>11
  <2>2. QED
    BY <1>9, <1>12, <2>1
<1>16. l \in Nat /\ l < x.total /\ n \in Nat \ {0} /\ m # 0 /\ l = l + Sent(n, 0)
  <2>1. x.total \in Nat /\ l \in Nat /\ l < x.total
    BY <1>3, <1>8, MatchFacts
  <2>2. n \in Nat \ {0}
    BY <1>8, <2>1
  <2>3. m # 0 /\ Sent(n, 0) = 0
    BY <1>8, <2>2, PieceFacts
  <2>4. QED
    BY <2>1, <2>2, <2>3
<1>17. Len(a) + (m - 0) <= Len(a2) /\ 0 < m
  BY <1>11, <1>12, <1>16
<1>18. SendingAt(x, pay, a2, l, 0, Len(a))
  BY <1>8, <1>14, <1>15, <1>16, <1>17 DEF SendingAt
<1>19. Sending(x, pay, a2, b2)
  BY <1>6, <1>11, <1>16, <1>18 DEF Sending
<1>20. QED
  BY <1>2, <1>3, <1>7, <1>8, <1>19 DEF MoveOk

(* The piece the target takes next.                                        *)
LEMMA NextPiece ==
    ASSUME NEW x, NEW cmd, Matches(x, cmd), NEW p, NEW base \in Nat, NEW t \in Nat,
           base < x.total, t < Pieces(x.total - base), x.len = base + Sent(x.total - base, t),
           IsDataPiece(p, Payload(cmd), base, x.total - base, t + 1)
    PROVE  /\ p.off = x.len /\ IsSeq(Copied(x, p)) /\ Len(Copied(x, p)) \in Nat
           /\ x.len + Len(Copied(x, p)) = base + Sent(x.total - base, t + 1)
           /\ x.len + Len(Copied(x, p)) <= x.total
           /\ \A u \in 1..Len(Copied(x, p)) : Copied(x, p)[u] = Payload(cmd)[x.len + u]
           /\ Ends(x, p) <=> t + 1 = Pieces(x.total - base)
           /\ Ends(x, p) => x.len + Len(Copied(x, p)) = x.total
<1>1. PICK n, m, pay, total, len, v, w :
         /\ n = x.total - base /\ m = Pieces(n) /\ pay = Payload(cmd) /\ total = x.total
         /\ len = x.len /\ v = Sent(n, t) /\ w = Sent(n, t + 1)
  OBVIOUS
<1>2. /\ n \in Nat \ {0} /\ m \in Nat \ {0} /\ v \in Nat /\ w \in Nat /\ v < w /\ w <= n
      /\ t + 1 = m => w = n
  BY <1>1, SendingNumbers
<1>3. total \in Nat /\ total = base + n /\ len = base + v /\ len \in Nat
  <2>1. x.total \in Nat
    BY MatchFacts
  <2>2. QED
    BY <1>1, <1>2, <2>1
<1>4. /\ p.off = len /\ IsSeq(p.data) /\ Len(p.data) = w - v
      /\ \A u \in 1..w - v : p.data[u] = pay[len + u]
      /\ p.last <=> t + 1 = m
  <2>1. (t + 1) - 1 = t
    OBVIOUS
  <2>2. /\ p.off = base + v /\ IsSeq(p.data) /\ Len(p.data) = w - v
        /\ \A u \in 1..w - v : p.data[u] = pay[base + v + u]
        /\ p.last <=> t + 1 = m
    BY <1>1, <2>1 DEF IsDataPiece
  <2>3. QED
    BY <1>3, <2>2
<1>5. Min2(Len(p.data), Room(x, p.off)) = w - v
  <2>1. Room(x, p.off) = total - len
    <3>1. len < total
      BY <1>2, <1>3
    <3>2. QED
      BY <1>1, <1>4, <3>1 DEF Room
  <2>2. w - v \in Nat /\ total - len \in Nat /\ w - v <= total - len
    BY <1>2, <1>3
  <2>3. PICK y, z : y = w - v /\ z = total - len
    OBVIOUS
  <2>4. Min2(y, z) = y
    BY <2>2, <2>3 DEF Min2
  <2>5. QED
    BY <1>4, <2>1, <2>3, <2>4
<1>6. PICK part : part = Copied(x, p)
  OBVIOUS
<1>7. IsSeq(part) /\ Len(part) = w - v /\ \A u \in 1..w - v : part[u] = p.data[u]
  <2>1. PICK s, h : s = p.data /\ h = w - v /\ IsSeq(s) /\ h \in Nat /\ 0 <= h /\ h <= Len(s) /\ h - 0 = h
    BY <1>2, <1>4
  <2>2. /\ IsSeq(SubSeq(s, 0 + 1, h)) /\ Len(SubSeq(s, 0 + 1, h)) = h - 0
        /\ \A u \in 1..h - 0 : SubSeq(s, 0 + 1, h)[u] = s[0 + u]
    BY <2>1, SeqPart
  <2>3. part = SubSeq(s, 0 + 1, h)
    BY <1>5, <1>6, <2>1 DEF Copied
  <2>4. \A u \in 1..h : 0 + u = u
    BY <2>1
  <2>5. QED
    BY <2>1, <2>2, <2>3, <2>4
<1>8. len + Len(part) = base + w /\ Len(part) \in Nat /\ len + Len(part) <= total
  BY <1>2, <1>3, <1>7
<1>9. Ends(x, p) <=> t + 1 = m
  <2>1. Ends(x, p) <=> p.last /\ len + Len(part) >= total
    BY <1>1, <1>6 DEF Ends
  <2>2. t + 1 = m => len + Len(part) >= total
    BY <1>2, <1>3, <1>8
  <2>3. QED
    BY <1>4, <2>1, <2>2
<1>10. t + 1 = m => len + Len(part) = total
  BY <1>2, <1>3, <1>8
<1>11. QED
  BY <1>1, <1>4, <1>6, <1>7, <1>8, <1>9, <1>10

(* The copy of the piece p of the transfer x of command cmd.               *)
CopyOk(x, cmd, p) ==
    /\ p.off = x.len /\ IsSeq(Copied(x, p)) /\ Len(Copied(x, p)) \in Nat
    /\ x.len + Len(Copied(x, p)) <= x.total
    /\ \A u \in 1..Len(Copied(x, p)) : Copied(x, p)[u] = Payload(cmd)[x.len + u]
    /\ Ends(x, p) => x.len + Len(Copied(x, p)) = x.total

LEMMA HeadPiece ==
    ASSUME NEW x, NEW ho, NEW a, IsSeq(a), a # <<>>, NEW b, MoveOk(x, ho, a, b), x # NoXfer,
           a[1].type = "H2CDATA"
    PROVE  /\ NoAsk(b) /\ Matches(x, ho.cmd[x.cid])
           /\ \E base, t \in Nat :
                 /\ SendingAt(x, Payload(ho.cmd[x.cid]), a, base, t, 0)
                 /\ x.len + Len(Copied(x, a[1])) = base + Sent(x.total - base, t + 1)
                 /\ Ends(x, a[1]) <=> t + 1 = Pieces(x.total - base)
           /\ CopyOk(x, ho.cmd[x.cid], a[1])
<1>1. 1 \in 1..Len(a)
  BY SeqDropped
<1>2. PICK cmd, pay, p : cmd = ho.cmd[x.cid] /\ pay = Payload(cmd) /\ p = a[1]
  OBVIOUS
<1>3. Matches(x, cmd) /\ Sending(x, pay, a, b)
  BY <1>1, <1>2 DEF MoveOk, Asked, NoData
<1>4. PICK base, t, s \in Nat : SendingAt(x, pay, a, base, t, s)
  BY <1>3 DEF Sending
<1>5. PICK n, m : n = x.total - base /\ m = Pieces(n)
  OBVIOUS
<1>6. /\ base < x.total /\ t < m /\ x.len = base + Sent(n, t)
      /\ \A k \in 1..Len(a) : a[k].type = "H2CDATA" => k - s \in 1..m - t
      /\ \A j \in 1..m - t : IsDataPiece(a[s + j], pay, base, n, t + j)
  BY <1>4, <1>5 DEF SendingAt
<1>7. m \in Nat
  BY <1>3, <1>5, <1>6, SendingNumbers
<1>8. s = 0
  <2>1. 1 - s \in 1..m - t
    BY <1>1, <1>6
  <2>2. 1 - s >= 1
    BY <1>7, <2>1
  <2>3. QED
    BY <2>2
<1>9. IsDataPiece(p, pay, base, n, t + 1)
  <2>1. 1 \in 1..m - t
    BY <1>6, <1>7
  <2>2. IsDataPiece(a[s + 1], pay, base, n, t + 1)
    BY <1>6, <2>1
  <2>3. s + 1 = 1
    BY <1>8
  <2>4. QED
    BY <1>2, <2>2, <2>3
<1>10. /\ p.off = x.len /\ IsSeq(Copied(x, p)) /\ Len(Copied(x, p)) \in Nat
       /\ x.len + Len(Copied(x, p)) = base + Sent(n, t + 1)
       /\ x.len + Len(Copied(x, p)) <= x.total
       /\ \A u \in 1..Len(Copied(x, p)) : Copied(x, p)[u] = Payload(cmd)[x.len + u]
       /\ Ends(x, p) <=> t + 1 = m
       /\ Ends(x, p) => x.len + Len(Copied(x, p)) = x.total
  <2>1. /\ base < x.total /\ t < Pieces(x.total - base) /\ x.len = base + Sent(x.total - base, t)
        /\ IsDataPiece(p, Payload(cmd), base, x.total - base, t + 1)
    BY <1>2, <1>5, <1>6, <1>9
  <2>2. /\ p.off = x.len /\ IsSeq(Copied(x, p)) /\ Len(Copied(x, p)) \in Nat
        /\ x.len + Len(Copied(x, p)) = base + Sent(x.total - base, t + 1)
        /\ x.len + Len(Copied(x, p)) <= x.total
        /\ \A u \in 1..Len(Copied(x, p)) : Copied(x, p)[u] = Payload(cmd)[x.len + u]
        /\ Ends(x, p) <=> t + 1 = Pieces(x.total - base)
        /\ Ends(x, p) => x.len + Len(Copied(x, p)) = x.total
    BY <1>3, <2>1, NextPiece
  <2>3. QED
    BY <1>5, <2>2
<1>11. CopyOk(x, cmd, p)
  BY <1>10 DEF CopyOk
<1>12. NoAsk(b)
  BY <1>3 DEF Sending
<1>13. SendingAt(x, pay, a, base, t, 0)
  BY <1>4, <1>8
<1>14. /\ SendingAt(x, Payload(ho.cmd[x.cid]), a, base, t, 0)
       /\ x.len + Len(Copied(x, a[1])) = base + Sent(x.total - base, t + 1)
       /\ Ends(x, a[1]) <=> t + 1 = Pieces(x.total - base)
  BY <1>2, <1>5, <1>10, <1>13
<1>15. \E base2, t2 \in Nat :
          /\ SendingAt(x, Payload(ho.cmd[x.cid]), a, base2, t2, 0)
          /\ x.len + Len(Copied(x, a[1])) = base2 + Sent(x.total - base2, t2 + 1)
          /\ Ends(x, a[1]) <=> t2 + 1 = Pieces(x.total - base2)
  BY <1>14, Zenon
<1>16. NoAsk(b) /\ Matches(x, ho.cmd[x.cid]) /\ CopyOk(x, ho.cmd[x.cid], a[1])
  BY <1>2, <1>3, <1>11, <1>12
<1>17. QED
  BY <1>15, <1>16

LEMMA DataTaken ==
    ASSUME NEW x, NEW ho, NEW a, IsSeq(a), a # <<>>, NEW b, MoveOk(x, ho, a, b), x # NoXfer,
           a[1].type = "H2CDATA", NEW a2, Dropped(a2, a), ~Ends(x, a[1]),
           NEW x2, x2 # NoXfer, x2.op = x.op, x2.cid = x.cid, x2.lpn = x.lpn, x2.total = x.total,
           x2.len = x.len + Len(Copied(x, a[1]))
    PROVE  MoveOk(x2, ho, a2, b)
<1>1. PICK cmd, pay : cmd = ho.cmd[x.cid] /\ pay = Payload(cmd)
  OBVIOUS
<1>2. Matches(x, cmd) /\ NoAsk(b)
  BY <1>1, HeadPiece
<1>3. PICK base, t \in Nat : /\ SendingAt(x, pay, a, base, t, 0)
                             /\ x2.len = base + Sent(x.total - base, t + 1)
                             /\ t + 1 # Pieces(x.total - base)
  <2>1. PICK base, t \in Nat : /\ SendingAt(x, Payload(ho.cmd[x.cid]), a, base, t, 0)
                               /\ x.len + Len(Copied(x, a[1])) = base + Sent(x.total - base, t + 1)
                               /\ Ends(x, a[1]) <=> t + 1 = Pieces(x.total - base)
    BY HeadPiece
  <2>2. /\ SendingAt(x, pay, a, base, t, 0)
        /\ x2.len = base + Sent(x.total - base, t + 1)
        /\ t + 1 # Pieces(x.total - base)
    BY <1>1, <2>1
  <2>3. QED
    BY <2>2
<1>4. PICK n, m : n = x.total - base /\ m = Pieces(n)
  OBVIOUS
<1>5. /\ base < x.total /\ t < m /\ 0 + (m - t) <= Len(a)
      /\ \A k \in 1..Len(a) : a[k].type = "H2CDATA" => k - 0 \in 1..m - t
      /\ \A j \in 1..m - t : IsDataPiece(a[0 + j], pay, base, n, t + j)
  BY <1>3, <1>4 DEF SendingAt
<1>6. m \in Nat /\ n \in Nat
  BY <1>2, <1>4, <1>5, SendingNumbers
<1>7. t + 1 \in Nat /\ t + 1 < m
  BY <1>3, <1>4, <1>5, <1>6
<1>8. Sent(n, t + 1) \in Nat /\ Sent(n, t + 1) < n
  <2>1. /\ Sent(n, t + 1) \in Nat /\ Sent(n, (t + 1) + 1) \in Nat
        /\ Sent(n, t + 1) < Sent(n, (t + 1) + 1) /\ Sent(n, (t + 1) + 1) <= n
    BY <1>2, <1>4, <1>5, <1>7, SendingNumbers
  <2>2. QED
    BY <1>6, <2>1
<1>9. x2.len \in Nat /\ x2.len < x2.total
  <2>1. x.total \in Nat
    BY <1>2, MatchFacts
  <2>2. QED
    BY <1>3, <1>4, <1>8, <2>1
<1>10. Matches(x2, cmd)
  BY <1>2, <1>9 DEF Matches
<1>11. /\ Len(a2) \in Nat /\ Len(a) = Len(a2) + 1
       /\ \A k \in 1..Len(a2) : a2[k] = a[k + 1] /\ k + 1 \in 1..Len(a)
  BY DroppedIndex
<1>12. 0 + (m - (t + 1)) <= Len(a2)
  BY <1>5, <1>6, <1>11
<1>13. ASSUME NEW k \in 1..Len(a2), a2[k].type = "H2CDATA" PROVE k - 0 \in 1..m - (t + 1)
  <2>1. (k + 1) - 0 \in 1..m - t
    BY <1>5, <1>11, <1>13
  <2>2. QED
    BY <1>6, <1>11, <2>1
<1>14. ASSUME NEW j \in 1..m - (t + 1) PROVE IsDataPiece(a2[0 + j], pay, base, n, (t + 1) + j)
  <2>1. j + 1 \in 1..m - t /\ t + (j + 1) = (t + 1) + j /\ 0 + (j + 1) = j + 1 /\ 0 + j = j
    BY <1>6
  <2>2. j \in 1..Len(a2)
    BY <1>6, <1>11, <1>12
  <2>3. IsDataPiece(a[0 + (j + 1)], pay, base, n, t + (j + 1))
    BY <1>5, <2>1
  <2>4. QED
    BY <1>11, <2>1, <2>2, <2>3
<1>15. SendingAt(x2, pay, a2, base, t + 1, 0)
  <2>1. n = x2.total - base /\ base < x2.total /\ x2.len = base + Sent(n, t + 1)
    BY <1>3, <1>4, <1>5
  <2>2. QED
    BY <1>4, <1>7, <1>12, <1>13, <1>14, <2>1 DEF SendingAt
<1>16. Sending(x2, pay, a2, b)
  BY <1>2, <1>7, <1>15 DEF Sending
<1>17. QED
  BY <1>1, <1>10, <1>16 DEF MoveOk

LEMMA DataEnds ==
    ASSUME NEW x, NEW ho, NEW a, IsSeq(a), a # <<>>, NEW b, MoveOk(x, ho, a, b), x # NoXfer,
           a[1].type = "H2CDATA", NEW a2, Dropped(a2, a), Ends(x, a[1])
    PROVE  MoveOk(NoXfer, ho, a2, b)
<1>1. PICK base, t \in Nat : /\ SendingAt(x, Payload(ho.cmd[x.cid]), a, base, t, 0)
                             /\ t + 1 = Pieces(x.total - base)
  BY HeadPiece
<1>2. \A k \in 1..Len(a) : a[k].type = "H2CDATA" => k - 0 \in 1..(t + 1) - t
  BY <1>1 DEF SendingAt
<1>3. ASSUME NEW k \in 1..Len(a2) PROVE a2[k].type # "H2CDATA"
  <2>1. a2[k] = a[k + 1] /\ k + 1 \in 1..Len(a)
    BY DroppedIndex
  <2>2. ~((k + 1) - 0 \in 1..(t + 1) - t)
    <3>1. k \in Nat \ {0}
      BY DroppedIndex
    <3>2. QED
      BY <3>1
  <2>3. QED
    BY <1>2, <2>1, <2>2
<1>4. NoAsk(b)
  BY HeadPiece
<1>5. QED
  BY <1>3, <1>4 DEF MoveOk, NoData

(* The buffer holds the first k units of pay.                              *)
Holds(buf, k, pay) == \A u \in 0..k - 1 : buf[u] = pay[u + 1]

LEMMA FilledHolds ==
    ASSUME NEW buf, NEW off \in Nat, NEW data, IsSeq(data), off + Len(data) <= MaxPages, NEW pay,
           \A u \in 1..Len(data) : data[u] = pay[off + u], Holds(buf, off, pay)
    PROVE  Holds(Filled(buf, off, data), off + Len(data), pay)
<1>1. PICK n, k : n = Len(data) /\ n \in Nat /\ k = MaxPages /\ k \in Nat
  BY SeqLength, TcpAssumption
<1>2. PICK full : full = [u \in 0..k - 1 |-> IF u \in off..off + n - 1 THEN data[u - off + 1] ELSE buf[u]]
  OBVIOUS
<1>3. full = Filled(buf, off, data)
  BY <1>1, <1>2 DEF Filled, Unit
<1>4. ASSUME NEW u \in 0..off + n - 1 PROVE full[u] = pay[u + 1]
  <2>1. u \in 0..k - 1 /\ u \in Nat
    BY <1>1
  <2>2. CASE u < off
    <3>1. u \in 0..off - 1 /\ ~(u \in off..off + n - 1)
      BY <2>1, <2>2
    <3>2. full[u] = buf[u]
      BY <1>2, <2>1, <3>1
    <3>3. QED
      BY <1>1, <3>1, <3>2 DEF Holds
  <2>3. CASE ~(u < off)
    <3>1. u \in off..off + n - 1 /\ u - off + 1 \in 1..n /\ off + (u - off + 1) = u + 1
      BY <1>1, <2>1, <2>3
    <3>2. full[u] = data[u - off + 1]
      BY <1>2, <2>1, <3>1
    <3>3. QED
      BY <1>1, <3>1, <3>2
  <2>4. QED
    BY <2>2, <2>3
<1>5. QED
  BY <1>1, <1>3, <1>4 DEF Holds

(* What connection c, with the owner o of the buffer buf, has under way.   *)
Carries(c, o, buf, co, ho, a, b) ==
    ho.phase = "ready" =>
        /\ MoveOk(co.xfer, ho, a, b)
        /\ o = c /\ co.xfer # NoXfer => Holds(buf, co.xfer.len, Payload(ho.cmd[co.xfer.cid]))

(* No connection of which no transfer has been replaced mixes up its data. *)
MoveInv ==
    /\ DOMAIN lost = Conn
    /\ \A c \in Conn : lost[c] = {} => Carries(c, owner, wbuf, conn[c], host[c], h2t[c], t2h[c])

CarriesOn(c) == lost'[c] = {} => Carries(c, owner', wbuf', conn'[c], host'[c], h2t'[c], t2h'[c])

OnlyConn(c) ==
    /\ Moved(c, conn'[c], host'[c], h2t'[c], t2h'[c])
    /\ DOMAIN lost' = Conn /\ \A d \in Conn : d # c => lost'[d] = lost[d]

LEMMA MovedCarries ==
    ASSUME MoveInv, NEW c \in Conn, OnlyConn(c), CarriesOn(c),
           (owner' = owner /\ wbuf' = wbuf) \/ owner' \in {c, Nobody}
    PROVE  MoveInv'
<1>1. ASSUME NEW d \in Conn, lost'[d] = {}
      PROVE  Carries(d, owner', wbuf', conn'[d], host'[d], h2t'[d], t2h'[d])
  <2>1. CASE d = c
    BY <1>1, <2>1 DEF CarriesOn
  <2>2. CASE d # c
    <3>1. conn'[d] = conn[d] /\ host'[d] = host[d] /\ h2t'[d] = h2t[d] /\ t2h'[d] = t2h[d]
      BY <2>2 DEF OnlyConn, Moved
    <3>2. Carries(d, owner, wbuf, conn[d], host[d], h2t[d], t2h[d])
      BY <1>1, <2>2 DEF OnlyConn, MoveInv
    <3>3. (owner' = owner /\ wbuf' = wbuf) \/ owner' # d
      <4>1. Nobody # d
        <5>1. MaxConn \in Nat
          BY TcpAssumption
        <5>2. QED
          BY <5>1 DEF Conn, Nobody
      <4>2. QED
        BY <2>2, <4>1
    <3>4. Carries(d, owner', wbuf', conn[d], host[d], h2t[d], t2h[d])
      BY <3>2, <3>3 DEF Carries
    <3>5. QED
      BY <3>1, <3>4
  <2>3. QED
    BY <2>1, <2>2
<1>2. QED
  BY <1>1 DEF OnlyConn, MoveInv

LEMMA OnlyTarget ==
    ASSUME LinkInv, MoveInv, NEW c \in Conn, Target(c)
    PROVE  OnlyConn(c) /\ host'[c] = host[c] /\ h2t[c] # <<>> /\ h2t'[c] = Tail(h2t[c])
<1>1. h2t[c] # <<>> /\ Takes(c) /\ host' = host
  BY DEF Target, HandleIcReq, HandleConnect, HandleRead, HandleWriteZeroes, HandleOther, HandleTooLong, HandleMove,
         HandleH2CData, HandleTermReq, HandleClose, Capsule, Next1
<1>2. /\ DOMAIN t2h' = Conn /\ \A d \in Conn : d # c => t2h'[d] = t2h[d]
  BY DEF Target, HandleIcReq, HandleConnect, HandleRead, HandleWriteZeroes, HandleOther, HandleTooLong, HandleMove,
         HandleH2CData, HandleTermReq, HandleClose, Sends, LinkInv
<1>3. /\ DOMAIN conn' = Conn /\ \A d \in Conn : d # c => conn'[d] = conn[d]
  BY DEF Target, HandleIcReq, HandleConnect, HandleRead, HandleWriteZeroes, HandleOther, HandleTooLong, HandleMove,
         HandleH2CData, HandleTermReq, HandleClose, LinkInv
<1>4. /\ DOMAIN h2t' = Conn /\ \A d \in Conn : d # c => h2t'[d] = h2t[d]
      /\ h2t'[c] = Tail(h2t[c])
  BY <1>1 DEF Takes, LinkInv
<1>5. /\ DOMAIN lost' = Conn /\ \A d \in Conn : d # c => lost'[d] = lost[d]
  BY DEF Target, HandleIcReq, HandleConnect, HandleRead, HandleWriteZeroes, HandleOther, HandleTooLong, HandleMove,
         HandleH2CData, HandleTermReq, HandleClose, MoveInv
<1>6. QED
  BY <1>1, <1>2, <1>3, <1>4, <1>5 DEF OnlyConn, Moved, LinkInv

LEMMA OnlyHost ==
    ASSUME LinkInv, MoveInv, NEW c \in Conn, TcpAccept(c) \/ HostSubmits(c) \/ HostReceives(c) \/ HostCloses(c)
    PROVE  OnlyConn(c) /\ owner' = owner /\ wbuf' = wbuf /\ lost' = lost
<1>1. /\ DOMAIN t2h' = Conn /\ \A d \in Conn : d # c => t2h'[d] = t2h[d]
  BY DEF TcpAccept, HostSubmits, HostReceives, HostCloses, LinkInv
<1>2. /\ DOMAIN conn' = Conn /\ \A d \in Conn : d # c => conn'[d] = conn[d]
  BY DEF TcpAccept, HostSubmits, HostReceives, HostCloses, LinkInv
<1>3. /\ DOMAIN h2t' = Conn /\ \A d \in Conn : d # c => h2t'[d] = h2t[d]
  BY DEF TcpAccept, HostSubmits, HostReceives, HostCloses, LinkInv
<1>4. /\ DOMAIN host' = Conn /\ \A d \in Conn : d # c => host'[d] = host[d]
  BY DEF TcpAccept, HostSubmits, HostReceives, HostCloses, LinkInv
<1>5. owner' = owner /\ wbuf' = wbuf /\ lost' = lost
  BY DEF TcpAccept, HostSubmits, HostReceives, HostCloses
<1>6. QED
  BY <1>1, <1>2, <1>3, <1>4, <1>5 DEF OnlyConn, Moved, MoveInv

(* While the host is not ready there is nothing to carry.                  *)
LEMMA GreetingCarries ==
    ASSUME LinkInv, NEW c \in Conn, HandleIcReq(c) \/ HandleConnect(c) \/ HandleTermReq(c) \/ HandleClose(c)
    PROVE  CarriesOn(c) /\ owner' = owner /\ wbuf' = wbuf /\ host[c].phase # "ready"
<1>1. /\ h2t[c] # <<>> /\ Head(h2t[c]).type \in {"ICREQ", "CONNECT", "TERM", "EOF"}
      /\ host' = host /\ owner' = owner /\ wbuf' = wbuf
  BY DEF HandleIcReq, HandleConnect, HandleTermReq, HandleClose, Next1
<1>2. host[c].phase # "ready"
  BY <1>1, PhaseOf
<1>3. QED
  BY <1>1, <1>2 DEF CarriesOn, Carries

LEMMA AnswerNoAsk ==
    ASSUME NEW more, NEW ho, NEW i, NEW m, IsAnswer(more, ho, i, m)
    PROVE  NoAsk(more)
<1>1. m \in Nat /\ Len(more) = m + 1
  BY DEF IsAnswer
<1>2. ASSUME NEW k \in 1..Len(more) PROVE more[k].type # "R2T"
  <2>1. k = m + 1 \/ k \in 1..m
    BY <1>1
  <2>2. QED
    BY <2>1 DEF IsAnswer
<1>3. QED
  BY <1>2 DEF NoAsk

LEMMA AtOnceCarries ==
    ASSUME LinkInv, MoveInv, NEW c \in Conn, AnswersAtOnce(c)
    PROVE  CarriesOn(c)
<1>0. SUFFICES ASSUME lost[c] = {} PROVE CarriesOn(c)
  BY DEF CarriesOn, AnswersAtOnce
<1>1. PICK co, ho, a, b, a2, b2 : /\ co = conn[c] /\ ho = host[c] /\ a = h2t[c] /\ b = t2h[c]
                                  /\ a2 = Tail(h2t[c]) /\ b2 = t2h'[c]
  OBVIOUS
<1>2. PICK more, m : Answers(c, b2, more) /\ (ho.phase = "ready" => IsAnswer(more, ho, Head(a).cid, m))
  BY <1>1 DEF AnswersAtOnce
<1>3. conn'[c] = co /\ host'[c] = ho /\ h2t'[c] = a2 /\ owner' = owner /\ wbuf' = wbuf
  BY <1>1 DEF AnswersAtOnce, Serves, Moved
<1>4. Carries(c, owner, wbuf, co, ho, a, b)
  BY <1>0, <1>1 DEF MoveInv
<1>5. ASSUME ho.phase = "ready" PROVE MoveOk(co.xfer, ho, a2, b2)
  <2>1. IsSeq(a) /\ IsSeq(b) /\ Dropped(a2, a) /\ a[1].type = "CAPSULE"
    BY <1>1, SomethingSent DEF AnswersAtOnce
  <2>2. MoveOk(co.xfer, ho, a, b)
    BY <1>4, <1>5 DEF Carries
  <2>3. MoveOk(co.xfer, ho, a2, b)
    <3>1. a[1].type # "H2CDATA"
      BY <2>1
    <3>2. QED
      BY <2>1, <2>2, <3>1, MoveTaken
  <2>4. IsSeq(more) /\ NoAsk(more)
    BY <1>2, <1>5, AnswerNoAsk DEF IsAnswer
  <2>5. Joined(b2, b, more)
    BY <1>1, <1>2, <1>5, <2>1, <2>4, SeqJoined DEF Answers
  <2>6. QED
    BY <2>1, <2>3, <2>4, <2>5, MoveAnswered
<1>6. Carries(c, owner, wbuf, co, ho, a2, b2)
  BY <1>4, <1>5 DEF Carries
<1>7. QED
  BY <1>1, <1>3, <1>6 DEF CarriesOn

LEMMA SubmitsCarries ==
    ASSUME LinkInv, MoveInv, NEW c \in Conn, HostSubmits(c)
    PROVE  CarriesOn(c)
<1>0. SUFFICES ASSUME lost[c] = {} PROVE CarriesOn(c)
  BY DEF CarriesOn, HostSubmits
<1>1. PICK co, ho, a, b : co = conn[c] /\ ho = host[c] /\ a = h2t[c] /\ b = t2h[c]
  OBVIOUS
<1>2. PICK i \in TcpCid \ Unanswered(c), cmd \in TcpCommands :
         /\ \E k \in InCapsule(cmd) :
              h2t' = [h2t EXCEPT ![c] = Append(@, [type |-> "CAPSULE", cid |-> i, cmd |-> cmd,
                                                   data |-> SubSeq(Payload(cmd), 1, k)])]
         /\ host' = [host EXCEPT ![c].cmd[i] = cmd, ![c].got[i] = <<>>]
  BY DEF HostSubmits
<1>3. PICK k \in InCapsule(cmd) :
              h2t' = [h2t EXCEPT ![c] = Append(@, [type |-> "CAPSULE", cid |-> i, cmd |-> cmd,
                                                   data |-> SubSeq(Payload(cmd), 1, k)])]
  BY <1>2
<1>4. PICK p : p = [type |-> "CAPSULE", cid |-> i, cmd |-> cmd, data |-> SubSeq(Payload(cmd), 1, k)]
  OBVIOUS
<1>5. PICK a2, ho2 : a2 = h2t'[c] /\ ho2 = host'[c]
  OBVIOUS
<1>6. a2 = Append(a, p) /\ ho2 = [ho EXCEPT !.cmd[i] = cmd, !.got[i] = <<>>]
  BY <1>1, <1>2, <1>3, <1>4, <1>5 DEF LinkInv
<1>7. ho.phase = "ready" /\ Link(co, ho, a, b) /\ Talking(co, ho, a, b) /\ IsSeq(a) /\ IsSeq(b)
  BY <1>1 DEF HostSubmits, LinkInv, Link
<1>8. conn'[c] = co /\ t2h'[c] = b /\ owner' = owner /\ wbuf' = wbuf
  BY <1>1 DEF HostSubmits
<1>9. OthersKept(ho2, ho, i) /\ ho.cmd[i] = NoTcpCmd
  BY <1>1, <1>6, <1>7 DEF Link, OthersKept, Unanswered
<1>10. co.xfer # NoXfer => co.xfer.cid \in TcpCid /\ ho2.cmd[co.xfer.cid] = ho.cmd[co.xfer.cid]
  <2> HAVE co.xfer # NoXfer
  <2>1. co.xfer.cid \in TcpCid /\ ho.cmd[co.xfer.cid] # NoTcpCmd
    BY <1>7, CommandFacts DEF Talking, TransferOk
  <2>2. QED
    BY <1>9, <2>1 DEF OthersKept
<1>11. Carries(c, owner, wbuf, co, ho, a, b)
  BY <1>0, <1>1 DEF MoveInv
<1>12. MoveOk(co.xfer, ho, a, b)
  BY <1>7, <1>11 DEF Carries
<1>13. MoveOk(co.xfer, ho2, a, b)
  BY <1>10, <1>12, MoveKept
<1>14. p.type # "H2CDATA" /\ Joined(a2, a, <<p>>)
  <2>1. p.type = "CAPSULE"
    BY <1>4
  <2>2. Append(a, p) = a \o <<p>>
    BY <1>7, SeqAppended
  <2>3. Joined(a \o <<p>>, a, <<p>>)
    BY <1>7, SeqOne, SeqJoined
  <2>4. QED
    BY <1>6, <2>1, <2>2, <2>3
<1>15. MoveOk(co.xfer, ho2, a2, b)
  BY <1>7, <1>13, <1>14, MovePut
<1>16. Carries(c, owner, wbuf, co, ho2, a2, b)
  BY <1>7, <1>10, <1>11, <1>15 DEF Carries
<1>17. QED
  BY <1>5, <1>8, <1>16 DEF CarriesOn

LEMMA ReceivesCarries ==
    ASSUME LinkInv, MoveInv, NEW c \in Conn, HostReceives(c)
    PROVE  CarriesOn(c)
<1>0. SUFFICES ASSUME lost[c] = {} PROVE CarriesOn(c)
  BY DEF CarriesOn, HostReceives
<1>1. PICK co, ho, a, b, b2 : /\ co = conn[c] /\ ho = host[c] /\ a = h2t[c] /\ b = t2h[c]
                              /\ b2 = Tail(t2h[c])
  OBVIOUS
<1>2. PICK p : p = Head(b) /\ b # <<>> /\ ho.phase # "closed"
  BY <1>1 DEF HostReceives
<1>3. Link(co, ho, a, b) /\ IsSeq(a) /\ IsSeq(b)
  BY <1>1 DEF LinkInv, Link
<1>4. p = b[1] /\ 1 \in 1..Len(b) /\ Dropped(b2, b) /\ IsSeq(b2)
  BY <1>1, <1>2, <1>3, SeqDropped DEF Dropped
<1>5. /\ ho.phase = "init" => Greeting(co, ho, a, b)
      /\ ho.phase = "ready" => Talking(co, ho, a, b)
      /\ ho.phase \in {"init", "ready"}
  BY <1>2, <1>3 DEF Link
<1>6. PICK a2, ho2 : a2 = h2t'[c] /\ ho2 = host'[c]
  OBVIOUS
<1>7. \/ p.type = "ICRESP" /\ ho2 = ho
      \/ p.type = "CONNECTED" /\ ho2 = [ho EXCEPT !.phase = "ready"] /\ a2 = a
      \/ p.type = "R2T" /\ a2 = a \o DataPdus(ho.cmd[p.cid], p) /\ ho2 = ho
      \/ p.type = "C2HDATA" /\ ho2 = [ho EXCEPT !.got[p.cid] = @ \o p.data] /\ a2 = a
      \/ p.type = "RESP" /\ ho2 = [ho EXCEPT !.cmd[p.cid] = NoTcpCmd, !.got[p.cid] = <<>>] /\ a2 = a
  BY <1>1, <1>2, <1>6 DEF HostReceives, LinkInv
<1>8. conn'[c] = co /\ t2h'[c] = b2 /\ owner' = owner /\ wbuf' = wbuf
  BY <1>1 DEF HostReceives, LinkInv
<1>9. Carries(c, owner, wbuf, co, ho, a, b)
  BY <1>0, <1>1 DEF MoveInv
<1>10. SUFFICES Carries(c, owner, wbuf, co, ho2, a2, b2)
  BY <1>6, <1>8 DEF CarriesOn
<1>11. CASE ho.phase = "init"
  <2>1. Greeting(co, ho, a, b) /\ co.xfer = NoXfer
    BY <1>5, <1>11 DEF Greeting
  <2>2. p.type \in {"ICRESP", "CONNECTED"}
    BY <1>4, <2>1 DEF Greeting
  <2>3. CASE p.type = "ICRESP"
    BY <1>7, <1>11, <2>3 DEF Carries
  <2>4. CASE p.type = "CONNECTED"
    <3>1. Len(a) = 0 /\ Len(b2) = 0
      <4>1. PICK l, m, n : l = Len(a) /\ m = Len(b) /\ n = Len(b2)
        OBVIOUS
      <4>2. l \in Nat /\ m \in Nat /\ n \in Nat /\ m = n + 1 /\ l + m = 1
        BY <1>3, <1>4, <2>1, <4>1, SeqLength, DroppedIndex DEF Greeting
      <4>3. l = 0 /\ n = 0
        BY <4>2
      <4>4. QED
        BY <4>1, <4>3
    <3>2. a2 = a
      BY <1>7, <2>4
    <3>3. NoData(a2) /\ NoAsk(b2)
      BY <3>1, <3>2 DEF NoData, NoAsk
    <3>4. MoveOk(co.xfer, ho2, a2, b2)
      BY <2>1, <3>3 DEF MoveOk
    <3>5. QED
      BY <2>1, <3>4 DEF Carries
  <2>5. QED
    BY <2>2, <2>3, <2>4
<1>12. CASE ho.phase = "ready"
  <2>1. Talking(co, ho, a, b) /\ MoveOk(co.xfer, ho, a, b)
    BY <1>5, <1>9, <1>12 DEF Carries
  <2>2. p.type \in {"R2T", "C2HDATA", "RESP"}
    BY <1>4, <2>1 DEF Talking
  <2>3. CASE p.type = "R2T"
    <3>1. a2 = a \o DataPdus(ho.cmd[p.cid], p) /\ ho2 = ho
      BY <1>7, <2>3
    <3>2. p.len \in Nat
      BY <1>3, <1>4, <2>1, <2>3, AskReceived
    <3>3. PICK more : more = DataPdus(ho.cmd[p.cid], p) /\ IsSeq(more)
      BY <3>2, DataPdusAreData
    <3>4. Joined(a2, a, more)
      BY <1>3, <3>1, <3>3, SeqJoined
    <3>5. Joined(a2, a, DataPdus(ho.cmd[b[1].cid], b[1])) /\ b[1].type = "R2T"
      BY <1>4, <2>3, <3>3, <3>4
    <3>6. MoveOk(co.xfer, ho, a2, b2)
      BY <1>2, <1>3, <1>4, <2>1, <3>5, AskAnswered
    <3>7. QED
      BY <1>9, <3>1, <3>6 DEF Carries
  <2>4. CASE p.type \in {"C2HDATA", "RESP"}
    <3>1. a2 = a /\ b[1].type # "R2T"
      BY <1>4, <1>7, <2>4
    <3>2. co.xfer # NoXfer => ho2.cmd[co.xfer.cid] = ho.cmd[co.xfer.cid]
      <4> HAVE co.xfer # NoXfer
      <4>1. co.xfer.cid \in TcpCid /\ p.cid # co.xfer.cid
        BY <1>4, <2>1, <2>4 DEF Talking, TransferOk, Quiet
      <4>2. CASE p.type = "C2HDATA"
        <5>1. ho2 = [ho EXCEPT !.got[p.cid] = @ \o p.data]
          BY <1>7, <4>2
        <5>2. ho2.cmd = ho.cmd
          BY <1>3, <5>1 DEF Link
        <5>3. QED
          BY <5>2
      <4>3. CASE p.type = "RESP"
        <5>1. ho2 = [ho EXCEPT !.cmd[p.cid] = NoTcpCmd, !.got[p.cid] = <<>>]
          BY <1>7, <4>3
        <5>2. QED
          BY <1>3, <4>1, <5>1 DEF Link
      <4>4. QED
        BY <2>4, <4>2, <4>3
    <3>3. MoveOk(co.xfer, ho, a, b2)
      BY <1>3, <1>4, <2>1, <3>1, MoveReceived
    <3>4. MoveOk(co.xfer, ho2, a, b2)
      BY <3>2, <3>3, MoveKept
    <3>5. QED
      BY <1>9, <1>12, <3>1, <3>2, <3>4 DEF Carries
  <2>5. QED
    BY <2>2, <2>3, <2>4
<1>13. QED
  BY <1>5, <1>11, <1>12

LEMMA OtherHostCarries ==
    ASSUME LinkInv, NEW c \in Conn, TcpAccept(c) \/ HostCloses(c)
    PROVE  CarriesOn(c)
<1>1. host'[c].phase # "ready"
  <2>1. CASE TcpAccept(c)
    <3>1. DOMAIN host = Conn /\ DOMAIN host[c] = {"phase", "cmd", "got"}
      BY DEF LinkInv, Link
    <3>2. host'[c] = [host[c] EXCEPT !.phase = "init"]
      BY <2>1, <3>1 DEF TcpAccept
    <3>3. QED
      BY <3>1, <3>2
  <2>2. CASE HostCloses(c)
    BY <2>2 DEF HostCloses, LinkInv
  <2>3. QED
    BY <2>1, <2>2
<1>2. QED
  BY <1>1 DEF CarriesOn, Carries

(* What WritesFaithful says of connection c in one step.                   *)
FaithfulStep(c) ==
    NewResp(c) =>
          LET r   == Last(t2h'[c])
              cmd == host[c].cmd[r.cid]
          IN  (r.ok /\ cmd.op = "WRITE" /\ owner' = c /\ lost'[c] = {}) =>
                 \A i \in 1..cmd.n : disk'[cmd.lpn + i - 1] = cmd.data[i]

LEMMA LastOfAnswer ==
    ASSUME NEW b, IsSeq(b), NEW r, NEW b2, Joined(b2, b, <<r>>)
    PROVE  Last(b2) = r
<1>1. Len(<<r>>) = 1 /\ <<r>>[1] = r /\ IsSeq(<<r>>)
  BY SeqOne
<1>2. Len(b2) = Len(b) + 1 /\ b2[Len(b) + 1] = r
  BY <1>1 DEF Joined
<1>3. QED
  BY <1>2 DEF Last

(* Nothing new has been sent.                                              *)
LEMMA QuietStep ==
    ASSUME LinkInv, NEW c \in Conn,
           t2h'[c] \in {<<>>, t2h[c]} \/ (t2h[c] # <<>> /\ t2h'[c] = Tail(t2h[c]))
    PROVE  FaithfulStep(c)
<1>1. PICK b : b = t2h[c] /\ IsSeq(b)
  BY DEF LinkInv, Link
<1>2. PICK b2 : b2 = t2h'[c]
  OBVIOUS
<1>3. Len(b) \in Nat
  BY <1>1, SeqLength
<1>4. ~(Len(b2) > Len(b))
  <2>1. CASE b2 = <<>>
    BY <1>3, <2>1, SeqNone
  <2>2. CASE b2 = b
    BY <1>3, <2>2
  <2>3. CASE b2 = Tail(b) /\ b # <<>>
    <3>1. Dropped(b2, b)
      BY <1>1, <2>3, SeqDropped
    <3>2. Len(b2) \in Nat /\ Len(b) = Len(b2) + 1
      BY <1>1, <3>1, DroppedIndex
    <3>3. QED
      BY <3>2
  <2>4. QED
    BY <1>1, <1>2, <2>1, <2>2, <2>3
<1>5. QED
  BY <1>1, <1>2, <1>4 DEF FaithfulStep, NewResp

(* The end of a write whose data are in the buffer.                        *)
LEMMA WriteApplied ==
    ASSUME NEW cmd \in TcpCommands, cmd.op = "WRITE",
           Holds(wbuf', Len(Payload(cmd)), Payload(cmd)),
           Apply(wbuf', cmd.op, cmd.lpn, Len(Payload(cmd)), TRUE)
    PROVE  \A i \in 1..cmd.n : disk'[cmd.lpn + i - 1] = cmd.data[i]
<1>1. PICK n, l, pay, buf, d : n = cmd.n /\ l = cmd.lpn /\ pay = cmd.data /\ buf = wbuf' /\ d = disk
  OBVIOUS
<1>2. Payload(cmd) = pay /\ Len(pay) = n /\ n \in Nat /\ l \in Nat
  <2>1. cmd.lpn \in Starts /\ cmd.n = Len(cmd.data) /\ cmd.n \in Nat
    BY CommandFacts DEF Moves
  <2>2. Starts \subseteq 0..TotalLpns - 1 /\ TotalLpns \in Nat
    BY TcpAssumption
  <2>3. Payload(cmd) = cmd.data
    BY PayloadFacts
  <2>4. cmd.lpn \in Nat /\ cmd.n \in Nat
    <3>1. PICK u, T : u = cmd.lpn /\ T = TotalLpns
      OBVIOUS
    <3>2. u \in 0..T - 1 /\ T \in Nat
      BY <2>1, <2>2, <3>1
    <3>3. u \in Nat
      BY <3>2
    <3>4. QED
      BY <2>1, <3>1, <3>3
  <2>5. QED
    BY <1>1, <2>1, <2>3, <2>4
<1>3. WritePages(l, n, buf, TRUE)
  BY <1>1, <1>2 DEF Apply
<1>4. l + n <= TotalLpns /\ disk' = Written(l, n, buf)
  BY <1>3 DEF WritePages
<1>5. PICK T : T = TotalLpns /\ T \in Nat
  BY TcpAssumption
<1>6. disk' = [x \in 0..T - 1 |-> IF x \in l..l + n - 1 THEN buf[x - l] ELSE d[x]]
  BY <1>1, <1>4, <1>5 DEF Written, LPN
<1>7. ASSUME NEW i \in 1..n PROVE disk'[l + i - 1] = pay[i]
  <2>1. PICK x : x = l + i - 1
    OBVIOUS
  <2>2. x \in 0..T - 1 /\ x \in l..l + n - 1 /\ x - l = i - 1 /\ i - 1 \in 0..n - 1 /\ (i - 1) + 1 = i
    BY <1>2, <1>4, <1>5, <2>1
  <2>3. disk'[x] = buf[i - 1]
    BY <1>6, <2>2
  <2>4. buf[i - 1] = pay[(i - 1) + 1]
    BY <1>1, <1>2, <2>2 DEF Holds
  <2>5. QED
    BY <2>1, <2>2, <2>3, <2>4
<1>8. QED
  BY <1>1, <1>7

LEMMA AtOnceFaithful ==
    ASSUME LinkInv, NEW c \in Conn, AnswersAtOnce(c)
    PROVE  FaithfulStep(c)
<1>1. CASE host[c].phase # "ready"
  <2>1. host[c].phase = "closed"
    BY <1>1, PhaseOf DEF AnswersAtOnce
  <2>2. t2h'[c] = <<>>
    BY <2>1 DEF AnswersAtOnce, Answers
  <2>3. QED
    BY <2>2, QuietStep
<1>2. CASE host[c].phase = "ready"
  <2>1. PICK ho, b, b2, p : ho = host[c] /\ b = t2h[c] /\ b2 = t2h'[c] /\ p = Head(h2t[c])
    OBVIOUS
  <2>2. PICK more, m : /\ Answers(c, b2, more) /\ IsAnswer(more, ho, p.cid, m)
                       /\ p.cmd.op \in Moves => ~more[m + 1].ok
    BY <1>2, <2>1 DEF AnswersAtOnce
  <2>3. IsSeq(more) /\ Len(more) = m + 1 /\ m \in Nat /\ more[m + 1].cid = p.cid
    BY <2>2 DEF IsAnswer
  <2>4. IsSeq(b) /\ Len(b) \in Nat
    BY <2>1, SeqLength, SomethingSent DEF AnswersAtOnce
  <2>5. Joined(b2, b, more)
    BY <1>2, <2>1, <2>2, <2>3, <2>4, SeqJoined DEF Answers
  <2>6. Last(b2) = more[m + 1]
    <3>1. Len(b2) = Len(b) + (m + 1) /\ m + 1 \in 1..Len(more)
      BY <2>3, <2>5 DEF Joined
    <3>2. b2[Len(b) + (m + 1)] = more[m + 1]
      BY <2>5, <3>1 DEF Joined
    <3>3. QED
      BY <2>3, <3>1, <3>2 DEF Last
  <2>7. ho.cmd[p.cid].op = "WRITE" => ~Last(b2).ok
    <3>1. p.cmd = ho.cmd[p.cid]
      BY <1>2, <2>1, CapsuleCommand DEF AnswersAtOnce
    <3>2. QED
      BY <2>2, <2>6, <3>1 DEF Moves
  <2>8. QED
    BY <2>1, <2>3, <2>6, <2>7 DEF FaithfulStep
<1>3. QED
  BY <1>1, <1>2

(* The data in the capsule p are the first of those of its command.        *)
Begins(p, ho) ==
    /\ p.cid \in TcpCid /\ p.cmd = ho.cmd[p.cid] /\ p.cmd \in TcpCommands
    /\ IsSeq(p.data) /\ Len(p.data) <= Len(Payload(p.cmd))
    /\ \A u \in 1..Len(p.data) : p.data[u] = Payload(p.cmd)[u]

(* The capsule of a write or trim in a connection that is talking.         *)
LEMMA MoveHead ==
    ASSUME NEW co, NEW ho, NEW a, IsSeq(a), a # <<>>, NEW b, IsSeq(b), Talking(co, ho, a, b),
           co.xfer = NoXfer, MoveOk(co.xfer, ho, a, b),
           a[1].type = "CAPSULE", a[1].cmd.op \in Moves, NEW a2, Dropped(a2, a)
    PROVE  NoData(a2) /\ NoAsk(b) /\ Begins(a[1], ho)
<1>1. PICK p, i, cmd, pay : p = a[1] /\ i = p.cid /\ cmd = p.cmd /\ pay = Payload(cmd)
  OBVIOUS
<1>2. OnItsWay(co, ho, a, b, p)
  BY <1>1, SeqDropped DEF Talking, CapsulesOk
<1>3. i \in TcpCid /\ cmd = ho.cmd[i] /\ cmd \in TcpCommands /\ cmd.op \in Moves
  BY <1>1, <1>2 DEF OnItsWay
<1>5. MoveOk(co.xfer, ho, a2, b)
  <2>1. a[1].type # "H2CDATA"
    OBVIOUS
  <2>2. QED
    BY <2>1, MoveTaken
<1>6. NoData(a2) /\ NoAsk(b)
  BY <1>5 DEF MoveOk
<1>7. IsSeq(p.data) /\ Len(p.data) <= Len(pay) /\ \A u \in 1..Len(p.data) : p.data[u] = pay[u]
  <2>1. PICK k \in Nat : k <= Len(pay) /\ p.data = SubSeq(pay, 1, k)
    BY <1>1, <1>2 DEF OnItsWay
  <2>2. IsSeq(pay)
    BY <1>1, <1>3, PayloadFacts
  <2>3. /\ IsSeq(SubSeq(pay, 0 + 1, k)) /\ Len(SubSeq(pay, 0 + 1, k)) = k - 0
        /\ \A u \in 1..k - 0 : SubSeq(pay, 0 + 1, k)[u] = pay[0 + u]
    <3>1. 0 \in Nat /\ 0 <= k
      OBVIOUS
    <3>2. QED
      BY <2>1, <2>2, <3>1, SeqPart
  <2>4. 0 + 1 = 1 /\ k - 0 = k /\ \A u \in 1..k : 0 + u = u
    OBVIOUS
  <2>5. /\ IsSeq(SubSeq(pay, 1, k)) /\ Len(SubSeq(pay, 1, k)) = k
        /\ \A u \in 1..k : SubSeq(pay, 1, k)[u] = pay[u]
    BY <2>3, <2>4
  <2>6. QED
    BY <2>1, <2>5
<1>8. Begins(p, ho)
  BY <1>1, <1>3, <1>7 DEF Begins
<1>9. QED
  BY <1>1, <1>6, <1>8

LEMMA MoveStep ==
    ASSUME LinkInv, MoveInv, NEW c \in Conn, HandleMove(c), host[c].phase = "ready"
    PROVE  CarriesOn(c) /\ FaithfulStep(c)
<1>0. SUFFICES ASSUME lost[c] = {}, conn[c].xfer = NoXfer PROVE CarriesOn(c) /\ FaithfulStep(c)
  <2>1. lost'[c] = lost[c] \cup (IF conn[c].xfer = NoXfer THEN {} ELSE {conn[c].xfer.cid})
    BY DEF HandleMove, MoveInv
  <2>2. lost'[c] # {} => CarriesOn(c) /\ FaithfulStep(c)
    BY DEF CarriesOn, FaithfulStep
  <2>3. QED
    BY <2>1, <2>2
<1>1. PICK co, ho, a, b, a2, b2 : /\ co = conn[c] /\ ho = host[c] /\ a = h2t[c] /\ b = t2h[c]
                                  /\ a2 = Tail(h2t[c]) /\ b2 = t2h'[c]
  OBVIOUS
<1>2. PICK p : p = Head(h2t[c]) /\ h2t[c] # <<>> /\ p.type = "CAPSULE" /\ p.cmd.op \in Moves
  BY DEF HandleMove, Capsule, Next1
<1>3. /\ IsSeq(a) /\ a # <<>> /\ IsSeq(b) /\ Talking(co, ho, a, b) /\ a[1] = p
      /\ Dropped(a2, a) /\ co.xfer = NoXfer /\ DOMAIN co = {"state", "qid", "xfer"}
  BY <1>0, <1>1, <1>2, SomethingSent, PhaseOf
<1>4. MoveOk(co.xfer, ho, a, b)
  BY <1>0, <1>1 DEF MoveInv, Carries
<1>5. PICK i, cmd, pay, data : i = p.cid /\ cmd = p.cmd /\ pay = Payload(cmd) /\ data = p.data
  OBVIOUS
<1>6. /\ NoData(a2) /\ NoAsk(b) /\ i \in TcpCid /\ cmd = ho.cmd[i] /\ cmd \in TcpCommands
      /\ IsSeq(data) /\ Len(data) <= Len(pay) /\ \A u \in 1..Len(data) : data[u] = pay[u]
  <2>1. a[1].type = "CAPSULE" /\ a[1].cmd.op \in Moves
    BY <1>2, <1>3
  <2>2. NoData(a2) /\ NoAsk(b) /\ Begins(p, ho)
    BY <1>3, <1>4, <2>1, MoveHead
  <2>3. QED
    BY <1>5, <2>2 DEF Begins
<1>7a. PICK total, here, M : total = Len(pay) /\ here = Len(data) /\ M = MaxPages
  OBVIOUS
<1>7. /\ total = Len(pay) /\ here = Len(data) /\ total \in Nat /\ here \in Nat
      /\ M = MaxPages /\ M \in Nat /\ total <= M /\ here <= total
  <2>1. M \in Nat
    BY <1>7a, TcpAssumption
  <2>2. total \in Nat /\ total <= M /\ here \in Nat /\ here <= total
    BY <1>2, <1>5, <1>6, <1>7a, PayloadFacts, SeqLength DEF HandleMove
  <2>3. QED
    BY <1>7a, <2>1, <2>2
<1>8. PICK buf : owner' = c /\ wbuf' = Filled(buf, 0, data) /\ host' = host /\ h2t'[c] = a2
  BY <1>1, <1>2, <1>5 DEF HandleMove, Capsule, Takes, LinkInv
<1>9. Holds(wbuf', here, pay)
  <2>1. 0 \in Nat /\ 0 + Len(data) <= MaxPages /\ 0 + Len(data) = here
    <3>1. here <= M /\ 0 + here = here
      BY <1>7
    <3>2. QED
      BY <1>7, <3>1
  <2>2. \A u \in 1..Len(data) : data[u] = pay[0 + u]
    <3>1. \A u \in 1..Len(data) : 0 + u = u
      BY <1>7
    <3>2. QED
      BY <1>6, <3>1
  <2>3. Holds(buf, 0, pay)
    BY DEF Holds
  <2>4. Holds(Filled(buf, 0, data), 0 + Len(data), pay)
    BY <1>6, <2>1, <2>2, <2>3, FilledHolds
  <2>5. QED
    BY <1>8, <2>1, <2>4
<1>10. CASE here < total
  <2>1. PICK x : x = [op |-> p.cmd.op, cid |-> p.cid, lpn |-> p.cmd.lpn, len |-> here, total |-> total]
    OBVIOUS
  <2>2. PICK q, co2 : /\ q = [type |-> "R2T", cid |-> p.cid, off |-> here, len |-> total - here]
                      /\ co2 = conn'[c]
    OBVIOUS
  <2>3. conn' = [conn EXCEPT ![c].xfer = x] /\ Sends(c, <<q>>)
    BY <1>2, <1>5, <1>7, <1>10, <2>1, <2>2 DEF HandleMove, Asks
  <2>4. co2.xfer = x
    BY <1>1, <1>3, <2>2, <2>3 DEF LinkInv
  <2>5. b2 = b \o <<q>>
    BY <1>1, <2>3 DEF Sends, LinkInv
  <2>6. IsSeq(<<q>>) /\ Len(<<q>>) = 1 /\ <<q>>[1] = q /\ Joined(b2, b, <<q>>)
    BY <1>3, <2>5, SeqOne, SeqJoined
  <2>7. /\ x.op = cmd.op /\ x.cid = i /\ x.lpn = cmd.lpn /\ x.len = here /\ x.total = total
        /\ q.type = "R2T" /\ q.cid = i /\ q.off = here /\ q.len = total - here
    BY <1>5, <2>1, <2>2
  <2>8. x # NoXfer
    <3>1. DOMAIN x = {"op", "cid", "lpn", "len", "total"}
      BY <2>1
    <3>2. DOMAIN NoXfer = {"op"}
      BY DEF NoXfer
    <3>3. "cid" \in DOMAIN x /\ "cid" \notin DOMAIN NoXfer
      BY <3>1, <3>2
    <3>4. QED
      BY <3>3
  <2>9. Matches(x, ho.cmd[x.cid])
    BY <1>5, <1>6, <1>7, <1>10, <2>7 DEF Matches
  <2>10. Asked(x, a2, b2)
    <3>1. PICK r : r = Len(b) + 1 /\ r \in 1..Len(b2) /\ b2[r] = q
      <4>1. Len(b) \in Nat
        BY <1>3, SeqLength
      <4>2. Len(b2) = Len(b) + 1 /\ b2[Len(b) + 1] = q
        BY <2>6 DEF Joined
      <4>3. Len(b) + 1 \in 1..Len(b2)
        BY <4>1, <4>2
      <4>4. QED
        BY <4>2, <4>3
    <3>2. ASSUME NEW k \in 1..Len(b2), b2[k].type = "R2T" PROVE k = r
      <4>1. CASE k \in 1..Len(b) /\ b2[k] = b[k]
        BY <1>6, <3>2, <4>1 DEF NoAsk
      <4>2. CASE k = Len(b) + 1
        BY <3>1, <4>2
      <4>3. Joined(b2, b, <<q>>)
        BY <2>6
      <4>4. QED
        BY <1>3, <4>1, <4>2, <4>3, AppendedIndex
    <3>3. AskedAt(x, b2, r)
      BY <2>7, <3>1, <3>2 DEF AskedAt
    <3>4. QED
      BY <1>6, <3>1, <3>3 DEF Asked
  <2>11. MoveOk(x, ho, a2, b2)
    BY <2>8, <2>9, <2>10 DEF MoveOk
  <2>12. Holds(wbuf', x.len, Payload(ho.cmd[x.cid]))
    BY <1>5, <1>6, <1>9, <2>7
  <2>13. CarriesOn(c)
    <3>1. Carries(c, owner', wbuf', co2, ho, a2, b2)
      BY <2>4, <2>11, <2>12 DEF Carries
    <3>2. QED
      BY <1>1, <1>8, <2>2, <3>1 DEF CarriesOn
  <2>14. FaithfulStep(c)
    <3>1. Last(b2) = q
      BY <1>3, <2>6, LastOfAnswer
    <3>2. QED
      BY <1>1, <2>7, <3>1 DEF FaithfulStep, NewResp
  <2>15. QED
    BY <2>13, <2>14
<1>11. CASE ~(here < total)
  <2>1. PICK ok \in BOOLEAN : /\ conn' = [conn EXCEPT ![c].xfer = NoXfer]
                              /\ Apply(wbuf', p.cmd.op, p.cmd.lpn, total, ok)
                              /\ Sends(c, <<Resp(p.cid, ok)>>)
    BY <1>2, <1>5, <1>7, <1>11 DEF HandleMove
  <2>2. PICK r, co2 : r = Resp(p.cid, ok) /\ co2 = conn'[c]
    OBVIOUS
  <2>3. co2.xfer = NoXfer
    BY <1>1, <1>3, <2>1, <2>2 DEF LinkInv
  <2>4. b2 = b \o <<r>>
    BY <1>1, <2>1, <2>2 DEF Sends, LinkInv
  <2>5. r.type = "RESP" /\ r.cid = i /\ r.ok = ok
    BY <1>5, <2>2 DEF Resp
  <2>6. IsSeq(<<r>>) /\ Len(<<r>>) = 1 /\ <<r>>[1] = r /\ Joined(b2, b, <<r>>)
    BY <1>3, <2>4, SeqOne, SeqJoined
  <2>7. NoAsk(<<r>>)
    BY <2>5, <2>6 DEF NoAsk
  <2>8. MoveOk(NoXfer, ho, a2, b2)
    <3>1. MoveOk(NoXfer, ho, a2, b)
      BY <1>6 DEF MoveOk
    <3>2. QED
      BY <1>3, <2>6, <2>7, <3>1, MoveAnswered
  <2>9. CarriesOn(c)
    <3>1. Carries(c, owner', wbuf', co2, ho, a2, b2)
      BY <2>3, <2>8 DEF Carries
    <3>2. QED
      BY <1>1, <1>8, <2>2, <3>1 DEF CarriesOn
  <2>10. FaithfulStep(c)
    <3>1. Last(b2) = r
      BY <1>3, <2>6, LastOfAnswer
    <3>2. ASSUME r.ok, cmd.op = "WRITE" PROVE \A u \in 1..cmd.n : disk'[cmd.lpn + u - 1] = cmd.data[u]
      <4>1. here = total
        BY <1>6, <1>7, <1>11
      <4>2. Holds(wbuf', Len(Payload(cmd)), Payload(cmd))
        BY <1>5, <1>7, <1>9, <4>1
      <4>3. ok = TRUE
        BY <2>5, <3>2
      <4>4. Apply(wbuf', cmd.op, cmd.lpn, Len(Payload(cmd)), TRUE)
        BY <1>5, <1>7, <2>1, <4>3
      <4>5. QED
        BY <1>6, <3>2, <4>2, <4>4, WriteApplied
    <3>3. QED
      BY <1>1, <1>6, <2>5, <3>1, <3>2 DEF FaithfulStep
  <2>11. QED
    BY <2>9, <2>10
<1>12. QED
  BY <1>10, <1>11

LEMMA DataStep ==
    ASSUME LinkInv, MoveInv, NEW c \in Conn, HandleH2CData(c), host[c].phase = "ready"
    PROVE  CarriesOn(c) /\ FaithfulStep(c)
<1>0. SUFFICES ASSUME lost[c] = {} PROVE CarriesOn(c) /\ FaithfulStep(c)
  BY DEF CarriesOn, FaithfulStep, HandleH2CData
<1>1. PICK co, ho, a, b, a2, b2 : /\ co = conn[c] /\ ho = host[c] /\ a = h2t[c] /\ b = t2h[c]
                                  /\ a2 = Tail(h2t[c]) /\ b2 = t2h'[c]
  OBVIOUS
<1>2. PICK p : p = Head(h2t[c]) /\ h2t[c] # <<>> /\ p.type = "H2CDATA"
  BY DEF HandleH2CData, Next1
<1>3. PICK x, cmd, pay : x = co.xfer /\ cmd = ho.cmd[x.cid] /\ pay = Payload(cmd)
  OBVIOUS
<1>4. /\ IsSeq(a) /\ a # <<>> /\ IsSeq(b) /\ a[1] = p /\ 1 \in 1..Len(a)
      /\ Dropped(a2, a) /\ DOMAIN co = {"state", "qid", "xfer"}
      /\ x # NoXfer => DOMAIN x = {"op", "cid", "lpn", "len", "total"}
  BY <1>1, <1>2, <1>3, SomethingSent, PhaseOf
<1>5. Carries(c, owner, wbuf, co, ho, a, b)
  BY <1>0, <1>1 DEF MoveInv
<1>6. MoveOk(x, ho, a, b)
  BY <1>1, <1>3, <1>5 DEF Carries
<1>7. x # NoXfer
  BY <1>2, <1>4, <1>6 DEF MoveOk, NoData
<1>8. a[1].type = "H2CDATA"
  BY <1>2, <1>4
<1>9. Matches(x, cmd) /\ CopyOk(x, cmd, p)
  <2>1. Matches(x, ho.cmd[x.cid]) /\ CopyOk(x, ho.cmd[x.cid], a[1])
    BY <1>4, <1>6, <1>7, <1>8, HeadPiece
  <2>2. QED
    BY <1>3, <1>4, <2>1
<1>10. PICK part, n : part = Copied(x, p) /\ n = Len(part)
  OBVIOUS
<1>11. /\ wbuf' = Filled(wbuf, x.len, part) /\ owner' = (IF owner = c THEN c ELSE Nobody)
       /\ host' = host /\ h2t'[c] = a2
  <2>1. Offset(x, p) = x.len
    BY <1>9 DEF CopyOk, Offset
  <2>2. wbuf' = Filled(wbuf, Offset(x, p), Copied(x, p)) /\ owner' = (IF owner = c THEN c ELSE Nobody)
    BY <1>1, <1>2, <1>3, <1>7 DEF HandleH2CData
  <2>3. host' = host /\ h2t'[c] = a2
    BY <1>1 DEF HandleH2CData, Takes, LinkInv
  <2>4. QED
    BY <1>10, <2>1, <2>2, <2>3
<1>12. ASSUME owner' = c PROVE Holds(wbuf', x.len + n, pay)
  <2>1. owner = c
    <3>1. Nobody # c
      <4>1. MaxConn \in Nat
        BY TcpAssumption
      <4>2. QED
        BY <4>1 DEF Conn, Nobody
    <3>2. QED
      BY <1>11, <1>12, <3>1
  <2>2. Holds(wbuf, x.len, pay)
    BY <1>1, <1>3, <1>5, <1>7, <2>1 DEF Carries
  <2>3. /\ x.len \in Nat /\ IsSeq(part) /\ x.len + Len(part) <= MaxPages
        /\ \A u \in 1..Len(part) : part[u] = pay[x.len + u]
    <3>1. PICK l, t, M : l = x.len /\ t = x.total /\ M = MaxPages
      OBVIOUS
    <3>2. IsSeq(part) /\ n \in Nat /\ l + n <= t /\ \A u \in 1..n : part[u] = pay[l + u]
      BY <1>3, <1>9, <1>10, <3>1 DEF CopyOk
    <3>3. M \in Nat /\ t \in Nat /\ t <= M /\ l \in Nat
      BY <1>9, <3>1, MatchFacts, TcpAssumption
    <3>4. l + n <= M
      BY <3>2, <3>3
    <3>5. QED
      BY <1>10, <3>1, <3>2, <3>3, <3>4
  <2>4. Holds(Filled(wbuf, x.len, part), x.len + Len(part), pay)
    BY <2>2, <2>3, FilledHolds
  <2>5. QED
    BY <1>10, <1>11, <2>4
<1>13. CASE Ends(x, p)
  <2>1. PICK ok \in BOOLEAN : /\ conn' = [conn EXCEPT ![c].xfer = NoXfer]
                              /\ Apply(wbuf', x.op, x.lpn, x.total, ok)
                              /\ Sends(c, <<Resp(x.cid, ok)>>)
    BY <1>1, <1>2, <1>3, <1>7, <1>13 DEF HandleH2CData
  <2>2. PICK r, co2 : r = Resp(x.cid, ok) /\ co2 = conn'[c]
    OBVIOUS
  <2>3. co2.xfer = NoXfer
    BY <1>1, <1>4, <2>1, <2>2 DEF LinkInv
  <2>4. b2 = b \o <<r>>
    BY <1>1, <2>1, <2>2 DEF Sends, LinkInv
  <2>5. r.type = "RESP" /\ r.cid = x.cid /\ r.ok = ok
    BY <2>2 DEF Resp
  <2>6. IsSeq(<<r>>) /\ Len(<<r>>) = 1 /\ <<r>>[1] = r /\ Joined(b2, b, <<r>>)
    BY <1>4, <2>4, SeqOne, SeqJoined
  <2>7. NoAsk(<<r>>)
    BY <2>5, <2>6 DEF NoAsk
  <2>8. MoveOk(NoXfer, ho, a2, b2)
    <3>1. Ends(x, a[1])
      BY <1>4, <1>13
    <3>2. MoveOk(NoXfer, ho, a2, b)
      BY <1>4, <1>6, <1>7, <1>8, <3>1, DataEnds
    <3>3. QED
      BY <1>4, <2>6, <2>7, <3>2, MoveAnswered
  <2>9. CarriesOn(c)
    <3>1. Carries(c, owner', wbuf', co2, ho, a2, b2)
      BY <2>3, <2>8 DEF Carries
    <3>2. QED
      BY <1>1, <1>11, <2>2, <3>1 DEF CarriesOn
  <2>10. FaithfulStep(c)
    <3>1. Last(b2) = r
      BY <1>4, <2>6, LastOfAnswer
    <3>2. ASSUME r.ok, cmd.op = "WRITE", owner' = c
          PROVE  \A u \in 1..cmd.n : disk'[cmd.lpn + u - 1] = cmd.data[u]
      <4>1. x.len + n = x.total
        BY <1>9, <1>10, <1>13 DEF CopyOk
      <4>2. /\ cmd \in TcpCommands /\ x.op = cmd.op /\ x.lpn = cmd.lpn /\ x.total = Len(Payload(cmd))
        BY <1>9 DEF Matches
      <4>3. Holds(wbuf', Len(Payload(cmd)), Payload(cmd))
        BY <1>3, <1>12, <3>2, <4>1, <4>2
      <4>4. ok = TRUE
        BY <2>5, <3>2
      <4>5. Apply(wbuf', cmd.op, cmd.lpn, Len(Payload(cmd)), TRUE)
        BY <2>1, <4>2, <4>4
      <4>6. QED
        BY <3>2, <4>2, <4>3, <4>5, WriteApplied
    <3>3. Last(t2h'[c]) = r /\ host[c].cmd[r.cid] = cmd
      BY <1>1, <1>3, <2>5, <3>1
    <3>4. FaithfulStep(c) <=> (NewResp(c) => ((r.ok /\ cmd.op = "WRITE" /\ owner' = c /\ lost'[c] = {}) =>
             \A u \in 1..cmd.n : disk'[cmd.lpn + u - 1] = cmd.data[u]))
      BY <3>3 DEF FaithfulStep
    <3>5. QED
      BY <3>2, <3>4
  <2>11. QED
    BY <2>9, <2>10
<1>14. CASE ~Ends(x, p)
  <2>1. conn' = [conn EXCEPT ![c].xfer.len = x.len + n] /\ t2h' = t2h
    BY <1>1, <1>2, <1>3, <1>7, <1>10, <1>14 DEF HandleH2CData
  <2>2. PICK x2, co2 : x2 = [x EXCEPT !.len = x.len + n] /\ co2 = conn'[c]
    OBVIOUS
  <2>3. co2.xfer = x2
    BY <1>1, <1>3, <1>4, <2>1, <2>2 DEF LinkInv
  <2>4. /\ DOMAIN x2 = {"op", "cid", "lpn", "len", "total"}
        /\ x2.op = x.op /\ x2.cid = x.cid /\ x2.lpn = x.lpn /\ x2.total = x.total /\ x2.len = x.len + n
    BY <1>4, <1>7, <2>2
  <2>5. x2 # NoXfer
    <3>1. DOMAIN NoXfer = {"op"}
      BY DEF NoXfer
    <3>2. "cid" \in DOMAIN x2 /\ "cid" \notin DOMAIN NoXfer
      BY <2>4, <3>1
    <3>3. QED
      BY <3>2
  <2>6. MoveOk(x2, ho, a2, b)
    <3>1. ~Ends(x, a[1]) /\ x2.len = x.len + Len(Copied(x, a[1]))
      BY <1>4, <1>10, <1>14, <2>4
    <3>2. QED
      BY <1>4, <1>6, <1>7, <1>8, <2>4, <2>5, <3>1, DataTaken
  <2>7. CarriesOn(c)
    <3>1. owner' = c => Holds(wbuf', x2.len, Payload(ho.cmd[x2.cid]))
      BY <1>3, <1>12, <2>4
    <3>2. Carries(c, owner', wbuf', co2, ho, a2, b)
      BY <2>3, <2>6, <3>1 DEF Carries
    <3>3. QED
      BY <1>1, <1>11, <2>1, <2>2, <3>2 DEF CarriesOn
  <2>8. FaithfulStep(c)
    <3>1. t2h'[c] \in {<<>>, t2h[c]}
      BY <2>1
    <3>2. QED
      BY <3>1, QuietStep
  <2>9. QED
    BY <2>7, <2>8
<1>15. QED
  BY <1>13, <1>14

LEMMA GreetingFaithful ==
    ASSUME LinkInv, NEW c \in Conn, HandleIcReq(c) \/ HandleConnect(c) \/ HandleTermReq(c) \/ HandleClose(c)
    PROVE  FaithfulStep(c)
<1>1. PICK b, b2 : b = t2h[c] /\ b2 = t2h'[c] /\ IsSeq(b)
  BY DEF LinkInv, Link
<1>2. CASE b2 = b \/ b2 = <<>>
  BY <1>1, <1>2, QuietStep
<1>3. CASE \E p : p.type # "RESP" /\ b2 = b \o <<p>>
  <2>1. PICK p : p.type # "RESP" /\ b2 = b \o <<p>>
    BY <1>3
  <2>2. Joined(b2, b, <<p>>)
    BY <1>1, <2>1, SeqOne, SeqJoined
  <2>3. Last(b2) = p
    BY <1>1, <2>2, LastOfAnswer
  <2>4. QED
    BY <1>1, <2>1, <2>3 DEF FaithfulStep, NewResp
<1>4. (b2 = b \/ b2 = <<>>) \/ \E p : p.type # "RESP" /\ b2 = b \o <<p>>
  <2>1. CASE HandleTermReq(c) \/ HandleClose(c)
    BY <1>1, <2>1 DEF HandleTermReq, HandleClose
  <2>2. CASE HandleIcReq(c)
    <3>1. PICK p : p = [type |-> "ICRESP"]
      OBVIOUS
    <3>2. p.type # "RESP"
      BY <3>1
    <3>3. b2 = b \o <<p>> \/ b2 = <<>>
      BY <1>1, <2>2, <3>1 DEF HandleIcReq, Sends, LinkInv
    <3>4. QED
      BY <3>2, <3>3
  <2>3. CASE HandleConnect(c)
    <3>1. PICK p : p = [type |-> "CONNECTED"]
      OBVIOUS
    <3>2. p.type # "RESP"
      BY <3>1
    <3>3. b2 = b \o <<p>> \/ b2 = <<>>
      BY <1>1, <2>3, <3>1 DEF HandleConnect, Sends, LinkInv
    <3>4. QED
      BY <3>2, <3>3
  <2>4. QED
    BY <2>1, <2>2, <2>3
<1>5. QED
  BY <1>2, <1>3, <1>4

(* Data that arrive when the host has gone.                                *)
LEMMA ClosedStep ==
    ASSUME LinkInv, NEW c \in Conn, HandleMove(c) \/ HandleH2CData(c), host[c].phase # "ready"
    PROVE  CarriesOn(c) /\ FaithfulStep(c)
<1>1. host[c].phase = "closed" /\ host' = host
  BY PhaseOf DEF HandleMove, HandleH2CData, Capsule, Next1
<1>2. t2h'[c] = <<>> \/ t2h'[c] = t2h[c]
  BY <1>1 DEF HandleMove, HandleH2CData, Sends, LinkInv
<1>3. FaithfulStep(c)
  BY <1>2, QuietStep
<1>4. CarriesOn(c)
  BY <1>1 DEF CarriesOn, Carries
<1>5. QED
  BY <1>3, <1>4

LEMMA TargetStep ==
    ASSUME LinkInv, MoveInv, NEW c \in Conn, Target(c)
    PROVE  /\ CarriesOn(c) /\ FaithfulStep(c)
           /\ (owner' = owner /\ wbuf' = wbuf) \/ owner' \in {c, Nobody}
<1>1. CASE HandleIcReq(c) \/ HandleConnect(c) \/ HandleTermReq(c) \/ HandleClose(c)
  BY <1>1, GreetingCarries, GreetingFaithful
<1>2. CASE HandleRead(c) \/ HandleWriteZeroes(c) \/ HandleOther(c) \/ HandleTooLong(c)
  <2>1. AnswersAtOnce(c)
    BY <1>2, ReadAtOnce, WriteZeroesAtOnce, OtherAtOnce, TooLongAtOnce
  <2>2. CarriesOn(c) /\ FaithfulStep(c)
    BY <2>1, AtOnceCarries, AtOnceFaithful
  <2>3. QED
    BY <2>1, <2>2 DEF AnswersAtOnce
<1>3. CASE HandleMove(c) \/ HandleH2CData(c)
  <2>1. CarriesOn(c) /\ FaithfulStep(c)
    BY <1>3, MoveStep, DataStep, ClosedStep
  <2>2. (owner' = owner /\ wbuf' = wbuf) \/ owner' \in {c, Nobody}
    BY <1>3 DEF HandleMove, HandleH2CData
  <2>3. QED
    BY <2>1, <2>2
<1>4. QED
  BY <1>1, <1>2, <1>3 DEF Target

LEMMA HostStep ==
    ASSUME LinkInv, MoveInv, NEW c \in Conn,
           TcpAccept(c) \/ HostSubmits(c) \/ HostReceives(c) \/ HostCloses(c)
    PROVE  CarriesOn(c) /\ FaithfulStep(c)
<1>1. CarriesOn(c)
  BY OtherHostCarries, SubmitsCarries, ReceivesCarries
<1>2. t2h'[c] \in {<<>>, t2h[c]} \/ (t2h[c] # <<>> /\ t2h'[c] = Tail(t2h[c]))
  BY DEF TcpAccept, HostSubmits, HostReceives, HostCloses, LinkInv
<1>3. QED
  BY <1>1, <1>2, QuietStep

LEMMA MoveNext ==
    ASSUME LinkInv, MoveInv, TcpNext
    PROVE  MoveInv' /\ \A c \in Conn : FaithfulStep(c)
<1>1. PICK c \in Conn : /\ OnlyConn(c) /\ CarriesOn(c) /\ FaithfulStep(c)
                        /\ (owner' = owner /\ wbuf' = wbuf) \/ owner' \in {c, Nobody}
  <2>1. PICK c \in Conn : \/ TcpAccept(c) \/ Target(c)
                          \/ HostSubmits(c) \/ HostReceives(c) \/ HostCloses(c)
    BY DEF TcpNext
  <2>2. CASE Target(c)
    BY <2>2, OnlyTarget, TargetStep
  <2>3. CASE TcpAccept(c) \/ HostSubmits(c) \/ HostReceives(c) \/ HostCloses(c)
    BY <2>3, OnlyHost, HostStep
  <2>4. QED
    BY <2>1, <2>2, <2>3
<1>2. MoveInv'
  BY <1>1, MovedCarries
<1>3. ASSUME NEW d \in Conn PROVE FaithfulStep(d)
  <2>1. CASE d = c
    BY <1>1, <2>1
  <2>2. CASE d # c
    <3>1. t2h'[d] = t2h[d]
      BY <1>1, <2>2 DEF OnlyConn, Moved
    <3>2. QED
      BY <3>1, QuietStep
  <2>3. QED
    BY <2>1, <2>2
<1>4. QED
  BY <1>2, <1>3

LEMMA MoveInit == TcpInit => MoveInv
BY DEF TcpInit, MoveInv, Carries

(* The handlers of capsules and H2C data PDUs gather the data of a write   *)
(* in g_io_write_buf and write it out when total_len has come: a write     *)
(* that is reported as done has put all its data on its pages, unless      *)
(* another transfer used the buffer meanwhile or one of its connection had *)
(* been replaced. How the host and the connections mix commands is free.   *)
THEOREM WritesAreFaithful == TcpSpec => WritesFaithful
<1>1. LinkInv /\ MoveInv /\ [TcpNext]_tcpVars => MoveInv'
  <2>1. CASE UNCHANGED tcpVars
    BY <2>1 DEF tcpVars, MoveInv
  <2>2. CASE TcpNext
    BY <2>2, MoveNext
  <2>3. QED
    BY <2>1, <2>2
<1>2. LinkInv /\ MoveInv /\ [TcpNext]_tcpVars => [\A c \in Conn : FaithfulStep(c)]_tcpVars
  BY MoveNext
<1>3. QED
  BY <1>1, <1>2, MoveInit, LinkAlways, PTL DEF TcpSpec, WritesFaithful, FaithfulStep

=============================================================================

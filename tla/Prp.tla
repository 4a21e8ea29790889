-------------------------------- MODULE Prp --------------------------------
(***************************************************************************)
(* Physical region pages: how the vfio-user and the vhost-user front end   *)
(* find the guest memory of a command's data.  A transfer of len units has *)
(* its first address in prp1; prp2 is the second page, or points to a list *)
(* of all further pages.  A page has PrpPage units.                        *)
(***************************************************************************)
EXTENDS Naturals, FiniteSets, FiniteSetsExt, Sequences

CONSTANTS PrpPage,      \* VFIO_PAGE_SIZE
          Transfers     \* records prp1, prp2, list, len

ASSUME PrpAssumption ==
    /\ PrpPage \in Nat \ {0}
    /\ \A t \in Transfers : {t.prp1, t.prp2, t.len} \subseteq Nat

FirstChunk(t) == PrpPage - (t.prp1 % PrpPage)
Page(addr)    == addr \div PrpPage

NoAddr  == [addr |-> 0, stops |-> TRUE, page |-> 0]
At(a)   == [addr |-> a, stops |-> FALSE, page |-> Page(a)]

(* The address after `pages` pages and `offset` units, with the page that  *)
(* must be mapped to find it; for vfio-user prp2 is a list if the transfer *)
(* needs a third page.                                                     *)
VfioAddr(t, pages, offset) ==
    IF pages = 0 THEN At(t.prp1)
    ELSE IF t.len > FirstChunk(t) + PrpPage
         THEN [At(t.list[pages]) EXCEPT !.page = Page(t.prp2)]
    ELSE IF pages = 1 THEN At(t.prp2) ELSE NoAddr

(* For vhost-user the second page is prp2 in any case.                     *)
VhostAddr(t, pages, offset) ==
    IF pages = 0 THEN At(t.prp1)
    ELSE IF offset = FirstChunk(t) THEN At(t.prp2)
    ELSE IF t.prp2 % PrpPage = 0
         THEN [At(t.list[(offset - FirstChunk(t)) \div PrpPage + 1]) EXCEPT !.page = Page(t.prp2)]
    ELSE NoAddr

(* The loop of prp_read_data and prp_write_data: each round moves the rest *)
(* of a page.  The pairs say which unit of the buffer is at which address. *)
Moves(t, frontEnd, mapped) ==
    LET Addr(pages, offset) == IF frontEnd = "vfio" THEN VfioAddr(t, pages, offset)
                                                    ELSE VhostAddr(t, pages, offset)
        loop[k \in 0..t.len] ==
            IF k = 0 THEN [ret |-> "MORE", offset |-> 0, pairs |-> {}]
            ELSE LET w == loop[k - 1]
                     a == Addr(k - 1, w.offset)
                     n == Min({PrpPage - (a.addr % PrpPage), t.len - w.offset})
                 IN  IF w.ret # "MORE" THEN w
                     ELSE IF a.stops THEN [w EXCEPT !.ret = "OK"]
                     ELSE IF ~({a.page, Page(a.addr)} \subseteq mapped) THEN [w EXCEPT !.ret = "PARAM"]
                     ELSE [ret |-> IF w.offset + n >= t.len THEN "OK" ELSE "MORE",
                           offset |-> w.offset + n,
                           pairs |-> w.pairs \cup {<<w.offset + i, a.addr + i>> : i \in 0..n - 1}]
    IN  loop[t.len]

(* What a buffer, and the guest's memory, hold afterwards.                 *)
prp_read_data(moves, buf, mem) ==
    [i \in DOMAIN buf |-> IF \E a \in DOMAIN mem : <<i, a>> \in moves.pairs
                          THEN mem[CHOOSE a \in DOMAIN mem : <<i, a>> \in moves.pairs]
                          ELSE buf[i]]

prp_write_data(moves, buf, mem) ==
    [a \in DOMAIN mem |-> IF \E i \in DOMAIN buf : <<i, a>> \in moves.pairs
                          THEN buf[CHOOSE i \in DOMAIN buf : <<i, a>> \in moves.pairs]
                          ELSE mem[a]]

-----------------------------------------------------------------------------
(* Where the NVMe host driver keeps unit i of a transfer, when all pages   *)
(* but the first start at a page boundary.                                 *)
Place(t, i) ==
    LET page == (i - FirstChunk(t)) \div PrpPage
        base == IF t.len > FirstChunk(t) + PrpPage THEN t.list[page + 1] ELSE t.prp2
    IN  IF i < FirstChunk(t) THEN t.prp1 + i ELSE base + ((i - FirstChunk(t)) % PrpPage)

Layout(t) == {<<i, Place(t, i)>> : i \in 0..t.len - 1}
Units     == UNION {{m[2] : m \in Layout(t)} : t \in Transfers}
Needed(t) == {Page(m[2]) : m \in Layout(t)}
             \cup (IF t.len > FirstChunk(t) + PrpPage THEN {Page(t.prp2)} ELSE {})
AllPages  == UNION {Needed(t) \cup {Page(t.prp2)} : t \in Transfers}

(* vfio-user: a transfer succeeds exactly when every page it needs is      *)
(* mapped, it then touches the driver's units only, each with its own      *)
(* data, and what is written is read back; a transfer that fails has       *)
(* touched no unit that is not its own.                                    *)
ASSUME VfioTransfersFaithful ==
    \A t \in Transfers : \A mapped \in SUBSET AllPages :
        LET moves == Moves(t, "vfio", mapped)
            buf   == [i \in 0..t.len - 1 |-> i + 1]
            blank == [i \in 0..t.len - 1 |-> 0]
            mem   == [a \in Units |-> 0]
        IN  /\ moves.ret = IF Needed(t) \subseteq mapped THEN "OK" ELSE "PARAM"
            /\ moves.pairs \subseteq Layout(t)
            /\ moves.ret = "OK" =>
                  /\ moves.pairs = Layout(t)
                  /\ prp_read_data(moves, blank, prp_write_data(moves, buf, mem)) = buf

(* vhost-user: so it is for one and two pages; in a longer transfer the    *)
(* second page of the data is put over the list.                           *)
ASSUME VhostTransfersOfTwoPages ==
    \A t \in Transfers :
        LET moves == Moves(t, "vhost", AllPages)
        IN  IF t.len <= FirstChunk(t) + PrpPage THEN moves.pairs = Layout(t)
            ELSE <<FirstChunk(t), t.prp2>> \in moves.pairs
=============================================================================

---------------------------- MODULE LogicalDisk -----------------------------
(***************************************************************************)
(* What the FTL promises its host: an array of logical pages.  A call is   *)
(* accepted, has its effect at one instant, and returns.  A write that     *)
(* returns RET_OK has replaced exactly the page it names, a write that     *)
(* fails has replaced nothing, a read returns what the last effect left    *)
(* there, and nothing else (garbage collection, wear levelling, victim     *)
(* selection) is visible.                                                  *)
(***************************************************************************)
EXTENDS Naturals

CONSTANTS
    Lpn,     \* logical page numbers
    Data,    \* payloads
    Blank,   \* content of a page that was never written, or was trimmed
    RetCode  \* return codes

VARIABLES
    disk,    \* content of each logical page
    op,      \* the call in progress, call = "none" between calls
    done,    \* TRUE once the write in progress had its effect
    reply    \* what the last call returned

diskVars == <<disk, op, done, reply>>

Between == op.call = "none"

DiskInit ==
    /\ disk = [l \in Lpn |-> Blank]
    /\ Between
    /\ ~done

Accept ==
    /\ Between /\ op'.call # "none"
    /\ done' = FALSE
    /\ UNCHANGED <<disk, reply>>

Return(code, d) ==
    /\ op'.call = "none"
    /\ done' = FALSE
    /\ reply' = [ret |-> code, data |-> d]

(* Reads take one step.                                                    *)
Read(l) ==
    /\ Between
    /\ IF disk[l] = Blank THEN Return("NOT_MAPPED", Blank) ELSE Return("OK", disk[l])
    /\ UNCHANGED disk

WriteEffect ==
    /\ op.call = "write" /\ ~done
    /\ disk' = [disk EXCEPT ![op.lpn] = op.data]

WriteTakesEffect == WriteEffect /\ done' /\ UNCHANGED <<op, reply>>

WriteSucceeds ==
    /\ op.call = "write"
    /\ WriteEffect \/ (done /\ UNCHANGED disk)
    /\ Return("OK", Blank)

WriteFails ==
    /\ op.call = "write" /\ ~done
    /\ \E code \in RetCode \ {"OK"} : Return(code, Blank)
    /\ UNCHANGED disk

(* Trims advance page by page and return when the range is done.           *)
TrimPage ==
    /\ op.call = "trim" /\ op.lpn < op.end
    /\ disk' = [disk EXCEPT ![op.lpn] = Blank]
    /\ op' = [op EXCEPT !.lpn = @ + 1]
    /\ UNCHANGED <<done, reply>>

TrimReturns ==
    /\ op.call = "trim" /\ op.lpn = op.end
    /\ Return("OK", Blank)
    /\ UNCHANGED disk

(* Maintenance calls may return anything and change nothing.               *)
MaintenanceReturns ==
    /\ op.call \notin {"write", "trim"}
    /\ \E code \in RetCode \ {"NOT_MAPPED"} : Return(code, Blank)
    /\ UNCHANGED disk

DiskNext ==
    \/ Accept
    \/ \E l \in Lpn : Read(l)
    \/ WriteTakesEffect \/ WriteSucceeds \/ WriteFails
    \/ TrimPage \/ TrimReturns
    \/ MaintenanceReturns

DiskSpec == DiskInit /\ [][DiskNext]_diskVars
=============================================================================

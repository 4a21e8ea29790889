-------------------------------- MODULE Dma --------------------------------
(***************************************************************************)
(* The DMA engine (modules/dma/dma.c) on top of the thread pool            *)
(* (modules/thread/thread.c): a client drives channels, and every transfer *)
(* runs in a thread of its own.                                            *)
(*                                                                         *)
(* A step of a transfer thread is one critical section of the channel's    *)
(* mutex, or the copy between two of them.  The calls of the client read   *)
(* the state of a channel without the mutex, so a call that reads and then *)
(* locks is two steps.  Transfers are counted in chunks of 4096 bytes.     *)
(* A thread identifier is the number of its slot: dma.c never calls        *)
(* thread_destroy, so no slot is used twice.                               *)
(***************************************************************************)
EXTENDS Naturals, FiniteSets, FiniteSetsExt

CONSTANTS
    MaxChannels,    \* DMA_MAX_CHANNELS
    MaxThreads,     \* MAX_THREADS
    Lengths,        \* transfer lengths, in chunks
    Careful         \* the client keeps to one thread per transfer

ASSUME DmaAssumption ==
    /\ MaxChannels \in Nat \ {0} /\ MaxThreads \in Nat \ {0}
    /\ Lengths \subseteq Nat /\ Careful \in BOOLEAN

VARIABLES
    ch,     \* dma_channel_priv_t of each channel
    th,     \* thread_priv_t of each slot, and where its function is
    call    \* the call of the client in progress

vars == <<ch, th, call>>

Channel == 0..MaxChannels - 1
Slot    == 1..MaxThreads

FreeSlot == [state |-> "UNINIT", at |-> "none", chan |-> 0, left |-> 0]
Idle     == [op |-> "none", chan |-> 0, release |-> FALSE]

ChannelType == [state : {"IDLE", "READY", "RUNNING", "PAUSED", "COMPLETE", "ERROR"},
                alloc : BOOLEAN, len : Lengths \cup {0}, done : Nat, tid : {0} \cup Slot]
ThreadType  == [state : {"UNINIT", "READY", "RUNNING", "STOPPED", "ERROR"},
                at : {"none", "claim", "check", "copy", "finish", "exit"},
                chan : Channel, left : Nat]
CallType    == [op : {"none", "pause", "resume", "stop", "join", "wait"},
                chan : Channel, release : BOOLEAN]

-----------------------------------------------------------------------------
(* Threads *)

(* find_free_slot takes the first slot that is not in use.                 *)
FreeSlots == {s \in Slot : th[s].state = "UNINIT"}

(* thread_create, then thread_start: pthread_create may fail.              *)
thread_create(s, c) == [state |-> "READY", at |-> "claim", chan |-> c, left |-> 0]
SpawnFailed(s, c)   == [thread_create(s, c) EXCEPT !.state = "ERROR", !.at = "none"]

(* No thread works for the channel.                                        *)
Quiet(c) == \A s \in Slot : th[s].chan = c => th[s].state \in {"UNINIT", "STOPPED", "ERROR"}

(* Mutant: thread_join does not wait for a thread that has not begun.      *)
BugJoined(s) == th[s].state # "RUNNING"

(* thread_join returns at once for STOPPED and ERROR, else it waits for    *)
(* the wrapper, which makes the thread STOPPED.                            *)
thread_joined(s) == th[s].state \in {"STOPPED", "ERROR"}

-----------------------------------------------------------------------------
(* The client *)

Returns == call' = Idle

(* dma_alloc_channel *)
Alloc ==
    LET free == {c \in Channel : ~ch[c].alloc}
    IN  /\ call = Idle /\ free # {}
        /\ ch' = [ch EXCEPT ![Min(free)].alloc = TRUE, ![Min(free)].state = "IDLE",
                            ![Min(free)].done = 0]
        /\ UNCHANGED <<th, call>>

(* dma_config_channel refuses a RUNNING channel only.                      *)
Config(c, n) ==
    /\ call = Idle /\ ch[c].alloc /\ ch[c].state # "RUNNING"
    /\ Careful => Quiet(c)
    /\ ch' = [ch EXCEPT ![c].state = "READY", ![c].len = n, ![c].done = 0]
    /\ UNCHANGED <<th, call>>

StartsThread(c) ==
    /\ call = Idle /\ ch[c].alloc /\ ch[c].state = "READY"
    /\ Careful => Quiet(c)

(* dma_start_transfer of a READY channel                                   *)
Start(c) ==
    /\ StartsThread(c) /\ FreeSlots # {}
    /\ LET s == Min(FreeSlots)
       IN  /\ ch' = [ch EXCEPT ![c].tid = s]
           /\ \/ th' = [th EXCEPT ![s] = thread_create(s, c)]
              \/ th' = [th EXCEPT ![s] = SpawnFailed(s, c)]
    /\ UNCHANGED call

StartWithoutSlot(c) ==
    /\ StartsThread(c) /\ FreeSlots = {}
    /\ ch' = [ch EXCEPT ![c].tid = 0, ![c].state = "ERROR"]
    /\ UNCHANGED <<th, call>>

(* dma_pause_transfer, and dma_resume_transfer (also by dma_start_transfer *)
(* of a PAUSED channel): the test, and later the assignment.               *)
CallPause(c) ==
    /\ call = Idle /\ ch[c].alloc /\ ch[c].state = "RUNNING"
    /\ call' = [op |-> "pause", chan |-> c, release |-> FALSE]
    /\ UNCHANGED <<ch, th>>

CallResume(c) ==
    /\ call = Idle /\ ch[c].alloc /\ ch[c].state = "PAUSED"
    /\ call' = [op |-> "resume", chan |-> c, release |-> FALSE]
    /\ UNCHANGED <<ch, th>>

PauseOrResume ==
    /\ call.op \in {"pause", "resume"}
    /\ ch' = [ch EXCEPT ![call.chan].state = IF call.op = "pause" THEN "PAUSED" ELSE "RUNNING"]
    /\ Returns /\ UNCHANGED th

(* dma_stop_transfer *)
CallStop(c) ==
    /\ call = Idle /\ ch[c].alloc
    /\ call' = [op |-> "stop", chan |-> c, release |-> FALSE]
    /\ UNCHANGED <<ch, th>>

(* Mutant: a paused transfer is left as it is.                             *)
BugStopped(state) == IF state = "RUNNING" THEN "ERROR" ELSE state

Stopped(state) == IF state \in {"RUNNING", "PAUSED"} THEN "ERROR" ELSE state

StopLocked ==
    /\ call.op = "stop"
    /\ ch' = [ch EXCEPT ![call.chan].state = Stopped(@)]
    /\ call' = [call EXCEPT !.op = "join"]
    /\ UNCHANGED th

(* What dma_free_channel leaves.                                           *)
Released(info) == [info EXCEPT !.alloc = FALSE, !.state = "IDLE"]

(* The end of dma_stop_transfer and dma_wait_complete, and of the          *)
(* dma_free_channel that called dma_stop_transfer.                         *)
Joined ==
    /\ call.op = "join"
    /\ ch[call.chan].tid # 0 => thread_joined(ch[call.chan].tid)
    /\ ch' = [ch EXCEPT ![call.chan] =
                 LET joined == [@ EXCEPT !.tid = 0]
                 IN  IF call.release THEN Released(joined) ELSE joined]
    /\ Returns /\ UNCHANGED th

(* dma_wait_complete: the loop polls the state without the mutex.          *)
CallWait(c) ==
    /\ call = Idle /\ ch[c].alloc
    /\ call' = [op |-> "wait", chan |-> c, release |-> FALSE]
    /\ UNCHANGED <<ch, th>>

InProgress(c) == ch[c].state \in {"READY", "RUNNING", "PAUSED"}

WaitEnds ==
    /\ call.op = "wait"
    /\ \/ ~InProgress(call.chan) /\ call' = [call EXCEPT !.op = "join"]
       \/ InProgress(call.chan) /\ Returns      \* RET_ERR_TIMEOUT
    /\ UNCHANGED <<ch, th>>

(* dma_free_channel: a channel in transfer is stopped first.               *)
CallFree(c) ==
    /\ call = Idle /\ ch[c].alloc
    /\ \/ /\ ch[c].state \in {"RUNNING", "PAUSED"}
          /\ call' = [op |-> "stop", chan |-> c, release |-> TRUE]
          /\ UNCHANGED ch
       \/ /\ ch[c].state \notin {"RUNNING", "PAUSED"}
          /\ Careful => Quiet(c)
          /\ ch' = [ch EXCEPT ![c] = Released(@)]
          /\ UNCHANGED call
    /\ UNCHANGED th

Client ==
    \/ PauseOrResume \/ StopLocked \/ Joined \/ WaitEnds

-----------------------------------------------------------------------------
(* dma_transfer_thread in slot s, run by thread_wrapper *)

Goes(s, pc) == th' = [th EXCEPT ![s].at = pc]

Claim(s) ==
    /\ th[s].at = "claim"
    /\ LET c == th[s].chan
       IN  IF ch[c].state = "READY"
           THEN /\ ch' = [ch EXCEPT ![c].state = "RUNNING", ![c].done = 0]
                /\ th' = [th EXCEPT ![s].state = "RUNNING", ![s].left = ch[c].len,
                                    ![s].at = IF ch[c].len = 0 THEN "finish" ELSE "check"]
           ELSE /\ th' = [th EXCEPT ![s].state = "RUNNING", ![s].at = "exit"]
                /\ UNCHANGED ch
    /\ UNCHANGED call

(* A paused thread sleeps and looks again.                                 *)
Check(s) ==
    /\ th[s].at = "check" /\ ch[th[s].chan].state # "PAUSED"
    /\ Goes(s, IF ch[th[s].chan].state = "RUNNING" THEN "copy" ELSE "finish")
    /\ UNCHANGED <<ch, call>>

(* memcpy of one chunk, then transferred += under the mutex.               *)
Copy(s) ==
    /\ th[s].at = "copy"
    /\ ch' = [ch EXCEPT ![th[s].chan].done = @ + 1]
    /\ th' = [th EXCEPT ![s].left = @ - 1,
                        ![s].at = IF th[s].left = 1 THEN "finish" ELSE "check"]
    /\ UNCHANGED call

(* Mutant: an aborted transfer is reported as complete.                    *)
BugFinalState(state) == IF state \in {"RUNNING", "ERROR"} THEN "COMPLETE" ELSE state

(* Any state but RUNNING counts as an abort.                               *)
FinalState(state) == IF state = "RUNNING" THEN "COMPLETE" ELSE state

(* The last critical section; the callback runs in the middle of it with   *)
(* the mutex released.                                                     *)
Finish(s) ==
    /\ th[s].at = "finish"
    /\ ch' = [ch EXCEPT ![th[s].chan].state = FinalState(@)]
    /\ Goes(s, "exit")
    /\ UNCHANGED call

Exit(s) ==
    /\ th[s].at = "exit"
    /\ th' = [th EXCEPT ![s].state = "STOPPED", ![s].at = "none"]
    /\ UNCHANGED <<ch, call>>

Transfer(s) == Claim(s) \/ Check(s) \/ Copy(s) \/ Finish(s) \/ Exit(s)

-----------------------------------------------------------------------------
(* dma_init, with thread_manager_init *)
Init ==
    /\ ch = [c \in Channel |-> [state |-> "IDLE", alloc |-> FALSE, len |-> 0, done |-> 0, tid |-> 0]]
    /\ th = [s \in Slot |-> FreeSlot]
    /\ call = Idle

Next ==
    \/ Alloc \/ Client
    \/ \E c \in Channel :
          \/ \E n \in Lengths : Config(c, n)
          \/ Start(c) \/ StartWithoutSlot(c) \/ CallFree(c)
          \/ CallPause(c) \/ CallResume(c) \/ CallStop(c) \/ CallWait(c)
    \/ \E s \in Slot : Transfer(s)

(* The operating system runs every thread that is not waiting; the client  *)
(* need not make another call, but the one it makes goes on.               *)
Spec == Init /\ [][Next]_vars /\ WF_vars(Client) /\ \A s \in Slot : WF_vars(Transfer(s))

-----------------------------------------------------------------------------
TypeOK ==
    /\ ch \in [Channel -> ChannelType]
    /\ th \in [Slot -> ThreadType]
    /\ call \in CallType

(* No thread writes to the buffer of a transfer that is over for the       *)
(* client: as long as one copies, the channel is allocated and names it,   *)
(* so dma_stop_transfer, dma_wait_complete and dma_free_channel, which     *)
(* join that thread, have not returned.                                    *)
NoLateCopy ==
    \A s \in Slot : th[s].at = "copy" =>
        ch[th[s].chan].alloc /\ ch[th[s].chan].tid = s

(* COMPLETE means that every chunk of the configured transfer was copied,  *)
(* whatever stops, pauses and resumptions raced with the thread.           *)
CompleteIsWhole ==
    \A c \in Channel : ch[c].state = "COMPLETE" => ch[c].done = ch[c].len

(* dma_stop_transfer, dma_free_channel and dma_wait_complete end: the join *)
(* never waits for a thread that waits for the client.                     *)
CallsEnd == call # Idle ~> call = Idle

=============================================================================

------------------------------ MODULE MsgQueue ------------------------------
(***************************************************************************)
(* The message queues of ipc/msg_queue.c: one list per firmware module,    *)
(* kept in order of priority, with a bound set when it is initialised.     *)
(*                                                                         *)
(* A list is a sequence of messages, its head first.  size is max_size, 0  *)
(* for a queue that is not initialised; count is the length of the list.   *)
(* The identifier and the time stamp of a message are never read and are   *)
(* left out.                                                               *)
(***************************************************************************)
EXTENDS Naturals, Sequences

CONSTANTS
    Module,     \* module_id_t
    Priority,   \* msg_priority_t, a larger number is more urgent
    MsgType     \* msg_type_t

ASSUME MsgAssumption == Priority \subseteq Nat /\ Priority # {}

VARIABLE queues

Message   == [type : MsgType, prio : Priority, src : Module]
QueueType == [Module -> [size : Nat, msgs : Seq(Message)]]

NotInit == [size |-> 0, msgs |-> <<>>]

-----------------------------------------------------------------------------
(* A call that is refused (NOT_INIT, NO_SPACE, BUSY) changes nothing.      *)

msg_queue_init(q, m, size) == [q EXCEPT ![m] = [size |-> size, msgs |-> <<>>]]

msg_queue_deinit(q, m) == [q EXCEPT ![m] = NotInit]

msg_queue_get_count(q, m) == Len(q[m].msgs)

CanSend(q, dst) == q[dst].size > 0 /\ Len(q[dst].msgs) < q[dst].size

(* Mutant: the search for the place stops at a message of equal priority.  *)
BugPlace(s, msg) ==
    CHOOSE i \in 0..Len(s) :
        /\ \A j \in 1..i : s[j].prio > msg.prio
        /\ i = Len(s) \/ s[i + 1].prio <= msg.prio

(* Number of messages the new one is put behind.                           *)
Place(s, msg) ==
    CHOOSE i \in 0..Len(s) :
        /\ \A j \in 1..i : s[j].prio >= msg.prio
        /\ i = Len(s) \/ s[i + 1].prio < msg.prio

Inserted(s, msg) ==
    LET i == Place(s, msg)
    IN  SubSeq(s, 1, i) \o <<msg>> \o SubSeq(s, i + 1, Len(s))

msg_queue_send(q, dst, msg) ==
    IF CanSend(q, dst) THEN [q EXCEPT ![dst].msgs = Inserted(@, msg)] ELSE q

(* The head of the list leaves it; the caller is given Head(q[m].msgs).    *)
msg_queue_recv(q, m) ==
    IF msg_queue_get_count(q, m) > 0 THEN [q EXCEPT ![m].msgs = Tail(@)] ELSE q

-----------------------------------------------------------------------------
(* The messages of one priority, in the order they will be received.       *)
Longer(lane, msg, p) == IF msg.prio = p THEN Append(lane, msg) ELSE lane

LaneOf(s, p) ==
    LET lane[i \in 0..Len(s)] == IF i = 0 THEN <<>> ELSE Longer(lane[i - 1], s[i], p)
    IN  lane[Len(s)]

Lane(m, p) == LaneOf(queues[m].msgs, p)

MostUrgentFirst ==
    \A m \in Module : \A i, j \in 1..Len(queues[m].msgs) :
        i < j => queues[m].msgs[i].prio >= queues[m].msgs[j].prio

(* Some messages of the lane were received, then at most one was sent.     *)
LaneMoves(old, new) ==
    \/ new \in {<<>>, old}
    \/ \E k \in 0..Len(old) :
           LET kept == SubSeq(old, k + 1, Len(old))
           IN  \/ new = kept
               \/ Len(new) = Len(kept) + 1 /\ SubSeq(new, 1, Len(kept)) = kept

(* The list hands out the most urgent message first, whatever the order of *)
(* the calls of msg_queue_send, and messages of one priority form a        *)
(* first-in first-out queue of their own: an insertion never overtakes an  *)
(* older message of the same priority, and only the head of the list       *)
(* leaves.                                                                 *)
DeliveredInOrder ==
    /\ []MostUrgentFirst
    /\ [][\A m \in Module, p \in Priority : LaneMoves(Lane(m, p), Lane(m, p)')]_queues
=============================================================================

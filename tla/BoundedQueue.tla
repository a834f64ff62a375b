---------------------------- MODULE BoundedQueue ----------------------------
(***************************************************************************)
(* What the queue of src/queue.h promises its callers: a bounded FIFO      *)
(* whose operations take effect at one instant between call and return.    *)
(* A fresh queue is not empty: it holds one entry nobody put there, the    *)
(* content of an uninitialised array element (head = 0, tail = -1).        *)
(***************************************************************************)
EXTENDS Integers, Sequences

CONSTANTS Capacity, Threads, Items, NULL, Uninit, BatchArgs

VARIABLES
  buffer,     \* the entries, oldest first
  destroyed,
  phase,      \* "idle", "called" or "done": effect taken, about to return
  op, args, next,
  reply       \* the value dequeue or peek_queue is about to return

vars == <<buffer, destroyed, phase, op, args, next, reply>>

Putting == {"enqueue", "enqueue_batch"}

Init ==
  /\ buffer \in {<<u>> : u \in Uninit}
  /\ destroyed = FALSE
  /\ phase = [t \in Threads |-> "idle"]
  /\ op = [t \in Threads |-> "none"]
  /\ args = [t \in Threads |-> <<>>]
  /\ next = [t \in Threads |-> 1]
  /\ reply = [t \in Threads |-> NULL]

Invoke(t, f, a) ==
  /\ phase[t] = "idle"
  /\ ~destroyed
  /\ phase' = [phase EXCEPT ![t] = "called"]
  /\ op' = [op EXCEPT ![t] = f]
  /\ args' = [args EXCEPT ![t] = a]
  /\ UNCHANGED <<buffer, destroyed, next, reply>>

Return(t) ==
  /\ phase[t] = "done"
  /\ phase' = [phase EXCEPT ![t] = "idle"]
  /\ op' = [op EXCEPT ![t] = "none"]
  /\ args' = [args EXCEPT ![t] = <<>>]
  /\ next' = [next EXCEPT ![t] = 1]
  /\ reply' = [reply EXCEPT ![t] = NULL]
  /\ UNCHANGED <<buffer, destroyed>>

\* One item goes to the end of the queue; NULL is accepted and goes nowhere.
Put(t) ==
  /\ phase[t] = "called"
  /\ op[t] \in Putting
  /\ next[t] <= Len(args[t])
  /\ Len(buffer) < Capacity - 1
  /\ buffer' = IF args[t][next[t]] = NULL
               THEN buffer ELSE Append(buffer, args[t][next[t]])
  /\ next' = [next EXCEPT ![t] = @ + 1]
  /\ UNCHANGED <<destroyed, phase, op, args, reply>>

\* Nothing is left to put, or the queue is full, or a batch meets NULL.
PutEnd(t) ==
  /\ phase[t] = "called"
  /\ op[t] \in Putting
  /\ next[t] > Len(args[t]) \/ Len(buffer) = Capacity - 1
     \/ (op[t] = "enqueue_batch" /\ args[t][next[t]] = NULL)
  /\ phase' = [phase EXCEPT ![t] = "done"]
  /\ UNCHANGED <<buffer, destroyed, op, args, next, reply>>

\* enqueue_batch of a null array has no effect on the queue's content.
PutNothing(t) ==
  /\ phase[t] = "called"
  /\ op[t] = "enqueue_null_array"
  /\ phase' = [phase EXCEPT ![t] = "idle"]
  /\ op' = [op EXCEPT ![t] = "none"]
  /\ UNCHANGED <<buffer, destroyed, args, next, reply>>

Take(t) ==
  /\ phase[t] = "called"
  /\ op[t] = "dequeue"
  /\ buffer # <<>>
  /\ buffer' = Tail(buffer)
  /\ reply' = [reply EXCEPT ![t] = Head(buffer)]
  /\ phase' = [phase EXCEPT ![t] = "done"]
  /\ UNCHANGED <<destroyed, op, args, next>>

Look(t) ==
  /\ phase[t] = "called"
  /\ op[t] = "peek_queue"
  /\ buffer # <<>>
  /\ reply' = [reply EXCEPT ![t] = Head(buffer)]
  /\ phase' = [phase EXCEPT ![t] = "done"]
  /\ UNCHANGED <<buffer, destroyed, op, args, next>>

FindEmpty(t) ==
  /\ phase[t] = "called"
  /\ op[t] \in {"dequeue", "peek_queue"}
  /\ buffer = <<>>
  /\ phase' = [phase EXCEPT ![t] = "done"]
  /\ UNCHANGED <<buffer, destroyed, op, args, next, reply>>

\* destroy_queue empties the queue and then frees it.
Drain(t) ==
  /\ phase[t] = "called"
  /\ op[t] = "destroy_queue"
  /\ buffer # <<>>
  /\ buffer' = Tail(buffer)
  /\ UNCHANGED <<destroyed, phase, op, args, next, reply>>

Destroy(t) ==
  /\ phase[t] = "called"
  /\ op[t] = "destroy_queue"
  /\ buffer = <<>>
  /\ destroyed' = TRUE
  /\ phase' = [phase EXCEPT ![t] = "idle"]
  /\ op' = [op EXCEPT ![t] = "none"]
  /\ UNCHANGED <<buffer, args, next, reply>>

Calls(t) ==
  \/ \E x \in Items \cup {NULL} : Invoke(t, "enqueue", <<x>>)
  \/ \E a \in BatchArgs \ {NULL} : Invoke(t, "enqueue_batch", a)
  \/ \E f \in {"enqueue_null_array", "dequeue", "peek_queue", "destroy_queue"} :
       Invoke(t, f, <<>>)

Next == \E t \in Threads :
  \/ Calls(t) \/ Return(t)
  \/ Put(t) \/ PutEnd(t) \/ PutNothing(t)
  \/ Take(t) \/ Look(t) \/ FindEmpty(t)
  \/ Drain(t) \/ Destroy(t)

Spec == Init /\ [][Next]_vars
=============================================================================

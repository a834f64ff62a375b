----------------------------- MODULE QueueClaims -----------------------------
(***************************************************************************)
(* What the comments of src/queue.h and the programs that offer the        *)
(* capacity as an option say of the queue, for every capacity, array       *)
(* content and argument.                                                   *)
(***************************************************************************)
EXTENDS Queue

\* "If queue is empty, return NULL" (queue.h:185, 209): a queue gives out
\* only items somebody put in.
DequeueGivesItemOrNull ==
  \A t \in Threads : pc[t] = "dunlock" => got[t] \in Items \cup {NULL}

\* "Add item to queue" (queue.h:124): adding an item never writes over an
\* item that is still in the array; only a dequeuer empties its slot.
NothingOverwritten ==
  [][\A k \in Slots : items[k] \in Items => items'[k] \in {items[k], NULL}]_vars
=============================================================================

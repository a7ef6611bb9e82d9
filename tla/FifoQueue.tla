------------------------------ MODULE FifoQueue ------------------------------
(***************************************************************************)
(* What users of the concurrent queue rely on, for the elements of one     *)
(* producing thread: they come out in the order they went in, each to one  *)
(* consumer, each once.  Elements are numbered in the order of enqueues,   *)
(* modulo IndexMod.                                                        *)
(***************************************************************************)
EXTENDS Naturals, Sequences

CONSTANTS Consumers, IndexMod, None

VARIABLES
  fifo,  \* the elements in the queue
  next,  \* the number of the next element
  out    \* per consumer, the element it was given and has not carried off

fifoVars == << fifo, next, out >>

FifoInit == fifo = <<>> /\ next = 0 /\ out = [c \in Consumers |-> None]

Enqueue ==
  /\ next' = (next + 1) % IndexMod
  /\ fifo' = Append(fifo, next)
  /\ UNCHANGED out

Dequeue(c) ==
  /\ UNCHANGED next
  /\ out[c] = None /\ fifo # <<>>
  /\ fifo' = Tail(fifo)
  /\ out' = [out EXCEPT ![c] = Head(fifo)]

CarryOff(c) ==
  /\ out[c] # None
  /\ out' = [out EXCEPT ![c] = None]
  /\ UNCHANGED << fifo, next >>

FifoNext == Enqueue \/ \E c \in Consumers : Dequeue(c) \/ CarryOff(c)

FifoSpec == FifoInit /\ [][FifoNext]_fifoVars
=============================================================================

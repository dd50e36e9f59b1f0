----------------------------- MODULE FifoQueue -----------------------------
(***************************************************************************)
(* What the queue of src/thread_safe promises its users: one sequence of   *)
(* values, put in and taken out at single instants, that answers "empty"   *)
(* only when it is.                                                        *)
(***************************************************************************)
EXTENDS Sequences

CONSTANTS Value,    \* what is queued
          Consumer, \* the threads that take from the queue
          Empty,    \* the answer of a try_pop that finds no value
          None      \* a consumer has no answer yet

VARIABLES queue, answer

fifoVars == <<queue, answer>>

FifoInit == queue = <<>> /\ answer = [c \in Consumer |-> None]

Put == \E v \in Value : queue' = Append(queue, v) /\ UNCHANGED answer

Take(c) ==
  /\ queue # <<>> /\ answer[c] = None
  /\ answer' = [answer EXCEPT ![c] = Head(queue)]
  /\ queue' = Tail(queue)

FindEmpty(c) ==
  /\ queue = <<>> /\ answer[c] = None
  /\ answer' = [answer EXCEPT ![c] = Empty]
  /\ UNCHANGED queue

\* The consumer has its answer and goes on.
Leave(c) ==
  /\ answer[c] # None
  /\ answer' = [answer EXCEPT ![c] = None]
  /\ UNCHANGED queue

FifoNext == Put \/ \E c \in Consumer : Take(c) \/ FindEmpty(c) \/ Leave(c)

FifoSpec == FifoInit /\ [][FifoNext]_fifoVars
=============================================================================

----------------------------- MODULE LossyQueue -----------------------------
(***************************************************************************)
(* What the keyboard queue promises: a bounded queue that forgets its      *)
(* oldest element when it is full.  What is pushed during a flush may be   *)
(* flushed too.                                                            *)
(***************************************************************************)
EXTENDS Naturals, Sequences

CONSTANTS Element, Capacity

VARIABLES
  queue,
  flushing,
  output,    \* the last element popped
  tick       \* changes at each push, so that one that is lost is seen

queueVars == <<queue, flushing, output, tick>>

Added(q, s) == Append(IF Len(q) < Capacity THEN q ELSE Tail(q), s)

Push(s) ==
  /\ tick' = 1 - tick
  /\ queue' = Added(queue, s) \/ (flushing /\ queue' = queue)
  /\ UNCHANGED <<flushing, output>>

Pop ==
  /\ ~flushing
  /\ queue # <<>>
  /\ output' = Head(queue)
  /\ queue' = Tail(queue)
  /\ UNCHANGED <<flushing, tick>>

BeginFlush ==
  /\ ~flushing
  /\ flushing' = TRUE
  /\ queue' = <<>>
  /\ UNCHANGED <<output, tick>>

EndFlush ==
  /\ flushing
  /\ flushing' = FALSE
  /\ UNCHANGED <<queue, output, tick>>

QueueInit ==
  /\ queue = <<>>
  /\ flushing = FALSE
  /\ output \in Element
  /\ tick = 0

QueueNext ==
  \/ \E s \in Element : Push(s)
  \/ Pop \/ BeginFlush \/ EndFlush

QueueSpec == QueueInit /\ [][QueueNext]_queueVars

=============================================================================

--------------------------- MODULE KeyboardQueue ---------------------------
(***************************************************************************)
(* The queue between the scan of the keyboard and the event loop           *)
(* (shared/ion/src/shared/keyboard_queue.cpp, omg/ring_buffer.h).          *)
(*                                                                         *)
(* A push runs in an interruption of high priority: it happens at once,    *)
(* between any two instructions of a pop or a reset.  These announce       *)
(* themselves with m_busy; a push then puts its state in m_pushedWhileBusy *)
(* and leaves it to them.  But m_busy is an ordinary member, which nothing *)
(* reads between its two assignments in queuePop or in reset: a compiler   *)
(* may remove the first (GCC does, with -Os).  StoresBusy says whether it  *)
(* is there.                                                               *)
(***************************************************************************)
EXTENDS Integers, Sequences

CONSTANTS
  State,          \* states of the keyboard
  Zero,           \* the state with no key down
  NoState,        \* State(-1)
  N,              \* the capacity of the ring
  StoresBusy,     \* m_busy = true is compiled in queuePop and reset
  PushesDuringOp  \* bound: interruptions during one pop or reset

ASSUME QueueAssumption ==
  /\ Zero \in State /\ NoState \notin State
  /\ N \in Nat \ {0}
  /\ StoresBusy \in BOOLEAN
  /\ PushesDuringOp \in Nat

VARIABLES
  ring,    \* m_buffer: m_stack, m_start, m_length
  busy,    \* m_busy
  aside,   \* m_pushedWhileBusy
  call,    \* the pop or reset under way, its next instruction and its registers
  during,  \* history: what was pushed since it began
  tick     \* history: changes at each push

vars == <<ring, busy, aside, call, during, tick>>

Steps == {"idle", "take", "store", "empty", "release", "check", "read", "clear", "push", "ring", "forget"}

TypeOK ==
  /\ ring \in [stack : [0..N - 1 -> State], start : 0..N - 1, length : 0..N]
  /\ busy \in BOOLEAN
  /\ aside \in State \cup {NoState}
  /\ call \in [step : Steps, op : {"pop", "reset"}, result : State, state : State \cup {NoState},
               start : 0..N - 1, length : 0..N, todo : SUBSET {"start", "length"}]
  /\ during \in Seq(State) /\ Len(during) <= PushesDuringOp
  /\ tick \in {0, 1}

-----------------------------------------------------------------------------
(* The ring *)

ContentsFrom(start, length) ==
  [i \in 1..length |-> ring.stack[(start + i - 1) % N]]
Contents == ContentsFrom(ring.start, ring.length)

\* Mutant: forgets the newest instead of the oldest
RingPushDropsNewest(r, s) ==
  IF r.length = N THEN r
  ELSE [r EXCEPT !.stack[(r.start + r.length) % N] = s, !.length = @ + 1]
\* A full ring forgets its oldest element.
RingPush(r, s) ==
  [stack |-> [r.stack EXCEPT ![(r.start + r.length) % N] = s],
   start |-> IF r.length < N THEN r.start ELSE (r.start + 1) % N,
   length |-> IF r.length < N THEN r.length + 1 ELSE N]

-----------------------------------------------------------------------------
(* The interruption: all of push, and of the handleBusyState it calls *)

SetAside(s) ==
  /\ busy
  /\ aside' = s
  /\ UNCHANGED ring

Pushed(s) ==
  /\ ~busy
  /\ ring' = IF aside = NoState THEN RingPush(ring, s) ELSE RingPush(RingPush(ring, s), aside)
  /\ aside' = NoState

Push(s) ==
  /\ call.step # "idle" => Len(during) < PushesDuringOp
  /\ SetAside(s) \/ Pushed(s)
  /\ during' = IF call.step = "idle" THEN during ELSE Append(during, s)
  /\ tick' = 1 - tick
  /\ UNCHANGED <<busy, call>>

-----------------------------------------------------------------------------
(* queuePop, one instruction after the other *)

Goto(step) == call' = [call EXCEPT !.step = step]

\* popState pops only if the queue is not empty.
PopBegin ==
  /\ call.step = "idle"
  /\ ring.length > 0
  /\ busy' = StoresBusy
  /\ call' = [call EXCEPT !.step = "take", !.op = "pop"]
  /\ during' = <<>>
  /\ UNCHANGED <<ring, aside, tick>>

Take ==
  /\ call.step = "take"
  /\ call' = [call EXCEPT !.step = "store", !.result = ring.stack[ring.start], !.start = ring.start,
                          !.length = ring.length, !.todo = {"start", "length"}]
  /\ UNCHANGED <<ring, busy, aside, during, tick>>

Stored(member) ==
  /\ call.step = "store"
  /\ member \in call.todo
  /\ call' = [call EXCEPT !.todo = @ \ {member},
                          !.step = IF call.todo = {member} THEN "release" ELSE "store"]
  /\ UNCHANGED <<busy, aside, during, tick>>

\* The compiler chooses the order of the two.
StoreStart == Stored("start") /\ ring' = [ring EXCEPT !.start = (call.start + 1) % N]
StoreLength == Stored("length") /\ ring' = [ring EXCEPT !.length = call.length - 1]

Release ==
  /\ call.step = "release"
  /\ busy' = FALSE
  /\ Goto(IF call.op = "reset" THEN "forget" ELSE "check")
  /\ UNCHANGED <<ring, aside, during, tick>>

-----------------------------------------------------------------------------
(* handleBusyState, and the push it may do *)

\* Mutant: handleBusyState does nothing
CheckNothing ==
  /\ call.step = "check"
  /\ Goto("idle")
  /\ UNCHANGED <<ring, busy, aside, during, tick>>
Check ==
  /\ call.step = "check"
  /\ Goto(IF aside = NoState THEN "idle" ELSE "read")
  /\ UNCHANGED <<ring, busy, aside, during, tick>>

ReadAside ==
  /\ call.step = "read"
  /\ call' = [call EXCEPT !.step = "clear", !.state = aside]
  /\ UNCHANGED <<ring, busy, aside, during, tick>>

ClearAside ==
  /\ call.step = "clear"
  /\ aside' = NoState
  /\ Goto("push")
  /\ UNCHANGED <<ring, busy, during, tick>>

PushBegin ==
  /\ call.step = "push"
  /\ busy' = TRUE
  /\ Goto("ring")
  /\ UNCHANGED <<ring, aside, during, tick>>

PushRing ==
  /\ call.step = "ring"
  /\ ring' = RingPush(ring, call.state)
  /\ Goto("release")
  /\ UNCHANGED <<busy, aside, during, tick>>

-----------------------------------------------------------------------------
(* reset *)

ResetBegin ==
  /\ call.step = "idle"
  /\ busy' = StoresBusy
  /\ call' = [call EXCEPT !.step = "empty", !.op = "reset"]
  /\ during' = <<>>
  /\ UNCHANGED <<ring, aside, tick>>

Empty ==
  /\ call.step = "empty"
  /\ ring' = [ring EXCEPT !.length = 0]
  /\ Goto("release")
  /\ UNCHANGED <<busy, aside, during, tick>>

Forget ==
  /\ call.step = "forget"
  /\ aside' = NoState
  /\ Goto("idle")
  /\ UNCHANGED <<ring, busy, during, tick>>

-----------------------------------------------------------------------------

Init ==
  /\ ring = [stack |-> [i \in 0..N - 1 |-> Zero], start |-> 0, length |-> 0]
  /\ busy = FALSE
  /\ aside = NoState
  /\ call = [step |-> "idle", op |-> "pop", result |-> Zero, state |-> Zero,
             start |-> 0, length |-> 0, todo |-> {}]
  /\ during = <<>>
  /\ tick = 0

\* The rest of a call that has begun.
Continue ==
  \/ Take \/ StoreStart \/ StoreLength \/ Release
  \/ Check \/ ReadAside \/ ClearAside \/ PushBegin \/ PushRing
  \/ Empty \/ Forget

Next ==
  \/ \E s \in State : Push(s)
  \/ PopBegin \/ ResetBegin \/ Continue

\* An interruption returns, and what it interrupted goes on.
Spec == Init /\ [][Next]_vars /\ WF_vars(Continue)

-----------------------------------------------------------------------------
(* Properties *)

\* Between two operations nothing is left aside and the queue accepts pushes.
RestIsClean == call.step = "idle" => ~busy /\ aside = NoState

\* What is put aside does not stay there: it is "pushed later when the original
\* operation completes" (keyboard_queue.h:36).
AsideIsPushed == aside # NoState ~> aside = NoState

\* The queue is a bounded queue that forgets its oldest element.  A pop takes
\* effect when it begins, and so does a reset.
Pending == IF aside = NoState THEN <<>> ELSE <<aside>>

Queued ==
  CASE call.step = "idle" -> Contents
    [] call.step = "take" -> Tail(Contents) \o Pending
    [] call.step = "store" -> Tail(ContentsFrom(call.start, call.length)) \o Pending
    [] call.step \in {"push", "ring"} -> Append(Contents, call.state)
    [] call.step \in {"release", "check", "read", "clear"} /\ call.op = "pop" -> Contents \o Pending
    [] call.step \in {"empty", "release"} /\ call.op = "reset" -> <<>>
    [] call.step = "forget" -> Contents

Lossy == INSTANCE LossyQueue WITH
  Element <- State, Capacity <- N, queue <- Queued,
  flushing <- call.op = "reset" /\ call.step # "idle",
  output <- IF call.step = "take" THEN ring.stack[ring.start] ELSE call.result
ImplementsLossyQueue == Lossy!QueueSpec

=============================================================================

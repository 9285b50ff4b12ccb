--------------------------- MODULE KeyboardProofs ---------------------------
(***************************************************************************)
(* What comes of the keys that are held.                                   *)
(*                                                                         *)
(* First the queue of the states of the keyboard, which stays well formed  *)
(* for any capacity, in a build that keeps m_busy as in one that does not, *)
(* provided an operation is interrupted at most once.  A build that keeps  *)
(* m_busy is a lossy queue.                                                *)
(*                                                                         *)
(* Then the events of the web simulator, for every set of keys, of         *)
(* shortcuts and of hands, and every length of the queue: a shortcut that  *)
(* fires once per press does so, an event of a press answers a press, and  *)
(* a scan that leaves the queue empty shows what was released.  The first  *)
(* holds because the shortcuts look at the keyboard themselves.  The       *)
(* second counts the times a key goes down from one state of the queue to  *)
(* the next: forgetting a state never adds one.  The third compares the    *)
(* last state with what the next scan will see.                            *)
(***************************************************************************)
EXTENDS KeyboardQueue, KeyEvents, SequenceTheorems, WellFoundedInduction, TLAPS

-----------------------------------------------------------------------------
(* The queue *)

\* The steps at which m_busy is not set.
Unmarked == {"idle", "check", "read", "clear", "push", "forget"}

\* What is put aside was pushed during the operation, which will see it.
AsideOK ==
  /\ call.step \in Unmarked => ~busy
  /\ call.step = "idle" => aside = NoState
  /\ call.step \in {"read", "clear"} => aside # NoState
  /\ aside # NoState => Len(during) > 0
  /\ call.step \in {"clear", "push", "ring"} => call.state \in State

\* A pop has something to pop.
PopOK ==
  /\ call.step = "take" => ring.length > 0
  /\ call.step = "store" => call.length > 0

IInv == TypeOK /\ AsideOK /\ PopOK

RingType == [stack : [0..N - 1 -> State], start : 0..N - 1, length : 0..N]
CallType == [step : Steps, op : {"pop", "reset"}, result : State, state : State \cup {NoState},
             start : 0..N - 1, length : 0..N, todo : SUBSET {"start", "length"}]

LEMMA Modulo ==
  ASSUME NEW i \in Nat
  PROVE  i % N \in 0..N - 1
  BY QueueAssumption

LEMMA RingPushType ==
  ASSUME NEW r \in RingType, NEW s \in State
  PROVE  RingPush(r, s) \in RingType /\ RingPush(r, s).length > 0
<1>0. /\ r.stack \in [0..N - 1 -> State] /\ r.start \in 0..N - 1 /\ r.length \in 0..N
      /\ N \in Nat \ {0}
  BY QueueAssumption DEF RingType
<1>1. (r.start + r.length) % N \in 0..N - 1 /\ (r.start + 1) % N \in 0..N - 1
  <2>1. r.start + r.length \in Nat /\ r.start + 1 \in Nat
    BY <1>0
  <2> QED
    BY <2>1, Modulo
<1>2. [r.stack EXCEPT ![(r.start + r.length) % N] = s] \in [0..N - 1 -> State]
  BY <1>0, <1>1
<1> QED
  BY <1>0, <1>1, <1>2 DEF RingPush, RingType

LEMMA InitInvariant == Init => IInv
<1> SUFFICES ASSUME Init PROVE IInv
  OBVIOUS
<1>1. N \in Nat \ {0} /\ Zero \in State /\ PushesDuringOp \in Nat
  BY QueueAssumption
<1>2. ring \in RingType
  BY <1>1 DEF Init, RingType
<1>3. call \in CallType
  BY <1>1 DEF Init, CallType, Steps
<1>4. TypeOK
  BY <1>1, <1>2, <1>3 DEF Init, TypeOK, RingType, CallType
<1> QED
  BY <1>4 DEF Init, IInv, AsideOK, PopOK

LEMMA PushKeeps ==
  ASSUME IInv, PushesDuringOp <= 1, NEW s \in State, Push(s)
  PROVE  IInv'
<1>1. /\ ring \in RingType /\ call \in CallType /\ call' = call /\ busy' = busy /\ busy \in BOOLEAN
      /\ during \in Seq(State) /\ Len(during) <= PushesDuringOp
      /\ aside \in State \cup {NoState} /\ tick' \in {0, 1}
  BY DEF IInv, TypeOK, RingType, CallType, Push
<1>2. call.step # "idle" => Len(during) = 0 /\ aside = NoState
  BY <1>1, QueueAssumption DEF Push, IInv, AsideOK
<1>3. aside = NoState
  BY <1>2 DEF IInv, AsideOK
<1>4. /\ ring' \in RingType
      /\ ring'.length >= ring.length \/ ring'.length > 0
      /\ aside' = IF busy THEN s ELSE NoState
  <2>1. CASE SetAside(s)
    BY <1>1, <2>1 DEF SetAside, RingType
  <2>2. CASE Pushed(s)
    <3>1. ring' = RingPush(ring, s) /\ aside' = NoState /\ ~busy
      BY <1>3, <2>2 DEF Pushed
    <3> QED
      BY <1>1, <3>1, RingPushType
  <2> QED
    BY <2>1, <2>2 DEF Push
<1>5. during' \in Seq(State) /\ Len(during') <= PushesDuringOp /\ (call.step # "idle" => Len(during') > 0)
  <2>1. CASE call.step = "idle"
    BY <1>1, <2>1 DEF Push
  <2>2. CASE call.step # "idle"
    <3>1. during' = Append(during, s) /\ Len(during) < PushesDuringOp
      BY <2>2 DEF Push
    <3>2. Len(during') = Len(during) + 1 /\ during' \in Seq(State) /\ Len(during) \in Nat
      BY <1>1, <3>1
    <3> QED
      BY <3>1, <3>2, QueueAssumption
  <2> QED
    BY <2>1, <2>2
<1>6. TypeOK'
  BY <1>1, <1>4, <1>5 DEF TypeOK, RingType, CallType
<1>7. AsideOK'
  BY <1>1, <1>2, <1>4, <1>5, QueueAssumption DEF IInv, AsideOK, Unmarked
<1>8. PopOK'
  BY <1>1, <1>4 DEF IInv, PopOK, RingType
<1> QED
  BY <1>6, <1>7, <1>8 DEF IInv

LEMMA BeginKeeps ==
  ASSUME IInv, PopBegin \/ ResetBegin
  PROVE  IInv'
<1>1. StoresBusy \in BOOLEAN /\ PushesDuringOp \in Nat
  BY QueueAssumption
<1>2. TypeOK'
  <2>1. call' \in CallType
    BY ZenonT(60) DEF IInv, TypeOK, CallType, Steps, PopBegin, ResetBegin
  <2>2. /\ ring' = ring /\ aside' = aside /\ tick' = tick /\ during' = <<>> /\ busy' = StoresBusy
    BY DEF PopBegin, ResetBegin
  <2>3. during' \in Seq(State) /\ Len(during') <= PushesDuringOp
    BY <1>1, <2>2
  <2> QED
    BY <1>1, <2>1, <2>2, <2>3 DEF IInv, TypeOK, CallType
<1>3. /\ call'.step \in {"take", "empty"} /\ (call'.step = "take" => ring'.length > 0)
      /\ aside' = NoState
  BY DEF IInv, TypeOK, AsideOK, PopBegin, ResetBegin
<1> QED
  BY <1>2, <1>3 DEF IInv, AsideOK, PopOK, Unmarked

LEMMA PopKeeps ==
  ASSUME IInv, Take \/ StoreStart \/ StoreLength
  PROVE  IInv'
<1>1. /\ ring \in RingType /\ call \in CallType /\ N \in Nat \ {0}
      /\ UNCHANGED <<busy, aside, during, tick>>
      /\ call.step \in {"take", "store"}
  BY QueueAssumption DEF IInv, TypeOK, RingType, CallType, Take, StoreStart, StoreLength, Stored
<1>2. ring' \in RingType /\ call' \in CallType /\ call'.step \in {"store", "release"} /\ call'.length > 0
  <2>1. CASE Take
    BY <1>1, <2>1 DEF Take, IInv, PopOK, RingType, CallType, Steps
  <2>2. CASE StoreStart
    <3>1. (call.start + 1) % N \in 0..N - 1
      BY <1>1, Modulo DEF CallType
    <3>2. ring' \in RingType
      BY <1>1, <2>2, <3>1 DEF StoreStart, RingType
    <3> QED
      BY <1>1, <2>2, <3>2 DEF StoreStart, Stored, IInv, PopOK, CallType, Steps
  <2>3. CASE StoreLength
    <3>1. call.length > 0 /\ call.length \in 0..N
      BY <1>1, <2>3 DEF StoreLength, Stored, IInv, PopOK, CallType
    <3>2. call.length - 1 \in 0..N
      BY <1>1, <3>1
    <3>3. ring' \in RingType
      BY <1>1, <2>3, <3>2 DEF StoreLength, RingType
    <3> QED
      BY <1>1, <2>3, <3>1, <3>3 DEF StoreLength, Stored, CallType, Steps
  <2> QED
    BY <2>1, <2>2, <2>3
<1>3. TypeOK'
  BY <1>1, <1>2 DEF IInv, TypeOK, RingType, CallType
<1> QED
  BY <1>1, <1>2, <1>3 DEF IInv, AsideOK, PopOK, Unmarked

LEMMA BusyStateKeeps ==
  ASSUME IInv, Release \/ Check \/ ReadAside \/ ClearAside \/ PushBegin
  PROVE  IInv'
<1>1. TypeOK'
  BY DEF IInv, TypeOK, Steps, Goto, Release, Check, ReadAside, ClearAside, PushBegin
<1>2. AsideOK'
  <2> USE DEF IInv, TypeOK, AsideOK, Unmarked, Goto
  <2>1. CASE Release
    BY <2>1 DEF Release
  <2>2. CASE Check
    BY <2>2 DEF Check
  <2>3. CASE ReadAside
    BY <2>3 DEF ReadAside
  <2>4. CASE ClearAside
    BY <2>4 DEF ClearAside
  <2>5. CASE PushBegin
    BY <2>5 DEF PushBegin
  <2> QED
    BY <2>1, <2>2, <2>3, <2>4, <2>5
<1>3. PopOK'
  BY DEF IInv, TypeOK, PopOK, Goto, Release, Check, ReadAside, ClearAside, PushBegin
<1> QED
  BY <1>1, <1>2, <1>3 DEF IInv

LEMMA PushRingKeeps ==
  ASSUME IInv, PushRing
  PROVE  IInv'
<1>1. ring \in RingType /\ call \in CallType /\ call.state \in State /\ call.step = "ring"
  BY DEF IInv, TypeOK, AsideOK, RingType, CallType, PushRing
<1>2. ring' \in RingType
  BY <1>1, RingPushType DEF PushRing
<1>3. /\ call' \in CallType /\ call'.step = "release"
      /\ UNCHANGED <<busy, aside, during, tick>>
  BY <1>1 DEF PushRing, Goto, CallType, Steps
<1>4. TypeOK'
  BY <1>2, <1>3 DEF IInv, TypeOK, RingType, CallType
<1> QED
  BY <1>3, <1>4 DEF IInv, AsideOK, PopOK, Unmarked

LEMMA ResetKeeps ==
  ASSUME IInv, Empty \/ Forget
  PROVE  IInv'
<1>1. TypeOK'
  <2>1. call' \in CallType
    BY DEF IInv, TypeOK, CallType, Steps, Goto, Empty, Forget
  <2>2. ring' \in RingType /\ aside' \in State \cup {NoState} /\ UNCHANGED <<busy, during, tick>>
    BY QueueAssumption DEF IInv, TypeOK, RingType, Empty, Forget
  <2> QED
    BY <2>1, <2>2 DEF IInv, TypeOK, CallType, RingType
<1>2. AsideOK'
  BY DEF IInv, TypeOK, AsideOK, Unmarked, Goto, Empty, Forget
<1>3. PopOK'
  BY DEF IInv, TypeOK, PopOK, Goto, Empty, Forget
<1> QED
  BY <1>1, <1>2, <1>3 DEF IInv

LEMMA StepKeeps ==
  ASSUME PushesDuringOp <= 1
  PROVE  IInv /\ [Next]_vars => IInv'
<1> SUFFICES ASSUME IInv, [Next]_vars PROVE IInv'
  OBVIOUS
<1>1. ASSUME NEW s \in State, Push(s) PROVE IInv'
  BY <1>1, PushKeeps
<1>2. CASE PopBegin \/ ResetBegin
  BY <1>2, BeginKeeps
<1>3. CASE Take \/ StoreStart \/ StoreLength
  BY <1>3, PopKeeps
<1>4. CASE Release \/ Check \/ ReadAside \/ ClearAside \/ PushBegin
  BY <1>4, BusyStateKeeps
<1>5. CASE PushRing
  BY <1>5, PushRingKeeps
<1>6. CASE Empty \/ Forget
  BY <1>6, ResetKeeps
<1>7. CASE UNCHANGED vars
  BY <1>7 DEF vars, IInv, TypeOK, AsideOK, PopOK
<1> QED
  BY <1>1, <1>2, <1>3, <1>4, <1>5, <1>6, <1>7 DEF Next, Continue

-----------------------------------------------------------------------------

\* The invariant holds in every state if an operation is interrupted at most
\* once, whether or not the compiler keeps the first store to m_busy.
THEOREM QueueInvariance == PushesDuringOp <= 1 => (Spec => []IInv)
<1> SUFFICES ASSUME PushesDuringOp <= 1 PROVE Spec => []IInv
  OBVIOUS
<1> QED
  BY InitInvariant, StepKeeps, PTL DEF Spec

\* The ring keeps its bounds, and nothing but states of the keyboard enters it:
\* State(-1), which ends the loop over popState, does not.
THEOREM TypeCorrect == PushesDuringOp <= 1 => (Spec => []TypeOK)
<1> SUFFICES ASSUME PushesDuringOp <= 1 PROVE Spec => []TypeOK
  OBVIOUS
<1>1. IInv => TypeOK
  BY DEF IInv
<1> QED
  BY <1>1, QueueInvariance, PTL

\* Between two operations nothing waits in m_pushedWhileBusy and m_busy is off:
\* the operation that a push left its state to has dealt with it.
THEOREM RestsClean == PushesDuringOp <= 1 => (Spec => []RestIsClean)
<1> SUFFICES ASSUME PushesDuringOp <= 1 PROVE Spec => []RestIsClean
  OBVIOUS
<1>1. IInv => RestIsClean
  BY DEF IInv, AsideOK, RestIsClean, Unmarked
<1> QED
  BY <1>1, QueueInvariance, PTL

-----------------------------------------------------------------------------
(* A build that keeps the store to m_busy implements the lossy queue.       *)

\* What a pop has read of the ring, and what it has already stored there: nobody
\* else writes to the ring while m_busy is set.
RegistersOK ==
  call.step = "store" =>
    /\ call.todo # {}
    /\ call.result = ring.stack[call.start]
    /\ ring.start = IF "start" \in call.todo THEN call.start ELSE (call.start + 1) % N
    /\ ring.length = IF "length" \in call.todo THEN call.length ELSE call.length - 1

\* Which operation a step belongs to, and where m_busy is set.
StepsOK ==
  /\ busy <=> call.step \notin Unmarked
  /\ call.step \in {"take", "store", "check", "read", "clear", "push", "ring"} => call.op = "pop"
  /\ call.step \in {"empty", "forget"} => call.op = "reset"

\* There is room for the state that waits: a pop has just made it.
RoomOK ==
  /\ call.step = "clear" => call.state = aside
  /\ call.step \in {"push", "ring"} => aside = NoState /\ Len(during) > 0 /\ ring.length < N
  /\ call.step \in {"release", "check", "read", "clear"} /\ call.op = "pop" =>
       (aside # NoState \/ Len(during) = 0 => ring.length < N)
  /\ call.step = "release" /\ call.op = "reset" => ring.length = 0

RInv == IInv /\ RegistersOK /\ StepsOK /\ RoomOK

ContentsOf(r) == [i \in 1..r.length |-> r.stack[(r.start + i - 1) % N]]

\* The place in the ring k states after the place i
At(i, k) == (i + k) % N

LEMMA Wrap ==
  ASSUME NEW i \in 0..N - 1, NEW k \in 0..N
  PROVE  /\ At(i, k) = IF i + k < N THEN i + k ELSE i + k - N
         /\ At(i, k) \in 0..N - 1
<1>1. N \in Nat \ {0}
  BY QueueAssumption
<1>2. CASE i + k < N
  BY <1>1, <1>2 DEF At
<1>3. CASE i + k >= N
  BY <1>1, <1>3 DEF At
<1> QED
  BY <1>1, <1>2, <1>3

LEMMA RingTypes ==
  ASSUME NEW r \in RingType
  PROVE  /\ r.stack \in [0..N - 1 -> State] /\ r.start \in 0..N - 1 /\ r.length \in 0..N
         /\ N \in Nat \ {0}
         /\ r = [stack |-> r.stack, start |-> r.start, length |-> r.length]
  BY QueueAssumption DEF RingType

LEMMA ContentsType ==
  ASSUME NEW r \in RingType
  PROVE  /\ ContentsOf(r) \in Seq(State)
         /\ Len(ContentsOf(r)) = r.length
         /\ r.length = 0 => ContentsOf(r) = <<>>
         /\ \A i \in 1..r.length : ContentsOf(r)[i] = r.stack[At(r.start, i - 1)]
<1>0. /\ r.stack \in [0..N - 1 -> State] /\ r.start \in 0..N - 1 /\ r.length \in 0..N
      /\ N \in Nat \ {0}
  BY RingTypes
<1>1. ASSUME NEW i \in 1..r.length
      PROVE  /\ (r.start + i - 1) % N = At(r.start, i - 1)
             /\ r.stack[At(r.start, i - 1)] \in State
  <2>1. i - 1 \in 0..N
    BY <1>0
  <2>2. At(r.start, i - 1) \in 0..N - 1
    BY <1>0, <2>1, Wrap
  <2>3. r.start + (i - 1) = r.start + i - 1
    BY <1>0
  <2> QED
    BY <1>0, <2>2, <2>3 DEF At
<1>2. ContentsOf(r) = [i \in 1..r.length |-> r.stack[At(r.start, i - 1)]]
  BY <1>1, Zenon DEF ContentsOf
<1>3. [i \in 1..r.length |-> r.stack[At(r.start, i - 1)]] \in [1..r.length -> State]
  BY <1>1
<1>4. ContentsOf(r) \in [1..r.length -> State] /\ r.length \in Nat
  BY <1>0, <1>2, <1>3
<1>5. ContentsOf(r) \in Seq(State)
  BY <1>4
<1>6. Len(ContentsOf(r)) = r.length
  BY <1>4
<1>7. r.length = 0 => ContentsOf(r) = <<>>
  BY <1>5, <1>6, EmptySeq
<1>8. \A i \in 1..r.length : ContentsOf(r)[i] = r.stack[At(r.start, i - 1)]
  BY <1>2, Zenon
<1> QED
  BY <1>5, <1>6, <1>7, <1>8

LEMMA AppendKnown ==
  ASSUME NEW q \in Seq(State), NEW s \in State
  PROVE  /\ Append(q, s) \in Seq(State)
         /\ Len(Append(q, s)) = Len(q) + 1
         /\ \A i \in 1..Len(q) : Append(q, s)[i] = q[i]
         /\ Append(q, s)[Len(q) + 1] = s
BY AppendProperties

\* A push to the ring adds a state at the end, and forgets the first one if it must.
LEMMA RingPushAdds ==
  ASSUME NEW r \in RingType, NEW s \in State
  PROVE  ContentsOf(RingPush(r, s)) = Lossy!Added(ContentsOf(r), s)
<1>0. /\ r.stack \in [0..N - 1 -> State] /\ r.start \in 0..N - 1 /\ r.length \in 0..N
      /\ N \in Nat \ {0}
  BY RingTypes
<1> DEFINE p == RingPush(r, s)
           last == At(r.start, r.length)
<1>1. /\ last = IF r.start + r.length < N THEN r.start + r.length ELSE r.start + r.length - N
      /\ last \in 0..N - 1
  BY <1>0, Wrap
<1>2. /\ p.stack = [r.stack EXCEPT ![last] = s]
      /\ p.length = IF r.length < N THEN r.length + 1 ELSE N
      /\ p.start = IF r.length < N THEN r.start ELSE At(r.start, 1)
  BY DEF RingPush, At
<1>3. p \in RingType
  BY RingPushType
<1> HIDE DEF p, last
<1>4. /\ ContentsOf(r) \in Seq(State) /\ Len(ContentsOf(r)) = r.length
      /\ ContentsOf(p) \in Seq(State) /\ Len(ContentsOf(p)) = p.length
      /\ \A i \in 1..r.length : ContentsOf(r)[i] = r.stack[At(r.start, i - 1)]
      /\ \A i \in 1..p.length : ContentsOf(p)[i] = p.stack[At(p.start, i - 1)]
  BY <1>3, ContentsType
<1>5. CASE r.length < N
  <2>1. ASSUME NEW i \in 1..r.length + 1
        PROVE  ContentsOf(p)[i] = Append(ContentsOf(r), s)[i]
    <3> DEFINE q == Append(ContentsOf(r), s)
    <3>9. q[r.length + 1] = s /\ \A k \in 1..r.length : q[k] = ContentsOf(r)[k]
      BY <1>4, AppendKnown
    <3> SUFFICES ContentsOf(p)[i] = q[i]
      OBVIOUS
    <3> HIDE DEF q
    <3>0. i - 1 \in 0..N
      BY <1>0, <1>5
    <3>1. /\ At(r.start, i - 1) = IF r.start + (i - 1) < N THEN r.start + (i - 1) ELSE r.start + (i - 1) - N
          /\ At(r.start, i - 1) \in 0..N - 1
      BY <1>0, <3>0, Wrap
    <3>3. ContentsOf(p)[i] = p.stack[At(r.start, i - 1)]
      BY <1>0, <1>2, <1>4, <1>5
    <3>4. CASE i = r.length + 1
      <4>1. At(r.start, i - 1) = last
        BY <1>0, <1>1, <3>1, <3>4
      <4>2. p.stack[last] = s
        BY <1>0, <1>1, <1>2
      <4> QED
        BY <3>3, <3>4, <3>9, <4>1, <4>2
    <3>5. CASE i \in 1..r.length
      <4>1. At(r.start, i - 1) # last
        BY <1>0, <1>1, <3>1, <3>5, <1>5
      <4>3. ContentsOf(p)[i] = r.stack[At(r.start, i - 1)]
        BY <1>0, <1>2, <3>1, <3>3, <4>1
      <4> QED
        BY <1>4, <3>5, <3>9, <4>3
    <3>6. i = r.length + 1 \/ i \in 1..r.length
      BY <1>0
    <3> QED
      BY <3>4, <3>5, <3>6
  <2>2. Len(ContentsOf(p)) = r.length + 1
    BY <1>2, <1>4, <1>5
  <2>3. /\ Append(ContentsOf(r), s) \in Seq(State) /\ Len(Append(ContentsOf(r), s)) = r.length + 1
    BY <1>4, AppendKnown
  <2>4. ContentsOf(p) = Append(ContentsOf(r), s)
    BY <1>4, <2>1, <2>2, <2>3, SeqEqual
  <2> QED
    BY <1>4, <1>5, <2>4 DEF Lossy!Added, p
<1>6. CASE r.length = N
  <2>1. 1 \in 0..N
    BY <1>0
  <2>7. /\ At(r.start, 1) = IF r.start + 1 < N THEN r.start + 1 ELSE r.start + 1 - N
        /\ At(r.start, 1) \in 0..N - 1
    BY <1>0, <2>1, Wrap
  <2>8. p.start = At(r.start, 1)
    BY <1>0, <1>2, <1>6
  <2>9. last = r.start
    BY <1>0, <1>1, <1>6
  <2>2. /\ p.start = At(r.start, 1) /\ p.start \in 0..N - 1
        /\ p.start = IF r.start + 1 < N THEN r.start + 1 ELSE r.start + 1 - N
        /\ last = r.start
    BY <2>7, <2>8, <2>9
  <2> DEFINE q == Append(Tail(ContentsOf(r)), s)
  <2>3. /\ Tail(ContentsOf(r)) \in Seq(State) /\ Len(Tail(ContentsOf(r))) = N - 1
        /\ \A i \in 1..N - 1 : Tail(ContentsOf(r))[i] = ContentsOf(r)[i + 1]
    BY <1>0, <1>4, <1>6, HeadTailProperties, EmptySeq
  <2>4. q \in Seq(State) /\ Len(q) = N /\ q[N] = s /\ \A i \in 1..N - 1 : q[i] = ContentsOf(r)[i + 1]
    BY <1>0, <2>3, AppendKnown
  <2> HIDE DEF q
  <2>5. ASSUME NEW i \in 1..N
        PROVE  ContentsOf(p)[i] = q[i]
    <3>0. i - 1 \in 0..N
      BY <1>0
    <3>1. /\ At(p.start, i - 1) = IF p.start + (i - 1) < N THEN p.start + (i - 1) ELSE p.start + (i - 1) - N
          /\ At(p.start, i - 1) \in 0..N - 1
      BY <1>0, <2>2, <3>0, Wrap
    <3>3. ContentsOf(p)[i] = p.stack[At(p.start, i - 1)]
      BY <1>0, <1>2, <1>4, <1>6
    <3>4. CASE i = N
      <4>1. At(p.start, i - 1) = last
        BY <1>0, <2>2, <3>1, <3>4
      <4>2. p.stack[last] = s
        BY <1>0, <1>1, <1>2
      <4> QED
        BY <2>4, <3>3, <3>4, <4>1, <4>2
    <3>5. CASE i \in 1..N - 1
      <4>0. i \in 0..N
        BY <1>0
      <4>1. At(r.start, i) = IF r.start + i < N THEN r.start + i ELSE r.start + i - N
        BY <1>0, <4>0, Wrap
      <4>2. At(p.start, i - 1) = At(r.start, i)
        BY <1>0, <2>2, <3>1, <3>5, <4>1
      <4>3. At(r.start, i) # last
        BY <1>0, <2>2, <3>5, <4>1
      <4>4. ContentsOf(p)[i] = r.stack[At(r.start, i)]
        BY <1>0, <1>2, <3>1, <3>3, <4>2, <4>3
      <4>5. (i + 1) - 1 = i /\ i + 1 \in 1..r.length
        BY <1>0, <1>6, <3>5
      <4>6. ContentsOf(r)[i + 1] = r.stack[At(r.start, i)]
        BY <1>4, <4>5
      <4> QED
        BY <2>4, <3>5, <4>4, <4>6
    <3>6. i = N \/ i \in 1..N - 1
      BY <1>0
    <3> QED
      BY <3>4, <3>5, <3>6
  <2>10. Len(ContentsOf(p)) = N
    BY <1>0, <1>2, <1>4, <1>6
  <2>6. ContentsOf(p) = q
    BY <1>4, <2>4, <2>5, <2>10, SeqEqual
  <2> QED
    BY <1>0, <1>4, <1>6, <2>6 DEF Lossy!Added, p, q
<1> QED
  BY <1>0, <1>5, <1>6

\* What a pop leaves of the ring is all but its first state.
LEMMA TailIsNext ==
  ASSUME NEW r \in RingType, r.length > 0,
         NEW p \in RingType, p.stack = r.stack, p.length = r.length - 1,
         p.start = At(r.start, 1)
  PROVE  /\ Head(ContentsOf(r)) = r.stack[r.start]
         /\ ContentsOf(r) # <<>>
         /\ Tail(ContentsOf(r)) = ContentsOf(p)
<1>0. /\ r.stack \in [0..N - 1 -> State] /\ r.start \in 0..N - 1 /\ r.length \in 0..N
      /\ N \in Nat \ {0} /\ 0 \in 0..N /\ 1 \in 0..N
  BY RingTypes
<1>8. /\ At(r.start, 1) = IF r.start + 1 < N THEN r.start + 1 ELSE r.start + 1 - N
      /\ At(r.start, 1) \in 0..N - 1
  BY <1>0, Wrap
<1>9. At(r.start, 0) = IF r.start + 0 < N THEN r.start + 0 ELSE r.start + 0 - N
  BY <1>0, Wrap
<1>2. /\ p.start = IF r.start + 1 < N THEN r.start + 1 ELSE r.start + 1 - N
      /\ p.start \in 0..N - 1
      /\ At(r.start, 0) = r.start
  BY <1>0, <1>8, <1>9
<1>3. /\ ContentsOf(r) \in Seq(State) /\ Len(ContentsOf(r)) = r.length
      /\ ContentsOf(p) \in Seq(State) /\ Len(ContentsOf(p)) = r.length - 1
      /\ \A i \in 1..r.length : ContentsOf(r)[i] = r.stack[At(r.start, i - 1)]
      /\ \A i \in 1..p.length : ContentsOf(p)[i] = p.stack[At(p.start, i - 1)]
  BY ContentsType
<1>4. ContentsOf(r)[1] = r.stack[r.start]
  <2>1. 1 \in 1..r.length /\ 1 - 1 = 0
    BY <1>0
  <2>2. ContentsOf(r)[1] = r.stack[At(r.start, 1 - 1)]
    BY <1>3, <2>1
  <2> QED
    BY <1>2, <2>1, <2>2
<1>5. ASSUME NEW i \in 1..r.length - 1
      PROVE  ContentsOf(p)[i] = ContentsOf(r)[i + 1]
  <2>0. i - 1 \in 0..N /\ i \in 0..N /\ (i + 1) - 1 = i /\ i + 1 \in 1..r.length
    BY <1>0
  <2>5. At(p.start, i - 1) = IF p.start + (i - 1) < N THEN p.start + (i - 1) ELSE p.start + (i - 1) - N
    BY <1>2, <2>0, Wrap
  <2>1. At(r.start, i) = IF r.start + i < N THEN r.start + i ELSE r.start + i - N
    BY <1>0, <2>0, Wrap
  <2>2. At(p.start, i - 1) = At(r.start, i)
    <3>1. CASE r.start + 1 < N
      BY <1>0, <1>2, <2>1, <2>5, <3>1
    <3>2. CASE r.start + 1 = N
      <4>3. p.start = 0
        BY <1>0, <1>2, <3>2
      <4>4. i - 1 \in 0..N - 1
        BY <1>0
      <4>1. At(p.start, i - 1) = i - 1
        BY <1>0, <2>5, <4>3, <4>4
      <4>2. At(r.start, i) = i - 1
        BY <1>0, <2>1, <3>2
      <4> QED
        BY <4>1, <4>2
    <3> QED
      BY <1>0, <3>1, <3>2
  <2>3. ContentsOf(p)[i] = r.stack[At(p.start, i - 1)]
    BY <1>3
  <2>4. ContentsOf(r)[i + 1] = r.stack[At(r.start, i)]
    BY <1>3, <2>0
  <2> QED
    BY <2>2, <2>3, <2>4
<1>6. Head(ContentsOf(r)) = r.stack[r.start] /\ ContentsOf(r) # <<>>
  BY <1>0, <1>3, <1>4
<1>10. /\ Tail(ContentsOf(r)) \in Seq(State) /\ Len(Tail(ContentsOf(r))) = r.length - 1
       /\ \A i \in 1..r.length - 1 : Tail(ContentsOf(r))[i] = ContentsOf(r)[i + 1]
  BY <1>0, <1>3, <1>6, HeadTailProperties
<1>7. Tail(ContentsOf(r)) = ContentsOf(p)
  BY <1>0, <1>3, <1>5, <1>10, SeqEqual
<1> QED
  BY <1>6, <1>7

-----------------------------------------------------------------------------
(* The stronger invariant. *)

Parts == RegistersOK /\ StepsOK /\ RoomOK

\* What a push does to the queue: it comes at most once during an operation, and
\* then nothing waits yet.
LEMMA PushEffect ==
  ASSUME IInv, PushesDuringOp <= 1, NEW s \in State, Push(s)
  PROVE  /\ ring \in RingType /\ call \in CallType /\ UNCHANGED <<busy, call>> /\ tick' = 1 - tick
         /\ aside = NoState
         /\ call.step # "idle" => Len(during) = 0 /\ Len(during') = 1
         /\ busy => ring' = ring /\ aside' = s
         /\ ~busy => ring' = RingPush(ring, s) /\ aside' = NoState
<1>1. /\ ring \in RingType /\ call \in CallType /\ UNCHANGED <<busy, call>> /\ tick' = 1 - tick
      /\ during \in Seq(State) /\ Len(during) <= PushesDuringOp /\ Len(during) \in Nat
      /\ aside \in State \cup {NoState} /\ PushesDuringOp \in Nat
  BY QueueAssumption DEF IInv, TypeOK, RingType, CallType, Push
<1>2. call.step # "idle" => Len(during) = 0 /\ aside = NoState
  BY <1>1 DEF Push, IInv, AsideOK
<1>3. aside = NoState
  BY <1>2 DEF IInv, AsideOK
<1>4. call.step # "idle" => Len(during') = 1
  <2> SUFFICES ASSUME call.step # "idle" PROVE Len(during') = 1
    OBVIOUS
  <2>1. during' = Append(during, s)
    BY DEF Push
  <2> QED
    BY <1>1, <1>2, <2>1
<1>5. busy => ring' = ring /\ aside' = s
  BY DEF Push, SetAside, Pushed
<1>6. ~busy => ring' = RingPush(ring, s) /\ aside' = NoState
  BY <1>3 DEF Push, SetAside, Pushed
<1> QED
  BY <1>1, <1>2, <1>3, <1>4, <1>5, <1>6

LEMMA PushKeepsParts ==
  ASSUME IInv, Parts, PushesDuringOp <= 1, NEW s \in State, Push(s)
  PROVE  Parts'
<1>1. /\ ring \in RingType /\ call \in CallType /\ UNCHANGED <<busy, call>>
      /\ aside = NoState
      /\ call.step # "idle" => Len(during) = 0 /\ Len(during') = 1
      /\ busy => ring' = ring /\ aside' = s
      /\ ~busy => ring' = RingPush(ring, s) /\ aside' = NoState
  BY PushEffect
<1>2. StepsOK'
  BY <1>1 DEF Parts, StepsOK
<1>3. RegistersOK'
  BY <1>1 DEF Parts, RegistersOK, StepsOK, Unmarked
<1>4. RoomOK'
  <2>1. call.step \notin {"clear", "push", "ring"}
    BY <1>1 DEF Parts, RoomOK, IInv, AsideOK
  <2>2. call.step = "release" => busy
    BY <1>1 DEF Parts, StepsOK, Unmarked, CallType, Steps
  <2>3. CASE busy
    BY <1>1, <2>1, <2>2, <2>3 DEF Parts, RoomOK
  <2>4. CASE ~busy
    BY <1>1, <2>1, <2>2, <2>4 DEF Parts, RoomOK
  <2> QED
    BY <2>3, <2>4
<1> QED
  BY <1>2, <1>3, <1>4 DEF Parts

LEMMA BeginKeepsParts ==
  ASSUME IInv, Parts, StoresBusy, PopBegin \/ ResetBegin
  PROVE  Parts'
<1>1. call'.step \in {"take", "empty"} /\ (call'.step = "take" => call'.op = "pop")
      /\ (call'.step = "empty" => call'.op = "reset") /\ busy' = TRUE
  BY DEF IInv, TypeOK, PopBegin, ResetBegin
<1> QED
  BY <1>1 DEF Parts, RegistersOK, StepsOK, RoomOK, Unmarked

LEMMA PopKeepsParts ==
  ASSUME IInv, Parts, Take \/ StoreStart \/ StoreLength
  PROVE  Parts'
<1>1. /\ ring \in RingType /\ call \in CallType /\ N \in Nat \ {0}
      /\ UNCHANGED <<busy, aside, during, tick>> /\ busy = TRUE
      /\ call.step \in {"take", "store"} /\ call.op = "pop"
  BY QueueAssumption DEF IInv, TypeOK, RingType, CallType, Take, StoreStart, StoreLength, Stored,
                         Parts, StepsOK, Unmarked
<1>2. CASE Take
  <2>1. /\ call'.step = "store" /\ call'.op = "pop" /\ ring' = ring
        /\ call'.todo = {"start", "length"} /\ call'.result = ring.stack[ring.start]
        /\ call'.start = ring.start /\ call'.length = ring.length
    BY <1>1, <1>2 DEF Take, CallType
  <2> QED
    BY <1>1, <2>1 DEF Parts, RegistersOK, StepsOK, RoomOK, Unmarked
<1>3. CASE StoreStart \/ StoreLength
  <2>1. /\ call.todo # {} /\ call.todo \subseteq {"start", "length"}
        /\ call.result = ring.stack[call.start]
        /\ ring.start = IF "start" \in call.todo THEN call.start ELSE (call.start + 1) % N
        /\ ring.length = IF "length" \in call.todo THEN call.length ELSE call.length - 1
    BY <1>1, <1>3 DEF Parts, RegistersOK, CallType, StoreStart, StoreLength, Stored
  <2>2. PICK member \in call.todo :
          /\ Stored(member)
          /\ ring' = IF member = "start" THEN [ring EXCEPT !.start = (call.start + 1) % N]
                     ELSE [ring EXCEPT !.length = call.length - 1]
    BY <1>3 DEF StoreStart, StoreLength, Stored
  <2>3. /\ call'.todo = call.todo \ {member} /\ call'.op = "pop" /\ call'.result = call.result
        /\ call'.start = call.start /\ call'.length = call.length
        /\ call'.step = IF call.todo = {member} THEN "release" ELSE "store"
    BY <1>1, <2>2 DEF Stored, CallType
  <2>4. StepsOK'
    BY <1>1, <2>3 DEF StepsOK, Unmarked
  <2>5. member \in {"start", "length"} /\ ring'.stack = ring.stack
    BY <1>1, <2>1, <2>2 DEF RingType
  <2>6. CASE member = "start"
    <3>1. ring'.start = (call.start + 1) % N /\ ring'.length = ring.length
      BY <1>1, <2>2, <2>6 DEF RingType
    <3>2. RegistersOK'
      BY <2>1, <2>3, <2>5, <2>6, <3>1 DEF RegistersOK
    <3>3. call'.step = "release" => ring'.length = call.length - 1
      BY <2>1, <2>3, <2>6, <3>1
    <3> QED
      BY <1>1, <2>3, <2>4, <3>2, <3>3 DEF Parts, RoomOK, CallType
  <2>7. CASE member = "length"
    <3>1. ring'.start = ring.start /\ ring'.length = call.length - 1
      BY <1>1, <2>2, <2>7 DEF RingType
    <3>2. RegistersOK'
      BY <2>1, <2>3, <2>5, <2>7, <3>1 DEF RegistersOK
    <3> QED
      BY <1>1, <2>3, <2>4, <3>1, <3>2 DEF Parts, RoomOK, CallType
  <2> QED
    BY <2>5, <2>6, <2>7
<1> QED
  BY <1>2, <1>3

LEMMA BusyStateKeepsParts ==
  ASSUME IInv, Parts, Release \/ Check \/ ReadAside \/ ClearAside \/ PushBegin
  PROVE  Parts'
<1>1. call \in CallType /\ UNCHANGED <<ring, during>>
  BY DEF IInv, TypeOK, CallType, Release, Check, ReadAside, ClearAside, PushBegin
<1>2. CASE Release
  BY <1>1, <1>2 DEF Release, Goto, CallType, IInv, AsideOK, Parts, RegistersOK, StepsOK, RoomOK, Unmarked
<1>3. CASE Check
  BY <1>1, <1>3 DEF Check, Goto, CallType, IInv, AsideOK, Parts, RegistersOK, StepsOK, RoomOK, Unmarked
<1>4. CASE ReadAside
  BY <1>1, <1>4 DEF ReadAside, Goto, CallType, IInv, AsideOK, Parts, RegistersOK, StepsOK, RoomOK, Unmarked
<1>5. CASE ClearAside
  BY <1>1, <1>5 DEF ClearAside, Goto, CallType, IInv, AsideOK, Parts, RegistersOK, StepsOK, RoomOK, Unmarked
<1>6. CASE PushBegin
  BY <1>1, <1>6 DEF PushBegin, Goto, CallType, IInv, AsideOK, Parts, RegistersOK, StepsOK, RoomOK, Unmarked
<1> QED
  BY <1>2, <1>3, <1>4, <1>5, <1>6

LEMMA RestKeepsParts ==
  ASSUME IInv, Parts, PushRing \/ Empty \/ Forget
  PROVE  Parts'
<1>1. call \in CallType /\ UNCHANGED during
  BY DEF IInv, TypeOK, CallType, PushRing, Empty, Forget
<1>2. CASE PushRing
  <2>1. call'.step = "release" /\ call'.op = "pop" /\ aside' = NoState /\ Len(during') # 0 /\ busy' = TRUE
    <3>1. Len(during) \in Nat
      BY DEF IInv, TypeOK
    <3> QED
      BY <1>1, <1>2, <3>1 DEF PushRing, Goto, CallType, Parts, StepsOK, RoomOK, Unmarked
  <2> QED
    BY <2>1 DEF Parts, RegistersOK, StepsOK, RoomOK, Unmarked
<1>3. CASE Empty
  <2>1. call'.step = "release" /\ call'.op = "reset" /\ ring'.length = 0 /\ busy' = TRUE
    BY <1>1, <1>3 DEF Empty, Goto, CallType, Parts, StepsOK, Unmarked, IInv, TypeOK
  <2> QED
    BY <2>1 DEF Parts, RegistersOK, StepsOK, RoomOK, Unmarked
<1>4. CASE Forget
  BY <1>1, <1>4 DEF Forget, Goto, CallType, Parts, RegistersOK, StepsOK, RoomOK, Unmarked
<1> QED
  BY <1>2, <1>3, <1>4

LEMMA RInvInit == Init => RInv
<1> SUFFICES ASSUME Init PROVE RInv
  OBVIOUS
<1>1. call.step = "idle" /\ busy = FALSE
  BY DEF Init
<1> QED
  BY <1>1, InitInvariant DEF RInv, RegistersOK, StepsOK, RoomOK, Unmarked

LEMMA RInvStep ==
  ASSUME StoresBusy, PushesDuringOp <= 1
  PROVE  RInv /\ [Next]_vars => RInv'
<1> SUFFICES ASSUME RInv, [Next]_vars PROVE RInv'
  OBVIOUS
<1>0. IInv /\ Parts
  BY DEF RInv, Parts
<1>1. IInv'
  BY <1>0, StepKeeps
<1> SUFFICES Parts'
  BY <1>1 DEF RInv, Parts
<1>2. ASSUME NEW s \in State, Push(s) PROVE Parts'
  BY <1>0, <1>2, PushKeepsParts
<1>3. CASE PopBegin \/ ResetBegin
  BY <1>0, <1>3, BeginKeepsParts
<1>4. CASE Take \/ StoreStart \/ StoreLength
  BY <1>0, <1>4, PopKeepsParts
<1>5. CASE Release \/ Check \/ ReadAside \/ ClearAside \/ PushBegin
  BY <1>0, <1>5, BusyStateKeepsParts
<1>6. CASE PushRing \/ Empty \/ Forget
  BY <1>0, <1>6, RestKeepsParts
<1>7. CASE UNCHANGED vars
  BY <1>0, <1>7 DEF vars, Parts, RegistersOK, StepsOK, RoomOK
<1> QED
  BY <1>2, <1>3, <1>4, <1>5, <1>6, <1>7 DEF Next, Continue

-----------------------------------------------------------------------------
(* The mapping to the lossy queue: what it sees of a state, and of a step. *)

Flushing == call.op = "reset" /\ call.step # "idle"
Output == IF call.step = "take" THEN ring.stack[ring.start] ELSE call.result

\* The ring as the pop under way found it
Found == [stack |-> ring.stack, start |-> call.start, length |-> call.length]

LEMMA FoundType ==
  ASSUME IInv
  PROVE  Found \in RingType
BY DEF IInv, TypeOK, RingType, Found

LEMMA QueuedIs ==
  /\ call.step = "idle" => Queued = ContentsOf(ring)
  /\ call.step = "take" => Queued = Tail(ContentsOf(ring)) \o Pending
  /\ call.step = "store" => Queued = Tail(ContentsOf(Found)) \o Pending
  /\ call.step \in {"push", "ring"} => Queued = Append(ContentsOf(ring), call.state)
  /\ call.step \in {"release", "check", "read", "clear"} /\ call.op = "pop"
       => Queued = ContentsOf(ring) \o Pending
  /\ call.step \in {"empty", "release"} /\ call.op = "reset" => Queued = <<>>
  /\ call.step = "forget" => Queued = ContentsOf(ring)
<1>1. Contents = ContentsOf(ring)
  BY DEF Contents, ContentsFrom, ContentsOf
<1>2. ContentsFrom(call.start, call.length) = ContentsOf(Found)
  BY DEF ContentsFrom, ContentsOf, Found
<1>3. Queued = CASE call.step = "idle" -> ContentsOf(ring)
                 [] call.step = "take" -> Tail(ContentsOf(ring)) \o Pending
                 [] call.step = "store" -> Tail(ContentsOf(Found)) \o Pending
                 [] call.step \in {"push", "ring"} -> Append(ContentsOf(ring), call.state)
                 [] call.step \in {"release", "check", "read", "clear"} /\ call.op = "pop"
                      -> ContentsOf(ring) \o Pending
                 [] call.step \in {"empty", "release"} /\ call.op = "reset" -> <<>>
                 [] call.step = "forget" -> ContentsOf(ring)
  BY <1>1, <1>2 DEF Queued
<1> QED
  BY <1>3

\* The same of the state after a step
LEMMA QueuedIsNext ==
  /\ call'.step = "idle" => Queued' = ContentsOf(ring')
  /\ call'.step = "take" => Queued' = Tail(ContentsOf(ring')) \o Pending'
  /\ call'.step = "store" => Queued' = Tail(ContentsOf(Found')) \o Pending'
  /\ call'.step \in {"push", "ring"} => Queued' = Append(ContentsOf(ring'), call'.state)
  /\ call'.step \in {"release", "check", "read", "clear"} /\ call'.op = "pop"
       => Queued' = ContentsOf(ring') \o Pending'
  /\ call'.step \in {"empty", "release"} /\ call'.op = "reset" => Queued' = <<>>
  /\ call'.step = "forget" => Queued' = ContentsOf(ring')
<1>1. Contents' = ContentsOf(ring')
  BY DEF Contents, ContentsFrom, ContentsOf
<1>2. ContentsFrom(call.start, call.length)' = ContentsOf(Found')
  BY DEF ContentsFrom, ContentsOf, Found
<1>3. Queued' = CASE call'.step = "idle" -> ContentsOf(ring')
                  [] call'.step = "take" -> Tail(ContentsOf(ring')) \o Pending'
                  [] call'.step = "store" -> Tail(ContentsOf(Found')) \o Pending'
                  [] call'.step \in {"push", "ring"} -> Append(ContentsOf(ring'), call'.state)
                  [] call'.step \in {"release", "check", "read", "clear"} /\ call'.op = "pop"
                       -> ContentsOf(ring') \o Pending'
                  [] call'.step \in {"empty", "release"} /\ call'.op = "reset" -> <<>>
                  [] call'.step = "forget" -> ContentsOf(ring')
  BY <1>1, <1>2 DEF Queued
<1> QED
  BY <1>3

LEMMA Stutters ==
  ASSUME Queued' = Queued, Flushing' = Flushing, Output' = Output, tick' = tick
  PROVE  [Lossy!QueueNext]_(Lossy!queueVars)
BY DEF Lossy!queueVars, Flushing, Output

LEMMA PushesLossily ==
  ASSUME NEW s \in State, tick' = 1 - tick, Flushing' = Flushing, Output' = Output,
         Queued' = Lossy!Added(Queued, s) \/ (Flushing /\ Queued' = Queued)
  PROVE  [Lossy!QueueNext]_(Lossy!queueVars)
<1>1. Lossy!Push(s)
  BY DEF Lossy!Push, Flushing, Output
<1> QED
  BY <1>1 DEF Lossy!QueueNext

LEMMA PendingIs ==
  ASSUME NEW q \in Seq(State), aside \in State \cup {NoState}
  PROVE  /\ aside = NoState => q \o Pending = q
         /\ aside # NoState => q \o Pending = Append(q, aside)
<1>1. aside = NoState => q \o Pending = q
  BY ConcatEmptySeq DEF Pending
<1>2. ASSUME aside # NoState PROVE q \o Pending = Append(q, aside)
  <2>1. Pending = <<aside>> /\ aside \in State
    BY <1>2 DEF Pending
  <2> QED
    BY <2>1
<1> QED
  BY <1>1, <1>2

LEMMA PendingIsNext ==
  ASSUME NEW q \in Seq(State), aside' \in State \cup {NoState}
  PROVE  /\ aside' = NoState => q \o Pending' = q
         /\ aside' # NoState => q \o Pending' = Append(q, aside')
<1>1. aside' = NoState => q \o Pending' = q
  BY ConcatEmptySeq DEF Pending
<1>2. ASSUME aside' # NoState PROVE q \o Pending' = Append(q, aside')
  <2>1. Pending' = <<aside'>> /\ aside' \in State
    BY <1>2 DEF Pending
  <2> QED
    BY <2>1
<1> QED
  BY <1>1, <1>2

\* With room, what is added is appended.
LEMMA AddedWithRoom ==
  ASSUME NEW q \in Seq(State), Len(q) < N, NEW s
  PROVE  Lossy!Added(q, s) = Append(q, s)
BY DEF Lossy!Added

\* A push is a push of the lossy queue; one that a reset covers may be flushed.
LEMMA PushMaps ==
  ASSUME RInv, PushesDuringOp <= 1, NEW s \in State, Push(s)
  PROVE  [Lossy!QueueNext]_(Lossy!queueVars)
<1>0. IInv /\ Parts /\ call \in CallType
  BY DEF RInv, Parts, IInv, TypeOK, CallType
<1>1. /\ ring \in RingType /\ UNCHANGED <<busy, call>> /\ tick' = 1 - tick
      /\ aside = NoState
      /\ call.step # "idle" => Len(during) = 0 /\ Len(during') = 1
      /\ busy => ring' = ring /\ aside' = s
      /\ ~busy => ring' = RingPush(ring, s) /\ aside' = NoState
  BY <1>0, PushEffect
<1>2. s # NoState /\ ring.length \in 0..N /\ N \in Nat
  BY <1>1, QueueAssumption DEF RingType
<1>3. ContentsOf(ring) \in Seq(State) /\ Len(ContentsOf(ring)) = ring.length
  BY <1>1, ContentsType
<1>4. call.step \notin {"clear", "push", "ring", "read"}
  BY <1>0, <1>1 DEF Parts, RoomOK, IInv, AsideOK
<1>5. busy <=> call.step \in {"take", "store", "empty", "release"}
  BY <1>0, <1>4 DEF Parts, StepsOK, Unmarked, CallType, Steps
<1>6. Flushing' = Flushing
  BY <1>1 DEF Flushing
<1>7. Output' = Output
  <2>1. call.step = "take" => ring' = ring
    BY <1>1, <1>5
  <2> QED
    BY <1>1, <2>1 DEF Output
<1> SUFFICES Queued' = Lossy!Added(Queued, s) \/ (Flushing /\ Queued' = Queued)
  BY <1>1, <1>6, <1>7, PushesLossily
<1>8. CASE call.step \in {"idle", "forget", "check"}
  <2>1. Queued = ContentsOf(ring)
    <3>1. call.step = "check" => call.op = "pop" /\ ContentsOf(ring) \o Pending = ContentsOf(ring)
      BY <1>0, <1>1, <1>3, PendingIs DEF Parts, StepsOK
    <3> QED
      BY <1>8, <3>1, QueuedIs
  <2>2. Queued' = ContentsOf(ring')
    <3>1. RingPush(ring, s) \in RingType
      BY <1>1, RingPushType
    <3>2. ContentsOf(ring') \in Seq(State) /\ aside' = NoState
      BY <1>1, <1>5, <1>8, <3>1, ContentsType
    <3>3. call.step = "check" => call.op = "pop" /\ ContentsOf(ring') \o Pending' = ContentsOf(ring')
      BY <1>0, <3>2, PendingIsNext DEF Parts, StepsOK
    <3> QED
      BY <1>1, <1>8, <3>3, QueuedIsNext
  <2>3. ring' = RingPush(ring, s)
    BY <1>1, <1>5, <1>8
  <2> QED
    BY <1>1, <2>1, <2>2, <2>3, RingPushAdds
<1>9. CASE call.step \in {"empty", "release"} /\ call.op = "reset"
  BY <1>1, <1>9, QueuedIs, QueuedIsNext DEF Flushing
<1>10. CASE call.step = "take"
  <2>1. ring.length > 0
    BY <1>0, <1>10 DEF IInv, PopOK
  <2>2. Tail(ContentsOf(ring)) \in Seq(State) /\ Len(Tail(ContentsOf(ring))) < N
    BY <1>2, <1>3, <2>1, HeadTailProperties, EmptySeq
  <2>3. Queued = Tail(ContentsOf(ring))
    BY <1>1, <1>10, <2>2, QueuedIs, PendingIs
  <2>4. Queued' = Append(Tail(ContentsOf(ring)), s)
    BY <1>1, <1>2, <1>5, <1>10, <2>2, QueuedIsNext, PendingIsNext
  <2> QED
    BY <2>2, <2>3, <2>4, AddedWithRoom
<1>11. CASE call.step = "store"
  <2>1. Found' = Found /\ Found \in RingType /\ Found.length > 0 /\ Found.length <= N
    BY <1>0, <1>1, <1>5, <1>11, FoundType DEF IInv, PopOK, Found, CallType
  <2>2. /\ Tail(ContentsOf(Found)) \in Seq(State) /\ Len(Tail(ContentsOf(Found))) < N
    <3>1. ContentsOf(Found) \in Seq(State) /\ Len(ContentsOf(Found)) = Found.length
      BY <2>1, ContentsType
    <3> QED
      BY <1>2, <2>1, <3>1, HeadTailProperties, EmptySeq
  <2>3. Queued = Tail(ContentsOf(Found))
    BY <1>1, <1>11, <2>2, QueuedIs, PendingIs
  <2>4. Queued' = Append(Tail(ContentsOf(Found)), s)
    BY <1>1, <1>2, <1>5, <1>11, <2>1, <2>2, QueuedIsNext, PendingIsNext
  <2> QED
    BY <2>2, <2>3, <2>4, AddedWithRoom
<1>12. CASE call.step = "release" /\ call.op = "pop"
  <2>1. ring.length < N
    BY <1>0, <1>1, <1>12 DEF Parts, RoomOK
  <2>2. Queued = ContentsOf(ring)
    BY <1>1, <1>3, <1>12, QueuedIs, PendingIs
  <2>3. Queued' = Append(ContentsOf(ring), s)
    BY <1>1, <1>2, <1>3, <1>5, <1>12, QueuedIsNext, PendingIsNext
  <2> QED
    BY <1>3, <2>1, <2>2, <2>3, AddedWithRoom
<1>13. \/ call.step \in {"idle", "forget", "check"} \/ call.step = "take" \/ call.step = "store"
       \/ call.step \in {"empty", "release"} /\ call.op = "reset"
       \/ call.step = "release" /\ call.op = "pop"
  BY <1>0, <1>4 DEF CallType, Steps, Parts, StepsOK
<1> QED
  BY <1>8, <1>9, <1>10, <1>11, <1>12, <1>13

\* A pop takes effect when it begins, and so does a reset.
LEMMA BeginMaps ==
  ASSUME RInv, PopBegin \/ ResetBegin
  PROVE  [Lossy!QueueNext]_(Lossy!queueVars)
<1>0. /\ IInv /\ call \in CallType /\ ring \in RingType /\ aside = NoState /\ call.step = "idle"
      /\ UNCHANGED <<ring, aside, tick>>
  BY DEF RInv, IInv, TypeOK, AsideOK, CallType, RingType, PopBegin, ResetBegin
<1>1. ContentsOf(ring) \in Seq(State) /\ Len(ContentsOf(ring)) = ring.length
  BY <1>0, ContentsType
<1>2. Queued = ContentsOf(ring) /\ Flushing = FALSE /\ Output = call.result
  BY <1>0, QueuedIs DEF Flushing, Output
<1>3. CASE PopBegin
  <2>1. /\ call'.step = "take" /\ call'.op = "pop" /\ call'.result = call.result /\ ring.length > 0
    BY <1>0, <1>3 DEF PopBegin, CallType
  <2>2. ContentsOf(ring) # <<>> /\ Head(ContentsOf(ring)) = ring.stack[ring.start]
    <3>1. /\ 1 \in 1..ring.length /\ 1 - 1 = 0 /\ ring.start \in 0..N - 1 /\ 0 \in 0..N /\ N \in Nat
      BY <1>0, <2>1, QueueAssumption DEF RingType
    <3>2. ContentsOf(ring)[1] = ring.stack[At(ring.start, 1 - 1)]
      BY <1>0, <3>1, ContentsType
    <3>3. At(ring.start, 0) = IF ring.start + 0 < N THEN ring.start + 0 ELSE ring.start + 0 - N
      BY <3>1, Wrap
    <3>4. At(ring.start, 0) = ring.start
      BY <3>1, <3>3
    <3>5. ContentsOf(ring) # <<>>
      BY <1>1, <2>1, EmptySeq
    <3> QED
      BY <1>1, <3>1, <3>2, <3>4, <3>5
  <2>3. Tail(ContentsOf(ring)) \in Seq(State)
    BY <1>1, <2>2, HeadTailProperties
  <2>4. Queued' = Tail(ContentsOf(ring))
    BY <1>0, <2>1, <2>3, QueuedIsNext, PendingIsNext
  <2>5. Flushing' = FALSE /\ Output' = ring.stack[ring.start]
    BY <1>0, <2>1 DEF Flushing, Output
  <2>6. Lossy!Pop
    BY <1>0, <1>2, <2>2, <2>4, <2>5 DEF Lossy!Pop, Flushing, Output
  <2> QED
    BY <2>6 DEF Lossy!QueueNext
<1>4. CASE ResetBegin
  <2>1. call'.step = "empty" /\ call'.op = "reset" /\ call'.result = call.result
    BY <1>0, <1>4 DEF ResetBegin, CallType
  <2>2. Queued' = <<>>
    BY <2>1, QueuedIsNext
  <2>3. Flushing' = TRUE /\ Output' = Output
    BY <1>0, <1>2, <2>1 DEF Flushing, Output
  <2>4. Lossy!BeginFlush
    BY <1>0, <1>2, <2>2, <2>3 DEF Lossy!BeginFlush, Flushing, Output
  <2> QED
    BY <2>4 DEF Lossy!QueueNext
<1> QED
  BY <1>3, <1>4

\* The rest of a pop does not show.
LEMMA PopMaps ==
  ASSUME RInv, Take \/ StoreStart \/ StoreLength
  PROVE  [Lossy!QueueNext]_(Lossy!queueVars)
<1>0. /\ IInv /\ call \in CallType /\ ring \in RingType /\ N \in Nat \ {0}
      /\ UNCHANGED <<aside, tick>> /\ call.op = "pop" /\ call'.op = "pop"
      /\ call.step \in {"take", "store"} /\ call'.step \in {"store", "release"}
      /\ aside \in State \cup {NoState}
  BY QueueAssumption DEF RInv, StepsOK, IInv, TypeOK, CallType, RingType, Take, StoreStart, StoreLength, Stored
<1>1. Pending' = Pending /\ Flushing' = Flushing
  BY <1>0 DEF Pending, Flushing
<1> SUFFICES Queued' = Queued /\ Output' = Output
  BY <1>0, <1>1, Stutters
<1>2. CASE Take
  <2>1. /\ call.step = "take" /\ call'.step = "store" /\ ring' = ring
        /\ call'.result = ring.stack[ring.start] /\ call'.start = ring.start /\ call'.length = ring.length
    BY <1>0, <1>2 DEF Take, CallType
  <2>2. Found' = ring
    BY <1>0, <2>1, RingTypes DEF Found
  <2>3. Queued' = Queued
    BY <1>1, <2>1, <2>2, QueuedIs, QueuedIsNext
  <2> QED
    BY <2>1, <2>3 DEF Output
<1>3. CASE StoreStart \/ StoreLength
  <2>1. /\ call.step = "store" /\ call'.result = call.result /\ call'.start = call.start /\ call'.length = call.length
        /\ ring'.stack = ring.stack
    BY <1>0, <1>3 DEF StoreStart, StoreLength, Stored, CallType, RingType
  <2>2. Output' = Output
    BY <1>0, <2>1 DEF Output
  <2>3. Found' = Found
    BY <2>1 DEF Found
  <2>4. CASE call'.step = "store"
    BY <1>1, <2>1, <2>2, <2>3, <2>4, QueuedIs, QueuedIsNext
  <2>5. CASE call'.step = "release"
    <3>1. ring' \in RingType /\ Found \in RingType /\ Found.length > 0
      <4>1. IInv'
        BY <1>0, PopKeeps
      <4> QED
        BY <1>0, <2>1, <4>1, FoundType DEF IInv, TypeOK, PopOK, RingType, Found
    <3>2. ring'.start = At(call.start, 1) /\ ring'.length = call.length - 1
      <4>1. /\ call.todo # {} /\ call.todo \subseteq {"start", "length"}
            /\ ring.start = IF "start" \in call.todo THEN call.start ELSE At(call.start, 1)
            /\ ring.length = IF "length" \in call.todo THEN call.length ELSE call.length - 1
        BY <1>0, <2>1 DEF RInv, RegistersOK, CallType, At
      <4>2. CASE StoreStart
        <5>1. call.todo = {"start"}
          BY <1>0, <2>5, <4>2 DEF StoreStart, Stored, CallType
        <5>2. ring'.start = At(call.start, 1) /\ ring'.length = ring.length
          BY <1>0, <4>2 DEF StoreStart, RingType, At
        <5> QED
          BY <4>1, <5>1, <5>2
      <4>3. CASE StoreLength
        <5>1. call.todo = {"length"}
          BY <1>0, <2>5, <4>3 DEF StoreLength, Stored, CallType
        <5>2. ring'.start = ring.start /\ ring'.length = call.length - 1
          BY <1>0, <4>3 DEF StoreLength, RingType
        <5> QED
          BY <4>1, <5>1, <5>2
      <4> QED
        BY <1>3, <4>2, <4>3
    <3>3. /\ ring'.stack = Found.stack /\ ring'.length = Found.length - 1 /\ ring'.start = At(Found.start, 1)
      BY <2>1, <3>2 DEF Found
    <3>4. Tail(ContentsOf(Found)) = ContentsOf(ring')
      BY <3>1, <3>3, TailIsNext
    <3> QED
      BY <1>0, <1>1, <2>1, <2>2, <2>5, <3>4, QueuedIs, QueuedIsNext
  <2> QED
    BY <1>0, <2>4, <2>5
<1> QED
  BY <1>2, <1>3

\* Neither does what handleBusyState does: the state that waits counts as pushed
\* from the moment it was put aside.
LEMMA BusyStateMaps ==
  ASSUME RInv, Release \/ Check \/ ReadAside \/ ClearAside \/ PushBegin \/ PushRing
  PROVE  [Lossy!QueueNext]_(Lossy!queueVars)
<1>0. /\ IInv /\ call \in CallType /\ ring \in RingType /\ aside \in State \cup {NoState}
      /\ UNCHANGED tick
      /\ call.step \in {"release", "check", "read", "clear", "push", "ring"}
      /\ call'.op = call.op /\ call'.result = call.result
  BY DEF RInv, IInv, TypeOK, CallType, RingType, Goto,
         Release, Check, ReadAside, ClearAside, PushBegin, PushRing
<1>1. /\ call'.step \in {"release", "check", "idle", "read", "clear", "push", "ring", "forget"}
      /\ call'.step = "idle" => call.op = "pop"
  BY <1>0 DEF Goto, CallType, RInv, StepsOK,
              Release, Check, ReadAside, ClearAside, PushBegin, PushRing
<1>2. Flushing' = Flushing /\ Output' = Output
  BY <1>0, <1>1 DEF Flushing, Output
<1>3. ContentsOf(ring) \in Seq(State) /\ Len(ContentsOf(ring)) = ring.length
      /\ (ring.length = 0 => ContentsOf(ring) = <<>>)
  BY <1>0, ContentsType
<1> SUFFICES Queued' = Queued
  BY <1>0, <1>2, Stutters
<1>4. CASE Release
  <2>1. ring' = ring /\ aside' = aside /\ call.step = "release" /\ Pending' = Pending
        /\ call'.step = IF call.op = "reset" THEN "forget" ELSE "check"
    BY <1>0, <1>4 DEF Release, Goto, CallType, Pending
  <2>2. CASE call.op = "reset"
    <3>1. ring.length = 0
      BY <2>1, <2>2 DEF RInv, RoomOK
    <3> QED
      BY <1>3, <2>1, <2>2, <3>1, QueuedIs, QueuedIsNext
  <2>3. CASE call.op = "pop"
    BY <1>0, <2>1, <2>3, QueuedIs, QueuedIsNext
  <2> QED
    BY <1>0, <2>2, <2>3 DEF CallType
<1>5. CASE Check \/ ReadAside
  <2>1. ring' = ring /\ aside' = aside /\ call.step \in {"check", "read"} /\ Pending' = Pending
        /\ call'.step \in {"idle", "read", "clear"} /\ call.op = "pop"
        /\ (call'.step = "idle" => aside = NoState)
    BY <1>0, <1>5 DEF Check, ReadAside, Goto, CallType, Pending, RInv, StepsOK
  <2>2. Queued = ContentsOf(ring) \o Pending
    BY <2>1, QueuedIs
  <2>3. CASE call'.step = "idle"
    BY <1>0, <1>3, <2>1, <2>2, <2>3, QueuedIsNext, PendingIs
  <2>4. CASE call'.step # "idle"
    BY <1>0, <2>1, <2>2, <2>4, QueuedIsNext
  <2> QED
    BY <2>3, <2>4
<1>6. CASE ClearAside
  <2>1. /\ ring' = ring /\ call.step = "clear" /\ call'.step = "push" /\ call'.state = call.state
        /\ call.state = aside /\ aside # NoState /\ call.op = "pop"
    BY <1>0, <1>6, QueueAssumption DEF ClearAside, Goto, CallType, RInv, RoomOK, StepsOK, IInv, AsideOK
  <2> QED
    BY <1>0, <1>3, <2>1, QueuedIs, QueuedIsNext, PendingIs
<1>7. CASE PushBegin
  BY <1>0, <1>7, QueuedIs, QueuedIsNext DEF PushBegin, Goto, CallType
<1>8. CASE PushRing
  <2>1. /\ ring' = RingPush(ring, call.state) /\ call.step = "ring" /\ call'.step = "release"
        /\ aside' = NoState /\ call.state \in State /\ call.op = "pop" /\ ring.length < N
    BY <1>0, <1>8 DEF PushRing, Goto, CallType, RInv, RoomOK, StepsOK, IInv, AsideOK
  <2>2. ContentsOf(ring') = Append(ContentsOf(ring), call.state) /\ ContentsOf(ring') \in Seq(State)
    <3>1. ContentsOf(ring') = Lossy!Added(ContentsOf(ring), call.state)
      BY <1>0, <2>1, RingPushAdds
    <3>2. Lossy!Added(ContentsOf(ring), call.state) = Append(ContentsOf(ring), call.state)
      BY <1>3, <2>1, AddedWithRoom
    <3>3. Append(ContentsOf(ring), call.state) \in Seq(State)
      BY <1>3, <2>1, AppendKnown
    <3> QED
      BY <3>1, <3>2, <3>3
  <2> QED
    BY <1>0, <2>1, <2>2, QueuedIs, QueuedIsNext, PendingIsNext
<1> QED
  BY <1>4, <1>5, <1>6, <1>7, <1>8

\* A reset ends when it has forgotten what was put aside.
LEMMA ResetMaps ==
  ASSUME RInv, Empty \/ Forget
  PROVE  [Lossy!QueueNext]_(Lossy!queueVars)
<1>0. /\ call \in CallType /\ UNCHANGED tick /\ call.op = "reset" /\ call'.op = "reset"
      /\ call'.result = call.result /\ ring \in RingType
  BY DEF RInv, StepsOK, IInv, TypeOK, CallType, RingType, Goto, Empty, Forget
<1>1. CASE Empty
  <2>1. call.step = "empty" /\ call'.step = "release"
    BY <1>0, <1>1 DEF Empty, Goto, CallType
  <2>2. Flushing' = Flushing /\ Output' = Output
    BY <1>0, <2>1 DEF Flushing, Output
  <2>3. Queued' = Queued
    BY <1>0, <2>1, QueuedIs, QueuedIsNext
  <2> QED
    BY <1>0, <2>2, <2>3, Stutters
<1>2. CASE Forget
  <2>1. call.step = "forget" /\ call'.step = "idle" /\ ring' = ring
    BY <1>0, <1>2 DEF Forget, Goto, CallType
  <2>2. Flushing = TRUE /\ Flushing' = FALSE /\ Output' = Output
    BY <1>0, <2>1 DEF Flushing, Output
  <2>3. Queued' = Queued
    BY <1>0, <2>1, QueuedIs, QueuedIsNext
  <2>4. Lossy!EndFlush
    BY <1>0, <2>2, <2>3 DEF Lossy!EndFlush, Flushing, Output
  <2> QED
    BY <2>4 DEF Lossy!QueueNext
<1> QED
  BY <1>1, <1>2

LEMMA InitMaps == Init => Lossy!QueueInit
<1> SUFFICES ASSUME Init PROVE Lossy!QueueInit
  OBVIOUS
<1>1. /\ call.step = "idle" /\ call.op = "pop" /\ call.result = Zero /\ ring.length = 0 /\ tick = 0
      /\ ring \in RingType /\ Zero \in State
  BY InitInvariant, QueueAssumption DEF Init, IInv, TypeOK, RingType
<1>2. Queued = <<>>
  BY <1>1, QueuedIs, ContentsType
<1> QED
  BY <1>1, <1>2 DEF Lossy!QueueInit

LEMMA StepMaps ==
  ASSUME PushesDuringOp <= 1
  PROVE  RInv /\ [Next]_vars => [Lossy!QueueNext]_(Lossy!queueVars)
<1> SUFFICES ASSUME RInv, [Next]_vars PROVE [Lossy!QueueNext]_(Lossy!queueVars)
  OBVIOUS
<1> DEFINE Maps == [Lossy!QueueNext]_(Lossy!queueVars)
<1>1. ASSUME NEW s \in State, Push(s) PROVE Maps
  BY <1>1, PushMaps
<1>2. ASSUME PopBegin \/ ResetBegin PROVE Maps
  BY <1>2, BeginMaps
<1>3. ASSUME Take \/ StoreStart \/ StoreLength PROVE Maps
  BY <1>3, PopMaps
<1>4. ASSUME Release \/ Check \/ ReadAside \/ ClearAside \/ PushBegin \/ PushRing PROVE Maps
  BY <1>4, BusyStateMaps
<1>5. ASSUME Empty \/ Forget PROVE Maps
  BY <1>5, ResetMaps
<1>6. ASSUME UNCHANGED vars PROVE Maps
  <2>1. Queued' = Queued /\ Flushing' = Flushing /\ Output' = Output /\ tick' = tick
    BY <1>6 DEF vars, Queued, Contents, ContentsFrom, Pending, Flushing, Output
  <2> QED
    BY <2>1, Stutters
<1> HIDE DEF Maps
<1> SUFFICES Maps
  BY DEF Maps
<1> QED
  BY <1>1, <1>2, <1>3, <1>4, <1>5, <1>6 DEF Next, Continue

\* The queue promises what a bounded queue that forgets its oldest state does,
\* in a build that keeps the store to m_busy and as long as an operation is
\* interrupted at most once: a state that arrives during a pop is not lost, and
\* keeps its place among the others.
THEOREM QueueIsLossy == StoresBusy /\ PushesDuringOp <= 1 => (Spec => ImplementsLossyQueue)
<1> SUFFICES ASSUME StoresBusy, PushesDuringOp <= 1 PROVE Spec => ImplementsLossyQueue
  OBVIOUS
<1>1. RInv /\ [Next]_vars => RInv'
  BY RInvStep
<1>2. RInv /\ [Next]_vars => [Lossy!QueueNext]_(Lossy!queueVars)
  BY StepMaps
<1> QED
  BY <1>1, <1>2, RInvInit, InitMaps, PTL DEF Spec, ImplementsLossyQueue, Lossy!QueueSpec

-----------------------------------------------------------------------------
(* The shortcuts *)

\* A shortcut that was seen and not released since is still held
SeenIsHeld == \A a \in Actions : a \notin armed => a \in active /\ a \in ActiveSet(ScanState)

\* The hands arm again what they do not hold.
LEMMA BrowserSeen ==
  ASSUME SeenIsHeld, NEW h, NEW p, NEW q, Browser(h, p, q)
  PROVE  SeenIsHeld'
<1>1. /\ host' = h /\ page' = p /\ prefix' = q /\ active' = active
      /\ armed' = armed \cup (Actions \ ActiveSet(ScanOf(h, p, q)))
  BY DEF Browser
<1>2. ScanState' = ScanOf(h, p, q)
  BY <1>1 DEF ScanState, ScanOf
<1>3. ActiveSet(ScanState)' = ActiveSet(ScanOf(h, p, q))
  BY <1>2 DEF ActiveSet
<1> QED
  BY <1>1, <1>3 DEF SeenIsHeld

\* The shortcuts look at the keyboard themselves.
LEMMA ShortcutsSeen ==
  ASSUME NEW resets, HandleShortcuts(ActiveSet(ScanState), resets), WasScanned(ScanState),
         SeenIsHeld
  PROVE  SeenIsHeld'
<1>1. active' = ActiveSet(ScanState) /\ armed' = armed \ ActiveSet(ScanState)
  BY DEF HandleShortcuts
<1>2. ActiveSet(ScanState)' = ActiveSet(ScanState)
  BY DEF WasScanned, hands, ScanState, ScanOf, ActiveSet
<1> QED
  BY <1>1, <1>2 DEF SeenIsHeld

LEMMA StepSeen == SeenIsHeld /\ [EventsNext]_eventsVars => SeenIsHeld'
<1> SUFFICES ASSUME SeenIsHeld, [EventsNext]_eventsVars PROVE SeenIsHeld'
  OBVIOUS
<1>1. CASE Hands
  <2>1. CASE \E k \in HostKeys : HostDown(k) \/ HostUp(k)
    BY <2>1, BrowserSeen DEF HostDown, HostUp
  <2>2. CASE \E e \in HostEvents : HostTypes(e)
    BY <2>2, BrowserSeen DEF HostTypes
  <2>3. CASE \E k \in PageKeys : KeyDown(k) \/ KeyUp(k)
    BY <2>3, BrowserSeen DEF KeyDown, KeyUp
  <2>4. CASE \E k \in Prefixes : SetPrefixKeyHeld(k)
    BY <2>4, BrowserSeen DEF SetPrefixKeyHeld
  <2> QED
    BY <1>1, <2>1, <2>2, <2>3, <2>4 DEF Hands
<1>2. CASE DispatchTimer
  BY <1>2, ShortcutsSeen DEF DispatchTimer
<1>3. CASE Dispatch
  BY <1>3, ShortcutsSeen DEF Dispatch
<1>4. CASE UNCHANGED <<host, page, prefix, active, armed>>
  <2>1. ActiveSet(ScanState)' = ActiveSet(ScanState)
    BY <1>4 DEF ScanState, ScanOf, ActiveSet
  <2> QED
    BY <1>4, <2>1 DEF SeenIsHeld
<1>5. CASE UNCHANGED eventsVars
  BY <1>4, <1>5 DEF eventsVars, hands, history
<1>6. CASE PlatformEvent
  BY <1>4, <1>6 DEF PlatformEvent, history
<1>7. CASE ReleaseModifier \/ PressKey \/ NothingNew
  BY <1>4, <1>7 DEF ReleaseModifier, PressKey, NothingNew, PopState, hands
<1>8. CASE WaitScan
  BY <1>4, <1>8 DEF WaitScan, WasScanned, hands
<1>9. CASE PollAgain \/ Repeat \/ Timeout \/ NothingToDispatch \/ EndScript
  BY <1>4, <1>9 DEF PollAgain, Repeat, Timeout, NothingToDispatch, EndScript, hands, history
<1>10. CASE Drain
  BY <1>4, <1>10 DEF Drain, hands
<1> QED
  BY <1>1, <1>2, <1>3, <1>5, <1>6, <1>7, <1>8, <1>9, <1>10 DEF EventsNext, Program

\* In every run a shortcut whose keys have all been held since it was last seen is among
\* those that handleShortcuts remembers.
THEOREM SeenStaysActive == EventsSpec => []SeenIsHeld
<1>1. EventsInit => SeenIsHeld
  BY DEF EventsInit, SeenIsHeld
<1> QED
  BY <1>1, StepSeen, PTL DEF EventsSpec

\* A shortcut that fires once per press does not fire again before a release of one of
\* its keys: FiresOnce, whatever hands do and however short the queue is.
THEOREM ShortcutsFireOnce == EventsSpec => FiresOnce
<1>1. SeenIsHeld /\ [EventsNext]_eventsVars =>
        [\A a \in Actions : a \in NewlyActive(active') => a \in armed]_eventsVars
  BY DEF SeenIsHeld, NewlyActive
<1> QED
  BY <1>1, SeenStaysActive, PTL DEF EventsSpec, FiresOnce

-----------------------------------------------------------------------------
(* The presses of a key *)

\* Whether the watched key goes down from one state to the next
Rises(x, y) == IF Watched \notin x /\ Watched \in y THEN 1 ELSE 0

\* The state after i others: the last one decoded, those of the queue, the next scan
Nth(c, q, v, i) == IF i = 0 THEN c ELSE IF i <= Len(q) THEN q[i] ELSE v

\* m presses suffice for the times the watched key goes down from the state c through
\* the queue q to the state v: p says how many are left on the way.
Affords(c, q, v, m) ==
  \E p \in [0 .. Len(q) + 1 -> Nat] :
    /\ p[0] <= m
    /\ \A i \in 0 .. Len(q) : p[i + 1] + Rises(Nth(c, q, v, i), Nth(c, q, v, i + 1)) <= p[i]

LEMMA RisesOnce ==
  /\ \A x, y : Rises(x, y) \in 0 .. 1
  /\ \A x, y, z : Rises(x, z) <= Rises(x, y) + Rises(y, z)
BY DEF Rises

\* The state at the head of the queue is decoded, ...
LEMMA Decodes ==
  ASSUME NEW S, NEW q \in Seq(S), q # <<>>, NEW c, NEW v, NEW m \in Nat, Affords(c, q, v, m)
  PROVE  /\ Rises(c, Head(q)) <= m
         /\ Affords(Head(q), Tail(q), v, m - Rises(c, Head(q)))
<1>1. PICK p \in [0 .. Len(q) + 1 -> Nat] :
        /\ p[0] <= m
        /\ \A i \in 0 .. Len(q) : p[i + 1] + Rises(Nth(c, q, v, i), Nth(c, q, v, i + 1)) <= p[i]
  BY DEF Affords
<1>2. /\ Len(q) \in Nat \ {0} /\ Len(Tail(q)) = Len(q) - 1
      /\ \A i \in 1 .. Len(q) - 1 : Tail(q)[i] = q[i + 1]
      /\ Head(q) = q[1]
  BY HeadTailProperties
<1>3. \A i \in 0 .. Len(q) : Nth(Head(q), Tail(q), v, i) = Nth(c, q, v, i + 1)
  BY <1>2 DEF Nth
<1>4. p[1] + Rises(c, Head(q)) <= p[0] /\ p[0] \in Nat /\ p[1] \in Nat
  <2>1. 0 \in 0 .. Len(q) /\ 0 \in 0 .. Len(q) + 1 /\ 1 \in 0 .. Len(q) + 1
    BY <1>2
  <2>2. Nth(c, q, v, 0) = c /\ Nth(c, q, v, 1) = Head(q)
    BY <1>2 DEF Nth
  <2> QED
    BY <1>1, <2>1, <2>2
<1> DEFINE r == [i \in 0 .. Len(Tail(q)) + 1 |-> p[i + 1]]
<1>5. r \in [0 .. Len(Tail(q)) + 1 -> Nat] /\ \A i \in 0 .. Len(q) : r[i] = p[i + 1]
  BY <1>2
<1>6. r[0] <= m - Rises(c, Head(q))
  BY <1>1, <1>2, <1>4, <1>5, RisesOnce
<1>7. ASSUME NEW i \in 0 .. Len(Tail(q))
      PROVE  r[i + 1] + Rises(Nth(Head(q), Tail(q), v, i), Nth(Head(q), Tail(q), v, i + 1)) <= r[i]
  <2>1. i \in 0 .. Len(q) /\ i + 1 \in 0 .. Len(q)
    BY <1>2
  <2> HIDE DEF r
  <2> QED
    BY <1>1, <1>3, <1>5, <2>1
<1> HIDE DEF r
<1>8. Affords(Head(q), Tail(q), v, m - Rises(c, Head(q)))
  BY <1>5, <1>6, <1>7 DEF Affords
<1> QED
  BY <1>1, <1>4, <1>8, RisesOnce

\* ... or is forgotten, or taken by a script.
LEMMA Forgets ==
  ASSUME NEW S, NEW q \in Seq(S), q # <<>>, NEW c, NEW v, NEW m \in Nat, Affords(c, q, v, m)
  PROVE  Affords(c, Tail(q), v, m)
<1>1. PICK p \in [0 .. Len(q) + 1 -> Nat] :
        /\ p[0] <= m
        /\ \A i \in 0 .. Len(q) : p[i + 1] + Rises(Nth(c, q, v, i), Nth(c, q, v, i + 1)) <= p[i]
  BY DEF Affords
<1>2. /\ Len(q) \in Nat \ {0} /\ Len(Tail(q)) = Len(q) - 1
      /\ \A i \in 1 .. Len(q) - 1 : Tail(q)[i] = q[i + 1]
  BY HeadTailProperties
<1>3. \A i \in 1 .. Len(q) : Nth(c, Tail(q), v, i) = Nth(c, q, v, i + 1)
  BY <1>2 DEF Nth
<1> DEFINE r == [i \in 0 .. Len(Tail(q)) + 1 |-> IF i = 0 THEN p[0] ELSE p[i + 1]]
<1>4. /\ r \in [0 .. Len(Tail(q)) + 1 -> Nat] /\ r[0] = p[0]
      /\ \A i \in 1 .. Len(q) : r[i] = p[i + 1]
  BY <1>2
<1> HIDE DEF r
<1>5. ASSUME NEW i \in 0 .. Len(Tail(q))
      PROVE  r[i + 1] + Rises(Nth(c, Tail(q), v, i), Nth(c, Tail(q), v, i + 1)) <= r[i]
  <2>1. CASE i = 0
    <3>1. /\ p[1] + Rises(Nth(c, q, v, 0), Nth(c, q, v, 1)) <= p[0]
          /\ p[2] + Rises(Nth(c, q, v, 1), Nth(c, q, v, 2)) <= p[1]
          /\ p[0] \in Nat /\ p[1] \in Nat /\ p[2] \in Nat
      <4>1. 0 \in 0 .. Len(q) /\ 1 \in 0 .. Len(q) /\ 0 \in 0 .. Len(q) + 1 /\ 1 \in 0 .. Len(q) + 1 /\ 2 \in 0 .. Len(q) + 1
        BY <1>2
      <4>2. p[0 + 1] = p[1] /\ p[1 + 1] = p[2]
        OBVIOUS
      <4>3. Nth(c, q, v, 0 + 1) = Nth(c, q, v, 1) /\ Nth(c, q, v, 1 + 1) = Nth(c, q, v, 2)
        OBVIOUS
      <4> QED
        BY <1>1, <4>1, <4>2, <4>3
    <3>2. r[1] = p[2] /\ Nth(c, Tail(q), v, 1) = Nth(c, q, v, 2)
      <4>1. 1 \in 1 .. Len(q)
        BY <1>2
      <4> QED
        BY <1>3, <1>4, <4>1
    <3>3. Nth(c, Tail(q), v, 0) = Nth(c, q, v, 0)
      BY DEF Nth
    <3> QED
      BY <1>4, <2>1, <3>1, <3>2, <3>3, RisesOnce
  <2>2. CASE i # 0
    <3>1. i \in 1 .. Len(q) /\ i + 1 \in 1 .. Len(q) /\ i + 1 \in 0 .. Len(q)
      BY <1>2, <2>2
    <3> QED
      BY <1>1, <1>3, <1>4, <3>1
  <2> QED
    BY <2>1, <2>2
<1> QED
  BY <1>1, <1>4, <1>5 DEF Affords

\* A state is pushed while the next scan becomes w.
LEMMA Appends ==
  ASSUME NEW S, NEW q \in Seq(S), NEW x \in S, NEW c, NEW v, NEW w, NEW m \in Nat, NEW k \in Nat,
         Affords(c, q, v, m),
         \A y : Rises(y, x) + Rises(x, w) <= Rises(y, v) + k
  PROVE  Affords(c, Append(q, x), w, m + k)
<1> DEFINE n == Len(q)
           s == Append(q, x)
<1>1. PICK p \in [0 .. n + 1 -> Nat] :
        /\ p[0] <= m
        /\ \A i \in 0 .. n : p[i + 1] + Rises(Nth(c, q, v, i), Nth(c, q, v, i + 1)) <= p[i]
  BY DEF Affords
<1>2. n \in Nat /\ Len(s) = n + 1 /\ s[n + 1] = x /\ \A i \in 1 .. n : s[i] = q[i]
  BY AppendProperties
<1>3. /\ \A i \in 0 .. n : Nth(c, s, w, i) = Nth(c, q, v, i)
      /\ Nth(c, s, w, n + 1) = x /\ Nth(c, s, w, n + 2) = w /\ Nth(c, q, v, n + 1) = v
  BY <1>2 DEF Nth
<1> DEFINE r == [i \in 0 .. n + 2 |-> IF i <= n THEN p[i] + k
                                      ELSE IF i = n + 1 THEN p[n + 1] + Rises(x, w) ELSE p[n + 1]]
<1>4. /\ r \in [0 .. n + 2 -> Nat] /\ \A i \in 0 .. n : r[i] = p[i] + k
      /\ r[n + 1] = p[n + 1] + Rises(x, w) /\ r[n + 2] = p[n + 1]
      /\ p[n + 1] \in Nat
  <2>1. Rises(x, w) \in Nat
    BY RisesOnce
  <2>2. n \in Nat /\ p[n + 1] \in Nat
    BY <1>1, <1>2
  <2>3. \A i \in 0 .. n + 2 : (IF i <= n THEN p[i] + k
          ELSE IF i = n + 1 THEN p[n + 1] + Rises(x, w) ELSE p[n + 1]) \in Nat
    <3> HIDE DEF n
    <3> QED
      BY <1>1, <2>1, <2>2
  <2>4. r \in [0 .. n + 2 -> Nat]
    BY <2>3
  <2> HIDE DEF n
  <2> QED
    BY <2>2, <2>4
<1> HIDE DEF r, s, n
<1>5. ASSUME NEW i \in 0 .. n + 1
      PROVE  r[i + 1] + Rises(Nth(c, s, w, i), Nth(c, s, w, i + 1)) <= r[i]
  <2>1. CASE i < n
    <3>1. i \in 0 .. n /\ i + 1 \in 0 .. n
      BY <1>2, <2>1
    <3>2. p[i + 1] + Rises(Nth(c, q, v, i), Nth(c, q, v, i + 1)) <= p[i] /\ p[i] \in Nat /\ p[i + 1] \in Nat
      BY <1>1, <1>2, <3>1
    <3> QED
      BY <1>3, <1>4, <3>1, <3>2, RisesOnce
  <2>2. CASE i = n
    <3>1. n \in 0 .. n /\ n \in 0 .. n + 1
      BY <1>2
    <3>2. p[n + 1] + Rises(Nth(c, q, v, n), v) <= p[n] /\ p[n] \in Nat
      BY <1>1, <1>3, <3>1
    <3>3. Rises(Nth(c, q, v, n), x) + Rises(x, w) <= Rises(Nth(c, q, v, n), v) + k
      OBVIOUS
    <3>4. r[n + 1] + Rises(Nth(c, q, v, n), x) <= r[n]
      <4>1. r[n] = p[n] + k /\ r[n + 1] = p[n + 1] + Rises(x, w) /\ p[n + 1] \in Nat
        BY <1>4, <3>1
      <4>2. /\ Rises(Nth(c, q, v, n), x) \in Nat /\ Rises(x, w) \in Nat
            /\ Rises(Nth(c, q, v, n), v) \in Nat
        BY RisesOnce
      <4> QED
        BY <3>2, <3>3, <4>1, <4>2, SMTT(30)
    <3> QED
      BY <1>3, <2>2, <3>1, <3>4
  <2>3. CASE i = n + 1
    <3>1. i + 1 = n + 2
      BY <1>2, <2>3
    <3> QED
      BY <1>3, <1>4, <2>3, <3>1, RisesOnce
  <2> QED
    BY <1>2, <2>1, <2>2, <2>3
<1>6. r[0] <= m + k
  <2>1. 0 \in 0 .. n /\ 0 \in 0 .. n + 1
    BY <1>2
  <2>2. r[0] = p[0] + k /\ p[0] \in Nat
    BY <1>4, <2>1
  <2> QED
    BY <1>1, <2>2
<1>7. 0 .. Len(s) = 0 .. n + 1 /\ 0 .. Len(s) + 1 = 0 .. n + 2
  BY <1>2
<1> QED
  BY <1>4, <1>5, <1>6, <1>7 DEF Affords, s

\* The next scan becomes w.
LEMMA Ends ==
  ASSUME NEW S, NEW q \in Seq(S), NEW c, NEW v, NEW w, NEW m \in Nat, NEW k \in Nat,
         Affords(c, q, v, m),
         \A y : Rises(y, w) <= Rises(y, v) + k
  PROVE  Affords(c, q, w, m + k)
<1> DEFINE n == Len(q)
<1>1. PICK p \in [0 .. n + 1 -> Nat] :
        /\ p[0] <= m
        /\ \A i \in 0 .. n : p[i + 1] + Rises(Nth(c, q, v, i), Nth(c, q, v, i + 1)) <= p[i]
  BY DEF Affords
<1>2. n \in Nat
  OBVIOUS
<1>3. /\ \A i \in 0 .. n : Nth(c, q, w, i) = Nth(c, q, v, i)
      /\ Nth(c, q, w, n + 1) = w /\ Nth(c, q, v, n + 1) = v
  BY <1>2 DEF Nth
<1> DEFINE r == [i \in 0 .. n + 1 |-> IF i <= n THEN p[i] + k ELSE p[i]]
<1>4. /\ r \in [0 .. n + 1 -> Nat] /\ \A i \in 0 .. n : r[i] = p[i] + k
      /\ r[n + 1] = p[n + 1] /\ p[n + 1] \in Nat
  <2> HIDE DEF n
  <2> QED
    BY <1>2
<1> HIDE DEF r
<1>5. ASSUME NEW i \in 0 .. n
      PROVE  r[i + 1] + Rises(Nth(c, q, w, i), Nth(c, q, w, i + 1)) <= r[i]
  <2>0. p[i + 1] + Rises(Nth(c, q, v, i), Nth(c, q, v, i + 1)) <= p[i] /\ p[i] \in Nat /\ p[i + 1] \in Nat
    BY <1>1, <1>2
  <2>1. CASE i < n
    <3>1. i + 1 \in 0 .. n
      BY <1>2, <2>1
    <3> QED
      BY <1>3, <1>4, <2>0, <3>1, RisesOnce
  <2>2. CASE i = n
    <3>1. Rises(Nth(c, q, v, n), w) <= Rises(Nth(c, q, v, n), v) + k
      OBVIOUS
    <3>2. n \in 0 .. n /\ r[n] = p[n] + k
      BY <1>2, <1>4
    <3>3. p[n + 1] + Rises(Nth(c, q, v, n), v) <= p[n] /\ p[n] \in Nat
      BY <1>1, <1>3, <2>0, <2>2
    <3>4. Rises(Nth(c, q, v, n), w) \in Nat /\ Rises(Nth(c, q, v, n), v) \in Nat
      BY RisesOnce
    <3>5. r[n + 1] + Rises(Nth(c, q, v, n), w) <= r[n]
      BY <1>4, <3>1, <3>2, <3>3, <3>4
    <3>6. Nth(c, q, w, n) = Nth(c, q, v, n) /\ Nth(c, q, w, n + 1) = w
      BY <1>3, <3>2
    <3> QED
      BY <2>2, <3>5, <3>6
  <2> QED
    BY <1>2, <2>1, <2>2
<1>6. r[0] <= m + k
  <2>1. 0 \in 0 .. n /\ 0 \in 0 .. n + 1
    BY <1>2
  <2>2. r[0] = p[0] + k /\ p[0] \in Nat
    BY <1>4, <2>1
  <2> QED
    BY <1>1, <2>2
<1> QED
  BY <1>4, <1>5, <1>6 DEF Affords

LEMMA Spares ==
  ASSUME NEW c, NEW q, NEW v, NEW m \in Nat, NEW k \in Nat, m <= k, Affords(c, q, v, m)
  PROVE  Affords(c, q, v, k)
<1>1. PICK p \in [0 .. Len(q) + 1 -> Nat] :
        /\ p[0] <= m
        /\ \A i \in 0 .. Len(q) : p[i + 1] + Rises(Nth(c, q, v, i), Nth(c, q, v, i + 1)) <= p[i]
  BY DEF Affords
<1> QED
  BY <1>1 DEF Affords

\* A state is pushed, and the oldest forgotten if there is no room.
LEMMA PushIsQueue ==
  ASSUME queue \in Seq(SUBSET Keys), NEW x \in SUBSET Keys
  PROVE  Enqueued(x) \in Seq(SUBSET Keys) /\ Enqueued(x) # <<>>
<1>1. CASE Len(queue) < QueueLength
  BY <1>1, AppendProperties DEF Enqueued
<1>2. CASE ~ (Len(queue) < QueueLength)
  <2>1. Enqueued(x) = Append(Tail(queue), x)
    BY <1>2 DEF Enqueued
  <2>2. queue # <<>> /\ Tail(queue) \in Seq(SUBSET Keys)
    BY <1>2, KeysAssumption DEF KeysAssumption
  <2> QED
    BY <2>1, <2>2, AppendProperties
<1> QED
  BY <1>1, <1>2

LEMMA Pushes ==
  ASSUME queue \in Seq(SUBSET Keys), NEW x \in SUBSET Keys, NEW c, NEW v, NEW w,
         NEW m \in Nat, NEW k \in Nat, Affords(c, queue, v, m),
         \A y : Rises(y, x) + Rises(x, w) <= Rises(y, v) + k
  PROVE  Affords(c, Enqueued(x), w, m + k)
<1>1. CASE Len(queue) < QueueLength
  <2>1. Enqueued(x) = Append(queue, x)
    BY <1>1 DEF Enqueued
  <2>2. Affords(c, Append(queue, x), w, m + k)
    BY Appends
  <2> QED
    BY <2>1, <2>2, AppendProperties
<1>2. CASE ~ (Len(queue) < QueueLength)
  <2>1. Enqueued(x) = Append(Tail(queue), x)
    BY <1>2 DEF Enqueued
  <2>2. queue # <<>> /\ Tail(queue) \in Seq(SUBSET Keys)
    BY <1>2, KeysAssumption DEF KeysAssumption
  <2>3. Affords(c, Tail(queue), v, m)
    BY <2>2, Forgets
  <2>4. Affords(c, Append(Tail(queue), x), w, m + k)
    BY <2>2, <2>3, Appends
  <2> QED
    BY <2>1, <2>2, <2>4, AppendProperties
<1> QED
  BY <1>1, <1>2

\* Nothing is owed when the next scan does not press the key.
LEMMA NothingOwed ==
  ASSUME NEW c, NEW v, Rises(c, v) = 0
  PROVE  Affords(c, <<>>, v, 0)
<1> DEFINE p == [i \in 0 .. Len(<<>>) + 1 |-> 0]
<1>1. p \in [0 .. Len(<<>>) + 1 -> Nat] /\ p[0] <= 0
  OBVIOUS
<1>2. ASSUME NEW i \in 0 .. Len(<<>>)
      PROVE  p[i + 1] + Rises(Nth(c, <<>>, v, i), Nth(c, <<>>, v, i + 1)) <= p[i]
  <2>1. i = 0 /\ p[0] = 0 /\ p[0 + 1] = 0
    OBVIOUS
  <2>2. Nth(c, <<>>, v, 0) = c /\ Nth(c, <<>>, v, 0 + 1) = v
    BY DEF Nth
  <2> QED
    BY <2>1, <2>2
<1> HIDE DEF p
<1> QED
  BY <1>1, <1>2 DEF Affords

\* One of the keys that went down has the highest bit.
LEMMA HighestBit ==
  ASSUME NEW T \in SUBSET Keys, T # {}
  PROVE  \E k \in T : \A j \in T : Code[j] <= Code[k]
<1> DEFINE D == {63 - Code[k] : k \in T}
<1>1. \A k \in T : Code[k] \in 0 .. 63
  BY KeysAssumption DEF KeysAssumption
<1>2. D \subseteq Nat /\ D # {}
  BY <1>1
<1>3. PICK d \in D : \A e \in D : ~ (<<e, d>> \in OpToRel(<, Nat))
  <2> HIDE DEF D
  <2> QED
    BY <1>2, NatLessThanWellFounded, WFMin
<1>4. PICK k \in T : d = 63 - Code[k]
  BY <1>3
<1>5. ASSUME NEW j \in T
      PROVE  Code[j] <= Code[k]
  <2>1. 63 - Code[j] \in D /\ 63 - Code[j] \in Nat /\ d \in Nat
    BY <1>2, <1>3
  <2>2. ~ (63 - Code[j] < d)
    BY <1>3, <2>1 DEF OpToRel
  <2> QED
    BY <1>1, <1>4, <2>2
<1> QED
  BY <1>5

KeyboardOK ==
  /\ {"key", "shift", "alpha", "last", "current", "up"} \subseteq DOMAIN keyboard
  /\ keyboard.current \in SUBSET Keys
  /\ keyboard.up = Keys \ keyboard.current

HandsOK ==
  host \in SUBSET HostKeys /\ page \in SUBSET PageKeys /\ prefix \in SUBSET Prefixes

\* The presses that are owed suffice for the times the watched key goes down on the way
\* from the last state that was decoded, through the queue, to the next scan
PressInv ==
  /\ HandsOK
  /\ queue \in Seq(SUBSET Keys)
  /\ KeyboardOK
  /\ owed \in 0 .. Any
  /\ owed = Any \/ Affords(keyboard.current, queue, ScanState, owed)

LEMMA ScanIsState ==
  HandsOK => ScanState \in SUBSET Keys /\ host \in SUBSET Keys
BY DEF HandsOK, ScanState, ScanOf, Keys

\* What the hands do is paid by what they owe.
LEMMA HandsPay ==
  ASSUME PressInv, NEW h \in SUBSET HostKeys, NEW p \in SUBSET PageKeys, NEW q \in SUBSET Prefixes,
         Browser(h, p, q), queue' \in Seq(SUBSET Keys), NEW pressed, Owe(pressed),
         owed # Any /\ ~ (q = Prefixes /\ Watched \in p \cup q) =>
           Affords(keyboard.current, queue', ScanOf(h, p, q), owed + (IF Watched \in pressed THEN 1 ELSE 0))
  PROVE  PressInv'
<1>1. host' = h /\ page' = p /\ prefix' = q /\ keyboard' = keyboard
  BY DEF Browser, decoder
<1>2. ScanState' = ScanOf(h, p, q)
  BY <1>1 DEF ScanState
<1>3. MaxOwed \in Nat
  BY KeysAssumption DEF KeysAssumption
<1>4. CASE owed = Any \/ (q = Prefixes /\ Watched \in p \cup q)
  <2>1. owed' = Any
    BY <1>1, <1>4 DEF Owe
  <2> QED
    BY <1>1, <1>3, <2>1 DEF PressInv, HandsOK, KeyboardOK, Any
<1>5. CASE ~ (owed = Any \/ (q = Prefixes /\ Watched \in p \cup q))
  <2>1. owed' = owed + (IF Watched \in pressed THEN 1 ELSE 0) /\ owed' \in 0 .. Any
    BY <1>1, <1>3, <1>5 DEF Owe, PressInv, Any
  <2>2. Affords(keyboard.current, queue', ScanState', owed')
    BY <1>2, <1>5, <2>1
  <2> QED
    BY <1>1, <2>1, <2>2 DEF PressInv, HandsOK, KeyboardOK
<1> QED
  BY <1>4, <1>5

\* The hands move and push no state: what they press goes down at most once more.
LEMMA HandsMove ==
  ASSUME PressInv, NEW h \in SUBSET HostKeys, NEW p \in SUBSET PageKeys, NEW q \in SUBSET Prefixes,
         Browser(h, p, q), queue' = queue, NEW pressed, Owe(pressed),
         ~ (q = Prefixes /\ Watched \in p \cup q) /\ Watched \notin pressed
           /\ Watched \in ScanOf(h, p, q) => Watched \in ScanState
  PROVE  PressInv'
<1> DEFINE k == IF Watched \in pressed THEN 1 ELSE 0
<1>1. ASSUME owed # Any, ~ (q = Prefixes /\ Watched \in p \cup q)
      PROVE  Affords(keyboard.current, queue, ScanOf(h, p, q), owed + k)
  <2>1. owed \in Nat /\ Affords(keyboard.current, queue, ScanState, owed)
    BY <1>1, KeysAssumption DEF PressInv, KeysAssumption, Any
  <2>2. \A y : Rises(y, ScanOf(h, p, q)) <= Rises(y, ScanState) + k
    BY <1>1 DEF Rises
  <2>3. queue \in Seq(SUBSET Keys) /\ k \in Nat
    BY DEF PressInv
  <2> HIDE DEF k
  <2> QED
    BY <2>1, <2>2, <2>3, Ends
<1> QED
  BY <1>1, HandsPay DEF PressInv

\* A handler of the page pushes a state.
LEMMA PagePushes ==
  ASSUME PressInv, NEW p \in SUBSET PageKeys, NEW x \in SUBSET Keys,
         Browser(host, p, prefix), queue' = Enqueued(x), NEW pressed, Owe(pressed),
         ~ (prefix = Prefixes /\ Watched \in p \cup prefix) =>
           \A y : Rises(y, x) + Rises(x, ScanOf(host, p, prefix))
                    <= Rises(y, ScanState) + (IF Watched \in pressed THEN 1 ELSE 0)
  PROVE  PressInv'
<1> DEFINE k == IF Watched \in pressed THEN 1 ELSE 0
<1>1. queue \in Seq(SUBSET Keys) /\ k \in Nat
  BY DEF PressInv
<1>2. ASSUME owed # Any, ~ (prefix = Prefixes /\ Watched \in p \cup prefix)
      PROVE  Affords(keyboard.current, Enqueued(x), ScanOf(host, p, prefix), owed + k)
  <2>1. owed \in Nat /\ Affords(keyboard.current, queue, ScanState, owed)
    BY <1>2, KeysAssumption DEF PressInv, KeysAssumption, Any
  <2>2. \A y : Rises(y, x) + Rises(x, ScanOf(host, p, prefix)) <= Rises(y, ScanState) + k
    BY <1>2
  <2> HIDE DEF k
  <2> QED
    BY <1>1, <2>1, <2>2, Pushes
<1>3. Enqueued(x) \in Seq(SUBSET Keys)
  BY <1>1, PushIsQueue
<1>4. host \in SUBSET HostKeys /\ prefix \in SUBSET Prefixes
  BY DEF PressInv, HandsOK
<1> QED
  BY <1>2, <1>3, <1>4, HandsPay

LEMMA KeyDownPays ==
  ASSUME PressInv, NEW k \in PageKeys, KeyDown(k)
  PROVE  PressInv'
<1>1. /\ Browser(host, page \cup {k}, prefix) /\ queue' = Enqueued(host \cup {k}) /\ Owe({k})
  BY DEF KeyDown, PushState
<1>2. page \cup {k} \in SUBSET PageKeys /\ host \cup {k} \in SUBSET Keys
  BY DEF PressInv, HandsOK, Keys
<1>3. ASSUME ~ (prefix = Prefixes /\ Watched \in (page \cup {k}) \cup prefix), NEW y
      PROVE  Rises(y, host \cup {k}) + Rises(host \cup {k}, ScanOf(host, page \cup {k}, prefix))
               <= Rises(y, ScanState) + (IF Watched \in {k} THEN 1 ELSE 0)
  <2>1. /\ Watched \in ScanOf(host, page \cup {k}, prefix) => Watched \in host
        /\ Watched \in ScanState <=> Watched \in host
    BY <1>3 DEF ScanOf, ScanState
  <2> QED
    BY <2>1 DEF Rises
<1> QED
  BY <1>1, <1>2, <1>3, PagePushes

\* The key that is released is not held on the host, too: the state that is pushed
\* without it would be followed by a scan with it.
LEMMA KeyUpPays ==
  ASSUME PressInv, Watched \notin HostKeys \cap PageKeys, NEW k \in PageKeys, KeyUp(k)
  PROVE  PressInv'
<1>1. /\ Browser(host, page \ {k}, prefix) /\ queue' = Enqueued(host \ {k}) /\ Owe({})
  BY DEF KeyUp, PushState
<1>2. page \ {k} \in SUBSET PageKeys /\ host \ {k} \in SUBSET Keys
  BY DEF PressInv, HandsOK, Keys
<1>3. Watched \in host => Watched # k
  BY DEF PressInv, HandsOK
<1>4. ASSUME ~ (prefix = Prefixes /\ Watched \in (page \ {k}) \cup prefix), NEW y
      PROVE  Rises(y, host \ {k}) + Rises(host \ {k}, ScanOf(host, page \ {k}, prefix))
               <= Rises(y, ScanState) + (IF Watched \in {} THEN 1 ELSE 0)
  <2>1. /\ Watched \in ScanOf(host, page \ {k}, prefix) => Watched \in host
        /\ Watched \in host => Watched \in ScanState
    BY <1>4 DEF ScanOf, ScanState
  <2> QED
    BY <1>3, <2>1 DEF Rises
<1> QED
  BY <1>1, <1>2, <1>4, PagePushes

LEMMA HandsAnswer ==
  ASSUME PressInv, Watched \notin HostKeys \cap PageKeys, Hands
  PROVE  PressInv'
<1>1. HandsOK
  BY DEF PressInv
<1>2. ASSUME NEW k \in HostKeys, HostDown(k)
      PROVE  PressInv'
  <2>1. /\ Browser(host \cup {k}, page, prefix) /\ queue' = queue /\ Owe({k})
    BY <1>2 DEF HostDown
  <2>2. host \cup {k} \in SUBSET HostKeys /\ page \in SUBSET PageKeys /\ prefix \in SUBSET Prefixes
    BY <1>1 DEF HandsOK
  <2>3. Watched \notin {k} /\ Watched \in ScanOf(host \cup {k}, page, prefix) => Watched \in ScanState
    BY DEF ScanOf, ScanState
  <2> QED
    BY <2>1, <2>2, <2>3, HandsMove
<1>3. ASSUME NEW k \in HostKeys, HostUp(k)
      PROVE  PressInv'
  <2>1. /\ Browser(host \ {k}, page, prefix) /\ queue' = queue /\ Owe({})
    BY <1>3 DEF HostUp
  <2>2. host \ {k} \in SUBSET HostKeys /\ page \in SUBSET PageKeys /\ prefix \in SUBSET Prefixes
    BY <1>1 DEF HandsOK
  <2>3. Watched \in ScanOf(host \ {k}, page, prefix) => Watched \in ScanState
    BY DEF ScanOf, ScanState
  <2> QED
    BY <2>1, <2>2, <2>3, HandsMove
<1>4. ASSUME NEW e \in HostEvents, HostTypes(e)
      PROVE  PressInv'
  <2>1. /\ Browser(host, page, prefix) /\ queue' = queue /\ Owe({})
    BY <1>4 DEF HostTypes
  <2> QED
    BY <1>1, <2>1, HandsMove DEF HandsOK, ScanState
<1>5. ASSUME NEW k \in Prefixes, SetPrefixKeyHeld(k)
      PROVE  PressInv'
  <2>1. PICK q \in SUBSET Prefixes : Browser(host, page, q)
    BY <1>1, <1>5 DEF SetPrefixKeyHeld, HandsOK
  <2>2. queue' = queue /\ Owe({})
    BY <1>5 DEF SetPrefixKeyHeld
  <2>3. ~ (q = Prefixes /\ Watched \in page \cup q) /\ Watched \in ScanOf(host, page, q)
          => Watched \in ScanState
    BY DEF ScanOf, ScanState
  <2> QED
    BY <1>1, <2>1, <2>2, <2>3, HandsMove DEF HandsOK
<1> QED
  BY <1>2, <1>3, <1>4, <1>5, KeyDownPays, KeyUpPays DEF Hands

\* A scan pushes the state that comes next anyway.
LEMMA ScanPushes ==
  ASSUME PressInv, owed # Any
  PROVE  Affords(keyboard.current, Enqueued(ScanState), ScanState, owed)
<1>1. owed \in Nat /\ Affords(keyboard.current, queue, ScanState, owed)
  BY KeysAssumption DEF PressInv, KeysAssumption, Any
<1>2. \A y : Rises(y, ScanState) + Rises(ScanState, ScanState) <= Rises(y, ScanState) + 0
  BY DEF Rises
<1>3. queue \in Seq(SUBSET Keys) /\ ScanState \in SUBSET Keys /\ owed + 0 = owed
  BY <1>1, ScanIsState DEF PressInv
<1> QED
  BY <1>1, <1>2, <1>3, Pushes

LEMMA ScanKeeps ==
  ASSUME PressInv, WasScanned(ScanState), UNCHANGED <<keyboard, owed>>
  PROVE  PressInv'
<1>1. host' = host /\ page' = page /\ prefix' = prefix /\ keyboard' = keyboard /\ owed' = owed
  BY DEF WasScanned, hands
<1>2. ScanState' = ScanState
  BY <1>1 DEF ScanState
<1>3. queue' = queue \/ queue' = Enqueued(ScanState)
  BY DEF WasScanned
<1>4. Enqueued(ScanState) \in Seq(SUBSET Keys)
  BY PushIsQueue, ScanIsState DEF PressInv
<1>5. owed # Any => Affords(keyboard.current, queue', ScanState, owed)
  BY <1>3, ScanPushes DEF PressInv
<1> QED
  BY <1>1, <1>2, <1>3, <1>4, <1>5 DEF PressInv, HandsOK, KeyboardOK

\* The decoder pops a state: an event answers a press of its key.
LEMMA PopStateKeeps ==
  ASSUME PressInv, Pops, NEW e, NEW down, NEW newMods, PopState(e, down, newMods),
         \/ owed' = owed
         \/ Watched \in Head(queue) \cap keyboard.up /\ owed \in 1 .. MaxOwed /\ owed' = owed - 1
  PROVE  PressInv'
<1> DEFINE state == Head(queue)
<1>1. queue \in Seq(SUBSET Keys) /\ queue # <<>> /\ Tail(queue) \in Seq(SUBSET Keys)
      /\ state \in SUBSET Keys
  BY DEF PressInv, Pops
<1>2. queue' = Tail(queue) /\ host' = host /\ page' = page /\ prefix' = prefix
  BY DEF PopState, hands
<1>3. ScanState' = ScanState
  BY <1>2 DEF ScanState
<1>4. /\ {"key", "shift", "alpha", "last", "current", "up"} \subseteq DOMAIN keyboard'
      /\ keyboard'.current = state
      /\ keyboard'.up = Keys \ state
  BY DEF PopState, SeenUp, PressInv, KeyboardOK
<1>5. MaxOwed \in Nat /\ owed \in 0 .. Any /\ owed' \in 0 .. Any /\ (owed = Any => owed' = Any)
  BY KeysAssumption DEF KeysAssumption, PressInv, Any
<1>6. ASSUME owed # Any
      PROVE  Affords(state, Tail(queue), ScanState, owed')
  <2>1. owed \in Nat /\ Affords(keyboard.current, queue, ScanState, owed)
    BY <1>5, <1>6 DEF PressInv, Any
  <2>2. /\ Rises(keyboard.current, state) <= owed
        /\ Affords(state, Tail(queue), ScanState, owed - Rises(keyboard.current, state))
    BY <1>1, <2>1, Decodes
  <2>3. CASE owed' = owed
    <3>1. /\ owed - Rises(keyboard.current, state) \in Nat
          /\ owed - Rises(keyboard.current, state) <= owed
      BY <2>1, <2>2, RisesOnce
    <3> QED
      BY <2>1, <2>2, <2>3, <3>1, Spares
  <2>4. CASE owed' # owed
    <3>1. Rises(keyboard.current, state) = 1 /\ owed' = owed - 1
      BY <2>4 DEF Rises, PressInv, KeyboardOK
    <3> QED
      BY <2>2, <3>1
  <2> QED
    BY <2>3, <2>4
<1> HIDE DEF state
<1> QED
  BY <1>1, <1>2, <1>3, <1>4, <1>5, <1>6 DEF PressInv, HandsOK, KeyboardOK

LEMMA PressAnswers ==
  ASSUME PressInv, PressKey
  PROVE  /\ keyboard'.key \in WentDown
         /\ keyboard'.key = Watched => owed > 0
         /\ PressInv'
<1> DEFINE k == CHOOSE k \in WentDown : \A j \in WentDown : Code[j] <= Code[k]
<1>1. WentDown \in SUBSET Keys /\ WentDown # {}
  BY DEF PressInv, KeyboardOK, WentDown, PressKey
<1>2. k \in WentDown
  BY <1>1, HighestBit
<1>3. PICK e, newMods : PopState(e, WentDown, newMods)
  BY DEF PressKey
<1>4. keyboard'.key = k
  BY <1>1, <1>3 DEF PopState, PressInv, KeyboardOK
<1>5. owed' = IF k = Watched /\ owed \in 1 .. MaxOwed THEN owed - 1 ELSE owed
  BY DEF PressKey
<1>6. Pops /\ MaxOwed \in Nat /\ owed \in 0 .. Any /\ Any = MaxOwed + 1
  BY KeysAssumption DEF PressKey, KeysAssumption, PressInv, Any
<1>7. ASSUME k = Watched
      PROVE  owed > 0
  <2>1. Watched \in Head(queue) /\ Watched \notin keyboard.current
    BY <1>2, <1>7 DEF WentDown, PressInv, KeyboardOK
  <2>2. CASE owed = Any
    BY <1>6, <2>2
  <2>3. CASE owed # Any
    <3>1. owed \in Nat /\ Affords(keyboard.current, queue, ScanState, owed)
      BY <1>6, <2>3 DEF PressInv
    <3>2. queue \in Seq(SUBSET Keys) /\ queue # <<>>
      BY <1>6 DEF PressInv, Pops
    <3>3. Rises(keyboard.current, Head(queue)) <= owed
      BY <3>1, <3>2, Decodes
    <3> QED
      BY <2>1, <3>1, <3>3 DEF Rises
  <2> QED
    BY <2>2, <2>3
<1>8. PressInv'
  <2>1. CASE owed' = owed
    BY <1>3, <1>6, <2>1, PopStateKeeps
  <2>2. CASE owed' # owed
    <3>1. Watched \in Head(queue) \cap keyboard.up /\ owed \in 1 .. MaxOwed /\ owed' = owed - 1
      BY <1>2, <1>5, <2>2 DEF WentDown
    <3> QED
      BY <1>3, <1>6, <3>1, PopStateKeeps
  <2> QED
    BY <2>1, <2>2
<1> QED
  BY <1>2, <1>4, <1>7, <1>8

\* What a script takes from the queue is not decoded.
LEMMA DrainKeeps ==
  ASSUME PressInv, Drain
  PROVE  PressInv'
<1> DEFINE pushed == IF ScanState # scanned THEN Enqueued(ScanState) ELSE queue
<1>1. host' = host /\ page' = page /\ prefix' = prefix /\ keyboard' = keyboard /\ owed' = owed
  BY DEF Drain, decoder, hands
<1>2. ScanState' = ScanState
  BY <1>1 DEF ScanState
<1>3. pushed \in Seq(SUBSET Keys)
  BY PushIsQueue, ScanIsState DEF PressInv
<1>4. owed # Any => owed \in Nat /\ Affords(keyboard.current, pushed, ScanState, owed)
  BY ScanPushes, KeysAssumption DEF PressInv, KeysAssumption, Any
<1>5. (pushed = <<>> /\ queue' = pushed) \/ (pushed # <<>> /\ queue' = Tail(pushed))
  BY DEF Drain
<1> HIDE DEF pushed
<1>6. queue' \in Seq(SUBSET Keys)
  BY <1>3, <1>5
<1>7. owed # Any => Affords(keyboard.current, queue', ScanState, owed)
  BY <1>3, <1>4, <1>5, Forgets
<1> QED
  BY <1>1, <1>2, <1>6, <1>7 DEF PressInv, HandsOK, KeyboardOK

LEMMA WaitKeeps ==
  ASSUME PressInv, WaitScan
  PROVE  PressInv'
<1>1. WasScanned(ScanState) /\ keyboard' = keyboard
  BY DEF WaitScan, decoder
<1>2. CASE owed' = owed
  BY <1>1, <1>2, ScanKeeps
<1>3. CASE owed' # owed
  <2>1. queue' = <<>> /\ Watched \notin ScanState \ keyboard.current /\ owed' = 0
    BY <1>3 DEF WaitScan
  <2>2. host' = host /\ page' = page /\ prefix' = prefix
    BY <1>1 DEF WasScanned, hands
  <2>3. ScanState' = ScanState
    BY <2>2 DEF ScanState
  <2>4. Rises(keyboard.current, ScanState) = 0
    BY <2>1 DEF Rises
  <2>5. Affords(keyboard.current, <<>>, ScanState, 0)
    BY <2>4, NothingOwed
  <2>6. 0 \in 0 .. Any /\ <<>> \in Seq(SUBSET Keys)
    BY KeysAssumption DEF KeysAssumption, Any
  <2> QED
    BY <1>1, <2>1, <2>2, <2>3, <2>5, <2>6 DEF PressInv, HandsOK, KeyboardOK
<1> QED
  BY <1>2, <1>3

LEMMA NothingMoves ==
  ASSUME PressInv, UNCHANGED <<host, page, prefix, queue, owed>>,
         keyboard'.current = keyboard.current, keyboard'.up = keyboard.up,
         DOMAIN keyboard' = DOMAIN keyboard
  PROVE  PressInv'
<1>1. ScanState' = ScanState
  BY DEF ScanState
<1> QED
  BY <1>1 DEF PressInv, HandsOK, KeyboardOK

LEMMA StepPresses ==
  ASSUME PressInv, Watched \notin HostKeys \cap PageKeys, [EventsNext]_eventsVars
  PROVE  PressInv'
<1>1. CASE UNCHANGED eventsVars
  BY <1>1, NothingMoves DEF eventsVars, hands, decoder, history
<1>2. CASE Hands
  BY <1>2, HandsAnswer
<1>3. CASE PlatformEvent
  <2>1. /\ keyboard' = [keyboard EXCEPT !.last = ToRepeat(sdl)]
        /\ UNCHANGED <<host, page, prefix, queue, owed>>
    BY <1>3 DEF PlatformEvent, history
  <2>2. /\ keyboard'.current = keyboard.current /\ keyboard'.up = keyboard.up
        /\ DOMAIN keyboard' = DOMAIN keyboard
    BY <2>1
  <2> QED
    BY <2>1, <2>2, NothingMoves
<1>4. CASE ReleaseModifier
  BY <1>4, PopStateKeeps DEF ReleaseModifier
<1>5. CASE PressKey
  BY <1>5, PressAnswers
<1>6. CASE NothingNew
  BY <1>6, PopStateKeeps DEF NothingNew
<1>7. CASE WaitScan
  BY <1>7, WaitKeeps
<1>8. CASE PollAgain \/ Repeat \/ Timeout \/ NothingToDispatch \/ EndScript
  BY <1>8, NothingMoves DEF PollAgain, Repeat, Timeout, NothingToDispatch, EndScript, hands, decoder,
                    history
<1>9. CASE DispatchTimer \/ Dispatch
  BY <1>9, ScanKeeps DEF DispatchTimer, Dispatch
<1>10. CASE Drain
  BY <1>10, DrainKeeps
<1> QED
  BY <1>1, <1>2, <1>3, <1>4, <1>5, <1>6, <1>7, <1>8, <1>9, <1>10 DEF EventsNext, Program

LEMMA InitPresses == EventsInit => PressInv
<1> SUFFICES ASSUME EventsInit PROVE PressInv
  OBVIOUS
<1>1. HandsOK /\ KeyboardOK /\ queue = <<>> /\ keyboard.current = {} /\ owed = 0
  BY DEF EventsInit, HandsOK, KeyboardOK
<1>2. queue \in Seq(SUBSET Keys) /\ owed \in 0 .. Any
  BY <1>1, KeysAssumption DEF KeysAssumption, Any
<1>3. ScanState = {}
  BY DEF EventsInit, ScanState, ScanOf
<1>4. Affords(keyboard.current, queue, ScanState, owed)
  BY <1>1, <1>3, NothingOwed DEF Rises
<1> QED
  BY <1>1, <1>2, <1>4 DEF PressInv

\* In every run the presses that no event has answered suffice for the times the watched
\* key still goes down, for a key that is not both on the host's keyboard and on the page.
THEOREM PressesSuffice ==
  Watched \notin HostKeys \cap PageKeys => (EventsSpec => []PressInv)
<1> SUFFICES ASSUME Watched \notin HostKeys \cap PageKeys PROVE EventsSpec => []PressInv
  OBVIOUS
<1>1. PressInv /\ [EventsNext]_eventsVars => PressInv'
  BY StepPresses
<1> QED
  BY <1>1, InitPresses, PTL DEF EventsSpec

\* An event of a press answers a press of its key by a hand that no other event has
\* answered: PressesAreReal, whatever the queue forgets and scripts take from it.
THEOREM PressesAnswerPresses ==
  Watched \notin HostKeys \cap PageKeys => (EventsSpec => PressesAreReal)
<1> SUFFICES ASSUME Watched \notin HostKeys \cap PageKeys PROVE EventsSpec => PressesAreReal
  OBVIOUS
<1>1. PressInv /\ [EventsNext]_eventsVars => [PressKey /\ keyboard'.key = Watched => owed > 0]_eventsVars
  BY PressAnswers
<1>2. EventsSpec => []PressInv
  BY PressesSuffice
<1> QED
  BY <1>1, <1>2, PTL DEF EventsSpec, PressesAreReal

-----------------------------------------------------------------------------
(* The release of a key *)

StateOK ==
  /\ HandsOK
  /\ queue \in Seq(SUBSET Keys)
  /\ KeyboardOK

LEMMA StepState == StateOK /\ [EventsNext]_eventsVars => StateOK'
<1> SUFFICES ASSUME StateOK, [EventsNext]_eventsVars PROVE StateOK'
  OBVIOUS
<1>1. CASE Hands
  <2>1. keyboard' = keyboard
    BY <1>1 DEF Hands, HostDown, HostUp, HostTypes, KeyDown, KeyUp, SetPrefixKeyHeld, Browser,
                decoder
  <2>2. HandsOK'
    BY <1>1 DEF Hands, HostDown, HostUp, HostTypes, KeyDown, KeyUp, SetPrefixKeyHeld, Browser,
                StateOK, HandsOK
  <2>3. queue' = queue \/ \E x \in SUBSET Keys : queue' = Enqueued(x)
    <3>1. ASSUME NEW k \in PageKeys
          PROVE  host \cup {k} \in SUBSET Keys /\ host \ {k} \in SUBSET Keys
      BY DEF StateOK, HandsOK, Keys
    <3> QED
      BY <1>1, <3>1 DEF Hands, HostDown, HostUp, HostTypes, KeyDown, KeyUp, SetPrefixKeyHeld,
                          PushState
  <2> QED
    BY <2>1, <2>2, <2>3, PushIsQueue DEF StateOK, KeyboardOK
<1>2. CASE UNCHANGED <<host, page, prefix>> /\ keyboard' = keyboard
           /\ (queue' = queue \/ queue' = Enqueued(ScanState))
  BY <1>2, ScanIsState, PushIsQueue DEF StateOK, HandsOK, KeyboardOK
<1>3. CASE PlatformEvent
  BY <1>3 DEF PlatformEvent, StateOK, HandsOK, KeyboardOK
<1>4. ASSUME NEW e, NEW down, NEW newMods, Pops, PopState(e, down, newMods)
      PROVE  StateOK'
  <2>1. Head(queue) \in SUBSET Keys /\ Tail(queue) \in Seq(SUBSET Keys)
    BY <1>4 DEF StateOK, Pops
  <2>2. KeyboardOK'
    <3>1. /\ {"key", "shift", "alpha", "last", "current", "up"} \subseteq DOMAIN keyboard'
          /\ keyboard'.current = Head(queue)
          /\ keyboard'.up = Keys \ Head(queue)
      BY <1>4 DEF PopState, SeenUp, StateOK, KeyboardOK
    <3> QED
      BY <2>1, <3>1 DEF KeyboardOK
  <2> QED
    BY <1>4, <2>1, <2>2 DEF PopState, hands, StateOK, HandsOK
<1>5. CASE Drain
  <2> DEFINE pushed == IF ScanState # scanned THEN Enqueued(ScanState) ELSE queue
  <2>1. pushed \in Seq(SUBSET Keys)
    BY PushIsQueue, ScanIsState DEF StateOK
  <2>2. (pushed = <<>> /\ queue' = pushed) \/ (pushed # <<>> /\ queue' = Tail(pushed))
    BY <1>5 DEF Drain
  <2> HIDE DEF pushed
  <2>3. queue' \in Seq(SUBSET Keys)
    BY <2>1, <2>2
  <2> QED
    BY <1>5, <2>3 DEF Drain, decoder, hands, StateOK, HandsOK, KeyboardOK
<1>6. CASE UNCHANGED eventsVars
  BY <1>2, <1>6 DEF eventsVars, hands, decoder, history
<1>7. CASE ReleaseModifier \/ PressKey \/ NothingNew
  BY <1>4, <1>7 DEF ReleaseModifier, PressKey, NothingNew
<1>8. CASE WaitScan \/ DispatchTimer \/ Dispatch
  BY <1>2, <1>8 DEF WaitScan, DispatchTimer, Dispatch, WasScanned, hands, decoder
<1>9. CASE PollAgain \/ Repeat \/ Timeout \/ NothingToDispatch \/ EndScript
  BY <1>2, <1>9 DEF PollAgain, Repeat, Timeout, NothingToDispatch, EndScript, hands, decoder,
                    history
<1> QED
  BY <1>1, <1>3, <1>5, <1>6, <1>7, <1>8, <1>9 DEF EventsNext, Program

\* The last state that the program knows of
LastOf(q, seen) == IF q = <<>> THEN seen ELSE q[Len(q)]
LastSeen == LastOf(queue, keyboard.current \ taken)

\* A key of the last state was seen by the last scan, is held on the page, whose handler
\* will push its release, or is one of the host that only the page has shown
ReleaseInv ==
  /\ StateOK
  /\ LastSeen \subseteq scanned \cup page \cup shown

LEMMA LastOfPush ==
  ASSUME queue \in Seq(SUBSET Keys), NEW x \in SUBSET Keys, NEW seen
  PROVE  LastOf(Enqueued(x), seen) = x
<1>1. CASE Len(queue) < QueueLength
  BY <1>1, AppendProperties DEF Enqueued, LastOf
<1>2. CASE ~ (Len(queue) < QueueLength)
  <2>1. Enqueued(x) = Append(Tail(queue), x)
    BY <1>2 DEF Enqueued
  <2>2. queue # <<>> /\ Tail(queue) \in Seq(SUBSET Keys)
    BY <1>2, KeysAssumption DEF KeysAssumption
  <2> QED
    BY <2>1, <2>2, AppendProperties DEF LastOf
<1> QED
  BY <1>1, <1>2

\* The state that is popped becomes the last that was decoded if it was the last pushed.
LEMMA LastOfTail ==
  ASSUME NEW S, NEW q \in Seq(S), q # <<>>, NEW seen
  PROVE  LastOf(Tail(q), Head(q)) = LastOf(q, seen)
<1>1. /\ Tail(q) \in Seq(S) /\ Len(q) \in Nat \ {0} /\ Len(Tail(q)) = Len(q) - 1 /\ Head(q) = q[1]
      /\ \A i \in 1 .. Len(Tail(q)) : Tail(q)[i] = q[i + 1]
  BY HeadTailProperties
<1>2. CASE Tail(q) = <<>>
  <2>1. Len(Tail(q)) = 0
    BY <1>1, <1>2, EmptySeq
  <2>2. Len(q) = 1
    <3>1. Len(q) \in Nat /\ Len(Tail(q)) = Len(q) - 1
      BY <1>1
    <3> DEFINE n == Len(q)
               t == Len(Tail(q))
    <3>2. n \in Nat /\ t = n - 1 /\ t = 0
      BY <2>1, <3>1
    <3> HIDE DEF n, t
    <3>3. n = 1
      BY <3>2
    <3> QED
      BY <3>3 DEF n
  <2> QED
    BY <1>1, <1>2, <2>2 DEF LastOf
<1>3. CASE Tail(q) # <<>>
  <2>1. Len(Tail(q)) \in 1 .. Len(Tail(q))
    BY <1>1, <1>3
  <2>2. Tail(q)[Len(Tail(q))] = q[Len(Tail(q)) + 1] /\ Len(Tail(q)) + 1 = Len(q)
    BY <1>1, <2>1
  <2> QED
    BY <1>3, <2>2 DEF LastOf
<1> QED
  BY <1>2, <1>3

\* A handler of the page pushes the release of its key; what it shows of the host, the
\* last scan saw, or it is in shown.
LEMMA HandsShow ==
  ASSUME ReleaseInv, Hands
  PROVE  LastSeen' \subseteq scanned' \cup page' \cup shown'
<1>1. UNCHANGED <<scanned, keyboard, taken>>
  BY DEF Hands, HostDown, HostUp, HostTypes, KeyDown, KeyUp, SetPrefixKeyHeld, Browser, decoder
<1>2. LastSeen \subseteq scanned \cup page \cup shown /\ HandsOK
  BY DEF ReleaseInv, StateOK
<1>3. ASSUME UNCHANGED <<queue, page, shown>>
      PROVE  LastSeen' \subseteq scanned' \cup page' \cup shown'
  BY <1>1, <1>2, <1>3 DEF LastSeen, LastOf
<1>4. CASE \E k \in HostKeys : HostDown(k) \/ HostUp(k)
  BY <1>3, <1>4 DEF HostDown, HostUp, Browser
<1>5. CASE \E e \in HostEvents : HostTypes(e)
  BY <1>3, <1>5 DEF HostTypes, Browser
<1>6. CASE \E k \in Prefixes : SetPrefixKeyHeld(k)
  BY <1>3, <1>6 DEF SetPrefixKeyHeld, Browser
<1>7. ASSUME NEW x \in SUBSET Keys, PushState(x), x \subseteq host \cup page'
      PROVE  LastSeen' \subseteq scanned' \cup page' \cup shown'
  <2>1. queue' = Enqueued(x) /\ shown' = (x \cap host) \ scanned
    BY <1>7 DEF PushState
  <2>2. LastSeen' = x
    BY <2>1, LastOfPush DEF LastSeen, ReleaseInv, StateOK
  <2> QED
    BY <1>1, <1>7, <2>1, <2>2
<1>8. ASSUME NEW k \in PageKeys, KeyDown(k) \/ KeyUp(k)
      PROVE  LastSeen' \subseteq scanned' \cup page' \cup shown'
  <2>1. host \cup {k} \in SUBSET Keys /\ host \ {k} \in SUBSET Keys
    BY <1>2 DEF HandsOK, Keys
  <2>2. CASE KeyDown(k)
    <3>1. PushState(host \cup {k}) /\ page' = page \cup {k}
      BY <2>2 DEF KeyDown, Browser
    <3> QED
      BY <1>7, <2>1, <3>1
  <2>3. CASE KeyUp(k)
    <3>1. PushState(host \ {k})
      BY <2>3 DEF KeyUp
    <3> QED
      BY <1>7, <2>1, <3>1
  <2> QED
    BY <1>8, <2>2, <2>3
<1> QED
  BY <1>4, <1>5, <1>6, <1>8 DEF Hands

\* A scan pushes what it sees, or has already.
LEMMA ScanShows ==
  ASSUME ReleaseInv, WasScanned(ScanState), UNCHANGED <<keyboard, taken>>
  PROVE  LastSeen' \subseteq scanned' \cup page' \cup shown'
<1>1. /\ page' = page /\ scanned' = ScanState
      /\ queue' = IF ScanState # scanned THEN Enqueued(ScanState) ELSE queue
      /\ shown' = IF ScanState # scanned THEN {} ELSE shown
  BY DEF WasScanned, hands
<1>2. CASE ScanState = scanned
  <2>1. LastSeen' = LastSeen
    BY <1>1, <1>2 DEF LastSeen, LastOf
  <2> QED
    BY <1>1, <1>2, <2>1 DEF ReleaseInv
<1>3. CASE ScanState # scanned
  <2>1. LastSeen' = ScanState
    BY <1>1, <1>3, LastOfPush, ScanIsState DEF LastSeen, ReleaseInv, StateOK
  <2> QED
    BY <1>1, <2>1
<1> QED
  BY <1>2, <1>3

LEMMA PopShows ==
  ASSUME ReleaseInv, Pops, NEW e, NEW down, NEW newMods, PopState(e, down, newMods)
  PROVE  /\ UNCHANGED <<scanned, page, shown>>
         /\ LastSeen' = LastSeen
<1>1. /\ queue' = Tail(queue) /\ taken' = {} /\ UNCHANGED <<scanned, page, shown>>
  BY DEF PopState, hands
<1>2. keyboard'.current = Head(queue)
  BY DEF PopState, ReleaseInv, StateOK, KeyboardOK
<1>3. LastSeen' = LastOf(Tail(queue), Head(queue))
  BY <1>1, <1>2 DEF LastSeen, LastOf
<1>4. LastOf(Tail(queue), Head(queue)) = LastSeen
  BY LastOfTail DEF ReleaseInv, StateOK, Pops, LastSeen
<1> QED
  BY <1>1, <1>3, <1>4

\* What a script takes from the queue is the last that it has seen of these keys.
LEMMA DrainShows ==
  ASSUME ReleaseInv, Drain
  PROVE  LastSeen' \subseteq scanned' \cup page' \cup shown'
<1> DEFINE pushed == IF ScanState # scanned THEN Enqueued(ScanState) ELSE queue
<1>1. /\ page' = page /\ scanned' = ScanState /\ keyboard' = keyboard
      /\ shown' = IF ScanState # scanned THEN {} ELSE shown
  BY DEF Drain, decoder, hands
<1>2. pushed \in Seq(SUBSET Keys)
  BY PushIsQueue, ScanIsState DEF ReleaseInv, StateOK
<1>3. LastOf(pushed, keyboard.current \ taken) \subseteq scanned' \cup page' \cup shown'
  <2>1. CASE ScanState = scanned
    BY <1>1, <2>1 DEF ReleaseInv, LastSeen
  <2>2. CASE ScanState # scanned
    <3>1. LastOf(pushed, keyboard.current \ taken) = ScanState
      BY <2>2, LastOfPush, ScanIsState DEF ReleaseInv, StateOK
    <3> QED
      BY <1>1, <3>1
  <2> QED
    BY <2>1, <2>2
<1>4. \/ pushed = <<>> /\ queue' = <<>> /\ taken' = taken
      \/ pushed # <<>> /\ queue' = Tail(pushed) /\ taken' = keyboard.current \ Head(pushed)
  BY DEF Drain
<1> HIDE DEF pushed
<1>5. CASE pushed = <<>>
  <2>1. LastSeen' = keyboard.current \ taken
    BY <1>1, <1>4, <1>5 DEF LastSeen, LastOf
  <2> QED
    BY <1>3, <1>5, <2>1 DEF LastOf
<1>6. CASE pushed # <<>>
  <2>1. LastSeen' \subseteq LastOf(Tail(pushed), Head(pushed))
    BY <1>1, <1>4, <1>6 DEF LastSeen, LastOf
  <2>2. LastOf(Tail(pushed), Head(pushed)) = LastOf(pushed, keyboard.current \ taken)
    BY <1>2, <1>6, LastOfTail
  <2> QED
    BY <1>3, <2>1, <2>2
<1> QED
  BY <1>5, <1>6

LEMMA StepReleases ==
  ASSUME ReleaseInv, [EventsNext]_eventsVars
  PROVE  ReleaseInv'
<1>1. StateOK'
  BY StepState DEF ReleaseInv
<1>2. CASE Hands
  BY <1>1, <1>2, HandsShow DEF ReleaseInv
<1>3. ASSUME UNCHANGED <<page, scanned, queue, taken, shown>>,
             keyboard'.current = keyboard.current
      PROVE  ReleaseInv'
  BY <1>1, <1>3 DEF ReleaseInv, LastSeen, LastOf
<1>4. CASE UNCHANGED eventsVars
  BY <1>3, <1>4 DEF eventsVars, hands, decoder, history
<1>5. CASE PlatformEvent
  <2>1. keyboard'.current = keyboard.current
    BY <1>5 DEF PlatformEvent, ReleaseInv, StateOK, KeyboardOK
  <2> QED
    BY <1>3, <1>5, <2>1 DEF PlatformEvent, history
<1>6. CASE ReleaseModifier \/ PressKey \/ NothingNew
  <2>1. PICK e, down, newMods : PopState(e, down, newMods)
    BY <1>6 DEF ReleaseModifier, PressKey, NothingNew
  <2>2. Pops
    BY <1>6 DEF ReleaseModifier, PressKey, NothingNew
  <2> QED
    BY <1>1, <2>1, <2>2, PopShows DEF ReleaseInv
<1>7. CASE WaitScan \/ DispatchTimer \/ Dispatch
  <2>1. WasScanned(ScanState) /\ UNCHANGED <<keyboard, taken>>
    BY <1>7 DEF WaitScan, DispatchTimer, Dispatch, decoder
  <2> QED
    BY <1>1, <2>1, ScanShows DEF ReleaseInv
<1>8. CASE PollAgain \/ Repeat \/ Timeout \/ NothingToDispatch \/ EndScript
  BY <1>3, <1>8 DEF PollAgain, Repeat, Timeout, NothingToDispatch, EndScript, hands, decoder,
                    history
<1>9. CASE Drain
  BY <1>1, <1>9, DrainShows DEF ReleaseInv
<1> QED
  BY <1>2, <1>4, <1>5, <1>6, <1>7, <1>8, <1>9 DEF EventsNext, Program

\* In every run, however often the browser calls between two scans, a key of the last
\* state that the program knows of was seen by the last scan, is held on the page, or is
\* one of the host that only a handler of the page has shown.
THEOREM ReleasesShow == EventsSpec => []ReleaseInv
<1>1. EventsInit => ReleaseInv
  BY DEF EventsInit, ReleaseInv, StateOK, HandsOK, KeyboardOK, LastSeen, LastOf
<1>2. ReleaseInv /\ [EventsNext]_eventsVars => ReleaseInv'
  BY StepReleases
<1> QED
  BY <1>1, <1>2, PTL DEF EventsSpec

\* When a scan leaves the queue empty, the keys that events are decoded with are still
\* held, a script has taken their release, or they went down and up between two scans
\* while a handler of the page showed them: ReleasesAreSeen, for every set of keys, every
\* length of the queue and any number of calls of the browser between two scans.
THEOREM ScansSeeReleases == EventsSpec => ReleasesAreSeen
<1>1. ASSUME ReleaseInv, WaitScan, queue' = <<>>
      PROVE  keyboard.current \subseteq Held \cup taken \cup shown
  <2>1. queue = <<>>
    BY <1>1 DEF WaitScan
  <2>2. scanned = ScanState
    <3>1. Enqueued(ScanState) # <<>>
      BY <1>1, PushIsQueue, ScanIsState DEF ReleaseInv, StateOK
    <3> QED
      BY <1>1, <3>1 DEF WaitScan, WasScanned
  <2>3. keyboard.current \ taken \subseteq ScanState \cup page \cup shown
    BY <1>1, <2>1, <2>2 DEF ReleaseInv, LastSeen, LastOf
  <2>4. ScanState \subseteq Held
    BY DEF ScanState, ScanOf, Held
  <2> QED
    BY <2>3, <2>4 DEF Held
<1>2. ReleaseInv /\ [EventsNext]_eventsVars
        => [WaitScan /\ queue' = <<>> => keyboard.current \subseteq Held \cup taken \cup shown]_eventsVars
  BY <1>1
<1>3. EventsSpec => []ReleaseInv
  BY ReleasesShow
<1> QED
  BY <1>2, <1>3, PTL DEF EventsSpec, ReleasesAreSeen

=============================================================================

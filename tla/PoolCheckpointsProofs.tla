----------------------- MODULE PoolCheckpointsProofs -----------------------
(***************************************************************************)
(* The expression pool stays well formed under its checkpoints, for any    *)
(* capacity, any sizes of the objects, any number of handles and any depth *)
(* of the nesting.                                                         *)
(*                                                                         *)
(* What is true of the pool and of the frames holds whatever the code does *)
(* with its handles (PoolInvariance).  That the reference counts are exact *)
(* needs the rule of the comments, Careful (HandleInvariance).             *)
(***************************************************************************)
EXTENDS PoolCheckpoints, FiniteSetTheorems, WellFoundedInduction, SequenceTheorems, TLAPS

\* The scopes whose checkpoint is active
Live == {i \in 1 .. Current : frames[i].active}

\* The operation under way works above the topmost checkpoint, and a jump goes
\* back to it.
Ops == {"idle", "name", "compact", "register", "restore"}
DoingOK ==
  /\ doing \in [op : Ops, pos : Nat, scope : Nat, slot : Slots \cup {0}]
  /\ doing.op \in {"name", "compact", "register"} =>
       /\ doing.pos >= frames[topmost].end
       /\ doing.scope \in 1 .. Current /\ doing.slot \in Slots
  /\ doing.op = "restore" =>
       topmost = Current /\ doing.pos = frames[Current].end /\ frames[Current].landed

\* JumpTargetsAlive, with the order of the places and of the remembered ends
FramesOK ==
  /\ topmost \in Live
  /\ \A i \in Live : /\ i <= topmost
                     /\ i > 1 => /\ frames[i].parent \in Live /\ frames[i].parent < i
                                 /\ \A j \in Live : j < i => j <= frames[i].parent
  /\ \A t \in CheckpointType : HasCheckpoint(t) =>
       /\ place[t] \in Live /\ frames[place[t]].kind = "breaker" /\ frames[place[t]].type = t
       /\ \A u \in CheckpointType : HasCheckpoint(u) /\ t < u => place[t] < place[u]
EndsOK ==
  /\ \A i \in Live, j \in Live : i <= j => frames[i].end <= frames[j].end
  /\ frames[topmost].end <= cursor

\* The objects lie one after the other up to the cursor, at every step.
Geometry ==
  /\ cursor = 0 \/ \E o \in objects : o.pos = 0
  /\ \A o \in objects : /\ o.pos + o.size <= cursor
                        /\ o.pos + o.size = cursor \/ \E p \in objects : p.pos = o.pos + o.size
  /\ \A o \in objects, p \in objects :
       o # p => o.id # p.id /\ (o.pos + o.size <= p.pos \/ p.pos + p.size <= o.pos)

\* The objects the table gives the place of
Settled(o) ==
  CASE doing.op = "idle" -> TRUE
    [] doing.op \in {"name", "compact"} -> o.pos # doing.pos
    [] doing.op = "register" -> o.pos < doing.pos
    [] doing.op = "restore" -> FALSE

TableOK ==
  /\ \A id \in Id : objectOffset[id] # Free =>
       \E o \in objects : o.id = id /\ (doing.op # "register" => o.pos = objectOffset[id])
  /\ \A o \in objects : Settled(o) => o.id \in Id /\ objectOffset[o.id] = o.pos
  /\ doing.op \in {"compact", "register"} => \A o \in objects : o.id \in Id
  /\ doing.op = "register" => \A o \in objects : objectOffset[o.id] # Free
  /\ doing.op \in {"name", "compact"} =>
       \E o \in objects : o.pos = doing.pos /\ (doing.op = "name" => o.id = NoId)
                          /\ (doing.op = "compact" => objectOffset[o.id] = Free)
  /\ doing.op = "restore" => objectOffset = NothingRegistered

\* What a checkpoint saw ends where the checkpoint says.
SawOK ==
  /\ CheckpointedPartUntouched
  /\ \A i \in Live, o \in objects :
       o.pos < frames[i].end => o.id \in Id /\ o.pos + o.size <= frames[i].end

IInv == TypeOK /\ DoingOK /\ FramesOK /\ EndsOK /\ Geometry /\ TableOK /\ SawOK

-----------------------------------------------------------------------------
\* The handles, when the code keeps to the rule

HandlesOK ==
  /\ \A d \in Depth : d > Current => handle[d] = EmptyHandles[d]
  /\ doing.op \in {"name", "compact", "register"} => ~ frames[Current].landed
  /\ doing.op # "restore" /\ ~ frames[Current].landed =>
       \A d \in Depth, s \in Slots :
         handle[d][s] # NoId =>
           \/ objectOffset[handle[d][s]] # Free
           \/ doing.op \in {"compact", "register"} /\ d = doing.scope /\ s = doing.slot
  /\ doing.op = "name" => handle[doing.scope][doing.slot] = NoId
  /\ doing.op = "compact" =>
       \A o \in objects : o.pos = doing.pos => handle[doing.scope][doing.slot] = o.id
  /\ doing.op = "register" =>
       \A o \in objects : handle[doing.scope][doing.slot] # o.id

\* The objects whose count is the number of their owners
Counted(o) ==
  CASE doing.op \in {"idle", "register"} -> TRUE
    [] doing.op \in {"name", "compact"} -> o.pos # doing.pos
    [] doing.op = "restore" -> o.pos < doing.pos

CountsOK == \A o \in objects : Counted(o) => o.count = Cardinality(Owners(o))

HInv == IInv /\ HandlesOK /\ CountsOK

-----------------------------------------------------------------------------
(* What the types give *)

LEMMA Constants ==
  /\ MaxNumberOfObjects \in Nat \ {0} /\ BufferSize \in Nat \ {0} /\ BufferSize <= MaxNumberOfObjects
  /\ Sizes \subseteq Nat \ {0} /\ MaxDepth \in Nat \ {0} /\ Depth \subseteq Nat \ {0}
  /\ Id \subseteq Nat /\ NoId \notin Id /\ Free = BufferSize
BY PoolAssumption DEF Id, NoId, Free, Depth

LEMMA ObjectTypes ==
  ASSUME TypeOK, NEW o \in objects
  PROVE  /\ o \in Object /\ o.id \in Id \cup {NoId} /\ o.pos \in Nat /\ o.size \in Nat \ {0} /\ o.count \in Int
         /\ \A n \in Int : /\ [o EXCEPT !.count = n] \in Object
                           /\ [o EXCEPT !.count = n].id = o.id /\ [o EXCEPT !.count = n].pos = o.pos
                           /\ [o EXCEPT !.count = n].size = o.size /\ [o EXCEPT !.count = n].count = n
BY DEF TypeOK, Object

LEMMA FrameTypes ==
  ASSUME TypeOK
  PROVE  /\ Current \in Nat \ {0} /\ Current \in Depth /\ topmost \in 1 .. Current
         /\ Live \subseteq 1 .. Current
         /\ \A i \in 1 .. Current : /\ frames[i] \in Frame /\ frames[i].end \in Nat /\ frames[i].parent \in 0 .. MaxDepth
                                    /\ frames[i].active \in BOOLEAN /\ frames[i].landed \in BOOLEAN
<1>1. frames \in Seq(Frame) /\ Current \in Depth /\ topmost \in 1 .. Current
  BY DEF TypeOK
<1>2. Current \in Nat \ {0}
  BY <1>1, Constants
<1>3. \A i \in 1 .. Current : frames[i] \in Frame
  BY <1>1 DEF Current
<1> QED
  BY <1>1, <1>2, <1>3 DEF Live, Frame

\* The topmost checkpoint remembers the highest end.
LEMMA EndsBelow ==
  ASSUME TypeOK, FramesOK, EndsOK, NEW i \in Live
  PROVE  /\ frames[i].end \in Nat /\ cursor \in Nat /\ frames[topmost].end \in Nat
         /\ frames[i].end <= frames[topmost].end /\ frames[i].end <= cursor
<1>1. topmost \in Live /\ i <= topmost /\ i \in 1 .. Current
  BY FrameTypes DEF FramesOK
<1>2. frames[i].end <= frames[topmost].end
  BY <1>1 DEF EndsOK
<1>3. cursor \in Nat
  BY Constants DEF TypeOK
<1> QED
  BY <1>1, <1>2, <1>3, FrameTypes DEF EndsOK

\* A scope is inside a checkpoint that saw the place.
LEMMA InnerIs ==
  ASSUME TypeOK, EndsOK, NEW d \in 1 .. Current, NEW pos \in Nat
  PROVE  IsInner(d, pos) <=> \E i \in Live : i <= d /\ pos < frames[i].end
<1>1. /\ ScopesOf(d) = {i \in Live : i <= d} /\ SegmentOf(pos) = {i \in Live : frames[i].end <= pos}
      /\ Live \subseteq 1 .. Current /\ Current \in Nat /\ \A i \in Live : i \in Nat /\ frames[i].end \in Nat
  BY FrameTypes DEF ScopesOf, SegmentOf, Live
<1>2. IsFiniteSet(ScopesOf(d)) /\ IsFiniteSet(SegmentOf(pos))
  <2>1. IsFiniteSet(1 .. Current)
    BY <1>1, FS_Interval
  <2> QED
    BY <1>1, <2>1, FS_Subset
<1>3. /\ Cardinality(ScopesOf(d)) \in Nat /\ Cardinality(SegmentOf(pos)) \in Nat
  BY <1>2, FS_CardinalityType
<1>4. ASSUME NEW i \in Live, i <= d, pos < frames[i].end
      PROVE  IsInner(d, pos)
  <2>1. SegmentOf(pos) \subseteq ScopesOf(d) \ {i}
    <3> SUFFICES ASSUME NEW j \in Live, frames[j].end <= pos PROVE j <= d /\ j # i
      BY <1>1
    <3>1. ~(i <= j)
      BY <1>1, <1>4 DEF EndsOK
    <3> QED
      BY <1>1, <1>4, <3>1
  <2>2. IsFiniteSet(ScopesOf(d) \ {i}) /\ Cardinality(ScopesOf(d) \ {i}) = Cardinality(ScopesOf(d)) - 1
    BY <1>1, <1>2, <1>4, FS_RemoveElement
  <2>3. Cardinality(SegmentOf(pos)) <= Cardinality(ScopesOf(d) \ {i})
    BY <2>1, <2>2, FS_Subset
  <2> QED
    BY <1>3, <2>2, <2>3 DEF IsInner
<1>5. ASSUME \A i \in Live : ~(i <= d /\ pos < frames[i].end)
      PROVE  ~IsInner(d, pos)
  <2>1. ScopesOf(d) \subseteq SegmentOf(pos)
    <3> SUFFICES ASSUME NEW i \in Live, i <= d PROVE frames[i].end <= pos
      BY <1>1
    <3>1. ~(pos < frames[i].end)
      BY <1>5
    <3> QED
      BY <1>1, <3>1
  <2>2. Cardinality(ScopesOf(d)) <= Cardinality(SegmentOf(pos))
    BY <1>2, <2>1, FS_Subset
  <2> QED
    BY <1>3, <2>2 DEF IsInner
<1> QED
  BY <1>4, <1>5

\* An object is known by its place, and by its identifier.
LEMMA ObjectsApart ==
  ASSUME TypeOK, Geometry, NEW o \in objects, NEW p \in objects, o.pos = p.pos \/ o.id = p.id
  PROVE  o = p
<1>1. o.pos \in Nat /\ o.size \in Nat \ {0} /\ p.pos \in Nat /\ p.size \in Nat \ {0}
  BY ObjectTypes
<1> QED
  BY <1>1 DEF Geometry

\* Pool::object finds the object that is registered.
LEMMA ObjectOfId ==
  ASSUME TypeOK, Geometry, TableOK, doing.op # "register", NEW id \in Id, objectOffset[id] # Free
  PROVE  /\ ObjectOf(id) \in objects /\ ObjectOf(id).id = id /\ ObjectOf(id).pos = objectOffset[id]
         /\ objectOffset[id] \in Nat
<1>1. PICK o \in objects : o.id = id /\ o.pos = objectOffset[id]
  BY DEF TableOK
<1>2. ObjectOf(id) \in objects /\ ObjectOf(id).pos = objectOffset[id]
  BY <1>1 DEF ObjectOf
<1>3. ObjectOf(id) = o
  BY <1>1, <1>2, ObjectsApart
<1> QED
  BY <1>1, <1>3, ObjectTypes

-----------------------------------------------------------------------------
(* Changes to the objects *)

\* The object o becomes n, in the same place.
Replaced(o, n) == (objects \ {o}) \cup {n}

\* Nothing moves when an object above the checkpoints changes its count or takes
\* its identifier.
LEMMA ReplaceKeeps ==
  ASSUME TypeOK, FramesOK, EndsOK, Geometry, SawOK,
         NEW o \in objects, NEW n \in Object, n.pos = o.pos, n.size = o.size,
         \A p \in objects : p # o => p.id # n.id,
         o.pos >= frames[topmost].end,
         objects' = Replaced(o, n), UNCHANGED <<cursor, frames>>
  PROVE  objects' \subseteq Object /\ Geometry' /\ SawOK'
<1>1. /\ objects \subseteq Object
      /\ \A x \in objects' : x = n \/ (x \in objects /\ x # o)
      /\ \A x \in objects : x # o => x \in objects'
      /\ n \in objects'
  BY DEF Replaced, TypeOK
<1>2. /\ \A x \in objects : x.pos \in Nat /\ x.size \in Nat \ {0}
      /\ n.pos \in Nat /\ n.size \in Nat \ {0}
  BY ObjectTypes
<1>3. Geometry'
  <2>1. cursor' = 0 \/ \E x \in objects' : x.pos = 0
    BY <1>1 DEF Geometry
  <2>2. \A x \in objects' : /\ x.pos + x.size <= cursor'
                            /\ x.pos + x.size = cursor' \/ \E p \in objects' : p.pos = x.pos + x.size
    <3>1. \A x \in objects : x.pos + x.size = cursor \/ \E p \in objects' : p.pos = x.pos + x.size
      BY <1>1 DEF Geometry
    <3>2. \A x \in objects : x.pos + x.size <= cursor
      BY DEF Geometry
    <3> QED
      BY <1>1, <3>1, <3>2
  <2>3. ASSUME NEW x \in objects', NEW p \in objects', x # p
        PROVE  x.id # p.id /\ (x.pos + x.size <= p.pos \/ p.pos + p.size <= x.pos)
    <3>1. CASE x = n
      <4>1. p \in objects /\ p # o
        BY <1>1, <2>3, <3>1
      <4> QED
        BY <3>1, <4>1 DEF Geometry
    <3>2. CASE p = n
      <4>1. x \in objects /\ x # o
        BY <1>1, <2>3, <3>2
      <4> QED
        BY <3>2, <4>1 DEF Geometry
    <3>3. CASE x # n /\ p # n
      BY <1>1, <2>3, <3>3 DEF Geometry
    <3> QED
      BY <3>1, <3>2, <3>3
  <2> QED
    BY <2>1, <2>2, <2>3 DEF Geometry
<1>4. ASSUME NEW i \in Live
      PROVE  /\ ~(o.pos < frames[i].end) /\ ~(n.pos < frames[i].end)
             /\ {x \in objects' : x.pos < frames[i].end} = {x \in objects : x.pos < frames[i].end}
  <2>1. ~(o.pos < frames[i].end) /\ ~(n.pos < frames[i].end)
    BY <1>2, EndsBelow
  <2> QED
    BY <1>1, <2>1
<1>5. SawOK'
  <2>1. CheckpointedPartUntouched'
    BY <1>4 DEF SawOK, CheckpointedPartUntouched, Live, Current
  <2>2. Live' = Live
    BY DEF Live, Current
  <2>3. ASSUME NEW i \in Live, NEW x \in objects', x.pos < frames[i].end
        PROVE  x.id \in Id /\ x.pos + x.size <= frames[i].end
    BY <1>1, <1>4, <2>3 DEF SawOK
  <2> QED
    BY <2>1, <2>2, <2>3 DEF SawOK
<1> QED
  BY <1>1, <1>3, <1>5

-----------------------------------------------------------------------------
(* Identifiers *)

\* An object that is being built finds a free identifier: the others have their
\* places, and these are fewer than the identifiers.
LEMMA SomeIdentifierIsFree ==
  ASSUME TypeOK, DoingOK, Geometry, TableOK, doing.op = "name"
  PROVE  \E id \in Id : objectOffset[id] = Free
<1> SUFFICES ASSUME \A id \in Id : objectOffset[id] # Free PROVE FALSE
  OBVIOUS
<1>1. PICK raw \in objects : raw.pos = doing.pos /\ raw.id = NoId
  BY DEF TableOK
<1> DEFINE Places == (0 .. BufferSize - 1) \ {doing.pos}
<1>2. ASSUME NEW o \in objects PROVE o.pos \in 0 .. BufferSize - 1
  <2>1. o.pos \in Nat /\ o.size \in Nat \ {0} /\ o.pos + o.size <= cursor /\ cursor <= BufferSize /\ cursor \in Nat
    BY ObjectTypes, Constants DEF Geometry, TypeOK
  <2> QED
    BY <2>1, Constants
<1>3. ASSUME NEW id \in Id
      PROVE  \E o \in objects : o.id = id /\ o.pos = objectOffset[id] /\ o.pos \in Places
  <2>1. PICK o \in objects : o.id = id /\ o.pos = objectOffset[id]
    BY DEF TableOK
  <2>2. o.pos # doing.pos
    BY <1>1, <2>1, Constants, ObjectsApart
  <2> QED
    BY <1>2, <2>1, <2>2
<1>4. objectOffset \in [Id -> Places]
  <2>1. \A id \in Id : objectOffset[id] \in Places
    BY <1>3
  <2> HIDE DEF Places
  <2> QED
    BY <2>1 DEF TypeOK
<1>5. IsFiniteSet(Places) /\ Cardinality(Places) = BufferSize - 1
  <2>1. IsFiniteSet(0 .. BufferSize - 1) /\ Cardinality(0 .. BufferSize - 1) = BufferSize
    BY Constants, FS_Interval
  <2>2. doing.pos \in 0 .. BufferSize - 1
    BY <1>1, <1>2
  <2> QED
    BY <2>1, <2>2, FS_RemoveElement
<1>6. IsFiniteSet(Id) /\ Cardinality(Id) = MaxNumberOfObjects
  BY Constants, FS_Interval DEF Id
<1>7. Cardinality(Places) < Cardinality(Id)
  BY <1>5, <1>6, Constants
<1> HIDE DEF Places
<1>8. PICK x \in Id, y \in Id : x # y /\ objectOffset[x] = objectOffset[y]
  BY <1>4, <1>5, <1>6, <1>7, FS_PigeonHole
<1>9. PICK o \in objects : o.id = x /\ o.pos = objectOffset[x]
  BY <1>3
<1>10. PICK p \in objects : p.id = y /\ p.pos = objectOffset[y]
  BY <1>3
<1> QED
  BY <1>8, <1>9, <1>10, ObjectsApart

\* How far an identifier is from the last one given
Distance(id) == (id + MaxNumberOfObjects - 1 - lastId) % MaxNumberOfObjects

\* nextFreeIdentifier returns a free identifier when there is one.
LEMMA NextIsFree ==
  ASSUME TypeOK, \E id \in Id : objectOffset[id] = Free
  PROVE  NextFreeIdentifier \in Id /\ objectOffset[NextFreeIdentifier] = Free
<1> DEFINE free == {id \in Id : objectOffset[id] = Free}
           P == {Distance(id) : id \in free}
<1>1. ASSUME NEW id \in Id PROVE Distance(id) \in Nat
  <2>1. MaxNumberOfObjects \in Nat \ {0} /\ lastId \in 0 .. MaxNumberOfObjects - 1 /\ id \in Nat
    BY Constants DEF TypeOK, Id
  <2>2. id + MaxNumberOfObjects - 1 - lastId \in Nat
    BY <2>1
  <2> QED
    BY <2>1, <2>2 DEF Distance
<1>2. P \subseteq Nat /\ P # {}
  BY <1>1
<1>3. PICK p \in P : \A q \in P : ~(<<q, p>> \in OpToRel(<, Nat))
  BY <1>2, WFMin, NatLessThanWellFounded
<1>4. ASSUME NEW q \in P PROVE p <= q
  <2>1. q < p => <<q, p>> \in OpToRel(<, Nat)
    BY <1>2, Zenon DEF OpToRel
  <2>2. ~(q < p)
    BY <1>3, <2>1, Zenon
  <2>3. p \in Nat /\ q \in Nat
    BY <1>2, Zenon
  <2> HIDE DEF P
  <2> QED
    BY <2>2, <2>3
<1>5. PICK id \in free : Distance(id) = p
  OBVIOUS
<1>6. \A other \in free : Distance(id) <= Distance(other)
  BY <1>4, <1>5
<1>7. NextFreeIdentifier = CHOOSE i \in free : \A other \in free : Distance(i) <= Distance(other)
  BY Zenon DEF NextFreeIdentifier, Distance
<1>8. NextFreeIdentifier \in free
  <2> HIDE DEF free
  <2> QED
    BY <1>6, <1>7
<1> QED
  BY <1>8

-----------------------------------------------------------------------------
(* The table *)

\* registerObject, on objects with identifiers of their own
LEMMA Registers ==
  ASSUME NEW objs, objs \subseteq Object,
         NEW table \in [Id -> 0 .. Free],
         \A o \in objs : o.pos < Free,
         \A o \in objs, p \in objs : o.id = p.id => o = p
  PROVE  /\ Register(table, objs) \in [Id -> 0 .. Free]
         /\ \A o \in objs : o.id \in Id => Register(table, objs)[o.id] = o.pos
         /\ \A id \in Id : (\A o \in objs : o.id # id) => Register(table, objs)[id] = table[id]
<1>1. ASSUME NEW o \in objs, o.id \in Id
      PROVE  Register(table, objs)[o.id] = o.pos
  <2>1. (CHOOSE p \in objs : p.id = o.id) = o
    OBVIOUS
  <2> QED
    BY <1>1, <2>1 DEF Register
<1>2. ASSUME NEW id \in Id, \A o \in objs : o.id # id
      PROVE  Register(table, objs)[id] = table[id]
  BY <1>2 DEF Register
<1>3. ASSUME NEW id \in Id
      PROVE  Register(table, objs)[id] \in 0 .. Free
  <2>1. CASE \E o \in objs : o.id = id
    <3>1. PICK o \in objs : o.id = id
      BY <2>1
    <3>2. o.pos \in Nat /\ o.pos < Free /\ Free \in Nat
      BY Constants DEF Object
    <3> QED
      BY <1>1, <3>1, <3>2
  <2>2. CASE \A o \in objs : o.id # id
    BY <1>2, <2>2
  <2> QED
    BY <2>1, <2>2
<1>4. Register(table, objs) = [id \in Id |-> Register(table, objs)[id]]
  BY DEF Register
<1> QED
  BY <1>1, <1>2, <1>3, <1>4

-----------------------------------------------------------------------------
(* The operations on the objects *)

LEMMA FramesStay ==
  ASSUME TypeOK, FramesOK, EndsOK, UNCHANGED <<frames, topmost, place>>, cursor' >= frames[topmost].end
  PROVE  FramesOK' /\ EndsOK' /\ Live' = Live
<1>1. Live' = Live
  BY DEF Live, Current
<1>2. FramesOK'
  BY <1>1 DEF FramesOK, HasCheckpoint
<1>3. EndsOK'
  BY <1>1 DEF EndsOK
<1> QED
  BY <1>1, <1>2, <1>3

LEMMA AllocKeeps ==
  ASSUME IInv, NEW size \in Sizes, NEW d \in Depth, NEW s \in Slots, Alloc(size, d, s)
  PROVE  IInv'
<1> DEFINE n == [id |-> NoId, pos |-> cursor, size |-> size, count |-> 0]
<1>0. /\ TypeOK /\ DoingOK /\ FramesOK /\ EndsOK /\ Geometry /\ TableOK /\ SawOK
      /\ doing.op = "idle" /\ d <= Current /\ cursor + size <= BufferSize
      /\ objects' = objects \cup {n} /\ cursor' = cursor + size
      /\ doing' = Doing("name", cursor, d, s)
      /\ UNCHANGED <<objectOffset, lastId, frames, topmost, handle, place, locks, remembered>>
  BY DEF IInv, Alloc, Running, HasRoom, stackVars, breaker
<1>1. /\ n \in Object /\ n.id = NoId /\ n.pos = cursor /\ n.size = size
      /\ cursor \in Nat /\ size \in Nat \ {0} /\ frames[topmost].end \in Nat /\ frames[topmost].end <= cursor
  BY <1>0, Constants, FrameTypes DEF TypeOK, Object, EndsOK
<1> HIDE DEF n
<1>2. \A o \in objects : /\ o.id \in Id /\ o.id # NoId /\ objectOffset[o.id] = o.pos
                         /\ o.pos \in Nat /\ o.size \in Nat \ {0} /\ o.pos + o.size <= cursor
  BY <1>0, ObjectTypes, Constants DEF TableOK, Settled, Geometry
<1>3. TypeOK'
  <2>1. cursor' \in 0 .. BufferSize
    BY <1>0, <1>1, Constants
  <2> QED
    BY <1>0, <1>1, <2>1 DEF TypeOK, BreakerTypeOK, Current
<1>4. DoingOK'
  <2>1. doing' = [op |-> "name", pos |-> cursor, scope |-> d, slot |-> s] /\ d \in 1 .. Current
    BY <1>0, FrameTypes, Constants DEF Doing
  <2> QED
    BY <1>0, <1>1, <2>1 DEF DoingOK, Ops, Current
<1>5. FramesOK' /\ EndsOK' /\ Live' = Live
  BY <1>0, <1>1, FramesStay
<1>6. Geometry'
  <2>1. \E o \in objects' : o.pos = 0
    BY <1>0, <1>1 DEF Geometry
  <2>2. \A o \in objects' : /\ o.pos + o.size <= cursor'
                            /\ o.pos + o.size = cursor' \/ \E p \in objects' : p.pos = o.pos + o.size
    BY <1>0, <1>1, <1>2 DEF Geometry
  <2>3. \A o \in objects', p \in objects' :
          o # p => o.id # p.id /\ (o.pos + o.size <= p.pos \/ p.pos + p.size <= o.pos)
    BY <1>0, <1>1, <1>2 DEF Geometry
  <2> QED
    BY <2>1, <2>2, <2>3 DEF Geometry
<1>7. TableOK'
  <2>0. doing'.op = "name" /\ doing'.pos = cursor
    BY <1>0 DEF Doing
  <2>1. \A id \in Id : objectOffset'[id] # Free =>
          \E o \in objects' : o.id = id /\ (doing'.op # "register" => o.pos = objectOffset'[id])
    BY <1>0 DEF TableOK
  <2>2. \A o \in objects' : o.pos # cursor => o.id \in Id /\ objectOffset'[o.id] = o.pos
    BY <1>0, <1>1, <1>2
  <2>3. n \in objects'
    BY <1>0
  <2> QED
    BY <1>1, <2>0, <2>1, <2>2, <2>3 DEF TableOK, Settled
<1>8. SawOK'
  <2>1. ASSUME NEW i \in Live
        PROVE  /\ ~(n.pos < frames[i].end)
               /\ {x \in objects' : x.pos < frames[i].end} = {x \in objects : x.pos < frames[i].end}
    <3>1. ~(n.pos < frames[i].end)
      BY <1>0, <1>1, EndsBelow
    <3> QED
      BY <1>0, <3>1
  <2>2. CheckpointedPartUntouched'
    BY <1>0, <2>1 DEF SawOK, CheckpointedPartUntouched, Live, Current
  <2>3. ASSUME NEW i \in Live, NEW x \in objects', x.pos < frames[i].end
        PROVE  x.id \in Id /\ x.pos + x.size <= frames[i].end
    BY <1>0, <2>1, <2>3 DEF SawOK
  <2> QED
    BY <1>0, <1>5, <2>2, <2>3 DEF SawOK
<1> QED
  BY <1>3, <1>4, <1>5, <1>6, <1>7, <1>8 DEF IInv

\* The object that renamePoolObject names, and the identifier it gives
LEMMA NameEffect ==
  ASSUME IInv, Name
  PROVE  \E raw \in objects, id \in Id :
           /\ raw.pos = doing.pos /\ raw.id = NoId /\ objectOffset[id] = Free
           /\ objects' = Replaced(raw, [raw EXCEPT !.id = id, !.count = 1])
           /\ objectOffset' = [objectOffset EXCEPT ![id] = raw.pos]
           /\ lastId' = id
           /\ handle' = [handle EXCEPT ![doing.scope][doing.slot] = id]
           /\ \A o \in objects : o # raw => o.id \in Id /\ o.id # id /\ objectOffset[o.id] = o.pos
<1>0. /\ TypeOK /\ DoingOK /\ Geometry /\ TableOK /\ doing.op = "name"
  BY DEF IInv, Name
<1> DEFINE raw == CHOOSE o \in objects : o.pos = doing.pos
           id == NextFreeIdentifier
<1>1. raw \in objects /\ raw.pos = doing.pos /\ raw.id = NoId
  <2>1. PICK o \in objects : o.pos = doing.pos /\ o.id = NoId
    BY <1>0 DEF TableOK
  <2>2. raw \in objects /\ raw.pos = doing.pos
    BY <2>1
  <2> QED
    BY <1>0, <2>1, <2>2, ObjectsApart
<1>2. id \in Id /\ objectOffset[id] = Free
  BY <1>0, SomeIdentifierIsFree, NextIsFree
<1>3. /\ objects' = Replaced(raw, [raw EXCEPT !.id = id, !.count = 1])
      /\ objectOffset' = [objectOffset EXCEPT ![id] = raw.pos]
      /\ lastId' = id
      /\ handle' = [handle EXCEPT ![doing.scope][doing.slot] = id]
  BY DEF Name, Replaced
<1> HIDE DEF raw, id
<1>4. ASSUME NEW o \in objects, o # raw
      PROVE  o.id \in Id /\ o.id # id /\ objectOffset[o.id] = o.pos
  <2>1. o.pos # doing.pos
    BY <1>0, <1>1, <1>4, ObjectsApart
  <2>2. o.id \in Id /\ objectOffset[o.id] = o.pos
    BY <1>0, <2>1 DEF TableOK, Settled
  <2>3. o.pos # Free
    <3>1. o.pos \in Nat /\ o.size \in Nat \ {0} /\ o.pos + o.size <= cursor /\ cursor \in 0 .. BufferSize
      BY <1>0, ObjectTypes DEF Geometry, TypeOK
    <3> QED
      BY <3>1, Constants
  <2> QED
    BY <1>2, <2>2, <2>3
<1> QED
  BY <1>1, <1>2, <1>3, <1>4

LEMMA NameKeeps ==
  ASSUME IInv, Name
  PROVE  IInv'
<1>0. /\ TypeOK /\ DoingOK /\ FramesOK /\ EndsOK /\ Geometry /\ TableOK /\ SawOK
      /\ doing.op = "name" /\ doing' = Idle
      /\ UNCHANGED <<cursor, frames, topmost, place, locks, remembered>>
  BY DEF IInv, Name, stackVars, breaker
<1>1. PICK raw \in objects, id \in Id :
        /\ raw.pos = doing.pos /\ raw.id = NoId /\ objectOffset[id] = Free
        /\ objects' = Replaced(raw, [raw EXCEPT !.id = id, !.count = 1])
        /\ objectOffset' = [objectOffset EXCEPT ![id] = raw.pos]
        /\ lastId' = id
        /\ handle' = [handle EXCEPT ![doing.scope][doing.slot] = id]
        /\ \A o \in objects : o # raw => o.id \in Id /\ o.id # id /\ objectOffset[o.id] = o.pos
  BY NameEffect
<1> DEFINE n == [raw EXCEPT !.id = id, !.count = 1]
<1>2. n \in Object /\ n.id = id /\ n.pos = raw.pos /\ n.size = raw.size
  <2>1. raw \in Object
    BY <1>0, ObjectTypes
  <2> DEFINE m == [raw EXCEPT !.id = id]
  <2>2. m \in Object /\ m.id = id /\ m.pos = raw.pos /\ m.size = raw.size
    BY <2>1 DEF Object
  <2>3. n = [m EXCEPT !.count = 1]
    OBVIOUS
  <2> HIDE DEF m, n
  <2> QED
    BY <2>2, <2>3 DEF Object
<1> HIDE DEF n
<1>3. objects' = Replaced(raw, n)
  BY <1>1 DEF n
<1>4. raw.pos >= frames[topmost].end
  BY <1>0, <1>1 DEF DoingOK
<1>5. objects' \subseteq Object /\ Geometry' /\ SawOK'
  BY <1>0, <1>1, <1>2, <1>3, <1>4, ReplaceKeeps
<1>6. FramesOK' /\ EndsOK'
  BY <1>0, FramesStay DEF EndsOK
<1>7. TypeOK'
  <2>1. raw.pos \in 0 .. Free
    <3>1. raw.pos \in Nat /\ raw.size \in Nat /\ raw.pos + raw.size <= cursor /\ cursor \in 0 .. BufferSize
      BY <1>0, ObjectTypes DEF Geometry, TypeOK
    <3> QED
      BY <3>1, Constants
  <2>2. objectOffset' \in [Id -> 0 .. Free]
    BY <1>0, <1>1, <2>1 DEF TypeOK
  <2>3. handle' \in [Depth -> [Slots -> Id \cup {NoId}]]
    BY <1>0, <1>1 DEF TypeOK
  <2> QED
    BY <1>0, <1>1, <1>5, <2>2, <2>3 DEF TypeOK, BreakerTypeOK, Current
<1>8. DoingOK'
  BY <1>0 DEF DoingOK, Idle, Ops
<1>9. TableOK'
  <2>0. doing'.op = "idle"
    BY <1>0 DEF Idle
  <2>1. \A o \in objects' : o.id \in Id /\ objectOffset'[o.id] = o.pos
    BY <1>0, <1>1, <1>2, <1>3 DEF Replaced, TypeOK
  <2>2. ASSUME NEW i \in Id, objectOffset'[i] # Free
        PROVE  \E o \in objects' : o.id = i /\ o.pos = objectOffset'[i]
    <3>1. CASE i = id
      BY <1>0, <1>1, <1>2, <1>3, <3>1 DEF Replaced, TypeOK
    <3>2. CASE i # id
      <4>1. objectOffset'[i] = objectOffset[i]
        BY <1>0, <1>1, <3>2 DEF TypeOK
      <4>2. PICK o \in objects : o.id = i /\ o.pos = objectOffset[i]
        BY <1>0, <2>2, <4>1 DEF TableOK
      <4>3. o # raw
        BY <1>1, <4>2, Constants
      <4> QED
        BY <1>3, <4>1, <4>2, <4>3 DEF Replaced
    <3> QED
      BY <3>1, <3>2
  <2> QED
    BY <2>0, <2>1, <2>2 DEF TableOK, Settled
<1> QED
  BY <1>5, <1>6, <1>7, <1>8, <1>9 DEF IInv

\* The object a handle may count is above the checkpoints; its count alone changes.
LEMMA RecountKeeps ==
  ASSUME TypeOK, FramesOK, EndsOK, Geometry, SawOK,
         NEW o \in objects, NEW n \in Int, o.pos >= frames[topmost].end,
         objects' = SetCount(o, n), UNCHANGED <<cursor, frames>>
  PROVE  /\ objects' \subseteq Object /\ Geometry' /\ SawOK'
         /\ \A x \in objects' : \E y \in objects : x.id = y.id /\ x.pos = y.pos /\ x.size = y.size
         /\ \A y \in objects : \E x \in objects' : x.id = y.id /\ x.pos = y.pos /\ x.size = y.size
         /\ \A x \in objects' : (x \in objects /\ x # o) \/ x = [o EXCEPT !.count = n]
<1> DEFINE m == [o EXCEPT !.count = n]
<1>1. m \in Object /\ m.id = o.id /\ m.pos = o.pos /\ m.size = o.size
  BY ObjectTypes
<1> HIDE DEF m
<1>2. objects' = Replaced(o, m)
  BY DEF Replaced, SetCount, m
<1>3. \A p \in objects : p # o => p.id # m.id
  BY <1>1 DEF Geometry
<1>4. objects' \subseteq Object /\ Geometry' /\ SawOK'
  BY <1>1, <1>2, <1>3, ReplaceKeeps
<1>5. /\ \A x \in objects' : (x \in objects /\ x # o) \/ x = m
      /\ \A y \in objects : y = o \/ y \in objects'
      /\ m \in objects'
  BY <1>2 DEF Replaced
<1> QED
  BY <1>1, <1>4, <1>5 DEF m

\* Retain and Release change at most one count.
LEMMA CountKeeps ==
  ASSUME IInv, NEW d \in Depth, NEW s \in Slots,
         (\E id \in Id : Retain(d, s, id)) \/ Release(d, s)
  PROVE  IInv'
<1>0. /\ TypeOK /\ DoingOK /\ FramesOK /\ EndsOK /\ Geometry /\ TableOK /\ SawOK
      /\ doing.op = "idle"
      /\ UNCHANGED <<cursor, objectOffset, lastId, doing, frames, topmost, place, locks, remembered>>
  BY DEF IInv, Retain, Release, Running, stackVars, breaker
<1>1. handle' \in [Depth -> [Slots -> Id \cup {NoId}]]
  <2>1. \E i \in Id \cup {NoId} : handle' = [handle EXCEPT ![d][s] = i]
    BY DEF Retain, Release
  <2> QED
    BY <1>0, <2>1 DEF TypeOK
<1>2. PICK id \in Id, n \in Int :
        objects' = IF CanUpdateRefCounter(id) THEN SetCount(ObjectOf(id), n) ELSE objects
  <2>1. CASE \E id \in Id : Retain(d, s, id)
    <3>1. PICK id \in Id : Retain(d, s, id)
      BY <2>1
    <3>2. objects' = IF CanUpdateRefCounter(id) THEN SetCount(ObjectOf(id), ObjectOf(id).count + 1) ELSE objects
      BY <3>1 DEF Retain
    <3>3. CASE CanUpdateRefCounter(id)
      <4>1. ObjectOf(id).count + 1 \in Int
        BY <1>0, <3>3, ObjectOfId, ObjectTypes DEF CanUpdateRefCounter
      <4> QED
        BY <3>2, <4>1
    <3> QED
      BY <3>2, <3>3
  <2>2. CASE Release(d, s)
    <3> DEFINE id == handle[d][s]
    <3>1. id \in Id
      BY <1>0, <2>2 DEF Release, TypeOK
    <3>2. objects' = IF CanUpdateRefCounter(id) THEN SetCount(ObjectOf(id), ObjectOf(id).count - 1) ELSE objects
      BY <2>2 DEF Release
    <3> HIDE DEF id
    <3>3. CASE CanUpdateRefCounter(id)
      <4>1. ObjectOf(id).count - 1 \in Int
        BY <1>0, <3>1, <3>3, ObjectOfId, ObjectTypes DEF CanUpdateRefCounter
      <4> QED
        BY <3>1, <3>2, <4>1
    <3> QED
      BY <3>1, <3>2, <3>3
  <2> QED
    BY <2>1, <2>2
<1>3. FramesOK' /\ EndsOK'
  BY <1>0, FramesStay DEF EndsOK
<1>4. DoingOK'
  BY <1>0 DEF DoingOK, Current
<1>5. CASE CanUpdateRefCounter(id)
  <2>1. /\ ObjectOf(id) \in objects /\ ObjectOf(id).pos >= frames[topmost].end
        /\ objects' = SetCount(ObjectOf(id), n)
    BY <1>0, <1>2, <1>5, ObjectOfId DEF CanUpdateRefCounter, TopmostEndOfPool
  <2>2. /\ objects' \subseteq Object /\ Geometry' /\ SawOK'
        /\ \A x \in objects' : \E y \in objects : x.id = y.id /\ x.pos = y.pos /\ x.size = y.size
        /\ \A y \in objects : \E x \in objects' : x.id = y.id /\ x.pos = y.pos /\ x.size = y.size
    BY <1>0, <2>1, RecountKeeps
  <2>3. TypeOK'
    BY <1>0, <1>1, <2>2 DEF TypeOK, BreakerTypeOK, Current
  <2>4. TableOK'
    <3>1. \A i \in Id : objectOffset'[i] # Free => \E o \in objects' : o.id = i /\ o.pos = objectOffset'[i]
      BY <1>0, <2>2 DEF TableOK
    <3>2. \A x \in objects' : x.id \in Id /\ objectOffset'[x.id] = x.pos
      BY <1>0, <2>2 DEF TableOK, Settled
    <3> QED
      BY <1>0, <3>1, <3>2 DEF TableOK, Settled
  <2> QED
    BY <1>3, <1>4, <2>2, <2>3, <2>4 DEF IInv
<1>6. CASE ~CanUpdateRefCounter(id)
  <2>1. objects' = objects
    BY <1>2, <1>6
  <2> QED
    BY <1>0, <1>1, <1>3, <1>4, <2>1 DEF IInv, TypeOK, BreakerTypeOK, Geometry, TableOK, Settled, SawOK,
       CheckpointedPartUntouched, Live, Current
<1> QED
  BY <1>5, <1>6

LEMMA DiscardKeeps ==
  ASSUME IInv, NEW d \in Depth, NEW s \in Slots, Discard(d, s)
  PROVE  IInv'
<1> DEFINE id == handle[d][s]
           o == ObjectOf(id)
<1>0. /\ TypeOK /\ DoingOK /\ FramesOK /\ EndsOK /\ Geometry /\ TableOK /\ SawOK
      /\ doing.op = "idle" /\ d <= Current /\ id # NoId
      /\ CanUpdateRefCounter(id)
      /\ objects' = SetCount(o, 0)
      /\ objectOffset' = [objectOffset EXCEPT ![id] = Free]
      /\ doing' = Doing("compact", objectOffset[id], d, s)
      /\ UNCHANGED <<cursor, lastId, handle, frames, topmost, place, locks, remembered>>
  BY DEF IInv, Discard, Running, stackVars, breaker
<1>1. id \in Id
  BY <1>0 DEF TypeOK
<1> HIDE DEF id
<1>2. /\ o \in objects /\ o.id = id /\ o.pos = objectOffset[id] /\ objectOffset[id] \in Nat
      /\ o.pos >= frames[topmost].end /\ objectOffset[id] # Free
  BY <1>0, <1>1, ObjectOfId DEF CanUpdateRefCounter, TopmostEndOfPool
<1> HIDE DEF o
<1>3. /\ objects' \subseteq Object /\ Geometry' /\ SawOK'
      /\ \A x \in objects' : (x \in objects /\ x # o) \/ x = [o EXCEPT !.count = 0]
      /\ \A y \in objects : \E x \in objects' : x.id = y.id /\ x.pos = y.pos /\ x.size = y.size
      /\ \A x \in objects' : \E y \in objects : x.id = y.id /\ x.pos = y.pos /\ x.size = y.size
  BY <1>0, <1>2, RecountKeeps
<1>4. FramesOK' /\ EndsOK'
  BY <1>0, FramesStay DEF EndsOK
<1>5. TypeOK'
  BY <1>0, <1>1, <1>3, Constants DEF TypeOK, BreakerTypeOK, Current
<1>6. doing' = [op |-> "compact", pos |-> objectOffset[id], scope |-> d, slot |-> s] /\ d \in 1 .. Current
  BY <1>0, FrameTypes, Constants DEF Doing
<1>7. DoingOK'
  BY <1>0, <1>2, <1>6 DEF DoingOK, Ops, Current
<1>8. TableOK'
  <2>1. ASSUME NEW i \in Id, objectOffset'[i] # Free
        PROVE  \E x \in objects' : x.id = i /\ x.pos = objectOffset'[i]
    <3>1. objectOffset'[i] = objectOffset[i]
      BY <1>0, <1>1, <2>1 DEF TypeOK
    <3>2. PICK y \in objects : y.id = i /\ y.pos = objectOffset[i]
      BY <1>0, <2>1, <3>1 DEF TableOK
    <3> QED
      BY <1>3, <3>1, <3>2
  <2>2. ASSUME NEW x \in objects'
        PROVE  x.id \in Id /\ (x.pos # doing'.pos => objectOffset'[x.id] = x.pos)
    <3>1. PICK y \in objects : x.id = y.id /\ x.pos = y.pos
      BY <1>3
    <3>2. y.id \in Id /\ objectOffset[y.id] = y.pos
      BY <1>0 DEF TableOK, Settled
    <3>3. x.pos # doing'.pos => y.id # id
      BY <1>2, <1>6, <3>1, <3>2
    <3> QED
      BY <1>0, <3>1, <3>2, <3>3 DEF TypeOK
  <2>3. \E x \in objects' : x.pos = doing'.pos /\ objectOffset'[x.id] = Free
    <3>1. PICK x \in objects' : x.id = id /\ x.pos = o.pos
      BY <1>2, <1>3
    <3> QED
      BY <1>0, <1>1, <1>2, <1>6, <3>1 DEF TypeOK
  <2> QED
    BY <1>6, <2>1, <2>2, <2>3 DEF TableOK, Settled
<1> QED
  BY <1>3, <1>4, <1>5, <1>7, <1>8 DEF IInv

\* x is the object y after the objects above dead moved down.
Moved(x, y, dead) ==
  /\ x.id = y.id /\ x.size = y.size /\ x.count = y.count
  /\ \/ y.pos < dead.pos /\ x = y
     \/ y.pos >= dead.pos + dead.size /\ x.pos = y.pos - dead.size

LEMMA CompactEffect ==
  ASSUME IInv, Compact
  PROVE  \E dead \in objects :
           /\ dead.pos = doing.pos /\ objectOffset[dead.id] = Free
           /\ cursor' = cursor - dead.size
           /\ objects' \subseteq Object
           /\ \A x \in objects' : \E y \in objects : y # dead /\ Moved(x, y, dead)
           /\ \A y \in objects : y # dead => \E x \in objects' : Moved(x, y, dead)
<1>0. /\ TypeOK /\ Geometry /\ TableOK /\ doing.op = "compact"
  BY DEF IInv, Compact
<1> DEFINE dead == CHOOSE o \in objects : o.pos = doing.pos
<1>1. dead \in objects /\ dead.pos = doing.pos
  BY <1>0 DEF TableOK
<1>2. objectOffset[dead.id] = Free
  <2>1. PICK o \in objects : o.pos = doing.pos /\ objectOffset[o.id] = Free
    BY <1>0 DEF TableOK
  <2> QED
    BY <1>0, <1>1, <2>1, ObjectsApart
<1>3. /\ objects' = {o \in objects : o.pos < dead.pos}
            \cup {[o EXCEPT !.pos = @ - dead.size] : o \in {x \in objects : x.pos > dead.pos}}
      /\ cursor' = cursor - dead.size
  BY DEF Compact
<1> HIDE DEF dead
<1>4. dead.pos \in Nat /\ dead.size \in Nat \ {0}
  BY <1>0, <1>1, ObjectTypes
<1>5. ASSUME NEW y \in objects, y.pos > dead.pos
      PROVE  /\ y # dead /\ y.pos >= dead.pos + dead.size
             /\ [y EXCEPT !.pos = @ - dead.size] \in Object
             /\ Moved([y EXCEPT !.pos = @ - dead.size], y, dead)
  <2>1. y \in Object /\ y.pos \in Nat /\ y.size \in Nat \ {0}
    BY <1>0, ObjectTypes
  <2>2. y # dead
    BY <1>4, <1>5, <2>1
  <2>3. y.pos >= dead.pos + dead.size
    BY <1>0, <1>1, <1>4, <1>5, <2>1, <2>2 DEF Geometry
  <2>4. y.pos - dead.size \in Nat
    BY <1>4, <2>1, <2>3
  <2> QED
    BY <2>1, <2>2, <2>3, <2>4 DEF Object, Moved
<1>6. ASSUME NEW y \in objects, y.pos < dead.pos
      PROVE  y # dead /\ Moved(y, y, dead) /\ y \in Object
  BY <1>0, <1>4, <1>6, ObjectTypes DEF Moved
<1>7. ASSUME NEW x \in objects'
      PROVE  x \in Object /\ \E y \in objects : y # dead /\ Moved(x, y, dead)
  BY <1>3, <1>5, <1>6
<1>8. ASSUME NEW y \in objects, y # dead
      PROVE  \E x \in objects' : Moved(x, y, dead)
  <2>1. y.pos < dead.pos \/ y.pos > dead.pos
    <3>1. y.pos # dead.pos
      BY <1>0, <1>1, <1>8, ObjectsApart
    <3>2. y.pos \in Nat
      BY <1>0, ObjectTypes
    <3> QED
      BY <1>4, <3>1, <3>2
  <2> QED
    BY <1>3, <1>5, <1>6, <2>1
<1> QED
  BY <1>1, <1>2, <1>3, <1>7, <1>8

LEMMA CompactKeeps ==
  ASSUME IInv, Compact
  PROVE  IInv'
<1>0. /\ TypeOK /\ DoingOK /\ FramesOK /\ EndsOK /\ Geometry /\ TableOK /\ SawOK
      /\ doing.op = "compact" /\ doing' = [doing EXCEPT !.op = "register"]
      /\ UNCHANGED <<objectOffset, lastId, handle, frames, topmost, place, locks, remembered>>
  BY DEF IInv, Compact, stackVars, breaker
<1>1. PICK dead \in objects :
           /\ dead.pos = doing.pos /\ objectOffset[dead.id] = Free
           /\ cursor' = cursor - dead.size
           /\ objects' \subseteq Object
           /\ \A x \in objects' : \E y \in objects : y # dead /\ Moved(x, y, dead)
           /\ \A y \in objects : y # dead => \E x \in objects' : Moved(x, y, dead)
  BY CompactEffect
<1>2. /\ doing'.op = "register" /\ doing'.pos = doing.pos /\ doing'.scope = doing.scope /\ doing'.slot = doing.slot
      /\ doing' \in [op : Ops, pos : Nat, scope : Nat, slot : Slots \cup {0}]
  BY <1>0 DEF DoingOK, Ops
<1>3. /\ \A o \in objects : o.pos \in Nat /\ o.size \in Nat \ {0}
      /\ dead.pos \in Nat /\ dead.size \in Nat \ {0} /\ dead.pos + dead.size <= cursor /\ cursor \in Nat
      /\ frames[topmost].end \in Nat /\ dead.pos >= frames[topmost].end /\ cursor <= BufferSize
      /\ BufferSize \in Nat
  <2>1. \A o \in objects : o.pos \in Nat /\ o.size \in Nat \ {0}
    BY <1>0, ObjectTypes
  <2>2. dead.pos >= frames[topmost].end
    BY <1>0, <1>1 DEF DoingOK
  <2>3. cursor \in 0 .. BufferSize /\ BufferSize \in Nat /\ dead.pos + dead.size <= cursor
    BY <1>0, Constants DEF TypeOK, Geometry
  <2>4. frames[topmost].end \in Nat
    BY <1>0, FrameTypes
  <2> QED
    BY <2>1, <2>2, <2>3, <2>4
<1>9. ASSUME NEW x \in objects', NEW y \in objects, Moved(x, y, dead)
      PROVE  x.pos \in Nat /\ x.size \in Nat \ {0}
             /\ x.pos = IF y.pos < dead.pos THEN y.pos ELSE y.pos - dead.size
  BY <1>3, <1>9 DEF Moved
<1>4. FramesOK' /\ EndsOK' /\ Live' = Live
  <2>1. cursor' >= frames[topmost].end
    BY <1>1, <1>3
  <2> QED
    BY <1>0, <2>1, FramesStay
<1>5. TypeOK'
  <2>1. cursor' \in 0 .. BufferSize
    BY <1>1, <1>3
  <2> QED
    BY <1>0, <1>1, <2>1 DEF TypeOK, BreakerTypeOK, Current
<1>6. DoingOK'
  BY <1>0, <1>2 DEF DoingOK, Current
<1>7. Geometry'
  <2>1. cursor' = 0 \/ \E x \in objects' : x.pos = 0
    <3>1. CASE dead.pos = 0
      <4>1. CASE dead.pos + dead.size = cursor
        BY <1>1, <1>3, <3>1, <4>1
      <4>2. CASE \E p \in objects : p.pos = dead.pos + dead.size
        <5>1. PICK p \in objects : p.pos = dead.pos + dead.size
          BY <4>2
        <5>2. p # dead
          BY <1>3, <5>1
        <5>3. PICK x \in objects' : Moved(x, p, dead)
          BY <1>1, <5>2
        <5> QED
          BY <1>3, <1>9, <3>1, <5>1, <5>3
      <4> QED
        BY <1>0, <4>1, <4>2 DEF Geometry
    <3>2. CASE dead.pos # 0
      <4>1. PICK p \in objects : p.pos = 0
        BY <1>0, <1>3, <3>2 DEF Geometry
      <4>2. p # dead /\ p.pos < dead.pos
        BY <1>3, <3>2, <4>1
      <4>3. PICK x \in objects' : Moved(x, p, dead)
        BY <1>1, <4>2
      <4> QED
        BY <1>9, <4>1, <4>2, <4>3
    <3> QED
      BY <3>1, <3>2
  <2>2. ASSUME NEW x \in objects'
        PROVE  /\ x.pos + x.size <= cursor'
               /\ x.pos + x.size = cursor' \/ \E p \in objects' : p.pos = x.pos + x.size
    <3>1. PICK y \in objects : y # dead /\ Moved(x, y, dead)
      BY <1>1
    <3>2. /\ y.pos + y.size <= cursor
          /\ y.pos + y.size = cursor \/ \E p \in objects : p.pos = y.pos + y.size
          /\ y.pos + y.size <= dead.pos \/ dead.pos + dead.size <= y.pos
          /\ x.size = y.size
      BY <1>0, <3>1 DEF Geometry, Moved
    <3>3. CASE y.pos + y.size <= dead.pos
      <4>1. x.pos = y.pos
        BY <1>3, <1>9, <3>1, <3>3
      <4>2. x.pos + x.size <= cursor'
        BY <1>1, <1>3, <3>2, <3>3, <4>1
      <4>3. CASE y.pos + y.size = dead.pos
        <5>1. CASE dead.pos + dead.size = cursor
          BY <1>1, <1>3, <3>2, <4>1, <4>3, <5>1
        <5>2. CASE \E p \in objects : p.pos = dead.pos + dead.size
          <6>1. PICK p \in objects : p.pos = dead.pos + dead.size
            BY <5>2
          <6>2. p # dead
            BY <1>3, <6>1
          <6>3. PICK z \in objects' : Moved(z, p, dead)
            BY <1>1, <6>2
          <6>4. z.pos = dead.pos
            BY <1>3, <1>9, <6>1, <6>3
          <6> QED
            BY <3>2, <4>1, <4>2, <4>3, <6>4
        <5> QED
          BY <1>0, <5>1, <5>2 DEF Geometry
      <4>4. CASE y.pos + y.size # dead.pos
        <5>1. y.pos + y.size < dead.pos /\ y.pos + y.size # cursor
          BY <1>3, <3>3, <4>4
        <5>2. PICK p \in objects : p.pos = y.pos + y.size
          BY <3>2, <5>1
        <5>3. p # dead /\ p.pos < dead.pos
          BY <5>1, <5>2, <4>4
        <5>4. PICK z \in objects' : Moved(z, p, dead)
          BY <1>1, <5>3
        <5>5. z.pos = p.pos
          BY <1>9, <5>3, <5>4
        <5> QED
          BY <3>2, <4>1, <4>2, <5>2, <5>5
      <4> QED
        BY <4>3, <4>4
    <3>4. CASE dead.pos + dead.size <= y.pos
      <4>1. x.pos = y.pos - dead.size
        BY <1>3, <1>9, <3>1, <3>4
      <4>2. x.pos + x.size <= cursor'
        BY <1>1, <1>3, <3>2, <4>1
      <4>3. CASE y.pos + y.size = cursor
        BY <1>1, <1>3, <3>2, <4>1, <4>2, <4>3
      <4>4. CASE \E p \in objects : p.pos = y.pos + y.size
        <5>1. PICK p \in objects : p.pos = y.pos + y.size
          BY <4>4
        <5>2. p # dead /\ ~(p.pos < dead.pos)
          BY <1>3, <3>4, <5>1
        <5>3. PICK z \in objects' : Moved(z, p, dead)
          BY <1>1, <5>2
        <5>4. z.pos = p.pos - dead.size
          BY <1>9, <5>2, <5>3
        <5>5. z.pos = x.pos + x.size
          BY <1>3, <3>2, <4>1, <5>1, <5>4
        <5> QED
          BY <4>2, <5>5
      <4> QED
        BY <3>2, <4>3, <4>4
    <3> QED
      BY <3>2, <3>3, <3>4
  <2>3. ASSUME NEW x \in objects', NEW z \in objects', x # z
        PROVE  x.id # z.id /\ (x.pos + x.size <= z.pos \/ z.pos + z.size <= x.pos)
    <3>1. PICK y \in objects : y # dead /\ Moved(x, y, dead)
      BY <1>1
    <3>2. PICK w \in objects : w # dead /\ Moved(z, w, dead)
      BY <1>1
    <3>3. y # w
      <4> SUFFICES ASSUME y = w PROVE x = z
        BY <2>3
      <4>1. x.id = z.id /\ x.size = z.size /\ x.count = z.count /\ x.pos = z.pos
        BY <1>9, <3>1, <3>2 DEF Moved
      <4>2. x \in Object /\ z \in Object
        BY <1>1
      <4> QED
        BY <4>1, <4>2 DEF Object
    <3>4. /\ x.id = y.id /\ x.size = y.size /\ z.id = w.id /\ z.size = w.size
          /\ y.id # w.id /\ (y.pos + y.size <= w.pos \/ w.pos + w.size <= y.pos)
          /\ y.pos + y.size <= dead.pos \/ dead.pos + dead.size <= y.pos
          /\ w.pos + w.size <= dead.pos \/ dead.pos + dead.size <= w.pos
      BY <1>0, <3>1, <3>2, <3>3 DEF Geometry, Moved
    <3>5. /\ x.pos = IF y.pos < dead.pos THEN y.pos ELSE y.pos - dead.size
          /\ z.pos = IF w.pos < dead.pos THEN w.pos ELSE w.pos - dead.size
      BY <1>9, <3>1, <3>2
    <3> QED
      BY <1>3, <3>4, <3>5
  <2> QED
    BY <2>1, <2>2, <2>3 DEF Geometry
<1>8. TableOK'
  <2>1. ASSUME NEW i \in Id, objectOffset'[i] # Free
        PROVE  \E x \in objects' : x.id = i
    <3>1. PICK y \in objects : y.id = i
      BY <1>0, <2>1 DEF TableOK
    <3>2. y # dead
      BY <1>0, <1>1, <2>1, <3>1
    <3> QED
      BY <1>1, <3>1, <3>2 DEF Moved
  <2>2. ASSUME NEW x \in objects'
        PROVE  /\ x.id \in Id /\ objectOffset'[x.id] # Free
               /\ x.pos < doing.pos => objectOffset'[x.id] = x.pos
    <3>1. PICK y \in objects : y # dead /\ Moved(x, y, dead)
      BY <1>1
    <3>2. y.pos # doing.pos
      BY <1>0, <1>1, <3>1, ObjectsApart
    <3>3. y.id \in Id /\ objectOffset[y.id] = y.pos
      BY <1>0, <3>2 DEF TableOK, Settled
    <3>4. y.pos # Free
      <4>1. y.pos + y.size <= cursor
        BY <1>0 DEF Geometry
      <4> QED
        BY <1>3, <4>1 DEF Free
    <3>5. x.pos < doing.pos => x.pos = y.pos
      BY <1>1, <1>3, <1>9, <3>1 DEF Moved
    <3> QED
      BY <1>0, <3>1, <3>3, <3>4, <3>5 DEF Moved
  <2> QED
    BY <1>2, <2>1, <2>2 DEF TableOK, Settled
<1>10. SawOK'
  <2>1. ASSUME NEW i \in Live
        PROVE  {x \in objects' : x.pos < frames[i].end} = {x \in objects : x.pos < frames[i].end}
    <3>0. frames[i].end \in Nat /\ frames[i].end <= dead.pos
      BY <1>0, <1>3, EndsBelow
    <3>1. ASSUME NEW x \in objects', x.pos < frames[i].end
          PROVE  x \in objects
      <4>1. PICK y \in objects : y # dead /\ Moved(x, y, dead)
        BY <1>1
      <4> QED
        BY <1>3, <1>9, <3>0, <3>1, <4>1 DEF Moved
    <3>2. ASSUME NEW y \in objects, y.pos < frames[i].end
          PROVE  y \in objects'
      <4>1. y.pos < dead.pos /\ y # dead
        BY <1>3, <3>0, <3>2
      <4>2. PICK x \in objects' : Moved(x, y, dead)
        BY <1>1, <4>1
      <4> QED
        BY <1>3, <4>1, <4>2 DEF Moved
    <3> QED
      BY <3>1, <3>2
  <2>2. CheckpointedPartUntouched'
    BY <1>0, <2>1 DEF SawOK, CheckpointedPartUntouched, Live, Current
  <2>3. ASSUME NEW i \in Live, NEW x \in objects', x.pos < frames[i].end
        PROVE  x.id \in Id /\ x.pos + x.size <= frames[i].end
    BY <1>0, <2>1, <2>3 DEF SawOK
  <2> QED
    BY <1>0, <1>4, <2>2, <2>3 DEF SawOK
<1> QED
  BY <1>4, <1>5, <1>6, <1>7, <1>8, <1>10 DEF IInv

\* The object's place, after registering the objects downstream
LEMMA RegisterKeeps ==
  ASSUME IInv, RegisterDownstream
  PROVE  /\ IInv'
         /\ \A id \in Id : objectOffset[id] # Free => objectOffset'[id] # Free
<1> DEFINE down == {o \in objects : o.pos >= doing.pos}
<1>0. /\ TypeOK /\ DoingOK /\ FramesOK /\ EndsOK /\ Geometry /\ TableOK /\ SawOK
      /\ doing.op = "register" /\ doing' = Idle
      /\ objectOffset' = Register(objectOffset, down)
      /\ handle' = [handle EXCEPT ![doing.scope][doing.slot] = NoId]
      /\ UNCHANGED <<objects, cursor, lastId, frames, topmost, place, locks, remembered>>
  BY DEF IInv, RegisterDownstream, stackVars, breaker
<1>1. /\ \A o \in objects : o.id \in Id /\ o.pos \in Nat /\ o.pos < Free /\ objectOffset[o.id] # Free
      /\ objectOffset \in [Id -> 0 .. Free] /\ down \subseteq objects /\ objects \subseteq Object
  <2>1. \A o \in objects : o.pos \in Nat /\ o.size \in Nat \ {0} /\ o.pos + o.size <= cursor
    BY <1>0, ObjectTypes DEF Geometry
  <2>2. cursor \in 0 .. BufferSize /\ BufferSize \in Nat
    BY <1>0, Constants DEF TypeOK
  <2>3. \A o \in objects : o.pos < Free
    BY <2>1, <2>2 DEF Free
  <2> QED
    BY <1>0, <2>1, <2>3 DEF TypeOK, TableOK
<1>2. \A o \in down, p \in down : o.id = p.id => o = p
  BY <1>0, ObjectsApart
<1>3. /\ Register(objectOffset, down) \in [Id -> 0 .. Free]
      /\ \A o \in down : o.id \in Id => Register(objectOffset, down)[o.id] = o.pos
      /\ \A id \in Id : (\A o \in down : o.id # id) => Register(objectOffset, down)[id] = objectOffset[id]
  <2>1. down \subseteq Object /\ \A o \in down : o.pos < Free
    BY <1>1
  <2> HIDE DEF down
  <2> QED
    BY <1>1, <1>2, <2>1, Registers
<1>4. \A o \in objects : objectOffset'[o.id] = o.pos
  <2> SUFFICES ASSUME NEW o \in objects PROVE objectOffset'[o.id] = o.pos
    OBVIOUS
  <2>1. CASE o.pos >= doing.pos
    BY <1>0, <1>1, <1>3, <2>1
  <2>2. CASE o.pos < doing.pos
    <3>1. objectOffset[o.id] = o.pos
      BY <1>0, <2>2 DEF TableOK, Settled
    <3>2. \A p \in down : p.id # o.id
      <4> SUFFICES ASSUME NEW p \in objects, p.pos >= doing.pos, p.id = o.id PROVE FALSE
        OBVIOUS
      <4>1. p = o
        BY <1>0, ObjectsApart
      <4> QED
        BY <1>0, <1>1, <2>2, <4>1 DEF DoingOK
    <3> QED
      BY <1>0, <1>1, <1>3, <3>1, <3>2
  <2>3. doing.pos \in Nat
    BY <1>0 DEF DoingOK
  <2> QED
    BY <1>1, <2>1, <2>2, <2>3
<1>5. \A id \in Id : objectOffset[id] # Free <=> objectOffset'[id] # Free
  <2> SUFFICES ASSUME NEW id \in Id PROVE objectOffset[id] # Free <=> objectOffset'[id] # Free
    OBVIOUS
  <2>1. CASE \E o \in objects : o.id = id
    BY <1>1, <1>4, <2>1
  <2>2. CASE \A o \in objects : o.id # id
    BY <1>0, <1>1, <1>3, <2>2
  <2> QED
    BY <2>1, <2>2
<1>6. FramesOK' /\ EndsOK' /\ Live' = Live
  BY <1>0, FramesStay DEF EndsOK
<1>7. TypeOK'
  BY <1>0, <1>3, Constants DEF TypeOK, BreakerTypeOK, Current
<1>8. DoingOK'
  BY <1>0 DEF DoingOK, Idle, Ops
<1>9. Geometry'
  BY <1>0 DEF Geometry
<1>10. TableOK'
  <2>0. doing'.op = "idle"
    BY <1>0 DEF Idle
  <2>1. ASSUME NEW i \in Id, objectOffset'[i] # Free
        PROVE  \E o \in objects' : o.id = i /\ o.pos = objectOffset'[i]
    <3>1. objectOffset[i] # Free
      BY <1>5, <2>1
    <3>2. PICK o \in objects : o.id = i
      BY <1>0, <3>1 DEF TableOK
    <3> QED
      BY <1>0, <1>4, <3>2
  <2> QED
    BY <1>0, <1>1, <1>4, <2>0, <2>1 DEF TableOK, Settled
<1>11. SawOK'
  BY <1>0, <1>6 DEF SawOK, CheckpointedPartUntouched, Current
<1> QED
  BY <1>5, <1>6, <1>7, <1>8, <1>9, <1>10, <1>11 DEF IInv

-----------------------------------------------------------------------------
(* The scopes *)

\* The scope of a new checkpoint, which sees the pool as it is
LEMMA PushedFrame ==
  ASSUME IInv, doing.op = "idle", Current < MaxDepth,
         NEW kind \in {"exception", "breaker"}, NEW type \in CheckpointType \cup {NoType}, NEW active \in BOOLEAN,
         frames' = Append(frames, NewFrame(kind, type, active)),
         UNCHANGED <<objects, cursor, objectOffset, lastId, handle, doing>>
  PROVE  /\ frames' \in Seq(Frame) /\ Current' = Current + 1 /\ Current' \in Depth
         /\ \A i \in 1 .. Current : frames'[i] = frames[i]
         /\ frames'[Current + 1] = NewFrame(kind, type, active)
         /\ Live' = IF active THEN Live \cup {Current + 1} ELSE Live
         /\ Live \subseteq 1 .. Current /\ Current \in Nat
         /\ DoingOK' /\ Geometry' /\ TableOK' /\ SawOK'
<1> DEFINE f == NewFrame(kind, type, active)
<1>0. /\ TypeOK /\ DoingOK /\ FramesOK /\ EndsOK /\ Geometry /\ TableOK /\ SawOK
  BY DEF IInv
<1>1. /\ f.kind = kind /\ f.type = type /\ f.active = active /\ f.parent = topmost /\ f.end = cursor /\ f.saw = objects
      /\ f.landed = FALSE
  BY DEF NewFrame
<1>2. f \in Frame
  <2>1. topmost \in 0 .. MaxDepth /\ cursor \in Nat /\ objects \in SUBSET Object
    BY <1>0, FrameTypes, Constants DEF TypeOK, Depth
  <2> QED
    BY <2>1 DEF NewFrame, Frame
<1> HIDE DEF f
<1>3. frames \in Seq(Frame) /\ Current = Len(frames) /\ Current \in Nat \ {0} /\ Live \subseteq 1 .. Current
      /\ frames' = Append(frames, f)
  BY <1>0, FrameTypes DEF TypeOK, Current, f
<1>4. /\ frames' \in Seq(Frame) /\ Current' = Current + 1
      /\ \A i \in 1 .. Current : frames'[i] = frames[i]
      /\ frames'[Current + 1] = f
  BY <1>2, <1>3, AppendProperties DEF Current
<1>5. Current' \in Depth
  BY <1>3, <1>4, Constants DEF Depth
<1>6. Live' = IF active THEN Live \cup {Current + 1} ELSE Live
  <2>1. Live' = {i \in 1 .. Current + 1 : frames'[i].active}
    BY <1>4 DEF Live
  <2>2. \A i \in 1 .. Current + 1 : i \in 1 .. Current \/ i = Current + 1
    BY <1>3
  <2>3. /\ \A i \in 1 .. Current : i # Current + 1 /\ i \in 1 .. Current + 1
        /\ Current + 1 \in 1 .. Current + 1
    BY <1>3
  <2>4. \A i : i \in Live' <=> (i \in Live \/ (active /\ i = Current + 1))
    BY <1>1, <1>4, <2>1, <2>2, <2>3 DEF Live
  <2>5. CASE active
    BY <2>4, <2>5
  <2>6. CASE ~active
    BY <2>4, <2>6
  <2> QED
    BY <2>5, <2>6
<1>7. DoingOK' /\ Geometry' /\ TableOK'
  BY <1>0 DEF DoingOK, Geometry, TableOK, Settled
<1>8. SawOK'
  <2>1. \A o \in objects : /\ o.id \in Id /\ o.pos + o.size <= cursor /\ o.pos < cursor
    <3> SUFFICES ASSUME NEW o \in objects PROVE o.id \in Id /\ o.pos + o.size <= cursor /\ o.pos < cursor
      OBVIOUS
    <3>1. o.pos \in Nat /\ o.size \in Nat \ {0} /\ cursor \in 0 .. BufferSize
      BY <1>0, ObjectTypes DEF TypeOK
    <3>2. o.id \in Id /\ o.pos + o.size <= cursor
      BY <1>0 DEF TableOK, Settled, Geometry
    <3> QED
      BY <3>1, <3>2, Constants
  <2>2. \A i \in Live' : i \in Live \/ (i = Current + 1 /\ frames'[i] = f)
    BY <1>4, <1>6
  <2>3. \A i \in Live : i \in 1 .. Current /\ frames'[i] = frames[i]
    BY <1>3, <1>4
  <2>4. {o \in objects : o.pos < f.end} = f.saw
    BY <1>1, <2>1
  <2>5. ASSUME NEW i \in Live' PROVE {o \in objects' : o.pos < frames'[i].end} = frames'[i].saw
    BY <1>0, <2>2, <2>3, <2>4, <2>5 DEF SawOK, CheckpointedPartUntouched, Live
  <2>6. CheckpointedPartUntouched'
    BY <2>5 DEF CheckpointedPartUntouched, Live
  <2>7. \A i \in Live', o \in objects' : o.pos < frames'[i].end => o.id \in Id /\ o.pos + o.size <= frames'[i].end
    BY <1>0, <1>1, <2>1, <2>2, <2>3 DEF SawOK
  <2> QED
    BY <2>6, <2>7 DEF SawOK
<1> QED
  BY <1>3, <1>4, <1>5, <1>6, <1>7, <1>8 DEF f

\* A checkpoint that is made the topmost one
LEMMA PushedActive ==
  ASSUME IInv, Current' = Current + 1, Live' = Live \cup {Current + 1}, topmost' = Current + 1,
         \A i \in 1 .. Current : frames'[i] = frames[i],
         frames'[Current + 1].parent = topmost, frames'[Current + 1].end = cursor,
         cursor' = cursor
  PROVE  /\ EndsOK' /\ topmost' \in 1 .. Current' /\ topmost' \in Live'
         /\ \A i \in Live' : /\ i <= topmost'
                             /\ i > 1 => /\ frames'[i].parent \in Live' /\ frames'[i].parent < i
                                         /\ \A j \in Live' : j < i => j <= frames'[i].parent
<1>0. TypeOK /\ FramesOK /\ EndsOK
  BY DEF IInv
<1>1. /\ Live \subseteq 1 .. Current /\ Current \in Nat \ {0} /\ topmost \in Live /\ \A i \in Live : i <= topmost
      /\ \A i \in Live : frames'[i] = frames[i] /\ i \in Nat /\ i < Current + 1 /\ i <= Current
  BY <1>0, FrameTypes DEF FramesOK
<1>2. \A i \in Live : frames[i].end \in Nat /\ cursor \in Nat /\ frames[i].end <= cursor
  BY <1>0, EndsBelow
<1>3. EndsOK'
  <2>1. ASSUME NEW i \in Live', NEW j \in Live', i <= j
        PROVE  frames'[i].end <= frames'[j].end
    <3>1. CASE j = Current + 1
      BY <1>1, <1>2, <3>1
    <3>2. CASE j \in Live
      <4>1. i \in Live
        BY <1>1, <2>1, <3>2
      <4> QED
        BY <1>0, <1>1, <2>1, <3>2, <4>1 DEF EndsOK
    <3> QED
      BY <3>1, <3>2
  <2>2. frames'[topmost'].end <= cursor'
    BY <1>1, <1>2
  <2> QED
    BY <2>1, <2>2 DEF EndsOK
<1>4. ASSUME NEW i \in Live'
      PROVE  /\ i <= topmost'
             /\ i > 1 => /\ frames'[i].parent \in Live' /\ frames'[i].parent < i
                         /\ \A j \in Live' : j < i => j <= frames'[i].parent
  <2>1. CASE i = Current + 1
    BY <1>1, <2>1
  <2>2. CASE i \in Live
    <3>1. i > 1 => /\ frames[i].parent \in Live /\ frames[i].parent < i
                   /\ \A j \in Live : j < i => j <= frames[i].parent
      BY <1>0, <2>2 DEF FramesOK
    <3>2. \A j \in Live' : j < i => j \in Live
      BY <1>1, <2>2
    <3> QED
      BY <1>1, <2>2, <3>1, <3>2
  <2> QED
    BY <2>1, <2>2
<1> QED
  BY <1>1, <1>3, <1>4

LEMMA EnterKeeps ==
  ASSUME IInv, EnterException \/ \E type \in CheckpointType : EnterBreaker(type) \/ EnterIgnored(type)
  PROVE  IInv'
<1>0. /\ TypeOK /\ DoingOK /\ FramesOK /\ EndsOK /\ Geometry /\ TableOK /\ SawOK
      /\ doing.op = "idle" /\ Current < MaxDepth
      /\ UNCHANGED <<objects, cursor, objectOffset, lastId, handle, doing, locks, remembered>>
  BY DEF IInv, EnterException, EnterBreaker, EnterIgnored, Running, poolVars, breaker
<1>1. Current \in Nat \ {0} /\ place \in [CheckpointType -> Nat] /\ CheckpointType \subseteq Nat
  BY <1>0, FrameTypes DEF TypeOK, BreakerTypeOK, CheckpointType, Home, Back, AnyKey
<1>2. CASE EnterException
  <2>1. /\ frames' = Append(frames, NewFrame("exception", NoType, TRUE)) /\ topmost' = Current + 1 /\ place' = place
    BY <1>2 DEF EnterException, breaker
  <2>2. /\ frames' \in Seq(Frame) /\ Current' = Current + 1 /\ Current' \in Depth
        /\ \A i \in 1 .. Current : frames'[i] = frames[i]
        /\ frames'[Current + 1] = NewFrame("exception", NoType, TRUE)
        /\ Live' = Live \cup {Current + 1}
        /\ Live \subseteq 1 .. Current
        /\ DoingOK' /\ Geometry' /\ TableOK' /\ SawOK'
    BY <1>0, <2>1, PushedFrame
  <2>3. /\ EndsOK' /\ topmost' \in 1 .. Current' /\ topmost' \in Live'
        /\ \A i \in Live' : /\ i <= topmost'
                            /\ i > 1 => /\ frames'[i].parent \in Live' /\ frames'[i].parent < i
                                        /\ \A j \in Live' : j < i => j <= frames'[i].parent
    <3>1. frames'[Current + 1].parent = topmost /\ frames'[Current + 1].end = cursor
      BY <2>2 DEF NewFrame
    <3> QED
      BY <1>0, <2>1, <2>2, <3>1, PushedActive
  <2>4. FramesOK'
    BY <1>0, <2>1, <2>2, <2>3 DEF FramesOK, HasCheckpoint
  <2>5. TypeOK'
    BY <1>0, <2>1, <2>2, <2>3 DEF TypeOK, BreakerTypeOK
  <2> QED
    BY <2>2, <2>3, <2>4, <2>5 DEF IInv
<1>3. ASSUME NEW type \in CheckpointType, EnterBreaker(type)
      PROVE  IInv'
  <2>1. /\ frames' = Append(frames, NewFrame("breaker", type, TRUE)) /\ topmost' = Current + 1
        /\ place' = [place EXCEPT ![type] = Current + 1]
        /\ place[type] = Nowhere
        /\ \A t \in CheckpointType : place[t] # Nowhere => t <= type
    BY <1>3 DEF EnterBreaker, NotMoreUrgent, HasCheckpoint
  <2>2. /\ frames' \in Seq(Frame) /\ Current' = Current + 1 /\ Current' \in Depth
        /\ \A i \in 1 .. Current : frames'[i] = frames[i]
        /\ frames'[Current + 1] = NewFrame("breaker", type, TRUE)
        /\ Live' = Live \cup {Current + 1}
        /\ Live \subseteq 1 .. Current
        /\ DoingOK' /\ Geometry' /\ TableOK' /\ SawOK'
    BY <1>0, <2>1, PushedFrame
  <2>3. /\ EndsOK' /\ topmost' \in 1 .. Current' /\ topmost' \in Live'
        /\ \A i \in Live' : /\ i <= topmost'
                            /\ i > 1 => /\ frames'[i].parent \in Live' /\ frames'[i].parent < i
                                        /\ \A j \in Live' : j < i => j <= frames'[i].parent
    <3>1. frames'[Current + 1].parent = topmost /\ frames'[Current + 1].end = cursor
      BY <2>2 DEF NewFrame
    <3> QED
      BY <1>0, <2>1, <2>2, <3>1, PushedActive
  <2>4. ASSUME NEW t \in CheckpointType, place'[t] # Nowhere
        PROVE  /\ place'[t] \in Live' /\ frames'[place'[t]].kind = "breaker" /\ frames'[place'[t]].type = t
               /\ \A u \in CheckpointType : place'[u] # Nowhere /\ t < u => place'[t] < place'[u]
    <3>1. CASE t = type
      <4>1. place'[t] = Current + 1
        BY <1>1, <2>1, <3>1
      <4>2. \A u \in CheckpointType : place'[u] # Nowhere => ~(t < u)
        BY <1>1, <2>1, <3>1
      <4> QED
        BY <2>2, <3>1, <4>1, <4>2 DEF NewFrame
    <3>2. CASE t # type
      <4>1. place'[t] = place[t] /\ place[t] # Nowhere
        BY <1>1, <2>1, <2>4, <3>2
      <4>2. /\ place[t] \in Live /\ frames[place[t]].kind = "breaker" /\ frames[place[t]].type = t
            /\ \A u \in CheckpointType : place[u] # Nowhere /\ t < u => place[t] < place[u]
        BY <1>0, <4>1 DEF FramesOK, HasCheckpoint
      <4>3. place[t] \in 1 .. Current
        BY <2>2, <4>2
      <4>4. ASSUME NEW u \in CheckpointType, place'[u] # Nowhere, t < u
            PROVE  place'[t] < place'[u]
        <5>1. CASE u = type
          BY <1>1, <2>1, <4>1, <4>3, <5>1
        <5>2. CASE u # type
          BY <1>1, <2>1, <4>1, <4>2, <4>4, <5>2
        <5> QED
          BY <5>1, <5>2
      <4> QED
        BY <2>2, <4>1, <4>2, <4>3, <4>4
    <3> QED
      BY <3>1, <3>2
  <2>5. FramesOK'
    BY <2>3, <2>4 DEF FramesOK, HasCheckpoint
  <2>6. TypeOK'
    <3>1. place' \in [CheckpointType -> Nat]
      BY <1>1, <2>1
    <3> QED
      BY <1>0, <2>2, <2>3, <3>1 DEF TypeOK, BreakerTypeOK
  <2> QED
    BY <2>2, <2>3, <2>5, <2>6 DEF IInv
<1>4. ASSUME NEW type \in CheckpointType, EnterIgnored(type)
      PROVE  IInv'
  <2>1. /\ frames' = Append(frames, NewFrame("breaker", type, FALSE)) /\ topmost' = topmost /\ place' = place
    BY <1>4 DEF EnterIgnored, breaker
  <2>2. /\ frames' \in Seq(Frame) /\ Current' = Current + 1 /\ Current' \in Depth
        /\ \A i \in 1 .. Current : frames'[i] = frames[i]
        /\ Live' = Live
        /\ Live \subseteq 1 .. Current
        /\ DoingOK' /\ Geometry' /\ TableOK' /\ SawOK'
    BY <1>0, <2>1, PushedFrame
  <2>3. \A i \in Live : frames'[i] = frames[i]
    BY <2>2
  <2>4. FramesOK' /\ EndsOK'
    BY <1>0, <2>1, <2>2, <2>3 DEF FramesOK, EndsOK, HasCheckpoint
  <2>5. TypeOK'
    <3>1. topmost' \in 1 .. Current'
      BY <1>0, <1>1, <2>1, <2>2, FrameTypes
    <3> QED
      BY <1>0, <2>1, <2>2, <3>1 DEF TypeOK, BreakerTypeOK
  <2> QED
    BY <2>2, <2>4, <2>5 DEF IInv
<1> QED
  BY <1>2, <1>3, <1>4

\* What a scope keeps when others end
SameScope(i) ==
  /\ frames'[i].kind = frames[i].kind /\ frames'[i].type = frames[i].type /\ frames'[i].active = frames[i].active
  /\ frames'[i].parent = frames[i].parent /\ frames'[i].end = frames[i].end /\ frames'[i].saw = frames[i].saw

\* The scopes from n + 1 on are gone.
LEMMA Shortens ==
  ASSUME TypeOK, FramesOK, EndsOK, SawOK, NEW n \in 1 .. Current, Current' = n,
         \A i \in 1 .. n : SameScope(i),
         topmost' \in Live, topmost' <= n, \A i \in Live : i <= n => i <= topmost',
         \A t \in CheckpointType : place'[t] # Nowhere => place'[t] = place[t] /\ place[t] <= n,
         UNCHANGED <<objects, cursor>>
  PROVE  /\ FramesOK' /\ EndsOK' /\ SawOK'
         /\ Live' = {i \in Live : i <= n}
<1>0. /\ Live \subseteq 1 .. Current /\ Current \in Nat /\ n \in Nat
      /\ \A i \in 1 .. n : /\ frames'[i].kind = frames[i].kind /\ frames'[i].type = frames[i].type
                           /\ frames'[i].active = frames[i].active /\ frames'[i].parent = frames[i].parent
                           /\ frames'[i].end = frames[i].end /\ frames'[i].saw = frames[i].saw
  BY FrameTypes DEF SameScope
<1>1. Live' = {i \in Live : i <= n}
  <2>1. \A i : i \in Live' <=> i \in 1 .. n /\ frames[i].active
    BY <1>0 DEF Live
  <2>2. \A i : i \in 1 .. n <=> i \in 1 .. Current /\ i <= n
    BY <1>0
  <2> QED
    BY <2>1, <2>2 DEF Live
<1>2. \A i \in Live' : i \in Live /\ i \in 1 .. n /\ i \in Nat
  BY <1>0, <1>1
<1>3. EndsOK'
  <2>1. \A i \in Live', j \in Live' : i <= j => frames'[i].end <= frames'[j].end
    BY <1>0, <1>2 DEF EndsOK
  <2>2. topmost' \in Live' /\ frames'[topmost'].end = frames[topmost'].end /\ frames[topmost'].end <= cursor
    BY <1>0, <1>1, <1>2, EndsBelow
  <2> QED
    BY <2>1, <2>2 DEF EndsOK
<1>4. SawOK'
  <2>1. ASSUME NEW i \in Live' PROVE {o \in objects' : o.pos < frames'[i].end} = frames'[i].saw
    BY <1>0, <1>2 DEF SawOK, CheckpointedPartUntouched, Live
  <2>2. CheckpointedPartUntouched'
    BY <2>1 DEF CheckpointedPartUntouched, Live
  <2> QED
    BY <1>0, <1>2, <2>2 DEF SawOK
<1>5. FramesOK'
  <2>1. topmost' \in Live'
    BY <1>1
  <2>2. ASSUME NEW i \in Live'
        PROVE  /\ i <= topmost'
               /\ i > 1 => /\ frames'[i].parent \in Live' /\ frames'[i].parent < i
                           /\ \A j \in Live' : j < i => j <= frames'[i].parent
    <3>1. i > 1 => /\ frames[i].parent \in Live /\ frames[i].parent < i
                   /\ \A j \in Live : j < i => j <= frames[i].parent
      BY <1>2 DEF FramesOK
    <3>2. i <= topmost' /\ frames'[i].parent = frames[i].parent
      BY <1>0, <1>2
    <3>3. i > 1 => frames[i].parent \in Live'
      <4> SUFFICES ASSUME i > 1 PROVE frames[i].parent <= n
        BY <1>1, <3>1
      <4> DEFINE p == frames[i].parent
      <4>0. p \in 1 .. Current /\ p < i
        BY <1>0, <3>1
      <4>1. p \in Nat /\ p < i /\ i <= n /\ i \in Nat
        <5>1. i \in 1 .. n
          BY <1>2
        <5> HIDE DEF p
        <5> QED
          BY <1>0, <4>0, <5>1
      <4> HIDE DEF p
      <4> QED
        BY <1>0, <4>1 DEF p
    <3> QED
      BY <1>2, <3>1, <3>2, <3>3
  <2>3. ASSUME NEW t \in CheckpointType, place'[t] # Nowhere
        PROVE  /\ place'[t] \in Live' /\ frames'[place'[t]].kind = "breaker" /\ frames'[place'[t]].type = t
               /\ \A u \in CheckpointType : place'[u] # Nowhere /\ t < u => place'[t] < place'[u]
    <3>1. place'[t] = place[t] /\ place[t] <= n /\ place[t] # Nowhere
      BY <2>3
    <3>2. /\ place[t] \in Live /\ frames[place[t]].kind = "breaker" /\ frames[place[t]].type = t
          /\ \A u \in CheckpointType : place[u] # Nowhere /\ t < u => place[t] < place[u]
      BY <3>1 DEF FramesOK, HasCheckpoint
    <3>3. place[t] \in 1 .. n
      <4>1. place[t] \in 1 .. Current
        BY <1>0, <3>2
      <4> QED
        BY <1>0, <3>1, <4>1
    <3>4. \A u \in CheckpointType : place'[u] # Nowhere /\ t < u => place'[t] < place'[u]
      BY <3>1, <3>2
    <3> QED
      BY <1>0, <1>1, <3>1, <3>2, <3>3, <3>4
  <2> QED
    BY <2>1, <2>2, <2>3 DEF FramesOK, HasCheckpoint
<1> QED
  BY <1>1, <1>3, <1>4, <1>5

LEMMA ExitKeeps ==
  ASSUME IInv, Exit
  PROVE  IInv'
<1> DEFINE f == frames[Current]
           n == Current - 1
<1>0. /\ TypeOK /\ DoingOK /\ FramesOK /\ EndsOK /\ Geometry /\ TableOK /\ SawOK
      /\ doing.op = "idle" /\ Current > 1
      /\ frames' = SubSeq(frames, 1, Current - 1)
      /\ topmost' = IF topmost = Current THEN f.parent ELSE topmost
      /\ place' = IF f.kind = "breaker" THEN Unset(place, f.type) ELSE place
      /\ UNCHANGED <<objects, cursor, objectOffset, lastId, handle, doing, locks, remembered>>
  BY DEF IInv, Exit, Running, poolVars
<1>1. /\ Current \in Nat \ {0} /\ Live \subseteq 1 .. Current /\ frames \in Seq(Frame) /\ Current = Len(frames)
      /\ n \in 1 .. Current /\ n \in Nat /\ n < Current
  BY <1>0, FrameTypes DEF TypeOK, Current
<1>2. frames' \in Seq(Frame) /\ Current' = n /\ \A i \in 1 .. n : frames'[i] = frames[i]
  BY <1>0, <1>1 DEF Current
<1>3. topmost' \in Live /\ topmost' <= n /\ \A i \in Live : i <= n => i <= topmost'
  <2>1. topmost \in Live /\ \A i \in Live : i <= topmost
    BY <1>0 DEF FramesOK
  <2>4. \A i \in Live : i \in Nat /\ i <= Current /\ (i <= n <=> i < Current) /\ (i # Current => i <= n)
    BY <1>1
  <2>2. CASE topmost = Current
    <3>1. /\ f.parent \in Live /\ f.parent < Current /\ \A j \in Live : j < Current => j <= f.parent
      BY <1>0, <2>1, <2>2 DEF FramesOK
    <3>2. topmost' = f.parent
      BY <1>0, <2>2
    <3> HIDE DEF f, n
    <3> QED
      BY <2>4, <3>1, <3>2
  <2>3. CASE topmost # Current
    <3>1. topmost' = topmost
      BY <1>0, <2>3
    <3> HIDE DEF f, n
    <3> QED
      BY <2>1, <2>3, <2>4, <3>1
  <2> QED
    BY <2>2, <2>3
<1>4. place \in [CheckpointType -> Nat] /\ CheckpointType \subseteq Nat /\ f \in Frame
      /\ f.type \in CheckpointType \cup {NoType} /\ NoType \in Nat
  <2>1. f \in Frame
    BY <1>0, <1>1, FrameTypes
  <2> QED
    BY <1>0, <2>1 DEF TypeOK, BreakerTypeOK, CheckpointType, Home, Back, AnyKey, NoType, Frame
<1>5. \A t \in CheckpointType : place'[t] # Nowhere => place'[t] = place[t] /\ place[t] <= n
  <2> SUFFICES ASSUME NEW t \in CheckpointType, place'[t] # Nowhere PROVE place'[t] = place[t] /\ place[t] <= n
    OBVIOUS
  <2>1. place'[t] = place[t] /\ (f.kind = "breaker" => t < f.type)
    BY <1>0 DEF Unset
  <2>2. place[t] \in Live /\ frames[place[t]].kind = "breaker" /\ frames[place[t]].type = t
    BY <1>0, <2>1 DEF FramesOK, HasCheckpoint
  <2>3. place[t] # Current
    BY <1>4, <2>1, <2>2
  <2>4. place[t] \in 1 .. Current
    BY <1>1, <2>2
  <2>5. place[t] <= n
    BY <1>1, <2>3, <2>4
  <2> QED
    BY <2>1, <2>5
<1>6. \A i \in 1 .. n : SameScope(i)
  BY <1>2 DEF SameScope
<1>7. FramesOK' /\ EndsOK' /\ SawOK' /\ Live' = {i \in Live : i <= n}
  <2> HIDE DEF n, f
  <2> QED
    BY <1>0, <1>1, <1>2, <1>3, <1>5, <1>6, Shortens
<1>8. TypeOK'
  <2>1. place' \in [CheckpointType -> Nat]
    BY <1>0, <1>4 DEF Unset, Nowhere
  <2>2. Current' \in Depth
    BY <1>0, <1>1, <1>2, FrameTypes, Constants DEF Depth
  <2>3. topmost' \in 1 .. Current'
    BY <1>1, <1>2, <1>3
  <2> QED
    BY <1>0, <1>2, <2>1, <2>2, <2>3 DEF TypeOK, BreakerTypeOK
<1>9. DoingOK' /\ Geometry' /\ TableOK'
  BY <1>0 DEF DoingOK, Geometry, TableOK, Settled
<1> QED
  BY <1>7, <1>8, <1>9 DEF IInv

LEMMA TidyKeeps ==
  ASSUME IInv, Tidy
  PROVE  IInv'
<1>0. /\ TypeOK /\ DoingOK /\ FramesOK /\ EndsOK /\ Geometry /\ TableOK /\ SawOK
      /\ doing.op = "idle"
      /\ frames' = [frames EXCEPT ![Current].landed = FALSE]
      /\ UNCHANGED <<objects, cursor, objectOffset, lastId, doing, topmost, place, locks, remembered>>
  BY DEF IInv, Tidy, poolVars, breaker
<1>1. /\ Current \in Nat \ {0} /\ Live \subseteq 1 .. Current /\ frames \in Seq(Frame) /\ Current = Len(frames)
      /\ topmost \in Live /\ \A i \in Live : i <= topmost
      /\ frames[Current] \in Frame
  BY <1>0, FrameTypes DEF TypeOK, Current, FramesOK
<1>2. /\ frames' \in Seq(Frame) /\ Current' = Current
      /\ \A i \in 1 .. Current : frames'[i] = IF i = Current THEN [frames[i] EXCEPT !.landed = FALSE] ELSE frames[i]
  <2>1. [frames[Current] EXCEPT !.landed = FALSE] \in Frame
    BY <1>1 DEF Frame
  <2>2. frames' = [frames EXCEPT ![Current] = [frames[Current] EXCEPT !.landed = FALSE]]
    BY <1>0
  <2>3. Current \in 1 .. Len(frames)
    BY <1>1
  <2>4. /\ frames' \in Seq(Frame) /\ Len(frames') = Len(frames)
        /\ \A i \in 1 .. Len(frames) : frames'[i] = IF i = Current THEN [frames[Current] EXCEPT !.landed = FALSE] ELSE frames[i]
    BY <1>1, <2>1, <2>2, <2>3, ExceptSeq
  <2> QED
    BY <1>1, <2>4 DEF Current
<1>3. \A i \in 1 .. Current : SameScope(i)
  <2>1. \A i \in 1 .. Current : frames[i] \in Frame
    BY <1>0, FrameTypes
  <2> QED
    BY <1>2, <2>1 DEF SameScope, Frame
<1>4. \A t \in CheckpointType : place'[t] # Nowhere => place'[t] = place[t] /\ place[t] <= Current
  <2> SUFFICES ASSUME NEW t \in CheckpointType, place[t] # Nowhere PROVE place[t] <= Current
    BY <1>0
  <2> QED
    BY <1>0, <1>1 DEF FramesOK, HasCheckpoint
<1>5. FramesOK' /\ EndsOK' /\ SawOK'
  <2>1. Current \in 1 .. Current /\ topmost <= Current
    BY <1>1
  <2> QED
    BY <1>0, <1>1, <1>2, <1>3, <1>4, <2>1, Shortens
<1>6. TypeOK'
  <2>1. handle' \in [Depth -> [Slots -> Id \cup {NoId}]]
    BY <1>0 DEF TypeOK, Tidy
  <2> QED
    BY <1>0, <1>2, <2>1 DEF TypeOK, BreakerTypeOK
<1>7. DoingOK' /\ Geometry' /\ TableOK'
  BY <1>0, <1>2 DEF DoingOK, Geometry, TableOK, Settled
<1> QED
  BY <1>5, <1>6, <1>7 DEF IInv

-----------------------------------------------------------------------------
(* The jumps *)

\* A jump to the scope of an active checkpoint, wherever it comes from
LEMMA LandKeeps ==
  ASSUME IInv, NEW d \in Live, LandAt(d),
         BreakerTypeOK',
         \A t \in CheckpointType : place'[t] # Nowhere => place'[t] = place[t] /\ place[t] <= d
  PROVE  IInv'
<1>0. /\ TypeOK /\ DoingOK /\ FramesOK /\ EndsOK /\ Geometry /\ TableOK /\ SawOK
      /\ frames' = [SubSeq(frames, 1, d) EXCEPT ![d].landed = TRUE]
      /\ topmost' = d
      /\ objectOffset' = NothingRegistered
      /\ doing' = Doing("restore", frames[d].end, d, 0)
      /\ UNCHANGED <<objects, cursor, lastId>>
  BY DEF IInv, LandAt
<1>1. /\ Current \in Nat \ {0} /\ Live \subseteq 1 .. Current /\ frames \in Seq(Frame) /\ Current = Len(frames)
      /\ d \in 1 .. Current /\ d \in Nat \ {0} /\ frames[d] \in Frame /\ frames[d].end \in Nat
  BY <1>0, FrameTypes DEF TypeOK, Current
<1> DEFINE g == SubSeq(frames, 1, d)
           h == [frames[d] EXCEPT !.landed = TRUE]
<1>2. /\ g \in Seq(Frame) /\ Len(g) = d /\ \A i \in 1 .. d : g[i] = frames[i]
  BY <1>1
<1>3. h \in Frame /\ h.landed = TRUE /\ h.end = frames[d].end
  BY <1>1 DEF Frame
<1>4. frames' = [g EXCEPT ![d] = h]
  <2>1. g[d] = frames[d]
    BY <1>1, <1>2
  <2>2. frames' = [g EXCEPT ![d] = [g[d] EXCEPT !.landed = TRUE]]
    BY <1>0
  <2> QED
    BY <2>1, <2>2, Zenon
<1> HIDE DEF g
<1>5. /\ frames' \in Seq(Frame) /\ Current' = d
      /\ \A i \in 1 .. d : frames'[i] = IF i = d THEN h ELSE frames[i]
  <2> HIDE DEF h
  <2>1. d \in 1 .. Len(g)
    BY <1>1, <1>2
  <2>2. /\ frames' \in Seq(Frame) /\ Len(frames') = Len(g)
        /\ \A i \in 1 .. Len(g) : frames'[i] = IF i = d THEN h ELSE g[i]
    BY <1>2, <1>3, <1>4, <2>1, ExceptSeq
  <2> QED
    BY <1>2, <2>2 DEF Current
<1>6. \A i \in 1 .. d : SameScope(i)
  <2>1. /\ h.kind = frames[d].kind /\ h.type = frames[d].type /\ h.active = frames[d].active
        /\ h.parent = frames[d].parent /\ h.end = frames[d].end /\ h.saw = frames[d].saw
    BY <1>1 DEF Frame
  <2> HIDE DEF h
  <2> QED
    BY <1>5, <2>1 DEF SameScope
<1> HIDE DEF h
<1>7. FramesOK' /\ EndsOK' /\ SawOK'
  <2>1. topmost' \in Live /\ topmost' <= d /\ \A i \in Live : i <= d => i <= topmost'
    BY <1>0, <1>1
  <2> QED
    BY <1>0, <1>1, <1>5, <1>6, <2>1, Shortens
<1>8. TypeOK'
  <2>1. handle' \in [Depth -> [Slots -> Id \cup {NoId}]]
    BY <1>0 DEF TypeOK, LandAt, EmptyHandles
  <2>2. objectOffset' \in [Id -> 0 .. Free]
    BY <1>0, Constants DEF NothingRegistered
  <2>3. d \in Depth
    BY <1>0, <1>1, FrameTypes, Constants DEF Depth
  <2>4. Current' \in Depth /\ topmost' \in 1 .. Current'
    BY <1>0, <1>1, <1>5, <2>3
  <2>5. objects' \subseteq Object /\ cursor' \in 0 .. BufferSize /\ lastId' \in Id
    BY <1>0 DEF TypeOK
  <2> QED
    BY <1>5, <2>1, <2>2, <2>4, <2>5 DEF TypeOK
<1>9. DoingOK'
  <2>1. doing' = [op |-> "restore", pos |-> frames[d].end, scope |-> d, slot |-> 0]
    BY <1>0 DEF Doing
  <2>2. frames'[d].landed /\ frames'[d].end = frames[d].end
    <3>1. d \in 1 .. d
      BY <1>1
    <3>2. frames'[d] = h
      BY <1>5, <3>1
    <3> QED
      BY <1>3, <3>2
  <2> QED
    BY <1>0, <1>1, <1>5, <2>1, <2>2 DEF DoingOK, Ops
<1>10. Geometry'
  BY <1>0 DEF Geometry
<1>11. TableOK'
  <2>1. doing'.op = "restore"
    BY <1>0 DEF Doing
  <2>2. \A id \in Id : objectOffset'[id] = Free
    BY <1>0 DEF NothingRegistered
  <2> QED
    BY <1>0, <2>1, <2>2 DEF TableOK, Settled
<1> QED
  BY <1>7, <1>8, <1>9, <1>10, <1>11 DEF IInv

LEMMA InterruptKeeps ==
  ASSUME IInv, NEW type \in CheckpointType, Interrupt(type)
  PROVE  IInv'
<1>0. /\ FramesOK /\ BreakerTypeOK /\ place[type] # Nowhere /\ LandAt(place[type])
      /\ place' = UnsetLower(place, type) /\ locks' = locks /\ remembered' = NoType
      /\ CheckpointType \subseteq Nat
  BY DEF IInv, TypeOK, Interrupt, Jump, HasCheckpoint, CheckpointType, Home, Back, AnyKey
<1>1. place[type] \in Live /\ Live \subseteq Nat
  BY <1>0, FrameTypes DEF IInv, FramesOK, HasCheckpoint
<1>2. ASSUME NEW t \in CheckpointType, place'[t] # Nowhere
      PROVE  place'[t] = place[t] /\ place[t] <= place[type]
  <2>1. t <= type /\ place'[t] = place[t]
    BY <1>0, <1>2 DEF UnsetLower
  <2>2. t < type => place[t] < place[type]
    BY <1>0, <1>2, <2>1 DEF FramesOK, HasCheckpoint
  <2>3. place[t] \in Nat /\ place[type] \in Nat
    BY <1>0 DEF BreakerTypeOK
  <2>4. t = type \/ t < type
    <3>1. t \in Nat /\ type \in Nat
      BY <1>0
    <3> QED
      BY <2>1, <3>1
  <2> QED
    BY <2>1, <2>2, <2>3, <2>4
<1>3. BreakerTypeOK'
  BY <1>0 DEF BreakerTypeOK, UnsetLower, Nowhere
<1> QED
  BY <1>0, <1>1, <1>2, <1>3, LandKeeps

LEMMA RaiseKeeps ==
  ASSUME IInv, Raise
  PROVE  IInv'
<1>1. PICK d \in ExceptionScopes :
        /\ LandAt(d)
        /\ place' = [t \in CheckpointType |->
             IF \E i \in d + 1 .. Current :
                  frames[i].active /\ frames[i].kind = "breaker" /\ frames[i].type <= t
             THEN Nowhere ELSE place[t]]
        /\ UNCHANGED <<locks, remembered>>
  BY DEF Raise
<1>2. /\ FramesOK /\ BreakerTypeOK /\ d \in Live /\ Live \subseteq 1 .. Current /\ Current \in Nat
      /\ CheckpointType \subseteq Nat
  BY FrameTypes DEF IInv, TypeOK, ExceptionScopes, Live, CheckpointType, Home, Back, AnyKey
<1>3. ASSUME NEW t \in CheckpointType, place'[t] # Nowhere
      PROVE  place'[t] = place[t] /\ place[t] <= d
  <2>1. /\ place'[t] = place[t]
        /\ ~ \E i \in d + 1 .. Current : frames[i].active /\ frames[i].kind = "breaker" /\ frames[i].type <= t
    BY <1>1, <1>3
  <2>2. place[t] \in Live /\ frames[place[t]].kind = "breaker" /\ frames[place[t]].type = t /\ t <= t
    BY <1>2, <1>3, <2>1 DEF FramesOK, HasCheckpoint
  <2>3. place[t] \in 1 .. Current /\ frames[place[t]].active /\ d \in Nat
    BY <1>2, <2>2 DEF Live
  <2>4. ~(place[t] \in d + 1 .. Current)
    BY <2>1, <2>2, <2>3
  <2> QED
    BY <1>2, <2>1, <2>3, <2>4
<1>4. BreakerTypeOK'
  BY <1>1, <1>2 DEF BreakerTypeOK, Nowhere
<1> QED
  BY <1>1, <1>2, <1>3, <1>4, LandKeeps

\* The rest of freeDownstreamObject leaves what the checkpoint saw.
LEMMA RestoreEffect ==
  ASSUME IInv, Restore
  PROVE  /\ topmost = Current /\ Current \in Live /\ frames' = frames
         /\ doing.pos = frames[Current].end
         /\ objects' = frames[Current].saw /\ cursor' = frames[Current].end
         /\ objects' = {o \in objects : o.pos < doing.pos}
         /\ objectOffset' \in [Id -> 0 .. Free]
         /\ \A o \in objects' : o.id \in Id /\ o.pos < Free /\ objectOffset'[o.id] = o.pos
         /\ \A id \in Id : objectOffset'[id] # Free <=> \E o \in objects' : o.id = id
<1>0. /\ TypeOK /\ DoingOK /\ FramesOK /\ EndsOK /\ Geometry /\ TableOK /\ SawOK
      /\ doing.op = "restore"
      /\ cursor' = doing.pos
      /\ objects' = {o \in objects : o.pos < doing.pos}
      /\ objectOffset' = Register(objectOffset, objects')
      /\ frames' = frames
  BY DEF IInv, Restore, stackVars
<1>1. /\ topmost = Current /\ Current \in Live /\ doing.pos = frames[Current].end
  BY <1>0 DEF DoingOK, FramesOK
<1>2. objects' = frames[Current].saw
  BY <1>0, <1>1 DEF SawOK, CheckpointedPartUntouched, Live
<1>3. ASSUME NEW o \in objects'
      PROVE  o \in Object /\ o \in objects /\ o.id \in Id /\ o.pos < Free
  <2>1. o.id \in Id
    BY <1>0, <1>1 DEF SawOK
  <2>2. o \in Object /\ o.pos \in Nat /\ o.size \in Nat \ {0} /\ o.pos + o.size <= cursor /\ cursor \in 0 .. BufferSize
    BY <1>0, ObjectTypes DEF TypeOK, Geometry
  <2> QED
    BY <1>0, <2>1, <2>2, Constants
<1>4. \A o \in objects', p \in objects' : o.id = p.id => o = p
  BY <1>0, <1>3, ObjectsApart
<1>5. objectOffset = NothingRegistered /\ NothingRegistered \in [Id -> 0 .. Free]
  BY <1>0, Constants DEF TableOK, NothingRegistered
<1>6. /\ Register(objectOffset, objects') \in [Id -> 0 .. Free]
      /\ \A o \in objects' : o.id \in Id => Register(objectOffset, objects')[o.id] = o.pos
      /\ \A id \in Id : (\A o \in objects' : o.id # id) => Register(objectOffset, objects')[id] = objectOffset[id]
  <2>1. objects' \subseteq Object
    BY <1>3
  <2> QED
    BY <1>3, <1>4, <1>5, <2>1, Registers
<1>7. \A id \in Id : objectOffset'[id] # Free <=> \E o \in objects' : o.id = id
  <2> SUFFICES ASSUME NEW id \in Id PROVE objectOffset'[id] # Free <=> \E o \in objects' : o.id = id
    OBVIOUS
  <2>1. CASE \E o \in objects' : o.id = id
    <3>1. PICK o \in objects' : o.id = id
      BY <2>1
    <3>2. o.pos # Free
      BY <1>3, ObjectTypes, <1>0, Constants
    <3> QED
      BY <1>0, <1>6, <2>1, <3>1, <3>2
  <2>2. CASE \A o \in objects' : o.id # id
    BY <1>0, <1>5, <1>6, <2>2 DEF NothingRegistered
  <2> QED
    BY <2>1, <2>2
<1> QED
  BY <1>0, <1>1, <1>2, <1>3, <1>6, <1>7

LEMMA RestoreKeeps ==
  ASSUME IInv, Restore
  PROVE  IInv'
<1>0. /\ TypeOK /\ DoingOK /\ FramesOK /\ EndsOK /\ Geometry /\ TableOK /\ SawOK
      /\ doing' = Idle
      /\ UNCHANGED <<lastId, frames, topmost, handle, place, locks, remembered>>
  BY DEF IInv, Restore, stackVars, breaker
<1> DEFINE e == frames[Current].end
<1>1. /\ topmost = Current /\ Current \in Live
      /\ objects' = {o \in objects : o.pos < e} /\ cursor' = e
      /\ objectOffset' \in [Id -> 0 .. Free]
      /\ \A o \in objects' : o.id \in Id /\ objectOffset'[o.id] = o.pos
      /\ \A id \in Id : objectOffset'[id] # Free <=> \E o \in objects' : o.id = id
  BY RestoreEffect
<1>2. /\ e \in Nat /\ cursor \in 0 .. BufferSize /\ e <= cursor
  BY <1>0, <1>1, EndsBelow DEF TypeOK
<1>3. \A i \in Live : frames[i].end \in Nat /\ frames[i].end <= e
  BY <1>0, <1>1, EndsBelow
<1> HIDE DEF e
<1>4. FramesOK' /\ EndsOK' /\ Live' = Live
  <2>1. cursor' >= frames[topmost].end
    BY <1>1, <1>2 DEF e
  <2> QED
    BY <1>0, <2>1, FramesStay
<1>5. \A o \in objects : o.pos \in Nat /\ o.size \in Nat \ {0}
  BY <1>0, ObjectTypes
<1>6. TypeOK'
  BY <1>0, <1>1, <1>2, Constants DEF TypeOK, BreakerTypeOK, Current
<1>7. DoingOK'
  BY <1>0 DEF DoingOK, Idle, Ops
<1>8. Geometry'
  <2>1. cursor' = 0 \/ \E o \in objects' : o.pos = 0
    <3> SUFFICES ASSUME e # 0 PROVE \E o \in objects' : o.pos = 0
      BY <1>1
    <3>1. cursor # 0
      BY <1>2
    <3>2. PICK o \in objects : o.pos = 0
      BY <1>0, <3>1 DEF Geometry
    <3> QED
      BY <1>1, <1>2, <3>2
  <2>2. ASSUME NEW o \in objects'
        PROVE  /\ o.pos + o.size <= cursor'
               /\ o.pos + o.size = cursor' \/ \E p \in objects' : p.pos = o.pos + o.size
    <3>1. o \in objects /\ o.pos < e
      BY <1>1
    <3>2. o.pos + o.size <= e
      BY <1>0, <1>1, <3>1 DEF SawOK, e
    <3>3. CASE o.pos + o.size = e
      BY <1>1, <1>2, <3>2, <3>3
    <3>4. CASE o.pos + o.size # e
      <4>1. o.pos + o.size < e /\ o.pos + o.size # cursor
        BY <1>2, <1>5, <3>1, <3>2, <3>4
      <4>2. PICK p \in objects : p.pos = o.pos + o.size
        BY <1>0, <3>1, <4>1 DEF Geometry
      <4> QED
        BY <1>1, <3>2, <4>1, <4>2
    <3> QED
      BY <3>3, <3>4
  <2>3. \A o \in objects', p \in objects' :
          o # p => o.id # p.id /\ (o.pos + o.size <= p.pos \/ p.pos + p.size <= o.pos)
    BY <1>0, <1>1 DEF Geometry
  <2> QED
    BY <2>1, <2>2, <2>3 DEF Geometry
<1>9. TableOK'
  <2>0. doing'.op = "idle"
    BY <1>0 DEF Idle
  <2>1. ASSUME NEW i \in Id, objectOffset'[i] # Free
        PROVE  \E o \in objects' : o.id = i /\ o.pos = objectOffset'[i]
    BY <1>1, <2>1
  <2> QED
    BY <1>1, <2>0, <2>1 DEF TableOK, Settled
<1>10. SawOK'
  <2>1. ASSUME NEW i \in Live
        PROVE  {o \in objects' : o.pos < frames[i].end} = {o \in objects : o.pos < frames[i].end}
    <3>1. \A o \in objects : o.pos < frames[i].end => o.pos < e
      BY <1>2, <1>3, <1>5
    <3> QED
      BY <1>1, <3>1
  <2>2. CheckpointedPartUntouched'
    BY <1>0, <2>1 DEF SawOK, CheckpointedPartUntouched, Live, Current
  <2>3. ASSUME NEW i \in Live, NEW x \in objects', x.pos < frames[i].end
        PROVE  x.id \in Id /\ x.pos + x.size <= frames[i].end
    BY <1>0, <2>1, <2>3 DEF SawOK
  <2> QED
    BY <1>0, <1>4, <2>2, <2>3 DEF SawOK
<1> QED
  BY <1>4, <1>6, <1>7, <1>8, <1>9, <1>10 DEF IInv

-----------------------------------------------------------------------------
(* The invariant *)

LEMMA InitKeeps ==
  Init => IInv
<1> SUFFICES ASSUME Init PROVE IInv
  OBVIOUS
<1> DEFINE f == [kind |-> "breaker", type |-> Home, active |-> TRUE, parent |-> 0,
                 end |-> 0, saw |-> {}, landed |-> FALSE]
<1>1. /\ objects = {} /\ cursor = 0 /\ objectOffset = NothingRegistered /\ lastId = MaxNumberOfObjects - 1
      /\ frames = <<f>> /\ topmost = 1 /\ handle = EmptyHandles /\ doing = Idle
      /\ place = [t \in CheckpointType |-> IF t = Home THEN 1 ELSE Nowhere]
      /\ locks = 0 /\ remembered = NoType
  BY DEF Init
<1>2. f \in Frame /\ f.active /\ f.end = 0 /\ f.kind = "breaker" /\ f.type = Home /\ f.saw = {}
  <2>1. Home \in CheckpointType /\ 0 \in 0 .. MaxDepth
    BY Constants DEF CheckpointType
  <2> QED
    BY <2>1 DEF Frame
<1> HIDE DEF f
<1>3. frames \in Seq(Frame) /\ Current = 1 /\ frames[1] = f
  BY <1>1, <1>2 DEF Current
<1>4. Live = {1}
  <2>1. 1 .. 1 = {1}
    OBVIOUS
  <2> QED
    BY <1>2, <1>3, <2>1 DEF Live
<1>5. TypeOK
  <2>1. objectOffset \in [Id -> 0 .. Free] /\ handle \in [Depth -> [Slots -> Id \cup {NoId}]]
    BY <1>1, Constants DEF NothingRegistered, EmptyHandles
  <2>2. cursor \in 0 .. BufferSize /\ lastId \in Id /\ Current \in Depth /\ topmost \in 1 .. Current
    BY <1>1, <1>3, Constants DEF Id, Depth
  <2>3. BreakerTypeOK
    BY <1>1 DEF BreakerTypeOK, Nowhere, NoType
  <2> QED
    BY <1>1, <1>3, <2>1, <2>2, <2>3 DEF TypeOK
<1>6. DoingOK
  BY <1>1 DEF DoingOK, Idle, Ops
<1>7. FramesOK
  <2>1. \A t \in CheckpointType : HasCheckpoint(t) => t = Home /\ place[t] = 1
    BY <1>1 DEF HasCheckpoint
  <2>2. ~(Home < Home)
    BY DEF Home
  <2>3. topmost \in Live /\ \A i \in Live : i <= topmost /\ ~(i > 1)
    BY <1>1, <1>4
  <2>4. ASSUME NEW t \in CheckpointType, HasCheckpoint(t)
        PROVE  /\ place[t] \in Live /\ frames[place[t]].kind = "breaker" /\ frames[place[t]].type = t
               /\ \A u \in CheckpointType : HasCheckpoint(u) /\ t < u => place[t] < place[u]
    <3>1. t = Home /\ place[t] = 1
      BY <2>1, <2>4
    <3>2. \A u \in CheckpointType : HasCheckpoint(u) => ~(t < u)
      BY <2>1, <2>2, <3>1
    <3> QED
      BY <1>2, <1>3, <1>4, <3>1, <3>2
  <2> QED
    BY <2>3, <2>4 DEF FramesOK
<1>8. EndsOK
  BY <1>1, <1>2, <1>3, <1>4 DEF EndsOK
<1>9. Geometry
  BY <1>1 DEF Geometry
<1>10. TableOK
  <2>1. \A id \in Id : objectOffset[id] = Free
    BY <1>1 DEF NothingRegistered
  <2> QED
    BY <1>1, <2>1 DEF TableOK, Idle
<1>11. SawOK
  <2>1. \A i \in 1 .. Current : frames[i].saw = {}
    <3>1. 1 .. Current = {1}
      BY <1>3
    <3> QED
      BY <1>2, <1>3, <3>1
  <2> QED
    BY <1>1, <2>1 DEF SawOK, CheckpointedPartUntouched
<1> QED
  BY <1>5, <1>6, <1>7, <1>8, <1>9, <1>10, <1>11 DEF IInv

LEMMA StepKeeps ==
  IInv /\ [Next]_vars => IInv'
<1> SUFFICES ASSUME IInv, [Next]_vars PROVE IInv'
  OBVIOUS
<1>1. ASSUME NEW d \in Depth, NEW s \in Slots, NEW size \in Sizes, Alloc(size, d, s)
      PROVE  IInv'
  BY <1>1, AllocKeeps
<1>2. ASSUME NEW d \in Depth, NEW s \in Slots, (\E id \in Id : Retain(d, s, id)) \/ Release(d, s)
      PROVE  IInv'
  BY <1>2, CountKeeps
<1>3. ASSUME NEW d \in Depth, NEW s \in Slots, Discard(d, s)
      PROVE  IInv'
  BY <1>3, DiscardKeeps
<1>4. CASE Name
  BY <1>4, NameKeeps
<1>5. CASE Compact
  BY <1>5, CompactKeeps
<1>6. CASE RegisterDownstream
  BY <1>6, RegisterKeeps
<1>7. CASE EnterException \/ \E type \in CheckpointType : EnterBreaker(type) \/ EnterIgnored(type)
  BY <1>7, EnterKeeps
<1>8. ASSUME NEW type \in CheckpointType, Interrupt(type)
      PROVE  IInv'
  BY <1>8, InterruptKeeps
<1>9. CASE Exit
  BY <1>9, ExitKeeps
<1>10. CASE Raise
  BY <1>10, RaiseKeeps
<1>11. CASE Restore
  BY <1>11, RestoreKeeps
<1>12. CASE Tidy
  BY <1>12, TidyKeeps
<1>13. CASE UNCHANGED vars
  <2>1. UNCHANGED <<objects, cursor, objectOffset, lastId, frames, topmost, handle, doing, place, locks, remembered>>
    BY <1>13 DEF vars, poolVars, stackVars, breaker
  <2>2. TypeOK' /\ DoingOK' /\ Geometry' /\ TableOK'
    BY <2>1 DEF IInv, TypeOK, BreakerTypeOK, DoingOK, Geometry, TableOK, Settled, Current
  <2>3. FramesOK' /\ EndsOK' /\ SawOK'
    BY <2>1 DEF IInv, FramesOK, EndsOK, SawOK, CheckpointedPartUntouched, HasCheckpoint, Live, Current
  <2> QED
    BY <2>2, <2>3 DEF IInv
<1> QED
  BY <1>1, <1>2, <1>3, <1>4, <1>5, <1>6, <1>7, <1>8, <1>9, <1>10, <1>11, <1>12, <1>13 DEF Next

(* The pool, the table of its objects, the frames and the circuit breaker   *)
(* agree after every step, whatever the code does with its handles: the     *)
(* invariant that the theorems below rest on.                               *)
THEOREM PoolInvariance ==
  Spec => []IInv
<1>1. Init => IInv
  BY InitKeeps
<1>2. IInv /\ [Next]_vars => IInv'
  BY StepKeeps
<1> QED
  BY <1>1, <1>2, PTL DEF Spec

(* The pool can be walked from object to object, the table gives every      *)
(* identifier the place of its object and no other, and nextFreeIdentifier  *)
(* finds an identifier (Pool::alloc, discardPoolObject, registerObject).    *)
THEOREM PoolIsWellFormed ==
  Spec => []PoolWellFormed
<1>1. ASSUME IInv PROVE PoolWellFormed
  <2>1. TypeOK /\ DoingOK /\ Geometry /\ TableOK
    BY <1>1 DEF IInv
  <2>2. doing.op = "name" => \E id \in Id : objectOffset[id] = Free
    BY <2>1, SomeIdentifierIsFree
  <2>3. CASE doing.op = "idle"
    <3>1. \A id \in Id : objectOffset[id] = Free \/ \E o \in objects : o.id = id /\ o.pos = objectOffset[id]
      BY <2>1, <2>3 DEF TableOK
    <3>2. \A o \in objects : o.id \in Id /\ objectOffset[o.id] = o.pos
      BY <2>1, <2>3 DEF TableOK, Settled
    <3> QED
      BY <2>1, <2>2, <3>1, <3>2 DEF PoolWellFormed, Geometry
  <2> QED
    BY <2>1, <2>2, <2>3 DEF PoolWellFormed
<1> QED
  BY <1>1, PoolInvariance, PTL

(* Neither an exception nor a key press jumps to a scope that was left: the *)
(* chain from s_topmost through m_parent holds the active checkpoints, and  *)
(* the place of each type is one of them (Checkpoint, ExceptionCheckpoint,  *)
(* CircuitBreakerCheckpoint).                                               *)
THEOREM JumpsStayInside ==
  Spec => []JumpTargetsAlive
<1>1. ASSUME IInv PROVE JumpTargetsAlive
  <2>0. TypeOK /\ FramesOK
    BY <1>1 DEF IInv
  <2>1. /\ \A i : i \in Live <=> i \in 1 .. Current /\ frames[i].active
        /\ topmost \in Live /\ Current \in Nat
        /\ \A i \in 1 .. Current : i \in Nat /\ frames[i].parent \in Nat
    BY <2>0, FrameTypes, Constants DEF FramesOK, Live
  <2>2. ASSUME NEW i \in Live
        PROVE  /\ i <= topmost
               /\ i > 1 => frames[i].parent < i /\ frames[frames[i].parent].active
               /\ \A j \in frames[i].parent + 1 .. i - 1 : ~ frames[j].active
    <3>1. i <= topmost /\ (i > 1 => /\ frames[i].parent \in Live /\ frames[i].parent < i
                                    /\ \A j \in Live : j < i => j <= frames[i].parent)
      BY <2>0 DEF FramesOK
    <3>2. i \in 1 .. Current /\ i \in Nat /\ frames[i].parent \in Nat
      BY <2>1
    <3>3. ASSUME NEW j \in frames[i].parent + 1 .. i - 1, frames[j].active
          PROVE  FALSE
      <4>1. j \in Nat /\ j < i /\ j >= 1 /\ ~(j <= frames[i].parent) /\ i > 1
        BY <3>2
      <4>2. j \in 1 .. Current
        BY <2>1, <3>2, <4>1
      <4> QED
        BY <2>1, <3>1, <3>3, <4>1, <4>2
    <3> QED
      BY <2>1, <3>1, <3>3
  <2>3. \A t \in CheckpointType : HasCheckpoint(t) =>
          /\ place[t] <= Current /\ frames[place[t]].active
          /\ frames[place[t]].kind = "breaker" /\ frames[place[t]].type = t
    <3>1. \A i \in Live : i <= Current
      BY <2>1
    <3> QED
      BY <2>0, <2>1, <3>1 DEF FramesOK
  <2>4. topmost \in 1 .. Current /\ frames[topmost].active
    BY <2>1
  <2> QED
    BY <2>1, <2>2, <2>3, <2>4 DEF JumpTargetsAlive
<1> QED
  BY <1>1, PoolInvariance, PTL

(* What a checkpoint saw is not moved, freed or recounted as long as the    *)
(* checkpoint is there, by any operation and at any of its steps.           *)
THEOREM SeenPartIsUntouched ==
  Spec => []CheckpointedPartUntouched
<1>1. IInv => CheckpointedPartUntouched
  BY DEF IInv, SawOK
<1> QED
  BY <1>1, PoolInvariance, PTL

(* A jump restores the pool its checkpoint saw, from whatever step of       *)
(* whatever operation it came (freeDownstreamObject).                       *)
THEOREM JumpsRestore ==
  Spec => JumpRestores
<1> DEFINE Restored == doing.op = "restore" /\ doing'.op = "idle" =>
                         /\ objects' = frames'[Len(frames')].saw
                         /\ cursor' = frames'[Len(frames')].end
                         /\ \A id \in Id : objectOffset'[id] # Free <=> \E o \in objects' : o.id = id
<1>1. ASSUME IInv, [Next]_vars PROVE [Restored]_vars
  <2>1. SUFFICES ASSUME doing.op = "restore", doing'.op = "idle"
                 PROVE  Restored
    OBVIOUS
  <2>2. Restore
    <3>1. ~ UNCHANGED vars
      BY <2>1 DEF vars
    <3>2. \A type \in CheckpointType : ~ Interrupt(type)
      BY <2>1 DEF Interrupt, LandAt, Doing
    <3> QED
      BY <1>1, <2>1, <3>1, <3>2 DEF Next, Alloc, Retain, Release, Discard, Name, Compact, RegisterDownstream,
         EnterException, EnterBreaker, EnterIgnored, Exit, Raise, Tidy, Running
  <2>3. /\ frames' = frames /\ objects' = frames[Current].saw /\ cursor' = frames[Current].end
        /\ \A id \in Id : objectOffset'[id] # Free <=> \E o \in objects' : o.id = id
    BY <1>1, <2>2, RestoreEffect
  <2> QED
    BY <2>3 DEF Current
<1> QED
  BY <1>1, PoolInvariance, PTL DEF Spec, JumpRestores

-----------------------------------------------------------------------------
(* The owners of an object *)

\* The handle t of the scope e counts in the object o.
Owns(o, e, t) ==
  e \in 1 .. Current /\ t \in Slots /\ handle[e][t] = o.id /\ ~ IsInner(e, o.pos)

LEMMA OwnsIs ==
  ASSUME NEW o, NEW e, NEW t
  PROVE  <<e, t>> \in Owners(o) <=> Owns(o, e, t)
BY DEF Owners, Owns

LEMMA SameOwners ==
  ASSUME NEW x, NEW y, \A e, t : Owns(x, e, t)' <=> Owns(y, e, t)
  PROVE  Owners(x)' = Owners(y)
<1>1. /\ Owners(x)' \subseteq (1 .. Current') \X Slots
      /\ Owners(y) \subseteq (1 .. Current) \X Slots
  BY DEF Owners
<1>2. ASSUME NEW e, NEW t PROVE <<e, t>> \in Owners(x)' <=> <<e, t>> \in Owners(y)
  BY DEF Owners, Owns
<1> QED
  BY <1>1, <1>2

LEMMA OwnersFinite ==
  ASSUME TypeOK, NEW o
  PROVE  IsFiniteSet(Owners(o)) /\ Cardinality(Owners(o)) \in Nat
<1>1. IsFiniteSet(1 .. Current) /\ IsFiniteSet(Slots)
  BY FrameTypes, FS_Interval, PoolAssumption
<1>2. IsFiniteSet((1 .. Current) \X Slots)
  BY <1>1, FS_Product
<1>3. Owners(o) \subseteq (1 .. Current) \X Slots
  BY DEF Owners
<1> QED
  BY <1>2, <1>3, FS_Subset, FS_CardinalityType

\* An object that a handle may count is inside no checkpoint.
LEMMA AboveIsNotInner ==
  ASSUME TypeOK, FramesOK, EndsOK, NEW d \in 1 .. Current, NEW pos \in Nat, pos >= frames[topmost].end
  PROVE  ~ IsInner(d, pos)
<1> SUFFICES ASSUME NEW i \in Live, pos < frames[i].end PROVE FALSE
  BY InnerIs
<1> QED
  BY EndsBelow

\* InnerIs, as a fact of a state
InnerFact ==
  TypeOK /\ EndsOK =>
    \A d \in 1 .. Current, pos \in Nat : IsInner(d, pos) <=> \E i \in Live : i <= d /\ pos < frames[i].end

LEMMA InnerNow == InnerFact
BY InnerIs DEF InnerFact

LEMMA InnerNext == InnerFact'
BY InnerNow, PTL

\* A handle is inside the same checkpoints as long as the scopes around it are there.
LEMMA SameInner ==
  ASSUME TypeOK, EndsOK, TypeOK', EndsOK', NEW d \in 1 .. Current, d \in 1 .. Current', NEW pos \in Nat,
         \A i \in 1 .. d : frames'[i].active = frames[i].active /\ frames'[i].end = frames[i].end
  PROVE  IsInner(d, pos)' <=> IsInner(d, pos)
<1>1. IsInner(d, pos) <=> \E i \in Live : i <= d /\ pos < frames[i].end
  BY InnerIs
<1>2. IsInner(d, pos)' <=> \E i \in Live' : i <= d /\ pos < frames'[i].end
  BY InnerNext DEF InnerFact
<1>3. Current \in Nat /\ d \in Nat /\ Current' \in Nat
  BY FrameTypes, Constants DEF TypeOK
<1>4. \A i : (i \in 1 .. d <=> i \in 1 .. Current /\ i <= d) /\ (i \in 1 .. d <=> i \in 1 .. Current' /\ i <= d)
  BY <1>3
<1>5. \A i : (i \in Live /\ i <= d) <=> (i \in Live' /\ i <= d)
  BY <1>4 DEF Live
<1>6. \A i : i \in Live /\ i <= d => frames'[i].end = frames[i].end
  BY <1>4 DEF Live
<1> QED
  BY <1>1, <1>2, <1>5, <1>6

\* The same, while no scope changes
LEMMA FramesSameInner ==
  ASSUME UNCHANGED frames, NEW d, NEW pos
  PROVE  IsInner(d, pos)' = IsInner(d, pos)
BY DEF IsInner, ScopesOf, SegmentOf, Current

LEMMA PosBelowFree ==
  ASSUME TypeOK, Geometry, NEW o \in objects
  PROVE  o.pos \in Nat /\ o.pos # Free
<1>1. o.pos \in Nat /\ o.size \in Nat \ {0} /\ o.pos + o.size <= cursor /\ cursor \in 0 .. BufferSize
  BY ObjectTypes DEF Geometry, TypeOK
<1> QED
  BY <1>1, Constants

\* What holds between two operations when the code is not handling a jump
LEMMA WhenRunning ==
  ASSUME HInv, Running
  PROVE  /\ IInv /\ TypeOK /\ FramesOK /\ EndsOK /\ Geometry /\ TableOK
         /\ doing.op = "idle" /\ ~ frames[Current].landed
         /\ \A o \in objects : /\ o.id \in Id /\ objectOffset[o.id] = o.pos /\ o.pos \in Nat /\ o.pos # Free
                               /\ o.count = Cardinality(Owners(o))
         /\ \A e \in Depth, t \in Slots : handle[e][t] # NoId => objectOffset[handle[e][t]] # Free
         /\ \A e \in Depth, t \in Slots : e > Current => handle[e][t] = NoId
         /\ \A e \in 1 .. Current : e \in Depth
         /\ handle \in [Depth -> [Slots -> Id \cup {NoId}]]
<1>1. TypeOK /\ FramesOK /\ EndsOK /\ Geometry /\ TableOK /\ doing.op = "idle" /\ ~ frames[Current].landed
  BY DEF HInv, IInv, Running
<1>2. ASSUME NEW o \in objects
      PROVE  /\ o.id \in Id /\ objectOffset[o.id] = o.pos /\ o.pos \in Nat /\ o.pos # Free
             /\ o.count = Cardinality(Owners(o))
  <2>1. o.id \in Id /\ objectOffset[o.id] = o.pos
    BY <1>1 DEF TableOK, Settled
  <2>2. o.count = Cardinality(Owners(o))
    BY <1>1 DEF HInv, CountsOK, Counted
  <2> QED
    BY <1>1, <2>1, <2>2, PosBelowFree
<1>3. \A e \in Depth, t \in Slots : handle[e][t] # NoId => objectOffset[handle[e][t]] # Free
  BY <1>1 DEF HInv, HandlesOK
<1>4. \A e \in Depth, t \in Slots : e > Current => handle[e][t] = NoId
  BY DEF HInv, HandlesOK, EmptyHandles
<1>5. \A e \in 1 .. Current : e \in Depth
  BY <1>1, FrameTypes, Constants DEF Depth
<1> QED
  BY <1>1, <1>2, <1>3, <1>4, <1>5 DEF HInv, TypeOK

-----------------------------------------------------------------------------
(* The operations on the handles *)

LEMMA AllocCounts ==
  ASSUME HInv, NEW size \in Sizes, NEW d \in Depth, NEW s \in Slots, Alloc(size, d, s)
  PROVE  HandlesOK' /\ CountsOK'
<1> DEFINE n == [id |-> NoId, pos |-> cursor, size |-> size, count |-> 0]
<1>0. /\ Running /\ handle[d][s] = NoId
      /\ objects' = objects \cup {n}
      /\ doing' = Doing("name", cursor, d, s)
      /\ UNCHANGED <<objectOffset, frames, handle>>
  BY DEF Alloc, stackVars
<1>1. doing'.op = "name" /\ doing'.pos = cursor /\ doing'.scope = d /\ doing'.slot = s
  BY <1>0 DEF Doing
<1>2. HandlesOK'
  BY <1>0, <1>1, WhenRunning DEF HandlesOK, HInv, Current
<1>3. ASSUME NEW o \in objects', Counted(o)'
      PROVE  o.count = Cardinality(Owners(o)')
  <2>1. o.pos # cursor
    BY <1>1, <1>3 DEF Counted
  <2>2. o \in objects
    BY <1>0, <2>1
  <2>3. Owners(o)' = Owners(o)
    BY <1>0, FramesSameInner DEF Owners, Current
  <2> QED
    BY <1>0, <2>2, <2>3, WhenRunning
<1> QED
  BY <1>2, <1>3 DEF CountsOK

LEMMA NameCounts ==
  ASSUME HInv, Name
  PROVE  HandlesOK' /\ CountsOK'
<1>0. /\ TypeOK /\ DoingOK /\ FramesOK /\ EndsOK /\ Geometry /\ HandlesOK /\ CountsOK
      /\ doing.op = "name" /\ doing' = Idle /\ doing'.op = "idle" /\ frames' = frames
  BY DEF HInv, IInv, Name, Idle, stackVars
<1>a. PICK d, s : d = doing.scope /\ s = doing.slot
  OBVIOUS
<1>1. PICK raw \in objects, id \in Id :
        /\ raw.pos = doing.pos /\ raw.id = NoId /\ objectOffset[id] = Free
        /\ objects' = Replaced(raw, [raw EXCEPT !.id = id, !.count = 1])
        /\ objectOffset' = [objectOffset EXCEPT ![id] = raw.pos]
        /\ handle' = [handle EXCEPT ![d][s] = id]
        /\ \A o \in objects : o # raw => o.id \in Id /\ o.id # id /\ objectOffset[o.id] = o.pos
  BY <1>a, NameEffect DEF HInv
<1>2. /\ d \in 1 .. Current /\ d \in Depth /\ s \in Slots /\ handle[d][s] = NoId /\ ~ frames[Current].landed
      /\ doing.pos >= frames[topmost].end
      /\ \A e \in 1 .. Current : e \in Depth
  <2>1. d \in 1 .. Current /\ s \in Slots /\ doing.pos >= frames[topmost].end
    BY <1>0, <1>a DEF DoingOK
  <2>2. handle[d][s] = NoId /\ ~ frames[Current].landed
    BY <1>0, <1>a DEF HandlesOK
  <2>3. \A e \in 1 .. Current : e \in Depth
    BY <1>0, FrameTypes, Constants DEF Depth
  <2> QED
    BY <2>1, <2>2, <2>3
<1>3. /\ raw.pos \in Nat /\ raw.pos # Free
      /\ objectOffset \in [Id -> 0 .. Free] /\ handle \in [Depth -> [Slots -> Id \cup {NoId}]]
  BY <1>0, PosBelowFree DEF TypeOK
<1>4. \A e \in Depth, t \in Slots : handle'[e][t] = IF e = d /\ t = s THEN id ELSE handle[e][t]
  BY <1>1, <1>2, <1>3
<1>5. \A e \in Depth, t \in Slots : handle[e][t] # NoId => handle[e][t] \in Id /\ objectOffset[handle[e][t]] # Free
  <2>1. \A e \in Depth, t \in Slots : handle[e][t] # NoId => objectOffset[handle[e][t]] # Free
    BY <1>0, <1>2 DEF HandlesOK
  <2> QED
    BY <1>3, <2>1
<1>6. HandlesOK'
  <2>1. ASSUME NEW e \in Depth, NEW t \in Slots, handle'[e][t] # NoId
        PROVE  objectOffset'[handle'[e][t]] # Free
    BY <1>1, <1>3, <1>4, <1>5, <2>1
  <2>2. ASSUME NEW e \in Depth, e > Current
        PROVE  handle'[e] = handle[e]
    <3>1. e # d
      BY <1>0, <1>2, <2>2, FrameTypes
    <3> QED
      BY <1>1, <3>1, <1>3
  <2> QED
    BY <1>0, <2>1, <2>2 DEF HandlesOK, Current
<1>7. PICK n : n = [raw EXCEPT !.id = id, !.count = 1] /\ n.id = id /\ n.pos = raw.pos /\ n.count = 1
  <2> DEFINE m == [raw EXCEPT !.id = id]
  <2>1. raw \in Object
    BY <1>0, ObjectTypes
  <2>2. m.id = id /\ m.pos = raw.pos /\ m \in [id : Id, pos : Nat, size : Nat \ {0}, count : Int]
    BY <2>1 DEF Object
  <2>3. [raw EXCEPT !.id = id, !.count = 1] = [m EXCEPT !.count = 1]
    OBVIOUS
  <2> HIDE DEF m
  <2>4. [m EXCEPT !.count = 1].id = id /\ [m EXCEPT !.count = 1].pos = raw.pos /\ [m EXCEPT !.count = 1].count = 1
    BY <2>2
  <2> QED
    BY <2>3, <2>4, Zenon
<1>8. \A o \in objects' : o = n \/ (o \in objects /\ o # raw)
  BY <1>1, <1>7 DEF Replaced
<1>9. Cardinality(Owners(n)') = 1
  <2>1. ~ IsInner(d, n.pos)'
    BY <1>0, <1>1, <1>2, <1>3, <1>7, AboveIsNotInner, FramesSameInner
  <2>2. ASSUME NEW e \in 1 .. Current, NEW t \in Slots, handle'[e][t] = id
        PROVE  e = d /\ t = s
    BY <1>1, <1>2, <1>4, <1>5, <2>2, Constants
  <2>3. Owners(n)' = {<<d, s>>}
    <3>1. <<d, s>> \in Owners(n)'
      BY <1>0, <1>2, <1>4, <1>7, <2>1 DEF Owners, Current
    <3>2. \A h \in Owners(n)' : h = <<d, s>>
      BY <1>0, <1>7, <2>2 DEF Owners, Current
    <3> QED
      BY <3>1, <3>2
  <2> QED
    BY <2>3, FS_Singleton
<1>10. ASSUME NEW o \in objects, o # raw
       PROVE  o.count = Cardinality(Owners(o)')
  <2>1. o.pos # doing.pos
    BY <1>0, <1>1, <1>10, ObjectsApart
  <2>2. o.count = Cardinality(Owners(o))
    BY <1>0, <2>1 DEF CountsOK, Counted
  <2>3. o.id # id /\ o.id # NoId
    BY <1>1, <1>10, Constants
  <2>4. \A e, t : Owns(o, e, t)' <=> Owns(o, e, t)
    BY <1>0, <1>2, <1>4, <2>3, FramesSameInner DEF Owns, Current
  <2> QED
    BY <2>2, <2>4, SameOwners
<1> QED
  BY <1>6, <1>7, <1>8, <1>9, <1>10 DEF CountsOK

LEMMA Recounted ==
  ASSUME TypeOK, NEW o \in objects, NEW n \in Int
  PROVE  \E m : m = [o EXCEPT !.count = n] /\ m.id = o.id /\ m.pos = o.pos /\ m.count = n
<1> WITNESS [o EXCEPT !.count = n]
<1> QED
  BY ObjectTypes

\* What a handle that is set or reset names: an object it may count, above the
\* checkpoints, or one that a checkpoint around the handle saw.
LEMMA MayAlter ==
  ASSUME Careful, HInv, Running, NEW d \in 1 .. Current, NEW id \in Id, CanAlter(d, id)
  PROVE  /\ objectOffset[id] # Free
         /\ ObjectOf(id) \in objects /\ ObjectOf(id).id = id /\ ObjectOf(id).pos = objectOffset[id]
         /\ \A o \in objects : o.id = id => o = ObjectOf(id)
         /\ CanUpdateRefCounter(id) => \A e \in 1 .. Current : ~ IsInner(e, ObjectOf(id).pos)
         /\ ~CanUpdateRefCounter(id) => IsInner(d, ObjectOf(id).pos)
<1>1. objectOffset[id] # Free /\ (CanUpdateRefCounter(id) \/ IsInner(d, objectOffset[id]))
  BY DEF CanAlter
<1>2. /\ ObjectOf(id) \in objects /\ ObjectOf(id).id = id /\ ObjectOf(id).pos = objectOffset[id]
      /\ objectOffset[id] \in Nat
  BY <1>1, WhenRunning, ObjectOfId
<1>3. \A o \in objects : o.id = id => o = ObjectOf(id)
  BY <1>2, WhenRunning, ObjectsApart
<1>4. CanUpdateRefCounter(id) => \A e \in 1 .. Current : ~ IsInner(e, objectOffset[id])
  BY <1>2, WhenRunning, AboveIsNotInner DEF CanUpdateRefCounter, TopmostEndOfPool
<1> QED
  BY <1>1, <1>2, <1>3, <1>4

LEMMA RetainCounts ==
  ASSUME Careful, HInv, NEW d \in Depth, NEW s \in Slots, NEW id \in Id, Retain(d, s, id)
  PROVE  HandlesOK' /\ CountsOK'
<1>0. /\ Running /\ doing.op = "idle" /\ d \in 1 .. Current /\ handle[d][s] = NoId /\ CanAlter(d, id)
      /\ handle' = [handle EXCEPT ![d][s] = id]
      /\ objects' = IF CanUpdateRefCounter(id)
                    THEN SetCount(ObjectOf(id), ObjectOf(id).count + 1) ELSE objects
      /\ UNCHANGED <<objectOffset, frames, doing>>
  <2>1. d \in Nat \ {0} /\ Current \in Nat
    BY WhenRunning, FrameTypes, Constants DEF Retain
  <2> QED
    BY <2>1 DEF Retain, Running, stackVars
<1>1. PICK o \in objects :
        /\ o = ObjectOf(id) /\ o.id = id /\ \A x \in objects : x.id = id => x = o
        /\ CanUpdateRefCounter(id) => \A e \in 1 .. Current : ~ IsInner(e, o.pos)
        /\ ~CanUpdateRefCounter(id) => IsInner(d, o.pos)
  BY <1>0, MayAlter
<1>2. objectOffset[id] # Free
  BY <1>0, MayAlter
<1>3. \A e \in Depth, t \in Slots : handle'[e][t] = IF e = d /\ t = s THEN id ELSE handle[e][t]
  BY <1>0, WhenRunning
<1>4. HandlesOK'
  <2>1. ASSUME NEW e \in Depth, NEW t \in Slots, handle'[e][t] # NoId
        PROVE  objectOffset'[handle'[e][t]] # Free
    BY <1>0, <1>2, <1>3, <2>1, WhenRunning
  <2>2. ASSUME NEW e \in Depth, e > Current
        PROVE  handle'[e] = EmptyHandles[e]
    <3>1. e # d
      BY <1>0, <2>2, WhenRunning, FrameTypes
    <3>2. handle[e] = EmptyHandles[e]
      BY <2>2 DEF HInv, HandlesOK
    <3> QED
      BY <1>0, <3>1, <3>2, WhenRunning
  <2> QED
    BY <1>0, <2>1, <2>2 DEF HandlesOK, Current, Running
<1>5. ASSUME NEW x \in objects, x # o \/ ~CanUpdateRefCounter(id)
      PROVE  x.count = Cardinality(Owners(x)')
  <2>1. x.id \in Id /\ x.id # NoId /\ x.count = Cardinality(Owners(x))
    BY <1>0, WhenRunning, Constants
  <2>2. ASSUME NEW e, NEW t PROVE Owns(x, e, t)' <=> Owns(x, e, t)
    <3>1. CASE e = d /\ t = s
      <4>1. x.id = id => IsInner(d, x.pos)
        BY <1>1, <1>5
      <4> QED
        BY <1>0, <1>3, <2>1, <3>1, <4>1, FramesSameInner DEF Owns, Current
    <3>2. CASE ~(e = d /\ t = s)
      BY <1>0, <1>3, <3>2, FramesSameInner, WhenRunning DEF Owns, Current
    <3> QED
      BY <3>1, <3>2
  <2> QED
    BY <2>1, <2>2, SameOwners
<1>6. CASE CanUpdateRefCounter(id)
  <2>1. PICK m : m = [o EXCEPT !.count = o.count + 1] /\ m.id = id /\ m.pos = o.pos /\ m.count = o.count + 1
    <3>1. o.count + 1 \in Int /\ TypeOK
      BY <1>0, WhenRunning, ObjectTypes
    <3>2. \E m : m = [o EXCEPT !.count = o.count + 1] /\ m.id = o.id /\ m.pos = o.pos /\ m.count = o.count + 1
      BY <3>1, Recounted
    <3> QED
      BY <1>1, <3>2
  <2>2. objects' = (objects \ {o}) \cup {m}
    BY <1>0, <1>1, <1>6, <2>1 DEF SetCount
  <2>3. Owners(m)' = Owners(o) \cup {<<d, s>>} /\ <<d, s>> \notin Owners(o)
    <3>1. <<d, s>> \notin Owners(o)
      BY <1>0, <1>1, Constants DEF Owners
    <3>2. ASSUME NEW e \in 1 .. Current, NEW t \in Slots
          PROVE  <<e, t>> \in Owners(m)' <=> <<e, t>> \in Owners(o) \/ (e = d /\ t = s)
      BY <1>0, <1>1, <1>3, <1>6, <2>1, FramesSameInner, WhenRunning DEF Owners, Current
    <3>3. Owners(m)' \subseteq (1 .. Current) \X Slots /\ Owners(o) \subseteq (1 .. Current) \X Slots
      BY <1>0 DEF Owners, Current
    <3> QED
      BY <1>0, <3>1, <3>2, <3>3
  <2>4. Cardinality(Owners(m)') = Cardinality(Owners(o)) + 1
    <3>1. IsFiniteSet(Owners(o))
      BY <1>0, WhenRunning, OwnersFinite
    <3> QED
      BY <2>3, <3>1, FS_AddElement
  <2>5. m.count = Cardinality(Owners(m)')
    BY <1>0, <2>1, <2>4, WhenRunning
  <2> QED
    BY <1>4, <1>5, <2>2, <2>5 DEF CountsOK
<1>7. CASE ~CanUpdateRefCounter(id)
  BY <1>0, <1>4, <1>5, <1>7 DEF CountsOK
<1> QED
  BY <1>6, <1>7

LEMMA ReleaseCounts ==
  ASSUME Careful, HInv, NEW d \in Depth, NEW s \in Slots, Release(d, s)
  PROVE  HandlesOK' /\ CountsOK'
<1>a. PICK id : id = handle[d][s]
  OBVIOUS
<1>0. /\ Running /\ doing.op = "idle" /\ d \in 1 .. Current /\ id \in Id /\ CanAlter(d, id)
      /\ handle' = [handle EXCEPT ![d][s] = NoId]
      /\ objects' = IF CanUpdateRefCounter(id)
                    THEN SetCount(ObjectOf(id), ObjectOf(id).count - 1) ELSE objects
      /\ UNCHANGED <<objectOffset, frames, doing>>
  <2>1. d \in Nat \ {0} /\ Current \in Nat /\ id \in Id \cup {NoId}
    BY <1>a, WhenRunning, FrameTypes, Constants DEF Release
  <2> QED
    BY <1>a, <2>1 DEF Release, Running, stackVars
<1>1. PICK o \in objects :
        /\ o = ObjectOf(id) /\ o.id = id /\ \A x \in objects : x.id = id => x = o
        /\ CanUpdateRefCounter(id) => \A e \in 1 .. Current : ~ IsInner(e, o.pos)
        /\ ~CanUpdateRefCounter(id) => IsInner(d, o.pos)
  BY <1>0, MayAlter
<1>3. \A e \in Depth, t \in Slots : handle'[e][t] = IF e = d /\ t = s THEN NoId ELSE handle[e][t]
  BY <1>0, WhenRunning
<1>4. HandlesOK'
  <2>1. ASSUME NEW e \in Depth, NEW t \in Slots, handle'[e][t] # NoId
        PROVE  objectOffset'[handle'[e][t]] # Free
    BY <1>0, <1>3, <2>1, WhenRunning
  <2>2. ASSUME NEW e \in Depth, e > Current
        PROVE  handle'[e] = EmptyHandles[e]
    <3>1. e # d
      BY <1>0, <2>2, WhenRunning, FrameTypes
    <3>2. handle[e] = EmptyHandles[e]
      BY <2>2 DEF HInv, HandlesOK
    <3> QED
      BY <1>0, <3>1, <3>2, WhenRunning
  <2> QED
    BY <1>0, <2>1, <2>2 DEF HandlesOK, Current, Running
<1>5. ASSUME NEW x \in objects, x # o \/ ~CanUpdateRefCounter(id)
      PROVE  x.count = Cardinality(Owners(x)')
  <2>1. x.id \in Id /\ x.id # NoId /\ x.count = Cardinality(Owners(x))
    BY <1>0, WhenRunning, Constants
  <2>2. ASSUME NEW e, NEW t PROVE Owns(x, e, t)' <=> Owns(x, e, t)
    <3>1. CASE e = d /\ t = s
      <4>1. x.id = id => IsInner(d, x.pos)
        BY <1>1, <1>5
      <4> QED
        BY <1>0, <1>a, <1>3, <2>1, <3>1, <4>1, FramesSameInner DEF Owns, Current
    <3>2. CASE ~(e = d /\ t = s)
      BY <1>0, <1>3, <3>2, FramesSameInner, WhenRunning DEF Owns, Current
    <3> QED
      BY <3>1, <3>2
  <2> QED
    BY <2>1, <2>2, SameOwners
<1>6. CASE CanUpdateRefCounter(id)
  <2>1. PICK m : m = [o EXCEPT !.count = o.count - 1] /\ m.id = id /\ m.pos = o.pos /\ m.count = o.count - 1
    <3>1. o.count - 1 \in Int /\ TypeOK
      BY <1>0, WhenRunning, ObjectTypes
    <3>2. \E m : m = [o EXCEPT !.count = o.count - 1] /\ m.id = o.id /\ m.pos = o.pos /\ m.count = o.count - 1
      BY <3>1, Recounted
    <3> QED
      BY <1>1, <3>2
  <2>2. objects' = (objects \ {o}) \cup {m}
    BY <1>0, <1>1, <1>6, <2>1 DEF SetCount
  <2>3. Owners(m)' = Owners(o) \ {<<d, s>>} /\ <<d, s>> \in Owners(o)
    <3>1. <<d, s>> \in Owners(o)
      BY <1>0, <1>a, <1>1, <1>6 DEF Owners
    <3>2. ASSUME NEW e \in 1 .. Current, NEW t \in Slots
          PROVE  <<e, t>> \in Owners(m)' <=> <<e, t>> \in Owners(o) /\ ~(e = d /\ t = s)
      BY <1>0, <1>1, <1>3, <1>6, <2>1, FramesSameInner, WhenRunning, Constants DEF Owners, Current
    <3>3. Owners(m)' \subseteq (1 .. Current) \X Slots /\ Owners(o) \subseteq (1 .. Current) \X Slots
      BY <1>0 DEF Owners, Current
    <3> QED
      BY <1>0, <3>1, <3>2, <3>3
  <2>4. Cardinality(Owners(m)') = Cardinality(Owners(o)) - 1
    <3>1. IsFiniteSet(Owners(o))
      BY <1>0, WhenRunning, OwnersFinite
    <3> QED
      BY <2>3, <3>1, FS_RemoveElement
  <2>5. m.count = Cardinality(Owners(m)')
    BY <1>0, <2>1, <2>4, WhenRunning
  <2> QED
    BY <1>4, <1>5, <2>2, <2>5 DEF CountsOK
<1>7. CASE ~CanUpdateRefCounter(id)
  BY <1>0, <1>4, <1>5, <1>7 DEF CountsOK
<1> QED
  BY <1>6, <1>7

\* The last handle of an object is its only owner.
LEMMA DiscardCounts ==
  ASSUME Careful, HInv, NEW d \in Depth, NEW s \in Slots, Discard(d, s)
  PROVE  HandlesOK' /\ CountsOK'
<1>a. PICK id : id = handle[d][s]
  OBVIOUS
<1>0. /\ Running /\ d \in 1 .. Current /\ id \in Id /\ CanAlter(d, id)
      /\ CanUpdateRefCounter(id) /\ ObjectOf(id).count = 1
      /\ objects' = SetCount(ObjectOf(id), 0)
      /\ objectOffset' = [objectOffset EXCEPT ![id] = Free]
      /\ doing' = Doing("compact", objectOffset[id], d, s)
      /\ UNCHANGED <<handle, frames>>
  <2>1. d \in Nat \ {0} /\ Current \in Nat /\ id \in Id \cup {NoId}
    BY <1>a, WhenRunning, FrameTypes, Constants DEF Discard
  <2> QED
    BY <1>a, <2>1 DEF Discard, stackVars
<1>1. PICK o \in objects :
        /\ o = ObjectOf(id) /\ o.id = id /\ o.pos = objectOffset[id] /\ o.count = 1
        /\ \A x \in objects : x.id = id => x = o
        /\ \A e \in 1 .. Current : ~ IsInner(e, o.pos)
  BY <1>0, MayAlter
<1>2. doing'.op = "compact" /\ doing'.pos = o.pos /\ doing'.scope = d /\ doing'.slot = s
  BY <1>0, <1>1 DEF Doing
<1>3. \A e \in Depth, t \in Slots : handle[e][t] = id => e = d /\ t = s
  <2>1. IsFiniteSet(Owners(o)) /\ Cardinality(Owners(o)) = 1
    BY <1>0, <1>1, WhenRunning, OwnersFinite
  <2>2. PICK h : Owners(o) = {h}
    BY <2>1, FS_Singleton
  <2>3. <<d, s>> \in Owners(o)
    BY <1>0, <1>a, <1>1 DEF Owners
  <2>4. ASSUME NEW e \in Depth, NEW t \in Slots, handle[e][t] = id
        PROVE  <<e, t>> \in Owners(o)
    <3>1. ~(e > Current)
      BY <1>0, <2>4, WhenRunning, Constants
    <3>2. e \in 1 .. Current
      BY <1>0, <3>1, WhenRunning, FrameTypes, Constants
    <3> QED
      BY <1>1, <2>4, <3>2 DEF Owners
  <2>5. ASSUME NEW e \in Depth, NEW t \in Slots, handle[e][t] = id
        PROVE  <<e, t>> = <<d, s>>
    BY <2>2, <2>3, <2>4, <2>5
  <2> QED
    BY <2>5
<1>4. PICK m : m = [o EXCEPT !.count = 0] /\ m.id = o.id /\ m.pos = o.pos
  <2>1. TypeOK /\ 0 \in Int
    BY <1>0, WhenRunning
  <2>2. \E m : m = [o EXCEPT !.count = 0] /\ m.id = o.id /\ m.pos = o.pos /\ m.count = 0
    BY <2>1, Recounted
  <2> QED
    BY <2>2
<1>5. objects' = (objects \ {o}) \cup {m}
  BY <1>0, <1>1, <1>4 DEF SetCount
<1>6. \A x \in objects : x.pos = o.pos => x = o
  BY <1>0, WhenRunning, ObjectsApart
<1>7. HandlesOK'
  <2>1. ASSUME NEW e \in Depth, NEW t \in Slots, handle[e][t] # NoId, ~(e = d /\ t = s)
        PROVE  objectOffset'[handle[e][t]] # Free
    <3>0. TypeOK /\ handle \in [Depth -> [Slots -> Id \cup {NoId}]]
      BY <1>0, WhenRunning
    <3>1. objectOffset \in [Id -> 0 .. Free] /\ handle[e][t] \in Id /\ objectOffset[handle[e][t]] # Free
      <4>1. objectOffset[handle[e][t]] # Free
        BY <1>0, <2>1, WhenRunning
      <4>2. handle[e][t] \in Id
        BY <2>1, <3>0
      <4> QED
        BY <3>0, <4>1, <4>2 DEF TypeOK
    <3>2. handle[e][t] # id
      BY <1>3, <2>1
    <3> QED
      BY <1>0, <3>1, <3>2
  <2>2. \A x \in objects' : x.pos = o.pos => x.id = id
    BY <1>1, <1>4, <1>5, <1>6
  <2>3. ~ frames[Current].landed
    BY <1>0, WhenRunning
  <2> QED
    BY <1>0, <1>a, <1>2, <2>1, <2>2, <2>3 DEF HandlesOK, HInv, Current
<1>8. ASSUME NEW x \in objects', Counted(x)'
      PROVE  x.count = Cardinality(Owners(x)')
  <2>1. x \in objects
    BY <1>2, <1>4, <1>5, <1>8 DEF Counted
  <2>2. Owners(x)' = Owners(x)
    BY <1>0, FramesSameInner DEF Owners, Current
  <2> QED
    BY <1>0, <2>1, <2>2, WhenRunning
<1> QED
  BY <1>7, <1>8 DEF CountsOK

LEMMA CompactCounts ==
  ASSUME HInv, Compact
  PROVE  HandlesOK' /\ CountsOK'
<1>0. /\ TypeOK /\ DoingOK /\ FramesOK /\ EndsOK /\ Geometry /\ HandlesOK /\ CountsOK
      /\ doing.op = "compact" /\ doing' = [doing EXCEPT !.op = "register"]
      /\ UNCHANGED <<objectOffset, handle, frames>>
  BY DEF HInv, IInv, Compact, stackVars
<1>1. PICK dead \in objects :
           /\ dead.pos = doing.pos
           /\ \A x \in objects' : \E y \in objects : y # dead /\ Moved(x, y, dead)
  BY CompactEffect DEF HInv
<1>2. doing'.op = "register" /\ doing'.pos = doing.pos /\ doing'.scope = doing.scope /\ doing'.slot = doing.slot
  BY <1>0 DEF DoingOK
<1>3. HandlesOK'
  <2>1. handle[doing.scope][doing.slot] = dead.id
    BY <1>0, <1>1 DEF HandlesOK
  <2>2. ASSUME NEW x \in objects' PROVE x.id # dead.id
    <3>1. PICK y \in objects : y # dead /\ Moved(x, y, dead)
      BY <1>1
    <3> QED
      BY <1>0, <3>1 DEF Geometry, Moved
  <2>3. /\ \A e \in Depth : e > Current => handle[e] = EmptyHandles[e]
        /\ ~ frames[Current].landed
        /\ \A e \in Depth, t \in Slots : handle[e][t] # NoId =>
             objectOffset[handle[e][t]] # Free \/ (e = doing.scope /\ t = doing.slot)
    BY <1>0 DEF HandlesOK
  <2> QED
    BY <1>0, <1>2, <2>1, <2>2, <2>3 DEF HandlesOK, Current
<1>4. ASSUME NEW x \in objects'
      PROVE  x.count = Cardinality(Owners(x)')
  <2>1. PICK y \in objects : y # dead /\ Moved(x, y, dead)
    BY <1>1
  <2>2. y.count = Cardinality(Owners(y))
    <3>1. y.pos # doing.pos
      BY <1>0, <1>1, <2>1, ObjectsApart
    <3> QED
      BY <1>0, <3>1 DEF CountsOK, Counted
  <2>3. ASSUME NEW e \in 1 .. Current PROVE IsInner(e, x.pos) <=> IsInner(e, y.pos)
    <3>1. CASE x = y
      BY <3>1
    <3>2. CASE y.pos >= dead.pos + dead.size /\ x.pos = y.pos - dead.size
      <4>1. /\ dead.pos \in Nat /\ dead.size \in Nat /\ y.pos \in Nat /\ frames[topmost].end \in Nat
            /\ dead.pos >= frames[topmost].end
        BY <1>0, <1>1, ObjectTypes, FrameTypes DEF DoingOK
      <4>2. x.pos \in Nat /\ x.pos >= frames[topmost].end /\ y.pos >= frames[topmost].end
        BY <3>2, <4>1
      <4> QED
        BY <1>0, <4>1, <4>2, AboveIsNotInner
    <3> QED
      BY <2>1, <3>1, <3>2 DEF Moved
  <2>4. \A e, t : Owns(x, e, t)' <=> Owns(y, e, t)
    BY <1>0, <2>1, <2>3, FramesSameInner DEF Owns, Current, Moved
  <2> QED
    BY <2>1, <2>2, <2>4, SameOwners DEF Moved
<1> QED
  BY <1>3, <1>4 DEF CountsOK

LEMMA RegisterCounts ==
  ASSUME HInv, RegisterDownstream
  PROVE  HandlesOK' /\ CountsOK'
<1>0. /\ TypeOK /\ DoingOK /\ TableOK /\ HandlesOK /\ CountsOK
      /\ doing.op = "register" /\ doing'.op = "idle"
      /\ UNCHANGED <<objects, frames>>
  BY DEF HInv, IInv, RegisterDownstream, stackVars, Idle
<1>a. PICK d, s : d = doing.scope /\ s = doing.slot
  OBVIOUS
<1>1. /\ d \in 1 .. Current /\ d \in Depth /\ s \in Slots
      /\ handle' = [handle EXCEPT ![d][s] = NoId] /\ handle \in [Depth -> [Slots -> Id \cup {NoId}]]
      /\ \A e \in 1 .. Current : e \in Depth
      /\ ~ frames[Current].landed
  <2>1. d \in 1 .. Current /\ s \in Slots
    BY <1>0, <1>a DEF DoingOK
  <2>2. \A e \in 1 .. Current : e \in Depth
    BY <1>0, FrameTypes, Constants DEF Depth
  <2> QED
    BY <1>0, <1>a, <2>1, <2>2 DEF RegisterDownstream, TypeOK, HandlesOK
<1>2. \A e \in Depth, t \in Slots : handle'[e][t] = IF e = d /\ t = s THEN NoId ELSE handle[e][t]
  BY <1>1
<1>3. \A id \in Id : objectOffset[id] # Free => objectOffset'[id] # Free
  BY RegisterKeeps DEF HInv
<1>4. HandlesOK'
  <2>1. ASSUME NEW e \in Depth, NEW t \in Slots, handle'[e][t] # NoId
        PROVE  objectOffset'[handle'[e][t]] # Free
    <3>1. ~(e = d /\ t = s) /\ handle'[e][t] = handle[e][t] /\ handle[e][t] \in Id
      BY <1>1, <1>2, <2>1
    <3>2. objectOffset[handle[e][t]] # Free
      BY <1>0, <1>a, <1>1, <2>1, <3>1 DEF HandlesOK
    <3> QED
      BY <1>3, <3>1, <3>2
  <2>2. ASSUME NEW e \in Depth, e > Current
        PROVE  handle'[e] = EmptyHandles[e]
    <3>1. e # d
      BY <1>0, <1>1, <2>2, FrameTypes
    <3>2. handle[e] = EmptyHandles[e]
      BY <1>0, <2>2 DEF HandlesOK
    <3> QED
      BY <1>1, <3>1, <3>2
  <2> QED
    BY <1>0, <2>1, <2>2 DEF HandlesOK, Current
<1>5. ASSUME NEW x \in objects'
      PROVE  x.count = Cardinality(Owners(x)')
  <2>1. x \in objects /\ x.count = Cardinality(Owners(x))
    BY <1>0 DEF CountsOK, Counted
  <2>2. handle[d][s] # x.id /\ x.id # NoId
    BY <1>0, <1>a, <2>1, Constants DEF HandlesOK, TableOK
  <2>3. \A e, t : Owns(x, e, t)' <=> Owns(x, e, t)
    BY <1>0, <1>1, <1>2, <2>2, FramesSameInner DEF Owns, Current
  <2> QED
    BY <2>1, <2>3, SameOwners
<1> QED
  BY <1>4, <1>5 DEF CountsOK

-----------------------------------------------------------------------------
(* The scopes of the handles *)

LEMMA EnterCounts ==
  ASSUME HInv, IInv', EnterException \/ \E type \in CheckpointType : EnterBreaker(type) \/ EnterIgnored(type)
  PROVE  HandlesOK' /\ CountsOK'
<1>0. /\ Running /\ Current < MaxDepth /\ doing.op = "idle"
      /\ TypeOK' /\ EndsOK'
      /\ UNCHANGED <<objects, objectOffset, handle, doing>>
  BY DEF IInv, EnterException, EnterBreaker, EnterIgnored, Running, poolVars
<1>1. /\ Current' = Current + 1 /\ \A i \in 1 .. Current : frames'[i] = frames[i]
      /\ frames'[Current + 1].landed = FALSE
  <2>1. PICK kind \in {"exception", "breaker"}, type \in CheckpointType \cup {NoType}, active \in BOOLEAN :
          frames' = Append(frames, NewFrame(kind, type, active))
    BY DEF EnterException, EnterBreaker, EnterIgnored
  <2>2. /\ Current' = Current + 1 /\ \A i \in 1 .. Current : frames'[i] = frames[i]
        /\ frames'[Current + 1] = NewFrame(kind, type, active)
    <3>1. frames \in Seq(Frame) /\ Current = Len(frames)
      BY <1>0, WhenRunning DEF TypeOK, Current
    <3> QED
      BY <2>1, <3>1 DEF Current
  <2> QED
    BY <2>2 DEF NewFrame
<1>2. Current \in Nat \ {0} /\ Current + 1 \in Depth
  BY <1>0, <1>1, WhenRunning, FrameTypes DEF TypeOK
<1>3. HandlesOK'
  <2>1. \A e \in Depth : e > Current + 1 => handle[e] = EmptyHandles[e]
    <3>1. \A e \in Depth : e > Current + 1 => e > Current
      BY <1>2, Constants
    <3> QED
      BY <3>1 DEF HInv, HandlesOK
  <2> QED
    BY <1>0, <1>1, <2>1, WhenRunning DEF HandlesOK
<1>4. ASSUME NEW o \in objects'
      PROVE  o.count = Cardinality(Owners(o)')
  <2>1. /\ o \in objects /\ o.id # NoId /\ o.pos \in Nat /\ o.count = Cardinality(Owners(o))
        /\ TypeOK /\ EndsOK
    BY <1>0, WhenRunning, Constants
  <2>2. ASSUME NEW e \in 1 .. Current PROVE IsInner(e, o.pos)' <=> IsInner(e, o.pos)
    <3>1. e \in 1 .. Current' /\ \A i \in 1 .. e : i \in 1 .. Current
      BY <1>1, <1>2
    <3> QED
      BY <1>0, <1>1, <2>1, <3>1, SameInner
  <2>3. ASSUME NEW t \in Slots PROVE handle[Current + 1][t] # o.id
    <3>1. Current + 1 > Current
      BY <1>2
    <3> QED
      BY <1>0, <1>2, <2>1, <3>1, WhenRunning
  <2>4. \A e : e \in 1 .. Current' <=> e \in 1 .. Current \/ e = Current + 1
    BY <1>1, <1>2
  <2>5. ASSUME NEW e, NEW t PROVE Owns(o, e, t)' <=> Owns(o, e, t)
    BY <1>0, <2>2, <2>3, <2>4 DEF Owns
  <2> QED
    BY <2>1, <2>5, SameOwners
<1> QED
  BY <1>3, <1>4 DEF CountsOK

LEMMA ExitCounts ==
  ASSUME HInv, IInv', Exit
  PROVE  HandlesOK' /\ CountsOK'
<1>0. /\ Running /\ Current > 1 /\ doing.op = "idle"
      /\ TypeOK' /\ EndsOK'
      /\ handle[Current] = EmptyHandles[Current]
      /\ frames' = SubSeq(frames, 1, Current - 1)
      /\ UNCHANGED <<objects, objectOffset, handle, doing>>
  BY DEF IInv, Exit, Running, poolVars
<1>2. Current \in Nat \ {0} /\ Current \in Depth
  BY <1>0, WhenRunning, FrameTypes
<1>1. Current' = Current - 1 /\ \A i \in 1 .. Current - 1 : frames'[i] = frames[i]
  <2>1. frames \in Seq(Frame) /\ Current = Len(frames)
    BY <1>0, WhenRunning DEF TypeOK, Current
  <2> QED
    BY <1>0, <1>2, <2>1 DEF Current
<1>3. HandlesOK'
  <2>1. \A e \in Depth : e > Current - 1 => handle[e] = EmptyHandles[e]
    <3>1. \A e \in Depth : e > Current - 1 => e > Current \/ e = Current
      BY <1>2, Constants
    <3> QED
      BY <1>0, <3>1 DEF HInv, HandlesOK
  <2> QED
    BY <1>0, <1>1, <2>1, WhenRunning DEF HandlesOK
<1>4. ASSUME NEW o \in objects'
      PROVE  o.count = Cardinality(Owners(o)')
  <2>1. /\ o \in objects /\ o.id # NoId /\ o.pos \in Nat /\ o.count = Cardinality(Owners(o))
        /\ TypeOK /\ EndsOK
    BY <1>0, WhenRunning, Constants
  <2>2. ASSUME NEW e \in 1 .. Current - 1 PROVE IsInner(e, o.pos)' <=> IsInner(e, o.pos)
    <3>1. e \in 1 .. Current /\ e \in 1 .. Current' /\ \A i \in 1 .. e : i \in 1 .. Current - 1
      BY <1>1, <1>2
    <3> QED
      BY <1>0, <1>1, <2>1, <3>1, SameInner
  <2>3. \A t \in Slots : handle[Current][t] # o.id
    BY <1>0, <1>2, <2>1 DEF EmptyHandles
  <2>4. \A e : e \in 1 .. Current <=> e \in 1 .. Current' \/ e = Current
    BY <1>1, <1>2
  <2>5. ASSUME NEW e, NEW t PROVE Owns(o, e, t)' <=> Owns(o, e, t)
    <3>1. Current \notin 1 .. Current'
      BY <1>1, <1>2
    <3> QED
      BY <1>0, <1>1, <2>2, <2>3, <2>4, <3>1 DEF Owns
  <2> QED
    BY <2>1, <2>5, SameOwners
<1> QED
  BY <1>3, <1>4 DEF CountsOK

LEMMA TidyCounts ==
  ASSUME HInv, IInv', Tidy
  PROVE  HandlesOK' /\ CountsOK'
<1>0. /\ TypeOK /\ TypeOK' /\ EndsOK /\ EndsOK' /\ Geometry /\ TableOK /\ HandlesOK /\ CountsOK
      /\ doing.op = "idle"
      /\ frames' = [frames EXCEPT ![Current].landed = FALSE]
      /\ UNCHANGED <<objects, objectOffset, doing>>
      /\ \A e \in Depth, t \in Slots :
           handle'[e][t] = IF handle[e][t] # NoId /\ objectOffset[handle[e][t]] = Free THEN NoId ELSE handle[e][t]
  BY DEF HInv, IInv, Tidy, poolVars
<1>1. /\ Current' = Current /\ \A e \in 1 .. Current : e \in Depth
      /\ \A i \in 1 .. Current : frames'[i].active = frames[i].active /\ frames'[i].end = frames[i].end
      /\ frames'[Current].landed = FALSE
  <2>1. /\ frames \in Seq(Frame) /\ Current = Len(frames) /\ Current \in Nat \ {0}
        /\ \A i \in 1 .. Current : frames[i] \in Frame
    BY <1>0, FrameTypes DEF TypeOK, Current
  <2>2. \A e \in 1 .. Current : e \in Depth
    BY <1>0, FrameTypes, Constants DEF Depth
  <2>3. Len(frames') = Len(frames) /\ DOMAIN frames = 1 .. Current /\ Current \in 1 .. Current
    BY <1>0, <2>1
  <2>4. \A i \in 1 .. Current : frames'[i] = IF i = Current THEN [frames[Current] EXCEPT !.landed = FALSE] ELSE frames[i]
    BY <1>0, <2>1, <2>3
  <2>5. LET h == [frames[Current] EXCEPT !.landed = FALSE]
        IN  h.active = frames[Current].active /\ h.end = frames[Current].end /\ h.landed = FALSE
    BY <2>1, <2>3 DEF Frame
  <2> QED
    BY <2>1, <2>2, <2>3, <2>4, <2>5 DEF Current
<1>2. HandlesOK'
  <2>1. ASSUME NEW e \in Depth, NEW t \in Slots, handle'[e][t] # NoId
        PROVE  objectOffset'[handle'[e][t]] # Free
    BY <1>0, <2>1
  <2>2. ASSUME NEW e \in Depth, e > Current
        PROVE  handle'[e] = EmptyHandles[e]
    <3>1. handle[e] = EmptyHandles[e]
      BY <1>0, <2>2 DEF HandlesOK
    <3>2. \A t \in Slots : handle'[e][t] = NoId
      BY <1>0, <3>1 DEF EmptyHandles
    <3>3. handle'[e] \in [Slots -> Id \cup {NoId}]
      BY <1>0 DEF TypeOK
    <3> QED
      BY <3>2, <3>3 DEF EmptyHandles
  <2> QED
    BY <1>0, <1>1, <2>1, <2>2 DEF HandlesOK
<1>3. ASSUME NEW o \in objects'
      PROVE  o.count = Cardinality(Owners(o)')
  <2>1. /\ o \in objects /\ o.id \in Id /\ o.id # NoId /\ o.pos \in Nat /\ objectOffset[o.id] # Free
        /\ o.count = Cardinality(Owners(o))
    <3>1. o.id \in Id /\ objectOffset[o.id] = o.pos /\ o.count = Cardinality(Owners(o))
      BY <1>0 DEF TableOK, Settled, CountsOK, Counted
    <3> QED
      BY <1>0, <3>1, PosBelowFree, Constants
  <2>2. ASSUME NEW e \in 1 .. Current PROVE IsInner(e, o.pos)' <=> IsInner(e, o.pos)
    <3>1. e \in 1 .. Current' /\ \A i \in 1 .. e : i \in 1 .. Current
      BY <1>0, <1>1, FrameTypes
    <3> QED
      BY <1>0, <1>1, <2>1, <3>1, SameInner
  <2>3. \A e \in 1 .. Current, t \in Slots : handle'[e][t] = o.id <=> handle[e][t] = o.id
    BY <1>0, <1>1, <2>1
  <2>4. ASSUME NEW e, NEW t PROVE Owns(o, e, t)' <=> Owns(o, e, t)
    BY <1>1, <2>2, <2>3 DEF Owns
  <2> QED
    BY <2>1, <2>4, SameOwners
<1> QED
  BY <1>2, <1>3 DEF CountsOK

-----------------------------------------------------------------------------
(* The handles after a jump *)

\* What a jump leaves counted is what lies below its checkpoint, whatever it
\* interrupted; the handles it drops were inside.
LEMMA LandCounts ==
  ASSUME HInv, IInv', NEW d \in Live, LandAt(d)
  PROVE  HandlesOK' /\ CountsOK'
<1>0. /\ TypeOK /\ TypeOK' /\ DoingOK /\ FramesOK /\ EndsOK /\ EndsOK' /\ Geometry /\ TableOK
      /\ HandlesOK /\ CountsOK
      /\ frames' = [SubSeq(frames, 1, d) EXCEPT ![d].landed = TRUE]
      /\ handle' = [e \in Depth |-> IF e <= d THEN handle[e] ELSE EmptyHandles[e]]
      /\ doing' = Doing("restore", frames[d].end, d, 0)
      /\ objects' = objects
  BY DEF HInv, IInv, LandAt
<1>1. /\ d \in 1 .. Current /\ d \in Nat \ {0} /\ Current \in Nat
      /\ \A e \in 1 .. Current : e \in Depth /\ e \in Nat
      /\ doing'.op = "restore" /\ doing'.pos = frames[d].end
  <2>1. d \in 1 .. Current /\ Current \in Nat
    BY <1>0, FrameTypes
  <2>2. \A e \in 1 .. Current : e \in Depth
    BY <1>0, FrameTypes, Constants DEF Depth
  <2> QED
    BY <1>0, <2>1, <2>2 DEF Doing
<1>2. /\ Current' = d
      /\ \A i \in 1 .. d : frames'[i].active = frames[i].active /\ frames'[i].end = frames[i].end
  <2> DEFINE g == SubSeq(frames, 1, d)
             h == [frames[d] EXCEPT !.landed = TRUE]
  <2>1. Len(g) = d /\ DOMAIN g = 1 .. d /\ \A i \in 1 .. d : g[i] = frames[i]
    BY <1>0, <1>1 DEF TypeOK, Current
  <2>2. h.active = frames[d].active /\ h.end = frames[d].end
    BY <1>0, <1>1, FrameTypes DEF Frame
  <2>3. d \in 1 .. d
    BY <1>1
  <2>4. frames' = [g EXCEPT ![d] = h]
    BY <1>0, <2>1, <2>3, Zenon
  <2> HIDE DEF g, h
  <2>5. Len(frames') = d /\ \A i \in 1 .. d : frames'[i] = IF i = d THEN h ELSE g[i]
    BY <2>1, <2>4
  <2> QED
    BY <2>1, <2>2, <2>5 DEF Current
<1>3. HandlesOK'
  <2>1. ASSUME NEW e \in Depth, e > d
        PROVE  handle'[e] = EmptyHandles[e]
    <3>1. ~(e <= d)
      BY <1>1, <2>1, Constants
    <3> QED
      BY <1>0, <3>1
  <2> QED
    BY <1>1, <1>2, <2>1 DEF HandlesOK
<1>4. ASSUME NEW o \in objects', Counted(o)'
      PROVE  o.count = Cardinality(Owners(o)')
  <2>1. o \in objects /\ o.pos < frames[d].end /\ o.pos \in Nat /\ o.size \in Nat \ {0}
    BY <1>0, <1>1, <1>4, ObjectTypes DEF Counted
  <2>2. frames[d].end \in Nat /\ frames[topmost].end \in Nat /\ frames[d].end <= frames[topmost].end
    BY <1>0, EndsBelow
  <2>3. o.id \in Id /\ o.id # NoId
    BY <1>0, <2>1, Constants DEF HInv, IInv, SawOK
  <2>4. Counted(o)
    <3>1. CASE doing.op \in {"idle", "register"}
      BY <3>1 DEF Counted
    <3>2. CASE doing.op \in {"name", "compact"}
      <4>1. doing.pos >= frames[topmost].end
        BY <1>0, <3>2 DEF DoingOK
      <4>2. o.pos # doing.pos
        BY <2>1, <2>2, <4>1
      <4> QED
        BY <3>2, <4>2 DEF Counted
    <3>3. CASE doing.op = "restore"
      <4>1. doing.pos = frames[topmost].end
        BY <1>0, <3>3 DEF DoingOK
      <4> QED
        BY <2>1, <2>2, <3>3, <4>1 DEF Counted
    <3> QED
      BY <1>0, <3>1, <3>2, <3>3 DEF DoingOK, Ops
  <2>5. o.count = Cardinality(Owners(o))
    BY <1>0, <2>1, <2>4 DEF CountsOK
  <2>6. ASSUME NEW e \in 1 .. Current, e > d PROVE IsInner(e, o.pos)
    <3>1. d <= e
      BY <1>1, <2>6
    <3> QED
      BY <1>0, <2>1, <3>1, InnerIs
  <2>7. ASSUME NEW e \in 1 .. d PROVE IsInner(e, o.pos)' <=> IsInner(e, o.pos)
    <3>1. e \in 1 .. Current /\ e \in 1 .. Current' /\ \A i \in 1 .. e : i \in 1 .. d
      BY <1>1, <1>2
    <3> QED
      BY <1>0, <1>2, <2>1, <3>1, SameInner
  <2>8. ASSUME NEW e, NEW t PROVE Owns(o, e, t)' <=> Owns(o, e, t)
    <3>1. CASE e \in 1 .. d
      <4>1. e \in 1 .. Current /\ e \in Depth /\ e <= d
        BY <1>1, <3>1
      <4>2. handle'[e] = handle[e]
        BY <1>0, <4>1
      <4> QED
        BY <1>2, <2>7, <3>1, <4>1, <4>2 DEF Owns
    <3>2. CASE e \notin 1 .. d
      <4>1. e \in 1 .. Current => e > d
        BY <1>1, <3>2
      <4> QED
        BY <1>2, <2>6, <3>2, <4>1 DEF Owns
    <3> QED
      BY <3>1, <3>2
  <2> QED
    BY <2>5, <2>8, SameOwners
<1> QED
  BY <1>3, <1>4 DEF CountsOK

LEMMA RestoreCounts ==
  ASSUME HInv, Restore
  PROVE  HandlesOK' /\ CountsOK'
<1>0. /\ DoingOK /\ HandlesOK /\ CountsOK /\ doing.op = "restore" /\ doing'.op = "idle"
      /\ frames[Current].landed
      /\ objects' = {o \in objects : o.pos < doing.pos}
      /\ UNCHANGED <<frames, handle>>
  BY DEF HInv, IInv, DoingOK, Restore, Idle, stackVars
<1>1. HandlesOK'
  BY <1>0 DEF HandlesOK, Current
<1>2. ASSUME NEW o \in objects'
      PROVE  o.count = Cardinality(Owners(o)')
  <2>1. o \in objects /\ o.count = Cardinality(Owners(o))
    BY <1>0 DEF CountsOK, Counted
  <2>2. Owners(o)' = Owners(o)
    BY <1>0, FramesSameInner DEF Owners, Current
  <2> QED
    BY <2>1, <2>2
<1> QED
  BY <1>1, <1>2 DEF CountsOK

-----------------------------------------------------------------------------
(* The counts *)

LEMMA InitCounts ==
  Init => HInv
<1> SUFFICES ASSUME Init PROVE HInv
  OBVIOUS
<1>1. objects = {} /\ handle = EmptyHandles /\ doing.op = "idle"
  BY DEF Init, Idle
<1>2. HandlesOK
  <2>1. \A d \in Depth, s \in Slots : handle[d][s] = NoId
    BY <1>1 DEF EmptyHandles
  <2> QED
    BY <1>1, <2>1 DEF HandlesOK
<1>3. CountsOK
  BY <1>1 DEF CountsOK
<1> QED
  BY <1>2, <1>3, InitKeeps DEF HInv

LEMMA StepCounts ==
  ASSUME Careful
  PROVE  HInv /\ [Next]_vars => HInv'
<1> SUFFICES ASSUME HInv, [Next]_vars PROVE HandlesOK' /\ CountsOK'
  BY StepKeeps DEF HInv
<1>0. IInv'
  BY StepKeeps DEF HInv
<1>1. ASSUME NEW d \in Depth, NEW s \in Slots, NEW size \in Sizes, Alloc(size, d, s)
      PROVE  HandlesOK' /\ CountsOK'
  BY <1>1, AllocCounts
<1>2. ASSUME NEW d \in Depth, NEW s \in Slots, NEW id \in Id, Retain(d, s, id)
      PROVE  HandlesOK' /\ CountsOK'
  BY <1>2, RetainCounts
<1>3. ASSUME NEW d \in Depth, NEW s \in Slots, Release(d, s)
      PROVE  HandlesOK' /\ CountsOK'
  BY <1>3, ReleaseCounts
<1>4. ASSUME NEW d \in Depth, NEW s \in Slots, Discard(d, s)
      PROVE  HandlesOK' /\ CountsOK'
  BY <1>4, DiscardCounts
<1>5. CASE Name
  BY <1>5, NameCounts
<1>6. CASE Compact
  BY <1>6, CompactCounts
<1>7. CASE RegisterDownstream
  BY <1>7, RegisterCounts
<1>8. CASE EnterException \/ \E type \in CheckpointType : EnterBreaker(type) \/ EnterIgnored(type)
  BY <1>0, <1>8, EnterCounts
<1>9. CASE Exit
  BY <1>0, <1>9, ExitCounts
<1>10. ASSUME NEW type \in CheckpointType, Interrupt(type)
       PROVE  HandlesOK' /\ CountsOK'
  <2>1. place[type] \in Live /\ LandAt(place[type])
    BY <1>10 DEF Interrupt, Jump, HInv, IInv, FramesOK
  <2> QED
    BY <1>0, <2>1, LandCounts
<1>11. CASE Raise
  <2>1. PICK d \in ExceptionScopes : LandAt(d)
    BY <1>11 DEF Raise
  <2>2. d \in Live
    BY DEF ExceptionScopes, Live
  <2> QED
    BY <1>0, <2>1, <2>2, LandCounts
<1>12. CASE Restore
  BY <1>12, RestoreCounts
<1>13. CASE Tidy
  BY <1>0, <1>13, TidyCounts
<1>14. CASE UNCHANGED vars
  <2>1. UNCHANGED <<objects, objectOffset, frames, handle, doing>>
    BY <1>14 DEF vars, poolVars, stackVars
  <2>2. \A o : Owners(o)' = Owners(o)
    BY <2>1, FramesSameInner DEF Owners, Current
  <2> QED
    BY <2>1, <2>2 DEF HInv, HandlesOK, CountsOK, Counted, Current
<1> QED
  BY <1>1, <1>2, <1>3, <1>4, <1>5, <1>6, <1>7, <1>8, <1>9, <1>10, <1>11, <1>12, <1>13, <1>14 DEF Next

(* When the code keeps to the rule of the comments (Careful), the counts    *)
(* and the handles agree with the pool after every step: the invariant that *)
(* the two theorems below rest on.                                          *)
THEOREM HandleInvariance ==
  Careful => (Spec => []HInv)
<1> SUFFICES ASSUME Careful PROVE Spec => []HInv
  OBVIOUS
<1>1. Init => HInv
  BY InitCounts
<1>2. HInv /\ [Next]_vars => HInv'
  BY StepCounts
<1> QED
  BY <1>1, <1>2, PTL DEF Spec

(* The reference counter of an object is the number of the handles that     *)
(* name it, those inside a younger checkpoint set aside (retain, release,   *)
(* Pool::discardPoolObject, and what a jump leaves).                        *)
THEOREM CountsStayExact ==
  Careful => (Spec => []CountsAreExact)
<1> SUFFICES ASSUME Careful PROVE Spec => []CountsAreExact
  OBVIOUS
<1>1. HInv => CountsAreExact
  BY DEF HInv, CountsOK, Counted, CountsAreExact
<1> QED
  BY <1>1, HandleInvariance, PTL

(* No object is freed while a handle still names it: outside the handling   *)
(* of a jump every handle names an object that is there.                    *)
THEOREM HandlesStayValid ==
  Careful => (Spec => []HandlesNameObjects)
<1> SUFFICES ASSUME Careful PROVE Spec => []HandlesNameObjects
  OBVIOUS
<1>1. HInv => HandlesNameObjects
  BY DEF HInv, HandlesOK, HandlesNameObjects, Running
<1> QED
  BY <1>1, HandleInvariance, PTL

=============================================================================

-------------------------- MODULE PoolCheckpoints --------------------------
(***************************************************************************)
(* The expression pool under its checkpoints (poincare/src/pool).          *)
(*                                                                         *)
(* The pool is a stack of reference-counted objects that is compacted when *)
(* one of them dies; a handle names an object by an identifier, which a    *)
(* table maps to the object's place.  A checkpoint is a frame of the call  *)
(* stack that remembers the end of the pool: an exception (the pool is     *)
(* full, ...) or a key press (circuit breaker) jumps back to such a frame  *)
(* from any point of the code, without running a destructor, and drops the *)
(* objects that were created since.                                        *)
(*                                                                         *)
(* A frame of the model is a scope that holds one checkpoint, its first    *)
(* statement, and the handles that are declared after it.  Scopes nest as  *)
(* the code nests them: the home checkpoint first, then exception          *)
(* checkpoints and circuit breaker checkpoints whose type is not more      *)
(* urgent than those already set.                                          *)
(***************************************************************************)
EXTENDS CircuitBreaker, Integers, Sequences, FiniteSets

CONSTANTS
  MaxNumberOfObjects, \* the number of identifiers
  BufferSize,         \* the size of the pool, in sizes of the smallest object
  Sizes,              \* the sizes of the objects that are built
  Slots,              \* the handles declared in a scope
  MaxDepth,           \* bound: scopes nested at a time
  Careful             \* whether the code keeps to the rule of CanAlter

ASSUME PoolAssumption ==
  /\ MaxNumberOfObjects \in Nat \ {0}
  /\ BufferSize \in 1 .. MaxNumberOfObjects
  /\ Sizes \subseteq Nat \ {0}
  /\ IsFiniteSet(Slots)
  /\ MaxDepth \in Nat \ {0}
  /\ Careful \in BOOLEAN

Id == 0 .. MaxNumberOfObjects - 1
NoId == MaxNumberOfObjects  \* NoObjectIdentifier
Free == BufferSize          \* UINT16_MAX in the offset table
Depth == 1 .. MaxDepth

VARIABLES
  objects,      \* the objects of the pool, each with its place
  cursor,       \* m_cursor
  objectOffset, \* m_objectOffset: the place of each identifier
  lastId,       \* m_lastIdentifier
  frames,       \* the scopes of the call stack that hold a checkpoint
  topmost,      \* s_topmost: the scope of that checkpoint
  handle,       \* the identifiers the handles of each scope hold
  doing         \* the pool operation under way

poolVars == <<objects, cursor, objectOffset, lastId>>
stackVars == <<frames, topmost>>
vars == <<poolVars, stackVars, handle, doing, breaker>>

Object == [id : Id \cup {NoId}, pos : Nat, size : Nat \ {0}, count : Int]

\* saw, landed: the objects that were there, and whether a jump has just landed
Frame == [kind : {"exception", "breaker"}, type : CheckpointType \cup {NoType},
          active : BOOLEAN, parent : 0 .. MaxDepth, end : Nat,
          saw : SUBSET Object, landed : BOOLEAN]

Idle == [op |-> "idle", pos |-> 0, scope |-> 0, slot |-> 0]
\* An operation on the object at pos, for the handle slot of scope
Doing(op, pos, d, s) == [op |-> op, pos |-> pos, scope |-> d, slot |-> s]

Current == Len(frames)
EmptyHandles == [d \in Depth |-> [s \in Slots |-> NoId]]
NothingRegistered == [id \in Id |-> Free]

\* registerObject on each of the objects: what the table becomes
Register(table, objs) ==
  [id \in Id |-> IF \E o \in objs : o.id = id
                 THEN (CHOOSE o \in objs : o.id = id).pos
                 ELSE table[id]]

\* Pool::object, for an identifier that is registered
ObjectOf(id) == CHOOSE o \in objects : o.pos = objectOffset[id]

TopmostEndOfPool == frames[topmost].end

\* Mutant: objects below the checkpoint are counted too
CanUpdateWhatIsRegistered(id) == objectOffset[id] # Free
CanUpdateRefCounter(id) ==
  /\ objectOffset[id] # Free
  /\ objectOffset[id] >= TopmostEndOfPool

SetCount(o, n) == (objects \ {o}) \cup {[o EXCEPT !.count = n]}

(***************************************************************************)
(* The rule that the comments of pool_checkpoint.h and pool_handle.h give: *)
(* inside a checkpoint the handles declared before it are not to be        *)
(* changed from or to an object created before it.  A handle declared      *)
(* inside may name such an object: it neither retains nor releases it.     *)
(***************************************************************************)
ScopesOf(d) == {i \in 1 .. d : frames[i].active}
SegmentOf(pos) == {i \in 1 .. Current : frames[i].active /\ frames[i].end <= pos}
IsInner(d, pos) == Cardinality(ScopesOf(d)) > Cardinality(SegmentOf(pos))

CanAlter(d, id) ==
  Careful => /\ objectOffset[id] # Free
             /\ CanUpdateRefCounter(id) \/ IsInner(d, objectOffset[id])

Running == doing.op = "idle" /\ ~ frames[Current].landed

----------------------------------------------------------------------------
\* Handles.

HasRoom(size) == cursor + size <= BufferSize

\* Builder: alloc, in a pool that has room ...
Alloc(size, d, s) ==
  /\ Running /\ d <= Current /\ handle[d][s] = NoId
  /\ HasRoom(size)
  /\ objects' = objects \cup {[id |-> NoId, pos |-> cursor, size |-> size, count |-> 0]}
  /\ cursor' = cursor + size
  /\ doing' = Doing("name", cursor, d, s)
  /\ UNCHANGED <<objectOffset, lastId, stackVars, handle, breaker>>

\* The first free identifier after the last one given
NextFreeIdentifier ==
  LET Distance(id) == (id + MaxNumberOfObjects - 1 - lastId) % MaxNumberOfObjects
      free == {id \in Id : objectOffset[id] = Free}
  IN  CHOOSE id \in free : \A other \in free : Distance(id) <= Distance(other)

\* ... then renamePoolObject, and the handle that retains it
Name ==
  /\ doing.op = "name"
  /\ LET id == NextFreeIdentifier
         raw == CHOOSE o \in objects : o.pos = doing.pos
     IN  /\ objects' = (objects \ {raw}) \cup {[raw EXCEPT !.id = id, !.count = 1]}
         /\ objectOffset' = [objectOffset EXCEPT ![id] = raw.pos]
         /\ lastId' = id
         /\ handle' = [handle EXCEPT ![doing.scope][doing.slot] = id]
  /\ doing' = Idle
  /\ UNCHANGED <<cursor, stackVars, breaker>>

\* Mutant: a handle that does not count itself
RetainNothing(d, s, id) ==
  /\ Running /\ d <= Current /\ handle[d][s] = NoId
  /\ \E e \in 1 .. Current, t \in Slots : handle[e][t] = id
  /\ id # NoId /\ CanAlter(d, id)
  /\ handle' = [handle EXCEPT ![d][s] = id]
  /\ UNCHANGED <<poolVars, stackVars, doing, breaker>>

\* The second half of setTo, and the copy constructor: setIdentifierAndRetain
Retain(d, s, id) ==
  /\ Running /\ d <= Current /\ handle[d][s] = NoId
  /\ \E e \in 1 .. Current, t \in Slots : handle[e][t] = id
  /\ id # NoId /\ CanAlter(d, id)
  /\ handle' = [handle EXCEPT ![d][s] = id]
  /\ objects' = IF CanUpdateRefCounter(id)
                THEN LET o == ObjectOf(id) IN SetCount(o, o.count + 1)
                ELSE objects
  /\ UNCHANGED <<cursor, objectOffset, lastId, stackVars, doing, breaker>>

\* The first half of setTo, and the destructor: release of an object that
\* another handle retains, or that this handle may not count
Release(d, s) ==
  LET id == handle[d][s] IN
  /\ Running /\ d <= Current /\ id # NoId /\ CanAlter(d, id)
  /\ CanUpdateRefCounter(id) => ObjectOf(id).count # 1
  /\ objects' = IF CanUpdateRefCounter(id)
                THEN LET o == ObjectOf(id) IN SetCount(o, o.count - 1)
                ELSE objects
  /\ handle' = [handle EXCEPT ![d][s] = NoId]
  /\ UNCHANGED <<cursor, objectOffset, lastId, stackVars, doing, breaker>>

\* Release of the last handle: discardPoolObject, which unregisters the object ...
Discard(d, s) ==
  LET id == handle[d][s] IN
  /\ Running /\ d <= Current /\ id # NoId /\ CanAlter(d, id)
  /\ CanUpdateRefCounter(id) /\ ObjectOf(id).count = 1
  /\ objects' = SetCount(ObjectOf(id), 0)
  /\ objectOffset' = [objectOffset EXCEPT ![id] = Free]
  /\ doing' = Doing("compact", objectOffset[id], d, s)
  /\ UNCHANGED <<cursor, lastId, stackVars, handle, breaker>>

\* ... then moves the objects downstream over it ...
Compact ==
  /\ doing.op = "compact"
  /\ LET dead == CHOOSE o \in objects : o.pos = doing.pos
     IN  /\ objects' = {o \in objects : o.pos < dead.pos}
              \cup {[o EXCEPT !.pos = @ - dead.size] : o \in {x \in objects : x.pos > dead.pos}}
         /\ cursor' = cursor - dead.size
  /\ doing' = [doing EXCEPT !.op = "register"]
  /\ UNCHANGED <<objectOffset, lastId, stackVars, handle, breaker>>

\* ... and registers them at their new places
RegisterDownstream ==
  /\ doing.op = "register"
  /\ objectOffset' = Register(objectOffset, {o \in objects : o.pos >= doing.pos})
  /\ handle' = [handle EXCEPT ![doing.scope][doing.slot] = NoId]
  /\ doing' = Idle
  /\ UNCHANGED <<objects, cursor, lastId, stackVars, breaker>>

----------------------------------------------------------------------------
\* Scopes.

NewFrame(kind, type, active) ==
  [kind |-> kind, type |-> type, active |-> active, parent |-> topmost,
   end |-> cursor, saw |-> objects, landed |-> FALSE]

EnterException ==
  /\ Running /\ Current < MaxDepth
  /\ frames' = Append(frames, NewFrame("exception", NoType, TRUE))
  /\ topmost' = Current + 1
  /\ UNCHANGED <<poolVars, handle, doing, breaker>>

\* How the code nests the types: home once and for all, then by urgency
NotMoreUrgent(type) == type # Home /\ \A t \in CheckpointType : HasCheckpoint(t) => t <= type

EnterBreaker(type) ==
  /\ Running /\ Current < MaxDepth
  /\ NotMoreUrgent(type)
  /\ ~ HasCheckpoint(type)
  /\ frames' = Append(frames, NewFrame("breaker", type, TRUE))
  /\ topmost' = Current + 1
  /\ place' = [place EXCEPT ![type] = Current + 1]
  /\ UNCHANGED <<poolVars, handle, doing, locks, remembered>>

\* The type has its place already: the new checkpoint is not made the topmost
EnterIgnored(type) ==
  /\ Running /\ Current < MaxDepth
  /\ NotMoreUrgent(type)
  /\ HasCheckpoint(type)
  /\ frames' = Append(frames, NewFrame("breaker", type, FALSE))
  /\ UNCHANGED <<poolVars, topmost, handle, doing, breaker>>

\* The end of a scope whose handles are destroyed: the checkpoint's destructor
Exit ==
  LET f == frames[Current] IN
  /\ Running /\ Current > 1
  /\ handle[Current] = EmptyHandles[Current]
  /\ frames' = SubSeq(frames, 1, Current - 1)
  /\ topmost' = IF topmost = Current THEN f.parent ELSE topmost
  /\ place' = IF f.kind = "breaker" THEN Unset(place, f.type) ELSE place
  /\ UNCHANGED <<poolVars, handle, doing, locks, remembered>>

----------------------------------------------------------------------------
\* Jumps.

\* Mutants: the table is not emptied; the topmost checkpoint is the one restored
LandAtRegistered(d) ==
  /\ frames' = [SubSeq(frames, 1, d) EXCEPT ![d].landed = TRUE]
  /\ topmost' = d
  /\ handle' = [e \in Depth |-> IF e <= d THEN handle[e] ELSE EmptyHandles[e]]
  /\ doing' = Doing("restore", frames[d].end, d, 0)
  /\ UNCHANGED <<objects, cursor, objectOffset, lastId>>
LandAtTopmostEnd(d) ==
  /\ frames' = [SubSeq(frames, 1, d) EXCEPT ![d].landed = TRUE]
  /\ topmost' = d
  /\ handle' = [e \in Depth |-> IF e <= d THEN handle[e] ELSE EmptyHandles[e]]
  /\ objectOffset' = NothingRegistered
  /\ doing' = Doing("restore", frames[topmost].end, d, 0)
  /\ UNCHANGED <<objects, cursor, lastId>>

\* rollback at the scope d: freeDownstreamObject first empties the table
LandAt(d) ==
  /\ frames' = [SubSeq(frames, 1, d) EXCEPT ![d].landed = TRUE]
  /\ topmost' = d
  /\ handle' = [e \in Depth |-> IF e <= d THEN handle[e] ELSE EmptyHandles[e]]
  /\ objectOffset' = NothingRegistered
  /\ doing' = Doing("restore", frames[d].end, d, 0)
  /\ UNCHANGED <<objects, cursor, lastId>>

\* A key press: loadCheckpoint, at any point of the code
Interrupt(type) ==
  /\ Jump(type)
  /\ LandAt(place[type])

\* ExceptionCheckpoint::Raise: the parents discard themselves up to the first
\* that handles the exception
ExceptionScopes == {i \in 1 .. Current : frames[i].active /\ frames[i].kind = "exception"}

Raise ==
  \E d \in ExceptionScopes :
    /\ Running
    /\ \A i \in ExceptionScopes : i <= d
    /\ LandAt(d)
    /\ place' = [t \in CheckpointType |->
         IF \E i \in d + 1 .. Current :
              frames[i].active /\ frames[i].kind = "breaker" /\ frames[i].type <= t
         THEN Nowhere ELSE place[t]]
    /\ UNCHANGED <<locks, remembered>>

\* The rest of freeDownstreamObject
Restore ==
  /\ doing.op = "restore"
  /\ cursor' = doing.pos
  /\ objects' = {o \in objects : o.pos < doing.pos}
  /\ objectOffset' = Register(objectOffset, objects')
  /\ doing' = Idle
  /\ UNCHANGED <<lastId, stackVars, handle, breaker>>

\* Mutant: no handle is reset
TidyNothing ==
  /\ doing.op = "idle" /\ frames[Current].landed
  /\ frames' = [frames EXCEPT ![Current].landed = FALSE]
  /\ UNCHANGED <<poolVars, topmost, handle, doing, breaker>>

\* What the code does first after a jump: it resets the handles that outlived
\* their objects (tidyDownstreamPoolFrom, or the end of the application)
Tidy ==
  /\ doing.op = "idle" /\ frames[Current].landed
  /\ handle' = [d \in Depth |-> [s \in Slots |->
       IF handle[d][s] # NoId /\ objectOffset[handle[d][s]] = Free
       THEN NoId ELSE handle[d][s]]]
  /\ frames' = [frames EXCEPT ![Current].landed = FALSE]
  /\ UNCHANGED <<poolVars, topmost, doing, breaker>>

----------------------------------------------------------------------------
\* AppsContainer::run: the home checkpoint, in an empty pool
Init ==
  /\ objects = {} /\ cursor = 0 /\ objectOffset = NothingRegistered
  /\ lastId = MaxNumberOfObjects - 1
  /\ frames = <<[kind |-> "breaker", type |-> Home, active |-> TRUE, parent |-> 0,
                 end |-> 0, saw |-> {}, landed |-> FALSE]>>
  /\ topmost = 1
  /\ handle = EmptyHandles
  /\ doing = Idle
  /\ place = [t \in CheckpointType |-> IF t = Home THEN 1 ELSE Nowhere]
  /\ locks = 0 /\ remembered = NoType

Next ==
  \/ \E d \in Depth, s \in Slots :
       \/ \E size \in Sizes : Alloc(size, d, s)
       \/ \E id \in Id : Retain(d, s, id)
       \/ Release(d, s)
       \/ Discard(d, s)
  \/ Name \/ Compact \/ RegisterDownstream
  \/ EnterException
  \/ \E type \in CheckpointType : EnterBreaker(type) \/ EnterIgnored(type) \/ Interrupt(type)
  \/ Exit \/ Raise \/ Restore \/ Tidy

Spec == Init /\ [][Next]_vars

----------------------------------------------------------------------------
\* Types.
TypeOK ==
  /\ objects \subseteq Object
  /\ cursor \in 0 .. BufferSize
  /\ objectOffset \in [Id -> 0 .. Free]
  /\ lastId \in Id
  /\ frames \in Seq(Frame)
  /\ Current \in Depth /\ topmost \in 1 .. Current
  /\ handle \in [Depth -> [Slots -> Id \cup {NoId}]]
  /\ BreakerTypeOK

(* The pool can be walked from object to object up to the cursor, and the   *)
(* table gives every identifier the place of its object, and no other: what *)
(* pool.cpp keeps by registering again all that it moves or drops.  An      *)
(* object that is being built finds a free identifier (the unreachable end  *)
(* of nextFreeIdentifier).                                                  *)
PoolWellFormed ==
  /\ TypeOK
  /\ doing.op = "name" => \E id \in Id : objectOffset[id] = Free
  /\ doing.op = "idle" =>
       /\ cursor = 0 \/ \E o \in objects : o.pos = 0
       /\ \A o \in objects :
            /\ o.pos + o.size <= cursor
            /\ o.pos + o.size = cursor \/ \E p \in objects : p.pos = o.pos + o.size
       /\ \A o \in objects, p \in objects :
            o # p => o.id # p.id /\ (o.pos + o.size <= p.pos \/ p.pos + p.size <= o.pos)
       /\ \A id \in Id : objectOffset[id] = Free \/ \E o \in objects : o.id = id /\ o.pos = objectOffset[id]
       /\ \A o \in objects : o.id \in Id /\ objectOffset[o.id] = o.pos

(* Neither an exception nor a key press jumps to a scope that was left:     *)
(* s_topmost is the innermost checkpoint that was made active, the parents  *)
(* are the others (the assertion of Raise), and the place of a type is an   *)
(* active checkpoint of that type.                                          *)
JumpTargetsAlive ==
  /\ topmost \in 1 .. Current /\ frames[topmost].active
  /\ \A i \in 1 .. Current :
       frames[i].active => /\ i <= topmost
                           /\ i > 1 => frames[i].parent < i /\ frames[frames[i].parent].active
                           /\ \A j \in frames[i].parent + 1 .. i - 1 : ~ frames[j].active
  /\ \A t \in CheckpointType :
       HasCheckpoint(t) =>
         /\ place[t] <= Current /\ frames[place[t]].active
         /\ frames[place[t]].kind = "breaker" /\ frames[place[t]].type = t

(* What lies below a checkpoint is, as long as it is there, what it saw:    *)
(* same objects at the same places with the same counts, even while the     *)
(* pool is being compacted.                                                 *)
CheckpointedPartUntouched ==
  \A i \in 1 .. Current :
    frames[i].active => {o \in objects : o.pos < frames[i].end} = frames[i].saw

(* The reference counter of an object is the number of handles that name    *)
(* it, the handles of the scopes inside a younger checkpoint set aside.     *)
Owners(o) == {h \in (1 .. Current) \X Slots :
                handle[h[1]][h[2]] = o.id /\ ~ IsInner(h[1], o.pos)}
CountsAreExact ==
  doing.op = "idle" => \A o \in objects : o.count = Cardinality(Owners(o))

(* Outside the handling of a jump, every handle names an object: none was   *)
(* freed while a handle still named it.                                     *)
HandlesNameObjects ==
  Running => \A d \in Depth, s \in Slots :
               handle[d][s] # NoId => objectOffset[handle[d][s]] # Free

(* A jump, from any point of any operation, restores the pool its           *)
(* checkpoint saw.                                                          *)
JumpRestores ==
  [][doing.op = "restore" /\ doing'.op = "idle" =>
       /\ objects' = frames'[Len(frames')].saw
       /\ cursor' = frames'[Len(frames')].end
       /\ \A id \in Id : objectOffset'[id] # Free <=> \E o \in objects' : o.id = id]_vars
=============================================================================

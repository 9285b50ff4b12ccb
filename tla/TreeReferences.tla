--------------------------- MODULE TreeReferences ---------------------------
(***************************************************************************)
(* The stack on which the algebra edits its trees, and the references that *)
(* follow their nodes (poincare/src/memory: block_stack, tree_ref,         *)
(* tree_stack_checkpoint, the motions of tree.cpp).                        *)
(*                                                                         *)
(* A reference holds an identifier, a table gives the identifier an offset *)
(* in the stack, and every edition of the stack corrects the offsets.  A   *)
(* Try remembers how much of the stack and of the table there was, and an  *)
(* exception or a key press cuts both without running a destructor.        *)
(*                                                                         *)
(* A tree or a node is a run of blocks.  What the blocks hold is left out: *)
(* during a step, each is identified by where it was before the step.      *)
(***************************************************************************)
EXTENDS Integers, Sequences, FiniteSets

CONSTANTS
  MaxBlocks,     \* maxNumberOfBlocks
  MaxReferences, \* maxNumberOfReferences
  Slots,         \* the references a scope declares
  MaxDepth       \* bound: Try blocks nested at a time

ASSUME StackAssumption ==
  /\ MaxBlocks \in Nat \ {0} /\ MaxReferences \in Nat \ {0} /\ MaxDepth \in Nat

VARIABLES
  size,    \* m_size
  table,   \* m_nodeOffsetForIdentifier, as long as m_length
  ref,     \* m_identifier of the references of each scope
  frames,  \* the Try blocks under way
  topmost, \* s_topmostTreeStackCheckpoint: the depth of that Try
  names    \* only to state the properties: the block each reference names

vars == <<size, table, ref, frames, topmost, names>>

NoId == 0            \* NoNodeIdentifier; identifiers are numbered from 1
Deleted == MaxBlocks + 1      \* DeletedOffset
Invalidated == MaxBlocks + 2  \* InvalidatedOffset
NoCheckpoint == 0
Stale == MaxDepth + 1  \* a topmost checkpoint whose Try was jumped out of

Depth == Len(frames)
Ref == (0 .. MaxDepth) \X Slots
Offset == 0 .. MaxBlocks \* the size included: the last block may be referenced

----------------------------------------------------------------------------
\* Editions of the stack: of the blocks, of the table, and of what is named

Stack == [content |-> [i \in 1 .. size |-> i - 1], table |-> table, names |-> names]
BlockAt(s, p) == IF p < Len(s.content) THEN s.content[p + 1] ELSE size
NewBlocks(n) == [i \in 1 .. n |-> Invalidated + i]

\* updateNodes
UpdateNodes(s, moved) ==
  [i \in DOMAIN s.table |->
     IF s.table[i] \in {Invalidated, Deleted} THEN s.table[i] ELSE moved[s.table[i]]]

\* Who named the block x names the block y
Transferred(s, x, y) == [r \in Ref |-> IF s.names[r] = x THEN y ELSE s.names[r]]

InsertBlocks(s, d, new, at) ==
  LET moved == [o \in Offset |-> IF d < o \/ (d = o /\ ~at) THEN o + Len(new) ELSE o]
  IN  IF new = <<>> THEN s
      ELSE [content |-> SubSeq(s.content, 1, d) \o new \o SubSeq(s.content, d + 1, Len(s.content)),
            table |-> UpdateNodes(s, moved),
            names |-> IF at THEN Transferred(s, BlockAt(s, d), new[1]) ELSE s.names]

\* Mutant: whoever named a block that is removed names what follows
RemoveBlocksKeeping(s, a, n) ==
  LET moved == [o \in Offset |-> IF o >= a + n THEN o - n ELSE IF o > a THEN a ELSE o]
  IN  [content |-> SubSeq(s.content, 1, a) \o SubSeq(s.content, a + n + 1, Len(s.content)),
       table |-> UpdateNodes(s, moved),
       names |-> Transferred(s, BlockAt(s, a), BlockAt(s, a + n))]
\* removeBlocks, always called with "at"
RemoveBlocks(s, a, n) ==
  LET moved == [o \in Offset |-> IF o >= a + n THEN o - n ELSE IF o > a THEN Invalidated ELSE o]
  IN  [content |-> SubSeq(s.content, 1, a) \o SubSeq(s.content, a + n + 1, Len(s.content)),
       table |-> UpdateNodes(s, moved),
       names |-> Transferred(s, BlockAt(s, a), BlockAt(s, a + n))]

\* replaceBlocks, always called with "at"
ReplaceBlocks(s, d, new) ==
  LET moved == [o \in Offset |-> IF d < o /\ o < d + Len(new) THEN Invalidated ELSE o]
  IN  [content |-> [i \in DOMAIN s.content |->
                      IF d < i /\ i <= d + Len(new) THEN new[i - d] ELSE s.content[i]],
       table |-> UpdateNodes(s, moved),
       names |-> Transferred(s, BlockAt(s, d), new[1])]

\* Mutant: what is moved to the right is not lowered by its own size
MoveBlocksTooFar(s, d, f, n, at) ==
  LET moved == [o \in Offset |-> IF f <= o /\ o < f + n THEN o + d - f
                  ELSE IF f + n <= o /\ (o < d \/ (o = d /\ at)) THEN o - n
                  ELSE IF o < f /\ (d < o \/ (o = d /\ ~at)) THEN o + n ELSE o]
      others == SubSeq(s.content, 1, f) \o SubSeq(s.content, f + n + 1, Len(s.content))
      place == IF d > f THEN d - n ELSE d
  IN  IF d = f THEN s
      ELSE [content |-> SubSeq(others, 1, place) \o SubSeq(s.content, f + 1, f + n)
                        \o SubSeq(others, place + 1, Len(others)),
            table |-> UpdateNodes(s, moved),
            names |-> IF at THEN Transferred(s, BlockAt(s, d), BlockAt(s, f)) ELSE s.names]

\* moveBlocks: OMG::Memory::Rotate
MoveBlocks(s, d, f, n, at) ==
  LET moved == [o \in Offset |-> IF f <= o /\ o < f + n THEN o + d - f - (IF d > f THEN n ELSE 0)
                  ELSE IF f + n <= o /\ (o < d \/ (o = d /\ at)) THEN o - n
                  ELSE IF o < f /\ (d < o \/ (o = d /\ ~at)) THEN o + n ELSE o]
      others == SubSeq(s.content, 1, f) \o SubSeq(s.content, f + n + 1, Len(s.content))
      place == IF d > f THEN d - n ELSE d
  IN  IF d = f THEN s
      ELSE [content |-> SubSeq(others, 1, place) \o SubSeq(s.content, f + 1, f + n)
                        \o SubSeq(others, place + 1, Len(others)),
            table |-> UpdateNodes(s, moved),
            names |-> IF at THEN Transferred(s, BlockAt(s, d), BlockAt(s, f)) ELSE s.names]

\* The edition is done: a block is identified by its new place again
PlaceOf(content, x) ==
  IF x = size THEN Len(content)
  ELSE IF \E i \in DOMAIN content : content[i] = x
       THEN (CHOOSE i \in DOMAIN content : content[i] = x) - 1 ELSE Invalidated

Becomes(s) ==
  /\ size' = Len(s.content)
  /\ table' = s.table
  /\ names' = [r \in Ref |-> PlaceOf(s.content, s.names[r])]
  /\ UNCHANGED <<ref, frames, topmost>>

----------------------------------------------------------------------------
\* Motions of trees and nodes (tree.cpp), right of what a Try is to keep

Rightmost == IF Depth = 0 THEN 0 ELSE frames[Depth].right
\* A tree or a node of n blocks at a
IsRun(a, n) == Rightmost <= a /\ a + n <= size

\* cloneAt, and the pushes of blocks and clones at the end of the stack
CloneAt(d, n, at) ==
  /\ Rightmost <= d /\ d <= size /\ size + n <= MaxBlocks
  /\ Becomes(InsertBlocks(Stack, d, NewBlocks(n), at))

\* moveAt, and detach: a move to the end of the stack
MoveAt(d, f, n, at) ==
  /\ IsRun(f, n) /\ Rightmost <= d /\ d <= size
  /\ d <= f \/ f + n <= d
  /\ Becomes(MoveBlocks(Stack, d, f, n, at))

\* cloneOver of n blocks at o by a clone of m blocks
CanCloneOver(o, n, m) == IsRun(o, n) /\ size - n + m <= MaxBlocks
ClonedOver(o, n, m) ==
  LET min == IF n < m THEN n ELSE m
      replaced == ReplaceBlocks(Stack, o, NewBlocks(min))
  IN  IF n > m THEN RemoveBlocks(replaced, o + min, n - m)
      ELSE InsertBlocks(replaced, o + min, SubSeq(NewBlocks(m), min + 1, m), FALSE)
CloneOver(o, n, m) == CanCloneOver(o, n, m) /\ Becomes(ClonedOver(o, n, m))

\* moveOver: the m blocks at f over the n blocks at o, apart or containing them
Inside(o, n, f, m) == o < f /\ f + m <= o + n
CanMoveOver(o, n, f, m) ==
  /\ IsRun(o, n) /\ IsRun(f, m)
  /\ f + m <= o \/ o + n <= f \/ Inside(o, n, f, m)
MovedOver(o, n, f, m) ==
  LET final == IF o > f THEN o - m ELSE o
  IN  RemoveBlocks(MoveBlocks(Stack, o, f, m, TRUE), final + m,
                   IF Inside(o, n, f, m) THEN n - m ELSE n)
MoveOver(o, n, f, m) == CanMoveOver(o, n, f, m) /\ Becomes(MovedOver(o, n, f, m))

\* remove
RemoveRun(a, n) ==
  /\ IsRun(a, n)
  /\ Becomes(RemoveBlocks(Stack, a, n))

\* swapWithTree, of the trees at a and at b
Swap(a, n, b, m) ==
  /\ IsRun(a, n) /\ IsRun(b, m) /\ a + n <= b
  /\ Becomes(MoveBlocks(MoveBlocks(Stack, b, a, n, FALSE), a, b, m, FALSE))

\* invalidateIdentifiersAfterBlock
InvalidatedFrom(t, p) ==
  [i \in DOMAIN t |-> IF t[i] # Deleted /\ t[i] >= p THEN Invalidated ELSE t[i]]

\* dropBlocksFrom: flushFromBlock
Drop(p) ==
  /\ Rightmost <= p /\ p <= size
  /\ size' = p
  /\ table' = InvalidatedFrom(table, p)
  /\ names' = [r \in Ref |-> IF names[r] >= p THEN Invalidated ELSE names[r]]
  /\ UNCHANGED <<ref, frames, topmost>>

----------------------------------------------------------------------------
\* References

\* storeNode: at the end of the table, or in a slot whose owner was destroyed
\* Mutant: a lost reference's slot is taken
FreeSlotsOfLost == IF Len(table) < MaxReferences THEN {Len(table) + 1}
                   ELSE {i \in DOMAIN table : table[i] \in {Deleted, Invalidated}}
FreeSlots == IF Len(table) < MaxReferences THEN {Len(table) + 1}
             ELSE {i \in DOMAIN table : table[i] = Deleted}
StoreNodeAt(i, p) == IF i > Len(table) THEN Append(table, p) ELSE [table EXCEPT ![i] = p]

\* TreeRef(Tree*), also of a copy of another reference
Refer(r, p) ==
  /\ ref[r] = NoId /\ FreeSlots # {}
  /\ LET i == CHOOSE i \in FreeSlots : \A j \in FreeSlots : i <= j
     IN  ref' = [ref EXCEPT ![r] = i] /\ table' = StoreNodeAt(i, p)
  /\ names' = [names EXCEPT ![r] = p]
  /\ UNCHANGED <<size, frames, topmost>>

\* operator=(Tree*): updateIdentifier
Assign(r, p) ==
  /\ ref[r] # NoId
  /\ table' = StoreNodeAt(ref[r], p)
  /\ names' = [names EXCEPT ![r] = p]
  /\ UNCHANGED <<size, ref, frames, topmost>>

\* deleteIdentifier: the last slot goes, with the deleted ones before it
DeleteIdentifier(id) ==
  LET kept == {i \in 1 .. id - 1 : table[i] # Deleted}
  IN  IF id = NoId THEN table
      ELSE IF id < Len(table) THEN [table EXCEPT ![id] = Deleted]
      ELSE SubSeq(table, 1, CHOOSE n \in kept \cup {0} : \A i \in kept : i <= n)

\* stopTracking, and the destructor
Forget(r) ==
  /\ ref[r] # NoId
  /\ table' = DeleteIdentifier(ref[r])
  /\ ref' = [ref EXCEPT ![r] = NoId]
  /\ names' = [names EXCEPT ![r] = Invalidated]
  /\ UNCHANGED <<size, frames, topmost>>

\* operator=(TreeRef&&), also of the temporary copy of another reference
Steal(r, q) ==
  /\ r # q /\ ref[q] # NoId
  /\ table' = DeleteIdentifier(ref[r])
  /\ ref' = [ref EXCEPT ![r] = ref[q], ![q] = NoId]
  /\ names' = [names EXCEPT ![r] = names[q], ![q] = Invalidated]
  /\ UNCHANGED <<size, frames, topmost>>

----------------------------------------------------------------------------
\* Checkpoints

\* ExceptionTryAfterBlock
Try(p) ==
  /\ Depth < MaxDepth /\ Rightmost <= p /\ p <= size
  /\ frames' = Append(frames, [right |-> p, length |-> Len(table), parent |-> topmost])
  /\ topmost' = Depth + 1
  /\ UNCHANGED <<size, table, ref, names>>

\* The end of a Try whose references are destroyed
Leave ==
  /\ Depth > 0 /\ \A s \in Slots : ref[<<Depth, s>>] = NoId
  /\ frames' = SubSeq(frames, 1, Depth - 1)
  /\ topmost' = frames[Depth].parent
  /\ UNCHANGED <<size, table, ref, names>>

\* Raise, and the rollback of the topmost checkpoint; nothing is said of what a
\* stale one does
Raise ==
  /\ topmost \in 1 .. Depth
  /\ LET f == frames[topmost]
         Gone(r) == r[1] >= topmost
     IN  /\ size' = f.right
         /\ table' = SubSeq(InvalidatedFrom(table, f.right), 1, f.length)
         /\ ref' = [r \in Ref |-> IF Gone(r) THEN NoId ELSE ref[r]]
         /\ names' = [r \in Ref |-> IF Gone(r) \/ names[r] >= f.right THEN Invalidated ELSE names[r]]
         /\ frames' = SubSeq(frames, 1, topmost - 1)
         /\ topmost' = f.parent

\* PoolCheckpoint::rollback, of a key press or an exception of the pool: no Try
\* and no reference is left
Rollback ==
  /\ size' = 0 /\ table' = <<>> /\ frames' = <<>>
  /\ ref' = [r \in Ref |-> NoId]
  /\ names' = [r \in Ref |-> Invalidated]
  /\ topmost' = IF topmost = NoCheckpoint THEN NoCheckpoint ELSE Stale

----------------------------------------------------------------------------
Init ==
  /\ size = 0 /\ table = <<>> /\ frames = <<>> /\ topmost = NoCheckpoint
  /\ ref = [r \in Ref |-> NoId] /\ names = [r \in Ref |-> Invalidated]

Run == 1 .. MaxBlocks

Motion ==
  \E a \in Offset, n \in Run :
    \/ \E at \in BOOLEAN :
         \/ CloneAt(a, n, at)
         \/ \E d \in Offset : MoveAt(d, a, n, at)
    \/ \E m \in Run :
         \/ CloneOver(a, n, m)
         \/ \E b \in Offset : MoveOver(a, n, b, m) \/ Swap(a, n, b, m)
    \/ RemoveRun(a, n)

Reference ==
  \E s \in Slots :
    LET r == <<Depth, s>> IN
    \/ \E p \in 0 .. size : Refer(r, p) \/ Assign(r, p)
    \/ Forget(r)
    \/ \E t \in Slots : Steal(r, <<Depth, t>>)

Next ==
  \/ Motion \/ Reference
  \/ \E p \in Offset : Drop(p) \/ Try(p)
  \/ Leave \/ Raise \/ Rollback

Spec == Init /\ [][Next]_vars

----------------------------------------------------------------------------
TypeOK ==
  /\ size \in Offset
  /\ table \in Seq(Offset \cup {Deleted, Invalidated}) /\ Len(table) <= MaxReferences
  /\ ref \in [Ref -> 0 .. MaxReferences]
  /\ frames \in Seq([right : Offset, length : 0 .. MaxReferences, parent : 0 .. Stale])
  /\ Depth <= MaxDepth
  /\ topmost \in 0 .. Stale
  /\ names \in [Ref -> Offset \cup {Invalidated}]

(* Through any sequence of motions, whether they shift, swallow or replace  *)
(* what it names, a reference leads to the block it named, to the one that  *)
(* took its place ("at", "over"), or to nothing.                            *)
ReferencesFollow ==
  \A r \in Ref : ref[r] # NoId => table[ref[r]] = names[r]

(* Two references never hold one identifier: none is given again, after a   *)
(* destruction or an exception, while its owner lives ("recycling it would  *)
(* alias two live references onto one identifier").                         *)
IdentifiersNotShared ==
  /\ TypeOK
  /\ \A r \in Ref : ref[r] # NoId =>
    /\ ref[r] <= Len(table) /\ table[ref[r]] # Deleted
    /\ \A q \in Ref : ref[q] = ref[r] => q = r

(* What is moved over is gone: a reference to a descendant of the tree that *)
(* another one is moved over names nothing any more, unless it is in the    *)
(* moved tree ("set when the pointed Tree has been removed or replaced").   *)
MoveOverInvalidates ==
  \A o, f \in 0 .. size, n, m \in 1 .. size : CanMoveOver(o, n, f, m) =>
    LET after == MovedOver(o, n, f, m).table
    IN  \A r \in Ref : ref[r] # NoId /\ o < names[r] /\ names[r] < o + n
                       /\ ~ (f <= names[r] /\ names[r] < f + m)
          => after[ref[r]] = Invalidated
=============================================================================

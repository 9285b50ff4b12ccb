--------------------------- MODULE FunctionCache ---------------------------
(***************************************************************************)
(* The memoized points of the drawn functions (apps/shared/                *)
(* continuous_function_cache).                                             *)
(*                                                                         *)
(* A few caches are lent to the active functions: the function at index i  *)
(* among the active ones gets cache i when it is drawn, by a pointer that  *)
(* stays in the function until it is tidied.  A cache never knows its      *)
(* owner; it holds the values at evenly spaced parameters, in a ring that  *)
(* is panned with the window.  Evaluations between two drawings read and   *)
(* fill it too.                                                            *)
(*                                                                         *)
(* The back key stops the drawing of one function, and the home key the    *)
(* application, between any two stores.  Nothing is undone: a function     *)
(* stopped before it asks for its cache keeps a pointer to the one of its  *)
(* former place, and one stopped while its cache is prepared leaves it     *)
(* half prepared.  The variable "spoiled" records these caches, and no     *)
(* other stop.                                                             *)
(*                                                                         *)
(* Parameters and steps are integers, in units of k_cacheHitTolerance, so  *)
(* that a parameter hits a cell when the division is exact.                *)
(***************************************************************************)
EXTENDS Integers, FiniteSets

CONSTANTS
  MaxFunctions,     \* the functions are 1 .. MaxFunctions, as they are stored
  NumberOfCaches,   \* k_numberOfAvailableCaches
  SizeOfCache,      \* k_sizeOfCache
  Contents,         \* the definitions a function may have, with their kind
  TMins, Steps,     \* the ranges a drawing asks for: where they start, by what
  Parameters        \* where functions are evaluated

ASSUME CacheAssumption ==
  /\ MaxFunctions \in Nat \ {0}
  /\ NumberOfCaches \in Nat \ {0}
  /\ SizeOfCache \in Nat \ {0} /\ SizeOfCache % 2 = 0
  /\ \A c \in Contents : c.kind \in {"cartesian", "vertical", "parametric"}
  /\ TMins \subseteq Int /\ Steps \subseteq Nat \ {0} /\ Parameters \subseteq Int

Function == 1 .. MaxFunctions
Cache == 0 .. NumberOfCaches - 1
Cell == 0 .. SizeOfCache - 1
NoCache == NumberOfCaches \* nullptr
SignalingNan == <<>>
NoFunction == 0

VARIABLES
  content,     \* the definition of each function
  domain,      \* the range of its parameter when it is not Cartesian
  active,      \* the functions that are drawn
  selected,    \* m_selectedRecord, drawn last
  cacheOf,     \* m_cache of each function
  caches,      \* the range and the cells of each cache
  toDraw,      \* the functions the drawing under way has not drawn yet
  drawn,       \* the function it draws, once its cache is prepared
  interrupted, \* m_functionsInterrupted, by index among the active ones
  spoiled      \* the caches that a stopped drawing left to a function, of another
               \* place or half prepared, and that were not cleared for it since
               \* (the code records nothing of the kind)

functionVars == <<content, domain, active, selected>>
cacheVars == <<cacheOf, caches>>
drawVars == <<toDraw, drawn, interrupted>>
graphVars == <<functionVars, cacheVars, drawVars, spoiled>>

IsCartesian(f) == content[f].kind \in {"cartesian", "vertical"}
IsAlongY(f) == content[f].kind = "vertical"

\* What an evaluation without the cache gives
ValueOf(f, t, part) == <<content[f].name, part, t>>

IndexOf(f) == Cardinality({g \in active : g < f})

----------------------------------------------------------------------------
(* One cache. *)

Clear(c) == [c EXCEPT !.start = 0, !.tStep = 0,
                      !.cell = [i \in Cell |-> SignalingNan]]

\* Mutant: the ring does not wrap when cells are invalidated
LeftBehindUnwrapped(old, new, dI) == IF dI > 0 THEN old .. new - 1 ELSE new .. old - 1

\* The cells that leave the window when it goes dI cells on
LeftBehind(old, new, dI) ==
  IF dI > 0
  THEN IF new > old THEN old .. new - 1
       ELSE (old .. SizeOfCache - 1) \cup (0 .. new - 1)
  ELSE IF new > old THEN (new .. SizeOfCache - 1) \cup (0 .. old - 1)
       ELSE new .. old - 1

Pan(c, tMin) ==
  LET d == tMin - c.tMin
      dI == d \div c.tStep
      start == (c.start + dI) % SizeOfCache
      moved == [c EXCEPT !.tMin = tMin]
  IN  CASE d = 0 -> c
        [] d # 0 /\ (d % c.tStep # 0 \/ dI >= SizeOfCache \/ dI <= -SizeOfCache) ->
             Clear(moved)
        [] OTHER ->
             [moved EXCEPT
                !.start = start,
                !.cell = [i \in Cell |->
                            IF i \in LeftBehind(c.start, start, dI)
                            THEN SignalingNan ELSE c.cell[i]]]

\* What clear and pan may leave when they are stopped: they store one member, or
\* invalidate one cell, after the other (m_startOfCache is stored once)
ClearedUpTo(c, n) ==
  [c EXCEPT !.start = 0, !.tStep = 0,
            !.cell = [i \in Cell |-> IF i < n THEN SignalingNan ELSE @[i]]]

PartlyCleared(c) ==
  {[c EXCEPT !.start = 0]} \cup {ClearedUpTo(c, n) : n \in 0 .. SizeOfCache}

PannedUpTo(c, tMin, n) ==
  LET dI == (tMin - c.tMin) \div c.tStep
      start == (c.start + dI) % SizeOfCache
      first == IF dI > 0 THEN c.start ELSE start
  IN  [c EXCEPT !.tMin = tMin, !.start = start,
                !.cell = [i \in Cell |-> IF /\ i \in LeftBehind(c.start, start, dI)
                                            /\ (i - first) % SizeOfCache < n
                                         THEN SignalingNan ELSE @[i]]]

PartlyPanned(c, tMin) ==
  LET d == tMin - c.tMin
      dI == d \div c.tStep
      moved == [c EXCEPT !.tMin = tMin]
  IN  IF d = 0 THEN {c}
      ELSE {moved} \cup
           IF d % c.tStep # 0 \/ dI >= SizeOfCache \/ dI <= -SizeOfCache
           THEN PartlyCleared(moved)
           ELSE {PannedUpTo(c, tMin, n) : n \in Cell}

SetRange(c, tMin, tStep) == [c EXCEPT !.tMin = tMin, !.tStep = tStep]

\* What the code asserts of a cache that is about to be read
Ready(f) ==
  cacheOf[f] # NoCache =>
    LET c == caches[cacheOf[f]]
    IN  c.tStep # 0 /\ (IsCartesian(f) \/ c.start = 0)

IndexForParameter(f, c, t) ==
  LET res == (t - c.tMin) \div c.tStep
  IN  IF \/ t < c.tMin
         \/ (t - c.tMin) % c.tStep # 0
         \/ res >= SizeOfCache
         \/ res >= SizeOfCache \div 2 /\ ~ IsCartesian(f)
      THEN -1
      ELSE (res + c.start) % SizeOfCache

\* The cells of a point: its ordinate, or both coordinates
CellsOf(f, i) == IF IsCartesian(f) THEN {i} ELSE {2 * i, 2 * i + 1}
PartIn(f, k) == IF ~ IsCartesian(f) /\ k % 2 = 0 THEN "x" ELSE "y"

\* valuesAtIndex computes the point when one of its cells is empty
Fill(f, c, t) ==
  LET i == IndexForParameter(f, c, t)
  IN  IF i >= 0 /\ \E k \in CellsOf(f, i) : c.cell[k] = SignalingNan
      THEN [c EXCEPT !.cell = [k \in Cell |->
              IF k \in CellsOf(f, i) THEN ValueOf(f, t, PartIn(f, k)) ELSE @[k]]]
      ELSE c

\* The abscissa is stored before the ordinate
PartlyFilled(f, c, t) ==
  [c EXCEPT !.cell = [k \in Cell |-> IF PartIn(f, k) = "x" THEN Fill(f, c, t).cell[k]
                                     ELSE @[k]]]

----------------------------------------------------------------------------
(* Drawing. *)

Drawing == toDraw # {} \/ drawn # NoFunction

\* The functions are drawn in order, the selected one on top of the others
IsNext(f) ==
  /\ f \in toDraw
  /\ \A g \in toDraw \ {f} : f # selected /\ (g = selected \/ f < g)

StartDrawing ==
  /\ ~ Drawing
  /\ toDraw' = {f \in active : IndexOf(f) \notin interrupted}
  /\ UNCHANGED <<functionVars, cacheVars, drawn, interrupted, spoiled>>

CacheAtIndex(i) == IF i < NumberOfCaches THEN i ELSE NoCache

Tolerance == 1 \* the unit of the parameters
TooFine(tStep) == tStep < 3 * Tolerance
OtherStep(c, tStep) == tStep > c.tStep + Tolerance \/ tStep < c.tStep - Tolerance

\* Steps that are cached are told apart by the tolerance
StepsAreApart ==
  \A s, t \in Steps :
    TooFine(s) \/ TooFine(t) \/ s = t \/ s > t + Tolerance \/ t > s + Tolerance

\* A function that gets another cache, or its own with another step, clears it
Clears(f, k, tStep) == cacheOf[f] # k \/ OtherStep(caches[k], tStep)

\* The cells that may stay when function f gets cache k for a range
Prepared(f, k, tMin, tStep) ==
  IF Clears(f, k, tStep) THEN Clear(caches[k])
  ELSE IF IsCartesian(f) THEN Pan(caches[k], tMin)
  ELSE caches[k]

Uncached(f, k, tStep) == k = NoCache \/ IsAlongY(f) \/ TooFine(tStep)

PrepareForCaching(f, k, tMin, tStep) ==
  IF Uncached(f, k, tStep)
  THEN cacheOf' = [cacheOf EXCEPT ![f] = NoCache] /\ UNCHANGED caches
  ELSE /\ cacheOf' = [cacheOf EXCEPT ![f] = k]
       /\ caches' = [caches EXCEPT ![k] = SetRange(Prepared(f, k, tMin, tStep),
                                                   tMin, tStep)]

PartlyPrepared(f, k, tMin, tStep) ==
  IF Clears(f, k, tStep) THEN PartlyCleared(caches[k])
  ELSE IF IsCartesian(f) THEN PartlyPanned(caches[k], tMin)
  ELSE {caches[k]}

\* The stop comes before the function has its pointer, or before the whole range
\* is set
StopPreparing(f, k, tMin, tStep) ==
  /\ ~ Uncached(f, k, tStep)
  /\ \/ /\ cacheOf' = cacheOf
        /\ \E c \in PartlyPrepared(f, k, tMin, tStep) : caches' = [caches EXCEPT ![k] = c]
     \/ /\ cacheOf' = [cacheOf EXCEPT ![f] = k]
        /\ LET c == Prepared(f, k, tMin, tStep)
           IN  \E t \in {c.tMin, tMin} : caches' = [caches EXCEPT ![k] = [c EXCEPT !.tMin = t]]

\* What is drawn of a Cartesian curve comes from the window, of another one
\* from its domain
DrawnRanges(f) == IF IsCartesian(f) THEN TMins \X Steps ELSE {domain[f]}

\* A cache that is cleared is sound again, unless a function that is not about to be
\* drawn keeps a pointer to it
Restored(f, k, tStep) ==
  /\ ~ Uncached(f, k, tStep) /\ Clears(f, k, tStep)
  /\ \A g \in Function \ toDraw : cacheOf[g] # k

\* drawRecord gets its function a cache before it draws a point
DrawRecord(f) ==
  LET k == CacheAtIndex(IndexOf(f))
  IN  /\ IsNext(f) /\ drawn = NoFunction
      /\ \E r \in DrawnRanges(f) :
           /\ PrepareForCaching(f, k, r[1], r[2])
           /\ spoiled' = IF Restored(f, k, r[2]) THEN spoiled \ {k} ELSE spoiled
      /\ drawn' = f
      /\ toDraw' = toDraw \ {f}
      /\ UNCHANGED <<functionVars, interrupted>>

Evaluable == IF Drawing THEN {drawn} \ {NoFunction} ELSE active

\* A point of a curve, the cursor, a range to optimise, a region to colour
EvaluateXYAtParameter(f, t) ==
  /\ f \in Evaluable /\ Ready(f)
  /\ cacheOf[f] # NoCache
  /\ caches' = [caches EXCEPT ![cacheOf[f]] = Fill(f, @, t)]
  /\ UNCHANGED <<functionVars, cacheOf, drawVars, spoiled>>

FinishRecord ==
  /\ drawn # NoFunction
  /\ drawn' = NoFunction
  /\ UNCHANGED <<functionVars, cacheVars, toDraw, interrupted, spoiled>>

\* The back key stops the function that is drawn, and the next one goes on
InterruptRecord ==
  /\ drawn # NoFunction
  /\ drawn' = NoFunction
  /\ interrupted' = interrupted \cup {IndexOf(drawn)}
  /\ UNCHANGED <<functionVars, cacheVars, toDraw, spoiled>>

\* ... between the stores of the two coordinates of a point
InterruptFill(t) ==
  /\ drawn # NoFunction /\ Ready(drawn)
  /\ cacheOf[drawn] # NoCache
  /\ caches' = [caches EXCEPT ![cacheOf[drawn]] = PartlyFilled(drawn, @, t)]
  /\ drawn' = NoFunction
  /\ interrupted' = interrupted \cup {IndexOf(drawn)}
  /\ UNCHANGED <<functionVars, cacheOf, toDraw, spoiled>>

\* ... or before its cache is ready, whatever pointer the function has then
InterruptEarly(f) ==
  /\ IsNext(f) /\ drawn = NoFunction
  /\ \/ UNCHANGED cacheVars
     \/ \E r \in DrawnRanges(f) : StopPreparing(f, CacheAtIndex(IndexOf(f)), r[1], r[2])
  /\ spoiled' = IF cacheOf[f] = CacheAtIndex(IndexOf(f)) /\ UNCHANGED cacheVars THEN spoiled
                ELSE spoiled \cup ({cacheOf'[f]} \ {NoCache})
  /\ interrupted' = interrupted \cup {IndexOf(f)}
  /\ toDraw' = toDraw \ {f}
  /\ UNCHANGED <<functionVars, drawn>>

\* Panning and zooming forget the interruptions
Reload ==
  /\ ~ Drawing
  /\ interrupted # {}
  /\ interrupted' = {}
  /\ UNCHANGED <<functionVars, cacheVars, toDraw, drawn, spoiled>>

----------------------------------------------------------------------------
(* The functions change in the list and in the menus; coming back to the   *)
(* graph forgets the interruptions.                                        *)

SelectRecord(f) ==
  /\ ~ Drawing
  /\ f \in active /\ selected # f
  /\ selected' = f
  /\ UNCHANGED <<content, domain, active, cacheVars, drawVars, spoiled>>

\* Mutant: a function that becomes inactive keeps its cache
KeepInactive(f) == UNCHANGED cacheOf

DidBecomeInactive(f) == cacheOf' = [cacheOf EXCEPT ![f] = NoCache]

SetActive(f, value) ==
  /\ ~ Drawing
  /\ active' = IF value THEN active \cup {f} ELSE active \ {f}
  /\ active' # active
  /\ IF value THEN UNCHANGED cacheOf ELSE DidBecomeInactive(f)
  /\ interrupted' = {}
  /\ UNCHANGED <<content, domain, selected, caches, toDraw, drawn, spoiled>>

TidyAll == [f \in Function |-> NoCache]

\* The function tidies its cache itself, and the storage's delegate forgets
\* every other memoized model
CachesAfterContent(f) == TidyAll

SetContent(f, c) ==
  /\ ~ Drawing
  /\ c # content[f]
  /\ content' = [content EXCEPT ![f] = c]
  /\ cacheOf' = CachesAfterContent(f)
  /\ interrupted' = {} /\ spoiled' = {}
  /\ UNCHANGED <<domain, active, selected, caches, toDraw, drawn>>

TidyCache(f) == cacheOf' = [cacheOf EXCEPT ![f] = NoCache]

\* setTMin, setTMax and setTAuto
SetDomain(f, range) ==
  /\ ~ Drawing
  /\ ~ IsCartesian(f)
  /\ domain[f] # range
  /\ domain' = [domain EXCEPT ![f] = range]
  /\ TidyCache(f)
  /\ interrupted' = {}
  /\ UNCHANGED <<content, active, selected, caches, toDraw, drawn, spoiled>>

\* A memoized model gives its place to another
Forget(f) ==
  /\ ~ Drawing
  /\ cacheOf[f] # NoCache
  /\ TidyCache(f)
  /\ UNCHANGED <<functionVars, caches, drawVars, spoiled>>

\* Leaving the application tidies every model, and its caches die with it; the
\* home key does so in the middle of a drawing too
Reopen ==
  /\ cacheOf' = TidyAll
  /\ caches' = [k \in Cache |-> [Clear(caches[k]) EXCEPT !.tMin = 0]]
  /\ toDraw' = {} /\ drawn' = NoFunction /\ interrupted' = {} /\ spoiled' = {}
  /\ UNCHANGED functionVars

----------------------------------------------------------------------------
GraphInit ==
  /\ content \in [Function -> Contents]
  /\ domain \in [Function -> TMins \X Steps]
  /\ active = Function
  /\ selected = 1
  /\ cacheOf = TidyAll
  /\ caches = [k \in Cache |-> [tMin |-> 0, tStep |-> 0, start |-> 0,
                                cell |-> [i \in Cell |-> SignalingNan]]]
  /\ toDraw = {} /\ drawn = NoFunction /\ interrupted = {} /\ spoiled = {}

GraphNext ==
  \/ StartDrawing \/ FinishRecord \/ InterruptRecord \/ Reload \/ Reopen
  \/ \E f \in toDraw : DrawRecord(f) \/ InterruptEarly(f)
  \/ \E f \in Function, t \in Parameters : EvaluateXYAtParameter(f, t)
  \/ \E t \in Parameters : InterruptFill(t)
  \/ \E f \in Function : SelectRecord(f) \/ Forget(f)
  \/ \E f \in Function, value \in BOOLEAN : SetActive(f, value)
  \/ \E f \in Function, c \in Contents : SetContent(f, c)
  \/ \E f \in Function, range \in TMins \X Steps : SetDomain(f, range)

GraphSpec == GraphInit /\ [][GraphNext]_graphVars

----------------------------------------------------------------------------
(* Correctness. *)

\* The parameters that may hit a cell of cache c
Reached(c) == {c.tMin + i * c.tStep : i \in Cell}

\* A value found in the cache is the function's own value at that parameter:
\* nothing of another function, of an earlier definition, of another window
\* or of another step is ever read (continuous_function.h:169-173), however
\* drawings are stopped, unless the cache is one that a stopped drawing left to
\* its function, of another place or half prepared.  A function that still holds
\* a cache of another place shares it with the function that gets it.
CachedValuesAreTrue ==
  \A f \in Evaluable :
    cacheOf[f] \notin spoiled \cup {NoCache} /\ Ready(f) =>
      LET c == caches[cacheOf[f]]
      IN  \A t \in Reached(c) :
            LET i == IndexForParameter(f, c, t)
            IN  i >= 0 => \A k \in CellsOf(f, i) :
                  c.cell[k] \in {SignalingNan, ValueOf(f, t, PartIn(f, k))}

\* A function is never evaluated with a cache that has no step, nor one that
\* is not Cartesian with a ring that has been panned: the assertions of
\* indexForParameter (continuous_function_cache.cpp:119 and :139).  The same
\* caches are excepted: the code sets the step last, and one stopped before has
\* none.
LookupsAreReady == \A f \in Evaluable : cacheOf[f] \notin spoiled => Ready(f)
=============================================================================

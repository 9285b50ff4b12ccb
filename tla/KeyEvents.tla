----------------------------- MODULE KeyEvents -----------------------------
(***************************************************************************)
(* From the keys that are held to the events of the applications, on the   *)
(* web simulator: the browser's handlers, which run whenever the program   *)
(* sleeps, the scan of the keyboard, the queue of its states (a bounded    *)
(* queue that forgets its oldest element, as in LossyQueue), the decoding  *)
(* of these states into events with the modifiers, and the shortcuts,      *)
(* which look at the keyboard themselves.  A Python script looks at the    *)
(* states of the queue too, for the key that interrupts it.                *)
(*                                                                         *)
(* The program is one thread: at says where it stands.  Times are not      *)
(* modelled: a delay may have elapsed or not.                              *)
(***************************************************************************)
EXTENDS Integers, Sequences, FiniteSets

CONSTANTS
  HostKeys,    \* the keys of the host's keyboard that the scan maps
  PageKeys,    \* the keys of the web page
  Prefixes,    \* the two keys of the shortcuts, held on the host's keyboard
  Shift, Alpha, Backspace,
  Code,        \* the bit of each key in a state, of 64 bits
  ShiftKeys, AlphaKeys, ShiftAlphaKeys, \* the keys with such an event of their own
  Repeatable,  \* isRepeatable
  HostEvents,  \* the events that getPlatformEvent makes of other keys of the host
  KeyForAction, \* the key of each shortcut
  QueueLength, \* k_maximalNumberOfStates
  MaxHeld,     \* the keys that are held at a time (a bound of the instance)
  Watched,     \* the key whose presses are counted (any)
  MaxOwed      \* its presses before the first is answered (a bound)

Keys == HostKeys \cup PageKeys \cup Prefixes
Actions == DOMAIN KeyForAction
FiresOncePerPress == {"ToggleExternalApps", "OpenSettings"}
ThemeActions == {"PreviousTheme", "NextTheme"}

ASSUME KeysAssumption ==
  /\ {Shift, Alpha, Backspace} \subseteq Keys
  /\ Code \in [Keys -> 0 .. 63] /\ \A j, k \in Keys : Code[j] = Code[k] => j = k
  /\ Actions \subseteq FiresOncePerPress \cup ThemeActions
  /\ \A a \in Actions : KeyForAction[a] \in Keys
  /\ Watched \in Keys
  /\ QueueLength \in Nat \ {0} /\ MaxOwed \in Nat

VARIABLES
  host,     \* the mapped keys that SDL knows are down
  sdl,      \* the first of SDL's events that getPlatformEvent will return
  page,     \* sPageHeldState
  prefix,   \* sPrefixState
  queue,    \* the states that were pushed
  scanned,  \* sState
  keyboard, \* Events::State: the last event, its key and its modifiers, the last
            \* state and the keys that were seen up
  mods,     \* ModifierState
  idle,     \* m_idleWasSent
  at,       \* where the program stands
  event,    \* whether it dispatches an event, Idle or none
  active,   \* m_activeShortcuts
  owed,     \* history: the presses of the watched key that no event has answered
  taken,    \* history: the keys whose release the script has just taken
  armed,    \* history: the shortcuts released since they were seen
  shown     \* history: the keys of the host in the last state pushed, by a handler of
            \* the page, that the last scan did not see

hands == <<host, sdl, page, prefix>>
decoder == <<keyboard, mods, idle>>
history == <<owed, taken, armed, shown>>
eventsVars == <<hands, queue, scanned, decoder, at, event, active, history>>

None == <<"none", "special">>

Held == host \cup page \cup prefix

----------------------------------------------------------------------------
(* The queue and the scan. *)

Enqueued(state) ==
  IF Len(queue) < QueueLength THEN Append(queue, state) ELSE Append(Tail(queue), state)

\* The keys of the page and the prefixes count only while both prefixes are held
ScanOf(hostKeys, pageKeys, prefixKeys) ==
  IF prefixKeys = Prefixes THEN hostKeys \cup prefixKeys \cup pageKeys ELSE hostKeys
ScanState == ScanOf(host, page, prefix)

\* keyboardWasScanned
WasScanned(state) ==
  /\ queue' = IF state # scanned THEN Enqueued(state) ELSE queue
  /\ scanned' = state
  /\ shown' = IF state # scanned THEN {} ELSE shown
  /\ UNCHANGED hands

\* The shortcuts that a state holds
ActiveSet(state) ==
  IF Prefixes \subseteq state THEN {a \in Actions : KeyForAction[a] \in state} ELSE {}

----------------------------------------------------------------------------
(* The browser: its handlers run when the program sleeps, in the wait for  *)
(* an event and in every scan, before it reads the keys (what they do in   *)
(* the scan of the wait, they may do in the sleep before it).              *)

Sleeps == at \in {"sleep", "dispatch", "script", "drain"}

Browser(hostKeys, pageKeys, prefixKeys) ==
  /\ Sleeps
  /\ Cardinality(hostKeys \cup pageKeys \cup prefixKeys) <= MaxHeld
  /\ host' = hostKeys /\ page' = pageKeys /\ prefix' = prefixKeys
  /\ armed' = armed \cup (Actions \ ActiveSet(ScanOf(hostKeys, pageKeys, prefixKeys)))
  /\ UNCHANGED <<scanned, decoder, at, event, active, taken>>

\* The presses of the watched key that no event has answered, or any number of them
\* while the prefixes let the scans repeat a key of the page
Any == MaxOwed + 1

Owe(pressed) ==
  IF owed = Any \/ (prefix' = Prefixes /\ Watched \in page' \cup prefix') THEN owed' = Any
  ELSE IF Watched \in pressed THEN owed < MaxOwed /\ owed' = owed + 1
  ELSE UNCHANGED owed

HostDown(k) ==
  /\ k \notin host
  /\ Browser(host \cup {k}, page, prefix)
  /\ Owe({k})
  /\ UNCHANGED <<sdl, queue, shown>>

\* The release of Shift is an event of SDL, too
HostUp(k) ==
  /\ k \in host
  /\ Browser(host \ {k}, page, prefix)
  /\ sdl' = IF k = Shift /\ sdl = None THEN <<Shift, "plain">> ELSE sdl
  /\ Owe({})
  /\ UNCHANGED <<queue, shown>>

HostTypes(e) ==
  /\ Browser(host, page, prefix)
  /\ sdl' = IF sdl = None THEN e ELSE sdl
  /\ Owe({})
  /\ UNCHANGED <<queue, shown>>

\* keyDown and keyUp push a state without a scan: the keys of the host, and the key
PushState(state) ==
  /\ queue' = Enqueued(state)
  /\ shown' = (state \cap host) \ scanned

KeyDown(k) ==
  /\ k \notin page
  /\ Browser(host, page \cup {k}, prefix)
  /\ PushState(host \cup {k})
  /\ Owe({k})
  /\ UNCHANGED sdl

\* Mutant: the release of a key of the page is left to the scan
KeyUpUnpushed(k) ==
  /\ k \in page
  /\ Browser(host, page \ {k}, prefix)
  /\ Owe({})
  /\ UNCHANGED <<queue, sdl, shown>>

KeyUp(k) ==
  /\ k \in page
  /\ Browser(host, page \ {k}, prefix)
  /\ PushState(host \ {k})
  /\ Owe({})
  /\ UNCHANGED sdl

SetPrefixKeyHeld(k) ==
  /\ \/ k \in prefix /\ Browser(host, page, prefix \ {k})
     \/ k \notin prefix /\ Browser(host, page, prefix \cup {k})
  /\ Owe({})
  /\ UNCHANGED <<queue, sdl, shown>>

----------------------------------------------------------------------------
(* Events. *)

\* The event of a key and modifiers, or that of fewer of them if there is none
EventOf(k, shift, alpha, lock) ==
  LET e == IF shift /\ alpha /\ k \in ShiftAlphaKeys THEN <<k, "shiftAlpha">>
           ELSE IF alpha /\ k \in AlphaKeys THEN <<k, "alpha">>
           ELSE IF shift /\ ~ alpha /\ k \in ShiftKeys THEN <<k, "shift">>
           ELSE <<k, "plain">>
  IN  IF e = <<Backspace, "alpha">> /\ lock THEN <<Backspace, "plain">> ELSE e

Locked == mods.alpha = "locked"

\* updateModifiersFromEvent
Updated(e, state) ==
  LET used == [mods EXCEPT !.shiftUsed = @ \/ (e # <<Shift, "plain">> /\ Shift \in state),
                           !.alphaUsed = @ \/ (e # <<Alpha, "plain">> /\ Alpha \in state)]
      cycled == CASE mods.alpha = "inactive" -> "active"
                  [] mods.alpha = "active" -> "locked"
                  [] mods.alpha = "locked" -> "inactive"
  IN  IF e = <<Shift, "plain">> THEN [used EXCEPT !.shift = ~ @]
      ELSE IF e = <<Alpha, "plain">>
      THEN [used EXCEPT !.alpha = cycled, !.shift = @ /\ cycled # "inactive"]
      ELSE IF Locked THEN used
      ELSE [used EXCEPT !.shift = @ /\ Shift \in state,
                        !.alpha = IF Alpha \in state THEN @ ELSE "inactive"]

\* m_lastEvent is kept for this
ToRepeat(e) == IF e \in Repeatable THEN e ELSE None

Return ==
  /\ event' = "some"
  /\ at' = "dispatch"
  /\ idle' = FALSE

\* getPlatformEvent: SDL's other events are flushed
PlatformEvent ==
  /\ at = "poll"
  /\ sdl # None
  /\ Return
  /\ sdl' = None
  /\ keyboard' = [keyboard EXCEPT !.last = ToRepeat(sdl)]
  /\ mods' = IF sdl = <<Shift, "plain">> THEN [mods EXCEPT !.shift = FALSE] ELSE mods
  /\ UNCHANGED <<host, page, prefix, queue, scanned, active, history>>

\* Mutant: the keys that go down are never marked as down
SeenUpKept(up, state) == up \cup (Keys \ state)

\* m_keysSeenUp
SeenUp(up, state) == Keys \ state

PopState(e, down, newMods) ==
  LET state == Head(queue)
      seen == [keyboard EXCEPT !.current = state, !.up = SeenUp(@, state)]
  IN  /\ queue' = Tail(queue)
      /\ keyboard' = IF down = {} THEN seen ELSE
           [seen EXCEPT !.key = CHOOSE k \in down : \A j \in down : Code[j] <= Code[k],
                        !.shift = mods.shift, !.alpha = mods.alpha # "inactive",
                        !.last = ToRepeat(e)]
      /\ mods' = newMods
      /\ taken' = {}
      /\ UNCHANGED <<hands, scanned, active, armed, shown>>

Polled == at = "pop" \/ (at = "poll" /\ sdl = None)
Pops == Polled /\ queue # <<>>
ShiftReleased == mods.shiftUsed /\ Shift \notin Head(queue)
AlphaReleased == mods.alphaUsed /\ Alpha \notin Head(queue)
WentDown == Head(queue) \cap keyboard.up

\* wasShiftReleased, and wasAlphaReleased
ReleaseModifier ==
  /\ Pops
  /\ \/ /\ ShiftReleased
        /\ Return
        /\ PopState(None, {}, [mods EXCEPT !.shiftUsed = FALSE, !.shift = FALSE])
     \/ /\ ~ ShiftReleased /\ AlphaReleased
        /\ Return
        /\ PopState(None, {}, [mods EXCEPT !.alphaUsed = FALSE, !.alpha = "inactive"])
  /\ UNCHANGED owed

\* The key with the highest bit gives the event
PressKey ==
  /\ Pops /\ ~ ShiftReleased /\ ~ AlphaReleased
  /\ WentDown # {}
  /\ LET k == CHOOSE k \in WentDown : \A j \in WentDown : Code[j] <= Code[k]
         e == EventOf(k, mods.shift, mods.alpha # "inactive", Locked)
     IN  /\ Return
         /\ PopState(e, WentDown, Updated(e, Head(queue)))
         /\ owed' = IF k = Watched /\ owed \in 1 .. MaxOwed THEN owed - 1 ELSE owed

NothingNew ==
  /\ Pops /\ ~ ShiftReleased /\ ~ AlphaReleased
  /\ WentDown = {}
  /\ PopState(None, {}, mods)
  /\ at' = "pop"
  /\ UNCHANGED <<event, idle, owed>>

IsRepeatable ==
  /\ keyboard.last # None
  /\ keyboard.key \in keyboard.current
  /\ keyboard.shift = (Shift \in keyboard.current \/ (keyboard.shift /\ Locked))
  /\ keyboard.alpha = (Alpha \in keyboard.current \/ Locked)

\* All is popped; waitForInterruptingEvent scans, then sleeps
WaitScan ==
  /\ Polled
  /\ queue = <<>>
  /\ WasScanned(ScanState)
  /\ at' = "sleep"
  /\ owed' = IF queue' = <<>> /\ Watched \notin ScanState \ keyboard.current THEN 0 ELSE owed
  /\ UNCHANGED <<decoder, event, active, taken, armed>>

PollAgain ==
  /\ at = "sleep"
  /\ at' = "poll"
  /\ UNCHANGED <<hands, queue, scanned, decoder, event, active, history>>

Repeat ==
  /\ at = "sleep"
  /\ queue = <<>>
  /\ IsRepeatable
  /\ Return
  /\ UNCHANGED <<hands, queue, scanned, keyboard, mods, active, history>>

\* The time is over: an event Idle the first time, then no event
Timeout ==
  /\ at = "sleep"
  /\ queue = <<>>
  /\ at' = "dispatch"
  /\ event' = IF idle THEN "none" ELSE "idle"
  /\ idle' = TRUE
  /\ UNCHANGED <<hands, queue, scanned, keyboard, mods, active, history>>

----------------------------------------------------------------------------
(* AppsContainer::dispatchEvent: the shortcuts, then the application. *)

\* Mutant: an action is new whenever another event is dispatched
NewlyActiveAlways(now) == now \cap FiresOncePerPress

NewlyActive(now) == (now \ active) \cap FiresOncePerPress

\* A theme chosen, the settings opened or left, an application left for another one:
\* each resets the modifiers.  A theme is chosen unless one was less than 300 ms ago or
\* there is no other; the settings open unless an exam or the onboarding forbids them
MayReset(now) == now \cap ThemeActions # {} \/ "OpenSettings" \in NewlyActive(now)

HandleShortcuts(now, resets) ==
  /\ active' = now
  /\ armed' = armed \ now
  /\ mods' = IF resets THEN [mods EXCEPT !.shift = FALSE, !.alpha = "inactive"] ELSE mods

\* An event of a timer may come first
DispatchTimer ==
  /\ at = "dispatch"
  /\ WasScanned(ScanState)
  /\ \E resets \in {FALSE, MayReset(ActiveSet(ScanState))} :
       HandleShortcuts(ActiveSet(ScanState), resets)
  /\ UNCHANGED <<keyboard, idle, at, event, owed, taken>>

\* The application ignores the event, is left for another one or runs a script
Dispatch ==
  /\ at = "dispatch"
  /\ event # "none"
  /\ WasScanned(ScanState)
  /\ \E resets \in BOOLEAN : HandleShortcuts(ActiveSet(ScanState), resets)
  /\ at' \in {"poll"} \cup (IF event # "idle" THEN {"script"} ELSE {})
  /\ event' = "none"
  /\ UNCHANGED <<keyboard, idle, owed, taken>>

NothingToDispatch ==
  /\ at = "dispatch"
  /\ event = "none"
  /\ at' = "poll"
  /\ UNCHANGED <<hands, queue, scanned, decoder, event, active, history>>

----------------------------------------------------------------------------
(* micropython_port_interrupt_if_needed: a script takes the states out of  *)
(* the queue to see whether the key that interrupts it is down.            *)

Drain ==
  /\ at \in {"script", "drain"}
  /\ LET state == ScanState
         pushed == IF state # scanned THEN Enqueued(state) ELSE queue
     IN  /\ scanned' = state
         /\ shown' = IF state # scanned THEN {} ELSE shown
         /\ IF pushed = <<>> THEN at' = "script" /\ queue' = <<>> /\ UNCHANGED taken
            ELSE /\ at' = "drain"
                 /\ queue' = Tail(pushed)
                 /\ taken' = keyboard.current \ Head(pushed)
  /\ UNCHANGED <<hands, decoder, event, active, owed, armed>>

EndScript ==
  /\ at = "script"
  /\ at' = "poll"
  /\ UNCHANGED <<hands, queue, scanned, decoder, event, active, history>>

----------------------------------------------------------------------------
EventsInit ==
  /\ host = {} /\ sdl = None /\ page = {} /\ prefix = {}
  /\ queue = <<>> /\ scanned = {}
  /\ keyboard = [last |-> None, key |-> "none", shift |-> FALSE, alpha |-> FALSE,
                 current |-> {}, up |-> Keys]
  /\ mods = [shift |-> FALSE, alpha |-> "inactive", shiftUsed |-> FALSE, alphaUsed |-> FALSE]
  /\ idle = FALSE
  /\ at = "poll" /\ event = "none"
  /\ active = {}
  /\ owed = 0 /\ taken = {} /\ armed = Actions /\ shown = {}

Hands ==
  \/ \E k \in HostKeys : HostDown(k) \/ HostUp(k)
  \/ \E e \in HostEvents : HostTypes(e)
  \/ \E k \in PageKeys : KeyDown(k) \/ KeyUp(k)
  \/ \E k \in Prefixes : SetPrefixKeyHeld(k)

Program ==
  \/ PlatformEvent
  \/ ReleaseModifier \/ PressKey \/ NothingNew
  \/ WaitScan \/ PollAgain \/ Repeat \/ Timeout
  \/ DispatchTimer \/ Dispatch \/ NothingToDispatch
  \/ Drain \/ EndScript

EventsNext == Hands \/ Program

EventsSpec == EventsInit /\ [][EventsNext]_eventsVars

----------------------------------------------------------------------------
(* Correctness. *)

\* An event of a press answers a press of its key by a hand that no other event has
\* answered, whatever the queue has lost and a script has taken from it: m_keysSeenUp
\* (events.cpp:124-125).  While the prefixes are held a scan may repeat the keys of the
\* page (simulator keyboard.cpp:148-152): a press of one of them then proves nothing.
PressesAreReal ==
  [][PressKey /\ keyboard'.key = Watched => owed > 0]_eventsVars

\* When a scan leaves the queue empty, every key that the events are decoded with, and
\* repeated for, is still held, or a script has taken its release (helpers.cpp:80):
\* "At this point ... no new key has been pressed" (events.cpp:182) speaks of the keys
\* as they are.  One release is missed and said to be: a key of the host that went down
\* and up between two scans (no scan saw it) while a handler of the page pushed a state
\* with it is in shown; the next scan equals sState and pushes nothing (keyboard.cpp:31).
ReleasesAreSeen ==
  [][WaitScan /\ queue' = <<>> => keyboard.current \subseteq Held \cup taken \cup shown]_eventsVars

\* "An action that fires once per press (and not at every event while the keys are
\* held)" (shortcuts.h:80) does not fire again before one of its keys was released.
FiresOnce ==
  [][\A a \in Actions : a \in NewlyActive(active') => a \in armed]_eventsVars
=============================================================================

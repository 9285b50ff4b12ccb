---------------------------- MODULE MCKeyEvents ----------------------------
\* Shift on the host's keyboard, Alpha and Backspace on the page, and the prefixes.
EXTENDS KeyEvents

MCCode == [shift |-> 12, alpha |-> 13, backspace |-> 17, lp |-> 33]
MCRepeatable == {<<"backspace", "plain">>}
MCHostEvents == {<<"backspace", "shift">>}
MCKeyForAction == [NextTheme |-> "alpha",
                   OpenSettings |-> "backspace"]

ASSUME ViewIsExact == MCHostEvents \cap MCRepeatable = {}

\* What the steps to come depend on: the key of the last event and its modifiers only
\* when the event may be repeated (none of the platform's may, here), the shortcuts that
\* were held only when they fire once per press.
MCView ==
  <<hands, queue, scanned, mods, idle, at, event, owed, taken, shown,
    IF keyboard.last = None THEN <<keyboard.current, keyboard.up>> ELSE keyboard,
    active \cap FiresOncePerPress, armed \cap FiresOncePerPress>>
=============================================================================

------------------------- MODULE MCPersistingBytes -------------------------
(* Two bits of data and one, 3, that is cleared in every exam mode and set in *)
(* a device name that is not terminated.                                      *)
EXTENDS PersistingBytes

CONSTANTS DeviceName, ExamBytes

MCSlots == [e \in Entry |-> IF e = DeviceName THEN 1 ELSE 3]
MCDefault == [e \in Entry |-> IF e = DeviceName THEN {1, 2} ELSE {}]
MCData == [e \in Entry |-> IF e = DeviceName THEN {} ELSE {{}, {1}, {2}, {1, 2}}]
MCFactory == {[e \in Entry |-> IF e = DeviceName THEN n ELSE Blank] : n \in {Blank, {1}}}

=============================================================================

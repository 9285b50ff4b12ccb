-------------------------- MODULE MCKeyboardQueue --------------------------
(* Three states of the keyboard. *)
EXTENDS KeyboardQueue

CONSTANTS Left, Both

=============================================================================

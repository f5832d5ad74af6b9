------------------------------ MODULE MCKeyboard ------------------------------
(* The line of the keyboard on a small buffer and few keys.                *)
EXTENDS Keyboard

CONSTANTS a, b

=============================================================================

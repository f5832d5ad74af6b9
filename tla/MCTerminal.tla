----------------------------- MODULE MCTerminal -----------------------------
(* The terminal on a small screen, with short lines and two commands.      *)
EXTENDS Terminal

CONSTANTS a, junk

MCNames     == <<<<a>>, <<a, a>>>>
MCMaxWords  == <<2, 1>>
MCTails     == {<<Nul>>, <<a, Nul>>}
(* What no later step reads or shows is not told apart.                    *)
Live ==
    <<display, pc, args,
      IF pc = "print" THEN keyboard_buffer[BufferSize] ELSE keyboard_buffer,
      IF pc = "print" THEN <<>> ELSE mishaps,
      IF pc = "wait" THEN buffer_index ELSE 0,
      IF pc = "wait" /\ "torn" \notin mishaps THEN start ELSE 0,
      IF pc \in {"print", "wait"} THEN <<>> ELSE <<shown, argcount, retcode>>>>

MCLeftovers == {<<>>, <<junk>>}
=============================================================================

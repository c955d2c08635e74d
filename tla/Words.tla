-------------------------------- MODULE Words --------------------------------
(* The 32-bit words of the spindle counter and of the clock of diagnostics. *)
EXTENDS Integers

Word == 4294967296       \* 2^32

\* A number cut to a word and read as signed: the cast to int32_t.
Wrap(v) == ((v + 2147483648) % Word) - 2147483648
=============================================================================

----------------------------- MODULE MCShell ------------------------------
(***************************************************************************)
(* A keyboard of two letters and the special keys, and short commands.     *)
(***************************************************************************)
EXTENDS Shell

r == 114
x == 120
SomeKeys == {r, x, KEY_RETURN, KEY_BACKSPACE, KEY_TAB}
ShortCommand == [help |-> <<r, x>>, exit |-> <<x>>, clear |-> <<x, x>>, read |-> <<r>>]
===========================================================================

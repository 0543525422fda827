---------------------------- MODULE MCDebugServer ----------------------------
(* DebugServer for TLC: two objects, one of them with a byte to escape. *)
EXTENDS DebugServer

SmallObjects == [features |-> <<"a", "b", "c">>, auxv |-> <<"a", "#">>]

\* Stops that the server has an answer of its own for, and one it does not know.
SomeReasons == {"breakpoint", "signal", "exec"}
=============================================================================

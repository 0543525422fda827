--------------------------- MODULE MCNativeTracer ---------------------------
(* NativeTracer for TLC: a file and two libraries of a packed trace, the   *)
(* file name of the second being part of the first (libx.so, libx.so.1), a *)
(* library of the first one's name in another place, and a path that       *)
(* cannot be read.                                                         *)
EXTENDS NativeTracer, TLC

CONSTANTS file, lib, other, elsewhere, bad

PackedKeys == <<file, lib, other>>
PackedMentions == (lib :> {lib}) @@ (other :> {lib, other}) @@ (elsewhere :> {lib})
=============================================================================

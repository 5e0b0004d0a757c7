--------------------------- MODULE MCPrivateLock ---------------------------
(***************************************************************************)
(* Calls of two processes.  Three calls, two of them in one process, are   *)
(* the least that has an owner that died and two waiters racing to remove  *)
(* its lock; two calls are enough for what I/O errors do to a call.        *)
(***************************************************************************)
EXTENDS PrivateLock

CONSTANTS a, b1, b2, pa, pb

MCProcessOf == [c \in Calls |-> IF c = a THEN pa ELSE pb]
MCUndoable == Calls \ {b2}
=============================================================================

-------------------------------- MODULE Clock --------------------------------
(***************************************************************************)
(* The time of day as the handlers read it (time.Now().Unix()), in whole   *)
(* seconds.  The modules that use it say how long their calls may take:    *)
(* the clock does not pass the deadline of a call that is under way.       *)
(***************************************************************************)
EXTENDS Integers

CONSTANT MaxTime    \* bound on the clock

ASSUME TimeAssumption == MaxTime \in Nat

VARIABLE now

Passes == now < MaxTime /\ now' = now + 1
=============================================================================

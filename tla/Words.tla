--------------------------------- MODULE Words ---------------------------------
(* The integers of the machine; Half stands for 2^63.                       *)
EXTENDS Integers

CONSTANT Half  \* int64 is -Half .. Half - 1

Int64  == -Half .. (Half - 1)
UInt64 == 0 .. (2 * Half - 1)

\* Two's complement, for values less than one turn away.
Wrap(x) ==
  IF x >= Half THEN x - 2 * Half ELSE IF x < -Half THEN x + 2 * Half ELSE x
=============================================================================

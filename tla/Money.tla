-------------------------------- MODULE Money --------------------------------
(***************************************************************************)
(* The currencies of the marketplace and the rounding that the decimal     *)
(* columns of the order database apply.  Amounts are integers in units of  *)
(* the wallet's scale (1e-8, wallet.entity.ts:20); Cent is the number of   *)
(* these units in one unit of the order columns' scale (1e-2).             *)
(***************************************************************************)
EXTENDS Integers

CONSTANT Cent

ASSUME CentAssumption == Cent \in Nat \ {0}

Currency == {"NGN", "USD"}

(* The quote currency is the other one: the DTO's validator refuses an     *)
(* order whose two currencies are equal.                                   *)
Other(c) == IF c = "NGN" THEN "USD" ELSE "NGN"

(* What a numeric(p,2) column stores when x is written to it: x rounded to *)
(* a whole number of cents, a half going away from zero.                   *)
Truncated(x) == x - (x % Cent)
HalfUp(x) == IF 2 * (x % Cent) >= Cent THEN Truncated(x) + Cent ELSE Truncated(x)
Cents(x) == IF x >= 0 THEN HalfUp(x) ELSE -HalfUp(-x)
==============================================================================

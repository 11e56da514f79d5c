------------------------------ MODULE Deadlines ------------------------------
(***************************************************************************)
(* Durations, and the deadline of a handler under the write timeout.       *)
(*                                                                         *)
(* A time.Duration is a signed integer of fixed width that wraps around;   *)
(* Half is its modulus halved (2^63 in the code) in the unit of the model. *)
(***************************************************************************)
EXTENDS Integers

CONSTANTS
  Half,   \* a duration is at least -Half and less than Half
  Margin  \* handlerTimeoutMargin

ASSUME WidthAssumption == Half \in Nat \ {0} /\ Margin \in 1..Half - 1

Durations == -Half..Half - 1

(* One sum or product of two durations, or of one and a small constant.    *)
Wrap(n) ==
  IF n >= Half THEN n - 2 * Half ELSE IF n < -Half THEN n + 2 * Half ELSE n

RoomToAnswer(write) == write > Margin

HandlerTimeout(write) == Wrap(write - Margin)
=============================================================================

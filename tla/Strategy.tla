------------------------------ MODULE Strategy ------------------------------
(***************************************************************************)
(* The price band strategy of include/trading/strategy.hpp: a reference    *)
(* price that follows the market by an eighth of the difference, and a     *)
(* signal when a price leaves a band around it.                            *)
(*                                                                         *)
(* Prices are 32-bit ints, whose overflow is undefined behaviour.  Here    *)
(* they are integers, and NoOverflow says which ticks the code does        *)
(* without it.                                                             *)
(***************************************************************************)
EXTENDS Integers

kDefaultBandBps == 10

(* C division of an int by a positive int rounds toward zero. *)
Quotient(a, b) == IF a >= 0 THEN a \div b ELSE -((-a) \div b)

update_ref_price(ref, price) ==
  IF ref = 0 THEN price ELSE ref + Quotient(price - ref, 8)

Band(ref, band_bps) == Quotient(ref * band_bps, 10000)

evaluate(ref, price, band_bps) ==
  LET band == Band(ref, band_bps)
  IN  IF ref <= 0 \/ price <= 0 \/ band <= 0 THEN "none"
      ELSE IF price <= ref - band THEN "buy"
      ELSE IF price >= ref + band THEN "sell"
      ELSE "none"

MaxInt == 2147483647

Int32 == -MaxInt - 1 .. MaxInt

(* Every result on the way through update_ref_price is an int. *)
UpdateFits(ref, price) ==
  ref # 0 => price - ref \in Int32 /\ update_ref_price(ref, price) \in Int32

(* The same of evaluate, which comes to the upper edge of the band last.   *)
EvaluateFits(ref, price, band_bps) ==
  LET band == Band(ref, band_bps)
  IN  ref > 0 /\ price > 0 =>
        /\ ref * band_bps \in Int32
        /\ band > 0 => ref - band \in Int32
        /\ band > 0 /\ price > ref - band => ref + band \in Int32

(* A tick goes through both, with the reference as it has become. *)
NoOverflow(ref, price, band_bps) ==
  /\ UpdateFits(ref, price)
  /\ EvaluateFits(update_ref_price(ref, price), price, band_bps)

(* A price around which the band, and the product it comes from, fit. *)
InRange(price, band_bps) ==
  /\ price \in 0 .. MaxInt
  /\ price * band_bps <= MaxInt
  /\ Band(price, band_bps) <= MaxInt - price
=============================================================================

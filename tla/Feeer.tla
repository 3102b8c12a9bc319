------------------------------- MODULE Feeer -------------------------------
(***************************************************************************)
(* The fee a currency's policy asks for an amount (currency/feeer.go).     *)
(*                                                                         *)
(* The three implementations of the Feeer interface are three kinds of     *)
(* record.  A ratio is a float64 between 0 and 1 in the program; here it   *)
(* is the fraction num/den it stands for, and Big.MulFloat64, which        *)
(* multiplies and drops the fractional part, is an integer division.       *)
(***************************************************************************)
EXTENDS Integers

CONSTANT
    Addresses \* the account addresses

\* The "no upper limit" value of a ratio feeer's max.
UnlimitedMaxFeeAmount == -1

NilFeeers == [type : {"nil"}]

FixedFeeers == [type : {"fixed"}, receiver : Addresses, amount : Nat]

\* What RatioFeeer.IsValid accepts: the ratio within 0..1, min not under
\* zero and, unless there is no maximum, not over max.
RatioFeeers ==
    {f \in [type : {"ratio"}, receiver : Addresses, num : Nat, den : Nat \ {0},
            min : Nat, max : Nat \cup {UnlimitedMaxFeeAmount}] :
        /\ f.num =< f.den
        /\ f.max # UnlimitedMaxFeeAmount => f.min =< f.max}

Feeers == NilFeeers \cup FixedFeeers \cup RatioFeeers

\* Only a NilFeeer has no receiver.
HasReceiver(f) == f.type # "nil"

MulRatio(a, f) == (a * f.num) \div f.den

RatioFee(f, a) ==
    LET m == MulRatio(a, f)
    IN  CASE f.num = 0 -> 0
          [] f.num # 0 /\ a = 0 -> f.min
          [] f.num # 0 /\ a # 0 /\ f.num = f.den -> a
          [] OTHER ->
               IF m < f.min THEN f.min
               ELSE IF f.max # UnlimitedMaxFeeAmount /\ m > f.max THEN f.max
               ELSE m

\* Feeer.Fee of the three kinds.
Fee(f, a) ==
    CASE f.type = "nil" -> 0
      [] f.type = "fixed" -> f.amount
      [] OTHER -> RatioFee(f, a)
=============================================================================

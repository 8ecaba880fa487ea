-------------------------- MODULE ServiceChargeFees --------------------------
(***************************************************************************)
(* The arithmetic of the service fee on a service charge, in kobo:         *)
(*   client/core/service_charge_fees.py   who bears the fee of a cycle     *)
(*   client/core/services/payment_service.py   the share of each payment   *)
(***************************************************************************)
EXTENDS Integers

Larger(a, b) == IF a > b THEN a ELSE b
Smaller(a, b) == IF a < b THEN a ELSE b

Modes == {"resident_pays_all", "estate_absorbs_all", "split_50_50"}

\* The fee of a cycle of so many months, never negative after the discount.
CycleFee(monthly, months, discount) == Larger(0, monthly * months - discount)

\* The share of a fee that is added to the resident's bill; an odd kobo is the
\* resident's.
ResidentFee(fee, mode) ==
    CASE mode = "estate_absorbs_all" -> 0
      [] mode = "split_50_50"        -> (fee + 1) \div 2
      [] OTHER                       -> fee

\* The share the estate bears, which the base amount limits.
AbsorbedFee(base, fee, mode) ==
    IF mode = "resident_pays_all" THEN 0
    ELSE Smaller(base, fee - ResidentFee(fee, mode))

\* What a bill of this base amount asks of the resident, and how it is divided
\* between the operator and the estate once it is paid.
Breakdown(base, fee, mode) ==
    [resident_total |-> base + ResidentFee(fee, mode),
     total_fee      |-> ResidentFee(fee, mode) + AbsorbedFee(base, fee, mode),
     estate_net     |-> Larger(0, base - AbsorbedFee(base, fee, mode))]

-----------------------------------------------------------------------------
\* The fee of an assignment: what was configured, within its total.
FeeTotal(total, configured) == Larger(0, Smaller(total, configured))

\* The part of a component that is covered once `paid' of `total' is.
ComponentPaid(component, paid, total) ==
    IF total <= 0 \/ component <= 0 \/ paid <= 0 THEN 0
    ELSE IF paid >= total THEN component
    ELSE Smaller(component, (paid * component) \div total)

\* The fee in a payment: what it adds to the covered part of the fee.
FeeSharePerPayment(fee, before, payment, total) == ComponentPaid(fee, payment, total)
FeeShare(fee, before, payment, total) ==
    Larger(0, ComponentPaid(fee, Smaller(total, before + payment), total)
                - ComponentPaid(fee, before, total))

\* The rest of the payment is the estate's.
EstateShare(fee, before, payment, total) ==
    Larger(0, payment - FeeShare(fee, before, payment, total))
=============================================================================

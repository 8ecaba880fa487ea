--------------------------- MODULE UtilityAmounts ---------------------------
(***************************************************************************)
(* What a resident is shown of a provider's products and what he pays for  *)
(* one: client/core/utility_payments.py, routes/services.py, and the       *)
(* listings of core/nomba.py.                                              *)
(*                                                                         *)
(* Prices and payments are in kobo.  What a request asks for is in tenths  *)
(* of a kobo: float naira, of which further digits decide nothing but that *)
(* the amount is not a whole one.  An optional number is a set of at most  *)
(* one.  Lists of products are sets: where the code takes the first of     *)
(* several, the operators allow any of them.                               *)
(***************************************************************************)
EXTENDS Integers

CONSTANTS
    CableTypes,     \* providers the service knows by itself
    Telcos,
    Codes,          \* slugs, ids and names of products
    NoCode          \* an absent one

-----------------------------------------------------------------------------
(* The catalogue.                                                          *)

ServiceKind(id, discos) ==
    IF id \in CableTypes THEN "cable"
    ELSE IF id \in Telcos THEN "telco"
    ELSE IF id \in discos THEN "electricity" ELSE "unknown"

\* "x or y" of two strings.
Or(x, y) == IF x # NoCode THEN x ELSE y

\* A plan as Nomba lists it, quoted in kobo, or without a price that can be
\* read; plan is also the subScriptionType.
Plan == [slug : Codes \cup {NoCode}, plan : Codes \cup {NoCode},
         name : Codes \cup {NoCode}, id : Codes \cup {NoCode},
         quoted : {{}} \cup {{n} : n \in Nat}]

\* int(float(naira) * 100) may fall one kobo short.
KoboOf(n) == {n, n - 1} \cap Nat

\* The optional prices that the service may understand.
Prices(quoted) ==
    {price \in {{}} \cup {{k} : k \in UNION {KoboOf(n) : n \in quoted}} :
        price = {} <=> quoted = {}}

Product(i, slug, price) == [slug |-> slug, id |-> i.id, min |-> price, max |-> price]
Unpriced == [slug |-> NoCode, id |-> NoCode, min |-> {}, max |-> {}]

DataProducts(plans) ==
    UNION {{Product(i, Or(i.slug, i.plan), price) : price \in Prices(i.quoted)} : i \in plans}
CableProducts(plans) ==
    UNION {{Product(i, Or(i.slug, Or(i.plan, i.name)), price) : price \in Prices(i.quoted)} :
               i \in plans}

\* The code the app is given for a plan; a plan without any goes by its amount.
ItemCode(i) == Or(i.plan, i.slug)

\* The price the app is given, as it sends it back.
Shown(k) == 10 * k

-----------------------------------------------------------------------------
(* The amount of a payment.                                                *)

HasRange(p) == p.min # {} \/ p.max # {}

Within(n, p) == (\A m \in p.min : n >= m) /\ (\A m \in p.max : n <= m)

\* Naira, rounded half up to a kobo.
FromNaira(a) == (a + 5) \div 10

\* "Older GateNode docs described this request field as kobo."
LegacyKobo(a) == IF a % 1000 = 0 THEN {a \div 1000} ELSE {}

\* The amount to pay, or none when the request is refused.
Amounts(a, p) ==
    IF a <= 0 THEN {}
    ELSE IF ~HasRange(p) \/ Within(FromNaira(a), p) THEN {FromNaira(a)}
    ELSE {n \in LegacyKobo(a) : Within(n, p)}

-----------------------------------------------------------------------------
(* The payment of a product.                                               *)

Matches(p, code) == code \in {p.slug, p.id}

Selected(products, code) == {p \in products : Matches(p, code)}

\* The product whose prices bound the amount, or none when the request is
\* refused.  Electricity and airtime are of any amount.
References(kind, code, products) ==
    IF kind = "electricity" \/ (kind = "telco" /\ code = NoCode) THEN {Unpriced}
    ELSE IF kind \in {"cable", "telco"} /\ code # NoCode THEN Selected(products, code)
    ELSE IF products = {} THEN {Unpriced}
    ELSE IF code # NoCode THEN Selected(products, code) ELSE products

BillType(kind, code) ==
    CASE kind = "electricity" -> "Electricity"
      [] kind = "cable" -> "CableTV"
      [] kind = "telco" /\ code # NoCode -> "Data"
      [] OTHER -> "Airtime"

Payable(a, kind, code, products) ==
    UNION {Amounts(a, p) : p \in References(kind, code, products)}
=============================================================================

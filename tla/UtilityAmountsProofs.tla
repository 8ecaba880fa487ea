------------------------ MODULE UtilityAmountsProofs ------------------------
(***************************************************************************)
(* What a resident pays for a product, for every request and price.        *)
(***************************************************************************)
EXTENDS UtilityAmounts, TLAPS

-----------------------------------------------------------------------------
\* The rounded naira amount is the least number of kobo within half a kobo.
LEMMA NairaIsRounded ==
    ASSUME NEW a \in Nat
    PROVE  /\ FromNaira(a) \in Nat
           /\ 10 * FromNaira(a) <= a + 5 /\ a + 5 < 10 * FromNaira(a) + 10
  BY SMT DEF FromNaira

LEMMA LegacyIsThousandth ==
    ASSUME NEW a \in Nat, NEW n \in LegacyKobo(a)
    PROVE  n \in Nat /\ a = 1000 * n
<1>1. a % 1000 = 0 /\ n = a \div 1000  BY DEF LegacyKobo
<1> QED  BY <1>1, SMT

\* What is paid lies between the minimum and the maximum of the product, and is
\* never more than the request says in naira, whichever unit it was taken in
\* (utility_payments.py:38-54).
THEOREM AmountIsInRange ==
    ASSUME NEW a \in Nat, NEW p, NEW n \in Amounts(a, p)
    PROVE  /\ n \in Nat /\ n <= FromNaira(a)
           /\ HasRange(p) => Within(n, p)
<1>1. FromNaira(a) \in Nat  BY NairaIsRounded
<1>2. CASE n = FromNaira(a) /\ (~HasRange(p) \/ Within(n, p))
  BY <1>1, <1>2
<1>3. CASE n \in LegacyKobo(a) /\ Within(n, p)
  <2>1. n \in Nat /\ a = 1000 * n  BY <1>3, LegacyIsThousandth
  <2>2. n <= FromNaira(a)  BY <2>1, NairaIsRounded
  <2> QED  BY <1>3, <2>1, <2>2
<1> QED  BY <1>2, <1>3 DEF Amounts

\* Half a kobo or more never becomes a payment of nothing, and neither does
\* anything where the product has a minimum above nothing; less than half a
\* kobo does where it has none (utility_payments.py:38-43).
THEOREM PaymentIsPositive ==
    ASSUME NEW a \in Nat, NEW p, NEW n \in Amounts(a, p),
           a >= 5 \/ \E m \in p.min \cap Nat : m > 0
    PROVE  n > 0
<1>1. n \in Nat  BY AmountIsInRange
<1>2. CASE \E m \in p.min \cap Nat : m > 0
  <2>1. PICK m \in p.min \cap Nat : m > 0  BY <1>2
  <2>2. HasRange(p)  BY <2>1 DEF HasRange
  <2>3. Within(n, p)  BY <2>2, AmountIsInRange
  <2>4. n >= m  BY <2>1, <2>3 DEF Within
  <2> QED  BY <1>1, <2>1, <2>4
<1>3. CASE a >= 5
  <2>1. CASE n = FromNaira(a)  BY <1>3, <2>1, NairaIsRounded
  <2>2. CASE n \in LegacyKobo(a)  BY <1>3, <2>2, LegacyIsThousandth
  <2> QED  BY <2>1, <2>2 DEF Amounts
<1> QED  BY <1>2, <1>3

\* A product of one price is paid with that price or not at all.
LEMMA FixedPriceOrNothing ==
    ASSUME NEW a \in Nat, NEW k \in Nat, NEW i, NEW slug,
           NEW n \in Amounts(a, Product(i, slug, {k}))
    PROVE  n = k
<1> DEFINE p == Product(i, slug, {k})
<1>1. p.min = {k} /\ p.max = {k}  BY DEF Product
<1>2. n \in Nat /\ Within(n, p)
  <2>1. HasRange(p)  BY <1>1 DEF HasRange
  <2> QED  BY <2>1, AmountIsInRange
<1> QED  BY <1>1, <1>2 DEF Within

\* A product without a price is paid with whatever is asked for.
LEMMA UnpricedIsAnyAmount ==
    ASSUME NEW a, NEW i, NEW slug, NEW n \in Amounts(a, Product(i, slug, {}))
    PROVE  n = FromNaira(a)
<1>1. ~HasRange(Product(i, slug, {}))  BY DEF HasRange, Product
<1> QED  BY <1>1 DEF Amounts

\* A plan that Nomba quotes is priced at the quotation or a kobo less.
LEMMA QuotedIsPriced ==
    ASSUME NEW q \in Nat, NEW price \in Prices({q})
    PROVE  \E k \in Nat : price = {k} /\ q - 1 <= k /\ k <= q
<1>1. UNION {KoboOf(n) : n \in {q}} = KoboOf(q)  OBVIOUS
<1>2. price \in {{}} \cup {{k} : k \in KoboOf(q)} /\ price # {}
  BY <1>1 DEF Prices
<1>3. PICK k \in KoboOf(q) : price = {k}  BY <1>2
<1> QED  BY <1>3 DEF KoboOf

\* The price that the catalogue shows is accepted as it stands, and so is the
\* number of kobo that older documents asked for (services.py:277-298,
\* utility_payments.py:46).
THEOREM ShownPriceIsAccepted ==
    ASSUME NEW k \in Nat \ {0}, NEW i, NEW slug
    PROVE  /\ Amounts(Shown(k), Product(i, slug, {k})) = {k}
           /\ Amounts(1000 * k, Product(i, slug, {k})) = {k}
<1> DEFINE p == Product(i, slug, {k})
<1>1. p.min = {k} /\ p.max = {k}  BY DEF Product
<1>2. HasRange(p) /\ (\A n \in Nat : Within(n, p) <=> n = k)
  BY <1>1 DEF HasRange, Within
<1>3. Amounts(Shown(k), p) = {k}
  <2>1. Shown(k) \in Nat /\ Shown(k) > 0 /\ Shown(k) = 10 * k  BY DEF Shown
  <2>2. FromNaira(Shown(k)) = k  BY SMT DEF FromNaira, Shown
  <2>3. Within(FromNaira(Shown(k)), p)  BY <1>2, <2>2
  <2> QED  BY <2>1, <2>2, <2>3 DEF Amounts
<1>4. Amounts(1000 * k, p) = {k}
  <2> DEFINE a == 1000 * k
  <2>1. a \in Nat /\ a > 0  OBVIOUS
  <2>2. FromNaira(a) \in Nat /\ FromNaira(a) # k  BY <2>1, NairaIsRounded
  <2>3. HasRange(p) /\ ~Within(FromNaira(a), p)  BY <1>2, <2>2
  <2>4. a % 1000 = 0 /\ a \div 1000 = k  BY SMT
  <2>5. LegacyKobo(a) = {k}  BY <2>4 DEF LegacyKobo
  <2>6. Within(k, p)  BY <1>2
  <2>7. Amounts(a, p) = {n \in LegacyKobo(a) : Within(n, p)}  BY <2>1, <2>3 DEF Amounts
  <2> QED  BY <2>5, <2>6, <2>7
<1> QED  BY <1>3, <1>4

-----------------------------------------------------------------------------
\* Whoever names a plan of a telco pays for a plan of this name: the price that
\* Nomba quoted for it, less at most the kobo that truncation loses, or else any
\* amount he asks for, if its price is missing or cannot be read
\* (services.py:446-462, nomba.py:50-56, utility_payments.py:42).
THEOREM NamedPlanCostsItsPrice ==
    ASSUME NEW a \in Nat, NEW plans \in SUBSET Plan, NEW code \in Codes, code # NoCode,
           NEW n \in Payable(a, "telco", code, DataProducts(plans))
    PROVE  \E i \in plans :
               /\ code \in {Or(i.slug, i.plan), i.id}
               /\ \/ \E q \in i.quoted : q - 1 <= n /\ n <= q
                  \/ i.quoted = {} /\ n = FromNaira(a)
<1> DEFINE P == DataProducts(plans)
<1>1. References("telco", code, P) = Selected(P, code)  BY DEF References
<1>2. PICK p \in P : Matches(p, code) /\ n \in Amounts(a, p)
  BY <1>1 DEF Payable, Selected
<1>3. PICK i \in plans :
        \E price \in Prices(i.quoted) : p = Product(i, Or(i.slug, i.plan), price)
  BY <1>2 DEF DataProducts
<1>4. PICK price \in Prices(i.quoted) : p = Product(i, Or(i.slug, i.plan), price)  BY <1>3
<1>5. code \in {Or(i.slug, i.plan), i.id}  BY <1>2, <1>4 DEF Matches, Product
<1>6. CASE i.quoted = {}
  <2>1. price = {}  BY <1>6 DEF Prices
  <2>2. n = FromNaira(a)  BY <1>2, <1>4, <2>1, UnpricedIsAnyAmount
  <2> QED  BY <1>5, <1>6, <2>2
<1>7. CASE i.quoted # {}
  <2>1. PICK q \in Nat : i.quoted = {q}  BY <1>3, <1>7 DEF Plan
  <2>2. PICK k \in Nat : price = {k} /\ q - 1 <= k /\ k <= q
    BY <2>1, QuotedIsPriced
  <2>3. n = k  BY <1>2, <1>4, <2>2, FixedPriceOrNothing
  <2> QED  BY <1>5, <2>1, <2>2, <2>3
<1> QED  BY <1>6, <1>7

\* The code that the catalogue shows for a data plan selects its product, if
\* Nomba gives the plan no slug of its own; with one, the catalogue shows the
\* name and the payment looks for the slug (services.py:292, nomba.py:228,
\* utility_payments.py:73).
THEOREM ShownCodeIsFound ==
    ASSUME NEW plans \in SUBSET Plan, NEW i \in plans, i.plan # NoCode,
           i.slug \in {NoCode, i.plan}
    PROVE  Selected(DataProducts(plans), ItemCode(i)) # {}
<1>1. i.quoted \in Prices(i.quoted)
  <2>1. CASE i.quoted = {}  BY <2>1 DEF Prices
  <2>2. CASE i.quoted # {}
    <3>1. PICK q \in Nat : i.quoted = {q}  BY <2>2 DEF Plan
    <3>2. q \in UNION {KoboOf(n) : n \in i.quoted}  BY <3>1 DEF KoboOf
    <3> QED  BY <2>2, <3>1, <3>2 DEF Prices
  <2> QED  BY <2>1, <2>2
<1>2. Or(i.slug, i.plan) = ItemCode(i)  BY DEF Or, ItemCode
<1> DEFINE p == Product(i, ItemCode(i), i.quoted)
<1>3. p \in DataProducts(plans)  BY <1>1, <1>2 DEF DataProducts
<1>4. Matches(p, ItemCode(i))  BY DEF Matches, Product
<1> QED  BY <1>3, <1>4 DEF Selected
=============================================================================

--------------------------- MODULE PricingProofs ----------------------------
(***************************************************************************)
(* The properties PricingCases checks on small numbers, for every balance, *)
(* rate, mass, scale and cap.  Each is an invariant of one step: a case is *)
(* any inputs within their types, so the proof needs no history.           *)
(***************************************************************************)
EXTENDS PricingCases, WellFoundedInduction, TLAPS

\* A non-empty set of naturals has a least element.
LEMMA LeastNatural ==
    ASSUME NEW T, T \subseteq Nat, T # {}
    PROVE  \E x \in T : \A y \in T : x <= y
<1> DEFINE R == OpToRel(<, Nat)
<1>1. PICK x \in T : \A y \in T : ~(<<y, x>> \in R)
    <2>1. IsWellFoundedOn(R, Nat)
        BY NatLessThanWellFounded
    <2>2. QED
        BY <2>1, WFMin
<1>2. ASSUME NEW y \in T
      PROVE  x <= y
    <2>1. x \in Nat /\ y \in Nat
        OBVIOUS
    <2>2. y < x => <<y, x>> \in R
        BY <2>1 DEF OpToRel
    <2>3. ~(y < x)
        BY <1>1, <2>2
    <2>4. QED
        BY <2>1, <2>3
<1>3. QED
    BY <1>2

\* A non-empty set of naturals below a bound has a largest element: Max.
LEMMA MaxBelowBound ==
    ASSUME NEW n \in Nat, NEW S, S \subseteq 0 .. n, S # {}
    PROVE  Max(S) \in S /\ \A y \in S : y <= Max(S)
<1> DEFINE T == {t \in Nat : \E s \in S : t = n - s}
<1>1. T # {}
    <2>1. PICK s \in S : TRUE
        OBVIOUS
    <2>2. n - s \in T
        BY <2>1
    <2>3. QED
        BY <2>2
<1>2. PICK x \in T : \A y \in T : x <= y
    <2>1. T \subseteq Nat
        OBVIOUS
    <2> HIDE DEF T
    <2>2. QED
        BY <1>1, <2>1, LeastNatural
<1>3. PICK s \in S : x = n - s
    OBVIOUS
<1>4. ASSUME NEW y \in S
      PROVE  s >= y
    <2>1. n - y \in T
        OBVIOUS
    <2>2. n - s <= n - y
        BY <1>2, <1>3, <2>1
    <2>3. s \in 0 .. n /\ y \in 0 .. n
        OBVIOUS
    <2>4. QED
        BY <2>2, <2>3
<1>5. \E z \in S : \A y \in S : z >= y
    BY <1>4
<1>6. Max(S) \in S /\ \A y \in S : Max(S) >= y
    BY <1>5 DEF Max
<1>7. QED
    BY <1>6

\* Division by a positive divisor rounds down.
LEMMA Floored ==
    ASSUME NEW a \in Nat, NEW d \in Nat \ {0}
    PROVE  /\ a \div d \in Nat
           /\ (a \div d) * d <= a
           /\ a < (a \div d + 1) * d
  OBVIOUS

\* The quotient is the largest number whose product with the divisor fits.
LEMMA FloorIsLargest ==
    ASSUME NEW a \in Nat, NEW d \in Nat \ {0}, NEW q \in Nat, q * d <= a
    PROVE  q <= a \div d
<1> DEFINE p == a \div d
<1>1. p \in Nat /\ a < (p + 1) * d
    BY Floored
<1>2. q * d < (p + 1) * d
    BY <1>1
<1>3. q < p + 1
    BY <1>1, <1>2
<1>4. QED
    BY <1>1, <1>3

\* Buying nothing costs nothing, and prices are naturals.
LEMMA PricesAreNatural ==
    ASSUME NEW m \in Nat, NEW rate \in Nat
    PROVE  /\ BuyPoints(m, rate) \in Nat
           /\ SellPoints(m, rate) \in Nat
           /\ BuyPoints(0, rate) = 0
           /\ SellPoints(m, rate) <= BuyPoints(m, rate)
<1> DEFINE c == m * rate
<1>1. c \in Nat /\ RateScale \in Nat \ {0}
    BY PricingAssumption
<1>2. 0 * rate = 0
    OBVIOUS
<1> HIDE DEF c
<1>3. c \div RateScale \in Nat /\ (c + RateScale - 1) \div RateScale \in Nat
    BY <1>1
<1>4. c \div RateScale <= (c + RateScale - 1) \div RateScale
    <2>1. (c \div RateScale) * RateScale <= c
        BY <1>1, Floored
    <2>2. (c \div RateScale) * RateScale <= c + RateScale - 1
        BY <1>1, <1>3, <2>1
    <2>3. QED
        BY <1>1, <1>3, <2>2, FloorIsLargest
<1>5. (0 + RateScale - 1) \div RateScale = 0
    BY <1>1
<1>6. QED
    BY <1>2, <1>3, <1>4, <1>5 DEF BuyPoints, SellPoints, c

\* Rounding up is the least price: a mass whose exact price is within the
\* balance can be paid for, and one that can be paid for has its exact price
\* within the balance.
LEMMA AffordableIffExact ==
    ASSUME NEW m \in Nat, NEW rate \in Nat, NEW owned \in Nat
    PROVE  BuyPoints(m, rate) <= owned <=> m * rate <= owned * RateScale
<1> DEFINE c == m * rate
           p == (c + RateScale - 1) \div RateScale
<1>1. c \in Nat /\ RateScale \in Nat \ {0}
    BY PricingAssumption
<1> HIDE DEF c
<1>2. p \in Nat /\ p * RateScale <= c + RateScale - 1 /\ c + RateScale - 1 < (p + 1) * RateScale
    BY <1>1, Floored
<1>3. ASSUME p <= owned PROVE c <= owned * RateScale
    <2>1. (p + 1) * RateScale = p * RateScale + RateScale
        BY <1>1, <1>2
    <2>2. c <= p * RateScale
        BY <1>1, <1>2, <2>1
    <2>3. p * RateScale <= owned * RateScale
        BY <1>1, <1>2, <1>3
    <2>4. QED
        BY <1>1, <1>2, <2>2, <2>3
<1>4. ASSUME c <= owned * RateScale PROVE p <= owned
    <2>1. p * RateScale < (owned + 1) * RateScale
        <3>1. (owned + 1) * RateScale = owned * RateScale + RateScale
            BY <1>1
        <3>2. QED
            BY <1>1, <1>2, <1>4, <3>1
    <2>2. QED
        BY <1>1, <1>2, <2>1
<1>5. QED
    BY <1>3, <1>4 DEF BuyPoints, c

\* max_buy_mass: what it returns is within the limit and can be paid for, and
\* no larger mass within the limit can.
LEMMA MaxBuyMassIsLargest ==
    ASSUME NEW owned \in Nat, NEW rate \in Nat \ {0}, NEW limit \in Nat
    PROVE  LET bought == MaxBuyMass(owned, rate, limit)
           IN  /\ bought \in 0 .. limit
               /\ BuyPoints(bought, rate) <= owned
               /\ \A m \in 0 .. limit : BuyPoints(m, rate) <= owned => m <= bought
<1> DEFINE start == Least(MassFor(owned, rate), limit)
           S == {m \in 0 .. start : m = 0 \/ BuyPoints(m, rate) <= owned}
           bought == Max(S)
<1>1. start \in 0 .. limit
    <2>1. owned * RateScale \in Nat
        BY PricingAssumption
    <2>2. MassFor(owned, rate) \in Nat
        BY <2>1, Floored DEF MassFor
    <2>3. QED
        BY <2>2 DEF Least
<1>2. MaxBuyMass(owned, rate, limit) = bought
    BY DEF MaxBuyMass, LargestFitting
<1>3. bought \in S /\ \A m \in S : m <= bought
    <2>1. S \subseteq 0 .. start /\ 0 \in S /\ start \in Nat
        BY <1>1
    <2> HIDE DEF S
    <2>2. QED
        BY <2>1, MaxBelowBound
<1>4. BuyPoints(bought, rate) <= owned
    BY <1>3, PricesAreNatural
<1>5. ASSUME NEW m \in 0 .. limit, BuyPoints(m, rate) <= owned
      PROVE  m <= bought
    <2>1. m * rate <= owned * RateScale /\ owned * RateScale \in Nat
        BY <1>5, AffordableIffExact, PricingAssumption
    <2>2. m <= MassFor(owned, rate)
        BY <2>1, FloorIsLargest DEF MassFor
    <2>3. m \in S
        BY <1>1, <1>5, <2>2 DEF Least
    <2>4. QED
        BY <1>3, <2>3
<1>6. QED
    BY <1>1, <1>2, <1>3, <1>4, <1>5

\* max_sell_mass: the payout of what it returns fits the headroom, and one
\* quantum more than it returns, where the limit allows one, would be worth
\* more than the headroom.
LEMMA MaxSellMassFits ==
    ASSUME NEW owned \in 0 .. PointsMax, NEW rate \in Nat \ {0}, NEW limit \in Nat
    PROVE  LET sold == MaxSellMass(owned, rate, limit)
           IN  /\ sold \in 0 .. limit
               /\ SellPoints(sold, rate) <= Headroom(owned)
               /\ sold < limit => (sold + 1) * rate > Headroom(owned) * RateScale
<1> DEFINE room == Headroom(owned)
           fit == MassFor(room, rate)
           start == Least(fit, limit)
           S == {m \in 0 .. start : m = 0 \/ SellPoints(m, rate) <= room}
           sold == Max(S)
<1>1. room \in Nat /\ RateScale \in Nat \ {0}
    BY PricingAssumption DEF Headroom
<1>2. fit \in Nat /\ fit * rate <= room * RateScale /\ room * RateScale < (fit + 1) * rate
    <2>1. room * RateScale \in Nat
        BY <1>1
    <2>2. QED
        BY <2>1, Floored DEF MassFor
<1>3. MaxSellMass(owned, rate, limit) = sold
    BY DEF MaxSellMass, LargestFitting
<1> HIDE DEF room, fit
<1>4. start \in 0 .. limit /\ start <= fit /\ (start < limit => start = fit)
    BY <1>2 DEF Least
<1>5. SellPoints(start, rate) <= room
    <2>1. start * rate \in Nat /\ start * rate <= fit * rate
        BY <1>2, <1>4
    <2>2. SellPoints(start, rate) \in Nat /\ SellPoints(start, rate) * RateScale <= start * rate
        BY <1>1, <2>1, Floored DEF SellPoints
    <2>3. SellPoints(start, rate) * RateScale < (room + 1) * RateScale
        BY <1>1, <1>2, <2>1, <2>2
    <2>4. QED
        BY <1>1, <2>2, <2>3
<1>6. sold = start
    <2>1. S \subseteq 0 .. start /\ start \in S /\ start \in Nat
        BY <1>4, <1>5
    <2>2. sold \in S /\ start <= sold
        <3> HIDE DEF S, start
        <3>1. QED
            BY <2>1, MaxBelowBound
    <2>3. QED
        BY <1>4, <2>1, <2>2
<1>7. QED
    BY <1>2, <1>3, <1>4, <1>5, <1>6 DEF room

-----------------------------------------------------------------------------
(* The properties of PricingCases *)

\* Every state of PricingCases is a case, whatever step led to it.
LEMMA AlwaysACase == Spec => []Cases
<1>1. Init => Cases
    BY DEF Init
<1>2. Cases /\ [Next]_caseVars => Cases'
    BY DEF Cases, Next, caseVars
<1>3. QED
    BY <1>1, <1>2, PTL DEF Spec

\* What a case says of the types of the inputs.
LEMMA CaseTypes ==
    ASSUME Cases
    PROVE  /\ balance \in Nat /\ balance \in 0 .. PointsMax
           /\ buyRate \in Nat \ {0} /\ sellRate \in Nat \ {0}
           /\ mass \in Nat
  BY CasesAssumption, PricingAssumption DEF Cases

\* "buy all" spends no more than the balance and leaves no affordable mass
\* behind: max_buy_mass, for every rate and balance.
THEOREM BuyAll == Spec => []BuyAllIsLargestAffordable
<1>1. Cases => BuyAllIsLargestAffordable
    <2> SUFFICES ASSUME Cases PROVE BuyAllIsLargestAffordable
        OBVIOUS
    <2> DEFINE bought == MaxBuyMass(balance, buyRate, mass)
    <2>1. /\ bought \in 0 .. mass
          /\ BuyPoints(bought, buyRate) <= balance
          /\ \A m \in 0 .. mass : BuyPoints(m, buyRate) <= balance => m <= bought
        BY CaseTypes, MaxBuyMassIsLargest
    <2> HIDE DEF bought
    <2>2. BuyPoints(bought, buyRate) \in Nat
        BY <2>1, CaseTypes, PricesAreNatural
    <2>3. QED
        BY <2>1, <2>2, CaseTypes DEF BuyAllIsLargestAffordable, ValidDebit, bought
<1>2. QED
    BY <1>1, AlwaysACase, PTL

\* "sell all" never pays over the provider's cap and stops only where one more
\* quantum would be worth more than the headroom: max_sell_mass.
THEOREM SellAll == Spec => []SellAllFitsTheCap
<1>1. Cases => SellAllFitsTheCap
    <2> SUFFICES ASSUME Cases PROVE SellAllFitsTheCap
        OBVIOUS
    <2> DEFINE sold == MaxSellMass(balance, sellRate, mass)
    <2>1. /\ sold \in 0 .. mass
          /\ SellPoints(sold, sellRate) <= Headroom(balance)
          /\ sold < mass => (sold + 1) * sellRate > Headroom(balance) * RateScale
        BY CaseTypes, MaxSellMassFits
    <2> HIDE DEF sold
    <2>2. SellPoints(sold, sellRate) \in Nat /\ Headroom(balance) \in Nat
        <3>1. sold \in Nat /\ sellRate \in Nat /\ balance \in 0 .. PointsMax
            BY <2>1, CaseTypes
        <3>2. QED
            BY <3>1, PricesAreNatural, PricingAssumption DEF Headroom
    <2>3. QED
        BY <2>1, <2>2 DEF SellAllFitsTheCap, ValidCredit, sold
<1>2. QED
    BY <1>1, AlwaysACase, PTL

\* Selling what was just bought never yields more points than it cost, at any
\* sell rate up to the buy rate.
THEOREM RoundTrip == Spec => []RoundTripNeverProfits
<1>1. Cases => RoundTripNeverProfits
    <2> SUFFICES ASSUME Cases, sellRate <= buyRate
                 PROVE  SellPoints(mass, sellRate) <= BuyPoints(mass, buyRate)
        BY DEF RoundTripNeverProfits
    <2>1. SellPoints(mass, buyRate) <= BuyPoints(mass, buyRate)
        BY CaseTypes, PricesAreNatural
    <2>2. SellPoints(mass, sellRate) <= SellPoints(mass, buyRate)
        <3>1. mass * sellRate \in Nat /\ mass * buyRate \in Nat
              /\ mass * sellRate <= mass * buyRate
            BY CaseTypes
        <3>2. RateScale \in Nat \ {0}
            BY PricingAssumption
        <3>3. SellPoints(mass, sellRate) \in Nat
              /\ SellPoints(mass, sellRate) * RateScale <= mass * sellRate
            BY <3>1, <3>2, Floored DEF SellPoints
        <3>4. SellPoints(mass, sellRate) * RateScale <= mass * buyRate
            BY <3>1, <3>2, <3>3
        <3>5. QED
            BY <3>1, <3>2, <3>3, <3>4, FloorIsLargest DEF SellPoints
    <2>3. QED
        BY <2>1, <2>2, CaseTypes, PricesAreNatural
<1>2. QED
    BY <1>1, AlwaysACase, PTL
=============================================================================

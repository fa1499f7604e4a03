--------------------------- MODULE EconomyPricing ---------------------------
(***************************************************************************)
(* The integer arithmetic of the fish economy: how a mass is priced in     *)
(* StreamElements points, and the largest mass an "all" command may        *)
(* convert.  Mass is counted in quanta (MASS_QUANTUM, 0.01 kg).  A rate is *)
(* an integer number of 1/RateScale points per quantum: the columns        *)
(* buy_points_per_kg and sell_points_per_kg are NUMERIC(18, 4) per kg, so  *)
(* the code's own scale is 10^6.                                           *)
(***************************************************************************)
EXTENDS Integers, FiniteSetsExt

CONSTANTS
    RateScale,      \* fractions of a point a rate is expressed in
    PointsMax       \* STREAMELEMENTS_POINTS_MAX

ASSUME PricingAssumption ==
    /\ RateScale \in Nat \ {0}
    /\ PointsMax \in Nat

ValidBalance(balance) == balance \in 0 .. PointsMax

Headroom(balance) == PointsMax - balance

\* A plausible bug in BuyPoints: the price of one quantum rounded first.
PointsByQuantum(mass, rate) == mass * (rate \div RateScale)

\* ROUND_CEILING: the viewer never pays less than the rate asks for.
BuyPoints(mass, rate) == (mass * rate + RateScale - 1) \div RateScale

\* ROUND_FLOOR: the viewer is never paid more than the rate offers.
SellPoints(mass, rate) == (mass * rate) \div RateScale

ValidDebit(balance, points) == points \in 0 .. balance

ValidCredit(balance, points) == points \in 0 .. Headroom(balance)

\* The while loops below walk down quantum by quantum and stop at the first
\* mass whose price fits: the largest one at or below the starting point.
LargestFitting(start, Fits(_)) == Max({m \in 0 .. start : m = 0 \/ Fits(m)})

\* A plausible bug in MassFor: whole units only.
WholeMassFor(points, rate) == (points \div rate) * RateScale

\* Division of points by a rate, floored to a quantum.
MassFor(points, rate) == (points * RateScale) \div rate

Least(a, b) == IF a <= b THEN a ELSE b

\* A plausible bug in MaxBuyMass: the channel's limit forgotten.
UncappedBuyMass(balance, rate, maxMass) ==
    LET Affordable(m) == BuyPoints(m, rate) <= balance
    IN  LargestFitting(MassFor(balance, rate), Affordable)

MaxBuyMass(balance, rate, maxMass) ==
    LET Affordable(m) == BuyPoints(m, rate) <= balance
    IN  LargestFitting(Least(MassFor(balance, rate), maxMass), Affordable)

MaxSellMass(balance, rate, maxMass) ==
    LET Payable(m) == SellPoints(m, rate) <= Headroom(balance)
    IN  LargestFitting(Least(MassFor(Headroom(balance), rate), maxMass), Payable)

=============================================================================

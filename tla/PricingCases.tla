---------------------------- MODULE PricingCases ----------------------------
(***************************************************************************)
(* Every case the pricing of a conversion can be asked for: a provider     *)
(* balance, the channel's two rates and a mass.  The state is the inputs;  *)
(* a step asks for another case.                                           *)
(***************************************************************************)
EXTENDS EconomyPricing

CONSTANTS
    Rates,      \* rates in 1/RateScale points per quantum
    Masses      \* masses in quanta

ASSUME CasesAssumption ==
    /\ Rates \subseteq Nat \ {0}
    /\ Masses \subseteq Nat

VARIABLES balance, buyRate, sellRate, mass

caseVars == <<balance, buyRate, sellRate, mass>>

Cases ==
    /\ balance \in 0 .. PointsMax
    /\ buyRate \in Rates /\ sellRate \in Rates
    /\ mass \in Masses

Init == Cases

\* Another balance, another rate, another mass.
Next ==
    \/ balance' \in 0 .. PointsMax /\ UNCHANGED <<buyRate, sellRate, mass>>
    \/ buyRate' \in Rates /\ UNCHANGED <<balance, sellRate, mass>>
    \/ sellRate' \in Rates /\ UNCHANGED <<balance, buyRate, mass>>
    \/ mass' \in Masses /\ UNCHANGED <<balance, buyRate, sellRate>>

Spec == Init /\ [][Next]_caseVars

-----------------------------------------------------------------------------

\* "buy all" within a limit of `mass`: what it buys can be paid for, and no
\* larger mass up to the limit can (max_buy_mass).
BuyAllIsLargestAffordable ==
    LET bought == MaxBuyMass(balance, buyRate, mass)
    IN  /\ bought \in 0 .. mass
        /\ ValidDebit(balance, BuyPoints(bought, buyRate))
        /\ \A m \in 0 .. mass : BuyPoints(m, buyRate) <= balance => m <= bought

\* "sell all" of `mass`: the payout fits under the provider's cap, and whatever
\* stays unsold would have been worth more than the headroom (max_sell_mass).
SellAllFitsTheCap ==
    LET sold == MaxSellMass(balance, sellRate, mass)
    IN  /\ sold \in 0 .. mass
        /\ ValidCredit(balance, SellPoints(sold, sellRate))
        /\ sold < mass => (sold + 1) * sellRate > Headroom(balance) * RateScale

\* Buying a mass and selling it again never yields points while the sell rate
\* is not above the buy rate: both roundings favour the channel
\* (calculate_buy_points, calculate_sell_points).
RoundTripNeverProfits ==
    sellRate <= buyRate => SellPoints(mass, sellRate) <= BuyPoints(mass, buyRate)
=============================================================================

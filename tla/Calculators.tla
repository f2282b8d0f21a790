------------------------------ MODULE Calculators ------------------------------
(***************************************************************************)
(* The seller tools that only calculate (domains/tools/service.py), and    *)
(* the verdict of the free trial (api/portal_routes.py, 760 to 804).  They *)
(* share no code, though their users carry a result of one into another.   *)
(*                                                                         *)
(* A sheet is what a user has filled in.  Amounts are entered in cents,    *)
(* and what is shown of an amount is rounded to cents, so that the price a *)
(* user carries on is not the one that was calculated.  A rate is entered  *)
(* as a number, here in hundredths, that the tools read either as a share  *)
(* or as a percentage; what they calculate with is in thousandths.         *)
(***************************************************************************)
EXTENDS Integers, FiniteSets

CONSTANTS
    Amounts,                 \* cents
    Rates,                   \* hundredths of the number that is entered
    Lengths,                 \* characters of a title, or of nothing
    Prices, Reviews, Ranks, Sales, Offers   \* of the product that is judged

Unknown == -1

AtMost(a, b) == IF a < b THEN a ELSE b
AtLeast(a, b) == IF a < b THEN b ELSE a
Clamped(score) == AtLeast(0, AtMost(100, score))
Apart(a, b) == IF a < b THEN b - a ELSE a - b

\* _round2: to the next whole, a half upward. (The percentages go through round alone, which lacks
\* the allowance of _round2 for the error of floating point and may break a half either way.)
Rounded(n, d) == (2 * n + d) \div (2 * d)

\* _coerce_rate: a number above 1 is a percentage and any other a share, so that 0.15 and 15 are
\* the same and no rate of 1 % or less can be entered as a percentage.
Rate(entry) == IF entry > 100 THEN entry \div 10 ELSE 10 * entry
Accepted(entry) == Rate(entry) < 1000

-----------------------------------------------------------------------------
\* compute_profit_calculator.  The profit at a price, in thousandths of a cent; the verdict is on
\* the profit, which is shown in cents.
Takes(price, costs, rates) == price * rates + 1000 * costs
Profit(price, costs, rates) == 1000 * price - Takes(price, costs, rates)
ShownProfit(price, costs, rates) == Rounded(Profit(price, costs, rates), 1000)
Breakeven(costs, rates) == Rounded(1000 * costs, 1000 - rates)
Risk(price, costs, rates) ==
    LET gross == Profit(price, costs, rates) IN
    IF gross < 0 THEN "loss" ELSE IF 10 * gross < 1000 * price THEN "low"
    ELSE IF 4 * gross < 1000 * price THEN "fair" ELSE "good"
\* The range of prices it suggests: the larger of the break-even price and 95 %, up to 115 %.
SuggestedLow(price, costs, rates) == AtLeast(Breakeven(costs, rates), Rounded(95 * price, 100))
SuggestedHigh(price) == Rounded(115 * price, 100)

\* Faulty variant of PriceForMargin: the margin is added to the cost.
PriceOnTop(cost, rates, half) == Rounded(cost * (2000 + half), 2 * (1000 - rates))

\* compute_pricing_reverse: the price that leaves half / 2 thousandths; 0 when there is none.
PriceForMargin(cost, rates, half) ==
    IF 2000 - 2 * rates - half > 0 THEN Rounded(2000 * cost, 2000 - 2 * rates - half) ELSE 0

\* compute_acos_breakeven: the share of the price, in tenths of a percent, that advertising may take.
UnitCost(price, costs, referral) == 1000 * costs + price * referral
PreAdProfit(price, costs, referral) == 1000 * price - UnitCost(price, costs, referral)
BreakevenAcos(price, costs, referral) == Rounded(PreAdProfit(price, costs, referral), price)
TargetAcos(price, costs, referral, margin) ==
    Rounded(AtLeast(0, PreAdProfit(price, costs, referral) - price * margin), price)

\* compute_landed_price: the goods with duty and import tax, in millionths of a cent, what is shown
\* of it, and the price for a margin.
Landed(goods, duty, vat) == goods * (1000 + duty) * (1000 + vat)
ShownLanded(goods, duty, vat) == Rounded(Landed(goods, duty, vat), 1000000)
RetailPrice(goods, duty, vat, fee, margin) ==
    IF (fee # 0 \/ margin # 0) /\ fee + margin < 1000
    THEN Rounded(Landed(goods, duty, vat), 1000 * (1000 - fee - margin)) ELSE 0

\* compute_dimensional_weight: grams that are billed, times the divisor.
Billable(volume, grams, divisor) == AtLeast(grams * divisor, 1000 * volume)

-----------------------------------------------------------------------------
\* _diagnose_title_rule, for the lengths of one site.
LengthDeduction(length, low, high, hard) ==
    IF length < low THEN AtMost(25, (low - length) \div 4 + 5)
    ELSE IF length > hard THEN 20 ELSE IF length > high THEN 8 ELSE 0
TitleScore(t) ==
    Clamped(100 - LengthDeduction(t.length, 80, 200, 250)
                - AtMost(20, 6 * t.repeated) - AtMost(18, 6 * t.untitled)
                - IF t.brand THEN 0 ELSE 6)

\* score_listing_health: the score of the bullet points, the share of the keywords that are in
\* the title or in them, and the mean by the weights of what was filled in.
BulletScore(t) ==
    IF t.bullets = 0 THEN 0
    ELSE AtLeast(0, 100 - (IF t.bullets < 5 THEN 12 * (5 - t.bullets) ELSE 0)
                        - AtMost(20, 6 * t.short))
KeywordScore(t) == Rounded(100 * (t.keywords - t.missing), t.keywords)
ListingScore(t) ==
    LET words == 4 * TitleScore(t) + 3 * BulletScore(t) IN
    IF t.keywords = 0 THEN Rounded(words, 7) ELSE Rounded(words + 3 * KeywordScore(t), 10)

\* check_compliance: what the rules that were hit take off.
RuleScore(high, medium) == Clamped(100 - 25 * AtMost(high, 3) - 12 * AtMost(medium, 3))

\* _public_asin_quick_risk_assessment: the light for a product.
Known(n) == n # Unknown
RedSignals(s) ==
    Cardinality({k \in 1 .. 3 :
        \/ k = 1 /\ Known(s.price) /\ s.price <= 12
        \/ k = 2 /\ s.reviews >= 30000
        \/ k = 3 /\ Known(s.rank) /\ s.rank <= 100 /\ s.sales >= 500})
Flagged(s) ==
    \/ Known(s.price) /\ s.price <= 18
    \/ s.reviews >= 5000
    \/ Known(s.rank) /\ s.rank <= 1000
    \/ Known(s.offers) /\ s.offers <= 3 /\ s.sales >= 300

\* 2 is red, 1 yellow, 0 green.
Light(s) ==
    IF RedSignals(s) >= 2 \/ (Known(s.price) /\ s.price <= 12 /\ s.reviews >= 10000) THEN 2
    ELSE IF Flagged(s) THEN 1 ELSE 0

-----------------------------------------------------------------------------
Budgets == [tool : {"price"}, cost : Amounts \ {0}, other : Amounts, rate : Rates,
            more : Rates, margin : Rates, price : Amounts \ {0}]
Listings == [tool : {"listing"}, length : Lengths, repeated : {0, 1, 4}, brand : BOOLEAN,
             bullets : {0, 1, 4, 5, 6}, short : {0, 1, 4}, keywords : {0, 3},
             untitled : 0 .. 3, missing : 0 .. 3]    \* keywords not in the title, nor in the bullets
Products == [tool : {"verdict"}, price : Prices, reviews : Reviews, rank : Ranks,
             sales : Sales, offers : Offers]
IsSheet(s) ==
    \/ s \in Budgets
    \/ /\ s \in Listings
       /\ s.missing <= s.untitled /\ s.untitled <= s.keywords /\ s.short <= s.bullets
       /\ s.bullets = 0 => s.missing = s.untitled
    \/ s \in Products
\* What the fields of any sheet are filled with.
Entries == [cost |-> Amounts, other |-> Amounts, rate |-> Rates, more |-> Rates, margin |-> Rates,
            price |-> Amounts \cup Prices, length |-> Lengths, repeated |-> {0, 1, 4},
            brand |-> BOOLEAN, bullets |-> {0, 1, 4, 5, 6}, short |-> {0, 1, 4},
            keywords |-> {0, 3}, untitled |-> 0 .. 3, missing |-> 0 .. 3, reviews |-> Reviews, rank |-> Ranks,
            sales |-> Sales, offers |-> Offers]
First(tool) ==
    CASE tool = "price" -> CHOOSE s \in Budgets : IsSheet(s)
      [] tool = "listing" -> CHOOSE s \in Listings : IsSheet(s)
      [] tool = "verdict" -> CHOOSE s \in Products : IsSheet(s)

VARIABLE sheet

Init == sheet = First("price")

Open(tool) == sheet.tool # tool /\ sheet' = First(tool)

Fill(field, entry) ==
    /\ sheet[field] # entry
    /\ sheet' = [sheet EXCEPT ![field] = entry]
    /\ IsSheet(sheet')

Next ==
    \/ \E tool \in {"price", "listing", "verdict"} : Open(tool)
    \/ \E field \in DOMAIN sheet \ {"tool"} : \E entry \in Entries[field] : Fill(field, entry)

-----------------------------------------------------------------------------
\* A sheet is one a user can fill in.
TypeOK == IsSheet(sheet)

\* What a sheet's rates are read as, when all of them are accepted.
Readable == \A field \in {"rate", "more", "margin"} : Accepted(sheet[field])

\* A price that the one calculator shows, entered into the other, gives the margin it was asked
\* for within what half a cent of the price makes, and is called a loss only where the profit
\* shown is nil; the prices are in order, and the break-even price of both is the same
\* (compute_pricing_reverse, compute_profit_calculator).
PricesAgree ==
    sheet.tool = "price" /\ Readable /\ Rate(sheet.rate) + Rate(sheet.more) < 1000 =>
        LET rates == Rate(sheet.rate) + Rate(sheet.more)
            margin == Rate(sheet.margin)
            least == PriceForMargin(sheet.cost, rates, 0)
            safe == PriceForMargin(sheet.cost, rates, margin)
            target == PriceForMargin(sheet.cost, rates, 2 * margin) IN
        /\ least = Breakeven(sheet.cost, rates)
        /\ 2 * Apart(Profit(least, sheet.cost, rates), 0) <= 1000 - rates
        /\ target # 0 =>
              /\ 2 * Apart(Profit(target, sheet.cost, rates), margin * target) <= 1000 - rates - margin
              /\ least <= safe /\ safe <= target
              /\ SuggestedLow(target, sheet.cost, rates) <= SuggestedHigh(target)
              /\ Risk(target, sheet.cost, rates) = "loss" => ShownProfit(target, sheet.cost, rates) = 0

\* Advertising at the break-even ACoS that is shown, entered as the rate it is, eats the profit,
\* and at the target ACoS leaves the target, each within half a tenth of a percent of the price.
\* An ACoS of 1 % or less is read as a share, and one that leaves no price is refused
\* (compute_acos_breakeven, compute_profit_calculator).
AcosAgrees ==
    sheet.tool = "price" /\ Readable =>
        LET costs == sheet.cost + sheet.other
            referral == Rate(sheet.rate)
            margin == Rate(sheet.margin)
            even == BreakevenAcos(sheet.price, costs, referral)
            target == TargetAcos(sheet.price, costs, referral, margin)
            Left(acos) == Profit(sheet.price, costs, referral + Rate(10 * acos))
            Enters(acos) == acos > 10 /\ referral + acos < 1000 IN
        PreAdProfit(sheet.price, costs, referral) > 0 =>
            /\ target <= even
            /\ Enters(even) => 2 * Apart(Left(even), 0) <= sheet.price
            /\ Enters(target) => 2 * Apart(Left(target), margin * sheet.price) <= sheet.price

\* A price for landed goods, entered with their cost as it is shown, leaves the margin after the
\* fee within what half a cent of both makes; and no tax makes goods cheaper (compute_landed_price).
LandedPriceAgrees ==
    sheet.tool = "price" /\ Readable =>
        LET goods == sheet.cost + sheet.other
            fee == Rate(sheet.rate)
            margin == Rate(sheet.margin)
            price == RetailPrice(goods, Rate(sheet.more), fee, fee, margin)
            landed == ShownLanded(goods, Rate(sheet.more), fee) IN
        /\ landed >= goods
        /\ price # 0 => 2 * Apart(Profit(price, landed, fee), margin * price) <= 2000 - fee - margin

\* A listing that has one thing less to complain of does not score lower, and neither does a text
\* that breaks one rule less (_diagnose_title_rule, score_listing_health, _scan_compliance_rule).
BetterScoresHigher ==
    sheet.tool = "listing" =>
        LET fewer == AtLeast(0, sheet.untitled - 1)
            better == {[sheet EXCEPT !.brand = TRUE],
                       [sheet EXCEPT !.repeated = 0],
                       [sheet EXCEPT !.untitled = fewer, !.missing = AtMost(@, fewer)],
                       [sheet EXCEPT !.missing = IF sheet.bullets > 0 THEN AtLeast(0, @ - 1) ELSE @],
                       [sheet EXCEPT !.short = AtLeast(0, @ - 1)],
                       [sheet EXCEPT !.bullets = @ + 1]} IN
        /\ \A other \in better : ListingScore(sheet) <= ListingScore(other)
        /\ RuleScore(sheet.missing + 1, sheet.repeated) <= RuleScore(sheet.missing, sheet.repeated)

\* What is worse for a newcomer (cheaper, more reviews, a better rank, more
\* sales, fewer offers) is never judged greener (_public_asin_quick_risk_assessment).
WorseIsNeverGreener ==
    sheet.tool = "verdict" =>
        /\ \A n \in Prices \ {Unknown} : n <= sheet.price => Light(sheet) <= Light([sheet EXCEPT !.price = n])
        /\ \A n \in Reviews \ {Unknown} : n >= sheet.reviews => Light(sheet) <= Light([sheet EXCEPT !.reviews = n])
        /\ \A n \in Ranks \ {Unknown} : n <= sheet.rank => Light(sheet) <= Light([sheet EXCEPT !.rank = n])
        /\ \A n \in Sales \ {Unknown} : n >= sheet.sales => Light(sheet) <= Light([sheet EXCEPT !.sales = n])
        /\ \A n \in Offers \ {Unknown} : n <= sheet.offers => Light(sheet) <= Light([sheet EXCEPT !.offers = n])

\* All of them: what one calculator says, another does not contradict.
CalculatorsAgree ==
    PricesAgree /\ AcosAgrees /\ LandedPriceAgrees /\ BetterScoresHigher /\ WorseIsNeverGreener
=============================================================================

---------------------------- MODULE MarketScores ----------------------------
(***************************************************************************)
(* The scores of the two tools of Sourcing: domains/tiktok_shop_opportunity*)
(* and domains/onebound_1688_sourcing, scoring.py.  Each gives several     *)
(* verdicts on one product, and computes them apart from each other.       *)
(*                                                                         *)
(* Scores are in hundredths.  What the texts of a product say is a set of  *)
(* risks; the prices of offers are narrow or not.                          *)
(***************************************************************************)
EXTENDS Integers

CONSTANTS Found, Overlaps,      \* how many things a call finds; shares in percent
          Offers, Moqs          \* numbers of offers, least quantities

VARIABLE sample   \* what is scored

(***************************************************************************)
(* TikTok: what is found, the share of the words that are trends, and what *)
(* speaks against a product.                                               *)
(***************************************************************************)
Bounded(x, top) == IF x < 0 THEN 0 ELSE IF x > top THEN top ELSE x
Given(yes, points) == IF yes THEN points ELSE 0

\* score_opportunity: n counts what was found of each kind, overlap is in percent.
Opportunity(n, overlap, concentration) ==
    LET heat == Bounded(600 * n.words + 35 * overlap, 10000)
        momentum == Bounded(400 * n.hot + 200 * n.search + 300 * n.details, 10000)
        content == Bounded(800 * n.posts + 40 * overlap, 10000)
        penalty == CASE concentration = "high" -> 1800 [] concentration = "medium" -> 800
                     [] concentration = "low" -> 0 [] OTHER -> 500
    IN  Bounded((30 * heat + 35 * momentum + 25 * content) \div 100 - penalty, 10000)

\* _infer_seller_fit
Risks(n, concentration, risks) ==
    risks \cup (IF n.search = 0 /\ n.details = 0 THEN {"shop_evidence_missing"} ELSE {})
          \cup (IF concentration = "high" THEN {"brand_dominated"} ELSE {})

Penalty(r) ==
    CASE r = "shop_evidence_missing" -> 18 [] r = "brand_dominated" -> 25 [] r = "ad_cost_risk" -> 18
      [] r = "ip_sensitive" -> 30 [] r = "logistics_risk" -> 16 [] r = "compliance_risk" -> 20

RiskKinds == {"shop_evidence_missing", "brand_dominated", "ad_cost_risk", "ip_sensitive",
              "logistics_risk", "compliance_risk"}

Penalties(rs) ==
    LET sum[S \in SUBSET RiskKinds] ==
            IF S = {} THEN 0 ELSE LET r == CHOOSE x \in S : TRUE IN Penalty(r) + sum[S \ {r}]
    IN  sum[rs]

FitScore(n, overlap, concentration, risks) ==
    Bounded(4800 + (35 * Opportunity(n, overlap, concentration)) \div 100
                 + Given(n.search > 0, 1600) + Given(n.details > 0, 1000)
                 + Given(n.hot > 0, 800) + Given(n.posts > 0, 400)
                 - 100 * Penalties(Risks(n, concentration, risks)), 10000)

Fit(n, overlap, concentration, risks) ==
    LET score == FitScore(n, overlap, concentration, risks)
        rs == Risks(n, concentration, risks)
    IN  IF n.hot + n.search + n.details + n.posts = 0 THEN "unknown"
        ELSE IF score >= 7000 /\ rs \cap {"brand_dominated", "ip_sensitive", "compliance_risk"} = {}
        THEN IF "shop_evidence_missing" \in rs THEN "caution" ELSE "good"
        ELSE IF score >= 4200 THEN "caution" ELSE "poor"

\* _infer_evidence_profile, from the sources that run_tiktok_opportunity names.
Level(n) ==
    IF n.search > 0 \/ n.details > 0 THEN "strong"
    ELSE IF n.hot > 0 THEN "medium"
    ELSE IF n.trends > 0 \/ n.posts > 0 THEN "weak"
    ELSE "insufficient"

(***************************************************************************)
(* 1688: verdicts on suppliers, from counts of what was offered.  score is *)
(* the average of the single scores.                                       *)
(***************************************************************************)
\* _single_supplier_score, in hundredths; reliability is the average of the scores of the seller
\* on a scale to 5, or -1.
SupplierScore(o) ==
      25 * (IF o.price > 0 THEN 80 ELSE 20)
    + 20 * (IF o.moq <= 0 THEN 40 ELSE IF o.moq <= 50 THEN 90 ELSE IF o.moq <= 300 THEN 60 ELSE 20)
    + 20 * (IF o.reliability < 0 THEN 45 ELSE IF o.reliability * 20 < 30 THEN 30 ELSE Bounded(o.reliability * 20, 100))
    + 15 * (IF o.sold > 0 THEN 85 ELSE 35)
    + 10 * 50 + 10 * 70

\* Two kinds of offers in equal numbers; none give an average of 0.
OfferKinds == [price : {0, 1}, moq : Moqs, reliability : {4}, sold : {0, 1}]
Averages == {(SupplierScore(a) + SupplierScore(b)) \div 2 : a, b \in OfferKinds}

Crowding(n) ==
    IF n.offers >= 60 \/ n.suppliers >= 30 THEN "high"
    ELSE IF n.offers >= 20 \/ n.suppliers >= 10 THEN "medium"
    ELSE IF n.offers > 0 THEN "low" ELSE "unknown"

Copyable(n) == n.offers >= 30 /\ n.lowMoq >= 10 /\ n.narrow

RiskScore(n) ==
      (CASE Crowding(n) = "high" -> 30 [] Crowding(n) = "medium" -> 18 [] OTHER -> 0)
    + Given(Copyable(n), 25) + Given(n.moq > 300, 25)
    + Given(n.score < 4500, 20) + Given(n.sold = 0, 10)

Risk(n) ==
    IF n.offers = 0 THEN "unknown"
    ELSE IF RiskScore(n) >= 70 THEN "exclude"
    ELSE IF RiskScore(n) >= 35 THEN "caution" ELSE "pass"

Feasibility(n) ==
    IF n.suppliers = 0 THEN "unknown"
    ELSE IF Risk(n) = "exclude" THEN "not_feasible"
    ELSE IF n.score >= 6500 /\ n.lowMoq >= 3 THEN "feasible" ELSE "limited"
-----------------------------------------------------------------------------
(***************************************************************************)
(* A product is scored, and then another.                                  *)
(***************************************************************************)
NoSample == [tool |-> "none"]

ScoreShop ==
    \E w, h, s, d, p, t \in Found, overlap \in Overlaps,
       c \in {"high", "medium", "low", "unknown"}, rs \in SUBSET {"ip_sensitive", "logistics_risk"} :
        /\ overlap > 0 => t > 0 /\ w > 0
        /\ (h = 0 /\ s = 0) => c = "unknown"
        /\ sample' = [tool |-> "tiktok", overlap |-> overlap, concentration |-> c, risks |-> rs,
                      n |-> [words |-> w, hot |-> h, search |-> s, details |-> d, posts |-> p, trends |-> t]]

ScoreSuppliers ==
    \E o, m, l, sold \in Offers, moq \in Moqs, score \in Averages \cup {0}, narrow \in BOOLEAN :
        /\ m <= o /\ l <= o /\ sold <= o
        /\ o = 0 <=> score = 0
        /\ o = 0 => moq = -1
        /\ sample' = [tool |-> "1688", n |-> [offers |-> o, suppliers |-> m, lowMoq |-> l, sold |-> sold,
                                             moq |-> moq, score |-> score, narrow |-> narrow]]

Init == sample = NoSample
Next == IF sample = NoSample THEN ScoreShop \/ ScoreSuppliers ELSE sample' = NoSample
Spec == Init /\ [][Next]_sample

Rank(fit) == CASE fit = "good" -> 3 [] fit = "caution" -> 2 [] fit = "poor" -> 1 [] OTHER -> 0

(***************************************************************************)
(* The verdicts on a product of TikTok agree with each other: one that is  *)
(* recommended for a trial has strong evidence, one without evidence is    *)
(* judged by nobody, and neither a risk more nor a product less makes a    *)
(* product fitter (score_opportunity, _infer_seller_fit,                   *)
(* _infer_evidence_profile).                                               *)
(***************************************************************************)
ShopVerdictsAgree ==
    sample.tool = "tiktok" =>
        LET n == sample.n
            fit(m, rs) == Fit(m, sample.overlap, sample.concentration, rs)
            mine == fit(n, sample.risks)
        IN  /\ mine = "good" => Level(n) = "strong"
            /\ Level(n) = "insufficient" => mine = "unknown"
            /\ \A r \in RiskKinds : Rank(fit(n, sample.risks \cup {r})) <= Rank(mine)
            /\ \A k \in {"search", "details", "posts"}, less \in Found :
                  less < n[k] => Rank(fit([n EXCEPT ![k] = less], sample.risks)) <= Rank(mine)

(***************************************************************************)
(* The verdicts on suppliers agree: none is feasible that the risks        *)
(* exclude, the risk is unknown exactly without offers, and fewer offers   *)
(* of fewer suppliers are never the greater risk (score_supplier_result).  *)
(***************************************************************************)
SupplierVerdictsAgree ==
    sample.tool = "1688" =>
        LET n == sample.n IN
        /\ Feasibility(n) = "feasible" => Risk(n) \in {"pass", "caution"} /\ n.offers >= 3
        /\ Risk(n) = "unknown" <=> n.offers = 0
        /\ Risk(n) = "unknown" => Feasibility(n) = "unknown"
        /\ \A o \in Offers : o > 0 /\ o <= n.offers /\ n.lowMoq <= o =>
              RiskScore([n EXCEPT !.offers = o]) <= RiskScore(n)

VerdictsAgree == ShopVerdictsAgree /\ SupplierVerdictsAgree
=============================================================================

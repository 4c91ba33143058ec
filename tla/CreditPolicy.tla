----------------------------- MODULE CreditPolicy -----------------------------
(***************************************************************************)
(* The two deterministic policies of the marketplace: how well a demand    *)
(* fits a funding product, and what the declared data of a demand, its     *)
(* dossier, say of its risk.  Amounts are whole numbers, declared ratios   *)
(* are hundredths, and a datum that was not given is NotGiven.             *)
(***************************************************************************)
EXTENDS Integers

CONSTANT NotGiven

-----------------------------------------------------------------------------
(* Matching *)

\* _overlap: an empty list restricts nothing.
Overlap(left, right) == left = {} \/ right = {} \/ left \cap right # {}

Fit(d, p) ==
    [type       |-> p.type \in {d.type, "all"},
     ticket     |-> d.amount \in p.minTicket..p.maxTicket,
     term       |-> d.term \in p.minTerm..p.maxTerm,
     collateral |-> Overlap(d.collateral, p.collateral),
     sectors    |-> Overlap(d.sectors, p.sectors),
     regions    |-> Overlap(d.regions, p.regions),
     stage      |-> p.stages = {} \/ d.stage \in p.stages]

\* Of a hundred points, what each criterion that is met gives.
MatchScore(d, p) ==
    LET fit == Fit(d, p)
        given(holds, points) == IF holds THEN points ELSE 0
    IN    given(fit.type, 25) + given(fit.ticket, 20)
        + given(fit.term, 15) + given(fit.collateral, 15)
        + given(fit.sectors, 10) + given(fit.regions, 10) + given(fit.stage, 5)

\* Mutant: the threshold is one criterion too low.
EligibleEarly(d, p) == MatchScore(d, p) >= 55

Eligible(d, p) == MatchScore(d, p) >= 60

-----------------------------------------------------------------------------
(* Risk *)

RequiredDocuments == {"FINANCIAL_STATEMENTS", "CORPORATE_DOCUMENTS"}

\* A declared ratio, or the one two amounts give, as <<numerator, denominator>>.
Ratio(declared, num, den) ==
    IF declared # NotGiven THEN <<declared, 100>>
    ELSE IF num # NotGiven /\ den # NotGiven /\ den > 0 THEN <<num, den>>
    ELSE NotGiven

Coverage(x) == Ratio(x.dscr, x.revenue, x.debtService)
Leverage(x) == Ratio(NotGiven, x.debt, x.ebitda)
LoanToValue(x) == Ratio(x.ltv, x.amount, x.collateralValue)

\* ratio <= percent / 100
UpTo(ratio, percent) == 100 * ratio[1] <= percent * ratio[2]
Reaches(ratio, percent) == 100 * ratio[1] >= percent * ratio[2]

Missing(x) ==
    \/ ~ RequiredDocuments \subseteq x.documents
    \/ NotGiven \in {Coverage(x), Leverage(x), LoanToValue(x)}
    \/ x.confidence = "MISSING"

\* Points of a ratio: full below its target, some below its limit.
Graded(ratio, target, limit, full, some) ==
    CASE ratio = NotGiven     -> 0
      [] UpTo(ratio, target)  -> full
      [] ~UpTo(ratio, target) /\ UpTo(ratio, limit) -> some
      [] OTHER                -> 0

RiskScore(x) ==
    LET given(holds, points) == IF holds THEN points ELSE 0
        cover == Coverage(x)
    IN    given(x.consent = "GRANTED", 10)
        + given(x.coherent, 15)
        + given(RequiredDocuments \subseteq x.documents, 15)
        + (IF cover = NotGiven THEN 0
           ELSE given(Reaches(cover, 100), 10) + given(Reaches(cover, 120), 10))
        + Graded(Leverage(x), 500, 700, 15, 7)
        + Graded(LoanToValue(x), 75, 85, 15, 7)
        + [HIGH |-> 10, MEDIUM |-> 6, LOW |-> 2, MISSING |-> 0][x.confidence]

\* Mutant: a gap only costs points.
GapsCostPoints(x) ==
    IF x.consent # "GRANTED" \/ ~x.coherent THEN "BLOCKED"
    ELSE IF RiskScore(x) >= 80 THEN "ELIGIBLE_FOR_REVIEW" ELSE "CONDITIONAL_REVIEW"

\* Hard gates first, then gaps, then the score.
RiskDecision(x) ==
    IF x.consent # "GRANTED" \/ ~x.coherent THEN "BLOCKED"
    ELSE IF Missing(x) THEN "INFORMATION_REQUIRED"
    ELSE IF RiskScore(x) >= 80 THEN "ELIGIBLE_FOR_REVIEW" ELSE "CONDITIONAL_REVIEW"

=============================================================================

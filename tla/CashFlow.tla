------------------------------- MODULE CashFlow -------------------------------
(***************************************************************************)
(* The arithmetic of a viability study: the monthly cash flow of a         *)
(* development, the loan that funds its construction, and what is reported *)
(* of them.  One step is one turn of the loop over the months.             *)
(*                                                                         *)
(* Amounts are whole numbers of cents and every division is exact in the   *)
(* plans of an instance, so that rounding plays no part.  The monthly      *)
(* rates, which the program takes as twelfth roots of annual ones, are     *)
(* whole numbers too; present values are in money of the last month.       *)
(***************************************************************************)
EXTENDS Integers, Sequences, FiniteSetsExt

CONSTANTS
    Plans,        \* bound: what is calculated
    Shocks        \* bound: the <<variable, size>> of a sensitivity analysis

VARIABLES
    plan,         \* what is calculated
    flow,         \* the months done so far
    debt, remaining,                \* of the loan: owed, not yet drawn
    cumulative, unlevered,          \* cash so far, and cash of the project alone
    lowest,                         \* of cumulative before equity, at most 0
    value, unleveredValue,          \* present values so far
    report        \* what is reported; <<>>: not yet

cashVars == <<plan, flow, debt, remaining, cumulative, unlevered, lowest, value, unleveredValue, report>>

-----------------------------------------------------------------------------
(* Inputs *)

\* pct, in hundredths: more than one is a percentage, up to one a fraction.
Percent(v) == IF v > 1 THEN v ELSE 100 * v

Padded(values, n) == [i \in 1..n |-> IF i <= Len(values) THEN values[i] ELSE 0]

\* The sum of the first n values.
Total(values, n) ==
    LET sum[i \in 0..n] == IF i = 0 THEN 0 ELSE sum[i - 1] + values[i]
    IN  sum[n]

\* normalized_curve: the months after the last are cut off before the sum is
\* taken, and a curve without weight is an even one over the first months.
Weights(curve, n, default) ==
    LET given == Padded([i \in DOMAIN curve |-> Percent(curve[i])], n)
    IN  IF Total(given, n) > 0 THEN given
        ELSE [i \in 1..n |-> IF i <= Max({1, Min({n, default})}) THEN 1 ELSE 0]

\* _schedule
Spread(total, curve, n, default) ==
    LET weights == Weights(curve, n, default)
    IN  [i \in 1..n |-> (total * weights[i]) \div Total(weights, n)]

Revenue(p) == IF p.vgv > 0 THEN p.vgv ELSE p.units * p.unitPrice

Construction(p) ==
    IF p.construction = 0 /\ p.area > 0
    THEN (p.area * p.costPerArea * (100 + Percent(p.bdi))) \div 100
    ELSE p.construction

Revenues(p) ==
    IF p.cashSchedule # <<>> THEN Padded(p.cashSchedule, p.months)
    ELSE Spread(Revenue(p), p.absorption, p.months, p.absorptionMonths)

Works(p) == Spread(Construction(p), p.curve, p.months, p.constructionMonths)

Others(p) == Spread(p.other, <<>>, p.months, p.months)

Land(p) == Padded(IF p.landSchedule # <<>> THEN p.landSchedule ELSE <<p.land>>, p.months)

\* The share of the construction that is funded, in hundredths.
Share(p) == Min({100, Percent(p.funding)})

FundingCap(p) == (Construction(p) * Share(p)) \div 100

\* sensitivity_matrix; a delayed curve is cut off like any other.
Shocked(p, variable, size) ==
    CASE variable = "price" -> [p EXCEPT !.vgv = (@ * (100 + size)) \div 100]
      [] variable = "construction_cost" -> [p EXCEPT !.construction = (@ * (100 + size)) \div 100]
      [] variable = "delay_months" -> [p EXCEPT !.curve = [i \in 1..size |-> 0] \o @]

Calculated == Plans \cup {Shocked(p, shock[1], shock[2]) : p \in Plans, shock \in Shocks}

\* Nothing that is counted or weighed is negative, and instalments are whole.
ASSUME PlanAssumption ==
    \A p \in Calculated :
        /\ p.months \in Nat \ {0}
        /\ \A f \in {"constructionMonths", "vgv", "units", "unitPrice", "absorptionMonths",
                     "land", "other", "construction", "area", "costPerArea", "bdi",
                     "funding", "grace", "amortization", "rate", "discount"} : p[f] \in Nat
        /\ \A f \in {"absorption", "curve"} : p[f] \in Seq(Nat)
        /\ \A f \in {"cashSchedule", "landSchedule", "equity"} : p[f] \in Seq(Int)
        /\ p.amortization > 0 => FundingCap(p) % p.amortization = 0

-----------------------------------------------------------------------------

CashInit ==
    /\ plan \in Calculated
    /\ flow = <<>> /\ report = <<>>
    /\ debt = 0
    /\ remaining = FundingCap(plan)
    /\ cumulative = 0 /\ unlevered = 0 /\ lowest = 0
    /\ value = 0 /\ unleveredValue = 0

\* Mutant: the interest of a month is that of the debt at its end.
InterestAtEnd(draw, repaid) == (debt + draw - repaid) * plan.rate

Interest(draw, repaid) == debt * plan.rate

\* Mutant: the instalment is what is left over the months.
InstalmentOfDebt(i) ==
    IF plan.amortization > 0 /\ i > plan.grace
    THEN debt \div plan.amortization ELSE 0

\* Repaid in month i, of what was owed when it began.
Instalment(i) ==
    IF plan.amortization > 0 /\ i > plan.grace
    THEN Min({FundingCap(plan) \div plan.amortization, debt}) ELSE 0

\* Mutant: the lowest point is looked for after the contributions.
LowestAfterEquity(now, given) == Min({lowest, now})

\* The lowest point without the equity given so far.
Lowest(now, given) == Min({lowest, now - given})

Month ==
    LET i == Len(flow) + 1
        draw == Min({(Works(plan)[i] * Share(plan)) \div 100, remaining})
        repaid == Instalment(i)
        interest == Interest(draw, repaid)
        project == Revenues(plan)[i] - Land(plan)[i] - Works(plan)[i] - Others(plan)[i]
        equity == Padded(plan.equity, plan.months)
        net == project + draw - interest - repaid + equity[i]
    IN  /\ i <= plan.months
        /\ remaining' = remaining - draw
        /\ debt' = Max({0, debt + draw - repaid})
        /\ cumulative' = cumulative + net
        /\ unlevered' = unlevered + project
        /\ lowest' = Lowest(cumulative', Total(equity, i))
        /\ value' = value * (1 + plan.discount) + net
        /\ unleveredValue' = unleveredValue * (1 + plan.discount) + project
        /\ flow' = Append(flow, [draw |-> draw, repaid |-> repaid, interest |-> interest,
                                 net |-> net, cumulative |-> cumulative', debt |-> debt',
                                 value |-> value'])
        /\ UNCHANGED <<plan, report>>

\* The first month that qualifies; 0: none does.
First(months) == IF months = {} THEN 0 ELSE Min(months)

\* The least equity of the project alone is taken in the same way and left out.
Report ==
    /\ Len(flow) = plan.months
    /\ report = <<>>
    /\ report' =
          [requiredEquity    |-> Max({0, -lowest}),
           totalInterest     |-> Total([i \in DOMAIN flow |-> flow[i].interest], Len(flow)),
           npv               |-> value,
           unleveredNpv      |-> unleveredValue,
           payback           |-> First({i \in DOMAIN flow : flow[i].cumulative >= 0}),
           discountedPayback |-> First({i \in DOMAIN flow : flow[i].value >= 0}),
           minCumulative     |-> Min({flow[i].cumulative : i \in DOMAIN flow})]
    /\ UNCHANGED <<plan, flow, debt, remaining, cumulative, unlevered, lowest, value, unleveredValue>>

CashNext == Month \/ Report

CashSpec == CashInit /\ [][CashNext]_cashVars

-----------------------------------------------------------------------------
(* Properties *)

Reported == report # <<>>

\* What month i brings before equity.
BeforeEquity(i) == flow[i].net - Padded(plan.equity, plan.months)[i]

CashBeforeEquity(i) == Total([k \in DOMAIN flow |-> BeforeEquity(k)], i)

\* The reported equity is the least that, given at the start, leaves no month
\* without cash, whatever contributions the plan already holds (calculate).
RequiredEquityIsTheLeast ==
    Reported =>
        /\ \A i \in DOMAIN flow : report.requiredEquity + CashBeforeEquity(i) >= 0
        /\ report.requiredEquity > 0 =>
              \E i \in DOMAIN flow : report.requiredEquity + CashBeforeEquity(i) = 0

LoansAreRepaid ==
    /\ debt = Total([i \in DOMAIN flow |-> flow[i].draw - flow[i].repaid], Len(flow))
    /\ debt >= 0 /\ remaining >= 0
    /\ (Reported /\ plan.amortization > 0) =>
          LET drawn == Max({0} \cup {i \in DOMAIN flow : flow[i].draw > 0})
          IN  Max({drawn, plan.grace}) + plan.amortization <= plan.months => debt = 0

\* What one unit of money becomes in k months.
Growth(rate, k) ==
    LET power[j \in 0..k] == IF j = 0 THEN 1 ELSE power[j - 1] * (1 + rate)
    IN  power[k]

\* The worth in month n of the equity given up to then.
EquityWorth(n) ==
    LET equity == Padded(plan.equity, plan.months)
    IN  Total([i \in 1..n |-> equity[i] * Growth(plan.discount, n - i)], n)

FinancingIsNeutral ==
    (Reported /\ plan.rate = plan.discount) =>
        report.npv - report.unleveredNpv = debt + EquityWorth(plan.months)

\* Every draw is either owed or repaid, no more is drawn than the plan funds,
\* and a loan whose instalments fit between its last draw and the horizon is
\* repaid in full, also when the grace ends before the works do.  A loan at the
\* discount rate is neither a gain nor a loss: the net present value exceeds
\* that of the project alone by the equity given and by the debt that is left
\* at the horizon, which the program does not deduct.
FinancingAddsUp == LoansAreRepaid /\ FinancingIsNeutral

=============================================================================

------------------------------ MODULE MCCashFlow ------------------------------
(***************************************************************************)
(* Small plans for CashFlow: curves that are given, cut off or missing,    *)
(* percentages and fractions, loans of every shape over a short horizon.   *)
(***************************************************************************)
EXTENDS CashFlow

Plan(months, curve, funding, grace, amortization, rate, discount, equity) ==
    [months |-> months, curve |-> curve, constructionMonths |-> 2,
     vgv |-> 1800, units |-> 3, unitPrice |-> 400, absorption |-> <<1, 50>>,
     absorptionMonths |-> 2, cashSchedule |-> <<>>,
     land |-> 300, landSchedule |-> <<>>, other |-> 120,
     construction |-> 1200, area |-> 6, costPerArea |-> 100, bdi |-> 100,
     funding |-> funding, grace |-> grace, amortization |-> amortization,
     rate |-> rate, discount |-> discount, equity |-> equity]

\* Where months differ, a curve may be cut off; funding of 1 is all of it.
Loans ==
    {Plan(months, curve, funding, grace, amortization, rate, discount, equity) :
        months \in {2, 4}, curve \in {<<>>, <<50, 50>>, <<0, 1, 50>>, <<20, 0, 0, 20>>},
        funding \in {0, 1, 50, 150}, grace \in 0..2, amortization \in 0..2,
        rate \in 0..1, discount \in 0..1, equity \in {<<>>, <<200, 0, 100>>}}

\* Totals that are derived, schedules that replace curves.
Derived ==
    {[[[p EXCEPT !.vgv = 0] EXCEPT !.construction = 0] EXCEPT !.absorption = <<>>] :
        p \in {q \in Loans : q.months = 4 /\ q.funding = 50}}

Scheduled ==
    {[[p EXCEPT !.cashSchedule = <<0, 0, 900, 900, 900>>] EXCEPT !.landSchedule = <<100, 200>>] :
        p \in {q \in Loans : q.months = 4 /\ q.funding = 50}}

MCPlans == Loans \cup Derived \cup Scheduled

MCShocks == {<<"price", -10>>, <<"construction_cost", 50>>, <<"delay_months", 1>>, <<"delay_months", 5>>}

=============================================================================

\* Loans of every shape over two and four months.
SPECIFICATION CashSpec
CONSTANTS
    Plans <- MCPlans
    Shocks <- MCShocks
\* A calculation ends.
CHECK_DEADLOCK FALSE
INVARIANTS RequiredEquityIsTheLeast FinancingAddsUp

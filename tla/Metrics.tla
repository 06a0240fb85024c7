------------------------------- MODULE Metrics -------------------------------
(***************************************************************************)
(* The metrics of domain/analytics.py, on exact fractions where the code   *)
(* has floats, and what domain/insights.py makes of those that are None.  A*)
(* period return r is given by its growth 1 + r, a fraction of positive    *)
(* integers.                                                               *)
(***************************************************************************)
EXTENDS Integers, Sequences, FiniteSetsExt

Fraction(num, den) == [num |-> num, den |-> den]
One == Fraction(1, 1)
Product(f, g) == Fraction(f.num * g.num, f.den * g.den)
Over(f, g) == Fraction(f.num * g.den, f.den * g.num)
Less(f, g) == f.num * g.den < g.num * f.den
Same(f, g) == f.num * g.den = g.num * f.den
Least(f, g) == IF Less(g, f) THEN g ELSE f
Greatest(f, g) == IF Less(f, g) THEN g ELSE f

(* The cumulative wealth after each period, 1 before the first.            *)
Wealth(growth) ==
  LET w[i \in 0..Len(growth)] == IF i = 0 THEN One ELSE Product(w[i - 1], growth[i])
  IN  w

(* calculate_compounded_return, for at least one period.                   *)
Compounded(growth) == Wealth(growth)[Len(growth)]

(* Mutant: the peak starts at the first wealth, a loss of the first period *)
(* is no drawdown.                                                         *)
DrawdownFromFirst(growth) ==
  LET w == Wealth(growth)
      pass[i \in 0..Len(growth)] ==
        IF i = 0 THEN [peak |-> IF growth = << >> THEN One ELSE w[1], worst |-> One]
        ELSE LET peak == Greatest(pass[i - 1].peak, w[i])
             IN  [peak |-> peak, worst |-> Least(pass[i - 1].worst, Over(w[i], peak))]
  IN  pass[Len(growth)].worst

(* calculate_max_drawdown_from_returns: one pass with the running peak; 1  *)
(* plus the drawdown, so that 1 is none.                                   *)
Drawdown(growth) ==
  LET w == Wealth(growth)
      pass[i \in 0..Len(growth)] ==
        IF i = 0 THEN [peak |-> One, worst |-> One]
        ELSE LET peak == Greatest(pass[i - 1].peak, w[i])
             IN  [peak |-> peak, worst |-> Least(pass[i - 1].worst, Over(w[i], peak))]
  IN  pass[Len(growth)].worst

(* The returns over their common denominator.                              *)
Common(growth) ==
  LET c[i \in 0..Len(growth)] == IF i = 0 THEN 1 ELSE c[i - 1] * growth[i].den
  IN  c[Len(growth)]
Scaled(growth, i) == (growth[i].num - growth[i].den) * (Common(growth) \div growth[i].den)

(* n(n-1) times the sample variance, over the squared denominator.         *)
Spread(growth) ==
  LET square(p) == (Scaled(growth, p[1]) - Scaled(growth, p[2])) *
                   (Scaled(growth, p[1]) - Scaled(growth, p[2]))
      pairs == {p \in (DOMAIN growth) \X (DOMAIN growth) : p[1] < p[2]}
  IN  SumFunction([p \in pairs |-> square(p)])

(* calculate_annualized_volatility and calculate_sharpe_ratio are None:    *)
(* stdev needs two returns, and the ratio a stdev above zero.              *)
NoVolatility(growth) == Len(growth) < 2
NoSharpe(growth) == Len(growth) < 2 \/ Spread(growth) = 0

(* The metrics that are None; the drawdown of returns is always a number.  *)
Missing(growth) ==
  {m \in {"volatility", "sharpe"} :
     \/ m = "volatility" /\ NoVolatility(growth)
     \/ m = "sharpe" /\ NoSharpe(growth)}

(* Mutant: only the volatility is looked at.                               *)
LimitationsOfVolatility(missing, stale) ==
  {l \in {"metric unavailable", "stale data"} :
     \/ l = "metric unavailable" /\ "volatility" \in missing
     \/ l = "stale data" /\ stale}

(* generate_deterministic_insight: what its limitations say beyond the     *)
(* three fixed ones.                                                       *)
Limitations(missing, stale) ==
  {l \in {"metric unavailable", "stale data"} :
     \/ l = "metric unavailable" /\ missing # {}
     \/ l = "stale data" /\ stale}
=============================================================================

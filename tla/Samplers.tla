------------------------------- MODULE Samplers -------------------------------
(***************************************************************************)
(* fusecraft-core/src/sampler: sample_fault and sample_latency_us as        *)
(* functions of a profile and the numbers that the generator draws.         *)
(*                                                                         *)
(* A draw is a uniform number in [0, 1), cut down to the two values 0 and   *)
(* 1/2 (in halves, 0 and 1): at 0 the code takes f64::MIN_POSITIVE, which   *)
(* gives the extremes of both distributions, at 1/2 something ordinary.     *)
(***************************************************************************)
EXTENDS Config

Draw == {0, 1}

\* Mutant: a draw equal to the rate fires.
FiresAtRate(u, rate) == LessEq(Fin(u), rate)

Fires(u, rate) == Less(Fin(u), rate)

\* One draw for each rule of the operation, in order; the first to fire wins.
sample_fault(rules, op, draws) ==
  LET matching == {i \in DOMAIN rules : rules[i].op = op}
      draw(i) == draws[Cardinality({j \in matching : j <= i})]
      firing == {i \in matching : Fires(draw(i), rules[i].rate)}
  IN  IF firing = {} THEN {} ELSE {rules[Min(firing)].errno}

-----------------------------------------------------------------------------
\* Box-Muller with u1 = 0 is 37 standard deviations out, up or down with the
\* sign of the cosine of u2; with u1 = 1/2 it stays near the median.
sample_standard_normal(u1, u2) == IF u1 # 0 THEN "near" ELSE IF u2 = 0 THEN "up" ELSE "down"

\* Far out, exp overflows or exceeds every max_us, or underflows.
sample_lognormal(median, sigma, u1, u2) ==
  IF LessEq(median, Zero) \/ LessEq(sigma, Zero) THEN Greatest(median, Zero)
  ELSE [near |-> median, up |-> Infinity, down |-> Zero][sample_standard_normal(u1, u2)]

\* xm / u^(1/alpha).  The power of MIN_POSITIVE underflows to 0.0 for alpha below
\* about 0.95, of the halves so for 0.5, and then 0.0 / 0.0 is NaN; otherwise it
\* is only tiny.
sample_pareto(xm, alpha, u) ==
  IF u # 0 THEN Times(xm, 2)
  ELSE IF xm = Zero /\ ~Less(alpha, One) THEN Zero ELSE OverZero(xm)

\* Lognormal body or, with probability pareto_weight, Pareto tail.  Without a
\* weight the draw that decides is not made.
Body(l, d) ==
  IF ~Less(Zero, l.pareto_weight)
  THEN sample_lognormal(l.lognormal_median_us, l.lognormal_sigma, d[1], d[2])
  ELSE IF Less(Fin(d[1]), l.pareto_weight)
  THEN sample_pareto(l.pareto_xm_us, l.pareto_alpha, d[2])
  ELSE sample_lognormal(l.lognormal_median_us, l.lognormal_sigma, d[2], d[3])

\* Mutant: no integer min after the one of f64, whose max_us may be rounded up.
LatencyUncapped(l, d) ==
  Rounded(Greatest(Least(Plus(Whole(l.base_us), Body(l, d)), Whole(l.max_us)), Zero))

sample_latency_us(l, d) ==
  LET total == Plus(Whole(l.base_us), Body(l, d))
      clamped == Greatest(Least(total, Whole(l.max_us)), Zero)
      rounded == Rounded(clamped)
  IN  IF rounded < l.max_us THEN rounded ELSE l.max_us
=============================================================================

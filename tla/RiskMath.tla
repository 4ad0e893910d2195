------------------------------ MODULE RiskMath ------------------------------
(***************************************************************************)
(* The arithmetic of RiskService.compute_risk (gcp_risk/service.py) in     *)
(* exact fractions <<n, d>>, d > 0, not reduced: where the code has floats, *)
(* rounding is left out.  Volatility (a standard deviation times a square  *)
(* root) is not modelled.                                                  *)
(***************************************************************************)
EXTENDS Integers, SequencesExt

CONSTANTS
    Confidence,     \* of the value at risk, in percent: 95
    RollingWindow   \* returns in rolling_return_1d: 24

ASSUME ParametersAssumption ==
    Confidence \in 1..100 /\ RollingWindow \in Nat \ {0}

-----------------------------------------------------------------------------
(* Fractions.                                                              *)

Zero == <<0, 1>>
One  == <<1, 1>>

Plus(a, b)   == <<a[1] * b[2] + b[1] * a[2], a[2] * b[2]>>
Times(a, b)  == <<a[1] * b[1], a[2] * b[2]>>
Less(a, b)   == a[1] * b[2] < b[1] * a[2]
Same(a, b)   == a[1] * b[2] = b[1] * a[2]

Largest(S) == CHOOSE x \in S : \A y \in S : ~Less(x, y)
Lowest(S)  == CHOOSE x \in S : \A y \in S : ~Less(y, x)

\* a / b - 1, for b > 0.
Change(a, b) == <<a[1] * b[2] - b[1] * a[2], b[1] * a[2]>>

\* The elements of S from the first to the last, where Before orders them all.
InOrder(S, Before(_, _)) ==
    [k \in 1..Cardinality(S) |->
        CHOOSE i \in S : Cardinality({j \in S : Before(j, i)}) = k - 1]

-----------------------------------------------------------------------------
(* The return series.                                                      *)

\* _returns_for_symbol: a price that follows a zero price has no return.
Returns(prices) ==
    LET after == InOrder({i \in 2..Len(prices) : prices[i - 1] # 0}, <)
    IN  [k \in DOMAIN after |->
            Change(<<prices[after[k]], 1>>, <<prices[after[k] - 1], 1>>)]

\* The shortest non-empty series, 0 if there is none.
CommonLength(series) ==
    LET lengths == {Len(series[s]) : s \in DOMAIN series} \ {0}
    IN  IF lengths = {} THEN 0 ELSE Min(lengths)

\* Mutant: the series are aligned at their oldest return.
AlignedAtStart(series, length, i) == IF series = <<>> THEN Zero ELSE series[i]

\* series[index] for index from -length: the newest returns coincide.
Aligned(series, length, i) ==
    IF series = <<>> THEN Zero ELSE series[Len(series) - length + i]

\* weight maps the symbols of the positions to their weights.
PortfolioReturns(weight, prices) ==
    LET series == [s \in DOMAIN weight |-> Returns(prices[s])]
        length == CommonLength(series)
        terms(i) == [s \in DOMAIN weight |-> Times(weight[s], Aligned(series[s], length, i))]
    IN  [i \in 1..length |-> FoldFunction(Plus, Zero, terms(i))]

-----------------------------------------------------------------------------
(* The metrics.                                                            *)

\* Mutant: the index is rounded up.
TailIndexRoundedUp(length) == ((100 - Confidence) * length + 99) \div 100

\* int((1 - confidence) * length): the float product is not below the exact one.
TailIndex(length) == ((100 - Confidence) * length) \div 100

\* sorted(returns): of equal returns, the earlier one stays ahead.
Sorted(returns) ==
    LET before(j, i) == \/ Less(returns[j], returns[i])
                        \/ ~Less(returns[i], returns[j]) /\ j < i
        order == InOrder(DOMAIN returns, before)
    IN  [k \in DOMAIN returns |-> returns[order[k]]]

\* _historical_var; TLA+ sequences start at 1.
HistoricalVaR(returns) ==
    IF returns = <<>> THEN Zero
    ELSE Sorted(returns)[Min({Len(returns), TailIndex(Len(returns)) + 1})]

\* Mutant: the curve starts with the 1.0 ahead of the first return.
EquityCurveFromOne(returns) ==
    LET equity[i \in 0..Len(returns)] ==
            IF i = 0 THEN One ELSE Times(equity[i - 1], Plus(One, returns[i]))
    IN  [i \in DOMAIN returns |-> equity[i - 1]]

EquityCurve(returns) ==
    LET equity[i \in 0..Len(returns)] ==
            IF i = 0 THEN One ELSE Times(equity[i - 1], Plus(One, returns[i]))
    IN  [i \in DOMAIN returns |-> equity[i]]

\* Mutant: the peak is that of the whole curve, not of the curve so far.
PeakOfAll(curve, i) == Largest({curve[j] : j \in DOMAIN curve})

Peak(curve, i) == Largest({curve[j] : j \in 1..i})

\* _max_drawdown raises ZeroDivisionError when a peak is zero.
DrawdownRaises(returns) ==
    LET curve == EquityCurve(returns)
    IN  \E i \in DOMAIN curve : Same(Peak(curve, i), Zero)

MaxDrawdown(returns) ==
    LET curve == EquityCurve(returns)
    IN  Lowest({Zero} \cup {Change(curve[i], Peak(curve, i)) : i \in DOMAIN curve})

\* returns[-window:]
Newest(returns) == SubSeq(returns, Max({1, Len(returns) - RollingWindow + 1}), Len(returns))

RollingReturn(returns) ==
    IF returns = <<>> THEN Zero
    ELSE Plus(Last(EquityCurve(Newest(returns))), <<-1, 1>>)

=============================================================================

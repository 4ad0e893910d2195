----------------------------- MODULE MCRiskMath -----------------------------
(***************************************************************************)
(* compute_risk on every short price history of two symbols, against what  *)
(* the metrics mean in terms of the prices themselves; and the value at    *)
(* risk on long series: every multiset of returns from a small set, given  *)
(* in descending order (the worst case for a sort), beyond the lengths at  *)
(* which the index of the tail moves.                                      *)
(***************************************************************************)
EXTENDS RiskMath

CONSTANTS
    Asset,          \* the symbols of the portfolio
    Price,          \* prices of the instance, 0 included
    MaxPrices,      \* bound: prices per symbol
    Value,          \* returns of the long series
    MaxReturns      \* bound: how many of them

ASSUME InputsAssumption ==
    IsFiniteSet(Asset) /\ Asset # {} /\ Price \subseteq Nat /\ Value \subseteq Int

VARIABLES
    prices,         \* the prices of events_by_symbol, oldest first
    returns         \* a long series of returns

inputs == <<prices, returns>>

NoInput == prices = [s \in Asset |-> <<>>] /\ returns = <<>>

IngestEvent(s, p) ==
    /\ returns = <<>>
    /\ Len(prices[s]) < MaxPrices
    /\ prices' = [prices EXCEPT ![s] = Append(@, p)]
    /\ UNCHANGED returns

\* A long series is built while there are no prices: either, never both.
AddReturn(v) ==
    /\ \A s \in Asset : prices[s] = <<>>
    /\ Len(returns) < MaxReturns
    /\ \A i \in DOMAIN returns : v <= returns[i][1]
    /\ returns' = Append(returns, <<v, 1>>)
    /\ UNCHANGED prices

MoreInput == \/ \E s \in Asset, p \in Price : IngestEvent(s, p)
             \/ \E v \in Value : AddReturn(v)

Inputs == NoInput /\ [][MoreInput]_inputs

-----------------------------------------------------------------------------

\* A portfolio of equal parts, and one of a single symbol.
Equal   == [s \in Asset |-> <<1, 2>>]
Only(s) == [x \in {s} |-> One]

Positive(s) == 0 \notin ToSet(prices[s])
Newer(s, n) == SubSeq(prices[s], Len(prices[s]) - n + 1, Len(prices[s]))

\* The portfolio's returns depend only on the newest prices of each symbol, as
\* many as the symbol with the shortest history has: a longer history of one
\* symbol shifts nothing against another.
OnlyCommonTailMatters ==
    LET n == Min({Len(prices[s]) : s \in Asset})
    IN  n > 1 /\ (\A s \in Asset : Positive(s)) =>
            PortfolioReturns(Equal, prices)
                = PortfolioReturns(Equal, [s \in Asset |-> Newer(s, n)])

\* A position that has no return yet is flat: the portfolio moves by what the
\* other positions do, as far back as they go.
NewPositionIsFlat ==
    \A s \in Asset : (\A x \in Asset \ {s} : Len(prices[x]) < 2) =>
        LET own   == Returns(prices[s])
            total == PortfolioReturns(Equal, prices)
        IN  /\ DOMAIN total = DOMAIN own
            /\ \A i \in DOMAIN own : Same(total[i], Times(<<1, 2>>, own[i]))

\* Both: how positions of unequal age are paired.
AlignedAtNewest == OnlyCommonTailMatters /\ NewPositionIsFlat

\* The drawdown of a single symbol is the worst fall from one price to a later
\* one, not counting the first price, from which the curve starts.
DrawdownOfPrices ==
    \A s \in Asset : Positive(s) =>
        LET p == prices[s]
            later == {Change(<<p[x[2]], 1>>, <<p[x[1]], 1>>) :
                          x \in {y \in (2..Len(p)) \X (2..Len(p)) : y[1] <= y[2]}}
        IN  Same(MaxDrawdown(PortfolioReturns(Only(s), prices)),
                 IF later = {} THEN Zero ELSE Lowest(later))

\* The rolling return of a single symbol is its newest price relative to the
\* one RollingWindow prices before, or the oldest there is.
RollingOfPrices ==
    \A s \in Asset : Positive(s) /\ prices[s] # <<>> =>
        Same(RollingReturn(PortfolioReturns(Only(s), prices)),
             Change(<<Last(prices[s]), 1>>,
                    <<prices[s][Max({1, Len(prices[s]) - RollingWindow})], 1>>))

\* Both metrics say of the returns what they claim to say of the prices.
MetricsOfPrices == DrawdownOfPrices /\ RollingOfPrices

\* Of a single symbol with prices that are never negative, compute_risk raises
\* exactly when its first positive price is followed by 0: a total loss at any
\* other place is a drawdown of 100%.
RaisesOnlyOnTotalLoss ==
    \A s \in Asset :
        LET positive == {i \in DOMAIN prices[s] : prices[s][i] # 0}
            series   == PortfolioReturns(Only(s), prices)
        IN  /\ DrawdownRaises(series) <=>
                   positive # {} /\ Min(positive) + 1 \in DOMAIN prices[s] \ positive
            /\ (\E i \in DOMAIN series : Same(series[i], <<-1, 1>>))
                    /\ ~DrawdownRaises(series)
                   => Same(MaxDrawdown(series), <<-1, 1>>)

\* The value at risk is the quantile it claims to be: at most 5% of the
\* returns are worse, and more than 5% are that bad or worse.
VaRIsQuantile ==
    returns # <<>> =>
        LET var   == HistoricalVaR(returns)
            worse == Cardinality({i \in DOMAIN returns : Less(returns[i], var)})
            upTo  == Cardinality({i \in DOMAIN returns : ~ Less(var, returns[i])})
        IN  /\ 100 * worse <= (100 - Confidence) * Len(returns)
            /\ 100 * upTo > (100 - Confidence) * Len(returns)

=============================================================================

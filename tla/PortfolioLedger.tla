--------------------------- MODULE PortfolioLedger ---------------------------
(***************************************************************************)
(* The arithmetic of services/portfolio_ledger.py: what one fill moves.    *)
(*                                                                         *)
(* Prices are ticks, `one` of which make a dollar.  A notional is in ticks *)
(* times shares.  A fee is counted in the 0.00001 dollars it is rounded    *)
(* to: `unit` is the raw fee, in whole numbers, that makes one of them.    *)
(***************************************************************************)
EXTENDS Integers

\* Decimal.quantize(..., ROUND_HALF_UP) of n / d, for n >= 0.
RoundHalfUp(n, d) == (2 * n + d) \div (2 * d)

\* PolymarketFeePolicy.calculate_fee for a TAKER fill, the only kind the fill
\* engine produces.
CalculateFee(rate, one, unit, price, size) ==
  RoundHalfUp(size * rate * price * (one - price), unit)

\* apply_fill with the sign of a SELL's proceeds lost.
CashDeltaUnsigned(side, fill) == fill.price * fill.size

\* apply_fill: a SELL brings its notional in, a BUY pays it.
CashDelta(side, fill) ==
  IF side = "SELL" THEN fill.price * fill.size ELSE -(fill.price * fill.size)

PositionDelta(side, fill) == IF side = "BUY" THEN fill.size ELSE -fill.size

=============================================================================

----------------------------- MODULE MCDispatch -----------------------------
(***************************************************************************)
(* Dispatch on small instances.  Two days and two providers give a staging *)
(* job several ingest jobs to wait for; the work items overlap in days or  *)
(* providers, so that some of them are refused.                            *)
(***************************************************************************)
EXTENDS Dispatch, TLC

CONSTANTS d1, d2

Item(first, last, providers, methods) ==
  [ticker |-> "spy", first |-> first, last |-> last,
   providers |-> providers, ibkrMethods |-> methods]

OneDay == Item(1, 1, <<"yfinance", Ibkr>>, <<"trades">>)
TwoDays == Item(1, 2, <<"yfinance">>, <<>>)
TwoMethods == Item(2, 2, <<Ibkr>>, <<"trades", "midpoint">>)
Repeated == Item(3, 3, <<"yfinance", "yfinance">>, <<>>)
Single == Item(1, 1, <<"yfinance">>, <<>>)

MCOneDispatcher == {d1}
MCTwoDispatchers == {d1, d2}
MCWorkItems == {OneDay, TwoDays, Repeated}
MCFewWorkItems == {Single, OneDay}
MCSingle == {Single}
MCCatchUp == {[kind |-> "catch-up", ticker |-> "all", first |-> 0, last |-> 0,
               provider |-> "any", method |-> NoMethod]}
MCNoRecurring == {}
=============================================================================

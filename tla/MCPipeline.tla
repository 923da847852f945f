----------------------------- MODULE MCPipeline -----------------------------
(***************************************************************************)
(* Instances of Pipeline for a Friday and the Saturday after it (days 2 and  *)
(* 3), with the Thursday before them or without it.                         *)
(***************************************************************************)
EXTENDS Pipeline

MCItem == [ticker |-> "t", first |-> 2, last |-> 3,
           providers |-> <<"yfinance", "ibkr">>, ibkrMethods |-> <<"trades", "bid_ask">>]

MCDay == 2 .. 3
MCThreeDays == 1 .. 3
MCWeekend == {3}

MCDefaultMethods ==
  [p \in {"yfinance", "ibkr"} |-> IF p = "ibkr" THEN <<"trades", "bid_ask">> ELSE <<"history">>]

\* What only trades were made for has a minute without quotes.
MCMinutes(m) == IF m = "bid_ask" THEN {"day"} ELSE {"day", "late"}

MCSource ==
  [p \in {"yfinance", "ibkr"} |->
    [m \in {"history", "trades", "bid_ask"} |->
      [d \in MCThreeDays |-> IF d = 3 THEN {} ELSE MCMinutes(m)]]]

\* yfinance is still adding minutes of the Friday.
MCUnfinished == {<<"yfinance", 2>>}

MCFinished == {}

\* A catch-up of both tools, for the provider that is still adding minutes.
MCByHand ==
  {[tool |-> tool, days |-> {2}, combos |-> {<<"yfinance", "history">>}] : tool \in {"ingest", "stage"}}
=============================================================================

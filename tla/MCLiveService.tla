--------------------------- MODULE MCLiveService ---------------------------
(* Instances of LiveService for model checking. *)
EXTENDS LiveService
Market(type, date, symbol) ==
  [type |-> type, update |-> [date |-> date, symbols |-> {symbol}]]
CONSTANTS sym1, sym2, today, tomorrow
\* Bars of a held symbol and of another, trades, a bar that is dated after
\* midnight UTC, and what is no update.
FeedMessages ==
  {Market("quote_bar_batch_refresh", today, sym1),
   Market("quote_bar_batch_refresh", today, sym2),
   Market("quote_bar_batch_refresh", tomorrow, sym1),
   [type |-> "status"], [type |-> "disconnect"]}
StreamTypes == {"quote_bar_batch_refresh"}
=============================================================================

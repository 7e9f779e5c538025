---------------------------- MODULE MCPaperTrading ----------------------------
(* Small instances of PaperTrading. *)
EXTENDS PaperTrading, TLC

Buy(q, l) == [side |-> "BUY", market |-> FALSE, quantity |-> q, limit |-> l]
Sell(q, l) == [side |-> "SELL", market |-> FALSE, quantity |-> q, limit |-> l]
BuyAtMarket(q, bound) == [Buy(q, bound) EXCEPT !.market = TRUE]
Shows(s, p, d) == [side |-> s, price |-> p, depth |-> d]

OrderSymmetry == Permutations(Order)

Drafts == {Buy(2, 2), BuyAtMarket(1, 2), Sell(2, 1)}
Levels == {Shows("BUY", 2, 1), Shows("BUY", 1, 2), Shows("SELL", 1, 1)}
OneDeposit == {9}

=============================================================================

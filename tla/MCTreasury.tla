----------------------------- MODULE MCTreasury -----------------------------
(* A small instance of Treasury for TLC. *)
EXTENDS Treasury

Row(id, day, amount, account, word, ai) ==
  [id |-> id, day |-> day, amount |-> amount, account |-> account, word |-> word, ai |-> ai]
(* A card bill and a purchase on the card of the same day, an income, a    *)
(* subscription, and a row of the next month.                              *)
SomeRows == {Row(1, 2, -30, "BANK", "fatura", "Other"), Row(2, 2, -20, "CREDIT", "fatura", "Food"),
  Row(3, 3, 90, "BANK", "none", "Income"), Row(4, 3, -10, "BANK", "netflix", "Other"),
  Row(5, 5, -40, "BANK", "none", "Food")}
(* Two banks of which the first sync of one failed after its claim, and an *)
(* account left behind by an unlink where foreign keys are not enforced.   *)
OneAccount == [id |-> 1, bank |-> "b1", balance |-> 50]
TwoAccounts == {[OneAccount EXCEPT !.balance = -20], [id |-> 2, bank |-> "b2", balance |-> 70]}
SomeBanks == {[connections |-> {"b1", "b2"}, accounts |-> {OneAccount}],
  [connections |-> {"b1", "b2"}, accounts |-> TwoAccounts],
  [connections |-> {"b1"}, accounts |-> TwoAccounts]}
Labels == [netflix |-> "Subscriptions", fatura |-> "CreditCard"]
AiLabels == [Food |-> "Food", Other |-> "Other", Income |-> "Income"]
OneOverlap == {[id \in 1..5 |-> IF id = 4 THEN 2 ELSE IF id = 2 THEN 1 ELSE 0],
               [id \in 1..5 |-> 0]}
=============================================================================

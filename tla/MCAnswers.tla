----------------------------- MODULE MCAnswers ------------------------------
(***************************************************************************)
(* A small instance of Answers.  Five currencies: the base, two quotes     *)
(* whose sort_order is not that of their paths, and two that no query asks *)
(* for.  The digests have a pair in both orders and twice, a volume of     *)
(* zero, volumes that are negative as signed numbers, rates above and      *)
(* below 1, a currency that both quotes lead to, and a market that ingest  *)
(* skips; one has none that a query would return.                          *)
(***************************************************************************)
EXTENDS Answers

Exalted == 1
Divine  == 2
Chaos   == 3
Scarab  == 4
Map     == 5

MCCategory   == [p \in 1 .. 5 |-> IF p \in {Scarab, Map} THEN Uncategorized ELSE "currency"]
MCTradables  == {Divine, Chaos, Exalted}
MCPairOrders == {<<Chaos, Exalted>>, <<Chaos>>}
MCIdOrders   == {[p \in 1 .. 5 |-> p], [p \in 1 .. 5 |-> 6 - p]}

Amount(volume, low, high) == [volume |-> volume, low |-> low, high |-> high]

Market(p, a, q, b) ==
    [league  |-> League, pair |-> <<p, q>>,
     amounts |-> [x \in 1 .. 5 |-> IF x = p THEN a ELSE IF x = q THEN b
                                                   ELSE Amount(0, 0, 0)]]

MCDigests ==
    {<<Market(Divine, Amount(1, 1, 1), Chaos, Amount(6, 5, 7)),
       Market(Scarab, Amount(5, 2, 2), Chaos, Amount(2, 1, 0)),
       Market(Divine, Amount(2, 1, 1), Scarab, Amount(0, 1, 1)),
       Market(Exalted, Amount(7, 1, 1), Scarab, Amount(2, 1, 3))>>,
     <<Market(Chaos, Amount(1, 0, 1), Divine, Amount(0, 0, 1)),
       Market(Exalted, Amount(7, 7, 7), Divine, Amount(3, 1, 4)),
       Market(Chaos, Amount(5, 7, 5), Divine, Amount(3, 2, 1)),
       Market(Divine, Amount(4, 2, 0), Scarab, Amount(3, 1, 1)),
       Market(Scarab, Amount(3, 1, 2), Exalted, Amount(4, 1, 1))>>,
     <<Market(Scarab, Amount(3, 1, 2), Map, Amount(4, 1, 1)),
       [Market(Divine, Amount(7, 1, 1), Chaos, Amount(2, 1, 1)) EXCEPT !.pair = <<Divine>>]>>}
=============================================================================

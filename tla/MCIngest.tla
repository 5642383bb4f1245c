------------------------------ MODULE MCIngest ------------------------------
(***************************************************************************)
(* Small instances of Ingest.  Three paths; the digests hold a pair in     *)
(* both orders, two markets with the same key, a malformed market, and     *)
(* pairs that overlap so that two runs can lock paths in opposite orders.  *)
(***************************************************************************)
EXTENDS Ingest

CONSTANTS Divine, Chaos, Exalted, Standard

MCPaths == {Divine, Chaos, Exalted}
MCHours == {1}
MCLeagues == {Standard}
MCAmounts == {0, 1, 2}

Pair(p, q, a, b) == [league |-> Standard,
                     pair |-> <<p, q>>,
                     amounts |-> [x \in Paths |-> IF x = p THEN a
                                                  ELSE IF x = q THEN b ELSE 0]]

Malformed == [league |-> Standard,
              pair |-> <<Divine>>,
              amounts |-> [x \in Paths |-> 0]]

MCDigests == {<<Pair(Divine, Chaos, 1, 2), Malformed>>,
              <<Pair(Chaos, Divine, 1, 2), Pair(Divine, Chaos, 2, 0)>>,
              <<Pair(Exalted, Divine, 2, 1), Pair(Chaos, Exalted, 0, 1)>>}
=============================================================================

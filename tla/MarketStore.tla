---------------------------- MODULE MarketStore -----------------------------
(***************************************************************************)
(* What the tables currencies and market_snapshots promise their readers:  *)
(* a digest appears as a whole or not at all, a currency keeps its id for  *)
(* ever, and for one key the last market of a digest wins.  Module Ingest  *)
(* implements this.                                                        *)
(***************************************************************************)
EXTENDS MarketTables

CONSTANT Digests     \* the digests the API can return: sequences of markets

VARIABLES ids,          \* item_path -> currency_id, 0 when there is no row
          placeholder,  \* item_path -> is_placeholder
          snapshots     \* the rows of market_snapshots

vars == <<ids, placeholder, snapshots>>

Init == /\ ids = [p \in Paths |-> 0]
        /\ placeholder = [p \in Paths |-> TRUE]
        /\ snapshots = {}

Accepted(digest) == {i \in DOMAIN digest : WellFormed(digest[i])}

Mentioned(digest) == {digest[i].pair[k] : i \in Accepted(digest), k \in {1, 2}}

(* Rows a digest leaves behind: a later market replaces an earlier one     *)
(* with the same key.                                                      *)
FinalRows(hour, digest, id) ==
    LET row(i) == RowOf(hour, digest[i], id)
    IN  {row(i) : i \in {j \in Accepted(digest) :
                            \A k \in Accepted(digest) :
                                k > j => Key(row(k)) # Key(row(j))}}

(* Ids are given once, to the paths in new only, and are distinct.         *)
Extend(new) ==
    /\ ids' \in [Paths -> Nat]
    /\ \A p \in Paths : IF ids[p] = 0 /\ p \in new
                        THEN ids'[p] # 0
                        ELSE ids'[p] = ids[p]
    /\ \A p, q \in Paths : (ids'[p] = ids'[q] /\ ids'[p] # 0) => p = q

Ingest(hour, digest) ==
    /\ Extend(Mentioned(digest))
    /\ placeholder' = placeholder
    /\ snapshots' = UpsertRows(snapshots, FinalRows(hour, digest, ids'))

(* An operator (curate, sync) describes a currency.                        *)
Describe(path) ==
    /\ Extend({path})
    /\ placeholder' = [placeholder EXCEPT ![path] = FALSE]
    /\ UNCHANGED snapshots

Next == \/ \E hour \in Hours, digest \in Digests : Ingest(hour, digest)
        \/ \E path \in Paths : Describe(path)

Spec == Init /\ [][Next]_vars
=============================================================================

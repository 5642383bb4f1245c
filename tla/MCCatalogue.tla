---------------------------- MODULE MCCatalogue -----------------------------
(***************************************************************************)
(* The requests of the run of Catalogue.                                   *)
(***************************************************************************)
EXTENDS Catalogue

Item(p, n, cat) == [path |-> p, name |-> n, category |-> cat]

(* A sync of an empty category and one with two pages, whose items include *)
(* a duplicate and one without a path; a curation of a path that the sync  *)
(* and the ingest write as well; and a bootstrap with a quote, path 3,     *)
(* that is left to the ingest.                                             *)
AllCalls == [
    sync   |-> [op |-> "sync",
                categories |-> << <<>>,
                    << <<Item(2, "chaos", "currency"), Item(NoPath, "x", "x")>>,
                       <<Item(2, "dup", None), Item(1, "divine", "currency")>> >> >>],
    curate |-> [op |-> "curate", path |-> 1, name |-> "Divine", emoji |-> "e"],
    pairs  |-> [op |-> "bootstrap", base |-> 1, quotes |-> <<2, 3>>]]
=============================================================================

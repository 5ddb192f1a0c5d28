----------------------------- MODULE MCDatasets -----------------------------
(* A small instance of Datasets: three rows, pages of at most two.         *)
EXTENDS Datasets

OneDataset == {[key |-> "a", api |-> TRUE, mcp |-> TRUE]}
=============================================================================

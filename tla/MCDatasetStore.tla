---------------------------- MODULE MCDatasetStore ----------------------------
(***************************************************************************)
(* An instance of DatasetStore for TLC: two CSV files, one with a row that *)
(* only the permissive mode accepts, uploaded under one suffix that has a  *)
(* parser and one that has none; one file name of the library.             *)
(***************************************************************************)
EXTENDS DatasetStore, TLC

CONSTANTS t1, t2, t3

SomeUploads == [bytes : {"clean", "ragged"}, suffix : {".csv", ".txt"}, mode : Modes]

OnlyCsv == [p \in Parsers |-> IF p = "csv" THEN {"clean", "ragged"} ELSE {}]

FreshNames == Permutations({t1, t2, t3})
=============================================================================

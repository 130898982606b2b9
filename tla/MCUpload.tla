------------------------------ MODULE MCUpload ------------------------------
(* Small instances of Upload; requests are interchangeable. *)
EXTENDS Upload, TLC

Interchangeable == Permutations(Requests)
=============================================================================

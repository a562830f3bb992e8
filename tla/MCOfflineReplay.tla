--------------------------- MODULE MCOfflineReplay ---------------------------
(* Instances of OfflineReplay: the requests of the server are interchangeable. *)
EXTENDS OfflineReplay, TLC

Interchangeable == Permutations(Slots)
=============================================================================

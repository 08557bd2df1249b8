----------------------------- MODULE MCDocuments -----------------------------
(* Instances of Documents for TLC. *)
EXTENDS Documents, TLC

AllCalls == {<<"post", FALSE>>} \cup {"put", "patch", "delete"} \X BOOLEAN

Interchangeable == Permutations(Requests)
==============================================================================

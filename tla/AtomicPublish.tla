---------------------------- MODULE AtomicPublish ----------------------------
(***************************************************************************)
(* What publishing a site promises (README.md, "How deploy works"): a      *)
(* browser sees either the previous complete release or the next complete  *)
(* release.  `live` is the release served, `shelf` the complete releases   *)
(* on the host.  The served release is always complete, switches in one    *)
(* step, and is never taken off the shelf while it is served.              *)
(***************************************************************************)
CONSTANTS Releases, Nothing

VARIABLES live, shelf

\* No release is served yet; some may be complete already.
Init == live = Nothing /\ shelf \in SUBSET Releases

\* An upload becomes a complete release.
Shelve(r) == shelf' = shelf \cup {r} /\ UNCHANGED live

\* One complete release takes the place of another.
Publish(r) == r \in shelf /\ live' = r /\ UNCHANGED shelf

\* A release that is not served is removed.
Retire(r) == r # live /\ shelf' = shelf \ {r} /\ UNCHANGED live

Next == \E r \in Releases : Shelve(r) \/ Publish(r) \/ Retire(r)

Spec == Init /\ [][Next]_<<live, shelf>>
==============================================================================

---------------------------- MODULE MCRealtimeHub ----------------------------
(* Instances of RealtimeHub for TLC. *)
EXTENDS RealtimeHub, TLC

CONSTANTS c1, c2, c3, s1, s2

\* All connections compete for the seats of one site; document handlers publish on another
\* one as well, which must not reach them.
OneSite == [c \in Conns |-> s1]

\* One peer sends two frames, one sends one, one is silent.
FewFrames == (c1 :> 2) @@ (c2 :> 1) @@ (c3 :> 0)
==============================================================================

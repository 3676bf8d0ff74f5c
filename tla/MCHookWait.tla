----------------------------- MODULE MCHookWait -----------------------------
(* Small servers that wait. *)
EXTENDS HookWait, TLC

\* What a server asks of a listening socket 1 and of a connected socket 2:
\* input that goes with output, and output alone.
MCInterests == {(1 :> {"in", "out"} @@ 2 :> {"out"})}

MCOneSocket == {(1 :> {"in"})}
=============================================================================

---------------------------- MODULE MCKeepAlive ----------------------------
(* The instances of KeepAlive that TLC checks. *)
EXTENDS KeepAlive

\* One interval of each branch of the bound: just over ten seconds, the demo's
\* default, and one whose tenth exceeds ten seconds.
MCKeepAlives == {11, 30, 120}

\* An interval of at most ten seconds, where both timers get the same period.
MCShortKeepAlives == {5}
=============================================================================

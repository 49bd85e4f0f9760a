----------------------------- MODULE MCListPool -----------------------------
(***************************************************************************)
(* Instances of ListPool for TLC.                                          *)
(***************************************************************************)
EXTENDS ListPool, TLC

K(act, idle, idleTimeout, waitTimeout, wait) ==
  [Active |-> act, Idle |-> idle, IdleTimeout |-> idleTimeout,
   WaitTimeout |-> waitTimeout, Wait |-> wait]

\* reloading between two limits, with and without a cleaner, and between
\* waiting with a timeout and not waiting
Reloads == {K(2, 2, 2, 0, FALSE), K(1, 1, 1, 1, FALSE), K(2, 1, 0, 0, TRUE)}

OneSlotWaits == {K(1, 1, 0, 0, TRUE)}
\* one slot to wait for or two items to sweep, with a timeout
Expiring == {K(1, 1, 1, 1, FALSE), K(2, 2, 1, 1, FALSE)}

Symmetry == Permutations(Clients) \union Permutations(Conns)

=============================================================================

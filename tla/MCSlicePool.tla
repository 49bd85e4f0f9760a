---------------------------- MODULE MCSlicePool ----------------------------
(***************************************************************************)
(* Instances of SlicePool for TLC.                                         *)
(***************************************************************************)
EXTENDS SlicePool, TLC

K(act, idle, idleTimeout, waitTimeout, wait) ==
  [Active |-> act, Idle |-> idle, IdleTimeout |-> idleTimeout,
   WaitTimeout |-> waitTimeout, Wait |-> wait]

\* two slots or one, items that expire or not, waiting with a timeout or not
Various == {K(2, 2, 1, 1, FALSE), K(1, 1, 1, 0, TRUE), K(2, 1, 0, 0, FALSE), K(0, 0, 1, 0, FALSE)}
OneSlotWaits == {K(1, 1, 1, 0, TRUE)}
OneSlotTimed == {K(1, 1, 1, 1, FALSE)}
\* one slot, waiting with a timeout or without; where Get may wait for ever,
\* items do not expire
Answered == {K(1, 1, 0, 1, FALSE), K(1, 1, 0, 0, TRUE), K(1, 1, 1, 1, FALSE)}

Symmetry == Permutations(Clients) \union Permutations(Conns)

=============================================================================

--------------------------- MODULE MCRefreshTokens ---------------------------
(* Instances of RefreshTokens for TLC.                                     *)
EXTENDS RefreshTokensInv, TLC

\* Calls are interchangeable.
Symmetry == Permutations(Calls)

\* Secrets are random and only ever compared, so it does not matter which
\* unused one is drawn: numbered tokens are drawn smallest first.
DrawsSmallest ==
  \A c \in Calls :
    next'[c].current \in Unminted => \A t \in Unminted : next'[c].current <= t
=============================================================================

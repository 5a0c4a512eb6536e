--------------------------- MODULE MCSessionTokens ---------------------------
(* Instances of SessionTokens: one browser with two tabs. *)
EXTENDS SessionTokens, TLC

CONSTANTS b1, t1, t2

OneBrowser == {b1}
TwoTabs == {t1, t2}
AllAtB1 == [t \in TwoTabs |-> b1]
TwoSlots == 1 .. 2
Symmetry == Permutations(TwoTabs)

=============================================================================

---------------------------- MODULE MCVirtualWin ----------------------------
(* Instances of VirtualWin for TLC.                                          *)
EXTENDS VirtualWin, TLC
CONSTANTS c1, c2
TwoConfigs == {c1, c2}
(* Nothing but equality is asked of an FB config.                            *)
Symmetry == Permutations(TwoConfigs)
Small == <<1, 1>>
SmallOrLarge == {<<1, 1>>, <<2, 2>>}
(* Both dimensions, one of them, neither                                     *)
WholeAndPartial == {<<2, 1>>, <<0, 2>>, <<0, 0>>}
=============================================================================

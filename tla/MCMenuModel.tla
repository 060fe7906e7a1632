------------------------------ MODULE MCMenuModel ------------------------------
EXTENDS MenuModel, TLC

Symmetry == Permutations(Menus) \cup Permutations(Items)
=============================================================================

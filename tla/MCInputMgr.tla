----------------------------- MODULE MCInputMgr -----------------------------
EXTENDS InputMgr, TLC

BlockSymmetry == Permutations(Block)
=============================================================================

---------------------------- MODULE MCPoolSelect ----------------------------
EXTENDS PoolSelect, TLC

SelectOps == {"Select", "MarkCooldown", "Recover", "Tick"}

Symmetric == Permutations(Threads)
=============================================================================

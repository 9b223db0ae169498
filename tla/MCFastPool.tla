----------------------------- MODULE MCFastPool -----------------------------
EXTENDS FastPool, TLC

CONSTANTS t1, t2, t3

MCTasks == {t1, t2}
MCThree == {t1, t2, t3}
MCLimits == {0, 1, 2}
MCSymmetry == Permutations(Task)
=============================================================================

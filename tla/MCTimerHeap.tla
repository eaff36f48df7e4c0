---------------------------- MODULE MCTimerHeap ----------------------------
EXTENDS TimerHeap, FiniteSets, TLC
CONSTANTS main, worker, e1, e2, e3
Two == {main, worker}
Three == {e1, e2, e3}
Short == {1, 2}
Interchangeable == Permutations(Entries) \cup Permutations(Threads)
=============================================================================

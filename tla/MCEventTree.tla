---------------------------- MODULE MCEventTree -----------------------------
EXTENDS EventTree

\* The hook point "snd" lacks event 0.
OneBanned == [h \in Hooks |-> IF h = "snd" THEN {0} ELSE {}]

\* Streams and callbacks are interchangeable.
Same == Permutations(Streams) \cup Permutations(Callback)
=============================================================================

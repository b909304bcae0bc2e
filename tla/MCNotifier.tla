----------------------------- MODULE MCNotifier -----------------------------
EXTENDS Notifier
CONSTANTS t1, t2, f1, f2

\* A thread with a file and one without, and two with a file each.
MCOneFile == [t \in Threads |-> IF t = t1 THEN {f1} ELSE {}]
MCTwoFiles == [t \in Threads |-> IF t = t1 THEN {f1} ELSE {f2}]
==============================================================================

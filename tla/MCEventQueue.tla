---------------------------- MODULE MCEventQueue ----------------------------
EXTENDS EventQueue, TLC
CONSTANTS e1, e2, e3, e4

\* Addresses are interchangeable.
Symmetric == Permutations(Events)
==============================================================================

---------------------------- MODULE MCThreadLib ----------------------------
(* Model values for the thread library.                                    *)
EXTENDS ThreadLib, TLC

(* Threads other than the main thread are interchangeable, and so are the  *)
(* CPUs that boot without a thread.                                        *)
Symmetry == Permutations(Threads \ {MainThread}) \cup Permutations(CPUs \ {BootCpu})
=============================================================================

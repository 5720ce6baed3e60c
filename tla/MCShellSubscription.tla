------------------------- MODULE MCShellSubscription -------------------------
(***************************************************************************)
(* TLC instances of ShellSubscription: one project and its threads.        *)
(***************************************************************************)
EXTENDS ShellSubscription, TLC

CONSTANT p1

\* Threads are interchangeable.
ThreadSymmetry == Permutations(ThreadId)

AllOfP1 == [t \in ThreadId |-> p1]
=============================================================================

---------------------------- MODULE MCThumbnails ----------------------------
(* Instances of Thumbnails for TLC. *)
EXTENDS Thumbnails, TLC

CONSTANTS photo, scan, first, second

\* The photo's NautilusFile is freed; the scan waits its turn beside it.
OnlyPhoto == [f \in Files |-> IF f = photo THEN 1 ELSE 0]

Never == [f \in Files |-> 0]
Once == [f \in Files |-> 1]
Twice == [f \in Files |-> 2]

\* Sound where no property is about what happens in the end.
SymThreads == Permutations(Threads)
=============================================================================

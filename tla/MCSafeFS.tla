------------------------------ MODULE MCSafeFS ------------------------------
(***************************************************************************)
(* Instances of SafeFS for TLC.                                            *)
(***************************************************************************)
EXTENDS SafeFS, TLC

\* Inodes and documents are interchangeable.
Interchangeable == Permutations(Inodes) \cup Permutations(Documents)
\* What TLC tells states apart by: the contents of an inode that nothing refers
\* to play no part, as Create begins them anew.
Remembered ==
    <<names, [i \in Inodes |-> IF i \in Free THEN Torn ELSE body[i]],
      synced \ Free, holder, procs, undermined>>
=============================================================================

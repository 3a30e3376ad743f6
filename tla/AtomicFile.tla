----------------------------- MODULE AtomicFile -----------------------------
(***************************************************************************)
(* What package safefs promises of a privileged file, and what Reconcile   *)
(* and Lifecycle build upon: the file is absent or holds one document,     *)
(* replaced in one step; a reader keeps the document it opened; a power    *)
(* loss leaves a document the file held since the directory was last       *)
(* synced, never a part of one.                                            *)
(***************************************************************************)
CONSTANTS
    Procs,        \* the processes that read the file
    Documents,    \* what a writer may put in it
    None          \* no file, no document

VARIABLES
    content,      \* the document in the file
    spare,        \* what a power loss may leave in it
    seen          \* per process: the document it has opened

vars == <<content, spare, seen>>

-----------------------------------------------------------------------------
Replace ==
    /\ content' \in Documents
    /\ spare' = spare \cup {content'}
    /\ UNCHANGED seen

Remove ==
    /\ content' = None
    /\ spare' = spare \cup {None}
    /\ UNCHANGED seen

\* The directory is synced: what the file holds is there for good.
Settle ==
    /\ spare' = {content}
    /\ UNCHANGED <<content, seen>>

BeginRead(p) ==
    /\ content # None
    /\ seen' = [seen EXCEPT ![p] = content]
    /\ UNCHANGED <<content, spare>>

EndRead(p) ==
    /\ seen' = [seen EXCEPT ![p] = None]
    /\ UNCHANGED <<content, spare>>

PowerLoss ==
    /\ content' \in spare
    /\ spare' = {content'}
    /\ seen' = [p \in Procs |-> None]

Init ==
    /\ content \in Documents \cup {None}
    /\ spare = {content}
    /\ seen = [p \in Procs |-> None]

Next ==
    \/ Replace
    \/ Remove
    \/ Settle
    \/ \E p \in Procs : BeginRead(p) \/ EndRead(p)
    \/ PowerLoss

Spec == Init /\ [][Next]_vars
=============================================================================

-------------------------------- MODULE SafeFS --------------------------------
(***************************************************************************)
(* Package safefs down to inodes: WriteFile and ReadFile on one privileged *)
(* file, Lock on the lock file beside it, and the removal of both by an    *)
(* uninstall.  Any call may fail, any process may be killed and the power  *)
(* may go at any step.                                                     *)
(*                                                                         *)
(* A process does one thing at a time here; a reconciliation that writes   *)
(* while it holds the lock is two of them.  The checks of owners, modes    *)
(* and symbolic links only ever make a call fail before it has done        *)
(* anything, or after it has done everything.  The directory itself is     *)
(* taken to stay: while it is gone every call fails.                       *)
(***************************************************************************)
CONSTANTS
    Procs,        \* processes
    Documents,    \* what may be written to the file
    Inodes,       \* bound: inodes in the directory
    Torn,         \* the contents of an inode that is not wholly written
    None          \* no inode, no holder

ASSUME SafeFSAssumption ==
    /\ Torn \notin Documents
    /\ None \notin Documents \cup Inodes \cup Procs

VARIABLES
    entry,        \* the inode each path names
    kept,         \* the inodes each path may name after a power loss
    temps,        \* the inodes that have a temporary name
    body,         \* the contents of each inode
    synced,       \* the inodes whose contents are on the platter
    holder,       \* the process that holds the lock on each inode
    pc,           \* per process: the step it is at
    node,         \* per process: the inode it has open
    undermined    \* history: the lock file was removed while it was open

names == <<entry, kept, temps>>
data  == <<body, synced>>
procs == <<pc, node>>
vars  == <<names, data, holder, procs, undermined>>

Paths == {"file", "lock"}
Steps == {"idle", "fill", "sync", "rename", "finish", "read", "flock", "locked"}

\* Steps of a writer whose inode nobody else knows, and of one with the lock
\* file open.
Writing == {"fill", "sync", "rename"}
Locking == {"flock", "locked"}

Free ==
    Inodes \ (temps \cup (UNION {kept[x] : x \in Paths}) \cup {node[p] : p \in Procs})

Goto(p, step) == pc' = [pc EXCEPT ![p] = step]

\* The call returns, or the process dies: its descriptor is closed.
Leave(p) ==
    /\ Goto(p, "idle")
    /\ node' = [node EXCEPT ![p] = None]

\* Mutant of Name: the new name is lost at once.
NameLost(x, i) ==
    /\ entry' = [entry EXCEPT ![x] = i]
    /\ UNCHANGED kept

\* The path comes to name inode i, or none.
Name(x, i) ==
    /\ entry' = [entry EXCEPT ![x] = i]
    /\ kept' = [kept EXCEPT ![x] = @ \cup {i}]

-----------------------------------------------------------------------------
\* WriteFile.

Create(p) ==
    /\ pc[p] = "idle"
    /\ \E i \in Free :
          /\ temps' = temps \cup {i}
          /\ body' = [body EXCEPT ![i] = Torn]
          /\ synced' = synced \ {i}
          /\ node' = [node EXCEPT ![p] = i]
    /\ Goto(p, "fill")
    /\ UNCHANGED <<entry, kept, holder, undermined>>

\* cleanup: the temporary file is removed, unless that fails too.
Discard(p) ==
    /\ temps' \in {temps, temps \ {node[p]}}
    /\ Leave(p)
    /\ UNCHANGED <<entry, kept>>

\* Chown, Chmod and Write.
Fill(p) ==
    /\ pc[p] = "fill"
    /\ \/ /\ \E d \in Documents : body' = [body EXCEPT ![node[p]] = d]
          /\ Goto(p, "sync")
          /\ UNCHANGED <<names, node>>
       \/ Discard(p) /\ UNCHANGED body
    /\ UNCHANGED <<synced, holder, undermined>>

\* Mutant of Sync: the file is renamed without having been synced.
SyncSkipped(p) ==
    /\ pc[p] = "sync"
    /\ Goto(p, "rename")
    /\ UNCHANGED <<names, data, node, holder, undermined>>

Sync(p) ==
    /\ pc[p] = "sync"
    /\ \/ /\ synced' = synced \cup {node[p]}
          /\ Goto(p, "rename")
          /\ UNCHANGED <<names, node>>
       \/ Discard(p) /\ UNCHANGED synced
    /\ UNCHANGED <<body, holder, undermined>>

Rename(p) ==
    /\ pc[p] = "rename"
    /\ \/ /\ Name("file", node[p])
          /\ temps' = temps \ {node[p]}
          /\ Goto(p, "finish")
          /\ UNCHANGED node
       \/ Discard(p)
    /\ UNCHANGED <<data, holder, undermined>>

\* The directory is synced, a failure of which is ignored, and VerifyFile
\* decides what the call returns.
Finish(p) ==
    /\ pc[p] = "finish"
    /\ kept' \in {kept, [x \in Paths |-> {entry[x]}]}
    /\ Leave(p)
    /\ UNCHANGED <<entry, temps, data, holder, undermined>>

-----------------------------------------------------------------------------
\* ReadFile: the checks and the reading are made on the open descriptor.

OpenFile(p) ==
    /\ pc[p] = "idle"
    /\ entry["file"] # None
    /\ node' = [node EXCEPT ![p] = entry["file"]]
    /\ Goto(p, "read")
    /\ UNCHANGED <<names, data, holder, undermined>>

ReadAll(p) ==
    /\ pc[p] = "read"
    /\ Leave(p)
    /\ UNCHANGED <<names, data, holder, undermined>>

-----------------------------------------------------------------------------
\* Lock and the function it returns.

\* O_CREATE: the file is made when it is missing.
OpenLock(p) ==
    /\ pc[p] = "idle"
    /\ \/ /\ entry["lock"] # None
          /\ node' = [node EXCEPT ![p] = entry["lock"]]
          /\ UNCHANGED names
       \/ /\ entry["lock"] = None
          /\ \E i \in Free : Name("lock", i) /\ node' = [node EXCEPT ![p] = i]
          /\ UNCHANGED temps
    /\ Goto(p, "flock")
    /\ UNCHANGED <<data, holder, undermined>>

\* LOCK_NB: an inode locked by another process is not waited for.
Flock(p) ==
    /\ pc[p] = "flock"
    /\ \/ /\ holder[node[p]] = None
          /\ holder' = [holder EXCEPT ![node[p]] = p]
          /\ Goto(p, "locked")
          /\ UNCHANGED node
       \/ Leave(p) /\ UNCHANGED holder
    /\ UNCHANGED <<names, data, undermined>>

\* The kernel drops a lock with the descriptor that holds it.
Unlocked(p) == holder' = [i \in Inodes |-> IF holder[i] = p THEN None ELSE holder[i]]

\* Mutant of Release: the lock file is tidied away with the lock.
ReleaseRemoving(p) ==
    /\ pc[p] = "locked"
    /\ Unlocked(p)
    /\ Name("lock", None)
    /\ Leave(p)
    /\ UNCHANGED <<temps, data, undermined>>

Release(p) ==
    /\ pc[p] = "locked"
    /\ Unlocked(p)
    /\ Leave(p)
    /\ UNCHANGED <<names, data, undermined>>

-----------------------------------------------------------------------------
\* RemoveFile, which an uninstall calls for both without taking the lock.
RemoveFile(x) ==
    /\ entry[x] # None
    /\ Name(x, None)
    /\ undermined' = (undermined \/
          (x = "lock" /\ \E p \in Procs : pc[p] \in Locking /\ node[p] = entry[x]))
    /\ UNCHANGED <<temps, data, holder, procs>>

\* The process is killed.
Crash(p) ==
    /\ pc[p] # "idle"
    /\ Unlocked(p)
    /\ Leave(p)
    /\ UNCHANGED <<names, data, undermined>>

\* A name that was not synced may be an earlier one again, and contents that
\* were not synced may be anything.
PowerLoss ==
    /\ entry' \in [Paths -> Inodes \cup {None}]
    /\ \A x \in Paths : entry'[x] \in kept[x]
    /\ kept' = [x \in Paths |-> {entry'[x]}]
    /\ temps' \in SUBSET temps
    /\ body' = [i \in Inodes |-> IF i \in synced THEN body[i] ELSE Torn]
    /\ holder' = [i \in Inodes |-> None]
    /\ pc' = [p \in Procs |-> "idle"]
    /\ node' = [p \in Procs |-> None]
    /\ undermined' = FALSE
    /\ UNCHANGED synced

-----------------------------------------------------------------------------
\* The state directory, just created.
Init ==
    /\ entry = [x \in Paths |-> None]
    /\ kept = [x \in Paths |-> {None}]
    /\ temps = {}
    /\ body = [i \in Inodes |-> Torn]
    /\ synced = {}
    /\ holder = [i \in Inodes |-> None]
    /\ pc = [p \in Procs |-> "idle"]
    /\ node = [p \in Procs |-> None]
    /\ undermined = FALSE

Next ==
    \/ \E p \in Procs :
          \/ Create(p)
          \/ Fill(p)
          \/ Sync(p)
          \/ Rename(p)
          \/ Finish(p)
          \/ OpenFile(p)
          \/ ReadAll(p)
          \/ OpenLock(p)
          \/ Flock(p)
          \/ Release(p)
          \/ Crash(p)
    \/ \E x \in Paths : RemoveFile(x)
    \/ PowerLoss

Spec == Init /\ [][Next]_vars

-----------------------------------------------------------------------------
\* Every variable holds a value of its kind, and what a path names now is among
\* what it may name after a power loss.
SafeFSTypeOK ==
    /\ entry \in [Paths -> Inodes \cup {None}]
    /\ kept \in [Paths -> SUBSET (Inodes \cup {None})]
    /\ \A x \in Paths : entry[x] \in kept[x]
    /\ temps \subseteq Inodes
    /\ body \in [Inodes -> Documents \cup {Torn}]
    /\ synced \subseteq Inodes
    /\ holder \in [Inodes -> Procs \cup {None}]
    /\ pc \in [Procs -> Steps]
    /\ node \in [Procs -> Inodes \cup {None}]
    /\ undermined \in BOOLEAN

\* As long as no uninstall removes the lock file from under a process, at most
\* one process holds the lock, through crashes and through the file being made
\* anew (Lock, the only thing that keeps two reconciliations apart).
OneHolder ==
    ~undermined =>
       \A p, q \in Procs : pc[p] = "locked" /\ pc[q] = "locked" => p = q

\* security.md:124-126 promises it without the exception: "A root-owned lock
\* under `/var/db/schlaflos` permits only one mutation sequence at a time."
LockExcludes ==
    \A p, q \in Procs : pc[p] = "locked" /\ pc[q] = "locked" => p = q

\* WriteFile, ReadFile and RemoveFile together implement an atomic file: neither
\* concurrent writers nor failures, kills or a power loss ever show a reader a
\* document that was not wholly written.
Content(i) == IF i = None THEN None ELSE body[i]

File == INSTANCE AtomicFile WITH
           content <- Content(entry["file"]),
           spare <- {Content(i) : i \in kept["file"]},
           seen <- [p \in Procs |-> IF pc[p] = "read" THEN body[node[p]] ELSE None]

ImplementsAtomicFile == File!Spec
=============================================================================

----------------------------- MODULE SafeFSProofs -----------------------------
(***************************************************************************)
(* Proofs about SafeFS, for any number of processes, documents and inodes: *)
(* the lock excludes, and the file is atomic.                              *)
(***************************************************************************)
EXTENDS SafeFS, TLAPS

-----------------------------------------------------------------------------
\* A process with a descriptor has an inode, and the inode of a writer is its
\* own: no path names it and no other process has it open.
Opened == \A p \in Procs : pc[p] \notin {"idle", "finish"} => node[p] \in Inodes

Private ==
    \A p \in Procs : pc[p] \in Writing =>
        /\ \A x \in Paths : node[p] \notin kept[x]
        /\ \A q \in Procs \ {p} : node[q] # node[p]

\* What is about to be named is wholly written and synced.
Written ==
    \A p \in Procs :
        /\ pc[p] \in {"sync", "rename"} => body[node[p]] \in Documents
        /\ pc[p] = "rename" => node[p] \in synced

\* What the file may be after a power loss is as good as what it is.
Durable ==
    \A i \in kept["file"] \ {None} : i \in synced /\ body[i] \in Documents

Sound == Opened /\ Private /\ Written /\ Durable

\* A lock belongs to the process that has it, and while nothing undermined it
\* there is one inode to lock.
Held == \A p \in Procs : pc[p] = "locked" => holder[node[p]] = p

Pinned ==
    ~undermined => \A p \in Procs : pc[p] \in Locking => node[p] = entry["lock"]

Guarded == Held /\ Pinned

-----------------------------------------------------------------------------
LEMMA InitSound == Init => SafeFSTypeOK /\ Sound /\ Guarded
BY DEF Init, SafeFSTypeOK, Sound, Opened, Private, Written, Durable, Guarded,
       Held, Pinned, Writing, Locking, Steps, Paths

LEMMA StepType == SafeFSTypeOK /\ Sound /\ [Next]_vars => SafeFSTypeOK'
<1> SUFFICES ASSUME SafeFSTypeOK, Sound, [Next]_vars PROVE SafeFSTypeOK'
  OBVIOUS
<1> USE DEF SafeFSTypeOK, names, data, procs, Paths, Steps
<1>1. ASSUME NEW p \in Procs, Create(p) PROVE SafeFSTypeOK'
  BY <1>1 DEF Create, Free, Goto
<1>2. ASSUME NEW p \in Procs, Fill(p) PROVE SafeFSTypeOK'
  BY <1>2 DEF Fill, Goto, Discard, Leave
<1>3. ASSUME NEW p \in Procs, Sync(p) PROVE SafeFSTypeOK'
  BY <1>3 DEF Sync, Goto, Discard, Leave, Sound, Opened
<1>4. ASSUME NEW p \in Procs, Rename(p) PROVE SafeFSTypeOK'
  BY <1>4 DEF Rename, Name, Goto, Discard, Leave
<1>5. ASSUME NEW p \in Procs, Finish(p) PROVE SafeFSTypeOK'
  BY <1>5 DEF Finish, Goto, Leave
<1>6. ASSUME NEW p \in Procs, OpenFile(p) \/ ReadAll(p) PROVE SafeFSTypeOK'
  BY <1>6 DEF OpenFile, ReadAll, Goto, Leave
<1>7. ASSUME NEW p \in Procs, OpenLock(p) PROVE SafeFSTypeOK'
  BY <1>7 DEF OpenLock, Free, Name, Goto
<1>8. ASSUME NEW p \in Procs, Flock(p) \/ Release(p) \/ Crash(p)
      PROVE  SafeFSTypeOK'
  BY <1>8 DEF Flock, Release, Crash, Unlocked, Goto, Leave
<1>9. ASSUME NEW x \in Paths, RemoveFile(x) PROVE SafeFSTypeOK'
  BY <1>9 DEF RemoveFile, Name
<1>10. CASE PowerLoss
  BY <1>10 DEF PowerLoss
<1>11. CASE UNCHANGED vars
  BY <1>11 DEF vars
<1> QED
  BY <1>1, <1>2, <1>3, <1>4, <1>5, <1>6, <1>7, <1>8, <1>9, <1>10, <1>11
  DEF Next

-----------------------------------------------------------------------------
\* An inode no one has.
LEMMA FreeIsNew ==
    ASSUME NEW i \in Free
    PROVE  /\ i \in Inodes /\ i # None
           /\ \A x \in Paths : i \notin kept[x]
           /\ \A p \in Procs : node[p] # i
BY SafeFSAssumption DEF Free

LEMMA StepSound == SafeFSTypeOK /\ Sound /\ [Next]_vars => Sound'
<1> SUFFICES ASSUME SafeFSTypeOK, Sound, [Next]_vars PROVE Sound'
  OBVIOUS
<1> USE SafeFSAssumption
    DEF SafeFSTypeOK, names, data, procs, Paths, Sound, Opened, Private,
        Written, Durable, Writing
<1>1. ASSUME NEW p \in Procs, Create(p) PROVE Sound'
  BY <1>1, FreeIsNew DEF Create, Goto
<1>2. ASSUME NEW p \in Procs, Fill(p) PROVE Sound'
  BY <1>2 DEF Fill, Goto, Discard, Leave
<1>3. ASSUME NEW p \in Procs, Sync(p) PROVE Sound'
  BY <1>3 DEF Sync, Goto, Discard, Leave
<1>4. ASSUME NEW p \in Procs, Rename(p) PROVE Sound'
  BY <1>4 DEF Rename, Name, Goto, Discard, Leave
<1>5. ASSUME NEW p \in Procs, Finish(p) PROVE Sound'
  BY <1>5 DEF Finish, Goto, Leave
<1>6. ASSUME NEW p \in Procs, OpenFile(p) \/ ReadAll(p) PROVE Sound'
  BY <1>6 DEF OpenFile, ReadAll, Goto, Leave
<1>7. ASSUME NEW p \in Procs, OpenLock(p) PROVE Sound'
  BY <1>7, FreeIsNew DEF OpenLock, Name, Goto
<1>8. ASSUME NEW p \in Procs, Flock(p) \/ Release(p) \/ Crash(p)
      PROVE  Sound'
  BY <1>8 DEF Flock, Release, Crash, Goto, Leave
<1>9. ASSUME NEW x \in Paths, RemoveFile(x) PROVE Sound'
  BY <1>9 DEF RemoveFile, Name
<1>10. CASE PowerLoss
  BY <1>10 DEF PowerLoss
<1>11. CASE UNCHANGED vars
  BY <1>11 DEF vars
<1> QED
  BY <1>1, <1>2, <1>3, <1>4, <1>5, <1>6, <1>7, <1>8, <1>9, <1>10, <1>11
  DEF Next

-----------------------------------------------------------------------------
LEMMA StepGuarded ==
    SafeFSTypeOK /\ Sound /\ Guarded /\ [Next]_vars => Guarded'
<1> SUFFICES ASSUME SafeFSTypeOK, Sound, Guarded, [Next]_vars PROVE Guarded'
  OBVIOUS
<1> USE SafeFSAssumption
    DEF SafeFSTypeOK, names, data, procs, Paths, Sound, Opened, Locking,
        Guarded, Held, Pinned
<1>1. ASSUME NEW p \in Procs,
             Create(p) \/ Fill(p) \/ Sync(p) \/ Finish(p) \/ OpenFile(p) \/ ReadAll(p)
      PROVE  Guarded'
  BY <1>1
  DEF Create, Fill, Sync, Finish, OpenFile, ReadAll, Goto, Discard, Leave
<1>2. ASSUME NEW p \in Procs, Rename(p) PROVE Guarded'
  BY <1>2 DEF Rename, Name, Goto, Discard, Leave
<1>3. ASSUME NEW p \in Procs, OpenLock(p) PROVE Guarded'
  BY <1>3 DEF OpenLock, Name, Goto
<1>4. ASSUME NEW p \in Procs, Flock(p) PROVE Guarded'
  BY <1>4 DEF Flock, Goto, Leave
<1>5. ASSUME NEW p \in Procs, Release(p) \/ Crash(p) PROVE Guarded'
  BY <1>5 DEF Release, Crash, Unlocked, Goto, Leave
<1>6. ASSUME NEW x \in Paths, RemoveFile(x) PROVE Guarded'
  BY <1>6 DEF RemoveFile, Name
<1>7. CASE PowerLoss
  BY <1>7 DEF PowerLoss
<1>8. CASE UNCHANGED vars
  BY <1>8 DEF vars
<1> QED
  BY <1>1, <1>2, <1>3, <1>4, <1>5, <1>6, <1>7, <1>8 DEF Next

LEMMA AlwaysSound == Spec => [](SafeFSTypeOK /\ Sound /\ Guarded)
BY InitSound, StepType, StepSound, StepGuarded, PTL DEF Spec

\* Every variable of the file system holds a value of its kind.
THEOREM SafeFSTypeCorrect == Spec => []SafeFSTypeOK
BY AlwaysSound, PTL

\* While no uninstall has removed the lock file from under a process, two
\* processes never hold the lock at once (safefs.go:237-280).
THEOREM LockIsExclusive == Spec => []OneHolder
<1>1. SafeFSTypeOK /\ Guarded => OneHolder
  BY DEF Guarded, Held, Pinned, OneHolder, Locking
<1> QED
  BY <1>1, AlwaysSound, PTL

-----------------------------------------------------------------------------
\* The file as a reader of AtomicFile sees it.
content == Content(entry["file"])
spare == {Content(i) : i \in kept["file"]}
seen == [p \in Procs |-> IF pc[p] = "read" THEN body[node[p]] ELSE None]

\* A step that leaves alone the file and every inode it may name or a reader
\* has open changes nothing of AtomicFile.
LEMMA SameFile ==
    ASSUME SafeFSTypeOK, Sound,
           entry'["file"] = entry["file"], kept'["file"] = kept["file"],
           \A i \in kept["file"] \ {None} : body'[i] = body[i],
           \A p \in Procs : (pc'[p] = "read") <=> (pc[p] = "read"),
           \A p \in Procs :
              pc[p] = "read" => node'[p] = node[p] /\ body'[node[p]] = body[node[p]]
    PROVE  UNCHANGED <<content, spare, seen>>
<1>1. \A i \in kept["file"] : Content(i)' = Content(i)
  BY DEF Content
<1>2. entry["file"] \in kept["file"]
  BY DEF SafeFSTypeOK, Paths
<1>3. content' = content /\ spare' = spare
  BY <1>1, <1>2 DEF content, spare, Content
<1>4. seen' = seen
  BY DEF seen
<1> QED
  BY <1>3, <1>4

\* What a path may name has contents of its own.
LEMMA NamedIsDocument ==
    ASSUME SafeFSTypeOK, Sound, entry["file"] # None
    PROVE  /\ entry["file"] \in Inodes
           /\ body[entry["file"]] \in Documents
BY DEF SafeFSTypeOK, Sound, Durable, Paths

LEMMA InitAtomic == Init => File!Init
BY DEF Init, File!Init, Content, Paths

LEMMA StepAtomic ==
    SafeFSTypeOK /\ Sound /\ [Next]_vars => [File!Next]_(File!vars)
<1> SUFFICES ASSUME SafeFSTypeOK, Sound, [Next]_vars
             PROVE  File!Next \/ UNCHANGED <<content, spare, seen>>
  BY DEF File!vars, content, spare, seen
<1> USE SafeFSAssumption
    DEF SafeFSTypeOK, Sound, Opened, Private, Durable, Writing, names, data,
        procs, Paths
<1>1. ASSUME NEW p \in Procs, Create(p)
      PROVE  UNCHANGED <<content, spare, seen>>
  BY <1>1, FreeIsNew, SameFile DEF Create, Goto
<1>2. ASSUME NEW p \in Procs, Fill(p)
      PROVE  UNCHANGED <<content, spare, seen>>
  BY <1>2, SameFile DEF Fill, Goto, Discard, Leave
<1>3. ASSUME NEW p \in Procs, Sync(p)
      PROVE  UNCHANGED <<content, spare, seen>>
  BY <1>3, SameFile DEF Sync, Goto, Discard, Leave
<1>4. ASSUME NEW p \in Procs, Rename(p)
      PROVE  File!Replace \/ UNCHANGED <<content, spare, seen>>
  <2>1. CASE Discard(p)
    BY <1>4, <2>1, SameFile DEF Rename, Discard, Leave, Goto
  <2>2. CASE ~Discard(p)
    <3>1. /\ pc[p] = "rename"
          /\ entry'["file"] = node[p]
          /\ kept'["file"] = kept["file"] \cup {node[p]}
          /\ node' = node /\ body' = body
          /\ \A q \in Procs : (pc'[q] = "read") <=> (pc[q] = "read")
      BY <1>4, <2>2 DEF Rename, Name, Goto
    <3>2. content' \in Documents /\ spare' = spare \cup {content'}
      BY <3>1 DEF content, spare, Content, Written
    <3>3. seen' = seen
      BY <3>1 DEF seen
    <3> QED
      BY <3>2, <3>3 DEF File!Replace, content, spare, seen
  <2> QED
    BY <2>1, <2>2
<1>5. ASSUME NEW p \in Procs, Finish(p)
      PROVE  File!Settle \/ UNCHANGED <<content, spare, seen>>
  <2>1. CASE kept' = kept
    BY <1>5, <2>1, SameFile DEF Finish, Leave, Goto
  <2>2. CASE kept' = [x \in Paths |-> {entry[x]}]
    <3>1. content' = content /\ spare' = {content}
      BY <1>5, <2>2 DEF Finish, content, spare, Content
    <3>2. seen' = seen
      BY <1>5 DEF Finish, Leave, Goto, seen
    <3> QED
      BY <3>1, <3>2 DEF File!Settle, content, spare, seen
  <2> QED
    BY <1>5, <2>1, <2>2 DEF Finish
<1>6. ASSUME NEW p \in Procs, OpenFile(p) PROVE File!BeginRead(p)
  <2>1. content # None /\ content' = content /\ spare' = spare
    BY <1>6, NamedIsDocument DEF OpenFile, content, spare, Content
  <2>2. seen' = [seen EXCEPT ![p] = content]
    BY <1>6, NamedIsDocument DEF OpenFile, Goto, seen, content, Content
  <2> QED
    BY <2>1, <2>2 DEF File!BeginRead, content, spare, seen
<1>7. ASSUME NEW p \in Procs, pc[p] = "read", Leave(p),
             entry' = entry, kept' = kept, body' = body
      PROVE  File!EndRead(p)
  <2>1. content' = content /\ spare' = spare
    BY <1>7 DEF content, spare, Content
  <2>2. seen' = [seen EXCEPT ![p] = None]
    BY <1>7 DEF Leave, Goto, seen
  <2> QED
    BY <2>1, <2>2 DEF File!EndRead, content, spare, seen
<1>8. ASSUME NEW p \in Procs, ReadAll(p) PROVE File!EndRead(p)
  BY <1>7, <1>8 DEF ReadAll
<1>9. ASSUME NEW p \in Procs, OpenLock(p)
      PROVE  UNCHANGED <<content, spare, seen>>
  BY <1>9, SameFile DEF OpenLock, Name, Goto
<1>10. ASSUME NEW p \in Procs, Flock(p) \/ Release(p)
       PROVE  UNCHANGED <<content, spare, seen>>
  BY <1>10, SameFile DEF Flock, Release, Goto, Leave
<1>11. ASSUME NEW p \in Procs, Crash(p)
       PROVE  File!EndRead(p) \/ UNCHANGED <<content, spare, seen>>
  <2>1. CASE pc[p] = "read"
    BY <1>7, <1>11, <2>1 DEF Crash
  <2>2. CASE pc[p] # "read"
    BY <1>11, <2>2, SameFile DEF Crash, Goto, Leave
  <2> QED
    BY <2>1, <2>2
<1>12. CASE RemoveFile("file")
  <2>1. content' = None /\ spare' = spare \cup {None}
    BY <1>12 DEF RemoveFile, Name, content, spare, Content
  <2>2. seen' = seen
    BY <1>12 DEF RemoveFile, seen
  <2> QED
    BY <2>1, <2>2 DEF File!Remove, File!Next, content, spare, seen
<1>13. CASE RemoveFile("lock")
  BY <1>13, SameFile DEF RemoveFile, Name
<1>14. CASE PowerLoss
  <2>1. entry'["file"] \in kept["file"] /\ kept'["file"] = {entry'["file"]}
    BY <1>14 DEF PowerLoss
  <2>2. content' = Content(entry'["file"])
    BY <1>14, <2>1 DEF PowerLoss, content, Content
  <2>3. content' \in spare /\ spare' = {content'}
    BY <2>1, <2>2 DEF content, spare
  <2>4. seen' = [p \in Procs |-> None]
    BY <1>14 DEF PowerLoss, seen
  <2> QED
    BY <2>3, <2>4 DEF File!PowerLoss, File!Next, content, spare, seen
<1>15. CASE UNCHANGED vars
  BY <1>15 DEF vars, content, spare, seen, Content
<1> QED
  BY <1>1, <1>2, <1>3, <1>4, <1>5, <1>6, <1>8, <1>9, <1>10, <1>11, <1>12,
     <1>13, <1>14, <1>15
  DEF Next, File!Next

\* Whatever fails, is killed or loses its power, the file holds one document or
\* none, and a reader the one it opened (safefs.go:142-235).
THEOREM FileIsAtomic == Spec => ImplementsAtomicFile
BY InitAtomic, StepAtomic, AlwaysSound, PTL
DEF Spec, ImplementsAtomicFile, File!Spec
=============================================================================

---------------------- MODULE UploadDiskIOThread_proofs ----------------------
(***************************************************************************)
(* The safety invariants of UploadDiskIOThread, for any number of clients  *)
(* and paths and any length of the queue.                                  *)
(***************************************************************************)
EXTENDS UploadDiskIOThread, TLAPS

(* The path the main thread is about to rename is on hold until it has     *)
(* done so.  That is what keeps the worker from opening a reader on it     *)
(* between releaseFile() and the rename.                                   *)
RenamingIsHeld == main = "rename" => renaming \in m_releasedPaths

(* The inductive invariant. *)
IInv ==
  /\ TypeOK
  /\ ReadersExist
  /\ ReleasedIsClosed
  /\ SleeperIsNotified
  /\ RenamingIsHeld

(* The states UploadDiskIOThread() starts from satisfy the invariant. *)
LEMMA InitIInv == Init => IInv
<1> SUFFICES ASSUME Init PROVE IInv
  OBVIOUS
<1> USE PathsAssumption DEF Init
<1>1. TypeOK
  <2>1. m_requestQueue \in Seq(Requests)
    OBVIOUS
  <2> QED
    BY <2>1 DEF TypeOK
<1>2. ReadersExist /\ ReleasedIsClosed
  BY DEF ReadersExist, ReleasedIsClosed
<1>3. SleeperIsNotified /\ RenamingIsHeld
  BY DEF SleeperIsNotified, RenamingIsHeld
<1> QED
  BY <1>1, <1>2, <1>3 DEF IInv

(* Every step keeps the types, and only open readers idle. *)
LEMMA NextTypeOK == TypeOK /\ [Next]_vars => TypeOK'
<1> SUFFICES ASSUME TypeOK, [Next]_vars PROVE TypeOK'
  OBVIOUS
<1> USE PathsAssumption
<1>1. ASSUME NEW c \in Clients, NEW p \in Paths, queueBlockRead(c, p) PROVE TypeOK'
  <2>1. [client |-> c, path |-> p] \in Requests
    BY DEF Requests
  <2> QED
    BY <1>1, <2>1 DEF TypeOK, queueBlockRead, readerVars, diskVars
<1>2. ASSUME NEW c \in Clients, releaseClient(c) PROVE TypeOK'
  BY <1>2 DEF TypeOK, releaseClient, diskVars
<1>3. ASSUME NEW c \in Clients, ReaderIdle(c) PROVE TypeOK'
  BY <1>3 DEF TypeOK, ReaderIdle, diskVars
<1>4. ASSUME NEW p \in Paths, releaseFile(p) PROVE TypeOK'
  BY <1>4 DEF TypeOK, releaseFile, ReadersOn
<1>5. ASSUME NEW p \in Paths, createFile(p) PROVE TypeOK'
  BY <1>5 DEF TypeOK, createFile, readerVars
<1>6. ASSUME NEW p \in Paths, HoldExpires(p) PROVE TypeOK'
  BY <1>6 DEF TypeOK, HoldExpires, readerVars
<1>7. CASE notifyOne
  BY <1>7 DEF TypeOK, notifyOne, Notified, readerVars, diskVars
<1>8. CASE renameFile
  BY <1>8 DEF TypeOK, renameFile, readerVars
<1>9. CASE endThread
  BY <1>9 DEF TypeOK, endThread, readerVars, diskVars
<1>10. CASE notifyAll
  BY <1>10 DEF TypeOK, notifyAll, Notified, readerVars, diskVars
<1>11. CASE threadEnded
  BY <1>11 DEF TypeOK, threadEnded, readerVars, diskVars
<1>12. CASE runTop
  BY <1>12 DEF TypeOK, runTop, m_haveReaders, readerVars, diskVars
<1>13. CASE runPark \/ runWait
  BY <1>13 DEF TypeOK, runPark, runWait, readerVars, diskVars
<1>14. CASE runTake
  <2>1. CASE m_run
    <3>1. m_requestQueue # << >>
      BY <1>14, <2>1 DEF runTake, Ready
    <3>2. Head(m_requestQueue) \in Requests /\ Tail(m_requestQueue) \in Seq(Requests)
      BY <3>1 DEF TypeOK
    <3> QED
      BY <1>14, <2>1, <3>2 DEF TypeOK, runTake, readerVars, diskVars
  <2>2. CASE ~m_run
    BY <1>14, <2>2 DEF TypeOK, runTake, readerVars, diskVars
  <2> QED
    BY <2>1, <2>2
<1>15. CASE runTimeout
  BY <1>15 DEF TypeOK, runTimeout, readerVars, diskVars
<1>16. CASE readBlock
  <2>1. req.client \in Clients /\ req.path \in Paths
    BY DEF TypeOK, Requests
  <2> QED
    BY <1>16, <2>1 DEF TypeOK, readBlock, readerVars, diskVars
<1>17. CASE UNCHANGED vars
  BY <1>17 DEF TypeOK, vars
<1> QED
  BY <1>1, <1>2, <1>3, <1>4, <1>5, <1>6, <1>7, <1>8, <1>9, <1>10, <1>11, <1>12, <1>13,
     <1>14, <1>15, <1>16, <1>17 DEF Next, WorkerNext, Ended

(* Every step keeps readers off paths that are gone and off paths on hold. *)
LEMMA NextReaders ==
  IInv /\ [Next]_vars => ReadersExist' /\ ReleasedIsClosed' /\ RenamingIsHeld'
<1> SUFFICES ASSUME IInv, [Next]_vars
             PROVE ReadersExist' /\ ReleasedIsClosed' /\ RenamingIsHeld'
  OBVIOUS
<1> USE PathsAssumption DEF IInv, ReadersExist, ReleasedIsClosed, RenamingIsHeld
<1>1. ASSUME NEW c \in Clients, NEW p \in Paths, queueBlockRead(c, p)
      PROVE ReadersExist' /\ ReleasedIsClosed' /\ RenamingIsHeld'
  BY <1>1 DEF queueBlockRead, readerVars, diskVars
<1>2. ASSUME NEW c \in Clients, releaseClient(c)
      PROVE ReadersExist' /\ ReleasedIsClosed' /\ RenamingIsHeld'
  BY <1>2 DEF TypeOK, releaseClient, diskVars
<1>3. ASSUME NEW c \in Clients, ReaderIdle(c)
      PROVE ReadersExist' /\ ReleasedIsClosed' /\ RenamingIsHeld'
  BY <1>3 DEF ReaderIdle, diskVars
<1>4. ASSUME NEW p \in Paths, releaseFile(p)
      PROVE ReadersExist' /\ ReleasedIsClosed' /\ RenamingIsHeld'
  BY <1>4 DEF TypeOK, releaseFile
<1>5. ASSUME NEW p \in Paths, createFile(p)
      PROVE ReadersExist' /\ ReleasedIsClosed' /\ RenamingIsHeld'
  BY <1>5 DEF createFile, readerVars
<1>6. ASSUME NEW p \in Paths, HoldExpires(p)
      PROVE ReadersExist' /\ ReleasedIsClosed' /\ RenamingIsHeld'
  BY <1>6 DEF HoldExpires, readerVars
<1>7. CASE renameFile
  <2>1. \A c \in Clients : m_readers[c] # renaming
    BY <1>7 DEF renameFile
  <2> QED
    BY <1>7, <2>1 DEF renameFile, readerVars
<1>8. CASE notifyOne \/ endThread \/ notifyAll \/ threadEnded
  BY <1>8 DEF notifyOne, endThread, notifyAll, threadEnded, readerVars, diskVars
<1>9. CASE runTop \/ runPark \/ runWait \/ runTake
  BY <1>9 DEF runTop, runPark, runWait, runTake, readerVars, diskVars
<1>10. CASE runTimeout
  BY <1>10 DEF TypeOK, runTimeout, readerVars, diskVars
<1>11. CASE readBlock
  BY <1>11 DEF TypeOK, readBlock, readerVars, diskVars
<1>12. CASE UNCHANGED vars
  BY <1>12 DEF vars
<1> QED
  BY <1>1, <1>2, <1>3, <1>4, <1>5, <1>6, <1>7, <1>8, <1>9, <1>10, <1>11, <1>12
  DEF Next, WorkerNext, Ended

(* Every step keeps a sleeping worker about to be notified of a request.   *)
(* queueBlockRead() cannot run while the worker parks, inside m_mutex.     *)
LEMMA NextSleeper == IInv /\ [Next]_vars => SleeperIsNotified'
<1> SUFFICES ASSUME IInv, [Next]_vars PROVE SleeperIsNotified'
  OBVIOUS
<1> USE DEF IInv, SleeperIsNotified
<1>1. ASSUME NEW c \in Clients, NEW p \in Paths, queueBlockRead(c, p) PROVE SleeperIsNotified'
  BY <1>1 DEF queueBlockRead
<1>2. ASSUME NEW c \in Clients, releaseClient(c) \/ ReaderIdle(c) PROVE SleeperIsNotified'
  BY <1>2 DEF releaseClient, ReaderIdle
<1>3. ASSUME NEW p \in Paths, releaseFile(p) \/ createFile(p) \/ HoldExpires(p)
      PROVE SleeperIsNotified'
  BY <1>3 DEF releaseFile, createFile, HoldExpires
<1>4. CASE notifyOne \/ notifyAll
  BY <1>4 DEF notifyOne, notifyAll, Notified
<1>5. CASE renameFile \/ endThread \/ threadEnded
  BY <1>5 DEF renameFile, endThread, threadEnded
<1>6. CASE runTop \/ runPark \/ runWait
  BY <1>6 DEF runTop, runPark, runWait, Ready
<1>7. CASE runTake \/ runTimeout \/ readBlock
  BY <1>7 DEF runTake, runTimeout, readBlock, readerVars
<1>8. CASE UNCHANGED vars
  BY <1>8 DEF vars
<1> QED
  BY <1>1, <1>2, <1>3, <1>4, <1>5, <1>6, <1>7, <1>8 DEF Next, WorkerNext, Ended

(* UploadDiskIOThread.cpp: whatever the interleaving of the worker's       *)
(* reads, the queue, renames, deletions and expired holds, no reader is    *)
(* open on a path that is gone, on hold or a part file's, and no worker    *)
(* sleeps on a request nobody will tell it of.                             *)
THEOREM Safety ==
  Spec => [](TypeOK /\ ReadersAreCurrent /\ SleeperIsNotified)
<1>1. IInv /\ [Next]_vars => IInv'
  BY NextTypeOK, NextReaders, NextSleeper DEF IInv
<1>2. IInv => TypeOK /\ ReadersAreCurrent /\ SleeperIsNotified
  BY DEF IInv, ReadersAreCurrent
<1> QED
  BY InitIInv, <1>1, <1>2, PTL DEF Spec
=============================================================================

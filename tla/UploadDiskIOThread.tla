------------------------- MODULE UploadDiskIOThread -------------------------
(***************************************************************************)
(* The disk-read worker of the upload side                                 *)
(* (core/transfer/UploadDiskIOThread.cpp): the request queue with its      *)
(* condition variable, the readers it keeps open per client, the paths on  *)
(* hold because the main thread is about to rename or delete them, and the *)
(* way the main thread ends the worker.                                    *)
(*                                                                         *)
(* A step is one critical section of m_mutex or of m_readerMutex, with one *)
(* refinement: a thread that found nothing to do is "parking", still       *)
(* inside m_mutex but not yet waiting, because endThread() notifies        *)
(* without the mutex and can do so just then.  What the blocks contain and *)
(* who asked for them is left to UploadBlocks.                             *)
(***************************************************************************)
EXTENDS Naturals, Sequences

CONSTANTS Clients,
          Paths,       \* places of files on disk
          PartPaths,   \* those of part files
          NoPath,
          MaxQueue     \* bound on the requests waiting

ASSUME PathsAssumption == PartPaths \subseteq Paths /\ NoPath \notin Paths
ASSUME MaxQueueAssumption == MaxQueue \in Nat \ {0}

VARIABLES
  m_run,
  m_requestQueue,      \* [client, path], oldest first
  worker,              \* where run() is
  timed,               \* whether its wait has a timeout
  req,                 \* the request it reads, when worker = "reading"
  m_readers,           \* per client: the path its reader has open, or NoPath
  idle,                \* clients whose reader has been unused for m_idleCloseMs
  m_releasedPaths,     \* paths on hold
  onDisk,              \* paths that exist
  main,                \* where the main thread is
  renaming             \* the path it is about to rename or delete, or NoPath

readerVars == <<m_readers, idle>>
diskVars == <<m_releasedPaths, onDisk, renaming>>
vars == <<m_run, m_requestQueue, worker, timed, req, m_readers, idle, m_releasedPaths,
          onDisk, main, renaming>>

Requests == [client : Clients, path : Paths]

m_haveReaders == \E c \in Clients : m_readers[c] # NoPath

Init ==
  /\ m_run = TRUE
  /\ m_requestQueue = << >>
  /\ worker = "top"
  /\ timed = FALSE
  /\ req \in Requests
  /\ m_readers = [c \in Clients |-> NoPath]
  /\ idle = {}
  /\ m_releasedPaths = {}
  /\ onDisk = Paths
  /\ main = "loop"
  /\ renaming = NoPath

(* A notification reaches a worker that waits, no other. *)
Notified == IF worker = "waiting" THEN "check" ELSE worker

(***************************************************************************)
(* The main thread.                                                        *)
(***************************************************************************)

(* Mutant of queueBlockRead: the queue is changed outside m_mutex. *)
queueBlockReadUnlocked(c, p) ==
  /\ main = "loop"
  /\ Len(m_requestQueue) < MaxQueue
  /\ m_requestQueue' = Append(m_requestQueue, [client |-> c, path |-> p])
  /\ main' = "notify"
  /\ UNCHANGED <<m_run, worker, timed, req, readerVars, diskVars>>

(* queueBlockRead(): the request joins the queue under m_mutex. *)
queueBlockRead(c, p) ==
  /\ main = "loop"
  /\ worker # "parking"
  /\ Len(m_requestQueue) < MaxQueue
  /\ m_requestQueue' = Append(m_requestQueue, [client |-> c, path |-> p])
  /\ main' = "notify"
  /\ UNCHANGED <<m_run, worker, timed, req, readerVars, diskVars>>

(* m_condition.notify_one(), after the mutex is released. *)
notifyOne ==
  /\ main = "notify"
  /\ worker' = Notified
  /\ main' = "loop"
  /\ UNCHANGED <<m_run, m_requestQueue, timed, req, readerVars, diskVars>>

(* Mutant of releaseClient: the reader goes, its last use stays. *)
releaseClientKeepingIdle(c) ==
  /\ main = "loop"
  /\ m_readers[c] # NoPath
  /\ m_readers' = [m_readers EXCEPT ![c] = NoPath]
  /\ UNCHANGED <<m_run, m_requestQueue, worker, timed, req, idle, diskVars, main>>

(* releaseClient(): the client left the upload queue. *)
releaseClient(c) ==
  /\ main = "loop"
  /\ m_readers[c] # NoPath
  /\ m_readers' = [m_readers EXCEPT ![c] = NoPath]
  /\ idle' = idle \ {c}
  /\ UNCHANGED <<m_run, m_requestQueue, worker, timed, req, diskVars, main>>

ReadersOn(p) == {c \in Clients : m_readers[c] = p}

(* Mutant of releaseFile: the readers are closed but the path is not kept  *)
(* uncached.                                                               *)
releaseFileWithoutHold(p) ==
  /\ main = "loop"
  /\ p \in onDisk \ PartPaths
  /\ m_readers' = [c \in Clients |-> IF m_readers[c] = p THEN NoPath ELSE m_readers[c]]
  /\ idle' = idle \ ReadersOn(p)
  /\ main' = "rename"
  /\ renaming' = p
  /\ UNCHANGED <<m_run, m_requestQueue, worker, timed, req, m_releasedPaths, onDisk>>

(* releaseFile(): every reader on the path is closed and the path is put   *)
(* on hold; renameSharedFile() and cancelFile() call it before they touch  *)
(* the file.                                                               *)
releaseFile(p) ==
  /\ main = "loop"
  /\ p \in onDisk \ PartPaths
  /\ m_readers' = [c \in Clients |-> IF m_readers[c] = p THEN NoPath ELSE m_readers[c]]
  /\ idle' = idle \ ReadersOn(p)
  /\ m_releasedPaths' = m_releasedPaths \cup {p}
  /\ main' = "rename"
  /\ renaming' = p
  /\ UNCHANGED <<m_run, m_requestQueue, worker, timed, req, onDisk>>

(* QFile::rename() or QFile::remove(), in the same call on the main        *)
(* thread; it may fail.                                                    *)
renameFile ==
  /\ main = "rename"
  /\ onDisk' \in {onDisk, onDisk \ {renaming}}
  /\ main' = "loop"
  /\ renaming' = NoPath
  /\ UNCHANGED <<m_run, m_requestQueue, worker, timed, req, readerVars, m_releasedPaths>>

(* Another file of the program (a rename, a completed download) takes the  *)
(* path.                                                                   *)
createFile(p) ==
  /\ main = "loop"
  /\ p \notin onDisk
  /\ onDisk' = onDisk \cup {p}
  /\ UNCHANGED <<m_run, m_requestQueue, worker, timed, req, readerVars, m_releasedPaths,
                 main, renaming>>

(* kReleaseHoldMs have passed.  The rename itself is assumed to take less. *)
HoldExpires(p) ==
  /\ p \in m_releasedPaths
  /\ p # renaming
  /\ m_releasedPaths' = m_releasedPaths \ {p}
  /\ UNCHANGED <<m_run, m_requestQueue, worker, timed, req, readerVars, onDisk, main, renaming>>

(* A reader has been unused for m_idleCloseMs. *)
ReaderIdle(c) ==
  /\ m_readers[c] # NoPath
  /\ c \notin idle
  /\ idle' = idle \cup {c}
  /\ UNCHANGED <<m_run, m_requestQueue, worker, timed, req, m_readers, diskVars, main>>

(* endThread(): m_run is stored without the mutex. *)
endThread ==
  /\ main = "loop"
  /\ m_run' = FALSE
  /\ main' = "notifyAll"
  /\ UNCHANGED <<m_requestQueue, worker, timed, req, readerVars, diskVars>>

(* notify_all(), then QThread::wait(). *)
notifyAll ==
  /\ main = "notifyAll"
  /\ worker' = Notified
  /\ main' = "wait"
  /\ UNCHANGED <<m_run, m_requestQueue, timed, req, readerVars, diskVars>>

threadEnded ==
  /\ main = "wait"
  /\ worker = "returned"
  /\ main' = "gone"
  /\ UNCHANGED <<m_run, m_requestQueue, worker, timed, req, readerVars, diskVars>>

(***************************************************************************)
(* run(), on the worker thread.                                            *)
(***************************************************************************)

(* The loop condition, and the choice between a wait with a timeout and    *)
(* one without.                                                            *)
runTop ==
  /\ worker = "top"
  /\ worker' = IF m_run THEN "check" ELSE "returned"
  /\ timed' = m_haveReaders
  /\ UNCHANGED <<m_run, m_requestQueue, req, readerVars, diskVars, main>>

Ready == m_requestQueue # << >> \/ ~m_run

(* Mutant of runPark: the wait has no test. *)
runParkBlindly ==
  /\ worker = "check"
  /\ worker' = "parking"
  /\ UNCHANGED <<m_run, m_requestQueue, timed, req, readerVars, diskVars, main>>

(* ready() is false: the thread is going to wait, inside m_mutex until it  *)
(* does.                                                                   *)
runPark ==
  /\ worker = "check"
  /\ ~Ready
  /\ worker' = "parking"
  /\ UNCHANGED <<m_run, m_requestQueue, timed, req, readerVars, diskVars, main>>

runWait ==
  /\ worker = "parking"
  /\ worker' = "waiting"
  /\ UNCHANGED <<m_run, m_requestQueue, timed, req, readerVars, diskVars, main>>

(* ready() is true: stop, or take the oldest request. *)
runTake ==
  /\ worker = "check"
  /\ Ready
  /\ IF m_run
     THEN /\ req' = Head(m_requestQueue)
          /\ m_requestQueue' = Tail(m_requestQueue)
          /\ worker' = "reading"
     ELSE /\ worker' = "returned"
          /\ UNCHANGED <<req, m_requestQueue>>
  /\ UNCHANGED <<m_run, timed, readerVars, diskVars, main>>

(* wait_for() times out with nothing to do: closeIdleReaders(). *)
runTimeout ==
  /\ worker = "waiting"
  /\ timed
  /\ IF Ready
     THEN /\ worker' = "check"
          /\ UNCHANGED readerVars
     ELSE /\ worker' = "top"
          /\ m_readers' = [c \in Clients |-> IF c \in idle THEN NoPath ELSE m_readers[c]]
          /\ idle' = {}
  /\ UNCHANGED <<m_run, m_requestQueue, timed, req, diskVars, main>>

(* Mutant of readBlock: the reader of a failed open is kept. *)
readBlockKeepingFailed ==
  /\ worker = "reading"
  /\ \/ /\ req.path \in PartPaths \cup m_releasedPaths
        /\ UNCHANGED readerVars
     \/ /\ req.path \notin PartPaths \cup m_releasedPaths
        /\ m_readers' = [m_readers EXCEPT ![req.client] = req.path]
        /\ idle' = idle \ {req.client}
  /\ worker' = "top"
  /\ UNCHANGED <<m_run, m_requestQueue, timed, req, diskVars, main>>

(* readBlock(), readRange(), readUncached(), under m_readerMutex: a part   *)
(* file and a path on hold are opened and closed again; any other file     *)
(* gets the client's reader, in place of one on another path.  A failed    *)
(* read drops the reader.  The result is posted either way.                *)
readBlock ==
  /\ worker = "reading"
  /\ \/ /\ req.path \in onDisk
        /\ req.path \in PartPaths \cup m_releasedPaths
        /\ UNCHANGED readerVars
     \/ /\ req.path \in onDisk
        /\ req.path \notin PartPaths \cup m_releasedPaths
        /\ m_readers' = [m_readers EXCEPT ![req.client] = req.path]
        /\ idle' = idle \ {req.client}
     \/ /\ m_readers' = [m_readers EXCEPT ![req.client] = NoPath]
        /\ idle' = idle \ {req.client}
  /\ worker' = "top"
  /\ UNCHANGED <<m_run, m_requestQueue, timed, req, diskVars, main>>

(* The main thread has gone on without the worker. *)
Ended == main = "gone" /\ UNCHANGED vars

WorkerNext == runTop \/ runPark \/ runWait \/ runTake \/ readBlock

Next ==
  \/ \E c \in Clients, p \in Paths : queueBlockRead(c, p)
  \/ \E c \in Clients : releaseClient(c) \/ ReaderIdle(c)
  \/ \E p \in Paths : releaseFile(p) \/ createFile(p) \/ HoldExpires(p)
  \/ notifyOne
  \/ renameFile
  \/ endThread
  \/ notifyAll
  \/ threadEnded
  \/ WorkerNext
  \/ runTimeout
  \/ Ended

(* The worker runs, a timeout that nothing interrupts expires, and the     *)
(* main thread finishes the calls it is in.  Nobody has to ask, to rename  *)
(* or to quit.                                                             *)
Fairness ==
  /\ WF_vars(WorkerNext)
  /\ WF_vars(runTimeout)
  /\ WF_vars(notifyOne)
  /\ WF_vars(renameFile)
  /\ WF_vars(notifyAll)
  /\ WF_vars(threadEnded)

Spec == Init /\ [][Next]_vars /\ Fairness

(***************************************************************************)
(* Properties.                                                             *)
(***************************************************************************)

(* Every variable stays in its range, and only an open reader is idle. *)
TypeOK ==
  /\ m_run \in BOOLEAN
  /\ m_requestQueue \in Seq(Requests)
  /\ worker \in {"top", "check", "parking", "waiting", "reading", "returned"}
  /\ timed \in BOOLEAN
  /\ req \in Requests
  /\ m_readers \in [Clients -> Paths \cup {NoPath}]
  /\ idle \subseteq {c \in Clients : m_readers[c] # NoPath}
  /\ m_releasedPaths \subseteq Paths
  /\ onDisk \subseteq Paths
  /\ main \in {"loop", "notify", "rename", "notifyAll", "wait", "gone"}
  /\ renaming \in Paths \cup {NoPath}

(* onSharedFileRemoved(): "A reader keeps the file open; on POSIX a        *)
(* deleted one would go on being served from its unlinked inode and hold   *)
(* its disk space."  No reader is open on a path the program has renamed   *)
(* or deleted, although requests for it may still be queued, or be read    *)
(* between releaseFile() and the rename.                                   *)
ReadersExist == \A c \in Clients : m_readers[c] \in onDisk \cup {NoPath}

(* A path on hold has no reader, so the rename or delete it is released    *)
(* for never meets an open handle, and a part file never has one.          *)
ReleasedIsClosed ==
  \A c \in Clients : m_readers[c] \notin m_releasedPaths \cup PartPaths

(* A reader is open only on a path that is there and not about to go.      *)
ReadersAreCurrent == ReadersExist /\ ReleasedIsClosed

(* run(), queueBlockRead(): a worker that sleeps on a non-empty queue is   *)
(* about to be notified, although the notification comes outside m_mutex.  *)
SleeperIsNotified ==
  m_requestQueue # << >> =>
    worker # "parking" /\ (worker = "waiting" => main = "notify")

(* run(), queueBlockRead(): no wake-up for a request is lost.  Whatever    *)
(* the worker was doing, a queued request gets it out of its wait, and the *)
(* queue is not left alone while the worker sleeps, unless the thread is   *)
(* being ended.                                                            *)
RequestsAreRead ==
  \A c \in Clients, p \in Paths :
    (m_requestQueue # << >> /\ Head(m_requestQueue) = [client |-> c, path |-> p])
      ~> (worker = "reading" \/ ~m_run)

(* UploadDiskIOThread.h: "A reader unused this long is closed."  It is     *)
(* closed by the timeout of a wait, which a request for any other client   *)
(* keeps from happening.  (Ending the thread closes them all.)             *)
IdleReaderIsClosed == \A c \in Clients : (c \in idle) ~> (c \notin idle \/ ~m_run)

(* endThread() returns, with the thread ended: tst_UploadDiskIOThread's    *)
(* "QVERIFY(!thread.isRunning())" after it.  The flag and the notification *)
(* may both come while the worker is about to wait.                        *)
EndThreadReturns == main = "wait" ~> main = "gone"
=============================================================================

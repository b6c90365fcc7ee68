------------------------ MODULE PartFileWriteThread ------------------------
(***************************************************************************)
(* The disk-write worker (core/files/PartFileWriteThread.cpp) and the      *)
(* three ways the downloads on the main thread use it: flushBufferAsync    *)
(* hands a job over, onJobDone delivers its result from the event loop,    *)
(* and waitFor collects it synchronously (flushBuffer, ~PartFile).         *)
(*                                                                         *)
(* Every action is one critical section of m_mutex, or a stretch of code   *)
(* between two of them that no other thread can observe half-way.  What a  *)
(* job writes is left to PartFile; here a job is its token.                *)
(***************************************************************************)
EXTENDS Naturals, Sequences

CONSTANTS Files,       \* the downloads: PartFile objects
          NoFile,
          MaxToken     \* bound on the jobs ever handed over

ASSUME FilesAssumption == NoFile \notin Files
ASSUME MaxTokenAssumption == MaxToken \in Nat

VARIABLES
  serial,              \* nextToken()'s counter; 0 is "no token"
  m_queue,             \* tokens of the jobs waiting, oldest first
  m_runningToken,      \* token of the job the worker executes, or 0
  m_results,           \* tokens whose result waits to be taken
  m_owners,            \* pairs <<token, file>>
  m_stopRequested,
  worker,              \* where run() is
  emitToken,           \* run()'s local copy of the token it signals
  posted,              \* jobDone events queued for the main thread, oldest first
  main,                \* where the main thread is
  caller,              \* the file whose waitFor() the main thread is in
  m_flushToken,        \* per file: the job it has out, or 0
  life                 \* per file: "live", "destroying" (in ~PartFile) or "gone"

threadVars == <<m_runningToken, m_results, m_stopRequested, emitToken>>
vars == <<serial, m_queue, m_runningToken, m_results, m_owners, m_stopRequested,
          worker, emitToken, posted, main, caller, m_flushToken, life>>

Tokens == 1 .. MaxToken

Init ==
  /\ serial = 0
  /\ m_queue = << >>
  /\ m_runningToken = 0
  /\ m_results = {}
  /\ m_owners = {}
  /\ m_stopRequested = FALSE
  /\ worker = "check"
  /\ emitToken = 0
  /\ posted = << >>
  /\ main = "loop"
  /\ caller = NoFile
  /\ m_flushToken = [f \in Files |-> 0]
  /\ life = [f \in Files |-> "live"]

(***************************************************************************)
(* The main thread's side of the queue.                                    *)
(***************************************************************************)

(* nextToken() and enqueue(): the job joins the queue, its owner joins the *)
(* given map, and m_wake wakes the worker if it sleeps there.              *)
enqueue(f, owners) ==
  /\ serial < MaxToken
  /\ serial' = serial + 1
  /\ m_owners' = owners \cup {<<serial + 1, f>>}
  /\ m_queue' = Append(m_queue, serial + 1)
  /\ m_flushToken' = [m_flushToken EXCEPT ![f] = serial + 1]
  /\ worker' = IF worker = "asleep" THEN "check" ELSE worker

(* m_owners.erase(token) *)
OwnersWithout(t) == {o \in m_owners : o[1] # t}

(* applyFlushResult(): a result that is not the one the file waits for is  *)
(* ignored.  A file that finds new blocks and no gap hands them over on    *)
(* the spot, unless it is being destroyed.                                 *)
applyFlushResult(f, t, owners) ==
  \/ /\ m_flushToken[f] = t
     /\ life[f] = "live"
     /\ enqueue(f, owners)
  \/ /\ m_owners' = owners
     /\ m_flushToken' = [m_flushToken EXCEPT ![f] = IF @ = t THEN 0 ELSE @]
     /\ UNCHANGED <<serial, m_queue, worker>>

(* PartFile::flushBufferAsync(): one job per file at a time. *)
flushBufferAsync(f) ==
  /\ main = "loop"
  /\ life[f] = "live"
  /\ m_flushToken[f] = 0
  /\ enqueue(f, m_owners)
  /\ UNCHANGED <<threadVars, posted, main, caller, life>>

(* PartFile::flushBuffer() with a write out: finishPendingFlush() enters   *)
(* waitFor().                                                              *)
flushBuffer(f) ==
  /\ main = "loop"
  /\ life[f] = "live"
  /\ m_flushToken[f] # 0
  /\ main' = "waitFor"
  /\ caller' = f
  /\ UNCHANGED <<serial, m_queue, m_owners, threadVars, worker, posted, m_flushToken, life>>

(* Mutant of destroyFile: the destructor does not collect a pending write. *)
destroyFileUncollected(f) ==
  /\ main = "loop"
  /\ life[f] = "live"
  /\ life' = [life EXCEPT ![f] = "gone"]
  /\ UNCHANGED <<serial, m_queue, m_owners, threadVars, worker, posted, main, caller,
                 m_flushToken>>

(* ~PartFile(): m_destroying is set, then flushBuffer() collects a write   *)
(* that is out before the object goes.                                     *)
destroyFile(f) ==
  /\ main = "loop"
  /\ life[f] = "live"
  /\ IF m_flushToken[f] # 0
     THEN /\ life' = [life EXCEPT ![f] = "destroying"]
          /\ main' = "waitFor"
          /\ caller' = f
     ELSE /\ life' = [life EXCEPT ![f] = "gone"]
          /\ UNCHANGED <<main, caller>>
  /\ UNCHANGED <<serial, m_queue, m_owners, threadVars, worker, posted, m_flushToken>>

(* waitFor()'s loop condition: no result yet, and the job is on its way. *)
MustWait(t) ==
  /\ t \notin m_results
  /\ \/ m_runningToken = t
     \/ \E i \in 1 .. Len(m_queue) : m_queue[i] = t

(* m_done.wait(): the mutex is released as the thread falls asleep. *)
waitForSleep ==
  /\ main = "waitFor"
  /\ MustWait(m_flushToken[caller])
  /\ main' = "m_done"
  /\ UNCHANGED <<serial, m_queue, m_owners, threadVars, worker, posted, caller,
                 m_flushToken, life>>

(* waitFor() returns; finishPendingFlush() applies the result, or gives    *)
(* the job up for lost when there is none.  A file in its destructor goes. *)
waitForReturn ==
  LET f == caller
      t == m_flushToken[caller]
      after == OwnersWithout(t)
  IN /\ main = "waitFor"
     /\ ~MustWait(t)
     /\ IF t \in m_results
        THEN applyFlushResult(f, t, after)
        ELSE /\ m_owners' = after
             /\ m_flushToken' = [m_flushToken EXCEPT ![f] = 0]
             /\ UNCHANGED <<serial, m_queue, worker>>
     /\ m_results' = m_results \ {t}
     /\ life' = [life EXCEPT ![f] = IF @ = "destroying" THEN "gone" ELSE @]
     /\ main' = "loop"
     /\ caller' = NoFile
     /\ UNCHANGED <<m_runningToken, m_stopRequested, emitToken, posted>>

(* onJobDone(), from the event loop: the owner is looked up, the result    *)
(* taken, and applied if both are still there.                             *)
onJobDone ==
  LET t == Head(posted)
      after == OwnersWithout(t)
  IN /\ main = "loop"
     /\ posted # << >>
     /\ posted' = Tail(posted)
     /\ m_results' = m_results \ {t}
     /\ \/ /\ t \in m_results
           /\ \E o \in m_owners : o[1] = t /\ applyFlushResult(o[2], t, after)
        \/ /\ t \notin m_results \/ \A o \in m_owners : o[1] # t
           /\ m_owners' = after
           /\ UNCHANGED <<serial, m_queue, worker, m_flushToken>>
     /\ UNCHANGED <<m_runningToken, m_stopRequested, emitToken, main, caller, life>>

(* shutdownDownloadQueue(): when every file is gone the worker is told to  *)
(* stop, and ~PartFileWriteThread() waits for the thread.                  *)
requestStop ==
  /\ main = "loop"
  /\ \A f \in Files : life[f] = "gone"
  /\ m_stopRequested' = TRUE
  /\ worker' = IF worker = "asleep" THEN "check" ELSE worker
  /\ main' = "join"
  /\ UNCHANGED <<serial, m_queue, m_owners, m_runningToken, m_results, emitToken, posted,
                 caller, m_flushToken, life>>

(* The thread has ended; events still posted to the object go with it. *)
threadJoined ==
  /\ main = "join"
  /\ worker = "returned"
  /\ main' = "gone"
  /\ posted' = << >>
  /\ UNCHANGED <<serial, m_queue, m_owners, threadVars, worker, caller, m_flushToken, life>>

(***************************************************************************)
(* run(), on the worker thread.                                            *)
(***************************************************************************)

(* while (m_queue.empty() && !m_stopRequested) m_wake.wait(&m_mutex) *)
runSleep ==
  /\ worker = "check"
  /\ m_queue = << >>
  /\ ~m_stopRequested
  /\ worker' = "asleep"
  /\ UNCHANGED <<serial, m_queue, m_owners, threadVars, posted, main, caller,
                 m_flushToken, life>>

(* Stopping, and nothing left to write. *)
runReturn ==
  /\ worker = "check"
  /\ m_queue = << >>
  /\ m_stopRequested
  /\ worker' = "returned"
  /\ UNCHANGED <<serial, m_queue, m_owners, threadVars, posted, main, caller,
                 m_flushToken, life>>

(* Mutants of runTake: the job is not marked as running; the newest job is *)
(* taken first.                                                            *)
runTakeUnmarked ==
  /\ worker = "check"
  /\ m_queue # << >>
  /\ m_queue' = Tail(m_queue)
  /\ worker' = "executing"
  /\ UNCHANGED <<serial, m_owners, m_runningToken, m_results, m_stopRequested, emitToken,
                 posted, main, caller, m_flushToken, life>>

runTakeNewest ==
  /\ worker = "check"
  /\ m_queue # << >>
  /\ m_queue' = SubSeq(m_queue, 1, Len(m_queue) - 1)
  /\ m_runningToken' = m_queue[Len(m_queue)]
  /\ worker' = "executing"
  /\ UNCHANGED <<serial, m_owners, m_results, m_stopRequested, emitToken, posted, main,
                 caller, m_flushToken, life>>

(* The oldest job leaves the queue and becomes the running one. *)
runTake ==
  /\ worker = "check"
  /\ m_queue # << >>
  /\ m_queue' = Tail(m_queue)
  /\ m_runningToken' = Head(m_queue)
  /\ worker' = "executing"
  /\ UNCHANGED <<serial, m_owners, m_results, m_stopRequested, emitToken, posted, main,
                 caller, m_flushToken, life>>

(* Mutant of runPublish: m_done.wakeAll() is forgotten. *)
runPublishWithoutWake ==
  /\ worker = "executing"
  /\ m_results' = m_results \cup {m_runningToken}
  /\ emitToken' = m_runningToken
  /\ m_runningToken' = 0
  /\ worker' = "emitting"
  /\ UNCHANGED <<serial, m_queue, m_owners, m_stopRequested, posted, main, caller,
                 m_flushToken, life>>

(* execute() has run outside the mutex; the result is stored and everyone  *)
(* in m_done.wait() is woken.                                              *)
runPublish ==
  /\ worker = "executing"
  /\ m_results' = m_results \cup {m_runningToken}
  /\ emitToken' = m_runningToken
  /\ m_runningToken' = 0
  /\ main' = IF main = "m_done" THEN "waitFor" ELSE main
  /\ worker' = "emitting"
  /\ UNCHANGED <<serial, m_queue, m_owners, m_stopRequested, posted, caller,
                 m_flushToken, life>>

(* Mutant of runEmit: m_runningToken, cleared by now, is read instead of   *)
(* the local copy.                                                         *)
runEmitCleared ==
  /\ worker = "emitting"
  /\ posted' = Append(posted, m_runningToken)
  /\ emitToken' = 0
  /\ worker' = "check"
  /\ UNCHANGED <<serial, m_queue, m_owners, m_runningToken, m_results, m_stopRequested,
                 main, caller, m_flushToken, life>>

(* emit jobDone(): a queued connection posts an event to the main thread. *)
runEmit ==
  /\ worker = "emitting"
  /\ posted' = Append(posted, emitToken)
  /\ emitToken' = 0
  /\ worker' = "check"
  /\ UNCHANGED <<serial, m_queue, m_owners, m_runningToken, m_results, m_stopRequested,
                 main, caller, m_flushToken, life>>

(* The process is down: nothing more happens. *)
Ended == main = "gone" /\ UNCHANGED vars

MainNext ==
  \/ \E f \in Files : flushBufferAsync(f) \/ flushBuffer(f) \/ destroyFile(f)
  \/ waitForSleep
  \/ waitForReturn
  \/ onJobDone
  \/ requestStop
  \/ threadJoined

WorkerNext == runSleep \/ runReturn \/ runTake \/ runPublish \/ runEmit

Next == MainNext \/ WorkerNext \/ Ended

(* The operating system runs both threads and Qt's loop delivers what is   *)
(* posted; nothing obliges the user to flush or to quit.                   *)
Fairness ==
  /\ WF_vars(WorkerNext)
  /\ WF_vars(waitForSleep)
  /\ WF_vars(waitForReturn)
  /\ WF_vars(onJobDone)
  /\ WF_vars(threadJoined)

Spec == Init /\ [][Next]_vars /\ Fairness

(***************************************************************************)
(* Properties.                                                             *)
(***************************************************************************)

(* Every variable stays in its range. *)
TypeOK ==
  /\ serial \in 0 .. MaxToken
  /\ m_queue \in Seq(Tokens)
  /\ m_runningToken \in Tokens \cup {0}
  /\ m_results \subseteq Tokens
  /\ m_owners \subseteq Tokens \X Files
  /\ m_stopRequested \in BOOLEAN
  /\ worker \in {"check", "asleep", "executing", "emitting", "returned"}
  /\ emitToken \in Tokens \cup {0}
  /\ posted \in Seq(Tokens)
  /\ main \in {"loop", "waitFor", "m_done", "join", "gone"}
  /\ caller \in Files \cup {NoFile}
  /\ m_flushToken \in [Files -> Tokens \cup {0}]
  /\ life \in [Files -> {"live", "destroying", "gone"}]

Queued(t) == \E i \in 1 .. Len(m_queue) : m_queue[i] = t

(* enqueue()'s contract (PartFileWriteThread.h: the owner "must collect    *)
(* the job (waitFor) before it dies"): every entry of m_owners is an       *)
(* object that still exists and still waits for exactly that job, so       *)
(* onJobDone() never calls into a deleted PartFile.                        *)
NoDanglingOwner ==
  \A o \in m_owners : /\ life[o[2]] # "gone"
                      /\ m_flushToken[o[2]] = o[1]

(* A file that has a write out finds it: the job is queued, running or     *)
(* done, and its owner entry is there, so finishPendingFlush()'s "lost a   *)
(* pending write" branch (which turns received data back into gaps) is     *)
(* never taken while the worker exists.                                    *)
NoLostWrite ==
  \A f \in Files : m_flushToken[f] # 0 =>
     /\ \/ Queued(m_flushToken[f])
        \/ m_runningToken = m_flushToken[f]
        \/ m_flushToken[f] \in m_results
     /\ <<m_flushToken[f], f>> \in m_owners

(* A result never stays behind: each one still in m_results has a jobDone  *)
(* event on its way or about to be emitted.                                *)
ResultAnnounced ==
  \A t \in m_results : emitToken = t \/ \E i \in 1 .. Len(posted) : posted[i] = t

(* requestStop() (PartFileWriteThread.h: "Queued writes are data: none is  *)
(* dropped"): when the worker's loop ends, nothing is queued, running or   *)
(* uncollected.                                                            *)
StopDropsNothing ==
  worker = "returned" => m_queue = << >> /\ m_runningToken = 0 /\ m_results = {}

(* A write handed over is not lost on any way: a file finds its job, its   *)
(* result is announced, and the stop leaves nothing undone.                *)
NoJobLost == NoLostWrite /\ ResultAnnounced /\ StopDropsNothing

(* The inductive invariant behind those above: jobs lie in the queue in    *)
(* the order of their tokens, behind the running one; a job is in one      *)
(* place only and always some file's; the threads are where their state    *)
(* says they are.                                                          *)
InOrder ==
  /\ \A i, j \in 1 .. Len(m_queue) : i < j => m_queue[i] < m_queue[j]
  /\ \A i \in 1 .. Len(m_queue) : m_queue[i] <= serial /\ m_runningToken < m_queue[i]
  /\ m_runningToken <= serial
  /\ \A t \in m_results : t <= serial /\ t # m_runningToken /\ ~Queued(t)

JobHasOwner ==
  /\ \A i \in 1 .. Len(m_queue) : \E f \in Files : m_flushToken[f] = m_queue[i]
  /\ m_runningToken # 0 => \E f \in Files : m_flushToken[f] = m_runningToken
  /\ \A t \in m_results : \E f \in Files : m_flushToken[f] = t
  /\ \A f \in Files : m_flushToken[f] <= serial
  /\ \A f, g \in Files : m_flushToken[f] = m_flushToken[g] /\ m_flushToken[f] # 0 => f = g

EventsAreOld ==
  /\ \A i \in 1 .. Len(posted) : /\ posted[i] <= serial /\ posted[i] # m_runningToken
                                 /\ ~Queued(posted[i])
  /\ emitToken <= serial
  /\ emitToken # 0 => emitToken # m_runningToken /\ ~Queued(emitToken)

WorkerPlace ==
  /\ worker = "executing" <=> m_runningToken # 0
  /\ worker = "emitting" <=> emitToken # 0
  /\ worker = "returned" => m_stopRequested /\ m_queue = << >>

MainPlace ==
  /\ \A f \in Files : life[f] = "gone" => m_flushToken[f] = 0
  /\ \A f \in Files : life[f] = "destroying" => caller = f
  /\ IF main \in {"waitFor", "m_done"}
     THEN caller \in Files /\ life[caller] # "gone" /\ m_flushToken[caller] # 0
     ELSE caller = NoFile
  /\ m_stopRequested <=> main \in {"join", "gone"}
  /\ m_stopRequested => \A f \in Files : life[f] = "gone"

IInv ==
  /\ TypeOK
  /\ InOrder
  /\ JobHasOwner
  /\ EventsAreOld
  /\ WorkerPlace
  /\ MainPlace
  /\ NoDanglingOwner
  /\ NoLostWrite
  /\ ResultAnnounced

(* waitFor() returns: the main thread never stays in m_done.wait(), which  *)
(* a wake-up lost between the test and the sleep would cause.              *)
WaitForReturns == main \in {"waitFor", "m_done"} ~> main = "loop"

(* A job that was handed over is carried out and its result is collected,  *)
(* by the event or by waitFor().                                           *)
EveryWriteCollected ==
  \A t \in Tokens : Queued(t) ~> \A f \in Files : m_flushToken[f] # t

(* Quitting ends: once the worker is told to stop, it drains and the main  *)
(* thread's wait() returns.                                                *)
StopEnds == m_stopRequested ~> main = "gone"

(* No thread sleeps on: every wait for a write, every write and the wait   *)
(* for the worker's end come to an end.                                    *)
NobodyWaitsForever == WaitForReturns /\ EveryWriteCollected /\ StopEnds

(* The worker implements the abstract job service: a token's stage can be  *)
(* read off the place its job is in.                                       *)
StageOf(t) == IF t > serial THEN "unused"
              ELSE IF Queued(t) \/ m_runningToken = t THEN "pending"
              ELSE IF t \in m_results THEN "done" ELSE "taken"

StageMap == [t \in Tokens |-> StageOf(t)]

Jobs == INSTANCE WriteJobs WITH job <- StageMap

(* Refinement: jobs run in the order they were handed over and each result *)
(* is taken exactly once, whichever of the event and waitFor() comes first.*)
ImplementsWriteJobs == Jobs!Spec
=============================================================================

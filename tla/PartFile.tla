------------------------------ MODULE PartFile ------------------------------
(***************************************************************************)
(* One download (core/files/PartFile.cpp): the gap list, the write buffer, *)
(* the job it has with the disk-write worker, the .part file and the saved *)
(* .part.met on disk, the verification of parts, the status machine, the   *)
(* thread that checks and moves a finished file, and quitting, crashing    *)
(* and loading again.                                                      *)
(*                                                                         *)
(* The file is a set of blocks grouped into parts.  A block that arrives   *)
(* is "good" or "bad"; on disk a block may also be "none" (never written)  *)
(* or "torn" (a write of it failed half-way).  A part's hash matches iff   *)
(* all of its blocks on disk are good.                                     *)
(*                                                                         *)
(* The whole state is one record f, changed by operators that mirror the   *)
(* member functions: each takes the record before the call and returns the *)
(* record after it.                                                        *)
(***************************************************************************)
EXTENDS Naturals, FiniteSets

CONSTANTS Blocks,          \* block numbers, in file order
          Parts,
          PartOf,          \* the part each block lies in
          BufferLimit,     \* blocks: 2 * fileBufferSize
          UseICH,          \* thePrefs.useICH()
          MaxBad,          \* bound: bad blocks that sources ever send
          MaxFaults,       \* bound: times the volume misbehaves
          MaxCrashes,      \* bound: times the process dies or quits
          MaxImports       \* bound: imports from another file

ASSUME BlocksAssumption == Blocks \subseteq Nat \ {0} /\ IsFiniteSet(Blocks) /\ PartOf \in [Blocks -> Parts]
ASSUME FlagsAssumption == UseICH \in BOOLEAN
ASSUME BoundsAssumption == /\ BufferLimit \in Nat /\ MaxBad \in Nat /\ MaxFaults \in Nat
                           /\ MaxCrashes \in Nat /\ MaxImports \in Nat

VARIABLES f,               \* the download: memory, .part, .part.met and their volume
          app,             \* what the main thread is doing with it
          badLeft, faultsLeft, crashesLeft, importsLeft

vars == <<f, app, badLeft, faultsLeft, crashesLeft, importsLeft>>
budgets == <<badLeft, faultsLeft, crashesLeft, importsLeft>>

Data == {"good", "bad"}
Nothing == [b \in Blocks |-> "none"]
Held(list) == {b \in Blocks : list[b] # "none"}
BlocksOf(p) == {b \in Blocks : PartOf[b] = p}

(* PartDigest of every part: "none" is a part the job was not asked about. *)
NoDigests == [p \in Parts |-> "none"]
NoJob == [phase |-> "none", todo |-> {}, want |-> {}, digests |-> NoDigests,
          written |-> FALSE, diskFull |-> FALSE]

(* "ok"; "short": below the free-space floor; "full", "error": writes fail *)
(* with or without "no space left"; "unreadable": reads fail.              *)
VolumeStates == {"ok", "short", "full", "error", "unreadable"}

(***************************************************************************)
(* Predicates on the record.                                               *)
(***************************************************************************)

(* stopFile() always pauses and resumeFile() clears both, so m_stopped     *)
(* implies m_paused and no guard below tells the two apart.                *)

(* status(): Paused and Insufficient are laid over the stored status. *)
Status(s) ==
  IF s.status \in {"Error", "Completing", "Complete"} THEN s.status
  ELSE IF s.paused THEN "Paused"
  ELSE IF s.insufficient THEN "Insufficient"
  ELSE s.status

(* isComplete(part): by the gap list alone. *)
IsComplete(s, p) == BlocksOf(p) \cap s.gaps = {}

Unwritten(s) == Held(s.buffered) \cup Held(s.flushing)

(* Mutant of IsCompleteBDSafe: by the gap list alone. *)
IsCompleteByGaps(s, blocks) == blocks \cap s.gaps = {}

(* isCompleteBDSafe(): complete and none of it in memory or with the worker. *)
IsCompleteBDSafe(s, blocks) == blocks \cap (s.gaps \cup Unwritten(s)) = {}

(* What hashing the part's bytes on disk finds. *)
PartHash(s, p) ==
  IF s.volume = "unreadable" THEN "Unread"
  ELSE IF \A b \in BlocksOf(p) : s.disk[b] = "good" THEN "Ok" ELSE "Bad"

(* hashSinglePart(): without a hashset every part passes (and is noted as  *)
(* awaiting one); the worker's digest spares the read.                     *)
HashSinglePart(s, p, digests) ==
  IF ~s.hashset THEN "Ok"
  ELSE IF digests[p] # "none" THEN digests[p] ELSE PartHash(s, p)

(***************************************************************************)
(* Saving, pausing, failing.                                               *)
(***************************************************************************)

(* Mutant of SavePartFile: what is only in memory is saved as present. *)
SavePartFileOptimistic(s) ==
  IF s.status = "Hashing" \/ s.volume \in {"full", "error"} THEN s
  ELSE [s EXCEPT !.met = [gaps |-> s.gaps, corrupted |-> s.corrupted,
                          paused |-> s.paused, hashset |-> s.hashset],
                 !.metExists = TRUE,
                 !.stampOk = TRUE]

(* savePartFile(): refused while rehashing; what is only in memory is      *)
(* saved as missing; written to a temporary file that replaces the old     *)
(* one only when complete.                                                 *)
SavePartFile(s) ==
  IF s.status = "Hashing" \/ s.volume \in {"full", "error"} THEN s
  ELSE [s EXCEPT !.met = [gaps |-> s.gaps \cup Unwritten(s), corrupted |-> s.corrupted,
                          paused |-> s.paused, hashset |-> s.hashset],
                 !.metExists = TRUE,
                 !.stampOk = TRUE]

(* Mutant of PauseFile: the overlay is stored as the status. *)
PauseFileStored(s, insufficient) ==
  SavePartFile([s EXCEPT !.paused = @ \/ ~insufficient, !.insufficient = insufficient,
                         !.status = IF insufficient THEN "Insufficient" ELSE "Paused"])

PauseFile(s, insufficient) ==
  SavePartFile([s EXCEPT !.paused = @ \/ ~insufficient, !.insufficient = insufficient])

(* Mutant of HandleWriteFailure: m_writeError is not set. *)
HandleWriteFailureForgotten(s, diskFull) ==
  IF s.destroying THEN s
  ELSE IF diskFull
       THEN IF s.insufficient \/ s.paused THEN s ELSE PauseFile(s, TRUE)
       ELSE PauseFile([s EXCEPT !.status = "Error"], FALSE)

(* The reservation was refused: the file waits for room, the buffer stays. *)
NoRoom(s) ==
  IF s.insufficient \/ s.paused THEN s ELSE PauseFile(s, TRUE)

HandleWriteFailure(s, diskFull) ==
  IF s.destroying THEN s
  ELSE IF diskFull
       THEN IF s.insufficient \/ s.paused THEN s ELSE PauseFile(s, TRUE)
       ELSE IF s.statusBeforeWriteError # "none" THEN s
            ELSE PauseFile([s EXCEPT !.statusBeforeWriteError = s.status, !.status = "Error"],
                           FALSE)

(***************************************************************************)
(* Completing.                                                             *)
(***************************************************************************)

(* m_completionRunning: set with the mover's start, cleared when one of    *)
(* its two signals is handled.                                             *)
CompletionRunning(s) == s.mover # "none"

(* Mutant of CompleteFile: the final check is skipped. *)
CompleteFileUnchecked(s, alreadyVerified) ==
  IF CompletionRunning(s) THEN s
  ELSE [s EXCEPT !.status = "Completing", !.changed = {}, !.awaiting = {},
                 !.mover = "move", !.checked = s.hashset]

(* completeFile(): latched, so a second call does nothing.  Its own        *)
(* flushBuffer() finds nothing to do (CompletingIsWritten below), so it is *)
(* not repeated here.  The final check is made where a hashset allows it.  *)
CompleteFile(s, alreadyVerified) ==
  IF CompletionRunning(s) THEN s
  ELSE [s EXCEPT !.status = "Completing",
                 !.changed = {},
                 !.awaiting = {},
                 !.mover = IF ~alreadyVerified /\ s.hashset THEN "verify" ELSE "move",
                 !.checked = s.hashset]

CompleteIfVerified(s) ==
  IF s.gaps # {} \/ s.destroying THEN s
  ELSE IF s.changed # {}
       THEN [s EXCEPT !.completionError = TRUE, !.status = "Error"]
       ELSE CompleteFile(s, FALSE)

(***************************************************************************)
(* Verifying.                                                              *)
(***************************************************************************)

(* addToSharedFiles(): the first verified part makes an Empty file Ready, as soon as there is a
   hashset that its parts can be checked with (canBeShared). *)
Promote(s, verified) ==
  IF verified # {} /\ s.hashset /\ s.status = "Empty" /\ ~s.destroying THEN "Ready" ELSE s.status

(* verifyChangedParts(): each changed part on its own.  One that is not    *)
(* on disk yet, or cannot be read, stays changed; a bad one becomes a gap; *)
(* a corrupted one that still has gaps but hashes well is taken back as it *)
(* is (ICH).                                                               *)
VerifyChangedParts(s, forceICH, noAICH, digests) ==
  LET Verdict(p) == HashSinglePart(s, p, digests)
      full == {p \in s.changed : IsComplete(s, p)}
      judged == {p \in full : IsCompleteBDSafe(s, BlocksOf(p))}
      unread == {p \in judged : Verdict(p) = "Unread"}
      bad == {p \in judged : Verdict(p) = "Bad"}
      recovered == {p \in s.changed \ full : /\ p \in s.corrupted
                                             /\ UseICH \/ forceICH
                                             /\ Verdict(p) = "Ok"}
      good == {p \in judged : Verdict(p) = "Ok"} \cup recovered
  IN [s EXCEPT !.changed = (full \ judged) \cup unread,
               !.gaps = {b \in Blocks : \/ PartOf[b] \in bad
                                        \/ b \in s.gaps /\ PartOf[b] \notin recovered},
               !.corrupted = (@ \cup bad) \ good,
               !.awaiting = IF s.hashset THEN @ ELSE @ \cup good,
               !.asked = IF noAICH THEN @ ELSE @ \cup bad,
               !.status = Promote(s, good)]

MarkChangedParts(s, blocks) == s.changed \cup {PartOf[b] : b \in blocks}

(***************************************************************************)
(* Flushing.                                                               *)
(***************************************************************************)

(* flushBufferAsync(): the buffer goes to the worker, with the parts it is *)
(* to read back where a check can be made at all.                          *)
FlushBufferAsync(s) ==
  LET touched == MarkChangedParts(s, Held(s.buffered))
      want == {p \in touched : IsComplete(s, p) \/ (p \in s.corrupted /\ UseICH)}
  IN IF Held(s.buffered) = {} \/ s.job.phase # "none" THEN s
     ELSE IF s.volume = "short" THEN NoRoom(s)
     ELSE [s EXCEPT !.flushing = s.buffered,
                    !.buffered = Nothing,
                    !.job = [NoJob EXCEPT !.phase = "queued",
                                          !.todo = Held(s.buffered),
                                          !.want = IF s.hashset THEN want ELSE {}]]

(* Mutant of FlushFailed: the bytes of the failed write are dropped. *)
FlushFailedDropped(s) ==
  HandleWriteFailure([s EXCEPT !.job = NoJob, !.flushing = Nothing], s.job.diskFull)

(* applyFlushResult() of a write that failed: the bytes go back into the   *)
(* buffer, behind a newer copy of the same block, so that they win.        *)
FlushFailed(s) ==
  HandleWriteFailure(
    [s EXCEPT !.job = NoJob,
              !.buffered = [b \in Blocks |-> IF s.flushing[b] # "none" THEN s.flushing[b]
                                             ELSE s.buffered[b]],
              !.flushing = Nothing],
    s.job.diskFull)

(* applyFlushResult() of a write that reached the disk, up to the verdicts. *)
FlushLanded(s, forceICH, noAICH) ==
  VerifyChangedParts([s EXCEPT !.job = NoJob,
                               !.changed = MarkChangedParts(s, Held(s.flushing)),
                               !.flushing = Nothing],
                     forceICH, noAICH, s.job.digests)

(* What a call finds around it: whether the 30 seconds between periodic    *)
(* saves are over, and which block a failing write stops at (0: the .part  *)
(* did not open).                                                          *)
Environment == [saveDue : BOOLEAN,
                at : IF f.volume \in {"full", "error"} THEN Unwritten(f) \cup {0} ELSE {0}]

ApplyFlushResult(s, forceICH, noAICH, env) ==
  IF ~s.job.written THEN FlushFailed(s)
  ELSE LET t == FlushLanded(s, forceICH, noAICH)
       IN IF t.gaps = {} /\ ~t.destroying
          THEN IF Held(t.buffered) = {} THEN CompleteIfVerified(t)
               ELSE IF Status(t) \in {"Ready", "Empty"} THEN FlushBufferAsync(t)
               ELSE t
          ELSE IF env.saveDue THEN SavePartFile(t) ELSE t

(* finishPendingFlush(): waitFor() has returned, which the actions below   *)
(* wait for with CanCollect; NoLostWrite of PartFileWriteThread rules its  *)
(* "lost a pending write" branch out.                                      *)
FinishPendingFlush(s, forceICH, noAICH, env) ==
  IF s.job.phase = "none" THEN s ELSE ApplyFlushResult(s, forceICH, noAICH, env)

CanCollect(s) == s.job.phase \in {"none", "done"}

(* A synchronous write that stops at env.at: what comes before is on disk. *)
PartialWrite(s, env) ==
  [s EXCEPT !.disk = [b \in Blocks |-> IF b \in Held(s.buffered) /\ b < env.at THEN s.buffered[b]
                                       ELSE IF b \in Held(s.buffered) /\ b = env.at THEN "torn"
                                       ELSE s.disk[b]],
            !.stampOk = FALSE]

SyncWriteFailed(s, env) == HandleWriteFailure(PartialWrite(s, env), s.volume = "full")

SyncWritten(s, forceICH, noAICH, env) ==
  VerifyChangedParts(
    [s EXCEPT !.disk = [b \in Blocks |-> IF b \in Held(s.buffered) THEN s.buffered[b]
                                         ELSE s.disk[b]],
              !.stampOk = FALSE,
              !.changed = MarkChangedParts(s, Held(s.buffered)),
              !.buffered = Nothing],
    forceICH, noAICH, NoDigests)

(* What flushBuffer() does once no write is out. *)
FlushRest(s, forceICH, noAICH, env) ==
  IF Held(s.buffered) = {} THEN s
  ELSE IF s.volume = "short" /\ ~s.destroying THEN NoRoom(s)
  ELSE IF s.volume \in {"full", "error"} THEN SyncWriteFailed(s, env)
  ELSE LET t == SyncWritten(s, forceICH, noAICH, env)
       IN IF t.gaps = {} /\ ~t.destroying THEN CompleteIfVerified(t)
          ELSE IF env.saveDue THEN SavePartFile(t) ELSE t

FlushBuffer(s, forceICH, noAICH, env) ==
  FlushRest(FinishPendingFlush(s, forceICH, noAICH, env),
            forceICH, noAICH, env)

(* writeToBuffer(): of two copies of a block the older is written last.    *)
(* A file that is not plainly downloading gets it on disk at once.         *)
WriteToBuffer(s, b, data, env) ==
  LET t == [s EXCEPT !.buffered[b] = IF @ = "none" THEN data ELSE @, !.gaps = @ \ {b}]
  IN IF Status(t) \notin {"Ready", "Empty"} THEN FlushBuffer(t, FALSE, FALSE, env)
     ELSE IF t.gaps = {} \/ Cardinality(Held(t.buffered)) > BufferLimit THEN FlushBufferAsync(t)
     ELSE t

(***************************************************************************)
(* Pausing, resuming, stopping.                                            *)
(***************************************************************************)

(* A failed completion is tried again, its unread parts first. *)
RetryCompletion(s) ==
  IF s.completionError /\ s.gaps = {}
  THEN CompleteIfVerified(
         VerifyChangedParts([s EXCEPT !.completionError = FALSE, !.status = "Ready"],
                            FALSE, FALSE, NoDigests))
  ELSE s

ResumeFile(s) ==
  IF ~(s.paused \/ s.insufficient \/ s.completionError) THEN s
  ELSE SavePartFile(
         RetryCompletion([s EXCEPT !.paused = FALSE, !.insufficient = FALSE,
                                   !.statusBeforeWriteError = "none",
                                   !.status = IF s.statusBeforeWriteError = "none" THEN @
                                              ELSE s.statusBeforeWriteError]))

(* What stopFile() does before it saves or, on a cancel, deletes. *)
StopAndFlush(s, env) ==
  LET t == PauseFile(s, FALSE)
  IN IF Held(t.buffered) = {} THEN t ELSE FlushBuffer(t, FALSE, FALSE, env)

StopFile(s, env) == SavePartFile(StopAndFlush(s, env))

(***************************************************************************)
(* Hash sets, recovery data, rehashing.                                    *)
(***************************************************************************)

(* Mutant of HashsetReceived: parts completed before it are not checked. *)
HashsetReceivedUnchecked(s) ==
  IF s.status \in {"Completing", "Complete"} THEN [s EXCEPT !.hashset = TRUE]
  ELSE SavePartFile([s EXCEPT !.hashset = TRUE, !.awaiting = {}])

HashsetReceived(s) ==
  IF s.status \in {"Completing", "Complete"} THEN [s EXCEPT !.hashset = TRUE]
  ELSE LET t == [s EXCEPT !.hashset = TRUE, !.changed = @ \cup s.awaiting, !.awaiting = {}]
       IN SavePartFile(IF s.awaiting = {} THEN t
                       ELSE VerifyChangedParts(t, FALSE, FALSE, NoDigests))

(* Recovery data completed part p by the gap list: it has to hash as well. *)
AichCompleted(s, p, verdict) ==
  IF verdict = "Unread" THEN [s EXCEPT !.changed = @ \cup {p}]
  ELSE IF verdict = "Bad" THEN [s EXCEPT !.gaps = @ \cup BlocksOf(p)]
  ELSE LET t == [s EXCEPT !.corrupted = @ \ {p}, !.status = Promote(s, {p})]
       IN SavePartFile(IF Unwritten(t) = {} THEN CompleteIfVerified(t) ELSE t)

(* aichRecoveryDataAvailable(): the blocks of part p that are good on disk *)
(* are taken back one by one.  reread: the second read, for the hash of    *)
(* the whole part, succeeds too.                                           *)
AichRecoveryDataAvailable(s, p, reread, env) ==
  LET flushed == FlushBuffer(s, TRUE, TRUE, env)
      t == [flushed EXCEPT !.gaps = {b \in @ : ~(PartOf[b] = p /\ flushed.disk[b] = "good")}]
  IN IF IsComplete(flushed, p) \/ flushed.volume \in {"error", "unreadable"} THEN flushed
     ELSE IF IsComplete(t, p)
          THEN AichCompleted(t, p, IF reread THEN HashSinglePart(t, p, NoDigests) ELSE "Unread")
          ELSE SavePartFile(t)

(* applyRehashResult(): only a part that was believed complete can be      *)
(* proven wrong; one nobody could read stays trusted.                      *)
ApplyRehashResult(s, partOk) ==
  LET complete == {p \in Parts : IsComplete(s, p)}
      bad == {p \in complete : partOk[p] = "Bad"}
      gaps == s.gaps \cup {b \in Blocks : PartOf[b] \in bad}
      t == SavePartFile([s EXCEPT !.gaps = gaps,
                                  !.status = IF gaps = {} THEN "Completing"
                                             ELSE IF complete # bad THEN "Ready" ELSE "Empty"])
  IN IF gaps = {} /\ ~s.destroying
     THEN CompleteFile(t, \A p \in Parts : partOk[p] # "Unread") ELSE t

(* The final check found a part that does not hash, or could not read one. *)
VerifyFailed(s, partOk) ==
  LET t == [s EXCEPT !.mover = "none", !.checked = FALSE]
  IN IF \E p \in Parts : partOk[p] = "Bad" THEN ApplyRehashResult(t, partOk)
     ELSE [t EXCEPT !.completionError = TRUE, !.status = "Error"]

MoveFinished(s, success) ==
  IF success THEN [s EXCEPT !.mover = "none", !.metExists = FALSE, !.status = "Complete"]
  ELSE [s EXCEPT !.mover = "none", !.checked = FALSE, !.completionError = TRUE, !.status = "Error"]

(***************************************************************************)
(* Starting.                                                               *)
(***************************************************************************)

(* A download just created and saved. *)
NewFile(hashset) ==
  [gaps |-> Blocks, buffered |-> Nothing, flushing |-> Nothing, disk |-> Nothing, job |-> NoJob,
   changed |-> {}, corrupted |-> {}, awaiting |-> {}, asked |-> {}, hashset |-> hashset,
   status |-> "Empty", paused |-> FALSE, insufficient |-> FALSE,
   completionError |-> FALSE, statusBeforeWriteError |-> "none", mover |-> "none",
   partOk |-> NoDigests, checked |-> FALSE,
   destroying |-> FALSE, import |-> "off",
   met |-> [gaps |-> Blocks, corrupted |-> {}, paused |-> FALSE, hashset |-> hashset],
   metExists |-> TRUE, stampOk |-> TRUE, exists |-> TRUE, volume |-> "ok"]

(* The object of a download that is not loaded: memory is as new, the disk stays. *)
Fresh(s) ==
  [NewFile(FALSE) EXCEPT !.disk = s.disk, !.met = s.met, !.metExists = s.metExists,
                         !.stampOk = s.stampOk, !.exists = s.exists, !.volume = s.volume]

(* loadPartFile() and, for a file with nothing left to download,           *)
(* finishLoadedDownload().                                                 *)
LoadPartFile(s) ==
  LET met == s.met
      complete == {p \in Parts : BlocksOf(p) \cap met.gaps = {}}
      t == [Fresh(s) EXCEPT !.gaps = met.gaps, !.corrupted = met.corrupted,
                            !.paused = met.paused, !.hashset = met.hashset,
                            !.awaiting = IF met.hashset THEN {} ELSE complete]
  IN IF met.gaps = {} THEN CompleteIfVerified([t EXCEPT !.status = "Completing"])
     ELSE [t EXCEPT !.status = IF met.hashset /\ ~s.stampOk THEN "Hashing"
                               ELSE IF met.hashset /\ complete # {} THEN "Ready"
                               ELSE "Empty"]

(***************************************************************************)
(* The initial state: a download just created and saved.                   *)
(***************************************************************************)
Init ==
  /\ f \in {NewFile(h) : h \in BOOLEAN}
  /\ app = "up"
  /\ badLeft = MaxBad /\ faultsLeft = MaxFaults
  /\ crashesLeft = MaxCrashes /\ importsLeft = MaxImports

(***************************************************************************)
(* The main thread: calls from the network, the timers and the user.       *)
(***************************************************************************)
Main(s) == app = "up" /\ f' = s

(* processBlockPacketWithValidation(): one block from a source. *)
Receive(b, data) ==
  /\ Status(f) \in {"Ready", "Empty"}
  /\ b \in f.gaps
  /\ data = "bad" => badLeft > 0
  /\ \E env \in Environment : Main(WriteToBuffer(f, b, data, env))
  /\ badLeft' = IF data = "bad" THEN badLeft - 1 ELSE badLeft
  /\ UNCHANGED <<app, faultsLeft, crashesLeft, importsLeft>>

(* HttpCacheClient: a chunk that is still coming in when the file is       *)
(* paused, stopped or failed goes straight to the disk.                    *)
ReceiveCached(b, data) ==
  /\ Status(f) \notin {"Ready", "Empty"} /\ f.status # "Hashing"
  /\ b \in f.gaps
  /\ CanCollect(f)
  /\ data = "bad" => badLeft > 0
  /\ \E env \in Environment : Main(WriteToBuffer(f, b, data, env))
  /\ badLeft' = IF data = "bad" THEN badLeft - 1 ELSE badLeft
  /\ UNCHANGED <<app, faultsLeft, crashesLeft, importsLeft>>

(* Mutant of Process: a file without gaps is not flushed any more. *)
ProcessIncomplete ==
  /\ ~f.paused /\ f.gaps # {}
  /\ Held(f.buffered) # {}
  /\ Main(FlushBufferAsync(f))
  /\ UNCHANGED <<app, budgets>>

(* process(): the buffer is old or large enough. *)
Process ==
  /\ ~f.paused
  /\ Held(f.buffered) # {}
  /\ Main(FlushBufferAsync(f))
  /\ UNCHANGED <<app, budgets>>

(* PartFileWriteThread::onJobDone(). *)
OnJobDone ==
  /\ f.job.phase = "done"
  /\ \E env \in Environment : Main(ApplyFlushResult(f, FALSE, FALSE, env))
  /\ UNCHANGED <<app, budgets>>

(* A preview, an export or the user wants everything on disk. *)
Flush(forceICH) ==
  /\ f.status # "Complete"
  /\ CanCollect(f)
  /\ \E env \in Environment : Main(FlushBuffer(f, forceICH, FALSE, env))
  /\ UNCHANGED <<app, budgets>>

Pause ==
  /\ Main(PauseFile(f, FALSE))
  /\ UNCHANGED <<app, budgets>>

Resume ==
  /\ Main(ResumeFile(f))
  /\ UNCHANGED <<app, budgets>>

Stop ==
  /\ Held(f.buffered) = {} \/ CanCollect(f)
  /\ \E env \in Environment : Main(StopFile(f, env))
  /\ UNCHANGED <<app, budgets>>

(* DownloadQueue::checkDiskspace(), with the check on and a floor set. *)
CheckDiskspace ==
  /\ f.status \notin {"Complete", "Completing", "Error"}
  /\ \/ /\ ~f.insufficient /\ ~f.paused
        /\ f.gaps # {} /\ f.volume \in {"short", "full"}
        /\ Main(PauseFile(f, TRUE))
     \/ /\ f.insufficient /\ f.volume \notin {"short", "full"}
        /\ Main(ResumeFile(f))
  /\ UNCHANGED <<app, budgets>>

ReceiveHashset ==
  /\ ~f.hashset
  /\ Main(HashsetReceived(f))
  /\ UNCHANGED <<app, budgets>>

(* processAICHAnswer(): recovery data for a part it was asked for. *)
ReceiveRecoveryData(p) ==
  /\ p \in f.asked
  /\ CanCollect(f)
  /\ \E env \in Environment, reread \in BOOLEAN :
       /\ reread \/ faultsLeft > 0
       /\ Main([AichRecoveryDataAvailable(f, p, reread, env) EXCEPT !.asked = @ \ {p}])
       /\ faultsLeft' = IF reread THEN faultsLeft ELSE faultsLeft - 1
  /\ UNCHANGED <<app, badLeft, crashesLeft, importsLeft>>

(* handleImportDownloadParts(): what is buffered goes to disk first. *)
StartImport ==
  /\ importsLeft > 0
  /\ f.import = "off" /\ f.status # "Complete" /\ f.hashset
  /\ CanCollect(f)
  /\ \E env \in Environment : Main([FlushBuffer(f, FALSE, FALSE, env) EXCEPT !.import = "on"])
  /\ importsLeft' = importsLeft - 1
  /\ UNCHANGED <<app, badLeft, faultsLeft, crashesLeft>>

(* Mutant of ImportPart: a part that is only incomplete is replaced. *)
ImportPartOver(p) ==
  /\ f.import # "off" /\ f.status # "Complete"
  /\ BlocksOf(p) \cap f.gaps # {}
  /\ f.volume \notin {"full", "error"}
  /\ Main([f EXCEPT !.disk = [b \in Blocks |-> IF PartOf[b] = p THEN "good" ELSE @[b]],
                    !.gaps = @ \ BlocksOf(p),
                    !.stampOk = FALSE,
                    !.exists = TRUE,
                    !.import = "took"])
  /\ UNCHANGED <<app, budgets>>

(* importPart(), one part per turn of the event loop: a part that is       *)
(* missing entirely is written past the buffer, straight into the .part.   *)
ImportPart(p) ==
  /\ f.import # "off" /\ f.status # "Complete"
  /\ BlocksOf(p) # {} /\ BlocksOf(p) \subseteq f.gaps
  /\ f.volume \notin {"full", "error"}
  /\ Main([f EXCEPT !.disk = [b \in Blocks |-> IF PartOf[b] = p THEN "good" ELSE @[b]],
                    !.gaps = @ \ BlocksOf(p),
                    !.stampOk = FALSE,
                    !.exists = TRUE,
                    !.import = "took"])
  /\ UNCHANGED <<app, budgets>>

(* The last turn of stepPartImport(), or the user stopping it. *)
EndImport(stopped) ==
  /\ f.import # "off"
  /\ LET save == f.status # "Complete" /\ (stopped \/ f.import = "took")
     IN Main([(IF save THEN SavePartFile(f) ELSE f) EXCEPT !.import = "off"])
  /\ UNCHANGED <<app, budgets>>

(***************************************************************************)
(* The write worker's execute().                                           *)
(***************************************************************************)
Min(S) == CHOOSE x \in S : \A y \in S : x <= y
Max(S) == CHOOSE x \in S : \A y \in S : x >= y

(* A .part that is missing is created. *)
WorkerOpen ==
  /\ f.job.phase = "queued"
  /\ f' = IF f.volume = "error" THEN [f EXCEPT !.job.phase = "done"]
          ELSE [f EXCEPT !.job.phase = "writing", !.exists = TRUE]
  /\ UNCHANGED <<app, budgets>>

WorkerWrite ==
  /\ f.job.phase = "writing" /\ f.job.todo # {}
  /\ f.volume \notin {"full", "error"}
  /\ LET b == Min(f.job.todo)
     IN f' = [f EXCEPT !.disk[b] = f.flushing[b], !.job.todo = @ \ {b}, !.stampOk = FALSE]
  /\ UNCHANGED <<app, budgets>>

(* A write, or the flush behind the last one, fails. *)
WorkerWriteFails ==
  /\ f.job.phase = "writing"
  /\ f.volume \in {"full", "error"}
  /\ LET b == IF f.job.todo = {} THEN Max(Held(f.flushing)) ELSE Min(f.job.todo)
     IN \E torn \in BOOLEAN :
          f' = [f EXCEPT !.disk[b] = IF torn THEN "torn" ELSE @,
                         !.stampOk = @ /\ ~torn,
                         !.job.phase = "done", !.job.diskFull = (f.volume = "full")]
  /\ UNCHANGED <<app, budgets>>

(* All written: the parts asked for are read back. *)
WorkerDigest ==
  /\ f.job.phase = "writing" /\ f.job.todo = {}
  /\ f.volume \notin {"full", "error"}
  /\ f' = [f EXCEPT !.job.phase = "done", !.job.written = TRUE,
                    !.job.digests = [p \in Parts |-> IF p \in f.job.want THEN PartHash(f, p)
                                                     ELSE "none"]]
  /\ UNCHANGED <<app, budgets>>

(***************************************************************************)
(* The rehash worker and the FileMoveThread, and their queued signals.     *)
(***************************************************************************)
Verdicts == [p \in Parts |-> PartHash(f, p)]

RehashRead ==
  /\ f.status = "Hashing" /\ f.partOk = NoDigests /\ app = "up"
  /\ f' = [f EXCEPT !.partOk = Verdicts]
  /\ UNCHANGED <<app, budgets>>

OnPartFileRehashed ==
  /\ f.status = "Hashing" /\ f.partOk # NoDigests
  /\ Main(ApplyRehashResult([f EXCEPT !.partOk = NoDigests], f.partOk))
  /\ UNCHANGED <<app, budgets>>

(* run(): the final check. *)
MoverVerify ==
  /\ f.mover = "verify"
  /\ f' = IF \A p \in Parts : PartHash(f, p) = "Ok" THEN [f EXCEPT !.mover = "move"]
          ELSE [f EXCEPT !.mover = "verifyFailed", !.partOk = Verdicts]
  /\ UNCHANGED <<app, budgets>>

(* run(): rename, or copy then rename. *)
MoverMove ==
  /\ f.mover = "move"
  /\ \/ f.exists /\ f.volume # "unreadable" /\ f' = [f EXCEPT !.mover = "moved", !.exists = FALSE]
     \/ (~f.exists \/ f.volume # "ok") /\ f' = [f EXCEPT !.mover = "moveFailed"]
  /\ UNCHANGED <<app, budgets>>

OnVerifyFailed ==
  /\ f.mover = "verifyFailed"
  /\ Main(VerifyFailed([f EXCEPT !.partOk = NoDigests], f.partOk))
  /\ UNCHANGED <<app, budgets>>

OnMoveFinished ==
  /\ f.mover \in {"moved", "moveFailed"}
  /\ Main(MoveFinished(f, f.mover = "moved"))
  /\ UNCHANGED <<app, budgets>>

(***************************************************************************)
(* Leaving: cancel, quit, crash; and starting again.                       *)
(***************************************************************************)

(* DownloadQueue::cancelFile() up to the delete: a completing file is left *)
(* alone, a complete one leaves the list.                                  *)
Cancel ==
  /\ app = "up"
  /\ Status(f) \notin {"Completing", "Complete"}
  /\ Held(f.buffered) = {} \/ CanCollect(f)
  /\ \E env \in Environment :
       f' = [StopAndFlush(f, env) EXCEPT !.exists = FALSE, !.metExists = FALSE, !.status = "Error"]
  /\ app' = "cancelling"
  /\ UNCHANGED budgets

(* ~PartFile() of a cancelled file: m_partMetFilename was cleared, so the   *)
(* destructor itself neither flushes nor saves; it waits for the write in  *)
(* flight, and applying its result may still save, as for any other file.  *)
CancelEnd ==
  /\ app = "cancelling"
  /\ CanCollect(f)
  /\ \E env \in Environment :
       f' = Fresh(FinishPendingFlush([f EXCEPT !.destroying = TRUE], FALSE, TRUE, env))
  /\ app' = "gone"
  /\ UNCHANGED budgets

(* shutdownDownloadQueue(): flush and save. *)
Quit ==
  /\ app = "up" /\ crashesLeft > 0
  /\ CanCollect(f)
  /\ \E env \in Environment :
       f' = IF Status(f) = "Complete" THEN f ELSE SavePartFile(FlushBuffer(f, FALSE, FALSE, env))
  /\ app' = "quitting"
  /\ crashesLeft' = crashesLeft - 1
  /\ UNCHANGED <<badLeft, faultsLeft, importsLeft>>

(* ~PartFile(): interrupt the mover, collect the write, flush, save. *)
QuitEnd ==
  /\ app = "quitting"
  /\ CanCollect(f)
  /\ \E env \in Environment :
       LET t == FlushBuffer([f EXCEPT !.destroying = TRUE, !.mover = "none"], FALSE, TRUE, env)
       IN f' = Fresh(IF Status(t) = "Complete" THEN t ELSE SavePartFile(t))
  /\ app' = "down"
  /\ UNCHANGED budgets

(* The process dies, perhaps inside a synchronous write. *)
Crash ==
  /\ app \in {"up", "quitting", "cancelling"} /\ crashesLeft > 0
  /\ \E env \in [at : Unwritten(f) \cup {0}] :
       f' = Fresh(IF CanCollect(f) THEN PartialWrite(f, env)
                  ELSE IF f.job.phase = "writing" /\ env.at \in f.job.todo /\ env.at = Min(f.job.todo)
                  THEN [f EXCEPT !.disk[env.at] = "torn", !.stampOk = FALSE]
                  ELSE f)
  /\ app' = "down"
  /\ crashesLeft' = crashesLeft - 1
  /\ UNCHANGED <<badLeft, faultsLeft, importsLeft>>

(* DownloadQueue::init(): a .part.met with its .part is loaded. *)
Start ==
  /\ app = "down"
  /\ IF f.metExists /\ f.exists
     THEN f' = LoadPartFile(f) /\ app' = "up"
     ELSE f' = Fresh(f) /\ app' = "gone"
  /\ UNCHANGED budgets

(***************************************************************************)
(* The volume.                                                             *)
(***************************************************************************)
VolumeFails(v) ==
  /\ faultsLeft > 0 /\ f.volume = "ok" /\ v # "ok"
  /\ f' = [f EXCEPT !.volume = v]
  /\ faultsLeft' = faultsLeft - 1
  /\ UNCHANGED <<app, badLeft, crashesLeft, importsLeft>>

VolumeRecovers ==
  /\ f.volume # "ok"
  /\ f' = [f EXCEPT !.volume = "ok"]
  /\ UNCHANGED <<app, budgets>>

(* "Damaged on disk after it was verified": before the final check. *)
Damage(b) ==
  /\ faultsLeft > 0 /\ f.mover = "verify" /\ f.disk[b] = "good"
  /\ f' = [f EXCEPT !.disk[b] = "bad", !.stampOk = FALSE]
  /\ faultsLeft' = faultsLeft - 1
  /\ UNCHANGED <<app, badLeft, crashesLeft, importsLeft>>

(* The download is over: delivered, cancelled, or not to be loaded. *)
Over ==
  /\ app = "gone"
  /\ UNCHANGED vars

User == \/ Pause \/ Resume \/ Stop \/ Cancel \/ StartImport
        \/ \E x \in BOOLEAN : Flush(x) \/ EndImport(x)
Network == \/ \E b \in Blocks, data \in Data : Receive(b, data) \/ ReceiveCached(b, data)
           \/ ReceiveHashset
           \/ \E p \in Parts : ReceiveRecoveryData(p)
Timers == Process \/ CheckDiskspace \/ (\E p \in Parts : ImportPart(p))
Signals == OnJobDone \/ OnPartFileRehashed \/ OnVerifyFailed \/ OnMoveFinished
Threads == \/ WorkerOpen \/ WorkerWrite \/ WorkerWriteFails \/ WorkerDigest
           \/ RehashRead \/ MoverVerify \/ MoverMove
Lifecycle == CancelEnd \/ Quit \/ QuitEnd \/ Crash \/ Start
Volume == VolumeRecovers \/ (\E v \in VolumeStates : VolumeFails(v)) \/ (\E b \in Blocks : Damage(b))

Next == User \/ Network \/ Timers \/ Signals \/ Threads \/ Lifecycle \/ Volume \/ Over

Spec == Init /\ [][Next]_vars

(* The threads run, the event loop delivers what they signalled and keeps  *)
(* ticking, and a volume that misbehaves comes back some day.  Nothing is  *)
(* asked of the user or of the sources.                                    *)
Fairness ==
  /\ WF_vars(Threads)
  /\ WF_vars(OnJobDone) /\ WF_vars(OnPartFileRehashed)
  /\ WF_vars(OnVerifyFailed) /\ WF_vars(OnMoveFinished)
  /\ WF_vars(Process) /\ WF_vars(CheckDiskspace)
  /\ WF_vars(VolumeRecovers)

FairSpec == Spec /\ Fairness

(***************************************************************************)
(* Properties.                                                             *)
(***************************************************************************)
StoredStatuses == {"Empty", "Ready", "Hashing", "Completing", "Complete", "Error"}
DigestValues == {"none", "Ok", "Bad", "Unread"}

JobType == [phase : {"none", "queued", "writing", "done"}, todo : SUBSET Blocks,
            want : SUBSET Parts, digests : [Parts -> DigestValues],
            written : BOOLEAN, diskFull : BOOLEAN]
MetType == [gaps : SUBSET Blocks, corrupted : SUBSET Parts, paused : BOOLEAN, hashset : BOOLEAN]

FileOK(s) ==
  /\ s.gaps \in SUBSET Blocks
  /\ s.buffered \in [Blocks -> Data \cup {"none"}]
  /\ s.flushing \in [Blocks -> Data \cup {"none"}]
  /\ s.disk \in [Blocks -> Data \cup {"none", "torn"}]
  /\ s.job \in JobType
  /\ s.changed \in SUBSET Parts /\ s.corrupted \in SUBSET Parts
  /\ s.awaiting \in SUBSET Parts /\ s.asked \in SUBSET Parts
  /\ s.status \in StoredStatuses
  /\ s.statusBeforeWriteError \in StoredStatuses \cup {"none"}
  /\ s.mover \in {"none", "verify", "verifyFailed", "move", "moved", "moveFailed"}
  /\ s.partOk \in [Parts -> DigestValues]
  /\ s.met \in MetType
  /\ s.volume \in VolumeStates
  /\ s.import \in {"off", "on", "took"}
  /\ {s.hashset, s.paused, s.insufficient, s.completionError, s.checked, s.destroying,
      s.metExists, s.stampOk, s.exists} \subseteq BOOLEAN

(* Every field of the download keeps its type through every call, and no   *)
(* bound of the model is overdrawn.                                        *)
TypeOK ==
  /\ FileOK(f)
  /\ app \in {"up", "quitting", "cancelling", "down", "gone"}
  /\ badLeft \in 0..MaxBad /\ faultsLeft \in 0..MaxFaults
  /\ crashesLeft \in 0..MaxCrashes /\ importsLeft \in 0..MaxImports

Reloaded == crashesLeft # MaxCrashes
Downloading == app = "up" /\ f.status \in {"Ready", "Empty"} /\ ~CompletionRunning(f) /\ f.exists

(* What the gap list calls present and the buffers do not hold is on disk, *)
(* whole: no failed, partial or abandoned write leaves a hole that the gap *)
(* list does not know of (flushBuffer, applyFlushResult, FlushFailed).     *)
(* After an unclean end this is only promised for complete parts that can  *)
(* be hashed: a rehash has no verdict on a half-downloaded part.           *)
ServeSafe ==
  app = "up" /\ f.status # "Hashing" =>
    \A b \in Blocks \ (f.gaps \cup Unwritten(f)) :
      \/ f.disk[b] \in Data
      \/ Reloaded /\ ~(Downloading /\ f.hashset /\ IsCompleteBDSafe(f, BlocksOf(PartOf[b])))

(* At every moment, a .part.met that calls a block present describes a     *)
(* block that is whole on disk, or its date no longer matches the .part,   *)
(* so that loadPartFile() rehashes what it has hashes for: a crash at any  *)
(* step is noticed (savePartFile writes what is in memory as missing).     *)
MetSafe ==
  f.metExists => \A b \in Blocks \ f.met.gaps :
                   \/ f.disk[b] \in Data
                   \/ ~f.stampOk
                   \/ Reloaded /\ ~(/\ f.met.hashset /\ f.met.gaps # {}
                                   /\ BlocksOf(PartOf[b]) \cap f.met.gaps = {})

(* Once completeFile() has started the mover, nothing is missing, nothing  *)
(* is left in a buffer and no write is out: the mover has the .part to     *)
(* itself.                                                                 *)
CompletingIsWritten ==
  CompletionRunning(f) => f.gaps = {} /\ Unwritten(f) = {} /\ f.job.phase = "none"

(* A file that was complete when a hashset was there to check it is only   *)
(* delivered with every block good, whatever the sources, the disk and     *)
(* crashes did before (completeFile, FileMoveThread::run).                 *)
Delivered ==
  f.status = "Complete" /\ f.checked => \A b \in Blocks : f.disk[b] = "good"

(* Completion, from the start of the mover to the finished file, is only   *)
(* ever of a file that is whole.                                           *)
CompletesWhole == CompletingIsWritten /\ Delivered

(* A download in error can be brought back by resumeFile(): either a write *)
(* error it will retry, or a failed completion of a file without gaps.     *)
ErrorIsResumable ==
  app = "up" /\ f.status = "Error" =>
    f.statusBeforeWriteError # "none" \/ (f.completionError /\ f.gaps = {})

(* The digest a finished job carries for a part that will be judged by it  *)
(* when the result is applied is still true of the bytes on disk, however  *)
(* long the result waited in the event queue (verifyChangedParts).         *)
DigestFresh ==
  f.job.phase = "done" /\ f.job.written =>
    \A p \in Parts :
      /\ f.job.digests[p] \in {"Ok", "Bad"}
      /\ BlocksOf(p) \cap (f.gaps \cup Held(f.buffered)) = {}
      => (f.job.digests[p] = "Ok" <=> \A b \in BlocksOf(p) : f.disk[b] = "good")

(* In one run of the program, a complete part of a downloading file with a *)
(* hashset is good on disk unless it is flagged for a check: no part gets  *)
(* past verification because its hashset came late, its write failed or    *)
(* its read-back did (verifyChangedParts, hashsetReceived).                *)
UnverifiedFlagged ==
  Downloading /\ ~Reloaded /\ f.hashset =>
    \A p \in Parts : IsCompleteBDSafe(f, BlocksOf(p)) /\ p \notin f.changed
                     => \A b \in BlocksOf(p) : f.disk[b] = "good"

(* Neither a late digest nor a late hashset lets a bad part pass for good. *)
VerdictsAreTrue == DigestFresh /\ UnverifiedFlagged

(* A part that becomes a gap has none of its blocks in memory or with the  *)
(* worker: it is judged when all of it is on disk, whichever flush, result *)
(* or hashset asks first.  On a volume that takes no writes recovery data  *)
(* breaks this (JudgedOnDisk below).                                       *)
JudgedWhenWritable ==
  [][\A b \in f'.gaps \ f.gaps :
       f.volume \in {"ok", "unreadable"} /\ app' = "up"
         => BlocksOf(PartOf[b]) \cap Unwritten(f') = {}]_vars

(* A file whose last bytes are still in memory or with the worker does not *)
(* stay there: it is delivered, fails, reopens a part, or is paused or     *)
(* left by the user.                                                       *)
LastBytesLand ==
  (app = "up" /\ f.gaps = {} /\ Unwritten(f) # {})
    ~> (f.status \in {"Complete", "Error"} \/ f.gaps # {} \/ f.paused \/ app # "up")

(***************************************************************************)
(* What comments in the code say and the code does not keep.               *)
(***************************************************************************)

(* PartFile.h on flushBuffer(): "on return nothing is in flight". *)
FlushLeavesNothingInFlight ==
  [][(\E ich \in BOOLEAN : Flush(ich)) => f'.job.phase = "none"]_vars

(* writeToBuffer(): data is "never" written "over verified data".  A part  *)
(* that leaves the corrupted list was verified: nothing is on its way to   *)
(* it any more.                                                            *)
NeverOverVerified ==
  [][\A p \in f.corrupted \ f'.corrupted : BlocksOf(p) \cap Unwritten(f') = {}]_vars

(* stopFile(): a cancelled download's temp files are deleted, and nothing  *)
(* saves to the deleted files afterwards.                                  *)
CancelLeavesNoFiles == [][CancelEnd => ~f'.exists /\ ~f'.metExists]_vars

(* verifyChangedParts(): a part with bytes in memory is "judged when" they *)
(* are on disk: no part becomes a gap under its own unwritten blocks.      *)
JudgedOnDisk ==
  [][\A b \in f'.gaps \ f.gaps : BlocksOf(PartOf[b]) \cap Unwritten(f') = {}]_vars

(* flushBuffer(): "If no gaps remain, file is complete." *)
GaplessCompletes ==
  (app = "up" /\ f.gaps = {} /\ Unwritten(f) = {})
    ~> (f.status \in {"Completing", "Complete", "Error"} \/ f.gaps # {} \/ f.paused \/ app # "up")

(* aichRecoveryDataAvailable(): a part that could not be read back is      *)
(* "checked again on the next flush".                                      *)
UnreadIsCheckedAgain ==
  (Downloading /\ f.gaps = {} /\ f.changed # {})
    ~> (f.changed = {} \/ f.status = "Error" \/ f.gaps # {} \/ f.paused \/ app # "up")

(* verifyChangedParts(): a part that could not be read is "neither blessed *)
(* nor condemned": a complete part that is not flagged has been read.      *)
UnreadIsNotBlessed ==
  Downloading /\ f.hashset =>
    \A p \in Parts : IsCompleteBDSafe(f, BlocksOf(p)) /\ p \notin f.changed
                     => \A b \in BlocksOf(p) : f.disk[b] = "good"

(* resumeFile(): after a failed write "the buffer is still held". *)
WriteErrorHoldsBuffer ==
  app = "up" /\ f.statusBeforeWriteError # "none" => Unwritten(f) # {}

=============================================================================

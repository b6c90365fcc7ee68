--------------------------- MODULE PartFile_proofs ---------------------------
(***************************************************************************)
(* Proofs about one download, for files of any number of blocks and parts, *)
(* any sources, any faults of the volume and any number of crashes: its    *)
(* types, that only a whole file is completed, that an error can be        *)
(* resumed, that a part is judged when all of it is on disk, until the     *)
(* first fault that no verdict is untrue, and, until the program is        *)
(* started again, that what the gap list and the saved .part.met call      *)
(* present is whole on disk.                                               *)
(*                                                                         *)
(* The invariant is a predicate on the record of the download, and each    *)
(* member function has a lemma saying that it keeps it.                    *)
(***************************************************************************)
EXTENDS PartFile, FiniteSetTheorems, TLAPS

Ind == INSTANCE InductionLemmas

(* The fields of the record and their types. *)
FileType ==
  [gaps : SUBSET Blocks, buffered : [Blocks -> Data \cup {"none"}],
   flushing : [Blocks -> Data \cup {"none"}], disk : [Blocks -> Data \cup {"none", "torn"}],
   job : JobType, changed : SUBSET Parts, corrupted : SUBSET Parts, awaiting : SUBSET Parts,
   asked : SUBSET Parts, hashset : BOOLEAN, status : StoredStatuses, paused : BOOLEAN,
   insufficient : BOOLEAN, completionError : BOOLEAN,
   statusBeforeWriteError : StoredStatuses \cup {"none"},
   mover : {"none", "verify", "verifyFailed", "move", "moved", "moveFailed"},
   partOk : [Parts -> DigestValues], checked : BOOLEAN, destroying : BOOLEAN,
   import : {"off", "on", "took"}, met : MetType, metExists : BOOLEAN, stampOk : BOOLEAN,
   exists : BOOLEAN, volume : VolumeStates]

(* The parts that digests calls Ok are good on disk. *)
GoodOnDisk(s, digests) == \A b \in Blocks : digests[PartOf[b]] = "Ok" => s.disk[b] = "good"

(* The job with the worker: it has the blocks of flushing, and those it no longer has to
   do, all of them once it reports success, are whole on disk. *)
JobOK(s) ==
  /\ s.job.phase = "none" <=> Held(s.flushing) = {}
  /\ s.job.todo \subseteq Held(s.flushing)
  /\ s.job.phase \in {"queued", "writing"}
       => ~s.job.written /\ \A b \in Held(s.flushing) \ s.job.todo : s.disk[b] \in Data
  /\ s.job.phase = "done" /\ s.job.written
       => (\A b \in Held(s.flushing) : s.disk[b] \in Data) /\ GoodOnDisk(s, s.job.digests)

(* Nothing is in memory only. *)
Still(s) == Unwritten(s) = {} /\ s.job.phase = "none"

(* What the stages of a download exclude. *)
Stages(s) ==
  /\ CompletionRunning(s) => /\ s.gaps = {} /\ Still(s) /\ s.changed = {} /\ s.awaiting = {}
                             /\ ~s.completionError /\ s.status # "Complete"
  /\ s.completionError => s.gaps = {} /\ Still(s) /\ (~s.hashset => s.changed = {} /\ s.awaiting = {})
  /\ s.status \in {"Completing", "Complete"} => s.gaps = {} /\ Still(s)
  /\ s.status = "Hashing" => /\ Still(s) /\ s.statusBeforeWriteError = "none"
                             /\ ~CompletionRunning(s) /\ ~s.completionError
                             /\ s.hashset /\ s.asked = {}
  /\ s.partOk # NoDigests => Still(s) /\ s.mover \in {"none", "verifyFailed"}
  /\ s.corrupted # {} \/ s.asked # {} => s.hashset
  /\ s.met.corrupted # {} => s.met.hashset
  /\ s.statusBeforeWriteError \in {"none", "Empty", "Ready"}

(* What checking the file found is true of the disk. *)
Checks(s) ==
  /\ GoodOnDisk(s, s.partOk)
  /\ s.partOk # NoDigests => \A p \in Parts : s.partOk[p] # "none"
  /\ (s.mover \in {"move", "moved"} \/ s.status = "Complete") /\ s.checked
       => \A b \in Blocks : s.disk[b] = "good"

(* Until the file is deleted: verdicts wait for their signal only, and every error has a
   way out. *)
Live(s) ==
  ~s.destroying => /\ s.partOk # NoDigests => s.status = "Hashing" \/ CompletionRunning(s)
                   /\ s.status = "Error" => s.statusBeforeWriteError # "none" \/ s.completionError

Sound(s) == s \in FileType /\ JobOK(s) /\ Stages(s) /\ Checks(s)

(* What is called present is whole, or will be found out. *)
WholeOnDisk(s) == \A b \in Blocks \ (s.gaps \cup Unwritten(s)) : s.disk[b] \in Data
MetTrue(s) == s.metExists /\ s.stampOk => \A b \in Blocks \ s.met.gaps : s.disk[b] \in Data
Present(s) == WholeOnDisk(s) /\ MetTrue(s)

(* All of part p is good on disk. *)
Good(s, p) == \A b \in BlocksOf(p) : s.disk[b] = "good"

(* What the worker found in the parts it was asked for is still so. *)
DigestsHold(s) ==
  \A p \in Parts : /\ s.job.digests[p] \in {"none", "Ok", "Bad"}
                   /\ s.job.digests[p] # "none" => p \in s.job.want
                   /\ s.job.digests[p] = "Bad" => ~Good(s, p)

(* On a volume that never failed: no block is missing and unwritten at once, every write
   lands and every read succeeds, a part the worker is to hash is not one that an import may
   take, and a completion does not fail unnoticed. *)
Calm(s) ==
  /\ s.volume = "ok"
  /\ Unwritten(s) \cap s.gaps = {}
  /\ s.job.phase = "done" => s.job.written /\ DigestsHold(s)
  /\ s.job.phase # "none" => /\ \A p \in s.job.want : BlocksOf(p) \subseteq s.gaps => BlocksOf(p) = {}
                             /\ ~s.hashset => s.job.want = {}
  /\ \A p \in Parts : s.partOk[p] # "Unread"
  /\ s.completionError => s.status = "Error"
  /\ s.statusBeforeWriteError = "none"

(* A flagged part waits for the rest of it to be written, for nothing else. *)
FlagsWait(s) == \A p \in s.changed : IsComplete(s, p) /\ BlocksOf(p) \cap Unwritten(s) # {}

Clean(s) == Calm(s) /\ FlagsWait(s)

(* A download that has not gone on to its completion. *)
Transferring(s) ==
  ~s.completionError /\ ~CompletionRunning(s) /\ s.status \notin {"Completing", "Complete"}

(* A complete part is good unless it is flagged or waits for the hashset. *)
Flagged(s) ==
  Transferring(s) => \A p \in Parts :
                       /\ IsCompleteBDSafe(s, BlocksOf(p))
                       /\ p \notin s.changed
                       /\ s.hashset \/ p \notin s.awaiting
                       => Good(s, p)

(* Until the program is started again. *)
FirstRun == \/ crashesLeft = MaxCrashes
            \/ crashesLeft = MaxCrashes - 1 /\ app \in {"quitting", "down"}

Budgets == /\ badLeft \in 0..MaxBad /\ faultsLeft \in 0..MaxFaults
           /\ crashesLeft \in 0..MaxCrashes /\ importsLeft \in 0..MaxImports
           /\ app \in {"quitting", "down"} => crashesLeft < MaxCrashes

IInv ==
  /\ Sound(f) /\ ~f.destroying
  /\ app \in {"up", "quitting", "cancelling", "down", "gone"} /\ Budgets
  /\ app \in {"up", "quitting"} => Live(f)
  /\ FirstRun => Present(f)
  /\ faultsLeft = MaxFaults => Clean(f) /\ (app = "up" /\ crashesLeft = MaxCrashes => Flagged(f))

-----------------------------------------------------------------------------
(* A call keeps what holds while the volume is well. *)
Flows(s, t) == Clean(s) => Clean(t) /\ (Flagged(s) => Flagged(t))

Writable(s) == s.volume \in {"ok", "unreadable"}

(* A part that becomes a gap is one that was all on disk. *)
Turns(s, t) ==
  Writable(s) => \A b \in t.gaps \ s.gaps : BlocksOf(PartOf[b]) \cap Unwritten(t) = {}

(* The same of a call that puts nothing new in memory. *)
Judges(s, t) == Turns(s, t) /\ t.volume = s.volume /\ Unwritten(t) \subseteq Unwritten(s)

(* Nothing is missing, or nothing is on its way to disk. *)
Settled(s) == s.gaps = {} \/ Still(s)

-----------------------------------------------------------------------------
(* What a save leaves alone. *)
SameDownload(s, t) ==
  /\ t.gaps = s.gaps /\ t.buffered = s.buffered /\ t.flushing = s.flushing /\ t.disk = s.disk
  /\ t.job = s.job /\ t.changed = s.changed /\ t.corrupted = s.corrupted
  /\ t.awaiting = s.awaiting /\ t.asked = s.asked /\ t.hashset = s.hashset
  /\ t.status = s.status /\ t.completionError = s.completionError
  /\ t.statusBeforeWriteError = s.statusBeforeWriteError /\ t.mover = s.mover
  /\ t.partOk = s.partOk /\ t.checked = s.checked /\ t.destroying = s.destroying

(* Two records that agree on the download are sound together. *)
LEMMA SameIsSound ==
  ASSUME NEW s, NEW t, Sound(s), t \in FileType, SameDownload(s, t),
         t.met.corrupted # {} => t.met.hashset
  PROVE  Sound(t) /\ (Live(s) => Live(t)) /\ (WholeOnDisk(s) => WholeOnDisk(t))
<1>1. JobOK(t)
  BY DEF Sound, SameDownload, JobOK, GoodOnDisk
<1>2. Stages(t)
  BY DEF Sound, SameDownload, Stages, Still, Unwritten, CompletionRunning
<1>3. Checks(t)
  BY DEF Sound, SameDownload, Checks, GoodOnDisk
<1>4. Live(s) => Live(t)
  BY DEF SameDownload, Live, CompletionRunning
<1>5. WholeOnDisk(s) => WholeOnDisk(t)
  BY DEF SameDownload, WholeOnDisk, Unwritten
<1> QED
  BY <1>1, <1>2, <1>3, <1>4, <1>5 DEF Sound

(* savePartFile() *)
LEMMA SaveFacts ==
  ASSUME NEW s, Sound(s)
  PROVE  LET t == SavePartFile(s)
         IN  /\ Sound(t) /\ SameDownload(s, t) /\ (Live(s) => Live(t))
             /\ Present(s) => Present(t)
             /\ t.exists = s.exists /\ t.volume = s.volume /\ t.import = s.import
<1> DEFINE met == [gaps |-> s.gaps \cup Unwritten(s), corrupted |-> s.corrupted,
                   paused |-> s.paused, hashset |-> s.hashset]
           t == [s EXCEPT !.met = met, !.metExists = TRUE, !.stampOk = TRUE]
<1>1. s \in FileType
  BY DEF Sound
<1>2. met \in MetType /\ met.gaps = s.gaps \cup Unwritten(s) /\ met.corrupted = s.corrupted
      /\ met.hashset = s.hashset
  BY <1>1 DEF FileType, MetType, Unwritten, Held
<1> HIDE DEF met
<1>3. t \in FileType /\ SameDownload(s, t) /\ t.met = met
      /\ t.exists = s.exists /\ t.volume = s.volume /\ t.import = s.import
  BY <1>1, <1>2 DEF FileType, SameDownload
<1>4. s.corrupted # {} => s.hashset
  BY DEF Sound, Stages
<1>5. CASE SavePartFile(s) = t
  <2> HIDE DEF t
  <2>1. Sound(t) /\ (Live(s) => Live(t)) /\ (WholeOnDisk(s) => WholeOnDisk(t))
    BY <1>2, <1>3, <1>4, SameIsSound
  <2>2. WholeOnDisk(s) => MetTrue(t)
    BY <1>2, <1>3 DEF WholeOnDisk, MetTrue, SameDownload
  <2> QED
    BY <1>3, <1>5, <2>1, <2>2 DEF Present
<1>6. CASE SavePartFile(s) = s
  BY <1>6 DEF SameDownload
<1> QED
  BY <1>5, <1>6 DEF SavePartFile, met

(* pauseFile() *)
LEMMA PauseFacts ==
  ASSUME NEW s, Sound(s), NEW i \in BOOLEAN
  PROVE  LET t == PauseFile(s, i)
         IN  /\ Sound(t) /\ SameDownload(s, t) /\ (Live(s) => Live(t))
             /\ Present(s) => Present(t)
             /\ t.exists = s.exists /\ t.volume = s.volume /\ t.import = s.import
<1> DEFINE p == s.paused \/ ~i
           u == [s EXCEPT !.paused = p, !.insufficient = i]
<1>1. s \in FileType /\ (s.met.corrupted # {} => s.met.hashset)
  BY DEF Sound, Stages
<1>2. p \in BOOLEAN
  OBVIOUS
<1>3. PauseFile(s, i) = SavePartFile(u)
  BY DEF PauseFile
<1> HIDE DEF p
<1>4. /\ u \in FileType /\ SameDownload(s, u) /\ u.met = s.met /\ u.exists = s.exists
      /\ u.metExists = s.metExists /\ u.stampOk = s.stampOk
      /\ u.volume = s.volume /\ u.import = s.import
  BY <1>1, <1>2, ZenonT(60) DEF FileType, SameDownload
<1> HIDE DEF u
<1>5. Sound(u) /\ (Live(s) => Live(u)) /\ (WholeOnDisk(s) => WholeOnDisk(u))
  BY <1>1, <1>4, SameIsSound
<1>6. Present(s) => Present(u)
  BY <1>4, <1>5 DEF Present, MetTrue, SameDownload
<1> DEFINE t == SavePartFile(u)
<1>7. /\ Sound(t) /\ SameDownload(u, t) /\ (Live(u) => Live(t)) /\ (Present(u) => Present(t))
      /\ t.exists = u.exists /\ t.volume = u.volume /\ t.import = u.import
  BY <1>5, SaveFacts
<1> HIDE DEF t
<1>8. SameDownload(s, t)
  BY <1>4, <1>7 DEF SameDownload
<1> QED
  BY <1>3, <1>4, <1>5, <1>6, <1>7, <1>8 DEF t

-----------------------------------------------------------------------------
(* The same bytes in memory, with the worker and on disk. *)
SameBytes(s, t) ==
  /\ t.gaps = s.gaps /\ t.buffered = s.buffered /\ t.flushing = s.flushing /\ t.disk = s.disk
  /\ t.job = s.job /\ t.hashset = s.hashset /\ t.destroying = s.destroying
  /\ t.volume = s.volume

SameMet(s, t) == t.met = s.met /\ t.metExists = s.metExists /\ t.stampOk = s.stampOk

(* A download that may still change: no mover, no failed completion, no verdicts waiting. *)
Open(s) ==
  /\ ~CompletionRunning(s) /\ ~s.completionError /\ s.partOk = NoDigests
  /\ s.status \in {"Empty", "Ready", "Error"}

(* The same bytes are as clean as before. *)
LEMMA SameIsClean ==
  ASSUME NEW s, NEW t, SameBytes(s, t), t.changed \subseteq s.changed,
         t.partOk \in {s.partOk, NoDigests},
         t.statusBeforeWriteError \in {"none", s.statusBeforeWriteError},
         t.completionError => t.status = "Error" \/ (s.completionError /\ t.status = s.status)
  PROVE  Clean(s) => Clean(t)
BY DEF Clean, Calm, DigestsHold, FlagsWait, SameBytes, Unwritten, IsComplete, Good, NoDigests

(* The same bytes turn no part into gaps. *)
LEMMA SameJudges ==
  ASSUME NEW s, NEW t, SameBytes(s, t)
  PROVE  Judges(s, t)
BY DEF SameBytes, Judges, Turns, Unwritten

(* The same bytes under the same flags are verified as before. *)
LEMMA SameIsFlagged ==
  ASSUME NEW s, NEW t, SameBytes(s, t), t.changed = s.changed, t.awaiting = s.awaiting,
         Transferring(t) => Transferring(s)
  PROVE  Flagged(s) => Flagged(t)
BY DEF Flagged, SameBytes, IsCompleteBDSafe, Unwritten, Good

(* The same download, saved or paused. *)
LEMMA SameFlows ==
  ASSUME NEW s, NEW t, SameDownload(s, t), t.volume = s.volume
  PROVE  SameBytes(s, t) /\ Flows(s, t) /\ Judges(s, t)
<1>1. SameBytes(s, t)
  BY DEF SameDownload, SameBytes
<1>2. Clean(s) => Clean(t)
  BY <1>1, SameIsClean DEF SameDownload
<1>3. Flagged(s) => Flagged(t)
  BY <1>1, SameIsFlagged DEF SameDownload, Transferring, CompletionRunning
<1> QED
  BY <1>1, <1>2, <1>3, SameJudges DEF Flows

(* The same bytes and the same .part.met are as present as before. *)
LEMMA SameIsPresent ==
  ASSUME NEW s, NEW t, SameBytes(s, t), SameMet(s, t), Present(s)
  PROVE  Present(t)
BY DEF SameBytes, SameMet, Present, WholeOnDisk, MetTrue, Unwritten

(* A download with bytes in memory only is open. *)
LEMMA UnstillIsOpen ==
  ASSUME NEW s, Sound(s), ~Still(s)
  PROVE  Open(s)
BY DEF Sound, Stages, Open, FileType, StoredStatuses

(* A reservation refused. *)
LEMMA NoRoomFacts ==
  ASSUME NEW s, Sound(s)
  PROVE  LET t == NoRoom(s)
         IN  /\ Sound(t) /\ (Live(s) => Live(t)) /\ (Present(s) => Present(t))
             /\ SameDownload(s, t) /\ SameBytes(s, t)
<1>1. CASE NoRoom(s) = s
  BY <1>1 DEF SameDownload, SameBytes
<1>2. CASE NoRoom(s) = PauseFile(s, TRUE)
  <2> DEFINE t == PauseFile(s, TRUE)
  <2>1. /\ Sound(t) /\ SameDownload(s, t) /\ (Live(s) => Live(t)) /\ (Present(s) => Present(t))
        /\ t.volume = s.volume
    BY PauseFacts
  <2> HIDE DEF t
  <2>2. SameBytes(s, t)
    BY <2>1 DEF SameDownload, SameBytes
  <2> QED
    BY <1>2, <2>1, <2>2 DEF t
<1> QED
  BY <1>1, <1>2 DEF NoRoom

(* handleWriteFailure(): the first error remembers the status, which was not an error. *)
LEMMA WriteFailureFacts ==
  ASSUME NEW s, Sound(s), Live(s), ~Still(s), NEW diskFull \in BOOLEAN
  PROVE  LET t == HandleWriteFailure(s, diskFull)
         IN  /\ Sound(t) /\ Live(t) /\ (Present(s) => Present(t)) /\ SameBytes(s, t)
             /\ t.status = "Hashing" => s.status = "Hashing"
<1>1. CASE HandleWriteFailure(s, diskFull) = s
  BY <1>1 DEF SameBytes
<1>2. CASE HandleWriteFailure(s, diskFull) = PauseFile(s, TRUE)
  <2> DEFINE t == PauseFile(s, TRUE)
  <2>1. /\ Sound(t) /\ SameDownload(s, t) /\ (Live(s) => Live(t)) /\ (Present(s) => Present(t))
        /\ t.volume = s.volume
    BY PauseFacts
  <2> HIDE DEF t
  <2>2. SameBytes(s, t)
    BY <2>1 DEF SameDownload, SameBytes
  <2> QED
    BY <1>2, <2>1, <2>2 DEF t, SameDownload
<1> DEFINE u == [s EXCEPT !.statusBeforeWriteError = s.status, !.status = "Error"]
<1>3. CASE ~s.destroying /\ s.statusBeforeWriteError = "none"
           /\ HandleWriteFailure(s, diskFull) = PauseFile(u, FALSE)
  <2>1. s \in FileType /\ Open(s)
    BY UnstillIsOpen DEF Sound
  <2>2. s.status \in {"Empty", "Ready"}
    BY <1>3, <2>1 DEF Open, Live
  <2>3. /\ u \in FileType /\ SameBytes(s, u) /\ SameMet(s, u)
        /\ u.statusBeforeWriteError = s.status /\ u.status = "Error"
        /\ u.changed = s.changed /\ u.corrupted = s.corrupted /\ u.awaiting = s.awaiting
        /\ u.asked = s.asked /\ u.completionError = s.completionError /\ u.mover = s.mover
        /\ u.partOk = s.partOk /\ u.checked = s.checked
    BY <2>1, <2>2 DEF FileType, SameBytes, SameMet, StoredStatuses
  <2> HIDE DEF u
  <2>4. JobOK(u)
    BY <2>3 DEF Sound, SameBytes, JobOK, GoodOnDisk
  <2>5. Stages(u)
    BY <2>1, <2>2, <2>3 DEF Sound, SameBytes, SameMet, Stages, Still, Unwritten, CompletionRunning, Open
  <2>6. Checks(u)
    BY <2>1, <2>3 DEF Sound, SameBytes, Checks, GoodOnDisk, Open, CompletionRunning
  <2>7. Sound(u)
    BY <2>3, <2>4, <2>5, <2>6 DEF Sound
  <2>8. Live(u)
    BY <2>1, <2>2, <2>3 DEF Live, Open
  <2>9. Present(s) => Present(u)
    BY <2>3, SameIsPresent
  <2> DEFINE t == PauseFile(u, FALSE)
  <2>10. Sound(t) /\ SameDownload(u, t) /\ Live(t) /\ (Present(u) => Present(t)) /\ t.volume = u.volume
    BY <2>7, <2>8, PauseFacts
  <2> HIDE DEF t
  <2>11. SameBytes(s, t)
    BY <2>3, <2>10 DEF SameDownload, SameBytes
  <2> QED
    BY <1>3, <2>3, <2>9, <2>10, <2>11 DEF t, SameDownload
<1> QED
  <2>1. \/ HandleWriteFailure(s, diskFull) = s
        \/ HandleWriteFailure(s, diskFull) = PauseFile(s, TRUE)
        \/ /\ ~s.destroying /\ s.statusBeforeWriteError = "none"
           /\ HandleWriteFailure(s, diskFull) = PauseFile(u, FALSE)
    BY DEF HandleWriteFailure
  <2> HIDE DEF u
  <2> QED
    BY <1>1, <1>2, <1>3, <2>1

(* completeFile() of a file that is whole and written. *)
LEMMA CompleteFileFacts ==
  ASSUME NEW s, Sound(s), s.gaps = {}, Still(s), ~s.completionError, s.partOk = NoDigests,
         NEW verified \in BOOLEAN,
         verified /\ s.hashset => \A b \in Blocks : s.disk[b] = "good"
  PROVE  LET t == CompleteFile(s, verified)
         IN  /\ Sound(t) /\ (Live(s) => Live(t)) /\ (Present(s) => Present(t))
             /\ SameBytes(s, t) /\ (t.status = "Hashing" => s.status = "Hashing")
             /\ Clean(s) => Clean(t) /\ Flagged(t)
<1> DEFINE mover == IF ~verified /\ s.hashset THEN "verify" ELSE "move"
           t == [s EXCEPT !.status = "Completing", !.changed = {}, !.awaiting = {},
                          !.mover = mover, !.checked = s.hashset]
<1>1. CASE CompletionRunning(s) /\ CompleteFile(s, verified) = s
  BY <1>1 DEF SameBytes, Flagged, Transferring
<1>2. CASE CompleteFile(s, verified) = t
  <2>1. s \in FileType /\ mover \in {"verify", "move"} /\ (mover = "move" /\ s.hashset => verified)
    BY DEF Sound
  <2> HIDE DEF mover
  <2>2. /\ t \in FileType /\ SameBytes(s, t) /\ SameMet(s, t)
        /\ t.statusBeforeWriteError = s.statusBeforeWriteError /\ t.status = "Completing"
        /\ t.changed = {} /\ t.corrupted = s.corrupted /\ t.awaiting = {}
        /\ t.asked = s.asked /\ t.completionError = s.completionError /\ t.mover = mover
        /\ t.partOk = s.partOk /\ t.checked = s.hashset
    BY <2>1, ZenonT(60) DEF FileType, SameBytes, SameMet, StoredStatuses
  <2> HIDE DEF t
  <2>3. JobOK(t)
    BY <2>2 DEF Sound, SameBytes, JobOK, GoodOnDisk
  <2>4. Stages(t)
    BY <2>1, <2>2 DEF Sound, SameBytes, SameMet, Stages, Still, Unwritten, CompletionRunning
  <2>5. Checks(t)
    BY <2>1, <2>2 DEF Sound, SameBytes, Checks, GoodOnDisk
  <2>6. Live(t)
    BY <2>1, <2>2 DEF Live, CompletionRunning
  <2>7. Present(s) => Present(t)
    BY <2>2, SameIsPresent
  <2>8. Clean(s) => Clean(t)
    BY <2>2, SameIsClean
  <2>9. Flagged(t)
    BY <2>2 DEF Flagged, Transferring
  <2> QED
    BY <1>2, <2>2, <2>3, <2>4, <2>5, <2>6, <2>7, <2>8, <2>9 DEF Sound
<1> QED
  BY <1>1, <1>2 DEF CompleteFile

(* completeIfVerified(): a part that is still unchecked stops the completion. *)
LEMMA CompleteIfVerifiedFacts ==
  ASSUME NEW s, Sound(s), Open(s), s.gaps = {} => Still(s),
         s.gaps = {} /\ s.changed # {} => s.hashset
  PROVE  LET t == CompleteIfVerified(s)
         IN  /\ Sound(t) /\ (Live(s) => Live(t)) /\ (Present(s) => Present(t))
             /\ SameBytes(s, t) /\ (t.status = "Hashing" => s.status = "Hashing")
             /\ Flows(s, t)
             /\ s.gaps = {} /\ ~s.destroying /\ Clean(s) => Flagged(t)
<1> DEFINE t == [s EXCEPT !.completionError = TRUE, !.status = "Error"]
<1>1. CASE (s.gaps # {} \/ s.destroying) /\ CompleteIfVerified(s) = s
  BY <1>1 DEF SameBytes, Flows
<1>2. CASE s.gaps = {} /\ CompleteIfVerified(s) = CompleteFile(s, FALSE)
  <2>1. ~s.completionError /\ s.partOk = NoDigests
    BY DEF Open
  <2>2. LET u == CompleteFile(s, FALSE)
        IN  /\ Sound(u) /\ (Live(s) => Live(u)) /\ (Present(s) => Present(u)) /\ SameBytes(s, u)
            /\ u.status = "Hashing" => s.status = "Hashing"
            /\ Clean(s) => Clean(u) /\ Flagged(u)
    BY <1>2, <2>1, CompleteFileFacts
  <2> QED
    BY <1>2, <2>2 DEF Flows
<1>3. CASE s.gaps = {} /\ s.changed # {} /\ CompleteIfVerified(s) = t
  <2>1. s \in FileType
    BY DEF Sound
  <2>2. /\ t \in FileType /\ SameBytes(s, t) /\ SameMet(s, t)
        /\ t.statusBeforeWriteError = s.statusBeforeWriteError /\ t.status = "Error"
        /\ t.changed = s.changed /\ t.corrupted = s.corrupted /\ t.awaiting = s.awaiting
        /\ t.asked = s.asked /\ t.completionError = TRUE /\ t.mover = s.mover
        /\ t.partOk = s.partOk /\ t.checked = s.checked
    BY <2>1 DEF FileType, SameBytes, SameMet, StoredStatuses
  <2> HIDE DEF t
  <2>3. JobOK(t)
    BY <2>2 DEF Sound, SameBytes, JobOK, GoodOnDisk
  <2>4. Stages(t)
    BY <1>3, <2>2 DEF Sound, SameBytes, SameMet, Stages, Still, Unwritten, CompletionRunning, Open
  <2>5. Checks(t)
    BY <2>1, <2>2 DEF Sound, SameBytes, Checks, GoodOnDisk
  <2>6. Live(t)
    BY <2>2 DEF Live, Open
  <2>7. Present(s) => Present(t)
    BY <2>2, SameIsPresent
  <2>8. (Clean(s) => Clean(t)) /\ Flagged(t)
    BY <2>2, SameIsClean DEF Flagged, Transferring
  <2> QED
    BY <1>3, <2>2, <2>3, <2>4, <2>5, <2>6, <2>7, <2>8 DEF Sound, Flows
<1> QED
  BY <1>1, <1>2, <1>3 DEF CompleteIfVerified

-----------------------------------------------------------------------------
(* verifyChangedParts(): no hole is left in what it takes back, and a file without gaps
   is left with an unchecked part only if there is a hashset to check it with. *)
LEMMA VerifyFacts ==
  ASSUME NEW s, Sound(s), Open(s), NEW forceICH, NEW noAICH, NEW digests, GoodOnDisk(s, digests)
  PROVE  LET t == VerifyChangedParts(s, forceICH, noAICH, digests)
         IN  /\ Sound(t) /\ Open(t) /\ (Live(s) => Live(t)) /\ (Present(s) => Present(t))
             /\ (t.gaps = {} /\ Unwritten(s) = {} /\ t.changed # {} => t.hashset)
             /\ t.buffered = s.buffered /\ t.flushing = s.flushing /\ t.job = s.job
             /\ t.disk = s.disk /\ t.hashset = s.hashset /\ t.destroying = s.destroying
             /\ t.volume = s.volume /\ Judges(s, t) /\ (s.changed = {} => t.gaps = s.gaps)
             /\ /\ Calm(s) /\ (s.job.phase = "none" \/ s.job.want = {})
                /\ \A p \in Parts : digests[p] \in {"none", "Ok", "Bad"}
                => Clean(t) /\ (Flagged(s) => Flagged(t))
<1> DEFINE Verdict(p) == HashSinglePart(s, p, digests)
           full == {p \in s.changed : IsComplete(s, p)}
           judged == {p \in full : IsCompleteBDSafe(s, BlocksOf(p))}
           unread == {p \in judged : Verdict(p) = "Unread"}
           bad == {p \in judged : Verdict(p) = "Bad"}
           recovered == {p \in s.changed \ full : /\ p \in s.corrupted
                                                  /\ UseICH \/ forceICH
                                                  /\ Verdict(p) = "Ok"}
           good == {p \in judged : Verdict(p) = "Ok"} \cup recovered
           changed == (full \ judged) \cup unread
           gaps == {b \in Blocks : \/ PartOf[b] \in bad
                                   \/ b \in s.gaps /\ PartOf[b] \notin recovered}
           corrupted == (s.corrupted \cup bad) \ good
           awaiting == IF s.hashset THEN s.awaiting ELSE s.awaiting \cup good
           asked == IF noAICH THEN s.asked ELSE s.asked \cup bad
           status == Promote(s, good)
           t == [s EXCEPT !.changed = changed, !.gaps = gaps, !.corrupted = corrupted,
                          !.awaiting = awaiting, !.asked = asked, !.status = status]
<1>1. VerifyChangedParts(s, forceICH, noAICH, digests) = t
  BY DEF VerifyChangedParts
<1>2. s \in FileType
  BY DEF Sound
<1>3. /\ bad \subseteq Parts /\ good \subseteq Parts /\ changed \subseteq Parts /\ gaps \subseteq Blocks
      /\ recovered \subseteq s.corrupted
  BY <1>2 DEF FileType
<1>4. bad # {} \/ unread # {} => s.hashset
  BY DEF HashSinglePart
<1>5. ASSUME NEW b \in Blocks, PartOf[b] \in recovered PROVE s.disk[b] = "good"
  <2>1. s.hashset
    BY <1>5 DEF Sound, Stages
  <2>2. Verdict(PartOf[b]) = "Ok"
    BY <1>5
  <2>3. digests[PartOf[b]] = "Ok" \/ PartHash(s, PartOf[b]) = "Ok"
    BY <2>1, <2>2 DEF HashSinglePart
  <2> QED
    BY <2>3 DEF GoodOnDisk, PartHash, BlocksOf
<1>6. Unwritten(s) = {} => full = judged
  BY DEF IsComplete, IsCompleteBDSafe
<1>7. /\ corrupted \subseteq Parts /\ awaiting \subseteq Parts /\ asked \subseteq Parts
      /\ (corrupted # {} \/ asked # {} => s.hashset)
  <2> HIDE DEF bad, good
  <2> QED
    BY <1>2, <1>3, <1>4 DEF FileType, Sound, Stages
<1>8. status \in {"Empty", "Ready", "Error"} /\ (status = "Error" => s.status = "Error")
  BY DEF Promote, Open
<1>9. ASSUME NEW b \in Blocks, b \notin gaps, b \in s.gaps PROVE s.disk[b] = "good"
  BY <1>5, <1>9
<1>10. changed # {} /\ Unwritten(s) = {} => s.hashset
  BY <1>4, <1>6
<1>18. ASSUME NEW b \in gaps, b \notin s.gaps PROVE BlocksOf(PartOf[b]) \cap Unwritten(s) = {}
  BY <1>18 DEF IsCompleteBDSafe
<1>19. Unwritten(s) \cap s.gaps = {} => Unwritten(s) \cap gaps = {}
  BY <1>18 DEF BlocksOf
<1>20. s.changed = {} => gaps = s.gaps
  BY <1>2 DEF FileType
<1> DEFINE Well == s.volume = "ok" /\ \A p \in Parts : digests[p] \in {"none", "Ok", "Bad"}
<1>21. ASSUME Well, NEW p \in judged PROVE Verdict(p) \in {"Ok", "Bad"}
  <2>1. p \in Parts
    BY <1>2 DEF FileType
  <2> HIDE DEF judged
  <2> QED
    BY <1>21, <2>1 DEF HashSinglePart, PartHash
<1>22. Well => unread = {}
  BY <1>21
<1>23. ASSUME Well, NEW p \in changed
       PROVE  BlocksOf(p) \cap gaps = {} /\ BlocksOf(p) \cap Unwritten(s) # {}
  <2>1. p \in full \ judged
    BY <1>22, <1>23
  <2>2. BlocksOf(p) \cap s.gaps = {} /\ BlocksOf(p) \cap Unwritten(s) # {}
    BY <2>1 DEF IsComplete, IsCompleteBDSafe
  <2>3. p \notin bad
    BY <2>1
  <2> QED
    BY <2>2, <2>3 DEF BlocksOf
<1>24. ASSUME NEW p \in Parts, p \notin bad, p \notin recovered PROVE BlocksOf(p) \cap gaps = BlocksOf(p) \cap s.gaps
  BY <1>2, <1>24 DEF BlocksOf, FileType
<1>25. ASSUME Flagged(s), Well, NEW p \in Parts, BlocksOf(p) \cap (gaps \cup Unwritten(s)) = {},
              p \notin changed, s.hashset \/ p \notin awaiting, Transferring(s)
       PROVE  Good(s, p)
  <2>1. CASE p \notin s.changed
    <3>1. p \notin bad /\ p \notin recovered /\ (p \in s.awaiting => p \in awaiting)
      BY <2>1
    <3>2. IsCompleteBDSafe(s, BlocksOf(p))
      BY <1>24, <1>25, <3>1 DEF IsCompleteBDSafe
    <3> QED
      BY <1>25, <2>1, <3>1, <3>2 DEF Flagged
  <2>2. CASE p \in recovered
    BY <1>5, <2>2 DEF Good, BlocksOf
  <2>3. CASE p \in s.changed /\ p \notin recovered
    <3>1. p \notin bad \/ BlocksOf(p) = {}
      BY <1>25 DEF BlocksOf
    <3>2. CASE BlocksOf(p) = {}
      BY <3>2 DEF Good
    <3>3. CASE p \notin bad /\ BlocksOf(p) # {}
      <4>1. p \in judged
        BY <1>24, <1>25, <2>3, <3>3 DEF IsComplete, IsCompleteBDSafe
      <4>2. Verdict(p) = "Ok"
        BY <1>21, <1>25, <3>3, <4>1
      <4>3. s.hashset
        BY <1>25, <4>1, <4>2
      <4>4. digests[p] = "Ok" \/ PartHash(s, p) = "Ok"
        BY <4>2, <4>3 DEF HashSinglePart
      <4> QED
        BY <4>4 DEF GoodOnDisk, PartHash, Good, BlocksOf
    <3> QED
      BY <3>1, <3>2, <3>3
  <2> QED
    BY <2>1, <2>2, <2>3
<1> HIDE DEF full, judged, unread, bad, recovered, good, changed, gaps, corrupted, awaiting, asked, status
<1>11. /\ t \in FileType /\ SameMet(s, t)
       /\ t.gaps = gaps /\ t.buffered = s.buffered /\ t.flushing = s.flushing /\ t.disk = s.disk
       /\ t.job = s.job /\ t.hashset = s.hashset /\ t.destroying = s.destroying
       /\ t.volume = s.volume /\ t.statusBeforeWriteError = s.statusBeforeWriteError
       /\ t.status = status /\ t.changed = changed /\ t.corrupted = corrupted
       /\ t.awaiting = awaiting /\ t.asked = asked /\ t.completionError = s.completionError
       /\ t.mover = s.mover /\ t.partOk = s.partOk /\ t.checked = s.checked
  BY <1>2, <1>3, <1>7, <1>8, ZenonT(60) DEF FileType, SameMet, StoredStatuses
<1> HIDE DEF t
<1>12. JobOK(t)
  BY <1>11 DEF Sound, JobOK, GoodOnDisk
<1>13. Open(t)
  BY <1>8, <1>11 DEF Open, CompletionRunning
<1>14. Stages(t)
  BY <1>7, <1>11, <1>13 DEF Sound, Stages, Open, SameMet
<1>15. Checks(t)
  BY <1>11, <1>13 DEF Sound, Checks, GoodOnDisk, Open, CompletionRunning
<1>16. Live(s) => Live(t)
  BY <1>8, <1>11, <1>13 DEF Live, Open
<1>17. Present(s) => Present(t)
  <2>1. WholeOnDisk(s) => WholeOnDisk(t)
    BY <1>9, <1>11 DEF WholeOnDisk, Unwritten, Data
  <2>2. MetTrue(s) => MetTrue(t)
    BY <1>11 DEF MetTrue, SameMet
  <2> QED
    BY <2>1, <2>2 DEF Present
<1>26. Judges(s, t)
  BY <1>11, <1>18 DEF Judges, Turns, Unwritten
<1>27. ASSUME Well, Calm(s), s.job.phase = "none" \/ s.job.want = {} PROVE Calm(t) /\ FlagsWait(t)
  <2>1. Unwritten(t) = Unwritten(s)
    BY <1>11 DEF Unwritten
  <2>2. FlagsWait(t)
    BY <1>11, <1>23, <1>27, <2>1 DEF FlagsWait, IsComplete
  <2>3. t.completionError => t.status = "Error"
    BY <1>13 DEF Open
  <2>4. t.job.phase = "done" => t.job.written /\ DigestsHold(t)
    BY <1>11, <1>27 DEF Calm, DigestsHold, Good
  <2> QED
    BY <1>11, <1>19, <1>27, <2>1, <2>2, <2>3, <2>4 DEF Calm
<1>28. ASSUME Well, Flagged(s) PROVE Flagged(t)
  <2>1. Transferring(s)
    BY DEF Open, Transferring
  <2>2. Unwritten(t) = Unwritten(s)
    BY <1>11 DEF Unwritten
  <2> QED
    BY <1>11, <1>25, <1>28, <2>1, <2>2 DEF Flagged, IsCompleteBDSafe, Good
<1>29. Calm(s) => s.volume = "ok"
  BY DEF Calm
<1> QED
  BY <1>1, <1>10, <1>11, <1>12, <1>13, <1>14, <1>15, <1>16, <1>17, <1>20, <1>26, <1>27, <1>28, <1>29
  DEF Sound, Clean

(* flushBufferAsync() *)
LEMMA FlushAsyncFacts ==
  ASSUME NEW s, Sound(s)
  PROVE  LET t == FlushBufferAsync(s)
         IN  /\ Sound(t) /\ (Live(s) => Live(t)) /\ (Present(s) => Present(t))
             /\ t.gaps = s.gaps /\ t.destroying = s.destroying /\ t.hashset = s.hashset
             /\ t.status = s.status
             /\ s.job.phase = "none" /\ t.job.phase # "none" => Held(t.buffered) = {}
             /\ Flows(s, t) /\ Judges(s, t)
<1> DEFINE touched == MarkChangedParts(s, Held(s.buffered))
           want == {p \in touched : IsComplete(s, p) \/ (p \in s.corrupted /\ UseICH)}
           asks == IF s.hashset THEN want ELSE {}
           job == [NoJob EXCEPT !.phase = "queued", !.todo = Held(s.buffered), !.want = asks]
           t == [s EXCEPT !.flushing = s.buffered, !.buffered = Nothing, !.job = job]
<1>1. CASE FlushBufferAsync(s) = s
  BY <1>1 DEF Flows, Judges, Turns
<1>2. CASE s.job.phase = "none" /\ FlushBufferAsync(s) = NoRoom(s)
  <2>1. LET u == NoRoom(s)
        IN  /\ Sound(u) /\ (Live(s) => Live(u)) /\ (Present(s) => Present(u)) /\ SameBytes(s, u)
            /\ SameDownload(s, u)
    BY NoRoomFacts
  <2>2. LET u == NoRoom(s) IN Flows(s, u) /\ Judges(s, u)
    BY <2>1, SameFlows DEF SameBytes
  <2> QED
    BY <1>2, <2>1, <2>2 DEF SameBytes, SameDownload
<1>3. CASE Held(s.buffered) # {} /\ s.job.phase = "none" /\ FlushBufferAsync(s) = t
  <2>1. s \in FileType
    BY DEF Sound
  <2>2. asks \subseteq Parts /\ Held(s.buffered) \subseteq Blocks
    BY <2>1, BlocksAssumption DEF FileType, MarkChangedParts, Held
  <2>14. ASSUME Clean(s), NEW p \in asks, BlocksOf(p) \subseteq s.gaps PROVE BlocksOf(p) = {}
    <3>1. CASE p \in s.changed
      BY <2>14, <3>1 DEF Clean, FlagsWait, IsComplete
    <3>2. CASE p \notin s.changed
      <4>1. PICK b \in Held(s.buffered) : PartOf[b] = p
        BY <2>14, <3>2 DEF MarkChangedParts
      <4>2. b \in BlocksOf(p) /\ b \in Unwritten(s)
        BY <4>1 DEF BlocksOf, Unwritten, Held
      <4> QED
        BY <2>14, <4>2 DEF Clean, Calm
    <3> QED
      BY <3>1, <3>2
  <2>15. ~s.hashset => asks = {}
    OBVIOUS
  <2> HIDE DEF asks
  <2>3. /\ job \in JobType /\ job.phase = "queued" /\ job.todo = Held(s.buffered)
        /\ job.written = FALSE /\ job.want = asks
    BY <2>2 DEF JobType, NoJob, NoDigests, DigestValues
  <2>4. Nothing \in [Blocks -> Data \cup {"none"}] /\ Held(Nothing) = {}
    BY DEF Nothing, Held
  <2> HIDE DEF job
  <2>5. /\ t \in FileType /\ SameMet(s, t)
        /\ t.gaps = s.gaps /\ t.buffered = Nothing /\ t.flushing = s.buffered /\ t.disk = s.disk
        /\ t.job = job /\ t.hashset = s.hashset /\ t.destroying = s.destroying
        /\ t.volume = s.volume /\ t.statusBeforeWriteError = s.statusBeforeWriteError
        /\ t.status = s.status /\ t.changed = s.changed /\ t.corrupted = s.corrupted
        /\ t.awaiting = s.awaiting /\ t.asked = s.asked /\ t.completionError = s.completionError
        /\ t.mover = s.mover /\ t.partOk = s.partOk /\ t.checked = s.checked
    BY <2>1, <2>3, <2>4 DEF FileType, SameMet
  <2> HIDE DEF t
  <2>6. Held(s.flushing) = {} /\ Unwritten(t) = Unwritten(s) /\ ~Still(s)
    BY <1>3, <2>4, <2>5 DEF Sound, JobOK, Unwritten, Still
  <2>7. Open(s)
    BY <2>6, UnstillIsOpen
  <2>8. Open(t)
    BY <2>5, <2>7 DEF Open, CompletionRunning
  <2>9. JobOK(t)
    BY <1>3, <2>3, <2>5 DEF JobOK
  <2>10. Stages(t)
    BY <2>5, <2>7, <2>8 DEF Sound, Stages, Open, SameMet
  <2>11. Checks(t)
    BY <2>5, <2>7, <2>8 DEF Sound, Checks, GoodOnDisk, Open, CompletionRunning
  <2>12. Live(s) => Live(t)
    BY <2>5, <2>8 DEF Live, Open
  <2>13. Present(s) => Present(t)
    BY <2>5, <2>6 DEF Present, WholeOnDisk, MetTrue, SameMet
  <2>16. Clean(s) => Clean(t)
    BY <2>3, <2>5, <2>6, <2>14, <2>15 DEF Clean, Calm, FlagsWait, IsComplete
  <2>17. Flagged(s) => Flagged(t)
    BY <2>5, <2>6 DEF Flagged, Transferring, CompletionRunning, IsCompleteBDSafe, Good
  <2>18. Judges(s, t)
    BY <2>5, <2>6 DEF Judges, Turns
  <2> QED
    BY <1>3, <2>4, <2>5, <2>9, <2>10, <2>11, <2>12, <2>13, <2>16, <2>17, <2>18 DEF Sound, Flows
<1> QED
  BY <1>1, <1>2, <1>3 DEF FlushBufferAsync

-----------------------------------------------------------------------------
(* What a call makes of a sound download, *)
Goes(s, t) ==
  /\ Sound(t) /\ Live(t) /\ (Present(s) => Present(t)) /\ t.destroying = s.destroying
  /\ t.hashset = s.hashset /\ (t.status = "Hashing" => s.status = "Hashing")

(* and of its verdicts. *)
Carries(s, t) == Goes(s, t) /\ Flows(s, t) /\ Judges(s, t)

(* Two calls that put nothing new in memory. *)
LEMMA JudgesOn ==
  ASSUME NEW s, NEW t, NEW u, Judges(s, t), Judges(t, u)
  PROVE  Judges(s, u)
BY DEF Judges, Turns, Writable

(* One call after the other. *)
LEMMA CarriesOn ==
  ASSUME NEW s, NEW t, NEW u, Carries(s, t), Carries(t, u)
  PROVE  Carries(s, u)
<1>1. Judges(s, u)
  BY JudgesOn DEF Carries
<1>2. Goes(s, u) /\ Flows(s, u)
  BY DEF Carries, Goes, Flows
<1> QED
  BY <1>1, <1>2 DEF Carries

(* A call that changes nothing. *)
LEMMA CarriesSelf ==
  ASSUME NEW s, Sound(s), Live(s)
  PROVE  Carries(s, s)
BY DEF Carries, Goes, Flows, Judges, Turns

(* savePartFile(), as a call that carries the download on. *)
LEMMA SaveCarries ==
  ASSUME NEW s, Sound(s), Live(s)
  PROVE  LET t == SavePartFile(s) IN Carries(s, t) /\ SameDownload(s, t)
<1> DEFINE t == SavePartFile(s)
<1>1. /\ Sound(t) /\ SameDownload(s, t) /\ (Live(s) => Live(t)) /\ (Present(s) => Present(t))
      /\ t.volume = s.volume
  BY SaveFacts
<1> HIDE DEF t
<1>2. Flows(s, t) /\ Judges(s, t)
  BY <1>1, SameFlows
<1>3. Goes(s, t)
  BY <1>1 DEF Goes, SameDownload
<1> QED
  BY <1>1, <1>2, <1>3 DEF Carries, t

(* completeIfVerified(), as a call that carries the download on. *)
LEMMA CompleteCarries ==
  ASSUME NEW s, Sound(s), Live(s), Open(s), s.gaps = {} => Still(s),
         s.gaps = {} /\ s.changed # {} => s.hashset
  PROVE  LET t == CompleteIfVerified(s) IN Carries(s, t) /\ SameBytes(s, t)
<1> DEFINE t == CompleteIfVerified(s)
<1>1. /\ Sound(t) /\ (Live(s) => Live(t)) /\ (Present(s) => Present(t)) /\ SameBytes(s, t)
      /\ t.status = "Hashing" => s.status = "Hashing"
      /\ Flows(s, t)
  BY CompleteIfVerifiedFacts
<1> HIDE DEF t
<1>2. Goes(s, t)
  BY <1>1 DEF Goes, SameBytes
<1>3. Judges(s, t)
  BY <1>1, SameJudges
<1> QED
  BY <1>1, <1>2, <1>3 DEF Carries, t

(* pauseFile(), as a call that carries the download on. *)
LEMMA PauseCarries ==
  ASSUME NEW s, Sound(s), Live(s), NEW i \in BOOLEAN
  PROVE  LET t == PauseFile(s, i) IN Carries(s, t) /\ SameDownload(s, t)
<1> DEFINE t == PauseFile(s, i)
<1>1. /\ Sound(t) /\ SameDownload(s, t) /\ (Live(s) => Live(t)) /\ (Present(s) => Present(t))
      /\ t.volume = s.volume
  BY PauseFacts
<1> HIDE DEF t
<1>2. Flows(s, t) /\ Judges(s, t)
  BY <1>1, SameFlows
<1>3. Goes(s, t)
  BY <1>1 DEF Goes, SameDownload
<1> QED
  BY <1>1, <1>2, <1>3 DEF Carries, t

(* A file that waits for room, likewise. *)
LEMMA NoRoomCarries ==
  ASSUME NEW s, Sound(s), Live(s)
  PROVE  LET t == NoRoom(s) IN Carries(s, t) /\ SameDownload(s, t)
<1> DEFINE t == NoRoom(s)
<1>1. /\ Sound(t) /\ SameDownload(s, t) /\ (Live(s) => Live(t)) /\ (Present(s) => Present(t))
      /\ SameBytes(s, t)
  BY NoRoomFacts
<1> HIDE DEF t
<1>2. Flows(s, t) /\ Judges(s, t)
  BY <1>1, SameFlows DEF SameBytes
<1>3. Goes(s, t)
  BY <1>1 DEF Goes, SameDownload
<1> QED
  BY <1>1, <1>2, <1>3 DEF Carries, t

(* The empty job, the empty buffer and no digests at all have their types. *)
LEMMA NoJobFacts ==
  /\ NoJob \in JobType /\ NoJob.phase = "none" /\ NoJob.todo = {}
  /\ Nothing \in [Blocks -> Data \cup {"none"}] /\ Held(Nothing) = {}
  /\ NoDigests \in [Parts -> DigestValues] /\ \A p \in Parts : NoDigests[p] # "Ok"
BY DEF NoJob, JobType, Nothing, Held, NoDigests, DigestValues

(* A failed write puts its bytes back into the buffer. *)
LEMMA FlushFailedFacts ==
  ASSUME NEW s, Sound(s), Live(s), s.job.phase = "done", ~s.job.written
  PROVE  Carries(s, FlushFailed(s)) /\ FlushFailed(s).job.phase = "none"
<1> DEFINE merged == [b \in Blocks |-> IF s.flushing[b] # "none" THEN s.flushing[b] ELSE s.buffered[b]]
           u == [s EXCEPT !.job = NoJob, !.buffered = merged, !.flushing = Nothing]
<1>1. s \in FileType /\ s.job.diskFull \in BOOLEAN
  BY DEF Sound, FileType, JobType
<1>2. merged \in [Blocks -> Data \cup {"none"}] /\ Held(merged) = Unwritten(s)
  BY <1>1 DEF FileType, Held, Unwritten
<1>3. Unwritten(s) # {} /\ ~Still(s)
  BY DEF Sound, JobOK, Unwritten, Still
<1> HIDE DEF merged
<1>4. /\ u \in FileType /\ SameMet(s, u)
      /\ u.gaps = s.gaps /\ u.buffered = merged /\ u.flushing = Nothing /\ u.disk = s.disk
      /\ u.job = NoJob /\ u.hashset = s.hashset /\ u.destroying = s.destroying
      /\ u.volume = s.volume /\ u.statusBeforeWriteError = s.statusBeforeWriteError
      /\ u.status = s.status /\ u.changed = s.changed /\ u.corrupted = s.corrupted
      /\ u.awaiting = s.awaiting /\ u.asked = s.asked /\ u.completionError = s.completionError
      /\ u.mover = s.mover /\ u.partOk = s.partOk /\ u.checked = s.checked
  BY <1>1, <1>2, NoJobFacts DEF FileType, SameMet
<1>5. FlushFailed(s) = HandleWriteFailure(u, s.job.diskFull)
  BY DEF FlushFailed, merged
<1> HIDE DEF u
<1>6. Unwritten(u) = Unwritten(s) /\ ~Still(u)
  BY <1>2, <1>3, <1>4, NoJobFacts DEF Unwritten, Still
<1>7. Open(s)
  BY <1>3, UnstillIsOpen
<1>8. Open(u)
  BY <1>4, <1>7 DEF Open, CompletionRunning
<1>9. JobOK(u)
  BY <1>4, NoJobFacts DEF JobOK
<1>10. Stages(u)
  BY <1>4, <1>7, <1>8 DEF Sound, Stages, Open, SameMet
<1>11. Checks(u)
  BY <1>4, <1>7, <1>8 DEF Sound, Checks, GoodOnDisk, Open, CompletionRunning
<1>12. Live(u)
  BY <1>4, <1>8 DEF Live, Open
<1>13. Present(s) => Present(u)
  BY <1>4, <1>6 DEF Present, WholeOnDisk, MetTrue, SameMet
<1>14. Sound(u)
  BY <1>4, <1>9, <1>10, <1>11 DEF Sound
<1>15. LET t == HandleWriteFailure(u, s.job.diskFull)
       IN  /\ Sound(t) /\ Live(t) /\ (Present(u) => Present(t)) /\ SameBytes(u, t)
           /\ t.status = "Hashing" => u.status = "Hashing"
  BY <1>1, <1>6, <1>12, <1>14, WriteFailureFacts
<1>16. ~Clean(s)
  BY DEF Clean, Calm
<1> DEFINE t == HandleWriteFailure(u, s.job.diskFull)
<1>17. Judges(s, t)
  <2>1. SameBytes(u, t)
    BY <1>15
  <2> HIDE DEF t
  <2>2. t.gaps = s.gaps /\ t.volume = s.volume /\ Unwritten(t) = Unwritten(s)
    BY <1>4, <1>6, <2>1 DEF SameBytes, Unwritten
  <2> QED
    BY <2>2 DEF Judges, Turns
<1>18. Goes(s, t) /\ t.job.phase = "none"
  BY <1>4, <1>13, <1>15, NoJobFacts DEF SameBytes, Goes
<1> QED
  BY <1>5, <1>16, <1>17, <1>18 DEF Carries, Flows

(* A write that reached the disk, and its verdicts. *)
LEMMA FlushLandedFacts ==
  ASSUME NEW s, Sound(s), Live(s), s.job.phase = "done", s.job.written, NEW forceICH, NEW noAICH
  PROVE  LET t == FlushLanded(s, forceICH, noAICH)
         IN  /\ Carries(s, t) /\ Open(t)
             /\ t.buffered = s.buffered /\ Held(t.flushing) = {} /\ t.job.phase = "none"
             /\ t.gaps = {} /\ Held(t.buffered) = {} /\ t.changed # {} => t.hashset
<1> DEFINE marked == MarkChangedParts(s, Held(s.flushing))
           u == [s EXCEPT !.job = NoJob, !.changed = marked, !.flushing = Nothing]
<1>1. s \in FileType
  BY DEF Sound
<1>2. marked \subseteq Parts
  BY <1>1, BlocksAssumption DEF FileType, MarkChangedParts, Held
<1>3. ~Still(s)
  BY DEF Still
<1> HIDE DEF marked
<1>4. /\ u \in FileType /\ SameMet(s, u)
      /\ u.gaps = s.gaps /\ u.buffered = s.buffered /\ u.flushing = Nothing /\ u.disk = s.disk
      /\ u.job = NoJob /\ u.hashset = s.hashset /\ u.destroying = s.destroying
      /\ u.volume = s.volume /\ u.statusBeforeWriteError = s.statusBeforeWriteError
      /\ u.status = s.status /\ u.changed = marked /\ u.corrupted = s.corrupted
      /\ u.awaiting = s.awaiting /\ u.asked = s.asked /\ u.completionError = s.completionError
      /\ u.mover = s.mover /\ u.partOk = s.partOk /\ u.checked = s.checked
  BY <1>1, <1>2, NoJobFacts DEF FileType, SameMet
<1>5. FlushLanded(s, forceICH, noAICH) = VerifyChangedParts(u, forceICH, noAICH, s.job.digests)
  BY DEF FlushLanded, marked
<1> HIDE DEF u
<1>6. Unwritten(u) = Held(s.buffered)
  BY <1>4, NoJobFacts DEF Unwritten
<1>7. Open(s)
  BY <1>3, UnstillIsOpen
<1>8. Open(u)
  BY <1>4, <1>7 DEF Open, CompletionRunning
<1>9. JobOK(u)
  BY <1>4, NoJobFacts DEF JobOK
<1>10. Stages(u)
  BY <1>4, <1>7, <1>8 DEF Sound, Stages, Open, SameMet
<1>11. Checks(u)
  BY <1>4, <1>7, <1>8 DEF Sound, Checks, GoodOnDisk, Open, CompletionRunning
<1>12. Live(u)
  BY <1>4, <1>7, <1>8 DEF Live, Open
<1>13. Present(s) => Present(u)
  <2>1. \A b \in Held(s.flushing) : s.disk[b] \in Data
    BY DEF Sound, JobOK
  <2> QED
    BY <1>4, <1>6, <2>1 DEF Present, WholeOnDisk, MetTrue, SameMet, Unwritten
<1>14. Sound(u)
  BY <1>4, <1>9, <1>10, <1>11 DEF Sound
<1>15. GoodOnDisk(u, s.job.digests)
  BY <1>4 DEF Sound, JobOK, GoodOnDisk
<1> DEFINE d == s.job.digests
           t == VerifyChangedParts(u, forceICH, noAICH, d)
<1>16. /\ Sound(t) /\ Open(t) /\ (Live(u) => Live(t)) /\ (Present(u) => Present(t))
       /\ (t.gaps = {} /\ Unwritten(u) = {} /\ t.changed # {} => t.hashset)
       /\ t.buffered = u.buffered /\ t.flushing = u.flushing /\ t.job = u.job
       /\ t.destroying = u.destroying /\ t.hashset = u.hashset
       /\ Judges(u, t)
       /\ Calm(u) /\ (\A p \in Parts : d[p] \in {"none", "Ok", "Bad"})
          => Clean(t) /\ (Flagged(u) => Flagged(t))
  <2>1. u.job.phase = "none"
    BY <1>4, NoJobFacts
  <2> HIDE DEF d
  <2> QED
    BY <1>8, <1>14, <1>15, <2>1, VerifyFacts DEF d
<1> HIDE DEF t
<1>17. Clean(s) => Calm(u) /\ \A p \in Parts : d[p] \in {"none", "Ok", "Bad"}
  BY <1>4, <1>6, NoJobFacts DEF Clean, Calm, DigestsHold, Unwritten
<1>18. Flagged(s) => Flagged(u)
  <2> SUFFICES ASSUME Flagged(s), NEW p \in Parts,
                      IsCompleteBDSafe(u, BlocksOf(p)), p \notin u.changed,
                      u.hashset \/ p \notin u.awaiting
               PROVE  Good(u, p)
    BY DEF Flagged
  <2>1. p \notin s.changed /\ \A b \in Held(s.flushing) : PartOf[b] # p
    BY <1>4 DEF MarkChangedParts, marked
  <2>2. IsCompleteBDSafe(s, BlocksOf(p))
    BY <1>4, <1>6, <2>1 DEF IsCompleteBDSafe, Unwritten, BlocksOf
  <2>3. Transferring(s)
    BY <1>7 DEF Open, Transferring
  <2> QED
    BY <1>4, <2>1, <2>2, <2>3 DEF Flagged, Good
<1>19. Judges(s, u)
  BY <1>4, <1>6 DEF Judges, Turns, Unwritten
<1>20. Flows(s, t) /\ Judges(s, t)
  <2>1. Flows(s, t)
    BY <1>16, <1>17, <1>18 DEF Flows
  <2>2. Judges(s, t)
    BY <1>16, <1>19, JudgesOn
  <2> QED
    BY <2>1, <2>2
<1>21. /\ Goes(s, t) /\ Open(t)
       /\ t.buffered = s.buffered /\ Held(t.flushing) = {} /\ t.job.phase = "none"
       /\ t.gaps = {} /\ Held(t.buffered) = {} /\ t.changed # {} => t.hashset
  BY <1>4, <1>6, <1>12, <1>13, <1>16, NoJobFacts DEF Goes, Open
<1> QED
  BY <1>5, <1>20, <1>21 DEF Carries, t

(* applyFlushResult() *)
LEMMA ApplyFlushFacts ==
  ASSUME NEW s, Sound(s), Live(s), s.job.phase = "done", NEW forceICH, NEW noAICH, NEW env
  PROVE  LET t == ApplyFlushResult(s, forceICH, noAICH, env)
         IN  /\ Carries(s, t) /\ (t.job.phase = "none" \/ Held(t.buffered) = {})
             /\ t.gaps = {} \/ t.job.phase = "none"
<1> DEFINE r == ApplyFlushResult(s, forceICH, noAICH, env)
           t == FlushLanded(s, forceICH, noAICH)
<1> SUFFICES /\ Carries(s, r) /\ (r.job.phase = "none" \/ Held(r.buffered) = {})
             /\ r.gaps = {} \/ r.job.phase = "none"
  OBVIOUS
<1>1. CASE ~s.job.written
  BY <1>1, FlushFailedFacts DEF ApplyFlushResult
<1>2. CASE s.job.written
  <2>1. /\ Carries(s, t) /\ Open(t)
        /\ t.buffered = s.buffered /\ Held(t.flushing) = {} /\ t.job.phase = "none"
        /\ t.gaps = {} /\ Held(t.buffered) = {} /\ t.changed # {} => t.hashset
    BY <1>2, FlushLandedFacts
  <2>2. \/ r = t
        \/ r = SavePartFile(t)
        \/ t.gaps = {} /\ r = FlushBufferAsync(t)
        \/ Held(t.buffered) = {} /\ r = CompleteIfVerified(t)
    BY <1>2 DEF ApplyFlushResult
  <2> HIDE DEF t, r
  <2>3. CASE r = t
    BY <2>1, <2>3
  <2>0. Sound(t) /\ Live(t)
    BY <2>1 DEF Carries, Goes
  <2>4. CASE r = SavePartFile(t)
    <3> DEFINE x == SavePartFile(t)
    <3>1. Carries(t, x) /\ SameDownload(t, x)
      BY <2>0, SaveCarries
    <3> HIDE DEF x
    <3>2. Carries(s, x) /\ x.job.phase = "none"
      BY <2>1, <3>1, CarriesOn DEF SameDownload
    <3> QED
      BY <2>4, <3>2 DEF x
  <2>5. CASE t.gaps = {} /\ r = FlushBufferAsync(t)
    <3> DEFINE x == FlushBufferAsync(t)
    <3>1. /\ Sound(x) /\ (Live(t) => Live(x)) /\ (Present(t) => Present(x))
          /\ x.destroying = t.destroying /\ x.hashset = t.hashset /\ x.status = t.status
          /\ t.job.phase = "none" /\ x.job.phase # "none" => Held(x.buffered) = {}
          /\ x.gaps = t.gaps /\ Flows(t, x) /\ Judges(t, x)
      BY <2>0, FlushAsyncFacts
    <3> HIDE DEF x
    <3>2. Carries(t, x)
      BY <2>0, <3>1 DEF Carries, Goes
    <3>3. Carries(s, x)
      BY <2>1, <3>2, CarriesOn
    <3> QED
      BY <2>1, <2>5, <3>1, <3>3 DEF x
  <2>6. CASE Held(t.buffered) = {} /\ r = CompleteIfVerified(t)
    <3> DEFINE x == CompleteIfVerified(t)
    <3>0. Still(t) /\ (t.gaps = {} /\ t.changed # {} => t.hashset)
      BY <2>1, <2>6 DEF Still, Unwritten
    <3>1. Carries(t, x) /\ SameBytes(t, x)
      BY <2>0, <2>1, <3>0, CompleteCarries
    <3> HIDE DEF x
    <3>2. Carries(s, x) /\ x.job.phase = "none"
      BY <2>1, <3>1, CarriesOn DEF SameBytes
    <3> QED
      BY <2>6, <3>2 DEF x
  <2> QED
    BY <2>2, <2>3, <2>4, <2>5, <2>6
<1> QED
  BY <1>1, <1>2

(* finishPendingFlush(), once there is a result. *)
LEMMA FinishFacts ==
  ASSUME NEW s, Sound(s), Live(s), CanCollect(s), NEW forceICH, NEW noAICH, NEW env
  PROVE  LET t == FinishPendingFlush(s, forceICH, noAICH, env)
         IN  /\ Carries(s, t) /\ (t.job.phase = "none" \/ Held(t.buffered) = {})
             /\ t.gaps = {} \/ t.job.phase = "none"
<1>1. CASE s.job.phase = "none"
  BY <1>1, CarriesSelf DEF FinishPendingFlush
<1>2. CASE s.job.phase = "done"
  BY <1>2, ApplyFlushFacts DEF FinishPendingFlush
<1> QED
  BY <1>1, <1>2 DEF CanCollect

-----------------------------------------------------------------------------
(* An open download has little to keep. *)
LEMMA OpenIsSound ==
  ASSUME NEW t \in FileType, Open(t), JobOK(t),
         t.corrupted # {} \/ t.asked # {} => t.hashset,
         t.met.corrupted # {} => t.met.hashset,
         t.statusBeforeWriteError \in {"none", "Empty", "Ready"}
  PROVE  Sound(t) /\ ((t.status = "Error" /\ t.statusBeforeWriteError = "none") \/ Live(t))
<1>1. Stages(t)
  BY DEF Stages, Open
<1>2. Checks(t)
  BY NoJobFacts, BlocksAssumption DEF Checks, GoodOnDisk, Open, CompletionRunning
<1> QED
  BY <1>1, <1>2 DEF Sound, Live, Open

(* A synchronous write that fails, or in which the process dies, changes blocks that are
   still in the buffer, and leaves the .part.met behind. *)
LEMMA PartialWriteFacts ==
  ASSUME NEW s \in FileType, NEW env
  PROVE  LET t == PartialWrite(s, env)
         IN  /\ t \in FileType /\ ~t.stampOk
             /\ \A b \in Blocks : b \notin Held(s.buffered) => t.disk[b] = s.disk[b]
             /\ t.gaps = s.gaps /\ t.buffered = s.buffered /\ t.flushing = s.flushing
             /\ t.job = s.job /\ t.hashset = s.hashset /\ t.destroying = s.destroying
             /\ t.volume = s.volume /\ t.statusBeforeWriteError = s.statusBeforeWriteError
             /\ t.status = s.status /\ t.changed = s.changed /\ t.corrupted = s.corrupted
             /\ t.awaiting = s.awaiting /\ t.asked = s.asked
             /\ t.completionError = s.completionError /\ t.mover = s.mover
             /\ t.partOk = s.partOk /\ t.checked = s.checked /\ t.met = s.met
<1> DEFINE disk == [b \in Blocks |-> IF b \in Held(s.buffered) /\ b < env.at THEN s.buffered[b]
                                     ELSE IF b \in Held(s.buffered) /\ b = env.at THEN "torn"
                                     ELSE s.disk[b]]
           t == [s EXCEPT !.disk = disk, !.stampOk = FALSE]
<1>1. PartialWrite(s, env) = t
  BY DEF PartialWrite
<1>2. /\ disk \in [Blocks -> Data \cup {"none", "torn"}]
      /\ \A b \in Blocks : b \notin Held(s.buffered) => disk[b] = s.disk[b]
  BY DEF FileType
<1> HIDE DEF disk
<1>3. /\ t \in FileType /\ t.stampOk = FALSE /\ t.disk = disk
      /\ t.gaps = s.gaps /\ t.buffered = s.buffered /\ t.flushing = s.flushing
      /\ t.job = s.job /\ t.hashset = s.hashset /\ t.destroying = s.destroying
      /\ t.volume = s.volume /\ t.statusBeforeWriteError = s.statusBeforeWriteError
      /\ t.status = s.status /\ t.changed = s.changed /\ t.corrupted = s.corrupted
      /\ t.awaiting = s.awaiting /\ t.asked = s.asked
      /\ t.completionError = s.completionError /\ t.mover = s.mover
      /\ t.partOk = s.partOk /\ t.checked = s.checked /\ t.met = s.met
  BY <1>2 DEF FileType
<1> HIDE DEF t
<1> QED
  BY <1>1, <1>2, <1>3

(* flushBuffer() whose own write fails keeps the download sound; the bytes stay in the buffer. *)
LEMMA SyncFailedFacts ==
  ASSUME NEW s, Sound(s), Live(s), s.job.phase = "none", Held(s.buffered) # {},
         s.volume \in {"full", "error"}, NEW env
  PROVE  Carries(s, SyncWriteFailed(s, env))
<1> DEFINE u == PartialWrite(s, env)
           full == s.volume = "full"
<1>1. s \in FileType /\ ~Still(s) /\ full \in BOOLEAN
  BY DEF Sound, Still, Unwritten
<1>2. /\ u \in FileType /\ ~u.stampOk
      /\ \A b \in Blocks : b \notin Held(s.buffered) => u.disk[b] = s.disk[b]
      /\ u.gaps = s.gaps /\ u.buffered = s.buffered /\ u.flushing = s.flushing
      /\ u.job = s.job /\ u.hashset = s.hashset /\ u.destroying = s.destroying
      /\ u.volume = s.volume /\ u.statusBeforeWriteError = s.statusBeforeWriteError
      /\ u.status = s.status /\ u.changed = s.changed /\ u.corrupted = s.corrupted
      /\ u.awaiting = s.awaiting /\ u.asked = s.asked
      /\ u.completionError = s.completionError /\ u.mover = s.mover
      /\ u.partOk = s.partOk /\ u.checked = s.checked /\ u.met = s.met
  BY <1>1, PartialWriteFacts
<1>3. SyncWriteFailed(s, env) = HandleWriteFailure(u, full)
  BY DEF SyncWriteFailed
<1> HIDE DEF u, full
<1>4. Open(s)
  BY <1>1, UnstillIsOpen
<1>5. Open(u) /\ ~Still(u)
  BY <1>1, <1>2, <1>4 DEF Open, CompletionRunning, Still, Unwritten
<1>6. JobOK(u)
  BY <1>2 DEF Sound, JobOK
<1>7. Sound(u) /\ Live(u)
  BY <1>2, <1>4, <1>5, <1>6, OpenIsSound DEF Sound, Stages, Live, Open
<1>8. Present(s) => Present(u)
  BY <1>2 DEF Present, WholeOnDisk, MetTrue, Unwritten
<1>9. LET t == HandleWriteFailure(u, full)
      IN  /\ Sound(t) /\ Live(t) /\ (Present(u) => Present(t)) /\ SameBytes(u, t)
          /\ t.status = "Hashing" => u.status = "Hashing"
  BY <1>1, <1>5, <1>7, WriteFailureFacts
<1> DEFINE t == HandleWriteFailure(u, full)
<1>10. SameBytes(u, t)
  BY <1>9
<1>11. Goes(s, t)
  BY <1>2, <1>8, <1>9 DEF SameBytes, Goes
<1> HIDE DEF t
<1>12. Judges(s, t)
  <2>1. t.gaps = s.gaps /\ t.volume = s.volume /\ Unwritten(t) = Unwritten(s)
    BY <1>2, <1>10 DEF SameBytes, Unwritten
  <2> QED
    BY <2>1 DEF Judges, Turns
<1>13. ~Clean(s)
  BY DEF Clean, Calm
<1> QED
  BY <1>3, <1>11, <1>12, <1>13 DEF Carries, Flows, t

(* A synchronous write, and its verdicts. *)
LEMMA SyncWrittenFacts ==
  ASSUME NEW s, Sound(s), Live(s), s.job.phase = "none", Held(s.buffered) # {},
         NEW forceICH, NEW noAICH, NEW env
  PROVE  LET t == SyncWritten(s, forceICH, noAICH, env)
         IN  Carries(s, t) /\ Open(t) /\ Still(t) /\ (t.gaps = {} /\ t.changed # {} => t.hashset)
<1> DEFINE disk == [b \in Blocks |-> IF b \in Held(s.buffered) THEN s.buffered[b] ELSE s.disk[b]]
           marked == MarkChangedParts(s, Held(s.buffered))
           u == [s EXCEPT !.disk = disk, !.stampOk = FALSE, !.changed = marked, !.buffered = Nothing]
<1>1. s \in FileType /\ ~Still(s)
  BY DEF Sound, Still, Unwritten
<1>2. marked \subseteq Parts
  BY <1>1, BlocksAssumption DEF FileType, MarkChangedParts, Held
<1>3. /\ disk \in [Blocks -> Data \cup {"none", "torn"}]
      /\ \A b \in Held(s.buffered) : disk[b] \in Data
      /\ \A b \in Blocks \ Held(s.buffered) : disk[b] = s.disk[b]
  BY <1>1 DEF FileType, Held
<1>4. SyncWritten(s, forceICH, noAICH, env) = VerifyChangedParts(u, forceICH, noAICH, NoDigests)
  BY DEF SyncWritten
<1> HIDE DEF disk, marked
<1>5. /\ u \in FileType /\ u.met = s.met /\ u.stampOk = FALSE
      /\ u.gaps = s.gaps /\ u.buffered = Nothing /\ u.flushing = s.flushing /\ u.disk = disk
      /\ u.job = s.job /\ u.hashset = s.hashset /\ u.destroying = s.destroying
      /\ u.volume = s.volume /\ u.statusBeforeWriteError = s.statusBeforeWriteError
      /\ u.status = s.status /\ u.changed = marked /\ u.corrupted = s.corrupted
      /\ u.awaiting = s.awaiting /\ u.asked = s.asked /\ u.completionError = s.completionError
      /\ u.mover = s.mover /\ u.partOk = s.partOk /\ u.checked = s.checked
  BY <1>1, <1>2, <1>3, NoJobFacts DEF FileType
<1> HIDE DEF u
<1>6. Open(s)
  BY <1>1, UnstillIsOpen
<1>7. Open(u)
  BY <1>5, <1>6 DEF Open, CompletionRunning
<1>8. JobOK(u)
  BY <1>5 DEF Sound, JobOK
<1>9. Sound(u) /\ Live(u)
  BY <1>5, <1>6, <1>7, <1>8, OpenIsSound DEF Sound, Stages, Live, Open
<1>10. Unwritten(u) = {} /\ u.job.phase = "none"
  BY <1>5, NoJobFacts DEF Sound, JobOK, Unwritten
<1>11. Present(s) => Present(u)
  BY <1>3, <1>5, <1>10 DEF Present, WholeOnDisk, MetTrue, Unwritten, Sound, JobOK
<1>12. GoodOnDisk(u, NoDigests)
  BY NoJobFacts, BlocksAssumption DEF GoodOnDisk
<1> DEFINE t == VerifyChangedParts(u, forceICH, noAICH, NoDigests)
<1>13. /\ Sound(t) /\ Open(t) /\ (Live(u) => Live(t)) /\ (Present(u) => Present(t))
       /\ (t.gaps = {} /\ Unwritten(u) = {} /\ t.changed # {} => t.hashset)
       /\ t.buffered = u.buffered /\ t.flushing = u.flushing /\ t.job = u.job
       /\ t.destroying = u.destroying /\ t.hashset = u.hashset
       /\ Judges(u, t)
       /\ Calm(u) => Clean(t) /\ (Flagged(u) => Flagged(t))
  <2>1. \A p \in Parts : NoDigests[p] \in {"none", "Ok", "Bad"}
    BY DEF NoDigests
  <2> QED
    BY <1>7, <1>9, <1>10, <1>12, <2>1, VerifyFacts
<1> HIDE DEF t
<1>14. Still(t)
  BY <1>10, <1>13 DEF Still, Unwritten
<1>15. Clean(s) => Calm(u)
  BY <1>5, <1>10 DEF Clean, Calm
<1>16. Flagged(s) => Flagged(u)
  <2> SUFFICES ASSUME Flagged(s), NEW p \in Parts,
                      IsCompleteBDSafe(u, BlocksOf(p)), p \notin u.changed,
                      u.hashset \/ p \notin u.awaiting
               PROVE  Good(u, p)
    BY DEF Flagged
  <2>1. p \notin s.changed /\ \A b \in Held(s.buffered) : PartOf[b] # p
    BY <1>5 DEF MarkChangedParts, marked
  <2>2. Held(s.flushing) = {}
    BY DEF Sound, JobOK
  <2>3. IsCompleteBDSafe(s, BlocksOf(p))
    BY <1>5, <1>10, <2>1, <2>2 DEF IsCompleteBDSafe, Unwritten, BlocksOf
  <2>4. Transferring(s)
    BY <1>6 DEF Open, Transferring
  <2>5. \A b \in BlocksOf(p) : disk[b] = s.disk[b]
    BY <1>3, <2>1 DEF BlocksOf
  <2> QED
    BY <1>5, <2>1, <2>3, <2>4, <2>5 DEF Flagged, Good
<1>17. Judges(s, u)
  BY <1>5, <1>10 DEF Judges, Turns
<1>18. Flows(s, t) /\ Judges(s, t)
  <2>1. Flows(s, t)
    BY <1>13, <1>15, <1>16 DEF Flows
  <2>2. Judges(s, t)
    BY <1>13, <1>17, JudgesOn
  <2> QED
    BY <2>1, <2>2
<1>19. Goes(s, t)
  BY <1>5, <1>9, <1>11, <1>13 DEF Goes, Open
<1> QED
  BY <1>4, <1>10, <1>13, <1>14, <1>18, <1>19 DEF Carries, t

(* The rest of flushBuffer(), with nothing out or nothing left to write. *)
LEMMA FlushRestFacts ==
  ASSUME NEW s, Sound(s), Live(s), s.job.phase = "none" \/ Held(s.buffered) = {},
         s.gaps = {} \/ s.job.phase = "none", NEW forceICH, NEW noAICH, NEW env
  PROVE  LET t == FlushRest(s, forceICH, noAICH, env)
         IN  Carries(s, t) /\ (Writable(s) => Settled(t))
<1> DEFINE r == FlushRest(s, forceICH, noAICH, env)
           t == SyncWritten(s, forceICH, noAICH, env)
<1> SUFFICES Carries(s, r) /\ (Writable(s) => Settled(r))
  OBVIOUS
<1>1. CASE Held(s.buffered) = {} /\ r = s
  BY <1>1, CarriesSelf DEF Settled, Still, Unwritten, Sound, JobOK
<1>2. CASE s.volume = "short" /\ r = NoRoom(s)
  BY <1>2, NoRoomCarries DEF Writable
<1>3. CASE /\ Held(s.buffered) # {} /\ s.volume \in {"full", "error"}
           /\ r = SyncWriteFailed(s, env)
  BY <1>3, SyncFailedFacts DEF Writable
<1>4. CASE Held(s.buffered) # {} /\ (r = t \/ r = SavePartFile(t) \/ r = CompleteIfVerified(t))
  <2>1. Carries(s, t) /\ Open(t) /\ Still(t) /\ (t.gaps = {} /\ t.changed # {} => t.hashset)
    BY <1>4, SyncWrittenFacts
  <2> HIDE DEF t
  <2>2. Sound(t) /\ Live(t)
    BY <2>1 DEF Carries, Goes
  <2>3. Carries(t, SavePartFile(t)) /\ SameDownload(t, SavePartFile(t))
    BY <2>2, SaveCarries
  <2>4. Carries(t, CompleteIfVerified(t)) /\ SameBytes(t, CompleteIfVerified(t))
    BY <2>1, <2>2, CompleteCarries
  <2>5. Still(t) /\ Still(SavePartFile(t)) /\ Still(CompleteIfVerified(t))
    BY <2>1, <2>3, <2>4 DEF SameDownload, SameBytes, Still, Unwritten
  <2>6. Still(r)
    BY <1>4, <2>5
  <2>7. Carries(s, r)
    BY <1>4, <2>1, <2>3, <2>4, CarriesOn
  <2> QED
    BY <2>6, <2>7 DEF Settled
<1> QED
  BY <1>1, <1>2, <1>3, <1>4 DEF FlushRest

(* flushBuffer(), once the worker has reported. *)
LEMMA FlushFacts ==
  ASSUME NEW s, Sound(s), Live(s), CanCollect(s), NEW forceICH, NEW noAICH, NEW env
  PROVE  LET t == FlushBuffer(s, forceICH, noAICH, env)
         IN  Carries(s, t) /\ (Writable(s) => Settled(t))
<1> DEFINE t == FinishPendingFlush(s, forceICH, noAICH, env)
           u == FlushBuffer(s, forceICH, noAICH, env)
<1>1. /\ Carries(s, t) /\ (t.job.phase = "none" \/ Held(t.buffered) = {})
      /\ t.gaps = {} \/ t.job.phase = "none"
  BY FinishFacts
<1>2. u = FlushRest(t, forceICH, noAICH, env)
  BY DEF FlushBuffer
<1> HIDE DEF t, u
<1>3. Carries(t, u) /\ (Writable(t) => Settled(u))
  BY <1>1, <1>2, FlushRestFacts DEF Carries, Goes
<1>4. Carries(s, u)
  BY <1>1, <1>3, CarriesOn
<1>5. Writable(s) => Writable(t)
  BY <1>1 DEF Carries, Judges, Writable
<1> QED
  BY <1>3, <1>4, <1>5 DEF u

(* writeToBuffer() of a block that is a gap. *)
LEMMA WriteToBufferFacts ==
  ASSUME NEW s, Sound(s), Live(s), ~s.destroying, s.status # "Hashing",
         NEW b \in s.gaps, NEW data \in Data, NEW env,
         CanCollect(s) \/ Status(s) \in {"Ready", "Empty"}
  PROVE  LET t == WriteToBuffer(s, b, data, env) IN Goes(s, t) /\ Flows(s, t) /\ Turns(s, t)
<1> DEFINE mem == [s.buffered EXCEPT ![b] = IF @ = "none" THEN data ELSE @]
           gaps == s.gaps \ {b}
           t == [s EXCEPT !.buffered = mem, !.gaps = gaps]
           r == WriteToBuffer(s, b, data, env)
<1>1. s \in FileType /\ b \in Blocks
  BY DEF Sound, FileType
<1>2. /\ mem \in [Blocks -> Data \cup {"none"}] /\ gaps \subseteq Blocks
      /\ Held(mem) = Held(s.buffered) \cup {b}
  BY <1>1 DEF FileType, Held, Data
<1>3. \/ Status(t) \notin {"Ready", "Empty"} /\ r = FlushBuffer(t, FALSE, FALSE, env)
      \/ r = FlushBufferAsync(t)
      \/ r = t
  BY DEF WriteToBuffer
<1>4. gaps = s.gaps \ {b}
  OBVIOUS
<1> HIDE DEF mem, gaps
<1>5. /\ t \in FileType /\ SameMet(s, t) /\ t.paused = s.paused /\ t.insufficient = s.insufficient
      /\ t.gaps = gaps /\ t.buffered = mem /\ t.flushing = s.flushing /\ t.disk = s.disk
      /\ t.job = s.job /\ t.hashset = s.hashset /\ t.destroying = s.destroying
      /\ t.volume = s.volume /\ t.statusBeforeWriteError = s.statusBeforeWriteError
      /\ t.status = s.status /\ t.changed = s.changed /\ t.corrupted = s.corrupted
      /\ t.awaiting = s.awaiting /\ t.asked = s.asked /\ t.completionError = s.completionError
      /\ t.mover = s.mover /\ t.partOk = s.partOk /\ t.checked = s.checked
  BY <1>1, <1>2 DEF FileType, SameMet
<1> HIDE DEF t, r
<1>6. Open(s)
  BY <1>1 DEF Sound, Stages, Live, Open, FileType, StoredStatuses
<1>7. Open(t)
  BY <1>5, <1>6 DEF Open, CompletionRunning
<1>8. JobOK(t)
  BY <1>5 DEF Sound, JobOK, GoodOnDisk
<1>9. Sound(t) /\ Live(t)
  BY <1>5, <1>6, <1>7, <1>8, OpenIsSound DEF Sound, Stages, Live, Open, SameMet
<1>10. Present(s) => Present(t)
  BY <1>2, <1>4, <1>5 DEF Present, WholeOnDisk, MetTrue, Unwritten, SameMet
<1>11. Goes(s, t)
  BY <1>5, <1>9, <1>10 DEF Goes
<1>12. Status(t) = Status(s)
  BY <1>5 DEF Status
<1>15. Unwritten(t) = Unwritten(s) \cup {b}
  BY <1>2, <1>5 DEF Unwritten
<1>16. Clean(s) => Clean(t)
  BY <1>4, <1>5, <1>15 DEF Clean, Calm, DigestsHold, FlagsWait, IsComplete, Good
<1>17. Flagged(s) => Flagged(t)
  <2> SUFFICES ASSUME Flagged(s), NEW p \in Parts,
                      IsCompleteBDSafe(t, BlocksOf(p)), p \notin t.changed,
                      t.hashset \/ p \notin t.awaiting, Transferring(t)
               PROVE  Good(t, p)
    BY DEF Flagged
  <2>1. IsCompleteBDSafe(s, BlocksOf(p)) /\ Transferring(s)
    BY <1>4, <1>5, <1>15 DEF IsCompleteBDSafe, Transferring, CompletionRunning
  <2> QED
    BY <1>5, <2>1 DEF Flagged, Good
<1>18. ASSUME Carries(t, r) PROVE Goes(s, r) /\ Flows(s, r) /\ Turns(s, r)
  <2>1. Goes(s, r)
    BY <1>11, <1>18 DEF Carries, Goes
  <2>2. Flows(s, r)
    BY <1>16, <1>17, <1>18 DEF Carries, Flows
  <2>3. Turns(s, r)
    BY <1>4, <1>5, <1>18 DEF Carries, Judges, Turns, Writable
  <2> QED
    BY <2>1, <2>2, <2>3
<1>13. CASE Status(t) \notin {"Ready", "Empty"} /\ r = FlushBuffer(t, FALSE, FALSE, env)
  <2>1. CanCollect(t)
    BY <1>5, <1>12, <1>13 DEF CanCollect
  <2>2. Carries(t, FlushBuffer(t, FALSE, FALSE, env))
    BY <1>9, <2>1, FlushFacts
  <2> QED
    BY <1>13, <1>18, <2>2 DEF r
<1>14. CASE r = FlushBufferAsync(t)
  <2> DEFINE x == FlushBufferAsync(t)
  <2>1. /\ Sound(x) /\ (Live(t) => Live(x)) /\ (Present(t) => Present(x))
        /\ x.destroying = t.destroying /\ x.hashset = t.hashset /\ x.status = t.status
        /\ Flows(t, x) /\ Judges(t, x)
    BY <1>9, FlushAsyncFacts
  <2> HIDE DEF x
  <2>2. Carries(t, x)
    BY <1>9, <2>1 DEF Carries, Goes
  <2> QED
    BY <1>14, <1>18, <2>2 DEF r, x
<1>19. CASE r = t
  <2>1. Carries(t, t)
    BY <1>9, CarriesSelf
  <2> QED
    BY <1>18, <1>19, <2>1 DEF r
<1> QED
  BY <1>3, <1>13, <1>14, <1>19 DEF r

-----------------------------------------------------------------------------
(* A completion that failed is tried again. *)
LEMMA RetryFacts ==
  ASSUME NEW s, Sound(s), Live(s), ~s.destroying
  PROVE  Carries(s, RetryCompletion(s))
<1> DEFINE u == [s EXCEPT !.completionError = FALSE, !.status = "Ready"]
           no == FALSE
           t == VerifyChangedParts(u, no, no, NoDigests)
<1>1. CASE RetryCompletion(s) = s
  BY <1>1, CarriesSelf
<1>2. CASE s.completionError /\ s.gaps = {} /\ RetryCompletion(s) = CompleteIfVerified(t)
  <2>1. s \in FileType
    BY DEF Sound
  <2>2. /\ u \in FileType /\ SameBytes(s, u) /\ SameMet(s, u)
        /\ u.statusBeforeWriteError = s.statusBeforeWriteError /\ u.status = "Ready"
        /\ u.changed = s.changed /\ u.corrupted = s.corrupted /\ u.awaiting = s.awaiting
        /\ u.asked = s.asked /\ u.completionError = FALSE /\ u.mover = s.mover
        /\ u.partOk = s.partOk /\ u.checked = s.checked
    BY <2>1 DEF FileType, SameBytes, SameMet, StoredStatuses
  <2> HIDE DEF u
  <2>3. Open(u) /\ Still(u)
    BY <1>2, <2>2 DEF Sound, Stages, Live, Open, CompletionRunning, SameBytes, Still, Unwritten
  <2>4. JobOK(u)
    BY <2>2 DEF Sound, JobOK, GoodOnDisk, SameBytes
  <2>5. Sound(u) /\ Live(u)
    BY <2>2, <2>3, <2>4, OpenIsSound DEF Sound, Stages, SameMet, SameBytes
  <2>6. Present(s) => Present(u)
    BY <2>2, SameIsPresent
  <2>7. GoodOnDisk(u, NoDigests)
    BY NoJobFacts, BlocksAssumption DEF GoodOnDisk
  <2>8. /\ Sound(t) /\ Open(t) /\ (Live(u) => Live(t)) /\ (Present(u) => Present(t))
        /\ (t.gaps = {} /\ Unwritten(u) = {} /\ t.changed # {} => t.hashset)
        /\ t.buffered = u.buffered /\ t.flushing = u.flushing /\ t.job = u.job
        /\ t.destroying = u.destroying /\ t.hashset = u.hashset
        /\ Judges(u, t) /\ (u.changed = {} => t.gaps = u.gaps)
        /\ Calm(u) => Clean(t)
    <3>1. \A p \in Parts : NoDigests[p] \in {"none", "Ok", "Bad"}
      BY DEF NoDigests
    <3>2. u.job.phase = "none"
      BY <2>3 DEF Still
    <3> HIDE DEF no
    <3> QED
      BY <2>3, <2>5, <2>7, <3>1, <3>2, VerifyFacts
  <2> HIDE DEF t
  <2>9. Still(t) /\ (t.gaps = {} /\ t.changed # {} => t.hashset)
    BY <2>3, <2>8 DEF Still, Unwritten
  <2> DEFINE r == CompleteIfVerified(t)
  <2>10. /\ Sound(r) /\ (Live(t) => Live(r)) /\ (Present(t) => Present(r)) /\ SameBytes(t, r)
         /\ r.status = "Hashing" => t.status = "Hashing"
         /\ Flows(t, r)
         /\ t.gaps = {} /\ ~t.destroying /\ Clean(t) => Flagged(r)
    BY <2>8, <2>9, CompleteIfVerifiedFacts
  <2> HIDE DEF r
  <2>11. Goes(s, r)
    BY <2>2, <2>5, <2>6, <2>8, <2>10 DEF Goes, SameBytes, Open
  <2>12. Judges(s, r)
    <3>1. Judges(s, u) /\ Judges(t, r)
      BY <2>2, <2>10, SameJudges
    <3> QED
      BY <2>8, <3>1, JudgesOn
  <2>13. ASSUME Clean(s) PROVE Clean(r) /\ Flagged(r)
    <3>1. s.changed = {}
      BY <2>2, <2>3, <2>13 DEF Clean, FlagsWait, SameBytes, Still, Unwritten
    <3>2. Calm(u)
      BY <2>2, <2>13, SameIsClean DEF Clean
    <3>3. t.gaps = {} /\ ~t.destroying /\ Clean(t)
      BY <1>2, <2>2, <2>8, <3>1, <3>2 DEF SameBytes
    <3> QED
      BY <2>10, <3>3 DEF Flows
  <2> QED
    BY <1>2, <2>11, <2>12, <2>13 DEF Carries, Flows, r
<1> QED
  BY <1>1, <1>2 DEF RetryCompletion

(* resumeFile() *)
LEMMA ResumeFacts ==
  ASSUME NEW s, Sound(s), Live(s), ~s.destroying
  PROVE  Carries(s, ResumeFile(s))
<1> DEFINE status == IF s.statusBeforeWriteError = "none" THEN s.status ELSE s.statusBeforeWriteError
           u == [s EXCEPT !.paused = FALSE, !.insufficient = FALSE,
                          !.statusBeforeWriteError = "none", !.status = status]
           t == RetryCompletion(u)
<1>1. CASE ResumeFile(s) = s
  BY <1>1, CarriesSelf
<1>2. CASE ResumeFile(s) = SavePartFile(t)
  <2>1. s \in FileType /\ (status # s.status => status \in {"Empty", "Ready"})
        /\ (status = "Error" => s.status = "Error" /\ s.statusBeforeWriteError = "none")
        /\ status \in StoredStatuses /\ (s.statusBeforeWriteError = "none" => status = s.status)
    BY DEF Sound, Stages, FileType, StoredStatuses
  <2> HIDE DEF status
  <2>2. /\ u \in FileType /\ SameBytes(s, u) /\ SameMet(s, u)
        /\ u.statusBeforeWriteError = "none" /\ u.status = status
        /\ u.changed = s.changed /\ u.corrupted = s.corrupted /\ u.awaiting = s.awaiting
        /\ u.asked = s.asked /\ u.completionError = s.completionError /\ u.mover = s.mover
        /\ u.partOk = s.partOk /\ u.checked = s.checked
    BY <2>1 DEF FileType, SameBytes, SameMet
  <2> HIDE DEF u
  <2>3. JobOK(u)
    BY <2>2 DEF Sound, JobOK, GoodOnDisk, SameBytes
  <2>4. Stages(u)
    BY <2>1, <2>2 DEF Sound, Stages, Still, Unwritten, CompletionRunning, SameBytes, SameMet
  <2>5. Checks(u)
    BY <2>1, <2>2 DEF Sound, Checks, GoodOnDisk, SameBytes
  <2>6. Live(u)
    BY <2>1, <2>2 DEF Live, CompletionRunning, SameBytes, Sound, Stages
  <2>7. Present(s) => Present(u)
    BY <2>2, SameIsPresent
  <2>11. Goes(s, u)
    BY <2>1, <2>2, <2>3, <2>4, <2>5, <2>6, <2>7 DEF Goes, Sound, SameBytes
  <2>12. Clean(s) => Clean(u)
    <3>1. Clean(s) => u.status = s.status
      BY <2>1, <2>2 DEF Clean, Calm
    <3> QED
      BY <2>2, <3>1, SameIsClean
  <2>13. Clean(s) /\ Flagged(s) => Flagged(u)
    <3>1. Clean(s) => (Transferring(u) => Transferring(s))
      BY <2>1, <2>2 DEF Transferring, CompletionRunning, Clean, Calm
    <3> QED
      BY <2>2, <3>1, SameIsFlagged
  <2>14. Judges(s, u)
    BY <2>2, SameJudges
  <2>8. Carries(s, u)
    BY <2>11, <2>12, <2>13, <2>14 DEF Carries, Flows
  <2>9. Carries(u, t)
    BY <2>2, <2>8, RetryFacts DEF Carries, Goes, SameBytes
  <2> HIDE DEF t
  <2>10. Carries(t, SavePartFile(t))
    BY <2>9, SaveCarries DEF Carries, Goes
  <2> QED
    BY <1>2, <2>8, <2>9, <2>10, CarriesOn
<1> QED
  BY <1>1, <1>2 DEF ResumeFile

(* stopFile() *)
LEMMA StopFacts ==
  ASSUME NEW s, Sound(s), Live(s), Held(s.buffered) = {} \/ CanCollect(s), NEW env
  PROVE  Carries(s, StopAndFlush(s, env)) /\ Carries(s, StopFile(s, env))
<1> DEFINE t == PauseFile(s, FALSE)
           r == StopAndFlush(s, env)
<1>1. Carries(s, t) /\ SameDownload(s, t)
  BY PauseCarries
<1>2. r = t \/ (Held(t.buffered) # {} /\ r = FlushBuffer(t, FALSE, FALSE, env))
  BY DEF StopAndFlush
<1> HIDE DEF t, r
<1>3. Carries(s, t)
  BY <1>1
<1>4. ASSUME Held(t.buffered) # {} PROVE Carries(t, FlushBuffer(t, FALSE, FALSE, env))
  <2>1. Sound(t) /\ Live(t) /\ CanCollect(t)
    BY <1>1, <1>4 DEF SameDownload, CanCollect, Carries, Goes
  <2> QED
    BY <2>1, FlushFacts
<1>5. Carries(s, r)
  <2>1. CASE r = t
    BY <1>3, <2>1
  <2>2. CASE Held(t.buffered) # {} /\ r = FlushBuffer(t, FALSE, FALSE, env)
    <3>1. Carries(t, r)
      BY <1>4, <2>2
    <3> QED
      BY <1>3, <3>1, CarriesOn
  <2> QED
    BY <1>2, <2>1, <2>2
<1>6. Carries(r, SavePartFile(r))
  BY <1>5, SaveCarries DEF Carries, Goes
<1> QED
  BY <1>5, <1>6, CarriesOn DEF r, StopFile

-----------------------------------------------------------------------------
(* What a step of the main thread has to keep. *)
Stays(s, t) == Sound(t) /\ Live(t) /\ (Present(s) => Present(t)) /\ t.destroying = s.destroying

Keeps(s, t) == Stays(s, t) /\ Flows(s, t) /\ Judges(s, t)

(* A step followed by a call. *)
LEMMA CarriesKeeps ==
  ASSUME NEW s, NEW t, NEW u, Keeps(s, t), Carries(t, u)
  PROVE  Keeps(s, u)
<1>1. Judges(s, u)
  BY JudgesOn DEF Carries, Keeps
<1>2. Stays(s, u) /\ Flows(s, u)
  BY DEF Carries, Keeps, Goes, Stays, Flows
<1> QED
  BY <1>1, <1>2 DEF Keeps

(* hashsetReceived() *)
LEMMA HashsetFacts ==
  ASSUME NEW s, Sound(s), Live(s), ~s.destroying, ~s.hashset
  PROVE  Keeps(s, HashsetReceived(s))
<1>1. s \in FileType /\ s.status # "Hashing" /\ (s.completionError => s.awaiting = {} /\ s.changed = {})
      /\ (CompletionRunning(s) => s.awaiting = {} /\ s.changed = {})
      /\ (s.met.corrupted # {} => s.met.hashset)
  BY DEF Sound, Stages
<1>2. CASE s.status \in {"Completing", "Complete"}
  <2> DEFINE t == [s EXCEPT !.hashset = TRUE]
  <2>1. HashsetReceived(s) = t
    BY <1>2 DEF HashsetReceived
  <2>2. /\ t \in FileType /\ SameMet(s, t)
        /\ t.gaps = s.gaps /\ t.buffered = s.buffered /\ t.flushing = s.flushing /\ t.disk = s.disk
        /\ t.job = s.job /\ t.hashset = TRUE /\ t.destroying = s.destroying
        /\ t.statusBeforeWriteError = s.statusBeforeWriteError /\ t.volume = s.volume
        /\ t.status = s.status /\ t.changed = s.changed /\ t.corrupted = s.corrupted
        /\ t.awaiting = s.awaiting /\ t.asked = s.asked /\ t.completionError = s.completionError
        /\ t.mover = s.mover /\ t.partOk = s.partOk /\ t.checked = s.checked
    BY <1>1 DEF FileType, SameMet
  <2> HIDE DEF t
  <2>3. JobOK(t)
    BY <2>2 DEF Sound, JobOK, GoodOnDisk
  <2>4. Stages(t)
    BY <1>1, <2>2 DEF Sound, Stages, Still, Unwritten, CompletionRunning, SameMet
  <2>5. Checks(t)
    BY <2>2 DEF Sound, Checks, GoodOnDisk
  <2>6. Live(t)
    BY <2>2 DEF Live, CompletionRunning
  <2>7. Present(s) => Present(t)
    BY <2>2 DEF Present, WholeOnDisk, MetTrue, Unwritten, SameMet
  <2>8. Clean(s) => Clean(t)
    BY <2>2 DEF Clean, Calm, DigestsHold, FlagsWait, IsComplete, Unwritten, Good
  <2>9. Flagged(t)
    BY <1>2, <2>2 DEF Flagged, Transferring
  <2>10. Judges(s, t)
    BY <2>2 DEF Judges, Turns, Unwritten
  <2>11. Stays(s, t)
    BY <2>2, <2>3, <2>4, <2>5, <2>6, <2>7 DEF Stays, Sound
  <2> QED
    BY <2>1, <2>8, <2>9, <2>10, <2>11 DEF Keeps, Flows
<1>3. CASE s.status \notin {"Completing", "Complete"}
  <2> DEFINE changed == s.changed \cup s.awaiting
             t == [s EXCEPT !.hashset = TRUE, !.changed = changed, !.awaiting = {}]
             no == FALSE
             v == VerifyChangedParts(t, no, no, NoDigests)
  <2>1. \/ s.awaiting = {} /\ HashsetReceived(s) = SavePartFile(t)
        \/ s.awaiting # {} /\ HashsetReceived(s) = SavePartFile(v)
    BY <1>3 DEF HashsetReceived
  <2>2. /\ changed \subseteq Parts /\ (s.changed = {} /\ s.awaiting = {} => changed = {})
        /\ changed = s.changed \cup s.awaiting
    BY <1>1 DEF FileType
  <2> HIDE DEF changed, no
  <2>3. /\ t \in FileType /\ SameMet(s, t)
        /\ t.gaps = s.gaps /\ t.buffered = s.buffered /\ t.flushing = s.flushing /\ t.disk = s.disk
        /\ t.job = s.job /\ t.hashset = TRUE /\ t.destroying = s.destroying
        /\ t.statusBeforeWriteError = s.statusBeforeWriteError /\ t.volume = s.volume
        /\ t.status = s.status /\ t.changed = changed /\ t.corrupted = s.corrupted
        /\ t.awaiting = {} /\ t.asked = s.asked /\ t.completionError = s.completionError
        /\ t.mover = s.mover /\ t.partOk = s.partOk /\ t.checked = s.checked
    BY <1>1, <2>2 DEF FileType, SameMet
  <2> HIDE DEF t
  <2>4. JobOK(t)
    BY <2>3 DEF Sound, JobOK, GoodOnDisk
  <2>5. Stages(t)
    BY <1>1, <2>2, <2>3 DEF Sound, Stages, Still, Unwritten, CompletionRunning, SameMet
  <2>6. Checks(t)
    BY <2>3 DEF Sound, Checks, GoodOnDisk
  <2>7. Live(t)
    BY <2>3 DEF Live, CompletionRunning
  <2>8. Present(s) => Present(t)
    BY <2>3 DEF Present, WholeOnDisk, MetTrue, Unwritten, SameMet
  <2>9. Stays(s, t)
    BY <2>3, <2>4, <2>5, <2>6, <2>7, <2>8 DEF Stays, Sound
  <2>13. Calm(s) => Calm(t) /\ (t.job.phase = "none" \/ t.job.want = {})
    BY <2>3 DEF Calm, DigestsHold, Unwritten, Good
  <2>14. Flagged(s) => Flagged(t)
    BY <2>2, <2>3 DEF Flagged, Transferring, CompletionRunning, IsCompleteBDSafe, Unwritten, Good
  <2>15. Judges(s, t)
    BY <2>3 DEF Judges, Turns, Unwritten
  <2>10. ASSUME s.awaiting # {} PROVE Keeps(s, v)
    <3>1. Open(t)
      BY <1>1, <1>3, <2>3, <2>10 DEF Open, CompletionRunning, Live, FileType, StoredStatuses
    <3>2. GoodOnDisk(t, NoDigests)
      BY NoJobFacts, BlocksAssumption DEF GoodOnDisk
    <3>3. \A q \in Parts : NoDigests[q] \in {"none", "Ok", "Bad"}
      BY DEF NoDigests
    <3>4. /\ Sound(v) /\ Open(v) /\ (Live(t) => Live(v)) /\ (Present(t) => Present(v))
          /\ v.destroying = t.destroying /\ v.hashset = t.hashset /\ Judges(t, v)
          /\ Calm(t) /\ (t.job.phase = "none" \/ t.job.want = {})
             => Clean(v) /\ (Flagged(t) => Flagged(v))
      BY <2>9, <3>1, <3>2, <3>3, VerifyFacts DEF Stays
    <3> HIDE DEF v
    <3>5. Stays(s, v)
      BY <2>9, <3>4 DEF Stays
    <3>6. Flows(s, v)
      BY <2>13, <2>14, <3>4 DEF Flows, Clean
    <3>7. Judges(s, v)
      BY <2>15, <3>4, JudgesOn
    <3> QED
      BY <3>5, <3>6, <3>7 DEF Keeps
  <2>11. CASE s.awaiting = {} /\ HashsetReceived(s) = SavePartFile(t)
    <3>1. Carries(t, SavePartFile(t))
      BY <2>9, SaveCarries DEF Stays
    <3>2. FlagsWait(s) => FlagsWait(t)
      BY <2>2, <2>3, <2>11 DEF FlagsWait, IsComplete, Unwritten
    <3>3. Keeps(s, t)
      BY <2>9, <2>13, <2>14, <2>15, <3>2 DEF Keeps, Flows, Clean
    <3> QED
      BY <2>11, <3>1, <3>3, CarriesKeeps
  <2>12. CASE s.awaiting # {} /\ HashsetReceived(s) = SavePartFile(v)
    <3>1. Keeps(s, v)
      BY <2>10, <2>12
    <3> HIDE DEF v
    <3>2. Carries(v, SavePartFile(v))
      BY <3>1, SaveCarries DEF Keeps, Stays
    <3> QED
      BY <2>12, <3>1, <3>2, CarriesKeeps
  <2> QED
    BY <2>1, <2>11, <2>12
<1> QED
  BY <1>2, <1>3

(* The parts other than p are verified. *)
FlaggedBut(s, p) ==
  Transferring(s) => \A q \in Parts \ {p} :
                       /\ IsCompleteBDSafe(s, BlocksOf(q))
                       /\ q \notin s.changed
                       /\ s.hashset \/ q \notin s.awaiting
                       => Good(s, q)

(* A part that recovery data completed: it is verified when it could be read. *)
LEMMA AichCompletedFacts ==
  ASSUME NEW s, Sound(s), Live(s), Open(s), s.hashset, NEW p \in Parts, NEW verdict,
         Writable(s) => Still(s), verdict \in {"Ok", "Bad", "Unread"},
         verdict = "Ok" => Good(s, p)
  PROVE  LET t == AichCompleted(s, p, verdict)
         IN  /\ Goes(s, t) /\ Judges(s, t)
             /\ verdict # "Unread" /\ Clean(s) => Clean(t) /\ (FlaggedBut(s, p) => Flagged(t))
<1> DEFINE unread == s.changed \cup {p}
           bad == s.gaps \cup BlocksOf(p)
           good == s.corrupted \ {p}
           status == Promote(s, {p})
           tu == [s EXCEPT !.changed = unread]
           tb == [s EXCEPT !.gaps = bad]
           tg == [s EXCEPT !.corrupted = good, !.status = status]
           r == AichCompleted(s, p, verdict)
<1> SUFFICES /\ Goes(s, r) /\ Judges(s, r)
             /\ verdict # "Unread" /\ Clean(s) => Clean(r) /\ (FlaggedBut(s, p) => Flagged(r))
  OBVIOUS
<1>1. \/ verdict = "Unread" /\ r = tu
      \/ verdict = "Bad" /\ r = tb
      \/ verdict = "Ok" /\ r = SavePartFile(tg)
      \/ verdict = "Ok" /\ Unwritten(tg) = {} /\ r = SavePartFile(CompleteIfVerified(tg))
  BY DEF AichCompleted
<1>2. s \in FileType /\ (s.status = "Error" => s.statusBeforeWriteError # "none" \/ s.destroying)
      /\ s.statusBeforeWriteError \in {"none", "Empty", "Ready"}
      /\ (s.met.corrupted # {} => s.met.hashset)
  BY DEF Sound, Live, Open, Stages
<1>3. unread \subseteq Parts /\ bad \subseteq Blocks /\ good \subseteq Parts /\ s.gaps \subseteq bad
      /\ status \in {"Empty", "Ready", "Error"} /\ (status = "Error" => s.status = "Error")
  BY <1>2 DEF FileType, BlocksOf, Promote, Open
<1>10. bad = s.gaps \cup BlocksOf(p)
  OBVIOUS
<1> HIDE DEF unread, bad, good, status, r
<1>4. CASE verdict = "Unread" /\ r = tu
  <2>1. /\ tu \in FileType /\ SameBytes(s, tu) /\ SameMet(s, tu)
        /\ tu.statusBeforeWriteError = s.statusBeforeWriteError /\ tu.status = s.status
        /\ tu.corrupted = s.corrupted /\ tu.asked = s.asked
        /\ tu.completionError = s.completionError /\ tu.mover = s.mover /\ tu.partOk = s.partOk
    BY <1>2, <1>3 DEF FileType, SameBytes, SameMet
  <2> HIDE DEF tu
  <2>2. Open(tu) /\ JobOK(tu)
    BY <2>1 DEF Open, CompletionRunning, Sound, JobOK, GoodOnDisk, SameBytes
  <2>3. Sound(tu) /\ Live(tu)
    BY <1>2, <2>1, <2>2, OpenIsSound DEF SameMet, SameBytes, Live, Open
  <2>4. Goes(s, tu)
    BY <2>1, <2>3, SameIsPresent DEF Goes, SameBytes
  <2>5. Judges(s, tu)
    BY <2>1, SameJudges
  <2> QED
    BY <1>4, <2>4, <2>5
<1>5. CASE verdict = "Bad" /\ r = tb
  <2>1. /\ tb \in FileType /\ SameMet(s, tb) /\ tb.gaps = bad
        /\ tb.buffered = s.buffered /\ tb.flushing = s.flushing /\ tb.disk = s.disk
        /\ tb.job = s.job /\ tb.hashset = s.hashset /\ tb.destroying = s.destroying
        /\ tb.statusBeforeWriteError = s.statusBeforeWriteError /\ tb.status = s.status
        /\ tb.corrupted = s.corrupted /\ tb.asked = s.asked /\ tb.volume = s.volume
        /\ tb.changed = s.changed /\ tb.awaiting = s.awaiting
        /\ tb.completionError = s.completionError /\ tb.mover = s.mover /\ tb.partOk = s.partOk
    BY <1>2, <1>3 DEF FileType, SameMet
  <2> HIDE DEF tb
  <2>2. Open(tb) /\ JobOK(tb)
    BY <2>1 DEF Open, CompletionRunning, Sound, JobOK, GoodOnDisk
  <2>3. Sound(tb) /\ Live(tb)
    BY <1>2, <2>1, <2>2, OpenIsSound DEF SameMet, Live, Open
  <2>4. Present(s) => Present(tb)
    BY <1>3, <2>1 DEF Present, WholeOnDisk, MetTrue, Unwritten, SameMet
  <2>5. Goes(s, tb)
    BY <2>1, <2>3, <2>4 DEF Goes
  <2>6. Unwritten(tb) = Unwritten(s)
    BY <2>1 DEF Unwritten
  <2>7. Judges(s, tb)
    BY <2>1, <2>6 DEF Judges, Turns, Still
  <2>8. ASSUME Clean(s) PROVE Clean(tb)
    <3>1. Still(s) /\ s.changed = {}
      BY <2>8 DEF Clean, Calm, Writable, FlagsWait, Still
    <3> QED
      BY <2>1, <2>6, <2>8, <3>1 DEF Clean, Calm, FlagsWait, Still
  <2>9. ASSUME FlaggedBut(s, p) PROVE Flagged(tb)
    <3> SUFFICES ASSUME NEW q \in Parts,
                        IsCompleteBDSafe(tb, BlocksOf(q)), q \notin tb.changed,
                        tb.hashset \/ q \notin tb.awaiting, Transferring(tb)
                 PROVE  Good(tb, q)
      BY DEF Flagged
    <3>1. IsCompleteBDSafe(s, BlocksOf(q)) /\ Transferring(s)
      BY <1>3, <2>1, <2>6 DEF IsCompleteBDSafe, Transferring, CompletionRunning
    <3>2. q = p => BlocksOf(q) = {}
      BY <1>10, <2>1 DEF IsCompleteBDSafe
    <3>3. q # p => Good(s, q)
      BY <2>1, <2>9, <3>1 DEF FlaggedBut
    <3> QED
      BY <2>1, <3>2, <3>3 DEF Good
  <2> QED
    BY <1>5, <2>5, <2>7, <2>8, <2>9
<1>6. CASE verdict = "Ok"
  <2>1. /\ tg \in FileType /\ SameBytes(s, tg) /\ SameMet(s, tg)
        /\ tg.statusBeforeWriteError = s.statusBeforeWriteError /\ tg.status = status
        /\ tg.corrupted = good /\ tg.asked = s.asked
        /\ tg.changed = s.changed /\ tg.awaiting = s.awaiting
        /\ tg.completionError = s.completionError /\ tg.mover = s.mover /\ tg.partOk = s.partOk
    BY <1>2, <1>3, ZenonT(60) DEF FileType, SameBytes, SameMet, StoredStatuses
  <2> HIDE DEF tg
  <2>2. Open(tg) /\ JobOK(tg)
    BY <1>3, <2>1 DEF Open, CompletionRunning, Sound, JobOK, GoodOnDisk, SameBytes
  <2>3. Sound(tg) /\ Live(tg)
    BY <1>2, <1>3, <2>1, <2>2, OpenIsSound DEF SameMet, SameBytes, Live, Open
  <2>4. Goes(s, tg) /\ Open(tg) /\ tg.hashset
    BY <1>3, <2>1, <2>2, <2>3, SameIsPresent DEF Goes, SameBytes
  <2>5. Clean(s) => Clean(tg)
    BY <2>1, <2>2, SameIsClean DEF Open
  <2>6. FlaggedBut(s, p) => Flagged(tg)
    <3>1. FlaggedBut(s, p) => Flagged(s)
      BY <1>6 DEF FlaggedBut, Flagged
    <3>2. Transferring(s)
      BY DEF Open, Transferring
    <3> QED
      BY <2>1, <3>1, <3>2, SameIsFlagged
  <2>7. Judges(s, tg)
    BY <2>1, SameJudges
  <2>8. Carries(tg, SavePartFile(tg))
    BY <2>3, SaveCarries
  <2>9. ASSUME Unwritten(tg) = {} PROVE Carries(tg, SavePartFile(CompleteIfVerified(tg)))
    <3> DEFINE c == CompleteIfVerified(tg)
    <3>1. Still(tg)
      BY <2>3, <2>9 DEF Still, Sound, JobOK, Unwritten
    <3>2. Carries(tg, c)
      BY <2>2, <2>3, <2>4, <3>1, CompleteCarries
    <3> HIDE DEF c
    <3>3. Carries(c, SavePartFile(c))
      BY <3>2, SaveCarries DEF Carries, Goes
    <3>4. Carries(tg, SavePartFile(c))
      BY <3>2, <3>3, CarriesOn
    <3> QED
      BY <3>4 DEF c
  <2>10. Carries(tg, r)
    BY <1>1, <1>6, <2>8, <2>9
  <2>11. Goes(s, r)
    BY <2>4, <2>10 DEF Carries, Goes
  <2>12. Judges(s, r)
    BY <2>7, <2>10, JudgesOn DEF Carries
  <2>13. Clean(s) => Clean(r) /\ (FlaggedBut(s, p) => Flagged(r))
    BY <2>5, <2>6, <2>10 DEF Carries, Flows
  <2> QED
    BY <2>11, <2>12, <2>13
<1> QED
  BY <1>1, <1>4, <1>5, <1>6

(* aichRecoveryDataAvailable() of a part it was asked for. *)
LEMMA RecoveryFacts ==
  ASSUME NEW s, Sound(s), Live(s), ~s.destroying, CanCollect(s), s.asked # {}, NEW p \in Parts,
         NEW reread \in BOOLEAN, NEW env
  PROVE  LET t == AichRecoveryDataAvailable(s, p, reread, env)
         IN  Goes(s, t) /\ Judges(s, t) /\ (reread => Flows(s, t))
<1> DEFINE yes == TRUE
           c == FlushBuffer(s, yes, yes, env)
           gaps == {b \in c.gaps : ~(PartOf[b] = p /\ c.disk[b] = "good")}
           t == [c EXCEPT !.gaps = gaps]
           verdict == IF reread THEN HashSinglePart(t, p, NoDigests) ELSE "Unread"
           r == AichRecoveryDataAvailable(s, p, reread, env)
<1> SUFFICES Goes(s, r) /\ Judges(s, r) /\ (reread => Flows(s, r))
  OBVIOUS
<1>1. \/ r = c
      \/ /\ c.gaps # {} /\ c.volume # "unreadable"
         /\ r = AichCompleted(t, p, verdict) \/ (~IsComplete(t, p) /\ r = SavePartFile(t))
  BY DEF AichRecoveryDataAvailable, IsComplete
<1> HIDE DEF yes
<1>2. Carries(s, c) /\ (Writable(s) => Settled(c))
  BY FlushFacts
<1> HIDE DEF c, r
<1>3. s.hashset /\ s.status # "Hashing"
  BY DEF Sound, Stages
<1>4. /\ gaps \subseteq Blocks /\ gaps \subseteq c.gaps
      /\ \A b \in Blocks : b \notin gaps /\ b \in c.gaps => c.disk[b] \in Data /\ PartOf[b] = p
  BY <1>2 DEF Carries, Goes, Sound, FileType, Data
<1> HIDE DEF gaps, verdict
<1>6. CASE r = c
  BY <1>2, <1>6 DEF Carries
<1>7. CASE /\ c.gaps # {} /\ c.volume # "unreadable"
           /\ r = AichCompleted(t, p, verdict) \/ (~IsComplete(t, p) /\ r = SavePartFile(t))
  <2>1. c \in FileType /\ Open(c)
    BY <1>2, <1>3, <1>7 DEF Carries, Goes, Sound, Stages, Live, Open, FileType, StoredStatuses
  <2>2. /\ t \in FileType /\ SameMet(c, t) /\ t.gaps = gaps
        /\ t.buffered = c.buffered /\ t.flushing = c.flushing /\ t.disk = c.disk
        /\ t.job = c.job /\ t.hashset = c.hashset /\ t.destroying = c.destroying
        /\ t.statusBeforeWriteError = c.statusBeforeWriteError /\ t.status = c.status
        /\ t.corrupted = c.corrupted /\ t.asked = c.asked /\ t.volume = c.volume
        /\ t.changed = c.changed /\ t.awaiting = c.awaiting
        /\ t.completionError = c.completionError /\ t.mover = c.mover /\ t.partOk = c.partOk
    BY <1>4, <2>1 DEF FileType, SameMet
  <2> HIDE DEF t
  <2>3. Open(t) /\ JobOK(t)
    BY <1>2, <2>1, <2>2 DEF Open, CompletionRunning, Carries, Goes, Sound, JobOK, GoodOnDisk
  <2>4. Sound(t) /\ Live(t)
    BY <1>2, <2>1, <2>2, <2>3, OpenIsSound DEF Carries, Goes, Sound, Stages, SameMet, Live, Open
  <2>5. Present(c) => Present(t)
    BY <1>4, <2>2 DEF Present, WholeOnDisk, MetTrue, Unwritten, SameMet
  <2>6. Goes(c, t) /\ t.hashset
    BY <1>2, <1>3, <2>2, <2>4, <2>5 DEF Goes, Carries
  <2>7. Unwritten(t) = Unwritten(c)
    BY <2>2 DEF Unwritten
  <2>8. Judges(c, t)
    BY <1>4, <2>2, <2>7 DEF Judges, Turns
  <2>9. Writable(t) => Still(t)
    <3>1. Writable(t) => Still(c)
      BY <1>2, <1>7, <2>2 DEF Settled, Carries, Judges, Writable
    <3> QED
      BY <2>2, <2>7, <3>1 DEF Still
  <2>10. Clean(c) => Clean(t)
    <3>1. Clean(c) => Still(t)
      BY <2>2, <2>9 DEF Clean, Calm, Writable
    <3> QED
      BY <1>4, <2>2, <2>7, <3>1 DEF Clean, Calm, FlagsWait, IsComplete, Still
  <2>11. Flagged(c) => FlaggedBut(t, p)
    <3> SUFFICES ASSUME Flagged(c), NEW q \in Parts \ {p},
                        IsCompleteBDSafe(t, BlocksOf(q)), q \notin t.changed,
                        t.hashset \/ q \notin t.awaiting, Transferring(t)
                 PROVE  Good(t, q)
      BY DEF FlaggedBut
    <3>1. BlocksOf(q) \cap c.gaps = {}
      BY <1>4, <2>2 DEF IsCompleteBDSafe, BlocksOf
    <3>2. IsCompleteBDSafe(c, BlocksOf(q)) /\ Transferring(c)
      BY <2>2, <2>7, <3>1 DEF IsCompleteBDSafe, Transferring, CompletionRunning
    <3> QED
      BY <2>2, <3>2 DEF Flagged, Good
  <2>12. /\ Goes(t, r) /\ Judges(t, r)
         /\ reread /\ Clean(t) => Clean(r) /\ (FlaggedBut(t, p) => Flagged(r))
    <3>1. CASE r = AichCompleted(t, p, verdict)
      <4>1. /\ verdict \in {"Ok", "Bad", "Unread"} /\ (verdict = "Ok" => Good(t, p))
            /\ reread => verdict # "Unread"
        BY <1>7, <2>2, <2>6 DEF verdict, HashSinglePart, PartHash, NoDigests, Good
      <4> QED
        BY <2>3, <2>4, <2>6, <2>9, <3>1, <4>1, AichCompletedFacts
    <3>2. CASE ~IsComplete(t, p) /\ r = SavePartFile(t)
      <4>1. Carries(t, r)
        BY <2>4, <3>2, SaveCarries
      <4>2. FlaggedBut(t, p) => Flagged(t)
        BY <3>2 DEF FlaggedBut, Flagged, IsComplete, IsCompleteBDSafe
      <4> QED
        BY <4>1, <4>2 DEF Carries, Flows
    <3> QED
      BY <1>7, <3>1, <3>2
  <2>13. Goes(s, r)
    BY <1>2, <2>6, <2>12 DEF Carries, Goes
  <2>14. Judges(s, r)
    BY <1>2, <2>8, <2>12, JudgesOn DEF Carries
  <2>15. reread => Flows(s, r)
    BY <1>2, <2>10, <2>11, <2>12 DEF Carries, Flows
  <2> QED
    BY <2>13, <2>14, <2>15
<1> QED
  BY <1>1, <1>6, <1>7

-----------------------------------------------------------------------------
(* applyRehashResult(): of a file at rest, whose verdicts were taken off the record. *)
LEMMA RehashFacts ==
  ASSUME NEW s, Sound(s), Still(s), ~CompletionRunning(s), ~s.completionError, s.partOk = NoDigests,
         NEW partOk, GoodOnDisk(s, partOk),
         \A p \in Parts : partOk[p] \in {"Ok", "Bad", "Unread"}
  PROVE  LET t == ApplyRehashResult(s, partOk)
         IN  /\ Stays(s, t) /\ Judges(s, t)
             /\ Clean(s) /\ (\A p \in Parts : partOk[p] # "Unread") => Clean(t) /\ Flagged(t)
<1> DEFINE complete == {p \in Parts : IsComplete(s, p)}
           bad == {p \in complete : partOk[p] = "Bad"}
           gaps == s.gaps \cup {b \in Blocks : PartOf[b] \in bad}
           status == IF gaps = {} THEN "Completing"
                     ELSE IF complete # bad THEN "Ready" ELSE "Empty"
           u == [s EXCEPT !.gaps = gaps, !.status = status]
           t == SavePartFile(u)
           verified == \A p \in Parts : partOk[p] # "Unread"
           r == ApplyRehashResult(s, partOk)
<1> SUFFICES /\ Stays(s, r) /\ Judges(s, r)
             /\ Clean(s) /\ verified => Clean(r) /\ Flagged(r)
  OBVIOUS
<1>1. \/ r = t
      \/ gaps = {} /\ r = CompleteFile(t, verified)
  BY DEF ApplyRehashResult
<1>2. s \in FileType /\ s.statusBeforeWriteError \in {"none", "Empty", "Ready"}
      /\ (s.met.corrupted # {} => s.met.hashset)
  BY DEF Sound, Stages
<1>3. /\ gaps \subseteq Blocks /\ s.gaps \subseteq gaps /\ status \in {"Completing", "Ready", "Empty"}
      /\ (status = "Completing" => gaps = {})
  BY <1>2 DEF FileType
<1>4. ASSUME gaps = {}, verified PROVE \A b \in Blocks : s.disk[b] = "good"
  <2>1. SUFFICES ASSUME NEW b \in Blocks PROVE s.disk[b] = "good"
    OBVIOUS
  <2>2. PartOf[b] \in Parts
    BY BlocksAssumption
  <2>3. PartOf[b] \in complete /\ PartOf[b] \notin bad
    BY <1>4, <2>2 DEF IsComplete
  <2>4. partOk[PartOf[b]] = "Ok"
    BY <1>4, <2>2, <2>3
  <2> QED
    BY <2>4 DEF GoodOnDisk
<1>5. verified \in BOOLEAN
  OBVIOUS
<1>17. ASSUME verified, NEW p \in Parts, BlocksOf(p) \cap gaps = {} PROVE Good(s, p)
  <2> SUFFICES ASSUME NEW b \in BlocksOf(p) PROVE s.disk[b] = "good"
    BY DEF Good
  <2>1. b \in Blocks /\ PartOf[b] = p /\ b \notin gaps
    BY <1>17 DEF BlocksOf
  <2>2. p \in complete /\ p \notin bad
    BY <1>17, <2>1 DEF IsComplete
  <2>3. partOk[PartOf[b]] = "Ok"
    BY <1>17, <2>1, <2>2
  <2> QED
    BY <2>1, <2>3 DEF GoodOnDisk
<1> HIDE DEF complete, bad, gaps, status, verified, r
<1>6. /\ u \in FileType /\ SameMet(s, u) /\ u.gaps = gaps
      /\ u.buffered = s.buffered /\ u.flushing = s.flushing /\ u.disk = s.disk
      /\ u.job = s.job /\ u.hashset = s.hashset /\ u.destroying = s.destroying
      /\ u.statusBeforeWriteError = s.statusBeforeWriteError /\ u.status = status
      /\ u.changed = s.changed /\ u.corrupted = s.corrupted /\ u.volume = s.volume
      /\ u.awaiting = s.awaiting /\ u.asked = s.asked /\ u.completionError = s.completionError
      /\ u.mover = s.mover /\ u.partOk = s.partOk /\ u.checked = s.checked
  BY <1>2, <1>3, ZenonT(60) DEF FileType, SameMet, StoredStatuses
<1> HIDE DEF u
<1>7. JobOK(u)
  BY <1>6 DEF Sound, JobOK, GoodOnDisk
<1>8. Stages(u)
  BY <1>3, <1>6 DEF Sound, Stages, Still, Unwritten, CompletionRunning, SameMet
<1>9. Checks(u)
  BY <1>3, <1>6 DEF Sound, Checks, GoodOnDisk, CompletionRunning
<1>10. Live(u)
  BY <1>3, <1>6 DEF Live
<1>11. Present(s) => Present(u)
  BY <1>3, <1>6 DEF Present, WholeOnDisk, MetTrue, Unwritten, SameMet
<1>12. Stays(s, u)
  BY <1>6, <1>7, <1>8, <1>9, <1>10, <1>11 DEF Stays, Sound
<1>18. Unwritten(u) = {}
  BY <1>6 DEF Still, Unwritten
<1>19. Judges(s, u)
  BY <1>6, <1>18 DEF Judges, Turns
<1>20. Clean(s) => Clean(u)
  <2>1. Clean(s) => s.changed = {}
    BY DEF Clean, FlagsWait, Still
  <2> QED
    BY <1>6, <1>18, <2>1 DEF Clean, Calm, FlagsWait, Still
<1>21. verified => Flagged(u)
  BY <1>6, <1>17, <1>18 DEF Flagged, IsCompleteBDSafe, Good
<1>13. Carries(u, t) /\ SameDownload(u, t)
  BY <1>12, SaveCarries DEF Stays
<1> HIDE DEF t
<1>14. Stays(s, t)
  BY <1>12, <1>13 DEF Stays, Carries, Goes
<1>22. Judges(s, t)
  BY <1>13, <1>19, JudgesOn DEF Carries
<1>23. Clean(s) /\ verified => Clean(t) /\ Flagged(t)
  BY <1>13, <1>20, <1>21 DEF Carries, Flows
<1>15. CASE r = t
  BY <1>14, <1>15, <1>22, <1>23 DEF r
<1>16. CASE gaps = {} /\ r = CompleteFile(t, verified)
  <2>1. /\ t.gaps = {} /\ Still(t) /\ ~t.completionError /\ t.partOk = NoDigests
        /\ t.disk = s.disk /\ Sound(t) /\ Live(t)
    BY <1>6, <1>13, <1>14, <1>16 DEF SameDownload, Still, Unwritten, Stays
  <2>2. verified => \A b \in Blocks : t.disk[b] = "good"
    BY <1>4, <1>16, <2>1
  <2>3. LET x == CompleteFile(t, verified)
        IN  /\ Sound(x) /\ (Live(t) => Live(x)) /\ (Present(t) => Present(x)) /\ SameBytes(t, x)
            /\ Clean(t) => Clean(x) /\ Flagged(x)
    BY <1>5, <2>1, <2>2, CompleteFileFacts
  <2>4. Judges(t, r)
    BY <1>16, <2>3, SameJudges
  <2>5. Judges(s, r)
    BY <1>22, <2>4, JudgesOn
  <2> QED
    BY <1>14, <1>16, <1>23, <2>1, <2>3, <2>5 DEF Stays, SameBytes, r
<1> QED
  BY <1>1, <1>15, <1>16

(* The final check failed. *)
LEMMA VerifyFailedFacts ==
  ASSUME NEW s, Sound(s), Live(s), s.mover = "verifyFailed", s.partOk = NoDigests,
         NEW partOk \in [Parts -> DigestValues], GoodOnDisk(s, partOk),
         partOk # NoDigests => \A p \in Parts : partOk[p] # "none"
  PROVE  LET t == VerifyFailed(s, partOk)
         IN  /\ Stays(s, t) /\ Judges(s, t)
             /\ Clean(s) /\ (\A p \in Parts : partOk[p] # "Unread") => Clean(t) /\ Flagged(t)
<1> DEFINE t == [s EXCEPT !.mover = "none", !.checked = FALSE]
           e == [t EXCEPT !.completionError = TRUE, !.status = "Error"]
           r == VerifyFailed(s, partOk)
           read == \A p \in Parts : partOk[p] # "Unread"
<1> SUFFICES /\ Stays(s, r) /\ Judges(s, r)
             /\ Clean(s) /\ read => Clean(r) /\ Flagged(r)
  OBVIOUS
<1>1. \/ (\E p \in Parts : partOk[p] = "Bad") /\ VerifyFailed(s, partOk) = ApplyRehashResult(t, partOk)
      \/ VerifyFailed(s, partOk) = e
  BY DEF VerifyFailed
<1>2. /\ s \in FileType /\ s.gaps = {} /\ Still(s) /\ s.changed = {} /\ s.awaiting = {}
      /\ ~s.completionError /\ s.status # "Hashing" /\ s.status # "Complete"
  BY DEF Sound, Stages, CompletionRunning
<1>3. /\ t \in FileType /\ SameBytes(s, t) /\ SameMet(s, t)
      /\ t.statusBeforeWriteError = s.statusBeforeWriteError /\ t.status = s.status
      /\ t.changed = {} /\ t.corrupted = s.corrupted /\ t.awaiting = {}
      /\ t.asked = s.asked /\ t.completionError = s.completionError /\ t.mover = "none"
      /\ t.partOk = s.partOk /\ t.checked = FALSE
  BY <1>2 DEF FileType, SameBytes, SameMet
<1> HIDE DEF t, read
<1>4. JobOK(t)
  BY <1>3 DEF Sound, JobOK, GoodOnDisk, SameBytes
<1>5. Stages(t)
  BY <1>2, <1>3 DEF Sound, Stages, Still, Unwritten, CompletionRunning, SameBytes, SameMet
<1>6. Checks(t)
  BY <1>3 DEF Sound, Checks, GoodOnDisk, SameBytes
<1>7. Live(t)
  BY <1>3 DEF Live, SameBytes
<1>8. Present(s) => Present(t)
  BY <1>3, SameIsPresent
<1>9. Stays(s, t)
  BY <1>3, <1>4, <1>5, <1>6, <1>7, <1>8 DEF Stays, Sound, SameBytes
<1>12. Judges(s, t)
  BY <1>3, SameJudges
<1>13. Clean(s) => Clean(t)
  BY <1>2, <1>3, SameIsClean
<1>10. CASE (\E p \in Parts : partOk[p] = "Bad") /\ VerifyFailed(s, partOk) = ApplyRehashResult(t, partOk)
  <2>1. \A p \in Parts : partOk[p] \in {"Ok", "Bad", "Unread"}
    BY <1>10 DEF DigestValues, NoDigests
  <2>2. Still(t) /\ ~CompletionRunning(t) /\ ~t.completionError /\ GoodOnDisk(t, partOk)
    BY <1>2, <1>3 DEF Still, Unwritten, CompletionRunning, SameBytes, GoodOnDisk
  <2>3. /\ Stays(t, r) /\ Judges(t, r)
        /\ Clean(t) /\ read => Clean(r) /\ Flagged(r)
    BY <1>3, <1>9, <1>10, <2>1, <2>2, RehashFacts DEF Stays, read
  <2>4. Judges(s, r)
    BY <1>12, <2>3, JudgesOn
  <2> QED
    BY <1>9, <1>13, <2>3, <2>4 DEF Stays
<1>11. CASE VerifyFailed(s, partOk) = e
  <2>1. /\ e \in FileType /\ SameBytes(t, e) /\ SameMet(t, e)
        /\ e.statusBeforeWriteError = t.statusBeforeWriteError /\ e.status = "Error"
        /\ e.changed = {} /\ e.corrupted = t.corrupted /\ e.awaiting = {}
        /\ e.asked = t.asked /\ e.completionError = TRUE /\ e.mover = "none"
        /\ e.partOk = NoDigests /\ e.checked = FALSE
    BY <1>3 DEF FileType, SameBytes, SameMet, StoredStatuses
  <2> HIDE DEF e
  <2>2. JobOK(e)
    BY <1>4, <2>1 DEF JobOK, GoodOnDisk, SameBytes
  <2>3. Stages(e)
    BY <1>2, <1>3, <1>5, <2>1 DEF Stages, Still, Unwritten, CompletionRunning, SameBytes, SameMet
  <2>4. Checks(e)
    BY <2>1, NoJobFacts, BlocksAssumption DEF Checks, GoodOnDisk
  <2>5. Live(e)
    BY <2>1 DEF Live
  <2>6. Present(t) => Present(e)
    BY <2>1, SameIsPresent
  <2>7. Stays(s, e)
    BY <1>9, <2>1, <2>2, <2>3, <2>4, <2>5, <2>6 DEF Stays, Sound, SameBytes
  <2>8. Judges(t, e)
    BY <2>1, SameJudges
  <2>9. Judges(s, e)
    BY <1>12, <2>8, JudgesOn
  <2>10. (Clean(t) => Clean(e)) /\ Flagged(e)
    BY <1>3, <2>1, SameIsClean DEF Flagged, Transferring
  <2> QED
    BY <1>11, <1>13, <2>7, <2>9, <2>10
<1> QED
  BY <1>1, <1>10, <1>11

(* The move is over, one way or the other. *)
LEMMA MoveFinishedFacts ==
  ASSUME NEW s, Sound(s), Live(s), NEW moved \in BOOLEAN,
         s.mover = IF moved THEN "moved" ELSE "moveFailed"
  PROVE  Keeps(s, MoveFinished(s, moved))
<1>1. /\ s \in FileType /\ s.gaps = {} /\ Still(s) /\ s.changed = {} /\ s.awaiting = {}
      /\ s.partOk = NoDigests /\ ~s.completionError
  BY DEF Sound, Stages, CompletionRunning
<1>2. CASE moved
  <2> DEFINE t == [s EXCEPT !.mover = "none", !.metExists = FALSE, !.status = "Complete"]
  <2>1. MoveFinished(s, moved) = t
    BY <1>2 DEF MoveFinished
  <2>2. /\ t \in FileType /\ SameBytes(s, t) /\ t.met = s.met /\ t.metExists = FALSE
        /\ t.statusBeforeWriteError = s.statusBeforeWriteError /\ t.status = "Complete"
        /\ t.changed = s.changed /\ t.corrupted = s.corrupted /\ t.awaiting = s.awaiting
        /\ t.asked = s.asked /\ t.completionError = s.completionError /\ t.mover = "none"
        /\ t.partOk = s.partOk /\ t.checked = s.checked
    BY <1>1, ZenonT(60) DEF FileType, SameBytes, StoredStatuses
  <2> HIDE DEF t
  <2>3. JobOK(t)
    BY <2>2 DEF Sound, JobOK, GoodOnDisk, SameBytes
  <2>4. Stages(t)
    BY <1>1, <2>2 DEF Sound, Stages, Still, Unwritten, CompletionRunning, SameBytes
  <2>5. Checks(t)
    BY <1>2, <2>2 DEF Sound, Checks, GoodOnDisk, SameBytes
  <2>6. Live(t)
    BY <1>1, <2>2 DEF Live
  <2>7. Present(s) => Present(t)
    BY <2>2 DEF Present, WholeOnDisk, MetTrue, Unwritten, SameBytes
  <2>8. (Clean(s) => Clean(t)) /\ Flagged(t)
    BY <1>1, <2>2, SameIsClean DEF Flagged, Transferring
  <2>9. Judges(s, t)
    BY <2>2, SameJudges
  <2>10. Stays(s, t)
    BY <2>2, <2>3, <2>4, <2>5, <2>6, <2>7 DEF Stays, Sound, SameBytes
  <2> QED
    BY <2>1, <2>8, <2>9, <2>10 DEF Keeps, Flows
<1>3. CASE ~moved
  <2> DEFINE t == [s EXCEPT !.mover = "none", !.checked = FALSE, !.completionError = TRUE,
                            !.status = "Error"]
  <2>1. MoveFinished(s, moved) = t
    BY <1>3 DEF MoveFinished
  <2>2. /\ t \in FileType /\ SameBytes(s, t) /\ SameMet(s, t)
        /\ t.statusBeforeWriteError = s.statusBeforeWriteError /\ t.status = "Error"
        /\ t.changed = s.changed /\ t.corrupted = s.corrupted /\ t.awaiting = s.awaiting
        /\ t.asked = s.asked /\ t.completionError = TRUE /\ t.mover = "none"
        /\ t.partOk = s.partOk /\ t.checked = FALSE
    BY <1>1, ZenonT(60) DEF FileType, SameBytes, SameMet, StoredStatuses
  <2> HIDE DEF t
  <2>3. JobOK(t)
    BY <2>2 DEF Sound, JobOK, GoodOnDisk, SameBytes
  <2>4. Stages(t)
    BY <1>1, <2>2 DEF Sound, Stages, Still, Unwritten, CompletionRunning, SameBytes, SameMet
  <2>5. Checks(t)
    BY <2>2 DEF Sound, Checks, GoodOnDisk, SameBytes
  <2>6. Live(t)
    BY <1>1, <2>2 DEF Live
  <2>7. Present(s) => Present(t)
    BY <2>2, SameIsPresent
  <2>8. (Clean(s) => Clean(t)) /\ Flagged(t)
    BY <1>1, <2>2, SameIsClean DEF Flagged, Transferring
  <2>9. Judges(s, t)
    BY <2>2, SameJudges
  <2>10. Stays(s, t)
    BY <2>2, <2>3, <2>4, <2>5, <2>6, <2>7 DEF Stays, Sound, SameBytes
  <2> QED
    BY <2>1, <2>8, <2>9, <2>10 DEF Keeps, Flows
<1> QED
  BY <1>2, <1>3

-----------------------------------------------------------------------------
(* A download just created. *)
LEMMA NewFileFacts ==
  ASSUME NEW h \in BOOLEAN
  PROVE  LET t == NewFile(h)
         IN  /\ t \in FileType /\ t.gaps = Blocks /\ t.met.gaps = Blocks /\ t.met.corrupted = {}
             /\ t.changed = {} /\ t.corrupted = {} /\ t.awaiting = {}
             /\ t.asked = {} /\ t.status = "Empty" /\ t.statusBeforeWriteError = "none"
             /\ t.destroying = FALSE /\ t.completionError = FALSE /\ t.mover = "none"
             /\ t.buffered = Nothing /\ t.flushing = Nothing /\ t.job = NoJob /\ t.partOk = NoDigests
             /\ t.volume = "ok" /\ t.hashset = h
<1> DEFINE met == [gaps |-> Blocks, corrupted |-> {}, paused |-> FALSE, hashset |-> h]
<1>1. met \in MetType /\ met.gaps = Blocks /\ met.corrupted = {}
  BY DEF MetType
<1>2. Nothing \in [Blocks -> Data \cup {"none", "torn"}]
  BY DEF Nothing
<1> QED
  <2>1. NewFile(h).met = met
    BY DEF NewFile
  <2> HIDE DEF met
  <2> QED
    BY <1>1, <1>2, <2>1, NoJobFacts DEF NewFile, FileType, StoredStatuses, VolumeStates, met

(* An object as new around what is on disk. *)
LEMMA FreshFacts ==
  ASSUME NEW s \in FileType, s.met.corrupted # {} => s.met.hashset
  PROVE  LET t == Fresh(s)
         IN  /\ Sound(t) /\ Live(t) /\ Open(t) /\ Still(t) /\ (MetTrue(s) => Present(t))
             /\ SameMet(s, t) /\ t.disk = s.disk
             /\ t.gaps = Blocks /\ t.changed = {} /\ t.corrupted = {} /\ t.awaiting = {}
             /\ t.asked = {} /\ t.status = "Empty" /\ t.statusBeforeWriteError = "none"
             /\ ~t.destroying /\ ~t.completionError /\ t.mover = "none"
             /\ t.volume = s.volume /\ (s.volume = "ok" => Clean(t))
<1> DEFINE n == NewFile(FALSE)
           t == [n EXCEPT !.disk = s.disk, !.met = s.met, !.metExists = s.metExists,
                          !.stampOk = s.stampOk, !.exists = s.exists, !.volume = s.volume]
<1>1. Fresh(s) = t
  BY DEF Fresh
<1>2. /\ t \in FileType /\ SameMet(s, t) /\ t.disk = s.disk
      /\ t.gaps = Blocks /\ t.changed = {} /\ t.corrupted = {} /\ t.awaiting = {}
      /\ t.asked = {} /\ t.status = "Empty" /\ t.statusBeforeWriteError = "none"
      /\ t.destroying = FALSE /\ t.completionError = FALSE /\ t.mover = "none"
      /\ t.buffered = Nothing /\ t.flushing = Nothing /\ t.job = NoJob /\ t.partOk = NoDigests
      /\ t.volume = s.volume
  <2>1. /\ n \in FileType /\ n.gaps = Blocks
        /\ n.changed = {} /\ n.corrupted = {} /\ n.awaiting = {}
        /\ n.asked = {} /\ n.status = "Empty" /\ n.statusBeforeWriteError = "none"
        /\ n.destroying = FALSE /\ n.completionError = FALSE /\ n.mover = "none"
        /\ n.buffered = Nothing /\ n.flushing = Nothing /\ n.job = NoJob /\ n.partOk = NoDigests
    BY NewFileFacts
  <2> HIDE DEF n
  <2>2. t \in FileType
    BY <2>1, ZenonT(60) DEF FileType
  <2>3. /\ t.met = s.met /\ t.metExists = s.metExists /\ t.stampOk = s.stampOk /\ t.disk = s.disk
        /\ t.gaps = n.gaps /\ t.changed = n.changed /\ t.corrupted = n.corrupted
        /\ t.awaiting = n.awaiting /\ t.asked = n.asked /\ t.status = n.status
        /\ t.statusBeforeWriteError = n.statusBeforeWriteError /\ t.destroying = n.destroying
        /\ t.completionError = n.completionError /\ t.mover = n.mover
        /\ t.buffered = n.buffered /\ t.flushing = n.flushing /\ t.job = n.job
        /\ t.partOk = n.partOk /\ t.volume = s.volume
    BY <2>1 DEF FileType
  <2> HIDE DEF t
  <2> QED
    BY <2>1, <2>2, <2>3 DEF SameMet
<1> HIDE DEF t
<1>3. Open(t) /\ JobOK(t) /\ Still(t)
  BY <1>2, NoJobFacts DEF Open, CompletionRunning, JobOK, Still, Unwritten
<1>4. Sound(t) /\ Live(t)
  BY <1>2, <1>3, OpenIsSound DEF SameMet
<1>5. MetTrue(s) => Present(t)
  BY <1>2 DEF Present, MetTrue, WholeOnDisk, SameMet
<1>6. s.volume = "ok" => Clean(t)
  <2>1. \A p \in Parts : t.partOk[p] # "Unread"
    BY <1>2 DEF NoDigests
  <2> QED
    BY <1>2, <1>3, <2>1, NoJobFacts DEF Clean, Calm, FlagsWait, Still
<1> QED
  BY <1>1, <1>2, <1>3, <1>4, <1>5, <1>6

(* loadPartFile() *)
LEMMA LoadFacts ==
  ASSUME NEW s \in FileType, s.met.corrupted # {} => s.met.hashset
  PROVE  LET t == LoadPartFile(s)
         IN  /\ Sound(t) /\ Live(t) /\ ~t.destroying /\ Unwritten(t) = {}
             /\ s.volume = "ok" => Clean(t)
<1> DEFINE met == s.met
           complete == {p \in Parts : BlocksOf(p) \cap met.gaps = {}}
           awaiting == IF met.hashset THEN {} ELSE complete
           z == Fresh(s)
           t == [z EXCEPT !.gaps = met.gaps, !.corrupted = met.corrupted,
                          !.paused = met.paused, !.hashset = met.hashset, !.awaiting = awaiting]
           status == IF met.hashset /\ ~s.stampOk THEN "Hashing"
                     ELSE IF met.hashset /\ complete # {} THEN "Ready"
                     ELSE "Empty"
           c == [t EXCEPT !.status = "Completing"]
           d == [t EXCEPT !.status = status]
<1>1. \/ met.gaps = {} /\ LoadPartFile(s) = CompleteIfVerified(c)
      \/ LoadPartFile(s) = d
  BY DEF LoadPartFile
<1>2. /\ Sound(z) /\ Live(z) /\ Open(z) /\ Still(z)
      /\ SameMet(s, z) /\ z.disk = s.disk
      /\ z.gaps = Blocks /\ z.changed = {} /\ z.corrupted = {} /\ z.awaiting = {}
      /\ z.asked = {} /\ z.status = "Empty" /\ z.statusBeforeWriteError = "none"
      /\ ~z.destroying /\ ~z.completionError /\ z.mover = "none" /\ z.volume = s.volume
  BY FreshFacts
<1> HIDE DEF z
<1>3. /\ met \in MetType /\ met.gaps \subseteq Blocks /\ met.corrupted \subseteq Parts
      /\ met.paused \in BOOLEAN /\ met.hashset \in BOOLEAN /\ awaiting \subseteq Parts
      /\ met.corrupted # {} => met.hashset
  BY DEF FileType, MetType
<1>4. status \in {"Hashing", "Ready", "Empty"} /\ (status = "Hashing" => met.hashset)
  OBVIOUS
<1>5. z \in FileType
  BY <1>2 DEF Sound
<1> HIDE DEF awaiting, status, met
<1>6. /\ t \in FileType /\ SameMet(s, t) /\ t.gaps = met.gaps /\ t.hashset = met.hashset
      /\ t.buffered = z.buffered /\ t.flushing = z.flushing /\ t.disk = z.disk
      /\ t.job = z.job /\ ~t.destroying
      /\ t.statusBeforeWriteError = "none" /\ t.status = "Empty"
      /\ t.changed = {} /\ t.corrupted = met.corrupted
      /\ t.asked = {} /\ ~t.completionError /\ t.mover = "none" /\ t.partOk = z.partOk
      /\ t.volume = s.volume
  <2> DEFINE g == met.gaps
             k == met.corrupted
             w == met.paused
             h == met.hashset
  <2>1. g \subseteq Blocks /\ k \subseteq Parts /\ w \in BOOLEAN /\ h \in BOOLEAN
    BY <1>3
  <2> HIDE DEF g, k, w, h
  <2> DEFINE u == [z EXCEPT !.gaps = g, !.corrupted = k, !.paused = w, !.hashset = h,
                            !.awaiting = awaiting]
  <2>2. u = t
    BY DEF g, k, w, h
  <2>3. u \in FileType
    BY <1>3, <1>5, <2>1 DEF FileType
  <2>4. /\ SameMet(z, u) /\ u.gaps = g /\ u.hashset = h /\ u.corrupted = k
        /\ u.buffered = z.buffered /\ u.flushing = z.flushing /\ u.disk = z.disk /\ u.job = z.job
        /\ u.destroying = z.destroying /\ u.statusBeforeWriteError = z.statusBeforeWriteError
        /\ u.status = z.status /\ u.changed = z.changed /\ u.asked = z.asked
        /\ u.completionError = z.completionError /\ u.mover = z.mover /\ u.partOk = z.partOk
        /\ u.volume = z.volume
    BY <1>5 DEF FileType, SameMet
  <2> HIDE DEF t, u
  <2> QED
    BY <1>2, <2>2, <2>3, <2>4 DEF SameMet, g, k, h
<1> HIDE DEF t
<1>7. Open(t) /\ JobOK(t) /\ Still(t)
  BY <1>2, <1>6 DEF Open, CompletionRunning, Sound, JobOK, GoodOnDisk, Still, Unwritten
<1>8. Sound(t) /\ Live(t)
  BY <1>3, <1>6, <1>7, OpenIsSound DEF SameMet, met
<1>11. s.volume = "ok" => Clean(t)
  <2>1. \A p \in Parts : t.partOk[p] # "Unread"
    BY <1>2, <1>6 DEF Open, NoDigests
  <2> QED
    BY <1>6, <1>7, <2>1 DEF Clean, Calm, FlagsWait, Still
<1>9. CASE met.gaps = {} /\ LoadPartFile(s) = CompleteIfVerified(c)
  <2>1. /\ c \in FileType /\ SameBytes(t, c) /\ SameMet(t, c) /\ c.status = "Completing"
        /\ c.changed = t.changed /\ c.awaiting = t.awaiting /\ c.corrupted = t.corrupted
        /\ c.statusBeforeWriteError = t.statusBeforeWriteError /\ c.checked = t.checked
        /\ c.asked = t.asked /\ c.completionError = t.completionError /\ c.mover = t.mover
        /\ c.partOk = t.partOk
    BY <1>6 DEF FileType, SameBytes, SameMet, StoredStatuses
  <2>2. CompleteIfVerified(c) = CompleteFile(c, FALSE)
    <3> HIDE DEF c
    <3> QED
      BY <1>6, <1>9, <2>1 DEF CompleteIfVerified, SameBytes
  <2> HIDE DEF c
  <2>3. JobOK(c)
    BY <1>8, <2>1 DEF Sound, JobOK, GoodOnDisk, SameBytes
  <2>4. Stages(c)
    BY <1>6, <1>7, <1>8, <1>9, <2>1 DEF Sound, Stages, Still, Unwritten, CompletionRunning, SameBytes, SameMet
  <2>5. Checks(c)
    BY <1>6, <1>8, <2>1 DEF Sound, Checks, GoodOnDisk, SameBytes
  <2>6. Sound(c) /\ Live(c) /\ Still(c) /\ c.gaps = {} /\ c.partOk = NoDigests
    BY <1>6, <1>7, <1>9, <2>1, <2>3, <2>4, <2>5 DEF Sound, Live, Still, Unwritten, SameBytes, Open
  <2>7. LET x == CompleteFile(c, FALSE)
        IN  Sound(x) /\ (Live(c) => Live(x)) /\ SameBytes(c, x) /\ (Clean(c) => Clean(x))
    BY <1>6, <2>1, <2>6, CompleteFileFacts
  <2>8. Clean(t) => Clean(c)
    BY <1>6, <2>1, SameIsClean
  <2> QED
    BY <1>6, <1>9, <1>11, <2>1, <2>2, <2>6, <2>7, <2>8 DEF SameBytes, Still, Unwritten
<1>10. CASE LoadPartFile(s) = d
  <2>1. /\ d \in FileType /\ SameBytes(t, d) /\ SameMet(t, d) /\ d.status = status
        /\ d.changed = t.changed /\ d.awaiting = t.awaiting /\ d.corrupted = t.corrupted
        /\ d.statusBeforeWriteError = t.statusBeforeWriteError /\ d.checked = t.checked
        /\ d.asked = t.asked /\ d.completionError = t.completionError /\ d.mover = t.mover
        /\ d.partOk = t.partOk
    BY <1>4, <1>6 DEF FileType, SameBytes, SameMet, StoredStatuses
  <2> HIDE DEF d
  <2>2. JobOK(d)
    BY <1>8, <2>1 DEF Sound, JobOK, GoodOnDisk, SameBytes
  <2>3. Stages(d)
    BY <1>4, <1>6, <1>7, <1>8, <2>1 DEF Sound, Stages, Still, Unwritten, CompletionRunning, SameBytes, SameMet
  <2>4. Checks(d)
    BY <1>4, <1>6, <1>8, <2>1 DEF Sound, Checks, GoodOnDisk, SameBytes
  <2>5. Live(d)
    BY <1>4, <1>6, <1>7, <2>1 DEF Live, Open
  <2>6. Clean(t) => Clean(d)
    BY <1>6, <2>1, SameIsClean
  <2>7. Unwritten(d) = {}
    BY <1>7, <2>1 DEF Still, Unwritten, SameBytes
  <2> QED
    BY <1>6, <1>10, <1>11, <2>1, <2>2, <2>3, <2>4, <2>5, <2>6, <2>7 DEF Sound, SameBytes
<1> QED
  BY <1>1, <1>9, <1>10

-----------------------------------------------------------------------------
(* Min of a set of numbers: the numbers below all members would otherwise be all numbers. *)
LEMMA MinIn ==
  ASSUME NEW S, S \subseteq Nat, S # {}
  PROVE  Min(S) \in S /\ \A y \in S : Min(S) <= y
<1> DEFINE Below == {n \in Nat : \A y \in S : n <= y}
<1>1. \E x \in S : \A y \in S : x <= y
  <2> SUFFICES ASSUME \A x \in S : \E y \in S : ~(x <= y)
               PROVE  FALSE
    OBVIOUS
  <2>1. 0 \in Below
    OBVIOUS
  <2>2. ASSUME NEW n \in Nat, n \in Below PROVE n + 1 \in Below
    <3>1. n \notin S
      BY <2>2
    <3>2. SUFFICES ASSUME NEW y \in S PROVE n + 1 <= y
      OBVIOUS
    <3>3. y \in Nat /\ n <= y /\ y # n
      BY <2>2, <3>1
    <3> QED
      BY <3>3
  <2>3. Nat \subseteq Below
    <3> HIDE DEF Below
    <3> QED
      BY <2>1, <2>2, Ind!NatInd
  <2>4. PICK x \in S : TRUE
    OBVIOUS
  <2>5. x + 1 \in Below
    BY <2>3
  <2> QED
    BY <2>5
<1> QED
  BY <1>1 DEF Min

(* A finite set of numbers has an upper bound, so a least one, which is its maximum. *)
LEMMA MaxIn ==
  ASSUME NEW S, S \subseteq Nat, S # {}, IsFiniteSet(S)
  PROVE  Max(S) \in S
<1>1. \E m \in Nat : \A x \in S : x <= m
  <2>1. PICK n \in Nat : ExistsSurjection(1..n, S)
    BY FS_NatSurjection
  <2>2. PICK g \in Surjection(1..n, S) : TRUE
    BY <2>1 DEF ExistsSurjection
  <2>3. g \in [1..n -> S] /\ \A x \in S : \E i \in 1..n : g[i] = x
    BY <2>2 DEF Surjection
  <2> DEFINE Bounded == {k \in Nat : k <= n => \E m \in Nat : \A i \in 1..k : g[i] <= m}
  <2>4. 0 \in Bounded
    BY 0 \in Nat
  <2>5. ASSUME NEW k \in Nat, k \in Bounded PROVE k + 1 \in Bounded
    <3>1. SUFFICES ASSUME k + 1 <= n PROVE \E m \in Nat : \A i \in 1..(k+1) : g[i] <= m
      OBVIOUS
    <3>2. PICK m \in Nat : \A i \in 1..k : g[i] <= m
      BY <2>5, <3>1
    <3> HIDE DEF Bounded
    <3>3. k + 1 \in 1..n /\ g[k+1] \in Nat
      <4>1. k + 1 \in 1..n
        BY <3>1
      <4> QED
        BY <2>3, <4>1
    <3>4. m + g[k+1] \in Nat /\ \A i \in 1..(k+1) : g[i] <= m + g[k+1]
      <4>1. SUFFICES ASSUME NEW i \in 1..(k+1) PROVE g[i] <= m + g[k+1]
        BY <3>3
      <4>2. i \in 1..n /\ (i \in 1..k \/ i = k + 1)
        BY <3>1
      <4>3. g[i] \in Nat
        BY <2>3, <4>2
      <4> QED
        BY <3>2, <3>3, <4>2, <4>3
    <3> QED
      BY <3>4
  <2>6. n \in Bounded
    <3> HIDE DEF Bounded
    <3> QED
      BY <2>4, <2>5, Ind!NatInd
  <2>7. PICK m \in Nat : \A i \in 1..n : g[i] <= m
    BY <2>6
  <2> QED
    BY <2>3, <2>7
<1> DEFINE Above == {m \in Nat : \A x \in S : x <= m}
           k == Min(Above)
<1>2. k \in Above /\ \A m \in Above : k <= m
  <2> HIDE DEF Above
  <2>1. Above \subseteq Nat /\ Above # {}
    BY <1>1 DEF Above
  <2> QED
    BY <2>1, MinIn
<1> HIDE DEF k
<1>3. k \in S
  <2>1. SUFFICES ASSUME k \notin S PROVE FALSE
    OBVIOUS
  <2>2. PICK y \in S : TRUE
    OBVIOUS
  <2>3. k \in Nat /\ y \in Nat /\ y <= k /\ y # k
    BY <1>2, <2>1
  <2>4. k - 1 \in Nat
    BY <2>3
  <2>5. \A x \in S : x <= k - 1
    BY <1>2, <2>1
  <2>6. k <= k - 1
    BY <1>2, <2>4, <2>5
  <2> QED
    BY <2>3, <2>6
<1>4. \A x \in S : k >= x
  BY <1>2
<1> QED
  BY <1>3, <1>4 DEF Max

-----------------------------------------------------------------------------
(* A step of a running program turns into gaps what is all on disk. *)
JudgedStep == app' = "up" => Turns(f, f')

(* A step that neither ends nor starts the program. *)
LEMMA StepKeeps ==
  ASSUME IInv, Sound(f'), f'.destroying = f.destroying, Live(f) => Live(f'),
         Present(f) => Present(f'), app' = app, Budgets', crashesLeft' = crashesLeft,
         faultsLeft' = MaxFaults => faultsLeft = MaxFaults /\ Flows(f, f'), Turns(f, f')
  PROVE  IInv' /\ JudgedStep
<1>1. faultsLeft' = MaxFaults => Clean(f') /\ (app' = "up" /\ crashesLeft' = MaxCrashes => Flagged(f'))
  BY DEF IInv, Flows
<1>2. (FirstRun => Present(f))' /\ Sound(f') /\ ~f'.destroying
  BY DEF IInv, FirstRun
<1>3. app' \in {"up", "quitting"} => Live(f')
  BY DEF IInv
<1> QED
  BY <1>1, <1>2, <1>3 DEF IInv, JudgedStep

(* A call of the main thread. *)
LEMMA MainKeeps ==
  ASSUME IInv, NEW t, Main(t), Keeps(f, t), app' = app, Budgets', crashesLeft' = crashesLeft,
         faultsLeft' = faultsLeft
  PROVE  IInv' /\ JudgedStep
BY StepKeeps DEF Keeps, Stays, Judges, Main

(* A call that carries the download on is a step that keeps the invariant. *)
LEMMA CarriesIsKept ==
  ASSUME NEW s, NEW t, Carries(s, t)
  PROVE  Keeps(s, t)
BY DEF Carries, Keeps, Goes, Stays

(* A call followed by a change that keeps what holds. *)
LEMMA KeepsOn ==
  ASSUME NEW s, NEW t, NEW u, Carries(s, t), Keeps(t, u)
  PROVE  Keeps(s, u)
<1>1. Judges(s, u)
  BY JudgesOn DEF Carries, Keeps
<1>2. Stays(s, u) /\ Flows(s, u)
  BY DEF Carries, Keeps, Goes, Stays, Flows
<1> QED
  BY <1>1, <1>2 DEF Keeps

(* The main thread works on a sound and live download. *)
LEMMA UpFacts ==
  ASSUME IInv, app = "up"
  PROVE  Sound(f) /\ Live(f) /\ ~f.destroying /\ f \in FileType
BY DEF IInv, Sound

(* A step that uses up no bound. *)
LEMMA SameBudgets ==
  ASSUME IInv, UNCHANGED <<app, budgets>>
  PROVE  Budgets' /\ app' = app /\ crashesLeft' = crashesLeft /\ faultsLeft' = faultsLeft
BY DEF IInv, Budgets, budgets

(* A block from a source or the HTTP cache, whichever state the file is in. *)
LEMMA ReceiveKeeps ==
  ASSUME IInv, NEW b \in Blocks, NEW data \in Data, Receive(b, data) \/ ReceiveCached(b, data)
  PROVE  IInv' /\ JudgedStep
<1>1. PICK env \in Environment : Main(WriteToBuffer(f, b, data, env))
  BY DEF Receive, ReceiveCached
<1>2. Sound(f) /\ Live(f) /\ ~f.destroying
  BY <1>1, UpFacts DEF Main
<1>3. /\ b \in f.gaps /\ f.status # "Hashing" /\ (CanCollect(f) \/ Status(f) \in {"Ready", "Empty"})
  BY DEF Receive, ReceiveCached, Status
<1> DEFINE t == WriteToBuffer(f, b, data, env)
<1>4. Goes(f, t) /\ Flows(f, t) /\ Turns(f, t)
  BY <1>2, <1>3, WriteToBufferFacts
<1>5. Budgets' /\ app' = app /\ crashesLeft' = crashesLeft /\ faultsLeft' = faultsLeft
  BY BoundsAssumption DEF Receive, ReceiveCached, IInv, Budgets
<1>6. f' = t
  BY <1>1 DEF Main
<1> HIDE DEF t
<1> QED
  BY <1>4, <1>5, <1>6, StepKeeps DEF Goes

(* process(): the timer hands the buffer to the worker. *)
LEMMA ProcessKeeps ==
  ASSUME IInv, Process
  PROVE  IInv' /\ JudgedStep
<1>1. Main(FlushBufferAsync(f)) /\ UNCHANGED <<app, budgets>>
  BY DEF Process
<1>2. Sound(f) /\ Live(f)
  BY <1>1, UpFacts DEF Main
<1>3. LET t == FlushBufferAsync(f)
      IN  /\ Sound(t) /\ (Live(f) => Live(t)) /\ (Present(f) => Present(t))
          /\ t.destroying = f.destroying /\ Flows(f, t) /\ Judges(f, t)
  BY <1>2, FlushAsyncFacts
<1>4. Keeps(f, FlushBufferAsync(f))
  BY <1>2, <1>3 DEF Keeps, Stays
<1> QED
  BY <1>1, <1>4, MainKeeps, SameBudgets

(* onJobDone(): the result is applied however late it comes. *)
LEMMA OnJobDoneKeeps ==
  ASSUME IInv, OnJobDone
  PROVE  IInv' /\ JudgedStep
<1> DEFINE no == FALSE
<1>1. PICK env \in Environment : Main(ApplyFlushResult(f, no, no, env))
  BY DEF OnJobDone
<1>2. Sound(f) /\ Live(f) /\ f.job.phase = "done" /\ UNCHANGED <<app, budgets>>
  BY <1>1, UpFacts DEF Main, OnJobDone
<1> HIDE DEF no
<1>3. Carries(f, ApplyFlushResult(f, no, no, env))
  BY <1>2, ApplyFlushFacts
<1> QED
  BY <1>1, <1>2, <1>3, CarriesIsKept, MainKeeps, SameBudgets

(* A flush on demand. *)
LEMMA FlushKeeps ==
  ASSUME IInv, NEW forceICH \in BOOLEAN, Flush(forceICH)
  PROVE  IInv' /\ JudgedStep
<1> DEFINE no == FALSE
<1>1. PICK env \in Environment : Main(FlushBuffer(f, forceICH, no, env))
  BY DEF Flush
<1>2. Sound(f) /\ Live(f) /\ CanCollect(f) /\ UNCHANGED <<app, budgets>>
  BY <1>1, UpFacts DEF Main, Flush
<1> HIDE DEF no
<1>3. Carries(f, FlushBuffer(f, forceICH, no, env))
  BY <1>2, FlushFacts
<1> QED
  BY <1>1, <1>2, <1>3, CarriesIsKept, MainKeeps, SameBudgets

(* pauseFile(), by the user or for want of room. *)
LEMMA PauseKeepsAll ==
  ASSUME IInv, NEW i \in BOOLEAN, Main(PauseFile(f, i)), UNCHANGED <<app, budgets>>
  PROVE  IInv' /\ JudgedStep
<1>1. Sound(f) /\ Live(f)
  BY UpFacts DEF Main
<1>2. Keeps(f, PauseFile(f, i))
  BY <1>1, PauseCarries, CarriesIsKept
<1> QED
  BY <1>2, MainKeeps, SameBudgets

(* The user pauses. *)
LEMMA PauseKeeps ==
  ASSUME IInv, Pause
  PROVE  IInv' /\ JudgedStep
BY PauseKeepsAll DEF Pause

(* resumeFile(), by the user or because there is room again. *)
LEMMA ResumeKeepsAll ==
  ASSUME IInv, Main(ResumeFile(f)), UNCHANGED <<app, budgets>>
  PROVE  IInv' /\ JudgedStep
<1>1. Sound(f) /\ Live(f) /\ ~f.destroying
  BY UpFacts DEF Main
<1>2. Keeps(f, ResumeFile(f))
  BY <1>1, ResumeFacts, CarriesIsKept
<1> QED
  BY <1>2, MainKeeps, SameBudgets

(* The user resumes. *)
LEMMA ResumeKeeps ==
  ASSUME IInv, Resume
  PROVE  IInv' /\ JudgedStep
BY ResumeKeepsAll DEF Resume

(* stopFile(): pause, flush, save. *)
LEMMA StopKeeps ==
  ASSUME IInv, Stop
  PROVE  IInv' /\ JudgedStep
<1>1. PICK env \in Environment : Main(StopFile(f, env))
  BY DEF Stop
<1>2. /\ Sound(f) /\ Live(f) /\ (Held(f.buffered) = {} \/ CanCollect(f))
      /\ UNCHANGED <<app, budgets>>
  BY <1>1, UpFacts DEF Main, Stop
<1>3. Keeps(f, StopFile(f, env))
  BY <1>2, StopFacts, CarriesIsKept
<1> QED
  BY <1>1, <1>2, <1>3, MainKeeps, SameBudgets

(* checkDiskspace(), both ways. *)
LEMMA CheckDiskspaceKeeps ==
  ASSUME IInv, CheckDiskspace
  PROVE  IInv' /\ JudgedStep
BY PauseKeepsAll, ResumeKeepsAll DEF CheckDiskspace

(* A hashset that arrives late. *)
LEMMA ReceiveHashsetKeeps ==
  ASSUME IInv, ReceiveHashset
  PROVE  IInv' /\ JudgedStep
<1>1. Main(HashsetReceived(f)) /\ ~f.hashset /\ UNCHANGED <<app, budgets>>
  BY DEF ReceiveHashset
<1>2. Sound(f) /\ Live(f) /\ ~f.destroying
  BY <1>1, UpFacts DEF Main
<1>3. Keeps(f, HashsetReceived(f))
  BY <1>1, <1>2, HashsetFacts
<1> QED
  BY <1>1, <1>3, MainKeeps, SameBudgets

(* A part leaves the list of those recovery data was asked for. *)
LEMMA NoLongerAsked ==
  ASSUME NEW s, Sound(s), Live(s), NEW p
  PROVE  Keeps(s, [s EXCEPT !.asked = @ \ {p}])
<1> DEFINE asked == s.asked \ {p}
           t == [s EXCEPT !.asked = asked]
<1>1. s \in FileType
  BY DEF Sound
<1>2. asked \subseteq Parts /\ asked \subseteq s.asked
  BY <1>1 DEF FileType
<1> HIDE DEF asked
<1>3. /\ t \in FileType /\ SameBytes(s, t) /\ SameMet(s, t) /\ t.asked = asked
      /\ t.statusBeforeWriteError = s.statusBeforeWriteError /\ t.status = s.status
      /\ t.changed = s.changed /\ t.corrupted = s.corrupted /\ t.awaiting = s.awaiting
      /\ t.completionError = s.completionError /\ t.mover = s.mover
      /\ t.partOk = s.partOk /\ t.checked = s.checked
  BY <1>1, <1>2 DEF FileType, SameBytes, SameMet
<1> HIDE DEF t
<1>4. JobOK(t)
  BY <1>3 DEF Sound, JobOK, GoodOnDisk, SameBytes
<1>5. Stages(t)
  BY <1>2, <1>3 DEF Sound, Stages, Still, Unwritten, CompletionRunning, SameBytes, SameMet
<1>6. Checks(t)
  BY <1>3 DEF Sound, Checks, GoodOnDisk, SameBytes
<1>7. Live(t)
  BY <1>3 DEF Live, CompletionRunning, SameBytes
<1>8. Present(s) => Present(t)
  BY <1>3, SameIsPresent
<1>9. Stays(s, t)
  BY <1>3, <1>4, <1>5, <1>6, <1>7, <1>8 DEF Stays, Sound, SameBytes
<1>10. Flows(s, t)
  BY <1>3, SameIsClean, SameIsFlagged DEF Flows, Transferring, CompletionRunning
<1>11. Judges(s, t)
  BY <1>3, SameJudges
<1> QED
  BY <1>9, <1>10, <1>11 DEF Keeps, t, asked

(* Recovery data for a part it was asked for. *)
LEMMA ReceiveRecoveryDataKeeps ==
  ASSUME IInv, NEW p \in Parts, ReceiveRecoveryData(p)
  PROVE  IInv' /\ JudgedStep
<1>1. PICK env \in Environment, reread \in BOOLEAN :
        /\ reread \/ faultsLeft > 0
        /\ Main([AichRecoveryDataAvailable(f, p, reread, env) EXCEPT !.asked = @ \ {p}])
        /\ faultsLeft' = IF reread THEN faultsLeft ELSE faultsLeft - 1
  BY DEF ReceiveRecoveryData
<1>2. Sound(f) /\ Live(f) /\ ~f.destroying /\ CanCollect(f) /\ f.asked # {}
  BY <1>1, UpFacts DEF Main, ReceiveRecoveryData
<1> DEFINE t == AichRecoveryDataAvailable(f, p, reread, env)
           u == [t EXCEPT !.asked = @ \ {p}]
<1>3. Goes(f, t) /\ Judges(f, t) /\ (reread => Flows(f, t))
  BY <1>2, RecoveryFacts
<1> HIDE DEF t
<1>4. Keeps(t, u)
  BY <1>3, NoLongerAsked DEF Goes
<1>5. f' = u
  BY <1>1 DEF t, Main
<1> HIDE DEF u
<1>6. Sound(u) /\ Live(u) /\ (Present(f) => Present(u)) /\ u.destroying = f.destroying
  BY <1>3, <1>4 DEF Goes, Keeps, Stays
<1>7. Budgets' /\ app' = app /\ crashesLeft' = crashesLeft
  BY <1>1, BoundsAssumption DEF ReceiveRecoveryData, IInv, Budgets
<1>8. faultsLeft' = MaxFaults => faultsLeft = MaxFaults /\ Flows(f, u)
  <2>1. faultsLeft' = MaxFaults => reread /\ faultsLeft = MaxFaults
    BY <1>1, BoundsAssumption DEF IInv, Budgets
  <2> QED
    BY <1>3, <1>4, <2>1 DEF Keeps, Flows
<1>9. Turns(f, u)
  BY <1>3, <1>4, JudgesOn DEF Keeps, Judges
<1> QED
  BY <1>5, <1>6, <1>7, <1>8, <1>9, StepKeeps

(* Only what the invariant does not speak of changes. *)
LEMMA OutsideFacts ==
  ASSUME NEW s, NEW t, Sound(s), t \in FileType, SameDownload(s, t), SameMet(s, t)
  PROVE  /\ Sound(t) /\ (Live(s) => Live(t)) /\ (Present(s) => Present(t))
         /\ t.destroying = s.destroying
<1>1. t.met.corrupted # {} => t.met.hashset
  BY DEF Sound, Stages, SameMet
<1>2. Sound(t) /\ (Live(s) => Live(t)) /\ (WholeOnDisk(s) => WholeOnDisk(t))
  BY <1>1, SameIsSound
<1>3. MetTrue(s) => MetTrue(t)
  BY DEF MetTrue, SameMet, SameDownload
<1> QED
  BY <1>2, <1>3 DEF Present, SameDownload

(* Only the state of an import changes. *)
LEMMA ImportFlag ==
  ASSUME NEW s, Sound(s), Live(s), NEW x \in {"off", "on", "took"}
  PROVE  Keeps(s, [s EXCEPT !.import = x])
<1> DEFINE t == [s EXCEPT !.import = x]
<1>1. s \in FileType
  BY DEF Sound
<1>2. t \in FileType /\ SameDownload(s, t) /\ SameMet(s, t) /\ t.volume = s.volume
  BY <1>1 DEF FileType, SameDownload, SameMet
<1> HIDE DEF t
<1>3. Keeps(s, t)
  BY <1>2, OutsideFacts, SameFlows DEF Keeps, Stays
<1> QED
  BY <1>3 DEF t

(* An import flushes before it starts. *)
LEMMA StartImportKeeps ==
  ASSUME IInv, StartImport
  PROVE  IInv' /\ JudgedStep
<1> DEFINE no == FALSE
<1>1. PICK env \in Environment : Main([FlushBuffer(f, no, no, env) EXCEPT !.import = "on"])
  BY DEF StartImport
<1>2. Sound(f) /\ Live(f) /\ CanCollect(f)
  BY <1>1, UpFacts DEF Main, StartImport
<1> DEFINE t == FlushBuffer(f, no, no, env)
           u == [t EXCEPT !.import = "on"]
<1>3. Main(u)
  BY <1>1
<1> HIDE DEF no
<1>4. Carries(f, t)
  BY <1>2, FlushFacts
<1> HIDE DEF t
<1>5. Keeps(t, u)
  BY <1>4, ImportFlag DEF Carries, Goes
<1> HIDE DEF u
<1>6. Keeps(f, u)
  BY <1>4, <1>5, KeepsOn
<1>7. Budgets' /\ app' = app /\ crashesLeft' = crashesLeft /\ faultsLeft' = faultsLeft
  BY BoundsAssumption DEF StartImport, IInv, Budgets
<1> QED
  BY <1>3, <1>6, <1>7, MainKeeps

(* A whole part arrives past the buffer. *)
LEMMA ImportPartKeeps ==
  ASSUME IInv, NEW p \in Parts, ImportPart(p)
  PROVE  IInv' /\ JudgedStep
<1> DEFINE disk == [b \in Blocks |-> IF PartOf[b] = p THEN "good" ELSE f.disk[b]]
           gaps == f.gaps \ BlocksOf(p)
           t == [f EXCEPT !.disk = disk, !.gaps = gaps, !.stampOk = FALSE, !.exists = TRUE,
                          !.import = "took"]
<1>1. Main(t) /\ f.gaps # {} /\ UNCHANGED <<app, budgets>>
  BY DEF ImportPart
<1>2. Sound(f) /\ Live(f) /\ f \in FileType
  BY <1>1, UpFacts DEF Main
<1>3. /\ disk \in [Blocks -> Data \cup {"none", "torn"}] /\ gaps \subseteq Blocks
      /\ \A b \in Blocks : disk[b] = "good" \/ disk[b] = f.disk[b]
      /\ \A b \in Blocks : b \in f.gaps /\ b \notin gaps => disk[b] = "good"
      /\ \A b \in BlocksOf(p) : disk[b] = "good"
      /\ \A b \in Blocks : PartOf[b] # p => disk[b] = f.disk[b] /\ (b \in gaps <=> b \in f.gaps)
      /\ gaps \subseteq f.gaps
  BY <1>2 DEF FileType, Data, BlocksOf
<1> HIDE DEF disk, gaps
<1>4. /\ t \in FileType /\ t.met = f.met /\ t.stampOk = FALSE
      /\ t.gaps = gaps /\ t.buffered = f.buffered /\ t.flushing = f.flushing /\ t.disk = disk
      /\ t.job = f.job /\ t.hashset = f.hashset /\ t.destroying = f.destroying
      /\ t.statusBeforeWriteError = f.statusBeforeWriteError
      /\ t.status = f.status /\ t.changed = f.changed /\ t.corrupted = f.corrupted
      /\ t.awaiting = f.awaiting /\ t.asked = f.asked /\ t.completionError = f.completionError
      /\ t.mover = f.mover /\ t.partOk = f.partOk /\ t.checked = f.checked
      /\ t.volume = f.volume
  BY <1>2, <1>3 DEF FileType
<1> HIDE DEF t
<1>5. ~CompletionRunning(f) /\ ~f.completionError /\ f.status \notin {"Completing", "Complete"}
  BY <1>1, <1>2 DEF Sound, Stages
<1>6. JobOK(t)
  <2>1. f.job \in JobType
    BY <1>2 DEF FileType
  <2>2. Held(t.flushing) \subseteq Blocks
    BY DEF Held
  <2> QED
    BY <1>2, <1>3, <1>4, <2>1, <2>2 DEF Sound, JobOK, GoodOnDisk, Data
<1>7. Stages(t)
  BY <1>2, <1>4, <1>5 DEF Sound, Stages, Still, Unwritten, CompletionRunning
<1>8. Checks(t)
  BY <1>2, <1>3, <1>4, <1>5 DEF Sound, Checks, GoodOnDisk, CompletionRunning
<1>9. Live(t)
  BY <1>2, <1>4 DEF Live, CompletionRunning
<1>10. Present(f) => Present(t)
  BY <1>3, <1>4 DEF Present, WholeOnDisk, MetTrue, Unwritten, Data
<1>11. Stays(f, t)
  BY <1>4, <1>6, <1>7, <1>8, <1>9, <1>10 DEF Stays, Sound
<1>12. Unwritten(t) = Unwritten(f)
  BY <1>4 DEF Unwritten
<1>13. ASSUME Clean(f) PROVE Clean(t)
  <2>1. f.job.phase # "none" => p \notin f.job.want
    BY <1>13 DEF Clean, Calm, ImportPart
  <2>2. \A q \in Parts : q # p => (Good(t, q) => Good(f, q))
    BY <1>3, <1>4 DEF Good, BlocksOf
  <2>3. f.job.phase = "done" => DigestsHold(t)
    BY <1>4, <1>13, <2>1, <2>2 DEF Clean, Calm, DigestsHold
  <2>4. Calm(t)
    BY <1>3, <1>4, <1>12, <1>13, <2>3 DEF Clean, Calm
  <2>5. FlagsWait(t)
    BY <1>3, <1>4, <1>12, <1>13 DEF Clean, FlagsWait, IsComplete
  <2> QED
    BY <2>4, <2>5 DEF Clean
<1>14. ASSUME Flagged(f) PROVE Flagged(t)
  <2> SUFFICES ASSUME NEW q \in Parts,
                      IsCompleteBDSafe(t, BlocksOf(q)), q \notin t.changed,
                      t.hashset \/ q \notin t.awaiting, Transferring(t)
               PROVE  Good(t, q)
    BY DEF Flagged
  <2>1. CASE q = p
    BY <1>3, <1>4, <2>1 DEF Good
  <2>2. CASE q # p
    <3>1. IsCompleteBDSafe(f, BlocksOf(q)) /\ Transferring(f)
      BY <1>3, <1>4, <1>12, <2>2 DEF IsCompleteBDSafe, BlocksOf, Transferring, CompletionRunning
    <3>2. Good(f, q)
      BY <1>4, <1>14, <3>1 DEF Flagged
    <3> QED
      BY <1>3, <1>4, <2>2, <3>2 DEF Good, BlocksOf
  <2> QED
    BY <2>1, <2>2
<1>15. Judges(f, t)
  BY <1>3, <1>4, <1>12 DEF Judges, Turns
<1>16. Keeps(f, t)
  BY <1>11, <1>13, <1>14, <1>15 DEF Keeps, Flows
<1> QED
  BY <1>1, <1>16, MainKeeps, SameBudgets

(* An import saves what it took. *)
LEMMA EndImportKeeps ==
  ASSUME IInv, NEW stopped \in BOOLEAN, EndImport(stopped)
  PROVE  IInv' /\ JudgedStep
<1> DEFINE save == f.status # "Complete" /\ (stopped \/ f.import = "took")
           t == IF save THEN SavePartFile(f) ELSE f
           u == [t EXCEPT !.import = "off"]
<1>1. Main(u) /\ UNCHANGED <<app, budgets>>
  BY DEF EndImport
<1>2. Sound(f) /\ Live(f)
  BY <1>1, UpFacts DEF Main
<1>3. Carries(f, t)
  BY <1>2, SaveCarries, CarriesSelf
<1> HIDE DEF t
<1>4. Keeps(t, u)
  BY <1>3, ImportFlag DEF Carries, Goes
<1> HIDE DEF u
<1>5. Keeps(f, u)
  BY <1>3, <1>4, KeepsOn
<1> QED
  BY <1>1, <1>5, MainKeeps, SameBudgets

-----------------------------------------------------------------------------
(* While a job is out the download is open, so that a step of the worker has little to keep. *)
LEMMA WorkerKeeps ==
  ASSUME IInv, f.job.phase # "none", NEW t, f' = t, UNCHANGED <<app, budgets>>, t \in FileType, JobOK(t),
         t.gaps = f.gaps, t.buffered = f.buffered, t.flushing = f.flushing,
         t.hashset = f.hashset, t.destroying = f.destroying, t.status = f.status,
         t.statusBeforeWriteError = f.statusBeforeWriteError, t.corrupted = f.corrupted,
         t.asked = f.asked, t.completionError = f.completionError, t.mover = f.mover,
         t.partOk = f.partOk, t.met = f.met, t.metExists = f.metExists,
         t.changed = f.changed, t.awaiting = f.awaiting, t.volume = f.volume,
         t.job.want = f.job.want,
         Clean(f) /\ t.job.phase = "done" => t.job.written /\ DigestsHold(t),
         \/ t.disk = f.disk /\ (t.stampOk => f.stampOk)
         \/ ~t.stampOk /\ \A b \in Blocks : b \notin Held(f.flushing) => t.disk[b] = f.disk[b]
  PROVE  IInv' /\ JudgedStep
<1>1. Sound(f) /\ ~Still(f)
  BY DEF IInv, Still
<1>2. Open(f)
  BY <1>1, UnstillIsOpen
<1>3. Open(t)
  BY <1>2 DEF Open, CompletionRunning
<1>4. Sound(t) /\ (Live(f) => Live(t))
  BY <1>1, <1>2, <1>3, OpenIsSound DEF Sound, Stages, Live, Open
<1>5. Present(f) => Present(t)
  BY DEF Present, WholeOnDisk, MetTrue, Unwritten
<1>6. Unwritten(t) = Unwritten(f)
  BY DEF Unwritten
<1>7. Clean(f) => Clean(t)
  BY <1>6 DEF Clean, Calm, FlagsWait, IsComplete
<1>8. ASSUME Flagged(f) PROVE Flagged(t)
  <2> SUFFICES ASSUME NEW p \in Parts,
                      IsCompleteBDSafe(t, BlocksOf(p)), p \notin t.changed,
                      t.hashset \/ p \notin t.awaiting, Transferring(t)
               PROVE  Good(t, p)
    BY DEF Flagged
  <2>1. IsCompleteBDSafe(f, BlocksOf(p)) /\ Transferring(f)
    BY <1>6 DEF IsCompleteBDSafe, Transferring, CompletionRunning
  <2>2. Good(f, p)
    BY <1>8, <2>1 DEF Flagged
  <2>3. \A b \in BlocksOf(p) : t.disk[b] = f.disk[b]
    BY <2>1 DEF IsCompleteBDSafe, Unwritten, BlocksOf
  <2> QED
    BY <2>2, <2>3 DEF Good
<1>9. Flows(f, t) /\ Turns(f, t)
  BY <1>7, <1>8 DEF Flows, Turns
<1> QED
  BY <1>4, <1>5, <1>9, StepKeeps, SameBudgets

(* The worker opens the .part, or fails to. *)
LEMMA WorkerOpenKeeps ==
  ASSUME IInv, WorkerOpen
  PROVE  IInv' /\ JudgedStep
<1>1. f \in FileType /\ f.job \in JobType /\ Sound(f)
  BY DEF IInv, Sound, FileType
<1>2. f.job.phase = "queued" /\ UNCHANGED <<app, budgets>>
  BY DEF WorkerOpen
<1> DEFINE jd == [f.job EXCEPT !.phase = "done"]
           jw == [f.job EXCEPT !.phase = "writing"]
           d == [f EXCEPT !.job = jd]
           w == [f EXCEPT !.job = jw, !.exists = TRUE]
<1>3. (f.volume = "error" /\ f' = d) \/ f' = w
  BY DEF WorkerOpen
<1>4. /\ jd \in JobType /\ jd.phase = "done" /\ jd.todo = f.job.todo /\ jd.written = f.job.written
      /\ jw \in JobType /\ jw.phase = "writing" /\ jw.todo = f.job.todo /\ jw.written = f.job.written
      /\ jd.want = f.job.want /\ jw.want = f.job.want
  BY <1>1 DEF JobType
<1> HIDE DEF jd, jw
<1>5. /\ d \in FileType /\ d.job = jd /\ d.disk = f.disk /\ d.stampOk = f.stampOk
      /\ d.gaps = f.gaps /\ d.buffered = f.buffered /\ d.flushing = f.flushing
      /\ d.hashset = f.hashset /\ d.destroying = f.destroying /\ d.status = f.status
      /\ d.statusBeforeWriteError = f.statusBeforeWriteError /\ d.corrupted = f.corrupted
      /\ d.asked = f.asked /\ d.completionError = f.completionError /\ d.mover = f.mover
      /\ d.partOk = f.partOk /\ d.met = f.met /\ d.metExists = f.metExists
      /\ d.changed = f.changed /\ d.awaiting = f.awaiting /\ d.volume = f.volume
  BY <1>1, <1>4 DEF FileType
<1>6. /\ w \in FileType /\ w.job = jw /\ w.disk = f.disk /\ w.stampOk = f.stampOk
      /\ w.gaps = f.gaps /\ w.buffered = f.buffered /\ w.flushing = f.flushing
      /\ w.hashset = f.hashset /\ w.destroying = f.destroying /\ w.status = f.status
      /\ w.statusBeforeWriteError = f.statusBeforeWriteError /\ w.corrupted = f.corrupted
      /\ w.asked = f.asked /\ w.completionError = f.completionError /\ w.mover = f.mover
      /\ w.partOk = f.partOk /\ w.met = f.met /\ w.metExists = f.metExists
      /\ w.changed = f.changed /\ w.awaiting = f.awaiting /\ w.volume = f.volume
  BY <1>1, <1>4 DEF FileType
<1> HIDE DEF d, w
<1>7. JobOK(d)
  BY <1>1, <1>2, <1>4, <1>5 DEF Sound, JobOK
<1>8. JobOK(w)
  BY <1>1, <1>2, <1>4, <1>6 DEF Sound, JobOK
<1>9. CASE f.volume = "error" /\ f' = d
  <2>1. ~Clean(f)
    BY <1>9 DEF Clean, Calm
  <2> QED
    BY <1>2, <1>4, <1>5, <1>7, <1>9, <2>1, WorkerKeeps
<1>10. CASE f' = w
  BY <1>2, <1>4, <1>6, <1>8, <1>10, WorkerKeeps
<1> QED
  BY <1>3, <1>9, <1>10

(* The worker writes a block: one of flushing, so of what the gap list does not yet rely on. *)
LEMMA WorkerWriteKeeps ==
  ASSUME IInv, WorkerWrite
  PROVE  IInv' /\ JudgedStep
<1>1. f \in FileType /\ f.job \in JobType /\ Sound(f)
  BY DEF IInv, Sound, FileType
<1>2. f.job.phase = "writing" /\ f.job.todo # {} /\ UNCHANGED <<app, budgets>>
  BY DEF WorkerWrite
<1> DEFINE b == Min(f.job.todo)
           todo == f.job.todo \ {b}
           job == [f.job EXCEPT !.todo = todo]
           disk == [f.disk EXCEPT ![b] = f.flushing[b]]
           t == [f EXCEPT !.disk = disk, !.job = job, !.stampOk = FALSE]
<1>3. f' = t
  BY DEF WorkerWrite
<1>4. f.job.todo \subseteq Held(f.flushing) /\ f.job.todo \subseteq Blocks
  BY <1>1 DEF Sound, JobOK, JobType
<1>5. b \in f.job.todo
  <2>1. f.job.todo \subseteq Nat
    BY <1>4, BlocksAssumption
  <2> QED
    BY <1>2, <2>1, MinIn
<1>6. b \in Held(f.flushing) /\ b \in Blocks /\ f.flushing[b] \in Data
  BY <1>1, <1>4, <1>5 DEF Held, FileType
<1> HIDE DEF b
<1>7. /\ disk \in [Blocks -> Data \cup {"none", "torn"}] /\ disk[b] \in Data
      /\ \A c \in Blocks : c # b => disk[c] = f.disk[c]
  BY <1>1, <1>6 DEF FileType
<1>8. /\ job \in JobType /\ job.phase = "writing" /\ job.todo = f.job.todo \ {b}
      /\ job.written = f.job.written /\ job.want = f.job.want
  BY <1>1, <1>2 DEF JobType
<1> HIDE DEF job, disk
<1>9. /\ t \in FileType /\ t.job = job /\ t.disk = disk /\ t.stampOk = FALSE
      /\ t.gaps = f.gaps /\ t.buffered = f.buffered /\ t.flushing = f.flushing
      /\ t.hashset = f.hashset /\ t.destroying = f.destroying /\ t.status = f.status
      /\ t.statusBeforeWriteError = f.statusBeforeWriteError /\ t.corrupted = f.corrupted
      /\ t.asked = f.asked /\ t.completionError = f.completionError /\ t.mover = f.mover
      /\ t.partOk = f.partOk /\ t.met = f.met /\ t.metExists = f.metExists
      /\ t.changed = f.changed /\ t.awaiting = f.awaiting /\ t.volume = f.volume
  BY <1>1, <1>7, <1>8 DEF FileType
<1> HIDE DEF t
<1>10. JobOK(t)
  <2>1. Held(f.flushing) \subseteq Blocks
    BY DEF Held
  <2> QED
    BY <1>1, <1>2, <1>4, <1>6, <1>7, <1>8, <1>9, <2>1 DEF Sound, JobOK
<1>11. \A c \in Blocks : c \notin Held(f.flushing) => t.disk[c] = f.disk[c]
  BY <1>6, <1>7, <1>9
<1> QED
  BY <1>2, <1>3, <1>8, <1>9, <1>10, <1>11, WorkerKeeps

(* A write or the last flush fails: the torn block is still in flushing. *)
LEMMA WorkerWriteFailsKeeps ==
  ASSUME IInv, WorkerWriteFails
  PROVE  IInv' /\ JudgedStep
<1>1. f \in FileType /\ f.job \in JobType /\ Sound(f)
  BY DEF IInv, Sound, FileType
<1>2. f.job.phase = "writing" /\ f.volume \in {"full", "error"} /\ UNCHANGED <<app, budgets>>
  BY DEF WorkerWriteFails
<1> DEFINE b == IF f.job.todo = {} THEN Max(Held(f.flushing)) ELSE Min(f.job.todo)
<1>3. PICK torn \in BOOLEAN :
        f' = [f EXCEPT !.disk[b] = IF torn THEN "torn" ELSE @, !.stampOk = @ /\ ~torn,
                       !.job.phase = "done", !.job.diskFull = (f.volume = "full")]
  BY DEF WorkerWriteFails
<1> DEFINE full == f.volume = "full"
           job == [f.job EXCEPT !.phase = "done", !.diskFull = full]
           disk == [f.disk EXCEPT ![b] = IF torn THEN "torn" ELSE @]
           stamp == f.stampOk /\ ~torn
           t == [f EXCEPT !.disk = disk, !.stampOk = stamp, !.job = job]
<1>4. f' = t
  BY <1>3
<1>5. f.job.todo \subseteq Held(f.flushing) /\ Held(f.flushing) \subseteq Blocks /\ Held(f.flushing) # {}
  BY <1>1, <1>2 DEF Sound, JobOK, Held
<1>6. b \in Held(f.flushing)
  <2>1. Held(f.flushing) \subseteq Nat /\ f.job.todo \subseteq Nat /\ IsFiniteSet(Held(f.flushing))
    BY <1>5, BlocksAssumption, FS_Subset
  <2>2. Max(Held(f.flushing)) \in Held(f.flushing)
    BY <1>5, <2>1, MaxIn
  <2>3. f.job.todo # {} => Min(f.job.todo) \in f.job.todo
    BY <2>1, MinIn
  <2> QED
    BY <1>5, <2>2, <2>3
<1> HIDE DEF b
<1>7. /\ disk \in [Blocks -> Data \cup {"none", "torn"}]
      /\ \A c \in Blocks : c # b => disk[c] = f.disk[c]
      /\ ~torn => disk = f.disk
  BY <1>1, <1>5, <1>6 DEF FileType
<1>8. /\ job \in JobType /\ job.phase = "done" /\ job.todo = f.job.todo
      /\ job.written = f.job.written /\ job.want = f.job.want
  BY <1>1, <1>2 DEF JobType
<1>9. stamp \in BOOLEAN /\ (stamp => f.stampOk) /\ (torn => ~stamp)
  BY <1>1 DEF FileType
<1> HIDE DEF job, disk, stamp
<1>10. /\ t \in FileType /\ t.job = job /\ t.disk = disk /\ t.stampOk = stamp
       /\ t.gaps = f.gaps /\ t.buffered = f.buffered /\ t.flushing = f.flushing
       /\ t.hashset = f.hashset /\ t.destroying = f.destroying /\ t.status = f.status
       /\ t.statusBeforeWriteError = f.statusBeforeWriteError /\ t.corrupted = f.corrupted
       /\ t.asked = f.asked /\ t.completionError = f.completionError /\ t.mover = f.mover
       /\ t.partOk = f.partOk /\ t.met = f.met /\ t.metExists = f.metExists
      /\ t.changed = f.changed /\ t.awaiting = f.awaiting /\ t.volume = f.volume
  BY <1>1, <1>7, <1>8, <1>9, ZenonT(60) DEF FileType
<1> HIDE DEF t
<1>11. JobOK(t)
  BY <1>1, <1>2, <1>5, <1>8, <1>10 DEF Sound, JobOK
<1>12. \/ t.disk = f.disk /\ (t.stampOk => f.stampOk)
       \/ ~t.stampOk /\ \A c \in Blocks : c \notin Held(f.flushing) => t.disk[c] = f.disk[c]
  BY <1>6, <1>7, <1>9, <1>10
<1>13. ~Clean(f)
  BY <1>2 DEF Clean, Calm
<1> QED
  BY <1>2, <1>4, <1>8, <1>10, <1>11, <1>12, <1>13, WorkerKeeps

(* What hashing a part finds. *)
LEMMA PartHashFacts ==
  ASSUME NEW s, NEW p \in Parts
  PROVE  /\ PartHash(s, p) \in {"Ok", "Bad", "Unread"}
         /\ PartHash(s, p) = "Ok" => \A b \in Blocks : PartOf[b] = p => s.disk[b] = "good"
BY DEF PartHash, BlocksOf

(* The worker reads back the parts it was asked for. *)
LEMMA WorkerDigestKeeps ==
  ASSUME IInv, WorkerDigest
  PROVE  IInv' /\ JudgedStep
<1>1. f \in FileType /\ f.job \in JobType /\ Sound(f)
  BY DEF IInv, Sound, FileType
<1>2. f.job.phase = "writing" /\ f.job.todo = {} /\ UNCHANGED <<app, budgets>>
  BY DEF WorkerDigest
<1> DEFINE digests == [p \in Parts |-> IF p \in f.job.want THEN PartHash(f, p) ELSE "none"]
           job == [f.job EXCEPT !.phase = "done", !.written = TRUE, !.digests = digests]
           t == [f EXCEPT !.job = job]
<1>3. f' = t
  BY DEF WorkerDigest
<1>4. digests \in [Parts -> DigestValues] /\ GoodOnDisk(f, digests)
  BY PartHashFacts, BlocksAssumption DEF DigestValues, GoodOnDisk
<1>8. Clean(f) => \A p \in Parts : /\ digests[p] \in {"none", "Ok", "Bad"}
                                   /\ digests[p] # "none" => p \in f.job.want
                                   /\ digests[p] = "Bad" => ~Good(f, p)
  BY DEF Clean, Calm, PartHash, Good
<1> HIDE DEF digests
<1>5. /\ job \in JobType /\ job.phase = "done" /\ job.todo = {} /\ job.written = TRUE
      /\ job.digests = digests /\ job.want = f.job.want
  BY <1>1, <1>2, <1>4 DEF JobType
<1> HIDE DEF job
<1>6. /\ t \in FileType /\ t.job = job /\ t.disk = f.disk /\ t.stampOk = f.stampOk
      /\ t.gaps = f.gaps /\ t.buffered = f.buffered /\ t.flushing = f.flushing
      /\ t.hashset = f.hashset /\ t.destroying = f.destroying /\ t.status = f.status
      /\ t.statusBeforeWriteError = f.statusBeforeWriteError /\ t.corrupted = f.corrupted
      /\ t.asked = f.asked /\ t.completionError = f.completionError /\ t.mover = f.mover
      /\ t.partOk = f.partOk /\ t.met = f.met /\ t.metExists = f.metExists
      /\ t.changed = f.changed /\ t.awaiting = f.awaiting /\ t.volume = f.volume
  BY <1>1, <1>5 DEF FileType
<1> HIDE DEF t
<1>7. JobOK(t)
  BY <1>1, <1>2, <1>4, <1>5, <1>6 DEF Sound, JobOK, GoodOnDisk
<1>9. Clean(f) => t.job.written /\ DigestsHold(t)
  BY <1>5, <1>6, <1>8 DEF DigestsHold, Good
<1> QED
  BY <1>2, <1>3, <1>5, <1>6, <1>7, <1>9, WorkerKeeps

-----------------------------------------------------------------------------
(* Verdicts are true of the disk they were read from. *)
LEMMA VerdictFacts ==
  /\ Verdicts \in [Parts -> DigestValues] /\ GoodOnDisk(f, Verdicts)
  /\ \A p \in Parts : Verdicts[p] # "none"
BY PartHashFacts, BlocksAssumption DEF Verdicts, GoodOnDisk, DigestValues

(* The rehash worker has read the file. *)
LEMMA RehashReadKeeps ==
  ASSUME IInv, RehashRead
  PROVE  IInv' /\ JudgedStep
<1> DEFINE t == [f EXCEPT !.partOk = Verdicts]
<1>1. f' = t /\ f.status = "Hashing" /\ app = "up" /\ UNCHANGED <<app, budgets>>
  BY DEF RehashRead
<1>2. Sound(f) /\ Live(f) /\ f \in FileType
  BY <1>1, UpFacts
<1>3. /\ t \in FileType /\ SameBytes(f, t) /\ SameMet(f, t)
      /\ t.statusBeforeWriteError = f.statusBeforeWriteError /\ t.status = f.status
      /\ t.changed = f.changed /\ t.corrupted = f.corrupted /\ t.awaiting = f.awaiting
      /\ t.asked = f.asked /\ t.completionError = f.completionError /\ t.mover = f.mover
      /\ t.partOk = Verdicts /\ t.checked = f.checked
  BY <1>2, VerdictFacts DEF FileType, SameBytes, SameMet
<1> HIDE DEF t
<1>4. JobOK(t)
  BY <1>2, <1>3 DEF Sound, JobOK, GoodOnDisk, SameBytes
<1>5. Stages(t)
  BY <1>1, <1>2, <1>3 DEF Sound, Stages, Still, Unwritten, CompletionRunning, SameBytes, SameMet
<1>6. Checks(t)
  BY <1>2, <1>3, VerdictFacts DEF Sound, Checks, GoodOnDisk, SameBytes
<1>7. Live(t)
  BY <1>1, <1>3 DEF Live
<1>8. Present(f) => Present(t)
  BY <1>3, SameIsPresent
<1>9. Clean(f) => Clean(t)
  <2>1. Clean(f) => \A p \in Parts : Verdicts[p] # "Unread"
    BY DEF Clean, Calm, Verdicts, PartHash
  <2> QED
    BY <1>3, <2>1 DEF Clean, Calm, DigestsHold, FlagsWait, SameBytes, Unwritten, IsComplete, Good
<1>10. Flagged(f) => Flagged(t)
  BY <1>3, SameIsFlagged DEF Transferring, CompletionRunning
<1>11. Turns(f, t)
  BY <1>3, SameJudges DEF Judges
<1> QED
  BY <1>1, <1>3, <1>4, <1>5, <1>6, <1>7, <1>8, <1>9, <1>10, <1>11, StepKeeps, SameBudgets
  DEF Sound, SameBytes, Flows

(* The handler of a signal takes the verdicts off the record. *)
LEMMA TakenOff ==
  ASSUME NEW s, Sound(s), Live(s)
  PROVE  LET t == [s EXCEPT !.partOk = NoDigests]
         IN  /\ Keeps(s, t) /\ t.partOk = NoDigests /\ t.disk = s.disk /\ t.mover = s.mover
             /\ t.status = s.status
<1> DEFINE t == [s EXCEPT !.partOk = NoDigests]
<1>1. s \in FileType
  BY DEF Sound
<1>2. /\ t \in FileType /\ SameBytes(s, t) /\ SameMet(s, t)
      /\ t.statusBeforeWriteError = s.statusBeforeWriteError /\ t.status = s.status
      /\ t.changed = s.changed /\ t.corrupted = s.corrupted /\ t.awaiting = s.awaiting
      /\ t.asked = s.asked /\ t.completionError = s.completionError /\ t.mover = s.mover
      /\ t.partOk = NoDigests /\ t.checked = s.checked
  BY <1>1, NoJobFacts DEF FileType, SameBytes, SameMet
<1> HIDE DEF t
<1>3. JobOK(t)
  BY <1>2 DEF Sound, JobOK, GoodOnDisk, SameBytes
<1>4. Stages(t)
  BY <1>2 DEF Sound, Stages, Still, Unwritten, CompletionRunning, SameBytes, SameMet
<1>5. Checks(t)
  BY <1>2, NoJobFacts, BlocksAssumption DEF Sound, Checks, GoodOnDisk, SameBytes
<1>6. Live(t)
  BY <1>2 DEF Live, SameBytes
<1>7. Present(s) => Present(t)
  BY <1>2, SameIsPresent
<1>8. Stays(s, t) /\ t.disk = s.disk
  BY <1>2, <1>3, <1>4, <1>5, <1>6, <1>7 DEF Stays, Sound, SameBytes
<1>9. Flows(s, t)
  <2>1. Clean(s) => Clean(t)
    BY <1>2, SameIsClean
  <2>2. Flagged(s) => Flagged(t)
    BY <1>2, SameIsFlagged DEF Transferring, CompletionRunning
  <2> QED
    BY <2>1, <2>2 DEF Flows
<1>10. Judges(s, t)
  BY <1>2, SameJudges
<1> QED
  BY <1>2, <1>8, <1>9, <1>10 DEF Keeps, t

(* The verdicts of a rehash are applied. *)
LEMMA OnPartFileRehashedKeeps ==
  ASSUME IInv, OnPartFileRehashed
  PROVE  IInv' /\ JudgedStep
<1> DEFINE s == [f EXCEPT !.partOk = NoDigests]
           r == ApplyRehashResult(s, f.partOk)
<1>1. Main(r) /\ f.status = "Hashing" /\ f.partOk # NoDigests /\ UNCHANGED <<app, budgets>>
  BY DEF OnPartFileRehashed
<1>2. Sound(f) /\ Live(f) /\ f \in FileType
  BY <1>1, UpFacts DEF Main
<1>3. Keeps(f, s) /\ s.partOk = NoDigests /\ s.disk = f.disk /\ s.status = f.status
  BY <1>2, TakenOff
<1> HIDE DEF s
<1>4. Sound(s) /\ Still(s) /\ ~CompletionRunning(s) /\ ~s.completionError
  BY <1>1, <1>3 DEF Keeps, Stays, Sound, Stages
<1>5. /\ GoodOnDisk(s, f.partOk)
      /\ \A p \in Parts : f.partOk[p] \in {"Ok", "Bad", "Unread"}
  BY <1>1, <1>2, <1>3 DEF Sound, Checks, GoodOnDisk, FileType, DigestValues
<1> DEFINE d == f.partOk
<1>6. LET t == ApplyRehashResult(s, d)
      IN  /\ Stays(s, t) /\ Judges(s, t)
          /\ Clean(s) /\ (\A p \in Parts : d[p] # "Unread") => Clean(t) /\ Flagged(t)
  <2> HIDE DEF d
  <2> QED
    BY <1>3, <1>4, <1>5, RehashFacts DEF d
<1>8. Clean(f) => Clean(s) /\ \A p \in Parts : d[p] # "Unread"
  BY <1>3 DEF Keeps, Flows, Clean, Calm
<1> HIDE DEF r, d
<1>9. /\ Stays(s, r) /\ Judges(s, r)
      /\ Clean(s) /\ (\A p \in Parts : d[p] # "Unread") => Clean(r) /\ Flagged(r)
  BY <1>6 DEF r, d
<1>10. Stays(f, r) /\ Flows(f, r)
  BY <1>3, <1>8, <1>9 DEF Keeps, Stays, Flows
<1>11. Judges(f, r)
  BY <1>3, <1>9, JudgesOn DEF Keeps
<1>7. Keeps(f, r)
  BY <1>10, <1>11 DEF Keeps
<1> QED
  BY <1>1, <1>7, MainKeeps, SameBudgets

(* The final check failed: its verdicts reopen parts, or the completion fails. *)
LEMMA OnVerifyFailedKeeps ==
  ASSUME IInv, OnVerifyFailed
  PROVE  IInv' /\ JudgedStep
<1> DEFINE s == [f EXCEPT !.partOk = NoDigests]
           r == VerifyFailed(s, f.partOk)
<1>1. Main(r) /\ f.mover = "verifyFailed" /\ UNCHANGED <<app, budgets>>
  BY DEF OnVerifyFailed
<1>2. Sound(f) /\ Live(f) /\ f \in FileType
  BY <1>1, UpFacts DEF Main
<1>3. Keeps(f, s) /\ s.partOk = NoDigests /\ s.disk = f.disk /\ s.mover = f.mover
  BY <1>2, TakenOff
<1> HIDE DEF s
<1>4. Sound(s) /\ Live(s) /\ s.mover = "verifyFailed"
  BY <1>1, <1>3 DEF Keeps, Stays
<1>5. /\ GoodOnDisk(s, f.partOk) /\ f.partOk \in [Parts -> DigestValues]
      /\ f.partOk # NoDigests => \A p \in Parts : f.partOk[p] # "none"
  BY <1>2, <1>3 DEF Sound, Checks, GoodOnDisk, FileType
<1> DEFINE d == f.partOk
<1>6. LET t == VerifyFailed(s, d)
      IN  /\ Stays(s, t) /\ Judges(s, t)
          /\ Clean(s) /\ (\A p \in Parts : d[p] # "Unread") => Clean(t) /\ Flagged(t)
  <2> HIDE DEF d
  <2> QED
    BY <1>3, <1>4, <1>5, VerifyFailedFacts DEF d
<1>8. Clean(f) => Clean(s) /\ \A p \in Parts : d[p] # "Unread"
  BY <1>3 DEF Keeps, Flows, Clean, Calm
<1> HIDE DEF r, d
<1>9. /\ Stays(s, r) /\ Judges(s, r)
      /\ Clean(s) /\ (\A p \in Parts : d[p] # "Unread") => Clean(r) /\ Flagged(r)
  BY <1>6 DEF r, d
<1>10. Stays(f, r) /\ Flows(f, r)
  BY <1>3, <1>8, <1>9 DEF Keeps, Stays, Flows
<1>11. Judges(f, r)
  BY <1>3, <1>9, JudgesOn DEF Keeps
<1>7. Keeps(f, r)
  BY <1>10, <1>11 DEF Keeps
<1> QED
  BY <1>1, <1>7, MainKeeps, SameBudgets

(* The move ended. *)
LEMMA OnMoveFinishedKeeps ==
  ASSUME IInv, OnMoveFinished
  PROVE  IInv' /\ JudgedStep
<1> DEFINE moved == f.mover = "moved"
<1>1. /\ Main(MoveFinished(f, moved)) /\ f.mover \in {"moved", "moveFailed"}
      /\ UNCHANGED <<app, budgets>>
  BY DEF OnMoveFinished
<1>2. Sound(f) /\ Live(f)
  BY <1>1, UpFacts DEF Main
<1>3. moved \in BOOLEAN /\ f.mover = IF moved THEN "moved" ELSE "moveFailed"
  BY <1>1
<1> HIDE DEF moved
<1>4. Keeps(f, MoveFinished(f, moved))
  BY <1>2, <1>3, MoveFinishedFacts
<1> QED
  BY <1>1, <1>4, MainKeeps, SameBudgets

(* A step of the mover that leaves the bytes alone. *)
LEMMA MoverKeeps ==
  ASSUME IInv, f.mover \in {"verify", "move"},
         NEW mover \in {"verifyFailed", "move", "moved", "moveFailed"}, NEW exists \in BOOLEAN,
         NEW partOk, partOk = NoDigests \/ (mover = "verifyFailed" /\ partOk = Verdicts),
         mover \in {"move", "moved"} =>
           f.mover = "move" \/ \A b \in Blocks : f.disk[b] = "good",
         f' = [f EXCEPT !.mover = mover, !.exists = exists, !.partOk = partOk],
         UNCHANGED <<app, budgets>>
  PROVE  IInv' /\ JudgedStep
<1> DEFINE t == [f EXCEPT !.mover = mover, !.exists = exists, !.partOk = partOk]
<1>1. Sound(f) /\ f \in FileType
  BY DEF IInv, Sound
<1>2. partOk \in [Parts -> DigestValues]
  BY VerdictFacts, NoJobFacts
<1>3. /\ t \in FileType /\ SameBytes(f, t) /\ SameMet(f, t)
      /\ t.statusBeforeWriteError = f.statusBeforeWriteError /\ t.status = f.status
      /\ t.changed = f.changed /\ t.corrupted = f.corrupted /\ t.awaiting = f.awaiting
      /\ t.asked = f.asked /\ t.completionError = f.completionError /\ t.mover = mover
      /\ t.partOk = partOk /\ t.checked = f.checked
  BY <1>1, <1>2, ZenonT(60) DEF FileType, SameBytes, SameMet
<1>4. f' = t
  OBVIOUS
<1> HIDE DEF t
<1>5. JobOK(t)
  BY <1>1, <1>3 DEF Sound, JobOK, GoodOnDisk, SameBytes
<1>6. Stages(t)
  BY <1>1, <1>3 DEF Sound, Stages, Still, Unwritten, CompletionRunning, SameBytes, SameMet
<1>7. Checks(t)
  <2>1. GoodOnDisk(t, t.partOk) /\ (t.partOk # NoDigests => \A p \in Parts : t.partOk[p] # "none")
    BY <1>3, VerdictFacts, NoJobFacts, BlocksAssumption DEF GoodOnDisk, SameBytes
  <2>2. t.status # "Complete"
    BY <1>1, <1>3 DEF Sound, Stages, CompletionRunning
  <2> QED
    BY <1>1, <1>3, <2>1, <2>2 DEF Sound, Checks, SameBytes
<1>8. Live(f) => Live(t)
  BY <1>3 DEF Live, CompletionRunning, SameBytes
<1>9. Present(f) => Present(t)
  BY <1>3, SameIsPresent
<1>10. Clean(f) => Clean(t)
  <2>1. Clean(f) => \A p \in Parts : Verdicts[p] # "Unread"
    BY DEF Clean, Calm, Verdicts, PartHash
  <2>2. \A p \in Parts : NoDigests[p] # "Unread"
    BY DEF NoDigests
  <2> QED
    BY <1>3, <2>1, <2>2 DEF Clean, Calm, DigestsHold, FlagsWait, SameBytes, Unwritten, IsComplete, Good
<1>11. Flagged(f) => Flagged(t)
  BY <1>3 DEF Flagged, Transferring, CompletionRunning
<1>12. Turns(f, t)
  BY <1>3, SameJudges DEF Judges
<1>13. Sound(t) /\ t.destroying = f.destroying /\ Flows(f, t)
  BY <1>3, <1>5, <1>6, <1>7, <1>10, <1>11 DEF Sound, SameBytes, Flows
<1> QED
  BY <1>4, <1>8, <1>9, <1>12, <1>13, StepKeeps, SameBudgets

(* The final check. *)
LEMMA MoverVerifyKeeps ==
  ASSUME IInv, MoverVerify
  PROVE  IInv' /\ JudgedStep
<1>1. f.mover = "verify" /\ f \in FileType /\ f.partOk = NoDigests /\ UNCHANGED <<app, budgets>>
  BY DEF MoverVerify, IInv, Sound, Stages
<1>2. CASE \A p \in Parts : PartHash(f, p) = "Ok"
  <2>1. \A b \in Blocks : f.disk[b] = "good"
    BY <1>2, PartHashFacts, BlocksAssumption
  <2>2. f' = [f EXCEPT !.mover = "move"]
    BY <1>2 DEF MoverVerify
  <2> DEFINE x == f.exists
  <2>3. f' = [f EXCEPT !.mover = "move", !.exists = x, !.partOk = NoDigests] /\ x \in BOOLEAN
    BY <1>1, <2>2 DEF FileType
  <2> HIDE DEF x
  <2> QED
    BY <1>1, <2>1, <2>3, MoverKeeps
<1>3. CASE ~\A p \in Parts : PartHash(f, p) = "Ok"
  <2>2. f' = [f EXCEPT !.mover = "verifyFailed", !.partOk = Verdicts]
    BY <1>3 DEF MoverVerify
  <2> DEFINE x == f.exists
             v == Verdicts
  <2>3. f' = [f EXCEPT !.mover = "verifyFailed", !.exists = x, !.partOk = v] /\ x \in BOOLEAN
    BY <1>1, <2>2 DEF FileType
  <2> HIDE DEF x, v
  <2>4. v = Verdicts
    BY DEF v
  <2> QED
    BY <1>1, <2>3, <2>4, MoverKeeps
<1> QED
  BY <1>2, <1>3

(* The move itself. *)
LEMMA MoverMoveKeeps ==
  ASSUME IInv, MoverMove
  PROVE  IInv' /\ JudgedStep
<1>1. f.mover = "move" /\ f \in FileType /\ f.partOk = NoDigests /\ UNCHANGED <<app, budgets>>
  BY DEF MoverMove, IInv, Sound, Stages
<1>2. CASE f' = [f EXCEPT !.mover = "moved", !.exists = FALSE]
  <2> DEFINE x == FALSE
  <2>1. f' = [f EXCEPT !.mover = "moved", !.exists = x, !.partOk = NoDigests] /\ x \in BOOLEAN
    BY <1>1, <1>2 DEF FileType
  <2> HIDE DEF x
  <2> QED
    BY <1>1, <2>1, MoverKeeps
<1>3. CASE f' = [f EXCEPT !.mover = "moveFailed"]
  <2> DEFINE x == f.exists
  <2>1. f' = [f EXCEPT !.mover = "moveFailed", !.exists = x, !.partOk = NoDigests] /\ x \in BOOLEAN
    BY <1>1, <1>3 DEF FileType
  <2> HIDE DEF x
  <2> QED
    BY <1>1, <2>1, MoverKeeps
<1> QED
  BY <1>2, <1>3 DEF MoverMove

-----------------------------------------------------------------------------
(* A step with which the program leaves the download. *)
LEMMA LeaveKeeps ==
  ASSUME IInv, Sound(f'), ~f'.destroying, Present(f) => Present(f'), Budgets',
         app' \in {"cancelling", "gone", "down"}, FirstRun' => FirstRun,
         faultsLeft' = faultsLeft, Clean(f) => Clean(f')
  PROVE  IInv' /\ JudgedStep
BY DEF IInv, JudgedStep

(* cancelFile(): stop, flush, delete. *)
LEMMA CancelKeeps ==
  ASSUME IInv, Cancel
  PROVE  IInv' /\ JudgedStep
<1>1. PICK env \in Environment :
        f' = [StopAndFlush(f, env) EXCEPT !.exists = FALSE, !.metExists = FALSE, !.status = "Error"]
  BY DEF Cancel
<1> DEFINE r == StopAndFlush(f, env)
           t == [r EXCEPT !.exists = FALSE, !.metExists = FALSE, !.status = "Error"]
<1>2. f' = t
  BY <1>1
<1>3. Sound(f) /\ Live(f) /\ ~f.destroying /\ (Held(f.buffered) = {} \/ CanCollect(f))
  BY UpFacts DEF Cancel
<1>4. Carries(f, r)
  BY <1>3, StopFacts
<1>5. r \in FileType /\ Sound(r)
  BY <1>4 DEF Carries, Goes, Sound
<1> HIDE DEF r
<1>6. /\ t \in FileType /\ SameBytes(r, t) /\ t.met = r.met /\ t.metExists = FALSE
      /\ t.statusBeforeWriteError = r.statusBeforeWriteError /\ t.status = "Error"
      /\ t.changed = r.changed /\ t.corrupted = r.corrupted /\ t.awaiting = r.awaiting
      /\ t.asked = r.asked /\ t.completionError = r.completionError /\ t.mover = r.mover
      /\ t.partOk = r.partOk /\ t.checked = r.checked
  BY <1>5, ZenonT(60) DEF FileType, SameBytes, StoredStatuses
<1> HIDE DEF t
<1>7. JobOK(t)
  BY <1>5, <1>6 DEF Sound, JobOK, GoodOnDisk, SameBytes
<1>8. Stages(t)
  BY <1>5, <1>6 DEF Sound, Stages, Still, Unwritten, CompletionRunning, SameBytes
<1>9. Checks(t)
  BY <1>5, <1>6 DEF Sound, Checks, GoodOnDisk, SameBytes
<1>10. Present(r) => Present(t)
  BY <1>6 DEF Present, WholeOnDisk, MetTrue, Unwritten, SameBytes
<1>11. Sound(t) /\ ~t.destroying /\ (Present(f) => Present(t))
  BY <1>3, <1>4, <1>6, <1>7, <1>8, <1>9, <1>10 DEF Sound, Carries, Goes, SameBytes
<1>12. Clean(f) => Clean(t)
  <2>1. Clean(r) => Clean(t)
    BY <1>6, SameIsClean
  <2> QED
    BY <1>4, <2>1 DEF Carries, Flows
<1>13. Budgets' /\ app' = "cancelling" /\ (FirstRun' => FirstRun) /\ faultsLeft' = faultsLeft
  BY DEF Cancel, IInv, Budgets, budgets, FirstRun
<1> QED
  BY <1>2, <1>11, <1>12, <1>13, LeaveKeeps

(* The destructor works on a record that is being destroyed, its mover interrupted. *)
LEMMA DestroyingFacts ==
  ASSUME NEW s, Sound(s), NEW m, m = s.mover \/ m = "none"
  PROVE  LET t == [s EXCEPT !.destroying = TRUE, !.mover = m]
         IN  /\ Sound(t) /\ Live(t) /\ t.job = s.job /\ (Present(s) => Present(t))
             /\ t.volume = s.volume
<1> DEFINE t == [s EXCEPT !.destroying = TRUE, !.mover = m]
<1>1. s \in FileType
  BY DEF Sound
<1>2. /\ t \in FileType /\ SameMet(s, t) /\ t.destroying = TRUE
      /\ t.gaps = s.gaps /\ t.buffered = s.buffered /\ t.flushing = s.flushing /\ t.disk = s.disk
      /\ t.job = s.job /\ t.hashset = s.hashset /\ t.volume = s.volume
      /\ t.statusBeforeWriteError = s.statusBeforeWriteError
      /\ t.status = s.status /\ t.changed = s.changed /\ t.corrupted = s.corrupted
      /\ t.awaiting = s.awaiting /\ t.asked = s.asked /\ t.completionError = s.completionError
      /\ t.mover = m /\ t.partOk = s.partOk /\ t.checked = s.checked
  BY <1>1 DEF FileType, SameMet
<1> HIDE DEF t
<1>3. JobOK(t)
  BY <1>2 DEF Sound, JobOK, GoodOnDisk
<1>4. Stages(t)
  BY <1>2 DEF Sound, Stages, Still, Unwritten, CompletionRunning, SameMet
<1>5. Checks(t)
  BY <1>2 DEF Sound, Checks, GoodOnDisk
<1>6. Live(t)
  BY <1>2 DEF Live
<1>7. Present(s) => Present(t)
  BY <1>2 DEF Present, WholeOnDisk, MetTrue, Unwritten, SameMet
<1>8. Sound(t) /\ Live(t) /\ t.job = s.job /\ (Present(s) => Present(t)) /\ t.volume = s.volume
  BY <1>2, <1>3, <1>4, <1>5, <1>6, <1>7 DEF Sound
<1> QED
  BY <1>8 DEF t

(* What is saved when the object is gone. *)
LEMMA GoneFacts ==
  ASSUME NEW s, Sound(s)
  PROVE  /\ Sound(Fresh(s)) /\ ~Fresh(s).destroying /\ (Present(s) => Present(Fresh(s)))
         /\ s.volume = "ok" => Clean(Fresh(s))
<1>1. s \in FileType /\ (s.met.corrupted # {} => s.met.hashset)
  BY DEF Sound, Stages
<1>2. LET t == Fresh(s)
      IN  Sound(t) /\ ~t.destroying /\ (MetTrue(s) => Present(t)) /\ (s.volume = "ok" => Clean(t))
  BY <1>1, FreshFacts
<1> QED
  BY <1>2 DEF Present

(* The destructor of a cancelled file collects the write in flight. *)
LEMMA CancelEndKeeps ==
  ASSUME IInv, CancelEnd
  PROVE  IInv' /\ JudgedStep
<1> DEFINE no == FALSE
           yes == TRUE
           m == f.mover
           s == [f EXCEPT !.destroying = TRUE, !.mover = m]
<1>1. PICK env \in Environment : f' = Fresh(FinishPendingFlush([f EXCEPT !.destroying = TRUE], no, yes, env))
  BY DEF CancelEnd
<1>2. Sound(f) /\ CanCollect(f) /\ f \in FileType
  BY DEF CancelEnd, IInv, Sound
<1>3. [f EXCEPT !.destroying = TRUE] = s
  BY <1>2 DEF FileType
<1> DEFINE r == FinishPendingFlush(s, no, yes, env)
<1>4. f' = Fresh(r)
  BY <1>1, <1>3
<1>5. Sound(s) /\ Live(s) /\ s.job = f.job /\ (Present(f) => Present(s)) /\ s.volume = f.volume
  <2>1. m = f.mover
    OBVIOUS
  <2> HIDE DEF m
  <2> QED
    BY <1>2, <2>1, DestroyingFacts
<1> HIDE DEF s, no, yes
<1>6. Carries(s, r)
  BY <1>2, <1>5, FinishFacts DEF CanCollect
<1> HIDE DEF r
<1>7. /\ Sound(Fresh(r)) /\ ~Fresh(r).destroying /\ (Present(r) => Present(Fresh(r)))
      /\ r.volume = "ok" => Clean(Fresh(r))
  BY <1>6, GoneFacts DEF Carries, Goes
<1>8. /\ Budgets' /\ app' = "gone" /\ (FirstRun' => FirstRun) /\ faultsLeft' = faultsLeft
  BY DEF CancelEnd, IInv, Budgets, budgets, FirstRun
<1>9. Present(f) => Present(f')
  BY <1>4, <1>5, <1>6, <1>7 DEF Carries, Goes
<1>10. Clean(f) => Clean(f')
  BY <1>4, <1>5, <1>6, <1>7 DEF Carries, Judges, Clean, Calm
<1> QED
  BY <1>4, <1>7, <1>8, <1>9, <1>10, LeaveKeeps

(* Shutting down flushes and saves. *)
LEMMA QuitKeeps ==
  ASSUME IInv, Quit
  PROVE  IInv' /\ JudgedStep
<1> DEFINE no == FALSE
<1>1. PICK env \in Environment :
        f' = IF Status(f) = "Complete" THEN f ELSE SavePartFile(FlushBuffer(f, no, no, env))
  BY DEF Quit
<1>2. Sound(f) /\ Live(f) /\ ~f.destroying /\ CanCollect(f)
  BY UpFacts DEF Quit
<1> HIDE DEF no
<1> DEFINE t == FlushBuffer(f, no, no, env)
<1>3. Carries(f, t)
  BY <1>2, FlushFacts
<1> HIDE DEF t
<1>4. Carries(t, SavePartFile(t))
  BY <1>3, SaveCarries DEF Carries, Goes
<1>5. Carries(f, SavePartFile(t)) /\ Carries(f, f)
  BY <1>2, <1>3, <1>4, CarriesOn, CarriesSelf
<1>6. Carries(f, f')
  <2>1. f' = f \/ f' = SavePartFile(t)
    BY <1>1 DEF t
  <2>2. CASE f' = f
    BY <1>5, <2>2
  <2>3. CASE f' = SavePartFile(t)
    BY <1>5, <2>3
  <2> QED
    BY <2>1, <2>2, <2>3
<1>7. /\ Budgets' /\ app' = "quitting" /\ (FirstRun' => FirstRun) /\ faultsLeft' = faultsLeft
  BY BoundsAssumption DEF Quit, IInv, Budgets, FirstRun
<1>8. Sound(f') /\ Live(f') /\ ~f'.destroying /\ (Present(f) => Present(f'))
  BY <1>2, <1>6 DEF Carries, Goes
<1>9. Clean(f) => Clean(f')
  BY <1>6 DEF Carries, Flows
<1> QED
  BY <1>7, <1>8, <1>9 DEF IInv, JudgedStep

(* The destructor flushes and saves again. *)
LEMMA QuitEndKeeps ==
  ASSUME IInv, QuitEnd
  PROVE  IInv' /\ JudgedStep
<1> DEFINE no == FALSE
           yes == TRUE
           s == [f EXCEPT !.destroying = TRUE, !.mover = "none"]
<1>1. PICK env \in Environment :
        LET t == FlushBuffer(s, no, yes, env)
        IN  f' = Fresh(IF Status(t) = "Complete" THEN t ELSE SavePartFile(t))
  BY DEF QuitEnd
<1>2. Sound(f) /\ CanCollect(f)
  BY DEF QuitEnd, IInv
<1>3. Sound(s) /\ Live(s) /\ s.job = f.job /\ (Present(f) => Present(s)) /\ s.volume = f.volume
  BY <1>2, DestroyingFacts
<1> HIDE DEF s, no, yes
<1> DEFINE t == FlushBuffer(s, no, yes, env)
           r == IF Status(t) = "Complete" THEN t ELSE SavePartFile(t)
<1>4. f' = Fresh(r)
  BY <1>1
<1>5. Carries(s, t)
  BY <1>2, <1>3, FlushFacts DEF CanCollect
<1> HIDE DEF t
<1>6. Carries(t, SavePartFile(t))
  BY <1>5, SaveCarries DEF Carries, Goes
<1>7. Carries(s, r)
  BY <1>5, <1>6, CarriesOn
<1> HIDE DEF r
<1>8. /\ Sound(Fresh(r)) /\ ~Fresh(r).destroying /\ (Present(r) => Present(Fresh(r)))
      /\ r.volume = "ok" => Clean(Fresh(r))
  BY <1>7, GoneFacts DEF Carries, Goes
<1>9. /\ Budgets' /\ app' = "down" /\ (FirstRun' => FirstRun) /\ faultsLeft' = faultsLeft
  BY DEF QuitEnd, IInv, Budgets, budgets, FirstRun
<1>10. Present(f) => Present(f')
  BY <1>3, <1>4, <1>7, <1>8 DEF Carries, Goes
<1>11. Clean(f) => Clean(f')
  BY <1>3, <1>4, <1>7, <1>8 DEF Carries, Judges, Clean, Calm
<1> QED
  BY <1>4, <1>8, <1>9, <1>10, <1>11, LeaveKeeps

(* A crash, inside a write too: the date of the .part.met no longer matches. *)
LEMMA CrashKeeps ==
  ASSUME IInv, Crash
  PROVE  IInv' /\ JudgedStep
<1>1. PICK env \in [at : Unwritten(f) \cup {0}] :
       f' = Fresh(IF CanCollect(f) THEN PartialWrite(f, env)
                  ELSE IF f.job.phase = "writing" /\ env.at \in f.job.todo /\ env.at = Min(f.job.todo)
                  THEN [f EXCEPT !.disk[env.at] = "torn", !.stampOk = FALSE]
                  ELSE f)
  BY DEF Crash
<1> DEFINE disk == [f.disk EXCEPT ![env.at] = "torn"]
           t == [f EXCEPT !.disk = disk, !.stampOk = FALSE]
<1>2. \/ f' = Fresh(PartialWrite(f, env))
      \/ f' = Fresh(t)
      \/ f' = Fresh(f)
  BY <1>1
<1>3. f \in FileType /\ Sound(f) /\ (f.met.corrupted # {} => f.met.hashset)
  BY DEF IInv, Sound, Stages
<1>4. disk \in [Blocks -> Data \cup {"none", "torn"}]
  BY <1>3 DEF FileType
<1> HIDE DEF disk
<1>5. t \in FileType /\ t.met = f.met /\ t.stampOk = FALSE /\ t.volume = f.volume
  BY <1>3, <1>4 DEF FileType
<1> HIDE DEF t
<1>6. LET u == PartialWrite(f, env)
      IN  u \in FileType /\ ~u.stampOk /\ u.met = f.met /\ u.volume = f.volume
  BY <1>3, PartialWriteFacts
<1>7. ASSUME NEW u \in FileType, ~u.stampOk, u.met = f.met, u.volume = f.volume
      PROVE  /\ Sound(Fresh(u)) /\ ~Fresh(u).destroying /\ Present(Fresh(u))
             /\ f.volume = "ok" => Clean(Fresh(u))
  <2>1. LET x == Fresh(u)
        IN  Sound(x) /\ ~x.destroying /\ (MetTrue(u) => Present(x)) /\ (u.volume = "ok" => Clean(x))
    BY <1>3, <1>7, FreshFacts
  <2>2. MetTrue(u)
    BY <1>7 DEF MetTrue
  <2> QED
    BY <1>7, <2>1, <2>2
<1>8. /\ Sound(f') /\ ~f'.destroying /\ (Present(f) => Present(f'))
      /\ f.volume = "ok" => Clean(f')
  <2>1. CASE f' = Fresh(PartialWrite(f, env))
    BY <1>6, <1>7, <2>1
  <2>2. CASE f' = Fresh(t)
    BY <1>5, <1>7, <2>2
  <2>3. CASE f' = Fresh(f)
    BY <1>3, <2>3, GoneFacts
  <2> QED
    BY <1>2, <2>1, <2>2, <2>3
<1>9. /\ Budgets' /\ app' = "down" /\ (FirstRun' => FirstRun) /\ faultsLeft' = faultsLeft
  BY BoundsAssumption DEF Crash, IInv, Budgets, FirstRun
<1>10. Clean(f) => Clean(f')
  BY <1>8 DEF Clean, Calm
<1> QED
  BY <1>8, <1>9, <1>10, LeaveKeeps

(* The program starts and loads what it finds. *)
LEMMA StartKeeps ==
  ASSUME IInv, Start
  PROVE  IInv' /\ JudgedStep
<1>1. f \in FileType /\ Sound(f) /\ (f.met.corrupted # {} => f.met.hashset)
  BY DEF IInv, Sound, Stages
<1>2. /\ Budgets' /\ ~FirstRun' /\ app' \in {"up", "gone"}
      /\ faultsLeft' = faultsLeft /\ crashesLeft' # MaxCrashes
  BY BoundsAssumption DEF Start, IInv, Budgets, budgets, FirstRun
<1>3. faultsLeft' = MaxFaults => f.volume = "ok"
  BY <1>2 DEF IInv, Clean, Calm
<1>4. CASE f' = LoadPartFile(f)
  <2>1. Sound(f') /\ Live(f') /\ ~f'.destroying /\ Unwritten(f') = {}
    BY <1>1, <1>4, LoadFacts
  <2>2. f.volume = "ok" => Clean(f')
    BY <1>1, <1>4, LoadFacts
  <2>3. IInv'
    BY <1>2, <1>3, <2>1, <2>2 DEF IInv
  <2> QED
    BY <2>1, <2>3 DEF JudgedStep, Turns
<1>5. CASE f' = Fresh(f) /\ app' = "gone"
  <2>1. Sound(f') /\ ~f'.destroying /\ (f.volume = "ok" => Clean(f'))
    BY <1>1, <1>5, GoneFacts
  <2> QED
    BY <1>2, <1>3, <1>5, <2>1 DEF IInv, JudgedStep
<1> QED
  BY <1>4, <1>5 DEF Start

-----------------------------------------------------------------------------
(* The volume fails or recovers. *)
LEMMA VolumeKeeps ==
  ASSUME IInv, VolumeRecovers \/ \E v \in VolumeStates : VolumeFails(v)
  PROVE  IInv' /\ JudgedStep
<1>1. PICK v \in VolumeStates : f' = [f EXCEPT !.volume = v]
  BY DEF VolumeRecovers, VolumeFails, VolumeStates
<1> DEFINE t == [f EXCEPT !.volume = v]
<1>2. Sound(f) /\ f \in FileType
  BY DEF IInv, Sound
<1>3. f' = t /\ t \in FileType /\ SameDownload(f, t) /\ SameMet(f, t)
  BY <1>1, <1>2 DEF FileType, SameDownload, SameMet
<1> HIDE DEF t
<1>4. /\ Sound(t) /\ (Live(f) => Live(t)) /\ (Present(f) => Present(t))
      /\ t.destroying = f.destroying
  BY <1>2, <1>3, OutsideFacts
<1>5. /\ Budgets' /\ app' = app /\ crashesLeft' = crashesLeft
      /\ VolumeRecovers \/ (faultsLeft' # MaxFaults)
  BY BoundsAssumption DEF VolumeRecovers, VolumeFails, IInv, Budgets, budgets
<1>6. ASSUME VolumeRecovers
      PROVE  faultsLeft' = faultsLeft /\ ~Clean(f)
  BY <1>6 DEF VolumeRecovers, budgets, Clean, Calm
<1>7. Turns(f, t)
  BY <1>3 DEF Turns, SameDownload
<1> QED
  BY <1>3, <1>4, <1>5, <1>6, <1>7, StepKeeps DEF Flows

(* A block goes bad on disk before the final check. *)
LEMMA DamageKeeps ==
  ASSUME IInv, NEW b \in Blocks, Damage(b)
  PROVE  IInv' /\ JudgedStep
<1> DEFINE disk == [f.disk EXCEPT ![b] = "bad"]
           t == [f EXCEPT !.disk = disk, !.stampOk = FALSE]
<1>1. f' = t /\ f.mover = "verify"
  BY DEF Damage
<1>2. Sound(f) /\ f \in FileType
  BY DEF IInv, Sound
<1>3. disk \in [Blocks -> Data \cup {"none", "torn"}] /\ disk[b] \in Data
      /\ \A c \in Blocks : c # b => disk[c] = f.disk[c]
  BY <1>2 DEF FileType, Data
<1> HIDE DEF disk
<1>4. /\ t \in FileType /\ t.met = f.met /\ t.stampOk = FALSE /\ t.disk = disk
      /\ t.gaps = f.gaps /\ t.buffered = f.buffered /\ t.flushing = f.flushing
      /\ t.job = f.job /\ t.hashset = f.hashset /\ t.destroying = f.destroying
      /\ t.statusBeforeWriteError = f.statusBeforeWriteError
      /\ t.status = f.status /\ t.changed = f.changed /\ t.corrupted = f.corrupted
      /\ t.awaiting = f.awaiting /\ t.asked = f.asked /\ t.completionError = f.completionError
      /\ t.mover = f.mover /\ t.partOk = f.partOk /\ t.checked = f.checked
  BY <1>2, <1>3 DEF FileType
<1> HIDE DEF t
<1>5. Still(f) /\ f.partOk = NoDigests /\ f.status # "Complete"
  BY <1>1, <1>2 DEF Sound, Stages, CompletionRunning
<1>6. JobOK(t)
  BY <1>2, <1>4, <1>5 DEF Sound, JobOK, Still
<1>7. Stages(t)
  BY <1>2, <1>4 DEF Sound, Stages, Still, Unwritten, CompletionRunning
<1>8. Checks(t)
  BY <1>1, <1>4, <1>5, NoJobFacts, BlocksAssumption DEF Checks, GoodOnDisk
<1>9. Live(f) => Live(t)
  BY <1>4 DEF Live, CompletionRunning
<1>10. Present(f) => Present(t)
  BY <1>3, <1>4 DEF Present, WholeOnDisk, MetTrue, Unwritten
<1>11. Budgets' /\ app' = app /\ crashesLeft' = crashesLeft /\ faultsLeft' # MaxFaults
  BY BoundsAssumption DEF Damage, IInv, Budgets
<1>12. Turns(f, t)
  BY <1>4 DEF Turns
<1> QED
  BY <1>1, <1>4, <1>6, <1>7, <1>8, <1>9, <1>10, <1>11, <1>12, StepKeeps DEF Sound

-----------------------------------------------------------------------------
(* A new download satisfies the invariant. *)
LEMMA InitKeeps ==
  ASSUME Init
  PROVE  IInv
<1>1. PICK h \in BOOLEAN : f = NewFile(h)
  BY DEF Init
<1>2. /\ f \in FileType /\ f.gaps = Blocks /\ f.met.gaps = Blocks /\ f.met.corrupted = {}
      /\ f.changed = {} /\ f.corrupted = {} /\ f.awaiting = {}
      /\ f.asked = {} /\ f.status = "Empty" /\ f.statusBeforeWriteError = "none"
      /\ f.destroying = FALSE /\ f.completionError = FALSE /\ f.mover = "none"
      /\ f.buffered = Nothing /\ f.flushing = Nothing /\ f.job = NoJob /\ f.partOk = NoDigests
      /\ f.volume = "ok"
  BY <1>1, NewFileFacts
<1>3. Open(f) /\ JobOK(f)
  BY <1>2, NoJobFacts DEF Open, CompletionRunning, JobOK
<1>4. Sound(f) /\ Live(f)
  BY <1>2, <1>3, OpenIsSound
<1>5. Present(f)
  BY <1>2 DEF Present, WholeOnDisk, MetTrue
<1>6. Budgets /\ app = "up"
  BY BoundsAssumption DEF Init, Budgets
<1>7. Clean(f)
  BY <1>2, NoJobFacts DEF Clean, Calm, FlagsWait, Unwritten, NoDigests
<1>8. Flagged(f)
  BY <1>2 DEF Flagged, IsCompleteBDSafe, Good, BlocksOf
<1> QED
  BY <1>2, <1>4, <1>5, <1>6, <1>7, <1>8 DEF IInv

(* Every step keeps the invariant. *)
LEMMA NextKeeps ==
  ASSUME IInv, [Next]_vars
  PROVE  IInv' /\ JudgedStep
<1>1. CASE UNCHANGED vars
  <2>1. UNCHANGED <<app, budgets>> /\ f' = f
    BY <1>1 DEF vars, budgets
  <2>2. Flows(f, f) /\ Turns(f, f)
    BY DEF Flows, Turns
  <2> QED
    BY <2>1, <2>2, StepKeeps, SameBudgets DEF IInv
<1>2. CASE User
  BY <1>2, PauseKeeps, ResumeKeeps, StopKeeps, CancelKeeps, StartImportKeeps, FlushKeeps,
     EndImportKeeps DEF User
<1>3. CASE Network
  BY <1>3, ReceiveKeeps, ReceiveHashsetKeeps, ReceiveRecoveryDataKeeps DEF Network
<1>4. CASE Timers
  BY <1>4, ProcessKeeps, CheckDiskspaceKeeps, ImportPartKeeps DEF Timers
<1>5. CASE Signals
  BY <1>5, OnJobDoneKeeps, OnPartFileRehashedKeeps, OnVerifyFailedKeeps, OnMoveFinishedKeeps
     DEF Signals
<1>6. CASE Threads
  BY <1>6, WorkerOpenKeeps, WorkerWriteKeeps, WorkerWriteFailsKeeps, WorkerDigestKeeps,
     RehashReadKeeps, MoverVerifyKeeps, MoverMoveKeeps DEF Threads
<1>7. CASE Lifecycle
  BY <1>7, CancelEndKeeps, QuitKeeps, QuitEndKeeps, CrashKeeps, StartKeeps DEF Lifecycle
<1>8. CASE Volume
  BY <1>8, VolumeKeeps, DamageKeeps DEF Volume
<1>9. CASE Over
  BY <1>1, <1>9 DEF Over
<1> QED
  BY <1>1, <1>2, <1>3, <1>4, <1>5, <1>6, <1>7, <1>8, <1>9 DEF Next

(* The invariant holds throughout, and every step judges what is on disk. *)
LEMMA Invariance == Spec => []IInv /\ [][JudgedStep]_vars
BY InitKeeps, NextKeeps, PTL DEF Spec

(***************************************************************************)
(* Whatever sources send, however the volume fails and whenever the        *)
(* program dies: the record keeps its types (TypeOK); completeFile() is    *)
(* reached with nothing missing, nothing buffered and no write out, and a  *)
(* checked file is delivered with every block good (CompletesWhole); an    *)
(* error is one that resumeFile() can retry (ErrorIsResumable).            *)
(***************************************************************************)
THEOREM Safety == Spec => [](TypeOK /\ CompletesWhole /\ ErrorIsResumable)
<1>1. IInv => TypeOK
  <2>1. ASSUME NEW s \in FileType PROVE FileOK(s)
    BY DEF FileType, FileOK
  <2> QED
    BY <2>1 DEF IInv, Sound, TypeOK, Budgets
<1>2. IInv => CompletesWhole
  BY DEF IInv, Sound, Stages, Still, Checks, CompletesWhole, CompletingIsWritten, Delivered
<1>3. IInv => ErrorIsResumable
  BY DEF IInv, Sound, Stages, Live, ErrorIsResumable
<1> QED
  BY <1>1, <1>2, <1>3, Invariance, PTL

(***************************************************************************)
(* Until the program is started again, what the gap list calls present is  *)
(* whole on disk unless it is in memory or with the worker (ServeSafe),    *)
(* and at every moment, the moment of a crash included, so is what the     *)
(* .part.met calls present, or its date gives it away (MetSafe).           *)
(***************************************************************************)
THEOREM FirstRunSafety == Spec => [](FirstRun => ServeSafe /\ MetSafe)
<1>1. IInv => (FirstRun => ServeSafe /\ MetSafe)
  <2> SUFFICES ASSUME IInv, FirstRun PROVE ServeSafe /\ MetSafe
    OBVIOUS
  <2>1. WholeOnDisk(f) /\ MetTrue(f)
    BY DEF IInv, Present
  <2> QED
    BY <2>1 DEF WholeOnDisk, MetTrue, ServeSafe, MetSafe
<1> QED
  BY <1>1, Invariance, PTL

(***************************************************************************)
(* As long as the volume has not failed, whatever sources send, whenever   *)
(* the hashset comes and however often the program dies: a digest the      *)
(* worker took is still true of the part when the main thread reads it,    *)
(* and, until the program is started again, a complete part is flagged or  *)
(* good (applyFlushResult, verifyChangedParts, hashsetReceived).           *)
(***************************************************************************)
THEOREM VerdictsOnSoundVolume == Spec => [](faultsLeft = MaxFaults => VerdictsAreTrue)
<1>1. ASSUME IInv, faultsLeft = MaxFaults
      PROVE  DigestFresh
  <2> SUFFICES ASSUME f.job.phase = "done", f.job.written, NEW p \in Parts,
                      f.job.digests[p] \in {"Ok", "Bad"}
               PROVE  f.job.digests[p] = "Ok" <=> \A b \in BlocksOf(p) : f.disk[b] = "good"
    BY DEF DigestFresh
  <2>1. f.job.digests[p] = "Bad" => ~Good(f, p)
    BY <1>1 DEF IInv, Clean, Calm, DigestsHold
  <2>2. f.job.digests[p] = "Ok" => Good(f, p)
    BY <1>1 DEF IInv, Sound, JobOK, GoodOnDisk, Good, BlocksOf
  <2> QED
    BY <2>1, <2>2 DEF Good
<1>2. ASSUME IInv, faultsLeft = MaxFaults
      PROVE  UnverifiedFlagged
  <2> SUFFICES ASSUME Downloading, crashesLeft = MaxCrashes, f.hashset, NEW p \in Parts,
                      IsCompleteBDSafe(f, BlocksOf(p)), p \notin f.changed
               PROVE  Good(f, p)
    BY DEF UnverifiedFlagged, Reloaded, Good
  <2>1. Clean(f) /\ Flagged(f)
    BY <1>2 DEF IInv, Downloading
  <2>2. Transferring(f)
    BY <2>1 DEF Clean, Calm, Downloading, Transferring
  <2> QED
    BY <2>1, <2>2 DEF Flagged
<1>3. IInv => (faultsLeft = MaxFaults => VerdictsAreTrue)
  BY <1>1, <1>2 DEF VerdictsAreTrue
<1> QED
  BY <1>3, Invariance, PTL

(***************************************************************************)
(* Whatever else the volume, the sources and crashes do: on a volume that  *)
(* takes writes, a part that becomes a gap has none of its blocks in       *)
(* memory or with the worker, whichever flush, result of the worker,       *)
(* hashset or recovery data judges it (flushBuffer, applyFlushResult,      *)
(* hashsetReceived, aichRecoveryDataAvailable).                            *)
(***************************************************************************)
THEOREM PartsAreJudgedOnDisk == Spec => JudgedWhenWritable
<1> DEFINE Judged == \A b \in f'.gaps \ f.gaps :
                       f.volume \in {"ok", "unreadable"} /\ app' = "up"
                         => BlocksOf(PartOf[b]) \cap Unwritten(f') = {}
<1>1. JudgedStep => Judged
  BY DEF JudgedStep, Turns, Writable
<1>2. [JudgedStep]_vars => [Judged]_vars
  BY <1>1
<1>3. JudgedWhenWritable <=> [][Judged]_vars
  BY PTL DEF JudgedWhenWritable
<1> QED
  BY <1>2, <1>3, Invariance, PTL
=============================================================================

------------------- MODULE UploadBandwidthThrottler_proofs -------------------
(***************************************************************************)
(* Proofs about the send loop of the upload side: no wake-up is lost, no   *)
(* datagram loses its place in the queues and no list the loop walks holds *)
(* a deleted socket, for any number of sockets and any budgets.            *)
(***************************************************************************)
EXTENDS UploadBandwidthThrottler, InductionLemmas

Flags == m_run \in BOOLEAN /\ m_dataAvailable \in BOOLEAN /\ m_socketAvailable \in BOOLEAN
         /\ recentlySentData \in BOOLEAN

Queues ==
  /\ m_standardOrder \in Seq(FileSockets) /\ IsInjective(m_standardOrder)
  /\ m_controlQueue \in Seq(ControlSockets) /\ m_tempControlQueue \in Seq(ControlSockets)

Types ==
  /\ alive \subseteq Sockets /\ blocked \subseteq Sockets
  /\ queued \in [Sockets -> 0..MaxQueued]
  /\ main \in {"loop", "queue", "signal", "socketAvailable", "notify", "endNotify", "join"}
  /\ arg \in Sockets \cup {NoSocket}
  /\ loop \in {"top", "scan", "predicate", "waiting", "check", "control", "slots", "ended"}
  /\ waitFor \in {"none", "data", "anything", "socket"}
  /\ budget \in Nat /\ spent \in Nat /\ rememberedSlotCounter \in Nat /\ surplusStart \in Nat

(* The loop has nothing to do. *)
Quiet ==
  /\ ToSet(m_standardOrder) = {} /\ ToSet(m_controlQueue) = {} /\ ToSet(m_tempControlQueue) = {}
  /\ \A u \in ControlSockets : queued[u] = 0

(***************************************************************************)
(* Where the two threads can be together.  While the loop is being ended   *)
(* the main thread waits for it, so no socket is deleted meanwhile; a      *)
(* datagram counted but without an entry belongs to a live socket; a wait  *)
(* that was entered for want of any work is ended by a notification that   *)
(* is still to come, or there is still no work.                            *)
(***************************************************************************)
Waits ==
  /\ ~m_run /\ loop # "ended" => main \in {"endNotify", "join"}
  /\ main = "queue" => arg \in ControlSockets \cap alive
  /\ loop = "waiting" => m_run \/ main = "endNotify"
  /\ loop = "waiting" /\ waitFor = "anything" /\ m_dataAvailable => main = "notify"
  /\ (loop \in {"predicate", "waiting"} /\ waitFor = "anything" /\ m_run)
       => Quiet \/ m_dataAvailable \/ main \in {"queue", "signal"}

IInv == Flags /\ Queues /\ Types /\ OnlyLiveSockets /\ QueuedHasEntry /\ Waits

-----------------------------------------------------------------------------

(* m_wakeCV.notify_all() keeps the invariant. *)
LEMMA NotifyKeeps ==
  ASSUME IInv, notify
  PROVE  IInv'
<1> USE DEF notify, wakeVars, listVars, socketVars, mainVars, spendVars, turnVars, loopVars
<1>1. Flags'
  BY DEF IInv, Flags
<1>2. Queues'
  BY DEF IInv, Queues
<1>3. Types'
  BY DEF IInv, Types
<1>4. OnlyLiveSockets'
  BY DEF IInv, OnlyLiveSockets
<1>5. QueuedHasEntry'
  BY DEF IInv, QueuedHasEntry
<1>6. Waits'
  BY DEF IInv, Flags, Types, Waits, Quiet
<1> QED
  BY <1>1, <1>2, <1>3, <1>4, <1>5, <1>6 DEF IInv

(* The flag is set before the notification is given. *)
LEMMA SignalKeeps ==
  ASSUME IInv, signalWorkAvailable
  PROVE  IInv'
<1> USE DEF signalWorkAvailable, wakeVars, listVars, socketVars, mainVars, spendVars, turnVars, loopVars
<1>1. Flags'
  BY DEF IInv, Flags
<1>2. Queues'
  BY DEF IInv, Queues
<1>3. Types'
  BY DEF IInv, Types
<1>4. OnlyLiveSockets'
  BY DEF IInv, OnlyLiveSockets
<1>5. QueuedHasEntry'
  BY DEF IInv, QueuedHasEntry
<1>6. Waits'
  BY DEF IInv, Flags, Types, Waits, Quiet
<1> QED
  BY <1>1, <1>2, <1>3, <1>4, <1>5, <1>6 DEF IInv

(* A socket that turned available. *)
LEMMA SocketAvailableKeeps ==
  ASSUME IInv, socketAvailable
  PROVE  IInv'
<1> USE DEF socketAvailable, wakeVars, listVars, socketVars, mainVars, spendVars, turnVars, loopVars
<1>1. Flags'
  BY DEF IInv, Flags
<1>2. Queues'
  BY DEF IInv, Queues
<1>3. Types'
  BY DEF IInv, Types
<1>4. OnlyLiveSockets'
  BY DEF IInv, OnlyLiveSockets
<1>5. QueuedHasEntry'
  BY DEF IInv, QueuedHasEntry
<1>6. Waits'
  BY DEF IInv, Flags, Types, Waits, Quiet
<1> QED
  BY <1>1, <1>2, <1>3, <1>4, <1>5, <1>6 DEF IInv

(* The order to end. *)
LEMMA EndThreadKeeps ==
  ASSUME IInv, endThread
  PROVE  IInv'
<1> USE DEF endThread, wakeVars, listVars, socketVars, mainVars, spendVars, turnVars, loopVars
<1>1. Flags'
  BY DEF IInv, Flags
<1>2. Queues'
  BY DEF IInv, Queues
<1>3. Types'
  BY DEF IInv, Types
<1>4. OnlyLiveSockets'
  BY DEF IInv, OnlyLiveSockets
<1>5. QueuedHasEntry'
  BY DEF IInv, QueuedHasEntry
<1>6. Waits'
  BY DEF IInv, Flags, Types, Waits, Quiet
<1> QED
  BY <1>1, <1>2, <1>3, <1>4, <1>5, <1>6 DEF IInv

(* The main thread goes on once the loop has ended. *)
LEMMA JoinedKeeps ==
  ASSUME IInv, endThreadJoined
  PROVE  IInv'
<1> USE DEF endThreadJoined, wakeVars, listVars, socketVars, mainVars, spendVars, turnVars, loopVars
<1>1. Flags'
  BY DEF IInv, Flags
<1>2. Queues'
  BY DEF IInv, Queues
<1>3. Types'
  BY DEF IInv, Types
<1>4. OnlyLiveSockets'
  BY DEF IInv, OnlyLiveSockets
<1>5. QueuedHasEntry'
  BY DEF IInv, QueuedHasEntry
<1>6. Waits'
  BY DEF IInv, Flags, Types, Waits, Quiet
<1> QED
  BY <1>1, <1>2, <1>3, <1>4, <1>5, <1>6 DEF IInv

(* The flags are cleared before the queues are looked at. *)
LEMMA ResetKeeps ==
  ASSUME IInv, runReset
  PROVE  IInv'
<1> USE DEF runReset, wakeVars, listVars, socketVars, mainVars, spendVars, turnVars, loopVars
<1>1. Flags'
  BY DEF IInv, Flags
<1>2. Queues'
  BY DEF IInv, Queues
<1>3. Types'
  BY DEF IInv, Types
<1>4. OnlyLiveSockets'
  BY DEF IInv, OnlyLiveSockets
<1>5. QueuedHasEntry'
  BY DEF IInv, QueuedHasEntry
<1>6. Waits'
  BY DEF IInv, Flags, Types, Waits, Quiet
<1> QED
  BY <1>1, <1>2, <1>3, <1>4, <1>5, <1>6 DEF IInv

(* The loop blocks only when its predicate is false. *)
LEMMA PredicateKeeps ==
  ASSUME IInv, runPredicate
  PROVE  IInv'
<1> USE DEF runPredicate, wakeVars, listVars, socketVars, mainVars, spendVars, turnVars, loopVars
<1>1. Flags'
  BY DEF IInv, Flags
<1>2. Queues'
  BY DEF IInv, Queues
<1>3. Types'
  BY DEF IInv, Types
<1>4. OnlyLiveSockets'
  BY DEF IInv, OnlyLiveSockets
<1>5. QueuedHasEntry'
  BY DEF IInv, QueuedHasEntry
<1>6. Waits'
  BY DEF IInv, Flags, Types, Waits, Quiet
<1> QED
  BY <1>1, <1>2, <1>3, <1>4, <1>5, <1>6 DEF IInv

(* A wait that times out. *)
LEMMA TimeoutKeeps ==
  ASSUME IInv, runTimeout
  PROVE  IInv'
<1> USE DEF runTimeout, wakeVars, listVars, socketVars, mainVars, spendVars, turnVars, loopVars
<1>1. Flags'
  BY DEF IInv, Flags
<1>2. Queues'
  BY DEF IInv, Queues
<1>3. Types'
  BY DEF IInv, Types
<1>4. OnlyLiveSockets'
  BY DEF IInv, OnlyLiveSockets
<1>5. QueuedHasEntry'
  BY DEF IInv, QueuedHasEntry
<1>6. Waits'
  BY DEF IInv, Flags, Types, Waits, Quiet
<1> QED
  BY <1>1, <1>2, <1>3, <1>4, <1>5, <1>6 DEF IInv

(* Nothing may be spent. *)
LEMMA NoBudgetKeeps ==
  ASSUME IInv, runNoBudget
  PROVE  IInv'
<1> USE DEF runNoBudget, wakeVars, listVars, socketVars, mainVars, spendVars, turnVars, loopVars
<1>1. Flags'
  BY DEF IInv, Flags
<1>2. Queues'
  BY DEF IInv, Queues
<1>3. Types'
  BY DEF IInv, Types
<1>4. OnlyLiveSockets'
  BY DEF IInv, OnlyLiveSockets
<1>5. QueuedHasEntry'
  BY DEF IInv, QueuedHasEntry
<1>6. Waits'
  BY DEF IInv, Flags, Types, Waits, Quiet
<1> QED
  BY <1>1, <1>2, <1>3, <1>4, <1>5, <1>6 DEF IInv

(* The control pass is over. *)
LEMMA ControlDoneKeeps ==
  ASSUME IInv, runControlDone
  PROVE  IInv'
<1> USE DEF runControlDone, wakeVars, listVars, socketVars, mainVars, spendVars, turnVars, loopVars
<1>1. Flags'
  BY DEF IInv, Flags
<1>2. Queues'
  BY DEF IInv, Queues
<1>3. Types'
  BY DEF IInv, Types
<1>4. OnlyLiveSockets'
  BY DEF IInv, OnlyLiveSockets
<1>5. QueuedHasEntry'
  BY DEF IInv, QueuedHasEntry
<1>6. Waits'
  BY DEF IInv, Flags, Types, Waits, Quiet
<1> QED
  BY <1>1, <1>2, <1>3, <1>4, <1>5, <1>6 DEF IInv

(* The scan. *)
LEMMA ScanKeeps ==
  ASSUME IInv, runScan
  PROVE  IInv'
<1> USE DEF runScan, wakeVars, listVars, socketVars, mainVars, spendVars, turnVars, loopVars
<1>1. Flags'
  BY DEF IInv, Flags
<1>2. Queues'
  BY DEF IInv, Queues
<1>0. WaitFor \in {"none", "data", "anything", "socket"} /\ (WaitFor = "anything" => NothingToDo)
  <2> HIDE DEF runScan
  <2> QED
    BY DEF WaitFor
<1>3. Types'
  <2> HIDE DEF runScan
  <2>1. waitFor' \in {"none", WaitFor} /\ loop' \in {"check", "predicate"}
    BY DEF runScan
  <2> QED
    BY <1>0, <2>1 DEF IInv, Types, runScan
<1>4. OnlyLiveSockets'
  BY DEF IInv, OnlyLiveSockets
<1>5. QueuedHasEntry'
  BY DEF IInv, QueuedHasEntry
<1>6. Waits'
  <2>1. CASE loop' = "check"
    BY <2>1 DEF IInv, Flags, Types, Waits, Quiet
  <2>2. CASE WaitFor # "none" /\ loop' = "predicate" /\ waitFor' = WaitFor
    <3>1. ASSUME m_run, WaitFor = "anything", main # "queue" PROVE Quiet'
      <4>1. m_standardOrder = << >> /\ m_controlQueue = << >> /\ m_tempControlQueue = << >>
        BY <1>0, <3>1 DEF NothingToDo
      <4>2. ToSet(m_standardOrder) = {} /\ ToSet(m_controlQueue) = {} /\ ToSet(m_tempControlQueue) = {}
        BY <4>1, ToSetIs DEF IInv, Queues
      <4>3. ASSUME NEW u \in ControlSockets PROVE queued[u] = 0
        <5>1. ~(queued[u] > 0)
          BY <3>1, <4>2 DEF IInv, QueuedHasEntry
        <5>2. queued[u] \in 0..MaxQueued
          BY DEF IInv, Types, Sockets
        <5> QED
          BY <5>1, <5>2, BoundsAssumption
      <4> QED
        BY <4>2, <4>3 DEF Quiet
    <3> QED
      BY <2>2, <3>1 DEF IInv, Flags, Types, Waits
  <2> QED
    BY <2>1, <2>2
<1> QED
  BY <1>1, <1>2, <1>3, <1>4, <1>5, <1>6 DEF IInv

(* A slot's socket turns available. *)
LEMMA OnBytesWrittenKeeps ==
  ASSUME IInv, NEW s \in FileSockets, onBytesWritten(s)
  PROVE  IInv'
<1> USE DEF onBytesWritten, wakeVars, listVars, socketVars, mainVars, spendVars, turnVars, loopVars
<1>1. Flags'
  BY DEF IInv, Flags
<1>2. Queues'
  BY DEF IInv, Queues
<1>3. Types'
  BY DEF IInv, Types
<1>4. OnlyLiveSockets'
  BY DEF IInv, OnlyLiveSockets
<1>5. QueuedHasEntry'
  BY DEF IInv, QueuedHasEntry
<1>6. Waits'
  BY DEF IInv, Flags, Types, Waits, Quiet
<1> QED
  BY <1>1, <1>2, <1>3, <1>4, <1>5, <1>6 DEF IInv

(* The kernel takes datagrams again. *)
LEMMA KernelDrainsKeeps ==
  ASSUME IInv, NEW u \in ServerUDP, KernelDrains(u)
  PROVE  IInv'
<1> USE DEF KernelDrains, wakeVars, listVars, socketVars, mainVars, spendVars, turnVars, loopVars
<1>1. Flags'
  BY DEF IInv, Flags
<1>2. Queues'
  BY DEF IInv, Queues
<1>3. Types'
  BY DEF IInv, Types
<1>4. OnlyLiveSockets'
  BY DEF IInv, OnlyLiveSockets
<1>5. QueuedHasEntry'
  BY DEF IInv, QueuedHasEntry
<1>6. Waits'
  BY DEF IInv, Flags, Types, Waits, Quiet
<1> QED
  BY <1>1, <1>2, <1>3, <1>4, <1>5, <1>6 DEF IInv

(* A datagram is counted before it has an entry. *)
LEMMA EnqueueKeeps ==
  ASSUME IInv, NEW u \in ControlSockets, enqueue(u)
  PROVE  IInv'
<1> USE DEF enqueue, wakeVars, listVars, socketVars, mainVars, spendVars, turnVars, loopVars
<1>1. Flags'
  BY DEF IInv, Flags
<1>2. Queues'
  BY DEF IInv, Queues
<1>0. u \in Sockets
  BY DEF Sockets
<1>3. Types'
  <2>1. PICK kept \in IF u \in ClientUDP THEN 0..queued[u] ELSE {queued[u]} :
          kept < MaxQueued /\ queued' = [queued EXCEPT ![u] = kept + 1]
    OBVIOUS
  <2>2. queued \in [Sockets -> 0..MaxQueued] /\ queued[u] \in 0..MaxQueued
    BY <1>0 DEF IInv, Types
  <2>3. kept + 1 \in 0..MaxQueued
    BY <2>1, <2>2, BoundsAssumption
  <2>4. queued' \in [Sockets -> 0..MaxQueued]
    BY <2>1, <2>2, <2>3
  <2> QED
    BY <1>0, <2>4 DEF IInv, Types
<1>4. OnlyLiveSockets'
  BY DEF IInv, OnlyLiveSockets
<1>5. QueuedHasEntry'
  BY DEF IInv, QueuedHasEntry
<1>6. Waits'
  BY DEF IInv, Flags, Types, Waits, Quiet
<1> QED
  BY <1>1, <1>2, <1>3, <1>4, <1>5, <1>6 DEF IInv

(* A slot's socket gets file data. *)
LEMMA SendPacketKeeps ==
  ASSUME IInv, NEW s \in FileSockets, sendPacket(s)
  PROVE  IInv'
<1> USE DEF sendPacket, wakeVars, listVars, socketVars, mainVars, spendVars, turnVars, loopVars
<1>1. Flags'
  BY DEF IInv, Flags
<1>2. Queues'
  BY DEF IInv, Queues
<1>0. s \in Sockets /\ s \notin ControlSockets
  BY SocketsAssumption DEF Sockets
<1>3. Types'
  <2>1. queued \in [Sockets -> 0..MaxQueued] /\ queued[s] \in 0..MaxQueued
    BY <1>0 DEF IInv, Types
  <2>2. queued[s] + 1 \in 0..MaxQueued
    BY <2>1, BoundsAssumption
  <2>3. queued' \in [Sockets -> 0..MaxQueued]
    BY <2>1, <2>2
  <2> QED
    BY <1>0, <2>3 DEF IInv, Types
<1>4. OnlyLiveSockets'
  BY DEF IInv, OnlyLiveSockets
<1>5. QueuedHasEntry'
  <2>1. \A u \in ControlSockets : queued'[u] = queued[u]
    BY <1>0 DEF IInv, Types
  <2> QED
    BY <2>1 DEF IInv, QueuedHasEntry
<1>6. Waits'
  BY DEF IInv, Flags, Types, Waits, Quiet
<1> QED
  BY <1>1, <1>2, <1>3, <1>4, <1>5, <1>6 DEF IInv

(* A list without the entries of a socket. *)
LEMMA WithoutFacts ==
  ASSUME NEW X, X \subseteq Sockets, NEW list \in Seq(X), NEW s
  PROVE  /\ Without(list, s) \in Seq(X) /\ ToSet(Without(list, s)) = ToSet(list) \ {s}
         /\ IsInjective(list) => IsInjective(Without(list, s))
<1>1. /\ Without(list, s) \in Seq(X) /\ ToSet(Without(list, s)) = ToSet(list) \cap (Sockets \ {s})
      /\ IsInjective(list) => IsInjective(Without(list, s))
  BY ToSetKept DEF Without
<1>2. ToSet(list) \subseteq Sockets
  BY ToSetIs
<1> QED
  BY <1>1, <1>2

(* The entry is made for a live socket while the loop runs, and dropped otherwise. *)
LEMMA QueueForSendingKeeps ==
  ASSUME IInv, queueForSendingControlPacket
  PROVE  IInv'
<1> USE DEF queueForSendingControlPacket, wakeVars, listVars, socketVars, mainVars, spendVars, turnVars, loopVars
<1>1. arg \in ControlSockets \cap alive
  BY DEF IInv, Waits
<1>2. CASE m_run
  <2>0. m_tempControlQueue' = Append(m_tempControlQueue, arg) /\ main' = "signal"
    BY <1>2
  <2>1. /\ m_tempControlQueue' \in Seq(ControlSockets)
        /\ ToSet(m_tempControlQueue') = ToSet(m_tempControlQueue) \cup {arg}
    BY <1>1, <2>0, ToSetAppend DEF IInv, Queues
  <2>2. Flags'
    BY DEF IInv, Flags
  <2>3. Queues'
    BY <2>1 DEF IInv, Queues
  <2>4. Types'
    BY <2>0 DEF IInv, Types
  <2>5. OnlyLiveSockets'
    BY <1>1, <2>1 DEF IInv, OnlyLiveSockets
  <2>6. QueuedHasEntry'
    BY <2>1 DEF IInv, QueuedHasEntry
  <2>7. Waits'
    BY <1>2, <2>0 DEF IInv, Flags, Types, Waits
  <2> QED
    BY <2>2, <2>3, <2>4, <2>5, <2>6, <2>7 DEF IInv
<1>3. CASE ~m_run
  <2>2. Flags'
    BY DEF IInv, Flags
  <2>3. Queues'
    BY <1>3 DEF IInv, Queues
  <2>4. Types'
    BY <1>3 DEF IInv, Types
  <2>5. OnlyLiveSockets'
    BY <1>3 DEF IInv, OnlyLiveSockets
  <2>6. QueuedHasEntry'
    BY <1>3 DEF IInv, QueuedHasEntry
  <2>7. Waits'
    BY <1>3 DEF IInv, Flags, Types, Waits
  <2> QED
    BY <2>2, <2>3, <2>4, <2>5, <2>6, <2>7 DEF IInv
<1> QED
  BY <1>2, <1>3

(* A socket joins the slots, or changes its place. *)
LEMMA AddToStandardListKeeps ==
  ASSUME IInv, NEW s \in FileSockets, addToStandardList(s)
  PROVE  IInv'
<1> USE DEF addToStandardList, wakeVars, listVars, socketVars, mainVars, spendVars, turnVars, loopVars
<1> DEFINE w == Without(m_standardOrder, s)
<1>1. w \in Seq(FileSockets) /\ ToSet(w) = ToSet(m_standardOrder) \ {s} /\ IsInjective(w)
  BY WithoutFacts DEF IInv, Queues, Sockets
<1>2. PICK index \in 0..Len(w) : m_standardOrder' = InsertAt(w, index + 1, s)
  OBVIOUS
<1> HIDE DEF w
<1>3. /\ m_standardOrder' \in Seq(FileSockets) /\ IsInjective(m_standardOrder')
      /\ ToSet(m_standardOrder') = ToSet(m_standardOrder) \cup {s}
  BY <1>1, <1>2, InsertAtFacts
<1>4. Flags'
  BY DEF IInv, Flags
<1>5. Queues'
  BY <1>3 DEF IInv, Queues
<1>6. Types'
  BY DEF IInv, Types
<1>7. OnlyLiveSockets'
  BY <1>3 DEF IInv, OnlyLiveSockets
<1>8. QueuedHasEntry'
  BY DEF IInv, QueuedHasEntry
<1>9. Waits'
  BY DEF IInv, Flags, Types, Waits
<1> QED
  BY <1>4, <1>5, <1>6, <1>7, <1>8, <1>9 DEF IInv

(* A slot leaves the list. *)
LEMMA RemoveFromStandardListKeeps ==
  ASSUME IInv, NEW s \in FileSockets, removeFromStandardList(s)
  PROVE  IInv'
<1> USE DEF removeFromStandardList, wakeVars, listVars, socketVars, mainVars, spendVars, turnVars, loopVars
<1>3. /\ m_standardOrder' \in Seq(FileSockets) /\ IsInjective(m_standardOrder')
      /\ ToSet(m_standardOrder') = ToSet(m_standardOrder) \ {s}
  BY WithoutFacts DEF IInv, Queues, Sockets
<1>4. Flags'
  BY DEF IInv, Flags
<1>5. Queues'
  BY <1>3 DEF IInv, Queues
<1>6. Types'
  BY DEF IInv, Types
<1>7. OnlyLiveSockets'
  BY <1>3 DEF IInv, OnlyLiveSockets
<1>8. QueuedHasEntry'
  BY DEF IInv, QueuedHasEntry
<1>9. Waits'
  BY <1>3 DEF IInv, Flags, Types, Waits, Quiet
<1> QED
  BY <1>4, <1>5, <1>6, <1>7, <1>8, <1>9 DEF IInv

(* A deleted socket leaves all lists, unless the loop has ended. *)
LEMMA DestroyKeeps ==
  ASSUME IInv, NEW s \in Sockets, destroy(s)
  PROVE  IInv'
<1> USE DEF destroy, wakeVars, listVars, socketVars, mainVars, spendVars, turnVars, loopVars
<1>0. queued' \in [Sockets -> 0..MaxQueued]
      /\ \A u \in ControlSockets : queued'[u] = IF u = s THEN 0 ELSE queued[u]
  BY BoundsAssumption DEF IInv, Types, Sockets
<1>1. Flags'
  BY DEF IInv, Flags
<1>2. Types'
  BY <1>0 DEF IInv, Types
<1>3. CASE m_run
  <2>1. /\ m_standardOrder' \in Seq(FileSockets) /\ IsInjective(m_standardOrder')
        /\ ToSet(m_standardOrder') = ToSet(m_standardOrder) \ {s}
    BY <1>3, WithoutFacts DEF IInv, Queues, Sockets, removeFromAllQueues
  <2>2. /\ m_controlQueue' \in Seq(ControlSockets)
        /\ ToSet(m_controlQueue') = ToSet(m_controlQueue) \ {s}
    BY <1>3, WithoutFacts DEF IInv, Queues, Sockets, removeFromAllQueues
  <2>3. /\ m_tempControlQueue' \in Seq(ControlSockets)
        /\ ToSet(m_tempControlQueue') = ToSet(m_tempControlQueue) \ {s}
    BY <1>3, WithoutFacts DEF IInv, Queues, Sockets, removeFromAllQueues
  <2>4. Queues'
    BY <2>1, <2>2, <2>3 DEF IInv, Queues
  <2>5. OnlyLiveSockets'
    BY <2>1, <2>2, <2>3 DEF IInv, OnlyLiveSockets
  <2>6. QueuedHasEntry'
    BY <1>0, <2>2, <2>3, 0 # 1 DEF IInv, QueuedHasEntry
  <2>7. Waits'
    BY <1>0, <1>3, <2>1, <2>2, <2>3 DEF IInv, Flags, Types, Waits, Quiet
  <2> QED
    BY <1>1, <1>2, <2>4, <2>5, <2>6, <2>7 DEF IInv
<1>4. CASE ~m_run
  <2>0. loop = "ended"
    BY <1>4 DEF IInv, Waits
  <2>4. Queues'
    BY <1>4 DEF IInv, Queues
  <2>5. OnlyLiveSockets'
    BY <2>0 DEF OnlyLiveSockets
  <2>6. QueuedHasEntry'
    BY <1>4 DEF QueuedHasEntry
  <2>7. Waits'
    BY <1>4, <2>0 DEF IInv, Waits
  <2> QED
    BY <1>1, <1>2, <2>4, <2>5, <2>6, <2>7 DEF IInv
<1> QED
  BY <1>3, <1>4

(* The entries the producers left move to the control queue. *)
LEMMA SpendKeeps ==
  ASSUME IInv, NEW b \in 1..MaxBudget, runSpend(b)
  PROVE  IInv'
<1> USE DEF runSpend, wakeVars, listVars, socketVars, mainVars, spendVars, turnVars, loopVars
<1>1. /\ m_controlQueue' \in Seq(ControlSockets)
      /\ ToSet(m_controlQueue') = ToSet(m_controlQueue) \cup ToSet(m_tempControlQueue)
  BY ToSetConcat DEF IInv, Queues
<1>2. << >> \in Seq(ControlSockets) /\ ToSet(<< >>) = {}
  BY DEF ToSet
<1>3. Flags'
  BY DEF IInv, Flags
<1>4. Queues'
  BY <1>1, <1>2 DEF IInv, Queues
<1>5. Types'
  BY DEF IInv, Types
<1>6. OnlyLiveSockets'
  BY <1>1, <1>2 DEF IInv, OnlyLiveSockets
<1>7. QueuedHasEntry'
  BY <1>1 DEF IInv, QueuedHasEntry
<1>8. Waits'
  BY DEF IInv, Flags, Types, Waits
<1> QED
  BY <1>3, <1>4, <1>5, <1>6, <1>7, <1>8 DEF IInv

(* The loop clears its lists when it ends. *)
LEMMA ExitKeeps ==
  ASSUME IInv, runExit
  PROVE  IInv'
<1> USE DEF runExit, wakeVars, listVars, socketVars, mainVars, spendVars, turnVars, loopVars
<1>2. << >> \in Seq(ControlSockets) /\ << >> \in Seq(FileSockets) /\ IsInjective(<< >>)
  BY DEF IsInjective
<1>3. Flags'
  BY DEF IInv, Flags
<1>4. Queues'
  BY <1>2 DEF IInv, Queues
<1>5. Types'
  BY DEF IInv, Types
<1>6. OnlyLiveSockets'
  BY DEF OnlyLiveSockets
<1>7. QueuedHasEntry'
  BY DEF QueuedHasEntry
<1>8. Waits'
  BY DEF IInv, Flags, Types, Waits
<1> QED
  BY <1>3, <1>4, <1>5, <1>6, <1>7, <1>8 DEF IInv

(* A socket of the control queue is served, and keeps an entry as long as it has
   something to send. *)
LEMMA ControlKeeps ==
  ASSUME IInv, runControl
  PROVE  IInv'
<1> DEFINE s == Head(m_controlQueue)
           n == Sendable(s)
           again == Requeued(s, n)
           tail == Tail(m_controlQueue)
<1>1. s \in ControlSockets /\ tail \in Seq(ControlSockets) /\ ToSet(m_controlQueue) = {s} \cup ToSet(tail)
  BY ToSetTail DEF IInv, Queues, runControl
<1>2. s \in Sockets /\ queued[s] \in 0..MaxQueued /\ queued \in [Sockets -> 0..MaxQueued]
  BY <1>1 DEF IInv, Types, Sockets
<1>3. n \in Nat /\ n <= queued[s]
  <2>1. budget - spent \in Nat /\ queued[s] \in Nat
    BY <1>2, BoundsAssumption DEF IInv, Types, runControl
  <2>2. Min({queued[s], budget - spent}) \in Nat /\ Min({queued[s], budget - spent}) <= queued[s]
    <3> DEFINE x == queued[s]
               y == budget - spent
    <3>1. x \in Nat /\ y \in Nat
      BY <2>1
    <3> HIDE DEF x, y
    <3>2. Min({x, y}) \in Nat /\ Min({x, y}) <= x
      <4>1. x \in Int /\ y \in Int
        BY <3>1
      <4>2. Min({x, y}) \in {x, y} /\ Min({x, y}) <= x
        BY ONLY <4>1, MinTwo
      <4> QED
        BY <3>1, <4>2
    <3> QED
      BY <3>2 DEF x, y
  <2> QED
    BY <2>1, <2>2 DEF Sendable
<1>4. (again <=> queued[s] > n) /\ again \in BOOLEAN
  BY DEF Requeued
<1>5. /\ loop = "control" /\ queued' = [queued EXCEPT ![s] = @ - n]
      /\ blocked' \in {blocked, blocked \cup {s}}
      /\ m_controlQueue' = tail \o (IF again THEN <<s>> ELSE << >>)
      /\ \E sent \in IF s \in ServerUDP THEN 0..n ELSE {n} :
           /\ spent' = spent + sent
           /\ loop' = IF again /\ sent = 0 THEN "slots" ELSE "control"
      /\ UNCHANGED <<wakeVars, m_standardOrder, m_tempControlQueue, alive, mainVars, waitFor,
                     recentlySentData, budget, turnVars>>
  BY DEF runControl
<1> HIDE DEF s, n, again, tail
<1>6. /\ m_controlQueue' \in Seq(ControlSockets)
      /\ ToSet(m_controlQueue') = ToSet(tail) \cup (IF again THEN {s} ELSE {})
  <2>1. CASE again
    <3>1. <<s>> \in Seq(ControlSockets) /\ ToSet(<<s>>) = {s}
      BY <1>1 DEF ToSet
    <3>2. m_controlQueue' = tail \o <<s>>
      BY <1>5, <2>1
    <3> DEFINE o == <<s>>
    <3> HIDE DEF o
    <3>3. o \in Seq(ControlSockets) /\ ToSet(o) = {s} /\ m_controlQueue' = tail \o o
      BY <3>1, <3>2 DEF o
    <3>4. tail \o o \in Seq(ControlSockets) /\ ToSet(tail \o o) = ToSet(tail) \cup ToSet(o)
      BY <1>1, <3>3, ToSetConcat
    <3> QED
      BY <2>1, <3>3, <3>4
  <2>2. CASE ~again
    <3>1. << >> \in Seq(ControlSockets) /\ ToSet(<< >>) = {}
      BY DEF ToSet
    <3>2. m_controlQueue' = tail \o << >>
      BY <1>5, <2>2
    <3> QED
      BY <1>1, <2>2, <3>1, <3>2, ToSetConcat
  <2> QED
    BY <2>1, <2>2, <1>4
<1>7. queued[s] - n \in 0..MaxQueued /\ (queued[s] - n > 0 => again)
  BY <1>2, <1>3, <1>4, BoundsAssumption
<1>8. queued' \in [Sockets -> 0..MaxQueued] /\ queued'[s] = queued[s] - n
      /\ \A u \in Sockets : u # s => queued'[u] = queued[u]
  BY <1>2, <1>5, <1>7
<1>9. spent' \in Nat /\ loop' \in {"slots", "control"}
  <2>1. PICK sent \in IF s \in ServerUDP THEN 0..n ELSE {n} : 
           /\ spent' = spent + sent
           /\ loop' = IF again /\ sent = 0 THEN "slots" ELSE "control"
    BY <1>5
  <2>2. sent \in Nat /\ spent \in Nat
    BY <1>3 DEF IInv, Types
  <2> QED
    BY <2>1, <2>2
<1>10. Flags'
  BY <1>5 DEF IInv, Flags, wakeVars
<1>11. Queues'
  BY <1>5, <1>6 DEF IInv, Queues
<1>12. Types'
  BY <1>2, <1>5, <1>8, <1>9 DEF IInv, Types, mainVars, turnVars
<1>13. OnlyLiveSockets'
  BY <1>1, <1>5, <1>6 DEF IInv, OnlyLiveSockets
<1>14. QueuedHasEntry'
  BY <1>1, <1>5, <1>6, <1>7, <1>8 DEF IInv, QueuedHasEntry, wakeVars, mainVars, Sockets
<1>15. Waits'
  BY <1>5, <1>9 DEF IInv, Flags, Types, Waits, wakeVars, mainVars
<1> QED
  BY <1>10, <1>11, <1>12, <1>13, <1>14, <1>15 DEF IInv

-----------------------------------------------------------------------------
(* What a pass over the slots may make of the packets that wait: never more in a socket
   than it may hold, and nothing of a UDP socket's is touched. *)
Passes == {q \in Pass : /\ q.queued \in [Sockets -> 0..MaxQueued]
                        /\ \A u \in ControlSockets : q.queued[u] = queued[u]}

(* Serving one slot is such a change. *)
LEMMA ServedFacts ==
  ASSUME NEW q \in Passes, NEW s \in FileSockets, NEW n \in Nat, n <= q.queued[s]
  PROVE  Served(q, s, n) \in Passes
<1>1. /\ q \in [queued : [Sockets -> Nat], spent : Nat, turn : Nat]
      /\ q.queued \in [Sockets -> 0..MaxQueued] /\ q.spent \in Nat /\ q.turn \in Nat
      /\ \A u \in ControlSockets : q.queued[u] = queued[u]
  BY DEF Passes, Pass
<1>2. s \in Sockets /\ s \notin ControlSockets
  BY SocketsAssumption DEF Sockets
<1> DEFINE f == [q.queued EXCEPT ![s] = @ - n]
<1>3. Served(q, s, n) = [queued |-> f, spent |-> q.spent + n, turn |-> q.turn]
  <2>1. q = [queued |-> q.queued, spent |-> q.spent, turn |-> q.turn]
    BY ONLY <1>1
  <2>2. Served(q, s, n) = [[queued |-> q.queued, spent |-> q.spent, turn |-> q.turn]
                             EXCEPT !.queued[s] = @ - n, !.spent = @ + n]
    BY ONLY <2>1, Zenon DEF Served
  <2> QED
    BY <2>2
<1>4. q.queued[s] - n \in 0..MaxQueued
  BY <1>1, <1>2, BoundsAssumption
<1>5. f \in [Sockets -> 0..MaxQueued] /\ \A u \in ControlSockets : f[u] = queued[u]
  BY <1>1, <1>2, <1>4 DEF Sockets
<1>6. f \in [Sockets -> Nat] /\ q.spent + n \in Nat
  BY <1>1, <1>5, BoundsAssumption
<1> HIDE DEF f
<1> QED
  BY <1>1, <1>3, <1>5, <1>6 DEF Passes, Pass

(* A share is at most what waits. *)
LEMMA ShareFacts ==
  ASSUME budget \in Nat, NEW q \in Passes, NEW s \in FileSockets
  PROVE  Share(q, s) \in Nat /\ Share(q, s) <= q.queued[s]
<1> DEFINE x == q.queued[s]
           y == budget - q.spent
<1>1. x \in Nat /\ q.spent \in Nat
  BY BoundsAssumption DEF Passes, Pass, Sockets
<1>2. CASE ~(s \in blocked \/ q.spent >= budget)
  <2>1. y \in Nat
    BY <1>1, <1>2
  <2>2. Share(q, s) = Min({x, y})
    BY <1>2 DEF Share
  <2> HIDE DEF x, y
  <2>3. x \in Int /\ y \in Int
    BY <1>1, <2>1
  <2>4. Min({x, y}) \in {x, y} /\ Min({x, y}) <= x
    BY ONLY <2>3, MinTwo
  <2>5. Share(q, s) \in Nat /\ Share(q, s) <= x
    BY <1>1, <2>1, <2>2, <2>4
  <2> QED
    BY <2>5 DEF x
<1>3. CASE s \in blocked \/ q.spent >= budget
  BY <1>1, <1>3 DEF Share
<1> QED
  BY <1>2, <1>3

(* The trickle pass. *)
LEMMA TrickleFacts ==
  ASSUME m_standardOrder \in Seq(FileSockets), NEW p \in Passes, NEW overdue
  PROVE  Trickle(p, overdue) \in Passes
<1> DEFINE n == Len(m_standardOrder)
           body == [i \in 1..n |-> [q \in Pass |->
                      LET s == m_standardOrder[i]
                      IN  IF s \in overdue \ blocked THEN Served(q, s, q.queued[s]) ELSE q]]
<1>1. n \in Nat
  OBVIOUS
<1>2. ASSUME NEW i \in 1..n, NEW q \in Passes PROVE body[i][q] \in Passes
  <2> DEFINE s == m_standardOrder[i]
  <2>1. s \in FileSockets /\ q \in Pass /\ q.queued[s] \in Nat /\ q.queued[s] <= q.queued[s]
    BY BoundsAssumption DEF Passes, Sockets
  <2>2. body[i][q] = IF s \in overdue \ blocked THEN Served(q, s, q.queued[s]) ELSE q
    BY <2>1
  <2>3. Served(q, s, q.queued[s]) \in Passes
    BY <2>1, ServedFacts
  <2> HIDE DEF body
  <2> QED
    BY <2>2, <2>3
<1>3. Trickle(p, overdue) = Rounds(p, n, body)
  BY DEF Trickle
<1> HIDE DEF body, n
<1> QED
  BY <1>1, <1>2, <1>3, RoundsIn

(* The pass of equal shares. *)
LEMMA EqualSharesFacts ==
  ASSUME m_standardOrder \in Seq(FileSockets), budget \in Nat, NEW p \in Passes,
         NEW maxSlot \in Nat, maxSlot <= Len(m_standardOrder)
  PROVE  EqualShares(p, maxSlot) \in Passes
<1> DEFINE slotOf(q) == IF q.turn >= maxSlot THEN 0 ELSE q.turn
           step(q) == LET slot == IF q.turn >= maxSlot THEN 0 ELSE q.turn
                          s == m_standardOrder[slot + 1]
                      IN  IF q.spent >= budget THEN q
                          ELSE [Served(q, s, Share(q, s)) EXCEPT !.turn = slot + 1]
           body == [i \in 1..maxSlot |-> [q \in Pass |-> step(q)]]
<1>2. ASSUME NEW i \in 1..maxSlot, NEW q \in Passes PROVE body[i][q] \in Passes
  <2> DEFINE slot == slotOf(q)
             s == m_standardOrder[slot + 1]
             r == Served(q, s, Share(q, s))
  <2>1. q \in Pass /\ q.turn \in Nat
    BY DEF Passes, Pass
  <2>2. slot \in Nat /\ slot + 1 \in 1..Len(m_standardOrder)
    BY <2>1
  <2>3. s \in FileSockets
    BY <2>2
  <2>4. r \in Passes
    <3>1. Share(q, s) \in Nat /\ Share(q, s) <= q.queued[s]
      <4> HIDE DEF s
      <4> QED
        BY <2>3, ShareFacts
    <3> HIDE DEF s
    <3> QED
      BY <2>3, <3>1, ServedFacts
  <2>5. body[i][q] = IF q.spent >= budget THEN q ELSE [r EXCEPT !.turn = slot + 1]
    BY <2>1
  <2> HIDE DEF r, slot, body
  <2>6. [r EXCEPT !.turn = slot + 1] \in Passes
    <3> DEFINE d == [r EXCEPT !.turn = slot + 1]
    <3>1. r \in [queued : [Sockets -> Nat], spent : Nat, turn : Nat] /\ slot + 1 \in Nat
      BY <2>2, <2>4 DEF Passes, Pass
    <3>2. d \in [queued : [Sockets -> Nat], spent : Nat, turn : Nat] /\ d.queued = r.queued
      BY ONLY <3>1
    <3> HIDE DEF d
    <3>3. d \in Passes
      BY <2>4, <3>2 DEF Passes, Pass
    <3> QED
      BY <3>3 DEF d
  <2> QED
    BY <2>5, <2>6
<1>3. EqualShares(p, maxSlot) = Rounds(p, maxSlot, body)
  BY DEF EqualShares
<1> HIDE DEF body
<1> QED
  BY <1>2, <1>3, RoundsIn

(* A remainder is smaller than the divisor. *)
LEMMA Remainder ==
  ASSUME NEW a \in Nat, NEW n \in Nat, n # 0
  PROVE  a % n \in 0..(n - 1)
  OBVIOUS

(* The pass that gives away the rest. *)
LEMMA SurplusFacts ==
  ASSUME m_standardOrder \in Seq(FileSockets), budget \in Nat, NEW p \in Passes, NEW start \in Nat
  PROVE  Surplus(p, start) \in Passes
<1> DEFINE n == Len(m_standardOrder)
           at(i) == m_standardOrder[((start + i - 1) % n) + 1]
           body == [i \in 1..n |-> [q \in Pass |->
                      LET s == m_standardOrder[((start + i - 1) % n) + 1]
                      IN  Served(q, s, Share(q, s))]]
<1>1. n \in Nat
  OBVIOUS
<1>2. ASSUME NEW i \in 1..n, NEW q \in Passes PROVE body[i][q] \in Passes
  <2> DEFINE s == at(i)
             a == start + i - 1
  <2>0. n # 0 /\ a \in Nat
    BY <1>1
  <2>1. q \in Pass
    BY DEF Passes
  <2>2. (a % n) + 1 \in 1..n
    <3> HIDE DEF a, n
    <3>1. a % n \in 0..(n - 1)
      BY <1>1, <2>0, Remainder
    <3> QED
      BY <1>1, <3>1
  <2>3. s \in FileSockets
    <3> DEFINE k == (a % n) + 1
    <3>1. k \in 1..Len(m_standardOrder) /\ s = m_standardOrder[k]
      BY <2>2
    <3> HIDE DEF k, s
    <3> QED
      BY <3>1
  <2>5. body[i][q] = Served(q, s, Share(q, s))
    BY <2>1
  <2> HIDE DEF s, body
  <2>4. Share(q, s) \in Nat /\ Share(q, s) <= q.queued[s]
    BY <2>3, ShareFacts
  <2> QED
    BY <2>3, <2>4, <2>5, ServedFacts
<1>3. Surplus(p, start) = Rounds(p, n, body)
  BY DEF Surplus
<1> HIDE DEF body, n
<1> QED
  BY <1>1, <1>2, <1>3, RoundsIn

(* The passes over the slots keep the invariant. *)
LEMMA SlotsKeep ==
  ASSUME IInv, NEW overdue, NEW maxSlot \in Nat, runSlots(overdue, maxSlot)
  PROVE  IInv'
<1> DEFINE start == IF m_standardOrder = << >> THEN surplusStart
                    ELSE (surplusStart + 1) % Len(m_standardOrder)
           begin == [queued |-> queued, spent |-> spent, turn |-> rememberedSlotCounter]
           end == Surplus(EqualShares(Trickle(begin, overdue), maxSlot), start)
           sent == {s \in ToSet(m_standardOrder) : end.queued[s] < queued[s]}
<1>1. /\ loop = "slots" /\ maxSlot <= Len(m_standardOrder) /\ queued' = end.queued
      /\ (\E full \in SUBSET sent : blocked' = blocked \cup full)
      /\ recentlySentData' = (end.spent > 0) /\ budget' = 0 /\ spent' = 0
      /\ rememberedSlotCounter' = end.turn /\ surplusStart' = start /\ loop' = "top"
      /\ UNCHANGED <<wakeVars, listVars, alive, mainVars, waitFor>>
  BY DEF runSlots
<1>2. m_standardOrder \in Seq(FileSockets) /\ budget \in Nat
  BY DEF IInv, Queues, Types
<1>3. start \in Nat
  <2>1. CASE m_standardOrder = << >>
    BY <2>1 DEF IInv, Types
  <2>2. CASE m_standardOrder # << >>
    <3> DEFINE n == Len(m_standardOrder)
               a == surplusStart + 1
    <3>1. n \in Nat /\ n # 0 /\ a \in Nat /\ start = a % n
      BY <1>2, <2>2 DEF IInv, Types
    <3> HIDE DEF n, a, start
    <3>2. a % n \in 0..(n - 1)
      BY <3>1, Remainder
    <3> QED
      BY <3>1, <3>2
  <2> QED
    BY <2>1, <2>2
<1>4. begin \in Passes
  <2>1. queued \in [Sockets -> 0..MaxQueued] /\ spent \in Nat /\ rememberedSlotCounter \in Nat
    BY DEF IInv, Types
  <2>2. queued \in [Sockets -> Nat]
    BY <2>1, BoundsAssumption
  <2> QED
    BY <2>1, <2>2 DEF Passes, Pass
<1>5. end \in Passes
  <2> DEFINE one == Trickle(begin, overdue)
             two == EqualShares(one, maxSlot)
  <2> HIDE DEF begin, start
  <2>1. one \in Passes
    BY <1>2, <1>4, TrickleFacts
  <2>2. two \in Passes
    <3> HIDE DEF one
    <3> QED
      BY <1>1, <1>2, <2>1, EqualSharesFacts
  <2>3. end = Surplus(two, start)
    OBVIOUS
  <2> HIDE DEF one, two, end
  <2> QED
    BY <1>2, <1>3, <2>2, <2>3, SurplusFacts
<1>6. sent \subseteq Sockets
  <2>1. ToSet(m_standardOrder) \subseteq FileSockets
    BY <1>2, ToSetIs
  <2> QED
    BY <2>1 DEF Sockets
<1> HIDE DEF start, end, sent
<1>7. /\ queued' \in [Sockets -> 0..MaxQueued] /\ \A u \in ControlSockets : queued'[u] = queued[u]
      /\ end.turn \in Nat
  BY <1>1, <1>5 DEF Passes, Pass
<1>8. Flags'
  <2>1. (end.spent > 0) \in BOOLEAN
    OBVIOUS
  <2>2. recentlySentData' \in BOOLEAN
    BY <1>1, <2>1
  <2> QED
    BY <1>1, <2>2 DEF IInv, Flags, wakeVars
<1>9. Queues'
  BY <1>1 DEF IInv, Queues, listVars
<1>10. Types'
  <2>1. blocked' \subseteq Sockets
    BY <1>1, <1>6 DEF IInv, Types
  <2> QED
    BY <1>1, <1>3, <1>7, <2>1 DEF IInv, Types, mainVars
<1>11. OnlyLiveSockets'
  BY <1>1 DEF IInv, OnlyLiveSockets, listVars
<1>12. QueuedHasEntry'
  BY <1>1, <1>7 DEF IInv, QueuedHasEntry, listVars, wakeVars, mainVars
<1>13. Waits'
  BY <1>1 DEF IInv, Flags, Types, Waits, wakeVars, mainVars
<1> QED
  BY <1>8, <1>9, <1>10, <1>11, <1>12, <1>13 DEF IInv

-----------------------------------------------------------------------------
(* The invariant holds at the start. *)
LEMMA InitIInv == Init => IInv
<1> SUFFICES ASSUME Init PROVE IInv
  OBVIOUS
<1>1. << >> \in Seq(ControlSockets) /\ << >> \in Seq(FileSockets) /\ IsInjective(<< >>)
      /\ ToSet(<< >>) = {}
  BY DEF IsInjective, ToSet
<1>2. Flags
  BY DEF Init, Flags
<1>3. Queues
  BY <1>1 DEF Init, Queues
<1>4. Types
  BY BoundsAssumption DEF Init, Types
<1>5. OnlyLiveSockets
  BY <1>1 DEF Init, OnlyLiveSockets
<1>6. QueuedHasEntry
  BY DEF Init, QueuedHasEntry, Sockets
<1>7. Waits
  BY DEF Init, Waits
<1> QED
  BY <1>2, <1>3, <1>4, <1>5, <1>6, <1>7 DEF IInv

(* Every step keeps it. *)
LEMMA NextIInv == IInv /\ [Next]_vars => IInv'
<1> SUFFICES ASSUME IInv, [Next]_vars PROVE IInv'
  OBVIOUS
<1>1. CASE MainStep
  BY <1>1, NotifyKeeps, QueueForSendingKeeps, SignalKeeps, SocketAvailableKeeps, JoinedKeeps
     DEF MainStep
<1>2. CASE MainCall
  <2>1. ASSUME NEW u \in ControlSockets, enqueue(u) PROVE IInv'
    BY <2>1, EnqueueKeeps
  <2>2. ASSUME NEW s \in FileSockets, \/ addToStandardList(s) \/ removeFromStandardList(s)
                                      \/ sendPacket(s) \/ onBytesWritten(s)
        PROVE  IInv'
    BY <2>2, AddToStandardListKeeps, RemoveFromStandardListKeeps, SendPacketKeeps,
       OnBytesWrittenKeeps
  <2>3. ASSUME NEW s \in Sockets, destroy(s) PROVE IInv'
    BY <2>3, DestroyKeeps
  <2> QED
    BY <1>2, <2>1, <2>2, <2>3, EndThreadKeeps DEF MainCall
<1>3. CASE LoopStep
  <2>1. ASSUME NEW b \in 1..MaxBudget, runSpend(b) PROVE IInv'
    BY <2>1, SpendKeeps
  <2>2. ASSUME NEW overdue \in SUBSET FileSockets, Slots(overdue) PROVE IInv'
    <3>1. PICK maxSlot \in 0..Cardinality(FileSockets) : runSlots(overdue, maxSlot)
      BY <2>2 DEF Slots
    <3>2. maxSlot \in Nat
      BY SocketsAssumption DEF Sockets
    <3> QED
      BY <3>1, <3>2, SlotsKeep
  <2> QED
    BY <1>3, <2>1, <2>2, ResetKeeps, ScanKeeps, PredicateKeeps, TimeoutKeeps, NoBudgetKeeps,
       ControlKeeps, ControlDoneKeeps, ExitKeeps DEF LoopStep
<1>4. ASSUME NEW u \in ServerUDP, KernelDrains(u) PROVE IInv'
  BY <1>4, KernelDrainsKeeps
<1>5. CASE UNCHANGED vars
  <2> USE <1>5 DEF vars, wakeVars, listVars, socketVars, mainVars, spendVars, turnVars, loopVars
  <2>1. Flags'
    BY DEF IInv, Flags
  <2>2. Queues'
    BY DEF IInv, Queues
  <2>3. Types'
    BY DEF IInv, Types
  <2>4. OnlyLiveSockets'
    BY DEF IInv, OnlyLiveSockets
  <2>5. QueuedHasEntry'
    BY DEF IInv, QueuedHasEntry
  <2>6. Waits'
    BY DEF IInv, Waits, Quiet
  <2> QED
    BY <2>1, <2>2, <2>3, <2>4, <2>5, <2>6 DEF IInv
<1> QED
  BY <1>1, <1>2, <1>3, <1>4, <1>5 DEF Next

(* What the invariant says of a loop in its long wait. *)
LEMMA IInvSafe == IInv => TypeOK /\ NoWorkStranded /\ OnlyLiveSockets
<1> SUFFICES ASSUME IInv PROVE TypeOK /\ NoWorkStranded /\ OnlyLiveSockets
  OBVIOUS
<1>1. TypeOK
  <2>1. {m_run, m_dataAvailable, m_socketAvailable, recentlySentData} \subseteq BOOLEAN
    BY DEF IInv, Flags
  <2>2. {budget, spent, rememberedSlotCounter, surplusStart} \subseteq Nat
    BY DEF IInv, Types
  <2> QED
    BY <2>1, <2>2 DEF IInv, Queues, Types, TypeOK
<1>2. SleeperHasNoWork
  <2> SUFFICES ASSUME loop = "waiting" /\ waitFor = "anything"
                        /\ main \notin {"queue", "signal", "notify", "endNotify"}
               PROVE  /\ m_run
                      /\ m_standardOrder = << >> /\ m_controlQueue = << >> /\ m_tempControlQueue = << >>
                      /\ \A u \in ControlSockets : queued[u] = 0
    BY DEF SleeperHasNoWork
  <2>1. m_run /\ ~m_dataAvailable
    BY DEF IInv, Waits
  <2>2. Quiet
    BY <2>1 DEF IInv, Waits
  <2> QED
    BY <2>1, <2>2, ToSetIs DEF IInv, Queues, Quiet
<1> QED
  BY <1>1, <1>2 DEF IInv, NoWorkStranded

(***************************************************************************)
(* For any sockets and any budgets of the send loop: its variables have    *)
(* their types, a slot is listed once, a loop that went to sleep for want  *)
(* of work has none unless a notification is still to come, a datagram     *)
(* that waits in a UDP socket has an entry that leads the loop to it       *)
(* (UploadBandwidthThrottler.cpp:346-350, 580-590, 745-748), and no list   *)
(* the running loop walks holds a deleted socket (EMSocket.cpp:151-154).   *)
(***************************************************************************)
THEOREM Safety == Spec => [](TypeOK /\ NoWorkStranded /\ OnlyLiveSockets)
BY InitIInv, NextIInv, IInvSafe, PTL DEF Spec
=============================================================================

---------------------- MODULE UploadBandwidthThrottler ----------------------
(***************************************************************************)
(* The send loop of the upload side                                        *)
(* (core/transfer/UploadBandwidthThrottler.cpp): the thread that lets the  *)
(* sockets send, the lists the main thread keeps for it, the condition     *)
(* variable that wakes it and the way it is ended.                         *)
(*                                                                         *)
(* A step of the loop is one critical section, one socket of the control   *)
(* queue served, or the three passes over the slots, which run under       *)
(* m_sendMutex: meanwhile the main thread cannot touch the lists, and a    *)
(* packet it gives a socket counts as given before or after.  The rates    *)
(* are abstracted: whether a loop waits and what it may spend (in packets) *)
(* are arbitrary.  Left out: the byte counters, the count of fully used    *)
(* slots, and pause(), which nobody but the tests calls.                   *)
(***************************************************************************)
EXTENDS Naturals, Sequences, SequencesExt, FiniteSetsExt, Lists

CONSTANTS FileSockets,   \* EMSockets of upload slots
          ClientUDP,     \* ClientUDPSockets: datagrams are handed to the main thread
          ServerUDP,     \* UDPSockets: datagrams are written by the loop
          SlotLimit,     \* slots scanned for the wait
          MaxBudget,     \* bound on what one loop may spend
          MaxQueued,     \* bound on the packets waiting in one socket
          MaxEntries     \* bound on the entries of the control queues

ControlSockets == ClientUDP \cup ServerUDP
Sockets == FileSockets \cup ControlSockets
NoSocket == "none"

ASSUME SocketsAssumption ==
  /\ FileSockets \cap ControlSockets = {} /\ ClientUDP \cap ServerUDP = {}
  /\ IsFiniteSet(Sockets) /\ NoSocket \notin Sockets
ASSUME BoundsAssumption ==
  /\ SlotLimit \in Nat \ {0} /\ MaxBudget \in Nat \ {0}
  /\ MaxQueued \in Nat \ {0} /\ MaxEntries \in Nat \ {0}

VARIABLES
  m_run, m_dataAvailable, m_socketAvailable,
  m_standardOrder,       \* the slots' sockets
  m_controlQueue, m_tempControlQueue,
  alive,                 \* sockets that exist
  queued,                \* per socket: packets waiting in it
  blocked,               \* sockets the kernel takes nothing from now
  main, arg,             \* where the main thread is, and the socket it is to queue
  loop,                  \* where runInternal() is
  waitFor,               \* what its wait is for
  recentlySentData,
  budget, spent,         \* bytesToSpend and spentBytes of the send passes
  rememberedSlotCounter, surplusStart

wakeVars == <<m_run, m_dataAvailable, m_socketAvailable>>
listVars == <<m_standardOrder, m_controlQueue, m_tempControlQueue>>
socketVars == <<alive, queued, blocked>>
mainVars == <<main, arg>>
spendVars == <<recentlySentData, budget, spent>>
turnVars == <<rememberedSlotCounter, surplusStart>>
loopVars == <<loop, waitFor, spendVars, turnVars>>
vars == <<wakeVars, listVars, socketVars, mainVars, loopVars>>

(* A list without the entries of s. *)
Without(list, s) == Kept(list, Sockets \ {s})

(* m_sendMutex is free for the main thread. *)
SendMutexFree == loop \notin {"scan", "control", "slots"}

Init ==
  /\ m_run = TRUE /\ m_dataAvailable = FALSE /\ m_socketAvailable = FALSE
  /\ m_standardOrder = << >> /\ m_controlQueue = << >> /\ m_tempControlQueue = << >>
  /\ alive = Sockets
  /\ queued = [s \in Sockets |-> 0]
  /\ blocked = {}
  /\ main = "loop" /\ arg = NoSocket
  /\ loop = "top" /\ waitFor = "none" /\ recentlySentData = FALSE
  /\ budget = 0 /\ spent = 0
  /\ rememberedSlotCounter = 0 /\ surplusStart = 0

-----------------------------------------------------------------------------
(***************************************************************************)
(* The main thread.                                                        *)
(***************************************************************************)

(* m_wakeCV.notify_all(): a loop that waits evaluates its predicate again. *)
notify ==
  /\ main \in {"notify", "endNotify"}
  /\ loop' = IF loop = "waiting" THEN "predicate" ELSE loop
  /\ main' = IF main = "notify" THEN "loop" ELSE "join"
  /\ UNCHANGED <<wakeVars, listVars, socketVars, arg, waitFor, spendVars, turnVars>>

(* A datagram is put into the queue of a UDP socket, unless the queue is full;
   ClientUDPSocket first throws away what has waited too long. *)
enqueue(u) ==
  /\ main = "loop" /\ u \in alive
  /\ Len(m_controlQueue \o m_tempControlQueue) < MaxEntries
  /\ \E kept \in IF u \in ClientUDP THEN 0..queued[u] ELSE {queued[u]} :
       kept < MaxQueued /\ queued' = [queued EXCEPT ![u] = kept + 1]
  /\ main' = "queue" /\ arg' = u
  /\ UNCHANGED <<wakeVars, listVars, alive, blocked, loopVars>>

(* One entry per datagram, left for the loop to take over. *)
queueForSendingControlPacket ==
  /\ main = "queue"
  /\ IF m_run
     THEN main' = "signal" /\ m_tempControlQueue' = Append(m_tempControlQueue, arg)
     ELSE main' = "loop" /\ UNCHANGED m_tempControlQueue
  /\ arg' = NoSocket
  /\ UNCHANGED <<wakeVars, m_standardOrder, m_controlQueue, socketVars, loopVars>>

(* Mutant of signalWorkAvailable: only a loop that is asleep already is told. *)
signalWorkAvailableAsleep ==
  /\ main = "signal"
  /\ main' = IF m_run THEN "notify" ELSE "loop"
  /\ m_dataAvailable' = (m_dataAvailable \/ loop = "waiting")
  /\ UNCHANGED <<m_run, m_socketAvailable, listVars, socketVars, arg, loopVars>>

signalWorkAvailable ==
  /\ main = "signal"
  /\ main' = IF m_run THEN "notify" ELSE "loop"
  /\ m_dataAvailable' = (m_dataAvailable \/ m_run)
  /\ UNCHANGED <<m_run, m_socketAvailable, listVars, socketVars, arg, loopVars>>

socketAvailable ==
  /\ main = "socketAvailable"
  /\ main' = IF m_run THEN "notify" ELSE "loop"
  /\ m_socketAvailable' = (m_socketAvailable \/ m_run)
  /\ UNCHANGED <<m_run, m_dataAvailable, listVars, socketVars, arg, loopVars>>

(* Mutant of addToStandardList: a socket in the list already is not taken out first. *)
addToStandardListTwice(s) ==
  /\ main = "loop" /\ SendMutexFree /\ s \in alive
  /\ \E index \in 0..Len(m_standardOrder) :
       m_standardOrder' = InsertAt(m_standardOrder, index + 1, s)
  /\ main' = "signal"
  /\ UNCHANGED <<wakeVars, m_controlQueue, m_tempControlQueue, socketVars, arg, loopVars>>

(* A socket is put at a place of the list, after being taken out of it. *)
addToStandardList(s) ==
  /\ main = "loop" /\ SendMutexFree /\ s \in alive
  /\ \E index \in 0..Len(Without(m_standardOrder, s)) :
       m_standardOrder' = InsertAt(Without(m_standardOrder, s), index + 1, s)
  /\ main' = "signal"
  /\ UNCHANGED <<wakeVars, m_controlQueue, m_tempControlQueue, socketVars, arg, loopVars>>

removeFromStandardList(s) ==
  /\ main = "loop" /\ SendMutexFree /\ Contains(m_standardOrder, s)
  /\ m_standardOrder' = Without(m_standardOrder, s)
  /\ UNCHANGED <<wakeVars, m_controlQueue, m_tempControlQueue, socketVars, mainVars, loopVars>>

(* EMSocket::sendPacket(): file data, then newUploadDataAvailable(). *)
sendPacket(s) ==
  /\ main = "loop" /\ s \in alive /\ queued[s] < MaxQueued
  /\ queued' = [queued EXCEPT ![s] = @ + 1]
  /\ main' = "signal"
  /\ UNCHANGED <<wakeVars, listVars, alive, blocked, arg, loopVars>>

(* EMSocket::onBytesWritten(): the socket turns available. *)
onBytesWritten(s) ==
  /\ main = "loop" /\ s \in alive \cap blocked
  /\ blocked' = blocked \ {s}
  /\ main' = "socketAvailable"
  /\ UNCHANGED <<wakeVars, listVars, alive, queued, arg, loopVars>>

(* Mutant of removeFromAllQueues: the entries not taken over yet are forgotten. *)
removeFromAllQueuesTaken(s) ==
  /\ m_standardOrder' = Without(m_standardOrder, s)
  /\ m_controlQueue' = Without(m_controlQueue, s)
  /\ UNCHANGED m_tempControlQueue

(* Every entry of a socket goes, in the three lists. *)
removeFromAllQueues(s) ==
  /\ m_standardOrder' = Without(m_standardOrder, s)
  /\ m_controlQueue' = Without(m_controlQueue, s)
  /\ m_tempControlQueue' = Without(m_tempControlQueue, s)

(* A socket is deleted. Once the loop is being ended it is not taken off the lists. *)
destroy(s) ==
  /\ main = "loop" /\ s \in alive
  /\ IF m_run THEN SendMutexFree /\ removeFromAllQueues(s) ELSE UNCHANGED listVars
  /\ alive' = alive \ {s}
  /\ queued' = [queued EXCEPT ![s] = 0]
  /\ blocked' = blocked \ {s}
  /\ UNCHANGED <<wakeVars, mainVars, loopVars>>

(* endThread() up to its wait, and the end of the wait. *)
endThread ==
  /\ main = "loop" /\ m_run
  /\ m_run' = FALSE /\ main' = "endNotify"
  /\ UNCHANGED <<m_dataAvailable, m_socketAvailable, listVars, socketVars, arg, loopVars>>

endThreadJoined ==
  /\ main = "join" /\ loop = "ended"
  /\ main' = "loop"
  /\ UNCHANGED <<wakeVars, listVars, socketVars, arg, loopVars>>

-----------------------------------------------------------------------------
(***************************************************************************)
(* The loop: runInternal().                                                *)
(***************************************************************************)

(* The flags are cleared before the queues are looked at. *)
runReset ==
  /\ loop = "top" /\ m_run
  /\ m_dataAvailable' = FALSE /\ m_socketAvailable' = FALSE
  /\ loop' = "scan"
  /\ UNCHANGED <<m_run, listVars, socketVars, mainVars, waitFor, spendVars, turnVars>>

(* The slots scanned that have something to send, and of them the busy ones. *)
CanSend == {i \in 1..Min({Len(m_standardOrder), SlotLimit}) : queued[m_standardOrder[i]] > 0}
Busy == {i \in CanSend : m_standardOrder[i] \in blocked}

(* Mutant of NothingToDo: only the slots scanned count. *)
NothingToDoScanned == CanSend = {} /\ m_controlQueue = << >> /\ m_tempControlQueue = << >>

(* standardListEmpty && controlQueuesEmpty *)
NothingToDo == m_standardOrder = << >> /\ m_controlQueue = << >> /\ m_tempControlQueue = << >>

(* The wait the queues call for: for any work, a long or a short one, for a socket that
   turns available, or for the time alone. *)
WaitFor ==
  IF CanSend = {} /\ ~recentlySentData THEN IF NothingToDo THEN "anything" ELSE "data"
  ELSE IF CanSend # {} /\ CanSend = Busy THEN "socket" ELSE "none"

(* The snapshot, and whether the last loop was long enough ago to go on at once. *)
runScan ==
  /\ loop = "scan"
  /\ \/ loop' = "check" /\ waitFor' = "none"
     \/ WaitFor # "none" /\ loop' = "predicate" /\ waitFor' = WaitFor
  /\ UNCHANGED <<wakeVars, listVars, socketVars, mainVars, spendVars, turnVars>>

(* The predicate of wait_for(), under m_wakeMutex: it blocks or goes on. *)
runPredicate ==
  /\ loop = "predicate"
  /\ IF ~m_run \/ m_socketAvailable \/ (waitFor # "socket" /\ m_dataAvailable)
     THEN loop' = "check" /\ waitFor' = "none"
     ELSE loop' = "waiting" /\ UNCHANGED waitFor
  /\ UNCHANGED <<wakeVars, listVars, socketVars, mainVars, spendVars, turnVars>>

runTimeout ==
  /\ loop = "waiting"
  /\ loop' = "check" /\ waitFor' = "none"
  /\ UNCHANGED <<wakeVars, listVars, socketVars, mainVars, spendVars, turnVars>>

(* Nothing may be spent. *)
runNoBudget ==
  /\ loop = "check" /\ m_run
  /\ recentlySentData' = FALSE
  /\ loop' = "top"
  /\ UNCHANGED <<wakeVars, listVars, socketVars, mainVars, waitFor, budget, spent, turnVars>>

(* The send passes begin: the entries the producers left are taken over. *)
runSpend(bytesToSpend) ==
  /\ loop = "check" /\ m_run
  /\ budget' = bytesToSpend /\ spent' = 0
  /\ m_controlQueue' = m_controlQueue \o m_tempControlQueue /\ m_tempControlQueue' = << >>
  /\ loop' = "control"
  /\ UNCHANGED <<wakeVars, m_standardOrder, socketVars, mainVars, waitFor, recentlySentData,
                 turnVars>>

(* What sendControlData() sends of s. *)
Sendable(s) == IF s \in blocked THEN 0 ELSE Min({queued[s], budget - spent})

(* Mutant of Requeued: a socket that sent nothing is queued again. *)
RequeuedOnNothing(s, n) == n = 0 \/ queued[s] > n

(* Whether the socket has unsent control data and is queued again. *)
Requeued(s, n) == queued[s] > n

(* One socket of the control queue is served; one that makes no progress ends the pass.
   Of the datagrams a UDPSocket takes off its queue those without a route cost nothing. *)
runControl ==
  /\ loop = "control" /\ spent < budget /\ m_controlQueue # << >>
  /\ LET s == Head(m_controlQueue)
         n == Sendable(s)
         again == Requeued(s, n)
     IN /\ queued' = [queued EXCEPT ![s] = @ - n]
        /\ blocked' \in IF s \in ServerUDP /\ n > 0 THEN {blocked, blocked \cup {s}} ELSE {blocked}
        /\ m_controlQueue' = Tail(m_controlQueue) \o (IF again THEN <<s>> ELSE << >>)
        /\ \E sent \in IF s \in ServerUDP THEN 0..n ELSE {n} :
             /\ spent' = spent + sent
             /\ loop' = IF again /\ sent = 0 THEN "slots" ELSE "control"
  /\ UNCHANGED <<wakeVars, m_standardOrder, m_tempControlQueue, alive, mainVars, waitFor,
                 recentlySentData, budget, turnVars>>

runControlDone ==
  /\ loop = "control" /\ (spent = budget \/ m_controlQueue = << >>)
  /\ loop' = "slots"
  /\ UNCHANGED <<wakeVars, listVars, socketVars, mainVars, waitFor, spendVars, turnVars>>

(***************************************************************************)
(* The passes over the slots work on a record of what waits in the slots   *)
(* (queued), what was spent, and the round-robin position (turn).  Each is *)
(* a loop that serves a slot per round.                                    *)
(***************************************************************************)
Pass == [queued : [Sockets -> Nat], spent : Nat, turn : Nat]

Served(p, s, n) == [p EXCEPT !.queued[s] = @ - n, !.spent = @ + n]

(* What one slot gets of the rest of the budget. *)
Share(p, s) == IF s \in blocked \/ p.spent >= budget THEN 0
               ELSE Min({p.queued[s], budget - p.spent})

(* Mutant of Trickle: it keeps to the budget. *)
TrickleWithinBudget(p, overdue) ==
  Rounds(p, Len(m_standardOrder),
         [i \in 1..Len(m_standardOrder) |-> [q \in Pass |->
            LET s == m_standardOrder[i]
            IN  IF s \in overdue THEN Served(q, s, Share(q, s)) ELSE q]])

(* Every slot of overdue, those that sent nothing for a second, gets what it needs,
   whatever the budget. *)
Trickle(p, overdue) ==
  Rounds(p, Len(m_standardOrder),
         [i \in 1..Len(m_standardOrder) |-> [q \in Pass |->
            LET s == m_standardOrder[i]
            IN  IF s \in overdue \ blocked THEN Served(q, s, q.queued[s]) ELSE q]])

(* Equal shares for maxSlot slots, round robin from where the last loop stopped. *)
EqualShares(p, maxSlot) ==
  Rounds(p, maxSlot,
         [i \in 1..maxSlot |-> [q \in Pass |->
            LET slot == IF q.turn >= maxSlot THEN 0 ELSE q.turn
                s == m_standardOrder[slot + 1]
            IN  IF q.spent >= budget THEN q
                ELSE [Served(q, s, Share(q, s)) EXCEPT !.turn = slot + 1]]])

(* What is left, first come first served from the slot start on. *)
Surplus(p, start) ==
  LET n == Len(m_standardOrder)
  IN  Rounds(p, n,
             [i \in 1..n |-> [q \in Pass |->
                LET s == m_standardOrder[((start + i - 1) % n) + 1]
                IN  Served(q, s, Share(q, s))]])

(* The trickle, equal and surplus passes, and the end of the loop. A slot that sent may be
   blocked afterwards. *)
runSlots(overdue, maxSlot) ==
  LET start == IF m_standardOrder = << >> THEN surplusStart
               ELSE (surplusStart + 1) % Len(m_standardOrder)
      begin == [queued |-> queued, spent |-> spent, turn |-> rememberedSlotCounter]
      end == Surplus(EqualShares(Trickle(begin, overdue), maxSlot), start)
      sent == {s \in ToSet(m_standardOrder) : end.queued[s] < queued[s]}
  IN
  /\ loop = "slots"
  /\ maxSlot <= Len(m_standardOrder)
  /\ queued' = end.queued
  /\ \E full \in SUBSET sent : blocked' = blocked \cup full
  /\ recentlySentData' = (end.spent > 0)
  /\ budget' = 0 /\ spent' = 0
  /\ rememberedSlotCounter' = end.turn /\ surplusStart' = start
  /\ loop' = "top"
  /\ UNCHANGED <<wakeVars, listVars, alive, mainVars, waitFor>>

(* The loop is left, its lists cleared. *)
runExit ==
  /\ loop \in {"top", "check"} /\ ~m_run
  /\ m_tempControlQueue' = << >> /\ m_controlQueue' = << >> /\ m_standardOrder' = << >>
  /\ loop' = "ended"
  /\ UNCHANGED <<wakeVars, socketVars, mainVars, waitFor, spendVars, turnVars>>

(* The kernel takes datagrams of a UDP socket again, without telling anybody. *)
KernelDrains(u) ==
  /\ u \in blocked
  /\ blocked' = blocked \ {u}
  /\ UNCHANGED <<wakeVars, listVars, alive, queued, mainVars, loopVars>>

-----------------------------------------------------------------------------
MainStep == notify \/ queueForSendingControlPacket \/ signalWorkAvailable \/ socketAvailable
            \/ endThreadJoined

MainCall ==
  \/ \E u \in ControlSockets : enqueue(u)
  \/ \E s \in FileSockets :
       \/ addToStandardList(s) \/ removeFromStandardList(s) \/ sendPacket(s) \/ onBytesWritten(s)
  \/ \E s \in Sockets : destroy(s)
  \/ endThread

Slots(overdue) == \E maxSlot \in 0..Cardinality(FileSockets) : runSlots(overdue, maxSlot)

LoopStep ==
  \/ runReset \/ runScan \/ runPredicate \/ runTimeout
  \/ runNoBudget \/ (\E b \in 1..MaxBudget : runSpend(b))
  \/ runControl \/ runControlDone
  \/ (\E overdue \in SUBSET FileSockets : Slots(overdue))
  \/ runExit

Next == MainStep \/ MainCall \/ LoopStep \/ (\E u \in ServerUDP : KernelDrains(u))

(***************************************************************************)
(* Both threads run and the kernel goes on taking bytes.  Over and over    *)
(* there is something to spend, since the time between two loops counts,   *)
(* and a slot that was passed over for seconds is overdue.                 *)
(***************************************************************************)
Fairness ==
  /\ WF_vars(LoopStep) /\ WF_vars(MainStep)
  /\ SF_vars(\E b \in 1..MaxBudget : runSpend(b))
  /\ \A u \in ServerUDP : WF_vars(KernelDrains(u))
  /\ \A s \in FileSockets : SF_vars(onBytesWritten(s)) /\ SF_vars(Slots({s}))

Spec == Init /\ [][Next]_vars /\ Fairness

-----------------------------------------------------------------------------
(* The types of the variables. *)
TypeOK ==
  /\ {m_run, m_dataAvailable, m_socketAvailable, recentlySentData} \subseteq BOOLEAN
  /\ m_standardOrder \in Seq(FileSockets) /\ IsInjective(m_standardOrder)
  /\ m_controlQueue \in Seq(ControlSockets) /\ m_tempControlQueue \in Seq(ControlSockets)
  /\ alive \subseteq Sockets /\ blocked \subseteq Sockets
  /\ queued \in [Sockets -> 0..MaxQueued]
  /\ main \in {"loop", "queue", "signal", "socketAvailable", "notify", "endNotify", "join"}
  /\ arg \in Sockets \cup {NoSocket}
  /\ loop \in {"top", "scan", "predicate", "waiting", "check", "control", "slots", "ended"}
  /\ waitFor \in {"none", "data", "anything", "socket"}
  /\ {budget, spent, rememberedSlotCounter, surplusStart} \subseteq Nat

(* A loop in its long wait has nothing to do: whatever the main thread queued for it, and
   the order to end, comes with a notification still to be given. (The comments at
   UploadBandwidthThrottler.cpp:346-350 and 745-748.) *)
SleeperHasNoWork ==
  (loop = "waiting" /\ waitFor = "anything"
     /\ main \notin {"queue", "signal", "notify", "endNotify"})
    => /\ m_run
       /\ m_standardOrder = << >> /\ m_controlQueue = << >> /\ m_tempControlQueue = << >>
       /\ \A u \in ControlSockets : queued[u] = 0

(* No list the loop walks holds a socket that was deleted (EMSocket.cpp:151-154). *)
OnlyLiveSockets ==
  loop # "ended" => ToSet(m_standardOrder) \cup ToSet(m_controlQueue)
                      \cup ToSet(m_tempControlQueue) \subseteq alive

(* A datagram in a UDP socket is never stranded: the socket has an entry in one of the
   queues, or the main thread is about to make one. *)
QueuedHasEntry ==
  \A u \in ControlSockets :
    (m_run /\ queued[u] > 0)
      => \/ u \in ToSet(m_controlQueue) \cup ToSet(m_tempControlQueue)
         \/ main = "queue" /\ arg = u

(* Work for the loop is neither slept on nor forgotten. *)
NoWorkStranded == SleeperHasNoWork /\ QueuedHasEntry

(* The control queue does not stay filled with sockets that have nothing to send: the loop
   would never come to its long wait again (UploadBandwidthThrottler.cpp:580-590). *)
ControlQueueDrains ==
  \A u \in ControlSockets : <>[](queued[u] = 0) => []<>(~Contains(m_controlQueue, u))

(* As long as the loop runs the datagrams in a UDP socket leave it. *)
DatagramsLeave ==
  \A u \in ControlSockets :
    []<>(queued[u] = 0 \/ ~m_run) \/ []<><<queued'[u] < queued[u]>>_vars

(* A slot whose socket has file data is served, whatever the UDP sockets and the other
   slots take of the budget. *)
SlotsAreServed ==
  \A s \in FileSockets :
    []<>(queued[s] = 0 \/ ~Contains(m_standardOrder, s) \/ ~m_run) \/ []<><<queued'[s] < queued[s]>>_vars

(* Neither kind of socket is starved, and none keeps the loop busy for nothing. *)
EverySocketIsServed == DatagramsLeave /\ SlotsAreServed /\ ControlQueueDrains
=============================================================================

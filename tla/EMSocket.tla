------------------------------ MODULE EMSocket ------------------------------
(***************************************************************************)
(* The sending side of a peer connection (core/net/EMSocket.cpp).  Two     *)
(* threads send on one socket: its owner, the main thread, writes control  *)
(* packets into Qt's buffer, which the event loop later hands to the       *)
(* kernel; the upload throttler writes to the kernel directly.  m_sendLock *)
(* makes their sends exclusive, and m_cachedBytesToWrite tells the         *)
(* throttler that Qt's buffer holds bytes that come first.                 *)
(*                                                                         *)
(* A packet is PacketLen fragments; a fragment is what one write takes.    *)
(* The socket is connected at the start, its obfuscation handshake done or *)
(* not.  Left out: QUIC transports, statistics, and the wake-up of the     *)
(* throttler (UploadBandwidthThrottler).                                   *)
(***************************************************************************)
EXTENDS Naturals, Sequences

CONSTANTS MaxPackets,    \* packets sent in all
          PacketLen,     \* fragments of a packet
          MaxQueue,      \* kMaxControlPackets, kMaxStandardPackets
          OwnerLimit,    \* fragments one send of the owner may take
          BusyThreshold, \* kBusyThreshold, in fragments
          KernelRoom     \* fragments the kernel buffers

ASSUME EMAssumption ==
  {MaxPackets, PacketLen, MaxQueue, OwnerLimit, BusyThreshold, KernelRoom} \subseteq Nat \ {0}

VARIABLES m_conState, crypt,    \* "Connected" or "Disconnected"; the handshake is done
          fdOpen,               \* Qt has the socket's descriptor open
          q,                    \* the queues, m_sendBuffer, and the peer's view of the stream
          qt,                   \* Qt's buffer
          inKernel,             \* fragments the kernel has and the peer has not
          m_cachedBytesToWrite, m_busy, m_rawBusy, m_queueOverflow,
          posted,               \* deferred calls: "send" and "close"
          m_retryScheduled,
          owner,                \* where the owner thread is
          throttler, tLeft,     \* where the throttler is, and what it may still send
          tFile,                \* it has sent file data
          listed                \* the socket has an upload slot

vars == <<m_conState, crypt, fdOpen, q, qt, inKernel, m_cachedBytesToWrite, m_busy, m_rawBusy,
          m_queueOverflow, posted, m_retryScheduled, owner, throttler, tLeft, tFile, listed>>

Packets == [n : 1..MaxPackets, control : BOOLEAN]
NoPacket == [n |-> 0, control |-> FALSE]
Handshake == [n |-> 0, control |-> TRUE]       \* the last bytes of the handshake
Fragments(p, len) == [i \in 1..len |-> <<p, i>>]

Init ==
  /\ m_conState = "Connected" /\ crypt \in BOOLEAN /\ fdOpen = TRUE
  /\ q = [control |-> << >>, standard |-> << >>, buf |-> NoPacket, sent |-> 0,
          count |-> 0, expect |-> << >>, cut |-> FALSE]
  /\ qt = << >> /\ inKernel = 0
  /\ m_cachedBytesToWrite = 0 /\ m_busy = FALSE /\ m_rawBusy = FALSE /\ m_queueOverflow = FALSE
  /\ posted = {} /\ m_retryScheduled = FALSE
  /\ owner = "idle" /\ throttler = "idle" /\ tLeft = 0 /\ tFile = FALSE
  /\ listed = FALSE

-----------------------------------------------------------------------------
LockFree == throttler \notin {"sending", "writing"}
Idle == owner = "idle"

(* The next packet becomes the send buffer, a control packet first, and is encrypted: the
   peer has to get its fragments next. *)
Take(s) ==
  LET p == IF s.control # << >> THEN Head(s.control) ELSE Head(s.standard)
  IN  IF s.buf # NoPacket THEN s
      ELSE [s EXCEPT !.control = IF p.control THEN Tail(@) ELSE @,
                     !.standard = IF p.control THEN @ ELSE Tail(@),
                     !.buf = p, !.expect = @ \o Fragments(p, PacketLen)]

(* The kernel is given a fragment. If it is not the one the peer has to get, the stream is
   cut up. *)
Give(s, f) ==
  IF s.expect # << >> /\ Head(s.expect) = f THEN [s EXCEPT !.expect = Tail(@)]
  ELSE [s EXCEPT !.cut = TRUE]

(* One more fragment of the send buffer was taken by Qt or by the kernel. *)
Advance(s) ==
  IF s.sent + 1 = PacketLen THEN [s EXCEPT !.buf = NoPacket, !.sent = 0] ELSE [s EXCEPT !.sent = @ + 1]

(* Mutant of ControlWaits: a standard packet that was begun is not finished. *)
ControlWaitsAlone(s) ==
  \/ s.buf # NoPacket /\ s.buf.control
  \/ s.buf = NoPacket /\ s.control # << >>

(* What makes a send of control packets go on: one in the send buffer, or one that waits,
   also behind a standard packet that was begun. *)
ControlWaits(s) == (s.buf # NoPacket /\ s.buf.control) \/ s.control # << >>

(* send(limit, 0, true) on the owner's thread, into Qt's buffer. *)
OwnerFragment(a) ==
  IF ~ControlWaits(a.q) THEN a
  ELSE LET s == Take(a.q)
       IN  [q |-> Advance(s), qt |-> Append(a.qt, <<s.buf, s.sent + 1>>)]

(* The queues and Qt's buffer after k rounds of its loop. *)
ownerRounds[k \in Nat] ==
  IF k = 0 THEN [q |-> q, qt |-> qt] ELSE OwnerFragment(ownerRounds[k - 1])

ownerSend ==
  LET a == ownerRounds[IF crypt /\ m_conState = "Connected" THEN OwnerLimit ELSE 0]
  IN  /\ q' = a.q /\ qt' = a.qt
      /\ IF a.qt # qt
         THEN /\ m_cachedBytesToWrite' = Len(a.qt)
              /\ m_busy' = (Len(a.qt) >= BusyThreshold)
         ELSE UNCHANGED <<m_cachedBytesToWrite, m_busy>>

UnchangedThrottler == UNCHANGED <<m_rawBusy, throttler, tLeft, tFile, listed>>
UnchangedStream == UNCHANGED <<q, qt, inKernel, m_cachedBytesToWrite, m_busy>>

(* Mutant of Fits: one packet too many. *)
FitsAtLimit(queue) == Len(queue) <= MaxQueue

(* fits: an empty queue takes anything, so the limit is at least one packet. *)
Fits(queue) == Len(queue) < MaxQueue

(* sendPacket(): a control packet is sent at once or by a deferred call, a standard packet
   by the throttler. A queue at its limit closes the connection. *)
sendPacket(control, force) ==
  LET queue == IF control THEN q.control ELSE q.standard
      p == [n |-> q.count + 1, control |-> control]
  IN  /\ Idle /\ LockFree /\ m_conState = "Connected" /\ q.count < MaxPackets
      /\ IF m_queueOverflow \/ ~Fits(queue)
         THEN /\ m_queueOverflow' = TRUE
              /\ posted' = IF m_queueOverflow THEN posted ELSE posted \cup {"close"}
              /\ UNCHANGED <<q, owner>>
         ELSE /\ q' = [q EXCEPT !.count = @ + 1,
                                !.control = IF control THEN Append(@, p) ELSE @,
                                !.standard = IF control THEN @ ELSE Append(@, p)]
              /\ posted' = IF control /\ ~force THEN posted \cup {"send"} ELSE posted
              /\ owner' = IF force THEN "send" ELSE "idle"
              /\ UNCHANGED m_queueOverflow
      /\ UNCHANGED <<m_conState, crypt, fdOpen, qt, inKernel, m_cachedBytesToWrite, m_busy,
                     m_retryScheduled>>
      /\ UnchangedThrottler

(* The forced send of sendPacket(). *)
sendNow ==
  /\ owner = "send" /\ LockFree
  /\ ownerSend /\ owner' = "retry"
  /\ UNCHANGED <<m_conState, crypt, fdOpen, inKernel, m_queueOverflow, posted, m_retryScheduled>>
  /\ UnchangedThrottler

(* The deferred send of sendPacket() and of the end of the handshake. *)
deferredSend ==
  /\ Idle /\ LockFree /\ "send" \in posted /\ m_conState = "Connected"
  /\ ownerSend /\ owner' = "retry" /\ posted' = posted \ {"send"}
  /\ UNCHANGED <<m_conState, crypt, fdOpen, inKernel, m_queueOverflow, m_retryScheduled>>
  /\ UnchangedThrottler

scheduleRetryIfNeeded ==
  /\ owner = "retry" /\ LockFree
  /\ m_retryScheduled' =
       (m_retryScheduled
          \/ (m_conState = "Connected" /\ (q.buf # NoPacket \/ q.control # << >>)))
  /\ owner' = "idle"
  /\ UNCHANGED <<m_conState, crypt, fdOpen, m_queueOverflow, posted>>
  /\ UnchangedStream /\ UnchangedThrottler

(* The retry timer; before the end of the handshake it only sets itself again. *)
retryTimer ==
  /\ Idle /\ LockFree /\ m_retryScheduled
  /\ m_retryScheduled' = FALSE
  /\ IF m_conState = "Connected" THEN ownerSend /\ owner' = "retry"
     ELSE UNCHANGED <<q, qt, m_cachedBytesToWrite, m_busy, owner>>
  /\ UNCHANGED <<m_conState, crypt, fdOpen, inKernel, m_queueOverflow, posted>>
  /\ UnchangedThrottler

(* The handshake ends; its last bytes go into Qt's buffer, are noted by
   onNegotiationBytesQueued(), and only then may the throttler send. *)
handshakeComplete ==
  /\ Idle /\ ~crypt /\ m_conState = "Connected"
  /\ crypt' = TRUE /\ owner' = "ready"
  /\ qt' = Append(qt, <<Handshake, 1>>) /\ m_cachedBytesToWrite' = Len(qt')
  /\ q' = [q EXCEPT !.expect = Append(@, <<Handshake, 1>>)]
  /\ UNCHANGED <<m_conState, fdOpen, inKernel, m_busy, m_queueOverflow, posted,
                 m_retryScheduled>>
  /\ UnchangedThrottler

(* readIncoming() sees that, and has what waited for it sent. *)
flushQueued ==
  /\ owner = "ready" /\ LockFree
  /\ posted' = IF q.control # << >> \/ q.buf # NoPacket THEN posted \cup {"send"} ELSE posted
  /\ owner' = "idle"
  /\ UNCHANGED <<m_conState, crypt, fdOpen, m_queueOverflow, m_retryScheduled>>
  /\ UnchangedStream /\ UnchangedThrottler

(* The event loop finds the socket writable: Qt hands some of its buffer to the kernel,
   without m_sendLock, and then reports it. *)
qtFlush ==
  /\ Idle /\ fdOpen /\ qt # << >> /\ inKernel < KernelRoom
  /\ q' = Give(q, Head(qt)) /\ qt' = Tail(qt) /\ inKernel' = inKernel + 1
  /\ owner' = "written"
  /\ UNCHANGED <<m_conState, crypt, fdOpen, m_cachedBytesToWrite, m_busy, m_queueOverflow,
                 posted, m_retryScheduled>>
  /\ UnchangedThrottler

onBytesWritten ==
  /\ owner = "written" /\ owner' = "idle"
  /\ m_cachedBytesToWrite' = Len(qt) /\ m_busy' = (Len(qt) >= BusyThreshold)
  /\ UNCHANGED <<m_conState, crypt, fdOpen, q, qt, inKernel, m_queueOverflow, posted,
                 m_retryScheduled>>
  /\ UnchangedThrottler

(* Qt closes the descriptor, without m_sendLock, and drops what it could not flush. *)
close ==
  /\ fdOpen' = FALSE /\ qt' = << >> /\ inKernel' = 0 /\ owner' = "closed"
  /\ UNCHANGED <<m_conState, crypt, q, m_cachedBytesToWrite, m_busy,
                 m_queueOverflow, m_retryScheduled>>

(* The peer closes, an error, a timeout or the program's own decision. *)
disconnect ==
  /\ Idle /\ fdOpen /\ close
  /\ UNCHANGED posted /\ UnchangedThrottler

(* The deferred close after an overflow. *)
deferredClose ==
  /\ Idle /\ "close" \in posted /\ posted' = posted \ {"close"}
  /\ IF m_conState # "Disconnected" THEN close
     ELSE /\ UNCHANGED <<m_conState, crypt, fdOpen, m_queueOverflow, m_retryScheduled, owner>>
          /\ UnchangedStream
  /\ UnchangedThrottler

(* Mutant of onDisconnected: the state is set without m_sendLock. *)
onDisconnectedUnlocked ==
  /\ owner = "closed" /\ owner' = "clear"
  /\ m_conState' = "Disconnected"
  /\ UNCHANGED <<crypt, fdOpen, m_queueOverflow, posted, m_retryScheduled>>
  /\ UnchangedStream /\ UnchangedThrottler

(* Qt reports it: the state first, under the lock ... *)
onDisconnected ==
  /\ owner = "closed" /\ LockFree /\ owner' = "clear"
  /\ m_conState' = "Disconnected"
  /\ UNCHANGED <<crypt, fdOpen, m_queueOverflow, posted, m_retryScheduled>>
  /\ UnchangedStream /\ UnchangedThrottler

(* Mutant of clearQueues: the standard queue is kept. *)
clearQueuesControl ==
  /\ owner = "clear" /\ LockFree /\ owner' = "free"
  /\ q' = [q EXCEPT !.control = << >>]
  /\ UNCHANGED <<m_conState, crypt, fdOpen, qt, inKernel, m_cachedBytesToWrite, m_busy,
                 m_queueOverflow, posted, m_retryScheduled>>
  /\ UnchangedThrottler

(* ... then clearQueues(): the queues under the lock, the send buffer after it. *)
clearQueues ==
  /\ owner = "clear" /\ LockFree /\ owner' = "free"
  /\ q' = [q EXCEPT !.control = << >>, !.standard = << >>]
  /\ UNCHANGED <<m_conState, crypt, fdOpen, qt, inKernel, m_cachedBytesToWrite, m_busy,
                 m_queueOverflow, posted, m_retryScheduled>>
  /\ UnchangedThrottler

freeSendBuffer ==
  /\ owner = "free" /\ owner' = "idle"
  /\ q' = [q EXCEPT !.buf = NoPacket, !.sent = 0, !.expect = << >>]
  /\ UNCHANGED <<m_conState, crypt, fdOpen, qt, inKernel, m_cachedBytesToWrite, m_busy,
                 m_queueOverflow, posted, m_retryScheduled>>
  /\ UnchangedThrottler

UnchangedOwner == UNCHANGED <<m_conState, crypt, fdOpen, m_queueOverflow, posted,
                              m_retryScheduled, owner, qt, m_cachedBytesToWrite>>

(* A slot begins or ends; the list is the throttler's while it sends. *)
changeSlot ==
  /\ Idle /\ throttler = "idle"
  /\ listed' = ~listed
  /\ UNCHANGED <<q, inKernel, m_busy, m_rawBusy, throttler, tLeft, tFile>> /\ UnchangedOwner

(* The throttler comes to the socket. rawBusyNow() asks the kernel. *)
sendFileAndControlData ==
  /\ throttler = "idle" /\ listed
  /\ ~m_busy /\ (m_rawBusy => fdOpen /\ inKernel < KernelRoom)
  /\ m_conState = "Connected" /\ crypt
  /\ throttler' = "sending" /\ tLeft' \in 1..PacketLen
  /\ m_rawBusy' = FALSE
  /\ UNCHANGED <<q, inKernel, m_busy, tFile, listed>> /\ UnchangedOwner

Sends == q.buf # NoPacket \/ q.control # << >> \/ q.standard # << >>

(* The send ends; if it sent file data, isEnoughFileDataQueued() follows. *)
Return ==
  /\ throttler' = IF tFile THEN "walking" ELSE "idle"
  /\ tLeft' = 0 /\ tFile' = FALSE

(* Mutant of sendFragment: what Qt's buffer holds is not waited for. *)
sendFragmentBypassing ==
  /\ throttler = "sending" /\ tLeft > 0 /\ Sends
  /\ q' = Take(q)
  /\ m_busy' = (m_busy \/ ~fdOpen)
  /\ IF fdOpen THEN throttler' = "writing" /\ UNCHANGED <<tLeft, tFile>> ELSE Return
  /\ UNCHANGED <<inKernel, m_rawBusy, listed>> /\ UnchangedOwner

(* send(n, frag, false) on the throttler's thread: the descriptor is there, and nothing in
   Qt's buffer comes first ... *)
sendFragment ==
  /\ throttler = "sending" /\ tLeft > 0 /\ Sends
  /\ q' = Take(q)
  /\ m_busy' = (m_busy \/ ~fdOpen)
  /\ IF fdOpen /\ m_cachedBytesToWrite = 0 THEN throttler' = "writing" /\ UNCHANGED <<tLeft, tFile>>
     ELSE Return
  /\ UNCHANGED <<inKernel, m_rawBusy, listed>> /\ UnchangedOwner

(* ... ::send() on it, which may find it closed or the kernel's buffer full. *)
nativeSend ==
  /\ throttler = "writing"
  /\ IF fdOpen /\ inKernel < KernelRoom
     THEN /\ q' = Advance(Give(q, <<q.buf, q.sent + 1>>)) /\ inKernel' = inKernel + 1
          /\ m_rawBusy' = FALSE /\ tLeft' = tLeft - 1
          /\ throttler' = "sending" /\ tFile' = (tFile \/ ~q.buf.control)
     ELSE /\ m_rawBusy' = fdOpen /\ Return
          /\ UNCHANGED <<q, inKernel>>
  /\ UNCHANGED <<m_busy, listed>> /\ UnchangedOwner

sendReturns ==
  /\ throttler = "sending" /\ (tLeft = 0 \/ ~Sends)
  /\ Return
  /\ UNCHANGED <<q, inKernel, m_busy, m_rawBusy, listed>> /\ UnchangedOwner

(* The walk over the standard queue, which does not take m_sendLock. *)
isEnoughFileDataQueued ==
  /\ throttler = "walking" /\ throttler' = "idle"
  /\ UNCHANGED <<q, inKernel, m_busy, m_rawBusy, tLeft, tFile, listed>> /\ UnchangedOwner

(* The peer reads. *)
kernelSends ==
  /\ inKernel > 0 /\ inKernel' = inKernel - 1
  /\ UNCHANGED <<q, m_busy, m_rawBusy, throttler, tLeft, tFile, listed>> /\ UnchangedOwner

OwnerStep ==
  \/ sendNow \/ deferredSend \/ scheduleRetryIfNeeded \/ retryTimer \/ flushQueued \/ qtFlush
  \/ onBytesWritten \/ deferredClose \/ onDisconnected \/ clearQueues \/ freeSendBuffer
ThrottlerStep ==
  sendFileAndControlData \/ sendFragment \/ nativeSend \/ sendReturns \/ isEnoughFileDataQueued

Next ==
  \/ sendPacket(TRUE, TRUE) \/ sendPacket(TRUE, FALSE) \/ sendPacket(FALSE, FALSE)
  \/ handshakeComplete \/ disconnect \/ changeSlot
  \/ OwnerStep \/ ThrottlerStep \/ kernelSends

(* The event loop serves its timers, deferred calls and writable sockets, the throttler's
   loop goes on and the peer reads. The owner competes for m_sendLock with a thread that
   pauses a millisecond in every round. *)
Fairness ==
  /\ WF_vars(kernelSends) /\ WF_vars(onBytesWritten) /\ WF_vars(freeSendBuffer)
  /\ WF_vars(sendFragment \/ nativeSend \/ sendReturns \/ isEnoughFileDataQueued)
  /\ SF_vars(sendFileAndControlData)
  /\ SF_vars(sendNow \/ scheduleRetryIfNeeded \/ flushQueued \/ onDisconnected \/ clearQueues)
  /\ SF_vars(deferredSend) /\ SF_vars(retryTimer) /\ SF_vars(qtFlush) /\ SF_vars(deferredClose)

Spec == Init /\ [][Next]_vars /\ Fairness

-----------------------------------------------------------------------------
(* The types of the members, and the bound of the queues. *)
TypeOK ==
  /\ m_conState \in {"Connected", "Disconnected"}
  /\ {crypt, fdOpen, m_busy, m_rawBusy, m_queueOverflow, m_retryScheduled, tFile, listed}
       \subseteq BOOLEAN
  /\ \A s \in {q.control, q.standard} : s \in Seq(Packets) /\ Len(s) <= MaxQueue
  /\ q.buf \in Packets \cup {NoPacket} /\ q.sent \in 0..(PacketLen - 1)
  /\ q.count \in 0..MaxPackets
  /\ inKernel \in 0..KernelRoom /\ m_cachedBytesToWrite \in Nat
  /\ posted \subseteq {"send", "close"} /\ tLeft \in 0..PacketLen
  /\ owner \in {"idle", "send", "retry", "ready", "written", "closed", "clear", "free"}
  /\ throttler \in {"idle", "sending", "writing", "walking"}

(* The peer gets the fragments in the order in which they were encrypted, each packet in
   one piece, whichever thread sends them and through whichever buffer: a stream cut up is
   lost to the peer. *)
StreamIntact == ~q.cut

(* While the throttler sends, clearQueues() does not run: it frees the send buffer without
   m_sendLock, and only onDisconnected() waiting for the lock keeps the two apart. *)
SenderKeepsBuffer == throttler \in {"sending", "writing"} => owner \notin {"clear", "free"}

Waits(control) ==
  \/ (IF control THEN q.control ELSE q.standard) # << >>
  \/ \E k \in DOMAIN q.expect : q.expect[k][1].n > 0 /\ q.expect[k][1].control = control

(* The control packets that wait all leave for the kernel, whole, without another being sent
   after them; what the retries are for. *)
ControlLeaves == crypt /\ fdOpen /\ Waits(TRUE) ~> ~Waits(TRUE) \/ ~fdOpen

(* The file data of a slot leaves too, whatever the owner writes in between. *)
FileDataLeaves ==
  crypt /\ fdOpen /\ listed /\ Waits(FALSE) ~> ~Waits(FALSE) \/ ~fdOpen \/ ~listed

(* A peer that does not read is disconnected, and its packets freed, once a queue is full. *)
OverflowCloses ==
  m_queueOverflow ~> m_conState = "Disconnected" /\ ~Sends

(* Whatever waits in a socket, of either kind, leaves it, and a full queue ends with the
   connection. *)
QueuedLeaves == ControlLeaves /\ FileDataLeaves /\ OverflowCloses

(* The queues are guarded by m_sendLock: nobody changes the standard queue while the
   throttler walks it. *)
QueuesAreLocked == [][throttler = "walking" => q'.standard = q.standard]_vars

(* The throttler writes to the descriptor it looked up: it is not closed, and perhaps
   another connection's by now, in between. *)
DescriptorIsOwn == throttler = "writing" => fdOpen
=============================================================================

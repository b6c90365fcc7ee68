--------------------------- MODULE EMSocket_proofs ---------------------------
(***************************************************************************)
(* The safety invariants of EMSocket, for packets of any length and        *)
(* buffers of any size: the stream of a connection is not cut up by the    *)
(* two threads that write it.                                              *)
(***************************************************************************)
EXTENDS EMSocket, InductionLemmas

(* What m_controlQueue and m_standardQueue hold, and a fragment of the stream. *)
Queue(control) == {s \in Seq({p \in Packets : p.control = control}) : Len(s) <= MaxQueue}
StreamFragments == (Packets \cup {Handshake}) \X Nat

(* The queues and the send buffer; a new packet is sent from its beginning. *)
QueueStates ==
  {s \in [control : Queue(TRUE), standard : Queue(FALSE), buf : Packets \cup {NoPacket},
          sent : 0..(PacketLen - 1), count : 0..MaxPackets, expect : Seq(StreamFragments),
          cut : BOOLEAN] :
     s.buf = NoPacket => s.sent = 0}

(* Fragments of the send buffer still to be sent. *)
Left(s) == IF s.buf = NoPacket THEN 0 ELSE PacketLen - s.sent

(* What the peer has to get is what Qt's buffer holds, followed by the rest of the send
   buffer. *)
StreamIs(s, t) ==
  /\ Len(s.expect) = Len(t) + Left(s)
  /\ \A i \in 1..Len(t) : s.expect[i] = t[i]
  /\ \A i \in 1..Left(s) : s.expect[Len(t) + i] = <<s.buf, s.sent + i>>

(* The types of the members. *)
Flags ==
  /\ crypt \in BOOLEAN /\ fdOpen \in BOOLEAN /\ m_busy \in BOOLEAN /\ m_rawBusy \in BOOLEAN
  /\ m_queueOverflow \in BOOLEAN /\ m_retryScheduled \in BOOLEAN
  /\ tFile \in BOOLEAN /\ listed \in BOOLEAN
Types ==
  /\ m_conState \in {"Connected", "Disconnected"}
  /\ q \in QueueStates /\ qt \in Seq(StreamFragments)
  /\ inKernel \in 0..KernelRoom /\ m_cachedBytesToWrite \in Nat
  /\ posted \subseteq {"send", "close"} /\ tLeft \in 0..PacketLen
  /\ owner \in {"idle", "send", "retry", "ready", "written", "closed", "clear", "free"}
  /\ throttler \in {"idle", "sending", "writing", "walking"}

(* The stream while the connection lasts. The throttler's fragment is next when it writes
   it, for it saw Qt's buffer empty; the count it looked at may only be too high. *)
Stream ==
  /\ ~q.cut
  /\ fdOpen => StreamIs(q, qt)
  /\ Len(qt) <= m_cachedBytesToWrite
  /\ ~crypt => q.buf = NoPacket
  /\ throttler = "writing" => /\ q.buf # NoPacket /\ tLeft > 0
                              /\ fdOpen => qt = << >>

(* A sender found the socket connected and the handshake done, and the owner that closes it
   sets the state under m_sendLock before it frees anything. *)
Senders ==
  /\ throttler \in {"sending", "writing"} => m_conState = "Connected" /\ crypt
  /\ owner \in {"closed", "clear", "free"} => ~fdOpen
  /\ owner \in {"clear", "free"} => m_conState = "Disconnected"

IInv == Flags /\ Types /\ Stream /\ Senders

-----------------------------------------------------------------------------
(* The constants are positive, and a packet is not the empty buffer. *)
LEMMA Constants ==
  /\ MaxPackets \in Nat \ {0} /\ PacketLen \in Nat \ {0} /\ MaxQueue \in Nat \ {0}
  /\ OwnerLimit \in Nat \ {0} /\ BusyThreshold \in Nat \ {0} /\ KernelRoom \in Nat \ {0}
  /\ \A p \in Packets : p # NoPacket /\ p # Handshake
  BY EMAssumption DEF Packets, NoPacket, Handshake

(* The next packet becomes the send buffer: the stream goes on with all of it. *)
LEMMA TakeFacts ==
  ASSUME NEW s \in QueueStates, NEW t \in Seq(StreamFragments),
         s.buf # NoPacket \/ s.control # << >> \/ s.standard # << >>
  PROVE  /\ Take(s) \in QueueStates
         /\ Take(s).buf # NoPacket /\ Take(s).cut = s.cut
         /\ StreamIs(s, t) => StreamIs(Take(s), t)
<1> USE Constants
<1>1. CASE s.buf # NoPacket
  BY <1>1 DEF Take
<1>2. CASE s.buf = NoPacket
  <2> DEFINE p == IF s.control # << >> THEN Head(s.control) ELSE Head(s.standard)
             F == Fragments(p, PacketLen)
             r == [s EXCEPT !.control = IF p.control THEN Tail(@) ELSE @,
                            !.standard = IF p.control THEN @ ELSE Tail(@),
                            !.buf = p, !.expect = @ \o F]
  <2>1. /\ s.control \in Seq({x \in Packets : x.control = TRUE}) /\ Len(s.control) <= MaxQueue
        /\ s.standard \in Seq({x \in Packets : x.control = FALSE}) /\ Len(s.standard) <= MaxQueue
        /\ s.expect \in Seq(StreamFragments) /\ s.sent = 0
    BY <1>2 DEF QueueStates, Queue
  <2>2. /\ p \in Packets
        /\ p.control => s.control # << >>
        /\ ~p.control => s.control = << >> /\ s.standard # << >>
    BY <1>2, <2>1
  <2>3. /\ (IF p.control THEN Tail(s.control) ELSE s.control) \in Queue(TRUE)
        /\ (IF p.control THEN s.standard ELSE Tail(s.standard)) \in Queue(FALSE)
    <3> HIDE DEF p
    <3>1. CASE p.control
      BY <2>1, <2>2, <3>1 DEF Queue
    <3>2. CASE ~p.control
      BY <2>1, <2>2, <3>2 DEF Queue
    <3> QED
      BY <3>1, <3>2
  <2> HIDE DEF p
  <2>4. /\ F \in Seq(StreamFragments) /\ Len(F) = PacketLen
        /\ \A i \in 1..PacketLen : F[i] = <<p, i>>
    BY <2>2 DEF Fragments, StreamFragments
  <2> HIDE DEF F
  <2>5. /\ s.expect \o F \in Seq(StreamFragments)
        /\ Len(s.expect \o F) = Len(s.expect) + PacketLen
        /\ \A i \in 1..Len(s.expect) : (s.expect \o F)[i] = s.expect[i]
        /\ \A i \in 1..PacketLen : (s.expect \o F)[Len(s.expect) + i] = <<p, i>>
    <3> DEFINE e == s.expect
    <3>1. e \in Seq(StreamFragments) /\ F \in Seq(StreamFragments)
      BY <2>1, <2>4
    <3> HIDE DEF e
    <3>2. /\ e \o F \in Seq(StreamFragments) /\ Len(e \o F) = Len(e) + Len(F)
          /\ \A i \in 1..Len(e) : (e \o F)[i] = e[i]
          /\ \A i \in 1..Len(F) : (e \o F)[Len(e) + i] = F[i]
      BY ONLY <3>1, ConcatFacts
    <3> QED
      BY <3>2, <2>4 DEF e
  <2>6. Take(s) = r
    BY <1>2 DEF Take, p, F
  <2>7. r \in QueueStates
    BY <2>2, <2>3, <2>5, <2>1 DEF QueueStates
  <2>8. r.buf = p /\ r.sent = 0 /\ r.expect = s.expect \o F /\ r.cut = s.cut
    BY <2>1 DEF QueueStates
  <2>9. ASSUME StreamIs(s, t) PROVE StreamIs(r, t)
    <3>1. Left(s) = 0 /\ Left(r) = PacketLen
      BY <1>2, <2>2, <2>8 DEF Left
    <3>2. Len(s.expect) = Len(t) /\ \A i \in 1..Len(t) : s.expect[i] = t[i]
      BY <2>9, <3>1, <2>1 DEF StreamIs
    <3>3. Len(t) \in Nat
      OBVIOUS
    <3> HIDE DEF r
    <3>4. /\ Len(r.expect) = Len(t) + PacketLen
          /\ \A i \in 1..Len(t) : r.expect[i] = t[i]
      BY <2>5, <2>8, <3>2, <3>3
    <3>5. \A i \in 1..PacketLen : r.expect[Len(t) + i] = <<p, i>>
      BY <2>5, <2>8, <3>2, <3>3
    <3>6. \A i \in 1..PacketLen : r.sent + i = i /\ r.buf = p
      BY <2>8
    <3> QED
      BY <3>1, <3>4, <3>5, <3>6 DEF StreamIs
  <2> QED
    BY <2>2, <2>6, <2>7, <2>8, <2>9
<1> QED
  BY <1>1, <1>2

(* A fragment of the send buffer is on its way: one less is left. *)
LEMMA AdvanceFacts ==
  ASSUME NEW s \in QueueStates, s.buf # NoPacket
  PROVE  /\ Advance(s) \in QueueStates
         /\ Advance(s).cut = s.cut /\ Advance(s).expect = s.expect
         /\ Left(s) \in Nat \ {0} /\ Left(Advance(s)) = Left(s) - 1
         /\ \A i \in 1..(Left(s) - 1) :
              <<Advance(s).buf, Advance(s).sent + i>> = <<s.buf, s.sent + (i + 1)>>
<1> USE Constants
<1>0. s.sent \in 0..(PacketLen - 1)
  BY DEF QueueStates
<1>1. CASE s.sent + 1 = PacketLen
  <2> DEFINE r == [s EXCEPT !.buf = NoPacket, !.sent = 0]
  <2>1. Advance(s) = r
    BY <1>1 DEF Advance
  <2>2. r.sent = 0 /\ r.buf = NoPacket /\ r.cut = s.cut /\ r.expect = s.expect
    BY DEF QueueStates
  <2>3. r \in QueueStates
    <3>1. 0 \in 0..(PacketLen - 1)
      OBVIOUS
    <3> QED
      BY <3>1 DEF QueueStates
  <2> HIDE DEF r
  <2> QED
    BY <1>0, <1>1, <2>1, <2>2, <2>3 DEF Left
<1>2. CASE s.sent + 1 # PacketLen
  <2> DEFINE r == [s EXCEPT !.sent = @ + 1]
  <2>1. Advance(s) = r
    BY <1>2 DEF Advance
  <2>2. r.sent = s.sent + 1 /\ r.buf = s.buf /\ r.cut = s.cut /\ r.expect = s.expect
    BY DEF QueueStates
  <2>3. s.sent + 1 \in 0..(PacketLen - 1)
    BY <1>0, <1>2
  <2>4. r \in QueueStates
    BY <2>3 DEF QueueStates
  <2> HIDE DEF r
  <2> QED
    BY <1>0, <1>2, <2>1, <2>2, <2>4 DEF Left
<1> QED
  BY <1>1, <1>2

(* The kernel takes the fragment the peer has to get next. *)
LEMMA GiveFacts ==
  ASSUME NEW s \in QueueStates, NEW f, Len(s.expect) > 0, s.expect[1] = f
  PROVE  /\ Give(s, f) \in QueueStates
         /\ Give(s, f).buf = s.buf /\ Give(s, f).sent = s.sent /\ Give(s, f).cut = s.cut
         /\ Len(Give(s, f).expect) = Len(s.expect) - 1
         /\ \A i \in 1..(Len(s.expect) - 1) : Give(s, f).expect[i] = s.expect[i + 1]
<1> DEFINE e == s.expect
           r == [s EXCEPT !.expect = Tail(s.expect)]
<1>1. e \in Seq(StreamFragments)
  BY DEF QueueStates
<1>2. Give(s, f) = r
  BY <1>1 DEF Give
<1>3. /\ Tail(e) \in Seq(StreamFragments) /\ Len(Tail(e)) = Len(e) - 1
      /\ \A i \in 1..(Len(e) - 1) : Tail(e)[i] = e[i + 1]
  BY ONLY <1>1, Len(e) > 0
<1>4. r \in QueueStates
  BY <1>3 DEF QueueStates
<1>5. r.buf = s.buf /\ r.sent = s.sent /\ r.cut = s.cut /\ r.expect = Tail(e)
  BY DEF QueueStates
<1> HIDE DEF r
<1> QED
  BY <1>2, <1>3, <1>4, <1>5

OwnerStates == [q : QueueStates, qt : Seq(StreamFragments)]

(* One round of the owner's loop keeps the stream together. *)
LEMMA OwnerFragmentFacts ==
  ASSUME NEW a \in OwnerStates
  PROVE  /\ OwnerFragment(a) \in OwnerStates
         /\ OwnerFragment(a).q.cut = a.q.cut
         /\ StreamIs(a.q, a.qt) => StreamIs(OwnerFragment(a).q, OwnerFragment(a).qt)
<1>1. CASE ~ControlWaits(a.q)
  BY <1>1 DEF OwnerFragment
<1>2. CASE ControlWaits(a.q)
  <2> DEFINE s == Take(a.q)
             u == a.qt
             f == <<s.buf, s.sent + 1>>
             w == Append(u, f)
             r == Advance(s)
  <2>1. /\ a.q \in QueueStates /\ u \in Seq(StreamFragments)
        /\ a.q.buf # NoPacket \/ a.q.control # << >>
    BY <1>2 DEF OwnerStates, ControlWaits
  <2>2. /\ s \in QueueStates /\ s.buf # NoPacket /\ s.cut = a.q.cut
        /\ StreamIs(a.q, u) => StreamIs(s, u)
    BY <2>1, TakeFacts
  <2>3. OwnerFragment(a) = [q |-> r, qt |-> w]
    BY <1>2 DEF OwnerFragment
  <2> HIDE DEF s, u
  <2>4. /\ r \in QueueStates /\ r.cut = s.cut /\ r.expect = s.expect
        /\ Left(s) \in Nat \ {0} /\ Left(r) = Left(s) - 1
        /\ \A i \in 1..(Left(s) - 1) : <<r.buf, r.sent + i>> = <<s.buf, s.sent + (i + 1)>>
    BY <2>2, AdvanceFacts
  <2>5. f \in StreamFragments
    BY <2>2 DEF QueueStates, StreamFragments
  <2>6. /\ w \in Seq(StreamFragments) /\ Len(w) = Len(u) + 1 /\ Len(u) \in Nat
        /\ \A i \in 1..Len(u) : w[i] = u[i]
        /\ w[Len(u) + 1] = f
    <3> HIDE DEF f
    <3> QED
      BY ONLY <2>1, <2>5
  <2>7. ASSUME StreamIs(s, u) PROVE StreamIs(r, w)
    <3> HIDE DEF w, r, f
    <3>1. /\ Len(s.expect) = Len(u) + Left(s)
          /\ \A i \in 1..Len(u) : s.expect[i] = u[i]
          /\ \A i \in 1..Left(s) : s.expect[Len(u) + i] = <<s.buf, s.sent + i>>
      BY <2>7 DEF StreamIs
    <3>2. s.expect[Len(u) + 1] = f
      BY <3>1, <2>4 DEF f
    <3>3. Len(r.expect) = Len(w) + Left(r)
      BY <3>1, <2>4, <2>6
    <3>4. ASSUME NEW i \in 1..Len(w) PROVE r.expect[i] = w[i]
      BY <3>1, <3>2, <2>4, <2>6
    <3>5. ASSUME NEW i \in 1..Left(r) PROVE r.expect[Len(w) + i] = <<r.buf, r.sent + i>>
      <4>1. i + 1 \in 1..Left(s) /\ i \in 1..(Left(s) - 1)
        BY <2>4
      <4>2. s.expect[Len(u) + (i + 1)] = <<s.buf, s.sent + (i + 1)>>
        BY <3>1, <4>1
      <4>3. Len(w) + i = Len(u) + (i + 1)
        BY <2>6
      <4> QED
        BY <4>1, <4>2, <4>3, <2>4
    <3> QED
      BY <3>3, <3>4, <3>5 DEF StreamIs
  <2> HIDE DEF w, r
  <2> QED
    BY <2>1, <2>2, <2>3, <2>4, <2>6, <2>7 DEF OwnerStates, u
<1> QED
  BY <1>1, <1>2

(* ownerRounds is what its defining equation says. *)
LEMMA OwnerRoundsDef ==
  ASSUME q \in QueueStates, qt \in Seq(StreamFragments)
  PROVE  ownerRounds = [k \in Nat |-> IF k = 0 THEN [q |-> q, qt |-> qt]
                                      ELSE OwnerFragment(ownerRounds[k - 1])]
<1> DEFINE b == [q |-> q, qt |-> qt]
           Unrolled(f) == [k \in Nat |-> IF k = 0 THEN b ELSE OwnerFragment(f[k - 1])]
           g == [n \in Nat |-> [a \in OwnerStates |-> OwnerFragment(a)]]
<1>1. b \in OwnerStates
  BY DEF OwnerStates
<1>2. g \in [Nat -> [OwnerStates -> OwnerStates]]
  BY OwnerFragmentFacts
<1>3. PICK f : Iterates(f, OwnerStates, b, g)
  <2> HIDE DEF g, b
  <2> QED
    BY <1>1, <1>2, RecursiveFunction
<1>4. ASSUME NEW k \in Nat, k # 0 PROVE f[k] = OwnerFragment(f[k - 1])
  <2>1. k - 1 \in Nat /\ (k - 1) + 1 = k
    BY <1>4
  <2> QED
    BY <1>3, <2>1 DEF Iterates
<1>5. f = Unrolled(f)
  <2> HIDE DEF b
  <2> QED
    BY <1>3, <1>4 DEF Iterates
<1>6. ownerRounds = CHOOSE h : h = Unrolled(h)
  BY DEF ownerRounds
<1> HIDE DEF Unrolled
<1>7. ownerRounds = Unrolled(ownerRounds)
  BY <1>5, <1>6
<1> QED
  BY <1>7 DEF Unrolled

(* The whole loop keeps the stream together. *)
LEMMA OwnerRoundsFacts ==
  ASSUME q \in QueueStates, qt \in Seq(StreamFragments), NEW n \in Nat
  PROVE  /\ ownerRounds[n] \in OwnerStates
         /\ ownerRounds[n].q.cut = q.cut
         /\ StreamIs(q, qt) => StreamIs(ownerRounds[n].q, ownerRounds[n].qt)
<1> DEFINE P(k) == /\ ownerRounds[k] \in OwnerStates
                   /\ ownerRounds[k].q.cut = q.cut
                   /\ StreamIs(q, qt) => StreamIs(ownerRounds[k].q, ownerRounds[k].qt)
           S == {k \in Nat : P(k)}
<1>1. ownerRounds[0] = [q |-> q, qt |-> qt]
  BY OwnerRoundsDef
<1>2. ASSUME NEW k \in Nat PROVE ownerRounds[k + 1] = OwnerFragment(ownerRounds[k])
  <2>1. k + 1 \in Nat /\ k + 1 # 0 /\ (k + 1) - 1 = k
    OBVIOUS
  <2> QED
    BY <2>1, OwnerRoundsDef
<1>3. 0 \in S
  BY <1>1 DEF OwnerStates
<1>4. ASSUME NEW k \in Nat, k \in S PROVE k + 1 \in S
  <2> DEFINE a == ownerRounds[k]
  <2>1. a \in OwnerStates /\ a.q.cut = q.cut /\ (StreamIs(q, qt) => StreamIs(a.q, a.qt))
    BY <1>4
  <2>2. ownerRounds[k + 1] = OwnerFragment(a)
    BY <1>2
  <2> HIDE DEF a
  <2>3. P(k + 1)
    BY <2>1, <2>2, OwnerFragmentFacts
  <2> QED
    BY <2>3
<1>5. Nat \subseteq S
  <2> HIDE DEF S
  <2> QED
    BY <1>3, <1>4, NatInd
<1> QED
  BY <1>5

-----------------------------------------------------------------------------
(* A connection that was just made, with nothing queued. *)
LEMMA InitIInv == Init => IInv
<1> SUFFICES ASSUME Init PROVE IInv
  OBVIOUS
<1> USE Constants DEF Init
<1>1. q \in QueueStates
  <2>1. << >> \in Queue(TRUE) /\ << >> \in Queue(FALSE) /\ << >> \in Seq(StreamFragments)
    BY DEF Queue
  <2>2. 0 \in 0..(PacketLen - 1) /\ 0 \in 0..MaxPackets
    OBVIOUS
  <2> QED
    BY <2>1, <2>2 DEF QueueStates
<1>2. Flags
  BY DEF Flags
<1>5. Types
  BY <1>1 DEF Types
<1>3. Stream
  BY DEF Stream, StreamIs, Left
<1>4. Senders
  BY DEF Senders
<1> QED
  BY <1>2, <1>3, <1>4, <1>5 DEF IInv

(* A send of the owner, which holds m_sendLock. *)
LEMMA OwnerSendFacts ==
  ASSUME IInv, LockFree, ownerSend
  PROVE  /\ q' \in QueueStates /\ qt' \in Seq(StreamFragments)
         /\ m_cachedBytesToWrite' \in Nat /\ m_busy' \in BOOLEAN
         /\ ~q'.cut /\ Len(qt') <= m_cachedBytesToWrite'
         /\ StreamIs(q, qt) => StreamIs(q', qt')
         /\ ~crypt => q'.buf = NoPacket
<1> DEFINE n == IF crypt /\ m_conState = "Connected" THEN OwnerLimit ELSE 0
           a == ownerRounds[n]
<1>1. n \in Nat
  BY Constants
<1>2. q \in QueueStates /\ qt \in Seq(StreamFragments) /\ ~q.cut
      /\ Len(qt) <= m_cachedBytesToWrite /\ m_cachedBytesToWrite \in Nat /\ m_busy \in BOOLEAN
  BY DEF IInv, Flags, Types, Stream
<1>3. a \in OwnerStates /\ a.q.cut = q.cut /\ (StreamIs(q, qt) => StreamIs(a.q, a.qt))
  <2> HIDE DEF n
  <2> QED
    BY <1>1, <1>2, OwnerRoundsFacts
<1>4. ~crypt => a.q = q
  <2>1. ownerRounds[0] = [q |-> q, qt |-> qt]
    BY <1>2, OwnerRoundsDef
  <2> QED
    BY <2>1
<1>5. /\ q' = a.q /\ qt' = a.qt
      /\ IF a.qt # qt
         THEN /\ m_cachedBytesToWrite' = Len(a.qt)
              /\ m_busy' = (Len(a.qt) >= BusyThreshold)
         ELSE UNCHANGED <<m_cachedBytesToWrite, m_busy>>
  BY DEF ownerSend
<1>6. ~crypt => q.buf = NoPacket
  BY DEF IInv, Stream
<1> HIDE DEF a
<1>7. a.q \in QueueStates /\ a.qt \in Seq(StreamFragments) /\ Len(a.qt) \in Nat
  BY <1>3 DEF OwnerStates
<1>8. m_cachedBytesToWrite' \in Nat /\ Len(qt') <= m_cachedBytesToWrite'
  BY <1>2, <1>5, <1>7
<1>9. m_busy' \in BOOLEAN
  <2>1. (Len(a.qt) >= BusyThreshold) \in BOOLEAN
    OBVIOUS
  <2>2. m_busy' = (Len(a.qt) >= BusyThreshold) \/ m_busy' = m_busy
    BY <1>5
  <2> QED
    BY <1>2, <2>1, <2>2
<1> QED
  BY <1>2, <1>3, <1>4, <1>5, <1>6, <1>7, <1>8, <1>9

-----------------------------------------------------------------------------
(* Every step keeps the flags flags. *)
LEMMA NextFlags == IInv /\ [Next]_vars => Flags'
<1> SUFFICES ASSUME IInv, [Next]_vars PROVE Flags'
  OBVIOUS
<1>0. Flags
  BY DEF IInv
<1> USE DEF Flags, UnchangedThrottler, UnchangedStream, UnchangedOwner
<1>1. ASSUME NEW control \in BOOLEAN, NEW force \in BOOLEAN, sendPacket(control, force)
      PROVE  Flags'
  BY <1>0, <1>1 DEF sendPacket
<1>2. ASSUME sendNow PROVE Flags'
  <2>1. m_busy' \in BOOLEAN
    BY <1>2, OwnerSendFacts DEF sendNow
  <2> QED
    BY <1>0, <1>2, <2>1 DEF sendNow
<1>3. ASSUME deferredSend PROVE Flags'
  <2>1. m_busy' \in BOOLEAN
    BY <1>3, OwnerSendFacts DEF deferredSend
  <2> QED
    BY <1>0, <1>3, <2>1 DEF deferredSend
<1>4. ASSUME scheduleRetryIfNeeded PROVE Flags'
  BY <1>0, <1>4 DEF scheduleRetryIfNeeded
<1>5. ASSUME retryTimer PROVE Flags'
  <2>1. m_busy' \in BOOLEAN
    BY <1>0, <1>5, OwnerSendFacts DEF retryTimer
  <2> QED
    BY <1>0, <1>5, <2>1 DEF retryTimer
<1>6. ASSUME handshakeComplete \/ flushQueued \/ qtFlush PROVE Flags'
  BY <1>0, <1>6 DEF handshakeComplete, flushQueued, qtFlush
<1>7. ASSUME onBytesWritten PROVE Flags'
  <2>1. (Len(qt) >= BusyThreshold) \in BOOLEAN
    OBVIOUS
  <2>2. m_busy' \in BOOLEAN
    BY <1>7, <2>1 DEF onBytesWritten
  <2> QED
    BY <1>0, <1>7, <2>2 DEF onBytesWritten
<1>8. ASSUME disconnect \/ deferredClose PROVE Flags'
  BY <1>0, <1>8 DEF disconnect, deferredClose, close
<1>9. ASSUME onDisconnected \/ clearQueues \/ freeSendBuffer PROVE Flags'
  BY <1>0, <1>9 DEF onDisconnected, clearQueues, freeSendBuffer
<1>10. ASSUME changeSlot PROVE Flags'
  BY <1>0, <1>10 DEF changeSlot
<1>11. ASSUME sendFileAndControlData \/ isEnoughFileDataQueued \/ sendReturns \/ kernelSends
       PROVE  Flags'
  BY <1>0, <1>11 DEF sendFileAndControlData, isEnoughFileDataQueued, sendReturns, kernelSends, Return
<1>12. ASSUME sendFragment PROVE Flags'
  BY <1>0, <1>12 DEF sendFragment, Return
<1>13. ASSUME nativeSend PROVE Flags'
  <2>1. (tFile \/ ~q.buf.control) \in BOOLEAN
    OBVIOUS
  <2>2. tFile' \in BOOLEAN /\ m_rawBusy' \in BOOLEAN
    BY <1>0, <1>13, <2>1 DEF nativeSend, Return
  <2> QED
    BY <1>0, <1>13, <2>2 DEF nativeSend
<1>14. CASE UNCHANGED vars
  BY <1>0, <1>14 DEF vars
<1> QED
  BY <1>1, <1>2, <1>3, <1>4, <1>5, <1>6, <1>7, <1>8, <1>9, <1>10, <1>11, <1>12, <1>13, <1>14
  DEF Next, OwnerStep, ThrottlerStep

(* A queue with room for a packet takes it. *)
LEMMA AppendFits ==
  ASSUME NEW c \in BOOLEAN, NEW s \in Seq({x \in Packets : x.control = c}), Len(s) < MaxQueue,
         NEW p \in Packets, p.control = c
  PROVE  Append(s, p) \in Queue(c)
<1> DEFINE T == {x \in Packets : x.control = c}
<1>1. p \in T
  OBVIOUS
<1>2. s \in Seq(T)
  OBVIOUS
<1> HIDE DEF T
<1>3. Append(s, p) \in Seq(T) /\ Len(Append(s, p)) = Len(s) + 1
  BY <1>1, <1>2
<1>4. Len(Append(s, p)) <= MaxQueue
  BY <1>2, <1>3, Constants
<1> QED
  BY <1>3, <1>4 DEF Queue, T

(* Every step keeps the stream together and the threads apart. *)
LEMMA NextStream == IInv /\ [Next]_vars => Types' /\ Stream' /\ Senders'
<1> SUFFICES ASSUME IInv, [Next]_vars PROVE Types' /\ Stream' /\ Senders'
  OBVIOUS
<1> USE Constants DEF UnchangedThrottler, UnchangedStream, UnchangedOwner
<1>0. Types /\ Stream /\ Senders
  BY DEF IInv
<1>1. ASSUME NEW control \in BOOLEAN, NEW force \in BOOLEAN, sendPacket(control, force)
      PROVE  Types' /\ Stream' /\ Senders'
  <2>1. CASE q' = q
    BY <1>0, <1>1, <2>1 DEF sendPacket, Types, Stream, Senders
  <2>2. CASE q' # q
    <3> DEFINE p == [n |-> q.count + 1, control |-> control]
               queue == IF control THEN q.control ELSE q.standard
               r == [q EXCEPT !.count = @ + 1,
                              !.control = IF control THEN Append(@, p) ELSE @,
                              !.standard = IF control THEN @ ELSE Append(@, p)]
    <3>1. q' = r /\ Fits(queue) /\ q.count < MaxPackets
      BY <1>1, <2>2 DEF sendPacket
    <3>2. /\ q.control \in Seq({x \in Packets : x.control = TRUE}) /\ Len(q.control) <= MaxQueue
          /\ q.standard \in Seq({x \in Packets : x.control = FALSE}) /\ Len(q.standard) <= MaxQueue
          /\ q.count \in 0..MaxPackets /\ q \in QueueStates
      BY <1>0 DEF Types, QueueStates, Queue
    <3>3. p \in Packets /\ p.control = control
      BY <3>1, <3>2 DEF Packets
    <3>4. /\ (IF control THEN Append(q.control, p) ELSE q.control) \in Queue(TRUE)
          /\ (IF control THEN q.standard ELSE Append(q.standard, p)) \in Queue(FALSE)
      <4> HIDE DEF p
      <4>1. CASE control = TRUE
        <5>1. Append(q.control, p) \in Queue(TRUE)
          BY <3>1, <3>2, <3>3, <4>1, AppendFits DEF Fits
        <5> QED
          BY <5>1, <3>2, <4>1 DEF Queue
      <4>2. CASE control = FALSE
        <5>1. Append(q.standard, p) \in Queue(FALSE)
          BY <3>1, <3>2, <3>3, <4>2, AppendFits DEF Fits
        <5> QED
          BY <5>1, <3>2, <4>2 DEF Queue
      <4> QED
        BY <4>1, <4>2
    <3>5. r \in QueueStates
      <4>1. q.count + 1 \in 0..MaxPackets
        BY <3>1, <3>2
      <4> DEFINE c == IF control THEN Append(q.control, p) ELSE q.control
                 d == IF control THEN q.standard ELSE Append(q.standard, p)
                 z == [q EXCEPT !.count = q.count + 1, !.control = c, !.standard = d]
      <4>2. r = z
        OBVIOUS
      <4>3. c \in Queue(TRUE) /\ d \in Queue(FALSE)
        BY <3>4
      <4> HIDE DEF c, d
      <4>4. z \in QueueStates
        BY <3>2, <4>1, <4>3 DEF QueueStates
      <4> HIDE DEF r, z
      <4> QED
        BY <4>2, <4>4
    <3>6. r.buf = q.buf /\ r.sent = q.sent /\ r.expect = q.expect /\ r.cut = q.cut
      BY <3>2 DEF QueueStates
    <3> HIDE DEF r
    <3>7. StreamIs(q, qt) => StreamIs(r, qt)
      BY <3>6 DEF StreamIs, Left
    <3> QED
      BY <1>0, <1>1, <3>1, <3>5, <3>6, <3>7 DEF sendPacket, Types, Stream, Senders
  <2> QED
    BY <2>1, <2>2
<1>2. ASSUME sendNow \/ deferredSend \/ (retryTimer /\ m_conState = "Connected")
      PROVE  Types' /\ Stream' /\ Senders'
  <2>1. ownerSend /\ LockFree
    BY <1>2 DEF sendNow, deferredSend, retryTimer
  <2>2. /\ q' \in QueueStates /\ qt' \in Seq(StreamFragments)
        /\ m_cachedBytesToWrite' \in Nat
        /\ ~q'.cut /\ Len(qt') <= m_cachedBytesToWrite'
        /\ StreamIs(q, qt) => StreamIs(q', qt')
        /\ ~crypt => q'.buf = NoPacket
    BY <2>1, OwnerSendFacts
  <2>3. /\ owner' = "retry" /\ posted' \subseteq posted
        /\ UNCHANGED <<m_conState, crypt, fdOpen, inKernel, throttler, tLeft>>
    BY <1>2 DEF sendNow, deferredSend, retryTimer
  <2> HIDE DEF ownerSend
  <2> QED
    BY <1>0, <2>1, <2>2, <2>3 DEF LockFree, Types, Stream, Senders
<1>3. ASSUME retryTimer /\ m_conState # "Connected" PROVE Types' /\ Stream' /\ Senders'
  BY <1>0, <1>3 DEF retryTimer, Types, Stream, Senders
<1>4. ASSUME scheduleRetryIfNeeded PROVE Types' /\ Stream' /\ Senders'
  BY <1>0, <1>4 DEF scheduleRetryIfNeeded, Types, Stream, Senders
<1>5. ASSUME flushQueued PROVE Types' /\ Stream' /\ Senders'
  BY <1>0, <1>5 DEF flushQueued, Types, Stream, Senders
<1>6. ASSUME handshakeComplete PROVE Types' /\ Stream' /\ Senders'
  <2> DEFINE h == <<Handshake, 1>>
             e == q.expect
             r == [q EXCEPT !.expect = Append(e, h)]
  <2>1. q' = r /\ qt' = Append(qt, h) /\ m_cachedBytesToWrite' = Len(qt')
        /\ crypt' = TRUE /\ ~crypt /\ owner' = "ready"
        /\ UNCHANGED <<m_conState, fdOpen, inKernel, posted, throttler, tLeft>>
    BY <1>6 DEF handshakeComplete
  <2>2. q \in QueueStates /\ e \in Seq(StreamFragments) /\ qt \in Seq(StreamFragments)
    BY <1>0 DEF Types, QueueStates
  <2>3. h \in StreamFragments
    BY DEF StreamFragments
  <2> HIDE DEF h
  <2>4. /\ Append(e, h) \in Seq(StreamFragments) /\ Len(Append(e, h)) = Len(e) + 1
        /\ Append(qt, h) \in Seq(StreamFragments) /\ Len(Append(qt, h)) = Len(qt) + 1
        /\ Len(e) \in Nat /\ Len(qt) \in Nat
        /\ \A i \in 1..Len(e) : Append(e, h)[i] = e[i]
        /\ \A i \in 1..Len(qt) : Append(qt, h)[i] = qt[i]
        /\ Append(e, h)[Len(e) + 1] = h /\ Append(qt, h)[Len(qt) + 1] = h
    <3> HIDE DEF e
    <3> QED
      BY ONLY <2>2, <2>3
  <2>5. r \in QueueStates
    BY <2>2, <2>4 DEF QueueStates
  <2>6. r.buf = q.buf /\ r.cut = q.cut /\ r.expect = Append(e, h)
    BY <2>2 DEF QueueStates
  <2> HIDE DEF r
  <2>7. q.buf = NoPacket /\ Left(q) = 0 /\ Left(r) = 0
    BY <1>0, <2>1, <2>6 DEF Stream, Left
  <2>8. ASSUME StreamIs(q, qt) PROVE StreamIs(r, Append(qt, h))
    BY <2>4, <2>6, <2>7, <2>8 DEF StreamIs
  <2> QED
    BY <1>0, <2>1, <2>4, <2>5, <2>6, <2>7, <2>8 DEF Types, Stream, Senders
<1>7. ASSUME onBytesWritten PROVE Types' /\ Stream' /\ Senders'
  BY <1>0, <1>7 DEF onBytesWritten, Types, Stream, Senders
<1>8. ASSUME disconnect PROVE Types' /\ Stream' /\ Senders'
  BY <1>0, <1>8 DEF disconnect, close, Types, Stream, Senders
<1>9. ASSUME deferredClose PROVE Types' /\ Stream' /\ Senders'
  <2>1. CASE m_conState # "Disconnected"
    BY <1>0, <1>9, <2>1 DEF deferredClose, close, Types, Stream, Senders
  <2>2. CASE m_conState = "Disconnected"
    BY <1>0, <1>9, <2>2 DEF deferredClose, Types, Stream, Senders
  <2> QED
    BY <2>1, <2>2
<1>10. ASSUME onDisconnected PROVE Types' /\ Stream' /\ Senders'
  BY <1>0, <1>10 DEF onDisconnected, LockFree, Types, Stream, Senders
<1>11. ASSUME clearQueues PROVE Types' /\ Stream' /\ Senders'
  <2> DEFINE r == [q EXCEPT !.control = << >>, !.standard = << >>]
  <2>1. q' = r
    BY <1>11 DEF clearQueues
  <2>2. r \in QueueStates
    <3>1. << >> \in Queue(TRUE) /\ << >> \in Queue(FALSE)
      BY DEF Queue
    <3> QED
      BY <1>0, <3>1 DEF Types, QueueStates
  <2>3. r.buf = q.buf /\ r.cut = q.cut
    BY <1>0 DEF Types, QueueStates
  <2> HIDE DEF r
  <2> QED
    BY <1>0, <1>11, <2>1, <2>2, <2>3 DEF clearQueues, LockFree, Types, Stream, Senders
<1>19. ASSUME freeSendBuffer PROVE Types' /\ Stream' /\ Senders'
  <2> DEFINE r == [q EXCEPT !.buf = NoPacket, !.sent = 0, !.expect = << >>]
  <2>1. q' = r
    BY <1>19 DEF freeSendBuffer
  <2>2. r \in QueueStates
    <3>1. 0 \in 0..(PacketLen - 1) /\ << >> \in Seq(StreamFragments)
      OBVIOUS
    <3> QED
      BY <1>0, <3>1 DEF Types, QueueStates
  <2>3. r.buf = NoPacket /\ r.cut = q.cut
    BY <1>0 DEF Types, QueueStates
  <2> HIDE DEF r
  <2> QED
    BY <1>0, <1>19, <2>1, <2>2, <2>3 DEF freeSendBuffer, Types, Stream, Senders
<1>12. ASSUME changeSlot \/ isEnoughFileDataQueued PROVE Types' /\ Stream' /\ Senders'
  <2>1. /\ throttler' \in {throttler, "idle"}
        /\ UNCHANGED <<m_conState, crypt, fdOpen, q, qt, inKernel, m_cachedBytesToWrite, posted,
                       owner, tLeft>>
    BY <1>12 DEF changeSlot, isEnoughFileDataQueued
  <2> QED
    BY <1>0, <2>1 DEF Types, Stream, Senders
<1>13. ASSUME kernelSends PROVE Types' /\ Stream' /\ Senders'
  BY <1>0, <1>13 DEF kernelSends, Types, Stream, Senders
<1>14. ASSUME sendFileAndControlData PROVE Types' /\ Stream' /\ Senders'
  BY <1>0, <1>14 DEF sendFileAndControlData, Types, Stream, Senders
<1>15. ASSUME sendReturns PROVE Types' /\ Stream' /\ Senders'
  BY <1>0, <1>15 DEF sendReturns, Return, Types, Stream, Senders
<1>16. ASSUME sendFragment PROVE Types' /\ Stream' /\ Senders'
  <2>1. /\ q' = Take(q) /\ throttler = "sending" /\ Sends /\ tLeft > 0
        /\ UNCHANGED <<m_conState, crypt, fdOpen, inKernel, posted, owner, qt, m_cachedBytesToWrite>>
        /\ \/ fdOpen /\ m_cachedBytesToWrite = 0 /\ throttler' = "writing" /\ UNCHANGED tLeft
           \/ throttler' \in {"walking", "idle"} /\ tLeft' = 0
    BY <1>16 DEF sendFragment, Return
  <2>2. q \in QueueStates /\ qt \in Seq(StreamFragments) /\ tLeft \in Nat
    BY <1>0 DEF Types
  <2>3. /\ q' \in QueueStates /\ q'.buf # NoPacket /\ q'.cut = q.cut
        /\ StreamIs(q, qt) => StreamIs(q', qt)
    BY <2>1, <2>2, TakeFacts DEF Sends
  <2>4. Len(qt) <= 0 => qt = << >>
    BY <2>2
  <2> QED
    BY <1>0, <2>1, <2>3, <2>4 DEF Types, Stream, Senders
<1>17. ASSUME nativeSend PROVE Types' /\ Stream' /\ Senders'
  <2>0. /\ q \in QueueStates /\ qt \in Seq(StreamFragments) /\ q.buf # NoPacket
        /\ tLeft \in 1..PacketLen /\ inKernel \in 0..KernelRoom /\ throttler = "writing"
        /\ UNCHANGED <<m_conState, crypt, fdOpen, posted, owner, qt, m_cachedBytesToWrite>>
    BY <1>0, <1>17 DEF nativeSend, Types, Stream
  <2>1. CASE fdOpen /\ inKernel < KernelRoom
    <3> DEFINE f == <<q.buf, q.sent + 1>>
               g == Give(q, f)
               r == Advance(g)
    <3>1. q' = r /\ inKernel' = inKernel + 1 /\ throttler' = "sending" /\ tLeft' = tLeft - 1
      BY <1>17, <2>1 DEF nativeSend
    <3>2. qt = << >> /\ StreamIs(q, qt) /\ ~q.cut
      BY <1>0, <2>0, <2>1 DEF Stream
    <3>3. Left(q) \in Nat \ {0}
      BY <2>0, AdvanceFacts
    <3>4. /\ Len(q.expect) = Left(q)
          /\ \A i \in 1..Left(q) : q.expect[i] = <<q.buf, q.sent + i>>
      BY <3>2, <3>3 DEF StreamIs
    <3>5. Len(q.expect) > 0 /\ q.expect[1] = f
      BY <3>3, <3>4
    <3>6. /\ g \in QueueStates /\ g.buf = q.buf /\ g.sent = q.sent /\ g.cut = q.cut
          /\ Len(g.expect) = Len(q.expect) - 1
          /\ \A i \in 1..(Len(q.expect) - 1) : g.expect[i] = q.expect[i + 1]
      BY <2>0, <3>5, GiveFacts
    <3> HIDE DEF g, f
    <3>7. /\ r \in QueueStates /\ r.cut = g.cut /\ r.expect = g.expect
          /\ Left(r) = Left(g) - 1
          /\ \A i \in 1..(Left(g) - 1) : <<r.buf, r.sent + i>> = <<g.buf, g.sent + (i + 1)>>
      BY <2>0, <3>6, AdvanceFacts
    <3> HIDE DEF r
    <3>8. Left(g) = Left(q)
      BY <3>6 DEF Left
    <3>9. StreamIs(r, qt)
      <4>1. Len(qt) = 0 /\ Len(r.expect) = Len(qt) + Left(r)
        BY <3>2, <3>4, <3>6, <3>7, <3>8, <3>3
      <4>2. ASSUME NEW i \in 1..Left(r) PROVE r.expect[Len(qt) + i] = <<r.buf, r.sent + i>>
        <5>1. i \in 1..(Left(q) - 1) /\ i + 1 \in 1..Left(q) /\ Len(qt) + i = i
          BY <3>3, <3>7, <3>8, <4>1
        <5>2. r.expect[i] = <<q.buf, q.sent + (i + 1)>>
          BY <3>4, <3>6, <3>7, <5>1
        <5>3. <<r.buf, r.sent + i>> = <<q.buf, q.sent + (i + 1)>>
          BY <3>6, <3>7, <3>8, <5>1
        <5> QED
          BY <5>1, <5>2, <5>3
      <4> QED
        BY <4>1, <4>2 DEF StreamIs
    <3>10. inKernel' \in 0..KernelRoom /\ tLeft' \in 0..PacketLen
      BY <2>0, <2>1, <3>1
    <3>11. Types'
      BY <1>0, <2>0, <3>1, <3>7, <3>10 DEF Types
    <3>12. Stream'
      BY <1>0, <2>0, <3>1, <3>2, <3>6, <3>7, <3>9 DEF Stream, Senders
    <3>13. Senders'
      BY <1>0, <2>0, <3>1 DEF Senders
    <3> QED
      BY <3>11, <3>12, <3>13
  <2>2. CASE ~(fdOpen /\ inKernel < KernelRoom)
    <3>1. q' = q /\ inKernel' = inKernel /\ throttler' \in {"walking", "idle"} /\ tLeft' = 0
      BY <1>17, <2>2 DEF nativeSend, Return
    <3> QED
      BY <1>0, <2>0, <3>1 DEF Types, Stream, Senders
  <2> QED
    BY <2>1, <2>2
<1>20. ASSUME qtFlush PROVE Types' /\ Stream' /\ Senders'
  <2> DEFINE g == Give(q, Head(qt))
  <2>1. /\ owner = "idle" /\ fdOpen /\ qt # << >> /\ inKernel < KernelRoom
        /\ q' = g /\ qt' = Tail(qt) /\ inKernel' = inKernel + 1 /\ owner' = "written"
        /\ UNCHANGED <<m_conState, crypt, fdOpen, m_cachedBytesToWrite, posted, throttler, tLeft>>
    BY <1>20 DEF qtFlush, Idle
  <2>2. /\ q \in QueueStates /\ qt \in Seq(StreamFragments) /\ StreamIs(q, qt) /\ ~q.cut
        /\ Len(qt) <= m_cachedBytesToWrite /\ m_cachedBytesToWrite \in Nat
    BY <1>0, <2>1 DEF Types, Stream
  <2>3. /\ Len(qt) \in Nat \ {0} /\ Head(qt) = qt[1]
        /\ Tail(qt) \in Seq(StreamFragments) /\ Len(Tail(qt)) = Len(qt) - 1
        /\ \A i \in 1..(Len(qt) - 1) : Tail(qt)[i] = qt[i + 1]
    BY ONLY <2>1, <2>2
  <2>4. Left(q) \in Nat
    BY <2>2 DEF Left, QueueStates
  <2>5. /\ Len(q.expect) = Len(qt) + Left(q)
        /\ \A i \in 1..Len(qt) : q.expect[i] = qt[i]
        /\ \A i \in 1..Left(q) : q.expect[Len(qt) + i] = <<q.buf, q.sent + i>>
    BY <2>2 DEF StreamIs
  <2>6. Len(q.expect) > 0 /\ q.expect[1] = Head(qt)
    BY <2>3, <2>4, <2>5
  <2>7. /\ g \in QueueStates /\ g.buf = q.buf /\ g.sent = q.sent /\ g.cut = q.cut
        /\ Len(g.expect) = Len(q.expect) - 1
        /\ \A i \in 1..(Len(q.expect) - 1) : g.expect[i] = q.expect[i + 1]
    BY <2>2, <2>6, GiveFacts
  <2> HIDE DEF g
  <2>8. Left(g) = Left(q)
    BY <2>7 DEF Left
  <2>9. StreamIs(g, Tail(qt))
    <3>1. Len(g.expect) = Len(Tail(qt)) + Left(g)
      BY <2>3, <2>4, <2>5, <2>7, <2>8
    <3>2. ASSUME NEW i \in 1..Len(Tail(qt)) PROVE g.expect[i] = Tail(qt)[i]
      <4>1. i \in 1..(Len(qt) - 1) /\ i + 1 \in 1..Len(qt) /\ i \in 1..(Len(q.expect) - 1)
        BY <2>3, <2>4, <2>5
      <4> QED
        BY <2>3, <2>5, <2>7, <4>1
    <3>3. ASSUME NEW i \in 1..Left(g) PROVE g.expect[Len(Tail(qt)) + i] = <<g.buf, g.sent + i>>
      <4>1. /\ (Len(Tail(qt)) + i) + 1 = Len(qt) + i /\ Len(Tail(qt)) + i \in 1..(Len(q.expect) - 1)
            /\ i \in 1..Left(q)
        BY <2>3, <2>4, <2>5, <2>8
      <4> QED
        BY <2>5, <2>7, <4>1
    <3> QED
      BY <3>1, <3>2, <3>3 DEF StreamIs
  <2>10. inKernel' \in 0..KernelRoom
    BY <1>0, <2>1 DEF Types
  <2> QED
    BY <1>0, <2>1, <2>2, <2>3, <2>7, <2>9, <2>10 DEF Types, Stream, Senders
<1>18. CASE UNCHANGED vars
  BY <1>0, <1>18 DEF vars, Types, Stream, Senders
<1> QED
  BY <1>1, <1>2, <1>3, <1>4, <1>5, <1>6, <1>7, <1>8, <1>9, <1>10, <1>11, <1>12, <1>13, <1>14,
     <1>15, <1>16, <1>17, <1>18, <1>19, <1>20
  DEF Next, OwnerStep, ThrottlerStep

(* EMSocket.cpp: whatever the packets' lengths and the room in the buffers, the owner's     *)
(* writes through Qt and the throttler's to the kernel make up one stream, and the send     *)
(* buffer the throttler reads from is not freed under it.                                   *)
THEOREM Safety == Spec => [](TypeOK /\ StreamIntact /\ SenderKeepsBuffer)
<1>1. IInv /\ [Next]_vars => IInv'
  BY NextFlags, NextStream DEF IInv
<1>2. IInv => TypeOK
  <2> SUFFICES ASSUME IInv PROVE TypeOK
    OBVIOUS
  <2>1. {crypt, fdOpen, m_busy, m_rawBusy, m_queueOverflow, m_retryScheduled, tFile, listed}
          \subseteq BOOLEAN
    BY DEF IInv, Flags
  <2>2. /\ q.control \in Seq(Packets) /\ Len(q.control) <= MaxQueue
        /\ q.standard \in Seq(Packets) /\ Len(q.standard) <= MaxQueue
    BY DEF IInv, Types, QueueStates, Queue
  <2>3. /\ q.buf \in Packets \cup {NoPacket} /\ q.sent \in 0..(PacketLen - 1)
        /\ q.count \in 0..MaxPackets
    BY DEF IInv, Types, QueueStates
  <2> QED
    BY <2>1, <2>2, <2>3 DEF TypeOK, IInv, Types
<1>3. IInv => StreamIntact /\ SenderKeepsBuffer
  BY DEF IInv, Stream, Senders, StreamIntact, SenderKeepsBuffer
<1> QED
  BY InitIInv, <1>1, <1>2, <1>3, PTL DEF Spec
=============================================================================

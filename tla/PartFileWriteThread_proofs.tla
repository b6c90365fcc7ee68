--------------------- MODULE PartFileWriteThread_proofs ---------------------
(***************************************************************************)
(* Proofs about PartFileWriteThread: its inductive invariant IInv, the     *)
(* safety properties that follow from it, and the refinement of WriteJobs. *)
(* Only the fairness part of the two specifications is left to the model   *)
(* checker.                                                                *)
(***************************************************************************)
EXTENDS PartFileWriteThread, TLAPS

(***************************************************************************)
(* Append adds one element at the end and keeps the others:                *)
(* m_queue.push_back and the posting of an event.                          *)
(***************************************************************************)
LEMMA AppendFacts ==
  ASSUME NEW S, NEW s \in Seq(S), NEW e \in S
  PROVE  /\ Append(s, e) \in Seq(S)
         /\ Len(Append(s, e)) = Len(s) + 1
         /\ \A i \in 1 .. Len(s) : Append(s, e)[i] = s[i]
         /\ Append(s, e)[Len(s) + 1] = e
  OBVIOUS

(***************************************************************************)
(* Tail drops the first element and moves the others up one place:         *)
(* m_queue.pop_front and the delivery of an event.                         *)
(***************************************************************************)
LEMMA TailFacts ==
  ASSUME NEW S, NEW s \in Seq(S), s # << >>
  PROVE  /\ Tail(s) \in Seq(S)
         /\ Len(s) \in Nat \ {0}
         /\ Len(Tail(s)) = Len(s) - 1
         /\ \A i \in 1 .. Len(s) - 1 : Tail(s)[i] = s[i + 1]
         /\ Head(s) = s[1]
         /\ Head(s) \in S
  OBVIOUS

(***************************************************************************)
(* What is in a queue is what was at its front or is in the rest of it.    *)
(***************************************************************************)
LEMMA TailMember ==
  ASSUME NEW S, NEW s \in Seq(S), s # << >>, NEW u
  PROVE  (\E i \in 1 .. Len(s) : s[i] = u)
         <=> (\E i \in 1 .. Len(Tail(s)) : Tail(s)[i] = u) \/ u = Head(s)
<1>0. /\ Len(s) \in Nat \ {0}
      /\ Len(Tail(s)) = Len(s) - 1
      /\ \A i \in 1 .. Len(s) - 1 : Tail(s)[i] = s[i + 1]
      /\ Head(s) = s[1]
  BY TailFacts
<1>1. ASSUME NEW i \in 1 .. Len(s), s[i] = u, u # Head(s)
      PROVE  \E k \in 1 .. Len(Tail(s)) : Tail(s)[k] = u
  <2>1. i - 1 \in 1 .. Len(s) - 1 /\ (i - 1) + 1 = i
    BY <1>0, <1>1
  <2> QED
    BY <1>0, <1>1, <2>1
<1>2. ASSUME NEW i \in 1 .. Len(Tail(s)), Tail(s)[i] = u
      PROVE  \E k \in 1 .. Len(s) : s[k] = u
  <2>1. i + 1 \in 1 .. Len(s) /\ s[i + 1] = u
    BY <1>0, <1>2
  <2> QED
    BY <2>1
<1>3. ASSUME u = Head(s)
      PROVE  \E k \in 1 .. Len(s) : s[k] = u
  BY <1>0, <1>3
<1> QED
  BY <1>1, <1>2, <1>3

(***************************************************************************)
(* A queue of increasing tokens stays increasing when a larger token joins *)
(* it: tokens come from one counter.                                       *)
(***************************************************************************)
LEMMA AppendOrdered ==
  ASSUME NEW s \in Seq(Nat), NEW e \in Nat,
         \A i, j \in 1 .. Len(s) : i < j => s[i] < s[j],
         \A i \in 1 .. Len(s) : s[i] < e
  PROVE  \A i, j \in 1 .. Len(Append(s, e)) : i < j => Append(s, e)[i] < Append(s, e)[j]
<1> SUFFICES ASSUME NEW i \in 1 .. Len(Append(s, e)), NEW j \in 1 .. Len(Append(s, e)), i < j
             PROVE  Append(s, e)[i] < Append(s, e)[j]
  OBVIOUS
<1>1. /\ Len(Append(s, e)) = Len(s) + 1
      /\ \A k \in 1 .. Len(s) : Append(s, e)[k] = s[k]
      /\ Append(s, e)[Len(s) + 1] = e
  BY AppendFacts
<1>2. i \in 1 .. Len(s)
  BY <1>1
<1>3. CASE j \in 1 .. Len(s)
  BY <1>1, <1>2, <1>3
<1>4. CASE j = Len(s) + 1
  BY <1>1, <1>2, <1>4
<1> QED
  BY <1>1, <1>3, <1>4

(***************************************************************************)
(* The state in which the thread has been started and no file has flushed  *)
(* satisfies the inductive invariant.                                      *)
(***************************************************************************)
THEOREM InitIInv == Init => IInv
<1> SUFFICES ASSUME Init PROVE IInv
  OBVIOUS
<1> USE FilesAssumption, MaxTokenAssumption DEF Init
<1>1. TypeOK
  <2>1. /\ serial \in 0 .. MaxToken
        /\ m_runningToken \in Tokens \cup {0} /\ emitToken \in Tokens \cup {0}
        /\ m_flushToken \in [Files -> Tokens \cup {0}]
    BY DEF Tokens
  <2>2. m_queue \in Seq(Tokens) /\ posted \in Seq(Tokens)
    OBVIOUS
  <2>3. m_stopRequested \in BOOLEAN
    OBVIOUS
  <2> QED
    BY <2>1, <2>2, <2>3 DEF TypeOK
<1>2. InOrder
  BY DEF InOrder, Queued
<1>3. JobHasOwner /\ EventsAreOld
  BY DEF JobHasOwner, EventsAreOld
<1>4. WorkerPlace /\ MainPlace
  BY DEF WorkerPlace, MainPlace
<1>5. NoDanglingOwner /\ NoLostWrite /\ ResultAnnounced
  BY DEF NoDanglingOwner, NoLostWrite, ResultAnnounced
<1> QED
  BY <1>1, <1>2, <1>3, <1>4, <1>5 DEF IInv

(***************************************************************************)
(* A file hands a job over, having none or having just taken its result.   *)
(***************************************************************************)
LEMMA HandOver ==
  ASSUME IInv, NEW f \in Files, life[f] = "live",
         m_flushToken[f] = 0 \/ m_flushToken[f] \in m_results,
         enqueue(f, OwnersWithout(m_flushToken[f])),
         m_results' = m_results \ {m_flushToken[f]},
         UNCHANGED <<m_runningToken, life>>
  PROVE  /\ serial' \in 0 .. MaxToken
         /\ m_queue' \in Seq(Tokens)
         /\ m_owners' \subseteq Tokens \X Files
         /\ m_flushToken' \in [Files -> Tokens \cup {0}]
         /\ \A g \in Files : m_flushToken'[g] = IF g = f THEN serial + 1 ELSE m_flushToken[g]
         /\ m_queue' # << >>
         /\ InOrder' /\ JobHasOwner' /\ NoDanglingOwner' /\ NoLostWrite'
         /\ \A u : Queued(u)' <=> Queued(u) \/ u = serial + 1
<1> DEFINE t == m_flushToken[f]
<1> USE FilesAssumption, MaxTokenAssumption DEF enqueue, OwnersWithout, IInv, Tokens
<1>0. /\ serial \in 0 .. MaxToken /\ serial + 1 \in Tokens
      /\ m_queue \in Seq(Tokens) /\ m_queue \in Seq(Nat)
      /\ m_runningToken \in Nat /\ m_results \subseteq Tokens
      /\ m_flushToken \in [Files -> Tokens \cup {0}]
  BY DEF TypeOK
<1>q. /\ m_queue' \in Seq(Tokens)
      /\ Len(m_queue') = Len(m_queue) + 1
      /\ \A i \in 1 .. Len(m_queue) : m_queue'[i] = m_queue[i]
      /\ m_queue'[Len(m_queue) + 1] = serial + 1
      /\ m_queue' # << >>
  BY <1>0, AppendFacts
<1>m. \A u : Queued(u)' <=> Queued(u) \/ u = serial + 1
  BY <1>0, <1>q DEF Queued
<1>f. \A g \in Files : m_flushToken'[g] = IF g = f THEN serial + 1 ELSE m_flushToken[g]
  BY <1>0
<1>t. /\ ~Queued(t)
      /\ t # 0 => t # m_runningToken
  BY <1>0 DEF InOrder, Queued
<1>1. /\ m_owners' \subseteq Tokens \X Files
      /\ m_flushToken' \in [Files -> Tokens \cup {0}]
  BY <1>0 DEF TypeOK
<1>2. InOrder'
  <2>1. \A i \in 1 .. Len(m_queue') : m_queue'[i] <= serial' /\ m_runningToken' < m_queue'[i]
    BY <1>0, <1>q DEF InOrder
  <2>2. \A i, j \in 1 .. Len(m_queue') : i < j => m_queue'[i] < m_queue'[j]
    <3>1. \A i \in 1 .. Len(m_queue) : m_queue[i] < serial + 1
      BY <1>0 DEF InOrder
    <3>2. \A i, j \in 1 .. Len(m_queue) : i < j => m_queue[i] < m_queue[j]
      BY DEF InOrder
    <3>3. \A i, j \in 1 .. Len(Append(m_queue, serial + 1)) :
             i < j => Append(m_queue, serial + 1)[i] < Append(m_queue, serial + 1)[j]
      <4> HIDE DEF enqueue, IInv
      <4>1. serial + 1 \in Nat
        BY <1>0
      <4> QED
        BY <4>1, <1>0, <3>1, <3>2, AppendOrdered
    <3> QED
      BY <3>3
  <2>3. m_runningToken' <= serial'
    BY <1>0 DEF InOrder
  <2>4. \A u \in m_results' : u <= serial' /\ u # m_runningToken' /\ ~Queued(u)'
    BY <1>0, <1>m DEF InOrder
  <2> QED
    BY <2>1, <2>2, <2>3, <2>4 DEF InOrder
<1>3. JobHasOwner'
  <2>1. \A i \in 1 .. Len(m_queue') : \E g \in Files : m_flushToken'[g] = m_queue'[i]
    <3> SUFFICES ASSUME NEW i \in 1 .. Len(m_queue')
                 PROVE  \E g \in Files : m_flushToken'[g] = m_queue'[i]
      OBVIOUS
    <3>1. CASE i = Len(m_queue) + 1
      BY <3>1, <1>q, <1>f
    <3>2. CASE i \in 1 .. Len(m_queue)
      <4>1. PICK g \in Files : m_flushToken[g] = m_queue[i]
        BY <3>2 DEF JobHasOwner
      <4>2. m_queue[i] # 0 /\ Queued(m_queue[i])
        BY <3>2, <1>0 DEF Queued
      <4>3. g # f
        BY <4>1, <4>2, <1>t
      <4> QED
        BY <4>1, <4>3, <3>2, <1>q, <1>f
    <3> QED
      BY <3>1, <3>2, <1>0, <1>q
  <2>2. m_runningToken' # 0 => \E g \in Files : m_flushToken'[g] = m_runningToken'
    BY <1>0, <1>f, <1>t DEF JobHasOwner
  <2>3. \A u \in m_results' : \E g \in Files : m_flushToken'[g] = u
    BY <1>0, <1>f DEF JobHasOwner
  <2>4. \A g \in Files : m_flushToken'[g] <= serial'
    BY <1>0, <1>f DEF JobHasOwner
  <2>5. \A g, h \in Files : m_flushToken'[g] = m_flushToken'[h] /\ m_flushToken'[g] # 0 => g = h
    BY <1>0, <1>f DEF JobHasOwner
  <2> QED
    BY <2>1, <2>2, <2>3, <2>4, <2>5 DEF JobHasOwner
<1>4. NoDanglingOwner'
  BY <1>0, <1>f DEF NoDanglingOwner, TypeOK
<1>5. NoLostWrite'
  <2> SUFFICES ASSUME NEW g \in Files, NEW u, u = m_flushToken'[g], u # 0
               PROVE  /\ Queued(u)' \/ m_runningToken' = u \/ u \in m_results'
                      /\ <<u, g>> \in m_owners'
    BY DEF NoLostWrite, Queued
  <2>1. CASE g = f
    BY <2>1, <1>0, <1>f, <1>m
  <2>2. CASE g # f
    BY <2>2, <1>0, <1>f, <1>m DEF NoLostWrite, JobHasOwner
  <2> QED
    BY <2>1, <2>2
<1> QED
  BY <1>0, <1>q, <1>m, <1>f, <1>1, <1>2, <1>3, <1>4, <1>5

(***************************************************************************)
(* A file takes the result of its job and hands nothing over; it may be    *)
(* the last thing its destructor does.                                     *)
(***************************************************************************)
LEMMA TakeResult ==
  ASSUME IInv, NEW f \in Files, m_flushToken[f] \in m_results,
         m_owners' = OwnersWithout(m_flushToken[f]),
         m_flushToken' = [m_flushToken EXCEPT ![f] = 0],
         m_results' = m_results \ {m_flushToken[f]},
         UNCHANGED <<serial, m_queue, m_runningToken>>,
         \A g \in Files : g # f => life'[g] = life[g]
  PROVE  /\ m_owners' \subseteq Tokens \X Files
         /\ m_flushToken' \in [Files -> Tokens \cup {0}]
         /\ \A g \in Files : m_flushToken'[g] = IF g = f THEN 0 ELSE m_flushToken[g]
         /\ InOrder' /\ JobHasOwner' /\ NoDanglingOwner' /\ NoLostWrite'
<1> DEFINE t == m_flushToken[f]
<1> USE FilesAssumption, MaxTokenAssumption DEF OwnersWithout, IInv, Tokens
<1>0. /\ serial \in Nat /\ m_queue \in Seq(Tokens)
      /\ m_runningToken \in Nat /\ m_results \subseteq Tokens /\ t # 0
      /\ m_flushToken \in [Files -> Tokens \cup {0}]
  BY DEF TypeOK
<1>f. \A g \in Files : m_flushToken'[g] = IF g = f THEN 0 ELSE m_flushToken[g]
  BY <1>0
<1>t. ~Queued(t) /\ t # m_runningToken
  BY <1>0 DEF InOrder
<1>m. \A u : Queued(u)' <=> Queued(u)
  BY DEF Queued
<1>1. /\ m_owners' \subseteq Tokens \X Files
      /\ m_flushToken' \in [Files -> Tokens \cup {0}]
  BY <1>0 DEF TypeOK
<1>2. InOrder'
  BY <1>0, <1>m DEF InOrder
<1>3. JobHasOwner'
  <2>1. \A i \in 1 .. Len(m_queue') : \E g \in Files : m_flushToken'[g] = m_queue'[i]
    BY <1>0, <1>f, <1>t DEF JobHasOwner, Queued
  <2>2. m_runningToken' # 0 => \E g \in Files : m_flushToken'[g] = m_runningToken'
    BY <1>0, <1>f, <1>t DEF JobHasOwner
  <2>3. \A u \in m_results' : \E g \in Files : m_flushToken'[g] = u
    BY <1>0, <1>f DEF JobHasOwner
  <2>4. /\ \A g \in Files : m_flushToken'[g] <= serial'
        /\ \A g, h \in Files : m_flushToken'[g] = m_flushToken'[h] /\ m_flushToken'[g] # 0
                               => g = h
    BY <1>0, <1>f DEF JobHasOwner
  <2> QED
    BY <2>1, <2>2, <2>3, <2>4 DEF JobHasOwner
<1>4. NoDanglingOwner'
  BY <1>0, <1>f DEF NoDanglingOwner, TypeOK
<1>5. NoLostWrite'
  <2> SUFFICES ASSUME NEW g \in Files, NEW u, u = m_flushToken'[g], u # 0
               PROVE  /\ Queued(u)' \/ m_runningToken' = u \/ u \in m_results'
                      /\ <<u, g>> \in m_owners'
    BY DEF NoLostWrite, Queued
  <2> QED
    BY <1>0, <1>f, <1>m DEF NoLostWrite, JobHasOwner
<1> QED
  BY <1>f, <1>1, <1>2, <1>3, <1>4, <1>5

(***************************************************************************)
(* A job that joins the queue is newer than every event: when no new event *)
(* appears, the events stay old.                                           *)
(***************************************************************************)
LEMMA EventsStayOld ==
  ASSUME TypeOK, EventsAreOld,
         serial' = serial + 1, m_runningToken' = m_runningToken, emitToken' = emitToken,
         \A u : Queued(u)' <=> Queued(u) \/ u = serial + 1,
         \A i \in 1 .. Len(posted') : \E k \in 1 .. Len(posted) : posted'[i] = posted[k]
  PROVE  EventsAreOld'
<1>0. /\ serial \in Nat /\ emitToken \in Nat
      /\ \A i \in 1 .. Len(posted) : posted[i] \in Nat
  BY MaxTokenAssumption DEF TypeOK, Tokens
<1>1. ASSUME NEW i \in 1 .. Len(posted')
      PROVE  (posted[i] <= serial /\ posted[i] # m_runningToken /\ ~Queued(posted[i]))'
  <2>1. PICK k \in 1 .. Len(posted) : posted'[i] = posted[k]
    BY <1>1
  <2>2. posted[k] <= serial /\ posted[k] # m_runningToken /\ ~Queued(posted[k])
    BY DEF EventsAreOld
  <2>3. posted[k] <= serial + 1 /\ posted[k] # serial + 1
    BY <1>0, <2>2
  <2> QED
    BY <2>1, <2>2, <2>3
<1>2. emitToken <= serial /\ emitToken <= serial + 1 /\ emitToken # serial + 1
  BY <1>0 DEF EventsAreOld
<1>3. emitToken # 0 => emitToken # m_runningToken /\ ~Queued(emitToken)'
  BY <1>2 DEF EventsAreOld
<1> QED
  BY <1>1, <1>2, <1>3 DEF EventsAreOld

(***************************************************************************)
(* Every step of the main thread and of the worker keeps the inductive     *)
(* invariant. One step per action; an action that hands a job over or      *)
(* takes a result rests on HandOver or TakeResult.                         *)
(***************************************************************************)
LEMMA NextIInv == IInv /\ [Next]_vars => IInv'
<1> SUFFICES ASSUME IInv, [Next]_vars PROVE IInv'
  OBVIOUS
<1> USE FilesAssumption, MaxTokenAssumption
<1>1. CASE UNCHANGED vars
  BY <1>1 DEF vars, IInv, TypeOK, InOrder, JobHasOwner, EventsAreOld, WorkerPlace, MainPlace,
     NoDanglingOwner, NoLostWrite, ResultAnnounced, Tokens, Queued
<1>2. ASSUME NEW f \in Files, flushBufferAsync(f) PROVE IInv'
  <2> USE <1>2 DEF flushBufferAsync, threadVars
  <2>1. OwnersWithout(0) = m_owners /\ m_results = m_results \ {0}
    BY DEF IInv, TypeOK, Tokens, OwnersWithout
  <2>2. /\ serial' \in 0 .. MaxToken
        /\ m_queue' \in Seq(Tokens)
        /\ m_owners' \subseteq Tokens \X Files
        /\ m_flushToken' \in [Files -> Tokens \cup {0}]
        /\ \A g \in Files : m_flushToken'[g] = IF g = f THEN serial + 1 ELSE m_flushToken[g]
        /\ InOrder' /\ JobHasOwner' /\ NoDanglingOwner' /\ NoLostWrite'
        /\ \A u : Queued(u)' <=> Queued(u) \/ u = serial + 1
    BY <2>1, HandOver
  <2>3. TypeOK' /\ WorkerPlace' /\ MainPlace' /\ ResultAnnounced'
    BY <2>2 DEF enqueue, IInv, TypeOK, WorkerPlace, MainPlace, ResultAnnounced
  <2>4. EventsAreOld'
    <3>1. \A u : u <= serial => u # serial + 1
      BY DEF IInv, TypeOK
    <3>2. serial \in Nat /\ serial' = serial + 1 /\ posted \in Seq(Tokens) /\ emitToken \in Nat
      BY DEF enqueue, IInv, TypeOK, Tokens
    <3> QED
      BY <2>2, <3>1, <3>2 DEF IInv, EventsAreOld, Tokens
  <2> QED
    BY <2>2, <2>3, <2>4 DEF IInv
<1>3. ASSUME NEW f \in Files, flushBuffer(f) PROVE IInv'
  BY <1>3 DEF flushBuffer, threadVars, IInv, TypeOK, InOrder, JobHasOwner, EventsAreOld, WorkerPlace,
     MainPlace, NoDanglingOwner, NoLostWrite, ResultAnnounced, Tokens, Queued
<1>4. ASSUME NEW f \in Files, destroyFile(f) PROVE IInv'
  <2> USE <1>4 DEF destroyFile, threadVars, IInv
  <2>1. TypeOK' /\ EventsAreOld' /\ WorkerPlace' /\ ResultAnnounced'
    BY DEF TypeOK, Queued, EventsAreOld, WorkerPlace, ResultAnnounced
  <2>2. InOrder' /\ JobHasOwner' /\ NoLostWrite'
    BY DEF InOrder, JobHasOwner, NoLostWrite, Queued
  <2>3. MainPlace'
    BY DEF MainPlace, TypeOK
  <2>4. NoDanglingOwner'
    BY DEF NoDanglingOwner, TypeOK, Tokens
  <2> QED
    BY <2>1, <2>2, <2>3, <2>4
<1>5. CASE waitForSleep
  BY <1>5 DEF waitForSleep, threadVars, IInv, TypeOK, InOrder, JobHasOwner, EventsAreOld, WorkerPlace,
     MainPlace, NoDanglingOwner, NoLostWrite, ResultAnnounced, Tokens, Queued
<1>6. CASE waitForReturn
  <2> DEFINE f == caller
             t == m_flushToken[f]
  <2> USE <1>6 DEF waitForReturn
  <2>0. f \in Files /\ t \in Tokens /\ life[f] # "gone"
    BY DEF IInv, MainPlace, TypeOK
  <2>1. t \in m_results
    <3>1. t # 0
      BY <2>0 DEF Tokens
    <3>2. Queued(t) \/ m_runningToken = t \/ t \in m_results
      <4> HIDE DEF waitForReturn
      <4> QED
        BY <2>0, <3>1 DEF IInv, NoLostWrite
    <3>3. ~MustWait(t)
      OBVIOUS
    <3> HIDE DEF t
    <3> QED
      BY <3>2, <3>3, Zenon DEF MustWait, Queued
  <2>2. applyFlushResult(f, t, OwnersWithout(t))
    BY <2>1
  <2>3. \A g \in Files : life[g] = "destroying" => g = f
    BY DEF IInv, MainPlace
  <2>4. CASE life[f] = "live" /\ enqueue(f, OwnersWithout(t))
    <3>1. UNCHANGED <<m_runningToken, life>>
      BY <2>0, <2>4 DEF IInv, TypeOK
    <3>2. /\ serial' \in 0 .. MaxToken
          /\ m_queue' \in Seq(Tokens)
          /\ m_owners' \subseteq Tokens \X Files
          /\ m_flushToken' \in [Files -> Tokens \cup {0}]
          /\ \A g \in Files : m_flushToken'[g] = IF g = f THEN serial + 1 ELSE m_flushToken[g]
          /\ InOrder' /\ JobHasOwner' /\ NoDanglingOwner' /\ NoLostWrite'
          /\ \A u : Queued(u)' <=> Queued(u) \/ u = serial + 1
      BY <2>0, <2>1, <2>4, <3>1, HandOver
    <3>3. TypeOK' /\ WorkerPlace' /\ MainPlace' /\ ResultAnnounced'
      BY <2>0, <2>3, <2>4, <3>1, <3>2
         DEF enqueue, IInv, TypeOK, WorkerPlace, MainPlace, ResultAnnounced
    <3>4. EventsAreOld'
      <4>1. serial' = serial + 1 /\ UNCHANGED <<m_runningToken, emitToken, posted>>
        BY <2>4 DEF enqueue
      <4> QED
        BY <3>2, <4>1, EventsStayOld DEF IInv
    <3> QED
      BY <3>2, <3>3, <3>4 DEF IInv
  <2>5. CASE /\ m_owners' = OwnersWithout(t)
             /\ m_flushToken' = [m_flushToken EXCEPT ![f] = IF @ = t THEN 0 ELSE @]
             /\ UNCHANGED <<serial, m_queue, worker>>
    <3>1. /\ m_flushToken' = [m_flushToken EXCEPT ![f] = 0]
          /\ \A g \in Files : g # f => life'[g] = life[g]
      BY <2>0, <2>5 DEF IInv, TypeOK
    <3>2. /\ m_owners' \subseteq Tokens \X Files
          /\ m_flushToken' \in [Files -> Tokens \cup {0}]
          /\ \A g \in Files : m_flushToken'[g] = IF g = f THEN 0 ELSE m_flushToken[g]
          /\ InOrder' /\ JobHasOwner' /\ NoDanglingOwner' /\ NoLostWrite'
      BY <2>0, <2>1, <2>5, <3>1, TakeResult
    <3>3. TypeOK' /\ EventsAreOld' /\ WorkerPlace' /\ MainPlace' /\ ResultAnnounced'
      BY <2>0, <2>3, <2>5, <3>2
         DEF IInv, TypeOK, Queued, EventsAreOld, WorkerPlace, MainPlace, ResultAnnounced
    <3> QED
      BY <3>2, <3>3 DEF IInv
  <2> QED
    BY <2>2, <2>4, <2>5 DEF applyFlushResult
<1>7. CASE onJobDone
  <2> DEFINE t == Head(posted)
  <2> USE <1>7 DEF onJobDone
  <2>0. /\ posted \in Seq(Tokens) /\ posted # << >> /\ t \in Tokens
        /\ posted' \in Seq(Tokens)
        /\ Len(posted') = Len(posted) - 1 /\ Len(posted) \in Nat \ {0}
        /\ \A i \in 1 .. Len(posted) - 1 : posted'[i] = posted[i + 1]
        /\ t = posted[1]
    BY TailFacts DEF IInv, TypeOK
  <2>1. ResultAnnounced'
    <3> SUFFICES ASSUME NEW u \in m_results, u # t
                 PROVE  emitToken' = u \/ \E i \in 1 .. Len(posted') : posted'[i] = u
      BY DEF ResultAnnounced
    <3>1. CASE emitToken = u
      BY <3>1
    <3>2. ASSUME NEW i \in 1 .. Len(posted), posted[i] = u
          PROVE  \E k \in 1 .. Len(posted') : posted'[k] = u
      <4>1. i # 1 /\ i - 1 \in 1 .. Len(posted')
        BY <2>0, <3>2
      <4>2. posted'[i - 1] = u
        BY <2>0, <3>2, <4>1
      <4> QED
        BY <4>1, <4>2
    <3> QED
      BY <3>1, <3>2 DEF IInv, ResultAnnounced
  <2>2. CASE t \in m_results /\ \E o \in m_owners : o[1] = t /\ applyFlushResult(o[2], t, OwnersWithout(t))
    <3>1. PICK o \in m_owners : o[1] = t /\ applyFlushResult(o[2], t, OwnersWithout(t))
      BY <2>2
    <3> DEFINE f == o[2]
    <3>2. f \in Files /\ m_flushToken[f] = t /\ t # 0
      BY <2>0, <3>1 DEF IInv, NoDanglingOwner, TypeOK, Tokens
    <3>3. CASE life[f] = "live" /\ enqueue(f, OwnersWithout(t))
      <4>1. /\ serial' \in 0 .. MaxToken
            /\ m_queue' \in Seq(Tokens)
            /\ m_owners' \subseteq Tokens \X Files
            /\ m_flushToken' \in [Files -> Tokens \cup {0}]
            /\ \A g \in Files : m_flushToken'[g] = IF g = f THEN serial + 1 ELSE m_flushToken[g]
            /\ InOrder' /\ JobHasOwner' /\ NoDanglingOwner' /\ NoLostWrite'
            /\ \A u : Queued(u)' <=> Queued(u) \/ u = serial + 1
        <5> HIDE DEF f
        <5>1. life[f] = "live" /\ enqueue(f, OwnersWithout(m_flushToken[f]))
          BY <3>2, <3>3
        <5>2. m_results' = m_results \ {m_flushToken[f]} /\ m_flushToken[f] \in m_results
          BY <3>2, <2>2
        <5>3. UNCHANGED <<m_runningToken, life>>
          OBVIOUS
        <5> HIDE DEF onJobDone
        <5> QED
          BY <3>2, <5>1, <5>2, <5>3, HandOver
      <4>2. TypeOK' /\ WorkerPlace' /\ MainPlace'
        BY <2>0, <3>2, <3>3, <4>1 DEF enqueue, IInv, TypeOK, WorkerPlace, MainPlace
      <4>3. EventsAreOld'
        <5>1. serial' = serial + 1 /\ UNCHANGED <<m_runningToken, emitToken>>
          BY <3>3 DEF enqueue
        <5>2. ASSUME NEW i \in 1 .. Len(posted')
              PROVE  \E k \in 1 .. Len(posted) : posted'[i] = posted[k]
          <6>1. i + 1 \in 1 .. Len(posted) /\ posted'[i] = posted[i + 1]
            BY <2>0, <5>2
          <6> QED
            BY <6>1
        <5> HIDE DEF onJobDone, f
        <5> QED
          BY <4>1, <5>1, <5>2, EventsStayOld DEF IInv
      <4> QED
        BY <2>1, <4>1, <4>2, <4>3 DEF IInv
    <3>4. CASE /\ m_owners' = OwnersWithout(t)
               /\ m_flushToken' = [m_flushToken EXCEPT ![f] = IF @ = t THEN 0 ELSE @]
               /\ UNCHANGED <<serial, m_queue, worker>>
      <4>1. /\ m_owners' \subseteq Tokens \X Files
            /\ m_flushToken' \in [Files -> Tokens \cup {0}]
            /\ \A g \in Files : m_flushToken'[g] = IF g = f THEN 0 ELSE m_flushToken[g]
            /\ InOrder' /\ JobHasOwner' /\ NoDanglingOwner' /\ NoLostWrite'
        <5> HIDE DEF f
        <5>1. m_owners' = OwnersWithout(m_flushToken[f])
          BY <3>2, <3>4
        <5>2. m_flushToken' = [m_flushToken EXCEPT ![f] = 0]
          BY <3>2, <3>4 DEF IInv, TypeOK
        <5>3. m_results' = m_results \ {m_flushToken[f]} /\ m_flushToken[f] \in m_results
          BY <3>2, <2>2
        <5>4. UNCHANGED <<serial, m_queue, m_runningToken>> /\ \A g \in Files : life'[g] = life[g]
          BY <3>4
        <5> HIDE DEF onJobDone
        <5> QED
          BY <3>2, <5>1, <5>2, <5>3, <5>4, TakeResult
      <4>2. TypeOK' /\ EventsAreOld' /\ WorkerPlace' /\ MainPlace'
        BY <2>0, <3>2, <3>4, <4>1 DEF IInv, TypeOK, Queued, EventsAreOld, WorkerPlace, MainPlace
      <4> QED
        BY <2>1, <4>1, <4>2 DEF IInv
    <3> QED
      BY <3>1, <3>3, <3>4 DEF applyFlushResult
  <2>3. CASE /\ t \notin m_results \/ \A o \in m_owners : o[1] # t
             /\ m_owners' = OwnersWithout(t)
             /\ UNCHANGED <<serial, m_queue, worker, m_flushToken>>
    <3>1. t \notin m_results
      <4> SUFFICES ASSUME t \in m_results PROVE FALSE
        OBVIOUS
      <4>1. PICK f \in Files : m_flushToken[f] = t
        BY DEF IInv, JobHasOwner
      <4>2. <<t, f>> \in m_owners
        BY <4>1, <2>0 DEF IInv, NoLostWrite, Tokens
      <4>3. <<t, f>>[1] = t
        OBVIOUS
      <4> QED
        BY <4>2, <4>3, <2>3
    <3>2. m_results' = m_results
      BY <3>1
    <3>3. \A f \in Files : m_flushToken[f] # t
      <4> SUFFICES ASSUME NEW f \in Files, m_flushToken[f] = t PROVE FALSE
        OBVIOUS
      <4>1. ~Queued(posted[1]) /\ m_runningToken # posted[1]
        <5>1. 1 \in 1 .. Len(posted)
          BY <2>0
        <5> QED
          BY <5>1, Zenon DEF IInv, EventsAreOld
      <4>2. Queued(m_flushToken[f]) \/ m_runningToken = m_flushToken[f]
        <5>1. m_flushToken[f] # 0 /\ m_flushToken[f] \notin m_results
          BY <2>0, <3>1 DEF Tokens
        <5> QED
          BY <5>1, Zenon DEF IInv, NoLostWrite
      <4>3. m_flushToken[f] = posted[1]
        BY <2>0
      <4> QED
        BY <4>1, <4>2, <4>3, Zenon
    <3>4. m_owners' = m_owners
      BY <2>3, <3>3 DEF OwnersWithout, IInv, NoDanglingOwner, TypeOK
    <3>5. InOrder' /\ JobHasOwner' /\ NoDanglingOwner' /\ NoLostWrite'
      BY <2>3, <3>2, <3>4 DEF IInv, InOrder, JobHasOwner, NoDanglingOwner, NoLostWrite, Queued
    <3>6. TypeOK' /\ WorkerPlace' /\ MainPlace'
      BY <2>0, <2>3, <3>2, <3>4 DEF IInv, TypeOK, WorkerPlace, MainPlace
    <3>7. EventsAreOld'
      BY <2>0, <2>3 DEF IInv, EventsAreOld, Queued
    <3> QED
      BY <2>1, <3>5, <3>6, <3>7 DEF IInv
  <2> QED
    BY <2>2, <2>3
<1>8. CASE requestStop
  BY <1>8 DEF requestStop, IInv, TypeOK, InOrder, JobHasOwner, EventsAreOld, WorkerPlace,
     MainPlace, NoDanglingOwner, NoLostWrite, ResultAnnounced, Tokens, Queued
<1>9. CASE threadJoined
  <2> USE <1>9 DEF threadJoined, threadVars, IInv
  <2>1. m_results = {}
    BY DEF MainPlace, JobHasOwner, TypeOK, Tokens
  <2> QED
    BY <2>1 DEF TypeOK, InOrder, JobHasOwner, EventsAreOld, WorkerPlace, MainPlace,
       NoDanglingOwner, NoLostWrite, ResultAnnounced, Queued
<1>10. CASE runSleep \/ runReturn
  <2> USE <1>10 DEF runSleep, runReturn, threadVars, IInv
  <2>1. TypeOK' /\ WorkerPlace' /\ MainPlace'
    BY DEF TypeOK, WorkerPlace, MainPlace
  <2>2. InOrder' /\ JobHasOwner' /\ EventsAreOld'
    BY DEF InOrder, JobHasOwner, EventsAreOld, Queued
  <2>3. NoDanglingOwner' /\ NoLostWrite' /\ ResultAnnounced'
    BY DEF NoDanglingOwner, NoLostWrite, ResultAnnounced, Queued
  <2> QED
    BY <2>1, <2>2, <2>3
<1>11. CASE runTake
  <2> USE <1>11 DEF runTake, IInv
  <2>0. /\ m_queue \in Seq(Tokens) /\ serial \in Nat
        /\ m_queue' \in Seq(Tokens)
        /\ Len(m_queue') = Len(m_queue) - 1 /\ Len(m_queue) \in Nat \ {0}
        /\ \A i \in 1 .. Len(m_queue) - 1 : m_queue'[i] = m_queue[i + 1]
        /\ m_runningToken' = m_queue[1] /\ m_queue[1] \in Tokens /\ m_runningToken = 0
    BY TailFacts DEF TypeOK, WorkerPlace
  <2>m. \A u : Queued(u) <=> Queued(u)' \/ u = m_runningToken'
    BY <2>0 DEF Queued
  <2>1. TypeOK' /\ WorkerPlace' /\ MainPlace'
    BY <2>0 DEF TypeOK, WorkerPlace, MainPlace, Tokens
  <2>2. InOrder'
    <3>1. \A i, j \in 1 .. Len(m_queue') : i < j => m_queue'[i] < m_queue'[j]
      BY <2>0 DEF InOrder
    <3>2. \A i \in 1 .. Len(m_queue') : m_queue'[i] <= serial' /\ m_runningToken' < m_queue'[i]
      BY <2>0 DEF InOrder
    <3>3. m_runningToken' <= serial' /\ Queued(m_queue[1])
      BY <2>0 DEF InOrder, Queued
    <3>4. \A u \in m_results' : u <= serial' /\ u # m_runningToken' /\ ~Queued(u)'
      BY <2>0, <2>m, <3>3 DEF InOrder
    <3> QED
      BY <3>1, <3>2, <3>3, <3>4 DEF InOrder
  <2>3. JobHasOwner'
    BY <2>0 DEF JobHasOwner
  <2>4. EventsAreOld'
    BY <2>0, <2>m DEF EventsAreOld, TypeOK
  <2>5. NoLostWrite'
    <3> SUFFICES ASSUME NEW g \in Files, NEW u, u = m_flushToken[g], u # 0
                 PROVE  /\ Queued(u)' \/ m_runningToken' = u \/ u \in m_results'
                        /\ <<u, g>> \in m_owners'
      BY DEF NoLostWrite, Queued
    <3> QED
      BY <2>0, <2>m DEF NoLostWrite
  <2>6. NoDanglingOwner' /\ ResultAnnounced'
    BY DEF NoDanglingOwner, ResultAnnounced
  <2> QED
    BY <2>1, <2>2, <2>3, <2>4, <2>5, <2>6
<1>12. CASE runPublish
  <2> USE <1>12 DEF runPublish, IInv
  <2>1. TypeOK' /\ WorkerPlace' /\ MainPlace'
    BY DEF TypeOK, WorkerPlace, MainPlace, Tokens
  <2>0. /\ m_runningToken \in Tokens /\ emitToken = 0 /\ m_queue \in Seq(Tokens)
        /\ serial \in Nat /\ ~Queued(m_runningToken)
    BY DEF WorkerPlace, TypeOK, Tokens, InOrder, Queued
  <2>m. \A u : Queued(u)' <=> Queued(u)
    BY DEF Queued
  <2>2. InOrder'
    <3>1. \A u \in m_results' : u <= serial' /\ u # m_runningToken' /\ ~Queued(u)'
      BY <2>0, <2>m DEF InOrder, TypeOK, Tokens
    <3>2. \A i \in 1 .. Len(m_queue') : m_queue'[i] <= serial' /\ m_runningToken' < m_queue'[i]
      BY <2>0 DEF InOrder, Tokens
    <3>3. /\ \A i, j \in 1 .. Len(m_queue') : i < j => m_queue'[i] < m_queue'[j]
          /\ m_runningToken' <= serial'
      BY <2>0 DEF InOrder
    <3> QED
      BY <3>1, <3>2, <3>3 DEF InOrder
  <2>5. JobHasOwner'
    <3>1. \A u \in m_results' : \E f \in Files : m_flushToken'[f] = u
      BY <2>0 DEF JobHasOwner, Tokens
    <3> QED
      BY <3>1 DEF JobHasOwner
  <2>6. EventsAreOld'
    BY <2>0 DEF EventsAreOld, InOrder, Queued, TypeOK, Tokens
  <2>3. NoDanglingOwner' /\ NoLostWrite'
    BY DEF NoDanglingOwner, NoLostWrite, Queued
  <2>4. ResultAnnounced'
    BY <2>0 DEF ResultAnnounced, TypeOK, Tokens
  <2> QED
    BY <2>1, <2>2, <2>3, <2>4, <2>5, <2>6
<1>13. CASE runEmit
  <2> USE <1>13 DEF runEmit, IInv
  <2>0. /\ emitToken \in Tokens /\ posted \in Seq(Tokens)
        /\ posted' \in Seq(Tokens)
        /\ Len(posted') = Len(posted) + 1 /\ Len(posted) \in Nat
        /\ \A i \in 1 .. Len(posted) : posted'[i] = posted[i]
        /\ posted'[Len(posted) + 1] = emitToken
    BY AppendFacts DEF TypeOK, WorkerPlace
  <2>1. TypeOK' /\ WorkerPlace' /\ MainPlace'
    BY <2>0 DEF TypeOK, WorkerPlace, MainPlace
  <2>2. InOrder' /\ JobHasOwner' /\ NoDanglingOwner' /\ NoLostWrite'
    BY DEF InOrder, JobHasOwner, NoDanglingOwner, NoLostWrite, Queued
  <2>3. EventsAreOld'
    BY <2>0 DEF EventsAreOld, Queued, TypeOK, Tokens
  <2>4. ResultAnnounced'
    BY <2>0 DEF ResultAnnounced, TypeOK
  <2> QED
    BY <2>1, <2>2, <2>3, <2>4
<1>14. CASE Ended
  BY <1>14, <1>1 DEF Ended
<1> QED
  BY <1>1, <1>2, <1>3, <1>4, <1>5, <1>6, <1>7, <1>8, <1>9, <1>10, <1>11, <1>12, <1>13, <1>14
     DEF Next, MainNext, WorkerNext

(***************************************************************************)
(* In every behaviour, for any set of files and any number of jobs: no     *)
(* owner outlives its file's wait for the job (the pointer jobFinished     *)
(* looks up is a live file's), a job a file waits for is queued, running   *)
(* or its result is there, a result nobody took has an event on its way,   *)
(* and the worker stops only once it has written everything.               *)
(***************************************************************************)
THEOREM Safety == Spec => [](TypeOK /\ NoDanglingOwner /\ NoJobLost)
<1>1. IInv => StopDropsNothing
  BY DEF IInv, StopDropsNothing, WorkerPlace, MainPlace, JobHasOwner, TypeOK, Tokens
<1>2. IInv => TypeOK /\ NoDanglingOwner /\ NoJobLost
  BY <1>1 DEF IInv, NoJobLost
<1> QED
  BY <1>2, InitIInv, NextIInv, PTL DEF Spec

(***************************************************************************)
(* A step of the thread is, seen as the stage each job is in, one step of  *)
(* the abstract queue of jobs or no step at all.                           *)
(***************************************************************************)
LEMMA StepSimulates == IInv /\ IInv' /\ [Next]_vars => [Jobs!Next]_StageMap
<1> SUFFICES ASSUME IInv, IInv', [Next]_vars
             PROVE  Jobs!Next \/ StageMap' = StageMap
  OBVIOUS
<1> USE MaxTokenAssumption
<1>0. /\ serial \in Nat /\ m_runningToken \in Nat /\ m_queue \in Seq(Tokens)
      /\ m_results \subseteq Tokens /\ Tokens \subseteq Nat
  BY DEF IInv, TypeOK, Tokens
<1>1. ASSUME NEW f \in Files, m_flushToken[f] = 0 \/ m_flushToken[f] \in m_results,
             enqueue(f, OwnersWithout(m_flushToken[f])),
             m_results' = m_results \ {m_flushToken[f]},
             UNCHANGED m_runningToken
      PROVE  Jobs!Next
  <2> DEFINE t == m_flushToken[f]
             u == serial + 1
  <2>1. serial' = u /\ u \in Tokens /\ u # t
    BY <1>0, <1>1 DEF enqueue, Tokens, IInv, InOrder
  <2>2. \A v : Queued(v)' <=> Queued(v) \/ v = u
    BY <1>0, <1>1, <2>1, AppendFacts DEF enqueue, Queued
  <2>3. t # 0 => t \in Tokens /\ t \in m_results /\ ~Queued(t) /\ t # m_runningToken /\ t <= serial
    BY <1>0, <1>1 DEF IInv, InOrder
  <2>4. \A v \in Tokens : StageOf(v)' = IF v = u THEN "pending"
                                       ELSE IF v = t THEN "taken" ELSE StageOf(v)
    <3> SUFFICES ASSUME NEW v \in Tokens
                 PROVE  StageOf(v)' = IF v = u THEN "pending"
                                      ELSE IF v = t THEN "taken" ELSE StageOf(v)
      OBVIOUS
    <3>1. CASE v = u
      BY <1>0, <2>1, <2>2, <3>1 DEF StageOf
    <3>2. CASE v = t
      BY <1>0, <1>1, <2>1, <2>2, <2>3, <3>2 DEF StageOf, Tokens
    <3>3. CASE v # u /\ v # t
      <4>1. v > serial' <=> v > serial
        BY <1>0, <2>1, <3>3
      <4>2. Queued(v)' <=> Queued(v)
        BY <2>2, <3>3
      <4>3. v \in m_results' <=> v \in m_results
        BY <1>1, <3>3
      <4> QED
        BY <1>1, <3>3, <4>1, <4>2, <4>3 DEF StageOf
    <3> QED
      BY <3>1, <3>2, <3>3
  <2>5. StageOf(u) = "unused" /\ \A v \in Tokens : v < u => StageOf(v) # "unused"
    BY <1>0, <2>1 DEF StageOf
  <2>6. Jobs!Fresh(u)
    BY <2>1, <2>5 DEF Jobs!Fresh, Jobs!Tokens, StageMap, Tokens
  <2>7. CASE t = 0
    <3>0. \A v \in Tokens : StageOf(v)' = IF v = u THEN "pending" ELSE StageOf(v)
      BY <2>4, <2>7 DEF Tokens
    <3>1. StageMap' = [StageMap EXCEPT ![u] = "pending"]
      BY <2>1, <3>0 DEF StageMap
    <3> QED
      BY <2>1, <2>6, <3>1 DEF Jobs!Next, Jobs!Submit, Jobs!Tokens, Tokens
  <2>8. CASE t # 0
    <3>1. StageMap' = [StageMap EXCEPT ![t] = "taken", ![u] = "pending"]
      BY <2>1, <2>3, <2>4, <2>8 DEF StageMap
    <3>2. StageOf(t) = "done"
      <4> HIDE DEF t
      <4>1. t \in Nat /\ t <= serial /\ ~(t > serial) /\ t \in m_results
        BY <1>0, <2>3, <2>8 DEF Tokens
      <4>2. ~(Queued(t) \/ m_runningToken = t)
        BY <2>3, <2>8
      <4> QED
        BY <4>1, <4>2 DEF StageOf
    <3>3. StageMap[t] = "done" /\ t \in Tokens
      BY <2>3, <2>8, <3>2 DEF StageMap
    <3> QED
      BY <2>1, <2>6, <3>1, <3>3 DEF Jobs!Next, Jobs!Exchange, Jobs!Tokens, Tokens
  <2> QED
    BY <2>7, <2>8
<1>2. ASSUME NEW t \in m_results, m_results' = m_results \ {t},
             UNCHANGED <<serial, m_queue, m_runningToken>>
      PROVE  Jobs!Next
  <2>1. t \in Tokens /\ ~Queued(t) /\ t # m_runningToken /\ t <= serial
    BY <1>0 DEF IInv, InOrder
  <2>2. \A v : Queued(v)' <=> Queued(v)
    BY <1>2 DEF Queued
  <2>3. \A v \in Tokens : StageOf(v)' = IF v = t THEN "taken" ELSE StageOf(v)
    BY <1>0, <1>2, <2>1, <2>2 DEF StageOf
  <2>4. StageMap' = [StageMap EXCEPT ![t] = "taken"]
    BY <2>1, <2>3 DEF StageMap
  <2>5. StageOf(t) = "done"
    BY <1>0, <2>1 DEF StageOf
  <2>6. StageMap[t] = "done"
    BY <2>1, <2>5 DEF StageMap
  <2> QED
    BY <2>1, <2>4, <2>6 DEF Jobs!Next, Jobs!Collect, Jobs!Tokens, Tokens
<1>3. ASSUME UNCHANGED <<serial, m_queue, m_runningToken, m_results>>
      PROVE  StageMap' = StageMap
  BY <1>3 DEF StageMap, StageOf, Queued
<1>4. CASE UNCHANGED vars \/ Ended
  BY <1>3, <1>4 DEF vars, Ended
<1>5. ASSUME NEW f \in Files, flushBufferAsync(f) PROVE Jobs!Next
  <2>1. OwnersWithout(0) = m_owners /\ m_results = m_results \ {0}
    BY DEF IInv, TypeOK, Tokens, OwnersWithout
  <2> QED
    BY <1>1, <1>5, <2>1 DEF flushBufferAsync, threadVars
<1>6. ASSUME NEW f \in Files, flushBuffer(f) \/ destroyFile(f) PROVE StageMap' = StageMap
  BY <1>3, <1>6 DEF flushBuffer, destroyFile, threadVars
<1>7. CASE waitForSleep \/ requestStop \/ threadJoined \/ runSleep \/ runReturn \/ runEmit
  BY <1>3, <1>7 DEF waitForSleep, requestStop, threadJoined, runSleep, runReturn, runEmit,
     threadVars
<1>8. CASE waitForReturn
  <2> DEFINE f == caller
             t == m_flushToken[f]
  <2> USE <1>8 DEF waitForReturn
  <2>1. f \in Files /\ t \in Tokens
    BY DEF IInv, MainPlace, TypeOK
  <2>2. t \in m_results
    <3>1. t # 0
      BY <2>1 DEF Tokens
    <3>2. Queued(t) \/ m_runningToken = t \/ t \in m_results
      <4> HIDE DEF waitForReturn
      <4> QED
        BY <2>1, <3>1 DEF IInv, NoLostWrite
    <3>3. ~MustWait(t)
      OBVIOUS
    <3> HIDE DEF t
    <3> QED
      BY <3>2, <3>3, Zenon DEF MustWait, Queued
  <2>3. CASE enqueue(f, OwnersWithout(t))
    BY <1>1, <2>1, <2>2, <2>3
  <2>4. CASE UNCHANGED <<serial, m_queue, worker>>
    BY <1>2, <2>2, <2>4
  <2> QED
    BY <2>2, <2>3, <2>4 DEF applyFlushResult
<1>9. CASE onJobDone
  <2> DEFINE t == Head(posted)
  <2> USE <1>9 DEF onJobDone
  <2>1. CASE t \in m_results /\ \E o \in m_owners : o[1] = t /\ applyFlushResult(o[2], t, OwnersWithout(t))
    <3>1. PICK o \in m_owners : o[1] = t /\ applyFlushResult(o[2], t, OwnersWithout(t))
      BY <2>1
    <3> DEFINE f == o[2]
    <3>2. f \in Files /\ m_flushToken[f] = t
      BY <3>1 DEF IInv, NoDanglingOwner, TypeOK
    <3>3. CASE enqueue(f, OwnersWithout(t))
      <4> HIDE DEF f
      <4>1. enqueue(f, OwnersWithout(m_flushToken[f]))
        BY <3>2, <3>3
      <4>2. m_results' = m_results \ {m_flushToken[f]} /\ m_flushToken[f] \in m_results
        BY <3>2, <2>1
      <4>3. UNCHANGED m_runningToken
        OBVIOUS
      <4> HIDE DEF onJobDone
      <4> QED
        BY <1>1, <3>2, <4>1, <4>2, <4>3
    <3>4. CASE UNCHANGED <<serial, m_queue, worker>>
      BY <1>2, <2>1, <3>4
    <3> QED
      BY <3>1, <3>3, <3>4 DEF applyFlushResult
  <2>2. CASE UNCHANGED <<serial, m_queue, worker, m_flushToken>>
    <3>1. CASE t \in m_results
      BY <1>2, <2>2, <3>1
    <3>2. CASE t \notin m_results
      BY <1>3, <2>2, <3>2
    <3> QED
      BY <3>1, <3>2
  <2> QED
    BY <2>1, <2>2
<1>10. CASE runTake
  <2>1. /\ Len(m_queue') = Len(m_queue) - 1 /\ Len(m_queue) \in Nat \ {0}
        /\ \A i \in 1 .. Len(m_queue) - 1 : m_queue'[i] = m_queue[i + 1]
        /\ m_runningToken' = m_queue[1] /\ m_queue[1] \in Tokens /\ m_runningToken = 0
    BY <1>0, <1>10, TailFacts DEF runTake, IInv, WorkerPlace
  <2>2. \A u : Queued(u) <=> Queued(u)' \/ u = m_runningToken'
    <3> SUFFICES ASSUME NEW u PROVE Queued(u) <=> Queued(u)' \/ u = m_runningToken'
      OBVIOUS
    <3>1. m_queue # << >> /\ m_queue' = Tail(m_queue) /\ m_runningToken' = Head(m_queue)
      BY <1>10 DEF runTake
    <3>2. (\E i \in 1 .. Len(m_queue) : m_queue[i] = u)
          <=> (\E i \in 1 .. Len(Tail(m_queue)) : Tail(m_queue)[i] = u) \/ u = Head(m_queue)
      BY <1>0, <3>1, TailMember
    <3> QED
      BY <3>1, <3>2 DEF Queued
  <2>3. \A u \in Tokens : StageOf(u)' = StageOf(u)
    BY <1>10, <2>1, <2>2 DEF StageOf, runTake, Tokens
  <2> QED
    BY <2>3 DEF StageMap
<1>11. CASE runPublish
  <2> DEFINE t == m_runningToken
  <2> USE <1>11 DEF runPublish
  <2>1. t \in Tokens /\ ~Queued(t) /\ t <= serial
    BY <1>0 DEF IInv, WorkerPlace, TypeOK, InOrder, Queued
  <2>2. \A v : Queued(v)' <=> Queued(v)
    BY DEF Queued
  <2>3. \A v \in Tokens : StageOf(v)' = IF v = t THEN "done" ELSE StageOf(v)
    BY <1>0, <2>1, <2>2 DEF StageOf, Tokens
  <2>4. StageMap' = [StageMap EXCEPT ![t] = "done"] /\ StageMap[t] = "pending"
    BY <1>0, <2>1, <2>3 DEF StageMap, StageOf
  <2>5. \A v \in Tokens : v < t => StageOf(v) # "pending"
    BY <1>0, <2>1 DEF StageOf, IInv, InOrder, Queued, Tokens
  <2>6. \A v \in Tokens : v < t => StageMap[v] # "pending"
    BY <2>5 DEF StageMap
  <2> QED
    BY <2>1, <2>4, <2>6 DEF Jobs!Next, Jobs!Perform, Jobs!Tokens, Tokens
<1> QED
  BY <1>4, <1>5, <1>6, <1>7, <1>8, <1>9, <1>10, <1>11 DEF Next, MainNext, WorkerNext

(***************************************************************************)
(* The write thread implements the abstract specification WriteJobs: each  *)
(* job is handed over once, performed once and taken once, in this order.  *)
(***************************************************************************)
THEOREM Refinement == Spec => Jobs!SafeSpec
<1>1. Init => Jobs!Init
  BY MaxTokenAssumption DEF Init, Jobs!Init, Jobs!Tokens, StageMap, StageOf, Tokens
<1> QED
  BY <1>1, InitIInv, NextIInv, StepSimulates, PTL DEF Spec, Jobs!SafeSpec
=============================================================================

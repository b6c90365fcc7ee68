------------------------ MODULE ServerConnect_proofs ------------------------
(***************************************************************************)
(* Proofs about connecting to servers, for any list of servers and any     *)
(* preferences: every open socket has one role, none dangles, none is      *)
(* plain where it may not be, and the connection is what was asked for.    *)
(*                                                                         *)
(* The invariant is a predicate on the members of ServerConnect, and each  *)
(* call has a lemma saying that it keeps it.                               *)
(***************************************************************************)
EXTENDS ServerConnect, InductionLemmas, FiniteSetTheorems

SocketType ==
  [state : {"none", "Connecting", "WaitForLogin", "Connected"}, server : Servers \cup {None},
   crypt : BOOLEAN, tcp : BOOLEAN, v6 : BOOLEAN, fallback : BOOLEAN, manual : BOOLEAN]

(* The fields of the record and their types. *)
MemberType ==
  [connecting : BOOLEAN, single : BOOLEAN, connected : BOOLEAN,
   connectedSocket : SocketIds \cup {None}, attempts : Seq(SocketIds),
   socks : [SocketIds -> SocketType], gone : SUBSET SocketIds, retry : BOOLEAN,
   startPos : 0..(NumServers - 1), tryObf : BOOLEAN, hold : BOOLEAN, smart : 0..2,
   clientID : {"none", "low", "high"}, hoSocket : SocketIds \cup {None},
   hoServer : Servers \cup {None}, hoLoginSent : BOOLEAN, hoCloseFirst : BOOLEAN,
   posted : SUBSET {"beside", "closeFirst"}, pos : 0..NumServers,
   triedCrypt : SUBSET Servers, switchFailed : SUBSET Servers,
   failed : [Servers -> 0..DeadRetries]]

(* What the theorems ask of the servers: if they send a second ID on the live session, the smart
   LowID check and the handover are not both on. Everything else a server may do is allowed. *)
Expected == "newID" \in Anomalies => \A c \in Configs : ~(c.smart /\ c.preferIPv6)

(* Where the client ID may outlive its session. *)
Excused == handed \/ (m_config.smart /\ "newID" \in Anomalies)

(* The ids that may not be given out in this event, and how many there still are. *)
Used(s) == Open(s) \cup s.gone
Room(s, n) == Cardinality(Used(s)) + n <= 5

(* The live session and the handover beside it; this much holds within a call, too. *)
Session(s) ==
  /\ s \in MemberType
  /\ Open(s) \cap s.gone = {} /\ \A i \in Open(s) : s.socks[i].server \in Servers
  /\ s.connected <=> s.connectedSocket # None
  /\ s.connected => /\ s.connectedSocket \in Open(s)
                    /\ s.socks[s.connectedSocket].state = "Connected"
  /\ s.hoSocket # None => s.hoSocket \in Open(s) /\ s.hoSocket # s.connectedSocket
  /\ ~m_config.preferIPv6 => s.hoSocket = None /\ s.hoServer = None /\ s.posted = {}
  /\ ~Excused /\ s.clientID # "none" => s.connected

(* Where obfuscation is required it is used, and a pass that may begin again uses it. *)
Obfuscated(s) ==
  m_config.required =>
    /\ \A i \in Open(s) : s.socks[i].server \in Obfuscating => s.socks[i].crypt
    /\ s.connected /\ ~s.socks[s.connectedSocket].manual /\ ~m_config.preferIPv6 => s.tryObf

(* The attempts. *)
Registered(s) ==
  /\ IsInjective(s.attempts) /\ Len(s.attempts) <= MaxSimCons
  /\ ToSet(s.attempts) \subseteq Open(s)
  /\ s.attempts # << >> => s.connecting /\ s.hoSocket = None
  /\ \A i \in ToSet(s.attempts) : s.socks[i].manual = s.single
  /\ \A i, j \in ToSet(s.attempts) : s.socks[i].server = s.socks[j].server => i = j
  /\ s.single => Len(s.attempts) <= 1

(* No other socket is open, but for x, which the call is about to close. *)
NoStray(s, x) ==
  /\ Open(s) \subseteq ToSet(s.attempts) \cup {s.connectedSocket, s.hoSocket, x}
  /\ x # None => x \in Used(s) /\ x \notin ToSet(s.attempts) \cup {s.connectedSocket, s.hoSocket}
  /\ \A i \in Open(s) : s.socks[i].state = "Connected" => i = s.connectedSocket

(* What a connect under way and a handover need. *)
Purposes(s) ==
  /\ s.connecting => ~s.connected
  /\ s.single => s.connecting
  /\ s.connecting /\ ~s.single => s.hoSocket = None /\ (m_config.required => s.tryObf)
  /\ s.connecting /\ s.single => s.attempts # << >> \/ s.hoSocket # None
  /\ s.hoSocket # None => s.hoServer # None

Sound(s, x) == Session(s) /\ Obfuscated(s) /\ Registered(s) /\ NoStray(s, x) /\ Purposes(s)

(* Not at an end, connecting by itself, and at rest. *)
Alive(s) == s.connected \/ s.connecting \/ s.retry \/ s.hold
Going(s) == Alive(s) /\ ~s.single
Off(s) == ~s.connected /\ ~s.connecting /\ ~s.retry /\ s.hoSocket = None
GoesOn == m_config.reconnect /\ m_config.autoConnect /\ ~NothingStatic

(* No socket is open. *)
Clear(s) ==
  /\ s \in MemberType /\ Open(s) = {} /\ s.attempts = << >> /\ ~s.connected
  /\ s.connectedSocket = None /\ s.hoSocket = None
  /\ ~m_config.preferIPv6 => s.hoServer = None /\ s.posted = {}
  /\ ~Excused => s.clientID = "none"

(* What a malformed packet makes of a single connect: under way, with no socket. *)
Stuck(s) == Clear(s) /\ s.connecting /\ s.single
Settled(s) == Sound(s, None) \/ Stuck(s)

IInv ==
  /\ m_config \in Configs /\ resume \in BOOLEAN /\ wanted \in Wishes /\ handed \in BOOLEAN
  /\ Settled(sc) /\ sc.gone = {}
  /\ wanted # "stuck" => Sound(sc, None)
  /\ sc.hoLoginSent => handed
  /\ wanted = "auto" /\ GoesOn => Going(sc)
  /\ wanted = "no" => Off(sc)

-----------------------------------------------------------------------------
(***************************************************************************)
(* The calls that close sockets.                                           *)
(***************************************************************************)

(* The members the roles of the sockets depend on, but for the sockets, are the same. *)
Aside(s, t) ==
  /\ t.connecting = s.connecting /\ t.single = s.single /\ t.retry = s.retry
  /\ t.tryObf = s.tryObf /\ t.hold = s.hold /\ t.clientID = s.clientID /\ t.posted = s.posted

(* t is s after the sockets of I were destroyed. *)
Destroyed(s, t, I) ==
  /\ t \in MemberType /\ Aside(s, t)
  /\ t.socks = [i \in SocketIds |-> IF i \in I THEN NoSocket ELSE s.socks[i]]
  /\ t.gone = s.gone \cup I
  /\ t.attempts = Kept(s.attempts, SocketIds \ I)
  /\ t.connectedSocket = IF s.connectedSocket \in I THEN None ELSE s.connectedSocket
  /\ t.connected <=> s.connected /\ s.connectedSocket \notin I
  /\ t.hoSocket = IF s.hoSocket \in I THEN None ELSE s.hoSocket
  /\ t.hoServer = IF s.hoSocket \in I THEN None ELSE s.hoServer

(* resetIPv6Handover() forgets the handover and nothing else. *)
LEMMA ResetIs ==
  ASSUME NEW s \in MemberType
  PROVE  LET r == resetIPv6Handover(s)
         IN  /\ r \in MemberType /\ Aside(s, r) /\ r.socks = s.socks /\ r.gone = s.gone
             /\ r.attempts = s.attempts /\ r.connectedSocket = s.connectedSocket
             /\ r.connected = s.connected /\ r.hoSocket = None /\ r.hoServer = None
<1> DEFINE r == [s EXCEPT !.hoSocket = None, !.hoServer = None, !.hoLoginSent = FALSE,
                          !.hoCloseFirst = FALSE]
<1>1. /\ r \in MemberType /\ Aside(s, r) /\ r.socks = s.socks /\ r.gone = s.gone
      /\ r.attempts = s.attempts /\ r.connectedSocket = s.connectedSocket
      /\ r.connected = s.connected /\ r.hoSocket = None /\ r.hoServer = None
  BY DEF MemberType, Aside
<1> QED
  BY <1>1 DEF resetIPv6Handover

(* destroySockets() changes what it should and nothing else. *)
LEMMA DestroyIs ==
  ASSUME NEW s \in MemberType, NEW I \in SUBSET SocketIds
  PROVE  Destroyed(s, destroySockets(s, I), I)
<1> DEFINE r == IF s.hoSocket \in I THEN resetIPv6Handover(s) ELSE s
           sk == [i \in SocketIds |-> IF i \in I THEN NoSocket ELSE s.socks[i]]
           at == Kept(s.attempts, SocketIds \ I)
           cs == IF s.connectedSocket \in I THEN None ELSE s.connectedSocket
           cd == s.connected /\ ~(s.connectedSocket \in I)
           gn == s.gone \cup I
           t == [r EXCEPT !.socks = sk, !.gone = gn, !.attempts = at, !.connectedSocket = cs,
                          !.connected = cd]
<1>1. /\ r \in MemberType /\ Aside(s, r) /\ r.socks = s.socks /\ r.gone = s.gone
      /\ r.attempts = s.attempts /\ r.connectedSocket = s.connectedSocket
      /\ r.connected = s.connected
      /\ r.hoSocket = IF s.hoSocket \in I THEN None ELSE s.hoSocket
      /\ r.hoServer = IF s.hoSocket \in I THEN None ELSE s.hoServer
  BY ResetIs DEF Aside
<1>2. destroySockets(s, I) = t
  BY <1>1 DEF destroySockets
<1>3. /\ sk \in [SocketIds -> SocketType] /\ gn \in SUBSET SocketIds
      /\ cs \in SocketIds \cup {None} /\ cd \in BOOLEAN
  BY DEF MemberType, SocketType, NoSocket
<1>4. at \in Seq(SocketIds)
  BY ToSetKept DEF MemberType
<1> HIDE DEF r, sk, at, cs, cd, gn
<1>5. /\ t \in MemberType /\ Aside(r, t) /\ t.socks = sk /\ t.gone = gn /\ t.attempts = at
      /\ t.connectedSocket = cs /\ t.connected = cd
      /\ t.hoSocket = r.hoSocket /\ t.hoServer = r.hoServer
  BY <1>1, <1>3, <1>4, ZenonT(60) DEF MemberType, Aside
<1> HIDE DEF t
<1> QED
  BY <1>1, <1>2, <1>5 DEF Destroyed, Aside, sk, at, cs, cd, gn

(* What is open, in use and registered afterwards. *)
LEMMA DestroyedFacts ==
  ASSUME NEW s \in MemberType, NEW t, NEW I \in SUBSET SocketIds, Destroyed(s, t, I)
  PROVE  /\ Open(t) = Open(s) \ I /\ Used(t) = Used(s) \cup I
         /\ ToSet(t.attempts) = ToSet(s.attempts) \ I
         /\ IsInjective(s.attempts) => IsInjective(t.attempts)
         /\ \A i \in SocketIds \ I : t.socks[i] = s.socks[i]
         /\ \A i \in I : t.socks[i].state = "none"
<1>1. s.attempts \in Seq(SocketIds)
  BY DEF MemberType
<1>2. /\ ToSet(t.attempts) = ToSet(s.attempts) \cap (SocketIds \ I)
      /\ IsInjective(s.attempts) => IsInjective(t.attempts)
  BY <1>1, ToSetKept DEF Destroyed
<1>3. ToSet(s.attempts) \subseteq SocketIds
  BY <1>1, ToSetIs
<1>4. \A i \in SocketIds \ I : t.socks[i] = s.socks[i]
  BY DEF Destroyed
<1>5. \A i \in I : t.socks[i].state = "none"
  BY DEF Destroyed, NoSocket
<1>6. Open(t) = Open(s) \ I
  BY <1>4, <1>5 DEF Open
<1>7. Used(t) = Used(s) \cup I
  BY <1>6 DEF Used, Destroyed
<1> QED
  BY <1>2, <1>3, <1>4, <1>5, <1>6, <1>7

(* t is s after stopConnectionTry(): only the live session is left. *)
Stopped(s, t) ==
  /\ t \in MemberType /\ ~t.connecting /\ ~t.single /\ ~t.retry /\ t.attempts = << >>
  /\ t.tryObf = s.tryObf /\ t.hold = s.hold /\ t.clientID = s.clientID /\ t.posted = s.posted
  /\ t.connected = s.connected /\ t.connectedSocket = s.connectedSocket
  /\ Open(t) = Open(s) \cap {s.connectedSocket} /\ Used(t) = Used(s) /\ Open(t) \cap t.gone = {}
  /\ \A i \in Open(t) : t.socks[i] = s.socks[i]
  /\ t.hoSocket = None /\ t.hoServer \in {None, s.hoServer}

(* stopConnectionTry() leaves only the live session. *)
LEMMA StopIs ==
  ASSUME NEW s, Session(s)
  PROVE  Stopped(s, stopConnectionTry(s))
<1> DEFINE no == FALSE
           none == << >>
           r == [s EXCEPT !.attempts = none, !.connecting = no, !.single = no, !.retry = no]
           I == Open(s) \ {s.connectedSocket}
           t == destroySockets(r, I)
<1>1. no \in BOOLEAN /\ ~no
  OBVIOUS
<1>2. none \in Seq(SocketIds)
  OBVIOUS
<1>3. I \in SUBSET SocketIds
  BY DEF Open
<1>4. s \in MemberType
  BY DEF Session
<1> HIDE DEF no, none
<1>5. /\ r \in MemberType /\ r.attempts = none /\ r.connecting = no /\ r.single = no /\ r.retry = no
      /\ r.tryObf = s.tryObf /\ r.hold = s.hold /\ r.clientID = s.clientID /\ r.posted = s.posted
      /\ r.connected = s.connected /\ r.connectedSocket = s.connectedSocket /\ r.socks = s.socks
      /\ r.gone = s.gone /\ r.hoSocket = s.hoSocket /\ r.hoServer = s.hoServer
  BY <1>1, <1>2, <1>4 DEF MemberType
<1>6. stopConnectionTry(s) = t
  BY DEF stopConnectionTry, no, none
<1> HIDE DEF r
<1>7. Destroyed(r, t, I)
  BY <1>3, <1>5, DestroyIs
<1> HIDE DEF t
<1>8. Open(r) = Open(s) /\ Used(r) = Used(s)
  BY <1>5 DEF Open, Used
<1>9. /\ Open(t) = Open(s) \ I /\ Used(t) = Used(s) \cup I /\ ToSet(t.attempts) = ToSet(none) \ I
      /\ \A i \in SocketIds \ I : t.socks[i] = s.socks[i]
  BY <1>3, <1>5, <1>7, <1>8, DestroyedFacts
<1>10. t.attempts = << >>
  <2>1. ToSet(none) = {}
    BY <1>2, ToSetIs DEF none
  <2>2. t.attempts \in Seq(SocketIds) /\ ToSet(t.attempts) = {}
    BY <1>7, <1>9, <2>1, ZenonT(60) DEF Destroyed, MemberType
  <2> QED
    BY <2>2, ToSetIs
<1>11. Used(t) = Used(s) /\ Open(t) = Open(s) \cap {s.connectedSocket}
  BY <1>9 DEF Used
<1>12. Open(t) \cap t.gone = {}
  BY <1>5, <1>7, <1>9 DEF Destroyed, Session
<1>13. \A i \in Open(t) : t.socks[i] = s.socks[i]
  BY <1>9, <1>11 DEF Open
<1>14. t.hoSocket = None /\ t.hoServer \in {None, s.hoServer}
  BY <1>5, <1>7 DEF Destroyed, Session
<1>15. t.connected = s.connected /\ t.connectedSocket = s.connectedSocket
  <2>1. s.connectedSocket \notin I /\ s.connected \in BOOLEAN
    BY <1>4 DEF MemberType
  <2>2. t.connected \in BOOLEAN
    BY <1>7 DEF Destroyed, MemberType
  <2> QED
    BY <1>5, <1>7, <2>1, <2>2 DEF Destroyed
<1> QED
  BY <1>1, <1>5, <1>6, <1>7, <1>10, <1>11, <1>12, <1>13, <1>14, <1>15 DEF Stopped, Destroyed, Aside


(* stopConnectionTry() with disconnect() clears all of it. *)
LEMMA ClearIs ==
  ASSUME NEW s, Session(s)
  PROVE  LET c == disconnect(stopConnectionTry(s))
         IN  /\ Clear(c) /\ Used(c) = Used(s) /\ c.hold = s.hold
             /\ ~c.connecting /\ ~c.single /\ ~c.retry
<1> DEFINE t == stopConnectionTry(s)
           none == "none"
           r == [t EXCEPT !.clientID = none]
           I == {t.connectedSocket}
           d == destroySockets(r, I)
<1>1. Stopped(s, t)
  BY StopIs
<1> HIDE DEF t
<1>2. CASE ~t.connected
  <2>1. disconnect(t) = t
    BY <1>2 DEF disconnect
  <2>2. t.connectedSocket = None /\ Open(t) = {}
    BY <1>1, <1>2 DEF Stopped, Session, None, Open, SocketIds
  <2>3. Clear(t)
    BY <1>1, <1>2, <2>2 DEF Stopped, Session, Clear
  <2> QED
    BY <1>1, <2>1, <2>3 DEF Stopped, t
<1>3. CASE t.connected
  <2>1. none \in {"none", "low", "high"}
    OBVIOUS
  <2> HIDE DEF none
  <2>2. t \in MemberType
    BY <1>1 DEF Stopped
  <2>3. /\ r \in MemberType /\ r.attempts = t.attempts /\ r.connecting = t.connecting
        /\ r.single = t.single /\ r.retry = t.retry /\ r.hold = t.hold /\ r.posted = t.posted
        /\ r.connected = t.connected /\ r.connectedSocket = t.connectedSocket
        /\ r.socks = t.socks /\ r.gone = t.gone /\ r.hoSocket = t.hoSocket
        /\ r.hoServer = t.hoServer /\ r.clientID = none
    BY <2>1, <2>2 DEF MemberType
  <2>4. disconnect(t) = d
    BY <1>3 DEF disconnect, destroySocket, none
  <2>5. t.connectedSocket \in Open(s) /\ I \in SUBSET SocketIds /\ Open(t) = I
    BY <1>1, <1>3 DEF Stopped, Session, Open
  <2> HIDE DEF r
  <2>6. Destroyed(r, d, I)
    BY <2>3, <2>5, DestroyIs
  <2>7. Open(r) = Open(t) /\ Used(r) = Used(t)
    BY <2>3 DEF Open, Used
  <2> HIDE DEF d
  <2>8. Open(d) = {} /\ Used(d) = Used(t) \cup I /\ ToSet(d.attempts) = ToSet(t.attempts) \ I
    BY <2>3, <2>5, <2>6, <2>7, DestroyedFacts
  <2>9. d.attempts = << >>
    <3>1. ToSet(t.attempts) = {}
      BY <1>1, <2>2, ToSetIs DEF Stopped, MemberType
    <3>2. d.attempts \in Seq(SocketIds) /\ ToSet(d.attempts) = {}
      BY <2>6, <2>8, <3>1 DEF Destroyed, MemberType
    <3> QED
      BY <3>2, ToSetIs
  <2>10. Used(d) = Used(s)
    BY <1>1, <2>5, <2>8 DEF Stopped, Used
  <2>11. /\ ~d.connected /\ d.connectedSocket = None /\ d.hoSocket = None
         /\ d.hoServer \in {None, s.hoServer}
    BY <1>1, <2>3, <2>6 DEF Destroyed, Stopped
  <2>12. /\ d \in MemberType /\ d.posted = s.posted /\ d.hold = s.hold /\ d.clientID = "none"
         /\ ~d.connecting /\ ~d.single /\ ~d.retry
    BY <1>1, <2>3, <2>6 DEF Destroyed, Aside, Stopped, none
  <2>13. Clear(d)
    BY <2>8, <2>9, <2>11, <2>12 DEF Clear, Session
  <2> QED
    BY <2>4, <2>10, <2>12, <2>13 DEF t
<1> QED
  BY <1>2, <1>3

(* The preferences are what the code reads. *)
LEMMA ConfigFacts ==
  ASSUME m_config \in Configs
  PROVE  /\ m_config.preferred \in BOOLEAN /\ m_config.required \in BOOLEAN
         /\ m_config.safe \in BOOLEAN /\ m_config.smart \in BOOLEAN
         /\ m_config.reconnect \in BOOLEAN /\ m_config.preferIPv6 \in BOOLEAN
         /\ m_config.staticOnly \in BOOLEAN /\ m_config.autoConnect \in BOOLEAN
         /\ m_config.required => m_config.preferred
         /\ MaxSimCons \in {1, 2}
  BY ConfigAssumption DEF MaxSimCons

(* The empty list of attempts. *)
LEMMA NoAttempts ==
  /\ << >> \in Seq(SocketIds) /\ ToSet(<< >>) = {} /\ IsInjective(<< >>) /\ Len(<< >>) = 0
<1>1. << >> \in Seq(SocketIds) /\ Len(<< >>) = 0
  OBVIOUS
<1>2. ToSet(<< >>) = {}
  BY <1>1, ToSetIs
<1>3. IsInjective(<< >>)
  <2> DEFINE none == << >>
  <2>1. none \in Seq(SocketIds) /\ Len(none) = 0
    BY <1>1
  <2> SUFFICES IsInjective(none)
    OBVIOUS
  <2> HIDE DEF none
  <2>2. \A i, j \in 1..Len(none) : none[i] = none[j] => i = j
    BY <2>1
  <2> QED
    BY <2>1, <2>2, ToSetIs
<1> QED
  BY <1>1, <1>2, <1>3

(* A state where nothing is open is sound, for any socket about to be closed. *)
LEMMA ClearSound ==
  ASSUME m_config \in Configs, NEW s, Clear(s), NEW x \in Used(s) \cup {None}, ~s.single,
         s.connecting /\ m_config.required => s.tryObf
  PROVE  Sound(s, x)
<1>1. Session(s)
  BY DEF Clear, Session
<1>2. Obfuscated(s)
  BY DEF Clear, Obfuscated
<1>3. MaxSimCons >= 0
  BY ConfigFacts
<1>4. Registered(s)
  <2>1. s.attempts = << >> /\ ToSet(s.attempts) = {}
    BY NoAttempts DEF Clear
  <2>2. IsInjective(s.attempts) /\ Len(s.attempts) <= MaxSimCons
    BY <1>3, <2>1, NoAttempts
  <2> QED
    BY <2>1, <2>2 DEF Registered
<1>5. NoStray(s, x)
  BY NoAttempts DEF Clear, NoStray, Used, None, SocketIds
<1>6. Purposes(s)
  BY DEF Clear, Purposes
<1> QED
  BY <1>1, <1>2, <1>4, <1>5, <1>6 DEF Sound

(* So is one where only the live session is left. *)
LEMMA StopSound ==
  ASSUME m_config \in Configs, NEW s, Session(s), Obfuscated(s),
         NEW x \in (Used(s) \ {s.connectedSocket}) \cup {None}
  PROVE  Sound(stopConnectionTry(s), x)
<1> DEFINE t == stopConnectionTry(s)
<1>1. Stopped(s, t)
  BY StopIs
<1> HIDE DEF t
<1>2. Session(t)
  <2>1. /\ t \in MemberType /\ Open(t) \cap t.gone = {} /\ Open(t) \subseteq Open(s)
        /\ \A i \in Open(t) : t.socks[i].server \in Servers
    BY <1>1 DEF Stopped, Session
  <2>2. t.connected => t.connectedSocket \in Open(t) /\ t.socks[t.connectedSocket].state = "Connected"
    BY <1>1 DEF Stopped, Session
  <2> QED
    BY <1>1, <2>1, <2>2 DEF Stopped, Session
<1>3. Obfuscated(t)
  BY <1>1, <1>2 DEF Stopped, Obfuscated, Session
<1>4. Registered(t)
  <2>1. t.attempts = << >> /\ ToSet(t.attempts) = {} /\ IsInjective(t.attempts) /\ Len(t.attempts) = 0
    BY <1>1, NoAttempts DEF Stopped
  <2>2. 0 <= MaxSimCons
    BY ConfigFacts
  <2> QED
    BY <2>1, <2>2 DEF Registered
<1>5. NoStray(t, x)
  <2>1. ToSet(t.attempts) = {}
    BY <1>1, NoAttempts DEF Stopped
  <2>2. x # None => x # t.connectedSocket /\ x # t.hoSocket /\ x \in Used(t)
    BY <1>1 DEF Stopped
  <2>3. Open(t) \subseteq {t.connectedSocket}
    BY <1>1 DEF Stopped
  <2> QED
    BY <2>1, <2>2, <2>3 DEF NoStray
<1>6. Purposes(t)
  BY <1>1 DEF Stopped, Purposes
<1> QED
  BY <1>2, <1>3, <1>4, <1>5, <1>6 DEF Sound, t

-----------------------------------------------------------------------------
(***************************************************************************)
(* The calls that open sockets.                                            *)
(***************************************************************************)

(* While there is room, the next socket gets an id that is not in use. *)
LEMMA NextFree ==
  ASSUME NEW s \in MemberType, Room(s, 1)
  PROVE  NextSocket(s) \in SocketIds \ Used(s)
<1>1. IsFiniteSet(SocketIds) /\ Cardinality(SocketIds) = 5
  <2>1. 1 \in Int /\ 5 \in Int
    OBVIOUS
  <2>2. IsFiniteSet(1..5) /\ Cardinality(1..5) = IF 1 > 5 THEN 0 ELSE 5 - 1 + 1
    BY <2>1, FS_Interval
  <2> QED
    BY <2>2 DEF SocketIds
<1>2. Used(s) \subseteq SocketIds
  BY DEF Used, Open, MemberType
<1>3. SocketIds \ Used(s) # {}
  <2> SUFFICES ASSUME SocketIds \ Used(s) = {} PROVE FALSE
    OBVIOUS
  <2>1. Used(s) = SocketIds
    BY <1>2
  <2> QED
    BY <1>1, <2>1 DEF Room
<1>4. SocketIds \ Used(s) \subseteq Nat
  BY DEF SocketIds
<1>5. Min(SocketIds \ Used(s)) \in SocketIds \ Used(s)
  BY <1>3, <1>4, MinIn
<1> QED
  BY <1>5 DEF NextSocket, Used

(* Each socket opened takes one id. *)
LEMMA UseOne ==
  ASSUME NEW s \in MemberType, NEW t, NEW i \in SocketIds \ Used(s), Used(t) = Used(s) \cup {i}
  PROVE  \A n \in Nat : Room(s, n + 1) => Room(t, n)
<1>1. IsFiniteSet(SocketIds)
  <2>1. 1 \in Int /\ 5 \in Int
    OBVIOUS
  <2> QED
    BY <2>1, FS_Interval DEF SocketIds
<1>2. Used(s) \subseteq SocketIds
  BY DEF Used, Open, MemberType
<1>3. IsFiniteSet(Used(s))
  BY <1>1, <1>2, FS_Subset
<1>4. Cardinality(Used(t)) = Cardinality(Used(s)) + 1
  BY <1>3, FS_AddElement
<1>5. Cardinality(Used(s)) \in Nat
  BY <1>3, FS_CardinalityType
<1> QED
  BY <1>4, <1>5 DEF Room

(* The members that name sockets are the same. *)
Links(s, t) ==
  /\ t.gone = s.gone /\ t.attempts = s.attempts /\ t.connected = s.connected
  /\ t.connectedSocket = s.connectedSocket /\ t.hoSocket = s.hoSocket /\ t.hoServer = s.hoServer

(* createServerSocket() opens socket i to the server and does nothing else. *)
LEMMA CreateIs ==
  ASSUME NEW s \in MemberType, NEW i \in SocketIds, NEW server \in Servers,
         NEW noCrypt \in BOOLEAN, NEW dial, NEW manual \in BOOLEAN
  PROVE  LET t == createServerSocket(s, i, server, noCrypt, dial, manual)
         IN  /\ t \in MemberType /\ Aside(s, t) /\ Links(s, t)
             /\ Open(t) = Open(s) \cup {i}
             /\ \A j \in SocketIds \ {i} : t.socks[j] = s.socks[j]
             /\ t.socks[i].state = "Connecting" /\ t.socks[i].server = server
             /\ t.socks[i].crypt = (~noCrypt /\ server \in Obfuscating)
             /\ t.socks[i].manual = manual
<1> DEFINE sock == [state |-> "Connecting", server |-> server,
                    crypt |-> ~noCrypt /\ server \in Obfuscating, tcp |-> FALSE,
                    v6 |-> dial = "v6", fallback |-> dial # "first", manual |-> manual]
           t == [s EXCEPT !.socks[i] = sock]
<1>1. /\ sock \in SocketType /\ sock.state = "Connecting" /\ sock.server = server
      /\ sock.crypt = (~noCrypt /\ server \in Obfuscating) /\ sock.manual = manual
  BY DEF SocketType
<1>2. createServerSocket(s, i, server, noCrypt, dial, manual) = t
  BY DEF createServerSocket
<1> HIDE DEF sock
<1>3. /\ t \in MemberType /\ Aside(s, t) /\ Links(s, t) /\ t.socks = [s.socks EXCEPT ![i] = sock]
      /\ s.socks \in [SocketIds -> SocketType]
  BY <1>1 DEF MemberType, Aside, Links
<1> HIDE DEF t
<1>4. t.socks[i] = sock /\ \A j \in SocketIds \ {i} : t.socks[j] = s.socks[j]
  BY <1>3
<1>5. Open(t) = Open(s) \cup {i}
  BY <1>1, <1>4 DEF Open
<1> QED
  BY <1>1, <1>2, <1>3, <1>4, <1>5

(* connectToServer() once the connections before it are closed. *)
Dial(s, server, multiconnect, noCrypt, dial) ==
  LET u == [s EXCEPT !.connecting = TRUE, !.single = ~multiconnect,
                     !.triedCrypt = IF noCrypt THEN @
                                    ELSE IF server \in Obfuscating THEN @ \ {server}
                                    ELSE @ \cup {server}]
      i == NextSocket(u)
  IN  [createServerSocket(u, i, server, noCrypt, dial, ~multiconnect)
         EXCEPT !.attempts = Append(@, i)]

(* t is s after socket i was dialled and registered. *)
Dialling(s, t, i, server, multiconnect, noCrypt) ==
  /\ t \in MemberType /\ t.connecting /\ t.single = ~multiconnect /\ t.retry = s.retry
  /\ t.tryObf = s.tryObf /\ t.hold = s.hold /\ t.clientID = s.clientID /\ t.posted = s.posted
  /\ t.gone = s.gone /\ t.connected = s.connected /\ t.connectedSocket = s.connectedSocket
  /\ t.hoSocket = s.hoSocket /\ t.hoServer = s.hoServer
  /\ t.attempts = Append(s.attempts, i)
  /\ Open(t) = Open(s) \cup {i} /\ Used(t) = Used(s) \cup {i}
  /\ \A j \in SocketIds \ {i} : t.socks[j] = s.socks[j]
  /\ t.socks[i].state = "Connecting" /\ t.socks[i].server = server
  /\ t.socks[i].crypt = (~noCrypt /\ server \in Obfuscating)
  /\ t.socks[i].manual = ~multiconnect

(* A dial opens one socket, with an id that is not in use, and registers it. *)
LEMMA DialIs ==
  ASSUME NEW s \in MemberType, Room(s, 1), NEW server \in Servers, NEW multiconnect \in BOOLEAN,
         NEW noCrypt \in BOOLEAN, NEW dial
  PROVE  \E i \in SocketIds \ Used(s) :
           Dialling(s, Dial(s, server, multiconnect, noCrypt, dial), i, server, multiconnect, noCrypt)
<1> DEFINE yes == TRUE
           single == ~multiconnect
           tried == IF noCrypt THEN s.triedCrypt
                    ELSE IF server \in Obfuscating THEN s.triedCrypt \ {server}
                    ELSE s.triedCrypt \cup {server}
           u == [s EXCEPT !.connecting = yes, !.single = single, !.triedCrypt = tried]
           i == NextSocket(u)
           w == createServerSocket(u, i, server, noCrypt, dial, single)
           at == Append(w.attempts, i)
           t == [w EXCEPT !.attempts = at]
<1>1. yes \in BOOLEAN /\ yes /\ single \in BOOLEAN
  OBVIOUS
<1>2. tried \in SUBSET Servers
  BY DEF MemberType
<1>3. Dial(s, server, multiconnect, noCrypt, dial) = t
  BY DEF Dial
<1> HIDE DEF yes, single, tried
<1>4. /\ u \in MemberType /\ u.connecting = yes /\ u.single = single /\ u.retry = s.retry
      /\ u.tryObf = s.tryObf /\ u.hold = s.hold /\ u.clientID = s.clientID /\ u.posted = s.posted
      /\ Links(s, u) /\ u.socks = s.socks
  BY <1>1, <1>2, ZenonT(60) DEF MemberType, Links
<1> HIDE DEF u
<1>5. Open(u) = Open(s) /\ Used(u) = Used(s)
  BY <1>4 DEF Open, Used, Links
<1>6. i \in SocketIds \ Used(s)
  BY <1>4, <1>5, NextFree DEF Room
<1> HIDE DEF i
<1>7. /\ w \in MemberType /\ Aside(u, w) /\ Links(u, w) /\ Open(w) = Open(u) \cup {i}
      /\ \A j \in SocketIds \ {i} : w.socks[j] = u.socks[j]
      /\ w.socks[i].state = "Connecting" /\ w.socks[i].server = server
      /\ w.socks[i].crypt = (~noCrypt /\ server \in Obfuscating) /\ w.socks[i].manual = single
  BY <1>1, <1>4, <1>6, CreateIs
<1> HIDE DEF w
<1>8. at \in Seq(SocketIds)
  BY <1>6, <1>7 DEF MemberType
<1> HIDE DEF at
<1>9. /\ t \in MemberType /\ Aside(w, t) /\ t.attempts = at /\ t.socks = w.socks
      /\ t.gone = w.gone /\ t.connected = w.connected /\ t.connectedSocket = w.connectedSocket
      /\ t.hoSocket = w.hoSocket /\ t.hoServer = w.hoServer
  BY <1>7, <1>8 DEF MemberType, Aside
<1> HIDE DEF t
<1>10. Open(t) = Open(s) \cup {i} /\ Used(t) = Used(s) \cup {i}
  BY <1>4, <1>5, <1>7, <1>9 DEF Open, Used, Links
<1>11. /\ t.attempts = Append(s.attempts, i) /\ t.gone = s.gone /\ t.connected = s.connected
       /\ t.connectedSocket = s.connectedSocket /\ t.hoSocket = s.hoSocket
       /\ t.hoServer = s.hoServer
  BY <1>4, <1>7, <1>9 DEF Links, at
<1>12. /\ t.connecting /\ t.single = ~multiconnect /\ t.retry = s.retry /\ t.tryObf = s.tryObf
       /\ t.hold = s.hold /\ t.clientID = s.clientID /\ t.posted = s.posted
  BY <1>1, <1>4, <1>7, <1>9 DEF Aside, single
<1>13. /\ \A j \in SocketIds \ {i} : t.socks[j] = s.socks[j]
       /\ t.socks[i].state = "Connecting" /\ t.socks[i].server = server
       /\ t.socks[i].crypt = (~noCrypt /\ server \in Obfuscating)
       /\ t.socks[i].manual = ~multiconnect
  BY <1>4, <1>7, <1>9 DEF single
<1>14. Dialling(s, t, i, server, multiconnect, noCrypt)
  BY <1>9, <1>10, <1>11, <1>12, <1>13 DEF Dialling
<1> QED
  BY <1>3, <1>6, <1>14

(* What a single connect leads to. *)
SingleUnderWay(s, t, x) == Sound(t, x) /\ t.connecting /\ t.single /\ t.hold = s.hold

(* A single connect replaces whatever there was. *)
LEMMA SingleIs ==
  ASSUME m_config \in Configs, NEW s, Session(s), Room(s, 1), NEW server \in Servers,
         NEW noCrypt \in BOOLEAN, noCrypt => ~m_config.required, NEW dial,
         NEW x \in Used(s) \cup {None}
  PROVE  SingleUnderWay(s, connectToServer(s, server, FALSE, noCrypt, dial), x)
<1> DEFINE c == disconnect(stopConnectionTry(s))
           no == FALSE
           t == Dial(c, server, no, noCrypt, dial)
<1>1. connectToServer(s, server, FALSE, noCrypt, dial) = t
  BY DEF connectToServer, Dial
<1>2. /\ Clear(c) /\ Used(c) = Used(s) /\ c.hold = s.hold
      /\ ~c.connecting /\ ~c.single /\ ~c.retry
  BY ClearIs
<1>3. no \in BOOLEAN /\ no = FALSE
  OBVIOUS
<1> HIDE DEF c, no
<1>4. PICK i \in SocketIds \ Used(c) : Dialling(c, t, i, server, no, noCrypt)
  <2>1. c \in MemberType /\ Room(c, 1)
    BY <1>2 DEF Clear, Room
  <2> QED
    BY <1>3, <2>1, DialIs
<1> HIDE DEF t
<1>5. /\ t.attempts \in Seq(SocketIds) /\ ToSet(t.attempts) = {i} /\ Len(t.attempts) = 1
      /\ IsInjective(t.attempts)
  <2>1. t.attempts = Append(<< >>, i) /\ t.attempts \in Seq(SocketIds)
    BY <1>2, <1>4 DEF Clear, Dialling, MemberType
  <2>2. Len(t.attempts) = 1
    BY <1>4, <2>1, NoAttempts, AppendFacts
  <2>3. ToSet(t.attempts) = {i}
    <3> DEFINE none == << >>
    <3>1. none \in Seq(SocketIds) /\ ToSet(none) = {} /\ t.attempts = Append(none, i)
      BY <2>1, NoAttempts
    <3> HIDE DEF none
    <3> QED
      BY <1>4, <3>1, ToSetAppend
  <2>4. \A j, k \in 1..Len(t.attempts) : t.attempts[j] = t.attempts[k] => j = k
    BY <2>2
  <2> QED
    BY <2>1, <2>2, <2>3, <2>4, ToSetIs
<1>6. /\ t \in MemberType /\ t.connecting /\ t.single /\ ~t.retry /\ Open(t) = {i}
      /\ ~t.connected /\ t.connectedSocket = None /\ t.hoSocket = None
      /\ t.socks[i].state = "Connecting" /\ t.socks[i].server = server
      /\ t.socks[i].crypt = (~noCrypt /\ server \in Obfuscating) /\ t.socks[i].manual
      /\ i \notin t.gone
  BY <1>2, <1>3, <1>4 DEF Dialling, Clear, Used
<1>7. Session(t)
  <2>1. ~m_config.preferIPv6 => t.hoSocket = None /\ t.hoServer = None /\ t.posted = {}
    BY <1>2, <1>4 DEF Dialling, Clear
  <2>2. ~Excused => t.clientID = "none"
    BY <1>2, <1>4 DEF Dialling, Clear
  <2> QED
    BY <1>6, <2>1, <2>2 DEF Session
<1>8. Obfuscated(t)
  BY <1>6 DEF Obfuscated
<1>9. Registered(t)
  <2>1. Len(t.attempts) <= MaxSimCons /\ Len(t.attempts) <= 1
    <3>1. 1 <= MaxSimCons
      BY ConfigFacts
    <3> QED
      BY <1>5, <3>1
  <2>2. t.socks[i].manual = t.single
    <3>1. t.socks[i] \in SocketType /\ t.single \in BOOLEAN
      BY <1>4, <1>6 DEF MemberType
    <3>2. t.socks[i].manual \in BOOLEAN
      BY <3>1 DEF SocketType
    <3> QED
      BY <1>6, <3>1, <3>2
  <2> QED
    BY <1>5, <1>6, <2>1, <2>2 DEF Registered
<1>10. NoStray(t, x)
  <2>1. x # None => x \in Used(t) /\ x # i
    BY <1>2, <1>4 DEF Dialling
  <2> QED
    BY <1>5, <1>6, <2>1 DEF NoStray
<1>11. Purposes(t)
  <2>1. t.attempts # << >>
    BY <1>5
  <2> QED
    BY <1>6, <2>1 DEF Purposes
<1>12. t.hold = s.hold
  BY <1>2, <1>4 DEF Dialling
<1> QED
  BY <1>1, <1>6, <1>7, <1>8, <1>9, <1>10, <1>11, <1>12 DEF Sound, SingleUnderWay

(* An automatic connect is under way. *)
Passing(s, x) == Sound(s, x) /\ s.connecting /\ ~s.single

(* What a pass leads to: the attempts there are go on. *)
GoesFurther(s, t, x) ==
  /\ Passing(t, x) /\ t.hold = s.hold /\ ToSet(s.attempts) \subseteq ToSet(t.attempts)
  /\ Len(s.attempts) <= Len(t.attempts)
  /\ \A n \in Nat : Room(s, n + 1) => Room(t, n)

(* An attempt beside the others of a pass. *)
LEMMA MultiIs ==
  ASSUME m_config \in Configs, NEW x, NEW s, Passing(s, x), Room(s, 1), NEW server \in Servers,
         NEW noCrypt \in BOOLEAN, noCrypt => ~m_config.required, NEW dial,
         Len(s.attempts) < MaxSimCons,
         \A j \in ToSet(s.attempts) : s.socks[j].server # server
  PROVE  GoesFurther(s, connectToServer(s, server, TRUE, noCrypt, dial), x)
<1> DEFINE yes == TRUE
           t == Dial(s, server, yes, noCrypt, dial)
<1>1. connectToServer(s, server, TRUE, noCrypt, dial) = t
  BY DEF connectToServer, Dial
<1>2. yes \in BOOLEAN /\ yes = TRUE
  OBVIOUS
<1>3. s \in MemberType /\ s.attempts \in Seq(SocketIds)
  BY DEF Passing, Sound, Session, MemberType
<1> HIDE DEF yes
<1>4. PICK i \in SocketIds \ Used(s) : Dialling(s, t, i, server, yes, noCrypt)
  BY <1>2, <1>3, DialIs
<1> HIDE DEF t
<1>5. /\ t.attempts \in Seq(SocketIds) /\ ToSet(t.attempts) = ToSet(s.attempts) \cup {i}
      /\ Len(t.attempts) = Len(s.attempts) + 1 /\ IsInjective(t.attempts) /\ Len(s.attempts) \in Nat
  <2>1. t.attempts = Append(s.attempts, i) /\ t.attempts \in Seq(SocketIds)
    BY <1>4 DEF Dialling, MemberType
  <2>2. /\ Len(t.attempts) = Len(s.attempts) + 1 /\ t.attempts[Len(s.attempts) + 1] = i
        /\ Len(s.attempts) \in Nat
        /\ \A j \in 1..Len(s.attempts) : t.attempts[j] = s.attempts[j]
    BY <1>3, <1>4, <2>1, AppendFacts
  <2>3. ToSet(t.attempts) = ToSet(s.attempts) \cup {i}
    BY <1>3, <1>4, <2>1, ToSetAppend
  <2>4. i \notin ToSet(s.attempts)
    BY <1>4 DEF Passing, Sound, Registered, Used
  <2>5. \A j \in 1..Len(s.attempts) : s.attempts[j] # i
    BY <1>3, <2>4, ToSetIs
  <2>6. \A j, k \in 1..Len(s.attempts) : s.attempts[j] = s.attempts[k] => j = k
    BY <1>3, ToSetIs DEF Passing, Sound, Registered
  <2>7. ASSUME NEW j \in 1..Len(t.attempts), NEW k \in 1..Len(t.attempts),
               t.attempts[j] = t.attempts[k]
        PROVE  j = k
    <3>1. CASE j \in 1..Len(s.attempts) /\ k \in 1..Len(s.attempts)
      BY <2>2, <2>6, <2>7, <3>1
    <3>2. CASE j \in 1..Len(s.attempts) /\ k = Len(s.attempts) + 1
      BY <2>2, <2>5, <2>7, <3>2
    <3>3. CASE k \in 1..Len(s.attempts) /\ j = Len(s.attempts) + 1
      BY <2>2, <2>5, <2>7, <3>3
    <3> QED
      BY <2>2, <3>1, <3>2, <3>3
  <2> QED
    BY <2>1, <2>2, <2>3, <2>7, ToSetIs
<1>6. /\ t \in MemberType /\ t.connecting /\ ~t.single /\ t.retry = s.retry
      /\ t.tryObf = s.tryObf /\ t.hold = s.hold /\ t.clientID = s.clientID /\ t.posted = s.posted
      /\ t.gone = s.gone /\ t.connected = s.connected /\ t.connectedSocket = s.connectedSocket
      /\ t.hoSocket = s.hoSocket /\ t.hoServer = s.hoServer
      /\ Open(t) = Open(s) \cup {i} /\ Used(t) = Used(s) \cup {i} /\ i \notin Open(s)
      /\ i \notin s.gone
  BY <1>2, <1>4 DEF Dialling, Used
<1>7. /\ \A j \in SocketIds \ {i} : t.socks[j] = s.socks[j]
      /\ t.socks[i].state = "Connecting" /\ t.socks[i].server = server
      /\ t.socks[i].crypt = (~noCrypt /\ server \in Obfuscating) /\ ~t.socks[i].manual
      /\ \A j \in Open(s) : t.socks[j] = s.socks[j]
  BY <1>2, <1>4, <1>6 DEF Dialling, Open
<1>8. /\ Session(s) /\ Obfuscated(s) /\ Registered(s) /\ NoStray(s, x) /\ Purposes(s)
      /\ ~s.connected /\ s.connecting /\ ~s.single /\ s.hoSocket = None /\ s.connectedSocket = None
  BY DEF Passing, Sound, Purposes, Session
<1>9. Session(t)
  BY <1>6, <1>7, <1>8 DEF Session
<1>10. Obfuscated(t)
  BY <1>6, <1>7, <1>8 DEF Obfuscated
<1>11. Registered(t)
  <2>1. Len(t.attempts) <= MaxSimCons
    BY <1>5, ConfigFacts
  <2>2. ToSet(s.attempts) \subseteq Open(s)
    BY <1>8 DEF Registered
  <2>3. \A j \in ToSet(t.attempts) : t.socks[j].manual = t.single
    <3>1. ASSUME NEW j \in ToSet(s.attempts) PROVE t.socks[j].manual = t.single
      <4>1. t.socks[j].manual = s.single
        BY <1>7, <1>8, <2>2 DEF Registered
      <4>2. s.single \in BOOLEAN /\ t.single \in BOOLEAN
        BY <1>3, <1>6 DEF MemberType
      <4> QED
        BY <1>6, <1>8, <4>1, <4>2
    <3>2. t.socks[i].manual = t.single
      <4>1. t.socks[i] \in SocketType
        BY <1>4, <1>6 DEF MemberType
      <4>2. t.socks[i].manual \in BOOLEAN
        BY <4>1 DEF SocketType
      <4> QED
        BY <1>6, <1>7, <4>2 DEF MemberType
    <3> QED
      BY <1>5, <3>1, <3>2
  <2>4. \A j, k \in ToSet(t.attempts) : t.socks[j].server = t.socks[k].server => j = k
    BY <1>5, <1>7, <1>8, <2>2 DEF Registered
  <2>5. ToSet(t.attempts) \subseteq Open(t)
    BY <1>5, <1>6, <2>2
  <2> QED
    BY <1>5, <1>6, <1>8, <2>1, <2>3, <2>4, <2>5 DEF Registered
<1>12. NoStray(t, x)
  BY <1>4, <1>5, <1>6, <1>7, <1>8 DEF NoStray
<1>13. Purposes(t)
  BY <1>6, <1>8 DEF Purposes
<1>14. \A n \in Nat : Room(s, n + 1) => Room(t, n)
  BY <1>3, <1>4, <1>6, UseOne
<1>15. Len(s.attempts) <= Len(t.attempts)
  BY <1>5
<1>16. Passing(t, x)
  BY <1>6, <1>9, <1>10, <1>11, <1>12, <1>13 DEF Passing, Sound
<1> QED
  BY <1>1, <1>5, <1>6, <1>14, <1>15, <1>16 DEF GoesFurther

-----------------------------------------------------------------------------
(***************************************************************************)
(* The passes of an automatic connect.                                     *)
(***************************************************************************)

(* The sockets and their roles are the same. *)
SameRoles(s, t) == t \in MemberType /\ Aside(s, t) /\ Links(s, t) /\ t.socks = s.socks

(* What a call leaves a state with besides being sound depends on the roles alone. *)
LEMMA SameSound ==
  ASSUME NEW s, NEW t, SameRoles(s, t)
  PROVE  /\ Open(t) = Open(s) /\ Used(t) = Used(s) /\ t.hold = s.hold
         /\ \A n : Room(s, n) => Room(t, n)
         /\ Session(s) => Session(t)
         /\ Obfuscated(s) => Obfuscated(t)
         /\ \A x : Sound(s, x) => Sound(t, x)
         /\ \A x : Passing(s, x) => Passing(t, x)
<1>1. Open(t) = Open(s) /\ Used(t) = Used(s)
  BY DEF SameRoles, Links, Open, Used
<1>2. Session(s) => Session(t)
  BY <1>1 DEF SameRoles, Links, Aside, Session
<1>3. Obfuscated(s) => Obfuscated(t)
  BY <1>1 DEF SameRoles, Links, Aside, Obfuscated
<1>4. Registered(s) => Registered(t)
  BY <1>1 DEF SameRoles, Links, Aside, Registered
<1>5. \A x : NoStray(s, x) => NoStray(t, x)
  BY <1>1 DEF SameRoles, Links, Aside, NoStray
<1>6. Purposes(s) => Purposes(t)
  BY <1>1 DEF SameRoles, Links, Aside, Purposes
<1>7. \A x : Sound(s, x) => Sound(t, x)
  BY <1>2, <1>3, <1>4, <1>5, <1>6 DEF Sound
<1>8. \A x : Passing(s, x) => Passing(t, x)
  BY <1>7 DEF SameRoles, Aside, Passing
<1>9. \A n : Room(s, n) => Room(t, n)
  BY <1>1 DEF Room
<1>10. t.hold = s.hold
  BY DEF SameRoles, Aside
<1> QED
  BY <1>1, <1>2, <1>3, <1>7, <1>8, <1>9, <1>10

(* The position in the list is of no consequence for the sockets. *)
LEMMA SamePos ==
  ASSUME NEW s \in MemberType, NEW p \in 0..NumServers
  PROVE  SameRoles(s, [s EXCEPT !.pos = p])
<1> DEFINE t == [s EXCEPT !.pos = p]
<1>1. t \in MemberType /\ Aside(s, t) /\ Links(s, t) /\ t.socks = s.socks
  BY DEF MemberType, Aside, Links
<1> QED
  BY <1>1 DEF SameRoles

(* Room for more is room for less. *)
LEMMA RoomLess ==
  ASSUME NEW s \in MemberType
  PROVE  \A n \in Nat : Room(s, n + 1) => Room(s, n)
<1>1. IsFiniteSet(SocketIds)
  <2>1. 1 \in Int /\ 5 \in Int
    OBVIOUS
  <2> QED
    BY <2>1, FS_Interval DEF SocketIds
<1>2. Used(s) \subseteq SocketIds
  BY DEF Used, Open, MemberType
<1>3. Cardinality(Used(s)) \in Nat
  BY <1>1, <1>2, FS_Subset, FS_CardinalityType
<1> QED
  BY <1>3 DEF Room

(* A state that differs in nothing the roles depend on goes as far. *)
LEMMA SameGoes ==
  ASSUME NEW x, NEW s, Passing(s, x), NEW t, SameRoles(s, t)
  PROVE  GoesFurther(s, t, x)
<1>1. s \in MemberType /\ s.attempts \in Seq(SocketIds)
  BY DEF Passing, Sound, Session, MemberType
<1>2. Passing(t, x) /\ t.hold = s.hold /\ \A n : Room(s, n) => Room(t, n)
  BY SameSound
<1>3. t.attempts = s.attempts
  BY DEF SameRoles, Links
<1>4. Len(s.attempts) <= Len(s.attempts)
  BY <1>1
<1>5. \A n \in Nat : Room(s, n + 1) => Room(s, n)
  BY <1>1, RoomLess
<1> QED
  BY <1>2, <1>3, <1>4, <1>5 DEF GoesFurther

(* tryPass() keeps a pass going, with the pause or with one more attempt. *)
LEMMA TryPassIs ==
  ASSUME m_config \in Configs, NEW x, NEW s, Passing(s, x), Room(s, 1)
  PROVE  GoesFurther(s, tryPass(s), x)
<1>1. s \in MemberType
  BY DEF Passing, Sound, Session
<1>2. NumServers \in 0..NumServers /\ NumServers \in Nat
  BY ListAssumption
<1>3. CASE Len(s.attempts) >= MaxSimCons
  <2>1. tryPass(s) = s
    BY <1>3 DEF tryPass
  <2>2. SameRoles(s, s)
    BY <1>1 DEF SameRoles, Aside, Links
  <2> QED
    BY <2>1, <2>2, SameGoes
<1>4. CASE ~(Len(s.attempts) >= MaxSimCons) /\ Candidates(s) = {} /\ s.attempts # << >>
  <2>1. tryPass(s) = [s EXCEPT !.pos = NumServers]
    BY <1>4 DEF tryPass
  <2>2. SameRoles(s, [s EXCEPT !.pos = NumServers])
    BY <1>1, <1>2, SamePos
  <2> QED
    BY <2>1, <2>2, SameGoes
<1>5. CASE ~(Len(s.attempts) >= MaxSimCons) /\ Candidates(s) = {} /\ s.attempts = << >>
  <2> DEFINE yes == TRUE
             start == IF s.retry THEN s.startPos ELSE 0
             t == [s EXCEPT !.pos = NumServers, !.retry = yes, !.startPos = start]
  <2>1. tryPass(s) = t
    BY <1>5 DEF tryPass
  <2>2. yes \in BOOLEAN /\ start \in 0..(NumServers - 1)
    BY <1>1, ListAssumption DEF MemberType
  <2> HIDE DEF yes, start
  <2>3. /\ t \in MemberType /\ Links(s, t) /\ t.socks = s.socks /\ t.connecting = s.connecting
        /\ t.single = s.single /\ t.tryObf = s.tryObf /\ t.hold = s.hold
        /\ t.clientID = s.clientID /\ t.posted = s.posted
    BY <1>1, <1>2, <2>2 DEF MemberType, Links
  <2> HIDE DEF t
  <2>4. Open(t) = Open(s) /\ Used(t) = Used(s)
    BY <2>3 DEF Open, Used, Links
  <2>5. Session(t) /\ Obfuscated(t)
    BY <2>3, <2>4 DEF Passing, Sound, Session, Obfuscated, Links
  <2>6. Registered(t) /\ NoStray(t, x) /\ Purposes(t)
    BY <2>3, <2>4 DEF Passing, Sound, Registered, NoStray, Purposes, Links
  <2>7. Passing(t, x)
    BY <2>3, <2>5, <2>6 DEF Passing, Sound
  <2>8. t.attempts = s.attempts /\ Len(s.attempts) <= Len(s.attempts)
    BY <1>1, <2>3 DEF Links, MemberType
  <2>9. \A n \in Nat : Room(s, n + 1) => Room(t, n)
    BY <1>1, <2>4, RoomLess DEF Room
  <2> QED
    BY <2>1, <2>3, <2>7, <2>8, <2>9 DEF GoesFurther
<1>6. CASE ~(Len(s.attempts) >= MaxSimCons) /\ Candidates(s) # {}
  <2> DEFINE next == Min(Candidates(s))
             t == [s EXCEPT !.pos = next]
             noCrypt == ~t.tryObf
             dial == "first"
  <2>1. next \in Candidates(s)
    <3>1. Candidates(s) \subseteq Nat
      BY <1>1, <1>2 DEF Candidates, MemberType
    <3> QED
      BY <1>6, <3>1, MinIn
  <2>2. /\ next \in Servers /\ next \in 0..NumServers
        /\ next \notin Dialled(s)
    BY <1>1, <1>2, <2>1 DEF Candidates, MemberType, Servers
  <2> HIDE DEF next
  <2>3. SameRoles(s, t)
    BY <1>1, <2>2, SamePos
  <2>4. tryPass(s) = IF m_config.staticOnly /\ next \notin Static THEN t
                     ELSE connectToServer(t, next, TRUE, noCrypt, dial)
    BY <1>6 DEF tryPass, next
  <2> HIDE DEF t, dial
  <2>5. Passing(t, x) /\ Room(t, 1) /\ t.hold = s.hold /\ \A n : Room(s, n) => Room(t, n)
    BY <2>3, SameSound
  <2>6. t.attempts = s.attempts /\ t.socks = s.socks /\ t \in MemberType
    BY <2>3 DEF SameRoles, Links
  <2>7. noCrypt \in BOOLEAN /\ (noCrypt => ~m_config.required)
    BY <2>5, <2>6 DEF Passing, Sound, Purposes, MemberType
  <2>8. Len(t.attempts) < MaxSimCons
    <3>1. Len(s.attempts) \in Nat /\ MaxSimCons \in Nat
      BY <1>1, ConfigFacts DEF MemberType
    <3> QED
      BY <1>6, <2>6, <3>1
  <2>9. \A j \in ToSet(t.attempts) : t.socks[j].server # next
    <3>1. s.attempts \in Seq(SocketIds)
      BY <1>1 DEF MemberType
    <3>2. ToSet(s.attempts) = {s.attempts[n] : n \in 1..Len(s.attempts)}
      BY <3>1, ToSetIs
    <3>3. DOMAIN s.attempts = 1..Len(s.attempts)
      BY <3>1
    <3> QED
      BY <2>2, <2>6, <3>2, <3>3 DEF Dialled
  <2> HIDE DEF noCrypt
  <2>10. CASE m_config.staticOnly /\ next \notin Static
    BY <2>3, <2>4, <2>10, SameGoes
  <2>11. CASE ~(m_config.staticOnly /\ next \notin Static)
    <3> DEFINE w == connectToServer(t, next, TRUE, noCrypt, dial)
    <3>1. GoesFurther(t, w, x)
      BY <2>2, <2>5, <2>7, <2>8, <2>9, MultiIs
    <3>2. tryPass(s) = w
      BY <2>4, <2>11
    <3> HIDE DEF w
    <3> QED
      BY <2>5, <2>6, <3>1, <3>2 DEF GoesFurther
  <2> QED
    BY <2>10, <2>11
<1> QED
  BY <1>3, <1>4, <1>5, <1>6

(* beginPass() closes all and leaves an automatic connect without attempts. *)
LEMMA BeginPassIs ==
  ASSUME m_config \in Configs, NEW s, Session(s), NEW x \in Used(s) \cup {None},
         NEW startAt \in 0..NumServers, NEW noCrypt \in BOOLEAN, noCrypt => ~m_config.required
  PROVE  LET t == beginPass(s, startAt, noCrypt)
         IN  /\ Passing(t, x) /\ Used(t) = Used(s) /\ t.hold = s.hold /\ ~t.retry
             /\ Clear(t)
<1> DEFINE c == disconnect(stopConnectionTry(s))
           yes == TRUE
           no == FALSE
           obf == m_config.preferred /\ ~noCrypt
           pos == IF startAt < NumServers THEN startAt ELSE 0
           t == [c EXCEPT !.connecting = yes, !.single = no, !.tryObf = obf, !.pos = pos]
<1>1. beginPass(s, startAt, noCrypt) = t
  BY DEF beginPass
<1>2. /\ Clear(c) /\ Used(c) = Used(s) /\ c.hold = s.hold
      /\ ~c.connecting /\ ~c.single /\ ~c.retry
  BY ClearIs
<1>3. yes \in BOOLEAN /\ yes /\ no \in BOOLEAN /\ ~no /\ obf \in BOOLEAN
  BY ConfigFacts
<1>4. m_config.required => obf
  BY ConfigFacts
<1>5. pos \in 0..NumServers
  BY ListAssumption
<1>6. c \in MemberType
  BY <1>2 DEF Clear
<1> HIDE DEF c, yes, no, obf, pos
<1>7. /\ t \in MemberType /\ Links(c, t) /\ t.socks = c.socks /\ t.connecting = yes
      /\ t.single = no /\ t.tryObf = obf /\ t.hold = c.hold /\ t.retry = c.retry
      /\ t.clientID = c.clientID /\ t.posted = c.posted
  BY <1>3, <1>5, <1>6, ZenonT(60) DEF MemberType, Links
<1> HIDE DEF t
<1>8. Open(t) = Open(c) /\ Used(t) = Used(c)
  BY <1>7 DEF Open, Used, Links
<1>9. Clear(t)
  BY <1>2, <1>7, <1>8 DEF Clear, Links
<1>10. Sound(t, x)
  BY <1>2, <1>3, <1>4, <1>7, <1>8, <1>9, ClearSound
<1> QED
  BY <1>1, <1>2, <1>3, <1>7, <1>8, <1>9, <1>10 DEF Passing

(* tryAnotherConnectionRequest() keeps the automatic connect going. *)
LEMMA TryAnotherIs ==
  ASSUME m_config \in Configs, NEW x, NEW s, Passing(s, x), Room(s, 1)
  PROVE  GoesFurther(s, tryAnotherConnectionRequest(s), x)
<1> DEFINE yes == TRUE
           b == beginPass(s, 0, yes)
<1>1. CASE Exhausted(s) /\ s.tryObf /\ ~m_config.required
  <2>1. tryAnotherConnectionRequest(s) = tryPass(b)
    BY <1>1 DEF tryAnotherConnectionRequest
  <2>2. Session(s) /\ x \in Used(s) \cup {None} /\ 0 \in 0..NumServers
    BY ListAssumption DEF Passing, Sound, NoStray
  <2>3. yes \in BOOLEAN
    OBVIOUS
  <2> HIDE DEF yes
  <2>4. Passing(b, x) /\ Used(b) = Used(s) /\ b.hold = s.hold
    BY <1>1, <2>2, <2>3, BeginPassIs
  <2> HIDE DEF b
  <2>5. GoesFurther(b, tryPass(b), x)
    BY <2>4, TryPassIs DEF Room
  <2> DEFINE t == tryPass(b)
  <2> HIDE DEF t
  <2>6. s.attempts = << >> /\ ToSet(s.attempts) = {}
    BY <1>1, NoAttempts DEF Exhausted
  <2>7. Len(s.attempts) <= Len(t.attempts)
    <3>1. t.attempts \in Seq(SocketIds)
      BY <2>5 DEF GoesFurther, Passing, Sound, Session, MemberType, t
    <3>2. Len(s.attempts) = 0 /\ Len(t.attempts) \in Nat
      BY <2>6, <3>1, NoAttempts
    <3> QED
      BY <3>2
  <2>8. Passing(t, x) /\ t.hold = s.hold /\ ToSet(s.attempts) \subseteq ToSet(t.attempts)
    BY <2>4, <2>5, <2>6 DEF GoesFurther, t
  <2>9. \A n \in Nat : Room(s, n + 1) => Room(t, n)
    BY <2>4, <2>5 DEF GoesFurther, Room, t
  <2> QED
    BY <2>1, <2>7, <2>8, <2>9 DEF GoesFurther, t
<1>2. CASE ~(Exhausted(s) /\ s.tryObf /\ ~m_config.required)
  <2>1. tryAnotherConnectionRequest(s) = tryPass(s)
    BY <1>2 DEF tryAnotherConnectionRequest
  <2> QED
    BY <2>1, TryPassIs
<1> QED
  BY <1>1, <1>2

(* connectToAnyServer() starts an automatic connect wherever there is a server to dial. *)
LEMMA AnyIs ==
  ASSUME m_config \in Configs, NEW s, Session(s), NEW x \in Used(s) \cup {None}, Room(s, 1),
         NEW startAt \in 0..NumServers
  PROVE  LET t == connectToAnyServer(s, startAt)
         IN  /\ Sound(t, x) /\ t.hold = s.hold
             /\ ~NothingStatic => Passing(t, x)
<1> DEFINE no == FALSE
           b == beginPass(s, startAt, no)
           t == [b EXCEPT !.connecting = no]
<1>1. no \in BOOLEAN /\ ~no
  OBVIOUS
<1>2. connectToAnyServer(s, startAt) = IF NothingStatic THEN t ELSE tryAnotherConnectionRequest(b)
  BY DEF connectToAnyServer
<1> HIDE DEF no
<1>3. Passing(b, x) /\ Used(b) = Used(s) /\ b.hold = s.hold /\ Clear(b) /\ ~b.retry
  BY <1>1, BeginPassIs
<1> HIDE DEF b
<1>4. CASE NothingStatic
  <2>1. b \in MemberType
    BY <1>3 DEF Clear
  <2>2. /\ t \in MemberType /\ Links(b, t) /\ t.socks = b.socks /\ t.connecting = no
        /\ t.single = b.single /\ t.tryObf = b.tryObf /\ t.hold = b.hold /\ t.retry = b.retry
        /\ t.clientID = b.clientID /\ t.posted = b.posted
    BY <1>1, <2>1 DEF MemberType, Links
  <2> HIDE DEF t
  <2>3. Open(t) = Open(b) /\ Used(t) = Used(b)
    BY <2>2 DEF Open, Used, Links
  <2>4. Clear(t)
    BY <1>3, <2>2, <2>3 DEF Clear, Links
  <2>5. Sound(t, x)
    BY <1>1, <1>3, <2>2, <2>3, <2>4, ClearSound DEF Passing
  <2> QED
    BY <1>2, <1>3, <1>4, <2>2, <2>5
<1>5. CASE ~NothingStatic
  <2>1. GoesFurther(b, tryAnotherConnectionRequest(b), x)
    BY <1>3, TryAnotherIs DEF Room
  <2> QED
    BY <1>2, <1>3, <1>5, <2>1 DEF GoesFurther, Passing
<1> QED
  BY <1>4, <1>5

-----------------------------------------------------------------------------
(***************************************************************************)
(* An attempt that ends.                                                   *)
(***************************************************************************)

(* A list of attempts with fewer elements. *)
LEMMA FewerAttempts ==
  ASSUME m_config \in Configs, NEW s, Session(s), Registered(s),
         NEW a \in Seq(SocketIds), IsInjective(a), ToSet(a) \subseteq ToSet(s.attempts)
  PROVE  /\ Len(a) <= Len(s.attempts) /\ Len(s.attempts) \in Nat /\ Len(a) \in Nat
         /\ ToSet(a) # ToSet(s.attempts) => Len(a) < Len(s.attempts)
<1>1. s.attempts \in Seq(SocketIds)
  BY DEF Session, MemberType
<1>2. Len(s.attempts) \in Nat /\ Len(a) \in Nat
  BY <1>1
<1>3. Len(s.attempts) <= 2
  BY <1>2, ConfigFacts DEF Registered
<1> QED
  BY <1>1, <1>2, <1>3, ShortLists

(* An attempt that is destroyed leaves the others as they were. *)
LEMMA DropIs ==
  ASSUME m_config \in Configs, NEW s, Sound(s, None), NEW i \in ToSet(s.attempts)
  PROVE  LET t == destroySocket(s, i)
         IN  /\ Session(t) /\ Obfuscated(t) /\ Used(t) = Used(s) /\ i \in Used(t)
             /\ t.hold = s.hold /\ t.connecting /\ t.single = s.single
             /\ ~s.single => Passing(t, None)
             /\ ToSet(t.attempts) = ToSet(s.attempts) \ {i} /\ Len(t.attempts) < Len(s.attempts)
             /\ \A j \in SocketIds \ {i} : t.socks[j] = s.socks[j]
<1> DEFINE I == {i}
           t == destroySockets(s, I)
<1>1. destroySocket(s, i) = t
  BY DEF destroySocket
<1>2. /\ s \in MemberType /\ s.attempts \in Seq(SocketIds)
      /\ Session(s) /\ Obfuscated(s) /\ Registered(s) /\ NoStray(s, None) /\ Purposes(s)
  BY DEF Sound, Session, MemberType
<1>3. i \in SocketIds /\ i \in Open(s) /\ I \in SUBSET SocketIds
  BY <1>2 DEF Registered, Open
<1>4. /\ s.connecting /\ ~s.connected /\ s.connectedSocket = None /\ s.hoSocket = None
      /\ s.attempts # << >>
  <2>1. s.attempts # << >>
    BY <1>2, ToSetIs
  <2> QED
    BY <1>2, <2>1 DEF Registered, Purposes, Session
<1>5. Destroyed(s, t, I)
  BY <1>2, <1>3, DestroyIs
<1> HIDE DEF t
<1>6. /\ Open(t) = Open(s) \ {i} /\ Used(t) = Used(s) \cup {i}
      /\ ToSet(t.attempts) = ToSet(s.attempts) \ {i}
      /\ IsInjective(t.attempts)
      /\ \A j \in SocketIds \ {i} : t.socks[j] = s.socks[j]
      /\ \A j \in Open(t) : t.socks[j] = s.socks[j]
  <2>1. IsInjective(s.attempts)
    BY <1>2 DEF Registered
  <2>2. /\ Open(t) = Open(s) \ I /\ Used(t) = Used(s) \cup I
        /\ ToSet(t.attempts) = ToSet(s.attempts) \ I
        /\ IsInjective(t.attempts)
        /\ \A j \in SocketIds \ I : t.socks[j] = s.socks[j]
    BY <1>2, <1>3, <1>5, <2>1, DestroyedFacts
  <2> QED
    BY <2>2 DEF Open
<1>7. /\ t \in MemberType /\ Aside(s, t) /\ ~t.connected /\ t.connectedSocket = None
      /\ t.hoSocket = None /\ t.gone = s.gone \cup {i}
      /\ t.hoServer = s.hoServer
  BY <1>3, <1>4, <1>5 DEF Destroyed, None, SocketIds
<1>8. Used(t) = Used(s) /\ i \in Used(s)
  BY <1>3, <1>6 DEF Used
<1>9. Session(t)
  <2>1. Open(t) \cap t.gone = {} /\ \A j \in Open(t) : t.socks[j].server \in Servers
    BY <1>2, <1>6, <1>7 DEF Session
  <2> QED
    BY <1>2, <1>4, <1>7, <2>1 DEF Session, Aside
<1>10. Obfuscated(t)
  BY <1>2, <1>6, <1>7 DEF Obfuscated
<1>11. t.attempts \in Seq(SocketIds) /\ ToSet(t.attempts) # ToSet(s.attempts)
  BY <1>6, <1>7 DEF MemberType
<1>12. Len(t.attempts) < Len(s.attempts) /\ Len(s.attempts) \in Nat /\ Len(t.attempts) \in Nat
  BY <1>2, <1>6, <1>11, FewerAttempts
<1>13. ASSUME ~s.single PROVE Passing(t, None)
  <2>1. Len(t.attempts) <= MaxSimCons
    BY <1>2, <1>12, ConfigFacts DEF Registered
  <2>2. /\ ToSet(t.attempts) \subseteq Open(t)
        /\ \A j \in ToSet(t.attempts) : t.socks[j] = s.socks[j] /\ j \in ToSet(s.attempts)
    BY <1>2, <1>6 DEF Registered
  <2>3. Registered(t)
    BY <1>2, <1>4, <1>6, <1>7, <1>13, <2>1, <2>2 DEF Registered, Aside
  <2>4. NoStray(t, None)
    BY <1>2, <1>4, <1>6, <1>7 DEF NoStray
  <2>5. Purposes(t)
    BY <1>2, <1>4, <1>7, <1>13 DEF Purposes, Aside
  <2> QED
    BY <1>4, <1>7, <1>9, <1>10, <1>13, <2>3, <2>4, <2>5 DEF Passing, Sound, Aside
<1> QED
  BY <1>1, <1>4, <1>6, <1>7, <1>8, <1>9, <1>10, <1>12, <1>13 DEF Aside

(* An attempt taken off the list, its socket still open. *)
LEMMA UnregisterIs ==
  ASSUME m_config \in Configs, NEW s, Passing(s, None), NEW i \in ToSet(s.attempts)
  PROVE  LET t == [s EXCEPT !.attempts = Kept(s.attempts, SocketIds \ {i})]
         IN  Passing(t, i) /\ Used(t) = Used(s) /\ t.hold = s.hold
<1> DEFINE at == Kept(s.attempts, SocketIds \ {i})
           t == [s EXCEPT !.attempts = at]
<1>1. /\ s \in MemberType /\ s.attempts \in Seq(SocketIds) /\ s.connecting /\ ~s.single
      /\ Session(s) /\ Obfuscated(s) /\ Registered(s) /\ NoStray(s, None) /\ Purposes(s)
  BY DEF Passing, Sound, Session, MemberType
<1>2. i \in SocketIds /\ i \in Open(s)
  BY <1>1 DEF Registered, Open
<1>3. at \in Seq(SocketIds) /\ ToSet(at) = ToSet(s.attempts) \ {i} /\ IsInjective(at)
  <2>1. at \in Seq(SocketIds) /\ ToSet(at) = ToSet(s.attempts) \cap (SocketIds \ {i})
    BY <1>1, ToSetKept
  <2>2. IsInjective(at)
    BY <1>1, ToSetKept DEF Registered
  <2>3. ToSet(s.attempts) \subseteq SocketIds
    BY <1>1, ToSetIs
  <2> QED
    BY <2>1, <2>2, <2>3
<1> HIDE DEF at
<1>4. /\ t \in MemberType /\ Aside(s, t) /\ t.socks = s.socks /\ t.gone = s.gone
      /\ t.attempts = at /\ t.connected = s.connected /\ t.connectedSocket = s.connectedSocket
      /\ t.hoSocket = s.hoSocket /\ t.hoServer = s.hoServer
  BY <1>1, <1>3 DEF MemberType, Aside
<1> HIDE DEF t
<1>5. Open(t) = Open(s) /\ Used(t) = Used(s)
  BY <1>4 DEF Open, Used
<1>6. Session(t) /\ Obfuscated(t)
  BY <1>1, <1>4, <1>5 DEF Session, Obfuscated, Aside
<1>7. ~s.connected /\ s.connectedSocket = None /\ s.hoSocket = None
  BY <1>1 DEF Purposes, Session
<1>8. Registered(t)
  <2>1. Len(at) <= MaxSimCons
    <3>1. Len(at) <= Len(s.attempts) /\ Len(s.attempts) \in Nat /\ Len(at) \in Nat
      BY <1>1, <1>3, FewerAttempts
    <3> QED
      BY <1>1, <3>1, ConfigFacts DEF Registered
  <2> QED
    BY <1>1, <1>3, <1>4, <1>5, <1>7, <2>1 DEF Registered, Aside
<1>9. NoStray(t, i)
  <2>1. i \in Used(t) /\ i # None
    BY <1>2, <1>5 DEF Used, None, SocketIds
  <2> QED
    BY <1>1, <1>3, <1>4, <1>5, <1>7, <2>1 DEF NoStray
<1>10. Purposes(t)
  BY <1>1, <1>4, <1>7 DEF Purposes, Aside
<1> QED
  BY <1>1, <1>4, <1>5, <1>6, <1>8, <1>9, <1>10 DEF Passing, Sound, Aside, at, t

(* The socket that no member names any more is closed. *)
LEMMA StaleIs ==
  ASSUME m_config \in Configs, NEW i \in SocketIds, NEW s, Sound(s, i)
  PROVE  LET t == destroySocket(s, i)
         IN  /\ Sound(t, None) /\ Aside(s, t) /\ t.connected = s.connected
<1> DEFINE I == {i}
           t == destroySockets(s, I)
<1>1. destroySocket(s, i) = t
  BY DEF destroySocket
<1>2. /\ s \in MemberType /\ s.attempts \in Seq(SocketIds)
      /\ Session(s) /\ Obfuscated(s) /\ Registered(s) /\ NoStray(s, i) /\ Purposes(s)
  BY DEF Sound, Session, MemberType
<1>3. I \in SUBSET SocketIds /\ i # None
  BY DEF None, SocketIds
<1>4. Destroyed(s, t, I)
  BY <1>2, <1>3, DestroyIs
<1>5. i # s.connectedSocket /\ i # s.hoSocket /\ i \notin ToSet(s.attempts) /\ i \in Used(s)
  BY <1>2, <1>3 DEF NoStray
<1> HIDE DEF t
<1>6. /\ Open(t) = Open(s) \ {i} /\ Used(t) = Used(s)
      /\ ToSet(t.attempts) = ToSet(s.attempts)
      /\ IsInjective(t.attempts)
      /\ \A j \in Open(t) : t.socks[j] = s.socks[j]
  <2>1. IsInjective(s.attempts)
    BY <1>2 DEF Registered
  <2>2. /\ Open(t) = Open(s) \ I /\ Used(t) = Used(s) \cup I
        /\ ToSet(t.attempts) = ToSet(s.attempts) \ I
        /\ IsInjective(t.attempts)
        /\ \A j \in SocketIds \ I : t.socks[j] = s.socks[j]
    BY <1>2, <1>3, <1>4, <2>1, DestroyedFacts
  <2> QED
    BY <1>5, <2>2 DEF Open
<1>7. /\ t \in MemberType /\ Aside(s, t) /\ t.connectedSocket = s.connectedSocket
      /\ t.hoSocket = s.hoSocket /\ t.hoServer = s.hoServer /\ t.gone = s.gone \cup {i}
  BY <1>4, <1>5 DEF Destroyed
<1>8. t.connected = s.connected
  <2>1. t.connected \in BOOLEAN /\ s.connected \in BOOLEAN
    BY <1>2, <1>7 DEF MemberType
  <2> QED
    BY <1>4, <1>5, <2>1 DEF Destroyed
<1>9. Session(t)
  <2>1. Open(t) \cap t.gone = {} /\ \A j \in Open(t) : t.socks[j].server \in Servers
    BY <1>2, <1>6, <1>7 DEF Session
  <2>2. s.connected => s.connectedSocket \in Open(t)
    BY <1>2, <1>5, <1>6 DEF Session
  <2>3. s.hoSocket # None => s.hoSocket \in Open(t) /\ s.hoSocket # s.connectedSocket
    BY <1>2, <1>5, <1>6 DEF Session
  <2> QED
    BY <1>2, <1>6, <1>7, <1>8, <2>1, <2>2, <2>3 DEF Session, Aside
<1>10. Obfuscated(t)
  BY <1>2, <1>6, <1>7, <1>8, <1>9 DEF Obfuscated, Session, Aside
<1>11. t.attempts \in Seq(SocketIds) /\ (t.attempts = << >> <=> s.attempts = << >>)
  <2>1. t.attempts \in Seq(SocketIds)
    BY <1>7 DEF MemberType
  <2> QED
    BY <1>2, <1>6, <2>1, ToSetIs
<1>12. Registered(t)
  <2>1. Len(t.attempts) <= Len(s.attempts) /\ Len(s.attempts) \in Nat /\ Len(t.attempts) \in Nat
    BY <1>2, <1>6, <1>11, FewerAttempts
  <2>2. Len(t.attempts) <= MaxSimCons
    BY <1>2, <2>1, ConfigFacts DEF Registered
  <2>3. t.single => Len(t.attempts) <= 1
    BY <1>2, <1>7, <2>1 DEF Registered, Aside
  <2>4. /\ ToSet(t.attempts) \subseteq Open(t)
        /\ \A j \in ToSet(t.attempts) : t.socks[j] = s.socks[j]
    BY <1>2, <1>5, <1>6 DEF Registered
  <2>5. t.attempts # << >> => t.connecting /\ t.hoSocket = None
    BY <1>2, <1>7, <1>11 DEF Registered, Aside
  <2>6. \A j \in ToSet(t.attempts) : t.socks[j].manual = t.single
    BY <1>2, <1>6, <1>7, <2>4 DEF Registered, Aside
  <2>7. \A j, k \in ToSet(t.attempts) : t.socks[j].server = t.socks[k].server => j = k
    BY <1>2, <1>6, <2>4 DEF Registered
  <2> QED
    BY <1>6, <2>2, <2>3, <2>4, <2>5, <2>6, <2>7 DEF Registered
<1>13. NoStray(t, None)
  BY <1>2, <1>3, <1>6, <1>7 DEF NoStray
<1>14. Purposes(t)
  BY <1>2, <1>7, <1>8, <1>11 DEF Purposes, Aside
<1> QED
  BY <1>1, <1>7, <1>8, <1>9, <1>10, <1>12, <1>13, <1>14 DEF Sound

(* The other address of a dual-stack server takes the place of the attempt that ended. *)
LEMMA OtherFamilyIs ==
  ASSUME m_config \in Configs, NEW s, Sound(s, None), Room(s, 1), NEW i \in ToSet(s.attempts)
  PROVE  LET t == dialOtherFamily(s, i, destroySocket(s, i))
         IN  /\ Sound(t, None) /\ t.hold = s.hold /\ t.connecting /\ t.single = s.single
             /\ ~s.single => /\ ToSet(s.attempts) \ {i} \subseteq ToSet(t.attempts)
                             /\ \A n \in Nat : Room(s, n + 1) => Room(t, n)
<1> DEFINE d == destroySocket(s, i)
           dial == IF s.socks[i].v6 THEN "v4" ELSE "v6"
           server == s.socks[i].server
           no == FALSE
           multi == ~s.single
           t == connectToServer(d, server, multi, no, dial)
<1>1. dialOtherFamily(s, i, d) = t
  BY DEF dialOtherFamily
<1>2. /\ Session(d) /\ Obfuscated(d) /\ Used(d) = Used(s) /\ i \in Used(d)
      /\ d.hold = s.hold /\ d.connecting /\ d.single = s.single
      /\ ~s.single => Passing(d, None)
      /\ ToSet(d.attempts) = ToSet(s.attempts) \ {i} /\ Len(d.attempts) < Len(s.attempts)
      /\ \A j \in SocketIds \ {i} : d.socks[j] = s.socks[j]
  BY DropIs
<1>3. no \in BOOLEAN /\ ~no /\ Room(d, 1)
  BY <1>2 DEF Room
<1>4. server \in Servers /\ s \in MemberType
  BY DEF Sound, Session, Registered
<1>5. \A j \in ToSet(d.attempts) : d.socks[j].server # server
  <2>1. \A j \in ToSet(s.attempts) : j \in SocketIds
    BY DEF Sound, Registered, Open
  <2> QED
    BY <1>2, <2>1 DEF Sound, Registered
<1> HIDE DEF d, dial, server, no
<1>6. CASE s.single
  <2>1. t = connectToServer(d, server, FALSE, no, dial)
    BY <1>6
  <2>2. None \in Used(d) \cup {None}
    OBVIOUS
  <2>3. SingleUnderWay(d, t, None)
    BY <1>2, <1>3, <1>4, <2>1, <2>2, SingleIs
  <2> HIDE DEF t
  <2>4. t.single = s.single
    <3>1. t.single \in BOOLEAN /\ s.single \in BOOLEAN
      BY <1>4, <2>3 DEF SingleUnderWay, Sound, Session, MemberType
    <3> QED
      BY <1>6, <2>3, <3>1 DEF SingleUnderWay
  <2> QED
    BY <1>1, <1>2, <1>6, <2>3, <2>4 DEF d, SingleUnderWay
<1>7. CASE ~s.single
  <2>1. t = connectToServer(d, server, TRUE, no, dial)
    BY <1>7
  <2>2. Len(d.attempts) < MaxSimCons
    <3>1. Registered(s) /\ Session(s)
      BY DEF Sound
    <3>2. Len(s.attempts) \in Nat /\ Len(d.attempts) \in Nat
      BY <1>2, <3>1 DEF Session, MemberType
    <3> QED
      BY <1>2, <3>1, <3>2, ConfigFacts DEF Registered
  <2>3. GoesFurther(d, t, None)
    BY <1>2, <1>3, <1>4, <1>5, <1>7, <2>1, <2>2, MultiIs
  <2> HIDE DEF t
  <2>4. \A n \in Nat : Room(s, n + 1) => Room(t, n)
    BY <1>2, <2>3 DEF GoesFurther, Room
  <2>5. t.single = s.single
    <3>1. t.single \in BOOLEAN /\ s.single \in BOOLEAN
      BY <1>4, <2>3 DEF GoesFurther, Passing, Sound, Session, MemberType
    <3> QED
      BY <1>7, <2>3, <3>1 DEF GoesFurther, Passing
  <2> QED
    BY <1>1, <1>2, <2>3, <2>4, <2>5 DEF GoesFurther, Passing, d
<1> QED
  BY <1>6, <1>7

(* A single connect that failed is tried once on the plain port, or given up. *)
LEMMA RetryPlainIs ==
  ASSUME m_config \in Configs, NEW s, Session(s), Obfuscated(s), Room(s, 1),
         NEW server \in Servers, NEW x \in (Used(s) \ {s.connectedSocket}) \cup {None}
  PROVE  LET t == retryWithoutObfuscation(s, server)
         IN  Sound(t, x) /\ t.hold = s.hold
<1> DEFINE tried == s.triedCrypt \cup {server}
           r == [s EXCEPT !.triedCrypt = tried]
           yes == TRUE
           dial == "first"
<1>1. CASE mayRetryPlain(s, server)
  <2>1. s \in MemberType /\ tried \in SUBSET Servers
    BY DEF Session, MemberType
  <2>2. retryWithoutObfuscation(s, server) = connectToServer(r, server, FALSE, yes, dial)
    BY <1>1 DEF retryWithoutObfuscation
  <2>3. yes \in BOOLEAN
    OBVIOUS
  <2> HIDE DEF tried, yes, dial
  <2>4. r \in MemberType /\ Aside(s, r) /\ Links(s, r) /\ r.socks = s.socks
    BY <2>1 DEF MemberType, Aside, Links
  <2>5. SameRoles(s, r)
    BY <2>4 DEF SameRoles
  <2> HIDE DEF r
  <2>6. Session(r) /\ Room(r, 1) /\ Used(r) = Used(s) /\ r.hold = s.hold
    BY <2>5, SameSound
  <2>7. x \in Used(r) \cup {None} /\ ~m_config.required
    BY <1>1, <2>6 DEF mayRetryPlain
  <2> DEFINE t == connectToServer(r, server, FALSE, yes, dial)
  <2>8. SingleUnderWay(r, t, x)
    BY <2>3, <2>6, <2>7, SingleIs
  <2> HIDE DEF t
  <2> QED
    BY <2>2, <2>6, <2>8 DEF t, SingleUnderWay
<1>2. CASE ~mayRetryPlain(s, server)
  <2>1. retryWithoutObfuscation(s, server) = stopConnectionTry(s)
    BY <1>2 DEF retryWithoutObfuscation
  <2> QED
    BY <2>1, StopIs, StopSound DEF Stopped
<1> QED
  BY <1>1, <1>2

(* An event goes on as the invariant asks: the sockets keep their roles, the hold is not touched *)
(* and an automatic connection does not come to an end.                                         *)
Continues(s, t) ==
  Sound(t, None) /\ t.hold = s.hold /\ (GoesOn /\ Going(s) => Alive(t))

(* A pause that ends in another automatic connect. *)
LEMMA PauseIs ==
  ASSUME m_config \in Configs, m_config.reconnect, NEW x, NEW s, Sound(s, x),
         NEW p \in 0..(NumServers - 1)
  PROVE  LET t == [s EXCEPT !.retry = TRUE, !.startPos = p]
         IN  Sound(t, x) /\ t.hold = s.hold /\ t.retry /\ t.single = s.single
<1> DEFINE yes == TRUE
           t == [s EXCEPT !.retry = yes, !.startPos = p]
<1>1. s \in MemberType /\ yes \in BOOLEAN /\ yes
  BY DEF Sound, Session
<1> SUFFICES Sound(t, x) /\ t.hold = s.hold /\ t.retry /\ t.single = s.single
  OBVIOUS
<1> HIDE DEF yes
<1>2. /\ t \in MemberType /\ Links(s, t) /\ t.socks = s.socks /\ t.connecting = s.connecting
      /\ t.single = s.single /\ t.tryObf = s.tryObf /\ t.hold = s.hold
      /\ t.clientID = s.clientID /\ t.posted = s.posted /\ t.retry = yes
  BY <1>1 DEF MemberType, Links
<1> HIDE DEF t
<1>3. Open(t) = Open(s) /\ Used(t) = Used(s)
  BY <1>2 DEF Open, Used, Links
<1>4. Session(t) /\ Obfuscated(t)
  BY <1>2, <1>3 DEF Sound, Session, Obfuscated, Links
<1>5. Registered(t) /\ NoStray(t, x) /\ Purposes(t)
  BY <1>2, <1>3 DEF Sound, Registered, NoStray, Purposes, Links
<1> QED
  BY <1>1, <1>2, <1>4, <1>5 DEF Sound

(* What afterFailure() makes of an attempt that failed; its socket is closed next. *)
LEMMA AfterFailureIs ==
  ASSUME m_config \in Configs, NEW s, Sound(s, None), Room(s, 1), NEW i \in ToSet(s.attempts),
         NEW reason \in {"Error", "ServerDead", "ServerFull", "FatalError"}
  PROVE  LET t == afterFailure(s, i, reason)
         IN  /\ Sound(t, i) /\ t.hold = s.hold
             /\ m_config.reconnect /\ ~s.single => (t.connecting \/ t.retry) /\ ~t.single
<1>1. /\ s \in MemberType /\ s.attempts \in Seq(SocketIds)
      /\ Session(s) /\ Obfuscated(s) /\ Registered(s) /\ NoStray(s, None) /\ Purposes(s)
  BY DEF Sound, Session, MemberType
<1>2. i \in SocketIds /\ i \in Open(s) /\ i \in Used(s) /\ s.socks[i].server \in Servers
  BY <1>1 DEF Registered, Open, Used, Session
<1>3. s.connecting /\ ~s.connected /\ s.connectedSocket = None
  <2>1. s.attempts # << >>
    BY <1>1, ToSetIs
  <2> QED
    BY <1>1, <2>1 DEF Registered, Purposes, Session
<1>4. i \in (Used(s) \ {s.connectedSocket}) \cup {None}
  BY <1>2, <1>3 DEF None, SocketIds
<1>5. CASE reason = "FatalError"
  <2> DEFINE t == stopConnectionTry(s)
             p == s.socks[i].server % NumServers
             u == [t EXCEPT !.retry = TRUE, !.startPos = p]
             autoretry == m_config.reconnect /\ s.connecting /\ ~s.single
  <2>1. afterFailure(s, i, reason) = IF autoretry THEN u ELSE t
    BY <1>5 DEF afterFailure
  <2>2. Sound(t, i) /\ t.hold = s.hold /\ ~t.single
    BY <1>1, <1>4, StopIs, StopSound DEF Stopped
  <2> HIDE DEF t
  <2>3. p \in 0..(NumServers - 1)
    BY <1>2, ListAssumption DEF Servers
  <2> HIDE DEF p
  <2>4. CASE autoretry
    <3>1. Sound(u, i) /\ u.hold = t.hold /\ u.retry /\ u.single = t.single
      BY <2>2, <2>3, <2>4, PauseIs
    <3> HIDE DEF u
    <3> QED
      BY <2>1, <2>2, <2>4, <3>1
  <2>5. CASE ~autoretry
    <3>1. ~(m_config.reconnect /\ ~s.single)
      BY <1>3, <2>5
    <3> QED
      BY <2>1, <2>2, <2>5, <3>1
  <2> QED
    BY <2>4, <2>5
<1>6. CASE reason # "FatalError" /\ s.single
  <2>1. afterFailure(s, i, reason) = retryWithoutObfuscation(s, s.socks[i].server)
    BY <1>3, <1>6 DEF afterFailure
  <2> QED
    BY <1>1, <1>2, <1>4, <1>6, <2>1, RetryPlainIs
<1>7. CASE reason # "FatalError" /\ ~s.single
  <2> DEFINE r == [s EXCEPT !.attempts = Kept(s.attempts, SocketIds \ {i})]
  <2>1. afterFailure(s, i, reason) = tryAnotherConnectionRequest(r)
    BY <1>3, <1>7 DEF afterFailure
  <2>2. Passing(r, i) /\ Used(r) = Used(s) /\ r.hold = s.hold
    BY <1>3, <1>7, UnregisterIs DEF Passing
  <2> HIDE DEF r
  <2>3. GoesFurther(r, tryAnotherConnectionRequest(r), i)
    BY <2>2, TryAnotherIs DEF Room
  <2> QED
    BY <2>1, <2>2, <2>3 DEF GoesFurther, Passing
<1> QED
  BY <1>5, <1>6, <1>7

(* The live session is closed: t is the state after, with what else the call changes. *)
LEMMA LiveGoneIs ==
  ASSUME m_config \in Configs, NEW s, Sound(s, None), s.connected,
         NEW t \in MemberType, Links(destroySocket(s, s.connectedSocket), t),
         t.socks = destroySocket(s, s.connectedSocket).socks,
         t.tryObf = s.tryObf, t.retry = s.retry, t.posted = s.posted
  PROVE  /\ Used(t) = Used(s) /\ s.connectedSocket \in SocketIds
         /\ (/\ ~Excused => t.clientID = "none"
             /\ \/ ~t.connecting /\ ~t.single
                \/ t.connecting /\ t.single /\ s.hoSocket # None
                \/ /\ t.connecting /\ ~t.single /\ s.hoSocket = None
                   /\ m_config.required => t.tryObf)
              => Sound(t, None)
<1> DEFINE i == s.connectedSocket
           I == {i}
           d == destroySockets(s, I)
<1>1. destroySocket(s, i) = d
  BY DEF destroySocket
<1>2. /\ s \in MemberType /\ s.attempts \in Seq(SocketIds)
      /\ Session(s) /\ Obfuscated(s) /\ Registered(s) /\ NoStray(s, None) /\ Purposes(s)
  BY DEF Sound, Session, MemberType
<1>3. i \in SocketIds /\ i \in Open(s) /\ I \in SUBSET SocketIds /\ i # None
  BY <1>2 DEF Session, Open
<1>4. ~s.connecting /\ ~s.single /\ s.attempts = << >> /\ s.hoSocket # i
  BY <1>2, <1>3 DEF Purposes, Registered, Session
<1>5. Destroyed(s, d, I)
  BY <1>2, <1>3, DestroyIs
<1>6. Links(d, t) /\ t.socks = d.socks
  BY <1>1
<1> HIDE DEF d
<1>7. /\ Open(d) = Open(s) \ I /\ Used(d) = Used(s) \cup I /\ ToSet(d.attempts) = ToSet(s.attempts) \ I
      /\ \A j \in SocketIds \ I : d.socks[j] = s.socks[j]
  <2> HIDE DEF I
  <2> QED
    BY ONLY <1>2, <1>3, <1>5, DestroyedFacts
<1>8. Open(t) = Open(d) /\ Used(t) = Used(d)
  BY <1>6 DEF Links, Open, Used
<1>9. Used(t) = Used(s)
  BY <1>3, <1>7, <1>8 DEF Used
<1>10. t.attempts = << >>
  <2>1. ToSet(t.attempts) = {} /\ t.attempts \in Seq(SocketIds)
    BY <1>4, <1>6, <1>7, NoAttempts DEF Links, MemberType
  <2> QED
    BY <2>1, ToSetIs
<1>11. /\ ~t.connected /\ t.connectedSocket = None /\ t.hoSocket = s.hoSocket
       /\ t.hoServer = s.hoServer /\ t.gone = s.gone \cup {i} /\ Open(t) = Open(s) \ {i}
       /\ \A j \in Open(t) : t.socks[j] = s.socks[j]
  <2>1. /\ ~d.connected /\ d.connectedSocket = None /\ d.hoSocket = s.hoSocket
        /\ d.hoServer = s.hoServer /\ d.gone = s.gone \cup {i}
    BY <1>4, <1>5 DEF Destroyed
  <2>2. \A j \in Open(t) : t.socks[j] = s.socks[j]
    BY <1>6, <1>7, <1>8 DEF Open
  <2> QED
    BY <1>6, <1>7, <1>8, <2>1, <2>2 DEF Links
<1>12. ASSUME ~Excused => t.clientID = "none",
              \/ ~t.connecting /\ ~t.single
              \/ t.connecting /\ t.single /\ s.hoSocket # None
              \/ /\ t.connecting /\ ~t.single /\ s.hoSocket = None
                 /\ m_config.required => t.tryObf
       PROVE  Sound(t, None)
  <2>1. Session(t)
    <3>1. Open(t) \cap t.gone = {} /\ \A j \in Open(t) : t.socks[j].server \in Servers
      BY <1>2, <1>11 DEF Session
    <3>2. t.hoSocket # None => t.hoSocket \in Open(t) /\ t.hoSocket # t.connectedSocket
      BY <1>2, <1>4, <1>11 DEF Session
    <3> QED
      BY <1>2, <1>11, <1>12, <3>1, <3>2 DEF Session
  <2>2. Obfuscated(t)
    BY <1>2, <1>11 DEF Obfuscated
  <2>3. Registered(t)
    <3>1. ToSet(t.attempts) = {} /\ IsInjective(t.attempts) /\ Len(t.attempts) = 0
      BY <1>10, NoAttempts
    <3>2. 0 <= MaxSimCons
      BY ConfigFacts
    <3> QED
      BY <1>10, <3>1, <3>2 DEF Registered
  <2>4. NoStray(t, None)
    BY <1>2, <1>4, <1>10, <1>11 DEF NoStray
  <2>5. Purposes(t)
    BY <1>2, <1>4, <1>11, <1>12 DEF Purposes
  <2> QED
    BY <2>1, <2>2, <2>3, <2>4, <2>5 DEF Sound
<1> QED
  BY <1>3, <1>9, <1>12

-----------------------------------------------------------------------------
(***************************************************************************)
(* The handover to IPv6.                                                   *)
(***************************************************************************)

(* The handover's socket is closed: only the live session is left, if there is one. *)
LEMMA HandoverGoneIs ==
  ASSUME m_config \in Configs, NEW s, Sound(s, None), s.hoSocket # None
  PROVE  LET t == destroySocket(s, s.hoSocket)
         IN  /\ t \in MemberType /\ Aside(s, t) /\ Session(t) /\ Obfuscated(t) /\ Used(t) = Used(s)
             /\ t.connected = s.connected /\ t.connectedSocket = s.connectedSocket
             /\ t.hoSocket = None
             /\ s.connected => Sound(t, None)
<1> DEFINE i == s.hoSocket
           I == {i}
           t == destroySockets(s, I)
<1>1. destroySocket(s, i) = t
  BY DEF destroySocket
<1>2. /\ s \in MemberType /\ s.attempts \in Seq(SocketIds)
      /\ Session(s) /\ Obfuscated(s) /\ Registered(s) /\ NoStray(s, None) /\ Purposes(s)
  BY DEF Sound, Session, MemberType
<1>3. i \in SocketIds /\ i \in Open(s) /\ I \in SUBSET SocketIds /\ i # None
  BY <1>2 DEF Session, Open
<1>4. s.attempts = << >> /\ s.connectedSocket # i /\ s.hoServer # None
  BY <1>2 DEF Registered, Session, Purposes
<1>5. Destroyed(s, t, I)
  BY <1>2, <1>3, DestroyIs
<1> HIDE DEF t
<1>6. /\ Open(t) = Open(s) \ I /\ Used(t) = Used(s) \cup I /\ ToSet(t.attempts) = ToSet(s.attempts) \ I
      /\ \A j \in SocketIds \ I : t.socks[j] = s.socks[j]
  BY <1>2, <1>3, <1>5, DestroyedFacts
<1>7. Used(t) = Used(s)
  BY <1>3, <1>6 DEF Used
<1>8. t.attempts = << >>
  <2>1. ToSet(t.attempts) = {} /\ t.attempts \in Seq(SocketIds)
    BY <1>4, <1>5, <1>6, NoAttempts DEF Destroyed, MemberType
  <2> QED
    BY <2>1, ToSetIs
<1>9. /\ t \in MemberType /\ Aside(s, t) /\ t.connectedSocket = s.connectedSocket
      /\ t.hoSocket = None /\ t.hoServer = None /\ t.gone = s.gone \cup {i}
      /\ Open(t) = Open(s) \ {i} /\ \A j \in Open(t) : t.socks[j] = s.socks[j]
  BY <1>4, <1>5, <1>6 DEF Destroyed, Open
<1>10. t.connected = s.connected
  <2>1. t.connected \in BOOLEAN /\ s.connected \in BOOLEAN
    BY <1>2, <1>9 DEF MemberType
  <2> QED
    BY <1>4, <1>5, <2>1 DEF Destroyed
<1>11. Session(t)
  <2>1. Open(t) \cap t.gone = {} /\ \A j \in Open(t) : t.socks[j].server \in Servers
    BY <1>2, <1>9 DEF Session
  <2>2. s.connected => s.connectedSocket \in Open(t)
    BY <1>2, <1>4, <1>9 DEF Session
  <2> QED
    BY <1>2, <1>9, <1>10, <2>1, <2>2 DEF Session, Aside
<1>12. Obfuscated(t)
  BY <1>2, <1>9, <1>10, <1>11 DEF Obfuscated, Session, Aside
<1>13. ASSUME s.connected PROVE Sound(t, None)
  <2>1. ~s.connecting /\ ~s.single
    BY <1>2, <1>13 DEF Purposes
  <2>2. Registered(t)
    <3>1. ToSet(t.attempts) = {} /\ IsInjective(t.attempts) /\ Len(t.attempts) = 0
      BY <1>8, NoAttempts
    <3>2. 0 <= MaxSimCons
      BY ConfigFacts
    <3> QED
      BY <1>8, <3>1, <3>2 DEF Registered
  <2>3. NoStray(t, None)
    BY <1>2, <1>4, <1>8, <1>9 DEF NoStray
  <2>4. Purposes(t)
    BY <1>2, <1>9, <2>1 DEF Purposes, Aside
  <2> QED
    BY <1>11, <1>12, <2>2, <2>3, <2>4 DEF Sound
<1> QED
  BY <1>1, <1>7, <1>9, <1>10, <1>11, <1>12, <1>13

(* Only what a handover is due to do may differ. *)
SameSockets(s, t) ==
  /\ t \in MemberType /\ t.connecting = s.connecting /\ t.single = s.single /\ t.retry = s.retry
  /\ t.tryObf = s.tryObf /\ t.hold = s.hold /\ t.clientID = s.clientID
  /\ t.gone = s.gone /\ t.attempts = s.attempts /\ t.connected = s.connected
  /\ t.connectedSocket = s.connectedSocket /\ t.hoSocket = s.hoSocket /\ t.socks = s.socks

(* A handover that is due, or no longer. *)
LEMMA NoteIs ==
  ASSUME NEW x, NEW s, Sound(s, x), NEW t, SameSockets(s, t),
         s.hoSocket # None => t.hoServer # None,
         ~m_config.preferIPv6 => t.hoServer = None /\ t.posted = {}
  PROVE  Sound(t, x) /\ Used(t) = Used(s) /\ Open(t) = Open(s)
<1>1. Open(t) = Open(s) /\ Used(t) = Used(s)
  BY DEF SameSockets, Open, Used
<1>2. Session(t)
  BY <1>1 DEF Sound, Session, SameSockets
<1>3. Obfuscated(t)
  BY <1>1 DEF Sound, Obfuscated, SameSockets
<1>4. Registered(t)
  BY <1>1 DEF Sound, Registered, SameSockets
<1>5. NoStray(t, x)
  BY <1>1 DEF Sound, NoStray, SameSockets
<1>6. Purposes(t)
  BY <1>1 DEF Sound, Purposes, SameSockets
<1> QED
  BY <1>1, <1>2, <1>3, <1>4, <1>5, <1>6 DEF Sound

(* Where there is a handover the preferences ask for one. *)
LEMMA HandoverWanted ==
  ASSUME NEW s, Session(s), s.hoSocket # None \/ s.hoServer # None \/ s.posted # {}
  PROVE  m_config.preferIPv6
  BY DEF Session

(* failIPv6Handover() keeps the IPv4 session, or goes back to it. *)
LEMMA FailHandoverIs ==
  ASSUME m_config \in Configs, NEW s, Sound(s, None), s.hoSocket # None, Room(s, 1), NEW reason
  PROVE  Continues(s, failIPv6Handover(s, s.hoSocket, reason))
<1> DEFINE entry == s.hoServer
           refused == s.hoLoginSent /\ reason = "ServerFull"
           t == destroySocket(s, s.hoSocket)
           sf == t.switchFailed \cup {entry}
           u == [t EXCEPT !.switchFailed = sf]
           ps == t.posted \cup {"closeFirst"}
           w == [t EXCEPT !.hoServer = entry, !.posted = ps]
           no == FALSE
           dial == "first"
           v == connectToServer(u, entry, FALSE, no, dial)
<1>1. failIPv6Handover(s, s.hoSocket, reason) =
        IF ~t.connected THEN v ELSE IF refused /\ ~s.hoCloseFirst THEN w ELSE u
  BY DEF failIPv6Handover
<1>2. /\ t \in MemberType /\ Aside(s, t) /\ Session(t) /\ Obfuscated(t) /\ Used(t) = Used(s)
      /\ t.connected = s.connected /\ t.hoSocket = None
      /\ s.connected => Sound(t, None)
  BY HandoverGoneIs
<1>3. Session(s) /\ entry \in Servers /\ m_config.preferIPv6 /\ no \in BOOLEAN /\ ~no
  <2>1. Session(s) /\ Purposes(s) /\ s \in MemberType
    BY DEF Sound, Session
  <2>2. entry \in Servers
    BY <2>1 DEF Purposes, MemberType
  <2> QED
    BY <2>1, <2>2, HandoverWanted
<1> HIDE DEF t, entry, no, dial
<1>4. sf \in SUBSET Servers
  BY <1>2, <1>3 DEF MemberType
<1>5. ps \in SUBSET {"beside", "closeFirst"}
  BY <1>2 DEF MemberType
<1> HIDE DEF sf, ps
<1>6. SameRoles(t, u)
  <2>1. u \in MemberType /\ Aside(t, u) /\ Links(t, u) /\ u.socks = t.socks
    BY <1>2, <1>4, SMTT(30) DEF MemberType, Aside, Links
  <2> QED
    BY <2>1 DEF SameRoles
<1>7. CASE ~t.connected
  <2> HIDE DEF u
  <2>1. Session(u) /\ Room(u, 1) /\ u.hold = t.hold
    BY <1>2, <1>6, SameSound DEF Room
  <2>2. None \in Used(u) \cup {None}
    OBVIOUS
  <2>3. SingleUnderWay(u, v, None)
    BY <1>3, <2>1, <2>2, SingleIs
  <2> HIDE DEF v
  <2> QED
    BY <1>1, <1>2, <1>3, <1>7, <2>1, <2>3 DEF SingleUnderWay, Continues, Alive, Aside
<1>8. CASE t.connected /\ refused /\ ~s.hoCloseFirst
  <2>1. SameSockets(t, w)
    <3>1. entry \in Servers \cup {None}
      BY <1>3
    <3> QED
      BY <1>2, <1>5, <3>1, ZenonT(60) DEF MemberType, SameSockets
  <2> HIDE DEF w
  <2>2. Sound(w, None)
    BY <1>2, <1>3, <1>8, <2>1, NoteIs
  <2> QED
    BY <1>1, <1>2, <1>3, <1>8, <2>1, <2>2 DEF Continues, Alive, SameSockets, Aside
<1>9. CASE t.connected /\ ~(refused /\ ~s.hoCloseFirst)
  <2> HIDE DEF u
  <2>1. Sound(u, None) /\ u.hold = t.hold /\ u.connected
    BY <1>2, <1>6, <1>9, SameSound DEF SameRoles, Links
  <2> QED
    BY <1>1, <1>2, <1>3, <1>9, <2>1 DEF Continues, Alive, Aside
<1> QED
  BY <1>7, <1>8, <1>9

(* startIPv6Handover() dials beside the live session, or in its place. *)
LEMMA StartHandoverIs ==
  ASSUME m_config \in Configs, NEW s, Sound(s, None), Room(s, 1), m_config.preferIPv6,
         NEW closeFirst \in BOOLEAN
  PROVE  LET h == startIPv6Handover(s, closeFirst)
         IN  Sound(h, None) /\ h.hold = s.hold /\ (Alive(s) => Alive(h)) /\ (Off(s) => Off(h))
<1> DEFINE entry == s.hoServer
           yes == TRUE
           r == [s EXCEPT !.connecting = yes, !.single = yes]
           t == IF closeFirst THEN disconnect(r) ELSE s
           i == NextSocket(t)
           no == FALSE
           dial == "v6"
           c == createServerSocket(t, i, entry, no, dial, no)
           sk == [c.socks EXCEPT ![i].fallback = no]
           u == [c EXCEPT !.socks = sk, !.hoSocket = i, !.hoServer = entry,
                          !.hoLoginSent = no, !.hoCloseFirst = closeFirst]
           w == [s EXCEPT !.hoServer = None]
           dropped == \/ entry = None \/ ~s.connected
                      \/ ~wantsIPv6Switch(s, s.connectedSocket)
                      \/ s.socks[s.connectedSocket].server # entry
<1>0. s \in MemberType
  BY DEF Sound, Session
<1>1. CASE s.hoSocket # None
  <2>1. startIPv6Handover(s, closeFirst) = s
    BY <1>1 DEF startIPv6Handover
  <2> QED
    BY <2>1
<1>2. CASE s.hoSocket = None /\ dropped
  <2>1. startIPv6Handover(s, closeFirst) = w
    BY <1>2 DEF startIPv6Handover
  <2>2. SameSockets(s, w)
    BY <1>0 DEF MemberType, SameSockets
  <2> HIDE DEF w
  <2>3. Sound(w, None)
    BY <1>2, <2>2, NoteIs
  <2> QED
    BY <2>1, <2>2, <2>3 DEF SameSockets, Alive, Off
<1>3. CASE s.hoSocket = None /\ ~dropped
  <2>1. /\ Session(s) /\ Obfuscated(s) /\ Registered(s) /\ NoStray(s, None) /\ Purposes(s)
        /\ s.connected /\ entry \in Servers /\ s.connectedSocket \in Open(s)
        /\ s.connectedSocket \in SocketIds
    BY <1>0, <1>3 DEF Sound, Session, MemberType, Open
  <2>2. ~s.connecting /\ ~s.single /\ s.attempts = << >> /\ Open(s) \subseteq {s.connectedSocket}
    <3>1. s.attempts = << >>
      BY <2>1 DEF Purposes, Registered
    <3> QED
      BY <1>3, <2>1, <3>1, NoAttempts DEF Purposes, NoStray, None, Open, SocketIds
  <2>3. yes \in BOOLEAN /\ yes /\ no \in BOOLEAN /\ ~no
    OBVIOUS
  <2>4. startIPv6Handover(s, closeFirst) =
          [c EXCEPT !.socks[i].fallback = no, !.hoSocket = i, !.hoServer = entry,
                    !.hoLoginSent = no, !.hoCloseFirst = closeFirst]
    BY <1>3 DEF startIPv6Handover
  <2>5. /\ t \in MemberType /\ t.hold = s.hold /\ t.gone \cap Open(t) = {} /\ Used(t) = Used(s)
        /\ t.attempts = << >> /\ t.hoSocket = None /\ t.retry = s.retry /\ t.tryObf = s.tryObf
        /\ (~closeFirst => t = s)
        /\ (closeFirst => /\ t.connecting /\ t.single /\ ~t.connected /\ t.clientID = "none"
                          /\ t.connectedSocket = None /\ Open(t) = {})
    <3>1. CASE ~closeFirst
      BY <1>0, <1>3, <2>1, <2>2, <3>1 DEF Session
    <3>2. CASE closeFirst
      <4> DEFINE none == "none"
                 q == [r EXCEPT !.clientID = none]
                 I == {s.connectedSocket}
                 d == destroySockets(q, I)
      <4>1. /\ r \in MemberType /\ r.connecting = yes /\ r.single = yes /\ Links(s, r)
            /\ r.socks = s.socks /\ r.hold = s.hold /\ r.retry = s.retry /\ r.tryObf = s.tryObf
        <5> HIDE DEF yes
        <5> QED
          BY <1>0, <2>3, ZenonT(60) DEF MemberType, Links
      <4>2. none \in {"none", "low", "high"}
        OBVIOUS
      <4>3. r.connected /\ r.connectedSocket = s.connectedSocket
        BY <2>1, <4>1 DEF Links
      <4> HIDE DEF r
      <4>4. disconnect(r) = d
        BY <4>3 DEF disconnect, destroySocket
      <4> HIDE DEF none
      <4>5. /\ q \in MemberType /\ Links(r, q) /\ q.socks = r.socks /\ q.hold = r.hold
            /\ q.connecting = r.connecting /\ q.single = r.single /\ q.retry = r.retry
            /\ q.tryObf = r.tryObf /\ q.clientID = none
        BY <4>1, <4>2 DEF MemberType, Links
      <4> HIDE DEF q
      <4>6. /\ q.gone = s.gone /\ q.attempts = << >> /\ q.connected
            /\ q.connectedSocket = s.connectedSocket /\ q.hoSocket = None /\ q.socks = s.socks
        BY <1>3, <2>1, <2>2, <4>1, <4>5 DEF Links
      <4>7. Open(q) = Open(s) /\ Used(q) = Used(s) /\ I \in SUBSET SocketIds
        BY <2>1, <4>6 DEF Open, Used
      <4>8. Destroyed(q, d, I)
        BY <4>5, <4>7, DestroyIs
      <4> HIDE DEF d
      <4>9. Open(d) = Open(s) \ I /\ Used(d) = Used(s) \cup I /\ ToSet(d.attempts) = ToSet(q.attempts) \ I
        <5> HIDE DEF I
        <5> QED
          BY <4>5, <4>7, <4>8, DestroyedFacts
      <4>10. d.attempts = << >>
        <5>1. ToSet(d.attempts) = {} /\ d.attempts \in Seq(SocketIds)
          BY <4>6, <4>8, <4>9, NoAttempts DEF Destroyed, MemberType
        <5> QED
          BY <5>1, ToSetIs
      <4>11. Open(d) = {} /\ Used(d) = Used(s)
        BY <2>1, <2>2, <4>9 DEF Used
      <4>12. /\ d \in MemberType /\ d.hold = s.hold /\ d.connecting /\ d.single /\ ~d.connected
             /\ d.connectedSocket = None /\ d.hoSocket = None /\ d.retry = s.retry
             /\ d.tryObf = s.tryObf /\ d.clientID = "none"
        BY <2>3, <4>1, <4>5, <4>6, <4>8 DEF Destroyed, Aside, None, none
      <4>13. t = d
        BY <3>2, <4>4
      <4> HIDE DEF t
      <4> QED
        BY <3>2, <4>10, <4>11, <4>12, <4>13
    <3> QED
      BY <3>1, <3>2
  <2> HIDE DEF t
  <2>6. i \in SocketIds \ Used(t) /\ i # None
    <3>1. i \in SocketIds \ Used(t)
      BY <2>5, NextFree DEF Room
    <3> QED
      BY <3>1 DEF None, SocketIds
  <2> HIDE DEF i, no, dial, entry
  <2>7. /\ c \in MemberType /\ Aside(t, c) /\ Links(t, c) /\ Open(c) = Open(t) \cup {i}
        /\ \A j \in SocketIds \ {i} : c.socks[j] = t.socks[j]
        /\ c.socks[i].state = "Connecting" /\ c.socks[i].server = entry
        /\ c.socks[i].crypt = (~no /\ entry \in Obfuscating) /\ c.socks[i].manual = no
    BY <2>1, <2>3, <2>5, <2>6, CreateIs
  <2> HIDE DEF c
  <2>8. startIPv6Handover(s, closeFirst) = u
    BY <2>4, <2>7 DEF MemberType
  <2>9. /\ sk \in [SocketIds -> SocketType] /\ sk[i].state = "Connecting" /\ sk[i].server = entry
        /\ sk[i].crypt = (~no /\ entry \in Obfuscating) /\ \A j \in SocketIds \ {i} : sk[j] = t.socks[j]
    <3>1. c.socks \in [SocketIds -> SocketType]
      BY <2>7 DEF MemberType
    <3> QED
      BY <2>3, <2>6, <2>7, <3>1 DEF SocketType
  <2> HIDE DEF sk
  <2>10. /\ u \in MemberType /\ Aside(c, u) /\ u.socks = sk /\ u.gone = c.gone
         /\ u.attempts = c.attempts /\ u.connected = c.connected
         /\ u.connectedSocket = c.connectedSocket /\ u.hoSocket = i /\ u.hoServer = entry
    <3>1. entry \in Servers \cup {None} /\ i \in SocketIds \cup {None}
      BY <2>1, <2>6
    <3> QED
      BY <2>3, <2>7, <2>9, <3>1, ZenonT(60) DEF MemberType, Aside
  <2> HIDE DEF u
  <2>11. /\ u.hold = s.hold /\ u.gone = t.gone /\ u.attempts = << >> /\ u.connected = t.connected
         /\ u.connectedSocket = t.connectedSocket /\ u.connecting = t.connecting
         /\ u.single = t.single /\ u.retry = s.retry /\ u.tryObf = s.tryObf
         /\ u.clientID = t.clientID
    BY <2>5, <2>7, <2>10 DEF Aside, Links
  <2>12. Open(u) = Open(t) \cup {i} /\ Used(u) = Used(t) \cup {i} /\ i \notin Open(t) /\ i \notin t.gone
    <3>1. Open(u) = Open(c)
      BY <2>7, <2>9, <2>10 DEF Open
    <3> QED
      BY <2>6, <2>7, <2>11, <3>1 DEF Used
  <2>13. \A j \in Open(t) : u.socks[j] = t.socks[j]
    BY <2>9, <2>10, <2>12 DEF Open
  <2>14. /\ Open(t) = (IF closeFirst THEN {} ELSE {s.connectedSocket})
         /\ u.connected = ~closeFirst
         /\ u.connectedSocket = (IF closeFirst THEN None ELSE s.connectedSocket)
         /\ u.connecting = closeFirst /\ u.single = closeFirst
         /\ ~closeFirst => u.socks[s.connectedSocket] = s.socks[s.connectedSocket]
    <3>1. CASE closeFirst
      <4>1. u.connecting /\ u.single /\ ~u.connected /\ u.connectedSocket = None /\ Open(t) = {}
        BY <2>5, <2>11, <3>1
      <4>2. u.connecting \in BOOLEAN /\ u.single \in BOOLEAN /\ u.connected \in BOOLEAN
        BY <2>10 DEF MemberType
      <4> QED
        BY <3>1, <4>1, <4>2
    <3>2. CASE ~closeFirst
      <4>1. t = s /\ Open(t) = {s.connectedSocket}
        BY <2>1, <2>2, <2>5, <3>2
      <4>2. u.connecting \in BOOLEAN /\ u.single \in BOOLEAN /\ u.connected \in BOOLEAN
        BY <2>10 DEF MemberType
      <4> QED
        BY <2>1, <2>2, <2>11, <2>13, <3>2, <4>1, <4>2
    <3> QED
      BY <3>1, <3>2
  <2>15. Session(u)
    <3>1. Open(u) \cap u.gone = {}
      BY <2>5, <2>11, <2>12
    <3>2. \A j \in Open(u) : u.socks[j].server \in Servers
      BY <2>1, <2>9, <2>10, <2>12, <2>14 DEF Session
    <3>3. u.connected => u.connectedSocket \in Open(u) /\ u.socks[u.connectedSocket].state = "Connected"
      BY <2>1, <2>12, <2>14 DEF Session
    <3>4. u.hoSocket \in Open(u) /\ u.hoSocket # u.connectedSocket
      BY <2>6, <2>10, <2>12, <2>14
    <3>5. u.connected <=> u.connectedSocket # None
      BY <2>1, <2>14 DEF Session
    <3>6. u.clientID # "none" => u.connected
      BY <2>5, <2>11, <2>14
    <3>7. m_config.preferIPv6
      BY <1>3, <2>1 DEF Session
    <3> QED
      BY <2>10, <3>1, <3>2, <3>3, <3>4, <3>5, <3>6, <3>7 DEF Session
  <2>16. Obfuscated(u)
    <3>1. u.socks[i].server \in Obfuscating => u.socks[i].crypt
      BY <2>3, <2>9, <2>10
    <3>2. m_config.required =>
            \A j \in Open(t) : u.socks[j].server \in Obfuscating => u.socks[j].crypt
      <4>1. Open(t) \subseteq Open(s) /\ \A j \in Open(t) : u.socks[j] = s.socks[j]
        BY <2>1, <2>14
      <4> QED
        BY <2>1, <4>1 DEF Obfuscated
    <3> QED
      BY <2>12, <3>1, <3>2 DEF Obfuscated
  <2>17. Registered(u)
    <3>1. ToSet(u.attempts) = {} /\ IsInjective(u.attempts) /\ Len(u.attempts) = 0
      BY <2>11, NoAttempts
    <3>2. 0 <= MaxSimCons
      BY ConfigFacts
    <3> QED
      BY <2>11, <3>1, <3>2 DEF Registered
  <2>18. NoStray(u, None)
    <3>1. \A j \in Open(u) : u.socks[j].state = "Connected" => j = u.connectedSocket
      BY <2>9, <2>10, <2>12, <2>14
    <3> QED
      BY <2>10, <2>12, <2>14, <3>1 DEF NoStray
  <2>19. Purposes(u)
    <3>2. u.hoServer # None /\ u.hoSocket # None
      BY <2>1, <2>6, <2>10 DEF None, Servers
    <3>3. (u.connecting => ~u.connected) /\ (u.single => u.connecting) /\ (u.connecting => u.single)
      BY <2>14
    <3> QED
      BY <3>2, <3>3 DEF Purposes
  <2>20. Alive(u) /\ ~Off(s)
    BY <2>1, <2>14 DEF Alive, Off
  <2> QED
    BY <2>8, <2>11, <2>15, <2>16, <2>17, <2>18, <2>19, <2>20 DEF Sound
<1> QED
  BY <1>1, <1>2, <1>3

-----------------------------------------------------------------------------
(***************************************************************************)
(* The login.                                                              *)
(***************************************************************************)

(* What a login that is accepted leads to. *)
WentLive(s, t) == Sound(t, None) /\ t.hold = s.hold /\ t.connected /\ ~t.single

(* s with socket i as its live session. *)
LiveWith(s, i) == [s EXCEPT !.connected = TRUE, !.connectedSocket = i]

(* The members of LiveWith(s, i). *)
LEMMA LiveWithIs ==
  ASSUME NEW s \in MemberType, NEW i \in SocketIds
  PROVE  LET t == LiveWith(s, i)
         IN  /\ t \in MemberType /\ Aside(s, t) /\ t.socks = s.socks /\ t.gone = s.gone
             /\ t.attempts = s.attempts /\ t.hoSocket = s.hoSocket /\ t.hoServer = s.hoServer
             /\ t.connected /\ t.connectedSocket = i /\ Open(t) = Open(s) /\ Used(t) = Used(s)
<1> DEFINE yes == TRUE
           t == [s EXCEPT !.connected = yes, !.connectedSocket = i]
<1>1. LiveWith(s, i) = t /\ yes \in BOOLEAN /\ yes
  BY DEF LiveWith
<1> HIDE DEF yes
<1>2. /\ t \in MemberType /\ Aside(s, t) /\ t.socks = s.socks /\ t.gone = s.gone
      /\ t.attempts = s.attempts /\ t.hoSocket = s.hoSocket /\ t.hoServer = s.hoServer
      /\ t.connected = yes /\ t.connectedSocket = i
  BY <1>1 DEF MemberType, Aside
<1> HIDE DEF t
<1>3. Open(t) = Open(s) /\ Used(t) = Used(s)
  BY <1>2 DEF Open, Used
<1> QED
  BY <1>1, <1>2, <1>3

(* goLive() ends every attempt but the one that is logged in. *)
LEMMA GoLiveIs ==
  ASSUME m_config \in Configs, NEW s \in MemberType, NEW i \in SocketIds,
         Session(LiveWith(s, i)), Obfuscated(LiveWith(s, i))
  PROVE  WentLive(s, goLive(s, i))
<1> DEFINE q == LiveWith(s, i)
           t == stopConnectionTry(q)
           fl == [t.failed EXCEPT ![t.socks[i].server] = 0]
           u == [t EXCEPT !.failed = fl]
           ps == u.posted \cup {"beside"}
           w == [u EXCEPT !.posted = ps]
           due == u.hoServer # None /\ u.hoSocket = None /\ ~u.socks[i].v6
<1>1. q.connected /\ q.connectedSocket = i /\ q.hold = s.hold /\ q.posted = s.posted
  BY LiveWithIs DEF Aside
<1>2. Stopped(q, t)
  BY StopIs
<1>3. Sound(t, None)
  BY StopSound
<1>4. goLive(s, i) = IF due THEN w ELSE u
  BY DEF goLive, LiveWith
<1> HIDE DEF q, t
<1>5. /\ t \in MemberType /\ t.connected /\ ~t.single /\ t.hold = s.hold
  BY <1>1, <1>2 DEF Stopped
<1>6. fl \in [Servers -> 0..DeadRetries]
  <2> DEFINE a == t.socks[i].server
  <2>1. 0 \in 0..DeadRetries
    BY ListAssumption
  <2>2. t.failed \in [Servers -> 0..DeadRetries]
    BY <1>5 DEF MemberType
  <2> HIDE DEF a
  <2>3. [t.failed EXCEPT ![a] = 0] \in [Servers -> 0..DeadRetries]
    BY <2>1, <2>2
  <2> QED
    BY <2>3 DEF a
<1> HIDE DEF fl
<1>7. SameRoles(t, u)
  <2>1. u \in MemberType /\ Aside(t, u) /\ Links(t, u) /\ u.socks = t.socks
    BY <1>5, <1>6 DEF MemberType, Aside, Links
  <2> QED
    BY <2>1 DEF SameRoles
<1> HIDE DEF u
<1>8. Sound(u, None) /\ u.hold = s.hold /\ u.connected /\ ~u.single /\ u \in MemberType
  BY <1>3, <1>5, <1>7, SameSound DEF SameRoles, Aside, Links
<1>9. CASE ~due
  BY <1>4, <1>8, <1>9 DEF WentLive
<1>10. CASE due
  <2>1. ps \in SUBSET {"beside", "closeFirst"}
    BY <1>8 DEF MemberType
  <2> HIDE DEF ps
  <2>2. SameSockets(u, w) /\ w.hoServer = u.hoServer
    BY <1>8, <2>1 DEF MemberType, SameSockets
  <2> HIDE DEF w
  <2>3. m_config.preferIPv6
    BY <1>8, <1>10, HandoverWanted DEF Sound
  <2>4. Sound(w, None)
    BY <1>8, <1>10, <2>2, <2>3, NoteIs
  <2> QED
    BY <1>4, <1>8, <1>10, <2>2, <2>4 DEF WentLive, SameSockets
<1> QED
  BY <1>9, <1>10

(* s with the login of socket i accepted. *)
Promoted(s, i, id) == [s EXCEPT !.clientID = id, !.socks[i].state = "Connected"]

(* The members of Promoted(s, i, id). *)
LEMMA PromotedIs ==
  ASSUME NEW s \in MemberType, NEW i \in Open(s), NEW id \in {"low", "high"}
  PROVE  LET t == Promoted(s, i, id)
         IN  /\ t \in MemberType /\ Links(s, t) /\ t.connecting = s.connecting
             /\ t.single = s.single /\ t.retry = s.retry /\ t.tryObf = s.tryObf
             /\ t.hold = s.hold /\ t.posted = s.posted /\ t.clientID = id
             /\ Open(t) = Open(s) /\ Used(t) = Used(s)
             /\ t.socks[i].state = "Connected" /\ t.socks[i].server = s.socks[i].server
             /\ t.socks[i].crypt = s.socks[i].crypt /\ t.socks[i].manual = s.socks[i].manual
             /\ \A j \in SocketIds \ {i} : t.socks[j] = s.socks[j]
<1> DEFINE on == "Connected"
           sk == [s.socks EXCEPT ![i].state = on]
           t == [s EXCEPT !.clientID = id, !.socks = sk]
<1>1. i \in SocketIds /\ s.socks \in [SocketIds -> SocketType]
  BY DEF Open, MemberType
<1>2. Promoted(s, i, id) = t
  BY DEF Promoted, MemberType
<1>3. on \in {"none", "Connecting", "WaitForLogin", "Connected"} /\ on = "Connected"
  OBVIOUS
<1> HIDE DEF on
<1>4. /\ sk \in [SocketIds -> SocketType] /\ sk[i].state = on /\ sk[i].server = s.socks[i].server
      /\ sk[i].crypt = s.socks[i].crypt /\ sk[i].manual = s.socks[i].manual
      /\ \A j \in SocketIds \ {i} : sk[j] = s.socks[j]
  BY <1>1, <1>3 DEF SocketType
<1> HIDE DEF sk
<1>5. /\ t \in MemberType /\ Links(s, t) /\ t.connecting = s.connecting
      /\ t.single = s.single /\ t.retry = s.retry /\ t.tryObf = s.tryObf
      /\ t.hold = s.hold /\ t.posted = s.posted /\ t.clientID = id /\ t.socks = sk
  <2>1. id \in {"none", "low", "high"}
    OBVIOUS
  <2> QED
    BY <1>4, <2>1 DEF MemberType, Links
<1> HIDE DEF t
<1>6. Open(t) = Open(s) /\ Used(t) = Used(s)
  BY <1>1, <1>3, <1>4, <1>5 DEF Open, Used, Links
<1> QED
  BY <1>2, <1>3, <1>4, <1>5, <1>6

(* The login of an attempt. *)
LEMMA AttemptLive ==
  ASSUME m_config \in Configs, NEW s, Sound(s, None), NEW i \in ToSet(s.attempts),
         NEW id \in {"low", "high"}
  PROVE  WentLive(s, goLive(Promoted(s, i, id), i))
<1> DEFINE v == Promoted(s, i, id)
           q == LiveWith(v, i)
<1>1. /\ s \in MemberType /\ s.attempts \in Seq(SocketIds)
      /\ Session(s) /\ Obfuscated(s) /\ Registered(s) /\ NoStray(s, None) /\ Purposes(s)
  BY DEF Sound, Session, MemberType
<1>2. i \in Open(s) /\ i \in SocketIds
  BY <1>1 DEF Registered, Open
<1>3. s.attempts # << >> /\ s.connecting /\ s.hoSocket = None
  <2>1. s.attempts # << >>
    BY <1>1, ToSetIs
  <2> QED
    BY <1>1, <2>1 DEF Registered
<1>4. /\ v \in MemberType /\ Links(s, v) /\ v.connecting = s.connecting
      /\ v.single = s.single /\ v.retry = s.retry /\ v.tryObf = s.tryObf
      /\ v.hold = s.hold /\ v.posted = s.posted /\ v.clientID = id
      /\ Open(v) = Open(s) /\ Used(v) = Used(s)
      /\ v.socks[i].state = "Connected" /\ v.socks[i].server = s.socks[i].server
      /\ v.socks[i].crypt = s.socks[i].crypt /\ v.socks[i].manual = s.socks[i].manual
      /\ \A j \in SocketIds \ {i} : v.socks[j] = s.socks[j]
  BY <1>1, <1>2, PromotedIs
<1> HIDE DEF v
<1>5. /\ q \in MemberType /\ Aside(v, q) /\ q.socks = v.socks /\ q.gone = v.gone
      /\ q.hoSocket = v.hoSocket /\ q.hoServer = v.hoServer
      /\ q.connected /\ q.connectedSocket = i /\ Open(q) = Open(v)
  BY <1>2, <1>4, LiveWithIs
<1> HIDE DEF q
<1>6. Session(q)
  <2>1. Open(q) \cap q.gone = {} /\ \A j \in Open(q) : q.socks[j].server \in Servers
    BY <1>1, <1>4, <1>5 DEF Session, Links, Open
  <2>2. q.connectedSocket # None
    BY <1>2, <1>5 DEF None, SocketIds
  <2>3. q.hoSocket = None
    BY <1>3, <1>4, <1>5 DEF Links
  <2>4. ~m_config.preferIPv6 => q.hoServer = None /\ q.posted = {}
    BY <1>1, <1>4, <1>5 DEF Session, Links, Aside
  <2> QED
    BY <1>2, <1>4, <1>5, <2>1, <2>2, <2>3, <2>4 DEF Session
<1>7. Obfuscated(q)
  <2> SUFFICES ASSUME m_config.required
               PROVE  /\ \A j \in Open(q) : q.socks[j].server \in Obfuscating => q.socks[j].crypt
                      /\ ~q.socks[q.connectedSocket].manual => q.tryObf
    BY DEF Obfuscated
  <2>1. \A j \in Open(q) : q.socks[j].server \in Obfuscating => q.socks[j].crypt
    BY <1>1, <1>2, <1>4, <1>5 DEF Obfuscated, Open
  <2>2. ~q.socks[i].manual => ~s.single
    BY <1>1, <1>4, <1>5 DEF Registered
  <2>3. ~s.single => s.tryObf
    BY <1>1, <1>3 DEF Purposes
  <2> QED
    BY <1>4, <1>5, <2>1, <2>2, <2>3 DEF Aside
<1>8. WentLive(v, goLive(v, i))
  BY <1>2, <1>4, <1>6, <1>7, GoLiveIs DEF q
<1> QED
  BY <1>4, <1>8 DEF WentLive, v

(* The login of the handover: the IPv4 session it replaces is closed first. *)
LEMMA HandoverLive ==
  ASSUME m_config \in Configs, NEW s, Sound(s, None), s.hoSocket # None,
         NEW id \in {"low", "high"}
  PROVE  WentLive(s, finishIPv6Handover(Promoted(s, s.hoSocket, id), s.hoSocket))
<1> DEFINE i == s.hoSocket
           v == Promoted(s, i, id)
           r == resetIPv6Handover(v)
           I == {r.connectedSocket}
           d == destroySockets(r, I)
           u == IF r.connected THEN d ELSE r
           yes == TRUE
           sf == u.switchFailed \ {u.socks[i].server}
           w == [u EXCEPT !.switchFailed = sf, !.connecting = yes]
           q == LiveWith(w, i)
<1>1. /\ s \in MemberType /\ s.attempts \in Seq(SocketIds) /\ m_config.preferIPv6
      /\ Session(s) /\ Obfuscated(s) /\ Registered(s) /\ NoStray(s, None) /\ Purposes(s)
  BY HandoverWanted DEF Sound, Session, MemberType
<1>2. i \in Open(s) /\ i \in SocketIds /\ i # s.connectedSocket
  BY <1>1 DEF Session, Open
<1>3. /\ v \in MemberType /\ Links(s, v) /\ v.hold = s.hold
      /\ Open(v) = Open(s) /\ Used(v) = Used(s)
      /\ v.socks[i].state = "Connected" /\ v.socks[i].server = s.socks[i].server
      /\ v.socks[i].crypt = s.socks[i].crypt
      /\ \A j \in SocketIds \ {i} : v.socks[j] = s.socks[j]
  BY <1>1, <1>2, PromotedIs
<1>4. finishIPv6Handover(v, i) = goLive(w, i)
  BY DEF finishIPv6Handover, destroySocket
<1> HIDE DEF v
<1>5. /\ r \in MemberType /\ Aside(v, r) /\ r.socks = v.socks /\ r.gone = v.gone
      /\ r.connectedSocket = v.connectedSocket /\ r.connected = v.connected
      /\ r.hoSocket = None /\ r.hoServer = None
  BY <1>3, ResetIs
<1> HIDE DEF r
<1>6. Open(r) = Open(s) /\ r.gone = s.gone /\ r.connectedSocket = s.connectedSocket /\ r.connected = s.connected
  BY <1>3, <1>5 DEF Open, Links
<1>7. /\ u \in MemberType /\ u.hold = s.hold /\ u.hoSocket = None /\ u.hoServer = None
      /\ Open(u) \subseteq Open(s) /\ i \in Open(u) /\ Open(u) \cap u.gone = {}
      /\ \A j \in Open(u) : u.socks[j] = r.socks[j]
  <2>1. CASE ~r.connected
    <3>1. u = r /\ Open(s) \cap s.gone = {}
      BY <1>1, <2>1 DEF Session
    <3> QED
      BY <1>2, <1>3, <1>5, <1>6, <3>1 DEF Aside
  <2>2. CASE r.connected
    <3>1. I \in SUBSET SocketIds
      BY <1>1, <1>6, <2>2 DEF Session, Open
    <3>2. Destroyed(r, d, I)
      BY <1>5, <3>1, DestroyIs
    <3>3. u = d
      BY <2>2
    <3> HIDE DEF d, u
    <3>4. Open(d) = Open(r) \ I /\ \A j \in SocketIds \ I : d.socks[j] = r.socks[j]
      <4> HIDE DEF I
      <4> QED
        BY <1>5, <3>1, <3>2, DestroyedFacts
    <3>5. d.gone = s.gone \cup I /\ d.hoSocket = None /\ d.hoServer = None /\ d \in MemberType /\ d.hold = s.hold
      BY <1>3, <1>5, <1>6, <3>2 DEF Destroyed, Aside
    <3>6. Open(s) \cap s.gone = {}
      BY <1>1 DEF Session
    <3> QED
      BY <1>2, <1>6, <3>3, <3>4, <3>5, <3>6 DEF Open
  <2> QED
    BY <2>1, <2>2
<1> HIDE DEF u
<1>8. yes \in BOOLEAN /\ sf \in SUBSET Servers
  BY <1>7 DEF MemberType
<1> HIDE DEF yes, sf
<1>9. /\ w \in MemberType /\ w.hold = u.hold /\ Links(u, w) /\ w.socks = u.socks
  BY <1>7, <1>8 DEF MemberType, Links
<1> HIDE DEF w
<1>10. Open(w) = Open(u)
  BY <1>9 DEF Open
<1>11. /\ q \in MemberType /\ Aside(w, q) /\ q.socks = w.socks /\ q.gone = w.gone
       /\ q.hoSocket = w.hoSocket /\ q.hoServer = w.hoServer
       /\ q.connected /\ q.connectedSocket = i /\ Open(q) = Open(w)
  BY <1>2, <1>9, LiveWithIs
<1> HIDE DEF q
<1>12. \A j \in Open(q) : j \in Open(s) /\ q.socks[j] = v.socks[j]
  BY <1>5, <1>7, <1>9, <1>10, <1>11
<1>13. Session(q)
  <2>1. Open(q) \cap q.gone = {}
    BY <1>7, <1>9, <1>10, <1>11 DEF Links
  <2>2. \A j \in Open(q) : q.socks[j].server \in Servers
    BY <1>1, <1>3, <1>12 DEF Session, Open
  <2>3. q.connectedSocket # None
    BY <1>2, <1>11 DEF None, SocketIds
  <2>4. i \in Open(q) /\ q.socks[i].state = "Connected"
    BY <1>3, <1>7, <1>10, <1>11, <1>12
  <2>5. q.hoSocket = None
    BY <1>7, <1>9, <1>11 DEF Links
  <2> QED
    BY <1>1, <1>11, <2>1, <2>2, <2>3, <2>4, <2>5 DEF Session
<1>14. Obfuscated(q)
  BY <1>1, <1>3, <1>12 DEF Obfuscated, Open
<1>15. WentLive(w, goLive(w, i))
  BY <1>2, <1>9, <1>13, <1>14, GoLiveIs DEF q
<1> QED
  BY <1>4, <1>7, <1>9, <1>15 DEF WentLive, v

(* A pass that goes on is what an automatic connection asks for. *)
LEMMA PassingContinues ==
  ASSUME NEW s, NEW t, Passing(t, None), t.hold = s.hold
  PROVE  Continues(s, t)
  BY DEF Passing, Continues, Going, Alive

(* The same of a session that went live. *)
LEMMA LiveContinues ==
  ASSUME NEW s, NEW t, WentLive(s, t)
  PROVE  Continues(s, t)
  BY DEF WentLive, Continues, Going, Alive

(* Every open socket is an attempt, the live session or the handover's. *)
LEMMA Roles ==
  ASSUME NEW s, Sound(s, None), NEW i \in Open(s)
  PROVE  /\ i \in SocketIds /\ s.socks[i].server \in Servers
         /\ \/ /\ i \in ToSet(s.attempts) /\ s.attempts # << >> /\ s.connecting /\ ~s.connected
               /\ s.connectedSocket = None /\ s.hoSocket = None /\ s.socks[i].manual = s.single
               /\ s.socks[i].state # "Connected"
            \/ /\ i = s.connectedSocket /\ s.connected /\ s.socks[i].state = "Connected"
               /\ i # s.hoSocket /\ ~s.connecting /\ ~s.single
            \/ /\ i = s.hoSocket /\ s.hoSocket # None /\ s.socks[i].state # "Connected"
<1>1. /\ s \in MemberType /\ s.attempts \in Seq(SocketIds)
      /\ Session(s) /\ Registered(s) /\ NoStray(s, None) /\ Purposes(s)
  BY DEF Sound, Session, MemberType
<1>2. i \in SocketIds /\ i # None /\ s.socks[i].server \in Servers
  BY <1>1 DEF Open, None, SocketIds, Session
<1>3. i \in ToSet(s.attempts) \/ i = s.connectedSocket \/ i = s.hoSocket
  BY <1>1, <1>2 DEF NoStray
<1>4. CASE i \in ToSet(s.attempts)
  <2>1. s.attempts # << >>
    BY <1>1, <1>4, ToSetIs
  <2>2. s.connecting /\ s.hoSocket = None /\ ~s.connected /\ s.connectedSocket = None
    BY <1>1, <2>1 DEF Registered, Purposes, Session
  <2> QED
    BY <1>1, <1>2, <1>4, <2>1, <2>2 DEF Registered, NoStray
<1>5. CASE i = s.connectedSocket
  BY <1>1, <1>2, <1>5 DEF Session, Purposes
<1>6. CASE i = s.hoSocket
  BY <1>1, <1>2, <1>6 DEF Session, NoStray
<1> QED
  BY <1>2, <1>3, <1>4, <1>5, <1>6

(* What is known of an attempt. *)
LEMMA AttemptRole ==
  ASSUME NEW s, Sound(s, None), NEW i \in ToSet(s.attempts)
  PROVE  /\ i \in Open(s) /\ i \in SocketIds /\ s.socks[i].server \in Servers
         /\ s.connecting /\ ~s.connected /\ s.connectedSocket = None /\ s.hoSocket = None
         /\ i # s.hoSocket /\ i # s.connectedSocket
         /\ s.socks[i].manual = s.single /\ s.socks[i].state # "Connected"
<1>1. /\ s \in MemberType /\ s.attempts \in Seq(SocketIds)
      /\ Session(s) /\ Registered(s) /\ NoStray(s, None) /\ Purposes(s)
  BY DEF Sound, Session, MemberType
<1>2. i \in Open(s) /\ i \in SocketIds /\ i # None
  BY <1>1 DEF Registered, Open, None, SocketIds
<1>3. s.attempts # << >>
  BY <1>1, ToSetIs
<1>4. s.connecting /\ s.hoSocket = None /\ ~s.connected /\ s.connectedSocket = None
  BY <1>1, <1>3 DEF Registered, Purposes, Session
<1> QED
  BY <1>1, <1>2, <1>4 DEF Registered, NoStray, Session

(* onLoginReceived(): the session goes live, or another server is tried. *)
LEMMA LoginIs ==
  ASSUME m_config \in Configs, Expected, NEW s, Sound(s, None), Room(s, 1), NEW i \in Open(s),
         NEW id \in {"low", "high"},
         s.socks[i].state = "Connected" => "newID" \in Anomalies
  PROVE  Continues(s, onLoginReceived(s, i, id))
<1> DEFINE server == s.socks[i].server
           tc == IF server \in Obfuscating THEN s.triedCrypt \ {server} ELSE s.triedCrypt
           sm == SmartState(s, i, id)
           t == [s EXCEPT !.triedCrypt = tc, !.smart = sm]
           u == IF i = t.hoSocket THEN t
                ELSE IF id = "high"
                THEN [t EXCEPT !.switchFailed = IF t.socks[i].v6 THEN @ ELSE @ \ {server}]
                ELSE IF wantsIPv6Switch(t, i) THEN [t EXCEPT !.hoServer = server] ELSE t
           d == destroySocket(t, i)
           b == [d EXCEPT !.connecting = TRUE]
           v == Promoted(u, i, id)
<1>1. onLoginReceived(s, i, id) =
        IF Bounces(s, i, id) THEN tryAnotherConnectionRequest(b)
        ELSE IF s.socks[i].state = "Connected" THEN v ELSE connectionEstablished(v, i)
  BY DEF onLoginReceived, Promoted
<1>2. s \in MemberType
  BY DEF Sound, Session
<1>3. sm \in 0..2 /\ tc \in SUBSET Servers
  <2>1. s.smart \in 0..2 /\ s.triedCrypt \in SUBSET Servers
    BY <1>2 DEF MemberType
  <2> QED
    BY <2>1 DEF SmartState
<1>4. SameRoles(s, t)
  <2> HIDE DEF sm, tc
  <2>1. t \in MemberType /\ Aside(s, t) /\ Links(s, t) /\ t.socks = s.socks
    BY <1>2, <1>3 DEF MemberType, Aside, Links
  <2> QED
    BY <2>1 DEF SameRoles
<1> HIDE DEF t, sm, tc
<1>5. /\ Sound(t, None) /\ Open(t) = Open(s) /\ Used(t) = Used(s) /\ Room(t, 1) /\ t.hold = s.hold
  BY <1>4, SameSound
<1>6. /\ t \in MemberType /\ t.socks = s.socks /\ t.connected = s.connected
      /\ t.connectedSocket = s.connectedSocket /\ t.hoSocket = s.hoSocket /\ t.single = s.single
      /\ t.attempts = s.attempts /\ t.connecting = s.connecting
  BY <1>4 DEF SameRoles, Aside, Links
<1>7. CASE Bounces(s, i, id)
  <2>1. i # s.hoSocket /\ ~s.socks[i].manual /\ m_config.smart
    BY <1>7 DEF Bounces
  <2>2. Passing(b, None) /\ Used(b) = Used(s) /\ b.hold = s.hold
    <3>1. CASE i \in ToSet(s.attempts)
      <4>1. ~t.single /\ i \in ToSet(t.attempts)
        BY <1>6, <2>1, <3>1 DEF Sound, Registered
      <4>2. Passing(d, None) /\ Used(d) = Used(t) /\ d.hold = t.hold /\ d.connecting
        BY <1>5, <4>1, DropIs
      <4> HIDE DEF d
      <4>3. d \in MemberType
        BY <4>2 DEF Passing, Sound, Session
      <4>4. SameRoles(d, b)
        <5> DEFINE yes == TRUE
                   bb == [d EXCEPT !.connecting = yes]
        <5>1. yes \in BOOLEAN /\ d.connecting = yes
          BY <4>2, <4>3 DEF MemberType
        <5> HIDE DEF yes
        <5>2. /\ bb \in MemberType /\ Links(d, bb) /\ bb.socks = d.socks /\ bb.connecting = yes
              /\ bb.single = d.single /\ bb.retry = d.retry /\ bb.tryObf = d.tryObf
              /\ bb.hold = d.hold /\ bb.clientID = d.clientID /\ bb.posted = d.posted
          BY <4>3, <5>1 DEF MemberType, Links
        <5>3. bb = b
          BY DEF yes
        <5> HIDE DEF b, bb
        <5> QED
          BY <5>1, <5>2, <5>3 DEF SameRoles, Aside
      <4> HIDE DEF b
      <4> QED
        BY <1>5, <4>2, <4>4, SameSound
    <3>2. CASE i = s.connectedSocket /\ s.connected
      <4>1. "newID" \in Anomalies
        BY <3>2 DEF Sound, Session
      <4>2. ~m_config.preferIPv6
        BY <2>1, <4>1 DEF Expected
      <4>3. s.hoSocket = None /\ (m_config.required => s.tryObf) /\ ~s.single
        BY <2>1, <3>2, <4>2 DEF Sound, Session, Obfuscated, Purposes
      <4>4. d \in MemberType /\ Aside(t, d)
        <5>1. i \in SocketIds /\ {i} \in SUBSET SocketIds
          BY DEF Open
        <5> QED
          BY <1>6, <5>1, DestroyIs DEF destroySocket, Destroyed
      <4>5. destroySocket(t, t.connectedSocket) = d
        BY <1>6, <3>2
      <4> HIDE DEF d
      <4> DEFINE yes == TRUE
                 bb == [d EXCEPT !.connecting = yes]
      <4>6. yes \in BOOLEAN /\ yes
        OBVIOUS
      <4>7. bb = b
        OBVIOUS
      <4> HIDE DEF yes
      <4>8. /\ bb \in MemberType /\ Links(d, bb) /\ bb.socks = d.socks /\ bb.connecting = yes
            /\ bb.single = d.single /\ bb.retry = d.retry /\ bb.tryObf = d.tryObf
            /\ bb.hold = d.hold /\ bb.clientID = d.clientID /\ bb.posted = d.posted
        BY <4>4, <4>6 DEF MemberType, Links
      <4> HIDE DEF bb
      <4>9. /\ bb.tryObf = t.tryObf /\ bb.retry = t.retry /\ bb.posted = t.posted /\ bb.connecting
            /\ ~bb.single /\ bb.hold = s.hold /\ (m_config.required => bb.tryObf)
        BY <1>4, <1>5, <4>3, <4>4, <4>6, <4>8 DEF Aside, SameRoles
      <4>10. t.connected /\ t.hoSocket = None
        BY <1>6, <3>2, <4>3
      <4>11. Sound(bb, None) /\ Used(bb) = Used(t)
        <5>1. Excused
          BY <2>1, <4>1 DEF Excused
        <5> QED
          BY <1>5, <4>5, <4>8, <4>9, <4>10, <5>1, LiveGoneIs
      <4> HIDE DEF b
      <4> QED
        BY <1>5, <4>7, <4>9, <4>11 DEF Passing
    <3> QED
      BY <2>1, <3>1, <3>2, Roles
  <2> HIDE DEF b
  <2>3. GoesFurther(b, tryAnotherConnectionRequest(b), None)
    BY <2>2, TryAnotherIs DEF Room
  <2> QED
    BY <1>1, <1>7, <2>2, <2>3, PassingContinues DEF GoesFurther
<1>8. CASE ~Bounces(s, i, id)
  <2>1. /\ Sound(u, None) /\ u.hold = s.hold /\ Open(u) = Open(s) /\ u.hoSocket = s.hoSocket
        /\ u.attempts = s.attempts /\ u.connectedSocket = s.connectedSocket
        /\ u.connected = s.connected /\ u.socks = s.socks /\ u.connecting = s.connecting
        /\ u.single = s.single
    <3> DEFINE sf == IF t.socks[i].v6 THEN t.switchFailed ELSE t.switchFailed \ {server}
               w == [t EXCEPT !.switchFailed = sf]
               h == [t EXCEPT !.hoServer = server]
    <3>1. u = t \/ u = w \/ (u = h /\ wantsIPv6Switch(t, i))
      OBVIOUS
    <3>2. sf \in SUBSET Servers /\ server \in Servers
      BY <1>6, Roles DEF MemberType
    <3> HIDE DEF sf, server, u
    <3>3. SameRoles(t, w)
      <4>1. w \in MemberType /\ Aside(t, w) /\ Links(t, w) /\ w.socks = t.socks
        BY <1>6, <3>2 DEF MemberType, Aside, Links
      <4> QED
        BY <4>1 DEF SameRoles
    <3>4. SameSockets(t, h) /\ h.hoServer = server
      BY <1>6, <3>2 DEF MemberType, SameSockets
    <3> HIDE DEF w, h
    <3>5. CASE u = t
      BY <1>5, <1>6, <3>5
    <3>6. CASE u = w
      <4>1. Sound(w, None) /\ Open(w) = Open(t) /\ w.hold = t.hold
        BY <1>5, <3>3, SameSound
      <4> QED
        BY <1>5, <1>6, <3>3, <3>6, <4>1 DEF SameRoles, Aside, Links
    <3>7. CASE u = h /\ wantsIPv6Switch(t, i)
      <4>1. m_config.preferIPv6 /\ h.hoServer # None
        BY <3>2, <3>4, <3>7 DEF wantsIPv6Switch, None, Servers
      <4>2. Sound(h, None) /\ Open(h) = Open(t)
        BY <1>5, <3>4, <4>1, NoteIs
      <4> QED
        BY <1>5, <1>6, <3>4, <3>7, <4>2 DEF SameSockets
    <3> QED
      BY <3>1, <3>5, <3>6, <3>7
  <2> HIDE DEF u
  <2>2. i \in Open(u) /\ u \in MemberType
    BY <2>1 DEF Sound, Session
  <2>3. /\ v \in MemberType /\ Links(u, v) /\ v.connecting = u.connecting
        /\ v.single = u.single /\ v.retry = u.retry /\ v.tryObf = u.tryObf
        /\ v.hold = u.hold /\ v.posted = u.posted /\ v.clientID = id
        /\ Open(v) = Open(u) /\ Used(v) = Used(u)
        /\ v.socks[i].state = "Connected" /\ v.socks[i].server = u.socks[i].server
        /\ v.socks[i].crypt = u.socks[i].crypt /\ v.socks[i].manual = u.socks[i].manual
        /\ \A j \in SocketIds \ {i} : v.socks[j] = u.socks[j]
    BY <2>2, PromotedIs
  <2>4. CASE s.socks[i].state = "Connected"
    <3>1. i = u.connectedSocket /\ u.connected
      BY <2>1, <2>4, Roles
    <3>2. /\ Session(u) /\ Obfuscated(u) /\ Registered(u) /\ NoStray(u, None) /\ Purposes(u)
      BY <2>1 DEF Sound
    <3>3. u.attempts = << >> /\ ToSet(u.attempts) = {}
      BY <3>1, <3>2, NoAttempts DEF Registered, Purposes
    <3> HIDE DEF v
    <3>4. Session(v)
      BY <2>3, <3>1, <3>2 DEF Session, Links, Open
    <3>5. Obfuscated(v)
      BY <2>3, <3>1, <3>2 DEF Obfuscated, Links, Open
    <3>6. Registered(v)
      BY <2>3, <3>2, <3>3 DEF Registered, Links
    <3>7. NoStray(v, None)
      BY <2>3, <3>1, <3>2 DEF NoStray, Links, Open
    <3>8. Purposes(v)
      BY <2>3, <3>2 DEF Purposes, Links
    <3>9. Sound(v, None)
      BY <3>4, <3>5, <3>6, <3>7, <3>8 DEF Sound
    <3>10. v.hold = s.hold /\ v.connected /\ ~v.single
      BY <2>1, <2>3, <3>1, <3>2 DEF Links, Purposes
    <3> QED
      BY <1>1, <1>8, <2>4, <3>9, <3>10 DEF Continues, Going, Alive
  <2>5. CASE s.socks[i].state # "Connected" /\ i = s.hoSocket
    <3>1. connectionEstablished(v, i) = finishIPv6Handover(v, i)
      BY <2>1, <2>3, <2>5 DEF connectionEstablished, Links
    <3>2. u.hoSocket = i /\ i # None
      BY <2>1, <2>5 DEF Open, None, SocketIds
    <3>3. WentLive(u, finishIPv6Handover(v, i))
      BY <2>1, <3>2, HandoverLive
    <3> QED
      BY <1>1, <1>8, <2>1, <2>5, <3>1, <3>3, LiveContinues DEF WentLive
  <2>6. CASE s.socks[i].state # "Connected" /\ i # s.hoSocket
    <3>1. i \in ToSet(u.attempts) /\ u.connecting
      BY <2>1, <2>6, Roles
    <3>2. connectionEstablished(v, i) = goLive(v, i)
      BY <2>1, <2>3, <2>6, <3>1 DEF connectionEstablished, Links
    <3>3. WentLive(u, goLive(v, i))
      BY <2>1, <3>1, AttemptLive
    <3> QED
      BY <1>1, <1>8, <2>1, <2>6, <3>2, <3>3, LiveContinues DEF WentLive
  <2> QED
    BY <2>4, <2>5, <2>6
<1> QED
  BY <1>7, <1>8

(* Socket i got further on the way to its login; nothing else changed. *)
Advanced(s, t, i) ==
  /\ t \in MemberType /\ Aside(s, t) /\ Links(s, t)
  /\ t.socks[i].state \in {"Connecting", "WaitForLogin"}
  /\ t.socks[i].server = s.socks[i].server /\ t.socks[i].crypt = s.socks[i].crypt
  /\ t.socks[i].manual = s.socks[i].manual
  /\ \A j \in SocketIds \ {i} : t.socks[j] = s.socks[j]

(* TCP or the login of a socket gets further. *)
LEMMA AdvancedIs ==
  ASSUME NEW s \in MemberType, NEW i \in SocketIds, NEW yes \in BOOLEAN,
         NEW state \in {"Connecting", "WaitForLogin"}
  PROVE  /\ s.socks[i].state = "Connecting" => Advanced(s, [s EXCEPT !.socks[i].tcp = yes], i)
         /\ Advanced(s, [s EXCEPT !.socks[i].state = state], i)
<1> DEFINE sk == [s.socks EXCEPT ![i].tcp = yes]
           sl == [s.socks EXCEPT ![i].state = state]
           t == [s EXCEPT !.socks = sk]
           u == [s EXCEPT !.socks = sl]
<1>1. s.socks \in [SocketIds -> SocketType]
  BY DEF MemberType
<1>2. [s EXCEPT !.socks[i].tcp = yes] = t /\ [s EXCEPT !.socks[i].state = state] = u
  BY DEF MemberType
<1>3. /\ sk \in [SocketIds -> SocketType] /\ sk[i].state = s.socks[i].state
      /\ sk[i].server = s.socks[i].server /\ sk[i].crypt = s.socks[i].crypt
      /\ sk[i].manual = s.socks[i].manual /\ \A j \in SocketIds \ {i} : sk[j] = s.socks[j]
  BY <1>1 DEF SocketType
<1>4. /\ sl \in [SocketIds -> SocketType] /\ sl[i].state = state
      /\ sl[i].server = s.socks[i].server /\ sl[i].crypt = s.socks[i].crypt
      /\ sl[i].manual = s.socks[i].manual /\ \A j \in SocketIds \ {i} : sl[j] = s.socks[j]
  BY <1>1 DEF SocketType
<1> HIDE DEF sk, sl
<1>5. t \in MemberType /\ Aside(s, t) /\ Links(s, t) /\ t.socks = sk
  BY <1>3 DEF MemberType, Aside, Links
<1>6. u \in MemberType /\ Aside(s, u) /\ Links(s, u) /\ u.socks = sl
  BY <1>4 DEF MemberType, Aside, Links
<1> HIDE DEF t, u
<1>7. s.socks[i].state = "Connecting" => Advanced(s, t, i)
  BY <1>3, <1>5 DEF Advanced
<1>8. Advanced(s, u, i)
  BY <1>4, <1>6 DEF Advanced
<1> QED
  BY <1>2, <1>7, <1>8

(* A socket that gets further keeps its role. *)
LEMMA AdvancedSound ==
  ASSUME NEW s, Sound(s, None), NEW i \in Open(s), s.socks[i].state # "Connected",
         NEW t, Advanced(s, t, i)
  PROVE  Sound(t, None) /\ Aside(s, t) /\ Links(s, t) /\ Open(t) = Open(s)
<1>1. /\ Session(s) /\ Obfuscated(s) /\ Registered(s) /\ NoStray(s, None) /\ Purposes(s)
      /\ i \in SocketIds /\ i # s.connectedSocket
  BY DEF Sound, Session, Open, None, SocketIds
<1>2. Open(t) = Open(s) /\ Used(t) = Used(s)
  BY <1>1 DEF Advanced, Open, Used, Links
<1>3. /\ t \in MemberType /\ Aside(s, t) /\ Links(s, t) /\ t.socks[i].state # "Connected"
      /\ \A j \in Open(s) : /\ t.socks[j].server = s.socks[j].server
                            /\ t.socks[j].crypt = s.socks[j].crypt
                            /\ t.socks[j].manual = s.socks[j].manual
                            /\ j # i => t.socks[j].state = s.socks[j].state
  BY DEF Advanced, Open
<1>4. Session(t)
  <2>1. \A j \in Open(t) : t.socks[j].server \in Servers
    BY <1>1, <1>2, <1>3 DEF Session
  <2>2. t.connected => t.socks[t.connectedSocket].state = "Connected" /\ t.connectedSocket \in Open(t)
    BY <1>1, <1>2, <1>3 DEF Session, Links
  <2> QED
    BY <1>1, <1>2, <1>3, <2>1, <2>2 DEF Session, Links, Aside
<1>5. Obfuscated(t)
  <2>1. m_config.required => \A j \in Open(t) : t.socks[j].server \in Obfuscating => t.socks[j].crypt
    BY <1>1, <1>2, <1>3 DEF Obfuscated
  <2>2. m_config.required /\ t.connected /\ ~t.socks[t.connectedSocket].manual /\ ~m_config.preferIPv6 => t.tryObf
    BY <1>1, <1>3 DEF Obfuscated, Session, Links, Aside
  <2> QED
    BY <2>1, <2>2 DEF Obfuscated
<1>6. Registered(t)
  <2>1. t.attempts = s.attempts /\ t.single = s.single /\ t.connecting = s.connecting /\ t.hoSocket = s.hoSocket
    BY <1>3 DEF Links, Aside
  <2>2. \A j \in ToSet(s.attempts) : j \in Open(s)
    BY <1>1 DEF Registered
  <2> QED
    BY <1>1, <1>2, <1>3, <2>1, <2>2 DEF Registered
<1>7. NoStray(t, None)
  <2>1. \A j \in Open(t) : t.socks[j].state = "Connected" => j = t.connectedSocket
    BY <1>1, <1>2, <1>3 DEF NoStray, Links
  <2> QED
    BY <1>1, <1>2, <1>3, <2>1 DEF NoStray, Links
<1>8. Purposes(t)
  BY <1>1, <1>3 DEF Purposes, Links, Aside
<1> QED
  BY <1>2, <1>3, <1>4, <1>5, <1>6, <1>7, <1>8 DEF Sound

(* connectionEstablished() of a socket that waits for its login. *)
LEMMA WaitIs ==
  ASSUME NEW s, Sound(s, None), NEW i \in Open(s), s.socks[i].state = "WaitForLogin"
  PROVE  Continues(s, connectionEstablished(s, i))
<1> DEFINE yes == TRUE
           t == [s EXCEPT !.hoLoginSent = yes]
<1>1. s \in MemberType /\ yes \in BOOLEAN
  BY DEF Sound, Session
<1>2. CASE i = s.hoSocket
  <2>1. connectionEstablished(s, i) = t
    BY <1>2 DEF connectionEstablished
  <2> HIDE DEF yes
  <2>2. t \in MemberType /\ Aside(s, t) /\ Links(s, t) /\ t.socks = s.socks
    BY <1>1 DEF MemberType, Aside, Links
  <2> HIDE DEF t
  <2>3. Sound(t, None)
    BY <2>2, SameSound DEF SameRoles
  <2> QED
    BY <2>1, <2>2, <2>3 DEF Continues, Going, Alive, Aside, Links
<1>3. CASE i # s.hoSocket
  <2>1. s.connecting
    BY <1>3, Roles
  <2>2. connectionEstablished(s, i) = s
    BY <1>3, <2>1 DEF connectionEstablished
  <2> QED
    BY <2>2 DEF Continues, Going, Alive
<1> QED
  BY <1>2, <1>3

(* A failure counted against a server. *)
LEMMA CountIs ==
  ASSUME NEW s \in MemberType, NEW server \in Servers
  PROVE  SameRoles(s, countFailure(s, server))
<1> DEFINE n == Min({s.failed[server] + 1, DeadRetries})
           fl == [s.failed EXCEPT ![server] = n]
           t == [s EXCEPT !.failed = fl]
<1>1. s.failed \in [Servers -> 0..DeadRetries] /\ DeadRetries \in Nat
  BY ListAssumption DEF MemberType
<1>2. n \in 0..DeadRetries
  <2>1. s.failed[server] + 1 \in Int /\ DeadRetries \in Int /\ s.failed[server] \in 0..DeadRetries
    BY <1>1
  <2>2. n \in {s.failed[server] + 1, DeadRetries} /\ n <= DeadRetries
    BY <2>1, MinTwo
  <2> HIDE DEF n
  <2> QED
    BY <1>1, <2>1, <2>2
<1>3. countFailure(s, server) = t
  BY DEF countFailure, MemberType
<1> HIDE DEF n
<1>4. fl \in [Servers -> 0..DeadRetries]
  BY <1>1, <1>2
<1> HIDE DEF fl
<1>5. t \in MemberType /\ Aside(s, t) /\ Links(s, t) /\ t.socks = s.socks
  BY <1>4 DEF MemberType, Aside, Links
<1> QED
  BY <1>3, <1>5 DEF SameRoles

-----------------------------------------------------------------------------
(***************************************************************************)
(* Failures and time-outs.                                                 *)
(***************************************************************************)

(* connectionFailed() of an attempt. *)
LEMMA AttemptFailed ==
  ASSUME m_config \in Configs, NEW s, Sound(s, None), Room(s, 1), NEW i \in ToSet(s.attempts),
         NEW reason \in {"Error", "ServerDead", "ServerFull", "FatalError", "Disconnected"},
         reason = "Disconnected" => ~s.single
  PROVE  Continues(s, connectionFailed(s, i, reason))
<1> DEFINE other == reason \in {"ServerDead", "FatalError"} /\ HasOtherFamily(s, i)
           t == IF reason = "ServerDead" /\ ~other THEN countFailure(s, s.socks[i].server) ELSE s
           a == afterFailure(t, i, reason)
           u == destroySocket(a, i)
<1>1. /\ i \in Open(s) /\ i \in SocketIds /\ s.connecting /\ ~s.connected /\ i # s.hoSocket
      /\ s.socks[i].server \in Servers /\ s \in MemberType /\ i # s.connectedSocket
  <2>1. s \in MemberType
    BY DEF Sound, Session
  <2> QED
    BY <2>1, AttemptRole
<1>2. connectionFailed(s, i, reason) = IF other THEN dialOtherFamily(t, i, destroySocket(t, i)) ELSE u
  BY <1>1 DEF connectionFailed
<1>3. CASE other
  <2>1. t = s
    BY <1>3
  <2> HIDE DEF other, t
  <2> DEFINE w == dialOtherFamily(s, i, destroySocket(s, i))
  <2>2. Sound(w, None) /\ w.hold = s.hold /\ w.connecting /\ w.single = s.single
    BY OtherFamilyIs
  <2>3. connectionFailed(s, i, reason) = w
    BY <1>2, <1>3, <2>1
  <2> HIDE DEF w
  <2> QED
    BY <2>2, <2>3 DEF Continues, Going, Alive
<1>4. CASE ~other
  <2>1. SameRoles(s, s)
    BY <1>1 DEF SameRoles, Aside, Links
  <2>2. SameRoles(s, t)
    BY <1>1, <2>1, CountIs
  <2> HIDE DEF other, t
  <2>3. Sound(t, None) /\ Room(t, 1) /\ t.hold = s.hold
    BY <2>2, SameSound
  <2>4. i \in ToSet(t.attempts) /\ t.single = s.single
    BY <2>2 DEF SameRoles, Links, Aside
  <2>5. CASE reason # "Disconnected"
    <3>1. /\ Sound(a, i) /\ a.hold = t.hold
          /\ m_config.reconnect /\ ~t.single => (a.connecting \/ a.retry) /\ ~a.single
      BY <2>3, <2>4, <2>5, AfterFailureIs
    <3> HIDE DEF a
    <3>2. Sound(u, None) /\ Aside(a, u)
      BY <1>1, <3>1, StaleIs
    <3> HIDE DEF u
    <3> QED
      BY <1>2, <1>4, <2>3, <2>4, <3>1, <3>2 DEF Continues, Going, Alive, Aside, GoesOn
  <2>6. CASE reason = "Disconnected"
    <3>1. a = t
      BY <2>6 DEF afterFailure
    <3>2. u = destroySocket(t, i)
      BY <3>1
    <3> HIDE DEF a, u
    <3>3. Passing(u, None) /\ u.hold = t.hold
      BY <2>3, <2>4, <2>6, <3>2, DropIs
    <3> QED
      BY <1>2, <1>4, <2>3, <3>3, PassingContinues
  <2> QED
    BY <2>5, <2>6
<1> QED
  BY <1>3, <1>4

(* connectionFailed() of the live session; a refusal is not answered with a new connect. *)
LEMMA LiveFailed ==
  ASSUME m_config \in Configs, NEW s, Sound(s, None), Room(s, 1), s.connected,
         s.hoLoginSent => handed, NEW reason \in {"Disconnected", "ServerFull"}
  PROVE  LET t == connectionFailed(s, s.connectedSocket, reason)
         IN  Sound(t, None) /\ (reason = "Disconnected" => Continues(s, t))
<1> DEFINE i == s.connectedSocket
           d == destroySocket(s, i)
           yes == TRUE
           none == "none"
           w == [d EXCEPT !.connecting = yes, !.single = yes]
           v == [d EXCEPT !.clientID = none]
           over == s.hoSocket # None /\ s.hoLoginSent
           again == reason = "Disconnected" /\ m_config.reconnect /\ ~v.connecting /\ ~v.hold
<1>1. /\ i \in Open(s) /\ i \in SocketIds /\ i # s.hoSocket /\ ~s.connecting /\ ~s.single
      /\ s \in MemberType
  <2>1. i \in Open(s) /\ s \in MemberType /\ ~s.connecting /\ ~s.single
    BY DEF Sound, Session, Purposes
  <2> QED
    BY <2>1 DEF Sound, Session, Open, None, SocketIds
<1>2. connectionFailed(s, i, reason) =
        IF over THEN w ELSE IF again THEN connectToAnyServer(v, 0) ELSE v
  BY <1>1 DEF connectionFailed, afterFailure
<1>3. d \in MemberType /\ Aside(s, d)
  <2>1. {i} \in SUBSET SocketIds
    BY <1>1
  <2> QED
    BY <1>1, <2>1, DestroyIs DEF destroySocket, Destroyed
<1>4. yes \in BOOLEAN /\ yes /\ none \in {"none", "low", "high"} /\ none = "none"
  OBVIOUS
<1> HIDE DEF yes, none
<1>5. CASE over
  <2> HIDE DEF d
  <2>1. /\ w \in MemberType /\ Links(d, w) /\ w.socks = d.socks /\ w.connecting = yes
        /\ w.single = yes /\ w.retry = d.retry /\ w.tryObf = d.tryObf
        /\ w.hold = d.hold /\ w.clientID = d.clientID /\ w.posted = d.posted
    BY <1>3, <1>4, ZenonT(60) DEF MemberType, Links
  <2> HIDE DEF w
  <2>2. Excused /\ s.hoSocket # None
    BY <1>5 DEF Excused
  <2>3. /\ w.tryObf = s.tryObf /\ w.retry = s.retry /\ w.posted = s.posted /\ w.hold = s.hold
        /\ w.connecting /\ w.single
    BY <1>3, <1>4, <2>1 DEF Aside
  <2>4. Links(destroySocket(s, s.connectedSocket), w) /\ w.socks = destroySocket(s, s.connectedSocket).socks
    BY <2>1 DEF d
  <2>5. Sound(w, None)
    BY <2>1, <2>2, <2>3, <2>4, LiveGoneIs
  <2> QED
    BY <1>2, <1>5, <2>3, <2>5 DEF Continues, Alive
<1>6. CASE ~over
  <2> HIDE DEF d
  <2>1. /\ v \in MemberType /\ Links(d, v) /\ v.socks = d.socks /\ v.connecting = d.connecting
        /\ v.single = d.single /\ v.retry = d.retry /\ v.tryObf = d.tryObf
        /\ v.hold = d.hold /\ v.clientID = none /\ v.posted = d.posted
    BY <1>3, <1>4 DEF MemberType, Links
  <2> HIDE DEF v
  <2>2. /\ v.tryObf = s.tryObf /\ v.retry = s.retry /\ v.posted = s.posted /\ v.hold = s.hold
        /\ ~v.connecting /\ ~v.single /\ v.clientID = "none"
    BY <1>1, <1>3, <1>4, <2>1 DEF Aside
  <2>3. Links(destroySocket(s, s.connectedSocket), v) /\ v.socks = destroySocket(s, s.connectedSocket).socks
    BY <2>1 DEF d
  <2>4. Sound(v, None) /\ Used(v) = Used(s)
    BY <2>1, <2>2, <2>3, LiveGoneIs
  <2>5. CASE again
    <3> DEFINE start == 0
               t == connectToAnyServer(v, start)
    <3>1. Session(v) /\ Room(v, 1) /\ None \in Used(v) \cup {None} /\ start \in 0..NumServers
      BY <2>4, ListAssumption DEF Sound, Room
    <3> HIDE DEF start
    <3>2. Sound(t, None) /\ t.hold = v.hold /\ (~NothingStatic => Passing(t, None))
      BY <3>1, AnyIs
    <3>3. connectionFailed(s, i, reason) = t
      BY <1>2, <1>6, <2>5 DEF start
    <3> HIDE DEF t
    <3> QED
      BY <2>2, <3>2, <3>3 DEF Continues, Going, Alive, GoesOn, Passing
  <2>6. CASE ~again
    <3>1. reason = "Disconnected" /\ m_config.reconnect => v.hold
      BY <2>2, <2>6
    <3>2. connectionFailed(s, i, reason) = v
      BY <1>2, <1>6, <2>6
    <3> QED
      BY <2>2, <2>4, <3>1, <3>2 DEF Continues, Going, Alive, GoesOn
  <2> QED
    BY <2>5, <2>6
<1> QED
  BY <1>5, <1>6

(* connectionFailed() of any socket, for what it may report. *)
LEMMA FailedIs ==
  ASSUME m_config \in Configs, NEW s, Sound(s, None), Room(s, 1), NEW i \in Open(s),
         NEW reason \in {"Error", "ServerDead", "ServerFull", "FatalError", "Disconnected"},
         s.hoLoginSent => handed,
         s.socks[i].state = "Connected" => reason \in {"Disconnected", "ServerFull"},
         reason = "Disconnected" /\ i \in ToSet(s.attempts) => ~s.single
  PROVE  LET t == connectionFailed(s, i, reason)
         IN  Sound(t, None) /\ (Continues(s, t) \/ (i = s.connectedSocket /\ reason = "ServerFull"))
<1>1. CASE i \in ToSet(s.attempts)
  BY <1>1, AttemptFailed DEF Continues
<1>2. CASE i = s.connectedSocket /\ s.connected
  <2>1. reason \in {"Disconnected", "ServerFull"}
    BY <1>2 DEF Sound, Session
  <2> QED
    BY <1>2, <2>1, LiveFailed
<1>3. CASE i = s.hoSocket /\ s.hoSocket # None
  <2>1. connectionFailed(s, i, reason) = failIPv6Handover(s, s.hoSocket, reason)
    BY <1>3 DEF connectionFailed
  <2> QED
    BY <1>3, <2>1, FailHandoverIs DEF Continues
<1> QED
  BY <1>1, <1>2, <1>3, Roles

(* A malformed packet ends the one attempt of a single connect and leaves it under way. *)
LEMMA StuckIs ==
  ASSUME m_config \in Configs, NEW s, Sound(s, None), NEW i \in ToSet(s.attempts), s.single
  PROVE  Stuck(connectionFailed(s, i, "Disconnected"))
<1> DEFINE t == destroySocket(s, i)
<1>1. /\ s.connecting /\ ~s.connected /\ i # s.hoSocket /\ i # s.connectedSocket
      /\ s.hoSocket = None /\ s.connectedSocket = None /\ i \in SocketIds
  BY AttemptRole
<1>2. connectionFailed(s, i, "Disconnected") = t
  BY <1>1 DEF connectionFailed, afterFailure
<1>3. /\ Session(s) /\ Registered(s) /\ NoStray(s, None) /\ s \in MemberType
      /\ s.attempts \in Seq(SocketIds)
  BY DEF Sound, Session, MemberType
<1>4. /\ Session(t) /\ t.connecting /\ t.single = s.single
      /\ Len(t.attempts) < Len(s.attempts)
  BY DropIs
<1>5. Destroyed(s, t, {i})
  <2>1. {i} \in SUBSET SocketIds
    BY <1>1
  <2> QED
    BY <1>3, <2>1, DestroyIs DEF destroySocket
<1> HIDE DEF t
<1>6. Len(s.attempts) <= 1 /\ Len(s.attempts) \in Nat
  BY <1>3 DEF Registered
<1>7. t.attempts \in Seq(SocketIds) /\ t \in MemberType
  BY <1>4 DEF Session, MemberType
<1>8. t.attempts = << >> /\ ToSet(s.attempts) \ {i} = {}
  <2>1. Len(t.attempts) = 0
    BY <1>4, <1>6, <1>7
  <2>2. t.attempts = << >>
    BY <1>7, <2>1
  <2>3. ToSet(t.attempts) = ToSet(s.attempts) \ {i}
    BY DropIs DEF t
  <2> QED
    BY <2>2, <2>3, NoAttempts
<1>9. Open(t) = {}
  <2>1. {i} \in SUBSET SocketIds
    BY <1>1
  <2>2. Open(t) = Open(s) \ {i}
    BY <1>3, <1>5, <2>1, DestroyedFacts
  <2>3. Open(s) \subseteq ToSet(s.attempts) \cup {None}
    BY <1>1, <1>3 DEF NoStray
  <2>4. None \notin Open(s)
    BY DEF None, Open, SocketIds
  <2> QED
    BY <1>8, <2>2, <2>3, <2>4
<1>10. ~t.connected /\ t.connectedSocket = None /\ t.hoSocket = None
  BY <1>1, <1>5 DEF Destroyed
<1>11. Clear(t)
  BY <1>4, <1>7, <1>8, <1>9, <1>10 DEF Clear, Session
<1> QED
  BY <1>2, <1>4, <1>11 DEF Stuck

(* What the time-out of attempt i leads to. *)
TimedOut(s, a, i) ==
  /\ Sound(a.s, None) /\ a.s.hold = s.hold /\ a.stop = s.single
  /\ ~s.single => /\ Passing(a.s, None) /\ ToSet(s.attempts) \ {i} \subseteq ToSet(a.s.attempts)
                  /\ \A n \in Nat : Room(s, n + 1) => Room(a.s, n)

(* A time-out ends its attempt and goes on with another, or ends the single connect. *)
LEMMA TimeOutIs ==
  ASSUME m_config \in Configs, NEW s, Sound(s, None), Room(s, 1), NEW i \in ToSet(s.attempts)
  PROVE  TimedOut(s, timeOut([s |-> s, stop |-> FALSE], i), i)
<1> DEFINE sock == s.socks[i]
           other == HasOtherFamily(s, i)
           unreachable == ~sock.tcp /\ (~sock.crypt \/ m_config.required)
           t == destroySocket(s, i)
           u == IF unreachable /\ ~other THEN countFailure(t, sock.server) ELSE t
           w == dialOtherFamily(s, i, t)
           p == retryWithoutObfuscation(u, sock.server)
           q == tryAnotherConnectionRequest(u)
           res == timeOut([s |-> s, stop |-> FALSE], i)
<1>1. /\ i \in Open(s) /\ i \in SocketIds /\ sock.server \in Servers /\ s.connecting
      /\ s.connectedSocket = None
  BY AttemptRole
<1>2. res = IF other THEN [s |-> w, stop |-> s.single]
            ELSE IF s.single THEN [s |-> p, stop |-> TRUE] ELSE [s |-> q, stop |-> FALSE]
  BY DEF timeOut
<1>3. s.single \in BOOLEAN
  BY DEF Sound, Session, MemberType
<1>4. CASE other
  <2>1. res.s = w /\ res.stop = s.single
    BY <1>2, <1>4
  <2>2. /\ Sound(w, None) /\ w.hold = s.hold /\ w.connecting /\ w.single = s.single
        /\ ~s.single => /\ ToSet(s.attempts) \ {i} \subseteq ToSet(w.attempts)
                        /\ \A n \in Nat : Room(s, n + 1) => Room(w, n)
    BY OtherFamilyIs
  <2> HIDE DEF w, res, other
  <2> QED
    BY <2>1, <2>2 DEF TimedOut, Passing, res
<1>5. CASE ~other
  <2>1. /\ Session(t) /\ Obfuscated(t) /\ Used(t) = Used(s)
        /\ t.hold = s.hold /\ t.connecting /\ t.single = s.single
        /\ ~s.single => Passing(t, None)
        /\ ToSet(t.attempts) = ToSet(s.attempts) \ {i}
    BY DropIs
  <2> HIDE DEF t
  <2>2. t \in MemberType
    BY <2>1 DEF Session
  <2>3. SameRoles(t, u)
    <3>1. SameRoles(t, t)
      BY <2>2 DEF SameRoles, Aside, Links
    <3>2. SameRoles(t, countFailure(t, sock.server))
      BY <1>1, <2>2, CountIs
    <3> QED
      BY <3>1, <3>2
  <2> HIDE DEF u
  <2>4. /\ Session(u) /\ Obfuscated(u) /\ Used(u) = Used(s) /\ u.hold = s.hold
        /\ ~s.single => Passing(u, None)
    BY <2>1, <2>3, SameSound
  <2>5. u.attempts = t.attempts
    BY <2>3 DEF SameRoles, Links
  <2>6. CASE s.single
    <3>1. res.s = p /\ res.stop = TRUE
      BY <1>2, <1>5, <2>6
    <3> HIDE DEF res, sock
    <3>2. None \in (Used(u) \ {u.connectedSocket}) \cup {None} /\ Room(u, 1)
      BY <2>4 DEF Room
    <3>3. Sound(p, None) /\ p.hold = u.hold
      BY <1>1, <2>4, <3>2, RetryPlainIs
    <3> HIDE DEF p
    <3>4. res.stop = s.single
      BY <1>3, <2>6, <3>1
    <3> QED
      BY <2>4, <2>6, <3>1, <3>3, <3>4 DEF TimedOut, res
  <2>7. CASE ~s.single
    <3>1. res.s = q /\ res.stop = FALSE
      BY <1>2, <1>5, <2>7
    <3> HIDE DEF res
    <3>2. GoesFurther(u, q, None)
      BY <2>4, <2>7, TryAnotherIs DEF Room
    <3> HIDE DEF q
    <3>3. Sound(q, None) /\ Passing(q, None) /\ q.hold = s.hold
      BY <2>4, <3>2 DEF GoesFurther, Passing
    <3>4. ToSet(s.attempts) \ {i} \subseteq ToSet(q.attempts)
      BY <2>1, <2>5, <3>2 DEF GoesFurther
    <3>5. \A n \in Nat : Room(s, n + 1) => Room(q, n)
      BY <2>4, <3>2 DEF GoesFurther, Room
    <3>6. res.stop = s.single
      BY <1>3, <2>7, <3>1
    <3> QED
      BY <3>1, <3>3, <3>4, <3>5, <3>6 DEF TimedOut, res
  <2> QED
    BY <2>6, <2>7
<1> QED
  BY <1>4, <1>5

(* checkForTimeout(): the attempts that timed out are still there when their turn comes, and *)
(* the ids suffice for all it may dial.                                                      *)
LEMMA CheckIs ==
  ASSUME m_config \in Configs, NEW s, Sound(s, None), Room(s, 3), NEW n \in 0..2,
         n <= Len(s.attempts)
  PROVE  Continues(s, checkForTimeout(s, n))
<1> DEFINE t == IF s.connecting /\ ~s.single THEN tryAnotherConnectionRequest(s) ELSE s
           begin == [s |-> t, stop |-> FALSE]
           first == IF n < 1 THEN begin ELSE timeOut(begin, t.attempts[1])
           second == timeOut(first, t.attempts[2])
<1>1. checkForTimeout(s, n) = IF n < 2 THEN first.s ELSE second.s
  BY DEF checkForTimeout
<1>2. s \in MemberType /\ s.attempts \in Seq(SocketIds) /\ Len(s.attempts) \in Nat
  BY DEF Sound, Session, MemberType
<1>3. Room(s, 1) /\ Room(s, 2)
  <2>1. Room(s, 2 + 1)
    OBVIOUS
  <2>2. Room(s, 2)
    BY <1>2, <2>1, RoomLess
  <2>3. Room(s, 1 + 1)
    BY <2>2
  <2>4. Room(s, 1)
    BY <1>2, <2>3, RoomLess
  <2> QED
    BY <2>2, <2>4
<1>4. /\ Sound(t, None) /\ t.hold = s.hold /\ Room(t, 2) /\ n <= Len(t.attempts)
      /\ (s.connecting /\ ~s.single => t.connecting /\ ~t.single)
      /\ (~(s.connecting /\ ~s.single) => t = s)
  <2>1. CASE s.connecting /\ ~s.single
    <3>1. GoesFurther(s, t, None)
      BY <1>3, <2>1, TryAnotherIs DEF Passing
    <3> HIDE DEF t
    <3>2. Room(t, 2)
      <4>1. Room(s, 2 + 1)
        OBVIOUS
      <4> QED
        BY <3>1, <4>1 DEF GoesFurther
    <3>3. Sound(t, None) /\ t.hold = s.hold /\ t.connecting /\ ~t.single /\ Len(s.attempts) <= Len(t.attempts)
      BY <3>1 DEF GoesFurther, Passing
    <3>4. Len(t.attempts) \in Nat
      BY <3>3 DEF Sound, Session, MemberType
    <3>5. n <= Len(t.attempts)
      BY <1>2, <3>3, <3>4
    <3> QED
      BY <2>1, <3>2, <3>3, <3>5
  <2>2. CASE ~(s.connecting /\ ~s.single)
    BY <1>3, <2>2
  <2> QED
    BY <2>1, <2>2
<1> HIDE DEF t
<1>5. t \in MemberType /\ t.attempts \in Seq(SocketIds) /\ Len(t.attempts) \in Nat
  BY <1>4 DEF Sound, Session, MemberType
<1>6. GoesOn /\ Going(s) => ~s.single /\ Going(t)
  <2>1. t.single \in BOOLEAN
    BY <1>5 DEF MemberType
  <2> QED
    BY <1>4 DEF Going, Alive
<1>7. CASE n = 0
  <2>1. first = begin
    BY <1>7
  <2>2. checkForTimeout(s, n) = t
    BY <1>1, <1>7, <2>1
  <2> QED
    BY <1>4, <1>6, <2>2 DEF Continues, Going
<1>8. CASE n >= 1
  <2> DEFINE i == t.attempts[1]
  <2>1. first = timeOut(begin, i)
    BY <1>8
  <2>2. i \in ToSet(t.attempts)
    <3>1. 1 \in 1..Len(t.attempts)
      BY <1>4, <1>5, <1>8
    <3>2. ToSet(t.attempts) = {t.attempts[j] : j \in 1..Len(t.attempts)}
      BY <1>5, ToSetIs
    <3> QED
      BY <3>1, <3>2
  <2>3. Room(t, 1)
    <3>1. Room(t, 1 + 1)
      BY <1>4
    <3> QED
      BY <1>5, <3>1, RoomLess
  <2> HIDE DEF i
  <2>4. TimedOut(t, first, i)
    <3> HIDE DEF first
    <3> QED
      BY <1>4, <2>1, <2>2, <2>3, TimeOutIs
  <2> HIDE DEF first
  <2>5. t.connecting
    BY <1>4, <2>2, AttemptRole
  <2>6. s.single = t.single
    <3>1. s.single \in BOOLEAN /\ t.single \in BOOLEAN
      BY <1>2, <1>5 DEF MemberType
    <3> QED
      BY <1>4, <3>1
  <2>7. CASE n < 2
    <3>1. checkForTimeout(s, n) = first.s
      BY <1>1, <2>7
    <3>2. Sound(first.s, None) /\ first.s.hold = s.hold
      BY <1>4, <2>4 DEF TimedOut
    <3>3. ~s.single => Passing(first.s, None)
      BY <2>4, <2>6 DEF TimedOut
    <3> QED
      BY <3>1, <3>2, <3>3 DEF Continues, Going, Alive, Passing
  <2>8. CASE n = 2
    <3> DEFINE k == t.attempts[2]
    <3>1. Registered(t)
      BY <1>4 DEF Sound
    <3>2. ~t.single
      BY <1>4, <1>5, <2>8, <3>1 DEF Registered
    <3>3. k \in ToSet(t.attempts) /\ k # i
      <4>1. 1 \in 1..Len(t.attempts) /\ 2 \in 1..Len(t.attempts)
        BY <1>4, <1>5, <2>8
      <4>2. /\ ToSet(t.attempts) = {t.attempts[j] : j \in 1..Len(t.attempts)}
            /\ \A j, l \in 1..Len(t.attempts) : t.attempts[j] = t.attempts[l] => j = l
        BY <1>5, <3>1, ToSetIs DEF Registered
      <4> QED
        BY <4>1, <4>2 DEF i
    <3> DEFINE f == first.s
    <3>4. /\ Sound(f, None) /\ f.hold = s.hold /\ first.stop = FALSE /\ Passing(f, None)
          /\ ToSet(t.attempts) \ {i} \subseteq ToSet(f.attempts)
          /\ \A m \in Nat : Room(t, m + 1) => Room(f, m)
      <4>1. first.stop = t.single /\ t.single \in BOOLEAN
        BY <1>5, <2>4 DEF TimedOut, MemberType
      <4> QED
        BY <1>4, <2>4, <3>2, <4>1 DEF TimedOut
    <3>5. k \in ToSet(f.attempts) /\ Room(f, 1)
      <4>1. Room(t, 1 + 1)
        BY <1>4
      <4> QED
        BY <3>3, <3>4, <4>1
    <3>6. first = [s |-> f, stop |-> FALSE]
      <4>1. first = timeOut([s |-> t, stop |-> FALSE], i)
        BY <2>1
      <4>2. \E x, y : first = [s |-> x, stop |-> y]
        BY <4>1 DEF timeOut
      <4>3. PICK x, y : first = [s |-> x, stop |-> y]
        BY <4>2
      <4> QED
        BY <3>4, <4>3
    <3> HIDE DEF f, k
    <3>7. TimedOut(f, second, k)
      <4>1. second = timeOut([s |-> f, stop |-> FALSE], k)
        BY <3>6 DEF k
      <4> HIDE DEF second
      <4> QED
        BY <3>4, <3>5, <4>1, TimeOutIs
    <3>8. ~f.single
      BY <3>4 DEF Passing
    <3> HIDE DEF second
    <3>9. Passing(second.s, None) /\ second.s.hold = s.hold
      BY <3>4, <3>7, <3>8 DEF TimedOut
    <3>10. checkForTimeout(s, n) = second.s
      BY <1>1, <2>8
    <3> QED
      BY <3>9, <3>10, PassingContinues
  <2> QED
    BY <1>8, <2>7, <2>8
<1> QED
  BY <1>7, <1>8

(* The end of the pause between two passes. *)
LEMMA RetryIs ==
  ASSUME m_config \in Configs, NEW s, Session(s), Obfuscated(s), Room(s, 1)
  PROVE  Continues(s, onRetryTimer(s))
<1> DEFINE t == stopConnectionTry(s)
           start == t.startPos
           u == connectToAnyServer(t, start)
<1>1. onRetryTimer(s) = IF t.connected \/ t.hold THEN t ELSE u
  BY DEF onRetryTimer
<1>2. Stopped(s, t) /\ Sound(t, None)
  BY StopIs, StopSound
<1> HIDE DEF t
<1>3. Session(t) /\ Room(t, 1) /\ None \in Used(t) \cup {None} /\ start \in 0..NumServers
  <2>1. start \in 0..(NumServers - 1) /\ NumServers \in Nat
    BY <1>2, ListAssumption DEF Stopped, MemberType
  <2> QED
    BY <1>2, <2>1 DEF Sound, Room, Stopped
<1> HIDE DEF start
<1>4. Sound(u, None) /\ u.hold = t.hold /\ (~NothingStatic => Passing(u, None))
  BY <1>3, AnyIs
<1> HIDE DEF u
<1>5. CASE t.connected \/ t.hold
  BY <1>1, <1>2, <1>5 DEF Continues, Going, Alive, Stopped
<1>6. CASE ~(t.connected \/ t.hold)
  BY <1>1, <1>2, <1>4, <1>6 DEF Continues, Going, Alive, GoesOn, Passing, Stopped
<1> QED
  BY <1>5, <1>6

-----------------------------------------------------------------------------
(***************************************************************************)
(* The events.                                                             *)
(***************************************************************************)

(* A set of at most two elements. *)
LEMMA AtMostTwo ==
  ASSUME NEW p, NEW q, NEW S \in SUBSET {p, q}
  PROVE  IsFiniteSet(S) /\ Cardinality(S) \in 0..2
<1>1. IsFiniteSet({p}) /\ Cardinality({p}) = 1
  BY FS_Singleton
<1>2. {p, q} = {p} \cup {q}
  OBVIOUS
<1>3. IsFiniteSet({p, q}) /\ Cardinality({p, q}) \in {1, 2}
  BY <1>1, <1>2, FS_AddElement
<1>4. IsFiniteSet(S) /\ Cardinality(S) <= Cardinality({p, q})
  BY <1>3, FS_Subset
<1>5. Cardinality(S) \in Nat
  BY <1>4, FS_CardinalityType
<1> QED
  BY <1>3, <1>4, <1>5

(* Where a single connect is stuck, the parts of soundness that speak of sockets hold. *)
LEMMA ClearParts ==
  ASSUME NEW s, Clear(s)
  PROVE  /\ Session(s) /\ Obfuscated(s) /\ ToSet(s.attempts) = {} /\ Len(s.attempts) = 0
         /\ s.gone = {} => Room(s, 3) /\ Room(s, 1)
<1>1. ToSet(s.attempts) = {} /\ Len(s.attempts) = 0
  BY NoAttempts DEF Clear
<1>2. Session(s) /\ Obfuscated(s)
  BY DEF Clear, Session, Obfuscated
<1>3. ASSUME s.gone = {} PROVE Room(s, 3) /\ Room(s, 1)
  <2>1. Used(s) = {}
    BY <1>3 DEF Clear, Used
  <2>2. Cardinality(Used(s)) = 0
    BY <2>1, FS_EmptySet
  <2> QED
    BY <2>2 DEF Room
<1> QED
  BY <1>1, <1>2, <1>3

(* Between events at most two sockets are open, which leaves three ids for the next event. *)
LEMMA StartRoom ==
  ASSUME m_config \in Configs, NEW s, Sound(s, None), s.gone = {}
  PROVE  Room(s, 3) /\ Room(s, 1)
<1>1. /\ s \in MemberType /\ s.attempts \in Seq(SocketIds) /\ Len(s.attempts) \in Nat
      /\ Session(s) /\ Registered(s) /\ NoStray(s, None) /\ Purposes(s)
  BY DEF Sound, Session, MemberType
<1>2. Used(s) = Open(s) /\ None \notin Open(s)
  BY DEF Used, Open, None, SocketIds
<1>3. \E p, q : Open(s) \subseteq {p, q}
  <2>1. CASE s.attempts = << >>
    <3>1. Open(s) \subseteq {s.connectedSocket, s.hoSocket}
      BY <1>1, <1>2, <2>1, NoAttempts DEF NoStray
    <3> QED
      BY <3>1
  <2>2. CASE s.attempts # << >>
    <3>1. Open(s) \subseteq ToSet(s.attempts)
      BY <1>1, <1>2, <2>2 DEF NoStray, Registered, Purposes, Session
    <3>2. Len(s.attempts) <= 2
      BY <1>1, ConfigFacts DEF Registered
    <3>3. \A j \in 1..Len(s.attempts) : j = 1 \/ j = 2
      BY <1>1, <3>2
    <3>4. ToSet(s.attempts) \subseteq {s.attempts[1], s.attempts[2]}
      BY <1>1, <3>3, ToSetIs
    <3> QED
      BY <3>1, <3>4
  <2> QED
    BY <2>1, <2>2
<1>4. Cardinality(Used(s)) \in 0..2
  BY <1>2, <1>3, AtMostTwo
<1> QED
  BY <1>4 DEF Room

(* The sockets of t are those of s and have the same roles. *)
Kindred(s, t, x) ==
  /\ Sound(t, x) /\ Used(t) = Used(s) /\ Links(s, t)
  /\ t.connecting = s.connecting /\ t.single = s.single /\ t.retry = s.retry

(* The hold is of no consequence for the sockets, and neither is forgetting the client ID. *)
LEMMA HoldIs ==
  ASSUME NEW x, NEW s, Sound(s, x), NEW b \in BOOLEAN
  PROVE  /\ Kindred(s, [s EXCEPT !.hold = b], x) /\ [s EXCEPT !.hold = b].hold = b
         /\ Kindred(s, [s EXCEPT !.clientID = "none"], x)
         /\ [s EXCEPT !.clientID = "none"].clientID = "none"
<1> DEFINE none == "none"
           t == [s EXCEPT !.hold = b]
           u == [s EXCEPT !.clientID = none]
<1> SUFFICES Kindred(s, t, x) /\ t.hold = b /\ Kindred(s, u, x) /\ u.clientID = none
  OBVIOUS
<1>1. s \in MemberType /\ none \in {"none", "low", "high"} /\ none = "none"
  BY DEF Sound, Session
<1> HIDE DEF none
<1>2. /\ t \in MemberType /\ Links(s, t) /\ t.hold = b /\ t.socks = s.socks
      /\ t.connecting = s.connecting /\ t.single = s.single /\ t.retry = s.retry
      /\ t.tryObf = s.tryObf /\ t.clientID = s.clientID /\ t.posted = s.posted
  BY <1>1 DEF MemberType, Links
<1>3. /\ u \in MemberType /\ Links(s, u) /\ u.hold = s.hold /\ u.socks = s.socks
      /\ u.connecting = s.connecting /\ u.single = s.single /\ u.retry = s.retry
      /\ u.tryObf = s.tryObf /\ u.clientID = none /\ u.posted = s.posted
  BY <1>1 DEF MemberType, Links
<1> HIDE DEF t, u
<1>4. Open(t) = Open(s) /\ Used(t) = Used(s) /\ Open(u) = Open(s) /\ Used(u) = Used(s)
  BY <1>2, <1>3 DEF Open, Used, Links
<1>5. Session(t) /\ Session(u)
  BY <1>1, <1>2, <1>3, <1>4 DEF Sound, Session, Links
<1>6. Obfuscated(t) /\ Obfuscated(u)
  BY <1>2, <1>3, <1>4 DEF Sound, Obfuscated, Links
<1>7. Registered(t) /\ Registered(u)
  BY <1>2, <1>3, <1>4 DEF Sound, Registered, Links
<1>8. NoStray(t, x) /\ NoStray(u, x)
  BY <1>2, <1>3, <1>4 DEF Sound, NoStray, Links
<1>9. Purposes(t) /\ Purposes(u)
  BY <1>2, <1>3, <1>4 DEF Sound, Purposes, Links
<1> QED
  BY <1>2, <1>3, <1>4, <1>5, <1>6, <1>7, <1>8, <1>9 DEF Sound, Kindred

(* The sockets deleted by an event are forgotten when it is over. *)
LEMMA ForgetGone ==
  ASSUME NEW t, Sound(t, None)
  PROVE  LET q == [t EXCEPT !.gone = {}]
         IN  /\ Sound(q, None) /\ q.gone = {} /\ q.connected = t.connected /\ q.hold = t.hold
             /\ q.connecting = t.connecting /\ q.single = t.single /\ q.retry = t.retry
             /\ q.hoSocket = t.hoSocket /\ q.hoLoginSent = t.hoLoginSent
<1> DEFINE q == [t EXCEPT !.gone = {}]
<1>1. t \in MemberType
  BY DEF Sound, Session
<1>2. /\ q \in MemberType /\ Aside(t, q) /\ q.socks = t.socks /\ q.gone = {}
      /\ q.attempts = t.attempts /\ q.connected = t.connected
      /\ q.connectedSocket = t.connectedSocket /\ q.hoSocket = t.hoSocket
      /\ q.hoServer = t.hoServer /\ q.hoLoginSent = t.hoLoginSent
  BY <1>1 DEF MemberType, Aside
<1> HIDE DEF q
<1>3. Open(q) = Open(t)
  BY <1>2 DEF Open
<1>4. Session(q)
  BY <1>2, <1>3 DEF Sound, Session, Aside
<1>5. Obfuscated(q) /\ Registered(q)
  BY <1>2, <1>3 DEF Sound, Obfuscated, Registered, Aside
<1>6. NoStray(q, None) /\ Purposes(q)
  BY <1>2, <1>3 DEF Sound, NoStray, Purposes, Aside
<1>7. Sound(q, None)
  BY <1>4, <1>5, <1>6 DEF Sound
<1> QED
  BY <1>2, <1>7 DEF Aside, q

(* The same where a single connect is stuck. *)
LEMMA ForgetGoneStuck ==
  ASSUME NEW t, Stuck(t)
  PROVE  LET q == [t EXCEPT !.gone = {}]
         IN  Stuck(q) /\ q.gone = {} /\ q.hoLoginSent = t.hoLoginSent
<1> DEFINE q == [t EXCEPT !.gone = {}]
<1>1. t \in MemberType
  BY DEF Stuck, Clear
<1>2. /\ q \in MemberType /\ Aside(t, q) /\ q.socks = t.socks /\ q.gone = {}
      /\ q.attempts = t.attempts /\ q.connected = t.connected
      /\ q.connectedSocket = t.connectedSocket /\ q.hoSocket = t.hoSocket
      /\ q.hoServer = t.hoServer /\ q.hoLoginSent = t.hoLoginSent
  BY <1>1 DEF MemberType, Aside
<1> HIDE DEF q
<1>3. Open(q) = Open(t)
  BY <1>2 DEF Open
<1>4. Clear(q)
  BY <1>2, <1>3 DEF Stuck, Clear, Aside
<1> QED
  BY <1>2, <1>4 DEF Stuck, Aside, q

(* Soundness is of the state it is said of, and survives what is remembered of the handover. *)
LEMMA SoundPrime ==
  ASSUME m_config' = m_config, handed /\ ~sc'.connected => handed'
  PROVE  (Sound(sc', None) => Sound(sc, None)') /\ (Stuck(sc') => Stuck(sc)')
<1>1. ~sc'.connected /\ ~Excused' => ~Excused
  BY DEF Excused
<1>2. Session(sc') => Session(sc)'
  BY <1>1 DEF Session
<1>3. Obfuscated(sc') => Obfuscated(sc)'
  BY DEF Obfuscated
<1>4. Registered(sc') => Registered(sc)'
  BY DEF Registered, MaxSimCons
<1>5. NoStray(sc', None) => NoStray(sc, None)'
  BY DEF NoStray
<1>6. Purposes(sc') => Purposes(sc)'
  BY DEF Purposes
<1>7. Stuck(sc') => Stuck(sc)'
  BY <1>1 DEF Stuck, Clear
<1> QED
  BY <1>2, <1>3, <1>4, <1>5, <1>6, <1>7 DEF Sound

(* An event whose calls keep the state sound keeps the invariant. *)
LEMMA BecomesKeeps ==
  ASSUME IInv, NEW t, Becomes(t), Sound(t, None), resume' \in BOOLEAN, wanted' \in Wishes,
         wanted' = "auto" /\ GoesOn => Going(t),
         wanted' = "no" => Off(t)
  PROVE  IInv'
<1> DEFINE q == [t EXCEPT !.gone = {}]
<1>1. /\ Sound(q, None) /\ q.gone = {} /\ q.connected = t.connected /\ q.hold = t.hold
      /\ q.connecting = t.connecting /\ q.single = t.single /\ q.retry = t.retry
      /\ q.hoSocket = t.hoSocket /\ q.hoLoginSent = t.hoLoginSent
  BY ForgetGone
<1>2. sc' = q /\ m_config' = m_config
  BY DEF Becomes
<1>3. handed' \in BOOLEAN /\ (t.hoLoginSent => handed') /\ (handed /\ ~t.connected => handed')
  <2>1. t.hoLoginSent \in BOOLEAN /\ t.connected \in BOOLEAN /\ handed \in BOOLEAN
    BY DEF IInv, Sound, Session, MemberType
  <2> QED
    BY <2>1 DEF Becomes
<1> HIDE DEF q
<1>4. Sound(sc, None)' /\ sc'.gone = {} /\ (sc'.hoLoginSent => handed')
  BY <1>1, <1>2, <1>3, SoundPrime
<1>5. m_config' \in Configs
  BY <1>2 DEF IInv
<1>6. wanted' = "auto" /\ GoesOn' => Going(sc)'
  BY <1>1, <1>2 DEF GoesOn, Going, Alive, NothingStatic
<1>7. wanted' = "no" => Off(sc)'
  BY <1>1, <1>2 DEF Off
<1> QED
  BY <1>3, <1>4, <1>5, <1>6, <1>7 DEF IInv, Settled, Wishes

(* So does one that leaves a single connect stuck. *)
LEMMA StuckKeeps ==
  ASSUME IInv, NEW t, Becomes(t), Stuck(t), resume' \in BOOLEAN, wanted' = "stuck"
  PROVE  IInv'
<1> DEFINE q == [t EXCEPT !.gone = {}]
<1>1. Stuck(q) /\ q.gone = {} /\ q.hoLoginSent = t.hoLoginSent /\ t \in MemberType
  BY ForgetGoneStuck DEF Stuck, Clear
<1>2. sc' = q /\ m_config' = m_config /\ ~t.connected /\ ~q.connected
  BY <1>1 DEF Becomes, Stuck, Clear
<1>3. handed' \in BOOLEAN /\ (t.hoLoginSent => handed') /\ (handed /\ ~t.connected => handed')
  <2>1. t.hoLoginSent \in BOOLEAN /\ t.connected \in BOOLEAN /\ handed \in BOOLEAN
    BY <1>1 DEF IInv, MemberType
  <2> QED
    BY <2>1 DEF Becomes
<1> HIDE DEF q
<1>4. Stuck(sc)' /\ sc'.gone = {} /\ (sc'.hoLoginSent => handed')
  BY <1>1, <1>2, <1>3, SoundPrime
<1>5. m_config' \in Configs
  BY <1>2 DEF IInv
<1> QED
  BY <1>3, <1>4, <1>5 DEF IInv, Settled, Wishes

(* What every state of the invariant has. *)
LEMMA IInvFacts ==
  ASSUME IInv
  PROVE  /\ m_config \in Configs /\ Session(sc) /\ Obfuscated(sc) /\ sc \in MemberType
         /\ Room(sc, 3) /\ Room(sc, 1) /\ None \in Used(sc) \cup {None} /\ resume \in BOOLEAN
         /\ wanted \in Wishes
         /\ Open(sc) # {} \/ sc.hoSocket # None => Sound(sc, None)
         /\ Sound(sc, None) \/ (wanted = "stuck" /\ Stuck(sc))
<1>1. CASE Sound(sc, None)
  BY <1>1, StartRoom DEF IInv, Sound, Session
<1>2. CASE Stuck(sc) /\ wanted = "stuck"
  <2>1. Clear(sc) /\ sc.gone = {}
    BY <1>2 DEF Stuck, IInv
  <2>2. Session(sc) /\ Obfuscated(sc) /\ Room(sc, 3) /\ Room(sc, 1)
    BY <2>1, ClearParts
  <2> QED
    BY <1>2, <2>1, <2>2 DEF IInv, Clear
<1> QED
  BY <1>1, <1>2 DEF IInv, Settled

(* What nobody asked for is not there. *)
LEMMA Quiet ==
  ASSUME IInv, wanted = "no"
  PROVE  /\ Open(sc) = {} /\ sc.attempts = << >> /\ ~sc.connecting /\ ~sc.connected /\ ~sc.retry
         /\ sc.hoSocket = None
<1>1. Session(sc) /\ Registered(sc) /\ NoStray(sc, None) /\ Off(sc)
  BY DEF IInv, Sound
<1>2. /\ ~sc.connecting /\ ~sc.connected /\ ~sc.retry /\ sc.attempts = << >>
      /\ sc.hoSocket = None /\ sc.connectedSocket = None
  BY <1>1 DEF Off, Registered, Session
<1>3. Open(sc) = {}
  BY <1>1, <1>2, NoAttempts DEF NoStray, Open, None, SocketIds
<1> QED
  BY <1>2, <1>3

(* An event of a socket or a timer that goes on keeps the invariant: what was an automatic
   connection is one, or is being handed over, and a handover that has a session again is one. *)
LEMMA EventKeeps ==
  ASSUME IInv, NEW t, Event(t), Continues(sc, t), wanted = "no" => Off(t)
  PROVE  IInv'
<1>1. /\ Becomes(t) /\ resume' = resume
      /\ wanted' = IF wanted = "auto" /\ t.single THEN "handover"
                   ELSE IF wanted = "handover" /\ t.connected THEN "auto" ELSE wanted
  BY DEF Event
<1>2. Sound(t, None) /\ (GoesOn /\ Going(sc) => Alive(t))
  BY DEF Continues
<1>3. resume' \in BOOLEAN /\ wanted' \in Wishes
  BY <1>1 DEF IInv, Wishes
<1>4. ASSUME wanted' = "auto", GoesOn PROVE Going(t)
  <2>1. t.connected => ~t.single
    BY <1>2 DEF Sound, Purposes
  <2>2. wanted = "auto" => Going(sc)
    BY <1>4 DEF IInv
  <2> QED
    BY <1>1, <1>2, <1>4, <2>1, <2>2 DEF Going, Alive
<1>5. wanted' = "no" => Off(t)
  BY <1>1
<1> QED
  BY <1>1, <1>2, <1>3, <1>4, <1>5, BecomesKeeps

(* The user or the program asks for any server. *)
LEMMA UserConnectAnyKeeps ==
  ASSUME IInv, UserConnectAny
  PROVE  IInv'
<1> DEFINE start == 0
           t == connectToAnyServer(sc, start)
<1>1. Becomes(t) /\ wanted' = "auto" /\ resume' = resume
  BY DEF UserConnectAny
<1>2. m_config \in Configs /\ Session(sc) /\ resume \in BOOLEAN /\ "auto" \in Wishes
  BY IInvFacts DEF Wishes
<1>3. Room(sc, 1) /\ None \in Used(sc) \cup {None} /\ start \in 0..NumServers
  BY IInvFacts, ListAssumption
<1> HIDE DEF start
<1>4. Sound(t, None) /\ (~NothingStatic => Passing(t, None))
  BY <1>2, <1>3, AnyIs
<1> HIDE DEF t
<1>5. GoesOn => Going(t)
  BY <1>4 DEF GoesOn, Going, Alive, Passing
<1> QED
  BY <1>1, <1>2, <1>4, <1>5, BecomesKeeps

(* The user asks for one server. *)
LEMMA UserConnectToKeeps ==
  ASSUME IInv, NEW server \in Servers, UserConnectTo(server)
  PROVE  IInv'
<1> DEFINE no == FALSE
           dial == "first"
           t == connectToServer(sc, server, FALSE, no, dial)
<1>1. Becomes(t) /\ wanted' = "single" /\ resume' = resume /\ no \in BOOLEAN /\ ~no
  BY DEF UserConnectTo
<1>2. m_config \in Configs /\ Session(sc) /\ resume \in BOOLEAN /\ "single" \in Wishes
  BY IInvFacts DEF Wishes
<1>3. Room(sc, 1) /\ None \in Used(sc) \cup {None}
  BY IInvFacts
<1> HIDE DEF no, dial
<1>4. SingleUnderWay(sc, t, None)
  BY <1>1, <1>2, <1>3, SingleIs
<1> HIDE DEF t
<1>5. Sound(t, None)
  BY <1>4 DEF SingleUnderWay
<1> QED
  BY <1>1, <1>2, <1>5, BecomesKeeps

(* disconnect() without a connect under way. *)
LEMMA DisconnectIs ==
  ASSUME m_config \in Configs, NEW s, Sound(s, None), ~s.connecting
  PROVE  LET t == disconnect(s)
         IN  Sound(t, None) /\ ~t.connected /\ ~t.connecting /\ t.retry = s.retry
<1>1. CASE ~s.connected
  <2>1. disconnect(s) = s
    BY <1>1 DEF disconnect
  <2> QED
    BY <1>1, <2>1
<1>2. CASE s.connected
  <2> DEFINE u == [s EXCEPT !.clientID = "none"]
             t == destroySocket(u, u.connectedSocket)
  <2>1. /\ Sound(u, None) /\ Links(s, u) /\ u.connecting = s.connecting
        /\ u.single = s.single /\ u.retry = s.retry /\ u.clientID = "none"
    <3>1. Kindred(s, u, None) /\ u.clientID = "none"
      BY HoldIs
    <3> HIDE DEF u
    <3> QED
      BY <3>1 DEF Kindred
  <2>2. u.connected /\ u.connectedSocket = s.connectedSocket /\ u \in MemberType
    BY <1>2, <2>1 DEF Links, Sound, Session
  <2>3. disconnect(s) = t
    BY <1>2, <2>2 DEF disconnect
  <2> HIDE DEF u
  <2>4. u.connectedSocket \in SocketIds /\ {u.connectedSocket} \in SUBSET SocketIds
    BY <2>1, <2>2 DEF Sound, Session, Open
  <2>5. t \in MemberType /\ Aside(u, t) /\ ~t.connected
    <3>1. Destroyed(u, t, {u.connectedSocket})
      BY <2>2, <2>4, DestroyIs DEF destroySocket
    <3> HIDE DEF t
    <3> QED
      BY <3>1 DEF Destroyed
  <2>6. Links(destroySocket(u, u.connectedSocket), t) /\ t.socks = destroySocket(u, u.connectedSocket).socks
    BY DEF Links
  <2> HIDE DEF t
  <2>7. /\ t.tryObf = u.tryObf /\ t.retry = u.retry /\ t.posted = u.posted /\ t.clientID = "none"
        /\ ~t.connecting /\ ~t.single
    BY <2>1, <2>5 DEF Aside, Sound, Purposes
  <2>8. Sound(t, None)
    BY <2>1, <2>2, <2>5, <2>6, <2>7, LiveGoneIs
  <2> QED
    BY <2>1, <2>3, <2>5, <2>7, <2>8
<1> QED
  BY <1>1, <1>2

(* The user disconnects. *)
LEMMA UserDisconnectKeeps ==
  ASSUME IInv, UserDisconnect
  PROVE  IInv'
<1> DEFINE t == disconnect(IF sc.connecting THEN stopConnectionTry(sc) ELSE sc)
<1>1. /\ Becomes(t) /\ resume' = resume
      /\ wanted' = IF t.retry \/ t.hoSocket # None THEN "pending" ELSE "no"
  BY DEF UserDisconnect
<1>2. m_config \in Configs /\ Session(sc) /\ resume \in BOOLEAN /\ wanted' \in Wishes
  BY <1>1, IInvFacts DEF Wishes
<1>3. Sound(t, None) /\ ~t.connected /\ ~t.connecting
  <2>1. CASE sc.connecting
    <3> DEFINE c == disconnect(stopConnectionTry(sc))
    <3>1. Clear(c) /\ ~c.connecting /\ ~c.single /\ ~c.retry
      BY <1>2, ClearIs
    <3>2. t = c
      BY <2>1
    <3> HIDE DEF c, t
    <3>3. None \in Used(c) \cup {None}
      OBVIOUS
    <3>4. Sound(c, None)
      BY <1>2, <3>1, <3>3, ClearSound
    <3> QED
      BY <3>1, <3>2, <3>4 DEF Clear
  <2>2. CASE ~sc.connecting
    <3>1. t = disconnect(sc)
      BY <2>2
    <3> HIDE DEF t
    <3>2. Sound(sc, None)
      BY <2>2, IInvFacts DEF Stuck
    <3> QED
      BY <1>2, <2>2, <3>1, <3>2, DisconnectIs
  <2> QED
    BY <2>1, <2>2
<1> HIDE DEF t
<1>4. wanted' = "no" => Off(t)
  BY <1>1, <1>3 DEF Off
<1> QED
  BY <1>1, <1>2, <1>3, <1>4, BecomesKeeps

(* The hold is of no consequence where a single connect is stuck. *)
LEMMA StuckHoldIs ==
  ASSUME NEW s, Stuck(s), NEW b \in BOOLEAN
  PROVE  Stuck([s EXCEPT !.hold = b]) /\ [s EXCEPT !.hold = b].hold = b
<1> DEFINE t == [s EXCEPT !.hold = b]
<1>1. s \in MemberType
  BY DEF Stuck, Clear
<1>2. /\ t \in MemberType /\ t.hold = b /\ t.socks = s.socks /\ t.attempts = s.attempts
      /\ t.connected = s.connected /\ t.connectedSocket = s.connectedSocket
      /\ t.hoSocket = s.hoSocket /\ t.hoServer = s.hoServer /\ t.posted = s.posted
      /\ t.clientID = s.clientID /\ t.connecting = s.connecting /\ t.single = s.single
  BY <1>1 DEF MemberType
<1> HIDE DEF t
<1>3. Open(t) = Open(s)
  BY <1>2 DEF Open
<1>4. Stuck(t) /\ t.hold = b
  BY <1>2, <1>3 DEF Stuck, Clear
<1> QED
  BY <1>4 DEF t

(* The line goes down. *)
LEMMA LineDownKeeps ==
  ASSUME IInv, LineDown
  PROVE  IInv'
<1> DEFINE yes == TRUE
           s == [sc EXCEPT !.hold = yes]
           c == disconnect(stopConnectionTry(s))
<1>1. /\ Becomes(c) /\ wanted' = wanted /\ resume' = (sc.connected \/ sc.connecting)
      /\ yes \in BOOLEAN /\ yes
  BY DEF LineDown
<1>2. m_config \in Configs /\ wanted \in Wishes
  BY IInvFacts
<1> HIDE DEF yes
<1>3. Session(s) /\ s.hold = yes
  <2>1. CASE Sound(sc, None)
    <3>1. Kindred(sc, s, None) /\ s.hold = yes
      BY <1>1, <2>1, HoldIs
    <3> QED
      BY <3>1 DEF Kindred, Sound
  <2>2. CASE Stuck(sc)
    <3>1. Stuck(s) /\ s.hold = yes
      BY <1>1, <2>2, StuckHoldIs
    <3> QED
      BY <3>1, ClearParts DEF Stuck
  <2> QED
    BY <2>1, <2>2, IInvFacts
<1> HIDE DEF s
<1>4. Clear(c) /\ c.hold = s.hold /\ ~c.connecting /\ ~c.single /\ ~c.retry
  BY <1>3, ClearIs
<1> HIDE DEF c
<1>5. None \in Used(c) \cup {None}
  OBVIOUS
<1>6. Sound(c, None)
  BY <1>2, <1>4, <1>5, ClearSound
<1>7. Going(c) /\ Off(c)
  BY <1>1, <1>3, <1>4 DEF Going, Alive, Off, Clear
<1>8. resume' \in BOOLEAN
  BY <1>1
<1> QED
  BY <1>1, <1>2, <1>6, <1>7, <1>8, BecomesKeeps

(* The line comes up again. *)
LEMMA LineUpSound ==
  ASSUME IInv, Sound(sc, None), LineUp
  PROVE  IInv'
<1> DEFINE no == FALSE
           start == 0
           s == [sc EXCEPT !.hold = no]
           again == resume \/ (m_config.autoConnect /\ m_config.reconnect)
           reconnects == again /\ ~s.connected /\ ~s.connecting
           t == connectToAnyServer(s, start)
<1>1. /\ Becomes(IF reconnects THEN t ELSE s)
      /\ wanted' = (IF reconnects THEN "auto" ELSE wanted) /\ resume' = FALSE
  BY DEF LineUp
<1>2. m_config \in Configs /\ wanted \in Wishes /\ sc.gone = {}
  BY DEF IInv
<1>3. no \in BOOLEAN /\ ~no /\ start \in 0..NumServers /\ "auto" \in Wishes /\ FALSE \in BOOLEAN
  BY ListAssumption DEF Wishes
<1> HIDE DEF no, start
<1>4. /\ Sound(s, None) /\ Used(s) = Used(sc) /\ Links(sc, s) /\ s.hold = no
      /\ s.connecting = sc.connecting /\ s.single = sc.single /\ s.retry = sc.retry
  <2>1. Kindred(sc, s, None) /\ s.hold = no
    BY <1>2, <1>3, HoldIs
  <2> HIDE DEF s
  <2> QED
    BY <2>1 DEF Kindred
<1> HIDE DEF s
<1>5. Session(s) /\ Room(s, 1) /\ None \in Used(s) \cup {None}
  BY <1>2, <1>4, StartRoom DEF Sound, Room
<1>6. CASE reconnects
  <2>1. Sound(t, None) /\ (~NothingStatic => Passing(t, None))
    BY <1>2, <1>3, <1>5, AnyIs
  <2>2. Becomes(t) /\ wanted' = "auto" /\ resume' = FALSE
    BY <1>1, <1>6
  <2> HIDE DEF t, reconnects
  <2>3. GoesOn => Going(t)
    BY <2>1 DEF GoesOn, Going, Alive, Passing
  <2> QED
    BY <1>3, <2>1, <2>2, <2>3, BecomesKeeps
<1>7. CASE ~reconnects
  <2>1. Becomes(s) /\ wanted' = wanted /\ resume' = FALSE
    BY <1>1, <1>7
  <2>2. wanted = "auto" /\ GoesOn => Going(s)
    <3>1. GoesOn => s.connected \/ s.connecting
      BY <1>7 DEF GoesOn
    <3>2. wanted = "auto" /\ GoesOn => ~s.single
      BY <1>4 DEF IInv, Going, Alive
    <3> QED
      BY <3>1, <3>2 DEF Going, Alive
  <2>3. wanted = "no" => Off(s)
    BY <1>4 DEF IInv, Off, Links
  <2> HIDE DEF reconnects
  <2> QED
    BY <1>2, <1>3, <1>4, <2>1, <2>2, <2>3, BecomesKeeps
<1> QED
  BY <1>6, <1>7

(* The same where a single connect is stuck: it counts as a connect under way. *)
LEMMA LineUpKeeps ==
  ASSUME IInv, LineUp
  PROVE  IInv'
<1> DEFINE no == FALSE
           s == [sc EXCEPT !.hold = no]
<1>1. CASE Sound(sc, None)
  BY <1>1, LineUpSound
<1>2. CASE Stuck(sc) /\ wanted = "stuck"
  <2>1. no \in BOOLEAN
    OBVIOUS
  <2>2. Becomes(s) \/ ~s.connecting
    BY DEF LineUp
  <2>3. (wanted' = wanted /\ resume' = FALSE) \/ ~s.connecting
    BY DEF LineUp
  <2> HIDE DEF no
  <2>4. Stuck(s)
    BY <1>2, <2>1, StuckHoldIs
  <2> HIDE DEF s
  <2>5. s.connecting
    BY <2>4 DEF Stuck
  <2> QED
    BY <1>2, <2>2, <2>3, <2>4, <2>5, StuckKeeps
<1> QED
  BY <1>1, <1>2, IInvFacts

(* The events of a socket before its login. *)
LEMMA ConnectedKeeps ==
  ASSUME IInv, NEW i \in SocketIds, onSocketConnected(i) \/ onEncryptionHandshakeComplete(i)
  PROVE  IInv'
<1> DEFINE yes == TRUE
           login == "WaitForLogin"
           s == [sc EXCEPT !.socks[i].tcp = yes]
           u == [s EXCEPT !.socks[i].state = login]
           w == [sc EXCEPT !.socks[i].state = login]
<1>1. /\ sc.socks[i].state = "Connecting"
      /\ Event(s) \/ Event(connectionEstablished(u, i)) \/ Event(connectionEstablished(w, i))
  BY DEF onSocketConnected, onEncryptionHandshakeComplete
<1>2. i \in Open(sc)
  BY <1>1 DEF Open
<1>3. m_config \in Configs /\ Sound(sc, None) /\ sc \in MemberType
  BY <1>2, IInvFacts
<1>4. wanted # "no"
  BY <1>2, Quiet
<1>5. yes \in BOOLEAN /\ login \in {"Connecting", "WaitForLogin"} /\ login = "WaitForLogin"
  OBVIOUS
<1>6. u.socks[i].state = "WaitForLogin" /\ w.socks[i].state = "WaitForLogin"
  BY <1>3 DEF MemberType, SocketType
<1> HIDE DEF yes, login
<1>7. Advanced(sc, s, i) /\ Advanced(sc, w, i)
  BY <1>1, <1>3, <1>5, AdvancedIs
<1>8. /\ Sound(s, None) /\ Aside(sc, s) /\ Links(sc, s) /\ Open(s) = Open(sc)
      /\ Sound(w, None) /\ Aside(sc, w) /\ Links(sc, w) /\ Open(w) = Open(sc)
  BY <1>1, <1>3, <1>2, <1>7, AdvancedSound
<1>9. Advanced(s, u, i) /\ s.socks[i].state # "Connected"
  <2> HIDE DEF s
  <2>1. s \in MemberType /\ s.socks[i].state # "Connected"
    BY <1>7 DEF Advanced
  <2> QED
    BY <1>5, <2>1, AdvancedIs
<1> HIDE DEF s, u, w
<1>10. Sound(u, None) /\ Aside(s, u) /\ Links(s, u) /\ Open(u) = Open(s)
  BY <1>2, <1>8, <1>9, AdvancedSound
<1>11. Continues(sc, s)
  BY <1>8 DEF Continues, Aside, Links, Going, Alive
<1>12. Continues(sc, connectionEstablished(u, i))
  <2>1. Continues(u, connectionEstablished(u, i))
    BY <1>2, <1>6, <1>8, <1>10, WaitIs
  <2> QED
    BY <1>8, <1>10, <2>1 DEF Continues, Aside, Links, Going, Alive
<1>13. Continues(sc, connectionEstablished(w, i))
  <2>1. Continues(w, connectionEstablished(w, i))
    BY <1>2, <1>6, <1>8, WaitIs
  <2> QED
    BY <1>8, <2>1 DEF Continues, Aside, Links, Going, Alive
<1>14. ASSUME NEW t, Event(t), Continues(sc, t) PROVE IInv'
  BY <1>4, <1>14, EventKeeps
<1> QED
  BY <1>1, <1>11, <1>12, <1>13, <1>14

(* The answer to the login. *)
LEMMA LoginKeeps ==
  ASSUME Expected, IInv, NEW i \in SocketIds, NEW id \in {"low", "high"}, loginAnswered(i, id)
  PROVE  IInv'
<1> DEFINE t == onLoginReceived(sc, i, id)
<1>1. /\ Event(t) /\ sc.socks[i].state \in {"WaitForLogin", "Connected"}
      /\ sc.socks[i].state = "Connected" => "newID" \in Anomalies
  BY DEF loginAnswered
<1>2. m_config \in Configs /\ Sound(sc, None) /\ i \in Open(sc)
  <2>1. i \in Open(sc)
    BY <1>1 DEF Open
  <2> QED
    BY <2>1, IInvFacts
<1>3. Room(sc, 1) /\ wanted # "no"
  BY <1>2, IInvFacts, Quiet
<1>4. Continues(sc, t)
  BY <1>1, <1>2, <1>3, LoginIs
<1> HIDE DEF t
<1> QED
  BY <1>1, <1>3, <1>4, EventKeeps

(* A socket fails. *)
LEMMA FailureKeeps ==
  ASSUME IInv, NEW i \in SocketIds,
         NEW reason \in {"ServerDead", "FatalError", "Error", "ServerFull", "Disconnected"},
         socketFailed(i, reason)
  PROVE  IInv'
<1> DEFINE t == connectionFailed(sc, i, reason)
<1>1. /\ reason \in Reasons(sc.socks[i].state)
      /\ \/ i = sc.connectedSocket /\ reason = "ServerFull"
            /\ Becomes(t) /\ wanted' = "refused" /\ resume' = resume
         \/ ~(i = sc.connectedSocket /\ reason = "ServerFull") /\ Event(t)
  BY DEF socketFailed
<1>2. /\ sc.socks[i].state # "none"
      /\ sc.socks[i].state = "Connected" => reason \in {"Disconnected", "ServerFull"}
      /\ reason = "Disconnected" => sc.socks[i].state = "Connected"
  <2>1. sc.socks[i] \in SocketType
    BY IInvFacts DEF MemberType
  <2>2. sc.socks[i].state \in {"none", "Connecting", "WaitForLogin", "Connected"}
    BY <2>1 DEF SocketType
  <2> QED
    BY <1>1, <2>2 DEF Reasons
<1>3. m_config \in Configs /\ Sound(sc, None) /\ i \in Open(sc)
  <2>1. i \in Open(sc)
    BY <1>2 DEF Open
  <2> QED
    BY <2>1, IInvFacts
<1>4. Room(sc, 1) /\ wanted # "no" /\ (sc.hoLoginSent => handed) /\ resume \in BOOLEAN
  BY <1>3, IInvFacts, Quiet DEF IInv
<1>5. reason = "Disconnected" /\ i \in ToSet(sc.attempts) => ~sc.single
  BY <1>2, <1>3, AttemptRole
<1>6. Sound(t, None) /\ (Continues(sc, t) \/ (i = sc.connectedSocket /\ reason = "ServerFull"))
  BY <1>2, <1>3, <1>4, <1>5, FailedIs
<1> HIDE DEF t
<1>7. CASE i = sc.connectedSocket /\ reason = "ServerFull"
  <2>1. Becomes(t) /\ wanted' = "refused" /\ resume' = resume
    BY <1>1, <1>7
  <2>2. "refused" \in Wishes
    BY DEF Wishes
  <2> QED
    BY <1>4, <1>6, <2>1, <2>2, BecomesKeeps
<1>8. CASE ~(i = sc.connectedSocket /\ reason = "ServerFull")
  BY <1>1, <1>4, <1>6, <1>8, EventKeeps
<1> QED
  BY <1>7, <1>8

(* A socket sends what cannot be read before it is logged in. *)
LEMMA MalformedKeeps ==
  ASSUME IInv, NEW i \in SocketIds, malformedPacket(i)
  PROVE  IInv'
<1> DEFINE reason == "Disconnected"
           t == connectionFailed(sc, i, reason)
<1>1. /\ sc.socks[i].state = "WaitForLogin"
      /\ \/ sc.socks[i].manual /\ Becomes(t) /\ wanted' = "stuck" /\ resume' = resume
         \/ ~sc.socks[i].manual /\ Event(t)
  BY DEF malformedPacket
<1>2. m_config \in Configs /\ Sound(sc, None) /\ i \in Open(sc)
  <2>1. i \in Open(sc)
    BY <1>1 DEF Open
  <2> QED
    BY <2>1, IInvFacts
<1>3. /\ Room(sc, 1) /\ wanted # "no" /\ (sc.hoLoginSent => handed) /\ resume \in BOOLEAN
      /\ "stuck" \in Wishes
  BY <1>2, IInvFacts, Quiet DEF IInv, Wishes
<1>4. CASE i \in ToSet(sc.attempts) /\ sc.single
  <2>1. Stuck(t)
    BY <1>2, <1>4, StuckIs
  <2>2. sc.socks[i].manual
    BY <1>2, <1>4, AttemptRole
  <2> HIDE DEF t
  <2> QED
    BY <1>1, <1>3, <2>1, <2>2, StuckKeeps
<1>5. CASE ~(i \in ToSet(sc.attempts) /\ sc.single)
  <2>1. reason \in {"Error", "ServerDead", "ServerFull", "FatalError", "Disconnected"} /\ reason # "ServerFull"
    OBVIOUS
  <2> HIDE DEF reason
  <2>2. Sound(t, None) /\ Continues(sc, t)
    BY <1>1, <1>2, <1>3, <1>5, <2>1, FailedIs
  <2> HIDE DEF t
  <2>3. CASE sc.socks[i].manual
    BY <1>1, <1>3, <2>2, <2>3, BecomesKeeps
  <2>4. CASE ~sc.socks[i].manual
    BY <1>1, <1>3, <2>2, <2>4, EventKeeps
  <2> QED
    BY <2>3, <2>4
<1> QED
  BY <1>4, <1>5

(* The timers and the deferred calls leave a stuck connect stuck, but for the end of a pause. *)
LEMMA StuckTimerKeeps ==
  ASSUME IInv, Stuck(sc), wanted = "stuck",
         \/ \E n \in 0..2 : onTimer(n)
         \/ handoverTimer
         \/ \E call \in {"beside", "closeFirst"} : deferredHandover(call)
  PROVE  IInv'
<1>1. Clear(sc) /\ sc.connecting /\ sc.single /\ sc \in MemberType /\ resume \in BOOLEAN
  BY IInvFacts DEF Stuck
<1>2. ASSUME NEW n \in 0..2, onTimer(n) PROVE IInv'
  <2>1. n = 0
    BY <1>1, <1>2, ClearParts DEF onTimer
  <2>2. checkForTimeout(sc, n) = sc
    BY <1>1, <2>1 DEF checkForTimeout
  <2>3. Becomes(sc) /\ wanted' = "stuck" /\ resume' = resume
    BY <1>2, <2>2 DEF onTimer, Event
  <2> QED
    BY <1>1, <2>3, StuckKeeps
<1>3. CASE handoverTimer
  BY <1>1, <1>3 DEF handoverTimer, Clear
<1>4. ASSUME NEW call \in {"beside", "closeFirst"}, deferredHandover(call) PROVE IInv'
  <2> DEFINE ps == sc.posted \ {call}
             s == [sc EXCEPT !.posted = ps]
             t == [s EXCEPT !.hoServer = None]
  <2>1. ps \in SUBSET {"beside", "closeFirst"} /\ (sc.posted = {} => ps = {})
    BY <1>1 DEF MemberType
  <2>2. Becomes(startIPv6Handover(s, call = "closeFirst"))
        /\ wanted' = (IF wanted = "auto" /\ startIPv6Handover(s, call = "closeFirst").single
                      THEN "handover"
                      ELSE IF wanted = "handover" /\ startIPv6Handover(s, call = "closeFirst").connected
                      THEN "auto" ELSE wanted)
        /\ resume' = resume
    BY <1>4 DEF deferredHandover, Event
  <2> HIDE DEF ps
  <2>3. /\ s \in MemberType /\ s.socks = sc.socks /\ s.attempts = sc.attempts
        /\ s.connected = sc.connected /\ s.connectedSocket = sc.connectedSocket
        /\ s.hoSocket = sc.hoSocket /\ s.hoServer = sc.hoServer /\ s.posted = ps
        /\ s.clientID = sc.clientID /\ s.connecting = sc.connecting /\ s.single = sc.single
    BY <1>1, <2>1 DEF MemberType
  <2> HIDE DEF s
  <2>4. /\ t \in MemberType /\ t.socks = s.socks /\ t.attempts = s.attempts
        /\ t.connected = s.connected /\ t.connectedSocket = s.connectedSocket
        /\ t.hoSocket = s.hoSocket /\ t.hoServer = None /\ t.posted = s.posted
        /\ t.clientID = s.clientID /\ t.connecting = s.connecting /\ t.single = s.single
    BY <2>3 DEF MemberType
  <2>5. startIPv6Handover(s, call = "closeFirst") = t
    BY <1>1, <2>3 DEF startIPv6Handover, Clear
  <2> HIDE DEF t
  <2>6. Open(t) = Open(sc)
    BY <2>3, <2>4 DEF Open
  <2>7. Stuck(t)
    BY <1>1, <2>1, <2>3, <2>4, <2>6 DEF Stuck, Clear
  <2>8. Becomes(t) /\ wanted' = "stuck" /\ resume' = resume
    BY <2>2, <2>5
  <2> QED
    BY <1>1, <2>7, <2>8, StuckKeeps
<1> QED
  BY <1>2, <1>3, <1>4

(* The end of a pause. *)
LEMMA RetryKeeps ==
  ASSUME IInv, retryTimer
  PROVE  IInv'
<1> DEFINE t == onRetryTimer(sc)
<1>1. Event(t) /\ sc.retry
  BY DEF retryTimer
<1>2. Continues(sc, t)
  BY IInvFacts, RetryIs
<1>3. wanted # "no"
  BY <1>1, Quiet
<1> HIDE DEF t
<1> QED
  BY <1>1, <1>2, <1>3, EventKeeps

(* The timers and the deferred calls. *)
LEMMA TimerKeeps ==
  ASSUME IInv, Sound(sc, None),
         \/ \E n \in 0..2 : onTimer(n)
         \/ handoverTimer
         \/ \E call \in {"beside", "closeFirst"} : deferredHandover(call)
  PROVE  IInv'
<1>1. m_config \in Configs /\ Sound(sc, None) /\ Room(sc, 3) /\ Room(sc, 1)
  BY IInvFacts
<1>2. ASSUME NEW n \in 0..2, onTimer(n) PROVE IInv'
  <2> DEFINE t == checkForTimeout(sc, n)
  <2>1. Event(t) /\ n <= Len(sc.attempts)
    BY <1>2 DEF onTimer
  <2>2. Continues(sc, t)
    BY <1>1, <2>1, CheckIs
  <2>3. wanted = "no" => t = sc
    <3> SUFFICES ASSUME wanted = "no" PROVE t = sc
      OBVIOUS
    <3>1. sc.attempts = << >> /\ ~sc.connecting
      BY Quiet
    <3>2. n = 0
      <4>1. Len(sc.attempts) = 0
        BY <3>1
      <4> QED
        BY <2>1, <4>1
    <3> QED
      BY <3>1, <3>2 DEF checkForTimeout
  <2> HIDE DEF t
  <2>4. wanted = "no" => Off(t)
    BY <2>3 DEF IInv
  <2> QED
    BY <2>1, <2>2, <2>4, EventKeeps
<1>3. CASE handoverTimer
  <2> DEFINE timeout == "Timeout"
             t == failIPv6Handover(sc, sc.hoSocket, timeout)
  <2>1. Event(t) /\ sc.hoSocket # None
    BY <1>3 DEF handoverTimer
  <2> HIDE DEF timeout
  <2>2. Continues(sc, t)
    BY <1>1, <2>1, FailHandoverIs
  <2>3. wanted # "no"
    BY <2>1, Quiet
  <2> HIDE DEF t
  <2> QED
    BY <2>1, <2>2, <2>3, EventKeeps
<1>4. ASSUME NEW call \in {"beside", "closeFirst"}, deferredHandover(call) PROVE IInv'
  <2> DEFINE ps == sc.posted \ {call}
             s == [sc EXCEPT !.posted = ps]
             closeFirst == call = "closeFirst"
             t == startIPv6Handover(s, closeFirst)
  <2>1. Event(t) /\ sc.posted # {} /\ closeFirst \in BOOLEAN
    BY <1>4 DEF deferredHandover
  <2>2. sc \in MemberType /\ Session(sc)
    BY <1>1 DEF Sound, Session
  <2>3. m_config.preferIPv6
    BY <2>1, <2>2, HandoverWanted
  <2>4. ps \in SUBSET {"beside", "closeFirst"}
    BY <2>2 DEF MemberType
  <2> HIDE DEF ps, closeFirst
  <2>5. SameSockets(sc, s) /\ s.hoServer = sc.hoServer
    BY <2>2, <2>4 DEF MemberType, SameSockets
  <2> HIDE DEF s
  <2>6. Sound(s, None) /\ Used(s) = Used(sc)
    <3>1. sc.hoSocket # None => s.hoServer # None
      BY <1>1, <2>5 DEF Sound, Purposes
    <3> QED
      BY <1>1, <2>3, <2>5, <3>1, NoteIs
  <2>7. Sound(t, None) /\ t.hold = s.hold /\ (Alive(s) => Alive(t)) /\ (Off(s) => Off(t))
    BY <1>1, <2>1, <2>3, <2>6, StartHandoverIs DEF Room
  <2> HIDE DEF t
  <2>8. Continues(sc, t)
    BY <2>5, <2>7 DEF Continues, Going, Alive, SameSockets
  <2>9. wanted = "no" => Off(t)
    BY <2>5, <2>7 DEF IInv, Off, SameSockets
  <2> QED
    BY <2>1, <2>8, <2>9, EventKeeps
<1> QED
  BY <1>2, <1>3, <1>4

-----------------------------------------------------------------------------
(***************************************************************************)
(* The invariant and what it implies.                                      *)
(***************************************************************************)

(* The program starts with no socket open. *)
LEMMA InitIInv ==
  ASSUME Init
  PROVE  IInv
<1>1. /\ sc.socks = [i \in SocketIds |-> NoSocket] /\ sc.attempts = << >> /\ ~sc.connected
      /\ sc.connectedSocket = None /\ sc.hoSocket = None /\ sc.hoServer = None /\ sc.posted = {}
      /\ sc.clientID = "none" /\ sc.gone = {} /\ ~sc.connecting /\ ~sc.single /\ ~sc.retry
      /\ ~sc.hold
  BY DEF Init
<1>2. sc \in MemberType
  <2>1. /\ [i \in SocketIds |-> NoSocket] \in [SocketIds -> SocketType]
        /\ [p \in Servers |-> 0] \in [Servers -> 0..DeadRetries] /\ 0 \in 0..(NumServers - 1)
        /\ 0 \in 0..NumServers
    BY ListAssumption DEF NoSocket, SocketType
  <2>2. << >> \in Seq(SocketIds) /\ None \in SocketIds \cup {None} /\ None \in Servers \cup {None}
    OBVIOUS
  <2> DEFINE sk == [i \in SocketIds |-> NoSocket]
             fl == [p \in Servers |-> 0]
             none == << >>
  <2>3. /\ sk \in [SocketIds -> SocketType] /\ fl \in [Servers -> 0..DeadRetries]
        /\ none \in Seq(SocketIds)
        /\ sc = [connecting |-> FALSE, single |-> FALSE, connected |-> FALSE,
                 connectedSocket |-> None, attempts |-> none, socks |-> sk, gone |-> {},
                 retry |-> FALSE, startPos |-> 0, tryObf |-> FALSE, hold |-> FALSE,
                 smart |-> 0, clientID |-> "none", hoSocket |-> None, hoServer |-> None,
                 hoLoginSent |-> FALSE, hoCloseFirst |-> FALSE, posted |-> {}, pos |-> 0,
                 triedCrypt |-> {}, switchFailed |-> {}, failed |-> fl]
    BY <2>1, <2>2 DEF Init
  <2> HIDE DEF sk, fl, none
  <2> QED
    BY <2>1, <2>2, <2>3 DEF MemberType
<1>3. Open(sc) = {}
  BY <1>1 DEF Open, NoSocket
<1>4. Clear(sc)
  BY <1>1, <1>2, <1>3 DEF Clear
<1>5. /\ m_config \in Configs /\ resume = FALSE /\ wanted = "no" /\ handed = FALSE
      /\ sc.hoLoginSent = FALSE
  BY DEF Init
<1>6. None \in Used(sc) \cup {None}
  OBVIOUS
<1>7. Sound(sc, None)
  BY <1>1, <1>4, <1>5, <1>6, ClearSound
<1> QED
  BY <1>1, <1>5, <1>7 DEF IInv, Settled, Off, Wishes

(* Every event keeps the invariant. *)
LEMMA NextIInv ==
  ASSUME Expected, IInv, [Next]_vars
  PROVE  IInv'
<1>1. CASE UserStep
  BY <1>1, UserConnectAnyKeeps, UserConnectToKeeps, UserDisconnectKeeps DEF UserStep
<1>2. CASE LineDown
  BY <1>2, LineDownKeeps
<1>3. CASE LineUp
  BY <1>3, LineUpKeeps
<1>4. CASE SocketStep
  BY <1>4, ConnectedKeeps, LoginKeeps, FailureKeeps, MalformedKeeps DEF SocketStep
<1>5. CASE \/ \E n \in 0..2 : onTimer(n)
           \/ handoverTimer
           \/ \E call \in {"beside", "closeFirst"} : deferredHandover(call)
  BY <1>5, IInvFacts, TimerKeeps, StuckTimerKeeps
<1>6. CASE retryTimer
  BY <1>6, RetryKeeps
<1>7. CASE UNCHANGED vars
  <2>1. /\ sc' = sc /\ m_config' = m_config /\ resume' = resume /\ wanted' = wanted
        /\ handed' = handed
    BY <1>7 DEF vars
  <2>2. (Sound(sc, None) => Sound(sc, None)') /\ (Stuck(sc) => Stuck(sc)')
    BY <2>1, SoundPrime
  <2> QED
    BY <2>1, <2>2 DEF IInv, Settled, GoesOn, Going, Alive, Off, NothingStatic
<1> QED
  BY <1>1, <1>2, <1>3, <1>4, <1>5, <1>6, <1>7 DEF Next

(* The invariant gives the types. *)
LEMMA IInvTypes ==
  ASSUME IInv
  PROVE  TypeOK
<1>0. Len(sc.attempts) <= MaxSimCons
  <2>1. CASE Sound(sc, None)
    BY <2>1 DEF Sound, Registered
  <2>2. CASE Stuck(sc)
    BY <2>2, IInvFacts, ClearParts, ConfigFacts DEF Stuck
  <2> QED
    BY <2>1, <2>2, IInvFacts
<1>1. /\ sc \in MemberType /\ Len(sc.attempts) <= MaxSimCons /\ sc.gone = {}
      /\ m_config \in Configs /\ resume \in BOOLEAN /\ wanted \in Wishes /\ handed \in BOOLEAN
  BY <1>0, IInvFacts DEF IInv
<1>2. /\ {sc.connecting, sc.single, sc.connected, sc.retry, sc.tryObf, sc.hold,
          sc.hoLoginSent, sc.hoCloseFirst} \subseteq BOOLEAN
      /\ {sc.connectedSocket, sc.hoSocket} \subseteq SocketIds \cup {None}
      /\ sc.attempts \in Seq(SocketIds)
  BY <1>1 DEF MemberType
<1>3. \A i \in SocketIds :
        sc.socks[i].state \in {"none", "Connecting", "WaitForLogin", "Connected"}
  <2>1. \A i \in SocketIds : sc.socks[i] \in SocketType
    BY <1>1 DEF MemberType
  <2> QED
    BY <2>1 DEF SocketType
<1>4. /\ sc.posted \subseteq {"beside", "closeFirst"} /\ sc.startPos \in 0..(NumServers - 1)
      /\ sc.pos \in 0..NumServers /\ sc.smart \in 0..2 /\ sc.clientID \in {"none", "low", "high"}
      /\ sc.hoServer \in Servers \cup {None} /\ sc.triedCrypt \cup sc.switchFailed \subseteq Servers
      /\ sc.failed \in [Servers -> 0..DeadRetries]
  BY <1>1 DEF MemberType
<1> QED
  BY <1>1, <1>2, <1>3, <1>4 DEF TypeOK

(* The invariant gives the roles of the sockets. *)
LEMMA SoundRoles ==
  ASSUME Sound(sc, None)
  PROVE  SocketRoles
<1>1. /\ sc \in MemberType /\ Session(sc) /\ Obfuscated(sc) /\ Registered(sc) /\ NoStray(sc, None)
      /\ Purposes(sc) /\ sc.attempts \in Seq(SocketIds)
  BY DEF Sound, Session, MemberType
<1>2. NoDanglingSocket
  <2>1. sc.connected = (sc.connectedSocket # None)
    <3>1. sc.connected \in BOOLEAN
      BY <1>1 DEF MemberType
    <3> QED
      BY <1>1, <3>1 DEF Session
  <2> QED
    BY <1>1, <2>1 DEF NoDanglingSocket, Session, Registered
<1>3. NoStraySocket
  BY <1>1 DEF NoStraySocket, NoStray, Registered, Purposes, Open, None, SocketIds
<1>4. OneSession
  BY <1>1 DEF OneSession, NoStray, Session, Open, None, SocketIds
<1>5. NoDoubleDial
  <2>1. /\ DOMAIN sc.attempts = 1..Len(sc.attempts)
        /\ ToSet(sc.attempts) = {sc.attempts[n] : n \in 1..Len(sc.attempts)}
        /\ \A m, n \in 1..Len(sc.attempts) : sc.attempts[m] = sc.attempts[n] => m = n
    BY <1>1, ToSetIs DEF Registered
  <2> QED
    BY <1>1, <2>1 DEF NoDoubleDial, Registered
<1>6. RequiredIsObfuscated
  BY <1>1 DEF RequiredIsObfuscated, Obfuscated
<1> QED
  BY <1>2, <1>3, <1>4, <1>5, <1>6 DEF SocketRoles

(* So it does where a single connect is stuck: there are no sockets. *)
LEMMA IInvRoles ==
  ASSUME IInv
  PROVE  SocketRoles
<1>1. CASE Sound(sc, None)
  BY <1>1, SoundRoles
<1>2. CASE Stuck(sc)
  <2>1. /\ Open(sc) = {} /\ sc.attempts = << >> /\ sc.connected = FALSE /\ sc.connectedSocket = None
        /\ sc.hoSocket = None /\ ToSet(sc.attempts) = {}
    BY <1>2, ClearParts DEF Stuck, Clear, MemberType
  <2>2. NoDanglingSocket /\ NoStraySocket /\ OneSession
    BY <2>1 DEF NoDanglingSocket, NoStraySocket, OneSession
  <2>3. NoDoubleDial /\ RequiredIsObfuscated
    BY <2>1 DEF NoDoubleDial, RequiredIsObfuscated
  <2> QED
    BY <2>2, <2>3 DEF SocketRoles
<1> QED
  BY <1>1, <1>2, IInvFacts

(* The invariant gives what was asked for. *)
LEMMA IInvWanted ==
  ASSUME IInv
  PROVE  ConnectionIsAsWanted
<1>1. SingleConnectEnds
  BY DEF IInv, Sound, Purposes, SingleConnectEnds, SingleConnectIsAlive
<1>2. AutoConnectGoesOn
  BY DEF IInv, AutoConnectGoesOn, GoesOn, Going, Alive
<1>3. IdentityIsCurrent
  BY IInvFacts DEF IdentityIsCurrent, Session, Excused
<1>4. DisconnectHolds
  BY DEF IInv, DisconnectHolds, Off
<1> QED
  BY <1>1, <1>2, <1>3, <1>4 DEF ConnectionIsAsWanted

(* For any list of servers and any preferences, the shipped ones among them, and whatever the     *)
(* servers send, but for a second ID where Expected rules it out: every socket ServerConnect.cpp  *)
(* has open has one role and every role an open socket, no two attempts dial one server, no       *)
(* server that supports obfuscation is dialled plain where it is required, and the connection is  *)
(* what was asked for, with the exceptions ConnectionIsAsWanted names.                            *)
THEOREM Safety ==
  ASSUME Expected
  PROVE  Spec => [](TypeOK /\ SocketRoles /\ ConnectionIsAsWanted)
<1>1. Init => IInv
  BY InitIInv
<1>2. IInv /\ [Next]_vars => IInv'
  BY NextIInv
<1>3. IInv => TypeOK /\ SocketRoles /\ ConnectionIsAsWanted
  BY IInvTypes, IInvRoles, IInvWanted
<1> QED
  BY <1>1, <1>2, <1>3, PTL DEF Spec
=============================================================================

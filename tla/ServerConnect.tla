--------------------------- MODULE ServerConnect ---------------------------
(***************************************************************************)
(* The connection to an eD2K server (core/server/ServerConnect.cpp): the   *)
(* parallel attempts of an automatic connect, single connects, the plain   *)
(* and other-family fallbacks, time-outs, the pause between two passes,    *)
(* the login with its smart LowID check, the handover of a LowID session   *)
(* to IPv6, and the hold while the line is down (CoreSession).             *)
(*                                                                         *)
(* Everything runs on the main thread, one event after the other, so one   *)
(* action is one event with every call it leads to.  The calls are         *)
(* operators from the members of ServerConnect to the members afterwards.  *)
(* Left out: names to be resolved, addresses learned later, changes of the *)
(* server list and its order, and the ban on all outbound traffic; a dial  *)
(* that fails inside connectTo() fails in the next step.                   *)
(***************************************************************************)
EXTENDS Naturals, Sequences, SequencesExt, FiniteSetsExt, Lists

CONSTANTS NumServers,    \* servers, in the order of the list
          Obfuscating,   \* servers with an obfuscation port
          DualStack,     \* servers with an IPv4 and an IPv6 address
          Static,        \* static servers, which are never disabled
          DeadRetries,   \* failures that disable another server
          Configs,       \* the preferences to choose from
          Anomalies      \* what a server may do besides: see AnomalyKinds

Servers == 1..NumServers
SocketIds == 1..5        \* at most two are open between events, and one event opens at most three
None == 0
(* A malformed packet before the login answer, on an automatic or a single attempt; a second
   login answer on the live session, with an ID or with 0. *)
AnomalyKinds == {"garbledAuto", "garbledSingle", "newID", "lateFull"}

ASSUME ListAssumption ==
  /\ NumServers \in Nat \ {0} /\ DeadRetries \in Nat \ {0}
  /\ Obfuscating \cup DualStack \cup Static \subseteq Servers
  /\ Anomalies \subseteq AnomalyKinds
ASSUME ConfigAssumption ==
  \A c \in Configs :
    /\ \A f \in {"preferred", "required", "safe", "smart", "reconnect", "preferIPv6",
                 "staticOnly", "autoConnect"} : f \in DOMAIN c /\ c[f] \in BOOLEAN
    /\ c.required => c.preferred

VARIABLES m_config,      \* the preferences
          sc,            \* the members of ServerConnect, its sockets and its list
          resume,        \* CoreSession::m_offlineResumeEd2k
          wanted,        \* history: what was asked for last, and what became of it (see Wishes)
          handed         \* history: the live session, or the last one if there is none, had a
                         \* handover log in beside it

vars == <<m_config, sc, resume, wanted, handed>>

(* "no", "single" or "auto" as the user or the core asked; "pending": the user disconnected and
   a pause or a handover was left; "handover": an automatic connection is being handed over, its
   own session closed; "stuck": a malformed packet came in a connect to one server; "refused":
   the server refused a session that was logged in. *)
Wishes == {"no", "single", "auto", "pending", "handover", "stuck", "refused"}

NoSocket == [state |-> "none", server |-> None, crypt |-> FALSE, tcp |-> FALSE, v6 |-> FALSE,
             fallback |-> FALSE, manual |-> FALSE]

Init ==
  /\ m_config \in Configs
  /\ sc = [connecting |-> FALSE, single |-> FALSE, connected |-> FALSE, connectedSocket |-> None,
           attempts |-> << >>,                       \* m_connectionAttempts, by start time
           socks |-> [i \in SocketIds |-> NoSocket], \* m_openSockets
           gone |-> {},                              \* sockets deleted by this event
           retry |-> FALSE, startPos |-> 0, tryObf |-> FALSE, hold |-> FALSE,
           smart |-> 0, clientID |-> "none",
           hoSocket |-> None, hoServer |-> None, hoLoginSent |-> FALSE, hoCloseFirst |-> FALSE,
           posted |-> {},                            \* deferred calls of startIPv6Handover()
           pos |-> 0,                                \* ServerList::m_serverPos
           triedCrypt |-> {}, switchFailed |-> {}, failed |-> [s \in Servers |-> 0]]
  /\ resume = FALSE /\ wanted = "no" /\ handed = FALSE

-----------------------------------------------------------------------------
(***************************************************************************)
(* The calls.  s is the state before, the value the state after.           *)
(***************************************************************************)
Open(s) == {i \in SocketIds : s.socks[i].state # "none"}
Disabled(s) == {p \in Servers \ Static : s.failed[p] = DeadRetries}

resetIPv6Handover(s) ==
  [s EXCEPT !.hoSocket = None, !.hoServer = None, !.hoLoginSent = FALSE, !.hoCloseFirst = FALSE]

(* What the sockets of I leave behind when they are destroyed. *)
destroySockets(s, I) ==
  LET t == IF s.hoSocket \in I THEN resetIPv6Handover(s) ELSE s
      live == s.connectedSocket \in I
  IN  [t EXCEPT !.socks = [i \in SocketIds |-> IF i \in I THEN NoSocket ELSE @[i]],
                !.gone = @ \cup I,
                !.attempts = Kept(@, SocketIds \ I),
                !.connectedSocket = IF live THEN None ELSE @,
                !.connected = @ /\ ~live]

(* Mutant of destroySocket: the attempt stays registered. *)
destroySocketRegistered(s, i) == [destroySockets(s, {i}) EXCEPT !.attempts = s.attempts]

destroySocket(s, i) == destroySockets(s, {i})

(* Every attempt is given up; the live session stays. *)
stopConnectionTry(s) ==
  destroySockets([s EXCEPT !.attempts = << >>, !.connecting = FALSE, !.single = FALSE, !.retry = FALSE],
                 Open(s) \ {s.connectedSocket})

(* Mutant of disconnect: the identity the server gave us stays. *)
disconnectKeepingID(s) == IF s.connected THEN destroySocket(s, s.connectedSocket) ELSE s

(* disconnect(), with clearServerIdentity(). *)
disconnect(s) ==
  IF s.connected THEN destroySocket([s EXCEPT !.clientID = "none"], s.connectedSocket) ELSE s

(* createServerSocket() and connectTo(). dial is the address: the first choice, or a family. *)
createServerSocket(s, i, server, noCrypt, dial, manual) ==
  [s EXCEPT !.socks[i] =
     [state |-> "Connecting", server |-> server, crypt |-> ~noCrypt /\ server \in Obfuscating,
      tcp |-> FALSE, v6 |-> dial = "v6", fallback |-> dial # "first", manual |-> manual]]
NextSocket(s) == Min(SocketIds \ (Open(s) \cup s.gone))

connectToServer(s, server, multiconnect, noCrypt, dial) ==
  LET t == IF multiconnect THEN s ELSE disconnect(stopConnectionTry(s))
      u == [t EXCEPT !.connecting = TRUE, !.single = ~multiconnect,
                     !.triedCrypt = IF noCrypt THEN @
                                    ELSE IF server \in Obfuscating THEN @ \ {server}
                                    ELSE @ \cup {server}]
      i == NextSocket(u)
  IN  [createServerSocket(u, i, server, noCrypt, dial, ~multiconnect)
         EXCEPT !.attempts = Append(@, i)]

Dialled(s) == {s.socks[s.attempts[n]].server : n \in DOMAIN s.attempts}

(* What nextServer() still finds in this pass, without the servers being dialled. *)
Candidates(s) ==
  {p \in (s.pos + 1)..NumServers :
     /\ p \notin Disabled(s) \cup Dialled(s)
     /\ s.tryObf => p \in Obfuscating \/ p \notin s.triedCrypt}

MaxSimCons == IF m_config.safe THEN 1 ELSE 2
Exhausted(s) == Len(s.attempts) < MaxSimCons /\ Candidates(s) = {} /\ s.attempts = << >>

(* Mutant of tryPass: the pass ends without a pause. *)
tryPassForGood(s) ==
  IF Len(s.attempts) >= MaxSimCons THEN s
  ELSE IF Candidates(s) = {} THEN [s EXCEPT !.pos = NumServers]
  ELSE LET next == Min(Candidates(s))
           t == [s EXCEPT !.pos = next]
       IN  IF m_config.staticOnly /\ next \notin Static THEN t
           ELSE connectToServer(t, next, TRUE, ~t.tryObf, "first")

(* tryAnotherConnectionRequest() in a pass after which there is only the pause. *)
tryPass(s) ==
  IF Len(s.attempts) >= MaxSimCons THEN s
  ELSE IF Candidates(s) = {}
  THEN IF s.attempts # << >> THEN [s EXCEPT !.pos = NumServers]
       ELSE [s EXCEPT !.pos = NumServers, !.retry = TRUE,
                      !.startPos = IF s.retry THEN @ ELSE 0]
  ELSE LET next == Min(Candidates(s))
           t == [s EXCEPT !.pos = next]
       IN  IF m_config.staticOnly /\ next \notin Static THEN t
           ELSE connectToServer(t, next, TRUE, ~t.tryObf, "first")

(* connectToAnyServer() before its first dial; a pass without static servers to dial
   does not begin. *)
beginPass(s, startAt, noCrypt) ==
  [disconnect(stopConnectionTry(s)) EXCEPT
     !.connecting = TRUE, !.single = FALSE,
     !.tryObf = m_config.preferred /\ ~noCrypt,
     !.pos = IF startAt < NumServers THEN startAt ELSE 0]
NothingStatic == m_config.staticOnly /\ Static = {}

(* After the last obfuscated server all are tried once more on their plain ports. *)
tryAnotherConnectionRequest(s) ==
  IF Exhausted(s) /\ s.tryObf /\ ~m_config.required THEN tryPass(beginPass(s, 0, TRUE))
  ELSE tryPass(s)

connectToAnyServer(s, startAt) ==
  LET t == beginPass(s, startAt, FALSE)
  IN  IF NothingStatic THEN [t EXCEPT !.connecting = FALSE] ELSE tryAnotherConnectionRequest(t)

countFailure(s, server) == [s EXCEPT !.failed[server] = Min({@ + 1, DeadRetries})]

(* nextDialFor(), otherFamilyFor(): a dual-stack server TCP did not reach gets one attempt
   on its other address. *)
HasOtherFamily(s, i) ==
  /\ s.connecting /\ ~s.socks[i].tcp /\ ~s.socks[i].fallback
  /\ s.socks[i].server \in DualStack

dialOtherFamily(s, i, t) ==
  connectToServer(t, s.socks[i].server, ~s.single, FALSE, IF s.socks[i].v6 THEN "v4" ELSE "v6")

(* Mutant of mayRetryPlain: also where obfuscation is required. *)
mayRetryPlainAlways(s, server) == server \in Obfuscating /\ server \notin s.triedCrypt

(* A single connect gets one attempt without obfuscation, or ends. *)
mayRetryPlain(s, server) ==
  ~m_config.required /\ server \in Obfuscating /\ server \notin s.triedCrypt

retryWithoutObfuscation(s, server) ==
  IF mayRetryPlain(s, server)
  THEN connectToServer([s EXCEPT !.triedCrypt = @ \cup {server}], server, FALSE, TRUE, "first")
  ELSE stopConnectionTry(s)

wantsIPv6Switch(s, i) ==
  /\ m_config.preferIPv6 /\ ~s.socks[i].v6
  /\ s.socks[i].server \in DualStack \ s.switchFailed

(* The login is accepted: connectionEstablished() of a socket that is Connected. *)
goLive(s, i) ==
  LET t == stopConnectionTry([s EXCEPT !.connected = TRUE, !.connectedSocket = i])
      u == [t EXCEPT !.failed[t.socks[i].server] = 0]
  IN  IF u.hoServer # None /\ u.hoSocket = None /\ ~u.socks[i].v6
      THEN [u EXCEPT !.posted = @ \cup {"beside"}] ELSE u

finishIPv6Handover(s, i) ==
  LET t == resetIPv6Handover(s)
      u == IF t.connected THEN destroySocket(t, t.connectedSocket) ELSE t
  IN  goLive([u EXCEPT !.switchFailed = @ \ {u.socks[i].server}, !.connecting = TRUE], i)

(* connectionEstablished() of a socket that waits for its login, and of one logged in. *)
connectionEstablished(s, i) ==
  LET login == s.socks[i].state = "WaitForLogin"
  IN  IF i = s.hoSocket
      THEN IF login THEN [s EXCEPT !.hoLoginSent = TRUE] ELSE finishIPv6Handover(s, i)
      ELSE IF ~s.connecting THEN destroySocket(s, i)
      ELSE IF login THEN s ELSE goLive(s, i)

(* The smart LowID check: an automatic attempt that gets a LowID after a HighID was seen
   goes on to another server, twice. *)
Bounces(s, i, id) ==
  m_config.smart /\ i # s.hoSocket /\ id = "low" /\ s.smart > 0 /\ ~s.socks[i].manual
(* Mutant of SmartState: the count of bounces is not reset. *)
SmartStateCounting(s, i, id) ==
  IF ~m_config.smart \/ i = s.hoSocket THEN s.smart
  ELSE IF id = "high" THEN 1 ELSE IF s.smart > 0 THEN s.smart + 1 ELSE 0

SmartState(s, i, id) ==
  IF ~m_config.smart \/ i = s.hoSocket THEN s.smart
  ELSE IF id = "high" THEN 1 ELSE IF s.smart = 1 THEN 2 ELSE 0

(* onLoginReceived(), and the promotion of the socket that follows; a socket that is
   Connected is not promoted again. *)
onLoginReceived(s, i, id) ==
  LET server == s.socks[i].server
      t == [s EXCEPT !.triedCrypt = IF server \in Obfuscating THEN @ \ {server} ELSE @,
                     !.smart = SmartState(s, i, id)]
      u == IF i = t.hoSocket THEN t
           ELSE IF id = "high"
           THEN [t EXCEPT !.switchFailed = IF t.socks[i].v6 THEN @ ELSE @ \ {server}]
           ELSE IF wantsIPv6Switch(t, i) THEN [t EXCEPT !.hoServer = server] ELSE t
  IN  IF Bounces(s, i, id)
      THEN tryAnotherConnectionRequest([destroySocket(t, i) EXCEPT !.connecting = TRUE])
      ELSE LET v == [u EXCEPT !.clientID = id, !.socks[i].state = "Connected"]
           IN  IF s.socks[i].state = "Connected" THEN v ELSE connectionEstablished(v, i)

(* The IPv6 dial or login failed. With the IPv4 session gone, back to it. *)
failIPv6Handover(s, i, reason) ==
  LET entry == s.hoServer
      refused == s.hoLoginSent /\ reason = "ServerFull"
      t == destroySocket(s, i)
      u == [t EXCEPT !.switchFailed = @ \cup {entry}]
  IN  IF ~t.connected THEN connectToServer(u, entry, FALSE, FALSE, "first")
      ELSE IF refused /\ ~s.hoCloseFirst
      THEN [t EXCEPT !.hoServer = entry, !.posted = @ \cup {"closeFirst"}]
      ELSE u

startIPv6Handover(s, closeFirst) ==
  LET entry == s.hoServer
      t == IF closeFirst THEN disconnect([s EXCEPT !.connecting = TRUE, !.single = TRUE]) ELSE s
      i == NextSocket(t)
  IN  IF s.hoSocket # None THEN s
      ELSE IF entry = None \/ ~s.connected THEN [s EXCEPT !.hoServer = None]
      ELSE IF ~wantsIPv6Switch(s, s.connectedSocket) \/ s.socks[s.connectedSocket].server # entry
      THEN [s EXCEPT !.hoServer = None]
      ELSE [createServerSocket(t, i, entry, FALSE, "v6", FALSE) EXCEPT
              !.socks[i].fallback = FALSE, !.hoSocket = i, !.hoServer = entry,
              !.hoLoginSent = FALSE, !.hoCloseFirst = closeFirst]

(* Mutant of afterFailure: no pause and no retry after a fatal error. *)
afterFailureForGood(s, i, reason) ==
  CASE reason = "FatalError" -> stopConnectionTry(s)
    [] reason \in {"Error", "ServerDead", "ServerFull"} /\ s.connecting ->
         IF s.single THEN retryWithoutObfuscation(s, s.socks[i].server)
         ELSE tryAnotherConnectionRequest([s EXCEPT !.attempts = Kept(@, SocketIds \ {i})])
    [] OTHER -> s

(* The second switch of connectionFailed(): what a failed attempt leads to. *)
afterFailure(s, i, reason) ==
  LET server == s.socks[i].server
      autoretry == m_config.reconnect /\ s.connecting /\ ~s.single
      t == stopConnectionTry(s)
  IN  CASE reason = "FatalError" ->
             IF autoretry THEN [t EXCEPT !.retry = TRUE, !.startPos = server % NumServers] ELSE t
        [] reason \in {"Error", "ServerDead", "ServerFull"} /\ s.connecting ->
             IF s.single THEN retryWithoutObfuscation(s, server)
             ELSE tryAnotherConnectionRequest([s EXCEPT !.attempts = Kept(@, SocketIds \ {i})])
        [] OTHER -> s

connectionFailed(s, i, reason) ==
  LET lost == s.connected /\ i = s.connectedSocket
      other == ~lost /\ reason \in {"ServerDead", "FatalError"} /\ HasOtherFamily(s, i)
      t == IF reason = "ServerDead" /\ ~other THEN countFailure(s, s.socks[i].server) ELSE s
      u == destroySocket(afterFailure(t, i, reason), i)
      v == IF lost THEN [u EXCEPT !.clientID = "none"] ELSE u
  IN  IF i = s.hoSocket THEN failIPv6Handover(s, i, reason)
      ELSE IF ~s.connecting /\ ~lost THEN s
      ELSE IF lost /\ s.hoSocket # None /\ s.hoLoginSent
      THEN [destroySocket(s, i) EXCEPT !.connecting = TRUE, !.single = TRUE]
      ELSE IF other THEN dialOtherFamily(t, i, destroySocket(t, i))
      ELSE IF lost /\ reason = "Disconnected" /\ m_config.reconnect /\ ~v.connecting /\ ~v.hold
      THEN connectToAnyServer(v, 0)
      ELSE v

(* One attempt that timed out, of the copy checkForTimeout() walks; stop says that the
   rest of the copy is stale. *)
timeOut(a, i) ==
  LET s == a.s
      sock == s.socks[i]
      other == HasOtherFamily(s, i)
      unreachable == ~sock.tcp /\ (~sock.crypt \/ m_config.required)
      t == destroySocket(s, i)
      u == IF unreachable /\ ~other THEN countFailure(t, sock.server) ELSE t
  IN  IF a.stop THEN a
      ELSE IF other THEN [s |-> dialOtherFamily(s, i, t), stop |-> s.single]
      ELSE IF s.single THEN [s |-> retryWithoutObfuscation(u, sock.server), stop |-> TRUE]
      ELSE [s |-> tryAnotherConnectionRequest(u), stop |-> FALSE]

checkForTimeout(s, timedOut) ==
  LET t == IF s.connecting /\ ~s.single THEN tryAnotherConnectionRequest(s) ELSE s
      first == IF timedOut < 1 THEN [s |-> t, stop |-> FALSE]
               ELSE timeOut([s |-> t, stop |-> FALSE], t.attempts[1])
  IN  IF timedOut < 2 THEN first.s ELSE timeOut(first, t.attempts[2]).s

-----------------------------------------------------------------------------
(***************************************************************************)
(* The events.                                                             *)
(***************************************************************************)
Becomes(s) ==
  /\ sc' = [s EXCEPT !.gone = {}] /\ UNCHANGED m_config
  /\ handed' = (s.hoLoginSent \/ (handed /\ ~s.connected))

(* A user, the web interface or the start of the program asks for a connection. *)
UserConnectAny ==
  /\ wanted' = "auto" /\ UNCHANGED resume
  /\ Becomes(connectToAnyServer(sc, 0))

ConnectedOrConnectingTo(server) ==
  IF sc.connected THEN sc.socks[sc.connectedSocket].server = server
  ELSE /\ sc.connecting /\ sc.single
       /\ \E i \in Open(sc) : sc.socks[i].server = server

UserConnectTo(server) ==
  /\ ~ConnectedOrConnectingTo(server)
  /\ Becomes(connectToServer(sc, server, FALSE, FALSE, "first"))
  /\ wanted' = "single" /\ UNCHANGED resume

(* CoreOps::disconnectFromServer(). The pause after a fatal error and the socket of a handover
   outlive it. *)
UserDisconnect ==
  LET s == disconnect(IF sc.connecting THEN stopConnectionTry(sc) ELSE sc)
  IN  /\ Becomes(s)
      /\ wanted' = IF s.retry \/ s.hoSocket # None THEN "pending" ELSE "no"
      /\ UNCHANGED resume

(* CoreSession::onConnectionOfflineChanged(), both ways. *)
LineDown ==
  /\ ~sc.hold
  /\ resume' = (sc.connected \/ sc.connecting)
  /\ Becomes(disconnect(stopConnectionTry([sc EXCEPT !.hold = TRUE])))
  /\ UNCHANGED wanted

LineUp ==
  /\ sc.hold
  /\ LET s == [sc EXCEPT !.hold = FALSE]
         again == resume \/ (m_config.autoConnect /\ m_config.reconnect)
         reconnects == again /\ ~s.connected /\ ~s.connecting
     IN  /\ Becomes(IF reconnects THEN connectToAnyServer(s, 0) ELSE s)
         /\ wanted' = IF reconnects THEN "auto" ELSE wanted
  /\ resume' = FALSE

(* A handover that closes the session it replaces makes an automatic connection a connect to
   one server, until there is a session again. *)
Event(s) ==
  /\ Becomes(s) /\ UNCHANGED resume
  /\ wanted' = IF wanted = "auto" /\ s.single THEN "handover"
               ELSE IF wanted = "handover" /\ s.connected THEN "auto" ELSE wanted

(* TCP is up; a plain connection goes on to the login at once. *)
onSocketConnected(i) ==
  /\ sc.socks[i].state = "Connecting" /\ ~sc.socks[i].tcp
  /\ LET s == [sc EXCEPT !.socks[i].tcp = TRUE]
     IN  IF s.socks[i].crypt THEN Event(s)
         ELSE Event(connectionEstablished([s EXCEPT !.socks[i].state = "WaitForLogin"], i))

onEncryptionHandshakeComplete(i) ==
  /\ sc.socks[i].state = "Connecting" /\ sc.socks[i].tcp
  /\ Event(connectionEstablished([sc EXCEPT !.socks[i].state = "WaitForLogin"], i))

(* OP_IDCHANGE *)
loginAnswered(i, id) ==
  /\ \/ sc.socks[i].state = "WaitForLogin"
     \/ sc.socks[i].state = "Connected" /\ "newID" \in Anomalies
  /\ Event(onLoginReceived(sc, i, id))

(* What a socket reports when it fails, from stateForSocketError() and onSocketDisconnected(). *)
Reasons(state) ==
  CASE state = "Connecting" -> {"ServerDead", "FatalError", "Error"}
    [] state = "WaitForLogin" -> {"ServerFull", "ServerDead", "FatalError"}
    [] state = "Connected" ->
         {"Disconnected"} \cup (IF "lateFull" \in Anomalies THEN {"ServerFull"} ELSE {})
    [] OTHER -> {}

socketFailed(i, reason) ==
  /\ reason \in Reasons(sc.socks[i].state)
  /\ LET s == connectionFailed(sc, i, reason)
     IN  IF i = sc.connectedSocket /\ reason = "ServerFull"
         THEN Becomes(s) /\ wanted' = "refused" /\ UNCHANGED resume
         ELSE Event(s)

(* failMalformed(): a bad packet before the login is answered. *)
malformedPacket(i) ==
  /\ sc.socks[i].state = "WaitForLogin"
  /\ (IF sc.socks[i].manual THEN "garbledSingle" ELSE "garbledAuto") \in Anomalies
  /\ LET s == connectionFailed(sc, i, "Disconnected")
     IN  IF sc.socks[i].manual
         THEN Becomes(s) /\ wanted' = "stuck" /\ UNCHANGED resume
         ELSE Event(s)

(* The timer of the core, every second; attempts time out in the order they began. *)
onTimer(timedOut) ==
  /\ timedOut <= Len(sc.attempts)
  /\ Event(checkForTimeout(sc, timedOut))

onRetryTimer(s) ==
  LET t == stopConnectionTry(s)
  IN  IF t.connected \/ t.hold THEN t ELSE connectToAnyServer(t, t.startPos)

retryTimer == sc.retry /\ Event(onRetryTimer(sc))

handoverTimer ==
  /\ sc.hoSocket # None
  /\ Event(failIPv6Handover(sc, sc.hoSocket, "Timeout"))

deferredHandover(call) ==
  /\ call \in sc.posted
  /\ Event(startIPv6Handover([sc EXCEPT !.posted = @ \ {call}], call = "closeFirst"))

UserStep == UserConnectAny \/ (\E p \in Servers : UserConnectTo(p)) \/ UserDisconnect

SocketStep ==
  \E i \in SocketIds :
    \/ onSocketConnected(i) \/ onEncryptionHandshakeComplete(i)
    \/ \E id \in {"low", "high"} : loginAnswered(i, id)
    \/ \E reason \in {"ServerDead", "FatalError", "Error", "ServerFull", "Disconnected"} :
         socketFailed(i, reason)
    \/ malformedPacket(i)

Next ==
  \/ UserStep \/ LineDown \/ LineUp \/ SocketStep
  \/ (\E n \in 0..2 : onTimer(n))
  \/ retryTimer \/ handoverTimer
  \/ (\E call \in {"beside", "closeFirst"} : deferredHandover(call))

(* Weak fairness of the timers: the second, the end of a pause, the time-out of an attempt.
   The predicates say where such a step changes the state, which is what WF_vars() asks,
   and are far cheaper to evaluate than ENABLED. Without a pass over the list the second
   changes nothing. *)
Changes(s) == [s EXCEPT !.gone = {}] # sc
InPass == sc.connecting /\ ~sc.single
Fairness ==
  /\ []<>(~(InPass /\ Changes(checkForTimeout(sc, 0)))) \/ []<><<InPass /\ onTimer(0)>>_vars
  /\ []<>(~(sc.retry /\ Changes(onRetryTimer(sc)))) \/ []<><<retryTimer>>_vars
  /\ []<>(sc.attempts = << >>) \/ []<><<\E n \in 1..2 : onTimer(n)>>_vars

Spec == Init /\ [][Next]_vars /\ Fairness

-----------------------------------------------------------------------------
(* The types of the members. *)
TypeOK ==
  /\ m_config \in Configs /\ resume \in BOOLEAN /\ wanted \in Wishes /\ handed \in BOOLEAN
  /\ {sc.connecting, sc.single, sc.connected, sc.retry, sc.tryObf, sc.hold,
      sc.hoLoginSent, sc.hoCloseFirst} \subseteq BOOLEAN
  /\ {sc.connectedSocket, sc.hoSocket} \subseteq SocketIds \cup {None}
  /\ sc.attempts \in Seq(SocketIds) /\ Len(sc.attempts) <= MaxSimCons
  /\ \A i \in SocketIds :
       sc.socks[i].state \in {"none", "Connecting", "WaitForLogin", "Connected"}
  /\ sc.gone = {} /\ sc.posted \subseteq {"beside", "closeFirst"}
  /\ sc.startPos \in 0..(NumServers - 1) /\ sc.pos \in 0..NumServers /\ sc.smart \in 0..2
  /\ sc.clientID \in {"none", "low", "high"} /\ sc.hoServer \in Servers \cup {None}
  /\ sc.triedCrypt \cup sc.switchFailed \subseteq Servers
  /\ sc.failed \in [Servers -> 0..DeadRetries]

(* No member points at a deleted socket: the live one, the handover's and the attempts
   checkForTimeout() walks are open (the comments in connectToServer() and
   destroySocket()). *)
NoDanglingSocket ==
  /\ ToSet(sc.attempts) \subseteq Open(sc)
  /\ sc.hoSocket # None => sc.hoSocket \in Open(sc)
  /\ sc.connected = (sc.connectedSocket # None)
  /\ sc.connected => sc.connectedSocket \in Open(sc)

(* Every open socket is the live one, the handover's or a registered attempt of a connect
   under way: no other would ever be timed out or closed. *)
NoStraySocket ==
  /\ Open(sc) \subseteq ToSet(sc.attempts) \cup {sc.connectedSocket, sc.hoSocket}
  /\ sc.attempts # << >> => sc.connecting /\ ~sc.connected

(* Only one session is logged in. *)
OneSession ==
  \A i \in Open(sc) : sc.socks[i].state = "Connected" <=> i = sc.connectedSocket

(* No server is dialled by two attempts at once. *)
NoDoubleDial ==
  \A m, n \in DOMAIN sc.attempts :
    m # n => sc.socks[sc.attempts[m]].server # sc.socks[sc.attempts[n]].server

(* Where obfuscation is required no server that has it is dialled without, whatever failed
   before. *)
RequiredIsObfuscated ==
  m_config.required =>
    \A i \in Open(sc) : sc.socks[i].server \in Obfuscating => sc.socks[i].crypt

(* Every open socket has one role, every role one open socket, and none is plain where it may
   not be. *)
SocketRoles == NoDanglingSocket /\ NoStraySocket /\ OneSession /\ NoDoubleDial /\ RequiredIsObfuscated

(* A single connect under way is a socket that can still succeed, fail or time out. It does not
   hold: a malformed packet closes the socket and leaves the connect under way. *)
SingleConnectIsAlive ==
  sc.connecting /\ sc.single => sc.attempts # << >> \/ sc.hoSocket # None

(* The same, but for that packet. *)
SingleConnectEnds == wanted # "stuck" => SingleConnectIsAlive

(* A client that is neither connected nor connecting asserts no client ID. It does not hold:
   the session that ends under a handover leaves its ID behind. *)
LoggedOutHasNoID == ~sc.connected /\ ~sc.connecting => sc.clientID = "none"

(* The client ID is the live server's, and goes with it (clearServerIdentity()): but for a
   session that ended while the handover was logging in, and for a live session that the smart
   check gives up because of a second ID. *)
IdentityIsCurrent ==
  sc.clientID # "none" => sc.connected \/ handed \/ (m_config.smart /\ "newID" \in Anomalies)

(* After the user disconnected nothing connects by itself. It does not hold: a pause and a
   handover outlive the disconnect. *)
DisconnectStays == wanted \in {"no", "pending"} => ~sc.connected /\ ~sc.connecting

(* The same when neither was left by the disconnect. *)
DisconnectHolds == wanted = "no" => ~sc.connected /\ ~sc.connecting

(* An automatic connection the user asked for is up, being made, or due to be tried again,
   with the preferences that ask for it and servers they let it dial: until a handover that
   closed the session fails with what follows it, or the server refuses the live session. *)
AutoConnectGoesOn ==
  wanted = "auto" /\ m_config.reconnect /\ m_config.autoConnect /\ ~NothingStatic
    => sc.connected \/ sc.connecting \/ sc.retry \/ sc.hold

(* The connection is what the user asked for, whatever the preferences: connecting is never a
   state that nothing ends, and what ends a session ends all of it. *)
ConnectionIsAsWanted ==
  SingleConnectEnds /\ AutoConnectGoesOn /\ IdentityIsCurrent /\ DisconnectHolds

(* An automatic connect that goes on reaches every server it may dial, pass after pass,
   unless the user keeps starting it over: one that is not disabled and, where obfuscation
   is required, offers it. *)
KeepsDialling ==
  (<>[][~UserConnectAny]_vars) =>
    \A p \in Static :
      sc.connecting /\ ~sc.single /\ (m_config.required => p \in Obfuscating)
        ~> ~sc.connecting \/ p \in Dialled(sc)
=============================================================================

# A TLA+ verification of emule-qt's transfer core

emule-qt is a Qt port of the eMule peer-to-peer client: a core library
(`src/src/core`), a daemon and a GUI that talk over IPC, and add-on modules
(Usenet, BitTorrent, ed3k). This project models the part of it that must never
lose or invent a byte: how received blocks get from memory to the `.part` file,
how parts are verified, how a download is completed and moved, and how all of
this survives failing volumes, crashes, cancels and restarts; and, on the other
side, how blocks that a peer asks for are read and sent while files move, slots end
and connections are replaced. Between the sources and the file stands the list of
reserved blocks, which decides who fetches what. Below that lie the two threads that share a peer's
socket, and the throttler that decides when which socket may send; next to it the
connection to an ed2k server, which many preferences and timers pull at.

Paths below are relative to the repository; `src/core/...` is `src/src/core/...`
in `PROJECT.json`.

## 1. Inventory

| Component | State it keeps | Operations | Talks to | What is hard | What makes it correct |
|---|---|---|---|---|---|
| Disk-write worker (`core/files/PartFileWriteThread`) | job queue, running token, results, owners, stop flag | enqueue, waitFor, takeResult, requestStop, run, onJobDone | part files on the main thread, by mutex, two condition variables and a queued Qt signal | a synchronous wait racing the event, objects dying, shutdown | no lost job or wake-up, each result delivered once, no call into a dead object |
| Part file (`core/files/PartFile`) | gap list, write buffer, bytes with the worker, changed/corrupted/awaiting parts, status with its pause overlays, `.part`, `.part.met` | writeToBuffer, flushBuffer(Async), applyFlushResult, verifyChangedParts, completeFile, pause/resume/stop, save/load | worker, mover thread, rehash worker, queue, sources | two writers of one file, verdicts that are stale when used, failures half-way, crash at any step | the gap list and the saved gap list never call a hole data; only verified files are delivered; nothing hangs |
| Download queue (`core/transfer/DownloadQueue`) | list of part files, free space per volume, source bookkeeping | init, cancelFile, checkDiskspace, reserveForWrite, process | part files, server and Kad | deleting files other objects point at, disk space sweeps | cancelled files are gone; space-paused files come back |
| Import of parts (`core/transfer/ImportParts`, `daemon/IpcClientHandler`) | running imports by hash | start, step, stop | part file, past its buffer | writes next to the worker's | never overwrites received data |
| Shared files (`core/files/SharedFileList`) | share map, hashing workers | rehash of changed part files, scans, publishing | part files, known files, server | results for objects that are gone | stale results are dropped by token |
| Clients (`core/client`) | download and upload state machines, pending blocks, credits, black box | packet handlers, timeouts, source swapping (A4AF) | sockets, queues, part files | late answers, re-asked requests, objects deleted in callbacks | one requester per reserved block, no double slot |
| Upload side (`core/transfer/UploadQueue`, `UploadDiskIOThread`) | waiting list, slots, reader cache | slot management, block reads | clients, sockets, the reader thread | lost wake-ups, readers of moved files, results for dead clients | every thread ends; a result is matched with a pending request |
| Throttler (`core/transfer/UploadBandwidthThrottler`) | ordered slots, two control queues, flags of two condition variables, round-robin positions | queue, remove, wake, wait, control pass, slot passes, end | sockets and queues of the main thread, under two mutexes | lost wake-ups, sockets deleted under the loop, one kind of traffic starving another | no sleep with work left, only live sockets, everything queued is sent |
| Peer sockets (`core/net/EMSocket`) | control and file queues, the send buffer, Qt's buffer, cipher state, busy flags | send from the owner, send from the throttler, retries, overflow, disconnect | throttler, kernel, Qt's event loop | two threads send on one descriptor by two routes, partial sends, close under the sender | bytes leave in the order they were encrypted; nothing waits for ever; no freed buffer is sent |
| Server connection (`core/server/ServerConnect`) | attempts with their order, retry timer, connected socket, handover to IPv6, client ID | connect, time out, retry, fall back to plain, hand over, disconnect, line down and up | sockets, server list | parallel attempts and late logins, sockets deleted in callbacks, two sessions during a handover | one session, no stray or dangling socket, the ID is the live server's, automatic connecting goes on |
| NAT traversal, QUIC (`core/net/natt`, `core/net/quic`) | rendezvous tables | hole punching over lossy datagrams | Kad, servers, enodes | lost and repeated datagrams | bounded retries |
| Kademlia (`core/kademlia`) | routing zones, searches, indexes | lookups, publishing, bootstrap | UDP socket | timeouts and late answers | lookups end |
| Block requests (`core/client/DownloadClient`, `core/client/URLClient`, `core/files/PartFile`) | list of reserved blocks, pending blocks of each source, abandoned ranges, counts of unmatched data | choose, reserve, ask, receive, give back, time out, swap | peers, web servers, HTTP cache, flush | plain pointers on a list with many owners, a write that pauses the file under its caller, sources waiting for a verdict | every listed block has one live owner, two holders at most, no honest peer blamed for packets in time, the download ends |
| HTTP cache (`core/httpcache`) | offers, strikes, fetches | publish, fetch, report | part files, HTTP servers | chunks for files that changed state | bad chunks are retired |
| IPC (`src/ipc`, `src/daemon`) | connections, pushes, deferred requests | commands, pushes | GUI, core | reconnects, answers after disconnect | every request is answered once |
| Usenet (`src/usenet`), BitTorrent, ed3k | queues, pools | article fetch, joins | servers | connection limits | pool never exceeds its limit |

Further parts (search, IP filter, friends, chat, web server, preferences,
statistics, media, archive, geo, GUI, indexer, updater, MCP bridge) keep tables or
format data; `PROJECT.json` lists them with the reason they are left out.

## 2. Modules

| Module | Models | Kind |
|---|---|---|
| `WriteJobs` | what the disk-write worker promises: jobs in order, each result taken once | abstract specification |
| `PartFileWriteThread` | the worker, the main thread's three ways to use it, destruction of files and shutdown | component |
| `PartFileWriteThread_proofs` | theorems about it | proofs |
| `Lists` | a list filtered in place, and a loop, as functions that proofs can unfold | helper |
| `InductionLemmas` | induction over the natural numbers, and what it gives about lists and loops | proofs |
| `PartFile` | one download with its worker, mover and rehash threads, its volume, its user and its sources | component and composition |
| `PartFile_proofs` | theorems about it | proofs |
| `UploadDiskIOThread` | the disk-read worker, its reader cache and paths on hold, and how the main thread uses and ends it | component |
| `UploadDiskIOThread_proofs` | theorems about it | proofs |
| `UploadBlocks` | a peer's block requests through slot, disk reads and socket | component and composition |
| `UploadBlocks_proofs` | theorems about it | proofs |
| `UploadBandwidthThrottler` | the throttler's loop against the main thread's queueing, socket deletion and shutdown | component |
| `UploadBandwidthThrottler_proofs` | theorems about it | proofs |
| `EMSocket` | one connection, sent on by its owner through Qt and by the throttler directly | component |
| `EMSocket_proofs` | theorems about it | proofs |
| `ServerConnect` | connecting to ed2k servers: single and automatic connects, time-outs, obfuscation, IPv6 handover | component |
| `ServerConnect_proofs` | theorems about it | proofs |
| `BlockRequests` | the sources of one download and its list of reserved blocks | component and composition |
| `MC...` | constants for TLC, one per component | instances |

### PartFileWriteThread

One action is one critical section of `m_mutex`, or code between two of them that
no other thread can observe half-way. The main thread is `loop` (in its event
loop), `waitFor` (holding the mutex, about to test), `m_done` (asleep in
`m_done.wait`), `join` (in `~PartFileWriteThread`) or `gone`; the worker is
`check`, `asleep`, `executing`, `emitting` or `returned`. Sleeping releases the
mutex in the same step, as a condition variable does; a wake-up puts a thread back
to its test. `m_queue`, `m_runningToken`, `m_results`, `m_owners` and
`m_stopRequested` are the members of the class, `posted` is Qt's event queue,
`m_flushToken` and `life` belong to the part files. A job is its token; what it
writes is `PartFile`'s concern. When a result is applied the file may hand over its
next job in the same call (`applyFlushResult` calling `flushBufferAsync`).

### PartFile

The file is a set of blocks grouped into parts. A block on disk is `none`, `good`,
`bad` or `torn` (a write of it failed half-way); a part's hash matches iff all its
blocks are good, and a hash may also be unreadable. The download is one record `f`,
and the member functions are operators from record to record, so that the model
calls them in the order and with the early returns of the code:
`WriteToBuffer`, `FlushBufferAsync`, `ApplyFlushResult`, `FinishPendingFlush`,
`FlushBuffer`, `VerifyChangedParts`, `CompleteIfVerified`, `CompleteFile`,
`PauseFile`, `ResumeFile`, `StopFile`, `HandleWriteFailure`, `HashsetReceived`,
`AichRecoveryDataAvailable`, `ApplyRehashResult`, `SavePartFile`, `LoadPartFile`.
The actions are the calls of the outside world: a block from a source or from the
HTTP cache, a hashset, recovery data, the timers, the user, the queued signals of
the three threads, the steps of the threads themselves, the volume failing and
recovering, quitting, crashing, starting again.

Choices of abstraction, all in one place:

* `stopFile()` always pauses and `resumeFile()` clears both, so `m_stopped` is not
  kept apart from `m_paused`; `m_writeError` is `statusBeforeWriteError # "none"`;
  `m_completionRunning` is `mover # "none"`.
* MD4 and AICH verdicts are one verdict; recovery data that is already in memory is
  recovery data that arrives at once; a wrong file size and pause-on-preview are
  left out.
* A synchronous write is one step with an outcome chosen from what can fail
  (`Environment.at` is the block it stops at); the worker's write is one step per
  block, so that crashes and other actions fall between its blocks.
* The wait in `finishPendingFlush()` is the guard `CanCollect`: the call happens
  when the worker is done. That the wait ends and never finds the job missing is
  what `NobodyWaitsForever` and `NoJobLost` of `PartFileWriteThread` show.
* Every write changes the date of the `.part` (`stampOk`); the code compares whole
  seconds, so a write within the second of the last save would go unnoticed.
* The free-space check is on, with a floor. A volume is `ok`, `short` (below the
  floor), `full`, `error` or `unreadable`.
* Cancelling a Complete file, which deletes the finished file, is not modelled.

### UploadDiskIOThread

One action is one critical section of `m_mutex` or `m_readerMutex`. The worker is
`top` (loop condition), `check` (testing `ready()`), `parking` (test failed, mutex
still held, not yet waiting), `waiting`, `reading` or `returned`. `parking` is a
state of its own because `endThread()` stores `m_run` and notifies without the
mutex, so it can fall just there; `queueBlockRead()` takes the mutex and cannot. The
main thread is in its event loop, between a call's unlock and its notification,
between `releaseFile()` and the rename or delete it was called for, or in
`endThread()`. Time is two nondeterministic actions: a reader has been unused for
`m_idleCloseMs` (`ReaderIdle`), and a hold of `kReleaseHoldMs` runs out
(`HoldExpires`), which is assumed to be longer than a rename. Read-ahead is left
out: it lives and dies with its reader. A worker that sleeps while the main thread
waits for its end is a real deadlock of the code (`UploadEndThread.cfg`), so this instance does
not check for deadlock.

### UploadBlocks

`cl` holds the clients as records: the slot, the socket (`none`, `dialling`,
`open`) with its send queue and the payload it has sent since the last tick, the
lists `m_blockRequests`, `m_doneBlocks`, `m_unconfirmedSends` and the counters
`m_blockReadBytesQueued`, `m_addedPayloadQueueSession` (`added`) and
`m_curQueueSessionPayloadUp` (`sent`). `out` is history: the blocks of this slot
that have left the socket. `file` holds, per file, whether it is shared, the path
the code has for it, where it really is, whether reads are on hold while it moves,
and which blocks are good on disk. `reads` and `posted` are the worker's queue and
its queued events. Functions of `UpDownClient` are operators from record to record,
as in `PartFile`; the actions are the handlers and timers that call them. A block is
one packet, one unit of payload and one part, so the repeat-chunk guard counts
blocks. The slot's limit is a constant; the code computes it from the upload rate.

### UploadBandwidthThrottler

A step is one critical section of `m_sendMutex`, `m_tempQueueMutex` or the wake mutex,
one socket of the control queue served, or the three passes over the slots (trickle,
equal, surplus), which the code makes under `m_sendMutex`. The main thread is in its
event loop or between two critical sections of a call (`queue`, `signal`,
`socketAvailable`, `notify`, `endNotify`, `join`); the loop is `top`, `scan`,
`predicate` (in `wait_for`, mutex held), `waiting`, `check`, `control`, `slots` or
`ended`. Rates and byte counts are abstracted to a budget of packets that every
round may be anything up to `MaxBudget`, zero included; which slots have sent
nothing for a second is chosen freely too. Left out: the statistics counters,
`m_highestNumberOfFullyActivatedSlots`, and `pause()`, which only tests call.

### EMSocket

A packet is `PacketLen` fragments. `q` holds the two queues, the send buffer with how
much of it is sent, and what the peer is to receive: `expect` are the fragments in the
order they were encrypted, `cut` says that one was written out of this order. The
owner's thread writes to Qt's buffer, which the event loop flushes; the throttler,
under `m_sendLock`, calls `::send` on the descriptor itself. The owner is `idle` or
inside `send`, `retry`, `ready` (the handshake is done), `written` (a flush inside
`onBytesWritten`), `closed`, `clear` or `free`, the steps of a disconnect; the throttler is `idle`,
`sending`, `writing` (descriptor looked up, `::send` still to come) or `walking`
(`isEnoughFileDataQueued`, without the lock). Left out: the QUIC transport,
statistics, reading and parsing, the handshake's bytes, and kernel errors other than
a full or a closed socket.

### ServerConnect

All of this runs on the main thread, so an action is one event (a timer, a socket's
signal, a queued call, a command of the user, the line going down) with every call
it leads to, and the member functions are operators from the record `sc` to a record,
as in `PartFile`: `connectToServer`, `tryAnotherConnectionRequest`,
`connectionEstablished`, `connectionFailed`, `checkForTimeout`, `stopConnectionTry`,
`disconnect`, the handover. Sockets deleted within an event are kept apart until its
end, as `deleteLater()` does. The preferences are one record that is fixed for a behaviour.
Two history variables are no members: `wanted`, what was asked for last and the exceptional
end it came to (`Wishes`), and `handed`, whether a handover has logged in beside the session.
Left out: DNS, changes of the server list and its sorting, the check that outbound
connections are allowed, the keepalive. Servers that misbehave are the constant
`Anomalies`: a malformed packet (`garbledAuto`, `garbledSingle`), a refusal after the
login (`lateFull`), and a second `OP_IDCHANGE` on a live session (`newID`). A socket's
number is free again when the event that deleted it has ended; five numbers are
enough, which is proved.

Five things were noticed on the way that no comment speaks about: a user's disconnect
while the line is down leaves `m_offlineResumeEd2k` set; a line that goes down while a
retry is pending forgets the retry; a live session that is given a LowID is left
without clearing the identity; where obfuscation is required, a server without
it is still dialled once on its plain port; and where it is required, the smart LowID
check and the preference for IPv6 are both on, a server that gives a new, low ID to a
session that was handed over makes the bounce dial on with `m_tryObfuscated` unset,
so plain: no automatic pass has set it for that session.

### BlockRequests

`list` is `m_requestedBlocks`, a list of pointers; `blk` are the block objects alive,
so a pointer that is on the list and not in `blk` dangles. `src` are the sources: a
peer's or web server's download state, its `m_pendingBlocks` (`pend`), what is on its
way from it (`wire`), its abandoned ranges in the order they were given up and its count of
unmatched packets; `overdue` is history, not a member: a range was forgotten before the rest
of it had come. `cache` is one fetch of an `HttpCacheClient`. Gap list, buffer, bytes with the worker, changed and
corrupted parts are those of `PartFile`, with the flush reduced to its outcomes: on
disk and judged, or failed and put back.

The handlers call one another and some of their decisions depend on ranks, rates and
clocks, so each is an operator from a state to the set of states it may leave:
`CreateBlockRequests`, `GetNextRequestedBlock`, `SendBlockRequests` (`AskPeer`,
`AskWeb`), `ReserveHttpRange`, `ProcessBlockPacket`, `WriteHttpData`, `SetDownloadState`,
`Disconnected`, `PauseFile`, `ResumeIdleSources`, `WriteToBuffer`, `ApplyFlushResult`.
The actions are a packet, a range forgotten, a slot given or declined, a timeout, a lost
connection, a swap, the steps of a web server (redirections are among its mishaps) and of a
cache fetch, the user's pause, stop and resume, the flush timer and the worker's result. A handler that touches a block that was freed under it is noted
in `stale`, and the model goes no further: nothing can be said of such a program.

A cell is what one packet carries. The rank of the parts is any order; a holder may be
slow at any time of the late phase; the tiers of the download rate are `Counts`. A rogue
peer sends any cell, whether asked or not, data past the end of a block, or a stream that
does not inflate. `kUnmatchedWindowMs` (15 s) may run out for the count of unmatched packets
at any packet, and for the oldest abandoned range at any time. Late and Endgame are one phase.

Left out: AICH recovery, which also takes blocks off the list by range; the start in the
second half of a stretch longer than two parts and the length of a range by rate in
`getNextHttpRange()`; preview ranks; the ledger of fruitless sessions and its cool-down;
the exchange of file requests before a slot is given (`Join`, `Reask`); what happens to
the sources an hour after a pause.

## 3. Runs and bounds

| Run | Instance | Checks |
|---|---|---|
| `write_thread` | 2 files, 4 jobs | `TypeOK`, `NoDanglingOwner`, `NoJobLost`, `NobodyWaitsForever`, `ImplementsWriteJobs` |
| `part_file` | 2 blocks in 1 part, 1 bad block, 1 fault, 1 crash or quit | `TypeOK`, `ServeSafe`, `MetSafe`, `CompletesWhole`, `ErrorIsResumable`, `JudgedWhenWritable` |
| `part_file_parts` | 3 blocks in 2 parts, 1 bad block, 1 import, 1 crash or quit | `VerdictsAreTrue` |
| `part_file_live` | 2 blocks, 1 fault, with fairness | `LastBytesLand` |
| `upload_disk` | 2 clients, a complete and a part file, 2 queued requests | `TypeOK`, `ReadersAreCurrent`, `SleeperIsNotified`, `RequestsAreRead` |
| `upload_blocks` | 1 client, 2 blocks of 1 file, 2 slots, 1 replaced socket, 1 fault, 1 bad part | `TypeOK`, `BlockListsAgree` |
| `upload_slot` | 1 client, 1 block of each of 2 files, 1 slot, a buffer of 2 blocks, with fairness | `SlotAccountsAreTrue`, `ReadsAreSound`, `AcceptedIsServed` |
| `throttler` | 1 upload socket, 1 client and 1 server UDP socket, 1 packet each, with fairness | `TypeOK`, `NoWorkStranded`, `OnlyLiveSockets`, `EverySocketIsServed` |
| `em_socket` | 3 packets of 2 fragments, queues of 2, a kernel buffer of 2 fragments, with fairness | `TypeOK`, `StreamIntact`, `SenderKeepsBuffer`, `QueuedLeaves` |
| `server_connect` | a plain server and a static dual-stack one with obfuscation, 4 sets of preferences, with fairness | `TypeOK`, `SocketRoles`, `ConnectionIsAsWanted`, `KeepsDialling` |
| `block_requests` | an honest peer, a rogue peer, a web server and the cache on one block of 2 cells, 1 mishap, with fairness | `TypeOK`, `ReservationsAreOwned`, `AtMostTwoHolders`, `HonestAreNotBlamed`, `IdleAwaitsVerdict`, `DownloadEnds` |
| `block_cache` | the same, with a stop during a fetch | `CacheReservationIsReturned`, violated (see below) |

Two files and four jobs let a file have its second job out while the first one's
event is still queued and another file waits; more files only add symmetric copies.
Two blocks in one part are the smallest file in which one block is with the worker
while the other arrives, and in which a part is half written; three blocks in two
parts add a part that is finished next to one that is not. One bad block suffices
for every verdict, since the next copy of it is good. One fault is one period of
misbehaviour of the volume, of any kind, beginning and ending anywhere. After one
crash, quit or cancel the file is loaded and lives on without a further one. The
buffer limit of one block makes both ways into `flushBufferAsync` (limit exceeded,
timer) happen.

On the upload side clients share only the worker, whose requests are carried out one
by one, so one client with two blocks shows every order of requests, reads and
results; two slots let results of the first arrive in the second. `upload_slot`
leaves replaced sockets, second slots and bad parts out on purpose: with them the
statements of the first two are false (see below), and the run shows that nothing else
breaks them. Its buffer of two blocks lets one block be sent while another is
queued, and is full when a third request comes.

One throttled socket of each kind is enough for the wake-ups, since every queue knows
only entries and flags, and for starvation of one kind by another; slots against
slots share a round-robin position that one slot does not exercise. Three packets of two fragments
let a control packet come while a file packet is half sent and a third overflow the
queue; a kernel that takes two makes every send partial somewhere. Two servers are
the two parallel attempts (`MaxSimCons`) there can be; one has every feature the code
branches on and is never disabled, the other none. The four sets of preferences of
`MCServerConnect` are the shipped ones, which switch on nearly all branches, and three that
switch on the others. The run has one anomaly, a malformed packet in a pass.
`ServerConnectAll.cfg`, to be run by hand (2,064,008 states, five minutes), checks the
invariants with six sets and every anomaly: the malformed packet of a single connect, the
late refusal and the second `OP_IDCHANGE`, too.

`block_requests` is the end of a download, where all its hard cases are: one block that
three sources and the cache want, in two cells so that one of them can be written by
somebody else while the other is on its way. A mishap is a lost or moved source, a bad
part, a failed or refused write, a cache fetch, or a command of the user; one of them, with
everything a rogue peer sends besides, already makes 378,512 states. `BlockRequestsWide.cfg`,
to be run by hand (2,166,803 states, ten minutes), checks the same invariants on two parts
and two honest peers, with two block counts and the short reservations of a slow source.
Neither checks for deadlock: a file that has completed has nothing more to do.

### What the passing runs show

Some of the properties above are conjunctions of statements that belong together; the
statements are named here, with the property in brackets.

* **NoDanglingOwner**, **NoLostWrite**, **ResultAnnounced**, **StopDropsNothing** (the
  last three: `NoJobLost`): however the event and the synchronous wait race, each
  job's result reaches the file that waits for it, a live one.
* **WaitForReturns**, **EveryWriteCollected**, **StopEnds** (`NobodyWaitsForever`): no
  wake-up is lost, and quitting ends.
* **ServeSafe**: outside the buffers, what the gap list calls present is on disk.
  Failed writes, on the worker or inline, go back to the buffer and win over newer
  copies of the same block. After an unclean end this is promised only for complete
  parts of a file with a hashset: a rehash has no verdict on a half-downloaded part.
* **MetSafe**: at every step, so at every possible crash, the saved `.part.met`
  calls nothing present that is not on disk, unless the date of the `.part` gives
  the difference away.
* **CompletingIsWritten**, **Delivered** (`CompletesWhole`): the mover is only started on a file that
  is wholly on disk, and with a hashset only good files are delivered, damage
  between verification and move included.
* **ErrorIsResumable**: no sequence of failures ends in an Error that
  `resumeFile()` cannot clear.
* **DigestFresh**, **UnverifiedFlagged** (`VerdictsAreTrue`): the digest computed on the worker may be
  used later without a new read; a late hashset leaves no part unchecked.
* **LastBytesLand**: the last bytes do not stay in memory.
* **ReadersExist**, **ReleasedIsClosed** (`ReadersAreCurrent`): no reader stays open on a file that was
  renamed or deleted, although reads of it may still be queued, or be carried out
  between `releaseFile()` and the rename.
* **SleeperIsNotified**, **RequestsAreRead**: notifying outside the lock loses no
  request.
* **BytesQueuedExact**, **MarkedIsBeingRead**, **NoBlockTwice** (`BlockListsAgree`): the
  counter that
  `startBlockReads()` holds against its limit is exact, a block marked as being read
  is being read, and no block is listed twice, whatever late results and errors of
  earlier slots arrive.
* **PayloadIsBuffered**, **DuplicateIsInFlight**, **ConfirmedIsOut**
  (`SlotAccountsAreTrue`), **MovedIsNoError**, **NoGapServed**
  (`ReadsAreSound`): within one slot on one connection, what the slot counts as
  buffered, done and delivered is true, a file that moves costs nobody the slot, and no
  gap is sent as long as no part fails its check between request and read.
* **JudgedWhenWritable**: on a volume that takes writes, a part that is found bad and
  made a gap has none of its blocks in memory or with the worker.
* **SleeperHasNoWork**, **QueuedHasEntry** (`NoWorkStranded`): the throttler's long wait, which only a
  notification ends, never begins or goes on while something is queued, although
  producers set their flags under other mutexes than the one it waits with.
* **OnlyLiveSockets**: a deleted socket is in no list the loop walks.
* **ControlQueueDrains**, **DatagramsLeave**, **SlotsAreServed**
  (`EverySocketIsServed`): a socket that cannot
  send neither keeps the loop spinning for good nor starves the others.
* **StreamIntact**: although two threads write to one descriptor, one through Qt's
  buffer and one past it, what was encrypted first leaves first and no packet is cut.
* **SenderKeepsBuffer**: `clearQueues()` frees the send buffer without the lock, and
  yet never under the throttler's hands.
* **ControlLeaves**, **FileDataLeaves**, **OverflowCloses** (`QueuedLeaves`): no partial send is
  forgotten, and a queue that overflows ends the connection.
* **NoDanglingSocket**, **NoStraySocket**, **OneSession**, **NoDoubleDial**
  (`SocketRoles`): whatever
  succeeds, fails, times out or is handed over within one event, each open socket has
  exactly one role, and none is dialled twice or forgotten.
* **RequiredIsObfuscated** (`SocketRoles`): the fall-back to plain never applies where
  obfuscation is required. **KeepsDialling**: the servers are tried round and round.
* **SingleConnectEnds**, **AutoConnectGoesOn**, **IdentityIsCurrent**, **DisconnectHolds**
  (`ConnectionIsAsWanted`): with the shipped preferences as with the others, "connecting" has
  something that can end it, automatic connecting goes on, an ID is a live session's, a
  disconnect lasts. What the code gets wrong is named in each, and nothing else is excepted:
  a single connect that received a malformed packet; a handover that had closed the session
  and then failed, or a live session the server refused; a session that ended while its
  handover was logging in, or that was given up for a second ID; a pause or a handover that
  the disconnect left. For the first, the last, and the ID a handover leaves behind see the
  table below.
* **ReservationsAreOwned**: through pauses, timeouts, swaps, lost connections and failed
  writes, each pointer on the list of reserved blocks is to a live block with one owner, no
  block leaks, and a packet whose own write pauses the file does not touch the block that
  the pause has freed.
* **AtMostTwoHolders**: near the end a second source may take a block, and never a third.
* **HonestAreNotBlamed**: until a part is opened again, the late packets of blocks that
  were given up are not counted against the peer that sends them, in any session in which
  the rest of each such block comes within 15 s. Without either premise the statement is
  false, see below.
* **IdleAwaitsVerdict**: a peer in a transfer without blocks is waiting for the verdict on
  the last parts, which asks it again; none is forgotten.
* **DownloadEnds**: a download that is not left paused or stopped completes, provided the
  rogue is in the end given no more slots. That premise is needed: a packet for a block
  whose stream does not inflate counts as progress (`DownloadClient.cpp:1034`), so a peer
  that sends only such packets is never timed out and keeps its slot.
* **AcceptedIsServed**: a request does not wait for ever behind a full buffer or a
  file that is being moved.

### Where the code does less than it says

Twenty-four comments and tests promise more than the code does; each has a
configuration whose counterexample TLC finds. One is a run, and a finding in
`PROJECT.json` with the line quoted:

* `block_cache` (`BlockRequestsCache.cfg`): a stopped file drops a running cache fetch as
  a source (`DownloadQueue::removeSource()` sets its file to null); when the fetch then
  ends, `releaseReservation()` takes the file for gone and frees its blocks, which are
  still on the file's list of reserved blocks.

The others are kept as configurations to run by hand
(`tlc -config <cfg> MCPartFile`, `MCUploadDiskIOThread`, `MCUploadBlocks`,
`MCServerConnect`, `MCEMSocket` or `MCBlockRequests`; of two statements in one
configuration TLC reports the one it refutes first, and the other when that one is taken
out):

| Configuration | Statement | What happens |
|---|---|---|
| `PartFileFlush.cfg` | a cancelled file is gone | cancelling while a job is with the worker re-creates the `.part`, and the `.part.met` through the periodic save |
| `PartFileJudged.cfg` | a part is judged with all its blocks on disk | recovery data on a full volume judges a part without its unwritten blocks and makes all of it a gap |
| `PartFileImport.cfg` | a file without gaps completes | importing the last missing part completes the file only after a restart |
| `PartFileFlush.cfg` | PartFile.h:313 "on return nothing is in flight" | `flushBuffer()` may return with a new job out: the result it collects hands over the blocks that came meanwhile |
| `PartFileOverVerified.cfg` | PartFile.cpp:474 "never over verified data" | ICH takes a part back as verified while a received block of it waits to be written over it |
| `PartFileUnread.cfg` | PartFile.cpp:4166 "checked again on the next flush" | without gaps left, no flush comes |
| `PartFileBlessed.cfg` | PartFile.cpp:4768 "neither blessed nor condemned" | a part without a verdict is trusted after a restart |
| `PartFileWriteError.cfg` | PartFile.cpp:1633 "the buffer is still held" | stopping can write the buffer while the write error stays |
| `UploadEndThread.cfg` | tst_UploadDiskIOThread.cpp:44-45 "thread.endThread(); QVERIFY(!thread.isRunning());" | `endThread()` stores `m_run` and notifies without the mutex (UploadDiskIOThread.cpp:50); both can come while the worker is between its test and its wait, the wake-up is lost and `endThread()` waits for good |
| `UploadIdleReader.cfg` | UploadDiskIOThread.h:75 "A reader unused this long is closed." | not while other clients keep reading |
| `UploadLate.cfg` | UploadClient.cpp:1701 "every byte of it has left the socket" | bytes of the last slot still in the socket are credited to the next one, which confirms, and counts towards a ban, a block not yet sent |
| `UploadRehomed.cfg` | UpDownClient.h:453 "queued minus actually sent" | a replaced socket's packets stay counted as buffered |
| `UploadRehomed.cfg` | a duplicate is refused only while its first copy is under way | a block lost with a replaced socket stays on the done list, and is refused when the peer asks again |
| `UploadLate.cfg` | UploadQueue.cpp:150 "not an IO error" | the late read error of an earlier slot ends the new one |
| `UploadGap.cfg` | UploadClient.cpp:342 "must not serve a gap" | a part that becomes a gap between request and read is served |
| `ServerConnectShipped.cfg` (`DisconnectStays`) | CoreOps.cpp:483-491: a disconnect stays | the pause after a fatal error, or the socket of a handover, survives the user's disconnect and connects again |
| `ServerConnectGarbled.cfg` (`SingleConnectIsAlive`) | a connect under way can end | a malformed packet during a single connect closes its socket, and the state stays "connecting" |
| `ServerConnectShipped.cfg` (`LoggedOutHasNoID`) | ServerConnect.cpp:1202-1204 "with it gone they are no longer ours to assert" | a session that the server closes during the handover to IPv6 leaves its client ID behind when the handover and what follows it fail or are stopped |
| `BlockRequestsHttp.cfg` | PartFile.cpp:1261 "the block is still alive in the client's Pending_Block_Struct" | `writeHttpData()` uses the block after a write (DownloadClient.cpp:1254, 1258) that may have found the volume short of space, paused the file and freed it; `processBlockPacket()` tests for this (1132) |
| `BlockRequestsSlow.cfg` (`SlowAreNotBlamed`) | DownloadClient.cpp:1014-1015 "Packets still under way for a block we gave up are not held against the peer." | `isInAbandonedBlock()` forgets a range 15 s after it was given up (2099-2101), whatever is still to come of it: a peer that sends less than 12 KB/s needs longer for a block of 180 KB, and the rest of it is counted as data nobody asked for |
| `BlockRequestsBlamed.cfg` (`HonestAreNeverBlamed`) | DownloadClient.cpp:1014 "Packets still under way for a block we gave up are not held against the peer." | when the part is opened again and the same block asked for again, the late packet passes for the end of the new request, and the packets asked for are then unmatched |
| `EMSocketLock.cfg` | EMSocket.h:219 "guarded by m_sendLock like the queues" | `isEnoughFileDataQueued()` walks the standard queue on the throttler's thread without the lock |
| `EMSocketLock.cfg` | the throttler sends on its own connection | `close()` takes no lock and can fall between the look-up of the descriptor (EMSocket.cpp:737) and `::send` (750) |

### Fairness

`PartFileWriteThread!Fairness`: the operating system runs the worker, a thread that
was woken runs, Qt delivers posted events, `wait()` returns when the thread has
ended. Nothing obliges a user to flush or quit. `PartFile!Fairness`: the same for
the three threads and their queued signals, the timers tick (`Process`,
`CheckDiskspace`), and a misbehaving volume recovers at some time; without the last
one a download on a broken disk rightly stays where it is. Neither the sources nor
the user are assumed to do anything. `UploadDiskIOThread!Fairness`: the worker runs,
a timeout expires, the main thread finishes the call it is in.
`UploadBlocks!Fairness`: reads are carried out, events delivered, `process()` comes
round, a mover that has started ends, and an open connection takes data; a peer
that stops reading is dropped by the time-over disjunct of `process`, which no
fairness forces.
`UploadBandwidthThrottler!Fairness`: both threads run and the kernel drains; strongly,
because rounds with nothing to spend may come in between: over and over there is a
budget (the code adds up the time between two rounds), a slot passed over for seconds
is overdue, and a blocked socket is writable again. `EMSocket!Fairness`: the event
loop serves timers, deferred calls and writable sockets, the throttler's loop goes on,
the peer reads; strong for the owner, which competes for `m_sendLock` with a thread
that pauses a millisecond in every round. `ServerConnect!Fairness`: the time-out check,
the retry timer and the end of an attempt, each "over and over there is nothing to do,
or over and over it happens". Neither the user nor a server is assumed to do anything.
`BlockRequests!Fairness`, written the same way: honest peers give slots, send what they
were asked for and read a cancel; web servers answer; a source that sends nothing is timed
out; the flush timer runs, the worker answers, a cache fetch ends, and a file waiting for
disk space is resumed when there is some. Rogue peers and the user are free.

## 4. Proofs

`PartFileWriteThread_proofs` holds, for every set of files and every number of jobs:

* `Safety`: `TypeOK`, `NoDanglingOwner` and `NoJobLost` (`NoLostWrite`,
  `ResultAnnounced`, `StopDropsNothing`) hold in every reachable state.
* `Refinement`: the worker implements `WriteJobs!SafeSpec` under the mapping
  `StageMap` (a token above `serial` is unused, one queued or running is pending,
  one in `m_results` is done, any other is taken).

The assumptions are `FilesAssumption` (NoFile is not a file) and
`MaxTokenAssumption` (a natural number). The invariants are not inductive: that a
result found by `waitFor()` is the caller's own needs that every token in the queue,
running or in the results is some file's `m_flushToken` and no two files share one
(`JobHasOwner`), which needs tokens to be used in order (`InOrder`), events to be
older than what is queued (`EventsAreOld`), and each thread's place to agree with
its variables (`WorkerPlace`, `MainPlace`). `IInv` is their conjunction;
`InitIInv` and `NextIInv` show it inductive, one step per action, with `HandOver`
(a new job) and `TakeResult` (a result leaves) as the two lemmas the actions share.
The refinement follows step by step from `IInv` (`StepSimulates`).

`UploadDiskIOThread_proofs` holds, for any number of clients, paths and requests:

* `Safety`: `TypeOK`, `ReadersAreCurrent` (`ReadersExist`, `ReleasedIsClosed`) and
  `SleeperIsNotified` hold in every reachable state.

The assumptions are `PathsAssumption` (part paths are paths, NoPath is none) and
`MaxQueueAssumption`. `ReadersExist` is not inductive: when the rename comes, nothing
but the hold keeps the worker from having opened the path again, so `IInv` adds
`RenamingIsHeld` and uses `ReleasedIsClosed`. `SleeperIsNotified` is inductive
because a parking worker holds the mutex that `queueBlockRead()` needs.

`InductionLemmas` holds what the other proofs need about data. The library's induction
rule takes a predicate, which none of the provers can instantiate, so `NatInd` states it
of a set: one that holds 0 and the successor of each member holds every number (from the
library's least-element theorem). From it follow that a function defined by recursion on
the rounds of a loop exists (`RecursiveFunction`), that a loop stays in a set its body does
not leave (`RoundsIn`), and that a filtered list keeps the order, the types and exactly the
elements it should (`KeptFacts`, `ToSetKept`).

`EMSocket_proofs` holds, for any number and length of packets and any room in the buffers:

* `Safety`: `TypeOK`, `StreamIntact` and `SenderKeepsBuffer`.

The assumption is `EMAssumption` (the bounds are positive). `StreamIntact` needs to know
what the peer still has to get: what Qt's buffer holds, and after it the rest of the send
buffer (`StreamIs`); that a throttler about to write has seen Qt's buffer empty, which stays
so because the owner needs the lock to fill it; and that the byte count it looked at can
only be too high (`Stream`). `SenderKeepsBuffer` holds although `clearQueues()` takes no
lock: the owner sets the state to disconnected under the lock first, and a sender has found
it connected under the same lock (`Senders`).

`UploadBandwidthThrottler_proofs` holds, for any sets of sockets and any budgets:

* `Safety`: `TypeOK`, `NoWorkStranded` and `OnlyLiveSockets`.

The assumptions are `SocketsAssumption` and `BoundsAssumption`. The heart is `Waits`: a wait
entered for want of any work still has no work, or the flag is set, or the main thread is
between queueing and setting it; a wait with the flag set has its notification to come. That
a deleted socket is in no list needs that the main thread only deletes while the loop runs
or has ended, not while it is being ended. The three passes over the slots are loops over
a list of any length; `RoundsIn` shows that they keep the counters' types.

`PartFile_proofs` holds, for any finite set of blocks in any parts, any data from sources,
any faults, imports and crashes:

* `Safety`: `TypeOK`, `CompletesWhole` (`CompletingIsWritten`, `Delivered`) and
  `ErrorIsResumable` in every reachable state, through restarts.
* `FirstRunSafety`: `ServeSafe` and `MetSafe` until the program is started again, the
  state it is left in by the first crash or quit included.
* `VerdictsOnSoundVolume`: `VerdictsAreTrue` (`DigestFresh`, `UnverifiedFlagged`) until the
  volume first fails, through any number of crashes.
* `PartsAreJudgedOnDisk`: the action property `JudgedWhenWritable`, through any faults.

The assumptions are `BlocksAssumption` (finitely many blocks, each in a part), `FlagsAssumption` and
`BoundsAssumption`. The invariant is a predicate on the record of the download, `Sound`:
its types; `JobOK`, that a job with the worker has exactly the blocks in flight and that
those it has done are on disk; `Stages`, what completing, a failed completion, hashing and
a digest exclude (a running mover, for one, excludes gaps, unwritten data and parts without
a verdict); `Checks`, that verdicts which are still to be used are true of the disk. `Live`
adds that an error has a way out, `Present` that what the gap list and the saved `.part.met`
call present is whole on disk. For the last two theorems three more things are carried
along. `Clean`, until the first fault: no block is missing and unwritten at once, every
write landed and every read succeeded, a digest the worker took is still that of its part,
and a flagged part waits for more of it to be written, for nothing else. `Flagged`, in the
first run of the program: a complete part is good, flagged, or waits for a hashset. And
`Judges`, of a call: what it turns into gaps is all on disk, and it puts nothing new in
memory, so that two such calls in a row are one. Each member function has a lemma saying that it keeps
these, proved from the lemmas of the functions it calls; the actions then follow in a few
lines each, and the induction is over the actions only.

`FirstRunSafety` says "until the program is started again" because the stronger statement
is false for large enough bounds: with two faults, a rehash whose parts could not be read
leaves them trusted (the statement of `PartFileBlessed.cfg`), and a torn block may then be
called present. `VerdictsOnSoundVolume` says "until the volume first fails" because `Clean`
does not survive a fault: on a volume that takes no writes, recovery data makes gaps of a part
that is still in memory (the statement of `PartFileJudged.cfg`), and a failed write leaves
parts flagged with nothing to write. What becomes of the verdicts then is not proved, and
`part_file_parts` does not check it: it has no faults. `JudgedWhenWritable` needs neither limit.

`ServerConnect_proofs` holds, for any number of servers with any features and any sets of
preferences:

* `Safety`: `TypeOK`, `SocketRoles` (`NoDanglingSocket`, `NoStraySocket`, `OneSession`,
  `NoDoubleDial`, `RequiredIsObfuscated`) and `ConnectionIsAsWanted`
  (`SingleConnectEnds`, `AutoConnectGoesOn`, `IdentityIsCurrent`, `DisconnectHolds`).

The assumptions are `ListAssumption` and `ConfigAssumption`, and the hypothesis `Expected` of
the theorem: if servers send a second `OP_IDCHANGE` on a live session, the smart check and the
handover are not both on. It is needed for `RequiredIsObfuscated` (the last of the five things
noticed in section 2) and for the invariant, which has no attempts beside a handover. As the
shipped preferences have both on, the theorem covers them for servers that send one ID in a
session; with a second one they are only model-checked (`ServerConnectAll.cfg`). Malformed
packets and refusals at any time are within the theorem, with the exceptions that
`ConnectionIsAsWanted` names itself. The invariant `IInv` is again a predicate on the members,
with a lemma for each call. A state is `Settled` when it is `Sound` or `Stuck`. `Sound` is
`Session` (the live socket and the handover beside it, and a client ID that goes with the
session unless `Excused`), `Obfuscated`, `Registered` (the attempts), `NoStray` (no other
socket is open) and `Purposes` (what a connect under way and a handover need). `Stuck` is what
a malformed packet makes of a single connect: under way, with no socket open, so that nothing
of its own ends it; until a command of the user, the line or a pending pause does, `wanted`
says so. Within a call they
need not all hold, so the lemmas of the inner calls ask for `Session` alone or name the
socket `x` that the caller is about to close, as `connectionFailed()` does last. `Room`
counts the sockets an event may still open: between events at most two are open, and no
event opens more than three. `Going` and `Off` carry what was asked for: under automatic
connecting (`GoesOn`) something is always connected, being connected, or to come by the
retry timer or the end of the offline hold; after a disconnect that left nothing behind
nothing is. `Continues` says of each call that it keeps them.

`UploadBlocks_proofs` holds, for any sets of clients, files and blocks and any limits:

* `Safety`: `TypeOK` and `BlockListsAgree` (`BytesQueuedExact`, `MarkedIsBeingRead`,
  `NoBlockTwice`), through any number of slots, replaced sockets, failed reads and checks.
* `ReadsSound`: `ReadsAreSound` (`MovedIsNoError`, `NoGapServed`) where a slot is given once
  (`MaxSlots <= 1`) and no part fails a check (`MaxBadParts = 0`).
* `AccountsTrue`: `SlotAccountsAreTrue` (`PayloadIsBuffered`, `DuplicateIsInFlight`,
  `ConfirmedIsOut`) where a slot is given once and no socket is replaced under it
  (`MaxRehomes = 0`).

The assumptions are `FileOfAssumption` and `BoundsAssumption`. The hypotheses of the last
two theorems are those of the run `MCUploadBlocksSlot` and are needed: a late result of an
earlier slot may be taken for one of this slot, and what a released socket had counted as
sent is lost. `Inv` says of each client, with the worker's queue and the events (`Good`):
its lists agree with each other and with the counter (`Agrees`); every marked block is being
read (`Reading`) and, within one slot, exactly the marked ones are, each once (`ReadingOnce`), without
which an event could not be known to be for a block still marked; what is pending or queued to be
read is whole on disk (`Sound`); the marks of the packets in the socket follow on what it
has sent (`Accounts`). `startBlockReads()` is a recursive function over the pending list:
`PassExists` shows that it exists (`RecursiveFunction`), `PassEnds` by induction over the
places of the list what it has done up to each of them (`Passed`). Every operator from
client to client has a lemma that it keeps `Agrees` and `Accounts`, every action one that it keeps
`Inv`; `StepInv` combines them and sorts the steps into those that take an event and those
that do not, from which the two action properties follow.

Only model-checked: liveness of all modules and the fairness part of the refinement
(fairness and ENABLED are out of the prover's reach); `ServeSafe` and `MetSafe` after a
restart, within the bounds of the runs of `PartFile`; and all of `BlockRequests`.

## 5. Plan

Done: `PartFileWriteThread`, `PartFile`, `UploadDiskIOThread`, `UploadBandwidthThrottler`,
`EMSocket`, `ServerConnect` and `UploadBlocks` with their proofs; `BlockRequests`. Next, in
this order:

1. Proofs: `ReservationsAreOwned` and `AtMostTwoHolders` of `BlockRequests`, with one lemma
   per operator as in `PartFile_proofs`, then `HonestAreNotBlamed` and `IdleAwaitsVerdict`.
2. The exchange before a slot is given (file requests, callbacks, the ledger of fruitless
   sessions) and AICH recovery on top of `BlockRequests`.
3. `UploadQueue`: waiting list, slots, callbacks (`m_addNextConnect`), recycling of
   dead slots, bans of slot holders; `UploadBlocks` on top of it.
4. `GapList` as pure operators (`addGap`, `fillGap`) against sets of bytes, with
   folds; `CorruptionBlackBox` the same way.
5. IPC `PushCoalescer` and `DeferredRequests`; the NAT rendezvous; a Kad search.

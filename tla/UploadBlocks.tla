---------------------------- MODULE UploadBlocks ----------------------------
(***************************************************************************)
(* What an uploading client does with the blocks a peer asks for: its      *)
(* pending and done lists, the reads it has with the disk-read worker, the *)
(* payload it holds against the limit of its send buffer, and what becomes *)
(* of all that when the slot ends, the connection is replaced, the file is *)
(* moved to incoming, a part fails its check or the file is unshared.      *)
(* (core/client/UploadClient.cpp, core/transfer/UploadQueue.cpp.)          *)
(*                                                                         *)
(* The worker (UploadDiskIOThread) is a queue of reads, one step per read  *)
(* and a queue of events.  A block is one packet and one unit of payload,  *)
(* and a part of its file.  Left out: the waiting list, scores, collection *)
(* slots, malformed requests, a send queue that overflows and shared files *)
(* deleted by another program.                                             *)
(***************************************************************************)
EXTENDS Integers, Sequences, FiniteSets, SequencesExt, Lists

CONSTANTS Clients, Files, Blocks,
          FileOf,         \* the file of each block
          Limit,          \* startBlockReads()' limit, in blocks
          MaxPending,     \* kMaxPendingBlockRequests
          MaxDone,        \* kMaxDoneBlocks
          MaxDeliveries,  \* RepeatChunkGuard::kMaxDeliveries
          MaxSlots,       \* bound on the slots given
          MaxRehomes,     \* bound on sockets replaced under a slot
          MaxFaults,      \* bound on reads and moves that fail
          MaxBadParts     \* bound on blocks that fail a check

ASSUME FileOfAssumption == FileOf \in [Blocks -> Files]
ASSUME BoundsAssumption ==
  /\ Limit \in Nat \ {0}
  /\ MaxPending \in Nat \ {0}
  /\ MaxDone \in Nat \ {0}
  /\ MaxDeliveries \in Nat \ {0}
  /\ MaxSlots \in Nat
  /\ MaxRehomes \in Nat
  /\ MaxFaults \in Nat
  /\ MaxBadParts \in Nat

VARIABLES
  cl,           \* the clients
  file,         \* the files
  reads,        \* UploadDiskIOThread::m_requestQueue: [client, block, path]
  posted,       \* its events for the main thread
  left          \* what is left of the bounds

vars == <<cl, file, reads, posted, left>>

BlocksOf(f) == {b \in Blocks : FileOf[b] = f}

Init ==
  /\ cl \in [Clients -> {[slot |-> "None", sock |-> "none", banned |-> FALSE,
                          reqUpFile |-> f, blockRequests |-> << >>,
                          blockReadBytesQueued |-> 0, doneBlocks |-> << >>,
                          added |-> 0, sent |-> 0, unconfirmed |-> << >>,
                          deliveries |-> [b \in Blocks |-> 0],
                          sendQueue |-> << >>, sentPayload |-> 0, out |-> {}] : f \in Files}]
  /\ \E S \in SUBSET Blocks :
       file = [f \in Files |-> [shared |-> TRUE, path |-> "part", hold |-> FALSE,
                                onDisk |-> "part", safe |-> S \cap BlocksOf(f)]]
  /\ reads = << >>
  /\ posted = << >>
  /\ left = [slots |-> MaxSlots, rehomes |-> MaxRehomes, faults |-> MaxFaults,
             badParts |-> MaxBadParts]

(***************************************************************************)
(* UpDownClient: operators from client to client.                          *)
(***************************************************************************)

(* payloadInBuffer(), with its floor. *)
PayloadInBuffer(k) == IF k.added > k.sent THEN k.added - k.sent ELSE 0

Pending(k, b) == \E i \in 1 .. Len(k.blockRequests) : k.blockRequests[i].block = b

(* Mutant of FlushSendBlocks: the counter of queued bytes is left. *)
FlushSendBlocksKeepingBytes(k) ==
  [k EXCEPT !.blockRequests = << >>, !.doneBlocks = << >>, !.unconfirmed = << >>, !.out = {}]

(* flushSendBlocks(): the lists live as long as the slot. *)
FlushSendBlocks(k) ==
  [k EXCEPT !.blockRequests = << >>, !.blockReadBytesQueued = 0, !.doneBlocks = << >>,
            !.unconfirmed = << >>, !.out = {}]

(* UploadQueue::removeFromUploadQueue().  What is in the socket stays. *)
RemoveFromUploadQueue(k) ==
  IF k.slot = "None" THEN k ELSE FlushSendBlocks([k EXCEPT !.slot = "None"])

(* startBlockReads(), its pass over one pending block.  A block of a file  *)
(* no longer shared is dropped; a full buffer or a file on hold stops the  *)
(* pass.                                                                   *)
StartBlockRead(c, k, acc, r) ==
  LET f == file[FileOf[r.block]]
  IN IF r.readQueued \/ ~acc.go
     THEN [acc EXCEPT !.requests = Append(@, r)]
     ELSE IF PayloadInBuffer(k) + acc.bytes >= Limit
     THEN [acc EXCEPT !.requests = Append(@, r), !.go = FALSE]
     ELSE IF ~f.shared THEN acc
     ELSE IF f.hold
     THEN [acc EXCEPT !.requests = Append(@, r), !.go = FALSE]
     ELSE [acc EXCEPT !.requests = Append(@, [r EXCEPT !.readQueued = TRUE]),
                      !.bytes = @ + 1,
                      !.queue = Append(@, [client |-> c, block |-> r.block, path |-> f.path])]

(* startBlockReads(): blocks are handed to the worker in the order they    *)
(* were asked for while the buffer has room.                               *)
StartBlockReads(c, k, q) ==
  LET after[i \in 0 .. Len(k.blockRequests)] ==
        IF i = 0
        THEN [requests |-> << >>, bytes |-> k.blockReadBytesQueued, queue |-> q, go |-> TRUE]
        ELSE StartBlockRead(c, k, after[i - 1], k.blockRequests[i])
      done == after[Len(k.blockRequests)]
  IN IF k.slot # "Uploading" THEN [client |-> k, queue |-> q]
     ELSE [client |-> [k EXCEPT !.blockRequests = done.requests,
                                !.blockReadBytesQueued = done.bytes],
           queue |-> done.queue]

(* Where the block is pending, and where it is pending and marked as being *)
(* read; 0 if nowhere.                                                     *)
PendingAt(k, b) == SelectInSeq(k.blockRequests, LAMBDA r : r.block = b)
BeingReadAt(k, b) == SelectInSeq(k.blockRequests, LAMBDA r : r.block = b /\ r.readQueued)

(* m_blockReadBytesQueued -= std::min(m_blockReadBytesQueued, len) *)
LessOne(n) == IF n > 0 THEN n - 1 ELSE 0

(* Mutant of MarkBlockDone: the bytes are taken off whether or not a read  *)
(* of the block was queued.                                                *)
MarkBlockDoneAlwaysLess(k, i) ==
  [k EXCEPT !.blockReadBytesQueued = LessOne(@),
            !.doneBlocks = SubSeq(<<k.blockRequests[i].block>> \o @, 1,
                                  IF Len(@) < MaxDone THEN Len(@) + 1 ELSE MaxDone),
            !.blockRequests = RemoveAt(@, i)]

(* Mutant of MarkBlockDone: as above, and without the floor. *)
MarkBlockDoneUnfloored(k, i) ==
  [k EXCEPT !.blockReadBytesQueued = @ - 1,
            !.doneBlocks = SubSeq(<<k.blockRequests[i].block>> \o @, 1,
                                  IF Len(@) < MaxDone THEN Len(@) + 1 ELSE MaxDone),
            !.blockRequests = RemoveAt(@, i)]

(* markBlockDone() of the entry found: pending to head of done, of which   *)
(* the newest kMaxDoneBlocks are kept.                                     *)
MarkBlockDone(k, i) ==
  [k EXCEPT !.blockReadBytesQueued = IF k.blockRequests[i].readQueued THEN LessOne(@) ELSE @,
            !.doneBlocks = SubSeq(<<k.blockRequests[i].block>> \o @, 1,
                                  IF Len(@) < MaxDone THEN Len(@) + 1 ELSE MaxDone),
            !.blockRequests = RemoveAt(@, i)]

(* Mutant of RequeueBlockRead: the block stays marked as being read.       *)
RequeueBlockReadKeepingMark(k, i) ==
  [k EXCEPT !.blockReadBytesQueued = LessOne(@)]

(* requeueBlockRead() of the entry found. *)
RequeueBlockRead(k, i) ==
  [k EXCEPT !.blockRequests[i].readQueued = FALSE,
            !.blockReadBytesQueued = LessOne(@)]

SendBlockMarkedEarly(k, b) ==
  LET u == [block |-> b, mark |-> k.added]
  IN [k EXCEPT !.added = @ + 1,
               !.sendQueue = Append(@, u),
               !.unconfirmed = IF file[FileOf[b]].shared THEN Append(@, u) ELSE @]

(* The packets go to the socket and count as added; the block counts as    *)
(* delivered when the sent payload passes its mark.                        *)
SendBlock(k, b) ==
  LET u == [block |-> b, mark |-> k.added + 1]
  IN [k EXCEPT !.added = @ + 1,
               !.sendQueue = Append(@, u),
               !.unconfirmed = IF file[FileOf[b]].shared THEN Append(@, u) ELSE @]

(* updateUploadingStatisticsData() with confirmSentBlocks(): what the      *)
(* socket has sent since the last call is taken from it, and the blocks    *)
(* whose mark it reaches are credited to the repeat-chunk guard.           *)
UpdateUploadingStatisticsData(k) ==
  LET sent == k.sent + k.sentPayload
      confirmed(b) == Cardinality({i \in DOMAIN k.unconfirmed : /\ k.unconfirmed[i].block = b
                                                               /\ k.unconfirmed[i].mark <= sent})
      atMost(n) == IF n < MaxDeliveries THEN n ELSE MaxDeliveries
  IN IF k.sentPayload = 0 THEN k
     ELSE [k EXCEPT !.sent = sent,
                    !.sentPayload = 0,
                    !.unconfirmed = Kept(@, {u \in ToSet(@) : u.mark > sent}),
                    !.deliveries = [b \in Blocks |-> atMost(@[b] + confirmed(b))]]

(* The client is given a socket that has sent nothing yet. *)
NewSocket(k, state) ==
  [k EXCEPT !.sock = state, !.sendQueue = << >>, !.sentPayload = 0]

(***************************************************************************)
(* Slots and connections.                                                  *)
(***************************************************************************)

(* UploadQueue::addUpNextClient(): a connected client is uploading at      *)
(* once; any other is dialled, over a new socket or by a callback that     *)
(* brings one later.  resetSessionUp() zeroes both payload counters.       *)
addUpNextClient(c) ==
  /\ cl[c].slot = "None"
  /\ ~cl[c].banned
  /\ left.slots > 0
  /\ left' = [left EXCEPT !.slots = @ - 1]
  /\ LET k == [cl[c] EXCEPT !.added = 0, !.sent = 0]
     IN \/ /\ k.sock = "open"
           /\ cl' = [cl EXCEPT ![c] = [k EXCEPT !.slot = "Uploading"]]
        \/ /\ k.sock # "open"
           /\ \E state \in {"dialling", "none"} :
                cl' = [cl EXCEPT ![c] = NewSocket([k EXCEPT !.slot = "Connecting"], state)]
  /\ UNCHANGED <<file, reads, posted>>

(* onHandshakeCompleted(): a slot that waited for the connection is live. *)
HandshakeCompleted(k) ==
  [k EXCEPT !.sock = "open", !.slot = IF @ = "Connecting" THEN "Uploading" ELSE @]

onHandshakeCompleted(c) ==
  /\ cl[c].sock = "dialling"
  /\ cl' = [cl EXCEPT ![c] = HandshakeCompleted(@)]
  /\ UNCHANGED <<file, reads, posted, left>>

(* ClientList::attachToAlreadyKnown(): the peer has connected to us.  The  *)
(* socket the client still has is released, and the client, its slot and   *)
(* its lists go on with the new one.                                       *)
attachToAlreadyKnown(c) ==
  /\ \/ cl[c].sock = "none" /\ UNCHANGED left
     \/ /\ cl[c].sock # "none"
        /\ left.rehomes > 0
        /\ left' = [left EXCEPT !.rehomes = @ - 1]
  /\ cl' = [cl EXCEPT ![c] = HandshakeCompleted(NewSocket(@, "open"))]
  /\ UNCHANGED <<file, reads, posted>>

(* disconnected(): the socket goes first, then the slot. *)
disconnected(c) ==
  /\ cl[c].sock # "none"
  /\ cl' = [cl EXCEPT ![c] = RemoveFromUploadQueue(NewSocket(@, "none"))]
  /\ UNCHANGED <<file, reads, posted, left>>

(* OP_CANCELTRANSFER and OP_END_OF_DOWNLOAD: the slot ends, the connection *)
(* stays.                                                                  *)
cancelTransfer(c) ==
  /\ cl[c].sock = "open"
  /\ cl[c].slot # "None"
  /\ cl' = [cl EXCEPT ![c] = RemoveFromUploadQueue(@)]
  /\ UNCHANGED <<file, reads, posted, left>>

(* OP_STARTUPLOADREQ from a slot holder: setUploadFileID(), and the        *)
(* request is accepted on the spot.                                        *)
onUploadRequestReceived(c, f) ==
  /\ cl[c].slot = "Uploading"
  /\ file[f].shared
  /\ cl' = [cl EXCEPT ![c].reqUpFile = f]
  /\ UNCHANGED <<file, reads, posted, left>>

(***************************************************************************)
(* The peer asks for a block.                                              *)
(***************************************************************************)

(* Mutant of IsCompleteBDSafe: part files are served unchecked. *)
IsCompleteBDSafeAlways(b) == TRUE

(* PartFile::isCompleteBDSafe(), asked of part files only. *)
IsCompleteBDSafe(b) ==
  file[FileOf[b]].path = "part" => b \in file[FileOf[b]].safe

(* Mutant of Duplicate: the done list is not looked at. *)
DuplicatePendingOnly(k, b) == Pending(k, b)

(* The block is pending, or among the last ones sent. *)
Duplicate(k, b) == Pending(k, b) \/ Contains(k.doneBlocks, b)

(* addReqBlock(): dropped without a slot, for a file not shared, for bytes *)
(* not on disk, as a duplicate, or when too many are pending.  A part the  *)
(* peer has had often enough bans it and ends the slot.                    *)
addReqBlock(c, b) ==
  LET k == cl[c]
      asked == [k EXCEPT !.blockRequests = Append(@, [block |-> b, readQueued |-> FALSE])]
      started == StartBlockReads(c, asked, reads)
  IN /\ k.slot = "Uploading"
     /\ file[FileOf[b]].shared
     /\ IsCompleteBDSafe(b)
     /\ ~Duplicate(k, b)
     /\ \/ /\ k.deliveries[b] >= MaxDeliveries
           /\ cl' = [cl EXCEPT ![c] = RemoveFromUploadQueue([k EXCEPT !.banned = TRUE])]
           /\ UNCHANGED reads
        \/ /\ k.deliveries[b] < MaxDeliveries
           /\ Len(k.blockRequests) < MaxPending
           /\ cl' = [cl EXCEPT ![c] = started.client]
           /\ reads' = started.queue
     /\ UNCHANGED <<file, posted, left>>

(***************************************************************************)
(* The worker and its events.                                              *)
(***************************************************************************)

(* UploadDiskIOThread::readBlock(): the file is read where the request     *)
(* says it is.  "safe" records whether the bytes were good at that moment. *)
readBlock ==
  LET r == Head(reads)
      there == file[FileOf[r.block]].onDisk = r.path
      event(kind) == [kind |-> kind, client |-> r.client, block |-> r.block,
                      path |-> r.path, safe |-> r.block \in file[FileOf[r.block]].safe]
  IN /\ reads # << >>
     /\ reads' = Tail(reads)
     /\ \/ there /\ posted' = Append(posted, event("ready")) /\ UNCHANGED left
        \/ ~there /\ posted' = Append(posted, event("error")) /\ UNCHANGED left
        \/ /\ there
           /\ left.faults > 0
           /\ left' = [left EXCEPT !.faults = @ - 1]
           /\ posted' = Append(posted, event("error"))
     /\ UNCHANGED <<cl, file>>

(* followRequestedFile(): the slot's file becomes the one the peer pulls;  *)
(* a file no longer shared ends the slot.                                  *)
FollowRequestedFile(k, f) ==
  IF f = k.reqUpFile THEN k
  ELSE IF file[f].shared THEN [k EXCEPT !.reqUpFile = f]
  ELSE RemoveFromUploadQueue(k)

(* UploadQueue::onBlockPacketsReady(): dropped unless the client still has *)
(* a slot, a socket and a pending request for the block.                   *)
onBlockPacketsReady ==
  LET e == Head(posted)
      c == e.client
      k == cl[c]
      i == PendingAt(k, e.block)
      done == FollowRequestedFile(MarkBlockDone(k, i), FileOf[e.block])
      started == StartBlockReads(c, SendBlock(done, e.block), reads)
  IN /\ posted # << >>
     /\ e.kind = "ready"
     /\ posted' = Tail(posted)
     /\ IF k.slot = "None" \/ k.sock = "none" \/ i = 0
        THEN UNCHANGED <<cl, reads>>
        ELSE IF done.slot = "None"
        THEN cl' = [cl EXCEPT ![c] = done] /\ UNCHANGED reads
        ELSE cl' = [cl EXCEPT ![c] = started.client] /\ reads' = started.queue
     /\ UNCHANGED <<file, left>>

(* The file is being moved, or is no longer where it was read. *)
MovedSince(e) ==
  LET f == file[FileOf[e.block]]
  IN f.shared /\ (f.hold \/ f.path # e.path)

(* UploadQueue::onReadError(): a block of a file that has moved is read    *)
(* again, if a read of it is still awaited; anything else ends the slot.   *)
onReadError ==
  LET e == Head(posted)
      c == e.client
      k == cl[c]
      i == BeingReadAt(k, e.block)
      started == StartBlockReads(c, RequeueBlockRead(k, i), reads)
  IN /\ posted # << >>
     /\ e.kind = "error"
     /\ posted' = Tail(posted)
     /\ IF k.slot = "None" THEN UNCHANGED <<cl, reads>>
        ELSE IF MovedSince(e) /\ i # 0
        THEN cl' = [cl EXCEPT ![c] = started.client] /\ reads' = started.queue
        ELSE cl' = [cl EXCEPT ![c] = RemoveFromUploadQueue(k)] /\ UNCHANGED reads
     /\ UNCHANGED <<file, left>>

(* The throttler lets the socket send a packet. *)
SocketSends(c) ==
  /\ cl[c].sock = "open"
  /\ cl[c].sendQueue # << >>
  /\ cl' = [cl EXCEPT ![c].sendQueue = Tail(@),
                      ![c].sentPayload = @ + 1,
                      ![c].out = @ \cup {Head(cl[c].sendQueue).block}]
  /\ UNCHANGED <<file, reads, posted, left>>

(* UploadQueue::process(), its pass over one client: a slot without a      *)
(* socket or past its time ends; the slot's file follows the first pending *)
(* block; the room in the buffer is filled.                                *)
process(c) ==
  LET k == UpdateUploadingStatisticsData(cl[c])
      followed == IF k.blockRequests = << >> THEN k
                  ELSE FollowRequestedFile(k, FileOf[Head(k.blockRequests).block])
      started == StartBlockReads(c, followed, reads)
  IN /\ cl[c].slot # "None"
     /\ \/ /\ cl[c].sock = "none"
           /\ cl' = [cl EXCEPT ![c] = RemoveFromUploadQueue(@)]
           /\ UNCHANGED reads
        \/ /\ cl[c].sock # "none"
           /\ cl' = [cl EXCEPT ![c] = RemoveFromUploadQueue(k)]
           /\ UNCHANGED reads
        \/ /\ cl[c].sock # "none"
           /\ cl' = [cl EXCEPT ![c] = started.client]
           /\ reads' = started.queue
     /\ UNCHANGED <<file, posted, left>>

(***************************************************************************)
(* The files.                                                              *)
(***************************************************************************)

(* A block of a part file reaches the disk. *)
BlockWritten(b) ==
  /\ file[FileOf[b]].shared
  /\ file[FileOf[b]].path = "part"
  /\ b \notin file[FileOf[b]].safe
  /\ file' = [file EXCEPT ![FileOf[b]].safe = @ \cup {b}]
  /\ UNCHANGED <<cl, reads, posted, left>>

(* A finished part fails its check and becomes a gap: verifyChangedParts() *)
(* during the download, the mover's verifyFailed at its end.               *)
PartFailed(b) ==
  /\ file[FileOf[b]].shared
  /\ file[FileOf[b]].path = "part"
  /\ file[FileOf[b]].onDisk = "part"
  /\ b \in file[FileOf[b]].safe
  /\ left.badParts > 0
  /\ left' = [left EXCEPT !.badParts = @ - 1]
  /\ file' = [file EXCEPT ![FileOf[b]].safe = @ \ {b}, ![FileOf[b]].hold = FALSE]
  /\ UNCHANGED <<cl, reads, posted>>

(* PartFile::completeFile(): uploadReadsOnHold() from here on. *)
completeFile(f) ==
  /\ file[f].shared
  /\ file[f].path = "part"
  /\ ~file[f].hold
  /\ file[f].safe = BlocksOf(f)
  /\ file' = [file EXCEPT ![f].hold = TRUE]
  /\ UNCHANGED <<cl, reads, posted, left>>

(* The mover thread renames the file to incoming. *)
FileMoved(f) ==
  /\ file[f].hold
  /\ file[f].onDisk = "part"
  /\ file' = [file EXCEPT ![f].onDisk = "incoming"]
  /\ UNCHANGED <<cl, reads, posted, left>>

(* moveFinished(true): the file's path is its new place. *)
onMoveFinished(f) ==
  /\ file[f].hold
  /\ file[f].onDisk = "incoming"
  /\ file' = [file EXCEPT ![f].path = "incoming", ![f].hold = FALSE]
  /\ UNCHANGED <<cl, reads, posted, left>>

(* moveFinished(false): the file stays where it was. *)
onMoveFailed(f) ==
  /\ file[f].hold
  /\ file[f].onDisk = "part"
  /\ left.faults > 0
  /\ left' = [left EXCEPT !.faults = @ - 1]
  /\ file' = [file EXCEPT ![f].hold = FALSE]
  /\ UNCHANGED <<cl, reads, posted>>

(* servedFileId(): the file of the first pending block, or the slot's. *)
ServedFile(k) ==
  IF k.blockRequests = << >> THEN k.reqUpFile ELSE FileOf[Head(k.blockRequests).block]

(* SharedFileList::removeFile() and UploadQueue::onSharedFileRemoved():    *)
(* the slots that serve the file end.  A cancelled download's .part is     *)
(* deleted as well.                                                        *)
onSharedFileRemoved(f) ==
  /\ file[f].shared
  /\ ~file[f].hold
  /\ \E place \in {file[f].onDisk, "none"} :
       file' = [file EXCEPT ![f].shared = FALSE, ![f].onDisk = place]
  /\ cl' = [c \in Clients |-> IF ServedFile(cl[c]) = f THEN RemoveFromUploadQueue(cl[c])
                              ELSE cl[c]]
  /\ UNCHANGED <<reads, posted, left>>

Next ==
  \/ \E c \in Clients : \/ addUpNextClient(c)
                        \/ onHandshakeCompleted(c)
                        \/ attachToAlreadyKnown(c)
                        \/ disconnected(c)
                        \/ cancelTransfer(c)
                        \/ \E f \in Files : onUploadRequestReceived(c, f)
                        \/ \E b \in Blocks : addReqBlock(c, b)
                        \/ SocketSends(c)
                        \/ process(c)
  \/ readBlock
  \/ onBlockPacketsReady
  \/ onReadError
  \/ \E b \in Blocks : BlockWritten(b) \/ PartFailed(b)
  \/ \E f \in Files : \/ completeFile(f)
                      \/ FileMoved(f)
                      \/ onMoveFinished(f)
                      \/ onMoveFailed(f)
                      \/ onSharedFileRemoved(f)

(* The worker and the mover run, events are delivered, the timer ticks and *)
(* the peer's connection takes data.  Peers and users owe us nothing.      *)
Fairness ==
  /\ WF_vars(readBlock)
  /\ WF_vars(onBlockPacketsReady \/ onReadError)
  /\ \A c \in Clients : WF_vars(process(c)) /\ WF_vars(SocketSends(c))
  /\ \A f \in Files : WF_vars(FileMoved(f) \/ onMoveFinished(f))

Spec == Init /\ [][Next]_vars /\ Fairness

(***************************************************************************)
(* Properties.                                                             *)
(***************************************************************************)

ReadRequests == [client : Clients, block : Blocks, path : {"part", "incoming"}]
Events == [kind : {"ready", "error"}, client : Clients, block : Blocks,
           path : {"part", "incoming"}, safe : BOOLEAN]
Packets == [block : Blocks, mark : Nat]
ClientStates ==
  [slot : {"None", "Connecting", "Uploading"}, sock : {"none", "dialling", "open"},
   banned : BOOLEAN, reqUpFile : Files,
   blockRequests : Seq([block : Blocks, readQueued : BOOLEAN]),
   blockReadBytesQueued : Nat, doneBlocks : Seq(Blocks), added : Nat, sent : Nat,
   unconfirmed : Seq(Packets), deliveries : [Blocks -> 0 .. MaxDeliveries],
   sendQueue : Seq(Packets), sentPayload : Nat, out : SUBSET Blocks]

(* Every variable stays in its range. *)
TypeOK ==
  /\ cl \in [Clients -> ClientStates]
  /\ file \in [Files -> [shared : BOOLEAN, path : {"part", "incoming"}, hold : BOOLEAN,
                         onDisk : {"part", "incoming", "none"}, safe : SUBSET Blocks]]
  /\ reads \in Seq(ReadRequests)
  /\ posted \in Seq(Events)
  /\ left \in [slots : Nat, rehomes : Nat, faults : Nat, badParts : Nat]

(* m_blockReadBytesQueued, which startBlockReads() holds against its       *)
(* limit, is exactly the bytes of the pending blocks marked as being read, *)
(* through slots that end with reads out, late results of an earlier slot  *)
(* and repeated reads: it neither leaks nor needs the floor of its         *)
(* subtractions.                                                           *)
BytesQueuedExact ==
  \A c \in Clients :
    cl[c].blockReadBytesQueued =
      Cardinality({i \in DOMAIN cl[c].blockRequests : cl[c].blockRequests[i].readQueued})

(* A block marked as being read is: its read is queued with the worker or  *)
(* its event is on the way.  Otherwise nothing would ever clear the mark   *)
(* and the slot's share of the limit would shrink for good.                *)
MarkedIsBeingRead ==
  \A c \in Clients : \A i \in 1 .. Len(cl[c].blockRequests) :
    cl[c].blockRequests[i].readQueued =>
      \/ \E j \in 1 .. Len(reads) :
           reads[j].client = c /\ reads[j].block = cl[c].blockRequests[i].block
      \/ \E j \in 1 .. Len(posted) :
           posted[j].client = c /\ posted[j].block = cl[c].blockRequests[i].block

(* addReqBlock(): "serving each copy again doubles the upload".  No block  *)
(* is on the pending and done lists of a slot twice.                       *)
NoBlockTwice ==
  \A c \in Clients :
    LET pending == [i \in 1 .. Len(cl[c].blockRequests) |-> cl[c].blockRequests[i].block]
    IN IsInjective(pending \o cl[c].doneBlocks)

(* The lists of a slot agree with each other, with the counter of bytes    *)
(* being read and with the reads under way.                                *)
BlockListsAgree == BytesQueuedExact /\ MarkedIsBeingRead /\ NoBlockTwice

(* UpDownClient.h, payloadInBuffer(): "Payload sitting in the send         *)
(* buffers: queued minus actually sent."  For a live slot it is what the   *)
(* socket holds or has sent since the last tick.                           *)
PayloadIsBuffered ==
  \A c \in Clients :
    cl[c].slot = "Uploading" =>
      PayloadInBuffer(cl[c]) = Len(cl[c].sendQueue) + cl[c].sentPayload

(* confirmSentBlocks(): "once the sent one reaches a block's mark every    *)
(* byte of it has left the socket", so the repeat-chunk guard, which bans  *)
(* for it, only counts blocks that went out.                               *)
ConfirmedIsOut ==
  [][\A c \in Clients : \A i \in 1 .. Len(cl[c].unconfirmed) :
       (/\ cl'[c].sent > cl[c].sent
        /\ cl'[c].sent >= cl[c].unconfirmed[i].mark)
       => ~Contains(cl[c].sendQueue, cl[c].unconfirmed[i])]_vars

(* UpDownClient.h, kMaxDoneBlocks: "A duplicate request can only repeat a  *)
(* block still in flight".  A block that addReqBlock() silently ignores as *)
(* done is in the socket or has left it.                                   *)
DuplicateIsInFlight ==
  \A c \in Clients : \A i \in 1 .. Len(cl[c].doneBlocks) :
    \/ cl[c].doneBlocks[i] \in cl[c].out
    \/ \E j \in 1 .. Len(cl[c].sendQueue) :
         cl[c].sendQueue[j].block = cl[c].doneBlocks[i]

(* Within one slot on one connection its accounts are true: what it counts *)
(* as buffered, as done and as delivered is.                               *)
SlotAccountsAreTrue == [](PayloadIsBuffered /\ DuplicateIsInFlight) /\ ConfirmedIsOut

(* onReadError(): a read from a path the file has left is "not an IO       *)
(* error, read it again from where it is now": it costs nobody a slot.     *)
MovedIsNoError ==
  [][LET e == Head(posted)
         f == file[FileOf[e.block]]
     IN (/\ Len(posted') < Len(posted)
         /\ e.kind = "error"
         /\ f.shared
         /\ f.hold \/ f.path # e.path)
          => cl'[e.client].slot = cl[e.client].slot]_vars

(* addReqBlock(): "A part file must not serve a gap or unflushed bytes".   *)
(* What is handed to a socket was not a gap when it was read.              *)
NoGapServed ==
  [][\A c \in Clients :
       Len(cl'[c].sendQueue) > Len(cl[c].sendQueue) => Head(posted).safe]_vars

(* Within one slot, and while no part fails a check, the time between a    *)
(* request and its read does no harm: a move costs no slot, no gap is sent.*)
ReadsAreSound == MovedIsNoError /\ NoGapServed

(* Every block accepted from a peer is served or dropped, or the slot      *)
(* ends: neither a file being moved nor a full buffer leaves it waiting    *)
(* for ever.                                                               *)
AcceptedIsServed ==
  \A c \in Clients, b \in Blocks : Pending(cl[c], b) ~> ~Pending(cl[c], b)
=============================================================================

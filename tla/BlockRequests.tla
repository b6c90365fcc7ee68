--------------------------- MODULE BlockRequests ---------------------------
(***************************************************************************)
(* Which source of a download fetches which block.  The part file keeps    *)
(* the list of reserved blocks (PartFile::m_requestedBlocks); a block is   *)
(* a heap object owned by the source that reserved it (its m_pendingBlocks)*)
(* or by a fetch from the HTTP cache.  Sources are eD2K peers, which are   *)
(* asked for a few blocks at a time, and web servers (URLClient), asked    *)
(* for one range at a time.                                                *)
(*                                                                         *)
(* A cell is what one packet carries.  The rank of a part, rates and clocks*)
(* are choices: a source takes parts in any order, a holder may be slow or *)
(* stalled at any time.  The handlers call one another, so each is an      *)
(* operator from a state to the set of states it may leave.  The flush is  *)
(* reduced to what the reservations see of it (PartFile has the rest).     *)
(***************************************************************************)
EXTENDS Naturals, Sequences, FiniteSets, SequencesExt, FiniteSetsExt

CONSTANTS Peers, Webs,   \* eD2K sources, and web servers
          Rogues,        \* the peers that may send anything
          Offers,        \* the parts each source has
          NParts, PartBlocks, BlockLen,   \* parts, blocks of a part, cells of a block
          LateCells,     \* at most this many cells missing: the late phase
          Counts,        \* the block counts the tiers of the download rate give
          Shorts,        \* the short reservations of a source much slower than another, in cells
          PerPacket,     \* blocks one request names
          BufferLimit,   \* cells in memory before they are handed to the disk at once
          MaxUnmatched,  \* kMaxUnmatchedPackets
          MaxMishaps     \* bound on faults, corrupt parts, departures and user commands

Clients == Peers \cup Webs
PartLen == PartBlocks * BlockLen
Cells == 0..(NParts * PartLen - 1)
Parts == 0..(NParts - 1)
PartOf(x) == x \div PartLen
PartCells(p) == (p * PartLen)..(p * PartLen + PartLen - 1)
BlockEnd(x) == (x \div BlockLen) * BlockLen + BlockLen - 1

ASSUME BlockAssumption ==
  /\ Peers \cap Webs = {} /\ Rogues \subseteq Peers
  /\ Offers \in [Clients -> SUBSET Parts] /\ \A w \in Webs : Offers[w] = Parts
  /\ {NParts, PartBlocks, BlockLen, PerPacket, MaxUnmatched} \subseteq Nat \ {0}
  /\ {LateCells, BufferLimit, MaxMishaps} \subseteq Nat
  /\ Counts \subseteq Nat \ {0} /\ Counts # {} /\ Shorts \subseteq 1..BlockLen

VARIABLES gaps, buffered, flushing,  \* m_gapList, m_bufferedData, m_flushingData
          changed, corrupted,        \* m_changedParts, m_corruptedParts
          status,                    \* PartFile::status()
          blk,                       \* the block objects alive
          list,                      \* m_requestedBlocks
          src,                       \* the sources
          cache,                     \* the fetch from the HTTP cache
          stale,                     \* handlers that used a freed block
          reopened,                  \* history: parts found bad and opened again
          left                       \* mishaps still to come

vars == <<gaps, buffered, flushing, changed, corrupted, status, blk, list, src, cache, stale, reopened, left>>

None == "none"       \* the holder of a block no source has
NoFetch == [part |-> NParts, blocks |-> << >>, pos |-> 0, file |-> FALSE]

Init ==
  /\ gaps = Cells /\ buffered = {} /\ flushing = {} /\ changed = {} /\ corrupted = {}
  /\ status = "Ready" /\ blk = << >> /\ list = << >> /\ stale = {} /\ reopened = {} /\ left = MaxMishaps
  /\ src = [c \in Clients |-> [file |-> TRUE, state |-> "OnQueue", conn |-> FALSE, pend |-> << >>,
                               wire |-> << >>, abandoned |-> << >>, overdue |-> FALSE,
                               unmatched |-> 0, session |-> FALSE]]
  /\ cache = NoFetch

Now == [gaps |-> gaps, buffered |-> buffered, flushing |-> flushing, changed |-> changed,
        corrupted |-> corrupted, status |-> status, blk |-> blk, list |-> list, src |-> src,
        cache |-> cache, stale |-> stale, reopened |-> reopened, left |-> left]

(* Once a freed block has been used, nothing can be said of the program: it takes no step. *)
Become(st) ==
  /\ stale = {}
  /\ gaps' = st.gaps /\ buffered' = st.buffered /\ flushing' = st.flushing
  /\ changed' = st.changed /\ corrupted' = st.corrupted /\ status' = st.status
  /\ blk' = st.blk /\ list' = st.list /\ src' = st.src
  /\ cache' = st.cache /\ stale' = st.stale /\ reopened' = st.reopened /\ left' = st.left

Mishap(st) == [st EXCEPT !.left = @ - 1]

-----------------------------------------------------------------------------
(* The block objects. *)
Covers(b) == b.s .. b.e
Entries(st) == {st.list[i] : i \in DOMAIN st.list}
IdsOf(pend) == {pend[i].id : i \in DOMAIN pend}

(* removeBlockFromList(block): exactly this reservation. *)
Unlist(st, ids) == [st EXCEPT !.list = SelectSeq(@, LAMBDA i : i \notin ids)]
Free(st, ids) == [st EXCEPT !.blk = [i \in DOMAIN @ \ ids |-> @[i]]]

(* A new block of the given range, at the end of the list. *)
Reserve(st, c, r) ==
  LET id == CHOOSE i \in {<<c, r.s, k>> : k \in 0..Cardinality(DOMAIN st.blk)} : i \notin DOMAIN st.blk
      b  == [s |-> r.s, e |-> r.e, holder |-> c, requested |-> FALSE]
  IN  [st EXCEPT !.blk = [i \in DOMAIN @ \cup {id} |-> IF i = id THEN b ELSE @[i]],
                 !.list = Append(@, id)]

ReserveFor(st, c, r) ==
  LET new == Reserve(st, c, r)
  IN  [new EXCEPT !.src[c].pend = Append(@, [id |-> Last(new.list), queued |-> FALSE, zerr |-> FALSE])]

ClearDownloadBlockRequests(st, c) ==
  LET ids == IdsOf(st.src[c].pend)
  IN  [Free(IF st.src[c].file THEN Unlist(st, ids) ELSE st, ids) EXCEPT !.src[c].pend = << >>]

(* One pending block is done with: off both lists, and freed. *)
Drop(st, c, id) ==
  [Free(Unlist(st, {id}), {id}) EXCEPT !.src[c].pend = SelectSeq(@, LAMBDA q : q.id # id)]

(* What a session has noted of the peer goes with it. *)
EndSession(st, c) == [st EXCEPT !.src[c].abandoned = << >>, !.src[c].overdue = FALSE,
                                !.src[c].unmatched = 0, !.src[c].session = FALSE]

(* Mutant of SetDownloadState: the blocks of a session that ends stay reserved. *)
SetDownloadStateKeepingBlocks(st, c, state) == [EndSession(st, c) EXCEPT !.src[c].state = state]

SetDownloadState(st, c, state) ==
  IF st.src[c].state = state THEN st
  ELSE LET ended == EndSession(ClearDownloadBlockRequests(st, c), c)
       IN  [IF st.src[c].state = "Downloading" THEN ended ELSE st EXCEPT !.src[c].state = state]

(* A peer is told to stop (it does when it reads that, PeerStops); a web server is hung up on. *)
SendCancelTransfer(st, c) ==
  IF c \in Peers THEN st ELSE [st EXCEPT !.src[c].conn = FALSE, !.src[c].wire = << >>]

Disconnected(st, c) ==
  LET off == IF st.src[c].state = "Downloading" THEN SetDownloadState(st, c, "OnQueue") ELSE st
  IN  [ClearDownloadBlockRequests(off, c) EXCEPT !.src[c].conn = FALSE, !.src[c].wire = << >>]

ClientSeq == SetToSeq(Clients)

(* pauseFile(), for good or for want of disk space: the transferring sources are stopped. *)
PauseFile(st, to) ==
  LET Stop(s, c) == IF s.src[c].file /\ s.src[c].state = "Downloading"
                    THEN SetDownloadState(SendCancelTransfer(s, c), c, "OnQueue") ELSE s
  IN  FoldLeft(Stop, [st EXCEPT !.status = to], ClientSeq)

-----------------------------------------------------------------------------
(* Choosing blocks. *)

(* getNextEmptyBlockInPart(): the first missing stretch of the part from a cell on, cut at the
   end of its block. *)
NextEmptyBlock(st, p, from) ==
  LET s == Min({x \in st.gaps \cap PartCells(p) : x >= from})
  IN  [s |-> s, e |-> Max({x \in s..BlockEnd(s) : s..x \subseteq st.gaps})]
HasEmptyBlock(st, p, from) == \E x \in st.gaps \cap PartCells(p) : x >= from

(* shrinkToAvoidAlreadyRequested(): reserved blocks and data in memory cut the range down, in
   the order they are listed; << >> when nothing is left. *)
ShrinkToAvoidAlreadyRequested(st, r) ==
  LET Cell(x) == [s |-> x, e |-> x]
      InOrder(S) == SetToSortSeq(S, LAMBDA x, y : x < y)
      taken == [i \in DOMAIN st.list |-> st.blk[st.list[i]]]
                 \o [i \in DOMAIN InOrder(st.buffered) |-> Cell(InOrder(st.buffered)[i])]
                 \o [i \in DOMAIN InOrder(st.flushing) |-> Cell(InOrder(st.flushing)[i])]
      Shrink(acc, t) ==
        IF acc = << >> THEN acc
        ELSE LET a == acc[1]
             IN  IF t.s > a.e \/ t.e < a.s THEN acc
                 ELSE IF t.s > a.s THEN <<[a EXCEPT !.e = t.s - 1]>>
                 ELSE IF t.e < a.e THEN <<[a EXCEPT !.s = t.e + 1]>>
                 ELSE << >>
  IN  FoldLeft(Shrink, <<r>>, taken)

(* Mutant of MaySecondSourceTake: how many sources hold the block already is not counted. *)
MaySecondSourceTakeUncounted(st, c, r, slow) ==
  LET on == {i \in Entries(st) : st.blk[i].s <= r.e /\ st.blk[i].e >= r.s}
  IN  on # {} /\ \A i \in on : st.blk[i].holder \notin {c, None}

(* maySecondSourceTake(): one other source holds it, and has been asked nothing and given
   nothing, or is among those now too slow (its stall and the rates are a choice). *)
MaySecondSourceTake(st, c, r, slow) ==
  LET on == {i \in Entries(st) : st.blk[i].s <= r.e /\ st.blk[i].e >= r.s}
  IN  /\ Cardinality(on) = 1
      /\ \A i \in on : LET b == st.blk[i]
                       IN  /\ b.holder \notin {c, None}
                           /\ (~b.requested /\ ~st.src[b.holder].session) \/ i \in slow

(* The blocks of a part that are free for the source, from left to right. *)
FreeBlocks(st, c, p, late, slow) ==
  LET scan[from \in 0..(NParts * PartLen)] ==
        IF ~HasEmptyBlock(st, p, from) THEN << >>
        ELSE LET r == NextEmptyBlock(st, p, from)
                 free == ShrinkToAvoidAlreadyRequested(st, r)
             IN  IF free # << >> THEN free \o scan[free[1].e + 1]
                 ELSE IF late /\ MaySecondSourceTake(st, c, r, slow) THEN <<r>> \o scan[r.e + 1]
                 ELSE scan[r.e + 1]
  IN  scan[0]

(* What the choice of blocks depends on besides the state: the phase (near the end it is late;
   a good rate makes it late sooner), the holders that are too slow, the rank of the parts, and
   the short reservation of a source much slower than another one (0: none). *)
IsLate(st) == IF st.gaps = {} THEN {FALSE}
              ELSE IF Cardinality(st.gaps) <= LateCells THEN {TRUE} ELSE BOOLEAN
Transferring(st) == {c \in Clients : st.src[c].file /\ st.src[c].state = "Downloading"}
Orders(S) == {o \in [1..Cardinality(S) -> S] : \A i, j \in 1..Cardinality(S) : o[i] = o[j] => i = j}
Picks(st, c) ==
  UNION {[late : {late}, order : Orders(Offers[c]),
          slow : IF late THEN SUBSET {i \in Entries(st) : st.blk[i].holder \notin {c, None}} ELSE {{}},
          limit : IF late /\ Transferring(st) \ {c} # {} THEN {0} \cup Shorts ELSE {0}]
         : late \in IsLate(st)}

(* getNextRequestedBlock(): up to n blocks, part after part. A source on a short reservation
   gets one piece. *)
GetNextRequestedBlock(st, c, n, pick) ==
  LET Limited(p) == pick.limit > 0 /\ \E d \in Transferring(st) \ {c} : p \in Offers[d]
      Cut(r) == [r EXCEPT !.e = Min({r.e, r.s + pick.limit - 1})]
      Take(acc, free, limited) ==
        IF acc.full \/ free = << >> THEN acc
        ELSE IF limited THEN [found |-> Append(acc.found, Cut(free[1])), full |-> TRUE]
        ELSE LET all == acc.found \o free
             IN  [found |-> SubSeq(all, 1, Min({Len(all), n})), full |-> Len(all) >= n]
      Add(acc, p) == Take(acc, FreeBlocks(st, c, p, pick.late, pick.slow), Limited(p))
  IN  FoldLeft(LAMBDA s, r : ReserveFor(s, c, r), st,
               FoldLeft(Add, [found |-> << >>, full |-> FALSE], pick.order).found)

CreateBlockRequests(st, c, n) ==
  LET pend == st.src[c].pend
      want == n - Cardinality({i \in DOMAIN pend : ~pend[i].queued})
  IN  IF Len(pend) > 3 * n \/ n <= Cardinality({i \in DOMAIN pend : ~pend[i].queued}) THEN {st}
      ELSE {GetNextRequestedBlock(st, c, want, pick) : pick \in Picks(st, c)}

-----------------------------------------------------------------------------
(* Asking for blocks. *)
AwaitsFinalVerdict(st) == st.flushing # {} /\ st.gaps = {}

CellsOf(st, ids) ==
  FlattenSeq([i \in DOMAIN ids |-> [j \in 1..Cardinality(Covers(st.blk[ids[i]])) |-> st.blk[ids[i]].s + j - 1]])

(* The first unsent blocks go out in one packet; an honest peer answers with their cells
   (a rogue with what it likes, RoguePacket). *)
SendRequest(st, c) ==
  LET pend == st.src[c].pend
      unsent == SelectSeq(pend, LAMBDA q : ~q.queued)
      now == [i \in 1..Min({Len(unsent), PerPacket}) |-> unsent[i].id]
      ids == {now[i] : i \in DOMAIN now}
  IN  [st EXCEPT !.src[c].pend = [i \in DOMAIN pend |-> [pend[i] EXCEPT !.queued = @ \/ pend[i].id \in ids]],
                 !.src[c].wire = IF c \in Rogues THEN @ ELSE @ \o CellsOf(st, now),
                 !.blk = [i \in DOMAIN @ |-> [@[i] EXCEPT !.requested = @ \/ i \in ids]]]

(* UpDownClient::sendBlockRequests() *)
AskPeer(st, c) ==
  IF st.src[c].state # "Downloading" \/ ~st.src[c].file THEN {st}
  ELSE LET Ask(s) ==
             IF s.src[c].pend # << >> THEN SendRequest(s, c)
             ELSE IF AwaitsFinalVerdict(s) THEN s
             ELSE SetDownloadState(SendCancelTransfer(s, c), c, "NoNeededParts")
       IN  {Ask(s) : s \in UNION {CreateBlockRequests(st, c, n) : n \in Counts}}

(* getNextHttpRange(): the longest missing stretch nobody holds, the first one wins a tie; at
   most a part of it, cut into blocks. *)
HttpBlocks(st) ==
  LET Longest(runs) == CHOOSE r \in runs : \A o \in runs : \/ o.e - o.s < r.e - r.s
                                                          \/ (o.e - o.s = r.e - r.s /\ r.s <= o.s)
      Stretch(free) == Longest({r \in [s : free, e : free] : Covers(r) \subseteq free /\ r.s <= r.e})
      Blocks(s, upto) == SetToSortSeq({[s |-> x, e |-> Min({BlockEnd(x), upto})]
                                       : x \in {y \in s..upto : y = s \/ y % BlockLen = 0}},
                                      LAMBDA a, b : a.s < b.s)
      Cut(r) == Blocks(r.s, Min({r.e, r.s + PartLen - 1}))
      Of(free) == IF free = {} THEN << >> ELSE Cut(Stretch(free))
  IN  Of(st.gaps \ UNION {Covers(st.blk[i]) : i \in Entries(st)})

(* reserveHttpRange(): a long range, or late the blocks a peer would get; what does not join
   up with the first block is given back. *)
ReserveHttpRange(st, w) ==
  LET long == IF st.src[w].pend # << >> THEN {st}
              ELSE {IF late THEN st ELSE FoldLeft(LAMBDA s, r : ReserveFor(s, w, r), st, HttpBlocks(st))
                    : late \in IsLate(st)}
      some == UNION {IF s.src[w].pend # << >> THEN {s} ELSE CreateBlockRequests(s, w, PartBlocks) : s \in long}
      Joined(s) == LET q == s.src[w].pend
                   IN  {q[i].id : i \in {k \in DOMAIN q : \A j \in 2..k : s.blk[q[j].id].s = s.blk[q[j-1].id].e + 1}}
      Merge(s) == FoldSet(LAMBDA id, acc : Drop(acc, w, id), s, IdsOf(s.src[w].pend) \ Joined(s))
  IN  {Merge(s) : s \in some}

(* URLClient::sendHttpBlockRequests(); with nothing to get the source may move to another file *)
AskWeb(st, w) ==
  IF ~st.src[w].conn \/ ~st.src[w].file THEN {st}
  ELSE {IF s.src[w].pend # << >> THEN s ELSE SetDownloadState(s, w, "NoNeededParts")
        : s \in ReserveHttpRange(st, w)}

SendBlockRequests(st, c) ==
  IF c \in Peers THEN AskPeer(st, c) ELSE IF st.src[c].pend = << >> THEN AskWeb(st, c) ELSE {st}

(* Mutant of ResumeIdleSources: the sources that waited for the verdict are left waiting. *)
ResumeIdleSourcesNever(st) == {st}

(* resumeIdleSources() *)
ResumeIdleSources(st) ==
  LET Idle(s, c) == s.src[c].file /\ s.src[c].state = "Downloading" /\ s.src[c].pend = << >>
  IN  FoldLeft(LAMBDA S, c : UNION {IF Idle(s, c) THEN SendBlockRequests(s, c) ELSE {s} : s \in S},
               {st}, ClientSeq)

-----------------------------------------------------------------------------
(* Received data and the flush. *)

(* removeBlockFromList(start, end): the first reservation of that range, whoever holds it. *)
RemoveRange(st, s, e) ==
  LET at == {i \in DOMAIN st.list : st.blk[st.list[i]].s = s /\ st.blk[st.list[i]].e = e}
  IN  IF at = {} THEN st ELSE [st EXCEPT !.list = RemoveAt(@, Min(at))]

(* verifyChangedParts(): a complete part is judged once all of it is on disk, and opened again
   if it is bad; a corrupted part may turn out to have been good (ICH). *)
VerifyChangedParts(st) ==
  LET whole == {p \in st.changed : PartCells(p) \cap st.gaps = {}}
      waiting == {p \in whole : PartCells(p) \cap (st.buffered \cup st.flushing) # {}}
      judged == whole \ waiting
      ich == (st.changed \ whole) \cap st.corrupted
      All(S) == UNION {PartCells(p) : p \in S}
      Judge(bad, good) ==
        FoldSet(LAMBDA p, acc : RemoveRange(acc, Min(PartCells(p)), Max(PartCells(p))),
                [st EXCEPT !.gaps = (@ \cup All(bad)) \ All(good), !.changed = waiting,
                           !.corrupted = (@ \ (judged \cup good)) \cup bad,
                           !.reopened = @ \cup bad,
                           !.left = @ - Cardinality(bad)], good)
  IN  {Judge(bad, good) : bad \in {S \in SUBSET judged : Cardinality(S) <= st.left}, good \in SUBSET ich}

(* A write failed, or was refused for want of space: the file is paused, by the error for good *)
HandleWriteFailure(st) ==
  {IF st.status = "Ready" \/ (st.status = "Insufficient" /\ to = "Paused") THEN PauseFile(st, to) ELSE st
   : to \in {"Insufficient", "Paused"}}

FlushBufferAsync(st) ==
  IF st.buffered = {} \/ st.flushing # {} THEN {st}
  ELSE {[st EXCEPT !.flushing = st.buffered, !.buffered = {}]}
       \cup (IF st.left = 0 THEN {}
             ELSE {IF st.status = "Ready" THEN PauseFile(Mishap(st), "Insufficient") ELSE st})

(* The result of the write at the worker: put back, or on disk and judged. *)
PutBack(st) == [Mishap(st) EXCEPT !.buffered = @ \cup st.flushing, !.flushing = {}]
Landed(st) == VerifyChangedParts([st EXCEPT !.changed = @ \cup {PartOf(x) : x \in st.flushing},
                                            !.flushing = {}])
AfterLast(s) == IF s.buffered = {} THEN {[s EXCEPT !.status = "Completing"]}
                ELSE IF s.status = "Ready" THEN FlushBufferAsync(s) ELSE {s}

ApplyFlushResult(st) ==
  UNION {IF s.gaps # {} THEN ResumeIdleSources(s) ELSE AfterLast(s) : s \in Landed(st)}
  \cup (IF st.left = 0 THEN {} ELSE UNION {HandleWriteFailure(s) : s \in ResumeIdleSources(PutBack(st))})

(* The synchronous flush, after what the worker has. It is called for a file that is not ready,
   where no source waits in a transfer: there is none to resume. *)
FlushBuffer(st) ==
  LET Collected == UNION {IF s.gaps # {} THEN {s} ELSE AfterLast(s) : s \in Landed(st)}
                   \cup (IF st.left = 0 THEN {} ELSE HandleWriteFailure(PutBack(st)))
      Written(s) == [s EXCEPT !.changed = @ \cup {PartOf(x) : x \in s.buffered}, !.buffered = {}]
      End(s) == IF s.gaps = {} THEN [s EXCEPT !.status = "Completing"] ELSE s
      Rest(s) == IF s.buffered = {} THEN {s}
                 ELSE {End(v) : v \in VerifyChangedParts(Written(s))}
                      \cup (IF s.left = 0 THEN {} ELSE HandleWriteFailure(Mishap(s)))
  IN  UNION {Rest(s) : s \in IF st.flushing = {} THEN {st} ELSE Collected}

(* writeToBuffer(): refused where there is no gap. The packet handlers call it for a ready file,
   the cache for any. *)
InBuffer(st, x) == [st EXCEPT !.buffered = @ \cup {x}, !.gaps = @ \ {x}]
HandToDisk(s) == IF s.gaps = {} \/ Cardinality(s.buffered) > BufferLimit THEN FlushBufferAsync(s) ELSE {s}
WriteToBuffer(st, x) == IF x \notin st.gaps THEN {st} ELSE HandToDisk(InBuffer(st, x))

-----------------------------------------------------------------------------
(* Data from a peer. *)

(* isInAbandonedBlock(): of the ranges given up, those the window has not erased yet. *)
IsInAbandonedBlock(st, c, x) == \E i \in DOMAIN st.src[c].abandoned : x \in Covers(st.src[c].abandoned[i])

(* Mutant of UnmatchedPacket: one packet too many is taken before the transfer ends. *)
UnmatchedPacketOneMore(st, c, x) ==
  LET Charge(n) == IF n > MaxUnmatched THEN SetDownloadState(SendCancelTransfer(st, c), c, "OnQueue")
                   ELSE [st EXCEPT !.src[c].unmatched = n]
  IN  IF st.src[c].state # "Downloading" \/ IsInAbandonedBlock(st, c, x) THEN {st}
      ELSE {Charge(n) : n \in {1, st.src[c].unmatched + 1}}

(* Data that matches nothing we asked for. The count begins anew when its window of
   kUnmatchedWindowMs has run out. *)
UnmatchedPacket(st, c, x) ==
  LET Charge(n) == IF n >= MaxUnmatched THEN SetDownloadState(SendCancelTransfer(st, c), c, "OnQueue")
                   ELSE [st EXCEPT !.src[c].unmatched = n]
  IN  IF st.src[c].state # "Downloading" \/ IsInAbandonedBlock(st, c, x) THEN {st}
      ELSE {Charge(n) : n \in {1, st.src[c].unmatched + 1}}

(* Mutant of StillPending: no test after the write, as in WriteHttpData below. *)
StillPendingUntested(st, c) == TRUE

(* The write may have paused the file, and the pause has then freed the block. *)
StillPending(st, c) == st.src[c].pend # << >>

(* Mutant of Abandon: the range given up is not remembered. *)
AbandonUnrecorded(st, c, id) == st

(* The block is given up while the rest of it is still on its way; the range is stamped with
   the time, so the oldest one is the first. *)
Abandon(st, c, id) == [st EXCEPT !.src[c].abandoned = Append(@, [s |-> st.blk[id].s, e |-> st.blk[id].e])]

AfterWrite(st, c, id, x, written) ==
  IF written /\ ~StillPending(st, c) THEN {st}
  ELSE IF id \notin DOMAIN st.blk THEN {[st EXCEPT !.stale = @ \cup {"processBlockPacket"}]}
  ELSE LET over == IF written THEN x = st.blk[id].e ELSE Covers(st.blk[id]) \cap st.gaps = {}
           s == IF written THEN [st EXCEPT !.src[c].session = TRUE] ELSE Abandon(st, c, id)
       IN  IF over THEN AskPeer(Drop(s, c, id), c) ELSE {IF written THEN s ELSE st}

(* Plain data past the end of the block is dropped; an inflated stream that runs past it is
   treated like data the file refused. *)
ProcessBlockPacket(st, c, x, kind) ==
  LET pend == st.src[c].pend
      hits == {i \in DOMAIN pend : x \in Covers(st.blk[pend[i].id])}
      i == Min(hits)
      id == pend[i].id
  IN  IF st.src[c].state \notin {"Downloading", "NoNeededParts"} THEN {st}
      ELSE IF hits = {} THEN UnmatchedPacket(st, c, x)
      ELSE IF pend[i].zerr THEN {Unlist(st, {id})}
      ELSE IF kind = "over" THEN {Unlist(st, {id})} \cup AfterWrite(Unlist(st, {id}), c, id, x, FALSE)
      ELSE IF kind = "zerr" THEN {[Unlist(st, {id}) EXCEPT !.src[c].pend[i].zerr = TRUE]}
      ELSE UNION {AfterWrite(s, c, id, x, x \in st.gaps) : s \in WriteToBuffer(st, x)}

ProcessBlockPacketWithValidation(st, c, x, kind) ==
  LET Halt(s, to) == SetDownloadState(SendCancelTransfer(s, c), c, to)
  IN  IF st.src[c].file /\ st.status = "Ready"
      THEN {IF s.status \in {"Paused", "Stopped"} THEN Halt(s, "OnQueue") ELSE s
            : s \in ProcessBlockPacket(st, c, x, kind)}
      ELSE {Halt(st, IF ~st.src[c].file \/ st.status = "Stopped" THEN "None" ELSE "OnQueue")}

CanReceive(c) == src[c].wire # << >>
Arrived(c) == [Now EXCEPT !.src[c].wire = Tail(@)]

BlockPacket(c) ==
  /\ c \in Peers /\ CanReceive(c)
  /\ \E st \in ProcessBlockPacketWithValidation(Arrived(c), c, Head(src[c].wire), "plain") : Become(st)

(* A rogue sends any cell, and for a block it was asked for data past its end or a stream that
   does not inflate. *)
RoguePacket(c) ==
  /\ c \in Rogues /\ src[c].state \in {"Downloading", "NoNeededParts"}
  /\ \E x \in Cells :
       \E kind \in IF x \in UNION {Covers(blk[i]) : i \in IdsOf(src[c].pend)} THEN {"plain", "over", "zerr"} ELSE {"plain"} :
         \E st \in ProcessBlockPacketWithValidation(Now, c, x, kind) : Become(st)

(* kUnmatchedWindowMs has passed since the oldest range was given up, and it is erased. The peer
   may still be sending the rest of the block: that is noted for HonestAreNotBlamed. *)
AbandonedExpires(c) ==
  /\ c \in Peers /\ src[c].abandoned # << >>
  /\ LET late == ToSet(src[c].wire) \cap Covers(Head(src[c].abandoned)) # {}
     IN  Become([Now EXCEPT !.src[c].abandoned = Tail(@), !.src[c].overdue = @ \/ late])

(* processAcceptUpload(): a slot in the peer's queue has come up; what the peer sent in an
   earlier session came before. A source that cools down only sends a cancel, for a while. *)
CanAccept(c) == src[c].file /\ src[c].state = "OnQueue" /\ src[c].wire = << >> /\ status = "Ready"
AcceptUpload(c) ==
  /\ c \in Peers /\ CanAccept(c)
  /\ \E st \in AskPeer(SetDownloadState(Now, c, "Downloading"), c) : Become(st)

(* The same for a source without a file, or with one that is not ready: it is turned down, and
   back in the queue whatever it was. *)
DeclineUpload(c) ==
  /\ c \in Peers /\ src[c].wire = << >> /\ (~src[c].file \/ status # "Ready")
  /\ Become(SetDownloadState(SendCancelTransfer(Now, c), c,
                             IF ~src[c].file \/ status = "Stopped" THEN "None" ELSE "OnQueue"))

(* The peer has read the cancel. *)
PeerStops(c) ==
  /\ c \in Peers /\ src[c].state # "Downloading" /\ CanReceive(c)
  /\ Become([Now EXCEPT !.src[c].wire = << >>])

(* checkDownloadTimeout(), from process(): an honest peer that has something to send is in time. *)
CanTimeOut(c) == /\ status = "Ready" /\ src[c].file /\ src[c].state = "Downloading"
                 /\ c \in Rogues \/ src[c].wire = << >>
DownloadTimeout(c) ==
  /\ CanTimeOut(c)
  /\ Become(IF c \in Peers THEN SetDownloadState(SendCancelTransfer(Now, c), c, "OnQueue")
            ELSE Disconnected(Now, c))

ConnectionLost(c) ==
  /\ left > 0 /\ (src[c].state = "Downloading" \/ src[c].conn)
  /\ Become(Disconnected(Mishap(Now), c))

(* doSwap(), DownloadQueue::removeSource(): the source goes to another file. *)
RemoveSource(st, c) ==
  [ClearDownloadBlockRequests(SetDownloadState(st, c, "None"), c) EXCEPT !.src[c].file = FALSE]

Leave(c) ==
  /\ left > 0 /\ src[c].file
  /\ Become(RemoveSource(Mishap(Now), c))

CanJoin(c) == ~src[c].file /\ status = "Ready" /\ src[c].wire = << >> /\ ~src[c].conn
Join(c) ==
  /\ CanJoin(c)
  /\ Become([SetDownloadState(Now, c, "OnQueue") EXCEPT !.src[c].file = TRUE])

(* process(): a source without needed parts, or with nothing going on, is asked again. *)
CanReask(c) == status = "Ready" /\ src[c].file /\ src[c].state \in {"None", "NoNeededParts"}
Reask(c) ==
  /\ CanReask(c)
  /\ Become(SetDownloadState(Now, c, "OnQueue"))

-----------------------------------------------------------------------------
(* Web servers. *)

(* A source that was redirected between two ranges is dialled again in its transfer. *)
WebConnect(w) ==
  /\ w \in Webs /\ status = "Ready" /\ src[w].file /\ ~src[w].conn /\ src[w].state \in {"OnQueue", "Downloading"}
  /\ \E st \in AskWeb([Now EXCEPT !.src[w].conn = TRUE], w) : Become(st)

(* processHttpDownResponse(): the range is coming, the answer is no use (an error, too many
   redirections), or it redirects us: the reserved blocks go with the old request and the old
   socket, and the state stays what it was. *)
CanAnswer(w) == src[w].conn /\ src[w].pend # << >> /\ src[w].wire = << >>
WebHead(w) ==
  /\ w \in Webs /\ CanAnswer(w)
  /\ \/ Become([SetDownloadState(Now, w, "Downloading") EXCEPT
                  !.src[w].wire = CellsOf(Now, [i \in DOMAIN src[w].pend |-> src[w].pend[i].id])])
     \/ left > 0 /\ Become(Disconnected(Mishap(Now), w))
     \/ left > 0 /\ Become([ClearDownloadBlockRequests(Mishap(Now), w) EXCEPT !.src[w].conn = FALSE])

(* writeHttpData() has no test between the write and its use of the block. *)
HttpBlockStillPending(st, id) == id \in DOMAIN st.blk

WriteHttpData(st, w, x) ==
  LET pend == st.src[w].pend
      hits == {i \in DOMAIN pend : x \in Covers(st.blk[pend[i].id])}
      id == pend[Min(hits)].id
      Done(s) == LET t == [s EXCEPT !.src[w].session = @ \/ x \in st.gaps]
                 IN  IF x = s.blk[id].e THEN Drop(t, w, id) ELSE t
  IN  IF hits = {} THEN {st}
      ELSE {IF HttpBlockStillPending(s, id) THEN Done(s) ELSE [s EXCEPT !.stale = @ \cup {"writeHttpData"}]
            : s \in WriteToBuffer(st, x)}

(* processHttpBlockPacket() *)
WebBody(w) ==
  /\ w \in Webs /\ CanReceive(w)
  /\ IF src[w].file /\ status = "Ready" /\ src[w].state \in {"Downloading", "NoNeededParts"}
     THEN \E s \in WriteHttpData(Arrived(w), w, Head(src[w].wire)) :
            IF s.src[w].pend = << >> /\ s.stale = {} THEN \E st \in AskWeb(s, w) : Become(st) ELSE Become(s)
     ELSE Become(Disconnected(Arrived(w), w))

(* The server closes a connection with nothing going on. *)
WebHangUp(w) ==
  /\ w \in Webs /\ src[w].conn /\ src[w].pend = << >> /\ src[w].wire = << >>
  /\ Become(Disconnected(Now, w))

-----------------------------------------------------------------------------
(* A part from the HTTP cache (HttpCacheClient): beginFetch(), consumeStagedBlocks(), finish(). *)
CacheBegin(p) ==
  LET starts == {x \in gaps \cap PartCells(p) : x % BlockLen = 0 \/ x - 1 \notin gaps}
      all == {NextEmptyBlock(Now, p, x) : x \in starts}
      free == {r \in all : \A i \in Entries(Now) : blk[i].s > r.e \/ blk[i].e < r.s}
      order == SetToSortSeq(free, LAMBDA a, b : a.s < b.s)
      st == FoldLeft(LAMBDA s, r : Reserve(s, None, r), Mishap(Now), order)
  IN  /\ left > 0 /\ cache = NoFetch /\ free # {}
      /\ Become([st EXCEPT !.cache = [part |-> p, pos |-> 0, file |-> TRUE,
                                      blocks |-> SubSeq(st.list, Len(list) + 1, Len(st.list))]])

(* The part is written from left to right; a server that ignores the range of a resumed request
   sends it from its start again. *)
CacheWrite ==
  /\ cache.file /\ cache.pos < PartLen
  /\ LET x == cache.part * PartLen + cache.pos
         st == [Now EXCEPT !.cache.pos = @ + 1]
     IN  \E s \in IF status = "Ready" \/ x \notin gaps THEN WriteToBuffer(st, x) ELSE FlushBuffer(InBuffer(st, x)) :
           Become(s)

CacheRestart ==
  /\ cache.file /\ cache.pos \in 1..(PartLen - 1)
  /\ Become([Now EXCEPT !.cache.pos = 0])

(* releaseReservedBlocks() takes the blocks off the list by their range; a fetch that is no
   longer a source of the file takes the file for gone and only frees them. *)
CacheEnd ==
  LET ids == {cache.blocks[i] : i \in DOMAIN cache.blocks}
      Release(s, i) == RemoveRange(s, blk[i].s, blk[i].e)
      off == IF cache.file THEN FoldLeft(Release, Now, cache.blocks) ELSE Now
  IN  /\ cache # NoFetch
      /\ Become([Free(off, ids) EXCEPT
                   !.cache = NoFetch,
                   !.stale = IF ids \cap Entries(off) = {} THEN @ ELSE @ \cup {"releaseReservation"}])

-----------------------------------------------------------------------------
(* The user, and the file's timer. *)
UserPause ==
  /\ left > 0 /\ status \in {"Ready", "Insufficient"}
  /\ Become(PauseFile(Mishap(Now), "Paused"))

(* stopFile(): paused, without sources, and flushed. *)
UserStop ==
  LET gone == FoldLeft(RemoveSource, PauseFile(Mishap(Now), "Stopped"), ClientSeq)
      st == [gone EXCEPT !.cache.file = FALSE]
  IN  /\ left > 0 /\ status \in {"Ready", "Paused", "Insufficient"}
      /\ \E s \in IF st.buffered = {} THEN {st} ELSE FlushBuffer(st) : Become(s)

ResumeFile ==
  /\ status \in {"Paused", "Insufficient", "Stopped"}
  /\ Become([Now EXCEPT !.status = "Ready"])

CanFlush == status = "Ready" /\ buffered # {} /\ flushing = {}
FlushTick ==
  /\ CanFlush
  /\ \E st \in FlushBufferAsync(Now) : Become(st)

FlushDone ==
  /\ flushing # {}
  /\ \E st \in ApplyFlushResult(Now) : Become(st)

PeerNext(c) == BlockPacket(c) \/ RoguePacket(c) \/ AbandonedExpires(c) \/ AcceptUpload(c)
               \/ DeclineUpload(c) \/ PeerStops(c)
SourceNext(c) == DownloadTimeout(c) \/ ConnectionLost(c) \/ Leave(c) \/ Join(c) \/ Reask(c)
WebNext(w) == WebConnect(w) \/ WebHead(w) \/ WebBody(w) \/ WebHangUp(w)
CacheNext == (\E p \in Parts : CacheBegin(p)) \/ CacheWrite \/ CacheRestart \/ CacheEnd
FileNext == UserPause \/ UserStop \/ ResumeFile \/ FlushTick \/ FlushDone

Next ==
  \/ \E c \in Peers : PeerNext(c)
  \/ \E c \in Clients : SourceNext(c)
  \/ \E w \in Webs : WebNext(w)
  \/ CacheNext
  \/ FileNext

Spec == Init /\ [][Next]_vars

(* Honest peers give slots, send what they were asked for and stop when told to; they are found
   again and asked again. Web servers answer. A source that sends nothing is timed out. The flush
   timer runs, the worker answers, a fetch from the cache ends, and a file that waits for disk
   space is resumed when there is some. The predicates are the guards of these steps, which never
   fail and always change something: each conjunct is weak fairness of its step. *)
PeerStep(c) == BlockPacket(c) \/ AcceptUpload(c) \/ PeerStops(c) \/ Join(c) \/ Reask(c)
WebStep(w) == WebHead(w) \/ WebBody(w)
Halted == stale # {}
Fairness ==
  /\ \A c \in Peers \ Rogues :
       []<>(Halted \/ ~(CanReceive(c) \/ CanAccept(c) \/ CanJoin(c) \/ CanReask(c))) \/ []<><<PeerStep(c)>>_vars
  /\ \A c \in Clients \ Rogues : []<>(Halted \/ ~CanTimeOut(c)) \/ []<><<DownloadTimeout(c)>>_vars
  /\ \A w \in Webs : []<>(Halted \/ ~(CanReceive(w) \/ CanAnswer(w))) \/ []<><<WebStep(w)>>_vars
  /\ []<>(Halted \/ cache = NoFetch) \/ []<><<CacheEnd>>_vars
  /\ []<>(Halted \/ ~CanFlush) \/ []<><<FlushTick>>_vars
  /\ []<>(Halted \/ flushing = {}) \/ []<><<FlushDone>>_vars
  /\ []<>(Halted \/ status # "Insufficient") \/ []<><<ResumeFile>>_vars
FairSpec == Spec /\ Fairness

-----------------------------------------------------------------------------
Ids == (Clients \cup {None}) \X Cells \X Nat
SourceState == {"None", "OnQueue", "Downloading", "NoNeededParts"}

(* The types of the variables. *)
TypeOK ==
  /\ gaps \subseteq Cells /\ buffered \subseteq Cells \ gaps /\ flushing \subseteq Cells
  /\ changed \subseteq Parts /\ corrupted \subseteq Parts
  /\ status \in {"Ready", "Paused", "Insufficient", "Stopped", "Completing"}
  /\ \A i \in DOMAIN blk : /\ blk[i].s \in Cells /\ blk[i].e \in blk[i].s .. BlockEnd(blk[i].s)
                          /\ blk[i].holder \in Clients \cup {None} /\ blk[i].requested \in BOOLEAN
  /\ list \in Seq(Ids) /\ left \in 0..MaxMishaps
  /\ \A c \in Clients : /\ src[c].state \in SourceState /\ src[c].wire \in Seq(Cells)
                        /\ src[c].abandoned \in Seq([s : Cells, e : Cells])
                        /\ src[c].unmatched \in 0..(MaxUnmatched - 1)
                        /\ {src[c].file, src[c].conn, src[c].session, src[c].overdue} \subseteq BOOLEAN
  /\ reopened \subseteq Parts /\ cache.part \in 0..NParts /\ cache.pos \in 0..PartLen /\ cache.file \in BOOLEAN
  /\ stale \subseteq {"processBlockPacket", "writeHttpData", "releaseReservation"}

PendOf(c) == IdsOf(src[c].pend)
CacheIds == {cache.blocks[i] : i \in DOMAIN cache.blocks}

(* The list of reserved blocks holds plain pointers. Whatever pauses, timeouts, departures, lost
   connections and failed writes do to the sources, each points to a block that is alive and that
   the source it names, or the fetch from the cache, still owns; every block alive has one owner,
   so none is leaked or freed twice; no peer holds one while the file is idle. The write of a
   packet can pause the file and so free the very block being written: the packet handler does
   not touch it afterwards. *)
ReservationsAreOwned ==
  /\ "processBlockPacket" \notin stale
  /\ stale = {} =>
       /\ \A i \in Entries(Now) : /\ i \in DOMAIN blk
                                  /\ IF blk[i].holder = None THEN i \in CacheIds
                                     ELSE i \in PendOf(blk[i].holder) /\ src[blk[i].holder].file
       /\ IsInjective(list)
       /\ DOMAIN blk = CacheIds \cup UNION {PendOf(c) : c \in Clients}
       /\ \A c \in Clients : /\ PendOf(c) \cap CacheIds = {}
                             /\ \A d \in Clients \ {c} : PendOf(c) \cap PendOf(d) = {}
       /\ status \in {"Paused", "Insufficient", "Stopped"} =>
            \A c \in Peers : src[c].state # "Downloading" /\ src[c].pend = << >>

(* A block is held by two sources at most, however many of them are idle near the end of the
   download, and by nobody twice: maySecondSourceTake() decides from what is on the list while
   blocks are cut short, given back and opened again under it. *)
AtMostTwoHolders ==
  stale = {} =>
    \A x \in Cells : LET on == {i \in Entries(Now) : x \in Covers(blk[i])}
                     IN  Cardinality(on) <= 2 /\ Cardinality({blk[i].holder : i \in on}) = Cardinality(on)

(* A peer that sends what it was asked for is not charged with data nobody asked for, though
   another source may have filled its block meanwhile and the block been given up: as long as no
   part has been opened again, and in every session in which the rest of each block given up was
   there within kUnmatchedWindowMs. *)
HonestAreNotBlamed ==
  reopened = {} => \A c \in Peers \ Rogues : ~src[c].overdue => src[c].unmatched = 0

(* "Packets still under way for a block we gave up are not held against the peer"
   (DownloadClient.cpp:1014): the same however slow the peer is. It does not hold: the range is
   forgotten after kUnmatchedWindowMs, and a peer that needs longer for the rest of the block is
   charged with it. *)
SlowAreNotBlamed == reopened = {} => \A c \in Peers \ Rogues : src[c].unmatched = 0

(* The same whatever becomes of the parts, for a peer in time. It does not hold: a late packet of
   a block given up before its part was opened again passes for the end of the block asked for
   now, and what the peer then sends of that block is data nobody asked for. *)
HonestAreNeverBlamed == \A c \in Peers \ Rogues : ~src[c].overdue => src[c].unmatched = 0

(* A peer given a slot that holds no block is waiting for the verdict on the last parts, and for
   nothing else: it is asked again when the verdict leaves something to get. *)
IdleAwaitsVerdict ==
  stale = {} /\ status = "Ready" =>
    \A c \in Peers : src[c].file /\ src[c].state = "Downloading" /\ src[c].pend = << >> => AwaitsFinalVerdict(Now)

(* releaseReservedBlocks() gets every block reserved for a fetch from the cache (PartFile.h:371),
   so that none is freed while it is on the list. It does not hold: a stopped file drops the
   fetch as a source, and releaseReservation() then takes the file for gone. *)
CacheReservationIsReturned == "releaseReservation" \notin stale

(* A reserved block is alive as long as the client has it pending (PartFile.cpp:1261), so that
   writeHttpData() may use it after the write. It does not hold: the write may pause the file. *)
HttpBlockAlive == "writeHttpData" \notin stale

(* A download that is not left paused or stopped ends, whatever the order in which its sources
   take, lose and give back blocks, as long as the peers that send nothing useful are in the end
   not given slots any more (a packet for a block whose stream does not inflate counts as progress,
   so such a peer is never timed out). *)
DownloadEnds ==
  (\A c \in Rogues : <>[](src[c].state # "Downloading")) =>
    \/ <>(status = "Completing")
    \/ <>[](status \in {"Paused", "Stopped"})
    \/ <>(stale # {})

=============================================================================

------------------------ MODULE UploadBlocks_proofs -------------------------
(***************************************************************************)
(* Proofs about the blocks a peer asks for, for any numbers of clients,    *)
(* files and blocks and any limits: the lists of a slot, the counter of    *)
(* bytes being read and the reads under way agree; and within one slot on  *)
(* one connection its accounts are true and its reads are sound.           *)
(***************************************************************************)
EXTENDS UploadBlocks, InductionLemmas, FiniteSetTheorems

-----------------------------------------------------------------------------
(***************************************************************************)
(* Lists of pending blocks.                                                *)
(***************************************************************************)
Request == [block : Blocks, readQueued : BOOLEAN]

(* The blocks of the list, and those marked as being read. *)
BlocksIn(s) == {b \in Blocks : \E i \in 1..Len(s) : s[i].block = b}
MarkedIn(s) == {b \in Blocks : \E i \in 1..Len(s) : s[i].block = b /\ s[i].readQueued}

(* No block is on it twice. *)
Once(s) == \A i, j \in 1..Len(s) : s[i].block = s[j].block => i = j

(* What can be said of the empty list. *)
LEMMA EmptyList ==
  /\ << >> \in Seq(Request) /\ BlocksIn(<< >>) = {} /\ MarkedIn(<< >>) = {} /\ Once(<< >>)
  /\ Cardinality({}) = 0
  BY FS_EmptySet DEF BlocksIn, MarkedIn, Once

(* The marked blocks are blocks of the list, and finitely many. *)
LEMMA MarkedFacts ==
  ASSUME NEW s \in Seq(Request)
  PROVE  /\ MarkedIn(s) \subseteq BlocksIn(s) /\ BlocksIn(s) \subseteq Blocks
         /\ IsFiniteSet(BlocksIn(s)) /\ IsFiniteSet(MarkedIn(s))
         /\ Cardinality(MarkedIn(s)) \in Nat
<1>1. MarkedIn(s) \subseteq BlocksIn(s) /\ BlocksIn(s) \subseteq Blocks
  BY DEF MarkedIn, BlocksIn
<1>2. IsFiniteSet(BlocksIn(s))
  <2> DEFINE f == [i \in 1..Len(s) |-> s[i].block]
             D == 1..Len(s)
  <2>1. IsFiniteSet(D)
    BY FS_Interval
  <2>2. f \in Surjection(D, BlocksIn(s))
    <3>1. \A i \in 1..Len(s) : s[i] \in Request
      OBVIOUS
    <3>2. f \in [D -> BlocksIn(s)]
      BY <3>1 DEF BlocksIn, Request
    <3>3. \A b \in BlocksIn(s) : \E i \in D : f[i] = b
      BY DEF BlocksIn
    <3> QED
      BY <3>2, <3>3 DEF Surjection
  <2> QED
    BY <2>1, <2>2, FS_Surjection
<1> QED
  BY <1>1, <1>2, FS_Subset, FS_CardinalityType

(* A block is added at the end. *)
LEMMA AppendRequest ==
  ASSUME NEW s \in Seq(Request), NEW r \in Request
  PROVE  /\ Append(s, r) \in Seq(Request)
         /\ BlocksIn(Append(s, r)) = BlocksIn(s) \cup {r.block}
         /\ MarkedIn(Append(s, r)) = MarkedIn(s) \cup (IF r.readQueued THEN {r.block} ELSE {})
         /\ Once(s) /\ r.block \notin BlocksIn(s) => Once(Append(s, r))
<1> DEFINE t == Append(s, r)
           n == Len(s)
<1>1. /\ t \in Seq(Request) /\ Len(t) = n + 1 /\ n \in Nat
      /\ (\A i \in 1..n : t[i] = s[i]) /\ t[n + 1] = r
  BY AppendFacts
<1>2. r.block \in Blocks /\ r.readQueued \in BOOLEAN
  BY DEF Request
<1>3. \A i \in 1..(n + 1) : i \in 1..n \/ i = n + 1
  BY <1>1
<1>4. \A i \in 1..n : i \in 1..(n + 1)
  BY <1>1
<1>5. n + 1 \in 1..(n + 1)
  BY <1>1
<1>6. \A i \in 1..n : s[i].block \in Blocks
  <2>1. \A i \in 1..n : s[i] \in Request
    OBVIOUS
  <2> QED
    BY <2>1 DEF Request
<1> HIDE DEF t
<1>7. BlocksIn(t) = BlocksIn(s) \cup {r.block}
  BY <1>1, <1>2, <1>3, <1>4, <1>5, Zenon DEF BlocksIn, n
<1>8. MarkedIn(t) = MarkedIn(s) \cup (IF r.readQueued THEN {r.block} ELSE {})
  BY <1>1, <1>2, <1>3, <1>4, <1>5 DEF MarkedIn
<1>9. ASSUME Once(s), r.block \notin BlocksIn(s) PROVE Once(t)
  <2>1. \A i \in 1..n : s[i].block # r.block
    BY <1>6, <1>9 DEF BlocksIn
  <2> QED
    BY <1>1, <1>3, <1>9, <2>1 DEF Once
<1> QED
  BY <1>1, <1>7, <1>8, <1>9 DEF t

(* A place of the list is removed. *)
LEMMA RemoveRequest ==
  ASSUME NEW s \in Seq(Request), NEW i \in 1..Len(s), Once(s)
  PROVE  /\ RemoveAt(s, i) \in Seq(Request) /\ Once(RemoveAt(s, i))
         /\ BlocksIn(RemoveAt(s, i)) = BlocksIn(s) \ {s[i].block}
         /\ MarkedIn(RemoveAt(s, i)) = MarkedIn(s) \ {s[i].block}
<1> DEFINE t == RemoveAt(s, i)
           n == Len(s)
           from(j) == IF j < i THEN j ELSE j + 1
<1>1. /\ t \in Seq(Request) /\ Len(t) = n - 1 /\ n \in Nat \ {0}
      /\ \A j \in 1..(n - 1) : t[j] = s[from(j)]
  <2> DEFINE a == SubSeq(s, 1, i - 1)
             b == SubSeq(s, i + 1, n)
  <2>0. n \in Nat /\ i \in 1..n
    OBVIOUS
  <2>1. a \in Seq(Request) /\ Len(a) = i - 1 /\ \A j \in 1..(i - 1) : a[j] = s[j]
    OBVIOUS
  <2>2. b \in Seq(Request) /\ Len(b) = n - i /\ \A j \in 1..(n - i) : b[j] = s[i + j]
    OBVIOUS
  <2>3. t = a \o b
    BY DEF RemoveAt
  <2> HIDE DEF a, b, t
  <2>4. /\ a \o b \in Seq(Request) /\ Len(a \o b) = Len(a) + Len(b)
        /\ (\A j \in 1..Len(a) : (a \o b)[j] = a[j])
        /\ \A j \in 1..Len(b) : (a \o b)[Len(a) + j] = b[j]
    <3>1. a \in Seq(Request) /\ b \in Seq(Request)
      BY <2>1, <2>2
    <3> QED
      BY ONLY <3>1, ConcatFacts
  <2>5. ASSUME NEW j \in 1..(n - 1) PROVE t[j] = s[from(j)]
    <3>1. CASE j < i
      BY <3>1, <2>0, <2>1, <2>3, <2>4
    <3>2. CASE ~(j < i)
      <4>1. j - (i - 1) \in 1..(n - i) /\ (i - 1) + (j - (i - 1)) = j /\ i + (j - (i - 1)) = j + 1
        BY <3>2, <2>0
      <4>2. t[(i - 1) + (j - (i - 1))] = b[j - (i - 1)]
        BY <2>1, <2>2, <2>3, <2>4, <4>1
      <4> QED
        BY <2>2, <3>2, <4>1, <4>2
    <3> QED
      BY <3>1, <3>2
  <2> QED
    BY <2>0, <2>1, <2>2, <2>3, <2>4, <2>5
<1> HIDE DEF t
<1>2. \A j \in 1..(n - 1) : from(j) \in 1..n /\ from(j) # i
  BY <1>1
<1>3. \A j \in 1..n : j # i => \E l \in 1..(n - 1) : from(l) = j
  <2>1. ASSUME NEW j \in 1..n, j # i PROVE \E l \in 1..(n - 1) : from(l) = j
    <3>1. CASE j < i
      BY <3>1, <1>1
    <3>2. CASE j > i
      <4>1. j - 1 \in 1..(n - 1) /\ from(j - 1) = j
        BY <3>2, <1>1
      <4> QED
        BY <4>1
    <3> QED
      BY <2>1, <3>1, <3>2
  <2> QED
    BY <2>1
<1>4. \A j, l \in 1..(n - 1) : from(j) = from(l) => j = l
  BY <1>1
<1>5. \A j \in 1..n : j # i => s[j].block # s[i].block
  BY DEF Once
<1> DEFINE N == 1..n
           M == 1..(n - 1)
<1>9. /\ \A j \in M : from(j) \in N /\ from(j) # i /\ t[j] = s[from(j)]
      /\ \A j \in N : j # i => \E l \in M : from(l) = j
      /\ \A j, l \in M : from(j) = from(l) => j = l
      /\ 1..Len(t) = M /\ 1..Len(s) = N /\ i \in N
  BY <1>1, <1>2, <1>3, <1>4
<1> HIDE DEF from, N, M
<1>6. Once(t)
  <2>1. \A j, l \in N : s[j].block = s[l].block => j = l
    BY <1>9 DEF Once
  <2>2. ASSUME NEW j \in M, NEW l \in M, t[j].block = t[l].block PROVE j = l
    <3>1. from(j) \in N /\ from(l) \in N /\ t[j] = s[from(j)] /\ t[l] = s[from(l)]
      BY <1>9
    <3>2. from(j) = from(l)
      BY <2>1, <2>2, <3>1
    <3> QED
      BY <1>9, <3>2
  <2> QED
    BY <1>9, <2>2 DEF Once
<1>10. ASSUME NEW j \in M PROVE t[j].block # s[i].block /\ \E l \in N : s[l] = t[j]
  <2>1. from(j) \in N /\ from(j) # i /\ t[j] = s[from(j)]
    BY <1>9
  <2>2. s[from(j)].block # s[i].block
    BY <2>1, <1>5 DEF N
  <2> QED
    BY <2>1, <2>2
<1>11. ASSUME NEW j \in N, s[j].block # s[i].block PROVE \E l \in M : t[l] = s[j]
  <2>1. PICK l \in M : from(l) = j
    BY <1>9, <1>11
  <2> QED
    BY <2>1, <1>9
<1>7. BlocksIn(t) = BlocksIn(s) \ {s[i].block}
  <2>1. BlocksIn(t) = {b \in Blocks : \E l \in M : t[l].block = b}
    BY <1>9 DEF BlocksIn
  <2>2. BlocksIn(s) = {b \in Blocks : \E l \in N : s[l].block = b}
    BY <1>9 DEF BlocksIn
  <2> QED
    BY <2>1, <2>2, <1>10, <1>11
<1>8. MarkedIn(t) = MarkedIn(s) \ {s[i].block}
  <2>1. MarkedIn(t) = {b \in Blocks : \E l \in M : t[l].block = b /\ t[l].readQueued}
    BY <1>9 DEF MarkedIn
  <2>2. MarkedIn(s) = {b \in Blocks : \E l \in N : s[l].block = b /\ s[l].readQueued}
    BY <1>9 DEF MarkedIn
  <2> QED
    BY <2>1, <2>2, <1>10, <1>11
<1> QED
  BY <1>1, <1>6, <1>7, <1>8 DEF t

(* The mark of a block is cleared. *)
Unmarked(s, i) == [s EXCEPT ![i].readQueued = FALSE]

(* Clearing a mark takes that block from the marked ones and no other. *)
LEMMA UnmarkRequest ==
  ASSUME NEW s \in Seq(Request), NEW i \in 1..Len(s), Once(s)
  PROVE  /\ Unmarked(s, i) \in Seq(Request) /\ Once(Unmarked(s, i))
         /\ BlocksIn(Unmarked(s, i)) = BlocksIn(s)
         /\ MarkedIn(Unmarked(s, i)) = MarkedIn(s) \ {s[i].block}
<1> DEFINE r == [s[i] EXCEPT !.readQueued = FALSE]
           t == [s EXCEPT ![i] = r]
           n == Len(s)
<1>0. s[i] \in Request
  OBVIOUS
<1>1. s[i] \in Request /\ r \in Request /\ r.block = s[i].block /\ r.readQueued = FALSE
  BY <1>0 DEF Request
<1> HIDE DEF r
<1>2. t \in Seq(Request) /\ Len(t) = n /\ t[i] = r /\ \A j \in 1..n : j # i => t[j] = s[j]
  BY <1>1
<1> HIDE DEF t
<1>3. \A j \in 1..n : t[j].block = s[j].block
  BY <1>1, <1>2
<1>4. \A j \in 1..n : j # i => s[j].block # s[i].block
  BY DEF Once
<1>5. Once(t) /\ BlocksIn(t) = BlocksIn(s)
  BY <1>2, <1>3 DEF Once, BlocksIn
<1>6. MarkedIn(t) = MarkedIn(s) \ {s[i].block}
  BY <1>1, <1>2, <1>3, <1>4 DEF MarkedIn
<1> QED
  BY <1>2, <1>5, <1>6 DEF Unmarked, t, r

(* As many entries are marked as blocks are. *)
LEMMA CountMarked ==
  ASSUME NEW s \in Seq(Request), Once(s)
  PROVE  Cardinality({i \in DOMAIN s : s[i].readQueued}) = Cardinality(MarkedIn(s))
<1> DEFINE D == {i \in DOMAIN s : s[i].readQueued}
           f == [i \in D |-> s[i].block]
<1>0. \A i \in 1..Len(s) : s[i] \in Request
  OBVIOUS
<1>1. DOMAIN s = 1..Len(s) /\ \A i \in 1..Len(s) : s[i].block \in Blocks
  BY <1>0 DEF Request
<1>2. f \in [D -> MarkedIn(s)]
  BY <1>1 DEF MarkedIn
<1>3. \A i, j \in D : f[i] = f[j] => i = j
  BY <1>1 DEF Once
<1>4. \A b \in MarkedIn(s) : \E i \in D : f[i] = b
  BY <1>1 DEF MarkedIn
<1>5. f \in Bijection(D, MarkedIn(s))
  <2> HIDE DEF f
  <2> QED
    BY <1>2, <1>3, <1>4 DEF Bijection, Injection, Surjection, IsInjective
<1>6. IsFiniteSet(D)
  BY <1>1, FS_Interval, FS_Subset
<1> HIDE DEF f
<1>7. ExistsBijection(D, MarkedIn(s))
  BY <1>5 DEF ExistsBijection
<1> QED
  BY <1>6, <1>7, FS_Bijection

-----------------------------------------------------------------------------
(***************************************************************************)
(* What is asked of the worker: in a queue of reads or of events.          *)
(***************************************************************************)

(* The blocks asked for client c, and that none is asked twice. *)
AskedBy(c, s) == {b \in Blocks : \E i \in 1..Len(s) : s[i].client = c /\ s[i].block = b}
OnceBy(c, s) == \A i, j \in 1..Len(s) :
                  s[i].client = c /\ s[j].client = c /\ s[i].block = s[j].block => i = j

(* One more at the end of a queue. *)
LEMMA AppendAsked ==
  ASSUME NEW X, NEW s \in Seq(X), NEW x \in X, x.block \in Blocks, NEW c
  PROVE  /\ Append(s, x) \in Seq(X)
         /\ AskedBy(c, Append(s, x)) = AskedBy(c, s) \cup (IF x.client = c THEN {x.block} ELSE {})
         /\ OnceBy(c, s) /\ (x.client = c => x.block \notin AskedBy(c, s))
              => OnceBy(c, Append(s, x))
<1> DEFINE t == Append(s, x)
           n == Len(s)
<1>1. /\ t \in Seq(X) /\ Len(t) = n + 1 /\ n \in Nat
      /\ (\A i \in 1..n : t[i] = s[i]) /\ t[n + 1] = x
  BY AppendFacts
<1>2. /\ \A i \in 1..(n + 1) : i \in 1..n \/ i = n + 1
      /\ \A i \in 1..n : i \in 1..(n + 1)
      /\ n + 1 \in 1..(n + 1)
  BY <1>1
<1> HIDE DEF t
<1>3. AskedBy(c, t) = AskedBy(c, s) \cup (IF x.client = c THEN {x.block} ELSE {})
  <2>1. AskedBy(c, t) = {b \in Blocks : \E i \in 1..(n + 1) : t[i].client = c /\ t[i].block = b}
    BY <1>1 DEF AskedBy
  <2>2. AskedBy(c, s) = {b \in Blocks : \E i \in 1..n : s[i].client = c /\ s[i].block = b}
    BY DEF AskedBy
  <2> HIDE DEF n
  <2> QED
    BY <1>1, <1>2, <2>1, <2>2
<1>4. ASSUME OnceBy(c, s), x.client = c => x.block \notin AskedBy(c, s) PROVE OnceBy(c, t)
  <2>1. \A i \in 1..n : ~(s[i].client = c /\ x.client = c /\ s[i].block = x.block)
    BY <1>4 DEF AskedBy
  <2> QED
    BY <1>1, <1>2, <1>4, <2>1 DEF OnceBy
<1> QED
  BY <1>1, <1>3, <1>4 DEF t

(* The head of a queue is taken. *)
LEMMA TailAsked ==
  ASSUME NEW X, NEW s \in Seq(X), s # << >>, Head(s).block \in Blocks, NEW c
  PROVE  /\ Head(s) \in X /\ Tail(s) \in Seq(X)
         /\ AskedBy(c, s) = AskedBy(c, Tail(s))
                              \cup (IF Head(s).client = c THEN {Head(s).block} ELSE {})
         /\ OnceBy(c, s) => /\ OnceBy(c, Tail(s))
                            /\ Head(s).client = c => Head(s).block \notin AskedBy(c, Tail(s))
<1> DEFINE t == Tail(s)
           n == Len(s)
           x == Head(s)
<1>1. /\ t \in Seq(X) /\ Len(t) = n - 1 /\ n \in Nat \ {0}
      /\ (\A i \in 1..(n - 1) : t[i] = s[i + 1]) /\ s[1] = x /\ x \in X
  OBVIOUS
<1>2. /\ \A i \in 1..n : i # 1 => i - 1 \in 1..(n - 1) /\ (i - 1) + 1 = i
      /\ \A i \in 1..(n - 1) : i + 1 \in 1..n /\ i + 1 # 1
      /\ 1 \in 1..n
  BY <1>1
<1> HIDE DEF t, x
<1>3. \A i \in 1..n : i # 1 => \E j \in 1..(n - 1) : s[i] = t[j]
  <2>1. ASSUME NEW i \in 1..n, i # 1 PROVE s[i] = t[i - 1] /\ i - 1 \in 1..(n - 1)
    BY <1>1, <1>2, <2>1
  <2> QED
    BY <2>1
<1>4. AskedBy(c, s) = AskedBy(c, t) \cup (IF x.client = c THEN {x.block} ELSE {})
  <2>1. AskedBy(c, t) = {b \in Blocks : \E i \in 1..(n - 1) : t[i].client = c /\ t[i].block = b}
    BY <1>1 DEF AskedBy
  <2>2. AskedBy(c, s) = {b \in Blocks : \E i \in 1..n : s[i].client = c /\ s[i].block = b}
    BY DEF AskedBy
  <2>3. x.block \in Blocks
    BY DEF x
  <2> HIDE DEF n
  <2>4. \A i \in 1..(n - 1) : \E j \in 1..n : s[j] = t[i]
    BY <1>1, <1>2
  <2>5. \A b \in AskedBy(c, t) : b \in AskedBy(c, s)
    BY <2>1, <2>2, <2>4, ZenonT(60)
  <2>6. x.client = c => x.block \in AskedBy(c, s)
    BY <1>1, <1>2, <2>2, <2>3, Zenon
  <2>7. ASSUME NEW b \in AskedBy(c, s), b \notin AskedBy(c, t) PROVE x.client = c /\ b = x.block
    <3>1. PICK i \in 1..n : s[i].client = c /\ s[i].block = b
      BY <2>2, Zenon
    <3>2. i = 1
      BY <1>3, <2>1, <2>2, <2>7, <3>1, Zenon
    <3> QED
      BY <1>1, <3>1, <3>2
  <2> QED
    BY <2>5, <2>6, <2>7
<1>5. ASSUME OnceBy(c, s) PROVE OnceBy(c, t)
  <2>1. ASSUME NEW i \in 1..(n - 1), NEW j \in 1..(n - 1), t[i].client = c, t[j].client = c,
               t[i].block = t[j].block
        PROVE  i = j
    <3>1. i + 1 = j + 1
      BY <1>1, <1>2, <1>5, <2>1 DEF OnceBy
    <3> QED
      BY <3>1, <1>1
  <2> QED
    BY <1>1, <2>1 DEF OnceBy
<1>6. ASSUME OnceBy(c, s), x.client = c PROVE x.block \notin AskedBy(c, t)
  <2>1. \A i \in 1..(n - 1) : ~(t[i].client = c /\ t[i].block = x.block)
    BY <1>1, <1>2, <1>6 DEF OnceBy
  <2> QED
    BY <1>1, <2>1 DEF AskedBy
<1> QED
  BY <1>1, <1>4, <1>5, <1>6 DEF t, x

-----------------------------------------------------------------------------
(***************************************************************************)
(* startBlockReads().                                                      *)
(***************************************************************************)
FileStates == [shared : BOOLEAN, path : {"part", "incoming"}, hold : BOOLEAN,
               onDisk : {"part", "incoming", "none"}, safe : SUBSET Blocks]

PassStates == [requests : Seq(Request), bytes : Nat, queue : Seq(ReadRequests), go : BOOLEAN]

(* What a queue p of reads holds when the blocks of s have been marked for *)
(* c, where R were pending and q were asked before.                        *)
AskedMore(c, R, q, s, p) ==
  /\ \A d \in Clients : AskedBy(d, p) =
       AskedBy(d, q) \cup (IF d = c THEN MarkedIn(s) \ MarkedIn(R) ELSE {})
  /\ \A d \in Clients : OnceBy(d, q) /\ (d = c => AskedBy(c, q) \subseteq MarkedIn(R))
                          => OnceBy(d, p)

(* What holds after i blocks of the pending list R have been looked at. *)
Passed(c, R, q, i, a) ==
  /\ a \in PassStates
  /\ Once(a.requests)
  /\ BlocksIn(a.requests) \subseteq {R[j].block : j \in 1..i}
  /\ \A j \in 1..i : R[j].readQueued => R[j].block \in MarkedIn(a.requests)
  /\ a.bytes = Cardinality(MarkedIn(R) \cup MarkedIn(a.requests))
  /\ AskedMore(c, R, q, a.requests, a.queue)

(* The block stays as it is. *)
LEMMA PassedKeep ==
  ASSUME NEW c, NEW R \in Seq(Request), Once(R), NEW q, NEW n \in Nat, n + 1 \in 1..Len(R),
         NEW a, Passed(c, R, q, n, a),
         NEW b \in PassStates, b.requests = Append(a.requests, R[n + 1]),
         b.bytes = a.bytes, b.queue = a.queue
  PROVE  Passed(c, R, q, n + 1, b)
<1> DEFINE r == R[n + 1]
           s == a.requests
<1>0. r \in Request /\ s \in Seq(Request)
  BY DEF Passed, PassStates
<1>1. \A j \in 1..n : R[j].block # r.block /\ j \in 1..Len(R)
  <2>1. \A j \in 1..n : j \in 1..Len(R) /\ j # n + 1
    OBVIOUS
  <2> QED
    BY <2>1 DEF Once
<1>2. r.block \notin BlocksIn(s)
  BY <1>1 DEF Passed
<1> HIDE DEF r, s
<1>3. /\ BlocksIn(b.requests) = BlocksIn(s) \cup {r.block}
      /\ MarkedIn(b.requests) = MarkedIn(s) \cup (IF r.readQueued THEN {r.block} ELSE {})
      /\ Once(b.requests)
  <2>1. b.requests = Append(s, r) /\ Once(s)
    BY DEF r, s, Passed
  <2> QED
    BY <1>0, <1>2, <2>1, AppendRequest
<1>4. \A j \in 1..(n + 1) : j \in 1..n \/ j = n + 1
  OBVIOUS
<1>5. BlocksIn(b.requests) \subseteq {R[j].block : j \in 1..(n + 1)}
  <2>1. BlocksIn(s) \subseteq {R[j].block : j \in 1..n}
    BY DEF s, Passed
  <2>2. r.block = R[n + 1].block /\ n + 1 \in 1..(n + 1) /\ \A j \in 1..n : j \in 1..(n + 1)
    BY DEF r
  <2> QED
    BY <1>3, <2>1, <2>2
<1>6. ASSUME NEW j \in 1..(n + 1), R[j].readQueued PROVE R[j].block \in MarkedIn(b.requests)
  <2>1. CASE j \in 1..n
    <3>1. R[j].block \in MarkedIn(s)
      BY <1>6, <2>1 DEF Passed, s
    <3> QED
      BY <1>3, <3>1
  <2>2. CASE j = n + 1
    BY <1>3, <1>6, <2>2 DEF r
  <2> QED
    BY <1>4, <2>1, <2>2
<1>7. r.readQueued => r.block \in MarkedIn(R)
  <2>1. r.block \in Blocks
    BY <1>0 DEF Request
  <2> QED
    BY <2>1 DEF MarkedIn, r
<1>8. /\ MarkedIn(R) \cup MarkedIn(b.requests) = MarkedIn(R) \cup MarkedIn(s)
      /\ MarkedIn(b.requests) \ MarkedIn(R) = MarkedIn(s) \ MarkedIn(R)
  BY <1>3, <1>7
<1>9. b.bytes = Cardinality(MarkedIn(R) \cup MarkedIn(b.requests))
  BY <1>8 DEF Passed, s
<1>10. AskedMore(c, R, q, b.requests, b.queue)
  <2>1. AskedMore(c, R, q, s, b.queue)
    BY DEF Passed, s
  <2> QED
    BY <1>8, <2>1 DEF AskedMore
<1> QED
  BY <1>3, <1>5, <1>6, <1>9, <1>10 DEF Passed

(* The block is not handed on. *)
LEMMA PassedSkip ==
  ASSUME NEW c, NEW R, NEW q, NEW n \in Nat, NEW a, Passed(c, R, q, n, a), ~R[n + 1].readQueued
  PROVE  Passed(c, R, q, n + 1, a)
<1>1. \A j \in 1..(n + 1) : j \in 1..n \/ j = n + 1
  OBVIOUS
<1>2. \A j \in 1..n : j \in 1..(n + 1)
  OBVIOUS
<1>3. \A j \in 1..(n + 1) : R[j].readQueued => R[j].block \in MarkedIn(a.requests)
  BY <1>1 DEF Passed
<1>4. BlocksIn(a.requests) \subseteq {R[j].block : j \in 1..(n + 1)}
  BY <1>2 DEF Passed
<1> QED
  BY <1>3, <1>4 DEF Passed

(* The block is marked and its read handed to the worker. *)
LEMMA PassedMark ==
  ASSUME NEW c \in Clients, NEW R \in Seq(Request), Once(R), NEW q, NEW n \in Nat,
         n + 1 \in 1..Len(R), ~R[n + 1].readQueued, NEW a, Passed(c, R, q, n, a),
         NEW b \in PassStates, NEW m \in Request, m.block = R[n + 1].block, m.readQueued = TRUE,
         b.requests = Append(a.requests, m), b.bytes = a.bytes + 1,
         NEW e \in ReadRequests, e.client = c, e.block = m.block, b.queue = Append(a.queue, e)
  PROVE  Passed(c, R, q, n + 1, b)
<1> DEFINE s == a.requests
           B == R[n + 1].block
           M == MarkedIn(R)
           N == MarkedIn(s)
<1>0. s \in Seq(Request) /\ a.queue \in Seq(ReadRequests) /\ R[n + 1] \in Request
  BY DEF Passed, PassStates
<1>1. \A j \in 1..Len(R) : R[j].block = B => j = n + 1
  BY DEF Once
<1>2. B \in Blocks /\ B \notin M
  <2>1. B \in Blocks
    BY <1>0 DEF Request
  <2> QED
    BY <1>1, <2>1 DEF MarkedIn
<1>3. B \notin BlocksIn(s) /\ B \notin N
  <2>1. \A j \in 1..n : j \in 1..Len(R) /\ j # n + 1
    OBVIOUS
  <2>2. B \notin BlocksIn(s)
    BY <1>1, <2>1 DEF Passed
  <2> QED
    BY <1>0, <2>2, MarkedFacts
<1>4. /\ BlocksIn(b.requests) = BlocksIn(s) \cup {B}
      /\ MarkedIn(b.requests) = N \cup {B} /\ Once(b.requests)
  <2> HIDE DEF B, s
  <2>1. b.requests = Append(s, m) /\ Once(s)
    BY DEF s, Passed
  <2>2. /\ BlocksIn(Append(s, m)) = BlocksIn(s) \cup {m.block}
        /\ MarkedIn(Append(s, m)) = MarkedIn(s) \cup (IF m.readQueued THEN {m.block} ELSE {})
        /\ Once(s) /\ m.block \notin BlocksIn(s) => Once(Append(s, m))
    BY <1>0, AppendRequest
  <2>3. m.block = B
    BY DEF B
  <2> QED
    BY <1>3, <2>1, <2>2, <2>3
<1>5. BlocksIn(b.requests) \subseteq {R[j].block : j \in 1..(n + 1)}
  <2>1. BlocksIn(s) \subseteq {R[j].block : j \in 1..n}
    BY DEF Passed
  <2>2. n + 1 \in 1..(n + 1) /\ \A j \in 1..n : j \in 1..(n + 1)
    OBVIOUS
  <2> QED
    BY <1>4, <2>1, <2>2
<1>6. \A j \in 1..(n + 1) : R[j].readQueued => R[j].block \in MarkedIn(b.requests)
  <2>1. \A j \in 1..(n + 1) : j \in 1..n \/ j = n + 1
    OBVIOUS
  <2> QED
    BY <1>4, <2>1 DEF Passed
<1>7. b.bytes = Cardinality(M \cup MarkedIn(b.requests))
  <2>1. IsFiniteSet(M \cup N) /\ a.bytes = Cardinality(M \cup N)
    BY <1>0, MarkedFacts, FS_Union DEF Passed
  <2>2. M \cup MarkedIn(b.requests) = (M \cup N) \cup {B} /\ B \notin M \cup N
    BY <1>2, <1>3, <1>4
  <2> HIDE DEF B, M, N, s
  <2>3. Cardinality((M \cup N) \cup {B}) = Cardinality(M \cup N) + 1
    BY <2>1, <2>2, FS_AddElement
  <2> QED
    BY <2>1, <2>2, <2>3
<1>8. AskedMore(c, R, q, b.requests, b.queue)
  <2> DEFINE p == a.queue
  <2>1. AskedMore(c, R, q, s, p)
    BY DEF Passed
  <2>2. MarkedIn(b.requests) \ M = (N \ M) \cup {B}
    BY <1>2, <1>4
  <2> HIDE DEF B, M, N, s, p
  <2>3. ASSUME NEW d \in Clients
        PROVE  /\ AskedBy(d, b.queue) = AskedBy(d, p) \cup (IF c = d THEN {B} ELSE {})
               /\ OnceBy(d, p) /\ (c = d => B \notin AskedBy(d, p)) => OnceBy(d, b.queue)
    <3>1. /\ AskedBy(d, Append(p, e)) = AskedBy(d, p) \cup (IF e.client = d THEN {e.block} ELSE {})
          /\ OnceBy(d, p) /\ (e.client = d => e.block \notin AskedBy(d, p)) => OnceBy(d, Append(p, e))
      <4>1. p \in Seq(ReadRequests) /\ e.block \in Blocks
        BY <1>0 DEF p, ReadRequests
      <4> QED
        BY <4>1, AppendAsked
    <3>2. b.queue = Append(p, e) /\ e.block = B
      BY DEF p, B
    <3> QED
      BY <3>1, <3>2
  <2>4. \A d \in Clients : AskedBy(d, b.queue) =
          AskedBy(d, q) \cup (IF d = c THEN MarkedIn(b.requests) \ MarkedIn(R) ELSE {})
    <3> SUFFICES ASSUME NEW d \in Clients
                 PROVE  AskedBy(d, b.queue) =
                          AskedBy(d, q) \cup (IF d = c THEN MarkedIn(b.requests) \ M ELSE {})
      BY DEF M
    <3>1. AskedBy(d, p) = AskedBy(d, q) \cup (IF d = c THEN N \ M ELSE {})
      BY <2>1 DEF AskedMore, M, N
    <3> QED
      BY <2>2, <2>3, <3>1
  <2>5. ASSUME NEW d \in Clients, OnceBy(d, q), d = c => AskedBy(c, q) \subseteq M
        PROVE  OnceBy(d, b.queue)
    <3>1. OnceBy(d, p)
      BY <2>1, <2>5 DEF AskedMore, M
    <3>2. c = d => B \notin AskedBy(d, p)
      <4>1. c = d => AskedBy(d, p) = AskedBy(d, q) \cup (N \ M)
        BY <2>1 DEF AskedMore, M, N
      <4> QED
        BY <1>2, <1>3, <2>5, <4>1
    <3> QED
      BY <2>3, <3>1, <3>2
  <2> QED
    BY <2>4, <2>5 DEF AskedMore, M
<1> QED
  BY <1>4, <1>5, <1>6, <1>7, <1>8 DEF Passed

(* One round of the loop, whichever way it goes. *)
LEMMA PassedRound ==
  ASSUME NEW c \in Clients, NEW k, NEW R \in Seq(Request), Once(R), NEW q, NEW n \in Nat,
         n + 1 \in 1..Len(R), NEW a, Passed(c, R, q, n, a),
         FileOf \in [Blocks -> Files], file \in [Files -> FileStates]
  PROVE  Passed(c, R, q, n + 1, StartBlockRead(c, k, a, R[n + 1]))
<1> DEFINE r == R[n + 1]
           f == file[FileOf[r.block]]
           b == StartBlockRead(c, k, a, r)
           m == [r EXCEPT !.readQueued = TRUE]
           e == [client |-> c, block |-> r.block, path |-> f.path]
<1>0. r \in Request /\ a \in PassStates
  BY DEF Passed
<1>1. r.block \in Blocks /\ r.readQueued \in BOOLEAN /\ f \in FileStates
  BY <1>0 DEF Request
<1>2. m \in Request /\ m.block = r.block /\ m.readQueued = TRUE
  BY <1>0 DEF Request
<1>3. e \in ReadRequests /\ e.client = c /\ e.block = r.block
  BY <1>1 DEF ReadRequests, FileStates
<1>4. a.requests \in Seq(Request) /\ a.bytes \in Nat /\ a.queue \in Seq(ReadRequests)
  BY <1>0 DEF PassStates
<1> DEFINE kept(g) == [a EXCEPT !.requests = Append(@, r), !.go = g]
           marked == [a EXCEPT !.requests = Append(@, m), !.bytes = @ + 1, !.queue = Append(@, e)]
<1>5. \/ b = [a EXCEPT !.requests = Append(@, r)]
      \/ b = [a EXCEPT !.requests = Append(@, r), !.go = FALSE]
      \/ ~r.readQueued /\ b = a
      \/ ~r.readQueued /\ b = marked
  BY DEF StartBlockRead
<1>6. [a EXCEPT !.requests = Append(@, r)] = kept(a.go) /\ a.go \in BOOLEAN
  BY <1>0 DEF PassStates
<1> HIDE DEF b, m, e, f
<1>7. CASE \E g \in BOOLEAN : b = kept(g)
  <2>1. PICK g \in BOOLEAN : b = kept(g)
    BY <1>7
  <2>2. Append(a.requests, r) \in Seq(Request)
    BY <1>0, <1>4, AppendRequest
  <2>3. b \in PassStates /\ b.requests = Append(a.requests, r) /\ b.bytes = a.bytes /\ b.queue = a.queue
    BY <1>0, <2>1, <2>2 DEF PassStates
  <2>4. Passed(c, R, q, n + 1, b)
    BY <2>3, PassedKeep
  <2> QED
    BY <2>4 DEF b
<1>8. CASE ~r.readQueued /\ b = a
  BY <1>8, PassedSkip DEF b
<1>9. CASE ~r.readQueued /\ b = marked
  <2>1. Append(a.requests, m) \in Seq(Request) /\ Append(a.queue, e) \in Seq(ReadRequests)
        /\ a.bytes + 1 \in Nat
    BY <1>2, <1>3, <1>4, AppendFacts
  <2>2. /\ b \in PassStates /\ b.requests = Append(a.requests, m) /\ b.bytes = a.bytes + 1
        /\ b.queue = Append(a.queue, e)
    BY <1>0, <1>9, <2>1 DEF PassStates
  <2>3. Passed(c, R, q, n + 1, b)
    BY <1>2, <1>3, <1>9, <2>2, PassedMark, ZenonT(60)
  <2> QED
    BY <2>3 DEF b
<1> QED
  BY <1>5, <1>6, <1>7, <1>8, <1>9

(* Before the first round. *)
PassBegins(k, q) ==
  [requests |-> << >>, bytes |-> k.blockReadBytesQueued, queue |-> q, go |-> TRUE]

(* f is the function by which StartBlockReads(c, k, q) is defined. *)
IsPass(f, c, k, q) ==
  f = [i \in 0..Len(k.blockRequests) |->
         IF i = 0 THEN PassBegins(k, q) ELSE StartBlockRead(c, k, f[i - 1], k.blockRequests[i])]

(* There is such a function: every round leads from a state of the loop to one. *)
LEMMA PassExists ==
  ASSUME NEW c \in Clients, NEW k, k.blockRequests \in Seq(Request), Once(k.blockRequests),
         k.blockReadBytesQueued \in Nat, NEW q \in Seq(ReadRequests),
         FileOf \in [Blocks -> Files], file \in [Files -> FileStates]
  PROVE  \E f : IsPass(f, c, k, q)
<1> DEFINE R == k.blockRequests
           n == Len(R)
           b == PassBegins(k, q)
           step(i, a) == StartBlockRead(c, k, a, R[i])
           g == [i \in Nat |-> [a \in PassStates |-> IF i + 1 \in 1..n THEN step(i + 1, a) ELSE a]]
<1>0. n \in Nat /\ b \in PassStates
  BY EmptyList DEF PassStates, PassBegins
<1>1. ASSUME NEW i \in 1..n, NEW a \in PassStates PROVE step(i, a) \in PassStates
  <2> DEFINE r == R[i]
             h == file[FileOf[r.block]]
             m == [r EXCEPT !.readQueued = TRUE]
             e == [client |-> c, block |-> r.block, path |-> h.path]
  <2>1. r \in Request
    OBVIOUS
  <2>2. r.block \in Blocks /\ m \in Request
    BY <2>1 DEF Request
  <2>3. e \in ReadRequests
    BY <2>2 DEF ReadRequests, FileStates
  <2> DEFINE s == a.requests
             p == a.queue
  <2>4. s \in Seq(Request) /\ a.bytes \in Nat /\ p \in Seq(ReadRequests)
    BY DEF PassStates
  <2> HIDE DEF m, e, s, p
  <2>5. /\ Append(s, r) \in Seq(Request) /\ Append(s, m) \in Seq(Request)
        /\ Append(p, e) \in Seq(ReadRequests) /\ a.bytes + 1 \in Nat
    BY <2>1, <2>2, <2>3, <2>4, AppendFacts
  <2>6. /\ [a EXCEPT !.requests = Append(@, r)] \in PassStates
        /\ [a EXCEPT !.requests = Append(@, r), !.go = FALSE] \in PassStates
        /\ [a EXCEPT !.requests = Append(@, m), !.bytes = @ + 1, !.queue = Append(@, e)] \in PassStates
    BY <2>5 DEF PassStates, s, p
  <2>7. \/ step(i, a) = [a EXCEPT !.requests = Append(@, r)]
        \/ step(i, a) = [a EXCEPT !.requests = Append(@, r), !.go = FALSE]
        \/ step(i, a) = a
        \/ step(i, a) = [a EXCEPT !.requests = Append(@, m), !.bytes = @ + 1, !.queue = Append(@, e)]
    BY DEF StartBlockRead, m, e
  <2> QED
    BY <2>6, <2>7
<1> HIDE DEF step, b, n
<1>2. g \in [Nat -> [PassStates -> PassStates]]
  BY <1>1
<1>3. PICK h : Iterates(h, PassStates, b, g)
  <2> HIDE DEF g
  <2> QED
    BY <1>0, <1>2, RecursiveFunction
<1> DEFINE f == [i \in 0..n |-> h[i]]
<1>4. ASSUME NEW i \in 0..n
      PROVE  f[i] = IF i = 0 THEN b ELSE step(i, f[i - 1])
  <2>1. CASE i = 0
    BY <1>3, <2>1 DEF Iterates
  <2>2. CASE i # 0
    <3>1. i - 1 \in Nat /\ (i - 1) + 1 = i /\ i - 1 \in 0..n /\ i \in 1..n
      BY <1>0, <2>2
    <3>2. h[(i - 1) + 1] = g[i - 1][h[i - 1]] /\ h[i - 1] \in PassStates
      BY <3>1, <1>3 DEF Iterates
    <3> QED
      BY <3>1, <3>2, <2>2
  <2> QED
    BY <2>1, <2>2
<1>5. f = [i \in 0..n |-> f[i]]
  OBVIOUS
<1> HIDE DEF f, g
<1>6. f = [i \in 0..n |-> IF i = 0 THEN b ELSE step(i, f[i - 1])]
  BY <1>4, <1>5
<1>7. IsPass(f, c, k, q)
  BY <1>6 DEF IsPass, step, b, n
<1> QED
  BY <1>7

(* What the loop ends with. *)
LEMMA PassEnds ==
  ASSUME NEW c \in Clients, NEW k, k.blockRequests \in Seq(Request), Once(k.blockRequests),
         k.blockReadBytesQueued = Cardinality(MarkedIn(k.blockRequests)),
         NEW q \in Seq(ReadRequests),
         FileOf \in [Blocks -> Files], file \in [Files -> FileStates],
         NEW f, IsPass(f, c, k, q)
  PROVE  Passed(c, k.blockRequests, q, Len(k.blockRequests), f[Len(k.blockRequests)])
<1> DEFINE R == k.blockRequests
           N == Len(R)
           S == {n \in Nat : n <= N => Passed(c, R, q, n, f[n])}
<1>0. N \in Nat /\ R \in Seq(Request) /\ Once(R)
  OBVIOUS
<1> HIDE DEF N
<1>1. /\ f[0] = PassBegins(k, q)
      /\ \A i \in 1..N : f[i] = StartBlockRead(c, k, f[i - 1], R[i])
  <2>1. f = [i \in 0..N |-> IF i = 0 THEN PassBegins(k, q) ELSE StartBlockRead(c, k, f[i - 1], R[i])]
    BY DEF IsPass, N
  <2>2. 0 \in 0..N /\ \A i \in 1..N : i \in 0..N /\ i # 0
    BY <1>0
  <2> DEFINE step(i) == StartBlockRead(c, k, f[i - 1], R[i])
  <2> HIDE DEF step
  <2>3. f = [i \in 0..N |-> IF i = 0 THEN PassBegins(k, q) ELSE step(i)]
    BY <2>1 DEF step
  <2>4. f[0] = PassBegins(k, q) /\ \A i \in 1..N : f[i] = step(i)
    BY <2>2, <2>3, Zenon
  <2> QED
    BY <2>4 DEF step
<1>2. 0 \in S
  <2> DEFINE a == PassBegins(k, q)
  <2>1. /\ a \in PassStates /\ a.requests = << >> /\ a.queue = q
        /\ a.bytes = Cardinality(MarkedIn(R))
    BY EmptyList, MarkedFacts DEF PassBegins, PassStates
  <2> HIDE DEF a
  <2>2. MarkedIn(R) \cup MarkedIn(a.requests) = MarkedIn(R) /\ MarkedIn(a.requests) \ MarkedIn(R) = {}
    BY <2>1, EmptyList
  <2>3. AskedMore(c, R, q, a.requests, a.queue)
    BY <2>1, <2>2 DEF AskedMore
  <2>4. Once(a.requests) /\ BlocksIn(a.requests) = {}
    BY <2>1, EmptyList
  <2>5. \A j \in 1..0 : FALSE
    OBVIOUS
  <2>6. a.bytes = Cardinality(MarkedIn(R) \cup MarkedIn(a.requests))
    BY <2>1, <2>2
  <2>7. Passed(c, R, q, 0, a)
    BY <2>1, <2>3, <2>4, <2>5, <2>6, Zenon DEF Passed
  <2> QED
    BY <1>1, <2>7 DEF a
<1>3. ASSUME NEW n \in Nat, n \in S PROVE n + 1 \in S
  <2> SUFFICES ASSUME n + 1 <= N PROVE Passed(c, R, q, n + 1, f[n + 1])
    OBVIOUS
  <2>1. n <= N /\ n + 1 \in 1..N /\ (n + 1) - 1 = n
    BY <1>0
  <2>2. Passed(c, R, q, n, f[n])
    BY <1>3, <2>1
  <2>3. f[n + 1] = StartBlockRead(c, k, f[n], R[n + 1])
    BY <1>1, <2>1
  <2>4. n + 1 \in 1..Len(R)
    BY <2>1 DEF N
  <2> HIDE DEF R
  <2>5. Passed(c, R, q, n + 1, StartBlockRead(c, k, f[n], R[n + 1]))
    BY <1>0, <2>2, <2>4, PassedRound
  <2> QED
    BY <2>3, <2>5
<1>4. Nat \subseteq S
  <2> HIDE DEF S
  <2> QED
    BY <1>2, <1>3, NatInd
<1>5. Passed(c, R, q, N, f[N])
  BY <1>0, <1>4
<1> QED
  BY <1>5 DEF N

(* What startBlockReads() makes of client k and queue q. *)
StartedWith(c, k, q, p, s, n) ==
  /\ p.client = [k EXCEPT !.blockRequests = s, !.blockReadBytesQueued = n]
  /\ p.queue \in Seq(ReadRequests)
  /\ Once(s)
  /\ BlocksIn(s) \subseteq BlocksIn(k.blockRequests)
  /\ MarkedIn(k.blockRequests) \subseteq MarkedIn(s)
  /\ n = Cardinality(MarkedIn(s))
  /\ k.slot # "Uploading" => s = k.blockRequests
  /\ AskedMore(c, k.blockRequests, q, s, p.queue)

Started(c, k, q, p) == \E s \in Seq(Request), n \in Nat : StartedWith(c, k, q, p, s, n)

(* startBlockReads() is a pass over the whole list, with what that gives. *)
LEMMA StartFacts ==
  ASSUME NEW c \in Clients, NEW k \in ClientStates, Once(k.blockRequests),
         k.blockReadBytesQueued = Cardinality(MarkedIn(k.blockRequests)),
         NEW q \in Seq(ReadRequests),
         FileOf \in [Blocks -> Files], file \in [Files -> FileStates]
  PROVE  Started(c, k, q, StartBlockReads(c, k, q))
<1> DEFINE R == k.blockRequests
           p == StartBlockReads(c, k, q)
           f == CHOOSE g : IsPass(g, c, k, q)
           a == f[Len(R)]
<1>0. R \in Seq(Request) /\ k.blockReadBytesQueued \in Nat
  BY DEF ClientStates, Request
<1>1. Passed(c, R, q, Len(R), a)
  <2>1. IsPass(f, c, k, q)
    BY <1>0, PassExists
  <2> QED
    BY <1>0, <2>1, PassEnds
<1>2. p = IF k.slot # "Uploading" THEN [client |-> k, queue |-> q]
          ELSE [client |-> [k EXCEPT !.blockRequests = a.requests, !.blockReadBytesQueued = a.bytes],
                queue |-> a.queue]
  BY DEF StartBlockReads, IsPass, PassBegins
<1> HIDE DEF a, f, p
<1>3. CASE k.slot # "Uploading"
  <2> DEFINE n == k.blockReadBytesQueued
  <2>1. p.client = k /\ p.queue = q
    BY <1>2, <1>3
  <2>2. k = [k EXCEPT !.blockRequests = R, !.blockReadBytesQueued = n]
    BY DEF ClientStates
  <2>3. AskedMore(c, R, q, R, q)
    BY DEF AskedMore
  <2> HIDE DEF R, n
  <2>4. /\ p.client = [k EXCEPT !.blockRequests = R, !.blockReadBytesQueued = n]
        /\ p.queue \in Seq(ReadRequests)
        /\ Once(R) /\ n = Cardinality(MarkedIn(R)) /\ R = k.blockRequests /\ n \in Nat
        /\ AskedMore(c, R, q, R, p.queue)
    BY <1>0, <2>1, <2>2, <2>3 DEF R, n
  <2>5. StartedWith(c, k, q, p, R, n)
    BY <2>4 DEF StartedWith
  <2> QED
    BY <1>0, <2>4, <2>5 DEF Started, R, p
<1>4. CASE k.slot = "Uploading"
  <2> DEFINE s == a.requests
             n == a.bytes
  <2>1. p.client = [k EXCEPT !.blockRequests = s, !.blockReadBytesQueued = n] /\ p.queue = a.queue
    BY <1>2, <1>4
  <2>2. s \in Seq(Request) /\ n \in Nat /\ a.queue \in Seq(ReadRequests) /\ Once(s)
    BY <1>1 DEF Passed, PassStates
  <2>3. BlocksIn(s) \subseteq BlocksIn(R)
    <3>1. \A j \in 1..Len(R) : R[j].block \in BlocksIn(R)
      <4>1. \A j \in 1..Len(R) : R[j] \in Request
        BY <1>0
      <4> QED
        BY <4>1 DEF BlocksIn, Request
    <3> QED
      BY <1>1, <3>1 DEF Passed
  <2>4. MarkedIn(R) \subseteq MarkedIn(s)
    BY <1>1 DEF Passed, MarkedIn
  <2>5. n = Cardinality(MarkedIn(s))
    <3>1. MarkedIn(R) \cup MarkedIn(s) = MarkedIn(s)
      BY <2>4
    <3> QED
      BY <1>1, <3>1 DEF Passed
  <2>6. AskedMore(c, R, q, s, p.queue)
    BY <1>1, <2>1 DEF Passed
  <2> HIDE DEF s, n
  <2> QED
    <3>1. StartedWith(c, k, q, p, s, n)
      BY <1>4, <2>1, <2>2, <2>3, <2>4, <2>5, <2>6, Zenon DEF StartedWith
    <3> QED
      BY <2>2, <3>1 DEF Started, p
<1> QED
  BY <1>3, <1>4 DEF p

-----------------------------------------------------------------------------
(***************************************************************************)
(* A client: its lists agree with each other and with their counter.       *)
(***************************************************************************)
ListsAgree(k) ==
  /\ k \in ClientStates
  /\ Once(k.blockRequests)
  /\ IsInjective(k.doneBlocks)
  /\ ToSet(k.doneBlocks) \cap BlocksIn(k.blockRequests) = {}
  /\ k.blockReadBytesQueued = Cardinality(MarkedIn(k.blockRequests))
  /\ k.slot # "Uploading" => k.blockRequests = << >> /\ k.doneBlocks = << >>

(* A live slot has a socket. *)
Agrees(k) == ListsAgree(k) /\ (k.sock = "none" => k.slot # "Uploading")

(* What it counts as buffered and as done is in its socket or, the latter, has left it. *)
Accounts(k) ==
  /\ k.slot # "None" => k.added = k.sent + k.sentPayload + Len(k.sendQueue)
  /\ k.slot # "None" =>
       \A j \in 1..Len(k.sendQueue) : k.sendQueue[j].mark = k.sent + k.sentPayload + j
  /\ k.slot = "Connecting" => k.sendQueue = << >> /\ k.sentPayload = 0
  /\ \A i \in 1..Len(k.doneBlocks) :
       \/ k.doneBlocks[i] \in k.out
       \/ \E j \in 1..Len(k.sendQueue) : k.sendQueue[j].block = k.doneBlocks[i]

(* The types of its parts. *)
LEMMA ClientFields ==
  ASSUME NEW k \in ClientStates
  PROVE  /\ k.slot \in {"None", "Connecting", "Uploading"}
         /\ k.sock \in {"none", "dialling", "open"}
         /\ k.banned \in BOOLEAN /\ k.reqUpFile \in Files
         /\ k.blockRequests \in Seq(Request) /\ k.blockReadBytesQueued \in Nat
         /\ k.doneBlocks \in Seq(Blocks) /\ k.added \in Nat /\ k.sent \in Nat
         /\ k.unconfirmed \in Seq(Packets) /\ k.deliveries \in [Blocks -> 0 .. MaxDeliveries]
         /\ k.sendQueue \in Seq(Packets) /\ k.sentPayload \in Nat /\ k.out \in SUBSET Blocks
  BY DEF ClientStates, Request

(* What fields are reset to. *)
LEMMA EmptyFields ==
  /\ << >> \in Seq([block : Blocks, readQueued : BOOLEAN]) /\ << >> \in Seq(Blocks)
  /\ << >> \in Seq(Packets) /\ {} \in SUBSET Blocks /\ 0 \in Nat
  /\ "None" \in {"None", "Connecting", "Uploading"}
  OBVIOUS

(* What the empty lists of a client without a live slot are worth. *)
LEMMA NoLists ==
  ASSUME NEW k \in ClientStates, k.blockRequests = << >>, k.doneBlocks = << >>,
         k.blockReadBytesQueued = 0
  PROVE  ListsAgree(k)
<1>1. IsInjective(<< >>) /\ ToSet(<< >>) = {}
  BY DEF IsInjective, ToSet
<1> QED
  BY <1>1, EmptyList DEF ListsAgree

(* removeFromUploadQueue() *)
LEMMA RemoveFacts ==
  ASSUME NEW k, ListsAgree(k)
  PROVE  /\ Agrees(RemoveFromUploadQueue(k)) /\ Accounts(RemoveFromUploadQueue(k))
         /\ RemoveFromUploadQueue(k).slot = "None"
         /\ RemoveFromUploadQueue(k).blockRequests = << >>
         /\ RemoveFromUploadQueue(k).sent = k.sent
         /\ RemoveFromUploadQueue(k).sendQueue = k.sendQueue
<1>1. k \in ClientStates
  BY DEF ListsAgree
<1>2. CASE k.slot = "None"
  <2>1. RemoveFromUploadQueue(k) = k
    BY <1>2 DEF RemoveFromUploadQueue
  <2>2. k.blockRequests = << >> /\ k.doneBlocks = << >>
    BY <1>2 DEF ListsAgree
  <2>3. Agrees(k)
    BY <1>2 DEF Agrees
  <2>4. Accounts(k)
    BY <1>2, <2>2 DEF Accounts
  <2> QED
    BY <1>2, <2>1, <2>2, <2>3, <2>4
<1>3. CASE k.slot # "None"
  <2> DEFINE l == RemoveFromUploadQueue(k)
  <2>1. l = [k EXCEPT !.slot = "None", !.blockRequests = << >>, !.blockReadBytesQueued = 0,
                      !.doneBlocks = << >>, !.unconfirmed = << >>, !.out = {}]
    BY <1>3, <1>1 DEF RemoveFromUploadQueue, FlushSendBlocks, ClientStates
  <2>2. l \in ClientStates
    BY <2>1, <1>1, EmptyFields, ZenonT(60) DEF ClientStates
  <2>3. /\ l.slot = "None" /\ l.blockRequests = << >> /\ l.blockReadBytesQueued = 0
        /\ l.doneBlocks = << >> /\ l.sent = k.sent /\ l.sendQueue = k.sendQueue
    BY <2>1, <1>1 DEF ClientStates
  <2> HIDE DEF l
  <2>4. Agrees(l)
    BY <2>2, <2>3, NoLists DEF Agrees
  <2>5. Accounts(l)
    BY <2>3 DEF Accounts
  <2> QED
    BY <2>3, <2>4, <2>5 DEF l
<1> QED
  BY <1>2, <1>3

(* The client takes another socket. *)
LEMMA NewSocketFacts ==
  ASSUME NEW k, ListsAgree(k), NEW state \in {"none", "dialling", "open"}
  PROVE  /\ ListsAgree(NewSocket(k, state)) /\ NewSocket(k, state).slot = k.slot
         /\ NewSocket(k, state).sock = state
         /\ NewSocket(k, state).blockRequests = k.blockRequests
         /\ NewSocket(k, state).doneBlocks = k.doneBlocks
         /\ NewSocket(k, state).sent = k.sent
         /\ NewSocket(k, state).sendQueue = << >> /\ NewSocket(k, state).sentPayload = 0
<1> DEFINE l == NewSocket(k, state)
<1>1. k \in ClientStates
  BY DEF ListsAgree
<1>2. l = [k EXCEPT !.sock = state, !.sendQueue = << >>, !.sentPayload = 0]
  BY DEF NewSocket
<1>3. l \in ClientStates
  BY <1>1, <1>2, EmptyFields, ZenonT(60) DEF ClientStates
<1>4. /\ l.slot = k.slot /\ l.sock = state /\ l.blockRequests = k.blockRequests
      /\ l.doneBlocks = k.doneBlocks /\ l.blockReadBytesQueued = k.blockReadBytesQueued
      /\ l.sendQueue = << >> /\ l.sentPayload = 0 /\ l.sent = k.sent
  BY <1>1, <1>2 DEF ClientStates
<1> HIDE DEF l
<1>5. ListsAgree(l)
  BY <1>3, <1>4 DEF ListsAgree
<1> QED
  BY <1>4, <1>5 DEF l

(* onHandshakeCompleted() *)
LEMMA HandshakeFacts ==
  ASSUME NEW k, ListsAgree(k)
  PROVE  /\ Agrees(HandshakeCompleted(k))
         /\ (HandshakeCompleted(k).slot = "None" <=> k.slot = "None")
         /\ HandshakeCompleted(k).slot # "Connecting"
         /\ (HandshakeCompleted(k).slot = "Uploading" => k.slot # "None")
         /\ HandshakeCompleted(k).blockRequests = k.blockRequests
         /\ HandshakeCompleted(k).doneBlocks = k.doneBlocks
         /\ HandshakeCompleted(k).added = k.added /\ HandshakeCompleted(k).sent = k.sent
         /\ HandshakeCompleted(k).sendQueue = k.sendQueue
         /\ HandshakeCompleted(k).sentPayload = k.sentPayload
         /\ HandshakeCompleted(k).out = k.out
<1> DEFINE l == HandshakeCompleted(k)
           slot == IF k.slot = "Connecting" THEN "Uploading" ELSE k.slot
<1>1. k \in ClientStates
  BY DEF ListsAgree
<1>2. l = [k EXCEPT !.sock = "open", !.slot = slot]
  BY <1>1 DEF HandshakeCompleted, ClientStates
<1>3. slot \in {"None", "Uploading"} /\ (slot = "None" <=> k.slot = "None") /\ slot # "Connecting"
      /\ (slot # "Uploading" => k.slot # "Uploading")
  BY <1>1, ClientFields
<1> HIDE DEF slot
<1>4. l \in ClientStates
  BY <1>1, <1>2, <1>3, ZenonT(60) DEF ClientStates
<1>5. /\ l.slot = slot /\ l.sock = "open" /\ l.blockRequests = k.blockRequests
      /\ l.doneBlocks = k.doneBlocks /\ l.blockReadBytesQueued = k.blockReadBytesQueued
      /\ l.sendQueue = k.sendQueue /\ l.sentPayload = k.sentPayload
      /\ l.added = k.added /\ l.sent = k.sent /\ l.out = k.out
  BY <1>1, <1>2 DEF ClientStates
<1> HIDE DEF l
<1>6. ListsAgree(l)
  BY <1>3, <1>4, <1>5 DEF ListsAgree
<1>7. Agrees(l)
  BY <1>5, <1>6 DEF Agrees
<1> QED
  BY <1>3, <1>5, <1>7 DEF l

(* followRequestedFile(): the slot ends, or nothing but its file changes. *)
LEMMA FollowFacts ==
  ASSUME NEW k, ListsAgree(k), NEW f \in Files
  PROVE  /\ ListsAgree(FollowRequestedFile(k, f))
         /\ Agrees(k) => Agrees(FollowRequestedFile(k, f))
         /\ \/ FollowRequestedFile(k, f) = RemoveFromUploadQueue(k)
            \/ FollowRequestedFile(k, f) = [k EXCEPT !.reqUpFile = f]
<1> DEFINE l == FollowRequestedFile(k, f)
           m == [k EXCEPT !.reqUpFile = f]
<1>1. k \in ClientStates
  BY DEF ListsAgree
<1>2. l = RemoveFromUploadQueue(k) \/ l = m
  <2>1. CASE f = k.reqUpFile
    BY <1>1, <2>1 DEF FollowRequestedFile, ClientStates
  <2>2. CASE f # k.reqUpFile
    BY <2>2 DEF FollowRequestedFile
  <2> QED
    BY <2>1, <2>2
<1>3. m \in ClientStates
  BY <1>1, ZenonT(60) DEF ClientStates
<1>4. /\ m.slot = k.slot /\ m.sock = k.sock /\ m.blockRequests = k.blockRequests
      /\ m.doneBlocks = k.doneBlocks /\ m.blockReadBytesQueued = k.blockReadBytesQueued
  BY <1>1 DEF ClientStates
<1> HIDE DEF l, m
<1>5. ListsAgree(m) /\ (Agrees(k) => Agrees(m))
  BY <1>3, <1>4 DEF ListsAgree, Agrees
<1>6. Agrees(RemoveFromUploadQueue(k)) /\ ListsAgree(RemoveFromUploadQueue(k))
  BY RemoveFacts DEF Agrees
<1> QED
  BY <1>2, <1>5, <1>6 DEF l, m

(* The list of done blocks gets a new head and keeps its newest ones. *)
LEMMA DoneFacts ==
  ASSUME NEW d \in Seq(Blocks), IsInjective(d), NEW b \in Blocks, b \notin ToSet(d),
         NEW n \in Nat, n <= Len(d) + 1
  PROVE  /\ SubSeq(<<b>> \o d, 1, n) \in Seq(Blocks)
         /\ IsInjective(SubSeq(<<b>> \o d, 1, n))
         /\ ToSet(SubSeq(<<b>> \o d, 1, n)) \subseteq {b} \cup ToSet(d)
<1> DEFINE a == <<b>>
           c == a \o d
           e == SubSeq(c, 1, n)
           m == Len(d)
<1>1. a \in Seq(Blocks) /\ Len(a) = 1 /\ a[1] = b /\ m \in Nat
  OBVIOUS
<1> HIDE DEF a
<1>2. c \in Seq(Blocks) /\ Len(c) = m + 1 /\ c[1] = b /\ \A i \in 1..m : c[1 + i] = d[i]
  <2>1. /\ c \in Seq(Blocks) /\ Len(c) = Len(a) + Len(d)
        /\ (\A i \in 1..Len(a) : c[i] = a[i]) /\ \A i \in 1..Len(d) : c[Len(a) + i] = d[i]
    <3>1. a \in Seq(Blocks) /\ d \in Seq(Blocks)
      BY <1>1
    <3>2. /\ a \o d \in Seq(Blocks) /\ Len(a \o d) = Len(a) + Len(d)
          /\ (\A i \in 1..Len(a) : (a \o d)[i] = a[i])
          /\ \A i \in 1..Len(d) : (a \o d)[Len(a) + i] = d[i]
      BY ONLY <3>1, ConcatFacts
    <3> QED
      BY <3>2
  <2> HIDE DEF c
  <2> QED
    BY <1>1, <2>1
<1> HIDE DEF c
<1>3. e \in Seq(Blocks) /\ Len(e) = n /\ \A i \in 1..n : e[i] = c[i]
  BY <1>1, <1>2
<1> HIDE DEF e
<1>4. /\ ToSet(e) = {e[i] : i \in 1..n} /\ ToSet(d) = {d[i] : i \in 1..m}
      /\ (IsInjective(e) <=> \A i, j \in 1..n : e[i] = e[j] => i = j)
      /\ \A i, j \in 1..m : d[i] = d[j] => i = j
  <2>1. ToSet(e) = {e[i] : i \in 1..n} /\ (IsInjective(e) <=> \A i, j \in 1..n : e[i] = e[j] => i = j)
    BY <1>3, ToSetIs, ZenonT(60)
  <2>2. ToSet(d) = {d[i] : i \in 1..m} /\ \A i, j \in 1..m : d[i] = d[j] => i = j
    BY ToSetIs
  <2> QED
    BY <2>1, <2>2
<1>5. \A i \in 1..n : (i = 1 /\ e[i] = b) \/ (i - 1 \in 1..m /\ e[i] = d[i - 1])
  <2> SUFFICES ASSUME NEW i \in 1..n, i # 1 PROVE i - 1 \in 1..m /\ e[i] = d[i - 1]
    BY <1>2, <1>3
  <2>1. i - 1 \in 1..m /\ 1 + (i - 1) = i
    BY <1>1
  <2> QED
    BY <1>2, <1>3, <2>1
<1> HIDE DEF m
<1>6. \A i \in 1..n : e[i] \in {b} \cup ToSet(d)
  BY <1>4, <1>5
<1>7. ASSUME NEW i \in 1..n, NEW j \in 1..n, e[i] = e[j] PROVE i = j
  <2>1. CASE i = 1 /\ j # 1
    <3>1. e[i] = b /\ j - 1 \in 1..m /\ e[j] = d[j - 1]
      BY <1>5, <2>1
    <3> QED
      BY <1>4, <1>7, <3>1
  <2>2. CASE j = 1 /\ i # 1
    <3>1. e[j] = b /\ i - 1 \in 1..m /\ e[i] = d[i - 1]
      BY <1>5, <2>2
    <3> QED
      BY <1>4, <1>7, <3>1
  <2>3. CASE i # 1 /\ j # 1
    <3>1. i - 1 \in 1..m /\ j - 1 \in 1..m /\ d[i - 1] = d[j - 1]
      BY <1>5, <1>7, <2>3
    <3>2. i - 1 = j - 1
      BY <1>4, <3>1
    <3> QED
      BY <3>2
  <2> QED
    BY <2>1, <2>2, <2>3
<1>8. e \in Seq(Blocks) /\ IsInjective(e) /\ ToSet(e) \subseteq {b} \cup ToSet(d)
  BY <1>3, <1>4, <1>6, <1>7
<1> QED
  BY <1>8, Zenon DEF e, c, a

(* The marked blocks without one: what the counter of queued bytes loses. *)
LEMMA UncountedFacts ==
  ASSUME NEW s \in Seq(Request), NEW i \in 1..Len(s), Once(s)
  PROVE  /\ s[i] \in Request /\ s[i].block \in BlocksIn(s)
         /\ (s[i].readQueued <=> s[i].block \in MarkedIn(s))
         /\ Cardinality(MarkedIn(s) \ {s[i].block}) =
              IF s[i].readQueued THEN LessOne(Cardinality(MarkedIn(s))) ELSE Cardinality(MarkedIn(s))
<1> DEFINE b == s[i].block
           M == MarkedIn(s)
<1>1. s[i] \in Request
  OBVIOUS
<1>2. b \in Blocks
  BY <1>1 DEF Request
<1>3. b \in BlocksIn(s)
  BY <1>2 DEF BlocksIn
<1>4. s[i].readQueued => b \in M
  BY <1>2 DEF MarkedIn
<1>5. b \in M => s[i].readQueued
  BY DEF MarkedIn, Once
<1>6. IsFiniteSet(M) /\ Cardinality(M) \in Nat
  BY MarkedFacts
<1> HIDE DEF M
<1>7. CASE b \in M
  <2>1. Cardinality(M \ {b}) = Cardinality(M) - 1
    BY <1>6, <1>7, FS_RemoveElement
  <2>2. Cardinality(M) > 0
    BY <1>6, <1>7, FS_EmptySet
  <2> QED
    BY <1>1, <1>3, <1>4, <1>5, <2>1, <2>2 DEF LessOne, M
<1>8. CASE b \notin M
  <2>1. M \ {b} = M
    BY <1>8
  <2> QED
    BY <1>1, <1>3, <1>4, <1>5, <1>8, <2>1 DEF M
<1> QED
  BY <1>7, <1>8

(* As Accounts(k), but block b may just be done. *)
AccountsBut(k, b) ==
  /\ k.slot = "Uploading" => k.added = k.sent + k.sentPayload + Len(k.sendQueue)
  /\ k.slot = "Uploading" =>
       \A j \in 1..Len(k.sendQueue) : k.sendQueue[j].mark = k.sent + k.sentPayload + j
  /\ \A i \in 1..Len(k.doneBlocks) :
       \/ k.doneBlocks[i] = b
       \/ k.doneBlocks[i] \in k.out
       \/ \E j \in 1..Len(k.sendQueue) : k.sendQueue[j].block = k.doneBlocks[i]

(* markBlockDone() *)
LEMMA MarkDoneFacts ==
  ASSUME NEW k, Agrees(k), NEW i \in 1..Len(k.blockRequests), MaxDone \in Nat \ {0}
  PROVE  /\ Agrees(MarkBlockDone(k, i))
         /\ k.slot = "Uploading"
         /\ MarkBlockDone(k, i).slot = k.slot /\ MarkBlockDone(k, i).sock = k.sock
         /\ MarkBlockDone(k, i).sendQueue = k.sendQueue /\ MarkBlockDone(k, i).sent = k.sent
         /\ BlocksIn(MarkBlockDone(k, i).blockRequests) \subseteq BlocksIn(k.blockRequests)
         /\ MarkedIn(MarkBlockDone(k, i).blockRequests) =
              MarkedIn(k.blockRequests) \ {k.blockRequests[i].block}
         /\ Accounts(k) => AccountsBut(MarkBlockDone(k, i), k.blockRequests[i].block)
<1> DEFINE l == MarkBlockDone(k, i)
           R == k.blockRequests
           b == R[i].block
           s == RemoveAt(R, i)
           n == IF Len(k.doneBlocks) < MaxDone THEN Len(k.doneBlocks) + 1 ELSE MaxDone
           d == SubSeq(<<b>> \o k.doneBlocks, 1, n)
           m == IF R[i].readQueued THEN LessOne(k.blockReadBytesQueued) ELSE k.blockReadBytesQueued
<1>1. k \in ClientStates /\ R \in Seq(Request) /\ Once(R) /\ k.doneBlocks \in Seq(Blocks)
      /\ k.blockReadBytesQueued \in Nat /\ k.slot = "Uploading"
  <2>1. R # << >>
    OBVIOUS
  <2> QED
    BY <2>1, ClientFields DEF Agrees, ListsAgree
<1>2. b \in BlocksIn(R) /\ b \in Blocks
  BY <1>1, UncountedFacts, MarkedFacts
<1>3. s \in Seq(Request) /\ Once(s) /\ BlocksIn(s) = BlocksIn(R) \ {b} /\ MarkedIn(s) = MarkedIn(R) \ {b}
  BY <1>1, RemoveRequest
<1>4. m = Cardinality(MarkedIn(s)) /\ m \in Nat
  <2>1. Cardinality(MarkedIn(R) \ {b}) =
          IF R[i].readQueued THEN LessOne(Cardinality(MarkedIn(R))) ELSE Cardinality(MarkedIn(R))
    BY <1>1, UncountedFacts
  <2>2. k.blockReadBytesQueued = Cardinality(MarkedIn(R))
    BY DEF Agrees, ListsAgree
  <2>3. Cardinality(MarkedIn(s)) \in Nat
    BY <1>3, MarkedFacts
  <2> HIDE DEF R, b, s
  <2> QED
    BY <1>3, <2>1, <2>2, <2>3
<1>5. d \in Seq(Blocks) /\ IsInjective(d) /\ ToSet(d) \subseteq {b} \cup ToSet(k.doneBlocks)
  <2>1. n \in Nat /\ n <= Len(k.doneBlocks) + 1
    BY <1>1
  <2>2. IsInjective(k.doneBlocks) /\ b \notin ToSet(k.doneBlocks)
    BY <1>2 DEF Agrees, ListsAgree
  <2> HIDE DEF n, b
  <2> QED
    BY <1>1, <1>2, <2>1, <2>2, DoneFacts
<1>6. l = [k EXCEPT !.blockReadBytesQueued = m, !.doneBlocks = d, !.blockRequests = s]
  BY DEF MarkBlockDone
<1> HIDE DEF s, d, m, n
<1>7. l \in ClientStates
  BY <1>1, <1>3, <1>4, <1>5, <1>6, ZenonT(60) DEF ClientStates, Request
<1>8. /\ l.blockRequests = s /\ l.doneBlocks = d /\ l.blockReadBytesQueued = m
      /\ l.slot = k.slot /\ l.sock = k.sock /\ l.sendQueue = k.sendQueue
      /\ l.sentPayload = k.sentPayload /\ l.added = k.added /\ l.sent = k.sent /\ l.out = k.out
  BY <1>1, <1>6 DEF ClientStates
<1> HIDE DEF l
<1>9. Agrees(l)
  <2>1. ToSet(d) \cap BlocksIn(s) = {}
    BY <1>3, <1>5 DEF Agrees, ListsAgree
  <2> QED
    BY <1>1, <1>3, <1>4, <1>5, <1>7, <1>8, <2>1 DEF Agrees, ListsAgree
<1>10. ASSUME Accounts(k) PROVE AccountsBut(l, b)
  <2> DEFINE o == k.doneBlocks
  <2>1. ToSet(d) = {d[j] : j \in 1..Len(d)} /\ ToSet(o) = {o[j] : j \in 1..Len(o)}
    BY <1>1, <1>5, ToSetIs
  <2>2. \A j \in 1..Len(d) : d[j] = b \/ \E h \in 1..Len(o) : d[j] = o[h]
    BY <1>5, <2>1
  <2>3. \A h \in 1..Len(o) : o[h] \in k.out \/ \E j \in 1..Len(k.sendQueue) : k.sendQueue[j].block = o[h]
    BY <1>10 DEF Accounts
  <2> HIDE DEF o, b
  <2>4. \A j \in 1..Len(l.doneBlocks) :
          \/ l.doneBlocks[j] = b
          \/ l.doneBlocks[j] \in l.out
          \/ \E h \in 1..Len(l.sendQueue) : l.sendQueue[h].block = l.doneBlocks[j]
    BY <1>8, <2>2, <2>3
  <2> QED
    BY <1>8, <1>10, <2>4 DEF Accounts, AccountsBut
<1> QED
  BY <1>1, <1>3, <1>8, <1>9, <1>10 DEF l

(* requeueBlockRead() *)
LEMMA RequeueFacts ==
  ASSUME NEW k, Agrees(k), NEW i \in 1..Len(k.blockRequests), k.blockRequests[i].readQueued
  PROVE  /\ Agrees(RequeueBlockRead(k, i))
         /\ RequeueBlockRead(k, i).slot = k.slot /\ RequeueBlockRead(k, i).sent = k.sent
         /\ RequeueBlockRead(k, i).sendQueue = k.sendQueue
         /\ BlocksIn(RequeueBlockRead(k, i).blockRequests) = BlocksIn(k.blockRequests)
         /\ MarkedIn(RequeueBlockRead(k, i).blockRequests) =
              MarkedIn(k.blockRequests) \ {k.blockRequests[i].block}
         /\ Accounts(k) => Accounts(RequeueBlockRead(k, i))
<1> DEFINE l == RequeueBlockRead(k, i)
           R == k.blockRequests
           b == R[i].block
           s == Unmarked(R, i)
           m == LessOne(k.blockReadBytesQueued)
<1>1. k \in ClientStates /\ R \in Seq(Request) /\ Once(R) /\ R # << >>
  BY ClientFields DEF Agrees, ListsAgree
<1>2. s \in Seq(Request) /\ Once(s) /\ BlocksIn(s) = BlocksIn(R) /\ MarkedIn(s) = MarkedIn(R) \ {b}
  BY <1>1, UnmarkRequest
<1>3. m = Cardinality(MarkedIn(s)) /\ m \in Nat
  <2>1. Cardinality(MarkedIn(R) \ {b}) = LessOne(Cardinality(MarkedIn(R)))
    BY <1>1, UncountedFacts
  <2>2. k.blockReadBytesQueued = Cardinality(MarkedIn(R))
    BY DEF Agrees, ListsAgree
  <2>3. Cardinality(MarkedIn(s)) \in Nat
    BY <1>2, MarkedFacts
  <2> HIDE DEF R, b, s
  <2> QED
    BY <1>2, <2>1, <2>2, <2>3
<1>4. l = [k EXCEPT !.blockRequests = s, !.blockReadBytesQueued = m]
  BY DEF RequeueBlockRead, Unmarked
<1> HIDE DEF s, m
<1>5. l \in ClientStates
  BY <1>1, <1>2, <1>3, <1>4, ZenonT(60) DEF ClientStates, Request
<1>6. /\ l.blockRequests = s /\ l.doneBlocks = k.doneBlocks /\ l.blockReadBytesQueued = m
      /\ l.slot = k.slot /\ l.sock = k.sock /\ l.sendQueue = k.sendQueue
      /\ l.sentPayload = k.sentPayload /\ l.added = k.added /\ l.sent = k.sent /\ l.out = k.out
  BY <1>1, <1>4 DEF ClientStates
<1> HIDE DEF l
<1>7. Agrees(l)
  BY <1>1, <1>2, <1>3, <1>5, <1>6 DEF Agrees, ListsAgree
<1>8. Accounts(k) => Accounts(l)
  BY <1>6 DEF Accounts
<1> QED
  BY <1>2, <1>6, <1>7, <1>8 DEF l

(* The packets of a block that was read go to the socket. *)
LEMMA SendFacts ==
  ASSUME NEW k, Agrees(k), NEW b \in Blocks
  PROVE  /\ Agrees(SendBlock(k, b))
         /\ SendBlock(k, b).slot = k.slot /\ SendBlock(k, b).sent = k.sent
         /\ SendBlock(k, b).blockRequests = k.blockRequests
         /\ AccountsBut(k, b) /\ k.slot = "Uploading" => Accounts(SendBlock(k, b))
<1> DEFINE l == SendBlock(k, b)
           u == [block |-> b, mark |-> k.added + 1]
           o == IF file[FileOf[b]].shared THEN Append(k.unconfirmed, u) ELSE k.unconfirmed
           a == k.added + 1
           s == Append(k.sendQueue, u)
<1>1. k \in ClientStates
  BY DEF Agrees, ListsAgree
<1>2. a \in Nat /\ u \in Packets /\ k.sendQueue \in Seq(Packets) /\ k.unconfirmed \in Seq(Packets)
  <2>1. k.added \in Nat /\ k.sendQueue \in Seq(Packets) /\ k.unconfirmed \in Seq(Packets)
    BY <1>1, ClientFields
  <2> QED
    BY <2>1 DEF Packets
<1>3. l = [k EXCEPT !.added = a, !.sendQueue = s, !.unconfirmed = o]
  BY DEF SendBlock
<1>4. s \in Seq(Packets) /\ Len(s) = Len(k.sendQueue) + 1 /\ (\A j \in 1..Len(k.sendQueue) : s[j] = k.sendQueue[j])
      /\ s[Len(k.sendQueue) + 1] = u
  BY <1>2, AppendFacts
<1>5. o \in Seq(Packets)
  BY <1>2, AppendFacts
<1>6. u.block = b /\ u.mark = a
  OBVIOUS
<1> HIDE DEF o, s, u
<1>7. l \in ClientStates
  BY <1>1, <1>2, <1>3, <1>4, <1>5, ZenonT(60) DEF ClientStates, a
<1>8. /\ l.blockRequests = k.blockRequests /\ l.doneBlocks = k.doneBlocks
      /\ l.blockReadBytesQueued = k.blockReadBytesQueued
      /\ l.slot = k.slot /\ l.sock = k.sock /\ l.sendQueue = s
      /\ l.sentPayload = k.sentPayload /\ l.added = a /\ l.sent = k.sent /\ l.out = k.out
  BY <1>1, <1>3 DEF ClientStates
<1> HIDE DEF l
<1>9. Agrees(l)
  BY <1>7, <1>8 DEF Agrees, ListsAgree
<1>10. ASSUME AccountsBut(k, b), k.slot = "Uploading" PROVE Accounts(l)
  <2> DEFINE n == Len(k.sendQueue)
             sum == k.sent + k.sentPayload
  <2>1. k.added = sum + n /\ n \in Nat /\ sum \in Nat
    BY <1>1, <1>2, <1>10, ClientFields DEF AccountsBut
  <2>2. \A j \in 1..n : k.sendQueue[j].mark = sum + j
    BY <1>10 DEF AccountsBut
  <2>3. Len(s) = n + 1 /\ (\A j \in 1..n : s[j] = k.sendQueue[j]) /\ s[n + 1] = u
    BY <1>4
  <2>4. \A i \in 1..Len(k.doneBlocks) :
          \/ k.doneBlocks[i] = b
          \/ k.doneBlocks[i] \in k.out
          \/ \E j \in 1..n : k.sendQueue[j].block = k.doneBlocks[i]
    BY <1>10 DEF AccountsBut
  <2>5. /\ l.sent + l.sentPayload = sum /\ l.sendQueue = s /\ l.added = a
        /\ l.slot = "Uploading" /\ l.doneBlocks = k.doneBlocks /\ l.out = k.out
    BY <1>8, <1>10
  <2>6. a = sum + (n + 1)
    BY <2>1
  <2> HIDE DEF n, sum, a
  <2>7. ASSUME NEW j \in 1..(n + 1) PROVE s[j].mark = sum + j
    <3>1. CASE j = n + 1
      BY <1>6, <2>3, <2>6, <3>1
    <3>2. CASE j # n + 1
      <4>1. j \in 1..n
        BY <2>1, <3>2
      <4> QED
        BY <2>2, <2>3, <4>1
    <3> QED
      BY <3>1, <3>2
  <2>8. ASSUME NEW i \in 1..Len(k.doneBlocks)
        PROVE  k.doneBlocks[i] \in k.out \/ \E j \in 1..(n + 1) : s[j].block = k.doneBlocks[i]
    <3>1. CASE k.doneBlocks[i] = b
      <4>1. n + 1 \in 1..(n + 1) /\ s[n + 1].block = b
        BY <1>6, <2>1, <2>3
      <4> QED
        BY <3>1, <4>1
    <3>2. CASE \E j \in 1..n : k.sendQueue[j].block = k.doneBlocks[i]
      <4>1. \A j \in 1..n : j \in 1..(n + 1)
        BY <2>1
      <4> QED
        BY <2>3, <3>2, <4>1
    <3> QED
      BY <2>4, <3>1, <3>2
  <2>9. l.added = l.sent + l.sentPayload + Len(l.sendQueue)
    BY <2>3, <2>5, <2>6
  <2>10. \A j \in 1..Len(l.sendQueue) : l.sendQueue[j].mark = l.sent + l.sentPayload + j
    BY <2>3, <2>5, <2>7
  <2>11. \A i \in 1..Len(l.doneBlocks) :
           l.doneBlocks[i] \in l.out \/ \E j \in 1..Len(l.sendQueue) : l.sendQueue[j].block = l.doneBlocks[i]
    BY <2>3, <2>5, <2>8
  <2> QED
    BY <2>5, <2>9, <2>10, <2>11 DEF Accounts
<1> QED
  BY <1>8, <1>9, <1>10 DEF l

(* addReqBlock(), the block at the end of the pending list. *)
Asked(k, b, l) ==
  /\ Agrees(l) /\ l.slot = k.slot /\ l.sent = k.sent /\ l.sendQueue = k.sendQueue
  /\ BlocksIn(l.blockRequests) = BlocksIn(k.blockRequests) \cup {b}
  /\ MarkedIn(l.blockRequests) = MarkedIn(k.blockRequests)
  /\ Accounts(k) => Accounts(l)

(* addReqBlock(): a block that is no duplicate joins the pending list, unmarked. *)
LEMMA AskFacts ==
  ASSUME NEW k, Agrees(k), NEW b \in Blocks, k.slot = "Uploading", ~Duplicate(k, b),
         NEW l, l = [k EXCEPT !.blockRequests = Append(@, [block |-> b, readQueued |-> FALSE])]
  PROVE  Asked(k, b, l)
<1> DEFINE R == k.blockRequests
           r == [block |-> b, readQueued |-> FALSE]
           s == Append(R, r)
<1>1. k \in ClientStates /\ R \in Seq(Request) /\ Once(R) /\ k.doneBlocks \in Seq(Blocks)
  BY ClientFields DEF Agrees, ListsAgree
<1>2. r \in Request /\ r.block = b /\ r.readQueued = FALSE
  BY DEF Request
<1>3. b \notin BlocksIn(R) /\ b \notin ToSet(k.doneBlocks)
  <2>1. b \notin BlocksIn(R)
    BY DEF Duplicate, Pending, BlocksIn
  <2>2. b \notin ToSet(k.doneBlocks)
    <3>1. ToSet(k.doneBlocks) = {k.doneBlocks[i] : i \in 1..Len(k.doneBlocks)}
      BY <1>1, ToSetIs
    <3> QED
      BY <3>1 DEF Duplicate, Contains
  <2> QED
    BY <2>1, <2>2
<1>4. l = [k EXCEPT !.blockRequests = s]
  OBVIOUS
<1> HIDE DEF r, R
<1>5. /\ s \in Seq(Request) /\ BlocksIn(s) = BlocksIn(R) \cup {b}
      /\ MarkedIn(s) = MarkedIn(R) /\ Once(s)
  <2>1. /\ s \in Seq(Request)
        /\ BlocksIn(s) = BlocksIn(R) \cup {r.block}
        /\ MarkedIn(s) = MarkedIn(R) \cup (IF r.readQueued THEN {r.block} ELSE {})
        /\ Once(R) /\ r.block \notin BlocksIn(R) => Once(s)
    BY <1>1, <1>2, AppendRequest
  <2> HIDE DEF s
  <2> QED
    BY <1>1, <1>2, <1>3, <2>1
<1> HIDE DEF s
<1>6. l \in ClientStates
  BY <1>1, <1>4, <1>5, ZenonT(60) DEF ClientStates, Request
<1>7. /\ l.blockRequests = s /\ l.doneBlocks = k.doneBlocks
      /\ l.blockReadBytesQueued = k.blockReadBytesQueued
      /\ l.slot = k.slot /\ l.sock = k.sock /\ l.sendQueue = k.sendQueue
      /\ l.sentPayload = k.sentPayload /\ l.added = k.added /\ l.sent = k.sent /\ l.out = k.out
  BY <1>1, <1>4 DEF ClientStates
<1>8. Agrees(l)
  <2>1. ToSet(k.doneBlocks) \cap BlocksIn(s) = {}
    BY <1>3, <1>5 DEF Agrees, ListsAgree, R
  <2> QED
    BY <1>5, <1>6, <1>7, <2>1 DEF Agrees, ListsAgree, R
<1>9. Accounts(k) => Accounts(l)
  BY <1>7 DEF Accounts
<1> QED
  BY <1>5, <1>7, <1>8, <1>9 DEF R, Asked

(* updateUploadingStatisticsData() *)
LEMMA UpdateFacts ==
  ASSUME NEW k, Agrees(k), MaxDeliveries \in Nat \ {0}
  PROVE  /\ Agrees(UpdateUploadingStatisticsData(k))
         /\ UpdateUploadingStatisticsData(k).slot = k.slot
         /\ UpdateUploadingStatisticsData(k).sock = k.sock
         /\ UpdateUploadingStatisticsData(k).blockRequests = k.blockRequests
         /\ UpdateUploadingStatisticsData(k).sendQueue = k.sendQueue
         /\ UpdateUploadingStatisticsData(k).sent = k.sent + k.sentPayload
         /\ Accounts(k) => Accounts(UpdateUploadingStatisticsData(k))
<1> DEFINE l == UpdateUploadingStatisticsData(k)
           sent == k.sent + k.sentPayload
           D(b) == {i \in DOMAIN k.unconfirmed : /\ k.unconfirmed[i].block = b
                                                 /\ k.unconfirmed[i].mark <= sent}
           atMost(n) == IF n < MaxDeliveries THEN n ELSE MaxDeliveries
           o == Kept(k.unconfirmed, {u \in ToSet(k.unconfirmed) : u.mark > sent})
           e == [b \in Blocks |-> atMost(k.deliveries[b] + Cardinality(D(b)))]
<1>1. /\ k \in ClientStates /\ k.sent \in Nat /\ k.sentPayload \in Nat
      /\ k.unconfirmed \in Seq(Packets) /\ k.deliveries \in [Blocks -> 0 .. MaxDeliveries]
  BY ClientFields DEF Agrees, ListsAgree
<1>2. CASE k.sentPayload = 0
  <2>1. l = k
    BY <1>2 DEF UpdateUploadingStatisticsData
  <2>2. l.sent = k.sent + k.sentPayload
    BY <1>1, <1>2, <2>1
  <2> HIDE DEF l
  <2>3. /\ Agrees(l) /\ l.slot = k.slot /\ l.sock = k.sock /\ l.blockRequests = k.blockRequests
        /\ l.sendQueue = k.sendQueue /\ (Accounts(k) => Accounts(l))
    BY <2>1
  <2> QED
    BY <2>2, <2>3 DEF l
<1>3. CASE k.sentPayload # 0
  <2>1. l = [k EXCEPT !.sent = sent, !.sentPayload = 0, !.unconfirmed = o, !.deliveries = e]
    BY <1>3 DEF UpdateUploadingStatisticsData
  <2>2. sent \in Nat /\ 0 \in Nat
    BY <1>1
  <2>3. o \in Seq(Packets)
    BY <1>1, KeptFacts
  <2>4. e \in [Blocks -> 0 .. MaxDeliveries]
    <3> SUFFICES ASSUME NEW b \in Blocks
                 PROVE  atMost(k.deliveries[b] + Cardinality(D(b))) \in 0 .. MaxDeliveries
      OBVIOUS
    <3>1. k.deliveries[b] \in Nat
      BY <1>1
    <3>2. Cardinality(D(b)) \in Nat
      <4>1. DOMAIN k.unconfirmed = 1..Len(k.unconfirmed) /\ IsFiniteSet(1..Len(k.unconfirmed))
        <5>1. DOMAIN k.unconfirmed = 1..Len(k.unconfirmed) /\ Len(k.unconfirmed) \in Nat
          BY <1>1
        <5> QED
          BY <5>1, FS_Interval
      <4>2. D(b) \subseteq 1..Len(k.unconfirmed)
        BY <4>1
      <4> HIDE DEF D
      <4> QED
        BY <4>1, <4>2, FS_Subset, FS_CardinalityType
    <3> HIDE DEF D
    <3> QED
      BY <3>1, <3>2
  <2> HIDE DEF o, e, sent
  <2>5. l \in ClientStates
    BY <1>1, <2>1, <2>2, <2>3, <2>4, ZenonT(60) DEF ClientStates
  <2>6. /\ l.blockRequests = k.blockRequests /\ l.doneBlocks = k.doneBlocks
        /\ l.blockReadBytesQueued = k.blockReadBytesQueued
        /\ l.slot = k.slot /\ l.sock = k.sock /\ l.sendQueue = k.sendQueue
        /\ l.sentPayload = 0 /\ l.added = k.added /\ l.sent = sent /\ l.out = k.out
    BY <1>1, <2>1 DEF ClientStates
  <2> HIDE DEF l
  <2>7. Agrees(l)
    BY <2>5, <2>6 DEF Agrees, ListsAgree
  <2>8. ASSUME Accounts(k) PROVE Accounts(l)
    <3>1. l.sent + l.sentPayload = k.sent + k.sentPayload
      BY <1>1, <2>6 DEF sent
    <3> QED
      BY <2>6, <2>8, <3>1 DEF Accounts
  <2> QED
    BY <2>6, <2>7, <2>8 DEF l, sent
<1> QED
  BY <1>2, <1>3

(* Where a block is pending. *)
LEMMA PlaceFacts ==
  ASSUME NEW k, k.blockRequests \in Seq(Request), NEW b
  PROVE  /\ PendingAt(k, b) # 0 => /\ PendingAt(k, b) \in 1..Len(k.blockRequests)
                                   /\ k.blockRequests[PendingAt(k, b)].block = b
         /\ PendingAt(k, b) = 0 => b \notin BlocksIn(k.blockRequests)
         /\ BeingReadAt(k, b) # 0 => /\ BeingReadAt(k, b) \in 1..Len(k.blockRequests)
                                     /\ k.blockRequests[BeingReadAt(k, b)].block = b
                                     /\ k.blockRequests[BeingReadAt(k, b)].readQueued
         /\ BeingReadAt(k, b) = 0 => b \notin MarkedIn(k.blockRequests)
<1> DEFINE R == k.blockRequests
           I == {i \in 1..Len(R) : R[i].block = b}
           J == {i \in 1..Len(R) : R[i].block = b /\ R[i].readQueued}
<1>1. PendingAt(k, b) = IF I # {} THEN Min(I) ELSE 0
  BY DEF PendingAt, SelectInSeq
<1>2. BeingReadAt(k, b) = IF J # {} THEN Min(J) ELSE 0
  BY DEF BeingReadAt, SelectInSeq
<1>3. I \subseteq Nat /\ J \subseteq Nat /\ 0 \notin I /\ 0 \notin J
  OBVIOUS
<1>4. (I # {} => Min(I) \in I) /\ (J # {} => Min(J) \in J)
  <2> HIDE DEF I, J
  <2> QED
    BY <1>3, MinIn
<1>5. /\ I = {} => b \notin BlocksIn(R)
      /\ J = {} => b \notin MarkedIn(R)
  BY DEF BlocksIn, MarkedIn
<1>6. /\ PendingAt(k, b) # 0 => PendingAt(k, b) \in I
      /\ PendingAt(k, b) = 0 => I = {}
      /\ BeingReadAt(k, b) # 0 => BeingReadAt(k, b) \in J
      /\ BeingReadAt(k, b) = 0 => J = {}
  <2> HIDE DEF I, J
  <2> QED
    BY <1>1, <1>2, <1>3, <1>4
<1> QED
  BY <1>5, <1>6

-----------------------------------------------------------------------------
(***************************************************************************)
(* A client and what is asked for it: of the worker (q) and in its events  *)
(* (p).                                                                    *)
(***************************************************************************)

(* Every marked block is being read. *)
Reading(c, k, q, p) ==
  MarkedIn(k.blockRequests) \subseteq AskedBy(c, q) \cup AskedBy(c, p)

(* Exactly the marked blocks are being read, each once. *)
ReadingOnce(c, k, q, p) ==
  /\ OnceBy(c, q) /\ OnceBy(c, p)
  /\ AskedBy(c, q) \cap AskedBy(c, p) = {}
  /\ MarkedIn(k.blockRequests) = AskedBy(c, q) \cup AskedBy(c, p)

(* What is pending or to be read is in w. *)
Sound(c, k, q, w) == BlocksIn(k.blockRequests) \subseteq w /\ AskedBy(c, q) \subseteq w

(* Nothing changes for the clients other than c between the queues s and t. *)
OthersKept(c, s, t) ==
  \A d \in Clients \ {c} : AskedBy(d, t) = AskedBy(d, s) /\ (OnceBy(d, s) => OnceBy(d, t))

(* startBlockReads() keeps all that. *)
StartKept(c, k, q, p, w, r) ==
  /\ Agrees(r.client) /\ r.queue \in Seq(ReadRequests)
  /\ r.client.slot = k.slot
  /\ r.client.sent = k.sent
  /\ r.client.sendQueue = k.sendQueue
  /\ Accounts(k) => Accounts(r.client)
  /\ Reading(c, k, q, p) => Reading(c, r.client, r.queue, p)
  /\ ReadingOnce(c, k, q, p) => ReadingOnce(c, r.client, r.queue, p)
  /\ Sound(c, k, q, w) => Sound(c, r.client, r.queue, w)
  /\ OthersKept(c, q, r.queue)

(* startBlockReads() keeps all of it, from a state where the lists agree. *)
LEMMA StartKeeps ==
  ASSUME NEW c \in Clients, NEW k, Agrees(k), NEW q \in Seq(ReadRequests), NEW p,
         FileOf \in [Blocks -> Files], file \in [Files -> FileStates],
         NEW w, NEW r, r = StartBlockReads(c, k, q)
  PROVE  StartKept(c, k, q, p, w, r)
<1> DEFINE R == k.blockRequests
           l == r.client
<1>1. /\ k \in ClientStates /\ R \in Seq(Request) /\ Once(R)
      /\ k.blockReadBytesQueued = Cardinality(MarkedIn(R))
  BY ClientFields DEF Agrees, ListsAgree
<1>2. Started(c, k, q, r)
  BY <1>1, StartFacts
<1>3. PICK s \in Seq(Request), n \in Nat : StartedWith(c, k, q, r, s, n)
  BY <1>2 DEF Started
<1>4. /\ l = [k EXCEPT !.blockRequests = s, !.blockReadBytesQueued = n]
      /\ r.queue \in Seq(ReadRequests) /\ Once(s) /\ BlocksIn(s) \subseteq BlocksIn(R)
      /\ MarkedIn(R) \subseteq MarkedIn(s) /\ n = Cardinality(MarkedIn(s))
      /\ k.slot # "Uploading" => s = R
      /\ AskedMore(c, R, q, s, r.queue)
  BY <1>3 DEF StartedWith
<1> HIDE DEF l
<1>5. l \in ClientStates
  BY <1>1, <1>3, <1>4, ZenonT(60) DEF ClientStates, Request
<1>6. /\ l.blockRequests = s /\ l.doneBlocks = k.doneBlocks /\ l.blockReadBytesQueued = n
      /\ l.slot = k.slot /\ l.sock = k.sock /\ l.sendQueue = k.sendQueue
      /\ l.sentPayload = k.sentPayload /\ l.added = k.added /\ l.sent = k.sent /\ l.out = k.out
  BY <1>1, <1>4 DEF ClientStates
<1>7. Agrees(l)
  <2>1. ToSet(l.doneBlocks) \cap BlocksIn(s) = {}
    BY <1>4, <1>6 DEF Agrees, ListsAgree
  <2>2. l.slot # "Uploading" => l.blockRequests = << >> /\ l.doneBlocks = << >>
    BY <1>4, <1>6 DEF Agrees, ListsAgree
  <2> QED
    BY <1>4, <1>5, <1>6, <2>1, <2>2 DEF Agrees, ListsAgree
<1>8. Accounts(k) => Accounts(l)
  BY <1>6 DEF Accounts
<1> DEFINE M == MarkedIn(R)
           N == MarkedIn(s)
           A == AskedBy(c, q)
           B == AskedBy(c, p)
<1>9. AskedBy(c, r.queue) = A \cup (N \ M) /\ M \subseteq N /\ N \subseteq BlocksIn(s)
  BY <1>3, <1>4, MarkedFacts DEF AskedMore
<1>10. Reading(c, k, q, p) => Reading(c, l, r.queue, p)
  BY <1>6, <1>9 DEF Reading
<1>11. ASSUME ReadingOnce(c, k, q, p) PROVE ReadingOnce(c, l, r.queue, p)
  <2>1. OnceBy(c, q) /\ OnceBy(c, p) /\ A \cap B = {} /\ M = A \cup B
    BY <1>11 DEF ReadingOnce
  <2>2. OnceBy(c, r.queue)
    BY <1>4, <2>1 DEF AskedMore
  <2> HIDE DEF M, N, A, B
  <2>3. (A \cup (N \ M)) \cap B = {} /\ N = (A \cup (N \ M)) \cup B
    BY <1>9, <2>1
  <2> QED
    BY <1>6, <1>9, <2>1, <2>2, <2>3 DEF ReadingOnce, N, B
<1>12. Sound(c, k, q, w) => Sound(c, l, r.queue, w)
  BY <1>4, <1>6, <1>9 DEF Sound
<1>13. OthersKept(c, q, r.queue)
  BY <1>4 DEF OthersKept, AskedMore
<1> QED
  BY <1>4, <1>6, <1>7, <1>8, <1>10, <1>11, <1>12, <1>13 DEF l, StartKept

-----------------------------------------------------------------------------
(***************************************************************************)
(* The invariant.  Its parts about reads asked once, about gaps and about  *)
(* the accounts hold while a slot is given once, no part fails a check and *)
(* no socket is replaced.                                                  *)
(***************************************************************************)

(* The blocks that are no gaps. *)
Whole == {b \in Blocks : b \in file[FileOf[b]].safe}

(* Client c in state k, with the reads q and the events p, where w is whole. *)
Good(c, k, q, p, w) ==
  /\ Agrees(k)
  /\ Reading(c, k, q, p)
  /\ MaxSlots <= 1 /\ k.slot # "None" => ReadingOnce(c, k, q, p)
  /\ MaxBadParts = 0 => Sound(c, k, q, w)
  /\ MaxSlots <= 1 /\ MaxRehomes = 0 => Accounts(k)

(* Nothing has been asked for the client, nothing sent to it. *)
Fresh(c, k, q, p) ==
  /\ k.slot = "None" /\ k.sendQueue = << >> /\ k.sentPayload = 0
  /\ AskedBy(c, q) = {} /\ AskedBy(c, p) = {}

Types ==
  /\ file \in [Files -> FileStates]
  /\ reads \in Seq(ReadRequests)
  /\ posted \in Seq(Events)
  /\ left \in [slots : Nat, rehomes : Nat, faults : Nat, badParts : Nat]

(* Every client is good, and untouched while there is one slot to give. *)
ClientsGood ==
  /\ cl \in [Clients -> ClientStates]
  /\ \A c \in Clients : Good(c, cl[c], reads, posted, Whole)
  /\ MaxSlots <= 1 /\ left.slots # 0 =>
       \A c \in Clients : Fresh(c, cl[c], reads, posted)

(* What was read was no gap, and a file that is complete has none. *)
FilesGood ==
  MaxBadParts = 0 =>
    /\ \A f \in Files : file[f].hold \/ file[f].path = "incoming" => BlocksOf(f) \subseteq file[f].safe
    /\ \A i \in 1..Len(posted) : posted[i].safe

(* What is left of the bounds. *)
LeftGood ==
  /\ MaxSlots <= 1 => left.slots <= 1
  /\ MaxRehomes = 0 => left.rehomes = 0
  /\ MaxBadParts = 0 => left.badParts = 0

Inv == Types /\ ClientsGood /\ FilesGood /\ LeftGood

(* The assumptions on the constants, and the bounds of the lists of a client. *)
LEMMA Constants ==
  /\ FileOf \in [Blocks -> Files]
  /\ Limit \in Nat \ {0} /\ MaxDone \in Nat \ {0} /\ MaxDeliveries \in Nat \ {0}
  /\ MaxSlots \in Nat /\ MaxRehomes \in Nat /\ MaxBadParts \in Nat
  BY FileOfAssumption, BoundsAssumption

(* A client for whom nothing is asked has nothing asked twice. *)
LEMMA NoneAsked ==
  ASSUME NEW c, NEW s, \A i \in 1..Len(s) : s[i].block \in Blocks, AskedBy(c, s) = {}
  PROVE  OnceBy(c, s)
  BY DEF AskedBy, OnceBy

(* The blocks of reads and events are blocks. *)
LEMMA AskedTypes ==
  /\ \A s \in Seq(ReadRequests) : \A i \in 1..Len(s) : s[i].block \in Blocks /\ s[i].client \in Clients
  /\ \A s \in Seq(Events) : \A i \in 1..Len(s) : s[i].block \in Blocks /\ s[i].client \in Clients
<1>1. ASSUME NEW s \in Seq(ReadRequests), NEW i \in 1..Len(s) PROVE s[i].block \in Blocks /\ s[i].client \in Clients
  <2>1. s[i] \in ReadRequests
    OBVIOUS
  <2> QED
    BY <2>1 DEF ReadRequests
<1>2. ASSUME NEW s \in Seq(Events), NEW i \in 1..Len(s) PROVE s[i].block \in Blocks /\ s[i].client \in Clients
  <2>1. s[i] \in Events
    OBVIOUS
  <2> QED
    BY <2>1 DEF Events
<1> QED
  BY <1>1, <1>2

(* A slot that ends leaves a good client. *)
LEMMA GoodRemove ==
  ASSUME NEW c, NEW k, ListsAgree(k), NEW q, NEW p, NEW w, MaxBadParts = 0 => AskedBy(c, q) \subseteq w
  PROVE  Good(c, RemoveFromUploadQueue(k), q, p, w)
<1> DEFINE l == RemoveFromUploadQueue(k)
<1>1. Agrees(l) /\ Accounts(l) /\ l.slot = "None" /\ l.blockRequests = << >>
  BY RemoveFacts
<1> HIDE DEF l
<1>2. MarkedIn(l.blockRequests) = {} /\ BlocksIn(l.blockRequests) = {}
  BY <1>1, EmptyList
<1>3. Reading(c, l, q, p) /\ (MaxBadParts = 0 => Sound(c, l, q, w))
  BY <1>2 DEF Reading, Sound
<1> QED
  BY <1>1, <1>3 DEF Good, l

(* What a good client has that allows its slot to end. *)
LEMMA GoodGives ==
  ASSUME NEW c, NEW k, NEW q, NEW p, NEW w, Good(c, k, q, p, w)
  PROVE  /\ Agrees(k) /\ ListsAgree(k) /\ k \in ClientStates
         /\ MaxBadParts = 0 => AskedBy(c, q) \subseteq w
  BY DEF Good, Agrees, ListsAgree, Sound

(* The room in the buffer of a good client is filled. *)
LEMMA GoodStart ==
  ASSUME NEW c \in Clients, NEW k, NEW q \in Seq(ReadRequests), NEW p, NEW w, Good(c, k, q, p, w),
         file \in [Files -> FileStates], NEW r, r = StartBlockReads(c, k, q)
  PROVE  /\ Good(c, r.client, r.queue, p, w) /\ r.queue \in Seq(ReadRequests)
         /\ r.client.slot = k.slot /\ r.client.sent = k.sent /\ r.client.sendQueue = k.sendQueue
         /\ OthersKept(c, q, r.queue)
<1>1. Agrees(k) /\ FileOf \in [Blocks -> Files]
  BY Constants DEF Good
<1>2. StartKept(c, k, q, p, w, r)
  BY <1>1, StartKeeps
<1> QED
  BY <1>2 DEF Good, StartKept

(* A step of one client keeps the others good. *)
LEMMA ClientStep ==
  ASSUME cl \in [Clients -> ClientStates], NEW q, NEW p, NEW w,
         \A d \in Clients : Good(d, cl[d], q, p, w),
         NEW c \in Clients, NEW l, NEW r, NEW e, NEW v, w \subseteq v,
         Good(c, l, r, e, v), cl' = [cl EXCEPT ![c] = l],
         OthersKept(c, q, r), OthersKept(c, p, e)
  PROVE  /\ cl' \in [Clients -> ClientStates]
         /\ \A d \in Clients : Good(d, cl'[d], r, e, v)
<1>1. l \in ClientStates
  BY GoodGives
<1>2. cl' \in [Clients -> ClientStates] /\ cl'[c] = l /\ \A d \in Clients \ {c} : cl'[d] = cl[d]
  BY <1>1
<1>3. ASSUME NEW d \in Clients \ {c} PROVE Good(d, cl[d], r, e, v)
  <2> DEFINE k == cl[d]
  <2>1. Good(d, k, q, p, w)
    OBVIOUS
  <2>2. /\ AskedBy(d, r) = AskedBy(d, q) /\ (OnceBy(d, q) => OnceBy(d, r))
        /\ AskedBy(d, e) = AskedBy(d, p) /\ (OnceBy(d, p) => OnceBy(d, e))
    BY DEF OthersKept
  <2> HIDE DEF k
  <2>3. Reading(d, k, r, e)
    BY <2>1, <2>2 DEF Good, Reading
  <2>4. MaxSlots <= 1 /\ k.slot # "None" => ReadingOnce(d, k, r, e)
    BY <2>1, <2>2 DEF Good, ReadingOnce
  <2>5. MaxBadParts = 0 => Sound(d, k, r, v)
    BY <2>1, <2>2 DEF Good, Sound
  <2>6. Good(d, k, r, e, v)
    BY <2>1, <2>3, <2>4, <2>5 DEF Good
  <2> QED
    BY <2>6 DEF k
<1> QED
  BY <1>2, <1>3

(* The queues stay. *)
LEMMA OthersStay == \A c, s : OthersKept(c, s, s)
  BY DEF OthersKept

(* A step of one client that touches neither files nor reads. *)
LEMMA QuietStep ==
  ASSUME Inv, NEW c \in Clients, NEW l, Good(c, l, reads, posted, Whole),
         cl' = [cl EXCEPT ![c] = l], UNCHANGED <<file, reads, posted>>,
         left' \in [slots : Nat, rehomes : Nat, faults : Nat, badParts : Nat], LeftGood',
         MaxSlots <= 1 /\ left'.slots # 0 => /\ left.slots # 0
                                             /\ Fresh(c, l, reads, posted)
  PROVE  Inv'
<1>1. Whole' = Whole
  BY DEF Whole
<1>2. cl' \in [Clients -> ClientStates] /\ \A d \in Clients : Good(d, cl'[d], reads, posted, Whole)
  <2>1. /\ cl \in [Clients -> ClientStates] /\ Whole \subseteq Whole
        /\ \A d \in Clients : Good(d, cl[d], reads, posted, Whole)
        /\ OthersKept(c, reads, reads) /\ OthersKept(c, posted, posted)
    BY OthersStay DEF Inv, ClientsGood
  <2> QED
    BY <2>1, ClientStep
<1>3. MaxSlots <= 1 /\ left'.slots # 0 => \A d \in Clients : Fresh(d, cl'[d], reads, posted)
  BY DEF Inv, ClientsGood
<1>4. ClientsGood'
  BY <1>1, <1>2, <1>3 DEF ClientsGood
<1>5. Types' /\ FilesGood'
  BY DEF Inv, Types, FilesGood
<1> QED
  BY <1>4, <1>5 DEF Inv

(* A client that is not fresh: all slots have been given. *)
LEMMA AllGiven ==
  ASSUME Inv, NEW c \in Clients, ~Fresh(c, cl[c], reads, posted), MaxSlots <= 1
  PROVE  left.slots = 0
  BY DEF Inv, ClientsGood

-----------------------------------------------------------------------------
(***************************************************************************)
(* The steps: slots and connections.                                       *)
(***************************************************************************)

(* A slot is given. *)
GivenSlot(k, slot, m) ==
  /\ ListsAgree(m) /\ m.slot = slot /\ m.blockRequests = << >> /\ m.doneBlocks = << >>
  /\ m.sock = k.sock /\ m.added = 0 /\ m.sent = 0
  /\ m.sendQueue = k.sendQueue /\ m.sentPayload = k.sentPayload

(* addUpNextClient(): the client that gets a slot had empty lists. *)
LEMMA SlotGiven ==
  ASSUME NEW k, Agrees(k), k.slot = "None", NEW slot \in {"Connecting", "Uploading"},
         NEW m, m = [[k EXCEPT !.added = 0, !.sent = 0] EXCEPT !.slot = slot]
  PROVE  GivenSlot(k, slot, m)
<1>1. k \in ClientStates /\ k.blockRequests = << >> /\ k.doneBlocks = << >>
      /\ k.blockReadBytesQueued = 0
  BY EmptyList DEF Agrees, ListsAgree
<1>2. m = [k EXCEPT !.added = 0, !.sent = 0, !.slot = slot]
  BY <1>1 DEF ClientStates
<1>3. m \in ClientStates
  BY <1>1, <1>2, EmptyFields, ZenonT(60) DEF ClientStates
<1>4. /\ m.slot = slot /\ m.blockRequests = << >> /\ m.doneBlocks = << >>
      /\ m.blockReadBytesQueued = 0
      /\ m.sock = k.sock /\ m.added = 0 /\ m.sent = 0
      /\ m.sendQueue = k.sendQueue /\ m.sentPayload = k.sentPayload
  BY <1>1, <1>2 DEF ClientStates
<1> QED
  BY <1>3, <1>4, NoLists DEF GivenSlot

(* With it the client is good, if it was fresh or that does not matter. *)
LEMMA GoodGiven ==
  ASSUME NEW c, NEW l, Agrees(l), l.blockRequests = << >>, l.doneBlocks = << >>,
         l.added = 0, l.sent = 0, NEW q \in Seq(ReadRequests), NEW p \in Seq(Events), NEW w,
         MaxBadParts = 0 => AskedBy(c, q) \subseteq w,
         MaxSlots <= 1 => /\ AskedBy(c, q) = {} /\ AskedBy(c, p) = {}
                          /\ l.sendQueue = << >> /\ l.sentPayload = 0
  PROVE  Good(c, l, q, p, w)
<1>1. MarkedIn(l.blockRequests) = {} /\ BlocksIn(l.blockRequests) = {}
  BY EmptyList
<1>2. Reading(c, l, q, p)
  BY <1>1 DEF Reading
<1>3. MaxSlots <= 1 => ReadingOnce(c, l, q, p)
  BY <1>1, NoneAsked, AskedTypes DEF ReadingOnce
<1>4. MaxBadParts = 0 => Sound(c, l, q, w)
  BY <1>1 DEF Sound
<1>5. MaxSlots <= 1 => Accounts(l)
  <2> SUFFICES ASSUME MaxSlots <= 1 PROVE Accounts(l)
    OBVIOUS
  <2>1. l.sendQueue = << >> /\ l.sentPayload = 0 /\ Len(<< >>) = 0
    OBVIOUS
  <2>2. l.added = l.sent + l.sentPayload + Len(l.sendQueue)
    BY <2>1
  <2>3. \A j \in 1..Len(l.sendQueue) : FALSE
    BY <2>1
  <2>4. \A j \in 1..Len(l.doneBlocks) : FALSE
    BY <2>1
  <2> QED
    BY <2>1, <2>2, <2>3, <2>4 DEF Accounts
<1> QED
  BY <1>2, <1>3, <1>4, <1>5 DEF Good

(* What is not touched by a step of one client. *)
LEMMA LeftTypes ==
  ASSUME Inv
  PROVE  /\ left \in [slots : Nat, rehomes : Nat, faults : Nat, badParts : Nat]
         /\ left.slots \in Nat /\ left.rehomes \in Nat
         /\ LeftGood /\ reads \in Seq(ReadRequests) /\ posted \in Seq(Events)
         /\ file \in [Files -> FileStates] /\ cl \in [Clients -> ClientStates]
         /\ \A c \in Clients : Good(c, cl[c], reads, posted, Whole)
  BY DEF Inv, Types, ClientsGood

(* A slot is given: addUpNextClient() keeps the invariant. *)
LEMMA AddUpNextStep ==
  ASSUME Inv, NEW c \in Clients, addUpNextClient(c)
  PROVE  Inv' /\ cl'[c].sent = 0 /\ (cl'[c].sendQueue = cl[c].sendQueue \/ cl'[c].sendQueue = << >>)
<1> DEFINE k == cl[c]
           m(slot) == [[k EXCEPT !.added = 0, !.sent = 0] EXCEPT !.slot = slot]
<1>1. /\ k.slot = "None" /\ left.slots > 0 /\ left' = [left EXCEPT !.slots = @ - 1]
      /\ UNCHANGED <<file, reads, posted>>
  BY DEF addUpNextClient
<1>2. Good(c, k, reads, posted, Whole) /\ Agrees(k) /\ cl \in [Clients -> ClientStates]
      /\ (MaxBadParts = 0 => AskedBy(c, reads) \subseteq Whole)
      /\ reads \in Seq(ReadRequests) /\ posted \in Seq(Events)
  BY LeftTypes, GoodGives
<1>3. MaxSlots <= 1 => Fresh(c, k, reads, posted)
  BY <1>1, LeftTypes DEF Inv, ClientsGood
<1>4. /\ left' \in [slots : Nat, rehomes : Nat, faults : Nat, badParts : Nat]
      /\ LeftGood' /\ (MaxSlots <= 1 => left'.slots = 0)
  <2>1. left.slots \in Nat /\ left.slots - 1 \in Nat /\ left'.slots = left.slots - 1
    BY <1>1, LeftTypes
  <2>2. left' \in [slots : Nat, rehomes : Nat, faults : Nat, badParts : Nat]
        /\ left'.rehomes = left.rehomes /\ left'.badParts = left.badParts
    BY <1>1, <2>1, LeftTypes
  <2>3. LeftGood
    BY LeftTypes
  <2> QED
    BY <2>1, <2>2, <2>3, <1>1 DEF LeftGood
<1>5. ASSUME NEW l, cl' = [cl EXCEPT ![c] = l],
             \/ k.sock = "open" /\ l = m("Uploading")
             \/ \E state \in {"dialling", "none"} : l = NewSocket(m("Connecting"), state)
      PROVE  /\ Good(c, l, reads, posted, Whole) /\ l.sent = 0
             /\ (l.sendQueue = k.sendQueue \/ l.sendQueue = << >>)
  <2>1. CASE k.sock = "open" /\ l = m("Uploading")
    <3> DEFINE slot == "Uploading"
    <3>1. slot \in {"Connecting", "Uploading"} /\ l = m(slot)
      BY <2>1
    <3> HIDE DEF slot
    <3>2. /\ ListsAgree(l) /\ l.slot = slot /\ l.blockRequests = << >> /\ l.doneBlocks = << >>
          /\ l.sock = k.sock /\ l.added = 0 /\ l.sent = 0
          /\ l.sendQueue = k.sendQueue /\ l.sentPayload = k.sentPayload
      <4>1. GivenSlot(k, slot, l)
        BY <1>1, <1>2, <3>1, SlotGiven
      <4> QED
        BY <4>1 DEF GivenSlot
    <3>3. Agrees(l)
      BY <2>1, <3>2 DEF Agrees
    <3>4. Good(c, l, reads, posted, Whole)
      BY <1>2, <1>3, <3>2, <3>3, GoodGiven DEF Fresh
    <3> QED
      BY <3>2, <3>4
  <2>2. ASSUME NEW state \in {"dialling", "none"}, l = NewSocket(m("Connecting"), state)
        PROVE  Good(c, l, reads, posted, Whole) /\ l.sent = 0 /\ l.sendQueue = << >>
    <3> DEFINE slot == "Connecting"
               n == m(slot)
    <3>1. slot \in {"Connecting", "Uploading"} /\ n = m(slot) /\ slot # "Uploading"
      OBVIOUS
    <3> HIDE DEF slot, n
    <3>2. /\ ListsAgree(n) /\ n.slot = slot /\ n.blockRequests = << >> /\ n.doneBlocks = << >>
          /\ n.added = 0 /\ n.sent = 0
      <4>1. GivenSlot(k, slot, n)
        BY <1>1, <1>2, <3>1, SlotGiven
      <4> QED
        BY <4>1 DEF GivenSlot
    <3>3. l = NewSocket(n, state)
      BY <2>2 DEF n, slot
    <3>4. /\ ListsAgree(l) /\ l.slot = slot /\ l.blockRequests = << >> /\ l.doneBlocks = << >>
          /\ l.sent = 0 /\ l.sendQueue = << >> /\ l.sentPayload = 0
      BY <3>2, <3>3, NewSocketFacts
    <3>5. l.added = 0
      BY <3>2, <3>3 DEF NewSocket, ListsAgree, ClientStates
    <3>6. Agrees(l)
      BY <3>1, <3>4 DEF Agrees
    <3>7. Good(c, l, reads, posted, Whole)
      BY <1>2, <1>3, <3>4, <3>5, <3>6, GoodGiven DEF Fresh
    <3> QED
      BY <3>4, <3>7
  <2> QED
    BY <1>5, <2>1, <2>2
<1>6. \E l : /\ cl' = [cl EXCEPT ![c] = l]
             /\ \/ k.sock = "open" /\ l = m("Uploading")
                \/ \E state \in {"dialling", "none"} : l = NewSocket(m("Connecting"), state)
  BY DEF addUpNextClient
<1>7. PICK l : /\ cl' = [cl EXCEPT ![c] = l] /\ Good(c, l, reads, posted, Whole) /\ l.sent = 0
               /\ (l.sendQueue = k.sendQueue \/ l.sendQueue = << >>)
  BY <1>5, <1>6
<1>8. Inv'
  BY <1>1, <1>4, <1>7, QuietStep
<1> QED
  BY <1>2, <1>7, <1>8

(* The connection is made: the handshake keeps the invariant. *)
LEMMA HandshakeStep ==
  ASSUME Inv, NEW c \in Clients, onHandshakeCompleted(c)
  PROVE  Inv' /\ cl'[c].sent = cl[c].sent /\ cl'[c].sendQueue = cl[c].sendQueue
<1> DEFINE k == cl[c]
           l == HandshakeCompleted(k)
<1>1. cl' = [cl EXCEPT ![c] = l] /\ UNCHANGED <<file, reads, posted, left>>
  BY DEF onHandshakeCompleted
<1>2. Good(c, k, reads, posted, Whole) /\ ListsAgree(k) /\ cl \in [Clients -> ClientStates]
  BY LeftTypes, GoodGives
<1>3. /\ Agrees(l) /\ (l.slot = "None" <=> k.slot = "None") /\ l.slot # "Connecting"
      /\ l.blockRequests = k.blockRequests /\ l.doneBlocks = k.doneBlocks
      /\ l.added = k.added /\ l.sent = k.sent /\ l.sendQueue = k.sendQueue
      /\ l.sentPayload = k.sentPayload /\ l.out = k.out
  BY <1>2, HandshakeFacts
<1> HIDE DEF l
<1>4. Accounts(k) => Accounts(l)
  BY <1>3 DEF Accounts
<1>5. Good(c, l, reads, posted, Whole)
  BY <1>2, <1>3, <1>4 DEF Good, Reading, ReadingOnce, Sound
<1>6. MaxSlots <= 1 /\ left'.slots # 0 => left.slots # 0 /\ Fresh(c, l, reads, posted)
  BY <1>1, <1>3 DEF Inv, ClientsGood, Fresh
<1>7. left' \in [slots : Nat, rehomes : Nat, faults : Nat, badParts : Nat] /\ LeftGood'
  BY <1>1, LeftTypes DEF LeftGood
<1>8. Inv'
  BY <1>1, <1>5, <1>6, <1>7, QuietStep
<1> QED
  BY <1>1, <1>2, <1>3, <1>8

(* The peer has connected to us: the replaced socket keeps the invariant. *)
LEMMA AttachStep ==
  ASSUME Inv, NEW c \in Clients, attachToAlreadyKnown(c)
  PROVE  Inv' /\ cl'[c].sent = cl[c].sent /\ cl'[c].sendQueue = << >>
<1> DEFINE k == cl[c]
           state == "open"
           m == NewSocket(k, state)
           l == HandshakeCompleted(m)
<1>1. cl' = [cl EXCEPT ![c] = l] /\ UNCHANGED <<file, reads, posted>>
  BY DEF attachToAlreadyKnown
<1>2. Good(c, k, reads, posted, Whole) /\ ListsAgree(k) /\ Agrees(k) /\ cl \in [Clients -> ClientStates]
  BY LeftTypes, GoodGives
<1>3. /\ left' \in [slots : Nat, rehomes : Nat, faults : Nat, badParts : Nat]
      /\ LeftGood' /\ left'.slots = left.slots /\ (MaxRehomes = 0 => k.sock = "none")
  <2>1. CASE cl[c].sock = "none" /\ UNCHANGED left
    BY <2>1, LeftTypes DEF LeftGood
  <2>2. CASE left.rehomes > 0 /\ left' = [left EXCEPT !.rehomes = @ - 1]
    <3>3. left.rehomes - 1 \in Nat
      BY <2>2, LeftTypes
    <3>1. /\ left'.slots = left.slots /\ left'.badParts = left.badParts
          /\ left' \in [slots : Nat, rehomes : Nat, faults : Nat, badParts : Nat]
      BY <2>2, <3>3, LeftTypes
    <3>2. MaxRehomes # 0
      BY <2>2, LeftTypes DEF LeftGood
    <3> QED
      BY <3>1, <3>2, LeftTypes DEF LeftGood
  <2> QED
    BY <2>1, <2>2 DEF attachToAlreadyKnown
<1>4. state \in {"none", "dialling", "open"}
  OBVIOUS
<1> HIDE DEF state
<1>5. /\ ListsAgree(m) /\ m.slot = k.slot /\ m.blockRequests = k.blockRequests
      /\ m.doneBlocks = k.doneBlocks /\ m.sent = k.sent
      /\ m.sendQueue = << >> /\ m.sentPayload = 0
  BY <1>2, <1>4, NewSocketFacts
<1>6. m.added = k.added /\ m.out = k.out
  BY <1>2 DEF NewSocket, ListsAgree, ClientStates
<1> HIDE DEF m
<1>7. /\ Agrees(l) /\ (l.slot = "None" <=> m.slot = "None") /\ l.slot # "Connecting"
      /\ l.blockRequests = m.blockRequests /\ l.doneBlocks = m.doneBlocks
      /\ l.added = m.added /\ l.sent = m.sent /\ l.sendQueue = m.sendQueue
      /\ l.sentPayload = m.sentPayload /\ l.out = m.out
  BY <1>5, HandshakeFacts
<1> HIDE DEF l
<1>8. ASSUME MaxRehomes = 0, Accounts(k) PROVE Accounts(l)
  <2>1. k.slot # "Uploading" /\ k.doneBlocks = << >>
    BY <1>2, <1>3, <1>8 DEF Agrees, ListsAgree
  <2>2. k.slot = "None" \/ k.slot = "Connecting"
    BY <2>1, <1>2, ClientFields DEF ListsAgree
  <2>3. k.slot = "Connecting" => k.added = k.sent + 0 + Len(<< >>)
    BY <1>8 DEF Accounts
  <2>4. l.slot # "None" => k.slot = "Connecting"
    BY <1>5, <1>7, <2>2
  <2>5. \A j \in 1..Len(l.sendQueue) : FALSE
    BY <1>5, <1>7
  <2>6. \A j \in 1..Len(l.doneBlocks) : FALSE
    BY <1>5, <1>7, <2>1
  <2>7. l.slot # "None" => l.added = l.sent + l.sentPayload + Len(l.sendQueue)
    BY <1>5, <1>6, <1>7, <2>3, <2>4
  <2> QED
    BY <1>7, <2>5, <2>6, <2>7 DEF Accounts
<1>9. Good(c, l, reads, posted, Whole)
  BY <1>2, <1>5, <1>7, <1>8 DEF Good, Reading, ReadingOnce, Sound
<1>10. MaxSlots <= 1 /\ left'.slots # 0 => left.slots # 0 /\ Fresh(c, l, reads, posted)
  BY <1>3, <1>5, <1>7 DEF Inv, ClientsGood, Fresh
<1>11. Inv'
  BY <1>1, <1>3, <1>9, <1>10, QuietStep
<1>12. cl'[c] = l
  BY <1>1, <1>2
<1> QED
  BY <1>5, <1>7, <1>11, <1>12

(* The connection is lost: the slot ends with its socket. *)
LEMMA DisconnectedStep ==
  ASSUME Inv, NEW c \in Clients, disconnected(c)
  PROVE  Inv' /\ cl'[c].sent = cl[c].sent /\ cl'[c].sendQueue = << >>
<1> DEFINE k == cl[c]
           state == "none"
           m == NewSocket(k, state)
           l == RemoveFromUploadQueue(m)
<1>1. cl' = [cl EXCEPT ![c] = l] /\ UNCHANGED <<file, reads, posted, left>>
  BY DEF disconnected
<1>2. ListsAgree(k) /\ cl \in [Clients -> ClientStates]
      /\ (MaxBadParts = 0 => AskedBy(c, reads) \subseteq Whole)
  BY LeftTypes, GoodGives
<1>3. state \in {"none", "dialling", "open"}
  OBVIOUS
<1> HIDE DEF state
<1>4. ListsAgree(m) /\ m.slot = k.slot /\ m.sent = k.sent /\ m.sendQueue = << >> /\ m.sentPayload = 0
  BY <1>2, <1>3, NewSocketFacts
<1> HIDE DEF m
<1>5. Good(c, l, reads, posted, Whole) /\ l.sent = m.sent /\ l.sendQueue = m.sendQueue
  BY <1>2, <1>4, GoodRemove, RemoveFacts
<1>6. k.slot = "None" => l = m
  BY <1>4 DEF RemoveFromUploadQueue
<1> HIDE DEF l
<1>7. MaxSlots <= 1 /\ left'.slots # 0 => left.slots # 0 /\ Fresh(c, l, reads, posted)
  BY <1>1, <1>4, <1>6 DEF Inv, ClientsGood, Fresh
<1>8. left' \in [slots : Nat, rehomes : Nat, faults : Nat, badParts : Nat] /\ LeftGood'
  BY <1>1, LeftTypes DEF LeftGood
<1>9. Inv'
  BY <1>1, <1>5, <1>7, <1>8, QuietStep
<1> QED
  BY <1>1, <1>2, <1>4, <1>5, <1>9

(* A slot ends and nothing else happens. *)
LEMMA EndStep ==
  ASSUME Inv, NEW c \in Clients, cl[c].slot # "None", NEW k, ListsAgree(k),
         cl' = [cl EXCEPT ![c] = RemoveFromUploadQueue(k)], UNCHANGED <<file, reads, posted, left>>
  PROVE  Inv' /\ cl'[c].sent = k.sent /\ cl'[c].sendQueue = k.sendQueue
<1> DEFINE l == RemoveFromUploadQueue(k)
<1>1. cl \in [Clients -> ClientStates] /\ (MaxBadParts = 0 => AskedBy(c, reads) \subseteq Whole)
  BY LeftTypes, GoodGives
<1>2. Good(c, l, reads, posted, Whole) /\ l.sent = k.sent /\ l.sendQueue = k.sendQueue
  BY <1>1, GoodRemove, RemoveFacts
<1> HIDE DEF l
<1>3. MaxSlots <= 1 => left.slots = 0
  BY AllGiven DEF Fresh
<1>4. left' \in [slots : Nat, rehomes : Nat, faults : Nat, badParts : Nat] /\ LeftGood'
  BY LeftTypes DEF LeftGood
<1>5. cl' = [cl EXCEPT ![c] = l]
  BY DEF l
<1>6. Inv'
  BY <1>2, <1>3, <1>4, <1>5, QuietStep
<1> QED
  BY <1>1, <1>2, <1>5, <1>6

(* OP_CANCELTRANSFER and OP_END_OF_DOWNLOAD end a slot. *)
LEMMA CancelStep ==
  ASSUME Inv, NEW c \in Clients, cancelTransfer(c)
  PROVE  Inv' /\ cl'[c].sent = cl[c].sent /\ cl'[c].sendQueue = cl[c].sendQueue
<1>1. /\ cl[c].slot # "None" /\ cl' = [cl EXCEPT ![c] = RemoveFromUploadQueue(cl[c])]
      /\ UNCHANGED <<file, reads, posted, left>>
  BY DEF cancelTransfer
<1>2. ListsAgree(cl[c])
  BY LeftTypes, GoodGives
<1> QED
  BY <1>1, <1>2, EndStep

(* A change of the slot's file leaves a good client. *)
LEMMA GoodFile ==
  ASSUME NEW c, NEW k, NEW q, NEW p, NEW w, Good(c, k, q, p, w), NEW f \in Files,
         NEW m, m = [k EXCEPT !.reqUpFile = f]
  PROVE  Good(c, m, q, p, w)
<1>1. k \in ClientStates /\ Agrees(k)
  BY GoodGives
<1>2. m \in ClientStates
  BY <1>1, ZenonT(60) DEF ClientStates
<1>3. /\ m.slot = k.slot /\ m.sock = k.sock /\ m.blockRequests = k.blockRequests
      /\ m.doneBlocks = k.doneBlocks /\ m.added = k.added /\ m.sent = k.sent
      /\ m.sendQueue = k.sendQueue /\ m.sentPayload = k.sentPayload /\ m.out = k.out
      /\ m.blockReadBytesQueued = k.blockReadBytesQueued
  BY <1>1 DEF ClientStates
<1>4. Agrees(m)
  BY <1>1, <1>2, <1>3 DEF Agrees, ListsAgree
<1>5. Accounts(k) => Accounts(m)
  BY <1>3 DEF Accounts
<1> QED
  BY <1>3, <1>4, <1>5 DEF Good, Reading, ReadingOnce, Sound

(* OP_STARTUPLOADREQ changes the slot's file. *)
LEMMA UploadRequestStep ==
  ASSUME Inv, NEW c \in Clients, NEW f \in Files, onUploadRequestReceived(c, f)
  PROVE  Inv' /\ cl'[c].sent = cl[c].sent /\ cl'[c].sendQueue = cl[c].sendQueue
<1> DEFINE k == cl[c]
           l == [k EXCEPT !.reqUpFile = f]
<1>1. /\ k.slot = "Uploading" /\ cl' = [cl EXCEPT ![c] = l]
      /\ UNCHANGED <<file, reads, posted, left>>
  BY DEF onUploadRequestReceived
<1>2. Good(c, k, reads, posted, Whole) /\ cl \in [Clients -> ClientStates] /\ k \in ClientStates
  BY LeftTypes
<1>3. l.sent = k.sent /\ l.sendQueue = k.sendQueue
  BY <1>2 DEF ClientStates
<1>4. Good(c, l, reads, posted, Whole)
  BY <1>2, GoodFile
<1> HIDE DEF l
<1>5. MaxSlots <= 1 => left.slots = 0
  BY <1>1, AllGiven DEF Fresh
<1>6. left' \in [slots : Nat, rehomes : Nat, faults : Nat, badParts : Nat] /\ LeftGood'
  BY <1>1, LeftTypes DEF LeftGood
<1>7. Inv'
  BY <1>1, <1>4, <1>5, <1>6, QuietStep
<1> QED
  BY <1>1, <1>2, <1>3, <1>7

(* The socket sends the packet at its head. *)
LEMMA SentFacts ==
  ASSUME NEW k, Agrees(k), k.sendQueue # << >>,
         NEW l, l = [k EXCEPT !.sendQueue = Tail(@), !.sentPayload = @ + 1,
                              !.out = @ \cup {Head(k.sendQueue).block}]
  PROVE  /\ Agrees(l) /\ l.slot = k.slot /\ l.blockRequests = k.blockRequests /\ l.sent = k.sent
         /\ l.sendQueue = Tail(k.sendQueue) /\ Len(Tail(k.sendQueue)) < Len(k.sendQueue)
         /\ Accounts(k) => Accounts(l)
<1> DEFINE s == k.sendQueue
           t == Tail(s)
           o == k.out \cup {Head(s).block}
           n == k.sentPayload + 1
<1>1. k \in ClientStates /\ s \in Seq(Packets) /\ k.sentPayload \in Nat /\ k.out \in SUBSET Blocks
      /\ k.added \in Nat /\ k.sent \in Nat
  BY ClientFields DEF Agrees, ListsAgree
<1>2. /\ t \in Seq(Packets) /\ Len(t) = Len(s) - 1 /\ Len(s) \in Nat \ {0}
      /\ (\A j \in 1..(Len(s) - 1) : t[j] = s[j + 1]) /\ Head(s) = s[1] /\ s[1] \in Packets
  BY <1>1
<1>3. n \in Nat /\ o \in SUBSET Blocks
  BY <1>1, <1>2 DEF Packets
<1>4. l = [k EXCEPT !.sendQueue = t, !.sentPayload = n, !.out = o]
  OBVIOUS
<1> HIDE DEF t, o, n
<1>5. l \in ClientStates
  BY <1>1, <1>2, <1>3, <1>4, ZenonT(60) DEF ClientStates
<1>6. /\ l.blockRequests = k.blockRequests /\ l.doneBlocks = k.doneBlocks
      /\ l.blockReadBytesQueued = k.blockReadBytesQueued
      /\ l.slot = k.slot /\ l.sock = k.sock /\ l.sendQueue = t
      /\ l.sentPayload = n /\ l.added = k.added /\ l.sent = k.sent /\ l.out = o
  BY <1>1, <1>4 DEF ClientStates
<1>7. Agrees(l)
  BY <1>5, <1>6 DEF Agrees, ListsAgree
<1>8. ASSUME Accounts(k) PROVE Accounts(l)
  <2>0. \A x, y, z \in Nat : /\ x + y + z = x + (y + 1) + (z - 1)
                             /\ x + y + (z + 1) = x + (y + 1) + z
    OBVIOUS
  <2>1. ASSUME l.slot # "None" PROVE l.added = l.sent + l.sentPayload + Len(l.sendQueue)
    <3>1. k.added = k.sent + k.sentPayload + Len(s)
      BY <1>6, <1>8, <2>1 DEF Accounts
    <3>2. k.sent + k.sentPayload + Len(s) = k.sent + (k.sentPayload + 1) + (Len(s) - 1)
      BY <1>1, <1>2, <2>0
    <3> QED
      BY <1>2, <1>6, <3>1, <3>2 DEF n
  <2>2. ASSUME l.slot # "None", NEW j \in 1..Len(l.sendQueue)
        PROVE  l.sendQueue[j].mark = l.sent + l.sentPayload + j
    <3>1. j \in 1..(Len(s) - 1) /\ j + 1 \in 1..Len(s)
      BY <1>2, <1>6, <2>2
    <3>2. t[j] = s[j + 1] /\ s[j + 1].mark = k.sent + k.sentPayload + (j + 1)
      BY <1>2, <1>6, <1>8, <2>2, <3>1 DEF Accounts
    <3>3. k.sent + k.sentPayload + (j + 1) = k.sent + (k.sentPayload + 1) + j
      <4>1. j \in Nat
        BY <3>1
      <4> QED
        BY <1>1, <4>1, <2>0
    <3> QED
      BY <1>6, <3>2, <3>3 DEF n
  <2>3. l.slot # "Connecting"
    BY <1>6, <1>8 DEF Accounts
  <2>4. ASSUME NEW i \in 1..Len(l.doneBlocks)
        PROVE  \/ l.doneBlocks[i] \in l.out
               \/ \E j \in 1..Len(l.sendQueue) : l.sendQueue[j].block = l.doneBlocks[i]
    <3> DEFINE b == k.doneBlocks[i]
    <3>1. b \in k.out \/ \E j \in 1..Len(s) : s[j].block = b
      BY <1>6, <1>8 DEF Accounts
    <3>2. b \in k.out => b \in o
      BY DEF o
    <3>3. ASSUME NEW j \in 1..Len(s), s[j].block = b
          PROVE  b \in o \/ \E h \in 1..Len(t) : t[h].block = b
      <4>1. CASE j = 1
        BY <1>2, <3>3, <4>1 DEF o
      <4>2. CASE j # 1
        <5>1. j - 1 \in 1..(Len(s) - 1) /\ (j - 1) + 1 = j
          BY <1>2, <4>2
        <5>2. t[j - 1] = s[j] /\ j - 1 \in 1..Len(t)
          BY <1>2, <5>1
        <5> QED
          BY <3>3, <5>2
      <4> QED
        BY <4>1, <4>2
    <3> QED
      BY <1>6, <3>1, <3>2, <3>3
  <2> QED
    BY <2>1, <2>2, <2>3, <2>4 DEF Accounts
<1>9. Len(t) < Len(s)
  BY <1>2
<1> QED
  BY <1>6, <1>7, <1>8, <1>9 DEF t

(* The throttler lets a packet out. *)
LEMMA SocketSendsStep ==
  ASSUME Inv, NEW c \in Clients, SocketSends(c)
  PROVE  Inv' /\ cl'[c].sent = cl[c].sent /\ Len(cl'[c].sendQueue) < Len(cl[c].sendQueue)
<1> DEFINE k == cl[c]
           l == [k EXCEPT !.sendQueue = Tail(@), !.sentPayload = @ + 1,
                          !.out = @ \cup {Head(k.sendQueue).block}]
<1>1. Good(c, k, reads, posted, Whole) /\ cl \in [Clients -> ClientStates] /\ Agrees(k)
  BY LeftTypes, GoodGives
<1>2. /\ k.sendQueue # << >> /\ cl' = [cl EXCEPT ![c] = l]
      /\ UNCHANGED <<file, reads, posted, left>>
  BY <1>1 DEF SocketSends
<1>3. /\ Agrees(l) /\ l.slot = k.slot /\ l.blockRequests = k.blockRequests /\ l.sent = k.sent
      /\ l.sendQueue = Tail(k.sendQueue) /\ Len(Tail(k.sendQueue)) < Len(k.sendQueue)
      /\ (Accounts(k) => Accounts(l))
  BY <1>1, <1>2, SentFacts, ZenonT(60)
<1> HIDE DEF l
<1>4. Good(c, l, reads, posted, Whole)
  BY <1>1, <1>3 DEF Good, Reading, ReadingOnce, Sound
<1>5. MaxSlots <= 1 => left.slots = 0
  BY <1>2, AllGiven DEF Fresh
<1>6. left' \in [slots : Nat, rehomes : Nat, faults : Nat, badParts : Nat] /\ LeftGood'
  BY <1>2, LeftTypes DEF LeftGood
<1>7. Inv'
  BY <1>2, <1>4, <1>5, <1>6, QuietStep
<1> QED
  BY <1>1, <1>2, <1>3, <1>7

-----------------------------------------------------------------------------
(***************************************************************************)
(* The steps: blocks asked for, and what the worker says of them.          *)
(***************************************************************************)

(* A step ends with startBlockReads() of client c in state k, where p are  *)
(* the events left.                                                        *)
LEMMA StartStep ==
  ASSUME Inv, NEW c \in Clients, cl[c].slot # "None", NEW k, NEW p \in Seq(Events),
         Good(c, k, reads, p, Whole), OthersKept(c, posted, p),
         MaxBadParts = 0 => \A i \in 1..Len(p) : p[i].safe,
         NEW r, r = StartBlockReads(c, k, reads),
         cl' = [cl EXCEPT ![c] = r.client], reads' = r.queue, posted' = p, UNCHANGED <<file, left>>
  PROVE  Inv' /\ cl'[c].slot = k.slot /\ cl'[c].sent = k.sent /\ cl'[c].sendQueue = k.sendQueue
<1> DEFINE l == r.client
<1>1. reads \in Seq(ReadRequests) /\ file \in [Files -> FileStates] /\ cl \in [Clients -> ClientStates]
  BY LeftTypes
<1>2. /\ Good(c, l, reads', p, Whole) /\ reads' \in Seq(ReadRequests)
      /\ l.slot = k.slot /\ l.sent = k.sent /\ l.sendQueue = k.sendQueue
      /\ OthersKept(c, reads, reads')
  BY <1>1, GoodStart
<1> HIDE DEF l
<1>3. cl' \in [Clients -> ClientStates] /\ \A d \in Clients : Good(d, cl'[d], reads', p, Whole)
  <2>1. /\ \A d \in Clients : Good(d, cl[d], reads, posted, Whole)
        /\ Whole \subseteq Whole /\ cl' = [cl EXCEPT ![c] = l]
    BY LeftTypes DEF l
  <2> QED
    BY <1>1, <1>2, <2>1, ClientStep
<1>4. Whole' = Whole
  BY DEF Whole
<1>5. MaxSlots <= 1 => left'.slots = 0
  BY AllGiven DEF Fresh
<1>6. ClientsGood'
  BY <1>3, <1>4, <1>5 DEF ClientsGood
<1>7. Types' /\ FilesGood' /\ LeftGood'
  BY <1>2 DEF Inv, Types, FilesGood, LeftGood
<1>8. cl'[c] = l
  BY <1>1 DEF l
<1> QED
  BY <1>2, <1>6, <1>7, <1>8 DEF Inv

(* The peer asks for a block: addReqBlock() keeps the invariant. *)
LEMMA AddReqBlockStep ==
  ASSUME Inv, NEW c \in Clients, NEW b \in Blocks, addReqBlock(c, b)
  PROVE  Inv' /\ cl'[c].sent = cl[c].sent /\ cl'[c].sendQueue = cl[c].sendQueue
<1> DEFINE k == cl[c]
           m == [k EXCEPT !.blockRequests = Append(@, [block |-> b, readQueued |-> FALSE])]
           r == StartBlockReads(c, m, reads)
           n == [k EXCEPT !.banned = TRUE]
<1>1. /\ k.slot = "Uploading" /\ IsCompleteBDSafe(b) /\ ~Duplicate(k, b)
      /\ UNCHANGED <<file, posted, left>>
      /\ \/ cl' = [cl EXCEPT ![c] = RemoveFromUploadQueue(n)] /\ UNCHANGED reads
         \/ cl' = [cl EXCEPT ![c] = r.client] /\ reads' = r.queue
  BY DEF addReqBlock
<1>2. Good(c, k, reads, posted, Whole) /\ Agrees(k) /\ ListsAgree(k) /\ k \in ClientStates
  BY LeftTypes, GoodGives
<1>3. CASE cl' = [cl EXCEPT ![c] = RemoveFromUploadQueue(n)] /\ UNCHANGED reads
  <2>1. n \in ClientStates
    BY <1>2, ZenonT(60) DEF ClientStates
  <2>2. /\ n.slot = k.slot /\ n.blockRequests = k.blockRequests /\ n.doneBlocks = k.doneBlocks
        /\ n.blockReadBytesQueued = k.blockReadBytesQueued
        /\ n.sent = k.sent /\ n.sendQueue = k.sendQueue
    BY <1>2 DEF ClientStates
  <2> HIDE DEF n
  <2>3. ListsAgree(n)
    BY <1>2, <2>1, <2>2 DEF ListsAgree
  <2>4. Inv' /\ cl'[c].sent = n.sent /\ cl'[c].sendQueue = n.sendQueue
    BY <1>1, <1>3, <2>3, EndStep
  <2> QED
    BY <2>2, <2>4
<1>4. CASE cl' = [cl EXCEPT ![c] = r.client] /\ reads' = r.queue
  <2>1. /\ Agrees(m) /\ m.slot = k.slot /\ m.sent = k.sent /\ m.sendQueue = k.sendQueue
        /\ BlocksIn(m.blockRequests) = BlocksIn(k.blockRequests) \cup {b}
        /\ MarkedIn(m.blockRequests) = MarkedIn(k.blockRequests)
        /\ Accounts(k) => Accounts(m)
    <3>1. Asked(k, b, m)
      BY <1>1, <1>2, AskFacts
    <3> QED
      BY <3>1 DEF Asked
  <2> HIDE DEF m
  <2>2. MaxBadParts = 0 => b \in Whole
    <3> SUFFICES ASSUME MaxBadParts = 0 PROVE b \in Whole
      OBVIOUS
    <3> DEFINE f == FileOf[b]
    <3>1. f \in Files /\ file[f] \in FileStates /\ b \in BlocksOf(f)
      BY Constants, LeftTypes DEF BlocksOf
    <3>2. file[f].path = "part" \/ file[f].path = "incoming"
      BY <3>1 DEF FileStates
    <3>3. file[f].path = "part" => b \in file[f].safe
      BY <1>1 DEF IsCompleteBDSafe
    <3>4. file[f].path = "incoming" => b \in file[f].safe
      BY <3>1 DEF Inv, FilesGood
    <3> QED
      BY <3>2, <3>3, <3>4 DEF Whole
  <2>3. Good(c, m, reads, posted, Whole)
    BY <1>2, <2>1, <2>2 DEF Good, Reading, ReadingOnce, Sound
  <2>4. OthersKept(c, posted, posted) /\ posted \in Seq(Events) /\ posted' = posted
        /\ (MaxBadParts = 0 => \A i \in 1..Len(posted) : posted[i].safe)
    BY <1>1, OthersStay, LeftTypes DEF Inv, FilesGood
  <2>5. cl[c].slot # "None"
    BY <1>1
  <2>7. r = StartBlockReads(c, m, reads)
    OBVIOUS
  <2> HIDE DEF r
  <2>6. Inv' /\ cl'[c].slot = m.slot /\ cl'[c].sent = m.sent /\ cl'[c].sendQueue = m.sendQueue
    BY <1>1, <1>4, <2>3, <2>4, <2>5, <2>7, StartStep, ZenonT(60)
  <2> QED
    BY <2>1, <2>6
<1> QED
  BY <1>1, <1>3, <1>4

(* The slot's file follows what the peer pulls, or the slot ends. *)
LEMMA GoodFollow ==
  ASSUME NEW c, NEW k, NEW q, NEW p, NEW w, Good(c, k, q, p, w), NEW f \in Files,
         NEW m, m = FollowRequestedFile(k, f)
  PROVE  Good(c, m, q, p, w) /\ m.sent = k.sent /\ m.sendQueue = k.sendQueue
<1>1. ListsAgree(k) /\ k \in ClientStates /\ (MaxBadParts = 0 => AskedBy(c, q) \subseteq w)
  BY GoodGives
<1>2. m = RemoveFromUploadQueue(k) \/ m = [k EXCEPT !.reqUpFile = f]
  BY <1>1, FollowFacts
<1>3. CASE m = RemoveFromUploadQueue(k)
  BY <1>1, <1>3, GoodRemove, RemoveFacts
<1>4. CASE m = [k EXCEPT !.reqUpFile = f]
  <2>1. Good(c, m, q, p, w)
    BY <1>4, GoodFile
  <2>2. m.sent = k.sent /\ m.sendQueue = k.sendQueue
    BY <1>1, <1>4 DEF ClientStates
  <2> QED
    BY <2>1, <2>2
<1> QED
  BY <1>2, <1>3, <1>4

(* The timer ticks: process() counts as sent all that was. *)
LEMMA ProcessStep ==
  ASSUME Inv, NEW c \in Clients, process(c)
  PROVE  /\ Inv' /\ cl'[c].sendQueue = cl[c].sendQueue /\ cl[c].slot # "None"
         /\ cl'[c].sent = cl[c].sent \/ cl'[c].sent = cl[c].sent + cl[c].sentPayload
<1> DEFINE k == cl[c]
           m == UpdateUploadingStatisticsData(k)
           n == IF m.blockRequests = << >> THEN m
                ELSE FollowRequestedFile(m, FileOf[Head(m.blockRequests).block])
           r == StartBlockReads(c, n, reads)
<1>1. /\ k.slot # "None" /\ UNCHANGED <<file, posted, left>>
      /\ \/ cl' = [cl EXCEPT ![c] = RemoveFromUploadQueue(k)] /\ UNCHANGED reads
         \/ cl' = [cl EXCEPT ![c] = RemoveFromUploadQueue(m)] /\ UNCHANGED reads
         \/ cl' = [cl EXCEPT ![c] = r.client] /\ reads' = r.queue
  BY DEF process
<1>2. Good(c, k, reads, posted, Whole) /\ Agrees(k) /\ ListsAgree(k)
  BY LeftTypes, GoodGives
<1>3. /\ Agrees(m) /\ m.slot = k.slot /\ m.sock = k.sock /\ m.blockRequests = k.blockRequests
      /\ m.sendQueue = k.sendQueue /\ m.sent = k.sent + k.sentPayload
      /\ Accounts(k) => Accounts(m)
  BY <1>2, Constants, UpdateFacts
<1> HIDE DEF m
<1>4. Good(c, m, reads, posted, Whole)
  BY <1>2, <1>3 DEF Good, Reading, ReadingOnce, Sound
<1>5. CASE cl' = [cl EXCEPT ![c] = RemoveFromUploadQueue(k)] /\ UNCHANGED reads
  <2>1. Inv' /\ cl'[c].sent = k.sent /\ cl'[c].sendQueue = k.sendQueue
    BY <1>1, <1>2, <1>5, EndStep
  <2> QED
    BY <1>1, <2>1
<1>6. CASE cl' = [cl EXCEPT ![c] = RemoveFromUploadQueue(m)] /\ UNCHANGED reads
  <2>1. ListsAgree(m)
    BY <1>3 DEF Agrees
  <2>2. Inv' /\ cl'[c].sent = m.sent /\ cl'[c].sendQueue = m.sendQueue
    BY <1>1, <2>1, <1>6, EndStep
  <2> QED
    BY <1>1, <1>3, <2>2
<1>7. CASE cl' = [cl EXCEPT ![c] = r.client] /\ reads' = r.queue
  <2>1. Good(c, n, reads, posted, Whole) /\ n.sent = m.sent /\ n.sendQueue = m.sendQueue
    <3>1. CASE m.blockRequests = << >>
      BY <1>4, <3>1
    <3>2. CASE m.blockRequests # << >>
      <4> DEFINE f == FileOf[Head(m.blockRequests).block]
      <4>1. Head(m.blockRequests) \in Request
        <5>1. m.blockRequests \in Seq(Request)
          BY <1>3, ClientFields DEF Agrees, ListsAgree
        <5> QED
          BY <3>2, <5>1
      <4>2. f \in Files
        BY <4>1, Constants DEF Request
      <4>3. n = FollowRequestedFile(m, f)
        BY <3>2
      <4> HIDE DEF f, n
      <4> QED
        BY <1>4, <4>2, <4>3, GoodFollow
    <3> QED
      BY <3>1, <3>2
  <2> HIDE DEF n
  <2>2. OthersKept(c, posted, posted) /\ posted \in Seq(Events) /\ posted' = posted
        /\ (MaxBadParts = 0 => \A i \in 1..Len(posted) : posted[i].safe)
    BY <1>1, OthersStay, LeftTypes DEF Inv, FilesGood
  <2>4. r = StartBlockReads(c, n, reads)
    OBVIOUS
  <2> HIDE DEF r
  <2>5. /\ cl[c].slot # "None" /\ UNCHANGED <<file, left>>
        /\ cl' = [cl EXCEPT ![c] = r.client] /\ reads' = r.queue
    BY <1>1, <1>7
  <2>3. Inv' /\ cl'[c].slot = n.slot /\ cl'[c].sent = n.sent /\ cl'[c].sendQueue = n.sendQueue
    BY <2>1, <2>2, <2>4, <2>5, StartStep
  <2> QED
    BY <1>1, <1>3, <2>1, <2>3
<1> QED
  BY <1>1, <1>5, <1>6, <1>7

(* What the queues hold of the clients. *)
LEMMA HeadAsked ==
  /\ \A s \in Seq(ReadRequests) : s # << >> =>
       Head(s) \in ReadRequests /\ Head(s).client \in Clients /\ Head(s).block \in Blocks
         /\ Tail(s) \in Seq(ReadRequests)
  /\ \A s \in Seq(Events) : s # << >> =>
       Head(s) \in Events /\ Head(s).client \in Clients /\ Head(s).block \in Blocks
         /\ Tail(s) \in Seq(Events) /\ \A i \in 1..Len(Tail(s)) : Tail(s)[i] = s[i + 1] /\ i + 1 \in 1..Len(s)
<1>1. ASSUME NEW s \in Seq(ReadRequests), s # << >>
      PROVE  Head(s) \in ReadRequests /\ Head(s).client \in Clients /\ Head(s).block \in Blocks
             /\ Tail(s) \in Seq(ReadRequests)
  <2>1. Head(s) \in ReadRequests /\ Tail(s) \in Seq(ReadRequests)
    BY <1>1
  <2> QED
    BY <2>1 DEF ReadRequests
<1>2. ASSUME NEW s \in Seq(Events), s # << >>
      PROVE  Head(s) \in Events /\ Head(s).client \in Clients /\ Head(s).block \in Blocks
             /\ Tail(s) \in Seq(Events)
             /\ \A i \in 1..Len(Tail(s)) : Tail(s)[i] = s[i + 1] /\ i + 1 \in 1..Len(s)
  <2>1. Head(s) \in Events /\ Tail(s) \in Seq(Events)
    BY <1>2
  <2>2. \A i \in 1..Len(Tail(s)) : Tail(s)[i] = s[i + 1] /\ i + 1 \in 1..Len(s)
    BY <1>2
  <2> QED
    BY <2>1, <2>2 DEF Events
<1> QED
  BY <1>1, <1>2

(* An entry of a queue is asked for its client. *)
LEMMA HeadIsAsked ==
  ASSUME NEW X, NEW s \in Seq(X), s # << >>, Head(s).block \in Blocks
  PROVE  Head(s).block \in AskedBy(Head(s).client, s)
<1>1. 1 \in 1..Len(s) /\ s[1] = Head(s)
  OBVIOUS
<1> QED
  BY <1>1 DEF AskedBy

(* The worker reads a block: it leaves the queue and its event is posted. *)
LEMMA ReadBlockStep ==
  ASSUME Inv, readBlock
  PROVE  Inv' /\ cl' = cl /\ Len(posted') = Len(posted) + 1
<1> DEFINE r == Head(reads)
           w == r.block \in file[FileOf[r.block]].safe
           event(kind) == [kind |-> kind, client |-> r.client, block |-> r.block,
                           path |-> r.path, safe |-> w]
           q == Tail(reads)
<1>0. /\ reads \in Seq(ReadRequests) /\ posted \in Seq(Events) /\ reads # << >> /\ reads' = q
      /\ UNCHANGED <<cl, file>>
  BY LeftTypes DEF readBlock
<1>1. PICK kind \in {"ready", "error"} : posted' = Append(posted, event(kind))
  BY DEF readBlock
<1> DEFINE e == event(kind)
           p == Append(posted, e)
<1>2. /\ left' \in [slots : Nat, rehomes : Nat, faults : Nat, badParts : Nat]
      /\ LeftGood' /\ left'.slots = left.slots
  <2>1. CASE UNCHANGED left
    BY <2>1, LeftTypes DEF LeftGood
  <2>2. CASE left.faults > 0 /\ left' = [left EXCEPT !.faults = @ - 1]
    <3>1. left.faults - 1 \in Nat
      BY <2>2, LeftTypes
    <3>2. /\ left'.slots = left.slots /\ left'.rehomes = left.rehomes /\ left'.badParts = left.badParts
          /\ left' \in [slots : Nat, rehomes : Nat, faults : Nat, badParts : Nat]
      BY <2>2, <3>1, LeftTypes
    <3> QED
      BY <3>2, LeftTypes DEF LeftGood
  <2> QED
    BY <2>1, <2>2 DEF readBlock
<1>3. r \in ReadRequests /\ r.client \in Clients /\ r.block \in Blocks /\ q \in Seq(ReadRequests)
  BY <1>0, HeadAsked
<1>4. e \in Events /\ e.client = r.client /\ e.block = r.block /\ e.safe = w
  BY <1>1, <1>3 DEF ReadRequests, Events
<1>5. MaxBadParts = 0 => w
  <2>1. r.block \in AskedBy(r.client, reads)
    BY <1>0, <1>3, HeadIsAsked
  <2> QED
    BY <1>3, <2>1, LeftTypes DEF Good, Sound, Whole
<1> HIDE DEF e, w
<1>6. p \in Seq(Events) /\ posted' = p /\ Len(p) = Len(posted) + 1
      /\ (\A i \in 1..Len(posted) : p[i] = posted[i]) /\ p[Len(posted) + 1] = e
  BY <1>0, <1>1, <1>4, AppendFacts DEF e
<1>7. ASSUME NEW c
      PROVE  /\ AskedBy(c, reads) = AskedBy(c, q) \cup (IF r.client = c THEN {r.block} ELSE {})
             /\ AskedBy(c, p) = AskedBy(c, posted) \cup (IF r.client = c THEN {r.block} ELSE {})
             /\ OnceBy(c, reads) => OnceBy(c, q) /\ (r.client = c => r.block \notin AskedBy(c, q))
             /\ OnceBy(c, posted) /\ (r.client = c => r.block \notin AskedBy(c, posted)) => OnceBy(c, p)
  <2>1. /\ AskedBy(c, reads) = AskedBy(c, q) \cup (IF r.client = c THEN {r.block} ELSE {})
        /\ OnceBy(c, reads) => OnceBy(c, q) /\ (r.client = c => r.block \notin AskedBy(c, q))
    BY <1>0, <1>3, TailAsked
  <2>2. /\ AskedBy(c, p) = AskedBy(c, posted) \cup (IF e.client = c THEN {e.block} ELSE {})
        /\ OnceBy(c, posted) /\ (e.client = c => e.block \notin AskedBy(c, posted)) => OnceBy(c, p)
    <3>1. e.block \in Blocks
      BY <1>3, <1>4
    <3> QED
      BY <1>0, <1>4, <3>1, AppendAsked
  <2> QED
    BY <1>4, <2>1, <2>2
<1> HIDE DEF q, p, r
<1>8. ASSUME NEW c \in Clients PROVE Good(c, cl[c], q, p, Whole)
  <2> DEFINE k == cl[c]
             A == AskedBy(c, reads)
             B == AskedBy(c, posted)
             X == IF r.client = c THEN {r.block} ELSE {}
  <2>1. Good(c, k, reads, posted, Whole)
    BY LeftTypes
  <2>2. A = AskedBy(c, q) \cup X /\ AskedBy(c, p) = B \cup X
    BY <1>7
  <2>3. Reading(c, k, q, p)
    BY <2>1, <2>2 DEF Good, Reading
  <2>4. MaxSlots <= 1 /\ k.slot # "None" => ReadingOnce(c, k, q, p)
    <3> SUFFICES ASSUME ReadingOnce(c, k, reads, posted) PROVE ReadingOnce(c, k, q, p)
      BY <2>1 DEF Good
    <3>1. OnceBy(c, reads) /\ OnceBy(c, posted) /\ A \cap B = {} /\ MarkedIn(k.blockRequests) = A \cup B
      BY DEF ReadingOnce
    <3>2. OnceBy(c, q) /\ AskedBy(c, q) \cap X = {}
      BY <1>7, <3>1
    <3>3. X \cap B = {}
      BY <2>2, <3>1
    <3>4. OnceBy(c, p)
      BY <1>7, <3>1, <3>3
    <3> HIDE DEF A, B, X, k
    <3>5. AskedBy(c, q) \cap AskedBy(c, p) = {}
      BY <2>2, <3>1, <3>2
    <3>6. MarkedIn(k.blockRequests) = AskedBy(c, q) \cup AskedBy(c, p)
      BY <2>2, <3>1
    <3> QED
      BY <3>2, <3>4, <3>5, <3>6 DEF ReadingOnce
  <2>5. MaxBadParts = 0 => Sound(c, k, q, Whole)
    BY <2>1, <2>2 DEF Good, Sound
  <2> QED
    BY <2>1, <2>3, <2>4, <2>5 DEF Good
<1>9. Whole' = Whole
  BY <1>0 DEF Whole
<1>10. MaxSlots <= 1 => left'.slots = 0
  <2> SUFFICES ASSUME MaxSlots <= 1 PROVE left.slots = 0
    BY <1>2
  <2>1. r.block \in AskedBy(r.client, reads)
    BY <1>7
  <2>2. ~Fresh(r.client, cl[r.client], reads, posted)
    BY <2>1 DEF Fresh
  <2> QED
    BY <1>3, <2>2, AllGiven
<1>11. ClientsGood'
  BY <1>0, <1>6, <1>8, <1>9, <1>10, LeftTypes DEF ClientsGood
<1>12. FilesGood'
  <2>1. ASSUME MaxBadParts = 0, NEW i \in 1..Len(p) PROVE p[i].safe
    <3>1. CASE i \in 1..Len(posted)
      BY <1>6, <2>1, <3>1 DEF Inv, FilesGood
    <3>2. CASE i \notin 1..Len(posted)
      <4>1. i = Len(posted) + 1
        BY <1>0, <1>6, <3>2
      <4> QED
        BY <1>4, <1>5, <1>6, <2>1, <4>1
    <3> QED
      BY <3>1, <3>2
  <2> QED
    BY <1>0, <1>6, <2>1 DEF Inv, FilesGood
<1>13. Types'
  BY <1>0, <1>2, <1>3, <1>6, LeftTypes DEF Types
<1> QED
  BY <1>0, <1>2, <1>6, <1>11, <1>12, <1>13 DEF Inv

(* The client of the event at hand goes from k to l, in which the block is not marked. *)
LEMMA EventTaken ==
  ASSUME NEW c, NEW k, NEW q, NEW p \in Seq(Events), p # << >>, Head(p).client = c, NEW w,
         Good(c, k, q, p, w), NEW l, Agrees(l),
         MarkedIn(l.blockRequests) = MarkedIn(k.blockRequests) \ {Head(p).block},
         BlocksIn(l.blockRequests) \subseteq BlocksIn(k.blockRequests),
         l.slot # "None" => k.slot # "None"
  PROVE  /\ Reading(c, l, q, Tail(p))
         /\ MaxSlots <= 1 /\ l.slot # "None" => ReadingOnce(c, l, q, Tail(p))
         /\ MaxBadParts = 0 => Sound(c, l, q, w)
<1> DEFINE e == Head(p)
           t == Tail(p)
           A == AskedBy(c, q)
           B == AskedBy(c, t)
           M == MarkedIn(k.blockRequests)
           N == MarkedIn(l.blockRequests)
<1>1. e.block \in Blocks
  BY HeadAsked
<1>2. /\ AskedBy(c, p) = B \cup {e.block}
      /\ OnceBy(c, p) => OnceBy(c, t) /\ e.block \notin B
  BY <1>1, TailAsked
<1>3. N = M \ {e.block}
  OBVIOUS
<1> HIDE DEF e, t, A, B, M, N
<1>4. Reading(c, l, q, t)
  <2>1. M \subseteq A \cup AskedBy(c, p)
    BY DEF Good, Reading, A, M
  <2>2. N \subseteq A \cup B
    BY <1>2, <1>3, <2>1
  <2> QED
    BY <2>2 DEF Reading, A, B, N
<1>5. ASSUME MaxSlots <= 1, l.slot # "None" PROVE ReadingOnce(c, l, q, t)
  <2>1. ReadingOnce(c, k, q, p)
    BY <1>5 DEF Good
  <2>2. /\ OnceBy(c, q) /\ OnceBy(c, p) /\ A \cap AskedBy(c, p) = {} /\ M = A \cup AskedBy(c, p)
    BY <2>1 DEF ReadingOnce, A, M
  <2>3. A \cap B = {} /\ N = A \cup B /\ OnceBy(c, t)
    BY <1>2, <1>3, <2>2
  <2> QED
    BY <2>2, <2>3 DEF ReadingOnce, A, B, N
<1>6. MaxBadParts = 0 => Sound(c, l, q, w)
  BY DEF Good, Sound
<1> QED
  BY <1>4, <1>5, <1>6 DEF t

(* The other clients do not notice. *)
LEMMA OthersTail ==
  ASSUME NEW p \in Seq(Events), p # << >>
  PROVE  OthersKept(Head(p).client, p, Tail(p))
<1>1. Head(p).block \in Blocks
  BY HeadAsked
<1>2. ASSUME NEW d \in Clients \ {Head(p).client}
      PROVE  AskedBy(d, Tail(p)) = AskedBy(d, p) /\ (OnceBy(d, p) => OnceBy(d, Tail(p)))
  <2>1. /\ AskedBy(d, p) = AskedBy(d, Tail(p)) \cup (IF Head(p).client = d THEN {Head(p).block} ELSE {})
        /\ OnceBy(d, p) => OnceBy(d, Tail(p))
    BY <1>1, TailAsked
  <2> QED
    BY <2>1
<1> QED
  BY <1>2 DEF OthersKept

(* The event at hand is taken and its client goes from its state to l, or the room in the *)
(* buffer of l is filled.                                                                 *)
LEMMA EventStep ==
  ASSUME Inv, posted # << >>, NEW c, c = Head(posted).client, NEW l,
         Good(c, l, reads, Tail(posted), Whole), cl' = [cl EXCEPT ![c] = l],
         posted' = Tail(posted), UNCHANGED <<reads, file, left>>
  PROVE  Inv'
<1> DEFINE p == Tail(posted)
<1>1. c \in Clients /\ p \in Seq(Events) /\ cl \in [Clients -> ClientStates] /\ posted \in Seq(Events)
      /\ (\A i \in 1..Len(p) : p[i] = posted[i + 1] /\ i + 1 \in 1..Len(posted))
  BY HeadAsked, LeftTypes
<1>2. OthersKept(c, posted, p) /\ OthersKept(c, reads, reads)
  BY <1>1, OthersTail, OthersStay
<1> HIDE DEF p
<1>3. cl' \in [Clients -> ClientStates] /\ \A d \in Clients : Good(d, cl'[d], reads, p, Whole)
  <2>1. /\ \A d \in Clients : Good(d, cl[d], reads, posted, Whole)
        /\ Whole \subseteq Whole /\ Good(c, l, reads, p, Whole)
    BY LeftTypes DEF p
  <2> QED
    BY <1>1, <1>2, <2>1, ClientStep
<1>4. Whole' = Whole
  BY DEF Whole
<1>5. MaxSlots <= 1 => left'.slots = 0
  <2>1. Head(posted).block \in AskedBy(c, posted)
    BY <1>1, HeadAsked, HeadIsAsked
  <2>2. ~Fresh(c, cl[c], reads, posted)
    BY <2>1 DEF Fresh
  <2> QED
    BY <1>1, <2>2, AllGiven
<1>6. ClientsGood'
  BY <1>3, <1>4, <1>5 DEF ClientsGood, p
<1>7. MaxBadParts = 0 => \A i \in 1..Len(p) : p[i].safe
  BY <1>1 DEF Inv, FilesGood
<1>8. Types' /\ FilesGood' /\ LeftGood'
  BY <1>1, <1>7 DEF Inv, Types, FilesGood, LeftGood, p
<1> QED
  BY <1>6, <1>8 DEF Inv

(* The event is dropped: no read of the block is awaited. *)
LEMMA DropStep ==
  ASSUME Inv, posted # << >>, NEW c, c = Head(posted).client,
         Head(posted).block \notin MarkedIn(cl[c].blockRequests),
         posted' = Tail(posted), UNCHANGED <<cl, reads, file, left>>
  PROVE  Inv'
<1> DEFINE k == cl[c]
<1>1. c \in Clients /\ posted \in Seq(Events) /\ cl \in [Clients -> ClientStates]
  BY HeadAsked, LeftTypes
<1>2. Good(c, k, reads, posted, Whole) /\ Agrees(k)
  BY <1>1, LeftTypes, GoodGives
<1>3. MarkedIn(k.blockRequests) = MarkedIn(k.blockRequests) \ {Head(posted).block}
  OBVIOUS
<1>4. cl' = [cl EXCEPT ![c] = k]
  BY <1>1
<1> HIDE DEF k
<1>5. /\ Reading(c, k, reads, Tail(posted))
      /\ MaxSlots <= 1 /\ k.slot # "None" => ReadingOnce(c, k, reads, Tail(posted))
      /\ MaxBadParts = 0 => Sound(c, k, reads, Whole)
  BY <1>1, <1>2, <1>3, EventTaken
<1>6. Good(c, k, reads, Tail(posted), Whole)
  BY <1>2, <1>5 DEF Good
<1> QED
  BY <1>4, <1>6, EventStep

(* Without a live slot nothing is pending. *)
LEMMA NonePending ==
  ASSUME NEW k, Agrees(k), k.slot = "None" \/ k.sock = "none"
  PROVE  BlocksIn(k.blockRequests) = {} /\ MarkedIn(k.blockRequests) = {}
<1>1. k.blockRequests = << >>
  BY DEF Agrees, ListsAgree
<1> QED
  BY <1>1, EmptyList

(* A block was read: onBlockPacketsReady() keeps the invariant. *)
LEMMA PacketsReadyStep ==
  ASSUME Inv, onBlockPacketsReady
  PROVE  /\ Inv' /\ posted # << >> /\ \A d \in Clients : cl'[d].sent = cl[d].sent
         /\ Head(posted).kind = "ready"
<1> DEFINE e == Head(posted)
           c == e.client
           b == e.block
           k == cl[c]
           i == PendingAt(k, b)
           m == MarkBlockDone(k, i)
           n == FollowRequestedFile(m, FileOf[b])
           o == SendBlock(n, b)
           r == StartBlockReads(c, o, reads)
           p == Tail(posted)
<1>1. /\ posted # << >> /\ e.kind = "ready" /\ posted' = p /\ UNCHANGED <<file, left>>
      /\ IF k.slot = "None" \/ k.sock = "none" \/ i = 0 THEN UNCHANGED <<cl, reads>>
         ELSE IF n.slot = "None" THEN cl' = [cl EXCEPT ![c] = n] /\ UNCHANGED reads
         ELSE cl' = [cl EXCEPT ![c] = r.client] /\ reads' = r.queue
  BY DEF onBlockPacketsReady
<1>2. c \in Clients /\ b \in Blocks /\ p \in Seq(Events) /\ posted \in Seq(Events)
      /\ (\A j \in 1..Len(p) : p[j] = posted[j + 1] /\ j + 1 \in 1..Len(posted))
      /\ cl \in [Clients -> ClientStates]
  BY <1>1, HeadAsked, LeftTypes
<1>3. Good(c, k, reads, posted, Whole) /\ Agrees(k) /\ k.blockRequests \in Seq(Request)
      /\ k.sent \in Nat
  BY <1>2, LeftTypes, GoodGives, ClientFields
<1>4. CASE k.slot = "None" \/ k.sock = "none" \/ i = 0
  <2>1. b \notin MarkedIn(k.blockRequests)
    <3>1. CASE k.slot = "None" \/ k.sock = "none"
      BY <1>3, <3>1, NonePending
    <3>2. CASE i = 0
      BY <1>3, <3>2, PlaceFacts, MarkedFacts
    <3> QED
      BY <1>4, <3>1, <3>2
  <2>2. UNCHANGED <<cl, reads>>
    BY <1>1, <1>4
  <2>3. Inv'
    BY <1>1, <2>1, <2>2, DropStep
  <2> QED
    BY <1>1, <2>2, <2>3
<1>5. CASE ~(k.slot = "None" \/ k.sock = "none" \/ i = 0)
  <2>1. i \in 1..Len(k.blockRequests) /\ k.blockRequests[i].block = b
    BY <1>3, <1>5, PlaceFacts
  <2>2. /\ Agrees(m) /\ k.slot = "Uploading" /\ m.slot = k.slot /\ m.sock = k.sock
        /\ m.sendQueue = k.sendQueue /\ m.sent = k.sent
        /\ BlocksIn(m.blockRequests) \subseteq BlocksIn(k.blockRequests)
        /\ MarkedIn(m.blockRequests) = MarkedIn(k.blockRequests) \ {k.blockRequests[i].block}
        /\ Accounts(k) => AccountsBut(m, k.blockRequests[i].block)
    <3> HIDE DEF k, i
    <3> QED
      BY <1>3, <2>1, Constants, MarkDoneFacts
  <2> HIDE DEF m
  <2>3. /\ Reading(c, m, reads, p)
        /\ MaxSlots <= 1 /\ m.slot # "None" => ReadingOnce(c, m, reads, p)
        /\ MaxBadParts = 0 => Sound(c, m, reads, Whole)
    <3>1. m.slot # "None" => k.slot # "None"
      BY <2>2
    <3> QED
      BY <1>1, <1>2, <1>3, <2>1, <2>2, <3>1, EventTaken
  <2>4. ListsAgree(m) /\ m \in ClientStates /\ FileOf[b] \in Files
        /\ (MaxBadParts = 0 => AskedBy(c, reads) \subseteq Whole)
    BY <1>2, <2>2, <2>3, Constants DEF Agrees, ListsAgree, Sound
  <2>5. n = RemoveFromUploadQueue(m) \/ n = [m EXCEPT !.reqUpFile = FileOf[b]]
    BY <2>4, FollowFacts
  <2>6. CASE n = RemoveFromUploadQueue(m)
    <3>1. Good(c, n, reads, p, Whole) /\ n.slot = "None" /\ n.sent = m.sent
      BY <2>4, <2>6, GoodRemove, RemoveFacts
    <3>2. cl' = [cl EXCEPT ![c] = n] /\ UNCHANGED reads
      BY <1>1, <1>5, <3>1
    <3> HIDE DEF n
    <3>3. Inv'
      BY <1>1, <3>1, <3>2, EventStep
    <3>4. \A d \in Clients : cl'[d].sent = cl[d].sent
      BY <1>2, <2>2, <3>1, <3>2
    <3> QED
      BY <1>1, <3>3, <3>4
  <2>7. CASE n = [m EXCEPT !.reqUpFile = FileOf[b]]
    <3>1. /\ n.slot = m.slot /\ n.sock = m.sock /\ n.blockRequests = m.blockRequests
          /\ n.doneBlocks = m.doneBlocks /\ n.added = m.added /\ n.sent = m.sent
          /\ n.sendQueue = m.sendQueue /\ n.sentPayload = m.sentPayload /\ n.out = m.out
      BY <2>4, <2>7 DEF ClientStates
    <3>2. Agrees(n)
      BY <2>2, <2>4, FollowFacts
    <3> HIDE DEF n
    <3>3. AccountsBut(m, b) => AccountsBut(n, b)
      BY <3>1 DEF AccountsBut
    <3>4. /\ Agrees(o) /\ o.slot = n.slot /\ o.sent = n.sent
          /\ o.blockRequests = n.blockRequests
          /\ AccountsBut(n, b) /\ n.slot = "Uploading" => Accounts(o)
      BY <1>2, <3>2, SendFacts
    <3> HIDE DEF o
    <3>5. Good(c, o, reads, p, Whole)
      <4>1. MaxSlots <= 1 /\ MaxRehomes = 0 => Accounts(o)
        BY <1>3, <2>1, <2>2, <3>1, <3>3, <3>4 DEF Good
      <4>2. Reading(c, o, reads, p) /\ (MaxBadParts = 0 => Sound(c, o, reads, Whole))
        BY <2>3, <3>1, <3>4 DEF Reading, Sound
      <4>3. MaxSlots <= 1 /\ o.slot # "None" => ReadingOnce(c, o, reads, p)
        BY <2>3, <3>1, <3>4 DEF ReadingOnce
      <4> QED
        BY <3>4, <4>1, <4>2, <4>3 DEF Good
    <3>6. n.slot # "None" /\ cl[c].slot # "None"
      BY <2>2, <3>1
    <3>7. cl' = [cl EXCEPT ![c] = r.client] /\ reads' = r.queue
      BY <1>1, <1>5, <3>6 DEF o
    <3>8. r = StartBlockReads(c, o, reads) /\ OthersKept(c, posted, p)
          /\ (MaxBadParts = 0 => \A j \in 1..Len(p) : p[j].safe)
      <4>1. MaxBadParts = 0 => \A j \in 1..Len(p) : p[j].safe
        BY <1>2 DEF Inv, FilesGood
      <4> QED
        BY <1>1, <1>2, <4>1, OthersTail
    <3>9. c \in Clients /\ p \in Seq(Events) /\ posted' = p /\ UNCHANGED <<file, left>>
      BY <1>1, <1>2
    <3> HIDE DEF r, p, c
    <3>10. Inv' /\ cl'[c].slot = o.slot /\ cl'[c].sent = o.sent /\ cl'[c].sendQueue = o.sendQueue
      BY <3>5, <3>6, <3>7, <3>8, <3>9, StartStep
    <3>11. \A d \in Clients : cl'[d].sent = cl[d].sent
      BY <1>2, <2>2, <3>1, <3>4, <3>7, <3>10
    <3> QED
      BY <1>1, <3>10, <3>11
  <2> QED
    BY <2>5, <2>6, <2>7
<1> QED
  BY <1>4, <1>5

(* A read error: and while a slot is given once, a file that moved costs none. *)
LEMMA ReadErrorStep ==
  ASSUME Inv, onReadError
  PROVE  /\ Inv' /\ posted # << >>
         /\ \A d \in Clients : cl'[d].sent = cl[d].sent /\ cl'[d].sendQueue = cl[d].sendQueue
         /\ MaxSlots <= 1 /\ MovedSince(Head(posted)) =>
              cl'[Head(posted).client].slot = cl[Head(posted).client].slot
<1> DEFINE e == Head(posted)
           c == e.client
           b == e.block
           k == cl[c]
           i == BeingReadAt(k, b)
           o == RequeueBlockRead(k, i)
           r == StartBlockReads(c, o, reads)
           p == Tail(posted)
<1>1. /\ posted # << >> /\ posted' = p /\ UNCHANGED <<file, left>>
      /\ IF k.slot = "None" THEN UNCHANGED <<cl, reads>>
         ELSE IF MovedSince(e) /\ i # 0 THEN cl' = [cl EXCEPT ![c] = r.client] /\ reads' = r.queue
         ELSE cl' = [cl EXCEPT ![c] = RemoveFromUploadQueue(k)] /\ UNCHANGED reads
  BY DEF onReadError
<1>2. c \in Clients /\ b \in Blocks /\ p \in Seq(Events) /\ posted \in Seq(Events)
      /\ (\A j \in 1..Len(p) : p[j] = posted[j + 1] /\ j + 1 \in 1..Len(posted))
      /\ cl \in [Clients -> ClientStates]
  BY <1>1, HeadAsked, LeftTypes
<1>3. Good(c, k, reads, posted, Whole) /\ Agrees(k) /\ ListsAgree(k) /\ k.blockRequests \in Seq(Request)
      /\ (MaxBadParts = 0 => AskedBy(c, reads) \subseteq Whole)
  BY <1>2, LeftTypes, GoodGives, ClientFields
<1>4. CASE k.slot = "None"
  <2>1. b \notin MarkedIn(k.blockRequests)
    BY <1>3, <1>4, NonePending
  <2>2. UNCHANGED <<cl, reads>>
    BY <1>1, <1>4
  <2>3. Inv'
    BY <1>1, <2>1, <2>2, DropStep
  <2> QED
    BY <1>1, <2>2, <2>3
<1>5. CASE k.slot # "None" /\ MovedSince(e) /\ i # 0
  <2>1. i \in 1..Len(k.blockRequests) /\ k.blockRequests[i].block = b /\ k.blockRequests[i].readQueued
    BY <1>3, <1>5, PlaceFacts
  <2>2. /\ Agrees(o) /\ o.slot = k.slot /\ o.sent = k.sent /\ o.sendQueue = k.sendQueue
        /\ BlocksIn(o.blockRequests) = BlocksIn(k.blockRequests)
        /\ MarkedIn(o.blockRequests) = MarkedIn(k.blockRequests) \ {k.blockRequests[i].block}
        /\ Accounts(k) => Accounts(o)
    <3> HIDE DEF k, i
    <3> QED
      BY <1>3, <2>1, RequeueFacts
  <2> HIDE DEF o
  <2>3. /\ Reading(c, o, reads, p)
        /\ MaxSlots <= 1 /\ o.slot # "None" => ReadingOnce(c, o, reads, p)
        /\ MaxBadParts = 0 => Sound(c, o, reads, Whole)
    <3>1. c = Head(posted).client /\ Agrees(o)
          /\ (o.slot # "None" => k.slot # "None")
          /\ BlocksIn(o.blockRequests) \subseteq BlocksIn(k.blockRequests)
          /\ MarkedIn(o.blockRequests) = MarkedIn(k.blockRequests) \ {Head(posted).block}
      BY <2>1, <2>2
    <3> HIDE DEF k
    <3> QED
      BY <1>1, <1>2, <1>3, <3>1, EventTaken
  <2>4. Good(c, o, reads, p, Whole)
    BY <1>3, <2>2, <2>3 DEF Good
  <2>5. cl' = [cl EXCEPT ![c] = r.client] /\ reads' = r.queue /\ cl[c].slot # "None"
    BY <1>1, <1>5 DEF o
  <2>6. r = StartBlockReads(c, o, reads) /\ OthersKept(c, posted, p)
        /\ (MaxBadParts = 0 => \A j \in 1..Len(p) : p[j].safe)
    <3>1. MaxBadParts = 0 => \A j \in 1..Len(p) : p[j].safe
      BY <1>2 DEF Inv, FilesGood
    <3> QED
      BY <1>1, <1>2, <3>1, OthersTail
  <2>7. c \in Clients /\ p \in Seq(Events) /\ posted' = p /\ UNCHANGED <<file, left>>
    BY <1>1, <1>2
  <2> HIDE DEF r, p, c
  <2>8. Inv' /\ cl'[c].slot = o.slot /\ cl'[c].sent = o.sent /\ cl'[c].sendQueue = o.sendQueue
    BY <2>4, <2>5, <2>6, <2>7, StartStep
  <2>9. \A d \in Clients : cl'[d].sent = cl[d].sent /\ cl'[d].sendQueue = cl[d].sendQueue
    BY <1>2, <2>2, <2>5, <2>8
  <2> QED
    BY <1>1, <2>2, <2>8, <2>9 DEF c
<1>6. CASE k.slot # "None" /\ ~(MovedSince(e) /\ i # 0)
  <2> DEFINE l == RemoveFromUploadQueue(k)
  <2>1. Good(c, l, reads, p, Whole) /\ l.slot = "None" /\ l.sent = k.sent /\ l.sendQueue = k.sendQueue
    BY <1>3, GoodRemove, RemoveFacts
  <2>2. cl' = [cl EXCEPT ![c] = l] /\ UNCHANGED reads
    BY <1>1, <1>6
  <2> HIDE DEF l
  <2>3. Inv'
    BY <1>1, <2>1, <2>2, EventStep
  <2>4. \A d \in Clients : cl'[d].sent = cl[d].sent /\ cl'[d].sendQueue = cl[d].sendQueue
    BY <1>2, <2>1, <2>2
  <2>5. ~(MaxSlots <= 1 /\ MovedSince(e))
    <3> SUFFICES ASSUME MaxSlots <= 1, i = 0 PROVE FALSE
      BY <1>6
    <3>1. b \in AskedBy(c, posted)
      BY <1>1, <1>2, HeadIsAsked
    <3>2. b \in MarkedIn(k.blockRequests)
      BY <1>3, <1>6, <3>1 DEF Good, ReadingOnce
    <3> QED
      BY <1>3, <3>2, PlaceFacts
  <2> QED
    BY <1>1, <2>3, <2>4, <2>5
<1> QED
  BY <1>4, <1>5, <1>6

-----------------------------------------------------------------------------
(***************************************************************************)
(* The steps: files.                                                       *)
(***************************************************************************)

(* What is whole stays whole. *)
LEMMA GoodStays ==
  ASSUME NEW c, NEW k, NEW q, NEW p, NEW w, NEW v, MaxBadParts = 0 => w \subseteq v, Good(c, k, q, p, w)
  PROVE  Good(c, k, q, p, v)
  BY DEF Good, Sound

(* One file changes. *)
LEMMA FileStep ==
  ASSUME Inv, UNCHANGED <<cl, reads, posted>>, NEW f \in Files, NEW g \in FileStates,
         file' = [file EXCEPT ![f] = g],
         MaxBadParts = 0 => file[f].safe \subseteq g.safe,
         MaxBadParts = 0 => (g.hold \/ g.path = "incoming" => BlocksOf(f) \subseteq g.safe),
         left' \in [slots : Nat, rehomes : Nat, faults : Nat, badParts : Nat], LeftGood',
         left'.slots = left.slots
  PROVE  Inv'
<1>1. file \in [Files -> FileStates]
  BY LeftTypes
<1>2. file' \in [Files -> FileStates] /\ file'[f] = g /\ \A h \in Files : h # f => file'[h] = file[h]
  BY <1>1
<1>3. MaxBadParts = 0 => Whole \subseteq Whole'
  <2> SUFFICES ASSUME MaxBadParts = 0, NEW b \in Whole PROVE b \in Whole'
    OBVIOUS
  <2>1. b \in Blocks /\ b \in file[FileOf[b]].safe /\ FileOf[b] \in Files
    BY Constants DEF Whole
  <2>2. b \in file'[FileOf[b]].safe
    BY <1>2, <2>1
  <2> QED
    BY <2>1, <2>2 DEF Whole
<1> DEFINE W == Whole'
<1>4. \A c \in Clients : Good(c, cl[c], reads, posted, W)
  <2> HIDE DEF W
  <2> QED
    BY <1>3, LeftTypes, GoodStays DEF W
<1>5. ClientsGood'
  BY <1>4, LeftTypes DEF ClientsGood, Inv
<1>6. FilesGood'
  <2>1. ASSUME MaxBadParts = 0, NEW h \in Files, file'[h].hold \/ file'[h].path = "incoming"
        PROVE  BlocksOf(h) \subseteq file'[h].safe
    <3>1. CASE h = f
      BY <1>2, <2>1, <3>1
    <3>2. CASE h # f
      BY <1>2, <2>1, <3>2 DEF Inv, FilesGood
    <3> QED
      BY <3>1, <3>2
  <2>2. MaxBadParts = 0 => \A i \in 1..Len(posted) : posted[i].safe
    BY DEF Inv, FilesGood
  <2> QED
    BY <2>1, <2>2 DEF FilesGood
<1>7. Types'
  BY <1>2, LeftTypes DEF Types
<1> QED
  BY <1>5, <1>6, <1>7 DEF Inv

(* A file and its fields. *)
LEMMA FileFields ==
  ASSUME Inv, NEW f \in Files
  PROVE  /\ file[f] \in FileStates /\ file[f].safe \in SUBSET Blocks
         /\ MaxBadParts = 0 =>
              (file[f].hold \/ file[f].path = "incoming" => BlocksOf(f) \subseteq file[f].safe)
         /\ file \in [Files -> FileStates]
<1>1. file[f] \in FileStates
  BY LeftTypes
<1> QED
  BY <1>1, LeftTypes DEF FileStates, Inv, FilesGood

(* A block of a part file reaches the disk. *)
LEMMA WrittenStep ==
  ASSUME Inv, NEW b \in Blocks, BlockWritten(b)
  PROVE  Inv'
<1> DEFINE f == FileOf[b]
           g == [file[f] EXCEPT !.safe = @ \cup {b}]
<1>1. f \in Files
  BY Constants
<1> HIDE DEF f
<1>2. file' = [file EXCEPT ![f] = g] /\ UNCHANGED <<cl, reads, posted, left>>
  BY DEF BlockWritten, f
<1>3. /\ g \in FileStates /\ g.safe = file[f].safe \cup {b} /\ g.hold = file[f].hold
      /\ g.path = file[f].path
  BY <1>1, FileFields DEF FileStates
<1> HIDE DEF g
<1>4. MaxBadParts = 0 => (g.hold \/ g.path = "incoming" => BlocksOf(f) \subseteq g.safe)
  BY <1>1, <1>3, FileFields
<1>5. left' \in [slots : Nat, rehomes : Nat, faults : Nat, badParts : Nat] /\ LeftGood'
  BY <1>2, LeftTypes DEF LeftGood
<1> QED
  BY <1>1, <1>2, <1>3, <1>4, <1>5, FileStep

(* A part fails its check and becomes a gap. *)
LEMMA FailedStep ==
  ASSUME Inv, NEW b \in Blocks, PartFailed(b)
  PROVE  Inv'
<1> DEFINE f == FileOf[b]
           g == [file[f] EXCEPT !.safe = @ \ {b}, !.hold = FALSE]
<1>1. f \in Files
  BY Constants
<1> HIDE DEF f
<1>2. /\ left.badParts > 0 /\ left' = [left EXCEPT !.badParts = @ - 1]
      /\ UNCHANGED <<cl, reads, posted>>
  BY DEF PartFailed, f
<1>3. file' = [file EXCEPT ![f] = g]
  BY <1>1, LeftTypes DEF PartFailed, f
<1>4. g \in FileStates
  BY <1>1, FileFields DEF FileStates
<1>5. MaxBadParts # 0
  BY <1>2, LeftTypes DEF LeftGood
<1>6. /\ left' \in [slots : Nat, rehomes : Nat, faults : Nat, badParts : Nat]
      /\ left'.slots = left.slots /\ LeftGood'
  <2>1. left.badParts - 1 \in Nat
    BY <1>2, LeftTypes
  <2>2. /\ left'.slots = left.slots /\ left'.rehomes = left.rehomes
        /\ left' \in [slots : Nat, rehomes : Nat, faults : Nat, badParts : Nat]
    BY <1>2, <2>1, LeftTypes
  <2> QED
    BY <1>5, <2>2, LeftTypes DEF LeftGood
<1> HIDE DEF g
<1> QED
  BY <1>1, <1>2, <1>3, <1>4, <1>5, <1>6, FileStep

(* A file is complete, and its reads are on hold. *)
LEMMA CompleteStep ==
  ASSUME Inv, NEW f \in Files, completeFile(f)
  PROVE  Inv'
<1> DEFINE g == [file[f] EXCEPT !.hold = TRUE]
<1>1. /\ file' = [file EXCEPT ![f] = g] /\ UNCHANGED <<cl, reads, posted, left>>
      /\ file[f].safe = BlocksOf(f)
  BY DEF completeFile
<1>2. g \in FileStates /\ g.safe = file[f].safe
  BY FileFields DEF FileStates
<1> HIDE DEF g
<1>3. left' \in [slots : Nat, rehomes : Nat, faults : Nat, badParts : Nat] /\ LeftGood'
  BY <1>1, LeftTypes DEF LeftGood
<1> QED
  BY <1>1, <1>2, <1>3, FileStep

(* The mover renames the file. *)
LEMMA MovedStep ==
  ASSUME Inv, NEW f \in Files, FileMoved(f)
  PROVE  Inv'
<1> DEFINE g == [file[f] EXCEPT !.onDisk = "incoming"]
<1>1. file' = [file EXCEPT ![f] = g] /\ UNCHANGED <<cl, reads, posted, left>>
  BY DEF FileMoved
<1>2. g \in FileStates /\ g.safe = file[f].safe /\ g.hold = file[f].hold /\ g.path = file[f].path
  BY FileFields DEF FileStates
<1> HIDE DEF g
<1>3. left' \in [slots : Nat, rehomes : Nat, faults : Nat, badParts : Nat] /\ LeftGood'
  BY <1>1, LeftTypes DEF LeftGood
<1>4. MaxBadParts = 0 => (g.hold \/ g.path = "incoming" => BlocksOf(f) \subseteq g.safe)
  BY <1>2, FileFields
<1> QED
  BY <1>1, <1>2, <1>3, <1>4, FileStep

(* The file's path is its new place. *)
LEMMA MoveFinishedStep ==
  ASSUME Inv, NEW f \in Files, onMoveFinished(f)
  PROVE  Inv'
<1> DEFINE g == [file[f] EXCEPT !.path = "incoming", !.hold = FALSE]
<1>1. file[f].hold /\ UNCHANGED <<cl, reads, posted, left>>
  BY DEF onMoveFinished
<1>2. g \in FileStates /\ g.safe = file[f].safe
  BY FileFields DEF FileStates
<1>3. file' = [file EXCEPT ![f] = g]
  BY LeftTypes DEF onMoveFinished
<1> HIDE DEF g
<1>4. left' \in [slots : Nat, rehomes : Nat, faults : Nat, badParts : Nat] /\ LeftGood'
  BY <1>1, LeftTypes DEF LeftGood
<1>5. MaxBadParts = 0 => BlocksOf(f) \subseteq g.safe
  BY <1>1, <1>2, FileFields
<1> QED
  BY <1>1, <1>2, <1>3, <1>4, <1>5, FileStep

(* The move failed and the file stays where it was. *)
LEMMA MoveFailedStep ==
  ASSUME Inv, NEW f \in Files, onMoveFailed(f)
  PROVE  Inv'
<1> DEFINE g == [file[f] EXCEPT !.hold = FALSE]
<1>1. /\ file' = [file EXCEPT ![f] = g] /\ UNCHANGED <<cl, reads, posted>>
      /\ left.faults > 0 /\ left' = [left EXCEPT !.faults = @ - 1]
  BY DEF onMoveFailed
<1>2. g \in FileStates /\ g.safe = file[f].safe /\ g.path = file[f].path /\ g.hold = FALSE
  BY FileFields DEF FileStates
<1> HIDE DEF g
<1>3. /\ left' \in [slots : Nat, rehomes : Nat, faults : Nat, badParts : Nat]
      /\ left'.slots = left.slots /\ LeftGood'
  <2>1. left.faults - 1 \in Nat
    BY <1>1, LeftTypes
  <2>2. /\ left'.slots = left.slots /\ left'.rehomes = left.rehomes /\ left'.badParts = left.badParts
        /\ left' \in [slots : Nat, rehomes : Nat, faults : Nat, badParts : Nat]
    BY <1>1, <2>1, LeftTypes
  <2> QED
    BY <2>2, LeftTypes DEF LeftGood
<1>4. MaxBadParts = 0 => (g.hold \/ g.path = "incoming" => BlocksOf(f) \subseteq g.safe)
  BY <1>2, FileFields
<1> QED
  BY <1>1, <1>2, <1>3, <1>4, FileStep

(* A file is unshared, and the slots that serve it end. *)
LEMMA FileRemovedStep ==
  ASSUME Inv, NEW f \in Files, onSharedFileRemoved(f)
  PROVE  /\ Inv'
         /\ \A c \in Clients : cl'[c].sent = cl[c].sent /\ cl'[c].sendQueue = cl[c].sendQueue
<1>1. /\ UNCHANGED <<reads, posted, left>>
      /\ cl' = [c \in Clients |-> IF ServedFile(cl[c]) = f THEN RemoveFromUploadQueue(cl[c]) ELSE cl[c]]
  BY DEF onSharedFileRemoved
<1>2. PICK place \in {file[f].onDisk, "none"} :
        file' = [file EXCEPT ![f].shared = FALSE, ![f].onDisk = place]
  BY DEF onSharedFileRemoved
<1> DEFINE g == [file[f] EXCEPT !.shared = FALSE, !.onDisk = place]
<1>3. g \in FileStates /\ g.safe = file[f].safe /\ g.hold = file[f].hold /\ g.path = file[f].path
  BY FileFields DEF FileStates
<1>4. file' = [file EXCEPT ![f] = g]
  BY <1>2, LeftTypes
<1> HIDE DEF g
<1>5. /\ file' \in [Files -> FileStates]
      /\ \A h \in Files : /\ file'[h].safe = file[h].safe /\ file'[h].hold = file[h].hold
                          /\ file'[h].path = file[h].path
  BY <1>3, <1>4, LeftTypes
<1>6. Whole' = Whole
  BY <1>5, Constants DEF Whole
<1>7. ASSUME NEW c \in Clients
      PROVE  /\ Good(c, cl'[c], reads, posted, Whole) /\ cl'[c] \in ClientStates
             /\ cl'[c].sent = cl[c].sent /\ cl'[c].sendQueue = cl[c].sendQueue
             /\ cl[c].slot = "None" => cl'[c] = cl[c]
  <2> DEFINE k == cl[c]
             l == RemoveFromUploadQueue(k)
  <2>1. Good(c, k, reads, posted, Whole) /\ ListsAgree(k) /\ k \in ClientStates
        /\ (MaxBadParts = 0 => AskedBy(c, reads) \subseteq Whole)
    BY LeftTypes, GoodGives
  <2>2. Good(c, l, reads, posted, Whole) /\ l.sent = k.sent /\ l.sendQueue = k.sendQueue
    BY <2>1, GoodRemove, RemoveFacts
  <2>3. l \in ClientStates
    BY <2>2, GoodGives
  <2>4. k.slot = "None" => l = k
    BY DEF RemoveFromUploadQueue
  <2> HIDE DEF l
  <2>5. cl'[c] = l \/ cl'[c] = k
    BY <1>1 DEF l
  <2> QED
    BY <2>1, <2>2, <2>3, <2>4, <2>5
<1>8. cl' \in [Clients -> ClientStates]
  BY <1>1, <1>7
<1>9. MaxSlots <= 1 /\ left.slots # 0 => \A c \in Clients : Fresh(c, cl'[c], reads, posted)
  BY <1>7 DEF Inv, ClientsGood, Fresh
<1>10. ClientsGood'
  BY <1>1, <1>6, <1>7, <1>8, <1>9 DEF ClientsGood
<1>11. Types' /\ FilesGood' /\ LeftGood'
  BY <1>1, <1>5 DEF Inv, Types, FilesGood, LeftGood
<1> QED
  BY <1>7, <1>10, <1>11 DEF Inv

-----------------------------------------------------------------------------
(***************************************************************************)
(* Every step.                                                             *)
(***************************************************************************)

(* What a step does to the counter and the packets of client c: nothing is *)
(* sent to it, and what it counts as sent is what its socket had sent.     *)
Calm(c) ==
  /\ cl'[c].sent > cl[c].sent => /\ cl[c].slot # "None" /\ cl'[c].sendQueue = cl[c].sendQueue
                                 /\ cl'[c].sent = cl[c].sent + cl[c].sentPayload
  /\ Len(cl'[c].sendQueue) <= Len(cl[c].sendQueue)

(* No event is taken, and every client is left calm. *)
NoEvent ==
  /\ \A c \in Clients : Calm(c)
  /\ posted' = posted \/ Len(posted') = Len(posted) + 1

(* The three kinds of steps. *)
Taken == onBlockPacketsReady \/ onReadError \/ NoEvent

(* A client whose counter and packets stay, or go, is calm. *)
LEMMA CalmIf ==
  ASSUME NEW c \in Clients, cl \in [Clients -> ClientStates], cl'[c].sent = cl[c].sent \/ cl'[c].sent = 0,
         cl'[c].sendQueue = cl[c].sendQueue \/ cl'[c].sendQueue = << >>
  PROVE  Calm(c)
<1>1. cl[c].sent \in Nat /\ cl[c].sendQueue \in Seq(Packets)
  BY ClientFields
<1>2. Len(cl[c].sendQueue) \in Nat /\ Len(<< >>) = 0
  BY <1>1
<1>3. ~(cl'[c].sent > cl[c].sent)
  BY <1>1
<1>4. Len(cl'[c].sendQueue) <= Len(cl[c].sendQueue)
  BY <1>2
<1> QED
  BY <1>3, <1>4 DEF Calm

(* A step of one client leaves the others as they were. *)
LEMMA OneClient ==
  ASSUME NEW c \in Clients, cl \in [Clients -> ClientStates], Calm(c), posted' = posted,
         \A d \in Clients \ {c} : cl'[d] = cl[d]
  PROVE  NoEvent
<1>1. ASSUME NEW d \in Clients \ {c} PROVE Calm(d)
  BY <1>1, CalmIf
<1> QED
  BY <1>1 DEF NoEvent

(* A step that changes no client. *)
LEMMA NoClient ==
  ASSUME cl \in [Clients -> ClientStates], cl' = cl, posted' = posted \/ Len(posted') = Len(posted) + 1
  PROVE  NoEvent
  BY CalmIf DEF NoEvent

(* Slots and connections: a slot is given, a connection is made, taken,    *)
(* lost or cancelled, a file is asked for.                                 *)
LEMMA SlotStep ==
  ASSUME Inv, NEW c \in Clients,
         \/ addUpNextClient(c) \/ onHandshakeCompleted(c) \/ attachToAlreadyKnown(c)
         \/ disconnected(c) \/ cancelTransfer(c) \/ \E f \in Files : onUploadRequestReceived(c, f)
  PROVE  Inv' /\ NoEvent
<1>0. cl \in [Clients -> ClientStates]
  BY LeftTypes
<1>1. CASE addUpNextClient(c)
  <2>1. posted' = posted /\ \A d \in Clients \ {c} : cl'[d] = cl[d]
    BY <1>0, <1>1 DEF addUpNextClient
  <2> QED
    BY <1>0, <1>1, <2>1, AddUpNextStep, CalmIf, OneClient
<1>2. CASE onHandshakeCompleted(c)
  <2>1. posted' = posted /\ \A d \in Clients \ {c} : cl'[d] = cl[d]
    BY <1>0, <1>2 DEF onHandshakeCompleted
  <2> QED
    BY <1>0, <1>2, <2>1, HandshakeStep, CalmIf, OneClient
<1>3. CASE attachToAlreadyKnown(c)
  <2>1. posted' = posted /\ \A d \in Clients \ {c} : cl'[d] = cl[d]
    BY <1>0, <1>3 DEF attachToAlreadyKnown
  <2> QED
    BY <1>0, <1>3, <2>1, AttachStep, CalmIf, OneClient
<1>4. CASE disconnected(c)
  <2>1. posted' = posted /\ \A d \in Clients \ {c} : cl'[d] = cl[d]
    BY <1>0, <1>4 DEF disconnected
  <2> QED
    BY <1>0, <1>4, <2>1, DisconnectedStep, CalmIf, OneClient
<1>5. CASE cancelTransfer(c)
  <2>1. posted' = posted /\ \A d \in Clients \ {c} : cl'[d] = cl[d]
    BY <1>0, <1>5 DEF cancelTransfer
  <2> QED
    BY <1>0, <1>5, <2>1, CancelStep, CalmIf, OneClient
<1>6. ASSUME NEW f \in Files, onUploadRequestReceived(c, f) PROVE Inv' /\ NoEvent
  <2>1. posted' = posted /\ \A d \in Clients \ {c} : cl'[d] = cl[d]
    BY <1>0, <1>6 DEF onUploadRequestReceived
  <2> QED
    BY <1>0, <1>6, <2>1, UploadRequestStep, CalmIf, OneClient
<1> QED
  BY <1>1, <1>2, <1>3, <1>4, <1>5, <1>6

(* A block is asked for, the socket sends, the timer ticks. *)
LEMMA BlockStep ==
  ASSUME Inv, NEW c \in Clients,
         (\E b \in Blocks : addReqBlock(c, b)) \/ SocketSends(c) \/ process(c)
  PROVE  Inv' /\ NoEvent
<1>0. cl \in [Clients -> ClientStates] /\ cl[c].sent \in Nat /\ cl[c].sendQueue \in Seq(Packets)
  BY LeftTypes, ClientFields
<1>1. ASSUME NEW b \in Blocks, addReqBlock(c, b) PROVE Inv' /\ NoEvent
  <2>1. posted' = posted /\ \A d \in Clients \ {c} : cl'[d] = cl[d]
    BY <1>0, <1>1 DEF addReqBlock
  <2> QED
    BY <1>0, <1>1, <2>1, AddReqBlockStep, CalmIf, OneClient
<1>2. CASE SocketSends(c)
  <2>1. posted' = posted /\ \A d \in Clients \ {c} : cl'[d] = cl[d]
    BY <1>0, <1>2 DEF SocketSends
  <2>2. cl'[c].sent = cl[c].sent /\ Len(cl'[c].sendQueue) < Len(cl[c].sendQueue) /\ Inv'
    BY <1>2, SocketSendsStep
  <2>3. cl'[c].sendQueue \in Seq(Packets)
    BY <2>2, ClientFields DEF Inv, ClientsGood
  <2>4. Len(cl'[c].sendQueue) <= Len(cl[c].sendQueue)
    BY <1>0, <2>2, <2>3
  <2>5. Calm(c)
    BY <1>0, <2>2, <2>4 DEF Calm
  <2> QED
    BY <1>0, <2>1, <2>2, <2>5, OneClient
<1>3. CASE process(c)
  <2>1. posted' = posted /\ \A d \in Clients \ {c} : cl'[d] = cl[d]
    BY <1>0, <1>3 DEF process
  <2>2. /\ Inv' /\ cl'[c].sendQueue = cl[c].sendQueue /\ cl[c].slot # "None"
        /\ cl'[c].sent = cl[c].sent \/ cl'[c].sent = cl[c].sent + cl[c].sentPayload
    BY <1>3, ProcessStep
  <2>3. Len(cl'[c].sendQueue) <= Len(cl[c].sendQueue)
    BY <1>0, <2>2
  <2>4. Calm(c)
    BY <1>0, <2>2, <2>3 DEF Calm
  <2> QED
    BY <1>0, <2>1, <2>2, <2>4, OneClient
<1> QED
  BY <1>1, <1>2, <1>3

(* The files are written, fail a check, complete, move and go. *)
LEMMA FilesStep ==
  ASSUME Inv,
         \/ \E b \in Blocks : BlockWritten(b) \/ PartFailed(b)
         \/ \E f \in Files : \/ completeFile(f) \/ FileMoved(f) \/ onMoveFinished(f)
                             \/ onMoveFailed(f) \/ onSharedFileRemoved(f)
  PROVE  Inv' /\ NoEvent
<1>0. cl \in [Clients -> ClientStates]
  BY LeftTypes
<1>1. ASSUME NEW b \in Blocks, BlockWritten(b) \/ PartFailed(b) PROVE Inv' /\ NoEvent
  <2>1. cl' = cl /\ posted' = posted
    BY <1>1 DEF BlockWritten, PartFailed
  <2> QED
    BY <1>0, <1>1, <2>1, NoClient, WrittenStep, FailedStep
<1>2. ASSUME NEW f \in Files, completeFile(f) \/ FileMoved(f) \/ onMoveFinished(f) \/ onMoveFailed(f)
      PROVE  Inv' /\ NoEvent
  <2>1. cl' = cl /\ posted' = posted
    BY <1>2 DEF completeFile, FileMoved, onMoveFinished, onMoveFailed
  <2> QED
    BY <1>0, <1>2, <2>1, NoClient, CompleteStep, MovedStep, MoveFinishedStep, MoveFailedStep
<1>3. ASSUME NEW f \in Files, onSharedFileRemoved(f) PROVE Inv' /\ NoEvent
  <2>1. posted' = posted
    BY <1>3 DEF onSharedFileRemoved
  <2>2. \A c \in Clients : Calm(c)
    BY <1>0, <1>3, FileRemovedStep, CalmIf
  <2> QED
    BY <1>3, <2>1, <2>2, FileRemovedStep DEF NoEvent
<1> QED
  BY <1>1, <1>2, <1>3

(* Every step keeps the invariant and is of one of the three kinds. *)
LEMMA StepInv ==
  ASSUME Inv, [Next]_vars
  PROVE  Inv' /\ Taken
<1>1. ASSUME NEW c \in Clients,
             \/ addUpNextClient(c) \/ onHandshakeCompleted(c) \/ attachToAlreadyKnown(c)
             \/ disconnected(c) \/ cancelTransfer(c) \/ \E f \in Files : onUploadRequestReceived(c, f)
      PROVE  Inv' /\ Taken
  BY <1>1, SlotStep DEF Taken
<1>2. ASSUME NEW c \in Clients,
             (\E b \in Blocks : addReqBlock(c, b)) \/ SocketSends(c) \/ process(c)
      PROVE  Inv' /\ Taken
  BY <1>2, BlockStep DEF Taken
<1>3. CASE readBlock
  <2>1. Inv' /\ cl' = cl /\ Len(posted') = Len(posted) + 1
    BY <1>3, ReadBlockStep
  <2> QED
    BY <2>1, LeftTypes, NoClient DEF Taken
<1>4. CASE onBlockPacketsReady
  BY <1>4, PacketsReadyStep DEF Taken
<1>5. CASE onReadError
  BY <1>5, ReadErrorStep DEF Taken
<1>6. CASE \/ \E b \in Blocks : BlockWritten(b) \/ PartFailed(b)
           \/ \E f \in Files : \/ completeFile(f) \/ FileMoved(f) \/ onMoveFinished(f)
                               \/ onMoveFailed(f) \/ onSharedFileRemoved(f)
  BY <1>6, FilesStep DEF Taken
<1>7. CASE UNCHANGED vars
  <2>1. cl' = cl /\ posted' = posted /\ file' = file /\ reads' = reads /\ left' = left
    BY <1>7 DEF vars
  <2>2. Inv'
    BY <2>1 DEF Inv, Types, ClientsGood, FilesGood, LeftGood, Whole
  <2> QED
    BY <2>1, <2>2, LeftTypes, NoClient DEF Taken
<1> QED
  BY <1>1, <1>2, <1>3, <1>4, <1>5, <1>6, <1>7 DEF Next

(* A client without a slot. *)
NewClient(f) ==
  [slot |-> "None", sock |-> "none", banned |-> FALSE, reqUpFile |-> f, blockRequests |-> << >>,
   blockReadBytesQueued |-> 0, doneBlocks |-> << >>, added |-> 0, sent |-> 0,
   unconfirmed |-> << >>, deliveries |-> [b \in Blocks |-> 0],
   sendQueue |-> << >>, sentPayload |-> 0, out |-> {}]

(* It is good while nothing is asked of the worker. *)
LEMMA NewClientFacts ==
  ASSUME NEW c \in Clients, NEW f \in Files, NEW w
  PROVE  /\ NewClient(f) \in ClientStates
         /\ Good(c, NewClient(f), << >>, << >>, w)
         /\ Fresh(c, NewClient(f), << >>, << >>)
<1> DEFINE k == NewClient(f)
           z == [b \in Blocks |-> 0]
<1>1. z \in [Blocks -> 0 .. MaxDeliveries]
  <2>1. 0 \in 0 .. MaxDeliveries
    BY Constants
  <2> QED
    BY <2>1
<1>2. k = [slot |-> "None", sock |-> "none", banned |-> FALSE, reqUpFile |-> f, blockRequests |-> << >>,
           blockReadBytesQueued |-> 0, doneBlocks |-> << >>, added |-> 0, sent |-> 0,
           unconfirmed |-> << >>, deliveries |-> z, sendQueue |-> << >>, sentPayload |-> 0, out |-> {}]
  BY DEF NewClient
<1>3. "none" \in {"none", "dialling", "open"} /\ FALSE \in BOOLEAN
  OBVIOUS
<1> HIDE DEF z, k
<1>4. k \in ClientStates
  BY <1>1, <1>2, <1>3, EmptyFields, ZenonT(60) DEF ClientStates
<1>5. /\ k.slot = "None" /\ k.sock = "none" /\ k.blockRequests = << >> /\ k.doneBlocks = << >>
      /\ k.blockReadBytesQueued = 0 /\ k.added = 0 /\ k.sent = 0
      /\ k.sendQueue = << >> /\ k.sentPayload = 0
  BY <1>2
<1>6. Agrees(k)
  BY <1>4, <1>5, NoLists DEF Agrees
<1>7. AskedBy(c, << >>) = {}
  BY DEF AskedBy
<1>8. << >> \in Seq(ReadRequests) /\ << >> \in Seq(Events)
  OBVIOUS
<1>9. Good(c, k, << >>, << >>, w)
  BY <1>5, <1>6, <1>7, <1>8, GoodGiven
<1>10. Fresh(c, k, << >>, << >>)
  BY <1>5, <1>7 DEF Fresh
<1> QED
  BY <1>4, <1>9, <1>10 DEF k

(* At the start no slot is given, nothing is asked and no file is moving. *)
LEMMA InitInv == Init => Inv
<1> SUFFICES ASSUME Init PROVE Inv
  OBVIOUS
<1>1. reads = << >> /\ posted = << >>
      /\ left = [slots |-> MaxSlots, rehomes |-> MaxRehomes, faults |-> MaxFaults,
                 badParts |-> MaxBadParts]
  BY DEF Init
<1>2. cl \in [Clients -> {NewClient(f) : f \in Files}]
  BY DEF Init, NewClient
<1>3. PICK S \in SUBSET Blocks :
        file = [f \in Files |-> [shared |-> TRUE, path |-> "part", hold |-> FALSE,
                                 onDisk |-> "part", safe |-> S \cap BlocksOf(f)]]
  BY DEF Init
<1>4. \A f \in Files : file[f] \in FileStates /\ ~file[f].hold /\ file[f].path = "part"
  BY <1>3 DEF FileStates, BlocksOf
<1>5. file \in [Files -> FileStates]
  BY <1>3, <1>4
<1>6. left.slots = MaxSlots /\ left.rehomes = MaxRehomes /\ left.badParts = MaxBadParts
      /\ left \in [slots : Nat, rehomes : Nat, faults : Nat, badParts : Nat]
  BY <1>1, BoundsAssumption
<1>7. ASSUME NEW c \in Clients
      PROVE  /\ cl[c] \in ClientStates /\ Good(c, cl[c], reads, posted, Whole)
             /\ Fresh(c, cl[c], reads, posted)
  <2>1. PICK f \in Files : cl[c] = NewClient(f)
    BY <1>2
  <2> QED
    BY <1>1, <2>1, NewClientFacts
<1>8. cl \in [Clients -> ClientStates]
  BY <1>2, <1>7
<1>9. Types
  BY <1>1, <1>5, <1>6 DEF Types
<1>10. ClientsGood
  BY <1>7, <1>8 DEF ClientsGood
<1>11. FilesGood
  BY <1>1, <1>4 DEF FilesGood
<1>12. LeftGood
  BY <1>6, Constants DEF LeftGood
<1> QED
  BY <1>9, <1>10, <1>11, <1>12 DEF Inv

(***************************************************************************)
(* What the invariant says of the lists.                                   *)
(***************************************************************************)

(* A list of pending blocks and one of done blocks that share none, each   *)
(* without a block twice, have none twice together.                        *)
LEMMA ListsTogether ==
  ASSUME NEW s \in Seq(Request), Once(s), NEW d \in Seq(Blocks), IsInjective(d),
         ToSet(d) \cap BlocksIn(s) = {}
  PROVE  IsInjective([i \in 1..Len(s) |-> s[i].block] \o d)
<1> DEFINE p == [i \in 1..Len(s) |-> s[i].block]
           m == Len(s)
           n == Len(d)
           t == p \o d
<1>1. \A i \in 1..m : s[i] \in Request /\ s[i].block \in Blocks
  <2>1. \A i \in 1..m : s[i] \in Request
    OBVIOUS
  <2> QED
    BY <2>1 DEF Request
<1>2. m \in Nat /\ n \in Nat /\ p \in Seq(Blocks) /\ Len(p) = m /\ \A i \in 1..m : p[i] = s[i].block
  BY <1>1
<1>3. \A i, j \in 1..m : p[i] = p[j] => i = j
  BY <1>2 DEF Once
<1>4. \A i, j \in 1..n : d[i] = d[j] => i = j
  BY ToSetIs
<1>5. \A i \in 1..m : p[i] \in BlocksIn(s)
  BY <1>1, <1>2 DEF BlocksIn
<1>6. \A i \in 1..n : d[i] \in ToSet(d)
  BY ToSetIs
<1>7. \A i \in 1..m, j \in 1..n : p[i] # d[j]
  BY <1>5, <1>6
<1> HIDE DEF p
<1>8. t \in Seq(Blocks) /\ Len(t) = m + n /\ (\A i \in 1..m : t[i] = p[i]) /\ \A i \in 1..n : t[m + i] = d[i]
  <2>1. /\ t \in Seq(Blocks) /\ Len(t) = Len(p) + Len(d) /\ (\A i \in 1..Len(p) : t[i] = p[i])
        /\ \A i \in 1..Len(d) : t[Len(p) + i] = d[i]
    <3> HIDE DEF m, n
    <3>1. p \in Seq(Blocks)
      BY <1>2
    <3> QED
      BY <3>1, ConcatFacts
  <2> HIDE DEF t
  <2> QED
    BY <1>2, <2>1
<1> HIDE DEF t, m, n
<1>9. \A i \in 1..(m + n) : i \in 1..m \/ (i - m \in 1..n /\ t[i] = d[i - m])
  <2> SUFFICES ASSUME NEW i \in 1..(m + n), i \notin 1..m PROVE i - m \in 1..n /\ t[i] = d[i - m]
    OBVIOUS
  <2>1. i - m \in 1..n /\ m + (i - m) = i
    BY <1>2
  <2> QED
    BY <1>8, <2>1
<1>10. ASSUME NEW i \in 1..(m + n), NEW j \in 1..(m + n), t[i] = t[j] PROVE i = j
  <2>1. CASE i \in 1..m /\ j \in 1..m
    BY <1>3, <1>8, <1>10, <2>1
  <2>2. CASE i \in 1..m /\ j \notin 1..m
    <3>1. t[i] = p[i] /\ j - m \in 1..n /\ t[j] = d[j - m]
      BY <1>8, <1>9, <2>2
    <3> QED
      BY <1>7, <1>10, <2>2, <3>1
  <2>3. CASE i \notin 1..m /\ j \in 1..m
    <3>1. t[j] = p[j] /\ i - m \in 1..n /\ t[i] = d[i - m]
      BY <1>8, <1>9, <2>3
    <3> QED
      BY <1>7, <1>10, <2>3, <3>1
  <2>4. CASE i \notin 1..m /\ j \notin 1..m
    <3>1. i - m = j - m
      BY <1>4, <1>9, <1>10, <2>4
    <3> QED
      BY <1>2, <3>1
  <2> QED
    BY <2>1, <2>2, <2>3, <2>4
<1> QED
  BY <1>8, <1>10, ToSetIs DEF t, p

(* Every variable is in its range. *)
LEMMA InvTypes == Inv => TypeOK
  BY DEF Inv, Types, ClientsGood, TypeOK, FileStates

(* The lists agree with each other, with their counter and with the reads. *)
LEMMA InvLists == Inv => BlockListsAgree
<1> SUFFICES ASSUME Inv PROVE BlockListsAgree
  OBVIOUS
<1>1. ASSUME NEW c \in Clients
      PROVE  /\ cl[c].blockRequests \in Seq(Request) /\ Once(cl[c].blockRequests)
             /\ cl[c].doneBlocks \in Seq(Blocks) /\ ListsAgree(cl[c])
             /\ Reading(c, cl[c], reads, posted)
  <2>1. Good(c, cl[c], reads, posted, Whole)
    BY LeftTypes
  <2>2. ListsAgree(cl[c]) /\ cl[c] \in ClientStates
    BY <2>1, GoodGives
  <2> QED
    BY <2>1, <2>2, ClientFields DEF Good, ListsAgree
<1>2. BytesQueuedExact
  <2> SUFFICES ASSUME NEW c \in Clients
               PROVE  cl[c].blockReadBytesQueued =
                        Cardinality({i \in DOMAIN cl[c].blockRequests : cl[c].blockRequests[i].readQueued})
    BY DEF BytesQueuedExact
  <2> DEFINE s == cl[c].blockRequests
  <2>1. s \in Seq(Request) /\ Once(s) /\ cl[c].blockReadBytesQueued = Cardinality(MarkedIn(s))
    BY <1>1 DEF ListsAgree
  <2> HIDE DEF s
  <2>2. Cardinality({i \in DOMAIN s : s[i].readQueued}) = Cardinality(MarkedIn(s))
    BY <2>1, CountMarked
  <2> QED
    BY <2>1, <2>2 DEF s
<1>3. MarkedIsBeingRead
  <2> SUFFICES ASSUME NEW c \in Clients, NEW i \in 1 .. Len(cl[c].blockRequests),
                      cl[c].blockRequests[i].readQueued
               PROVE  \/ \E j \in 1 .. Len(reads) :
                           reads[j].client = c /\ reads[j].block = cl[c].blockRequests[i].block
                      \/ \E j \in 1 .. Len(posted) :
                           posted[j].client = c /\ posted[j].block = cl[c].blockRequests[i].block
    BY DEF MarkedIsBeingRead
  <2> DEFINE s == cl[c].blockRequests
             b == s[i].block
  <2>1. s[i] \in Request
    BY <1>1
  <2>2. b \in MarkedIn(s)
    BY <2>1 DEF MarkedIn, Request
  <2>3. b \in AskedBy(c, reads) \/ b \in AskedBy(c, posted)
    BY <1>1, <2>2 DEF Reading
  <2> QED
    BY <2>3 DEF AskedBy
<1>4. NoBlockTwice
  <2> SUFFICES ASSUME NEW c \in Clients
               PROVE  IsInjective([i \in 1 .. Len(cl[c].blockRequests) |-> cl[c].blockRequests[i].block]
                                    \o cl[c].doneBlocks)
    BY DEF NoBlockTwice
  <2> QED
    BY <1>1, ListsTogether DEF ListsAgree
<1> QED
  BY <1>2, <1>3, <1>4 DEF BlockListsAgree

(* While no part fails a check, what is handed to a socket was no gap: only *)
(* an event does it, and what it was read from was whole.                  *)
LEMMA StepServes ==
  ASSUME MaxBadParts = 0, Inv, Taken, NEW c \in Clients,
         Inv', Len(cl'[c].sendQueue) > Len(cl[c].sendQueue)
  PROVE  Head(posted).safe
<1> DEFINE m == Len(cl[c].sendQueue)
           n == Len(cl'[c].sendQueue)
<1>1. m \in Nat /\ n \in Nat
  <2>1. cl[c].sendQueue \in Seq(Packets)
    BY LeftTypes, ClientFields
  <2>2. cl'[c].sendQueue \in Seq(Packets)
    BY ClientFields DEF Inv, ClientsGood
  <2> QED
    BY <2>1, <2>2
<1>2. ~(n <= m)
  BY <1>1
<1>3. ~NoEvent
  BY <1>2 DEF NoEvent, Calm
<1>4. posted # << >>
  BY <1>3, PacketsReadyStep, ReadErrorStep DEF Taken
<1>5. posted \in Seq(Events)
  BY LeftTypes
<1>6. 1 \in 1..Len(posted) /\ Head(posted) = posted[1]
  BY <1>4, <1>5
<1> QED
  BY <1>6 DEF Inv, FilesGood

(* While a slot is given once, a file that moved costs none: an event that *)
(* is taken is a read error, and the block is still marked.                *)
LEMMA StepMoves ==
  ASSUME MaxSlots <= 1, Inv, Taken, Len(posted') < Len(posted), Head(posted).kind = "error",
         MovedSince(Head(posted))
  PROVE  cl'[Head(posted).client].slot = cl[Head(posted).client].slot
<1>1. ~NoEvent
  <2>1. Len(posted) \in Nat
    BY LeftTypes
  <2> QED
    BY <2>1 DEF NoEvent
<1>2. CASE onBlockPacketsReady
  BY <1>2, PacketsReadyStep
<1>3. CASE onReadError
  BY <1>3, ReadErrorStep
<1> QED
  BY <1>1, <1>2, <1>3 DEF Taken

(* Within one slot on one connection: when a client counts as sent what    *)
(* its socket has sent, what the socket still holds is beyond that.        *)
LEMMA StepConfirms ==
  ASSUME MaxSlots <= 1, MaxRehomes = 0, Inv, Taken, NEW c \in Clients,
         NEW u, cl'[c].sent > cl[c].sent, cl'[c].sent >= u.mark
  PROVE  ~Contains(cl[c].sendQueue, u)
<1> DEFINE s == cl[c].sendQueue
           n == cl[c].sent
           m == cl[c].sentPayload
<1>1. n \in Nat /\ m \in Nat /\ s \in Seq(Packets)
  BY LeftTypes, ClientFields
<1>2. ~(cl'[c].sent = n)
  BY <1>1
<1>3. NoEvent
  BY <1>2, PacketsReadyStep, ReadErrorStep DEF Taken
<1>4. cl[c].slot # "None" /\ cl'[c].sent = n + m
  BY <1>3 DEF NoEvent, Calm
<1>5. \A j \in 1..Len(s) : s[j].mark = n + m + j
  <2>1. Accounts(cl[c])
    BY LeftTypes DEF Good
  <2> QED
    BY <1>4, <2>1 DEF Accounts
<1> HIDE DEF s, n, m
<1>6. ASSUME NEW j \in 1..Len(s), s[j] = u PROVE FALSE
  <2>1. u.mark = n + m + j /\ n + m >= u.mark
    BY <1>4, <1>5, <1>6
  <2>2. j \in Nat /\ j >= 1
    BY <1>1
  <2> QED
    BY <1>1, <2>1, <2>2
<1> QED
  BY <1>6 DEF Contains, s

(* What the invariant says of the accounts of a slot. *)
LEMMA InvAccounts ==
  ASSUME MaxSlots <= 1, MaxRehomes = 0, Inv
  PROVE  PayloadIsBuffered /\ DuplicateIsInFlight
<1>1. ASSUME NEW c \in Clients
      PROVE  /\ Accounts(cl[c]) /\ cl[c].sent \in Nat /\ cl[c].sentPayload \in Nat
             /\ Len(cl[c].sendQueue) \in Nat
  <2>1. cl[c].sendQueue \in Seq(Packets)
    BY LeftTypes, ClientFields
  <2> QED
    BY <2>1, LeftTypes, ClientFields DEF Good
<1>2. ASSUME NEW c \in Clients, cl[c].slot = "Uploading"
      PROVE  PayloadInBuffer(cl[c]) = Len(cl[c].sendQueue) + cl[c].sentPayload
  <2>1. cl[c].added = cl[c].sent + cl[c].sentPayload + Len(cl[c].sendQueue)
    BY <1>1, <1>2 DEF Accounts
  <2> QED
    BY <1>1, <2>1, SMTT(30) DEF PayloadInBuffer
<1>3. DuplicateIsInFlight
  BY <1>1 DEF DuplicateIsInFlight, Accounts
<1> QED
  BY <1>2, <1>3 DEF PayloadIsBuffered

-----------------------------------------------------------------------------
(***************************************************************************)
(* The theorems.                                                           *)
(***************************************************************************)

(* The invariant holds of every behaviour. *)
LEMMA InvHolds == Spec => []Inv
<1>1. Inv /\ [Next]_vars => Inv'
  BY StepInv
<1> QED
  BY InitInv, <1>1, PTL DEF Spec

(* UploadClient.cpp and UploadQueue.cpp: through slots that end with reads *)
(* out, late results of an earlier slot, reads repeated because a file     *)
(* moved, replaced sockets and files unshared, m_blockReadBytesQueued is   *)
(* exactly the bytes of the blocks marked as being read, each of which the *)
(* worker has or has answered, and no block is pending or done twice.      *)
THEOREM Safety == Spec => [](TypeOK /\ BlockListsAgree)
<1>1. Inv => TypeOK /\ BlockListsAgree
  BY InvTypes, InvLists
<1> QED
  BY InvHolds, <1>1, PTL

(* addReqBlock() and onReadError(): for a slot given once, and while no    *)
(* part fails a check, the time between a request and its read does no     *)
(* harm: a file moved to incoming meanwhile costs no slot, and what is     *)
(* handed to a socket was not a gap when it was read.                      *)
THEOREM ReadsSound ==
  ASSUME MaxSlots <= 1, MaxBadParts = 0
  PROVE  Spec => ReadsAreSound
<1>1. Inv /\ [Next]_vars =>
        [LET e == Head(posted)
             f == file[FileOf[e.block]]
         IN (/\ Len(posted') < Len(posted)
             /\ e.kind = "error"
             /\ f.shared
             /\ f.hold \/ f.path # e.path)
              => cl'[e.client].slot = cl[e.client].slot]_vars
  BY StepInv, StepMoves DEF MovedSince
<1>2. Inv /\ [Next]_vars =>
        [\A c \in Clients :
           Len(cl'[c].sendQueue) > Len(cl[c].sendQueue) => Head(posted).safe]_vars
  BY StepInv, StepServes
<1>3. Spec => MovedIsNoError
  BY InvHolds, <1>1, PTL DEF Spec, MovedIsNoError
<1>4. Spec => NoGapServed
  BY InvHolds, <1>2, PTL DEF Spec, NoGapServed
<1> QED
  BY <1>3, <1>4 DEF ReadsAreSound

(* UpDownClient.h and confirmSentBlocks(): for a slot given once, on the   *)
(* connection it was given on, payloadInBuffer() is what the socket holds, *)
(* a block ignored as done is in the socket or has left it, and a block is *)
(* credited to the repeat-chunk guard when every byte of it has gone out.  *)
THEOREM AccountsTrue ==
  ASSUME MaxSlots <= 1, MaxRehomes = 0
  PROVE  Spec => SlotAccountsAreTrue
<1>1. Inv => PayloadIsBuffered /\ DuplicateIsInFlight
  BY InvAccounts
<1>2. Inv /\ [Next]_vars =>
        [\A c \in Clients : \A i \in 1 .. Len(cl[c].unconfirmed) :
           (/\ cl'[c].sent > cl[c].sent
            /\ cl'[c].sent >= cl[c].unconfirmed[i].mark)
           => ~Contains(cl[c].sendQueue, cl[c].unconfirmed[i])]_vars
  BY StepInv, StepConfirms
<1>3. Spec => [](PayloadIsBuffered /\ DuplicateIsInFlight)
  BY InvHolds, <1>1, PTL
<1>4. Spec => ConfirmedIsOut
  BY InvHolds, <1>2, PTL DEF Spec, ConfirmedIsOut
<1> QED
  BY <1>3, <1>4 DEF SlotAccountsAreTrue
=============================================================================

-------------------------- MODULE FileServerProofs --------------------------
(***************************************************************************)
(* The file side of the server, for every number of workers, paths, blocks *)
(* and requests, with or without another process unlinking the files:      *)
(*                                                                         *)
(* - the fdCache leaks no descriptor and never hands out a closed one      *)
(*   (NoDescriptorLeak);                                                   *)
(* - the types, and that no directory is truncated (FilesTypeOK);          *)
(* - what a client was told is written stays written (AcknowledgedStays);  *)
(* - a digest is that of the file at the path (DigestIsExact).             *)
(*                                                                         *)
(* The last three rest on one invariant, FilesInv: the descriptor that a   *)
(* handler holds, even one the cache has closed meanwhile, is one of the   *)
(* inode that still has the name.                                          *)
(***************************************************************************)
EXTENDS FileServer, SequenceTheorems, FiniteSetTheorems, TLAPS

\* The types the argument needs, and that only a cached path can be idle.
CacheTypes ==
  /\ req \in [Workers -> Request]
  /\ files \in [Paths -> Handles \cup {Absent}]
  /\ open \subseteq Handles
  /\ idle \subseteq {p \in Paths : Cached(p)}

CacheInv == CacheTypes /\ CacheOwnsOpen

\* No handle is the mark of an empty slot.
LEMMA AbsentIsNoHandle == Absent \notin Handles
PROOF
  BY DEF Absent, Handles

\* There is a request for a worker without one to point to.
LEMMA NoRequestType == NoRequest \in Request
PROOF
  <1>1. PICK p \in Paths : TRUE
    BY FilesAssumption
  <1>2. [kind |-> "read", path |-> p, block |-> 1, size |-> 0] \in Request
    BY <1>1, FilesAssumption DEF Request, Kinds
  <1> QED BY <1>2 DEF NoRequest

\* Replacing the descriptor of one path by a fresh one, as get does.
LEMMA Replace ==
  ASSUME CacheInv, NEW p \in Paths, NEW h \in Handles, Unused(h),
         files' = [files EXCEPT ![p] = h],
         open' = (open \ {files[p]}) \cup {h}
  PROVE  CacheOwnsOpen'
PROOF
  BY AbsentIsNoHandle DEF CacheInv, CacheTypes, CacheOwnsOpen, Cached, Unused

\* Closing and deleting a set of entries, as evict, the sweep and close do.
LEMMA Drop ==
  ASSUME CacheInv, NEW S \in SUBSET Paths,
         files' = [p \in Paths |-> IF p \in S THEN Absent ELSE files[p]],
         open' = open \ {files[p] : p \in S}
  PROVE  CacheOwnsOpen'
PROOF
  BY AbsentIsNoHandle DEF CacheInv, CacheTypes, CacheOwnsOpen, Cached

\* A step that leaves the cache and the descriptors alone keeps CacheInv.
LEMMA Untouched ==
  ASSUME CacheInv, UNCHANGED cacheVars, UNCHANGED open,
         req' \in [Workers -> Request]
  PROVE  CacheInv'
PROOF
  BY DEF CacheInv, CacheTypes, CacheOwnsOpen, Cached, cacheVars

\* Every step keeps CacheInv.
LEMMA CacheStep == CacheInv /\ [Next]_vars => CacheInv'
PROOF
  <1> SUFFICES ASSUME CacheInv, [Next]_vars PROVE CacheInv'
    OBVIOUS
  <1>0. req \in [Workers -> Request]
    BY DEF CacheInv, CacheTypes
  <1> USE <1>0 DEF fileVars
  <1>1. ASSUME NEW w \in Workers, Reject(w) PROVE CacheInv'
    BY <1>1, Untouched, NoRequestType DEF Reject, Finish
  <1>2. ASSUME NEW w \in Workers, ReadAt(w) PROVE CacheInv'
    BY <1>2, Untouched, NoRequestType DEF ReadAt, Finish
  <1>3. ASSUME NEW w \in Workers, WriteAt(w) PROVE CacheInv'
    BY <1>3, Untouched, NoRequestType DEF WriteAt, Finish
  <1>4. ASSUME NEW w \in Workers, WriteAtFails(w) PROVE CacheInv'
    BY <1>4, Untouched, NoRequestType DEF WriteAtFails, Goto
  <1>5. ASSUME NEW w \in Workers, Seek(w) PROVE CacheInv'
    BY <1>5, Untouched, NoRequestType DEF Seek, Goto
  <1>6. ASSUME NEW w \in Workers, CopyRead(w) PROVE CacheInv'
    BY <1>6, Untouched, NoRequestType DEF CopyRead
  <1>7. ASSUME NEW w \in Workers, CopyEnd(w) PROVE CacheInv'
    BY <1>7, Untouched, NoRequestType DEF CopyEnd, Goto
  <1>8. ASSUME NEW w \in Workers, CopyFails(w) PROVE CacheInv'
    BY <1>8, Untouched, NoRequestType DEF CopyFails, Goto
  <1>9. ASSUME NEW w \in Workers, Mkdir(w) PROVE CacheInv'
    BY <1>9, Untouched, NoRequestType DEF Mkdir, Finish
  <1>10. ASSUME NEW w \in Workers, CreateStat(w) PROVE CacheInv'
    BY <1>10, Untouched, NoRequestType DEF CreateStat, Finish, Goto
  <1>11. ASSUME NEW w \in Workers, CreateOpen(w) PROVE CacheInv'
    BY <1>11, Untouched, NoRequestType DEF CreateOpen, Finish, Goto
  <1>12. ASSUME NEW w \in Workers, CreateTruncate(w) PROVE CacheInv'
    BY <1>12, Untouched, NoRequestType DEF CreateTruncate, Finish
  <1>13. ASSUME NEW w \in Workers, NEW r \in Request, Take(w, r) PROVE CacheInv'
    BY <1>13, Untouched DEF Take
  <1>14. ASSUME NEW w \in Workers, GetHit(w) PROVE CacheInv'
    BY <1>14 DEF GetHit, Goto, CacheInv, CacheTypes, CacheOwnsOpen, Cached
  <1>15. ASSUME NEW w \in Workers, GetOpen(w) PROVE CacheInv'
    <2>1. req[w].path \in Paths
      BY DEF CacheInv, CacheTypes, Request
    <2>2. PICK h \in Handles :
            /\ Unused(h)
            /\ files' = [files EXCEPT ![req[w].path] = h]
            /\ open' = (open \ {files[req[w].path]}) \cup {h}
      BY <1>15 DEF GetOpen, Fresh
    <2>3. CacheOwnsOpen'
      BY <2>1, <2>2, Replace
    <2>4. CacheTypes'
      BY <1>15, <2>1, <2>2, AbsentIsNoHandle
         DEF GetOpen, Goto, CacheInv, CacheTypes, Cached
    <2> QED BY <2>3, <2>4 DEF CacheInv
  <1>16. ASSUME NEW w \in Workers, GetFails(w) PROVE CacheInv'
    <2>1. req[w].path \in Paths
      BY DEF CacheInv, CacheTypes, Request
    <2>2. /\ files' = [p \in Paths |-> IF p \in {req[w].path} THEN Absent
                                                         ELSE files[p]]
          /\ open' = open \ {files[p] : p \in {req[w].path}}
      BY <1>16, <2>1 DEF GetFails, CacheInv, CacheTypes
    <2>3. CacheOwnsOpen'
      BY <2>1, <2>2, Drop
    <2>4. req' \in [Workers -> Request]
      BY <1>16, NoRequestType DEF GetFails, Finish, Goto, CacheInv, CacheTypes
    <2>5. idle' = idle \ {req[w].path}
      BY <1>16 DEF GetFails
    <2>6. CacheTypes'
      BY <2>2, <2>4, <2>5 DEF CacheInv, CacheTypes, Cached
    <2> QED BY <2>3, <2>6 DEF CacheInv
  <1>17. ASSUME NEW w \in Workers, Evict(w) PROVE CacheInv'
    <2>1. req[w].path \in Paths
      BY DEF CacheInv, CacheTypes, Request
    <2>2. /\ files' = [p \in Paths |-> IF p \in {req[w].path} THEN Absent
                                                         ELSE files[p]]
          /\ open' = open \ {files[p] : p \in {req[w].path}}
      BY <1>17, <2>1 DEF Evict, CacheInv, CacheTypes
    <2>3. CacheOwnsOpen'
      BY <2>1, <2>2, Drop
    <2>4. req' \in [Workers -> Request]
      BY <1>17, NoRequestType DEF Evict, Finish, CacheInv, CacheTypes
    <2>5. idle' = idle \ {req[w].path}
      BY <1>17 DEF Evict
    <2>6. CacheTypes'
      BY <2>2, <2>4, <2>5 DEF CacheInv, CacheTypes, Cached
    <2> QED BY <2>3, <2>6 DEF CacheInv
  <1>18. CASE Sweep
    <2>1. /\ files' = [p \in Paths |-> IF p \in idle THEN Absent ELSE files[p]]
          /\ open' = open \ {files[p] : p \in idle}
          /\ idle \subseteq Paths
      BY <1>18 DEF Sweep, CacheInv, CacheTypes
    <2>2. CacheOwnsOpen'
      BY <2>1, Drop
    <2>3. CacheTypes'
      BY <1>18, <2>1 DEF Sweep, workVars, CacheInv, CacheTypes, Cached
    <2> QED BY <2>2, <2>3 DEF CacheInv
  <1>19. CASE CloseCache
    <2>1. /\ files' = [p \in Paths |-> IF p \in Paths THEN Absent ELSE files[p]]
          /\ open' = open \ {files[p] : p \in Paths}
          /\ Paths \subseteq Paths
      BY <1>19 DEF CloseCache, CacheInv, CacheTypes
    <2>2. CacheOwnsOpen'
      BY <2>1, Drop
    <2>3. CacheTypes'
      BY <1>19, <2>1 DEF CloseCache, workVars, CacheInv, CacheTypes, Cached
    <2> QED BY <2>2, <2>3 DEF CacheInv
  <1>20. CASE Tick
    BY <1>20
       DEF Tick, workVars, fileVars, CacheInv, CacheTypes, CacheOwnsOpen, Cached
  <1>21. ASSUME NEW p \in Paths, Remove(p) PROVE CacheInv'
    BY <1>21, Untouched DEF Remove, workVars
  <1>22. CASE UNCHANGED vars
    BY <1>22, Untouched DEF vars, workVars
  <1> QED
    BY <1>1, <1>2, <1>3, <1>4, <1>5, <1>6, <1>7, <1>8, <1>9, <1>10, <1>11,
       <1>12, <1>13, <1>14, <1>15, <1>16, <1>17, <1>18, <1>19, <1>20, <1>21,
       <1>22 DEF Next, Worker

\* The cache owns exactly the open descriptors, one per path: none is leaked
\* and none is handed out closed, whatever the handlers and the sweep do.
THEOREM NoDescriptorLeak == Spec => []CacheOwnsOpen
PROOF
  <1>1. Init => CacheInv
    BY NoRequestType DEF Init, CacheInv, CacheTypes, CacheOwnsOpen, Cached
  <1>2. CacheInv => CacheOwnsOpen
    BY DEF CacheInv
  <1> QED BY <1>1, <1>2, CacheStep, PTL DEF Spec

-----------------------------------------------------------------------------
(* Descriptors and the files they were opened on                           *)

Fixed == Paths \ Removable

\* An open descriptor has an inode; the cached one of a path that nobody
\* unlinks has the inode at the path; one that may be written is not that of
\* a directory, a directory keeps its name, and no inode has two names.
DiskInv ==
  /\ \A h \in open : ino[h] \in Inodes
  /\ \A p \in Fixed : Cached(p) => ino[files[p]] = fs[p]
  /\ \A h \in open \cap rw : ino[h] \notin dirs
  /\ dirs \subseteq {fs[p] : p \in Paths}
  /\ \A p, q \in Paths : fs[p] # Absent /\ fs[p] = fs[q] => p = q

\* What a hash that nobody disturbs has read.
Undisturbed(w) == w \notin overlapped /\ req[w].path \in Fixed

ReadSoFar(w) ==
  LET c == content[ino[fd[w]]] IN
  /\ Len(seen[w]) = pos[fd[w]] /\ pos[fd[w]] <= Len(c)
  /\ \A i \in 1 .. Len(seen[w]) : seen[w][i] = c[i]

\* What a handler relies on: its descriptor, open or closed by now, is one of
\* the file at the path.  A create that will truncate is on record, and can
\* only truncate what has its path or no name.
HandlerInv(w) ==
  /\ fd[w] # Absent => ino[fd[w]] \in Inodes
  /\ fd[w] # Absent /\ req[w].path \in Fixed => ino[fd[w]] = fs[req[w].path]
  /\ pc[w] = "io" /\ req[w].kind = "write" => fd[w] \in rw
  /\ pc[w] \in {"copy", "hashed"} => req[w].kind = "hash"
  /\ pc[w] \in {"idle", "get", "io", "create", "open", "trunc", "mkdir"} =>
       seen[w] = <<>>
  /\ pc[w] \in {"idle", "get", "create", "open", "trunc", "mkdir"} =>
       fd[w] = Absent
  /\ pc[w] = "copy" /\ Undisturbed(w) => ReadSoFar(w)
  /\ pc[w] = "hashed" /\ Undisturbed(w) =>
       ino[fd[w]] \notin dirs /\ seen[w] = content[ino[fd[w]]]
  /\ pc[w] \in {"open", "trunc"} => <<req[w].path, req[w].size>> \in made
  /\ pc[w] = "trunc" => \A p \in Paths : fs[p] = node[w] => p = req[w].path

FilesInv ==
  /\ TypeOK /\ CacheInv /\ DiskInv /\ AckedIsStored
  /\ \A w \in Workers : HandlerInv(w)

-----------------------------------------------------------------------------
(* There is always an inode to spare                                       *)

\* A set has at least as many elements as its image.
LEMMA ImageIsSmaller ==
  ASSUME NEW S, IsFiniteSet(S), NEW f
  PROVE  /\ IsFiniteSet({f[x] : x \in S})
         /\ Cardinality({f[x] : x \in S}) <= Cardinality(S)
  <1> DEFINE T == {f[x] : x \in S}
             g == [x \in S |-> f[x]]
  <1>1. g \in Surjection(S, T)
    BY DEF Surjection
  <1> HIDE DEF g
  <1> QED BY <1>1, FS_Surjection

\* The names, the open descriptors and the creates under way cannot use up
\* the inodes of the model.
LEMMA FreshInodeExists ==
  ASSUME CacheOwnsOpen
  PROVE  /\ FreshInode \in Inodes
         /\ \A p \in Paths : fs[p] # FreshInode
         /\ \A h \in open : ino[h] # FreshInode
         /\ \A w \in Workers : node[w] # FreshInode
  <1> DEFINE N == Cardinality(Paths)
             M == Cardinality(Workers)
             inos == [p \in Paths |-> ino[files[p]]]
             A == {fs[p] : p \in Paths}
             B == {inos[p] : p \in Paths}
             C == {node[w] : w \in Workers}
             Used == (A \cup B) \cup C
  <1>1. N \in Nat /\ M \in Nat
    BY FilesAssumption, FS_CardinalityType
  <1>2. /\ IsFiniteSet(A) /\ Cardinality(A) <= N
        /\ IsFiniteSet(B) /\ Cardinality(B) <= N
        /\ IsFiniteSet(C) /\ Cardinality(C) <= M
    <2>1. IsFiniteSet(A) /\ Cardinality(A) <= N
      BY FilesAssumption, ImageIsSmaller
    <2>2. IsFiniteSet(B) /\ Cardinality(B) <= N
      <3> HIDE DEF inos
      <3> QED BY FilesAssumption, ImageIsSmaller
    <2>3. IsFiniteSet(C) /\ Cardinality(C) <= M
      BY FilesAssumption, ImageIsSmaller
    <2> QED BY <2>1, <2>2, <2>3
  <1> HIDE DEF A, B, C, N, M
  <1>3. IsFiniteSet(Used) /\ Cardinality(Used) <= M + 2 * N
    <2>1. /\ IsFiniteSet(A \cup B)
          /\ Cardinality(A \cup B) = Cardinality(A) + Cardinality(B) - Cardinality(A \cap B)
      BY <1>2, FS_Union
    <2>2. /\ IsFiniteSet(Used)
          /\ Cardinality(Used) = Cardinality(A \cup B) + Cardinality(C)
                                   - Cardinality((A \cup B) \cap C)
      BY <1>2, <2>1, FS_Union
    <2>3. IsFiniteSet(A \cap B) /\ IsFiniteSet((A \cup B) \cap C)
      <3>1. A \cap B \in SUBSET A /\ (A \cup B) \cap C \in SUBSET C
        OBVIOUS
      <3> QED BY <1>2, <3>1, FS_Subset
    <2>4. /\ Cardinality(A) \in Nat /\ Cardinality(B) \in Nat /\ Cardinality(C) \in Nat
          /\ Cardinality(A \cap B) \in Nat /\ Cardinality((A \cup B) \cap C) \in Nat
      BY <1>2, <2>3, FS_CardinalityType
    <2> QED BY <1>1, <1>2, <2>1, <2>2, <2>4
  <1> HIDE DEF Used
  <1>4. IsFiniteSet(Inodes) /\ Cardinality(Inodes) = M + 2 * N + 1
    <2>1. Inodes = 1 .. M + 2 * N + 1
      BY DEF Inodes, M, N
    <2>2. PICK n \in Nat : n = M + 2 * N + 1 /\ n > 0
      BY <1>1
    <2>3. IsFiniteSet(1 .. n) /\ Cardinality(1 .. n) = n
      <3>1. /\ IsFiniteSet(1 .. n)
            /\ Cardinality(1 .. n) = IF 1 > n THEN 0 ELSE n - 1 + 1
        BY FS_Interval
      <3> QED BY <2>2, <3>1
    <2> QED BY <2>1, <2>2, <2>3
  <1>5. PICK i \in Inodes : i \notin Used
    <2> SUFFICES ASSUME Inodes \subseteq Used
                 PROVE  FALSE
      OBVIOUS
    <2>1. Cardinality(Inodes) <= Cardinality(Used)
      BY <1>3, FS_Subset
    <2>2. Cardinality(Used) \in Nat
      BY <1>3, FS_CardinalityType
    <2> QED BY <1>1, <1>3, <1>4, <2>1, <2>2
  <1>6. /\ \A p \in Paths : fs[p] # i
        /\ \A h \in open : ino[h] # i
        /\ \A w \in Workers : node[w] # i
    BY <1>5 DEF Used, A, B, C, CacheOwnsOpen
  <1> QED BY <1>5, <1>6 DEF FreshInode

-----------------------------------------------------------------------------
(* What writing and truncating do to the blocks of a file                  *)

Cells == {Hole, Data}

\* Truncate keeps the blocks that remain.
LEMMA ResizeFacts ==
  ASSUME NEW s \in Seq(Cells), NEW n \in Nat
  PROVE  /\ Resize(s, n) \in Seq(Cells) /\ Len(Resize(s, n)) = n
         /\ \A b \in 1 .. n : b <= Len(s) => Resize(s, n)[b] = s[b]
  <1>1. Len(s) \in Nat /\ \A b \in 1 .. Len(s) : s[b] \in Cells
    BY LenProperties, ElementOfSeq
  <1>2. Resize(s, n) \in [1 .. n -> Cells]
    BY <1>1 DEF Resize, Cells
  <1>3. Resize(s, n) \in Seq(Cells)
    BY <1>2, SeqDef
  <1>4. Len(Resize(s, n)) = n
    <2>1. Len(Resize(s, n)) \in Nat /\ DOMAIN Resize(s, n) = 1 .. Len(Resize(s, n))
      BY <1>3, LenProperties
    <2>2. DOMAIN Resize(s, n) = 1 .. n
      BY <1>2
    <2> DEFINE m == Len(Resize(s, n))
    <2>3. m \in Nat /\ \A i \in Nat \ {0} : i <= m <=> i <= n
      BY <2>1, <2>2
    <2> HIDE DEF m
    <2>4. (m > 0 => m <= n) /\ (n > 0 => n <= m)
      BY <2>3
    <2>5. m = n
      BY <2>3, <2>4
    <2> QED BY <2>5 DEF m
  <1>5. \A b \in 1 .. n : b <= Len(s) => Resize(s, n)[b] = s[b]
    BY DEF Resize
  <1> QED BY <1>3, <1>4, <1>5

\* WriteAt sets one block and loses none.
LEMMA WriteFacts ==
  ASSUME NEW s \in Seq(Cells), NEW b \in Nat \ {0}
  PROVE  LET t == WriteBlock(s, b) IN
         /\ t \in Seq(Cells) /\ Len(t) \in Nat /\ Len(t) >= Len(s) /\ Len(t) >= b
         /\ t[b] = Data
         /\ \A i \in 1 .. Len(s) : s[i] = Data => t[i] = Data
  <1> DEFINE n == IF Len(s) < b THEN b ELSE Len(s)
             r == Resize(s, n)
  <1>1. Len(s) \in Nat
    BY LenProperties
  <1>2. n \in Nat /\ n >= Len(s) /\ n >= b
    BY <1>1
  <1>3. WriteBlock(s, b) = [r EXCEPT ![b] = Data]
    BY DEF WriteBlock
  <1> HIDE DEF n
  <1>4. /\ r \in Seq(Cells) /\ Len(r) = n
        /\ \A i \in 1 .. n : i <= Len(s) => r[i] = s[i]
    BY <1>2, ResizeFacts
  <1> HIDE DEF r
  <1>5. b \in 1 .. Len(r) /\ Data \in Cells
    BY <1>2, <1>4 DEF Cells
  <1>6. /\ [r EXCEPT ![b] = Data] \in Seq(Cells)
        /\ Len([r EXCEPT ![b] = Data]) = n
        /\ \A j \in 1 .. n : [r EXCEPT ![b] = Data][j] = IF j = b THEN Data ELSE r[j]
    BY <1>4, <1>5, ExceptSeq
  <1>7. \A i \in 1 .. Len(s) : i \in 1 .. n /\ i <= Len(s)
    BY <1>1, <1>2
  <1> QED BY <1>1, <1>2, <1>3, <1>4, <1>5, <1>6, <1>7

-----------------------------------------------------------------------------
(* Types                                                                   *)

Labels == {"idle", "get", "io", "copy", "hashed", "evict", "create", "open",
           "trunc", "mkdir"}

WorkTypes ==
  /\ pc \in [Workers -> Labels] /\ req \in [Workers -> Request]
  /\ fd \in [Workers -> Handles \cup {Absent}]
  /\ seen \in [Workers -> Seq(Cells)]
  /\ node \in [Workers -> Inodes \cup {Absent}]

FdTypes ==
  /\ files \in [Paths -> Handles \cup {Absent}]
  /\ rw \subseteq Handles /\ idle \subseteq Paths /\ stopped \in BOOLEAN
  /\ open \subseteq Handles
  /\ ino \in [Handles -> Inodes \cup {Absent}] /\ pos \in [Handles -> Nat]

DiskTypes ==
  /\ fs \in [Paths -> Inodes \cup {Absent}] /\ dirs \subseteq Inodes
  /\ content \in [Inodes -> Seq(Cells)]

StageOK(w) ==
  /\ pc[w] \in {"io", "copy", "hashed"} => fd[w] # Absent
  /\ pc[w] = "trunc" => node[w] \in Inodes \ dirs

HistTypes ==
  /\ arrived \in [Kinds -> Nat]
  /\ acked \subseteq Paths \X (1 .. Blocks) /\ overlapped \subseteq Workers
  /\ made \subseteq Paths \X (Sizes \cup {0})

\* The type invariant in the parts that the steps disturb.
LEMMA TypeParts ==
  TypeOK <=> /\ WorkTypes /\ FdTypes /\ DiskTypes /\ HistTypes
             /\ \A w \in Workers : StageOK(w)
  BY DEF TypeOK, WorkTypes, FdTypes, DiskTypes, HistTypes, StageOK, Labels, Cells

\* No inode is the mark of a missing name.
LEMMA AbsentIsNoInode == Absent \notin Inodes
  BY DEF Absent, Inodes

\* The parts of a request.
LEMMA RequestFacts ==
  ASSUME WorkTypes, NEW w \in Workers
  PROVE  /\ req[w] \in Request /\ req[w].path \in Paths /\ req[w].kind \in Kinds
         /\ req[w].block \in 1 .. Blocks /\ req[w].block \in Nat \ {0}
         /\ req[w].size \in Sizes \cup {0} /\ req[w].size \in Nat
  <1>1. req[w] \in Request /\ Blocks \in Nat /\ Sizes \subseteq Nat
    BY FilesAssumption DEF WorkTypes
  <1>2. req[w] \in [kind : Kinds, path : Paths, block : 1 .. Blocks,
                    size : Sizes \cup {0}]
    BY <1>1, Zenon DEF Request
  <1>3. /\ req[w].path \in Paths /\ req[w].kind \in Kinds
        /\ req[w].block \in 1 .. Blocks /\ req[w].size \in Sizes \cup {0}
    BY <1>2
  <1>4. req[w].block \in Nat \ {0} /\ req[w].size \in Nat
    <2>1. \A b \in 1 .. Blocks : b \in Nat \ {0}
      BY <1>1
    <2>2. \A n \in Sizes \cup {0} : n \in Nat
      BY <1>1
    <2> QED BY <1>3, <2>1, <2>2, Zenon
  <1> QED BY <1>1, <1>3, <1>4, Zenon

\* A handler that returns forgets everything.
LEMMA FinishFacts ==
  ASSUME WorkTypes, NEW w \in Workers, Finish(w)
  PROVE  /\ WorkTypes'
         /\ pc'[w] = "idle" /\ fd'[w] = Absent /\ seen'[w] = <<>>
         /\ \A v \in Workers : v # w =>
              /\ pc'[v] = pc[v] /\ req'[v] = req[v] /\ fd'[v] = fd[v]
              /\ seen'[v] = seen[v] /\ node'[v] = node[v]
         /\ arrived' = arrived
  <1>1. <<>> \in Seq(Cells)
    BY EmptySeq
  <1> QED BY <1>1, NoRequestType DEF WorkTypes, Finish, Labels

\* A handler that goes on leaves the others where they are.
LEMMA GotoFacts ==
  ASSUME WorkTypes, NEW w \in Workers, NEW l \in Labels, Goto(w, l)
  PROVE  /\ pc' \in [Workers -> Labels] /\ req' = req /\ arrived' = arrived
         /\ pc'[w] = l /\ \A v \in Workers : v # w => pc'[v] = pc[v]
  BY DEF WorkTypes, Goto

-----------------------------------------------------------------------------
(* A step of one handler does not disturb the others                       *)

SameWork(v) ==
  /\ pc'[v] = pc[v] /\ req'[v] = req[v] /\ fd'[v] = fd[v]
  /\ seen'[v] = seen[v] /\ node'[v] = node[v]

Calm(v) ==
  /\ SameWork(v)
  /\ fd[v] # Absent => ino'[fd[v]] = ino[fd[v]] /\ (fd[v] \in rw => fd[v] \in rw')
  /\ fd[v] # Absent /\ req[v].kind = "hash" /\ req[v].path \in Fixed
       /\ v \notin overlapped' =>
       /\ v \notin overlapped
       /\ content'[ino[fd[v]]] = content[ino[fd[v]]]
       /\ pc[v] = "copy" => pos'[fd[v]] = pos[fd[v]]
       /\ ino[fd[v]] \in dirs' => ino[fd[v]] \in dirs
  /\ fd[v] # Absent /\ req[v].path \in Fixed => fs'[req[v].path] = fs[req[v].path]
  /\ made \subseteq made'
  /\ pc[v] = "trunc" => \A p \in Paths : fs'[p] = node[v] => fs[p] = node[v]

\* What a handler relies on survives the calm steps of others.
LEMMA CalmHandler ==
  ASSUME NEW v \in Workers, StageOK(v), HandlerInv(v), Calm(v)
  PROVE  HandlerInv(v)'
  <1>1. /\ fd[v] # Absent => ino'[fd[v]] = ino[fd[v]] /\ (fd[v] \in rw => fd[v] \in rw')
        /\ fd[v] # Absent /\ req[v].path \in Fixed => fs'[req[v].path] = fs[req[v].path]
        /\ SameWork(v)
    BY DEF Calm
  <1>2. ASSUME pc'[v] \in {"copy", "hashed"}, Undisturbed(v)'
        PROVE  /\ Undisturbed(v) /\ fd[v] # Absent
               /\ ino'[fd[v]] = ino[fd[v]]
               /\ content'[ino[fd[v]]] = content[ino[fd[v]]]
               /\ pc[v] = "copy" => pos'[fd[v]] = pos[fd[v]]
               /\ ino[fd[v]] \in dirs' => ino[fd[v]] \in dirs
    BY <1>2 DEF SameWork, StageOK, HandlerInv, Undisturbed, Calm
  <1>3. pc'[v] = "copy" /\ Undisturbed(v)' => ReadSoFar(v)'
    BY <1>1, <1>2 DEF HandlerInv, ReadSoFar, SameWork
  <1>4. pc'[v] = "hashed" /\ Undisturbed(v)' =>
          ino'[fd'[v]] \notin dirs' /\ seen'[v] = content'[ino'[fd'[v]]]
    BY <1>1, <1>2 DEF HandlerInv, SameWork
  <1>5. /\ fd'[v] # Absent => ino'[fd'[v]] \in Inodes
        /\ fd'[v] # Absent /\ req'[v].path \in Fixed => ino'[fd'[v]] = fs'[req'[v].path]
        /\ pc'[v] = "io" /\ req'[v].kind = "write" => fd'[v] \in rw'
    BY <1>1 DEF HandlerInv, SameWork, StageOK
  <1>6. /\ pc'[v] \in {"open", "trunc"} => <<req'[v].path, req'[v].size>> \in made'
        /\ pc'[v] = "trunc" => \A p \in Paths : fs'[p] = node'[v] => p = req'[v].path
    BY DEF HandlerInv, Calm, SameWork
  <1> QED BY <1>1, <1>3, <1>4, <1>5, <1>6 DEF HandlerInv, SameWork, Fixed

\* Fewer creates on record spare more blocks.
LEMMA SparedBefore ==
  ASSUME made \subseteq made', NEW p, NEW b, Spared(p, b)'
  PROVE  Spared(p, b)
  BY DEF Spared

\* The names and the blocks stay as they are: only the acting workers and
\* the descriptors that are closed have something to show.
LEMMA QuietStep ==
  ASSUME FilesInv, NEW A \in SUBSET Workers, CacheInv',
         WorkTypes', FdTypes', HistTypes',
         \A v \in Workers \ A : SameWork(v),
         \A v \in A : StageOK(v)' /\ HandlerInv(v)',
         open' \subseteq open, UNCHANGED <<ino, rw, diskVars, acked>>, made \subseteq made',
         \A p \in Paths : files'[p] # Absent => files'[p] = files[p],
         overlapped \subseteq overlapped' \cup A,
         \A v \in Workers \ A : pc[v] = "copy" /\ v \notin overlapped' =>
           pos'[fd[v]] = pos[fd[v]]
  PROVE  FilesInv'
  <1>1. fs' = fs /\ dirs' = dirs /\ content' = content
    BY DEF diskVars
  <1>2. /\ WorkTypes /\ FdTypes /\ DiskTypes /\ \A v \in Workers : StageOK(v)
    BY TypeParts DEF FilesInv
  <1>3. DiskTypes'
    BY <1>1, <1>2 DEF DiskTypes
  <1>4. \A v \in Workers \ A : Calm(v)
    BY <1>1 DEF Calm
  <1>5. \A v \in Workers : HandlerInv(v)'
    BY <1>2, <1>4, CalmHandler DEF FilesInv
  <1>6. \A v \in Workers : StageOK(v)'
    BY <1>1, <1>2 DEF StageOK, SameWork
  <1>7. DiskInv'
    BY <1>1 DEF FilesInv, DiskInv, Cached, Fixed
  <1>8. AckedIsStored'
    BY <1>1, SparedBefore DEF FilesInv, AckedIsStored, IsFile
  <1>9. TypeOK'
    <2>1. /\ WorkTypes' /\ FdTypes' /\ DiskTypes' /\ HistTypes'
          /\ \A v \in Workers : StageOK(v)'
      BY <1>3, <1>6
    <2> QED BY <2>1 DEF TypeOK, WorkTypes, FdTypes, DiskTypes, HistTypes,
                        StageOK, Labels, Cells
  <1> QED BY <1>5, <1>7, <1>8, <1>9 DEF FilesInv

\* A handler that has returned relies on nothing.
LEMMA IdleHandler ==
  ASSUME NEW w \in Workers, pc'[w] = "idle", fd'[w] = Absent, seen'[w] = <<>>
  PROVE  StageOK(w)' /\ HandlerInv(w)'
  BY DEF StageOK, HandlerInv

\* A handler that returns and has changed no file.
LEMMA FinishQuietly ==
  ASSUME FilesInv, NEW w \in Workers, CacheInv', Finish(w), FdTypes',
         open' \subseteq open, UNCHANGED <<ino, pos, rw, diskVars, acked, made>>,
         \A p \in Paths : files'[p] # Absent => files'[p] = files[p],
         overlapped' = overlapped \/ overlapped' = overlapped \ {w}
  PROVE  FilesInv'
  <1>1. WorkTypes /\ HistTypes
    BY TypeParts DEF FilesInv
  <1>2. /\ WorkTypes' /\ arrived' = arrived
        /\ pc'[w] = "idle" /\ fd'[w] = Absent /\ seen'[w] = <<>>
        /\ \A v \in Workers \ {w} : SameWork(v)
    BY <1>1, FinishFacts DEF SameWork
  <1>3. HistTypes'
    BY <1>1, <1>2 DEF HistTypes
  <1>4. StageOK(w)' /\ HandlerInv(w)'
    BY <1>2, IdleHandler
  <1>5. /\ {w} \in SUBSET Workers /\ overlapped \subseteq overlapped' \cup {w}
        /\ \A v \in {w} : StageOK(v)' /\ HandlerInv(v)'
        /\ \A v \in Workers \ {w} : pos'[fd[v]] = pos[fd[v]]
    BY <1>4
  <1> QED BY <1>2, <1>3, <1>5, QuietStep

\* A handler that goes on and has changed no file.
LEMMA MoveQuietly ==
  ASSUME FilesInv, NEW w \in Workers, CacheInv', WorkTypes',
         \A v \in Workers \ {w} : SameWork(v), StageOK(w)', HandlerInv(w)',
         arrived' \in [Kinds -> Nat], idle' \subseteq Paths,
         UNCHANGED <<open, ino, rw, files, stopped, diskVars, acked>>,
         made \subseteq made', made' \subseteq Paths \X (Sizes \cup {0}),
         pos' \in [Handles -> Nat],
         \A v \in Workers \ {w} : pc[v] = "copy" /\ v \notin overlapped' =>
           pos'[fd[v]] = pos[fd[v]],
         overlapped \subseteq overlapped', overlapped' \subseteq Workers
  PROVE  FilesInv'
  <1>1. FdTypes /\ HistTypes
    BY TypeParts DEF FilesInv
  <1>2. FdTypes' /\ HistTypes'
    BY <1>1 DEF FdTypes, HistTypes
  <1>3. /\ {w} \in SUBSET Workers /\ overlapped \subseteq overlapped' \cup {w}
        /\ \A v \in {w} : StageOK(v)' /\ HandlerInv(v)'
    OBVIOUS
  <1> QED BY <1>2, <1>3, QuietStep

\* The steps that change no file: they answer, look up, fail, evict or hash.
LEMMA QuietActions ==
  ASSUME FilesInv, [Next]_vars, NEW w \in Workers,
         \/ \E r \in Request : Take(w, r)
         \/ Reject(w) \/ GetHit(w) \/ GetFails(w) \/ ReadAt(w) \/ WriteAtFails(w)
         \/ Seek(w) \/ CopyRead(w) \/ CopyEnd(w) \/ CopyFails(w) \/ Evict(w)
         \/ CreateStat(w)
  PROVE  FilesInv'
  <1>0. CacheInv'
    BY CacheStep DEF FilesInv
  <1>1. /\ WorkTypes /\ FdTypes /\ DiskTypes /\ HistTypes
        /\ StageOK(w) /\ HandlerInv(w) /\ DiskInv /\ CacheOwnsOpen
    BY TypeParts DEF FilesInv, CacheInv
  <1>2. /\ req[w].path \in Paths /\ req[w].kind \in Kinds
    BY <1>1, RequestFacts
  <1>3. ASSUME NEW r \in Request, Take(w, r)
        PROVE  FilesInv'
    <2>1. r.kind \in Kinds
      BY DEF Request
    <2>2. /\ pc[w] = "idle" /\ req' = [req EXCEPT ![w] = r]
          /\ arrived' = [arrived EXCEPT ![r.kind] = @ + 1]
          /\ UNCHANGED <<fd, seen, node, cacheVars, fileVars, diskVars, acked, made, overlapped>>
          /\ \E l \in {"create", "mkdir", "get"} : pc' = [pc EXCEPT ![w] = l]
      BY <1>3 DEF Take
    <2>3. arrived' \in [Kinds -> Nat]
      BY <1>1, <2>1, <2>2 DEF HistTypes
    <2>4. WorkTypes' /\ \A v \in Workers \ {w} : SameWork(v)
      BY <1>1, <2>2 DEF WorkTypes, SameWork, Labels
    <2>5. pc'[w] \in {"create", "mkdir", "get"} /\ fd'[w] = Absent /\ seen'[w] = <<>>
      BY <1>1, <2>2 DEF WorkTypes, HandlerInv
    <2>6. StageOK(w)' /\ HandlerInv(w)'
      BY <2>5 DEF StageOK, HandlerInv
    <2> QED BY <1>0, <1>1, <2>2, <2>3, <2>4, <2>6, MoveQuietly
            DEF cacheVars, fileVars, FdTypes, HistTypes
  <1>4. CASE Reject(w) \/ ReadAt(w)
    <2>1. Finish(w) /\ UNCHANGED <<cacheVars, fileVars, diskVars, acked, made, overlapped>>
      BY <1>4 DEF Reject, ReadAt
    <2>2. FdTypes'
      BY <1>1, <2>1 DEF FdTypes, cacheVars, fileVars
    <2> QED BY <1>0, <2>1, <2>2, FinishQuietly DEF cacheVars, fileVars
  <1>5. CASE GetHit(w)
    <2>1. /\ fd' = [fd EXCEPT ![w] = files[req[w].path]]
          /\ idle' = idle \ {req[w].path} /\ Goto(w, "io")
          /\ pc[w] = "get" /\ Cached(req[w].path) /\ ~NeedsUpgrade(w)
          /\ UNCHANGED <<seen, node, files, rw, stopped, fileVars, diskVars, acked, made, overlapped>>
      BY <1>5 DEF GetHit
    <2>2. /\ pc' \in [Workers -> Labels] /\ req' = req /\ arrived' = arrived
          /\ pc'[w] = "io" /\ \A v \in Workers : v # w => pc'[v] = pc[v]
      BY <1>1, <2>1, GotoFacts DEF Labels
    <2>3. /\ fd'[w] = files[req[w].path] /\ fd'[w] # Absent /\ fd'[w] \in open
          /\ \A v \in Workers : v # w => fd'[v] = fd[v]
      BY <1>1, <1>2, <2>1 DEF WorkTypes, Cached, CacheOwnsOpen
    <2>4. WorkTypes'
      BY <1>1, <1>2, <2>1, <2>2 DEF WorkTypes, FdTypes
    <2>5. \A v \in Workers \ {w} : SameWork(v)
      BY <2>1, <2>2, <2>3 DEF SameWork
    <2>6. StageOK(w)' /\ HandlerInv(w)'
      <3>1. ino'[fd'[w]] \in Inodes /\ ino' = ino /\ fs' = fs
        BY <1>1, <2>1, <2>3 DEF DiskInv, fileVars, diskVars
      <3>2. req[w].path \in Fixed => ino'[fd'[w]] = fs'[req[w].path]
        BY <1>1, <2>1, <2>3, <3>1 DEF DiskInv
      <3>3. req[w].kind = "write" => fd'[w] \in rw'
        BY <2>1, <2>3 DEF NeedsUpgrade
      <3>4. seen'[w] = <<>>
        BY <1>1, <2>1 DEF HandlerInv
      <3> QED BY <2>2, <2>3, <3>1, <3>2, <3>3, <3>4 DEF StageOK, HandlerInv, Fixed
    <2> QED BY <1>0, <1>1, <2>1, <2>2, <2>4, <2>5, <2>6, MoveQuietly
            DEF fileVars, FdTypes, HistTypes
  <1>6. CASE GetFails(w)
    <2>1. /\ open' = open \ {files[req[w].path]}
          /\ files' = [files EXCEPT ![req[w].path] = Absent]
          /\ idle' = idle \ {req[w].path} /\ pc[w] = "get"
          /\ UNCHANGED <<rw, stopped, ino, pos, diskVars, acked, made, overlapped>>
      BY <1>6 DEF GetFails
    <2>2. FdTypes' /\ \A p \in Paths : files'[p] # Absent => files'[p] = files[p]
      BY <1>1, <1>2, <2>1 DEF FdTypes
    <2>3. CASE Finish(w)
      BY <1>0, <2>1, <2>2, <2>3, FinishQuietly
    <2>4. CASE Goto(w, "evict") /\ UNCHANGED <<fd, seen, node>>
      <3>1. /\ pc' \in [Workers -> Labels] /\ req' = req /\ arrived' = arrived
            /\ pc'[w] = "evict" /\ \A v \in Workers : v # w => pc'[v] = pc[v]
        BY <1>1, <2>4, GotoFacts DEF Labels
      <3>2. WorkTypes' /\ HistTypes' /\ \A v \in Workers \ {w} : SameWork(v)
        BY <1>1, <2>1, <2>4, <3>1 DEF WorkTypes, HistTypes, SameWork
      <3>3. StageOK(w)' /\ HandlerInv(w)'
        BY <1>1, <2>1, <2>4, <3>1 DEF StageOK, HandlerInv
      <3>4. /\ {w} \in SUBSET Workers /\ open' \subseteq open
            /\ \A v \in {w} : StageOK(v)' /\ HandlerInv(v)'
            /\ overlapped \subseteq overlapped' \cup {w}
        BY <2>1, <3>3
      <3> QED BY <1>0, <2>1, <2>2, <3>2, <3>4, QuietStep
    <2> QED BY <1>6, <2>3, <2>4 DEF GetFails
  <1>7. CASE WriteAtFails(w) \/ CopyEnd(w) \/ CopyFails(w)
    <2>1. PICK l \in {"evict", "hashed"} :
            /\ Goto(w, l)
            /\ l = "hashed" => CopyEnd(w)
      BY <1>7 DEF WriteAtFails, CopyEnd, CopyFails
    <2>2. UNCHANGED <<fd, seen, node, cacheVars, fileVars, diskVars, acked, made, overlapped>>
      BY <1>7 DEF WriteAtFails, CopyEnd, CopyFails
    <2>3. /\ pc' \in [Workers -> Labels] /\ req' = req /\ arrived' = arrived
          /\ pc'[w] = l /\ \A v \in Workers : v # w => pc'[v] = pc[v]
      BY <1>1, <2>1, GotoFacts DEF Labels
    <2>4. WorkTypes' /\ \A v \in Workers \ {w} : SameWork(v)
      BY <1>1, <2>2, <2>3 DEF WorkTypes, SameWork
    <2>5. l = "hashed" => /\ pc[w] = "copy" /\ ino[fd[w]] \notin dirs
                          /\ pos[fd[w]] >= Len(content[ino[fd[w]]]) /\ fd[w] \in open
      BY <2>1 DEF CopyEnd
    <2>6. ASSUME l = "hashed", Undisturbed(w)
          PROVE  seen[w] = content[ino[fd[w]]]
      <3>1. ReadSoFar(w) /\ fd[w] \in Handles /\ ino[fd[w]] \in Inodes
        BY <1>1, <2>5, <2>6 DEF HandlerInv, FdTypes, DiskInv
      <3> DEFINE c == content[ino[fd[w]]]
      <3>2. c \in Seq(Cells) /\ seen[w] \in Seq(Cells) /\ pos[fd[w]] \in Nat
        BY <1>1, <3>1 DEF WorkTypes, DiskTypes, FdTypes
      <3>3. Len(c) \in Nat /\ Len(seen[w]) \in Nat
        BY <3>2, LenProperties
      <3>4. Len(seen[w]) = Len(c) /\ \A i \in 1 .. Len(seen[w]) : seen[w][i] = c[i]
        BY <2>5, <2>6, <3>1, <3>2, <3>3 DEF ReadSoFar
      <3> HIDE DEF c
      <3>5. seen[w] = c
        BY <3>2, <3>4, SeqEqual
      <3> QED BY <3>5 DEF c
    <2>7. StageOK(w)'
      BY <1>1, <2>2, <2>3, <2>5 DEF StageOK
    <2>8. HandlerInv(w)'
      <3>1. fd' = fd /\ seen' = seen /\ ino' = ino /\ rw' = rw /\ fs' = fs
            /\ dirs' = dirs /\ content' = content /\ overlapped' = overlapped
        BY <2>2 DEF cacheVars, fileVars, diskVars
      <3>2. Undisturbed(w)' => Undisturbed(w)
        BY <2>3, <3>1 DEF Undisturbed
      <3> QED BY <1>1, <2>3, <2>5, <2>6, <3>1, <3>2 DEF HandlerInv
    <2> QED BY <1>0, <1>1, <2>2, <2>3, <2>4, <2>7, <2>8, MoveQuietly
            DEF cacheVars, fileVars, FdTypes, HistTypes
  <1>8. CASE Evict(w)
    <2>1. /\ open' = open \ {files[req[w].path]}
          /\ files' = [files EXCEPT ![req[w].path] = Absent]
          /\ idle' = idle \ {req[w].path} /\ Finish(w)
          /\ overlapped' = overlapped \ {w}
          /\ UNCHANGED <<rw, stopped, ino, pos, diskVars, acked, made>>
      BY <1>8 DEF Evict
    <2>2. FdTypes' /\ \A p \in Paths : files'[p] # Absent => files'[p] = files[p]
      BY <1>1, <1>2, <2>1 DEF FdTypes
    <2> QED BY <1>0, <2>1, <2>2, FinishQuietly
  <1>9. CASE CreateStat(w)
    <2>1. UNCHANGED <<cacheVars, fileVars, diskVars, acked, overlapped>> /\ pc[w] = "create"
      BY <1>9 DEF CreateStat
    <2>2. CASE Finish(w) /\ UNCHANGED made
      <3>1. FdTypes'
        BY <1>1, <2>1 DEF FdTypes, cacheVars, fileVars
      <3> QED BY <1>0, <2>1, <2>2, <3>1, FinishQuietly DEF cacheVars, fileVars
    <2>3. CASE /\ Goto(w, "open") /\ UNCHANGED <<fd, seen, node>>
               /\ made' = made \cup {<<req[w].path, req[w].size>>}
      <3>1. /\ pc' \in [Workers -> Labels] /\ req' = req /\ arrived' = arrived
            /\ pc'[w] = "open" /\ \A v \in Workers : v # w => pc'[v] = pc[v]
        BY <1>1, <2>3, GotoFacts DEF Labels
      <3>2. WorkTypes' /\ \A v \in Workers \ {w} : SameWork(v)
        BY <1>1, <2>3, <3>1 DEF WorkTypes, SameWork
      <3>3. StageOK(w)' /\ HandlerInv(w)'
        BY <1>1, <2>1, <2>3, <3>1 DEF StageOK, HandlerInv
      <3>4. made' \subseteq Paths \X (Sizes \cup {0})
        BY <1>1, <1>2, <2>3, RequestFacts DEF HistTypes
      <3> QED BY <1>0, <1>1, <2>1, <2>3, <3>1, <3>2, <3>3, <3>4, MoveQuietly
              DEF cacheVars, fileVars, FdTypes, HistTypes
    <2> QED BY <1>9, <2>2, <2>3 DEF CreateStat
  <1>10. ASSUME NEW v \in Workers \ {w}, pc[v] = "copy",
                v \notin overlapped \cup Sharing(w)
         PROVE  fd[v] \in Handles /\ fd[v] # fd[w]
    <2>1. StageOK(v)
      BY TypeParts DEF FilesInv
    <2> QED BY <1>1, <1>10, <2>1 DEF WorkTypes, StageOK, Sharing
  <1>11. Sharing(w) \subseteq Workers
    BY DEF Sharing
  <1>12. CASE Seek(w)
    <2>1. /\ pc[w] = "io" /\ req[w].kind = "hash"
          /\ UNCHANGED <<fd, seen, node, cacheVars, open, ino, diskVars, acked, made>>
      BY <1>12 DEF Seek
    <2>2. PICK l \in {"copy", "evict"} : Goto(w, l)
      BY <1>12 DEF Seek
    <2>3. /\ pc' \in [Workers -> Labels] /\ req' = req /\ arrived' = arrived
          /\ pc'[w] = l /\ \A v \in Workers : v # w => pc'[v] = pc[v]
      BY <1>1, <2>2, GotoFacts DEF Labels
    <2>4. WorkTypes' /\ \A v \in Workers \ {w} : SameWork(v)
      BY <1>1, <2>1, <2>3 DEF WorkTypes, SameWork
    <2>5. fd[w] \in Handles /\ ino[fd[w]] \in Inodes /\ seen[w] = <<>>
      BY <1>1, <2>1 DEF StageOK, WorkTypes, HandlerInv
    <2>6. CASE pos' = [pos EXCEPT ![fd[w]] = 0] /\ overlapped' = overlapped \cup Sharing(w)
      <3>1. pos' \in [Handles -> Nat] /\ pos'[fd[w]] = 0
        BY <1>1, <2>5, <2>6 DEF FdTypes
      <3>2. \A v \in Workers \ {w} : pc[v] = "copy" /\ v \notin overlapped' =>
              pos'[fd[v]] = pos[fd[v]]
        BY <1>1, <1>10, <2>6 DEF FdTypes
      <3>3. ReadSoFar(w)'
        <4>1. content[ino[fd[w]]] \in Seq(Cells)
          BY <1>1, <2>5 DEF DiskTypes
        <4>2. Len(content[ino[fd[w]]]) \in Nat
          BY <4>1, LenProperties
        <4>3. seen'[w] = <<>> /\ fd' = fd /\ ino' = ino /\ content' = content
          BY <2>1, <2>5 DEF diskVars
        <4>4. Len(seen'[w]) = 0
          BY <4>3
        <4> QED BY <3>1, <4>2, <4>3, <4>4 DEF ReadSoFar
      <3>4. StageOK(w)'
        BY <1>1, <2>1, <2>3 DEF StageOK
      <3>5. HandlerInv(w)'
        <4>1. fd' = fd /\ ino' = ino /\ fs' = fs
          BY <2>1 DEF diskVars
        <4> QED BY <1>1, <2>1, <2>3, <3>3, <4>1 DEF HandlerInv
      <3> QED BY <1>0, <1>1, <1>11, <2>1, <2>3, <2>4, <2>6, <3>1, <3>2, <3>4, <3>5,
                 MoveQuietly DEF cacheVars, FdTypes, HistTypes
    <2>7. CASE l = "evict" /\ UNCHANGED <<pos, overlapped>>
      <3>1. StageOK(w)'
        BY <2>3, <2>7 DEF StageOK
      <3>2. HandlerInv(w)'
        BY <1>1, <2>1, <2>3, <2>7 DEF HandlerInv, diskVars
      <3> QED BY <1>0, <1>1, <2>1, <2>3, <2>4, <2>7, <3>1, <3>2, MoveQuietly
              DEF cacheVars, FdTypes, HistTypes
    <2>8. \/ pos' = [pos EXCEPT ![fd[w]] = 0] /\ overlapped' = overlapped \cup Sharing(w)
          \/ l = "evict" /\ UNCHANGED <<pos, overlapped>>
      <3>1. \/ pos' = [pos EXCEPT ![fd[w]] = 0] /\ overlapped' = overlapped \cup Sharing(w)
            \/ Goto(w, "evict") /\ UNCHANGED <<pos, overlapped>>
        BY <1>12 DEF Seek
      <3>2. Goto(w, "evict") => pc'[w] = "evict"
        BY <1>1, GotoFacts DEF Labels
      <3> QED BY <2>3, <3>1, <3>2
    <2> QED BY <2>6, <2>7, <2>8
  <1>13. CASE CopyRead(w)
    <2> DEFINE h == fd[w]
               c == content[ino[fd[w]]]
    <2>1. /\ pc[w] = "copy" /\ h \in open /\ pos[h] < Len(c)
          /\ seen' = [seen EXCEPT ![w] = Append(@, c[pos[h] + 1])]
          /\ pos' = [pos EXCEPT ![h] = @ + 1]
          /\ overlapped' = overlapped \cup Sharing(w)
          /\ UNCHANGED <<pc, req, fd, node, cacheVars, open, ino, diskVars, arrived, acked, made>>
      BY <1>13 DEF CopyRead
    <2>2. h \in Handles /\ ino[h] \in Inodes /\ pos[h] \in Nat
      BY <1>1, <2>1 DEF FdTypes, DiskInv
    <2>3. c \in Seq(Cells) /\ seen[w] \in Seq(Cells)
      BY <1>1, <2>2 DEF DiskTypes, WorkTypes
    <2>4. Len(c) \in Nat /\ Len(seen[w]) \in Nat /\ \A i \in 1 .. Len(c) : c[i] \in Cells
      BY <2>3, LenProperties, ElementOfSeq
    <2>5. c[pos[h] + 1] \in Cells
      <3>1. pos[h] + 1 \in 1 .. Len(c)
        BY <2>1, <2>2, <2>4
      <3> QED BY <2>4, <3>1
    <2>6. /\ Append(seen[w], c[pos[h] + 1]) \in Seq(Cells)
          /\ Len(Append(seen[w], c[pos[h] + 1])) = Len(seen[w]) + 1
          /\ Append(seen[w], c[pos[h] + 1])[Len(seen[w]) + 1] = c[pos[h] + 1]
          /\ \A i \in 1 .. Len(seen[w]) : Append(seen[w], c[pos[h] + 1])[i] = seen[w][i]
      <3> HIDE DEF h, c
      <3> QED BY <2>3, <2>5, AppendProperties
    <2>7. seen'[w] = Append(seen[w], c[pos[h] + 1])
      BY <1>1, <2>1 DEF WorkTypes
    <2>8. WorkTypes' /\ \A v \in Workers \ {w} : SameWork(v)
      BY <1>1, <2>1, <2>6 DEF WorkTypes, SameWork
    <2>9. pos' \in [Handles -> Nat] /\ pos'[h] = pos[h] + 1
      BY <1>1, <2>1, <2>2 DEF FdTypes
    <2>10. \A v \in Workers \ {w} : pc[v] = "copy" /\ v \notin overlapped' =>
             pos'[fd[v]] = pos[fd[v]]
      BY <1>1, <1>10, <2>1 DEF FdTypes
    <2>11. StageOK(w)'
      BY <1>1, <2>1 DEF StageOK, diskVars
    <2>12. ASSUME Undisturbed(w)'
           PROVE  ReadSoFar(w)'
      <3>1. ReadSoFar(w)
        BY <1>1, <2>1, <2>12 DEF HandlerInv, Undisturbed
      <3>2. /\ Len(seen[w]) = pos[h] /\ pos[h] <= Len(c)
            /\ \A i \in 1 .. Len(seen[w]) : seen[w][i] = c[i]
        BY <3>1 DEF ReadSoFar
      <3>3. /\ Len(seen'[w]) = pos'[h] /\ pos'[h] <= Len(c)
        BY <2>1, <2>2, <2>4, <2>6, <2>7, <2>9, <3>2
      <3>4. ASSUME NEW i \in 1 .. Len(seen'[w])
            PROVE  seen'[w][i] = c[i]
        <4>1. i \in 1 .. Len(seen[w]) \/ i = Len(seen[w]) + 1
          BY <2>4, <2>6, <2>7
        <4> QED BY <2>6, <2>7, <3>2, <4>1
      <3>5. fd' = fd /\ ino' = ino /\ content' = content
        BY <2>1 DEF diskVars
      <3> QED BY <3>3, <3>4, <3>5 DEF ReadSoFar
    <2>13. HandlerInv(w)'
      <3>1. UNCHANGED <<pc, req, fd, ino, rw, fs>>
        BY <2>1 DEF diskVars, cacheVars
      <3> QED BY <1>1, <2>1, <2>12, <3>1 DEF HandlerInv
    <2> QED BY <1>0, <1>1, <1>11, <2>1, <2>8, <2>9, <2>10, <2>11, <2>13, MoveQuietly
            DEF cacheVars, FdTypes, HistTypes
  <1> QED BY <1>3, <1>4, <1>5, <1>6, <1>7, <1>8, <1>9, <1>12, <1>13

\* A step of w that leaves the others calm.
LEMMA Compose ==
  ASSUME FilesInv, NEW w \in Workers, CacheInv', DiskInv', AckedIsStored',
         WorkTypes', FdTypes', DiskTypes', HistTypes',
         \A v \in Workers \ {w} : Calm(v),
         \A v \in Workers : pc[v] = "trunc" /\ node[v] \in dirs' => node[v] \in dirs,
         StageOK(w)', HandlerInv(w)'
  PROVE  FilesInv'
  <1>1. \A v \in Workers : StageOK(v) /\ HandlerInv(v)
    BY TypeParts DEF FilesInv
  <1>2. \A v \in Workers : HandlerInv(v)'
    BY <1>1, CalmHandler
  <1>3. \A v \in Workers : StageOK(v)'
    BY <1>1 DEF StageOK, Calm, SameWork
  <1>4. TypeOK'
    BY <1>3 DEF TypeOK, WorkTypes, FdTypes, DiskTypes, HistTypes, StageOK, Labels, Cells
  <1> QED BY <1>2, <1>4 DEF FilesInv

\* get opens a file, closing the read-only descriptor on an upgrade.
LEMMA GetOpenStep ==
  ASSUME FilesInv, [Next]_vars, NEW w \in Workers, GetOpen(w)
  PROVE  FilesInv'
  <1>0. CacheInv'
    BY CacheStep DEF FilesInv
  <1>1. /\ WorkTypes /\ FdTypes /\ DiskTypes /\ HistTypes
        /\ StageOK(w) /\ HandlerInv(w) /\ DiskInv /\ AckedIsStored
    BY TypeParts DEF FilesInv
  <1> DEFINE p == req[w].path
  <1>2. p \in Paths /\ req[w].kind \in Kinds
    BY <1>1, RequestFacts
  <1>3. PICK h \in Handles :
          /\ Unused(h)
          /\ files' = [files EXCEPT ![p] = h]
          /\ rw' = IF req[w].kind = "write" THEN rw \cup {h} ELSE rw \ {h}
          /\ open' = (open \ {files[p]}) \cup {h}
          /\ ino' = [ino EXCEPT ![h] = fs[p]]
          /\ pos' = [pos EXCEPT ![h] = 0]
          /\ fd' = [fd EXCEPT ![w] = h]
    BY DEF GetOpen, Fresh
  <1>4. /\ pc[w] = "get" /\ CanOpen(w) /\ idle' = idle \ {p} /\ Goto(w, "io")
        /\ UNCHANGED <<seen, node, stopped, diskVars, acked, made, overlapped>>
    BY DEF GetOpen
  <1>5. /\ pc' \in [Workers -> Labels] /\ req' = req /\ arrived' = arrived
        /\ pc'[w] = "io" /\ \A v \in Workers : v # w => pc'[v] = pc[v]
    BY <1>1, <1>4, GotoFacts DEF Labels
  <1>6. /\ fs[p] \in Inodes /\ (req[w].kind = "write" => fs[p] \notin dirs)
    BY <1>1, <1>2, <1>4 DEF CanOpen, IsFile, DiskTypes
  <1>7. /\ h # Absent /\ h \notin open
        /\ \A v \in Workers : fd[v] # h
        /\ \A q \in Paths : files[q] # h
    BY <1>3, AbsentIsNoHandle DEF Unused
  <1>8. fs' = fs /\ dirs' = dirs /\ content' = content
    BY <1>4 DEF diskVars
  <1> HIDE DEF p
  <1>9. /\ fd'[w] = h /\ \A v \in Workers : v # w => fd'[v] = fd[v]
        /\ files'[p] = h /\ \A q \in Paths : q # p => files'[q] = files[q]
        /\ ino'[h] = fs[p] /\ \A g \in Handles : g # h => ino'[g] = ino[g] /\ pos'[g] = pos[g]
    BY <1>1, <1>2, <1>3 DEF WorkTypes, FdTypes
  <1>10. WorkTypes'
    BY <1>1, <1>3, <1>4, <1>5 DEF WorkTypes
  <1>11. FdTypes'
    <2>1. fs[p] \in Inodes \cup {Absent}
      BY <1>6
    <2> QED BY <1>1, <1>2, <1>3, <1>4, <2>1 DEF FdTypes
  <1>12. DiskTypes' /\ HistTypes'
    BY <1>1, <1>4, <1>5, <1>8 DEF DiskTypes, HistTypes
  <1>13. DiskInv'
    <2>1. \A g \in open' : g = h \/ (g \in open /\ g # h /\ ino'[g] = ino[g])
      BY <1>1, <1>3, <1>7, <1>9 DEF FdTypes
    <2>2. \A g \in open' : ino'[g] \in Inodes
      BY <1>1, <1>6, <1>9, <2>1 DEF DiskInv
    <2>3. \A q \in Fixed : files'[q] # Absent => ino'[files'[q]] = fs'[q]
      <3> SUFFICES ASSUME NEW q \in Fixed, q # p, files[q] # Absent
                   PROVE  ino'[files[q]] = fs[q]
        BY <1>8, <1>9 DEF Fixed
      <3>1. q \in Paths /\ files[q] \in Handles /\ files[q] # h
        BY <1>1, <1>7 DEF FdTypes, Fixed
      <3> QED BY <1>1, <1>9, <3>1 DEF DiskInv, Cached
    <2>4. \A g \in open' \cap rw' : ino'[g] \notin dirs'
      BY <1>1, <1>3, <1>6, <1>8, <1>9, <2>1 DEF DiskInv
    <2> QED BY <1>1, <1>8, <2>2, <2>3, <2>4 DEF DiskInv, Cached
  <1>14. AckedIsStored'
    BY <1>1, <1>4, <1>8, SparedBefore DEF AckedIsStored, IsFile
  <1>15. ASSUME NEW v \in Workers \ {w}
         PROVE  Calm(v)
    <2>1. SameWork(v)
      BY <1>4, <1>5, <1>9 DEF SameWork
    <2>2. fd[v] # Absent => fd[v] \in Handles /\ fd[v] # h
      BY <1>1, <1>7 DEF WorkTypes
    <2> QED BY <1>3, <1>4, <1>8, <1>9, <2>1, <2>2 DEF Calm
  <1>16. StageOK(w)'
    BY <1>5, <1>7, <1>9 DEF StageOK
  <1>17. HandlerInv(w)'
    <2>1. seen'[w] = <<>>
      BY <1>1, <1>4 DEF HandlerInv
    <2>2. req[w].kind = "write" => h \in rw'
      BY <1>3
    <2>3. req'[w].path \in Fixed => ino'[fd'[w]] = fs'[req'[w].path]
      BY <1>5, <1>8, <1>9 DEF p
    <2> QED BY <1>5, <1>6, <1>9, <2>1, <2>2, <2>3 DEF HandlerInv
  <1> QED BY <1>0, <1>8, <1>10, <1>11, <1>12, <1>13, <1>14, <1>15, <1>16, <1>17, Compose

\* The blocks of one inode change: a write or a truncate.
LEMMA BlocksStep ==
  ASSUME FilesInv, CacheInv', NEW w \in Workers, Finish(w), NEW i \in Inodes,
         NEW s \in Seq(Cells), content' = [content EXCEPT ![i] = s],
         overlapped' = overlapped \cup Hashing(i),
         UNCHANGED <<cacheVars, fileVars, fs, dirs, made>>,
         acked' \subseteq Paths \X (1 .. Blocks), AckedIsStored'
  PROVE  FilesInv'
  <1>1. /\ WorkTypes /\ FdTypes /\ DiskTypes /\ HistTypes /\ DiskInv
    BY TypeParts DEF FilesInv
  <1>2. /\ WorkTypes' /\ arrived' = arrived
        /\ pc'[w] = "idle" /\ fd'[w] = Absent /\ seen'[w] = <<>>
        /\ \A v \in Workers \ {w} : SameWork(v)
    BY <1>1, FinishFacts DEF SameWork
  <1>3. StageOK(w)' /\ HandlerInv(w)'
    BY <1>2, IdleHandler
  <1>4. FdTypes' /\ DiskTypes' /\ HistTypes' /\ DiskInv'
    <2>1. DiskTypes'
      BY <1>1 DEF DiskTypes
    <2>2. HistTypes'
      BY <1>1, <1>2 DEF HistTypes, Hashing
    <2> QED BY <1>1, <2>1, <2>2 DEF FdTypes, DiskInv, Cached, cacheVars, fileVars
  <1>5. ASSUME NEW v \in Workers \ {w}
        PROVE  Calm(v)
    <2>1. ino' = ino /\ pos' = pos /\ rw' = rw /\ fs' = fs /\ dirs' = dirs
      BY DEF cacheVars, fileVars
    <2>2. fd[v] # Absent => ino[fd[v]] \in Inodes
      BY DEF FilesInv, HandlerInv
    <2>3. fd[v] # Absent /\ req[v].kind = "hash" /\ v \notin overlapped' => ino[fd[v]] # i
      BY DEF Hashing
    <2>4. \A j \in Inodes : j # i => content'[j] = content[j]
      BY <1>1 DEF DiskTypes
    <2> QED BY <1>2, <2>1, <2>2, <2>3, <2>4 DEF Calm
  <1> QED BY <1>2, <1>3, <1>4, <1>5, Compose

\* A write: the block is acknowledged, and the hashes of the file disturbed.
LEMMA WriteAtStep ==
  ASSUME FilesInv, [Next]_vars, NEW w \in Workers, WriteAt(w)
  PROVE  FilesInv'
  <1>0. CacheInv'
    BY CacheStep DEF FilesInv
  <1>1. /\ WorkTypes /\ FdTypes /\ DiskTypes /\ HistTypes
        /\ StageOK(w) /\ HandlerInv(w) /\ DiskInv /\ AckedIsStored
    BY TypeParts DEF FilesInv
  <1> DEFINE p == req[w].path
             b == req[w].block
             i == ino[fd[w]]
             s == WriteBlock(content[i], b)
  <1>2. p \in Paths /\ b \in 1 .. Blocks /\ b \in Nat \ {0}
    BY <1>1, RequestFacts
  <1>3. /\ pc[w] = "io" /\ req[w].kind = "write" /\ fd[w] \in open /\ Finish(w)
        /\ acked' = acked \cup {<<p, b>>}
        /\ overlapped' = overlapped \cup Hashing(i)
        /\ UNCHANGED <<cacheVars, fileVars, fs, dirs, made>>
    BY DEF WriteAt
  <1>4. /\ i \in Inodes /\ i \notin dirs /\ (p \in Fixed => i = fs[p])
        /\ content[i] \in Seq(Cells) /\ fd[w] # Absent
    BY <1>1, <1>3 DEF DiskInv, HandlerInv, DiskTypes, StageOK
  <1>5. content' = [content EXCEPT ![i] = s]
    BY DEF WriteAt
  <1>6. /\ s \in Seq(Cells) /\ Len(s) \in Nat /\ Len(s) >= Len(content[i]) /\ Len(s) >= b
        /\ s[b] = Data
        /\ \A j \in 1 .. Len(content[i]) : content[i][j] = Data => s[j] = Data
    BY <1>2, <1>4, WriteFacts
  <1>7. content'[i] = s /\ \A j \in Inodes : j # i => content'[j] = content[j]
    BY <1>1, <1>4, <1>5 DEF DiskTypes
  <1>8. Len(content[i]) \in Nat
    BY <1>4, LenProperties
  <1>9. AckedIsStored'
    <2> SUFFICES ASSUME NEW a \in acked', a[1] \notin Removable,
                        Spared(a[1], a[2])
                 PROVE  /\ fs[a[1]] # Absent /\ fs[a[1]] \notin dirs
                        /\ Len(content'[fs[a[1]]]) >= a[2]
                        /\ content'[fs[a[1]]][a[2]] = Data
      BY <1>3, SparedBefore DEF AckedIsStored, IsFile
    <2>1. CASE a \in acked
      <3>1. /\ fs[a[1]] # Absent /\ fs[a[1]] \notin dirs
            /\ Len(content[fs[a[1]]]) >= a[2] /\ content[fs[a[1]]][a[2]] = Data
        BY <1>1, <2>1 DEF AckedIsStored, IsFile
      <3>2. a[1] \in Paths /\ a[2] \in 1 .. Blocks /\ Blocks \in Nat
        BY <1>1, <2>1, FilesAssumption DEF HistTypes
      <3>3. fs[a[1]] \in Inodes
        BY <1>1, <3>1, <3>2 DEF DiskTypes
      <3>4. CASE fs[a[1]] = i
        <4>1. a[2] \in 1 .. Len(content[i])
          BY <1>8, <3>1, <3>2, <3>4
        <4>2. s[a[2]] = Data
          BY <1>6, <3>1, <3>4, <4>1
        <4>3. Len(s) >= a[2]
          BY <1>6, <1>8, <3>1, <3>2, <3>4
        <4> QED BY <1>7, <3>1, <3>4, <4>2, <4>3
      <3>5. CASE fs[a[1]] # i
        BY <1>7, <3>1, <3>3, <3>5
      <3> QED BY <3>4, <3>5
    <2>2. CASE a = <<p, b>>
      <3>1. a[1] = p /\ a[2] = b /\ p \in Fixed
        BY <1>2, <2>2 DEF Fixed
      <3>2. fs[p] = i
        BY <1>4, <3>1
      <3> QED BY <1>4, <1>6, <1>7, <3>1, <3>2, AbsentIsNoInode
    <2> QED BY <1>3, <2>1, <2>2
  <1>10. acked' \subseteq Paths \X (1 .. Blocks)
    BY <1>1, <1>2, <1>3 DEF HistTypes
  <1> HIDE DEF p, b, i, s
  <1> QED BY <1>0, <1>3, <1>4, <1>5, <1>6, <1>9, <1>10, BlocksStep

\* A path that had no inode gets an unused one, for a file or a directory.
LEMMA NewInode ==
  ASSUME FilesInv, CacheInv', NEW w \in Workers, NEW p \in Paths,
         NEW i \in Inodes, fs[p] = Absent, fs' = [fs EXCEPT ![p] = i],
         \A q \in Paths : fs[q] # i, \A h \in open : ino[h] # i,
         \A v \in Workers : node[v] # i,
         \/ dirs' = dirs /\ content' = [content EXCEPT ![i] = <<>>]
         \/ dirs' = dirs \cup {i} /\ content' = content,
         UNCHANGED <<cacheVars, fileVars, acked, made, overlapped, arrived>>,
         WorkTypes', \A v \in Workers \ {w} : SameWork(v),
         StageOK(w)', HandlerInv(w)'
  PROVE  FilesInv'
  <1>1. /\ WorkTypes /\ FdTypes /\ DiskTypes /\ HistTypes /\ DiskInv
        /\ AckedIsStored /\ CacheOwnsOpen
    BY TypeParts DEF FilesInv, CacheInv
  <1>2. /\ \A q \in Paths : q # p => fs'[q] = fs[q]
        /\ \A j \in Inodes : j # i => content'[j] = content[j]
        /\ \A j \in dirs' : j # i => j \in dirs
        /\ dirs \subseteq dirs' /\ fs'[p] = i
    BY <1>1 DEF DiskTypes
  <1>3. /\ files' = files /\ rw' = rw /\ open' = open /\ ino' = ino /\ pos' = pos
        /\ idle' = idle /\ stopped' = stopped
    BY DEF cacheVars, fileVars
  <1>4. \A q \in Paths : files[q] # Absent => files[q] \in open
    BY <1>1 DEF CacheOwnsOpen, Cached
  <1>5. DiskTypes'
    <2>1. <<>> \in Seq(Cells)
      BY EmptySeq
    <2>2. content' \in [Inodes -> Seq(Cells)]
      BY <1>1, <2>1 DEF DiskTypes
    <2> QED BY <1>1, <2>2 DEF DiskTypes
  <1>6. DiskInv'
    <2>1. ASSUME NEW q \in Fixed, files[q] # Absent
          PROVE  ino[files[q]] = fs'[q]
      <3>1. q \in Paths /\ ino[files[q]] \in Inodes /\ ino[files[q]] = fs[q]
        BY <1>1, <1>4, <2>1 DEF DiskInv, Cached, Fixed
      <3> QED BY <1>2, <3>1, AbsentIsNoInode
    <2>2. ASSUME NEW d \in dirs'
          PROVE  \E q \in Paths : fs'[q] = d
      <3>1. CASE d = i
        BY <1>2, <3>1
      <3>2. CASE d # i
        <4>1. d \in Inodes /\ \E q \in Paths : fs[q] = d
          BY <1>1, <1>2, <2>2, <3>2 DEF DiskInv, DiskTypes
        <4> QED BY <1>2, <4>1, AbsentIsNoInode
      <3> QED BY <3>1, <3>2
    <2>3. \A h \in open \cap rw : ino[h] \notin dirs'
      BY <1>1, <1>2 DEF DiskInv
    <2>4. \A q, u \in Paths : fs'[q] # Absent /\ fs'[q] = fs'[u] => q = u
      BY <1>1, <1>2 DEF DiskInv
    <2> QED BY <1>1, <1>3, <2>1, <2>2, <2>3, <2>4 DEF DiskInv, Cached
  <1>7. AckedIsStored'
    <2> SUFFICES ASSUME NEW a \in acked, a[1] \notin Removable,
                        Spared(a[1], a[2])
                 PROVE  /\ fs'[a[1]] # Absent /\ fs'[a[1]] \notin dirs'
                        /\ Len(content'[fs'[a[1]]]) >= a[2]
                        /\ content'[fs'[a[1]]][a[2]] = Data
      BY SparedBefore DEF AckedIsStored, IsFile
    <2>1. /\ fs[a[1]] # Absent /\ fs[a[1]] \notin dirs
          /\ Len(content[fs[a[1]]]) >= a[2] /\ content[fs[a[1]]][a[2]] = Data
      BY <1>1 DEF AckedIsStored, IsFile
    <2>2. a[1] \in Paths /\ fs[a[1]] \in Inodes
      BY <1>1, <2>1 DEF HistTypes, DiskTypes
    <2>3. fs'[a[1]] = fs[a[1]] /\ fs[a[1]] # i
      BY <1>2, <2>1, <2>2
    <2> QED BY <1>2, <2>1, <2>2, <2>3
  <1>8. ASSUME NEW v \in Workers \ {w}
        PROVE  Calm(v)
    <2>1. ASSUME fd[v] # Absent, req[v].path \in Fixed
          PROVE  /\ ino[fd[v]] \in Inodes /\ ino[fd[v]] # i
                 /\ fs'[req[v].path] = fs[req[v].path]
      <3>1. /\ ino[fd[v]] \in Inodes /\ ino[fd[v]] = fs[req[v].path]
            /\ req[v].path \in Paths
        BY <2>1 DEF FilesInv, HandlerInv, Fixed
      <3> QED BY <1>2, <3>1, AbsentIsNoInode
    <2>2. \A q \in Paths : fs'[q] = node[v] => fs[q] = node[v]
      BY <1>2
    <2> QED BY <1>2, <1>3, <2>1, <2>2 DEF Calm
  <1>9. FdTypes' /\ HistTypes'
    BY <1>1, <1>3 DEF FdTypes, HistTypes
  <1>10. \A v \in Workers : pc[v] = "trunc" /\ node[v] \in dirs' => node[v] \in dirs
    BY <1>2
  <1> QED BY <1>5, <1>6, <1>7, <1>8, <1>9, <1>10, Compose

\* A directory is made, at a path that had no file.
LEMMA MkdirStep ==
  ASSUME FilesInv, [Next]_vars, NEW w \in Workers, Mkdir(w)
  PROVE  FilesInv'
  <1>0. CacheInv' /\ CacheOwnsOpen
    BY CacheStep DEF FilesInv, CacheInv
  <1>1. WorkTypes /\ FdTypes
    BY TypeParts DEF FilesInv
  <1>2. Finish(w) /\ UNCHANGED <<cacheVars, fileVars, content, acked, made, overlapped>>
    BY DEF Mkdir
  <1>3. CASE UNCHANGED <<fs, dirs>>
    <2>1. FdTypes'
      BY <1>1, <1>2 DEF FdTypes, cacheVars, fileVars
    <2> QED BY <1>0, <1>2, <1>3, <2>1, FinishQuietly DEF cacheVars, fileVars, diskVars
  <1>4. CASE /\ fs[req[w].path] = Absent
             /\ fs' = [fs EXCEPT ![req[w].path] = FreshInode]
             /\ dirs' = dirs \cup {FreshInode}
    <2>1. PICK i : i = FreshInode
      OBVIOUS
    <2>2. /\ i \in Inodes /\ \A q \in Paths : fs[q] # i
          /\ \A h \in open : ino[h] # i /\ \A v \in Workers : node[v] # i
      BY <1>0, <2>1, FreshInodeExists
    <2>3. PICK p \in Paths : p = req[w].path
      BY <1>1, RequestFacts
    <2>4. /\ WorkTypes' /\ arrived' = arrived
          /\ pc'[w] = "idle" /\ fd'[w] = Absent /\ seen'[w] = <<>>
          /\ \A v \in Workers \ {w} : SameWork(v)
      BY <1>1, <1>2, FinishFacts DEF SameWork
    <2>5. StageOK(w)' /\ HandlerInv(w)'
      BY <2>4, IdleHandler
    <2>6. /\ fs[p] = Absent /\ fs' = [fs EXCEPT ![p] = i] /\ dirs' = dirs \cup {i}
      BY <1>4, <2>1, <2>3
    <2>7. \A v \in Workers : node[v] # i
      BY <1>0, <2>1, FreshInodeExists
    <2> QED BY <1>0, <1>2, <2>2, <2>4, <2>5, <2>6, <2>7, NewInode
  <1> QED BY <1>3, <1>4 DEF Mkdir

\* create opens the file, with a new inode if there was none.
LEMMA CreateOpenStep ==
  ASSUME FilesInv, [Next]_vars, NEW w \in Workers, CreateOpen(w)
  PROVE  FilesInv'
  <1>0. CacheInv' /\ CacheOwnsOpen
    BY CacheStep DEF FilesInv, CacheInv
  <1>1. /\ WorkTypes /\ FdTypes /\ DiskTypes /\ HistTypes /\ HandlerInv(w)
    BY TypeParts DEF FilesInv
  <1>2. pc[w] = "open" /\ UNCHANGED <<cacheVars, fileVars, acked, made, overlapped>>
    BY DEF CreateOpen
  <1>3. PICK p \in Paths : p = req[w].path
    BY <1>1, RequestFacts
  <1>4. ASSUME NEW i \in Inodes, i \notin dirs', node' = [node EXCEPT ![w] = i],
               \A q \in Paths : fs'[q] = i => q = p,
               Goto(w, "trunc"), UNCHANGED <<fd, seen>>
        PROVE  /\ WorkTypes' /\ arrived' = arrived /\ StageOK(w)' /\ HandlerInv(w)'
               /\ \A v \in Workers \ {w} : SameWork(v)
    <2>1. /\ pc' \in [Workers -> Labels] /\ req' = req /\ arrived' = arrived
          /\ pc'[w] = "trunc" /\ \A v \in Workers : v # w => pc'[v] = pc[v]
      BY <1>1, <1>4, GotoFacts DEF Labels
    <2>2. /\ WorkTypes' /\ \A v \in Workers \ {w} : SameWork(v)
      BY <1>1, <1>4, <2>1 DEF WorkTypes, SameWork
    <2>3. node'[w] = i /\ fd'[w] = Absent /\ seen'[w] = <<>>
      BY <1>1, <1>2, <1>4 DEF WorkTypes, HandlerInv
    <2>4. <<req'[w].path, req'[w].size>> \in made'
      BY <1>1, <1>2, <2>1 DEF HandlerInv
    <2> QED BY <1>3, <1>4, <2>1, <2>2, <2>3, <2>4 DEF StageOK, HandlerInv
  <1>5. CASE /\ fs[p] = Absent /\ fs' = [fs EXCEPT ![p] = FreshInode]
             /\ content' = [content EXCEPT ![FreshInode] = <<>>]
             /\ node' = [node EXCEPT ![w] = FreshInode]
             /\ Goto(w, "trunc") /\ UNCHANGED <<fd, seen, dirs>>
    <2>1. PICK i : i = FreshInode
      OBVIOUS
    <2>2. /\ i \in Inodes /\ \A q \in Paths : fs[q] # i
          /\ \A h \in open : ino[h] # i
      BY <1>0, <2>1, FreshInodeExists
    <2>3. \A v \in Workers : node[v] # i
      BY <1>0, <2>1, FreshInodeExists
    <2>4. i \notin dirs' /\ dirs' = dirs
      BY <1>5, <2>2 DEF FilesInv, DiskInv
    <2>5. /\ fs[p] = Absent /\ fs' = [fs EXCEPT ![p] = i]
          /\ content' = [content EXCEPT ![i] = <<>>]
          /\ node' = [node EXCEPT ![w] = i] /\ Goto(w, "trunc") /\ UNCHANGED <<fd, seen>>
      BY <1>5, <2>1
    <2>6. \A q \in Paths : fs'[q] = i => q = p
      BY <1>1, <2>2, <2>5 DEF DiskTypes
    <2>7. /\ WorkTypes' /\ arrived' = arrived /\ StageOK(w)' /\ HandlerInv(w)'
          /\ \A v \in Workers \ {w} : SameWork(v)
      BY <1>4, <2>2, <2>4, <2>5, <2>6
    <2> QED BY <1>0, <1>2, <2>2, <2>3, <2>4, <2>5, <2>7, NewInode
  <1>6. CASE /\ IsFile(p) /\ node' = [node EXCEPT ![w] = fs[p]]
             /\ Goto(w, "trunc") /\ UNCHANGED <<fd, seen, diskVars>>
    <2>1. PICK i \in Inodes : i = fs[p] /\ i \notin dirs
      BY <1>1, <1>6 DEF IsFile, DiskTypes
    <2>2. i \notin dirs' /\ node' = [node EXCEPT ![w] = i]
      BY <1>6, <2>1 DEF diskVars
    <2>3. \A q \in Paths : fs'[q] = i => q = p
      BY <1>6, <2>1, AbsentIsNoInode DEF FilesInv, DiskInv, diskVars
    <2>4. /\ WorkTypes' /\ arrived' = arrived /\ StageOK(w)' /\ HandlerInv(w)'
          /\ \A v \in Workers \ {w} : SameWork(v)
      BY <1>4, <1>6, <2>2, <2>3
    <2> QED BY <1>0, <1>1, <1>2, <1>6, <2>4, MoveQuietly
            DEF cacheVars, fileVars, FdTypes, HistTypes
  <1>7. CASE Finish(w) /\ UNCHANGED diskVars
    <2>1. FdTypes'
      BY <1>1, <1>2 DEF FdTypes, cacheVars, fileVars
    <2> QED BY <1>0, <1>2, <1>7, <2>1, FinishQuietly DEF cacheVars, fileVars
  <1> QED BY <1>3, <1>5, <1>6, <1>7 DEF CreateOpen

\* create truncates a new file to its size.
LEMMA CreateTruncateStep ==
  ASSUME FilesInv, [Next]_vars, NEW w \in Workers, CreateTruncate(w)
  PROVE  FilesInv'
  <1>0. CacheInv'
    BY CacheStep DEF FilesInv
  <1>1. /\ WorkTypes /\ FdTypes /\ DiskTypes /\ HistTypes /\ StageOK(w)
        /\ AckedIsStored /\ HandlerInv(w) /\ DiskInv
    BY TypeParts DEF FilesInv
  <1>2. /\ pc[w] = "trunc" /\ Finish(w)
        /\ UNCHANGED <<cacheVars, fileVars, fs, dirs, acked, made>>
    BY DEF CreateTruncate
  <1>3. CASE UNCHANGED <<content, overlapped>>
    <2>1. FdTypes'
      BY <1>1, <1>2 DEF FdTypes, cacheVars, fileVars
    <2> QED BY <1>0, <1>2, <1>3, <2>1, FinishQuietly DEF cacheVars, fileVars, diskVars
  <1>4. CASE /\ req[w].size > 0
             /\ content' = [content EXCEPT ![node[w]] = Resize(@, req[w].size)]
             /\ overlapped' = overlapped \cup Hashing(node[w])
    <2>1. PICK i \in Inodes : i = node[w]
      BY <1>1, <1>2 DEF StageOK
    <2>2. PICK s, n : s = Resize(content[i], n) /\ n = req[w].size
      OBVIOUS
    <2>3. content[i] \in Seq(Cells) /\ n \in Nat
      BY <1>1, <2>2, RequestFacts DEF DiskTypes
    <2>4. /\ s \in Seq(Cells) /\ Len(s) = n
          /\ \A b \in 1 .. n : b <= Len(content[i]) => s[b] = content[i][b]
      BY <2>2, <2>3, ResizeFacts
    <2>5. content' = [content EXCEPT ![i] = s] /\ overlapped' = overlapped \cup Hashing(i)
      BY <1>4, <2>1, <2>2
    <2>6. content'[i] = s /\ \A j \in Inodes : j # i => content'[j] = content[j]
      BY <1>1, <2>5 DEF DiskTypes
    <2>7. AckedIsStored'
      <3> SUFFICES ASSUME NEW a \in acked, a[1] \notin Removable,
                          Spared(a[1], a[2])
                   PROVE  /\ fs[a[1]] # Absent /\ fs[a[1]] \notin dirs
                          /\ Len(content'[fs[a[1]]]) >= a[2]
                          /\ content'[fs[a[1]]][a[2]] = Data
        BY <1>2, SparedBefore DEF AckedIsStored, IsFile
      <3>1. /\ fs[a[1]] # Absent /\ fs[a[1]] \notin dirs
            /\ Len(content[fs[a[1]]]) >= a[2] /\ content[fs[a[1]]][a[2]] = Data
        BY <1>1 DEF AckedIsStored, IsFile
      <3>2. a[1] \in Paths /\ a[2] \in 1 .. Blocks /\ Blocks \in Nat
        BY <1>1, FilesAssumption DEF HistTypes
      <3>3. fs[a[1]] \in Inodes
        BY <1>1, <3>1, <3>2 DEF DiskTypes
      <3>4. CASE fs[a[1]] = i
        <4>1. Len(content[i]) \in Nat
          BY <2>3, LenProperties
        <4>2. a[2] <= Len(content[i]) /\ a[2] <= n /\ a[2] \in 1 .. n
          <5>1. a[1] = req[w].path /\ <<req[w].path, n>> \in made
            BY <1>1, <1>2, <2>1, <2>2, <3>2, <3>4 DEF HandlerInv
          <5>2. n = 0 \/ a[2] <= n
            BY <5>1 DEF Spared
          <5> QED BY <1>4, <2>2, <2>3, <3>1, <3>2, <3>4, <5>2
        <4>3. s[a[2]] = Data
          BY <2>4, <3>1, <3>4, <4>2
        <4>4. Len(s) >= a[2]
          BY <2>3, <2>4, <3>2, <4>2
        <4> QED BY <2>6, <3>1, <3>4, <4>3, <4>4
      <3>5. CASE fs[a[1]] # i
        BY <2>6, <3>1, <3>3, <3>5
      <3> QED BY <3>4, <3>5
    <2>8. acked' \subseteq Paths \X (1 .. Blocks)
      BY <1>1, <1>2 DEF HistTypes
    <2> QED BY <1>0, <1>2, <2>4, <2>5, <2>7, <2>8, BlocksStep
  <1> QED BY <1>3, <1>4 DEF CreateTruncate

\* Unlinking a file touches no path that stays, and no directory.
LEMMA RemoveStep ==
  ASSUME FilesInv, [Next]_vars, NEW p \in Paths, Remove(p)
  PROVE  FilesInv'
  <1>0. CacheInv'
    BY CacheStep DEF FilesInv
  <1>1. /\ WorkTypes /\ FdTypes /\ DiskTypes /\ HistTypes /\ DiskInv
        /\ AckedIsStored /\ \A v \in Workers : StageOK(v) /\ HandlerInv(v)
    BY TypeParts DEF FilesInv
  <1>2. /\ p \in Removable /\ fs[p] \notin dirs /\ fs' = [fs EXCEPT ![p] = Absent]
        /\ UNCHANGED <<pc, req, fd, seen, node, files, rw, idle, stopped, open, ino, pos,
                       dirs, content, arrived, acked, made, overlapped>>
    BY DEF Remove, IsFile, workVars, cacheVars, fileVars, histVars
  <1>3. \A q \in Paths : q # p => fs'[q] = fs[q]
    BY <1>1, <1>2 DEF DiskTypes
  <1>4. \A q \in Fixed : q \in Paths /\ q # p
    BY <1>2 DEF Fixed
  <1>5. \A v \in Workers : HandlerInv(v)'
    <2>1. \A v \in Workers : pc[v] = "trunc" =>
            \A q \in Paths : fs'[q] = node[v] => fs[q] = node[v]
      BY <1>1, <1>2, <1>3, AbsentIsNoInode DEF StageOK, DiskTypes
    <2>2. \A v \in Workers : Calm(v)
      BY <1>2, <1>3, <1>4, <2>1 DEF Calm, SameWork
    <2> QED BY <1>1, <2>2, CalmHandler
  <1>6. \A v \in Workers : StageOK(v)'
    BY <1>1, <1>2 DEF StageOK
  <1>7. WorkTypes' /\ FdTypes' /\ DiskTypes' /\ HistTypes'
    <2>1. WorkTypes' /\ FdTypes'
      BY <1>1, <1>2 DEF WorkTypes, FdTypes
    <2>2. DiskTypes' /\ HistTypes'
      BY <1>1, <1>2 DEF DiskTypes, HistTypes
    <2> QED BY <2>1, <2>2
  <1>8. TypeOK'
    BY <1>6, <1>7 DEF TypeOK, WorkTypes, FdTypes, DiskTypes, HistTypes, StageOK,
                      Labels, Cells
  <1>9. DiskInv'
    <2>1. dirs' \subseteq {fs'[q] : q \in Paths}
      BY <1>1, <1>2, <1>3 DEF DiskInv
    <2>2. \A q, u \in Paths : fs'[q] # Absent /\ fs'[q] = fs'[u] => q = u
      BY <1>1, <1>2, <1>3 DEF DiskInv, DiskTypes
    <2> QED BY <1>1, <1>2, <1>3, <1>4, <2>1, <2>2 DEF DiskInv, Cached
  <1>10. AckedIsStored'
    <2> SUFFICES ASSUME NEW a \in acked, a[1] \notin Removable,
                        Spared(a[1], a[2])
                 PROVE  /\ fs'[a[1]] # Absent /\ fs'[a[1]] \notin dirs
                        /\ Len(content[fs'[a[1]]]) >= a[2]
                        /\ content[fs'[a[1]]][a[2]] = Data
      BY <1>2, SparedBefore DEF AckedIsStored, IsFile
    <2>1. a[1] \in Paths /\ fs'[a[1]] = fs[a[1]]
      BY <1>1, <1>2, <1>3 DEF HistTypes
    <2> QED BY <1>1, <2>1 DEF AckedIsStored, IsFile
  <1> QED BY <1>0, <1>5, <1>8, <1>9, <1>10 DEF FilesInv

\* Time, the sweep and the shutdown only close descriptors.
LEMMA TimeStep ==
  ASSUME FilesInv, [Next]_vars, Tick \/ Sweep \/ CloseCache \/ UNCHANGED vars
  PROVE  FilesInv'
  <1>0. CacheInv'
    BY CacheStep DEF FilesInv
  <1>1. WorkTypes /\ FdTypes /\ HistTypes
    BY TypeParts DEF FilesInv
  <1>2. UNCHANGED <<pc, req, fd, seen, node, rw, ino, pos, diskVars, arrived, acked, made,
                    overlapped>>
    BY DEF Tick, Sweep, CloseCache, vars, workVars, cacheVars, fileVars, histVars
  <1>3. WorkTypes' /\ HistTypes' /\ \A v \in Workers : SameWork(v)
    BY <1>1, <1>2 DEF WorkTypes, HistTypes, SameWork
  <1>4. /\ open' \subseteq open /\ idle' \subseteq Paths /\ stopped' \in BOOLEAN
        /\ files' \in [Paths -> Handles \cup {Absent}]
        /\ \A p \in Paths : files'[p] # Absent => files'[p] = files[p]
    <2>1. CASE Tick
      BY <1>1, <2>1 DEF Tick, FdTypes, fileVars
    <2>2. CASE Sweep
      BY <1>1, <2>2 DEF Sweep, FdTypes
    <2>3. CASE CloseCache
      BY <1>1, <2>3 DEF CloseCache, FdTypes
    <2>4. CASE UNCHANGED vars
      BY <1>1, <2>4 DEF vars, cacheVars, fileVars, FdTypes
    <2> QED BY <2>1, <2>2, <2>3, <2>4
  <1>5. FdTypes'
    BY <1>1, <1>2, <1>4 DEF FdTypes
  <1>6. PICK A \in SUBSET Workers : A = {}
    OBVIOUS
  <1> QED BY <1>0, <1>2, <1>3, <1>4, <1>5, <1>6, QuietStep

\* Every step keeps the invariant.
LEMMA FilesStep == FilesInv /\ [Next]_vars => FilesInv'
  <1> SUFFICES ASSUME FilesInv, [Next]_vars PROVE FilesInv'
    OBVIOUS
  <1>1. ASSUME NEW w \in Workers, Worker(w) \/ \E r \in Request : Take(w, r)
        PROVE  FilesInv'
    BY <1>1, QuietActions, GetOpenStep, WriteAtStep, MkdirStep, CreateOpenStep,
       CreateTruncateStep DEF Worker
  <1> QED BY <1>1, RemoveStep, TimeStep DEF Next

\* The invariant holds at the start.
LEMMA FilesInit == Init => FilesInv
  <1> SUFFICES ASSUME Init PROVE FilesInv
    OBVIOUS
  <1>1. CacheInv
    BY NoRequestType DEF Init, CacheInv, CacheTypes, CacheOwnsOpen, Cached
  <1>2. <<>> \in Seq(Cells)
    BY EmptySeq
  <1>3. WorkTypes /\ HistTypes
    BY <1>2, NoRequestType DEF Init, WorkTypes, HistTypes, Labels
  <1>4. FdTypes /\ DiskTypes
    BY <1>2 DEF Init, FdTypes, DiskTypes
  <1>5. \A w \in Workers : StageOK(w) /\ HandlerInv(w)
    BY DEF Init, StageOK, HandlerInv
  <1>6. DiskInv /\ AckedIsStored
    BY DEF Init, DiskInv, AckedIsStored, Cached, Fixed
  <1>7. TypeOK
    BY <1>3, <1>4, <1>5, TypeParts
  <1> QED BY <1>1, <1>5, <1>6, <1>7 DEF FilesInv

-----------------------------------------------------------------------------
(* The theorems                                                            *)

\* Types, and with them: a handler past get has a descriptor, and a create
\* never truncates a directory, although it opened the path after a Stat that
\* another worker may have outdated.
THEOREM FilesTypeOK == Spec => []TypeOK
  <1>1. FilesInv => TypeOK
    BY DEF FilesInv
  <1> QED BY <1>1, FilesInit, FilesStep, PTL DEF Spec

\* A block whose WriteRes said Success is in the file that has the name the
\* client wrote to, however the handlers, evictions, sweeps and re-creations
\* of the path interleave, unless others unlink it or a create for a smaller
\* size found nothing at the path and truncates what another has made since.
THEOREM AcknowledgedStays == Spec => []AckedIsStored
  <1>1. FilesInv => AckedIsStored
    BY DEF FilesInv
  <1> QED BY <1>1, FilesInit, FilesStep, PTL DEF Spec

\* The digest sent in a HashRes is that of the whole file at the path, unless
\* the file was written, or hashed through the same descriptor, meanwhile.
THEOREM DigestIsExact == Spec => []HashIsExact
  <1>1. FilesInv => HashIsExact
    <2> SUFFICES ASSUME FilesInv, NEW w \in Workers, pc[w] = "hashed",
                        w \notin overlapped, req[w].path \notin Removable
                 PROVE  IsFile(req[w].path) /\ seen[w] = content[fs[req[w].path]]
      BY DEF HashIsExact
    <2>1. WorkTypes /\ StageOK(w) /\ HandlerInv(w)
      BY TypeParts DEF FilesInv
    <2>2. req[w].path \in Fixed /\ fd[w] # Absent
      BY <2>1, RequestFacts DEF StageOK, Fixed
    <2>3. /\ ino[fd[w]] \in Inodes /\ ino[fd[w]] = fs[req[w].path]
          /\ ino[fd[w]] \notin dirs /\ seen[w] = content[ino[fd[w]]]
      BY <2>1, <2>2 DEF HandlerInv, Undisturbed
    <2> QED BY <2>3, AbsentIsNoInode DEF IsFile
  <1> QED BY <1>1, FilesInit, FilesStep, PTL DEF Spec
=============================================================================

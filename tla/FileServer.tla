----------------------------- MODULE FileServer -----------------------------
(***************************************************************************)
(* The file side of the server (serve.go): the worker goroutines handling  *)
(* create, write, read and hash requests, and the fdCache they share.      *)
(* Every fdCache method runs under fc.mu and is one step; what a handler   *)
(* does with the *os.File between two of them is not protected.            *)
(*                                                                         *)
(* A file is a sequence of blocks: a write fills one block with the data   *)
(* of the transfer (Data) and a hash reads one block per Read.  os.File    *)
(* and the file system are external: an operation on a closed os.File      *)
(* fails, and an open one keeps the inode it was opened on.                *)
(***************************************************************************)
EXTENDS Integers, Sequences, FiniteSets

CONSTANTS
  Workers,      \* the worker pool, --process-num
  Paths,        \* resolved paths
  Blocks,       \* writes are of the blocks 1 .. Blocks
  Sizes,        \* the sizes, besides 0, that creates ask for
  MaxRequests,  \* bound: how many requests of each kind arrive
  MaxTotal,     \* bound: how many arrive in all
  DiskFails,    \* the operating system may fail any call on a file
  Removable     \* the paths a process outside the server may unlink

Kinds == {"create", "mkdir", "write", "read", "hash"}

ASSUME FilesAssumption ==
  /\ IsFiniteSet(Workers) /\ IsFiniteSet(Paths) /\ Paths # {}
  /\ Blocks \in Nat \ {0} /\ Sizes \subseteq Nat
  /\ MaxRequests \in [Kinds -> Nat] /\ MaxTotal \in Nat
  /\ DiskFails \in BOOLEAN /\ Removable \subseteq Paths

\* os.File objects and inodes.  One that nothing refers to is reused, so
\* these bounds are never reached.
Handles == 1 .. Cardinality(Workers) + Cardinality(Paths)
Inodes == 1 .. Cardinality(Workers) + 2 * Cardinality(Paths) + 1

Absent == 0    \* no inode at a path, no entry in the cache, no handle
Hole == "hole"
Data == "data"

VARIABLES
  pc, req,       \* where each worker is, and its request
  fd,            \* the *os.File its handler holds
  seen,          \* what its hash has read
  node,          \* the inode its create has opened
  files,         \* fdCache.files: the handle of each path
  rw,            \* the handles opened O_RDWR (fdEntry.writable)
  idle,          \* the paths whose lastAccess is older than idleTimeout
  stopped,       \* fdCache.close has run
  open,          \* the handles that are open
  ino, pos,      \* their inode and file position
  fs,            \* the inode at each path
  dirs,          \* the inodes that are directories
  content,       \* the blocks of each inode
  arrived,       \* requests so far, by kind
  acked,         \* the blocks acknowledged by WriteRes{Success} (history)
  made,          \* path and size of the creates whose Stat found nothing
                 \* at the path (history)
  overlapped     \* the hashing workers whose file was written, or whose
                 \* file position another hash has moved (history)

workVars == <<pc, req, fd, seen, node>>
cacheVars == <<files, rw, idle, stopped>>
fileVars == <<open, ino, pos>>
diskVars == <<fs, dirs, content>>
histVars == <<arrived, acked, made, overlapped>>
vars == <<workVars, cacheVars, fileVars, diskVars, histVars>>

\* A write has an offset (its block), a create a size, perhaps 0.
Request ==
  {r \in [kind : Kinds, path : Paths, block : 1 .. Blocks, size : Sizes \cup {0}] :
     /\ r.kind # "write" => r.block = 1
     /\ r.kind # "create" => r.size = 0}

\* The request of a worker that has none.
NoRequest == CHOOSE r \in Request : TRUE

Init ==
  /\ pc = [w \in Workers |-> "idle"]
  /\ req = [w \in Workers |-> NoRequest]
  /\ fd = [w \in Workers |-> Absent]
  /\ seen = [w \in Workers |-> <<>>]
  /\ node = [w \in Workers |-> Absent]
  /\ files = [p \in Paths |-> Absent]
  /\ rw = {} /\ idle = {} /\ stopped = FALSE
  /\ open = {}
  /\ ino = [h \in Handles |-> Absent] /\ pos = [h \in Handles |-> 0]
  /\ fs = [p \in Paths |-> Absent]
  /\ dirs = {}
  /\ content = [i \in Inodes |-> <<>>]
  /\ arrived = [k \in Kinds |-> 0]
  /\ acked = {} /\ made = {} /\ overlapped = {}

-----------------------------------------------------------------------------
(* The file system                                                         *)

Cached(p) == files[p] # Absent

IsFile(p) == fs[p] # Absent /\ fs[p] \notin dirs

\* The least handle that is closed and that neither a handler nor the cache
\* refers to, and an inode without name and user.
Unused(h) == /\ h \notin open
             /\ \A w \in Workers : fd[w] # h
             /\ \A p \in Paths : files[p] # h
Fresh(h) == Unused(h) /\ \A g \in Handles : g < h => ~Unused(g)
FreshInode == CHOOSE i \in Inodes :
                /\ \A p \in Paths : fs[p] # i
                /\ \A h \in open : ino[h] # i
                /\ \A w \in Workers : node[w] # i

\* s with the blocks up to n, filled with holes when it is shorter.
Resize(s, n) == [b \in 1 .. n |-> IF b <= Len(s) THEN s[b] ELSE Hole]

\* WriteAt one block: the file grows when the block is beyond its end.
WriteBlock(s, b) ==
  [Resize(s, IF Len(s) < b THEN b ELSE Len(s)) EXCEPT ![b] = Data]

\* The hashing workers that hold a handle of inode i.
Hashing(i) == {w \in Workers : /\ req[w].kind = "hash"
                               /\ fd[w] # Absent
                               /\ ino[fd[w]] = i}

\* The other workers whose io.Copy reads through the handle of w.
Sharing(w) == {v \in Workers \ {w} : pc[v] = "copy" /\ fd[v] = fd[w]}

\* The handler has answered and returns.
Finish(w) ==
  /\ pc' = [pc EXCEPT ![w] = "idle"]
  /\ req' = [req EXCEPT ![w] = NoRequest]
  /\ fd' = [fd EXCEPT ![w] = Absent]
  /\ seen' = [seen EXCEPT ![w] = <<>>]
  /\ node' = [node EXCEPT ![w] = Absent]
  /\ UNCHANGED arrived

Goto(w, l) == pc' = [pc EXCEPT ![w] = l] /\ UNCHANGED <<req, arrived>>

-----------------------------------------------------------------------------
(* Requests and fdCache.get                                                *)

Total == arrived["create"] + arrived["mkdir"] + arrived["write"]
           + arrived["read"] + arrived["hash"]

\* A worker takes an authenticated request from processMsgChan.
Take(w, r) ==
  /\ pc[w] = "idle"
  /\ arrived[r.kind] < MaxRequests[r.kind]
  /\ Total < MaxTotal
  /\ arrived' = [arrived EXCEPT ![r.kind] = @ + 1]
  /\ req' = [req EXCEPT ![w] = r]
  /\ pc' = [pc EXCEPT ![w] = IF r.kind \in {"create", "mkdir"} THEN r.kind
                                                               ELSE "get"]
  /\ UNCHANGED <<fd, seen, node, cacheVars, fileVars, diskVars, acked,
                 made, overlapped>>

\* write: the checksum, the decryption or the decompression fails.
Reject(w) ==
  /\ pc[w] = "get" /\ req[w].kind = "write"
  /\ Finish(w)
  /\ UNCHANGED <<cacheVars, fileVars, diskVars, acked, made, overlapped>>

NeedsUpgrade(w) == req[w].kind = "write" /\ files[req[w].path] \notin rw

\* What is at the path can be opened with these flags.
CanOpen(w) == IF req[w].kind = "write" THEN IsFile(req[w].path)
                                       ELSE fs[req[w].path] # Absent

\* get: the cached descriptor will do.
GetHit(w) ==
  /\ pc[w] = "get" /\ Cached(req[w].path) /\ ~NeedsUpgrade(w)
  /\ fd' = [fd EXCEPT ![w] = files[req[w].path]]
  /\ idle' = idle \ {req[w].path}
  /\ Goto(w, "io")
  /\ UNCHANGED <<seen, node, files, rw, stopped, fileVars, diskVars, acked,
                 made, overlapped>>

\* Mutation: the read-only descriptor is replaced but not closed.
GetOpenLeaks(w) ==
  /\ pc[w] = "get" /\ (Cached(req[w].path) => NeedsUpgrade(w)) /\ CanOpen(w)
  /\ \E h \in Handles :
       /\ Fresh(h)
       /\ files' = [files EXCEPT ![req[w].path] = h]
       /\ rw' = IF req[w].kind = "write" THEN rw \cup {h} ELSE rw \ {h}
       /\ open' = open \cup {h}
       /\ ino' = [ino EXCEPT ![h] = fs[req[w].path]]
       /\ pos' = [pos EXCEPT ![h] = 0]
       /\ fd' = [fd EXCEPT ![w] = h]
  /\ idle' = idle \ {req[w].path}
  /\ Goto(w, "io")
  /\ UNCHANGED <<seen, node, stopped, diskVars, acked, made, overlapped>>

\* get: open the path, and close the read-only descriptor it replaces.
GetOpen(w) ==
  /\ pc[w] = "get" /\ (Cached(req[w].path) => NeedsUpgrade(w)) /\ CanOpen(w)
  /\ \E h \in Handles :
       /\ Fresh(h)
       /\ files' = [files EXCEPT ![req[w].path] = h]
       /\ rw' = IF req[w].kind = "write" THEN rw \cup {h} ELSE rw \ {h}
       /\ open' = (open \ {files[req[w].path]}) \cup {h}
       /\ ino' = [ino EXCEPT ![h] = fs[req[w].path]]
       /\ pos' = [pos EXCEPT ![h] = 0]
       /\ fd' = [fd EXCEPT ![w] = h]
  /\ idle' = idle \ {req[w].path}
  /\ Goto(w, "io")
  /\ UNCHANGED <<seen, node, stopped, diskVars, acked, made, overlapped>>

\* get: the path cannot be opened; an upgrade has closed its old descriptor.
\* The handler fails, and hash still runs its deferred evict.
GetFails(w) ==
  /\ pc[w] = "get" /\ (Cached(req[w].path) => NeedsUpgrade(w))
  /\ ~CanOpen(w) \/ DiskFails
  /\ open' = open \ {files[req[w].path]}
  /\ files' = [files EXCEPT ![req[w].path] = Absent]
  /\ idle' = idle \ {req[w].path}
  /\ \/ req[w].kind = "hash" /\ Goto(w, "evict")
        /\ UNCHANGED <<fd, seen, node>>
     \/ req[w].kind # "hash" /\ Finish(w)
  /\ UNCHANGED <<rw, stopped, ino, pos, diskVars, acked, made, overlapped>>

-----------------------------------------------------------------------------
(* The handlers                                                            *)

\* read: ReadAt needs no file position; whatever happens, nothing is evicted.
ReadAt(w) ==
  /\ pc[w] = "io" /\ req[w].kind = "read"
  /\ Finish(w)
  /\ UNCHANGED <<cacheVars, fileVars, diskVars, acked, made, overlapped>>

\* write: WriteAt succeeds and the client is told so.
WriteAt(w) ==
  /\ pc[w] = "io" /\ req[w].kind = "write" /\ fd[w] \in open
  /\ content' = [content EXCEPT ![ino[fd[w]]] = WriteBlock(@, req[w].block)]
  /\ acked' = acked \cup {<<req[w].path, req[w].block>>}
  /\ overlapped' = overlapped \cup Hashing(ino[fd[w]])
  /\ Finish(w)
  /\ UNCHANGED <<cacheVars, fileVars, fs, dirs, made>>

\* write: WriteAt fails, on a closed file or on the disk.
WriteAtFails(w) ==
  /\ pc[w] = "io" /\ req[w].kind = "write"
  /\ fd[w] \notin open \/ DiskFails
  /\ Goto(w, "evict")
  /\ UNCHANGED <<fd, seen, node, cacheVars, fileVars, diskVars, acked,
                 made, overlapped>>

\* hash: fd.Seek(0, io.SeekStart)
Seek(w) ==
  /\ pc[w] = "io" /\ req[w].kind = "hash"
  /\ \/ /\ fd[w] \in open
        /\ pos' = [pos EXCEPT ![fd[w]] = 0]
        /\ overlapped' = overlapped \cup Sharing(w)
        /\ Goto(w, "copy")
     \/ fd[w] \notin open /\ Goto(w, "evict") /\ UNCHANGED <<pos, overlapped>>
  /\ UNCHANGED <<fd, seen, node, cacheVars, open, ino, diskVars, acked, made>>

\* hash: io.Copy reads the next block at the position of the shared file.
CopyRead(w) ==
  /\ pc[w] = "copy" /\ fd[w] \in open /\ ino[fd[w]] \notin dirs
  /\ pos[fd[w]] < Len(content[ino[fd[w]]])
  /\ seen' = [seen EXCEPT ![w] =
                Append(@, content[ino[fd[w]]][pos[fd[w]] + 1])]
  /\ pos' = [pos EXCEPT ![fd[w]] = @ + 1]
  /\ overlapped' = overlapped \cup Sharing(w)
  /\ UNCHANGED <<pc, req, fd, node, cacheVars, open, ino, diskVars, arrived,
                 acked, made>>

\* hash: end of file, the digest is sent; the deferred evict comes next.
CopyEnd(w) ==
  /\ pc[w] = "copy" /\ fd[w] \in open /\ ino[fd[w]] \notin dirs
  /\ pos[fd[w]] >= Len(content[ino[fd[w]]])
  /\ Goto(w, "hashed")
  /\ UNCHANGED <<fd, seen, node, cacheVars, fileVars, diskVars, acked,
                 made, overlapped>>

\* Mutation: the error of io.Copy is ignored.
CopyFailsUnchecked(w) ==
  /\ pc[w] = "copy" /\ (fd[w] \notin open \/ ino[fd[w]] \in dirs)
  /\ Goto(w, "hashed")
  /\ UNCHANGED <<fd, seen, node, cacheVars, fileVars, diskVars, acked,
                 made, overlapped>>

\* hash: io.Copy fails, on a closed file, on a directory or on the disk.
CopyFails(w) ==
  /\ pc[w] = "copy" /\ (fd[w] \notin open \/ ino[fd[w]] \in dirs \/ DiskFails)
  /\ Goto(w, "evict")
  /\ UNCHANGED <<fd, seen, node, cacheVars, fileVars, diskVars, acked,
                 made, overlapped>>

\* fdCache.evict closes whatever descriptor the path has by now; then the
\* failure is reported (write) or the handler returns (hash).
Evict(w) ==
  /\ pc[w] \in {"evict", "hashed"}
  /\ open' = open \ {files[req[w].path]}
  /\ files' = [files EXCEPT ![req[w].path] = Absent]
  /\ idle' = idle \ {req[w].path}
  /\ Finish(w)
  /\ overlapped' = overlapped \ {w}
  /\ UNCHANGED <<rw, stopped, ino, pos, diskVars, acked, made>>

\* create with IsDir: os.MkdirAll.
Mkdir(w) ==
  /\ pc[w] = "mkdir"
  /\ \/ /\ fs[req[w].path] = Absent
        /\ fs' = [fs EXCEPT ![req[w].path] = FreshInode]
        /\ dirs' = dirs \cup {FreshInode}
     \/ (fs[req[w].path] # Absent \/ DiskFails) /\ UNCHANGED <<fs, dirs>>
  /\ Finish(w)
  /\ UNCHANGED <<cacheVars, fileVars, content, acked, made, overlapped>>

\* Mutation: an existing file is opened and truncated as well.
CreateAlways(w) ==
  /\ pc[w] = "create"
  /\ Goto(w, "open")
  /\ made' = IF fs[req[w].path] = Absent
               THEN made \cup {<<req[w].path, req[w].size>>} ELSE made
  /\ UNCHANGED <<fd, seen, node, cacheVars, fileVars, diskVars, acked,
                 overlapped>>

\* create: os.MkdirAll of the parent and os.Stat.  A directory fails, an
\* existing file is left as it is.
CreateStat(w) ==
  /\ pc[w] = "create"
  /\ \/ /\ fs[req[w].path] = Absent
        /\ made' = made \cup {<<req[w].path, req[w].size>>}
        /\ Goto(w, "open")
        /\ UNCHANGED <<fd, seen, node>>
     \/ /\ fs[req[w].path] # Absent \/ DiskFails
        /\ Finish(w)
        /\ UNCHANGED made
  /\ UNCHANGED <<cacheVars, fileVars, diskVars, acked, overlapped>>

\* Mutation: the error of os.OpenFile on a directory is ignored.
CreateOpenUnchecked(w) ==
  /\ pc[w] = "open"
  /\ IF fs[req[w].path] = Absent
       THEN /\ fs' = [fs EXCEPT ![req[w].path] = FreshInode]
            /\ content' = [content EXCEPT ![FreshInode] = <<>>]
            /\ node' = [node EXCEPT ![w] = FreshInode]
       ELSE /\ node' = [node EXCEPT ![w] = fs[req[w].path]]
            /\ UNCHANGED <<fs, content>>
  /\ Goto(w, "trunc")
  /\ UNCHANGED <<fd, seen, dirs, cacheVars, fileVars, acked, made, overlapped>>

\* create: os.OpenFile(O_CREATE|O_RDWR) of a path that did not exist at the
\* Stat.  Another worker may have created it since.
CreateOpen(w) ==
  /\ pc[w] = "open"
  /\ \/ /\ fs[req[w].path] = Absent
        /\ fs' = [fs EXCEPT ![req[w].path] = FreshInode]
        /\ content' = [content EXCEPT ![FreshInode] = <<>>]
        /\ node' = [node EXCEPT ![w] = FreshInode]
        /\ Goto(w, "trunc")
        /\ UNCHANGED <<fd, seen, dirs>>
     \/ /\ IsFile(req[w].path)
        /\ node' = [node EXCEPT ![w] = fs[req[w].path]]
        /\ Goto(w, "trunc")
        /\ UNCHANGED <<fd, seen, diskVars>>
     \/ /\ fs[req[w].path] \in dirs \/ DiskFails
        /\ Finish(w)
        /\ UNCHANGED diskVars
  /\ UNCHANGED <<cacheVars, fileVars, acked, made, overlapped>>

\* create: fd.Truncate(req.Size) unless it is 0, fd.Close() and the answer.
CreateTruncate(w) ==
  /\ pc[w] = "trunc"
  /\ \/ /\ req[w].size > 0
        /\ content' = [content EXCEPT ![node[w]] = Resize(@, req[w].size)]
        /\ overlapped' = overlapped \cup Hashing(node[w])
     \/ /\ req[w].size = 0 \/ DiskFails
        /\ UNCHANGED <<content, overlapped>>
  /\ Finish(w)
  /\ UNCHANGED <<cacheVars, fileVars, fs, dirs, acked, made>>

Worker(w) ==
  \/ Reject(w) \/ GetHit(w) \/ GetOpen(w) \/ GetFails(w) \/ ReadAt(w)
  \/ WriteAt(w) \/ WriteAtFails(w) \/ Seek(w) \/ CopyRead(w) \/ CopyEnd(w)
  \/ CopyFails(w) \/ Evict(w) \/ Mkdir(w) \/ CreateStat(w) \/ CreateOpen(w)
  \/ CreateTruncate(w)

-----------------------------------------------------------------------------
(* Time, shutdown and other processes                                      *)

\* idleTimeout passes without another get.
Tick ==
  /\ idle' = {p \in Paths : Cached(p)}
  /\ UNCHANGED <<workVars, files, rw, stopped, fileVars, diskVars, histVars>>

\* sweepLoop closes every idle entry.
Sweep ==
  /\ ~stopped
  /\ open' = open \ {files[p] : p \in idle}
  /\ files' = [p \in Paths |-> IF p \in idle THEN Absent ELSE files[p]]
  /\ idle' = {}
  /\ UNCHANGED <<workVars, rw, stopped, ino, pos, diskVars, histVars>>

\* fdCache.close at shutdown; workers in a handler still finish it.
CloseCache ==
  /\ ~stopped
  /\ stopped' = TRUE
  /\ open' = open \ {files[p] : p \in Paths}
  /\ files' = [p \in Paths |-> Absent]
  /\ idle' = {}
  /\ UNCHANGED <<workVars, rw, ino, pos, diskVars, histVars>>

\* Another process unlinks a file.
Remove(p) ==
  /\ p \in Removable /\ IsFile(p)
  /\ fs' = [fs EXCEPT ![p] = Absent]
  /\ UNCHANGED <<workVars, cacheVars, fileVars, dirs, content, histVars>>

Next ==
  \/ \E w \in Workers : Worker(w) \/ \E r \in Request : Take(w, r)
  \/ Tick \/ Sweep \/ CloseCache
  \/ \E p \in Paths : Remove(p)

Spec == Init /\ [][Next]_vars

-----------------------------------------------------------------------------
(* Correctness                                                             *)

\* Types; a handler past get has a descriptor, and a create never truncates
\* a directory.
TypeOK ==
  /\ pc \in [Workers -> {"idle", "get", "io", "copy", "hashed", "evict",
                         "create", "open", "trunc", "mkdir"}]
  /\ req \in [Workers -> Request]
  /\ fd \in [Workers -> Handles \cup {Absent}]
  /\ seen \in [Workers -> Seq({Hole, Data})]
  /\ node \in [Workers -> Inodes \cup {Absent}]
  /\ files \in [Paths -> Handles \cup {Absent}]
  /\ rw \subseteq Handles /\ idle \subseteq Paths /\ stopped \in BOOLEAN
  /\ open \subseteq Handles
  /\ ino \in [Handles -> Inodes \cup {Absent}] /\ pos \in [Handles -> Nat]
  /\ fs \in [Paths -> Inodes \cup {Absent}] /\ dirs \subseteq Inodes
  /\ content \in [Inodes -> Seq({Hole, Data})]
  /\ \A w \in Workers :
       /\ pc[w] \in {"io", "copy", "hashed"} => fd[w] # Absent
       /\ pc[w] = "trunc" => node[w] \in Inodes \ dirs
  /\ arrived \in [Kinds -> Nat]
  /\ acked \subseteq Paths \X (1 .. Blocks) /\ overlapped \subseteq Workers
  /\ made \subseteq Paths \X (Sizes \cup {0})

\* The cache owns exactly the descriptors that are open: get, evict, the
\* sweep and close leak none, and never hand out one that is already closed.
CacheOwnsOpen ==
  /\ open = {files[p] : p \in {q \in Paths : Cached(q)}}
  /\ \A p, q \in Paths : Cached(p) /\ files[p] = files[q] => p = q

\* Of the creates that found nothing at the path p, none was for a size that
\* ends before block b: such a one may still truncate the file that another
\* create has made since, whatever is in it.
Spared(p, b) == \A m \in made : m[1] = p => m[2] = 0 \/ b <= m[2]

\* A block whose write was acknowledged is in the file that has the name the
\* client wrote to, however handlers, evictions and sweeps interleave, unless
\* someone unlinks that file, or a create that was overtaken between its Stat
\* and its open cuts it.
AckedIsStored ==
  \A a \in acked :
    a[1] \notin Removable /\ Spared(a[1], a[2])
      => /\ IsFile(a[1])
         /\ Len(content[fs[a[1]]]) >= a[2]
         /\ content[fs[a[1]]][a[2]] = Data

\* The digest in a HashRes is that of the whole file at the path, unless the
\* file was written or hashed a second time while it was read, or someone
\* unlinks it.
HashIsExact ==
  \A w \in Workers :
    pc[w] = "hashed" /\ w \notin overlapped /\ req[w].path \notin Removable
      => IsFile(req[w].path) /\ seen[w] = content[fs[req[w].path]]
=============================================================================

# gcp in TLA+

`gcp` copies files between machines: a client splits a file into chunks and
sends or fetches them concurrently over a pool of authenticated TCP
connections; a server (`gcp serve`) keeps files open in a descriptor cache and
answers requests from a pool of workers. This directory models the program from
the arguments of a copy command down to the bytes of a frame,
checks it with TLC on small instances, and proves every invariant and
action property the passing runs check with TLAPS, for every instance.

    tlc -config <run>.cfg <MC module>      e.g.  tlc -config rpc_faults.cfg MCRpcClient
    tlapm ProcessChunksProofs.tla
    tlapm RpcClientProofs.tla
    tlapm FileServerProofs.tla
    tlapm ServerAuthProofs.tla
    tlapm FileTransferProofs.tla
    tlapm FrameProofs.tla
    tlapm CopyCmdProofs.tla
    tlapm CopyResultProofs.tla

`PROJECT.json` lists the runs, the mutants that show each property can fail,
the source lines behind every definition, the findings and the hazards.

## The system

| Part (source) | State | Operations | Interacts with |
|---|---|---|---|
| Chunk scheduler (`transfer.go`) | dispatch offset, one goroutine per chunk, semaphore, `errChan`, `progressChan`, completed/pending sets, state file | dispatch, skip, acquire, read, try/retry, apply, report, record, save, fail, wait, flush | calls the RPC client; feeds the progress bar; stops on the signal context |
| RPC client (`client.go`) | caller's response channel, `resCache` (id to channel), connection pool, frames in flight | `Create`/`Write`/`Read`/`Hash`..., `processMsg` (the hub), `runConn`, `handleSend`, `handleReceive` | unbuffered channels between all of them; TCP to the server |
| File server (`serve.go`: `fdCache`, handlers) | cache path to descriptor, mode, last access; files and directories | `get`, `evict`, `sweep`, `closeAll`; `create`, `write`, `read`, `hash`, `stat`, `readDir` | every worker uses the one cache |
| Dispatch and authentication (`serve.go`, `auth.go`, `client.go`) | `processMsgChan`, per-connection auth state, session store | `OnTraffic`, worker loop, `handleAuth` (challenge/response, token), gate; `dialAndAuth`, `tokenAuth` | event loop to workers to session store |
| File transfer (`cp_to_host.go`, `cp_from_host.go`) | remote and local file, state file | create or resume, chunk phase, verify, delete the state | scheduler, client |
| Directory copy, copy planning (`cp*.go`, `glob.go`) | none between files | walk, make directories, choose targets | file transfer |
| Wire format (`message/`) | receive buffer | encode, decode, reassemble | both ends |
| Keys, users, configuration, listing, progress, command line | none of their own | I/O | - |

What is hard in it: chunk goroutines that fail, are cancelled and finish in any
order around two bounded channels; requests that share connections which break,
time out and are replaced; replies that arrive on any connection; handlers of
different connections sharing one descriptor and its file position; messages of
one connection handled by different workers; a crash between the receiver's
confirmation of a chunk and the state file that records it; commands that are
repeated after a crash, an interrupt or a change of the files; frames that
arrive in pieces.

What makes each part correct:

* scheduler: never more than `batch` chunks in flight; no error lost; a nil
  result means a complete file with nobody still writing to it; the state file
  never claims what the receiver does not have; it returns;
* client: each reply goes to the caller of its request, each request is executed
  at most once, and none disappears or waits for ever;
* server files: acknowledged data is in the named file, digests are those of the
  file, no descriptor leaks;
* server authentication: a proper client is never refused, a handler runs only
  as the authenticated owner of the connection with that owner's key, everyone
  is answered;
* wire format: the receiver takes the frames that were written, whole and in
  order, and nothing beyond the limits;
* file transfer: a verified success means an exact copy, whatever earlier
  commands left behind, and repeating a command gets there;
* copy command: success means that every file the arguments denote is where it
  belongs, and nothing else is touched.

## Modules

    MCProcessChunks -> ProcessChunks <- ProcessChunksProofs
    MCRpcClient     -> RpcClient     <- RpcClientProofs      RpcClient -> Rpc (abstract)
    MCFileServer    -> FileServer    <- FileServerProofs
    MCServerAuth    -> ServerAuth    <- ServerAuthProofs
    MCFileTransfer  -> FileTransfer  <- FileTransferProofs   FileTransfer -> Copy (abstract)
    MCFrame         -> Frame         <- FrameProofs
    MCCopyCmd       -> CopyCmd       <- CopyCmdProofs <- CopyResultProofs

The MC modules only name small constant sets. Operators whose comment starts with
"Mutation:" are the mutants of a definition that follows them; no specification
uses them.

**ProcessChunks**: one call of `processChunks` with either `fn` (upload or
download). `mpc`/`offset` are the dispatch loop, `pc[o]`/`attempt[o]` the
goroutine of the chunk at offset `o`, `sem`, `errChan` and `progressChan` the
channels. `done` is a history variable: the chunks the receiver has confirmed
(the server's answer for an upload, the local `WriteAt` for a download). `completed`
and `disk` are the completed set in memory and in the state file, `saveLost`
remembers that a save has failed. `Faulty` is
the set of chunks whose calls may fail. The loop body up to `go func` is one
step because it touches nothing shared but `errChan` and `completed`; every
channel operation, every call and every lock is a step of its own. A call
answers, fails, or never returns: with `Lossy` its request is lost with a connection,
and then only the end of the client brings it back ("lost"), or the hub does not take it, and
nothing does ("stuck"), which can also happen after an interrupt. These are the cases that
RpcClient's `CallsReturn` excuses.

`Resuming` starts with a state file that lists any subset of chunks the receiver
holds. The program never writes the first such file (run `chunks_fresh`), so
these runs stand for a file left by a version that did or made otherwise; they
are what checks the resume code at all. The bytes reported for a download are
the length of the data received, which equals the chunk's size as long as the
remote file does not shrink; that is assumed.

**Rpc** is what callers rely on: a call is made, executed at most once, and
returns the reply to that very call, or an error. **RpcClient** is the code:
callers, the hub `processMsg`, and for every pool slot `runConn`, `handleSend`
and `handleReceive` with the frames on the wire. Rendezvous on an unbuffered
channel is one joint step. Faults: a connection breaks with everything on it
(`Break`; what already arrived at the server may still be executed), a read
deadline passes (`ReceiveTimeout`), the server restarts and forgets the tokens
(`Restart`), the client is cancelled (`Cancel`). A write whose payload cannot be compressed
or encrypted fails before it has an ID (`CallFails`; `Reject` in Rpc). `ImplementsRpc` is the
refinement; the abstract variables are the same-named variables of RpcClient.

**FileServer**: `fdCache` and the handlers with the file system reduced to what
they can tell apart: paths name inodes, inodes are sequences of blocks (data or
hole), each create has its own size (`Sizes`, or 0), descriptors have an inode, a mode and a position. A handler is cut where
the code releases the cache lock or enters the kernel: get, the read or write,
the seek and each read of a hash, the deferred evict, and the stat, open and
truncate of a create. `Tick` makes every entry idle, `Sweep` is the ticker's
body under its lock. `Remove` is another program unlinking a file (of the paths
in `Removable`). `stat` and `readDir` change no state; CopyCmd uses what they return.
`acked`, `made` and `overlapped` are history variables: the blocks whose write was acknowledged,
path and size of the creates that found no file at their Stat and so will truncate what their open finds (`Spared` are
the blocks that none of them can cut), and the hashes during which the file was written or another handler moved the
position of the descriptor they share (`Sharing`).
`MaxRequests` bounds the requests of each kind, `MaxTotal` those of all kinds together.

**ServerAuth**: messages go from a connection's wire through `OnTraffic` (in the
event loop, blocking when `processMsgChan` is full) to any free worker.
`handleAuth` is cut at each access to shared state: storing the challenge,
sending it, verifying, `Put` of the session, setting its key, setting the
connection's context, answering. Clients are `dialAndAuth` for the login
connection, then `tokenAuth` and requests on each pool connection. A `Careless`
client is another program, which may also send, on its login connection and at any
time, what it should not: an `AuthReq` without a key, a signature over nothing, an
unknown token, its own token once it has one, a file request (`Stray`). Sessions
are never removed, as in the code, where `sessionTTL` has no user.

**Copy** is what a user relies on: a verified command reports success only if
source and target were identical at some instant while it ran. **FileTransfer**
is the code of `uploadFile` and `downloadFile`, for any sequence of commands on
one pair of files: stat and `loadResumeState` (`Begin`), create or open (`Open`), the
chunks, the two hashes of `verifyFileHash`, `deleteResumeState` (`Clean`). Each command
chooses its chunk size and whether to verify. The chunk phase is what ProcessChunks
establishes about it: chunks arrive in any order, the state file lists
only chunks that have arrived (`MaybeSave` lets it lag or fail), nil means all of
them unless interrupted. The server is the file at the path, and the cached
descriptor (`held`), which may have lost its name. Other programs edit the source
in place, replace the remote file, or remove the downloaded file between commands.
`Leftover` starts from any state file that is true of the target, for the reason
given under `Resuming` above. `ignored` and `swapped` are history variables that mark
the two cases in which the code does not keep its promise.

**Frame**: one direction of one connection as a stream of bytes. To the server a
frame is one `writev` on a TCP connection; to the client `WriteMessage` writes to a
`gnet.Conn`, one buffer at a time. `Transmit(n)` delivers any number of bytes. The
server's reader is `ReadMessage` on the bytes that have arrived; the client's is
`readResp` for the answer to its token and then the state machine of `handleReceive`,
where each `Read` is a step: `Want` is the slice it fills, `room` the allocated buffers.
Size fields are one byte wide, and the limits are small; the bytes of a message
body and of a payload are stand-ins that tell which frame they belong to. A body
decodes exactly if all its bytes are of one body, which stands for CBOR.

**CopyCmd**: one `gcp cp` from arguments to exit. A file system is a function from
paths (sequences of names) to "dir", "ro" (a directory the user may not write) or the
content of a file. `ExpandSources` is the Action up to its loop, with a pattern given
by the names it matches; `CopySingle` is the router; `WalkLocal` and
`WalkRemote` make one directory each and put its entries at the front of `work`, which
is the stack of the recursion; `CopyFile` is a whole transfer. `Longer` says which contents are
longer than which: an upload over a longer one leaves its end in place ("mixed"; a download
truncates), which `--sha256` notices and nothing else. After an `Interrupt` a
transfer may fail, end well, or end well without all of its chunks (`CopyFileCut`). `Denoted` and `Dest` are
an independent statement of what the arguments mean, taken from the usage text:
several sources, or a slash, make the destination a directory.

## Runs

| Run | Checks | Bounds |
|---|---|---|
| `chunks_upload` | types and channel capacities, semaphore, no lost error, nobody left running, termination | 4 chunks, the last one short, batch 2, no retry, first and last chunk may fail, any initial state file, lost calls, interrupt at any time |
| `chunks_resume` | the state file claims only confirmed chunks and misses fewer than two batches of them, honest bar | the same sizes, download, 1 retry, any initial state file, saves may fail, interrupt at any time |
| `rpc_faults` | replies to the right caller, a request in at most one place and in exactly one before the first fault, refinement of Rpc, calls return | 2 calls, which may fail before they are sent, 2 connections, 1 fault or restart, cancel |
| `files` | types, open descriptors are the cached ones, acknowledged blocks are in the file, exact digest | 4 requests among 2 creates (of size 0 or 1), a mkdir, 2 writes, a read and 2 hashes, on 2 paths of 2 blocks, 2 workers, any call on a file may fail, the second path may be unlinked |
| `auth_pool` | a proper client is never refused, handlers run as the owner, logins end and requests are answered | 2 clients, 2 pool connections each, 2 workers, a stray message |
| `transfer` | types, verified success is an exact copy (refinement of Copy), unverified success too while nobody interferes, repeating succeeds | sources of 3 and 1 blocks, chunks of 1 or 2, both directions, 1 fault, 1 edit, any left-over state, any number of commands |
| `frames` | frames taken are the frames written, within the limits, all of them arrive | up to 4 frames at, below and above both limits, cut everywhere, both receivers, a break at any byte |
| `copy` | success means copied, nothing outside the destination changes, plain cases succeed | 6 lists of sources, 4 destinations, 3 source trees, 5 target trees with longer and shorter files, every flag (dry run, verified or plain), 1 failure or interrupt |

Why these bounds: three chunks with batch 2 is the least at which a goroutine
waits for the semaphore while two run, a chunk is short and the batch is not
the whole file, and with a fourth `progressChan` can be full of skipped chunks and fewer than all
chunks be two batches; two failing chunks fill `errChan`. (The properties of `chunks_upload`
hold with three chunks and one retry too.) Two callers on two connections is the
least at which replies overtake each other and a request can move to another
slot. Two workers on one path
is the least at which one closes what the other uses; two blocks the least at
which a file position matters and a create of one block cuts another's data. Two workers on one connection is the least at
which a message is overtaken. Three blocks in chunks of one or two is the least with
a short last chunk and with a state file of other parameters; one fault and one
edit between them make every exception in the properties necessary (with two
edits and no fault the same properties hold). Frames at, below
and above each limit are the cases `DecodePre` tells apart; lengths
up to 3 let a piece end inside every field. The trees of `copy` have a directory
in a directory, equal names at two levels, an empty directory and, as target,
nothing, a shorter file, a directory with a longer one, a read-only one, and directories with and
without the same names. `CHECK_DEADLOCK FALSE` is set throughout since
every instance ends when its finite work is done; the liveness properties are
what excludes a premature end.

These runs end in a counterexample, because the code does not do what a line of
the repository says of it; `findings` in `PROJECT.json` quotes the line.

| Run | Statement that fails | Why |
|---|---|---|
| `chunks_errors` | the first error cancels the other chunks | more failures than `errChan` holds once the loop has ended: a sender blocks, and so does `wg.Wait` |
| `chunks_fresh` | a crash loses little progress | a fresh transfer has a nil state, which records nothing |
| `rpc_wedge` | connections are redialled | the sender has ended, the receiver waits for the hub, the hub for a sender, `runConn` for the receiver: the client stands still |
| `frames_shared` | a reply is one `writev` | a `gnet.Conn` takes three writes; those of two workers interleave, and the client takes bytes of one reply for another's |

`chunks_upload` and `chunks_resume` keep the failing chunks within what `errChan`
holds: beyond it `Returns` fails, which is `chunks_errors`. `rpc_wedge` needs three calls: one whose reply is being
handed over, one that the failing sender takes, one that the hub holds. With a
larger pool the same happens once every connection has failed in this way.

Other things the models show when asked, without a run of their own. The
properties name each of these as an exception, and fail without it:

* An interrupt lets `processChunks` return nil with chunks missing, since chunks that
  wait for the semaphore leave without an error (`transfer.go:230`): `NilMeansComplete`
  without `~interrupted`, `SuccessMeansCopied` without `~interrupted` in `MustBeExact`. The
  command then deletes the state and reports success.
* A call that is lost, or that the hub never takes, keeps `wg.Wait` waiting, and so
  does a chunk that is skipped when `progressChan` is full and its reader has stopped on an interrupt
  (`transfer.go:219`): `Returns` without `Unanswered` or without `SkipBlocked`.
* A create of a path that another one has just made truncates the new file to its own
  size (`serve.go:470`), and acknowledged blocks behind it are gone: `AckedIsStored` without `Spared`.
* A request lost with its connection is never reported to its caller, so nothing
  is retried (`client.go:307`): `CallsReturn` without `faults > 0`.
* A state file of other parameters is ignored and kept: a fresh command truncates the
  target, and a third one with the old parameters skips chunks that are gone
  (`transfer.go:69`): `UnchangedIsCopied` without `~ignored`.
* A remote file that is replaced while the server has it open: chunks and digest
  are those of the file that has lost its name, and the verification passes
  (`serve.go:87`): `ImplementsCopy` without `~swapped`.
* An upload never shortens the remote file (`serve.go:475`): over a longer one it
  reports success with the old end in place (`SuccessMeansCopied` without `Longer`), or never
  verifies, and a resumed command whose target is gone fails for
  ever (`cp_from_host.go:75`): the hypothesis of `RetrySucceeds`.
* Neither end checks a limit before it sends: an encrypted chunk of the maximal
  size (40 bytes of nonce and tag) and a listing of more than 64 KB close the
  connection. `DecodePre` does not check the magic bytes, as its comment says it
  does, and a message of size 0 would make `handleReceive` spin (`client.go:359`).
* Several remote sources lose their names (`cp.go:351` takes the identity file
  for the path), a pattern with several matches, or `-r` with equal names in
  different directories, overwrites its own results: the exceptions of `SuccessMeansCopied`.
* A directory upload creates directories as regular files (`cp_dir.go:37`), and a
  download cannot fill a read-only directory (`cp_from_host_dir.go:55`): not in `Feasible`.
* `pending` is never cleared, so after the first batch the state file is
  rewritten for every chunk (`transfer.go:136`).
* A call that has not reached the hub when the context is cancelled never
  returns: the send to `msgIn` has no alternative (`client.go:426`).
* Two overlapping hashes of one path share one file position and both digests
  are wrong (`serve.go:752`): `HashIsExact` without `overlapped` growing by `Sharing`.
* The cache outlives the name of a file (`serve.go:87`): with `Removable`, acknowledged
  blocks go to an unlinked file, and `AckedIsStored` speaks only of the other paths. The sweep closes the descriptor of a
  handler that works longer than the idle timeout (`serve.go:154`); the handler
  then fails with an error, which no property excludes.

## Fairness

Weak fairness of each goroutine, taken as a whole, and nothing stronger: the Go
scheduler runs every runnable goroutine eventually, and a `select` with a ready
case takes one. In ProcessChunks a call that is not lost is answered. In RpcClient the server's answer to a request that has arrived
is fair; faults, restarts, cancellation, interrupts and the decision to make a
call are not. In Frame every writer finishes, bytes that are sent arrive and the
reader runs, as long as the connection lasts. In FileTransfer a command takes its
steps and the user repeats it; nothing has to fail. In ServerAuth the client's steps are fair too, since the property
is about logins that proceed. A select between a ready channel and a done
context may take either.

## Proofs

`ProcessChunksProofs` proves, for every file size, chunk size, batch, retry count,
fault set, direction, and with or without resume, failed saves and interrupts
(`ChunksAssumption` only says that these are of their types):

* `TypeCorrect`: `Spec => []TypeOK`, including the channel capacities and that
  the loop lands only on chunk offsets or exactly on the end of the file;
* `SemaphoreBound`: `Spec => []SemBound`;
* `NoErrorIsLost`: `Spec => []NilMeansComplete`;
* `NothingInFlight`: `Spec => []QuietAfterSuccess`;
* `CrashSafe`: `Spec => []SavedIsConfirmed`;
* `LessThanTwoBatches`: with `Resuming`, `Spec => []ConfirmedSurvives`: a crash at any
  instant costs fewer than two batches of confirmed chunks, unless a save has failed.
  Without `Resuming` nothing is ever saved, which is `chunks_fresh`;
* `BarNeverAhead`: `Spec => []BarHonest`: the bar never shows more bytes than the
  confirmed chunks have.

The first five follow from one inductive invariant, `IInv`, proved in `InvariantHolds`.
None of the properties is inductive alone: that nil means complete needs to know
where every chunk that is not confirmed has gone. `LoopInv` says which chunks have been
dispatched once the loop is over, and that the context is done only after an
interrupt or with the result already decided; `ChunkInv` accounts for each chunk at
each program counter: in flight, confirmed, failed with its error in `errChan`, or
given up because the context was done. `SaveInv` is the chain `disk` within
`completed` within `done`. The
arithmetic of offsets (a next multiple of the chunk size, or the end) is in the
lemmas `MultMonotonic` and `OffsetStep`; that errors fit in `errChan` and tokens
in `sem` uses the cardinality facts of finite sets. `LessThanTwoBatches` adds `KeepInv`:
the chunks that are recorded, not on disk, and that no goroutine is about
to save (`Unsaved`) are at most `pending`, and fewer than a batch, because the one
who brings `pending` to a batch saves; every other confirmed chunk that is not on disk is at its goroutine
between confirmation and save, which holds a token of `sem`, so there are at most a batch of these. `BarNeverAhead` adds `BarInv`: there is a tally of the
channel, the sums of its prefixes from `sent` on (`IsTally`), that ends at no more than the
number of bytes in reported chunks. A tally states the sum without recursion; reporting a chunk appends to
it (`TallyAppend`), the bar takes its first element (`TallyTail`), and the bytes of a chunk
are new because nobody reported it before (`BytesAdd`).

`RpcClientProofs` proves, for any number of calls, connections and faults:

* `Refinement`: `Spec => ImplementsRpc`, that is, every step of the client, the
  network and the server is a step of Rpc or leaves its variables alone: no
  request is executed twice, no response is returned without an execution;
* `NothingIsDuplicated`: `Spec => []OnePlace`;
* `RepliesAreRouted`: `Spec => []RightReply`;
* `TypeCorrect`: `Spec => []TypeOK`.

The argument: the IDs of the calls made that did not fail before they had one are 1 to `id`, each its own, and
`resCache` maps each back to its call (`CountInv`, `IdInv`), so the hub finds the right
channel (`RightChannel`). A message is in at most one place (`Unique`, `OnePlace` spelt
out place by place for the provers), and the place says how far it has come
(`StageInv`): as a request it has not been executed, as a reply exactly once. Both are
needed together: a request in two places could be executed twice, and a new
call can be proved to be nowhere yet only by its stage. `CalmInv` is the other half of
`OnePlace`: before the first fault no connection is closed. `RpcAssumption` says
that the calls are finitely many and `NoMsg` is none of them.

`FileServerProofs` proves, for any workers, paths, sizes and number of requests:

* `FilesTypeOK`: `Spec => []TypeOK`;
* `NoDescriptorLeak`: `Spec => []CacheOwnsOpen`: every cached entry is an open
  descriptor, every open one is cached, under exactly one path;
* `AcknowledgedStays`: `Spec => []AckedIsStored`: an acknowledged block stays, unless
  the file is unlinked by others or the block lies behind the size of a create on record in `made`;
* `DigestIsExact`: `Spec => []HashIsExact`.

`CacheOwnsOpen` is inductive with the types of the variables it mentions; the steps
that matter are the upgrade in `get` (close, then open, under one lock), a failed open
after the close of an upgrade, and evictions by path. The two others need `FilesInv`.
Its `DiskInv` says that a cached descriptor of a path that is never unlinked is one of the
file now at that path, that no writable descriptor is of a directory and that no inode has two names; its `HandlerInv`
says the same of the descriptor a handler holds, which others may have closed by then, that a create about to
truncate is on record in `made` and has opened the file of its own path or one without a name, and
that a hash nobody disturbs has read exactly the file up to the descriptor's position.
`FreshInodeExists` counts: names, open descriptors and creates under way cannot use up the
`Inodes` of the model, so the `CHOOSE` of a free one always finds one.

`ServerAuthProofs` proves, for any clients, pools, workers and strays:

* `TypesHold`: `Spec => []TypeOK`, with no more answers than requests;
* `OwnerRunsAll`: `Spec => []RunsAsOwner`;
* `NobodyTurnedAway`: `Spec => []NeverTurnedAway`.

The race behind `OwnerRunsAll` is that `Put` publishes a session before its key is set. `OwnerInv`
shows why it is harmless: an "ok" on its way, a client that is ready and a worker past
`SetKey` exist only for an authorized client whose session has its key (`StoreInv`,
`WorkerInv`), because a login is answered last; only such a client presents a token
(`TokenInv`); so a connection in state "ok" has its owner's identity and key. For `NobodyTurnedAway`,
`ProperInv` says of each connection of a client that is not careless which message or reply fits
the stage the client is in, wherever that message is, and of its login connection
that there is only one of them: the pending challenge is the one being signed, and a pool
connection carries files only after its token was accepted, when the gate is open for good. `TypesHold` counts:
`AnswerInv` says of each connection that the answers it has had and its requests on the
wire, in the queue, with the workers and answered in `replies` are together at most the requests it
sent, so every step only moves a request from one place to the next.

`FileTransferProofs` proves, for files, versions, chunk sizes, faults and edits of any
kind:

* `Refinement`: `Spec => ImplementsCopy`;
* `TransferTypeOK`: `Spec => []TypeOK`;
* `NothingIsLost`: `Spec => []UnchangedIsCopied`: without verification too, a success
  copied the file, over any sequence of interrupted and resumed commands, as long as
  nobody interfered.

The invariant of the refinement (`InvariantHolds`)
follows the digest: `HeldInv` says that a descriptor without a name is met only by a
command that counts as `swapped`, so otherwise the server hashes the file at the path;
`DigestInv` says what the digest is worth until the local hash is taken, which differs by
direction (an upload's remote file is still what was hashed; a download's file, which
only the command writes, was the remote one if it equals the digest); `CleanInv`
carries the agreement to the exit. Nothing about chunks, states or sizes is needed: the
verification alone makes a success true, and from `TransferAssumption` it uses nothing.
`NothingIsLost` is the opposite: it is about the chunks. `ResumeInv` says that what the
state file lists is in the target (`StateInv`), also after a command that stopped, and that every
chunk of the running command that is not in `todo` has arrived (`ProgressInv`).

`FrameProofs` proves, for frames, limits and cuts of any size and both receivers:

* `WireTypeOK`: `Spec => []TypeOK`;
* `LimitsHold`: `Spec => []WithinLimits`;
* `StreamIsIntact`: if `OneWriter`, `Spec => []FramesIntact`.

`OneWriter` says that no two writers' bytes can interleave: the receiver is the
server, where a frame is one `writev`, or there is a single writer. The client's side
with several workers does not satisfy it, and `frames_shared` shows what happens there. The
invariant `WireInv` says of the bytes that are
in `buf`, then `inbox`, then `wire` that they are the encodings of the frames that are written
and not yet taken, one behind another, the last perhaps in part (`StreamInv`, with `Placed`
and `Ends`), and that the buffers the client has allocated are those of the header it has
read (`ShapeInv`). Writing extends the stream at its end (`FrameAdded`, `PartAdded`),
delivery moves a boundary inside it (`Regroup`), and what is decoded at the front is the first
frame, which is then removed (`FirstFrame`, `FrameRead`, `FrameTaken`).

`CopyCmdProofs` proves, for any trees, arguments, identity file and failures:

* `CopyTypeOK`: `Spec => []TypeOK`;
* `NothingElseChanges`: `Spec => []OnlyBelowDst`.

`Kept(t, u, d)` is the relation of a tree to a later one that `OnlyBelowDst` asks for. It is
reflexive and transitive, and `MkdirAllKeeps`, `WithKeeps` and `CreateKeeps` show that each
operation on trees stays within it and leaves a tree, if its target is at or below `d`. So the
invariant `CopyInv` has to say that every item of `work` has its target at or below the destination
and that what is to be walked is a directory, which the source side, unchanged, decides.
Whether `work` has such items at all is the harder half: `Sorted` is a `CHOOSE` and
`FlattenSeq` a recursive function, and what they return is known only once a value of
that kind exists. Both are shown with a smallest counterexample (`LeastNumber`, from the
well-foundedness of the numbers): the smallest set that cannot be sorted has a first
element (`FirstPath`), and the rest of it can be. `CopyAssumption` says that the two trees are finite
and are trees. The operations on trees and `Sorted` are spelt out in CopyCmd
because the prover does not know the operators of the TLC module.

`CopyResultProofs` goes on, from the same assumption, to what a command has copied:

* `EverythingCopied`: `Spec => []SuccessMeansCopied`: after a success a file is at the place of every file the
  arguments denote, with exactly its content if it was verified, or if the command was not interrupted and
  the place of an upload did not hold something longer (`MustBeExact`); except where two of them have the same place, in a
  dry run, and with several remote sources, whose names the code loses;
* `PlainCopiesSucceed`: `Spec => []FeasibleSucceeds`: a plain copy that nothing stands in the way
  of fails only if something breaks (`faults`).

For the first, the invariant `WorkInv` says of the items of `work` that each will either fail
(a directory without `-r`) or bring only what is denoted (`SoundWork`), and of every denoted file that is
alone at its target that it is there, or an item of `work` covers it (`Promised`). Soundness is
needed because a later item may write where a file already is: it cannot, if everything it brings is denoted too and
the file is alone. `Unspoilt` says that the place of such a file, if nothing longer than the file was there at first, holds nothing longer until it is
copied, so that only the uploads that `MustBeExact` excuses keep an old end. For the second, `FeasInv` says that without a fault the command has not failed, that the way to
the destination is clear (`Open`), that where a directory goes there is a writable directory or nothing
and where a file goes there is no directory (`Mirrored`), that an upload meets nothing longer (`Unmixed`), and that every item left is one that a step can
carry out. Both rest on what the lists hold (`AmongTail`, `AmongSorted`, `AmongFlatten` and others: an entry is in
the list of a directory exactly if it is in the directory) and on how `At` maps a path below a source
to one below the destination: injective, composed along a walk, and leaving the order of prefixes alone
(`AtInjective`, `AtCompose`, `AtOrder`).

Only model-checked: everything temporal with fairness (`Returns`, `CallsReturn`,
`EveryoneIsServed`, `RetrySucceeds`, `EveryFrameArrives`), which is out of the prover's
reach, like ENABLED.

## Not modelled

* A write that reaches the server after its command has given up, or another
  program replacing the local file while it is open: FileTransfer's files change
  only at its own steps and by the edits named above.
* File modes, except that a directory may be read-only; symbolic links and
  special files, which the walks skip or follow.
* The parsing of addresses: users, hosts, ports, the SSH configuration. (The
  addresses of the form `host:5031/path` in the repository's README are parsed as the
  path `5031/path` on `host`.) Where a relative remote path starts: paths are absolute in CopyCmd. An
  address without a path is taken for the home directory by the server, but for "/" when it
  is joined to the names of several sources (`cp.go:354`) or when a pattern has no directory (`glob.go:79`).
* gzip and secretbox, CBOR, key files, the agent, passwd, terminal output, the
  listing command: libraries and I/O. Their failures appear as failures of the
  step that uses them. The lookup of users and authorized keys is the set
  `Authorized`.
* A server that accepts a connection and stays silent during the login, which
  the code waits for without a deadline.

The models meet at their abstractions: FileTransfer uses what is proved of
ProcessChunks, CopyCmd takes a transfer as one step, RpcClient a frame. A product of
two of them would multiply their states without a property that needs both.

## Plan

Every invariant and action property of the passing runs is proved. What remains is what the hazards
in `PROJECT.json` list without a property: the state rewritten on every chunk once `pending` has reached a batch
(a cost, not an error), the login without a deadline, the eviction by path after a failed
write, and addresses without a path. The first is visible in ProcessChunks, the third in FileServer; the login would need a server that
may stay silent, and a property that the code does not claim.

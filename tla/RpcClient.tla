------------------------------ MODULE RpcClient ------------------------------
(***************************************************************************)
(* The RPC client of client.go: callers, the routing goroutine processMsg  *)
(* (the hub), and a pool of connections, each kept by runConn with one     *)
(* handleSend and one handleReceive goroutine.  The channels msgIn,        *)
(* sendHandle, receiveHandle and a call's resChan are unbuffered: a send   *)
(* and its receive are one step, and either side blocks without the other. *)
(*                                                                         *)
(* A caller makes one call (Create, Write, Read, ReadDir, Stat or Hash).   *)
(* A message is named by its caller and carries the ID idOf[c].  The       *)
(* server is external: it executes a request and replies on the same       *)
(* connection, in any order.                                               *)
(***************************************************************************)
EXTENDS Integers, FiniteSets

CONSTANTS
  Callers,      \* the calls
  Conns,        \* the pool, --batch connections
  NoMsg,        \* a slot that holds no message
  MaxFaults,    \* bound: broken connections, read deadlines, server restarts
  Cancellable,  \* the client's context may be cancelled
  Restartable   \* the server may restart once, forgetting its sessions

ASSUME RpcAssumption ==
  /\ NoMsg \notin Callers
  /\ IsFiniteSet(Callers)
  /\ MaxFaults \in Nat
  /\ Cancellable \in BOOLEAN /\ Restartable \in BOOLEAN

VARIABLES
  call,      \* where each caller is
  got,       \* the message whose reply it returned with
  id,        \* cc.id
  idOf,      \* the ID of each call's message
  ctxDone,   \* cc.ctx is cancelled
  hub,       \* where processMsg is
  hubMsg,    \* the message it is forwarding or delivering
  resCache,  \* the caller waiting for each ID
  conn,      \* where runConn is
  sock,      \* its socket: usable, dead at the other end, or closed here
  snd,       \* where its handleSend is
  out,       \* the message being written
  rcv,       \* where its handleReceive is
  in,        \* the reply being handed to the hub
  reqs,      \* requests on the wire and in the server
  replies,   \* replies on the wire
  orphans,   \* requests in the server whose connection is gone
  served,    \* how often the server has executed each request (history)
  token,     \* the server knows the session token
  faults     \* faults so far

callVars == <<call, got, id, idOf>>
hubVars == <<hub, hubMsg, resCache>>
connVars == <<conn, sock>>
sndVars == <<snd, out>>
rcvVars == <<rcv, in>>
netVars == <<reqs, replies, orphans, served>>
envVars == <<token, faults>>
vars == <<callVars, ctxDone, hubVars, connVars, sndVars, rcvVars, netVars,
          envVars>>

IDs == 1 .. Cardinality(Callers)

Set(f, k, v) == [f EXCEPT ![k] = v]

-----------------------------------------------------------------------------
\* newClient has its session token, has started the pool and processMsg.
Init ==
  /\ call = [c \in Callers |-> "idle"]
  /\ got = [c \in Callers |-> NoMsg]
  /\ id = 0
  /\ idOf = [c \in Callers |-> 0]
  /\ ctxDone = FALSE
  /\ hub = "select" /\ hubMsg = NoMsg
  /\ resCache = [i \in IDs |-> NoMsg]
  /\ conn = [k \in Conns |-> "dial"]
  /\ sock = [k \in Conns |-> "closed"]
  /\ snd = [k \in Conns |-> "off"] /\ out = [k \in Conns |-> NoMsg]
  /\ rcv = [k \in Conns |-> "off"] /\ in = [k \in Conns |-> NoMsg]
  /\ reqs = [k \in Conns |-> {}] /\ replies = [k \in Conns |-> {}]
  /\ orphans = {} /\ served = [c \in Callers |-> 0]
  /\ token = TRUE /\ faults = 0

-----------------------------------------------------------------------------
(* The callers                                                             *)

\* Mutation: the ID is read without being incremented.
CallSameID(c) ==
  /\ call[c] = "idle"
  /\ id' = 1
  /\ idOf' = Set(idOf, c, id')
  /\ call' = Set(call, c, "send")
  /\ UNCHANGED <<got, ctxDone, hubVars, connVars, sndVars, rcvVars, netVars,
                 envVars>>

\* genMsgID, then the caller is at cc.msgIn <- ..., which has no alternative.
Call(c) ==
  /\ call[c] = "idle"
  /\ id' = id + 1
  /\ idOf' = Set(idOf, c, id')
  /\ call' = Set(call, c, "send")
  /\ UNCHANGED <<got, ctxDone, hubVars, connVars, sndVars, rcvVars, netVars,
                 envVars>>

\* Write: compressing or encrypting the payload fails before genMsgID, and the
\* call returns without having sent anything.
CallFails(c) ==
  /\ call[c] = "idle"
  /\ call' = Set(call, c, "failed")
  /\ UNCHANGED <<got, id, idOf, ctxDone, hubVars, connVars, sndVars, rcvVars,
                 netVars, envVars>>

\* case <-cc.ctx.Done() of the second select.
CallCancelled(c) ==
  /\ call[c] = "wait" /\ ctxDone
  /\ call' = Set(call, c, "err")
  /\ UNCHANGED <<got, id, idOf, ctxDone, hubVars, connVars, sndVars, rcvVars,
                 netVars, envVars>>

-----------------------------------------------------------------------------
(* processMsg                                                              *)

\* case msg := <-cc.msgIn: remember the response channel.
HubTake(c) ==
  /\ hub = "select" /\ call[c] = "send"
  /\ call' = Set(call, c, "wait")
  /\ resCache' = Set(resCache, idOf[c], c)
  /\ hub' = "forward" /\ hubMsg' = c
  /\ UNCHANGED <<got, id, idOf, ctxDone, connVars, sndVars, rcvVars, netVars,
                 envVars>>

\* cc.sendHandle <- msg: any handleSend that is at its select takes it.
HubForward(k) ==
  /\ hub = "forward" /\ snd[k] = "select"
  /\ snd' = Set(snd, k, "write") /\ out' = Set(out, k, hubMsg)
  /\ hub' = "select" /\ hubMsg' = NoMsg
  /\ UNCHANGED <<callVars, ctxDone, resCache, connVars, rcvVars, netVars,
                 envVars>>

\* case wmsg := <-cc.receiveHandle: a reply nobody waits for is dropped.
HubReceive(k) ==
  /\ hub = "select" /\ rcv[k] = "hand"
  /\ rcv' = Set(rcv, k, "select") /\ in' = Set(in, k, NoMsg)
  /\ IF resCache[idOf[in[k]]] # NoMsg
       THEN hub' = "deliver" /\ hubMsg' = in[k]
       ELSE UNCHANGED <<hub, hubMsg>>
  /\ UNCHANGED <<callVars, ctxDone, resCache, connVars, sndVars, netVars,
                 envVars>>

\* ch <- wmsg, which blocks unless the caller is at its select; then delete.
HubDeliver ==
  /\ hub = "deliver"
  /\ LET c == resCache[idOf[hubMsg]] IN
       /\ call[c] = "wait"
       /\ call' = Set(call, c, "ok")
       /\ got' = Set(got, c, hubMsg)
  /\ resCache' = Set(resCache, idOf[hubMsg], NoMsg)
  /\ hub' = "select" /\ hubMsg' = NoMsg
  /\ UNCHANGED <<id, idOf, ctxDone, connVars, sndVars, rcvVars, netVars,
                 envVars>>

\* case <-cc.ctx.Done(): nobody reads msgIn any more.
HubExit ==
  /\ hub = "select" /\ ctxDone
  /\ hub' = "exit"
  /\ UNCHANGED <<callVars, ctxDone, hubMsg, resCache, connVars, sndVars,
                 rcvVars, netVars, envVars>>

Hub ==
  \/ \E c \in Callers : HubTake(c)
  \/ \E k \in Conns : HubForward(k) \/ HubReceive(k)
  \/ HubDeliver \/ HubExit

-----------------------------------------------------------------------------
(* One connection of the pool                                              *)

\* conn.Close(): what was on the wire is gone, what the server has read it
\* may still execute.
CloseConn(k) ==
  /\ sock' = Set(sock, k, "closed")
  /\ orphans' = orphans \cup reqs[k]
  /\ reqs' = Set(reqs, k, {}) /\ replies' = Set(replies, k, {})

\* runConn: net.Dial succeeds.
Dial(k) ==
  /\ conn[k] = "dial"
  /\ conn' = Set(conn, k, "auth") /\ sock' = Set(sock, k, "open")
  /\ UNCHANGED <<callVars, ctxDone, hubVars, sndVars, rcvVars, netVars,
                 envVars>>

\* runConn: net.Dial failed, and the context is done during the backoff.
DialGivesUp(k) ==
  /\ conn[k] = "dial" /\ ctxDone
  /\ conn' = Set(conn, k, "exit")
  /\ UNCHANGED <<callVars, ctxDone, hubVars, sock, sndVars, rcvVars, netVars,
                 envVars>>

\* runConn: tokenAuth.  The handlers start, or the connection is closed and
\* the loop dials again without looking at the context.
TokenAuth(k) ==
  /\ conn[k] = "auth"
  /\ \/ /\ token /\ sock[k] = "open"
        /\ conn' = Set(conn, k, "up")
        /\ snd' = Set(snd, k, "select") /\ rcv' = Set(rcv, k, "select")
        /\ UNCHANGED <<sock, netVars>>
     \/ /\ ~token \/ sock[k] # "open"
        /\ conn' = Set(conn, k, "dial")
        /\ CloseConn(k)
        /\ UNCHANGED <<snd, rcv, served>>
  /\ UNCHANGED <<callVars, ctxDone, hubVars, out, in, envVars>>

\* runConn: wg.Wait returns when both handlers have.
ConnWait(k) ==
  /\ conn[k] = "up" /\ snd[k] = "off" /\ rcv[k] = "off"
  /\ conn' = Set(conn, k, IF ctxDone THEN "exit" ELSE "dial")
  /\ UNCHANGED <<callVars, ctxDone, hubVars, sock, sndVars, rcvVars, netVars,
                 envVars>>

\* handleSend: case <-cc.ctx.Done(), and the deferred conn.Close().
SendDone(k) ==
  /\ snd[k] = "select" /\ ctxDone
  /\ snd' = Set(snd, k, "off")
  /\ CloseConn(k)
  /\ UNCHANGED <<callVars, ctxDone, hubVars, conn, out, rcvVars, served,
                 envVars>>

\* Mutation: a written message is written a second time.
SendTwice(k) ==
  /\ snd[k] = "write"
  /\ sock[k] = "open"
  /\ reqs' = Set(reqs, k, reqs[k] \cup {out[k]})
  /\ \/ UNCHANGED sndVars
     \/ snd' = Set(snd, k, "select") /\ out' = Set(out, k, NoMsg)
  /\ UNCHANGED <<callVars, ctxDone, hubVars, connVars, rcvVars, replies,
                 orphans, served, envVars>>

\* Mutation: the message is dropped when the connection has work to do.
SendDropsWhenBusy(k) ==
  /\ snd[k] = "write"
  /\ sock[k] = "open"
  /\ reqs' = Set(reqs, k, IF reqs[k] = {} THEN {out[k]} ELSE reqs[k])
  /\ snd' = Set(snd, k, "select") /\ out' = Set(out, k, NoMsg)
  /\ UNCHANGED <<callVars, ctxDone, hubVars, connVars, rcvVars, replies,
                 orphans, served, envVars>>

\* handleSend: bufs.WriteTo succeeds and the bytes reach the server.
SendWrite(k) ==
  /\ snd[k] = "write"
  /\ sock[k] = "open"
  /\ reqs' = Set(reqs, k, reqs[k] \cup {out[k]})
  /\ snd' = Set(snd, k, "select") /\ out' = Set(out, k, NoMsg)
  /\ UNCHANGED <<callVars, ctxDone, hubVars, connVars, rcvVars, replies,
                 orphans, served, envVars>>

\* handleSend: the write succeeds on a connection whose other end is dead.
SendIntoVoid(k) ==
  /\ snd[k] = "write"
  /\ sock[k] = "broken"
  /\ snd' = Set(snd, k, "select") /\ out' = Set(out, k, NoMsg)
  /\ UNCHANGED <<callVars, ctxDone, hubVars, connVars, rcvVars, netVars,
                 envVars>>

\* Mutation: the message stays with a goroutine that has returned.
SendFailsHolding(k) ==
  /\ snd[k] = "write"
  /\ sock[k] # "open"
  /\ snd' = Set(snd, k, "off")
  /\ CloseConn(k)
  /\ UNCHANGED <<callVars, ctxDone, hubVars, conn, out, rcvVars, served,
                 envVars>>

\* handleSend: the write fails; the message is gone with the goroutine.
SendFails(k) ==
  /\ snd[k] = "write"
  /\ sock[k] # "open"
  /\ snd' = Set(snd, k, "off") /\ out' = Set(out, k, NoMsg)
  /\ CloseConn(k)
  /\ UNCHANGED <<callVars, ctxDone, hubVars, conn, rcvVars, served, envVars>>

\* handleReceive: the select at the top of the loop.
ReceiveTop(k) ==
  /\ rcv[k] = "select"
  /\ \/ ~ctxDone /\ rcv' = Set(rcv, k, "read") /\ UNCHANGED <<sock, netVars>>
     \/ /\ ctxDone
        /\ rcv' = Set(rcv, k, "off")
        /\ CloseConn(k)
        /\ UNCHANGED served
  /\ UNCHANGED <<callVars, ctxDone, hubVars, conn, sndVars, in, envVars>>

\* handleReceive: a whole reply has been read; it is at receiveHandle <- ...
ReceiveFrame(k) ==
  /\ rcv[k] = "read" /\ sock[k] # "closed"
  /\ \E c \in replies[k] :
       /\ in' = Set(in, k, c)
       /\ replies' = Set(replies, k, replies[k] \ {c})
  /\ rcv' = Set(rcv, k, "hand")
  /\ UNCHANGED <<callVars, ctxDone, hubVars, connVars, sndVars, reqs, orphans,
                 served, envVars>>

\* handleReceive: a Read fails because the connection is dead or closed.
ReceiveFails(k) ==
  /\ rcv[k] = "read" /\ sock[k] # "open"
  /\ rcv' = Set(rcv, k, "off")
  /\ CloseConn(k)
  /\ UNCHANGED <<callVars, ctxDone, hubVars, conn, sndVars, in, served,
                 envVars>>

\* handleReceive: the read deadline (--timeout) passes without a reply, on an
\* idle connection or while the server is busy.  handleSend does not notice.
ReceiveTimeout(k) ==
  /\ rcv[k] = "read" /\ replies[k] = {}
  /\ faults < MaxFaults
  /\ faults' = faults + 1
  /\ rcv' = Set(rcv, k, "off")
  /\ CloseConn(k)
  /\ UNCHANGED <<callVars, ctxDone, hubVars, conn, sndVars, in, served, token>>

RunConn(k) == Dial(k) \/ DialGivesUp(k) \/ TokenAuth(k) \/ ConnWait(k)
HandleSend(k) ==
  SendDone(k) \/ SendWrite(k) \/ SendIntoVoid(k) \/ SendFails(k)
HandleReceive(k) == ReceiveTop(k) \/ ReceiveFrame(k) \/ ReceiveFails(k)

-----------------------------------------------------------------------------
(* The server, the network and the user                                    *)

\* A worker of the server executes a request and writes the reply.
Serve(k) ==
  /\ \E c \in reqs[k] :
       /\ served' = Set(served, c, served[c] + 1)
       /\ reqs' = Set(reqs, k, reqs[k] \ {c})
       /\ replies' = Set(replies, k, replies[k] \cup {c})
  /\ UNCHANGED <<callVars, ctxDone, hubVars, connVars, sndVars, rcvVars,
                 orphans, envVars>>

ServeOrphan ==
  /\ \E c \in orphans :
       /\ served' = Set(served, c, served[c] + 1)
       /\ orphans' = orphans \ {c}
  /\ UNCHANGED <<callVars, ctxDone, hubVars, connVars, sndVars, rcvVars, reqs,
                 replies, envVars>>

\* The other end dies.  Replies that have arrived can still be read.
Break(k) ==
  /\ sock[k] = "open" /\ faults < MaxFaults
  /\ faults' = faults + 1
  /\ sock' = Set(sock, k, "broken")
  /\ orphans' = orphans \cup reqs[k] /\ reqs' = Set(reqs, k, {})
  /\ \E r \in SUBSET replies[k] : replies' = Set(replies, k, r)
  /\ UNCHANGED <<callVars, ctxDone, hubVars, conn, sndVars, rcvVars, served,
                 token>>

\* The server restarts: sessions and connections are gone, and so is every
\* request it has not executed.
Restart ==
  /\ Restartable /\ token /\ faults < MaxFaults
  /\ token' = FALSE /\ faults' = faults + 1
  /\ sock' = [k \in Conns |-> IF sock[k] = "open" THEN "broken" ELSE sock[k]]
  /\ reqs' = [k \in Conns |-> {}] /\ orphans' = {}
  /\ UNCHANGED <<callVars, ctxDone, hubVars, conn, sndVars, rcvVars, replies,
                 served>>

\* Close(), or a signal cancels the parent context.
Cancel ==
  /\ Cancellable /\ ~ctxDone
  /\ ctxDone' = TRUE
  /\ UNCHANGED <<callVars, hubVars, connVars, sndVars, rcvVars, netVars,
                 envVars>>

Next ==
  \/ \E c \in Callers : Call(c) \/ CallFails(c) \/ CallCancelled(c)
  \/ Hub
  \/ \E k \in Conns : \/ RunConn(k) \/ HandleSend(k) \/ HandleReceive(k)
                      \/ ReceiveTimeout(k) \/ Serve(k) \/ Break(k)
  \/ ServeOrphan \/ Restart \/ Cancel

Spec == Init /\ [][Next]_vars

\* The Go scheduler runs every goroutine that can take a step, and the server
\* answers what it has read.  Faults and cancellation need not happen.
Fairness ==
  /\ WF_vars(Hub)
  /\ \A c \in Callers : WF_vars(CallCancelled(c))
  /\ \A k \in Conns : /\ WF_vars(RunConn(k)) /\ WF_vars(HandleSend(k))
                      /\ WF_vars(HandleReceive(k)) /\ WF_vars(Serve(k))

FairSpec == Spec /\ Fairness

-----------------------------------------------------------------------------
(* Correctness                                                             *)

\* Types: a slot holds a message exactly while its goroutine works on one.
TypeOK ==
  /\ call \in [Callers -> {"idle", "failed", "send", "wait", "ok", "err"}]
  /\ got \in [Callers -> Callers \cup {NoMsg}]
  /\ id \in Nat /\ idOf \in [Callers -> Nat]
  /\ ctxDone \in BOOLEAN
  /\ hub \in {"select", "forward", "deliver", "exit"}
  /\ hubMsg \in Callers \cup {NoMsg}
  /\ hub \in {"forward", "deliver"} <=> hubMsg # NoMsg
  /\ resCache \in [IDs -> Callers \cup {NoMsg}]
  /\ conn \in [Conns -> {"dial", "auth", "up", "exit"}]
  /\ sock \in [Conns -> {"open", "broken", "closed"}]
  /\ snd \in [Conns -> {"off", "select", "write"}]
  /\ out \in [Conns -> Callers \cup {NoMsg}]
  /\ \A k \in Conns : snd[k] = "write" <=> out[k] # NoMsg
  /\ rcv \in [Conns -> {"off", "select", "read", "hand"}]
  /\ in \in [Conns -> Callers \cup {NoMsg}]
  /\ \A k \in Conns : rcv[k] = "hand" <=> in[k] # NoMsg
  /\ reqs \in [Conns -> SUBSET Callers]
  /\ replies \in [Conns -> SUBSET Callers]
  /\ orphans \subseteq Callers /\ served \in [Callers -> Nat]
  /\ token \in BOOLEAN /\ faults \in 0 .. MaxFaults

\* Every response is delivered to the caller whose request it answers,
\* however calls, connections and replies are interleaved.
RightReply == \A c \in Callers : got[c] \in {NoMsg, c}

\* The places that hold the message of c, as request or as reply.
Where(c) ==
  {p \in {<<"hub", "hub">>} : hubMsg = c}
    \cup {p \in {"out"} \X Conns : out[p[2]] = c}
    \cup {p \in {"in"} \X Conns : in[p[2]] = c}
    \cup {p \in {"reqs"} \X Conns : c \in reqs[p[2]]}
    \cup {p \in {"replies"} \X Conns : c \in replies[p[2]]}
    \cup {p \in {<<"server", "orphans">>} : c \in orphans}

\* A message is never duplicated on its way through hub, pool and network,
\* and while nothing has failed none is lost: the message of a waiting caller
\* is in exactly one place.
OnePlace ==
  \A c \in Callers :
    /\ \A p, q \in Where(c) : p = q
    /\ call[c] = "wait" /\ faults = 0 /\ ~ctxDone => Where(c) # {}

\* The client implements its abstract specification Rpc: at most one
\* execution per call, and no response without one.
phase == [c \in Callers |->
            IF call[c] \in {"send", "wait"} THEN "pending" ELSE call[c]]

Abstract == INSTANCE Rpc WITH Callers <- Callers, phase <- phase, served <- served

ImplementsRpc == Abstract!Spec

\* A call returns while nothing has failed, with any number of calls meeting
\* hub and pool on unbuffered channels; and once the context is cancelled a
\* waiting call returns, whatever has been lost before.  Excused are calls
\* after a fault without a cancellation, and calls the hub has not taken.
CallsReturn ==
  \A c \in Callers :
    call[c] \in {"send", "wait"} ~>
      \/ call[c] \in {"ok", "err"}
      \/ faults > 0 /\ ~ctxDone
      \/ ctxDone /\ call[c] = "send"

\* What runConn's "automatic reconnection" is for: the request the hub holds is
\* taken by some connection of the pool, redialled if need be, and the hub
\* comes back for the next request.
PoolRecovers ==
  /\ hub = "forward" ~> hub = "select"
  /\ \A c \in Callers : call[c] = "send" ~> call[c] # "send"
=============================================================================

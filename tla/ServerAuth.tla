----------------------------- MODULE ServerAuth -----------------------------
(***************************************************************************)
(* Requests and authentication on the server (serve.go): gnet's event loop *)
(* feeds the bounded processMsgChan, a pool of workers takes messages of   *)
(* any connection in any order, handleAuth keeps the state of each         *)
(* connection and the session store, and every other request passes the    *)
(* authOK gate.  The clients are the code's own (client.go): dialAndAuth   *)
(* logs in on a connection of its own, then each connection of the pool    *)
(* re-authenticates with the session token and pipelines requests.         *)
(*                                                                         *)
(* A client stands for its user and its key pair, a session token for the  *)
(* client whose login created it.  Signatures, key files and the text of   *)
(* errors are abstracted; gnet delivers the frames of a connection in      *)
(* order.                                                                  *)
(***************************************************************************)
EXTENDS Integers, Sequences, FiniteSets

CONSTANTS
  Clients,
  Authorized,   \* the clients whose key is in an authorized_keys file
  Login,        \* the name of a client's login connection
  Pool,         \* the names of its pool connections
  Workers,      \* process-num
  MaxFiles,     \* bound: file requests per pool connection
  Careless,     \* clients of other code, which send messages in any order
  MaxStray,     \* bound: how many such messages
  NoKey         \* a nil encryption key

Conns == Clients \X ({Login} \cup Pool)
PoolConns == Clients \X Pool
Owner(k) == k[1]

ASSUME AuthAssumption ==
  /\ Login \notin Pool
  /\ IsFiniteSet(Workers) /\ Workers # {}
  /\ Authorized \subseteq Clients
  /\ Careless \subseteq Clients
  /\ MaxFiles \in Nat /\ MaxStray \in Nat
  /\ NoKey \notin Clients

VARIABLES
  client,    \* where dialAndAuth of each client is
  link,      \* where runConn of each pool connection is
  sent,      \* file requests sent on it
  answered,  \* file requests answered on it
  strays,    \* messages sent out of order
  wire,      \* frames from client to server
  queue,     \* processMsgChan
  replies,   \* frames from server to client
  closed,    \* the connections the server has closed
  auth,      \* connAuth of each connection (gnet's connection context)
  nonce,     \* challenges generated so far
  sessions,  \* the users who have a session in the store
  sessKey,   \* sessionInfo.EncryptionKey of each session
  at, job,   \* where each worker is, and its message
  ca         \* the connAuth its handler works with

clientVars == <<client, link, sent, answered, strays>>
netVars == <<wire, queue, replies, closed>>
storeVars == <<auth, nonce, sessions, sessKey>>
workVars == <<at, job, ca>>
vars == <<clientVars, netVars, storeVars, workVars>>

NewAuth == [state |-> "new", challenge |-> 0, user |-> NoKey, key |-> NoKey]

Msg(k, type, c) == [conn |-> k, type |-> type, challenge |-> c]

Reply(type, c) == [type |-> type, challenge |-> c]

NoJob == Msg(CHOOSE k \in Conns : TRUE, "none", 0)

Init ==
  /\ client = [c \in Clients |-> "start"]
  /\ link = [k \in PoolConns |-> "down"]
  /\ sent = [k \in PoolConns |-> 0] /\ answered = [k \in PoolConns |-> 0]
  /\ strays = 0
  /\ wire = [k \in Conns |-> <<>>] /\ queue = <<>>
  /\ replies = [k \in Conns |-> <<>>] /\ closed = {}
  /\ auth = [k \in Conns |-> NewAuth]
  /\ nonce = 0
  /\ sessions = {} /\ sessKey = [c \in Clients |-> NoKey]
  /\ at = [w \in Workers |-> "idle"]
  /\ job = [w \in Workers |-> NoJob]
  /\ ca = [w \in Workers |-> NewAuth]

-----------------------------------------------------------------------------
(* The clients                                                             *)

Put(k, m) == wire' = [wire EXCEPT ![k] = Append(@, m)]
Got(k, type) == replies[k] # <<>> /\ Head(replies[k]).type = type
Consume(k) == replies' = [replies EXCEPT ![k] = Tail(@)]

\* dialAndAuth, step 1: send the public key.
Hello(c) ==
  /\ client[c] = "start"
  /\ client' = [client EXCEPT ![c] = "challenge"]
  /\ Put(<<c, Login>>, Msg(<<c, Login>>, "hello", 0))
  /\ UNCHANGED <<link, sent, answered, strays, queue, replies, closed,
                 storeVars, workVars>>

\* dialAndAuth, step 2: sign the challenge.
Sign(c) ==
  LET k == <<c, Login>> IN
  /\ client[c] = "challenge" /\ Got(k, "challenge")
  /\ client' = [client EXCEPT ![c] = "result"]
  /\ Consume(k)
  /\ Put(k, Msg(k, "sign", Head(replies[k]).challenge))
  /\ UNCHANGED <<link, sent, answered, strays, queue, closed, storeVars,
                 workVars>>

\* dialAndAuth: the result.  On success the pool starts.
LoggedIn(c) ==
  LET k == <<c, Login>> IN
  /\ client[c] = "result"
  /\ \/ Got(k, "ok") /\ client' = [client EXCEPT ![c] = "ready"]
     \/ Got(k, "denied") /\ client' = [client EXCEPT ![c] = "denied"]
  /\ Consume(k)
  /\ UNCHANGED <<link, sent, answered, strays, wire, queue, closed, storeVars,
                 workVars>>

\* runConn: dial, and tokenAuth sends the token.
SendToken(k) ==
  /\ client[Owner(k)] = "ready" /\ link[k] = "down"
  /\ link' = [link EXCEPT ![k] = "token"]
  /\ Put(k, Msg(k, "token", 0))
  /\ UNCHANGED <<client, sent, answered, strays, queue, replies, closed,
                 storeVars, workVars>>

\* tokenAuth: accepted, the connection joins the pool.
JoinPool(k) ==
  /\ link[k] = "token" /\ Got(k, "ok")
  /\ link' = [link EXCEPT ![k] = "up"]
  /\ Consume(k)
  /\ UNCHANGED <<client, sent, answered, strays, wire, queue, closed, storeVars,
                 workVars>>

\* handleSend: a request, without waiting for earlier answers.
SendFile(k) ==
  /\ link[k] = "up" /\ sent[k] < MaxFiles
  /\ sent' = [sent EXCEPT ![k] = @ + 1]
  /\ Put(k, Msg(k, "file", 0))
  /\ UNCHANGED <<client, link, answered, strays, queue, replies, closed,
                 storeVars, workVars>>

\* handleReceive: an answer to one of the requests.
ReceiveFile(k) ==
  /\ link[k] = "up" /\ Got(k, "file")
  /\ answered' = [answered EXCEPT ![k] = @ + 1]
  /\ Consume(k)
  /\ UNCHANGED <<client, link, sent, strays, wire, queue, closed, storeVars,
                 workVars>>

\* Another program sends what it should not, or not yet: an AuthReq without a
\* key, a signature or a token it has no right to ("guess"), a request before
\* login, or the token it has been given on a connection that needs none.
Stray(c) ==
  /\ c \in Careless /\ strays < MaxStray
  /\ strays' = strays + 1
  /\ \E t \in {"empty", "sign", "guess", "token", "file"} :
       /\ t = "token" => client[c] = "ready"
       /\ Put(<<c, Login>>, Msg(<<c, Login>>, t, 0))
  /\ UNCHANGED <<client, link, sent, answered, queue, replies, closed,
                 storeVars, workVars>>

Client(c) == Hello(c) \/ Sign(c) \/ LoggedIn(c)
Link(k) == SendToken(k) \/ JoinPool(k) \/ SendFile(k) \/ ReceiveFile(k)

-----------------------------------------------------------------------------
(* The event loop and the worker pool                                      *)

\* Mutation: one message more than the channel holds.
OnTrafficOffByOne(k) ==
  /\ wire[k] # <<>> /\ k \notin closed
  /\ Len(queue) <= Cardinality(Workers)
  /\ queue' = Append(queue, Head(wire[k]))
  /\ wire' = [wire EXCEPT ![k] = Tail(@)]
  /\ UNCHANGED <<clientVars, replies, closed, storeVars, workVars>>

\* Mutation: a message that finds the channel full is dropped.
OnTrafficDrops(k) ==
  /\ wire[k] # <<>> /\ k \notin closed
  /\ queue' = IF Len(queue) < Cardinality(Workers)
               THEN Append(queue, Head(wire[k])) ELSE queue
  /\ wire' = [wire EXCEPT ![k] = Tail(@)]
  /\ UNCHANGED <<clientVars, replies, closed, storeVars, workVars>>

\* OnTraffic: a complete frame goes to processMsgChan, whose capacity is
\* process-num; the event loop blocks while it is full.
OnTraffic(k) ==
  /\ wire[k] # <<>> /\ k \notin closed
  /\ Len(queue) < Cardinality(Workers)
  /\ queue' = Append(queue, Head(wire[k]))
  /\ wire' = [wire EXCEPT ![k] = Tail(@)]
  /\ UNCHANGED <<clientVars, replies, closed, storeVars, workVars>>

\* process: an idle worker takes the next message.
Take(w) ==
  /\ at[w] = "idle" /\ queue # <<>>
  /\ job' = [job EXCEPT ![w] = Head(queue)]
  /\ queue' = Tail(queue)
  /\ at' = [at EXCEPT ![w] = Head(queue).type]
  /\ UNCHANGED <<clientVars, wire, replies, closed, storeVars, ca>>

Goto(w, from, to) == at[w] = from /\ at' = [at EXCEPT ![w] = to]

\* message.WriteMessage to the connection of the message; the worker is idle.
Answer(w, r) ==
  /\ replies' = [replies EXCEPT ![job[w].conn] = Append(@, r)]
  /\ job' = [job EXCEPT ![w] = NoJob]
  /\ ca' = [ca EXCEPT ![w] = NewAuth]

\* A refusal, after which the connection is closed.
Refuse(w, r) == Answer(w, r) /\ closed' = closed \cup {job[w].conn}

-----------------------------------------------------------------------------
(* handleAuth                                                              *)

\* Phase 1 without a public key.
MissingKey(w) ==
  /\ Goto(w, "empty", "idle")
  /\ Refuse(w, Reply("denied", 0))
  /\ UNCHANGED <<clientVars, wire, queue, storeVars>>

\* Phase 1: a fresh challenge, kept in the connection's context.
Challenge(w) ==
  /\ Goto(w, "hello", "challenge")
  /\ nonce' = nonce + 1
  /\ auth' = [auth EXCEPT ![job[w].conn] =
                [NewAuth EXCEPT !.state = "pending", !.challenge = nonce']]
  /\ ca' = [ca EXCEPT ![w] = auth'[job[w].conn]]
  /\ UNCHANGED <<clientVars, netVars, sessions, sessKey, job>>

SendChallenge(w) ==
  /\ Goto(w, "challenge", "idle")
  /\ Answer(w, Reply("challenge", ca[w].challenge))
  /\ UNCHANGED <<clientVars, wire, queue, closed, storeVars>>

\* Phase 2: the signature must be over the pending challenge, and the key an
\* authorized one.
Verified(w) ==
  LET k == job[w].conn IN
  /\ auth[k].state = "pending"
  /\ job[w].challenge = auth[k].challenge
  /\ Owner(k) \in Authorized

VerifyFails(w) ==
  /\ Goto(w, "sign", "idle")
  /\ ~Verified(w)
  /\ Refuse(w, Reply("denied", 0))
  /\ UNCHANGED <<clientVars, wire, queue, storeVars>>

\* Mutation: the client is told before the key is in the session.
PutSessionEarlyAnswer(w) ==
  /\ Goto(w, "sign", "key")
  /\ Verified(w)
  /\ sessions' = sessions \cup {Owner(job[w].conn)}
  /\ replies' = [replies EXCEPT ![job[w].conn] = Append(@, Reply("ok", 0))]
  /\ UNCHANGED <<clientVars, wire, queue, closed, auth, nonce, sessKey, job,
                 ca>>

\* sessions.Put publishes the session; its key is not set yet.
PutSession(w) ==
  /\ Goto(w, "sign", "key")
  /\ Verified(w)
  /\ sessions' = sessions \cup {Owner(job[w].conn)}
  /\ UNCHANGED <<clientVars, netVars, auth, nonce, sessKey, job, ca>>

\* info.EncryptionKey = deriveEncryptionKey(pubKey), outside the store's lock.
SetKey(w) ==
  /\ Goto(w, "key", "context")
  /\ sessKey' = [sessKey EXCEPT ![Owner(job[w].conn)] = Owner(job[w].conn)]
  /\ UNCHANGED <<clientVars, netVars, auth, nonce, sessions, job, ca>>

\* setConnAuth(authOK) with what the session holds.
SessionAuth(c) ==
  [state |-> "ok", challenge |-> 0, user |-> c, key |-> sessKey[c]]

SetContext(w) ==
  /\ Goto(w, "context", "accept")
  /\ auth' = [auth EXCEPT ![job[w].conn] = SessionAuth(Owner(job[w].conn))]
  /\ UNCHANGED <<clientVars, netVars, nonce, sessions, sessKey, job, ca>>

\* The token path: an unknown token is refused.
TokenFails(w) ==
  /\ \/ Goto(w, "guess", "idle")
     \/ Goto(w, "token", "idle") /\ Owner(job[w].conn) \notin sessions
  /\ Refuse(w, Reply("denied", 0))
  /\ UNCHANGED <<clientVars, wire, queue, storeVars>>

\* Mutation: the answer goes out before setConnAuth.
TokenAnswersFirst(w) ==
  /\ Goto(w, "token", "context")
  /\ Owner(job[w].conn) \in sessions
  /\ replies' = [replies EXCEPT ![job[w].conn] = Append(@, Reply("ok", 0))]
  /\ UNCHANGED <<clientVars, wire, queue, closed, storeVars, job, ca>>

TokenOK(w) ==
  /\ Goto(w, "token", "accept")
  /\ Owner(job[w].conn) \in sessions
  /\ auth' = [auth EXCEPT ![job[w].conn] = SessionAuth(Owner(job[w].conn))]
  /\ UNCHANGED <<clientVars, netVars, nonce, sessions, sessKey, job, ca>>

\* AuthRes{Success: true}
Accept(w) ==
  /\ Goto(w, "accept", "idle")
  /\ Answer(w, Reply("ok", 0))
  /\ UNCHANGED <<clientVars, wire, queue, closed, storeVars>>

-----------------------------------------------------------------------------
(* Every other request                                                     *)

\* process: rejectUnauthenticated.
Reject(w) ==
  /\ Goto(w, "file", "idle")
  /\ auth[job[w].conn].state # "ok"
  /\ Refuse(w, Reply("denied", 0))
  /\ UNCHANGED <<clientVars, wire, queue, storeVars>>

\* process: the gate is passed, the handler runs with this connAuth.
Gate(w) ==
  /\ Goto(w, "file", "serve")
  /\ auth[job[w].conn].state = "ok"
  /\ ca' = [ca EXCEPT ![w] = auth[job[w].conn]]
  /\ UNCHANGED <<clientVars, netVars, storeVars, job>>

\* The handler answers.
Serve(w) ==
  /\ Goto(w, "serve", "idle")
  /\ Answer(w, Reply("file", 0))
  /\ UNCHANGED <<clientVars, wire, queue, closed, storeVars>>

Worker(w) ==
  \/ Take(w) \/ MissingKey(w) \/ Challenge(w) \/ SendChallenge(w)
  \/ VerifyFails(w) \/ PutSession(w) \/ SetKey(w) \/ SetContext(w)
  \/ TokenFails(w) \/ TokenOK(w) \/ Accept(w)
  \/ Reject(w) \/ Gate(w) \/ Serve(w)

Next ==
  \/ \E c \in Clients : Client(c) \/ Stray(c)
  \/ \E k \in PoolConns : Link(k)
  \/ \E k \in Conns : OnTraffic(k)
  \/ \E w \in Workers : Worker(w)

Spec == Init /\ [][Next]_vars

\* Goroutines and the event loop keep running, clients keep reading.
Fairness ==
  /\ \A c \in Clients : WF_vars(Client(c))
  /\ \A k \in PoolConns : WF_vars(Link(k))
  /\ \A k \in Conns : WF_vars(OnTraffic(k))
  /\ \A w \in Workers : WF_vars(Worker(w))

FairSpec == Spec /\ Fairness

-----------------------------------------------------------------------------
(* Correctness                                                             *)

\* Types, and the capacity of processMsgChan: OnTraffic never exceeds it.
TypeOK ==
  /\ client \in [Clients -> {"start", "challenge", "result", "ready", "denied"}]
  /\ link \in [PoolConns -> {"down", "token", "up"}]
  /\ sent \in [PoolConns -> 0 .. MaxFiles]
  /\ answered \in [PoolConns -> 0 .. MaxFiles] /\ strays \in 0 .. MaxStray
  /\ Len(queue) <= Cardinality(Workers)
  /\ closed \subseteq Conns /\ sessions \subseteq Clients
  /\ sessKey \in [Clients -> Clients \cup {NoKey}]
  /\ \A k \in Conns : auth[k].state \in {"new", "pending", "ok"}
  /\ \A w \in Workers :
       at[w] \in {"idle", "empty", "hello", "challenge", "sign", "key",
                  "context", "guess", "token", "accept", "file", "serve"}

\* A client of this code is never turned away: each answer is sent only after
\* the state it promises is in place, so no connection of an authorized
\* client is ever refused and closed, whichever workers take its messages.
NeverTurnedAway ==
  \A k \in closed : Owner(k) \in Authorized => Owner(k) \in Careless

\* A handler always runs as the owner of the connection, with the owner's
\* encryption key: the key that SetKey writes after the session has been
\* published is in place before any connection can use the session.
RunsAsOwner ==
  \A w \in Workers :
    at[w] = "serve" => /\ ca[w].user = Owner(job[w].conn)
                       /\ ca[w].key = Owner(job[w].conn)
                       /\ Owner(job[w].conn) \in Authorized

\* Every login ends, and every request that was sent is answered: a full
\* processMsgChan delays the event loop but never wedges it, and a client
\* whose stray message ends its own connection delays nobody else.
EveryoneIsServed ==
  /\ \A c \in Clients :
       <>\/ client[c] = IF c \in Authorized THEN "ready" ELSE "denied"
         \/ c \in Careless /\ <<c, Login>> \in closed
  /\ \A k \in PoolConns :
       Owner(k) \in Authorized =>
         <>\/ answered[k] = MaxFiles
           \/ Owner(k) \in Careless /\ <<Owner(k), Login>> \in closed
=============================================================================

-------------------------- MODULE ServerAuthProofs --------------------------
(***************************************************************************)
(* Handlers run as the owner of the connection with the owner's key, and a *)
(* proper client is never turned away: for every set of clients, careless  *)
(* ones among them, every number of workers, connections and requests.     *)
(* No connection is answered more often than it has asked.                 *)
(***************************************************************************)
EXTENDS ServerAuth, SequenceTheorems, FiniteSetTheorems, TLAPS

MsgTypes == {"hello", "sign", "empty", "guess", "token", "file"}
Message == [conn : Conns, type : MsgTypes, challenge : Nat]
Answers == [type : {"challenge", "ok", "denied", "file"}, challenge : Nat]
AuthRec == [state : {"new", "pending", "ok"}, challenge : Nat,
            user : Clients \cup {NoKey}, key : Clients \cup {NoKey}]
Places == MsgTypes \cup {"idle", "challenge", "key", "context", "accept",
                         "serve"}

\* The types the argument needs.
ClientTypes ==
  /\ client \in [Clients -> {"start", "challenge", "result", "ready", "denied"}]
  /\ link \in [PoolConns -> {"down", "token", "up"}]

NetTypes ==
  /\ wire \in [Conns -> Seq(Message)]
  /\ \A k \in Conns : \A m \in Range(wire[k]) : m.conn = k
  /\ queue \in Seq(Message)
  /\ replies \in [Conns -> Seq(Answers)]
  /\ closed \subseteq Conns

StoreTypes ==
  /\ auth \in [Conns -> AuthRec]
  /\ nonce \in Nat
  /\ sessions \subseteq Clients
  /\ sessKey \in [Clients -> Clients \cup {NoKey}]

WorkTypes ==
  /\ at \in [Workers -> Places]
  /\ job \in [Workers -> Message \cup {NoJob}]
  /\ ca \in [Workers -> AuthRec]
  /\ \A w \in Workers : at[w] # "idle" => job[w] \in Message
  /\ \A w \in Workers : at[w] \in MsgTypes => job[w].type = at[w]

Types == ClientTypes /\ NetTypes /\ StoreTypes /\ WorkTypes

-----------------------------------------------------------------------------
(* The session behind what a client or a worker relies on                  *)

\* The session of c is published and has its key.
Ready(c) == c \in sessions /\ sessKey[c] = c

OwnAuth(a, c) == a.user = c /\ a.key = c /\ c \in Authorized

StoreInv ==
  /\ sessions \subseteq Authorized
  /\ \A c \in Clients : client[c] = "ready" => Ready(c)
  /\ \A k \in Conns : auth[k].state = "ok" => OwnAuth(auth[k], Owner(k))
  /\ \A k \in Conns : \A r \in Range(replies[k]) :
       r.type = "ok" => Ready(Owner(k))

\* A token is presented only by a client that has been given it.
TokenInv ==
  /\ \A k \in Conns : \A m \in Range(wire[k]) :
       m.type = "token" => client[Owner(k)] = "ready"
  /\ \A m \in Range(queue) :
       m.type = "token" => client[Owner(m.conn)] = "ready"

WorkerInv ==
  \A w \in Workers :
    LET c == Owner(job[w].conn) IN
    /\ at[w] = "token" => client[c] = "ready"
    /\ at[w] = "key" => c \in sessions
    /\ at[w] \in {"context", "accept"} => Ready(c)
    /\ at[w] = "serve" => OwnAuth(ca[w], c)

OwnerInv == StoreInv /\ TokenInv /\ WorkerInv

-----------------------------------------------------------------------------
(* The connections of a client of this code                                *)

Proper(k) == Owner(k) \in Authorized \ Careless
LoginOf(k) == <<Owner(k), Login>>

\* The server waits for the signature of this challenge.
Pending(k, n) == auth[k].state = "pending" /\ auth[k].challenge = n

\* What a proper client may have sent on k, and what it waits for then.
Fits(k, m) ==
  \/ m.type = "hello" /\ k = LoginOf(k) /\ client[Owner(k)] = "challenge"
  \/ /\ m.type = "sign" /\ k = LoginOf(k) /\ client[Owner(k)] = "result"
     /\ Pending(k, m.challenge)
  \/ m.type = "token" /\ k \in PoolConns
  \/ m.type = "file" /\ k \in PoolConns /\ link[k] = "up"

\* What it may be answered.
Expected(k, r) ==
  \/ /\ k = LoginOf(k) /\ r.type = "challenge"
     /\ client[Owner(k)] = "challenge" /\ Pending(k, r.challenge)
  \/ k = LoginOf(k) /\ r.type = "ok" /\ client[Owner(k)] = "result"
  \/ k \in PoolConns /\ r.type = "ok" /\ auth[k].state = "ok"
  \/ k \in PoolConns /\ r.type = "file"

\* What a worker may be doing for it, beyond the message it has taken.
Serving(k, w) ==
  /\ at[w] = "challenge" =>
       /\ k = LoginOf(k) /\ client[Owner(k)] = "challenge"
       /\ Pending(k, ca[w].challenge)
  /\ at[w] \in {"key", "context"} =>
       k = LoginOf(k) /\ client[Owner(k)] = "result"
  /\ at[w] = "accept" => \/ k = LoginOf(k) /\ client[Owner(k)] = "result"
                         \/ k \in PoolConns /\ auth[k].state = "ok"
  /\ at[w] = "serve" => k \in PoolConns

Working(w, k) == at[w] # "idle" /\ job[w].conn = k
InQueue(k) == \E m \in Range(queue) : m.conn = k
InWork(k) == \E w \in Workers : Working(w, k)

FitConn(k) ==
  /\ \A m \in Range(wire[k]) : Fits(k, m)
  /\ \A m \in Range(queue) : m.conn = k => Fits(k, m)
  /\ \A w \in Workers :
       Working(w, k) => /\ at[w] \in MsgTypes => Fits(k, job[w])
                        /\ Serving(k, w)
  /\ \A r \in Range(replies[k]) : Expected(k, r)
  /\ k \in PoolConns /\ link[k] = "up" => auth[k].state = "ok"

\* dialAndAuth waits for each answer: on the login connection of a proper
\* client there is one message or one answer at a time.
QueueAlone(k) ==
  \A i, j \in 1 .. Len(queue) : queue[i].conn = k /\ queue[j].conn = k => i = j

Alone(k) ==
  /\ Len(wire[k]) <= 1 /\ Len(replies[k]) <= 1
  /\ QueueAlone(k)
  /\ \A v, w \in Workers : Working(v, k) /\ Working(w, k) => v = w
  /\ wire[k] # <<>> => ~InQueue(k) /\ ~InWork(k) /\ replies[k] = <<>>
  /\ InQueue(k) => ~InWork(k) /\ replies[k] = <<>>
  /\ InWork(k) => replies[k] = <<>>

ConnInv(k) ==
  /\ FitConn(k)
  /\ k = LoginOf(k) => Alone(k)
  /\ k \notin closed

ProperInv == \A k \in Conns : Proper(k) => ConnInv(k)

-----------------------------------------------------------------------------
(* Sequences: what the ends of a channel do                                *)

\* What Append adds.
LEMMA AppendFacts ==
  ASSUME NEW S, NEW s \in Seq(S), NEW e \in S
  PROVE  /\ Append(s, e) \in Seq(S) /\ Append(s, e) # <<>>
         /\ Len(Append(s, e)) = Len(s) + 1
         /\ Append(s, e)[Len(s) + 1] = e
         /\ \A i \in 1 .. Len(s) : Append(s, e)[i] = s[i]
         /\ Range(Append(s, e)) = Range(s) \cup {e}
<1>1. /\ Append(s, e) \in Seq(S) /\ Append(s, e) # <<>>
      /\ Len(Append(s, e)) = Len(s) + 1
      /\ Append(s, e)[Len(s) + 1] = e
      /\ \A i \in 1 .. Len(s) : Append(s, e)[i] = s[i]
  BY AppendProperties
<1>2. /\ DOMAIN s = 1 .. Len(s) /\ Len(s) \in Nat
      /\ DOMAIN Append(s, e) = 1 .. Len(s) + 1
  BY <1>1
<1>3. Range(Append(s, e)) = Range(s) \cup {e}
  BY <1>1, <1>2 DEF Range
<1> QED  BY <1>1, <1>3

\* What Head and Tail leave.
LEMMA TailFacts ==
  ASSUME NEW S, NEW s \in Seq(S), s # <<>>
  PROVE  /\ Head(s) \in S /\ Head(s) \in Range(s)
         /\ Tail(s) \in Seq(S) /\ Len(Tail(s)) = Len(s) - 1
         /\ Len(s) \in Nat \ {0} /\ Head(s) = s[1]
         /\ \A i \in 1 .. Len(s) - 1 : Tail(s)[i] = s[i + 1]
         /\ Range(Tail(s)) \subseteq Range(s)
         /\ Len(s) = 1 => Tail(s) = <<>>
<1>1. /\ Head(s) \in S /\ Tail(s) \in Seq(S) /\ Len(Tail(s)) = Len(s) - 1
      /\ Len(s) \in Nat \ {0} /\ Head(s) = s[1]
      /\ \A i \in 1 .. Len(s) - 1 : Tail(s)[i] = s[i + 1]
  BY HeadTailProperties, EmptySeq
<1>2. /\ DOMAIN s = 1 .. Len(s) /\ DOMAIN Tail(s) = 1 .. Len(s) - 1
  BY <1>1
<1>3. Head(s) \in Range(s) /\ Range(Tail(s)) \subseteq Range(s)
  <2>1. ASSUME NEW i \in 1 .. Len(s) - 1
        PROVE  Tail(s)[i] = s[i + 1] /\ i + 1 \in DOMAIN s
    BY <1>1, <1>2
  <2> QED  BY <1>1, <1>2, <2>1 DEF Range
<1>4. Len(s) = 1 => Tail(s) = <<>>
  <2> SUFFICES ASSUME Len(s) = 1
                PROVE  Tail(s) = <<>>
    OBVIOUS
  <2>1. Len(Tail(s)) = 0 /\ Tail(s) \in Seq(S)
    BY <1>1
  <2>2. \A t \in Seq(S) : t # <<>> => Len(t) \in Nat \ {0}
    BY EmptySeq
  <2> QED  BY <2>1, <2>2
<1> QED  BY <1>1, <1>3, <1>4

\* Nothing is in the empty sequence.
LEMMA EmptyFacts == Range(<<>>) = {} /\ Len(<<>>) = 0
BY DEF Range

\* Connections and messages.
LEMMA ConnFacts ==
  /\ PoolConns \subseteq Conns
  /\ \A k \in Conns : Owner(k) \in Clients
  /\ \A c \in Clients : <<c, Login>> \in Conns /\ Owner(<<c, Login>>) = c
  /\ \A k \in Conns : k \in PoolConns \/ k = LoginOf(k)
  /\ \A k \in PoolConns : k # LoginOf(k)
BY AuthAssumption DEF Conns, PoolConns, Owner, LoginOf

\* The fields of a message.
LEMMA MsgFacts ==
  ASSUME NEW k \in Conns, NEW t \in MsgTypes, NEW n \in Nat
  PROVE  /\ Msg(k, t, n) \in Message
         /\ Msg(k, t, n).conn = k /\ Msg(k, t, n).type = t
         /\ Msg(k, t, n).challenge = n
BY DEF Msg, Message

\* The fields of a reply.
LEMMA ReplyFacts ==
  ASSUME NEW t \in {"challenge", "ok", "denied", "file"}, NEW n \in Nat
  PROVE  /\ Reply(t, n) \in Answers
         /\ Reply(t, n).type = t /\ Reply(t, n).challenge = n
BY DEF Reply, Answers

\* The state of a connection that has been challenged.
LEMMA PendingType ==
  ASSUME NEW a \in AuthRec, NEW n \in Nat
  PROVE  LET p == [a EXCEPT !.state = "pending", !.challenge = n] IN
         p \in AuthRec /\ p.state = "pending" /\ p.challenge = n
BY DEF AuthRec

\* The state of a new connection.
LEMMA NewAuthType == NewAuth \in AuthRec
BY DEF NewAuth, AuthRec

-----------------------------------------------------------------------------
(* What the ends of the channels do                                        *)

\* Put appends to the wire.
LEMMA PutFacts ==
  ASSUME NetTypes, NEW k \in Conns, NEW m \in Message, m.conn = k, Put(k, m)
  PROVE  /\ wire' \in [Conns -> Seq(Message)]
         /\ \A j \in Conns : \A x \in Range(wire'[j]) : x.conn = j
         /\ \A j \in Conns : j # k => wire'[j] = wire[j]
         /\ Range(wire'[k]) = Range(wire[k]) \cup {m}
         /\ wire'[k] # <<>> /\ Len(wire'[k]) = Len(wire[k]) + 1
<1>1. wire[k] \in Seq(Message)
  BY DEF NetTypes
<1>2. wire'[k] = Append(wire[k], m) /\ \A j \in Conns : j # k => wire'[j] = wire[j]
  BY DEF NetTypes, Put
<1>3. /\ wire'[k] \in Seq(Message) /\ wire'[k] # <<>>
      /\ Len(wire'[k]) = Len(wire[k]) + 1
      /\ Range(wire'[k]) = Range(wire[k]) \cup {m}
  BY <1>1, <1>2, AppendFacts
<1>4. wire' \in [Conns -> Seq(Message)]
  BY <1>2, <1>3 DEF NetTypes, Put
<1> QED  BY <1>2, <1>3, <1>4 DEF NetTypes

\* A client takes the first answer.
LEMMA ConsumeFacts ==
  ASSUME NetTypes, NEW k \in Conns, NEW t, Got(k, t), Consume(k)
  PROVE  /\ replies' \in [Conns -> Seq(Answers)]
         /\ \A j \in Conns : j # k => replies'[j] = replies[j]
         /\ Range(replies'[k]) \subseteq Range(replies[k])
         /\ \A j \in Conns : Range(replies'[j]) \subseteq Range(replies[j])
         /\ Head(replies[k]) \in Range(replies[k])
         /\ Head(replies[k]) \in Answers /\ Head(replies[k]).type = t
         /\ replies[k] # <<>> /\ Len(replies[k]) \in Nat
         /\ Len(replies'[k]) = Len(replies[k]) - 1
         /\ Len(replies[k]) <= 1 => replies'[k] = <<>>
<1>1. replies[k] \in Seq(Answers) /\ replies[k] # <<>> /\ Head(replies[k]).type = t
  BY DEF NetTypes, Got
<1>2. replies'[k] = Tail(replies[k]) /\ \A j \in Conns : j # k => replies'[j] = replies[j]
  BY DEF NetTypes, Consume
<1>3. /\ replies'[k] \in Seq(Answers) /\ Head(replies[k]) \in Answers
      /\ Head(replies[k]) \in Range(replies[k])
      /\ Len(replies'[k]) = Len(replies[k]) - 1
      /\ Len(replies[k]) \in Nat \ {0}
      /\ Range(replies'[k]) \subseteq Range(replies[k])
      /\ Len(replies[k]) = 1 => replies'[k] = <<>>
  BY <1>1, <1>2, TailFacts
<1>4. replies' \in [Conns -> Seq(Answers)]
  BY <1>2, <1>3 DEF NetTypes, Consume
<1>5. Len(replies[k]) <= 1 => replies'[k] = <<>>
  BY <1>3
<1>6. \A j \in Conns : Range(replies'[j]) \subseteq Range(replies[j])
  BY <1>2, <1>3
<1> QED  BY <1>1, <1>2, <1>3, <1>4, <1>5, <1>6

\* A worker answers.
LEMMA AnswerFacts ==
  ASSUME NetTypes, WorkTypes, NEW w \in Workers, NEW r \in Answers,
         at[w] # "idle", Answer(w, r)
  PROVE  LET k == job[w].conn IN
         /\ k \in Conns
         /\ replies' \in [Conns -> Seq(Answers)]
         /\ \A j \in Conns : j # k => replies'[j] = replies[j]
         /\ Range(replies'[k]) = Range(replies[k]) \cup {r}
         /\ Len(replies[k]) \in Nat /\ Len(replies'[k]) = Len(replies[k]) + 1
<1> DEFINE k == job[w].conn
<1>1. k \in Conns /\ replies[k] \in Seq(Answers)
  BY DEF NetTypes, WorkTypes, Message
<1>2. replies'[k] = Append(replies[k], r) /\ \A j \in Conns : j # k => replies'[j] = replies[j]
  BY <1>1 DEF NetTypes, Answer
<1>3. /\ replies'[k] \in Seq(Answers) /\ Len(replies'[k]) = Len(replies[k]) + 1
      /\ Range(replies'[k]) = Range(replies[k]) \cup {r} /\ Len(replies[k]) \in Nat
  BY <1>1, <1>2, AppendFacts, LenProperties
<1>4. replies' \in [Conns -> Seq(Answers)]
  BY <1>1, <1>2, <1>3 DEF NetTypes, Answer
<1> QED  BY <1>1, <1>2, <1>3, <1>4

\* The event loop moves a frame to the channel.
LEMMA TrafficFacts ==
  ASSUME NetTypes, NEW k \in Conns, OnTraffic(k)
  PROVE  LET m == Head(wire[k]) IN
         /\ m \in Range(wire[k]) /\ m \in Message /\ m.conn = k
         /\ wire[k] # <<>> /\ Len(wire[k]) \in Nat
         /\ wire' \in [Conns -> Seq(Message)] /\ queue' \in Seq(Message)
         /\ \A j \in Conns : j # k => wire'[j] = wire[j]
         /\ \A j \in Conns : Range(wire'[j]) \subseteq Range(wire[j])
         /\ Len(wire'[k]) = Len(wire[k]) - 1
         /\ Len(wire[k]) <= 1 => wire'[k] = <<>>
         /\ Len(queue) \in Nat /\ Len(queue') = Len(queue) + 1
         /\ queue'[Len(queue) + 1] = m
         /\ \A i \in 1 .. Len(queue) : queue'[i] = queue[i]
         /\ Range(queue') = Range(queue) \cup {m}
<1> DEFINE m == Head(wire[k])
<1>1. wire[k] \in Seq(Message) /\ wire[k] # <<>> /\ queue \in Seq(Message)
  BY DEF NetTypes, OnTraffic
<1>2. /\ wire'[k] = Tail(wire[k]) /\ \A j \in Conns : j # k => wire'[j] = wire[j]
      /\ queue' = Append(queue, m)
  BY DEF NetTypes, OnTraffic
<1>3. /\ m \in Range(wire[k]) /\ m \in Message
      /\ wire'[k] \in Seq(Message) /\ Range(wire'[k]) \subseteq Range(wire[k])
      /\ Len(wire'[k]) = Len(wire[k]) - 1 /\ Len(wire[k]) \in Nat \ {0}
      /\ Len(wire[k]) = 1 => wire'[k] = <<>>
  BY <1>1, <1>2, TailFacts
<1>4. /\ queue' \in Seq(Message) /\ Range(queue') = Range(queue) \cup {m}
      /\ Len(queue) \in Nat /\ Len(queue') = Len(queue) + 1
      /\ queue'[Len(queue) + 1] = m
      /\ \A i \in 1 .. Len(queue) : queue'[i] = queue[i]
  <2> HIDE DEF m
  <2> QED  BY <1>1, <1>2, <1>3, AppendFacts, LenProperties
<1>5. wire' \in [Conns -> Seq(Message)]
  BY <1>2, <1>3 DEF NetTypes, OnTraffic
<1>6. m.conn = k
  BY <1>3 DEF NetTypes
<1>7. Len(wire[k]) <= 1 => wire'[k] = <<>>
  BY <1>3
<1>8. \A j \in Conns : Range(wire'[j]) \subseteq Range(wire[j])
  BY <1>2, <1>3
<1> HIDE DEF m
<1> QED  BY <1>1, <1>2, <1>3, <1>4, <1>5, <1>6, <1>7, <1>8 DEF m

\* A worker takes the first message of the channel.
LEMMA TakeFacts ==
  ASSUME NetTypes, NEW w \in Workers, Take(w)
  PROVE  /\ Head(queue) \in Range(queue) /\ Head(queue) \in Message
         /\ queue' \in Seq(Message) /\ Range(queue') \subseteq Range(queue)
         /\ Len(queue) \in Nat \ {0} /\ Len(queue') = Len(queue) - 1
         /\ Head(queue) = queue[1]
         /\ \A i \in 1 .. Len(queue) - 1 : queue'[i] = queue[i + 1]
BY TailFacts DEF NetTypes, Take

-----------------------------------------------------------------------------
(* The two kinds of worker steps                                           *)

\* The worker answers and is idle again; a refusal closes the connection.
Finish(w, r) ==
  /\ at[w] # "idle" /\ at' = [at EXCEPT ![w] = "idle"]
  /\ r \in Answers /\ Answer(w, r)
  /\ UNCHANGED <<clientVars, wire, queue, storeVars>>

Refusal(w) ==
  MissingKey(w) \/ VerifyFails(w) \/ TokenFails(w) \/ Reject(w)

\* The worker goes on with its message.
Advance(w) ==
  \/ Challenge(w) \/ PutSession(w) \/ SetKey(w) \/ SetContext(w)
  \/ TokenOK(w) \/ Gate(w)

\* What a refusal changes.
LEMMA RefusalFacts ==
  ASSUME NEW w \in Workers, Refusal(w)
  PROVE  /\ Finish(w, Reply("denied", 0))
         /\ closed' = closed \cup {job[w].conn}
         /\ at[w] \in {"empty", "sign", "guess", "token", "file"}
BY ReplyFacts DEF Refusal, Finish, MissingKey, VerifyFails, TokenFails, Reject,
                  Goto, Refuse

\* What an answer changes.
LEMMA FinishFacts ==
  ASSUME Types, NEW w \in Workers
  PROVE  /\ SendChallenge(w) => /\ Finish(w, Reply("challenge", ca[w].challenge))
                                /\ at[w] = "challenge" /\ closed' = closed
         /\ Accept(w) => /\ Finish(w, Reply("ok", 0))
                         /\ at[w] = "accept" /\ closed' = closed
         /\ Serve(w) => /\ Finish(w, Reply("file", 0))
                        /\ at[w] = "serve" /\ closed' = closed
<1>1. ca[w].challenge \in Nat
  BY DEF Types, WorkTypes, AuthRec
<1> QED  BY <1>1, ReplyFacts DEF Finish, SendChallenge, Accept, Serve, Goto

\* The kinds of steps a worker takes.
LEMMA WorkerCases ==
  ASSUME NEW w, Worker(w)
  PROVE  \/ Take(w) \/ Refusal(w) \/ Advance(w)
         \/ SendChallenge(w) \/ Accept(w) \/ Serve(w)
BY DEF Worker, Refusal, Advance

\* The session store and the contexts keep their types.
LEMMA AdvanceStore ==
  ASSUME Types, NEW w \in Workers, Advance(w)
  PROVE  StoreTypes'
<1> DEFINE k == job[w].conn
           pending == [NewAuth EXCEPT !.state = "pending", !.challenge = nonce + 1]
<1>1. k \in Conns /\ Owner(k) \in Clients
  BY ConnFacts DEF Types, WorkTypes, Message, Advance, Challenge, PutSession,
                   SetKey, SetContext, TokenOK, Gate, Goto
<1>2. /\ auth \in [Conns -> AuthRec] /\ nonce \in Nat /\ sessions \subseteq Clients
      /\ sessKey \in [Clients -> Clients \cup {NoKey}]
  BY DEF Types, StoreTypes
<1>3. CASE Challenge(w)
  <2>1. pending \in AuthRec
    <3>1. nonce + 1 \in Nat
      BY <1>2
    <3> QED  BY <3>1, NewAuthType, PendingType
  <2>2. /\ auth' = [auth EXCEPT ![k] = pending] /\ nonce' = nonce + 1
        /\ UNCHANGED <<sessions, sessKey>>
    BY <1>3 DEF Challenge
  <2> HIDE DEF k, pending
  <2> QED  BY <1>1, <1>2, <2>1, <2>2 DEF StoreTypes
<1>4. CASE SetContext(w) \/ TokenOK(w)
  <2>1. SessionAuth(Owner(k)) \in AuthRec
    BY <1>1, <1>2 DEF SessionAuth, AuthRec
  <2>2. /\ auth' = [auth EXCEPT ![k] = SessionAuth(Owner(k))]
        /\ UNCHANGED <<nonce, sessions, sessKey>>
    BY <1>4 DEF SetContext, TokenOK
  <2> HIDE DEF k
  <2> QED  BY <1>1, <1>2, <2>1, <2>2 DEF StoreTypes
<1>5. CASE PutSession(w) \/ SetKey(w) \/ Gate(w)
  <2>1. auth' = auth /\ nonce' = nonce
    BY <1>5 DEF PutSession, SetKey, Gate, storeVars
  <2>2. \/ sessions' = sessions \/ sessions' = sessions \cup {Owner(k)}
    BY <1>5 DEF PutSession, SetKey, Gate, storeVars
  <2>3. \/ sessKey' = sessKey \/ sessKey' = [sessKey EXCEPT ![Owner(k)] = Owner(k)]
    BY <1>5 DEF PutSession, SetKey, Gate, storeVars
  <2> HIDE DEF k
  <2> QED  BY <1>1, <1>2, <2>1, <2>2, <2>3 DEF StoreTypes
<1> QED  BY <1>3, <1>4, <1>5 DEF Advance

\* A worker that goes on keeps its message and stays out of the way.
LEMMA AdvanceFacts ==
  ASSUME Types, NEW w \in Workers, Advance(w)
  PROVE  /\ at[w] # "idle" /\ job[w] \in Message /\ job[w].conn \in Conns
         /\ at' \in [Workers -> Places] /\ at'[w] # "idle"
         /\ at'[w] \in Places \ MsgTypes
         /\ \A v \in Workers : v # w => at'[v] = at[v] /\ ca'[v] = ca[v]
         /\ ca' \in [Workers -> AuthRec] /\ job' = job
         /\ UNCHANGED <<clientVars, netVars>>
<1>1. /\ at[w] # "idle" /\ job' = job /\ UNCHANGED <<clientVars, netVars>>
      /\ \E p \in Places \ (MsgTypes \cup {"idle"}) : at' = [at EXCEPT ![w] = p]
  BY DEF Advance, Challenge, PutSession, SetKey, SetContext, TokenOK, Gate, Goto,
         Places, MsgTypes, netVars
<1>2. at \in [Workers -> Places] /\ ca \in [Workers -> AuthRec]
  BY DEF Types, WorkTypes
<1>3. /\ at' \in [Workers -> Places] /\ at'[w] # "idle"
      /\ at'[w] \in Places \ MsgTypes
      /\ \A v \in Workers : v # w => at'[v] = at[v]
  BY <1>1, <1>2
<1>4. job[w] \in Message /\ job[w].conn \in Conns
  BY <1>1 DEF Types, WorkTypes, Message
<1>5. ca' = ca \/ ca' = [ca EXCEPT ![w] = auth'[job[w].conn]]
  BY DEF Advance, Challenge, PutSession, SetKey, SetContext, TokenOK, Gate,
         storeVars
<1>6. auth'[job[w].conn] \in AuthRec
  BY <1>4, AdvanceStore DEF StoreTypes
<1> QED  BY <1>1, <1>2, <1>3, <1>4, <1>5, <1>6

-----------------------------------------------------------------------------
(* Types                                                                   *)

\* What an answer changes.
LEMMA FinishTypes ==
  ASSUME Types, NEW w \in Workers, NEW r, Finish(w, r),
         closed' \subseteq closed \cup {job[w].conn}
  PROVE  Types'
<1>1. r \in Answers /\ at[w] # "idle" /\ Answer(w, r)
  BY DEF Finish
<1>2. NetTypes'
  <2>1. job[w].conn \in Conns /\ replies' \in [Conns -> Seq(Answers)]
    BY <1>1, AnswerFacts DEF Types
  <2> QED  BY <2>1 DEF Types, NetTypes, Finish
<1>3. WorkTypes'
  <2>1. /\ at' = [at EXCEPT ![w] = "idle"] /\ job' = [job EXCEPT ![w] = NoJob]
        /\ ca' = [ca EXCEPT ![w] = NewAuth]
    BY DEF Finish, Answer
  <2>2. "idle" \in Places /\ "idle" \notin MsgTypes
    BY DEF Places, MsgTypes
  <2> QED  BY <2>1, <2>2, NewAuthType DEF Types, WorkTypes
<1>4. ClientTypes' /\ StoreTypes'
  BY DEF Types, Finish, ClientTypes, StoreTypes, clientVars, storeVars
<1> QED  BY <1>2, <1>3, <1>4 DEF Types

\* The types hold at the start.
LEMMA InitTypes == Init => Types
<1> SUFFICES ASSUME Init
             PROVE  Types
  OBVIOUS
<1>1. ClientTypes
  BY DEF Init, ClientTypes
<1>2. NetTypes
  BY EmptyFacts, EmptySeq DEF Init, NetTypes
<1>3. StoreTypes
  BY NewAuthType DEF Init, StoreTypes
<1>4. WorkTypes
  BY NewAuthType DEF Init, WorkTypes, Places, MsgTypes
<1> QED  BY <1>1, <1>2, <1>3, <1>4 DEF Types

\* Every step keeps the types.
LEMMA TypesStep == Types /\ [Next]_vars => Types'
<1> SUFFICES ASSUME Types, [Next]_vars
             PROVE  Types'
  OBVIOUS
<1> USE DEF Types
<1>1. ASSUME NEW c \in Clients, Hello(c)
      PROVE  Types'
  <2>1. /\ <<c, Login>> \in Conns
        /\ Msg(<<c, Login>>, "hello", 0) \in Message
        /\ Msg(<<c, Login>>, "hello", 0).conn = <<c, Login>>
    BY ConnFacts, MsgFacts DEF MsgTypes
  <2>2. NetTypes'
    BY <1>1, <2>1, PutFacts DEF Hello, NetTypes
  <2> QED  BY <1>1, <2>2 DEF Hello, ClientTypes, StoreTypes, WorkTypes,
                             storeVars, workVars
<1>2. ASSUME NEW c \in Clients, Sign(c)
      PROVE  Types'
  <2> DEFINE k == <<c, Login>>
             m == Msg(k, "sign", Head(replies[k]).challenge)
  <2>1. k \in Conns /\ Got(k, "challenge") /\ Consume(k) /\ Put(k, m)
    BY <1>2, ConnFacts DEF Sign
  <2>2. Head(replies[k]).challenge \in Nat /\ replies' \in [Conns -> Seq(Answers)]
    <3> HIDE DEF k
    <3> QED  BY <2>1, ConsumeFacts DEF Answers
  <2>3. m \in Message /\ m.conn = k
    <3> HIDE DEF k
    <3> QED  BY <2>1, <2>2, MsgFacts DEF MsgTypes, m
  <2>4. NetTypes'
    <3> HIDE DEF k, m
    <3> QED  BY <1>2, <2>1, <2>2, <2>3, PutFacts DEF Sign, NetTypes
  <2> QED  BY <1>2, <2>4 DEF Sign, ClientTypes, StoreTypes, WorkTypes,
                             storeVars, workVars
<1>3. ASSUME NEW c \in Clients, LoggedIn(c)
      PROVE  Types'
  <2>1. <<c, Login>> \in Conns
    BY ConnFacts
  <2>2. replies' \in [Conns -> Seq(Answers)]
    BY <1>3, <2>1, ConsumeFacts DEF LoggedIn
  <2>3. NetTypes'
    BY <1>3, <2>2 DEF LoggedIn, NetTypes
  <2> QED  BY <1>3, <2>3 DEF LoggedIn, ClientTypes, StoreTypes, WorkTypes,
                             storeVars, workVars
<1>4. ASSUME NEW k \in PoolConns, SendToken(k)
      PROVE  Types'
  <2>1. /\ k \in Conns /\ Msg(k, "token", 0) \in Message
        /\ Msg(k, "token", 0).conn = k
    BY ConnFacts, MsgFacts DEF MsgTypes
  <2>2. NetTypes'
    BY <1>4, <2>1, PutFacts DEF SendToken, NetTypes
  <2> QED  BY <1>4, <2>2 DEF SendToken, ClientTypes, StoreTypes, WorkTypes,
                             storeVars, workVars
<1>5. ASSUME NEW k \in PoolConns, JoinPool(k)
      PROVE  Types'
  <2>1. replies' \in [Conns -> Seq(Answers)]
    BY <1>5, ConnFacts, ConsumeFacts DEF JoinPool
  <2> QED  BY <1>5, <2>1 DEF JoinPool, NetTypes, ClientTypes, StoreTypes,
                             WorkTypes, storeVars, workVars
<1>6. ASSUME NEW k \in PoolConns, SendFile(k)
      PROVE  Types'
  <2>1. /\ k \in Conns /\ Msg(k, "file", 0) \in Message
        /\ Msg(k, "file", 0).conn = k
    BY ConnFacts, MsgFacts DEF MsgTypes
  <2>2. NetTypes'
    BY <1>6, <2>1, PutFacts DEF SendFile, NetTypes
  <2> QED  BY <1>6, <2>2 DEF SendFile, ClientTypes, StoreTypes, WorkTypes,
                             storeVars, workVars
<1>7. ASSUME NEW k \in PoolConns, ReceiveFile(k)
      PROVE  Types'
  <2>1. replies' \in [Conns -> Seq(Answers)]
    BY <1>7, ConnFacts, ConsumeFacts DEF ReceiveFile
  <2> QED  BY <1>7, <2>1 DEF ReceiveFile, NetTypes, ClientTypes, StoreTypes,
                             WorkTypes, storeVars, workVars
<1>8. ASSUME NEW c \in Clients, Stray(c)
      PROVE  Types'
  <2> DEFINE k == <<c, Login>>
  <2>1. PICK t \in MsgTypes : Put(k, Msg(k, t, 0))
    BY <1>8 DEF Stray, MsgTypes
  <2>2. k \in Conns
    BY ConnFacts
  <2> HIDE DEF k
  <2>3. Msg(k, t, 0) \in Message /\ Msg(k, t, 0).conn = k
    BY <2>2, MsgFacts
  <2>4. NetTypes'
    BY <1>8, <2>1, <2>2, <2>3, PutFacts DEF Stray, NetTypes
  <2> QED  BY <1>8, <2>4 DEF Stray, ClientTypes, StoreTypes, WorkTypes,
                             storeVars, workVars
<1>9. ASSUME NEW k \in Conns, OnTraffic(k)
      PROVE  Types'
  <2>1. NetTypes'
    BY <1>9, TrafficFacts DEF OnTraffic, NetTypes
  <2> QED  BY <1>9, <2>1 DEF OnTraffic, ClientTypes, StoreTypes, WorkTypes,
                             clientVars, storeVars, workVars
<1>10. ASSUME NEW w \in Workers, Take(w)
       PROVE  Types'
  <2>1. /\ Head(queue) \in Message /\ Head(queue).type \in MsgTypes
        /\ queue' \in Seq(Message)
    BY <1>10, TakeFacts DEF Message
  <2>2. /\ job' = [job EXCEPT ![w] = Head(queue)]
        /\ at' = [at EXCEPT ![w] = Head(queue).type]
        /\ UNCHANGED <<clientVars, wire, replies, closed, storeVars, ca>>
    BY <1>10 DEF Take
  <2>3. MsgTypes \subseteq Places
    BY DEF Places
  <2>4. WorkTypes'
    BY <2>1, <2>2, <2>3 DEF WorkTypes
  <2> QED  BY <2>1, <2>2, <2>4 DEF NetTypes, ClientTypes, StoreTypes, clientVars,
                                   storeVars
<1>11. ASSUME NEW w \in Workers, Advance(w)
       PROVE  Types'
  <2>1. StoreTypes'
    BY <1>11, AdvanceStore
  <2>2. WorkTypes'
    BY <1>11, AdvanceFacts DEF WorkTypes
  <2> QED  BY <1>11, <2>1, <2>2, AdvanceFacts DEF NetTypes, ClientTypes, netVars,
                                                  clientVars
<1>12. ASSUME NEW w \in Workers,
              Refusal(w) \/ SendChallenge(w) \/ Accept(w) \/ Serve(w)
       PROVE  Types'
  BY <1>12, FinishTypes, FinishFacts, RefusalFacts
<1>13. CASE UNCHANGED vars
  BY <1>13 DEF vars, clientVars, netVars, storeVars, workVars, NetTypes,
               ClientTypes, StoreTypes, WorkTypes
<1> QED
  BY <1>1, <1>2, <1>3, <1>4, <1>5, <1>6, <1>7, <1>8, <1>9, <1>10, <1>11, <1>12,
     <1>13, WorkerCases DEF Next, Client, Link

-----------------------------------------------------------------------------
(* Whose session it is                                                     *)

\* No session, no token and no handler at the start.
LEMMA InitOwner == Init => OwnerInv
<1> SUFFICES ASSUME Init
             PROVE  OwnerInv
  OBVIOUS
<1>1. \A k \in Conns : Owner(k) \in Clients
  BY ConnFacts
<1> QED  BY <1>1, EmptyFacts DEF Init, OwnerInv, StoreInv, TokenInv, WorkerInv,
                                 NewAuth

\* What a step of a client may do: it sends tokens only when it is ready, and
\* is ready only when its session is.
LEMMA ClientOwner ==
  ASSUME Types, OwnerInv, UNCHANGED <<queue, storeVars, workVars>>,
         \A c \in Clients : client[c] = "ready" => client'[c] = "ready",
         \A c \in Clients : client'[c] = "ready" => client[c] = "ready" \/ Ready(c),
         \A k \in Conns : \A m \in Range(wire'[k]) :
           \/ m \in Range(wire[k])
           \/ m.type = "token" => client[Owner(k)] = "ready",
         \A k \in Conns : Range(replies'[k]) \subseteq Range(replies[k])
  PROVE  OwnerInv'
<1>1. \A k \in Conns : Owner(k) \in Clients
  BY ConnFacts
<1>2. \A c : Ready(c)' <=> Ready(c)
  BY DEF Ready, storeVars
<1>3. StoreInv'
  BY <1>1, <1>2 DEF OwnerInv, StoreInv, storeVars
<1>4. TokenInv'
  <2>1. \A m \in Range(queue) : Owner(m.conn) \in Clients
    <3>1. \A m \in Range(queue) : m \in Message
      BY DEF Types, NetTypes, Range
    <3> QED  BY <1>1, <3>1 DEF Message
  <2> QED  BY <1>1, <2>1 DEF OwnerInv, TokenInv
<1>5. WorkerInv'
  <2>1. \A w \in Workers : at[w] # "idle" => Owner(job[w].conn) \in Clients
    BY <1>1 DEF Types, WorkTypes, Message
  <2> QED  BY <1>2, <2>1 DEF OwnerInv, WorkerInv, workVars, storeVars
<1> QED  BY <1>3, <1>4, <1>5 DEF OwnerInv

\* An answer that says yes only when the session is ready.
LEMMA FinishOwner ==
  ASSUME Types, OwnerInv, NEW w \in Workers, NEW r, Finish(w, r),
         r.type = "ok" => Ready(Owner(job[w].conn))
  PROVE  OwnerInv'
<1>1. \A c : Ready(c)' <=> Ready(c)
  BY DEF Ready, storeVars, Finish
<1>2. /\ job[w].conn \in Conns
      /\ \A j \in Conns : j # job[w].conn => replies'[j] = replies[j]
      /\ Range(replies'[job[w].conn]) = Range(replies[job[w].conn]) \cup {r}
  BY AnswerFacts DEF Types, Finish
<1>3. StoreInv'
  <2>1. \A k \in Conns : \A x \in Range(replies'[k]) :
          x \in Range(replies[k]) \/ (x = r /\ k = job[w].conn)
    BY <1>2
  <2> QED  BY <1>1, <2>1 DEF OwnerInv, StoreInv, Finish, storeVars, clientVars
<1>4. TokenInv'
  BY DEF OwnerInv, TokenInv, Finish, clientVars
<1>5. WorkerInv'
  <2>1. at' = [at EXCEPT ![w] = "idle"] /\ client' = client
    BY DEF Finish, clientVars
  <2>2. \A v \in Workers : v # w => at'[v] = at[v] /\ job'[v] = job[v] /\ ca'[v] = ca[v]
    BY <2>1 DEF Finish, Answer, Types, WorkTypes
  <2>3. at'[w] = "idle"
    BY <2>1 DEF Types, WorkTypes
  <2>4. sessions' = sessions /\ sessKey' = sessKey
    BY DEF Finish, storeVars
  <2> QED  BY <1>1, <2>1, <2>2, <2>3, <2>4 DEF OwnerInv, WorkerInv
<1> QED  BY <1>3, <1>4, <1>5 DEF OwnerInv

\* A worker goes on: it publishes the session, writes its key, and binds the
\* connection to it, in this order.
LEMMA AdvanceOwner ==
  ASSUME Types, OwnerInv, NEW w \in Workers, Advance(w)
  PROVE  OwnerInv'
<1> DEFINE k == job[w].conn
           c == Owner(k)
<1>1. /\ k \in Conns /\ c \in Clients /\ job' = job /\ at[w] # "idle"
      /\ \A v \in Workers : v # w => at'[v] = at[v] /\ ca'[v] = ca[v]
      /\ UNCHANGED <<clientVars, netVars>>
  BY AdvanceFacts, ConnFacts
<1>2. /\ \A x \in Conns : Owner(x) \in Clients
      /\ auth \in [Conns -> AuthRec] /\ at \in [Workers -> Places]
      /\ sessKey \in [Clients -> Clients \cup {NoKey}]
      /\ ca \in [Workers -> AuthRec]
  BY ConnFacts DEF Types, StoreTypes, WorkTypes
<1>3. UNCHANGED <<client, link, wire, queue, replies>>
  BY <1>1 DEF clientVars, netVars
<1>4. TokenInv'
  BY <1>3 DEF OwnerInv, TokenInv
<1>5. CASE Challenge(w)
  <2>1. /\ auth'[k].state = "pending" /\ \A j \in Conns : j # k => auth'[j] = auth[j]
        /\ at'[w] = "challenge"
    <3>1. nonce + 1 \in Nat
      BY DEF Types, StoreTypes
    <3>2. [NewAuth EXCEPT !.state = "pending", !.challenge = nonce + 1].state = "pending"
      BY <3>1, NewAuthType, PendingType
    <3> QED  BY <1>1, <1>2, <1>5, <3>2 DEF Challenge, Goto
  <2>2. sessions' = sessions /\ sessKey' = sessKey
    BY <1>5 DEF Challenge
  <2>3. \A x : Ready(x)' <=> Ready(x)
    BY <2>2 DEF Ready
  <2>4. StoreInv'
    BY <1>3, <2>1, <2>2, <2>3 DEF OwnerInv, StoreInv
  <2>5. WorkerInv'
    BY <1>1, <1>3, <2>1, <2>2, <2>3 DEF OwnerInv, WorkerInv
  <2> QED  BY <1>4, <2>4, <2>5 DEF OwnerInv
<1>6. CASE PutSession(w)
  <2>1. /\ sessions' = sessions \cup {c} /\ auth' = auth /\ sessKey' = sessKey
        /\ at'[w] = "key" /\ ca' = ca /\ c \in Authorized
    BY <1>1, <1>2, <1>6 DEF PutSession, Goto, Verified
  <2>2. \A x : Ready(x) => Ready(x)'
    BY <2>1 DEF Ready
  <2>3. StoreInv'
    BY <1>2, <1>3, <2>1, <2>2 DEF OwnerInv, StoreInv
  <2>4. WorkerInv'
    BY <1>1, <1>3, <2>1, <2>2 DEF OwnerInv, WorkerInv
  <2> QED  BY <1>4, <2>3, <2>4 DEF OwnerInv
<1>7. CASE SetKey(w)
  <2>1. /\ sessions' = sessions /\ auth' = auth
        /\ sessKey' = [sessKey EXCEPT ![c] = c]
        /\ at[w] = "key" /\ at'[w] = "context" /\ ca' = ca
    BY <1>1, <1>2, <1>7 DEF SetKey, Goto
  <2>2. c \in sessions
    BY <2>1 DEF OwnerInv, WorkerInv
  <2>3. (\A x \in Clients : Ready(x) => Ready(x)') /\ Ready(c)'
    BY <1>1, <1>2, <2>1, <2>2 DEF Ready
  <2>4. StoreInv'
    BY <1>2, <1>3, <2>1, <2>3 DEF OwnerInv, StoreInv
  <2>5. WorkerInv'
    <3>1. \A v \in Workers : at[v] # "idle" => Owner(job[v].conn) \in Clients
      BY <1>2 DEF Types, WorkTypes, Message
    <3> QED  BY <1>1, <1>3, <2>1, <2>3, <3>1 DEF OwnerInv, WorkerInv
  <2> QED  BY <1>4, <2>4, <2>5 DEF OwnerInv
<1>8. CASE SetContext(w) \/ TokenOK(w)
  <2>1. /\ sessions' = sessions /\ sessKey' = sessKey /\ ca' = ca
        /\ auth' = [auth EXCEPT ![k] = SessionAuth(c)]
        /\ at[w] \in {"context", "token"} /\ at'[w] = "accept"
    BY <1>1, <1>2, <1>8 DEF SetContext, TokenOK, Goto
  <2>2. Ready(c) /\ c \in Authorized
    BY <1>1, <2>1 DEF OwnerInv, WorkerInv, StoreInv, Ready
  <2>3. \A x : Ready(x)' <=> Ready(x)
    BY <2>1 DEF Ready
  <2>4. OwnAuth(SessionAuth(c), c)
    BY <2>2 DEF OwnAuth, SessionAuth, Ready
  <2>5. \A j \in Conns : auth'[j].state = "ok" => OwnAuth(auth'[j], Owner(j))
    <3>1. auth'[k] = SessionAuth(c) /\ \A j \in Conns : j # k => auth'[j] = auth[j]
      BY <1>1, <1>2, <2>1
    <3> QED  BY <2>4, <3>1 DEF OwnerInv, StoreInv
  <2>6. StoreInv'
    BY <1>2, <1>3, <2>1, <2>3, <2>5 DEF OwnerInv, StoreInv, OwnAuth
  <2>7. WorkerInv'
    BY <1>1, <1>3, <2>1, <2>2, <2>3 DEF OwnerInv, WorkerInv
  <2> QED  BY <1>4, <2>6, <2>7 DEF OwnerInv
<1>9. CASE Gate(w)
  <2>1. /\ UNCHANGED <<auth, sessions, sessKey>> /\ at'[w] = "serve"
        /\ auth[k].state = "ok" /\ ca'[w] = auth[k]
    BY <1>1, <1>2, <1>9 DEF Gate, Goto, storeVars
  <2>2. \A x : Ready(x)' <=> Ready(x)
    BY <2>1 DEF Ready
  <2>3. OwnAuth(ca'[w], c)
    BY <1>1, <2>1 DEF OwnerInv, StoreInv
  <2>4. StoreInv'
    BY <1>3, <2>1, <2>2 DEF OwnerInv, StoreInv
  <2>5. WorkerInv'
    BY <1>1, <1>3, <2>1, <2>2, <2>3 DEF OwnerInv, WorkerInv, OwnAuth
  <2> QED  BY <1>4, <2>4, <2>5 DEF OwnerInv
<1> QED  BY <1>5, <1>6, <1>7, <1>8, <1>9 DEF Advance

\* Every step keeps the sessions with their owners.
LEMMA OwnerStep ==
  ASSUME Types, OwnerInv, [Next]_vars
  PROVE  OwnerInv'
<1> USE DEF Types
<1>0. /\ \A k \in Conns : Owner(k) \in Clients
      /\ client \in [Clients -> {"start", "challenge", "result", "ready", "denied"}]
  BY ConnFacts DEF ClientTypes
<1>1. ASSUME NEW c \in Clients, Hello(c)
      PROVE  OwnerInv'
  <2> DEFINE k == <<c, Login>>
             m == Msg(k, "hello", 0)
  <2>1. k \in Conns
    BY ConnFacts
  <2>2. m \in Message /\ m.conn = k /\ m.type = "hello"
    <3> HIDE DEF k
    <3> QED  BY <2>1, MsgFacts DEF MsgTypes
  <2>3. Put(k, m) /\ client' = [client EXCEPT ![c] = "challenge"] /\ client[c] = "start"
        /\ UNCHANGED <<queue, replies, storeVars, workVars>>
    BY <1>1 DEF Hello
  <2> HIDE DEF k, m
  <2>4. /\ \A j \in Conns : j # k => wire'[j] = wire[j]
        /\ Range(wire'[k]) = Range(wire[k]) \cup {m}
    BY <2>1, <2>2, <2>3, PutFacts
  <2>5. \A j \in Conns : \A x \in Range(wire'[j]) : x \in Range(wire[j]) \/ x = m
    BY <2>4
  <2> QED  BY <1>0, <2>2, <2>3, <2>5, ClientOwner
<1>2. ASSUME NEW c \in Clients, Sign(c)
      PROVE  OwnerInv'
  <2> DEFINE k == <<c, Login>>
             m == Msg(k, "sign", Head(replies[k]).challenge)
  <2>1. k \in Conns
    BY ConnFacts
  <2>2. Put(k, m) /\ client' = [client EXCEPT ![c] = "result"] /\ client[c] = "challenge"
        /\ Got(k, "challenge") /\ Consume(k)
        /\ UNCHANGED <<queue, storeVars, workVars>>
    BY <1>2 DEF Sign
  <2> HIDE DEF k
  <2>3. /\ \A j \in Conns : Range(replies'[j]) \subseteq Range(replies[j])
        /\ Head(replies[k]).challenge \in Nat
    BY <2>1, <2>2, ConsumeFacts DEF Answers
  <2>4. m \in Message /\ m.conn = k /\ m.type = "sign"
    BY <2>1, <2>3, MsgFacts DEF MsgTypes
  <2> HIDE DEF m
  <2>5. /\ \A j \in Conns : j # k => wire'[j] = wire[j]
        /\ Range(wire'[k]) = Range(wire[k]) \cup {m}
    BY <2>1, <2>2, <2>4, PutFacts
  <2>6. \A j \in Conns : \A x \in Range(wire'[j]) : x \in Range(wire[j]) \/ x = m
    BY <2>5
  <2> QED  BY <1>0, <2>2, <2>3, <2>4, <2>6, ClientOwner
<1>3. ASSUME NEW c \in Clients, LoggedIn(c)
      PROVE  OwnerInv'
  <2> DEFINE k == <<c, Login>>
  <2>1. k \in Conns /\ Owner(k) = c
    BY ConnFacts
  <2>2. /\ \/ Got(k, "ok") /\ client' = [client EXCEPT ![c] = "ready"]
           \/ Got(k, "denied") /\ client' = [client EXCEPT ![c] = "denied"]
        /\ client[c] = "result" /\ Consume(k)
        /\ UNCHANGED <<wire, queue, storeVars, workVars>>
    BY <1>3 DEF LoggedIn
  <2> HIDE DEF k
  <2>3. \A j \in Conns : Range(replies'[j]) \subseteq Range(replies[j])
    BY <2>1, <2>2, ConsumeFacts
  <2>4. Got(k, "ok") => Ready(c)
    <3>1. Got(k, "ok") => Head(replies[k]) \in Range(replies[k]) /\ Head(replies[k]).type = "ok"
      BY <2>1, <2>2, ConsumeFacts
    <3> QED  BY <2>1, <3>1 DEF OwnerInv, StoreInv
  <2>5. /\ \A x \in Clients : client[x] = "ready" => client'[x] = "ready"
        /\ \A x \in Clients : client'[x] = "ready" => client[x] = "ready" \/ Ready(x)
    BY <1>0, <2>2, <2>4
  <2> QED  BY <2>2, <2>3, <2>5, ClientOwner
<1>4. ASSUME NEW k \in PoolConns, SendToken(k) \/ SendFile(k)
      PROVE  OwnerInv'
  <2>1. PICK t \in {"token", "file"} :
          /\ Put(k, Msg(k, t, 0))
          /\ t = "token" => client[Owner(k)] = "ready"
    BY <1>4 DEF SendToken, SendFile
  <2> DEFINE m == Msg(k, t, 0)
  <2>2. k \in Conns /\ UNCHANGED <<client, queue, replies, storeVars, workVars>>
    BY <1>4, ConnFacts DEF SendToken, SendFile
  <2>3. m \in Message /\ m.conn = k /\ m.type = t
    BY <2>2, MsgFacts DEF MsgTypes
  <2>4. Put(k, m)
    BY <2>1
  <2> HIDE DEF m
  <2>5. /\ \A j \in Conns : j # k => wire'[j] = wire[j]
        /\ Range(wire'[k]) = Range(wire[k]) \cup {m}
    BY <2>2, <2>3, <2>4, PutFacts
  <2>6. \A j \in Conns : \A x \in Range(wire'[j]) :
          x \in Range(wire[j]) \/ (j = k /\ x = m)
    BY <2>5
  <2> QED  BY <2>1, <2>2, <2>3, <2>6, ClientOwner
<1>5. ASSUME NEW k \in PoolConns, JoinPool(k) \/ ReceiveFile(k)
      PROVE  OwnerInv'
  <2>1. /\ k \in Conns /\ UNCHANGED <<client, wire, queue, storeVars, workVars>>
        /\ (Got(k, "ok") \/ Got(k, "file")) /\ Consume(k)
    BY <1>5, ConnFacts DEF JoinPool, ReceiveFile
  <2>2. \A j \in Conns : Range(replies'[j]) \subseteq Range(replies[j])
    BY <2>1, ConsumeFacts
  <2> QED  BY <2>1, <2>2, ClientOwner
<1>6. ASSUME NEW c \in Clients, Stray(c)
      PROVE  OwnerInv'
  <2> DEFINE k == <<c, Login>>
  <2>1. PICK t \in MsgTypes : Put(k, Msg(k, t, 0)) /\ (t = "token" => client[c] = "ready")
    BY <1>6 DEF Stray, MsgTypes
  <2>2. k \in Conns /\ Owner(k) = c /\ UNCHANGED <<client, queue, replies, storeVars, workVars>>
    BY <1>6, ConnFacts DEF Stray
  <2> HIDE DEF k
  <2> DEFINE m == Msg(k, t, 0)
  <2>3. m \in Message /\ m.conn = k /\ m.type = t
    BY <2>2, MsgFacts
  <2>4. Put(k, m)
    BY <2>1
  <2> HIDE DEF m
  <2>5. /\ \A j \in Conns : j # k => wire'[j] = wire[j]
        /\ Range(wire'[k]) = Range(wire[k]) \cup {m}
    BY <2>2, <2>3, <2>4, PutFacts
  <2>6. \A j \in Conns : \A x \in Range(wire'[j]) :
          x \in Range(wire[j]) \/ (j = k /\ x = m)
    BY <2>5
  <2> QED  BY <2>1, <2>2, <2>3, <2>6, ClientOwner
<1>7. ASSUME NEW k \in Conns, OnTraffic(k)
      PROVE  OwnerInv'
  <2>1. UNCHANGED <<clientVars, replies, storeVars, workVars>>
    BY <1>7 DEF OnTraffic
  <2>2. /\ \A j \in Conns : Range(wire'[j]) \subseteq Range(wire[j])
        /\ Range(queue') = Range(queue) \cup {Head(wire[k])}
        /\ Head(wire[k]) \in Range(wire[k]) /\ Head(wire[k]).conn = k
    BY <1>7, TrafficFacts
  <2>3. TokenInv'
    BY <2>1, <2>2 DEF OwnerInv, TokenInv, clientVars
  <2>4. StoreInv' /\ WorkerInv'
    BY <2>1 DEF OwnerInv, StoreInv, WorkerInv, Ready, OwnAuth, clientVars,
                storeVars, workVars
  <2> QED  BY <2>3, <2>4 DEF OwnerInv
<1>8. ASSUME NEW w \in Workers, Take(w)
      PROVE  OwnerInv'
  <2>1. /\ UNCHANGED <<clientVars, wire, replies, storeVars, ca>>
        /\ job' = [job EXCEPT ![w] = Head(queue)]
        /\ at' = [at EXCEPT ![w] = Head(queue).type]
    BY <1>8 DEF Take
  <2>2. Head(queue) \in Range(queue) /\ Range(queue') \subseteq Range(queue)
        /\ Head(queue) \in Message
    BY <1>8, TakeFacts
  <2>3. TokenInv'
    BY <2>1, <2>2 DEF OwnerInv, TokenInv, clientVars
  <2>4. StoreInv'
    BY <2>1 DEF OwnerInv, StoreInv, Ready, OwnAuth, clientVars, storeVars
  <2>5. WorkerInv'
    <3>1. /\ at'[w] = Head(queue).type /\ job'[w] = Head(queue)
          /\ \A v \in Workers : v # w => at'[v] = at[v] /\ job'[v] = job[v]
      BY <2>1 DEF WorkTypes
    <3>2. at'[w] \in MsgTypes
      BY <2>2, <3>1 DEF Message
    <3>3. at'[w] = "token" => client[Owner(job'[w].conn)] = "ready"
      BY <2>2, <3>1 DEF OwnerInv, TokenInv
    <3>4. client' = client /\ sessions' = sessions /\ sessKey' = sessKey /\ ca' = ca
      BY <2>1 DEF clientVars, storeVars
    <3> QED  BY <3>1, <3>2, <3>3, <3>4 DEF OwnerInv, WorkerInv, Ready, OwnAuth, MsgTypes
  <2> QED  BY <2>3, <2>4, <2>5 DEF OwnerInv
<1>9. ASSUME NEW w \in Workers,
             Refusal(w) \/ SendChallenge(w) \/ Accept(w) \/ Serve(w)
      PROVE  OwnerInv'
  <2>1. CASE Refusal(w)
    BY <2>1, RefusalFacts, FinishOwner, ReplyFacts
  <2>2. CASE SendChallenge(w)
    <3>1. ca[w].challenge \in Nat
      BY DEF WorkTypes, AuthRec
    <3>2. Reply("challenge", ca[w].challenge).type = "challenge"
      BY <3>1, ReplyFacts
    <3> QED  BY <2>2, <3>2, FinishFacts, FinishOwner
  <2>3. CASE Accept(w)
    <3>1. Ready(Owner(job[w].conn))
      BY <2>3, FinishFacts DEF OwnerInv, WorkerInv
    <3> QED  BY <2>3, <3>1, FinishFacts, FinishOwner
  <2>4. CASE Serve(w)
    BY <2>4, FinishFacts, FinishOwner, ReplyFacts
  <2> QED  BY <1>9, <2>1, <2>2, <2>3, <2>4
<1>10. CASE UNCHANGED vars
  BY <1>10 DEF vars, clientVars, netVars, storeVars, workVars, OwnerInv,
               StoreInv, TokenInv, WorkerInv, Ready, OwnAuth
<1> QED
  BY <1>1, <1>2, <1>3, <1>4, <1>5, <1>6, <1>7, <1>8, <1>9, <1>10, WorkerCases,
     AdvanceOwner DEF Next, Client, Link

\* Whatever other programs send and however the workers interleave, a handler
\* runs as the owner of its connection, with the owner's encryption key: the
\* token that lets a connection use a session reaches a client only after
\* handleAuth has written the key into the published session.
THEOREM OwnerRunsAll == Spec => []RunsAsOwner
<1>1. Init => Types /\ OwnerInv
  BY InitTypes, InitOwner
<1>2. Types /\ OwnerInv /\ [Next]_vars => (Types /\ OwnerInv)'
  BY TypesStep, OwnerStep
<1>3. OwnerInv => RunsAsOwner
  BY DEF OwnerInv, WorkerInv, OwnAuth, RunsAsOwner
<1> QED  BY <1>1, <1>2, <1>3, PTL DEF Spec

-----------------------------------------------------------------------------
(* A step leaves the other connections alone                               *)

\* What a proper client and the server know of connection k still holds.
Quiet(k) ==
  /\ k \in PoolConns => /\ auth[k].state = "ok" => auth'[k].state = "ok"
                        /\ link[k] = "up" => link'[k] = "up"
                        /\ link'[k] = "up" => link[k] = "up"
  /\ k = LoginOf(k) => /\ client'[Owner(k)] = client[Owner(k)]
                       /\ auth'[k] = auth[k]

Untouched(k) ==
  /\ Quiet(k)
  /\ wire'[k] = wire[k] /\ replies'[k] = replies[k]
  /\ \A m \in Range(queue') : m.conn = k => m \in Range(queue)
  /\ QueueAlone(k) => QueueAlone(k)'
  /\ \A w \in Workers :
       at'[w] # "idle" /\ job'[w].conn = k =>
         at'[w] = at[w] /\ job'[w] = job[w] /\ ca'[w] = ca[w]
  /\ k \in closed' => k \in closed

\* A message still fits if its client and its connection are as before.
LEMMA QuietFits ==
  ASSUME NEW k \in Conns, Quiet(k)
  PROVE  /\ \A m : Fits(k, m) => Fits(k, m)'
         /\ \A r : Expected(k, r) => Expected(k, r)'
BY ConnFacts DEF Quiet, Fits, Expected, Pending

\* A step of another connection changes nothing for this one.
LEMMA Frame ==
  ASSUME NEW k \in Conns, ConnInv(k), Untouched(k)
  PROVE  ConnInv(k)'
<1>1. /\ \A m : Fits(k, m) => Fits(k, m)'
      /\ \A r : Expected(k, r) => Expected(k, r)'
  BY QuietFits DEF Untouched
<1>2. \A w \in Workers :
        Working(w, k)' => /\ Working(w, k) /\ at'[w] = at[w] /\ job'[w] = job[w]
                          /\ ca'[w] = ca[w]
  BY DEF Untouched, Working
<1>3. InQueue(k)' => InQueue(k)
  BY DEF Untouched, InQueue
<1>4. InWork(k)' => InWork(k)
  BY <1>2 DEF InWork
<1>5. FitConn(k)'
  <2>1. ASSUME NEW w \in Workers, Working(w, k)'
        PROVE  (at[w] \in MsgTypes => Fits(k, job[w]))' /\ Serving(k, w)'
    <3>1. /\ Working(w, k) /\ at'[w] = at[w] /\ job'[w] = job[w] /\ ca'[w] = ca[w]
      BY <1>2, <2>1
    <3>2. (at[w] \in MsgTypes => Fits(k, job[w])) /\ Serving(k, w)
      BY <3>1 DEF ConnInv, FitConn
    <3>3. at'[w] \in MsgTypes => Fits(k, job[w])'
      BY <1>1, <3>1, <3>2
    <3>4. Serving(k, w)'
      BY <3>1, <3>2, ConnFacts DEF Serving, Untouched, Quiet, Pending
    <3> QED  BY <3>3, <3>4
  <2>2. \A m \in Range(wire'[k]) : Fits(k, m)'
    BY <1>1 DEF Untouched, ConnInv, FitConn
  <2>3. \A m \in Range(queue') : m.conn = k => Fits(k, m)'
    BY <1>1 DEF Untouched, ConnInv, FitConn
  <2>4. \A r \in Range(replies'[k]) : Expected(k, r)'
    BY <1>1 DEF Untouched, ConnInv, FitConn
  <2>5. k \in PoolConns /\ link'[k] = "up" => auth'[k].state = "ok"
    BY DEF Untouched, Quiet, ConnInv, FitConn
  <2> QED  BY <2>1, <2>2, <2>3, <2>4, <2>5 DEF FitConn
<1>6. ASSUME k = LoginOf(k)
      PROVE  Alone(k)'
  <2>1. Alone(k)
    BY <1>6 DEF ConnInv
  <2> QED  BY <1>2, <1>3, <1>4, <2>1 DEF Alone, Untouched
<1> QED  BY <1>5, <1>6 DEF ConnInv, Untouched, LoginOf

\* A step of one connection that spares the others.
LEMMA FrameOthers ==
  ASSUME ProperInv, NEW k,
         \A j \in Conns : Proper(j) /\ j # k => Untouched(j),
         k \in Conns /\ Proper(k) => ConnInv(k)'
  PROVE  ProperInv'
<1> SUFFICES ASSUME NEW j \in Conns, Proper(j)
             PROVE  ConnInv(j)'
  BY DEF ProperInv, Proper
<1> QED  BY Frame DEF ProperInv

-----------------------------------------------------------------------------
(* The login connection                                                    *)

\* Before the login and after it, nothing is under way on the connection.
LEMMA NothingThere ==
  ASSUME Types, NEW k \in Conns, k = LoginOf(k), ConnInv(k),
         client[Owner(k)] \notin {"challenge", "result"}
  PROVE  wire[k] = <<>> /\ replies[k] = <<>> /\ ~InQueue(k) /\ ~InWork(k)
<1>1. /\ k \notin PoolConns /\ wire[k] \in Seq(Message) /\ replies[k] \in Seq(Answers)
  BY ConnFacts DEF Types, NetTypes
<1>2. /\ \A m : ~Fits(k, m)
      /\ \A r : ~Expected(k, r)
  BY <1>1 DEF Fits, Expected
<1>3. wire[k] = <<>> /\ replies[k] = <<>>
  BY <1>1, <1>2, TailFacts DEF ConnInv, FitConn
<1>4. ~InQueue(k)
  BY <1>2 DEF ConnInv, FitConn, InQueue
<1>5. ASSUME NEW w \in Workers, Working(w, k)
      PROVE  FALSE
  <2>1. at[w] \notin MsgTypes /\ Serving(k, w)
    BY <1>2, <1>5 DEF ConnInv, FitConn
  <2>2. at[w] \in {"challenge", "key", "context", "accept", "serve"}
    BY <1>5, <2>1 DEF Types, WorkTypes, Places, Working
  <2> QED  BY <1>1, <2>1, <2>2 DEF Serving
<1> QED  BY <1>3, <1>4, <1>5 DEF InWork

\* One message on the wire and nothing else.
LEMMA OnlyWire ==
  ASSUME NEW k \in Conns, NEW m, k = LoginOf(k), ~InQueue(k)', ~InWork(k)',
         replies'[k] = <<>>, Range(wire'[k]) = {m}, Len(wire'[k]) <= 1,
         Fits(k, m)', QueueAlone(k)', k \notin closed'
  PROVE  ConnInv(k)'
<1>1. k \notin PoolConns
  BY ConnFacts
<1>2. FitConn(k)'
  <2>1. \A x \in Range(queue') : x.conn # k
    BY DEF InQueue
  <2>2. \A w \in Workers : ~Working(w, k)'
    BY DEF InWork
  <2> QED  BY <1>1, <2>1, <2>2, EmptyFacts DEF FitConn
<1>3. Alone(k)'
  <2>1. \A w \in Workers : ~Working(w, k)'
    BY DEF InWork
  <2> QED  BY <2>1, EmptyFacts DEF Alone
<1> QED  BY <1>2, <1>3 DEF ConnInv

\* Nothing at all.
LEMMA NothingLeft ==
  ASSUME NEW k \in Conns, k = LoginOf(k), ~InQueue(k)', ~InWork(k)',
         replies'[k] = <<>>, wire'[k] = <<>>, QueueAlone(k)', k \notin closed'
  PROVE  ConnInv(k)'
<1>1. k \notin PoolConns
  BY ConnFacts
<1>2. \A w \in Workers : ~Working(w, k)'
  BY DEF InWork
<1>3. FitConn(k)'
  BY <1>1, <1>2, EmptyFacts DEF FitConn, InQueue
<1>4. Alone(k)'
  BY <1>2, EmptyFacts DEF Alone
<1> QED  BY <1>3, <1>4 DEF ConnInv

\* The steps of a client leave the server and its other connections alone.
LEMMA ClientOthers ==
  ASSUME NEW k, UNCHANGED <<queue, closed, storeVars, workVars>>,
         \A j \in Conns : j # k =>
           /\ wire'[j] = wire[j] /\ replies'[j] = replies[j]
           /\ j \in PoolConns => link'[j] = link[j]
           /\ j = LoginOf(j) => client'[Owner(j)] = client[Owner(j)]
  PROVE  \A j \in Conns : j # k => Untouched(j)
BY DEF Untouched, Quiet, QueueAlone, storeVars, workVars

-----------------------------------------------------------------------------
(* The steps of the clients                                                *)

\* A login begins on a connection that carries nothing.
LEMMA ProperHello ==
  ASSUME Types, ProperInv, NEW c \in Clients, Hello(c)
  PROVE  ProperInv'
<1> DEFINE k == <<c, Login>>
           m == Msg(k, "hello", 0)
<1>1. k \in Conns /\ Owner(k) = c /\ k = LoginOf(k)
  BY ConnFacts DEF LoginOf
<1>2. m \in Message /\ m.conn = k /\ m.type = "hello"
  <2> HIDE DEF k
  <2> QED  BY <1>1, MsgFacts DEF MsgTypes
<1>3. /\ Put(k, m) /\ client[c] = "start" /\ client' = [client EXCEPT ![c] = "challenge"]
      /\ UNCHANGED <<link, queue, replies, closed, storeVars, workVars>>
  BY DEF Hello
<1> HIDE DEF k, m
<1>4. /\ \A j \in Conns : j # k => wire'[j] = wire[j]
      /\ Range(wire'[k]) = Range(wire[k]) \cup {m}
      /\ Len(wire'[k]) = Len(wire[k]) + 1
  BY <1>1, <1>2, <1>3, PutFacts DEF Types
<1>5. client'[c] = "challenge" /\ \A x \in Clients : x # c => client'[x] = client[x]
  BY <1>3 DEF Types, ClientTypes
<1>6. \A j \in Conns : j # k => Untouched(j)
  <2>1. \A j \in Conns : j # k /\ j = LoginOf(j) => Owner(j) # c /\ Owner(j) \in Clients
    BY ConnFacts DEF LoginOf, k
  <2> QED  BY <1>3, <1>4, <1>5, <2>1, ClientOthers
<1>7. ASSUME Proper(k)
      PROVE  ConnInv(k)'
  <2>1. ConnInv(k)
    BY <1>1, <1>7 DEF ProperInv
  <2>2. wire[k] = <<>> /\ replies[k] = <<>> /\ ~InQueue(k) /\ ~InWork(k)
    BY <1>1, <1>3, <2>1, NothingThere
  <2>3. ~InQueue(k)' /\ ~InWork(k)' /\ (QueueAlone(k) => QueueAlone(k)')
    BY <1>3, <2>2 DEF InQueue, InWork, Working, QueueAlone, workVars
  <2>4. Range(wire'[k]) = {m} /\ Len(wire'[k]) <= 1 /\ replies'[k] = <<>>
    BY <1>3, <1>4, <2>2, EmptyFacts
  <2>5. Fits(k, m)'
    BY <1>1, <1>2, <1>5 DEF Fits
  <2> QED  BY <1>1, <1>3, <2>1, <2>3, <2>4, <2>5, OnlyWire DEF ConnInv, Alone
<1> QED  BY <1>6, <1>7, FrameOthers

\* The challenge that is signed is the one that is pending.
LEMMA ProperSign ==
  ASSUME Types, ProperInv, NEW c \in Clients, Sign(c)
  PROVE  ProperInv'
<1> DEFINE k == <<c, Login>>
<1>0. PICK m : m = Msg(k, "sign", Head(replies[k]).challenge)
  OBVIOUS
<1>1. k \in Conns /\ Owner(k) = c /\ k = LoginOf(k)
  BY ConnFacts DEF LoginOf
<1>2. /\ Put(k, m) /\ client[c] = "challenge" /\ client' = [client EXCEPT ![c] = "result"]
      /\ Got(k, "challenge") /\ Consume(k)
      /\ UNCHANGED <<link, queue, closed, storeVars, workVars>>
  BY <1>0 DEF Sign
<1> HIDE DEF k
<1>3. /\ \A j \in Conns : j # k => replies'[j] = replies[j]
      /\ Head(replies[k]) \in Range(replies[k]) /\ Head(replies[k]) \in Answers
      /\ Head(replies[k]).type = "challenge" /\ replies[k] # <<>>
      /\ Len(replies[k]) <= 1 => replies'[k] = <<>>
  BY <1>1, <1>2, ConsumeFacts DEF Types
<1>4. /\ m \in Message /\ m.conn = k /\ m.type = "sign"
      /\ m.challenge = Head(replies[k]).challenge
  BY <1>0, <1>1, <1>3, MsgFacts DEF MsgTypes, Answers
<1>5. /\ \A j \in Conns : j # k => wire'[j] = wire[j]
      /\ Range(wire'[k]) = Range(wire[k]) \cup {m}
      /\ Len(wire'[k]) = Len(wire[k]) + 1
  BY <1>1, <1>2, <1>4, PutFacts DEF Types
<1>6. client'[c] = "result" /\ \A x \in Clients : x # c => client'[x] = client[x]
  BY <1>2 DEF Types, ClientTypes
<1>7. \A j \in Conns : j # k => Untouched(j)
  <2>1. \A j \in Conns : j # k /\ j = LoginOf(j) => Owner(j) # c /\ Owner(j) \in Clients
    BY ConnFacts DEF LoginOf, k
  <2> QED  BY <1>2, <1>3, <1>5, <1>6, <2>1, ClientOthers
<1>8. ASSUME Proper(k)
      PROVE  ConnInv(k)'
  <2>1. ConnInv(k) /\ Alone(k)
    BY <1>1, <1>8 DEF ProperInv, ConnInv
  <2>2. wire[k] = <<>> /\ ~InQueue(k) /\ ~InWork(k) /\ replies'[k] = <<>>
    BY <1>3, <2>1 DEF Alone
  <2>3. ~InQueue(k)' /\ ~InWork(k)' /\ (QueueAlone(k) => QueueAlone(k)')
    BY <1>2, <2>2 DEF InQueue, InWork, Working, QueueAlone, workVars
  <2>4. Range(wire'[k]) = {m} /\ Len(wire'[k]) <= 1
    BY <1>5, <2>2, EmptyFacts
  <2>5. Expected(k, Head(replies[k]))
    BY <1>3, <2>1 DEF ConnInv, FitConn
  <2>6. Pending(k, m.challenge)
    BY <1>3, <1>4, <2>5 DEF Expected
  <2>7. Fits(k, m)'
    BY <1>1, <1>2, <1>4, <1>6, <2>6 DEF Fits, Pending, storeVars
  <2> QED  BY <1>1, <1>2, <2>1, <2>2, <2>3, <2>4, <2>7, OnlyWire DEF ConnInv, Alone
<1> QED  BY <1>7, <1>8, FrameOthers

\* The answer to a login was the last message on its connection.
LEMMA ProperLoggedIn ==
  ASSUME Types, ProperInv, NEW c \in Clients, LoggedIn(c)
  PROVE  ProperInv'
<1> DEFINE k == <<c, Login>>
<1>1. k \in Conns /\ Owner(k) = c /\ k = LoginOf(k)
  BY ConnFacts DEF LoginOf
<1>2. /\ Got(k, "ok") \/ Got(k, "denied")
      /\ \E v : client' = [client EXCEPT ![c] = v]
      /\ Consume(k)
      /\ UNCHANGED <<link, wire, queue, closed, storeVars, workVars>>
  BY DEF LoggedIn
<1> HIDE DEF k
<1>3. /\ \A j \in Conns : j # k => replies'[j] = replies[j]
      /\ replies[k] # <<>>
      /\ Len(replies[k]) <= 1 => replies'[k] = <<>>
  BY <1>1, <1>2, ConsumeFacts DEF Types
<1>4. \A x \in Clients : x # c => client'[x] = client[x]
  BY <1>2 DEF Types, ClientTypes
<1>5. \A j \in Conns : j # k => Untouched(j)
  <2>1. \A j \in Conns : j # k /\ j = LoginOf(j) => Owner(j) # c /\ Owner(j) \in Clients
    BY ConnFacts DEF LoginOf, k
  <2> QED  BY <1>2, <1>3, <1>4, <2>1, ClientOthers
<1>6. ASSUME Proper(k)
      PROVE  ConnInv(k)'
  <2>1. ConnInv(k) /\ Alone(k)
    BY <1>1, <1>6 DEF ProperInv, ConnInv
  <2>2. wire[k] = <<>> /\ ~InQueue(k) /\ ~InWork(k) /\ replies'[k] = <<>>
    BY <1>3, <2>1 DEF Alone
  <2>3. ~InQueue(k)' /\ ~InWork(k)' /\ (QueueAlone(k) => QueueAlone(k)')
    BY <1>2, <2>2 DEF InQueue, InWork, Working, QueueAlone, workVars
  <2> QED  BY <1>1, <1>2, <2>1, <2>2, <2>3, NothingLeft DEF ConnInv, Alone
<1> QED  BY <1>5, <1>6, FrameOthers

\* The connections of the pool: only what is in flight has to fit.
LEMMA ProperLink ==
  ASSUME Types, ProperInv, NEW k \in PoolConns, Link(k)
  PROVE  ProperInv'
<1>1. k \in Conns /\ k # LoginOf(k)
  BY ConnFacts
<1>2. UNCHANGED <<client, queue, closed, storeVars, workVars>>
  BY DEF Link, SendToken, JoinPool, SendFile, ReceiveFile
<1>3. link' = link \/ \E v : link' = [link EXCEPT ![k] = v]
  BY DEF Link, SendToken, JoinPool, SendFile, ReceiveFile
<1>4. \A j \in PoolConns : j # k => link'[j] = link[j]
  BY <1>3 DEF Types, ClientTypes
<1>5. CASE SendToken(k) \/ SendFile(k)
  <2>1. PICK t \in {"token", "file"} :
          /\ Put(k, Msg(k, t, 0))
          /\ t = "file" => link[k] = "up"
    BY <1>5 DEF SendToken, SendFile
  <2> DEFINE m == Msg(k, t, 0)
  <2>2. m \in Message /\ m.conn = k /\ m.type = t
    BY <1>1, MsgFacts DEF MsgTypes
  <2>3. Put(k, m) /\ replies' = replies
    BY <1>5, <2>1 DEF SendToken, SendFile
  <2> HIDE DEF m
  <2>4. /\ \A j \in Conns : j # k => wire'[j] = wire[j]
        /\ Range(wire'[k]) = Range(wire[k]) \cup {m}
    BY <1>1, <2>2, <2>3, PutFacts DEF Types
  <2>5. \A j \in Conns : j # k => Untouched(j)
    BY <1>2, <1>4, <2>3, <2>4, ClientOthers
  <2>6. link' = link \/ (link[k] # "up" /\ link'[k] # "up")
    BY <1>5 DEF SendToken, SendFile, Types, ClientTypes
  <2>7. ASSUME Proper(k)
        PROVE  ConnInv(k)'
    <3>1. ConnInv(k)
      BY <1>1, <2>7 DEF ProperInv
    <3>2. /\ \A x : Fits(k, x) => Fits(k, x)'
          /\ \A r : Expected(k, r) => Expected(k, r)'
      <4>1. Quiet(k)
        BY <1>1, <1>2, <2>6 DEF Quiet, storeVars
      <4> QED  BY <1>1, <4>1, QuietFits
    <3>3. Fits(k, m)'
      <4>1. Fits(k, m)
        BY <2>1, <2>2 DEF Fits
      <4> QED  BY <3>2, <4>1
    <3>4. \A w \in Workers : Working(w, k)' => Working(w, k)
      BY <1>2 DEF Working, workVars
    <3>5. \A w \in Workers : Serving(k, w) => Serving(k, w)'
      BY <1>1, <1>2 DEF Serving, workVars, storeVars
    <3>6. FitConn(k)'
      BY <1>2, <2>3, <2>4, <2>6, <3>1, <3>2, <3>3, <3>4, <3>5
         DEF ConnInv, FitConn, workVars, storeVars
    <3> QED  BY <1>1, <1>2, <3>1, <3>6 DEF ConnInv
  <2> QED  BY <2>5, <2>7, FrameOthers
<1>6. CASE JoinPool(k) \/ ReceiveFile(k)
  <2>1. /\ (JoinPool(k) /\ Got(k, "ok")) \/ Got(k, "file")
        /\ Consume(k) /\ wire' = wire
    BY <1>6 DEF JoinPool, ReceiveFile
  <2>2. /\ \A j \in Conns : j # k => replies'[j] = replies[j]
        /\ Range(replies'[k]) \subseteq Range(replies[k])
        /\ Head(replies[k]) \in Range(replies[k])
    BY <1>1, <2>1, ConsumeFacts DEF Types
  <2>3. \A j \in Conns : j # k => Untouched(j)
    BY <1>2, <1>4, <2>1, <2>2, ClientOthers
  <2>4. ASSUME Proper(k)
        PROVE  ConnInv(k)'
    <3>1. ConnInv(k)
      BY <1>1, <2>4 DEF ProperInv
    <3>2. link'[k] = "up" => auth[k].state = "ok"
      <4>1. CASE ReceiveFile(k)
        BY <3>1, <4>1 DEF ReceiveFile, ConnInv, FitConn
      <4>2. CASE JoinPool(k)
        <5>1. Expected(k, Head(replies[k])) /\ Head(replies[k]).type = "ok"
          BY <2>2, <3>1, <4>2 DEF ConnInv, FitConn, JoinPool, Got
        <5> QED  BY <1>1, <5>1 DEF Expected
      <4> QED  BY <1>6, <4>1, <4>2
    <3>3. link[k] = "up" => link'[k] = "up"
      BY <1>6 DEF JoinPool, ReceiveFile
    <3>4. /\ \A x : Fits(k, x) => Fits(k, x)'
          /\ \A r : Expected(k, r) => Expected(k, r)'
      BY <1>1, <1>2, <3>3 DEF Fits, Expected, storeVars
    <3>5. \A w \in Workers : Working(w, k)' => Working(w, k)
      BY <1>2 DEF Working, workVars
    <3>6. \A w \in Workers : Serving(k, w) => Serving(k, w)'
      BY <1>1, <1>2 DEF Serving, workVars, storeVars
    <3>7. FitConn(k)'
      BY <1>2, <2>1, <2>2, <3>1, <3>2, <3>4, <3>5, <3>6
         DEF ConnInv, FitConn, workVars, storeVars
    <3> QED  BY <1>1, <1>2, <3>1, <3>7 DEF ConnInv
  <2> QED  BY <2>3, <2>4, FrameOthers
<1> QED  BY <1>5, <1>6 DEF Link

\* A stray message is on the login connection of a careless client.
LEMMA ProperStray ==
  ASSUME Types, ProperInv, NEW c \in Clients, Stray(c)
  PROVE  ProperInv'
<1> DEFINE k == <<c, Login>>
<1>1. PICK t \in MsgTypes : Put(k, Msg(k, t, 0))
  BY DEF Stray, MsgTypes
<1>2. /\ k \in Conns /\ Owner(k) = c /\ c \in Careless
      /\ UNCHANGED <<client, link, queue, replies, closed, storeVars, workVars>>
  BY ConnFacts DEF Stray
<1> HIDE DEF k
<1>3. Msg(k, t, 0) \in Message /\ Msg(k, t, 0).conn = k
  BY <1>2, MsgFacts
<1>4. \A j \in Conns : j # k => wire'[j] = wire[j]
  BY <1>1, <1>2, <1>3, PutFacts DEF Types
<1>5. \A j \in Conns : j # k => Untouched(j)
  BY <1>2, <1>4, ClientOthers
<1>6. ~Proper(k)
  BY <1>2 DEF Proper
<1> QED  BY <1>5, <1>6, FrameOthers

-----------------------------------------------------------------------------
(* The steps of the server                                                 *)

\* A message moves from the wire to the queue.
LEMMA ProperTraffic ==
  ASSUME Types, ProperInv, NEW k \in Conns, OnTraffic(k)
  PROVE  ProperInv'
<1>1. UNCHANGED <<client, link, replies, closed, auth, at, job, ca>>
  BY DEF OnTraffic, clientVars, storeVars, workVars
<1>2. PICK m : m = Head(wire[k])
  OBVIOUS
<1>3. /\ m \in Range(wire[k]) /\ m.conn = k /\ wire[k] # <<>>
      /\ \A j \in Conns : j # k => wire'[j] = wire[j]
      /\ Range(wire'[k]) \subseteq Range(wire[k])
      /\ Len(wire[k]) <= 1 => wire'[k] = <<>>
      /\ Len(queue) \in Nat /\ Len(queue') = Len(queue) + 1
      /\ queue'[Len(queue) + 1] = m
      /\ \A i \in 1 .. Len(queue) : queue'[i] = queue[i]
      /\ Range(queue') = Range(queue) \cup {m}
  BY <1>2, TrafficFacts DEF Types
<1>4. \A i \in 1 .. Len(queue') : i \in 1 .. Len(queue) \/ i = Len(queue) + 1
  BY <1>3
<1>5. ASSUME NEW j \in Conns, j # k
      PROVE  Untouched(j)
  <2>1. QueueAlone(j) => QueueAlone(j)'
    <3> SUFFICES ASSUME QueueAlone(j), NEW a \in 1 .. Len(queue'), NEW b \in 1 .. Len(queue'),
                        queue'[a].conn = j, queue'[b].conn = j
                 PROVE  a = b
      BY DEF QueueAlone
    <3>1. a \in 1 .. Len(queue) /\ b \in 1 .. Len(queue)
      BY <1>3, <1>4, <1>5
    <3> QED  BY <1>3, <3>1 DEF QueueAlone
  <2> QED  BY <1>1, <1>3, <1>5, <2>1 DEF Untouched, Quiet
<1>6. ASSUME Proper(k)
      PROVE  ConnInv(k)'
  <2>1. ConnInv(k)
    BY <1>6 DEF ProperInv
  <2>2. /\ \A x : Fits(k, x) => Fits(k, x)'
        /\ \A r : Expected(k, r) => Expected(k, r)'
    BY <1>1, QuietFits DEF Quiet
  <2>3. \A w \in Workers : /\ Working(w, k)' <=> Working(w, k)
                           /\ Serving(k, w) => Serving(k, w)'
    BY <1>1 DEF Working, Serving, Pending
  <2>4. FitConn(k)'
    BY <1>1, <1>3, <2>1, <2>2, <2>3 DEF ConnInv, FitConn
  <2>5. ASSUME k = LoginOf(k)
        PROVE  Alone(k)'
    <3>1. /\ Alone(k) /\ ~InQueue(k) /\ ~InWork(k) /\ replies[k] = <<>>
          /\ wire'[k] = <<>>
      BY <1>3, <2>1, <2>5 DEF ConnInv, Alone
    <3>2. ~InWork(k)' /\ \A w \in Workers : ~Working(w, k)'
      BY <2>3, <3>1 DEF InWork
    <3>3. QueueAlone(k)'
      <4>1. \A i \in 1 .. Len(queue) : queue[i].conn # k
        BY <3>1 DEF InQueue, Range, Types, NetTypes
      <4>2. \A i \in 1 .. Len(queue') : queue'[i].conn = k => i = Len(queue) + 1
        BY <1>3, <1>4, <4>1
      <4> QED  BY <4>2 DEF QueueAlone
    <3> QED  BY <1>1, <3>1, <3>2, <3>3, EmptyFacts DEF Alone
  <2> QED  BY <1>1, <2>1, <2>4, <2>5 DEF ConnInv, LoginOf
<1> QED  BY <1>5, <1>6, FrameOthers

\* A message moves from the queue to a worker.
LEMMA ProperTake ==
  ASSUME Types, ProperInv, NEW w \in Workers, Take(w)
  PROVE  ProperInv'
<1>1. PICK m : m = Head(queue)
  OBVIOUS
<1>2. PICK k : k = m.conn
  OBVIOUS
<1>3. UNCHANGED <<client, link, wire, replies, closed, auth, ca>>
  BY DEF Take, clientVars, storeVars
<1>4. /\ m \in Range(queue) /\ m \in Message /\ Range(queue') \subseteq Range(queue)
      /\ Len(queue) \in Nat \ {0} /\ Len(queue') = Len(queue) - 1
      /\ m = queue[1]
      /\ \A i \in 1 .. Len(queue) - 1 : queue'[i] = queue[i + 1]
  BY <1>1, TakeFacts DEF Types
<1>5. k \in Conns /\ m.type \in MsgTypes /\ m.type # "idle"
  BY <1>2, <1>4 DEF Message, MsgTypes
<1>6. /\ at[w] = "idle" /\ at'[w] = m.type /\ job'[w] = m
      /\ \A v \in Workers : v # w => at'[v] = at[v] /\ job'[v] = job[v]
  BY <1>1 DEF Take, Types, WorkTypes
<1>7. \A j : QueueAlone(j) => QueueAlone(j)'
  <2> SUFFICES ASSUME NEW j, QueueAlone(j), NEW a \in 1 .. Len(queue'),
                      NEW b \in 1 .. Len(queue'),
                      queue'[a].conn = j, queue'[b].conn = j
               PROVE  a = b
    BY DEF QueueAlone
  <2>1. /\ a + 1 \in 1 .. Len(queue) /\ b + 1 \in 1 .. Len(queue)
        /\ queue'[a] = queue[a + 1] /\ queue'[b] = queue[b + 1]
    BY <1>4
  <2>2. a + 1 = b + 1
    BY <2>1 DEF QueueAlone
  <2> QED  BY <2>2
<1>8. ASSUME NEW j \in Conns, j # k
      PROVE  Untouched(j)
  BY <1>2, <1>3, <1>4, <1>6, <1>7, <1>8 DEF Untouched, Quiet
<1>9. ASSUME Proper(k)
      PROVE  ConnInv(k)'
  <2>1. ConnInv(k)
    BY <1>5, <1>9 DEF ProperInv
  <2>2. /\ \A x : Fits(k, x) => Fits(k, x)'
        /\ \A r : Expected(k, r) => Expected(k, r)'
    BY <1>3, <1>5, QuietFits DEF Quiet
  <2>3. \A v \in Workers : v # w => /\ Working(v, k)' <=> Working(v, k)
                                    /\ Serving(k, v) => Serving(k, v)'
    BY <1>3, <1>6 DEF Working, Serving, Pending
  <2>4. Serving(k, w)'
    BY <1>5, <1>6 DEF Serving, MsgTypes
  <2>5. Fits(k, job[w])'
    BY <1>2, <1>4, <1>6, <2>1, <2>2 DEF ConnInv, FitConn
  <2>6. FitConn(k)'
    <3>1. ASSUME NEW v \in Workers, Working(v, k)'
          PROVE  (at'[v] \in MsgTypes => Fits(k, job[v])') /\ Serving(k, v)'
      <4>1. CASE v = w
        BY <2>4, <2>5, <4>1
      <4>2. CASE v # w
        <5>1. Working(v, k) /\ at'[v] = at[v] /\ job'[v] = job[v]
          BY <1>6, <2>3, <3>1, <4>2
        <5>2. (at[v] \in MsgTypes => Fits(k, job[v])) /\ Serving(k, v)
          BY <2>1, <5>1 DEF ConnInv, FitConn
        <5> QED  BY <2>2, <2>3, <4>2, <5>1, <5>2
      <4> QED  BY <4>1, <4>2
    <3>2. \A x \in Range(wire'[k]) : Fits(k, x)'
      BY <1>3, <2>1, <2>2 DEF ConnInv, FitConn
    <3>3. \A x \in Range(queue') : x.conn = k => Fits(k, x)'
      BY <1>4, <2>1, <2>2 DEF ConnInv, FitConn
    <3>4. \A r \in Range(replies'[k]) : Expected(k, r)'
      BY <1>3, <2>1, <2>2 DEF ConnInv, FitConn
    <3>5. k \in PoolConns /\ link'[k] = "up" => auth'[k].state = "ok"
      BY <1>3, <2>1 DEF ConnInv, FitConn
    <3> QED  BY <3>1, <3>2, <3>3, <3>4, <3>5 DEF FitConn
  <2>7. ASSUME k = LoginOf(k)
        PROVE  Alone(k)'
    <3>1. /\ Alone(k) /\ InQueue(k)
      BY <1>2, <1>4, <2>1, <2>7 DEF ConnInv, InQueue
    <3>2. ~InWork(k) /\ replies[k] = <<>> /\ wire[k] = <<>> /\ QueueAlone(k)
      BY <3>1 DEF Alone
    <3>3. \A v \in Workers : Working(v, k)' => v = w
      BY <2>3, <3>2 DEF InWork
    <3>4. ~InQueue(k)'
      <4>1. \A i \in 1 .. Len(queue') : queue'[i].conn # k
        <5> SUFFICES ASSUME NEW i \in 1 .. Len(queue'), queue'[i].conn = k
                     PROVE  FALSE
          OBVIOUS
        <5>1. /\ i + 1 \in 1 .. Len(queue) /\ 1 \in 1 .. Len(queue)
              /\ queue[i + 1].conn = k /\ i # 0
          BY <1>4
        <5>2. queue[1].conn = k
          BY <1>2, <1>4
        <5>3. i + 1 = 1
          BY <3>2, <5>1, <5>2 DEF QueueAlone
        <5> QED  BY <5>1, <5>3
      <4>2. DOMAIN queue' = 1 .. Len(queue')
        BY TakeFacts DEF Types
      <4> QED  BY <4>1, <4>2 DEF InQueue, Range
    <3> QED  BY <1>3, <1>7, <3>2, <3>3, <3>4, EmptyFacts DEF Alone
  <2> QED  BY <1>3, <2>1, <2>6, <2>7 DEF ConnInv, LoginOf
<1> QED  BY <1>8, <1>9, FrameOthers

\* An answer that is expected, and no refusal.
LEMMA ProperFinish ==
  ASSUME Types, ProperInv, NEW w \in Workers, NEW r, Finish(w, r),
         closed' \subseteq closed \cup {job[w].conn},
         Proper(job[w].conn) => closed' = closed /\ Expected(job[w].conn, r)
  PROVE  ProperInv'
<1>1. PICK k : k = job[w].conn
  OBVIOUS
<1>2. UNCHANGED <<client, link, wire, queue, auth>> /\ at[w] # "idle"
  BY DEF Finish, clientVars, storeVars
<1>3. /\ k \in Conns /\ \A j \in Conns : j # k => replies'[j] = replies[j]
      /\ Range(replies'[k]) = Range(replies[k]) \cup {r}
      /\ Len(replies'[k]) = Len(replies[k]) + 1
  BY <1>1, AnswerFacts DEF Types, Finish
<1>4. /\ at'[w] = "idle"
      /\ \A v \in Workers : v # w => at'[v] = at[v] /\ job'[v] = job[v] /\ ca'[v] = ca[v]
  BY DEF Finish, Answer, Types, WorkTypes
<1>5. ASSUME NEW j \in Conns, j # k
      PROVE  Untouched(j)
  BY <1>1, <1>2, <1>3, <1>4, <1>5 DEF Untouched, Quiet, QueueAlone
<1>6. ASSUME Proper(k)
      PROVE  ConnInv(k)'
  <2>1. ConnInv(k) /\ closed' = closed /\ Expected(k, r)
    BY <1>1, <1>3, <1>6 DEF ProperInv
  <2>2. /\ \A x : Fits(k, x) => Fits(k, x)'
        /\ \A x : Expected(k, x) => Expected(k, x)'
    BY <1>2, <1>3, QuietFits DEF Quiet
  <2>3. /\ ~Working(w, k)'
        /\ \A v \in Workers : v # w => /\ Working(v, k)' <=> Working(v, k)
                                       /\ Serving(k, v) => Serving(k, v)'
    BY <1>2, <1>4 DEF Working, Serving, Pending
  <2>4. FitConn(k)'
    BY <1>2, <1>3, <1>4, <2>1, <2>2, <2>3 DEF ConnInv, FitConn
  <2>5. ASSUME k = LoginOf(k)
        PROVE  Alone(k)'
    <3>1. Alone(k) /\ Working(w, k) /\ InWork(k)
      BY <1>1, <1>2, <2>1, <2>5 DEF ConnInv, Working, InWork
    <3>2. wire[k] = <<>> /\ ~InQueue(k) /\ replies[k] = <<>>
      BY <3>1 DEF Alone
    <3>3. \A v \in Workers : ~Working(v, k)'
      BY <2>3, <3>1 DEF Alone
    <3>4. ~InQueue(k)' /\ ~InWork(k)' /\ (QueueAlone(k) => QueueAlone(k)')
      BY <1>2, <3>2, <3>3 DEF InQueue, InWork, QueueAlone
    <3>5. Len(replies'[k]) <= 1 /\ wire'[k] = <<>>
      BY <1>2, <1>3, <3>2, EmptyFacts
    <3> QED  BY <3>1, <3>3, <3>4, <3>5, EmptyFacts DEF Alone
  <2> QED  BY <2>1, <2>4, <2>5 DEF ConnInv, LoginOf
<1> QED  BY <1>1, <1>5, <1>6, FrameOthers

\* What the worker relies on when it goes on, and what it relies on next.
LEMMA AdvanceServing ==
  ASSUME Types, NEW w \in Workers, Advance(w), NEW k \in Conns,
         k = job[w].conn, ConnInv(k)
  PROVE  /\ Serving(k, w)'
         /\ k \in PoolConns => Quiet(k)
<1>1. /\ client' = client /\ link' = link /\ job' = job /\ at[w] # "idle"
      /\ auth \in [Conns -> AuthRec] /\ at \in [Workers -> Places]
      /\ ca \in [Workers -> AuthRec]
  BY AdvanceFacts DEF Types, StoreTypes, WorkTypes, clientVars
<1>2. Working(w, k)
  BY <1>1 DEF Working
<1>3. /\ at[w] \in MsgTypes => Fits(k, job[w]) /\ job[w].type = at[w]
      /\ Serving(k, w)
  BY <1>2 DEF ConnInv, FitConn, Types, WorkTypes
<1>4. k \in PoolConns => k # LoginOf(k)
  BY ConnFacts
<1>5. CASE Challenge(w)
  <2>1. at[w] = "hello" /\ at'[w] = "challenge"
    BY <1>1, <1>5 DEF Challenge, Goto
  <2>2. k = LoginOf(k) /\ client[Owner(k)] = "challenge"
    BY <1>3, <2>1 DEF Fits, MsgTypes
  <2>3. auth'[k].state = "pending" /\ ca'[w] = auth'[k]
    <3>1. nonce + 1 \in Nat
      BY DEF Types, StoreTypes
    <3>2. [NewAuth EXCEPT !.state = "pending", !.challenge = nonce + 1].state = "pending"
      BY <3>1, NewAuthType, PendingType
    <3>3. /\ auth' = [auth EXCEPT ![k] =
                 [NewAuth EXCEPT !.state = "pending", !.challenge = nonce + 1]]
          /\ ca' = [ca EXCEPT ![w] = auth'[k]]
      BY <1>5 DEF Challenge
    <3> QED  BY <1>1, <3>2, <3>3
  <2> QED  BY <1>1, <1>4, <2>1, <2>2, <2>3 DEF Serving, Pending
<1>6. CASE PutSession(w)
  <2>1. at[w] = "sign" /\ at'[w] = "key"
    BY <1>1, <1>6 DEF PutSession, Goto
  <2>2. k = LoginOf(k) /\ client[Owner(k)] = "result"
    BY <1>3, <2>1 DEF Fits, MsgTypes
  <2> QED  BY <1>1, <1>4, <2>1, <2>2 DEF Serving
<1>7. CASE SetKey(w)
  <2>1. at[w] = "key" /\ at'[w] = "context"
    BY <1>1, <1>7 DEF SetKey, Goto
  <2> QED  BY <1>1, <1>3, <1>4, <2>1 DEF Serving
<1>8. CASE SetContext(w)
  <2>1. at[w] = "context" /\ at'[w] = "accept"
    BY <1>1, <1>8 DEF SetContext, Goto
  <2> QED  BY <1>1, <1>3, <1>4, <2>1 DEF Serving
<1>9. CASE TokenOK(w)
  <2>1. at[w] = "token" /\ at'[w] = "accept" /\ auth'[k].state = "ok"
    BY <1>1, <1>9 DEF TokenOK, Goto, SessionAuth
  <2>2. k \in PoolConns
    BY <1>3, <2>1 DEF Fits, MsgTypes
  <2> QED  BY <1>1, <1>4, <2>1, <2>2 DEF Serving, Quiet
<1>10. CASE Gate(w)
  <2>1. at[w] = "file" /\ at'[w] = "serve" /\ auth' = auth
    BY <1>1, <1>10 DEF Gate, Goto, storeVars
  <2>2. k \in PoolConns
    BY <1>3, <2>1 DEF Fits, MsgTypes
  <2> QED  BY <1>1, <1>4, <2>1, <2>2 DEF Serving, Quiet
<1> QED  BY <1>5, <1>6, <1>7, <1>8, <1>9, <1>10 DEF Advance

\* A worker goes on with its message.
LEMMA ProperAdvance ==
  ASSUME Types, ProperInv, NEW w \in Workers, Advance(w)
  PROVE  ProperInv'
<1>1. PICK k : k = job[w].conn
  OBVIOUS
<1>2. /\ k \in Conns /\ job' = job /\ at[w] # "idle" /\ at'[w] # "idle"
      /\ at'[w] \notin MsgTypes
      /\ \A v \in Workers : v # w => at'[v] = at[v] /\ ca'[v] = ca[v]
      /\ UNCHANGED <<client, link, wire, queue, replies, closed>>
  BY <1>1, AdvanceFacts DEF clientVars, netVars
<1>3. auth' = auth \/ \E v : auth' = [auth EXCEPT ![k] = v]
  BY <1>1 DEF Advance, Challenge, PutSession, SetKey, SetContext, TokenOK, Gate, storeVars
<1>4. \A j \in Conns : j # k => auth'[j] = auth[j]
  BY <1>3 DEF Types, StoreTypes
<1>5. ASSUME NEW j \in Conns, j # k
      PROVE  Untouched(j)
  BY <1>1, <1>2, <1>4, <1>5 DEF Untouched, Quiet, QueueAlone
<1>6. ASSUME Proper(k)
      PROVE  ConnInv(k)'
  <2>1. ConnInv(k)
    BY <1>2, <1>6 DEF ProperInv
  <2>2. Serving(k, w)' /\ (k \in PoolConns => Quiet(k))
    BY <1>1, <1>2, <2>1, AdvanceServing
  <2>3. \A v \in Workers : Working(v, k)' <=> Working(v, k)
    BY <1>1, <1>2 DEF Working
  <2>4. /\ InWork(k)' <=> InWork(k)
        /\ InQueue(k)' <=> InQueue(k)
        /\ QueueAlone(k)' <=> QueueAlone(k)
    BY <1>2, <2>3 DEF InWork, InQueue, QueueAlone
  <2>5. CASE k \in PoolConns
    <3>1. /\ \A x : Fits(k, x) => Fits(k, x)'
          /\ \A x : Expected(k, x) => Expected(k, x)'
      BY <1>2, <2>2, <2>5, QuietFits
    <3>2. \A v \in Workers : v # w /\ Serving(k, v) => Serving(k, v)'
      BY <1>2, <2>2, <2>5, ConnFacts DEF Serving, Quiet
    <3>3. k # LoginOf(k)
      BY <2>5, ConnFacts
    <3>4. FitConn(k)'
      <4>1. ASSUME NEW v \in Workers, Working(v, k)'
            PROVE  (at'[v] \in MsgTypes => Fits(k, job[v])') /\ Serving(k, v)'
        <5>1. CASE v = w
          BY <1>2, <2>2, <5>1
        <5>2. CASE v # w
          <6>1. Working(v, k) /\ at'[v] = at[v] /\ job'[v] = job[v]
            BY <1>2, <2>3, <4>1, <5>2
          <6>2. (at[v] \in MsgTypes => Fits(k, job[v])) /\ Serving(k, v)
            BY <2>1, <6>1 DEF ConnInv, FitConn
          <6> QED  BY <3>1, <3>2, <5>2, <6>1, <6>2
        <5> QED  BY <5>1, <5>2
      <4>2. \A x \in Range(wire'[k]) : Fits(k, x)'
        BY <1>2, <2>1, <3>1 DEF ConnInv, FitConn
      <4>3. \A x \in Range(queue') : x.conn = k => Fits(k, x)'
        BY <1>2, <2>1, <3>1 DEF ConnInv, FitConn
      <4>4. \A r \in Range(replies'[k]) : Expected(k, r)'
        BY <1>2, <2>1, <3>1 DEF ConnInv, FitConn
      <4>5. k \in PoolConns /\ link'[k] = "up" => auth'[k].state = "ok"
        BY <1>2, <2>1, <2>2 DEF ConnInv, FitConn, Quiet
      <4> QED  BY <4>1, <4>2, <4>3, <4>4, <4>5 DEF FitConn
    <3> QED  BY <1>2, <2>1, <3>3, <3>4 DEF ConnInv, LoginOf
  <2>6. CASE k = LoginOf(k)
    <3>1. Alone(k) /\ Working(w, k) /\ InWork(k)
      BY <1>1, <1>2, <2>1, <2>6 DEF ConnInv, Working, InWork
    <3>2. wire[k] = <<>> /\ ~InQueue(k) /\ replies[k] = <<>>
      BY <3>1 DEF Alone
    <3>3. \A v \in Workers : Working(v, k)' => v = w
      BY <2>3, <3>1 DEF Alone
    <3>4. FitConn(k)'
      <4>1. k \notin PoolConns
        BY <2>6, ConnFacts
      <4>2. \A m \in Range(queue') : m.conn # k
        BY <1>2, <3>2 DEF InQueue
      <4>3. Range(wire'[k]) = {} /\ Range(replies'[k]) = {}
        BY <1>2, <3>2, EmptyFacts
      <4> QED  BY <1>2, <2>2, <3>3, <4>1, <4>2, <4>3 DEF FitConn
    <3>5. Alone(k)'
      BY <1>2, <2>3, <2>4, <3>1 DEF Alone
    <3> QED  BY <1>2, <2>1, <3>4, <3>5 DEF ConnInv
  <2> QED  BY <1>2, <2>5, <2>6, ConnFacts
<1> QED  BY <1>5, <1>6, FrameOthers

\* No worker has a reason to refuse a proper client.
LEMMA NoRefusal ==
  ASSUME Types, OwnerInv, ProperInv, NEW w \in Workers, Refusal(w)
  PROVE  ~Proper(job[w].conn)
<1> SUFFICES ASSUME Proper(job[w].conn)
             PROVE  FALSE
  OBVIOUS
<1> DEFINE k == job[w].conn
<1>1. at[w] \in {"empty", "sign", "guess", "token", "file"}
  BY RefusalFacts
<1>2. k \in Conns /\ at[w] \in MsgTypes /\ job[w].type = at[w] /\ Working(w, k)
  BY <1>1 DEF Types, WorkTypes, Message, MsgTypes, Working
<1>3. ConnInv(k)
  BY <1>2 DEF ProperInv
<1>4. Fits(k, job[w])
  BY <1>2, <1>3 DEF ConnInv, FitConn
<1>5. at[w] \in {"sign", "token", "file"}
  BY <1>1, <1>2, <1>4 DEF Fits
<1>6. CASE at[w] = "sign"
  <2>1. Pending(k, job[w].challenge) /\ Owner(k) \in Authorized
    BY <1>2, <1>4, <1>6 DEF Fits, Proper
  <2>2. Verified(w)
    BY <2>1 DEF Verified, Pending
  <2> QED  BY <1>6, <2>2 DEF Refusal, MissingKey, VerifyFails, TokenFails, Reject, Goto
<1>7. CASE at[w] = "token"
  <2>1. Owner(k) \in sessions
    BY <1>2, <1>7, ConnFacts DEF OwnerInv, WorkerInv, StoreInv, Ready
  <2> QED  BY <1>7, <2>1 DEF Refusal, MissingKey, VerifyFails, TokenFails, Reject, Goto
<1>8. CASE at[w] = "file"
  <2>1. auth[k].state = "ok"
    BY <1>2, <1>3, <1>4, <1>8 DEF Fits, ConnInv, FitConn
  <2> QED  BY <1>8, <2>1 DEF Refusal, MissingKey, VerifyFails, TokenFails, Reject, Goto
<1> QED  BY <1>5, <1>6, <1>7, <1>8

\* Connections carry nothing at the start.
LEMMA InitProper == Init => ProperInv
<1> SUFFICES ASSUME Init, NEW k \in Conns
             PROVE  ConnInv(k)
  BY DEF ProperInv
<1>1. FitConn(k)
  BY EmptyFacts DEF Init, FitConn, Working
<1>2. Alone(k)
  BY EmptyFacts DEF Init, Alone, QueueAlone, InQueue, InWork, Working
<1> QED  BY <1>1, <1>2 DEF Init, ConnInv

\* Every step keeps the connections of proper clients in order.
LEMMA ProperStep ==
  ASSUME Types, OwnerInv, ProperInv, [Next]_vars
  PROVE  ProperInv'
<1>1. ASSUME NEW w \in Workers, Refusal(w)
      PROVE  ProperInv'
  BY <1>1, NoRefusal, RefusalFacts, ProperFinish
<1>2. ASSUME NEW w \in Workers, SendChallenge(w) \/ Accept(w) \/ Serve(w)
      PROVE  ProperInv'
  <2>1. PICK r : /\ Finish(w, r) /\ closed' = closed
                 /\ \/ at[w] = "challenge" /\ r = Reply("challenge", ca[w].challenge)
                    \/ at[w] = "accept" /\ r = Reply("ok", 0)
                    \/ at[w] = "serve" /\ r = Reply("file", 0)
    BY <1>2, FinishFacts
  <2>2. ASSUME Proper(job[w].conn)
        PROVE  Expected(job[w].conn, r)
    <3> DEFINE k == job[w].conn
    <3>1. k \in Conns /\ Working(w, k) /\ ca[w].challenge \in Nat
      BY <2>1 DEF Types, WorkTypes, Message, Working, AuthRec
    <3>2. Serving(k, w)
      BY <2>2, <3>1 DEF ProperInv, ConnInv, FitConn
    <3>3. /\ at[w] = "challenge" => r.type = "challenge" /\ r.challenge = ca[w].challenge
          /\ at[w] = "accept" => r.type = "ok"
          /\ at[w] = "serve" => r.type = "file"
      BY <2>1, <3>1, ReplyFacts
    <3> QED  BY <2>1, <3>2, <3>3 DEF Serving, Expected
  <2> QED  BY <2>1, <2>2, ProperFinish
<1>3. CASE UNCHANGED vars
  <2>1. \A k \in Conns : Untouched(k)
    BY <1>3 DEF vars, clientVars, netVars, storeVars, workVars, Untouched, Quiet, QueueAlone
  <2>2. ASSUME NEW k \in Conns, Proper(k)
        PROVE  ConnInv(k)'
    BY <2>1, <2>2, Frame DEF ProperInv
  <2> QED  BY <2>2 DEF ProperInv, Proper
<1> QED
  BY <1>1, <1>2, <1>3, WorkerCases, ProperHello, ProperSign, ProperLoggedIn,
     ProperLink, ProperStray, ProperTraffic, ProperTake, ProperAdvance
     DEF Next, Client

\* A client of this code with an authorized key is never turned away: on each
\* of its connections every message finds the state its last answer promised,
\* whatever other clients send and whichever workers take the messages.
THEOREM NobodyTurnedAway == Spec => []NeverTurnedAway
<1>1. Init => Types /\ OwnerInv /\ ProperInv
  BY InitTypes, InitOwner, InitProper
<1>2. Types /\ OwnerInv /\ ProperInv /\ [Next]_vars => (Types /\ OwnerInv /\ ProperInv)'
  BY TypesStep, OwnerStep, ProperStep
<1>3. Types /\ ProperInv => NeverTurnedAway
  BY DEF Types, NetTypes, ProperInv, Proper, ConnInv, NeverTurnedAway
<1> QED  BY <1>1, <1>2, <1>3, PTL DEF Spec

-----------------------------------------------------------------------------
(* Every answer has its request                                            *)

\* How many places of s hold a member of T.
Count(s, T) == Cardinality({i \in 1 .. Len(s) : s[i] \in T})

\* One, or none.
One(b) == IF b THEN 1 ELSE 0

\* A count is a natural number.
LEMMA CountType ==
  ASSUME NEW S, NEW s \in Seq(S), NEW T
  PROVE  /\ IsFiniteSet({i \in 1 .. Len(s) : s[i] \in T})
         /\ Count(s, T) \in Nat
<1>1. IsFiniteSet(1 .. Len(s))
  BY FS_Interval, LenProperties
<1>2. {i \in 1 .. Len(s) : s[i] \in T} \subseteq 1 .. Len(s)
  OBVIOUS
<1>3. IsFiniteSet({i \in 1 .. Len(s) : s[i] \in T})
  BY <1>1, <1>2, FS_Subset
<1> QED  BY <1>3, FS_CardinalityType DEF Count

\* Append adds one to the count, or nothing.
LEMMA CountAppend ==
  ASSUME NEW S, NEW s \in Seq(S), NEW e \in S, NEW T
  PROVE  Count(Append(s, e), T) = Count(s, T) + One(e \in T)
<1>1. PICK t, n, I : /\ t = Append(s, e) /\ n = Len(s)
                     /\ I = {i \in 1 .. Len(s) : s[i] \in T}
  OBVIOUS
<1>2. /\ n \in Nat /\ Len(t) = n + 1 /\ t[n + 1] = e
      /\ \A i \in 1 .. n : t[i] = s[i]
  BY <1>1, AppendFacts, LenProperties
<1>3. IsFiniteSet(I) /\ Cardinality(I) \in Nat /\ Count(s, T) = Cardinality(I)
  BY <1>1, CountType DEF Count
<1>4. n + 1 \notin I
  BY <1>1, <1>2
<1>5. CASE e \in T
  <2>1. {i \in 1 .. Len(t) : t[i] \in T} = I \cup {n + 1}
    BY <1>1, <1>2, <1>5
  <2>2. Cardinality(I \cup {n + 1}) = Cardinality(I) + 1
    BY <1>3, <1>4, FS_AddElement
  <2> QED  BY <1>1, <1>3, <1>5, <2>1, <2>2 DEF Count, One
<1>6. CASE e \notin T
  <2>1. {i \in 1 .. Len(t) : t[i] \in T} = I
    BY <1>1, <1>2, <1>6
  <2>2. One(e \in T) = 0
    BY <1>6 DEF One
  <2>3. Count(t, T) = Cardinality(I)
    BY <2>1 DEF Count
  <2> QED  BY <1>1, <1>3, <2>2, <2>3
<1> QED  BY <1>5, <1>6

\* Tail takes one from the count, or nothing.
LEMMA CountTail ==
  ASSUME NEW S, NEW s \in Seq(S), s # <<>>, NEW T
  PROVE  Count(s, T) = Count(Tail(s), T) + One(Head(s) \in T)
<1>1. PICK t, n, I, J :
        /\ t = Tail(s) /\ n = Len(s)
        /\ I = {i \in 1 .. Len(s) : s[i] \in T}
        /\ J = {i \in 1 .. Len(Tail(s)) : Tail(s)[i] \in T}
  OBVIOUS
<1>2. /\ n \in Nat \ {0} /\ Len(t) = n - 1 /\ Head(s) = s[1] /\ t \in Seq(S)
      /\ \A i \in 1 .. n - 1 : t[i] = s[i + 1]
  BY <1>1, TailFacts
<1>3. /\ IsFiniteSet(I) /\ Cardinality(I) \in Nat /\ Count(s, T) = Cardinality(I)
      /\ IsFiniteSet(J) /\ Cardinality(J) \in Nat /\ Count(t, T) = Cardinality(J)
  BY <1>1, <1>2, CountType DEF Count
<1>4. /\ I = {i \in 1 .. n : s[i] \in T}
      /\ J = {i \in 1 .. n - 1 : s[i + 1] \in T}
  BY <1>1, <1>2
<1>5. PICK f : f = [j \in J |-> j + 1]
  OBVIOUS
<1>6. f \in Bijection(J, I \ {1})
  <2>1. f \in [J -> I \ {1}]
    BY <1>2, <1>4, <1>5
  <2>2. \A a, b \in J : f[a] = f[b] => a = b
    BY <1>4, <1>5
  <2>3. ASSUME NEW i \in I \ {1}
        PROVE  \E j \in J : f[j] = i
    <3>1. i - 1 \in J /\ f[i - 1] = i
      BY <1>2, <1>4, <1>5
    <3> QED  BY <3>1
  <2> QED  BY <2>1, <2>2, <2>3 DEF Bijection, Injection, Surjection, IsInjective
<1>7. Cardinality(I \ {1}) = Cardinality(J)
  BY <1>3, <1>6, FS_Bijection DEF ExistsBijection
<1>8. 1 \in I <=> Head(s) \in T
  BY <1>2, <1>4
<1>9. Cardinality(I) = Cardinality(I \ {1}) + One(1 \in I)
  <2>1. CASE 1 \in I
    <3>1. Cardinality(I \ {1}) = Cardinality(I) - 1
      BY <1>3, <2>1, FS_RemoveElement
    <3>2. One(1 \in I) = 1
      BY <2>1 DEF One
    <3> QED  BY <1>3, <3>1, <3>2
  <2>2. CASE 1 \notin I
    <3>1. I \ {1} = I
      BY <2>2
    <3>2. One(1 \in I) = 0
      BY <2>2 DEF One
    <3>3. PICK c \in Nat : c = Cardinality(I)
      BY <1>3
    <3>4. Cardinality(I \ {1}) = c
      BY <3>1, <3>3, Zenon
    <3>5. c = c + One(1 \in I)
      BY <3>2, <3>3
    <3> QED  BY <3>3, <3>4, <3>5
  <2> QED  BY <2>1, <2>2
<1>10. One(1 \in I) = One(Head(s) \in T)
  BY <1>8 DEF One
<1>11. Cardinality(I) = Cardinality(J) + One(Head(s) \in T)
  BY <1>7, <1>9, <1>10
<1> QED  BY <1>1, <1>3, <1>11

\* The requests of k, the answers to them, and the workers that have one.
Requests(k) == {m \in Message : m.conn = k /\ m.type = "file"}
FileAnswers == {r \in Answers : r.type = "file"}
Busy(k) == {w \in Workers : at[w] \in {"file", "serve"} /\ job[w].conn = k}

\* The requests of k that have been sent and not answered yet are on the
\* wire, in processMsgChan, with a worker or on the way back; the ones that
\* were refused are nowhere.
Balance(a, x, q, b, r, n) ==
  /\ a \in Nat /\ x \in Nat /\ q \in Nat /\ b \in Nat /\ r \in Nat
  /\ n \in 0 .. MaxFiles
  /\ a + x + q + b + r <= n

AnswerInv ==
  /\ sent \in [PoolConns -> 0 .. MaxFiles]
  /\ answered \in [PoolConns -> Nat]
  /\ strays \in 0 .. MaxStray
  /\ Len(queue) <= Cardinality(Workers)
  /\ \A k \in PoolConns :
       Balance(answered[k], Count(wire[k], Requests(k)),
               Count(queue, Requests(k)), Cardinality(Busy(k)),
               Count(replies[k], FileAnswers), sent[k])

\* The workers that have a request are finitely many.
LEMMA BusyType ==
  ASSUME NEW k
  PROVE  /\ IsFiniteSet(Busy(k)) /\ Cardinality(Busy(k)) \in Nat
         /\ IsFiniteSet(Busy(k)') /\ Cardinality(Busy(k)') \in Nat
<1>1. Busy(k) \subseteq Workers /\ Busy(k)' \subseteq Workers
  BY DEF Busy
<1>2. IsFiniteSet(Busy(k)) /\ IsFiniteSet(Busy(k)')
  BY <1>1, AuthAssumption, FS_Subset
<1> QED  BY <1>2, FS_CardinalityType

\* A step of somebody else: nothing of k moves.
LEMMA BalanceSame ==
  ASSUME NEW k \in PoolConns, AnswerInv,
         answered'[k] = answered[k], sent'[k] = sent[k],
         wire'[k] = wire[k], replies'[k] = replies[k],
         queue' = queue, Busy(k)' = Busy(k)
  PROVE  Balance(answered[k], Count(wire[k], Requests(k)),
                 Count(queue, Requests(k)), Cardinality(Busy(k)),
                 Count(replies[k], FileAnswers), sent[k])'
BY DEF AnswerInv

\* A client sends on a pool connection; only SendFile sends a request.
LEMMA BalancePut ==
  ASSUME Types, AnswerInv, NEW k \in PoolConns, SendToken(k) \/ SendFile(k)
  PROVE  AnswerInv'
<1>1. /\ PoolConns \subseteq Conns /\ k \in Conns /\ wire[k] \in Seq(Message)
      /\ wire \in [Conns -> Seq(Message)]
  BY ConnFacts DEF Types, NetTypes
<1>2. /\ sent \in [PoolConns -> 0 .. MaxFiles] /\ answered \in [PoolConns -> Nat]
      /\ strays \in 0 .. MaxStray /\ Len(queue) <= Cardinality(Workers)
      /\ MaxFiles \in Nat
  BY AuthAssumption DEF AnswerInv
<1>3. PICK t \in {"token", "file"} :
        /\ wire' = [wire EXCEPT ![k] = Append(@, Msg(k, t, 0))]
        /\ sent' = [sent EXCEPT ![k] = @ + One(t = "file")]
        /\ t = "file" => sent[k] < MaxFiles
        /\ UNCHANGED <<answered, strays, queue, replies, at, job>>
  <2>1. CASE SendToken(k)
    <3>1. One("token" = "file") = 0
      BY DEF One
    <3>2. sent[k] + 0 = sent[k] /\ sent' = sent
      BY <1>2, <2>1 DEF SendToken
    <3>3. sent' = [sent EXCEPT ![k] = @ + One("token" = "file")]
      BY <1>2, <3>1, <3>2
    <3> QED  BY <2>1, <3>3 DEF SendToken, Put, workVars
  <2>2. CASE SendFile(k)
    <3>1. One("file" = "file") = 1
      BY DEF One
    <3>2. sent' = [sent EXCEPT ![k] = @ + One("file" = "file")]
      BY <2>2, <3>1 DEF SendFile
    <3> QED  BY <2>2, <3>2 DEF SendFile, Put, workVars
  <2> QED  BY <2>1, <2>2
<1>4. PICK m : m = Msg(k, t, 0)
  OBVIOUS
<1>5. m \in Message /\ (m \in Requests(k) <=> t = "file")
  BY <1>1, <1>3, <1>4, MsgFacts DEF Requests, MsgTypes
<1>6. /\ wire'[k] = Append(wire[k], m)
      /\ \A j \in PoolConns \ {k} : wire'[j] = wire[j]
  BY <1>1, <1>3, <1>4
<1>7. Count(wire'[k], Requests(k)) = Count(wire[k], Requests(k)) + One(t = "file")
  <2>1. Count(Append(wire[k], m), Requests(k))
          = Count(wire[k], Requests(k)) + One(m \in Requests(k))
    BY <1>1, <1>5, CountAppend
  <2>2. One(m \in Requests(k)) = One(t = "file")
    BY <1>5 DEF One
  <2> QED  BY <1>6, <2>1, <2>2
<1>8. /\ sent'[k] = sent[k] + One(t = "file")
      /\ \A j \in PoolConns \ {k} : sent'[j] = sent[j]
      /\ sent[k] + One(t = "file") \in 0 .. MaxFiles
      /\ One(t = "file") \in 0 .. 1
  BY <1>2, <1>3 DEF One
<1>9. sent' \in [PoolConns -> 0 .. MaxFiles]
  BY <1>2, <1>3, <1>8
<1>10. \A j : Busy(j)' = Busy(j)
  BY <1>3 DEF Busy
<1>11. ASSUME NEW j \in PoolConns
       PROVE  Balance(answered[j], Count(wire[j], Requests(j)),
                      Count(queue, Requests(j)), Cardinality(Busy(j)),
                      Count(replies[j], FileAnswers), sent[j])'
  <2>1. CASE j # k
    BY <2>1, <1>3, <1>6, <1>8, <1>10, BalanceSame
  <2>2. CASE j = k
    <3>1. Balance(answered[k], Count(wire[k], Requests(k)),
                  Count(queue, Requests(k)), Cardinality(Busy(k)),
                  Count(replies[k], FileAnswers), sent[k])
      BY DEF AnswerInv
    <3>2. PICK a, x, q, b, r, n, d :
            /\ a = answered[k] /\ x = Count(wire[k], Requests(k))
            /\ q = Count(queue, Requests(k)) /\ b = Cardinality(Busy(k))
            /\ r = Count(replies[k], FileAnswers) /\ n = sent[k]
            /\ d = One(t = "file")
      OBVIOUS
    <3>3. Balance(a, x + d, q, b, r, n + d)
      BY <1>8, <3>1, <3>2 DEF Balance
    <3> QED  BY <2>2, <1>3, <1>7, <1>8, <1>10, <3>2, <3>3
  <2> QED  BY <2>1, <2>2
<1> QED  BY <1>2, <1>3, <1>9, <1>11 DEF AnswerInv

\* A client takes an answer on a pool connection; only an answer to a request
\* counts.
LEMMA BalanceReceive ==
  ASSUME Types, AnswerInv, NEW k \in PoolConns, JoinPool(k) \/ ReceiveFile(k)
  PROVE  AnswerInv'
<1>1. /\ PoolConns \subseteq Conns /\ k \in Conns
      /\ replies[k] \in Seq(Answers) /\ replies \in [Conns -> Seq(Answers)]
  BY ConnFacts DEF Types, NetTypes
<1>2. /\ sent \in [PoolConns -> 0 .. MaxFiles] /\ answered \in [PoolConns -> Nat]
      /\ strays \in 0 .. MaxStray /\ Len(queue) <= Cardinality(Workers)
  BY DEF AnswerInv
<1>3. PICK t \in {"ok", "file"} :
        /\ replies[k] # <<>> /\ Head(replies[k]).type = t
        /\ replies' = [replies EXCEPT ![k] = Tail(@)]
        /\ answered' = [answered EXCEPT ![k] = @ + One(t = "file")]
        /\ UNCHANGED <<sent, strays, queue, wire, at, job>>
  <2>1. CASE JoinPool(k)
    <3>1. One("ok" = "file") = 0
      BY DEF One
    <3>2. answered[k] + 0 = answered[k] /\ answered' = answered
      BY <1>2, <2>1 DEF JoinPool
    <3>3. answered' = [answered EXCEPT ![k] = @ + One("ok" = "file")]
      BY <1>2, <3>1, <3>2
    <3> QED  BY <2>1, <3>3 DEF JoinPool, Got, Consume, workVars
  <2>2. CASE ReceiveFile(k)
    <3>1. One("file" = "file") = 1
      BY DEF One
    <3>2. answered' = [answered EXCEPT ![k] = @ + One("file" = "file")]
      BY <2>2, <3>1 DEF ReceiveFile
    <3> QED  BY <2>2, <3>2 DEF ReceiveFile, Got, Consume, workVars
  <2> QED  BY <2>1, <2>2
<1>4. PICK h : h = Head(replies[k])
  OBVIOUS
<1>5. h \in Answers /\ (h \in FileAnswers <=> t = "file")
  BY <1>1, <1>3, <1>4, TailFacts DEF FileAnswers
<1>6. /\ replies'[k] = Tail(replies[k]) /\ Tail(replies[k]) \in Seq(Answers)
      /\ \A j \in PoolConns \ {k} : replies'[j] = replies[j]
  BY <1>1, <1>3, TailFacts
<1>7. /\ Count(replies[k], FileAnswers)
           = Count(replies'[k], FileAnswers) + One(t = "file")
      /\ Count(replies'[k], FileAnswers) \in Nat
  <2>1. Count(replies[k], FileAnswers)
          = Count(Tail(replies[k]), FileAnswers) + One(h \in FileAnswers)
    BY <1>1, <1>3, <1>4, CountTail
  <2>2. One(h \in FileAnswers) = One(t = "file")
    BY <1>5 DEF One
  <2>3. Count(Tail(replies[k]), FileAnswers) \in Nat
    BY <1>6, CountType
  <2> QED  BY <1>6, <2>1, <2>2, <2>3
<1>8. /\ answered'[k] = answered[k] + One(t = "file")
      /\ \A j \in PoolConns \ {k} : answered'[j] = answered[j]
      /\ One(t = "file") \in 0 .. 1
  BY <1>2, <1>3 DEF One
<1>9. answered' \in [PoolConns -> Nat]
  BY <1>2, <1>3, <1>8
<1>10. \A j : Busy(j)' = Busy(j)
  BY <1>3 DEF Busy
<1>11. ASSUME NEW j \in PoolConns
       PROVE  Balance(answered[j], Count(wire[j], Requests(j)),
                      Count(queue, Requests(j)), Cardinality(Busy(j)),
                      Count(replies[j], FileAnswers), sent[j])'
  <2>1. CASE j # k
    BY <2>1, <1>3, <1>6, <1>8, <1>10, BalanceSame
  <2>2. CASE j = k
    <3>1. Balance(answered[k], Count(wire[k], Requests(k)),
                  Count(queue, Requests(k)), Cardinality(Busy(k)),
                  Count(replies[k], FileAnswers), sent[k])
      BY DEF AnswerInv
    <3>2. PICK a, x, q, b, r, n, d :
            /\ a = answered[k] /\ x = Count(wire[k], Requests(k))
            /\ q = Count(queue, Requests(k)) /\ b = Cardinality(Busy(k))
            /\ r = Count(replies'[k], FileAnswers) /\ n = sent[k]
            /\ d = One(t = "file")
      OBVIOUS
    <3>3. Balance(a, x, q, b, r + d, n) /\ r \in Nat /\ d \in 0 .. 1
      BY <1>7, <1>8, <3>1, <3>2
    <3>4. Balance(a + d, x, q, b, r, n)
      BY <3>3 DEF Balance
    <3> QED  BY <2>2, <1>3, <1>8, <1>10, <3>2, <3>4
  <2> QED  BY <2>1, <2>2
<1> QED  BY <1>2, <1>3, <1>9, <1>11 DEF AnswerInv

\* The event loop moves a message from the wire to processMsgChan.
LEMMA BalanceTraffic ==
  ASSUME Types, AnswerInv, NEW k \in Conns, OnTraffic(k)
  PROVE  AnswerInv'
<1>1. /\ PoolConns \subseteq Conns /\ wire \in [Conns -> Seq(Message)]
      /\ queue \in Seq(Message)
  BY ConnFacts DEF Types, NetTypes
<1>2. /\ sent \in [PoolConns -> 0 .. MaxFiles] /\ answered \in [PoolConns -> Nat]
      /\ strays \in 0 .. MaxStray
  BY DEF AnswerInv
<1>3. PICK m : m = Head(wire[k])
  OBVIOUS
<1>4. /\ wire[k] \in Seq(Message) /\ wire[k] # <<>>
      /\ queue' = Append(queue, m) /\ wire'[k] = Tail(wire[k])
      /\ \A j \in Conns \ {k} : wire'[j] = wire[j]
      /\ Len(queue) < Cardinality(Workers)
      /\ UNCHANGED <<sent, answered, strays, replies, at, job>>
  BY <1>1, <1>3 DEF OnTraffic, clientVars, workVars
<1>5. /\ m \in Message /\ m.conn = k /\ Len(queue) \in Nat
      /\ Len(queue') = Len(queue) + 1 /\ Tail(wire[k]) \in Seq(Message)
  <2>1. m \in Range(wire[k]) /\ m \in Message /\ Tail(wire[k]) \in Seq(Message)
    BY <1>3, <1>4, TailFacts
  <2>2. m.conn = k
    BY <2>1 DEF Types, NetTypes
  <2> QED  BY <1>1, <1>4, <2>1, <2>2, AppendFacts, LenProperties
<1>6. Len(queue') <= Cardinality(Workers)
  <2>1. PICK c \in Nat : c = Cardinality(Workers)
    BY AuthAssumption, FS_CardinalityType
  <2>2. PICK n \in Nat : n = Len(queue)
    BY <1>5
  <2>3. n < c /\ Len(queue') = n + 1
    BY <1>4, <1>5, <2>1, <2>2
  <2> QED  BY <2>1, <2>2, <2>3
<1>7. \A j : Busy(j)' = Busy(j)
  BY <1>4 DEF Busy
<1>8. ASSUME NEW j \in PoolConns
      PROVE  Balance(answered[j], Count(wire[j], Requests(j)),
                     Count(queue, Requests(j)), Cardinality(Busy(j)),
                     Count(replies[j], FileAnswers), sent[j])'
  <2>1. PICK d : d = One(m \in Requests(j))
    OBVIOUS
  <2>2. d \in 0 .. 1
    BY <2>1 DEF One
  <2>3. Count(queue', Requests(j)) = Count(queue, Requests(j)) + d
    BY <1>1, <1>4, <1>5, <2>1, CountAppend
  <2>4. /\ Count(wire[j], Requests(j)) = Count(wire'[j], Requests(j)) + d
        /\ Count(wire'[j], Requests(j)) \in Nat
    <3>1. CASE j = k
      <4>1. Count(wire[k], Requests(k))
              = Count(Tail(wire[k]), Requests(k)) + One(m \in Requests(k))
        BY <1>3, <1>4, CountTail
      <4>2. Count(Tail(wire[k]), Requests(k)) \in Nat
        BY <1>5, CountType
      <4> QED  BY <1>4, <2>1, <3>1, <4>1, <4>2
    <3>2. CASE j # k
      <4>1. d = 0 /\ wire'[j] = wire[j] /\ wire[j] \in Seq(Message)
        BY <1>1, <1>4, <1>5, <2>1, <3>2 DEF Requests, One
      <4>2. Count(wire[j], Requests(j)) \in Nat
        BY <4>1, CountType
      <4> QED  BY <4>1, <4>2
    <3> QED  BY <3>1, <3>2
  <2>5. Balance(answered[j], Count(wire[j], Requests(j)),
                Count(queue, Requests(j)), Cardinality(Busy(j)),
                Count(replies[j], FileAnswers), sent[j])
    BY DEF AnswerInv
  <2>6. PICK a, x, q, b, r, n :
          /\ a = answered[j] /\ x = Count(wire'[j], Requests(j))
          /\ q = Count(queue, Requests(j)) /\ b = Cardinality(Busy(j))
          /\ r = Count(replies[j], FileAnswers) /\ n = sent[j]
    OBVIOUS
  <2>7. Balance(a, x + d, q, b, r, n) /\ x \in Nat
    BY <2>4, <2>5, <2>6
  <2>8. Balance(a, x, q + d, b, r, n)
    BY <2>2, <2>7 DEF Balance
  <2> QED  BY <1>4, <1>7, <2>3, <2>6, <2>8
<1> QED  BY <1>2, <1>4, <1>6, <1>8 DEF AnswerInv

\* A worker takes the first message of processMsgChan.
LEMMA BalanceTake ==
  ASSUME Types, AnswerInv, NEW w \in Workers, Take(w)
  PROVE  AnswerInv'
<1>1. /\ queue \in Seq(Message) /\ queue # <<>> /\ queue' = Tail(queue)
      /\ at \in [Workers -> Places] /\ DOMAIN job = Workers /\ at[w] = "idle"
      /\ job' = [job EXCEPT ![w] = Head(queue)]
      /\ at' = [at EXCEPT ![w] = Head(queue).type]
      /\ UNCHANGED <<sent, answered, strays, wire, replies>>
  BY DEF Types, NetTypes, WorkTypes, Take, clientVars
<1>2. /\ sent \in [PoolConns -> 0 .. MaxFiles] /\ answered \in [PoolConns -> Nat]
      /\ strays \in 0 .. MaxStray /\ Len(queue) <= Cardinality(Workers)
  BY DEF AnswerInv
<1>3. PICK m : m = Head(queue)
  OBVIOUS
<1>4. /\ m \in Message /\ m.type \in MsgTypes /\ Tail(queue) \in Seq(Message)
      /\ Len(queue) \in Nat /\ Len(queue') = Len(queue) - 1
  <2>1. /\ m \in Message /\ Tail(queue) \in Seq(Message)
        /\ Len(queue) \in Nat /\ Len(queue') = Len(queue) - 1
    BY <1>1, <1>3, TailFacts
  <2>2. m.type \in MsgTypes
    BY <2>1 DEF Message
  <2> QED  BY <2>1, <2>2
<1>5. Len(queue') <= Cardinality(Workers)
  <2>1. PICK c \in Nat : c = Cardinality(Workers)
    BY AuthAssumption, FS_CardinalityType
  <2>2. PICK n \in Nat : n = Len(queue)
    BY <1>4
  <2>3. n <= c /\ Len(queue') = n - 1
    BY <1>2, <1>4, <2>1, <2>2
  <2> QED  BY <2>1, <2>2, <2>3
<1>6. /\ at'[w] = m.type /\ job'[w] = m
      /\ \A v \in Workers \ {w} : at'[v] = at[v] /\ job'[v] = job[v]
  BY <1>1, <1>3
<1>7. ASSUME NEW j \in PoolConns
      PROVE  Balance(answered[j], Count(wire[j], Requests(j)),
                     Count(queue, Requests(j)), Cardinality(Busy(j)),
                     Count(replies[j], FileAnswers), sent[j])'
  <2>1. PICK d : d = One(m \in Requests(j))
    OBVIOUS
  <2>2. d \in 0 .. 1
    BY <2>1 DEF One
  <2>3. /\ Count(queue, Requests(j)) = Count(queue', Requests(j)) + d
        /\ Count(queue', Requests(j)) \in Nat
    <3>1. Count(queue, Requests(j)) = Count(Tail(queue), Requests(j)) + d
      BY <1>1, <1>3, <2>1, CountTail
    <3>2. Count(Tail(queue), Requests(j)) \in Nat
      BY <1>4, CountType
    <3> QED  BY <1>1, <3>1, <3>2
  <2>4. Cardinality(Busy(j)') = Cardinality(Busy(j)) + d
    <3>1. w \notin Busy(j)
      BY <1>1 DEF Busy
    <3>2. CASE m \in Requests(j)
      <4>1. m.type = "file" /\ m.conn = j /\ d = 1
        BY <2>1, <3>2 DEF Requests, One
      <4>2. Busy(j)' = Busy(j) \cup {w}
        BY <1>6, <4>1 DEF Busy
      <4> QED  BY <3>1, <4>1, <4>2, BusyType, FS_AddElement
    <3>3. CASE m \notin Requests(j)
      <4>1. ~(m.type = "file" /\ m.conn = j) /\ d = 0
        BY <1>4, <2>1, <3>3 DEF Requests, One
      <4>2. at'[w] \in {"file", "serve"} => m.type = "file"
        BY <1>4, <1>6 DEF MsgTypes
      <4>3. Busy(j)' = Busy(j)
        BY <1>6, <3>1, <4>1, <4>2 DEF Busy
      <4>4. PICK c \in Nat : c = Cardinality(Busy(j))
        BY BusyType
      <4> QED  BY <4>1, <4>3, <4>4
    <3> QED  BY <3>2, <3>3
  <2>5. Balance(answered[j], Count(wire[j], Requests(j)),
                Count(queue, Requests(j)), Cardinality(Busy(j)),
                Count(replies[j], FileAnswers), sent[j])
    BY DEF AnswerInv
  <2>6. PICK a, x, q, b, r, n :
          /\ a = answered[j] /\ x = Count(wire[j], Requests(j))
          /\ q = Count(queue', Requests(j)) /\ b = Cardinality(Busy(j))
          /\ r = Count(replies[j], FileAnswers) /\ n = sent[j]
    OBVIOUS
  <2>7. Balance(a, x, q + d, b, r, n) /\ q \in Nat
    BY <2>3, <2>5, <2>6
  <2>8. Balance(a, x, q, b + d, r, n)
    BY <2>2, <2>7 DEF Balance
  <2> QED  BY <1>1, <2>4, <2>6, <2>8
<1> QED  BY <1>1, <1>2, <1>5, <1>7 DEF AnswerInv

\* A worker that goes on with its message has a request, or has none, before
\* and after.
LEMMA BalanceAdvance ==
  ASSUME Types, AnswerInv, NEW w \in Workers, Advance(w)
  PROVE  AnswerInv'
<1>1. /\ \A v \in Workers : v # w => at'[v] = at[v]
      /\ job' = job /\ UNCHANGED <<clientVars, netVars>>
  BY AdvanceFacts
<1>2. at'[w] \in {"file", "serve"} <=> at[w] \in {"file", "serve"}
  <2>1. at \in [Workers -> Places]
    BY DEF Types, WorkTypes
  <2> QED  BY <2>1 DEF Advance, Challenge, PutSession, SetKey, SetContext,
                       TokenOK, Gate, Goto
<1>3. \A j : Busy(j)' = Busy(j)
  BY <1>1, <1>2 DEF Busy
<1>4. UNCHANGED <<sent, answered, strays, wire, queue, replies>>
  BY <1>1 DEF clientVars, netVars
<1>5. \A j \in PoolConns :
        Balance(answered[j], Count(wire[j], Requests(j)),
                Count(queue, Requests(j)), Cardinality(Busy(j)),
                Count(replies[j], FileAnswers), sent[j])'
  BY <1>3, <1>4, BalanceSame
<1> QED  BY <1>4, <1>5 DEF AnswerInv

\* A worker answers: the request it had becomes an answer, or is refused.
LEMMA BalanceFinish ==
  ASSUME Types, AnswerInv, NEW w \in Workers, NEW r, Finish(w, r),
         r \in FileAnswers => at[w] = "serve"
  PROVE  AnswerInv'
<1>1. PICK k : k = job[w].conn
  OBVIOUS
<1>2. /\ r \in Answers /\ at[w] # "idle" /\ Answer(w, r)
      /\ at' = [at EXCEPT ![w] = "idle"]
      /\ job' = [job EXCEPT ![w] = NoJob]
      /\ replies' = [replies EXCEPT ![k] = Append(@, r)]
      /\ UNCHANGED <<sent, answered, strays, wire, queue>>
  BY <1>1 DEF Finish, Answer, clientVars
<1>3. /\ k \in Conns /\ replies \in [Conns -> Seq(Answers)]
      /\ at \in [Workers -> Places] /\ DOMAIN job = Workers
      /\ PoolConns \subseteq Conns
  BY <1>1, <1>2, ConnFacts DEF Types, NetTypes, WorkTypes, Message
<1>4. /\ at'[w] = "idle"
      /\ \A v \in Workers \ {w} : at'[v] = at[v] /\ job'[v] = job[v]
      /\ replies'[k] = Append(replies[k], r) /\ replies[k] \in Seq(Answers)
      /\ \A j \in Conns \ {k} : replies'[j] = replies[j]
  BY <1>2, <1>3
<1>5. ASSUME NEW j \in PoolConns
      PROVE  Balance(answered[j], Count(wire[j], Requests(j)),
                     Count(queue, Requests(j)), Cardinality(Busy(j)),
                     Count(replies[j], FileAnswers), sent[j])'
  <2>1. PICK d, e : /\ d = One(w \in Busy(j))
                    /\ e = One(j = k /\ r \in FileAnswers)
    OBVIOUS
  <2>2. d \in 0 .. 1 /\ e \in 0 .. 1 /\ e <= d
    <3>1. j = k /\ r \in FileAnswers => w \in Busy(j)
      BY <1>1 DEF Busy
    <3> QED  BY <2>1, <3>1 DEF One
  <2>3. /\ Cardinality(Busy(j)) = Cardinality(Busy(j)') + d
        /\ Cardinality(Busy(j)') \in Nat
    <3>1. Busy(j)' = Busy(j) \ {w}
      BY <1>4 DEF Busy
    <3>2. PICK B, c : B = Busy(j) /\ c = Cardinality(Busy(j))
      OBVIOUS
    <3>3. IsFiniteSet(B) /\ c \in Nat /\ c = Cardinality(B)
      BY <3>2, BusyType
    <3>4. Cardinality(B \ {w}) = IF w \in B THEN c - 1 ELSE c
      BY <3>3, FS_RemoveElement
    <3>5. d = IF w \in B THEN 1 ELSE 0
      BY <2>1, <3>2 DEF One
    <3>6. Cardinality(Busy(j)') \in Nat
      BY BusyType
    <3>7. Cardinality(Busy(j)') = Cardinality(B \ {w})
      BY <3>1, <3>2
    <3> QED  BY <3>2, <3>3, <3>4, <3>5, <3>6, <3>7
  <2>4. Count(replies'[j], FileAnswers) = Count(replies[j], FileAnswers) + e
    <3>1. CASE j = k
      <4>1. e = One(r \in FileAnswers)
        BY <2>1, <3>1 DEF One
      <4>2. Count(Append(replies[k], r), FileAnswers)
              = Count(replies[k], FileAnswers) + One(r \in FileAnswers)
        BY <1>2, <1>4, CountAppend
      <4> QED  BY <1>4, <3>1, <4>1, <4>2
    <3>2. CASE j # k
      <4>1. e = 0 /\ replies'[j] = replies[j] /\ replies[j] \in Seq(Answers)
        BY <1>3, <1>4, <2>1, <3>2 DEF One
      <4>2. Count(replies[j], FileAnswers) \in Nat
        BY <4>1, CountType
      <4> QED  BY <4>1, <4>2
    <3> QED  BY <3>1, <3>2
  <2>5. Balance(answered[j], Count(wire[j], Requests(j)),
                Count(queue, Requests(j)), Cardinality(Busy(j)),
                Count(replies[j], FileAnswers), sent[j])
    BY DEF AnswerInv
  <2>6. PICK a, x, q, b, p, n :
          /\ a = answered[j] /\ x = Count(wire[j], Requests(j))
          /\ q = Count(queue, Requests(j)) /\ b = Cardinality(Busy(j)')
          /\ p = Count(replies[j], FileAnswers) /\ n = sent[j]
    OBVIOUS
  <2>7. Balance(a, x, q, b + d, p, n) /\ b \in Nat
    BY <2>3, <2>5, <2>6
  <2>8. Balance(a, x, q, b, p + e, n)
    BY <2>2, <2>7 DEF Balance
  <2> QED  BY <1>2, <2>4, <2>6, <2>8
<1> QED  BY <1>2, <1>5 DEF AnswerInv

\* Every step keeps the balance.
LEMMA AnswerStep ==
  ASSUME Types, AnswerInv, [Next]_vars
  PROVE  AnswerInv'
<1>1. ASSUME NEW c \in Clients, Client(c) \/ Stray(c)
      PROVE  AnswerInv'
  <2>1. PICK k : k = <<c, Login>>
    OBVIOUS
  <2>2. /\ \A j \in PoolConns : j # k /\ j \in Conns
        /\ wire \in [Conns -> Seq(Message)] /\ replies \in [Conns -> Seq(Answers)]
    BY <2>1, AuthAssumption DEF PoolConns, Conns, Types, NetTypes
  <2>3. /\ \A j \in PoolConns : wire'[j] = wire[j] /\ replies'[j] = replies[j]
        /\ UNCHANGED <<sent, answered, queue, at, job>>
    BY <1>1, <2>1, <2>2 DEF Client, Hello, Sign, LoggedIn, Stray, Put, Consume,
                            workVars
  <2>4. strays' \in 0 .. MaxStray
    BY <1>1, AuthAssumption DEF AnswerInv, Client, Hello, Sign, LoggedIn, Stray
  <2>5. \A j : Busy(j)' = Busy(j)
    BY <2>3 DEF Busy
  <2>6. \A j \in PoolConns :
          Balance(answered[j], Count(wire[j], Requests(j)),
                  Count(queue, Requests(j)), Cardinality(Busy(j)),
                  Count(replies[j], FileAnswers), sent[j])'
    BY <2>3, <2>5, BalanceSame
  <2> QED  BY <2>3, <2>4, <2>6 DEF AnswerInv
<1>2. ASSUME NEW w \in Workers, Refusal(w)
      PROVE  AnswerInv'
  <2>1. Reply("denied", 0) \notin FileAnswers
    BY ReplyFacts DEF FileAnswers
  <2> QED  BY <1>2, <2>1, RefusalFacts, BalanceFinish
<1>3. ASSUME NEW w \in Workers, SendChallenge(w)
      PROVE  AnswerInv'
  <2>1. Reply("challenge", ca[w].challenge) \notin FileAnswers
    BY DEF FileAnswers, Reply
  <2> QED  BY <1>3, <2>1, FinishFacts, BalanceFinish
<1>4. ASSUME NEW w \in Workers, Accept(w)
      PROVE  AnswerInv'
  <2>1. Reply("ok", 0) \notin FileAnswers
    BY ReplyFacts DEF FileAnswers
  <2> QED  BY <1>4, <2>1, FinishFacts, BalanceFinish
<1>5. ASSUME NEW w \in Workers, Serve(w)
      PROVE  AnswerInv'
  BY <1>5, FinishFacts, BalanceFinish
<1>6. CASE UNCHANGED vars
  <2>1. UNCHANGED <<sent, answered, strays, wire, queue, replies, at, job>>
    BY <1>6 DEF vars, clientVars, netVars, workVars
  <2>2. \A j : Busy(j)' = Busy(j)
    BY <2>1 DEF Busy
  <2> QED  BY <2>1, <2>2 DEF AnswerInv
<1> QED
  BY <1>1, <1>2, <1>3, <1>4, <1>5, <1>6, BalancePut, BalanceReceive,
     BalanceTraffic, BalanceTake, BalanceAdvance, WorkerCases DEF Next, Link

\* Types, the capacity of processMsgChan and the number of answers: however
\* workers take the messages of a connection, no request is answered twice
\* and no answer is without its request.
THEOREM TypesHold == Spec => []TypeOK
<1>1. Init => AnswerInv
  <2> SUFFICES ASSUME Init
               PROVE  AnswerInv
    OBVIOUS
  <2>1. /\ sent = [k \in PoolConns |-> 0] /\ answered = [k \in PoolConns |-> 0]
        /\ strays = 0 /\ queue = <<>> /\ Len(queue) = 0
        /\ \A k \in PoolConns : wire[k] = <<>> /\ replies[k] = <<>>
        /\ MaxFiles \in Nat /\ MaxStray \in Nat
    BY ConnFacts, AuthAssumption DEF Init
  <2>2. Cardinality(Workers) \in Nat
    BY AuthAssumption, FS_CardinalityType
  <2>3. \A T : Count(<<>>, T) = 0
    <3> SUFFICES ASSUME NEW T
                 PROVE  Count(<<>>, T) = 0
      OBVIOUS
    <3>1. {i \in 1 .. Len(<<>>) : <<>>[i] \in T} = {}
      BY EmptyFacts
    <3> QED  BY <3>1, FS_EmptySet DEF Count
  <2>4. \A k : Cardinality(Busy(k)) = 0
    <3>1. \A k : Busy(k) = {}
      BY DEF Init, Busy
    <3> QED  BY <3>1, FS_EmptySet
  <2>5. Balance(0, 0, 0, 0, 0, 0)
    BY AuthAssumption DEF Balance
  <2>6. ASSUME NEW k \in PoolConns
        PROVE  Balance(answered[k], Count(wire[k], Requests(k)),
                       Count(queue, Requests(k)), Cardinality(Busy(k)),
                       Count(replies[k], FileAnswers), sent[k])
    BY <2>1, <2>3, <2>4, <2>5
  <2>7. /\ sent \in [PoolConns -> 0 .. MaxFiles] /\ answered \in [PoolConns -> Nat]
        /\ strays \in 0 .. MaxStray /\ Len(queue) <= Cardinality(Workers)
    BY <2>1, <2>2
  <2> QED  BY <2>6, <2>7 DEF AnswerInv
<1>2. Types /\ AnswerInv /\ [Next]_vars => AnswerInv'
  BY AnswerStep
<1>3. Types /\ AnswerInv => TypeOK
  <2> SUFFICES ASSUME Types, AnswerInv
               PROVE  TypeOK
    OBVIOUS
  <2>1. answered \in [PoolConns -> 0 .. MaxFiles]
    <3>1. \A k \in PoolConns : answered[k] \in 0 .. MaxFiles
      <4> SUFFICES ASSUME NEW k \in PoolConns
                   PROVE  answered[k] \in 0 .. MaxFiles
        OBVIOUS
      <4>1. Balance(answered[k], Count(wire[k], Requests(k)),
                    Count(queue, Requests(k)), Cardinality(Busy(k)),
                    Count(replies[k], FileAnswers), sent[k])
        BY DEF AnswerInv
      <4>2. \A a, x, q, b, r, n : Balance(a, x, q, b, r, n) => a \in 0 .. MaxFiles
        BY AuthAssumption DEF Balance
      <4> QED  BY <4>1, <4>2
    <3> QED  BY <3>1 DEF AnswerInv
  <2>2. \A k \in Conns : auth[k].state \in {"new", "pending", "ok"}
    BY DEF Types, StoreTypes, AuthRec
  <2>3. \A w \in Workers :
          at[w] \in {"idle", "empty", "hello", "challenge", "sign", "key",
                     "context", "guess", "token", "accept", "file", "serve"}
    BY DEF Types, WorkTypes, Places, MsgTypes
  <2> QED  BY <2>1, <2>2, <2>3
              DEF Types, ClientTypes, NetTypes, StoreTypes, AnswerInv, TypeOK
<1> QED  BY <1>1, <1>2, <1>3, InitTypes, TypesStep, PTL DEF Spec
=============================================================================

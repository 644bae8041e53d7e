-------------------------------- MODULE Frame --------------------------------
(***************************************************************************)
(* One connection, one direction: frames are encoded and written, travel   *)
(* as a stream of bytes that arrives in pieces of any size, and are put    *)
(* together again.  The server reads with ReadMessage, called in the loop  *)
(* of OnTraffic; the client reads the answer to its token with readResp    *)
(* and everything after it with the state machine of handleReceive.        *)
(*                                                                         *)
(* The two size fields of the header are one byte wide instead of four.    *)
(* The bytes of the message and the payload of frame i are stand-ins that  *)
(* are different from each other and from the bytes of any header.         *)
(***************************************************************************)
EXTENDS Integers, Sequences

CONSTANTS
  Writers,     \* the goroutines that write to the connection
  Receivers,   \* a subset of {"server", "client"}
  Traffic,     \* what they may have to write: functions of Writers to
               \* sequences of frames
  MaxMsg,      \* MaxMsgSize
  MaxPayload,  \* MaxPayloadSize
  Overhead,    \* the nonce and the tag that encryption adds
  NoRoom       \* bufMsg and payload are nil

\* A frame to send: its number, its type, the length of its encoded message,
\* the length of its data after compression, and whether they are encrypted.
FrameRec == [id : Nat, type : 0 .. 13, msg : Nat \ {0}, data : Nat,
             enc : BOOLEAN]

ASSUME FrameAssumption ==
  /\ Receivers \subseteq {"server", "client"}
  /\ \A t \in Traffic : t \in [Writers -> Seq(FrameRec)]
  /\ MaxMsg \in 1 .. 255 /\ MaxPayload \in 0 .. 255 /\ Overhead \in Nat
  /\ NoRoom \notin [msg : Nat, payload : Nat]

VARIABLES
  receiver,   \* the kind of the receiving end
  queue,      \* the frames each writer still has to finish
  part,       \* how many of the three buffers of the first one are written
  wire,       \* bytes written that have not arrived
  inbox,      \* bytes that have arrived and have not been consumed
  open,       \* the connection
  auth,       \* the client is still in readResp
  buf,        \* the client's bytes of the current frame; readSize is Len(buf)
  room,       \* the lengths of bufMsg and payload once allocated
  magic,      \* magicNumChecked
  written,    \* the frames whose header has been written (history)
  delivered,  \* the number and the payload of each frame taken (history)
  broken      \* the network has broken the connection (history)

sendVars == <<queue, part, written>>
readVars == <<auth, buf, room, magic>>
vars == <<receiver, sendVars, wire, inbox, open, readVars, delivered, broken>>

MagicA == 168
MagicB == 213
AuthResT == 13

HeadSize == 5

\* encryptChunk leaves empty data alone.
PayloadLen(f) == f.data + (IF f.enc /\ f.data > 0 THEN Overhead ELSE 0)

Payload(f) == [i \in 1 .. PayloadLen(f) |-> 512 + f.id]

\* EncodeMsg and the payload: the three buffers of net.Buffers.  The encoder
\* checks no limit.
EncodeMsg(f) ==
  << <<MagicA, MagicB, f.type, f.msg, PayloadLen(f)>>,
     [i \in 1 .. f.msg |-> 256 + f.id],
     Payload(f) >>

\* Mutation: a frame exactly at a limit is refused.
DecodePreStrict(h) ==
  /\ h[3] \in 0 .. 13
  /\ h[4] < MaxMsg /\ h[5] < MaxPayload

\* DecodePre: the type is known and the sizes are within the limits.
DecodePre(h) ==
  /\ h[3] \in 0 .. 13
  /\ h[4] <= MaxMsg /\ h[5] <= MaxPayload

\* MSG.Decode succeeds on what Encode has produced.
Decodes(body) == body # <<>> /\ \A i \in 1 .. Len(body) :
                                  body[i] > 256 /\ body[i] = body[1]
                                  /\ body[i] < 512

MagicNumberCheck(bs) == bs[1] = MagicA /\ bs[2] = MagicB

Init ==
  /\ receiver \in Receivers
  /\ queue \in Traffic
  /\ part = [w \in Writers |-> 0]
  /\ wire = <<>> /\ inbox = <<>> /\ open = TRUE
  /\ auth = (receiver = "client")
  /\ buf = <<>> /\ room = NoRoom /\ magic = FALSE
  /\ written = <<>> /\ delivered = <<>> /\ broken = FALSE

-----------------------------------------------------------------------------
(* The sending end                                                         *)

\* To the server: handleSend and WriteMessage write to a TCP connection, all
\* of a frame in one writev.
WriteV(w) ==
  /\ receiver = "server"
  /\ LET f == Head(queue[w])
         bs == EncodeMsg(f)
     IN /\ wire' = wire \o bs[1] \o bs[2] \o bs[3]
        /\ written' = Append(written, f)
  /\ queue' = [queue EXCEPT ![w] = Tail(@)]
  /\ UNCHANGED part

\* To the client: WriteMessage writes to a gnet.Conn, one buffer at a time.
\* Before the client is authenticated there is only the answer to its token.
WriteBuffer(w) ==
  /\ receiver = "client"
  /\ auth => Head(queue[w]).type = AuthResT
  /\ LET f == Head(queue[w])
     IN /\ wire' = wire \o EncodeMsg(f)[part[w] + 1]
        /\ written' = IF part[w] = 0 THEN Append(written, f) ELSE written
  /\ part' = [part EXCEPT ![w] = (@ + 1) % 3]
  /\ queue' = [queue EXCEPT ![w] = IF part[w] = 2 THEN Tail(@) ELSE @]

WriteMessage(w) ==
  /\ open /\ queue[w] # <<>>
  /\ WriteV(w) \/ WriteBuffer(w)
  /\ UNCHANGED <<receiver, inbox, open, readVars, delivered, broken>>

\* The network hands over the next n bytes.
Transmit(n) ==
  /\ open
  /\ inbox' = inbox \o SubSeq(wire, 1, n)
  /\ wire' = SubSeq(wire, n + 1, Len(wire))
  /\ UNCHANGED <<receiver, sendVars, open, readVars, delivered, broken>>

\* The connection is reset, or a read or write deadline passes.
Break ==
  /\ open
  /\ open' = FALSE /\ broken' = TRUE
  /\ UNCHANGED <<receiver, sendVars, wire, inbox, readVars, delivered>>

-----------------------------------------------------------------------------
(* The receiving end                                                       *)

CloseConn == open' = FALSE /\ UNCHANGED <<inbox, readVars, delivered>>

Received(body, payload) ==
  delivered' = Append(delivered, [id |-> body[1] - 256, payload |-> payload])

\* Mutation: the payload is copied from behind the header.
CopyBehindHead(total) ==
  Received(SubSeq(inbox, HeadSize + 1, HeadSize + inbox[4]),
           SubSeq(inbox, HeadSize + 1, HeadSize + inbox[5]))

\* The message and a copy of the payload.
CopyFrame(total) ==
  Received(SubSeq(inbox, HeadSize + 1, HeadSize + inbox[4]),
           SubSeq(inbox, HeadSize + inbox[4] + 1, total))

\* One call of ReadMessage.  Bytes that are missing are no step at all: Peek
\* fails, OnTraffic returns and is called again when more have arrived.
ReadMessage ==
  /\ receiver = "server" /\ open
  /\ Len(inbox) >= 2
  /\ IF MagicNumberCheck(inbox)
       THEN /\ Len(inbox) >= HeadSize
            /\ IF DecodePre(inbox)
                 THEN LET total == HeadSize + inbox[4] + inbox[5]
                      IN /\ Len(inbox) >= total
                         /\ IF Decodes(SubSeq(inbox, HeadSize + 1,
                                              HeadSize + inbox[4]))
                              THEN /\ CopyFrame(total)
                                   /\ inbox' = SubSeq(inbox, total + 1,
                                                      Len(inbox))
                                   /\ UNCHANGED <<open, readVars>>
                              ELSE CloseConn
                 ELSE CloseConn
       ELSE CloseConn
  /\ UNCHANGED <<receiver, sendVars, wire, broken>>

\* len(bufMsg) # 0
Allocated == IF room = NoRoom THEN FALSE ELSE room.msg > 0

\* Mutation: a Read is given the space of everything that has arrived.
WantAll == Len(inbox)

\* The length of the slice that the client's next Read fills: the rest of the
\* header, of the message or of the payload.
Want ==
  IF Len(buf) < HeadSize THEN HeadSize - Len(buf)
  ELSE IF ~Allocated THEN 0
  ELSE IF Len(buf) < HeadSize + room.msg THEN HeadSize + room.msg - Len(buf)
  ELSE HeadSize + room.msg + room.payload - Len(buf)

\* conn.Read returns what there is, and never more than it was given room for.
\* handleReceive looks at the magic number once per connection.
ClientRead ==
  /\ receiver = "client" /\ open
  /\ Want > 0 /\ inbox # <<>>
  /\ LET n == IF Want < Len(inbox) THEN Want ELSE Len(inbox)
         got == buf \o SubSeq(inbox, 1, n)
         checks == ~auth /\ ~magic /\ Len(got) > 1
     IN IF checks /\ ~MagicNumberCheck(got)
          THEN CloseConn
          ELSE /\ buf' = got
               /\ inbox' = SubSeq(inbox, n + 1, Len(inbox))
               /\ magic' = (magic \/ checks)
               /\ UNCHANGED <<open, auth, room, delivered>>
  /\ UNCHANGED <<receiver, sendVars, wire, broken>>

\* Mutation: only the message size is limited.
AcceptsAnyPayload(h) ==
  IF auth THEN MagicNumberCheck(h) /\ DecodePre(h) ELSE h[4] <= MaxMsg

\* readResp checks magic number, type and sizes of a whole header, and
\* handleReceive the sizes.
Accepts(h) ==
  IF auth THEN MagicNumberCheck(h) /\ DecodePre(h)
          ELSE h[4] <= MaxMsg /\ h[5] <= MaxPayload

\* Allocate bufMsg and payload.  With an empty message handleReceive would
\* do so for ever.
Allocate ==
  /\ receiver = "client" /\ open
  /\ Len(buf) = HeadSize
  /\ ~Allocated
  /\ IF Accepts(buf)
       THEN /\ room' = [msg |-> buf[4], payload |-> buf[5]]
            /\ UNCHANGED <<open, inbox, auth, buf, magic, delivered>>
       ELSE CloseConn
  /\ UNCHANGED <<receiver, sendVars, wire, broken>>

\* The frame is complete: DecodePre again, Decode, hand it over, start anew.
\* readResp drops the payload only after it has decoded the message.
ClientDeliver ==
  /\ receiver = "client" /\ open
  /\ Allocated
  /\ Len(buf) = HeadSize + room.msg + room.payload
  /\ LET body == SubSeq(buf, HeadSize + 1, HeadSize + room.msg)
     IN IF DecodePre(buf) /\ Decodes(body)
          THEN /\ Received(body, SubSeq(buf, HeadSize + room.msg + 1,
                                        Len(buf)))
               /\ buf' = <<>> /\ room' = NoRoom /\ auth' = FALSE
               /\ UNCHANGED <<open, inbox, magic>>
          ELSE CloseConn
  /\ UNCHANGED <<receiver, sendVars, wire, broken>>

Receive == ReadMessage \/ ClientRead \/ Allocate \/ ClientDeliver

-----------------------------------------------------------------------------
Next ==
  \/ \E w \in Writers : WriteMessage(w)
  \/ \E n \in 1 .. Len(wire) : Transmit(n)
  \/ Receive
  \/ Break

Spec == Init /\ [][Next]_vars

\* Writers finish, bytes arrive, and the reading goroutine or event loop runs.
\* Nothing has to break.
FairSpec ==
  /\ Spec
  /\ \A w \in Writers : WF_vars(WriteMessage(w))
  /\ WF_vars(\E n \in 1 .. Len(wire) : Transmit(n))
  /\ WF_vars(Receive)

-----------------------------------------------------------------------------
(* Correctness                                                             *)

\* Types; the client never reads beyond the frame it is putting together.
TypeOK ==
  /\ receiver \in Receivers
  /\ queue \in [Writers -> Seq(FrameRec)] /\ part \in [Writers -> 0 .. 2]
  /\ wire \in Seq(Nat) /\ inbox \in Seq(Nat) /\ buf \in Seq(Nat)
  /\ {open, auth, magic, broken} \subseteq BOOLEAN
  /\ written \in Seq(FrameRec)
  /\ delivered \in Seq([id : Nat, payload : Seq(Nat)])
  /\ IF room = NoRoom
       THEN Len(buf) <= HeadSize
       ELSE /\ room \in [msg : Nat, payload : Nat]
            /\ Len(buf) <= HeadSize + room.msg + room.payload

\* However the bytes are cut into pieces and whenever the connection breaks,
\* the receiver takes the frames that were written, each once, in order, with
\* their own payload and nothing else.
FramesIntact ==
  /\ Len(delivered) <= Len(written)
  /\ \A i \in 1 .. Len(delivered) :
       delivered[i] = [id |-> written[i].id, payload |-> Payload(written[i])]

\* "Both guard against memory exhaustion": the client allocates no more than
\* the limits allow, and no larger frame reaches either end's handlers.
WithinLimits ==
  /\ room # NoRoom => room.msg <= MaxMsg /\ room.payload <= MaxPayload
  /\ \A i \in 1 .. Len(delivered) : Len(delivered[i].payload) <= MaxPayload

Sendable(f) == f.msg <= MaxMsg /\ PayloadLen(f) <= MaxPayload

\* On a connection that does not break every frame up to the first one beyond
\* the limits arrives.  That one closes the connection, and nothing else does.
EveryFrameArrives ==
  []~broken =>
    <>[](IF open THEN /\ \A w \in Writers : queue[w] = <<>>
                      /\ Len(delivered) = Len(written)
                 ELSE /\ Len(delivered) < Len(written)
                      /\ ~Sendable(written[Len(delivered) + 1]))
=============================================================================

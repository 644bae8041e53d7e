----------------------------- MODULE FrameProofs -----------------------------
(***************************************************************************)
(* The wire format, for messages and payloads of any length, any number of *)
(* frames and any way of cutting their bytes into pieces.                  *)
(*                                                                         *)
(* Types and limits are inductive by themselves.  That frames stay intact  *)
(* needs to know the whole stream: what the client has buffered, what has  *)
(* arrived and what is on the way, put together, are the frames that have  *)
(* not been taken, one behind the other, the last one perhaps in part.     *)
(***************************************************************************)
EXTENDS Frame, SequenceTheorems, TLAPS

Bytes == Seq(Nat)
Delivery == [id : Nat, payload : Seq(Nat)]

-----------------------------------------------------------------------------
(* Pieces of a byte sequence                                               *)

\* p is the part of s from its m-th to its n-th byte.
IsPiece(p, s, m, n) ==
  /\ p \in Bytes /\ Len(p) = n - m + 1
  /\ \A i \in 1 .. Len(p) : p[i] = s[m + i - 1]

\* SubSeq is such a piece.
LEMMA Piece ==
  ASSUME NEW s \in Bytes, NEW m \in Nat \ {0}, NEW n \in Nat,
         m <= n + 1, n <= Len(s)
  PROVE  IsPiece(SubSeq(s, m, n), s, m, n)
  <1>1. PICK p : p = SubSeq(s, m, n)
    OBVIOUS
  <1>2. \A i \in m .. n : s[i] \in Nat
    BY ElementOfSeq DEF Bytes
  <1>3. /\ p \in Seq(Nat)
        /\ Len(p) = IF m <= n THEN n - m + 1 ELSE 0
        /\ \A i \in 1 .. n - m + 1 : p[i] = s[m + i - 1]
    BY <1>1, <1>2, SubSeqProperties
  <1>4. Len(p) = n - m + 1
    BY <1>3
  <1> QED BY <1>1, <1>3, <1>4 DEF IsPiece, Bytes

\* z is s followed by t.
IsJoin(z, s, t) ==
  /\ z \in Bytes /\ Len(z) = Len(s) + Len(t)
  /\ Len(s) \in Nat /\ Len(t) \in Nat
  /\ \A i \in 1 .. Len(s) : z[i] = s[i]
  /\ \A i \in 1 .. Len(t) : z[Len(s) + i] = t[i]

\* The concatenation is such a join.
LEMMA Joined ==
  ASSUME NEW s \in Bytes, NEW t \in Bytes
  PROVE  IsJoin(s \o t, s, t)
  <1>1. Len(s) \in Nat /\ Len(t) \in Nat
    BY LenProperties DEF Bytes
  <1>2. PICK z : z = s \o t
    OBVIOUS
  <1>3. /\ z \in Bytes /\ Len(z) = Len(s) + Len(t)
        /\ \A i \in 1 .. Len(s) + Len(t) : z[i] =
             IF i <= Len(s) THEN s[i] ELSE t[i - Len(s)]
    BY <1>2, ConcatProperties DEF Bytes
  <1>4. ASSUME NEW i \in 1 .. Len(s)
        PROVE  z[i] = s[i]
    <2>1. i \in 1 .. Len(s) + Len(t) /\ i <= Len(s)
      BY <1>1
    <2> QED BY <1>3, <2>1
  <1>5. ASSUME NEW i \in 1 .. Len(t)
        PROVE  z[Len(s) + i] = t[i]
    <2>1. /\ Len(s) + i \in 1 .. Len(s) + Len(t) /\ ~(Len(s) + i <= Len(s))
          /\ Len(s) + i - Len(s) = i
      BY <1>1
    <2> QED BY <1>3, <2>1
  <1> QED BY <1>1, <1>2, <1>3, <1>4, <1>5 DEF IsJoin

\* Cut into two, a sequence can be put together again.
LEMMA Cut ==
  ASSUME NEW s \in Bytes, NEW n \in 0 .. Len(s)
  PROVE  /\ IsPiece(SubSeq(s, 1, n), s, 1, n)
         /\ IsPiece(SubSeq(s, n + 1, Len(s)), s, n + 1, Len(s))
         /\ SubSeq(s, 1, n) \o SubSeq(s, n + 1, Len(s)) = s
  <1>1. Len(s) \in Nat /\ n \in Nat /\ n <= Len(s)
    BY LenProperties DEF Bytes
  <1>2. PICK x, y : x = SubSeq(s, 1, n) /\ y = SubSeq(s, n + 1, Len(s))
    OBVIOUS
  <1>3. IsPiece(x, s, 1, n) /\ IsPiece(y, s, n + 1, Len(s))
    BY <1>1, <1>2, Piece
  <1>4. PICK z : z = x \o y /\ IsJoin(z, x, y)
    BY <1>3, Joined DEF IsPiece
  <1>5. /\ x \in Bytes /\ Len(x) = n /\ y \in Bytes /\ Len(y) = Len(s) - n
    BY <1>1, <1>3 DEF IsPiece
  <1>6. z \in Bytes /\ Len(z) = Len(s)
    BY <1>1, <1>4, <1>5 DEF IsJoin
  <1>7. ASSUME NEW i \in 1 .. Len(s)
        PROVE  z[i] = s[i]
    <2>1. CASE i <= n
      <3>1. i \in 1 .. Len(x) /\ 1 + i - 1 = i
        BY <1>1, <1>5, <2>1
      <3> QED BY <1>3, <1>4, <3>1 DEF IsPiece, IsJoin
    <2>2. CASE i > n
      <3>1. PICK j \in 1 .. Len(y) : i = n + j /\ (n + 1) + j - 1 = i
        BY <1>1, <1>5, <2>2
      <3>2. z[i] = y[j]
        BY <1>4, <1>5, <3>1 DEF IsJoin
      <3>3. y[j] = s[i]
        BY <1>3, <3>1 DEF IsPiece
      <3> QED BY <3>2, <3>3
    <2> QED BY <1>1, <2>1, <2>2
  <1>8. z = s
    BY <1>6, <1>7, SeqEqual DEF Bytes
  <1> QED BY <1>2, <1>3, <1>4, <1>8

-----------------------------------------------------------------------------
(* The encoder                                                             *)

Header(f) == <<MagicA, MagicB, f.type, f.msg, PayloadLen(f)>>
Body(f) == [i \in 1 .. f.msg |-> 256 + f.id]
FrameLen(f) == HeadSize + f.msg + PayloadLen(f)

\* The sizes of a frame.
LEMMA FrameFacts ==
  ASSUME NEW f \in FrameRec
  PROVE  /\ f.id \in Nat /\ f.type \in 0 .. 13 /\ f.msg \in Nat \ {0}
         /\ PayloadLen(f) \in Nat /\ FrameLen(f) \in Nat
         /\ FrameLen(f) > HeadSize
  <1>1. /\ f.id \in Nat /\ f.type \in 0 .. 13 /\ f.msg \in Nat \ {0}
        /\ f.data \in Nat /\ Overhead \in Nat
    BY FrameAssumption DEF FrameRec
  <1>2. PayloadLen(f) \in Nat
    BY <1>1 DEF PayloadLen
  <1> QED BY <1>1, <1>2 DEF FrameLen, HeadSize

\* A function on 1 .. n is a sequence of bytes.
LEMMA AsBytes ==
  ASSUME NEW n \in Nat, NEW s \in [1 .. n -> Nat]
  PROVE  s \in Bytes /\ Len(s) = n
  <1>1. s \in Bytes
    BY SeqDef DEF Bytes
  <1>2. Len(s) \in Nat /\ 1 .. Len(s) = 1 .. n
    BY <1>1, LenProperties DEF Bytes
  <1>3. \A i \in Nat \ {0} : i <= Len(s) <=> i <= n
    BY <1>2
  <1>4. (Len(s) > 0 => Len(s) <= n) /\ (n > 0 => n <= Len(s))
    BY <1>2, <1>3
  <1>5. Len(s) = n
    BY <1>2, <1>4
  <1> QED BY <1>1, <1>5

\* The three buffers of an encoded frame.
LEMMA EncodeFacts ==
  ASSUME NEW f \in FrameRec
  PROVE  /\ Header(f) \in Bytes /\ Len(Header(f)) = HeadSize
         /\ Body(f) \in Bytes /\ Len(Body(f)) = f.msg
         /\ Payload(f) \in Bytes /\ Len(Payload(f)) = PayloadLen(f)
         /\ EncodeMsg(f)[1] = Header(f) /\ EncodeMsg(f)[2] = Body(f)
         /\ EncodeMsg(f)[3] = Payload(f)
  <1>1. /\ f.id \in Nat /\ f.type \in Nat /\ f.msg \in Nat /\ PayloadLen(f) \in Nat
    BY FrameFacts
  <1>2. Header(f) \in Bytes /\ Len(Header(f)) = HeadSize
    BY <1>1 DEF Header, Bytes, HeadSize, MagicA, MagicB
  <1>3. Body(f) \in Bytes /\ Len(Body(f)) = f.msg
    <2>1. Body(f) \in [1 .. f.msg -> Nat]
      BY <1>1 DEF Body
    <2> QED BY <1>1, <2>1, AsBytes
  <1>4. Payload(f) \in Bytes /\ Len(Payload(f)) = PayloadLen(f)
    <2>1. Payload(f) \in [1 .. PayloadLen(f) -> Nat]
      BY <1>1 DEF Payload
    <2> QED BY <1>1, <2>1, AsBytes
  <1>5. /\ EncodeMsg(f)[1] = Header(f) /\ EncodeMsg(f)[2] = Body(f)
        /\ EncodeMsg(f)[3] = Payload(f)
    BY DEF EncodeMsg, Header, Body
  <1> QED BY <1>2, <1>3, <1>4, <1>5

-----------------------------------------------------------------------------
(* Types and limits                                                        *)

\* A body that decodes carries the number of a frame.
LEMMA Handover ==
  ASSUME TypeOK,
         NEW body \in Bytes, NEW payload \in Bytes,
         Decodes(body), Received(body, payload)
  PROVE  /\ delivered' \in Seq(Delivery)
         /\ Len(delivered) \in Nat /\ Len(delivered') = Len(delivered) + 1
         /\ \A i \in 1 .. Len(delivered) : delivered'[i] = delivered[i]
         /\ delivered'[Len(delivered) + 1]
              = [id |-> body[1] - 256, payload |-> payload]
  <1>1. PICK d : d = [id |-> body[1] - 256, payload |-> payload]
    OBVIOUS
  <1>2. Len(body) \in Nat /\ Len(body) # 0
    BY EmptySeq, LenProperties DEF Decodes, Bytes
  <1>3. 1 \in 1 .. Len(body)
    BY <1>2
  <1>4. body[1] \in Nat /\ body[1] > 256
    BY <1>3, ElementOfSeq DEF Decodes, Bytes
  <1>5. d \in Delivery
    BY <1>1, <1>4 DEF Delivery, Bytes
  <1>6. delivered \in Seq(Delivery) /\ delivered' = Append(delivered, d)
    BY <1>1 DEF TypeOK, Delivery, Received
  <1>7. /\ Append(delivered, d) \in Seq(Delivery)
        /\ Len(Append(delivered, d)) = Len(delivered) + 1
        /\ \A i \in 1 .. Len(delivered) : Append(delivered, d)[i] = delivered[i]
        /\ Append(delivered, d)[Len(delivered) + 1] = d
    BY <1>5, <1>6, AppendProperties
  <1>8. Len(delivered) \in Nat
    BY <1>6, LenProperties
  <1> QED BY <1>1, <1>6, <1>7, <1>8

\* What a complete frame at the server leaves behind.
LEMMA ServerTakes ==
  ASSUME TypeOK, NEW total, total = HeadSize + inbox[4] + inbox[5],
         Len(inbox) >= HeadSize, Len(inbox) >= total
  PROVE  /\ inbox[4] \in Nat /\ inbox[5] \in Nat
         /\ total \in 0 .. Len(inbox) /\ total \in Nat
         /\ IsPiece(SubSeq(inbox, HeadSize + 1, HeadSize + inbox[4]),
                    inbox, HeadSize + 1, HeadSize + inbox[4])
         /\ IsPiece(SubSeq(inbox, HeadSize + inbox[4] + 1, total),
                    inbox, HeadSize + inbox[4] + 1, total)
         /\ IsPiece(SubSeq(inbox, total + 1, Len(inbox)),
                    inbox, total + 1, Len(inbox))
  <1>1. inbox \in Bytes /\ Len(inbox) \in Nat
    BY LenProperties DEF TypeOK, Bytes
  <1>2. 4 \in 1 .. Len(inbox) /\ 5 \in 1 .. Len(inbox)
    BY <1>1 DEF HeadSize
  <1>3. inbox[4] \in Nat /\ inbox[5] \in Nat
    BY <1>1, <1>2, ElementOfSeq DEF Bytes
  <1>4. /\ total \in Nat /\ total <= Len(inbox)
        /\ HeadSize + 1 \in Nat \ {0} /\ HeadSize + inbox[4] \in Nat
        /\ HeadSize + 1 <= HeadSize + inbox[4] + 1
        /\ HeadSize + inbox[4] <= Len(inbox)
        /\ HeadSize + inbox[4] + 1 \in Nat \ {0}
        /\ HeadSize + inbox[4] + 1 <= total + 1
        /\ total + 1 \in Nat \ {0} /\ total + 1 <= Len(inbox) + 1
    BY <1>1, <1>3 DEF HeadSize
  <1>5. IsPiece(SubSeq(inbox, HeadSize + 1, HeadSize + inbox[4]),
                inbox, HeadSize + 1, HeadSize + inbox[4])
    BY <1>1, <1>4, Piece
  <1>6. IsPiece(SubSeq(inbox, HeadSize + inbox[4] + 1, total),
                inbox, HeadSize + inbox[4] + 1, total)
    BY <1>1, <1>4, Piece
  <1>7. IsPiece(SubSeq(inbox, total + 1, Len(inbox)), inbox, total + 1, Len(inbox))
    BY <1>1, <1>4, Piece
  <1>8. total \in 0 .. Len(inbox)
    BY <1>1, <1>4
  <1> QED BY <1>3, <1>4, <1>5, <1>6, <1>7, <1>8

\* The same at the client.
LEMMA ClientTakes ==
  ASSUME TypeOK, Allocated, Len(buf) = HeadSize + room.msg + room.payload
  PROVE  /\ room # NoRoom /\ room.msg \in Nat /\ room.payload \in Nat
         /\ buf \in Bytes /\ Len(buf) \in Nat
         /\ IsPiece(SubSeq(buf, HeadSize + 1, HeadSize + room.msg),
                    buf, HeadSize + 1, HeadSize + room.msg)
         /\ IsPiece(SubSeq(buf, HeadSize + room.msg + 1, Len(buf)),
                    buf, HeadSize + room.msg + 1, Len(buf))
  <1>1. buf \in Bytes /\ Len(buf) \in Nat
    BY LenProperties DEF TypeOK, Bytes
  <1>2. room # NoRoom /\ room.msg \in Nat /\ room.payload \in Nat
    BY DEF Allocated, TypeOK
  <1>3. /\ HeadSize + 1 \in Nat \ {0} /\ HeadSize + room.msg \in Nat
        /\ HeadSize + 1 <= HeadSize + room.msg + 1
        /\ HeadSize + room.msg <= Len(buf)
        /\ HeadSize + room.msg + 1 \in Nat \ {0}
        /\ HeadSize + room.msg + 1 <= Len(buf) + 1 /\ Len(buf) <= Len(buf)
    BY <1>1, <1>2 DEF HeadSize
  <1>4. IsPiece(SubSeq(buf, HeadSize + 1, HeadSize + room.msg),
                buf, HeadSize + 1, HeadSize + room.msg)
    BY <1>1, <1>3, Piece
  <1>5. IsPiece(SubSeq(buf, HeadSize + room.msg + 1, Len(buf)),
                buf, HeadSize + room.msg + 1, Len(buf))
    BY <1>1, <1>3, Piece
  <1> QED BY <1>1, <1>2, <1>4, <1>5

\* One Read of the client: n bytes move from the inbox to its buffer.
ReadSize == IF Want < Len(inbox) THEN Want ELSE Len(inbox)

\* What one Read moves from the inbox to the buffer.
LEMMA ReadTakes ==
  ASSUME TypeOK, Want > 0, inbox # <<>>
  PROVE  /\ ReadSize \in 0 .. Len(inbox) /\ ReadSize <= Want /\ Want \in Nat
         /\ Len(buf) \in Nat
         /\ IsPiece(SubSeq(inbox, 1, ReadSize), inbox, 1, ReadSize)
         /\ IsPiece(SubSeq(inbox, ReadSize + 1, Len(inbox)),
                    inbox, ReadSize + 1, Len(inbox))
         /\ IsJoin(buf \o SubSeq(inbox, 1, ReadSize),
                   buf, SubSeq(inbox, 1, ReadSize))
         /\ SubSeq(inbox, 1, ReadSize) \o SubSeq(inbox, ReadSize + 1, Len(inbox))
              = inbox
         /\ Len(buf \o SubSeq(inbox, 1, ReadSize)) = Len(buf) + ReadSize
  <1>1. /\ inbox \in Bytes /\ Len(inbox) \in Nat
        /\ buf \in Bytes /\ Len(buf) \in Nat
    BY LenProperties DEF TypeOK, Bytes
  <1>2. Want \in Nat
    <2>1. Allocated => room # NoRoom /\ room.msg \in Nat /\ room.payload \in Nat
      BY DEF TypeOK, Allocated
    <2>2. Allocated => Len(buf) <= HeadSize + room.msg + room.payload
      BY DEF TypeOK, Allocated
    <2>3. CASE Len(buf) < HeadSize
      BY <1>1, <2>3 DEF Want, HeadSize
    <2>4. CASE ~(Len(buf) < HeadSize) /\ ~Allocated
      BY <1>1, <2>4 DEF Want, HeadSize
    <2>5. CASE ~(Len(buf) < HeadSize) /\ Allocated
      <3>1. /\ room.msg \in Nat /\ room.payload \in Nat
            /\ Len(buf) <= HeadSize + room.msg + room.payload
        BY <2>1, <2>2, <2>5
      <3>2. Want = IF Len(buf) < HeadSize + room.msg
                     THEN HeadSize + room.msg - Len(buf)
                     ELSE HeadSize + room.msg + room.payload - Len(buf)
        BY <2>5 DEF Want
      <3> QED BY <1>1, <3>1, <3>2 DEF HeadSize
    <2> QED BY <2>3, <2>4, <2>5
  <1>3. ReadSize \in 0 .. Len(inbox) /\ ReadSize <= Want
    BY <1>1, <1>2 DEF ReadSize
  <1>4. PICK x : x = SubSeq(inbox, 1, ReadSize)
    OBVIOUS
  <1>5. /\ IsPiece(x, inbox, 1, ReadSize)
        /\ IsPiece(SubSeq(inbox, ReadSize + 1, Len(inbox)),
                   inbox, ReadSize + 1, Len(inbox))
        /\ x \o SubSeq(inbox, ReadSize + 1, Len(inbox)) = inbox
    BY <1>1, <1>3, <1>4, Cut
  <1>6. x \in Bytes /\ Len(x) = ReadSize
    BY <1>1, <1>3, <1>5 DEF IsPiece
  <1>7. IsJoin(buf \o x, buf, x)
    BY <1>1, <1>6, Joined
  <1>8. Len(buf \o x) = Len(buf) + ReadSize
    BY <1>6, <1>7 DEF IsJoin
  <1> QED BY <1>1, <1>2, <1>3, <1>4, <1>5, <1>7, <1>8

\* The types hold at the start.
LEMMA InitTypes == Init => TypeOK
  <1> SUFFICES ASSUME Init PROVE TypeOK
    OBVIOUS
  <1>1. /\ receiver \in Receivers
        /\ queue \in [Writers -> Seq(FrameRec)]
        /\ part \in [Writers -> 0 .. 2]
    BY FrameAssumption DEF Init
  <1>2. /\ wire \in Seq(Nat) /\ inbox \in Seq(Nat) /\ buf \in Seq(Nat)
        /\ Len(buf) = 0 /\ written \in Seq(FrameRec)
        /\ delivered \in Seq([id : Nat, payload : Seq(Nat)])
    BY EmptySeq DEF Init
  <1>3. {open, auth, magic, broken} \subseteq BOOLEAN
    BY DEF Init
  <1> QED BY <1>1, <1>2, <1>3 DEF Init, TypeOK, HeadSize

\* A writer's step: one frame, or one of its three parts.
LEMMA WriteTypes ==
  ASSUME TypeOK, NEW w \in Writers, WriteMessage(w)
  PROVE  TypeOK'
  <1>1. /\ queue[w] \in Seq(FrameRec) /\ queue[w] # <<>> /\ part[w] \in 0 .. 2
    BY DEF WriteMessage, TypeOK
  <1>2. PICK f : f = Head(queue[w]) /\ f \in FrameRec
    BY <1>1, HeadTailProperties
  <1>3. Tail(queue[w]) \in Seq(FrameRec)
    BY <1>1, HeadTailProperties
  <1>4. PICK h, b, p : /\ h = EncodeMsg(f)[1] /\ b = EncodeMsg(f)[2]
                       /\ p = EncodeMsg(f)[3]
    OBVIOUS
  <1>5. h \in Bytes /\ b \in Bytes /\ p \in Bytes
    BY <1>2, <1>4, EncodeFacts
  <1>6. wire \in Bytes /\ wire \in Seq(Nat) /\ written \in Seq(FrameRec)
    BY DEF TypeOK, Bytes
  <1>7. Append(written, f) \in Seq(FrameRec)
    BY <1>2, <1>6, AppendProperties
  <1>8. /\ queue' \in [Writers -> Seq(FrameRec)] /\ part' \in [Writers -> 0 .. 2]
        /\ wire' \in Seq(Nat) /\ written' \in Seq(FrameRec)
    <2>1. CASE WriteV(w)
      <3>1. wire' = wire \o h \o b \o p /\ written' = Append(written, f)
        BY <1>2, <1>4, <2>1 DEF WriteV
      <3>2. wire' \in Seq(Nat)
        BY <1>5, <1>6, <3>1, ConcatProperties DEF Bytes
      <3>3. queue' = [queue EXCEPT ![w] = Tail(@)] /\ part' = part
        BY <2>1 DEF WriteV
      <3>4. queue' \in [Writers -> Seq(FrameRec)]
        BY <1>3, <3>3 DEF TypeOK
      <3> QED BY <1>7, <3>1, <3>2, <3>3, <3>4 DEF TypeOK
    <2>2. CASE WriteBuffer(w)
      <3>1. PICK x \in {h, b, p} : wire' = wire \o x
        <4>1. part[w] + 1 \in {1, 2, 3}
          BY <1>1
        <4> QED BY <1>2, <1>4, <2>2, <4>1 DEF WriteBuffer
      <3>2. wire' \in Seq(Nat)
        BY <1>5, <1>6, <3>1, ConcatProperties DEF Bytes
      <3>3. written' \in {Append(written, f), written}
        BY <1>2, <2>2 DEF WriteBuffer
      <3>4. /\ part' = [part EXCEPT ![w] = (@ + 1) % 3]
            /\ queue' = [queue EXCEPT ![w] = IF part[w] = 2 THEN Tail(@) ELSE @]
        BY <2>2 DEF WriteBuffer
      <3>5. (part[w] + 1) % 3 \in 0 .. 2
        BY <1>1
      <3>6. part' \in [Writers -> 0 .. 2]
        BY <3>4, <3>5 DEF TypeOK
      <3>7. queue' \in [Writers -> Seq(FrameRec)]
        BY <1>1, <1>3, <3>4 DEF TypeOK
      <3> QED BY <1>6, <1>7, <3>2, <3>3, <3>6, <3>7
    <2> QED BY <2>1, <2>2 DEF WriteMessage
  <1>9. UNCHANGED <<receiver, inbox, open, auth, buf, room, magic, delivered,
                    broken>>
    BY DEF WriteMessage, readVars
  <1> QED BY <1>8, <1>9 DEF TypeOK

\* Delivery keeps the types.
LEMMA TransmitTypes ==
  ASSUME TypeOK, NEW n \in 1 .. Len(wire), Transmit(n)
  PROVE  TypeOK'
  <1>1. wire \in Bytes /\ Len(wire) \in Nat /\ inbox \in Bytes
    BY LenProperties DEF TypeOK, Bytes
  <1>2. n \in 0 .. Len(wire)
    BY <1>1
  <1>3. PICK x, y : /\ x = SubSeq(wire, 1, n) /\ y = SubSeq(wire, n + 1, Len(wire))
                    /\ x \in Bytes /\ y \in Bytes
    BY <1>1, <1>2, Cut DEF IsPiece
  <1>4. inbox' = inbox \o x /\ wire' = y
    BY <1>3 DEF Transmit
  <1>5. inbox' \in Seq(Nat) /\ wire' \in Seq(Nat)
    BY <1>1, <1>3, <1>4, ConcatProperties DEF Bytes
  <1> QED BY <1>5 DEF Transmit, TypeOK, sendVars, readVars

\* A step of the receiver that ends the connection changes nothing else.
LEMMA CloseTypes ==
  ASSUME TypeOK, CloseConn, UNCHANGED <<receiver, sendVars, wire, broken>>
  PROVE  TypeOK'
  <1>1. open' \in BOOLEAN
    BY DEF CloseConn
  <1>2. {open', auth, magic, broken} \subseteq BOOLEAN
    BY <1>1 DEF TypeOK
  <1>3. /\ auth' = auth /\ magic' = magic /\ broken' = broken /\ inbox' = inbox
        /\ buf' = buf /\ room' = room /\ delivered' = delivered
        /\ wire' = wire /\ receiver' = receiver
        /\ queue' = queue /\ part' = part /\ written' = written
    BY DEF CloseConn, readVars, sendVars
  <1> QED BY <1>2, <1>3 DEF TypeOK

\* The two ways a call of ReadMessage can end.
ServerDelivers(total) ==
  /\ total = HeadSize + inbox[4] + inbox[5]
  /\ Len(inbox) >= HeadSize /\ Len(inbox) >= total
  /\ DecodePre(inbox)
  /\ Decodes(SubSeq(inbox, HeadSize + 1, HeadSize + inbox[4]))
  /\ CopyFrame(total)
  /\ inbox' = SubSeq(inbox, total + 1, Len(inbox))
  /\ UNCHANGED <<open, readVars>>

\* The server closes the connection or takes a frame.
LEMMA ReadMessageCases ==
  ASSUME ReadMessage
  PROVE  /\ receiver = "server" /\ UNCHANGED <<receiver, sendVars, wire, broken>>
         /\ CloseConn \/ \E total : ServerDelivers(total)
  <1>1. CASE ~CloseConn
    <2>1. PICK total : total = HeadSize + inbox[4] + inbox[5]
      OBVIOUS
    <2>2. /\ MagicNumberCheck(inbox) /\ Len(inbox) >= HeadSize /\ DecodePre(inbox)
      BY <1>1 DEF ReadMessage
    <2>3. /\ Len(inbox) >= total
          /\ Decodes(SubSeq(inbox, HeadSize + 1, HeadSize + inbox[4]))
          /\ CopyFrame(total)
          /\ inbox' = SubSeq(inbox, total + 1, Len(inbox))
          /\ UNCHANGED <<open, readVars>>
      BY <1>1, <2>1, <2>2 DEF ReadMessage
    <2> QED BY <2>1, <2>2, <2>3 DEF ServerDelivers, ReadMessage
  <1> QED BY <1>1 DEF ReadMessage

\* The same for the client's steps.
ClientReads ==
  /\ buf' = buf \o SubSeq(inbox, 1, ReadSize)
  /\ inbox' = SubSeq(inbox, ReadSize + 1, Len(inbox))
  /\ magic' \in BOOLEAN
  /\ UNCHANGED <<open, auth, room, delivered>>

\* The client reads on or closes the connection.
LEMMA ClientReadCases ==
  ASSUME TypeOK, ClientRead
  PROVE  /\ receiver = "client" /\ UNCHANGED <<receiver, sendVars, wire, broken>>
         /\ Want > 0 /\ inbox # <<>>
         /\ CloseConn \/ ClientReads
  <1>1. magic \in BOOLEAN /\ auth \in BOOLEAN
    BY DEF TypeOK
  <1>2. CASE ~CloseConn
    <2>1. /\ buf' = buf \o SubSeq(inbox, 1, ReadSize)
          /\ inbox' = SubSeq(inbox, ReadSize + 1, Len(inbox))
          /\ UNCHANGED <<open, auth, room, delivered>>
      BY <1>2 DEF ClientRead, ReadSize
    <2>2. magic' = (magic \/ (~auth /\ ~magic
                                /\ Len(buf \o SubSeq(inbox, 1, ReadSize)) > 1))
      BY <1>2 DEF ClientRead, ReadSize
    <2>3. magic' \in BOOLEAN
      BY <1>1, <2>2
    <2> QED BY <2>1, <2>3 DEF ClientReads, ClientRead
  <1> QED BY <1>2 DEF ClientRead

ClientDelivers ==
  /\ Decodes(SubSeq(buf, HeadSize + 1, HeadSize + room.msg))
  /\ Received(SubSeq(buf, HeadSize + 1, HeadSize + room.msg),
              SubSeq(buf, HeadSize + room.msg + 1, Len(buf)))
  /\ buf' = <<>> /\ room' = NoRoom /\ auth' = FALSE
  /\ UNCHANGED <<open, inbox, magic>>

\* The client takes a frame or closes the connection.
LEMMA ClientDeliverCases ==
  ASSUME ClientDeliver
  PROVE  /\ receiver = "client" /\ UNCHANGED <<receiver, sendVars, wire, broken>>
         /\ Allocated /\ Len(buf) = HeadSize + room.msg + room.payload
         /\ CloseConn \/ ClientDelivers
  BY DEF ClientDeliver, ClientDelivers

ClientAllocates ==
  /\ Accepts(buf)
  /\ room' = [msg |-> buf[4], payload |-> buf[5]]
  /\ UNCHANGED <<open, inbox, auth, buf, magic, delivered>>

\* The client allocates the buffers or closes the connection.
LEMMA AllocateCases ==
  ASSUME TypeOK, Allocate
  PROVE  /\ receiver = "client" /\ UNCHANGED <<receiver, sendVars, wire, broken>>
         /\ Len(buf) = HeadSize /\ ~Allocated
         /\ buf[4] \in Nat /\ buf[5] \in Nat
         /\ CloseConn \/ ClientAllocates
  <1>1. buf \in Seq(Nat) /\ 4 \in 1 .. Len(buf) /\ 5 \in 1 .. Len(buf)
    BY DEF TypeOK, Allocate, HeadSize
  <1>2. buf[4] \in Nat /\ buf[5] \in Nat
    BY <1>1, ElementOfSeq
  <1> QED BY <1>2 DEF Allocate, ClientAllocates

\* What a receiver's step may change, and what of it keeps the types.
LEMMA ReceiverTypes ==
  ASSUME TypeOK, UNCHANGED <<receiver, sendVars, wire, broken>>,
         inbox' \in Seq(Nat), buf' \in Seq(Nat),
         open' \in BOOLEAN, auth' \in BOOLEAN, magic' \in BOOLEAN,
         delivered' \in Seq(Delivery),
         IF room' = NoRoom
           THEN Len(buf') <= HeadSize
           ELSE /\ room' \in [msg : Nat, payload : Nat]
                /\ Len(buf') <= HeadSize + room'.msg + room'.payload
  PROVE  TypeOK'
  <1>1. broken' \in BOOLEAN
    BY DEF TypeOK
  <1>2. {open', auth', magic', broken'} \subseteq BOOLEAN
    BY <1>1
  <1>3. /\ wire' = wire /\ receiver' = receiver
        /\ queue' = queue /\ part' = part /\ written' = written
    BY DEF sendVars
  <1> QED BY <1>2, <1>3 DEF TypeOK, Delivery

\* Each step of the reader keeps the types.
LEMMA ReceiveTypes ==
  ASSUME TypeOK, Receive
  PROVE  TypeOK'
  <1>0. /\ inbox \in Seq(Nat) /\ buf \in Seq(Nat)
        /\ open \in BOOLEAN /\ auth \in BOOLEAN /\ magic \in BOOLEAN
        /\ delivered \in Seq(Delivery)
        /\ IF room = NoRoom
             THEN Len(buf) <= HeadSize
             ELSE /\ room \in [msg : Nat, payload : Nat]
                  /\ Len(buf) <= HeadSize + room.msg + room.payload
    BY DEF TypeOK, Delivery
  <1>1. CASE ReadMessage
    <2>1. UNCHANGED <<receiver, sendVars, wire, broken>>
      BY <1>1, ReadMessageCases
    <2>2. CASE CloseConn
      BY <2>1, <2>2, CloseTypes
    <2>3. ASSUME NEW total, ServerDelivers(total)
          PROVE  TypeOK'
      <3>1. PICK b, p, y :
              /\ b = SubSeq(inbox, HeadSize + 1, HeadSize + inbox[4])
              /\ p = SubSeq(inbox, HeadSize + inbox[4] + 1, total)
              /\ y = SubSeq(inbox, total + 1, Len(inbox))
        OBVIOUS
      <3>2. b \in Bytes /\ p \in Bytes /\ y \in Bytes
        BY <2>3, <3>1, ServerTakes DEF ServerDelivers, IsPiece
      <3>3. Decodes(b) /\ Received(b, p) /\ inbox' = y
        BY <2>3, <3>1 DEF ServerDelivers, CopyFrame
      <3>4. delivered' \in Seq(Delivery)
        BY <3>2, <3>3, Handover
      <3>5. /\ open' = open /\ auth' = auth /\ magic' = magic
            /\ buf' = buf /\ room' = room
        BY <2>3 DEF ServerDelivers, readVars
      <3> QED BY <1>0, <2>1, <3>2, <3>3, <3>4, <3>5, ReceiverTypes DEF Bytes
    <2> QED BY <1>1, <2>2, <2>3, ReadMessageCases
  <1>2. CASE ClientRead
    <2>1. UNCHANGED <<receiver, sendVars, wire, broken>>
      BY <1>2, ClientReadCases
    <2>2. CASE CloseConn
      BY <2>1, <2>2, CloseTypes
    <2>3. CASE ClientReads
      <3>1. PICK x, y, z : /\ x = SubSeq(inbox, 1, ReadSize)
                           /\ y = SubSeq(inbox, ReadSize + 1, Len(inbox))
                           /\ z = buf \o x
        OBVIOUS
      <3>2. Want > 0 /\ inbox # <<>>
        BY <1>2, ClientReadCases
      <3>3. /\ IsPiece(y, inbox, ReadSize + 1, Len(inbox)) /\ IsJoin(z, buf, x)
            /\ Len(z) = Len(buf) + ReadSize /\ ReadSize <= Want /\ Want \in Nat
            /\ Len(buf) \in Nat /\ ReadSize \in Nat
        BY <3>1, <3>2, ReadTakes
      <3>4. y \in Seq(Nat) /\ z \in Seq(Nat)
        BY <3>3 DEF IsPiece, IsJoin, Bytes
      <3>5. /\ inbox' = y /\ buf' = z /\ room' = room /\ open' = open
            /\ auth' = auth /\ delivered' = delivered /\ magic' \in BOOLEAN
        BY <2>3, <3>1 DEF ClientReads
      <3>6. IF room = NoRoom
              THEN Len(z) <= HeadSize
              ELSE /\ room \in [msg : Nat, payload : Nat]
                   /\ Len(z) <= HeadSize + room.msg + room.payload
        <4>1. CASE Len(buf) < HeadSize
          <5>1. Len(z) <= HeadSize
            BY <3>3, <4>1 DEF Want, HeadSize
          <5>2. CASE room # NoRoom
            <6>1. room.msg \in Nat /\ room.payload \in Nat
              BY <1>0, <5>2
            <6>2. Len(z) <= HeadSize + room.msg + room.payload
              BY <3>3, <5>1, <6>1 DEF HeadSize
            <6> QED BY <1>0, <5>2, <6>2
          <5> QED BY <5>1, <5>2
        <4>2. CASE ~(Len(buf) < HeadSize)
          <5>1. Allocated
            BY <3>2, <4>2 DEF Want
          <5>2. room # NoRoom /\ room.msg \in Nat /\ room.payload \in Nat
            BY <1>0, <5>1 DEF Allocated
          <5>3. Want = IF Len(buf) < HeadSize + room.msg
                         THEN HeadSize + room.msg - Len(buf)
                         ELSE HeadSize + room.msg + room.payload - Len(buf)
            BY <4>2, <5>1 DEF Want
          <5>4. Len(z) <= HeadSize + room.msg + room.payload
            <6>1. PICK m, q : m = room.msg /\ q = room.payload
              OBVIOUS
            <6>2. PICK l, r, t : l = Len(buf) /\ r = ReadSize /\ t = Len(z)
              OBVIOUS
            <6>3. m \in Nat /\ q \in Nat
              BY <5>2, <6>1
            <6>4. l \in Nat /\ r \in Nat /\ r <= Want
              BY <3>3, <6>2
            <6>5. t = l + r
              BY <3>3, <6>2
            <6>6. Want = IF l < HeadSize + m THEN HeadSize + m - l
                                             ELSE HeadSize + m + q - l
              BY <5>3, <6>1, <6>2
            <6>7. t <= HeadSize + m + q
              BY <6>3, <6>4, <6>5, <6>6 DEF HeadSize
            <6> QED BY <6>1, <6>2, <6>7
          <5> QED BY <1>0, <5>2, <5>4
        <4> QED BY <4>1, <4>2
      <3> QED BY <1>0, <2>1, <3>4, <3>5, <3>6, ReceiverTypes
    <2> QED BY <1>2, <2>2, <2>3, ClientReadCases
  <1>3. CASE Allocate
    <2>1. /\ UNCHANGED <<receiver, sendVars, wire, broken>>
          /\ Len(buf) = HeadSize /\ buf[4] \in Nat /\ buf[5] \in Nat
      BY <1>3, AllocateCases
    <2>2. CASE CloseConn
      BY <2>1, <2>2, CloseTypes
    <2>3. CASE ClientAllocates
      <3>1. /\ room' = [msg |-> buf[4], payload |-> buf[5]]
            /\ UNCHANGED <<open, inbox, auth, buf, magic, delivered>>
        BY <2>3 DEF ClientAllocates
      <3>2. /\ room' \in [msg : Nat, payload : Nat] /\ room' # NoRoom
            /\ room'.msg \in Nat /\ room'.payload \in Nat
        BY <2>1, <3>1, FrameAssumption
      <3>3. Len(buf') <= HeadSize + room'.msg + room'.payload
        <4>1. PICK m \in Nat, q \in Nat : m = room'.msg /\ q = room'.payload
          BY <3>2
        <4>2. Len(buf') = HeadSize /\ HeadSize <= HeadSize + m + q
          BY <2>1, <3>1 DEF HeadSize
        <4> QED BY <4>1, <4>2
      <3> QED BY <1>0, <2>1, <3>1, <3>2, <3>3, ReceiverTypes
    <2> QED BY <1>3, <2>2, <2>3, AllocateCases
  <1>4. CASE ClientDeliver
    <2>1. /\ UNCHANGED <<receiver, sendVars, wire, broken>>
          /\ Allocated /\ Len(buf) = HeadSize + room.msg + room.payload
      BY <1>4, ClientDeliverCases
    <2>2. CASE CloseConn
      BY <2>1, <2>2, CloseTypes
    <2>3. CASE ClientDelivers
      <3>1. PICK b, p : /\ b = SubSeq(buf, HeadSize + 1, HeadSize + room.msg)
                        /\ p = SubSeq(buf, HeadSize + room.msg + 1, Len(buf))
        OBVIOUS
      <3>2. b \in Bytes /\ p \in Bytes
        BY <2>1, <3>1, ClientTakes DEF IsPiece
      <3>3. Decodes(b) /\ Received(b, p)
        BY <2>3, <3>1 DEF ClientDelivers
      <3>4. delivered' \in Seq(Delivery)
        BY <3>2, <3>3, Handover
      <3>5. /\ open' = open /\ auth' \in BOOLEAN /\ magic' = magic
            /\ buf' = <<>> /\ room' = NoRoom /\ inbox' = inbox
        BY <2>3 DEF ClientDelivers
      <3>6. buf' \in Seq(Nat) /\ Len(buf') <= HeadSize
        BY <3>5, EmptySeq DEF HeadSize
      <3> QED BY <1>0, <2>1, <3>4, <3>5, <3>6, ReceiverTypes
    <2> QED BY <1>4, <2>2, <2>3, ClientDeliverCases
  <1> QED BY <1>1, <1>2, <1>3, <1>4 DEF Receive

\* Every step of Next keeps the types.
LEMMA NextTypes ==
  ASSUME TypeOK, [Next]_vars
  PROVE  TypeOK'
  <1>1. CASE \E w \in Writers : WriteMessage(w)
    BY <1>1, WriteTypes
  <1>2. CASE \E n \in 1 .. Len(wire) : Transmit(n)
    BY <1>2, TransmitTypes
  <1>3. CASE Receive
    BY <1>3, ReceiveTypes
  <1>4. CASE Break
    <2>1. open' \in BOOLEAN /\ broken' \in BOOLEAN
      BY <1>4 DEF Break
    <2>2. {open', auth, magic, broken'} \subseteq BOOLEAN
      BY <2>1 DEF TypeOK
    <2> QED BY <1>4, <2>2 DEF Break, TypeOK, sendVars, readVars
  <1>5. CASE UNCHANGED vars
    BY <1>5 DEF vars, TypeOK, sendVars, readVars
  <1> QED BY <1>1, <1>2, <1>3, <1>4, <1>5 DEF Next

\* Type correctness of the wire format: the client of handleReceive and
\* readResp never reads beyond the frame it is putting together, and every
\* frame that is taken has the number of a frame that Encode can produce.
THEOREM WireTypeOK == Spec => []TypeOK
  <1>1. TypeOK /\ [Next]_vars => TypeOK'
    BY NextTypes
  <1> QED BY <1>1, InitTypes, PTL DEF Spec

\* What is taken from the stream has passed DecodePre: at the server in the
\* same call, at the client when the buffers were allocated.
LEMMA NextLimits ==
  ASSUME TypeOK, WithinLimits, [Next]_vars
  PROVE  WithinLimits'
  <1>0. Len(delivered) \in Nat /\ MaxPayload \in Nat /\ MaxMsg \in Nat
    BY LenProperties, FrameAssumption DEF TypeOK
  <1>1. ASSUME delivered' = delivered, room' = room
        PROVE  WithinLimits'
    BY <1>1 DEF WithinLimits
  <1>2. ASSUME NEW b \in Bytes, NEW p \in Bytes, Decodes(b), Received(b, p),
               Len(p) <= MaxPayload
        PROVE  \A i \in 1 .. Len(delivered') :
                 Len(delivered'[i].payload) <= MaxPayload
    <2>1. /\ Len(delivered') = Len(delivered) + 1
          /\ \A i \in 1 .. Len(delivered) : delivered'[i] = delivered[i]
          /\ delivered'[Len(delivered) + 1] = [id |-> b[1] - 256, payload |-> p]
      BY <1>2, Handover
    <2>2. delivered'[Len(delivered) + 1].payload = p
      BY <2>1
    <2> TAKE i \in 1 .. Len(delivered')
    <2>3. CASE i \in 1 .. Len(delivered)
      BY <2>1, <2>3 DEF WithinLimits
    <2>4. CASE i = Len(delivered) + 1
      BY <1>2, <2>2, <2>4
    <2> QED BY <1>0, <2>1, <2>3, <2>4
  <1>3. ASSUME CloseConn
        PROVE  WithinLimits'
    BY <1>1, <1>3 DEF CloseConn, readVars
  <1>4. CASE ReadMessage
    <2>1. ASSUME NEW total, ServerDelivers(total)
          PROVE  WithinLimits'
      <3>1. PICK b, p :
              /\ b = SubSeq(inbox, HeadSize + 1, HeadSize + inbox[4])
              /\ p = SubSeq(inbox, HeadSize + inbox[4] + 1, total)
        OBVIOUS
      <3>2. /\ b \in Bytes /\ p \in Bytes
            /\ Len(p) = total - (HeadSize + inbox[4] + 1) + 1
            /\ inbox[4] \in Nat /\ inbox[5] \in Nat
        BY <2>1, <3>1, ServerTakes DEF ServerDelivers, IsPiece
      <3>3. total = HeadSize + inbox[4] + inbox[5] /\ inbox[5] <= MaxPayload
        BY <2>1 DEF ServerDelivers, DecodePre
      <3>4. Len(p) <= MaxPayload
        <4>1. PICK m, q : m = inbox[4] /\ q = inbox[5]
          OBVIOUS
        <4>2. /\ m \in Nat /\ q \in Nat /\ q <= MaxPayload
              /\ Len(p) = (HeadSize + m + q) - (HeadSize + m + 1) + 1
          BY <3>2, <3>3, <4>1
        <4> QED BY <1>0, <4>2 DEF HeadSize
      <3>5. Decodes(b) /\ Received(b, p) /\ room' = room
        BY <2>1, <3>1 DEF ServerDelivers, CopyFrame, readVars
      <3> QED BY <1>2, <3>2, <3>4, <3>5 DEF WithinLimits
    <2> QED BY <1>3, <1>4, <2>1, ReadMessageCases
  <1>5. CASE ClientRead
    BY <1>1, <1>3, <1>5, ClientReadCases DEF ClientReads
  <1>6. CASE Allocate
    <2>1. CASE ClientAllocates
      <3>1. /\ room' = [msg |-> buf[4], payload |-> buf[5]]
            /\ delivered' = delivered
            /\ buf[4] <= MaxMsg /\ buf[5] <= MaxPayload
        BY <2>1 DEF ClientAllocates, Accepts, DecodePre
      <3>2. room'.msg <= MaxMsg /\ room'.payload <= MaxPayload
        BY <3>1
      <3> QED BY <3>1, <3>2 DEF WithinLimits
    <2> QED BY <1>3, <1>6, <2>1, AllocateCases
  <1>7. CASE ClientDeliver
    <2>1. CASE ClientDelivers
      <3>1. PICK b, p : /\ b = SubSeq(buf, HeadSize + 1, HeadSize + room.msg)
                        /\ p = SubSeq(buf, HeadSize + room.msg + 1, Len(buf))
        OBVIOUS
      <3>2. Allocated /\ Len(buf) = HeadSize + room.msg + room.payload
        BY <1>7, ClientDeliverCases
      <3>3. /\ b \in Bytes /\ p \in Bytes
            /\ Len(p) = Len(buf) - (HeadSize + room.msg + 1) + 1
            /\ room # NoRoom /\ room.msg \in Nat /\ room.payload \in Nat
        BY <3>1, <3>2, ClientTakes DEF IsPiece
      <3>4. Len(p) <= MaxPayload
        <4>1. PICK m, q : m = room.msg /\ q = room.payload
          OBVIOUS
        <4>2. /\ m \in Nat /\ q \in Nat /\ q <= MaxPayload
              /\ Len(p) = (HeadSize + m + q) - (HeadSize + m + 1) + 1
          BY <3>2, <3>3, <4>1 DEF WithinLimits
        <4> QED BY <1>0, <4>2 DEF HeadSize
      <3>5. Decodes(b) /\ Received(b, p) /\ room' = NoRoom
        BY <2>1, <3>1 DEF ClientDelivers
      <3> QED BY <1>2, <3>3, <3>4, <3>5 DEF WithinLimits
    <2> QED BY <1>3, <1>7, <2>1, ClientDeliverCases
  <1>8. CASE \E w \in Writers : WriteMessage(w)
    BY <1>1, <1>8 DEF WriteMessage, readVars
  <1>9. CASE \E n \in 1 .. Len(wire) : Transmit(n)
    BY <1>1, <1>9 DEF Transmit, readVars
  <1>10. CASE Break \/ UNCHANGED vars
    BY <1>1, <1>10 DEF Break, vars, readVars
  <1> QED
    BY <1>4, <1>5, <1>6, <1>7, <1>8, <1>9, <1>10 DEF Next, Receive

\* The sizes in a header are only bytes of the peer: still neither end
\* allocates for, or hands on, more than MaxMsgSize and MaxPayloadSize allow.
THEOREM LimitsHold == Spec => []WithinLimits
  <1>1. Init => WithinLimits
    BY EmptySeq DEF Init, WithinLimits
  <1>2. TypeOK /\ WithinLimits /\ [Next]_vars => WithinLimits'
    BY NextLimits
  <1> QED BY <1>1, <1>2, WireTypeOK, PTL DEF Spec

-----------------------------------------------------------------------------
(* The stream: the bytes that have been written and belong to no frame     *)
(* that has been taken are the frames not yet taken, one behind the other. *)

\* The j-th byte of frame f.
Byte(f, j) ==
  IF j <= HeadSize THEN Header(f)[j]
  ELSE IF j <= HeadSize + f.msg THEN 256 + f.id ELSE 512 + f.id

\* R holds the frames of W behind the d-th, of the last one perhaps only the
\* beginning; frame i lies behind the first s[i] bytes.
Placed(R, W, d, s) ==
  /\ R \in Bytes /\ W \in Seq(FrameRec) /\ d \in 0 .. Len(W)
  /\ s \in [Nat -> Int] /\ s[d + 1] = 0
  /\ \A i \in d + 1 .. Len(W) : s[i + 1] = s[i] + FrameLen(W[i])
  /\ \A i \in d + 1 .. Len(W) : \A j \in i + 1 .. Len(W) + 1 :
       s[i] + FrameLen(W[i]) <= s[j]
  /\ \A i \in d + 1 .. Len(W) : \A j \in 1 .. FrameLen(W[i]) :
       s[i] + j <= Len(R) => R[s[i] + j] = Byte(W[i], j)

\* How much of the last frame is missing after k of its three parts.
Missing(k, f) ==
  IF k = 0 THEN 0 ELSE IF k = 1 THEN f.msg + PayloadLen(f) ELSE PayloadLen(f)

\* The last frame of W is missing from R but for its first k parts (k = 0:
\* nothing is missing).
Ends(R, W, k, s) ==
  /\ k # 0 => Len(W) # 0
  /\ Len(R) + Missing(k, W[Len(W)]) = s[Len(W) + 1]

\* The types of what Placed speaks of.
LEMMA PlacedFacts ==
  ASSUME NEW R, NEW W, NEW d, NEW s, Placed(R, W, d, s)
  PROVE  /\ Len(R) \in Nat /\ Len(W) \in Nat /\ d \in Nat /\ d <= Len(W)
         /\ \A i \in 1 .. Len(W) : W[i] \in FrameRec /\ FrameLen(W[i]) \in Nat
                                   /\ FrameLen(W[i]) > HeadSize
         /\ \A i \in Nat : s[i] \in Int
         /\ \A i \in d + 1 .. Len(W) + 1 : s[i] >= 0
  <1>1. R \in Seq(Nat) /\ W \in Seq(FrameRec) /\ d \in 0 .. Len(W)
    BY DEF Placed, Bytes
  <1>2. Len(R) \in Nat /\ Len(W) \in Nat /\ d \in Nat /\ d <= Len(W)
    BY <1>1, LenProperties
  <1>3. \A i \in 1 .. Len(W) : W[i] \in FrameRec
    BY <1>1, ElementOfSeq
  <1>4. \A i \in 1 .. Len(W) : FrameLen(W[i]) \in Nat /\ FrameLen(W[i]) > HeadSize
    BY <1>3, FrameFacts
  <1>5. \A i \in Nat : s[i] \in Int
    BY DEF Placed
  <1>6. ASSUME NEW i \in d + 1 .. Len(W) + 1
        PROVE  s[i] >= 0
    <2>1. CASE i = d + 1
      BY <2>1 DEF Placed
    <2>2. CASE i # d + 1
      <3>1. /\ d + 1 \in d + 1 .. Len(W) /\ i \in (d + 1) + 1 .. Len(W) + 1
            /\ d + 1 \in 1 .. Len(W) /\ i \in Nat
        BY <1>2, <2>2
      <3>2. s[d + 1] + FrameLen(W[d + 1]) <= s[i] /\ s[d + 1] = 0
        BY <3>1 DEF Placed
      <3>3. FrameLen(W[d + 1]) \in Nat /\ s[i] \in Int
        BY <1>4, <1>5, <3>1
      <3> QED BY <3>2, <3>3
    <2> QED BY <2>1, <2>2
  <1> QED BY <1>2, <1>3, <1>4, <1>5, <1>6

\* A new frame begins where the stream ends.
LEMMA FrameAdded ==
  ASSUME NEW R, NEW W, NEW d, NEW s, Placed(R, W, d, s), Ends(R, W, 0, s),
         NEW f \in FrameRec
  PROVE  \E t : /\ Placed(R, Append(W, f), d, t)
                /\ t[Len(W) + 1] = Len(R)
                /\ t[Len(W) + 2] = Len(R) + FrameLen(f)
  <1> DEFINE n == Len(W)
             V == Append(W, f)
             t == [s EXCEPT ![n + 2] = Len(R) + FrameLen(f)]
  <1>1. /\ Len(R) \in Nat /\ n \in Nat /\ d \in Nat /\ d <= n
        /\ \A i \in 1 .. n : FrameLen(W[i]) \in Nat
        /\ \A i \in Nat : s[i] \in Int
    BY PlacedFacts
  <1>2. s[n + 1] = Len(R)
    BY <1>1 DEF Ends, Missing
  <1>3. FrameLen(f) \in Nat
    BY FrameFacts
  <1>4. /\ V \in Seq(FrameRec) /\ Len(V) = n + 1 /\ V[n + 1] = f
        /\ \A i \in 1 .. n : V[i] = W[i]
    BY AppendProperties DEF Placed
  <1>5. s \in [Nat -> Int] /\ Len(R) + FrameLen(f) \in Int /\ n + 2 \in Nat
    BY <1>1, <1>3 DEF Placed
  <1>6. /\ t \in [Nat -> Int] /\ t[n + 2] = Len(R) + FrameLen(f)
        /\ \A i \in 1 .. n + 1 : t[i] = s[i]
    BY <1>1, <1>5
  <1> HIDE DEF n, V, t
  <1>7. t[d + 1] = 0
    <2>1. d + 1 \in 1 .. n + 1
      BY <1>1
    <2> QED BY <1>6, <2>1 DEF Placed
  <1>8. ASSUME NEW i \in d + 1 .. n + 1
        PROVE  t[i + 1] = t[i] + FrameLen(V[i])
    <2>1. CASE i = n + 1
      <3>1. t[n + 1] = Len(R) /\ (n + 1) + 1 = n + 2
        BY <1>1, <1>2, <1>6
      <3> QED BY <1>4, <1>6, <2>1, <3>1
    <2>2. CASE i # n + 1
      <3>1. /\ i \in d + 1 .. n /\ i \in 1 .. n
            /\ i \in 1 .. n + 1 /\ i + 1 \in 1 .. n + 1
        BY <1>1, <2>2
      <3>2. s[i + 1] = s[i] + FrameLen(W[i])
        BY <3>1 DEF Placed, n
      <3> QED BY <1>4, <1>6, <3>1, <3>2
    <2> QED BY <2>1, <2>2
  <1>9. ASSUME NEW i \in d + 1 .. n + 1, NEW j \in i + 1 .. n + 2
        PROVE  t[i] + FrameLen(V[i]) <= t[j]
    <2>1. CASE i = n + 1
      <3>1. j = i + 1
        BY <1>1, <2>1
      <3>2. t[j] = t[i] + FrameLen(V[i])
        BY <1>8, <3>1
      <3>3. t[j] \in Int
        BY <1>1, <1>6
      <3> QED BY <3>2, <3>3
    <2>2. CASE i # n + 1
      <3>1. /\ i \in d + 1 .. n /\ i \in 1 .. n /\ i \in 1 .. n + 1
            /\ n + 1 \in i + 1 .. n + 1 /\ n + 1 \in Nat
        BY <1>1, <2>2
      <3>2. s[i] + FrameLen(W[i]) <= s[n + 1]
        BY <3>1 DEF Placed, n
      <3>3. t[i] = s[i] /\ V[i] = W[i] /\ s[i] \in Int /\ FrameLen(W[i]) \in Nat
        <4>1. i \in Nat
          BY <3>1
        <4>2. s[i] \in Int /\ FrameLen(W[i]) \in Nat
          BY <1>1, <3>1, <4>1
        <4> QED BY <1>4, <1>6, <3>1, <4>2
      <3>4. CASE j = n + 2
        BY <1>1, <1>2, <1>3, <1>6, <3>2, <3>3, <3>4
      <3>5. CASE j # n + 2
        <4>1. j \in i + 1 .. n + 1 /\ j \in 1 .. n + 1
          BY <1>1, <3>5
        <4>2. s[i] + FrameLen(W[i]) <= s[j]
          BY <3>1, <4>1 DEF Placed, n
        <4> QED BY <1>6, <3>3, <4>1, <4>2
      <3> QED BY <3>4, <3>5
    <2> QED BY <2>1, <2>2
  <1>10. ASSUME NEW i \in d + 1 .. n + 1, NEW j \in 1 .. FrameLen(V[i]),
                t[i] + j <= Len(R)
         PROVE  R[t[i] + j] = Byte(V[i], j)
    <2>1. i # n + 1
      <3>1. SUFFICES ASSUME i = n + 1 PROVE FALSE
        OBVIOUS
      <3>2. n + 1 \in 1 .. n + 1
        BY <1>1
      <3>3. t[i] = Len(R)
        BY <1>2, <1>6, <3>1, <3>2
      <3>4. j \in Nat /\ j > 0
        BY <1>3, <1>4, <3>1
      <3> QED BY <1>1, <1>10, <3>3, <3>4
    <2>2. i \in d + 1 .. n /\ i \in 1 .. n /\ i \in 1 .. n + 1
      BY <1>1, <2>1
    <2>3. t[i] = s[i] /\ V[i] = W[i]
      BY <1>4, <1>6, <2>2
    <2>4. j \in 1 .. FrameLen(W[i]) /\ s[i] + j <= Len(R)
      BY <1>10, <2>3
    <2>5. R[s[i] + j] = Byte(W[i], j)
      BY <2>2, <2>4 DEF Placed, n
    <2> QED BY <2>3, <2>5
  <1>11. d \in 0 .. n + 1 /\ (n + 1) + 1 = n + 2
    BY <1>1
  <1>12. Placed(R, V, d, t)
    <2>1. R \in Bytes
      BY DEF Placed
    <2>2. Len(V) + 1 = n + 2
      BY <1>4, <1>11
    <2>3. \A i \in d + 1 .. Len(V) : t[i + 1] = t[i] + FrameLen(V[i])
      BY <1>4, <1>8
    <2>4. \A i \in d + 1 .. Len(V) : \A j \in i + 1 .. Len(V) + 1 :
            t[i] + FrameLen(V[i]) <= t[j]
      BY <1>4, <1>9, <2>2
    <2>5. \A i \in d + 1 .. Len(V) : \A j \in 1 .. FrameLen(V[i]) :
            t[i] + j <= Len(R) => R[t[i] + j] = Byte(V[i], j)
      BY <1>4, <1>10
    <2>6. V \in Seq(FrameRec) /\ d \in 0 .. Len(V)
      BY <1>4, <1>11
    <2> QED BY <1>6, <1>7, <2>1, <2>3, <2>4, <2>5, <2>6 DEF Placed
  <1>13. t[n + 1] = Len(R)
    <2>1. n + 1 \in 1 .. n + 1
      BY <1>1
    <2> QED BY <1>2, <1>6, <2>1
  <1> QED BY <1>6, <1>12, <1>13 DEF n, V

\* p is the part of frame f behind its first o bytes.
IsPart(p, f, o) ==
  /\ p \in Bytes /\ o \in Nat /\ o + Len(p) <= FrameLen(f)
  /\ \A i \in 1 .. Len(p) : p[i] = Byte(f, o + i)

\* The three buffers of a frame are consecutive parts of it.
LEMMA ThreeParts ==
  ASSUME NEW f \in FrameRec
  PROVE  /\ IsPart(Header(f), f, 0)
         /\ IsPart(Body(f), f, HeadSize)
         /\ IsPart(Payload(f), f, HeadSize + f.msg)
  <1>1. /\ f.id \in Nat /\ f.msg \in Nat /\ PayloadLen(f) \in Nat
        /\ FrameLen(f) = HeadSize + f.msg + PayloadLen(f)
    BY FrameFacts DEF FrameLen
  <1>2. /\ Header(f) \in Bytes /\ Len(Header(f)) = HeadSize
        /\ Body(f) \in Bytes /\ Len(Body(f)) = f.msg
        /\ Payload(f) \in Bytes /\ Len(Payload(f)) = PayloadLen(f)
    BY EncodeFacts
  <1>3. IsPart(Header(f), f, 0)
    <2>1. 0 + HeadSize <= FrameLen(f)
      BY <1>1 DEF HeadSize
    <2>2. ASSUME NEW i \in 1 .. HeadSize
          PROVE  Header(f)[i] = Byte(f, 0 + i)
      <3>1. 0 + i = i /\ i <= HeadSize
        BY DEF HeadSize
      <3> QED BY <3>1 DEF Byte
    <2> QED BY <1>2, <2>1, <2>2 DEF IsPart
  <1>4. IsPart(Body(f), f, HeadSize)
    <2>1. HeadSize + f.msg <= FrameLen(f) /\ HeadSize \in Nat
      BY <1>1 DEF HeadSize
    <2>2. ASSUME NEW i \in 1 .. f.msg
          PROVE  Body(f)[i] = Byte(f, HeadSize + i)
      <3>1. ~(HeadSize + i <= HeadSize) /\ HeadSize + i <= HeadSize + f.msg
        BY <1>1 DEF HeadSize
      <3>2. Body(f)[i] = 256 + f.id
        BY DEF Body
      <3> QED BY <3>1, <3>2 DEF Byte
    <2> QED BY <1>2, <2>1, <2>2 DEF IsPart
  <1>5. IsPart(Payload(f), f, HeadSize + f.msg)
    <2>1. /\ (HeadSize + f.msg) + PayloadLen(f) <= FrameLen(f)
          /\ HeadSize + f.msg \in Nat
      BY <1>1 DEF HeadSize
    <2>2. ASSUME NEW i \in 1 .. PayloadLen(f)
          PROVE  Payload(f)[i] = Byte(f, (HeadSize + f.msg) + i)
      <3>1. /\ ~((HeadSize + f.msg) + i <= HeadSize)
            /\ ~((HeadSize + f.msg) + i <= HeadSize + f.msg)
        BY <1>1 DEF HeadSize
      <3>2. Payload(f)[i] = 512 + f.id
        BY DEF Payload
      <3> QED BY <3>1, <3>2 DEF Byte
    <2> QED BY <1>2, <2>1, <2>2 DEF IsPart
  <1> QED BY <1>3, <1>4, <1>5

\* The next part of the last frame is written behind what is there.
LEMMA PartAdded ==
  ASSUME NEW R, NEW W, NEW d, NEW s, Placed(R, W, d, s),
         NEW p, NEW o, NEW Q, IsJoin(Q, R, p),
         d < Len(W) => Len(R) = s[Len(W)] + o /\ IsPart(p, W[Len(W)], o)
  PROVE  Placed(Q, W, d, s)
  <1> DEFINE n == Len(W)
  <1>1. /\ Len(R) \in Nat /\ n \in Nat /\ d \in Nat /\ d <= n
        /\ \A i \in 1 .. n : FrameLen(W[i]) \in Nat
        /\ \A i \in Nat : s[i] \in Int
        /\ \A i \in d + 1 .. n + 1 : s[i] >= 0
    BY PlacedFacts
  <1>2. Q \in Bytes /\ Len(Q) = Len(R) + Len(p) /\ Len(p) \in Nat
    BY DEF IsJoin
  <1>3. ASSUME NEW i \in d + 1 .. n, NEW j \in 1 .. FrameLen(W[i]),
               s[i] + j <= Len(Q)
        PROVE  Q[s[i] + j] = Byte(W[i], j)
    <2>1. /\ i \in 1 .. n /\ i \in Nat /\ i \in d + 1 .. n + 1 /\ d < n
          /\ n \in d + 1 .. n + 1 /\ n \in 1 .. n
      BY <1>1
    <2>2. s[i] \in Int /\ s[i] >= 0 /\ FrameLen(W[i]) \in Nat
      BY <1>1, <2>1
    <2>3. j \in Nat /\ j >= 1 /\ j <= FrameLen(W[i])
      BY <2>2
    <2>4. CASE s[i] + j <= Len(R)
      <3>1. s[i] + j \in 1 .. Len(R)
        BY <1>1, <2>2, <2>3, <2>4
      <3>2. Q[s[i] + j] = R[s[i] + j]
        BY <3>1 DEF IsJoin
      <3> QED BY <2>4, <3>2 DEF Placed
    <2>5. CASE ~(s[i] + j <= Len(R))
      <3>1. Len(R) = s[n] + o /\ IsPart(p, W[n], o) /\ o \in Nat
        BY <2>1 DEF IsPart
      <3>2. s[n] \in Int
        BY <1>1
      <3>3. i = n
        <4>1. SUFFICES ASSUME i # n PROVE FALSE
          OBVIOUS
        <4>2. n \in i + 1 .. n + 1
          BY <1>1, <4>1
        <4>3. s[i] + FrameLen(W[i]) <= s[n]
          BY <4>2 DEF Placed
        <4> QED BY <2>2, <2>3, <2>5, <3>1, <3>2, <4>3
      <3>4. PICK l \in 1 .. Len(p) : s[i] + j = Len(R) + l /\ o + l = j
        <4>1. PICK a, r, q : a = s[i] /\ r = Len(R) /\ q = Len(p)
          OBVIOUS
        <4>2. a \in Nat /\ r \in Nat /\ q \in Nat /\ ~(a + j <= r)
          BY <1>1, <1>2, <2>2, <2>5, <4>1
        <4>3. a + j <= r + q
          BY <1>2, <1>3, <4>1
        <4>4. r = a + o
          BY <3>1, <3>3, <4>1
        <4>5. PICK l \in Nat : l = a + j - r
          BY <2>3, <4>2
        <4>6. l \in 1 .. q /\ a + j = r + l /\ o + l = j
          BY <2>3, <3>1, <4>2, <4>3, <4>4, <4>5
        <4> QED BY <4>1, <4>6
      <3>5. Q[s[i] + j] = p[l]
        BY <3>4 DEF IsJoin
      <3>6. p[l] = Byte(W[i], j)
        BY <3>1, <3>3, <3>4 DEF IsPart
      <3> QED BY <3>5, <3>6
    <2> QED BY <2>4, <2>5
  <1> QED BY <1>2, <1>3 DEF Placed

\* The first frame is taken away.
LEMMA FrameTaken ==
  ASSUME NEW R, NEW W, NEW d, NEW s, Placed(R, W, d, s), d < Len(W),
         NEW x, NEW y, IsJoin(R, x, y), y \in Bytes,
         Len(x) = FrameLen(W[d + 1])
  PROVE  \E t : /\ Placed(y, W, d + 1, t)
                /\ t[Len(W) + 1] = s[Len(W) + 1] - Len(x)
  <1> DEFINE n == Len(W)
             t == [i \in Nat |-> s[i] - Len(x)]
  <1>1. /\ Len(R) \in Nat /\ n \in Nat /\ d \in Nat /\ d <= n
        /\ \A i \in 1 .. n : FrameLen(W[i]) \in Nat
        /\ \A i \in Nat : s[i] \in Int
        /\ \A i \in d + 1 .. n + 1 : s[i] >= 0
    BY PlacedFacts
  <1>2. Len(R) = Len(x) + Len(y) /\ Len(x) \in Nat /\ Len(y) \in Nat
    BY DEF IsJoin
  <1>3. t \in [Nat -> Int] /\ \A i \in Nat : t[i] = s[i] - Len(x)
    BY <1>1, <1>2
  <1> HIDE DEF t
  <1>4. t[(d + 1) + 1] = 0
    <2>1. d + 1 \in d + 1 .. n /\ (d + 1) + 1 \in Nat
      BY <1>1
    <2>2. s[(d + 1) + 1] = s[d + 1] + FrameLen(W[d + 1]) /\ s[d + 1] = 0
      BY <2>1 DEF Placed
    <2> QED BY <1>2, <1>3, <2>1, <2>2
  <1>5. ASSUME NEW i \in (d + 1) + 1 .. n
        PROVE  /\ i \in d + 1 .. n /\ i \in Nat /\ i + 1 \in Nat
               /\ FrameLen(W[i]) \in Nat /\ s[i] \in Int
               /\ t[i] = s[i] - Len(x) /\ t[i] >= 0
    <2>1. /\ i \in d + 1 .. n /\ i \in Nat /\ i + 1 \in Nat /\ i \in 1 .. n
          /\ d + 1 \in d + 1 .. n /\ i \in (d + 1) + 1 .. n + 1
      BY <1>1
    <2>2. FrameLen(W[i]) \in Nat /\ s[i] \in Int /\ t[i] = s[i] - Len(x)
      BY <1>1, <1>3, <2>1
    <2>3. s[d + 1] + FrameLen(W[d + 1]) <= s[i] /\ s[d + 1] = 0
      BY <2>1 DEF Placed
    <2>4. t[i] >= 0
      BY <1>2, <2>2, <2>3
    <2> QED BY <2>1, <2>2, <2>4
  <1>6. ASSUME NEW i \in (d + 1) + 1 .. n
        PROVE  t[i + 1] = t[i] + FrameLen(W[i])
    <2>1. s[i + 1] = s[i] + FrameLen(W[i])
      BY <1>5 DEF Placed
    <2>2. t[i + 1] = s[i + 1] - Len(x)
      BY <1>3, <1>5
    <2> QED BY <1>2, <1>5, <2>1, <2>2
  <1>7. ASSUME NEW i \in (d + 1) + 1 .. n, NEW j \in i + 1 .. n + 1
        PROVE  t[i] + FrameLen(W[i]) <= t[j]
    <2>1. s[i] + FrameLen(W[i]) <= s[j]
      BY <1>5 DEF Placed
    <2>2. j \in Nat
      BY <1>1, <1>5
    <2>3. t[j] = s[j] - Len(x) /\ s[j] \in Int
      BY <1>1, <1>3, <2>2
    <2> QED BY <1>2, <1>5, <2>1, <2>3
  <1>8. ASSUME NEW i \in (d + 1) + 1 .. n, NEW j \in 1 .. FrameLen(W[i]),
               t[i] + j <= Len(y)
        PROVE  y[t[i] + j] = Byte(W[i], j)
    <2>1. /\ t[i] + j \in 1 .. Len(y) /\ Len(x) + (t[i] + j) = s[i] + j
          /\ s[i] + j <= Len(R)
      BY <1>2, <1>5, <1>8
    <2>2. R[s[i] + j] = y[t[i] + j]
      BY <2>1 DEF IsJoin
    <2>3. R[s[i] + j] = Byte(W[i], j)
      BY <1>5, <2>1 DEF Placed
    <2> QED BY <2>2, <2>3
  <1>9. d + 1 \in 0 .. n /\ n + 1 \in Nat
    BY <1>1
  <1>10. Placed(y, W, d + 1, t)
    BY <1>3, <1>4, <1>6, <1>7, <1>8, <1>9 DEF Placed
  <1>11. t[n + 1] = s[n + 1] - Len(x)
    BY <1>3, <1>9
  <1> QED BY <1>10, <1>11

\* Once the bytes of a header are there, the first frame of the stream is one
\* that was written, and its own sizes are in it.
LEMMA FirstFrame ==
  ASSUME NEW R, NEW W, NEW d, NEW s, NEW k \in 0 .. 2,
         Placed(R, W, d, s), Ends(R, W, k, s),
         NEW x, NEW y, IsJoin(R, x, y), Len(x) >= HeadSize
  PROVE  /\ d < Len(W) /\ W[d + 1] \in FrameRec
         /\ x[4] = W[d + 1].msg /\ x[5] = PayloadLen(W[d + 1])
         /\ \A j \in 1 .. FrameLen(W[d + 1]) :
              j <= Len(x) => x[j] = Byte(W[d + 1], j)
  <1> DEFINE n == Len(W)
  <1>1. /\ Len(R) \in Nat /\ n \in Nat /\ d \in Nat /\ d <= n
        /\ \A i \in 1 .. n : W[i] \in FrameRec
    BY PlacedFacts
  <1>2. Len(R) = Len(x) + Len(y) /\ Len(x) \in Nat /\ Len(y) \in Nat
    BY DEF IsJoin
  <1>3. Missing(k, W[n]) \in Nat
    <2>1. CASE k = 0
      BY <2>1 DEF Missing
    <2>2. CASE k # 0
      <3>1. n \in 1 .. n
        BY <1>1, <2>2 DEF Ends
      <3>2. W[n] \in FrameRec
        BY <1>1, <3>1
      <3>3. W[n].msg \in Nat /\ PayloadLen(W[n]) \in Nat
        BY <3>2, FrameFacts
      <3> QED BY <3>3 DEF Missing
    <2> QED BY <2>1, <2>2
  <1>4. d < n
    <2>1. SUFFICES ASSUME d = n PROVE FALSE
      BY <1>1
    <2>2. s[n + 1] = 0
      BY <2>1 DEF Placed
    <2>3. Len(R) + Missing(k, W[n]) = 0
      BY <2>2 DEF Ends
    <2> QED BY <1>1, <1>2, <1>3, <2>3 DEF HeadSize
  <1>5. PICK f \in FrameRec : f = W[d + 1]
    BY <1>1, <1>4
  <1>6. ASSUME NEW j \in 1 .. FrameLen(f), j <= Len(x)
        PROVE  x[j] = Byte(f, j)
    <2>1. FrameLen(f) \in Nat
      BY FrameFacts
    <2>2. j \in 1 .. Len(x) /\ j <= Len(R) /\ j \in Nat
      BY <1>2, <1>6, <2>1
    <2>3. d + 1 \in d + 1 .. n
      BY <1>1, <1>4
    <2>4. s[d + 1] = 0 /\ 0 + j = j
      BY <2>2 DEF Placed
    <2>5. R[j] = Byte(f, j)
      BY <1>5, <2>2, <2>3, <2>4 DEF Placed
    <2>6. R[j] = x[j]
      BY <2>2 DEF IsJoin
    <2> QED BY <2>5, <2>6
  <1>7. x[4] = f.msg /\ x[5] = PayloadLen(f)
    <2>1. FrameLen(f) \in Nat /\ FrameLen(f) > HeadSize
      BY FrameFacts
    <2>2. /\ 4 \in 1 .. FrameLen(f) /\ 5 \in 1 .. FrameLen(f)
          /\ 4 <= Len(x) /\ 5 <= Len(x)
      BY <1>2, <2>1 DEF HeadSize
    <2>3. x[4] = Byte(f, 4) /\ x[5] = Byte(f, 5)
      BY <1>6, <2>2
    <2>4. Byte(f, 4) = f.msg /\ Byte(f, 5) = PayloadLen(f)
      BY DEF Byte, HeadSize, Header
    <2> QED BY <2>3, <2>4
  <1> QED BY <1>4, <1>5, <1>6, <1>7

\* What is cut out of a complete frame is its number and its payload.
LEMMA FrameRead ==
  ASSUME NEW f \in FrameRec, NEW x,
         \A j \in 1 .. FrameLen(f) : x[j] = Byte(f, j),
         NEW b, IsPiece(b, x, HeadSize + 1, HeadSize + f.msg),
         NEW p, IsPiece(p, x, HeadSize + f.msg + 1, FrameLen(f))
  PROVE  b[1] - 256 = f.id /\ p = Payload(f)
  <1>1. /\ f.id \in Nat /\ f.msg \in Nat /\ f.msg > 0 /\ PayloadLen(f) \in Nat
        /\ FrameLen(f) = HeadSize + f.msg + PayloadLen(f)
    BY FrameFacts DEF FrameLen
  <1>2. b[1] = 256 + f.id
    <2>1. Len(b) = f.msg
      <3>1. Len(b) = (HeadSize + f.msg) - (HeadSize + 1) + 1
        BY DEF IsPiece
      <3> QED BY <1>1, <3>1 DEF HeadSize
    <2>2. 1 \in 1 .. Len(b) /\ (HeadSize + 1) + 1 - 1 = HeadSize + 1
      BY <1>1, <2>1 DEF HeadSize
    <2>3. b[1] = x[HeadSize + 1]
      BY <2>2 DEF IsPiece
    <2>4. /\ HeadSize + 1 \in 1 .. FrameLen(f)
          /\ ~(HeadSize + 1 <= HeadSize) /\ HeadSize + 1 <= HeadSize + f.msg
      BY <1>1 DEF HeadSize
    <2> QED BY <2>3, <2>4 DEF Byte
  <1>3. p = Payload(f)
    <2>1. p \in Bytes /\ Len(p) = PayloadLen(f)
      <3>1. p \in Bytes /\ Len(p) = FrameLen(f) - (HeadSize + f.msg + 1) + 1
        BY DEF IsPiece
      <3> QED BY <1>1, <3>1 DEF HeadSize
    <2>2. Payload(f) \in Bytes /\ Len(Payload(f)) = PayloadLen(f)
      BY EncodeFacts
    <2>3. ASSUME NEW i \in 1 .. PayloadLen(f)
          PROVE  p[i] = Payload(f)[i]
      <3>1. PICK j : j = (HeadSize + f.msg + 1) + i - 1
        OBVIOUS
      <3>2. /\ j \in 1 .. FrameLen(f)
            /\ ~(j <= HeadSize) /\ ~(j <= HeadSize + f.msg)
        BY <1>1, <3>1 DEF HeadSize
      <3>3. p[i] = x[j]
        BY <2>1, <3>1 DEF IsPiece
      <3>4. x[j] = 512 + f.id
        BY <3>2 DEF Byte
      <3> QED BY <3>3, <3>4 DEF Payload
    <2> QED BY <2>1, <2>2, <2>3, SeqEqual DEF Bytes
  <1> QED BY <1>1, <1>2, <1>3

-----------------------------------------------------------------------------
(* The invariant                                                           *)

\* The bytes of the frames that have not been taken, in order.
Rest == buf \o inbox \o wire

\* Every writer is equally far: nobody has begun a frame that another one
\* would cut into.
StreamInv ==
  \E k \in 0 .. 2 : \E s :
    /\ Placed(Rest, written, Len(delivered), s)
    /\ Ends(Rest, written, k, s)
    /\ \A w \in Writers :
         /\ part[w] = k
         /\ k # 0 => queue[w] # <<>> /\ Head(queue[w]) = written[Len(written)]

\* Where the receiver keeps the bytes of the frame it is putting together.
ShapeInv ==
  /\ receiver = "server" =>
       buf = <<>> /\ room = NoRoom /\ \A w \in Writers : part[w] = 0
  /\ Allocated => /\ Len(buf) >= HeadSize
                  /\ room.msg = buf[4] /\ room.payload = buf[5]

WireInv == TypeOK /\ ShapeInv /\ StreamInv /\ FramesIntact

\* A client connection with one writer.  Several may write to a server: all
\* of a frame is then written at once.
OneWriter == "client" \in Receivers => \A v, w \in Writers : v = w

\* The invariant holds at the start.
LEMMA InitWire ==
  ASSUME Init
  PROVE  WireInv
  <1>1. TypeOK
    BY InitTypes
  <1>2. ShapeInv
    BY DEF Init, ShapeInv, Allocated
  <1>3. FramesIntact
    BY EmptySeq DEF Init, FramesIntact
  <1>4. Rest = <<>> /\ written = <<>> /\ delivered = <<>>
    <2>1. <<>> \o <<>> = <<>>
      BY ConcatEmptySeq, EmptySeq
    <2> QED BY <2>1 DEF Init, Rest
  <1>5. PICK s : s = [i \in Nat |-> 0]
    OBVIOUS
  <1>6. s \in [Nat -> Int] /\ s[1] = 0
    BY <1>5
  <1>7. Placed(<<>>, <<>>, 0, s)
    <2>1. <<>> \in Bytes /\ <<>> \in Seq(FrameRec) /\ Len(<<>>) = 0
      BY EmptySeq DEF Bytes
    <2>2. 0 + 1 .. 0 = {} /\ 0 + 1 = 1
      OBVIOUS
    <2> QED BY <1>6, <2>1, <2>2 DEF Placed
  <1>8. Ends(<<>>, <<>>, 0, s)
    BY <1>6, EmptySeq DEF Ends, Missing
  <1>9. \A w \in Writers : part[w] = 0
    BY DEF Init
  <1>10. Len(delivered) = 0 /\ 0 \in 0 .. 2
    BY <1>4, EmptySeq
  <1>11. StreamInv
    BY <1>4, <1>7, <1>8, <1>9, <1>10 DEF StreamInv
  <1> QED BY <1>1, <1>2, <1>3, <1>11 DEF WireInv

\* A step that moves bytes along and takes no frame.
LEMMA SameStream ==
  ASSUME WireInv, TypeOK', ShapeInv', Rest' = Rest, delivered' = delivered,
         UNCHANGED sendVars
  PROVE  WireInv'
  <1>1. queue' = queue /\ part' = part /\ written' = written
    BY DEF sendVars
  <1>2. FramesIntact'
    BY <1>1 DEF WireInv, FramesIntact
  <1>3. StreamInv'
    <2>1. PICK k, s :
            /\ k \in 0 .. 2
            /\ Placed(Rest, written, Len(delivered), s)
            /\ Ends(Rest, written, k, s)
            /\ \A w \in Writers :
                 /\ part[w] = k
                 /\ k # 0 => /\ queue[w] # <<>>
                             /\ Head(queue[w]) = written[Len(written)]
      BY DEF WireInv, StreamInv
    <2>2. /\ Placed(Rest', written', Len(delivered'), s)
          /\ Ends(Rest', written', k, s)
          /\ \A w \in Writers :
               /\ part'[w] = k
               /\ k # 0 => /\ queue'[w] # <<>>
                           /\ Head(queue'[w]) = written'[Len(written')]
      BY <1>1, <2>1
    <2> QED BY <2>1, <2>2 DEF StreamInv
  <1> QED BY <1>2, <1>3 DEF WireInv

-----------------------------------------------------------------------------
(* Writing                                                                 *)

\* The first of three writes begins a frame.
LEMMA HeaderWritten ==
  ASSUME NEW R, NEW W, NEW d, NEW s, Placed(R, W, d, s), Ends(R, W, 0, s),
         NEW f \in FrameRec
  PROVE  \E t : /\ Placed(R \o Header(f), Append(W, f), d, t)
                /\ Ends(R \o Header(f), Append(W, f), 1, t)
  <1>1. PICK V, Q : V = Append(W, f) /\ Q = R \o Header(f)
    OBVIOUS
  <1>2. PICK t : /\ Placed(R, V, d, t) /\ t[Len(W) + 1] = Len(R)
                 /\ t[Len(W) + 2] = Len(R) + FrameLen(f)
    BY <1>1, FrameAdded
  <1>3. Len(R) \in Nat /\ Len(W) \in Nat /\ R \in Bytes /\ W \in Seq(FrameRec)
    BY PlacedFacts DEF Placed
  <1>4. Len(V) = Len(W) + 1 /\ V[Len(W) + 1] = f
    BY <1>1, <1>3, AppendProperties
  <1>5. Header(f) \in Bytes /\ Len(Header(f)) = HeadSize
    BY EncodeFacts
  <1>6. IsJoin(Q, R, Header(f))
    BY <1>1, <1>3, <1>5, Joined
  <1>7. Len(R) = t[Len(V)] + 0 /\ V[Len(V)] = f
    BY <1>2, <1>3, <1>4
  <1>8. Placed(Q, V, d, t)
    BY <1>2, <1>6, <1>7, ThreeParts, PartAdded
  <1>9. Ends(Q, V, 1, t)
    <2>1. Len(Q) = Len(R) + HeadSize
      BY <1>5, <1>6 DEF IsJoin
    <2>2. /\ f.msg \in Nat /\ PayloadLen(f) \in Nat
          /\ FrameLen(f) = HeadSize + f.msg + PayloadLen(f)
      BY FrameFacts DEF FrameLen
    <2>3. Missing(1, f) = f.msg + PayloadLen(f)
      BY DEF Missing
    <2>4. Len(V) + 1 = Len(W) + 2 /\ Len(V) # 0
      BY <1>3, <1>4
    <2>5. Len(Q) + Missing(1, f) = t[Len(V) + 1]
      <3>1. PICK r, m, q : r = Len(R) /\ m = f.msg /\ q = PayloadLen(f)
        OBVIOUS
      <3>2. r \in Nat /\ m \in Nat /\ q \in Nat
        BY <1>3, <2>2, <3>1
      <3>3. /\ t[Len(V) + 1] = r + (HeadSize + m + q)
            /\ Len(Q) = r + HeadSize /\ Missing(1, f) = m + q
        BY <1>2, <2>1, <2>2, <2>3, <2>4, <3>1
      <3> QED BY <3>2, <3>3 DEF HeadSize
    <2> QED BY <1>7, <2>4, <2>5 DEF Ends
  <1> QED BY <1>1, <1>8, <1>9

\* Where the stream ends in the middle of its last frame.
LEMMA HalfWritten ==
  ASSUME NEW R, NEW W, NEW d, NEW s, NEW k \in {1, 2},
         Placed(R, W, d, s), Ends(R, W, k, s)
  PROVE  /\ Len(R) \in Nat /\ R \in Bytes /\ Len(W) \in Nat /\ Len(W) # 0
         /\ W[Len(W)] \in FrameRec
         /\ d < Len(W) =>
              Len(R) = s[Len(W)] + (IF k = 1 THEN HeadSize
                                             ELSE HeadSize + W[Len(W)].msg)
  <1> DEFINE n == Len(W)
  <1>1. /\ Len(R) \in Nat /\ n \in Nat /\ d \in Nat
        /\ \A i \in 1 .. n : W[i] \in FrameRec
        /\ \A i \in Nat : s[i] \in Int
    BY PlacedFacts
  <1>2. n # 0 /\ Len(R) + Missing(k, W[n]) = s[n + 1]
    BY DEF Ends
  <1>3. PICK f \in FrameRec : f = W[n]
    BY <1>1, <1>2
  <1>4. ASSUME d < n
        PROVE  Len(R) = s[n] + (IF k = 1 THEN HeadSize ELSE HeadSize + f.msg)
    <2>1. n \in d + 1 .. n /\ s[n] \in Int
      BY <1>1, <1>4
    <2>2. s[n + 1] = s[n] + FrameLen(f)
      BY <1>3, <2>1 DEF Placed
    <2>3. /\ f.msg \in Nat /\ PayloadLen(f) \in Nat
          /\ FrameLen(f) = HeadSize + f.msg + PayloadLen(f)
      BY FrameFacts DEF FrameLen
    <2>4. PICK r, a, m, q : /\ r = Len(R) /\ a = s[n] /\ m = f.msg
                            /\ q = PayloadLen(f)
      OBVIOUS
    <2>5. /\ r \in Nat /\ a \in Int /\ m \in Nat /\ q \in Nat
          /\ r + Missing(k, f) = a + (HeadSize + m + q)
      BY <1>1, <1>2, <1>3, <2>1, <2>2, <2>3, <2>4
    <2>6. Missing(k, f) = IF k = 1 THEN m + q ELSE q
      BY <2>4 DEF Missing
    <2>7. r = a + (IF k = 1 THEN HeadSize ELSE HeadSize + m)
      BY <2>5, <2>6 DEF HeadSize
    <2> QED BY <2>4, <2>7
  <1>5. R \in Bytes
    BY DEF Placed
  <1> QED BY <1>1, <1>2, <1>3, <1>4, <1>5

\* The second continues it.
LEMMA BodyWritten ==
  ASSUME NEW R, NEW W, NEW d, NEW s, Placed(R, W, d, s), Ends(R, W, 1, s),
         NEW f, f = W[Len(W)]
  PROVE  /\ Placed(R \o Body(f), W, d, s) /\ Ends(R \o Body(f), W, 2, s)
  <1>1. /\ Len(R) \in Nat /\ R \in Bytes /\ Len(W) \in Nat /\ Len(W) # 0
        /\ f \in FrameRec
        /\ d < Len(W) => Len(R) = s[Len(W)] + HeadSize
    BY HalfWritten
  <1>2. Body(f) \in Bytes /\ Len(Body(f)) = f.msg
    BY <1>1, EncodeFacts
  <1>3. PICK Q : Q = R \o Body(f) /\ IsJoin(Q, R, Body(f))
    BY <1>1, <1>2, Joined
  <1>4. Placed(Q, W, d, s)
    BY <1>1, <1>3, ThreeParts, PartAdded
  <1>5. Ends(Q, W, 2, s)
    <2>1. Len(Q) = Len(R) + f.msg
      BY <1>2, <1>3 DEF IsJoin
    <2>2. f.msg \in Nat /\ PayloadLen(f) \in Nat
      BY <1>1, FrameFacts
    <2>3. Missing(1, f) = f.msg + PayloadLen(f) /\ Missing(2, f) = PayloadLen(f)
      BY DEF Missing
    <2>4. Len(R) + Missing(1, f) = Len(Q) + Missing(2, f)
      BY <1>1, <2>1, <2>2, <2>3
    <2> QED BY <1>1, <2>4 DEF Ends
  <1> QED BY <1>3, <1>4, <1>5

\* The third completes it.
LEMMA PayloadWritten ==
  ASSUME NEW R, NEW W, NEW d, NEW s, Placed(R, W, d, s), Ends(R, W, 2, s),
         NEW f, f = W[Len(W)]
  PROVE  /\ Placed(R \o Payload(f), W, d, s) /\ Ends(R \o Payload(f), W, 0, s)
  <1>1. /\ Len(R) \in Nat /\ R \in Bytes /\ Len(W) \in Nat
        /\ f \in FrameRec
        /\ d < Len(W) => Len(R) = s[Len(W)] + (HeadSize + f.msg)
    BY HalfWritten
  <1>2. Payload(f) \in Bytes /\ Len(Payload(f)) = PayloadLen(f)
    BY <1>1, EncodeFacts
  <1>3. PICK Q : Q = R \o Payload(f) /\ IsJoin(Q, R, Payload(f))
    BY <1>1, <1>2, Joined
  <1>4. Placed(Q, W, d, s)
    BY <1>1, <1>3, ThreeParts, PartAdded
  <1>5. Ends(Q, W, 0, s)
    <2>1. Len(Q) = Len(R) + PayloadLen(f)
      BY <1>2, <1>3 DEF IsJoin
    <2>2. PayloadLen(f) \in Nat
      BY <1>1, FrameFacts
    <2>3. Missing(2, f) = PayloadLen(f) /\ Missing(0, f) = 0
      BY DEF Missing
    <2>4. Len(R) + Missing(2, f) = Len(Q) + Missing(0, f)
      BY <1>1, <2>1, <2>2, <2>3
    <2> QED BY <2>4 DEF Ends
  <1> QED BY <1>3, <1>4, <1>5

\* A writev adds a whole frame.
LEMMA FrameWritten ==
  ASSUME NEW R, NEW W, NEW d, NEW s, Placed(R, W, d, s), Ends(R, W, 0, s),
         NEW f \in FrameRec
  PROVE  \E t :
           /\ Placed(R \o Header(f) \o Body(f) \o Payload(f), Append(W, f), d, t)
           /\ Ends(R \o Header(f) \o Body(f) \o Payload(f), Append(W, f), 0, t)
  <1>1. PICK V, Q1, Q2, Q3 :
          /\ V = Append(W, f) /\ Q1 = R \o Header(f)
          /\ Q2 = Q1 \o Body(f) /\ Q3 = Q2 \o Payload(f)
    OBVIOUS
  <1>2. PICK t : Placed(Q1, V, d, t) /\ Ends(Q1, V, 1, t)
    BY <1>1, HeaderWritten
  <1>3. W \in Seq(FrameRec)
    BY DEF Placed
  <1>4. f = V[Len(V)]
    BY <1>1, <1>3, AppendProperties
  <1>5. Placed(Q2, V, d, t) /\ Ends(Q2, V, 2, t)
    BY <1>1, <1>2, <1>4, BodyWritten
  <1>6. Placed(Q3, V, d, t) /\ Ends(Q3, V, 0, t)
    BY <1>1, <1>4, <1>5, PayloadWritten
  <1> QED BY <1>1, <1>6

\* Where the boundary between two parts of the stream lies is no matter.
LEMMA Regroup ==
  ASSUME NEW x \in Bytes, NEW y \in Bytes, NEW z \in Bytes
  PROVE  (x \o y) \o z = x \o (y \o z)
  <1>1. PICK u : u = x \o y /\ IsJoin(u, x, y)
    BY Joined
  <1>2. PICK v : v = y \o z /\ IsJoin(v, y, z)
    BY Joined
  <1>3. PICK s : s = u \o z /\ IsJoin(s, u, z)
    <2>1. u \in Bytes
      BY <1>1 DEF IsJoin
    <2> QED BY <2>1, Joined
  <1>4. PICK t : t = x \o v /\ IsJoin(t, x, v)
    <2>1. v \in Bytes
      BY <1>2 DEF IsJoin
    <2> QED BY <2>1, Joined
  <1>5. /\ Len(x) \in Nat /\ Len(y) \in Nat /\ Len(z) \in Nat
        /\ Len(u) = Len(x) + Len(y) /\ Len(v) = Len(y) + Len(z)
        /\ Len(s) = Len(u) + Len(z) /\ Len(t) = Len(x) + Len(v)
        /\ s \in Bytes /\ t \in Bytes
    BY <1>1, <1>2, <1>3, <1>4 DEF IsJoin
  <1>6. Len(s) = Len(t)
    BY <1>5
  <1>7. ASSUME NEW i \in 1 .. Len(s)
        PROVE  s[i] = t[i]
    <2>1. CASE i <= Len(x)
      <3>1. i \in 1 .. Len(u) /\ i \in 1 .. Len(x)
        BY <1>5, <2>1
      <3> QED BY <1>1, <1>3, <1>4, <3>1 DEF IsJoin
    <2>2. CASE i > Len(x) /\ i <= Len(u)
      <3>1. PICK j \in 1 .. Len(y) : i = Len(x) + j
        <4>1. PICK a, b : a = Len(x) /\ b = Len(y)
          OBVIOUS
        <4>2. a \in Nat /\ b \in Nat /\ i \in Nat /\ i > a /\ i <= a + b
          BY <1>5, <2>2, <4>1
        <4>3. i - a \in 1 .. b /\ i = a + (i - a)
          BY <4>2
        <4> QED BY <4>1, <4>3
      <3>2. i \in 1 .. Len(u) /\ j \in 1 .. Len(v)
        BY <1>5, <2>2, <3>1
      <3>3. s[i] = y[j]
        BY <1>1, <1>3, <3>1, <3>2 DEF IsJoin
      <3>4. t[i] = y[j]
        BY <1>2, <1>4, <3>1, <3>2 DEF IsJoin
      <3> QED BY <3>3, <3>4
    <2>3. CASE i > Len(u)
      <3>1. PICK j \in 1 .. Len(z) : i = Len(u) + j
        <4>1. PICK a, b : a = Len(u) /\ b = Len(z)
          OBVIOUS
        <4>2. a \in Nat /\ b \in Nat /\ i \in Nat /\ i > a /\ i <= a + b
          BY <1>5, <2>3, <4>1
        <4>3. i - a \in 1 .. b /\ i = a + (i - a)
          BY <4>2
        <4> QED BY <4>1, <4>3
      <3>2. Len(y) + j \in 1 .. Len(v) /\ i = Len(x) + (Len(y) + j)
        BY <1>5, <3>1
      <3>3. s[i] = z[j]
        BY <1>3, <3>1 DEF IsJoin
      <3>4. t[i] = v[Len(y) + j] /\ v[Len(y) + j] = z[j]
        BY <1>2, <1>4, <3>1, <3>2 DEF IsJoin
      <3> QED BY <3>3, <3>4
    <2> QED BY <1>5, <2>1, <2>2, <2>3
  <1>8. s = t
    BY <1>5, <1>6, <1>7, SeqEqual DEF Bytes
  <1> QED BY <1>1, <1>2, <1>3, <1>4, <1>8

\* What is written goes behind all that has not been taken.
LEMMA RestGrows ==
  ASSUME TypeOK, NEW p \in Bytes, wire' = wire \o p, UNCHANGED <<buf, inbox>>
  PROVE  Rest' = Rest \o p
  <1>1. buf \in Seq(Nat) /\ inbox \in Seq(Nat) /\ wire \in Seq(Nat)
        /\ p \in Seq(Nat)
    BY DEF TypeOK, Bytes
  <1>2. PICK y : y = buf \o inbox /\ y \in Seq(Nat)
    BY <1>1, ConcatProperties
  <1>3. y \o (wire \o p) = (y \o wire) \o p
    <2>1. y \in Bytes /\ wire \in Bytes
      BY <1>1, <1>2 DEF Bytes
    <2> QED BY <2>1, Regroup, Zenon
  <1>4. Rest' = y \o (wire \o p) /\ Rest = y \o wire
    BY <1>2 DEF Rest
  <1> QED BY <1>3, <1>4

\* The stream is a sequence of bytes.
LEMMA RestIsBytes ==
  ASSUME TypeOK
  PROVE  Rest \in Bytes
  <1>1. buf \in Seq(Nat) /\ inbox \in Seq(Nat) /\ wire \in Seq(Nat)
    BY DEF TypeOK
  <1> QED BY <1>1, ConcatProperties DEF Rest, Bytes

\* A writer puts a whole frame, or the next part of the frame it has begun,
\* behind the stream.
LEMMA WriteWire ==
  ASSUME OneWriter, WireInv, NEW w \in Writers, WriteMessage(w)
  PROVE  WireInv'
  <1>1. TypeOK /\ TypeOK'
    BY WriteTypes DEF WireInv
  <1>2. PICK k, s :
          /\ k \in 0 .. 2
          /\ Placed(Rest, written, Len(delivered), s)
          /\ Ends(Rest, written, k, s)
          /\ \A v \in Writers :
               /\ part[v] = k
               /\ k # 0 => /\ queue[v] # <<>>
                           /\ Head(queue[v]) = written[Len(written)]
    BY DEF WireInv, StreamInv
  <1>3. /\ UNCHANGED <<receiver, inbox, buf, room, delivered>>
        /\ queue[w] \in Seq(FrameRec) /\ queue[w] # <<>>
        /\ written \in Seq(FrameRec)
        /\ queue \in [Writers -> Seq(FrameRec)] /\ part \in [Writers -> 0 .. 2]
    BY <1>1 DEF WriteMessage, readVars, TypeOK
  <1>4. PICK f \in FrameRec : f = Head(queue[w])
    BY <1>3, HeadTailProperties
  <1>5. /\ Header(f) \in Bytes /\ Body(f) \in Bytes /\ Payload(f) \in Bytes
        /\ EncodeMsg(f)[1] = Header(f) /\ EncodeMsg(f)[2] = Body(f)
        /\ EncodeMsg(f)[3] = Payload(f)
    BY EncodeFacts
  <1>6. wire \in Bytes
    BY <1>1 DEF TypeOK, Bytes
  <1>7. /\ Append(written, f)[Len(Append(written, f))] = f
        /\ Len(written) \in Nat /\ Len(Append(written, f)) = Len(written) + 1
        /\ \A i \in 1 .. Len(written) : Append(written, f)[i] = written[i]
    BY <1>3, AppendProperties, LenProperties
  <1>8. ASSUME written' \in {written, Append(written, f)}
        PROVE  FramesIntact'
    <2>1. /\ Len(delivered) <= Len(written)
          /\ \A i \in 1 .. Len(delivered) :
               delivered[i] = [id |-> written[i].id,
                               payload |-> Payload(written[i])]
      BY DEF WireInv, FramesIntact
    <2>2. Len(delivered) \in Nat
      BY <1>1, LenProperties DEF TypeOK
    <2>3. Len(delivered) <= Len(written')
      BY <1>7, <1>8, <2>1, <2>2
    <2>4. \A i \in 1 .. Len(delivered) : i \in 1 .. Len(written)
      BY <1>7, <2>1, <2>2
    <2>5. \A i \in 1 .. Len(delivered) : written'[i] = written[i]
      BY <1>7, <1>8, <2>4
    <2> QED BY <1>3, <2>1, <2>3, <2>5 DEF FramesIntact
  <1>9. CASE WriteV(w)
    <2>1. /\ receiver = "server" /\ part' = part
          /\ wire' = wire \o Header(f) \o Body(f) \o Payload(f)
          /\ written' = Append(written, f)
      BY <1>4, <1>5, <1>9 DEF WriteV
    <2>2. k = 0
      BY <1>2, <2>1 DEF WireInv, ShapeInv
    <2>3. PICK a, b, c : /\ a = Header(f) /\ b = a \o Body(f)
                         /\ c = b \o Payload(f)
      OBVIOUS
    <2>4. a \in Seq(Nat) /\ b \in Seq(Nat) /\ c \in Seq(Nat)
      BY <1>5, <2>3, ConcatProperties DEF Bytes
    <2>5. \A r \in Bytes : r \o Header(f) \o Body(f) \o Payload(f) = r \o c
      <3> TAKE r \in Bytes
      <3>1. a \in Bytes /\ b \in Bytes
        BY <2>4 DEF Bytes
      <3>2. (r \o a) \o Body(f) = r \o b
        BY <1>5, <2>3, <3>1, Regroup, Zenon
      <3>3. (r \o b) \o Payload(f) = r \o c
        BY <1>5, <2>3, <3>1, Regroup, Zenon
      <3> QED BY <2>3, <3>2, <3>3
    <2>6. Rest' = Rest \o Header(f) \o Body(f) \o Payload(f)
      <3>1. wire' = wire \o c /\ c \in Bytes
        BY <1>6, <2>1, <2>4, <2>5 DEF Bytes
      <3>2. Rest' = Rest \o c
        BY <1>1, <1>3, <3>1, RestGrows
      <3> QED BY <1>1, <2>5, <3>2, RestIsBytes
    <2>7. PICK t : /\ Placed(Rest', written', Len(delivered'), t)
                   /\ Ends(Rest', written', 0, t)
      BY <1>2, <1>3, <2>1, <2>2, <2>6, FrameWritten
    <2>8. \A v \in Writers : part'[v] = 0
      BY <1>2, <2>1, <2>2
    <2>9. StreamInv'
      <3>1. 0 \in 0 .. 2
        OBVIOUS
      <3> QED BY <2>7, <2>8, <3>1 DEF StreamInv
    <2>10. ShapeInv'
      BY <1>3, <2>8 DEF WireInv, ShapeInv, Allocated
    <2> QED BY <1>1, <1>8, <2>1, <2>9, <2>10 DEF WireInv
  <1>10. CASE WriteBuffer(w)
    <2>1. /\ receiver = "client"
          /\ wire' = wire \o EncodeMsg(f)[k + 1]
          /\ written' = IF k = 0 THEN Append(written, f) ELSE written
          /\ part' = [part EXCEPT ![w] = (k + 1) % 3]
          /\ queue' = [queue EXCEPT ![w] = IF k = 2 THEN Tail(@) ELSE @]
      BY <1>2, <1>4, <1>10 DEF WriteBuffer
    <2>2. \A v \in Writers : v = w
      BY <1>1, <2>1 DEF TypeOK, OneWriter
    <2>3. \A v \in Writers : part'[v] = (k + 1) % 3
      BY <1>3, <2>1, <2>2
    <2>4. ShapeInv'
      BY <1>3, <2>1 DEF WireInv, ShapeInv, Allocated
    <2>5. CASE k = 0
      <3>1. /\ wire' = wire \o Header(f) /\ written' = Append(written, f)
            /\ queue' = [queue EXCEPT ![w] = queue[w]]
        <4>1. k + 1 = 1 /\ k # 2
          BY <2>5
        <4>2. wire' = wire \o EncodeMsg(f)[1]
          BY <2>1, <4>1
        <4>3. queue' = [queue EXCEPT ![w] = queue[w]]
          BY <2>1, <4>1
        <4> QED BY <1>5, <2>1, <2>5, <4>2, <4>3
      <3>2. Rest' = Rest \o Header(f)
        BY <1>1, <1>3, <1>5, <3>1, RestGrows
      <3>3. PICK t : /\ Placed(Rest', written', Len(delivered'), t)
                     /\ Ends(Rest', written', 1, t)
        BY <1>2, <1>3, <2>5, <3>1, <3>2, HeaderWritten
      <3>4. \A v \in Writers : /\ part'[v] = 1 /\ queue'[v] # <<>>
                               /\ Head(queue'[v]) = written'[Len(written')]
        <4>1. (k + 1) % 3 = 1
          BY <2>5
        <4>2. queue'[w] = queue[w]
          BY <1>3, <3>1
        <4> QED BY <1>3, <1>4, <1>7, <2>2, <2>3, <3>1, <4>1, <4>2
      <3>5. StreamInv'
        <4>1. 1 \in 0 .. 2
          OBVIOUS
        <4> QED BY <3>3, <3>4, <4>1 DEF StreamInv
      <3> QED BY <1>1, <1>8, <2>4, <3>1, <3>5 DEF WireInv
    <2>6. CASE k = 1
      <3>1. /\ wire' = wire \o Body(f) /\ written' = written
            /\ queue' = [queue EXCEPT ![w] = queue[w]]
            /\ f = written[Len(written)]
        <4>1. k + 1 = 2 /\ k # 2 /\ k # 0
          BY <2>6
        <4>2. wire' = wire \o EncodeMsg(f)[2]
          BY <2>1, <4>1
        <4>3. queue' = [queue EXCEPT ![w] = queue[w]]
          BY <2>1, <4>1
        <4>4. written' = written /\ f = written[Len(written)]
          BY <1>2, <1>4, <2>1, <4>1
        <4> QED BY <1>5, <4>2, <4>3, <4>4
      <3>2. Rest' = Rest \o Body(f)
        BY <1>1, <1>3, <1>5, <3>1, RestGrows
      <3>3. /\ Placed(Rest', written', Len(delivered'), s)
            /\ Ends(Rest', written', 2, s)
        BY <1>2, <1>3, <2>6, <3>1, <3>2, BodyWritten
      <3>4. \A v \in Writers : /\ part'[v] = 2 /\ queue'[v] # <<>>
                               /\ Head(queue'[v]) = written'[Len(written')]
        <4>1. (k + 1) % 3 = 2
          BY <2>6
        <4>2. queue'[w] = queue[w]
          BY <1>3, <3>1
        <4> QED BY <1>3, <1>4, <2>2, <2>3, <3>1, <4>1, <4>2
      <3>5. StreamInv'
        <4>1. 2 \in 0 .. 2
          OBVIOUS
        <4> QED BY <3>3, <3>4, <4>1 DEF StreamInv
      <3> QED BY <1>1, <1>8, <2>4, <3>1, <3>5 DEF WireInv
    <2>7. CASE k = 2
      <3>1. /\ wire' = wire \o Payload(f) /\ written' = written
            /\ f = written[Len(written)]
        BY <1>2, <1>4, <1>5, <2>1, <2>7
      <3>2. Rest' = Rest \o Payload(f)
        BY <1>1, <1>3, <1>5, <3>1, RestGrows
      <3>3. /\ Placed(Rest', written', Len(delivered'), s)
            /\ Ends(Rest', written', 0, s)
        BY <1>2, <1>3, <2>7, <3>1, <3>2, PayloadWritten
      <3>4. \A v \in Writers : part'[v] = 0
        <4>1. (k + 1) % 3 = 0
          BY <2>7
        <4> QED BY <2>3, <4>1
      <3>5. StreamInv'
        <4>1. 0 \in 0 .. 2
          OBVIOUS
        <4> QED BY <3>3, <3>4, <4>1 DEF StreamInv
      <3> QED BY <1>1, <1>8, <2>4, <3>1, <3>5 DEF WireInv
    <2> QED BY <1>2, <2>5, <2>6, <2>7
  <1> QED BY <1>9, <1>10 DEF WriteMessage

-----------------------------------------------------------------------------
(* Reading                                                                 *)

\* Delivery moves a boundary.
LEMMA TransmitWire ==
  ASSUME WireInv, NEW n \in 1 .. Len(wire), Transmit(n)
  PROVE  WireInv'
  <1>1. TypeOK /\ TypeOK'
    BY TransmitTypes DEF WireInv
  <1>2. wire \in Bytes /\ inbox \in Bytes /\ buf \in Bytes /\ Len(wire) \in Nat
    BY <1>1, LenProperties DEF TypeOK, Bytes
  <1>3. PICK x, y : /\ x = SubSeq(wire, 1, n)
                    /\ y = SubSeq(wire, n + 1, Len(wire))
                    /\ x \in Bytes /\ y \in Bytes /\ x \o y = wire
    <2>1. n \in 0 .. Len(wire)
      BY <1>2
    <2>2. PICK x, y : /\ x = SubSeq(wire, 1, n)
                      /\ y = SubSeq(wire, n + 1, Len(wire))
      OBVIOUS
    <2>3. /\ IsPiece(x, wire, 1, n) /\ IsPiece(y, wire, n + 1, Len(wire))
          /\ x \o y = wire
      BY <1>2, <2>1, <2>2, Cut
    <2>4. x \in Bytes /\ y \in Bytes
      BY <2>3 DEF IsPiece
    <2> QED BY <2>2, <2>3, <2>4
  <1>4. /\ inbox' = inbox \o x /\ wire' = y
        /\ UNCHANGED <<receiver, buf, room, delivered>> /\ UNCHANGED sendVars
    BY <1>3 DEF Transmit, readVars
  <1>5. Rest' = Rest
    <2>1. PICK z : z = buf \o inbox /\ z \in Bytes
      BY <1>2, ConcatProperties DEF Bytes
    <2>2. (buf \o inbox) \o x = buf \o (inbox \o x)
      BY <1>2, <1>3, Regroup, Zenon
    <2>3. (z \o x) \o y = z \o (x \o y)
      BY <1>3, <2>1, Regroup, Zenon
    <2> QED BY <1>3, <1>4, <2>1, <2>2, <2>3 DEF Rest
  <1>6. ShapeInv'
    BY <1>4 DEF WireInv, ShapeInv, Allocated, sendVars
  <1> QED BY <1>1, <1>4, <1>5, <1>6, SameStream

\* The frame in front of the stream is taken: it is the next one written.
LEMMA TakeWire ==
  ASSUME WireInv, TypeOK', ShapeInv', UNCHANGED sendVars,
         NEW z \in Bytes, NEW rest, IsJoin(Rest, z, rest),
         Len(z) >= HeadSize,
         NEW x, IsJoin(Rest, x, Rest'), Rest' \in Bytes,
         Len(x) = HeadSize + z[4] + z[5], Len(x) <= Len(z),
         NEW b, IsPiece(b, z, HeadSize + 1, HeadSize + z[4]), Decodes(b),
         NEW p, IsPiece(p, z, HeadSize + z[4] + 1, Len(x)), Received(b, p)
  PROVE  WireInv'
  <1>1. queue' = queue /\ part' = part /\ written' = written /\ TypeOK
    BY DEF sendVars, WireInv
  <1>2. PICK k, s :
          /\ k \in 0 .. 2
          /\ Placed(Rest, written, Len(delivered), s)
          /\ Ends(Rest, written, k, s)
          /\ \A w \in Writers :
               /\ part[w] = k
               /\ k # 0 => /\ queue[w] # <<>>
                           /\ Head(queue[w]) = written[Len(written)]
    BY DEF WireInv, StreamInv
  <1>3. PICK d : d = Len(delivered)
    OBVIOUS
  <1>4. PICK f : f = written[d + 1]
    OBVIOUS
  <1>5. /\ d < Len(written) /\ f \in FrameRec
        /\ z[4] = f.msg /\ z[5] = PayloadLen(f)
        /\ \A j \in 1 .. FrameLen(f) : j <= Len(z) => z[j] = Byte(f, j)
    BY <1>2, <1>3, <1>4, FirstFrame
  <1>6. Len(x) = FrameLen(f)
    BY <1>5 DEF FrameLen
  <1>7. Len(z) \in Nat /\ FrameLen(f) \in Nat
    BY <1>5, FrameFacts, LenProperties DEF Bytes
  <1>8. \A j \in 1 .. FrameLen(f) : z[j] = Byte(f, j)
    BY <1>5, <1>6, <1>7
  <1>9. b[1] - 256 = f.id /\ p = Payload(f)
    BY <1>5, <1>6, <1>8, FrameRead
  <1>10. /\ d \in Nat /\ Len(delivered') = d + 1
         /\ \A i \in 1 .. d : delivered'[i] = delivered[i]
         /\ delivered'[d + 1] = [id |-> f.id, payload |-> Payload(f)]
    <2>1. b \in Bytes /\ p \in Bytes
      BY DEF IsPiece
    <2> QED BY <1>1, <1>3, <1>9, <2>1, Handover
  <1>11. Len(written) \in Nat
    BY <1>1, LenProperties DEF TypeOK
  <1>12. FramesIntact'
    <2>1. Len(delivered') <= Len(written')
      BY <1>1, <1>5, <1>10, <1>11
    <2>2. ASSUME NEW i \in 1 .. d + 1
          PROVE  delivered'[i] = [id |-> written[i].id,
                                  payload |-> Payload(written[i])]
      <3>1. CASE i = d + 1
        BY <1>4, <1>10, <3>1
      <3>2. CASE i # d + 1
        <4>1. i \in 1 .. d
          BY <1>10, <3>2
        <4> QED BY <1>3, <1>10, <4>1 DEF WireInv, FramesIntact
      <3> QED BY <3>1, <3>2
    <2> QED BY <1>1, <1>10, <2>1, <2>2 DEF FramesIntact
  <1>13. PICK t : /\ Placed(Rest', written, d + 1, t)
                  /\ t[Len(written) + 1] = s[Len(written) + 1] - Len(x)
    BY <1>2, <1>3, <1>4, <1>5, <1>6, FrameTaken
  <1>14. Ends(Rest', written, k, t)
    <2>1. /\ Len(Rest) = Len(x) + Len(Rest') /\ Len(x) \in Nat
          /\ Len(Rest') \in Nat
      BY DEF IsJoin
    <2>2. /\ k # 0 => Len(written) # 0
          /\ Len(Rest) + Missing(k, written[Len(written)]) = s[Len(written) + 1]
      BY <1>2 DEF Ends
    <2>3. Missing(k, written[Len(written)]) \in Int
      <3>1. CASE k = 0
        BY <3>1 DEF Missing
      <3>2. CASE k # 0
        <4>1. Len(written) \in 1 .. Len(written)
          BY <1>11, <2>2, <3>2
        <4>2. written[Len(written)] \in FrameRec
          BY <1>1, <4>1, ElementOfSeq DEF TypeOK
        <4>3. /\ written[Len(written)].msg \in Nat
              /\ PayloadLen(written[Len(written)]) \in Nat
          BY <4>2, FrameFacts
        <4> QED BY <3>2, <4>3 DEF Missing
      <3> QED BY <3>1, <3>2
    <2>4. PICK m, l, q, r : /\ m = Missing(k, written[Len(written)])
                            /\ l = Len(x) /\ q = Len(Rest') /\ r = Len(Rest)
      OBVIOUS
    <2>5. q + m = (r + m) - l
      BY <2>1, <2>3, <2>4
    <2>6. q + m = t[Len(written) + 1]
      BY <1>13, <2>2, <2>4, <2>5
    <2> QED BY <2>2, <2>4, <2>6 DEF Ends
  <1>15. StreamInv'
    <2>1. /\ Placed(Rest', written', Len(delivered'), t)
          /\ Ends(Rest', written', k, t)
          /\ \A w \in Writers :
               /\ part'[w] = k
               /\ k # 0 => /\ queue'[w] # <<>>
                           /\ Head(queue'[w]) = written'[Len(written')]
      BY <1>1, <1>2, <1>10, <1>13, <1>14
    <2> QED BY <1>2, <2>1 DEF StreamInv
  <1> QED BY <1>12, <1>15 DEF WireInv

\* A connection that closes takes nothing any more.
LEMMA CloseWire ==
  ASSUME WireInv, TypeOK', CloseConn, UNCHANGED <<receiver, sendVars, wire, broken>>
  PROVE  WireInv'
  <1>1. /\ UNCHANGED <<receiver, inbox, wire, buf, room, delivered>>
        /\ UNCHANGED sendVars /\ part' = part
    BY DEF CloseConn, readVars, sendVars
  <1>2. Rest' = Rest
    BY <1>1 DEF Rest
  <1>3. ShapeInv'
    BY <1>1 DEF WireInv, ShapeInv, Allocated
  <1> QED BY <1>1, <1>2, <1>3, SameStream

\* The server takes the first frame of the stream.
LEMMA ServerTakesWire ==
  ASSUME WireInv, TypeOK', receiver = "server",
         UNCHANGED <<receiver, sendVars, wire, broken>>,
         NEW total, ServerDelivers(total)
  PROVE  WireInv'
  <1>1. /\ TypeOK /\ UNCHANGED sendVars /\ part' = part
        /\ wire' = wire /\ receiver' = receiver
    BY DEF WireInv, sendVars
  <1>2. /\ buf = <<>> /\ room = NoRoom /\ \A w \in Writers : part[w] = 0
        /\ buf' = buf /\ room' = room
    BY DEF WireInv, ShapeInv, ServerDelivers, readVars
  <1>3. ShapeInv'
    BY <1>1, <1>2 DEF ShapeInv, Allocated
  <1>4. wire \in Bytes /\ inbox \in Bytes
    BY <1>1 DEF TypeOK, Bytes
  <1>5. PICK x, y, b, p :
          /\ x = SubSeq(inbox, 1, total)
          /\ y = SubSeq(inbox, total + 1, Len(inbox))
          /\ b = SubSeq(inbox, HeadSize + 1, HeadSize + inbox[4])
          /\ p = SubSeq(inbox, HeadSize + inbox[4] + 1, total)
    OBVIOUS
  <1>6. /\ total = HeadSize + inbox[4] + inbox[5]
        /\ Len(inbox) >= HeadSize /\ Len(inbox) >= total
        /\ Decodes(b) /\ Received(b, p) /\ inbox' = y
    BY <1>5 DEF ServerDelivers, CopyFrame
  <1>7. /\ total \in 0 .. Len(inbox) /\ total \in Nat
        /\ IsPiece(b, inbox, HeadSize + 1, HeadSize + inbox[4])
        /\ IsPiece(p, inbox, HeadSize + inbox[4] + 1, total)
    BY <1>1, <1>5, <1>6, ServerTakes
  <1>8. /\ IsPiece(x, inbox, 1, total)
        /\ IsPiece(y, inbox, total + 1, Len(inbox)) /\ x \o y = inbox
    BY <1>4, <1>5, <1>7, Cut
  <1>9. x \in Bytes /\ y \in Bytes /\ Len(x) = total
    BY <1>7, <1>8 DEF IsPiece
  <1>10. Rest = inbox \o wire /\ Rest' = y \o wire
    <2>1. <<>> \o inbox = inbox /\ <<>> \o y = y
      BY <1>4, <1>9, ConcatEmptySeq DEF Bytes
    <2> QED BY <1>1, <1>2, <1>6, <2>1 DEF Rest
  <1>11. IsJoin(Rest, inbox, wire)
    BY <1>4, <1>10, Joined
  <1>12. y \o wire \in Bytes
    BY <1>4, <1>9, ConcatProperties DEF Bytes
  <1>13. IsJoin(Rest, x, Rest')
    <2>1. (x \o y) \o wire = x \o (y \o wire)
      BY <1>4, <1>9, Regroup, Zenon
    <2>2. IsJoin(x \o (y \o wire), x, y \o wire)
      BY <1>9, <1>12, Joined
    <2> QED BY <1>8, <1>10, <2>1, <2>2
  <1>14. Len(x) <= Len(inbox) /\ Len(x) = HeadSize + inbox[4] + inbox[5]
    BY <1>6, <1>7, <1>9
  <1>15. IsPiece(p, inbox, HeadSize + inbox[4] + 1, Len(x))
    BY <1>7, <1>9
  <1> QED BY <1>1, <1>3, <1>4, <1>6, <1>7, <1>10, <1>11, <1>12, <1>13, <1>14,
             <1>15, TakeWire

\* The client takes the first frame of the stream.
LEMMA ClientTakesWire ==
  ASSUME WireInv, TypeOK', receiver = "client",
         UNCHANGED <<receiver, sendVars, wire, broken>>,
         Allocated, Len(buf) = HeadSize + room.msg + room.payload,
         ClientDelivers
  PROVE  WireInv'
  <1>1. /\ TypeOK /\ UNCHANGED sendVars /\ part' = part
        /\ wire' = wire /\ receiver' = receiver
    BY DEF WireInv, sendVars
  <1>2. /\ buf' = <<>> /\ room' = NoRoom /\ inbox' = inbox
    BY DEF ClientDelivers
  <1>3. ShapeInv'
    BY <1>1, <1>2 DEF ShapeInv, Allocated
  <1>4. wire \in Bytes /\ inbox \in Bytes /\ buf \in Bytes
    BY <1>1 DEF TypeOK, Bytes
  <1>5. PICK b, p : /\ b = SubSeq(buf, HeadSize + 1, HeadSize + room.msg)
                    /\ p = SubSeq(buf, HeadSize + room.msg + 1, Len(buf))
    OBVIOUS
  <1>6. Decodes(b) /\ Received(b, p)
    BY <1>5 DEF ClientDelivers
  <1>7. /\ IsPiece(b, buf, HeadSize + 1, HeadSize + room.msg)
        /\ IsPiece(p, buf, HeadSize + room.msg + 1, Len(buf))
        /\ Len(buf) \in Nat
    BY <1>1, <1>5, ClientTakes
  <1>8. Len(buf) >= HeadSize /\ room.msg = buf[4] /\ room.payload = buf[5]
    BY DEF WireInv, ShapeInv
  <1>9. inbox \o wire \in Bytes
    BY <1>4, ConcatProperties DEF Bytes
  <1>10. Rest = buf \o (inbox \o wire) /\ Rest' = inbox \o wire
    <2>1. <<>> \o inbox = inbox
      BY <1>4, ConcatEmptySeq DEF Bytes
    <2>2. (buf \o inbox) \o wire = buf \o (inbox \o wire)
      BY <1>4, Regroup, Zenon
    <2> QED BY <1>1, <1>2, <2>1, <2>2 DEF Rest
  <1>11. IsJoin(Rest, buf, Rest')
    BY <1>4, <1>9, <1>10, Joined
  <1>12. Len(buf) <= Len(buf) /\ Len(buf) = HeadSize + buf[4] + buf[5]
    BY <1>7, <1>8
  <1>13. IsPiece(b, buf, HeadSize + 1, HeadSize + buf[4])
    BY <1>7, <1>8
  <1>14. IsPiece(p, buf, HeadSize + buf[4] + 1, Len(buf))
    BY <1>7, <1>8
  <1> QED BY <1>1, <1>3, <1>4, <1>6, <1>8, <1>9, <1>10, <1>11, <1>12, <1>13,
             <1>14, TakeWire

\* Each step of the reader keeps the invariant.
LEMMA ReceiveWire ==
  ASSUME WireInv, Receive
  PROVE  WireInv'
  <1>1. TypeOK /\ TypeOK'
    BY ReceiveTypes DEF WireInv
  <1>2. CASE ReadMessage
    BY <1>1, <1>2, ReadMessageCases, CloseWire, ServerTakesWire
  <1>3. CASE ClientRead
    <2>1. /\ receiver = "client" /\ Want > 0 /\ inbox # <<>>
          /\ UNCHANGED <<receiver, sendVars, wire, broken>>
      BY <1>1, <1>3, ClientReadCases
    <2>2. CASE ClientReads
      <3>1. PICK x, y, z : /\ x = SubSeq(inbox, 1, ReadSize)
                           /\ y = SubSeq(inbox, ReadSize + 1, Len(inbox))
                           /\ z = buf \o x
        OBVIOUS
      <3>2. /\ IsPiece(x, inbox, 1, ReadSize)
            /\ IsPiece(y, inbox, ReadSize + 1, Len(inbox))
            /\ IsJoin(z, buf, x) /\ x \o y = inbox /\ Len(buf) \in Nat
            /\ Len(z) = Len(buf) + ReadSize /\ ReadSize \in Nat
        <4>1. /\ IsPiece(x, inbox, 1, ReadSize)
              /\ IsPiece(y, inbox, ReadSize + 1, Len(inbox))
              /\ IsJoin(z, buf, x) /\ Len(buf) \in Nat
              /\ Len(z) = Len(buf) + ReadSize
          BY <1>1, <2>1, <3>1, ReadTakes
        <4>2. x \o y = inbox
          BY <1>1, <2>1, <3>1, ReadTakes
        <4>3. ReadSize \in Nat
          BY <1>1, <2>1, ReadTakes
        <4> QED BY <4>1, <4>2, <4>3
      <3>3. /\ inbox' = y /\ buf' = z /\ room' = room
            /\ delivered' = delivered /\ wire' = wire /\ receiver' = receiver
        BY <2>1, <2>2, <3>1 DEF ClientReads
      <3>4. x \in Bytes /\ y \in Bytes /\ buf \in Bytes
        <4>1. x \in Bytes /\ y \in Bytes
          BY <3>2 DEF IsPiece
        <4>2. buf \in Bytes
          BY <1>1 DEF TypeOK, Bytes
        <4> QED BY <4>1, <4>2
      <3>5. Rest' = Rest
        <4>1. (buf \o x) \o y = buf \o (x \o y)
          BY <3>4, Regroup, Zenon
        <4> QED BY <3>1, <3>2, <3>3, <4>1 DEF Rest
      <3>6. ShapeInv'
        <4>1. receiver' # "server"
          BY <2>1, <3>3
        <4>2. ASSUME Allocated'
              PROVE  /\ Len(buf') >= HeadSize
                     /\ room'.msg = buf'[4] /\ room'.payload = buf'[5]
          <5>1. Allocated
            BY <3>3, <4>2 DEF Allocated
          <5>2. Len(buf) >= HeadSize /\ room.msg = buf[4] /\ room.payload = buf[5]
            BY <5>1 DEF WireInv, ShapeInv
          <5>3. 4 \in 1 .. Len(buf) /\ 5 \in 1 .. Len(buf) /\ Len(z) >= HeadSize
            BY <3>2, <5>2 DEF HeadSize
          <5>4. z[4] = buf[4] /\ z[5] = buf[5]
            BY <3>2, <5>3 DEF IsJoin
          <5> QED BY <3>3, <5>2, <5>3, <5>4
        <4> QED BY <4>1, <4>2 DEF ShapeInv
      <3> QED BY <1>1, <2>1, <3>3, <3>5, <3>6, SameStream
    <2> QED BY <1>1, <1>3, <2>1, <2>2, ClientReadCases, CloseWire
  <1>4. CASE Allocate
    <2>1. /\ receiver = "client" /\ Len(buf) = HeadSize
          /\ UNCHANGED <<receiver, sendVars, wire, broken>>
      BY <1>1, <1>4, AllocateCases
    <2>2. CASE ClientAllocates
      <3>1. /\ room' = [msg |-> buf[4], payload |-> buf[5]]
            /\ UNCHANGED <<inbox, buf, delivered, wire, receiver>>
        BY <2>1, <2>2 DEF ClientAllocates
      <3>2. Rest' = Rest
        BY <3>1 DEF Rest
      <3>3. room'.msg = buf'[4] /\ room'.payload = buf'[5] /\ Len(buf') >= HeadSize
        BY <2>1, <3>1 DEF HeadSize
      <3>4. ShapeInv'
        BY <2>1, <3>1, <3>3 DEF ShapeInv
      <3> QED BY <1>1, <2>1, <3>1, <3>2, <3>4, SameStream
    <2> QED BY <1>1, <1>4, <2>1, <2>2, AllocateCases, CloseWire
  <1>5. CASE ClientDeliver
    BY <1>1, <1>5, ClientDeliverCases, CloseWire, ClientTakesWire
  <1> QED BY <1>2, <1>3, <1>4, <1>5 DEF Receive

\* Every step keeps the invariant.
LEMMA NextWire ==
  ASSUME OneWriter, WireInv, [Next]_vars
  PROVE  WireInv'
  <1>1. TypeOK'
    BY NextTypes DEF WireInv
  <1>2. CASE Break \/ UNCHANGED vars
    <2>1. /\ UNCHANGED <<receiver, inbox, wire, buf, room, delivered>>
          /\ UNCHANGED sendVars /\ part' = part
      BY <1>2 DEF Break, vars, readVars, sendVars
    <2>2. Rest' = Rest
      BY <2>1 DEF Rest
    <2>3. ShapeInv'
      BY <2>1 DEF WireInv, ShapeInv, Allocated
    <2> QED BY <1>1, <2>1, <2>2, <2>3, SameStream
  <1> QED BY <1>2, WriteWire, TransmitWire, ReceiveWire DEF Next

\* ReadMessage, readResp and handleReceive take the frames that EncodeMsg
\* wrote, each once, in order and with their own payload, however the network
\* cuts the stream and wherever it breaks it: provided that of the goroutines
\* that share a connection to a client only one writes.
THEOREM StreamIsIntact ==
  ASSUME OneWriter
  PROVE  Spec => []FramesIntact
  <1>1. Init => WireInv
    BY InitWire
  <1>2. WireInv /\ [Next]_vars => WireInv'
    BY NextWire
  <1>3. WireInv => FramesIntact
    BY DEF WireInv
  <1> QED BY <1>1, <1>2, <1>3, PTL DEF Spec
=============================================================================

-------------------------- MODULE RpcClientProofs --------------------------
(***************************************************************************)
(* Proofs about RpcClient for any number of calls, connections and faults: *)
(* a reply reaches the call it answers, a message is never in two places,  *)
(* and the client implements Rpc, so no request is executed twice.         *)
(***************************************************************************)
EXTENDS RpcClient, FiniteSetTheorems, TLAPS

USE RpcAssumption
    DEF callVars, hubVars, connVars, sndVars, rcvVars, netVars, envVars, Set

-----------------------------------------------------------------------------
(* The inductive invariant                                                 *)

\* A handler runs only on a connection that is up.
ConnInv == \A k \in Conns : conn[k] # "up" => snd[k] = "off" /\ rcv[k] = "off"

\* genMsgID counts the calls that have been made and have not failed before it.
Made == {c \in Callers : call[c] \notin {"idle", "failed"}}
CountInv == id = Cardinality(Made)

\* Their IDs lie between 1 and id, each has its own, and resCache maps an ID
\* to the call that has it.
IdInv ==
  /\ \A c \in Made : idOf[c] \in 1 .. id
  /\ \A b, c \in Made : idOf[b] = idOf[c] => b = c
  /\ \A i \in IDs : resCache[i] # NoMsg => /\ resCache[i] \in Made
                                           /\ idOf[resCache[i]] = i
  /\ \A c \in Callers : call[c] = "wait" => resCache[idOf[c]] = c
  /\ hub = "deliver" => resCache[idOf[hubMsg]] # NoMsg

\* A message is in at most one place, place by place.
Unique ==
  \A c \in Callers :
    /\ hubMsg = c \/ c \in orphans
         => \A k \in Conns : /\ out[k] # c /\ in[k] # c
                             /\ c \notin reqs[k] /\ c \notin replies[k]
    /\ ~(hubMsg = c /\ c \in orphans)
    /\ \A j, k \in Conns :
         /\ out[j] = c => /\ in[k] # c /\ c \notin reqs[k] /\ c \notin replies[k]
                          /\ out[k] = c => j = k
         /\ in[j] = c => /\ c \notin reqs[k] /\ c \notin replies[k]
                         /\ in[k] = c => j = k
         /\ c \in reqs[j] => c \notin replies[k] /\ (c \in reqs[k] => j = k)
         /\ c \in replies[j] /\ c \in replies[k] => j = k

\* What the place of a message says: a request has not been executed, a reply
\* has been executed once, and the call it belongs to has not returned it.
Requested(c) ==
  \/ hub = "forward" /\ hubMsg = c
  \/ c \in orphans
  \/ \E k \in Conns : out[k] = c \/ c \in reqs[k]
Replied(c) ==
  \/ hub = "deliver" /\ hubMsg = c
  \/ \E k \in Conns : in[k] = c \/ c \in replies[k]
StageInv ==
  \A c \in Callers :
    /\ call[c] \in {"idle", "failed", "send"} => served[c] = 0
    /\ Requested(c) => served[c] = 0 /\ call[c] \in {"wait", "err"}
    /\ Replied(c) => served[c] = 1 /\ call[c] \in {"wait", "err"}

\* Until the first fault, restart or cancellation every connection works, no
\* request is orphaned, and the message of a waiting call is somewhere.
Calm == faults = 0 /\ ~ctxDone
CalmInv ==
  Calm => /\ token
          /\ orphans = {}
          /\ \A k \in Conns : conn[k] \in {"auth", "up"} => sock[k] = "open"
          /\ \A c \in Callers : call[c] = "wait" => Requested(c) \/ Replied(c)

IInv ==
  /\ TypeOK /\ ConnInv /\ CountInv /\ IdInv
  /\ Unique /\ StageInv /\ CalmInv /\ RightReply

-----------------------------------------------------------------------------
(* The message IDs                                                         *)

\* No ID exceeds the number of calls, so every ID has a slot in resCache.
LEMMA IdsFit ==
  ASSUME IInv, NEW c \in Made
  PROVE  idOf[c] \in IDs
PROOF
  <1>1. Made \subseteq Callers
    BY DEF Made
  <1>2. id <= Cardinality(Callers)
    BY <1>1, FS_Subset DEF IInv, CountInv
  <1> QED BY <1>1, <1>2, FS_CardinalityType DEF IInv, IdInv, TypeOK, IDs

\* The response channel that the hub finds for a reply is that of its call.
LEMMA RightChannel ==
  ASSUME IInv, hub = "deliver"
  PROVE  /\ hubMsg \in Callers /\ call[hubMsg] \in {"wait", "err"}
         /\ idOf[hubMsg] \in IDs /\ resCache[idOf[hubMsg]] = hubMsg
PROOF
  <1>1. hubMsg \in Callers /\ call[hubMsg] \in {"wait", "err"}
    BY DEF IInv, TypeOK, StageInv, Replied
  <1>2. idOf[hubMsg] \in IDs
    BY <1>1, IdsFit DEF Made
  <1>3. resCache[idOf[hubMsg]] \in Callers
    BY <1>2 DEF IInv, IdInv, TypeOK
  <1> QED BY <1>1, <1>2, <1>3 DEF IInv, IdInv, Made

\* Only a new call and the hub touch IDs, calls and resCache.
LEMMA IdFrame ==
  ASSUME [Next]_vars
  PROVE  \/ \E c \in Callers : Call(c) \/ CallFails(c) \/ CallCancelled(c) \/ HubTake(c)
         \/ \E k \in Conns : HubForward(k) \/ HubReceive(k)
         \/ HubDeliver \/ HubExit
         \/ UNCHANGED <<callVars, hubVars>>
PROOF
  <1>1. ASSUME NEW k \in Conns,
               RunConn(k) \/ HandleSend(k) \/ HandleReceive(k)
                 \/ ReceiveTimeout(k) \/ Serve(k) \/ Break(k)
        PROVE  UNCHANGED <<callVars, hubVars>>
    BY <1>1 DEF RunConn, Dial, DialGivesUp, TokenAuth, ConnWait, HandleSend,
       SendDone, SendWrite, SendIntoVoid, SendFails, HandleReceive, ReceiveTop,
       ReceiveFrame, ReceiveFails, ReceiveTimeout, Serve, Break
  <1>2. CASE ServeOrphan \/ Restart \/ Cancel
    BY <1>2 DEF ServeOrphan, Restart, Cancel
  <1> QED BY <1>1, <1>2 DEF Next, Hub, vars

\* genMsgID counts.
LEMMA CountStep == IInv /\ [Next]_vars => CountInv'
PROOF
  <1> SUFFICES ASSUME IInv, [Next]_vars PROVE CountInv'
    OBVIOUS
  <1>1. ASSUME NEW c \in Callers, Call(c) PROVE CountInv'
    <2>1. c \notin Made /\ IsFiniteSet(Made)
      BY <1>1, FS_Subset DEF Call, Made
    <2>2. Made' = Made \cup {c}
      BY <1>1 DEF Call, Made, IInv, TypeOK
    <2>3. Cardinality(Made') = Cardinality(Made) + 1
      BY <2>1, <2>2, FS_AddElement
    <2> QED BY <1>1, <2>3 DEF Call, IInv, CountInv
  <1>2. CASE Made' = Made /\ id' = id
    BY <1>2 DEF IInv, CountInv
  <1>3. ASSUME NEW c \in Callers,
               CallFails(c) \/ CallCancelled(c) \/ HubTake(c)
        PROVE  Made' = Made /\ id' = id
    BY <1>3 DEF CallFails, CallCancelled, HubTake, Made, IInv, TypeOK
  <1>4. CASE HubDeliver
    <2>1. Made' = Made /\ id' = id
      BY <1>4, RightChannel DEF HubDeliver, Made, IInv, TypeOK
    <2> QED BY <1>2, <2>1
  <1>5. ASSUME UNCHANGED callVars PROVE Made' = Made /\ id' = id
    BY <1>5 DEF Made
  <1> QED
    BY <1>1, <1>2, <1>3, <1>4, <1>5, IdFrame DEF HubForward, HubReceive, HubExit

\* The IDs stay distinct and resCache in step with the waiting calls.
LEMMA IdStep == IInv /\ [Next]_vars => IdInv'
PROOF
  <1> SUFFICES ASSUME IInv, [Next]_vars PROVE IdInv'
    OBVIOUS
  <1> USE DEF IInv, IdInv, TypeOK, Made
  <1>1. ASSUME NEW c \in Callers, Call(c) PROVE IdInv'
    <2>1. hub = "deliver" => hubMsg \in Callers \ {c}
      BY <1>1 DEF Call, StageInv, Replied
    <2> QED BY <1>1, <2>1 DEF Call
  <1>2. ASSUME NEW c \in Callers, CallFails(c) \/ CallCancelled(c)
        PROVE  IdInv'
    BY <1>2 DEF CallFails, CallCancelled
  <1>3. ASSUME NEW c \in Callers, HubTake(c) PROVE IdInv'
    <2>1. idOf[c] \in IDs
      BY <1>3, IdsFit DEF HubTake
    <2> QED BY <1>3, <2>1 DEF HubTake
  <1>4. ASSUME NEW k \in Conns, HubForward(k) PROVE IdInv'
    BY <1>4 DEF HubForward
  <1>5. ASSUME NEW k \in Conns, HubReceive(k) PROVE IdInv'
    BY <1>5 DEF HubReceive
  <1>6. CASE HubDeliver
    BY <1>6, RightChannel DEF HubDeliver
  <1>7. CASE HubExit \/ UNCHANGED <<callVars, hubVars>>
    BY <1>7 DEF HubExit
  <1> QED BY <1>1, <1>2, <1>3, <1>4, <1>5, <1>6, <1>7, IdFrame

\* Only the hub hands a reply to a call, and to the right one.
LEMMA ReplyStep == IInv /\ [Next]_vars => RightReply'
PROOF
  <1> SUFFICES ASSUME IInv, [Next]_vars PROVE RightReply'
    OBVIOUS
  <1>1. CASE HubDeliver
    BY <1>1, RightChannel DEF HubDeliver, IInv, RightReply, TypeOK
  <1>2. CASE UNCHANGED got
    BY <1>2 DEF IInv, RightReply
  <1> QED
    BY <1>1, <1>2, IdFrame
       DEF Call, CallFails, CallCancelled, HubTake, HubForward, HubReceive, HubExit

-----------------------------------------------------------------------------
(* The other parts of the invariant, action by action                      *)

\* Types are kept, and handlers run only where runConn has started them.
LEMMA TypeStep == IInv /\ [Next]_vars => (TypeOK /\ ConnInv)'
PROOF
  <1> SUFFICES ASSUME IInv, [Next]_vars PROVE (TypeOK /\ ConnInv)'
    OBVIOUS
  <1> USE DEF IInv, TypeOK, ConnInv
  <1>1. ASSUME NEW c \in Callers, Call(c) PROVE (TypeOK /\ ConnInv)'
    BY <1>1 DEF Call
  <1>2. ASSUME NEW c \in Callers, CallFails(c) \/ CallCancelled(c)
        PROVE  (TypeOK /\ ConnInv)'
    BY <1>2 DEF CallFails, CallCancelled
  <1>3. ASSUME NEW c \in Callers, HubTake(c) PROVE (TypeOK /\ ConnInv)'
    BY <1>3 DEF HubTake
  <1>4. ASSUME NEW k \in Conns, HubForward(k) PROVE (TypeOK /\ ConnInv)'
    BY <1>4 DEF HubForward
  <1>5. ASSUME NEW k \in Conns, HubReceive(k) PROVE (TypeOK /\ ConnInv)'
    BY <1>5 DEF HubReceive
  <1>6. ASSUME NEW k \in Conns, Dial(k) PROVE (TypeOK /\ ConnInv)'
    BY <1>6 DEF Dial
  <1>7. ASSUME NEW k \in Conns, DialGivesUp(k) PROVE (TypeOK /\ ConnInv)'
    BY <1>7 DEF DialGivesUp
  <1>8. ASSUME NEW k \in Conns, TokenAuth(k) PROVE (TypeOK /\ ConnInv)'
    <2>1. CASE conn'[k] = "up" /\ UNCHANGED <<sock, netVars>>
      BY <1>8, <2>1 DEF TokenAuth
    <2>2. CASE CloseConn(k) /\ UNCHANGED served
      BY <1>8, <2>2 DEF TokenAuth, CloseConn
    <2> QED BY <1>8, <2>1, <2>2 DEF TokenAuth
  <1>9. ASSUME NEW k \in Conns, ConnWait(k) PROVE (TypeOK /\ ConnInv)'
    BY <1>9 DEF ConnWait
  <1>10. ASSUME NEW k \in Conns, SendDone(k) PROVE (TypeOK /\ ConnInv)'
    BY <1>10 DEF SendDone, CloseConn
  <1>11. ASSUME NEW k \in Conns, SendWrite(k) PROVE (TypeOK /\ ConnInv)'
    BY <1>11 DEF SendWrite
  <1>12. ASSUME NEW k \in Conns, SendIntoVoid(k) PROVE (TypeOK /\ ConnInv)'
    BY <1>12 DEF SendIntoVoid
  <1>13. ASSUME NEW k \in Conns, SendFails(k) PROVE (TypeOK /\ ConnInv)'
    BY <1>13 DEF SendFails, CloseConn
  <1>14. ASSUME NEW k \in Conns, ReceiveTop(k) PROVE (TypeOK /\ ConnInv)'
    <2>1. CASE rcv'[k] = "read" /\ UNCHANGED <<sock, netVars>>
      BY <1>14, <2>1 DEF ReceiveTop
    <2>2. CASE CloseConn(k) /\ UNCHANGED served
      BY <1>14, <2>2 DEF ReceiveTop, CloseConn
    <2> QED BY <1>14, <2>1, <2>2 DEF ReceiveTop
  <1>15. ASSUME NEW k \in Conns, ReceiveFrame(k) PROVE (TypeOK /\ ConnInv)'
    BY <1>15 DEF ReceiveFrame
  <1>16. ASSUME NEW k \in Conns, ReceiveFails(k) PROVE (TypeOK /\ ConnInv)'
    BY <1>16 DEF ReceiveFails, CloseConn
  <1>17. ASSUME NEW k \in Conns, ReceiveTimeout(k) PROVE (TypeOK /\ ConnInv)'
    BY <1>17 DEF ReceiveTimeout, CloseConn
  <1>18. ASSUME NEW k \in Conns, Serve(k) PROVE (TypeOK /\ ConnInv)'
    BY <1>18 DEF Serve
  <1>19. ASSUME NEW k \in Conns, Break(k) PROVE (TypeOK /\ ConnInv)'
    BY <1>19 DEF Break
  <1>20. CASE HubDeliver
    BY <1>20 DEF HubDeliver
  <1>21. CASE HubExit
    BY <1>21 DEF HubExit
  <1>22. CASE ServeOrphan
    BY <1>22 DEF ServeOrphan
  <1>23. CASE Restart
    <2>1. token' \in BOOLEAN
      BY <1>23, Zenon DEF Restart
    <2>2. faults' \in 0 .. MaxFaults
      BY <1>23, RpcAssumption DEF Restart
    <2> QED BY <1>23, <2>1, <2>2 DEF Restart
  <1>24. CASE Cancel
    BY <1>24 DEF Cancel
  <1>25. CASE UNCHANGED vars
    BY <1>25 DEF vars
  <1> QED
    BY <1>1, <1>2, <1>3, <1>4, <1>5, <1>6, <1>7, <1>8, <1>9, <1>10,
       <1>11, <1>12, <1>13, <1>14, <1>15, <1>16, <1>17, <1>18, <1>19,
       <1>20, <1>21, <1>22, <1>23, <1>24, <1>25
       DEF Next, Hub, RunConn, HandleSend, HandleReceive

\* No step puts a message into a second place: each one takes it out of the
\* place it was in.
LEMMA UniqueStep == IInv /\ [Next]_vars => Unique'
PROOF
  <1> SUFFICES ASSUME IInv, [Next]_vars PROVE Unique'
    OBVIOUS
  <1> USE DEF IInv, TypeOK, Unique, StageInv, Requested, Replied
  <1>1. ASSUME NEW c \in Callers, Call(c) PROVE Unique'
    BY <1>1 DEF Call
  <1>2. ASSUME NEW c \in Callers, CallFails(c) \/ CallCancelled(c)
        PROVE  Unique'
    BY <1>2 DEF CallFails, CallCancelled
  <1>3. ASSUME NEW c \in Callers, HubTake(c) PROVE Unique'
    <2>1. ~Requested(c) /\ ~Replied(c)
      BY <1>3 DEF HubTake
    <2> QED BY <1>3, <2>1 DEF HubTake
  <1>4. ASSUME NEW k \in Conns, HubForward(k) PROVE Unique'
    BY <1>4 DEF HubForward
  <1>5. ASSUME NEW k \in Conns, HubReceive(k) PROVE Unique'
    BY <1>5 DEF HubReceive
  <1>6. ASSUME NEW k \in Conns, Dial(k) PROVE Unique'
    BY <1>6 DEF Dial
  <1>7. ASSUME NEW k \in Conns, DialGivesUp(k) PROVE Unique'
    BY <1>7 DEF DialGivesUp
  <1>8. ASSUME NEW k \in Conns, TokenAuth(k) PROVE Unique'
    <2>1. CASE conn'[k] = "up" /\ UNCHANGED <<sock, netVars>>
      BY <1>8, <2>1 DEF TokenAuth
    <2>2. CASE CloseConn(k) /\ UNCHANGED served
      BY <1>8, <2>2 DEF TokenAuth, CloseConn
    <2> QED BY <1>8, <2>1, <2>2 DEF TokenAuth
  <1>9. ASSUME NEW k \in Conns, ConnWait(k) PROVE Unique'
    BY <1>9 DEF ConnWait
  <1>10. ASSUME NEW k \in Conns, SendDone(k) PROVE Unique'
    BY <1>10 DEF SendDone, CloseConn
  <1>11. ASSUME NEW k \in Conns, SendWrite(k) PROVE Unique'
    BY <1>11 DEF SendWrite
  <1>12. ASSUME NEW k \in Conns, SendIntoVoid(k) PROVE Unique'
    BY <1>12 DEF SendIntoVoid
  <1>13. ASSUME NEW k \in Conns, SendFails(k) PROVE Unique'
    BY <1>13 DEF SendFails, CloseConn
  <1>14. ASSUME NEW k \in Conns, ReceiveTop(k) PROVE Unique'
    <2>1. CASE rcv'[k] = "read" /\ UNCHANGED <<sock, netVars>>
      BY <1>14, <2>1 DEF ReceiveTop
    <2>2. CASE CloseConn(k) /\ UNCHANGED served
      BY <1>14, <2>2 DEF ReceiveTop, CloseConn
    <2> QED BY <1>14, <2>1, <2>2 DEF ReceiveTop
  <1>15. ASSUME NEW k \in Conns, ReceiveFrame(k) PROVE Unique'
    BY <1>15 DEF ReceiveFrame
  <1>16. ASSUME NEW k \in Conns, ReceiveFails(k) PROVE Unique'
    BY <1>16 DEF ReceiveFails, CloseConn
  <1>17. ASSUME NEW k \in Conns, ReceiveTimeout(k) PROVE Unique'
    BY <1>17 DEF ReceiveTimeout, CloseConn
  <1>18. ASSUME NEW k \in Conns, Serve(k) PROVE Unique'
    BY <1>18 DEF Serve
  <1>19. ASSUME NEW k \in Conns, Break(k) PROVE Unique'
    BY <1>19 DEF Break
  <1>20. CASE HubDeliver
    BY <1>20 DEF HubDeliver
  <1>21. CASE HubExit
    BY <1>21 DEF HubExit
  <1>22. CASE ServeOrphan
    BY <1>22 DEF ServeOrphan
  <1>23. CASE Restart
    BY <1>23 DEF Restart
  <1>24. CASE Cancel
    BY <1>24 DEF Cancel
  <1>25. CASE UNCHANGED vars
    BY <1>25 DEF vars
  <1> QED
    BY <1>1, <1>2, <1>3, <1>4, <1>5, <1>6, <1>7, <1>8, <1>9, <1>10,
       <1>11, <1>12, <1>13, <1>14, <1>15, <1>16, <1>17, <1>18, <1>19,
       <1>20, <1>21, <1>22, <1>23, <1>24, <1>25
       DEF Next, Hub, RunConn, HandleSend, HandleReceive

\* A request is executed once, and then it is a reply.
LEMMA StageStep == IInv /\ [Next]_vars => StageInv'
PROOF
  <1> SUFFICES ASSUME IInv, [Next]_vars PROVE StageInv'
    OBVIOUS
  <1> USE DEF IInv, TypeOK, Unique, StageInv, Requested, Replied
  <1>1. ASSUME NEW c \in Callers, Call(c) PROVE StageInv'
    BY <1>1 DEF Call
  <1>2. ASSUME NEW c \in Callers, CallFails(c) \/ CallCancelled(c)
        PROVE  StageInv'
    <2>1. CASE CallFails(c)
      BY <2>1 DEF CallFails
    <2>2. CASE CallCancelled(c)
      BY <2>2 DEF CallCancelled
    <2> QED BY <1>2, <2>1, <2>2
  <1>3. ASSUME NEW c \in Callers, HubTake(c) PROVE StageInv'
    BY <1>3 DEF HubTake
  <1>4. ASSUME NEW k \in Conns, HubForward(k) PROVE StageInv'
    BY <1>4 DEF HubForward
  <1>5. ASSUME NEW k \in Conns, HubReceive(k) PROVE StageInv'
    BY <1>5 DEF HubReceive
  <1>6. ASSUME NEW k \in Conns, Dial(k) PROVE StageInv'
    BY <1>6 DEF Dial
  <1>7. ASSUME NEW k \in Conns, DialGivesUp(k) PROVE StageInv'
    BY <1>7 DEF DialGivesUp
  <1>8. ASSUME NEW k \in Conns, TokenAuth(k) PROVE StageInv'
    <2>1. CASE conn'[k] = "up" /\ UNCHANGED <<sock, netVars>>
      BY <1>8, <2>1 DEF TokenAuth
    <2>2. CASE CloseConn(k) /\ UNCHANGED served
      BY <1>8, <2>2 DEF TokenAuth, CloseConn
    <2> QED BY <1>8, <2>1, <2>2 DEF TokenAuth
  <1>9. ASSUME NEW k \in Conns, ConnWait(k) PROVE StageInv'
    BY <1>9 DEF ConnWait
  <1>10. ASSUME NEW k \in Conns, SendDone(k) PROVE StageInv'
    BY <1>10 DEF SendDone, CloseConn
  <1>11. ASSUME NEW k \in Conns, SendWrite(k) PROVE StageInv'
    BY <1>11 DEF SendWrite
  <1>12. ASSUME NEW k \in Conns, SendIntoVoid(k) PROVE StageInv'
    BY <1>12 DEF SendIntoVoid
  <1>13. ASSUME NEW k \in Conns, SendFails(k) PROVE StageInv'
    BY <1>13 DEF SendFails, CloseConn
  <1>14. ASSUME NEW k \in Conns, ReceiveTop(k) PROVE StageInv'
    <2>1. CASE rcv'[k] = "read" /\ UNCHANGED <<sock, netVars>>
      BY <1>14, <2>1 DEF ReceiveTop
    <2>2. CASE CloseConn(k) /\ UNCHANGED served
      BY <1>14, <2>2 DEF ReceiveTop, CloseConn
    <2> QED BY <1>14, <2>1, <2>2 DEF ReceiveTop
  <1>15. ASSUME NEW k \in Conns, ReceiveFrame(k) PROVE StageInv'
    BY <1>15 DEF ReceiveFrame
  <1>16. ASSUME NEW k \in Conns, ReceiveFails(k) PROVE StageInv'
    BY <1>16 DEF ReceiveFails, CloseConn
  <1>17. ASSUME NEW k \in Conns, ReceiveTimeout(k) PROVE StageInv'
    BY <1>17 DEF ReceiveTimeout, CloseConn
  <1>18. ASSUME NEW k \in Conns, Serve(k) PROVE StageInv'
    BY <1>18 DEF Serve
  <1>19. ASSUME NEW k \in Conns, Break(k) PROVE StageInv'
    BY <1>19 DEF Break
  <1>20. CASE HubDeliver
    BY <1>20, RightChannel DEF HubDeliver
  <1>21. CASE HubExit
    BY <1>21 DEF HubExit
  <1>22. CASE ServeOrphan
    BY <1>22 DEF ServeOrphan
  <1>23. CASE Restart
    BY <1>23 DEF Restart
  <1>24. CASE Cancel
    BY <1>24 DEF Cancel
  <1>25. CASE UNCHANGED vars
    BY <1>25 DEF vars
  <1> QED
    BY <1>1, <1>2, <1>3, <1>4, <1>5, <1>6, <1>7, <1>8, <1>9, <1>10,
       <1>11, <1>12, <1>13, <1>14, <1>15, <1>16, <1>17, <1>18, <1>19,
       <1>20, <1>21, <1>22, <1>23, <1>24, <1>25
       DEF Next, Hub, RunConn, HandleSend, HandleReceive

\* Nothing is lost before the first fault.
LEMMA CalmStep == IInv /\ [Next]_vars => CalmInv'
PROOF
  <1> SUFFICES ASSUME IInv, [Next]_vars PROVE CalmInv'
    OBVIOUS
  <1> USE DEF IInv, TypeOK, ConnInv, CalmInv, Calm, Requested, Replied
  <1>1. ASSUME NEW c \in Callers, Call(c) PROVE CalmInv'
    BY <1>1 DEF Call
  <1>2. ASSUME NEW c \in Callers, CallFails(c) \/ CallCancelled(c)
        PROVE  CalmInv'
    BY <1>2 DEF CallFails, CallCancelled
  <1>3. ASSUME NEW c \in Callers, HubTake(c) PROVE CalmInv'
    BY <1>3 DEF HubTake
  <1>4. ASSUME NEW k \in Conns, HubForward(k) PROVE CalmInv'
    BY <1>4 DEF HubForward
  <1>5. ASSUME NEW k \in Conns, HubReceive(k) PROVE CalmInv'
    <2>1. \A c \in Callers : call[c] = "wait" => resCache[idOf[c]] = c
      BY DEF IdInv
    <2> QED BY <1>5, <2>1 DEF HubReceive
  <1>6. ASSUME NEW k \in Conns, Dial(k) PROVE CalmInv'
    BY <1>6 DEF Dial
  <1>7. ASSUME NEW k \in Conns, DialGivesUp(k) PROVE CalmInv'
    BY <1>7 DEF DialGivesUp
  <1>8. ASSUME NEW k \in Conns, TokenAuth(k) PROVE CalmInv'
    <2>1. CASE conn'[k] = "up" /\ UNCHANGED <<sock, netVars>>
      BY <1>8, <2>1 DEF TokenAuth
    <2>2. CASE CloseConn(k) /\ UNCHANGED served
      BY <1>8, <2>2 DEF TokenAuth, CloseConn
    <2> QED BY <1>8, <2>1, <2>2 DEF TokenAuth
  <1>9. ASSUME NEW k \in Conns, ConnWait(k) PROVE CalmInv'
    BY <1>9 DEF ConnWait
  <1>10. ASSUME NEW k \in Conns, SendDone(k) PROVE CalmInv'
    BY <1>10 DEF SendDone, CloseConn
  <1>11. ASSUME NEW k \in Conns, SendWrite(k) PROVE CalmInv'
    BY <1>11 DEF SendWrite
  <1>12. ASSUME NEW k \in Conns, SendIntoVoid(k) PROVE CalmInv'
    BY <1>12 DEF SendIntoVoid
  <1>13. ASSUME NEW k \in Conns, SendFails(k) PROVE CalmInv'
    BY <1>13 DEF SendFails, CloseConn
  <1>14. ASSUME NEW k \in Conns, ReceiveTop(k) PROVE CalmInv'
    <2>1. CASE rcv'[k] = "read" /\ UNCHANGED <<sock, netVars>>
      BY <1>14, <2>1 DEF ReceiveTop
    <2>2. CASE CloseConn(k) /\ UNCHANGED served
      BY <1>14, <2>2 DEF ReceiveTop, CloseConn
    <2> QED BY <1>14, <2>1, <2>2 DEF ReceiveTop
  <1>15. ASSUME NEW k \in Conns, ReceiveFrame(k) PROVE CalmInv'
    BY <1>15 DEF ReceiveFrame
  <1>16. ASSUME NEW k \in Conns, ReceiveFails(k) PROVE CalmInv'
    BY <1>16 DEF ReceiveFails, CloseConn
  <1>17. ASSUME NEW k \in Conns, ReceiveTimeout(k) PROVE CalmInv'
    BY <1>17 DEF ReceiveTimeout, CloseConn
  <1>18. ASSUME NEW k \in Conns, Serve(k) PROVE CalmInv'
    BY <1>18 DEF Serve
  <1>19. ASSUME NEW k \in Conns, Break(k) PROVE CalmInv'
    BY <1>19 DEF Break
  <1>20. CASE HubDeliver
    BY <1>20, RightChannel DEF HubDeliver
  <1>21. CASE HubExit
    BY <1>21 DEF HubExit
  <1>22. CASE ServeOrphan
    BY <1>22 DEF ServeOrphan
  <1>23. CASE Restart
    BY <1>23 DEF Restart
  <1>24. CASE Cancel
    BY <1>24 DEF Cancel
  <1>25. CASE UNCHANGED vars
    BY <1>25 DEF vars
  <1> QED
    BY <1>1, <1>2, <1>3, <1>4, <1>5, <1>6, <1>7, <1>8, <1>9, <1>10,
       <1>11, <1>12, <1>13, <1>14, <1>15, <1>16, <1>17, <1>18, <1>19,
       <1>20, <1>21, <1>22, <1>23, <1>24, <1>25
       DEF Next, Hub, RunConn, HandleSend, HandleReceive

-----------------------------------------------------------------------------
(* The theorems                                                            *)

\* The invariant holds in every reachable state.
THEOREM InvariantHolds == Spec => []IInv
PROOF
  <1>1. Init => IInv
    <2> SUFFICES ASSUME Init PROVE IInv
      OBVIOUS
    <2>1. TypeOK /\ ConnInv
      <3>1. /\ reqs \in [Conns -> SUBSET Callers]
            /\ replies \in [Conns -> SUBSET Callers]
            /\ orphans \subseteq Callers /\ served \in [Callers -> Nat]
        BY DEF Init
      <3>2. /\ out \in [Conns -> Callers \cup {NoMsg}]
            /\ in \in [Conns -> Callers \cup {NoMsg}]
            /\ got \in [Callers -> Callers \cup {NoMsg}]
            /\ resCache \in [IDs -> Callers \cup {NoMsg}]
        BY DEF Init
      <3>3. token \in BOOLEAN /\ ctxDone \in BOOLEAN
        BY Zenon DEF Init
      <3>4. faults \in 0 .. MaxFaults
        BY DEF Init
      <3> QED BY <3>1, <3>2, <3>3, <3>4 DEF Init, TypeOK, ConnInv
    <2>2. CountInv /\ IdInv
      <3>1. Made = {}
        BY DEF Init, Made
      <3>2. CountInv
        BY <3>1, FS_EmptySet DEF Init, CountInv
      <3> QED BY <3>1, <3>2 DEF Init, IdInv
    <2>3. Unique /\ StageInv
      BY DEF Init, Unique, StageInv, Requested, Replied
    <2>4. CalmInv /\ RightReply
      BY DEF Init, CalmInv, Calm, RightReply
    <2> QED BY <2>1, <2>2, <2>3, <2>4 DEF IInv
  <1>2. IInv /\ [Next]_vars => IInv'
    BY TypeStep, CountStep, IdStep, UniqueStep, StageStep, CalmStep, ReplyStep
       DEF IInv
  <1> QED BY <1>1, <1>2, PTL DEF Spec

\* Type correctness: a hub, sender or receiver holds a message exactly while it
\* works on one.
THEOREM TypeCorrect == Spec => []TypeOK
PROOF
  <1>1. IInv => TypeOK
    BY DEF IInv
  <1> QED BY <1>1, InvariantHolds, PTL

\* Every response that processMsg delivers goes to the call whose request it
\* answers, whatever connections break and in whatever order replies arrive.
THEOREM RepliesAreRouted == Spec => []RightReply
PROOF
  <1>1. IInv => RightReply
    BY DEF IInv
  <1> QED BY <1>1, InvariantHolds, PTL

\* The message of a call is in at most one place between the hub, the pool,
\* the network and the server, and before the first fault none is lost.
THEOREM NothingIsDuplicated == Spec => []OnePlace
PROOF
  <1>1. IInv => OnePlace
    <2> SUFFICES ASSUME IInv, NEW c \in Callers
                 PROVE  /\ \A p, q \in Where(c) : p = q
                        /\ call[c] = "wait" /\ Calm => Where(c) # {}
      BY DEF OnePlace, Calm
    <2>1. \A p, q \in Where(c) : p = q
      BY DEF IInv, Unique, Where
    <2>2. ASSUME call[c] = "wait", Calm PROVE Where(c) # {}
      <3>1. Requested(c) \/ Replied(c)
        BY <2>2 DEF IInv, CalmInv
      <3>2. CASE hubMsg = c \/ c \in orphans
        BY <3>2 DEF Where
      <3>3. ASSUME NEW k \in Conns,
                   out[k] = c \/ in[k] = c \/ c \in reqs[k] \/ c \in replies[k]
            PROVE  Where(c) # {}
        <4>1. CASE out[k] = c
          <5>1. <<"out", k>> \in Where(c)
            BY <4>1 DEF Where
          <5> QED BY <5>1
        <4>2. CASE in[k] = c
          <5>1. <<"in", k>> \in Where(c)
            BY <4>2 DEF Where
          <5> QED BY <5>1
        <4>3. CASE c \in reqs[k]
          <5>1. <<"reqs", k>> \in Where(c)
            BY <4>3 DEF Where
          <5> QED BY <5>1
        <4>4. CASE c \in replies[k]
          <5>1. <<"replies", k>> \in Where(c)
            BY <4>4 DEF Where
          <5> QED BY <5>1
        <4> QED BY <3>3, <4>1, <4>2, <4>3, <4>4
      <3> QED BY <3>1, <3>2, <3>3 DEF Requested, Replied
    <2> QED BY <2>1, <2>2
  <1> QED BY <1>1, InvariantHolds, PTL

\* The client implements Rpc: however connections break, are replaced and
\* time out, a request is executed at most once, and a call returns a response
\* only after its own request was executed.
THEOREM Refinement == Spec => ImplementsRpc
PROOF
  <1>1. Init => Abstract!Init
    BY DEF Init, Abstract!Init, phase
  <1>2. IInv /\ [Next]_vars => [Abstract!Next]_Abstract!vars
    <2> SUFFICES ASSUME IInv, [Next]_vars
                 PROVE  Abstract!Next \/ UNCHANGED <<phase, served>>
      BY DEF Abstract!vars
    <2> USE DEF IInv, TypeOK
    <2>1. ASSUME NEW c \in Callers, Call(c) PROVE Abstract!Next
      <3>1. Abstract!Invoke(c)
        BY <2>1 DEF Call, Abstract!Invoke, phase
      <3> QED BY <3>1 DEF Abstract!Next
    <2>2. ASSUME NEW c \in Callers, CallCancelled(c) PROVE Abstract!Next
      <3>1. Abstract!GiveUp(c)
        BY <2>2 DEF CallCancelled, Abstract!GiveUp, phase
      <3> QED BY <3>1 DEF Abstract!Next
    <2>11. ASSUME NEW c \in Callers, CallFails(c) PROVE Abstract!Next
      <3>1. Abstract!Reject(c)
        BY <2>11 DEF CallFails, Abstract!Reject, phase
      <3> QED BY <3>1 DEF Abstract!Next
    <2>3. CASE HubDeliver
      <3>1. hubMsg \in Callers /\ call[hubMsg] = "wait" /\ served[hubMsg] = 1
        BY <2>3, RightChannel DEF HubDeliver, StageInv, Replied
      <3>2. call' = [call EXCEPT ![hubMsg] = "ok"] /\ UNCHANGED served
        BY <2>3, RightChannel DEF HubDeliver
      <3>3. phase[hubMsg] = "pending"
        BY <3>1 DEF phase
      <3>4. phase' = [phase EXCEPT ![hubMsg] = "ok"]
        BY <3>1, <3>2 DEF phase
      <3>5. Abstract!Respond(hubMsg)
        BY <3>1, <3>2, <3>3, <3>4 DEF Abstract!Respond
      <3> QED BY <3>1, <3>5 DEF Abstract!Next
    <2>4. ASSUME NEW c \in Callers, Requested(c), UNCHANGED callVars,
                 served' = Set(served, c, served[c] + 1)
          PROVE  Abstract!Next
      <3>1. served[c] = 0 /\ call[c] \in {"wait", "err"}
        BY <2>4 DEF StageInv
      <3>2. phase[c] \in {"pending", "err"}
        BY <3>1 DEF phase
      <3>3. UNCHANGED phase
        BY <2>4 DEF phase
      <3>4. served' = [served EXCEPT ![c] = 1]
        BY <2>4, <3>1
      <3>5. Abstract!Execute(c)
        BY <3>1, <3>2, <3>3, <3>4 DEF Abstract!Execute
      <3> QED BY <3>5 DEF Abstract!Next
    <2>5. ASSUME NEW k \in Conns, Serve(k) PROVE Abstract!Next
      BY <2>4, <2>5 DEF Serve, Requested
    <2>6. CASE ServeOrphan
      BY <2>4, <2>6 DEF ServeOrphan, Requested
    <2>7. ASSUME NEW c \in Callers, HubTake(c) PROVE UNCHANGED <<phase, served>>
      BY <2>7 DEF HubTake, phase
    <2>8. ASSUME UNCHANGED <<call, served>> PROVE UNCHANGED <<phase, served>>
      BY <2>8 DEF phase
    <2>9. ASSUME NEW k \in Conns,
                 \/ HubForward(k) \/ HubReceive(k) \/ RunConn(k)
                 \/ HandleSend(k) \/ HandleReceive(k) \/ ReceiveTimeout(k)
                 \/ Break(k)
          PROVE  UNCHANGED <<call, served>>
      BY <2>9 DEF HubForward, HubReceive, RunConn, Dial, DialGivesUp, TokenAuth,
         ConnWait, HandleSend, SendDone, SendWrite, SendIntoVoid, SendFails,
         HandleReceive, ReceiveTop, ReceiveFrame, ReceiveFails, ReceiveTimeout,
         Break
    <2>10. ASSUME HubExit \/ Restart \/ Cancel \/ UNCHANGED vars
           PROVE  UNCHANGED <<call, served>>
      BY <2>10 DEF HubExit, Restart, Cancel, vars
    <2> QED
      BY <2>1, <2>2, <2>3, <2>5, <2>6, <2>7, <2>8, <2>9, <2>10, <2>11
         DEF Next, Hub
  <1> QED
    BY <1>1, <1>2, InvariantHolds, PTL DEF Spec, ImplementsRpc, Abstract!Spec
=============================================================================

---------------------------- MODULE SessionProofs ----------------------------
(***************************************************************************)
(* Safety of Session for every set of workers, every number of packets and *)
(* every environment: IInv is inductive, and the invariants the runs check *)
(* follow from it.  QInv, which needs an environment without immediate     *)
(* errors other than resets, is inductive relative to IInv.                *)
(***************************************************************************)
EXTENDS Session, SequenceTheorems, TLAPS

-----------------------------------------------------------------------------
(* Types.                                                                  *)

\* An update within the range keeps a function's type.
LEMMA FunUpdate ==
  ASSUME NEW S, NEW T, NEW f \in [S -> T], NEW s \in S, NEW v \in T
  PROVE  [f EXCEPT ![s] = v] \in [S -> T]
OBVIOUS

\* FunUpdate for the two functions over the operations ...
LEMMA EventUpdate ==
  ASSUME TypeOK, NEW e \in Events
  PROVE  /\ [owner EXCEPT ![e] = TRUE] \in [Events -> BOOLEAN]
         /\ [owner EXCEPT ![e] = FALSE] \in [Events -> BOOLEAN]
         /\ \A r \in IoState : [io EXCEPT ![e] = r] \in [Events -> IoState]
BY FunUpdate DEF TypeOK

\* ... whose names and states stay hidden behind these facts in TypeStep ...
LEMMA EventNames ==
  /\ "Connect" \in Events /\ "Disconnect" \in Events
  /\ "Recv" \in Events /\ "Send" \in Events
  /\ "idle" \in IoState /\ "pending" \in IoState
  /\ "ok" \in IoState /\ "fail" \in IoState
BY DEF Events, IoState

\* ... and for the frames of the workers.
LEMMA ThreadUpdate ==
  ASSUME TypeOK, NEW t \in Workers
  PROVE  /\ \A h \in HandlerStates : [handler EXCEPT ![t] = h] \in [Workers -> HandlerStates]
         /\ \A s \in SenderStates : [sender EXCEPT ![t] = s] \in [Workers -> SenderStates]
BY FunUpdate DEF TypeOK

\* Every step preserves the types.
LEMMA TypeStep ==
  ASSUME TypeOK, [Next]_vars
  PROVE  TypeOK'
<1>. USE DEF sendVars, frames, kernel, service, CloserAt, SenderAt, HandlerAt, Idle,
        Complete, Disconnect, HandleError, SockState, HandlerStates, SenderStates,
        CloserStates
<1>1. CASE RegisterConnect
  <2>1. owner' \in [Events -> BOOLEAN]
    BY <1>1, EventUpdate, EventNames DEF RegisterConnect, TypeOK
  <2>2. io' \in [Events -> IoState]
    BY <1>1, EventUpdate, EventNames DEF RegisterConnect, TypeOK
  <2>3. sock' \in SockState
    BY <1>1, EventUpdate, EventNames DEF RegisterConnect, TypeOK
  <2>. QED
    BY <1>1, <2>1, <2>2, <2>3 DEF RegisterConnect, TypeOK
<1>2. CASE CompleteConnect
  <2>1. io' \in [Events -> IoState]
    BY <1>2, EventUpdate, EventNames DEF CompleteConnect, TypeOK
  <2>2. sock' \in SockState
    BY <1>2, EventUpdate, EventNames DEF CompleteConnect, TypeOK
  <2>. QED
    BY <1>2, <2>1, <2>2 DEF CompleteConnect, TypeOK
<1>3. CASE RecvData
  BY <1>3, EventUpdate, EventNames DEF RecvData, TypeOK
<1>4. CASE RecvEnd
  BY <1>4, EventUpdate, EventNames DEF RecvEnd, TypeOK
<1>5. CASE CompleteSend
  <2>1. io' \in [Events -> IoState]
    BY <1>5, EventUpdate, EventNames DEF CompleteSend, TypeOK
  <2>. QED
    BY <1>5, <2>1 DEF CompleteSend, TypeOK
<1>6. CASE CompleteDisconnect
  BY <1>6, EventUpdate, EventNames DEF CompleteDisconnect, TypeOK
<1>7. CASE PeerResets
  BY <1>7, EventUpdate, EventNames DEF PeerResets, TypeOK
<1>8. ASSUME NEW t \in Workers, ProcessConnect(t) PROVE TypeOK'
  BY <1>8, EventUpdate, EventNames DEF ProcessConnect, TypeOK
<1>9. ASSUME NEW t \in Workers, ProcessAccept(t) PROVE TypeOK'
  BY <1>9, EventUpdate, EventNames DEF ProcessAccept, TypeOK
<1>10. ASSUME NEW t \in Workers, ProcessRecv(t) PROVE TypeOK'
  BY <1>10, EventUpdate, EventNames DEF ProcessRecv, TypeOK
<1>11. ASSUME NEW t \in Workers, ProcessSend(t) PROVE TypeOK'
  <2>1. owner' \in [Events -> BOOLEAN]
    BY <1>11, EventUpdate, EventNames DEF ProcessSend, TypeOK
  <2>2. io' \in [Events -> IoState]
    BY <1>11, EventUpdate, EventNames DEF ProcessSend, TypeOK
  <2>3. sendBuffers' \in Seq(Nat)
    BY <1>11, EventUpdate, EventNames DEF ProcessSend, TypeOK
  <2>4. handler' \in [Workers -> HandlerStates]
    <3>1. \/ handler' = handler
          \/ handler' = [handler EXCEPT ![t] = "SendDone"]
      BY <1>11, Zenon DEF ProcessSend
    <3>. QED
      BY <3>1, ThreadUpdate DEF TypeOK
  <2>5. connected' \in BOOLEAN
    BY <1>11, EventUpdate, EventNames DEF ProcessSend, TypeOK
  <2>6. closer' \in [Workers -> CloserStates]
    BY <1>11, EventUpdate, EventNames DEF ProcessSend, TypeOK
  <2>. QED
    BY <1>11, <2>1, <2>2, <2>3, <2>4, <2>5, <2>6 DEF ProcessSend, TypeOK
<1>12. ASSUME NEW t \in Workers, ProcessDisconnect(t) PROVE TypeOK'
  BY <1>12, EventUpdate, EventNames DEF ProcessDisconnect, TypeOK
<1>13. ASSUME NEW t \in Workers, AddSession(t) PROVE TypeOK'
  BY <1>13, EventUpdate, EventNames DEF AddSession, TypeOK
<1>14. ASSUME NEW t \in Workers, CallbackReturns(t) PROVE TypeOK'
  BY <1>14, EventUpdate, EventNames DEF CallbackReturns, TypeOK
<1>15. ASSUME NEW t \in Workers, RegisterRecv(t) PROVE TypeOK'
  BY <1>15, EventUpdate, EventNames DEF RegisterRecv, TypeOK
<1>16. ASSUME NEW t \in Workers, WSARecv(t) PROVE TypeOK'
  <2>1. io' \in [Events -> IoState]
    BY <1>16, EventUpdate, EventNames DEF WSARecv, TypeOK
  <2>2. handler' \in [Workers -> HandlerStates]
    <3>1. \/ handler' = [handler EXCEPT ![t] = "none"]
          \/ handler' = [handler EXCEPT ![t] = "RecvFailed"]
      BY <1>16, Zenon DEF WSARecv
    <3>. QED
      BY <3>1, ThreadUpdate DEF TypeOK
  <2>3. connected' \in BOOLEAN
    BY <1>16, EventUpdate, EventNames DEF WSARecv, TypeOK
  <2>4. closer' \in [Workers -> CloserStates]
    BY <1>16, EventUpdate, EventNames DEF WSARecv, TypeOK
  <2>. QED
    BY <1>16, <2>1, <2>2, <2>3, <2>4 DEF WSARecv, TypeOK
<1>17. ASSUME NEW t \in Workers, RecvFailed(t) PROVE TypeOK'
  BY <1>17, EventUpdate, EventNames DEF RecvFailed, TypeOK
<1>18. ASSUME NEW t \in Workers, RegisterSend(t) PROVE TypeOK'
  BY <1>18, EventUpdate, EventNames DEF RegisterSend, TypeOK
<1>19. ASSUME NEW t \in Workers, DrainSendQueue(t) PROVE TypeOK'
  BY <1>19, EventUpdate, EventNames DEF DrainSendQueue, TypeOK
<1>20. ASSUME NEW t \in Workers, WSASend(t) PROVE TypeOK'
  <2>1. io' \in [Events -> IoState]
    BY <1>20, EventUpdate, EventNames DEF WSASend, TypeOK
  <2>2. accepted' \in Seq(Nat)
    <3>1. accepted' = accepted \/ accepted' = accepted \o sendBuffers
      BY <1>20, Zenon DEF WSASend
    <3>2. accepted \o sendBuffers \in Seq(Nat)
      BY ConcatProperties, Zenon DEF TypeOK
    <3>. QED
      BY <3>1, <3>2 DEF TypeOK
  <2>3. sender' \in [Workers -> SenderStates]
    <3>1. \/ sender' = [sender EXCEPT ![t] = "none"]
          \/ sender' = [sender EXCEPT ![t] = "SendFailed"]
      BY <1>20, Zenon DEF WSASend
    <3>. QED
      BY <3>1, ThreadUpdate DEF TypeOK
  <2>4. connected' \in BOOLEAN
    BY <1>20, EventUpdate, EventNames DEF WSASend, TypeOK
  <2>5. closer' \in [Workers -> CloserStates]
    BY <1>20, EventUpdate, EventNames DEF WSASend, TypeOK
  <2>. QED
    BY <1>20, <2>1, <2>2, <2>3, <2>4, <2>5 DEF WSASend, TypeOK
<1>21. ASSUME NEW t \in Workers, SendFailed(t) PROVE TypeOK'
  <2>1. owner' \in [Events -> BOOLEAN]
    BY <1>21, EventUpdate, EventNames DEF SendFailed, TypeOK
  <2>2. sendBuffers' \in Seq(Nat)
    BY <1>21, EventUpdate, EventNames DEF SendFailed, TypeOK
  <2>3. sender' \in [Workers -> SenderStates]
    BY <1>21, EventUpdate, EventNames DEF SendFailed, TypeOK
  <2>. QED
    BY <1>21, <2>1, <2>2, <2>3 DEF SendFailed, TypeOK
<1>22. ASSUME NEW t \in Workers, SendDone(t) PROVE TypeOK'
  BY <1>22, EventUpdate, EventNames DEF SendDone, TypeOK
<1>23. ASSUME NEW t \in Workers, ReleaseSession(t) PROVE TypeOK'
  <2>1. sessionCount' \in Int
    BY <1>23, EventUpdate, EventNames DEF ReleaseSession, TypeOK
  <2>2. closer' \in [Workers -> CloserStates]
    BY <1>23, EventUpdate, EventNames DEF ReleaseSession, TypeOK
  <2>. QED
    BY <1>23, <2>1, <2>2 DEF ReleaseSession, TypeOK
<1>24. ASSUME NEW t \in Workers, RegisterDisconnect(t) PROVE TypeOK'
  <2>1. owner' \in [Events -> BOOLEAN]
    BY <1>24, EventUpdate, EventNames DEF RegisterDisconnect, TypeOK
  <2>2. io' \in [Events -> IoState]
    BY <1>24, EventUpdate, EventNames DEF RegisterDisconnect, TypeOK
  <2>3. sock' \in SockState
    BY <1>24, EventUpdate, EventNames DEF RegisterDisconnect, TypeOK
  <2>4. closer' \in [Workers -> CloserStates]
    BY <1>24, EventUpdate, EventNames DEF RegisterDisconnect, TypeOK
  <2>. QED
    BY <1>24, <2>1, <2>2, <2>3, <2>4 DEF RegisterDisconnect, TypeOK
<1>25. ASSUME NEW t \in Workers, Send(t) PROVE TypeOK'
  BY <1>25, EventUpdate, EventNames DEF Send, TypeOK
<1>26. CASE UNCHANGED vars
  BY <1>26 DEF vars, TypeOK
<1>. QED
  BY <1>1, <1>2, <1>3, <1>4, <1>5, <1>6, <1>7, <1>8, <1>9, <1>10,
     <1>11, <1>12, <1>13, <1>14, <1>15, <1>16, <1>17, <1>18, <1>19, <1>20,
     <1>21, <1>22, <1>23, <1>24, <1>25, <1>26
  DEF Next, Dispatch, Continue, Environment

\* Every step preserves the invariant of the send path.
LEMMA SendPathStep ==
  ASSUME IInv, [Next]_vars
  PROVE  SendPath'
<1>. USE DEF IInv, Events, sendVars, frames, kernel, service, CloserAt, SenderAt,
        HandlerAt, Idle, Sending, Receiving, Complete, Disconnect, HandleError,
        WsaResult,
        TypeOK, IoState, SockState, HandlerStates, SenderStates,
           CloserStates, SendPath,
        SingleSend, SendFlag, FrameFacts, OwnerHeld, NoEmptySend, Lifetime, Birth, Reachable,
        SingleRecv, SingleClose, Unborn
<1>1. CASE RegisterConnect
  BY <1>1 DEF RegisterConnect
<1>2. CASE CompleteConnect
  BY <1>2 DEF CompleteConnect
<1>3. CASE RecvData
  BY <1>3 DEF RecvData
<1>4. CASE RecvEnd
  BY <1>4 DEF RecvEnd
<1>5. CASE CompleteSend
  BY <1>5 DEF CompleteSend
<1>6. CASE CompleteDisconnect
  BY <1>6 DEF CompleteDisconnect
<1>7. CASE PeerResets
  BY <1>7 DEF PeerResets
<1>8. ASSUME NEW t \in Workers, ProcessConnect(t) PROVE SendPath'
  BY <1>8 DEF ProcessConnect
<1>9. ASSUME NEW t \in Workers, ProcessAccept(t) PROVE SendPath'
  BY <1>9 DEF ProcessAccept
<1>10. ASSUME NEW t \in Workers, ProcessRecv(t) PROVE SendPath'
  BY <1>10 DEF ProcessRecv
<1>11. ASSUME NEW t \in Workers, ProcessSend(t) PROVE SendPath'
  BY <1>11 DEF ProcessSend
<1>12. ASSUME NEW t \in Workers, ProcessDisconnect(t) PROVE SendPath'
  BY <1>12 DEF ProcessDisconnect
<1>13. ASSUME NEW t \in Workers, AddSession(t) PROVE SendPath'
  BY <1>13 DEF AddSession
<1>14. ASSUME NEW t \in Workers, CallbackReturns(t) PROVE SendPath'
  BY <1>14 DEF CallbackReturns
<1>15. ASSUME NEW t \in Workers, RegisterRecv(t) PROVE SendPath'
  <2>1. SingleSend'
    BY <1>15 DEF RegisterRecv
  <2>2. SendFlag'
    BY <1>15 DEF RegisterRecv
  <2>3. FrameFacts'
    BY <1>15 DEF RegisterRecv
  <2>4. OwnerHeld'
    BY <1>15 DEF RegisterRecv
  <2>5. NoEmptySend'
    BY <1>15 DEF RegisterRecv
  <2>. QED
    BY <2>1, <2>2, <2>3, <2>4, <2>5 DEF SendPath
<1>16. ASSUME NEW t \in Workers, WSARecv(t) PROVE SendPath'
  <2>1. SingleSend'
    BY <1>16 DEF WSARecv
  <2>2. SendFlag'
    BY <1>16 DEF WSARecv
  <2>3. FrameFacts'
    <3>1. sender' = sender /\ sendQueue' = sendQueue /\ owner' = owner /\ sender[t] = "none"
      BY <1>16 DEF WSARecv
    <3>2. \A u \in Workers : handler'[u] # handler[u] =>
             u = t /\ handler'[u] \in {"none", "RecvFailed"}
      BY <1>16 DEF WSARecv, TypeOK
    <3>. QED
      BY <3>1, <3>2 DEF SendPath, FrameFacts
  <2>4. OwnerHeld'
    BY <1>16 DEF WSARecv
  <2>5. NoEmptySend'
    BY <1>16 DEF WSARecv
  <2>. QED
    BY <2>1, <2>2, <2>3, <2>4, <2>5 DEF SendPath
<1>17. ASSUME NEW t \in Workers, RecvFailed(t) PROVE SendPath'
  BY <1>17 DEF RecvFailed
<1>18. ASSUME NEW t \in Workers, RegisterSend(t) PROVE SendPath'
  <2>1. SingleSend'
    BY <1>18 DEF RegisterSend
  <2>2. SendFlag'
    BY <1>18 DEF RegisterSend
  <2>3. FrameFacts'
    BY <1>18 DEF RegisterSend
  <2>4. OwnerHeld'
    BY <1>18 DEF RegisterSend
  <2>5. NoEmptySend'
    BY <1>18 DEF RegisterSend
  <2>. QED
    BY <2>1, <2>2, <2>3, <2>4, <2>5 DEF SendPath
<1>19. ASSUME NEW t \in Workers, DrainSendQueue(t) PROVE SendPath'
  BY <1>19 DEF DrainSendQueue
<1>20. ASSUME NEW t \in Workers, WSASend(t) PROVE SendPath'
  <2>1. SingleSend'
    <3>1. /\ Sending(t) /\ handler' = handler /\ io["Send"] = "idle"
          /\ handler[t] # "SendDone"
      BY <1>20 DEF WSASend, SendPath, SingleSend, FrameFacts
    <3>2. \A u \in Workers \ {t} : sender'[u] = sender[u] /\ ~Sending(u)
      BY <1>20, <3>1 DEF WSASend, TypeOK, SendPath, SingleSend
    <3>3. sender'[t] = "none" \/ (io'["Send"] = "idle" /\ sender'[t] = "SendFailed")
      BY <1>20, <3>1 DEF WSASend, TypeOK
    <3>. HIDE DEF IInv, TypeOK
    <3>. QED
      BY <3>1, <3>2, <3>3 DEF SingleSend
  <2>2. SendFlag'
    BY <1>20 DEF WSASend
  <2>3. FrameFacts'
    BY <1>20 DEF WSASend
  <2>4. OwnerHeld'
    BY <1>20 DEF WSASend
  <2>5. NoEmptySend'
    BY <1>20 DEF WSASend
  <2>. QED
    BY <2>1, <2>2, <2>3, <2>4, <2>5 DEF SendPath
<1>21. ASSUME NEW t \in Workers, SendFailed(t) PROVE SendPath'
  <2>1. SingleSend'
    BY <1>21 DEF SendFailed
  <2>2. SendFlag'
    BY <1>21 DEF SendFailed
  <2>3. FrameFacts'
    BY <1>21 DEF SendFailed
  <2>4. OwnerHeld'
    BY <1>21 DEF SendFailed
  <2>5. NoEmptySend'
    BY <1>21 DEF SendFailed
  <2>. QED
    BY <2>1, <2>2, <2>3, <2>4, <2>5 DEF SendPath
<1>22. ASSUME NEW t \in Workers, SendDone(t) PROVE SendPath'
  BY <1>22 DEF SendDone
<1>23. ASSUME NEW t \in Workers, ReleaseSession(t) PROVE SendPath'
  BY <1>23 DEF ReleaseSession
<1>24. ASSUME NEW t \in Workers, RegisterDisconnect(t) PROVE SendPath'
  BY <1>24 DEF RegisterDisconnect
<1>25. ASSUME NEW t \in Workers, Send(t) PROVE SendPath'
  <2>1. SingleSend'
    BY <1>25 DEF Send
  <2>2. SendFlag'
    BY <1>25 DEF Send
  <2>3. FrameFacts'
    <3>1. sendQueue' # <<>> /\ handler' = handler /\ owner' = owner
      BY <1>25, AppendProperties DEF Send, TypeOK
    <3>2. \A u \in Workers : sender'[u] # sender[u] => u = t /\ sender'[u] = "RegisterSend"
      BY <1>25 DEF Send, TypeOK
    <3>3. handler[t] \in {"none", "Callback"}
      BY <1>25 DEF Send
    <3>. QED
      BY <3>1, <3>2, <3>3 DEF SendPath, FrameFacts
  <2>4. OwnerHeld'
    BY <1>25 DEF Send
  <2>5. NoEmptySend'
    BY <1>25 DEF Send
  <2>. QED
    BY <2>1, <2>2, <2>3, <2>4, <2>5 DEF SendPath
<1>26. CASE UNCHANGED vars
  BY <1>26 DEF vars, SendPath, SingleSend, SendFlag, FrameFacts,
     OwnerHeld, NoEmptySend
<1>. QED
  BY <1>1, <1>2, <1>3, <1>4, <1>5, <1>6, <1>7, <1>8, <1>9, <1>10,
     <1>11, <1>12, <1>13, <1>14, <1>15, <1>16, <1>17, <1>18, <1>19, <1>20,
     <1>21, <1>22, <1>23, <1>24, <1>25, <1>26
  DEF Next, Dispatch, Continue, Environment

\* Every step preserves the invariant of the session's life.
LEMMA LifetimeStep ==
  ASSUME IInv, [Next]_vars
  PROVE  Lifetime'
<1>. USE DEF IInv, Events, sendVars, frames, kernel, service, CloserAt, SenderAt,
        HandlerAt, Idle, Sending, Receiving, Complete, Disconnect, HandleError,
        WsaResult,
        TypeOK, IoState, SockState, HandlerStates, SenderStates,
        CloserStates, SendPath,
        SingleSend, SendFlag, FrameFacts, OwnerHeld, Lifetime, Birth, Reachable,
        SingleRecv, SingleClose, ReleaseOnce, Unborn
<1>1. CASE RegisterConnect
  BY <1>1 DEF RegisterConnect
<1>2. CASE CompleteConnect
  BY <1>2 DEF CompleteConnect
<1>3. CASE RecvData
  BY <1>3 DEF RecvData
<1>4. CASE RecvEnd
  BY <1>4 DEF RecvEnd
<1>5. CASE CompleteSend
  BY <1>5 DEF CompleteSend
<1>6. CASE CompleteDisconnect
  BY <1>6 DEF CompleteDisconnect
<1>7. CASE PeerResets
  BY <1>7 DEF PeerResets
<1>8. ASSUME NEW t \in Workers, ProcessConnect(t) PROVE Lifetime'
  BY <1>8 DEF ProcessConnect
<1>9. ASSUME NEW t \in Workers, ProcessAccept(t) PROVE Lifetime'
  BY <1>9 DEF ProcessAccept
<1>10. ASSUME NEW t \in Workers, ProcessRecv(t) PROVE Lifetime'
  BY <1>10 DEF ProcessRecv
<1>11. ASSUME NEW t \in Workers, ProcessSend(t) PROVE Lifetime'
  BY <1>11 DEF ProcessSend
<1>12. ASSUME NEW t \in Workers, ProcessDisconnect(t) PROVE Lifetime'
  BY <1>12 DEF ProcessDisconnect
<1>13. ASSUME NEW t \in Workers, AddSession(t) PROVE Lifetime'
  BY <1>13 DEF AddSession
<1>14. ASSUME NEW t \in Workers, CallbackReturns(t) PROVE Lifetime'
  BY <1>14 DEF CallbackReturns
<1>15. ASSUME NEW t \in Workers, RegisterRecv(t) PROVE Lifetime'
  <2>1. ReleaseOnce'
    BY <1>15 DEF RegisterRecv
  <2>2. Birth' /\ Reachable'
    BY <1>15 DEF RegisterRecv
  <2>3. SingleRecv'
    BY <1>15 DEF RegisterRecv
  <2>4. SingleClose'
    BY <1>15 DEF RegisterRecv
  <2>. QED
    BY <2>1, <2>2, <2>3, <2>4
<1>16. ASSUME NEW t \in Workers, WSARecv(t) PROVE Lifetime'
  <2>1. ReleaseOnce'
    BY <1>16 DEF WSARecv
  <2>2. Birth' /\ Reachable'
    <3>1. Birth'
      BY <1>16 DEF WSARecv
    <3>2. Reachable'
      BY <1>16 DEF WSARecv
    <3>. QED
      BY <3>1, <3>2
  <2>3. SingleRecv'
    <3>1. PICK result \in WsaResult :
            IF result = "pending"
              THEN /\ io' = [io EXCEPT !["Recv"] = "pending"]
                   /\ handler' = [handler EXCEPT ![t] = "none"]
              ELSE /\ handler' = [handler EXCEPT ![t] = "RecvFailed"]
                   /\ UNCHANGED io
      BY <1>16 DEF WSARecv
    <3>2. /\ handler[t] = "WSARecv" /\ SingleRecv
          /\ handler \in [Workers -> HandlerStates] /\ io \in [Events -> IoState]
      BY <1>16 DEF WSARecv
    <3>. HIDE DEF IInv, TypeOK, SendPath, Lifetime
    <3>3. CASE result = "pending"
      BY <3>1, <3>2, <3>3
    <3>4. CASE result # "pending"
      BY <3>1, <3>2, <3>4
    <3>. QED
      BY <3>3, <3>4
  <2>4. SingleClose'
    BY <1>16 DEF WSARecv
  <2>. QED
    BY <2>1, <2>2, <2>3, <2>4
<1>17. ASSUME NEW t \in Workers, RecvFailed(t) PROVE Lifetime'
  BY <1>17 DEF RecvFailed
<1>18. ASSUME NEW t \in Workers, RegisterSend(t) PROVE Lifetime'
  BY <1>18 DEF RegisterSend
<1>19. ASSUME NEW t \in Workers, DrainSendQueue(t) PROVE Lifetime'
  BY <1>19 DEF DrainSendQueue
<1>20. ASSUME NEW t \in Workers, WSASend(t) PROVE Lifetime'
  BY <1>20 DEF WSASend
<1>21. ASSUME NEW t \in Workers, SendFailed(t) PROVE Lifetime'
  BY <1>21 DEF SendFailed
<1>22. ASSUME NEW t \in Workers, SendDone(t) PROVE Lifetime'
  BY <1>22 DEF SendDone
<1>23. ASSUME NEW t \in Workers, ReleaseSession(t) PROVE Lifetime'
  BY <1>23 DEF ReleaseSession
<1>24. ASSUME NEW t \in Workers, RegisterDisconnect(t) PROVE Lifetime'
  BY <1>24 DEF RegisterDisconnect
<1>25. ASSUME NEW t \in Workers, Send(t) PROVE Lifetime'
  BY <1>25 DEF Send
<1>26. CASE UNCHANGED vars
  BY <1>26 DEF vars, Lifetime, Birth, Reachable, SingleRecv, SingleClose,
     ReleaseOnce, Unborn
<1>. QED
  BY <1>1, <1>2, <1>3, <1>4, <1>5, <1>6, <1>7, <1>8, <1>9, <1>10,
     <1>11, <1>12, <1>13, <1>14, <1>15, <1>16, <1>17, <1>18, <1>19, <1>20,
     <1>21, <1>22, <1>23, <1>24, <1>25, <1>26
  DEF Next, Dispatch, Continue, Environment

\* Every step leaves a set flag with somebody to clear it.
LEMMA FlagStep ==
  ASSUME IInv, FlagHasSender, [Next]_vars
  PROVE  FlagHasSender'
<1>. USE DEF IInv, Events, sendVars, frames, kernel, service, CloserAt, SenderAt,
        HandlerAt, Idle, Sending, Complete, Disconnect, HandleError, WsaResult,
        TypeOK, IoState, HandlerStates, SenderStates, SendPath, SingleSend, FrameFacts,
        FlagHasSender, Lifetime, Birth, Reachable, Unborn
\* Frames that are not in the send path.
<1>0. ASSUME UNCHANGED <<sendRegistered, sender>>, connected' => connected,
             io'["Send"] = io["Send"],
             \A u \in Workers : handler[u] = "SendDone" => handler'[u] = "SendDone"
      PROVE  FlagHasSender'
  BY <1>0
<1>1. CASE RegisterConnect
  BY <1>1 DEF RegisterConnect
<1>2. CASE CompleteConnect
  BY <1>2 DEF CompleteConnect
<1>3. CASE RecvData \/ RecvEnd \/ CompleteSend \/ CompleteDisconnect \/ PeerResets
  <2>1. UNCHANGED <<connected, sendRegistered, sender, handler>>
    BY <1>3 DEF RecvData, RecvEnd, CompleteSend, CompleteDisconnect, PeerResets
  <2>2. io["Send"] # "idle" => io'["Send"] # "idle"
    BY <1>3 DEF RecvData, RecvEnd, CompleteSend, CompleteDisconnect, PeerResets
  <2>. QED
    BY <2>1, <2>2
<1>4. ASSUME NEW t \in Workers, ProcessConnect(t) \/ ProcessAccept(t) PROVE FlagHasSender'
  BY <1>4 DEF ProcessConnect, ProcessAccept
<1>5. ASSUME NEW t \in Workers, ProcessRecv(t) \/ ProcessDisconnect(t) PROVE FlagHasSender'
  <2>1. /\ UNCHANGED <<sendRegistered, sender>> /\ (connected' => connected)
        /\ io'["Send"] = io["Send"]
    BY <1>5 DEF ProcessRecv, ProcessDisconnect
  <2>2. handler[t] = "none" /\ \A u \in Workers \ {t} : handler'[u] = handler[u]
    BY <1>5 DEF ProcessRecv, ProcessDisconnect
  <2>. QED
    BY <1>0, <2>1, <2>2
<1>6. ASSUME NEW t \in Workers, ProcessSend(t) PROVE FlagHasSender'
  <2>1. CASE handler'[t] = "SendDone"
    BY <2>1
  <2>2. CASE ~connected'
    BY <2>2
  <2>3. handler'[t] = "SendDone" \/ ~connected'
    BY <1>6 DEF ProcessSend
  <2>. QED
    BY <2>1, <2>2, <2>3
<1>7. ASSUME NEW t \in Workers, AddSession(t) \/ CallbackReturns(t) \/ RegisterRecv(t) \/ RecvFailed(t)
      PROVE  FlagHasSender'
  <2>1. UNCHANGED <<sendRegistered, sender, connected, io>>
    BY <1>7 DEF AddSession, CallbackReturns, RegisterRecv, RecvFailed
  <2>2. handler[t] # "SendDone" /\ \A u \in Workers \ {t} : handler'[u] = handler[u]
    BY <1>7 DEF AddSession, CallbackReturns, RegisterRecv, RecvFailed
  <2>. QED
    BY <1>0, <2>1, <2>2
<1>8. ASSUME NEW t \in Workers, WSARecv(t) PROVE FlagHasSender'
  <2>1. /\ UNCHANGED <<sendRegistered, sender>> /\ (connected' => connected)
        /\ io'["Send"] = io["Send"]
    BY <1>8 DEF WSARecv
  <2>2. handler[t] # "SendDone" /\ \A u \in Workers \ {t} : handler'[u] = handler[u]
    BY <1>8 DEF WSARecv
  <2>. QED
    BY <1>0, <2>1, <2>2
<1>9. ASSUME NEW t \in Workers, RegisterSend(t) PROVE FlagHasSender'
  BY <1>9 DEF RegisterSend
<1>10. ASSUME NEW t \in Workers, DrainSendQueue(t) PROVE FlagHasSender'
  BY <1>10 DEF DrainSendQueue
<1>11. ASSUME NEW t \in Workers, WSASend(t) PROVE FlagHasSender'
  <2>1. CASE io'["Send"] = "pending"
    BY <2>1
  <2>2. CASE sender'[t] = "SendFailed"
    BY <2>2
  <2>3. io'["Send"] = "pending" \/ sender'[t] = "SendFailed"
    BY <1>11 DEF WSASend
  <2>. QED
    BY <2>1, <2>2, <2>3
<1>12. ASSUME NEW t \in Workers, SendFailed(t) PROVE FlagHasSender'
  BY <1>12 DEF SendFailed
<1>13. ASSUME NEW t \in Workers, SendDone(t) PROVE FlagHasSender'
  <2>1. CASE ~sendRegistered'
    BY <2>1
  <2>2. CASE sender'[t] = "RegisterSend"
    BY <2>2
  <2>3. ~sendRegistered' \/ sender'[t] = "RegisterSend"
    BY <1>13 DEF SendDone
  <2>. QED
    BY <2>1, <2>2, <2>3
<1>14. ASSUME NEW t \in Workers, ReleaseSession(t) \/ RegisterDisconnect(t) PROVE FlagHasSender'
  <2>1. /\ UNCHANGED <<connected, sendRegistered, sender, handler>>
        /\ io'["Send"] = io["Send"]
    BY <1>14 DEF ReleaseSession, RegisterDisconnect
  <2>. QED
    BY <1>0, <2>1
<1>15. ASSUME NEW t \in Workers, Send(t) PROVE FlagHasSender'
  BY <1>15 DEF Send
<1>16. CASE UNCHANGED vars
  BY <1>16 DEF vars
<1>. QED
  BY <1>1, <1>2, <1>3, <1>4, <1>5, <1>6, <1>7, <1>8, <1>9, <1>10, <1>11, <1>12, <1>13, <1>14,
     <1>15, <1>16
  DEF Next, Dispatch, Continue, Environment

\* In a quiet environment every step keeps a connected session served.
LEMMA QuietStep ==
  ASSUME Quiet, IInv, QInv, [Next]_vars
  PROVE  QInv'
<1>. USE DEF IInv, Events, sendVars, frames, kernel, service, CloserAt, SenderAt,
        HandlerAt, Idle, Sending, Receiving, Complete, Disconnect, HandleError,
        WsaResult,
        TypeOK, IoState, SockState, HandlerStates, SenderStates,
        CloserStates, SendPath,
        SingleSend, SendFlag, FrameFacts, Lifetime, Birth, Reachable, SingleRecv,
        SingleClose, Unborn, Quiet, QInv, Served, ReceiveArmed,
        FlagHasSender
<1>1. CASE RegisterConnect
  BY <1>1 DEF RegisterConnect
<1>2. CASE CompleteConnect
  BY <1>2 DEF CompleteConnect
<1>3. CASE RecvData
  BY <1>3 DEF RecvData
<1>4. CASE RecvEnd
  BY <1>4 DEF RecvEnd
<1>5. CASE CompleteSend
  BY <1>5 DEF CompleteSend
<1>6. CASE CompleteDisconnect
  BY <1>6 DEF CompleteDisconnect
<1>7. CASE PeerResets
  BY <1>7 DEF PeerResets
<1>8. ASSUME NEW t \in Workers, ProcessConnect(t) PROVE QInv'
  BY <1>8 DEF ProcessConnect
<1>9. ASSUME NEW t \in Workers, ProcessAccept(t) PROVE QInv'
  BY <1>9 DEF ProcessAccept
<1>10. ASSUME NEW t \in Workers, ProcessRecv(t) PROVE QInv'
  BY <1>10 DEF ProcessRecv
<1>11. ASSUME NEW t \in Workers, ProcessSend(t) PROVE QInv'
  BY <1>11 DEF ProcessSend
<1>12. ASSUME NEW t \in Workers, ProcessDisconnect(t) PROVE QInv'
  BY <1>12 DEF ProcessDisconnect
<1>13. ASSUME NEW t \in Workers, AddSession(t) PROVE QInv'
  BY <1>13 DEF AddSession
<1>14. ASSUME NEW t \in Workers, CallbackReturns(t) PROVE QInv'
  BY <1>14 DEF CallbackReturns
<1>15. ASSUME NEW t \in Workers, RegisterRecv(t) PROVE QInv'
  BY <1>15 DEF RegisterRecv
<1>16. ASSUME NEW t \in Workers, WSARecv(t) PROVE QInv'
  BY <1>16 DEF WSARecv
<1>17. ASSUME NEW t \in Workers, RecvFailed(t) PROVE QInv'
  BY <1>17 DEF RecvFailed
<1>18. ASSUME NEW t \in Workers, RegisterSend(t) PROVE QInv'
  BY <1>18 DEF RegisterSend
<1>19. ASSUME NEW t \in Workers, DrainSendQueue(t) PROVE QInv'
  BY <1>19 DEF DrainSendQueue
<1>20. ASSUME NEW t \in Workers, WSASend(t) PROVE QInv'
  BY <1>20 DEF WSASend
<1>21. ASSUME NEW t \in Workers, SendFailed(t) PROVE QInv'
  BY <1>21 DEF SendFailed
<1>22. ASSUME NEW t \in Workers, SendDone(t) PROVE QInv'
  BY <1>22 DEF SendDone
<1>23. ASSUME NEW t \in Workers, ReleaseSession(t) PROVE QInv'
  BY <1>23 DEF ReleaseSession
<1>24. ASSUME NEW t \in Workers, RegisterDisconnect(t) PROVE QInv'
  BY <1>24 DEF RegisterDisconnect
<1>25. ASSUME NEW t \in Workers, Send(t) PROVE QInv'
  BY <1>25 DEF Send
<1>26. CASE UNCHANGED vars
  BY <1>26 DEF vars, QInv, Served, ReceiveArmed
<1>. QED
  BY <1>1, <1>2, <1>3, <1>4, <1>5, <1>6, <1>7, <1>8, <1>9, <1>10,
     <1>11, <1>12, <1>13, <1>14, <1>15, <1>16, <1>17, <1>18, <1>19, <1>20,
     <1>21, <1>22, <1>23, <1>24, <1>25, <1>26
  DEF Next, Dispatch, Continue, Environment
-----------------------------------------------------------------------------
\* A session just constructed satisfies the invariant.
LEMMA InitInv == Init => IInv
<1>. SUFFICES ASSUME Init PROVE IInv
  OBVIOUS
<1>1. TypeOK
  <2>1. /\ connected \in BOOLEAN /\ sendRegistered \in BOOLEAN
        /\ published \in BOOLEAN /\ inService \in BOOLEAN
    BY DEF Init
  <2>2. owner \in [Events -> BOOLEAN] /\ io \in [Events -> IoState]
    BY EventNames DEF Init
  <2>3. /\ handler \in [Workers -> HandlerStates]
        /\ sender \in [Workers -> SenderStates]
        /\ closer \in [Workers -> CloserStates]
    BY DEF Init, HandlerStates, SenderStates, CloserStates
  <2>. QED
    BY <2>1, <2>2, <2>3, EmptySeq DEF Init, TypeOK, SockState
<1>2. SendPath
  BY DEF Init, Events, SendPath, SingleSend, SendFlag, FrameFacts, OwnerHeld,
     NoEmptySend, Sending
<1>3. Lifetime
  BY DEF Init, Events, Lifetime, SingleRecv, Birth, Reachable, SingleClose,
     ReleaseOnce, Receiving, Unborn
<1>. QED
  BY <1>1, <1>2, <1>3 DEF IInv

\* Every variable keeps its type, whatever the workers and the kernel do.
THEOREM TypeCorrect == Spec => []TypeOK
<1>1. Init => TypeOK
  BY InitInv DEF IInv
<1>2. TypeOK /\ [Next]_vars => TypeOK'
  BY TypeStep
<1>. QED
  BY <1>1, <1>2, PTL DEF Spec

\* The inductive invariant holds for every set of workers and any bound.
THEOREM Invariance == Spec => []IInv
<1>1. IInv /\ [Next]_vars => IInv'
  BY TypeStep, SendPathStep, LifetimeStep DEF IInv
<1>. QED
  BY InitInv, <1>1, PTL DEF Spec

\* At most one user of the send event, whatever the interleaving of Send,
\* RegisterSend and ProcessSend.
THEOREM SendExclusion == Spec => [](SingleSend /\ NoEmptySend)
<1>1. IInv => SingleSend /\ NoEmptySend
  BY DEF IInv, SendPath
<1>. QED
  BY <1>1, Invariance, PTL

\* Dispatch never dereferences a null owner.
THEOREM OwnerSafety == Spec => []OwnerHeld
<1>1. IInv => OwnerHeld
  BY DEF IInv, SendPath
<1>. QED
  BY <1>1, Invariance, PTL

\* ReleaseSession's assertion holds and the session count is exact.
THEOREM ReleaseSafety == Spec => []ReleaseOnce
<1>1. IInv => ReleaseOnce
  BY DEF IInv, Lifetime
<1>. QED
  BY <1>1, Invariance, PTL

\* A connected session whose _sendRegistered is set has somebody who will clear it or
\* send again, whatever error a send failed with.
THEOREM FlagCleared == Spec => []FlagHasSender
<1>1. Init => FlagHasSender
  BY DEF Init, FlagHasSender
<1>2. IInv /\ FlagHasSender /\ [Next]_vars => FlagHasSender'
  BY FlagStep
<1>. QED
  BY <1>1, <1>2, Invariance, PTL DEF Spec

\* In a quiet environment no packet is left behind in the queue of a connected
\* session, and its receive stays armed.
THEOREM QuietService ==
  ASSUME Quiet
  PROVE  Spec => [](NoStrandedPacket /\ ReceiveArmed)
<1>1. Init => QInv
  BY DEF Init, QInv, Served, FlagHasSender, ReceiveArmed, Events
<1>2. IInv /\ QInv /\ [Next]_vars => QInv'
  BY QuietStep
<1>3. QInv => NoStrandedPacket /\ ReceiveArmed
  BY DEF QInv, Served, FlagHasSender, NoStrandedPacket
<1>. QED
  BY <1>1, <1>2, <1>3, Invariance, PTL DEF Spec

-----------------------------------------------------------------------------
(* The refinement of SendChannel.                                          *)

\* Whoever empties, fills or posts the send event is alone with it, and a
\* socket closes after its session did.
LEMMA RefineInvStep ==
  ASSUME IInv, RInv, [Next]_vars
  PROVE  RInv'
<1>. USE DEF IInv, Events, sendVars, frames, kernel, service, CloserAt, SenderAt,
        HandlerAt, Idle, Sending, Complete, Disconnect, HandleError, WsaResult,
        TypeOK, IoState, SockState, HandlerStates, SenderStates, CloserStates, SendPath,
        SingleSend, Lifetime, Birth, Reachable, SingleClose, Unborn, RInv, Emptied, SockLife
<1>1. CASE RegisterConnect
  BY <1>1 DEF RegisterConnect
<1>2. CASE CompleteConnect
  BY <1>2 DEF CompleteConnect
<1>3. CASE RecvData \/ RecvEnd \/ CompleteSend \/ CompleteDisconnect \/ PeerResets
  BY <1>3 DEF RecvData, RecvEnd, CompleteSend, CompleteDisconnect, PeerResets
<1>4. ASSUME NEW t \in Workers, ProcessConnect(t) PROVE RInv'
  BY <1>4 DEF ProcessConnect
<1>5. ASSUME NEW t \in Workers, ProcessAccept(t) PROVE RInv'
  BY <1>5 DEF ProcessAccept
<1>6. ASSUME NEW t \in Workers, ProcessRecv(t) PROVE RInv'
  BY <1>6 DEF ProcessRecv
<1>7. ASSUME NEW t \in Workers, ProcessSend(t) PROVE RInv'
  BY <1>7 DEF ProcessSend
<1>8. ASSUME NEW t \in Workers, ProcessDisconnect(t) PROVE RInv'
  BY <1>8 DEF ProcessDisconnect
<1>9. ASSUME NEW t \in Workers, AddSession(t) \/ CallbackReturns(t) \/ RegisterRecv(t) \/ RecvFailed(t)
      PROVE  RInv'
  BY <1>9 DEF AddSession, CallbackReturns, RegisterRecv, RecvFailed
<1>10. ASSUME NEW t \in Workers, WSARecv(t) PROVE RInv'
  BY <1>10 DEF WSARecv
<1>11. ASSUME NEW t \in Workers, RegisterSend(t) PROVE RInv'
  BY <1>11 DEF RegisterSend
<1>12. ASSUME NEW t \in Workers, DrainSendQueue(t) PROVE RInv'
  BY <1>12 DEF DrainSendQueue
<1>13. ASSUME NEW t \in Workers, WSASend(t) PROVE RInv'
  BY <1>13 DEF WSASend
<1>14. ASSUME NEW t \in Workers, SendFailed(t) PROVE RInv'
  BY <1>14 DEF SendFailed
<1>15. ASSUME NEW t \in Workers, SendDone(t) PROVE RInv'
  BY <1>15 DEF SendDone
<1>16. ASSUME NEW t \in Workers, ReleaseSession(t) PROVE RInv'
  BY <1>16 DEF ReleaseSession
<1>17. ASSUME NEW t \in Workers, RegisterDisconnect(t) PROVE RInv'
  BY <1>17 DEF RegisterDisconnect
<1>18. ASSUME NEW t \in Workers, Send(t) PROVE RInv'
  BY <1>18 DEF Send
<1>19. CASE UNCHANGED vars
  BY <1>19 DEF vars
<1>. QED
  BY <1>1, <1>2, <1>3, <1>4, <1>5, <1>6, <1>7, <1>8, <1>9, <1>10, <1>11, <1>12, <1>13, <1>14,
     <1>15, <1>16, <1>17, <1>18, <1>19
  DEF Next, Dispatch, Continue, Environment

\* Taking a prefix off the packets that wait.
LEMMA PrefixOff ==
  ASSUME NEW a \in Seq(Nat), NEW q \in Seq(Nat)
  PROVE  /\ a \o q \in Seq(Nat) /\ Len(a) \in 0 .. Len(a \o q)
         /\ SubSeq(a \o q, 1, Len(a)) = a
         /\ SubSeq(a \o q, Len(a) + 1, Len(a \o q)) = q
         /\ SubSeq(q, 1, Len(q)) = q
<1>1. /\ a \o q \in Seq(Nat) /\ Len(a \o q) = Len(a) + Len(q) /\ Len(a) \in Nat /\ Len(q) \in Nat
      /\ \A n \in 1 .. Len(a) + Len(q) : (a \o q)[n] = IF n <= Len(a) THEN a[n] ELSE q[n - Len(a)]
  BY ConcatProperties
<1>. DEFINE c == a \o q
<1>. HIDE DEF c
<1>2. c \in Seq(Nat) /\ Len(c) = Len(a) + Len(q)
      /\ \A n \in 1 .. Len(a) + Len(q) : c[n] = IF n <= Len(a) THEN a[n] ELSE q[n - Len(a)]
  BY <1>1 DEF c
<1>3. SubSeq(c, 1, Len(a)) = a
  <2>1. SubSeq(c, 1, Len(a)) \in Seq(Nat) /\ Len(SubSeq(c, 1, Len(a))) = Len(a)
        /\ \A n \in 1 .. Len(a) : SubSeq(c, 1, Len(a))[n] = c[n]
    BY <1>1, <1>2
  <2>. QED
    BY <1>1, <1>2, <2>1, SeqEqual
<1>4. SubSeq(c, Len(a) + 1, Len(c)) = q
  <2>1. SubSeq(c, Len(a) + 1, Len(c)) \in Seq(Nat) /\ Len(SubSeq(c, Len(a) + 1, Len(c))) = Len(q)
        /\ \A n \in 1 .. Len(q) : SubSeq(c, Len(a) + 1, Len(c))[n] = c[Len(a) + n]
    BY <1>1, <1>2
  <2>2. ASSUME NEW n \in 1 .. Len(q)
        PROVE  c[Len(a) + n] = q[n]
    <3>1. Len(a) + n \in 1 .. Len(a) + Len(q) /\ ~(Len(a) + n <= Len(a)) /\ (Len(a) + n) - Len(a) = n
      BY <1>1
    <3>. QED
      BY <1>2, <3>1
  <2>. QED
    BY <1>1, <2>1, <2>2, SeqEqual
<1>5. SubSeq(q, 1, Len(q)) = q
  <2>1. SubSeq(q, 1, Len(q)) \in Seq(Nat) /\ Len(SubSeq(q, 1, Len(q))) = Len(q)
        /\ \A n \in 1 .. Len(q) : SubSeq(q, 1, Len(q))[n] = q[n]
    BY <1>1
  <2>. QED
    BY <1>1, <2>1, SeqEqual
<1>. QED
  BY <1>1, <1>3, <1>4, <1>5 DEF c

\* Nothing moves, and the channel may break: what Disconnect shows.
LEMMA StaysOrBreaks ==
  ASSUME TypeOK, UNCHANGED <<Waiting, sent, accepted>>, IsOpen' = IsOpen \/ ~IsOpen'
  PROVE  [Channel!Next]_(Channel!chanVars)
<1>1. Waiting \in Seq(Nat)
  BY PrefixOff, EmptySeq DEF Waiting, Unsent, TypeOK
<1>2. 0 \in 0 .. Len(Waiting) /\ Waiting = SubSeq(Waiting, 0 + 1, Len(Waiting))
  BY <1>1, PrefixOff
<1>3. CASE ~IsOpen'
  <2>1. Channel!Break
    BY <1>2, <1>3 DEF Channel!Break
  <2>. QED
    BY <2>1 DEF Channel!Next
<1>4. CASE IsOpen' = IsOpen
  BY <1>4 DEF Channel!chanVars
<1>. QED
  BY <1>3, <1>4

\* The packets that wait, when nobody comes to or leaves WSASend.
LEMMA WaitingStays ==
  ASSUME UNCHANGED sendQueue,
         UNCHANGED sendBuffers \/ \A t \in Workers : sender[t] # "WSASend",
         \A t \in Workers : sender'[t] = "WSASend" <=> sender[t] = "WSASend"
  PROVE  UNCHANGED Waiting
BY DEF Waiting, Unsent

LEMMA ChannelStep ==
  ASSUME IInv, RInv, [Next]_vars
  PROVE  [Channel!Next]_(Channel!chanVars)
<1>. USE DEF CloserAt, SenderAt, HandlerAt, Idle, sendVars, frames, kernel, service, Complete
<1>0. TypeOK /\ SingleSend /\ \A t, u \in Workers : sender[t] # "none" /\ sender[u] # "none" => t = u
  BY DEF IInv, SendPath, SingleSend, Sending
\* Frames that are not in the send path.
<1>1. ASSUME UNCHANGED <<sendVars, sender>>, IsOpen' = IsOpen \/ ~IsOpen'
      PROVE  [Channel!Next]_(Channel!chanVars)
  BY <1>0, <1>1, WaitingStays, StaysOrBreaks
<1>2. CASE RegisterConnect \/ CompleteConnect
  <2>1. ~connected /\ ~connected'
    BY <1>2 DEF RegisterConnect, CompleteConnect, IInv, Lifetime, Birth, Unborn, IoState
  <2>. QED
    BY <1>1, <1>2, <2>1 DEF RegisterConnect, CompleteConnect, IsOpen
<1>3. CASE RecvData \/ RecvEnd \/ CompleteSend \/ CompleteDisconnect \/ PeerResets
  BY <1>1, <1>3 DEF RecvData, RecvEnd, CompleteSend, CompleteDisconnect, PeerResets, IsOpen
<1>4. ASSUME NEW t \in Workers,
             ProcessDisconnect(t) \/ AddSession(t) \/ CallbackReturns(t) \/ RegisterRecv(t)
             \/ RecvFailed(t) \/ ReleaseSession(t)
      PROVE  [Channel!Next]_(Channel!chanVars)
  BY <1>1, <1>4 DEF ProcessDisconnect, AddSession, CallbackReturns, RegisterRecv, RecvFailed,
     ReleaseSession, IsOpen
<1>5. ASSUME NEW t \in Workers, RegisterDisconnect(t) PROVE [Channel!Next]_(Channel!chanVars)
  <2>1. ~connected /\ ~connected'
    BY <1>5 DEF RegisterDisconnect, IInv, Lifetime, SingleClose
  <2>. QED
    BY <1>1, <1>5, <2>1 DEF RegisterDisconnect, IsOpen
<1>6. ASSUME NEW t \in Workers, ProcessRecv(t) \/ WSARecv(t) PROVE [Channel!Next]_(Channel!chanVars)
  <2>1. (UNCHANGED connected \/ ~connected') /\ UNCHANGED <<sendVars, sender, sock>>
    BY <1>6 DEF ProcessRecv, WSARecv, HandleError, Disconnect
  <2>. QED
    BY <1>1, <2>1 DEF IsOpen
\* The connection is there.
<1>7. ASSUME NEW t \in Workers, ProcessConnect(t) \/ ProcessAccept(t)
      PROVE  [Channel!Next]_(Channel!chanVars)
  <2>1. ~IsOpen /\ UNCHANGED <<sendVars, sender>>
    BY <1>7 DEF ProcessConnect, ProcessAccept, IInv, Lifetime, Birth, Unborn, IsOpen
  <2>2. UNCHANGED Waiting
    BY <2>1, WaitingStays
  <2>3. CASE IsOpen'
    <3>1. Channel!Open
      <4>1. IsOpen' = TRUE
        BY <2>3, Zenon DEF IsOpen
      <4>. QED
        BY <2>1, <2>2, <4>1 DEF Channel!Open
    <3>. QED
      BY <3>1 DEF Channel!Next
  <2>4. CASE ~IsOpen'
    BY <1>1, <2>1, <2>4
  <2>. QED
    BY <2>3, <2>4
\* The send path.
<1>8. ASSUME NEW t \in Workers, Send(t) PROVE [Channel!Next]_(Channel!chanVars)
  <2>1. /\ sent' = sent + 1 /\ sendQueue' = Append(sendQueue, sent + 1)
        /\ UNCHANGED <<connected, sendBuffers, accepted, sock>> /\ sender[t] = "none"
    BY <1>8 DEF Send
  <2>2. \A u \in Workers : sender'[u] = "WSASend" <=> sender[u] = "WSASend"
    BY <1>0, <1>8, <2>1 DEF Send, TypeOK
  <2>3. UNCHANGED Unsent
    BY <2>1, <2>2 DEF Unsent
  <2>4. Waiting' = Append(Waiting, sent + 1)
    <3>1. Unsent \in Seq(Nat) /\ sendQueue \in Seq(Nat) /\ sent \in Nat
      BY <1>0, EmptySeq DEF Unsent, TypeOK
    <3>2. Unsent \o Append(sendQueue, sent + 1) = Append(Unsent \o sendQueue, sent + 1)
      BY <3>1
    <3>. QED
      BY <2>1, <2>3, <3>2 DEF Waiting
  <2>5. Channel!Submit
    BY <2>1, <2>4 DEF Channel!Submit, IsOpen
  <2>. QED
    BY <2>5 DEF Channel!Next
<1>9. ASSUME NEW t \in Workers, RegisterSend(t) \/ SendDone(t)
      PROVE  [Channel!Next]_(Channel!chanVars)
  <2>1. sender[t] \in {"none", "RegisterSend"} /\ UNCHANGED <<sendQueue, sendBuffers, sent, accepted>>
        /\ UNCHANGED <<connected, sock>>
    BY <1>9 DEF RegisterSend, SendDone
  <2>2. \A u \in Workers : sender'[u] # sender[u] => u = t /\ sender'[u] \in {"none", "RegisterSend", "Drain"}
    BY <1>0, <1>9 DEF RegisterSend, SendDone, TypeOK
  <2>3. \A u \in Workers : sender'[u] = "WSASend" <=> sender[u] = "WSASend"
    BY <2>1, <2>2
  <2>. QED
    BY <1>0, <2>1, <2>3, WaitingStays, StaysOrBreaks DEF IsOpen
<1>10. ASSUME NEW t \in Workers, DrainSendQueue(t) PROVE [Channel!Next]_(Channel!chanVars)
  <2>1. /\ sender[t] = "Drain" /\ sender' = [sender EXCEPT ![t] = "WSASend"]
        /\ sendBuffers' = sendBuffers \o sendQueue /\ sendQueue' = <<>>
        /\ UNCHANGED <<connected, sock, sent, accepted>>
    BY <1>10 DEF DrainSendQueue
  <2>2. \A u \in Workers : sender[u] \notin {"WSASend", "SendFailed"}
    BY <1>0, <2>1
  <2>3. io["Send"] = "idle"
    BY <1>0, <2>1 DEF SingleSend, Sending
  <2>4. sendBuffers = <<>> /\ Unsent = <<>>
    BY <2>2, <2>3 DEF RInv, Emptied, Unsent
  <2>5. sendQueue \in Seq(Nat) /\ Unsent' = sendBuffers'
    BY <1>0, <2>1 DEF TypeOK, Unsent
  <2>6. <<>> \o sendQueue = sendQueue /\ sendQueue \o <<>> = sendQueue
    BY <2>5
  <2>7. UNCHANGED Waiting
    BY <2>1, <2>4, <2>5, <2>6 DEF Waiting
  <2>. QED
    BY <1>0, <2>1, <2>7, StaysOrBreaks DEF IsOpen
<1>11. ASSUME NEW t \in Workers, ProcessSend(t) PROVE [Channel!Next]_(Channel!chanVars)
  <2>1. /\ UNCHANGED <<sendQueue, sent, accepted, sender, sock>> /\ io["Send"] # "idle"
        /\ UNCHANGED connected \/ ~connected'
    BY <1>11 DEF ProcessSend, Disconnect
  <2>2. \A u \in Workers : sender[u] # "WSASend"
    BY <1>0, <2>1 DEF SingleSend, Sending
  <2>. QED
    BY <1>0, <2>1, <2>2, WaitingStays, StaysOrBreaks DEF IsOpen
<1>12. ASSUME NEW t \in Workers, SendFailed(t) PROVE [Channel!Next]_(Channel!chanVars)
  <2>1. /\ UNCHANGED <<sendQueue, sent, accepted, connected, sock>>
        /\ sender[t] = "SendFailed" /\ sender' = [sender EXCEPT ![t] = "none"]
    BY <1>12 DEF SendFailed
  <2>2. \A u \in Workers : sender[u] # "WSASend" /\ sender'[u] # "WSASend"
    BY <1>0, <2>1 DEF TypeOK
  <2>. QED
    BY <1>0, <2>1, <2>2, WaitingStays, StaysOrBreaks DEF IsOpen
\* A batch leaves, is lost, or breaks the channel.
<1>13. ASSUME NEW t \in Workers, WSASend(t) PROVE [Channel!Next]_(Channel!chanVars)
  <2>1. /\ sender[t] = "WSASend" /\ UNCHANGED <<sendQueue, sendBuffers, sent, sock>>
        /\ sendBuffers # <<>> /\ sendBuffers \in Seq(Nat) /\ sendQueue \in Seq(Nat)
    BY <1>0, <1>13 DEF WSASend, IInv, SendPath, NoEmptySend, TypeOK
  <2>2. Waiting = sendBuffers \o sendQueue
    BY <2>1 DEF Waiting, Unsent
  <2>3. \A u \in Workers : sender'[u] # "WSASend"
    BY <1>0, <1>13, <2>1 DEF WSASend, TypeOK
  <2>4. Waiting' = sendQueue
    BY <2>1, <2>3 DEF Waiting, Unsent
  <2>. DEFINE n == Len(sendBuffers)
  <2>5. /\ n \in 1 .. Len(Waiting) /\ n \in 0 .. Len(Waiting)
        /\ SubSeq(Waiting, 1, n) = sendBuffers
        /\ SubSeq(Waiting, n + 1, Len(Waiting)) = sendQueue
    BY <2>1, <2>2, PrefixOff, EmptySeq
  <2>. HIDE DEF n
  <2>6. PICK result \in WsaResult :
          IF result = "pending"
          THEN accepted' = accepted \o sendBuffers /\ UNCHANGED connected
          ELSE HandleError(t, result) /\ UNCHANGED accepted
    BY <1>13 DEF WSASend
  <2>7. CASE result = "pending"
    <3>1. Channel!Transmit
      BY <2>1, <2>4, <2>5, <2>6, <2>7 DEF Channel!Transmit, IsOpen
    <3>. QED
      BY <3>1 DEF Channel!Next
  <2>8. CASE result # "pending" /\ ~IsOpen'
    <3>1. Channel!Break
      BY <2>1, <2>4, <2>5, <2>6, <2>8 DEF Channel!Break
    <3>. QED
      BY <3>1 DEF Channel!Next
  <2>9. CASE result # "pending" /\ IsOpen'
    <3>1. result # "reset" /\ UNCHANGED connected /\ connected /\ sock # "refused"
      BY <2>1, <2>6, <2>9 DEF HandleError, Disconnect, IsOpen
    <3>2. sock # "new" /\ sock # "connecting" /\ sock # "closing"
      BY <1>0, <3>1 DEF RInv, SockLife, IInv, Lifetime, Birth, Unborn
    <3>3. sock = "open" /\ IoErrors # {}
      BY <1>0, <2>9, <3>1, <3>2 DEF WsaResult, TypeOK, SockState
    <3>4. UNCHANGED IsOpen
      BY <2>1, <3>1 DEF IsOpen
    <3>5. Channel!Lose
      BY <2>1, <2>4, <2>5, <2>6, <2>9, <3>3, <3>4 DEF Channel!Lose
    <3>. QED
      BY <3>5 DEF Channel!Next
  <2>. QED
    BY <2>7, <2>8, <2>9
<1>14. CASE UNCHANGED vars
  BY <1>1, <1>14 DEF vars, IsOpen
<1>. QED
  BY <1>2, <1>3, <1>4, <1>5, <1>6, <1>7, <1>8, <1>9, <1>10, <1>11, <1>12, <1>13, <1>14
  DEF Next, Dispatch, Continue, Environment

\* What the code that calls Send may rely on: packets leave in the order of the
\* calls, each at most once, and none is skipped while the connection lasts but
\* in a batch whose WSASend fails otherwise than by a reset.
THEOREM KeepsTheChannel == Spec => ImplementsChannel
<1>1. Init => Channel!Init
  <2>. SUFFICES ASSUME Init PROVE Channel!Init
    OBVIOUS
  <2>1. IsOpen = FALSE
    BY Zenon DEF Init, IsOpen
  <2>2. sent = 0 /\ accepted = <<>> /\ Waiting = <<>>
    BY EmptySeq DEF Init, Waiting, Unsent
  <2>. QED
    BY <2>1, <2>2 DEF Channel!Init
<1>2. Init => RInv
  BY EventNames DEF Init, RInv, Emptied, SockLife
<1>3. IInv /\ RInv /\ [Next]_vars => RInv'
  BY RefineInvStep
<1>4. IInv /\ RInv /\ [Next]_vars => [Channel!Next]_(Channel!chanVars)
  BY ChannelStep
<1>. QED
  BY <1>1, <1>2, <1>3, <1>4, Invariance, PTL DEF Spec, ImplementsChannel, Channel!Spec
=============================================================================

------------------------------- MODULE Session -------------------------------
(***************************************************************************)
(* One ServerCore Session driven by the worker threads of an IOCP service. *)
(*                                                                         *)
(* A worker is a thread in IocpCore::Dispatch.  Its call stack on this     *)
(* session is at most three frames deep and is kept in three functions:    *)
(*   handler[t]  the Process... handler (or a callback run by it),         *)
(*   sender[t]   Session::RegisterSend, called from the handler or from    *)
(*               a Send the worker makes while it handles another session, *)
(*   closer[t]   Session::Disconnect, called from either of them.          *)
(* The innermost frame that is not "none" runs; every atomic exchange and  *)
(* every locked block of the code is one step, so the steps of two workers *)
(* interleave where the code lets them.  The socket and the completion     *)
(* port are the environment: io[e] follows one OVERLAPPED operation from   *)
(* its registration to its dequeued completion.                            *)
(***************************************************************************)
EXTENDS Integers, Sequences

CONSTANTS
  Workers,        \* the threads in IocpCore::Dispatch
  MaxMsgs,        \* bound: number of Send calls made on the session
  ServiceTypes,   \* "Server": born of Listener::ProcessAccept, "Client": of ConnectEx
  IoErrors,       \* immediate WSASend/WSARecv errors on a healthy socket
  ConnectMayFail, \* whether ConnectEx may complete with an error
  NDebug          \* a Release build: what stands inside an assert is not run

ASSUME SessionAssumption ==
  /\ Workers # {}
  /\ MaxMsgs \in Nat
  /\ ServiceTypes \subseteq {"Server", "Client"}
  /\ IoErrors \subseteq {"other"}
  /\ ConnectMayFail \in BOOLEAN
  /\ NDebug \in BOOLEAN

VARIABLES
  connected,       \* _connected
  sendQueue,       \* _sendQueue; a message is the number of its Send call
  sendRegistered,  \* _sendRegistered
  sendBuffers,     \* _sendEvent.sendBuffers
  owner,           \* _xxxEvent.owner # nullptr
  io,              \* state of each overlapped operation at the kernel
  sock,            \* state of the socket
  handler, sender, closer,
  published,       \* OnConnected has begun: other sessions' handlers reach this one
  inService,       \* the session is in Service::_sessions
  sessionCount,    \* what this session added to Service::_sessionCount
  sent,            \* history: number of Send calls
  accepted         \* history: messages handed to a WSASend that was accepted

sendVars == <<sendQueue, sendRegistered, sendBuffers, sent, accepted>>
frames   == <<handler, sender, closer>>
kernel   == <<owner, io, sock>>
service  == <<published, inService, sessionCount>>
vars     == <<connected, sendVars, frames, kernel, service>>

Events == {"Connect", "Disconnect", "Recv", "Send"}
IoState == {"idle", "pending", "ok", "fail"}
SockState == {"new", "connecting", "open", "reset", "refused", "closing"}

Init ==
  /\ connected = FALSE
  /\ sendQueue = <<>>
  /\ sendRegistered = FALSE
  /\ sendBuffers = <<>>
  /\ owner = [e \in Events |-> FALSE]
  /\ io = [e \in Events |-> "idle"]
  /\ sock = "new"
  /\ handler = [t \in Workers |-> "none"]
  /\ sender = [t \in Workers |-> "none"]
  /\ closer = [t \in Workers |-> "none"]
  /\ published = FALSE
  /\ inService = FALSE
  /\ sessionCount = 0
  /\ sent = 0
  /\ accepted = <<>>

-----------------------------------------------------------------------------
(* Frames.                                                                 *)

CloserAt(t, at)  == closer[t] = at
SenderAt(t, at)  == closer[t] = "none" /\ sender[t] = at
HandlerAt(t, at) == closer[t] = "none" /\ sender[t] = "none" /\ handler[t] = at

Idle(t) == HandlerAt(t, "none")

\* The result of a WSASend or WSARecv issued now.
WsaResult ==
  CASE sock = "open"    -> {"pending"} \cup IoErrors
    [] sock = "reset"   -> {"pending", "reset"}
    [] sock = "closing" -> {"pending", "reset", "other"}
    [] OTHER            -> {"other"}

\* Mutation: the exchange's result is ignored.
Disconnect_NoTest(t) ==
  /\ connected' = FALSE
  /\ closer' = [closer EXCEPT ![t] = "OnDisconnected"]

\* Session::Disconnect up to the callback: one atomic exchange on _connected.
Disconnect(t) ==
  /\ connected' = FALSE
  /\ closer' = IF connected THEN [closer EXCEPT ![t] = "OnDisconnected"]
                            ELSE closer

\* Session::HandleError: only a reset or aborted connection disconnects.
HandleError(t, error) ==
  IF error = "reset" THEN Disconnect(t) ELSE UNCHANGED <<connected, closer>>

-----------------------------------------------------------------------------
(* Birth of the session.                                                   *)

\* Session::Connect: RegisterConnect posts ConnectEx, or returns false and
\* ClientService::Start gives the session up.
RegisterConnect ==
  /\ "Client" \in ServiceTypes
  /\ sock = "new" /\ ~connected
  /\ \/ /\ owner' = [owner EXCEPT !["Connect"] = TRUE]
        /\ io' = [io EXCEPT !["Connect"] = "pending"]
        /\ sock' = "connecting"
     \/ /\ sock' = "refused"
        /\ UNCHANGED <<owner, io>>
  /\ UNCHANGED <<connected, sendVars, frames, service>>

\* Session::ProcessConnect up to AddSession.  IocpCore::Dispatch calls it for
\* a failed completion as well as for a successful one.
ProcessConnect(t) ==
  /\ Idle(t)
  /\ io["Connect"] \in {"ok", "fail"}
  /\ io' = [io EXCEPT !["Connect"] = "idle"]
  /\ owner' = [owner EXCEPT !["Connect"] = FALSE]
  /\ connected' = TRUE
  /\ handler' = [handler EXCEPT ![t] = "AddSession"]
  /\ UNCHANGED <<sendVars, sender, closer, sock, service>>

\* The same, called by Listener::ProcessAccept on an accepted socket.
ProcessAccept(t) ==
  /\ "Server" \in ServiceTypes
  /\ Idle(t)
  /\ sock = "new"
  /\ sock' = "open"
  /\ connected' = TRUE
  /\ owner' = [owner EXCEPT !["Connect"] = FALSE]
  /\ handler' = [handler EXCEPT ![t] = "AddSession"]
  /\ UNCHANGED <<sendVars, sender, closer, io, service>>

AddSession(t) ==
  /\ HandlerAt(t, "AddSession")
  /\ inService' = TRUE
  /\ sessionCount' = sessionCount + 1
  /\ published' = TRUE
  /\ handler' = [handler EXCEPT ![t] = "Callback"]
  /\ UNCHANGED <<connected, sendVars, sender, closer, kernel>>

\* OnConnected or OnRecv returns; ProcessConnect and ProcessRecv go on to
\* RegisterRecv.
CallbackReturns(t) ==
  /\ HandlerAt(t, "Callback")
  /\ handler' = [handler EXCEPT ![t] = "RegisterRecv"]
  /\ UNCHANGED <<connected, sendVars, sender, closer, kernel, service>>

-----------------------------------------------------------------------------
(* Receiving.                                                              *)

\* Mutation: the owner of the receive event is not set.
RegisterRecv_NoOwner(t) ==
  /\ HandlerAt(t, "RegisterRecv")
  /\ handler' = [handler EXCEPT ![t] = IF connected THEN "WSARecv" ELSE "none"]
  /\ UNCHANGED <<connected, sendVars, sender, closer, kernel, service>>

\* RegisterRecv up to its IsConnected test.
RegisterRecv(t) ==
  /\ HandlerAt(t, "RegisterRecv")
  /\ IF connected
       THEN /\ owner' = [owner EXCEPT !["Recv"] = TRUE]
            /\ handler' = [handler EXCEPT ![t] = "WSARecv"]
       ELSE /\ handler' = [handler EXCEPT ![t] = "none"]
            /\ UNCHANGED owner
  /\ UNCHANGED <<connected, sendVars, sender, closer, io, sock, service>>

WSARecv(t) ==
  /\ HandlerAt(t, "WSARecv")
  /\ \E result \in WsaResult :
       IF result = "pending"
         THEN /\ io' = [io EXCEPT !["Recv"] = "pending"]
              /\ handler' = [handler EXCEPT ![t] = "none"]
              /\ UNCHANGED <<connected, closer>>
         ELSE /\ HandleError(t, result)
              /\ handler' = [handler EXCEPT ![t] = "RecvFailed"]
              /\ UNCHANGED io
  /\ UNCHANGED <<sendVars, sender, owner, sock, service>>

RecvFailed(t) ==
  /\ HandlerAt(t, "RecvFailed")
  /\ owner' = [owner EXCEPT !["Recv"] = FALSE]
  /\ handler' = [handler EXCEPT ![t] = "none"]
  /\ UNCHANGED <<connected, sendVars, sender, closer, io, sock, service>>

\* ProcessRecv: zero bytes (a failed completion included) disconnect; data go
\* to OnRecv.  The receive buffer never refuses them (module RecvBuffer).
ProcessRecv(t) ==
  /\ Idle(t)
  /\ io["Recv"] \in {"ok", "fail"}
  /\ io' = [io EXCEPT !["Recv"] = "idle"]
  /\ owner' = [owner EXCEPT !["Recv"] = FALSE]
  /\ IF io["Recv"] = "ok"
       THEN /\ handler' = [handler EXCEPT ![t] = "Callback"]
            /\ UNCHANGED <<connected, closer>>
       ELSE /\ Disconnect(t)
            /\ UNCHANGED handler
  /\ UNCHANGED <<sendVars, sender, sock, service>>

-----------------------------------------------------------------------------
(* Sending.                                                                *)

\* Mutation: every Send registers.
Send_NoExchange(t) ==
  /\ Idle(t) \/ HandlerAt(t, "Callback")
  /\ published
  /\ sent < MaxMsgs
  /\ sent' = sent + 1
  /\ sendQueue' = Append(sendQueue, sent + 1)
  /\ sendRegistered' = TRUE
  /\ sender' = [sender EXCEPT ![t] = "RegisterSend"]
  /\ UNCHANGED <<connected, sendBuffers, accepted, handler, closer, kernel, service>>

\* Session::Send, from a callback of this session or from the handler of
\* another one (GameRoom::Broadcast).  Push and exchange share one lock.
Send(t) ==
  /\ Idle(t) \/ HandlerAt(t, "Callback")
  /\ published
  /\ sent < MaxMsgs
  /\ sent' = sent + 1
  /\ sendQueue' = Append(sendQueue, sent + 1)
  /\ sendRegistered' = TRUE
  /\ sender' = IF sendRegistered THEN sender
                                ELSE [sender EXCEPT ![t] = "RegisterSend"]
  /\ UNCHANGED <<connected, sendBuffers, accepted, handler, closer, kernel, service>>

\* RegisterSend up to its IsConnected test: on a closed session it leaves
\* _sendRegistered set.
RegisterSend(t) ==
  /\ SenderAt(t, "RegisterSend")
  /\ IF connected
       THEN /\ owner' = [owner EXCEPT !["Send"] = TRUE]
            /\ sender' = [sender EXCEPT ![t] = "Drain"]
       ELSE /\ sender' = [sender EXCEPT ![t] = "none"]
            /\ UNCHANGED owner
  /\ UNCHANGED <<connected, sendVars, handler, closer, io, sock, service>>

\* The locked loop that moves the queue into the send event.
DrainSendQueue(t) ==
  /\ SenderAt(t, "Drain")
  /\ sendBuffers' = sendBuffers \o sendQueue
  /\ sendQueue' = <<>>
  /\ sender' = [sender EXCEPT ![t] = "WSASend"]
  /\ UNCHANGED <<connected, sendRegistered, sent, accepted, handler, closer,
                 kernel, service>>

WSASend(t) ==
  /\ SenderAt(t, "WSASend")
  /\ \E result \in WsaResult :
       IF result = "pending"
         THEN /\ io' = [io EXCEPT !["Send"] = "pending"]
              /\ accepted' = accepted \o sendBuffers
              /\ sender' = [sender EXCEPT ![t] = "none"]
              /\ UNCHANGED <<connected, closer>>
         ELSE /\ HandleError(t, result)
              /\ sender' = [sender EXCEPT ![t] = "SendFailed"]
              /\ UNCHANGED <<io, accepted>>
  /\ UNCHANGED <<sendQueue, sendRegistered, sendBuffers, sent, handler, owner,
                 sock, service>>

\* Mutation: the error path leaves the flag set.
SendFailed_KeepsFlag(t) ==
  /\ SenderAt(t, "SendFailed")
  /\ owner' = [owner EXCEPT !["Send"] = FALSE]
  /\ sendBuffers' = <<>>
  /\ sender' = [sender EXCEPT ![t] = "none"]
  /\ UNCHANGED <<connected, sendQueue, sendRegistered, sent, accepted, handler, closer,
                 io, sock, service>>

\* The rest of the error path: the buffers are dropped and the flag is
\* cleared without another look at the queue.
SendFailed(t) ==
  /\ SenderAt(t, "SendFailed")
  /\ owner' = [owner EXCEPT !["Send"] = FALSE]
  /\ sendBuffers' = <<>>
  /\ sendRegistered' = FALSE
  /\ sender' = [sender EXCEPT ![t] = "none"]
  /\ UNCHANGED <<connected, sendQueue, sent, accepted, handler, closer, io,
                 sock, service>>

\* Mutation: the sent buffers stay in the send event.
ProcessSend_NoClear(t) ==
  /\ Idle(t)
  /\ io["Send"] \in {"ok", "fail"}
  /\ io' = [io EXCEPT !["Send"] = "idle"]
  /\ owner' = [owner EXCEPT !["Send"] = FALSE]
  /\ IF io["Send"] = "ok"
       THEN /\ handler' = [handler EXCEPT ![t] = "SendDone"]
            /\ UNCHANGED <<connected, closer>>
       ELSE /\ Disconnect(t)
            /\ UNCHANGED handler
  /\ UNCHANGED <<sendVars, sender, sock, service>>

\* ProcessSend up to OnSend.
ProcessSend(t) ==
  /\ Idle(t)
  /\ io["Send"] \in {"ok", "fail"}
  /\ io' = [io EXCEPT !["Send"] = "idle"]
  /\ owner' = [owner EXCEPT !["Send"] = FALSE]
  /\ sendBuffers' = <<>>
  /\ IF io["Send"] = "ok"
       THEN /\ handler' = [handler EXCEPT ![t] = "SendDone"]
            /\ UNCHANGED <<connected, closer>>
       ELSE /\ Disconnect(t)
            /\ UNCHANGED handler
  /\ UNCHANGED <<sendQueue, sendRegistered, sent, accepted, sender, sock, service>>

\* Mutation: the flag is cleared whatever the queue holds.
SendDone_NoTest(t) ==
  /\ HandlerAt(t, "SendDone")
  /\ handler' = [handler EXCEPT ![t] = "none"]
  /\ sendRegistered' = FALSE
  /\ UNCHANGED <<connected, sendQueue, sendBuffers, sent, accepted, sender,
                 closer, kernel, service>>

\* The locked block that ends ProcessSend.
SendDone(t) ==
  /\ HandlerAt(t, "SendDone")
  /\ handler' = [handler EXCEPT ![t] = "none"]
  /\ IF sendQueue = <<>>
       THEN /\ sendRegistered' = FALSE
            /\ UNCHANGED sender
       ELSE /\ sender' = [sender EXCEPT ![t] = "RegisterSend"]
            /\ UNCHANGED sendRegistered
  /\ UNCHANGED <<connected, sendQueue, sendBuffers, sent, accepted, closer,
                 kernel, service>>

-----------------------------------------------------------------------------
(* Disconnecting.                                                          *)

\* OnDisconnected has returned; ReleaseSession runs under the service's lock.
\* The erase is the argument of an assert.
ReleaseSession(t) ==
  /\ CloserAt(t, "OnDisconnected")
  /\ inService' = (NDebug /\ inService)
  /\ sessionCount' = sessionCount - 1
  /\ closer' = [closer EXCEPT ![t] = "RegisterDisconnect"]
  /\ UNCHANGED <<connected, sendVars, handler, sender, kernel, published>>

\* Mutation: a failed DisconnectEx keeps its owner.
RegisterDisconnect_KeepsOwner(t) ==
  /\ CloserAt(t, "RegisterDisconnect")
  /\ closer' = [closer EXCEPT ![t] = "none"]
  /\ owner' = [owner EXCEPT !["Disconnect"] = TRUE]
  /\ \/ /\ io' = [io EXCEPT !["Disconnect"] = "pending"]
        /\ sock' = "closing"
     \/ /\ sock # "open"
        /\ UNCHANGED <<io, sock>>
  /\ UNCHANGED <<connected, sendVars, handler, sender, service>>

\* DisconnectEx is posted, or fails on a socket that is already dead.
RegisterDisconnect(t) ==
  /\ CloserAt(t, "RegisterDisconnect")
  /\ closer' = [closer EXCEPT ![t] = "none"]
  /\ \/ /\ owner' = [owner EXCEPT !["Disconnect"] = TRUE]
        /\ io' = [io EXCEPT !["Disconnect"] = "pending"]
        /\ sock' = "closing"
     \/ /\ sock # "open"
        /\ owner' = [owner EXCEPT !["Disconnect"] = FALSE]
        /\ UNCHANGED <<io, sock>>
  /\ UNCHANGED <<connected, sendVars, handler, sender, service>>

ProcessDisconnect(t) ==
  /\ Idle(t)
  /\ io["Disconnect"] \in {"ok", "fail"}
  /\ io' = [io EXCEPT !["Disconnect"] = "idle"]
  /\ owner' = [owner EXCEPT !["Disconnect"] = FALSE]
  /\ UNCHANGED <<connected, sendVars, frames, sock, service>>

-----------------------------------------------------------------------------
(* The environment: the kernel completes operations, the peer resets.      *)

Complete(e, result) ==
  /\ io[e] = "pending"
  /\ io' = [io EXCEPT ![e] = result]
  /\ UNCHANGED <<connected, sendVars, frames, owner, service>>

CompleteConnect ==
  \/ Complete("Connect", "ok") /\ sock' = "open"
  \/ ConnectMayFail /\ Complete("Connect", "fail") /\ sock' = "refused"

\* A receive ends with data only on an open socket; it ends with zero bytes
\* when the peer closes, resets, or the socket is disconnected.
RecvData == sock = "open" /\ Complete("Recv", "ok") /\ UNCHANGED sock
RecvEnd  == Complete("Recv", "fail") /\ UNCHANGED sock

CompleteSend ==
  /\ \/ sock \in {"open", "closing"} /\ Complete("Send", "ok")
     \/ sock # "open" /\ Complete("Send", "fail")
  /\ UNCHANGED sock

CompleteDisconnect ==
  /\ \E result \in {"ok", "fail"} : Complete("Disconnect", result)
  /\ UNCHANGED sock

PeerResets ==
  /\ sock = "open"
  /\ sock' = "reset"
  /\ UNCHANGED <<connected, sendVars, frames, owner, io, service>>

Environment ==
  \/ CompleteConnect \/ RecvData \/ RecvEnd \/ CompleteSend
  \/ CompleteDisconnect \/ PeerResets

-----------------------------------------------------------------------------
\* The code a worker runs once it has dequeued a completion.
Continue(t) ==
  \/ AddSession(t) \/ CallbackReturns(t)
  \/ RegisterRecv(t) \/ WSARecv(t) \/ RecvFailed(t)
  \/ RegisterSend(t) \/ DrainSendQueue(t) \/ WSASend(t) \/ SendFailed(t)
  \/ SendDone(t)
  \/ ReleaseSession(t) \/ RegisterDisconnect(t)

\* IocpCore::Dispatch: a worker dequeues a completion of this session.
Dispatch(t) ==
  \/ ProcessConnect(t) \/ ProcessAccept(t) \/ ProcessRecv(t)
  \/ ProcessSend(t) \/ ProcessDisconnect(t)

Next ==
  \/ RegisterConnect
  \/ \E t \in Workers : Dispatch(t) \/ Continue(t) \/ Send(t)
  \/ Environment

\* Workers never block inside a handler; the completion port is a FIFO queue,
\* so a queued completion is dequeued however often the others come (strong
\* fairness); the kernel ends a send, a DisconnectEx, and a receive on a
\* socket that is no longer open.
Fairness ==
  /\ \A t \in Workers : WF_vars(Continue(t))
  /\ SF_vars(\E t \in Workers : ProcessConnect(t))
  /\ SF_vars(\E t \in Workers : ProcessRecv(t))
  /\ SF_vars(\E t \in Workers : ProcessSend(t))
  /\ SF_vars(\E t \in Workers : ProcessDisconnect(t))
  /\ WF_vars(CompleteSend)
  /\ WF_vars(CompleteDisconnect)
  /\ WF_vars(sock # "open" /\ RecvEnd)

Spec == Init /\ [][Next]_vars
FairSpec == Spec /\ Fairness

-----------------------------------------------------------------------------
HandlerStates == {"none", "AddSession", "Callback", "RegisterRecv", "WSARecv",
                  "RecvFailed", "SendDone"}
SenderStates  == {"none", "RegisterSend", "Drain", "WSASend", "SendFailed"}
CloserStates  == {"none", "OnDisconnected", "RegisterDisconnect"}

\* Every variable has the type of the field it stands for.
TypeOK ==
  /\ connected \in BOOLEAN
  /\ sendQueue \in Seq(Nat) /\ sendBuffers \in Seq(Nat) /\ accepted \in Seq(Nat)
  /\ sendRegistered \in BOOLEAN
  /\ owner \in [Events -> BOOLEAN]
  /\ io \in [Events -> IoState]
  /\ sock \in SockState
  /\ handler \in [Workers -> HandlerStates]
  /\ sender \in [Workers -> SenderStates]
  /\ closer \in [Workers -> CloserStates]
  /\ published \in BOOLEAN /\ inService \in BOOLEAN
  /\ sessionCount \in Int
  /\ sent \in Nat

\* Worker t is inside the send path, from RegisterSend to the end of
\* ProcessSend.
Sending(t) == sender[t] # "none" \/ handler[t] = "SendDone"

\* _sendEvent is one OVERLAPPED: it is never refilled or reposted while an
\* operation on it is in flight or another worker is working on it.  This is
\* what _sendRegistered (Session.cpp:79, 23, 292) is there to ensure.
SingleSend ==
  /\ \A t, u \in Workers : Sending(t) /\ Sending(u) => t = u
  /\ io["Send"] # "idle" => \A t \in Workers : ~Sending(t)

\* A completion that is dequeued finds its owner: IocpCore::Dispatch
\* dereferences iocpEvent->owner without a test (IocpCore.cpp:32-34).
OwnerHeld == \A e \in Events : io[e] # "idle" => owner[e]

\* The assertion of Service::ReleaseSession (Service.cpp:42) holds, and in a
\* build that evaluates it _sessionCount counts the session exactly while it
\* is registered.
ReleaseOnce ==
  /\ \A t \in Workers : closer[t] = "OnDisconnected" => inService
  /\ ~NDebug => sessionCount = IF inService THEN 1 ELSE 0

\* While no immediate error other than a reset occurs, a session whose
\* connection was made, with queued packets, has a sender: nothing is left in _sendQueue for the
\* next Send to pick up (Session.cpp:23, 210-213, 291-294).
NoStrandedPacket ==
  connected /\ sock # "refused" /\ sendQueue # <<>> =>
    \/ io["Send"] # "idle"
    \/ \E t \in Workers : Sending(t)

\* However a send ends, _sendRegistered is not left set on a connected session
\* with nobody to clear it: each later Send would only put its packet into the
\* queue (Session.cpp:23), for ever.  The flag is cleared on two paths, that of
\* a batch that failed (213) and that of one that was sent (292), and kept on
\* the one that goes on to RegisterSend again.
FlagHasSender ==
  connected /\ sendRegistered =>
    \/ io["Send"] # "idle"
    \/ \E t \in Workers : Sending(t)

\* A session that reports "Connected To Server" (ServerSession.h:13) has a
\* connection: OnConnected never runs after a failed ConnectEx.
ConnectedMeansOpen == connected => sock # "refused"

\* A connected session has a receive posted or a worker on its way to post
\* it, so the end of the connection is noticed (Session.cpp:137-163, 269).
ReceiveArmed ==
  connected => \/ io["Recv"] # "idle"
               \/ \E t \in Workers : handler[t] \in
                    {"AddSession", "Callback", "RegisterRecv", "WSARecv"}

\* After Disconnect every reference that keeps the session alive goes away:
\* it leaves the service and no event owns it any more (Session.cpp:46-51).
SessionReleased ==
  (published /\ ~connected) ~>
    [](~inService /\ \A e \in Events : ~owner[e] /\ io[e] = "idle")

\* A send is never posted without a packet: its completion would report zero
\* bytes and disconnect a healthy session (Session.cpp:204, 278-282).
NoEmptySend == \A t \in Workers : sender[t] = "WSASend" => sendBuffers # <<>>

\* The session implements the channel: a packet waits in the queue or in a
\* send event whose WSASend has not been called yet.  A full refinement: no
\* loss, duplication or reordering while the connection lasts, but for an
\* immediate send error other than a reset (Session.cpp:15-29, 165-216,
\* 272-300).  A refused connection never opens the channel.
IsOpen == connected /\ sock # "refused"
Unsent == IF \E t \in Workers : sender[t] = "WSASend" THEN sendBuffers ELSE <<>>
Waiting == Unsent \o sendQueue

Channel == INSTANCE SendChannel WITH
  Lossy <- IoErrors # {},
  open <- IsOpen,
  submitted <- sent,
  waiting <- Waiting,
  delivered <- accepted

ImplementsChannel == Channel!Spec

-----------------------------------------------------------------------------
(* The inductive invariant behind the safety properties (SessionProofs).   *)

Receiving(t) == handler[t] \in
  {"AddSession", "Callback", "RegisterRecv", "WSARecv", "RecvFailed"}

\* The receive operation is one token too, from ProcessConnect on.
SingleRecv ==
  /\ \A t, u \in Workers : Receiving(t) /\ Receiving(u) => t = u
  /\ io["Recv"] # "idle" => \A t \in Workers : ~Receiving(t)

\* Whoever works on the send event holds _sendRegistered.
SendFlag ==
  io["Send"] # "idle" \/ (\E t \in Workers : Sending(t)) => sendRegistered

Unborn == sock = "new" \/ io["Connect"] # "idle"

Birth ==
  /\ sock = "new" => io["Connect"] = "idle"
  /\ Unborn =>
       /\ ~connected /\ ~published
       /\ \A t \in Workers : handler[t] = "none"

\* Until AddSession has run nobody else can reach the session.
Reachable ==
  /\ ~published =>
       /\ ~sendRegistered /\ ~inService /\ sendQueue = <<>>
       /\ io["Recv"] = "idle" /\ io["Disconnect"] = "idle"
       /\ \A t \in Workers : /\ closer[t] = "none"
                             /\ handler[t] \in {"none", "AddSession"}
  /\ \A t \in Workers : handler[t] = "AddSession" => connected /\ ~published
  /\ published /\ connected => inService

\* Disconnect passes its exchange once.
SingleClose ==
  /\ connected => io["Disconnect"] = "idle"
  /\ \A t \in Workers : closer[t] # "none" =>
       /\ ~connected
       /\ io["Disconnect"] = "idle"
       /\ \A u \in Workers : closer[u] # "none" => t = u

\* What a frame relies on between its steps.
FrameFacts == \A t \in Workers :
  /\ sender[t] # "none" => handler[t] \in {"none", "Callback"}
  /\ sender[t] \in {"Drain", "WSASend"} => owner["Send"]
  /\ sender[t] \in {"RegisterSend", "Drain"} => sendQueue # <<>>
  /\ handler[t] = "WSARecv" => owner["Recv"]

SendPath == SingleSend /\ SendFlag /\ FrameFacts /\ OwnerHeld /\ NoEmptySend
Lifetime == SingleRecv /\ Birth /\ Reachable /\ SingleClose /\ ReleaseOnce

IInv == TypeOK /\ SendPath /\ Lifetime

\* No immediate error other than a reset, and no failed ConnectEx.
Quiet == IoErrors = {} /\ ~ConnectMayFail

\* Under Quiet a connected session has a live socket, and whenever its flag
\* is set or its queue is not empty somebody is sending.
Served ==
  /\ connected => sock \in {"open", "reset"}
  /\ io["Connect"] # "fail"
  /\ io["Connect"] = "ok" => sock \in {"open", "reset"}
  /\ connected => \A t \in Workers : sender[t] # "SendFailed"
  /\ connected /\ sendQueue # <<>> => sendRegistered
  /\ FlagHasSender

QInv == Served /\ ReceiveArmed

\* The send event is empty outside a send, and a socket that is not connected
\* yet, or closes, is no session's connection.
Emptied ==
  io["Send"] = "idle" /\ (\A t \in Workers : sender[t] \notin {"WSASend", "SendFailed"}) =>
    sendBuffers = <<>>

SockLife ==
  /\ sock = "connecting" => io["Connect"] = "pending"
  /\ io["Connect"] \in {"ok", "fail"} => sock \in {"open", "reset", "refused"}
  /\ sock = "closing" => ~connected

RInv == Emptied /\ SockLife
=============================================================================

------------------------------ MODULE Listener ------------------------------
(***************************************************************************)
(* The listening side of ServerCore: ServerService::Start, and the accept  *)
(* events a Listener posts, handles and posts again.  A worker is a thread *)
(* in IocpCore::Dispatch; the one that calls Start is Main, and the server *)
(* has no other.  A session is a number, in the order of CreateSession.    *)
(* The L of LInit, LNext and others is for ServerCoreProofs, which extends *)
(* RecvBuffer too.                                                         *)
(***************************************************************************)
EXTENDS Integers, FiniteSets

CONSTANTS
  AcceptEvents,  \* one for each session the service is made for
  Workers, Main,
  Clients,       \* connections that are attempted
  NDebug,        \* the asserts of main are not compiled
  NoEvent, NoClient,
  MaxFailures    \* bound: calls that fail

ASSUME ListenerAssumption ==
  /\ IsFiniteSet(AcceptEvents) /\ IsFiniteSet(Clients)
  /\ Main \in Workers /\ NoEvent \notin AcceptEvents /\ NoClient \notin Clients
  /\ NDebug \in BOOLEAN /\ MaxFailures \in Nat

VARIABLES
  main,       \* what Main is at: Start, StartAccept, Dispatch, or aborted
  listening,  \* the listen socket is open
  event,      \* where each accept event is
  session,    \* IocpEvent::session, 0 if there is none
  handler,    \* the event a worker handles
  step,       \* and the function it is in
  sessions,   \* Service::_sessions
  made,       \* the sessions created
  client,     \* environment: where each client is
  peer,       \* environment: the client at the other end of a session's socket
  failures

lvars == <<main, listening, event, session, handler, step, sessions, made, client,
          peer, failures>>

LInit ==
  /\ main = "Start" /\ listening = FALSE
  /\ event = [e \in AcceptEvents |-> "none"]
  /\ session = [e \in AcceptEvents |-> 0]
  /\ handler = [w \in Workers |-> NoEvent]
  /\ step = [w \in Workers |-> "none"]
  /\ sessions = {} /\ made = 0
  /\ client = [c \in Clients |-> "idle"]
  /\ peer = <<>>
  /\ failures = 0

Fail == failures < MaxFailures /\ failures' = failures + 1

\* The client at the other end of the session e holds, NoClient if none.
PeerOf(e) == IF session[e] \in DOMAIN peer THEN peer[session[e]] ELSE NoClient

-----------------------------------------------------------------------------
(* Starting.                                                               *)

\* assert(service->Start()) up to the loop of StartAccept.  A call that fails
\* is reported to the assert; without asserts there is no call at all.
Start ==
  /\ main = "Start"
  /\ IF NDebug
       THEN main' = "Dispatch" /\ UNCHANGED <<listening, failures>>
       ELSE \/ main' = "StartAccept" /\ listening' = TRUE /\ UNCHANGED failures
            \/ main' = "aborted" /\ Fail /\ UNCHANGED listening
  /\ UNCHANGED <<event, session, handler, step, sessions, made, client, peer>>

\* The loop of StartAccept makes the next event and registers it.
StartAccept ==
  /\ main = "StartAccept" /\ handler[Main] = NoEvent
  /\ \E e \in AcceptEvents :
       /\ event[e] = "none"
       /\ event' = [event EXCEPT ![e] = "handled"]
       /\ handler' = [handler EXCEPT ![Main] = e]
       /\ step' = [step EXCEPT ![Main] = "RegisterAccept"]
  /\ UNCHANGED <<main, listening, session, sessions, made, client, peer, failures>>

StartReturns ==
  /\ main = "StartAccept" /\ handler[Main] = NoEvent
  /\ \A e \in AcceptEvents : event[e] # "none"
  /\ main' = "Dispatch"
  /\ UNCHANGED <<listening, event, session, handler, step, sessions, made, client,
                 peer, failures>>

-----------------------------------------------------------------------------
(* Accepting.                                                              *)

\* Mutation: the event is posted again with the session it had.
RegisterAccept_SameSession(w) ==
  LET e == handler[w]
  IN /\ step[w] = "RegisterAccept"
     /\ made' = IF session[e] = 0 THEN made + 1 ELSE made
     /\ session' = [session EXCEPT ![e] = IF @ = 0 THEN made + 1 ELSE @]
     /\ client' = client
     /\ event' = [event EXCEPT ![e] = "posted"]
     /\ handler' = [handler EXCEPT ![w] = NoEvent]
     /\ step' = [step EXCEPT ![w] = "none"]
     /\ UNCHANGED <<main, listening, sessions, peer, failures>>

\* RegisterAccept: a new session takes the place of the old one, which is
\* destroyed if the service does not hold it, and its socket closed.  An
\* AcceptEx that fails is tried again with yet another session.
RegisterAccept(w) ==
  LET e == handler[w]
  IN /\ step[w] = "RegisterAccept"
     /\ made' = made + 1
     /\ session' = [session EXCEPT ![e] = made + 1]
     /\ client' = [c \in Clients |->
          IF c = PeerOf(e) /\ session[e] \notin sessions THEN "closed" ELSE client[c]]
     /\ \/ /\ event' = [event EXCEPT ![e] = "posted"]
           /\ handler' = [handler EXCEPT ![w] = NoEvent]
           /\ step' = [step EXCEPT ![w] = "none"]
           /\ UNCHANGED failures
        \/ Fail /\ UNCHANGED <<event, handler, step>>
     /\ UNCHANGED <<main, listening, sessions, peer>>

\* GetQueuedCompletionStatus gives a worker an accept event.
Dispatch(w) ==
  /\ handler[w] = NoEvent
  /\ w = Main => main = "Dispatch"
  /\ \E e \in AcceptEvents :
       /\ event[e] = "completed"
       /\ event' = [event EXCEPT ![e] = "handled"]
       /\ handler' = [handler EXCEPT ![w] = e]
       /\ step' = [step EXCEPT ![w] = "ProcessAccept"]
  /\ UNCHANGED <<main, listening, session, sessions, made, client, peer, failures>>

\* Mutation: a socket that cannot be asked for its peer ends the handling.
ProcessAccept_NoRetry(w) ==
  LET e == handler[w]
  IN /\ step[w] = "ProcessAccept"
     /\ \/ /\ PeerOf(e) # NoClient
           /\ sessions' = sessions \cup {session[e]}
           /\ client' = [client EXCEPT ![PeerOf(e)] = "served"]
           /\ step' = [step EXCEPT ![w] = "RegisterAccept"]
           /\ UNCHANGED <<failures, handler>>
        \/ /\ IF PeerOf(e) = NoClient THEN UNCHANGED failures ELSE Fail
           /\ step' = [step EXCEPT ![w] = "none"]
           /\ handler' = [handler EXCEPT ![w] = NoEvent]
           /\ UNCHANGED <<sessions, client>>
     /\ UNCHANGED <<main, listening, event, session, made, peer>>

\* ProcessAccept up to RegisterAccept: SO_UPDATE_ACCEPT_CONTEXT and getpeername
\* fail for an accept that failed, and may fail for one that did not; otherwise
\* Session::ProcessConnect adds the session to the service.
ProcessAccept(w) ==
  LET e == handler[w]
  IN /\ step[w] = "ProcessAccept"
     /\ step' = [step EXCEPT ![w] = "RegisterAccept"]
     /\ \/ /\ PeerOf(e) # NoClient
           /\ sessions' = sessions \cup {session[e]}
           /\ client' = [client EXCEPT ![PeerOf(e)] = "served"]
           /\ UNCHANGED failures
        \/ /\ IF PeerOf(e) = NoClient THEN UNCHANGED failures ELSE Fail
           /\ UNCHANGED <<sessions, client>>
     /\ UNCHANGED <<main, listening, event, session, handler, made, peer>>

-----------------------------------------------------------------------------
(* The environment: clients and AcceptEx.                                  *)

\* A client connects; without a listening socket it is refused.
Connect(c) ==
  /\ client[c] = "idle" /\ main # "Start"
  /\ client' = [client EXCEPT ![c] = IF listening THEN "waiting" ELSE "refused"]
  /\ UNCHANGED <<main, listening, event, session, handler, step, sessions, made,
                 peer, failures>>

\* A posted AcceptEx completes with a waiting client, or with an error.
AcceptEx(e) ==
  /\ event[e] = "posted"
  /\ event' = [event EXCEPT ![e] = "completed"]
  /\ \/ \E c \in Clients :
          /\ client[c] = "waiting"
          /\ client' = [client EXCEPT ![c] = "accepted"]
          /\ peer' = [i \in DOMAIN peer \cup {session[e]} |->
                        IF i = session[e] THEN c ELSE peer[i]]
          /\ UNCHANGED failures
     \/ Fail /\ UNCHANGED <<client, peer>>
  /\ UNCHANGED <<main, listening, session, handler, step, sessions, made>>

Thread(w) == Dispatch(w) \/ ProcessAccept(w) \/ RegisterAccept(w)

LNext ==
  \/ Start \/ StartAccept \/ StartReturns
  \/ \E w \in Workers : Thread(w)
  \/ \E c \in Clients : Connect(c)
  \/ \E e \in AcceptEvents : AcceptEx(e)

LSpec == LInit /\ [][LNext]_lvars

\* Threads run, and the kernel completes an accept when a client waits.
LFairSpec ==
  /\ LSpec
  /\ WF_lvars(Start \/ StartAccept \/ StartReturns)
  /\ \A w \in Workers : WF_lvars(Thread(w))
  /\ WF_lvars(\E e \in AcceptEvents : AcceptEx(e))

-----------------------------------------------------------------------------
LTypeOK ==
  /\ main \in {"Start", "StartAccept", "Dispatch", "aborted"}
  /\ listening \in BOOLEAN
  /\ event \in [AcceptEvents -> {"none", "posted", "completed", "handled"}]
  /\ session \in [AcceptEvents -> 0..made]
  /\ handler \in [Workers -> AcceptEvents \cup {NoEvent}]
  /\ \A w \in Workers :
       step[w] \in IF handler[w] = NoEvent THEN {"none"}
                   ELSE {"ProcessAccept", "RegisterAccept"}
  /\ sessions \subseteq 1..made
  /\ client \in [Clients -> {"idle", "refused", "waiting", "accepted", "served", "closed"}]
  /\ DOMAIN peer \subseteq 1..made
  /\ failures \in 0..MaxFailures

\* Listener.cpp:80-130: no path through ProcessAccept loses an accept event:
\* each is posted, completed, or in the hands of exactly one worker.
EventHeld ==
  \A e \in AcceptEvents :
    Cardinality({w \in Workers : handler[w] = e})
      = IF event[e] = "handled" THEN 1 ELSE 0

\* Listener.cpp:82-85: accepts that wait at the same time have sessions of
\* their own, none of which is in use by a client already.
SessionsApart ==
  /\ \A e, f \in AcceptEvents : e # f /\ session[e] # 0 => session[e] # session[f]
  /\ \A e \in AcceptEvents : event[e] = "posted" => session[e] \notin sessions \cup DOMAIN peer

\* Server.cpp:35-42: a client that connects to the running server is accepted;
\* it may find its connection closed again, but does not wait for ever.
ClientsServed ==
  \A c \in Clients :
    client[c] \in {"waiting", "accepted"} ~> client[c] \in {"served", "closed"}

\* Server.cpp:35: when the main loop runs, Start has returned true.
RunsStarted == main = "Dispatch" => listening
=============================================================================

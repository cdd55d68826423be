------------------------------- MODULE WebApi -------------------------------
(***************************************************************************)
(* One TpLinkWebApi (client/coreapi.py) with the _apply_get/_apply_post    *)
(* wrappers of TpLinkApi (client/tplink_api.py), shared by the asyncio     *)
(* tasks of one Home Assistant config entry: the coordinator's poll,       *)
(* service calls, entity commands, and the unload that disconnects it.     *)
(*                                                                         *)
(* A step of a task is what it runs between two awaits.  It waits in three *)
(* places: for _call_locker ("queued"), for the answer of logon.cgi        *)
(* ("logon") and for the answer of the page it wants ("request").  The     *)
(* switch and the network are the actions Serve, Deny, Drop, Welcome,      *)
(* Refuse and Forget.  A request that is cancelled is not followed any     *)
(* further: what the switch still does with it is not counted.             *)
(***************************************************************************)
EXTENDS Naturals, Sequences

CONSTANTS Tasks,     \* the tasks that use the client
          NoTask     \* nobody holds the lock

ASSUME NoTaskAssumption == NoTask \notin Tasks

VARIABLES session,         \* _session, _session_injected
          is_initialized,  \* _is_initialized
          locker, waiters, \* _call_locker: its owner and its FIFO of waiters
          cookie,          \* what the switch thinks of the session's cookie
          disconnected,    \* disconnect() has run
          pc,              \* where each task waits
          kind,            \* what its call is for
          reply,           \* the answer on its way to the task
          sent,            \* how often the open call sent its request
          logons,          \* how often the open call tried to log on
          handled,         \* how often the switch carried the request out
          result           \* how the task's last call ended

vars == <<session, is_initialized, locker, waiters, cookie, disconnected,
          pc, kind, reply, sent, logons, handled, result>>

Calls == INSTANCE SwitchCalls WITH open <- [t \in Tasks |-> pc[t] # "idle"]

Kinds == Calls!Kinds

(* What may come back: a page, the login page or 401/403, another status,  *)
(* a body that cannot be read, ServerDisconnectedError, any other failure  *)
(* (the 5 s timeout included); and for logon.cgi, logonInfo "0" or not.    *)
PageReplies == {"page", "unauthorised", "status", "broken", "closed", "failed"}
LogonReplies == {"welcome", "refused"}

TypeOK ==
    /\ session \in {"injected", "own", "none"}
    /\ is_initialized \in BOOLEAN
    /\ locker \in Tasks \cup {NoTask}
    /\ waiters \in Seq(Tasks)
    /\ cookie \in {"none", "valid", "stale"}
    /\ disconnected \in BOOLEAN
    /\ pc \in [Tasks -> {"idle", "queued", "logon", "request"}]
    /\ kind \in [Tasks -> Kinds]
    /\ reply \in [Tasks -> {"none", "pending"} \cup PageReplies \cup LogonReplies]
    /\ sent \in [Tasks -> Nat]
    /\ logons \in [Tasks -> Nat]
    /\ handled \in [Tasks -> Nat]
    /\ result \in [Tasks -> Calls!Results]

Init ==
    /\ session = "injected"
    /\ is_initialized = FALSE
    /\ locker = NoTask
    /\ waiters = <<>>
    /\ cookie = "none"
    /\ disconnected = FALSE
    /\ pc = [t \in Tasks |-> "idle"]
    /\ kind = [t \in Tasks |-> "read"]
    /\ reply = [t \in Tasks |-> "none"]
    /\ sent = [t \in Tasks |-> 0]
    /\ logons = [t \in Tasks |-> 0]
    /\ handled = [t \in Tasks |-> 0]
    /\ result = [t \in Tasks |-> "none"]

-----------------------------------------------------------------------------
(* The end of a call.                                                      *)

(* _apply_get and _apply_post take a closed connection for a switch that   *)
(* restarts its web server after applying the change.                      *)
Forgiven(k, r) == k \in {"apply", "restart"} /\ r = "disconnected"

Outcome(k, r) == IF Forgiven(k, r) THEN "ok" ELSE r

(* invalidate_authentication, by the wrapper or by the caller (reboot).    *)
Invalidates(k, r) == Forgiven(k, r) \/ (k = "restart" /\ r = "ok")

(* Fault of Return: the lock is only released by a call that succeeds.      *)
FaultyReturnKeepsLock(t, r, auth) ==
    /\ pc' = [pc EXCEPT ![t] = "idle"]
    /\ reply' = [reply EXCEPT ![t] = "none"]
    /\ result' = [result EXCEPT ![t] = Outcome(kind[t], r)]
    /\ sent' = [sent EXCEPT ![t] = 0]
    /\ logons' = [logons EXCEPT ![t] = 0]
    /\ locker' = IF locker = t /\ r = "ok" THEN NoTask ELSE locker
    /\ is_initialized' = (auth /\ ~Invalidates(kind[t], r))

(* Task t leaves get or post with result r; `auth' is is_initialized as    *)
(* the call leaves it.  The lock is released and the wrapper runs on to    *)
(* its return without another await.                                       *)
Return(t, r, auth) ==
    /\ pc' = [pc EXCEPT ![t] = "idle"]
    /\ reply' = [reply EXCEPT ![t] = "none"]
    /\ result' = [result EXCEPT ![t] = Outcome(kind[t], r)]
    /\ sent' = [sent EXCEPT ![t] = 0]
    /\ logons' = [logons EXCEPT ![t] = 0]
    /\ locker' = IF locker = t THEN NoTask ELSE locker
    /\ is_initialized' = (auth /\ ~Invalidates(kind[t], r))

-----------------------------------------------------------------------------
(* Logging on and sending the request.                                     *)

(* Fault of BeginLogon: the client stays logged on while it logs on again. *)
FaultyBeginLogonStaysOn(t) ==
    /\ session' = IF session = "none" THEN "own" ELSE session
    /\ cookie' = "none"
    /\ pc' = [pc EXCEPT ![t] = "logon"]
    /\ reply' = [reply EXCEPT ![t] = "pending"]
    /\ logons' = [logons EXCEPT ![t] = @ + 1]
    /\ UNCHANGED <<sent, is_initialized>>

(* authenticate() up to the answer of logon.cgi: the client is logged out  *)
(* first, _refresh_session makes a session if there is none and clears the *)
(* cookies.                                                                *)
BeginLogon(t) ==
    /\ is_initialized' = FALSE
    /\ session' = IF session = "none" THEN "own" ELSE session
    /\ cookie' = "none"
    /\ pc' = [pc EXCEPT ![t] = "logon"]
    /\ reply' = [reply EXCEPT ![t] = "pending"]
    /\ logons' = [logons EXCEPT ![t] = @ + 1]
    /\ UNCHANGED sent

(* _get_raw or _post_raw up to the answer.  Without a session it fails at  *)
(* once.                                                                   *)
SendRequest(t) ==
    /\ IF session = "none"
       THEN Return(t, "request", TRUE)
       ELSE /\ is_initialized' = TRUE
            /\ pc' = [pc EXCEPT ![t] = "request"]
            /\ reply' = [reply EXCEPT ![t] = "pending"]
            /\ sent' = [sent EXCEPT ![t] = @ + 1]
            /\ locker' = t
            /\ UNCHANGED <<logons, result>>
    /\ UNCHANGED <<session, cookie>>

LoggingIn(t) == kind[t] = "login" /\ pc[t] # "idle"

(* A task calls get or post and joins the waiters of _call_locker.  The    *)
(* uncontended acquire is this step followed at once by Acquire.  A poll   *)
(* that is under way when the entry is unloaded goes on calling after the  *)
(* disconnect.                                                             *)
Call(t, k) ==
    /\ pc[t] = "idle"
    /\ \A u \in Tasks : ~LoggingIn(u)
    /\ pc' = [pc EXCEPT ![t] = "queued"]
    /\ kind' = [kind EXCEPT ![t] = k]
    /\ waiters' = Append(waiters, t)
    /\ handled' = [handled EXCEPT ![t] = 0]
    /\ result' = [result EXCEPT ![t] = "none"]
    /\ UNCHANGED <<session, is_initialized, locker, cookie, disconnected, reply,
                   sent, logons>>

(* TpLinkApi.authenticate takes no lock.  Its one caller is the config     *)
(* flow, whose client serves a single task (_async_validate_switch): while *)
(* it logs on nobody has a call open.                                      *)
Login(t) ==
    /\ ~disconnected
    /\ \A u \in Tasks : pc[u] = "idle"
    /\ BeginLogon(t)
    /\ kind' = [kind EXCEPT ![t] = "login"]
    /\ handled' = [handled EXCEPT ![t] = 0]
    /\ result' = [result EXCEPT ![t] = "none"]
    /\ UNCHANGED <<locker, waiters, disconnected>>

(* asyncio.Lock: the first waiter takes the lock once it is free.          *)
IsNext(t) == waiters # <<>> /\ Head(waiters) = t

(* Fault of Acquire: get and post run without "async with _call_locker".   *)
FaultyAcquireNoLock(t) ==
    /\ pc[t] = "queued"
    /\ IsNext(t)
    /\ waiters' = Tail(waiters)
    /\ IF is_initialized
       THEN SendRequest(t)
       ELSE BeginLogon(t) /\ locker' = t /\ UNCHANGED result
    /\ UNCHANGED <<disconnected, kind, handled>>

(* The body of get and post from the lock to the first await:              *)
(* _ensure_initialized, and the request if the client is logged on.        *)
Acquire(t) ==
    /\ pc[t] = "queued"
    /\ locker = NoTask
    /\ IsNext(t)
    /\ waiters' = Tail(waiters)
    /\ IF is_initialized
       THEN SendRequest(t)
       ELSE BeginLogon(t) /\ locker' = t /\ UNCHANGED result
    /\ UNCHANGED <<disconnected, kind, handled>>

(* authenticate() from the answer of logon.cgi on, and what its caller     *)
(* does next: send the request, or nothing for the config flow.            *)
LogonReply(t) ==
    /\ pc[t] = "logon"
    /\ reply[t] # "pending"
    /\ IF reply[t] = "refused"
       THEN Return(t, "auth", FALSE) /\ UNCHANGED <<session, cookie>>
       ELSE IF kind[t] = "login"
       THEN Return(t, "ok", TRUE) /\ UNCHANGED <<session, cookie>>
       ELSE SendRequest(t)
    /\ UNCHANGED <<waiters, disconnected, kind, handled>>

(* Fault of Classify: the reason is reported instead of a category.        *)
FaultyClassifyReason(r) == r

(* How get and post classify the answer of the page: the body is read      *)
(* before the status is looked at, and the status before the login page.   *)
Classify(r) ==
    CASE r = "page" -> "ok"
      [] r = "unauthorised" -> "unauthorized"
      [] r = "closed" -> "disconnected"
      [] r = "broken" -> "raw"
      [] OTHER -> "request"

(* Fault of RequestReply: retry as long as the answer is unauthorised.     *)
FaultyRequestReplyForever(t) ==
    /\ pc[t] = "request"
    /\ reply[t] # "pending"
    /\ IF reply[t] = "unauthorised"
       THEN BeginLogon(t) /\ UNCHANGED <<locker, result>>
       ELSE /\ Return(t, Classify(reply[t]), is_initialized)
            /\ UNCHANGED <<session, cookie>>
    /\ UNCHANGED <<waiters, disconnected, kind, handled>>

(* Fault of RequestReply: retry after a closed connection too.             *)
FaultyRequestReplyClosed(t) ==
    /\ pc[t] = "request"
    /\ reply[t] # "pending"
    /\ IF reply[t] \in {"unauthorised", "closed"} /\ sent[t] = 1
       THEN BeginLogon(t) /\ UNCHANGED <<locker, result>>
       ELSE /\ Return(t, Classify(reply[t]), is_initialized)
            /\ UNCHANGED <<session, cookie>>
    /\ UNCHANGED <<waiters, disconnected, kind, handled>>

(* get and post from the answer on: an unauthorised answer to the first    *)
(* request leads to one more logon and one more request.                   *)
RequestReply(t) ==
    /\ pc[t] = "request"
    /\ reply[t] # "pending"
    /\ IF reply[t] = "unauthorised" /\ sent[t] = 1
       THEN BeginLogon(t) /\ UNCHANGED <<locker, result>>
       ELSE /\ Return(t, Classify(reply[t]), is_initialized)
            /\ UNCHANGED <<session, cookie>>
    /\ UNCHANGED <<waiters, disconnected, kind, handled>>

(* CancelledError at any await passes every handler; the lock is released  *)
(* and a waiter leaves the queue.                                          *)
Cancel(t) ==
    /\ pc[t] # "idle"
    /\ Return(t, "cancelled", is_initialized)
    /\ IF pc[t] = "queued"
       THEN \E i \in 1..Len(waiters) :
                /\ waiters[i] = t
                /\ waiters' = SubSeq(waiters, 1, i - 1)
                                \o SubSeq(waiters, i + 1, Len(waiters))
       ELSE UNCHANGED waiters
    /\ UNCHANGED <<session, cookie, disconnected, kind, handled>>

(* disconnect(), without the lock.  It runs once per client: when the      *)
(* entry is unloaded or its setup rolled back, and at the end of the       *)
(* validation of the config flow.  The session it lets go of is the one    *)
(* that was given to the client, so it does not await.                     *)
Disconnect ==
    /\ ~disconnected
    /\ disconnected' = TRUE
    /\ session' = "none"
    /\ is_initialized' = FALSE
    /\ UNCHANGED <<locker, waiters, cookie, pc, kind, reply, sent, logons,
                   handled, result>>

-----------------------------------------------------------------------------
(* The switch and the network.                                             *)

Awaits(t, p) == pc[t] = p /\ reply[t] = "pending"

(* A request that carries a live cookie is carried out, whatever becomes   *)
(* of its answer.                                                          *)
Serve(t) ==
    /\ Awaits(t, "request")
    /\ cookie = "valid"
    /\ handled' = [handled EXCEPT ![t] = @ + 1]
    /\ \E r \in PageReplies \ {"unauthorised"} : reply' = [reply EXCEPT ![t] = r]
    /\ UNCHANGED <<session, is_initialized, locker, waiters, cookie,
                   disconnected, pc, kind, sent, logons, result>>

(* Any other request is answered with the login page, 401 or 403.          *)
Deny(t) ==
    /\ Awaits(t, "request")
    /\ cookie # "valid"
    /\ reply' = [reply EXCEPT ![t] = "unauthorised"]
    /\ UNCHANGED <<session, is_initialized, locker, waiters, cookie,
                   disconnected, pc, kind, sent, logons, handled, result>>

(* The request fails without having been carried out.                      *)
Drop(t) ==
    /\ Awaits(t, "request")
    /\ \E r \in {"status", "broken", "closed", "failed"} :
           reply' = [reply EXCEPT ![t] = r]
    /\ UNCHANGED <<session, is_initialized, locker, waiters, cookie,
                   disconnected, pc, kind, sent, logons, handled, result>>

(* logon.cgi answers "0" and sets the cookie.                              *)
Welcome(t) ==
    /\ Awaits(t, "logon")
    /\ reply' = [reply EXCEPT ![t] = "welcome"]
    /\ cookie' = "valid"
    /\ UNCHANGED <<session, is_initialized, locker, waiters, disconnected, pc,
                   kind, sent, logons, handled, result>>

(* logon.cgi answers anything else, or the call to it fails.               *)
Refuse(t) ==
    /\ Awaits(t, "logon")
    /\ reply' = [reply EXCEPT ![t] = "refused"]
    /\ UNCHANGED <<session, is_initialized, locker, waiters, cookie,
                   disconnected, pc, kind, sent, logons, handled, result>>

(* The switch forgets the session: it timed out, somebody else logged on,  *)
(* or the web server restarted.                                            *)
Forget ==
    /\ cookie = "valid"
    /\ cookie' = "stale"
    /\ UNCHANGED <<session, is_initialized, locker, waiters, disconnected, pc,
                   kind, reply, sent, logons, handled, result>>

Answer(t) == Serve(t) \/ Deny(t) \/ Drop(t) \/ Welcome(t) \/ Refuse(t)

-----------------------------------------------------------------------------

Next ==
    \/ \E t \in Tasks :
           \/ \E k \in {"read", "apply", "restart"} : Call(t, k)
           \/ Login(t)
           \/ Acquire(t)
           \/ LogonReply(t)
           \/ RequestReply(t)
           \/ Cancel(t)
           \/ Serve(t)
           \/ Deny(t)
           \/ Drop(t)
           \/ Welcome(t)
           \/ Refuse(t)
    \/ Disconnect
    \/ Forget

Spec == Init /\ [][Next]_vars

(* asyncio runs every task that can run, and every raw request ends within *)
(* the 5 seconds of its ClientTimeout.                                     *)
Fairness ==
    \A t \in Tasks : /\ WF_vars(Acquire(t))
                     /\ WF_vars(LogonReply(t))
                     /\ WF_vars(RequestReply(t))
                     /\ WF_vars(Answer(t))

FairSpec == Spec /\ Fairness

-----------------------------------------------------------------------------
(* Properties.                                                             *)

OnTheWire(t) == pc[t] \in {"logon", "request"}

(* The lock serialises the switch's small web server: at most one task     *)
(* awaits an answer, a logon included, and it owns the lock unless it is   *)
(* the config flow logging on; the lock is never left behind by a call     *)
(* that has ended, failed or been cancelled ("async with                   *)
(* self._call_locker" in get and post).                                    *)
OneOnTheWire ==
    /\ \A t, u \in Tasks : OnTheWire(t) /\ OnTheWire(u) => t = u
    /\ \A t \in Tasks : locker = t => OnTheWire(t)
    /\ \A t \in Tasks : OnTheWire(t) => locker = t \/ kind[t] = "login"

(* While a request is under way nobody logs the client out under it: the   *)
(* unlocked invalidate_authentication calls of _apply_get, _apply_post and *)
(* reboot run before the next task is let in.  Only disconnect may.        *)
RequestIsLoggedOn ==
    \A t \in Tasks : pc[t] = "request" => is_initialized \/ disconnected

(* A client that believes it is logged on has not cleared its cookies: a   *)
(* logon that is refused, fails or is cancelled leaves it logged out.      *)
LoggedOnHasCookie ==
    is_initialized /\ session # "none" => cookie # "none"

(* An unauthorised answer is retried once, after one more logon: a call    *)
(* never hammers a switch that keeps refusing it.                          *)
BoundedRetry ==
    \A t \in Tasks :
        /\ sent[t] <= 2
        /\ sent[t] = 2 => logons[t] \in {1, 2}
        /\ logons[t] <= sent[t] + 1

(* The client keeps the promises of SwitchCalls: a request is carried out  *)
(* at most once although it may be sent twice, a read only returns what    *)
(* the switch produced, and a refusal means that nothing was carried out.  *)
ImplementsSwitchCalls == Calls!Spec

(* Every call ends, however the switch answers and whoever else calls.     *)
EveryCallEnds == \A t \in Tasks : pc[t] # "idle" ~> pc[t] = "idle"

(* What the comment in _apply_get and the debug line of both wrappers say  *)
(* of a connection closed before an answer: the change had been applied.   *)
SuccessMeansApplied ==
    \A t \in Tasks :
        result[t] = "ok" /\ kind[t] \in {"apply", "restart"} => handled[t] = 1

(* What disconnect() is for ("Close session."; the session is not to be    *)
(* leaked): once it has run and the calls under way have ended, the client *)
(* has no session.                                                         *)
DisconnectClosesSession ==
    disconnected /\ (\A t \in Tasks : pc[t] = "idle") => session = "none"

=============================================================================

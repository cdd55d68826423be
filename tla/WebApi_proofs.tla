--------------------------- MODULE WebApi_proofs ---------------------------
(***************************************************************************)
(* Proofs about WebApi, for any set of tasks.                              *)
(* TypeOK comes first; IInv then adds who is on the wire, what may come    *)
(* back at each place where a task waits, and how far each call has got.   *)
(* The properties of WebApi and the refinement of SwitchCalls follow from  *)
(* IInv.                                                                   *)
(***************************************************************************)
EXTENDS WebApi, SequenceTheorems, TLAPS

-----------------------------------------------------------------------------
(* The inductive invariant.                                                *)

(* What may come back to a task depends on where it waits.                 *)
ReplyInv ==
    \A t \in Tasks :
        /\ pc[t] \in {"idle", "queued"} => reply[t] = "none"
        /\ pc[t] = "logon" => reply[t] \in {"pending"} \cup LogonReplies
        /\ pc[t] = "request" => reply[t] \in {"pending"} \cup PageReplies
        /\ reply[t] = "welcome" => cookie # "none"

(* While the config flow logs on, it is alone with its client.             *)
AloneInv ==
    \A t, u \in Tasks : LoggingIn(t) /\ pc[u] # "idle" => t = u

(* How many messages a call has sent, by the place where it waits.         *)
TrafficInv ==
    \A t \in Tasks :
        /\ pc[t] \in {"idle", "queued"} => sent[t] = 0 /\ logons[t] = 0
        /\ pc[t] = "logon" => \/ sent[t] = 0 /\ logons[t] = 1
                              \/ sent[t] = 1 /\ logons[t] \in {1, 2}
        /\ pc[t] = "request" => \/ sent[t] = 1 /\ logons[t] \in {0, 1}
                                \/ sent[t] = 2 /\ logons[t] \in {1, 2}

(* The request of a call has been carried out only once the answer to it   *)
(* is under way, and then the answer is not a refusal.                     *)
HandledInv ==
    \A t \in Tasks :
        /\ pc[t] \in {"queued", "logon"} => handled[t] = 0
        /\ pc[t] = "request" /\ reply[t] \in {"pending", "unauthorised"} =>
               handled[t] = 0
        /\ pc[t] = "request" /\ reply[t] = "page" => handled[t] = 1
        /\ pc[t] \in {"queued", "request"} => kind[t] # "login"

IInv ==
    /\ OneOnTheWire
    /\ RequestIsLoggedOn
    /\ LoggedOnHasCookie
    /\ AloneInv
    /\ ReplyInv
    /\ TrafficInv
    /\ HandledInv

-----------------------------------------------------------------------------
(* Type correctness.                                                       *)

(* A waiter that leaves the queue leaves a queue of tasks.                 *)
LEMMA WithoutWaiter ==
    ASSUME NEW S, NEW s \in Seq(S), NEW i \in 1..Len(s)
    PROVE  SubSeq(s, 1, i - 1) \o SubSeq(s, i + 1, Len(s)) \in Seq(S)
<1>1. Len(s) \in Nat /\ \A j \in 1..Len(s) : s[j] \in S
    BY ElementOfSeq, LenProperties
<1>2. SubSeq(s, 1, i - 1) \in Seq(S)
    <2>1. \A j \in 1..(i - 1) : s[j] \in S
        BY <1>1
    <2>2. 1 \in Int /\ i - 1 \in Int
        BY <1>1
    <2>3. QED
        BY <2>1, <2>2, SubSeqProperties
<1>3. SubSeq(s, i + 1, Len(s)) \in Seq(S)
    <2>1. \A j \in (i + 1)..Len(s) : s[j] \in S
        BY <1>1
    <2>2. i + 1 \in Int /\ Len(s) \in Int
        BY <1>1
    <2>3. QED
        BY <2>1, <2>2, SubSeqProperties
<1>4. QED
    BY <1>2, <1>3, ConcatProperties

(* How a call ends is one of the results that SwitchCalls knows.           *)
LEMMA OutcomeType ==
    ASSUME NEW k \in Kinds, NEW r \in Calls!Results
    PROVE  Outcome(k, r) \in Calls!Results
BY DEF Outcome, Forgiven, Calls!Results

(* And so is every classification of an answer.                            *)
LEMMA ClassifyType ==
    ASSUME NEW r
    PROVE  Classify(r) \in Calls!Results
BY DEF Classify, Calls!Results

(* Leaving a call assigns values of the right types.                       *)
LEMMA ReturnType ==
    ASSUME TypeOK, NEW t \in Tasks, NEW r \in Calls!Results,
           NEW auth \in BOOLEAN, Return(t, r, auth)
    PROVE  /\ pc' \in [Tasks -> {"idle", "queued", "logon", "request"}]
           /\ reply' \in [Tasks -> {"none", "pending"} \cup PageReplies
                                       \cup LogonReplies]
           /\ result' \in [Tasks -> Calls!Results]
           /\ sent' \in [Tasks -> Nat]
           /\ logons' \in [Tasks -> Nat]
           /\ locker' \in Tasks \cup {NoTask}
           /\ is_initialized' \in BOOLEAN
<1>1. Outcome(kind[t], r) \in Calls!Results
    BY OutcomeType DEF TypeOK
<1>2. is_initialized' \in BOOLEAN
    BY Zenon DEF Return
<1>3. QED
    BY <1>1, <1>2 DEF Return, TypeOK

(* Logging on assigns values of the right types.                           *)
LEMMA BeginLogonType ==
    ASSUME TypeOK, NEW t \in Tasks, BeginLogon(t)
    PROVE  /\ is_initialized' \in BOOLEAN
           /\ session' \in {"injected", "own", "none"}
           /\ cookie' \in {"none", "valid", "stale"}
           /\ pc' \in [Tasks -> {"idle", "queued", "logon", "request"}]
           /\ reply' \in [Tasks -> {"none", "pending"} \cup PageReplies
                                       \cup LogonReplies]
           /\ sent' \in [Tasks -> Nat]
           /\ logons' \in [Tasks -> Nat]
<1>1. is_initialized' \in BOOLEAN
    BY DEF BeginLogon
<1>2. session' \in {"injected", "own", "none"} /\ cookie' \in {"none", "valid", "stale"}
    BY DEF BeginLogon, TypeOK
<1>3. QED
    BY <1>1, <1>2 DEF BeginLogon, TypeOK

(* Sending a request assigns values of the right types.                    *)
LEMMA SendRequestType ==
    ASSUME TypeOK, NEW t \in Tasks, SendRequest(t)
    PROVE  /\ is_initialized' \in BOOLEAN
           /\ session' \in {"injected", "own", "none"}
           /\ cookie' \in {"none", "valid", "stale"}
           /\ locker' \in Tasks \cup {NoTask}
           /\ pc' \in [Tasks -> {"idle", "queued", "logon", "request"}]
           /\ reply' \in [Tasks -> {"none", "pending"} \cup PageReplies
                                       \cup LogonReplies]
           /\ sent' \in [Tasks -> Nat]
           /\ logons' \in [Tasks -> Nat]
           /\ result' \in [Tasks -> Calls!Results]
<1>1. session' \in {"injected", "own", "none"} /\ cookie' \in {"none", "valid", "stale"}
    BY DEF SendRequest, TypeOK
<1>2. CASE session = "none"
    <2>1. Return(t, "request", TRUE)
        BY <1>2 DEF SendRequest
    <2>2. "request" \in Calls!Results
        BY DEF Calls!Results
    <2>3. QED
        BY <1>1, <2>1, <2>2, ReturnType
<1>3. CASE session # "none"
    <2>1. is_initialized' \in BOOLEAN
        BY <1>3 DEF SendRequest
    <2>2. locker' \in Tasks \cup {NoTask} /\ result' \in [Tasks -> Calls!Results]
        BY <1>3 DEF SendRequest, TypeOK
    <2>3. pc' \in [Tasks -> {"idle", "queued", "logon", "request"}]
        BY <1>3 DEF SendRequest, TypeOK
    <2>4. reply' \in [Tasks -> {"none", "pending"} \cup PageReplies
                                   \cup LogonReplies]
        BY <1>3 DEF SendRequest, TypeOK
    <2>5. sent' \in [Tasks -> Nat] /\ logons' \in [Tasks -> Nat]
        <3>1. sent \in [Tasks -> Nat] /\ logons \in [Tasks -> Nat]
            BY DEF TypeOK
        <3>2. sent' = [sent EXCEPT ![t] = sent[t] + 1] /\ logons' = logons
            BY <1>3 DEF SendRequest
        <3>3. QED
            BY <3>1, <3>2
    <2>6. QED
        BY <1>1, <2>1, <2>2, <2>3, <2>4, <2>5
<1>4. QED
    BY <1>2, <1>3

(* Every step keeps every variable in its type.                            *)
LEMMA TypeStep == TypeOK /\ [Next]_vars => TypeOK'
<1> SUFFICES ASSUME TypeOK, [Next]_vars
             PROVE  TypeOK'
    OBVIOUS
<1>1. ASSUME NEW t \in Tasks, NEW k \in {"read", "apply", "restart"}, Call(t, k)
      PROVE  TypeOK'
    BY <1>1 DEF Call, TypeOK, Kinds, Calls!Kinds, Calls!Results
<1>2. ASSUME NEW t \in Tasks, Login(t)
      PROVE  TypeOK'
    BY <1>2, BeginLogonType DEF Login, TypeOK, Kinds, Calls!Kinds, Calls!Results
<1>3. ASSUME NEW t \in Tasks, Acquire(t)
      PROVE  TypeOK'
    <2>1. waiters' \in Seq(Tasks)
        BY <1>3, HeadTailProperties DEF Acquire, IsNext, TypeOK
    <2>2. CASE is_initialized
        BY <1>3, <2>1, <2>2, SendRequestType DEF Acquire, TypeOK
    <2>3. CASE ~is_initialized
        BY <1>3, <2>1, <2>3, BeginLogonType DEF Acquire, TypeOK
    <2>4. QED
        BY <2>2, <2>3
<1>4. ASSUME NEW t \in Tasks, LogonReply(t)
      PROVE  TypeOK'
    <2>1. CASE Return(t, "auth", FALSE) /\ UNCHANGED <<session, cookie>>
        BY <1>4, <2>1, ReturnType DEF LogonReply, TypeOK, Calls!Results
    <2>2. CASE Return(t, "ok", TRUE) /\ UNCHANGED <<session, cookie>>
        BY <1>4, <2>2, ReturnType DEF LogonReply, TypeOK, Calls!Results
    <2>3. CASE SendRequest(t)
        BY <1>4, <2>3, SendRequestType DEF LogonReply, TypeOK
    <2>4. QED
        BY <1>4, <2>1, <2>2, <2>3 DEF LogonReply
<1>5. ASSUME NEW t \in Tasks, RequestReply(t)
      PROVE  TypeOK'
    <2>1. CASE BeginLogon(t) /\ UNCHANGED <<locker, result>>
        BY <1>5, <2>1, BeginLogonType DEF RequestReply, TypeOK
    <2>2. CASE /\ Return(t, Classify(reply[t]), is_initialized)
               /\ UNCHANGED <<session, cookie>>
        <3>1. Classify(reply[t]) \in Calls!Results /\ is_initialized \in BOOLEAN
            BY ClassifyType DEF TypeOK
        <3>2. QED
            BY <1>5, <2>2, <3>1, ReturnType DEF RequestReply, TypeOK
    <2>3. QED
        BY <1>5, <2>1, <2>2 DEF RequestReply
<1>6. ASSUME NEW t \in Tasks, Cancel(t)
      PROVE  TypeOK'
    <2>1. "cancelled" \in Calls!Results /\ is_initialized \in BOOLEAN
        BY DEF Calls!Results, TypeOK
    <2>2. waiters' \in Seq(Tasks)
        BY <1>6, WithoutWaiter DEF Cancel, TypeOK
    <2>3. Return(t, "cancelled", is_initialized)
        BY <1>6 DEF Cancel
    <2>4. /\ pc' \in [Tasks -> {"idle", "queued", "logon", "request"}]
          /\ reply' \in [Tasks -> {"none", "pending"} \cup PageReplies
                                      \cup LogonReplies]
          /\ result' \in [Tasks -> Calls!Results]
          /\ sent' \in [Tasks -> Nat]
          /\ logons' \in [Tasks -> Nat]
          /\ locker' \in Tasks \cup {NoTask}
          /\ is_initialized' \in BOOLEAN
        BY <2>1, <2>3, ReturnType
    <2>5. UNCHANGED <<session, cookie, disconnected, kind, handled>>
        BY <1>6 DEF Cancel
    <2>6. QED
        BY <2>2, <2>4, <2>5 DEF TypeOK
<1>7. CASE Disconnect
    BY <1>7 DEF Disconnect, TypeOK
<1>8. ASSUME NEW t \in Tasks,
             Serve(t) \/ Deny(t) \/ Drop(t) \/ Welcome(t) \/ Refuse(t)
      PROVE  TypeOK'
    <2>1. reply' \in [Tasks -> {"none", "pending"} \cup PageReplies \cup LogonReplies]
        BY <1>8 DEF Serve, Deny, Drop, Welcome, Refuse, TypeOK, PageReplies, LogonReplies
    <2>2. handled' \in [Tasks -> Nat]
        <3>1. handled \in [Tasks -> Nat]
            BY DEF TypeOK
        <3>2. \/ handled' = [handled EXCEPT ![t] = handled[t] + 1]
              \/ handled' = handled
            BY <1>8 DEF Serve, Deny, Drop, Welcome, Refuse
        <3>3. QED
            BY <3>1, <3>2
    <2>3. cookie' \in {"none", "valid", "stale"}
        BY <1>8 DEF Serve, Deny, Drop, Welcome, Refuse, TypeOK
    <2>4. UNCHANGED <<session, is_initialized, locker, waiters, disconnected,
                      pc, kind, sent, logons, result>>
        BY <1>8 DEF Serve, Deny, Drop, Welcome, Refuse
    <2>5. QED
        BY <2>1, <2>2, <2>3, <2>4 DEF TypeOK
<1>9. CASE Forget
    BY <1>9 DEF Forget, TypeOK
<1>10. CASE UNCHANGED vars
    BY <1>10 DEF vars, TypeOK
<1>11. QED
    BY <1>1, <1>2, <1>3, <1>4, <1>5, <1>6, <1>7, <1>8, <1>9, <1>10 DEF Next

(* Every variable keeps its type, for every set of tasks.                  *)
THEOREM TypeCorrect == Spec => []TypeOK
<1>1. Init => TypeOK
    <2> SUFFICES ASSUME Init
                 PROVE  TypeOK
        OBVIOUS
    <2>1. is_initialized \in BOOLEAN /\ disconnected \in BOOLEAN
        BY DEF Init
    <2>2. session \in {"injected", "own", "none"}
        BY DEF Init
    <2>3. kind \in [Tasks -> Kinds] /\ result \in [Tasks -> Calls!Results]
        BY DEF Init, Kinds, Calls!Kinds, Calls!Results
    <2>4. waiters \in Seq(Tasks) /\ locker \in Tasks \cup {NoTask}
        BY DEF Init
    <2>5. QED
        BY <2>1, <2>2, <2>3, <2>4 DEF Init, TypeOK
<1>2. QED
    BY <1>1, TypeStep, PTL DEF Spec

-----------------------------------------------------------------------------
(* Every step preserves every part of the invariant.                       *)

(* The lock: who is on the wire, and who owns the lock.                    *)
LEMMA WireStep == TypeOK /\ IInv /\ [Next]_vars => OneOnTheWire'
<1> SUFFICES ASSUME TypeOK, IInv, [Next]_vars
             PROVE  OneOnTheWire'
    OBVIOUS
<1>1. ASSUME NEW t \in Tasks, Login(t)
      PROVE  OneOnTheWire'
    BY <1>1, NoTaskAssumption
       DEF IInv, TypeOK, Login, BeginLogon, OneOnTheWire, OnTheWire
<1>2. ASSUME NEW t \in Tasks, NEW k \in {"read", "apply", "restart"}, Call(t, k)
      PROVE  OneOnTheWire'
    BY <1>2
       DEF IInv, TypeOK, Call, OneOnTheWire, OnTheWire
<1>3. ASSUME NEW t \in Tasks, Acquire(t)
      PROVE  OneOnTheWire'
    <2>1. \A u \in Tasks : OnTheWire(u) => u = t
        BY <1>3, NoTaskAssumption
           DEF Acquire, IInv, OneOnTheWire, OnTheWire, AloneInv, LoggingIn
    <2>2. \/ pc' = [pc EXCEPT ![t] = "idle"] /\ locker' = NoTask
          \/ pc' = [pc EXCEPT ![t] = "logon"] /\ locker' = t
          \/ pc' = [pc EXCEPT ![t] = "request"] /\ locker' = t
        BY <1>3, NoTaskAssumption DEF Acquire, SendRequest, BeginLogon, Return
    <2>3. QED
        BY <2>1, <2>2, NoTaskAssumption DEF TypeOK, OneOnTheWire, OnTheWire
<1>4. ASSUME NEW t \in Tasks, LogonReply(t)
      PROVE  OneOnTheWire'
    <2>1. /\ \A u \in Tasks : OnTheWire(u) => u = t
          /\ locker \in {t, NoTask}
        BY <1>4, NoTaskAssumption DEF LogonReply, IInv, OneOnTheWire, OnTheWire, TypeOK
    <2>2. \/ pc' = [pc EXCEPT ![t] = "idle"] /\ locker' = NoTask
          \/ pc' = [pc EXCEPT ![t] = "request"] /\ locker' = t
        BY <1>4, <2>1, NoTaskAssumption DEF LogonReply, SendRequest, Return
    <2>3. QED
        BY <2>1, <2>2, NoTaskAssumption DEF TypeOK, OneOnTheWire, OnTheWire
<1>5. ASSUME NEW t \in Tasks, RequestReply(t)
      PROVE  OneOnTheWire'
    <2>1. /\ \A u \in Tasks : OnTheWire(u) => u = t
          /\ locker \in {t, NoTask}
          /\ locker = t
        BY <1>5, NoTaskAssumption
           DEF RequestReply, IInv, OneOnTheWire, OnTheWire, HandledInv, TypeOK
    <2>2. \/ pc' = [pc EXCEPT ![t] = "idle"] /\ locker' = NoTask
          \/ pc' = [pc EXCEPT ![t] = "logon"] /\ locker' = locker
        BY <1>5, <2>1, NoTaskAssumption DEF RequestReply, BeginLogon, Return
    <2>3. CASE pc' = [pc EXCEPT ![t] = "idle"] /\ locker' = NoTask
        BY <2>1, <2>3, NoTaskAssumption DEF TypeOK, OneOnTheWire, OnTheWire
    <2>4. CASE pc' = [pc EXCEPT ![t] = "logon"] /\ locker' = locker
        <3>1. \A u \in Tasks : OnTheWire(u)' <=> u = t
            BY <2>1, <2>4 DEF TypeOK, OnTheWire
        <3>2. QED
            BY <2>1, <2>4, <3>1, NoTaskAssumption DEF OneOnTheWire
    <2>5. QED
        BY <2>2, <2>3, <2>4
<1>6. ASSUME NEW t \in Tasks, Cancel(t)
      PROVE  OneOnTheWire'
    BY <1>6, NoTaskAssumption
       DEF IInv, TypeOK, Cancel, Return, OneOnTheWire, OnTheWire
<1>7. CASE Disconnect
    BY <1>7
       DEF IInv, TypeOK, Disconnect, OneOnTheWire, OnTheWire
<1>8. ASSUME NEW t \in Tasks,
             Serve(t) \/ Deny(t) \/ Drop(t) \/ Welcome(t) \/ Refuse(t)
      PROVE  OneOnTheWire'
    BY <1>8
       DEF IInv, TypeOK, Serve, Deny, Drop, Welcome, Refuse, Awaits,
           OneOnTheWire, OnTheWire
<1>9. CASE Forget
    BY <1>9
       DEF IInv, TypeOK, Forget, OneOnTheWire, OnTheWire
<1>10. CASE UNCHANGED vars
    BY <1>10
       DEF IInv, TypeOK, vars, OneOnTheWire, OnTheWire
<1>11. QED
    BY <1>1, <1>2, <1>3, <1>4, <1>5, <1>6, <1>7, <1>8, <1>9, <1>10 DEF Next

(* Nobody joins a task that logs on without the lock.                      *)
LEMMA AloneStep == TypeOK /\ IInv /\ [Next]_vars => AloneInv'
<1> SUFFICES ASSUME TypeOK, IInv, [Next]_vars
             PROVE  AloneInv'
    OBVIOUS
<1>1. ASSUME NEW t \in Tasks, NEW k \in {"read", "apply", "restart"}, Call(t, k)
      PROVE  AloneInv'
    BY <1>1 DEF TypeOK, Call, AloneInv, LoggingIn
<1>2. ASSUME NEW t \in Tasks, Login(t)
      PROVE  AloneInv'
    BY <1>2 DEF TypeOK, Login, BeginLogon, AloneInv, LoggingIn
<1>3. ASSUME NEW t \in Tasks,
             Acquire(t) \/ LogonReply(t) \/ RequestReply(t) \/ Cancel(t)
      PROVE  AloneInv'
    <2>1. pc[t] # "idle" /\ UNCHANGED kind
        BY <1>3 DEF Acquire, LogonReply, RequestReply, Cancel
    <2>2. PICK p : pc' = [pc EXCEPT ![t] = p]
        BY <1>3 DEF Acquire, LogonReply, RequestReply, Cancel, SendRequest,
                    BeginLogon, Return
    <2>3. QED
        BY <2>1, <2>2 DEF TypeOK, IInv, AloneInv, LoggingIn
<1>4. ASSUME NEW t \in Tasks,
             Serve(t) \/ Deny(t) \/ Drop(t) \/ Welcome(t) \/ Refuse(t)
      PROVE  AloneInv'
    BY <1>4 DEF Serve, Deny, Drop, Welcome, Refuse, IInv, AloneInv, LoggingIn
<1>5. CASE Disconnect \/ Forget \/ UNCHANGED vars
    BY <1>5 DEF Disconnect, Forget, vars, IInv, AloneInv, LoggingIn
<1>6. QED
    BY <1>1, <1>2, <1>3, <1>4, <1>5 DEF Next

(* Only disconnect logs the client out under a request.                    *)
LEMMA LoggedOnStep == TypeOK /\ IInv /\ [Next]_vars => RequestIsLoggedOn'
<1> SUFFICES ASSUME TypeOK, IInv, [Next]_vars
             PROVE  RequestIsLoggedOn'
    OBVIOUS
<1>1. ASSUME NEW t \in Tasks, Login(t)
      PROVE  RequestIsLoggedOn'
    BY <1>1, NoTaskAssumption
       DEF IInv, TypeOK, Login, BeginLogon, RequestIsLoggedOn,
           OneOnTheWire, OnTheWire
<1>2. ASSUME NEW t \in Tasks, NEW k \in {"read", "apply", "restart"}, Call(t, k)
      PROVE  RequestIsLoggedOn'
    BY <1>2 DEF IInv, TypeOK, Call, RequestIsLoggedOn
<1>3. ASSUME NEW t \in Tasks, Acquire(t)
      PROVE  RequestIsLoggedOn'
    <2>1. \A u \in Tasks : pc[u] = "request" => u = t
        BY <1>3, NoTaskAssumption
           DEF Acquire, IInv, OneOnTheWire, OnTheWire, AloneInv, LoggingIn
    <2>2. \/ pc' = [pc EXCEPT ![t] = "idle"]
          \/ pc' = [pc EXCEPT ![t] = "logon"]
          \/ pc' = [pc EXCEPT ![t] = "request"] /\ is_initialized'
        BY <1>3 DEF Acquire, SendRequest, BeginLogon, Return
    <2>3. QED
        BY <2>1, <2>2 DEF TypeOK, RequestIsLoggedOn
<1>4. ASSUME NEW t \in Tasks, LogonReply(t)
      PROVE  RequestIsLoggedOn'
    <2>1. \A u \in Tasks : pc[u] # "request"
        BY <1>4 DEF LogonReply, IInv, OneOnTheWire, OnTheWire
    <2>2. \/ pc' = [pc EXCEPT ![t] = "idle"]
          \/ pc' = [pc EXCEPT ![t] = "request"] /\ is_initialized'
        BY <1>4 DEF LogonReply, SendRequest, Return
    <2>3. QED
        BY <2>1, <2>2 DEF TypeOK, RequestIsLoggedOn
<1>5. ASSUME NEW t \in Tasks, RequestReply(t)
      PROVE  RequestIsLoggedOn'
    <2>1. \A u \in Tasks : pc[u] = "request" => u = t
        BY <1>5 DEF RequestReply, IInv, OneOnTheWire, OnTheWire
    <2>2. \/ pc' = [pc EXCEPT ![t] = "idle"]
          \/ pc' = [pc EXCEPT ![t] = "logon"]
        BY <1>5 DEF RequestReply, BeginLogon, Return
    <2>3. QED
        BY <2>1, <2>2 DEF TypeOK, RequestIsLoggedOn
<1>6. ASSUME NEW t \in Tasks, Cancel(t)
      PROVE  RequestIsLoggedOn'
    <2>1. ~Invalidates(kind[t], "cancelled")
        BY DEF Invalidates, Forgiven
    <2>2. is_initialized' = is_initialized
        BY <1>6, <2>1, Zenon DEF Cancel, Return, TypeOK
    <2>3. pc' = [pc EXCEPT ![t] = "idle"] /\ disconnected' = disconnected
        BY <1>6 DEF Cancel, Return
    <2>4. QED
        BY <2>2, <2>3 DEF TypeOK, IInv, RequestIsLoggedOn
<1>7. CASE Disconnect
    BY <1>7
       DEF IInv, TypeOK, Disconnect, RequestIsLoggedOn
<1>8. ASSUME NEW t \in Tasks,
             Serve(t) \/ Deny(t) \/ Drop(t) \/ Welcome(t) \/ Refuse(t)
      PROVE  RequestIsLoggedOn'
    BY <1>8
       DEF IInv, TypeOK, Serve, Deny, Drop, Welcome, Refuse, Awaits,
           RequestIsLoggedOn
<1>9. CASE Forget
    BY <1>9 DEF IInv, TypeOK, Forget, RequestIsLoggedOn
<1>10. CASE UNCHANGED vars
    BY <1>10 DEF IInv, TypeOK, vars, RequestIsLoggedOn
<1>11. QED
    BY <1>1, <1>2, <1>3, <1>4, <1>5, <1>6, <1>7, <1>8, <1>9, <1>10 DEF Next

(* A client that is logged on kept its cookies.                            *)
LEMMA CookieStep == TypeOK /\ IInv /\ [Next]_vars => LoggedOnHasCookie'
<1> SUFFICES ASSUME TypeOK, IInv, [Next]_vars
             PROVE  LoggedOnHasCookie'
    OBVIOUS
<1>1. ASSUME NEW t \in Tasks, Login(t)
      PROVE  LoggedOnHasCookie'
    BY <1>1, NoTaskAssumption
       DEF IInv, TypeOK, Login, BeginLogon, LoggedOnHasCookie, ReplyInv
<1>2. ASSUME NEW t \in Tasks, NEW k \in {"read", "apply", "restart"}, Call(t, k)
      PROVE  LoggedOnHasCookie'
    BY <1>2 DEF IInv, TypeOK, Call, LoggedOnHasCookie
<1>3. ASSUME NEW t \in Tasks, Acquire(t)
      PROVE  LoggedOnHasCookie'
    BY <1>3, NoTaskAssumption
       DEF IInv, TypeOK, Acquire, SendRequest, BeginLogon, Return,
           LoggedOnHasCookie, ReplyInv
<1>4. ASSUME NEW t \in Tasks, LogonReply(t)
      PROVE  LoggedOnHasCookie'
    <2>1. /\ reply[t] # "refused" => cookie # "none"
          /\ cookie' = cookie
        BY <1>4 DEF LogonReply, SendRequest, IInv, ReplyInv, LogonReplies
    <2>2. reply[t] = "refused" => ~is_initialized'
        BY <1>4 DEF LogonReply, Return
    <2>3. QED
        BY <2>1, <2>2 DEF LoggedOnHasCookie
<1>5. ASSUME NEW t \in Tasks, RequestReply(t)
      PROVE  LoggedOnHasCookie'
    BY <1>5, NoTaskAssumption
       DEF IInv, TypeOK, RequestReply, BeginLogon, Return, Classify,
           LoggedOnHasCookie, ReplyInv
<1>6. ASSUME NEW t \in Tasks, Cancel(t)
      PROVE  LoggedOnHasCookie'
    BY <1>6, NoTaskAssumption
       DEF IInv, TypeOK, Cancel, Return, LoggedOnHasCookie, ReplyInv
<1>7. CASE Disconnect
    BY <1>7
       DEF IInv, TypeOK, Disconnect, LoggedOnHasCookie
<1>8. ASSUME NEW t \in Tasks,
             Serve(t) \/ Deny(t) \/ Drop(t) \/ Welcome(t) \/ Refuse(t)
      PROVE  LoggedOnHasCookie'
    BY <1>8
       DEF IInv, TypeOK, Serve, Deny, Drop, Welcome, Refuse, Awaits,
           LoggedOnHasCookie, ReplyInv
<1>9. CASE Forget
    BY <1>9 DEF IInv, TypeOK, Forget, LoggedOnHasCookie
<1>10. CASE UNCHANGED vars
    BY <1>10 DEF IInv, TypeOK, vars, LoggedOnHasCookie
<1>11. QED
    BY <1>1, <1>2, <1>3, <1>4, <1>5, <1>6, <1>7, <1>8, <1>9, <1>10 DEF Next

(* What is on its way to a task fits the place where it waits.             *)
LEMMA ReplyStep == TypeOK /\ IInv /\ [Next]_vars => ReplyInv'
<1> SUFFICES ASSUME TypeOK, IInv, [Next]_vars
             PROVE  ReplyInv'
    OBVIOUS
<1>1. ASSUME NEW t \in Tasks, Login(t)
      PROVE  ReplyInv'
    BY <1>1, NoTaskAssumption
       DEF IInv, TypeOK, Login, BeginLogon, ReplyInv, OneOnTheWire,
           OnTheWire, PageReplies, LogonReplies
<1>2. ASSUME NEW t \in Tasks, NEW k \in {"read", "apply", "restart"}, Call(t, k)
      PROVE  ReplyInv'
    BY <1>2 DEF IInv, TypeOK, Call, ReplyInv
<1>3. ASSUME NEW t \in Tasks, Acquire(t)
      PROVE  ReplyInv'
    <2>1. \A u \in Tasks : ~OnTheWire(u)
        BY <1>3, NoTaskAssumption
           DEF Acquire, IInv, OneOnTheWire, OnTheWire, AloneInv, LoggingIn
    <2>2. \A u \in Tasks : pc[u] \in {"idle", "queued"} /\ reply[u] = "none"
        BY <2>1 DEF IInv, ReplyInv, OnTheWire, TypeOK
    <2>3. \/ pc' = [pc EXCEPT ![t] = "idle"] /\ reply' = [reply EXCEPT ![t] = "none"]
          \/ /\ pc' = [pc EXCEPT ![t] = "logon"]
             /\ reply' = [reply EXCEPT ![t] = "pending"]
          \/ /\ pc' = [pc EXCEPT ![t] = "request"]
             /\ reply' = [reply EXCEPT ![t] = "pending"]
        BY <1>3 DEF Acquire, SendRequest, BeginLogon, Return
    <2>4. QED
        BY <2>2, <2>3 DEF TypeOK, ReplyInv
<1>4. ASSUME NEW t \in Tasks, LogonReply(t)
      PROVE  ReplyInv'
    <2>1. \A u \in Tasks : OnTheWire(u) => u = t
        BY <1>4 DEF LogonReply, IInv, OneOnTheWire, OnTheWire
    <2>2. \A u \in Tasks : u # t => pc[u] \in {"idle", "queued"} /\ reply[u] = "none"
        BY <2>1 DEF IInv, ReplyInv, OnTheWire, TypeOK
    <2>3. \/ pc' = [pc EXCEPT ![t] = "idle"] /\ reply' = [reply EXCEPT ![t] = "none"]
          \/ /\ pc' = [pc EXCEPT ![t] = "request"]
             /\ reply' = [reply EXCEPT ![t] = "pending"]
        BY <1>4 DEF LogonReply, SendRequest, Return
    <2>4. QED
        BY <2>2, <2>3 DEF TypeOK, ReplyInv
<1>5. ASSUME NEW t \in Tasks, RequestReply(t)
      PROVE  ReplyInv'
    <2>1. \A u \in Tasks : OnTheWire(u) => u = t
        BY <1>5 DEF RequestReply, IInv, OneOnTheWire, OnTheWire
    <2>2. \A u \in Tasks : u # t => reply[u] = "none"
        BY <2>1 DEF IInv, ReplyInv, OnTheWire, TypeOK
    <2>3. \/ pc' = [pc EXCEPT ![t] = "idle"] /\ reply' = [reply EXCEPT ![t] = "none"]
          \/ pc' = [pc EXCEPT ![t] = "logon"] /\ reply' = [reply EXCEPT ![t] = "pending"]
        BY <1>5 DEF RequestReply, BeginLogon, Return
    <2>4. \A u \in Tasks : u # t => pc[u] \in {"idle", "queued"}
        BY <2>1 DEF OnTheWire, TypeOK
    <2>5. QED
        BY <2>2, <2>3, <2>4 DEF TypeOK, ReplyInv
<1>6. ASSUME NEW t \in Tasks, Cancel(t)
      PROVE  ReplyInv'
    BY <1>6, NoTaskAssumption
       DEF IInv, TypeOK, Cancel, Return, ReplyInv, OneOnTheWire,
           OnTheWire, PageReplies, LogonReplies
<1>7. CASE Disconnect
    BY <1>7 DEF IInv, TypeOK, Disconnect, ReplyInv
<1>8. ASSUME NEW t \in Tasks,
             Serve(t) \/ Deny(t) \/ Drop(t) \/ Welcome(t) \/ Refuse(t)
      PROVE  ReplyInv'
    BY <1>8
       DEF IInv, TypeOK, Serve, Deny, Drop, Welcome, Refuse, Awaits,
           ReplyInv, PageReplies, LogonReplies
<1>9. CASE Forget
    BY <1>9 DEF IInv, TypeOK, Forget, ReplyInv
<1>10. CASE UNCHANGED vars
    BY <1>10 DEF IInv, TypeOK, vars, ReplyInv
<1>11. QED
    BY <1>1, <1>2, <1>3, <1>4, <1>5, <1>6, <1>7, <1>8, <1>9, <1>10 DEF Next

(* A call sends at most two requests and as many logons.                   *)
LEMMA TrafficStep == TypeOK /\ IInv /\ [Next]_vars => TrafficInv'
<1> SUFFICES ASSUME TypeOK, IInv, [Next]_vars
             PROVE  TrafficInv'
    OBVIOUS
<1>1. ASSUME NEW t \in Tasks, Login(t)
      PROVE  TrafficInv'
    BY <1>1
       DEF IInv, TypeOK, Login, BeginLogon, TrafficInv
<1>2. ASSUME NEW t \in Tasks, NEW k \in {"read", "apply", "restart"}, Call(t, k)
      PROVE  TrafficInv'
    BY <1>2 DEF IInv, TypeOK, Call, TrafficInv
<1>3. ASSUME NEW t \in Tasks, Acquire(t)
      PROVE  TrafficInv'
    <2>1. sent[t] = 0 /\ logons[t] = 0
        BY <1>3 DEF Acquire, IInv, TrafficInv
    <2>2. \/ /\ pc' = [pc EXCEPT ![t] = "idle"]
             /\ sent' = [sent EXCEPT ![t] = 0]
             /\ logons' = [logons EXCEPT ![t] = 0]
          \/ /\ pc' = [pc EXCEPT ![t] = "logon"]
             /\ sent' = sent
             /\ logons' = [logons EXCEPT ![t] = 1]
          \/ /\ pc' = [pc EXCEPT ![t] = "request"]
             /\ sent' = [sent EXCEPT ![t] = 1]
             /\ logons' = logons
        BY <1>3, <2>1 DEF Acquire, SendRequest, BeginLogon, Return
    <2>3. QED
        BY <2>1, <2>2 DEF TypeOK, IInv, TrafficInv
<1>4. ASSUME NEW t \in Tasks, LogonReply(t)
      PROVE  TrafficInv'
    <2>1. \/ sent[t] = 0 /\ logons[t] = 1
          \/ sent[t] = 1 /\ logons[t] \in {1, 2}
        BY <1>4 DEF LogonReply, IInv, TrafficInv
    <2>2. \/ /\ pc' = [pc EXCEPT ![t] = "idle"]
             /\ sent' = [sent EXCEPT ![t] = 0]
             /\ logons' = [logons EXCEPT ![t] = 0]
          \/ /\ pc' = [pc EXCEPT ![t] = "request"]
             /\ sent' = [sent EXCEPT ![t] = sent[t] + 1]
             /\ logons' = logons
        BY <1>4 DEF LogonReply, SendRequest, Return
    <2>3. QED
        BY <2>1, <2>2 DEF TypeOK, IInv, TrafficInv
<1>5. ASSUME NEW t \in Tasks, RequestReply(t)
      PROVE  TrafficInv'
    <2>1. \/ sent[t] = 1 /\ logons[t] \in {0, 1}
          \/ sent[t] = 2 /\ logons[t] \in {1, 2}
        BY <1>5 DEF RequestReply, IInv, TrafficInv
    <2>2. \/ /\ pc' = [pc EXCEPT ![t] = "idle"]
             /\ sent' = [sent EXCEPT ![t] = 0]
             /\ logons' = [logons EXCEPT ![t] = 0]
          \/ /\ sent[t] = 1
             /\ pc' = [pc EXCEPT ![t] = "logon"]
             /\ sent' = sent
             /\ logons' = [logons EXCEPT ![t] = logons[t] + 1]
        BY <1>5 DEF RequestReply, BeginLogon, Return
    <2>3. QED
        BY <2>1, <2>2 DEF TypeOK, IInv, TrafficInv
<1>6. ASSUME NEW t \in Tasks, Cancel(t)
      PROVE  TrafficInv'
    BY <1>6
       DEF IInv, TypeOK, Cancel, Return, TrafficInv
<1>7. CASE Disconnect
    BY <1>7 DEF IInv, TypeOK, Disconnect, TrafficInv
<1>8. ASSUME NEW t \in Tasks,
             Serve(t) \/ Deny(t) \/ Drop(t) \/ Welcome(t) \/ Refuse(t)
      PROVE  TrafficInv'
    BY <1>8
       DEF IInv, TypeOK, Serve, Deny, Drop, Welcome, Refuse, Awaits,
           TrafficInv
<1>9. CASE Forget
    BY <1>9 DEF IInv, TypeOK, Forget, TrafficInv
<1>10. CASE UNCHANGED vars
    BY <1>10 DEF IInv, TypeOK, vars, TrafficInv
<1>11. QED
    BY <1>1, <1>2, <1>3, <1>4, <1>5, <1>6, <1>7, <1>8, <1>9, <1>10 DEF Next

(* What the switch has carried out fits how far the call has got.          *)
LEMMA HandledStep == TypeOK /\ IInv /\ [Next]_vars => HandledInv'
<1> SUFFICES ASSUME TypeOK, IInv, [Next]_vars
             PROVE  HandledInv'
    OBVIOUS
<1>1. ASSUME NEW t \in Tasks, Login(t)
      PROVE  HandledInv'
    BY <1>1
       DEF IInv, TypeOK, Login, BeginLogon, HandledInv, ReplyInv,
           PageReplies, LogonReplies
<1>2. ASSUME NEW t \in Tasks, NEW k \in {"read", "apply", "restart"}, Call(t, k)
      PROVE  HandledInv'
    BY <1>2 DEF IInv, TypeOK, Call, HandledInv
<1>3. ASSUME NEW t \in Tasks, Acquire(t)
      PROVE  HandledInv'
    BY <1>3
       DEF IInv, TypeOK, Acquire, SendRequest, BeginLogon, Return,
           HandledInv, ReplyInv, PageReplies, LogonReplies
<1>4. ASSUME NEW t \in Tasks, LogonReply(t)
      PROVE  HandledInv'
    BY <1>4
       DEF IInv, TypeOK, LogonReply, SendRequest, Return, HandledInv,
           ReplyInv, PageReplies, LogonReplies
<1>5. ASSUME NEW t \in Tasks, RequestReply(t)
      PROVE  HandledInv'
    BY <1>5
       DEF IInv, TypeOK, RequestReply, BeginLogon, Return, Classify,
           HandledInv, ReplyInv, PageReplies, LogonReplies
<1>6. ASSUME NEW t \in Tasks, Cancel(t)
      PROVE  HandledInv'
    BY <1>6
       DEF IInv, TypeOK, Cancel, Return, HandledInv, ReplyInv,
           PageReplies, LogonReplies
<1>7. CASE Disconnect
    BY <1>7 DEF IInv, TypeOK, Disconnect, HandledInv
<1>8. ASSUME NEW t \in Tasks,
             Serve(t) \/ Deny(t) \/ Drop(t) \/ Welcome(t) \/ Refuse(t)
      PROVE  HandledInv'
    BY <1>8
       DEF IInv, TypeOK, Serve, Deny, Drop, Welcome, Refuse, Awaits,
           HandledInv, ReplyInv, PageReplies, LogonReplies
<1>9. CASE Forget
    BY <1>9 DEF IInv, TypeOK, Forget, HandledInv
<1>10. CASE UNCHANGED vars
    BY <1>10 DEF IInv, TypeOK, vars, HandledInv
<1>11. QED
    BY <1>1, <1>2, <1>3, <1>4, <1>5, <1>6, <1>7, <1>8, <1>9, <1>10 DEF Next

-----------------------------------------------------------------------------
(* The theorems.                                                           *)

(* IInv is an invariant.                                                   *)
LEMMA Invariant == Spec => [](TypeOK /\ IInv)
<1>1. Init => IInv
    BY NoTaskAssumption
       DEF Init, IInv, OneOnTheWire, OnTheWire, RequestIsLoggedOn,
           LoggedOnHasCookie, AloneInv, LoggingIn, ReplyInv, TrafficInv,
           HandledInv
<1>2. TypeOK /\ IInv /\ [Next]_vars => IInv'
    BY WireStep, LoggedOnStep, CookieStep, AloneStep, ReplyStep, TrafficStep, HandledStep
       DEF IInv
<1>3. QED
    BY <1>1, <1>2, TypeCorrect, PTL DEF Spec

(* At most one task awaits an answer of the switch, and it owns the lock,  *)
(* which no call leaves behind.                                            *)
THEOREM MutualExclusion == Spec => []OneOnTheWire
<1>1. IInv => OneOnTheWire
    BY DEF IInv
<1>2. QED
    BY <1>1, Invariant, PTL

(* Nobody but disconnect logs the client out under a request.              *)
THEOREM LoggedOn == Spec => []RequestIsLoggedOn
<1>1. IInv => RequestIsLoggedOn
    BY DEF IInv
<1>2. QED
    BY <1>1, Invariant, PTL

(* A client that believes it is logged on has not cleared its cookies.     *)
THEOREM CookieKept == Spec => []LoggedOnHasCookie
<1>1. IInv => LoggedOnHasCookie
    BY DEF IInv
<1>2. QED
    BY <1>1, Invariant, PTL

(* A call sends its request at most twice, with one logon before each.     *)
THEOREM Bounded == Spec => []BoundedRetry
<1>1. TypeOK /\ IInv => BoundedRetry
    <2> SUFFICES ASSUME TypeOK, IInv, NEW t \in Tasks
                 PROVE  /\ sent[t] <= 2
                        /\ sent[t] = 2 => logons[t] \in {1, 2}
                        /\ logons[t] <= sent[t] + 1
        BY DEF BoundedRetry
    <2>1. pc[t] \in {"idle", "queued", "logon", "request"}
        BY DEF TypeOK
    <2>2. \/ sent[t] = 0 /\ logons[t] = 0
          \/ sent[t] = 0 /\ logons[t] = 1
          \/ sent[t] = 1 /\ logons[t] \in {0, 1, 2}
          \/ sent[t] = 2 /\ logons[t] \in {1, 2}
        BY <2>1 DEF IInv, TrafficInv
    <2>3. QED
        BY <2>2
<1>2. QED
    BY <1>1, Invariant, PTL

-----------------------------------------------------------------------------
(* WebApi implements SwitchCalls.                                          *)

(* The end of a call of WebApi is the end of a call of SwitchCalls, if the *)
(* result is honest.                                                       *)
LEMMA ReturnIsEnd ==
    ASSUME TypeOK, NEW t \in Tasks, NEW r \in Calls!Results, NEW auth,
           pc[t] # "idle", r # "none", Return(t, r, auth),
           Calls!Honest(kind[t], handled[t], Outcome(kind[t], r)),
           UNCHANGED <<kind, handled>>
    PROVE  Calls!Next
<1>1. PICK o \in Calls!Results : o = Outcome(kind[t], r)
    BY OutcomeType DEF TypeOK
<1>2. o # "none"
    BY <1>1 DEF Outcome, Forgiven
<1>3. [u \in Tasks |-> pc'[u] # "idle"]
          = [[u \in Tasks |-> pc[u] # "idle"] EXCEPT ![t] = FALSE]
    <2>1. pc' = [pc EXCEPT ![t] = "idle"]
        BY DEF Return
    <2>2. QED
        BY <2>1 DEF TypeOK
<1>4. result' = [result EXCEPT ![t] = o]
    BY <1>1 DEF Return
<1>5. Calls!End(t, o)
    BY <1>1, <1>2, <1>3, <1>4 DEF Calls!End
<1>6. QED
    BY <1>5 DEF Calls!Next

(* A step that leaves open calls open, and the rest alone, is a stutter.   *)
LEMMA StaysOpen ==
    ASSUME TypeOK, NEW t \in Tasks, NEW p, pc[t] # "idle", p # "idle",
           pc' = [pc EXCEPT ![t] = p], UNCHANGED <<kind, handled, result>>
    PROVE  UNCHANGED Calls!vars
<1>1. [u \in Tasks |-> pc'[u] # "idle"] = [u \in Tasks |-> pc[u] # "idle"]
    BY DEF TypeOK
<1>2. QED
    BY <1>1 DEF Calls!vars

(* A request that cannot be sent ends the call, and one that is sent       *)
(* leaves it open.                                                         *)
LEMMA SendRequestMaps ==
    ASSUME TypeOK, NEW t \in Tasks, pc[t] # "idle", handled[t] = 0,
           kind[t] # "login", SendRequest(t), UNCHANGED <<kind, handled>>
    PROVE  [Calls!Next]_Calls!vars
<1>1. CASE session = "none"
    <2>1. Return(t, "request", TRUE)
        BY <1>1 DEF SendRequest
    <2>2. Outcome(kind[t], "request") = "request"
        BY DEF Outcome, Forgiven
    <2>3. Calls!Honest(kind[t], handled[t], Outcome(kind[t], "request"))
        BY <2>2 DEF Calls!Honest
    <2>4. "request" \in Calls!Results
        BY DEF Calls!Results
    <2>5. QED
        BY <2>1, <2>3, <2>4, ReturnIsEnd
<1>2. CASE session # "none"
    <2>1. pc' = [pc EXCEPT ![t] = "request"] /\ UNCHANGED result
        BY <1>2 DEF SendRequest
    <2>2. QED
        BY <2>1, StaysOpen
<1>3. QED
    BY <1>1, <1>2

(* Every step of WebApi is a step of SwitchCalls or a stutter.             *)
LEMMA StepMaps == TypeOK /\ IInv /\ [Next]_vars => [Calls!Next]_Calls!vars
<1> SUFFICES ASSUME TypeOK, IInv, [Next]_vars
             PROVE  [Calls!Next]_Calls!vars
    OBVIOUS
<1>1. ASSUME NEW t \in Tasks, NEW k \in {"read", "apply", "restart"}, Call(t, k)
      PROVE  Calls!Next
    <2>1. [u \in Tasks |-> pc'[u] # "idle"]
              = [[u \in Tasks |-> pc[u] # "idle"] EXCEPT ![t] = TRUE]
        BY <1>1 DEF Call, TypeOK
    <2>2. Calls!Begin(t, k)
        BY <1>1, <2>1 DEF Call, Calls!Begin
    <2>3. QED
        BY <2>2 DEF Calls!Next, Calls!Kinds
<1>2. ASSUME NEW t \in Tasks, Login(t)
      PROVE  Calls!Next
    <2>1. [u \in Tasks |-> pc'[u] # "idle"]
              = [[u \in Tasks |-> pc[u] # "idle"] EXCEPT ![t] = TRUE]
        BY <1>2 DEF Login, BeginLogon, TypeOK
    <2>2. Calls!Begin(t, "login")
        BY <1>2, <2>1 DEF Login, Calls!Begin
    <2>3. QED
        BY <2>2 DEF Calls!Next, Calls!Kinds
<1>3. ASSUME NEW t \in Tasks, Acquire(t)
      PROVE  [Calls!Next]_Calls!vars
    <2>1. pc[t] # "idle" /\ handled[t] = 0 /\ kind[t] # "login"
        BY <1>3 DEF Acquire, IInv, HandledInv
    <2>2. CASE is_initialized
        BY <1>3, <2>1, <2>2, SendRequestMaps DEF Acquire
    <2>3. CASE ~is_initialized
        <3>1. pc' = [pc EXCEPT ![t] = "logon"] /\ UNCHANGED <<kind, handled, result>>
            BY <1>3, <2>3 DEF Acquire, BeginLogon
        <3>2. QED
            BY <2>1, <3>1, StaysOpen
    <2>4. QED
        BY <2>2, <2>3
<1>4. ASSUME NEW t \in Tasks, LogonReply(t)
      PROVE  [Calls!Next]_Calls!vars
    <2>1. pc[t] # "idle" /\ handled[t] = 0 /\ UNCHANGED <<kind, handled>>
        BY <1>4 DEF LogonReply, IInv, HandledInv
    <2>2. CASE Return(t, "auth", FALSE)
        <3>1. Calls!Honest(kind[t], handled[t], Outcome(kind[t], "auth"))
            BY <2>1 DEF Outcome, Forgiven, Calls!Honest
        <3>2. QED
            BY <2>1, <2>2, <3>1, ReturnIsEnd DEF Calls!Results
    <2>3. CASE kind[t] = "login" /\ Return(t, "ok", TRUE)
        <3>1. Calls!Honest(kind[t], handled[t], Outcome(kind[t], "ok"))
            BY <2>1, <2>3 DEF Outcome, Forgiven, Calls!Honest
        <3>2. QED
            BY <2>1, <2>3, <3>1, ReturnIsEnd DEF Calls!Results
    <2>4. CASE kind[t] # "login" /\ SendRequest(t)
        BY <2>1, <2>4, SendRequestMaps
    <2>5. QED
        BY <1>4, <2>2, <2>3, <2>4 DEF LogonReply
<1>5. ASSUME NEW t \in Tasks, RequestReply(t)
      PROVE  [Calls!Next]_Calls!vars
    <2>1. /\ pc[t] # "idle" /\ kind[t] # "login" /\ UNCHANGED <<kind, handled>>
          /\ reply[t] = "unauthorised" => handled[t] = 0
          /\ reply[t] = "page" => handled[t] = 1
        BY <1>5 DEF RequestReply, IInv, HandledInv
    <2>2. CASE BeginLogon(t) /\ UNCHANGED <<locker, result>>
        <3>1. pc' = [pc EXCEPT ![t] = "logon"]
            BY <2>2 DEF BeginLogon
        <3>2. QED
            BY <2>1, <2>2, <3>1, StaysOpen
    <2>3. CASE Return(t, Classify(reply[t]), is_initialized)
        <3>1. /\ Classify(reply[t]) \in Calls!Results
              /\ Classify(reply[t]) \notin {"none", "auth"}
              /\ Classify(reply[t]) = "ok" => reply[t] = "page"
              /\ Classify(reply[t]) = "unauthorized" => reply[t] = "unauthorised"
            BY DEF Classify, Calls!Results
        <3>2. /\ Outcome(kind[t], Classify(reply[t])) # "auth"
              /\ Outcome(kind[t], Classify(reply[t])) = "unauthorized" =>
                     reply[t] = "unauthorised"
              /\ kind[t] = "read" /\ Outcome(kind[t], Classify(reply[t])) = "ok" =>
                     reply[t] = "page"
            BY <3>1 DEF Outcome, Forgiven
        <3>3. Calls!Honest(kind[t], handled[t], Outcome(kind[t], Classify(reply[t])))
            BY <2>1, <3>2 DEF Calls!Honest
        <3>4. QED
            BY <2>1, <2>3, <3>1, <3>3, ReturnIsEnd
    <2>4. QED
        BY <1>5, <2>2, <2>3 DEF RequestReply
<1>6. ASSUME NEW t \in Tasks, Cancel(t)
      PROVE  [Calls!Next]_Calls!vars
    <2>1. /\ pc[t] # "idle"
          /\ Return(t, "cancelled", is_initialized)
          /\ UNCHANGED <<kind, handled>>
        BY <1>6 DEF Cancel
    <2>2. Outcome(kind[t], "cancelled") = "cancelled"
        BY DEF Outcome, Forgiven
    <2>3. kind[t] = "login" => handled[t] = 0
        BY <2>1 DEF IInv, HandledInv, TypeOK
    <2>4. Calls!Honest(kind[t], handled[t], Outcome(kind[t], "cancelled"))
        BY <2>2, <2>3 DEF Calls!Honest
    <2>5. QED
        BY <2>1, <2>4, ReturnIsEnd DEF Calls!Results
<1>7. ASSUME NEW t \in Tasks, Serve(t)
      PROVE  Calls!Next
    <2>1. handled[t] = 0 /\ kind[t] # "login" /\ pc[t] = "request"
        BY <1>7 DEF Serve, Awaits, IInv, HandledInv
    <2>2. handled' = [handled EXCEPT ![t] = 1]
        BY <1>7, <2>1 DEF Serve
    <2>3. Calls!CarryOut(t)
        BY <1>7, <2>1, <2>2 DEF Serve, Calls!CarryOut
    <2>4. QED
        BY <2>3 DEF Calls!Next
<1>8. ASSUME NEW t \in Tasks, Deny(t) \/ Drop(t) \/ Welcome(t) \/ Refuse(t)
      PROVE  UNCHANGED Calls!vars
    BY <1>8 DEF Deny, Drop, Welcome, Refuse, Calls!vars
<1>9. CASE Disconnect \/ Forget \/ UNCHANGED vars
    BY <1>9 DEF Disconnect, Forget, vars, Calls!vars
<1>10. QED
    BY <1>1, <1>2, <1>3, <1>4, <1>5, <1>6, <1>7, <1>8, <1>9 DEF Next

(* The client keeps the promises of SwitchCalls, for every set of tasks:   *)
(* at most one execution per call, reads only return what the switch       *)
(* produced, and a refusal means that nothing was carried out.             *)
THEOREM Refinement == Spec => ImplementsSwitchCalls
<1>1. Init => Calls!Init
    <2> SUFFICES ASSUME Init
                 PROVE  Calls!Init
        OBVIOUS
    <2>1. \A t \in Tasks : pc[t] = "idle"
        BY DEF Init
    <2>2. \A t \in Tasks : (pc[t] # "idle") = FALSE
        BY <2>1
    <2>3. [t \in Tasks |-> pc[t] # "idle"] = [t \in Tasks |-> FALSE]
        BY <2>2, Zenon
    <2>4. QED
        BY <2>3 DEF Init, Calls!Init
<1>2. QED
    BY <1>1, StepMaps, Invariant, PTL DEF Spec, ImplementsSwitchCalls, Calls!Spec

-----------------------------------------------------------------------------
(* What the promises of SwitchCalls come to.                               *)

(* What a caller may conclude from how its call has ended.                 *)
Conclusive ==
    \A t \in Tasks :
        /\ handled[t] \in {0, 1}
        /\ kind[t] = "read" /\ result[t] = "ok" => handled[t] = 1
        /\ result[t] \in {"auth", "unauthorized"} => handled[t] = 0

CallInv ==
    /\ kind \in [Tasks -> Kinds]
    /\ handled \in [Tasks -> {0, 1}]
    /\ result \in [Tasks -> Calls!Results]
    /\ \A t \in Tasks :
           /\ pc[t] # "idle" => result[t] = "none"
           /\ result[t] # "none" => Calls!Honest(kind[t], handled[t], result[t])

(* A step that opens or closes the call of task t.                         *)
LEMMA OpenAfter ==
    ASSUME NEW t \in Tasks, NEW x \in BOOLEAN,
           [u \in Tasks |-> pc'[u] # "idle"]
               = [[u \in Tasks |-> pc[u] # "idle"] EXCEPT ![t] = x]
    PROVE  \A u \in Tasks : pc'[u] # "idle" => IF u = t THEN x ELSE pc[u] # "idle"
<1> DEFINE f == [u \in Tasks |-> pc[u] # "idle"]
           g == [u \in Tasks |-> pc'[u] # "idle"]
<1>1. \A u \in Tasks : f[u] = (pc[u] # "idle") /\ g[u] = (pc'[u] # "idle")
    OBVIOUS
<1>2. g = [f EXCEPT ![t] = x]
    OBVIOUS
<1>3. DOMAIN f = Tasks
    OBVIOUS
<1> HIDE DEF f, g
<1>4. \A u \in Tasks : g[u] = IF u = t THEN x ELSE f[u]
    BY <1>2, <1>3
<1>5. QED
    BY <1>1, <1>4, Zenon

LEMMA CallStep ==
    ASSUME CallInv, [Calls!Next]_(Calls!vars)
    PROVE  CallInv'
<1>1. ASSUME NEW t \in Tasks, NEW k \in Kinds, Calls!Begin(t, k)
      PROVE  CallInv'
    <2>1. \A u \in Tasks : pc'[u] # "idle" => IF u = t THEN TRUE ELSE pc[u] # "idle"
        BY <1>1, OpenAfter DEF Calls!Begin
    <2>2. /\ kind' = [kind EXCEPT ![t] = k]
          /\ handled' = [handled EXCEPT ![t] = 0]
          /\ result' = [result EXCEPT ![t] = "none"]
        BY <1>1 DEF Calls!Begin
    <2>3. "none" \in Calls!Results
        BY DEF Calls!Results
    <2>4. /\ kind' \in [Tasks -> Kinds] /\ handled' \in [Tasks -> {0, 1}]
          /\ result' \in [Tasks -> Calls!Results]
        BY <2>2, <2>3 DEF CallInv
    <2>5. \A u \in Tasks : /\ u # t => /\ kind'[u] = kind[u] /\ handled'[u] = handled[u]
                                       /\ result'[u] = result[u]
                           /\ u = t => result'[u] = "none"
        BY <2>2 DEF CallInv
    <2>6. QED
        BY <2>1, <2>4, <2>5 DEF CallInv
<1>2. ASSUME NEW t \in Tasks, Calls!CarryOut(t)
      PROVE  CallInv'
    <2>1. /\ [u \in Tasks |-> pc'[u] # "idle"] = [u \in Tasks |-> pc[u] # "idle"]
          /\ [u \in Tasks |-> pc[u] # "idle"][t]
          /\ handled' = [handled EXCEPT ![t] = 1] /\ UNCHANGED <<kind, result>>
        BY <1>2 DEF Calls!CarryOut
    <2>2. pc[t] # "idle"
        BY <2>1
    <2>3. \A u \in Tasks : pc'[u] # "idle" => pc[u] # "idle"
        <3>1. \A u \in Tasks : [v \in Tasks |-> pc'[v] # "idle"][u]
                                   = [v \in Tasks |-> pc[v] # "idle"][u]
            BY <2>1
        <3>2. QED
            BY <3>1, Zenon
    <2>4. handled' \in [Tasks -> {0, 1}] /\ \A u \in Tasks \ {t} : handled'[u] = handled[u]
        BY <2>1 DEF CallInv
    <2>5. QED
        BY <2>1, <2>2, <2>3, <2>4 DEF CallInv
<1>3. ASSUME NEW t \in Tasks, NEW r \in Calls!Results, Calls!End(t, r)
      PROVE  CallInv'
    <2>1. \A u \in Tasks : pc'[u] # "idle" => IF u = t THEN FALSE ELSE pc[u] # "idle"
        BY <1>3, OpenAfter DEF Calls!End
    <2>2. /\ result' = [result EXCEPT ![t] = r] /\ UNCHANGED <<kind, handled>>
          /\ Calls!Honest(kind[t], handled[t], r)
        BY <1>3 DEF Calls!End
    <2>3. /\ result' \in [Tasks -> Calls!Results]
          /\ \A u \in Tasks : result'[u] = IF u = t THEN r ELSE result[u]
        BY <2>2 DEF CallInv
    <2>4. QED
        BY <2>1, <2>2, <2>3 DEF CallInv
<1>4. CASE UNCHANGED Calls!vars
    <2>1. /\ [u \in Tasks |-> pc'[u] # "idle"] = [u \in Tasks |-> pc[u] # "idle"]
          /\ UNCHANGED <<kind, handled, result>>
        BY <1>4 DEF Calls!vars
    <2>2. \A u \in Tasks : pc'[u] # "idle" => pc[u] # "idle"
        <3>1. \A u \in Tasks : [v \in Tasks |-> pc'[v] # "idle"][u]
                                   = [v \in Tasks |-> pc[v] # "idle"][u]
            BY <2>1
        <3>2. QED
            BY <3>1, Zenon
    <2>3. QED
        BY <2>1, <2>2 DEF CallInv
<1>5. QED
    BY <1>1, <1>2, <1>3, <1>4 DEF Calls!Next, Kinds

(* A request is carried out at most once although it may be sent twice, a  *)
(* read that succeeds was answered by the switch, and after a refusal the  *)
(* switch has done nothing: this follows from SwitchCalls alone, so it     *)
(* holds of any client that implements it, and of this one.                *)
THEOREM AnswersConclusive == Spec => []Conclusive
<1>1. Calls!Init => CallInv
    <2> SUFFICES ASSUME Calls!Init
                 PROVE  CallInv
        OBVIOUS
    <2>1. /\ kind = [t \in Tasks |-> "read"] /\ handled = [t \in Tasks |-> 0]
          /\ result = [t \in Tasks |-> "none"]
        BY DEF Calls!Init
    <2>2. "read" \in Kinds /\ "none" \in Calls!Results
        BY DEF Kinds, Calls!Kinds, Calls!Results
    <2>3. QED
        BY <2>1, <2>2 DEF CallInv
<1>2. CallInv /\ [Calls!Next]_(Calls!vars) => CallInv'
    BY CallStep
<1>3. Calls!Spec => []CallInv
    BY <1>1, <1>2, PTL DEF Calls!Spec
<1>4. CallInv => Conclusive
    BY DEF CallInv, Conclusive, Calls!Honest
<1>5. QED
    BY <1>3, <1>4, Refinement, PTL DEF ImplementsSwitchCalls

-----------------------------------------------------------------------------
(* What the runs webapi_forgiven and webapi_unload refute, and what it     *)
(* takes to make it true.                                                  *)

(* A switch only closes the connection of a request it has carried out.    *)
ClosedMeansApplied ==
    \A t \in Tasks :
        pc[t] = "request" /\ reply[t] = "closed" /\ kind[t] \in {"apply", "restart"}
            => handled[t] = 1

(* A call that is open has no result yet.                                  *)
OpenHasNoResult == \A t \in Tasks : pc[t] # "idle" => result[t] = "none"

(* A step that ends no call.                                               *)
LEMMA WaitingApplied ==
    ASSUME OpenHasNoResult, SuccessMeansApplied,
           UNCHANGED <<kind, result>>,
           \A u \in Tasks : pc'[u] # "idle" => pc[u] # "idle",
           \A u \in Tasks : handled'[u] # handled[u] => pc[u] # "idle"
    PROVE  OpenHasNoResult' /\ SuccessMeansApplied'
<1>1. OpenHasNoResult'
    BY DEF OpenHasNoResult
<1>2. \A u \in Tasks : result[u] = "ok" => handled'[u] = handled[u]
    BY DEF OpenHasNoResult
<1>3. QED
    BY <1>1, <1>2 DEF SuccessMeansApplied

(* A call ends, and if it reports a change the change was made.            *)
LEMMA ReturnApplied ==
    ASSUME TypeOK, OpenHasNoResult, SuccessMeansApplied,
           NEW t \in Tasks, NEW r, NEW auth, Return(t, r, auth),
           UNCHANGED <<kind, handled>>,
           Outcome(kind[t], r) = "ok" /\ kind[t] \in {"apply", "restart"}
               => handled[t] = 1
    PROVE  OpenHasNoResult' /\ SuccessMeansApplied'
<1>1. \A u \in Tasks :
          /\ pc'[u] = IF u = t THEN "idle" ELSE pc[u]
          /\ result'[u] = IF u = t THEN Outcome(kind[t], r) ELSE result[u]
    BY DEF Return, TypeOK
<1>2. QED
    BY <1>1 DEF OpenHasNoResult, SuccessMeansApplied

(* A call is opened.                                                       *)
LEMMA OpenApplied ==
    ASSUME TypeOK, OpenHasNoResult, SuccessMeansApplied, NEW t \in Tasks,
           \A u \in Tasks \ {t} : pc'[u] = pc[u] /\ kind'[u] = kind[u],
           handled' = [handled EXCEPT ![t] = 0],
           result' = [result EXCEPT ![t] = "none"]
    PROVE  OpenHasNoResult' /\ SuccessMeansApplied'
<1>1. \A u \in Tasks :
          /\ handled'[u] = IF u = t THEN 0 ELSE handled[u]
          /\ result'[u] = IF u = t THEN "none" ELSE result[u]
    BY DEF TypeOK
<1>2. OpenHasNoResult'
    BY <1>1 DEF OpenHasNoResult
<1>3. SuccessMeansApplied'
    BY <1>1 DEF SuccessMeansApplied
<1>4. QED
    BY <1>2, <1>3

LEMMA LogonApplied ==
    ASSUME TypeOK, OpenHasNoResult, SuccessMeansApplied, NEW t \in Tasks,
           pc[t] # "idle", BeginLogon(t), UNCHANGED <<kind, handled, result>>
    PROVE  OpenHasNoResult' /\ SuccessMeansApplied'
<1>1. \A u \in Tasks : pc'[u] # "idle" => pc[u] # "idle"
    BY DEF BeginLogon, TypeOK
<1>2. QED
    BY <1>1, WaitingApplied

LEMMA SendApplied ==
    ASSUME TypeOK, OpenHasNoResult, SuccessMeansApplied, NEW t \in Tasks,
           pc[t] # "idle", SendRequest(t), UNCHANGED <<kind, handled>>
    PROVE  OpenHasNoResult' /\ SuccessMeansApplied'
<1>1. CASE Return(t, "request", TRUE)
    <2>1. Outcome(kind[t], "request") # "ok"
        BY DEF Outcome, Forgiven
    <2>2. QED
        BY <1>1, <2>1, ReturnApplied
<1>2. CASE pc' = [pc EXCEPT ![t] = "request"] /\ UNCHANGED result
    <2>1. \A u \in Tasks : pc'[u] # "idle" => pc[u] # "idle"
        BY <1>2 DEF TypeOK
    <2>2. QED
        BY <1>2, <2>1, WaitingApplied
<1>3. QED
    BY <1>1, <1>2 DEF SendRequest

LEMMA StepApplied ==
    ASSUME TypeOK, IInv, ClosedMeansApplied, OpenHasNoResult, SuccessMeansApplied,
           [Next]_vars
    PROVE  OpenHasNoResult' /\ SuccessMeansApplied'
<1>1. ASSUME NEW t \in Tasks, NEW k \in {"read", "apply", "restart"}, Call(t, k)
      PROVE  OpenHasNoResult' /\ SuccessMeansApplied'
    BY <1>1, OpenApplied DEF Call, TypeOK
<1>2. ASSUME NEW t \in Tasks, Login(t)
      PROVE  OpenHasNoResult' /\ SuccessMeansApplied'
    BY <1>2, OpenApplied DEF Login, BeginLogon, TypeOK
<1>3. ASSUME NEW t \in Tasks, Acquire(t)
      PROVE  OpenHasNoResult' /\ SuccessMeansApplied'
    <2>1. pc[t] # "idle" /\ UNCHANGED <<kind, handled>>
        BY <1>3 DEF Acquire
    <2>2. CASE SendRequest(t)
        BY <2>1, <2>2, SendApplied
    <2>3. CASE BeginLogon(t) /\ UNCHANGED result
        BY <2>1, <2>3, LogonApplied
    <2>4. QED
        BY <1>3, <2>2, <2>3 DEF Acquire
<1>4. ASSUME NEW t \in Tasks, LogonReply(t)
      PROVE  OpenHasNoResult' /\ SuccessMeansApplied'
    <2>1. pc[t] # "idle" /\ UNCHANGED <<kind, handled>>
        BY <1>4 DEF LogonReply
    <2>2. CASE Return(t, "auth", FALSE)
        <3>1. Outcome(kind[t], "auth") # "ok"
            BY DEF Outcome, Forgiven
        <3>2. QED
            BY <2>1, <2>2, <3>1, ReturnApplied
    <2>3. CASE kind[t] = "login" /\ Return(t, "ok", TRUE)
        BY <2>1, <2>3, ReturnApplied
    <2>4. CASE SendRequest(t)
        BY <2>1, <2>4, SendApplied
    <2>5. QED
        BY <1>4, <2>2, <2>3, <2>4 DEF LogonReply
<1>5. ASSUME NEW t \in Tasks, RequestReply(t)
      PROVE  OpenHasNoResult' /\ SuccessMeansApplied'
    <2>1. pc[t] = "request" /\ UNCHANGED <<kind, handled>>
        BY <1>5 DEF RequestReply
    <2>2. CASE BeginLogon(t) /\ UNCHANGED result
        BY <2>1, <2>2, LogonApplied
    <2>3. CASE Return(t, Classify(reply[t]), is_initialized)
        <3>1. ASSUME Outcome(kind[t], Classify(reply[t])) = "ok",
                     kind[t] \in {"apply", "restart"}
              PROVE  handled[t] = 1
            <4>1. reply[t] \in {"page", "closed"}
                BY <3>1 DEF Outcome, Forgiven, Classify
            <4>2. QED
                BY <2>1, <3>1, <4>1 DEF IInv, HandledInv, ClosedMeansApplied
        <3>2. QED
            BY <2>1, <2>3, <3>1, ReturnApplied
    <2>4. QED
        BY <1>5, <2>2, <2>3 DEF RequestReply
<1>6. ASSUME NEW t \in Tasks, Cancel(t)
      PROVE  OpenHasNoResult' /\ SuccessMeansApplied'
    <2>1. Outcome(kind[t], "cancelled") # "ok"
        BY DEF Outcome, Forgiven
    <2>2. QED
        BY <1>6, <2>1, ReturnApplied DEF Cancel
<1>7. ASSUME NEW t \in Tasks, Answer(t)
      PROVE  OpenHasNoResult' /\ SuccessMeansApplied'
    <2>1. /\ pc' = pc /\ pc[t] # "idle" /\ UNCHANGED <<kind, result>>
          /\ \A u \in Tasks \ {t} : handled'[u] = handled[u]
        BY <1>7 DEF Answer, Serve, Deny, Drop, Welcome, Refuse, Awaits, TypeOK
    <2>2. QED
        BY <2>1, WaitingApplied
<1>8. CASE Disconnect \/ Forget \/ UNCHANGED vars
    BY <1>8, WaitingApplied DEF Disconnect, Forget, vars
<1>9. QED
    BY <1>1, <1>2, <1>3, <1>4, <1>5, <1>6, <1>7, <1>8 DEF Next, Answer

(* What the comment in _apply_get takes for granted is all it takes: if    *)
(* the switch never closes a connection before it has made the change, a   *)
(* success means that the change was made, exactly once.                   *)
THEOREM ForgivenIfApplied == Spec /\ []ClosedMeansApplied => []SuccessMeansApplied
<1>1. Init => OpenHasNoResult /\ SuccessMeansApplied
    BY DEF Init, OpenHasNoResult, SuccessMeansApplied
<1>2. /\ TypeOK /\ IInv /\ ClosedMeansApplied
      /\ OpenHasNoResult /\ SuccessMeansApplied /\ [Next]_vars
      => OpenHasNoResult' /\ SuccessMeansApplied'
    BY StepApplied
<1>3. QED
    BY <1>1, <1>2, TypeCorrect, Invariant, PTL DEF Spec

(* Once the client is disconnected no call waits for the lock, and none is *)
(* told to log on again.                                                   *)
NoLogonAhead ==
    disconnected =>
        \A t \in Tasks :
            /\ pc[t] # "queued"
            /\ ~(pc[t] = "request" /\ reply[t] = "unauthorised" /\ sent[t] = 1)

LEMMA StepCloses ==
    ASSUME TypeOK, NoLogonAhead, disconnected => session = "none", [Next]_vars
    PROVE  (disconnected => session = "none")'
<1>1. CASE Disconnect
    BY <1>1 DEF Disconnect
<1>2. CASE UNCHANGED <<session, disconnected>>
    BY <1>2
<1>3. ASSUME NEW t \in Tasks, Login(t) \/ Acquire(t)
      PROVE  (disconnected => session = "none")'
    BY <1>3 DEF Login, Acquire, NoLogonAhead
<1>4. ASSUME NEW t \in Tasks, LogonReply(t)
      PROVE  UNCHANGED <<session, disconnected>>
    BY <1>4 DEF LogonReply, SendRequest
<1>5. ASSUME NEW t \in Tasks, RequestReply(t)
      PROVE  (disconnected => session = "none")'
    BY <1>5 DEF RequestReply, NoLogonAhead
<1>6. ASSUME NEW t \in Tasks,
             \/ \E k \in {"read", "apply", "restart"} : Call(t, k)
             \/ Cancel(t) \/ Answer(t)
      PROVE  UNCHANGED <<session, disconnected>>
    BY <1>6 DEF Call, Cancel, Answer, Serve, Deny, Drop, Welcome, Refuse
<1>7. CASE Forget \/ UNCHANGED vars
    BY <1>2, <1>7 DEF Forget, vars
<1>8. QED
    BY <1>1, <1>2, <1>3, <1>4, <1>5, <1>6, <1>7 DEF Next, Answer

(* A call that is under way when the client is disconnected leaves no      *)
(* session behind unless it has to log on: only a call that gets the lock  *)
(* after the disconnect, or is answered with the login page, opens one.    *)
THEOREM ClosedUnlessLogon == Spec /\ []NoLogonAhead => []DisconnectClosesSession
<1>1. Init => (disconnected => session = "none")
    BY DEF Init
<1>2. TypeOK /\ NoLogonAhead /\ (disconnected => session = "none") /\ [Next]_vars
      => (disconnected => session = "none")'
    BY StepCloses
<1>3. (disconnected => session = "none") => DisconnectClosesSession
    BY DEF DisconnectClosesSession
<1>4. QED
    BY <1>1, <1>2, <1>3, TypeCorrect, PTL DEF Spec

=============================================================================

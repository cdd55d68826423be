----------------------------- MODULE SwitchCalls -----------------------------
(***************************************************************************)
(* What the HTTP client of one TP-Link Easy Smart switch promises to its   *)
(* callers, whatever sessions, cookies, retries and locks it uses to keep  *)
(* the promise (client/coreapi.py, client/tplink_api.py).  A call is begun *)
(* by a task, the switch carries it out at most once while it is open, and *)
(* the call ends with a result that may not contradict what was carried    *)
(* out.  WebApi implements this specification.                             *)
(***************************************************************************)
EXTENDS Naturals

CONSTANT Tasks  \* the asyncio tasks that use one client

VARIABLES open,     \* open[t]: task t is inside a call
          kind,     \* kind[t]: what its call is for
          handled,  \* handled[t]: how often the switch carried the call out
          result    \* result[t]: how its last call ended

vars == <<open, kind, handled, result>>

(* get_variables | _apply_get, _apply_post | an apply after which the      *)
(* caller invalidates the logon, such as reboot | authenticate             *)
Kinds == {"read", "apply", "restart", "login"}

Results == {"none", "ok", "auth", "request", "disconnected", "unauthorized",
            "raw", "cancelled"}

(* Which results the caller may be given.  Data is only returned if the    *)
(* switch produced it, and a refusal means that nothing was carried out.   *)
Honest(k, n, r) ==
    /\ k = "read" /\ r = "ok" => n = 1
    /\ r \in {"auth", "unauthorized"} => n = 0
    /\ k = "login" => n = 0

Init ==
    /\ open = [t \in Tasks |-> FALSE]
    /\ kind = [t \in Tasks |-> "read"]
    /\ handled = [t \in Tasks |-> 0]
    /\ result = [t \in Tasks |-> "none"]

Begin(t, k) ==
    /\ ~open[t]
    /\ open' = [open EXCEPT ![t] = TRUE]
    /\ kind' = [kind EXCEPT ![t] = k]
    /\ handled' = [handled EXCEPT ![t] = 0]
    /\ result' = [result EXCEPT ![t] = "none"]

CarryOut(t) ==
    /\ open[t]
    /\ kind[t] # "login"
    /\ handled[t] = 0
    /\ handled' = [handled EXCEPT ![t] = 1]
    /\ UNCHANGED <<open, kind, result>>

End(t, r) ==
    /\ open[t]
    /\ r # "none"
    /\ Honest(kind[t], handled[t], r)
    /\ open' = [open EXCEPT ![t] = FALSE]
    /\ result' = [result EXCEPT ![t] = r]
    /\ UNCHANGED <<kind, handled>>

Next ==
    \E t \in Tasks :
        \/ \E k \in Kinds : Begin(t, k)
        \/ CarryOut(t)
        \/ \E r \in Results : End(t, r)

Spec == Init /\ [][Next]_vars

=============================================================================

----------------------------- MODULE RemoteCall -----------------------------
(***************************************************************************)
(* What a caller of VergeClient._request may rely on, whatever the network *)
(* does: a call that reaches the server takes effect at most Limit times,  *)
(* before or after it has returned, and it returns success only when it    *)
(* has taken effect.  Transport.tla is shown to implement this contract.   *)
(***************************************************************************)
EXTENDS Naturals

CONSTANTS Calls, \* identities of the calls a client makes
          Limit  \* how many times one call may take effect

VARIABLES effects, \* effects[c]: how many times call c has taken effect
          verdict  \* verdict[c]: "open", "ok" or "error"

contract == <<effects, verdict>>

Init == /\ effects = [c \in Calls |-> 0]
        /\ verdict = [c \in Calls |-> "open"]

TakeEffect(c) == /\ effects[c] < Limit
                 /\ effects' = [effects EXCEPT ![c] = @ + 1]
                 /\ UNCHANGED verdict

Return(c, v) == /\ verdict[c] = "open"
                /\ v = "ok" => effects[c] > 0
                /\ verdict' = [verdict EXCEPT ![c] = v]
                /\ UNCHANGED effects

Next == \E c \in Calls : \/ TakeEffect(c)
                         \/ \E v \in {"ok", "error"} : Return(c, v)

Spec == Init /\ [][Next]_contract
=============================================================================

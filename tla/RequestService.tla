--------------------------- MODULE RequestService ---------------------------
(***************************************************************************)
(* What the RequestManager promises to the HTTP side, whatever its threads *)
(* and queues do: a request is taken or refused once, a request that was   *)
(* taken is answered once, and it is refused only if at least MaxQueue     *)
(* others are waiting for their answer.                                    *)
(***************************************************************************)
EXTENDS Integers, FiniteSets

CONSTANTS Requests, MaxQueue

VARIABLES reply,    \* request -> "none", "pending" or its final answer
          stopped   \* the service was told to stop

vars == <<reply, stopped>>

Waiting == {r \in Requests : reply[r] = "pending"}

Init == reply = [r \in Requests |-> "none"] /\ stopped = FALSE

Accept(r) == /\ ~stopped /\ reply[r] = "none"
             /\ reply' = [reply EXCEPT ![r] = "pending"]
             /\ UNCHANGED stopped

Refuse(r) == /\ ~stopped /\ reply[r] = "none"
             /\ Cardinality(Waiting) >= MaxQueue
             /\ reply' = [reply EXCEPT ![r] = "unavailable"]
             /\ UNCHANGED stopped

Respond(r) == /\ reply[r] = "pending"
              /\ \E a \in {"ok", "forbidden", "not_implemented"} :
                    reply' = [reply EXCEPT ![r] = a]
              /\ UNCHANGED stopped

Stop == ~stopped /\ stopped' = TRUE /\ UNCHANGED reply

Next == Stop \/ \E r \in Requests : Accept(r) \/ Refuse(r) \/ Respond(r)

Spec == Init /\ [][Next]_vars

\* Every accepted request is answered, as long as the service is not stopped.
FairSpec == Spec /\ \A r \in Requests : WF_vars(~stopped /\ Respond(r))
=============================================================================

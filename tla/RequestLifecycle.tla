--------------------------- MODULE RequestLifecycle ---------------------------
(***************************************************************************)
(* What an application may rely on when it uses a diagnostic service       *)
(* (protocol/obd_service.h, protocol/uds_service.h): one request at a      *)
(* time, which ends with a status of its own, and a result that is there   *)
(* from a ResponseReady until the next accepted request. ObdService and    *)
(* UdsService are each shown to implement Spec.                            *)
(***************************************************************************)

VARIABLES
  active,      \* isRequestActive()
  status,      \* status()
  published    \* whether the accessors return a result

Refusals == {"InvalidRequest", "PolicyDenied"}

\* Statuses of a request that goes on.
Ongoing == {"InProgress", "Busy", "UnexpectedResponse", "ResponsePending"}

Failures ==
  {"Timeout", "InvalidResponse", "NegativeResponse", "PendingLimitExceeded",
   "TransportFailure"}

Init == active = FALSE /\ status = "Idle" /\ published = FALSE

\* A request refused before it reached the transport. Some refusals come before the old
\* result is cleared, and the accessors then still return it.
Refuse ==
  /\ ~active
  /\ status' \in Refusals
  /\ published' \in {published, FALSE}
  /\ UNCHANGED active

Start ==
  /\ ~active
  /\ published' = FALSE
  /\ \/ active' = TRUE /\ status' = "InProgress"
     \/ active' = FALSE /\ status' = "TransportFailure"

\* A poll that does not end the request, or another request, which is told Busy.
Remain ==
  /\ active
  /\ status' \in Ongoing
  /\ UNCHANGED <<active, published>>

Succeed ==
  /\ active
  /\ active' = FALSE
  /\ status' = "ResponseReady"
  /\ published' \in BOOLEAN

Fail ==
  /\ active
  /\ active' = FALSE
  /\ status' \in Failures
  /\ UNCHANGED published

Next == Refuse \/ Start \/ Remain \/ Succeed \/ Fail

Spec == Init /\ [][Next]_<<active, status, published>>
===============================================================================

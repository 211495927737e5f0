--------------------------- MODULE OutboxLifecycle ---------------------------
(***************************************************************************)
(* What the outbox promises its users, with no dispatcher, transaction or  *)
(* clock in sight: each event moves along the status machine of status.go, *)
(* reaches PUBLISHED only after a handler has accepted it, and leaves the  *)
(* table only from a terminal status and never if its type is kept.        *)
(***************************************************************************)
CONSTANTS Events, Kept

VARIABLES status, acked

vars == <<status, acked>>

Live     == {"PENDING", "PROCESSING", "FAILED"}
Terminal == {"PUBLISHED", "INVALID"}

(* OutboxEventStatus.CanTransitionTo.                                      *)
CanTransitionTo(s, next) ==
    \/ s \in {"PENDING", "FAILED"} /\ next = "PROCESSING"
    \/ s = "PROCESSING" /\ next \in {"PROCESSING", "PUBLISHED", "FAILED", "INVALID"}

Init == status = [e \in Events |-> "NONE"] /\ acked = {}

(* The producer's transaction commits.                                     *)
Insert(e) == status[e] = "NONE" /\ status'[e] = "PENDING"

Move(e) ==
    /\ CanTransitionTo(status[e], status'[e])
    /\ status'[e] = "PUBLISHED" => e \in acked

Purge(e) == status[e] \in Terminal /\ e \notin Kept /\ status'[e] = "NONE"

(* One repository call may write several rows at once, each legally.       *)
Write ==
    /\ status' \in [Events -> {"NONE"} \cup Live \cup Terminal]
    /\ \A e \in Events : status'[e] = status[e] \/ Insert(e) \/ Move(e) \/ Purge(e)
    /\ UNCHANGED acked

(* A handler accepts an event; delivery is at least once, so a late        *)
(* delivery may come in any status.                                        *)
Accept(e) == acked' = acked \cup {e} /\ UNCHANGED status

Next == Write \/ \E e \in Events : Accept(e)

Spec == Init /\ [][Next]_vars
=============================================================================

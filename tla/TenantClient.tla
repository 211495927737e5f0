---------------------------- MODULE TenantClient ----------------------------
(***************************************************************************)
(* The HTTP client of the Tenant Manager.  Its reads (configuration,       *)
(* principals, metadata, active tenants) and its writes (create a tenant,  *)
(* associate, suspend, reactivate) run side by side and share one circuit  *)
(* breaker.  Each kind of call has its own reading of the status: what     *)
(* counts as a failure of the service, what as a sign of life, what as     *)
(* neither.  Callers repeat their call, so an answer lost on the way back  *)
(* is followed by a call for what is already done.                         *)
(***************************************************************************)
EXTENDS Naturals, FiniteSets

CONSTANTS
    Clients,        \* goroutines that use the client
    Errands,        \* what each of them calls: functions from Clients to Ops
    cbLimit,        \* cbThreshold
    MaxTroubles     \* how often the network or the Tenant Manager misbehaves

VARIABLES
    errand,         \* client -> the operation it repeats
    breaker,        \* cbFailures (capped at the threshold) and cbState
    lapsed,         \* open, and cbLastFailure is more than cbTimeout ago
    registry,       \* the Tenant Manager's record of the tenant
    at,             \* client -> idle | gate | ready | answered
    answer,         \* client -> the answer on its way
    reached,        \* client -> what was asked for held when it was answered
    told,           \* client -> what its last call returned
    troubles,
    bad             \* history: failures of the service since it last served a call

cvars == <<errand, breaker, lapsed, registry, at, answer, reached, told, troubles, bad>>

Ops == {"config", "principals", "active", "metadata", "create", "associate", "suspend", "reactivate"}

ASSUME ClientsAssumption ==
    cbLimit \in Nat \ {0} /\ MaxTroubles \in Nat /\ Errands \subseteq [Clients -> Ops]

Transitions == {"suspend", "reactivate"}
Writes      == Transitions \cup {"create", "associate"}

(* Classes of answers: 200 and 201, other 2xx, 200 whose body does not     *)
(* parse, 409, 403 and 404, other 4xx, 3xx, 5xx, none at all.              *)
Answers == {"ok", "other2xx", "garbled", "conflict", "denied", "rejected", "redirect", "5xx", "none"}

ClientTypeOK ==
    /\ errand \in [Clients -> Ops] /\ registry.association \in {"absent", "active", "suspended"}
    /\ breaker \in [failures : 0 .. cbLimit, state : {"closed", "open", "halfOpen"}]
    /\ at \in [Clients -> {"idle", "gate", "ready", "answered"}]
    /\ answer \in [Clients -> Answers] /\ troubles \in 0 .. MaxTroubles

ClientInit ==
    /\ errand \in Errands
    /\ breaker = [failures |-> 0, state |-> "closed"] /\ lapsed = FALSE
    /\ registry \in [known : BOOLEAN, halted : BOOLEAN, association : {"absent", "active"}]
    /\ ~registry.known => ~registry.halted /\ registry.association = "absent"
    /\ at = [c \in Clients |-> "idle"] /\ answer = [c \in Clients |-> "none"]
    /\ reached = [c \in Clients |-> FALSE] /\ told = [c \in Clients |-> "nothing"]
    /\ troubles = 0 /\ bad = 0

-----------------------------------------------------------------------------
Calls(c) ==
    /\ at[c] = "idle" /\ at' = [at EXCEPT ![c] = "gate"]
    /\ UNCHANGED <<errand, breaker, lapsed, registry, answer, reached, told, troubles, bad>>

(* An open breaker lets calls through again when cbTimeout has passed.     *)
admits == breaker.state # "open" \/ lapsed

checkCircuitBreaker(c) ==
    /\ at[c] = "gate"
    /\ IF admits
         THEN /\ at' = [at EXCEPT ![c] = "ready"] /\ UNCHANGED told
              /\ breaker' = IF lapsed THEN [breaker EXCEPT !.state = "halfOpen"] ELSE breaker
              /\ lapsed' = FALSE
         ELSE /\ at' = [at EXCEPT ![c] = "idle"] /\ told' = [told EXCEPT ![c] = "circuitOpen"]
              /\ UNCHANGED <<breaker, lapsed>>
    /\ UNCHANGED <<errand, registry, answer, reached, troubles, bad>>

(* No token for a write: the call ends without the breaker hearing of it,  *)
(* even if it was the one that half-opened it.                             *)
bearerTokenFails(c) ==
    /\ at[c] = "ready" /\ errand[c] \in Writes /\ troubles < MaxTroubles /\ troubles' = troubles + 1
    /\ at' = [at EXCEPT ![c] = "idle"] /\ told' = [told EXCEPT ![c] = "error"]
    /\ UNCHANGED <<errand, breaker, lapsed, registry, answer, reached, bad>>

-----------------------------------------------------------------------------
(* The Tenant Manager: how it answers, and what it then holds.             *)
replies(op) ==
    CASE op = "active"     -> "ok"
      [] op = "metadata"   -> IF registry.known THEN "ok" ELSE "denied"
      [] op \in {"config", "principals"} ->
            IF registry.known /\ ~registry.halted /\ registry.association = "active" THEN "ok" ELSE "denied"
      [] op = "create"     -> "ok"
      [] op = "associate"  -> IF ~registry.known THEN "denied"
                              ELSE IF registry.association = "absent" THEN "ok" ELSE "conflict"
      [] op = "suspend"    -> IF registry.association = "absent" THEN "denied"
                              ELSE IF registry.association = "active" THEN "ok" ELSE "conflict"
      [] op = "reactivate" -> IF ~registry.known THEN "denied"
                              ELSE IF registry.halted THEN "ok" ELSE "conflict"

after(op) ==
    CASE op = "create"     -> [registry EXCEPT !.known = TRUE]
      [] op = "associate"  -> [registry EXCEPT !.association = "active"]
      [] op = "suspend"    -> [registry EXCEPT !.association = "suspended"]
      [] op = "reactivate" -> [registry EXCEPT !.halted = FALSE]
      [] OTHER             -> registry

holds(op, r) ==
    CASE op = "create"     -> r.known
      [] op = "associate"  -> r.association # "absent"
      [] op = "suspend"    -> r.association = "suspended"
      [] op = "reactivate" -> r.known /\ ~r.halted
      [] OTHER             -> replies(op) = "ok"

(* It does what is asked and answers; the answer is lost, unreadable or    *)
(* an unexpected success; or nothing is done: no connection, a failure, a  *)
(* rejected request (a key, a rate limit), a redirect.                     *)
served(c) ==
    /\ at[c] = "ready" /\ at' = [at EXCEPT ![c] = "answered"]
    /\ \E a \in Answers :
         /\ answer' = [answer EXCEPT ![c] = a]
         /\ \/ a = replies(errand[c]) /\ UNCHANGED troubles
               /\ registry' = IF a = "ok" THEN after(errand[c]) ELSE registry
            \/ /\ troubles < MaxTroubles /\ troubles' = troubles + 1
               /\ \/ a \in {"none", "garbled", "other2xx"} /\ replies(errand[c]) = "ok"
                     /\ registry' = after(errand[c])
                  \/ a \in {"none", "5xx", "rejected", "redirect"} /\ UNCHANGED registry
    /\ reached' = [reached EXCEPT ![c] = holds(errand[c], registry')]
    /\ UNCHANGED <<errand, breaker, lapsed, told, bad>>

-----------------------------------------------------------------------------
recordSuccess == breaker' = [failures |-> 0, state |-> "closed"] /\ lapsed' = FALSE

recordFailure ==
    LET n == IF breaker.failures < cbLimit THEN breaker.failures + 1 ELSE breaker.failures
    IN  /\ breaker' = [failures |-> n, state |-> IF n >= cbLimit THEN "open" ELSE breaker.state]
        /\ lapsed' = FALSE

recordNothing == UNCHANGED <<breaker, lapsed>>

(* Every call alike: 5xx is a failure of the service, and so is no answer. *)
isServerError(a) == a = "5xx"
unavailable(a)   == a = "none" \/ isServerError(a)

(* The call returns v, and records what rec says.                          *)
returns(c, op, rec, v) ==
    /\ at[c] = "answered" /\ errand[c] = op /\ at' = [at EXCEPT ![c] = "idle"]
    /\ rec /\ told' = [told EXCEPT ![c] = v] /\ answer' = [answer EXCEPT ![c] = "none"]
    /\ bad' = IF unavailable(answer[c]) THEN (IF bad < cbLimit THEN bad + 1 ELSE bad)
              ELSE IF answer[c] \in {"ok", "denied"} THEN 0 ELSE bad
    /\ UNCHANGED <<errand, registry, reached, troubles>>

(* A configuration: 403 and 404 are signs of life, other statuses say      *)
(* nothing, and neither does a body that does not parse.                   *)
handleGetTenantConfigStatus(a) ==
    IF unavailable(a) THEN recordFailure ELSE IF a \in {"ok", "denied"} THEN recordSuccess ELSE recordNothing

readResult(a) == IF a \in {"ok", "denied"} THEN a ELSE "error"

GetTenantConfig(c)     == returns(c, "config", handleGetTenantConfigStatus(answer[c]), readResult(answer[c]))
GetTenantPrincipals(c) == returns(c, "principals", handleGetTenantConfigStatus(answer[c]), readResult(answer[c]))

(* Metadata and the list of tenants: every status below 500 is a sign of   *)
(* life, a redirect too; only a body that does not parse is not.           *)
anyStatus(a) ==
    IF unavailable(a) THEN recordFailure ELSE IF a = "garbled" THEN recordNothing ELSE recordSuccess

GetTenantMetadata(c)         == returns(c, "metadata", anyStatus(answer[c]), readResult(answer[c]))
GetActiveTenantsByService(c) == returns(c, "active", anyStatus(answer[c]), readResult(answer[c]))

(* Writes: 2xx other than 200 and 201, and 3xx, leave the breaker alone.   *)
handleCreateTenantStatus(a) ==
    IF unavailable(a) THEN recordFailure
    ELSE IF a \in {"ok", "conflict", "denied", "rejected"} THEN recordSuccess ELSE recordNothing
handleAssociateServiceStatus(a) ==
    IF unavailable(a) THEN recordFailure
    ELSE IF a \in {"ok", "conflict", "denied", "rejected"} THEN recordSuccess ELSE recordNothing

writeResult(a) == IF a = "conflict" THEN a ELSE readResult(a)

CreateTenant(c)     == returns(c, "create", handleCreateTenantStatus(answer[c]), writeResult(answer[c]))
AssociateService(c) == returns(c, "associate", handleAssociateServiceStatus(answer[c]), writeResult(answer[c]))

(* Transitions read no body, and 409 means the tenant is there already.    *)
handleStateTransitionStatus(a) ==
    IF unavailable(a) THEN recordFailure ELSE IF a = "redirect" THEN recordNothing ELSE recordSuccess

transitionResult(a) ==
    IF a \in {"ok", "other2xx", "garbled", "conflict"} THEN "ok" ELSE IF a = "denied" THEN a ELSE "error"

doStateTransition(c, op) ==
    returns(c, op, handleStateTransitionStatus(answer[c]), transitionResult(answer[c]))

SuspendService(c)   == doStateTransition(c, "suspend")
ReactivateTenant(c) == doStateTransition(c, "reactivate")

(* cbTimeout passes after the last failure.                                *)
Lapses ==
    /\ breaker.state = "open" /\ ~lapsed /\ lapsed' = TRUE
    /\ UNCHANGED <<errand, breaker, registry, at, answer, reached, told, troubles, bad>>

clientStep(c) ==
    \/ Calls(c) \/ checkCircuitBreaker(c) \/ bearerTokenFails(c) \/ served(c)
    \/ GetTenantConfig(c) \/ GetTenantPrincipals(c) \/ GetTenantMetadata(c) \/ GetActiveTenantsByService(c)
    \/ CreateTenant(c) \/ AssociateService(c) \/ SuspendService(c) \/ ReactivateTenant(c)

ClientNext == Lapses \/ \E c \in Clients : clientStep(c)

ClientSpec == ClientInit /\ [][ClientNext]_cvars

-----------------------------------------------------------------------------
(* The breaker is open only after cbThreshold failures of the service with *)
(* no call served among them, whatever the calls in flight, and whoever is *)
(* told that a write took effect, or was done already, is told the truth.  *)
ClientSound ==
    /\ ClientTypeOK
    /\ breaker.state = "open" => bad = cbLimit
    /\ \A c \in Clients : at[c] = "idle" /\ told[c] \in {"ok", "conflict"} => reached[c]

(* Once the trouble is over every caller learns the outcome, although an   *)
(* answer to it was lost before, and calls flow again.                     *)
ClientSettled ==
    /\ breaker.state = "closed"
    /\ \A c \in Clients : told[c] \in {"ok", "conflict", "denied"}
=============================================================================

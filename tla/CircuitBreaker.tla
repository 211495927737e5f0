--------------------------- MODULE CircuitBreaker ---------------------------
(***************************************************************************)
(* The circuit breaker manager: one slot per (tenant, service) pair, each  *)
(* holding a gobreaker instance that Reset, ResetTenant and RemoveTenant   *)
(* replace or drop while calls run on it and callers keep handles to it.   *)
(* The breaker itself (gobreaker) is modelled from the settings it is      *)
(* given: generations, lazy timeouts and the trip function.                *)
(***************************************************************************)
EXTENDS Naturals, FiniteSets

CONSTANTS
    Services,
    NoTenant,      \* the process-wide scope of the single-tenant methods
    Callers, NoKey,
    Configs        \* breaker configurations and bounds:
                   \*   tenants      tenant scopes beside NoTenant
                   \*   maxRequests  probes in half-open; 0 is taken as 1
                   \*   consecutive  ConsecutiveFailures; 0 disables the check
                   \*   minRequests  0 disables the ratio check
                   \*   num, den     FailureRatio
                   \*   interval     whether a closed breaker forgets its counts
                   \*   maxBreakers  bound: instances ever made
                   \*   maxCalls     bound: requests admitted in one generation
                   \*   maxGen       bound: generations of one instance

VARIABLES
    cfg,      \* the configuration every breaker of the manager is made with
    slots,    \* the manager's map: instance of each key, or None
    br,       \* every instance made
    made,     \* how many
    hand,     \* the handle each caller last got from GetOrCreate
    call,     \* the call each caller has under way
    failed    \* history: failures reported for each key since its slot was last filled

breakerVars == <<cfg, slots, br, made, hand, call, failed>>

Tenants == cfg.tenants
Keys == (Tenants \cup {NoTenant}) \X Services
TenantOf(k) == k[1]
Instances == 1 .. cfg.maxBreakers
None == 0

(* Config.Validate: one of the checks is on, and a ratio is one.           *)
Configured ==
    /\ IsFiniteSet(Services) /\ IsFiniteSet(Callers)
    /\ \A c \in Configs :
         /\ {c.maxRequests, c.consecutive, c.minRequests, c.num, c.den,
             c.maxBreakers, c.maxCalls, c.maxGen} \subseteq Nat
         /\ c.consecutive > 0 \/ c.minRequests > 0
         /\ c.den > 0 /\ c.num <= c.den /\ (c.minRequests > 0 => c.num > 0)

ASSUME ConfigAssumption == Configured

States == {"closed", "open", "half-open"}
IdleCall == [on |-> None, gen |-> 0, key |-> NoKey]

(* A fresh instance, as NewCircuitBreaker makes it.                        *)
Fresh(k) == [key |-> k, state |-> "closed", gen |-> 0, req |-> 0, fail |-> 0,
             cf |-> 0, cs |-> 0, due |-> FALSE]

Breaker == [key : Keys, state : States, gen : Nat, req : Nat, fail : Nat, cf : Nat, cs : Nat, due : BOOLEAN]

BreakerTypeOK ==
    /\ cfg \in Configs
    /\ slots \in [Keys -> 0 .. cfg.maxBreakers]
    /\ made \in 0 .. cfg.maxBreakers
    /\ br \in [1 .. made -> Breaker]
    /\ hand \in [Callers -> 0 .. cfg.maxBreakers]
    /\ call \in [Callers -> [on : 0 .. cfg.maxBreakers, gen : Nat, key : Keys \cup {NoKey}]]
    /\ failed \in [Keys -> Nat]

BreakerInit ==
    /\ cfg \in Configs
    /\ slots = [k \in Keys |-> None]
    /\ made = 0 /\ br = << >>
    /\ hand = [c \in Callers |-> None]
    /\ call = [c \in Callers |-> IdleCall]
    /\ failed = [k \in Keys |-> 0]

-----------------------------------------------------------------------------
(* readyToTrip.                                                            *)
ReadyToTrip(b) ==
    \/ cfg.consecutive > 0 /\ b.cf >= cfg.consecutive
    \/ cfg.minRequests > 0 /\ b.req >= cfg.minRequests /\ b.fail * cfg.den >= cfg.num * b.req

Probes == IF cfg.maxRequests = 0 THEN 1 ELSE cfg.maxRequests

(* A new generation clears the counts.                                     *)
NewGeneration(b, state) ==
    [b EXCEPT !.state = state, !.gen = @ + 1, !.req = 0, !.fail = 0, !.cf = 0, !.cs = 0, !.due = FALSE]

(* Every call on a breaker first lets time act: an open breaker whose      *)
(* timeout is over turns half-open, a closed one may forget its counts.    *)
CurrentState(b) ==
    CASE b.due /\ b.state = "open"   -> NewGeneration(b, "half-open")
      [] b.due /\ b.state = "closed" -> NewGeneration(b, "closed")
      [] OTHER -> b

Rejects(b) == b.state = "open" \/ (b.state = "half-open" /\ b.req >= Probes)

AfterSuccess(b) ==
    LET s == [b EXCEPT !.cs = @ + 1, !.cf = 0]
    IN  IF b.state = "half-open" /\ s.cs >= Probes THEN NewGeneration(s, "closed") ELSE s

AfterFailure(b) ==
    LET f == [b EXCEPT !.fail = @ + 1, !.cf = @ + 1, !.cs = 0]
    IN  IF b.state = "half-open" \/ ReadyToTrip(f) THEN NewGeneration(f, "open") ELSE f

(* The instance becomes b; a change of state is announced to listeners     *)
(* (handleStateChange), who hold no lock and change nothing here.          *)
Becomes(i, b) == br' = [br EXCEPT ![i] = b]

-----------------------------------------------------------------------------
(* The manager's operations: m.mu is held across each of them.             *)
Install(ks) ==
    /\ \E f \in [ks -> Instances] :
          /\ \A k \in ks : f[k] \in made + 1 .. made + Cardinality(ks)
          /\ \A k, l \in ks : f[k] = f[l] => k = l
          /\ slots' = [k \in Keys |-> IF k \in ks THEN f[k] ELSE slots[k]]
          /\ br' = [i \in 1 .. made + Cardinality(ks) |->
                      IF i <= made THEN br[i] ELSE Fresh(CHOOSE k \in ks : f[k] = i)]
    /\ made' = made + Cardinality(ks)
    /\ failed' = [k \in Keys |-> IF k \in ks THEN 0 ELSE failed[k]]

(* validateBreakerIdentity.                                                *)
Key(t, s) == <<t, s>>

GetOrCreate(c, t, s) ==
    LET k == Key(t, s) IN
    /\ call[c] = IdleCall
    /\ \/ slots[k] # None /\ UNCHANGED <<slots, br, made, failed>>
       \/ slots[k] = None /\ made < cfg.maxBreakers /\ Install({k})
    /\ hand' = [hand EXCEPT ![c] = slots'[k]]
    /\ UNCHANGED call

(* Reset, ResetForTenant, ResetTenant: every slot named gets a fresh       *)
(* instance; nothing is announced.                                         *)
ResetSlots(ks) ==
    /\ ks # {} /\ made + Cardinality(ks) <= cfg.maxBreakers
    /\ Install(ks)
    /\ UNCHANGED <<hand, call>>

Reset(t, s) == ResetSlots({k \in {Key(t, s)} : slots[k] # None})
ResetTenant(t) == ResetSlots({k \in Keys : TenantOf(k) = t /\ slots[k] # None})

RemoveTenant(t) ==
    /\ \E k \in Keys : TenantOf(k) = t /\ slots[k] # None
    /\ slots' = [k \in Keys |-> IF TenantOf(k) = t THEN None ELSE slots[k]]
    /\ UNCHANGED <<br, made, hand, call, failed>>

-----------------------------------------------------------------------------
(* Calls: admitted or rejected by the instance, run without any lock, then *)
(* reported to the instance they were admitted by.                         *)
Start(c, i, k) ==
    /\ call[c] = IdleCall /\ i # None
    /\ LET b == CurrentState(br[i]) IN
       /\ b.req < cfg.maxCalls
       /\ IF Rejects(b)
            THEN Becomes(i, b) /\ UNCHANGED call
            ELSE /\ Becomes(i, [b EXCEPT !.req = @ + 1])
                 /\ call' = [call EXCEPT ![c] = [on |-> i, gen |-> b.gen, key |-> k]]
    /\ UNCHANGED <<slots, made, hand, failed>>

Execute(c, t, s) == Start(c, slots[Key(t, s)], <<t, s>>)

(* Execute on a handle: its breaker, whatever became of the slot.          *)
ExecuteHandle(c) == hand[c] # None /\ Start(c, hand[c], br[hand[c]].key)

(* Mutant: the result is counted whichever generation admitted the call.   *)
CountedAnyway(b, gen) == TRUE

Counted(b, gen) == b.gen = gen

Finish(c, ok) ==
    /\ call[c].on # None
    /\ LET i == call[c].on
           b == CurrentState(br[i])
       IN  /\ Becomes(i, IF ~Counted(b, call[c].gen) THEN b
                         ELSE IF ok THEN AfterSuccess(b) ELSE AfterFailure(b))
           /\ failed' = IF i = slots[call[c].key] /\ ~ok
                          THEN [failed EXCEPT ![call[c].key] = @ + 1] ELSE failed
    /\ call' = [call EXCEPT ![c] = IdleCall]
    /\ UNCHANGED <<slots, made, hand>>

(* GetState and IsHealthy let time act too.                                *)
GetState(k) ==
    /\ slots[k] # None /\ CurrentState(br[slots[k]]) # br[slots[k]]
    /\ Becomes(slots[k], CurrentState(br[slots[k]]))
    /\ UNCHANGED <<slots, made, hand, call, failed>>

(* The interval or the timeout of an instance is over.                     *)
Elapse(i) ==
    /\ i <= made /\ ~br[i].due /\ br[i].gen < cfg.maxGen
    /\ br[i].state = "open" \/ (br[i].state = "closed" /\ cfg.interval /\ br[i].req > 0)
    /\ br' = [br EXCEPT ![i].due = TRUE]
    /\ UNCHANGED <<slots, made, hand, call, failed>>

BreakerNext ==
    /\ UNCHANGED cfg
    /\ \/ \E c \in Callers, t \in Tenants \cup {NoTenant}, s \in Services :
             GetOrCreate(c, t, s) \/ Execute(c, t, s)
       \/ \E c \in Callers : ExecuteHandle(c) \/ \E ok \in BOOLEAN : Finish(c, ok)
       \/ \E t \in Tenants \cup {NoTenant}, s \in Services : Reset(t, s) \/ GetState(Key(t, s))
       \/ \E t \in Tenants : ResetTenant(t) \/ RemoveTenant(t)
       \/ \E i \in Instances : Elapse(i)

BreakerSpec == BreakerInit /\ [][BreakerNext]_breakerVars

-----------------------------------------------------------------------------
InFlight(i) == {c \in Callers : call[c].on = i /\ call[c].gen = br[i].gen}

(* A pair's breaker leaves closed only on the evidence its configuration   *)
(* asks for, made of failures of that pair's own calls admitted since the  *)
(* slot was last created or reset: not of another tenant's, not of calls   *)
(* admitted by the instance that a reset replaced, not of late results.    *)
TripsOnOwnEvidence ==
    \A k \in Keys :
      slots[k] # None /\ br[slots[k]].state # "closed" =>
        \/ cfg.consecutive > 0 /\ failed[k] >= cfg.consecutive
        \/ cfg.minRequests > 0 /\ failed[k] * cfg.den >= cfg.num * cfg.minRequests

(* What a generation has counted was admitted by it: its failures and its  *)
(* calls still running are among its requests.                             *)
CountsAreAdmitted ==
    \A i \in 1 .. made : br[i].fail + Cardinality(InFlight(i)) <= br[i].req

(* A recovering service sees at most the configured probes at a time,      *)
(* although calls admitted before it opened may still be running.          *)
ProbesBounded ==
    \A i \in 1 .. made : br[i].state = "half-open" => Cardinality(InFlight(i)) <= Probes

(* Late results never reach a generation that did not admit the call, with *)
(* the types: counts and probes of every instance are its own              *)
(* (beforeRequest, afterRequest through Execute).                          *)
AdmissionIsAccounted == BreakerTypeOK /\ CountsAreAdmitted /\ ProbesBounded

(* A breaker opens on its own pair's evidence since its last reset, and    *)
(* late results neither trip it nor make room for probes (Execute, Reset,  *)
(* Remove).                                                                *)
BreakerSound == TripsOnOwnEvidence /\ AdmissionIsAccounted
=============================================================================

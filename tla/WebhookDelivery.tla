-------------------------- MODULE WebhookDelivery --------------------------
(***************************************************************************)
(* One event delivered to many endpoints: a goroutine per endpoint under a *)
(* semaphore, each with its retries, and receivers that check the          *)
(* signature.  Answers get lost, requests arrive late or twice, and the    *)
(* event grows old while its delivery is retried.                          *)
(***************************************************************************)
EXTENDS Naturals, FiniteSets, Sequences

CONSTANTS Hooks,       \* [endpoints, version, results, maxConc]
          maxRetries, tolerance, MaxAge

ASSUME WebhookAssumption ==
    /\ maxRetries \in Nat \ {0} /\ {tolerance, MaxAge} \subseteq Nat
    /\ \A h \in Hooks :
         /\ h.maxConc \in Nat \ {0} /\ h.results \in BOOLEAN
         /\ h.endpoints \in Seq([active : BOOLEAN, target : {"safe", "blocked"}, encrypted : BOOLEAN,
                                 signs : {"shared", "other"},
                                 check : {"none", "signature", "fresh", "strictFresh"}])

VARIABLES hook,        \* the call: one of Hooks
          dpc,         \* Deliver
          left,        \* the active endpoints whose goroutine is not started yet
          epc,         \* each goroutine
          result,      \* each endpoint's DeliveryResult
          age,         \* seconds since the event's Timestamp
          onWire,      \* requests on their way: endpoint, and the signature
          answers,     \* endpoint -> what its receiver did with the requests that arrived
          metrics      \* endpoint -> RecordDelivery calls

wvars == <<hook, dpc, left, epc, result, age, onWire, answers, metrics>>

Endpoints == DOMAIN hook.endpoints
NoResult  == [status |-> "none", success |-> FALSE, error |-> "none", attempts |-> 0]

WebhookTypeOK ==
    /\ dpc \in {"list", "fan", "done"} /\ left \subseteq Endpoints /\ age \in 0 .. MaxAge
    /\ \A e \in Endpoints : result[e].attempts <= maxRetries + 1

WebhookInit ==
    /\ hook \in Hooks /\ dpc = "list" /\ left = {}
    /\ epc = [e \in Endpoints |-> "off"] /\ result = [e \in Endpoints |-> NoResult]
    /\ age = 0 /\ onWire = {} /\ answers = [e \in Endpoints |-> {}] /\ metrics = [e \in Endpoints |-> 0]

-----------------------------------------------------------------------------
(* computeSignature: version 1 also signs the timestamp.  A stamp is the   *)
(* timestamp a signature holds for, or "any".                              *)
computeSignature == IF hook.version = "v1" THEN [version |-> "v1", stamp |-> "event"]
                                           ELSE [version |-> "v0", stamp |-> "any"]

(* What a receiver is shown: the signature of a secret, and a timestamp    *)
(* header, which whoever repeats a request may have refreshed.             *)
Request(e, t) == [to |-> e, sig |-> computeSignature, secret |-> hook.endpoints[e].signs, header |-> t]

VerifySignature(r) ==
    /\ r.secret = "shared"
    /\ r.sig.version = "v1" => r.sig.stamp = r.header

VerifySignatureV1(r) == r.sig.version = "v1" /\ VerifySignature(r)

(* The age a receiver computes from the header.                            *)
SeenAge(r) == IF r.header = "event" THEN age ELSE 0

VerifySignatureV1WithFreshness(r) == VerifySignatureV1(r) /\ SeenAge(r) <= tolerance

VerifySignatureWithFreshness(r) == VerifySignature(r) /\ (r.sig.version = "v1" => SeenAge(r) <= tolerance)

Accepts(r) ==
    CASE hook.endpoints[r.to].check = "none"        -> TRUE
      [] hook.endpoints[r.to].check = "signature"   -> VerifySignature(r)
      [] hook.endpoints[r.to].check = "fresh"       -> VerifySignatureWithFreshness(r)
      [] hook.endpoints[r.to].check = "strictFresh" -> VerifySignatureV1WithFreshness(r)

-----------------------------------------------------------------------------
filterActive == {e \in Endpoints : hook.endpoints[e].active}

(* Deliver and DeliverWithResults: the same list and the same filter.      *)
ListsActive ==
    /\ dpc = "list"
    /\ \/ left' = filterActive /\ dpc' = IF left' = {} THEN "done" ELSE "fan"
       \/ dpc' = "done" /\ UNCHANGED left
    /\ UNCHANGED <<hook, epc, result, age, onWire, answers, metrics>>

Deliver            == ~hook.results /\ ListsActive
DeliverWithResults == hook.results /\ ListsActive

Running == {e \in Endpoints : epc[e] \notin {"off", "done"}}

semaphoreFree == Cardinality(Running) < hook.maxConc

(* The loop starts them in the order of the list.                          *)
Starts ==
    /\ dpc = "fan" /\ semaphoreFree
    /\ \E e \in left :
         /\ \A f \in left : e <= f
         /\ epc' = [epc EXCEPT ![e] = "resolve"] /\ left' = left \ {e}
    /\ UNCHANGED <<hook, dpc, result, age, onWire, answers, metrics>>

(* wg.Wait *)
Waits ==
    /\ dpc = "fan" /\ left = {} /\ Running = {} /\ dpc' = "done"
    /\ UNCHANGED <<hook, left, epc, result, age, onWire, answers, metrics>>

fanOut            == ~hook.results /\ (Starts \/ Waits)
fanOutWithResults == hook.results /\ (Starts \/ Waits)

-----------------------------------------------------------------------------
Concludes(e, r) == epc' = [epc EXCEPT ![e] = "done"] /\ result' = [result EXCEPT ![e] = r]
Records(e) == metrics' = [metrics EXCEPT ![e] = @ + 1]

(* The target is resolved and checked, the secret decrypted, once.         *)
resolveAndValidateWebhookTarget(e) ==
    /\ epc[e] = "resolve"
    /\ \/ hook.endpoints[e].target = "safe" /\ epc' = [epc EXCEPT ![e] = "secret"] /\ UNCHANGED result
       \/ hook.endpoints[e].target # "safe" /\ Concludes(e, [result[e] EXCEPT !.error = "blocked"])
    /\ UNCHANGED <<hook, dpc, left, age, onWire, answers, metrics>>

(* An error of the decryptor, or none configured, ends the delivery; a     *)
(* panic is recovered and leaves the result as it was.                     *)
resolveSecret(e) ==
    /\ epc[e] = "secret"
    /\ \/ epc' = [epc EXCEPT ![e] = "send"] /\ UNCHANGED result
       \/ hook.endpoints[e].encrypted /\ Concludes(e, [result[e] EXCEPT !.error = "secret"])
       \/ hook.endpoints[e].encrypted /\ Concludes(e, result[e])
    /\ UNCHANGED <<hook, dpc, left, age, onWire, answers, metrics>>

doHTTP(e) ==
    /\ epc[e] = "send" /\ epc' = [epc EXCEPT ![e] = "await"]
    /\ result' = [result EXCEPT ![e].attempts = @ + 1]
    /\ onWire' = onWire \cup {Request(e, "event")}
    /\ UNCHANGED <<hook, dpc, left, age, answers, metrics>>

(* No caller can cut the wait between two attempts short: a delivery's     *)
(* context is detached (context.WithoutCancel).                            *)
Retries(e, r) ==
    IF r.attempts <= maxRetries
      THEN epc' = [epc EXCEPT ![e] = "send"] /\ result' = [result EXCEPT ![e] = r] /\ UNCHANGED metrics
      ELSE Concludes(e, [r EXCEPT !.error = IF @ = "none" THEN "exhausted" ELSE "exhaustedAfter"]) /\ Records(e)

(* Mutant: a redirect is taken for success.                                *)
upTo399(s) == s \in {"2xx", "3xx"}

succeeded(s) == s = "2xx"
final(s)     == s \in {"3xx", "4xx"}

(* deliverToEndpoint with the answer s; 429 counts with 5xx as "busy".     *)
deliverToEndpoint(e, s) ==
    LET r == [result[e] EXCEPT !.status = s] IN
    /\ epc[e] = "await"
    /\ \/ succeeded(s) /\ Concludes(e, [r EXCEPT !.success = TRUE]) /\ Records(e)
       \/ ~succeeded(s) /\ final(s) /\ Concludes(e, [r EXCEPT !.error = "final"]) /\ Records(e)
       \/ s = "busy" /\ Retries(e, r)
    /\ UNCHANGED <<hook, dpc, left, age>>

(* The receiver answers, and the answer arrives or is lost.                *)
Handles(r, s) ==
    /\ r \in onWire /\ onWire' = onWire \ {r}
    /\ s \in IF Accepts(r) THEN {"2xx", "3xx", "busy"} ELSE {"4xx"}
    /\ answers' = [answers EXCEPT ![r.to] = @ \cup {[status |-> s, late |-> age > tolerance]}]

Answered(e, s) == Handles(Request(e, "event"), s) /\ deliverToEndpoint(e, s)

TransportFails(e) ==
    /\ epc[e] = "await" /\ Retries(e, [result[e] EXCEPT !.status = "none", !.error = "transport"])
    /\ \/ UNCHANGED <<onWire, answers>>
       \/ \E s \in {"2xx", "3xx", "busy", "4xx"} : Handles(Request(e, "event"), s)
    /\ UNCHANGED <<hook, dpc, left, age>>

(* What is left on the wire after its sender gave up arrives late, or is   *)
(* sent again with a new timestamp header by something in between.         *)
ArrivesLate(r) ==
    /\ r \in onWire /\ epc[r.to] # "await"
    /\ \/ \E s \in {"2xx", "3xx", "busy", "4xx"} : Handles(r, s)
       \/ r.header = "event" /\ onWire' = (onWire \ {r}) \cup {[r EXCEPT !.header = "now"]} /\ UNCHANGED answers
    /\ UNCHANGED <<hook, dpc, left, epc, result, age, metrics>>

GrowsOld == age < MaxAge /\ age' = age + 1 /\ UNCHANGED <<hook, dpc, left, epc, result, onWire, answers, metrics>>

EndpointStep(e) ==
    \/ resolveAndValidateWebhookTarget(e) \/ resolveSecret(e) \/ doHTTP(e) \/ TransportFails(e)
    \/ \E s \in {"2xx", "3xx", "busy", "4xx"} : Answered(e, s)

CallStep == Deliver \/ DeliverWithResults \/ fanOut \/ fanOutWithResults

WebhookNext ==
    \/ CallStep \/ (\E e \in Endpoints : EndpointStep(e))
    \/ (\E r \in onWire : ArrivesLate(r)) \/ GrowsOld

WebhookSpec == WebhookInit /\ [][WebhookNext]_wvars

-----------------------------------------------------------------------------
Answered2xx(e) == \E a \in answers[e] : a.status = "2xx"

(* When the call returns, nothing runs any more and every endpoint's       *)
(* result tells what happened: a success was accepted by the receiver, no  *)
(* request went to an inactive or blocked one, none was sent beyond the    *)
(* retries, what went wrong is reported unless the decryptor panicked, and *)
(* the metrics count each delivery that was tried once.                    *)
ResultsAreTrue ==
    dpc = "done" =>
        /\ Running = {}
        /\ \A e \in Endpoints :
             /\ result[e].success => Answered2xx(e) /\ result[e].status = "2xx"
             /\ (~hook.endpoints[e].active \/ hook.endpoints[e].target # "safe") => answers[e] = {}
             /\ result[e].attempts > 0 => result[e].success \/ result[e].error # "none"
             /\ metrics[e] = IF result[e].attempts > 0 THEN 1 ELSE 0

(* A receiver that insists on version 1 and on freshness accepts no event  *)
(* older than its tolerance, however it was retried, delayed or repeated.  *)
AcceptedIsFresh ==
    \A e \in Endpoints : hook.endpoints[e].check = "strictFresh" =>
        \A a \in answers[e] : a.status # "4xx" => ~a.late

(* WebhookDelivery: results tell what happened to each endpoint, and a     *)
(* receiver that checks freshness takes no stale event; no more than       *)
(* maxConc deliveries run at once (fanOut, deliverToEndpoint,              *)
(* VerifySignatureV1WithFreshness).                                        *)
WebhookSound ==
    /\ WebhookTypeOK /\ ResultsAreTrue /\ AcceptedIsFresh
    /\ Cardinality(Running) <= hook.maxConc

WebhookQuiet == dpc = "done"
=============================================================================

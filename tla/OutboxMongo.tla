----------------------------- MODULE OutboxMongo -----------------------------
(***************************************************************************)
(* The outbox on MongoDB: one tenant's collection, claimed, published,     *)
(* marked and purged by several dispatchers.  Where the Postgres backend   *)
(* holds row locks through one transaction, this one has no transaction at *)
(* all: a claim is a find, an unordered bulk of compare-and-set updates    *)
(* (one per document, each on status, attempts and updated_at), a read of  *)
(* the documents that carry the call's claim_token, and a rollback of the  *)
(* ones that read did not return.  Anything may happen between these.      *)
(*                                                                         *)
(* A call may fail at any of its steps with its writes made or not, the    *)
(* read may lag behind the call's own writes (a secondary), and a          *)
(* dispatcher may lose its whole cycle.  updated_at is kept as `moved':    *)
(* the documents written since a call's find; MongoDB stores milliseconds, *)
(* so such a document may still compare equal (a tie).  Time is `aged', as *)
(* in module Outbox.                                                       *)
(***************************************************************************)
EXTENDS Integers, FiniteSets, FiniteSetsExt

CONSTANTS
    Documents,
    Dispatchers,
    Setups,         \* scenarios: [running, priority, inserts, results, faults]
    Priority,       \* documents of the one priority type
    Kept,           \* documents whose type retention keeps
    BatchSize,
    PriorityBudget,
    MaxFailedPerBatch,
    MaxAttempts,
    MaxScans        \* maxListScanMultiplier

(* Limits are positive (the repository's defaults and validation), a       *)
(* dispatcher's claim token is one.                                        *)
ASSUME MongoAssumption ==
    /\ {BatchSize, PriorityBudget, MaxFailedPerBatch, MaxAttempts, MaxScans} \subseteq Nat \ {0}
    /\ IsFiniteSet(Documents) /\ IsFiniteSet(Dispatchers) /\ Priority \subseteq Documents
    /\ "none" \notin Dispatchers
    /\ \A s \in Setups : s.results \subseteq {"ok", "retryable", "nonretryable"}

VARIABLES
    doc,        \* the collection: [status, attempts, token, aged]
    setup,      \* running: the dispatchers there are; priority: those with
                \* PriorityEventTypes; inserts:
                \* how often each id may be created, again after a purge;
                \* results: what handlers answer; faults: how many
    disp,       \* what each dispatcher is doing
    moved,      \* documents written since the dispatcher's last find
    created,    \* how often each id was inserted
    faults,
    acked,      \* history: ids a handler accepted
    refused,    \* history: ids a handler refused for good
    taken,      \* history: ids some stuck reclaim took over
    handed,     \* history: how often a document was handed to a handler
    removed     \* history: statuses documents had when deleted

mongoVars == <<doc, setup, disp, moved, created, faults, acked, refused,
               taken, handed, removed>>

MongoHistory == <<acked, refused, taken, handed, removed>>

absent == [status |-> "NONE", attempts |-> 0, token |-> "none", aged |-> FALSE]
idle   == [pc |-> "idle", layer |-> "stuck", scans |-> 0, found |-> {},
           todo |-> {}, modified |-> {}, seen |-> [e \in Documents |-> 0], got |-> {},
           batch |-> {}, cur |-> "none", result |-> "ok"]

MongoInit ==
    /\ doc = [e \in Documents |-> absent]
    /\ setup \in Setups
    /\ disp = [d \in Dispatchers |-> idle]
    /\ moved = [d \in Dispatchers |-> {}]
    /\ created = [e \in Documents |-> 0]
    /\ faults = 0
    /\ acked = {} /\ refused = {} /\ taken = {} /\ removed = {}
    /\ handed = [e \in Documents |-> 0]

-----------------------------------------------------------------------------
(* Every update stamps updated_at.                                         *)
Store(f) ==
    /\ doc' = [e \in Documents |->
                 IF e \in DOMAIN f THEN [f[e] EXCEPT !.aged = FALSE] ELSE doc[e]]
    /\ moved' = [d \in Dispatchers |->
                   IF disp[d].pc = "claim" THEN moved[d] \cup DOMAIN f ELSE {}]

NoStore == UNCHANGED <<doc, moved>>

(* The claim token is a fresh uuid: once its scan is over nothing matches  *)
(* it any more, so the model drops it.                                     *)
spent(d) == [e \in Documents |->
               IF doc[e].token = d THEN [doc[e] EXCEPT !.token = "none"] ELSE doc[e]]

ScanOver(d) == doc' = spent(d) /\ UNCHANGED moved

goto(d, p) == disp' = [disp EXCEPT ![d].pc = p]

(* Create: inserted PENDING with no attempts, whatever the event carried.  *)
(* The unique index on the id refuses a document that is already there.    *)
Create(e) ==
    /\ doc[e].status = "NONE"
    /\ created[e] < setup.inserts[e]
    /\ created' = [created EXCEPT ![e] = @ + 1]
    /\ Store([x \in {e} |-> [absent EXCEPT !.status = "PENDING"]])
    /\ UNCHANGED <<setup, disp, faults, MongoHistory>>

(* The window of the document's status passes.                             *)
Age(e) ==
    /\ doc[e].status \in {"PROCESSING", "FAILED", "PUBLISHED"} /\ ~doc[e].aged
    /\ doc' = [doc EXCEPT ![e].aged = TRUE]
    /\ UNCHANGED <<setup, disp, moved, created, faults, MongoHistory>>

-----------------------------------------------------------------------------
(* The queries of ListPendingByType, ReclaimStuckProcessing, ResetForRetry *)
(* and ListPending.  A cycle takes its cut-off times before it claims, so  *)
(* what it claimed itself is not stuck in it.                              *)
Matching(d, layer) ==
    CASE layer = "priority" -> {e \in Priority : doc[e].status = "PENDING"}
      [] layer = "stuck"    -> {e \in Documents \ disp[d].batch : doc[e].status = "PROCESSING"
                                                                   /\ doc[e].aged}
      [] layer = "failed"   -> {e \in Documents : /\ doc[e].status = "FAILED"
                                                   /\ doc[e].attempts < MaxAttempts
                                                   /\ doc[e].aged}
      [] layer = "pending"  -> {e \in Documents : doc[e].status = "PENDING"}

(* Mutant: every claim but a retry expects a pending document.             *)
expectsPending(layer) == IF layer = "failed" THEN "FAILED" ELSE "PENDING"

fromStatus(layer) ==
    CASE layer = "stuck" -> "PROCESSING" [] layer = "failed" -> "FAILED"
      [] OTHER -> "PENDING"

(* collectEvents: the layers in their order.  This repository is no Multi- *)
(* TypePendingRepository, so priority types are no scope: a dispatcher     *)
(* that has them claims these first and then as the others do.             *)
StartCycle(d) ==
    /\ disp[d].pc = "idle" /\ d \in setup.running
    /\ disp' = [disp EXCEPT ![d] = [idle EXCEPT
                  !.pc = "find",
                  !.layer = IF d \in setup.priority THEN "priority" ELSE "stuck"]]
    /\ NoStore /\ UNCHANGED <<setup, created, faults, MongoHistory>>

following(layer) ==
    CASE layer = "priority" -> "stuck" [] layer = "stuck" -> "failed"
      [] layer = "failed" -> "pending" [] OTHER -> "none"

(* What a layer may hand out, beside the room left in the batch.           *)
limit(layer) ==
    CASE layer = "priority" -> PriorityBudget [] layer = "failed" -> MaxFailedPerBatch
      [] OTHER -> BatchSize

(* The call is over and handed out what it holds; the next layer, if any   *)
(* room is left, or publishing.                                            *)
CallOver(d, out) ==
    LET b    == disp[d].batch \cup out
        next == following(disp[d].layer)
    IN  disp' = [disp EXCEPT ![d] = [idle EXCEPT
                   !.batch = b, !.layer = next,
                   !.pc = IF next # "none" /\ Cardinality(b) < BatchSize
                            THEN "find" ELSE "publish"]]

remaining(d) ==
    Min({BatchSize - Cardinality(disp[d].batch), limit(disp[d].layer)}) - Cardinality(disp[d].got)

ScanAgain(d, out) ==
    disp' = [disp EXCEPT ![d] = [idle EXCEPT
               !.pc = "find", !.layer = disp[d].layer, !.scans = disp[d].scans,
               !.got = out, !.batch = disp[d].batch]]

HandOut(d, out) ==
    /\ handed' = [e \in Documents |-> handed[e] + IF e \in out THEN 1 ELSE 0]
    /\ CallOver(d, out)

(* findClaimCandidates, and the ways out of claimMatching's loop before it. *)
findClaimCandidates(d) ==
    LET matching == Matching(d, disp[d].layer) IN
    /\ disp[d].pc = "find"
    /\ \/ /\ remaining(d) = 0 \/ disp[d].scans = MaxScans \/ matching = {}
          /\ HandOut(d, disp[d].got)
          /\ NoStore
       \/ /\ remaining(d) > 0 /\ disp[d].scans < MaxScans
          /\ \E S \in SUBSET matching \ {{}} :
               /\ Cardinality(S) = Min({remaining(d), Cardinality(matching)})
               /\ disp' = [disp EXCEPT ![d].pc = "claim", ![d].found = S,
                             ![d].todo = S, ![d].scans = @ + 1,
                             ![d].seen = [e \in Documents |->
                                            IF e \in S THEN doc[e].attempts ELSE 0]]
          /\ moved' = [moved EXCEPT ![d] = {}]
          /\ UNCHANGED <<doc, handed>>
    /\ UNCHANGED <<setup, created, faults, acked, refused, taken, removed>>

(* The filter of one update of the bulk.                                   *)
matchesCandidate(d, e, tie) ==
    /\ doc[e].status = fromStatus(disp[d].layer)
    /\ doc[e].attempts = disp[d].seen[e]
    /\ e \notin moved[d] \/ tie

(* setForCandidate: a stuck reclaim spends an attempt, from the candidate  *)
(* it read, and ends the document when none is left.                       *)
claimedForm(d, e) ==
    IF disp[d].layer # "stuck"
      THEN [doc[e] EXCEPT !.status = "PROCESSING", !.token = d]
      ELSE [doc[e] EXCEPT
              !.attempts = disp[d].seen[e] + 1, !.token = d,
              !.status = IF disp[d].seen[e] + 1 >= MaxAttempts
                           THEN "INVALID" ELSE "PROCESSING"]

(* One update of claimDocuments' unordered bulk.                           *)
claimDocument(d) ==
    /\ disp[d].pc = "claim"
    /\ \E e \in disp[d].todo, tie \in BOOLEAN :
         IF matchesCandidate(d, e, tie)
           THEN /\ disp' = [disp EXCEPT ![d].todo = @ \ {e}, ![d].modified = @ \cup {e}]
                /\ Store([x \in {e} |-> claimedForm(d, e)])
                /\ taken' = IF disp[d].layer = "stuck" THEN taken \cup {e} ELSE taken
           ELSE /\ disp' = [disp EXCEPT ![d].todo = @ \ {e}]
                /\ NoStore /\ UNCHANGED taken
    /\ UNCHANGED <<setup, created, faults, acked, refused, handed, removed>>

(* The bulk has returned: nothing modified (ModifiedCount) ends the scan   *)
(* there, whoever has the documents by then.                               *)
claimDocuments(d) ==
    /\ disp[d].pc = "claim" /\ disp[d].todo = {}
    /\ IF disp[d].modified # {}
         THEN disp' = [disp EXCEPT ![d].pc = "read", ![d].modified = {}] /\ UNCHANGED handed
       ELSE IF disp[d].layer = "stuck" \/ Cardinality(disp[d].found) < remaining(d)
              THEN HandOut(d, disp[d].got)
              ELSE ScanAgain(d, disp[d].got) /\ UNCHANGED handed
    /\ NoStore /\ UNCHANGED <<setup, created, faults, acked, refused, taken, removed>>

(* The read-back, which a lagging secondary may answer short.  Documents   *)
(* the reclaim made INVALID are reported, not handed out.                  *)
readBack(d) ==
    LET won == {e \in disp[d].found : doc[e].token = d} IN
    /\ disp[d].pc = "read"
    /\ \E lag \in SUBSET won :
         LET back == won \ lag
             out  == disp[d].got \cup {e \in back : doc[e].status # "INVALID"}
         IN  /\ lag # {} => faults < setup.faults
             /\ faults' = faults + IF lag = {} THEN 0 ELSE 1
             /\ IF back # disp[d].found
                  THEN /\ disp' = [disp EXCEPT ![d].pc = "undo", ![d].got = out,
                                                ![d].found = @ \ back]
                       /\ doc' = [e \in Documents |->
                                    IF e \in back THEN spent(d)[e] ELSE doc[e]]
                       /\ UNCHANGED <<moved, handed>>
                ELSE IF disp[d].layer = "stuck" THEN HandOut(d, out) /\ ScanOver(d)
                ELSE /\ ScanAgain(d, out)
                     /\ ScanOver(d) /\ UNCHANGED handed
    /\ UNCHANGED <<setup, created, acked, refused, taken, removed>>

(* Mutant: the rollback does not ask whose claim it undoes.                *)
undoable(d) == {e \in disp[d].found : doc[e].status = "PROCESSING"}

(* rollbackMissingClaims: back to where the claim found them.              *)
missing(d) == {e \in disp[d].found : doc[e].status = "PROCESSING" /\ doc[e].token = d}

rollbackMissingClaims(d) ==
    /\ disp[d].pc = "undo"
    /\ Store([e \in missing(d) |-> [doc[e] EXCEPT
                !.status = fromStatus(disp[d].layer), !.token = "none"]])
    /\ ScanAgain(d, disp[d].got)
    /\ UNCHANGED <<setup, created, faults, MongoHistory>>

(* Any of the calls above returns an error: what it wrote stays written,   *)
(* and what it had claimed in earlier scans is not handed out either.      *)
ClaimFails(d) ==
    /\ disp[d].pc \in {"find", "claim", "read", "undo"}
    /\ faults < setup.faults /\ faults' = faults + 1
    /\ CallOver(d, {}) /\ ScanOver(d)
    /\ UNCHANGED <<setup, created, MongoHistory>>

-----------------------------------------------------------------------------
(* External: the handler accepts, fails, or refuses for good.              *)
Publish(d) ==
    /\ disp[d].pc = "publish" /\ disp[d].batch # {}
    /\ \E e \in disp[d].batch, r \in setup.results :
         /\ disp' = [disp EXCEPT ![d].pc = "mark", ![d].cur = e, ![d].result = r,
                                 ![d].batch = @ \ {e}]
         /\ acked' = IF r = "ok" THEN acked \cup {e} ELSE acked
         /\ refused' = IF r = "nonretryable" THEN refused \cup {e} ELSE refused
    /\ NoStore /\ UNCHANGED <<setup, created, faults, taken, handed, removed>>

(* MarkPublished and MarkInvalid: one update, on the id and the status.    *)
MarkTo(d, r, s) ==
    LET e == disp[d].cur IN
    /\ disp[d].pc = "mark" /\ disp[d].result = r
    /\ IF doc[e].status = "PROCESSING"
         THEN Store([x \in {e} |-> [doc[e] EXCEPT !.status = s, !.token = "none"]])
         ELSE NoStore
    /\ goto(d, "publish")
    /\ UNCHANGED <<setup, created, faults, MongoHistory>>

MarkPublished(d) == MarkTo(d, "ok", "PUBLISHED")
MarkInvalid(d)   == MarkTo(d, "nonretryable", "INVALID")

(* MarkFailed: the document is read first ...                              *)
getByIDAndStatus(d) ==
    LET e == disp[d].cur IN
    /\ disp[d].pc = "mark" /\ disp[d].result = "retryable"
    /\ disp' = [disp EXCEPT
         ![d].pc = IF doc[e].status = "PROCESSING" THEN "failing" ELSE "publish",
         ![d].seen = [@ EXCEPT ![e] = doc[e].attempts]]
    /\ NoStore /\ UNCHANGED <<setup, created, faults, MongoHistory>>

(* ... and updated if its status and attempts are still the ones read.     *)
MarkFailed(d) ==
    LET e == disp[d].cur
        n == disp[d].seen[e]
    IN
    /\ disp[d].pc = "failing"
    /\ IF doc[e].status = "PROCESSING" /\ doc[e].attempts = n
         THEN Store([x \in {e} |-> [doc[e] EXCEPT
                !.status = IF n + 1 >= MaxAttempts THEN "INVALID" ELSE "FAILED",
                !.attempts = n + 1, !.token = "none"]])
         ELSE NoStore
    /\ disp' = [disp EXCEPT ![d].pc = "publish",
                            ![d].seen = [x \in Documents |-> 0]]
    /\ UNCHANGED <<setup, created, faults, MongoHistory>>

(* A mark that fails is logged and the cycle goes on.                      *)
MarkFails(d) ==
    /\ disp[d].pc \in {"mark", "failing"}
    /\ faults < setup.faults /\ faults' = faults + 1
    /\ goto(d, "publish")
    /\ NoStore /\ UNCHANGED <<setup, created, MongoHistory>>

-----------------------------------------------------------------------------
(* publishedBeforeFilter.                                                  *)
publishedBefore == {e \in Documents \ Kept : doc[e].status = "PUBLISHED" /\ doc[e].aged}

(* The cycle ends with the retention sweep: the ids are found ...          *)
findPublished(d) ==
    /\ disp[d].pc = "publish" /\ disp[d].batch = {}
    /\ disp' = [disp EXCEPT ![d] = [idle EXCEPT
                  !.pc = IF publishedBefore = {} THEN "idle" ELSE "delete",
                  !.found = publishedBefore]]
    /\ NoStore /\ UNCHANGED <<setup, created, faults, MongoHistory>>

(* ... and deleted where the filter still holds.                           *)
stillPublished(d) == disp[d].found \cap publishedBefore

deletePublishedBefore(d) ==
    /\ disp[d].pc = "delete"
    /\ doc' = [e \in Documents |-> IF e \in stillPublished(d) THEN absent ELSE doc[e]]
    /\ moved' = [x \in Dispatchers |->
                   IF disp[x].pc = "claim" THEN moved[x] \cup stillPublished(d) ELSE {}]
    /\ removed' = removed \cup {doc[e].status : e \in stillPublished(d)}
    /\ disp' = [disp EXCEPT ![d] = idle]
    /\ UNCHANGED <<setup, created, faults, acked, refused, taken, handed>>

(* The process dies, or its context is cancelled, anywhere in the cycle.   *)
LoseCycle(d) ==
    /\ disp[d].pc # "idle"
    /\ faults < setup.faults /\ faults' = faults + 1
    /\ disp' = [disp EXCEPT ![d] = idle] /\ ScanOver(d)
    /\ UNCHANGED <<setup, created, MongoHistory>>

-----------------------------------------------------------------------------
DispatcherStep(d) ==
    \/ StartCycle(d) \/ findClaimCandidates(d) \/ claimDocument(d)
    \/ claimDocuments(d) \/ readBack(d) \/ rollbackMissingClaims(d)
    \/ Publish(d) \/ MarkPublished(d) \/ MarkInvalid(d) \/ getByIDAndStatus(d)
    \/ MarkFailed(d) \/ findPublished(d) \/ deletePublishedBefore(d)

MongoNext ==
    \/ \E e \in Documents : Create(e) \/ Age(e)
    \/ \E d \in Dispatchers :
         DispatcherStep(d) \/ ClaimFails(d) \/ MarkFails(d) \/ LoseCycle(d)

MongoSpec == MongoInit /\ [][MongoNext]_mongoVars

-----------------------------------------------------------------------------
holds(d) == disp[d].batch \cup disp[d].got
            \cup IF disp[d].pc \in {"mark", "failing"} THEN {disp[d].cur} ELSE {}

(* What a claim without transactions still owes: a document is with two    *)
(* dispatchers only after a stuck reclaim took it from one of them; it is  *)
(* handed to a handler at most MaxAttempts times in one life, whatever     *)
(* calls were lost half-way; it is PUBLISHED only if a handler accepted it *)
(* and INVALID only if one refused it or its attempts are spent; and the   *)
(* sweep deletes nothing but published documents, even one whose id was    *)
(* created again between its find and its delete.                          *)
MongoSound ==
    /\ \A e \in Documents :
         /\ doc[e].attempts \in 0..MaxAttempts
         /\ e \notin taken => Cardinality({d \in Dispatchers : e \in holds(d)}) <= 1
         /\ handed[e] <= MaxAttempts * created[e]
         /\ doc[e].status = "PUBLISHED" => e \in acked
         /\ doc[e].status = "INVALID" =>
              e \in refused \/ doc[e].attempts = MaxAttempts
    /\ removed \subseteq {"PUBLISHED"}

(* Every document reaches a terminal status: a claim whose read-back, mark *)
(* or whole cycle was lost comes back through the stuck reclaim.           *)
MongoQuiet == \A e \in Documents :
                doc[e].status \in {"NONE", "PUBLISHED", "INVALID"}
=============================================================================

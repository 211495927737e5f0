---------------------------- MODULE OutboxProofs ----------------------------
(***************************************************************************)
(* Proofs about Outbox for any number of events and dispatchers and any    *)
(* limits: the type invariant, the attempts budget, PUBLISHED only after   *)
(* a delivery, single ownership without a timeout, truthful OnInvalid      *)
(* reports, batches within their size, and the refinement of               *)
(* OutboxLifecycle.                                                        *)
(***************************************************************************)
EXTENDS Outbox, FiniteSetTheorems, TLAPS

(* Rows of an open claim are in the status its layer selects, stay so      *)
(* until it ends, and belong to one dispatcher only.                       *)
ClaimStatus(layer) ==
    CASE layer = "stuck" -> "PROCESSING" [] layer = "failed" -> "FAILED"
      [] OTHER -> "PENDING"

LocksOK ==
    /\ \A d \in Dispatchers : \A e \in locked[d] :
         pc[d] \in Layers /\ status[e] = ClaimStatus(pc[d])
    /\ \A d, c \in Dispatchers : d # c => locked[d] \cap locked[c] = {}

(* A cycle about to mark holds the event, and has delivered it if it is    *)
(* about to mark it published.                                             *)
CurOK ==
    \A d \in Dispatchers :
      pc[d] = "mark" => /\ cur[d] \in batch[d]
                        /\ result[d] = "ok" => cur[d] \in acked

(* The inductive invariant.                                                *)
Inv ==
    /\ TypeOK
    /\ AttemptsBudget
    /\ LocksOK
    /\ CurOK
    /\ SingleOwner
    /\ PublishedWasAcked

(* A claimed copy never has more attempts than the row, unless the id may  *)
(* be purged and created again.                                            *)
SnapOK ==
    \A d \in Dispatchers : \A e \in batch[d] \ Replayed :
      snap[d][e] <= attempts[e] /\ claims[e] > 0

-----------------------------------------------------------------------------
(* What a claim does to the rows it locked, whatever the layer.            *)
LEMMA ClaimRowsKeeps ==
    ASSUME Inv, NEW d \in Dispatchers, locked[d] # {}, ClaimRows(d)
    PROVE  /\ status' \in [Events -> Statuses]
           /\ attempts' \in [Events -> 0..MaxDispatchAttempts]
           /\ claims' \in [Events -> 0..MaxDispatchAttempts]
           /\ aged' \subseteq Events
           /\ reclaimed' \subseteq Events
           /\ AttemptsBudget'
           /\ \A e \in Events \ locked[d] : status'[e] = status[e]
           /\ \A e \in locked[d] : status'[e] \in {"PROCESSING", "INVALID"}
           /\ \A e \in locked[d] \ reclaimed' :
                /\ status[e] # "PROCESSING"
                /\ status'[e] = "PROCESSING"
           /\ reclaimed \subseteq reclaimed'
           /\ \A e \in locked[d] : status[e] \in {"PENDING", "PROCESSING", "FAILED"}
<1>1. locked[d] \subseteq Events BY DEF Inv, TypeOK
<1>2. pc[d] \in Layers /\ \A e \in locked[d] : status[e] = ClaimStatus(pc[d])
  BY DEF Inv, LocksOK
<1>3. \A e \in locked[d] : attempts[e] < MaxDispatchAttempts
  BY <1>1, <1>2, ConstantsAssumption
     DEF Inv, AttemptsBudget, ClaimStatus, Layers, TypeOK
<1>4. QED
  BY <1>1, <1>2, <1>3, ConstantsAssumption
     DEF Inv, TypeOK, AttemptsBudget, ClaimRows, Exhausted, ClaimStatus, Layers,
         Statuses

LEMMA InitInv == Init => Inv
BY ConstantsAssumption
   DEF Init, Inv, TypeOK, AttemptsBudget, LocksOK, CurOK, SingleOwner,
       PublishedWasAcked, Statuses, Results

(* After only ever names a layer or "publish".                             *)
LEMMA AfterType ==
    ASSUME NEW layer, NEW n
    PROVE  After(layer, n) \in {"failed", "pending", "publish"}
BY DEF After, Following

LEMMA InsertInv == ASSUME Inv, NEW S \in SUBSET Events, Insert(S) PROVE Inv'
<1>1. TypeOK'
  BY ConstantsAssumption DEF Inv, TypeOK, Insert, cycle, Statuses
<1>2. AttemptsBudget' BY DEF Inv, TypeOK, AttemptsBudget, Insert
<1>3. LocksOK'
  BY DEF Inv, TypeOK, LocksOK, Insert, cycle, ClaimStatus
<1>4. CurOK' BY DEF Inv, CurOK, Insert, cycle
<1>5. SingleOwner' BY DEF Inv, TypeOK, SingleOwner, Insert, cycle
<1>6. PublishedWasAcked' BY DEF Inv, TypeOK, PublishedWasAcked, Insert
<1>7. QED BY <1>1, <1>2, <1>3, <1>4, <1>5, <1>6 DEF Inv

LEMMA AgeInv == ASSUME Inv, NEW e \in Events, Age(e) PROVE Inv'
BY DEF Inv, TypeOK, AttemptsBudget, LocksOK, CurOK, SingleOwner,
       PublishedWasAcked, Age, cycle, hist

LEMMA BeginInv == ASSUME Inv, NEW d \in Dispatchers, Begin(d) PROVE Inv'
<1>1. locked[d] = {} BY DEF Inv, LocksOK, Begin, Layers, TypeOK
<1>2. FirstLayer(d) \in Layers BY DEF FirstLayer, Layers
<1>3. QED
  BY <1>1, <1>2
     DEF Inv, TypeOK, AttemptsBudget, LocksOK, CurOK, SingleOwner,
         PublishedWasAcked, Begin, row, hist, Layers

LEMMA SelectInv == ASSUME Inv, NEW d \in Dispatchers, Select(d) PROVE Inv'
<1>1. PICK S \in SUBSET (Eligible(pc[d]) \ Locked) :
        /\ locked' = [locked EXCEPT ![d] = S]
        /\ pc' = IF S = {}
                   THEN [pc EXCEPT ![d] = After(pc[d], Cardinality(batch[d]))]
                   ELSE pc
  BY DEF Select, kSubset
<1>2. pc[d] \in Layers /\ locked[d] = {} BY DEF Select
<1>3. UNCHANGED <<row, batch, snap, cur, result, hist, faults>> BY DEF Select
<1>4. \A e \in S : e \in Events /\ status[e] = ClaimStatus(pc[d])
  BY <1>2, ConstantsAssumption DEF Eligible, ClaimStatus, Layers, Inv, TypeOK
<1>5. \A c \in Dispatchers : S \cap locked[c] = {} BY DEF Locked
<1>6. /\ pc' \in [Dispatchers -> Layers \cup {"idle", "publish", "mark",
                                             "purgePUBLISHED", "purgeINVALID"}]
      /\ \A c \in Dispatchers : c # d => pc'[c] = pc[c]
      /\ pc'[d] # "mark" /\ (S # {} => pc'[d] = pc[d])
  BY <1>1, <1>2, AfterType DEF Inv, TypeOK, Layers
<1>7. TypeOK' BY <1>1, <1>3, <1>4, <1>6 DEF Inv, TypeOK, row, hist
<1>8. LocksOK'
  BY <1>1, <1>2, <1>3, <1>4, <1>5, <1>6 DEF Inv, TypeOK, LocksOK, row
<1>9. CurOK'
  <2>1. \A c \in Dispatchers : pc'[c] = "mark" => pc[c] = "mark" BY <1>6
  <2>2. QED BY <1>3, <2>1 DEF Inv, CurOK, hist
<1>10. AttemptsBudget' /\ SingleOwner' /\ PublishedWasAcked'
  BY <1>3 DEF Inv, AttemptsBudget, SingleOwner, PublishedWasAcked, row, hist
<1>11. QED BY <1>7, <1>8, <1>9, <1>10 DEF Inv

LEMMA CommitInv == ASSUME Inv, NEW d \in Dispatchers, Commit(d) PROVE Inv'
<1> DEFINE S == locked[d]
           dead == IF pc[d] = "stuck" THEN Exhausted(S) ELSE {}
           got == batch[d] \cup (S \ dead)
<1>1. ClaimRows(d) /\ S # {} BY DEF Commit
<1>2. /\ batch' = [batch EXCEPT ![d] = got]
      /\ snap' = [snap EXCEPT ![d] =
                    [e \in Events |-> IF e \in S THEN attempts'[e] ELSE @[e]]]
      /\ reported' = [e \in Events |-> IF e \in dead THEN "invalid"
                                       ELSE IF e \in S THEN "none"
                                       ELSE reported[e]]
      /\ pc' = [pc EXCEPT ![d] = After(pc[d], Cardinality(got))]
      /\ locked' = [locked EXCEPT ![d] = {}]
      /\ UNCHANGED <<cur, result, acked, faults>>
  BY DEF Commit
<1>3. S \subseteq Events /\ got \subseteq Events BY DEF Inv, TypeOK
<1>4. pc[d] # "mark" /\ After(pc[d], Cardinality(got)) \in {"failed", "pending", "publish"}
  BY <1>1, AfterType DEF Inv, LocksOK, Layers
<1>5. TypeOK'
  <2>1. snap' \in [Dispatchers -> [Events -> 0..MaxDispatchAttempts]]
    <3>1. [e \in Events |-> IF e \in S THEN attempts'[e] ELSE snap[d][e]]
            \in [Events -> 0..MaxDispatchAttempts]
      BY <1>1, <1>3, ClaimRowsKeeps DEF Inv, TypeOK
    <3>2. snap' = [snap EXCEPT ![d] =
                     [e \in Events |-> IF e \in S THEN attempts'[e] ELSE snap[d][e]]]
      BY <1>2
    <3>3. QED BY <3>1, <3>2 DEF Inv, TypeOK
  <2>2. reported' \in [Events -> {"none", "failed", "invalid"}]
    BY <1>2 DEF Inv, TypeOK
  <2>3. QED
    BY <1>1, <1>2, <1>3, <1>4, <2>1, <2>2, ClaimRowsKeeps DEF Inv, TypeOK, Layers
<1>6. LocksOK'
  <2>1. \A c \in Dispatchers : c # d => /\ locked'[c] = locked[c]
                                       /\ pc'[c] = pc[c]
                                       /\ locked[c] \cap S = {}
                                       /\ locked[c] \subseteq Events
    BY <1>2 DEF Inv, LocksOK, TypeOK
  <2>2. locked'[d] = {} BY <1>2 DEF Inv, TypeOK
  <2>3. QED BY <1>1, <2>1, <2>2, ClaimRowsKeeps DEF Inv, LocksOK
<1>7. CurOK'
  <2>1. \A c \in Dispatchers : pc'[c] = "mark" => pc[c] = "mark" /\ c # d
    BY <1>2, <1>4 DEF Inv, TypeOK
  <2>2. \A c \in Dispatchers : c # d => batch'[c] = batch[c]
    BY <1>2 DEF Inv, TypeOK
  <2>3. QED BY <1>2, <2>1, <2>2 DEF Inv, CurOK
<1>8. SingleOwner'
  <2> SUFFICES ASSUME NEW e \in Events \ reclaimed', NEW c \in Dispatchers,
                      e \in batch'[c]
               PROVE  /\ status'[e] = "PROCESSING"
                      /\ \A c2 \in Dispatchers : e \in batch'[c2] => c2 = c
    BY DEF SingleOwner
  <2>1. e \notin reclaimed BY <1>1, ClaimRowsKeeps
  <2>2. \A c2 \in Dispatchers : e \in batch'[c2] =>
           e \in batch[c2] \/ (c2 = d /\ e \in S)
    BY <1>2, <1>3 DEF Inv, TypeOK
  <2>3. CASE e \in S
    <3>1. status[e] # "PROCESSING" /\ status'[e] = "PROCESSING"
      BY <1>1, <2>3, ClaimRowsKeeps
    <3>2. \A c2 \in Dispatchers : e \notin batch[c2]
      BY <2>1, <3>1 DEF Inv, SingleOwner
    <3>3. QED BY <2>2, <3>1, <3>2
  <2>4. CASE e \notin S
    <3>1. status'[e] = status[e] BY <1>1, <2>4, ClaimRowsKeeps
    <3>2. QED BY <2>1, <2>2, <2>4, <3>1 DEF Inv, SingleOwner
  <2>5. QED BY <2>3, <2>4
<1>9. PublishedWasAcked'
  BY <1>1, <1>2, ClaimRowsKeeps DEF Inv, PublishedWasAcked
<1>10. QED BY <1>1, <1>5, <1>6, <1>7, <1>8, <1>9, ClaimRowsKeeps DEF Inv

LEMMA ClaimFailsInv == ASSUME Inv, NEW d \in Dispatchers, ClaimFails(d) PROVE Inv'
<1>1. /\ locked[d] # {}
      /\ faults' = faults + 1 /\ faults < MaxFaults
      /\ locked' = [locked EXCEPT ![d] = {}]
      /\ pc' = [pc EXCEPT ![d] = After(pc[d], Cardinality(batch[d]))]
      /\ UNCHANGED <<batch, snap, cur, result, acked>>
  BY DEF ClaimFails
<1>2. pc[d] # "mark"
      /\ After(pc[d], Cardinality(batch[d])) \in {"failed", "pending", "publish"}
  BY <1>1, AfterType DEF Inv, LocksOK, Layers
<1>3. faults' \in 0..MaxFaults BY <1>1, ConstantsAssumption DEF Inv, TypeOK
<1>4. \A c \in Dispatchers : c # d => /\ locked'[c] = locked[c]
                                     /\ pc'[c] = pc[c]
                                     /\ locked[c] \cap locked[d] = {}
                                     /\ locked[c] \subseteq Events
  BY <1>1 DEF Inv, LocksOK, TypeOK
<1>5. locked'[d] = {} BY <1>1 DEF Inv, TypeOK
<1>6. CurOK'
  <2>1. \A c \in Dispatchers : pc'[c] = "mark" => pc[c] = "mark"
    BY <1>1, <1>2 DEF Inv, TypeOK
  <2>2. QED BY <1>1, <2>1 DEF Inv, CurOK
<1>7. CASE UNCHANGED <<row, reclaimed, reported>>
  <2>1. TypeOK' BY <1>1, <1>2, <1>3, <1>7 DEF Inv, TypeOK, Layers, row
  <2>2. LocksOK' BY <1>4, <1>5, <1>7 DEF Inv, LocksOK, row
  <2>3. AttemptsBudget' /\ SingleOwner' /\ PublishedWasAcked'
    BY <1>1, <1>7 DEF Inv, AttemptsBudget, SingleOwner, PublishedWasAcked, row
  <2>4. QED BY <1>6, <2>1, <2>2, <2>3 DEF Inv
<1>8. CASE /\ ClaimRows(d)
           /\ reported' = [e \in Events |-> IF e \in locked[d] THEN "none"
                                            ELSE reported[e]]
  <2>1. TypeOK'
    BY <1>1, <1>2, <1>3, <1>8, ClaimRowsKeeps DEF Inv, TypeOK, Layers
  <2>2. LocksOK' BY <1>1, <1>4, <1>5, <1>8, ClaimRowsKeeps DEF Inv, LocksOK
  <2>3. SingleOwner'
    <3> SUFFICES ASSUME NEW e \in Events \ reclaimed', NEW c \in Dispatchers,
                        e \in batch[c]
                 PROVE  /\ status'[e] = "PROCESSING"
                        /\ \A c2 \in Dispatchers : e \in batch[c2] => c2 = c
      BY <1>1 DEF SingleOwner
    <3>1. e \notin reclaimed BY <1>1, <1>8, ClaimRowsKeeps
    <3>2. /\ status[e] = "PROCESSING"
          /\ \A c2 \in Dispatchers : e \in batch[c2] => c2 = c
      BY <3>1 DEF Inv, SingleOwner
    <3>3. QED BY <1>1, <1>8, <3>2, ClaimRowsKeeps
  <2>4. PublishedWasAcked'
    BY <1>1, <1>8, ClaimRowsKeeps DEF Inv, PublishedWasAcked
  <2>5. QED BY <1>1, <1>6, <1>8, <2>1, <2>2, <2>3, <2>4, ClaimRowsKeeps DEF Inv
<1>9. QED BY <1>7, <1>8 DEF ClaimFails

LEMMA PublishInv == ASSUME Inv, NEW d \in Dispatchers, Publish(d) PROVE Inv'
<1>1. PICK e \in batch[d], r \in Results :
        /\ cur' = [cur EXCEPT ![d] = e]
        /\ result' = [result EXCEPT ![d] = r]
        /\ acked' = IF r = "ok" THEN acked \cup {e} ELSE acked
  BY DEF Publish
<1>2. /\ pc[d] = "publish"
      /\ pc' = [pc EXCEPT ![d] = "mark"]
      /\ UNCHANGED <<row, locked, batch, snap, reclaimed, reported, faults>>
  BY DEF Publish
<1>3. acked \subseteq acked' /\ locked[d] = {}
  BY <1>1, <1>2 DEF Inv, LocksOK, Layers
<1>4. TypeOK' BY <1>1, <1>2 DEF Inv, TypeOK, row
<1>5. LocksOK' BY <1>2, <1>3 DEF Inv, TypeOK, LocksOK, row
<1>6. CurOK'
  <2>1. cur'[d] = e /\ result'[d] = r /\ (r = "ok" => e \in acked')
    BY <1>1 DEF Inv, TypeOK
  <2>2. \A c \in Dispatchers : c # d => /\ cur'[c] = cur[c]
                                       /\ result'[c] = result[c]
                                       /\ pc'[c] = pc[c]
    BY <1>1, <1>2 DEF Inv, TypeOK
  <2>3. QED BY <1>2, <1>3, <2>1, <2>2 DEF Inv, CurOK
<1>7. AttemptsBudget' /\ SingleOwner' /\ PublishedWasAcked'
  BY <1>2, <1>3 DEF Inv, AttemptsBudget, SingleOwner, PublishedWasAcked, row
<1>8. QED BY <1>4, <1>5, <1>6, <1>7 DEF Inv

(* The effect of a mark: one PROCESSING row that nobody has locked.        *)
LEMMA WriteMarkKeeps ==
    ASSUME Inv, NEW d \in Dispatchers, pc[d] = "mark", WriteMark(d)
    PROVE  /\ status' \in [Events -> Statuses]
           /\ attempts' \in [Events -> 0..MaxDispatchAttempts]
           /\ claims' \in [Events -> 0..MaxDispatchAttempts]
           /\ aged' \subseteq Events
           /\ AttemptsBudget'
           /\ cur[d] \in batch[d] /\ cur[d] \in Events
           /\ status[cur[d]] = "PROCESSING"
           /\ status'[cur[d]] \in {"PUBLISHED", "FAILED", "INVALID"}
           /\ status'[cur[d]] = "PUBLISHED" => cur[d] \in acked
           /\ \A e \in Events : e # cur[d] => status'[e] = status[e]
           /\ \A c \in Dispatchers : cur[d] \notin locked[c]
<1>1. cur[d] \in batch[d] /\ cur[d] \in Events /\ result[d] \in Results
  BY DEF Inv, CurOK, TypeOK
<1>2. \A c \in Dispatchers : cur[d] \notin locked[c] BY DEF WriteMark, Locked
<1>3. MarkedStatus(cur[d], result[d]) \in {"PUBLISHED", "FAILED", "INVALID"}
  BY <1>1 DEF MarkedStatus, Results
<1>4. MarkedStatus(cur[d], result[d]) = "PUBLISHED" => cur[d] \in acked
  BY <1>1 DEF MarkedStatus, Results, Inv, CurOK
<1>5. MarkedStatus(cur[d], result[d]) = "FAILED" =>
        result[d] = "retryable" /\ attempts[cur[d]] + 1 < MaxDispatchAttempts
  BY <1>1, ConstantsAssumption DEF MarkedStatus, Results, Inv, TypeOK
<1>6. attempts[cur[d]] < MaxDispatchAttempts
      /\ claims[cur[d]] = attempts[cur[d]] + 1
  BY <1>1 DEF WriteMark, Inv, AttemptsBudget
<1>7. QED
  BY <1>1, <1>2, <1>3, <1>4, <1>5, <1>6, ConstantsAssumption
     DEF WriteMark, Inv, TypeOK, AttemptsBudget, Statuses

(* Facts common to the three ways an event leaves the batch.               *)
LEMMA NextEventKeeps ==
    ASSUME Inv, NEW d \in Dispatchers, pc[d] = "mark", NextEvent(d)
    PROVE  /\ batch' \in [Dispatchers -> SUBSET Events]
           /\ cur' \in [Dispatchers -> Events \cup {NoEvent}]
           /\ pc' \in [Dispatchers -> Layers \cup {"idle", "publish", "mark",
                                         "purgePUBLISHED", "purgeINVALID"}]
           /\ locked' = locked /\ snap' = snap /\ result' = result
           /\ \A c \in Dispatchers : batch'[c] \subseteq batch[c]
           /\ cur[d] \notin batch'[d]
           /\ \A c \in Dispatchers : locked[c] # {} => pc'[c] = pc[c]
           /\ \A c \in Dispatchers : pc'[c] = "mark" =>
                  pc[c] = "mark" /\ cur'[c] = cur[c] /\ batch'[c] = batch[c]
<1>1. locked[d] = {} BY DEF Inv, LocksOK, Layers
<1>2. QED BY <1>1 DEF NextEvent, Inv, TypeOK

LEMMA MarkWritesInv ==
    ASSUME Inv, NEW d \in Dispatchers, pc[d] = "mark", WriteMark(d), NextEvent(d),
           reported' \in [Events -> {"none", "failed", "invalid"}],
           faults' \in 0..MaxFaults,
           UNCHANGED <<acked, reclaimed>>
    PROVE  Inv'
<1>1. TypeOK'
  BY WriteMarkKeeps, NextEventKeeps DEF Inv, TypeOK
<1>2. LocksOK'
  <2>1. \A c \in Dispatchers : \A e \in locked[c] : status'[e] = status[e]
    BY WriteMarkKeeps DEF Inv, TypeOK
  <2>2. \A c \in Dispatchers : locked[c] # {} => pc'[c] = pc[c]
    BY NextEventKeeps
  <2>3. locked' = locked BY NextEventKeeps
  <2>4. QED BY <2>1, <2>2, <2>3 DEF Inv, LocksOK
<1>3. CurOK' BY NextEventKeeps DEF Inv, CurOK
<1>4. SingleOwner'
  <2> SUFFICES ASSUME NEW e \in Events \ reclaimed, NEW c \in Dispatchers,
                      e \in batch'[c]
               PROVE  /\ status'[e] = "PROCESSING"
                      /\ \A c2 \in Dispatchers : e \in batch'[c2] => c2 = c
    BY DEF SingleOwner
  <2>1. /\ e \in batch[c]
        /\ status[e] = "PROCESSING"
        /\ \A c2 \in Dispatchers : e \in batch[c2] => c2 = c
    BY NextEventKeeps DEF Inv, SingleOwner
  <2>2. e # cur[d] BY <2>1, NextEventKeeps, WriteMarkKeeps
  <2>3. QED BY <2>1, <2>2, NextEventKeeps, WriteMarkKeeps
<1>5. PublishedWasAcked' BY WriteMarkKeeps DEF Inv, PublishedWasAcked
<1>6. QED BY <1>1, <1>2, <1>3, <1>4, <1>5, WriteMarkKeeps DEF Inv

LEMMA MarkSkipsInv ==
    ASSUME Inv, NEW d \in Dispatchers, pc[d] = "mark", NextEvent(d),
           UNCHANGED <<row, hist>>, faults' \in 0..MaxFaults
    PROVE  Inv'
<1>1. TypeOK' BY NextEventKeeps DEF Inv, TypeOK, row, hist
<1>2. LocksOK'
  <2>1. \A c \in Dispatchers : locked[c] # {} => pc'[c] = pc[c]
    BY NextEventKeeps
  <2>2. locked' = locked BY NextEventKeeps
  <2>3. QED BY <2>1, <2>2 DEF Inv, LocksOK, row
<1>3. CurOK' BY NextEventKeeps DEF Inv, CurOK, hist
<1>4. SingleOwner' BY NextEventKeeps DEF Inv, SingleOwner, row, hist
<1>5. AttemptsBudget' /\ PublishedWasAcked'
  BY DEF Inv, AttemptsBudget, PublishedWasAcked, row, hist
<1>6. QED BY <1>1, <1>2, <1>3, <1>4, <1>5 DEF Inv

LEMMA MarkInv == ASSUME Inv, NEW d \in Dispatchers, Mark(d) PROVE Inv'
<1>1. Callback(d) \in {"none", "failed", "invalid"}
  BY DEF Callback, Inv, TypeOK, Results
<1>2. reported' \in [Events -> {"none", "failed", "invalid"}]
  BY <1>1 DEF Mark, Inv, TypeOK
<1>3. faults' \in 0..MaxFaults BY DEF Mark, Inv, TypeOK
<1>4. QED BY <1>2, <1>3, MarkWritesInv DEF Mark

LEMMA MarkConflictInv ==
    ASSUME Inv, NEW d \in Dispatchers, MarkConflict(d) PROVE Inv'
<1>1. faults' \in 0..MaxFaults BY DEF MarkConflict, Inv, TypeOK
<1>2. QED BY <1>1, MarkSkipsInv DEF MarkConflict

LEMMA MarkFailsInv == ASSUME Inv, NEW d \in Dispatchers, MarkFails(d) PROVE Inv'
<1>1. faults' \in 0..MaxFaults
  BY ConstantsAssumption DEF MarkFails, Inv, TypeOK
<1>2. CASE UNCHANGED <<row, reported>>
  BY <1>1, <1>2, MarkSkipsInv DEF MarkFails, hist
<1>3. CASE WriteMark(d) /\ reported' = [reported EXCEPT ![cur[d]] = "none"]
  <2>1. reported' \in [Events -> {"none", "failed", "invalid"}]
    BY <1>3 DEF Inv, TypeOK
  <2>2. QED BY <1>1, <1>3, <2>1, MarkWritesInv DEF MarkFails
<1>4. QED BY <1>2, <1>3 DEF MarkFails

LEMMA EndDispatchInv == ASSUME Inv, NEW d \in Dispatchers, EndDispatch(d) PROVE Inv'
<1>1. locked[d] = {} BY DEF EndDispatch, Inv, LocksOK, Layers
<1>2. PICK p \in {"idle", "purgePUBLISHED"} : pc' = [pc EXCEPT ![d] = p]
  BY DEF EndDispatch
<1>3. UNCHANGED <<row, locked, batch, snap, cur, result, hist, faults>>
  BY DEF EndDispatch
<1>4. \A c \in Dispatchers : pc'[c] = pc[c] \/ (c = d /\ pc'[c] = p)
  BY <1>2 DEF Inv, TypeOK
<1>5. TypeOK' BY <1>2, <1>3 DEF Inv, TypeOK, row, hist
<1>6. LocksOK' BY <1>1, <1>3, <1>4 DEF Inv, LocksOK, row
<1>7. CurOK' BY <1>3, <1>4 DEF Inv, CurOK, hist
<1>8. AttemptsBudget' /\ SingleOwner' /\ PublishedWasAcked'
  BY <1>3 DEF Inv, AttemptsBudget, SingleOwner, PublishedWasAcked, row, hist
<1>9. QED BY <1>5, <1>6, <1>7, <1>8 DEF Inv

LEMMA PurgeKeeps ==
    ASSUME Inv, NEW s \in Terminal, Purge(s)
    PROVE  /\ status' \in [Events -> Statuses] /\ aged' \subseteq Events
           /\ UNCHANGED <<attempts, claims>>
           /\ \A e \in Events :
                \/ status'[e] = status[e]
                \/ status[e] \in Terminal /\ e \notin Kept /\ status'[e] = "NONE"
BY DEF Purge, Purgeable, kSubset, Inv, TypeOK, Statuses, Terminal

LEMMA SweepInv == ASSUME Inv, NEW d \in Dispatchers, Sweep(d) PROVE Inv'
<1>1. PICK s \in Terminal, p \in {"purgeINVALID", "idle"} : SweepPhase(d, s, p)
  BY DEF Sweep, Terminal
<1>2. /\ pc' = [pc EXCEPT ![d] = p]
      /\ UNCHANGED <<locked, batch, snap, cur, result, hist>>
  BY <1>1 DEF SweepPhase
<1>3. locked[d] = {} BY DEF Sweep, Inv, LocksOK, Layers
<1>4. /\ status' \in [Events -> Statuses] /\ aged' \subseteq Events
      /\ UNCHANGED <<attempts, claims>>
      /\ \A e \in Events :
            status'[e] = status[e] \/ (status[e] \in Terminal /\ status'[e] = "NONE")
  <2>1. CASE Purge(s) BY <1>1, <2>1, PurgeKeeps
  <2>2. CASE UNCHANGED row BY <2>2 DEF row, Inv, TypeOK
  <2>3. QED BY <1>1, <2>1, <2>2 DEF SweepPhase
<1>5. faults' \in 0..MaxFaults
  BY <1>1, ConstantsAssumption DEF SweepPhase, Inv, TypeOK
<1>6. \A c \in Dispatchers : pc'[c] = pc[c] \/ (c = d /\ pc'[c] = p)
  BY <1>2 DEF Inv, TypeOK
<1>7. TypeOK' BY <1>2, <1>4, <1>5 DEF Inv, TypeOK, hist
<1>8. LocksOK'
  <2>1. \A c \in Dispatchers : \A e \in locked[c] : status'[e] = status[e]
    BY <1>4 DEF Inv, LocksOK, TypeOK, ClaimStatus, Terminal
  <2>2. QED BY <1>2, <1>3, <1>6, <2>1 DEF Inv, LocksOK
<1>9. CurOK' BY <1>2, <1>6 DEF Inv, CurOK, hist
<1>10. AttemptsBudget' BY <1>4 DEF Inv, AttemptsBudget
<1>11. SingleOwner' /\ PublishedWasAcked'
  BY <1>2, <1>4 DEF Inv, SingleOwner, PublishedWasAcked, Terminal, hist
<1>12. QED BY <1>7, <1>8, <1>9, <1>10, <1>11 DEF Inv

LEMMA AbortInv == ASSUME Inv, NEW d \in Dispatchers, Abort(d) PROVE Inv'
<1>1. /\ pc' = [pc EXCEPT ![d] = "idle"]
      /\ locked' = [locked EXCEPT ![d] = {}]
      /\ batch' = [batch EXCEPT ![d] = {}]
      /\ cur' = [cur EXCEPT ![d] = NoEvent]
      /\ UNCHANGED <<row, snap, result, hist>>
  BY DEF Abort
<1>2. faults' \in 0..MaxFaults BY ConstantsAssumption DEF Abort, Inv, TypeOK
<1>3. TypeOK' BY <1>1, <1>2 DEF Inv, TypeOK, row, hist
<1>4. /\ locked'[d] = {} /\ batch'[d] = {} /\ pc'[d] = "idle"
      /\ \A c \in Dispatchers : c # d => /\ pc'[c] = pc[c]
                                        /\ locked'[c] = locked[c]
                                        /\ batch'[c] = batch[c]
                                        /\ cur'[c] = cur[c]
  BY <1>1 DEF Inv, TypeOK
<1>5. LocksOK' BY <1>1, <1>4 DEF Inv, LocksOK, row
<1>6. CurOK' BY <1>1, <1>4 DEF Inv, CurOK, hist
<1>7. SingleOwner' BY <1>1, <1>4 DEF Inv, SingleOwner, row, hist
<1>8. AttemptsBudget' /\ PublishedWasAcked'
  BY <1>1 DEF Inv, AttemptsBudget, PublishedWasAcked, row, hist
<1>9. QED BY <1>3, <1>5, <1>6, <1>7, <1>8 DEF Inv

(* The operations grouped by what they do.                                 *)
LEMMA StepCases ==
    ASSUME NEW d, Step(d)
    PROVE  \/ Begin(d) \/ Select(d) \/ Commit(d) \/ Publish(d) \/ Mark(d)
           \/ MarkConflict(d) \/ EndDispatch(d) \/ Sweep(d)
BY DEF Step, ListPendingByTypes, ReclaimStuckProcessing, ResetForRetry,
       ListPending, MarkPublished, MarkFailed, MarkInvalid

LEMMA NextCases ==
    ASSUME [Next]_vars
    PROVE  \/ UNCHANGED vars
           \/ \E S \in SUBSET Events : Insert(S)
           \/ \E e \in Events : Age(e)
           \/ \E d \in Dispatchers : Step(d)
           \/ \E d \in Dispatchers : Fault(d)
<1>1. ASSUME NEW e \in Events, Create(e) \/ CreateIdempotentWithTx(e)
      PROVE  UNCHANGED vars \/ \E S \in SUBSET Events : Insert(S)
  BY <1>1 DEF Create, CreateIdempotentWithTx
<1>2. ASSUME NEW T \in SUBSET Events, CreateManyWithTx(T)
      PROVE  \E S \in SUBSET Events : Insert(S)
  BY <1>2 DEF CreateManyWithTx
<1>3. QED BY <1>1, <1>2 DEF Next

(* Inv is inductive, for any events, dispatchers and limits.               *)
LEMMA StepInv == Inv /\ [Next]_vars => Inv'
<1> SUFFICES ASSUME Inv, [Next]_vars PROVE Inv' OBVIOUS
<1>1. CASE UNCHANGED vars
  BY <1>1 DEF Inv, TypeOK, AttemptsBudget, LocksOK, CurOK, SingleOwner,
              PublishedWasAcked, vars, row, cycle, hist
<1>2. ASSUME NEW S \in SUBSET Events, Insert(S) PROVE Inv' BY <1>2, InsertInv
<1>3. ASSUME NEW e \in Events, Age(e) PROVE Inv' BY <1>3, AgeInv
<1>4. ASSUME NEW d \in Dispatchers, Step(d) PROVE Inv'
  BY <1>4, BeginInv, SelectInv, CommitInv, PublishInv, MarkInv, MarkConflictInv,
     EndDispatchInv, SweepInv, StepCases
<1>5. ASSUME NEW d \in Dispatchers, Fault(d) PROVE Inv'
  BY <1>5, ClaimFailsInv, MarkFailsInv, AbortInv DEF Fault
<1>6. QED BY <1>1, <1>2, <1>3, <1>4, <1>5, NextCases

LEMMA Invariance == Spec => []Inv
BY InitInv, StepInv, PTL DEF Spec

(* Every variable keeps its type; in particular no row is ever claimed     *)
(* more often than MaxDispatchAttempts.                                    *)
THEOREM TypeCorrect == Spec => []TypeOK
BY Invariance, PTL DEF Inv

(* The attempts column counts every hand-out of a row, late marks and      *)
(* reclaims included.                                                      *)
THEOREM AttemptsBudgetHolds == Spec => []AttemptsBudget
BY Invariance, PTL DEF Inv

(* No event is PUBLISHED before some handler accepted it.                  *)
THEOREM PublishedWasAckedHolds == Spec => []PublishedWasAcked
BY Invariance, PTL DEF Inv

(* Without a takeover by ProcessingTimeout an event has one holder and its *)
(* row is PROCESSING.                                                      *)
THEOREM SingleOwnerHolds == Spec => []SingleOwner
BY Invariance, PTL DEF Inv

-----------------------------------------------------------------------------
(* OnInvalid.  Without re-creation attempts never go down, so a claimed    *)
(* copy is never ahead of its row and exhausting the copy exhausts the row.*)
ReportInv == Inv /\ SnapOK /\ InvalidReportIsTrue

(* Every step preserves it.                                                *)
LEMMA ReportStep == ReportInv /\ [Next]_vars => ReportInv'
<1> SUFFICES ASSUME ReportInv, [Next]_vars
             PROVE  SnapOK' /\ InvalidReportIsTrue'
  BY StepInv DEF ReportInv
<1>0. Inv /\ TypeOK BY DEF ReportInv, Inv
<1>1. CASE UNCHANGED vars
  BY <1>1 DEF ReportInv, SnapOK, InvalidReportIsTrue, vars, row, cycle, hist
<1>2. ASSUME NEW S \in SUBSET Events, Insert(S)
      PROVE  SnapOK' /\ InvalidReportIsTrue'
  <2>1. \A d \in Dispatchers : S \cap (batch[d] \ Replayed) = {}
    BY <1>0, <1>2 DEF Insert, ReportInv, SnapOK, TypeOK
  <2>2. QED
    BY <1>0, <1>2, <2>1
       DEF Insert, ReportInv, SnapOK, InvalidReportIsTrue, TypeOK, cycle
<1>3. ASSUME NEW e \in Events, Age(e) PROVE SnapOK' /\ InvalidReportIsTrue'
  BY <1>3 DEF Age, ReportInv, SnapOK, InvalidReportIsTrue, cycle, hist
<1>4. ASSUME NEW d \in Dispatchers,
             UNCHANGED <<attempts, claims, snap, reported>>,
             \A c \in Dispatchers : batch'[c] \subseteq batch[c],
             \A e \in Events : status'[e] = status[e] \/ status'[e] = "NONE"
      PROVE  SnapOK' /\ InvalidReportIsTrue'
  BY <1>4 DEF ReportInv, SnapOK, InvalidReportIsTrue
<1>5. ASSUME NEW d \in Dispatchers, locked[d] # {}, ClaimRows(d)
      PROVE  /\ \A e \in locked[d] : claims'[e] > 0 /\ attempts'[e] >= attempts[e]
             /\ \A e \in Events \ locked[d] : /\ claims'[e] = claims[e]
                                              /\ attempts'[e] = attempts[e]
             /\ \A e \in locked[d] : status[e] # "INVALID" /\ status[e] # "NONE"
             /\ locked[d] \subseteq Events
             /\ pc[d] = "stuck" => \A e \in Exhausted(locked[d]) : status'[e] = "INVALID"
  <2>1. locked[d] \subseteq Events /\ pc[d] \in Layers
        /\ \A e \in locked[d] : status[e] = ClaimStatus(pc[d])
    BY <1>0, <1>5 DEF Inv, TypeOK, LocksOK
  <2>2. pc[d] = "stuck" => \A e \in locked[d] : claims[e] > 0
    BY <1>0, <2>1 DEF Inv, AttemptsBudget, ClaimStatus, TypeOK
  <2>3. QED
    BY <1>0, <1>5, <2>1, <2>2 DEF ClaimRows, Exhausted, TypeOK, ClaimStatus, Layers
<1>6. ASSUME NEW d \in Dispatchers, Commit(d)
      PROVE  SnapOK' /\ InvalidReportIsTrue'
  <2> DEFINE S == locked[d]
             dead == IF pc[d] = "stuck" THEN Exhausted(S) ELSE {}
  <2>1. ClaimRows(d) /\ S # {} BY <1>6 DEF Commit
  <2>2. /\ \A c \in Dispatchers : c # d => batch'[c] = batch[c] /\ snap'[c] = snap[c]
        /\ batch'[d] = batch[d] \cup (S \ dead)
        /\ \A e \in Events : snap'[d][e] = IF e \in S THEN attempts'[e] ELSE snap[d][e]
        /\ reported' = [e \in Events |-> IF e \in dead THEN "invalid"
                                         ELSE IF e \in S THEN "none"
                                         ELSE reported[e]]
    BY <1>0, <1>6 DEF Commit, TypeOK
  <2>3. \A e \in Events : attempts[e] \in Nat /\ claims[e] \in Nat
                          /\ attempts'[e] \in Nat /\ claims'[e] \in Nat
    BY <1>0, <2>1, ClaimRowsKeeps DEF TypeOK
  <2>4. SnapOK'
    <3> SUFFICES ASSUME NEW c \in Dispatchers, NEW e \in batch'[c] \ Replayed
                 PROVE  snap'[c][e] <= attempts'[e] /\ claims'[e] > 0
      BY DEF SnapOK
    <3>1. e \in Events BY <1>0, <1>5, <2>1, <2>2 DEF TypeOK
    <3>2. snap[c][e] \in Nat BY <1>0, <3>1 DEF TypeOK
    <3>3. CASE e \in S /\ c = d
      BY <1>5, <2>1, <2>2, <2>3, <3>1, <3>3
    <3>4. CASE ~ (e \in S /\ c = d)
      <4>1. e \in batch[c] /\ snap'[c][e] = snap[c][e]
        BY <2>2, <3>1, <3>4
      <4>2. snap[c][e] <= attempts[e] /\ claims[e] > 0
        BY <4>1 DEF ReportInv, SnapOK
      <4>3. attempts'[e] >= attempts[e] /\ claims'[e] > 0
        BY <1>5, <2>1, <2>3, <3>1, <4>2
      <4>4. QED BY <2>3, <3>1, <3>2, <4>1, <4>2, <4>3
    <3>5. QED BY <3>3, <3>4
  <2>5. InvalidReportIsTrue'
    BY <1>0, <1>5, <2>1, <2>2, ClaimRowsKeeps
       DEF ReportInv, InvalidReportIsTrue, TypeOK
  <2>6. QED BY <2>4, <2>5
<1>7. ASSUME NEW d \in Dispatchers, ClaimFails(d)
      PROVE  SnapOK' /\ InvalidReportIsTrue'
  <2>1. UNCHANGED <<batch, snap>> /\ locked[d] # {} BY <1>7 DEF ClaimFails
  <2>2. CASE UNCHANGED <<row, reclaimed, reported>>
    BY <2>1, <2>2 DEF ReportInv, SnapOK, InvalidReportIsTrue, row
  <2>3. CASE /\ ClaimRows(d)
             /\ reported' = [e \in Events |-> IF e \in locked[d] THEN "none"
                                              ELSE reported[e]]
    <3>1. SnapOK'
      <4> SUFFICES ASSUME NEW c \in Dispatchers, NEW e \in batch[c] \ Replayed
                   PROVE  snap[c][e] <= attempts'[e] /\ claims'[e] > 0
        BY <2>1 DEF SnapOK
      <4>1. /\ e \in Events /\ snap[c][e] \in Nat
            /\ attempts[e] \in Nat /\ attempts'[e] \in Nat
        BY <1>0, <2>1, <2>3, ClaimRowsKeeps DEF TypeOK
      <4>2. snap[c][e] <= attempts[e] /\ claims[e] > 0 BY DEF ReportInv, SnapOK
      <4>3. attempts'[e] >= attempts[e] /\ claims'[e] > 0
        BY <1>5, <2>1, <2>3, <4>1, <4>2
      <4>4. QED BY <4>1, <4>2, <4>3
    <3>2. InvalidReportIsTrue'
      BY <1>0, <2>1, <2>3, ClaimRowsKeeps
         DEF ReportInv, InvalidReportIsTrue, TypeOK
    <3>3. QED BY <3>1, <3>2
  <2>4. QED BY <1>7, <2>2, <2>3 DEF ClaimFails
<1>8. ASSUME NEW d \in Dispatchers, pc[d] = "mark", NextEvent(d), WriteMark(d),
             NEW cb, reported' = [reported EXCEPT ![cur[d]] = cb],
             cb \in {"none", Callback(d)}
      PROVE  SnapOK' /\ InvalidReportIsTrue'
  <2>1. /\ cur[d] \in batch[d] /\ cur[d] \in Events /\ result[d] \in Results
        /\ status[cur[d]] = "PROCESSING"
    BY <1>0, <1>8, WriteMarkKeeps DEF TypeOK
  <2>2. SnapOK'
    <3> SUFFICES ASSUME NEW c \in Dispatchers, NEW e \in batch'[c] \ Replayed
                 PROVE  snap'[c][e] <= attempts'[e] /\ claims'[e] > 0
      BY DEF SnapOK
    <3>1. e \in batch[c] /\ snap' = snap BY <1>0, <1>8, NextEventKeeps
    <3>2. e \in Events /\ snap[c][e] \in Nat /\ attempts[e] \in Nat
      BY <1>0, <3>1 DEF TypeOK
    <3>3. snap[c][e] <= attempts[e] /\ claims[e] > 0
      BY <3>1 DEF ReportInv, SnapOK
    <3>4. claims' = claims /\ attempts'[e] \in {attempts[e], attempts[e] + 1}
      BY <1>0, <1>8, <3>2 DEF WriteMark, TypeOK
    <3>5. QED BY <3>1, <3>2, <3>3, <3>4
  <2>3. ASSUME cur[d] \notin Replayed
        PROVE  Callback(d) = "invalid" => status'[cur[d]] = "INVALID"
    <3>1. /\ snap[d][cur[d]] <= attempts[cur[d]]
          /\ snap[d][cur[d]] \in Nat /\ attempts[cur[d]] \in Nat
      BY <1>0, <2>1, <2>3 DEF ReportInv, SnapOK, TypeOK
    <3>2. status'[cur[d]] = MarkedStatus(cur[d], result[d])
      BY <1>0, <1>8, <2>1 DEF WriteMark, TypeOK
    <3>3. QED
      BY <2>1, <3>1, <3>2, ConstantsAssumption DEF Callback, MarkedStatus, Results
  <2>4. InvalidReportIsTrue'
    <3> SUFFICES ASSUME NEW e \in Events \ Replayed, reported'[e] = "invalid"
                 PROVE  status'[e] \in {"INVALID", "NONE"}
      BY DEF InvalidReportIsTrue
    <3>1. CASE e = cur[d]
      <4>1. reported'[e] = cb BY <1>0, <1>8, <3>1 DEF TypeOK
      <4>2. QED BY <1>8, <2>3, <3>1, <4>1
    <3>2. CASE e # cur[d]
      <4>1. reported'[e] = reported[e] BY <1>0, <1>8, <3>2 DEF TypeOK
      <4>2. status'[e] = status[e] BY <1>0, <1>8, <3>2, WriteMarkKeeps
      <4>3. QED BY <4>1, <4>2 DEF ReportInv, InvalidReportIsTrue
    <3>3. QED BY <3>1, <3>2
  <2>5. QED BY <2>2, <2>4
<1>9. ASSUME NEW d \in Dispatchers, pc[d] = "mark", NextEvent(d),
             UNCHANGED <<row, reported>>
      PROVE  SnapOK' /\ InvalidReportIsTrue'
  BY <1>0, <1>4, <1>9, NextEventKeeps DEF row
<1>10. ASSUME NEW d \in Dispatchers, Step(d)
       PROVE  SnapOK' /\ InvalidReportIsTrue'
  <2>1. CASE Begin(d) \/ Select(d) \/ Publish(d) \/ EndDispatch(d)
    <3>1. UNCHANGED <<row, batch, snap, reported>>
      BY <2>1 DEF Begin, Select, Publish, EndDispatch, hist
    <3>2. QED BY <3>1 DEF ReportInv, SnapOK, InvalidReportIsTrue, row
  <2>2. CASE Commit(d) BY <1>6, <2>2
  <2>3. CASE Mark(d) BY <1>8, <2>3 DEF Mark
  <2>4. CASE MarkConflict(d) BY <1>9, <2>4 DEF MarkConflict, hist
  <2>5. CASE Sweep(d)
    <3>1. PICK s \in Terminal, p \in {"purgeINVALID", "idle"} : SweepPhase(d, s, p)
      BY <2>5 DEF Sweep, Terminal
    <3>2. UNCHANGED <<batch, snap, reported>> BY <3>1 DEF SweepPhase, hist
    <3>3. CASE Purge(s)
      BY <1>0, <1>4, <3>1, <3>2, <3>3, PurgeKeeps DEF TypeOK
    <3>4. CASE UNCHANGED row
      BY <3>2, <3>4 DEF ReportInv, SnapOK, InvalidReportIsTrue, row
    <3>5. QED BY <3>1, <3>3, <3>4 DEF SweepPhase
  <2>6. QED BY <1>10, <2>1, <2>2, <2>3, <2>4, <2>5, StepCases
<1>11. ASSUME NEW d \in Dispatchers, Fault(d)
       PROVE  SnapOK' /\ InvalidReportIsTrue'
  <2>1. CASE ClaimFails(d) BY <1>7, <2>1
  <2>2. CASE MarkFails(d) BY <1>8, <1>9, <2>2 DEF MarkFails
  <2>3. CASE Abort(d)
    <3>1. /\ UNCHANGED <<row, snap, reported>>
          /\ \A c \in Dispatchers : batch'[c] \subseteq batch[c]
      BY <1>0, <2>3 DEF Abort, TypeOK, hist
    <3>2. QED BY <3>1 DEF ReportInv, SnapOK, InvalidReportIsTrue, row
  <2>4. QED BY <1>11, <2>1, <2>2, <2>3 DEF Fault
<1>12. QED BY <1>1, <1>2, <1>3, <1>10, <1>11, NextCases

(* OnInvalid is reported only for events that are durably INVALID, for     *)
(* every id that is not created again after its purge (handlePublishError).*)
THEOREM InvalidReportIsTrueHolds == Spec => []InvalidReportIsTrue
<1>1. Init => ReportInv
  BY InitInv DEF Init, ReportInv, SnapOK, InvalidReportIsTrue
<1>2. ReportInv => InvalidReportIsTrue BY DEF ReportInv
<1>3. QED BY <1>1, <1>2, ReportStep, PTL DEF Spec

(* Both together: no status and no callback says what did not happen.      *)
THEOREM ReportsAreTrueHolds == Spec => []ReportsAreTrue
<1>1. PublishedWasAcked /\ InvalidReportIsTrue => ReportsAreTrue
  BY DEF ReportsAreTrue
<1>2. QED BY <1>1, PublishedWasAckedHolds, InvalidReportIsTrueHolds, PTL

-----------------------------------------------------------------------------
(* The table implements the documented status machine for any number of    *)
(* dispatchers and failures (status.go CanTransitionTo).                   *)
THEOREM Refinement == Spec => ImplementsLifecycle
<1>1. Init => Abstract!Init BY DEF Init, Abstract!Init
<1>2. Inv /\ Inv' /\ [Next]_vars => [Abstract!Next]_(Abstract!vars)
  <2> SUFFICES ASSUME Inv, Inv', [Next]_vars, ~ UNCHANGED <<status, acked>>
               PROVE  Abstract!Next
    BY DEF Abstract!vars
  <2> USE DEF Abstract!Next, Abstract!Write, Abstract!Insert, Abstract!Move,
              Abstract!Purge, Abstract!Live, Abstract!Terminal,
              Abstract!CanTransitionTo
  <2>0. status' \in [Events -> {"NONE"} \cup Abstract!Live \cup Abstract!Terminal]
    BY DEF Inv, TypeOK, Statuses
  <2>1. ASSUME NEW S \in SUBSET Events, Insert(S) PROVE Abstract!Write
    BY <2>0, <2>1 DEF Insert, Inv, TypeOK
  <2>2. ASSUME NEW d \in Dispatchers, locked[d] # {}, ClaimRows(d), UNCHANGED acked
        PROVE  Abstract!Write
    <3>1. \A e \in locked[d] : Abstract!Move(e)
      <4>1. \A e \in locked[d] : status[e] # "PROCESSING" => status'[e] = "PROCESSING"
        BY <2>2 DEF ClaimRows, Inv, TypeOK, LocksOK, ClaimStatus, Layers, Exhausted
      <4>2. QED BY <2>2, <4>1, ClaimRowsKeeps
    <3>2. QED BY <2>0, <2>2, <3>1, ClaimRowsKeeps
  <2>3. ASSUME NEW d \in Dispatchers, pc[d] = "mark", WriteMark(d), UNCHANGED acked
        PROVE  Abstract!Write
    BY <2>0, <2>3, WriteMarkKeeps
  <2>4. ASSUME NEW d \in Dispatchers, Publish(d) PROVE Abstract!Next
    <3>1. PICK e \in Events : acked' \in {acked, acked \cup {e}}
      BY <2>4 DEF Publish, Inv, TypeOK
    <3>2. status' = status BY <2>4 DEF Publish, row
    <3>3. QED BY <3>1, <3>2 DEF Abstract!Accept
  <2>5. ASSUME NEW d \in Dispatchers, Sweep(d) PROVE Abstract!Next
    <3>1. PICK s \in Terminal, p \in {"purgeINVALID", "idle"} : SweepPhase(d, s, p)
      BY <2>5 DEF Sweep, Terminal
    <3>2. acked' = acked BY <3>1 DEF SweepPhase, hist
    <3>3. CASE Purge(s) BY <2>0, <3>1, <3>2, <3>3, PurgeKeeps DEF Terminal
    <3>4. CASE UNCHANGED row BY <3>2, <3>4 DEF row
    <3>5. QED BY <3>1, <3>3, <3>4 DEF SweepPhase
  <2>6. ASSUME NEW d \in Dispatchers, Step(d) PROVE Abstract!Next
    <3>1. CASE Begin(d) \/ Select(d) \/ EndDispatch(d) \/ MarkConflict(d)
      BY <3>1 DEF Begin, Select, EndDispatch, MarkConflict, row, hist
    <3>2. CASE Commit(d) BY <2>2, <3>2 DEF Commit
    <3>3. CASE Mark(d) BY <2>3, <3>3 DEF Mark
    <3>4. QED BY <2>4, <2>5, <2>6, <3>1, <3>2, <3>3, StepCases
  <2>7. ASSUME NEW d \in Dispatchers, Fault(d) PROVE Abstract!Next
    <3>1. CASE ClaimFails(d)
      BY <2>2, <3>1 DEF ClaimFails, row
    <3>2. CASE MarkFails(d) BY <2>3, <3>2 DEF MarkFails, row
    <3>3. CASE Abort(d) BY <3>3 DEF Abort, row, hist
    <3>4. QED BY <2>7, <3>1, <3>2, <3>3 DEF Fault
  <2>8. ASSUME NEW e \in Events, Age(e) PROVE FALSE BY <2>8 DEF Age, hist
  <2>9. CASE UNCHANGED vars BY <2>9 DEF vars, row, hist
  <2>10. QED BY <2>1, <2>6, <2>7, <2>8, <2>9, NextCases
<1>3. QED
  BY <1>1, <1>2, Invariance, PTL DEF Spec, ImplementsLifecycle, Abstract!Spec
-----------------------------------------------------------------------------
(* Batches.  What a cycle has collected and what its open claim has locked *)
(* fit together; a cycle that has not begun to collect holds nothing.      *)
BatchOK ==
    \A d \in Dispatchers :
      /\ pc[d] \notin {"failed", "pending", "publish", "mark"} => batch[d] = {}
      /\ Cardinality(batch[d]) + Cardinality(locked[d]) <= BatchSize

(* The smaller of two numbers is neither larger.                           *)
LEMMA MinOfTwo ==
    ASSUME NEW m \in Int, NEW n \in Int
    PROVE  Min({m, n}) \in Int /\ Min({m, n}) <= m /\ Min({m, n}) <= n
<1>1. \E x \in {m, n} : \A y \in {m, n} : x <= y
  <2>1. CASE m <= n BY <2>1
  <2>2. CASE ~(m <= n) BY <2>2
  <2> QED BY <2>1, <2>2
<1>2. Min({m, n}) \in {m, n} /\ \A y \in {m, n} : Min({m, n}) <= y
  BY <1>1 DEF Min
<1> QED BY <1>2

(* Sets of events have a size.                                             *)
LEMMA Sizes ==
    ASSUME NEW S \in SUBSET Events
    PROVE  IsFiniteSet(S) /\ Cardinality(S) \in Nat
BY FiniteTable, FS_Subset, FS_CardinalityType

(* No layer asks for more than what is left of the batch.                  *)
LEMMA LimitFits ==
    ASSUME NEW layer \in Layers, NEW n \in Nat, layer = "priority" => n = 0
    PROVE  Limit(layer, n) \in Int /\ n + Limit(layer, n) <= BatchSize
<1> DEFINE p == Min({PriorityBudget, BatchSize})
           f == Min({BatchSize - n, MaxFailedPerBatch})
<1>1. /\ BatchSize \in Nat /\ PriorityBudget \in Nat /\ MaxFailedPerBatch \in Nat
      /\ BatchSize - n \in Int
  BY ConstantsAssumption
<1>2. /\ p \in Int /\ p <= BatchSize
      /\ f \in Int /\ f <= BatchSize - n
  <2>1. PriorityBudget \in Int /\ BatchSize \in Int /\ MaxFailedPerBatch \in Int BY <1>1
  <2>2. p \in Int /\ p <= BatchSize BY <2>1, MinOfTwo
  <2>3. f \in Int /\ f <= BatchSize - n BY <1>1, <2>1, MinOfTwo
  <2> QED BY <2>2, <2>3
<1>3. Limit(layer, n) = IF layer = "priority" THEN p ELSE IF layer = "failed" THEN f ELSE BatchSize - n
  BY DEF Limit, Layers
<1> HIDE DEF p, f
<1> QED BY <1>1, <1>2, <1>3

LEMMA SelectBatch == ASSUME Inv, BatchOK, NEW d \in Dispatchers, Select(d) PROVE BatchOK'
<1> DEFINE free == Eligible(pc[d]) \ Locked
           n == Min({Limit(pc[d], Cardinality(batch[d])), Cardinality(free)})
<1>1. PICK S \in kSubset(n, free) :
        /\ locked' = [locked EXCEPT ![d] = S]
        /\ pc' = IF S = {}
                   THEN [pc EXCEPT ![d] = After(pc[d], Cardinality(batch[d]))]
                   ELSE pc
  BY DEF Select
<1>2. pc[d] \in Layers /\ locked[d] = {} /\ UNCHANGED batch BY DEF Select
<1>3. free \in SUBSET Events
  BY <1>2, ConstantsAssumption DEF Eligible, Layers, Inv, TypeOK
<1>4. S \in SUBSET Events /\ Cardinality(S) = n BY <1>3 DEF kSubset
<1>5. Cardinality(batch[d]) \in Nat /\ Cardinality(free) \in Nat
  BY <1>3, Sizes DEF Inv, TypeOK
<1>6. pc[d] = "priority" => Cardinality(batch[d]) = 0
  BY FS_EmptySet DEF BatchOK
<1>7. Cardinality(batch[d]) + n <= BatchSize
  <2>1. /\ Limit(pc[d], Cardinality(batch[d])) \in Int
        /\ Cardinality(batch[d]) + Limit(pc[d], Cardinality(batch[d])) <= BatchSize
    BY <1>2, <1>5, <1>6, LimitFits
  <2>2. n \in Int /\ n <= Limit(pc[d], Cardinality(batch[d]))
    BY <2>1, <1>5, MinOfTwo
  <2> HIDE DEF n
  <2> QED BY <2>1, <2>2, <1>5, ConstantsAssumption
<1> HIDE DEF n, free
<1>8. Cardinality(batch'[d]) + Cardinality(locked'[d]) <= BatchSize
  BY <1>1, <1>2, <1>4, <1>7 DEF Inv, TypeOK
<1>9. pc'[d] \notin {"failed", "pending", "publish", "mark"} => batch'[d] = {}
  BY <1>1, <1>2, AfterType DEF BatchOK, Inv, TypeOK, Layers
<1>10. \A c \in Dispatchers \ {d} : pc'[c] = pc[c] /\ locked'[c] = locked[c]
  BY <1>1 DEF Inv, TypeOK
<1> QED BY <1>2, <1>8, <1>9, <1>10 DEF BatchOK

LEMMA CommitBatch == ASSUME Inv, BatchOK, NEW d \in Dispatchers, Commit(d) PROVE BatchOK'
<1>1. PICK dead \in SUBSET locked[d] :
        /\ batch' = [batch EXCEPT ![d] = batch[d] \cup (locked[d] \ dead)]
        /\ \E k : pc' = [pc EXCEPT ![d] = After(pc[d], k)]
  <2> DEFINE D == IF pc[d] = "stuck" THEN Exhausted(locked[d]) ELSE {}
  <2>1. D \in SUBSET locked[d] BY DEF Exhausted
  <2> QED BY <2>1 DEF Commit
<1>2. locked' = [locked EXCEPT ![d] = {}] BY DEF Commit
<1> DEFINE got == batch[d] \cup (locked[d] \ dead)
<1>3. batch[d] \in SUBSET Events /\ locked[d] \in SUBSET Events BY DEF Inv, TypeOK
<1>4. Cardinality(got) <= Cardinality(batch[d]) + Cardinality(locked[d])
  <2>1. /\ IsFiniteSet(batch[d] \cup locked[d])
        /\ Cardinality(batch[d] \cup locked[d]) <= Cardinality(batch[d]) + Cardinality(locked[d])
    <3>1. batch[d] \cap locked[d] \in SUBSET Events BY <1>3
    <3>2. /\ IsFiniteSet(batch[d] \cup locked[d])
          /\ Cardinality(batch[d] \cup locked[d])
               = Cardinality(batch[d]) + Cardinality(locked[d]) - Cardinality(batch[d] \cap locked[d])
      BY <1>3, Sizes, FS_Union
    <3> QED BY <1>3, <3>1, <3>2, Sizes
  <2>2. Cardinality(got) <= Cardinality(batch[d] \cup locked[d])
    BY <2>1, FS_Subset
  <2>3. got \in SUBSET Events /\ batch[d] \cup locked[d] \in SUBSET Events BY <1>3
  <2> QED BY <2>1, <2>2, <2>3, <1>3, Sizes
<1>5. Cardinality(got) + Cardinality({}) <= BatchSize
  <2>1. got \in SUBSET Events BY <1>3
  <2> HIDE DEF got
  <2> QED BY <1>3, <1>4, <2>1, Sizes, FS_EmptySet, ConstantsAssumption DEF BatchOK
<1>6. pc'[d] \in {"failed", "pending", "publish"} BY <1>1, AfterType DEF Inv, TypeOK
<1>7. \A c \in Dispatchers \ {d} : pc'[c] = pc[c] /\ locked'[c] = locked[c] /\ batch'[c] = batch[c]
  BY <1>1, <1>2 DEF Inv, TypeOK
<1>8. batch'[d] = got /\ locked'[d] = {} BY <1>1, <1>2 DEF Inv, TypeOK
<1> HIDE DEF got
<1> QED BY <1>5, <1>6, <1>7, <1>8 DEF BatchOK

(* What takes events away and begins no collection keeps batches bounded.  *)
LEMMA ShrinkBatch ==
    ASSUME Inv, BatchOK, TypeOK',
           \A d \in Dispatchers :
             /\ batch'[d] \subseteq batch[d] /\ locked'[d] \subseteq locked[d]
             /\ pc'[d] \notin {"failed", "pending", "publish", "mark"} => batch'[d] = {}
    PROVE  BatchOK'
<1> SUFFICES ASSUME NEW d \in Dispatchers
             PROVE  Cardinality(batch'[d]) + Cardinality(locked'[d]) <= BatchSize
  BY DEF BatchOK
<1>1. /\ batch[d] \in SUBSET Events /\ locked[d] \in SUBSET Events
      /\ batch'[d] \in SUBSET batch[d] /\ locked'[d] \in SUBSET locked[d]
  BY DEF Inv, TypeOK
<1>2. /\ batch'[d] \in SUBSET Events /\ locked'[d] \in SUBSET Events
  BY <1>1
<1>3. Cardinality(batch'[d]) <= Cardinality(batch[d]) /\ Cardinality(locked'[d]) <= Cardinality(locked[d])
  BY <1>1, Sizes, FS_Subset
<1>4. Cardinality(batch[d]) + Cardinality(locked[d]) <= BatchSize BY DEF BatchOK
<1> QED BY <1>1, <1>2, <1>3, <1>4, Sizes, ConstantsAssumption

LEMMA BatchStep == Inv /\ BatchOK /\ [Next]_vars => BatchOK'
<1> SUFFICES ASSUME Inv, BatchOK, [Next]_vars PROVE BatchOK' OBVIOUS
<1>0. TypeOK /\ TypeOK' BY StepInv DEF Inv
<1>1. CASE UNCHANGED <<pc, batch, locked>> BY <1>1 DEF BatchOK
<1>2. ASSUME NEW d \in Dispatchers, Begin(d) PROVE BatchOK'
  BY <1>0, <1>2, ShrinkBatch DEF Begin, BatchOK, TypeOK
<1>3. ASSUME NEW d \in Dispatchers, ClaimFails(d) PROVE BatchOK'
  <2>1. \A c \in Dispatchers :
          /\ batch'[c] \subseteq batch[c] /\ locked'[c] \subseteq locked[c]
          /\ pc'[c] \notin {"failed", "pending", "publish", "mark"} => batch'[c] = {}
    BY <1>0, <1>3, AfterType DEF ClaimFails, BatchOK, TypeOK
  <2> QED BY <1>0, <2>1, ShrinkBatch
<1>4. ASSUME NEW d \in Dispatchers, Publish(d) \/ EndDispatch(d) \/ Abort(d) PROVE BatchOK'
  <2>1. \A c \in Dispatchers :
          /\ batch'[c] \subseteq batch[c] /\ locked'[c] \subseteq locked[c]
          /\ pc'[c] \notin {"failed", "pending", "publish", "mark"} => batch'[c] = {}
    <3>1. CASE Publish(d) BY <1>0, <3>1 DEF Publish, BatchOK, TypeOK
    <3>2. CASE EndDispatch(d) BY <1>0, <3>2 DEF EndDispatch, BatchOK, TypeOK
    <3>3. CASE Abort(d) BY <1>0, <3>3 DEF Abort, BatchOK, TypeOK
    <3> QED BY <1>4, <3>1, <3>2, <3>3
  <2> QED BY <1>0, <2>1, ShrinkBatch
<1>5. ASSUME NEW d \in Dispatchers, NextEvent(d) PROVE BatchOK'
  <2>1. \A c \in Dispatchers :
          /\ batch'[c] \subseteq batch[c] /\ locked'[c] \subseteq locked[c]
          /\ pc'[c] \notin {"failed", "pending", "publish", "mark"} => batch'[c] = {}
    BY <1>0, <1>5 DEF NextEvent, BatchOK, TypeOK
  <2> QED BY <1>0, <2>1, ShrinkBatch
<1>6. ASSUME NEW d \in Dispatchers, Sweep(d) PROVE BatchOK'
  <2>1. \A c \in Dispatchers :
          /\ batch'[c] \subseteq batch[c] /\ locked'[c] \subseteq locked[c]
          /\ pc'[c] \notin {"failed", "pending", "publish", "mark"} => batch'[c] = {}
    BY <1>0, <1>6 DEF Sweep, SweepPhase, BatchOK, TypeOK
  <2> QED BY <1>0, <2>1, ShrinkBatch
<1>7. ASSUME NEW d \in Dispatchers, Step(d) \/ Fault(d) PROVE BatchOK'
  BY <1>7, <1>2, <1>3, <1>4, <1>5, <1>6, SelectBatch, CommitBatch, StepCases
     DEF Fault, Mark, MarkConflict, MarkFails
<1> QED
  BY <1>1, <1>7, NextCases DEF Insert, Age, cycle, vars

(* A cycle never holds more than BatchSize events, although four layers    *)
(* each ask for their share (collectEvents), whatever the table's size.    *)
THEOREM BatchBoundedHolds == Spec => []BatchBounded
<1>1. Init => BatchOK
  BY FS_EmptySet, ConstantsAssumption DEF Init, BatchOK
<1>2. Inv /\ BatchOK => BatchBounded
  <2> SUFFICES ASSUME Inv, BatchOK, NEW d \in Dispatchers
               PROVE  Cardinality(batch[d] \cup locked[d]) <= BatchSize
    BY DEF BatchBounded
  <2>1. /\ batch[d] \in SUBSET Events /\ locked[d] \in SUBSET Events
        /\ batch[d] \cap locked[d] \in SUBSET Events
    BY DEF Inv, TypeOK
  <2>2. Cardinality(batch[d]) + Cardinality(locked[d]) <= BatchSize BY DEF BatchOK
  <2>3. Cardinality(batch[d] \cup locked[d])
          = Cardinality(batch[d]) + Cardinality(locked[d]) - Cardinality(batch[d] \cap locked[d])
    BY <2>1, Sizes, FS_Union
  <2> QED BY <2>1, <2>2, <2>3, Sizes, ConstantsAssumption
<1> QED BY <1>1, <1>2, Invariance, BatchStep, PTL DEF Spec
=============================================================================

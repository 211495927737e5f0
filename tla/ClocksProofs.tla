---------------------------- MODULE ClocksProofs ----------------------------
(***************************************************************************)
(* Proofs about the parts driven by a clock: the Redis lock, the           *)
(* certificate manager, the counters of failed listings, cron schedules    *)
(* and the dispatcher's cycle over tenants.                                *)
(***************************************************************************)
EXTENDS MCClocks, FiniteSetTheorems, SequenceTheorems, TLAPS

-----------------------------------------------------------------------------
(* Theorems: the lock excludes, for every number of callers, tries, lease  *)
(* length, drift and lost answers.  The argument: a valid lease is backed  *)
(* by the key, an answer not yet received is as good as a lease as long as *)
(* it is in time, and the deletes still on their way are all of attempts   *)
(* and handles that are given up.                                          *)

(* The server has done what a call under way asked for.                    *)
Answered(p) == (pc[p] = "asking" \/ lease[p] = "extend") /\ stage[p] = "done"

(* An Unlock that missed an answer may have a delete under way.            *)
Overtaken(p) == pc[p] = "released" /\ p \in unheard

(* An answer still in time is about a key that is the caller's, and whose  *)
(* lease runs at least its length from the question.                       *)
AnswerBacked ==
    \A p \in Procs : Answered(p) /\ clock < Deadline(p) /\ ~Overtaken(p)
      => Mine(p) /\ start[p] + Expiry <= key.exp

(* leaseMu is only taken on a handle, so after an acquisition.             *)
LeaseOnHandle ==
    \A p \in Procs : /\ lease[p] # "free" => pc[p] \in {"holding", "released"}
                     /\ lease[p] = "unlock" => pc[p] = "holding"

(* No lease is longer than Expiry, no question lies in the future.         *)
Clocked == key.exp <= clock + Expiry /\ \A p \in Procs : start[p] <= clock

(* Commands under way are of attempts made; a delete of the last attempt's *)
(* value is one redsync sent after the attempt failed, or an Unlock's that *)
(* missed an answer.                                                       *)
DeletesKnown ==
    \A cmd \in late :
      /\ cmd.try <= try[cmd.by]
      /\ cmd.op = "del" /\ cmd.try = try[cmd.by] =>
           /\ pc[cmd.by] # "asking"
           /\ pc[cmd.by] = "holding" => lease[cmd.by] = "unlock"
           /\ pc[cmd.by] \in {"holding", "released"} => cmd.by \in unheard

IInv == TypeOK /\ LeaseBacked /\ AnswerBacked /\ LeaseOnHandle /\ Clocked /\ DeletesKnown

-----------------------------------------------------------------------------
LEMMA InitIInv == Init => IInv
  BY LockAssumption DEF Init, IInv, TypeOK, LeaseBacked, AnswerBacked, LeaseOnHandle, Clocked,
     DeletesKnown, Answered, Valid, Mine, Free, PCs, Deadline

(* Every action keeps the types.                                           *)
LEMMA TypeStep == TypeOK /\ [Next]_vars => TypeOK'
<1> SUFFICES ASSUME TypeOK, [Next]_vars PROVE TypeOK'
  OBVIOUS
<1> USE LockAssumption DEF TypeOK, PCs, Goto, Commands, Deadline
<1>1. CASE Tick
  BY <1>1 DEF Tick
<1>2. ASSUME NEW cmd \in late, ServeLate(cmd) PROVE TypeOK'
  BY <1>2 DEF ServeLate, Executed, Accepted, Free
<1>3. ASSUME NEW p \in Procs, CallerGivesUp(p)
      PROVE  TypeOK'
  BY <1>3 DEF CallerGivesUp
<1>4. ASSUME NEW p \in Procs, BeginTry(p)
      PROVE  TypeOK'
  BY <1>4 DEF BeginTry
<1>5. ASSUME NEW p \in Procs, LockTaken(p)
      PROVE  TypeOK'
  BY <1>5 DEF LockTaken, CallOver
<1>6. ASSUME NEW p \in Procs, NEW op \in {"set", "touch", "del"}, Serve(op, p)
      PROVE  TypeOK'
  BY <1>6 DEF Serve, Waits, Accepted, Executed, Command, Free
<1>7. ASSUME NEW p \in Procs, NEW op \in {"set", "touch", "del"}, Resend(op, p)
      PROVE  TypeOK'
  BY <1>7 DEF Resend, Waits, LeftBehind, Command
<1>8. ASSUME NEW p \in Procs, NEW err \in {"taken", "failed", "fault"}, TryFails(p, err)
      PROVE  TypeOK'
  BY <1>8 DEF TryFails, ClassifyLockFailure, CallOver, Missed, LeftBehind, Waits, Executed, Command, Free
<1>9. ASSUME NEW p \in Procs, WaitAbandoned(p)
      PROVE  TypeOK'
  BY <1>9 DEF WaitAbandoned, ClassifyLockFailure
<1>10. ASSUME NEW p \in Procs, BeginExtend(p)
      PROVE  TypeOK'
  BY <1>10 DEF BeginExtend
<1>11. ASSUME NEW p \in Procs, ExtendReturns(p)
      PROVE  TypeOK'
  BY <1>11 DEF ExtendReturns, CallOver, LeftBehind, Waits, Command
<1>12. ASSUME NEW p \in Procs, BeginUnlock(p)
      PROVE  TypeOK'
  BY <1>12 DEF BeginUnlock
<1>13. ASSUME NEW p \in Procs, UnlockReturns(p)
      PROVE  TypeOK'
  BY <1>13 DEF UnlockReturns, CallOver, LeftBehind, Waits, Command
<1>14. CASE UNCHANGED vars
  BY <1>14 DEF vars
<1> QED
  BY <1>1, <1>2, <1>3, <1>4, <1>5, <1>6, <1>7, <1>8, <1>9, <1>10, <1>11, <1>12, <1>13, <1>14 DEF Next, Step

(* The strengthened invariant is inductive.                                *)
LEMMA StepIInv == IInv /\ [Next]_vars => IInv'
<1> SUFFICES ASSUME IInv, [Next]_vars PROVE (LeaseBacked /\ AnswerBacked /\ LeaseOnHandle /\ Clocked /\ DeletesKnown)'
  BY TypeStep DEF IInv
<1>0. TypeOK /\ TypeOK'
  BY TypeStep DEF IInv
<1> USE LockAssumption, <1>0 DEF IInv, TypeOK, PCs, Goto, Commands, LeaseBacked, AnswerBacked, LeaseOnHandle,
        Clocked, DeletesKnown, Answered, Overtaken, Valid, Mine, Held, Deadline
<1>1. CASE Tick
  BY <1>1 DEF Tick
<1>2. ASSUME NEW cmd \in late, ServeLate(cmd) PROVE (LeaseBacked /\ AnswerBacked /\ LeaseOnHandle /\ Clocked /\ DeletesKnown)'
  BY <1>2 DEF ServeLate, Executed, Accepted, Free
<1>3. ASSUME NEW p \in Procs, CallerGivesUp(p)
      PROVE  (LeaseBacked /\ AnswerBacked /\ LeaseOnHandle /\ Clocked /\ DeletesKnown)'
  BY <1>3 DEF CallerGivesUp
<1>4. ASSUME NEW p \in Procs, BeginTry(p)
      PROVE  (LeaseBacked /\ AnswerBacked /\ LeaseOnHandle /\ Clocked /\ DeletesKnown)'
  BY <1>4 DEF BeginTry
<1>5. ASSUME NEW p \in Procs, LockTaken(p)
      PROVE  (LeaseBacked /\ AnswerBacked /\ LeaseOnHandle /\ Clocked /\ DeletesKnown)'
  BY <1>5 DEF LockTaken, CallOver
<1>6. ASSUME NEW p \in Procs, NEW op \in {"set", "touch", "del"}, Serve(op, p)
      PROVE  (LeaseBacked /\ AnswerBacked /\ LeaseOnHandle /\ Clocked /\ DeletesKnown)'
  BY <1>6 DEF Serve, Waits, Accepted, Executed, Command, Free
<1>7. ASSUME NEW p \in Procs, NEW op \in {"set", "touch", "del"}, Resend(op, p)
      PROVE  (LeaseBacked /\ AnswerBacked /\ LeaseOnHandle /\ Clocked /\ DeletesKnown)'
  BY <1>7 DEF Resend, Waits, LeftBehind, Command
<1>8. ASSUME NEW p \in Procs, NEW err \in {"taken", "failed", "fault"}, TryFails(p, err)
      PROVE  (LeaseBacked /\ AnswerBacked /\ LeaseOnHandle /\ Clocked /\ DeletesKnown)'
  BY <1>8 DEF TryFails, ClassifyLockFailure, CallOver, Missed, LeftBehind, Waits, Executed, Command, Free
<1>9. ASSUME NEW p \in Procs, WaitAbandoned(p)
      PROVE  (LeaseBacked /\ AnswerBacked /\ LeaseOnHandle /\ Clocked /\ DeletesKnown)'
  BY <1>9 DEF WaitAbandoned, ClassifyLockFailure
<1>10. ASSUME NEW p \in Procs, BeginExtend(p)
      PROVE  (LeaseBacked /\ AnswerBacked /\ LeaseOnHandle /\ Clocked /\ DeletesKnown)'
  BY <1>10 DEF BeginExtend
<1>11. ASSUME NEW p \in Procs, ExtendReturns(p)
      PROVE  (LeaseBacked /\ AnswerBacked /\ LeaseOnHandle /\ Clocked /\ DeletesKnown)'
  BY <1>11 DEF ExtendReturns, CallOver, LeftBehind, Waits, Command
<1>12. ASSUME NEW p \in Procs, BeginUnlock(p)
      PROVE  (LeaseBacked /\ AnswerBacked /\ LeaseOnHandle /\ Clocked /\ DeletesKnown)'
  BY <1>12 DEF BeginUnlock
<1>13. ASSUME NEW p \in Procs, UnlockReturns(p)
      PROVE  (LeaseBacked /\ AnswerBacked /\ LeaseOnHandle /\ Clocked /\ DeletesKnown)'
  BY <1>13 DEF UnlockReturns, CallOver, LeftBehind, Waits, Command
<1>14. CASE UNCHANGED vars
  BY <1>14 DEF vars
<1> QED
  BY <1>1, <1>2, <1>3, <1>4, <1>5, <1>6, <1>7, <1>8, <1>9, <1>10, <1>11, <1>12, <1>13, <1>14 DEF Next, Step

LEMMA IInvAlways == Spec => []IInv
  BY InitIInv, StepIInv, PTL DEF Spec

-----------------------------------------------------------------------------
(* Lock state keeps its types, for every instance.                         *)
THEOREM TypeCorrect == Spec => []TypeOK
<1>1. IInv => TypeOK
  BY DEF IInv
<1> QED BY IInvAlways, <1>1, PTL

(* Every lease a holder may still rely on is backed by its own value under *)
(* the key, until after the validity deadline.                             *)
THEOREM LeaseBackedHolds == Spec => []LeaseBacked
<1>1. IInv => LeaseBacked
  BY DEF IInv
<1> QED BY IInvAlways, <1>1, PTL

(* No two callers hold valid leases, whatever is late, lost or retried:    *)
(* each would have its own value under the one key.                        *)
THEOREM MutualExclusionHolds == Spec => []MutualExclusion
<1>1. IInv => MutualExclusion
  BY DEF IInv, LeaseBacked, MutualExclusion, Mine
<1> QED BY IInvAlways, <1>1, PTL

(* Extend reports a renewal only while the key is the handle's own, unless *)
(* an Unlock of the same handle is left without an answer: leaseMu, for    *)
(* every number of lost answers and late commands.                         *)
THEOREM RenewalIsRealHolds == Spec => RenewalIsReal
<1> DEFINE Real == \A p \in Procs : result'[p] = "renewed" /\ until'[p] # until[p]
                    => (Mine(p) /\ clock < key.exp) \/ (pc[p] = "released" /\ p \in unheard)
<1>1. ASSUME IInv, [Next]_vars PROVE [Real]_vars
  <2> SUFFICES ASSUME NEW q \in Procs, until'[q] # until[q]
               PROVE  (Mine(q) /\ clock < key.exp) \/ (pc[q] = "released" /\ q \in unheard)
    OBVIOUS
  <2> USE LockAssumption, <1>1 DEF IInv, TypeOK, AnswerBacked, Answered, Overtaken, Deadline
  <2>1. \/ \E p \in Procs : LockTaken(p)
        \/ \E p \in Procs : ExtendReturns(p)
    BY DEF Next, Step, Tick, CallerGivesUp, BeginTry, Serve, ServeLate, Resend, TryFails, WaitAbandoned,
           BeginExtend, BeginUnlock, UnlockReturns, vars
  <2>2. ASSUME NEW p \in Procs, LockTaken(p) PROVE Mine(q) /\ clock < key.exp
    BY <2>2 DEF LockTaken, Goto
  <2>3. ASSUME NEW p \in Procs, ExtendReturns(p)
        PROVE  (Mine(q) /\ clock < key.exp) \/ (pc[q] = "released" /\ q \in unheard)
    BY <2>3 DEF ExtendReturns
  <2> QED BY <2>1, <2>2, <2>3
<1> QED BY IInvAlways, <1>1, PTL DEF Spec, RenewalIsReal
-----------------------------------------------------------------------------
(* A caller that waits for its next try has an attempt's error behind it.  *)
Learned == \A p \in Procs : pc[p] = "waiting" => lastErr[p] # "none"

(* The evidence stays what it was when the call ended.                     *)
LEMMA StepEvidence ==
    TypeOK /\ Learned /\ OutcomeMatchesEvidence /\ [Next]_vars => (Learned /\ OutcomeMatchesEvidence)'
<1> SUFFICES ASSUME TypeOK, Learned, OutcomeMatchesEvidence, [Next]_vars
             PROVE  (Learned /\ OutcomeMatchesEvidence)'
  OBVIOUS
<1> USE DEF TypeOK, PCs, Learned, OutcomeMatchesEvidence, Goto
<1>1. ASSUME NEW p \in Procs, CallerGivesUp(p) PROVE (Learned /\ OutcomeMatchesEvidence)'
  BY <1>1 DEF CallerGivesUp
<1>2. ASSUME NEW p \in Procs, BeginTry(p) PROVE (Learned /\ OutcomeMatchesEvidence)'
  BY <1>2 DEF BeginTry
<1>3. ASSUME NEW p \in Procs, NEW err \in {"taken", "failed", "fault"}, TryFails(p, err)
      PROVE (Learned /\ OutcomeMatchesEvidence)'
  BY <1>3 DEF TryFails, ClassifyLockFailure
<1>4. ASSUME NEW p \in Procs, WaitAbandoned(p) PROVE (Learned /\ OutcomeMatchesEvidence)'
  BY <1>4 DEF WaitAbandoned, ClassifyLockFailure
<1>5. ASSUME NEW p \in Procs, LockTaken(p) \/ UnlockReturns(p) PROVE (Learned /\ OutcomeMatchesEvidence)'
  BY <1>5 DEF LockTaken, UnlockReturns
<1>6. CASE UNCHANGED <<pc, lastErr, doneFirst>>
  BY <1>6
<1> QED
  BY <1>1, <1>2, <1>3, <1>4, <1>5, <1>6
     DEF Next, Step, Tick, Serve, ServeLate, Resend, BeginExtend, ExtendReturns, BeginUnlock, vars

(* A caller told that it gave up itself had given up before anything was   *)
(* asked, and one told of an outage got no answer to its last attempt:     *)
(* classifyLockFailure, for every number of tries and callers.             *)
THEOREM OutcomeMatchesEvidenceHolds == Spec => []OutcomeMatchesEvidence
<1>1. Init => Learned /\ OutcomeMatchesEvidence
  BY DEF Init, Learned, OutcomeMatchesEvidence
<1> QED BY <1>1, TypeCorrect, StepEvidence, PTL DEF Spec

-----------------------------------------------------------------------------
(* The certificate manager, for every number of reloaders, generations and *)
(* lifetimes.                                                              *)
Begun(g) == \E t \in 0 .. day : t \in Lifetime(g)

Sound(m) == m # none => m.cert = m.key /\ m.chain = m.cert /\ Begun(m.cert)

(* What a reloader has read and checked so far stays true: generations do  *)
(* not change and lifetimes that have begun have begun.                    *)
CertificateIInv ==
    /\ day \in Nat /\ pair \in [Reloaders -> [cert : Int, key : Int]]
    /\ files \in [cert : Int, key : Int, safe : BOOLEAN]
    /\ reloader \in [Reloaders -> {"idle", "cert", "key", "loaded"}]
    /\ \A r \in Reloaders :
         /\ reloader[r] # "idle" => Begun(pair[r].cert)
         /\ reloader[r] = "loaded" => pair[r].cert = pair[r].key
    /\ Sound(manager) /\ Sound(served)

LEMMA Reloaded ==
  ASSUME CertificateIInv, NEW r \in Reloaders,
         parseCertPEM(r) \/ statKeyFile(r) \/ loadFromFiles(r) \/ NewManager(r) \/ Rotate(r)
  PROVE  CertificateIInv'
<1>1. day' = day /\ files' = files /\ served' = served /\ \A g : Begun(g)' <=> Begun(g)
  BY DEF parseCertPEM, statKeyFile, loadFromFiles, NewManager, Rotate, Begun
<1>2. CASE parseCertPEM(r)
  <2>1. day \in Lifetime(files.cert) => Begun(files.cert)
    BY DEF CertificateIInv, Begun
  <2> QED BY <1>1, <1>2, <2>1 DEF parseCertPEM, CertificateIInv, Sound
<1>3. CASE statKeyFile(r)
  BY <1>1, <1>3 DEF statKeyFile, CertificateIInv, Sound
<1>4. CASE loadFromFiles(r)
  BY <1>1, <1>4 DEF loadFromFiles, publicKeysMatch, CertificateIInv, Sound
<1>5. CASE NewManager(r) \/ Rotate(r)
  <2>1. reloader' = [reloader EXCEPT ![r] = "idle"] /\ pair' = pair
    BY <1>5 DEF NewManager, Rotate
  <2>2. manager' = manager \/ installs(r)
    BY <1>5 DEF NewManager, Rotate
  <2>3. reloader[r] = "loaded"
    BY <1>5 DEF NewManager, Rotate
  <2>4. Sound(manager)'
    BY <1>1, <2>2, <2>3 DEF installs, CertificateIInv, Sound
  <2> QED BY <1>1, <2>1, <2>4 DEF CertificateIInv, Sound
<1> QED BY <1>2, <1>3, <1>4, <1>5

(* However deployments, reloads and handshakes interleave, no handshake is *)
(* given a certificate with another one's key or chain, or one whose       *)
(* lifetime has not begun, although the two files are never replaced or    *)
(* read together.                                                          *)
THEOREM CertificateSoundHolds == CertificateSpec => []CertificateSound
<1>1. CertificateInit => CertificateIInv
  BY DEF CertificateInit, CertificateIInv, Sound
<1>2. CertificateIInv /\ [CertificateNext]_certVars => CertificateIInv'
  <2> SUFFICES ASSUME CertificateIInv, [CertificateNext]_certVars PROVE CertificateIInv'
    OBVIOUS
  <2>1. CASE ClockTick
    <3>1. \A g : Begun(g) => Begun(g)'
      BY <2>1 DEF ClockTick, Begun, CertificateIInv
    <3> QED BY <2>1, <3>1 DEF ClockTick, CertificateIInv, Sound
  <2>2. CASE writesCert \/ writesKey \/ fixesMode
    <3>1. UNCHANGED <<day, manager, reloader, pair, served>> /\ \A g : Begun(g)' <=> Begun(g)
      BY <2>2 DEF writesCert, writesKey, fixesMode, Begun
    <3>2. files' \in [cert : Int, key : Int, safe : BOOLEAN]
      <4>1. files.cert + 1 \in Int /\ files.key + 1 \in Int
        BY DEF CertificateIInv
      <4> QED BY <2>2, <4>1 DEF writesCert, writesKey, fixesMode, CertificateIInv
    <3> QED BY <3>1, <3>2 DEF CertificateIInv, Sound
  <2>3. CASE TLSCertificate
    BY <2>3 DEF TLSCertificate, CertificateIInv, Sound, Begun
  <2>4. CASE UNCHANGED certVars
    BY <2>4 DEF certVars, CertificateIInv, Sound, Begun
  <2> QED BY <2>1, <2>2, <2>3, <2>4, Reloaded DEF CertificateNext
<1>3. CertificateIInv => CertificateSound
  BY DEF CertificateIInv, CertificateSound, Sound, Begun
<1> QED BY <1>1, <1>2, <1>3, PTL DEF CertificateSpec

-----------------------------------------------------------------------------
(* The counters: a tenant none of whose failures was folded into the       *)
(* shared bucket has its own counter, equal to its streak, or no failure.  *)
CountersInv ==
    /\ Tracked \subseteq Keys
    /\ \A k \in Tracked : listPendingFailureCounts[k] \in Nat
    /\ streak \in [Keys -> Nat]
    /\ IsFiniteSet(Tracked) /\ CountersBounded
    /\ \A t \in Tenants \ folded :
         IF t \in Tracked THEN listPendingFailureCounts[t] = streak[t] ELSE streak[t] = 0
    /\ RepeatedFailuresLogged

LEMMA CountersInitially == CountersInit => CountersInv
<1> SUFFICES ASSUME CountersInit PROVE CountersInv
    OBVIOUS
<1>1. Tracked = {Fallback} /\ listPendingFailureCounts[Fallback] = 0
    BY DEF CountersInit, Tracked
<1>2. IsFiniteSet(Tracked) /\ Cardinality(Tracked) = 1
    BY <1>1, FS_Singleton
<1> QED
    BY <1>1, <1>2, CountersAssumption
       DEF CountersInit, CountersInv, CountersBounded, RepeatedFailuresLogged, Keys

LEMMA CountersInductive == CountersInv /\ [CountersNext]_counterVars => CountersInv'
<1> SUFFICES ASSUME CountersInv, [CountersNext]_counterVars PROVE CountersInv'
    OBVIOUS
<1>a. Fallback \notin Tenants /\ MaxTracked \in Nat \ {0} /\ Threshold \in Nat \ {0} /\ MaxCount \in Nat
    BY CountersAssumption
<1>1. ASSUME NEW t \in Keys, ListFails(t) PROVE CountersInv'
    <2> DEFINE k == Bucket(t)
    <2>1. k = Fallback \/ (k = t /\ (t \in Tracked \/ Cardinality(Tracked) < MaxTracked))
        BY <1>a, FS_CardinalityType DEF Bucket, CountersInv
    <2>2. Count(k) \in Nat
        BY DEF Count, CountersInv
    <2>3. /\ Tracked' = Tracked \cup {k}
          /\ listPendingFailureCounts'[k] = Count(k) + 1
          /\ \A j \in Tracked \ {k} : listPendingFailureCounts'[j] = listPendingFailureCounts[j]
        BY <1>1 DEF ListFails, SetTo, Tracked
    <2>4. IsFiniteSet(Tracked')
        BY <2>3, FS_AddElement DEF CountersInv
    <2>5. CountersBounded'
        <3>1. CASE k \in Tracked
            <4>1. Tracked \cup {k} = Tracked
                BY <3>1
            <4> QED
                BY <4>1, <2>3 DEF CountersInv, CountersBounded
        <3>2. CASE k \notin Tracked
            <4>1. Cardinality(Tracked) < MaxTracked
                BY <3>2, <2>1 DEF CountersInv, CountersBounded
            <4>2. Cardinality(Tracked \cup {k}) = Cardinality(Tracked) + 1
                BY <3>2, FS_AddElement DEF CountersInv
            <4> QED
                BY <4>1, <4>2, <2>3, <1>a, FS_CardinalityType DEF CountersInv, CountersBounded
        <3> QED
            BY <3>1, <3>2
    <2>6. /\ streak' = [streak EXCEPT ![t] = @ + 1]
          /\ logged' = IF Logs(Count(k) + 1) THEN logged \cup {t} ELSE logged
          /\ folded' = IF k = Fallback THEN folded \cup {t} ELSE folded
        BY <1>1 DEF ListFails
    <2>7. streak' \in [Keys -> Nat] /\ \A j \in Keys : streak'[j] = IF j = t THEN streak[t] + 1 ELSE streak[j]
        BY <2>6 DEF CountersInv
    <2>8. ASSUME NEW j \in Tenants, j \notin folded'
          PROVE  /\ IF j \in Tracked' THEN listPendingFailureCounts'[j] = streak'[j] ELSE streak'[j] = 0
                 /\ streak'[j] >= Threshold => j \in logged'
        <3>1. j \notin folded /\ (k = Fallback => j # t)
            BY <2>6, <2>8
        <3>2. CASE j = t
            <4>1. k = t /\ Count(t) = streak[t]
                BY <2>1, <3>1, <3>2 DEF CountersInv, Count
            <4> QED
                BY <4>1, <2>3, <2>6, <2>7, <3>2 DEF Logs
        <3>3. CASE j # t
            <4>1. k # j
                BY <2>1, <3>3, <1>a
            <4>2. j \in Tracked' <=> j \in Tracked
                BY <4>1, <2>3
            <4>3. streak'[j] = streak[j] /\ (j \in logged => j \in logged')
                BY <3>3, <2>6, <2>7
            <4>4. j \in Tracked => listPendingFailureCounts'[j] = listPendingFailureCounts[j]
                BY <4>1, <2>3
            <4> QED
                BY <4>2, <4>3, <4>4, <3>1 DEF CountersInv, RepeatedFailuresLogged
        <3> QED
            BY <3>2, <3>3
    <2>9. Tracked' \subseteq Keys /\ \A j \in Tracked' : listPendingFailureCounts'[j] \in Nat
        BY <2>1, <2>2, <2>3 DEF CountersInv, Keys
    <2> QED
        BY <2>4, <2>5, <2>7, <2>8, <2>9 DEF CountersInv, RepeatedFailuresLogged
<1>2. ASSUME NEW t \in Keys, ListSucceeds(t) PROVE CountersInv'
    <2>1. streak' = [streak EXCEPT ![t] = 0] /\ logged' = logged \ {t} /\ folded' = folded \ {t}
        BY <1>2 DEF ListSucceeds
    <2>2. streak' \in [Keys -> Nat] /\ \A j \in Keys : streak'[j] = IF j = t THEN 0 ELSE streak[j]
        BY <2>1 DEF CountersInv
    <2>3. /\ t # Fallback => t \notin Tracked'
          /\ \A j \in Tenants \ {t} : /\ j \in Tracked' <=> j \in Tracked
                                      /\ j \in Tracked => listPendingFailureCounts'[j] = listPendingFailureCounts[j]
          /\ \A j \in Tracked' : listPendingFailureCounts'[j] \in Nat
        BY <1>2, <1>a DEF ListSucceeds, SetTo, Tracked, CountersInv
    <2>4. (t # Fallback /\ Tracked' = Tracked \ {t}) \/ Tracked' = Tracked \cup {Fallback}
        BY <1>2 DEF ListSucceeds, SetTo, Tracked
    <2>5. Tracked' \subseteq Tracked /\ Fallback \in Tracked'
        BY <2>4 DEF CountersInv, CountersBounded
    <2>6. IsFiniteSet(Tracked') /\ Cardinality(Tracked') <= Cardinality(Tracked)
        BY <2>5, FS_Subset DEF CountersInv
    <2>7. CountersBounded'
        BY <2>5, <2>6, FS_CardinalityType, <1>a DEF CountersInv, CountersBounded
    <2>8. Tracked' \subseteq Keys
        BY <2>5 DEF CountersInv
    <2>9. ASSUME NEW j \in Tenants, j \notin folded'
          PROVE  /\ IF j \in Tracked' THEN listPendingFailureCounts'[j] = streak'[j] ELSE streak'[j] = 0
                 /\ streak'[j] >= Threshold => j \in logged'
        <3>1. CASE j = t
            BY <3>1, <2>2, <2>3, <1>a DEF Keys
        <3>2. CASE j # t
            BY <3>2, <2>1, <2>2, <2>3, <2>9 DEF CountersInv, RepeatedFailuresLogged
        <3> QED
            BY <3>1, <3>2
    <2> QED
        BY <2>2, <2>3, <2>6, <2>7, <2>8, <2>9 DEF CountersInv, RepeatedFailuresLogged
<1>3. ASSUME UNCHANGED counterVars PROVE CountersInv'
    BY <1>3 DEF counterVars, CountersInv, CountersBounded, RepeatedFailuresLogged, Tracked
<1> QED
    BY <1>1, <1>2, <1>3 DEF CountersNext

(* However many tenants fail, the counters stay within their cap, and a    *)
(* tenant that keeps failing is logged (handleListPendingError,            *)
(* clearListPendingFailureCount).                                          *)
THEOREM CountersSoundHolds == CountersSpec => [](CountersBounded /\ RepeatedFailuresLogged)
<1>1. CountersInv => CountersBounded /\ RepeatedFailuresLogged
    BY DEF CountersInv
<1> QED
    BY <1>1, CountersInitially, CountersInductive, PTL DEF CountersSpec

-----------------------------------------------------------------------------
(* Division: quotient and remainder determine each other.                  *)
LEMMA DivMod ==
    ASSUME NEW n \in Nat \ {0}, NEW u \in Nat
    PROVE  u = n * (u \div n) + (u % n) /\ u % n \in 0 .. n - 1 /\ u \div n \in Nat
    OBVIOUS

LEMMA DivModUnique ==
    ASSUME NEW n \in Nat \ {0}, NEW q \in Nat, NEW r \in 0 .. n - 1
    PROVE  (n * q + r) \div n = q /\ (n * q + r) % n = r
    OBVIOUS

-----------------------------------------------------------------------------
(* Cron: the calendar.                                                     *)

LEMMA CalendarFacts ==
    /\ MinutesPerHour \in Nat \ {0} /\ HoursPerDay \in Nat \ {0} /\ DaysPerWeek \in Nat \ {0}
    /\ MonthsPerYear \in Nat \ {0} /\ MaxDayOfMonth \in Nat \ {0} /\ CycleDays \in Nat \ {0} /\ Cycle \in Nat \ {0}
    /\ MonthStarts \in [1 .. Cycle + 1 -> Nat] /\ MaxIterations \in Nat /\ Starts \subseteq Nat
    /\ MonthStarts[Cycle + 1] = CycleDays
    BY CronAssumption DEF Cycle, CycleDays

LEMMA MinutesOfDay == minutesPerDay \in Nat \ {0}
    BY CalendarFacts DEF minutesPerDay

(* The minutes from t to the end of its unit have t's number of units.     *)
LEMMA SameUnit ==
    ASSUME NEW n \in Nat \ {0}, NEW u \in Nat, NEW v \in Nat, u <= v, v < (u \div n + 1) * n
    PROVE  v \div n = u \div n
<1>1. u = n * (u \div n) + (u % n) /\ u % n \in 0 .. n - 1 /\ u \div n \in Nat
    BY DivMod
<1>2. PICK q \in Nat, m \in Nat : q = u \div n /\ m = n * q
    BY <1>1
<1>3. (q + 1) * n = m + n
    BY <1>2
<1>4. m <= v /\ v < m + n
    BY <1>1, <1>2, <1>3
<1>5. v - m \in 0 .. n - 1 /\ v = n * q + (v - m)
    BY <1>2, <1>4
<1>6. (n * q + (v - m)) \div n = q
    BY <1>5, DivModUnique
<1> QED
    BY <1>2, <1>5, <1>6

LEMMA UnitEnds ==
    ASSUME NEW n \in Nat \ {0}, NEW u \in Nat
    PROVE  (u \div n + 1) * n \in Nat /\ (u \div n + 1) * n > u
<1>1. u = n * (u \div n) + (u % n) /\ u % n \in 0 .. n - 1 /\ u \div n \in Nat
    BY DivMod
<1>2. PICK q \in Nat, m \in Nat : q = u \div n /\ m = n * q
    BY <1>1
<1>3. (q + 1) * n = m + n
    BY <1>2
<1> QED
    BY <1>1, <1>2, <1>3

InMonth(m, d) == MonthStarts[m] <= d /\ d < MonthStarts[m + 1]

LEMMA OneMonth ==
    ASSUME NEW d \in Nat, NEW m \in 1 .. Cycle, InMonth(m, d)
    PROVE  /\ d \in 0 .. CycleDays - 1
           /\ (CHOOSE k \in 1 .. Cycle : MonthStarts[k] <= d /\ d < MonthStarts[k + 1]) = m
<1>1. \A k \in 1 .. Cycle + 1 : MonthStarts[k] \in Nat
    BY CalendarFacts
<1>2. \A j, k \in 1 .. Cycle + 1 : j < k => MonthStarts[j] < MonthStarts[k]
    BY CronAssumption
<1>3. ASSUME NEW k \in 1 .. Cycle, InMonth(k, d) PROVE k = m
    <2>1. k + 1 \in 1 .. Cycle + 1 /\ m + 1 \in 1 .. Cycle + 1 /\ k \in 1 .. Cycle + 1 /\ m \in 1 .. Cycle + 1
        BY CalendarFacts
    <2>2. CASE k < m
        <3>1. k + 1 = m \/ k + 1 < m
            BY <2>2
        <3>2. MonthStarts[k + 1] <= MonthStarts[m]
            BY <1>1, <1>2, <2>1, <3>1
        <3> QED
            BY <1>1, <1>3, <2>1, <3>2 DEF InMonth
    <2>3. CASE m < k
        <3>1. m + 1 = k \/ m + 1 < k
            BY <2>3
        <3>2. MonthStarts[m + 1] <= MonthStarts[k]
            BY <1>1, <1>2, <2>1, <3>1
        <3> QED
            BY <1>1, <1>3, <2>1, <3>2 DEF InMonth
    <2> QED
        BY <2>2, <2>3, CalendarFacts
<1>4. d < CycleDays
    <2>1. m + 1 \in 1 .. Cycle + 1 /\ Cycle + 1 \in 1 .. Cycle + 1 /\ (m + 1 = Cycle + 1 \/ m + 1 < Cycle + 1)
        BY CalendarFacts
    <2>2. MonthStarts[m + 1] <= CycleDays
        BY <1>1, <1>2, <2>1, CalendarFacts
    <2> QED
        BY <1>1, <2>1, <2>2, CalendarFacts DEF InMonth
<1>5. \A k \in 1 .. Cycle : (MonthStarts[k] <= d /\ d < MonthStarts[k + 1]) <=> k = m
    BY <1>3 DEF InMonth
<1> QED
    BY <1>4, <1>5, CalendarFacts

LEMMA MonthOf ==
    ASSUME NEW t \in Nat
    PROVE  /\ dayNumber(t) \in Nat /\ dayOfCycle(t) \in 0 .. CycleDays - 1
           /\ monthOfCycle(t) \in 1 .. Cycle /\ InMonth(monthOfCycle(t), dayOfCycle(t))
           /\ Month(t) \in 1 .. MonthsPerYear /\ Day(t) \in 1 .. MaxDayOfMonth
           /\ Weekday(t) \in 0 .. DaysPerWeek - 1
<1>1. dayNumber(t) \in Nat
    BY MinutesOfDay DEF dayNumber
<1>2. dayOfCycle(t) \in 0 .. CycleDays - 1
    BY <1>1, CalendarFacts DEF dayOfCycle
<1>3. PICK m \in 1 .. Cycle : InMonth(m, dayOfCycle(t))
    BY <1>2, CronAssumption DEF InMonth
<1>4. monthOfCycle(t) = m
    BY <1>2, <1>3, OneMonth, CalendarFacts DEF monthOfCycle
<1>5. Month(t) \in 1 .. MonthsPerYear
    <2>1. (m - 1) % MonthsPerYear \in 0 .. MonthsPerYear - 1
        BY <1>3, CalendarFacts
    <2> QED
        BY <2>1, <1>4, CalendarFacts DEF Month
<1>6. Day(t) \in 1 .. MaxDayOfMonth
    <2>1. MonthStarts[m] \in Nat /\ MonthStarts[m + 1] \in Nat /\ MonthStarts[m + 1] - MonthStarts[m] <= MaxDayOfMonth
        BY <1>3, CalendarFacts, CronAssumption
    <2> QED
        BY <2>1, <1>2, <1>3, <1>4, CalendarFacts DEF Day, InMonth
<1>7. Weekday(t) \in 0 .. DaysPerWeek - 1
    BY <1>1, CalendarFacts DEF Weekday
<1> QED
    BY <1>1, <1>2, <1>3, <1>4, <1>5, <1>6, <1>7

LEMMA HourMinute ==
    ASSUME NEW t \in Nat
    PROVE  Hour(t) \in 0 .. HoursPerDay - 1 /\ Minute(t) \in 0 .. MinutesPerHour - 1
<1>1. t \div MinutesPerHour \in Nat
    BY CalendarFacts, DivMod
<1> QED
    BY <1>1, CalendarFacts DEF Hour, Minute

(* The days from t to the end of its month are in that month.              *)
LEMMA SameMonth ==
    ASSUME NEW t \in Nat, NEW v \in Nat, t <= v, v < startOfNextMonth(t)
    PROVE  Month(v) = Month(t)
<1>1. PICK d \in Nat, x \in 0 .. CycleDays - 1, m \in 1 .. Cycle :
        d = dayNumber(t) /\ x = dayOfCycle(t) /\ m = monthOfCycle(t) /\ InMonth(m, x)
    BY MonthOf
<1>2. PICK e \in Nat : e = dayNumber(v)
    BY MonthOf
<1>3. MonthStarts[m] \in Nat /\ MonthStarts[m + 1] \in Nat
    BY CalendarFacts
<1>4. PICK q \in Nat, base \in Nat : base = CycleDays * q /\ d = base + x
    <2>1. d = CycleDays * (d \div CycleDays) + (d % CycleDays) /\ d \div CycleDays \in Nat
        BY CalendarFacts, DivMod
    <2>2. x = d % CycleDays
        BY <1>1 DEF dayOfCycle
    <2>3. \A p \in Nat : CycleDays * p \in Nat
        BY CalendarFacts
    <2> QED
        BY <2>1, <2>2, <2>3
<1>5. d <= e
    <2>1. PICK n \in Nat \ {0} : n = minutesPerDay
        BY MinutesOfDay
    <2>2. t \div n <= v \div n
        <3>1. t = n * (t \div n) + (t % n) /\ t % n \in 0 .. n - 1 /\ t \div n \in Nat
            BY DivMod
        <3>2. v = n * (v \div n) + (v % n) /\ v % n \in 0 .. n - 1 /\ v \div n \in Nat
            BY DivMod
        <3>3. PICK p \in Nat, r \in 0 .. n - 1, p2 \in Nat, r2 \in 0 .. n - 1 :
                p = t \div n /\ p2 = v \div n /\ t = n * p + r /\ v = n * p2 + r2
            BY <3>1, <3>2
        <3>4. ASSUME p2 < p PROVE FALSE
            <4>1. n * p2 + n <= n * p
                BY <3>4
            <4> QED
                BY <3>3, <4>1
        <3> QED
            BY <3>3, <3>4
    <2> QED
        BY <1>1, <1>2, <2>1, <2>2 DEF dayNumber
<1>6. e < base + MonthStarts[m + 1]
    <2>1. PICK n \in Nat \ {0} : n = minutesPerDay
        BY MinutesOfDay
    <2>2. v < (d - x + MonthStarts[m + 1]) * n
        BY <1>1, <2>1 DEF startOfNextMonth
    <2>3. PICK z \in Nat : z = base + MonthStarts[m + 1]
        BY <1>3
    <2>4. v < z * n
        BY <1>3, <1>4, <2>2, <2>3
    <2>5. v = n * e + (v % n) /\ v % n \in 0 .. n - 1
        BY <1>2, <2>1, DivMod DEF dayNumber
    <2>6. ASSUME z <= e PROVE FALSE
        <3>1. z * n <= n * e
            BY <2>6
        <3> QED
            BY <2>4, <2>5, <3>1
    <2> QED
        BY <2>3, <2>6
<1>7. PICK y \in Nat : e = base + y /\ InMonth(m, y)
    <2>1. e - base \in Nat /\ MonthStarts[m] <= e - base /\ e - base < MonthStarts[m + 1]
        BY <1>1, <1>3, <1>4, <1>5, <1>6 DEF InMonth
    <2> QED
        BY <2>1, <1>4 DEF InMonth
<1>8. y \in 0 .. CycleDays - 1 /\ (CHOOSE k \in 1 .. Cycle : MonthStarts[k] <= y /\ y < MonthStarts[k + 1]) = m
    BY <1>7, OneMonth
<1>9. dayOfCycle(v) = y
    <2>1. (CycleDays * q + y) % CycleDays = y
        BY <1>8, CalendarFacts, DivModUnique
    <2> QED
        BY <1>2, <1>4, <1>7, <2>1 DEF dayOfCycle
<1>10. monthOfCycle(v) = m
    BY <1>8, <1>9 DEF monthOfCycle
<1> QED
    BY <1>1, <1>10 DEF Month

LEMMA MonthEnds ==
    ASSUME NEW t \in Nat
    PROVE  startOfNextMonth(t) \in Nat /\ startOfNextMonth(t) > t
<1>1. PICK d \in Nat, x \in 0 .. CycleDays - 1, m \in 1 .. Cycle :
        d = dayNumber(t) /\ x = dayOfCycle(t) /\ m = monthOfCycle(t) /\ InMonth(m, x)
    BY MonthOf
<1>2. PICK n \in Nat \ {0} : n = minutesPerDay
    BY MinutesOfDay
<1>3. MonthStarts[m + 1] \in Nat /\ MonthStarts[m + 1] > x
    BY <1>1, CalendarFacts DEF InMonth
<1>4. x <= d
    <2>1. x = d % CycleDays /\ CycleDays \in Nat \ {0}
        BY <1>1, CalendarFacts DEF dayOfCycle
    <2>2. d = CycleDays * (d \div CycleDays) + x /\ d \div CycleDays \in Nat
        BY <2>1, DivMod
    <2>3. \A p \in Nat : CycleDays * p \in Nat
        BY <2>1
    <2> QED
        BY <2>2, <2>3
<1>5. PICK z \in Nat : z = d - x + MonthStarts[m + 1] /\ z >= d + 1
    BY <1>3, <1>4
<1>6. z * n \in Nat /\ z * n >= (d + 1) * n
    BY <1>5
<1>7. (d + 1) * n \in Nat /\ (d + 1) * n > t
    BY <1>1, <1>2, UnitEnds DEF dayNumber
<1>8. startOfNextMonth(t) = z * n
    BY <1>1, <1>2, <1>5 DEF startOfNextMonth
<1> QED
    BY <1>6, <1>7, <1>8

-----------------------------------------------------------------------------
(* Cron: what Parse makes of a field.                                      *)

Parts == [kind : {"star", "value", "range"}, lo : Nat, hi : Nat, stepped : BOOLEAN, step : Nat]

(* What a part of a field that starts at lo says of a value.               *)
partSays(p, lo, v) ==
    \/ p.kind = "star" /\ (p.stepped => (v - lo) % p.step = 0)
    \/ p.kind = "range" /\ v \in p.lo .. p.hi /\ (p.stepped => (v - p.lo) % p.step = 0)
    \/ p.kind = "value" /\ v = p.lo
    \/ p.kind = "value" /\ p.stepped /\ v > p.lo /\ (v - p.lo) % p.step = 0

LEMMA StepOne == \A v \in Int : v % 1 = 0
    OBVIOUS

LEMMA StepZero == \A k \in Nat \ {0} : 0 % k = 0
    OBVIOUS

LEMMA PartParsed ==
    ASSUME NEW p \in Parts, NEW lo \in Nat, NEW hi \in Nat, parsePart(p, lo, hi).ok
    PROVE  /\ parsePart(p, lo, hi).vals \subseteq lo .. hi
           /\ \A v \in lo .. hi : v \in parsePart(p, lo, hi).vals <=> partSays(p, lo, v)
<1>1. /\ p.kind \in {"star", "value", "range"} /\ p.lo \in Nat /\ p.hi \in Nat
      /\ p.stepped \in BOOLEAN /\ p.step \in Nat
    BY DEF Parts
<1>2. PICK first : first = IF p.kind = "star" THEN lo ELSE p.lo
    OBVIOUS
<1>3. PICK last : last = CASE p.kind = "star" -> hi
                           [] p.kind = "range" -> p.hi
                           [] OTHER -> IF p.stepped THEN hi ELSE p.lo
    OBVIOUS
<1>4. PICK step : step = IF p.stepped THEN p.step ELSE 1
    OBVIOUS
<1>5. /\ p.stepped => p.step > 0
      /\ p.kind = "range" => p.lo >= lo /\ p.hi <= hi /\ p.lo <= p.hi
      /\ p.kind = "value" => p.lo \in lo .. hi
      /\ parsePart(p, lo, hi).vals = steps(first, last, step)
    BY <1>1, <1>2, <1>3, <1>4 DEF parsePart, parseStep, parseRange
<1>6. parsePart(p, lo, hi).vals = {v \in first .. last : (v - first) % step = 0}
    BY <1>5 DEF steps
<1>7. CASE p.kind = "star"
    <2>1. first = lo /\ last = hi
        BY <1>2, <1>3, <1>7
    <2>2. \A v \in lo .. hi : partSays(p, lo, v) <=> (p.stepped => (v - lo) % p.step = 0)
        BY <1>7 DEF partSays
    <2> QED
        BY <1>4, <1>6, <2>1, <2>2, StepOne
<1>8. CASE p.kind = "range"
    <2>1. first = p.lo /\ last = p.hi
        BY <1>2, <1>3, <1>8
    <2>2. \A v \in lo .. hi : partSays(p, lo, v) <=> v \in p.lo .. p.hi /\ (p.stepped => (v - p.lo) % p.step = 0)
        BY <1>8 DEF partSays
    <2> QED
        BY <1>1, <1>4, <1>5, <1>6, <1>8, <2>1, <2>2, StepOne
<1>9. CASE p.kind = "value" /\ p.stepped
    <2>1. first = p.lo /\ last = hi /\ step = p.step
        BY <1>2, <1>3, <1>4, <1>9
    <2>2. \A v \in lo .. hi : partSays(p, lo, v) <=> v = p.lo \/ (v > p.lo /\ (v - p.lo) % p.step = 0)
        BY <1>9 DEF partSays
    <2>3. (p.lo - p.lo) % p.step = 0
        BY <1>1, <1>5, <1>9, StepZero
    <2> QED
        BY <1>1, <1>5, <1>6, <1>9, <2>1, <2>2, <2>3
<1>10. CASE p.kind = "value" /\ ~p.stepped
    <2>1. first = p.lo /\ last = p.lo /\ step = 1
        BY <1>2, <1>3, <1>4, <1>10
    <2>2. \A v \in lo .. hi : partSays(p, lo, v) <=> v = p.lo
        BY <1>10 DEF partSays
    <2> QED
        BY <1>1, <1>5, <1>6, <1>10, <2>1, <2>2, StepOne
<1> QED
    BY <1>1, <1>7, <1>8, <1>9, <1>10

LEMMA FieldParsed ==
    ASSUME NEW f \in SUBSET Parts, NEW lo \in Nat, NEW hi \in Nat, parseField(f, lo, hi).ok
    PROVE  /\ parseField(f, lo, hi).vals \subseteq lo .. hi
           /\ \A v \in lo .. hi : v \in parseField(f, lo, hi).vals <=> \E p \in f : partSays(p, lo, v)
<1>1. \A p \in f : parsePart(p, lo, hi).ok
    BY DEF parseField
<1>2. \A v : v \in parseField(f, lo, hi).vals <=> \E p \in f : v \in parsePart(p, lo, hi).vals
    BY DEF parseField, deduplicate
<1>3. \A p \in f : /\ parsePart(p, lo, hi).vals \subseteq lo .. hi
                   /\ \A v \in lo .. hi : v \in parsePart(p, lo, hi).vals <=> partSays(p, lo, v)
    BY <1>1, PartParsed
<1> QED
    BY <1>2, <1>3

LEMMA SaysFromZero ==
    ASSUME NEW f \in SUBSET Parts, NEW v \in Nat
    PROVE  says(f, v) <=> \E p \in f : partSays(p, 0, v)
<1>1. v - 0 = v
    OBVIOUS
<1> QED
    BY <1>1 DEF says, partSays

LEMMA SaysFromOne ==
    ASSUME NEW f \in SUBSET Parts, NEW v \in Nat
    PROVE  saysFromOne(f, v) <=> \E p \in f : partSays(p, 1, v)
<1>1. ASSUME NEW p \in f
      PROVE  (IF p.kind = "star" THEN p.stepped => (v - 1) % p.step = 0 ELSE says({p}, v)) <=> partSays(p, 1, v)
    <2>1. CASE p.kind = "star"
        BY <2>1 DEF partSays
    <2>2. CASE p.kind # "star"
        BY <2>2 DEF partSays, says
    <2> QED
        BY <2>1, <2>2
<1> QED
    BY <1>1 DEF saysFromOne

LEMMA FieldSays ==
    ASSUME NEW f \in SUBSET Parts, NEW hi \in Nat, NEW r, r = parseField(f, 0, hi), r.ok
    PROVE  r.vals \subseteq 0 .. hi /\ \A v \in 0 .. hi : v \in r.vals <=> says(f, v)
<1>1. r.vals \subseteq 0 .. hi /\ \A v \in 0 .. hi : v \in r.vals <=> \E p \in f : partSays(p, 0, v)
    BY FieldParsed
<1> QED
    BY <1>1, SaysFromZero

LEMMA FieldSaysFromOne ==
    ASSUME NEW f \in SUBSET Parts, NEW hi \in Nat, NEW r, r = parseField(f, 1, hi), r.ok
    PROVE  \A v \in 1 .. hi : v \in r.vals <=> saysFromOne(f, v)
<1>1. \A v \in 1 .. hi : v \in r.vals <=> \E p \in f : partSays(p, 1, v)
    BY FieldParsed
<1> QED
    BY <1>1, SaysFromOne

LEMMA WeekdaysParsed ==
    ASSUME NEW vals, vals \subseteq 0 .. DaysPerWeek
    PROVE  \A w \in 0 .. DaysPerWeek - 1 : w \in normalizeDOW(vals) <=> w \in vals \/ (w = 0 /\ DaysPerWeek \in vals)
<1>1. PICK n \in Nat \ {0} : n = DaysPerWeek
    BY CalendarFacts
<1>2. \A v \in 0 .. n - 1 : v % n = v
    OBVIOUS
<1>3. n % n = 0
    <2>1. (n * 1 + 0) % n = 0
        BY DivModUnique
    <2> QED
        BY <2>1
<1>4. \A v \in 0 .. n : v = n \/ v \in 0 .. n - 1
    OBVIOUS
<1> QED
    BY <1>1, <1>2, <1>3, <1>4 DEF normalizeDOW

(* The parsed schedule admits what the expression says.                    *)
ScheduleSays ==
    /\ \A v \in 0 .. MinutesPerHour - 1 : v \in sched.minutes <=> says(expr.minute, v)
    /\ \A v \in 0 .. HoursPerDay - 1 : v \in sched.hours <=> says(expr.hour, v)
    /\ \A v \in 1 .. MaxDayOfMonth : v \in sched.doms <=> saysFromOne(expr.dom, v)
    /\ \A v \in 1 .. MonthsPerYear : v \in sched.months <=> saysFromOne(expr.month, v)
    /\ \A v \in 0 .. DaysPerWeek - 1 :
         v \in sched.dows <=> says(expr.dow, v) \/ (v = 0 /\ says(expr.dow, DaysPerWeek))
    /\ sched.domIsWild = isWildcard(expr.dom) /\ sched.dowIsWild = isWildcard(expr.dow)

LEMMA ParsedSays ==
    ASSUME expr \in Expressions, Parse, outcome' = "searching"
    PROVE  ScheduleSays'
<1>1. PICK minutes, hours, doms, months, dows :
        /\ minutes = parseField(expr.minute, 0, MinutesPerHour - 1)
        /\ hours = parseField(expr.hour, 0, HoursPerDay - 1)
        /\ doms = parseField(expr.dom, 1, MaxDayOfMonth)
        /\ months = parseField(expr.month, 1, MonthsPerYear)
        /\ dows = parseField(expr.dow, 0, DaysPerWeek)
    OBVIOUS
<1>2. /\ minutes.ok /\ hours.ok /\ doms.ok /\ months.ok /\ dows.ok
      /\ sched' = [minutes |-> minutes.vals, hours |-> hours.vals,
                   doms |-> doms.vals, months |-> months.vals,
                   dows |-> normalizeDOW(dows.vals),
                   domIsWild |-> isWildcard(expr.dom),
                   dowIsWild |-> isWildcard(expr.dow)]
      /\ expr' = expr
    BY <1>1 DEF Parse
<1>3. /\ expr.minute \in SUBSET Parts /\ expr.hour \in SUBSET Parts /\ expr.dom \in SUBSET Parts
      /\ expr.month \in SUBSET Parts /\ expr.dow \in SUBSET Parts
    BY CronAssumption DEF Parts
<1>4. /\ MinutesPerHour - 1 \in Nat /\ HoursPerDay - 1 \in Nat /\ MaxDayOfMonth \in Nat
       /\ MonthsPerYear \in Nat /\ DaysPerWeek \in Nat
    BY CalendarFacts
<1>5. \A v \in 0 .. MinutesPerHour - 1 : v \in minutes.vals <=> says(expr.minute, v)
    <2>1. PICK hi \in Nat : hi = MinutesPerHour - 1
        BY <1>4
    <2>2. minutes = parseField(expr.minute, 0, hi) /\ minutes.ok
        BY <1>1, <1>2, <2>1
    <2>3. \A v \in 0 .. hi : v \in minutes.vals <=> says(expr.minute, v)
        BY <1>3, <2>2, FieldSays
    <2> QED
        BY <2>1, <2>3
<1>6. \A v \in 0 .. HoursPerDay - 1 : v \in hours.vals <=> says(expr.hour, v)
    <2>1. PICK hi \in Nat : hi = HoursPerDay - 1
        BY <1>4
    <2>2. hours = parseField(expr.hour, 0, hi) /\ hours.ok
        BY <1>1, <1>2, <2>1
    <2>3. \A v \in 0 .. hi : v \in hours.vals <=> says(expr.hour, v)
        BY <1>3, <2>2, FieldSays
    <2> QED
        BY <2>1, <2>3
<1>7. \A v \in 1 .. MaxDayOfMonth : v \in doms.vals <=> saysFromOne(expr.dom, v)
    BY <1>1, <1>2, <1>3, <1>4, FieldSaysFromOne
<1>8. \A v \in 1 .. MonthsPerYear : v \in months.vals <=> saysFromOne(expr.month, v)
    BY <1>1, <1>2, <1>3, <1>4, FieldSaysFromOne
<1>9. dows.vals \subseteq 0 .. DaysPerWeek /\ \A v \in 0 .. DaysPerWeek : v \in dows.vals <=> says(expr.dow, v)
    BY <1>1, <1>2, <1>3, <1>4, FieldSays
<1>10. \A v \in 0 .. DaysPerWeek - 1 :
         v \in normalizeDOW(dows.vals) <=> says(expr.dow, v) \/ (v = 0 /\ says(expr.dow, DaysPerWeek))
    BY <1>9, WeekdaysParsed, CalendarFacts
<1> QED
    BY <1>2, <1>5, <1>6, <1>7, <1>8, <1>10 DEF ScheduleSays

(* The search tests a minute as the expression does.                       *)
LEMMA MatchesAreDue ==
    ASSUME ScheduleSays, NEW t \in Nat
    PROVE  /\ monthMatches(t) <=> saysFromOne(expr.month, Month(t))
           /\ matchDay(t) <=> saysDay(t)
           /\ hourMatches(t) <=> says(expr.hour, Hour(t))
           /\ minuteMatches(t) <=> says(expr.minute, Minute(t))
<1>1. /\ Month(t) \in 1 .. MonthsPerYear /\ Day(t) \in 1 .. MaxDayOfMonth /\ Weekday(t) \in 0 .. DaysPerWeek - 1
      /\ Hour(t) \in 0 .. HoursPerDay - 1 /\ Minute(t) \in 0 .. MinutesPerHour - 1
    BY MonthOf, HourMinute
<1>2. /\ Day(t) \in sched.doms <=> saysFromOne(expr.dom, Day(t))
      /\ Weekday(t) \in sched.dows <=> says(expr.dow, Weekday(t)) \/ (Weekday(t) = 0 /\ says(expr.dow, DaysPerWeek))
    BY <1>1 DEF ScheduleSays
<1>3. sched.domIsWild = isWildcard(expr.dom) /\ sched.dowIsWild = isWildcard(expr.dow)
    BY DEF ScheduleSays
<1>4. matchDay(t) <=> saysDay(t)
    BY <1>2, <1>3 DEF matchDay, saysDay
<1> QED
    BY <1>1, <1>4 DEF ScheduleSays, monthMatches, hourMatches, minuteMatches

-----------------------------------------------------------------------------
(* Cron: the search.  Every iteration moves on by a minute at least.       *)
CronInv ==
    /\ expr \in Expressions /\ from \in Nat /\ cand \in Nat
    /\ iterations \in 0 .. MaxIterations
    /\ outcome \in {"parsing", "invalid", "searching", "found", "nomatch"}
    /\ outcome = "parsing" => iterations = 0
    /\ outcome = "searching" => ScheduleSays /\ cand >= from + 1 + iterations
    /\ NextIsTheFirstDue

LEMMA CronInitially == CronInit => CronInv
    BY CalendarFacts DEF CronInit, CronInv, NextIsTheFirstDue

LEMMA DueUnchanged == ASSUME expr' = expr, NEW t PROVE Due(t)' <=> Due(t)
    BY DEF Due, saysDay

(* A jump over minutes none of which is due.                               *)
LEMMA JumpIsSafe ==
    ASSUME CronInv, outcome = "searching", NEW to \in Nat, to > cand, \A t \in cand .. to - 1 : ~Due(t), advance(to)
    PROVE  CronInv'
<1>1. /\ iterations < MaxIterations /\ cand' = to /\ iterations' = iterations + 1
      /\ expr' = expr /\ from' = from /\ sched' = sched /\ outcome' = outcome
    BY DEF advance
<1>2. ScheduleSays'
    BY <1>1 DEF CronInv, ScheduleSays
<1>3. from \in Nat /\ cand \in Nat /\ iterations \in Nat /\ cand >= from + 1 + iterations /\ cand > from
    BY DEF CronInv, NextIsTheFirstDue
<1>4. \A t \in from + 1 .. cand - 1 : ~Due(t)
    BY DEF CronInv, NextIsTheFirstDue
<1>5. ASSUME NEW t \in from + 1 .. to - 1 PROVE ~Due(t)'
    <2>1. t \in from + 1 .. cand - 1 \/ t \in cand .. to - 1
        BY <1>3
    <2> QED
        BY <2>1, <1>1, <1>4, DueUnchanged
<1>6. NextIsTheFirstDue'
    BY <1>1, <1>3, <1>5 DEF NextIsTheFirstDue
<1> QED
    BY <1>1, <1>2, <1>3, <1>6, CalendarFacts DEF CronInv

LEMMA CronInductive == CronInv /\ [CronNext]_cronVars => CronInv'
<1> SUFFICES ASSUME CronInv, [CronNext]_cronVars PROVE CronInv'
    OBVIOUS
<1>1. CASE Parse
    <2>1. /\ outcome = "parsing" /\ expr' = expr /\ from' = from /\ iterations' = iterations
          /\ \/ outcome' = "searching" /\ cand' = from + 1
             \/ outcome' = "invalid" /\ cand' = cand
        BY <1>1 DEF Parse
    <2>2. outcome' = "searching" => ScheduleSays'
        BY <1>1, ParsedSays DEF CronInv
    <2>3. from \in Nat /\ iterations = 0
        BY <2>1 DEF CronInv
    <2>4. outcome' = "searching" => from' + 1 .. cand' - 1 = {} /\ cand' > from'
        BY <2>1, <2>3
    <2>5. NextIsTheFirstDue'
        BY <2>1, <2>4 DEF NextIsTheFirstDue
    <2> QED
        BY <2>1, <2>2, <2>3, <2>5 DEF CronInv
<1>2. cand \in Nat /\ (outcome = "searching" => ScheduleSays)
    BY DEF CronInv
<1>3. CASE skipMonth
    <2>1. outcome = "searching" /\ ~monthMatches(cand) /\ advance(startOfNextMonth(cand))
        BY <1>3 DEF skipMonth
    <2>2. startOfNextMonth(cand) \in Nat /\ startOfNextMonth(cand) > cand
        BY <1>2, MonthEnds
    <2>3. ASSUME NEW t \in cand .. startOfNextMonth(cand) - 1 PROVE ~Due(t)
        <3>1. t \in Nat /\ cand <= t /\ t < startOfNextMonth(cand)
            BY <1>2, <2>2
        <3>2. Month(t) = Month(cand)
            BY <1>2, <3>1, SameMonth
        <3>3. ~saysFromOne(expr.month, Month(cand))
            BY <1>2, <2>1, MatchesAreDue
        <3> QED
            BY <3>2, <3>3 DEF Due
    <2> QED
        BY <2>1, <2>2, <2>3, JumpIsSafe
<1>4. CASE skipDay
    <2>1. outcome = "searching" /\ ~matchDay(cand) /\ advance(startOfNextDay(cand))
        BY <1>4 DEF skipDay
    <2>2. startOfNextDay(cand) \in Nat /\ startOfNextDay(cand) > cand
        BY <1>2, MinutesOfDay, UnitEnds DEF startOfNextDay, dayNumber
    <2>3. ASSUME NEW t \in cand .. startOfNextDay(cand) - 1 PROVE ~Due(t)
        <3>1. t \in Nat /\ cand <= t /\ t < startOfNextDay(cand)
            BY <1>2, <2>2
        <3>2. dayNumber(t) = dayNumber(cand)
            BY <1>2, <3>1, SameUnit, MinutesOfDay DEF startOfNextDay, dayNumber
        <3>3. Day(t) = Day(cand) /\ Weekday(t) = Weekday(cand)
            BY <3>2 DEF Day, Weekday, monthOfCycle, dayOfCycle
        <3>4. ~saysDay(cand)
            BY <1>2, <2>1, MatchesAreDue
        <3> QED
            BY <3>3, <3>4 DEF Due, saysDay
    <2> QED
        BY <2>1, <2>2, <2>3, JumpIsSafe
<1>5. CASE skipHour
    <2>1. outcome = "searching" /\ ~hourMatches(cand) /\ advance(startOfNextHour(cand))
        BY <1>5 DEF skipHour
    <2>2. startOfNextHour(cand) \in Nat /\ startOfNextHour(cand) > cand
        BY <1>2, CalendarFacts, UnitEnds DEF startOfNextHour
    <2>3. ASSUME NEW t \in cand .. startOfNextHour(cand) - 1 PROVE ~Due(t)
        <3>1. t \in Nat /\ cand <= t /\ t < startOfNextHour(cand)
            BY <1>2, <2>2
        <3>2. Hour(t) = Hour(cand)
            BY <1>2, <3>1, SameUnit, CalendarFacts DEF startOfNextHour, Hour
        <3>3. ~says(expr.hour, Hour(cand))
            BY <1>2, <2>1, MatchesAreDue
        <3> QED
            BY <3>2, <3>3 DEF Due
    <2> QED
        BY <2>1, <2>2, <2>3, JumpIsSafe
<1>6. CASE skipMinute
    <2>1. outcome = "searching" /\ ~minuteMatches(cand) /\ advance(cand + 1)
        BY <1>6 DEF skipMinute
    <2>2. \A t \in cand .. (cand + 1) - 1 : t = cand
        BY <1>2
    <2>3. ~Due(cand)
        BY <1>2, <2>1, MatchesAreDue DEF Due
    <2> QED
        BY <1>2, <2>1, <2>2, <2>3, JumpIsSafe
<1>7. CASE found
    <2>1. /\ outcome = "searching" /\ outcome' = "found"
          /\ monthMatches(cand) /\ matchDay(cand) /\ hourMatches(cand) /\ minuteMatches(cand)
          /\ expr' = expr /\ from' = from /\ cand' = cand /\ iterations' = iterations
        BY <1>7 DEF found
    <2>2. Due(cand)
        BY <1>2, <2>1, MatchesAreDue DEF Due
    <2>3. \A t : Due(t)' <=> Due(t)
        BY <2>1, DueUnchanged
    <2>4. NextIsTheFirstDue'
        <3>1. Due(cand)'
            BY <2>1, <2>2 DEF Due, saysDay
        <3> QED
            BY <2>1, <2>3, <3>1 DEF CronInv, NextIsTheFirstDue
    <2> QED
        BY <2>1, <2>4 DEF CronInv
<1>8. CASE exhausted
    <2>1. /\ outcome = "searching" /\ outcome' = "nomatch" /\ iterations = MaxIterations
          /\ expr' = expr /\ from' = from /\ cand' = cand /\ iterations' = iterations
        BY <1>8 DEF exhausted
    <2>2. \A t : Due(t)' <=> Due(t)
        BY <2>1, DueUnchanged
    <2>3. from \in Nat /\ MaxIterations \in Nat /\ cand >= from + 1 + MaxIterations
        BY <2>1, CalendarFacts DEF CronInv
    <2>4. \A t \in from + 1 .. from + MaxIterations : t \in from + 1 .. cand - 1
        BY <1>2, <2>3
    <2>5. NextIsTheFirstDue'
        BY <2>1, <2>2, <2>4 DEF CronInv, NextIsTheFirstDue
    <2> QED
        BY <2>1, <2>5 DEF CronInv
<1>9. CASE UNCHANGED cronVars
    <2>1. \A t : Due(t)' <=> Due(t)
        BY <1>9, DueUnchanged DEF cronVars
    <2>2. NextIsTheFirstDue'
        <3>1. Due(cand)' <=> Due(cand)
            BY <1>9 DEF cronVars, Due, saysDay
        <3> QED
            BY <1>9, <2>1, <3>1 DEF cronVars, CronInv, NextIsTheFirstDue
    <2> QED
        BY <1>9, <2>2 DEF cronVars, CronInv, ScheduleSays
<1> QED
    BY <1>1, <1>3, <1>4, <1>5, <1>6, <1>7, <1>8, <1>9 DEF CronNext

(* Next returns the first minute the expression admits, for every calendar *)
(* and every expression: no jump passes over a due minute (Parse, Next).   *)
THEOREM NextIsTheFirstDueHolds == CronSpec => []NextIsTheFirstDue
<1>1. CronInv => NextIsTheFirstDue
    BY DEF CronInv
<1> QED
    BY <1>1, CronInitially, CronInductive, PTL DEF CronSpec

-----------------------------------------------------------------------------
(* The dispatcher's cycle.                                                 *)
USE DEF Scopes, DispatchInterval, ColdDispatchInterval, RetentionSweepInterval, FallbackScope, Swept

SchedulerTypes ==
    /\ cfg \in Configs /\ time \in Nat \ {0} /\ now \in Nat /\ now <= time /\ tenantTurn \in Nat
    /\ dpc \in {"idle", "visit", "dispatch", "fallback", "list"}
    /\ queue \in Seq(Scopes) /\ listed \in Seq(Scopes)
    /\ ran \in [Scopes -> Nat] /\ worked \in [Scopes -> Nat]
    /\ \A s \in DOMAIN considered : considered[s] \in Nat

(* The wait after a dispatch of s, as the histories tell it.               *)
WaitOf(s) ==
    IF worked[s] # 0 /\ ran[s] - worked[s] < ColdDispatchInterval THEN DispatchInterval ELSE ColdDispatchInterval

(* What a scope's activity says of its last dispatch: the work it found    *)
(* last, and when it is next due, unless a restart has reset that.         *)
ActivityInv ==
    \A s \in Scopes :
      IF s \in DOMAIN scopeActivity
        THEN /\ scopeActivity[s] \in [lastWorkAt : Nat, nextPollAt : Nat]
             /\ scopeActivity[s].lastWorkAt = worked[s]
             /\ scopeActivity[s].nextPollAt # 0 =>
                  ran[s] # 0 /\ scopeActivity[s].nextPollAt = ran[s] + WaitOf(s)
        ELSE worked[s] = 0

Served(s) ==
    /\ s \in DOMAIN considered
    /\ ran[s] # 0
    /\ considered[s] - ran[s] < WaitOf(s)

(* A listed scope waits in the queue of the running cycle or was served.   *)
ServedInv ==
    /\ dpc \in {"visit", "dispatch", "list"} => \A s \in ToSet(listed) : s \in ToSet(queue) \/ Served(s)
    /\ dpc = "dispatch" => /\ queue # <<>> /\ Head(queue) \in DOMAIN considered
                           /\ considered[Head(queue)] = now /\ now # 0
    /\ dpc = "fallback" => listed = <<>>

LEMMA Members ==
    ASSUME NEW S, NEW q \in Seq(S)
    PROVE  /\ DOMAIN q = 1 .. Len(q) /\ Len(q) \in Nat
           /\ \A s : s \in ToSet(q) <=> \E i \in 1 .. Len(q) : s = q[i]
<1>1. DOMAIN q = 1 .. Len(q) /\ Len(q) \in Nat
    OBVIOUS
<1> QED
    BY <1>1, Zenon DEF ToSet

LEMMA MemberIn ==
    ASSUME NEW S, NEW q \in Seq(S), NEW s \in ToSet(q)
    PROVE  s \in S
<1>1. PICK i \in 1 .. Len(q) : s = q[i]
    BY Members
<1> QED
    BY <1>1

LEMMA ConfigFacts ==
    ASSUME NEW k \in Configs
    PROVE  /\ k.dispatch \in Nat \ {0} /\ k.sweep \in Nat \ {0} /\ k.cold \in Nat \ {0} /\ k.cold >= k.dispatch
           /\ \A l \in k.listings : l \in Seq(k.tenants \cup {Blank})
<1>1. /\ k.dispatch \in Nat \ {0} /\ k.sweep \in Nat \ {0} /\ k.cold \in Nat /\ k.cold >= k.dispatch
      /\ \A l \in k.listings : l \in Seq(k.tenants \cup {Blank})
    BY SchedulerAssumption
<1>2. k.cold # 0
    BY <1>1
<1> QED
    BY <1>1, <1>2

LEMMA NormalListing ==
    ASSUME cfg \in Configs, NEW l \in cfg.listings, NEW scopes \in normalizeTenantDispatchScopes(l)
    PROVE  scopes \in Seq(Scopes)
<1>1. l \in Seq(Scopes \cup {Blank})
    BY ConfigFacts
<1>2. PICK n \in 0 .. Len(l) : scopes \in [1 .. n -> ToSet(l)]
    BY DEF normalizeTenantDispatchScopes
<1>3. ToSet(scopes) = ToSet(l) \ {Blank}
    BY DEF normalizeTenantDispatchScopes
<1>4. ASSUME NEW i \in 1 .. n PROVE scopes[i] \in Scopes
    <2>1. scopes[i] \in ToSet(scopes)
        BY <1>2, Zenon DEF ToSet
    <2>2. PICK j \in 1 .. Len(l) : scopes[i] = l[j]
        BY <2>1, <1>1, <1>3, Members
    <2> QED
        BY <2>1, <2>2, <1>1, <1>3
<1>5. scopes \in [1 .. n -> Scopes] /\ n \in Nat
    BY <1>1, <1>2, <1>4
<1> QED
    BY <1>5

(* Rotating a listing keeps its members, and brings the scope whose turn   *)
(* it is to the front.                                                     *)
LEMMA OrderKeepsScopes ==
    ASSUME NEW S, NEW scopes \in Seq(S), tenantTurn \in Nat
    PROVE  /\ tenantDispatchScopeOrder(scopes) \in Seq(S)
           /\ ToSet(tenantDispatchScopeOrder(scopes)) = ToSet(scopes)
           /\ tenantDispatchScopeOrder(scopes) = <<>> <=> scopes = <<>>
           /\ Len(scopes) > 1 => Head(tenantDispatchScopeOrder(scopes)) = scopes[(tenantTurn % Len(scopes)) + 1]
           /\ Len(scopes) = 1 => Head(tenantDispatchScopeOrder(scopes)) = scopes[1]
<1> DEFINE n == Len(scopes)  u == tenantTurn % n  order == tenantDispatchScopeOrder(scopes)
<1>1. CASE n <= 1
    BY <1>1 DEF tenantDispatchScopeOrder
<1>2. CASE n > 1
    <2>1. n \in Nat /\ u \in 0 .. n - 1
        BY <1>2
    <2> HIDE DEF u
    <2>2. order = SubSeq(scopes, u + 1, n) \o SubSeq(scopes, 1, u)
        BY <1>2 DEF tenantDispatchScopeOrder, u
    <2>3. /\ SubSeq(scopes, u + 1, n) \in Seq(S) /\ Len(SubSeq(scopes, u + 1, n)) = n - u
          /\ \A i \in 1 .. n - u : SubSeq(scopes, u + 1, n)[i] = scopes[u + i]
        BY <2>1
    <2>4. /\ SubSeq(scopes, 1, u) \in Seq(S) /\ Len(SubSeq(scopes, 1, u)) = u
          /\ \A i \in 1 .. u : SubSeq(scopes, 1, u)[i] = scopes[i]
        BY <2>1
    <2>5. /\ order \in Seq(S) /\ Len(order) = n
          /\ \A i \in 1 .. n : order[i] = IF i <= n - u THEN scopes[u + i] ELSE scopes[i - (n - u)]
        <3> DEFINE p == SubSeq(scopes, u + 1, n)  q == SubSeq(scopes, 1, u)
        <3>1. /\ p \o q \in Seq(S) /\ Len(p \o q) = Len(p) + Len(q)
              /\ \A i \in 1 .. Len(p) + Len(q) : (p \o q)[i] = IF i <= Len(p) THEN p[i] ELSE q[i - Len(p)]
            BY <2>3, <2>4, ConcatProperties
        <3> HIDE DEF p, q
        <3>2. /\ Len(p) = n - u /\ Len(q) = u /\ order = p \o q
              /\ \A i \in 1 .. n - u : p[i] = scopes[u + i]
              /\ \A i \in 1 .. u : q[i] = scopes[i]
            BY <2>2, <2>3, <2>4 DEF p, q
        <3> HIDE DEF order, n
        <3> QED
            BY <2>1, <3>1, <3>2
    <2>6. ASSUME NEW i \in 1 .. n PROVE \E j \in 1 .. n : order[j] = scopes[i]
        <3> HIDE DEF order, n
        <3>1. CASE i > u
            <4>1. i - u \in 1 .. n /\ i - u <= n - u /\ u + (i - u) = i
                BY <3>1, <2>1
            <4>2. order[i - u] = scopes[i]
                BY <4>1, <2>5
            <4> QED
                BY <4>1, <4>2
        <3>2. CASE i <= u
            <4>1. i + (n - u) \in 1 .. n /\ ~(i + (n - u) <= n - u) /\ (i + (n - u)) - (n - u) = i
                BY <3>2, <2>1
            <4>2. order[i + (n - u)] = scopes[i]
                BY <4>1, <2>5
            <4> QED
                BY <4>1, <4>2
        <3> QED
            BY <3>1, <3>2, <2>1
    <2>7. ASSUME NEW i \in 1 .. n PROVE \E j \in 1 .. n : order[i] = scopes[j]
        <3> HIDE DEF order, n
        <3>1. CASE i <= n - u
            <4>1. u + i \in 1 .. n
                BY <3>1, <2>1
            <4> QED
                BY <4>1, <3>1, <2>5
        <3>2. CASE i > n - u
            <4>1. i - (n - u) \in 1 .. n /\ ~(i <= n - u)
                BY <3>2, <2>1
            <4>2. order[i] = scopes[i - (n - u)]
                BY <4>1, <2>5
            <4> QED
                BY <4>1, <4>2
        <3> QED
            BY <3>1, <3>2, <2>1
    <2>8. DOMAIN order = 1 .. n /\ DOMAIN scopes = 1 .. n
        BY <2>5
    <2>9. ToSet(order) = ToSet(scopes)
        <3>1. /\ \A s : s \in ToSet(order) <=> \E i \in 1 .. Len(order) : s = order[i]
              /\ \A s : s \in ToSet(scopes) <=> \E i \in 1 .. n : s = scopes[i]
            BY <2>5, Members
        <3>2. Len(order) = n
            BY <2>5
        <3> HIDE DEF order, n
        <3>3. ASSUME NEW s \in ToSet(order) PROVE s \in ToSet(scopes)
            <4>1. PICK i \in 1 .. n : s = order[i]
                BY <3>1, <3>2
            <4> QED
                BY <4>1, <2>7, <3>1
        <3>4. ASSUME NEW s \in ToSet(scopes) PROVE s \in ToSet(order)
            <4>1. PICK i \in 1 .. n : s = scopes[i]
                BY <3>1
            <4>2. PICK j \in 1 .. n : order[j] = scopes[i]
                BY <2>6
            <4> QED
                BY <4>1, <4>2, <3>1, <3>2
        <3> QED
            BY <3>3, <3>4
    <2>10. Head(order) = order[1] /\ order[1] = scopes[u + 1] /\ order # <<>> /\ scopes # <<>>
        BY <2>1, <2>5, <1>2
    <2> QED
        BY <2>5, <2>9, <2>10, <1>2 DEF u
<1>3. n \in Nat
    OBVIOUS
<1> QED
    BY <1>1, <1>2, <1>3

LEMMA QueueOf ==
    ASSUME NEW S, NEW q \in Seq(S), q # <<>>
    PROVE  /\ Head(q) \in S /\ Tail(q) \in Seq(S)
           /\ Head(q) \in ToSet(q)
           /\ \A s \in ToSet(q) : s = Head(q) \/ s \in ToSet(Tail(q))
<1>1. /\ Head(q) = q[1] /\ Len(q) \in Nat \ {0} /\ DOMAIN q = 1 .. Len(q)
      /\ Tail(q) \in Seq(S) /\ Len(Tail(q)) = Len(q) - 1 /\ DOMAIN Tail(q) = 1 .. Len(q) - 1
      /\ \A i \in 1 .. Len(q) - 1 : Tail(q)[i] = q[i + 1]
    OBVIOUS
<1>2. ASSUME NEW i \in 1 .. Len(q), i # 1 PROVE q[i] \in ToSet(Tail(q))
    <2>1. i - 1 \in 1 .. Len(q) - 1 /\ Tail(q)[i - 1] = q[i]
        BY <1>1, <1>2
    <2> QED
        BY <2>1, <1>1 DEF ToSet
<1> QED
    BY <1>1, <1>2 DEF ToSet

CycleInv == SchedulerTypes /\ ActivityInv /\ ServedInv

LEMMA CycleInitially == SchedulerInit => CycleInv
<1> SUFFICES ASSUME SchedulerInit PROVE CycleInv
    OBVIOUS
<1>1. SchedulerTypes
    BY ConfigFacts DEF SchedulerInit, SchedulerTypes
<1>2. ActivityInv
    BY DEF SchedulerInit, ActivityInv
<1>3. ServedInv
    BY DEF SchedulerInit, ServedInv
<1> QED
    BY <1>1, <1>2, <1>3 DEF CycleInv

(* A cycle starts with every listed scope in its queue.                    *)
LEMMA StartCycleServes ==
    ASSUME CycleInv, cfg' = cfg, NEW l \in cfg.listings, StartCycle(l)
    PROVE  CycleInv'
<1>1. PICK scopes \in normalizeTenantDispatchScopes(l) :
        LET order == tenantDispatchScopeOrder(scopes)
        IN  /\ scopeActivity' = reconcileScopeActivity(scopes)
            /\ queue' = order
            /\ tenantTurn' = nextTurn(scopes)
            /\ dpc' = IF order = <<>> THEN "fallback" ELSE "visit"
            /\ listed' = scopes /\ considered' = <<>>
            /\ ran' = [s \in Scopes |-> IF s \in ToSet(scopes) THEN ran[s] ELSE 0]
            /\ worked' = [s \in Scopes |-> IF s \in ToSet(scopes) THEN worked[s] ELSE 0]
            /\ UNCHANGED <<time, now>>
    BY DEF StartCycle
<1>2. scopes \in Seq(Scopes) /\ tenantTurn \in Nat
    BY NormalListing DEF CycleInv, SchedulerTypes
<1>3. /\ tenantDispatchScopeOrder(scopes) \in Seq(Scopes)
      /\ ToSet(tenantDispatchScopeOrder(scopes)) = ToSet(scopes)
      /\ tenantDispatchScopeOrder(scopes) = <<>> <=> scopes = <<>>
    BY <1>2, OrderKeepsScopes
<1>4. nextTurn(scopes) \in Nat
    <2>1. Len(scopes) \in Nat
        BY <1>2
    <2> QED
        BY <2>1, <1>2 DEF nextTurn
<1>5. SchedulerTypes'
    BY <1>1, <1>2, <1>3, <1>4 DEF CycleInv, SchedulerTypes
<1>6. ServedInv'
    BY <1>1, <1>3 DEF ServedInv
<1>7. ASSUME NEW s \in Scopes
      PROVE  IF s \in DOMAIN scopeActivity'
               THEN /\ scopeActivity'[s] \in [lastWorkAt : Nat, nextPollAt : Nat]
                    /\ scopeActivity'[s].lastWorkAt = worked'[s]
                    /\ scopeActivity'[s].nextPollAt # 0 =>
                         ran'[s] # 0 /\ scopeActivity'[s].nextPollAt = ran'[s] + WaitOf(s)'
               ELSE worked'[s] = 0
    <2>1. CASE s \in ToSet(scopes)
        <3>1. ran'[s] = ran[s] /\ worked'[s] = worked[s]
            BY <1>1, <2>1
        <3>2. WaitOf(s)' = WaitOf(s)
            BY <3>1 DEF WaitOf
        <3>3. /\ s \in DOMAIN scopeActivity' <=> s \in DOMAIN scopeActivity
              /\ s \in DOMAIN scopeActivity => scopeActivity'[s] = scopeActivity[s]
            BY <1>1, <2>1 DEF reconcileScopeActivity, Restricted
        <3> QED
            BY <3>1, <3>2, <3>3 DEF CycleInv, ActivityInv
    <2>2. CASE s \notin ToSet(scopes)
        BY <1>1, <2>2 DEF reconcileScopeActivity, Restricted
    <2> QED
        BY <2>1, <2>2
<1> QED
    BY <1>5, <1>6, <1>7 DEF CycleInv, ActivityInv

(* A scope that is skipped was dispatched within its wait.                 *)
LEMMA VisitServes ==
    ASSUME CycleInv, cfg' = cfg, Visit
    PROVE  CycleInv'
<1>h. PICK h : h = Head(queue)
    OBVIOUS
<1>1. /\ dpc = "visit" /\ queue # <<>> /\ now' = time
      /\ considered' = Updated(considered, h, time)
      /\ UNCHANGED <<time, scopeActivity, tenantTurn, listed, ran, worked>>
    BY <1>h DEF Visit, scheduling
<1>2. \/ shouldDispatchScope(h, time) /\ dpc' = "dispatch" /\ queue' = queue
      \/ ~shouldDispatchScope(h, time) /\ dpc' = dpc /\ queue' = Tail(queue)
    BY <1>h DEF Visit
<1>3. /\ h \in Scopes /\ Tail(queue) \in Seq(Scopes) /\ h \in ToSet(queue)
      /\ \A s \in ToSet(queue) : s = h \/ s \in ToSet(Tail(queue))
    BY <1>h, <1>1, QueueOf DEF CycleInv, SchedulerTypes
<1>4. /\ h \in DOMAIN considered' /\ considered'[h] = time
      /\ \A s \in DOMAIN considered : s \in DOMAIN considered' /\ (s # h => considered'[s] = considered[s])
      /\ \A s \in DOMAIN considered' : s = h \/ s \in DOMAIN considered
    BY <1>1 DEF Updated
<1>5. SchedulerTypes'
    <2>1. \A s \in DOMAIN considered' : considered'[s] \in Nat
        BY <1>4 DEF CycleInv, SchedulerTypes
    <2>2. queue' \in Seq(Scopes) /\ dpc' \in {"visit", "dispatch"}
        BY <1>1, <1>2, <1>3 DEF CycleInv, SchedulerTypes
    <2> QED
        BY <1>1, <2>1, <2>2 DEF CycleInv, SchedulerTypes
<1>6. ActivityInv'
    BY <1>1 DEF CycleInv, ActivityInv, WaitOf
<1>7. \A s \in Scopes : WaitOf(s)' = WaitOf(s)
    BY <1>1 DEF WaitOf
<1>8. ASSUME NEW s \in ToSet(listed) PROVE s \in ToSet(queue') \/ Served(s)'
    <2>1. s \in ToSet(queue) \/ Served(s)
        BY <1>1, <1>8 DEF CycleInv, ServedInv
    <2>2. CASE s # h /\ Served(s)
        <3>1. s \in Scopes
            BY <1>8, MemberIn DEF CycleInv, SchedulerTypes
        <3> QED
            BY <2>2, <1>1, <1>4, <1>7, <3>1 DEF Served
    <2>3. CASE s # h /\ s \in ToSet(queue)
        BY <2>3, <1>2, <1>3
    <2>4. CASE s = h /\ shouldDispatchScope(h, time)
        BY <2>4, <1>2, <1>3
    <2>5. CASE s = h /\ ~shouldDispatchScope(h, time)
        <3>1. h \in DOMAIN scopeActivity /\ ~(time >= scopeActivity[h].nextPollAt)
            BY <2>5 DEF shouldDispatchScope
        <3>2. /\ scopeActivity[h] \in [lastWorkAt : Nat, nextPollAt : Nat]
              /\ scopeActivity[h].nextPollAt # 0 => ran[h] # 0 /\ scopeActivity[h].nextPollAt = ran[h] + WaitOf(h)
            BY <3>1, <1>3 DEF CycleInv, ActivityInv
        <3>3. time \in Nat /\ ran[h] \in Nat /\ WaitOf(h) \in Nat
            BY <1>3, ConfigFacts DEF CycleInv, SchedulerTypes, WaitOf
        <3>4. ran[h] # 0 /\ time - ran[h] < WaitOf(h)
            BY <3>1, <3>2, <3>3
        <3> QED
            BY <2>5, <3>4, <1>1, <1>3, <1>4, <1>7 DEF Served
    <2> QED
        BY <2>1, <2>2, <2>3, <2>4, <2>5
<1>9. ServedInv'
    BY <1>h, <1>1, <1>2, <1>4, <1>8 DEF ServedInv, CycleInv, SchedulerTypes
<1> QED
    BY <1>5, <1>6, <1>9 DEF CycleInv

(* A dispatch serves the scope at the head of the queue, and records what  *)
(* the histories say of it.                                                *)
LEMMA DispatchedServes ==
    ASSUME CycleInv, cfg' = cfg, NEW work \in BOOLEAN, Dispatched(work)
    PROVE  CycleInv'
<1>h. PICK h : h = Head(queue)
    OBVIOUS
<1>1. /\ dpc = "dispatch" /\ dpc' = "visit" /\ queue' = Tail(queue)
      /\ scopeActivity' = recordScopeActivity(h, work, now)
      /\ ran' = [ran EXCEPT ![h] = now]
      /\ worked' = [worked EXCEPT ![h] = IF work THEN now ELSE @]
      /\ UNCHANGED <<time, now, tenantTurn, listed, considered>>
    BY <1>h DEF Dispatched
<1>2. queue # <<>> /\ h \in DOMAIN considered /\ considered[h] = now /\ now # 0
    BY <1>h, <1>1 DEF CycleInv, ServedInv
<1>3. /\ h \in Scopes /\ Tail(queue) \in Seq(Scopes)
      /\ \A s \in ToSet(queue) : s = h \/ s \in ToSet(Tail(queue))
    BY <1>h, <1>2, QueueOf DEF CycleInv, SchedulerTypes
<1>4. now \in Nat /\ ran[h] \in Nat /\ worked[h] \in Nat /\ cfg \in Configs
    BY <1>3 DEF CycleInv, SchedulerTypes
<1>5. /\ ran' \in [Scopes -> Nat] /\ worked' \in [Scopes -> Nat]
      /\ ran'[h] = now /\ worked'[h] = IF work THEN now ELSE worked[h]
      /\ \A s \in Scopes : s # h => ran'[s] = ran[s] /\ worked'[s] = worked[s]
    BY <1>1, <1>3, <1>4 DEF CycleInv, SchedulerTypes
<1>6. SchedulerTypes'
    BY <1>1, <1>3, <1>5 DEF CycleInv, SchedulerTypes
<1>7. \A s \in Scopes \ {h} : WaitOf(s)' = WaitOf(s)
    BY <1>5 DEF WaitOf
<1>8. /\ h \in DOMAIN scopeActivity'
      /\ scopeActivity'[h] = [lastWorkAt |-> worked'[h], nextPollAt |-> now + WaitOf(h)']
      /\ \A s \in Scopes \ {h} : /\ s \in DOMAIN scopeActivity' <=> s \in DOMAIN scopeActivity
                                 /\ s \in DOMAIN scopeActivity => scopeActivity'[s] = scopeActivity[s]
    <2>1. (IF h \in DOMAIN scopeActivity THEN scopeActivity[h].lastWorkAt ELSE 0) = worked[h]
        BY <1>3 DEF CycleInv, ActivityInv
    <2>2. (IF work THEN now ELSE IF h \in DOMAIN scopeActivity THEN scopeActivity[h].lastWorkAt ELSE 0) = worked'[h]
        BY <2>1, <1>5
    <2>3. WaitOf(h)' = IF worked'[h] # 0 /\ now - worked'[h] < ColdDispatchInterval
                         THEN DispatchInterval ELSE ColdDispatchInterval
        BY <1>5 DEF WaitOf
    <2>4. scopeActivity' = Updated(scopeActivity, h, [lastWorkAt |-> worked'[h], nextPollAt |-> now + WaitOf(h)'])
        BY <1>1, <2>2, <2>3 DEF recordScopeActivity
    <2> QED
        BY <2>4 DEF Updated
<1>9. WaitOf(h)' \in Nat \ {0}
    <2>1. DispatchInterval' \in Nat \ {0} /\ ColdDispatchInterval' \in Nat \ {0}
        BY <1>4, ConfigFacts
    <2> QED
        BY <2>1 DEF WaitOf
<1>10. ASSUME NEW s \in Scopes
      PROVE  IF s \in DOMAIN scopeActivity'
               THEN /\ scopeActivity'[s] \in [lastWorkAt : Nat, nextPollAt : Nat]
                    /\ scopeActivity'[s].lastWorkAt = worked'[s]
                    /\ scopeActivity'[s].nextPollAt # 0 =>
                         ran'[s] # 0 /\ scopeActivity'[s].nextPollAt = ran'[s] + WaitOf(s)'
               ELSE worked'[s] = 0
    <2>1. CASE s = h
        <3>1. worked'[h] \in Nat /\ now + WaitOf(h)' \in Nat
            BY <1>3, <1>4, <1>5, <1>9
        <3> QED
            BY <2>1, <3>1, <1>2, <1>5, <1>8
    <2>2. CASE s # h
        BY <2>2, <1>5, <1>7, <1>8 DEF CycleInv, ActivityInv
    <2> QED
        BY <2>1, <2>2
<1>11. ASSUME NEW s \in ToSet(listed) PROVE s \in ToSet(queue') \/ Served(s)'
    <2>1. CASE s = h
        BY <2>1, <1>1, <1>2, <1>4, <1>5, <1>9 DEF Served
    <2>2. CASE s # h
        <3>1. s \in Scopes
            BY <1>11, MemberIn DEF CycleInv, SchedulerTypes
        <3>2. s \in ToSet(queue) \/ Served(s)
            BY <1>1, <1>11 DEF CycleInv, ServedInv
        <3> QED
            BY <2>2, <3>1, <3>2, <1>1, <1>3, <1>5, <1>7 DEF Served
    <2> QED
        BY <2>1, <2>2
<1>12. ServedInv'
    BY <1>1, <1>11 DEF ServedInv
<1> QED
    BY <1>6, <1>10, <1>12 DEF CycleInv, ActivityInv

LEMMA CycleInductive == CycleInv /\ [SchedulerNext]_schedulerVars => CycleInv'
<1> SUFFICES ASSUME CycleInv, [SchedulerNext]_schedulerVars PROVE CycleInv'
    OBVIOUS
<1>1. cfg' = cfg
    BY DEF SchedulerNext, schedulerVars
<1> USE DEF scheduling, history
<1>2. CASE SchedulerTick
    BY <1>1, <1>2 DEF SchedulerTick, CycleInv, SchedulerTypes, ActivityInv, ServedInv, Served, WaitOf
<1>3. CASE Cancel
    BY <1>1, <1>3 DEF Cancel, CycleInv, SchedulerTypes, ActivityInv, ServedInv, Served, WaitOf
<1>4. CASE Restart
    <2>1. SchedulerTypes'
        BY <1>1, <1>4 DEF Restart, CycleInv, SchedulerTypes
    <2>2. ServedInv'
        BY <1>4 DEF Restart, ServedInv
    <2>3. ASSUME NEW s \in Scopes
          PROVE  IF s \in DOMAIN scopeActivity'
                   THEN /\ scopeActivity'[s] \in [lastWorkAt : Nat, nextPollAt : Nat]
                        /\ scopeActivity'[s].lastWorkAt = worked'[s]
                        /\ scopeActivity'[s].nextPollAt = 0
                   ELSE worked'[s] = 0
        BY <1>4 DEF Restart, resetScopePollSchedule, CycleInv, ActivityInv
    <2> QED
        BY <1>1, <2>1, <2>2, <2>3 DEF CycleInv, ActivityInv
<1>5. CASE \E listing \in cfg.listings : StartCycle(listing)
    BY <1>1, <1>5, StartCycleServes
<1>6. CASE Visit
    BY <1>1, <1>6, VisitServes
<1>7. CASE \E work \in BOOLEAN : Dispatched(work)
    BY <1>1, <1>7, DispatchedServes
<1>8. CASE LeaveLoop
    BY <1>1, <1>8 DEF LeaveLoop, CycleInv, SchedulerTypes, ActivityInv, ServedInv, Served, WaitOf
<1>9. CASE dispatchWithoutDiscoveredTenant
    <2>1. ToSet(<<>>) = {}
        BY DEF ToSet
    <2>2. /\ dpc = "fallback" /\ dpc' = "list" /\ listed = <<>>
          /\ UNCHANGED <<time, queue, now, scopeActivity, tenantTurn, listed, considered, ran, worked>>
        BY <1>9 DEF dispatchWithoutDiscoveredTenant, CycleInv, ServedInv
    <2> QED
        BY <1>1, <2>1, <2>2 DEF CycleInv, SchedulerTypes, ActivityInv, ServedInv, WaitOf
<1>10. CASE \E S \in SUBSET Scopes : sweepListedTenants(S)
    <2>1. /\ dpc' = "idle" /\ queue' = <<>> /\ (now' = now \/ now' = time)
          /\ UNCHANGED <<time, scopeActivity, tenantTurn, listed, considered, ran, worked>>
        BY <1>10 DEF sweepListedTenants
    <2> QED
        BY <1>1, <2>1 DEF CycleInv, SchedulerTypes, ActivityInv, ServedInv, WaitOf
<1>11. CASE UNCHANGED schedulerVars
    BY <1>11 DEF schedulerVars, moving, CycleInv, SchedulerTypes, ActivityInv, ServedInv, Served, WaitOf
<1> QED
    BY <1>2, <1>3, <1>4, <1>5, <1>6, <1>7, <1>8, <1>9, <1>10, <1>11 DEF SchedulerNext

LEMMA CycleServes == CycleInv => ServedInTime
<1> SUFFICES ASSUME CycleInv, dpc = "list", queue = <<>>, NEW s \in ToSet(listed)
             PROVE  /\ s \in DOMAIN considered
                    /\ ran[s] # 0
                    /\ considered[s] - ran[s] < ColdDispatchInterval
                    /\ worked[s] # 0 /\ ran[s] - worked[s] < ColdDispatchInterval
                         => considered[s] - ran[s] < DispatchInterval
    BY DEF ServedInTime
<1>1. ToSet(queue) = {}
    BY DEF ToSet
<1>2. Served(s)
    BY <1>1 DEF CycleInv, ServedInv
<1>3. s \in Scopes
    BY MemberIn DEF CycleInv, SchedulerTypes
<1>4. considered[s] \in Nat /\ ran[s] \in Nat /\ worked[s] \in Nat /\ cfg \in Configs
    BY <1>2, <1>3 DEF Served, CycleInv, SchedulerTypes
<1>5. DispatchInterval \in Nat /\ ColdDispatchInterval \in Nat /\ ColdDispatchInterval >= DispatchInterval
    BY <1>4, ConfigFacts
<1>6. WaitOf(s) <= ColdDispatchInterval /\ WaitOf(s) \in Nat
    BY <1>5 DEF WaitOf
<1> QED
    BY <1>2, <1>4, <1>5, <1>6 DEF Served, WaitOf

LEMMA ModSucc ==
    ASSUME NEW n \in Nat \ {0}, NEW u \in Nat
    PROVE  (u + 1) % n = IF u % n = n - 1 THEN 0 ELSE (u % n) + 1
<1>1. PICK q \in Nat, r \in 0 .. n - 1 : u = n * q + r /\ r = u % n
  BY DivMod
<1>2. CASE r = n - 1
  <2>0. n * (q + 1) = n * q + n
    OBVIOUS
  <2>1. u + 1 = n * (q + 1) + 0
    <3> DEFINE m == n * q
    <3>1. m \in Nat
      OBVIOUS
    <3> HIDE DEF m
    <3>2. u = m + (n - 1) /\ n * (q + 1) = m + n
      BY <1>1, <1>2, <2>0 DEF m
    <3> QED BY <3>1, <3>2
  <2>2. (n * (q + 1) + 0) % n = 0
    BY DivModUnique
  <2> QED BY <2>1, <2>2, <1>1, <1>2
<1>3. CASE r # n - 1
  <2>1. u + 1 = n * q + (r + 1) /\ r + 1 \in 0 .. n - 1
    BY <1>1, <1>3
  <2>2. (n * q + (r + 1)) % n = r + 1
    BY <2>1, DivModUnique
  <2> QED BY <2>1, <2>2, <1>1, <1>3
<1> QED BY <1>2, <1>3

(* The place in the listing of the scope that led the j-th remembered      *)
(* cycle: the last one led from the place before tenantTurn.               *)
PlaceOf(j) ==
    LET d == Len(firsts) - j IN
    IF Len(listed) = 1 THEN 1
    ELSE IF tenantTurn > d THEN tenantTurn - d ELSE tenantTurn - d + Len(listed)

RotationInv ==
    /\ firsts \in Seq(Scopes) /\ Len(firsts) <= Len(listed)
    /\ Len(listed) > 1 => tenantTurn < Len(listed)
    /\ \A j \in 1 .. Len(firsts) : firsts[j] = listed[PlaceOf(j)]

LEMMA TurnShift ==
    ASSUME NEW n \in Nat, n > 1, NEW u \in 0 .. n - 1, NEW v, v = IF u = n - 1 THEN 0 ELSE u + 1,
           NEW d \in 0 .. n - 2
    PROVE  (IF u > d THEN u - d ELSE u - d + n) = (IF v > d + 1 THEN v - (d + 1) ELSE v - (d + 1) + n)
    OBVIOUS

LEMMA StartCycleRotates ==
    ASSUME CycleInv, RotationInv, cfg' = cfg, NEW l \in cfg.listings, StartCycle(l)
    PROVE  RotationInv'
<1>1. PICK scopes \in normalizeTenantDispatchScopes(l) :
        LET order == tenantDispatchScopeOrder(scopes)
        IN  /\ tenantTurn' = nextTurn(scopes)
            /\ listed' = scopes
            /\ firsts' = IF scopes = <<>> THEN <<>>
                         ELSE IF scopes # listed THEN <<Head(order)>>
                         ELSE IF Len(firsts) = Len(scopes) THEN Append(Tail(firsts), Head(order))
                         ELSE Append(firsts, Head(order))
    BY DEF StartCycle
<1>2. scopes \in Seq(Scopes) /\ tenantTurn \in Nat
    BY NormalListing DEF CycleInv, SchedulerTypes
<1>3. PICK head : head = Head(tenantDispatchScopeOrder(scopes))
    OBVIOUS
<1>4. PICK n : n = Len(scopes)
    OBVIOUS
<1>5. n \in Nat
    BY <1>2, <1>4
<1>6. CASE n = 0
    <2>1. scopes = <<>>
        BY <1>2, <1>4, <1>6, EmptySeq
    <2>2. firsts' = <<>> /\ listed' = <<>>
        BY <1>1, <2>1
    <2>3. <<>> \in Seq(Scopes') /\ Len(<<>>) = 0
        OBVIOUS
    <2> QED
        BY <2>2, <2>3 DEF RotationInv
<1>7. ASSUME n # 0
      PROVE  /\ n = 1 => head = scopes[1] /\ tenantTurn' = tenantTurn
             /\ n > 1 => /\ tenantTurn' \in 0 .. n - 1
                         /\ head = scopes[IF tenantTurn' = 0 THEN n ELSE tenantTurn']
                         /\ tenantTurn < n => tenantTurn' = IF tenantTurn = n - 1 THEN 0 ELSE tenantTurn + 1
    <2>1. /\ n > 1 => head = scopes[(tenantTurn % n) + 1]
          /\ n = 1 => head = scopes[1]
        BY <1>2, <1>3, <1>4, OrderKeepsScopes
    <2>2. tenantTurn' = IF n <= 1 THEN tenantTurn ELSE (tenantTurn + 1) % n
        BY <1>1, <1>4 DEF nextTurn
    <2>3. n \in Nat \ {0}
        BY <1>5, <1>7
    <2>4. (tenantTurn + 1) % n = IF tenantTurn % n = n - 1 THEN 0 ELSE (tenantTurn % n) + 1
        BY <1>2, <2>3, ModSucc
    <2>5. tenantTurn % n \in 0 .. n - 1 /\ (tenantTurn < n => tenantTurn % n = tenantTurn)
        BY <1>2, <2>3
    <2> DEFINE r == tenantTurn % n
    <2>6. /\ n > 1 => head = scopes[r + 1]
          /\ n > 1 => tenantTurn' = IF r = n - 1 THEN 0 ELSE r + 1
          /\ r \in 0 .. n - 1 /\ (tenantTurn < n => r = tenantTurn)
        BY <2>1, <2>2, <2>3, <2>4, <2>5
    <2> HIDE DEF r
    <2> QED
        BY <2>1, <2>2, <2>3, <2>6
<1>8. CASE n # 0
    <2>1. head \in Scopes /\ n \in Nat \ {0} /\ scopes # <<>>
        <3>1. /\ n = 1 => 1 \in 1 .. n
              /\ n > 1 => (IF tenantTurn' = 0 THEN n ELSE tenantTurn') \in 1 .. n
            BY <1>5, <1>7, <1>8
        <3>2. \A i \in 1 .. n : scopes[i] \in Scopes
            BY <1>2, <1>4
        <3> QED
            BY <1>2, <1>4, <1>5, <1>7, <1>8, <3>1, <3>2
    <2>2. tenantTurn' \in Nat
        BY <1>2, <1>5, <1>7, <1>8
    <2>3. CASE scopes # listed
        <3>1. firsts' = <<head>> /\ listed' = scopes
            BY <1>1, <1>3, <2>1, <2>3
        <3>2. firsts' \in Seq(Scopes) /\ Len(firsts') = 1 /\ firsts'[1] = head
            <4>1. \A S : head \in S => <<head>> \in Seq(S)
                OBVIOUS
            <4>2. Len(<<head>>) = 1 /\ <<head>>[1] = head
                OBVIOUS
            <4> QED
                BY <2>1, <3>1, <4>1, <4>2
        <3>3. PlaceOf(1)' = IF n = 1 THEN 1 ELSE IF tenantTurn' > 0 THEN tenantTurn' ELSE tenantTurn' + n
            BY <1>4, <2>2, <3>1, <3>2, <2>1 DEF PlaceOf
        <3>4. firsts'[1] = scopes[PlaceOf(1)']
            BY <1>7, <1>8, <2>1, <3>2, <3>3
        <3>5. \A j \in 1 .. Len(firsts') : j = 1
            BY <3>2
        <3> QED
            BY <1>4, <1>7, <2>1, <3>1, <3>2, <3>4, <3>5 DEF RotationInv
    <2>4. CASE scopes = listed
        <3>1. /\ firsts \in Seq(Scopes) /\ Len(firsts) <= n /\ (n > 1 => tenantTurn < n)
              /\ \A j \in 1 .. Len(firsts) : firsts[j] = scopes[PlaceOf(j)]
            BY <1>4, <2>4 DEF RotationInv
        <3>2. \A j \in Nat : PlaceOf(j) = IF n = 1 THEN 1 ELSE IF tenantTurn > Len(firsts) - j THEN tenantTurn - (Len(firsts) - j)
                                          ELSE tenantTurn - (Len(firsts) - j) + n
            BY <1>4, <2>4 DEF PlaceOf
        <3>3. PICK k : k = Len(firsts')
            OBVIOUS
        <3>4. ASSUME NEW j PROVE PlaceOf(j)' = IF n = 1 THEN 1 ELSE IF tenantTurn' > k - j THEN tenantTurn' - (k - j)
                                          ELSE tenantTurn' - (k - j) + n
            BY <1>1, <1>4, <3>3 DEF PlaceOf
        <3>5. PICK m : m = Len(firsts)
            OBVIOUS
        <3>6. m \in Nat
            BY <3>1, <3>5
        <3>7. CASE m = n
            <4>1. firsts' = Append(Tail(firsts), head) /\ firsts # <<>>
                BY <1>1, <1>3, <1>4, <2>1, <2>4, <3>5, <3>7
            <4>2. Tail(firsts) \in Seq(Scopes) /\ Len(Tail(firsts)) = m - 1 /\ \A j \in 1 .. m - 1 : Tail(firsts)[j] = firsts[j + 1]
                BY <3>1, <3>5, <4>1
            <4>3. /\ firsts' \in Seq(Scopes) /\ k = n
                  /\ firsts'[n] = head /\ \A j \in 1 .. n - 1 : firsts'[j] = firsts[j + 1]
                BY <2>1, <3>3, <3>6, <3>7, <4>1, <4>2
            <4>4. ASSUME NEW j \in 1 .. n - 1 PROVE firsts'[j] = scopes[PlaceOf(j)']
                <5>1. j + 1 \in 1 .. m /\ j + 1 \in Nat
                    BY <3>7, <1>5
                <5>2. firsts'[j] = scopes[PlaceOf(j + 1)]
                    BY <3>1, <3>5, <4>3, <5>1
                <5>3. PlaceOf(j + 1) = PlaceOf(j)'
                    <6>1. PlaceOf(j + 1) = IF n = 1 THEN 1 ELSE IF tenantTurn > n - (j + 1) THEN tenantTurn - (n - (j + 1))
                                           ELSE tenantTurn - (n - (j + 1)) + n
                        BY <3>2, <3>5, <3>7, <5>1
                    <6>2. PlaceOf(j)' = IF n = 1 THEN 1 ELSE IF tenantTurn' > n - j THEN tenantTurn' - (n - j)
                                        ELSE tenantTurn' - (n - j) + n
                        BY <3>4, <4>3
                    <6>3. n - (j + 1) \in 0 .. n - 2 /\ n - j = (n - (j + 1)) + 1
                        BY <2>1
                    <6>4. n > 1 => /\ tenantTurn \in 0 .. n - 1
                                   /\ tenantTurn' = IF tenantTurn = n - 1 THEN 0 ELSE tenantTurn + 1
                        BY <1>2, <1>5, <1>7, <1>8, <3>1
                    <6>5. n = 1 \/ n > 1
                        BY <2>1
                    <6> QED
                        BY <2>1, <6>1, <6>2, <6>3, <6>4, <6>5, TurnShift
                <5> QED
                    BY <5>2, <5>3
            <4>5. firsts'[n] = scopes[PlaceOf(n)']
                BY <1>7, <1>8, <2>1, <2>2, <3>4, <4>3
            <4> QED
                BY <1>1, <1>4, <1>7, <2>1, <3>3, <4>3, <4>4, <4>5 DEF RotationInv
        <3>8. CASE m # n
            <4>1. firsts' = Append(firsts, head)
                BY <1>1, <1>3, <1>4, <2>1, <2>4, <3>5, <3>8
            <4>2. /\ firsts' \in Seq(Scopes) /\ k = m + 1 /\ k <= n
                  /\ firsts'[m + 1] = head /\ \A j \in 1 .. m : firsts'[j] = firsts[j]
                BY <2>1, <3>1, <3>3, <3>5, <3>6, <3>8, <4>1
            <4>3. ASSUME NEW j \in 1 .. m PROVE firsts'[j] = scopes[PlaceOf(j)']
                <5>2. firsts'[j] = scopes[PlaceOf(j)]
                    BY <3>1, <3>5, <4>2
                <5>3. PlaceOf(j) = PlaceOf(j)'
                    <6>1. PlaceOf(j) = IF n = 1 THEN 1 ELSE IF tenantTurn > m - j THEN tenantTurn - (m - j)
                                       ELSE tenantTurn - (m - j) + n
                        BY <3>2, <3>5, <3>6
                    <6>2. PlaceOf(j)' = IF n = 1 THEN 1 ELSE IF tenantTurn' > (m + 1) - j THEN tenantTurn' - ((m + 1) - j)
                                        ELSE tenantTurn' - ((m + 1) - j) + n
                        <7>1. k = m + 1
                            BY <4>2
                        <7> QED
                            BY <3>4, <7>1
                    <6>3. m - j \in 0 .. n - 2 /\ (m + 1) - j = (m - j) + 1
                        BY <2>1, <3>1, <3>5, <3>6, <3>8
                    <6>4. n > 1 => /\ tenantTurn \in 0 .. n - 1
                                   /\ tenantTurn' = IF tenantTurn = n - 1 THEN 0 ELSE tenantTurn + 1
                        BY <1>2, <1>5, <1>7, <1>8, <3>1
                    <6>5. n = 1 \/ n > 1
                        BY <2>1
                    <6> QED
                        BY <2>1, <6>1, <6>2, <6>3, <6>4, <6>5, TurnShift
                <5> QED
                    BY <5>2, <5>3
            <4>4. firsts'[m + 1] = scopes[PlaceOf(m + 1)']
                BY <1>7, <1>8, <2>1, <2>2, <3>4, <3>6, <4>2
            <4> QED
                BY <1>1, <1>4, <1>7, <2>1, <3>3, <3>6, <4>2, <4>3, <4>4 DEF RotationInv
        <3> QED
            BY <3>7, <3>8
    <2> QED
        BY <2>3, <2>4
<1> QED
    BY <1>6, <1>8

LEMMA RotationInductive == CycleInv /\ RotationInv /\ [SchedulerNext]_schedulerVars => RotationInv'
<1> SUFFICES ASSUME CycleInv, RotationInv, [SchedulerNext]_schedulerVars PROVE RotationInv'
    OBVIOUS
<1>1. cfg' = cfg
    BY DEF SchedulerNext, schedulerVars
<1>2. CASE \E listing \in cfg.listings : StartCycle(listing)
    BY <1>1, <1>2, StartCycleRotates
<1>3. CASE UNCHANGED <<listed, firsts, tenantTurn>>
    BY <1>1, <1>3 DEF RotationInv, PlaceOf
<1>4. (\E listing \in cfg.listings : StartCycle(listing)) \/ UNCHANGED <<listed, firsts, tenantTurn>>
    BY DEF SchedulerNext, SchedulerTick, Cancel, Restart, Visit, Dispatched, LeaveLoop, dispatchWithoutDiscoveredTenant,
           sweepListedTenants, schedulerVars, moving, scheduling, history
<1> QED
    BY <1>2, <1>3, <1>4

LEMMA RotationFair == CycleInv /\ RotationInv => RotationIsFair
<1> SUFFICES ASSUME CycleInv, RotationInv, listed # <<>>, Len(firsts) = Len(listed)
             PROVE  ToSet(firsts) = ToSet(listed)
    BY DEF RotationIsFair
<1>1. PICK n : n = Len(listed)
    OBVIOUS
<1>2. /\ n \in Nat \ {0} /\ tenantTurn \in Nat /\ (n > 1 => tenantTurn < n)
      /\ listed \in Seq(Scopes) /\ firsts \in Seq(Scopes) /\ Len(firsts) = n
    BY <1>1 DEF CycleInv, SchedulerTypes, RotationInv
<1>3. \A j \in 1 .. n : firsts[j] = listed[PlaceOf(j)]
    BY <1>1, <1>2 DEF RotationInv
<1>4. \A j \in 1 .. n : PlaceOf(j) = IF n = 1 THEN 1 ELSE IF tenantTurn > n - j THEN tenantTurn - (n - j)
                                     ELSE tenantTurn - (n - j) + n
    BY <1>1, <1>2 DEF PlaceOf
<1>5. \A j \in 1 .. n : PlaceOf(j) \in 1 .. n
    BY <1>2, <1>4
<1>6. ASSUME NEW p \in 1 .. n PROVE \E j \in 1 .. n : PlaceOf(j) = p
    <2>1. CASE p <= tenantTurn /\ n > 1
        <3>1. n - (tenantTurn - p) \in 1 .. n /\ PlaceOf(n - (tenantTurn - p)) = p
            BY <1>2, <1>4, <2>1
        <3> QED
            BY <3>1
    <2>2. CASE p > tenantTurn /\ n > 1
        <3>1. n - (tenantTurn - p + n) \in 1 .. n /\ PlaceOf(n - (tenantTurn - p + n)) = p
            BY <1>2, <1>4, <2>2
        <3> QED
            BY <3>1
    <2>3. CASE n = 1
        BY <1>4, <2>3
    <2> QED
        BY <1>2, <2>1, <2>2, <2>3
<1>7. ASSUME NEW s \in ToSet(firsts) PROVE s \in ToSet(listed)
    <2>1. PICK j \in 1 .. n : s = firsts[j]
        BY <1>2, Members
    <2>2. s = listed[PlaceOf(j)] /\ PlaceOf(j) \in 1 .. n
        BY <2>1, <1>3, <1>5
    <2> QED
        BY <1>1, <1>2, <2>2, Members
<1>8. ASSUME NEW s \in ToSet(listed) PROVE s \in ToSet(firsts)
    <2>1. PICK p \in 1 .. n : s = listed[p]
        BY <1>1, <1>2, Members
    <2>2. PICK j \in 1 .. n : PlaceOf(j) = p
        BY <1>6
    <2>3. s = firsts[j]
        BY <2>1, <2>2, <1>3
    <2> QED
        BY <1>2, <2>3, Members
<1> QED
    BY <1>7, <1>8

(* The sweep memory: it holds the last sweep of each of its scopes, and    *)
(* what it has forgotten was an interval old when it was last pruned.      *)
SweepMemory ==
    /\ swept \in [Swept -> Nat] /\ retentionPrunedAt \in Nat
    /\ DOMAIN retentionSweptAt \subseteq Swept
    /\ \A s \in DOMAIN retentionSweptAt : retentionSweptAt[s] = swept[s]
    /\ \A s \in Swept : s \notin DOMAIN retentionSweptAt /\ swept[s] # 0
                          => swept[s] + RetentionSweepInterval <= retentionPrunedAt
    /\ retentionPrunedAt # 0 => \A s \in DOMAIN retentionSweptAt :
                                  swept[s] + RetentionSweepInterval > retentionPrunedAt

SweptBy(t) == retentionPrunedAt <= t /\ \A s \in Swept : swept[s] <= t

(* No sweep is later than the clock, or than the reading of it that the    *)
(* dispatch under way will sweep with.                                     *)
SweepInv == SweepMemory /\ SweptBy(IF dpc = "dispatch" THEN now ELSE time)

LEMMA ClaimRemembers ==
    ASSUME cfg \in Configs, cfg' = cfg, SweepMemory, NEW t \in Nat, SweptBy(t),
           NEW S \in SUBSET Swept, claimRetentionSweep(S, t)
    PROVE  SweepMemory' /\ SweptBy(t)' /\ SweepIsRemembered
<1>1. PICK granted : granted = SweepDue(S, t)
    OBVIOUS
<1>2. PICK kept : kept = IF granted # {} /\ PruneDue(t) THEN DOMAIN retentionSweptAt \ Aged(t) ELSE DOMAIN retentionSweptAt
    OBVIOUS
<1>3. /\ retentionSweptAt' = [s \in kept \cup granted |-> IF s \in granted THEN t ELSE retentionSweptAt[s]]
      /\ retentionPrunedAt' = IF granted # {} /\ PruneDue(t) THEN t ELSE retentionPrunedAt
      /\ swept' = [s \in Swept |-> IF s \in granted THEN t ELSE swept[s]]
    BY <1>1, <1>2 DEF claimRetentionSweep
<1>4. RetentionSweepInterval \in Nat \ {0} /\ RetentionSweepInterval' = RetentionSweepInterval
    BY ConfigFacts
<1>5. granted \subseteq Swept /\ kept \subseteq DOMAIN retentionSweptAt /\ kept \subseteq Swept
    BY <1>1, <1>2 DEF SweepDue, SweepMemory
<1>6. /\ DOMAIN retentionSweptAt' = kept \cup granted
      /\ swept' \in [Swept -> Nat]
      /\ \A s \in Swept : swept'[s] = IF s \in granted THEN t ELSE swept[s]
      /\ \A s \in kept \cup granted : retentionSweptAt'[s] = swept'[s]
      /\ retentionPrunedAt' \in Nat
    BY <1>3, <1>5 DEF SweepMemory
<1>7. SweptBy(t)'
    BY <1>3, <1>6 DEF SweptBy
<1>8. \A s \in granted : s \in DOMAIN retentionSweptAt => t - swept[s] >= RetentionSweepInterval
    BY <1>1 DEF SweepDue, SweepMemory
<1>9. \A s \in Swept : swept[s] \in Nat /\ swept[s] <= t
    BY DEF SweepMemory, SweptBy
<1>10. retentionPrunedAt \in Nat /\ retentionPrunedAt <= t
    BY DEF SweepMemory, SweptBy
<1>11. SweepsAreSpaced
    <2> SUFFICES ASSUME NEW s \in Swept, swept'[s] # swept[s], swept[s] # 0
                 PROVE  swept'[s] - swept[s] >= RetentionSweepInterval
        BY DEF SweepsAreSpaced
    <2>1. s \in granted /\ swept'[s] = t
        BY <1>6
    <2>2. CASE s \in DOMAIN retentionSweptAt
        BY <1>8, <2>1, <2>2
    <2>3. CASE s \notin DOMAIN retentionSweptAt
        <3>1. swept[s] + RetentionSweepInterval <= retentionPrunedAt
            BY <2>3 DEF SweepMemory
        <3> QED
            BY <2>1, <3>1, <1>4, <1>9, <1>10
    <2> QED
        BY <2>2, <2>3
<1>12. CASE granted # {} /\ PruneDue(t)
    <2>1. kept = DOMAIN retentionSweptAt \ Aged(t) /\ retentionPrunedAt' = t
        BY <1>2, <1>3, <1>12
    <2>2. \A s \in DOMAIN retentionSweptAt : s \in kept <=> ~(t - swept[s] >= RetentionSweepInterval)
        BY <2>1 DEF Aged, SweepMemory
    <2>3. \A s \in kept \cup granted : swept'[s] \in Nat /\ swept'[s] <= t /\ swept'[s] + RetentionSweepInterval > t
        BY <1>4, <1>5, <1>6, <1>9, <2>2
    <2>4. ASSUME NEW s \in Swept, s \notin kept \cup granted, swept'[s] # 0
          PROVE  swept'[s] + RetentionSweepInterval <= t
        <3>1. swept'[s] = swept[s]
            BY <2>4, <1>6
        <3>2. CASE s \in DOMAIN retentionSweptAt
            BY <2>2, <2>4, <3>1, <3>2, <1>4, <1>9
        <3>3. CASE s \notin DOMAIN retentionSweptAt
            <4>1. swept[s] + RetentionSweepInterval <= retentionPrunedAt
                BY <2>4, <3>1, <3>3 DEF SweepMemory
            <4> QED
                BY <3>1, <4>1, <1>4, <1>9, <1>10
        <3> QED
            BY <3>2, <3>3
    <2>5. SweepMemory'
        BY <1>4, <1>5, <1>6, <2>1, <2>3, <2>4 DEF SweepMemory
    <2>6. SweepMemoryIsRecent
        <3> SUFFICES ASSUME NEW s \in DOMAIN retentionSweptAt', NEW u \in DOMAIN retentionSweptAt'
                     PROVE  retentionSweptAt'[s] + 2 * RetentionSweepInterval > retentionSweptAt'[u]
            BY DEF SweepMemoryIsRecent
        <3>1. retentionSweptAt'[s] = swept'[s] /\ retentionSweptAt'[u] = swept'[u] /\ s \in kept \cup granted /\ u \in kept \cup granted
            BY <1>6
        <3> QED
            BY <3>1, <2>3, <1>4
    <2> QED
        BY <1>7, <1>11, <2>5, <2>6 DEF SweepIsRemembered
<1>13. CASE granted = {}
    <2>1. kept = DOMAIN retentionSweptAt /\ retentionPrunedAt' = retentionPrunedAt
        BY <1>2, <1>3, <1>13
    <2>2. swept' = swept /\ DOMAIN retentionSweptAt' = DOMAIN retentionSweptAt
        BY <1>3, <1>6, <1>13, <2>1 DEF SweepMemory
    <2>3. SweepMemory'
        BY <1>4, <1>6, <1>13, <2>1, <2>2 DEF SweepMemory
    <2> QED
        BY <1>7, <1>11, <2>2, <2>3 DEF SweepIsRemembered, SweepMemoryIsRecent
<1>14. CASE ~PruneDue(t)
    <2>1. kept = DOMAIN retentionSweptAt /\ retentionPrunedAt' = retentionPrunedAt
        BY <1>2, <1>3, <1>14
    <2>2. retentionPrunedAt # 0 /\ t - retentionPrunedAt < RetentionSweepInterval
        BY <1>4, <1>10, <1>14 DEF PruneDue
    <2>3. \A s \in kept \cup granted : /\ swept'[s] \in Nat /\ swept'[s] <= t
                                       /\ swept'[s] + RetentionSweepInterval > retentionPrunedAt
        <3>1. \A s \in kept : swept[s] + RetentionSweepInterval > retentionPrunedAt
            BY <2>1, <2>2 DEF SweepMemory
        <3> QED
            BY <1>4, <1>5, <1>6, <1>9, <1>10, <3>1
    <2>4. ASSUME NEW s \in Swept, s \notin kept \cup granted, swept'[s] # 0
          PROVE  swept'[s] + RetentionSweepInterval <= retentionPrunedAt
        BY <2>1, <2>4, <1>6 DEF SweepMemory
    <2>5. SweepMemory'
        BY <1>4, <1>5, <1>6, <2>1, <2>3, <2>4 DEF SweepMemory
    <2>6. SweepMemoryIsRecent
        <3> SUFFICES ASSUME NEW s \in DOMAIN retentionSweptAt', NEW u \in DOMAIN retentionSweptAt'
                     PROVE  retentionSweptAt'[s] + 2 * RetentionSweepInterval > retentionSweptAt'[u]
            BY DEF SweepMemoryIsRecent
        <3>1. retentionSweptAt'[s] = swept'[s] /\ retentionSweptAt'[u] = swept'[u] /\ s \in kept \cup granted /\ u \in kept \cup granted
            BY <1>6
        <3> QED
            BY <3>1, <2>2, <2>3, <1>4, <1>10
    <2> QED
        BY <1>7, <1>11, <2>5, <2>6 DEF SweepIsRemembered
<1> QED
    BY <1>12, <1>13, <1>14

LEMMA SweepRemembers ==
    ASSUME cfg \in Configs, cfg' = cfg, SweepMemory, NEW t \in Nat, SweptBy(t),
           NEW S \in SUBSET Swept, sweepRetention(S, t)
    PROVE  SweepMemory' /\ SweptBy(t)' /\ SweepIsRemembered
<1>1. CASE cancelled
    BY <1>1 DEF sweepRetention, SweepMemory, SweptBy, SweepIsRemembered, SweepsAreSpaced, SweepMemoryIsRecent
<1>2. CASE ~cancelled
    BY <1>2, ClaimRemembers DEF sweepRetention
<1> QED
    BY <1>1, <1>2

LEMMA LaterStill ==
    ASSUME cfg' = cfg, SweepMemory, NEW t \in Nat, NEW u \in Nat, t <= u
    PROVE  SweptBy(t) => SweptBy(u)
    BY DEF SweepMemory, SweptBy

LEMMA SweepInitially == SchedulerInit => SweepInv
    BY DEF SchedulerInit, SweepInv, SweepMemory, SweptBy

LEMMA SweepInductive ==
    CycleInv /\ SweepInv /\ [SchedulerNext]_schedulerVars => SweepInv' /\ (SweepIsRemembered \/ UNCHANGED schedulerVars)
<1> SUFFICES ASSUME CycleInv, SweepInv, [SchedulerNext]_schedulerVars
             PROVE  SweepInv' /\ (SweepIsRemembered \/ UNCHANGED schedulerVars)
    OBVIOUS
<1>1. cfg' = cfg /\ cfg \in Configs /\ time \in Nat /\ now \in Nat /\ now <= time
    BY DEF SchedulerNext, schedulerVars, CycleInv, SchedulerTypes
<1> USE DEF retention, scheduling, history
<1> DEFINE kept == UNCHANGED <<retentionSweptAt, retentionPrunedAt, swept>>
<1>2. ASSUME kept PROVE SweepMemory' /\ SweepIsRemembered /\ \A t : SweptBy(t) => retentionPrunedAt' <= t /\ \A s \in Swept' : swept'[s] <= t
    <2>1. retentionSweptAt' = retentionSweptAt /\ retentionPrunedAt' = retentionPrunedAt /\ swept' = swept
        BY <1>2
    <2>2. SweepMemory'
        BY <1>1, <2>1 DEF SweepInv, SweepMemory
    <2>3. SweepIsRemembered
        BY <2>1 DEF SweepIsRemembered, SweepsAreSpaced, SweepMemoryIsRecent
    <2> QED
        BY <1>1, <2>1, <2>2, <2>3 DEF SweptBy
<1>3. ASSUME kept, dpc' = dpc /\ now' = now /\ time' \in Nat /\ time' >= time PROVE SweepInv' /\ SweepIsRemembered
    <2>1. SweptBy(IF dpc = "dispatch" THEN now ELSE time')
        BY <1>1, <1>3, LaterStill DEF SweepInv
    <2> QED
        BY <1>2, <1>3, <2>1 DEF SweepInv, SweptBy
<1>4. ASSUME kept, time' = time, dpc' # "dispatch" PROVE SweepInv' /\ SweepIsRemembered
    <2>1. SweptBy(time)
        BY <1>1, LaterStill DEF SweepInv
    <2> QED
        BY <1>2, <1>4, <2>1 DEF SweepInv, SweptBy
<1>5. CASE SchedulerTick
    BY <1>1, <1>3, <1>5 DEF SchedulerTick
<1>6. CASE Cancel
    BY <1>1, <1>3, <1>6 DEF Cancel
<1>7. CASE Restart
    BY <1>1, <1>3, <1>7 DEF Restart
<1>8. CASE \E listing \in cfg.listings : StartCycle(listing)
    <2>1. kept /\ time' = time /\ dpc' # "dispatch"
        BY <1>8 DEF StartCycle
    <2> QED
        BY <2>1, <1>4
<1>9. CASE Visit
    <2>1. kept /\ time' = time /\ now' = time /\ dpc = "visit"
        BY <1>9 DEF Visit
    <2>2. SweptBy(time)
        BY <2>1 DEF SweepInv
    <2> QED
        BY <1>2, <2>1, <2>2 DEF SweepInv, SweptBy
<1>10. ASSUME NEW work \in BOOLEAN, Dispatched(work) PROVE SweepInv' /\ SweepIsRemembered
    <2>1. PICK h : h = Head(queue)
        OBVIOUS
    <2>2. /\ dpc = "dispatch" /\ dpc' = "visit" /\ sweepRetention({h}, now) /\ time' = time
        BY <1>10, <2>1 DEF Dispatched
    <2>3. {h} \in SUBSET Swept
        <3>1. queue # <<>> /\ queue \in Seq(Scopes)
            BY <2>2 DEF CycleInv, ServedInv, SchedulerTypes
        <3>2. h \in Scopes
            BY <2>1, <3>1, QueueOf
        <3> QED
            BY <3>2
    <2>4. SweptBy(now) /\ SweepMemory
        BY <2>2 DEF SweepInv
    <2>5. SweepMemory' /\ SweptBy(now)' /\ SweepIsRemembered
        <3>1. PICK t : t = now
            OBVIOUS
        <3>2. SweepMemory' /\ SweptBy(t)' /\ SweepIsRemembered
            BY <1>1, <2>2, <2>3, <2>4, <3>1, SweepRemembers
        <3>3. now' = now
            BY <1>10 DEF Dispatched
        <3> QED
            BY <3>1, <3>2, <3>3
    <2>6. now' = now
        BY <1>10 DEF Dispatched
    <2>7. SweptBy(time)'
        BY <1>1, <2>2, <2>5, <2>6 DEF SweptBy, SweepMemory
    <2> QED
        BY <2>2, <2>5, <2>7 DEF SweepInv
<1>11. CASE LeaveLoop
    BY <1>4, <1>11 DEF LeaveLoop
<1>12. ASSUME NEW S \in SUBSET Swept, sweepRetention(S, time), time' = time, dpc # "dispatch", dpc' # "dispatch"
       PROVE  SweepInv' /\ SweepIsRemembered
    <2>1. PICK t : t = time
        OBVIOUS
    <2>2. SweptBy(t) /\ SweepMemory
        BY <1>12, <2>1 DEF SweepInv
    <2>3. SweepMemory' /\ SweptBy(t)' /\ SweepIsRemembered
        BY <1>1, <1>12, <2>1, <2>2, SweepRemembers
    <2> QED
        BY <1>12, <2>1, <2>3 DEF SweepInv
<1>13. CASE dispatchWithoutDiscoveredTenant
    <2>1. dpc = "fallback" /\ dpc' = "list" /\ time' = time /\ (kept \/ sweepRetention({FallbackScope}, time))
        BY <1>13 DEF dispatchWithoutDiscoveredTenant
    <2>2. {FallbackScope} \in SUBSET Swept
        OBVIOUS
    <2> QED
        BY <2>1, <2>2, <1>4, <1>12
<1>14. ASSUME NEW S \in SUBSET Scopes, sweepListedTenants(S) PROVE SweepInv' /\ SweepIsRemembered
    <2>1. dpc = "list" /\ dpc' = "idle" /\ time' = time /\ (kept \/ sweepRetention(S, time))
        BY <1>14 DEF sweepListedTenants
    <2>2. S \in SUBSET Swept
        OBVIOUS
    <2> QED
        BY <2>1, <2>2, <1>4, <1>12
<1>15. CASE UNCHANGED schedulerVars
    BY <1>1, <1>3, <1>15 DEF schedulerVars, moving
<1> QED
    BY <1>5, <1>6, <1>7, <1>8, <1>9, <1>10, <1>11, <1>13, <1>14, <1>15 DEF SchedulerNext

LEMMA RotationInitially == SchedulerInit => RotationInv
<1>1. <<>> \in Seq(Scopes) /\ Len(<<>>) = 0
    OBVIOUS
<1> QED
    BY <1>1 DEF SchedulerInit, RotationInv

(* Every listed scope is polled within its interval and leads a cycle in   *)
(* its turn (dispatchAcrossTenants, tenantDispatchScopeOrder,              *)
(* shouldDispatchScope, recordScopeActivity).                              *)
THEOREM CyclesServeAll == SchedulerSpec => [](ServedInTime /\ RotationIsFair)
<1>1. SchedulerInit => CycleInv /\ RotationInv
    BY CycleInitially, RotationInitially
<1>2. CycleInv /\ RotationInv /\ [SchedulerNext]_schedulerVars => (CycleInv /\ RotationInv)'
    BY CycleInductive, RotationInductive
<1>3. CycleInv /\ RotationInv => ServedInTime /\ RotationIsFair
    BY CycleServes, RotationFair
<1> QED
    BY <1>1, <1>2, <1>3, PTL DEF SchedulerSpec

(* The sweep memory is pruned neither too early nor too late: a scope is   *)
(* never swept twice within the interval, and what is remembered is recent *)
(* (claimRetentionSweep).                                                  *)
THEOREM SweepsAreRememberedHolds == SchedulerSpec => SweepsAreRemembered
<1>1. SchedulerInit => CycleInv /\ SweepInv
    BY CycleInitially, SweepInitially
<1>2. CycleInv /\ SweepInv /\ [SchedulerNext]_schedulerVars => (CycleInv /\ SweepInv)'
    BY CycleInductive, SweepInductive
<1>3. CycleInv /\ SweepInv /\ [SchedulerNext]_schedulerVars => [SweepIsRemembered]_schedulerVars
    BY SweepInductive
<1> QED
    BY <1>1, <1>2, <1>3, PTL DEF SchedulerSpec, SweepsAreRemembered

(* What NobodyIsForgotten says of the dispatcher holds for every           *)
(* configuration, listing and number of tenants.                           *)
THEOREM NobodyIsForgottenHolds == SchedulerSpec /\ CountersSpec => []NobodyIsForgotten
<1>1. ServedInTime /\ RotationIsFair /\ (CountersBounded /\ RepeatedFailuresLogged) => NobodyIsForgotten
    BY DEF NobodyIsForgotten
<1> QED
    BY <1>1, CyclesServeAll, CountersSoundHolds, PTL
=============================================================================

---------------------------- MODULE ObjectStorage ----------------------------
(***************************************************************************)
(* Object storage on S3, seen at one key of a versioned bucket: retained   *)
(* creation with recovery (CreateOrRecoverRetained), plain retained        *)
(* creation, and the tenant storage's Upload, Create and Delete on the     *)
(* same key.  A put may be refused, lost, applied with its answer lost, or *)
(* applied after the caller has given up on it; recovery then lists the    *)
(* versions, page by page, and accepts only a sole one that matches.       *)
(*                                                                         *)
(* The bucket is the newest-first sequence of the key's versions and       *)
(* delete markers; every other key with this prefix sorts after it, so a   *)
(* listing has passed the key when the sequence is over.                   *)
(***************************************************************************)
EXTENDS Integers, Sequences

CONSTANTS
    Writers,
    Wishes,     \* writer -> [op, until, fits: the body has the expected length, large]
    PageSize,   \* retainedRecoveryMaxKeys
    MaxPages,   \* retainedRecoveryMaxPages
    MaxPuts, MaxStorageFaults

(* A retained write asks for a time S3 can represent (two half seconds or  *)
(* more), and a listing returns something.                                 *)
ASSUME ObjectsAssumption ==
    /\ PageSize \in Nat \ {0}
    /\ Wishes \subseteq [Writers -> [op : {"recover", "retain", "upload", "create", "delete"},
                                    until : Nat, fits : BOOLEAN, large : BOOLEAN]]
    /\ \A w \in Wishes, c \in Writers : w[c].op \in {"recover", "retain"} => w[c].until >= 2

VARIABLES
    wish,
    entries,    \* newest first: [id, until]; until 0 for a delete marker
    puts, storageFaults,
    pc, caller, \* caller -> control and [id, seen, page, result]
    inflight,   \* callers whose put may still arrive
    spools,     \* callers with a body in a temporary file
    sole,       \* history: ids that were the sole version during the call
    notSole     \* history: during the call the key had no sole version

osvars == <<wish, entries, puts, storageFaults, pc, caller, inflight, spools, sole, notSole>>

unwritten == [id |-> 0, seen |-> 0, page |-> 0, result |-> "none"]

ObjectStorageInit ==
    /\ wish \in Wishes /\ entries = <<>> /\ puts = 0 /\ storageFaults = 0
    /\ pc = [c \in Writers |-> "start"]
    /\ caller = [c \in Writers |-> unwritten]
    /\ inflight = {} /\ spools = {}
    /\ sole = [c \in Writers |-> {}] /\ notSole = {}

versions(s) == {i \in DOMAIN s : s[i].until > 0}
exists == entries # <<>> /\ entries[1].until > 0
isSole(s) == versions(s) = {1}

retains(c)  == wish[c].op \in {"recover", "retain"}
recovers(c) == wish[c].op = "recover"

(* canonicalObjectLockTime: times count half seconds, S3 keeps seconds.    *)
canonicalObjectLockTime(t) == 2 * (t \div 2)

(* What a put adds, under a fresh version id.                              *)
written(c) == [id |-> puts + 1,
               until |-> IF retains(c) THEN canonicalObjectLockTime(wish[c].until) ELSE 1]

(* Mutant: the write is not conditional.                                   *)
overwrites(c) == TRUE

(* PutObject on S3: IfNoneMatch "*" on every write but Upload.             *)
accepted(c) == wish[c].op = "upload" \/ ~exists

put(c) ==
    IF accepted(c) THEN entries' = <<written(c)>> \o entries /\ puts' = puts + 1
                   ELSE UNCHANGED <<entries, puts>>

(* History of what the bucket looked like, for every call that is open.    *)
Observe ==
    /\ sole' = [c \in Writers |->
                  IF pc'[c] = "start" THEN {}
                  ELSE sole[c] \cup {s[1].id : s \in {x \in {entries, entries'} : isSole(x)}}]
    /\ notSole' = {c \in Writers : pc'[c] # "start" /\
                     (c \in notSole \/ ~isSole(entries) \/ ~isSole(entries'))}

moves(c, l)   == pc' = [pc EXCEPT ![c] = l]
finish(c, r) == caller' = [caller EXCEPT ![c].result = r] /\ moves(c, "done")

-----------------------------------------------------------------------------
(* seekableBody spools a large body that cannot be rewound; a buffered one *)
(* needs no file.                                                          *)
seekableBody(c) == IF wish[c].large /\ ~recovers(c) THEN {c} ELSE {}

(* bufferExpectedRetainedBody reads the body of a recovering create first, *)
(* so that one of the wrong length is never written.                       *)
asExpected(c) == recovers(c) => wish[c].fits

(* A call begins: expectations are checked, the body is made seekable.     *)
begins(c) ==
    /\ pc[c] = "start" /\ wish[c].op # "delete"
    /\ IF asExpected(c)
         THEN moves(c, "put") /\ UNCHANGED caller /\ spools' = spools \cup seekableBody(c)
         ELSE finish(c, "mismatch") /\ UNCHANGED spools
    /\ UNCHANGED <<wish, entries, puts, storageFaults, inflight>> /\ Observe

(* Reading or spooling the body fails: the file is gone again.             *)
bodyFails(c) ==
    /\ pc[c] = "start" /\ wish[c].op # "delete" /\ storageFaults < MaxStorageFaults
    /\ storageFaults' = storageFaults + 1 /\ finish(c, "failed")
    /\ UNCHANGED <<wish, entries, puts, inflight, spools>> /\ Observe

(* isAlreadyExists: the put was refused.                                   *)
alreadyExists(c) ==
    /\ pc[c] = "put" /\ ~accepted(c)
    /\ IF recovers(c) THEN moves(c, "list") /\ caller' = [caller EXCEPT ![c].page = 0]
                      ELSE finish(c, "exists")
    /\ spools' = spools \ {c}
    /\ UNCHANGED <<wish, entries, puts, storageFaults, inflight>> /\ Observe

(* The put succeeded: a retained create reads the version back.            *)
putSucceeds(c) ==
    /\ pc[c] = "put" /\ accepted(c) /\ puts < MaxPuts /\ put(c)
    /\ IF retains(c)
         THEN moves(c, "head") /\ caller' = [caller EXCEPT ![c].id = puts + 1] /\ UNCHANGED spools
         ELSE finish(c, "ok") /\ spools' = spools \ {c}
    /\ UNCHANGED <<wish, storageFaults, inflight>> /\ Observe

(* isAmbiguousRetainedWrite: a deadline, a cancellation, a network timeout.*)
isAmbiguousRetainedWrite(err) == err = "timeout"

(* The put's answer is an error; it was applied, or not, or not yet.       *)
putFails(c, err) ==
    /\ pc[c] = "put" /\ storageFaults < MaxStorageFaults /\ puts < MaxPuts /\ storageFaults' = storageFaults + 1
    /\ \/ put(c) /\ UNCHANGED inflight
       \/ err = "timeout" /\ inflight' = inflight \cup {c} /\ UNCHANGED <<entries, puts>>
       \/ UNCHANGED <<entries, puts, inflight>>
    /\ IF recovers(c) /\ isAmbiguousRetainedWrite(err)
         THEN moves(c, "list") /\ caller' = [caller EXCEPT ![c].page = 0]
         ELSE finish(c, "failed")
    /\ spools' = spools \ {c}
    /\ UNCHANGED wish /\ Observe

(* A put that was given up on arrives after all.                           *)
arrivesLate(c) ==
    /\ c \in inflight /\ puts < MaxPuts /\ inflight' = inflight \ {c}
    /\ put(c)
    /\ UNCHANGED <<wish, storageFaults, pc, caller, spools>> /\ Observe

placeOf(id) == (CHOOSE i \in DOMAIN entries : entries[i].id = id)
matches(c, id) == entries[placeOf(id)].until = canonicalObjectLockTime(wish[c].until)

(* validateRecoveredMetadata.                                              *)
validated(c, id) == IF recovers(c) /\ ~matches(c, id) THEN "mismatch" ELSE "ok"

(* statResolvedVersion, after a create or a recovery.                      *)
statResolvedVersion(c) ==
    /\ pc[c] = "head" /\ finish(c, validated(c, caller[c].id))
    /\ spools' = spools \ {c}
    /\ UNCHANGED <<wish, entries, puts, storageFaults, inflight>> /\ Observe

(* The read-back fails: right after the create a timeout leads to recovery.*)
statFails(c, err) ==
    /\ pc[c] = "head" /\ storageFaults < MaxStorageFaults /\ storageFaults' = storageFaults + 1
    /\ IF recovers(c) /\ caller[c].page = 0 /\ isAmbiguousRetainedWrite(err)
         THEN moves(c, "list") /\ UNCHANGED caller
         ELSE finish(c, "failed")
    /\ spools' = spools \ {c}
    /\ UNCHANGED <<wish, entries, puts, inflight>> /\ Observe

-----------------------------------------------------------------------------
(* One page of the listing after the entries already seen; what is written *)
(* meanwhile is newer and does not show.                                   *)
rest(c) == IF caller[c].page = 0 THEN entries
           ELSE LET k == placeOf(caller[c].seen) IN SubSeq(entries, k + 1, Len(entries))
truncated(c) == Len(rest(c)) > PageSize
page(c) == IF truncated(c) THEN SubSeq(rest(c), 1, PageSize) ELSE rest(c)

(* scanRetainedVersionPage: a second version, one that is not the latest,  *)
(* or a delete marker that is.                                             *)
foundVersion(c) == IF caller[c].page = 0 THEN 0 ELSE caller[c].id
ambiguous(c) ==
    \E i \in DOMAIN page(c) :
      LET e == page(c)[i]  latest == e = entries[1]
      IN  IF e.until > 0 THEN ~latest \/ foundVersion(c) # 0 ELSE latest

pageVersion(c) ==
    LET v == versions(page(c)) IN IF v = {} THEN foundVersion(c) ELSE page(c)[CHOOSE i \in v : TRUE].id

(* recoverRetainedVersion: list until the key is passed.                   *)
recoverRetainedVersion(c) ==
    /\ pc[c] = "list"
    /\ IF ambiguous(c) \/ caller[c].page >= MaxPages \/ (~truncated(c) /\ pageVersion(c) = 0)
         THEN finish(c, "ambiguous")
         ELSE /\ moves(c, IF truncated(c) THEN "list" ELSE "head")
              /\ caller' = [caller EXCEPT ![c].id = pageVersion(c), ![c].page = @ + 1,
                              ![c].seen = IF truncated(c) THEN page(c)[PageSize].id ELSE @]
    /\ UNCHANGED <<wish, entries, puts, storageFaults, inflight, spools>> /\ Observe

listFails(c) ==
    /\ pc[c] = "list" /\ storageFaults < MaxStorageFaults /\ storageFaults' = storageFaults + 1
    /\ finish(c, "failed")
    /\ UNCHANGED <<wish, entries, puts, inflight, spools>> /\ Observe

(* Delete on the same key writes a marker; no version goes away.           *)
Delete(c) ==
    /\ pc[c] = "start" /\ wish[c].op = "delete" /\ puts < MaxPuts
    /\ entries' = <<[id |-> puts + 1, until |-> 0]>> \o entries /\ puts' = puts + 1
    /\ finish(c, "ok")
    /\ UNCHANGED <<wish, storageFaults, inflight, spools>> /\ Observe

(* The application calls again after an error.                             *)
retries(c) ==
    /\ pc[c] = "done" /\ caller[c].result \in {"failed", "ambiguous"}
    /\ moves(c, "start") /\ caller' = [caller EXCEPT ![c] = unwritten]
    /\ UNCHANGED <<wish, entries, puts, storageFaults, inflight, spools>> /\ Observe

ObjectStorageNext == \E c \in Writers :
    \/ begins(c) \/ bodyFails(c) \/ alreadyExists(c) \/ putSucceeds(c)
    \/ \E err \in {"timeout", "other"} : putFails(c, err) \/ statFails(c, err)
    \/ arrivesLate(c) \/ statResolvedVersion(c)
    \/ recoverRetainedVersion(c) \/ listFails(c) \/ Delete(c) \/ retries(c)

ObjectStorageSpec == ObjectStorageInit /\ [][ObjectStorageNext]_osvars

-----------------------------------------------------------------------------
alone == \A c \in Writers : wish[c].op = "recover"
ended(c, r) == pc[c] = "done" /\ caller[c].result = r

(* What a writer is told about an immutable object.  A version that was    *)
(* recovered was the key's sole version at some moment of the call and has *)
(* exactly the retention asked for; "ambiguous" is only ever said of a key *)
(* that had none, or of a history too long to list; and when all writers   *)
(* recover, the key never gets a second version and all of them end with   *)
(* the same one, however puts and answers are lost, delayed and retried.   *)
(* No spool file outlives its call.                                        *)
RecoveredOK == \A c \in Writers : ended(c, "ok") /\ recovers(c) =>
    /\ matches(c, caller[c].id)
    /\ caller[c].page > 0 => caller[c].id \in sole[c]
AmbiguousOK == \A c \in Writers : ended(c, "ambiguous") => c \in notSole \/ caller[c].page >= MaxPages
AloneOK == alone =>
    /\ Len(entries) <= 1
    /\ \A c, d \in Writers : ended(c, "ok") /\ ended(d, "ok") => caller[c].id = caller[d].id
SpoolsOK == \A c \in spools : pc[c] \notin {"start", "done"}

ObjectStorageSound == RecoveredOK /\ AmbiguousOK /\ AloneOK /\ SpoolsOK
=============================================================================

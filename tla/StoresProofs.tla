---------------------------- MODULE StoresProofs ----------------------------
(***************************************************************************)
(* Theorems about stored data.  The outbox on MongoDB keeps its promises   *)
(* without a transaction, for every number of documents, dispatchers,      *)
(* attempts, lost calls and ties of updated_at; calls are routed to their  *)
(* own tenant's database, and what is cached about tenants is not older    *)
(* than it may be, for any number of callers and tenants; and writers of   *)
(* an immutable object are told the truth about it.                        *)
(***************************************************************************)
EXTENDS MCStores, FiniteSetTheorems, TLAPS

Layers == {"priority", "stuck", "failed", "pending"}
Calls  == {"find", "claim", "read", "undo"}
Marks  == {"mark", "failing"}
States == Calls \cup Marks \cup {"idle", "publish", "delete"}

Doc == [status : {"NONE", "PENDING", "PROCESSING", "FAILED", "PUBLISHED", "INVALID"},
        attempts : Nat, token : Dispatchers \cup {"none"}, aged : BOOLEAN]

Dispatcher ==
    [pc : States, layer : Layers \cup {"none"}, scans : Nat, found : SUBSET Documents,
     todo : SUBSET Documents, modified : SUBSET Documents, seen : [Documents -> Nat], got : SUBSET Documents,
     batch : SUBSET Documents, cur : Documents \cup {"none"}, result : {"ok", "retryable", "nonretryable"}]

Types ==
    /\ doc \in [Documents -> Doc] /\ disp \in [Dispatchers -> Dispatcher]
    /\ moved \in [Dispatchers -> SUBSET Documents]
    /\ created \in [Documents -> Nat] /\ handed \in [Documents -> Nat]
    /\ setup \in Setups
    /\ removed \subseteq {"PUBLISHED"}

(* What a dispatcher has in its hands at each point of its cycle.          *)
Shape(d) ==
    /\ disp[d].pc \in Calls => disp[d].layer \in Layers
    /\ disp[d].pc = "claim" => disp[d].todo \subseteq disp[d].found
    /\ disp[d].pc \notin Calls => disp[d].got = {}
    /\ disp[d].pc \in {"idle", "delete"} => disp[d].batch = {}
    /\ disp[d].pc \in Marks => /\ disp[d].cur \in Documents
                               /\ disp[d].result = "ok" => disp[d].cur \in acked
                               /\ disp[d].result = "nonretryable" => disp[d].cur \in refused

(* A status is true, and only a document that ended may have spent its     *)
(* attempts.  A token is on a claim that no read has returned yet.         *)
StatusOK(e) ==
    /\ doc[e].attempts <= MaxAttempts
    /\ doc[e].status # "INVALID" => doc[e].attempts < MaxAttempts
    /\ doc[e].status = "PUBLISHED" => e \in acked
    /\ doc[e].status = "INVALID" => e \in refused \/ doc[e].attempts = MaxAttempts
    /\ doc[e].status = "NONE" => doc[e] = absent
    /\ doc[e].token # "none" => doc[e].status \in {"PROCESSING", "INVALID"}

Marking(d, e) == disp[d].pc \in Marks /\ disp[d].cur = e

(* d holds e, or d's claim of e is under way.                              *)
Has(d, e) == e \in disp[d].batch \/ e \in disp[d].got \/ Marking(d, e)

Claiming(d, e) ==
    /\ disp[d].pc \in {"claim", "read", "undo"} /\ e \in disp[d].found \ disp[d].todo
    /\ disp[d].pc = "claim" => e \in disp[d].modified

(* Unless a stuck reclaim took it over, whoever holds a document holds it  *)
(* alone, while it is PROCESSING and no claim of it is under way.          *)
OwnedOnce(e) ==
    e \notin taken =>
      /\ \A d \in Dispatchers :
           /\ Has(d, e) => doc[e].status = "PROCESSING" /\ doc[e].token = "none"
           /\ Marking(d, e) => e \notin disp[d].batch
           /\ doc[e].token = d => doc[e].status = "PROCESSING" /\ Claiming(d, e)
      /\ \A d, b \in Dispatchers : Has(d, e) /\ Has(b, e) => d = b

(* The handings a document may still have, beside those to come from the   *)
(* claims that hold it and from the one under way.                         *)
Left(s) ==
    CASE s.status \in {"PENDING", "FAILED"} -> MaxAttempts - s.attempts
      [] s.status = "PROCESSING"            -> MaxAttempts - s.attempts - 1
      [] OTHER                              -> 0

UnderWay(s) == IF s.status = "PROCESSING" /\ s.token # "none" THEN 1 ELSE 0

Got(e) == {d \in Dispatchers : e \in disp[d].got}

HandedOK(e) ==
    handed[e] + Cardinality(Got(e)) + UnderWay(doc[e]) + Left(doc[e]) <= MaxAttempts * created[e]

DocInv(e) == StatusOK(e) /\ OwnedOnce(e) /\ HandedOK(e)

IInv ==
    /\ Types
    /\ \A d \in Dispatchers : Shape(d)
    /\ \A e \in Documents : DocInv(e)

-----------------------------------------------------------------------------
(* What one dispatcher's move does to the number of those that hold e in   *)
(* the call they are in.                                                   *)
One(e, S) == IF e \in S THEN 1 ELSE 0

LEMMA GotCount ==
  ASSUME NEW d \in Dispatchers, NEW e
  PROVE  /\ Cardinality({b \in Dispatchers \ {d} : e \in disp[b].got}) \in Nat
         /\ Cardinality(Got(e)) = Cardinality({b \in Dispatchers \ {d} : e \in disp[b].got})
                                    + One(e, disp[d].got)
<1> DEFINE R == {b \in Dispatchers \ {d} : e \in disp[b].got}
<1>1. IsFiniteSet(R) /\ IsFiniteSet(Got(e))
  BY MongoAssumption, FS_Subset DEF Got
<1>2. Cardinality(R) \in Nat /\ Cardinality(Got(e)) \in Nat
  BY <1>1, FS_CardinalityType
<1>3. CASE e \in disp[d].got
  <2>1. Got(e) = R \cup {d} /\ d \notin R
    BY <1>3 DEF Got
  <2> QED BY <1>1, <1>2, <1>3, <2>1, FS_AddElement DEF One
<1>4. CASE e \notin disp[d].got
  <2>1. Got(e) = R
    BY <1>4 DEF Got
  <2> QED BY <1>2, <1>4, <2>1 DEF One
<1> QED BY <1>3, <1>4

LEMMA GotMove ==
  ASSUME NEW d \in Dispatchers, NEW e, \A b \in Dispatchers \ {d} : disp'[b] = disp[b]
  PROVE  /\ Cardinality(Got(e)) \in Nat /\ Cardinality(Got(e))' \in Nat
         /\ Cardinality(Got(e))' + One(e, disp[d].got) = Cardinality(Got(e)) + One(e, disp'[d].got)
<1> DEFINE R == {b \in Dispatchers \ {d} : e \in disp[b].got}
<1>1. R' = R
  OBVIOUS
<1>2. Cardinality(R) \in Nat /\ Cardinality(Got(e)) = Cardinality(R) + One(e, disp[d].got)
  BY GotCount
<1>3. (Cardinality(Got(e)) = Cardinality(R) + One(e, disp[d].got))'
  BY GotCount, PTL
<1>4. Cardinality(Got(e))' = Cardinality(R) + One(e, disp'[d].got)
  BY <1>1, <1>3 DEF One
<1> HIDE DEF R
<1> QED BY <1>2, <1>4 DEF One

LEMMA InitIInv == MongoInit => IInv
<1> SUFFICES ASSUME MongoInit PROVE IInv
  OBVIOUS
<1> USE DEF MongoInit
<1>1. absent \in Doc /\ idle \in Dispatcher
  BY DEF absent, idle, Doc, Dispatcher, States, Calls, Marks, Layers
<1>2. Types
  BY <1>1 DEF Types
<1>3. ASSUME NEW d \in Dispatchers PROVE Shape(d)
  BY DEF Shape, idle, Calls, Marks
<1>4. ASSUME NEW e \in Documents PROVE DocInv(e)
  <2>1. StatusOK(e)
    BY MongoAssumption DEF StatusOK, absent
  <2>2. OwnedOnce(e)
    BY MongoAssumption DEF OwnedOnce, Has, Marking, Marks, absent, idle
  <2>3. Got(e) = {}
    BY DEF Got, idle
  <2>4. HandedOK(e)
    BY <2>3, FS_EmptySet, MongoAssumption DEF HandedOK, UnderWay, Left, absent
  <2> QED BY <2>1, <2>2, <2>4 DEF DocInv
<1> QED BY <1>2, <1>3, <1>4 DEF IInv

-----------------------------------------------------------------------------
(* A step of dispatcher d that leaves document e as it is, and gives d no  *)
(* hold of it.                                                             *)
LEMMA Untouched ==
  ASSUME Types, Types', NEW e \in Documents, DocInv(e), NEW d \in Dispatchers,
         \A b \in Dispatchers \ {d} : disp'[b] = disp[b],
         doc'[e] = doc[e], created'[e] = created[e],
         taken \subseteq taken', acked \subseteq acked', refused \subseteq refused',
         Has(d, e)' => Has(d, e),
         e \notin taken => (Marking(d, e)' => e \notin disp'[d].batch),
         e \notin taken => (doc[e].token = d => Claiming(d, e)'),
         handed'[e] + One(e, disp'[d].got) <= handed[e] + One(e, disp[d].got)
  PROVE  DocInv(e)'
<1>1. StatusOK(e)'
  BY DEF DocInv, StatusOK
<1>2. OwnedOnce(e)'
  <2>1. ASSUME NEW b \in Dispatchers, b # d
        PROVE  /\ Has(b, e)' <=> Has(b, e)
               /\ Marking(b, e)' <=> Marking(b, e)
               /\ Claiming(b, e)' <=> Claiming(b, e)
               /\ disp'[b].batch = disp[b].batch
    BY <2>1 DEF Has, Marking, Claiming
  <2> QED BY <2>1 DEF DocInv, OwnedOnce
<1>3. HandedOK(e)'
  <2>1. UnderWay(doc[e])' = UnderWay(doc[e]) /\ Left(doc[e])' = Left(doc[e])
    BY DEF UnderWay, Left
  <2>2. UnderWay(doc[e]) \in Nat /\ Left(doc[e]) \in Int /\ MaxAttempts * created[e] \in Nat
    BY MongoAssumption DEF UnderWay, Left, Types, Doc
  <2>3. handed[e] \in Nat /\ handed'[e] \in Nat
    BY DEF Types
  <2> QED BY <2>1, <2>2, <2>3, GotMove DEF DocInv, HandedOK, One
<1> QED BY <1>1, <1>2, <1>3 DEF DocInv

(* The claim of e is over: its token is spent, and d may hold it now.      *)
LEMMA TokenSpent ==
  ASSUME Types, Types', NEW e \in Documents, DocInv(e), NEW d \in Dispatchers,
         \A b \in Dispatchers \ {d} : disp'[b] = disp[b],
         doc[e].token = d, doc'[e] = [doc[e] EXCEPT !.token = "none"], created'[e] = created[e],
         taken \subseteq taken', acked \subseteq acked', refused \subseteq refused',
         ~Marking(d, e)',
         handed'[e] + One(e, disp'[d].got) <= handed[e] + One(e, disp[d].got) + UnderWay(doc[e])
  PROVE  DocInv(e)'
<1>0. /\ doc[e] \in Doc /\ doc'[e].status = doc[e].status /\ doc'[e].attempts = doc[e].attempts
      /\ doc'[e].token = "none" /\ d # "none"
  BY MongoAssumption DEF Types, Doc
<1>1. StatusOK(e)'
  BY <1>0 DEF DocInv, StatusOK
<1>2. OwnedOnce(e)'
  <2>1. ASSUME NEW b \in Dispatchers, b # d
        PROVE  Has(b, e)' <=> Has(b, e)
    BY <2>1 DEF Has, Marking
  <2>2. ASSUME NEW b \in Dispatchers, e \notin taken PROVE ~Has(b, e) /\ doc[e].status = "PROCESSING"
    BY <1>0, <2>2 DEF DocInv, OwnedOnce
  <2>3. ASSUME NEW b \in Dispatchers PROVE Marking(b, e)' => Has(b, e)'
    BY DEF Has
  <2> QED BY <1>0, <2>1, <2>2, <2>3, MongoAssumption DEF OwnedOnce
<1>3. HandedOK(e)'
  <2>1. UnderWay(doc[e])' = 0 /\ Left(doc[e])' = Left(doc[e])
    BY <1>0 DEF UnderWay, Left
  <2>2. UnderWay(doc[e]) \in Nat /\ Left(doc[e]) \in Int /\ MaxAttempts * created[e] \in Nat
    BY MongoAssumption DEF UnderWay, Left, Types, Doc
  <2>3. handed[e] \in Nat /\ handed'[e] \in Nat
    BY DEF Types
  <2> QED BY <2>1, <2>2, <2>3, GotMove DEF DocInv, HandedOK, One
<1> QED BY <1>1, <1>2, <1>3 DEF DocInv

(* The parts of the invariant that concern the dispatchers that stand by.  *)
LEMMA Compose ==
  ASSUME IInv, Types', NEW d \in Dispatchers, \A b \in Dispatchers \ {d} : disp'[b] = disp[b],
         acked \subseteq acked', refused \subseteq refused', Shape(d)',
         \A e \in Documents : DocInv(e)'
  PROVE  IInv'
<1>1. ASSUME NEW b \in Dispatchers, b # d PROVE Shape(b)'
  BY <1>1 DEF IInv, Shape
<1> QED BY <1>1 DEF IInv

(* A step of dispatcher d that writes nothing: what it holds afterwards it *)
(* held before.                                                            *)
LEMMA Reads ==
  ASSUME IInv, Types', NEW d \in Dispatchers, \A b \in Dispatchers \ {d} : disp'[b] = disp[b],
         doc' = doc, created' = created, taken' = taken, acked \subseteq acked', refused \subseteq refused',
         Shape(d)',
         \A e \in Documents :
           /\ Has(d, e)' => Has(d, e)
           /\ Marking(d, e)' => e \notin disp'[d].batch \/ e \in taken
           /\ doc[e].token = d => Claiming(d, e)' \/ e \in taken
           /\ handed'[e] + One(e, disp'[d].got) <= handed[e] + One(e, disp[d].got)
  PROVE  IInv'
<1>1. ASSUME NEW e \in Documents PROVE DocInv(e)'
  BY Untouched DEF IInv
<1> QED BY <1>1, Compose

-----------------------------------------------------------------------------
LEMMA IdleIsOne == idle \in Dispatcher
<1> QED BY DEF idle, Dispatcher, States, Calls, Marks, Layers

LEMMA StartCycleStep == ASSUME IInv, NEW d \in Dispatchers, StartCycle(d) PROVE IInv'
<1> USE DEF StartCycle, NoStore, MongoHistory
<1> DEFINE r == [idle EXCEPT !.pc = "find", !.layer = IF d \in setup.priority THEN "priority" ELSE "stuck"]
<1>1. r \in Dispatcher /\ r.pc = "find" /\ r.layer \in Layers /\ r.got = {} /\ r.batch = {}
  BY DEF idle, Dispatcher, States, Calls, Marks, Layers
<1>2. disp' = [disp EXCEPT ![d] = r] /\ disp \in [Dispatchers -> Dispatcher]
  BY DEF IInv, Types
<1> HIDE DEF r
<1>3. disp'[d] = r /\ disp' \in [Dispatchers -> Dispatcher] /\ \A b \in Dispatchers \ {d} : disp'[b] = disp[b]
  BY <1>1, <1>2
<1>4. Types'
  BY <1>3 DEF IInv, Types
<1>5. Shape(d)'
  BY <1>1, <1>3 DEF Shape, Calls, Marks
<1>6. ASSUME NEW e \in Documents
      PROVE  /\ ~Has(d, e)' /\ (doc[e].token = d => e \in taken)
             /\ handed'[e] + One(e, disp'[d].got) <= handed[e] + One(e, disp[d].got)
  <2>1. ~Has(d, e)'
    BY <1>1, <1>3 DEF Has, Marking, Marks
  <2>2. disp[d].pc = "idle" /\ (doc[e].token = d /\ e \notin taken => Claiming(d, e))
    BY DEF IInv, DocInv, OwnedOnce
  <2>3. handed[e] \in Nat
    BY DEF IInv, Types
  <2>4. doc[e].token = d => e \in taken
    BY <2>2 DEF Claiming
  <2>5. disp'[d].got = {} /\ handed' = handed
    BY <1>1, <1>3
  <2> QED BY <2>1, <2>3, <2>4, <2>5 DEF One
<1>7. \A e \in Documents : ~Marking(d, e)'
  BY <1>1, <1>3 DEF Marking, Marks
<1> QED BY <1>3, <1>4, <1>5, <1>6, <1>7, Reads

LEMMA PublishStep == ASSUME IInv, NEW d \in Dispatchers, Publish(d) PROVE IInv'
<1> USE DEF Publish, NoStore
<1>1. PICK x \in disp[d].batch, r \in setup.results :
        /\ disp' = [disp EXCEPT ![d].pc = "mark", ![d].cur = x, ![d].result = r, ![d].batch = @ \ {x}]
        /\ acked' = (IF r = "ok" THEN acked \cup {x} ELSE acked)
        /\ refused' = (IF r = "nonretryable" THEN refused \cup {x} ELSE refused)
  OBVIOUS
<1>2. disp \in [Dispatchers -> Dispatcher] /\ disp[d].pc = "publish" /\ disp[d].got = {}
  BY DEF IInv, Types, Shape, Calls
<1>3. x \in Documents /\ r \in {"ok", "retryable", "nonretryable"}
  BY <1>2, MongoAssumption DEF Dispatcher, IInv, Types
<1>4. /\ \A b \in Dispatchers \ {d} : disp'[b] = disp[b]
      /\ disp'[d] = [disp[d] EXCEPT !.pc = "mark", !.cur = x, !.result = r, !.batch = disp[d].batch \ {x}]
      /\ disp'[d] \in Dispatcher
      /\ disp'[d].pc = "mark" /\ disp'[d].cur = x /\ disp'[d].result = r /\ disp'[d].got = {}
      /\ disp'[d].batch = disp[d].batch \ {x}
  BY <1>1, <1>2, <1>3 DEF Dispatcher, States, Marks
<1>5. Types'
  BY <1>1, <1>2, <1>4 DEF IInv, Types
<1>6. Shape(d)'
  BY <1>1, <1>3, <1>4 DEF Shape, Calls, Marks
<1>7. ASSUME NEW e \in Documents
      PROVE  /\ Has(d, e)' => Has(d, e)
             /\ Marking(d, e)' => e \notin disp'[d].batch
             /\ doc[e].token = d => e \in taken
             /\ handed'[e] + One(e, disp'[d].got) <= handed[e] + One(e, disp[d].got)
  <2>1. doc[e].token = d /\ e \notin taken => Claiming(d, e)
    BY DEF IInv, DocInv, OwnedOnce
  <2>2. handed[e] \in Nat
    BY DEF IInv, Types
  <2> QED BY <1>2, <1>4, <2>1, <2>2 DEF Has, Marking, Marks, Claiming, One
<1> QED BY <1>1, <1>4, <1>5, <1>6, <1>7, Reads

(* The marks that change nothing: the document is read, or the call fails. *)
LEMMA MarkingSteps ==
  ASSUME IInv, NEW d \in Dispatchers, getByIDAndStatus(d) \/ MarkFails(d)
  PROVE  IInv'
<1> USE DEF NoStore, MongoHistory
<1>1. /\ disp \in [Dispatchers -> Dispatcher] /\ disp[d].pc \in Marks /\ disp[d].got = {} /\ disp[d].cur \in Documents
      /\ doc \in [Documents -> Doc]
      /\ doc' = doc /\ moved' = moved /\ created' = created /\ handed' = handed /\ setup' = setup
      /\ taken' = taken /\ acked' = acked /\ refused' = refused /\ removed' = removed
  BY DEF IInv, Types, Shape, Calls, Marks, getByIDAndStatus, MarkFails
<1>2. /\ \A b \in Dispatchers \ {d} : disp'[b] = disp[b]
      /\ disp' \in [Dispatchers -> Dispatcher]
      /\ disp'[d].pc \in {"failing", "publish"} /\ disp'[d].got = {} /\ disp'[d].batch = disp[d].batch
      /\ disp'[d].cur = disp[d].cur /\ disp'[d].result = disp[d].result
  <2>1. CASE MarkFails(d)
    <3> DEFINE r == [disp[d] EXCEPT !.pc = "publish"]
    <3>1. disp' = [disp EXCEPT ![d] = r]
      BY <1>1, <2>1 DEF MarkFails, goto
    <3>2. /\ r \in Dispatcher /\ r.pc = "publish" /\ r.got = {} /\ r.batch = disp[d].batch
          /\ r.cur = disp[d].cur /\ r.result = disp[d].result
      BY <1>1 DEF Dispatcher, States
    <3> HIDE DEF r
    <3> QED BY <1>1, <3>1, <3>2
  <2>2. CASE getByIDAndStatus(d)
    <3> DEFINE p == IF doc[disp[d].cur].status = "PROCESSING" THEN "failing" ELSE "publish"
               n == [disp[d].seen EXCEPT ![disp[d].cur] = doc[disp[d].cur].attempts]
    <3>1. p \in {"failing", "publish"} /\ n \in [Documents -> Nat]
      BY <1>1 DEF Doc, Dispatcher
    <3>2. disp' = [disp EXCEPT ![d] = [disp[d] EXCEPT !.pc = p, !.seen = n]]
      BY <1>1, <2>2 DEF getByIDAndStatus
    <3> HIDE DEF p, n
    <3> DEFINE r == [disp[d] EXCEPT !.pc = p, !.seen = n]
    <3>3. /\ r \in Dispatcher /\ r.pc = p /\ r.got = {} /\ r.batch = disp[d].batch
          /\ r.cur = disp[d].cur /\ r.result = disp[d].result
      BY <1>1, <3>1 DEF Dispatcher, States, Marks
    <3> HIDE DEF r
    <3> QED BY <1>1, <3>1, <3>2, <3>3 DEF r
  <2> QED BY <2>1, <2>2
<1>3. Types'
  BY <1>1, <1>2 DEF IInv, Types
<1>4. Shape(d)'
  BY <1>1, <1>2 DEF IInv, Shape, Calls, Marks
<1>5. ASSUME NEW e \in Documents
      PROVE  /\ Has(d, e)' => Has(d, e)
             /\ Marking(d, e)' => e \notin disp'[d].batch \/ e \in taken
             /\ doc[e].token = d => e \in taken
             /\ handed'[e] + One(e, disp'[d].got) <= handed[e] + One(e, disp[d].got)
  <2>1. e \notin taken => /\ doc[e].token = d => Claiming(d, e)
                          /\ Marking(d, e) => e \notin disp[d].batch
    BY DEF IInv, DocInv, OwnedOnce
  <2>2. ~Claiming(d, e)
    BY <1>1 DEF Claiming, Marks
  <2>3. Marking(d, e)' => Marking(d, e)
    BY <1>1, <1>2 DEF Marking
  <2>4. handed[e] \in Nat
    BY DEF IInv, Types
  <2> QED BY <1>1, <1>2, <2>1, <2>2, <2>3, <2>4 DEF Has, One
<1> QED BY <1>1, <1>2, <1>3, <1>4, <1>5, Reads

LEMMA FindPublishedStep == ASSUME IInv, NEW d \in Dispatchers, findPublished(d) PROVE IInv'
<1> USE DEF findPublished, NoStore, MongoHistory
<1> DEFINE r == [idle EXCEPT !.pc = IF publishedBefore = {} THEN "idle" ELSE "delete", !.found = publishedBefore]
<1>1. r \in Dispatcher /\ r.pc \in {"idle", "delete"} /\ r.got = {} /\ r.batch = {}
  BY DEF idle, Dispatcher, States, Calls, Marks, Layers, publishedBefore
<1>2. disp' = [disp EXCEPT ![d] = r] /\ disp \in [Dispatchers -> Dispatcher]
  BY DEF IInv, Types
<1> HIDE DEF r
<1>3. disp'[d] = r /\ disp' \in [Dispatchers -> Dispatcher] /\ \A b \in Dispatchers \ {d} : disp'[b] = disp[b]
  BY <1>1, <1>2
<1>4. Types'
  BY <1>3 DEF IInv, Types
<1>5. Shape(d)'
  BY <1>1, <1>3 DEF Shape, Calls, Marks
<1>6. ASSUME NEW e \in Documents
      PROVE  /\ ~Has(d, e)' /\ ~Marking(d, e)' /\ (doc[e].token = d => e \in taken)
             /\ handed'[e] + One(e, disp'[d].got) <= handed[e] + One(e, disp[d].got)
  <2>1. ~Has(d, e)' /\ ~Marking(d, e)'
    BY <1>1, <1>3 DEF Has, Marking, Marks
  <2>2. disp[d].pc = "publish" /\ (doc[e].token = d /\ e \notin taken => Claiming(d, e))
    BY DEF IInv, DocInv, OwnedOnce
  <2>3. handed[e] \in Nat /\ handed' = handed /\ disp'[d].got = {}
    BY <1>1, <1>3 DEF IInv, Types
  <2>4. doc[e].token = d => e \in taken
    BY <2>2 DEF Claiming
  <2> QED BY <2>1, <2>3, <2>4 DEF One
<1> QED BY <1>3, <1>4, <1>5, <1>6, Reads

-----------------------------------------------------------------------------
(* The two ways on after a scan.                                           *)
LEMMA CallOverMove ==
  ASSUME Types, NEW d \in Dispatchers, NEW out \in SUBSET Documents, CallOver(d, out)
  PROVE  /\ disp' \in [Dispatchers -> Dispatcher] /\ \A b \in Dispatchers \ {d} : disp'[b] = disp[b]
         /\ disp'[d].pc \in {"find", "publish"} /\ (disp'[d].pc = "find" => disp'[d].layer \in Layers)
         /\ disp'[d].got = {} /\ disp'[d].batch = disp[d].batch \cup out
<1> DEFINE b == disp[d].batch \cup out
           next == following(disp[d].layer)
           p == IF next # "none" /\ Cardinality(b) < BatchSize THEN "find" ELSE "publish"
           r == [idle EXCEPT !.batch = b, !.layer = next, !.pc = p]
<1>1. disp \in [Dispatchers -> Dispatcher] /\ b \in SUBSET Documents
  BY DEF Types, Dispatcher
<1>2. next \in Layers \cup {"none"} /\ p \in {"find", "publish"} /\ (p = "find" => next \in Layers)
  BY DEF following, Layers
<1>3. disp' = [disp EXCEPT ![d] = r]
  BY DEF CallOver
<1> HIDE DEF b, next, p
<1>4. r \in Dispatcher /\ r.pc = p /\ r.layer = next /\ r.got = {} /\ r.batch = b
  BY <1>1, <1>2 DEF idle, Dispatcher, States, Calls, Marks, Layers
<1> QED BY <1>1, <1>2, <1>3, <1>4 DEF b

LEMMA ScanAgainMove ==
  ASSUME Types, NEW d \in Dispatchers, disp[d].layer \in Layers, NEW out \in SUBSET Documents, ScanAgain(d, out)
  PROVE  /\ disp' \in [Dispatchers -> Dispatcher] /\ \A b \in Dispatchers \ {d} : disp'[b] = disp[b]
         /\ disp'[d].pc = "find" /\ disp'[d].layer \in Layers
         /\ disp'[d].got = out /\ disp'[d].batch = disp[d].batch
<1> DEFINE r == [idle EXCEPT !.pc = "find", !.layer = disp[d].layer, !.scans = disp[d].scans,
                             !.got = out, !.batch = disp[d].batch]
<1>1. disp \in [Dispatchers -> Dispatcher]
  BY DEF Types
<1>2. disp' = [disp EXCEPT ![d] = r]
  BY DEF ScanAgain
<1>3. r \in Dispatcher /\ r.pc = "find" /\ r.layer = disp[d].layer /\ r.got = out /\ r.batch = disp[d].batch
  BY <1>1 DEF idle, Dispatcher, States, Calls, Marks, Layers
<1> QED BY <1>1, <1>2, <1>3

(* A call that hands out what it holds, while no claim is under way.       *)
LEMMA HandsOver ==
  ASSUME IInv, NEW d \in Dispatchers, HandOut(d, disp[d].got), doc' = doc, moved' = moved,
         UNCHANGED <<setup, created, acked, refused, taken, removed>>,
         disp[d].pc \in Calls,
         \A e \in Documents : doc[e].token = d => e \in taken
  PROVE  IInv'
<1>1. Types /\ disp[d].got \in SUBSET Documents /\ handed \in [Documents -> Nat]
  BY DEF IInv, Types, Dispatcher
<1>2. /\ disp' \in [Dispatchers -> Dispatcher] /\ \A b \in Dispatchers \ {d} : disp'[b] = disp[b]
      /\ disp'[d].pc \in {"find", "publish"} /\ (disp'[d].pc = "find" => disp'[d].layer \in Layers)
      /\ disp'[d].got = {} /\ disp'[d].batch = disp[d].batch \cup disp[d].got
  BY <1>1, CallOverMove DEF HandOut
<1>3. /\ handed' \in [Documents -> Nat]
      /\ \A e \in Documents : handed'[e] = handed[e] + One(e, disp[d].got)
  BY <1>1 DEF HandOut, One
<1>4. Types'
  BY <1>2, <1>3 DEF IInv, Types
<1>5. Shape(d)'
  BY <1>2 DEF Shape, Calls, Marks
<1>6. ASSUME NEW e \in Documents
      PROVE  /\ Has(d, e)' => Has(d, e)
             /\ ~Marking(d, e)'
             /\ handed'[e] + One(e, disp'[d].got) <= handed[e] + One(e, disp[d].got)
  <2>1. ~Marking(d, e)'
    BY <1>2 DEF Marking, Marks
  <2>2. Has(d, e)' => Has(d, e)
    BY <1>2, <2>1 DEF Has
  <2>3. handed'[e] = handed[e] + One(e, disp[d].got) /\ One(e, disp'[d].got) = 0 /\ handed[e] \in Nat
    BY <1>1, <1>2, <1>3 DEF One
  <2> QED BY <2>1, <2>2, <2>3 DEF One
<1> QED BY <1>2, <1>4, <1>5, <1>6, Reads

LEMMA FindStep == ASSUME IInv, NEW d \in Dispatchers, findClaimCandidates(d) PROVE IInv'
<1>1. /\ disp \in [Dispatchers -> Dispatcher] /\ disp[d].pc = "find" /\ disp[d].layer \in Layers
      /\ doc \in [Documents -> Doc] /\ handed \in [Documents -> Nat]
      /\ UNCHANGED <<setup, created, faults, acked, refused, taken, removed>>
  BY DEF IInv, Types, Shape, Calls, findClaimCandidates
<1>2. \A e \in Documents : doc[e].token = d => e \in taken
  <2>1. \A e \in Documents : doc[e].token = d /\ e \notin taken => Claiming(d, e)
    BY DEF IInv, DocInv, OwnedOnce
  <2> QED BY <1>1, <2>1 DEF Claiming
<1>3. CASE HandOut(d, disp[d].got) /\ NoStore
  BY <1>1, <1>2, <1>3, HandsOver DEF NoStore, Calls
<1>4. ASSUME NEW S \in SUBSET Matching(d, disp[d].layer) \ {{}},
             disp' = [disp EXCEPT ![d].pc = "claim", ![d].found = S, ![d].todo = S, ![d].scans = @ + 1,
                             ![d].seen = [e \in Documents |-> IF e \in S THEN doc[e].attempts ELSE 0]],
             moved' = [moved EXCEPT ![d] = {}], UNCHANGED <<doc, handed>>
      PROVE  IInv'
  <2>1. S \subseteq Documents
    BY <1>1, <1>4, MongoAssumption DEF Matching, Layers
  <2> DEFINE n == [e \in Documents |-> IF e \in S THEN doc[e].attempts ELSE 0]
             r == [disp[d] EXCEPT !.pc = "claim", !.found = S, !.todo = S, !.scans = disp[d].scans + 1, !.seen = n]
  <2>2. n \in [Documents -> Nat] /\ disp' = [disp EXCEPT ![d] = r]
    BY <1>1, <1>4 DEF Doc
  <2>9. disp[d] \in Dispatcher /\ disp[d].scans + 1 \in Nat
    BY <1>1 DEF Dispatcher
  <2> HIDE DEF n
  <2>3. /\ r \in Dispatcher /\ r.pc = "claim" /\ r.got = disp[d].got /\ r.batch = disp[d].batch
        /\ r.layer = disp[d].layer /\ r.found = S /\ r.todo = S
    BY <2>1, <2>2, <2>9 DEF Dispatcher, States, Calls
  <2> HIDE DEF r
  <2>4. /\ disp' \in [Dispatchers -> Dispatcher] /\ disp'[d] = r
        /\ \A b \in Dispatchers \ {d} : disp'[b] = disp[b]
    BY <1>1, <2>2, <2>3
  <2>5. Types'
    BY <1>1, <1>4, <2>4 DEF IInv, Types
  <2>6. Shape(d)'
    BY <1>1, <2>3, <2>4 DEF Shape, Calls, Marks
  <2>7. ASSUME NEW e \in Documents
        PROVE  /\ Has(d, e)' => Has(d, e)
               /\ ~Marking(d, e)'
               /\ handed'[e] + One(e, disp'[d].got) <= handed[e] + One(e, disp[d].got)
    <3>1. ~Marking(d, e)'
      BY <2>3, <2>4 DEF Marking, Marks
    <3>2. Has(d, e)' => Has(d, e)
      BY <2>3, <2>4, <3>1 DEF Has
    <3>3. handed'[e] = handed[e] /\ disp'[d].got = disp[d].got /\ handed[e] \in Nat
      BY <1>1, <1>4, <2>3, <2>4
    <3> QED BY <3>1, <3>2, <3>3 DEF One
  <2> QED BY <1>1, <1>2, <1>4, <2>4, <2>5, <2>6, <2>7, Reads
<1> QED BY <1>3, <1>4 DEF findClaimCandidates

LEMMA BulkOverStep == ASSUME IInv, NEW d \in Dispatchers, claimDocuments(d) PROVE IInv'
<1> DEFINE mod == disp[d].modified
<1>1. /\ Types /\ disp \in [Dispatchers -> Dispatcher] /\ disp[d].pc = "claim" /\ disp[d].layer \in Layers
      /\ disp[d].got \in SUBSET Documents /\ handed \in [Documents -> Nat]
      /\ UNCHANGED <<doc, moved, setup, created, faults, acked, refused, taken, removed>>
  BY DEF IInv, Types, Shape, Calls, claimDocuments, NoStore, Dispatcher
<1>2. \A e \in Documents : doc[e].token = d /\ e \notin taken => Claiming(d, e)
  BY DEF IInv, DocInv, OwnedOnce
<1>3. CASE disp' = [disp EXCEPT ![d].pc = "read", ![d].modified = {}] /\ UNCHANGED handed
  <2> DEFINE r == [disp[d] EXCEPT !.pc = "read", !.modified = {}]
  <2>1. disp' = [disp EXCEPT ![d] = r]
    BY <1>1, <1>3
  <2>2. /\ r \in Dispatcher /\ r.pc = "read" /\ r.got = disp[d].got /\ r.batch = disp[d].batch
        /\ r.layer = disp[d].layer /\ r.found = disp[d].found /\ r.todo = disp[d].todo
    BY <1>1 DEF Dispatcher, States, Calls
  <2> HIDE DEF r
  <2>3. /\ disp' \in [Dispatchers -> Dispatcher] /\ disp'[d] = r
        /\ \A b \in Dispatchers \ {d} : disp'[b] = disp[b]
    BY <1>1, <2>1, <2>2
  <2>4. Types'
    BY <1>1, <1>3, <2>3 DEF Types
  <2>5. Shape(d)'
    BY <1>1, <2>2, <2>3 DEF Shape, Calls, Marks
  <2>6. ASSUME NEW e \in Documents
        PROVE  /\ Has(d, e)' => Has(d, e)
               /\ ~Marking(d, e)'
               /\ Claiming(d, e) => Claiming(d, e)'
               /\ handed'[e] + One(e, disp'[d].got) <= handed[e] + One(e, disp[d].got)
    <3>1. ~Marking(d, e)'
      BY <2>2, <2>3 DEF Marking, Marks
    <3>2. Has(d, e)' => Has(d, e)
      BY <2>2, <2>3, <3>1 DEF Has
    <3>3. handed'[e] = handed[e] /\ disp'[d].got = disp[d].got /\ handed[e] \in Nat
      BY <1>1, <1>3, <2>2, <2>3
    <3>4. Claiming(d, e) => Claiming(d, e)'
      BY <2>2, <2>3 DEF Claiming
    <3> QED BY <3>1, <3>2, <3>3, <3>4 DEF One
  <2> QED BY <1>1, <1>2, <2>3, <2>4, <2>5, <2>6, Reads
<1>4. ASSUME mod = {} PROVE \A e \in Documents : doc[e].token = d => e \in taken
  BY <1>1, <1>2, <1>4 DEF Claiming
<1>5. CASE mod = {} /\ HandOut(d, disp[d].got)
  BY <1>1, <1>4, <1>5, HandsOver DEF Calls
<1>6. CASE mod = {} /\ ScanAgain(d, disp[d].got) /\ UNCHANGED handed
  <2>1. /\ disp' \in [Dispatchers -> Dispatcher] /\ \A b \in Dispatchers \ {d} : disp'[b] = disp[b]
        /\ disp'[d].pc = "find" /\ disp'[d].layer \in Layers
        /\ disp'[d].got = disp[d].got /\ disp'[d].batch = disp[d].batch
    BY <1>1, <1>6, ScanAgainMove
  <2>2. Types'
    BY <1>1, <1>6, <2>1 DEF Types
  <2>3. Shape(d)'
    BY <2>1 DEF Shape, Calls, Marks
  <2>4. ASSUME NEW e \in Documents
        PROVE  /\ Has(d, e)' => Has(d, e)
               /\ ~Marking(d, e)'
               /\ handed'[e] + One(e, disp'[d].got) <= handed[e] + One(e, disp[d].got)
    <3>1. ~Marking(d, e)'
      BY <2>1 DEF Marking, Marks
    <3>2. Has(d, e)' => Has(d, e)
      BY <2>1, <3>1 DEF Has
    <3>3. handed'[e] = handed[e] /\ handed[e] \in Nat
      BY <1>1, <1>6
    <3> QED BY <2>1, <3>1, <3>2, <3>3 DEF One
  <2> QED BY <1>1, <1>4, <1>6, <2>1, <2>2, <2>3, <2>4, Reads
<1> QED BY <1>3, <1>5, <1>6 DEF claimDocuments

(* The token of d is spent and d holds no more than before.                *)
LEMMA SpentStep ==
  ASSUME IInv, NEW d \in Dispatchers, \A b \in Dispatchers \ {d} : disp'[b] = disp[b],
         disp' \in [Dispatchers -> Dispatcher], Shape(d)', ScanOver(d),
         UNCHANGED <<setup, created, acked, refused, taken, handed, removed>>,
         disp'[d].got = {}, disp'[d].pc \notin Marks, disp'[d].batch \subseteq disp[d].batch
  PROVE  IInv'
<1>1. doc' \in [Documents -> Doc]
  <2>1. doc \in [Documents -> Doc] /\ doc' = spent(d)
    BY DEF IInv, Types, ScanOver
  <2>2. \A e \in Documents : [doc[e] EXCEPT !.token = "none"] \in Doc
    BY <2>1 DEF Doc
  <2> QED BY <2>1, <2>2 DEF spent
<1>2. Types'
  BY <1>1 DEF IInv, Types, ScanOver
<1>3. ASSUME NEW e \in Documents PROVE DocInv(e)'
  <2>1. ~Marking(d, e)' /\ (Has(d, e)' => Has(d, e))
    BY DEF Marking, Has
  <2>2. handed'[e] + One(e, disp'[d].got) <= handed[e] + One(e, disp[d].got)
    BY DEF One, IInv, Types
  <2>3. CASE doc[e].token # d
    <3>1. doc'[e] = doc[e]
      BY <2>3 DEF ScanOver, spent
    <3> QED BY <1>2, <2>1, <2>2, <2>3, <3>1, Untouched DEF IInv
  <2>4. CASE doc[e].token = d
    <3>1. doc'[e] = [doc[e] EXCEPT !.token = "none"]
      BY <2>4 DEF ScanOver, spent
    <3>2. handed'[e] + One(e, disp'[d].got) <= handed[e] + One(e, disp[d].got) + UnderWay(doc[e])
      BY <2>2 DEF UnderWay, One, IInv, Types
    <3> QED BY <1>2, <2>1, <2>4, <3>1, <3>2, TokenSpent DEF IInv
  <2> QED BY <2>3, <2>4
<1> QED BY <1>2, <1>3, Compose

LEMMA LossSteps == ASSUME IInv, NEW d \in Dispatchers, ClaimFails(d) \/ LoseCycle(d) PROVE IInv'
<1> USE DEF MongoHistory
<1>1. Types /\ disp \in [Dispatchers -> Dispatcher]
  BY DEF IInv, Types
<1>2. CASE ClaimFails(d)
  <2>1. /\ disp' \in [Dispatchers -> Dispatcher] /\ \A b \in Dispatchers \ {d} : disp'[b] = disp[b]
        /\ disp'[d].pc \in {"find", "publish"} /\ (disp'[d].pc = "find" => disp'[d].layer \in Layers)
        /\ disp'[d].got = {} /\ disp'[d].batch = disp[d].batch \cup {}
    BY <1>1, <1>2, CallOverMove DEF ClaimFails
  <2>2. Shape(d)'
    BY <2>1 DEF Shape, Calls, Marks
  <2> QED BY <1>2, <2>1, <2>2, SpentStep DEF ClaimFails, Marks
<1>3. CASE LoseCycle(d)
  <2>1. /\ disp' \in [Dispatchers -> Dispatcher] /\ \A b \in Dispatchers \ {d} : disp'[b] = disp[b]
        /\ disp'[d] = idle
    BY <1>1, <1>3, IdleIsOne DEF LoseCycle
  <2>2. disp'[d].pc = "idle" /\ disp'[d].got = {} /\ disp'[d].batch = {}
    BY <2>1 DEF idle
  <2>3. Shape(d)'
    BY <2>2 DEF Shape, Calls, Marks
  <2> QED BY <1>3, <2>1, <2>2, <2>3, SpentStep DEF LoseCycle, Marks
<1> QED BY <1>2, <1>3

-----------------------------------------------------------------------------
(* What an update writes, and where.                                       *)
LEMMA Stored ==
  ASSUME Types, NEW f, DOMAIN f \subseteq Documents, \A x \in DOMAIN f : f[x] \in Doc, Store(f)
  PROVE  /\ doc' \in [Documents -> Doc] /\ moved' \in [Dispatchers -> SUBSET Documents]
         /\ \A e \in Documents \ DOMAIN f : doc'[e] = doc[e]
         /\ \A x \in DOMAIN f : /\ doc'[x].status = f[x].status /\ doc'[x].attempts = f[x].attempts
                                /\ doc'[x].token = f[x].token
<1>1. ASSUME NEW x \in DOMAIN f
      PROVE  /\ doc'[x] = [f[x] EXCEPT !.aged = FALSE] /\ doc'[x] \in Doc
             /\ doc'[x].status = f[x].status /\ doc'[x].attempts = f[x].attempts /\ doc'[x].token = f[x].token
  BY DEF Store, Doc
<1>2. ASSUME NEW e \in Documents, e \notin DOMAIN f PROVE doc'[e] = doc[e]
  BY <1>2 DEF Store
<1>3. doc' \in [Documents -> Doc]
  <2>1. DOMAIN doc' = Documents /\ doc' = [e \in Documents |-> doc'[e]]
    BY DEF Store
  <2> QED BY <1>1, <1>2, <2>1 DEF Types
<1>4. moved' \in [Dispatchers -> SUBSET Documents]
  BY DEF Store, Types
<1> QED BY <1>1, <1>2, <1>3, <1>4

(* One update of the bulk.  From PENDING or FAILED nobody can hold the     *)
(* document; a stuck reclaim takes it over and spends an attempt.          *)
LEMMA ClaimOneStep == ASSUME IInv, NEW d \in Dispatchers, claimDocument(d) PROVE IInv'
<1>1. PICK x \in disp[d].todo, tie \in BOOLEAN :
        IF matchesCandidate(d, x, tie)
          THEN /\ disp' = [disp EXCEPT ![d].todo = @ \ {x}, ![d].modified = @ \cup {x}]
               /\ Store([y \in {x} |-> claimedForm(d, x)])
               /\ taken' = IF disp[d].layer = "stuck" THEN taken \cup {x} ELSE taken
          ELSE /\ disp' = [disp EXCEPT ![d].todo = @ \ {x}]
               /\ NoStore /\ UNCHANGED taken
  BY DEF claimDocument
<1>2. /\ Types /\ disp \in [Dispatchers -> Dispatcher] /\ disp[d].pc = "claim" /\ disp[d].layer \in Layers
      /\ x \in Documents /\ handed \in [Documents -> Nat] /\ doc \in [Documents -> Doc] /\ disp[d] \in Dispatcher
      /\ disp[d].todo \subseteq disp[d].found
      /\ UNCHANGED <<setup, created, faults, acked, refused, handed, removed>>
  BY DEF IInv, Types, Shape, Calls, claimDocument, Dispatcher
<1> DEFINE m == IF matchesCandidate(d, x, tie) THEN disp[d].modified \cup {x} ELSE disp[d].modified
           r == [disp[d] EXCEPT !.todo = disp[d].todo \ {x}, !.modified = m]
<1>0. m \in SUBSET Documents /\ disp[d].modified \subseteq m
  BY <1>2 DEF Dispatcher
<1>3. disp' = [disp EXCEPT ![d] = r]
  <2>1. CASE matchesCandidate(d, x, tie)
    BY <1>1, <1>2, <2>1
  <2>2. CASE ~matchesCandidate(d, x, tie)
    <3>1. r = [disp[d] EXCEPT !.todo = disp[d].todo \ {x}]
      BY <1>2, <2>2 DEF Dispatcher
    <3> QED BY <1>1, <1>2, <2>2, <3>1
  <2> QED BY <2>1, <2>2
<1>11. matchesCandidate(d, x, tie) => x \in m
  OBVIOUS
<1> HIDE DEF m
<1>4. /\ r \in Dispatcher /\ r.pc = "claim" /\ r.got = disp[d].got /\ r.batch = disp[d].batch
      /\ r.layer = disp[d].layer /\ r.found = disp[d].found /\ r.todo = disp[d].todo \ {x} /\ r.modified = m
  BY <1>0, <1>2 DEF Dispatcher
<1> HIDE DEF r
<1>5. /\ disp' \in [Dispatchers -> Dispatcher] /\ disp'[d] = r
      /\ \A b \in Dispatchers \ {d} : disp'[b] = disp[b]
  BY <1>2, <1>3, <1>4
<1>6. Shape(d)'
  BY <1>2, <1>4, <1>5 DEF Shape, Calls, Marks
<1>7. ASSUME NEW e \in Documents
      PROVE  /\ Has(d, e)' <=> Has(d, e)
             /\ ~Marking(d, e)'
             /\ Claiming(d, e) => Claiming(d, e)'
             /\ handed'[e] + One(e, disp'[d].got) <= handed[e] + One(e, disp[d].got)
             /\ doc[e].token = d /\ e \notin taken => Claiming(d, e)
  <2>1. ~Marking(d, e)' /\ ~Marking(d, e)
    BY <1>2, <1>4, <1>5 DEF Marking, Marks
  <2>2. Has(d, e)' <=> Has(d, e)
    BY <1>4, <1>5, <2>1 DEF Has
  <2>3. handed'[e] + One(e, disp'[d].got) <= handed[e] + One(e, disp[d].got)
    BY <1>2, <1>4, <1>5 DEF One
  <2>4. Claiming(d, e) => Claiming(d, e)'
    BY <1>0, <1>2, <1>4, <1>5 DEF Claiming
  <2>5. doc[e].token = d /\ e \notin taken => Claiming(d, e)
    BY DEF IInv, DocInv, OwnedOnce
  <2> QED BY <2>1, <2>2, <2>3, <2>4, <2>5
<1>8. CASE NoStore /\ UNCHANGED taken
  <2>1. Types'
    BY <1>2, <1>5, <1>8 DEF Types, NoStore
  <2> QED BY <1>2, <1>5, <1>6, <1>7, <1>8, <2>1, Reads DEF NoStore
<1>9. CASE /\ matchesCandidate(d, x, tie) /\ Store([y \in {x} |-> claimedForm(d, x)])
           /\ taken' = IF disp[d].layer = "stuck" THEN taken \cup {x} ELSE taken
  <2> DEFINE f == [y \in {x} |-> claimedForm(d, x)]
             w == claimedForm(d, x)
  <2>1. /\ doc[x] \in Doc /\ doc[x].status = fromStatus(disp[d].layer) /\ doc[x].attempts = disp[d].seen[x]
        /\ doc[x].attempts \in Nat
    BY <1>2, <1>9 DEF matchesCandidate, Doc
  <2>2. w \in Doc /\ w.token = d
    <3>1. CASE disp[d].layer # "stuck"
      BY <2>1, <3>1 DEF claimedForm, Doc
    <3>2. CASE disp[d].layer = "stuck"
      <4>1. disp[d].seen[x] + 1 \in Nat
        BY <2>1
      <4> QED BY <2>1, <3>2, <4>1 DEF claimedForm, Doc
    <3> QED BY <3>1, <3>2
  <2>3. /\ disp[d].layer # "stuck" => /\ w.status = "PROCESSING" /\ w.attempts = doc[x].attempts
                                      /\ doc[x].status \in {"PENDING", "FAILED"} /\ taken' = taken
        /\ disp[d].layer = "stuck" => /\ w.attempts = doc[x].attempts + 1 /\ doc[x].status = "PROCESSING"
                                      /\ w.status = IF w.attempts >= MaxAttempts THEN "INVALID" ELSE "PROCESSING"
                                      /\ taken' = taken \cup {x}
    BY <1>2, <1>9, <2>1 DEF claimedForm, fromStatus, Layers, Doc
  <2> HIDE DEF w
  <2>4. /\ doc' \in [Documents -> Doc] /\ moved' \in [Dispatchers -> SUBSET Documents]
        /\ \A e \in Documents \ {x} : doc'[e] = doc[e]
        /\ doc'[x].status = w.status /\ doc'[x].attempts = w.attempts /\ doc'[x].token = d
    BY <1>2, <1>9, <2>2, Stored DEF w
  <2>5. Types'
    BY <1>2, <1>5, <2>4 DEF Types
  <2>6. ASSUME NEW e \in Documents, e # x PROVE DocInv(e)'
    BY <1>2, <1>5, <1>7, <2>3, <2>4, <2>5, <2>6, Untouched DEF IInv
  <2>7. DocInv(x)'
    <3>0. DocInv(x) /\ MaxAttempts \in Nat \ {0} /\ d # "none"
      BY <1>2, MongoAssumption DEF IInv
    <3>1. StatusOK(x)'
      BY <1>2, <2>1, <2>3, <2>4, <3>0 DEF DocInv, StatusOK
    <3>2. OwnedOnce(x)'
      <4>1. CASE disp[d].layer = "stuck"
        BY <2>3, <4>1 DEF OwnedOnce
      <4>2. CASE disp[d].layer # "stuck"
        <5>1. ASSUME NEW b \in Dispatchers, x \notin taken PROVE ~Has(b, x)'
          <6>1. ~Has(b, x)
            BY <2>3, <3>0, <4>2, <5>1 DEF DocInv, OwnedOnce
          <6> QED BY <1>2, <1>5, <1>7, <6>1 DEF Has, Marking
        <5>2. Claiming(d, x)'
          BY <1>2, <1>4, <1>5, <1>9, <1>11 DEF Claiming
        <5> QED BY <2>3, <2>4, <4>2, <5>1, <5>2 DEF OwnedOnce, Has
      <4> QED BY <4>1, <4>2
    <3>3. HandedOK(x)'
      <4>1. Left(doc[x])' + UnderWay(doc[x])' <= Left(doc[x]) + UnderWay(doc[x])
        BY <2>1, <2>3, <2>4, <3>0 DEF Left, UnderWay, DocInv, StatusOK
      <4>2. /\ Left(doc[x])' \in Int /\ UnderWay(doc[x])' \in Int /\ Left(doc[x]) \in Int /\ UnderWay(doc[x]) \in Int
            /\ MaxAttempts * created[x] \in Nat
        BY <1>2, <2>2, <2>4, <3>0 DEF Left, UnderWay, Types, Doc
      <4>3. /\ Cardinality(Got(x)) \in Nat /\ Cardinality(Got(x))' \in Nat
            /\ Cardinality(Got(x))' + One(x, disp[d].got) = Cardinality(Got(x)) + One(x, disp[d].got)
        BY <1>4, <1>5, GotMove
      <4>4. handed[x] \in Nat /\ handed'[x] = handed[x] /\ created'[x] = created[x]
        BY <1>2
      <4> QED BY <3>0, <4>1, <4>2, <4>3, <4>4 DEF DocInv, HandedOK, One
    <3> QED BY <3>1, <3>2, <3>3 DEF DocInv
  <2> QED BY <1>2, <1>5, <1>6, <2>5, <2>6, <2>7, Compose
<1> QED BY <1>1, <1>8, <1>9

-----------------------------------------------------------------------------
(* A mark that is made ends d's hold of the document, whoever else has it. *)
LEMMA Marked ==
  ASSUME IInv, NEW d \in Dispatchers, disp[d].pc \in Marks, NEW w \in Doc,
         NEW x \in Documents, x = disp[d].cur,
         doc[x].status = "PROCESSING", Store([y \in {x} |-> w]),
         UNCHANGED <<setup, created, acked, refused, taken, handed, removed>>,
         disp' \in [Dispatchers -> Dispatcher], \A b \in Dispatchers \ {d} : disp'[b] = disp[b],
         disp'[d].pc = "publish", disp'[d].batch = disp[d].batch, disp'[d].got = {},
         w.token = "none", w.status \in {"PUBLISHED", "INVALID", "FAILED"},
         w.attempts <= MaxAttempts, w.status # "INVALID" => w.attempts < MaxAttempts,
         w.status = "PUBLISHED" => x \in acked,
         w.status = "INVALID" => x \in refused \/ w.attempts = MaxAttempts,
         w.status = "FAILED" => w.attempts = doc[x].attempts + 1
  PROVE  IInv'
<1>1. Types /\ disp[d].got = {} /\ handed \in [Documents -> Nat]
  BY DEF IInv, Types, Shape, Calls, Marks
<1>2. /\ doc' \in [Documents -> Doc] /\ moved' \in [Dispatchers -> SUBSET Documents]
      /\ \A e \in Documents \ {x} : doc'[e] = doc[e]
      /\ doc'[x].status = w.status /\ doc'[x].attempts = w.attempts /\ doc'[x].token = "none"
  BY <1>1, Stored
<1>3. Types'
  BY <1>1, <1>2 DEF Types
<1>4. Shape(d)'
  BY DEF Shape, Calls, Marks
<1>5. ASSUME NEW e \in Documents
      PROVE  /\ ~Marking(d, e)' /\ (Has(d, e)' => Has(d, e)) /\ (doc[e].token = d => e \in taken)
             /\ handed'[e] + One(e, disp'[d].got) <= handed[e] + One(e, disp[d].got)
  <2>1. ~Marking(d, e)'
    BY DEF Marking, Marks
  <2>2. Has(d, e)' => Has(d, e)
    BY <1>1, <2>1 DEF Has
  <2>3. doc[e].token = d /\ e \notin taken => Claiming(d, e)
    BY DEF IInv, DocInv, OwnedOnce
  <2>4. ~Claiming(d, e)
    BY DEF Claiming, Marks
  <2>5. handed'[e] + One(e, disp'[d].got) <= handed[e] + One(e, disp[d].got)
    BY <1>1 DEF One
  <2> QED BY <2>1, <2>2, <2>3, <2>4, <2>5
<1>6. ASSUME NEW e \in Documents, e # x PROVE DocInv(e)'
  BY <1>1, <1>2, <1>3, <1>5, <1>6, Untouched DEF IInv
<1>7. DocInv(x)'
  <2>0. DocInv(x) /\ MaxAttempts \in Nat \ {0} /\ doc[x] \in Doc /\ doc[x].attempts \in Nat /\ w.attempts \in Nat
    BY <1>1, MongoAssumption DEF IInv, Types, Doc
  <2>1. StatusOK(x)'
    BY <1>2, <2>0 DEF StatusOK
  <2>2. OwnedOnce(x)'
    <3>1. Marking(d, x) /\ Has(d, x)
      BY DEF Has, Marking
    <3>2. ASSUME NEW b \in Dispatchers, x \notin taken PROVE ~Has(b, x)'
      <4>1. CASE b = d
        <5>1. x \notin disp[d].batch
          BY <2>0, <3>1, <3>2 DEF DocInv, OwnedOnce
        <5> QED BY <1>1, <1>5, <4>1, <5>1 DEF Has
      <4>2. CASE b # d
        <5>1. ~Has(b, x)
          BY <2>0, <3>1, <3>2, <4>2 DEF DocInv, OwnedOnce
        <5> QED BY <4>2, <5>1 DEF Has, Marking
      <4> QED BY <4>1, <4>2
    <3>3. ASSUME NEW b \in Dispatchers PROVE Marking(b, x)' => Has(b, x)'
      BY DEF Has
    <3> QED BY <1>2, <3>2, <3>3, MongoAssumption DEF OwnedOnce
  <2>3. HandedOK(x)'
    <3>1. Left(doc[x])' + UnderWay(doc[x])' <= Left(doc[x]) + UnderWay(doc[x])
      BY <1>1, <1>2, <2>0 DEF Left, UnderWay, DocInv, StatusOK
    <3>2. /\ Left(doc[x])' \in Int /\ UnderWay(doc[x])' \in Int /\ Left(doc[x]) \in Int /\ UnderWay(doc[x]) \in Int
          /\ MaxAttempts * created[x] \in Nat
      BY <1>1, <1>2, <2>0 DEF Left, UnderWay, Types, Doc
    <3>3. /\ Cardinality(Got(x)) \in Nat /\ Cardinality(Got(x))' \in Nat
          /\ Cardinality(Got(x))' + One(x, disp[d].got) = Cardinality(Got(x)) + One(x, disp'[d].got)
      BY GotMove
    <3>4. handed[x] \in Nat /\ handed'[x] = handed[x] /\ created'[x] = created[x] /\ disp'[d].got = disp[d].got
      BY <1>1
    <3> QED BY <2>0, <3>1, <3>2, <3>3, <3>4 DEF DocInv, HandedOK, One
  <2> QED BY <2>1, <2>2, <2>3 DEF DocInv
<1> QED BY <1>3, <1>4, <1>6, <1>7, Compose

(* One that finds the document elsewhere ends it too.                      *)
LEMMA Unmarked ==
  ASSUME IInv, NEW d \in Dispatchers, disp[d].pc \in Marks, NoStore,
         UNCHANGED <<setup, created, acked, refused, taken, handed, removed>>,
         disp' \in [Dispatchers -> Dispatcher], \A b \in Dispatchers \ {d} : disp'[b] = disp[b],
         disp'[d].pc = "publish", disp'[d].batch = disp[d].batch, disp'[d].got = {}
  PROVE  IInv'
<1>1. Types /\ disp[d].got = {} /\ handed \in [Documents -> Nat]
  BY DEF IInv, Types, Shape, Calls, Marks
<1>2. Types' /\ Shape(d)'
  BY <1>1 DEF Types, NoStore, Shape, Calls, Marks
<1>3. ASSUME NEW e \in Documents
      PROVE  /\ ~Marking(d, e)' /\ (Has(d, e)' => Has(d, e)) /\ (doc[e].token = d => e \in taken)
             /\ handed'[e] + One(e, disp'[d].got) <= handed[e] + One(e, disp[d].got)
  <2>1. ~Marking(d, e)'
    BY DEF Marking, Marks
  <2>2. Has(d, e)' => Has(d, e)
    BY <1>1, <2>1 DEF Has
  <2>3. doc[e].token = d /\ e \notin taken => Claiming(d, e)
    BY DEF IInv, DocInv, OwnedOnce
  <2>4. ~Claiming(d, e)
    BY DEF Claiming, Marks
  <2> QED BY <1>1, <2>1, <2>2, <2>3, <2>4 DEF One
<1> QED BY <1>2, <1>3, Reads DEF NoStore

LEMMA MarkToSteps ==
  ASSUME IInv, NEW d \in Dispatchers, MarkPublished(d) \/ MarkInvalid(d)
  PROVE  IInv'
<1>1. PICK q \in {"ok", "nonretryable"}, st \in {"PUBLISHED", "INVALID"} :
        MarkTo(d, q, st) /\ (q = "ok" <=> st = "PUBLISHED")
  BY DEF MarkPublished, MarkInvalid
<1>0. PICK x \in Documents : x = disp[d].cur
  BY <1>1 DEF MarkTo, IInv, Shape, Marks
<1> DEFINE r == [disp[d] EXCEPT !.pc = "publish"]
<1>2. /\ Types /\ disp \in [Dispatchers -> Dispatcher] /\ disp[d].pc = "mark" /\ disp[d].got = {} /\ x \in Documents
      /\ doc \in [Documents -> Doc] /\ handed \in [Documents -> Nat] /\ disp[d].result = q
      /\ UNCHANGED <<setup, created, faults, acked, refused, taken, handed, removed>>
      /\ (q = "ok" => x \in acked) /\ (q = "nonretryable" => x \in refused)
  BY <1>1, <1>0 DEF IInv, Types, Shape, Calls, Marks, MarkTo, MongoHistory
<1>3. disp' = [disp EXCEPT ![d] = r]
  BY <1>1, <1>2 DEF MarkTo, goto
<1>4. r \in Dispatcher /\ r.pc = "publish" /\ r.got = {} /\ r.batch = disp[d].batch
  BY <1>2 DEF Dispatcher, States
<1> HIDE DEF r
<1>5. /\ disp' \in [Dispatchers -> Dispatcher] /\ disp'[d] = r /\ \A b \in Dispatchers \ {d} : disp'[b] = disp[b]
  BY <1>2, <1>3, <1>4
<1>6. CASE doc[x].status = "PROCESSING" /\ Store([y \in {x} |-> [doc[x] EXCEPT !.status = st, !.token = "none"]])
  <2> DEFINE w == [doc[x] EXCEPT !.status = st, !.token = "none"]
  <2>1. w \in Doc /\ w.status = st /\ w.token = "none" /\ w.attempts = doc[x].attempts
    BY <1>2 DEF Doc
  <2>2. doc[x].attempts < MaxAttempts /\ doc[x].attempts \in Nat
    BY <1>2, <1>6 DEF IInv, DocInv, StatusOK, Doc
  <2> HIDE DEF w
  <2>3. Store([y \in {x} |-> w])
    BY <1>6 DEF w
  <2>4. /\ w.status \in {"PUBLISHED", "INVALID", "FAILED"} /\ w.attempts < MaxAttempts
        /\ (w.status = "PUBLISHED" => x \in acked) /\ (w.status = "INVALID" => x \in refused)
        /\ w.status # "FAILED"
    BY <1>1, <1>2, <2>1, <2>2
  <2>5. w.attempts <= MaxAttempts
    BY <2>1, <2>2, MongoAssumption
  <2>6. disp[d].pc \in Marks /\ disp'[d].pc = "publish" /\ disp'[d].batch = disp[d].batch /\ disp'[d].got = {}
    BY <1>2, <1>4, <1>5 DEF Marks
  <2> QED BY <1>0, <1>2, <1>5, <1>6, <2>1, <2>3, <2>4, <2>5, <2>6, Marked
<1>7. CASE NoStore
  BY <1>2, <1>4, <1>5, <1>7, Unmarked DEF Marks
<1> QED BY <1>1, <1>0, <1>6, <1>7 DEF MarkTo

LEMMA MarkFailedStep == ASSUME IInv, NEW d \in Dispatchers, MarkFailed(d) PROVE IInv'
<1>0. PICK x \in Documents : x = disp[d].cur
  BY DEF MarkFailed, IInv, Shape, Marks
<1> DEFINE r == [disp[d] EXCEPT !.pc = "publish", !.seen = [y \in Documents |-> 0]]
           n == disp[d].seen[x]
           w == [doc[x] EXCEPT !.status = IF n + 1 >= MaxAttempts THEN "INVALID" ELSE "FAILED",
                               !.attempts = n + 1, !.token = "none"]
<1>1. /\ Types /\ disp \in [Dispatchers -> Dispatcher] /\ disp[d].pc = "failing" /\ disp[d].got = {}
      /\ doc \in [Documents -> Doc] /\ MaxAttempts \in Nat
      /\ UNCHANGED <<setup, created, faults, acked, refused, taken, handed, removed>>
  BY MongoAssumption DEF IInv, Types, Shape, Calls, Marks, MarkFailed, MongoHistory
<1>2. disp' = [disp EXCEPT ![d] = r]
  BY <1>1 DEF MarkFailed
<1>3. r \in Dispatcher /\ r.pc = "publish" /\ r.got = {} /\ r.batch = disp[d].batch
  BY <1>1 DEF Dispatcher, States
<1> HIDE DEF r
<1>4. /\ disp' \in [Dispatchers -> Dispatcher] /\ \A b \in Dispatchers \ {d} : disp'[b] = disp[b]
      /\ disp'[d].pc = "publish" /\ disp'[d].got = {} /\ disp'[d].batch = disp[d].batch
  BY <1>1, <1>2, <1>3
<1>5. CASE doc[x].status = "PROCESSING" /\ doc[x].attempts = n /\ Store([y \in {x} |-> w])
  <2>1. n \in Nat /\ n < MaxAttempts
    BY <1>1, <1>5 DEF IInv, DocInv, StatusOK, Doc
  <2>2. /\ w \in Doc /\ w.token = "none" /\ w.attempts = n + 1
        /\ w.status = IF n + 1 >= MaxAttempts THEN "INVALID" ELSE "FAILED"
    <3>1. doc[x] \in Doc /\ n + 1 \in Nat
      BY <1>1, <2>1
    <3> HIDE DEF n
    <3> QED BY <3>1 DEF Doc
  <2> HIDE DEF w
  <2>3. /\ w.status \in {"PUBLISHED", "INVALID", "FAILED"} /\ w.status # "PUBLISHED"
        /\ w.attempts <= MaxAttempts /\ (w.status # "INVALID" => w.attempts < MaxAttempts)
        /\ (w.status = "INVALID" => w.attempts = MaxAttempts) /\ w.attempts = doc[x].attempts + 1
    BY <1>1, <1>5, <2>1, <2>2
  <2> QED BY <1>0, <1>1, <1>4, <1>5, <2>2, <2>3, Marked DEF Marks
<1>6. CASE NoStore
  BY <1>1, <1>4, <1>6, Unmarked DEF Marks
<1> QED BY <1>0, <1>5, <1>6 DEF MarkFailed

-----------------------------------------------------------------------------
(* What the read-back returned is d's now, and paid for: the claim that    *)
(* was under way is over.  An INVALID document is nobody's.                *)
LEMMA ReadBackStep == ASSUME IInv, NEW d \in Dispatchers, readBack(d) PROVE IInv'
<1>0. disp[d].pc = "read" /\ UNCHANGED <<setup, created, acked, refused, taken, removed>>
  BY Zenon DEF readBack
<1>1. /\ Types /\ disp \in [Dispatchers -> Dispatcher] /\ disp[d].pc = "read" /\ disp[d].layer \in Layers
      /\ doc \in [Documents -> Doc] /\ handed \in [Documents -> Nat] /\ disp[d] \in Dispatcher
      /\ UNCHANGED <<setup, created, acked, refused, taken, removed>>
      /\ disp[d].got \in SUBSET Documents /\ disp[d].found \in SUBSET Documents
  BY <1>0 DEF IInv, Types, Shape, Calls, Dispatcher
<1> DEFINE won == {e \in disp[d].found : doc[e].token = d}
           returned(back) == disp[d].got \cup {e \in back : doc[e].status # "INVALID"}
           short(back, out) ==
             /\ disp' = [disp EXCEPT ![d].pc = "undo", ![d].got = out, ![d].found = @ \ back]
             /\ doc' = [e \in Documents |-> IF e \in back THEN spent(d)[e] ELSE doc[e]]
             /\ UNCHANGED <<moved, handed>>
           all(back, out) ==
             /\ back = disp[d].found /\ ScanOver(d)
             /\ HandOut(d, out) \/ (ScanAgain(d, out) /\ UNCHANGED handed)
<1>2. \E lag \in SUBSET won :
        IF won \ lag # disp[d].found THEN short(won \ lag, returned(won \ lag))
        ELSE IF disp[d].layer = "stuck" THEN HandOut(d, returned(won \ lag)) /\ ScanOver(d)
        ELSE ScanAgain(d, returned(won \ lag)) /\ ScanOver(d) /\ UNCHANGED handed
  BY Zenon DEF readBack
<1>3. PICK back \in SUBSET won, out \in SUBSET Documents :
        out = returned(back) /\ (short(back, out) \/ all(back, out))
  <2>1. PICK lag \in SUBSET won :
          IF won \ lag # disp[d].found THEN short(won \ lag, returned(won \ lag))
          ELSE IF disp[d].layer = "stuck" THEN HandOut(d, returned(won \ lag)) /\ ScanOver(d)
          ELSE ScanAgain(d, returned(won \ lag)) /\ ScanOver(d) /\ UNCHANGED handed
    BY <1>2, Zenon
  <2>2. won \ lag \in SUBSET won /\ returned(won \ lag) \in SUBSET Documents
    BY <1>1
  <2>3. short(won \ lag, returned(won \ lag)) \/ all(won \ lag, returned(won \ lag))
    BY <2>1, Zenon
  <2> HIDE DEF short, all, returned, won
  <2> QED BY <2>2, <2>3
<1>4. /\ \A e \in back : e \in disp[d].found /\ doc[e].token = d
      /\ \A e : e \in out <=> e \in disp[d].got \/ (e \in back /\ doc[e].status # "INVALID")
  <2> HIDE DEF short, all
  <2> QED BY <1>3
<1>5. \A e \in Documents : doc[e].token = d /\ e \notin taken => Claiming(d, e)
  BY DEF IInv, DocInv, OwnedOnce
<1>6. ASSUME NEW e \in Documents
      PROVE  /\ doc[e].token = d => One(e, out) <= One(e, disp[d].got) + UnderWay(doc[e])
             /\ e \notin back => (e \in out <=> e \in disp[d].got)
  <2>1. doc[e].token = d => doc[e].status \in {"PROCESSING", "INVALID"} /\ d # "none"
    BY MongoAssumption DEF IInv, DocInv, StatusOK
  <2> QED BY <1>4, <2>1 DEF One, UnderWay
<1>7. CASE short(back, out)
  <2> DEFINE r == [disp[d] EXCEPT !.pc = "undo", !.got = out, !.found = disp[d].found \ back]
  <2>1. disp' = [disp EXCEPT ![d] = r]
    BY <1>1, <1>7
  <2>2. /\ r \in Dispatcher /\ r.pc = "undo" /\ r.got = out /\ r.batch = disp[d].batch
        /\ r.layer = disp[d].layer /\ r.found = disp[d].found \ back /\ r.todo = disp[d].todo
    BY <1>1 DEF Dispatcher, States, Calls
  <2> HIDE DEF r
  <2>3. /\ disp' \in [Dispatchers -> Dispatcher] /\ disp'[d] = r
        /\ \A b \in Dispatchers \ {d} : disp'[b] = disp[b]
    BY <1>1, <2>1, <2>2
  <2>4. doc' \in [Documents -> Doc]
    BY <1>1, <1>7 DEF spent, Doc
  <2>5. Types' /\ Shape(d)'
    BY <1>1, <1>7, <2>2, <2>3, <2>4 DEF Types, Shape, Calls, Marks
  <2>6. ASSUME NEW e \in Documents PROVE DocInv(e)'
    <3>1. ~Marking(d, e)' /\ ~Marking(d, e)
      BY <1>1, <2>2, <2>3 DEF Marking, Marks
    <3>2. CASE e \in back
      <4>1. doc[e].token = d /\ doc'[e] = [doc[e] EXCEPT !.token = "none"]
        BY <1>1, <1>4, <1>7, <3>2 DEF spent
      <4>2. handed'[e] + One(e, disp'[d].got) <= handed[e] + One(e, disp[d].got) + UnderWay(doc[e])
        BY <1>1, <1>6, <1>7, <2>2, <2>3, <4>1 DEF One, UnderWay
      <4> QED BY <1>1, <2>3, <2>5, <3>1, <4>1, <4>2, TokenSpent DEF IInv
    <3>3. CASE e \notin back
      <4>1. doc'[e] = doc[e]
        BY <1>7, <3>3
      <4>2. Has(d, e)' => Has(d, e)
        BY <1>6, <2>2, <2>3, <3>1, <3>3 DEF Has
      <4>3. doc[e].token = d /\ e \notin taken => Claiming(d, e)'
        BY <1>5, <2>2, <2>3, <3>3 DEF Claiming
      <4>4. handed'[e] + One(e, disp'[d].got) <= handed[e] + One(e, disp[d].got)
        BY <1>1, <1>6, <1>7, <2>2, <2>3, <3>3 DEF One
      <4> QED BY <1>1, <2>3, <2>5, <3>1, <4>1, <4>2, <4>3, <4>4, Untouched DEF IInv
    <3> QED BY <3>2, <3>3
  <2> QED BY <1>1, <2>3, <2>5, <2>6, Compose
<1>8. CASE all(back, out)
  <2>1. /\ disp' \in [Dispatchers -> Dispatcher] /\ \A b \in Dispatchers \ {d} : disp'[b] = disp[b]
        /\ disp'[d].pc \in {"find", "publish"} /\ (disp'[d].pc = "find" => disp'[d].layer \in Layers)
        /\ disp'[d].pc = "publish" => disp'[d].got = {}
        /\ disp'[d].batch \cup disp'[d].got = disp[d].batch \cup out
        /\ handed' \in [Documents -> Nat]
        /\ \A e \in Documents : handed'[e] + One(e, disp'[d].got) = handed[e] + One(e, out)
    <3>1. CASE HandOut(d, out)
      <4>1. /\ disp' \in [Dispatchers -> Dispatcher] /\ \A b \in Dispatchers \ {d} : disp'[b] = disp[b]
            /\ disp'[d].pc \in {"find", "publish"} /\ (disp'[d].pc = "find" => disp'[d].layer \in Layers)
            /\ disp'[d].got = {} /\ disp'[d].batch = disp[d].batch \cup out
        BY <1>1, <3>1, CallOverMove DEF HandOut
      <4>2. /\ handed' \in [Documents -> Nat]
            /\ \A e \in Documents : handed'[e] = handed[e] + One(e, out)
        BY <1>1, <3>1 DEF HandOut, One
      <4> QED BY <1>1, <4>1, <4>2 DEF One
    <3>2. CASE ScanAgain(d, out) /\ UNCHANGED handed
      <4>1. /\ disp' \in [Dispatchers -> Dispatcher] /\ \A b \in Dispatchers \ {d} : disp'[b] = disp[b]
            /\ disp'[d].pc = "find" /\ disp'[d].layer \in Layers
            /\ disp'[d].got = out /\ disp'[d].batch = disp[d].batch
        BY <1>1, <3>2, ScanAgainMove
      <4> QED BY <1>1, <3>2, <4>1
    <3> QED BY <1>8, <3>1, <3>2
  <2>2. doc' \in [Documents -> Doc] /\ moved' = moved
    BY <1>1, <1>8 DEF ScanOver, spent, Doc
  <2>3. Types' /\ Shape(d)'
    BY <1>1, <2>1, <2>2 DEF Types, Shape, Calls, Marks
  <2>4. ASSUME NEW e \in Documents PROVE DocInv(e)'
    <3>1. ~Marking(d, e)' /\ ~Marking(d, e)
      BY <1>1, <2>1 DEF Marking, Marks
    <3>2. CASE doc[e].token = d
      <4>1. doc'[e] = [doc[e] EXCEPT !.token = "none"]
        BY <1>8, <3>2 DEF ScanOver, spent
      <4>2. handed'[e] + One(e, disp'[d].got) <= handed[e] + One(e, disp[d].got) + UnderWay(doc[e])
        BY <1>1, <1>6, <2>1, <3>2 DEF One, UnderWay
      <4> QED BY <1>1, <2>1, <2>3, <3>1, <3>2, <4>1, <4>2, TokenSpent DEF IInv
    <3>3. CASE doc[e].token # d
      <4>1. doc'[e] = doc[e] /\ e \notin back
        BY <1>4, <1>8, <3>3 DEF ScanOver, spent
      <4>2. Has(d, e)' => Has(d, e)
        BY <1>6, <2>1, <3>1, <4>1 DEF Has
      <4>3. handed'[e] + One(e, disp'[d].got) <= handed[e] + One(e, disp[d].got)
        BY <1>1, <1>6, <2>1, <4>1 DEF One
      <4> QED BY <1>1, <2>1, <2>3, <3>1, <3>3, <4>1, <4>2, <4>3, Untouched DEF IInv
    <3> QED BY <3>2, <3>3
  <2> QED BY <1>1, <2>1, <2>3, <2>4, Compose
<1> HIDE DEF short, all, returned, won
<1> QED BY <1>3, <1>7, <1>8

(* The rollback puts back claims of its own call only, which nobody holds. *)
LEMMA RollbackStep == ASSUME IInv, NEW d \in Dispatchers, rollbackMissingClaims(d) PROVE IInv'
<1>1. /\ Types /\ disp \in [Dispatchers -> Dispatcher] /\ disp[d].pc = "undo" /\ disp[d].layer \in Layers
      /\ doc \in [Documents -> Doc] /\ handed \in [Documents -> Nat] /\ disp[d] \in Dispatcher
      /\ disp[d].got \in SUBSET Documents /\ disp[d].found \in SUBSET Documents
      /\ ScanAgain(d, disp[d].got) /\ UNCHANGED <<setup, created, faults, acked, refused, taken, handed, removed>>
  <2>1. /\ disp[d].pc = "undo" /\ ScanAgain(d, disp[d].got)
        /\ UNCHANGED <<setup, created, faults, acked, refused, taken, handed, removed>>
    BY Zenon DEF rollbackMissingClaims, MongoHistory
  <2> QED BY <2>1 DEF IInv, Types, Shape, Calls, Dispatcher
<1>2. /\ disp' \in [Dispatchers -> Dispatcher] /\ \A b \in Dispatchers \ {d} : disp'[b] = disp[b]
      /\ disp'[d].pc = "find" /\ disp'[d].layer \in Layers
      /\ disp'[d].got = disp[d].got /\ disp'[d].batch = disp[d].batch
  BY <1>1, ScanAgainMove
<1>3. PICK st \in {"PENDING", "FAILED", "PROCESSING"} : st = fromStatus(disp[d].layer)
  BY DEF fromStatus
<1> DEFINE f == [e \in missing(d) |-> [doc[e] EXCEPT !.status = st, !.token = "none"]]
<1>4. /\ Store(f) /\ DOMAIN f = missing(d) /\ missing(d) \subseteq Documents
      /\ \A e \in missing(d) : /\ f[e] \in Doc /\ f[e].status = st /\ f[e].attempts = doc[e].attempts
                               /\ f[e].token = "none"
  <2>1. missing(d) \subseteq Documents
    BY <1>1 DEF missing
  <2>2. Store(f)
    BY <1>3, Zenon DEF rollbackMissingClaims
  <2>3. ASSUME NEW e \in missing(d)
        PROVE  f[e] \in Doc /\ f[e].status = st /\ f[e].attempts = doc[e].attempts /\ f[e].token = "none"
    BY <1>1, <2>1 DEF Doc
  <2>4. DOMAIN f = missing(d)
    OBVIOUS
  <2> HIDE DEF f
  <2> QED BY <2>1, <2>2, <2>3, <2>4
<1> HIDE DEF f
<1>5. /\ doc' \in [Documents -> Doc] /\ moved' \in [Dispatchers -> SUBSET Documents]
      /\ \A e \in Documents \ missing(d) : doc'[e] = doc[e]
      /\ \A e \in missing(d) : /\ doc'[e].status = st /\ doc'[e].attempts = doc[e].attempts
                               /\ doc'[e].token = "none"
  BY <1>1, <1>4, Stored
<1>6. Types' /\ Shape(d)'
  BY <1>1, <1>2, <1>5 DEF Types, Shape, Calls, Marks
<1>7. ASSUME NEW e \in Documents PROVE DocInv(e)'
  <2>1. /\ ~Marking(d, e)' /\ ~Marking(d, e) /\ (Has(d, e)' <=> Has(d, e)) /\ DocInv(e)
        /\ handed'[e] + One(e, disp'[d].got) <= handed[e] + One(e, disp[d].got)
    BY <1>1, <1>2 DEF Marking, Marks, Has, One, IInv
  <2>2. CASE e \notin missing(d)
    <3>1. doc[e].token = d => e \in taken
      BY <2>1, <2>2 DEF DocInv, OwnedOnce, Claiming, missing
    <3> QED BY <1>1, <1>2, <1>5, <1>6, <2>1, <2>2, <3>1, Untouched
  <2>3. CASE e \in missing(d)
    <3>0. /\ doc[e].status = "PROCESSING" /\ doc[e].token = d /\ d # "none" /\ MaxAttempts \in Nat \ {0}
          /\ doc[e].attempts \in Nat /\ doc[e].attempts < MaxAttempts
      BY <1>1, <2>1, <2>3, MongoAssumption DEF missing, DocInv, StatusOK, Doc
    <3>1. StatusOK(e)'
      BY <1>5, <2>3, <3>0 DEF StatusOK
    <3>2. OwnedOnce(e)'
      <4>1. ASSUME NEW b \in Dispatchers, e \notin taken PROVE ~Has(b, e)'
        <5>1. ~Has(b, e)
          BY <2>1, <3>0, <4>1 DEF DocInv, OwnedOnce
        <5> QED BY <1>2, <2>1, <5>1 DEF Has, Marking
      <4>2. ASSUME NEW b \in Dispatchers PROVE Marking(b, e)' => Has(b, e)'
        BY DEF Has
      <4> QED BY <1>1, <1>5, <2>3, <4>1, <4>2, MongoAssumption DEF OwnedOnce
    <3>3. HandedOK(e)'
      <4>1. Left(doc[e])' + UnderWay(doc[e])' <= Left(doc[e]) + UnderWay(doc[e])
        BY <1>5, <2>3, <3>0 DEF Left, UnderWay
      <4>2. /\ Left(doc[e])' \in Int /\ UnderWay(doc[e])' \in Int /\ Left(doc[e]) \in Int /\ UnderWay(doc[e]) \in Int
            /\ MaxAttempts * created[e] \in Nat
        BY <1>1, <1>5, <2>3, <3>0 DEF Left, UnderWay, Types, Doc
      <4>3. /\ Cardinality(Got(e)) \in Nat /\ Cardinality(Got(e))' \in Nat
            /\ Cardinality(Got(e))' + One(e, disp[d].got) = Cardinality(Got(e)) + One(e, disp'[d].got)
        BY <1>2, GotMove
      <4>4. handed[e] \in Nat /\ handed'[e] = handed[e] /\ created'[e] = created[e] /\ disp'[d].got = disp[d].got
        BY <1>1, <1>2
      <4> QED BY <2>1, <4>1, <4>2, <4>3, <4>4 DEF DocInv, HandedOK, One
    <3> QED BY <3>1, <3>2, <3>3 DEF DocInv
  <2> QED BY <2>2, <2>3
<1> QED BY <1>1, <1>2, <1>6, <1>7, Compose

(* The sweep deletes documents that are PUBLISHED as it does, so nobody's. *)
LEMMA DeleteStep == ASSUME IInv, NEW d \in Dispatchers, deletePublishedBefore(d) PROVE IInv'
<1>1. /\ Types /\ disp \in [Dispatchers -> Dispatcher] /\ disp[d].pc = "delete" /\ disp[d].got = {}
      /\ doc \in [Documents -> Doc] /\ handed \in [Documents -> Nat] /\ moved \in [Dispatchers -> SUBSET Documents]
      /\ disp[d].batch = {}
      /\ UNCHANGED <<setup, created, faults, acked, refused, taken, handed>>
  BY DEF IInv, Types, Shape, Calls, deletePublishedBefore
<1>2. /\ stillPublished(d) \subseteq Documents
      /\ \A e \in stillPublished(d) : doc[e].status = "PUBLISHED"
  BY DEF stillPublished, publishedBefore
<1>3. /\ disp' \in [Dispatchers -> Dispatcher] /\ \A b \in Dispatchers \ {d} : disp'[b] = disp[b]
      /\ disp'[d].pc = "idle" /\ disp'[d].got = {} /\ disp'[d].batch = {}
  <2>1. idle.pc = "idle" /\ idle.got = {} /\ idle.batch = {} /\ idle \in Dispatcher
    BY IdleIsOne DEF idle
  <2> QED BY <1>1, <2>1 DEF deletePublishedBefore
<1>4. /\ doc' \in [Documents -> Doc]
      /\ \A e \in Documents : doc'[e] = IF e \in stillPublished(d) THEN absent ELSE doc[e]
  <2>1. absent \in Doc
    BY DEF absent, Doc
  <2> QED BY <1>1, <2>1 DEF deletePublishedBefore
<1>5. moved' \in [Dispatchers -> SUBSET Documents] /\ removed' \subseteq {"PUBLISHED"}
  BY <1>1, <1>2 DEF deletePublishedBefore, IInv, Types
<1>6. Types' /\ Shape(d)'
  BY <1>1, <1>3, <1>4, <1>5 DEF Types, Shape, Calls, Marks
<1>7. ASSUME NEW e \in Documents PROVE DocInv(e)'
  <2>1. /\ ~Marking(d, e)' /\ ~Has(d, e)' /\ DocInv(e)
        /\ handed'[e] + One(e, disp'[d].got) <= handed[e] + One(e, disp[d].got)
    BY <1>1, <1>3 DEF Marking, Marks, Has, One, IInv
  <2>2. CASE e \notin stillPublished(d)
    <3>1. doc[e].token = d => e \in taken
      BY <1>1, <2>1 DEF DocInv, OwnedOnce, Claiming
    <3> QED BY <1>1, <1>3, <1>4, <1>6, <2>1, <2>2, <3>1, Untouched
  <2>3. CASE e \in stillPublished(d)
    <3>0. /\ doc'[e] = absent /\ MaxAttempts \in Nat \ {0} /\ doc[e].status = "PUBLISHED"
          /\ doc'[e].status = "NONE" /\ doc'[e].attempts = 0 /\ doc'[e].token = "none"
      BY <1>2, <1>4, <2>3, MongoAssumption DEF absent
    <3>1. StatusOK(e)'
      BY <3>0 DEF StatusOK
    <3>2. OwnedOnce(e)'
      <4>1. ASSUME NEW b \in Dispatchers, e \notin taken PROVE ~Has(b, e)'
        <5>1. ~Has(b, e)
          BY <2>1, <3>0, <4>1 DEF DocInv, OwnedOnce
        <5> QED BY <1>3, <2>1, <5>1 DEF Has, Marking
      <4>2. ASSUME NEW b \in Dispatchers PROVE Marking(b, e)' => Has(b, e)'
        BY DEF Has
      <4> QED BY <1>1, <3>0, <4>1, <4>2, MongoAssumption DEF OwnedOnce
    <3>3. HandedOK(e)'
      <4>1. /\ Left(doc[e])' = 0 /\ UnderWay(doc[e])' = 0 /\ Left(doc[e]) = 0 /\ UnderWay(doc[e]) = 0
            /\ MaxAttempts * created[e] \in Nat
        BY <1>1, <3>0 DEF Left, UnderWay, Types
      <4>2. /\ Cardinality(Got(e)) \in Nat /\ Cardinality(Got(e))' \in Nat
            /\ Cardinality(Got(e))' + One(e, disp[d].got) = Cardinality(Got(e)) + One(e, disp'[d].got)
        BY <1>3, GotMove
      <4>3. handed[e] \in Nat /\ handed'[e] = handed[e] /\ created'[e] = created[e] /\ disp'[d].got = disp[d].got
        BY <1>1, <1>3
      <4> QED BY <2>1, <4>1, <4>2, <4>3 DEF DocInv, HandedOK, One
    <3> QED BY <3>1, <3>2, <3>3 DEF DocInv
  <2> QED BY <2>2, <2>3
<1> QED BY <1>1, <1>3, <1>6, <1>7, Compose

-----------------------------------------------------------------------------
(* A step of no dispatcher that leaves a document's status, attempts and   *)
(* token alone.                                                            *)
LEMMA StandStill ==
  ASSUME Types, NEW e \in Documents, DocInv(e), disp' = disp, created'[e] = created[e],
         UNCHANGED <<acked, refused, taken, handed>>,
         doc'[e].status = doc[e].status, doc'[e].attempts = doc[e].attempts, doc'[e].token = doc[e].token,
         doc'[e] = doc[e] \/ doc[e].status # "NONE"
  PROVE  DocInv(e)'
<1>1. StatusOK(e)'
  BY DEF DocInv, StatusOK
<1>2. OwnedOnce(e)'
  BY DEF DocInv, OwnedOnce, Has, Marking, Claiming
<1>3. HandedOK(e)'
  BY DEF DocInv, HandedOK, Left, UnderWay, Got
<1> QED BY <1>1, <1>2, <1>3 DEF DocInv

LEMMA AgeStep == ASSUME IInv, NEW x \in Documents, Age(x) PROVE IInv'
<1>1. /\ Types /\ doc \in [Documents -> Doc] /\ doc[x].status # "NONE" /\ doc' = [doc EXCEPT ![x].aged = TRUE]
      /\ UNCHANGED <<setup, disp, moved, created, faults, acked, refused, taken, handed, removed>>
  BY DEF IInv, Types, Age, MongoHistory
<1>2. doc' \in [Documents -> Doc]
  BY <1>1 DEF Doc
<1>3. Types'
  BY <1>1, <1>2 DEF Types
<1>4. ASSUME NEW d \in Dispatchers PROVE Shape(d)'
  BY <1>1 DEF IInv, Shape
<1>5. ASSUME NEW e \in Documents PROVE DocInv(e)'
  <2>1. /\ doc'[e].status = doc[e].status /\ doc'[e].attempts = doc[e].attempts /\ doc'[e].token = doc[e].token
        /\ doc'[e] = doc[e] \/ doc[e].status # "NONE"
    BY <1>1 DEF Doc
  <2> QED BY <1>1, <2>1, StandStill DEF IInv
<1> QED BY <1>3, <1>4, <1>5 DEF IInv

(* An insert opens a new life, with MaxAttempts handings to come.          *)
LEMMA CreateStep == ASSUME IInv, NEW x \in Documents, Create(x) PROVE IInv'
<1> DEFINE w == [absent EXCEPT !.status = "PENDING"]
<1>1. /\ Types /\ doc \in [Documents -> Doc] /\ doc[x].status = "NONE" /\ Store([y \in {x} |-> w])
      /\ created \in [Documents -> Nat] /\ created' = [created EXCEPT ![x] = @ + 1]
      /\ UNCHANGED <<setup, disp, faults, acked, refused, taken, handed, removed>>
  BY DEF IInv, Types, Create, MongoHistory
<1>2. w \in Doc /\ w.status = "PENDING" /\ w.attempts = 0 /\ w.token = "none"
  BY DEF absent, Doc
<1> HIDE DEF w
<1>3. /\ doc' \in [Documents -> Doc] /\ moved' \in [Dispatchers -> SUBSET Documents]
      /\ \A e \in Documents \ {x} : doc'[e] = doc[e]
      /\ doc'[x].status = "PENDING" /\ doc'[x].attempts = 0 /\ doc'[x].token = "none"
  BY <1>1, <1>2, Stored
<1>4. Types'
  <2>1. created' \in [Documents -> Nat]
    BY <1>1
  <2> QED BY <1>1, <1>3, <2>1 DEF Types
<1>5. ASSUME NEW d \in Dispatchers PROVE Shape(d)'
  BY <1>1 DEF IInv, Shape
<1>6. ASSUME NEW e \in Documents, e # x PROVE DocInv(e)'
  BY <1>1, <1>3, <1>6, StandStill DEF IInv
<1>7. DocInv(x)'
  <2>0. DocInv(x) /\ doc[x] = absent /\ MaxAttempts \in Nat \ {0}
    BY <1>1, MongoAssumption DEF IInv, DocInv, StatusOK
  <2>1. StatusOK(x)'
    BY <1>3, <2>0 DEF StatusOK
  <2>2. OwnedOnce(x)'
    <3>1. ASSUME NEW d \in Dispatchers, x \notin taken PROVE ~Has(d, x)
      BY <1>1, <2>0, <3>1 DEF DocInv, OwnedOnce
    <3> QED BY <1>1, <1>3, <3>1, MongoAssumption DEF OwnedOnce, Has, Marking
  <2>3. HandedOK(x)'
    <3>1. Left(doc[x]) = 0 /\ UnderWay(doc[x]) = 0 /\ Left(doc[x])' = MaxAttempts /\ UnderWay(doc[x])' = 0
      BY <1>1, <1>3, <2>0 DEF Left, UnderWay
    <3>2. /\ MaxAttempts * created'[x] = MaxAttempts * created[x] + MaxAttempts
          /\ MaxAttempts * created[x] \in Nat
      BY <1>1, <2>0
    <3>3. Got(x)' = Got(x) /\ Cardinality(Got(x)) \in Nat /\ handed'[x] = handed[x] /\ handed[x] \in Nat
      <4>1. IsFiniteSet(Got(x))
        BY MongoAssumption, FS_Subset DEF Got
      <4> QED BY <1>1, <4>1, FS_CardinalityType DEF Got, Types
    <3> QED BY <2>0, <3>1, <3>2, <3>3 DEF DocInv, HandedOK
  <2> QED BY <2>1, <2>2, <2>3 DEF DocInv
<1> QED BY <1>4, <1>5, <1>6, <1>7 DEF IInv

-----------------------------------------------------------------------------
LEMMA NextIInv == IInv /\ [MongoNext]_mongoVars => IInv'
<1> SUFFICES ASSUME IInv, [MongoNext]_mongoVars PROVE IInv'
  OBVIOUS
<1>1. ASSUME NEW e \in Documents, Create(e) \/ Age(e) PROVE IInv'
  BY <1>1, CreateStep, AgeStep
<1>2. ASSUME NEW d \in Dispatchers, DispatcherStep(d) PROVE IInv'
  BY <1>2, StartCycleStep, FindStep, ClaimOneStep, BulkOverStep, ReadBackStep, RollbackStep, PublishStep,
     MarkToSteps, MarkingSteps, MarkFailedStep, FindPublishedStep, DeleteStep DEF DispatcherStep
<1>3. ASSUME NEW d \in Dispatchers, ClaimFails(d) \/ MarkFails(d) \/ LoseCycle(d) PROVE IInv'
  BY <1>3, LossSteps, MarkingSteps
<1>4. CASE UNCHANGED mongoVars
  <2>1. Types' /\ \A d \in Dispatchers : Shape(d)'
    BY <1>4 DEF mongoVars, IInv, Types, Shape
  <2>2. ASSUME NEW e \in Documents PROVE DocInv(e)'
    BY <1>4, StandStill DEF mongoVars, IInv
  <2> QED BY <2>1, <2>2 DEF IInv
<1> QED BY <1>1, <1>2, <1>3, <1>4 DEF MongoNext

(* What MongoSound asks of one document follows from the invariant.        *)
LEMMA Sound == ASSUME IInv PROVE MongoSound
<1> SUFFICES ASSUME NEW e \in Documents
             PROVE  /\ doc[e].attempts \in 0..MaxAttempts
                    /\ e \notin taken => Cardinality({d \in Dispatchers : e \in holds(d)}) <= 1
                    /\ handed[e] <= MaxAttempts * created[e]
                    /\ doc[e].status = "PUBLISHED" => e \in acked
                    /\ doc[e].status = "INVALID" => e \in refused \/ doc[e].attempts = MaxAttempts
  BY DEF MongoSound, IInv, Types
<1>1. StatusOK(e) /\ OwnedOnce(e) /\ HandedOK(e) /\ doc[e] \in Doc /\ MaxAttempts \in Nat
  BY MongoAssumption DEF IInv, DocInv, Types
<1>2. doc[e].attempts \in 0..MaxAttempts
  BY <1>1 DEF StatusOK, Doc
<1>3. ASSUME e \notin taken PROVE Cardinality({d \in Dispatchers : e \in holds(d)}) <= 1
  <2> DEFINE H == {d \in Dispatchers : e \in holds(d)}
  <2>1. \A d \in H : d \in Dispatchers /\ Has(d, e)
    BY DEF holds, Has, Marking, Marks
  <2>2. \A d, b \in H : d = b
    BY <1>1, <1>3, <2>1 DEF OwnedOnce
  <2> HIDE DEF H
  <2>3. CASE H = {}
    BY <2>3, FS_EmptySet DEF H
  <2>4. CASE H # {}
    <3>1. PICK d \in H : TRUE
      BY <2>4
    <3>2. H = {d}
      BY <2>2
    <3> QED BY <3>2, FS_Singleton DEF H
  <2> QED BY <2>3, <2>4
<1>4. handed[e] <= MaxAttempts * created[e]
  <2>1. Left(doc[e]) \in Nat /\ UnderWay(doc[e]) \in Nat /\ handed[e] \in Nat /\ MaxAttempts * created[e] \in Nat
    BY <1>1 DEF Left, UnderWay, StatusOK, Doc, IInv, Types
  <2>2. Cardinality(Got(e)) \in Nat
    BY MongoAssumption, FS_Subset, FS_CardinalityType DEF Got
  <2> QED BY <1>1, <2>1, <2>2 DEF HandedOK
<1> QED BY <1>1, <1>2, <1>3, <1>4 DEF StatusOK

(* IInv is an invariant.                                                   *)
LEMMA Invariance == MongoSpec => []IInv
<1> QED BY InitIInv, NextIInv, PTL DEF MongoSpec

(* Claims without a transaction, read-backs that lag, bulks, rollbacks,    *)
(* marks and cycles that are lost half-way, and updated_at stamps that     *)
(* tie: still at most one dispatcher holds a document no stuck reclaim     *)
(* took over, a document is handed to a handler at most MaxAttempts times  *)
(* in one life, its terminal status is true, and the sweep deletes nothing *)
(* but published documents.                                                *)
THEOREM MongoSoundHolds == MongoSpec => []MongoSound
<1> QED BY Invariance, Sound, PTL

-----------------------------------------------------------------------------
(* The tenant databases of the MongoDB outbox.                             *)

(* A caller past the resolution works for the tenant of its context, and   *)
(* one that creates indexes is in the critical section and found none.     *)
ClientOK(c) ==
    /\ at[c] \in {"idle", "resolve", "index", "lock", "create"} /\ context[c] \in CallContexts
    /\ at[c] \in {"index", "lock", "create"} => database[c] \in TenantIDs /\ database[c] = context[c].tenant
    /\ at[c] = "create" <=> indexMu = c
    /\ at[c] = "create" => database[c] \notin indexed

DatabasesInv ==
    /\ repo \in Repositories /\ at = [c \in Clients |-> at[c]]
    /\ context = [c \in Clients |-> context[c]] /\ database = [c \in Clients |-> database[c]]
    /\ creations \in [TenantIDs -> Nat] /\ built = indexed
    /\ \A t \in TenantIDs : t \notin indexed => creations[t] = 0
    /\ \A c \in Clients : ClientOK(c)
    /\ TenantsStayApart

(* Where a context leads: to its own tenant's database, nowhere, or, for   *)
(* the lack of a tenant or of a way to find one, to the repository's own.  *)
LEMMA Resolution ==
    ASSUME repo \in Repositories, NEW x \in CallContexts, NEW answer \in {"found", "unknown", "failed"}
    PROVE  /\ collectionDatabase(x, answer) \in TenantIDs => collectionDatabase(x, answer) = x.tenant
           /\ collectionDatabase(x, answer) = OwnDatabase =>
                ~repo.module /\ (repo.resolver => x.tenant = NoTenant)
<1>1. x.tenant \in TenantIDs \cup {NoTenant, BadTenant} /\ repo.module \in BOOLEAN /\ repo.resolver \in BOOLEAN
  BY DatabasesAssumption
<1>2. CASE x.tenant \in TenantIDs
  <2>1. tenantIDFromContext(x) = x.tenant
    BY <1>2, DatabasesAssumption DEF tenantIDFromContext
  <2>2. resolveTenantDatabase(x, answer) = (IF answer = "found" THEN x.tenant ELSE answer)
    BY <1>2, <2>1, DatabasesAssumption DEF resolveTenantDatabase
  <2> QED
    BY <1>1, <1>2, <2>2, DatabasesAssumption DEF collectionDatabase, resolvedTenantDatabase, OwnDatabase
<1>3. CASE x.tenant = NoTenant
  <2>1. tenantIDFromContext(x) \in {"required", "default scope"}
    BY <1>3 DEF tenantIDFromContext
  <2>2. resolveTenantDatabase(x, answer) = "required"
    BY <2>1 DEF resolveTenantDatabase
  <2> QED
    BY <1>1, <1>3, <2>2, DatabasesAssumption DEF collectionDatabase, resolvedTenantDatabase, OwnDatabase, NoTenant
<1>4. CASE x.tenant = BadTenant
  <2>1. tenantIDFromContext(x) = "invalid"
    BY <1>4 DEF tenantIDFromContext, BadTenant, NoTenant
  <2>2. resolveTenantDatabase(x, answer) = "invalid"
    BY <2>1 DEF resolveTenantDatabase
  <2> QED
    BY <1>1, <1>4, <2>2, DatabasesAssumption DEF collectionDatabase, resolvedTenantDatabase, OwnDatabase, BadTenant
<1> QED
  BY <1>1, <1>2, <1>3, <1>4


(* A database a call with context x may work on.                           *)
Allowed(x, db) ==
    /\ x.tenant \in TenantIDs => db = x.tenant \/ (db = OwnDatabase /\ ~repo.module /\ ~repo.resolver)
    /\ x.tenant = BadTenant => db = OwnDatabase /\ ~repo.module /\ ~repo.resolver
    /\ repo.module => db # OwnDatabase

LEMMA OwnTenant == ASSUME NEW x, x.tenant \in TenantIDs PROVE Allowed(x, x.tenant)
BY DatabasesAssumption DEF Allowed, BadTenant, OwnDatabase

LEMMA HandsOut ==
    ASSUME TenantsStayApart, UNCHANGED <<repo, creations>>, NEW c \in Clients, NEW db \in built \cup {OwnDatabase},
           hands(c, db), Allowed(context[c], db)
    PROVE  TenantsStayApart'
<1> DEFINE u == [context |-> context[c], database |-> db, ready |-> db \in built \cup {OwnDatabase}]
<1>1. u.context = context[c] /\ u.database = db /\ u.ready
  OBVIOUS
<1>2. used' = used \cup {u}
  BY DEF hands
<1> HIDE DEF u
<1> QED
  BY <1>1, <1>2 DEF TenantsStayApart, Allowed

(* The steps of one caller keep the invariant.                             *)
LEMMA ClientSteps ==
    ASSUME DatabasesInv, NEW c \in Clients,
           Begin(c) \/ collection(c) \/ Load(c) \/ Lock(c) \/ ensureDatabaseIndexes(c)
    PROVE  DatabasesInv'
<1>0. NoTenant \notin Clients
  BY DatabasesAssumption
<1>1. CASE Begin(c)
  <2>1. TenantsStayApart'
    BY <1>1 DEF Begin, DatabasesInv, TenantsStayApart
  <2>2. \A b \in Clients : ClientOK(b)'
    BY <1>1 DEF Begin, DatabasesInv, ClientOK
  <2> QED
    BY <1>1, <2>1, <2>2 DEF Begin, DatabasesInv
<1>2. CASE collection(c)
  <2>1. PICK answer \in {"found", "unknown", "failed"} :
          LET db == collectionDatabase(context[c], answer) IN
          \/ /\ db \in TenantIDs /\ database' = [database EXCEPT ![c] = db]
             /\ at' = [at EXCEPT ![c] = "index"] /\ UNCHANGED used
          \/ /\ db = OwnDatabase /\ hands(c, OwnDatabase) /\ at' = [at EXCEPT ![c] = "idle"] /\ UNCHANGED database
          \/ /\ db \notin TenantIDs \cup {OwnDatabase} /\ at' = [at EXCEPT ![c] = "idle"] /\ UNCHANGED <<database, used>>
    BY <1>2 DEF collection
  <2> DEFINE db == collectionDatabase(context[c], answer)
  <2>2. context[c] \in CallContexts /\ repo \in Repositories /\ at[c] = "resolve"
    BY <1>2 DEF DatabasesInv, ClientOK, collection
  <2>3. db \in TenantIDs => db = context[c].tenant
    BY <2>2, Resolution
  <2>4. db = OwnDatabase => ~repo.module /\ (repo.resolver => context[c].tenant = NoTenant)
    BY <2>2, Resolution
  <2> HIDE DEF db
  <2>5. UNCHANGED <<repo, context, indexed, indexMu, built, creations>>
    BY <1>2 DEF collection
  <2>6. CASE db \in TenantIDs /\ database' = [database EXCEPT ![c] = db] /\ at' = [at EXCEPT ![c] = "index"] /\ UNCHANGED used
    BY <2>2, <2>3, <2>5, <2>6 DEF DatabasesInv, ClientOK, TenantsStayApart
  <2>7. CASE db = OwnDatabase /\ hands(c, OwnDatabase) /\ at' = [at EXCEPT ![c] = "idle"] /\ UNCHANGED database
    <3>1. TenantsStayApart'
      <4>1. context[c].tenant \in TenantIDs \cup {NoTenant, BadTenant} /\ NoTenant \notin TenantIDs /\ NoTenant # BadTenant
        BY <2>2, DatabasesAssumption DEF NoTenant, BadTenant
      <4>2. Allowed(context[c], OwnDatabase)
        BY <2>4, <2>7, <4>1 DEF Allowed
      <4> QED
        BY <2>5, <2>7, <4>2, HandsOut DEF DatabasesInv
    <3> QED
      BY <2>2, <2>5, <2>7, <3>1 DEF DatabasesInv, ClientOK
  <2>8. CASE at' = [at EXCEPT ![c] = "idle"] /\ UNCHANGED <<database, used>>
    BY <2>2, <2>5, <2>8 DEF DatabasesInv, ClientOK, TenantsStayApart
  <2> QED
    BY <2>1, <2>6, <2>7, <2>8 DEF db
<1>3. CASE (at[c] = "index" \/ at[c] = "lock") /\ database[c] \in indexed /\ hands(c, database[c])
           /\ at' = [at EXCEPT ![c] = "idle"]
           /\ UNCHANGED <<repo, context, database, indexed, indexMu, built, creations>>
  <2>1. TenantsStayApart'
    <3>1. Allowed(context[c], database[c])
      BY <1>3, OwnTenant DEF DatabasesInv, ClientOK
    <3>2. database[c] \in built
      BY <1>3 DEF DatabasesInv
    <3> QED
      BY <1>3, <3>1, <3>2, HandsOut DEF DatabasesInv
  <2> QED
    BY <1>3, <2>1 DEF DatabasesInv, ClientOK
<1>4. CASE Load(c)
  <2>1. CASE database[c] \in indexed
    BY <1>3, <1>4, <2>1 DEF Load
  <2>2. CASE database[c] \notin indexed
    <3>1. TenantsStayApart'
      BY <1>4, <2>2 DEF Load, DatabasesInv, TenantsStayApart
    <3>2. \A b \in Clients : ClientOK(b)'
      BY <1>4, <2>2 DEF Load, DatabasesInv, ClientOK
    <3> QED
      BY <1>4, <2>2, <3>1, <3>2 DEF Load, DatabasesInv
  <2> QED
    BY <2>1, <2>2
<1>5. CASE Lock(c)
  <2>1. CASE database[c] \in indexed
    BY <1>3, <1>5, <2>1 DEF Lock, knownByNow
  <2>2. CASE database[c] \notin indexed
    <3>1. /\ at[c] = "lock" /\ indexMu = NoTenant /\ indexMu' = c /\ at' = [at EXCEPT ![c] = "create"]
          /\ UNCHANGED <<repo, context, database, used, indexed, built, creations>>
      BY <1>5, <2>2 DEF Lock, knownByNow
    <3>2. TenantsStayApart'
      BY <3>1 DEF DatabasesInv, TenantsStayApart
    <3>3. ASSUME NEW b \in Clients PROVE ClientOK(b)'
      <4>1. ClientOK(b) /\ ClientOK(c) /\ b # NoTenant /\ at = [x \in Clients |-> at[x]]
        BY <3>3, DatabasesAssumption DEF DatabasesInv
      <4>2. CASE b = c
        BY <2>2, <3>1, <4>1, <4>2 DEF ClientOK
      <4>3. CASE b # c
        BY <3>1, <3>3, <4>1, <4>3 DEF ClientOK
      <4> QED
        BY <4>2, <4>3
    <3> QED
      BY <3>1, <3>2, <3>3 DEF DatabasesInv
  <2> QED
    BY <2>1, <2>2
<1>6. CASE ensureDatabaseIndexes(c)
  <2>1. /\ at[c] = "create" /\ database[c] \in TenantIDs /\ database[c] = context[c].tenant /\ indexMu = c
        /\ database[c] \notin indexed /\ UNCHANGED <<repo, context, database>>
        /\ indexMu' = NoTenant /\ at' = [at EXCEPT ![c] = "idle"]
    BY <1>6 DEF ensureDatabaseIndexes, DatabasesInv, ClientOK
  <2>2. CASE UNCHANGED <<built, creations, indexed, used>>
    <3>1. TenantsStayApart'
      BY <2>1, <2>2 DEF DatabasesInv, TenantsStayApart
    <3>2. \A b \in Clients : ClientOK(b)'
      BY <1>0, <2>1, <2>2 DEF DatabasesInv, ClientOK
    <3> QED
      BY <2>1, <2>2, <3>1, <3>2 DEF DatabasesInv
  <2>3. CASE /\ built' = built \cup {database[c]} /\ creations' = [creations EXCEPT ![database[c]] = @ + 1]
             /\ indexed' = indexed \cup {database[c]}
             /\ used' = used \cup {[context |-> context[c], database |-> database[c], ready |-> TRUE]}
    <3>1. /\ creations' \in [TenantIDs -> Nat] /\ \A t \in TenantIDs : t \notin indexed' => creations'[t] = 0
          /\ \A t \in TenantIDs : creations'[t] <= 1
      <4>1. creations[database[c]] = 0
        BY <2>1 DEF DatabasesInv
      <4> QED
        BY <2>1, <2>3, <4>1 DEF DatabasesInv, TenantsStayApart
    <3>2. TenantsStayApart'
      <4>1. Allowed(context[c], database[c])
        BY <2>1, OwnTenant
      <4> QED
        <5> DEFINE u == [context |-> context[c], database |-> database[c], ready |-> TRUE]
        <5>1. u.context = context[c] /\ u.database = database[c] /\ u.ready
          OBVIOUS
        <5>2. used' = used \cup {u} /\ UNCHANGED repo
          BY <2>1, <2>3
        <5> HIDE DEF u
        <5>3. TenantsStayApart
          BY DEF DatabasesInv
        <5> QED
          BY <3>1, <4>1, <5>1, <5>2, <5>3 DEF TenantsStayApart, Allowed
    <3>3. \A b \in Clients : ClientOK(b)'
      BY <1>0, <2>1, <2>3 DEF DatabasesInv, ClientOK
    <3> QED
      BY <2>1, <2>3, <3>1, <3>2, <3>3 DEF DatabasesInv
  <2> QED
    BY <1>6, <2>2, <2>3 DEF ensureDatabaseIndexes
<1> QED
  BY <1>1, <1>2, <1>4, <1>5, <1>6

(* Every call reaches its own tenant's database, with its indexes made     *)
(* once, for any number of clients and tenants (collection,                *)
(* ensureDatabaseIndexes).                                                 *)
THEOREM TenantsStayApartHolds == MongoDatabasesSpec => []TenantsStayApart
<1>1. MongoDatabasesInit => DatabasesInv
  <2> SUFFICES ASSUME MongoDatabasesInit PROVE DatabasesInv
    OBVIOUS
  <2>1. (CHOOSE x \in CallContexts : TRUE) \in CallContexts
    BY DatabasesAssumption
  <2> QED
    <3>1. \A c \in Clients : ClientOK(c)
      BY <2>1, DatabasesAssumption DEF MongoDatabasesInit, ClientOK, NoTenant
    <3>2. creations \in [TenantIDs -> Nat] /\ \A t \in TenantIDs : creations[t] = 0
      BY DEF MongoDatabasesInit
    <3> QED
      BY <3>1, <3>2 DEF MongoDatabasesInit, DatabasesInv, TenantsStayApart
<1>2. DatabasesInv /\ [MongoDatabasesNext]_mdVars => DatabasesInv'
  <2>1. CASE MongoDatabasesNext
    BY <2>1, ClientSteps DEF MongoDatabasesNext
  <2>2. CASE UNCHANGED mdVars
    BY <2>2 DEF mdVars, DatabasesInv, ClientOK, TenantsStayApart
  <2> QED
    BY <2>1, <2>2
<1> QED
  BY <1>1, <1>2, PTL DEF MongoDatabasesSpec, DatabasesInv

-----------------------------------------------------------------------------
(* The caches of the tenant discovery.                                     *)

Lifetime == IF kind = "presence" THEN TTL ELSE TTL + QueryTimeout

Look == [pc : {"idle", "probing", "storing", "missed", "flying", "scanning", "served", "failed"}, now : Nat, known : Nat]

(* The entry expires within its lifetime of the moment it was read in.     *)
CacheOK == cache.set => cache.known <= clock /\ cache.until <= cache.known + Lifetime

(* A probe read the clock before it asked; who flies waits for a leader.   *)
LookOK(c) ==
    /\ look[c].pc \in {"probing", "storing"} => kind = "presence" /\ look[c].now <= clock
    /\ look[c].pc = "storing" => look[c].now <= look[c].known /\ look[c].known <= clock
    /\ look[c].pc = "missed" => kind = "discovery"
    /\ look[c].pc \in {"flying", "scanning"} => kind = "discovery" /\ flight.leader # "none"
    /\ look[c].pc = "scanning" => flight.leader = c
    /\ look[c].pc = "served" => look[c].now <= look[c].known + Lifetime

(* The query is the leader's and within its timeout.                       *)
FlightOK ==
    flight.leader # "none" =>
      /\ look[flight.leader].pc \in {"flying", "scanning"}
      /\ flight.since <= clock /\ clock <= flight.since + QueryTimeout
      /\ look[flight.leader].pc = "scanning" => flight.since <= flight.known /\ flight.known <= clock

DiscoveryInv ==
    /\ kind \in {"presence", "discovery"} /\ clock \in Nat
    /\ cache \in [set : BOOLEAN, known : Nat, until : Nat]
    /\ flight \in [leader : Readers \cup {"none"}, since : Nat, known : Nat]
    /\ look \in [Readers -> Look]
    /\ CacheOK /\ FlightOK /\ \A c \in Readers : LookOK(c)

LEMMA LifetimeFits == ASSUME kind \in {"presence", "discovery"} PROVE Lifetime \in Nat /\ TTL <= Lifetime
BY DiscoveryAssumption DEF Lifetime

(* The guard's steps.                                                      *)
LEMMA PresenceSteps ==
    ASSUME DiscoveryInv, NEW c \in Readers, present(c) \/ Probes(c) \/ ProbeFails(c) \/ StoresPresence(c) \/ Rests(c)
    PROVE  DiscoveryInv'
<1>0. Lifetime \in Nat /\ TTL <= Lifetime /\ TTL \in Nat /\ (kind = "presence" => Lifetime = TTL) /\ QueryTimeout \in Nat
  BY LifetimeFits, DiscoveryAssumption DEF DiscoveryInv, Lifetime
<1>1. CASE present(c)
  <2>1. CASE cached
    BY <1>0, <1>1, <2>1 DEF present, Served, becomes, cached, DiscoveryInv, Look, CacheOK, LookOK, FlightOK, Lifetime
  <2>2. CASE ~cached
    BY <1>0, <1>1, <2>2 DEF present, becomes, DiscoveryInv, Look, CacheOK, LookOK, FlightOK, Lifetime
  <2> QED
    BY <2>1, <2>2
<1>2. CASE Probes(c)
  <2>1. /\ look[c] \in Look /\ look[c].pc = "probing"
        /\ look' = [look EXCEPT ![c] = [look[c] EXCEPT !.pc = "storing", !.known = clock]]
        /\ UNCHANGED <<kind, clock, cache, flight>>
    BY <1>2 DEF Probes, becomes, DiscoveryInv
  <2>2. look'[c] = [pc |-> "storing", now |-> look[c].now, known |-> clock] /\ look'[c] \in Look
    BY <2>1 DEF DiscoveryInv, Look
  <2>3. look' \in [Readers -> Look] /\ \A b \in Readers \ {c} : look'[b] = look[b]
    BY <2>1, <2>2 DEF DiscoveryInv
  <2>4. FlightOK' /\ CacheOK'
    BY <2>1, <2>3, <1>0 DEF DiscoveryInv, FlightOK, CacheOK, Lifetime
  <2>5. \A b \in Readers : LookOK(b)'
    BY <2>1, <2>2, <2>3, <1>0 DEF DiscoveryInv, LookOK, Lifetime
  <2> QED
    BY <2>1, <2>3, <2>4, <2>5 DEF DiscoveryInv
<1>3. CASE ProbeFails(c)
  BY <1>0, <1>3 DEF ProbeFails, resting, becomes, DiscoveryInv, Look, CacheOK, LookOK, FlightOK, Lifetime
<1>4. CASE StoresPresence(c)
  BY <1>0, <1>4 DEF StoresPresence, resting, expires, becomes, DiscoveryInv, Look, CacheOK, LookOK, FlightOK, Lifetime
<1>5. CASE Rests(c)
  BY <1>0, <1>5 DEF Rests, resting, becomes, DiscoveryInv, Look, CacheOK, LookOK, FlightOK, Lifetime
<1> QED
  BY <1>1, <1>2, <1>3, <1>4, <1>5

(* The resolver's steps.                                                   *)
LEMMA FlightSteps ==
    ASSUME DiscoveryInv, NEW c \in Readers,
           \/ DiscoverTenants(c) \/ JoinsFlight(c) \/ LooksAgain(c) \/ queryTenants(c) \/ storeCachedTenants(c)
           \/ QueryFails(c)
    PROVE  DiscoveryInv'
<1>0. /\ Lifetime \in Nat /\ TTL \in Nat /\ QueryTimeout \in Nat /\ TTL <= Lifetime
      /\ (kind = "discovery" => Lifetime = TTL + QueryTimeout) /\ "none" \notin Readers
  BY LifetimeFits, DiscoveryAssumption DEF DiscoveryInv, Lifetime
<1>1. CASE DiscoverTenants(c)
  BY <1>0, <1>1 DEF DiscoverTenants, Served, becomes, resting, cached, DiscoveryInv, Look, CacheOK, LookOK, FlightOK,
                    Lifetime
<1>6. CASE JoinsFlight(c)
  <2>1. look[c].pc = "missed" /\ kind = "discovery" /\ UNCHANGED <<kind, clock, cache>>
    BY <1>6 DEF JoinsFlight, DiscoveryInv, LookOK
  <2>2. look' = [look EXCEPT ![c] = [pc |-> "flying", now |-> 0, known |-> 0]]
    <3>1. [resting EXCEPT !.pc = "flying"] = [pc |-> "flying", now |-> 0, known |-> 0]
      BY DEF resting
    <3>2. look' = [look EXCEPT ![c] = [resting EXCEPT !.pc = "flying"]]
      BY <1>6 DEF JoinsFlight, becomes
    <3> QED
      BY <3>1, <3>2
  <2>3. CASE flight.leader = "none"
    <3>1. flight' = [leader |-> c, since |-> clock, known |-> 0]
      BY <1>6, <2>3 DEF JoinsFlight, grounded
    <3> QED
      BY <1>0, <2>1, <2>2, <2>3, <3>1 DEF DiscoveryInv, Look, CacheOK, LookOK, FlightOK, Lifetime
  <2>4. CASE flight.leader # "none"
    <3>1. UNCHANGED flight
      BY <1>6, <2>4 DEF JoinsFlight
    <3> QED
      BY <1>0, <2>1, <2>2, <2>4, <3>1 DEF DiscoveryInv, Look, CacheOK, LookOK, FlightOK, Lifetime
  <2> QED
    BY <2>3, <2>4
<1>2. CASE LooksAgain(c)
  BY <1>0, <1>2 DEF LooksAgain, grounded, cached, DiscoveryInv, Look, CacheOK, LookOK, FlightOK, Lifetime
<1>3. CASE queryTenants(c)
  BY <1>0, <1>3 DEF queryTenants, becomes, DiscoveryInv, Look, CacheOK, LookOK, FlightOK, Lifetime
<1>4. CASE storeCachedTenants(c)
  BY <1>0, <1>4 DEF storeCachedTenants, grounded, DiscoveryInv, Look, CacheOK, LookOK, FlightOK, Lifetime
<1>5. CASE QueryFails(c)
  BY <1>0, <1>5 DEF QueryFails, grounded, resting, DiscoveryInv, Look, CacheOK, LookOK, FlightOK, Lifetime
<1> QED
  BY <1>1, <1>2, <1>3, <1>4, <1>5, <1>6

(* What is served is no older than its lifetime, for any number of readers *)
(* and any lifetimes (present, DiscoverTenants).                           *)
THEOREM SkipIsBoundedHolds == DiscoverySpec => []SkipIsBounded
<1>1. DiscoveryInit => DiscoveryInv
  BY DiscoveryAssumption DEF DiscoveryInit, grounded, resting, DiscoveryInv, Look, CacheOK, LookOK, FlightOK
<1>2. DiscoveryInv /\ [DiscoveryNext]_qvars => DiscoveryInv'
  <2>1. ASSUME DiscoveryInv, Tick PROVE DiscoveryInv'
    <3>1. Lifetime \in Nat /\ QueryTimeout \in Nat
      BY <2>1, LifetimeFits, DiscoveryAssumption DEF DiscoveryInv
    <3> QED
      BY <2>1, <3>1 DEF Tick, DiscoveryInv, Look, CacheOK, LookOK, FlightOK, Lifetime
  <2>2. CASE UNCHANGED qvars
    BY <2>2 DEF qvars, DiscoveryInv, CacheOK, LookOK, FlightOK, Lifetime
  <2> QED
    BY <2>1, <2>2, PresenceSteps, FlightSteps DEF DiscoveryNext, LookStep
<1>3. DiscoveryInv => SkipIsBounded
  <2> SUFFICES ASSUME DiscoveryInv PROVE SkipIsBounded
    OBVIOUS
  <2>1. Lifetime \in Nat /\ TTL \in Nat /\ QueryTimeout \in Nat
    BY LifetimeFits, DiscoveryAssumption DEF DiscoveryInv
  <2>2. \A c \in Readers : look[c].pc = "served" => look[c].now - look[c].known <= Lifetime
    BY <2>1 DEF DiscoveryInv, LookOK, Look
  <2>3. cached => clock - cache.known < Lifetime
    BY <2>1 DEF DiscoveryInv, CacheOK, cached
  <2> QED
    BY <2>2, <2>3 DEF DiscoveryInv, LookOK, FlightOK, SkipIsBounded, Lifetime
<1> QED
  BY <1>1, <1>2, <1>3, PTL DEF DiscoverySpec

-----------------------------------------------------------------------------
(* The topology cache of the Postgres pools.                               *)

Entry == [scopes : SUBSET {"generic", "module"}, by : Nat]
Pools == ((Tenants \cup {"root"}) \X {"generic", "module"}) \cup {<<"unavailable">>, <<"installed">>}
Call  == [pc : {"start", "waiting", "listing", "loading", "locking", "done"}, id : Nat,
          todo : SUBSET Tenants, built : [Tenants -> Entry], since : Nat, listed : Nat, drew : Nat, round : Nat,
          answer : [at : Nat, excused : BOOLEAN], asked : Tenants \cup {"none"}, pool : Pools]

TopologyTypes ==
    /\ plan \in Plans /\ listed \subseteq Tenants /\ topology \in [Tenants -> Entry]
    /\ valid \in BOOLEAN /\ refreshed \in BOOLEAN /\ lapsed \in BOOLEAN /\ failedOpen \in BOOLEAN
    /\ refreshID \in Nat /\ committedRefreshID \in Nat /\ epoch \in Nat /\ listedIn \in Nat /\ honoured \in Nat
    /\ refreshMu \in Callers \cup {"free"} /\ gone \in [Tenants -> Nat] /\ call \in [Callers -> Call]

(* Ids and epochs are drawn together: a later id has no earlier epoch.     *)
Drawn == \A c, d \in Callers : call[c].id > call[d].id => call[c].drew >= call[d].drew

(* What is not superseded was drawn after the evictions and invalidations  *)
(* that have finished.                                                     *)
InTime(c) ==
    /\ call[c].id <= refreshID /\ call[c].drew <= epoch /\ call[c].since <= honoured
    /\ call[c].id > committedRefreshID =>
         call[c].drew >= honoured /\ \A t \in Tenants : call[c].drew >= gone[t]

EntryOK(t, e) ==
    /\ "module" \in e.scopes => "generic" \in e.scopes
    /\ t = Default => "module" \notin e.scopes

(* A refresh holds refreshMu; what it builds bears the epoch it drew.      *)
RefreshOK(c) ==
    /\ call[c].pc \in {"listing", "loading"} <=> refreshMu = c
    /\ call[c].pc \in {"listing", "loading"} => call[c].drew >= call[c].since
    /\ call[c].pc = "loading" => call[c].listed >= call[c].drew
    /\ \A t \in Tenants :
         /\ EntryOK(t, call[c].built[t])
         /\ call[c].built[t].scopes # {} => call[c].pc = "loading" /\ call[c].built[t].by = call[c].drew
    /\ call[c].pc # "done" => call[c].answer.excused

AnswerOK(c) == call[c].answer.excused \/ call[c].answer.at >= call[c].since

PoolOK(c) ==
    call[c].pool # <<"unavailable">> =>
      \/ call[c].pool = <<"installed">>
      \/ call[c].pool[1] = call[c].asked
      \/ call[c].pool[1] = "root" /\ call[c].asked = Default

CallOK(c) == InTime(c) /\ RefreshOK(c) /\ AnswerOK(c) /\ PoolOK(c)

CachedOK ==
    /\ honoured <= epoch /\ \A t \in Tenants : gone[t] <= epoch
    /\ valid => failedOpen \/ listedIn >= honoured
    /\ \A t \in Tenants : EntryOK(t, topology[t]) /\ (topology[t].scopes # {} => topology[t].by >= gone[t])

TopologyInv == TopologyTypes /\ Drawn /\ CachedOK /\ \A c \in Callers : CallOK(c)

-----------------------------------------------------------------------------
LEMMA FreshCall == none \in Entry /\ fresh \in Call
BY DEF none, fresh, Entry, Call, Pools

(* One caller's move, with r what it does from now on.                     *)
LEMMA OneCall ==
    ASSUME TopologyTypes, NEW c \in Callers, NEW r \in Call, call' = [call EXCEPT ![c] = r]
    PROVE  call' \in [Callers -> Call] /\ call'[c] = r /\ \A d \in Callers \ {c} : call'[d] = call[d]
BY DEF TopologyTypes

(* A caller that draws no id and leaves caches and history alone.          *)
LEMMA LocalMove ==
    ASSUME TopologyInv, NEW c \in Callers, NEW r \in Call, call' = [call EXCEPT ![c] = r],
           UNCHANGED <<plan, listed, caches, refreshID, epoch, gone, honoured>>,
           \/ r.id = call[c].id /\ r.drew = call[c].drew
           \/ r.id = 0 /\ r.drew = 0,
           r.since <= honoured,
           refreshMu' \in Callers \cup {"free"},
           \A d \in Callers \ {c} : refreshMu = d <=> refreshMu' = d,
           RefreshOK(c)', AnswerOK(c)', PoolOK(c)'
    PROVE  TopologyInv'
<1>1. call' \in [Callers -> Call] /\ call'[c] = r /\ \A d \in Callers \ {c} : call'[d] = call[d]
  BY OneCall DEF TopologyInv
<1>2. TopologyTypes' /\ CachedOK'
  BY <1>1 DEF TopologyInv, TopologyTypes, CachedOK, caches, EntryOK
<1>3. r.id \in Nat /\ r.drew \in Nat /\ r.since \in Nat /\ \A d \in Callers : call[d] \in Call
  BY DEF TopologyInv, TopologyTypes, Call
<1>4. \A d \in Callers : call[d].id \in Nat /\ call[d].drew \in Nat
  BY <1>3 DEF Call
<1>5. Drawn'
  BY <1>1, <1>3, <1>4 DEF TopologyInv, Drawn
<1>6. InTime(c)'
  BY <1>1, <1>3, <1>4 DEF TopologyInv, TopologyTypes, CallOK, InTime, caches
<1>7. ASSUME NEW d \in Callers \ {c} PROVE CallOK(d)'
  BY <1>1, <1>7 DEF TopologyInv, CallOK, InTime, RefreshOK, EntryOK, AnswerOK, PoolOK, caches
<1> QED
  BY <1>2, <1>5, <1>6, <1>7 DEF TopologyInv, CallOK
-----------------------------------------------------------------------------
(* A lookup that begins without a scope, or has its scope in the topology, *)
(* leads to the tenant's own pool.                                         *)
LEMMA Routed ==
    ASSUME TopologyTypes, NEW x \in Contexts,
           NEW p, p = LET found == newTenantPoolLookup(x) IN
                      IF found[1] = "scope" THEN PoolForTenantDispatchScope(found[2], found[3]) ELSE found
    PROVE  /\ p \in Pools /\ x.tenant \in Tenants \cup {"none"}
           /\ p # <<"unavailable">> =>
                p = <<"installed">> \/ p[1] = x.tenant \/ (p[1] = "root" /\ x.tenant = Default)
<1> USE TopologyAssumption
<1>1. /\ x.tenant \in Tenants \cup {"none"} /\ x.scopeTenant \in Tenants
      /\ x.scope \in {"absent", "generic", "module"} /\ x.installed \in {"none", "empty", "pool"}
  BY DEF Contexts
<1>2. \A t \in Tenants : PoolForTenant(t) \in Pools /\ PoolForTenant(t)[1] # "scope"
                         /\ (PoolForTenant(t)[1] = t \/ (PoolForTenant(t)[1] = "root" /\ t = Default))
  BY DEF PoolForTenant, Pools
<1>3. CASE x.scope # "absent" /\ ~scopeValid(x)
  BY <1>1, <1>3 DEF newTenantPoolLookup, Pools
<1>4. CASE x.scope # "absent" /\ scopeValid(x)
  <2>1. newTenantPoolLookup(x) = <<"scope", x.scopeTenant, x.scope>>
    BY <1>4 DEF newTenantPoolLookup
  <2>2. p = PoolForTenantDispatchScope(x.scopeTenant, x.scope) /\ x.scopeTenant = x.tenant
    BY <1>4, <2>1 DEF scopeValid
  <2> QED
    BY <1>1, <1>2, <2>2 DEF PoolForTenantDispatchScope, Pools
<1>5. CASE x.scope = "absent" /\ x.installed = "pool"
  BY <1>1, <1>5 DEF newTenantPoolLookup, Pools
<1>6. CASE x.scope = "absent" /\ x.installed # "pool" /\ x.tenant # "none"
  <2>1. newTenantPoolLookup(x) = PoolForTenant(x.tenant)
    BY <1>6 DEF newTenantPoolLookup
  <2> QED
    BY <1>1, <1>2, <1>6, <2>1
<1>7. CASE x.scope = "absent" /\ x.installed # "pool" /\ x.tenant = "none"
  BY <1>1, <1>7 DEF newTenantPoolLookup, Pools
<1> QED
  BY <1>3, <1>4, <1>5, <1>6, <1>7

LEMMA LooksUpStep == ASSUME TopologyInv, NEW c \in Callers, LooksUp(c) PROVE TopologyInv'
<1>1. PICK x \in Contexts :
        call' = [call EXCEPT ![c].pc = "done", ![c].asked = x.tenant,
                   ![c].pool = LET found == newTenantPoolLookup(x) IN
                               IF found[1] = "scope" THEN PoolForTenantDispatchScope(found[2], found[3]) ELSE found]
  BY DEF LooksUp
<1> DEFINE p == LET found == newTenantPoolLookup(x) IN
                IF found[1] = "scope" THEN PoolForTenantDispatchScope(found[2], found[3]) ELSE found
           r == [call[c] EXCEPT !.pc = "done", !.asked = x.tenant, !.pool = p]
<1>2. /\ p \in Pools /\ x.tenant \in Tenants \cup {"none"}
      /\ p # <<"unavailable">> =>
           p = <<"installed">> \/ p[1] = x.tenant \/ (p[1] = "root" /\ x.tenant = Default)
  BY Routed DEF TopologyInv
<1>3. call' = [call EXCEPT ![c] = r]
  BY <1>1 DEF TopologyInv, TopologyTypes
<1> HIDE DEF p
<1>4. call[c] \in Call /\ call[c].pc = "start"
  BY DEF TopologyInv, TopologyTypes, LooksUp
<1>5. /\ r \in Call /\ r.pc = "done" /\ r.asked = x.tenant /\ r.pool = p
      /\ r.id = call[c].id /\ r.drew = call[c].drew /\ r.since = call[c].since /\ r.listed = call[c].listed
      /\ r.built = call[c].built /\ r.answer = call[c].answer
  BY <1>2, <1>4 DEF Call
<1> HIDE DEF r
<1>6. call'[c] = r /\ UNCHANGED <<plan, listed, caches, refreshID, refreshMu, epoch, gone, honoured>>
  BY <1>3, <1>5, OneCall DEF TopologyInv, LooksUp, world, history
<1>7. RefreshOK(c)' /\ AnswerOK(c)' /\ PoolOK(c)' /\ r.since <= honoured
  BY <1>2, <1>4, <1>5, <1>6 DEF TopologyInv, CallOK, InTime, RefreshOK, EntryOK, AnswerOK, PoolOK
<1> QED
  BY <1>3, <1>5, <1>6, <1>7, LocalMove DEF TopologyInv, TopologyTypes

(* The enumeration returns.                                                *)
Answered(c, a, excused) ==
    [fresh EXCEPT !.pc = "done", !.since = call[c].since, !.round = call[c].round,
                  !.answer = [at |-> a, excused |-> excused]]

LEMMA Answers ==
    ASSUME TopologyTypes, NEW c \in Callers, NEW a \in Nat, NEW x \in BOOLEAN
    PROVE  LET r == Answered(c, a, x) IN
           /\ r \in Call /\ r.pc = "done" /\ r.id = 0 /\ r.drew = 0 /\ r.since = call[c].since
           /\ r.built = [t \in Tenants |-> none] /\ r.answer.at = a /\ r.answer.excused = x
           /\ r.pool = <<"unavailable">>
BY FreshCall DEF Answered, fresh, Call, TopologyTypes, Pools

LEMMA NoneIsOK == \A t \in Tenants : none.scopes = {} /\ EntryOK(t, none)
BY DEF none, EntryOK

(* Whoever returns gives up refreshMu.                                     *)
LEMMA ReturnsMove ==
    ASSUME TopologyInv, NEW c \in Callers, NEW a \in Nat, NEW x \in BOOLEAN, Returns(c, a, x),
           UNCHANGED <<plan, listed, caches, refreshID, epoch, gone, honoured>>,
           x \/ a >= call[c].since,
           \/ refreshMu = c /\ refreshMu' = "free"
           \/ refreshMu # c /\ UNCHANGED refreshMu
    PROVE  TopologyInv'
<1> DEFINE r == Answered(c, a, x)
<1>1. call' = [call EXCEPT ![c] = r]
  BY DEF Returns, Answered
<1>2. /\ r \in Call /\ r.pc = "done" /\ r.id = 0 /\ r.drew = 0 /\ r.since = call[c].since
      /\ r.built = [t \in Tenants |-> none] /\ r.answer.at = a /\ r.answer.excused = x
      /\ r.pool = <<"unavailable">>
  BY Answers DEF TopologyInv
<1> HIDE DEF r
<1>3. call'[c] = r
  BY <1>1, <1>2, OneCall DEF TopologyInv
<1>4. /\ refreshMu' # c /\ refreshMu' \in Callers \cup {"free"}
      /\ \A d \in Callers \ {c} : refreshMu = d <=> refreshMu' = d
  BY TopologyAssumption DEF TopologyInv, TopologyTypes
<1>5. RefreshOK(c)' /\ AnswerOK(c)' /\ PoolOK(c)' /\ r.since <= honoured
  BY <1>2, <1>3, <1>4, NoneIsOK DEF TopologyInv, CallOK, InTime, RefreshOK, AnswerOK, PoolOK
<1> QED
  BY <1>1, <1>2, <1>4, <1>5, LocalMove
(* The enumeration is called.                                              *)
LEMMA ListStep == ASSUME TopologyInv, NEW c \in Callers, ListTenantDispatchScopes(c) PROVE TopologyInv'
<1> DEFINE r == [call[c] EXCEPT !.since = honoured, !.pc = IF cachedFreshScopes THEN "done" ELSE "waiting",
                   !.answer = IF cachedFreshScopes THEN [at |-> listedIn, excused |-> failedOpen] ELSE @]
<1>1. /\ call' = [call EXCEPT ![c] = r] /\ call[c].pc = "start" /\ call[c] \in Call
      /\ UNCHANGED <<plan, listed, caches, refreshID, refreshMu, epoch, gone, honoured>>
  BY DEF ListTenantDispatchScopes, TopologyInv, TopologyTypes, world, history
<1>2. listedIn \in Nat /\ failedOpen \in BOOLEAN /\ honoured \in Nat
  BY DEF TopologyInv, TopologyTypes
<1>3. /\ r \in Call /\ r.pc \in {"done", "waiting"} /\ r.since = honoured
      /\ r.id = call[c].id /\ r.drew = call[c].drew /\ r.built = call[c].built /\ r.pool = call[c].pool
      /\ r.asked = call[c].asked
      /\ cachedFreshScopes => r.answer.at = listedIn /\ r.answer.excused = failedOpen
      /\ ~cachedFreshScopes => r.answer = call[c].answer
      /\ r.pc = "waiting" => ~cachedFreshScopes
  BY <1>1, <1>2 DEF Call
<1> HIDE DEF r
<1>4. call'[c] = r
  BY <1>1, <1>3, OneCall DEF TopologyInv
<1>5. AnswerOK(c)'
  BY <1>1, <1>3, <1>4 DEF TopologyInv, CallOK, CachedOK, RefreshOK, AnswerOK, cachedFreshScopes
<1>6. RefreshOK(c)' /\ PoolOK(c)' /\ r.since <= honoured
  BY <1>1, <1>2, <1>3, <1>4 DEF TopologyInv, CallOK, RefreshOK, EntryOK, PoolOK
<1> QED
  BY <1>1, <1>3, <1>5, <1>6, LocalMove DEF TopologyInv, TopologyTypes

(* A call draws the next id, with the epoch it is in.                      *)
LEMMA DrawsMove ==
    ASSUME TopologyInv, NEW c \in Callers, NEW r \in Call, call' = [call EXCEPT ![c] = r],
           UNCHANGED <<plan, caches, gone, honoured>>, listed' \subseteq Tenants,
           refreshID' = refreshID + 1, epoch' \in Nat, epoch' >= epoch,
           r.id = refreshID + 1, r.drew = epoch', r.since <= honoured,
           refreshMu' \in Callers \cup {"free"},
           \A d \in Callers \ {c} : refreshMu = d <=> refreshMu' = d,
           RefreshOK(c)', AnswerOK(c)', PoolOK(c)'
    PROVE  TopologyInv'
<1>1. call' \in [Callers -> Call] /\ call'[c] = r /\ \A d \in Callers \ {c} : call'[d] = call[d]
  BY OneCall DEF TopologyInv
<1>2. refreshID \in Nat /\ epoch \in Nat /\ honoured \in Nat /\ committedRefreshID \in Nat /\ gone \in [Tenants -> Nat]
  BY DEF TopologyInv, TopologyTypes
<1>3. TopologyTypes' /\ CachedOK'
  BY <1>1, <1>2 DEF TopologyInv, TopologyTypes, CachedOK, caches, EntryOK
<1>4. \A d \in Callers : call[d].id \in Nat /\ call[d].drew \in Nat /\ call[d].id <= refreshID /\ call[d].drew <= epoch
  BY DEF TopologyInv, TopologyTypes, Call, CallOK, InTime
<1>5. Drawn'
  BY <1>1, <1>2, <1>4 DEF TopologyInv, Drawn
<1>6. InTime(c)'
  BY <1>1, <1>2 DEF TopologyInv, CachedOK, InTime, caches
<1>7. ASSUME NEW d \in Callers \ {c} PROVE CallOK(d)'
  BY <1>1, <1>2, <1>4, <1>7 DEF TopologyInv, CallOK, InTime, RefreshOK, EntryOK, AnswerOK, PoolOK, caches
<1> QED
  BY <1>3, <1>5, <1>6, <1>7 DEF TopologyInv, CallOK
(* A refresh begins, or finds the cache fresh by now.                      *)
LEMMA BeginsStep == ASSUME TopologyInv, NEW c \in Callers, BeginsRefresh(c) PROVE TopologyInv'
<1>0. call[c] \in Call /\ call[c].pc = "waiting" /\ refreshMu = "free" /\ refreshMu # c
  BY TopologyAssumption DEF BeginsRefresh, TopologyInv, TopologyTypes
<1>1. CASE cachedFreshScopes
  <2>1. Returns(c, listedIn, failedOpen) /\ UNCHANGED <<plan, listed, caches, refreshID, refreshMu, epoch, gone, honoured>>
    BY <1>1 DEF BeginsRefresh, world, history
  <2>2. listedIn \in Nat /\ failedOpen \in BOOLEAN /\ honoured \in Nat /\ call[c].since \in Nat
    BY <1>0 DEF TopologyInv, TopologyTypes, Call
  <2>3. failedOpen \/ listedIn >= call[c].since
    BY <1>1, <2>2 DEF TopologyInv, CachedOK, CallOK, InTime, cachedFreshScopes
  <2> QED
    BY <1>0, <2>1, <2>2, <2>3, ReturnsMove
<1>2. CASE ~cachedFreshScopes
  <2> DEFINE r == [call[c] EXCEPT !.pc = "listing", !.id = refreshID + 1, !.drew = epoch]
  <2>1. /\ call' = [call EXCEPT ![c] = r] /\ refreshMu' = c /\ refreshID' = refreshID + 1
        /\ UNCHANGED <<plan, listed, caches, epoch, gone, honoured>>
    BY <1>2 DEF BeginsRefresh, TopologyInv, TopologyTypes, world, history
  <2>2. refreshID + 1 \in Nat /\ refreshID \in Nat /\ epoch \in Nat /\ honoured \in Nat /\ call[c].since \in Nat /\ listed \subseteq Tenants
    BY <1>0 DEF TopologyInv, TopologyTypes, Call
  <2>3. /\ r \in Call /\ r.pc = "listing" /\ r.id = refreshID + 1 /\ r.drew = epoch /\ r.since = call[c].since
        /\ r.built = call[c].built /\ r.answer = call[c].answer /\ r.pool = call[c].pool /\ r.asked = call[c].asked
    <3> DEFINE n == refreshID + 1
    <3>1. n \in Nat
      BY <2>2
    <3> HIDE DEF n
    <3>2. [call[c] EXCEPT !.pc = "listing", !.id = n, !.drew = epoch] \in Call
      BY <1>0, <2>2, <3>1 DEF Call
    <3> QED
      BY <1>0, <3>2 DEF Call, n
  <2> HIDE DEF r
  <2>4. call'[c] = r
    BY <2>1, <2>3, OneCall DEF TopologyInv
  <2>5. r.since <= honoured /\ r.since <= epoch
    BY <2>2, <2>3 DEF TopologyInv, CachedOK, CallOK, InTime
  <2>6. RefreshOK(c)'
    BY <1>0, <2>1, <2>2, <2>3, <2>4, <2>5 DEF TopologyInv, CallOK, RefreshOK, EntryOK
  <2>7. AnswerOK(c)' /\ PoolOK(c)'
    BY <2>3, <2>4 DEF TopologyInv, CallOK, AnswerOK, PoolOK
  <2>8. \A d \in Callers \ {c} : refreshMu = d <=> refreshMu' = d
    BY <1>0, <2>1, TopologyAssumption
  <2>9. /\ epoch' \in Nat /\ epoch' >= epoch /\ r.drew = epoch' /\ listed' \subseteq Tenants
        /\ refreshMu' \in Callers \cup {"free"} /\ UNCHANGED <<plan, caches, gone, honoured>>
    BY <2>1, <2>2, <2>3
  <2> QED
    BY <2>1, <2>3, <2>5, <2>6, <2>7, <2>8, <2>9, DrawsMove
<1> QED
  BY <1>1, <1>2

(* The list is read.                                                       *)
LEMMA ListedStep == ASSUME TopologyInv, NEW c \in Callers, ListTenants(c) PROVE TopologyInv'
<1> DEFINE r == [call[c] EXCEPT !.pc = "loading", !.todo = listed \cup {Default}, !.listed = epoch]
<1>1. /\ call' = [call EXCEPT ![c] = r] /\ call[c] \in Call /\ call[c].pc = "listing"
      /\ UNCHANGED <<plan, listed, caches, refreshID, refreshMu, epoch, gone, honoured>>
  BY DEF ListTenants, TopologyInv, TopologyTypes, world, history
<1>2. listed \cup {Default} \subseteq Tenants /\ epoch \in Nat
  BY TopologyAssumption DEF TopologyInv, TopologyTypes
<1>3. /\ r \in Call /\ r.pc = "loading" /\ r.id = call[c].id /\ r.drew = call[c].drew /\ r.since = call[c].since
      /\ r.built = call[c].built /\ r.answer = call[c].answer /\ r.pool = call[c].pool /\ r.asked = call[c].asked
      /\ r.listed = epoch
  BY <1>1, <1>2 DEF Call
<1> HIDE DEF r
<1>4. call'[c] = r
  BY <1>1, <1>3, OneCall DEF TopologyInv
<1>5. RefreshOK(c)'
  BY <1>1, <1>3, <1>4 DEF TopologyInv, CallOK, InTime, RefreshOK, EntryOK
<1>6. AnswerOK(c)' /\ PoolOK(c)' /\ r.since <= honoured
  BY <1>3, <1>4 DEF TopologyInv, CallOK, InTime, AnswerOK, PoolOK
<1> QED
  BY <1>1, <1>3, <1>5, <1>6, LocalMove DEF TopologyInv, TopologyTypes

(* A tenant's scopes are built.                                            *)
LEMMA LoadsMove ==
    ASSUME TopologyInv, NEW c \in Callers, call[c].pc = "loading", NEW t \in Tenants, NEW e \in Entry, Loads(c, t, e),
           EntryOK(t, e), e.scopes # {} => e.by = call[c].drew
    PROVE  TopologyInv'
<1> DEFINE r == [call[c] EXCEPT !.todo = @ \ {t}, !.built = [@ EXCEPT ![t] = e]]
<1>1. /\ call' = [call EXCEPT ![c] = r] /\ call[c] \in Call
      /\ UNCHANGED <<plan, listed, caches, refreshID, refreshMu, epoch, gone, honoured>>
  BY DEF Loads, TopologyInv, TopologyTypes, world, history
<1>2. call[c].built \in [Tenants -> Entry]
  BY <1>1 DEF Call
<1>3. /\ r \in Call /\ r.pc = "loading" /\ r.id = call[c].id /\ r.drew = call[c].drew /\ r.since = call[c].since
      /\ r.built = [call[c].built EXCEPT ![t] = e] /\ r.answer = call[c].answer /\ r.pool = call[c].pool
      /\ r.asked = call[c].asked /\ r.listed = call[c].listed
  BY <1>1, <1>2 DEF Call
<1> HIDE DEF r
<1>4. call'[c] = r
  BY <1>1, <1>3, OneCall DEF TopologyInv
<1>5. \A u \in Tenants : r.built[u] = IF u = t THEN e ELSE call[c].built[u]
  BY <1>2, <1>3
<1>6. \A u \in Tenants : EntryOK(u, r.built[u]) /\ (r.built[u].scopes # {} => r.built[u].by = r.drew)
  BY <1>3, <1>5 DEF TopologyInv, CallOK, RefreshOK
<1>7. RefreshOK(c)'
  <2>1. RefreshOK(c) /\ call[c].pc = "loading"
    BY DEF TopologyInv, CallOK, Loads
  <2>2. refreshMu = c /\ r.drew >= r.since /\ r.listed >= r.drew /\ r.answer.excused
    BY <1>3, <2>1 DEF RefreshOK
  <2>3. refreshMu' = c
    BY <1>1, <2>2
  <2>4. call'[c].pc = "loading" /\ call'[c].drew >= call'[c].since /\ call'[c].listed >= call'[c].drew
        /\ call'[c].answer.excused
    BY <1>3, <1>4, <2>2
  <2>5. \A u \in Tenants : /\ EntryOK(u, call'[c].built[u])
                           /\ call'[c].built[u].scopes # {} => call'[c].built[u].by = call'[c].drew
    BY <1>4, <1>6
  <2> QED
    BY <2>3, <2>4, <2>5 DEF RefreshOK, EntryOK
<1>8. AnswerOK(c)' /\ PoolOK(c)' /\ r.since <= honoured
  BY <1>3, <1>4 DEF TopologyInv, CallOK, InTime, AnswerOK, PoolOK
<1> QED
  BY <1>1, <1>3, <1>7, <1>8, LocalMove DEF TopologyInv, TopologyTypes

LEMMA LoadsSteps == ASSUME TopologyInv, NEW c \in Callers, LoadsTenant(c) \/ cachedTenantScopes(c) PROVE TopologyInv'
<1>0. call[c].pc = "loading" /\ call[c] \in Call /\ topology \in [Tenants -> Entry]
  BY DEF LoadsTenant, cachedTenantScopes, TopologyInv, TopologyTypes
<1>1. call[c].drew \in Nat /\ call[c].todo \subseteq Tenants
  BY <1>0 DEF Call
<1>2. CASE LoadsTenant(c)
  <2>1. PICK t \in call[c].todo :
          Loads(c, t, [scopes |-> IF t = Default THEN {"generic"} ELSE scopesForTenant(t), by |-> call[c].drew])
    BY <1>2 DEF LoadsTenant
  <2> DEFINE e == [scopes |-> IF t = Default THEN {"generic"} ELSE scopesForTenant(t), by |-> call[c].drew]
  <2>2. e \in Entry /\ EntryOK(t, e) /\ e.by = call[c].drew
    BY <1>1 DEF Entry, EntryOK, scopesForTenant
  <2> HIDE DEF e
  <2> QED
    BY <1>0, <1>1, <2>1, <2>2, LoadsMove DEF e
<1>3. CASE cachedTenantScopes(c)
  <2>1. PICK t \in call[c].todo \ {Default} :
          Loads(c, t, IF topology[t].scopes = {} THEN none ELSE [topology[t] EXCEPT !.by = call[c].drew])
    BY <1>3 DEF cachedTenantScopes
  <2>2. topology[t] \in Entry /\ EntryOK(t, topology[t])
    BY <1>0, <1>1, <2>1 DEF TopologyInv, CachedOK
  <2>3. CASE topology[t].scopes = {}
    BY <1>0, <1>1, <2>1, <2>3, LoadsMove, FreshCall, NoneIsOK
  <2>4. CASE topology[t].scopes # {}
    <3> DEFINE e == [topology[t] EXCEPT !.by = call[c].drew]
    <3>1. e \in Entry /\ e.scopes = topology[t].scopes /\ e.by = call[c].drew
      BY <1>1, <2>2 DEF Entry
    <3>2. Loads(c, t, e)
      BY <2>1, <2>4
    <3> HIDE DEF e
    <3>3. EntryOK(t, e)
      BY <2>2, <3>1 DEF EntryOK
    <3> QED
      BY <1>0, <1>1, <3>1, <3>2, <3>3, LoadsMove
  <2> QED
    BY <2>3, <2>4
<1> QED
  BY <1>2, <1>3
-----------------------------------------------------------------------------
(* Neither an answer nor the end of a refresh touches what others do.      *)
LEMMA OthersKeep ==
    ASSUME TopologyInv, NEW c \in Callers, \A d \in Callers \ {c} : call'[d] = call[d],
           refreshMu = c \/ UNCHANGED refreshMu, refreshMu' \in {"free", refreshMu},
           UNCHANGED <<epoch, refreshID>>, honoured' \in Nat, honoured' >= honoured,
           \A d \in Callers \ {c} : InTime(d)'
    PROVE  \A d \in Callers \ {c} : CallOK(d)'
<1> SUFFICES ASSUME NEW d \in Callers \ {c} PROVE CallOK(d)'
  OBVIOUS
<1>1. refreshMu' = d <=> refreshMu = d
  BY TopologyAssumption
<1> QED
  BY <1>1 DEF TopologyInv, CallOK, RefreshOK, EntryOK, AnswerOK, PoolOK

LEMMA AttemptStep == ASSUME TopologyInv, NEW c \in Callers, commitRefreshAttempt(c) PROVE TopologyInv'
<1> DEFINE r == Answered(c, listedIn, TRUE)
<1>1. /\ call' = [call EXCEPT ![c] = r] /\ call[c] \in Call /\ call[c].pc = "listing" /\ refreshMu = c /\ refreshMu' = "free"
      /\ failedOpen' = TRUE /\ UNCHANGED <<plan, listed, topology, listedIn, refreshID, epoch, gone, honoured>>
  BY DEF commitRefreshAttempt, Returns, Answered, TopologyInv, TopologyTypes, CallOK, RefreshOK, world, history
<1>2. \/ committedRefreshID' = call[c].id /\ call[c].id > committedRefreshID /\ valid' = TRUE /\ refreshed' = TRUE /\ lapsed' = FALSE
      \/ UNCHANGED <<committedRefreshID, valid, refreshed, lapsed>>
  BY DEF commitRefreshAttempt
<1>3. committedRefreshID' \in Nat /\ committedRefreshID' >= committedRefreshID /\ committedRefreshID \in Nat
  BY <1>1, <1>2 DEF TopologyInv, TopologyTypes, Call
<1>4. /\ r \in Call /\ r.pc = "done" /\ r.id = 0 /\ r.drew = 0 /\ r.since = call[c].since
      /\ r.built = [t \in Tenants |-> none] /\ r.answer.at = listedIn /\ r.answer.excused = TRUE
      /\ r.pool = <<"unavailable">>
  BY Answers DEF TopologyInv, TopologyTypes
<1> HIDE DEF r
<1>5. call' \in [Callers -> Call] /\ call'[c] = r /\ \A d \in Callers \ {c} : call'[d] = call[d]
  BY <1>1, <1>4, OneCall DEF TopologyInv
<1>6. TopologyTypes' /\ CachedOK'
  BY <1>1, <1>2, <1>3, <1>5 DEF TopologyInv, TopologyTypes, CachedOK, EntryOK
<1>7. \A d \in Callers : call[d].id \in Nat /\ call[d].drew \in Nat
  BY DEF TopologyInv, TopologyTypes, Call
<1>8. Drawn'
  BY <1>4, <1>5, <1>7 DEF TopologyInv, Drawn
<1>9. \A d \in Callers \ {c} : InTime(d)'
  BY <1>1, <1>3, <1>5, <1>7 DEF TopologyInv, CallOK, InTime
<1>10. \A d \in Callers \ {c} : CallOK(d)'
  BY <1>1, <1>5, <1>9, OthersKeep DEF TopologyInv, TopologyTypes
<1>11. InTime(c)'
  BY <1>1, <1>3, <1>4, <1>5 DEF TopologyInv, TopologyTypes, CallOK, InTime
<1>12. RefreshOK(c)' /\ AnswerOK(c)' /\ PoolOK(c)'
  BY <1>1, <1>4, <1>5, NoneIsOK, TopologyAssumption DEF RefreshOK, AnswerOK, PoolOK
<1> QED
  BY <1>6, <1>8, <1>10, <1>11, <1>12 DEF TopologyInv, CallOK

(* A refresh that is not superseded knows all that has finished.           *)
LEMMA CommitStep == ASSUME TopologyInv, NEW c \in Callers, CommitsTopology(c) PROVE TopologyInv'
<1>0. /\ call[c] \in Call /\ call[c].pc = "loading" /\ refreshMu = c /\ refreshMu' = "free"
      /\ UNCHANGED <<plan, listed, refreshID, epoch, gone, honoured>>
  BY DEF CommitsTopology, TopologyInv, TopologyTypes, CallOK, RefreshOK, world, history
<1>1. CASE ~notSuperseded(c)
  <2>1. Returns(c, listedIn, TRUE) /\ UNCHANGED caches
    BY <1>1 DEF CommitsTopology
  <2>2. listedIn \in Nat
    BY DEF TopologyInv, TopologyTypes
  <2> QED
    BY <1>0, <2>1, <2>2, ReturnsMove
<1>2. CASE notSuperseded(c)
  <2> DEFINE r == Answered(c, call[c].listed, FALSE)
  <2>1. /\ call' = [call EXCEPT ![c] = r] /\ topology' = call[c].built /\ valid' = TRUE /\ refreshed' = TRUE /\ lapsed' = FALSE
        /\ committedRefreshID' = call[c].id /\ listedIn' = call[c].listed /\ failedOpen' = FALSE
    BY <1>2 DEF CommitsTopology, Returns, Answered
  <2>2. /\ call[c].id \in Nat /\ call[c].listed \in Nat /\ call[c].drew \in Nat /\ call[c].since \in Nat
        /\ call[c].built \in [Tenants -> Entry] /\ honoured \in Nat /\ committedRefreshID \in Nat
        /\ call[c].id > committedRefreshID /\ gone \in [Tenants -> Nat]
    BY <1>0, <1>2 DEF Call, notSuperseded, TopologyInv, TopologyTypes
  <2>3. /\ r \in Call /\ r.pc = "done" /\ r.id = 0 /\ r.drew = 0 /\ r.since = call[c].since
        /\ r.built = [t \in Tenants |-> none] /\ r.answer.at = call[c].listed /\ r.answer.excused = FALSE
        /\ r.pool = <<"unavailable">>
    BY <2>2, Answers DEF TopologyInv, TopologyTypes
  <2> HIDE DEF r
  <2>4. call' \in [Callers -> Call] /\ call'[c] = r /\ \A d \in Callers \ {c} : call'[d] = call[d]
    BY <2>1, <2>3, OneCall DEF TopologyInv
  <2>5. call[c].drew >= honoured /\ (\A t \in Tenants : call[c].drew >= gone[t]) /\ call[c].listed >= call[c].drew
        /\ call[c].drew >= call[c].since
    BY <1>0, <2>2 DEF TopologyInv, CallOK, InTime, RefreshOK
  <2>6. TopologyTypes'
    BY <1>0, <2>1, <2>2, <2>4 DEF TopologyInv, TopologyTypes
  <2>7. CachedOK'
    <3>1. listedIn' >= honoured'
      BY <1>0, <2>1, <2>2, <2>5
    <3>2. \A t \in Tenants : EntryOK(t, call[c].built[t]) /\ (call[c].built[t].scopes # {} => call[c].built[t].by = call[c].drew)
      BY DEF TopologyInv, CallOK, RefreshOK
    <3> QED
      BY <1>0, <2>1, <2>5, <3>1, <3>2 DEF TopologyInv, CachedOK, EntryOK
  <2>8. \A d \in Callers : call[d].id \in Nat /\ call[d].drew \in Nat
    BY DEF TopologyInv, TopologyTypes, Call
  <2>9. Drawn'
    BY <2>3, <2>4, <2>8 DEF TopologyInv, Drawn
  <2>10. \A d \in Callers \ {c} : InTime(d)'
    BY <1>0, <2>1, <2>2, <2>4, <2>8 DEF TopologyInv, CallOK, InTime
  <2>11. \A d \in Callers \ {c} : CallOK(d)'
    BY <1>0, <2>2, <2>4, <2>10, OthersKeep DEF TopologyInv, TopologyTypes
  <2>12. InTime(c)'
    BY <1>0, <2>1, <2>2, <2>3, <2>4 DEF TopologyInv, TopologyTypes, CallOK, InTime
  <2>13. RefreshOK(c)' /\ PoolOK(c)'
    BY <1>0, <2>3, <2>4, NoneIsOK, TopologyAssumption DEF RefreshOK, PoolOK
  <2>14. AnswerOK(c)'
    BY <2>2, <2>3, <2>4, <2>5 DEF AnswerOK
  <2> QED
    BY <2>6, <2>7, <2>9, <2>11, <2>12, <2>13, <2>14 DEF TopologyInv, CallOK
<1> QED
  BY <1>1, <1>2
-----------------------------------------------------------------------------
(* A tenant event draws the next id in an epoch of its own.                *)
LEMMA EventStep == ASSUME TopologyInv, NEW c \in Callers, DrawsId(c) PROVE TopologyInv'
<1> DEFINE n == refreshID + 1
           m == epoch + 1
           r == [call[c] EXCEPT !.pc = "locking", !.id = n, !.drew = m]
<1>1. /\ call' = [call EXCEPT ![c] = r] /\ call[c] \in Call /\ call[c].pc = "start" /\ refreshID' = n /\ epoch' = m
      /\ UNCHANGED <<plan, caches, refreshMu, gone, honoured>> /\ listed' \subseteq Tenants
  BY DEF DrawsId, TopologyInv, TopologyTypes, history
<1>2. n \in Nat /\ m \in Nat /\ m >= epoch /\ n = refreshID + 1
  BY DEF TopologyInv, TopologyTypes
<1> HIDE DEF n, m
<1>3. /\ r \in Call /\ r.pc = "locking" /\ r.id = n /\ r.drew = m /\ r.since = call[c].since
      /\ r.built = call[c].built /\ r.answer = call[c].answer /\ r.pool = call[c].pool /\ r.asked = call[c].asked
  BY <1>1, <1>2 DEF Call
<1> HIDE DEF r
<1>4. call'[c] = r
  BY <1>1, <1>3, OneCall DEF TopologyInv
<1>5. RefreshOK(c)' /\ AnswerOK(c)' /\ PoolOK(c)' /\ r.since <= honoured
  BY <1>1, <1>3, <1>4 DEF TopologyInv, CallOK, InTime, RefreshOK, EntryOK, AnswerOK, PoolOK
<1> QED
  BY <1>1, <1>2, <1>3, <1>5, DrawsMove DEF TopologyInv, TopologyTypes

(* It takes effect: refreshes with an earlier id are superseded, those     *)
(* with a later one were drawn after it.                                   *)
LEMMA EventEnds ==
    ASSUME TopologyInv, NEW c \in Callers, call[c].pc = "locking", goes(c, "done"), Supersedes(c), valid' = FALSE,
           UNCHANGED <<plan, listed, refreshed, lapsed, listedIn, failedOpen, refreshID, refreshMu, epoch>>,
           topology' \in [Tenants -> Entry], \A t \in Tenants : topology'[t] = none \/ topology'[t] = topology[t],
           \/ gone' = gone
           \/ \E t \in Tenants : gone' = [gone EXCEPT ![t] = call[c].drew] /\ topology'[t] = none,
           \/ honoured' = honoured
           \/ honoured' = call[c].drew /\ call[c].drew > honoured
    PROVE  TopologyInv'
<1> DEFINE r == [call[c] EXCEPT !.pc = "done"]
<1>1. call' = [call EXCEPT ![c] = r] /\ call[c] \in Call
  BY DEF goes, TopologyInv, TopologyTypes
<1>2. /\ r \in Call /\ r.pc = "done" /\ r.id = call[c].id /\ r.drew = call[c].drew /\ r.since = call[c].since
      /\ r.built = call[c].built /\ r.answer = call[c].answer /\ r.pool = call[c].pool /\ r.asked = call[c].asked
  BY <1>1 DEF Call
<1> HIDE DEF r
<1>3. call' \in [Callers -> Call] /\ call'[c] = r /\ \A d \in Callers \ {c} : call'[d] = call[d]
  BY <1>1, <1>2, OneCall DEF TopologyInv
<1>4. \A d \in Callers : /\ call[d].id \in Nat /\ call[d].drew \in Nat /\ call[d].since \in Nat
                          /\ call'[d].id = call[d].id /\ call'[d].drew = call[d].drew /\ call'[d].since = call[d].since
  BY <1>2, <1>3 DEF TopologyInv, TopologyTypes, Call
<1>5. /\ committedRefreshID' \in Nat /\ committedRefreshID' >= committedRefreshID /\ committedRefreshID' >= call[c].id
      /\ committedRefreshID \in Nat /\ honoured \in Nat /\ gone \in [Tenants -> Nat] /\ epoch \in Nat
      /\ call[c].drew <= epoch
  BY <1>4 DEF Supersedes, TopologyInv, TopologyTypes, CallOK, InTime
<1>6. honoured' \in Nat /\ honoured' >= honoured /\ honoured' <= epoch /\ gone' \in [Tenants -> Nat]
  BY <1>4, <1>5 DEF TopologyInv, CachedOK
<1>7. TopologyTypes'
  BY <1>3, <1>5, <1>6 DEF TopologyInv, TopologyTypes
<1>8. CachedOK'
  <2>1. \A t \in Tenants : gone'[t] <= epoch
    BY <1>4, <1>5 DEF TopologyInv, CachedOK
  <2>2. \A t \in Tenants : EntryOK(t, topology'[t])
    BY NoneIsOK DEF TopologyInv, CachedOK
  <2>3. \A t \in Tenants : topology'[t].scopes # {} => topology'[t].by >= gone'[t]
    BY <1>5, NoneIsOK DEF TopologyInv, CachedOK
  <2> QED
    BY <1>6, <2>1, <2>2, <2>3 DEF CachedOK, EntryOK
<1>9. Drawn'
  BY <1>4 DEF TopologyInv, Drawn
<1>10. ASSUME NEW d \in Callers PROVE InTime(d)'
  <2>1. call[d].id > call[c].id => call[d].drew >= call[c].drew
    BY DEF TopologyInv, Drawn
  <2>2. InTime(d)
    BY DEF TopologyInv, CallOK
  <2>3. call[d].id > committedRefreshID' => call[d].drew >= honoured' /\ \A t \in Tenants : call[d].drew >= gone'[t]
    <3> SUFFICES ASSUME call[d].id > committedRefreshID'
                 PROVE  call[d].drew >= honoured' /\ \A t \in Tenants : call[d].drew >= gone'[t]
      OBVIOUS
    <3>1. call[d].id > committedRefreshID /\ call[d].drew >= call[c].drew
      BY <1>4, <1>5, <2>1
    <3>2. call[d].drew >= honoured /\ \A t \in Tenants : call[d].drew >= gone[t]
      BY <2>2, <3>1 DEF InTime
    <3>3. call[d].drew >= honoured'
      BY <3>1, <3>2
    <3>4. \A t \in Tenants : call[d].drew >= gone'[t]
      BY <1>5, <3>1, <3>2
    <3> QED
      BY <3>3, <3>4
  <2> QED
    BY <1>4, <1>5, <1>6, <2>2, <2>3 DEF InTime
<1>11. \A d \in Callers \ {c} : CallOK(d)'
  BY <1>3, <1>6, <1>10, OthersKeep DEF TopologyInv, TopologyTypes
<1>12. RefreshOK(c)' /\ AnswerOK(c)' /\ PoolOK(c)'
  BY <1>2, <1>3 DEF TopologyInv, CallOK, RefreshOK, EntryOK, AnswerOK, PoolOK
<1> QED
  BY <1>7, <1>8, <1>9, <1>10, <1>11, <1>12 DEF TopologyInv, CallOK

LEMMA EventSteps == ASSUME TopologyInv, NEW c \in Callers, EvictTenant(c) \/ InvalidateTopology(c) PROVE TopologyInv'
<1>1. CASE EvictTenant(c)
  <2>1. plan[c].tenant \in Tenants
    BY TopologyAssumption DEF TopologyInv, TopologyTypes
  <2>2. topology' = [topology EXCEPT ![plan[c].tenant] = none] /\ gone' = [gone EXCEPT ![plan[c].tenant] = call[c].drew]
    BY <1>1 DEF EvictTenant
  <2>3. /\ topology' \in [Tenants -> Entry] /\ topology'[plan[c].tenant] = none
        /\ \A t \in Tenants : topology'[t] = none \/ topology'[t] = topology[t]
    BY <2>1, <2>2, FreshCall DEF TopologyInv, TopologyTypes
  <2> QED
    BY <1>1, <2>1, <2>2, <2>3, EventEnds DEF EvictTenant, world
<1>2. CASE InvalidateTopology(c)
  BY <1>2, EventEnds DEF InvalidateTopology, world, TopologyInv, TopologyTypes
<1> QED
  BY <1>1, <1>2

(* The dispatcher's next cycle, and the interval passes.                   *)
LEMMA CycleSteps == ASSUME TopologyInv, Lapse \/ \E c \in Callers : NextCycle(c) PROVE TopologyInv'
<1>1. CASE Lapse
  BY <1>1 DEF Lapse, world, history, TopologyInv, TopologyTypes, Drawn, CachedOK, CallOK, InTime, RefreshOK, EntryOK,
     AnswerOK, PoolOK
<1>2. ASSUME NEW c \in Callers, NextCycle(c) PROVE TopologyInv'
  <2> DEFINE n == call[c].round + 1
             r == [fresh EXCEPT !.round = n]
  <2>1. /\ call' = [call EXCEPT ![c] = r] /\ call[c] \in Call /\ call[c].pc = "done"
        /\ UNCHANGED <<plan, listed, caches, refreshID, refreshMu, epoch, gone, honoured>>
    BY <1>2 DEF NextCycle, TopologyInv, TopologyTypes, world, history
  <2>2. n \in Nat
    BY <2>1 DEF Call
  <2> HIDE DEF n
  <2>3. /\ r \in Call /\ r.pc = "start" /\ r.id = 0 /\ r.drew = 0 /\ r.since = 0
        /\ r.built = [t \in Tenants |-> none] /\ r.answer.excused /\ r.pool = <<"unavailable">>
    BY <2>2, FreshCall DEF fresh, Call, Pools
  <2> HIDE DEF r
  <2>4. call'[c] = r
    BY <2>1, <2>3, OneCall DEF TopologyInv
  <2>5. RefreshOK(c)' /\ AnswerOK(c)' /\ PoolOK(c)' /\ r.since <= honoured
    BY <2>1, <2>3, <2>4, NoneIsOK DEF TopologyInv, TopologyTypes, CallOK, RefreshOK, AnswerOK, PoolOK
  <2> QED
    BY <2>1, <2>3, <2>5, LocalMove DEF TopologyInv, TopologyTypes
<1> QED
  BY <1>1, <1>2

(* Evictions and invalidations hold against refreshes already running, and *)
(* a repository call is routed to its own tenant's pool, for any number of *)
(* callers, tenants and events (EvictTenant, InvalidateTopology,           *)
(* ListTenantDispatchScopes, newTenantPoolLookup).                         *)
THEOREM TopologySoundHolds == TopologySpec => []TopologySound
<1>1. TopologyInit => TopologyInv
  <2> SUFFICES ASSUME TopologyInit PROVE TopologyInv
    OBVIOUS
  <2>1. call \in [Callers -> Call] /\ \A c \in Callers : call[c] = fresh
    BY FreshCall DEF TopologyInit
  <2>2. /\ fresh.pc = "start" /\ fresh.id = 0 /\ fresh.drew = 0 /\ fresh.since = 0
        /\ fresh.built = [t \in Tenants |-> none] /\ fresh.answer.excused /\ fresh.pool = <<"unavailable">>
    BY DEF fresh
  <2>3. TopologyTypes /\ CachedOK
    <3>1. topology \in [Tenants -> Entry] /\ \A t \in Tenants : topology[t] = none
      BY FreshCall DEF TopologyInit
    <3>2. gone \in [Tenants -> Nat] /\ \A t \in Tenants : gone[t] = 0
      BY DEF TopologyInit
    <3>3. TopologyTypes
      BY <2>1, <3>1, <3>2 DEF TopologyInit, TopologyTypes
    <3>4. CachedOK
      BY <3>1, <3>2, NoneIsOK DEF TopologyInit, CachedOK
    <3> QED
      BY <3>3, <3>4
  <2>4. Drawn /\ \A c \in Callers : InTime(c)
    BY <2>1, <2>2 DEF TopologyInit, Drawn, InTime
  <2>5. \A c \in Callers : RefreshOK(c) /\ AnswerOK(c) /\ PoolOK(c)
    BY <2>1, <2>2, NoneIsOK, TopologyAssumption DEF TopologyInit, RefreshOK, AnswerOK, PoolOK
  <2> QED
    BY <2>3, <2>4, <2>5 DEF TopologyInv, CallOK
<1>2. TopologyInv /\ [TopologyNext]_tvars => TopologyInv'
  <2>1. CASE TopologyNext
    BY <2>1, LooksUpStep, ListStep, BeginsStep, ListedStep, AttemptStep, LoadsSteps, CommitStep, EventStep, EventSteps,
       CycleSteps DEF TopologyNext, CallerStep
  <2>2. CASE UNCHANGED tvars
    BY <2>2 DEF tvars, TopologyInv, TopologyTypes, Drawn, CachedOK, CallOK, InTime, RefreshOK, EntryOK, AnswerOK, PoolOK
  <2> QED
    BY <2>1, <2>2
<1>3. TopologyInv => TopologySound
  BY TopologyAssumption DEF TopologyInv, TopologyTypes, CachedOK, EntryOK, CallOK, RefreshOK, AnswerOK, PoolOK, TopologySound
<1> QED
  BY <1>1, <1>2, <1>3, PTL DEF TopologySpec

-----------------------------------------------------------------------------
(* What the run of MCStores checks of the three together.                  *)
THEOREM RoutingSoundHolds == TopologySpec /\ DiscoverySpec /\ MongoDatabasesSpec => []RoutingSound
<1>1. TopologySound /\ SkipIsBounded /\ TenantsStayApart => RoutingSound
  BY DEF RoutingSound
<1> QED
  BY <1>1, TopologySoundHolds, SkipIsBoundedHolds, TenantsStayApartHolds, PTL

-----------------------------------------------------------------------------
(* Immutable objects.                                                      *)

(* Versions are numbered in the order of the puts, and none goes away: the *)
(* version or marker with number j.                                        *)
UntilOf(j) == entries[puts + 1 - j].until

WriterStates == {"start", "put", "list", "head", "done"}

BucketOK ==
    /\ wish \in Wishes
    /\ puts \in Nat /\ entries \in Seq([id : Nat, until : Nat]) /\ Len(entries) = puts
    /\ \A i \in 1..puts : entries[i].id = puts + 1 - i
    /\ alone => puts <= 1 /\ \A i \in 1..puts : entries[i].until > 0

(* The listing has seen the newest version and, after it, only markers; if *)
(* only markers follow to the end, that version was the only one when the  *)
(* listing began.                                                          *)
Listing(c) ==
    /\ caller[c].id \in 1..puts /\ caller[c].seen \in 1..caller[c].id
    /\ \A j \in caller[c].seen..(caller[c].id - 1) : UntilOf(j) = 0
    /\ (\A j \in 1..(caller[c].id - 1) : UntilOf(j) = 0) => caller[c].id \in sole[c]

WriterOK(c) ==
    /\ pc[c] \in WriterStates
    /\ pc[c] \in {"start", "put"} => caller[c].page = 0
    /\ pc[c] = "list" /\ caller[c].page > 0 => Listing(c)
    /\ pc[c] = "head" => /\ caller[c].id \in 1..puts
                         /\ caller[c].page > 0 => caller[c].id \in sole[c]
    /\ ended(c, "ok") /\ recovers(c) =>
         /\ caller[c].id \in 1..puts /\ UntilOf(caller[c].id) = canonicalObjectLockTime(wish[c].until)
         /\ caller[c].page > 0 => caller[c].id \in sole[c]
    /\ ended(c, "ambiguous") => c \in notSole \/ caller[c].page >= MaxPages
    /\ c \in spools => pc[c] \in {"put", "head"}

WriterResults == {"none", "ok", "exists", "mismatch", "ambiguous", "failed"}

WriterRecord == [id : Nat, seen : Nat, page : Nat, result : WriterResults]

WritersType ==
    /\ pc \in [Writers -> WriterStates] /\ sole \in [Writers -> SUBSET Nat]
    /\ caller \in [Writers -> WriterRecord] /\ spools \subseteq Writers

ObjectsInv == BucketOK /\ WritersType /\ \A c \in Writers : WriterOK(c)

(* What one step can do to the bucket: nothing, or one entry in front.     *)
Grows == \/ UNCHANGED <<entries, puts>>
         \/ /\ \E u \in Nat : entries' = <<[id |-> puts + 1, until |-> u]>> \o entries
            /\ puts' = puts + 1

(* A version's place follows from its number (placeOf).                    *)
LEMMA PlaceOf ==
    ASSUME BucketOK, NEW j \in 1..puts
    PROVE  placeOf(j) = puts + 1 - j
<1>1. DOMAIN entries = 1..puts
  BY DEF BucketOK
<1>2. puts + 1 - j \in 1..puts /\ entries[puts + 1 - j].id = j
  BY DEF BucketOK
<1>3. \A i \in 1..puts : entries[i].id = j => i = puts + 1 - j
  BY DEF BucketOK
<1>. QED BY <1>1, <1>2, <1>3 DEF placeOf

(* A put leaves the numbers and retentions of what is there.               *)
LEMMA BucketGrows ==
    ASSUME BucketOK, Grows, wish' = wish
    PROVE  /\ puts' \in Nat /\ puts <= puts'
           /\ entries' \in Seq([id : Nat, until : Nat]) /\ Len(entries') = puts'
           /\ \A i \in 1..puts' : entries'[i].id = puts' + 1 - i
           /\ \A j \in 1..puts : UntilOf(j)' = UntilOf(j)
<1>1. CASE UNCHANGED <<entries, puts>>
  <2>1. entries' = entries /\ puts' = puts
    BY <1>1
  <2>2. \A j \in 1..puts : UntilOf(j)' = UntilOf(j)
    BY <2>1 DEF UntilOf
  <2>3. puts' \in Nat /\ puts <= puts'
    BY <2>1 DEF BucketOK
  <2>. QED BY <2>1, <2>2, <2>3 DEF BucketOK
<1>2. CASE ~UNCHANGED <<entries, puts>>
  <2>1. PICK u \in Nat : entries' = <<[id |-> puts + 1, until |-> u]>> \o entries
    BY <1>2 DEF Grows
  <2>2. puts' = puts + 1
    BY <1>2 DEF Grows
  <2> DEFINE e == [id |-> puts + 1, until |-> u]
  <2>3. e \in [id : Nat, until : Nat]
    BY DEF BucketOK
  <2>4. entries' \in Seq([id : Nat, until : Nat]) /\ Len(entries') = puts + 1
    BY <2>1, <2>3 DEF BucketOK
  <2>5. entries'[1] = e /\ \A i \in 2..(puts + 1) : entries'[i] = entries[i - 1]
    BY <2>1, <2>3 DEF BucketOK
  <2>6. \A i \in 1..puts' : entries'[i].id = puts' + 1 - i
    <3> SUFFICES ASSUME NEW i \in 1..puts' PROVE entries'[i].id = puts' + 1 - i
      OBVIOUS
    <3>1. CASE i = 1
      BY <3>1, <2>5, <2>2 DEF BucketOK
    <3>2. CASE i # 1
      <4>1. i - 1 \in 1..puts /\ i \in 2..(puts + 1)
        BY <3>2, <2>2 DEF BucketOK
      <4>2. entries'[i] = entries[i - 1] /\ entries[i - 1].id = puts + 1 - (i - 1)
        BY <4>1, <2>5 DEF BucketOK
      <4>3. puts + 1 - (i - 1) = puts' + 1 - i
        BY <4>1, <2>2 DEF BucketOK
      <4>. QED BY <4>2, <4>3
    <3>. QED BY <3>1, <3>2
  <2>7. \A j \in 1..puts : UntilOf(j)' = UntilOf(j)
    <3> SUFFICES ASSUME NEW j \in 1..puts PROVE UntilOf(j)' = UntilOf(j)
      OBVIOUS
    <3>1. puts' + 1 - j \in 2..(puts + 1) /\ (puts' + 1 - j) - 1 = puts + 1 - j
      BY <2>2 DEF BucketOK
    <3>2. entries'[puts' + 1 - j] = entries[puts + 1 - j]
      BY <3>1, <2>5
    <3>. QED BY <3>2 DEF UntilOf
  <2>. QED BY <2>2, <2>4, <2>6, <2>7 DEF BucketOK
<1>. QED BY <1>1, <1>2

(* The history remembers what every open call has seen.                    *)
LEMMA Observed ==
    ASSUME BucketOK, WritersType, Grows, wish' = wish, Observe, NEW d \in Writers, pc'[d] # "start"
    PROVE  /\ sole[d] \subseteq sole'[d]
           /\ d \in notSole => d \in notSole'
           /\ isSole(entries) => puts \in sole'[d]
           /\ ~isSole(entries) => d \in notSole'
<1>1. sole'[d] = sole[d] \cup {s[1].id : s \in {x \in {entries, entries'} : isSole(x)}}
  BY DEF Observe
<1>2. isSole(entries) => entries[1].id = puts
  <2>1. isSole(entries) => 1 \in DOMAIN entries
    BY DEF isSole, versions
  <2>. QED BY <2>1 DEF BucketOK
<1>. QED BY <1>1, <1>2 DEF Observe

(* The history holds version numbers.                                      *)
LEMMA SoleType ==
    ASSUME BucketOK, WritersType, Grows, wish' = wish, Observe
    PROVE  sole' \in [Writers -> SUBSET Nat]
<1>1. \A s \in {entries, entries'} : isSole(s) => s[1].id \in Nat
  <2> SUFFICES ASSUME NEW s \in {entries, entries'}, isSole(s) PROVE s[1].id \in Nat
    OBVIOUS
  <2>1. s \in Seq([id : Nat, until : Nat])
    BY BucketGrows DEF BucketOK
  <2>2. 1 \in DOMAIN s
    BY DEF isSole, versions
  <2>3. s[1] \in [id : Nat, until : Nat]
    <3> DEFINE R == [id : Nat, until : Nat]
    <3>1. s \in Seq(R)
      BY <2>1
    <3> HIDE DEF R
    <3>2. s \in [DOMAIN s -> R]
      BY <3>1
    <3>3. s[1] \in R
      BY <2>2, <3>2
    <3>. QED BY <3>3 DEF R
  <2>. QED BY <2>3
<1>2. \A c \in Writers : {s[1].id : s \in {x \in {entries, entries'} : isSole(x)}} \subseteq Nat
  BY <1>1
<1>. QED BY <1>2 DEF Observe, WritersType

(* A writer that does not move keeps what it has, whatever is put.         *)
LEMMA OtherWriter ==
    ASSUME BucketOK, WritersType, Grows, wish' = wish, Observe, NEW d \in Writers, WriterOK(d),
           pc'[d] = pc[d], caller'[d] = caller[d], d \in spools' => d \in spools
    PROVE  WriterOK(d)'
<1>1. puts \in Nat /\ puts' \in Nat /\ puts <= puts' /\ \A j \in 1..puts : UntilOf(j)' = UntilOf(j)
  BY BucketGrows DEF BucketOK
<1>2. caller[d].id \in Nat /\ caller[d].seen \in Nat
  BY DEF WritersType, WriterRecord
<1>3. pc[d] # "start" => sole[d] \subseteq sole'[d] /\ (d \in notSole => d \in notSole')
  BY Observed
<1>4. recovers(d)' = recovers(d) /\ wish'[d] = wish[d]
  BY DEF recovers
<1>5. pc[d] = "list" /\ caller[d].page > 0 => Listing(d)'
  <2> SUFFICES ASSUME pc[d] = "list", Listing(d) PROVE Listing(d)'
    BY DEF WriterOK
  <2>1. caller[d].id \in 1..puts /\ caller[d].seen \in 1..caller[d].id
    BY DEF Listing
  <2>2. caller'[d].id \in 1..puts' /\ caller'[d].seen \in 1..caller'[d].id
    BY <2>1, <1>1, <1>2
  <2>3. \A j \in 1..(caller[d].id - 1) : j \in 1..puts
    BY <2>1, <1>1
  <2>4. \A j \in caller[d].seen..(caller[d].id - 1) : j \in 1..puts
    BY <2>1, <1>1
  <2>5. \A j \in caller'[d].seen..(caller'[d].id - 1) : UntilOf(j)' = 0
    BY <2>4, <1>1 DEF Listing
  <2>6. (\A j \in 1..(caller'[d].id - 1) : UntilOf(j)' = 0) => caller'[d].id \in sole'[d]
    BY <2>3, <1>1, <1>3 DEF Listing
  <2>. QED BY <2>2, <2>5, <2>6 DEF Listing
<1>6. pc[d] = "head" => /\ caller'[d].id \in 1..puts'
                        /\ caller'[d].page > 0 => caller'[d].id \in sole'[d]
  BY <1>1, <1>3 DEF WriterOK
<1>7. ended(d, "ok") /\ recovers(d) =>
        /\ caller[d].id \in 1..puts' /\ UntilOf(caller[d].id)' = canonicalObjectLockTime(wish[d].until)
        /\ caller[d].page > 0 => caller[d].id \in sole'[d]
  <2> SUFFICES ASSUME ended(d, "ok"), recovers(d)
               PROVE  /\ caller[d].id \in 1..puts'
                      /\ UntilOf(caller[d].id)' = canonicalObjectLockTime(wish[d].until)
                      /\ caller[d].page > 0 => caller[d].id \in sole'[d]
    OBVIOUS
  <2>1. caller[d].id \in 1..puts /\ UntilOf(caller[d].id) = canonicalObjectLockTime(wish[d].until)
    BY DEF WriterOK
  <2>2. caller[d].page > 0 => caller[d].id \in sole[d]
    BY DEF WriterOK
  <2>3. UntilOf(caller[d].id)' = entries'[puts' + 1 - caller'[d].id].until
    BY DEF UntilOf
  <2>4. entries'[puts' + 1 - caller[d].id].until = UntilOf(caller[d].id)
    <3> DEFINE k == caller[d].id
    <3>1. \A j \in 1..puts : entries'[puts' + 1 - j].until = entries[puts + 1 - j].until
      BY <1>1 DEF UntilOf
    <3>. QED BY <2>1, <3>1 DEF UntilOf
  <2>5. pc[d] # "start"
    BY DEF ended
  <2>. QED BY <2>1, <2>2, <2>3, <2>4, <2>5, <1>1, <1>3
<1>8. ended(d, "ok")' = ended(d, "ok") /\ ended(d, "ambiguous")' = ended(d, "ambiguous")
  BY DEF ended
<1>9. ended(d, "ambiguous") => d \in notSole' \/ caller'[d].page >= MaxPages
  BY <1>3 DEF WriterOK, ended
<1>10. d \in spools' => pc'[d] \in {"put", "head"}
  BY DEF WriterOK
<1>11. pc'[d] \in WriterStates /\ (pc'[d] \in {"start", "put"} => caller'[d].page = 0)
  BY DEF WritersType, WriterOK
<1>. QED BY <1>4, <1>5, <1>6, <1>7, <1>8, <1>9, <1>10, <1>11 DEF WriterOK

(* The entries a listing has behind it.                                    *)
Base(c) == IF caller[c].page = 0 THEN 0 ELSE puts + 1 - caller[c].seen

(* A page is a stretch of the entries, which ends with them unless it is   *)
(* truncated.                                                              *)
LEMMA PageIs ==
    ASSUME BucketOK, WritersType, NEW c \in Writers,
           caller[c].page > 0 => caller[c].seen \in 1..puts
    PROVE  \E n \in Nat : /\ n <= puts - Base(c)
                          /\ DOMAIN page(c) = 1..n
                          /\ \A i \in 1..n : page(c)[i] = entries[Base(c) + i]
                          /\ truncated(c) => n = PageSize
                          /\ ~truncated(c) => n = puts - Base(c)
<1>1. Base(c) \in 0..puts /\ puts \in Nat
  BY DEF Base, WritersType, WriterRecord, BucketOK
<1>2. /\ Len(rest(c)) = puts - Base(c) /\ DOMAIN rest(c) = 1..(puts - Base(c))
      /\ \A i \in 1..(puts - Base(c)) : rest(c)[i] = entries[Base(c) + i]
  <2>1. CASE caller[c].page = 0
    BY <2>1 DEF rest, Base, BucketOK
  <2>2. CASE caller[c].page # 0
    <3>1. caller[c].seen \in 1..puts /\ placeOf(caller[c].seen) = Base(c)
      BY <2>2, PlaceOf DEF WritersType, WriterRecord, Base
    <3>2. rest(c) = SubSeq(entries, Base(c) + 1, puts)
      BY <2>2, <3>1 DEF rest, BucketOK
    <3> DEFINE k == Base(c)
    <3>3. k \in 0..puts
      BY <1>1
    <3>4. rest(c) = SubSeq(entries, k + 1, puts)
      BY <3>2
    <3> HIDE DEF k
    <3>5. /\ Len(rest(c)) = puts - k /\ DOMAIN rest(c) = 1..(puts - k)
          /\ \A i \in 1..(puts - k) : rest(c)[i] = entries[k + i]
      BY <3>3, <3>4, <1>1 DEF BucketOK
    <3>. QED BY <3>5 DEF k
  <2>. QED BY <2>1, <2>2
<1>3. PageSize \in Nat /\ PageSize > 0
  BY ObjectsAssumption
<1>4. CASE truncated(c)
  <2>1. page(c) = SubSeq(rest(c), 1, PageSize) /\ PageSize < puts - Base(c)
    BY <1>4, <1>2 DEF page, truncated
  <2>2. DOMAIN page(c) = 1..PageSize /\ \A i \in 1..PageSize : page(c)[i] = rest(c)[i]
    BY <2>1, <1>3
  <2>3. \A i \in 1..PageSize : page(c)[i] = entries[Base(c) + i]
    BY <2>1, <2>2, <1>1, <1>2, <1>3
  <2>4. PageSize <= puts - Base(c)
    BY <2>1, <1>1, <1>3
  <2>. QED BY <2>2, <2>3, <2>4, <1>3, <1>4
<1>5. CASE ~truncated(c)
  <2>1. page(c) = rest(c)
    BY <1>5 DEF page
  <2>2. puts - Base(c) \in Nat
    BY <1>1
  <2>. QED BY <2>1, <2>2, <1>2, <1>5
<1>. QED BY <1>4, <1>5

(* Entries have different ids.                                             *)
LEMMA EntriesDiffer ==
    ASSUME BucketOK, NEW i \in 1..puts, entries[i] = entries[1]
    PROVE  i = 1
<1>1. entries[i].id = puts + 1 - i /\ entries[1].id = puts + 1 - 1
  BY DEF BucketOK
<1>. QED BY <1>1 DEF BucketOK

(* A page is only called ambiguous when the key has no sole version.       *)
LEMMA AmbiguousPage ==
    ASSUME BucketOK, WritersType, NEW c \in Writers,
           caller[c].page > 0 => caller[c].id \in 1..puts /\ caller[c].seen \in 1..puts,
           ambiguous(c)
    PROVE  ~isSole(entries)
<1>1. PICK n \in Nat : /\ n <= puts - Base(c) /\ DOMAIN page(c) = 1..n
                       /\ \A i \in 1..n : page(c)[i] = entries[Base(c) + i]
  BY PageIs
<1>2. Base(c) \in 0..puts /\ puts \in Nat /\ DOMAIN entries = 1..puts
  BY DEF Base, WritersType, WriterRecord, BucketOK
<1>3. PICK i \in 1..n : IF page(c)[i].until > 0 THEN page(c)[i] # entries[1] \/ foundVersion(c) # 0
                                                ELSE page(c)[i] = entries[1]
  BY <1>1 DEF ambiguous
<1>4. Base(c) + i \in 1..puts /\ page(c)[i] = entries[Base(c) + i]
  BY <1>1, <1>2
<1>5. entries[Base(c) + i].until \in Nat
  <2> DEFINE R == [id : Nat, until : Nat]  m == Base(c) + i
  <2>1. entries \in Seq(R) /\ m \in DOMAIN entries
    BY <1>2, <1>4 DEF BucketOK
  <2>2. entries[m] \in R
    <3> HIDE DEF R, m
    <3>. QED BY <2>1
  <2>. QED BY <2>2
<1>6. CASE entries[Base(c) + i].until > 0
  <2>1. Base(c) + i # 1
    <3>1. CASE caller[c].page = 0
      BY <3>1, <1>3, <1>4, <1>6 DEF foundVersion, Base
    <3>2. CASE caller[c].page # 0
      <4>1. caller[c].seen \in 1..puts
        BY <3>2 DEF WritersType, WriterRecord
      <4>2. Base(c) = puts + 1 - caller[c].seen
        BY <3>2 DEF Base
      <4>. QED BY <4>1, <4>2, <1>2
    <3>. QED BY <3>1, <3>2
  <2>2. Base(c) + i \in versions(entries)
    BY <1>2, <1>4, <1>6 DEF versions
  <2>. QED BY <2>1, <2>2 DEF isSole
<1>7. CASE ~(entries[Base(c) + i].until > 0)
  <2>1. Base(c) + i = 1
    BY <1>3, <1>4, <1>7, EntriesDiffer
  <2>. QED BY <2>1, <1>7 DEF isSole, versions
<1>. QED BY <1>6, <1>7

(* A page that is not: at first the newest entry is a version and only     *)
(* markers follow; later there are only markers.                           *)
LEMMA ClearPage ==
    ASSUME BucketOK, WritersType, NEW c \in Writers,
           caller[c].page > 0 => caller[c].id \in 1..puts /\ caller[c].seen \in 1..puts,
           ~ambiguous(c), truncated(c) \/ pageVersion(c) # 0, NEW n \in Nat,
           n <= puts - Base(c), DOMAIN page(c) = 1..n,
           \A i \in 1..n : page(c)[i] = entries[Base(c) + i],
           truncated(c) => n = PageSize
    PROVE  /\ puts > 0
           /\ caller[c].page = 0 =>
                n > 0 /\ pageVersion(c) = puts /\ entries[1].until > 0 /\ \A i \in 2..n : entries[i].until = 0
           /\ caller[c].page > 0 =>
                pageVersion(c) = caller[c].id /\ \A i \in 1..n : entries[Base(c) + i].until = 0
<1>1. Base(c) \in 0..puts /\ puts \in Nat /\ DOMAIN entries = 1..puts
  BY DEF Base, WritersType, WriterRecord, BucketOK
<1>2. \A i \in 1..n : IF page(c)[i].until > 0 THEN page(c)[i] = entries[1] /\ foundVersion(c) = 0
                                              ELSE page(c)[i] # entries[1]
  BY DEF ambiguous
<1>3. \A m \in 1..puts : entries[m].until \in Nat
  <2> SUFFICES ASSUME NEW m \in 1..puts PROVE entries[m].until \in Nat
    OBVIOUS
  <2> DEFINE R == [id : Nat, until : Nat]
  <2>1. entries \in Seq(R) /\ m \in DOMAIN entries
    BY <1>1 DEF BucketOK
  <2>2. entries[m] \in R
    <3> HIDE DEF R
    <3>. QED BY <2>1
  <2>. QED BY <2>2
<1>4. \A i \in 1..n : Base(c) + i \in 1..puts
  BY <1>1
<1>5. CASE caller[c].page = 0
  <2>1. Base(c) = 0 /\ foundVersion(c) = 0
    BY <1>5 DEF Base, foundVersion
  <2>2. \A i \in 1..n : i \in 1..puts /\ page(c)[i] = entries[i]
    BY <2>1, <1>4
  <2>3. n > 0
    <3> SUFFICES ASSUME n = 0 PROVE FALSE
      OBVIOUS
    <3>1. ~truncated(c)
      BY ObjectsAssumption
    <3>2. versions(page(c)) = {}
      BY DEF versions
    <3>. QED BY <2>1, <3>1, <3>2 DEF pageVersion
  <2>4. entries[1].until > 0
    BY <2>2, <2>3, <1>2, <1>3
  <2>5. \A i \in 2..n : entries[i].until = 0
    <3> SUFFICES ASSUME NEW i \in 2..n, entries[i].until # 0 PROVE FALSE
      OBVIOUS
    <3>1. i \in 1..n /\ i \in 1..puts /\ page(c)[i] = entries[i]
      BY <2>2
    <3>2. entries[i].until > 0
      BY <3>1, <1>3
    <3>3. entries[i] = entries[1]
      BY <3>1, <3>2, <1>2
    <3>. QED BY <3>1, <3>3, EntriesDiffer
  <2>6. versions(page(c)) = {1}
    <3>1. \A i \in 1..n : page(c)[i].until > 0 <=> i = 1
      BY <2>2, <2>3, <2>4, <2>5
    <3>. QED BY <3>1, <2>3 DEF versions
  <2>7. pageVersion(c) = entries[1].id
    <3>1. (CHOOSE i \in {1} : TRUE) = 1
      OBVIOUS
    <3>. QED BY <2>2, <2>3, <2>6, <3>1 DEF pageVersion
  <2>8. 1 \in 1..puts /\ entries[1].id = puts
    BY <2>2, <2>3 DEF BucketOK
  <2>9. puts > 0 /\ ~(caller[c].page > 0)
    BY <1>1, <1>5, <2>8
  <2>. QED BY <2>3, <2>4, <2>5, <2>7, <2>8, <2>9
<1>6. CASE caller[c].page # 0
  <2>1. caller[c].page > 0 /\ foundVersion(c) = caller[c].id /\ caller[c].id \in 1..puts
    BY <1>6 DEF foundVersion, WritersType, WriterRecord
  <2>2. foundVersion(c) # 0 /\ puts > 0
    BY <2>1, <1>1
  <2>3. \A i \in 1..n : ~(page(c)[i].until > 0)
    BY <1>2, <2>2
  <2>4. \A i \in 1..n : entries[Base(c) + i].until = 0
    <3> SUFFICES ASSUME NEW i \in 1..n PROVE entries[Base(c) + i].until = 0
      OBVIOUS
    <3>1. entries[Base(c) + i].until \in Nat
      BY <1>3, <1>4
    <3>. QED BY <3>1, <2>3
  <2>5. versions(page(c)) = {}
    BY <2>3 DEF versions
  <2>. QED BY <2>1, <2>2, <2>4, <2>5, <1>6 DEF pageVersion
<1>. QED BY <1>5, <1>6

(* The writer that lists: the outcome of one page.                         *)
LEMMA PageStep ==
    ASSUME ObjectsInv, NEW c \in Writers, recoverRetainedVersion(c)
    PROVE  Grows /\ WritersType' /\ WriterOK(c)'
<1>1. /\ pc[c] = "list" /\ UNCHANGED <<wish, entries, puts, storageFaults, inflight, spools>> /\ Observe
      /\ Grows /\ BucketOK /\ WritersType /\ WriterOK(c)
  BY DEF recoverRetainedVersion, ObjectsInv, Grows
<1>2. caller[c].page > 0 => caller[c].id \in 1..puts /\ caller[c].seen \in 1..puts /\ Listing(c)
  BY <1>1 DEF WriterOK, Listing, BucketOK
<1>3. sole' \in [Writers -> SUBSET Nat]
  BY <1>1, SoleType
<1>4. c \notin spools'
  BY <1>1 DEF WriterOK
<1>5. caller[c].id \in Nat /\ caller[c].page \in Nat /\ puts \in Nat
  BY <1>1 DEF WritersType, WriterRecord, BucketOK
<1>6. CASE ambiguous(c) \/ caller[c].page >= MaxPages \/ (~truncated(c) /\ pageVersion(c) = 0)
  <2>1. caller' = [caller EXCEPT ![c].result = "ambiguous"] /\ pc' = [pc EXCEPT ![c] = "done"]
    BY <1>6 DEF recoverRetainedVersion, finish, moves
  <2>2. /\ caller'[c].result = "ambiguous" /\ caller'[c].page = caller[c].page /\ pc'[c] = "done"
        /\ WritersType'
    <3>1. /\ caller'[c].result = "ambiguous" /\ caller'[c].page = caller[c].page /\ pc'[c] = "done"
          /\ pc' \in [Writers -> WriterStates]
      BY <2>1, <1>1 DEF WritersType, WriterRecord, WriterStates
    <3>2. caller' \in [Writers -> WriterRecord]
      BY <2>1, <1>1 DEF WritersType, WriterRecord, WriterResults
    <3>. QED BY <3>1, <3>2, <1>1, <1>3 DEF WritersType
  <2>3. ~isSole(entries) \/ caller[c].page >= MaxPages
    <3>1. CASE ambiguous(c)
      BY <3>1, <1>1, <1>2, AmbiguousPage
    <3>2. CASE ~truncated(c) /\ pageVersion(c) = 0
      <4>1. PICK n \in Nat : /\ n = puts - Base(c) /\ DOMAIN page(c) = 1..n
                             /\ \A i \in 1..n : page(c)[i] = entries[Base(c) + i]
        BY <3>2, <1>1, <1>2, PageIs
      <4>2. CASE caller[c].page = 0
        <5>1. Base(c) = 0 /\ n = puts
          BY <4>1, <4>2, <1>5 DEF Base
        <5>2. \A i \in 1..puts : page(c)[i] = entries[i]
          BY <4>1, <5>1
        <5>3. isSole(entries) => versions(page(c)) = {1} /\ puts >= 1
          BY <4>1, <5>1, <5>2, <1>1 DEF isSole, versions, BucketOK
        <5>4. isSole(entries) => pageVersion(c) = entries[1].id
          <6>1. (CHOOSE i \in {1} : TRUE) = 1
            OBVIOUS
          <6>. QED BY <5>2, <5>3, <6>1, <1>5 DEF pageVersion
        <5>5. isSole(entries) => entries[1].id = puts
          <6>1. isSole(entries) => 1 \in 1..puts
            BY <5>3, <1>5
          <6>2. \A i \in 1..puts : entries[i].id = puts + 1 - i
            BY <1>1 DEF BucketOK
          <6>3. puts + 1 - 1 = puts
            BY <1>5
          <6>. QED BY <6>1, <6>2, <6>3
        <5>. QED BY <3>2, <5>3, <5>4, <5>5, <1>5
      <4>3. CASE caller[c].page > 0
        <5>1. caller[c].seen \in 1..puts /\ caller[c].id # 0
          BY <4>3, <1>2
        <5>2. Base(c) = puts + 1 - caller[c].seen /\ foundVersion(c) = caller[c].id
          BY <4>3, <1>5 DEF Base, foundVersion
        <5>3. versions(page(c)) # {}
          BY <3>2, <5>1, <5>2 DEF pageVersion
        <5>4. PICK i \in 1..n : entries[Base(c) + i].until > 0
          BY <5>3, <4>1 DEF versions
        <5>5. Base(c) + i \in 1..puts /\ Base(c) + i # 1
          BY <4>1, <5>1, <5>2, <1>5
        <5>6. Base(c) + i \in versions(entries)
          BY <5>4, <5>5, <1>1 DEF versions, BucketOK
        <5>. QED BY <5>5, <5>6 DEF isSole
      <4>. QED BY <4>2, <4>3, <1>5
    <3>. QED BY <3>1, <3>2, <1>6
  <2>4. ~isSole(entries) => c \in notSole'
    BY <2>2, <1>1, Observed
  <2>. QED BY <2>2, <2>3, <2>4, <1>1, <1>4 DEF WriterOK, ended, WriterStates
<1>7. CASE ~(ambiguous(c) \/ caller[c].page >= MaxPages \/ (~truncated(c) /\ pageVersion(c) = 0))
  <2>1. PICK n \in Nat : /\ n <= puts - Base(c) /\ DOMAIN page(c) = 1..n
                         /\ \A i \in 1..n : page(c)[i] = entries[Base(c) + i]
                         /\ truncated(c) => n = PageSize
                         /\ ~truncated(c) => n = puts - Base(c)
    BY <1>1, <1>2, PageIs
  <2> DEFINE v == pageVersion(c)
             w == IF truncated(c) THEN page(c)[PageSize].id ELSE caller[c].seen
  <2>2. /\ puts > 0
        /\ caller[c].page = 0 =>
             n > 0 /\ v = puts /\ entries[1].until > 0 /\ \A i \in 2..n : entries[i].until = 0
        /\ caller[c].page > 0 => v = caller[c].id /\ \A i \in 1..n : entries[Base(c) + i].until = 0
    <3>1. ~ambiguous(c) /\ (truncated(c) \/ pageVersion(c) # 0)
      BY <1>7
    <3>. QED BY <3>1, <2>1, <1>1, <1>2, ClearPage
  <2>3. Base(c) \in 0..puts /\ PageSize \in Nat \ {0}
    BY <1>2, <1>5, ObjectsAssumption DEF Base
  <2>4. v \in 1..puts
    BY <2>2, <1>2, <1>5
  <2>5. truncated(c) => w = puts + 1 - (Base(c) + PageSize) /\ Base(c) + PageSize \in 1..puts
    <3> SUFFICES ASSUME truncated(c)
                 PROVE  w = puts + 1 - (Base(c) + PageSize) /\ Base(c) + PageSize \in 1..puts
      OBVIOUS
    <3>1. n = PageSize /\ n \in 1..n /\ w = page(c)[n].id
      BY <2>1, <2>3
    <3>2. Base(c) + n \in 1..puts
      BY <3>1, <2>1, <2>3, <1>5
    <3>3. page(c)[n] = entries[Base(c) + n]
      BY <3>1, <2>1
    <3>4. entries[Base(c) + n].id = puts + 1 - (Base(c) + n)
      BY <3>2, <1>1 DEF BucketOK
    <3>. QED BY <3>1, <3>2, <3>3, <3>4
  <2>6. w \in Nat
    BY <2>5, <2>3, <1>1, <1>5 DEF WritersType, WriterRecord
  <2>7. /\ caller' = [caller EXCEPT ![c].id = v, ![c].page = @ + 1, ![c].seen = w]
        /\ pc' = [pc EXCEPT ![c] = IF truncated(c) THEN "list" ELSE "head"]
    BY <1>7 DEF recoverRetainedVersion, moves
  <2> HIDE DEF v, w
  <2>8. /\ caller'[c].id = v /\ caller'[c].seen = w /\ WritersType'
        /\ pc'[c] = IF truncated(c) THEN "list" ELSE "head"
    BY <2>4, <2>6, <2>7, <1>1, <1>3, <1>5 DEF WritersType, WriterRecord, WriterStates
  (* The markers behind the version, and what they say about it.            *)
  <2>9. \A j \in (puts + 1 - (Base(c) + n))..(v - 1) : UntilOf(j) = 0
    <3> SUFFICES ASSUME NEW j \in (puts + 1 - (Base(c) + n))..(v - 1) PROVE UntilOf(j) = 0
      OBVIOUS
    <3>1. CASE caller[c].page = 0
      <4>1. Base(c) = 0 /\ v = puts
        BY <3>1, <2>2 DEF Base
      <4>2. puts + 1 - j \in 2..n
        BY <4>1, <1>5
      <4>. QED BY <4>2, <2>2, <3>1 DEF UntilOf
    <3>2. CASE caller[c].page > 0
      <4>1. Base(c) = puts + 1 - caller[c].seen /\ v = caller[c].id /\ caller[c].seen \in 1..puts
        BY <3>2, <2>2, <1>2, <1>5 DEF Base
      <4>2. CASE j >= caller[c].seen
        <5>1. j \in caller[c].seen..(caller[c].id - 1)
          BY <4>1, <4>2, <1>5
        <5>. QED BY <5>1, <3>2, <1>2 DEF Listing
      <4>3. CASE j < caller[c].seen
        <5>1. puts + 1 - j - Base(c) \in 1..n /\ Base(c) + (puts + 1 - j - Base(c)) = puts + 1 - j
          BY <4>1, <4>3, <1>5
        <5>2. \A i \in 1..n : entries[Base(c) + i].until = 0
          BY <3>2, <2>2
        <5>. QED BY <5>1, <5>2 DEF UntilOf
      <4>. QED BY <4>1, <4>2, <4>3, <1>5
    <3>. QED BY <3>1, <3>2, <1>5
  <2>10. pc'[c] # "start"
    BY <2>8
  <2>11. sole[c] \subseteq sole'[c] /\ (isSole(entries) => puts \in sole'[c])
    BY <2>10, <1>1, Observed
  <2>12. (\A j \in 1..(v - 1) : UntilOf(j) = 0) => v \in sole'[c]
    <3> SUFFICES ASSUME \A j \in 1..(v - 1) : UntilOf(j) = 0 PROVE v \in sole'[c]
      OBVIOUS
    <3>1. CASE caller[c].page = 0
      <4>1. v = puts /\ entries[1].until > 0
        BY <3>1, <2>2
      <4>2. \A i \in 2..puts : entries[i].until = 0
        <5> SUFFICES ASSUME NEW i \in 2..puts PROVE entries[i].until = 0
          OBVIOUS
        <5>1. puts + 1 - i \in 1..(v - 1) /\ puts + 1 - (puts + 1 - i) = i
          BY <4>1, <1>5
        <5>. QED BY <5>1 DEF UntilOf
      <4>3. isSole(entries)
        <5>1. \A i \in 1..puts : entries[i].until > 0 <=> i = 1
          BY <4>1, <4>2, <1>5
        <5>2. DOMAIN entries = 1..puts /\ 1 \in 1..puts
          BY <2>2, <1>1, <1>5 DEF BucketOK
        <5>. QED BY <5>1, <5>2 DEF isSole, versions
      <4>. QED BY <4>1, <4>3, <2>11
    <3>2. CASE caller[c].page > 0
      <4>1. v = caller[c].id
        BY <3>2, <2>2
      <4>. QED BY <4>1, <3>2, <1>2, <2>11 DEF Listing
    <3>. QED BY <3>1, <3>2, <1>5
  <2>13. CASE truncated(c)
    <3>1. w = puts + 1 - (Base(c) + n) /\ w \in 1..puts
      BY <2>13, <2>1, <2>3, <2>5, <1>5
    <3>2. w <= v
      <4>1. CASE caller[c].page = 0
        BY <4>1, <3>1, <2>2
      <4>2. CASE caller[c].page > 0
        <5>1. Base(c) = puts + 1 - caller[c].seen /\ v = caller[c].id
          BY <4>2, <2>2, <1>5 DEF Base
        <5>2. caller[c].seen \in 1..caller[c].id
          BY <4>2, <1>2 DEF Listing
        <5>. QED BY <3>1, <5>1, <5>2, <1>5
      <4>. QED BY <4>1, <4>2, <1>5
    <3>3. \A j \in w..(v - 1) : UntilOf(j) = 0
      BY <3>1, <2>9
    <3>4. Listing(c)'
      <4>1. caller'[c].id \in 1..puts' /\ caller'[c].seen \in 1..caller'[c].id
        BY <3>1, <3>2, <2>4, <2>8, <1>1, <1>5
      <4>2. \A j \in caller'[c].seen..(caller'[c].id - 1) : UntilOf(j)' = 0
        BY <3>3, <2>8, <1>1 DEF UntilOf
      <4>3. (\A j \in 1..(caller'[c].id - 1) : UntilOf(j)' = 0) => caller'[c].id \in sole'[c]
        BY <2>12, <2>8, <1>1 DEF UntilOf
      <4>. QED BY <4>1, <4>2, <4>3 DEF Listing
    <3>. QED BY <3>4, <2>8, <2>13, <1>1, <1>4 DEF WriterOK, ended, WriterStates
  <2>14. CASE ~truncated(c)
    <3>1. puts + 1 - (Base(c) + n) = 1
      BY <2>14, <2>1, <2>3, <1>5
    <3>2. v \in sole'[c]
      BY <3>1, <2>9, <2>12
    <3>. QED BY <3>2, <2>4, <2>8, <2>14, <1>1, <1>4 DEF WriterOK, ended, WriterStates
  <2>. QED BY <2>8, <2>13, <2>14, <1>1
<1>. QED BY <1>6, <1>7

(* What a step of a writer touches besides the bucket: its own control.    *)
Acts(c) ==
    /\ wish' = wish /\ Observe /\ spools' \subseteq spools \cup {c}
    /\ \E l \in WriterStates, e \in WriterRecord :
         pc' = [pc EXCEPT ![c] = l] /\ caller' = [caller EXCEPT ![c] = e]

Bucket(c) ==
    \/ UNCHANGED <<entries, puts>>
    \/ put(c)
    \/ /\ wish[c].op = "delete"
       /\ entries' = <<[id |-> puts + 1, until |-> 0]>> \o entries /\ puts' = puts + 1

(* No put breaks the numbering, and when all writers recover none follows  *)
(* the first: PutObject refuses it, even one that arrives late.            *)
LEMMA BucketStep ==
    ASSUME BucketOK, NEW c \in Writers, wish' = wish, Bucket(c)
    PROVE  Grows /\ BucketOK'
<1>1. /\ wish[c].op \in {"recover", "retain", "upload", "create", "delete"} /\ wish[c].until \in Nat
      /\ wish[c].op \in {"recover", "retain"} => wish[c].until >= 2
  BY ObjectsAssumption DEF BucketOK
<1>2. written(c).until \in Nat /\ (recovers(c) => written(c).until > 0)
  <2>1. \A t \in Nat : 2 * (t \div 2) \in Nat /\ (t >= 2 => 2 * (t \div 2) > 0)
    OBVIOUS
  <2>. QED BY <1>1, <2>1 DEF written, retains, recovers, canonicalObjectLockTime
<1>3. Grows
  BY <1>2 DEF Bucket, Grows, put, written
<1>4. alone' = alone
  BY DEF alone
<1>5. alone => puts' <= 1 /\ \A i \in 1..puts' : entries'[i].until > 0
  <2> SUFFICES ASSUME alone PROVE puts' <= 1 /\ \A i \in 1..puts' : entries'[i].until > 0
    OBVIOUS
  <2>1. recovers(c) /\ wish[c].op = "recover"
    BY DEF alone, recovers
  <2>2. CASE UNCHANGED <<entries, puts>>
    BY <2>2 DEF BucketOK
  <2>3. CASE ~UNCHANGED <<entries, puts>>
    <3>1. ~exists /\ entries' = <<written(c)>> \o entries /\ puts' = puts + 1
      BY <2>1, <2>3 DEF Bucket, put, accepted
    <3>2. puts = 0
      <4> SUFFICES ASSUME puts # 0 PROVE FALSE
        OBVIOUS
      <4>1. 1 \in 1..puts /\ entries # <<>>
        BY DEF BucketOK
      <4>. QED BY <3>1, <4>1 DEF exists, BucketOK
    <3>3. entries = <<>>
      BY <3>2 DEF BucketOK
    <3>4. entries'[1] = written(c)
      BY <3>1, <3>3
    <3>. QED BY <3>1, <3>2, <3>4, <1>2, <2>1
  <2>. QED BY <2>2, <2>3
<1>. QED BY <1>3, <1>4, <1>5, BucketGrows DEF BucketOK

(* A writer's step leaves the writers' types (pc, caller, spools).         *)
LEMMA ActsType ==
    ASSUME ObjectsInv, NEW c \in Writers, Acts(c), Grows
    PROVE  WritersType'
BY SoleType DEF Acts, ObjectsInv, WritersType

(* A call that returns is of the right form.                               *)
LEMMA FinishType ==
    ASSUME WritersType, NEW c \in Writers, NEW r \in WriterResults, finish(c, r)
    PROVE  /\ \E l \in WriterStates, e \in WriterRecord :
                pc' = [pc EXCEPT ![c] = l] /\ caller' = [caller EXCEPT ![c] = e]
           /\ caller'[c] = [caller[c] EXCEPT !.result = r] /\ pc'[c] = "done"
<1>1. [caller[c] EXCEPT !.result = r] \in WriterRecord
  BY DEF WritersType, WriterRecord
<1>2. "done" \in WriterStates
  BY DEF WriterStates
<1>3. caller' = [caller EXCEPT ![c] = [caller[c] EXCEPT !.result = r]] /\ pc' = [pc EXCEPT ![c] = "done"]
  BY DEF finish, moves
<1>. QED BY <1>1, <1>2, <1>3 DEF WritersType

(* A call that goes on is of the right form.                               *)
LEMMA MoveType ==
    ASSUME WritersType, NEW c \in Writers, NEW l \in WriterStates, NEW e \in WriterRecord,
           moves(c, l), caller' = [caller EXCEPT ![c] = e]
    PROVE  /\ \E m \in WriterStates, x \in WriterRecord :
                pc' = [pc EXCEPT ![c] = m] /\ caller' = [caller EXCEPT ![c] = x]
           /\ caller'[c] = e /\ pc'[c] = l
BY DEF moves, WritersType

(* A call that has ended otherwise than well, and one that starts to list  *)
(* or to write.                                                            *)
LEMMA NothingClaimed ==
    ASSUME NEW c \in Writers, pc'[c] \in WriterStates, c \in spools' => pc'[c] \in {"put", "head"},
           \/ pc'[c] = "done" /\ caller'[c].result \notin {"ok", "ambiguous"}
           \/ pc'[c] \in {"start", "put"} /\ caller'[c].page = 0
           \/ pc'[c] = "list" /\ caller'[c].page = 0
           \/ pc'[c] = "done" /\ caller'[c].result = "ok" /\ ~recovers(c)'
    PROVE  WriterOK(c)'
BY DEF WriterOK, ended, WriterStates

(* Every step but a page of the listing keeps the writer's part of the     *)
(* invariant: CreateRetained, Upload, Create, Delete and their failures.   *)
LEMMA WriterStep ==
    ASSUME ObjectsInv, NEW c \in Writers,
           \/ begins(c) \/ bodyFails(c) \/ alreadyExists(c) \/ putSucceeds(c)
           \/ \E err \in {"timeout", "other"} : putFails(c, err) \/ statFails(c, err)
           \/ statResolvedVersion(c) \/ listFails(c) \/ Delete(c) \/ retries(c)
    PROVE  Acts(c) /\ Bucket(c) /\ WriterOK(c)'
<1>1. BucketOK /\ WritersType /\ WriterOK(c) /\ caller[c] \in WriterRecord
  BY DEF ObjectsInv, WritersType
<1>2. {"ok", "exists", "mismatch", "failed"} \subseteq WriterResults
  BY DEF WriterResults
<1>3. caller = [caller EXCEPT ![c] = caller[c]]
  BY <1>1 DEF WritersType
<1>4. {"start", "put", "list", "head"} \subseteq WriterStates
  BY DEF WriterStates
<1>5. ASSUME NEW r \in {"exists", "mismatch", "failed"}, finish(c, r), wish' = wish, Observe,
             Bucket(c), spools' \subseteq spools, c \notin spools'
      PROVE  Acts(c) /\ Bucket(c) /\ WriterOK(c)'
  <2>1. /\ \E l \in WriterStates, e \in WriterRecord :
             pc' = [pc EXCEPT ![c] = l] /\ caller' = [caller EXCEPT ![c] = e]
        /\ caller'[c] = [caller[c] EXCEPT !.result = r] /\ pc'[c] = "done"
    BY <1>1, <1>2, <1>5, FinishType
  <2>2. caller'[c].result \notin {"ok", "ambiguous"}
    BY <2>1, <1>1, <1>5 DEF WriterRecord
  <2>3. WriterOK(c)'
    BY <2>1, <2>2, <1>5, NothingClaimed DEF WriterStates
  <2>. QED BY <2>1, <2>3, <1>5 DEF Acts
<1>6. ASSUME NEW e \in WriterRecord, moves(c, "list"), caller' = [caller EXCEPT ![c] = e], e.page = 0,
             wish' = wish, Observe, Bucket(c), spools' = spools \ {c}
      PROVE  Acts(c) /\ Bucket(c) /\ WriterOK(c)'
  <2>1. /\ \E l \in WriterStates, x \in WriterRecord :
             pc' = [pc EXCEPT ![c] = l] /\ caller' = [caller EXCEPT ![c] = x]
        /\ caller'[c] = e /\ pc'[c] = "list"
    BY <1>1, <1>4, <1>6, MoveType
  <2>2. WriterOK(c)'
    BY <2>1, <1>4, <1>6, NothingClaimed
  <2>. QED BY <2>1, <2>2, <1>6 DEF Acts
<1>7. [caller[c] EXCEPT !.page = 0] \in WriterRecord /\ [caller[c] EXCEPT !.page = 0].page = 0
  BY <1>1 DEF WriterRecord
<1>8. ASSUME caller' = [caller EXCEPT ![c].page = 0]
      PROVE  caller' = [caller EXCEPT ![c] = [caller[c] EXCEPT !.page = 0]]
  BY <1>8
<1>9. CASE begins(c)
  <2>1. pc[c] = "start" /\ wish' = wish /\ Observe /\ Bucket(c) /\ caller[c].page = 0 /\ c \notin spools
    BY <1>9, <1>1 DEF begins, Bucket, WriterOK
  <2>2. CASE asExpected(c)
    <3>1. moves(c, "put") /\ caller' = [caller EXCEPT ![c] = caller[c]] /\ spools' \subseteq spools \cup {c}
      BY <2>2, <1>9, <1>3 DEF begins, seekableBody
    <3>2. /\ \E l \in WriterStates, x \in WriterRecord :
               pc' = [pc EXCEPT ![c] = l] /\ caller' = [caller EXCEPT ![c] = x]
          /\ caller'[c] = caller[c] /\ pc'[c] = "put"
      BY <3>1, <1>1, <1>4, MoveType
    <3>3. WriterOK(c)'
      BY <3>2, <2>1, <1>4, NothingClaimed
    <3>. QED BY <3>1, <3>2, <3>3, <2>1 DEF Acts
  <2>3. CASE ~asExpected(c)
    BY <2>1, <2>3, <1>9, <1>5 DEF begins
  <2>. QED BY <2>2, <2>3
<1>10. CASE bodyFails(c)
  <2>1. finish(c, "failed") /\ wish' = wish /\ Observe /\ Bucket(c) /\ spools' = spools /\ c \notin spools
    BY <1>10, <1>1 DEF bodyFails, Bucket, WriterOK
  <2>. QED BY <2>1, <1>5
<1>11. CASE alreadyExists(c)
  <2>1. wish' = wish /\ Observe /\ Bucket(c) /\ spools' = spools \ {c}
    BY <1>11 DEF alreadyExists, Bucket
  <2>2. CASE recovers(c)
    <3>1. moves(c, "list") /\ caller' = [caller EXCEPT ![c].page = 0]
      BY <2>2, <1>11 DEF alreadyExists
    <3>. QED BY <2>1, <3>1, <1>6, <1>7, <1>8
  <2>3. CASE ~recovers(c)
    <3>1. finish(c, "exists")
      BY <2>3, <1>11 DEF alreadyExists
    <3>. QED BY <2>1, <3>1, <1>5
  <2>. QED BY <2>2, <2>3
<1>12. CASE putSucceeds(c)
  <2>1. /\ pc[c] = "put" /\ accepted(c) /\ put(c) /\ wish' = wish /\ Observe /\ Bucket(c)
        /\ caller[c].page = 0 /\ puts' = puts + 1 /\ puts \in Nat
    BY <1>12, <1>1 DEF putSucceeds, Bucket, WriterOK, BucketOK, put
  <2>2. CASE retains(c)
    <3> DEFINE e == [caller[c] EXCEPT !.id = puts + 1]
    <3>1. moves(c, "head") /\ caller' = [caller EXCEPT ![c] = e] /\ spools' = spools
      BY <2>2, <1>12 DEF putSucceeds
    <3>2. e \in WriterRecord /\ e.id = puts + 1 /\ e.page = 0
      BY <2>1, <1>1 DEF WriterRecord
    <3> HIDE DEF e
    <3>3. /\ \E l \in WriterStates, x \in WriterRecord :
               pc' = [pc EXCEPT ![c] = l] /\ caller' = [caller EXCEPT ![c] = x]
          /\ caller'[c] = e /\ pc'[c] = "head"
      BY <3>1, <3>2, <1>1, <1>4, MoveType
    <3>4. caller'[c].id \in 1..puts' /\ ~(caller'[c].page > 0)
      BY <3>2, <3>3, <2>1
    <3>5. WriterOK(c)'
      BY <3>3, <3>4, <1>4 DEF WriterOK, ended
    <3>. QED BY <3>1, <3>3, <3>5, <2>1 DEF Acts
  <2>3. CASE ~retains(c)
    <3>1. finish(c, "ok") /\ spools' = spools \ {c}
      BY <2>3, <1>12 DEF putSucceeds
    <3>2. /\ \E l \in WriterStates, e \in WriterRecord :
               pc' = [pc EXCEPT ![c] = l] /\ caller' = [caller EXCEPT ![c] = e]
          /\ caller'[c] = [caller[c] EXCEPT !.result = "ok"] /\ pc'[c] = "done"
      BY <3>1, <1>1, <1>2, FinishType
    <3>3. caller'[c].result = "ok" /\ ~recovers(c)'
      BY <3>2, <2>1, <2>3, <1>1 DEF WriterRecord, recovers, retains
    <3>4. WriterOK(c)'
      BY <3>1, <3>2, <3>3, NothingClaimed DEF WriterStates
    <3>. QED BY <3>1, <3>2, <3>4, <2>1 DEF Acts
  <2>. QED BY <2>2, <2>3
<1>13. ASSUME NEW err \in {"timeout", "other"}, putFails(c, err)
       PROVE  Acts(c) /\ Bucket(c) /\ WriterOK(c)'
  <2>1. wish' = wish /\ Observe /\ Bucket(c) /\ spools' = spools \ {c}
    BY <1>13 DEF putFails, Bucket
  <2>2. CASE recovers(c) /\ isAmbiguousRetainedWrite(err)
    <3>1. moves(c, "list") /\ caller' = [caller EXCEPT ![c].page = 0]
      BY <2>2, <1>13 DEF putFails
    <3>. QED BY <2>1, <3>1, <1>6, <1>7, <1>8
  <2>3. CASE ~(recovers(c) /\ isAmbiguousRetainedWrite(err))
    <3>1. finish(c, "failed")
      BY <2>3, <1>13 DEF putFails
    <3>. QED BY <2>1, <3>1, <1>5
  <2>. QED BY <2>2, <2>3
<1>14. ASSUME NEW err \in {"timeout", "other"}, statFails(c, err)
       PROVE  Acts(c) /\ Bucket(c) /\ WriterOK(c)'
  <2>1. wish' = wish /\ Observe /\ Bucket(c) /\ spools' = spools \ {c}
    BY <1>14 DEF statFails, Bucket
  <2>2. CASE recovers(c) /\ caller[c].page = 0 /\ isAmbiguousRetainedWrite(err)
    <3>1. moves(c, "list") /\ caller' = [caller EXCEPT ![c] = caller[c]]
      BY <2>2, <1>3, <1>14 DEF statFails
    <3>. QED BY <2>1, <2>2, <3>1, <1>1, <1>6
  <2>3. CASE ~(recovers(c) /\ caller[c].page = 0 /\ isAmbiguousRetainedWrite(err))
    <3>1. finish(c, "failed")
      BY <2>3, <1>14 DEF statFails
    <3>. QED BY <2>1, <3>1, <1>5
  <2>. QED BY <2>2, <2>3
<1>15. CASE statResolvedVersion(c)
  <2>1. /\ pc[c] = "head" /\ wish' = wish /\ Observe /\ Bucket(c) /\ spools' = spools \ {c}
        /\ UNCHANGED <<entries, puts>>
    BY <1>15 DEF statResolvedVersion, Bucket
  <2>2. CASE validated(c, caller[c].id) = "mismatch"
    BY <2>1, <2>2, <1>5, <1>15 DEF statResolvedVersion
  <2>3. CASE validated(c, caller[c].id) # "mismatch"
    <3>1. finish(c, "ok") /\ (recovers(c) => matches(c, caller[c].id))
      BY <2>3, <1>15 DEF statResolvedVersion, validated
    <3>2. /\ \E l \in WriterStates, e \in WriterRecord :
               pc' = [pc EXCEPT ![c] = l] /\ caller' = [caller EXCEPT ![c] = e]
          /\ caller'[c] = [caller[c] EXCEPT !.result = "ok"] /\ pc'[c] = "done"
      BY <3>1, <1>1, <1>2, FinishType
    <3>3. caller'[c].result = "ok" /\ caller'[c].id = caller[c].id /\ caller'[c].page = caller[c].page
      BY <3>2, <1>1 DEF WriterRecord
    <3>4. caller[c].id \in 1..puts /\ (caller[c].page > 0 => caller[c].id \in sole[c])
      BY <2>1, <1>1 DEF WriterOK
    <3>5. recovers(c) => entries[puts + 1 - caller[c].id].until = canonicalObjectLockTime(wish[c].until)
      BY <3>1, <3>4, <1>1, PlaceOf DEF matches
    <3>6. sole[c] \subseteq sole'[c]
      BY <3>2, <2>1, <1>1, Observed DEF Grows
    <3>7. recovers(c)' = recovers(c)
      BY <2>1 DEF recovers
    <3>8. recovers(c)' => /\ caller'[c].id \in 1..puts'
                          /\ UntilOf(caller[c].id)' = canonicalObjectLockTime(wish[c].until)'
                          /\ caller'[c].page > 0 => caller'[c].id \in sole'[c]
      BY <2>1, <3>3, <3>4, <3>5, <3>6, <3>7 DEF UntilOf, canonicalObjectLockTime
    <3>9. WriterOK(c)'
      BY <2>1, <3>2, <3>3, <3>8 DEF WriterOK, ended, WriterStates, canonicalObjectLockTime
    <3>. QED BY <2>1, <3>2, <3>9 DEF Acts
  <2>. QED BY <2>2, <2>3
<1>16. CASE listFails(c)
  <2>1. finish(c, "failed") /\ wish' = wish /\ Observe /\ Bucket(c) /\ spools' = spools /\ c \notin spools
    BY <1>16, <1>1 DEF listFails, Bucket, WriterOK
  <2>. QED BY <2>1, <1>5
<1>17. CASE Delete(c)
  <2>1. /\ finish(c, "ok") /\ wish' = wish /\ Observe /\ Bucket(c) /\ spools' = spools /\ c \notin spools
        /\ wish[c].op = "delete"
    BY <1>17, <1>1 DEF Delete, Bucket, WriterOK
  <2>2. /\ \E l \in WriterStates, e \in WriterRecord :
             pc' = [pc EXCEPT ![c] = l] /\ caller' = [caller EXCEPT ![c] = e]
        /\ caller'[c] = [caller[c] EXCEPT !.result = "ok"] /\ pc'[c] = "done"
    BY <2>1, <1>1, <1>2, FinishType
  <2>3. caller'[c].result = "ok" /\ ~recovers(c)'
    BY <2>1, <2>2, <1>1 DEF WriterRecord, recovers
  <2>4. WriterOK(c)'
    BY <2>1, <2>2, <2>3, NothingClaimed DEF WriterStates
  <2>. QED BY <2>1, <2>2, <2>4 DEF Acts
<1>18. CASE retries(c)
  <2>1. /\ moves(c, "start") /\ caller' = [caller EXCEPT ![c] = unwritten]
        /\ wish' = wish /\ Observe /\ Bucket(c) /\ spools' = spools /\ c \notin spools
    BY <1>18, <1>1 DEF retries, Bucket, WriterOK
  <2>2. unwritten \in WriterRecord /\ unwritten.page = 0
    BY DEF unwritten, WriterRecord, WriterResults
  <2>3. /\ \E l \in WriterStates, x \in WriterRecord :
             pc' = [pc EXCEPT ![c] = l] /\ caller' = [caller EXCEPT ![c] = x]
        /\ caller'[c] = unwritten /\ pc'[c] = "start"
    BY <2>1, <2>2, <1>1, <1>4, MoveType
  <2>4. WriterOK(c)'
    BY <2>1, <2>2, <2>3, <1>4, NothingClaimed
  <2>. QED BY <2>1, <2>3, <2>4 DEF Acts
<1>. QED BY <1>9, <1>10, <1>11, <1>12, <1>13, <1>14, <1>15, <1>16, <1>17, <1>18

(* The invariant of the bucket and the writers is inductive.               *)
LEMMA ObjectsStep ==
    ObjectsInv /\ [ObjectStorageNext]_osvars => ObjectsInv'
<1> SUFFICES ASSUME ObjectsInv, [ObjectStorageNext]_osvars PROVE ObjectsInv'
  OBVIOUS
<1>1. BucketOK /\ WritersType /\ \A d \in Writers : WriterOK(d)
  BY DEF ObjectsInv
<1>2. CASE UNCHANGED osvars
  BY <1>1, <1>2 DEF ObjectsInv, BucketOK, WritersType, WriterOK, Listing, UntilOf, osvars, ended, recovers,
                    alone, canonicalObjectLockTime
<1>3. ASSUME NEW c \in Writers, recoverRetainedVersion(c)
      PROVE  ObjectsInv'
  <2>1. Grows /\ WritersType' /\ WriterOK(c)'
    BY <1>3, PageStep
  <2>2. wish' = wish /\ Observe /\ Bucket(c) /\ spools' = spools
    BY <1>3 DEF recoverRetainedVersion, Bucket
  <2>3. BucketOK'
    BY <2>2, <1>1, BucketStep
  <2>4. \A d \in Writers \ {c} : pc'[d] = pc[d] /\ caller'[d] = caller[d]
    BY <1>1, <1>3 DEF recoverRetainedVersion, finish, moves, WritersType
  <2>5. \A d \in Writers \ {c} : WriterOK(d)'
    BY <2>1, <2>2, <2>4, <1>1, OtherWriter
  <2>. QED BY <2>1, <2>3, <2>5 DEF ObjectsInv
<1>4. ASSUME NEW c \in Writers, arrivesLate(c)
      PROVE  ObjectsInv'
  <2>1. wish' = wish /\ Observe /\ Bucket(c) /\ spools' = spools /\ pc' = pc /\ caller' = caller
    BY <1>4 DEF arrivesLate, Bucket
  <2>2. BucketOK' /\ Grows
    BY <2>1, <1>1, BucketStep
  <2>3. \A d \in Writers : WriterOK(d)'
    BY <2>1, <2>2, <1>1, OtherWriter
  <2>4. WritersType'
    BY <2>1, <2>2, <1>1, SoleType DEF WritersType
  <2>. QED BY <2>2, <2>3, <2>4 DEF ObjectsInv
<1>5. ASSUME NEW c \in Writers,
             \/ begins(c) \/ bodyFails(c) \/ alreadyExists(c) \/ putSucceeds(c)
             \/ \E err \in {"timeout", "other"} : putFails(c, err) \/ statFails(c, err)
             \/ statResolvedVersion(c) \/ listFails(c) \/ Delete(c) \/ retries(c)
      PROVE  ObjectsInv'
  <2>1. Acts(c) /\ Bucket(c) /\ WriterOK(c)'
    BY <1>5, WriterStep
  <2>2. wish' = wish /\ Observe
    BY <2>1 DEF Acts
  <2>3. BucketOK' /\ Grows
    BY <2>1, <2>2, <1>1, BucketStep
  <2>4. WritersType'
    BY <2>1, <2>3, ActsType
  <2>5. \A d \in Writers \ {c} : pc'[d] = pc[d] /\ caller'[d] = caller[d] /\ (d \in spools' => d \in spools)
    BY <2>1, <1>1 DEF Acts, WritersType
  <2>6. \A d \in Writers \ {c} : WriterOK(d)'
    BY <2>2, <2>3, <2>5, <1>1, OtherWriter
  <2>. QED BY <2>1, <2>3, <2>4, <2>6 DEF ObjectsInv
<1>6. CASE ObjectStorageNext
  BY <1>3, <1>4, <1>5, <1>6 DEF ObjectStorageNext
<1>. QED BY <1>2, <1>6

(* It holds of an empty key nobody has written to.                         *)
LEMMA ObjectsInvInit == ObjectStorageInit => ObjectsInv
<1> SUFFICES ASSUME ObjectStorageInit PROVE ObjectsInv
  OBVIOUS
<1>1. BucketOK
  BY DEF ObjectStorageInit, BucketOK
<1>2. WritersType
  BY DEF ObjectStorageInit, WritersType, WriterRecord, WriterResults, unwritten, WriterStates
<1>3. \A c \in Writers : WriterOK(c)
  BY DEF ObjectStorageInit, WriterOK, ended, unwritten, WriterStates
<1>. QED BY <1>1, <1>2, <1>3 DEF ObjectsInv

(* It says what the writers are promised.                                  *)
LEMMA ObjectsImply == ObjectsInv => ObjectStorageSound
<1> SUFFICES ASSUME ObjectsInv PROVE ObjectStorageSound
  OBVIOUS
<1>1. RecoveredOK
  <2> SUFFICES ASSUME NEW c \in Writers, ended(c, "ok"), recovers(c)
               PROVE  matches(c, caller[c].id) /\ (caller[c].page > 0 => caller[c].id \in sole[c])
    BY DEF RecoveredOK
  <2>1. BucketOK /\ WriterOK(c)
    BY DEF ObjectsInv
  <2>2. caller[c].id \in 1..puts /\ UntilOf(caller[c].id) = canonicalObjectLockTime(wish[c].until)
    BY <2>1 DEF WriterOK
  <2>. QED BY <2>1, <2>2, PlaceOf DEF WriterOK, matches, UntilOf
<1>2. AmbiguousOK
  BY DEF ObjectsInv, AmbiguousOK, WriterOK
<1>3. AloneOK
  <2> SUFFICES ASSUME alone
               PROVE  /\ Len(entries) <= 1
                      /\ \A c, d \in Writers : ended(c, "ok") /\ ended(d, "ok") => caller[c].id = caller[d].id
    BY DEF AloneOK
  <2>1. puts \in Nat /\ Len(entries) = puts /\ puts <= 1
    BY DEF ObjectsInv, BucketOK
  <2>2. \A c \in Writers : ended(c, "ok") => caller[c].id \in 1..puts
    BY DEF ObjectsInv, WriterOK, alone, recovers
  <2>3. \A c \in Writers : ended(c, "ok") => caller[c].id = 1
    BY <2>1, <2>2
  <2>. QED BY <2>1, <2>3
<1>4. SpoolsOK
  BY DEF ObjectsInv, WritersType, WriterOK, SpoolsOK
<1>. QED BY <1>1, <1>2, <1>3, <1>4 DEF ObjectStorageSound

(* What a writer is told about an immutable object is true, and writers    *)
(* that recover agree on one version, for any number of writers, puts,     *)
(* faults and pages (CreateOrRecoverRetained, recoverRetainedVersion).     *)
THEOREM ObjectStorageSoundHolds == ObjectStorageSpec => []ObjectStorageSound
<1>. QED BY ObjectsInvInit, ObjectsStep, ObjectsImply, PTL DEF ObjectStorageSpec
=============================================================================

------------------------------- MODULE Ledger -------------------------------
(***************************************************************************)
(* Ledger transactions: an intent is expanded into postings, the balances  *)
(* it touches are checked, and the postings are applied to them; a pending *)
(* intent holds first and is approved or canceled later.                   *)
(*                                                                         *)
(* The package is pure: it plans and computes on values.  The caller that  *)
(* stores balances is external and modelled as the tests use the package:  *)
(* plan, check, apply, in that order, other transactions in between; all   *)
(* postings of a plan are stored together or none is.  Amounts are whole   *)
(* numbers within the supported range (checkBounds refuses others), totals *)
(* multiples of 100, so that shares are exact.                             *)
(***************************************************************************)
EXTENDS Integers, Sequences, FiniteSets, FiniteSetsExt, SequencesExt

CONSTANTS
    Transactions,
    Intents,    \* transaction -> [asset, total, pending, sources, destinations];
                \* an allocation is [account, balance, strategy: amount | share | remainder, n]
    Accounts    \* balance -> [owner, start, external, send, receive, scope, asset]

VARIABLES
    intent,
    balances,   \* balance -> [available, onHold, version]
    phase,      \* transaction -> new | planned | held | settled | canceled | refused
    plan        \* transaction -> the plan that is to be applied next

ledgerVars == <<intent, balances, phase, plan>>

noPlan == [ok |-> FALSE, status |-> "none", postings |-> <<>>]

LedgerInit ==
    /\ intent \in Intents
    /\ balances = [b \in DOMAIN Accounts |->
                     [available |-> Accounts[b].start, onHold |-> 0, version |-> 0]]
    /\ phase = [t \in Transactions |-> "new"]
    /\ plan = [t \in Transactions |-> noPlan]

-----------------------------------------------------------------------------
(* Planning.                                                               *)
ResolveOperation(pending, isSource, status) ==
    CASE pending /\ status = "PENDING"  -> IF isSource THEN "ON_HOLD" ELSE "CREDIT"
      [] pending /\ status = "CANCELED" -> IF isSource THEN "RELEASE" ELSE "DEBIT"
      [] pending /\ status = "APPROVED" -> IF isSource THEN "DEBIT" ELSE "CREDIT"
      [] ~pending /\ status = "CREATED" -> IF isSource THEN "DEBIT" ELSE "CREDIT"
      [] OTHER -> "invalid"

(* resolveAllocationAmount of an explicit amount or a share.               *)
resolveAllocationAmount(total, a) ==
    IF a.strategy = "share" THEN (total * a.n) \div 100 ELSE a.n
validAllocation(a) == a.strategy = "share" => a.n \in 1..100

(* computeRemainderAllocation: something must be left.                     *)
remainderIsPositive(total, allocated) == total - allocated > 0

(* buildPostings for one side; <<>> when it is refused.                    *)
buildPostings(x, side, status) ==
    LET isSource  == side = "sources"
        A         == x[side]
        fixed     == {i \in DOMAIN A : A[i].strategy # "remainder"}
        open      == DOMAIN A \ fixed
        amount(i) == resolveAllocationAmount(x.total, A[i])
        allocated == MapThenSumSet(amount, fixed)
        op        == ResolveOperation(x.pending, isSource, status)
    IN  IF /\ op # "invalid" /\ \A i \in fixed : validAllocation(A[i]) /\ amount(i) > 0
           /\ Cardinality(open) <= 1
           /\ IF open = {} THEN allocated = x.total ELSE remainderIsPositive(x.total, allocated)
        THEN [i \in DOMAIN A |->
                [account |-> A[i].account, balance |-> A[i].balance, operation |-> op, status |-> status,
                 amount |-> IF i \in fixed THEN amount(i) ELSE x.total - allocated]]
        ELSE <<>>

touched(s) == {s[i].balance : i \in DOMAIN s}

(* BuildIntentPlan.                                                        *)
BuildIntentPlan(x, status) ==
    LET sources == buildPostings(x, "sources", status)
        destinations == buildPostings(x, "destinations", status)
    IN  IF /\ x.total > 0 /\ sources # <<>> /\ destinations # <<>>
           /\ touched(sources) \cap touched(destinations) = {}
        THEN [ok |-> TRUE, status |-> status, postings |-> sources \o destinations]
        ELSE noPlan

-----------------------------------------------------------------------------
(* ValidateBalanceEligibility of the postings of an intent.                *)
isDestination(p) == p.operation = "CREDIT"

validateSourcePosting(x, p) ==
    LET a == Accounts[p.balance]
    IN  /\ a.send /\ balances[p.balance].available >= p.amount
        /\ ~(x.pending /\ a.external)

validateDestinationPosting(p) ==
    LET a == Accounts[p.balance]
    IN  a.receive /\ (a.external => balances[p.balance].available = 0)

(* validateScope: one organization and ledger, balances without one aside. *)
validateScope(s) == Cardinality({Accounts[b].scope : b \in touched(s)} \ {""}) <= 1

ValidateBalanceEligibility(x, s) ==
    /\ validateScope(s)
    /\ \A i \in DOMAIN s :
         /\ s[i].balance \in DOMAIN Accounts /\ Accounts[s[i].balance].owner = s[i].account
         /\ Accounts[s[i].balance].asset = x.asset
         /\ IF isDestination(s[i]) THEN validateDestinationPosting(s[i])
                                   ELSE validateSourcePosting(x, s[i])

-----------------------------------------------------------------------------
(* Applying: what an operation moves, by status; a pair that is not listed *)
(* is an invalid state transition.                                         *)
move(available, onHold) == [available |-> available, onHold |-> onHold]

applyOnHold(p)  == move(-p.amount, p.amount)
applyRelease(p) == move(p.amount, -p.amount)

(* Mutant: a settlement is taken from what is available.                   *)
debitAvailable(p) == move(-p.amount, 0)

applyDebit(p)   == IF p.status = "APPROVED" THEN move(0, -p.amount) ELSE move(-p.amount, 0)
applyCredit(p)  == move(p.amount, 0)

allowed(p) ==
    CASE p.operation = "ON_HOLD" -> p.status = "PENDING"
      [] p.operation = "RELEASE" -> p.status = "CANCELED"
      [] p.operation = "DEBIT"   -> p.status \in {"CREATED", "APPROVED", "CANCELED"}
      [] OTHER                   -> p.status \in {"CREATED", "APPROVED", "PENDING"}

applyPostingOperation(p) ==
    CASE p.operation = "ON_HOLD" -> applyOnHold(p)
      [] p.operation = "RELEASE" -> applyRelease(p)
      [] p.operation = "DEBIT"   -> applyDebit(p)
      [] OTHER                   -> applyCredit(p)

(* ApplyPosting on an outcome: [ok, balances].                             *)
ApplyPosting(o, p) ==
    LET d == applyPostingOperation(p)
        b == o.balances[p.balance]
        r == [available |-> b.available + d.available, onHold |-> b.onHold + d.onHold,
              version |-> b.version + 1]
    IN  IF o.ok /\ Accounts[p.balance].owner = p.account /\ allowed(p) /\ p.amount > 0 /\ r.available >= 0 /\ r.onHold >= 0
        THEN [o EXCEPT !.balances[p.balance] = r]
        ELSE [o EXCEPT !.ok = FALSE]

applied(s) == FoldLeft(ApplyPosting, [ok |-> TRUE, balances |-> balances], s)

-----------------------------------------------------------------------------
(* The caller plans and checks; what it has checked may change before it   *)
(* applies the plan.                                                       *)
MakesPlan(t) ==
    /\ phase[t] = "new"
    /\ LET p == BuildIntentPlan(intent[t], IF intent[t].pending THEN "PENDING" ELSE "CREATED")
       IN  IF p.ok /\ ValidateBalanceEligibility(intent[t], p.postings)
           THEN plan' = [plan EXCEPT ![t] = p] /\ phase' = [phase EXCEPT ![t] = "planned"]
           ELSE phase' = [phase EXCEPT ![t] = "refused"] /\ UNCHANGED plan
    /\ UNCHANGED <<intent, balances>>

Applies(t, to) ==
    /\ LET o == applied(plan[t].postings)
       IN  IF o.ok THEN balances' = o.balances /\ phase' = [phase EXCEPT ![t] = to]
                   ELSE phase' = [phase EXCEPT ![t] = "refused"] /\ UNCHANGED balances
    /\ plan' = [plan EXCEPT ![t] = noPlan]
    /\ UNCHANGED intent

Posts(t) ==
    /\ phase[t] = "planned"
    /\ Applies(t, IF intent[t].pending THEN "held" ELSE "settled")

(* A held transaction is approved or canceled: a new plan, applied at once *)
(* in full; one that is refused stays held.                                *)
Decides(t, status) ==
    /\ phase[t] = "held"
    /\ LET o == applied(BuildIntentPlan(intent[t], status).postings)
       IN  IF o.ok
           THEN /\ balances' = o.balances
                /\ phase' = [phase EXCEPT ![t] = IF status = "APPROVED" THEN "settled" ELSE "canceled"]
           ELSE UNCHANGED <<balances, phase>>
    /\ UNCHANGED <<intent, plan>>

LedgerNext == \E t \in Transactions :
    \/ MakesPlan(t) \/ Posts(t)
    \/ \E status \in {"APPROVED", "CANCELED"} : Decides(t, status)

LedgerSpec == LedgerInit /\ [][LedgerNext]_ledgerVars

-----------------------------------------------------------------------------
postingsOf(t) == BuildIntentPlan(intent[t], "PENDING").postings
heldOn(b) ==
    MapThenSumSet(LAMBDA t :
        MapThenSumSet(LAMBDA i : postingsOf(t)[i].amount,
            {i \in DOMAIN postingsOf(t) :
               postingsOf(t)[i].balance = b /\ postingsOf(t)[i].operation = "ON_HOLD"}),
        {t \in Transactions : phase[t] = "held"})

total(f) == MapThenSumSet(LAMBDA b : f[b].available + f[b].onHold, DOMAIN f)
started  == MapThenSumSet(LAMBDA b : Accounts[b].start, DOMAIN Accounts)
side(t, source) ==
    MapThenSumSet(LAMBDA i : plan[t].postings[i].amount,
        {i \in DOMAIN plan[t].postings : isDestination(plan[t].postings[i]) # source})

(* What planning, checking and posting add up to, with transactions        *)
(* interleaved between check and posting: a plan takes the total from its  *)
(* sources and gives the total to its destinations, in positive amounts;   *)
(* no balance is ever overdrawn; a balance's on-hold amount is exactly what*)
(* the transactions now held put there, so that an approval or a release   *)
(* never takes another's hold; and without pending transactions value is   *)
(* neither made nor lost.                                                  *)
LedgerSound ==
    /\ \A t \in Transactions : plan[t].ok =>
         /\ side(t, TRUE) = intent[t].total /\ side(t, FALSE) = intent[t].total
         /\ \A i \in DOMAIN plan[t].postings : plan[t].postings[i].amount > 0
    /\ \A b \in DOMAIN balances :
         balances[b].available >= 0 /\ balances[b].onHold = heldOn(b)
    /\ (\A t \in Transactions : ~intent[t].pending) => total(balances) = started
=============================================================================

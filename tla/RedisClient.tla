---------------------------- MODULE RedisClient ----------------------------
(***************************************************************************)
(* The Redis client: connected on demand, and with IAM authentication kept *)
(* connected by a loop that fetches tokens and replaces the client.  A     *)
(* call holds c.mu from end to end, the network included; the loop does so *)
(* only when it applies a token it fetched before.                         *)
(***************************************************************************)
EXTENDS Naturals, FiniteSets

CONSTANTS MaxClients, MaxTokens, MaxLoops   \* bounds: clients made, tokens issued, loops started

ASSUME RedisAssumption == MaxClients \in Nat /\ MaxTokens \in Nat /\ MaxLoops \in Nat

VARIABLES iam,           \* usesGCPIAM
          client,        \* 0 is nil; clients are numbered as they are made
          connected, refreshErr,
          token,         \* 0 is ""; tokens are numbered as they are issued
          refreshLoopRunning, refreshCancel, refreshGeneration,
          limited,       \* GetClient failed and its backoff has not passed
          due,           \* RefreshEvery has passed since lastRefresh
          lpc, fetched,  \* each loop: where it is, and the token it fetched
          stopped,       \* loops whose context is cancelled
          clientsMade, openClients, registered,  \* clients made, open, and observed by telemetry
          issued, valid, \* tokens issued, and not expired
          shut           \* ghost: Close was the last successful call

rvars == <<iam, client, connected, refreshErr, token, refreshLoopRunning, refreshCancel, refreshGeneration,
           limited, due, lpc, fetched, stopped, clientsMade, openClients, registered, issued, valid, shut>>

Loops    == 1 .. MaxLoops
NoClient == 0
NoToken  == 0
NoLoop   == 0

RedisTypeOK ==
    /\ client \in 0 .. clientsMade /\ token \in 0 .. issued /\ refreshGeneration \in 0 .. MaxLoops
    /\ connected \in BOOLEAN /\ refreshErr \in BOOLEAN /\ limited \in BOOLEAN

RedisInit ==
    /\ iam \in BOOLEAN
    /\ client = NoClient /\ connected = FALSE /\ refreshErr = FALSE /\ token = NoToken
    /\ refreshLoopRunning = FALSE /\ refreshCancel = NoLoop /\ refreshGeneration = 0
    /\ limited = FALSE /\ due = FALSE /\ shut = TRUE
    /\ lpc = [l \in Loops |-> "off"] /\ fetched = [l \in Loops |-> NoToken] /\ stopped = {}
    /\ clientsMade = 0 /\ openClients = {} /\ registered = {} /\ issued = 0 /\ valid = {}

-----------------------------------------------------------------------------
Tokens  == <<issued, valid>>
Sockets == <<clientsMade, openClients, registered>>
Loop    == <<refreshLoopRunning, refreshCancel, refreshGeneration, lpc, stopped>>

(* retrieveToken: a new token, or an error.                                *)
retrieveToken == issued < MaxTokens /\ issued' = issued + 1 /\ valid' = valid \cup {issued + 1}

(* The verifying PING: it may always fail, and does so without a valid     *)
(* token.                                                                  *)
Pings(t) == clientsMade < MaxClients /\ (iam => t \in valid)

(* The verified client takes the place of the old one, which is closed     *)
(* after its telemetry is released.                                        *)
swapIn ==
    /\ clientsMade' = clientsMade + 1 /\ client' = clientsMade + 1
    /\ openClients' = (openClients \cup {clientsMade + 1}) \ {client}
    /\ registered' = (registered \cup {clientsMade + 1}) \ {client}
    /\ connected' = TRUE

startRefreshLoopLocked ==
    IF ~iam \/ refreshLoopRunning THEN UNCHANGED Loop
    ELSE /\ refreshGeneration < MaxLoops /\ refreshGeneration' = refreshGeneration + 1
         /\ refreshCancel' = refreshGeneration + 1 /\ refreshLoopRunning' = TRUE
         /\ lpc' = [lpc EXCEPT ![refreshGeneration + 1] = "wait"] /\ UNCHANGED stopped

(* connectClientLocked *)
connectClientLocked(t) == Pings(t) /\ swapIn /\ refreshErr' = FALSE

(* A ping that failed leaves the client in place, reported disconnected.   *)
connectFails == connected' = FALSE /\ UNCHANGED <<client, refreshErr, Sockets, Loop, due, shut>>

(* connectLocked: a token is fetched only if there is none.                *)
connectLocked ==
    \/ /\ iam /\ token = NoToken /\ UNCHANGED <<token, Tokens, connected, client, refreshErr, Sockets, Loop, due, shut>>
    \/ /\ iam /\ token = NoToken /\ retrieveToken /\ token' = issued + 1
       /\ \/ clientsMade < MaxClients /\ swapIn /\ refreshErr' = FALSE /\ startRefreshLoopLocked /\ due' = FALSE /\ shut' = FALSE
          \/ connectFails
    \/ /\ ~(iam /\ token = NoToken) /\ UNCHANGED <<token, Tokens>>
       /\ \/ connectClientLocked(token) /\ startRefreshLoopLocked /\ due' = FALSE /\ shut' = FALSE
          \/ connectFails

Connected == client' # NoClient /\ client' # client

Connect == connectLocked /\ UNCHANGED <<iam, limited, fetched>>

(* GetClient hands out what there is, and connects when there is nothing;  *)
(* after a failure not again before its backoff.                           *)
GetClient ==
    /\ client = NoClient /\ ~limited
    /\ connectLocked /\ limited' = ~Connected
    /\ UNCHANGED <<iam, fetched>>

stopRefreshLoopLocked ==
    /\ stopped' = stopped \cup ({refreshCancel} \ {NoLoop})
    /\ refreshCancel' = NoLoop /\ refreshLoopRunning' = FALSE
    /\ UNCHANGED <<refreshGeneration, lpc>>

closeClientLocked ==
    /\ registered' = registered \ {client} /\ openClients' = openClients \ {client}
    /\ client' = NoClient /\ connected' = IF client = NoClient THEN connected ELSE FALSE
    /\ UNCHANGED clientsMade

Close ==
    /\ ~shut /\ stopRefreshLoopLocked /\ closeClientLocked /\ shut' = TRUE
    /\ UNCHANGED <<iam, refreshErr, token, limited, due, fetched, Tokens>>

-----------------------------------------------------------------------------
(* refreshTick: the token is fetched without the lock.                     *)
refreshTick(l) ==
    /\ lpc[l] = "wait" /\ due
    /\ \/ /\ l \notin stopped /\ retrieveToken
          /\ fetched' = [fetched EXCEPT ![l] = issued + 1] /\ lpc' = [lpc EXCEPT ![l] = "apply"]
          /\ UNCHANGED refreshErr
       \/ refreshErr' = TRUE /\ UNCHANGED <<Tokens, fetched, lpc>>
    /\ UNCHANGED <<iam, client, connected, token, refreshLoopRunning, refreshCancel, refreshGeneration, limited, due,
                   stopped, Sockets, shut>>

(* The ping of reconnectLocked, under the context of the loop.             *)
reconnectPings(l) == l \notin stopped /\ Pings(fetched[l])

(* applyTokenAndReconnect and reconnectLocked: on failure the old token is *)
(* put back.                                                               *)
applyTokenAndReconnect(l) ==
    /\ lpc[l] = "apply" /\ lpc' = [lpc EXCEPT ![l] = "wait"] /\ fetched' = [fetched EXCEPT ![l] = NoToken]
    /\ \/ reconnectPings(l) /\ swapIn /\ token' = fetched[l] /\ due' = FALSE /\ refreshErr' = FALSE
       \/ refreshErr' = TRUE /\ UNCHANGED <<client, connected, token, due, Sockets>>
    /\ UNCHANGED <<iam, refreshLoopRunning, refreshCancel, refreshGeneration, limited, stopped, Tokens, shut>>

(* A loop that ends after its successor began leaves the flags alone.      *)
currentGeneration(l) == refreshGeneration = l

refreshTokenLoopEnds(l) ==
    /\ lpc[l] = "wait" /\ l \in stopped /\ lpc' = [lpc EXCEPT ![l] = "done"]
    /\ IF currentGeneration(l) THEN refreshCancel' = NoLoop /\ refreshLoopRunning' = FALSE
                               ELSE UNCHANGED <<refreshCancel, refreshLoopRunning>>
    /\ UNCHANGED <<iam, client, connected, refreshErr, token, refreshGeneration, limited, due, fetched, stopped,
                   Sockets, Tokens, shut>>

(* Time passes: a backoff, RefreshEvery, the life of the tokens.           *)
Passes ==
    /\ \/ limited /\ limited' = FALSE /\ UNCHANGED <<due, valid>>
       \/ iam /\ ~due /\ due' = TRUE /\ UNCHANGED <<limited, valid>>
       \/ due /\ valid # {} /\ valid' = {} /\ UNCHANGED <<limited, due>>
    /\ UNCHANGED <<iam, client, connected, refreshErr, token, Loop, fetched, Sockets, issued, shut>>

RedisNext ==
    \/ Connect \/ GetClient \/ Close \/ Passes
    \/ \E l \in Loops : refreshTick(l) \/ applyTokenAndReconnect(l) \/ refreshTokenLoopEnds(l)

RedisSpec == RedisInit /\ [][RedisNext]_rvars

-----------------------------------------------------------------------------
Refreshing == {l \in Loops : lpc[l] \in {"wait", "apply"} /\ l \notin stopped}

(* Whatever Connect, GetClient, Close and the loops interleave to: the     *)
(* only client that is open and observed is the current one; a closed      *)
(* client is not brought back by a loop that had a token in hand; and a    *)
(* client with IAM is refreshed by one loop, which Close can stop.         *)
RedisClientSound ==
    /\ RedisTypeOK
    /\ openClients = {client} \ {NoClient} /\ registered = openClients
    /\ shut => client = NoClient
    /\ connected => client # NoClient
    /\ Refreshing = {refreshCancel} \ {NoLoop} /\ refreshLoopRunning = (Refreshing # {})
    /\ iam /\ client # NoClient => Refreshing # {}
=============================================================================

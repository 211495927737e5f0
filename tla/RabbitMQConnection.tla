------------------------- MODULE RabbitMQConnection -------------------------
(***************************************************************************)
(* One RabbitMQConnection shared by goroutines that connect, ensure or     *)
(* open a channel, and close.  The state behind rc.mu is read, the broker  *)
(* is dialled without the lock, and the result is committed under it: a    *)
(* step is one holder of the lock, or one call to the broker.              *)
(***************************************************************************)
EXTENDS Naturals

CONSTANTS Users,      \* goroutines
          Plans,      \* what each of them calls
          MaxDials    \* connections that may be dialled

VARIABLES plan, Connection, Channel, Connected,
          reconnectAttempts,  \* 0: none failed; 1: some did
          cooling,    \* the last attempt is too recent for another
          dialled,    \* connections made so far
          alive,      \* those that are open
          chans,      \* open channels: [conn, by], by the user that opened them
          orphans,    \* ghost: connections a failed ConnectContext took from the shared state
          upc, snap, conn, got   \* each user: its step, the connection it saw, the one it uses, the channel it opened

cvars == <<plan, Connection, Channel, Connected, reconnectAttempts, cooling, dialled, alive, chans, orphans, upc, snap, conn, got>>

NoConn == 0
NoChan == [conn |-> NoConn, by |-> "nobody"]
Chan(u) == [conn |-> conn[u], by |-> u]

ConnectionTypeOK ==
    /\ Connection \in 0 .. dialled /\ Connected \in BOOLEAN /\ alive \subseteq 1 .. dialled
    /\ \A c \in chans : c.conn \in 1 .. dialled

(* Before, or after an earlier call that connected.                        *)
ConnectionInit ==
    /\ plan \in Plans
    /\ reconnectAttempts = 0 /\ cooling = FALSE /\ orphans = {}
    /\ \E warm \in 0 .. 1 :
         /\ Connection = warm /\ Connected = (warm = 1) /\ dialled = warm /\ alive = 1 .. warm
         /\ Channel = IF warm = 1 THEN [NoChan EXCEPT !.conn = 1] ELSE NoChan
         /\ chans = {Channel} \ {NoChan}
    /\ upc = [u \in Users |-> "start"] /\ snap = [u \in Users |-> NoConn]
    /\ conn = [u \in Users |-> NoConn] /\ got = [u \in Users |-> NoChan]

-----------------------------------------------------------------------------
State  == <<Connection, Channel, Connected>>
Broker == <<dialled, alive, chans>>
Limit  == <<reconnectAttempts, cooling>>
Mine   == <<snap, conn, got>>

GoTo(u, l)  == upc' = [upc EXCEPT ![u] = l]
Open(c)     == c \in chans /\ c.conn \in alive
Has(u, c)   == conn' = [conn EXCEPT ![u] = c]

needConnection == Connection \notin alive
needChannel    == needConnection \/ ~Open(Channel)

(* isFullyConnected *)
isFullyConnected == Connected /\ ~needChannel

(* Closing a connection closes its channels.                               *)
closeConnectionWith(c) == alive' = alive \ {c} /\ UNCHANGED <<dialled, chans>>

clearConnectionState == Connection' = NoConn /\ Channel' = NoChan /\ Connected' = FALSE

(* After a failed ConnectContext, whoever made what is cleared.            *)
ConnectFailed == clearConnectionState /\ orphans' = orphans \cup ({Connection} \cap alive)

Dial(u) ==
    /\ dialled < MaxDials /\ dialled' = dialled + 1 /\ alive' = alive \cup {dialled + 1}
    /\ Has(u, dialled + 1) /\ UNCHANGED chans

-----------------------------------------------------------------------------
(* ConnectContext: nothing to do when all is open.                         *)
ConnectContext(u) ==
    /\ upc[u] = "start" /\ plan[u] = "connect"
    /\ GoTo(u, IF isFullyConnected THEN "done" ELSE "dial")
    /\ UNCHANGED <<plan, orphans, State, Limit, Broker, Mine>>

(* dialAndOpenChannel, and the health check over HTTP.  Whatever fails, the*)
(* connection just made is closed and the shared state is cleared.         *)
dialAndOpenChannel(u) ==
    /\ upc[u] = "dial"
    /\ \/ Dial(u) /\ GoTo(u, "opened") /\ UNCHANGED <<State, orphans>>
       \/ GoTo(u, "done") /\ ConnectFailed /\ UNCHANGED <<Broker, conn>>
    /\ UNCHANGED <<plan, Limit, snap, got>>

healthCheck(u) ==
    /\ upc[u] = "opened"
    /\ \/ /\ conn[u] \in alive /\ chans' = chans \cup {Chan(u)} /\ got' = [got EXCEPT ![u] = Chan(u)]
          /\ GoTo(u, "connected") /\ UNCHANGED <<State, alive, orphans>>
       \/ /\ alive' = alive \ {conn[u]} /\ GoTo(u, "done")
          /\ ConnectFailed /\ UNCHANGED <<chans, got>>
    /\ UNCHANGED <<plan, Limit, dialled, snap, conn>>

(* A rival that connected meanwhile wins.                                  *)
rivalWon(u) == Connection \in alive /\ Connection # conn[u]

ConnectCommits(u) ==
    /\ upc[u] = "connected" /\ GoTo(u, "done")
    /\ \/ rivalWon(u) /\ closeConnectionWith(conn[u]) /\ UNCHANGED State
       \/ ~rivalWon(u) /\ Connection' = conn[u] /\ Channel' = got[u] /\ Connected' = TRUE /\ UNCHANGED Broker
    /\ UNCHANGED <<plan, orphans, Limit, Mine>>

-----------------------------------------------------------------------------
(* EnsureChannelContext, which GetNewConnectContext calls when the channel *)
(* is not open and OpenChannelContext always; an attempt too soon after a  *)
(* failed one is refused.                                                  *)
snapshotEnsureChannelState(u) ==
    /\ upc[u] = "start" /\ plan[u] \in {"ensure", "getNew", "open"}
    /\ \/ plan[u] = "getNew" /\ Connected /\ Open(Channel) /\ GoTo(u, "done") /\ UNCHANGED snap
       \/ needConnection /\ reconnectAttempts > 0 /\ cooling /\ GoTo(u, "done") /\ UNCHANGED snap
       \/ /\ ~(needConnection /\ reconnectAttempts > 0 /\ cooling)
          /\ snap' = [snap EXCEPT ![u] = Connection]
          /\ GoTo(u, IF ~needChannel THEN "ensured" ELSE IF needConnection THEN "redial" ELSE "reopen")
    /\ UNCHANGED <<plan, orphans, State, Limit, Broker, conn, got>>

EnsureChannelContext(u) ==
    /\ upc[u] = "redial" /\ cooling' = TRUE
    /\ \/ Dial(u) /\ GoTo(u, "newChannel") /\ UNCHANGED <<Connected, reconnectAttempts>>
       \/ GoTo(u, "done") /\ Connected' = FALSE /\ reconnectAttempts' = 1 /\ UNCHANGED <<Broker, conn>>
    /\ UNCHANGED <<plan, orphans, Connection, Channel, snap, got>>

(* The channel, on the new or on the existing connection.                  *)
OpensChannel(u) ==
    LET c == IF upc[u] = "reopen" THEN snap[u] ELSE conn[u] IN
    /\ upc[u] \in {"newChannel", "reopen"} /\ Has(u, c)
    /\ \/ /\ c \in alive /\ chans' = chans \cup {[conn |-> c, by |-> u]}
          /\ got' = [got EXCEPT ![u] = [conn |-> c, by |-> u]]
          /\ GoTo(u, IF upc[u] = "reopen" THEN "commitOld" ELSE "commitNew")
       \/ GoTo(u, IF upc[u] = "reopen" THEN "failOld" ELSE "failNew") /\ UNCHANGED <<chans, got>>
    /\ UNCHANGED <<plan, orphans, State, Limit, dialled, alive, snap>>

handleChannelFailure(u) ==
    /\ upc[u] \in {"failOld", "failNew"} /\ GoTo(u, "done")
    /\ alive' = IF upc[u] = "failNew" THEN alive \ {conn[u]} ELSE alive
    /\ Connection' = IF upc[u] = "failNew" /\ Connection = snap[u] THEN NoConn ELSE Connection
    /\ Channel' = NoChan /\ Connected' = FALSE
    /\ UNCHANGED <<plan, orphans, Limit, dialled, chans, Mine>>

commitNewConnection(u) ==
    /\ upc[u] = "commitNew" /\ GoTo(u, "ensured")
    /\ \/ rivalWon(u) /\ closeConnectionWith(conn[u]) /\ UNCHANGED <<State, reconnectAttempts>>
       \/ /\ ~rivalWon(u) /\ closeConnectionWith(Connection)
          /\ Connection' = conn[u] /\ Channel' = got[u] /\ Connected' = TRUE /\ reconnectAttempts' = 0
    /\ UNCHANGED <<plan, orphans, cooling, Mine>>

(* Is the connection the channel was opened on still the one in use?       *)
stillInUse(u) == Connection = snap[u] /\ Connection \in alive

commitChannelOnExistingConnection(u) ==
    /\ upc[u] = "commitOld" /\ GoTo(u, "ensured")
    /\ \/ stillInUse(u) /\ Channel' = got[u] /\ Connected' = TRUE /\ chans' = chans \ ({Channel} \ {got[u]})
       \/ ~stillInUse(u) /\ chans' = chans \ {got[u]} /\ UNCHANGED <<Channel, Connected>>
    /\ UNCHANGED <<plan, orphans, Connection, Limit, dialled, alive, Mine>>

(* GetNewConnectContext hands out the shared channel, if there is one.     *)
GetNewConnectContext(u) ==
    /\ upc[u] = "ensured" /\ plan[u] \in {"ensure", "getNew"} /\ GoTo(u, "done")
    /\ Connected' = (Connected /\ (plan[u] = "getNew" => Channel # NoChan))
    /\ UNCHANGED <<plan, orphans, Connection, Channel, Limit, Broker, Mine>>

(* OpenChannelContext opens one more, which the caller owns.               *)
OpenChannelContext(u) ==
    /\ upc[u] = "ensured" /\ plan[u] = "open"
    /\ GoTo(u, "done")
    /\ UNCHANGED <<plan, orphans, State, Limit, Broker, Mine>>

(* CloseContext: out of the shared state first, then closed.               *)
CloseContext(u) ==
    /\ upc[u] = "start" /\ plan[u] = "close"
    /\ clearConnectionState /\ Has(u, Connection) /\ GoTo(u, "closing")
    /\ UNCHANGED <<plan, orphans, Limit, Broker, snap, got>>

Closes(u) ==
    /\ upc[u] = "closing" /\ closeConnectionWith(conn[u]) /\ GoTo(u, "done")
    /\ UNCHANGED <<plan, orphans, State, Limit, Mine>>

(* The broker drops a connection or a channel; time passes.                *)
Drops ==
    /\ \/ \E c \in alive : alive' = alive \ {c} /\ UNCHANGED chans
       \/ Channel \in chans /\ chans' = chans \ {Channel} /\ UNCHANGED alive
    /\ UNCHANGED <<plan, orphans, State, Limit, dialled, upc, Mine>>

Cools == cooling /\ cooling' = FALSE /\ UNCHANGED <<plan, orphans, State, reconnectAttempts, Broker, upc, Mine>>

UserStep(u) ==
    \/ ConnectContext(u) \/ dialAndOpenChannel(u) \/ healthCheck(u) \/ ConnectCommits(u)
    \/ snapshotEnsureChannelState(u) \/ EnsureChannelContext(u) \/ OpensChannel(u) \/ handleChannelFailure(u)
    \/ commitNewConnection(u) \/ commitChannelOnExistingConnection(u)
    \/ GetNewConnectContext(u) \/ OpenChannelContext(u) \/ CloseContext(u) \/ Closes(u)

ConnectionNext == (\E u \in Users : UserStep(u)) \/ Drops \/ Cools

ConnectionSpec == ConnectionInit /\ [][ConnectionNext]_cvars

-----------------------------------------------------------------------------
(* A connection somebody still has in hand.                                *)
Held == {conn[u] : u \in {v \in Users : upc[v] \in {"opened", "connected", "newChannel", "failNew", "commitNew", "closing"}}}

(* A connection that is open is the shared one, or somebody is about to    *)
(* publish or to close it: what a goroutine that lost a race dialled is    *)
(* closed.  The one way to lose one: a ConnectContext that fails clears the*)
(* state another goroutine has meanwhile published.                        *)
LeaksByFailedConnectOnly == alive \subseteq {Connection} \cup Held \cup orphans

(* The shared channel is one of the shared connection: publishing on it    *)
(* never meets the socket of a connection that was replaced.               *)
ChannelOnConnection == Channel # NoChan => Channel.conn = Connection

(* What concurrent reconnection must preserve.                             *)
ConnectionSound == ConnectionTypeOK /\ ChannelOnConnection /\ LeaksByFailedConnectOnly
=============================================================================

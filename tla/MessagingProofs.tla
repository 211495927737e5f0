-------------------------- MODULE MessagingProofs --------------------------
(***************************************************************************)
(* Theorems about the parts that pass messages on: the dead letter queue,  *)
(* the RabbitMQ connection, the confirmable publisher and webhook          *)
(* delivery, for any number of consumers, messages, goroutines, publishes, *)
(* channels and endpoints.                                                 *)
(***************************************************************************)
EXTENDS DeadLetterQueue, ConfirmablePublisher, WebhookDelivery, FiniteSetTheorems, TLAPS

-----------------------------------------------------------------------------
(* The connection.                                                         *)

Holding == {"opened", "connected", "newChannel", "failNew", "commitNew", "closing"}
Labels  == Holding \cup {"start", "dial", "done", "ensured", "redial", "reopen", "commitOld", "failOld"}

(* What the variables are, and what each goroutine knows between two       *)
(* holds of the lock: the channel it opened is on the connection it is     *)
(* about to commit, and who redials saw a connection that is dead for good.*)
CTypes ==
    /\ dialled \in Nat /\ Connection \in Nat /\ Connection <= dialled
    /\ \A a \in alive : a \in Nat /\ 1 <= a /\ a <= dialled
    /\ \A c \in chans : c.conn \in Nat /\ 1 <= c.conn /\ c.conn <= dialled
    /\ snap \in [Users -> Nat] /\ conn \in [Users -> Nat]
    /\ \A u \in Users : snap[u] <= dialled /\ conn[u] <= dialled
    /\ got \in [Users -> [conn : Nat, by : Users \cup {"nobody"}]]
    /\ upc \in [Users -> Labels]

CLocal ==
    \A u \in Users :
        /\ upc[u] \in {"connected", "commitNew"} => got[u].conn = conn[u]
        /\ upc[u] = "commitOld" => got[u].conn = snap[u]
        /\ upc[u] \in {"redial", "newChannel", "failNew", "commitNew"} => snap[u] \notin alive

Kept ==
    \A a \in alive : a = Connection \/ a \in orphans \/ \E u \in Users : upc[u] \in Holding /\ conn[u] = a

CInv == CTypes /\ Connected \in BOOLEAN /\ CLocal /\ ChannelOnConnection /\ Kept

(* The goroutines' steps keep the types.                                   *)
LEMMA ConnectionTypes ==
    ASSUME CInv, ConnectionNext
    PROVE  CTypes'
<1>0. CTypes /\ CLocal
  BY DEF CInv
<1>1. ASSUME NEW u \in Users, UserStep(u) PROVE CTypes'
  <2> USE <1>0 DEF CTypes, Labels, Holding, GoTo, Has, NoConn, NoChan, Chan, State, Broker, Limit, Mine
  <2>1. CASE ConnectContext(u)
    BY <2>1 DEF ConnectContext
  <2>2. CASE dialAndOpenChannel(u)
    BY <2>2 DEF dialAndOpenChannel, Dial, ConnectFailed, clearConnectionState
  <2>3. CASE healthCheck(u)
    BY <2>3 DEF healthCheck, ConnectFailed, clearConnectionState
  <2>4. CASE ConnectCommits(u)
    BY <2>4 DEF ConnectCommits, closeConnectionWith
  <2>5. CASE snapshotEnsureChannelState(u)
    BY <2>5 DEF snapshotEnsureChannelState
  <2>6. CASE EnsureChannelContext(u)
    BY <2>6 DEF EnsureChannelContext, Dial
  <2>7. CASE OpensChannel(u)
    BY <2>7 DEF OpensChannel
  <2>8. CASE handleChannelFailure(u)
    BY <2>8 DEF handleChannelFailure
  <2>9. CASE commitNewConnection(u)
    BY <2>9 DEF commitNewConnection, closeConnectionWith
  <2>10. CASE commitChannelOnExistingConnection(u)
    BY <2>10 DEF commitChannelOnExistingConnection
  <2>11. CASE GetNewConnectContext(u)
    BY <2>11 DEF GetNewConnectContext
  <2>12. CASE OpenChannelContext(u)
    BY <2>12 DEF OpenChannelContext
  <2>13. CASE CloseContext(u)
    BY <2>13 DEF CloseContext, clearConnectionState
  <2>14. CASE Closes(u)
    BY <2>14 DEF Closes, closeConnectionWith
  <2> QED
    BY <1>1, <2>1, <2>2, <2>3, <2>4, <2>5, <2>6, <2>7, <2>8, <2>9, <2>10, <2>11, <2>12, <2>13, <2>14 DEF UserStep
<1>2. ASSUME Drops \/ Cools PROVE CTypes'
  BY <1>0, <1>2 DEF Drops, Cools, CTypes, State, Broker, Limit, Mine
<1> QED
  BY <1>1, <1>2 DEF ConnectionNext

LEMMA ConnectedIsBoolean ==
    ASSUME Connected \in BOOLEAN, ConnectionNext
    PROVE  Connected' \in BOOLEAN
BY DEF ConnectionNext, UserStep, ConnectContext, dialAndOpenChannel, healthCheck, ConnectCommits,
       snapshotEnsureChannelState, EnsureChannelContext, OpensChannel, handleChannelFailure,
       commitNewConnection, commitChannelOnExistingConnection, GetNewConnectContext, OpenChannelContext,
       CloseContext, Closes, Drops, Cools, ConnectFailed, clearConnectionState, State

(* They keep what each knows, the channel on its connection, and every     *)
(* open connection in somebody's keeping.                                  *)
LEMMA ConnectionKept ==
    ASSUME CInv, ConnectionNext
    PROVE  (CLocal /\ ChannelOnConnection /\ Kept)'
<1>0. CTypes /\ CLocal /\ ChannelOnConnection /\ Kept
  BY DEF CInv
<1>1. ASSUME NEW u \in Users, UserStep(u) PROVE (CLocal /\ ChannelOnConnection /\ Kept)'
  <2> USE <1>0 DEF CTypes, CLocal, ChannelOnConnection, Kept, Labels, Holding, GoTo, Has, NoConn, NoChan, Chan, State, Broker, Limit, Mine
  <2>1. CASE ConnectContext(u)
    BY <2>1 DEF ConnectContext
  <2>2. CASE dialAndOpenChannel(u)
    BY <2>2 DEF dialAndOpenChannel, Dial, ConnectFailed, clearConnectionState
  <2>3. CASE healthCheck(u)
    BY <2>3 DEF healthCheck, ConnectFailed, clearConnectionState
  <2>4. CASE ConnectCommits(u)
    BY <2>4 DEF ConnectCommits, closeConnectionWith, rivalWon
  <2>5. CASE snapshotEnsureChannelState(u)
    BY <2>5 DEF snapshotEnsureChannelState, needConnection, needChannel
  <2>6. CASE EnsureChannelContext(u)
    BY <2>6 DEF EnsureChannelContext, Dial
  <2>7. CASE OpensChannel(u)
    BY <2>7 DEF OpensChannel
  <2>8. CASE handleChannelFailure(u)
    BY <2>8 DEF handleChannelFailure
  <2>9. CASE commitNewConnection(u)
    BY <2>9 DEF commitNewConnection, closeConnectionWith, rivalWon
  <2>10. CASE commitChannelOnExistingConnection(u)
    BY <2>10 DEF commitChannelOnExistingConnection, stillInUse
  <2>11. CASE GetNewConnectContext(u)
    BY <2>11 DEF GetNewConnectContext
  <2>12. CASE OpenChannelContext(u)
    BY <2>12 DEF OpenChannelContext
  <2>13. CASE CloseContext(u)
    BY <2>13 DEF CloseContext, clearConnectionState
  <2>14. CASE Closes(u)
    BY <2>14 DEF Closes, closeConnectionWith
  <2> QED
    BY <1>1, <2>1, <2>2, <2>3, <2>4, <2>5, <2>6, <2>7, <2>8, <2>9, <2>10, <2>11, <2>12, <2>13, <2>14 DEF UserStep
<1>2. ASSUME Drops \/ Cools PROVE (CLocal /\ ChannelOnConnection /\ Kept)'
  BY <1>0, <1>2 DEF Drops, Cools, CTypes, CLocal, ChannelOnConnection, Kept, State, Broker, Limit, Mine
<1> QED
  BY <1>1, <1>2 DEF ConnectionNext

(* Concurrent connects, reconnects and closes leave no connection open     *)
(* that nobody owns, except through a failed ConnectContext, and never a   *)
(* channel of a connection that was replaced (EnsureChannelContext,        *)
(* commitNewConnection, CloseContext).                                     *)
THEOREM ConnectionSoundHolds == ConnectionSpec => []ConnectionSound
<1>1. ConnectionInit => CInv
  <2> SUFFICES ASSUME ConnectionInit PROVE CInv
    OBVIOUS
  <2>1. PICK warm \in 0 .. 1 :
          /\ Connection = warm /\ Connected = (warm = 1) /\ dialled = warm /\ alive = 1 .. warm
          /\ Channel = IF warm = 1 THEN [NoChan EXCEPT !.conn = 1] ELSE NoChan
          /\ chans = {Channel} \ {NoChan}
    BY DEF ConnectionInit
  <2>2. CTypes
    BY <2>1 DEF ConnectionInit, CTypes, Labels, Holding, NoConn, NoChan
  <2>3. CLocal /\ ChannelOnConnection /\ Kept
    BY <2>1 DEF ConnectionInit, CLocal, ChannelOnConnection, Kept, NoConn, NoChan
  <2>4. Connected \in BOOLEAN
    BY <2>1
  <2> QED
    BY <2>2, <2>3, <2>4 DEF CInv
<1>2. CInv /\ [ConnectionNext]_cvars => CInv'
  <2>1. CASE ConnectionNext
    BY <2>1, ConnectionTypes, ConnectedIsBoolean, ConnectionKept DEF CInv
  <2>2. CASE UNCHANGED cvars
    BY <2>2 DEF cvars, CInv, CTypes, CLocal, ChannelOnConnection, Kept
  <2> QED
    BY <2>1, <2>2
<1>3. CInv => ConnectionSound
  BY DEF CInv, CTypes, Kept, ConnectionSound, ConnectionTypeOK, LeaksByFailedConnectOnly, Held, Holding
<1> QED
  BY <1>1, <1>2, <1>3, PTL DEF ConnectionSpec

-----------------------------------------------------------------------------
(* The publisher.                                                          *)

Publishing == {"wait", "acked", "invalidate"}
Recovering == {"attempt", "provider", "reconnect"}
Active     == {"watch", "prepare"} \cup Recovering

PNumbers ==
    /\ setup \in Setups /\ made \in Nat /\ 1 <= made /\ made <= MaxChannels
    /\ current \in Nat /\ 1 <= current /\ current <= made /\ (ch = 0 \/ ch = current)
    /\ \A c \in open : c \in Nat /\ 1 <= c /\ c <= made
    /\ \A c \in signalled : c \in Nat /\ 1 <= c /\ c <= made

PWires ==
    /\ inbox \in [Channels -> Seq(Publishes)] /\ confirms \in [Channels -> Seq({"ack", "nack"})]
    /\ returns \in [Channels -> Seq(Publishes)] /\ delivered \subseteq Publishes

PControl ==
    /\ mpc \in [Publishes -> Publishing \cup {"idle", "ok", "failed"}]
    /\ wpc \in [Channels -> Active \cup {"off", "emit"}]
    /\ wdone \in [Channels -> Nat] /\ attempt \in [Channels -> Nat] /\ fresh \in [Channels -> Nat]
    /\ done \in Nat /\ rch \in Nat
    /\ rpc \in [left : Nat, at : {"idle", "reconnect"}]

Health == health \in {"connected", "reconnecting", "disconnected", "degraded"}

(* Whoever holds publishMu is the one publish under way.                   *)
HolderOK ==
    \A m \in Publishes : publishMu = m <=> mpc[m] \in Publishing

(* Its message is at the broker or its answer is on the way, and nothing   *)
(* else is; an acknowledgement is preceded by the delivery or the return.  *)
Answerable(m) == m \in delivered \/ returns[current] # <<>>

WireOK ==
    /\ \A m \in Publishes : mpc[m] = "wait" =>
         \/ inbox[current] = <<m>> /\ confirms[current] = <<>>
         \/ inbox[current] = <<>> /\ confirms[current] = <<"nack">>
         \/ inbox[current] = <<>> /\ confirms[current] = <<"ack">> /\ Answerable(m)
    /\ \A m \in Publishes : mpc[m] = "acked" =>
         inbox[current] = <<>> /\ confirms[current] = <<>> /\ Answerable(m)
    /\ publishMu = Free /\ ~closed /\ current \in open => inbox[current] = <<>> /\ confirms[current] = <<>>

ClosedOK ==
    /\ current \in signalled => closed
    /\ \A m \in Publishes : mpc[m] = "invalidate" => closed
    /\ shutdown => closed /\ ch \notin open

(* A channel that was opened and is not in use yet.                        *)
Unused(n) ==
    /\ n # current /\ n \notin signalled /\ wpc[n] = "off"
    /\ inbox[n] = <<>> /\ confirms[n] = <<>>

FreshOK ==
    /\ \A n \in Channels : made < n => Unused(n)
    /\ \A w \in Channels : wpc[w] = "reconnect" => fresh[w] \in Channels /\ fresh[w] <= made /\ Unused(fresh[w])
    /\ rpc.at = "reconnect" => rch \in Channels /\ rch <= made /\ Unused(rch)
    /\ \A v, w \in Channels : wpc[v] = "reconnect" /\ wpc[w] = "reconnect" /\ fresh[v] = fresh[w] => v = w
    /\ \A w \in Channels : wpc[w] = "reconnect" /\ rpc.at = "reconnect" => fresh[w] # rch

(* Without Reconnect by the application one monitor at a time is at work,  *)
(* and every open channel is in somebody's keeping.                        *)
AloneOK ==
    setup.reconnects = 0 =>
        /\ rpc.left = 0 /\ rpc.at = "idle"
        /\ \A v, w \in Channels : wpc[v] \in Active /\ wpc[w] \in Active => v = w
        /\ \A w \in Channels : wpc[w] \in Recovering => ch = 0
        /\ \A c \in open :
             \/ c = ch
             \/ \E w \in Channels : wpc[w] = "reconnect" /\ fresh[w] = c
             \/ c = current /\ \E m \in Publishes : mpc[m] = "invalidate"

PInv == PNumbers /\ PWires /\ PControl /\ Health /\ HolderOK /\ WireOK /\ ClosedOK /\ FreshOK /\ AloneOK /\ SuccessIsOwn

LEMMA OneElement ==
    ASSUME NEW S, NEW x \in S
    PROVE  /\ <<x>> \in Seq(S) /\ <<x>> # <<>> /\ Append(<<>>, x) = <<x>>
           /\ Head(<<x>>) = x /\ Tail(<<x>>) = <<>>
OBVIOUS

LEMMA Appended ==
    ASSUME NEW S, NEW s \in Seq(S), NEW x \in S
    PROVE  Append(s, x) \in Seq(S) /\ Append(s, x) # <<>>
<1>1. Len(Append(s, x)) = Len(s) + 1 /\ Len(s) \in Nat /\ Len(<<>>) = 0
  OBVIOUS
<1> QED
  BY <1>1

LEMMA WithoutFirst ==
    ASSUME NEW S, NEW s \in Seq(S), s # <<>>
    PROVE  Tail(s) \in Seq(S) /\ Head(s) \in S
OBVIOUS

LEMMA PublisherNumbers ==
    ASSUME PInv, PublisherNext
    PROVE  PNumbers'
<1>0. PNumbers /\ FreshOK
  BY DEF PInv
<1> USE <1>0 DEF PNumbers, Signals, Flags, Wire, Chans, Monitor, Callers
<1>1. ASSUME NEW m \in Publishes, MessageStep(m) PROVE PNumbers'
  BY <1>1 DEF MessageStep, PublishAndWaitConfirm, waitForConfirm, WaitEnds, WaitTimesOut, invalidateChannel, Acked
<1>2. ASSUME NEW c \in Channels, Answers(c) \/ Dies(c) PROVE PNumbers'
  BY <1>2 DEF Answers, Dies
<1>3. ASSUME NEW w \in Channels, MonitorStep(w) PROVE PNumbers'
  <2>1. CASE handleMonitoredClose(w) \/ prepareForRecovery(w) \/ executeRecoveryAttempt(w) \/ EmitsConnected(w)
    BY <2>1 DEF handleMonitoredClose, prepareForRecovery, executeRecoveryAttempt, EmitsConnected
  <2>2. CASE tryReconnectChannel(w)
    BY <2>2, PublisherAssumption DEF tryReconnectChannel, NewChannel
  <2>3. CASE RecoveryReconnects(w)
    BY <2>3 DEF RecoveryReconnects, Replaces, Refused, FreshOK
  <2> QED
    BY <1>3, <2>1, <2>2, <2>3 DEF MonitorStep
<1>4. CASE OpensFresh
  BY <1>4, PublisherAssumption DEF OpensFresh, NewChannel
<1>5. CASE Reconnect
  BY <1>5 DEF Reconnect, Replaces, Refused, FreshOK
<1>6. CASE Close
  BY <1>6 DEF Close
<1> QED
  BY <1>1, <1>2, <1>3, <1>4, <1>5, <1>6 DEF PublisherNext

LEMMA PublisherWires ==
    ASSUME PInv, PublisherNext
    PROVE  PWires'
<1>0. PWires /\ current \in Channels /\ (ch = 0 \/ ch = current) /\ 0 \notin open
  BY PublisherAssumption DEF PInv, PNumbers, Channels
<1> USE <1>0 DEF PWires, Append1, Signals, Flags, Wire, Chans, Monitor, Callers
<1>1. ASSUME NEW m \in Publishes, MessageStep(m) PROVE PWires'
  <2>1. CASE PublishAndWaitConfirm(m)
    <3>1. Append(inbox[current], m) \in Seq(Publishes)
      BY Appended
    <3>2. <<>> \in Seq(Publishes)
      OBVIOUS
    <3>3. CASE ch \in open
      <4>1. ch = current
        BY <3>3
      <4>2. inbox' = inbox \/ inbox' = [inbox EXCEPT ![current] = Append(inbox[current], m)]
        BY <2>1, <4>1 DEF PublishAndWaitConfirm
      <4>3. returns' = returns \/ returns' = [returns EXCEPT ![current] = <<>>]
        BY <2>1 DEF PublishAndWaitConfirm
      <4> QED
        BY <2>1, <3>1, <3>2, <4>2, <4>3 DEF PublishAndWaitConfirm
    <3>4. CASE ch \notin open
      BY <2>1, <3>2, <3>4 DEF PublishAndWaitConfirm
    <3> QED
      BY <3>3, <3>4
  <2>2. CASE waitForConfirm(m)
    <3>1. Tail(confirms[current]) \in Seq({"ack", "nack"})
      BY <2>2, WithoutFirst DEF waitForConfirm
    <3> QED
      BY <2>2, <3>1 DEF waitForConfirm
  <2>3. CASE WaitEnds(m) \/ WaitTimesOut(m) \/ invalidateChannel(m)
    BY <2>3 DEF WaitEnds, WaitTimesOut, invalidateChannel
  <2>4. CASE Acked(m)
    <3>1. returns[current] # <<>> => Tail(returns[current]) \in Seq(Publishes)
      BY WithoutFirst
    <3> QED
      BY <2>4, <3>1 DEF Acked, takeReturn
  <2> QED
    BY <1>1, <2>1, <2>2, <2>3, <2>4 DEF MessageStep
<1>2. ASSUME NEW c \in Channels, Answers(c) PROVE PWires'
  <2>1. Head(inbox[c]) \in Publishes /\ Tail(inbox[c]) \in Seq(Publishes)
    BY <1>2, WithoutFirst DEF Answers
  <2>2. Append(confirms[c], "ack") \in Seq({"ack", "nack"}) /\ Append(confirms[c], "nack") \in Seq({"ack", "nack"})
    BY Appended
  <2>3. Append(returns[c], Head(inbox[c])) \in Seq(Publishes)
    BY <2>1, Appended
  <2> QED
    BY <1>2, <2>1, <2>2, <2>3 DEF Answers
<1>3. ASSUME NEW w \in Channels, Dies(w) \/ MonitorStep(w) PROVE PWires'
  BY <1>3 DEF Dies, MonitorStep, handleMonitoredClose, prepareForRecovery, executeRecoveryAttempt,
              tryReconnectChannel, RecoveryReconnects, EmitsConnected
<1>4. CASE OpensFresh \/ Reconnect \/ Close
  BY <1>4 DEF OpensFresh, Reconnect, Close
<1> QED
  BY <1>1, <1>2, <1>3, <1>4 DEF PublisherNext

LEMMA PublisherControl ==
    ASSUME PInv, PublisherNext
    PROVE  PControl'
<1>0. PControl /\ FreshOK /\ made \in Nat
  BY DEF PInv, PNumbers
<1> USE <1>0 DEF PControl, Publishing, Recovering, Active, Ends, Watcher, Signals, Flags, Wire, Chans, Monitor, Callers
<1>1. ASSUME NEW m \in Publishes, MessageStep(m) PROVE PControl'
  BY <1>1 DEF MessageStep, PublishAndWaitConfirm, waitForConfirm, WaitEnds, WaitTimesOut, invalidateChannel, Acked
<1>2. ASSUME NEW c \in Channels, Answers(c) \/ Dies(c) PROVE PControl'
  BY <1>2 DEF Answers, Dies
<1>3. ASSUME NEW w \in Channels, MonitorStep(w) PROVE PControl'
  <2>1. CASE handleMonitoredClose(w) \/ executeRecoveryAttempt(w) \/ EmitsConnected(w)
    BY <2>1 DEF handleMonitoredClose, executeRecoveryAttempt, EmitsConnected
  <2>2. CASE prepareForRecovery(w)
    BY <2>2 DEF prepareForRecovery
  <2>3. CASE tryReconnectChannel(w)
    BY <2>3 DEF tryReconnectChannel, NewChannel
  <2>4. CASE RecoveryReconnects(w)
    BY <2>4 DEF RecoveryReconnects, Replaces, Refused, FreshOK
  <2> QED
    BY <1>3, <2>1, <2>2, <2>3, <2>4 DEF MonitorStep
<1>4. CASE OpensFresh
  BY <1>4 DEF OpensFresh, NewChannel
<1>5. CASE Reconnect
  BY <1>5 DEF Reconnect, Replaces, Refused, FreshOK
<1>6. CASE Close
  BY <1>6 DEF Close
<1> QED
  BY <1>1, <1>2, <1>3, <1>4, <1>5, <1>6 DEF PublisherNext
LEMMA PublisherHolder ==
    ASSUME PInv, PublisherNext
    PROVE  Health' /\ HolderOK' /\ SuccessIsOwn'
<1>0. mpc \in [Publishes -> Publishing \cup {"idle", "ok", "failed"}] /\ HolderOK /\ Free \notin Publishes
  BY PublisherAssumption DEF PInv, PControl, Free
<1>1. Health'
  <2> USE DEF Health
  <2>1. Health
    BY DEF PInv
  <2>2. ASSUME NEW m \in Publishes, MessageStep(m) PROVE Health'
    BY <2>1, <2>2 DEF MessageStep, PublishAndWaitConfirm, waitForConfirm, WaitEnds, WaitTimesOut, invalidateChannel, Acked
  <2>3. ASSUME NEW c \in Channels, Answers(c) \/ Dies(c) \/ MonitorStep(c) PROVE Health'
    BY <2>1, <2>3 DEF Answers, Dies, MonitorStep, handleMonitoredClose, prepareForRecovery, executeRecoveryAttempt,
                      tryReconnectChannel, RecoveryReconnects, Replaces, EmitsConnected
  <2>4. CASE OpensFresh \/ Reconnect \/ Close
    BY <2>1, <2>4 DEF OpensFresh, Reconnect, Replaces, Close
  <2> QED
    BY <2>2, <2>3, <2>4 DEF PublisherNext
<1>2. HolderOK'
  <2> USE <1>0 DEF HolderOK, Publishing, Ends
  <2>1. ASSUME NEW m \in Publishes, MessageStep(m) PROVE HolderOK'
    <3>1. CASE PublishAndWaitConfirm(m)
      BY <3>1 DEF PublishAndWaitConfirm
    <3>2. CASE waitForConfirm(m)
      BY <3>2 DEF waitForConfirm
    <3>3. CASE WaitEnds(m)
      BY <3>3 DEF WaitEnds
    <3>4. CASE WaitTimesOut(m)
      BY <3>4 DEF WaitTimesOut
    <3>5. CASE invalidateChannel(m)
      BY <3>5 DEF invalidateChannel
    <3>6. CASE Acked(m)
      BY <3>6 DEF Acked
    <3> QED
      BY <2>1, <3>1, <3>2, <3>3, <3>4, <3>5, <3>6 DEF MessageStep
  <2>2. ASSUME NEW c \in Channels, Answers(c) \/ Dies(c) \/ MonitorStep(c) PROVE HolderOK'
    BY <2>2 DEF Answers, Dies, MonitorStep, handleMonitoredClose, prepareForRecovery, executeRecoveryAttempt,
                tryReconnectChannel, RecoveryReconnects, EmitsConnected
  <2>3. CASE OpensFresh \/ Reconnect \/ Close
    BY <2>3 DEF OpensFresh, Reconnect, Close
  <2> QED
    BY <2>1, <2>2, <2>3 DEF PublisherNext
<1>3. SuccessIsOwn'
  <2> USE <1>0 DEF SuccessIsOwn, Publishing, Ends
  <2>0. SuccessIsOwn /\ WireOK
    BY DEF PInv
  <2>1. ASSUME NEW m \in Publishes, MessageStep(m) PROVE SuccessIsOwn'
    <3>1. CASE PublishAndWaitConfirm(m)
      BY <2>0, <3>1 DEF PublishAndWaitConfirm
    <3>2. CASE waitForConfirm(m)
      BY <2>0, <3>2 DEF waitForConfirm
    <3>3. CASE WaitEnds(m)
      BY <2>0, <3>3 DEF WaitEnds, Wire
    <3>4. CASE WaitTimesOut(m)
      BY <2>0, <3>4 DEF WaitTimesOut, Wire
    <3>5. CASE invalidateChannel(m)
      BY <2>0, <3>5 DEF invalidateChannel, Wire
    <3>6. CASE Acked(m)
      BY <2>0, <3>6 DEF Acked, takeReturn, WireOK, Answerable
    <3> QED
      BY <2>1, <3>1, <3>2, <3>3, <3>4, <3>5, <3>6 DEF MessageStep
  <2>2. ASSUME NEW c \in Channels, Answers(c) \/ Dies(c) \/ MonitorStep(c) PROVE SuccessIsOwn'
    BY <2>0, <2>2 DEF Answers, Dies, MonitorStep, handleMonitoredClose, prepareForRecovery, executeRecoveryAttempt,
                      tryReconnectChannel, RecoveryReconnects, EmitsConnected, Wire
  <2>3. CASE OpensFresh \/ Reconnect \/ Close
    BY <2>0, <2>3 DEF OpensFresh, Reconnect, Close, Wire
  <2> QED
    BY <2>1, <2>2, <2>3 DEF PublisherNext
<1> QED
  BY <1>1, <1>2, <1>3

LEMMA PublisherWireOK ==
    ASSUME PInv, PublisherNext
    PROVE  WireOK'
<1>0. PNumbers /\ PWires /\ PControl /\ HolderOK /\ WireOK /\ ClosedOK /\ FreshOK /\ Free \notin Publishes
  BY PublisherAssumption DEF PInv, Free
<1>c. current \in Channels /\ 0 \notin open
  BY <1>0, PublisherAssumption DEF PNumbers, Channels
<1>1. ASSUME NEW m \in Publishes, MessageStep(m) PROVE WireOK'
  <2>0. \A n \in Publishes : n # m /\ publishMu = m => mpc[n] \notin Publishing
    BY <1>0 DEF HolderOK
  <2>1. CASE PublishAndWaitConfirm(m)
    <3>1. publishMu = Free /\ \A n \in Publishes : mpc[n] \notin Publishing
      BY <1>0, <2>1 DEF PublishAndWaitConfirm, HolderOK
    <3>2. \A n \in Publishes \ {m} : mpc'[n] = mpc[n]
      BY <1>0, <2>1 DEF PublishAndWaitConfirm, Ends, PControl
    <3>3. CASE publishMu' = m
      <4>1. ~closed /\ ch = current /\ current \in open /\ mpc'[m] = "wait"
        BY <1>0, <1>c, <2>1, <3>1, <3>3 DEF PublishAndWaitConfirm, Ends, PControl, PNumbers, Flags
      <4>2. inbox' = [inbox EXCEPT ![current] = Append(inbox[current], m)] /\ UNCHANGED <<confirms, current>>
        BY <2>1, <1>0, <3>1, <3>3, <4>1 DEF PublishAndWaitConfirm, Append1
      <4>3. inbox[current] = <<>> /\ confirms[current] = <<>>
        BY <1>0, <3>1, <4>1 DEF WireOK
      <4>4. inbox'[current] = <<m>>
        BY <1>0, <1>c, <4>2, <4>3, OneElement DEF PWires
      <4> QED
        BY <1>0, <3>1, <3>2, <3>3, <4>1, <4>2, <4>3, <4>4 DEF WireOK, Publishing
    <3>4. CASE publishMu' # m
      BY <1>0, <2>1, <3>1, <3>2, <3>4 DEF PublishAndWaitConfirm, WireOK, Publishing, Ends, PControl, Flags, Chans
    <3> QED
      BY <3>3, <3>4
  <2>2. CASE waitForConfirm(m)
    <3>1. publishMu = m
      BY <1>0, <2>2 DEF waitForConfirm, HolderOK, Publishing
    <3>2. /\ inbox[current] = <<>> /\ inbox' = inbox /\ returns' = returns /\ UNCHANGED <<current, delivered>>
          /\ \/ confirms[current] = <<"nack">>
             \/ confirms[current] = <<"ack">> /\ Answerable(m)
      BY <1>0, <2>2 DEF waitForConfirm, WireOK
    <3>3. confirms'[current] = <<>>
      BY <1>0, <1>c, <2>2, <3>2, OneElement DEF waitForConfirm, PWires
    <3>h. Head(<<"nack">>) = "nack" /\ Head(<<"ack">>) = "ack"
      OBVIOUS
    <3>4. /\ mpc'[m] = "failed" \/ (mpc'[m] = "acked" /\ Answerable(m))
          /\ \A n \in Publishes \ {m} : mpc'[n] = mpc[n]
      <4>1. CASE confirms[current] = <<"nack">>
        <5>1. Head(confirms[current]) = "nack" /\ Head(confirms[current]) # "ack"
          BY <3>h, <4>1
        <5>2. mpc' = [mpc EXCEPT ![m] = "failed"]
          BY <2>2, <5>1 DEF waitForConfirm, Ends
        <5> QED
          BY <1>0, <5>2 DEF PControl
      <4>2. CASE confirms[current] = <<"ack">> /\ Answerable(m)
        BY <1>0, <2>2, <3>h, <4>2 DEF waitForConfirm, Ends, PControl
      <4> QED
        BY <3>2, <4>1, <4>2
    <3> QED
      BY <2>0, <3>1, <3>2, <3>3, <3>4 DEF WireOK, Answerable, Publishing
  <2>3. CASE WaitEnds(m)
    <3>1. publishMu = m
      BY <1>0, <2>3 DEF WaitEnds, HolderOK, Publishing
    <3>2. closed \/ current \notin open
      BY <1>0, <2>3 DEF WaitEnds, ClosedOK
    <3> QED
      BY <1>0, <2>0, <2>3, <3>1, <3>2 DEF WaitEnds, WireOK, Answerable, Publishing, Ends, PControl, Wire, Flags, Chans
  <2>4. CASE WaitTimesOut(m)
    <3>1. publishMu = m
      BY <1>0, <2>4 DEF WaitTimesOut, HolderOK, Publishing
    <3> QED
      BY <1>0, <2>0, <2>4, <3>1 DEF WaitTimesOut, isConfirmStreamCorrupted, WireOK, Answerable, Publishing, Ends, PControl, Wire, Chans
  <2>5. CASE invalidateChannel(m)
    <3>1. publishMu = m /\ closed
      BY <1>0, <2>5 DEF invalidateChannel, HolderOK, Publishing, ClosedOK
    <3> QED
      BY <1>0, <2>0, <2>5, <3>1 DEF invalidateChannel, WireOK, Answerable, Publishing, Ends, PControl, Wire, Flags
  <2>6. CASE Acked(m)
    <3>1. publishMu = m
      BY <1>0, <2>6 DEF Acked, HolderOK, Publishing
    <3> QED
      BY <1>0, <2>0, <2>6, <3>1 DEF Acked, WireOK, Publishing, Ends, PControl
  <2> QED
    BY <1>1, <2>1, <2>2, <2>3, <2>4, <2>5, <2>6 DEF MessageStep
<1>2. ASSUME NEW c \in Channels, Answers(c) PROVE WireOK'
  <2>0. /\ UNCHANGED <<current, mpc, publishMu, open, closed>> /\ delivered \subseteq delivered'
        /\ \A d \in Channels : d # c => inbox'[d] = inbox[d] /\ confirms'[d] = confirms[d] /\ returns'[d] = returns[d]
    BY <1>0, <1>2 DEF Answers, Append1, PWires, Flags, Chans
  <2>1. CASE c # current
    BY <1>0, <1>c, <2>0, <2>1 DEF WireOK, Answerable
  <2>2. CASE c = current
    <3>1. inbox[current] # <<>> /\ current \in open
      BY <1>2, <2>2 DEF Answers
    <3>2. \A m \in Publishes : mpc[m] # "acked" /\ (mpc[m] = "wait" => inbox[current] = <<m>> /\ confirms[current] = <<>>)
      BY <1>0, <3>1 DEF WireOK
    <3>3. ASSUME NEW m \in Publishes, mpc[m] = "wait"
          PROVE  /\ inbox'[current] = <<>>
                 /\ \/ confirms'[current] = <<"nack">>
                    \/ confirms'[current] = <<"ack">> /\ (m \in delivered' \/ returns'[current] # <<>>)
      <4>1. inbox[current] = <<m>> /\ confirms[current] = <<>> /\ Head(inbox[current]) = m /\ Tail(inbox[current]) = <<>>
        BY <3>2, <3>3, OneElement
      <4>2. Append(<<>>, "ack") = <<"ack">> /\ Append(<<>>, "nack") = <<"nack">>
        BY OneElement
      <4>3. returns[current] \in Seq(Publishes) /\ Append(returns[current], m) # <<>>
        BY <1>0, <1>c, Appended DEF PWires
      <4> QED
        BY <1>0, <1>c, <1>2, <2>2, <4>1, <4>2, <4>3 DEF Answers, Append1, PWires
    <3>4. ~(publishMu = Free /\ ~closed)
      BY <1>0, <3>1 DEF WireOK
    <3> QED
      BY <2>0, <3>2, <3>3, <3>4 DEF WireOK, Answerable
  <2> QED
    BY <2>1, <2>2
<1>3. ASSUME NEW w \in Channels, Dies(w) PROVE WireOK'
  BY <1>0, <1>3 DEF Dies, WireOK, Answerable, Wire, Flags
<1>4. ASSUME NEW w \in Channels, MonitorStep(w) PROVE WireOK'
  <2>1. CASE handleMonitoredClose(w)
    BY <1>0, <2>1 DEF handleMonitoredClose, WireOK, Answerable, Wire, Chans
  <2>2. CASE prepareForRecovery(w)
    BY <1>0, <2>2 DEF prepareForRecovery, WireOK, Answerable, Wire
  <2>3. CASE executeRecoveryAttempt(w)
    BY <1>0, <2>3 DEF executeRecoveryAttempt, WireOK, Answerable, Wire, Chans
  <2>4. CASE tryReconnectChannel(w)
    <3>1. current \in open' => current \in open
      BY <1>0, <2>4 DEF tryReconnectChannel, NewChannel, PNumbers, Chans
    <3> QED
      BY <1>0, <2>4, <3>1 DEF tryReconnectChannel, WireOK, Answerable, Wire, Flags
  <2>5. CASE RecoveryReconnects(w)
    <3>1. publishMu = Free /\ \A n \in Publishes : mpc[n] \notin Publishing
      BY <1>0, <2>5 DEF RecoveryReconnects, HolderOK
    <3>2. inbox[fresh[w]] = <<>> /\ confirms[fresh[w]] = <<>>
      BY <1>0, <2>5 DEF RecoveryReconnects, FreshOK, Unused
    <3> QED
      BY <1>0, <2>5, <3>1, <3>2 DEF RecoveryReconnects, Replaces, WireOK, Publishing, Wire
  <2>6. CASE EmitsConnected(w)
    BY <1>0, <2>6 DEF EmitsConnected, WireOK, Answerable, Wire, Chans, Flags
  <2> QED
    BY <1>4, <2>1, <2>2, <2>3, <2>4, <2>5, <2>6 DEF MonitorStep
<1>5. CASE OpensFresh
  <2>1. current \in open' => current \in open
    BY <1>0, <1>5 DEF OpensFresh, NewChannel, PNumbers
  <2> QED
    BY <1>0, <1>5, <2>1 DEF OpensFresh, WireOK, Answerable, Wire, Flags
<1>6. CASE Reconnect
  <2>1. publishMu = Free /\ \A n \in Publishes : mpc[n] \notin Publishing
    BY <1>0, <1>6 DEF Reconnect, HolderOK
  <2>2. inbox[rch] = <<>> /\ confirms[rch] = <<>>
    BY <1>0, <1>6 DEF Reconnect, FreshOK, Unused
  <2> QED
    BY <1>0, <1>6, <2>1, <2>2 DEF Reconnect, Replaces, WireOK, Publishing, Wire
<1>7. CASE Close
  BY <1>0, <1>7 DEF Close, WireOK, Answerable, Wire
<1> QED
  BY <1>1, <1>2, <1>3, <1>4, <1>5, <1>6, <1>7 DEF PublisherNext
LEMMA PublisherClosedOK ==
    ASSUME PInv, PublisherNext
    PROVE  ClosedOK'
<1>0. PNumbers /\ mpc \in [Publishes -> Publishing \cup {"idle", "ok", "failed"}] /\ HolderOK /\ ClosedOK /\ FreshOK
      /\ Free \notin Publishes
  BY PublisherAssumption DEF PInv, PControl, Free
<1> USE <1>0 DEF ClosedOK, Flags, Signals, Chans
<1>1. ASSUME NEW m \in Publishes, MessageStep(m) PROVE ClosedOK'
  <2> USE DEF Publishing, Ends
  <2>1. CASE PublishAndWaitConfirm(m)
    BY <2>1 DEF PublishAndWaitConfirm
  <2>2. CASE waitForConfirm(m)
    BY <2>2 DEF waitForConfirm
  <2>3. CASE WaitEnds(m)
    BY <2>3 DEF WaitEnds
  <2>4. CASE WaitTimesOut(m)
    BY <2>4 DEF WaitTimesOut, isConfirmStreamCorrupted, PNumbers
  <2>5. CASE invalidateChannel(m)
    BY <2>5 DEF invalidateChannel
  <2>6. CASE Acked(m)
    BY <2>6 DEF Acked
  <2> QED
    BY <1>1, <2>1, <2>2, <2>3, <2>4, <2>5, <2>6 DEF MessageStep
<1>2. ASSUME NEW c \in Channels, Answers(c) \/ Dies(c) PROVE ClosedOK'
  BY <1>2 DEF Answers, Dies
<1>3. ASSUME NEW w \in Channels, MonitorStep(w) PROVE ClosedOK'
  <2>1. CASE handleMonitoredClose(w)
    BY <2>1 DEF handleMonitoredClose
  <2>2. CASE prepareForRecovery(w)
    BY <2>2 DEF prepareForRecovery
  <2>3. CASE executeRecoveryAttempt(w) \/ EmitsConnected(w)
    BY <2>3 DEF executeRecoveryAttempt, EmitsConnected
  <2>4. CASE tryReconnectChannel(w)
    BY <2>4 DEF tryReconnectChannel, NewChannel, PNumbers
  <2>5. CASE RecoveryReconnects(w)
    <3>1. \A n \in Publishes : mpc[n] \notin Publishing
      BY <2>5 DEF RecoveryReconnects, HolderOK
    <3> QED
      BY <2>5, <3>1 DEF RecoveryReconnects, Replaces, FreshOK, Unused, Publishing
  <2> QED
    BY <1>3, <2>1, <2>2, <2>3, <2>4, <2>5 DEF MonitorStep
<1>4. CASE OpensFresh
  BY <1>4 DEF OpensFresh, NewChannel, PNumbers
<1>5. CASE Reconnect
  <2>1. \A n \in Publishes : mpc[n] \notin Publishing
    BY <1>5 DEF Reconnect, HolderOK
  <2> QED
    BY <1>5, <2>1 DEF Reconnect, Replaces, FreshOK, Unused, Publishing
<1>6. CASE Close
  BY <1>6 DEF Close
<1> QED
  BY <1>1, <1>2, <1>3, <1>4, <1>5, <1>6 DEF PublisherNext

LEMMA PublisherFresh ==
    ASSUME PInv, PublisherNext
    PROVE  FreshOK'
<1>0. PNumbers /\ PControl /\ FreshOK /\ PWires
  BY DEF PInv
<1>c. current \in Channels /\ 0 \notin open /\ \A n \in Channels : n \in Nat
  BY <1>0, PublisherAssumption DEF PNumbers, Channels
<1>w. ASSUME UNCHANGED <<rpc, rch, wpc, fresh, made, current>>,
             \A n \in Channels : n # current => inbox'[n] = inbox[n] /\ confirms'[n] = confirms[n],
             signalled' \subseteq signalled \cup {current}
      PROVE  FreshOK'
  BY <1>0, <1>c, <1>w DEF FreshOK, Unused
<1>v. ASSUME NEW w \in Channels, NEW l, l # "reconnect", wpc[w] # "off", wpc' = [wpc EXCEPT ![w] = l],
             UNCHANGED <<rpc, rch, fresh, made, current, inbox, confirms>>,
             signalled' \subseteq signalled \cup {current}
      PROVE  FreshOK'
  <2>1. \A n \in Channels : Unused(n) => Unused(n)'
    BY <1>0, <1>v DEF Unused, PControl
  <2>2. \A v \in Channels : wpc'[v] = "reconnect" => wpc[v] = "reconnect"
    BY <1>0, <1>v DEF PControl
  <2> QED
    BY <1>0, <1>v, <2>1, <2>2 DEF FreshOK
<1>1. ASSUME NEW m \in Publishes, MessageStep(m) PROVE FreshOK'
  <2>1. \A n \in Channels : n # current => inbox'[n] = inbox[n] /\ confirms'[n] = confirms[n]
    BY <1>0, <1>c, <1>1 DEF MessageStep, PublishAndWaitConfirm, waitForConfirm, WaitEnds, WaitTimesOut, invalidateChannel,
       Acked, Append1, PNumbers, PWires, Wire
  <2>2. UNCHANGED <<rpc, rch, wpc, fresh, made, current>> /\ signalled' \subseteq signalled \cup {current}
    BY <1>1 DEF MessageStep, PublishAndWaitConfirm, waitForConfirm, WaitEnds, WaitTimesOut, invalidateChannel,
       Acked, Monitor, Callers, Chans, Signals
  <2> QED
    BY <1>w, <2>1, <2>2
<1>2. ASSUME NEW c \in Channels, Answers(c) PROVE FreshOK'
  <2>1. inbox[c] # <<>> /\ \A n \in Channels : n # c => inbox'[n] = inbox[n] /\ confirms'[n] = confirms[n]
    BY <1>0, <1>2 DEF Answers, Append1, PWires
  <2>2. UNCHANGED <<rpc, rch, wpc, fresh, made, current, signalled>>
    BY <1>2 DEF Answers, Monitor, Callers, Chans, Signals
  <2> QED
    BY <1>0, <2>1, <2>2 DEF FreshOK, Unused
<1>3. ASSUME NEW c \in Channels, Dies(c) PROVE FreshOK'
  BY <1>3, <1>w DEF Dies, Monitor, Callers, Signals, Wire
<1>4. ASSUME NEW w \in Channels, MonitorStep(w) PROVE FreshOK'
  <2> USE <1>0, <1>c DEF Watcher, Wire, Signals, Chans, Callers, Flags
  <2>1. CASE handleMonitoredClose(w)
    BY <2>1, <1>v DEF handleMonitoredClose
  <2>2. CASE prepareForRecovery(w)
    BY <2>2, <1>v DEF prepareForRecovery
  <2>3. CASE executeRecoveryAttempt(w)
    <3>1. wpc[w] = "attempt" /\ UNCHANGED <<rpc, rch, fresh, made, current, inbox, confirms, signalled>>
      BY <2>3 DEF executeRecoveryAttempt
    <3>2. wpc' = [wpc EXCEPT ![w] = "off"] \/ wpc' = [wpc EXCEPT ![w] = "provider"]
      BY <2>3 DEF executeRecoveryAttempt
    <3> QED
      BY <1>v, <3>1, <3>2
  <2>4. CASE tryReconnectChannel(w)
    <3>1. CASE UNCHANGED fresh /\ Watcher(w, "attempt") /\ UNCHANGED Chans
      BY <2>4, <3>1 DEF tryReconnectChannel, FreshOK, Unused, PControl
    <3>2. CASE NewChannel /\ Watcher(w, "reconnect") /\ fresh' = [fresh EXCEPT ![w] = made + 1]
      <4>1. made + 1 \in Channels /\ made' = made + 1 /\ made \in Nat
        BY <3>2, PublisherAssumption DEF NewChannel, PNumbers, Channels
      <4>2. UNCHANGED <<rpc, rch, current, signalled, inbox, confirms>> /\ wpc[w] = "provider"
        BY <2>4 DEF tryReconnectChannel
      <4>3. Unused(made + 1)
        BY <4>1 DEF FreshOK
      <4>4. \A n \in Channels : Unused(n) => n # w
        BY <4>2 DEF Unused
      <4>5. \A n \in Channels : Unused(n) => Unused(n)'
        BY <3>2, <4>2, <4>4 DEF Unused, PControl
      <4>6. \A v \in Channels : v # w => wpc'[v] = wpc[v] /\ fresh'[v] = fresh[v]
        BY <3>2 DEF PControl
      <4>7. fresh'[w] = made + 1 /\ wpc'[w] = "reconnect"
        BY <3>2 DEF PControl
      <4> QED
        BY <4>1, <4>2, <4>3, <4>5, <4>6, <4>7 DEF FreshOK
    <3> QED
      BY <2>4, <3>1, <3>2 DEF tryReconnectChannel
  <2>5. CASE RecoveryReconnects(w)
    <3>1. wpc[w] = "reconnect" /\ fresh[w] \in Channels /\ fresh[w] <= made /\ Unused(fresh[w]) /\ fresh[w] # w
      BY <2>5 DEF RecoveryReconnects, FreshOK, Unused
    <3>2. UNCHANGED <<rpc, rch, fresh, made, signalled, inbox, confirms>>
      BY <2>5 DEF RecoveryReconnects
    <3>3. CASE Refused(fresh[w]) /\ Watcher(w, "attempt") /\ UNCHANGED current
      BY <3>1, <3>2, <3>3 DEF FreshOK, Unused, PControl
    <3>4. CASE Replaces(fresh[w]) /\ wpc' = [wpc EXCEPT ![w] = "emit", ![fresh[w]] = "watch"]
      <4>1. current' = fresh[w] /\ wpc'[w] = "emit" /\ wpc'[fresh[w]] = "watch"
            /\ \A v \in Channels : v # w /\ v # fresh[w] => wpc'[v] = wpc[v]
        BY <3>1, <3>4 DEF Replaces, PControl
      <4>2. \A n \in Channels : Unused(n) /\ n # fresh[w] => Unused(n)'
        BY <3>1, <3>2, <4>1 DEF Unused
      <4>3. \A n \in Channels : made < n => n # fresh[w]
        BY <3>1 DEF PNumbers
      <4>4. \A v \in Channels : wpc'[v] = "reconnect" => wpc[v] = "reconnect" /\ fresh[v] # fresh[w]
        BY <3>1, <4>1 DEF FreshOK
      <4>5. rpc.at = "reconnect" => rch # fresh[w]
        BY <3>1 DEF FreshOK
      <4> QED
        BY <3>2, <4>2, <4>3, <4>4, <4>5 DEF FreshOK
    <3> QED
      BY <2>5, <3>3, <3>4 DEF RecoveryReconnects
  <2>6. CASE EmitsConnected(w)
    BY <2>6 DEF EmitsConnected, FreshOK, Unused, PControl
  <2> QED
    BY <1>4, <2>1, <2>2, <2>3, <2>4, <2>5, <2>6 DEF MonitorStep
<1>5. CASE OpensFresh
  <2>1. made + 1 \in Channels /\ made' = made + 1 /\ made \in Nat /\ rch' = made + 1
    BY <1>0, <1>5, PublisherAssumption DEF OpensFresh, NewChannel, PNumbers, Channels
  <2>2. UNCHANGED <<current, signalled, inbox, confirms, wpc, fresh>>
    BY <1>5 DEF OpensFresh, Wire, Signals, Monitor
  <2> QED
    BY <1>0, <1>c, <2>1, <2>2 DEF FreshOK, Unused
<1>6. CASE Reconnect
  <2>1. rch \in Channels /\ rch <= made /\ Unused(rch) /\ rpc'.at = "idle"
    BY <1>0, <1>6 DEF Reconnect, FreshOK, PControl
  <2>2. UNCHANGED <<rch, fresh, made, signalled, inbox, confirms>>
    BY <1>6 DEF Reconnect, Wire, Signals
  <2>3. CASE Refused(rch) /\ UNCHANGED <<current, wpc>>
    BY <1>0, <2>1, <2>2, <2>3 DEF FreshOK, Unused
  <2>4. CASE Replaces(rch) /\ wpc' = [wpc EXCEPT ![rch] = "watch"]
    <3>1. current' = rch /\ wpc'[rch] = "watch" /\ \A v \in Channels : v # rch => wpc'[v] = wpc[v]
      BY <1>0, <2>1, <2>4 DEF Replaces, PControl
    <3>2. \A n \in Channels : Unused(n) /\ n # rch => Unused(n)'
      BY <2>1, <2>2, <3>1 DEF Unused
    <3>3. rpc.at = "reconnect"
      BY <1>6 DEF Reconnect
    <3>4. \A n \in Channels : made < n => n # rch
      BY <1>0, <1>c, <2>1 DEF PNumbers
    <3>5. \A v \in Channels : wpc'[v] = "reconnect" => wpc[v] = "reconnect" /\ fresh[v] # rch
      BY <1>0, <3>1, <3>3 DEF FreshOK
    <3> QED
      BY <1>0, <2>1, <2>2, <3>2, <3>4, <3>5 DEF FreshOK
  <2> QED
    BY <1>6, <2>3, <2>4 DEF Reconnect
<1>7. CASE Close
  BY <1>7, <1>w DEF Close, Monitor, Wire
<1> QED
  BY <1>1, <1>2, <1>3, <1>4, <1>5, <1>6, <1>7 DEF PublisherNext
LEMMA PublisherAlone ==
    ASSUME PInv, PublisherNext
    PROVE  AloneOK'
<1>0. PNumbers /\ PControl /\ HolderOK /\ FreshOK /\ AloneOK /\ Free \notin Publishes
  BY PublisherAssumption DEF PInv, Free
<1>u. UNCHANGED setup
  BY DEF PublisherNext, MessageStep, PublishAndWaitConfirm, waitForConfirm, WaitEnds, WaitTimesOut, invalidateChannel,
         Acked, Answers, Dies, MonitorStep, handleMonitoredClose, prepareForRecovery, executeRecoveryAttempt,
         tryReconnectChannel, RecoveryReconnects, EmitsConnected, OpensFresh, Reconnect, Close
<1> SUFFICES ASSUME setup.reconnects = 0 PROVE AloneOK'
  BY <1>u DEF AloneOK
<1>a. /\ rpc.left = 0 /\ rpc.at = "idle"
      /\ \A v, w \in Channels : wpc[v] \in Active /\ wpc[w] \in Active => v = w
      /\ \A w \in Channels : wpc[w] \in Recovering => ch = 0
      /\ \A c \in open :
           \/ c = ch
           \/ \E w \in Channels : wpc[w] = "reconnect" /\ fresh[w] = c
           \/ c = current /\ \E m \in Publishes : mpc[m] = "invalidate"
  BY <1>0 DEF AloneOK
<1>1. ASSUME NEW m \in Publishes, MessageStep(m) PROVE AloneOK'
  <2> USE <1>a, <1>0 DEF Ends, PControl, Publishing, Signals, Chans, Monitor, Callers, AloneOK
  <2>1. CASE PublishAndWaitConfirm(m)
    BY <2>1 DEF PublishAndWaitConfirm
  <2>2. CASE waitForConfirm(m)
    BY <2>2 DEF waitForConfirm
  <2>3. CASE WaitEnds(m)
    BY <2>3 DEF WaitEnds
  <2>4. CASE WaitTimesOut(m)
    BY <2>4 DEF WaitTimesOut, isConfirmStreamCorrupted, PNumbers
  <2>5. CASE invalidateChannel(m)
    BY <2>5 DEF invalidateChannel
  <2>6. CASE Acked(m)
    BY <2>6 DEF Acked
  <2> QED
    BY <1>1, <2>1, <2>2, <2>3, <2>4, <2>5, <2>6 DEF MessageStep
<1>2. ASSUME NEW c \in Channels, Answers(c) \/ Dies(c) PROVE AloneOK'
  BY <1>a, <1>2 DEF AloneOK, Answers, Dies, Chans, Monitor, Callers
<1>3. ASSUME NEW w \in Channels, MonitorStep(w) PROVE AloneOK'
  <2> USE <1>a, <1>0 DEF Watcher, Chans, Callers, AloneOK
  <2>1. CASE handleMonitoredClose(w)
    BY <2>1 DEF handleMonitoredClose, PControl, Recovering, Active
  <2>2. CASE prepareForRecovery(w)
    <3>1. \A n \in Publishes : mpc[n] # "invalidate"
      BY <2>2 DEF prepareForRecovery, HolderOK, Publishing
    <3>2. \A v \in Channels : wpc[v] \notin Recovering
      BY <2>2 DEF prepareForRecovery, Recovering, Active
    <3>3. \A c \in open : c = ch
      BY <3>1, <3>2 DEF Recovering
    <3> QED
      BY <2>2, <3>2, <3>3 DEF prepareForRecovery, PControl, Recovering, Active
  <2>3. CASE executeRecoveryAttempt(w)
    BY <2>3 DEF executeRecoveryAttempt, PControl, Recovering, Active
  <2>4. CASE tryReconnectChannel(w)
    <3>1. wpc[w] = "provider" /\ \A v \in Channels : v # w => wpc[v] \notin Active
      BY <2>4 DEF tryReconnectChannel, Active, Recovering
    <3> QED
      BY <2>4, <3>1 DEF tryReconnectChannel, NewChannel, PControl, Recovering, Active
  <2>5. CASE RecoveryReconnects(w)
    <3>1. wpc[w] = "reconnect" /\ ch = 0 /\ \A v \in Channels : v # w => wpc[v] \notin Active
      BY <2>5 DEF RecoveryReconnects, Active, Recovering
    <3>2. \A n \in Publishes : mpc[n] # "invalidate"
      BY <2>5 DEF RecoveryReconnects, HolderOK, Publishing
    <3>3. \A c \in open : c = fresh[w]
      BY <3>1, <3>2 DEF PNumbers, Active, Recovering
    <3>4. fresh[w] \in Channels /\ fresh[w] # w
      BY <3>1 DEF FreshOK, Unused
    <3>5. CASE Refused(fresh[w]) /\ Watcher(w, "attempt") /\ open' = open \ {fresh[w]} /\ UNCHANGED ch
      BY <2>5, <3>1, <3>3, <3>5 DEF RecoveryReconnects, PControl, Recovering, Active
    <3>6. CASE Replaces(fresh[w]) /\ UNCHANGED open /\ wpc' = [wpc EXCEPT ![w] = "emit", ![fresh[w]] = "watch"]
      <4>1. ch' = fresh[w] /\ wpc'[w] = "emit" /\ wpc'[fresh[w]] = "watch"
            /\ \A v \in Channels : v # w /\ v # fresh[w] => wpc'[v] = wpc[v]
        BY <3>4, <3>6 DEF Replaces, PControl
      <4>2. \A v \in Channels : wpc'[v] \in Active => v = fresh[w]
        BY <3>1, <4>1 DEF Active, Recovering
      <4>3. \A v \in Channels : wpc'[v] \notin Recovering
        BY <4>1, <4>2 DEF Active, Recovering
      <4> QED
        BY <2>5, <3>3, <3>6, <4>1, <4>2, <4>3 DEF RecoveryReconnects
    <3> QED
      BY <2>5, <3>5, <3>6 DEF RecoveryReconnects
  <2>6. CASE EmitsConnected(w)
    BY <2>6 DEF EmitsConnected, PControl, Recovering, Active
  <2> QED
    BY <1>3, <2>1, <2>2, <2>3, <2>4, <2>5, <2>6 DEF MonitorStep
<1>4. CASE OpensFresh \/ Reconnect
  BY <1>4, <1>a DEF OpensFresh, Reconnect
<1>5. CASE Close
  BY <1>5, <1>a DEF Close, AloneOK, Monitor
<1> QED
  BY <1>1, <1>2, <1>3, <1>4, <1>5 DEF PublisherNext

(* A publish reports success only for its own message, whatever was late,  *)
(* lost or returned before it, and a publisher with automatic recovery     *)
(* that was closed leaves no channel open, however its close, its monitors *)
(* and its recoveries overlapped (PublishAndWaitConfirm,                   *)
(* isConfirmStreamCorrupted, attemptAutoRecovery, Close).                  *)
THEOREM PublisherSoundHolds == PublisherSpec => []PublisherSound
<1>1. PublisherInit => PInv
  <2> SUFFICES ASSUME PublisherInit PROVE PInv
    OBVIOUS
  <2> USE PublisherAssumption DEF PublisherInit, Channels
  <2>1. PNumbers
    BY DEF PNumbers
  <2>2. PWires
    <3>1. <<>> \in Seq(Publishes) /\ <<>> \in Seq({"ack", "nack"})
      OBVIOUS
    <3> QED
      BY <3>1 DEF PWires
  <2>3. PControl
    BY DEF PControl, Publishing, Active, Recovering
  <2>4. Health /\ SuccessIsOwn /\ ClosedOK
    BY DEF Health, SuccessIsOwn, ClosedOK
  <2>5. HolderOK /\ WireOK
    BY DEF HolderOK, WireOK, Publishing, Free
  <2>6. FreshOK
    BY DEF FreshOK, Unused
  <2>7. AloneOK
    BY DEF AloneOK, Active, Recovering
  <2> QED
    BY <2>1, <2>2, <2>3, <2>4, <2>5, <2>6, <2>7 DEF PInv
<1>2. PInv /\ [PublisherNext]_pvars => PInv'
  <2>1. CASE PublisherNext
    BY <2>1, PublisherNumbers, PublisherWires, PublisherControl, PublisherHolder, PublisherWireOK, PublisherClosedOK,
       PublisherFresh, PublisherAlone DEF PInv
  <2>2. CASE UNCHANGED pvars
    BY <2>2 DEF pvars, PInv, PNumbers, PWires, PControl, Health, HolderOK, WireOK, Answerable, ClosedOK, FreshOK, Unused,
                AloneOK, SuccessIsOwn
  <2> QED
    BY <2>1, <2>2
<1>3. PInv => PublisherSound
  <2> SUFFICES ASSUME PInv PROVE PublisherSound
    OBVIOUS
  <2>1. PublisherTypeOK
    BY PublisherAssumption DEF PInv, PNumbers, PWires, Health, PublisherTypeOK, Channels
  <2>2. ClosedForGood
    BY DEF PInv, ClosedOK, AloneOK, ClosedForGood, PublisherQuiet, Watching
  <2> QED
    BY <2>1, <2>2 DEF PInv, PublisherSound
<1> QED
  BY <1>1, <1>2, <1>3, PTL DEF PublisherSpec

(* The connection and the publisher on it keep what they promise.          *)
THEOREM BrokerSoundHolds == ConnectionSpec /\ PublisherSpec => []BrokerSound
<1>1. ConnectionSound /\ PublisherSound => BrokerSound
  BY DEF BrokerSound
<1> QED
  BY <1>1, ConnectionSoundHolds, PublisherSoundHolds, PTL

-----------------------------------------------------------------------------
(* The dead letter queue.                                                  *)

(* A message in a list, and lists in which nothing is twice.               *)
Holds(q, s, m) == \E i \in DOMAIN q[s] : q[s][i] = m

Single(q, S) ==
    \A s, t \in S : \A i \in DOMAIN q[s], j \in DOMAIN q[t] : q[s][i] = q[t][j] => s = t /\ i = j

(* The lists after a pop, and after a push.                                *)
Pop(q, s)     == [q EXCEPT ![s] = Tail(q[s])]
Add(q, s, m)  == [q EXCEPT ![s] = Append(q[s], m)]
Lists(S, M)   == [S -> Seq(M)]

LEMMA Popped ==
    ASSUME NEW S, NEW M, NEW q \in Lists(S, M), NEW s \in S, q[s] # <<>>, Single(q, S),
           NEW p, p = Pop(q, s)
    PROVE  /\ Head(q[s]) \in M /\ Single(p, S) /\ Holds(q, s, Head(q[s]))
           /\ \A t \in S : \A n : Holds(p, t, n) <=> Holds(q, t, n) /\ n # Head(q[s])
<1>0. q \in [S -> Seq(M)]
  BY DEF Lists
<1>1. /\ Head(q[s]) = q[s][1] /\ Head(q[s]) \in M /\ Tail(q[s]) \in Seq(M)
      /\ Len(q[s]) \in Nat /\ 1 <= Len(q[s]) /\ Len(Tail(q[s])) = Len(q[s]) - 1
      /\ \A i \in 1 .. Len(q[s]) - 1 : Tail(q[s])[i] = q[s][i + 1]
  BY <1>0
<1>2. p \in [S -> Seq(M)] /\ p[s] = Tail(q[s]) /\ \A t \in S : t # s => p[t] = q[t]
  BY <1>0, <1>1 DEF Pop, Add
<1>3. DOMAIN p[s] = 1 .. Len(q[s]) - 1 /\ DOMAIN q[s] = 1 .. Len(q[s])
  BY <1>1, <1>2
<1>4. \A i \in DOMAIN p[s] : i + 1 \in DOMAIN q[s] /\ p[s][i] = q[s][i + 1] /\ i \in Nat
  BY <1>1, <1>2, <1>3
<1>5. 1 \in DOMAIN q[s]
  BY <1>1, <1>3
<1>6. Single(p, S)
  <2> SUFFICES ASSUME NEW x \in S, NEW y \in S, NEW i \in DOMAIN p[x], NEW j \in DOMAIN p[y], p[x][i] = p[y][j]
               PROVE  x = y /\ i = j
    BY DEF Single
  <2>1. CASE x = s /\ y = s
    <3>1. i + 1 = j + 1
      BY <1>4, <2>1 DEF Single
    <3> QED
      BY <1>4, <2>1, <3>1
  <2>2. CASE x = s /\ y # s
    <3>1. i + 1 \in DOMAIN q[x] /\ j \in DOMAIN q[y] /\ q[x][i + 1] = q[y][j]
      BY <1>2, <1>4, <2>2
    <3> QED
      BY <2>2, <3>1 DEF Single
  <2>3. CASE x # s /\ y = s
    <3>1. i \in DOMAIN q[x] /\ j + 1 \in DOMAIN q[y] /\ q[x][i] = q[y][j + 1]
      BY <1>2, <1>4, <2>3
    <3> QED
      BY <2>3, <3>1 DEF Single
  <2>4. CASE x # s /\ y # s
    BY <1>2, <2>4 DEF Single
  <2> QED
    BY <2>1, <2>2, <2>3, <2>4
<1>7. Holds(q, s, Head(q[s]))
  BY <1>1, <1>5 DEF Holds
<1>8. ASSUME NEW t \in S, NEW n, Holds(p, t, n) PROVE Holds(q, t, n) /\ n # Head(q[s])
  <2>1. CASE t = s
    <3>1. PICK i \in DOMAIN p[s] : p[s][i] = n
      BY <1>8, <2>1 DEF Holds
    <3>2. i + 1 # 1
      BY <1>3, <1>4, <3>1
    <3> QED
      BY <1>1, <1>4, <1>5, <2>1, <3>1, <3>2 DEF Holds, Single
  <2>2. CASE t # s
    BY <1>1, <1>2, <1>5, <1>8, <2>2 DEF Holds, Single
  <2> QED
    BY <2>1, <2>2
<1>9. ASSUME NEW t \in S, NEW n, Holds(q, t, n), n # Head(q[s]) PROVE Holds(p, t, n)
  <2>1. CASE t = s
    <3>1. PICK i \in DOMAIN q[s] : q[s][i] = n
      BY <1>9, <2>1 DEF Holds
    <3>2. i \in Nat /\ i # 1 /\ i - 1 \in DOMAIN p[s] /\ p[s][i - 1] = q[s][i]
      BY <1>1, <1>3, <1>9, <1>2, <3>1
    <3> QED
      BY <2>1, <3>1, <3>2 DEF Holds
  <2>2. CASE t # s
    BY <1>2, <1>9, <2>2 DEF Holds
  <2> QED
    BY <2>1, <2>2
<1> QED
  BY <1>1, <1>2, <1>6, <1>7, <1>8, <1>9

LEMMA Pushed ==
    ASSUME NEW S, NEW M, NEW q \in Lists(S, M), NEW s \in S, NEW m \in M, Single(q, S),
           \A t \in S : ~Holds(q, t, m), NEW p, p = Add(q, s, m)
    PROVE  /\ Single(p, S)
           /\ \A t \in S : \A n : Holds(p, t, n) <=> Holds(q, t, n) \/ (t = s /\ n = m)
<1>0. q \in [S -> Seq(M)]
  BY DEF Lists
<1>1. /\ Append(q[s], m) \in Seq(M) /\ Len(q[s]) \in Nat /\ Len(Append(q[s], m)) = Len(q[s]) + 1
      /\ Append(q[s], m)[Len(q[s]) + 1] = m
      /\ \A i \in 1 .. Len(q[s]) : Append(q[s], m)[i] = q[s][i]
  BY <1>0
<1>2. p \in [S -> Seq(M)] /\ p[s] = Append(q[s], m) /\ \A t \in S : t # s => p[t] = q[t]
  BY <1>0, <1>1 DEF Pop, Add
<1>3. DOMAIN p[s] = 1 .. Len(q[s]) + 1 /\ DOMAIN q[s] = 1 .. Len(q[s])
  BY <1>1, <1>2
<1>4. /\ \A i \in DOMAIN q[s] : i \in DOMAIN p[s] /\ p[s][i] = q[s][i]
      /\ Len(q[s]) + 1 \in DOMAIN p[s] /\ p[s][Len(q[s]) + 1] = m
      /\ \A i \in DOMAIN p[s] : i = Len(q[s]) + 1 \/ i \in DOMAIN q[s]
  BY <1>1, <1>2, <1>3
<1>5. Single(p, S)
  <2> SUFFICES ASSUME NEW x \in S, NEW y \in S, NEW i \in DOMAIN p[x], NEW j \in DOMAIN p[y], p[x][i] = p[y][j]
               PROVE  x = y /\ i = j
    BY DEF Single
  <2>0. \A u \in S : \A k \in DOMAIN p[u] : (k \in DOMAIN q[u] /\ p[u][k] = q[u][k]) \/ (u = s /\ k = Len(q[s]) + 1 /\ p[u][k] = m)
    BY <1>2, <1>4
  <2>1. CASE i \in DOMAIN q[x] /\ p[x][i] = q[x][i] /\ j \in DOMAIN q[y] /\ p[y][j] = q[y][j]
    <3>1. q[x][i] = q[y][j]
      BY <2>1
    <3> QED
      BY <2>1, <3>1 DEF Single
  <2>2. CASE i \in DOMAIN q[x] /\ p[x][i] = q[x][i] /\ p[y][j] = m
    BY <2>2 DEF Holds
  <2>3. CASE p[x][i] = m /\ j \in DOMAIN q[y] /\ p[y][j] = q[y][j]
    BY <2>3 DEF Holds
  <2>4. CASE x = s /\ i = Len(q[s]) + 1 /\ y = s /\ j = Len(q[s]) + 1
    BY <2>4
  <2> QED
    BY <2>0, <2>1, <2>2, <2>3, <2>4
<1>6. \A t \in S : \A n : Holds(p, t, n) <=> Holds(q, t, n) \/ (t = s /\ n = m)
  BY <1>0, <1>2, <1>4 DEF Holds
<1> QED
  BY <1>2, <1>5, <1>6

(* The tables and the program counters of consumers and pruner.            *)
Busy == {"length", "pop", "bounce", "retry", "requeue"}
Pcs  == Busy \cup {"off", "idle", "done"}
Carrying == {"bounce", "retry", "requeue"}

QTables ==
    /\ cfg \in Configs /\ queue \in [Scopes -> Seq(Messages)] /\ tenant \in [Messages -> Scopes]
    /\ retryCount \in [Messages -> Nat] /\ (\A m \in Messages : retryCount[m] <= MaxRetries)
    /\ future \subseteq Messages /\ entered \subseteq Messages
    /\ calls \in [Messages -> Nat] /\ servedAs \in [Messages -> Scopes \cup {NoMessage}]
    /\ origin \in [Messages -> Messages]

QControl ==
    /\ stopCh \in [Consumers -> {"none", "open", "closed"}] /\ cancelled \subseteq Consumers
    /\ pc \in [Actors -> Pcs] /\ pc[Pruner] \in {"idle", "requeue"}
    /\ hand \in [Actors -> Messages \cup {NoMessage}]
    /\ \A a \in Actors : hand[a] # NoMessage <=> pc[a] \in Carrying

QCursor ==
    /\ scopes \in [Actors -> Seq(Scopes)] /\ at \in [Actors -> Nat] /\ at[Pruner] = 1
    /\ \A a \in Actors : pc[a] \in Busy => 1 <= at[a] /\ at[a] <= Len(scopes[a])
    /\ \A a \in Actors : pc[a] \notin Busy => at[a] = 1

QCounters ==
    /\ processed \in [Consumers -> Nat] /\ (\A c \in Consumers : processed[c] < BatchSize)
    /\ rotations \in [Consumers -> Nat] /\ rotationCap \in [Consumers -> Nat]
    /\ \A c \in Consumers : rotations[c] <= rotationCap[c] /\ rotationCap[c] <= BatchSize

QFlags == progressed \in [Consumers -> BOOLEAN]

(* Where messages are: in one list or in one hand, which took them from    *)
(* the list of its scope.                                                  *)
Listed(m) == \E s \in Scopes : Holds(queue, s, m)

PlaceOK ==
    /\ Single(queue, Scopes)
    /\ \A a \in Actors : hand[a] # NoMessage => ~Listed(hand[a])
    /\ \A a, b \in Actors : hand[a] # NoMessage /\ hand[a] = hand[b] => a = b
    /\ \A m \in Messages : (Listed(m) \/ \E a \in Actors : hand[a] = m) => m \in entered
    /\ \A m \in entered : Listed(m) \/ (\E a \in Actors : hand[a] = m) \/ m \in accounted \cup silent

TenantOK ==
    /\ \A m \in Messages : HomeOf(m) # Global \/ ~Astray(m) => tenant[m] = HomeOf(m)
    /\ \A s \in Scopes : \A m \in Messages : Holds(queue, s, m) => s = HomeOf(m) \/ Astray(m)
    /\ \A a \in Actors : hand[a] \in Messages => Scope(a) = HomeOf(hand[a]) \/ Astray(hand[a])
    /\ \A m \in Messages : HomeOf(m) # Global => servedAs[m] \in {NoMessage, HomeOf(m)}

(* Second copies come of failed calls.                                     *)
OriginOK == faults \in Nat /\ (faults = 0 => \A m \in Messages : origin[m] = m)

(* A message that can still be retried was called at most as often as it   *)
(* was counted.                                                            *)
RetryOK ==
    /\ \A m \in Messages : calls[m] <= MaxRetries
    /\ \A m \in Messages : (Listed(m) \/ \E a \in Actors : hand[a] = m) => calls[m] <= retryCount[m]
    /\ \A m \in Messages \ entered : calls[m] = 0
    /\ \A a \in Actors : pc[a] = "retry" => retryCount[hand[a]] < MaxRetries

QInv == QTables /\ QControl /\ QCursor /\ QCounters /\ QFlags /\ PlaceOK /\ TenantOK /\ OriginOK /\ RetryOK

-----------------------------------------------------------------------------
(* What a step does to the messages is one of eight things.                *)
Apart(a) ==
    \A b \in Actors \ {a} : hand'[b] = hand[b] /\ pc'[b] = pc[b] /\ scopes'[b] = scopes[b] /\ at'[b] = at[b]

Grows == accounted \subseteq accounted' /\ silent \subseteq silent'
Data  == <<tenant, retryCount, entered, origin, calls, servedAs>>

Rests(a) ==
    /\ UNCHANGED <<queue, hand, Data>> /\ Grows /\ Apart(a) /\ (pc'[a] = "retry" => pc[a] = "retry")
    /\ hand[a] # NoMessage => scopes'[a] = scopes[a] /\ at'[a] = at[a]

Takes(a, s) ==
    /\ queue[s] # <<>> /\ LPop(s) /\ hand[a] = NoMessage /\ hand' = [hand EXCEPT ![a] = Head(queue[s])]
    /\ scopes'[a][at'[a]] = s /\ (pc'[a] = "retry" => ~Exhausted(Head(queue[s])))
    /\ UNCHANGED Data /\ Grows /\ Apart(a)

Discards(a, s) ==
    /\ queue[s] # <<>> /\ LPop(s) /\ hand[a] = NoMessage /\ hand' = hand /\ pc'[a] # "retry"
    /\ Head(queue[s]) \in accounted' \cup silent'
    /\ UNCHANGED Data /\ Grows /\ Apart(a)

Returns(a) ==
    /\ hand[a] # NoMessage /\ PutBack(a, Scope(a)) /\ hand' = [hand EXCEPT ![a] = NoMessage] /\ pc'[a] # "retry"
    /\ UNCHANGED <<retryCount, entered, origin, calls, servedAs>> /\ Grows /\ Apart(a)

Loses(a) ==
    /\ hand[a] # NoMessage /\ hand' = [hand EXCEPT ![a] = NoMessage] /\ pc'[a] # "retry"
    /\ hand[a] \in accounted' \cup silent' /\ UNCHANGED queue
    /\ UNCHANGED Data /\ Grows /\ Apart(a)

Serves(a) ==
    /\ pc[a] = "retry" /\ hand[a] # NoMessage /\ pc'[a] # "retry"
    /\ calls' = [calls EXCEPT ![hand[a]] = @ + 1]
    /\ servedAs' = [servedAs EXCEPT ![hand[a]] = Effective(hand[a], Scope(a))]
    /\ \/ hand[a] \in accounted' /\ hand' = [hand EXCEPT ![a] = NoMessage] /\ UNCHANGED retryCount
       \/ /\ retryCount' = [retryCount EXCEPT ![hand[a]] = @ + 1] /\ UNCHANGED hand
          /\ scopes'[a] = scopes[a] /\ at'[a] = at[a]
    /\ UNCHANGED <<queue, tenant, entered, origin>> /\ Grows /\ Apart(a)

Enters(m) ==
    /\ m \notin entered /\ entered' = entered \cup {m} /\ Push(m, tenant[m])
    /\ UNCHANGED <<tenant, retryCount, origin, calls, servedAs, hand, pc, scopes, at>> /\ Grows

Copies(m, d, s) ==
    /\ d \notin entered /\ entered' = entered \cup {d} /\ Push(d, s)
    /\ m \notin entered \/ \E a \in Actors : hand[a] = m
    /\ HomeOf(m) # Global \/ ~Astray(m) => s = HomeOf(m)
    /\ tenant' = [tenant EXCEPT ![d] = s] /\ origin' = [origin EXCEPT ![d] = origin[m]]
    /\ retryCount' = [retryCount EXCEPT ![d] = retryCount[m]]
    /\ calls' = [calls EXCEPT ![d] = calls[m]] /\ servedAs' = [servedAs EXCEPT ![d] = servedAs[m]]
    /\ UNCHANGED <<hand, pc, scopes, at>> /\ Grows

Move ==
    \/ \E m \in Messages : Enters(m)
    \/ \E m, d \in Messages, s \in Scopes : Copies(m, d, s)
    \/ \E a \in Actors : Rests(a) \/ Returns(a) \/ Loses(a) \/ Serves(a)
    \/ \E a \in Actors, s \in Scopes : Takes(a, s) \/ Discards(a, s)

LEMMA Steps ==
    ASSUME QInv, QueueNext
    PROVE  Move
<1>0. QTables /\ QControl /\ QCursor /\ TenantOK
  BY DEF QInv
<1>p. Pruner \in Actors /\ Consumers \subseteq Actors /\ Pruner \notin Consumers
  BY <1>0, QueueAssumption DEF QTables, Actors, Consumers
<1>s. \A a \in Actors : pc[a] \in Busy => Scope(a) \in Scopes
  BY <1>0 DEF QCursor, Scope
<1> USE DEF Grows, Data, history, list, cursor, bounds
<1>d. ASSUME NEW c \in Consumers, NEW n, DrainReturns(c, n)
      PROVE  Apart(c) /\ hand' = [hand EXCEPT ![c] = NoMessage] /\ pc'[c] # "retry"
  BY <1>0, <1>d, <1>p DEF DrainReturns, Apart, QControl, QCursor, Goto
<1>1. ASSUME NEW m \in Messages, Enqueue(m) PROVE Move
  BY <1>1 DEF Enqueue, Enters, Move
<1>r. ASSUME NEW m \in Messages, NEW s \in Scopes, NEW ahead, Resent(m, s, ahead),
             m \notin entered \/ (\E a \in Actors : hand[a] = m), HomeOf(m) # Global \/ ~Astray(m) => s = HomeOf(m)
      PROVE  Move
  <2>1. PICK d \in cfg.spares \ entered :
         /\ entered' = entered \cup {d} /\ origin' = [origin EXCEPT ![d] = origin[m]]
         /\ Push(d, s) /\ tenant' = [tenant EXCEPT ![d] = s]
         /\ retryCount' = [retryCount EXCEPT ![d] = retryCount[m]]
         /\ calls' = [calls EXCEPT ![d] = calls[m]]
         /\ servedAs' = [servedAs EXCEPT ![d] = servedAs[m]]
    BY <1>r DEF Resent
  <2>2. d \in Messages
    BY <1>0, QueueAssumption DEF QTables, Messages
  <2>3. Copies(m, d, s)
    BY <1>r, <2>1 DEF Resent, Copies
  <2> QED
    BY <2>2, <2>3 DEF Move
<1>17. ASSUME NEW m \in Messages, EnqueueResent(m) PROVE Move
  <2>1. tenant[m] \in Scopes /\ (HomeOf(m) # Global \/ ~Astray(m) => tenant[m] = HomeOf(m))
    BY <1>0 DEF QTables, TenantOK
  <2> QED
    BY <1>17, <1>r, <2>1 DEF EnqueueResent
<1>18. ASSUME NEW a \in Actors, PutBackResent(a) PROVE Move
  <2> DEFINE e == Effective(hand[a], Scope(a))
  <2>1. hand[a] \in Messages /\ Scope(a) \in Scopes
    BY <1>0, <1>18, <1>s DEF PutBackResent, QControl, Carrying, Busy
  <2>2. e \in Scopes /\ (HomeOf(hand[a]) # Global \/ ~Astray(hand[a]) => e = HomeOf(hand[a]))
    BY <1>0, <2>1 DEF QTables, TenantOK, Effective
  <2>3. Resent(hand[a], e, hand[a] \in future)
    BY <1>18 DEF PutBackResent
  <2> HIDE DEF e
  <2> QED
    BY <1>r, <2>1, <2>2, <2>3
<1>19. ASSUME NEW c \in Consumers, DequeueResent(c) PROVE Move
  <2>0. hand[c] = NoMessage /\ Scope(c) \in Scopes
    BY <1>0, <1>19, <1>p, <1>s DEF DequeueResent, QControl, Carrying, Busy
  <2>1. Discards(c, Scope(c))
    BY <1>0, <1>19, <1>p, <2>0 DEF DequeueResent, Discards, Apart
  <2> QED
    BY <1>p, <2>0, <2>1 DEF Move
<1>2. ASSUME NEW m \in Messages, Elapse(m) PROVE Move
  BY <1>2, <1>p DEF Elapse, Rests, Apart, Move
<1>3. ASSUME NEW c \in Consumers, Run(c) \/ Stop(c) \/ Cancel(c) \/ RunEnds(c) PROVE Move
  <2>1. Rests(c)
    BY <1>0, <1>3, <1>p DEF Run, Stop, Cancel, RunEnds, Goto, Rests, Apart, QControl
  <2> QED
    BY <1>p, <2>1 DEF Move
<1>4. ASSUME NEW c \in Consumers, ScanQueues(c) PROVE Move
  <2>1. Rests(c)
    BY <1>0, <1>4, <1>p DEF ScanQueues, Goto, Rests, Apart, QControl, QCursor, Carrying
  <2> QED
    BY <1>p, <2>1 DEF Move
<1>5. ASSUME NEW c \in Consumers, DrainCancelled(c) PROVE Move
  <2>1. hand[c] = NoMessage
    BY <1>0, <1>5, <1>p DEF DrainCancelled, QControl, Carrying
  <2>2. Rests(c)
    BY <1>0, <1>5, <1>p, <1>d, <2>1 DEF DrainCancelled, Rests, QControl
  <2> QED
    BY <1>p, <2>2 DEF Move
<1>6. ASSUME NEW c \in Consumers, QueueLength(c) PROVE Move
  <2>1. hand[c] = NoMessage
    BY <1>0, <1>6, <1>p DEF QueueLength, QControl, Carrying
  <2>2. Rests(c)
    <3>1. CASE DrainReturns(c, 0)
      BY <1>0, <1>6, <1>p, <1>d, <2>1, <3>1 DEF QueueLength, Rests, QControl
    <3>2. CASE Goto(c, "pop") /\ UNCHANGED <<scopes, at, hand>>
      BY <1>0, <1>6, <1>p, <2>1, <3>2 DEF QueueLength, Rests, QControl, Goto, Apart
    <3> QED
      BY <1>6, <3>1, <3>2 DEF QueueLength
  <2> QED
    BY <1>p, <2>2 DEF Move
<1>7. ASSUME NEW c \in Consumers, Dequeue(c) PROVE Move
  <2>0. hand[c] = NoMessage /\ Scope(c) \in Scopes
    BY <1>0, <1>7, <1>p, <1>s DEF Dequeue, QControl, Carrying, Busy
  <2>1. CASE queue[Scope(c)] = <<>>
    <3>1. Rests(c)
      BY <1>0, <1>7, <1>p, <1>d, <2>0, <2>1 DEF Dequeue, Rests, QControl
    <3> QED
      BY <1>p, <3>1 DEF Move
  <2>2. CASE queue[Scope(c)] # <<>> /\ DrainReturns(c, 1) /\ accounted' = accounted \cup {Head(queue[Scope(c)])}
    <3>1. Discards(c, Scope(c))
      BY <1>0, <1>7, <1>p, <1>d, <2>0, <2>2 DEF Dequeue, Discards, QControl
    <3> QED
      BY <1>p, <2>0, <3>1 DEF Move
  <2>3. CASE /\ queue[Scope(c)] # <<>> /\ ~(Head(queue[Scope(c)]) \notin future /\ Exhausted(Head(queue[Scope(c)])))
             /\ Goto(c, IF Head(queue[Scope(c)]) \in future THEN "bounce" ELSE "retry")
             /\ hand' = [hand EXCEPT ![c] = Head(queue[Scope(c)])] /\ UNCHANGED <<cursor, accounted>>
    <3>1. Takes(c, Scope(c))
      BY <1>0, <1>7, <1>p, <2>0, <2>3 DEF Dequeue, Takes, Goto, Apart, Scope, QControl
    <3> QED
      BY <1>p, <2>0, <3>1 DEF Move
  <2> QED
    BY <1>7, <2>1, <2>2, <2>3 DEF Dequeue
<1>8. ASSUME NEW c \in Consumers, DequeueFails(c) PROVE Move
  <2>0. hand[c] = NoMessage /\ Scope(c) \in Scopes
    BY <1>0, <1>8, <1>p, <1>s DEF DequeueFails, QControl, Carrying, Busy
  <2>1. CASE UNCHANGED <<queue, silent>>
    <3>1. Rests(c)
      BY <1>0, <1>8, <1>p, <1>d, <2>0, <2>1 DEF DequeueFails, Rests, QControl
    <3> QED
      BY <1>p, <3>1 DEF Move
  <2>2. CASE queue[Scope(c)] # <<>> /\ LPop(Scope(c)) /\ silent' = silent \cup {Head(queue[Scope(c)])}
    <3>1. Discards(c, Scope(c))
      BY <1>0, <1>8, <1>p, <1>d, <2>0, <2>2 DEF DequeueFails, Discards, QControl
    <3> QED
      BY <1>p, <2>0, <3>1 DEF Move
  <2> QED
    BY <1>8, <2>1, <2>2 DEF DequeueFails
<1>9. ASSUME NEW c \in Consumers, Bounce(c) PROVE Move
  <2>0. hand[c] # NoMessage
    BY <1>0, <1>9, <1>p DEF Bounce, QControl, Carrying
  <2>1. Apart(c) /\ hand' = [hand EXCEPT ![c] = NoMessage] /\ pc'[c] # "retry"
    <3>1. CASE DrainReturns(c, 0)
      BY <3>1, <1>d
    <3>2. CASE Goto(c, "pop") /\ hand' = [hand EXCEPT ![c] = NoMessage] /\ UNCHANGED <<scopes, at>>
      BY <1>0, <1>p, <3>2 DEF Goto, Apart, QControl
    <3> QED
      BY <1>9, <3>1, <3>2 DEF Bounce
  <2>2. Returns(c)
    BY <1>9, <2>0, <2>1 DEF Bounce, Returns
  <2> QED
    BY <1>p, <2>2 DEF Move
<1>10. ASSUME NEW c \in Consumers, RetryFunc(c) PROVE Move
  <2>0. hand[c] # NoMessage /\ pc[c] = "retry"
    BY <1>0, <1>10, <1>p DEF RetryFunc, QControl, Carrying
  <2>1. CASE accounted' = accounted \cup {hand[c]} /\ DrainReturns(c, 1) /\ UNCHANGED retryCount
    <3>1. Serves(c)
      BY <1>10, <1>d, <2>0, <2>1 DEF RetryFunc, Serves
    <3> QED
      BY <1>p, <3>1 DEF Move
  <2>2. CASE retryCount' = [retryCount EXCEPT ![hand[c]] = @ + 1] /\ Goto(c, "requeue") /\ UNCHANGED <<cursor, hand, accounted>>
    <3>1. Serves(c)
      BY <1>0, <1>p, <1>10, <2>0, <2>2 DEF RetryFunc, Serves, Goto, Apart, QControl
    <3> QED
      BY <1>p, <3>1 DEF Move
  <2> QED
    BY <1>10, <2>1, <2>2 DEF RetryFunc
<1>11. ASSUME NEW c \in Consumers, Requeue(c) PROVE Move
  <2>0. hand[c] # NoMessage
    BY <1>0, <1>11, <1>p DEF Requeue, QControl, Carrying
  <2>2. Returns(c)
    BY <1>11, <1>d, <2>0 DEF Requeue, Returns
  <2> QED
    BY <1>p, <2>2 DEF Move
<1>12. ASSUME NEW c \in Consumers, EnqueueFails(c) PROVE Move
  <2>0. hand[c] # NoMessage
    BY <1>0, <1>12, <1>p DEF EnqueueFails, QControl, Carrying
  <2>1. Apart(c) /\ hand' = [hand EXCEPT ![c] = NoMessage] /\ pc'[c] # "retry"
    BY <1>12, <1>d DEF EnqueueFails
  <2>2. CASE UNCHANGED <<queue, tenant>>
    <3>1. Loses(c)
      BY <1>12, <2>0, <2>1, <2>2 DEF EnqueueFails, RecordLost, Loses
    <3> QED
      BY <1>p, <3>1 DEF Move
  <2>3. CASE PutBack(c, Scope(c))
    <3>1. Returns(c)
      BY <1>12, <2>0, <2>1, <2>3 DEF EnqueueFails, RecordLost, Returns
    <3> QED
      BY <1>p, <3>1 DEF Move
  <2> QED
    BY <1>12, <2>2, <2>3 DEF EnqueueFails, PutBackFails
<1>13. ASSUME NEW c \in Consumers, Crash(c) PROVE Move
  <2>1. Apart(c) /\ hand' = [hand EXCEPT ![c] = NoMessage] /\ pc'[c] = "done"
    BY <1>0, <1>13, <1>p DEF Crash, Apart, Goto, QControl, QCursor
  <2>2. CASE hand[c] = NoMessage
    <3>1. Rests(c)
      BY <1>0, <1>p, <1>13, <2>1, <2>2 DEF Crash, Rests, QControl
    <3> QED
      BY <1>p, <3>1 DEF Move
  <2>3. CASE hand[c] # NoMessage
    <3>1. Loses(c)
      BY <1>13, <2>1, <2>3 DEF Crash, Loses
    <3> QED
      BY <1>p, <3>1 DEF Move
  <2> QED
    BY <2>2, <2>3
<1>14. ASSUME NEW s \in Scopes, PruneDequeue(s) PROVE Move
  <2>0. hand[Pruner] = NoMessage /\ at[Pruner] = 1
    BY <1>0, <1>14, <1>p DEF PruneDequeue, QControl, QCursor, Carrying, Busy
  <2>1. CASE accounted' = accounted \cup {Head(queue[s])} /\ UNCHANGED <<pc, hand>>
    <3>1. Discards(Pruner, s)
      BY <1>0, <1>14, <1>p, <2>0, <2>1 DEF PruneDequeue, Discards, Apart, QCursor, QControl
    <3> QED
      BY <1>p, <3>1 DEF Move
  <2>2. CASE hand' = [hand EXCEPT ![Pruner] = Head(queue[s])] /\ Goto(Pruner, "requeue") /\ UNCHANGED accounted
    <3>0. scopes'[Pruner] = <<s>> /\ at'[Pruner] = 1 /\ <<s>>[1] = s
      BY <1>0, <1>14, <1>p, <2>0 DEF PruneDequeue, QCursor
    <3>1. Takes(Pruner, s)
      BY <1>0, <1>14, <1>p, <2>0, <2>2, <3>0 DEF PruneDequeue, Takes, Apart, Goto, QCursor, QControl
    <3> QED
      BY <1>p, <3>1 DEF Move
  <2> QED
    BY <1>14, <2>1, <2>2 DEF PruneDequeue
<1>15. CASE PruneEnqueue
  <2>0. hand[Pruner] # NoMessage
    BY <1>0, <1>15, <1>p DEF PruneEnqueue, QControl, Carrying
  <2>1. Returns(Pruner)
    BY <1>0, <1>15, <1>p, <2>0 DEF PruneEnqueue, Returns, Apart, Goto, QControl
  <2> QED
    BY <1>p, <2>1 DEF Move
<1>16. ASSUME NEW s \in Scopes, PruneFails(s) PROVE Move
  <2>1. Apart(Pruner) /\ hand' = [hand EXCEPT ![Pruner] = NoMessage] /\ pc'[Pruner] # "retry"
    BY <1>0, <1>16, <1>p DEF PruneFails, Apart, Goto, QControl
  <2>2. CASE pc[Pruner] = "requeue" /\ s = Scope(Pruner) /\ PutBack(Pruner, s) /\ accounted' = accounted \cup {hand[Pruner]} /\ UNCHANGED silent
    <3>1. Returns(Pruner)
      BY <1>0, <1>16, <1>p, <2>1, <2>2 DEF PruneFails, Returns, QControl, Carrying
    <3> QED
      BY <1>p, <3>1 DEF Move
  <2>3. CASE pc[Pruner] = "requeue" /\ UNCHANGED <<queue, tenant>> /\ hand[Pruner] \in accounted' \cup silent' /\ Grows
    <3>1. Loses(Pruner)
      BY <1>0, <1>16, <1>p, <2>1, <2>3 DEF PruneFails, Loses, QControl, Carrying
    <3> QED
      BY <1>p, <3>1 DEF Move
  <2>4. CASE pc[Pruner] = "idle" /\ queue[s] # <<>> /\ LPop(s) /\ silent' = silent \cup {Head(queue[s])} /\ UNCHANGED <<tenant, accounted>>
    <3>1. Discards(Pruner, s)
      BY <1>0, <1>16, <1>p, <2>1, <2>4 DEF PruneFails, Discards, QControl, Carrying
    <3> QED
      BY <1>p, <3>1 DEF Move
  <2> QED
    BY <1>16, <2>2, <2>3, <2>4 DEF PruneFails, PutBackFails
<1> QED
  BY <1>1, <1>2, <1>3, <1>4, <1>5, <1>6, <1>7, <1>8, <1>9, <1>10, <1>11, <1>12, <1>13, <1>14, <1>15, <1>16, <1>17, <1>18, <1>19
  DEF QueueNext, Step

LEMMA QueueTables ==
    ASSUME QInv, QueueNext
    PROVE  QTables'
<1>0. QTables /\ QControl /\ QCursor /\ RetryOK /\ cfg' = cfg
  BY DEF QInv, QueueNext
<1>k. MaxRetries \in Nat
  BY <1>0, QueueAssumption DEF QTables, MaxRetries
<1>c. Messages' = Messages /\ MaxRetries' = MaxRetries /\ Consumers' = Consumers /\ Actors' = Actors
  BY <1>0 DEF Messages, MaxRetries, Consumers, Actors
<1>h. \A a \in Actors : hand[a] # NoMessage => hand[a] \in Messages /\ Scope(a) \in Scopes
  <2>1. \A a \in Actors : pc[a] \in Busy => Scope(a) \in Scopes
    BY <1>0 DEF QCursor, Scope
  <2> QED
    BY <1>0, <2>1 DEF QControl, Carrying, Busy
<1>1. future' \subseteq Messages
  <2>1. ASSUME NEW m \in Messages, Enqueue(m) \/ Elapse(m) PROVE future' \subseteq Messages
    BY <1>0, <2>1 DEF Enqueue, Elapse, QTables
  <2>r. ASSUME NEW m \in Messages, EnqueueResent(m) PROVE future' \subseteq Messages
    <3>1. cfg.spares \subseteq Messages
      BY <1>0, QueueAssumption DEF QTables, Messages
    <3> QED
      BY <1>0, <2>r, <3>1 DEF EnqueueResent, Resent, QTables
  <2>b. ASSUME NEW a \in Actors, PutBackResent(a) PROVE future' \subseteq Messages
    <3>1. cfg.spares \subseteq Messages
      BY <1>0, QueueAssumption DEF QTables, Messages
    <3> QED
      BY <1>0, <2>b, <3>1 DEF PutBackResent, Resent, QTables
  <2>2. ASSUME NEW c \in Consumers,
               Run(c) \/ Stop(c) \/ Cancel(c) \/ Step(c) \/ DequeueFails(c) \/ DequeueResent(c) \/ Crash(c)
        PROVE  future' \subseteq Messages
    <3>1. CASE RetryFunc(c)
      <4>1. c \in Actors /\ pc[c] = "retry"
        BY <3>1 DEF RetryFunc, Actors
      <4>2. hand[c] \in Messages
        BY <1>0, <4>1 DEF QControl, Carrying
      <4> QED
        BY <1>0, <3>1, <4>2 DEF RetryFunc, QTables
    <3>2. CASE ~RetryFunc(c)
      BY <1>0, <2>2, <3>2 DEF Run, Stop, Cancel, Step, DequeueFails, DequeueResent, Crash, RunEnds, ScanQueues, DrainCancelled, QueueLength,
         Dequeue, Bounce, Requeue, EnqueueFails, list, QTables
    <3> QED
      BY <3>1, <3>2
  <2>3. ASSUME NEW s \in Scopes, PruneDequeue(s) \/ PruneFails(s) \/ PruneEnqueue PROVE future' \subseteq Messages
    BY <1>0, <2>3 DEF PruneDequeue, PruneFails, PruneEnqueue, QTables
  <2>4. CASE PruneEnqueue
    BY <1>0, <2>4 DEF PruneEnqueue, QTables
  <2> QED
    BY <2>1, <2>r, <2>b, <2>2, <2>3, <2>4 DEF QueueNext
<1> HIDE DEF Messages, MaxRetries, Scopes, Actors
<1>2. /\ queue' \in [Scopes -> Seq(Messages)] /\ tenant' \in [Messages -> Scopes]
      /\ retryCount' \in [Messages -> Nat] /\ (\A m \in Messages : retryCount'[m] <= MaxRetries)
      /\ entered' \subseteq Messages
      /\ calls' \in [Messages -> Nat] /\ servedAs' \in [Messages -> Scopes \cup {NoMessage}]
      /\ origin' \in [Messages -> Messages]
  <2>0. Move
    BY Steps
  <2> USE <1>0, <1>k DEF QTables, Data
  <2>1. ASSUME NEW m \in Messages, Enters(m) PROVE <1>2!:
    <3>1. Append(queue[tenant[m]], m) \in Seq(Messages)
      BY Appended
    <3>2. queue' \in [Scopes -> Seq(Messages)]
      BY <2>1, <3>1 DEF Enters, Push
    <3> QED
      BY <2>1, <3>2 DEF Enters
  <2>c. ASSUME NEW m \in Messages, NEW d \in Messages, NEW s \in Scopes, Copies(m, d, s) PROVE <1>2!:
    <3>1. Append(queue[s], d) \in Seq(Messages)
      BY Appended
    <3>2. queue' \in [Scopes -> Seq(Messages)]
      BY <2>c, <3>1 DEF Copies, Push
    <3>3. origin' \in [Messages -> Messages] /\ tenant' \in [Messages -> Scopes]
      BY <2>c DEF Copies
    <3>4. retryCount' \in [Messages -> Nat] /\ (\A n \in Messages : retryCount'[n] <= MaxRetries)
      BY <2>c DEF Copies
    <3>5. calls' \in [Messages -> Nat] /\ servedAs' \in [Messages -> Scopes \cup {NoMessage}]
      BY <2>c DEF Copies
    <3> QED
      BY <2>c, <3>2, <3>3, <3>4, <3>5 DEF Copies
  <2>2. ASSUME NEW a \in Actors, Rests(a) PROVE <1>2!:
    BY <2>2 DEF Rests
  <2>3. ASSUME NEW a \in Actors, Returns(a) PROVE <1>2!:
    <3>1. hand[a] \in Messages /\ Effective(hand[a], Scope(a)) \in Scopes
      BY <1>h, <2>3 DEF Returns, Effective
    <3>2. Append(queue[Effective(hand[a], Scope(a))], hand[a]) \in Seq(Messages)
      BY <3>1, Appended
    <3>3. queue' \in [Scopes -> Seq(Messages)] /\ tenant' \in [Messages -> Scopes]
      BY <2>3, <3>1, <3>2 DEF Returns, PutBack, Push
    <3> QED
      BY <2>3, <3>3 DEF Returns
  <2>4. ASSUME NEW a \in Actors, Loses(a) PROVE <1>2!:
    BY <2>4 DEF Loses
  <2>5. ASSUME NEW a \in Actors, Serves(a) PROVE <1>2!:
    <3>1. hand[a] \in Messages /\ Effective(hand[a], Scope(a)) \in Scopes /\ retryCount[hand[a]] < MaxRetries
      BY <1>h, <2>5 DEF Serves, Effective, RetryOK
    <3>2. calls' \in [Messages -> Nat] /\ servedAs' \in [Messages -> Scopes \cup {NoMessage}]
      BY <2>5, <3>1 DEF Serves
    <3>3. retryCount' \in [Messages -> Nat] /\ (\A m \in Messages : retryCount'[m] <= MaxRetries)
      <4>1. CASE UNCHANGED retryCount
        BY <4>1
      <4>2. CASE retryCount' = [retryCount EXCEPT ![hand[a]] = @ + 1]
        BY <3>1, <4>2
      <4> QED
        BY <2>5, <4>1, <4>2 DEF Serves
    <3> QED
      BY <2>5, <3>2, <3>3 DEF Serves
  <2>6. ASSUME NEW a \in Actors, NEW s \in Scopes, Takes(a, s) \/ Discards(a, s) PROVE <1>2!:
    <3>1. Tail(queue[s]) \in Seq(Messages)
      BY <2>6, WithoutFirst DEF Takes, Discards
    <3>2. queue' \in [Scopes -> Seq(Messages)]
      BY <2>6, <3>1 DEF Takes, Discards, LPop
    <3> QED
      BY <2>6, <3>2 DEF Takes, Discards
  <2> QED
    BY <2>0, <2>1, <2>c, <2>2, <2>3, <2>4, <2>5, <2>6 DEF Move
<1> QED
  BY <1>0, <1>1, <1>2, <1>c DEF QTables, Scopes

(* A drain that returns leaves its consumer ready for the next scope, or   *)
(* out of the cycle.                                                       *)
LEMMA DrainKeeps ==
    ASSUME QInv, cfg' = cfg, NEW c \in Consumers, NEW n, DrainReturns(c, n), pc[c] \in Busy
    PROVE  QControl' /\ QCursor' /\ QCounters' /\ QFlags'
<1>0. QTables /\ QControl /\ QCursor /\ QCounters /\ QFlags /\ c \in Actors /\ c # Pruner /\ Pruner \in Actors
  BY QueueAssumption DEF QInv, QTables, Actors, Consumers
<1>k. BatchSize \in Nat /\ 0 < BatchSize
  BY <1>0, QueueAssumption DEF QTables, BatchSize
<1>c. Messages' = Messages /\ BatchSize' = BatchSize /\ Consumers' = Consumers /\ Actors' = Actors
  BY DEF Messages, BatchSize, Consumers, Actors
<1> HIDE DEF Messages, BatchSize, Consumers, Actors
<1> DEFINE over == \/ Full(processed[c] + 1) \/ c \in cancelled
                   \/ (at[c] = Len(scopes[c]) /\ ~(progressed[c] \/ n > 0))
           last == at[c] = Len(scopes[c])
<1>1. pc' = [pc EXCEPT ![c] = IF over THEN "idle" ELSE "length"] /\ hand' = [hand EXCEPT ![c] = NoMessage]
      /\ UNCHANGED <<stopCh, cancelled>>
  BY DEF DrainReturns, Goto
<1>2. /\ scopes' = [scopes EXCEPT ![c] = IF over THEN <<>> ELSE scopes[c]]
      /\ at' = [at EXCEPT ![c] = IF over \/ last THEN 1 ELSE at[c] + 1]
  BY <1>0 DEF DrainReturns, QCursor
<1>3. /\ processed' = [processed EXCEPT ![c] = IF over THEN 0 ELSE processed[c] + 1]
      /\ rotations' = [rotations EXCEPT ![c] = 0] /\ rotationCap' = [rotationCap EXCEPT ![c] = 0]
  BY <1>0 DEF DrainReturns, QCounters
<1>4. ~over => processed[c] + 1 < BatchSize
  BY <1>0, <1>k DEF Full, QCounters
<1>f. progressed' = [progressed EXCEPT ![c] = (progressed[c] \/ n > 0) /\ ~last /\ ~over]
  BY DEF DrainReturns
<1> HIDE DEF over, last
<1>5. QControl'
  BY <1>0, <1>1, <1>c DEF QControl, Pcs, Busy, Carrying
<1>6. QCursor'
  <2>1. Len(scopes[c]) \in Nat /\ 1 <= at[c] /\ at[c] <= Len(scopes[c]) /\ <<>> \in Seq(Scopes)
    BY <1>0 DEF QCursor
  <2>2. scopes' \in [Actors -> Seq(Scopes)] /\ at' \in [Actors -> Nat]
    BY <1>0, <1>2, <2>1 DEF QCursor
  <2>3. \A a \in Actors \ {c} : pc'[a] = pc[a] /\ scopes'[a] = scopes[a] /\ at'[a] = at[a]
    BY <1>0, <1>1, <1>2 DEF QControl, QCursor
  <2>4. pc'[c] = (IF over THEN "idle" ELSE "length") /\ scopes'[c] = (IF over THEN <<>> ELSE scopes[c])
        /\ at'[c] = (IF over \/ last THEN 1 ELSE at[c] + 1)
    BY <1>0, <1>1, <1>2 DEF QControl, QCursor
  <2>5. pc'[c] \in Busy => 1 <= at'[c] /\ at'[c] <= Len(scopes'[c])
    BY <1>0, <2>1, <2>4 DEF Busy, QCursor, last
  <2>6. pc'[c] \notin Busy => at'[c] = 1
    BY <2>4 DEF Busy
  <2> QED
    BY <1>0, <1>c, <2>2, <2>3, <2>5, <2>6 DEF QCursor, Scopes
<1>7. QCounters'
  BY <1>0, <1>3, <1>4, <1>k, <1>c DEF QCounters
<1>8. QFlags'
  BY <1>0, <1>c, <1>f DEF QFlags
<1> QED
  BY <1>5, <1>6, <1>7, <1>8

(* The smaller of two numbers.                                             *)
LEMMA MinOfTwo ==
    ASSUME NEW x \in Nat, NEW y \in Nat
    PROVE  Min({x, y}) \in Nat /\ Min({x, y}) <= y
<1>1. \E z \in {x, y} : \A k \in {x, y} : z <= k
  OBVIOUS
<1>2. Min({x, y}) \in {x, y} /\ \A k \in {x, y} : Min({x, y}) <= k
  BY <1>1 DEF Min
<1> QED
  BY <1>2

LEMMA QueueControl ==
    ASSUME QInv, QueueNext
    PROVE  QControl' /\ QCursor' /\ QCounters' /\ QFlags'
<1>0. QTables /\ QControl /\ QCursor /\ QCounters /\ QFlags /\ PlaceOK /\ cfg' = cfg
  BY DEF QInv, QueueNext
<1>p. Pruner \in Actors /\ Consumers \subseteq Actors /\ Pruner \notin Consumers
  BY <1>0, QueueAssumption DEF QTables, Actors, Consumers
<1>k. BatchSize \in Nat /\ 0 < BatchSize
  BY <1>0, QueueAssumption DEF QTables, BatchSize
<1>c. Messages' = Messages /\ BatchSize' = BatchSize /\ Consumers' = Consumers /\ Actors' = Actors /\ Scopes' = Scopes
  BY <1>0 DEF Messages, BatchSize, Consumers, Actors, Scopes
<1>s. \A a \in Actors : pc[a] \in Busy => Scope(a) \in Scopes
  BY <1>0 DEF QCursor, Scope
<1>n. NoMessage \notin Messages
  BY <1>0, QueueAssumption DEF QTables, Messages
<1>h. \A s \in Scopes : queue[s] # <<>> => Head(queue[s]) \in Messages
  BY <1>0, WithoutFirst DEF QTables
<1> HIDE DEF Messages, BatchSize, Consumers, Actors, Scopes
<1> DEFINE Goal == QControl' /\ QCursor' /\ QCounters' /\ QFlags'
<1>g. ASSUME UNCHANGED <<processed, rotations, rotationCap, progressed>> PROVE QCounters' /\ QFlags'
  BY <1>0, <1>c, <1>g DEF QCounters, QFlags
<1>1. ASSUME NEW m \in Messages, Enqueue(m) \/ Elapse(m) PROVE Goal
  BY <1>0, <1>c, <1>g, <1>1 DEF Enqueue, Elapse, cursor, QControl, QCursor
<1>13. ASSUME (\E m \in Messages : EnqueueResent(m)) \/ (\E a \in Actors : PutBackResent(a)) \/ (\E c \in Consumers : DequeueResent(c))
       PROVE  Goal
  <2>1. UNCHANGED <<stopCh, cancelled, pc, cursor, hand>>
    BY <1>13 DEF EnqueueResent, PutBackResent, DequeueResent, Resent
  <2> QED
    BY <1>0, <1>c, <1>g, <2>1 DEF cursor, QControl, QCursor
<1>2. ASSUME NEW c \in Consumers, Run(c) \/ Stop(c) \/ Cancel(c) \/ RunEnds(c) PROVE Goal
  <2>1. UNCHANGED <<hand, scopes, at, processed, rotations, rotationCap, progressed>>
    BY <1>2 DEF Run, Stop, Cancel, RunEnds, cursor
  <2>2. QControl'
    BY <1>0, <1>c, <1>p, <1>2, <2>1 DEF Run, Stop, Cancel, RunEnds, Goto, QControl, Pcs, Busy, Carrying
  <2>3. QCursor'
    BY <1>0, <1>c, <1>p, <1>2, <2>1 DEF Run, Stop, Cancel, RunEnds, Goto, QControl, QCursor, Busy
  <2> QED
    BY <1>g, <2>1, <2>2, <2>3
<1>3. ASSUME NEW c \in Consumers, ScanQueues(c) PROVE Goal
  <2>1. PICK k \in KeyContexts : scopes' = [scopes EXCEPT ![c] = k]
    BY <1>3 DEF ScanQueues
  <2>2. k \in Seq(Scopes)
    <3>1. CASE TenantKeys = {}
      <4>1. k = <<Global>> /\ Global \in Scopes
        BY <2>1, <3>1 DEF KeyContexts, Scopes
      <4> QED
        BY <4>1, OneElement
    <3>2. CASE TenantKeys # {}
      <4>1. IsFiniteSet(TenantKeys) /\ TenantKeys \subseteq Scopes
        BY QueueAssumption, FS_Subset DEF TenantKeys, Scopes
      <4>2. Cardinality(TenantKeys) \in Nat
        BY <4>1, FS_CardinalityType
      <4>3. k \in [1 .. Cardinality(TenantKeys) -> TenantKeys]
        BY <2>1, <3>2 DEF KeyContexts, SetToSeqs
      <4> QED
        BY <4>1, <4>2, <4>3
    <3> QED
      BY <3>1, <3>2
  <2>3. pc[c] = "idle" /\ pc' = [pc EXCEPT ![c] = IF k = <<>> THEN "idle" ELSE "length"] /\ UNCHANGED <<hand, at, stopCh, cancelled>>
        /\ UNCHANGED <<processed, rotations, rotationCap, progressed>>
    BY <1>0, <1>3, <1>p, <2>1 DEF ScanQueues, Goto, QCursor
  <2>4. QControl'
    BY <1>0, <1>c, <1>p, <2>3 DEF QControl, Pcs, Busy, Carrying
  <2>5. QCursor'
    <3>1. k # <<>> => 1 <= Len(k)
      BY <2>2
    <3>2. at[c] = 1
      BY <1>0, <1>p, <2>3 DEF QCursor, Busy
    <3> QED
      BY <1>0, <1>c, <1>p, <2>1, <2>2, <2>3, <3>1, <3>2 DEF QControl, QCursor, Busy
  <2> QED
    BY <1>g, <2>3, <2>4, <2>5
<1>4. ASSUME NEW c \in Consumers, DrainCancelled(c) PROVE Goal
  BY <1>0, <1>4, DrainKeeps DEF DrainCancelled, Busy
<1>5. ASSUME NEW c \in Consumers, QueueLength(c) PROVE Goal
  <2>1. CASE DrainReturns(c, 0)
    BY <1>0, <1>5, <2>1, DrainKeeps DEF QueueLength, Busy
  <2>2. CASE /\ rotationCap' = [rotationCap EXCEPT ![c] = Min({Len(queue[Scope(c)]), BatchSize})]
             /\ rotations' = [rotations EXCEPT ![c] = 0] /\ Goto(c, "pop")
             /\ UNCHANGED <<scopes, at, processed, progressed, stopCh, cancelled, hand>>
    <3>1. pc[c] = "length" /\ c \in Actors /\ Scope(c) \in Scopes
      BY <1>5, <1>p, <1>s DEF QueueLength, Busy
    <3>2. Min({Len(queue[Scope(c)]), BatchSize}) \in Nat /\ Min({Len(queue[Scope(c)]), BatchSize}) <= BatchSize
      <4>1. Len(queue[Scope(c)]) \in Nat
        BY <1>0, <3>1 DEF QTables
      <4> QED
        BY <1>k, <4>1, MinOfTwo
    <3>3. QControl' /\ QCursor'
      BY <1>0, <1>c, <1>p, <2>2, <3>1 DEF Goto, QControl, QCursor, Pcs, Busy, Carrying
    <3>4. QCounters'
      <4> DEFINE r == Min({Len(queue[Scope(c)]), BatchSize})
      <4>1. /\ rotationCap' = [rotationCap EXCEPT ![c] = r] /\ r \in Nat /\ r <= BatchSize
            /\ rotations' = [rotations EXCEPT ![c] = 0] /\ UNCHANGED processed
        BY <2>2, <3>2
      <4> HIDE DEF r
      <4> QED
        BY <1>0, <1>c, <4>1 DEF QCounters
    <3>5. QFlags'
      BY <1>0, <1>c, <2>2 DEF QFlags
    <3> QED
      BY <3>3, <3>4, <3>5
  <2> QED
    BY <1>5, <2>1, <2>2 DEF QueueLength
<1>6. ASSUME NEW c \in Consumers, Dequeue(c) PROVE Goal
  <2>1. CASE DrainReturns(c, 0) \/ DrainReturns(c, 1)
    BY <1>0, <1>6, <2>1, DrainKeeps DEF Dequeue, Busy
  <2>2. CASE /\ queue[Scope(c)] # <<>> /\ Goto(c, IF Head(queue[Scope(c)]) \in future THEN "bounce" ELSE "retry")
             /\ hand' = [hand EXCEPT ![c] = Head(queue[Scope(c)])] /\ UNCHANGED <<cursor, stopCh, cancelled>>
    <3>1. pc[c] = "pop" /\ c \in Actors /\ Head(queue[Scope(c)]) \in Messages
      BY <1>6, <1>p, <1>s, <1>h, <2>2 DEF Dequeue, Busy
    <3>2. QControl' /\ QCursor'
      BY <1>0, <1>c, <1>p, <1>n, <2>2, <3>1 DEF Goto, QControl, QCursor, Pcs, Busy, Carrying, cursor
    <3> QED
      BY <1>g, <2>2, <3>2 DEF cursor
  <2> QED
    BY <1>6, <2>1, <2>2 DEF Dequeue
<1>7. ASSUME NEW c \in Consumers, DequeueFails(c) \/ Requeue(c) \/ EnqueueFails(c) PROVE Goal
  BY <1>0, <1>7, DrainKeeps DEF DequeueFails, Requeue, EnqueueFails, Busy
<1>8. ASSUME NEW c \in Consumers, Bounce(c) PROVE Goal
  <2>1. CASE DrainReturns(c, 0)
    BY <1>0, <1>8, <2>1, DrainKeeps DEF Bounce, Busy
  <2>2. CASE /\ rotations[c] + 1 < rotationCap[c]
             /\ rotations' = [rotations EXCEPT ![c] = @ + 1] /\ Goto(c, "pop")
             /\ hand' = [hand EXCEPT ![c] = NoMessage]
             /\ UNCHANGED <<scopes, at, processed, progressed, rotationCap, stopCh, cancelled>>
    <3>1. pc[c] = "bounce" /\ c \in Actors
      BY <1>8, <1>p DEF Bounce
    <3>2. QControl' /\ QCursor'
      BY <1>0, <1>c, <1>p, <2>2, <3>1 DEF Goto, QControl, QCursor, Pcs, Busy, Carrying
    <3>3. QCounters'
      BY <1>0, <1>c, <2>2 DEF QCounters
    <3>4. QFlags'
      BY <1>0, <1>c, <2>2 DEF QFlags
    <3> QED
      BY <3>2, <3>3, <3>4
  <2> QED
    BY <1>8, <2>1, <2>2 DEF Bounce
<1>9. ASSUME NEW c \in Consumers, RetryFunc(c) PROVE Goal
  <2>1. CASE DrainReturns(c, 1)
    BY <1>0, <1>9, <2>1, DrainKeeps DEF RetryFunc, Busy
  <2>2. CASE Goto(c, "requeue") /\ UNCHANGED <<cursor, stopCh, cancelled, hand>>
    <3>1. pc[c] = "retry" /\ c \in Actors
      BY <1>9, <1>p DEF RetryFunc
    <3>2. QControl' /\ QCursor'
      BY <1>0, <1>c, <1>p, <2>2, <3>1 DEF Goto, QControl, QCursor, Pcs, Busy, Carrying, cursor
    <3> QED
      BY <1>g, <2>2, <3>2 DEF cursor
  <2> QED
    BY <1>9, <2>1, <2>2 DEF RetryFunc
<1>10. ASSUME NEW c \in Consumers, Crash(c) PROVE Goal
  <2>1. /\ pc' = [pc EXCEPT ![c] = "done"] /\ hand' = [hand EXCEPT ![c] = NoMessage]
        /\ scopes' = [scopes EXCEPT ![c] = <<>>] /\ at' = [at EXCEPT ![c] = 1] /\ UNCHANGED <<stopCh, cancelled>>
    BY <1>10 DEF Crash, Goto
  <2>2. QControl'
    BY <1>0, <1>c, <1>p, <2>1 DEF QControl, Pcs, Busy, Carrying
  <2>3. QCursor'
    BY <1>0, <1>c, <1>p, <2>1 DEF QControl, QCursor, Busy
  <2>4. QCounters'
    BY <1>0, <1>c, <1>k, <1>10 DEF Crash, QCounters
  <2>5. QFlags'
    BY <1>0, <1>c, <1>10 DEF Crash, QFlags
  <2> QED
    BY <2>2, <2>3, <2>4, <2>5
<1>11. ASSUME NEW s \in Scopes, PruneDequeue(s) PROVE Goal
  <2>1. /\ pc[Pruner] = "idle" /\ scopes' = [scopes EXCEPT ![Pruner] = <<s>>] /\ queue[s] # <<>>
        /\ UNCHANGED <<stopCh, cancelled, at, processed, rotations, rotationCap, progressed>>
        /\ \/ UNCHANGED <<pc, hand>>
           \/ hand' = [hand EXCEPT ![Pruner] = Head(queue[s])] /\ pc' = [pc EXCEPT ![Pruner] = "requeue"]
    BY <1>11 DEF PruneDequeue, Goto
  <2>2. QControl'
    BY <1>0, <1>c, <1>p, <1>n, <1>h, <2>1 DEF QControl, Pcs, Busy, Carrying
  <2>3. QCursor'
    <3>1. <<s>> \in Seq(Scopes) /\ Len(<<s>>) = 1 /\ at[Pruner] = 1
      BY <1>0, <1>p, <2>1 DEF QCursor, Busy
    <3>2. \A a \in Actors \ {Pruner} : pc'[a] = pc[a] /\ scopes'[a] = scopes[a]
      BY <1>0, <1>p, <2>1 DEF QControl, QCursor
    <3>3. scopes' \in [Actors -> Seq(Scopes)] /\ Len(scopes'[Pruner]) = 1 /\ at' = at
      BY <1>0, <1>p, <2>1, <3>1 DEF QCursor
    <3>6. 1 <= at'[Pruner] /\ at'[Pruner] <= Len(scopes'[Pruner])
      BY <3>1, <3>3
    <3>4. ASSUME NEW a \in Actors, pc'[a] \in Busy PROVE 1 <= at'[a] /\ at'[a] <= Len(scopes'[a])
      <4>1. CASE a = Pruner
        BY <3>6, <4>1
      <4>2. CASE a # Pruner
        <5>1. pc'[a] = pc[a] /\ scopes'[a] = scopes[a] /\ at'[a] = at[a]
          BY <3>2, <3>3, <4>2
        <5> QED
          BY <1>0, <3>4, <5>1 DEF QCursor
      <4> QED
        BY <4>1, <4>2
    <3>5. \A a \in Actors : pc'[a] \notin Busy => at'[a] = 1
      BY <1>0, <3>2, <3>3 DEF QCursor
    <3> QED
      BY <1>0, <1>c, <3>3, <3>4, <3>5 DEF QCursor
  <2> QED
    BY <1>g, <2>1, <2>2, <2>3
<1>12. ASSUME PruneEnqueue \/ \E s \in Scopes : PruneFails(s) PROVE Goal
  <2>1. /\ pc' = [pc EXCEPT ![Pruner] = "idle"] /\ hand' = [hand EXCEPT ![Pruner] = NoMessage]
        /\ UNCHANGED <<stopCh, cancelled, cursor>>
    BY <1>12 DEF PruneEnqueue, PruneFails, Goto
  <2>2. QControl'
    BY <1>0, <1>c, <1>p, <2>1 DEF QControl, Pcs, Busy, Carrying
  <2>3. QCursor'
    <3>1. at[Pruner] = 1
      BY <1>0, <1>p DEF QControl, QCursor, Busy
    <3> QED
      BY <1>0, <1>c, <1>p, <2>1, <3>1 DEF QControl, QCursor, Busy, cursor
  <2> QED
    BY <1>g, <2>1, <2>2, <2>3 DEF cursor
<1> QED
  BY <1>1, <1>2, <1>3, <1>4, <1>5, <1>6, <1>7, <1>8, <1>9, <1>10, <1>11, <1>12, <1>13 DEF QueueNext, Step

(* What the moves of a message do to the lists.                            *)
LEMMA Entered ==
    ASSUME QInv, NEW m \in Messages, Enters(m)
    PROVE  /\ Single(queue', Scopes) /\ ~Listed(m)
           /\ \A t \in Scopes : \A n : Holds(queue', t, n) <=> Holds(queue, t, n) \/ (t = tenant[m] /\ n = m)
<1>1. queue \in Lists(Scopes, Messages) /\ tenant[m] \in Scopes /\ Single(queue, Scopes)
  BY DEF QInv, QTables, PlaceOK, Lists
<1>2. ~Listed(m)
  BY DEF QInv, PlaceOK, Enters
<1>3. \A t \in Scopes : ~Holds(queue, t, m)
  BY <1>2 DEF Listed
<1>4. queue' = Add(queue, tenant[m], m)
  BY <1>1 DEF Enters, Push, Add, Lists
<1> HIDE DEF Messages, Scopes
<1> QED
  BY <1>1, <1>2, <1>3, <1>4, Pushed

LEMMA Copied ==
    ASSUME QInv, NEW m \in Messages, NEW d \in Messages, NEW s \in Scopes, Copies(m, d, s)
    PROVE  /\ Single(queue', Scopes) /\ ~Listed(d)
           /\ \A a \in Actors : hand[a] # d
           /\ \A t \in Scopes : \A n : Holds(queue', t, n) <=> Holds(queue, t, n) \/ (t = s /\ n = d)
<1>1. queue \in Lists(Scopes, Messages) /\ Single(queue, Scopes)
  BY DEF QInv, QTables, PlaceOK, Lists
<1>2. ~Listed(d) /\ \A a \in Actors : hand[a] # d
  BY DEF QInv, PlaceOK, Copies
<1>3. \A t \in Scopes : ~Holds(queue, t, d)
  BY <1>2 DEF Listed
<1>4. queue' = Add(queue, s, d)
  BY <1>1 DEF Copies, Push, Add, Lists
<1> HIDE DEF Messages, Scopes
<1> QED
  BY <1>1, <1>2, <1>3, <1>4, Pushed

LEMMA Returned ==
    ASSUME QInv, NEW a \in Actors, Returns(a)
    PROVE  /\ hand[a] \in Messages /\ Effective(hand[a], Scope(a)) \in Scopes /\ Single(queue', Scopes)
           /\ \A t \in Scopes : \A n : Holds(queue', t, n) <=>
                Holds(queue, t, n) \/ (t = Effective(hand[a], Scope(a)) /\ n = hand[a])
<1>1. queue \in Lists(Scopes, Messages) /\ Single(queue, Scopes)
  BY DEF QInv, QTables, PlaceOK, Lists
<1>2. hand[a] \in Messages /\ ~Listed(hand[a]) /\ pc[a] \in Busy
  BY DEF QInv, QControl, PlaceOK, Returns, Carrying, Busy
<1>3. Scope(a) \in Scopes
  BY <1>2 DEF QInv, QCursor, Scope
<1>4. Effective(hand[a], Scope(a)) \in Scopes
  BY <1>2, <1>3 DEF QInv, QTables, Effective
<1>5. \A t \in Scopes : ~Holds(queue, t, hand[a])
  BY <1>2 DEF Listed
<1>6. queue' = Add(queue, Effective(hand[a], Scope(a)), hand[a])
  BY <1>1, <1>4 DEF Returns, PutBack, Push, Add, Lists
<1> HIDE DEF Messages, Scopes
<1> QED
  BY <1>1, <1>2, <1>4, <1>5, <1>6, Pushed

LEMMA Removed ==
    ASSUME QInv, NEW s \in Scopes, queue[s] # <<>>, LPop(s)
    PROVE  /\ Head(queue[s]) \in Messages /\ Holds(queue, s, Head(queue[s])) /\ Single(queue', Scopes)
           /\ \A t \in Scopes : \A n : Holds(queue', t, n) <=> Holds(queue, t, n) /\ n # Head(queue[s])
<1>1. queue \in Lists(Scopes, Messages) /\ Single(queue, Scopes)
  BY DEF QInv, QTables, PlaceOK, Lists
<1>2. queue' = Pop(queue, s)
  BY <1>1 DEF LPop, Pop, Lists
<1> HIDE DEF Messages, Scopes
<1> QED
  BY <1>1, <1>2, Popped

(* A message stays in one place.                                           *)
LEMMA QueuePlace ==
    ASSUME QInv, QueueNext
    PROVE  PlaceOK'
<1>0. PlaceOK /\ cfg' = cfg /\ hand \in [Actors -> Messages \cup {NoMessage}] /\ NoMessage \notin Messages
  BY QueueAssumption DEF QInv, QTables, QControl, QueueNext, Messages
<1>c. Messages' = Messages /\ Actors' = Actors /\ Scopes' = Scopes
  BY <1>0 DEF Messages, Consumers, Actors, Scopes
<1>m. Move
  BY Steps
<1> HIDE DEF Messages, Actors, Scopes
<1>1. ASSUME NEW m \in Messages, Enters(m) PROVE PlaceOK'
  <2>1. Single(queue', Scopes) /\ ~Listed(m) /\ tenant[m] \in Scopes
        /\ \A t \in Scopes : \A n : Holds(queue', t, n) <=> Holds(queue, t, n) \/ (t = tenant[m] /\ n = m)
    BY <1>1, Entered DEF QInv, QTables
  <2>2. hand' = hand /\ entered' = entered \cup {m} /\ Grows /\ \A a \in Actors : hand[a] # m
    BY <1>0, <1>1 DEF Enters, PlaceOK
  <2> QED
    BY <1>0, <1>c, <2>1, <2>2 DEF PlaceOK, Listed, Grows
<1>c1. ASSUME NEW m \in Messages, NEW d \in Messages, NEW s \in Scopes, Copies(m, d, s) PROVE PlaceOK'
  <2>1. Single(queue', Scopes) /\ ~Listed(d) /\ (\A a \in Actors : hand[a] # d)
        /\ \A t \in Scopes : \A n : Holds(queue', t, n) <=> Holds(queue, t, n) \/ (t = s /\ n = d)
    BY <1>c1, Copied
  <2>2. hand' = hand /\ entered' = entered \cup {d} /\ Grows
    BY <1>c1 DEF Copies
  <2> QED
    BY <1>0, <1>c, <2>1, <2>2 DEF PlaceOK, Listed, Grows
<1>2. ASSUME NEW a \in Actors, Rests(a) PROVE PlaceOK'
  BY <1>0, <1>c, <1>2 DEF Rests, PlaceOK, Listed, Grows, Data
<1>3. ASSUME NEW a \in Actors, Returns(a) PROVE PlaceOK'
  <2> DEFINE e == Effective(hand[a], Scope(a))
  <2>1. /\ hand[a] \in Messages /\ e \in Scopes /\ Single(queue', Scopes)
        /\ \A t \in Scopes : \A n : Holds(queue', t, n) <=> Holds(queue, t, n) \/ (t = e /\ n = hand[a])
    BY <1>3, Returned
  <2>2. /\ hand'[a] = NoMessage /\ \A b \in Actors : b # a => hand'[b] = hand[b]
        /\ entered' = entered /\ Grows /\ hand[a] # NoMessage
    BY <1>0, <1>3 DEF Returns
  <2> HIDE DEF e
  <2> QED
    BY <1>0, <1>c, <2>1, <2>2 DEF PlaceOK, Listed, Grows
<1>4. ASSUME NEW a \in Actors, Loses(a) PROVE PlaceOK'
  <2>1. /\ hand'[a] = NoMessage /\ \A b \in Actors : b # a => hand'[b] = hand[b]
        /\ entered' = entered /\ Grows /\ hand[a] # NoMessage /\ queue' = queue /\ hand[a] \in accounted' \cup silent'
    BY <1>0, <1>4 DEF Loses, Data
  <2> QED
    BY <1>0, <1>c, <2>1 DEF PlaceOK, Listed, Grows
<1>5. ASSUME NEW a \in Actors, Serves(a) PROVE PlaceOK'
  <2>1. entered' = entered /\ Grows /\ hand[a] # NoMessage /\ queue' = queue
    BY <1>5 DEF Serves
  <2>2. CASE hand[a] \in accounted' /\ hand' = [hand EXCEPT ![a] = NoMessage]
    <3>1. hand'[a] = NoMessage /\ \A b \in Actors : b # a => hand'[b] = hand[b]
      BY <1>0, <2>2
    <3> QED
      BY <1>0, <1>c, <2>1, <2>2, <3>1 DEF PlaceOK, Listed, Grows
  <2>3. CASE UNCHANGED hand
    BY <1>0, <1>c, <2>1, <2>3 DEF PlaceOK, Listed, Grows
  <2> QED
    BY <1>5, <2>2, <2>3 DEF Serves
<1>6. ASSUME NEW a \in Actors, NEW s \in Scopes, Takes(a, s) PROVE PlaceOK'
  <2> DEFINE m == Head(queue[s])
  <2>1. /\ m \in Messages /\ Holds(queue, s, m) /\ Single(queue', Scopes)
        /\ \A t \in Scopes : \A n : Holds(queue', t, n) <=> Holds(queue, t, n) /\ n # m
    BY <1>6, Removed DEF Takes
  <2>2. /\ hand'[a] = m /\ (\A b \in Actors : b # a => hand'[b] = hand[b])
        /\ entered' = entered /\ Grows /\ hand[a] = NoMessage
    BY <1>0, <1>6 DEF Takes, Data
  <2> HIDE DEF m
  <2>3. Listed(m) /\ m \in entered /\ \A n : Listed(n)' <=> Listed(n) /\ n # m
    BY <1>0, <1>c, <2>1 DEF PlaceOK, Listed
  <2>4. \A b \in Actors : hand[b] # m
    BY <1>0, <2>1, <2>3 DEF PlaceOK
  <2>5. \A b \in Actors : hand'[b] # NoMessage => \A t \in Scopes : ~Holds(queue', t, hand'[b])
    BY <1>0, <2>1, <2>2 DEF PlaceOK, Listed
  <2>6. \A b, d \in Actors : hand'[b] # NoMessage /\ hand'[b] = hand'[d] => b = d
    BY <1>0, <2>2, <2>4 DEF PlaceOK
  <2>7. \A n \in Messages : (\E b \in Actors : hand'[b] = n) <=> (\E b \in Actors : hand[b] = n) \/ n = m
    BY <1>0, <2>2
  <2>8. \A n \in Messages : (Listed(n)' \/ \E b \in Actors : hand'[b] = n) => n \in entered'
    BY <1>0, <2>2, <2>3, <2>7 DEF PlaceOK
  <2>9. \A n \in entered' : Listed(n)' \/ (\E b \in Actors : hand'[b] = n) \/ n \in accounted' \cup silent'
    BY <1>0, <2>2, <2>3, <2>7 DEF PlaceOK, Grows, QInv, QTables
  <2> QED
    BY <1>c, <2>1, <2>5, <2>6, <2>8, <2>9 DEF PlaceOK, Listed
<1>7. ASSUME NEW a \in Actors, NEW s \in Scopes, Discards(a, s) PROVE PlaceOK'
  <2> DEFINE m == Head(queue[s])
  <2>1. /\ m \in Messages /\ Holds(queue, s, m) /\ Single(queue', Scopes)
        /\ \A t \in Scopes : \A n : Holds(queue', t, n) <=> Holds(queue, t, n) /\ n # m
    BY <1>7, Removed DEF Discards
  <2>2. hand' = hand /\ entered' = entered /\ Grows /\ m \in accounted' \cup silent'
    BY <1>7 DEF Discards, Data
  <2> HIDE DEF m
  <2> QED
    BY <1>0, <1>c, <2>1, <2>2 DEF PlaceOK, Listed, Grows
<1> QED
  BY <1>m, <1>1, <1>c1, <1>2, <1>3, <1>4, <1>5, <1>6, <1>7 DEF Move

(* A message that was not moved by hand goes from the list of its tenant   *)
(* to a hand of that scope and back.                                       *)
LEMMA QueueTenant ==
    ASSUME QInv, QueueNext
    PROVE  TenantOK'
<1>0. TenantOK /\ cfg' = cfg /\ hand \in [Actors -> Messages \cup {NoMessage}] /\ NoMessage \notin Messages
  BY QueueAssumption DEF QInv, QTables, QControl, QueueNext, Messages
<1>t. tenant \in [Messages -> Scopes] /\ origin \in [Messages -> Messages] /\ servedAs \in [Messages -> Scopes \cup {NoMessage}]
  BY DEF QInv, QTables
<1>c. Messages' = Messages /\ Actors' = Actors /\ Scopes' = Scopes
  BY <1>0 DEF Messages, Consumers, Actors, Scopes
<1>m. Move
  BY Steps
<1>e. ASSUME NEW a \in Actors, hand[a] \in Messages, HomeOf(hand[a]) # Global \/ ~Astray(hand[a])
      PROVE  Effective(hand[a], Scope(a)) = HomeOf(hand[a])
  BY <1>0, <1>e DEF TenantOK, Effective
<1>s. ASSUME NEW a \in Actors, Apart(a)
      PROVE  \A b \in Actors \ {a} : hand'[b] = hand[b] /\ Scope(b)' = Scope(b)
  BY <1>s DEF Apart, Scope
<1>o. ASSUME UNCHANGED origin
      PROVE  \A n : (HomeOf(n)' = HomeOf(n)) /\ (Astray(n)' <=> Astray(n))
  BY <1>0, <1>o DEF HomeOf, Astray
<1> HIDE DEF Messages, Actors, Scopes
<1>1. ASSUME NEW m \in Messages, Enters(m) PROVE TenantOK'
  <2>1. \A t \in Scopes : \A n : Holds(queue', t, n) <=> Holds(queue, t, n) \/ (t = tenant[m] /\ n = m)
    BY <1>1, Entered
  <2>2. UNCHANGED <<hand, tenant, servedAs, origin>> /\ \A a \in Actors : Scope(a)' = Scope(a)
    BY <1>1 DEF Enters, Scope
  <2> QED
    BY <1>0, <1>c, <1>o, <2>1, <2>2 DEF TenantOK
<1>c1. ASSUME NEW m \in Messages, NEW d \in Messages, NEW s \in Scopes, Copies(m, d, s) PROVE TenantOK'
  <2>1. (\A a \in Actors : hand[a] # d) /\ ~Listed(d)
        /\ \A t \in Scopes : \A n : Holds(queue', t, n) <=> Holds(queue, t, n) \/ (t = s /\ n = d)
    BY <1>c1, Copied
  <2>2. UNCHANGED hand /\ \A a \in Actors : Scope(a)' = Scope(a)
    BY <1>c1 DEF Copies, Scope
  <2>3. /\ tenant'[d] = s /\ servedAs'[d] = servedAs[m]
        /\ \A n \in Messages \ {d} : tenant'[n] = tenant[n] /\ servedAs'[n] = servedAs[n]
    BY <1>t, <1>c1 DEF Copies
  <2>4. origin'[d] = origin[m] /\ \A n \in Messages \ {d} : origin'[n] = origin[n]
    BY <1>t, <1>c1 DEF Copies
  <2>5. HomeOf(d)' = HomeOf(m) /\ (Astray(d)' <=> Astray(m))
    BY <1>0, <2>4 DEF HomeOf, Astray
  <2>6. \A n \in Messages \ {d} : HomeOf(n)' = HomeOf(n) /\ (Astray(n)' <=> Astray(n))
    BY <1>0, <2>4 DEF HomeOf, Astray
  <2>7. HomeOf(m) # Global \/ ~Astray(m) => s = HomeOf(m)
    BY <1>c1 DEF Copies
  <2>8. \A n \in Messages : HomeOf(n)' # Global \/ ~Astray(n)' => tenant'[n] = HomeOf(n)'
    BY <1>0, <2>3, <2>5, <2>6, <2>7 DEF TenantOK
  <2>9. \A t \in Scopes : \A n \in Messages : Holds(queue', t, n) => t = HomeOf(n)' \/ Astray(n)'
    BY <1>0, <2>1, <2>5, <2>6, <2>7 DEF TenantOK, Listed
  <2>10. \A n \in Messages : HomeOf(n)' # Global => servedAs'[n] \in {NoMessage, HomeOf(n)'}
    BY <1>0, <2>3, <2>5, <2>6 DEF TenantOK
  <2>11. \A a \in Actors : hand[a] \in Messages => Scope(a) = HomeOf(hand[a])' \/ Astray(hand[a])'
    BY <1>0, <2>1, <2>2, <2>6 DEF TenantOK
  <2> QED
    BY <1>0, <1>c, <2>2, <2>8, <2>9, <2>10, <2>11 DEF TenantOK
<1>2. ASSUME NEW a \in Actors, Rests(a) PROVE TenantOK'
  <2>1. UNCHANGED <<queue, hand, tenant, servedAs, origin>>
    BY <1>2 DEF Rests, Data
  <2>2. \A b \in Actors : hand[b] \in Messages => Scope(b)' = Scope(b)
    BY <1>0, <1>2, <1>s DEF Rests, Scope
  <2> QED
    BY <1>0, <1>c, <1>o, <2>1, <2>2 DEF TenantOK
<1>3. ASSUME NEW a \in Actors, Returns(a) PROVE TenantOK'
  <2> DEFINE e == Effective(hand[a], Scope(a))
  <2>1. /\ hand[a] \in Messages /\ e \in Scopes
        /\ \A t \in Scopes : \A n : Holds(queue', t, n) <=> Holds(queue, t, n) \/ (t = e /\ n = hand[a])
    BY <1>3, Returned
  <2>2. /\ hand'[a] = NoMessage /\ servedAs' = servedAs /\ origin' = origin
        /\ \A b \in Actors \ {a} : hand'[b] = hand[b] /\ Scope(b)' = Scope(b)
    BY <1>0, <1>3, <1>s DEF Returns
  <2>3. tenant' = [tenant EXCEPT ![hand[a]] = e]
    BY <1>3 DEF Returns, PutBack
  <2>4. HomeOf(hand[a]) # Global \/ ~Astray(hand[a]) => e = HomeOf(hand[a])
    BY <1>e, <2>1
  <2> HIDE DEF e
  <2>5. \A n \in Messages : HomeOf(n) # Global \/ ~Astray(n) => tenant'[n] = HomeOf(n)
    BY <1>0, <1>t, <2>1, <2>3, <2>4 DEF TenantOK
  <2>6. \A s \in Scopes : \A n \in Messages : Holds(queue', s, n) => s = HomeOf(n) \/ Astray(n)
    BY <1>0, <2>1, <2>4 DEF TenantOK
  <2>7. \A b \in Actors : hand'[b] \in Messages => Scope(b)' = HomeOf(hand'[b]) \/ Astray(hand'[b])
    BY <1>0, <2>2 DEF TenantOK
  <2> QED
    BY <1>0, <1>c, <1>o, <2>2, <2>5, <2>6, <2>7 DEF TenantOK
<1>4. ASSUME NEW a \in Actors, Loses(a) PROVE TenantOK'
  <2>1. /\ hand'[a] = NoMessage /\ UNCHANGED <<queue, tenant, servedAs, origin>>
        /\ \A b \in Actors \ {a} : hand'[b] = hand[b] /\ Scope(b)' = Scope(b)
    BY <1>0, <1>4, <1>s DEF Loses, Data
  <2> QED
    BY <1>0, <1>c, <1>o, <2>1 DEF TenantOK
<1>5. ASSUME NEW a \in Actors, Serves(a) PROVE TenantOK'
  <2> DEFINE e == Effective(hand[a], Scope(a))
  <2>1. UNCHANGED <<queue, tenant, origin>> /\ hand[a] \in Messages /\ servedAs' = [servedAs EXCEPT ![hand[a]] = e]
    BY <1>0, <1>5 DEF Serves
  <2>2. \A b \in Actors : hand'[b] \in Messages => hand'[b] = hand[b] /\ Scope(b)' = Scope(b)
    BY <1>0, <1>5, <1>s DEF Serves, Scope
  <2>3. HomeOf(hand[a]) # Global => e = HomeOf(hand[a])
    BY <1>e, <2>1
  <2> HIDE DEF e
  <2>4. \A n \in Messages : HomeOf(n) # Global => servedAs'[n] \in {NoMessage, HomeOf(n)}
    BY <1>0, <1>t, <2>1, <2>3 DEF TenantOK
  <2> QED
    BY <1>0, <1>c, <1>o, <2>1, <2>2, <2>4 DEF TenantOK
<1>6. ASSUME NEW a \in Actors, NEW s \in Scopes, Takes(a, s) PROVE TenantOK'
  <2> DEFINE m == Head(queue[s])
  <2>1. /\ m \in Messages /\ Holds(queue, s, m)
        /\ \A t \in Scopes : \A n : Holds(queue', t, n) <=> Holds(queue, t, n) /\ n # m
    BY <1>6, Removed DEF Takes
  <2>2. /\ hand'[a] = m /\ Scope(a)' = s /\ UNCHANGED <<tenant, servedAs, origin>>
        /\ \A b \in Actors \ {a} : hand'[b] = hand[b] /\ Scope(b)' = Scope(b)
    BY <1>0, <1>6, <1>s DEF Takes, Data, Scope
  <2> HIDE DEF m
  <2>3. s = HomeOf(m) \/ Astray(m)
    BY <1>0, <2>1 DEF TenantOK
  <2> QED
    BY <1>0, <1>c, <1>o, <2>1, <2>2, <2>3 DEF TenantOK
<1>7. ASSUME NEW a \in Actors, NEW s \in Scopes, Discards(a, s) PROVE TenantOK'
  <2> DEFINE m == Head(queue[s])
  <2>1. \A t \in Scopes : \A n : Holds(queue', t, n) <=> Holds(queue, t, n) /\ n # m
    BY <1>7, Removed DEF Discards
  <2>2. /\ hand' = hand /\ hand[a] = NoMessage /\ UNCHANGED <<tenant, servedAs, origin>>
        /\ \A b \in Actors \ {a} : Scope(b)' = Scope(b)
    BY <1>7, <1>s DEF Discards, Data
  <2> HIDE DEF m
  <2> QED
    BY <1>0, <1>c, <1>o, <2>1, <2>2 DEF TenantOK
<1> QED
  BY <1>m, <1>1, <1>c1, <1>2, <1>3, <1>4, <1>5, <1>6, <1>7 DEF Move

(* A second copy is made only by a call that failed.                       *)
LEMMA QueueOrigin ==
    ASSUME QInv, QueueNext
    PROVE  OriginOK'
<1>0. OriginOK /\ cfg' = cfg /\ origin \in [Messages -> Messages]
  BY DEF QInv, QTables, QueueNext
<1>c. Messages' = Messages
  BY <1>0 DEF Messages
<1>1. faults' = faults + 1 \/ (faults' = faults /\ origin' = origin)
  <2>1. ASSUME NEW m \in Messages, Enqueue(m) \/ EnqueueResent(m) \/ Elapse(m) PROVE <1>1!:
    BY <2>1 DEF Enqueue, EnqueueResent, Resent, Elapse, Fault, bounds, history
  <2>2. ASSUME NEW c \in Consumers, Run(c) \/ Stop(c) \/ Cancel(c) \/ RunEnds(c) \/ ScanQueues(c) \/ DrainCancelled(c) \/ QueueLength(c)
        PROVE  <1>1!:
    BY <2>2 DEF Run, Stop, Cancel, RunEnds, ScanQueues, DrainCancelled, QueueLength, bounds, history
  <2>3. ASSUME NEW c \in Consumers, Dequeue(c) \/ Bounce(c) \/ RetryFunc(c) \/ Requeue(c)
        PROVE  <1>1!:
    BY <2>3 DEF Dequeue, Bounce, RetryFunc, Requeue, bounds, history
  <2>4. ASSUME NEW c \in Consumers, EnqueueFails(c) \/ DequeueFails(c) \/ DequeueResent(c) \/ Crash(c)
        PROVE  <1>1!:
    BY <2>4 DEF EnqueueFails, DequeueFails, DequeueResent, Crash, Fault, bounds
  <2>5. ASSUME NEW a \in Actors, PutBackResent(a) PROVE <1>1!:
    BY <2>5 DEF PutBackResent, Resent, Fault
  <2>6. ASSUME NEW s \in Scopes, PruneDequeue(s) \/ PruneFails(s) PROVE <1>1!:
    BY <2>6 DEF PruneDequeue, PruneFails, Fault
  <2>7. CASE PruneEnqueue
    BY <2>7 DEF PruneEnqueue, bounds, history
  <2> QED
    BY <2>1, <2>2, <2>3, <2>4, <2>5, <2>6, <2>7 DEF QueueNext, Step
<1> HIDE DEF Messages
<1>2. CASE faults' = faults + 1
  <2>1. PICK f \in Nat : f = faults
    BY <1>0 DEF OriginOK
  <2>2. faults' \in Nat /\ faults' # 0
    BY <1>2, <2>1
  <2> QED
    BY <2>2 DEF OriginOK
<1>3. CASE faults' = faults /\ origin' = origin
  BY <1>0, <1>c, <1>3 DEF OriginOK
<1> QED
  BY <1>1, <1>2, <1>3

(* The calls of a message that can still be retried were counted.          *)
LEMMA QueueRetry ==
    ASSUME QInv, QueueNext
    PROVE  RetryOK'
<1>0. RetryOK /\ PlaceOK /\ cfg' = cfg /\ hand \in [Actors -> Messages \cup {NoMessage}] /\ NoMessage \notin Messages
  BY QueueAssumption DEF QInv, QTables, QControl, QueueNext, Messages
<1>t. retryCount \in [Messages -> Nat] /\ calls \in [Messages -> Nat] /\ MaxRetries \in Nat
  BY QueueAssumption DEF QInv, QTables, MaxRetries
<1>c. Messages' = Messages /\ Actors' = Actors /\ Scopes' = Scopes /\ MaxRetries' = MaxRetries
  BY <1>0 DEF Messages, Consumers, Actors, Scopes, MaxRetries
<1>h. \A a \in Actors : pc[a] = "retry" => hand[a] \in Messages
  BY DEF QInv, QControl, Carrying
<1>m. Move
  BY Steps
<1> DEFINE Here(m) == Listed(m) \/ \E a \in Actors : hand[a] = m
<1> HIDE DEF Messages, Actors, Scopes, MaxRetries
<1>s. ASSUME UNCHANGED <<calls, retryCount>>, entered \subseteq entered',
             \A n \in Messages : Here(n)' => Here(n),
             \A b \in Actors : pc'[b] = "retry" => retryCount[hand'[b]] < MaxRetries
      PROVE  RetryOK'
  BY <1>0, <1>c, <1>s DEF RetryOK
<1>1. ASSUME NEW m \in Messages, Enters(m) PROVE RetryOK'
  <2>1. \A t \in Scopes : \A n : Holds(queue', t, n) <=> Holds(queue, t, n) \/ (t = tenant[m] /\ n = m)
    BY <1>1, Entered
  <2>2. m \notin entered /\ entered' = entered \cup {m} /\ UNCHANGED <<calls, hand, pc>>
    BY <1>1 DEF Enters
  <2>3. retryCount' = retryCount
    BY <1>1 DEF Enters
  <2>5. calls[m] = 0 /\ \A a \in Actors : hand[a] # m
    BY <1>0, <2>2 DEF RetryOK, PlaceOK
  <2>6. \A n \in Messages \ {m} : Here(n)' => Here(n)
    BY <1>c, <2>1, <2>2 DEF Listed
  <2>7. \A n \in Messages : Here(n)' => calls'[n] <= retryCount'[n]
    BY <1>0, <1>t, <2>2, <2>3, <2>5, <2>6 DEF RetryOK
  <2>8. \A b \in Actors : pc'[b] = "retry" => retryCount'[hand'[b]] < MaxRetries
    BY <1>0, <1>h, <2>2, <2>3, <2>5 DEF RetryOK
  <2> QED
    BY <1>0, <1>c, <2>2, <2>7, <2>8 DEF RetryOK
<1>c1. ASSUME NEW m \in Messages, NEW d \in Messages, NEW s \in Scopes, Copies(m, d, s) PROVE RetryOK'
  <2>1. (\A a \in Actors : hand[a] # d)
        /\ \A t \in Scopes : \A n : Holds(queue', t, n) <=> Holds(queue, t, n) \/ (t = s /\ n = d)
    BY <1>c1, Copied
  <2>2. entered' = entered \cup {d} /\ UNCHANGED <<hand, pc>>
    BY <1>c1 DEF Copies
  <2>3. /\ retryCount'[d] = retryCount[m] /\ calls'[d] = calls[m]
        /\ \A n \in Messages \ {d} : retryCount'[n] = retryCount[n] /\ calls'[n] = calls[n]
    BY <1>c1, <1>t DEF Copies
  <2>4. calls[m] <= retryCount[m]
    BY <1>0, <1>t, <1>c1 DEF RetryOK, Copies
  <2>6. \A n \in Messages \ {d} : Here(n)' => Here(n)
    BY <1>c, <2>1, <2>2 DEF Listed
  <2>7. \A n \in Messages : Here(n)' => calls'[n] <= retryCount'[n]
    BY <1>0, <1>t, <2>3, <2>4, <2>6 DEF RetryOK
  <2>8. \A b \in Actors : pc'[b] = "retry" => retryCount'[hand'[b]] < MaxRetries
    BY <1>0, <1>h, <2>1, <2>2, <2>3 DEF RetryOK
  <2>9. \A n \in Messages : calls'[n] <= MaxRetries
    BY <1>0, <2>3 DEF RetryOK
  <2>10. \A n \in Messages \ entered' : calls'[n] = 0
    BY <1>0, <2>2, <2>3 DEF RetryOK
  <2> QED
    BY <1>c, <2>7, <2>8, <2>9, <2>10 DEF RetryOK
<1>2. ASSUME NEW a \in Actors, Rests(a) PROVE RetryOK'
  <2>1. UNCHANGED <<queue, hand, calls, retryCount, entered>> /\ \A b \in Actors : pc'[b] = "retry" => pc[b] = "retry"
    BY <1>2 DEF Rests, Data, Apart
  <2> QED
    BY <1>0, <1>c, <2>1 DEF RetryOK, Listed
<1>3. ASSUME NEW a \in Actors, Returns(a) PROVE RetryOK'
  <2>1. /\ hand[a] \in Messages
        /\ \A t \in Scopes : \A n : Holds(queue', t, n) <=>
             Holds(queue, t, n) \/ (t = Effective(hand[a], Scope(a)) /\ n = hand[a])
    BY <1>3, Returned
  <2>2. /\ hand'[a] = NoMessage /\ pc'[a] # "retry" /\ UNCHANGED <<retryCount, calls, entered>>
        /\ \A b \in Actors \ {a} : hand'[b] = hand[b] /\ pc'[b] = pc[b]
    BY <1>0, <1>3 DEF Returns, Apart
  <2>3. \A n \in Messages : Here(n)' => Here(n)
    BY <1>0, <1>c, <2>1, <2>2 DEF Listed
  <2> QED
    BY <1>0, <1>s, <2>2, <2>3 DEF RetryOK
<1>4. ASSUME NEW a \in Actors, Loses(a) PROVE RetryOK'
  <2>2. /\ hand'[a] = NoMessage /\ pc'[a] # "retry" /\ UNCHANGED <<queue, retryCount, calls, entered>>
        /\ \A b \in Actors \ {a} : hand'[b] = hand[b] /\ pc'[b] = pc[b]
    BY <1>0, <1>4 DEF Loses, Apart, Data
  <2>3. \A n \in Messages : Here(n)' => Here(n)
    BY <1>0, <1>c, <2>2 DEF Listed
  <2> QED
    BY <1>0, <1>s, <2>2, <2>3 DEF RetryOK
<1>5. ASSUME NEW a \in Actors, Serves(a) PROVE RetryOK'
  <2>0. PICK m \in Messages : m = hand[a]
    BY <1>h, <1>5 DEF Serves
  <2>1. /\ m \in Messages /\ retryCount[m] < MaxRetries /\ calls[m] <= retryCount[m] /\ UNCHANGED <<queue, entered>>
        /\ pc'[a] # "retry" /\ \A b \in Actors \ {a} : hand'[b] = hand[b] /\ pc'[b] = pc[b]
    BY <1>0, <1>h, <1>5, <2>0 DEF Serves, RetryOK, Apart
  <2>2. calls'[m] = calls[m] + 1 /\ \A n \in Messages \ {m} : calls'[n] = calls[n]
    BY <2>0, <1>t, <1>5, <2>1 DEF Serves
  <2>3. m \in entered /\ ~Listed(m) /\ \A b \in Actors \ {a} : hand[b] # m
    BY <2>0, <1>0, <1>5, <2>1 DEF PlaceOK, Serves
  <2>4. \A n \in Messages : calls'[n] <= MaxRetries
    BY <1>0, <1>t, <2>1, <2>2 DEF RetryOK
  <2>5. \A n \in Messages \ {m} : retryCount'[n] = retryCount[n]
    BY <2>0, <1>t, <1>5, <2>1 DEF Serves
  <2>6. hand'[a] = NoMessage \/ (hand'[a] = m /\ retryCount'[m] = retryCount[m] + 1)
    BY <1>0, <1>t, <1>5, <2>0, <2>1 DEF Serves
  <2>7. \A n \in Messages \ {m} : Here(n)' => Here(n)
    BY <1>0, <1>c, <2>1, <2>6 DEF Listed
  <2>8. Here(m)' => retryCount'[m] = retryCount[m] + 1
    BY <1>0, <1>c, <2>1, <2>3, <2>6 DEF Listed
  <2>9. \A n \in Messages : Here(n)' => calls'[n] <= retryCount'[n]
    BY <1>0, <1>t, <2>1, <2>2, <2>5, <2>7, <2>8 DEF RetryOK
  <2>10. \A n \in Messages \ entered' : calls'[n] = 0
    BY <1>0, <2>1, <2>2, <2>3 DEF RetryOK
  <2>11. \A b \in Actors : pc'[b] = "retry" => retryCount'[hand'[b]] < MaxRetries
    BY <1>0, <1>h, <2>1, <2>3, <2>5 DEF RetryOK
  <2> QED
    BY <1>0, <1>c, <2>4, <2>9, <2>10, <2>11 DEF RetryOK
<1>6. ASSUME NEW a \in Actors, NEW s \in Scopes, Takes(a, s) PROVE RetryOK'
  <2> DEFINE m == Head(queue[s])
  <2>1. /\ m \in Messages /\ Holds(queue, s, m)
        /\ \A t \in Scopes : \A n : Holds(queue', t, n) <=> Holds(queue, t, n) /\ n # m
    BY <1>6, Removed DEF Takes
  <2>2. /\ hand'[a] = m /\ UNCHANGED <<retryCount, calls, entered>>
        /\ \A b \in Actors \ {a} : hand'[b] = hand[b] /\ pc'[b] = pc[b]
    BY <1>0, <1>6 DEF Takes, Data, Apart
  <2>3. pc'[a] = "retry" => retryCount[m] < MaxRetries
    BY <1>6, <1>t, <2>1 DEF Takes, Exhausted
  <2> HIDE DEF m
  <2>4. \A n \in Messages : Here(n)' => Here(n)
    BY <1>0, <1>c, <2>1, <2>2 DEF Listed
  <2> QED
    BY <1>0, <1>s, <2>2, <2>3, <2>4 DEF RetryOK
<1>7. ASSUME NEW a \in Actors, NEW s \in Scopes, Discards(a, s) PROVE RetryOK'
  <2>1. \A t \in Scopes : \A n : Holds(queue', t, n) => Holds(queue, t, n)
    BY <1>7, Removed DEF Discards
  <2>2. /\ UNCHANGED <<hand, retryCount, calls, entered>> /\ \A b \in Actors : pc'[b] = "retry" => pc[b] = "retry"
    BY <1>7 DEF Discards, Data, Apart
  <2>4. \A n \in Messages : Here(n)' => Here(n)
    BY <1>0, <1>c, <2>1, <2>2 DEF Listed
  <2> QED
    BY <1>0, <1>s, <2>2, <2>4 DEF RetryOK
<1> QED
  BY <1>m, <1>1, <1>c1, <1>2, <1>3, <1>4, <1>5, <1>6, <1>7 DEF Move

(* At the start every list is empty or holds one message moved by hand.    *)
LEMMA QueueStart ==
    ASSUME QueueInit
    PROVE  QInv
<1>0. /\ cfg \in Configs /\ MaxRetries \in Nat /\ BatchSize \in Nat /\ 0 < BatchSize /\ cfg.astray \subseteq Messages
      /\ Pruner \notin Consumers /\ NoMessage \notin Messages
      /\ \A m \in Messages : Home[m] \in Scopes
  BY QueueAssumption DEF QueueInit, MaxRetries, BatchSize, Messages, Consumers, Scopes
<1>1. queue \in [Scopes -> {<<>>} \cup {<<m>> : m \in cfg.astray}]
  BY DEF QueueInit
<1>2. ASSUME NEW s \in Scopes PROVE queue[s] = <<>> \/ \E m \in cfg.astray : queue[s] = <<m>>
  BY <1>1
<1>3. queue \in [Scopes -> Seq(Messages)]
  <2>1. <<>> \in Seq(Messages) /\ \A m \in cfg.astray : <<m>> \in Seq(Messages)
    BY <1>0, OneElement
  <2>2. \A s \in Scopes : queue[s] \in Seq(Messages)
    BY <1>2, <2>1
  <2> QED
    BY <1>1, <2>2
<1>4. ASSUME NEW s \in Scopes, NEW i \in DOMAIN queue[s]
      PROVE  i = 1 /\ queue[s][i] \in cfg.astray /\ queue[s] = <<queue[s][i]>>
  BY <1>2
<1>5. ASSUME NEW m \in cfg.astray PROVE \E s \in Scopes : queue[s] = <<m>> /\ \A t \in Scopes \ {s} : queue[t] # <<m>>
  BY DEF QueueInit
<1>6. Single(queue, Scopes)
  <2> SUFFICES ASSUME NEW s \in Scopes, NEW t \in Scopes, NEW i \in DOMAIN queue[s], NEW j \in DOMAIN queue[t],
                      queue[s][i] = queue[t][j]
               PROVE  s = t /\ i = j
    BY DEF Single
  <2>1. i = 1 /\ queue[s][i] \in cfg.astray /\ queue[s] = <<queue[s][i]>>
    BY <1>4
  <2>2. j = 1 /\ queue[t] = <<queue[s][i]>>
    BY <1>4
  <2> QED
    BY <1>5, <2>1, <2>2
<1>7. \A s \in Scopes : \A m : Holds(queue, s, m) => m \in cfg.astray
  BY <1>4 DEF Holds
<1>8. \A m \in cfg.astray : Listed(m)
  <2>1. \A m : 1 \in DOMAIN <<m>> /\ <<m>>[1] = m
    OBVIOUS
  <2> QED
    BY <1>5, <2>1 DEF Listed, Holds
<1>9. hand = [a \in Actors |-> NoMessage] /\ entered = cfg.astray
  BY DEF QueueInit
<1> HIDE DEF Messages, Scopes, Consumers, Actors, MaxRetries, BatchSize
<1>10. QTables
  BY <1>0, <1>3 DEF QueueInit, QTables
<1>11. QControl
  BY <1>0 DEF QueueInit, QControl, Pcs, Busy, Carrying, Actors
<1>12. QCursor
  <2>1. pc = [a \in Actors |-> IF a = Pruner THEN "idle" ELSE "off"] /\ Pruner \in Actors
        /\ scopes = [a \in Actors |-> <<>>] /\ at = [a \in Actors |-> 1]
    BY DEF QueueInit, Actors
  <2> QED
    BY <2>1 DEF QCursor, Busy
<1>13. QCounters
  BY <1>0 DEF QueueInit, QCounters
<1>14. QFlags
  BY DEF QueueInit, QFlags
<1>15. PlaceOK
  BY <1>0, <1>6, <1>7, <1>8, <1>9 DEF PlaceOK, Listed
<1>16. TenantOK
  <2>1. \A m \in Messages : origin[m] = m /\ tenant[m] = Home[m] /\ servedAs[m] = NoMessage
    BY DEF QueueInit
  <2>2. \A m \in Messages : HomeOf(m) = Home[m] /\ (Astray(m) <=> m \in cfg.astray)
    BY <2>1 DEF HomeOf, Astray
  <2> QED
    BY <1>0, <1>7, <1>9, <2>1, <2>2 DEF TenantOK
<1>18. OriginOK
  BY DEF QueueInit, OriginOK
<1>17. RetryOK
  BY <1>0 DEF QueueInit, RetryOK
<1> QED
  BY <1>10, <1>11, <1>12, <1>13, <1>14, <1>15, <1>16, <1>17, <1>18 DEF QInv

(* The invariant says what the run checks.                                 *)
LEMMA QueueMeans ==
    ASSUME QInv
    PROVE  DeadLettersSound
<1>0. QTables /\ QControl /\ QCursor /\ QCounters /\ QFlags /\ PlaceOK /\ TenantOK /\ OriginOK /\ RetryOK
  BY DEF QInv
<1>1. \A s \in Scopes : \A m : m \in ToSet(queue[s]) <=> Holds(queue, s, m)
  BY DEF ToSet, Holds
<1>2. \A m : Queued(m) <=> Listed(m)
  BY <1>1 DEF Queued, Listed
<1>3. QueueTypeOK
  <2>1. ASSUME NEW s \in Scopes PROVE ToSet(queue[s]) \subseteq Messages
    BY <1>0 DEF QTables, ToSet
  <2>2. ASSUME NEW a \in Actors PROVE ToSet(scopes[a]) \subseteq Scopes
    BY <1>0 DEF QCursor, ToSet
  <2>3. MaxRetries \in Nat /\ BatchSize \in Nat
    BY <1>0, QueueAssumption DEF QTables, MaxRetries, BatchSize
  <2>4. retryCount \in [Messages -> 0 .. MaxRetries]
    <3> HIDE DEF Messages, MaxRetries
    <3> QED
      BY <1>0, <2>3 DEF QTables
  <2>5. processed \in [Consumers -> 0 .. BatchSize - 1]
    <3> HIDE DEF Consumers, BatchSize
    <3> QED
      BY <1>0, <2>3 DEF QCounters
  <2>6. pc \in [Actors -> {"off", "idle", "length", "pop", "bounce", "retry", "requeue", "done"}]
    BY <1>0 DEF QControl, Pcs, Busy
  <2> QED
    BY <1>0, <2>1, <2>2, <2>4, <2>5, <2>6 DEF QueueTypeOK, QTables, QControl, QCounters, QFlags
<1>4. OneCopy
  BY <1>0, <1>2 DEF OneCopy, PlaceOK, Single, OriginOK
<1>5. NothingVanishes
  BY <1>0, <1>2 DEF NothingVanishes, PlaceOK, InHand
<1>6. OwnTenantOnly
  BY <1>0, <1>1 DEF OwnTenantOnly, TenantOK
<1>7. RetriesBounded
  BY <1>0 DEF RetriesBounded, RetryOK
<1> QED
  BY <1>3, <1>4, <1>5, <1>6, <1>7 DEF DeadLettersSound, EveryMessageAccounted

(* A dead letter is in one list or in one hand, its own tenant's, or its   *)
(* end is on record, has a second copy only when the client sent a push    *)
(* again, and is retried at most MaxRetries times as each copy, with any   *)
(* number of tenants, messages and consumers, any batch size, and however  *)
(* many pushes, reads, processes and contexts fail (Enqueue, Dequeue,      *)
(* processSource, drainSource, processMessage, PruneExhaustedMessages).    *)
THEOREM DeadLettersSoundHolds == QueueSpec => []DeadLettersSound
<1>1. QueueInit => QInv
  BY QueueStart
<1>2. QInv /\ [QueueNext]_queueVars => QInv'
  <2>1. ASSUME QInv, QueueNext PROVE QInv'
    BY <2>1, QueueTables, QueueControl, QueuePlace, QueueTenant, QueueOrigin, QueueRetry DEF QInv
  <2>2. ASSUME QInv, UNCHANGED queueVars PROVE QInv'
    <3>1. UNCHANGED <<cfg, queue, tenant, retryCount, future, stopCh, cancelled, pc, scopes, at, processed, progressed,
                      rotations, rotationCap, hand, entered, origin, calls, servedAs, accounted, silent, faults>>
      BY <2>2 DEF queueVars, moving, list, cursor, history, bounds
    <3>2. QTables' /\ QControl' /\ QCursor'
      BY <2>2, <3>1 DEF QInv, QTables, QControl, QCursor, Messages, Consumers, Actors, Scopes, MaxRetries
    <3>3. QCounters' /\ QFlags'
      BY <2>2, <3>1 DEF QInv, QCounters, QFlags, Consumers, BatchSize
    <3>4. PlaceOK' /\ TenantOK' /\ OriginOK' /\ RetryOK'
      BY <2>2, <3>1 DEF QInv, PlaceOK, TenantOK, OriginOK, RetryOK, Listed, Scope, HomeOf, Astray, Messages, Consumers, Actors, Scopes, MaxRetries
    <3> QED
      BY <3>2, <3>3, <3>4 DEF QInv
  <2> QED
    BY <2>1, <2>2
<1>3. QInv => DeadLettersSound
  BY QueueMeans
<1> QED
  BY <1>1, <1>2, <1>3, PTL DEF QueueSpec

-----------------------------------------------------------------------------
(* Webhook delivery.                                                       *)

Statuses   == {"none", "2xx", "3xx", "busy", "4xx"}
HookErrors == {"none", "blocked", "secret", "transport", "final", "exhausted", "exhaustedAfter"}
HookSteps  == {"off", "resolve", "secret", "send", "await", "done"}
HookResults == [status : Statuses, success : BOOLEAN, error : HookErrors, attempts : Nat]

Served(e) == hook.endpoints[e].active /\ hook.endpoints[e].target = "safe"

HTypes ==
    /\ hook \in Hooks /\ dpc \in {"list", "fan", "done"} /\ left \subseteq Endpoints /\ age \in 0 .. MaxAge
    /\ epc \in [Endpoints -> HookSteps]
    /\ result \in [Endpoints -> HookResults]
    /\ metrics \in [Endpoints -> Nat]

(* What is on the wire, or was answered, went to an endpoint that is       *)
(* active and not blocked.                                                 *)
HWire ==
    /\ answers \in [Endpoints -> SUBSET [status : Statuses, late : BOOLEAN]]
    /\ \A e \in Endpoints : answers[e] # {} => Served(e)
    /\ \A r \in onWire : \E e \in Endpoints : Served(e) /\ (r = Request(e, "event") \/ r = Request(e, "now"))
    /\ AcceptedIsFresh

(* What a goroutine's step says about its endpoint's result.               *)
HookLocal(e) ==
    /\ epc[e] # "off" => hook.endpoints[e].active
    /\ epc[e] \in {"secret", "send", "await"} => hook.endpoints[e].target = "safe"
    /\ epc[e] \in {"off", "resolve", "secret"} => result[e] = NoResult
    /\ epc[e] # "done" => ~result[e].success /\ metrics[e] = 0
    /\ epc[e] = "send" => result[e].attempts <= maxRetries
    /\ epc[e] = "await" => result[e].attempts > 0 /\ result[e].attempts <= maxRetries + 1
    /\ epc[e] = "done" =>
         /\ result[e].success => Answered2xx(e) /\ result[e].status = "2xx"
         /\ result[e].attempts <= maxRetries + 1
         /\ result[e].attempts > 0 => result[e].success \/ result[e].error # "none"
         /\ metrics[e] = IF result[e].attempts > 0 THEN 1 ELSE 0

HLocal == \A e \in Endpoints : HookLocal(e)

(* Who is started when, and how many run.                                  *)
HCall ==
    /\ \A e \in left : epc[e] = "off" /\ hook.endpoints[e].active
    /\ dpc = "list" => left = {} /\ \A e \in Endpoints : epc[e] = "off"
    /\ dpc = "done" => Running = {}
    /\ Cardinality(Running) <= hook.maxConc

HInv == HTypes /\ HWire /\ HLocal /\ HCall

(* A call's endpoints are finitely many, and so are those under way.       *)
LEMMA EndpointsFinite ==
    ASSUME HTypes
    PROVE  IsFiniteSet(Endpoints) /\ IsFiniteSet(Running) /\ Cardinality(Running) \in Nat
           /\ hook.maxConc \in Nat \ {0} /\ Endpoints \subseteq Nat
<1>1. hook.endpoints \in Seq([active : BOOLEAN, target : {"safe", "blocked"}, encrypted : BOOLEAN,
                              signs : {"shared", "other"}, check : {"none", "signature", "fresh", "strictFresh"}])
      /\ hook.maxConc \in Nat \ {0}
  BY WebhookAssumption DEF HTypes
<1>2. Len(hook.endpoints) \in Nat /\ Endpoints = 1 .. Len(hook.endpoints)
  BY <1>1 DEF Endpoints
<1>3. IsFiniteSet(Endpoints)
  BY <1>2, FS_Interval
<1> QED
  BY <1>1, <1>2, <1>3, FS_Subset, FS_CardinalityType DEF Running

(* A receiver's answer: a strict receiver accepts only what is signed with *)
(* the timestamp it is shown, and then the age it computes is the real one.*)
LEMMA HandlesKeepsWire ==
    ASSUME HTypes, HWire, NEW r \in onWire, NEW s \in Statuses \ {"none"}, Handles(r, s), UNCHANGED hook
    PROVE  /\ HWire' /\ \A e \in Endpoints : answers[e] \subseteq answers'[e]
           /\ [status |-> s, late |-> age > tolerance] \in answers'[r.to]
<1> DEFINE new == [status |-> s, late |-> age > tolerance]
<1>1. PICK e \in Endpoints : Served(e) /\ (r = Request(e, "event") \/ r = Request(e, "now"))
  BY DEF HWire
<1>2. r.to = e /\ r.secret = hook.endpoints[e].signs /\ r.sig = computeSignature /\ r.header \in {"event", "now"}
  BY <1>1 DEF Request
<1>3. new \in [status : Statuses, late : BOOLEAN] /\ new.status = s /\ new.late = (age > tolerance)
  OBVIOUS
<1>4. answers' = [answers EXCEPT ![e] = @ \cup {new}] /\ onWire' = onWire \ {r}
      /\ s \in (IF Accepts(r) THEN {"2xx", "3xx", "busy"} ELSE {"4xx"})
  BY <1>2 DEF Handles
<1>5. hook.endpoints[e].check = "strictFresh" /\ s # "4xx" => ~ (age > tolerance)
  <2> SUFFICES ASSUME hook.endpoints[e].check = "strictFresh", s # "4xx" PROVE ~ (age > tolerance)
    OBVIOUS
  <2>1. Accepts(r)
    BY <1>4
  <2>2. VerifySignatureV1WithFreshness(r)
    BY <2>1, <1>2 DEF Accepts
  <2>3. r.sig.version = "v1" /\ r.sig.stamp = r.header /\ SeenAge(r) <= tolerance
    BY <2>2 DEF VerifySignatureV1WithFreshness, VerifySignatureV1, VerifySignature
  <2>4. r.header = "event"
    BY <2>3, <1>2 DEF computeSignature
  <2>5. age <= tolerance /\ age \in Nat /\ tolerance \in Nat
    BY <2>3, <2>4, WebhookAssumption DEF SeenAge, HTypes
  <2> QED
    BY <2>5
<1>6. Endpoints' = Endpoints
  BY DEF Endpoints
<1>7. \A f \in Endpoints : answers'[f] = IF f = e THEN answers[f] \cup {new} ELSE answers[f]
  BY <1>4 DEF HWire
<1>8. answers' \in [Endpoints -> SUBSET [status : Statuses, late : BOOLEAN]]
  BY <1>3, <1>4 DEF HWire
<1>9. \A f \in Endpoints : answers'[f] # {} => Served(f)
  BY <1>1, <1>7 DEF HWire
<1>10. AcceptedIsFresh'
  <2> SUFFICES ASSUME NEW f \in Endpoints, hook.endpoints[f].check = "strictFresh", NEW a \in answers'[f], a.status # "4xx"
               PROVE  ~a.late
    BY <1>6 DEF AcceptedIsFresh
  <2>1. CASE a \in answers[f]
    BY <2>1 DEF HWire, AcceptedIsFresh
  <2>2. CASE f = e /\ a = new
    BY <2>2, <1>3, <1>5
  <2> QED
    BY <2>1, <2>2, <1>7
<1>11. \A q \in onWire' : \E f \in Endpoints : Served(f) /\ (q = Request(f, "event") \/ q = Request(f, "now"))
  BY <1>4 DEF HWire
<1>12. HWire'
  BY <1>6, <1>8, <1>9, <1>10, <1>11 DEF HWire, Served, Request, computeSignature
<1> QED
  BY <1>2, <1>7, <1>12

(* A goroutine's step changes its endpoint alone, and starts nobody.       *)
LEMMA GoroutineStep ==
    ASSUME HInv, NEW e \in Endpoints, epc[e] \notin {"off", "done"},
           NEW c \in HookSteps, NEW x \in HookResults, NEW n \in Nat,
           epc' = [epc EXCEPT ![e] = c], result' = [result EXCEPT ![e] = x], metrics' = [metrics EXCEPT ![e] = n],
           UNCHANGED <<hook, dpc, left, age>>,
           HWire', \A f \in Endpoints : answers[f] \subseteq answers'[f],
           HookLocal(e)'
    PROVE  HInv'
<1>1. Endpoints' = Endpoints
  BY DEF Endpoints
<1>2. HTypes'
  BY <1>1 DEF HInv, HTypes
<1>3. HLocal'
  <2> SUFFICES ASSUME NEW f \in Endpoints, f # e PROVE HookLocal(f)'
    BY <1>1 DEF HLocal
  <2>1. epc'[f] = epc[f] /\ result'[f] = result[f] /\ metrics'[f] = metrics[f] /\ answers[f] \subseteq answers'[f]
    BY DEF HInv, HTypes
  <2>2. HookLocal(f)
    BY DEF HInv, HLocal
  <2> QED
    BY <2>1, <2>2 DEF HookLocal, Answered2xx
<1>4. Running' \subseteq Running /\ e \in Running
  BY <1>1 DEF HInv, HTypes, Running
<1>5. Cardinality(Running') <= hook.maxConc /\ (dpc = "done" => Running' = {})
  <2>1. /\ IsFiniteSet(Running) /\ Cardinality(Running) \in Nat /\ hook.maxConc \in Nat
        /\ Cardinality(Running) <= hook.maxConc /\ (dpc = "done" => Running = {})
    BY EndpointsFinite DEF HInv, HCall
  <2>2. \A S : S \subseteq Running => IsFiniteSet(S) /\ Cardinality(S) <= Cardinality(Running) /\ Cardinality(S) \in Nat
    BY <2>1, FS_Subset, FS_CardinalityType
  <2>3. Cardinality(Running') <= Cardinality(Running) /\ Cardinality(Running') \in Nat
    BY <1>4, <2>2
  <2> QED
    BY <1>4, <2>1, <2>3
<1>6. HCall'
  <2>1. e \notin left /\ dpc # "list"
    BY DEF HInv, HCall
  <2> QED
    BY <1>1, <1>5, <2>1 DEF HInv, HTypes, HCall
<1> QED
  BY <1>2, <1>3, <1>6 DEF HInv

(* An attempt that failed is followed by another or by the report that all *)
(* are spent.                                                              *)
LEMMA RetriesStep ==
    ASSUME HInv, NEW e \in Endpoints, epc[e] = "await", NEW x \in HookResults,
           x.attempts = result[e].attempts, ~x.success, Retries(e, x),
           UNCHANGED <<hook, dpc, left, age>>,
           HWire', \A f \in Endpoints : answers[f] \subseteq answers'[f]
    PROVE  HInv'
<1> USE DEF HookSteps, HookResults, HookErrors, Statuses
<1>1. HookLocal(e) /\ metrics[e] = 0 /\ metrics \in [Endpoints -> Nat] /\ maxRetries \in Nat
      /\ x.attempts \in Nat /\ x.attempts > 0 /\ x.attempts <= maxRetries + 1
  BY WebhookAssumption DEF HInv, HLocal, HTypes, HookLocal
<1>2. CASE x.attempts <= maxRetries
  <2>1. epc' = [epc EXCEPT ![e] = "send"] /\ result' = [result EXCEPT ![e] = x] /\ metrics' = [metrics EXCEPT ![e] = 0]
    BY <1>1, <1>2 DEF Retries
  <2>2. epc'[e] = "send" /\ result'[e] = x /\ metrics'[e] = 0
    BY <2>1 DEF HInv, HTypes
  <2>3. HookLocal(e)'
    BY <1>1, <1>2, <2>2 DEF HookLocal
  <2> QED
    BY <2>1, <2>3, GoroutineStep
<1>3. CASE ~ (x.attempts <= maxRetries)
  <2> DEFINE y == [x EXCEPT !.error = IF @ = "none" THEN "exhausted" ELSE "exhaustedAfter"]
  <2>1. y \in HookResults /\ y.error # "none" /\ ~y.success /\ y.attempts = x.attempts
    OBVIOUS
  <2>2. epc' = [epc EXCEPT ![e] = "done"] /\ result' = [result EXCEPT ![e] = y] /\ metrics' = [metrics EXCEPT ![e] = 1]
    BY <1>1, <1>3 DEF Retries, Concludes, Records
  <2> HIDE DEF y
  <2>3. epc'[e] = "done" /\ result'[e] = y /\ metrics'[e] = 1
    BY <2>2 DEF HInv, HTypes
  <2>4. HookLocal(e)'
    BY <1>1, <1>3, <2>1, <2>3 DEF HookLocal
  <2> QED
    BY <2>1, <2>2, <2>4, GoroutineStep
<1> QED
  BY <1>2, <1>3

(* Every step of a goroutine keeps the invariant.                          *)
LEMMA EndpointSteps ==
    ASSUME HInv, NEW e \in Endpoints, EndpointStep(e)
    PROVE  HInv'
<1> USE DEF HookSteps, HookResults, HookErrors, Statuses
<1>0. /\ HookLocal(e) /\ epc[e] \in HookSteps /\ result[e] \in HookResults /\ metrics[e] \in Nat
      /\ maxRetries \in Nat
  BY WebhookAssumption DEF HInv, HLocal, HTypes, Endpoints
<1>1. UNCHANGED <<hook, onWire, answers>> => HWire' /\ \A f \in Endpoints : answers[f] \subseteq answers'[f]
  BY DEF HInv, HWire, AcceptedIsFresh, Served, Request, computeSignature, Endpoints
<1>2. CASE resolveAndValidateWebhookTarget(e)
  <2> USE <1>2 DEF resolveAndValidateWebhookTarget
  <2>1. HWire' /\ (\A f \in Endpoints : answers[f] \subseteq answers'[f])
    BY <1>1
  <2>2. metrics' = [metrics EXCEPT ![e] = metrics[e]]
    BY DEF HInv, HTypes
  <2>3. CASE epc' = [epc EXCEPT ![e] = "secret"] /\ UNCHANGED result /\ hook.endpoints[e].target = "safe"
    <3>1. result' = [result EXCEPT ![e] = result[e]] /\ result'[e] = result[e] /\ epc'[e] = "secret" /\ metrics'[e] = metrics[e]
      BY <2>3 DEF HInv, HTypes
    <3>2. HookLocal(e)'
      BY <3>1, <2>3, <1>0 DEF HookLocal
    <3> QED
      BY <1>0, <2>1, <2>2, <2>3, <3>1, <3>2, GoroutineStep
  <2>4. CASE Concludes(e, [result[e] EXCEPT !.error = "blocked"])
    <3>1. [result[e] EXCEPT !.error = "blocked"] \in HookResults
      BY <1>0
    <3>2. epc'[e] = "done" /\ result'[e] = [result[e] EXCEPT !.error = "blocked"] /\ metrics'[e] = metrics[e]
      BY <2>4 DEF HInv, HTypes, Concludes
    <3>3. HookLocal(e)'
      BY <3>2, <1>0 DEF HookLocal, NoResult
    <3> QED
      BY <1>0, <2>1, <2>2, <2>4, <3>1, <3>3, GoroutineStep DEF Concludes
  <2> QED
    BY <2>3, <2>4
<1>3. CASE resolveSecret(e)
  <2> USE <1>3 DEF resolveSecret
  <2>1. HWire' /\ (\A f \in Endpoints : answers[f] \subseteq answers'[f])
    BY <1>1
  <2>2. metrics' = [metrics EXCEPT ![e] = metrics[e]]
    BY DEF HInv, HTypes
  <2>3. CASE epc' = [epc EXCEPT ![e] = "send"] /\ UNCHANGED result
    <3>1. result' = [result EXCEPT ![e] = result[e]] /\ result'[e] = result[e] /\ epc'[e] = "send" /\ metrics'[e] = metrics[e]
      BY <2>3 DEF HInv, HTypes
    <3>2. HookLocal(e)'
      BY <3>1, <2>3, <1>0 DEF HookLocal, NoResult
    <3> QED
      BY <1>0, <2>1, <2>2, <2>3, <3>1, <3>2, GoroutineStep
  <2>4. ASSUME NEW x \in {result[e], [result[e] EXCEPT !.error = "secret"]}, Concludes(e, x) PROVE HInv'
    <3>1. x \in HookResults
      BY <1>0
    <3>2. epc'[e] = "done" /\ result'[e] = x /\ metrics'[e] = metrics[e]
      BY <2>4 DEF HInv, HTypes, Concludes
    <3>3. HookLocal(e)'
      BY <3>2, <1>0 DEF HookLocal, NoResult
    <3> QED
      BY <1>0, <2>1, <2>2, <2>4, <3>1, <3>3, GoroutineStep DEF Concludes
  <2> QED
    BY <2>3, <2>4
<1>4. CASE doHTTP(e)
  <2> USE <1>4 DEF doHTTP
  <2> DEFINE x == [result[e] EXCEPT !.attempts = @ + 1]
  <2>1. x \in HookResults /\ x.attempts = result[e].attempts + 1 /\ x.success = result[e].success
    BY <1>0
  <2>2. result' = [result EXCEPT ![e] = x] /\ metrics' = [metrics EXCEPT ![e] = metrics[e]]
    BY DEF HInv, HTypes
  <2> HIDE DEF x
  <2>3. epc'[e] = "await" /\ result'[e] = x /\ metrics'[e] = metrics[e]
    BY <2>2 DEF HInv, HTypes
  <2>4. Served(e)
    BY <1>0 DEF HookLocal, Served
  <2>5. HWire' /\ (\A f \in Endpoints : answers[f] \subseteq answers'[f])
    BY <2>4 DEF HInv, HWire, AcceptedIsFresh, Served, Request, computeSignature, Endpoints
  <2>6. HookLocal(e)'
    BY <1>0, <2>1, <2>3 DEF HookLocal
  <2> QED
    BY <1>0, <2>1, <2>2, <2>5, <2>6, GoroutineStep
<1>5. CASE TransportFails(e)
  <2> DEFINE x == [result[e] EXCEPT !.status = "none", !.error = "transport"]
  <2>1. x \in HookResults /\ x.attempts = result[e].attempts /\ x.success = result[e].success
    BY <1>0
  <2>2. epc[e] = "await" /\ Retries(e, x) /\ UNCHANGED <<hook, dpc, left, age>>
    BY <1>5 DEF TransportFails
  <2> HIDE DEF x
  <2>3. HWire' /\ (\A f \in Endpoints : answers[f] \subseteq answers'[f])
    <3>1. CASE UNCHANGED <<onWire, answers>>
      BY <1>1, <2>2, <3>1
    <3>2. ASSUME NEW s \in {"2xx", "3xx", "busy", "4xx"}, Handles(Request(e, "event"), s)
          PROVE  HWire' /\ (\A f \in Endpoints : answers[f] \subseteq answers'[f])
      <4>1. Request(e, "event") \in onWire
        BY <3>2 DEF Handles
      <4> QED
        BY <2>2, <3>2, <4>1, HandlesKeepsWire DEF HInv
    <3> QED
      BY <1>5, <3>1, <3>2 DEF TransportFails
  <2>4. ~x.success
    BY <1>0, <2>1, <2>2 DEF HookLocal
  <2> QED
    BY <2>1, <2>2, <2>3, <2>4, RetriesStep
<1>6. ASSUME NEW s \in {"2xx", "3xx", "busy", "4xx"}, Answered(e, s) PROVE HInv'
  <2> DEFINE x == [result[e] EXCEPT !.status = s]
  <2>1. x \in HookResults /\ x.attempts = result[e].attempts /\ x.success = result[e].success /\ x.status = s
    BY <1>0
  <2>2. /\ epc[e] = "await" /\ UNCHANGED <<hook, dpc, left, age>>
        /\ \/ succeeded(s) /\ Concludes(e, [x EXCEPT !.success = TRUE]) /\ Records(e)
           \/ Concludes(e, [x EXCEPT !.error = "final"]) /\ Records(e)
           \/ Retries(e, x)
    BY <1>6 DEF Answered, deliverToEndpoint
  <2> HIDE DEF x
  <2>3. Request(e, "event") \in onWire /\ Request(e, "event").to = e
    BY <1>6 DEF Answered, Handles, Request
  <2>4. /\ HWire' /\ (\A f \in Endpoints : answers[f] \subseteq answers'[f])
        /\ [status |-> s, late |-> age > tolerance] \in answers'[e]
    BY <1>6, <2>2, <2>3, HandlesKeepsWire DEF HInv, Answered
  <2>5. ~x.success /\ metrics[e] = 0 /\ x.attempts > 0 /\ x.attempts <= maxRetries + 1 /\ hook.endpoints[e].active
    BY <1>0, <2>1, <2>2 DEF HookLocal
  <2>6. CASE succeeded(s) /\ Concludes(e, [x EXCEPT !.success = TRUE]) /\ Records(e)
    <3> DEFINE y == [x EXCEPT !.success = TRUE]
    <3>1. y \in HookResults /\ y.success /\ y.attempts = x.attempts /\ y.status = "2xx"
      BY <2>1, <2>6 DEF succeeded
    <3>2. epc' = [epc EXCEPT ![e] = "done"] /\ result' = [result EXCEPT ![e] = y] /\ metrics' = [metrics EXCEPT ![e] = 1]
      BY <2>5, <2>6 DEF Concludes, Records, HInv, HTypes
    <3> HIDE DEF y
    <3>3. epc'[e] = "done" /\ result'[e] = y /\ metrics'[e] = 1
      BY <3>2 DEF HInv, HTypes
    <3>4. Answered2xx(e)'
      BY <2>4, <2>6 DEF Answered2xx, succeeded
    <3>5. HookLocal(e)'
      BY <2>2, <2>5, <3>1, <3>3, <3>4 DEF HookLocal
    <3> QED
      BY <2>2, <2>4, <3>1, <3>2, <3>5, GoroutineStep
  <2>7. CASE Concludes(e, [x EXCEPT !.error = "final"]) /\ Records(e)
    <3> DEFINE y == [x EXCEPT !.error = "final"]
    <3>1. y \in HookResults /\ ~y.success /\ y.attempts = x.attempts /\ y.error = "final"
      BY <2>1, <2>5
    <3>2. epc' = [epc EXCEPT ![e] = "done"] /\ result' = [result EXCEPT ![e] = y] /\ metrics' = [metrics EXCEPT ![e] = 1]
      BY <2>5, <2>7 DEF Concludes, Records, HInv, HTypes
    <3> HIDE DEF y
    <3>3. epc'[e] = "done" /\ result'[e] = y /\ metrics'[e] = 1
      BY <3>2 DEF HInv, HTypes
    <3>4. HookLocal(e)'
      BY <2>2, <2>5, <3>1, <3>3 DEF HookLocal
    <3> QED
      BY <2>2, <2>4, <3>1, <3>2, <3>4, GoroutineStep
  <2>8. CASE Retries(e, x)
    BY <2>1, <2>2, <2>4, <2>5, <2>8, RetriesStep
  <2> QED
    BY <2>2, <2>6, <2>7, <2>8
<1> QED
  BY <1>2, <1>3, <1>4, <1>5, <1>6 DEF EndpointStep

(* So does every step of the caller, of the network and of the clock.      *)
LEMMA CallSteps ==
    ASSUME HInv, CallStep
    PROVE  HInv'
<1>0. Endpoints' = Endpoints /\ UNCHANGED hook
  BY DEF CallStep, Deliver, DeliverWithResults, fanOut, fanOutWithResults, ListsActive, Starts, Waits, Endpoints
<1>1. CASE ListsActive
  <2>1. HTypes'
    BY <1>0, <1>1 DEF ListsActive, filterActive, HInv, HTypes
  <2>2. HWire'
    BY <1>0, <1>1 DEF ListsActive, HInv, HWire, AcceptedIsFresh, Served, Request, computeSignature
  <2>3. HLocal'
    BY <1>0, <1>1 DEF ListsActive, HInv, HLocal, HookLocal, Answered2xx
  <2>4. Running' = Running /\ (\A e \in Endpoints : epc[e] = "off") /\ left = {} /\ Running = {}
    BY <1>0, <1>1 DEF ListsActive, Running, HInv, HCall
  <2>5. HCall'
    BY <1>0, <1>1, <2>4 DEF ListsActive, filterActive, HInv, HCall
  <2> QED
    BY <2>1, <2>2, <2>3, <2>5 DEF HInv
<1>2. CASE Starts
  <2>1. PICK e \in left : epc' = [epc EXCEPT ![e] = "resolve"] /\ left' = left \ {e}
    BY <1>2 DEF Starts
  <2>2. e \in Endpoints /\ epc[e] = "off" /\ hook.endpoints[e].active /\ epc'[e] = "resolve" /\ dpc = "fan"
    BY <1>2, <2>1 DEF Starts, HInv, HTypes, HCall
  <2>3. \A f \in Endpoints : epc'[f] = IF f = e THEN "resolve" ELSE epc[f]
    BY <2>1, <2>2 DEF HInv, HTypes
  <2>4. HTypes'
    BY <1>0, <1>2, <2>1 DEF Starts, HInv, HTypes, HookSteps
  <2>5. HWire'
    BY <1>0, <1>2 DEF Starts, HInv, HWire, AcceptedIsFresh, Served, Request, computeSignature
  <2>6. HLocal'
    BY <1>0, <1>2, <2>2, <2>3 DEF Starts, HInv, HLocal, HookLocal, Answered2xx
  <2>7. Running' = Running \cup {e} /\ e \notin Running
    BY <1>0, <2>2, <2>3 DEF Running
  <2>8. Cardinality(Running') <= hook.maxConc
    <3>1. /\ IsFiniteSet(Running) /\ Cardinality(Running) \in Nat /\ hook.maxConc \in Nat
          /\ Cardinality(Running) < hook.maxConc
      BY <1>2, EndpointsFinite DEF HInv, Starts, semaphoreFree
    <3>2. Cardinality(Running \cup {e}) = Cardinality(Running) + 1
      BY <2>7, <3>1, FS_AddElement
    <3> QED
      BY <2>7, <3>1, <3>2
  <2>9. HCall'
    BY <1>0, <1>2, <2>1, <2>2, <2>3, <2>8 DEF Starts, HInv, HTypes, HCall
  <2> QED
    BY <2>4, <2>5, <2>6, <2>9 DEF HInv
<1>3. CASE Waits
  <2>1. HTypes' /\ HWire' /\ HLocal'
    BY <1>0, <1>3 DEF Waits, HInv, HTypes, HWire, HLocal, HookLocal, Answered2xx, AcceptedIsFresh, Served, Request,
                      computeSignature
  <2>2. Running' = Running
    BY <1>0, <1>3 DEF Waits, Running
  <2>3. HCall'
    BY <1>0, <1>3, <2>2 DEF Waits, HInv, HCall
  <2> QED
    BY <2>1, <2>3 DEF HInv
<1> QED
  BY <1>1, <1>2, <1>3 DEF CallStep, Deliver, DeliverWithResults, fanOut, fanOutWithResults

LEMMA EnvironmentSteps ==
    ASSUME HInv, GrowsOld \/ UNCHANGED wvars \/ \E r \in onWire : ArrivesLate(r)
    PROVE  HInv'
<1>0. Endpoints' = Endpoints /\ UNCHANGED <<hook, dpc, left, epc, result, metrics>>
  BY DEF GrowsOld, wvars, ArrivesLate, Endpoints
<1>1. HTypes'
  BY <1>0, WebhookAssumption DEF GrowsOld, wvars, ArrivesLate, HInv, HTypes
<1>2. Running' = Running
  BY <1>0 DEF Running
<1>3. HCall'
  BY <1>0, <1>2 DEF HInv, HCall
<1>4. HWire' /\ \A e \in Endpoints : answers[e] \subseteq answers'[e]
  <2>1. CASE UNCHANGED <<onWire, answers>>
    BY <1>0, <2>1 DEF HInv, HWire, AcceptedIsFresh, Served, Request, computeSignature
  <2>2. ASSUME NEW r \in onWire, NEW s \in {"2xx", "3xx", "busy", "4xx"}, Handles(r, s)
        PROVE  HWire' /\ \A e \in Endpoints : answers[e] \subseteq answers'[e]
    BY <1>0, <2>2, HandlesKeepsWire DEF HInv, Statuses
  <2>3. ASSUME NEW r \in onWire, r.header = "event", UNCHANGED answers,
               onWire' = (onWire \ {r}) \cup {[r EXCEPT !.header = "now"]}
        PROVE  HWire' /\ \A e \in Endpoints : answers[e] \subseteq answers'[e]
    <3>1. PICK e \in Endpoints : Served(e) /\ (r = Request(e, "event") \/ r = Request(e, "now"))
      BY DEF HInv, HWire
    <3>2. [r EXCEPT !.header = "now"] = Request(e, "now")
      BY <3>1 DEF Request
    <3>3. \A q \in onWire' : \E f \in Endpoints : Served(f) /\ (q = Request(f, "event") \/ q = Request(f, "now"))
      BY <2>3, <3>1, <3>2 DEF HInv, HWire
    <3> QED
      BY <1>0, <2>3, <3>3 DEF HInv, HWire, AcceptedIsFresh, Served, Request, computeSignature
  <2> QED
    BY <2>1, <2>2, <2>3 DEF GrowsOld, wvars, ArrivesLate
<1>5. HLocal'
  BY <1>0, <1>4 DEF HInv, HLocal, HookLocal, Answered2xx
<1> QED
  BY <1>1, <1>3, <1>4, <1>5 DEF HInv

(* Webhook delivery is sound for any list of endpoints, any number of      *)
(* retries and any bound on the deliveries that run at once: a call that   *)
(* returns leaves nothing running and true results, and no strict receiver *)
(* accepts an event that is older than its tolerance, although requests    *)
(* are late and repeated with a fresh header (deliverToEndpoint, fanOut,   *)
(* VerifySignatureV1WithFreshness).                                        *)
THEOREM WebhookSoundHolds == WebhookSpec => []WebhookSound
<1>1. WebhookInit => HInv
  <2> SUFFICES ASSUME WebhookInit PROVE HInv
    OBVIOUS
  <2> USE DEF WebhookInit
  <2>1. HTypes
    BY WebhookAssumption DEF HTypes, HookSteps, HookResults, HookErrors, Statuses, NoResult
  <2>2. HWire
    BY DEF HWire, AcceptedIsFresh
  <2>3. HLocal
    BY DEF HLocal, HookLocal, NoResult
  <2>4. Running = {}
    BY DEF Running
  <2>5. Cardinality(Running) <= hook.maxConc
    BY <2>1, <2>4, EndpointsFinite, FS_EmptySet
  <2>6. HCall
    BY <2>4, <2>5 DEF HCall
  <2> QED
    BY <2>1, <2>2, <2>3, <2>6 DEF HInv
<1>2. HInv /\ [WebhookNext]_wvars => HInv'
  BY EndpointSteps, CallSteps, EnvironmentSteps DEF WebhookNext
<1>3. HInv => WebhookSound
  <2> SUFFICES ASSUME HInv PROVE WebhookSound
    OBVIOUS
  <2>1. \A e \in Endpoints : result[e].attempts <= maxRetries + 1
    BY WebhookAssumption DEF HInv, HTypes, HLocal, HookLocal, HookSteps, HookResults, NoResult
  <2>2. ResultsAreTrue
    <3> SUFFICES ASSUME dpc = "done", NEW e \in Endpoints
                 PROVE  /\ result[e].success => Answered2xx(e) /\ result[e].status = "2xx"
                        /\ (~hook.endpoints[e].active \/ hook.endpoints[e].target # "safe") => answers[e] = {}
                        /\ result[e].attempts > 0 => result[e].success \/ result[e].error # "none"
                        /\ metrics[e] = IF result[e].attempts > 0 THEN 1 ELSE 0
      BY DEF ResultsAreTrue, HInv, HCall
    <3>1. epc[e] \in {"off", "done"}
      BY DEF HInv, HCall, Running
    <3>2. HookLocal(e) /\ (answers[e] # {} => Served(e))
      BY DEF HInv, HLocal, HWire
    <3> QED
      BY <3>1, <3>2 DEF HookLocal, NoResult, Served
  <2> QED
    BY <2>1, <2>2 DEF HInv, HTypes, HWire, HCall, WebhookSound, WebhookTypeOK
<1> QED
  BY <1>1, <1>2, <1>3, PTL DEF WebhookSpec
=============================================================================

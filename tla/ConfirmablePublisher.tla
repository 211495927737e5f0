------------------------ MODULE ConfirmablePublisher ------------------------
(***************************************************************************)
(* A publisher that waits for the broker to confirm each message, over     *)
(* channels that die: publishes serialised by publishMu, the broker's      *)
(* confirms and returns, which carry no link to the message they answer,   *)
(* the monitor of each channel, automatic recovery, Reconnect and Close.   *)
(* A step is what one holder of publishMu or of mu does, or one broker     *)
(* action.  A channel's number also names what Reconnect makes with it:    *)
(* its confirms, its returns, its closedCh and its monitor.  The channels  *)
(* come from a connection as in RabbitMQConnection, with which no state is *)
(* shared: here a channel is opened, answers, and dies.                    *)
(***************************************************************************)
EXTENDS RabbitMQConnection, Sequences

CONSTANTS Publishes,     \* one call of PublishAndWaitConfirm each
          Setups,       \* [recovery, reconnects, close]: how the publisher is made and used
          MaxChannels, maxAttempts

ASSUME PublisherAssumption ==
    /\ MaxChannels \in Nat \ {0} /\ maxAttempts \in Nat /\ "free" \notin Publishes
    /\ Setups \subseteq [recovery : BOOLEAN, reconnects : Nat, close : BOOLEAN]

VARIABLES setup,
          current,      \* the channel Reconnect made last
          ch,           \* pub.ch; 0 is nil
          closed, shutdown, recoveryExhausted, health,
          done,         \* which done channel is in place
          stopped,      \* done channels that are closed
          signalled,    \* channels whose closedCh is closed
          publishMu,    \* its holder
          made, open,   \* channels opened, and those that are open
          inbox, confirms, returns,   \* per channel: at the broker, and on the way back
          delivered,    \* messages that reached a queue
          mpc,          \* each publish
          wpc, wdone, attempt, fresh, \* each monitor: its step, its done, its attempts, the channel it was given
          rpc, rch, cpc  \* the callers of Reconnect and Close

pvars == <<setup, current, ch, closed, shutdown, recoveryExhausted, health, done, stopped, signalled, publishMu,
           made, open, inbox, confirms, returns, delivered, mpc, wpc, wdone, attempt, fresh, rpc, rch, cpc>>

Channels == 1 .. MaxChannels
Free     == "free"

PublisherTypeOK ==
    /\ ch \in {0, current} /\ current \in 1 .. made /\ open \subseteq 1 .. made
    /\ health \in {"connected", "reconnecting", "disconnected", "degraded"}
    /\ signalled \subseteq Channels /\ delivered \subseteq Publishes

(* NewConfirmablePublisherFromChannel *)
PublisherInit ==
    /\ setup \in Setups
    /\ current = 1 /\ ch = 1 /\ made = 1 /\ open = {1} /\ publishMu = Free
    /\ closed = FALSE /\ shutdown = FALSE /\ recoveryExhausted = FALSE /\ health = "connected"
    /\ done = 1 /\ stopped = {} /\ signalled = {}
    /\ inbox = [c \in Channels |-> <<>>] /\ confirms = [c \in Channels |-> <<>>] /\ returns = [c \in Channels |-> <<>>]
    /\ delivered = {} /\ mpc = [m \in Publishes |-> "idle"]
    /\ wpc = [c \in Channels |-> IF c = 1 THEN "watch" ELSE "off"]
    /\ wdone = [c \in Channels |-> 1] /\ attempt = [c \in Channels |-> 0] /\ fresh = [c \in Channels |-> 0]
    /\ rpc = [left |-> setup.reconnects, at |-> "idle"] /\ rch = 0 /\ cpc = IF setup.close THEN "idle" ELSE "done"

-----------------------------------------------------------------------------
Signals == <<done, stopped, signalled>>
Flags   == <<closed, shutdown, recoveryExhausted>>
Wire    == <<inbox, confirms, returns, delivered>>
Chans   == <<made, open>>
Monitor == <<wpc, wdone, attempt, fresh>>
Callers == <<rpc, rch, cpc>>

Ends(m, r)      == mpc' = [mpc EXCEPT ![m] = r]
Watcher(w, l)   == wpc' = [wpc EXCEPT ![w] = l]
Append1(f, c, x) == [f EXCEPT ![c] = Append(@, x)]

(* PublishAndWaitConfirm: what is left of earlier returns is drained, and  *)
(* the message is sent.                                                    *)
PublishAndWaitConfirm(m) ==
    /\ mpc[m] = "idle" /\ publishMu = Free
    /\ \/ closed /\ Ends(m, "failed") /\ UNCHANGED <<publishMu, inbox, returns>>
       \/ /\ ~closed /\ ch # 0 /\ ch \notin open /\ Ends(m, "failed")
          /\ returns' = [returns EXCEPT ![current] = <<>>] /\ UNCHANGED <<publishMu, inbox>>
       \/ /\ ~closed /\ ch \in open /\ publishMu' = m /\ Ends(m, "wait")
          /\ returns' = [returns EXCEPT ![current] = <<>>] /\ inbox' = Append1(inbox, ch, m)
    /\ UNCHANGED <<setup, current, ch, Flags, health, Signals, Chans, confirms, delivered, Monitor, Callers>>

(* waitForConfirm: an answer, if there is one.                             *)
waitForConfirm(m) ==
    /\ mpc[m] = "wait" /\ confirms[current] # <<>>
    /\ confirms' = [confirms EXCEPT ![current] = Tail(@)]
    /\ \/ Head(confirms[current]) = "nack" /\ Ends(m, "failed") /\ publishMu' = Free
       \/ Head(confirms[current]) = "ack" /\ Ends(m, "acked") /\ UNCHANGED publishMu
    /\ UNCHANGED <<setup, current, ch, Flags, health, Signals, Chans, inbox, returns, delivered, Monitor, Callers>>

WaitEnds(m) ==
    /\ mpc[m] = "wait" /\ (current \in signalled \/ current \notin open) /\ Ends(m, "failed") /\ publishMu' = Free
    /\ UNCHANGED <<setup, current, ch, Flags, health, Signals, Chans, Wire, Monitor, Callers>>

(* Mutant: a timeout leaves the channel in use.                            *)
streamTrusted == FALSE

(* After a timeout, or when the caller went away, the answer may still     *)
(* come.                                                                   *)
isConfirmStreamCorrupted == TRUE

WaitTimesOut(m) ==
    /\ mpc[m] = "wait"
    /\ IF isConfirmStreamCorrupted
         THEN Ends(m, "invalidate") /\ closed' = TRUE /\ ch' = 0 /\ health' = "degraded" /\ UNCHANGED publishMu
         ELSE Ends(m, "failed") /\ publishMu' = Free /\ UNCHANGED <<closed, ch, health>>
    /\ UNCHANGED <<setup, current, shutdown, recoveryExhausted, Signals, Chans, Wire, Monitor, Callers>>

invalidateChannel(m) ==
    /\ mpc[m] = "invalidate" /\ Ends(m, "failed") /\ publishMu' = Free
    /\ signalled' = signalled \cup {current} /\ open' = open \ {current}
    /\ UNCHANGED <<setup, current, ch, Flags, health, done, stopped, made, Wire, Monitor, Callers>>

(* takeReturn: a message no queue took was returned before it was acked.   *)
takeReturn == returns[current] # <<>>

Acked(m) ==
    /\ mpc[m] = "acked" /\ publishMu' = Free
    /\ \/ takeReturn /\ Ends(m, "failed") /\ returns' = [returns EXCEPT ![current] = Tail(@)]
       \/ ~takeReturn /\ Ends(m, "ok") /\ UNCHANGED returns
    /\ UNCHANGED <<setup, current, ch, Flags, health, Signals, Chans, inbox, confirms, delivered, Monitor, Callers>>

-----------------------------------------------------------------------------
(* The broker: routed and acked, returned and then acked, or refused.      *)
Answers(c) ==
    /\ c \in open /\ inbox[c] # <<>>
    /\ LET m == Head(inbox[c]) IN
       \/ /\ delivered' = delivered \cup {m} /\ confirms' = Append1(confirms, c, "ack")
          /\ inbox' = [inbox EXCEPT ![c] = Tail(@)] /\ UNCHANGED returns
       \/ /\ confirms' = Append1(confirms, c, "nack")
          /\ inbox' = [inbox EXCEPT ![c] = Tail(@)] /\ UNCHANGED <<returns, delivered>>
       \/ /\ returns' = Append1(returns, c, m) /\ confirms' = Append1(confirms, c, "ack")
          /\ inbox' = [inbox EXCEPT ![c] = Tail(@)] /\ UNCHANGED delivered
    /\ UNCHANGED <<setup, current, ch, Flags, health, Signals, publishMu, Chans, mpc, Monitor, Callers>>

Dies(c) ==
    /\ c \in open /\ open' = open \ {c}
    /\ UNCHANGED <<setup, current, ch, Flags, health, Signals, publishMu, made, Wire, mpc, Monitor, Callers>>

-----------------------------------------------------------------------------
(* The close monitor of channel w.  Closing is told to whatever is current.*)
handleMonitoredClose(w) ==
    /\ wpc[w] = "watch"
    /\ \/ /\ wdone[w] \in stopped /\ Watcher(w, "off") /\ UNCHANGED <<closed, signalled, health>>
       \/ /\ w \notin open /\ closed' = TRUE /\ signalled' = signalled \cup {current}
          /\ IF setup.recovery THEN Watcher(w, "prepare") /\ health' = "reconnecting"
                               ELSE Watcher(w, "off") /\ health' = "disconnected"
    /\ UNCHANGED <<setup, current, ch, shutdown, recoveryExhausted, done, stopped, publishMu, Chans, Wire, mpc,
                   wdone, attempt, fresh, Callers>>

prepareForRecovery(w) ==
    /\ wpc[w] = "prepare" /\ publishMu = Free
    /\ IF shutdown
         THEN Watcher(w, "off") /\ health' = "disconnected"
              /\ UNCHANGED <<ch, closed, recoveryExhausted, Signals, open, wdone, attempt>>
         ELSE /\ closed' = TRUE /\ recoveryExhausted' = FALSE /\ ch' = 0
              /\ stopped' = stopped \cup {done} /\ done' = done + 1 /\ signalled' = signalled \cup {current}
              /\ open' = open \ {ch} /\ Watcher(w, "attempt")
              /\ wdone' = [wdone EXCEPT ![w] = done'] /\ attempt' = [attempt EXCEPT ![w] = 0]
              /\ UNCHANGED health
    /\ UNCHANGED <<setup, current, shutdown, publishMu, made, Wire, mpc, fresh, Callers>>

executeRecoveryAttempt(w) ==
    /\ wpc[w] = "attempt"
    /\ \/ attempt[w] = maxAttempts /\ Watcher(w, "off") /\ recoveryExhausted' = TRUE /\ health' = "disconnected"
       \/ wdone[w] \in stopped /\ Watcher(w, "off") /\ health' = "disconnected" /\ UNCHANGED recoveryExhausted
       \/ /\ attempt[w] < maxAttempts /\ wdone[w] \notin stopped
          /\ Watcher(w, "provider") /\ UNCHANGED <<recoveryExhausted, health>>
    /\ UNCHANGED <<setup, current, ch, closed, shutdown, Signals, publishMu, Chans, Wire, mpc, wdone, attempt, fresh, Callers>>

NewChannel == made < MaxChannels /\ made' = made + 1 /\ open' = open \cup {made + 1}

(* tryReconnectChannel: the provider's channel, or an error.               *)
tryReconnectChannel(w) ==
    /\ wpc[w] = "provider" /\ attempt' = [attempt EXCEPT ![w] = @ + 1]
    /\ \/ Watcher(w, "attempt") /\ UNCHANGED <<Chans, fresh>>
       \/ NewChannel /\ Watcher(w, "reconnect") /\ fresh' = [fresh EXCEPT ![w] = made + 1]
    /\ UNCHANGED <<setup, current, ch, Flags, health, Signals, publishMu, Wire, mpc, wdone, Callers>>

(* Reconnect with channel n, and what its callers do with a refusal.       *)
Replaces(n) ==
    /\ closed /\ ~shutdown /\ n \in open
    /\ current' = n /\ ch' = n /\ closed' = FALSE /\ recoveryExhausted' = FALSE /\ health' = "connected"

Refused(n) == (~closed \/ shutdown \/ n \notin open)

RecoveryReconnects(w) ==
    LET n == fresh[w] IN
    /\ wpc[w] = "reconnect" /\ publishMu = Free
    /\ \/ /\ Replaces(n) /\ UNCHANGED open
          /\ wpc' = [wpc EXCEPT ![w] = "emit", ![n] = "watch"] /\ wdone' = [wdone EXCEPT ![n] = done]
       \/ /\ Refused(n) /\ open' = open \ {n} /\ Watcher(w, "attempt")
          /\ UNCHANGED <<current, ch, closed, recoveryExhausted, health, wdone>>
    /\ UNCHANGED <<setup, shutdown, Signals, publishMu, made, Wire, mpc, attempt, fresh, Callers>>

EmitsConnected(w) ==
    /\ wpc[w] = "emit" /\ Watcher(w, "off") /\ health' = "connected"
    /\ UNCHANGED <<setup, current, ch, Flags, Signals, publishMu, Chans, Wire, mpc, wdone, attempt, fresh, Callers>>

(* An application that reconnects by itself brings a channel of its own    *)
(* when it was told the publisher is closed, and closes what was refused.  *)
OpensFresh ==
    /\ rpc.at = "idle" /\ rpc.left > 0 /\ closed /\ ~shutdown /\ NewChannel /\ rch' = made + 1
    /\ rpc' = [left |-> rpc.left - 1, at |-> "reconnect"]
    /\ UNCHANGED <<setup, current, ch, Flags, health, Signals, publishMu, Wire, mpc, Monitor, cpc>>

Reconnect ==
    /\ rpc.at = "reconnect" /\ publishMu = Free /\ rpc' = [rpc EXCEPT !.at = "idle"]
    /\ \/ /\ Replaces(rch) /\ UNCHANGED open
          /\ wpc' = [wpc EXCEPT ![rch] = "watch"] /\ wdone' = [wdone EXCEPT ![rch] = done]
       \/ Refused(rch) /\ open' = open \ {rch} /\ UNCHANGED <<current, ch, closed, recoveryExhausted, health, wpc, wdone>>
    /\ UNCHANGED <<setup, shutdown, Signals, publishMu, made, Wire, mpc, attempt, fresh, rch, cpc>>

Close ==
    /\ cpc = "idle" /\ publishMu = Free /\ cpc' = "done"
    /\ shutdown' = TRUE /\ closed' = TRUE /\ recoveryExhausted' = FALSE /\ health' = "disconnected"
    /\ stopped' = stopped \cup {done} /\ signalled' = signalled \cup {current} /\ open' = open \ {ch}
    /\ UNCHANGED <<setup, current, ch, done, publishMu, made, Wire, mpc, Monitor, rpc, rch>>

-----------------------------------------------------------------------------
MessageStep(m) ==
    \/ PublishAndWaitConfirm(m) \/ waitForConfirm(m) \/ WaitEnds(m) \/ WaitTimesOut(m)
    \/ invalidateChannel(m) \/ Acked(m)

MonitorStep(w) ==
    \/ handleMonitoredClose(w) \/ prepareForRecovery(w) \/ executeRecoveryAttempt(w) \/ tryReconnectChannel(w)
    \/ RecoveryReconnects(w) \/ EmitsConnected(w)

PublisherNext ==
    \/ \E m \in Publishes : MessageStep(m)
    \/ \E c \in Channels : Answers(c) \/ Dies(c) \/ MonitorStep(c)
    \/ OpensFresh \/ Reconnect \/ Close

PublisherSpec == PublisherInit /\ [][PublisherNext]_pvars

-----------------------------------------------------------------------------
Watching(w) == wpc[w] \notin {"off", "watch"}

(* Nothing is going on: every call has returned, every monitor has dealt   *)
(* with the channel it watched.                                            *)
PublisherQuiet ==
    /\ \A m \in Publishes : mpc[m] \in {"ok", "failed"}
    /\ \A w \in Channels : ~Watching(w) /\ (wpc[w] = "watch" => w \in open)
    /\ rpc.at = "idle"

(* A publish that reports success was routed: the acknowledgement it took  *)
(* was its own, not the late one of a publish that timed out, and not the  *)
(* receipt for a message no queue took.                                    *)
SuccessIsOwn == \A m \in Publishes : mpc[m] = "ok" => m \in delivered

(* With recovery alone, a closed publisher leaves no channel open and no   *)
(* monitor recovering it, however Close and the recovery overlapped.       *)
ClosedForGood == shutdown /\ PublisherQuiet /\ setup.reconnects = 0 => open = {} /\ closed

PublisherSound == PublisherTypeOK /\ SuccessIsOwn /\ ClosedForGood

(* RabbitMQConnection and ConfirmablePublisher: no connection is left open *)
(* behind the shared one, a publish reports success only for its own       *)
(* message, and a closed publisher leaves no channel (EnsureChannelContext,*)
(* PublishAndWaitConfirm, attemptAutoRecovery).                            *)
BrokerSound == ConnectionSound /\ PublisherSound
=============================================================================

----------------------------- MODULE Broadcast -----------------------------
(***************************************************************************)
(* rustasea-broadcast in one process of a fleet: the hub (hub.rs), the     *)
(* WebSocket sessions on it (ws.rs), and the fan-out task that feeds it    *)
(* from Redis Pub/Sub (redis_driver/subscriber.rs, redis_driver/mod.rs).   *)
(*                                                                         *)
(* A message is the number of its PUBLISH.  A sender is tokio's broadcast  *)
(* channel: it keeps the last Buffer messages, and a receiver that falls   *)
(* further behind is told so and goes on with the oldest kept.  The gate   *)
(* is the application's; Allowed is what it answers.                       *)
(***************************************************************************)
EXTENDS Naturals, Sequences, FiniteSets, SequencesExt

CONSTANTS
  Wire,          \* wire channel names
  PrivateWire,   \* those with the private- or presence- prefix
  Session,       \* sockets
  Allowed,       \* <<session, channel>>: the gate lets the identity join
  Buffer,        \* messages a sender keeps
  MaxMessages,   \* BOUND: messages
  NoSender       \* no entry in the hub

ASSUME BroadcastAssumption ==
  /\ PrivateWire \subseteq Wire /\ Allowed \subseteq Session \X Wire
  /\ Buffer \in Nat \ {0} /\ MaxMessages \in Nat
  /\ NoSender \notin Nat \ {0}

VARIABLES
  published,   \* the channel of every PUBLISH so far
  up,          \* the Pub/Sub connection of this process is open
  stream,      \* messages on their way to the fan-out task
  dropped,     \* messages this process never sees; no code reads it
  fan,         \* the fan-out task
  channels,    \* hub: wire name -> sender
  senders,     \* the messages each sender got, in the order they came
  session      \* per socket: what it is doing

broadcastVars == <<published, up, stream, dropped, fan, channels, senders, session>>

FanIdle == [pc |-> "idle"]

BroadcastInit ==
  /\ published = <<>>
  /\ up = TRUE
  /\ stream = <<>> /\ dropped = {}
  /\ fan = FanIdle
  /\ channels = [c \in Wire |-> NoSender]
  /\ senders = <<>>
  /\ session = [s \in Session |-> [pc |-> "first"]]

-----------------------------------------------------------------------------
(* Redis. *)

\* RedisBroadcaster::publish in some process of the fleet.
Publish(c) ==
  /\ Len(published) < MaxMessages
  /\ LET m == Len(published) + 1 IN
     /\ published' = Append(published, c)
     /\ IF up THEN stream' = Append(stream, m) /\ UNCHANGED dropped
        ELSE dropped' = dropped \cup {m} /\ UNCHANGED stream
  /\ UNCHANGED <<up, fan, channels, senders, session>>

\* The connection closes; of what was on its way a prefix has arrived.  The
\* fan-out ends when it has forwarded that, and nothing starts it again.
Disconnect(n) ==
  /\ up /\ n \in 0 .. Len(stream)
  /\ up' = FALSE
  /\ stream' = SubSeq(stream, 1, n)
  /\ dropped' = dropped \cup ToSet(SubSeq(stream, n + 1, Len(stream)))
  /\ UNCHANGED <<published, fan, channels, senders, session>>

\* The fan-out receives a message and hub.publish clones the sender of its
\* channel under the read lock; without one the message is for nobody.  A
\* payload that does not parse is skipped and is no message here.
FanTake ==
  /\ fan = FanIdle /\ stream # <<>>
  /\ LET m == Head(stream) IN
     fan' = IF channels[published[m]] = NoSender THEN FanIdle
            ELSE [pc |-> "send", message |-> m, sender |-> channels[published[m]]]
  /\ stream' = Tail(stream)
  /\ UNCHANGED <<published, up, dropped, channels, senders, session>>

FanSend ==
  /\ fan.pc = "send"
  /\ senders' = [senders EXCEPT ![fan.sender] = Append(@, fan.message)]
  /\ fan' = FanIdle
  /\ UNCHANGED <<published, up, stream, dropped, channels, session>>

-----------------------------------------------------------------------------
(* Sessions. *)

SAt(s, pc) == session[s].pc = pc
SGo(s, to) == session' = [session EXCEPT ![s] = to]
Closed == [pc |-> "closed"]

authorize_subscription(s, c) == c \in PrivateWire => <<s, c>> \in Allowed

\* The first frame is a subscription and the gate is asked.  A malformed
\* frame, a denial and the prompt exchange, which touches no channel, end in
\* a close.
FirstFrame(s, c) ==
  /\ SAt(s, "first")
  /\ \/ authorize_subscription(s, c) /\ SGo(s, [pc |-> "subscribe", channel |-> c])
     \/ SGo(s, Closed)
  /\ UNCHANGED <<published, up, stream, dropped, fan, channels, senders>>

\* Mutant: every subscription puts a sender of its own in the map.
insert(c) == Len(senders) + 1

\* entry(c).or_insert_with(...)
entry(c) == IF channels[c] = NoSender THEN Len(senders) + 1 ELSE channels[c]

\* hub.subscribe under the write lock: the receiver starts after the last
\* message of the sender.
Subscribe(s) ==
  /\ SAt(s, "subscribe")
  /\ LET c == session[s].channel
         t == entry(c)
     IN  /\ channels' = [channels EXCEPT ![c] = t]
         /\ senders' = IF t \in DOMAIN senders THEN senders ELSE Append(senders, <<>>)
         /\ SGo(s, [pc |-> "ack", channel |-> c, sender |-> t,
                    next |-> Len(senders'[t]) + 1])
  /\ UNCHANGED <<published, up, stream, dropped, fan>>

\* A session in its loop.
Opened(q, since, next, lagged, frames) ==
  [pc |-> "open", channel |-> q.channel, sender |-> q.sender, since |-> since,
   next |-> next, lagged |-> lagged, frames |-> frames]

\* The acknowledgement goes out, or the peer is gone.  `since` is how many
\* messages were published by then.
Ack(s) ==
  /\ SAt(s, "ack")
  /\ \/ SGo(s, Opened(session[s], Len(published), session[s].next, FALSE, <<>>))
     \/ SGo(s, Closed)
  /\ UNCHANGED <<published, up, stream, dropped, fan, channels, senders>>

\* One turn of the loop: a message, which is pushed to the peer, a lag, which
\* is passed over, or the end of the connection.
Turn(s) ==
  /\ SAt(s, "open")
  /\ LET q      == session[s]
         log    == senders[q.sender]
         next   == q.next
         oldest == IF Len(log) > Buffer THEN Len(log) - Buffer + 1 ELSE 1
     IN  \/ /\ next >= oldest /\ next <= Len(log)
            /\ SGo(s, Opened(q, q.since, next + 1, q.lagged, Append(q.frames, log[next])))
         \/ /\ next < oldest
            /\ SGo(s, Opened(q, q.since, oldest, TRUE, q.frames))
         \/ SGo(s, Closed)
  /\ UNCHANGED <<published, up, stream, dropped, fan, channels, senders>>

BroadcastNext ==
  \/ \E c \in Wire : Publish(c)
  \/ \E n \in 0 .. MaxMessages : Disconnect(n)
  \/ FanTake \/ FanSend
  \/ \E s \in Session :
        \/ \E c \in Wire : FirstFrame(s, c)
        \/ Subscribe(s) \/ Ack(s) \/ Turn(s)

BroadcastSpec == BroadcastInit /\ [][BroadcastNext]_broadcastVars

-----------------------------------------------------------------------------
\* Where a message for an open session still is on its way.
Underway(s, m) ==
  \/ Contains(stream, m)
  \/ fan.pc = "send" /\ fan.message = m /\ fan.sender = session[s].sender
  \/ \E i \in DOMAIN senders[session[s].sender] :
        i >= session[s].next /\ senders[session[s].sender][i] = m

\* A session that was told it is subscribed misses no message of its channel
\* published from then on, and gets them in the order of their publication,
\* unless it was told that it lags or the process lost Redis; other sessions
\* joining the channel meanwhile change nothing (session, subscribe, start).
SubscribedMissNothing ==
  \A s \in Session :
     SAt(s, "open") /\ ~ session[s].lagged =>
       /\ \A m \in DOMAIN published :
             m > session[s].since /\ published[m] = session[s].channel /\ m \notin dropped
               => Contains(session[s].frames, m) \/ Underway(s, m)
       /\ \A i, j \in DOMAIN session[s].frames :
             i < j => session[s].frames[i] < session[s].frames[j]
=============================================================================

---------------------------- MODULE RealtimeClient ----------------------------
(***************************************************************************)
(* class RealtimeClient in sdk/js/src/index.ts: the one WebSocket a page   *)
(* shares, the channels it subscribes to, the publishes that wait for a    *)
(* connection, and the reconnects.                                         *)
(*                                                                         *)
(* JavaScript runs one task at a time, but setState calls the application  *)
(* back in the middle of the client's methods, and the application may     *)
(* call the client again.  stack holds what is left to do of the methods   *)
(* that wait for such a callback to return; tasks start when it is empty.  *)
(***************************************************************************)
EXTENDS FiniteSets, SequencesExt

CONSTANTS
    Listeners,      \* the calls of on(), each with a callback of its own
    Msgs,           \* the calls of publish()
    Channels, Events,
    ChannelOf,      \* of a listener and of a publish
    EventOf,        \* of a listener
    Again,          \* the listeners whose unsubscribe function may be called again
    MaxDrops,       \* how often the connection breaks
    None

ASSUME ClientAssumption ==
    /\ None \notin Listeners /\ Listeners \cap Msgs = {}
    /\ ChannelOf \in [Listeners \cup Msgs -> Channels]
    /\ EventOf \in [Listeners -> Events]
    /\ Again \subseteq Listeners
    /\ MaxDrops \in Nat

VARIABLES
    socket,         \* this.socket: null or its readyState
    state,          \* what the state listeners were told last
    timer,          \* whether reconnectTimer is set
    channelSince,   \* the channels to subscribe to
    queued,         \* the publishes that wait for a connection
    stack,          \* the methods that wait for a state callback to return
    drops,
    \* the map of maps of sets; a map or a set is named after the on() that made it
    listeners,      \* per channel its map of events
    events,         \* the contents of these maps
    callbacks,      \* the contents of the sets
    closure,        \* per listener: the map and the set its unsubscribe function holds
    life,           \* whether on() and its unsubscribe function were called, or that again
    \* what went over the connections
    heard,          \* the channels subscribed on this connection
    sent,           \* the publishes, on all connections
    called,         \* the calls of publish() outside of state callbacks, in order
    deaf            \* publishes sent before the subscription of their own channel

connection == <<socket, state, timer, drops>>
registry == <<listeners, events, callbacks, closure, life>>
wire == <<heard, sent, deaf>>
vars == <<connection, channelSince, queued, stack, registry, wire, called>>

Init ==
    /\ socket = "null" /\ state = "disconnected" /\ timer = FALSE
    /\ channelSince = {} /\ queued = <<>> /\ stack = <<>> /\ drops = 0
    /\ listeners = [c \in Channels |-> None]
    /\ events = [l \in Listeners |-> [e \in Events |-> None]]
    /\ callbacks = [l \in Listeners |-> {}]
    /\ closure = [l \in Listeners |-> [events |-> None, callbacks |-> None]]
    /\ life = [l \in Listeners |-> "new"]
    /\ heard = {} /\ sent = <<>> /\ called = <<>> /\ deaf = {}

Idle == stack = <<>>
Top == stack[Len(stack)]
Below == SubSeq(stack, 1, Len(stack) - 1)

hasActiveWork ==
    (\E c \in Channels : listeners[c] # None) \/ queued # <<>> \/ channelSince # {}

\* The state listeners are told of a change, and rest waits until they return.
SetState(s, rest) ==
    /\ state' = s
    /\ stack' = Append(stack, rest)

(***************************************************************************)
(* The methods the application calls, from tasks of its own or from a      *)
(* state callback                                                          *)
(***************************************************************************)
\* A socket whose readyState is not CLOSED is used again.
NeedsSocket == socket \in {"null", "closed"}

NewSocket(rest) ==
    /\ socket' = "connecting"
    /\ heard' = {}
    /\ IF state \in {"connecting", "reconnecting"}
       THEN UNCHANGED <<state, stack>>
       ELSE SetState("connecting", rest)

\* Mutant: nothing is sent on a connection that is open already.
Subscribe_Late(c) ==
    /\ channelSince' = channelSince \cup {c}
    /\ IF c \notin channelSince /\ NeedsSocket
       THEN NewSocket(<<"return">>)
       ELSE UNCHANGED <<socket, state, stack, heard>>

Subscribe(c) ==
    /\ channelSince' = channelSince \cup {c}
    /\ IF c \in channelSince
       THEN UNCHANGED <<socket, state, stack, heard>>
       ELSE IF NeedsSocket
            THEN NewSocket(<<"return">>)
            ELSE /\ heard' = IF socket = "open" THEN heard \cup {c} ELSE heard
                 /\ UNCHANGED <<socket, state, stack>>

\* The map and the set on() adds its callback to.
MapFor(l) == IF listeners[ChannelOf[l]] = None THEN l ELSE listeners[ChannelOf[l]]
SetFor(l) == IF events[MapFor(l)][EventOf[l]] = None THEN l ELSE events[MapFor(l)][EventOf[l]]

On(l) ==
    /\ life[l] = "new"
    /\ life' = [life EXCEPT ![l] = "on"]
    /\ listeners' = [listeners EXCEPT ![ChannelOf[l]] = MapFor(l)]
    /\ events' = [events EXCEPT ![MapFor(l)][EventOf[l]] = SetFor(l)]
    /\ callbacks' = [callbacks EXCEPT ![SetFor(l)] = @ \cup {l}]
    /\ closure' = [closure EXCEPT ![l] = [events |-> MapFor(l), callbacks |-> SetFor(l)]]
    /\ Subscribe(ChannelOf[l])
    /\ UNCHANGED <<timer, drops, queued, sent, deaf, called>>

\* collection().subscribe(): subscribe() even without a handler, then open(), which makes a
\* connection at once where a channel that is known already waits for the timer.
CollectionSubscribe(c) ==
    /\ c \notin channelSince \/ NeedsSocket
    /\ IF c \in channelSince
       THEN NewSocket(<<"return">>) /\ UNCHANGED channelSince
       ELSE Subscribe(c)
    /\ UNCHANGED <<timer, drops, queued, registry, sent, deaf, called>>

\* Mutant: any callback that goes takes the timer along.
ClearTimer_Always == timer' = FALSE

\* clearReconnectTimer, when there is nothing left to do.
ClearTimer == timer' = (timer /\ hasActiveWork')

\* Mutant: the channel goes with the last callback of one event.
Off_Channel(l) ==
    /\ life[l] = "on" \/ (life[l] \in {"off", "again"} /\ l \in Again)
    /\ LET c == ChannelOf[l]
           own == closure[l]
           left == callbacks[own.callbacks] \ {l}
       IN  /\ callbacks' = [callbacks EXCEPT ![own.callbacks] = left]
           /\ listeners' = IF left = {} THEN [listeners EXCEPT ![c] = None] ELSE listeners
           /\ channelSince' = IF left = {} THEN channelSince \ {c} ELSE channelSince
    /\ life' = [life EXCEPT ![l] = IF @ = "on" THEN "off" ELSE "again"]
    /\ UNCHANGED <<socket, state, drops, queued, stack, events, closure, wire, called>>
    /\ ClearTimer

\* The unsubscribe function of on(): it works on the map and the set it was made with.
Off(l) ==
    /\ life[l] = "on" \/ (life[l] \in {"off", "again"} /\ l \in Again)
    /\ LET c == ChannelOf[l]
           own == closure[l]
           left == callbacks[own.callbacks] \ {l}
           map == IF left = {} THEN [events[own.events] EXCEPT ![EventOf[l]] = None]
                               ELSE events[own.events]
           last == \A e \in Events : map[e] = None
       IN  /\ callbacks' = [callbacks EXCEPT ![own.callbacks] = left]
           /\ events' = [events EXCEPT ![own.events] = map]
           /\ listeners' = IF last THEN [listeners EXCEPT ![c] = None] ELSE listeners
           /\ channelSince' = IF last THEN channelSince \ {c} ELSE channelSince
    /\ life' = [life EXCEPT ![l] = IF @ = "on" THEN "off" ELSE "again"]
    /\ UNCHANGED <<socket, state, drops, queued, stack, closure, wire, called>>
    /\ ClearTimer

\* Frames to an open socket.
Listened(c) == listeners[c] # None
Deafened(ms, subscribed) ==
    {m \in ToSet(ms) : Listened(ChannelOf[m]) /\ ChannelOf[m] \notin subscribed}

Publish(m) ==
    /\ m \notin ToSet(sent) \cup ToSet(queued) \cup ToSet(called)
    /\ <<"queue", m>> \notin ToSet(stack)
    /\ called' = IF Idle THEN Append(called, m) ELSE called
    /\ \/ /\ socket = "open"
          /\ sent' = Append(sent, m)
          /\ deaf' = deaf \cup Deafened(<<m>>, heard)
          /\ UNCHANGED <<socket, state, queued, stack, heard>>
       \/ /\ socket \in {"connecting", "closing"}
          /\ queued' = Append(queued, m)
          /\ UNCHANGED <<socket, state, stack, wire>>
       \/ /\ NeedsSocket
          /\ NewSocket(<<"queue", m>>)
          /\ queued' = IF stack' = stack THEN Append(queued, m) ELSE queued
          /\ UNCHANGED <<sent, deaf>>
    /\ UNCHANGED <<timer, drops, channelSince, registry>>

Queue ==
    /\ ~Idle
    /\ \E m \in Msgs :
        /\ Top = <<"queue", m>>
        /\ queued' = Append(queued, m)
    /\ stack' = Below
    /\ UNCHANGED <<connection, channelSince, registry, wire, called>>

Return ==
    /\ ~Idle /\ Top = <<"return">>
    /\ stack' = Below
    /\ UNCHANGED <<connection, channelSince, queued, registry, wire, called>>

(***************************************************************************)
(* The events of the socket                                                *)
(***************************************************************************)
\* Mutant: the queue goes out before the subscriptions.
Opened_DrainFirst ==
    /\ Idle
    /\ socket = "connecting"
    /\ socket' = "open"
    /\ timer' = FALSE
    /\ state' = "connected"
    /\ stack' = <<<<"resubscribe">>, <<"drain">>>>
    /\ UNCHANGED <<drops, channelSince, queued, registry, wire, called>>

Opened ==
    /\ Idle
    /\ socket = "connecting"
    /\ socket' = "open"
    /\ timer' = FALSE
    /\ SetState("connected", <<"resubscribe">>)
    /\ UNCHANGED <<drops, channelSince, queued, registry, wire, called>>

Resubscribe ==
    /\ ~Idle /\ Top = <<"resubscribe">>
    /\ heard' = heard \cup channelSince
    /\ stack' = Append(Below, <<"drain">>)
    /\ UNCHANGED <<connection, channelSince, queued, registry, sent, deaf, called>>

\* Mutant: what was sent stays in the queue.
Drain_Keeps ==
    /\ ~Idle /\ Top = <<"drain">>
    /\ sent' = sent \o queued
    /\ deaf' = deaf \cup Deafened(queued, heard)
    /\ stack' = Below
    /\ UNCHANGED <<connection, channelSince, queued, registry, heard, called>>

Drain ==
    /\ ~Idle /\ Top = <<"drain">>
    /\ sent' = sent \o queued
    /\ deaf' = deaf \cup Deafened(queued, heard)
    /\ queued' = <<>>
    /\ stack' = Below
    /\ UNCHANGED <<connection, channelSince, registry, heard, called>>

\* A close frame has come: CLOSING until the connection is gone.
Closing ==
    /\ Idle
    /\ socket = "open"
    /\ drops < MaxDrops
    /\ drops' = drops + 1
    /\ socket' = "closing"
    /\ UNCHANGED <<state, timer, channelSince, queued, stack, registry, wire, called>>

\* The readyState is CLOSED; an error event may let the application run before the
\* close event comes.
Closed ==
    /\ Idle
    /\ \/ socket = "closing" /\ UNCHANGED drops
       \/ socket \in {"connecting", "open"} /\ drops < MaxDrops /\ drops' = drops + 1
    /\ socket' = "closed"
    /\ UNCHANGED <<state, timer, channelSince, queued, stack, registry, wire, called>>

\* scheduleReconnect, if there is work and no timer.
ScheduleReconnect(below) ==
    IF hasActiveWork /\ ~timer
    THEN state' = "reconnecting" /\ stack' = Append(below, <<"arm">>)
    ELSE stack' = below /\ UNCHANGED state

\* The close event of a socket that was replaced meanwhile is ignored.
CloseEvent ==
    /\ Idle
    /\ socket = "closed"
    /\ socket' = "null"
    /\ heard' = {}
    /\ IF state = "disconnected"
       THEN ScheduleReconnect(stack)
       ELSE SetState("disconnected", <<"closed">>)
    /\ UNCHANGED <<timer, drops, channelSince, queued, registry, sent, deaf, called>>

\* Mutant: a queued publish, or a channel without a listener, is no reason to reconnect.
AfterClose_Listeners ==
    /\ ~Idle /\ Top = <<"closed">>
    /\ IF \E c \in Channels : listeners[c] # None
       THEN ScheduleReconnect(Below)
       ELSE stack' = Below /\ UNCHANGED state
    /\ UNCHANGED <<socket, timer, drops, channelSince, queued, registry, wire, called>>

AfterClose ==
    /\ ~Idle /\ Top = <<"closed">>
    /\ ScheduleReconnect(Below)
    /\ UNCHANGED <<socket, timer, drops, channelSince, queued, registry, wire, called>>

Arm ==
    /\ ~Idle /\ Top = <<"arm">>
    /\ timer' = TRUE
    /\ stack' = Below
    /\ UNCHANGED <<socket, state, drops, channelSince, queued, registry, wire, called>>

TimerFires ==
    /\ Idle
    /\ timer /\ socket # "closed"
    /\ timer' = FALSE
    /\ IF ~hasActiveWork
       THEN SetState("disconnected", <<"return">>) /\ UNCHANGED <<socket, heard>>
       ELSE IF NeedsSocket
            THEN NewSocket(<<"return">>)
            ELSE UNCHANGED <<socket, state, stack, heard>>
    /\ UNCHANGED <<drops, channelSince, queued, registry, sent, deaf, called>>

Continue == Queue \/ Return \/ Resubscribe \/ Drain \/ AfterClose \/ Arm

Application ==
    \/ \E l \in Listeners : On(l) \/ Off(l)
    \/ \E c \in Channels : CollectionSubscribe(c)
    \/ \E m \in Msgs : Publish(m)

Next ==
    \/ Application
    \/ Continue
    \/ Opened \/ Closing \/ Closed \/ CloseEvent
    \/ TimerFires

Spec == Init /\ [][Next]_vars

\* Callbacks return, timers fire, a handshake and a closing handshake end; nothing is
\* assumed of the application.
Fairness ==
    /\ WF_vars(Continue) /\ WF_vars(Opened) /\ WF_vars(Closed) /\ WF_vars(CloseEvent)
    /\ WF_vars(TimerFires)

FairSpec == Spec /\ Fairness

(***************************************************************************)
(* Properties                                                              *)
(***************************************************************************)
Connected == socket = "open" /\ Idle

\* An unsubscribe function that is called a second time works on the map and the set of
\* then, and may end a subscription of now.
Disturbed(c) == \E l \in Listeners : ChannelOf[l] = c /\ life[l] = "again"

Reached(l) ==
    /\ listeners[ChannelOf[l]] # None
    /\ events[listeners[ChannelOf[l]]][EventOf[l]] # None
    /\ l \in callbacks[events[listeners[ChannelOf[l]]][EventOf[l]]]

\* A callback is called for its event from on() until its unsubscribe function, whatever
\* other callbacks of the same channel and event come and go, and not afterwards; an
\* unsubscribe function called twice disturbs its own channel at most.
ListenersKept ==
    \A l \in Listeners :
        /\ Reached(l) => life[l] = "on"
        /\ life[l] = "on" /\ ~Disturbed(ChannelOf[l]) => Reached(l)

\* On an open connection the server has been asked for every channel somebody listens to,
\* whenever the listener came: before the first connection, during a break, in a callback.
Resubscribed ==
    Connected => \A l \in Listeners :
        life[l] = "on" /\ ~Disturbed(ChannelOf[l]) => ChannelOf[l] \in heard

Before(s, m, n) == \E i, j \in DOMAIN s : i < j /\ s[i] = m /\ s[j] = n

\* What was published goes out once, in the order of the calls (those made within a state
\* callback apart), and does not stay behind on an open connection.
PublishedInOrder ==
    /\ IsInjective(sent)
    /\ \A i, j \in DOMAIN called :
          i < j /\ called[j] \in ToSet(sent) => Before(sent, called[i], called[j])
    /\ Connected => queued = <<>>

\* Who publishes on a channel it listens to is subscribed by the time the publish is sent.
PublisherHears == deaf \subseteq Msgs \ ToSet(called)

\* Between two tasks, work without a socket has a timer that will make one: no break, and
\* nothing the application does in a state callback, leaves it with neither.
Rearmed == Idle /\ hasActiveWork => socket # "null" \/ timer

\* As long as there is something to do a connection is made again after each break.
Reconnects == hasActiveWork ~> (socket = "open" \/ ~hasActiveWork)
================================================================================

------------------------- MODULE RealtimeClientProofs -------------------------
(***************************************************************************)
(* Theorems about RealtimeClient, for any callbacks, publishes and breaks: *)
(* the registry of callbacks, the subscriptions of a new connection and    *)
(* the order of the publishes, whatever the application calls from within  *)
(* a state callback.                                                       *)
(***************************************************************************)
EXTENDS RealtimeClient, SequenceTheorems, TLAPS

(***************************************************************************)
(* Types.                                                                  *)
(***************************************************************************)
Frames ==
    {<<"return">>, <<"resubscribe">>, <<"drain">>, <<"closed">>, <<"arm">>}
    \cup {<<"queue", m>> : m \in Msgs}

RegistryTypes ==
    /\ listeners \in [Channels -> Listeners \cup {None}]
    /\ events \in [Listeners -> [Events -> Listeners \cup {None}]]
    /\ callbacks \in [Listeners -> SUBSET Listeners]
    /\ closure \in [Listeners -> [events : Listeners \cup {None}, callbacks : Listeners \cup {None}]]
    /\ life \in [Listeners -> {"new", "on", "off", "again"}]
    /\ \A l \in Listeners : life[l] # "new" =>
          closure[l].events \in Listeners /\ closure[l].callbacks \in Listeners

TypeOK ==
    /\ socket \in {"null", "connecting", "open", "closing", "closed"}
    /\ channelSince \subseteq Channels /\ heard \subseteq Channels
    /\ queued \in Seq(Msgs) /\ sent \in Seq(Msgs) /\ called \in Seq(Msgs)
    /\ stack \in Seq(Frames)
    /\ deaf \subseteq Msgs
    /\ RegistryTypes

(***************************************************************************)
(* The registry.  As long as no unsubscribe function of its channel was    *)
(* called twice, what an unsubscribe function holds is what on() would     *)
(* find for its channel and event now.                                     *)
(***************************************************************************)
\* a callback that is on is where its unsubscribe function looks for it
OnIsFound == \A l \in Listeners : life[l] = "on" /\ ~Disturbed(ChannelOf[l]) =>
    /\ listeners[ChannelOf[l]] # None
    /\ closure[l].events = listeners[ChannelOf[l]]
    /\ events[closure[l].events][EventOf[l]] # None
    /\ closure[l].callbacks = events[closure[l].events][EventOf[l]]
    /\ l \in callbacks[closure[l].callbacks]

\* and nowhere else
InOneSet == \A s, l \in Listeners :
    l \in callbacks[s] => life[l] = "on" /\ closure[l].callbacks = s

\* a map, of now or of an unsubscribe function, is of one channel for ever
MapsOfChannels ==
    /\ \A c \in Channels : listeners[c] # None => ChannelOf[listeners[c]] = c
    /\ \A l \in Listeners : life[l] # "new" => ChannelOf[closure[l].events] = ChannelOf[l]

Registry == OnIsFound /\ InOneSet /\ MapsOfChannels

(***************************************************************************)
(* The connection.  The socket changes under a waiting method only where   *)
(* one is made, so a method that sends finds the one it was called for.    *)
(***************************************************************************)
Opening == stack = <<<<"resubscribe">>>>
Draining == stack = <<<<"drain">>>>

Wanted == \A c \in Channels : Listened(c) => c \in channelSince

Sending == \A i \in DOMAIN stack :
    /\ stack[i] \in {<<"resubscribe">>, <<"drain">>} => Len(stack) = 1 /\ socket = "open"
    /\ \A m \in Msgs : stack[i] = <<"queue", m>> => socket = "connecting"

AllHeard == socket = "open" => channelSince \subseteq heard \/ Opening
AllSent == socket = "open" => queued = <<>> \/ Opening \/ Draining

(***************************************************************************)
(* The publishes: each is in one place, and those that were called for     *)
(* when nothing waited keep their order in it and between the places.      *)
(***************************************************************************)
IsQueue(f) == \E m \in Msgs : f = <<"queue", m>>
InFrame(m) == \E i \in DOMAIN stack : stack[i] = <<"queue", m>>
OneFrame == \A i, j \in DOMAIN stack : IsQueue(stack[i]) /\ IsQueue(stack[j]) => i = j

OnePlace ==
    /\ IsInjective(sent) /\ IsInjective(queued) /\ IsInjective(called)
    /\ ToSet(sent) \cap ToSet(queued) = {}
    /\ \A m \in Msgs : InFrame(m) => m \notin ToSet(sent) \cup ToSet(queued)

NoneLost == \A m \in ToSet(called) : m \in ToSet(sent) \cup ToSet(queued) \/ InFrame(m)

InOrder == \A i, j \in DOMAIN called : i < j =>
    /\ called[j] \in ToSet(sent) => Before(sent, called[i], called[j])
    /\ called[j] \in ToSet(queued) =>
          called[i] \in ToSet(sent) \/ Before(queued, called[i], called[j])

DeafInCallbacks == deaf \subseteq ToSet(sent) \ ToSet(called)

ConnInv == TypeOK /\ Sending /\ AllSent
OrderInv == ConnInv /\ OneFrame /\ OnePlace /\ NoneLost /\ InOrder
ListenInv == OrderInv /\ Wanted /\ AllHeard /\ DeafInCallbacks

(***************************************************************************)
(* What the methods do to the stack.                                       *)
(***************************************************************************)
LEMMA QueueFrame ==
    ASSUME NEW m, NEW f \in {<<"return">>, <<"resubscribe">>, <<"drain">>, <<"closed">>, <<"arm">>}
    PROVE  <<"queue", m>> # f
<1>1. <<"queue", m>>[1] = "queue"
  OBVIOUS
<1>2. f[1] # "queue"
  OBVIOUS
<1> QED BY <1>1, <1>2

LEMMA Appended ==
    ASSUME NEW S, NEW s \in Seq(S), NEW x \in S
    PROVE  /\ Append(s, x) \in Seq(S)
           /\ Len(Append(s, x)) = Len(s) + 1
           /\ \A i \in DOMAIN s : i \in DOMAIN Append(s, x) /\ Append(s, x)[i] = s[i]
           /\ Len(s) + 1 \in DOMAIN Append(s, x) /\ Append(s, x)[Len(s) + 1] = x
           /\ \A i \in DOMAIN Append(s, x) : i \in DOMAIN s \/ i = Len(s) + 1
  OBVIOUS

LEMMA Shortened ==
    ASSUME NEW S, NEW s \in Seq(S), s # <<>>
    PROVE  /\ SubSeq(s, 1, Len(s) - 1) \in Seq(S)
           /\ Len(SubSeq(s, 1, Len(s) - 1)) = Len(s) - 1
           /\ Len(s) \in DOMAIN s
           /\ \A i \in DOMAIN SubSeq(s, 1, Len(s) - 1) :
                 i \in DOMAIN s /\ Len(s) # 1 /\ SubSeq(s, 1, Len(s) - 1)[i] = s[i]
           /\ \A i \in DOMAIN s : i = Len(s) \/ i \in DOMAIN SubSeq(s, 1, Len(s) - 1)
<1>1. Len(s) \in Nat \ {0} /\ DOMAIN s = 1..Len(s) /\ \A i \in 1..Len(s) : s[i] \in S
  BY EmptySeq
<1> DEFINE t == SubSeq(s, 1, Len(s) - 1)
<1>2. t \in Seq(S) /\ Len(t) = Len(s) - 1 /\ \A i \in 1..(Len(s) - 1) : t[i] = s[i]
  BY <1>1, SubSeqProperties
<1>3. DOMAIN t = 1..(Len(s) - 1)
  BY <1>2
<1> HIDE DEF t
<1>4. /\ \A i \in DOMAIN t : i \in DOMAIN s /\ Len(s) # 1 /\ t[i] = s[i]
      /\ \A i \in DOMAIN s : i = Len(s) \/ i \in DOMAIN t
  BY <1>1, <1>2, <1>3
<1> QED BY <1>1, <1>2, <1>4 DEF t

LEMMA Popped ==
    ASSUME TypeOK, ~Idle
    PROVE  /\ Below \in Seq(Frames) /\ Len(Below) = Len(stack) - 1
           /\ Len(stack) \in DOMAIN stack /\ Top \in Frames
           /\ \A i \in DOMAIN Below : i \in DOMAIN stack /\ Len(stack) # 1 /\ Below[i] = stack[i]
           /\ \A i \in DOMAIN stack : i = Len(stack) \/ i \in DOMAIN Below
<1>1. stack \in Seq(Frames) /\ stack # <<>>
  BY DEF TypeOK, Idle
<1>2. \A i \in DOMAIN stack : stack[i] \in Frames
  BY <1>1
<1> QED BY <1>1, <1>2, Shortened DEF Below, Top

\* A connection that is made: the frame is pushed when a state callback runs.
LEMMA Connecting ==
    ASSUME TypeOK, NEW rest \in Frames, NewSocket(rest)
    PROVE  /\ socket' = "connecting" /\ heard' = {}
           /\ stack' = stack \/ stack' = Append(stack, rest)
           /\ stack' \in Seq(Frames)
<1>1. stack \in Seq(Frames) /\ Append(stack, rest) \in Seq(Frames)
  BY Appended DEF TypeOK
<1> QED BY <1>1 DEF NewSocket, SetState

LEMMA Subscribed ==
    ASSUME TypeOK, NEW c \in Channels, Subscribe(c)
    PROVE  /\ channelSince' = channelSince \cup {c}
           /\ \/ /\ UNCHANGED <<socket, stack>>
                 /\ heard' \in {heard, heard \cup {c}}
                 /\ socket = "open" /\ c \notin channelSince => c \in heard'
              \/ /\ NeedsSocket /\ socket' = "connecting" /\ heard' = {}
                 /\ stack' = stack \/ stack' = Append(stack, <<"return">>)
           /\ stack' \in Seq(Frames)
<1>1. <<"return">> \in Frames
  BY DEF Frames
<1>2. CASE c \in channelSince
  BY <1>2 DEF Subscribe, TypeOK
<1>3. CASE c \notin channelSince /\ NeedsSocket
  BY <1>1, <1>3, Connecting DEF Subscribe
<1>4. CASE c \notin channelSince /\ ~NeedsSocket
  BY <1>4 DEF Subscribe, TypeOK
<1> QED BY <1>2, <1>3, <1>4

LEMMA Rescheduled ==
    ASSUME TypeOK, NEW below \in Seq(Frames), ScheduleReconnect(below)
    PROVE  stack' \in {below, Append(below, <<"arm">>)} /\ stack' \in Seq(Frames)
<1>1. <<"arm">> \in Frames
  BY DEF Frames
<1> QED BY <1>1 DEF ScheduleReconnect

(***************************************************************************)
(* Types are kept.                                                         *)
(***************************************************************************)
LEMMA OnTypes ==
    ASSUME TypeOK, NEW l \in Listeners, On(l)
    PROVE  /\ RegistryTypes'
           /\ MapFor(l) \in Listeners /\ SetFor(l) \in Listeners
           /\ ChannelOf[l] \in Channels /\ EventOf[l] \in Events
<1>1. ChannelOf[l] \in Channels /\ EventOf[l] \in Events
  BY ClientAssumption
<1>2. MapFor(l) \in Listeners
  BY <1>1 DEF MapFor, TypeOK, RegistryTypes
<1>3. SetFor(l) \in Listeners
  BY <1>1, <1>2 DEF SetFor, TypeOK, RegistryTypes
<1> HIDE DEF MapFor, SetFor
<1> QED BY <1>1, <1>2, <1>3 DEF On, TypeOK, RegistryTypes

LEMMA OffTypes ==
    ASSUME TypeOK, NEW l \in Listeners, Off(l)
    PROVE  /\ RegistryTypes' /\ channelSince' \subseteq channelSince
           /\ ChannelOf[l] \in Channels /\ EventOf[l] \in Events
           /\ closure[l].events \in Listeners /\ closure[l].callbacks \in Listeners
<1> DEFINE c == ChannelOf[l]
           own == closure[l]
           left == callbacks[own.callbacks] \ {l}
           map == IF left = {} THEN [events[own.events] EXCEPT ![EventOf[l]] = None]
                               ELSE events[own.events]
           last == \A e \in Events : map[e] = None
<1>1. c \in Channels /\ EventOf[l] \in Events
  BY ClientAssumption
<1>2. own.events \in Listeners /\ own.callbacks \in Listeners
  BY DEF Off, TypeOK, RegistryTypes
<1>3. left \in SUBSET Listeners /\ map \in [Events -> Listeners \cup {None}]
  BY <1>1, <1>2 DEF TypeOK, RegistryTypes
<1>4. /\ callbacks' = [callbacks EXCEPT ![own.callbacks] = left]
      /\ events' = [events EXCEPT ![own.events] = map]
      /\ listeners' = IF last THEN [listeners EXCEPT ![c] = None] ELSE listeners
      /\ channelSince' = IF last THEN channelSince \ {c} ELSE channelSince
      /\ life' = [life EXCEPT ![l] = IF @ = "on" THEN "off" ELSE "again"] /\ closure' = closure
  BY DEF Off
<1>5. life[l] # "new"
  BY DEF Off
<1> HIDE DEF c, own, left, map, last
<1>6. callbacks' \in [Listeners -> SUBSET Listeners] /\ events' \in [Listeners -> [Events -> Listeners \cup {None}]]
  BY <1>2, <1>3, <1>4 DEF TypeOK, RegistryTypes
<1>7. listeners' \in [Channels -> Listeners \cup {None}] /\ life' \in [Listeners -> {"new", "on", "off", "again"}]
  BY <1>1, <1>4 DEF TypeOK, RegistryTypes
<1>8. \A k \in Listeners : life'[k] # "new" => life[k] # "new"
  BY <1>4, <1>5 DEF TypeOK, RegistryTypes
<1>9. RegistryTypes'
  BY <1>4, <1>6, <1>7, <1>8 DEF TypeOK, RegistryTypes
<1> QED BY <1>1, <1>2, <1>4, <1>9 DEF c, own

LEMMA FramesHere ==
    /\ {<<"return">>, <<"resubscribe">>, <<"drain">>, <<"closed">>, <<"arm">>} \subseteq Frames
    /\ \A m \in Msgs : <<"queue", m>> \in Frames
  BY DEF Frames

LEMMA TypeStep == TypeOK /\ [Next]_vars => TypeOK'
<1> SUFFICES ASSUME TypeOK, [Next]_vars PROVE TypeOK'
  OBVIOUS
<1> USE DEF connection, registry, wire
<1>1. ASSUME NEW l \in Listeners, On(l) PROVE TypeOK'
  <2>1. /\ Subscribe(ChannelOf[l]) /\ RegistryTypes' /\ ChannelOf[l] \in Channels
        /\ UNCHANGED <<timer, drops, queued, sent, deaf, called>>
    BY <1>1, OnTypes DEF On
  <2> QED BY <2>1, Subscribed DEF TypeOK
<1>2. ASSUME NEW l \in Listeners, Off(l) PROVE TypeOK'
  BY <1>2, OffTypes DEF Off, TypeOK
<1>3. ASSUME NEW c \in Channels, CollectionSubscribe(c) PROVE TypeOK'
  <2>1. UNCHANGED <<queued, registry, sent, deaf, called>> /\ RegistryTypes'
    BY <1>3 DEF CollectionSubscribe, TypeOK, RegistryTypes
  <2>2. CASE Subscribe(c)
    BY <2>1, <2>2, Subscribed DEF TypeOK
  <2>3. CASE NewSocket(<<"return">>) /\ UNCHANGED channelSince
    BY <2>1, <2>3, Connecting, FramesHere DEF TypeOK
  <2> QED BY <1>3, <2>2, <2>3 DEF CollectionSubscribe
<1>4. ASSUME NEW m \in Msgs, Publish(m) PROVE TypeOK'
  <2>1. RegistryTypes' /\ UNCHANGED channelSince
    BY <1>4 DEF Publish, TypeOK, RegistryTypes
  <2>2. called' \in Seq(Msgs) /\ Append(sent, m) \in Seq(Msgs) /\ Append(queued, m) \in Seq(Msgs)
    BY <1>4, Appended DEF Publish, TypeOK
  <2>3. Deafened(<<m>>, heard) \subseteq Msgs
    <3>1. ToSet(<<m>>) = {m}
      BY DEF ToSet
    <3> QED BY <3>1 DEF Deafened
  <2>4. CASE socket = "open" /\ sent' = Append(sent, m) /\ deaf' = deaf \cup Deafened(<<m>>, heard)
             /\ UNCHANGED <<socket, state, queued, stack, heard>>
    BY <2>1, <2>2, <2>3, <2>4 DEF TypeOK
  <2>5. CASE queued' = Append(queued, m) /\ UNCHANGED <<socket, state, stack, wire>>
    BY <2>1, <2>2, <2>5 DEF TypeOK
  <2>6. CASE NewSocket(<<"queue", m>>) /\ queued' \in {Append(queued, m), queued}
             /\ UNCHANGED <<sent, deaf>>
    BY <2>1, <2>2, <2>6, Connecting, FramesHere DEF TypeOK
  <2> QED BY <1>4, <2>4, <2>5, <2>6 DEF Publish
<1>5. CASE Queue
  <2>1. PICK m \in Msgs : queued' = Append(queued, m)
    BY <1>5 DEF Queue
  <2> QED BY <1>5, <2>1, Popped, Appended DEF Queue, TypeOK, RegistryTypes
<1>6. CASE Return
  BY <1>6, Popped DEF Return, TypeOK, RegistryTypes
<1>7. CASE Resubscribe
  <2>1. Append(Below, <<"drain">>) \in Seq(Frames)
    BY <1>7, Popped, Appended, FramesHere DEF Resubscribe
  <2> QED BY <1>7, <2>1 DEF Resubscribe, TypeOK, RegistryTypes
<1>8. CASE Drain
  <2>1. sent \o queued \in Seq(Msgs)
    BY DEF TypeOK
  <2>2. Deafened(queued, heard) \subseteq Msgs
    BY DEF Deafened, TypeOK, ToSet
  <2>3. RegistryTypes'
    BY <1>8 DEF Drain, TypeOK, RegistryTypes
  <2> QED BY <1>8, <2>1, <2>2, <2>3, Popped DEF Drain, TypeOK
<1>9. CASE AfterClose
  BY <1>9, Popped, Rescheduled DEF AfterClose, TypeOK, RegistryTypes
<1>10. CASE Arm
  BY <1>10, Popped DEF Arm, TypeOK, RegistryTypes
<1>11. CASE Opened
  BY <1>11, Appended, FramesHere DEF Opened, SetState, TypeOK, RegistryTypes
<1>12. CASE Closing \/ Closed
  BY <1>12 DEF Closing, Closed, TypeOK, RegistryTypes
<1>13. CASE CloseEvent
  <2>1. stack' \in Seq(Frames)
    <3>1. CASE ScheduleReconnect(stack)
      BY <3>1, Rescheduled DEF TypeOK
    <3>2. CASE SetState("disconnected", <<"closed">>)
      BY <3>2, Appended, FramesHere DEF SetState, TypeOK
    <3> QED BY <1>13, <3>1, <3>2 DEF CloseEvent
  <2> QED BY <1>13, <2>1 DEF CloseEvent, TypeOK, RegistryTypes
<1>14. CASE TimerFires
  <2>1. RegistryTypes' /\ UNCHANGED <<channelSince, queued, sent, deaf, called>>
    BY <1>14 DEF TimerFires, TypeOK, RegistryTypes
  <2>2. CASE SetState("disconnected", <<"return">>) /\ UNCHANGED <<socket, heard>>
    BY <2>1, <2>2, Appended, FramesHere DEF SetState, TypeOK
  <2>3. CASE NewSocket(<<"return">>)
    BY <2>1, <2>3, Connecting, FramesHere DEF TypeOK
  <2>4. CASE UNCHANGED <<socket, state, stack, heard>>
    BY <2>1, <2>4 DEF TypeOK
  <2> QED BY <1>14, <2>2, <2>3, <2>4 DEF TimerFires
<1>15. CASE UNCHANGED vars
  BY <1>15 DEF vars, TypeOK, RegistryTypes
<1> QED
  BY <1>1, <1>2, <1>3, <1>4, <1>5, <1>6, <1>7, <1>8, <1>9, <1>10, <1>11, <1>12, <1>13, <1>14, <1>15
  DEF Next, Application, Continue

(***************************************************************************)
(* The waiting methods and the socket.                                     *)
(***************************************************************************)
\* Only a method that waits alone sends, so a frame that is pushed or popped above or below
\* another is none of these.
LEMMA ConnectingKeeps ==
    ASSUME TypeOK, Sending, NeedsSocket, NEW rest \in {<<"return">>} \cup {<<"queue", m>> : m \in Msgs},
           NewSocket(rest)
    PROVE  Sending'
<1>1. rest \in Frames /\ rest \notin {<<"resubscribe">>, <<"drain">>}
  BY QueueFrame, FramesHere
<1>2. socket' = "connecting" /\ (stack' = stack \/ stack' = Append(stack, rest))
  BY <1>1, Connecting
<1>3. socket # "open" /\ socket # "connecting"
  BY DEF NeedsSocket
<1>4. stack \in Seq(Frames)
  BY DEF TypeOK
<1>5. ASSUME NEW i \in DOMAIN stack' PROVE stack'[i] \notin {<<"resubscribe">>, <<"drain">>}
  <2>1. CASE i \in DOMAIN stack
    <3>1. stack'[i] = stack[i]
      BY <1>1, <1>2, <1>4, <2>1, Appended
    <3> QED BY <1>3, <2>1, <3>1 DEF Sending
  <2>2. CASE i \notin DOMAIN stack
    <3>1. stack'[i] = rest
      BY <1>1, <1>2, <1>4, <2>2, Appended
    <3> QED BY <1>1, <3>1
  <2> QED BY <2>1, <2>2
<1> QED BY <1>2, <1>5 DEF Sending

LEMMA PopKeeps ==
    ASSUME TypeOK, Sending, ~Idle, stack' = Below, socket' = socket
    PROVE  Sending'
<1>1. \A i \in DOMAIN Below : i \in DOMAIN stack /\ Len(stack) # 1 /\ Below[i] = stack[i]
  BY Popped
<1>2. Len(stack) \in Nat
  BY DEF TypeOK
<1>3. ASSUME NEW i \in DOMAIN Below PROVE Below[i] \notin {<<"resubscribe">>, <<"drain">>}
  <2>1. i \in DOMAIN stack /\ Len(stack) # 1 /\ Below[i] = stack[i]
    BY <1>1, <1>2
  <2> QED BY <2>1 DEF Sending
<1>4. ASSUME NEW i \in DOMAIN Below, NEW m \in Msgs, Below[i] = <<"queue", m>> PROVE socket = "connecting"
  BY <1>1, <1>4 DEF Sending
<1> QED BY <1>3, <1>4 DEF Sending

LEMMA SubscribeKeeps ==
    ASSUME TypeOK, Sending, NEW c \in Channels, Subscribe(c)
    PROVE  Sending' /\ (UNCHANGED <<socket, stack>> \/ socket' = "connecting")
<1>1. CASE UNCHANGED <<socket, stack>>
  BY <1>1 DEF Sending
<1>2. CASE NeedsSocket /\ NewSocket(<<"return">>)
  BY <1>2, ConnectingKeeps DEF NewSocket
<1> QED BY <1>1, <1>2 DEF Subscribe

\* A method that goes on is the last to wait, and a sending one the only one.
LEMMA TopSends ==
    ASSUME TypeOK, Sending, ~Idle, Top \in {<<"resubscribe">>, <<"drain">>}
    PROVE  Below = <<>> /\ socket = "open" /\ stack = <<Top>>
<1>1. Len(stack) \in DOMAIN stack /\ Len(Below) = Len(stack) - 1 /\ Below \in Seq(Frames)
  BY Popped
<1>2. Len(stack) = 1 /\ socket = "open"
  BY <1>1 DEF Sending, Top
<1>3. Below = <<>>
  BY <1>1, <1>2, EmptySeq
<1>4. stack = <<Top>>
  BY <1>2 DEF TypeOK, Top
<1> QED BY <1>2, <1>3, <1>4

LEMMA Alone ==
    ASSUME NEW f, stack' = <<f>>, f \in {<<"resubscribe">>, <<"drain">>} => socket' = "open",
           \A m \in Msgs : f # <<"queue", m>>
    PROVE  Sending'
<1>1. Len(stack') = 1 /\ \A i \in DOMAIN stack' : stack'[i] = f
  OBVIOUS
<1> QED BY <1>1 DEF Sending

LEMMA SendingStep == TypeOK /\ Sending /\ [Next]_vars => Sending'
<1> SUFFICES ASSUME TypeOK, Sending, [Next]_vars PROVE Sending'
  OBVIOUS
<1> USE DEF connection, registry, wire
<1>1. ASSUME UNCHANGED <<socket, stack>> PROVE Sending'
  BY <1>1 DEF Sending
<1>2. ASSUME NEW l \in Listeners, On(l) \/ Off(l) PROVE Sending'
  <2>1. CASE On(l)
    BY <2>1, OnTypes, SubscribeKeeps DEF On
  <2> QED BY <1>1, <1>2, <2>1 DEF Off
<1>3. ASSUME NEW c \in Channels, CollectionSubscribe(c) PROVE Sending'
  <2>1. CASE Subscribe(c)
    BY <2>1, SubscribeKeeps
  <2>2. CASE NeedsSocket /\ NewSocket(<<"return">>)
    BY <2>2, ConnectingKeeps
  <2> QED BY <1>3, <2>1, <2>2 DEF CollectionSubscribe
<1>4. ASSUME NEW m \in Msgs, Publish(m) PROVE Sending'
  <2>1. CASE NeedsSocket /\ NewSocket(<<"queue", m>>)
    BY <2>1, ConnectingKeeps
  <2> QED BY <1>1, <1>4, <2>1 DEF Publish
<1>5. CASE Queue \/ Return \/ Drain \/ Arm
  BY <1>5, PopKeeps DEF Queue, Return, Drain, Arm
<1>6. CASE Resubscribe
  <2>1. Below = <<>> /\ socket = "open"
    BY <1>6, TopSends DEF Resubscribe
  <2>2. stack' = <<<<"drain">>>> /\ socket' = "open"
    BY <1>6, <2>1 DEF Resubscribe
  <2> QED BY <2>2, Alone, QueueFrame
<1>7. CASE AfterClose
  <2>1. stack' \in {Below, Append(Below, <<"arm">>)} /\ socket' = socket /\ ~Idle
    BY <1>7, Popped, Rescheduled DEF AfterClose
  <2>2. CASE stack' = Below
    BY <2>1, <2>2, PopKeeps
  <2>3. CASE stack' = Append(Below, <<"arm">>)
    <3>1. Below \in Seq(Frames) /\ <<"arm">> \in Frames
      BY <2>1, Popped, FramesHere
    <3>2. ASSUME NEW i \in DOMAIN stack', i \in DOMAIN Below
          PROVE  /\ stack'[i] \notin {<<"resubscribe">>, <<"drain">>}
                 /\ \A m \in Msgs : stack'[i] = <<"queue", m>> => socket' = "connecting"
      <4>1. i \in DOMAIN stack /\ Len(stack) # 1 /\ stack'[i] = stack[i]
        BY <2>1, <2>3, <3>1, <3>2, Appended, Popped
      <4>2. Len(stack) # 1
        BY <4>1
      <4> QED BY <2>1, <4>1, <4>2 DEF Sending
    <3>3. ASSUME NEW i \in DOMAIN stack', i \notin DOMAIN Below
          PROVE  /\ stack'[i] \notin {<<"resubscribe">>, <<"drain">>}
                 /\ \A m \in Msgs : stack'[i] = <<"queue", m>> => socket' = "connecting"
      <4>1. stack'[i] = <<"arm">>
        BY <2>3, <3>1, <3>3, Appended
      <4> QED BY <4>1, QueueFrame
    <3> QED BY <3>2, <3>3 DEF Sending
  <2> QED BY <2>1, <2>2, <2>3
<1>8. CASE Opened
  <2>1. stack' = <<<<"resubscribe">>>> /\ socket' = "open"
    BY <1>8 DEF Opened, SetState, Idle
  <2> QED BY <2>1, Alone, QueueFrame
<1>9. CASE Closing \/ Closed
  <2>1. stack' = <<>>
    BY <1>9 DEF Closing, Closed, Idle
  <2> QED BY <2>1 DEF Sending
<1>10. CASE CloseEvent
  <2>1. stack' = <<>> \/ stack' = <<<<"arm">>>> \/ stack' = <<<<"closed">>>>
    BY <1>10 DEF CloseEvent, ScheduleReconnect, SetState, Idle
  <2>2. CASE stack' = <<>>
    BY <2>2 DEF Sending
  <2> QED BY <2>1, <2>2, Alone, QueueFrame
<1>11. CASE TimerFires
  <2>1. CASE SetState("disconnected", <<"return">>)
    <3>1. stack' = <<<<"return">>>>
      BY <1>11, <2>1 DEF TimerFires, SetState, Idle
    <3> QED BY <3>1, Alone, QueueFrame
  <2>2. CASE NeedsSocket /\ NewSocket(<<"return">>)
    BY <2>2, ConnectingKeeps
  <2> QED BY <1>1, <1>11, <2>1, <2>2 DEF TimerFires
<1>12. CASE UNCHANGED vars
  BY <1>1, <1>12 DEF vars
<1> QED
  BY <1>2, <1>3, <1>4, <1>5, <1>6, <1>7, <1>8, <1>9, <1>10, <1>11, <1>12 DEF Next, Application, Continue

\* Nothing stays queued on a connection that is open and nothing waits for.
LEMMA AllSentStep == TypeOK /\ Sending /\ AllSent /\ [Next]_vars => AllSent'
<1> SUFFICES ASSUME TypeOK, Sending, AllSent, [Next]_vars PROVE AllSent'
  OBVIOUS
<1> USE DEF connection, registry, wire
<1>1. ASSUME UNCHANGED <<socket, stack, queued>> PROVE AllSent'
  BY <1>1 DEF AllSent, Opening, Draining
<1>2. ASSUME socket' # "open" PROVE AllSent'
  BY <1>2 DEF AllSent
<1>3. ASSUME NEW l \in Listeners, On(l) \/ Off(l) PROVE AllSent'
  <2>1. CASE On(l)
    BY <1>1, <1>2, <2>1, OnTypes, SubscribeKeeps DEF On
  <2> QED BY <1>1, <1>3, <2>1 DEF Off
<1>4. ASSUME NEW c \in Channels, CollectionSubscribe(c) PROVE AllSent'
  <2>1. CASE Subscribe(c)
    BY <1>1, <1>2, <1>4, <2>1, SubscribeKeeps DEF CollectionSubscribe
  <2>2. CASE NewSocket(<<"return">>)
    BY <1>2, <2>2 DEF NewSocket
  <2> QED BY <1>4, <2>1, <2>2 DEF CollectionSubscribe
<1>5. ASSUME NEW m \in Msgs, Publish(m) PROVE AllSent'
  BY <1>1, <1>2, <1>5 DEF Publish, NewSocket
<1>6. CASE Queue
  <2>1. PICK m \in Msgs : Top = <<"queue", m>>
    BY <1>6 DEF Queue
  <2>2. socket = "connecting"
    BY <1>6, <2>1, Popped DEF Queue, Sending, Top
  <2> QED BY <1>2, <1>6, <2>2 DEF Queue
<1>7. CASE Return \/ Arm \/ AfterClose
  <2>1. ~Idle /\ Top \notin {<<"resubscribe">>, <<"drain">>} /\ UNCHANGED <<socket, queued>>
    BY <1>7 DEF Return, Arm, AfterClose
  <2>2. ~Opening /\ ~Draining
    BY <2>1 DEF Opening, Draining, Top
  <2> QED BY <2>1, <2>2 DEF AllSent
<1>8. CASE Resubscribe
  <2>1. stack' = <<<<"drain">>>>
    BY <1>8, TopSends DEF Resubscribe
  <2> QED BY <2>1 DEF AllSent, Draining
<1>9. CASE Drain
  BY <1>9 DEF Drain, AllSent
<1>10. CASE Opened
  <2>1. stack' = <<<<"resubscribe">>>>
    BY <1>10 DEF Opened, SetState, Idle
  <2> QED BY <2>1 DEF AllSent, Opening
<1>11. CASE Closing \/ Closed \/ CloseEvent
  BY <1>2, <1>11 DEF Closing, Closed, CloseEvent
<1>12. CASE TimerFires
  <2>1. UNCHANGED queued /\ ~Opening /\ ~Draining
    BY <1>12 DEF TimerFires, Idle, Opening, Draining
  <2>2. CASE UNCHANGED socket
    BY <2>1, <2>2 DEF AllSent
  <2>3. CASE NewSocket(<<"return">>)
    BY <1>2, <2>3 DEF NewSocket
  <2> QED BY <1>12, <2>2, <2>3 DEF TimerFires
<1>13. CASE UNCHANGED vars
  BY <1>1, <1>13 DEF vars
<1> QED
  BY <1>3, <1>4, <1>5, <1>6, <1>7, <1>8, <1>9, <1>10, <1>11, <1>12, <1>13 DEF Next, Application, Continue

LEMMA ConnInvHolds == Spec => []ConnInv
<1>1. Init => ConnInv
  BY ClientAssumption DEF Init, ConnInv, TypeOK, RegistryTypes, Sending, AllSent
<1>2. ConnInv /\ [Next]_vars => ConnInv'
  BY TypeStep, SendingStep, AllSentStep DEF ConnInv
<1> QED BY <1>1, <1>2, PTL DEF Spec

(***************************************************************************)
(* Sequences of messages.                                                  *)
(***************************************************************************)
LEMMA AppendedSet ==
    ASSUME NEW s \in Seq(Msgs), NEW x \in Msgs
    PROVE  /\ ToSet(Append(s, x)) = ToSet(s) \cup {x}
           /\ \A m, n : Before(s, m, n) => Before(Append(s, x), m, n)
           /\ \A m \in ToSet(s) : Before(Append(s, x), m, x)
           /\ IsInjective(s) /\ x \notin ToSet(s) => IsInjective(Append(s, x))
<1> DEFINE t == Append(s, x)
<1>1. /\ \A i \in DOMAIN s : i \in DOMAIN t /\ t[i] = s[i]
      /\ Len(s) + 1 \in DOMAIN t /\ t[Len(s) + 1] = x
      /\ \A i \in DOMAIN t : i \in DOMAIN s \/ i = Len(s) + 1
      /\ \A i \in DOMAIN s : i < Len(s) + 1
  BY Appended
<1> HIDE DEF t
<1>2. ToSet(t) = ToSet(s) \cup {x}
  BY <1>1 DEF ToSet
<1>3. \A m, n : Before(s, m, n) => Before(t, m, n)
  BY <1>1 DEF Before
<1>4. \A m \in ToSet(s) : Before(t, m, x)
  BY <1>1 DEF Before, ToSet
<1>5. IsInjective(s) /\ x \notin ToSet(s) => IsInjective(t)
  BY <1>1 DEF IsInjective, ToSet
<1> QED BY <1>2, <1>3, <1>4, <1>5 DEF t

LEMMA JoinedSet ==
    ASSUME NEW s \in Seq(Msgs), NEW t \in Seq(Msgs)
    PROVE  /\ ToSet(s \o t) = ToSet(s) \cup ToSet(t)
           /\ \A m, n : Before(s, m, n) \/ Before(t, m, n) => Before(s \o t, m, n)
           /\ \A m \in ToSet(s), n \in ToSet(t) : Before(s \o t, m, n)
           /\ IsInjective(s) /\ IsInjective(t) /\ ToSet(s) \cap ToSet(t) = {} => IsInjective(s \o t)
<1> DEFINE u == s \o t
<1>1. /\ Len(s) \in Nat /\ Len(t) \in Nat
      /\ DOMAIN s = 1..Len(s) /\ DOMAIN t = 1..Len(t) /\ DOMAIN u = 1..(Len(s) + Len(t))
      /\ \A i \in 1..(Len(s) + Len(t)) : u[i] = IF i <= Len(s) THEN s[i] ELSE t[i - Len(s)]
  BY ConcatProperties
<1> HIDE DEF u
<1>2. \A i \in DOMAIN s : i \in DOMAIN u /\ u[i] = s[i]
  BY <1>1
<1>3. \A i \in DOMAIN t : Len(s) + i \in DOMAIN u /\ u[Len(s) + i] = t[i]
  BY <1>1
<1>4. \A i \in DOMAIN u : i \in DOMAIN s \/ \E j \in DOMAIN t : i = Len(s) + j
  <2> TAKE i \in DOMAIN u
  <2>1. CASE i <= Len(s)
    BY <1>1, <2>1
  <2>2. CASE i > Len(s)
    <3>1. i - Len(s) \in DOMAIN t /\ i = Len(s) + (i - Len(s))
      BY <1>1, <2>2
    <3> QED BY <3>1
  <2> QED BY <1>1, <2>1, <2>2
<1>5. ToSet(u) = ToSet(s) \cup ToSet(t)
  BY <1>2, <1>3, <1>4 DEF ToSet
<1>6. ASSUME NEW m, NEW n, Before(s, m, n) \/ Before(t, m, n) PROVE Before(u, m, n)
  <2>1. CASE Before(s, m, n)
    BY <1>2, <2>1 DEF Before
  <2>2. CASE Before(t, m, n)
    <3>1. PICK i \in DOMAIN t, j \in DOMAIN t : i < j /\ t[i] = m /\ t[j] = n
      BY <2>2 DEF Before
    <3>2. Len(s) + i < Len(s) + j
      BY <1>1, <3>1
    <3> QED BY <1>3, <3>1, <3>2 DEF Before
  <2> QED BY <1>6, <2>1, <2>2
<1>7. ASSUME NEW m \in ToSet(s), NEW n \in ToSet(t) PROVE Before(u, m, n)
  <2>1. PICK i \in DOMAIN s : s[i] = m
    BY DEF ToSet
  <2>2. PICK j \in DOMAIN t : t[j] = n
    BY DEF ToSet
  <2>3. i < Len(s) + j
    BY <1>1
  <2> QED BY <1>2, <1>3, <2>1, <2>2, <2>3 DEF Before
<1>8. ASSUME IsInjective(s), IsInjective(t), ToSet(s) \cap ToSet(t) = {},
             NEW i \in DOMAIN u, NEW j \in DOMAIN u, u[i] = u[j]
      PROVE  i = j
  <2>1. CASE i \in DOMAIN s /\ j \in DOMAIN s
    BY <1>2, <1>8, <2>1 DEF IsInjective
  <2>2. ASSUME NEW a \in DOMAIN t, NEW b \in DOMAIN t, i = Len(s) + a, j = Len(s) + b PROVE i = j
    BY <1>3, <1>8, <2>2 DEF IsInjective
  <2>3. ASSUME NEW a \in DOMAIN s, NEW b \in DOMAIN t, u[a] = u[Len(s) + b] PROVE FALSE
    BY <1>2, <1>3, <1>8, <2>3 DEF ToSet
  <2> QED BY <1>4, <1>8, <2>1, <2>2, <2>3
<1>9. IsInjective(s) /\ IsInjective(t) /\ ToSet(s) \cap ToSet(t) = {} => IsInjective(u)
  BY <1>8 DEF IsInjective
<1> QED BY <1>5, <1>6, <1>7, <1>9 DEF u

LEMMA SetInMsgs == ASSUME NEW s \in Seq(Msgs) PROVE ToSet(s) \subseteq Msgs
  BY DEF ToSet

LEMMA FieldTypes == TypeOK => queued \in Seq(Msgs) /\ sent \in Seq(Msgs) /\ called \in Seq(Msgs)
  BY DEF TypeOK

(***************************************************************************)
(* The publishes that wait for their state callback to return.             *)
(***************************************************************************)
SameFrames ==
    /\ \A i \in DOMAIN stack' : IsQueue(stack'[i]) => i \in DOMAIN stack /\ stack'[i] = stack[i]
    /\ \A i \in DOMAIN stack : IsQueue(stack[i]) => i \in DOMAIN stack' /\ stack'[i] = stack[i]

LEMMA SameFramesKeep ==
    ASSUME OneFrame, SameFrames
    PROVE  OneFrame' /\ \A m \in Msgs : InFrame(m)' <=> InFrame(m)
<1>1. OneFrame'
  BY DEF OneFrame, SameFrames
<1>2. ASSUME NEW m \in Msgs PROVE InFrame(m)' <=> InFrame(m)
  <2>1. IsQueue(<<"queue", m>>)
    BY DEF IsQueue
  <2> QED BY <2>1 DEF InFrame, SameFrames
<1> QED BY <1>1, <1>2

LEMMA NoQueueFrame ==
    ASSUME NEW f \in {<<"return">>, <<"resubscribe">>, <<"drain">>, <<"closed">>, <<"arm">>}
    PROVE  ~IsQueue(f)
  BY QueueFrame DEF IsQueue

LEMMA PushOther ==
    ASSUME TypeOK, NEW f \in {<<"return">>, <<"resubscribe">>, <<"drain">>, <<"closed">>, <<"arm">>},
           stack' = Append(stack, f) \/ stack' = stack
    PROVE  SameFrames
<1>1. stack \in Seq(Frames) /\ f \in Frames /\ ~IsQueue(f)
  BY NoQueueFrame, FramesHere DEF TypeOK
<1>2. CASE stack' = Append(stack, f)
  <2>1. /\ \A i \in DOMAIN stack : i \in DOMAIN stack' /\ stack'[i] = stack[i]
        /\ stack'[Len(stack) + 1] = f
        /\ \A i \in DOMAIN stack' : i \in DOMAIN stack \/ i = Len(stack) + 1
    BY <1>1, <1>2, Appended
  <2> QED BY <1>1, <2>1 DEF SameFrames
<1>3. CASE stack' = stack
  BY <1>3 DEF SameFrames
<1> QED BY <1>2, <1>3

LEMMA PopOther ==
    ASSUME TypeOK, ~Idle, Top \in {<<"return">>, <<"resubscribe">>, <<"drain">>, <<"closed">>, <<"arm">>},
           NEW f \in {<<"drain">>, <<"arm">>}, stack' \in {Below, Append(Below, f)}
    PROVE  SameFrames
<1>1. ~IsQueue(Top) /\ ~IsQueue(f) /\ Top = stack[Len(stack)] /\ f \in Frames
  BY NoQueueFrame, FramesHere DEF Top
<1>2. /\ Below \in Seq(Frames)
      /\ \A i \in DOMAIN Below : i \in DOMAIN stack /\ Below[i] = stack[i]
      /\ \A i \in DOMAIN stack : i = Len(stack) \/ i \in DOMAIN Below
  BY Popped
<1>3. CASE stack' = Below
  BY <1>1, <1>2, <1>3 DEF SameFrames
<1>4. CASE stack' = Append(Below, f)
  <2>1. /\ \A i \in DOMAIN Below : i \in DOMAIN stack' /\ stack'[i] = Below[i]
        /\ stack'[Len(Below) + 1] = f
        /\ \A i \in DOMAIN stack' : i \in DOMAIN Below \/ i = Len(Below) + 1
    BY <1>1, <1>2, <1>4, Appended
  <2> QED BY <1>1, <1>2, <2>1 DEF SameFrames
<1> QED BY <1>3, <1>4

\* Every step but a publish and its end.
Other == Next /\ ~Queue /\ \A m \in Msgs : ~Publish(m)

LEMMA OtherFrames == TypeOK /\ Other => SameFrames
<1> SUFFICES ASSUME TypeOK, Other PROVE SameFrames
  OBVIOUS
<1>1. ASSUME NEW c \in Channels, Subscribe(c) PROVE SameFrames
  BY <1>1, Subscribed, PushOther
<1>2. ASSUME NewSocket(<<"return">>) PROVE SameFrames
  BY <1>2, Connecting, FramesHere, PushOther
<1>3. ASSUME stack' = stack PROVE SameFrames
  BY <1>3 DEF SameFrames
<1>4. ASSUME NEW l \in Listeners, On(l) \/ Off(l) PROVE SameFrames
  <2>1. CASE On(l)
    BY <1>1, <2>1, OnTypes DEF On
  <2> QED BY <1>3, <1>4, <2>1 DEF Off
<1>5. ASSUME NEW c \in Channels, CollectionSubscribe(c) PROVE SameFrames
  BY <1>1, <1>2, <1>5 DEF CollectionSubscribe
<1>6. CASE Return \/ Drain \/ Arm \/ Resubscribe
  BY <1>6, PopOther DEF Return, Drain, Arm, Resubscribe
<1>7. CASE AfterClose
  BY <1>7, Popped, PopOther DEF AfterClose, ScheduleReconnect
<1>8. CASE Opened
  BY <1>8, PushOther DEF Opened, SetState
<1>9. CASE Closing \/ Closed
  BY <1>3, <1>9 DEF Closing, Closed
<1>10. CASE CloseEvent
  BY <1>10, PushOther DEF CloseEvent, ScheduleReconnect, SetState
<1>11. CASE TimerFires
  <2>1. CASE SetState("disconnected", <<"return">>)
    BY <2>1, PushOther DEF SetState
  <2> QED BY <1>2, <1>3, <1>11, <2>1 DEF TimerFires
<1> QED
  BY <1>4, <1>5, <1>6, <1>7, <1>8, <1>9, <1>10, <1>11 DEF Other, Next, Application, Continue

(***************************************************************************)
(* Each publish is in one place, and the places keep the order.            *)
(***************************************************************************)
Publishes == OneFrame /\ OnePlace /\ NoneLost /\ InOrder

LEMMA OtherKeeps ==
    ASSUME OrderInv, SameFrames, UNCHANGED <<sent, queued, called>>
    PROVE  Publishes'
<1>1. OneFrame' /\ \A m \in Msgs : InFrame(m)' <=> InFrame(m)
  BY SameFramesKeep DEF OrderInv
<1>2. OnePlace'
  BY <1>1 DEF OrderInv, OnePlace
<1>3. NoneLost'
  <2>1. ToSet(called) \subseteq Msgs
    BY SetInMsgs, FieldTypes DEF OrderInv, ConnInv
  <2>2. ASSUME NEW m \in ToSet(called), m \notin ToSet(sent) \cup ToSet(queued) PROVE InFrame(m)'
    BY <1>1, <2>1, <2>2 DEF OrderInv, NoneLost
  <2> QED BY <2>2 DEF NoneLost
<1>4. InOrder'
  BY DEF OrderInv, InOrder
<1> QED BY <1>1, <1>2, <1>3, <1>4 DEF Publishes

LEMMA DrainKeeps == OrderInv /\ Drain => Publishes'
<1> SUFFICES ASSUME OrderInv, Drain PROVE Publishes'
  OBVIOUS
<1>1. /\ sent' = sent \o queued /\ queued' = <<>> /\ called' = called
      /\ sent \in Seq(Msgs) /\ queued \in Seq(Msgs) /\ called \in Seq(Msgs)
  BY FieldTypes DEF Drain, OrderInv, ConnInv
<1>2. OneFrame' /\ \A m \in Msgs : InFrame(m)' <=> InFrame(m)
  <2>1. SameFrames
    BY PopOther DEF Drain, OrderInv, ConnInv
  <2> QED BY <2>1, SameFramesKeep DEF OrderInv
<1>3. ToSet(sent') = ToSet(sent) \cup ToSet(queued) /\ ToSet(queued') = {}
  <2>1. ToSet(<<>>) = {}
    BY DEF ToSet
  <2> QED BY <1>1, <2>1, JoinedSet
<1>4. OnePlace'
  <2>1. IsInjective(sent')
    BY <1>1, JoinedSet DEF OrderInv, OnePlace
  <2>2. IsInjective(queued')
    BY <1>1 DEF IsInjective
  <2>3. IsInjective(called')
    BY <1>1 DEF OrderInv, OnePlace
  <2> QED BY <1>2, <1>3, <2>1, <2>2, <2>3 DEF OrderInv, OnePlace
<1>5. NoneLost'
  <2>1. ToSet(called) \subseteq Msgs
    BY <1>1, SetInMsgs
  <2>2. ASSUME NEW m \in ToSet(called), m \notin ToSet(sent') PROVE InFrame(m)'
    BY <1>2, <1>3, <2>1, <2>2 DEF OrderInv, NoneLost
  <2> QED BY <1>1, <2>2 DEF NoneLost
<1>6. InOrder'
  <2> SUFFICES ASSUME NEW i \in DOMAIN called, NEW j \in DOMAIN called, i < j, called[j] \in ToSet(sent')
               PROVE  Before(sent', called[i], called[j])
    BY <1>1, <1>3 DEF InOrder
  <2>1. CASE called[j] \in ToSet(sent)
    <3>1. Before(sent, called[i], called[j])
      BY <2>1 DEF OrderInv, InOrder
    <3> QED BY <1>1, <3>1, JoinedSet
  <2>2. CASE called[j] \in ToSet(queued)
    <3>1. called[i] \in ToSet(sent) \/ Before(queued, called[i], called[j])
      BY <2>2 DEF OrderInv, InOrder
    <3> QED BY <1>1, <2>2, <3>1, JoinedSet
  <2> QED BY <1>3, <2>1, <2>2
<1> QED BY <1>2, <1>4, <1>5, <1>6 DEF Publishes

\* The publish goes to the queue when its state callback returns: what was called for
\* before it is on its way or in front of it.
LEMMA QueueKeeps == OrderInv /\ Queue => Publishes'
<1> SUFFICES ASSUME OrderInv, Queue PROVE Publishes'
  OBVIOUS
<1>1. PICK m \in Msgs : ~Idle /\ Top = <<"queue", m>> /\ queued' = Append(queued, m) /\ stack' = Below
  BY DEF Queue
<1>2. /\ sent' = sent /\ called' = called /\ TypeOK
      /\ sent \in Seq(Msgs) /\ queued \in Seq(Msgs) /\ called \in Seq(Msgs)
  BY FieldTypes DEF Queue, OrderInv, ConnInv, wire
<1>3. /\ Len(stack) \in DOMAIN stack
      /\ \A i \in DOMAIN Below : i \in DOMAIN stack /\ Below[i] = stack[i]
      /\ \A i \in DOMAIN stack : i = Len(stack) \/ i \in DOMAIN Below
      /\ Len(stack) \notin DOMAIN Below
  <2>1. Len(stack) \in Nat /\ Below \in Seq(Frames) /\ Len(Below) = Len(stack) - 1
    BY <1>1, <1>2, Popped DEF TypeOK
  <2> QED BY <1>1, <1>2, <2>1, Popped
<1>4. stack[Len(stack)] = <<"queue", m>> /\ IsQueue(<<"queue", m>>)
  BY <1>1 DEF Top, IsQueue
<1>5. \A i \in DOMAIN Below : ~IsQueue(Below[i])
  BY <1>3, <1>4 DEF OrderInv, OneFrame
<1>6. InFrame(m) /\ \A n \in Msgs : InFrame(n) => n = m
  <2>1. InFrame(m)
    BY <1>3, <1>4 DEF InFrame
  <2>2. ASSUME NEW n \in Msgs, InFrame(n) PROVE n = m
    <3>1. PICK i \in DOMAIN stack : stack[i] = <<"queue", n>>
      BY <2>2 DEF InFrame
    <3>2. i = Len(stack)
      BY <1>3, <1>4, <3>1 DEF OrderInv, OneFrame, IsQueue
    <3> QED BY <1>4, <3>1, <3>2
  <2> QED BY <2>1, <2>2
<1>7. OneFrame' /\ \A n \in Msgs : ~InFrame(n)'
  BY <1>1, <1>5 DEF OneFrame, InFrame, IsQueue
<1>8. m \notin ToSet(sent) \cup ToSet(queued)
  BY <1>6 DEF OrderInv, OnePlace
<1>9. ToSet(queued') = ToSet(queued) \cup {m} /\ IsInjective(queued')
  BY <1>1, <1>2, <1>8, AppendedSet DEF OrderInv, OnePlace
<1>10. OnePlace'
  BY <1>2, <1>7, <1>8, <1>9 DEF OrderInv, OnePlace
<1>11. NoneLost'
  <2>1. ToSet(called) \subseteq Msgs
    BY <1>2, SetInMsgs
  <2> QED BY <1>2, <1>6, <1>9, <2>1 DEF OrderInv, NoneLost
<1>12. InOrder'
  <2> SUFFICES ASSUME NEW i \in DOMAIN called, NEW j \in DOMAIN called, i < j
               PROVE  /\ called[j] \in ToSet(sent) => Before(sent, called[i], called[j])
                      /\ called[j] \in ToSet(queued') =>
                            called[i] \in ToSet(sent) \/ Before(queued', called[i], called[j])
    BY <1>2 DEF InOrder
  <2>1. called[j] \in ToSet(sent) => Before(sent, called[i], called[j])
    BY DEF OrderInv, InOrder
  <2>2. CASE called[j] \in ToSet(queued)
    BY <1>1, <1>2, <2>2, AppendedSet DEF OrderInv, InOrder
  <2>3. CASE called[j] = m
    <3>1. called[i] # m
      BY <1>2, <2>3 DEF OrderInv, OnePlace, IsInjective
    <3>2. called[i] \in ToSet(called) /\ called[i] \in Msgs
      BY <1>2 DEF ToSet
    <3>3. called[i] \in ToSet(sent) \cup ToSet(queued)
      BY <1>6, <3>1, <3>2 DEF OrderInv, NoneLost
    <3> QED BY <1>1, <1>2, <1>8, <2>3, <3>3, AppendedSet
  <2> QED BY <1>9, <2>1, <2>2, <2>3
<1> QED BY <1>7, <1>10, <1>11, <1>12 DEF Publishes

\* What publish() does with the call: it is counted when nothing waits, and then nothing is
\* on its way but what was sent or is queued.
LEMMA PublishCalls ==
    ASSUME OrderInv, NEW m \in Msgs, Publish(m)
    PROVE  /\ m \notin ToSet(sent) \cup ToSet(queued) \cup ToSet(called) /\ ~InFrame(m)
           /\ \/ called' = called /\ ~Idle
              \/ /\ called' = Append(called, m) /\ Idle
                 /\ ToSet(called) \subseteq ToSet(sent) \cup ToSet(queued)
                 /\ socket = "open" => ToSet(called) \subseteq ToSet(sent)
<1>1. m \notin ToSet(sent) \cup ToSet(queued) \cup ToSet(called)
  BY DEF Publish
<1>2. ~InFrame(m)
  BY DEF Publish, InFrame, ToSet
<1>3. ASSUME Idle
      PROVE  /\ ToSet(called) \subseteq ToSet(sent) \cup ToSet(queued)
             /\ socket = "open" => ToSet(called) \subseteq ToSet(sent)
  <2>1. ToSet(called) \subseteq ToSet(sent) \cup ToSet(queued)
    BY <1>3 DEF OrderInv, NoneLost, InFrame, Idle
  <2>2. socket = "open" => queued = <<>>
    BY <1>3 DEF OrderInv, ConnInv, AllSent, Opening, Draining, Idle
  <2>3. ToSet(<<>>) = {}
    BY DEF ToSet
  <2> QED BY <2>1, <2>2, <2>3
<1> QED BY <1>1, <1>2, <1>3 DEF Publish

LEMMA Placed ==
    ASSUME NEW s \in Seq(Msgs), NEW x \in Msgs, x \notin ToSet(s), IsInjective(s),
           NEW t, t = s \/ t = Append(s, x)
    PROVE  /\ ToSet(t) = IF t = s THEN ToSet(s) ELSE ToSet(s) \cup {x}
           /\ \A a, b : Before(s, a, b) => Before(t, a, b)
           /\ t # s => \A a \in ToSet(s) : Before(t, a, x)
           /\ IsInjective(t)
<1>1. CASE t = s
  BY <1>1
<1>2. CASE t = Append(s, x)
  <2>1. t # s
    BY <1>2, Appended
  <2> QED BY <1>2, <2>1, AppendedSet
<1> QED BY <1>1, <1>2

\* The order of the calls is kept when the last of them is sent or queued behind the others.
LEMMA CallsInOrder ==
    ASSUME OrderInv, NEW m \in Msgs, Publish(m),
           sent' \in {sent, Append(sent, m)}, queued' \in {queued, Append(queued, m)},
           sent' # sent => UNCHANGED queued /\ socket = "open"
    PROVE  InOrder' /\ IsInjective(called')
<1>1. /\ sent \in Seq(Msgs) /\ queued \in Seq(Msgs) /\ called \in Seq(Msgs)
      /\ m \notin ToSet(sent) \cup ToSet(queued) \cup ToSet(called)
      /\ IsInjective(sent) /\ IsInjective(queued)
  BY FieldTypes, PublishCalls DEF OrderInv, ConnInv, OnePlace
<1>2. /\ ToSet(sent') \subseteq ToSet(sent) \cup {m} /\ ToSet(sent) \subseteq ToSet(sent')
      /\ ToSet(queued') \subseteq ToSet(queued) \cup {m} /\ ToSet(queued) \subseteq ToSet(queued')
      /\ \A a, b : Before(sent, a, b) => Before(sent', a, b)
      /\ \A a, b : Before(queued, a, b) => Before(queued', a, b)
      /\ sent' # sent => \A a \in ToSet(sent) : Before(sent', a, m)
      /\ queued' # queued => \A a \in ToSet(queued) : Before(queued', a, m)
  <2>0. /\ m \notin ToSet(sent) /\ m \notin ToSet(queued)
        /\ sent' = sent \/ sent' = Append(sent, m)
        /\ queued' = queued \/ queued' = Append(queued, m)
    BY <1>1
  <2>1. /\ ToSet(sent') = IF sent' = sent THEN ToSet(sent) ELSE ToSet(sent) \cup {m}
        /\ \A a, b : Before(sent, a, b) => Before(sent', a, b)
        /\ sent' # sent => \A a \in ToSet(sent) : Before(sent', a, m)
    BY <1>1, <2>0, Placed
  <2>2. /\ ToSet(queued') = IF queued' = queued THEN ToSet(queued) ELSE ToSet(queued) \cup {m}
        /\ \A a, b : Before(queued, a, b) => Before(queued', a, b)
        /\ queued' # queued => \A a \in ToSet(queued) : Before(queued', a, m)
    BY <1>1, <2>0, Placed
  <2> QED BY <2>1, <2>2
<1>3. ASSUME NEW i \in DOMAIN called, NEW j \in DOMAIN called, i < j
      PROVE  /\ called[j] \in ToSet(sent') => Before(sent', called[i], called[j])
             /\ called[j] \in ToSet(queued') =>
                   called[i] \in ToSet(sent') \/ Before(queued', called[i], called[j])
  <2>1. called[j] # m
    BY <1>1 DEF ToSet
  <2>2. /\ called[j] \in ToSet(sent) => Before(sent, called[i], called[j])
        /\ called[j] \in ToSet(queued) =>
              called[i] \in ToSet(sent) \/ Before(queued, called[i], called[j])
    BY <1>3 DEF OrderInv, InOrder
  <2> QED BY <1>2, <2>1, <2>2
<1>4. CASE called' = called
  BY <1>3, <1>4 DEF InOrder, OrderInv, OnePlace
<1>5. CASE /\ called' = Append(called, m)
           /\ ToSet(called) \subseteq ToSet(sent) \cup ToSet(queued)
           /\ socket = "open" => ToSet(called) \subseteq ToSet(sent)
  <2>1. /\ \A i \in DOMAIN called : i \in DOMAIN called' /\ called'[i] = called[i]
        /\ called'[Len(called) + 1] = m
        /\ \A i \in DOMAIN called' : i \in DOMAIN called \/ i = Len(called) + 1
        /\ \A i \in DOMAIN called : i < Len(called) + 1
    BY <1>1, <1>5, Appended
  <2>2. ASSUME NEW a \in ToSet(called)
        PROVE  /\ m \in ToSet(sent') => Before(sent', a, m)
               /\ m \in ToSet(queued') => a \in ToSet(sent') \/ Before(queued', a, m)
    <3>1. CASE sent' # sent
      BY <1>1, <1>2, <1>5, <3>1
    <3>2. CASE sent' = sent
      BY <1>1, <1>2, <1>5, <3>2
    <3> QED BY <3>1, <3>2
  <2>3. ASSUME NEW i \in DOMAIN called', NEW j \in DOMAIN called', i < j
        PROVE  /\ called'[j] \in ToSet(sent') => Before(sent', called'[i], called'[j])
               /\ called'[j] \in ToSet(queued') =>
                     called'[i] \in ToSet(sent') \/ Before(queued', called'[i], called'[j])
    <3>1. CASE j \in DOMAIN called
      <4>1. i \in DOMAIN called
        BY <1>1, <2>1, <2>3, <3>1
      <4> QED BY <1>3, <2>1, <2>3, <3>1, <4>1
    <3>2. CASE j = Len(called) + 1
      <4>1. i \in DOMAIN called
        BY <1>1, <2>1, <2>3, <3>2
      <4>2. called'[j] = m /\ called'[i] \in ToSet(called)
        BY <2>1, <3>2, <4>1 DEF ToSet
      <4> QED BY <2>2, <4>2
    <3> QED BY <2>1, <3>1, <3>2
  <2>4. IsInjective(called')
    BY <1>1, <1>5, AppendedSet DEF OrderInv, OnePlace
  <2> QED BY <2>3, <2>4 DEF InOrder
<1> QED BY <1>4, <1>5, PublishCalls

LEMMA PublishKeeps ==
    ASSUME OrderInv, NEW m \in Msgs, Publish(m)
    PROVE  Publishes'
<1>1. /\ sent \in Seq(Msgs) /\ queued \in Seq(Msgs) /\ called \in Seq(Msgs) /\ TypeOK
      /\ m \notin ToSet(sent) \cup ToSet(queued) \cup ToSet(called) /\ ~InFrame(m)
  BY FieldTypes, PublishCalls DEF OrderInv, ConnInv
<1>2. called' \in {called, Append(called, m)} /\ ToSet(called') \subseteq ToSet(called) \cup {m}
  BY <1>1, AppendedSet, PublishCalls
<1>3. ToSet(called) \subseteq Msgs
  BY <1>1, SetInMsgs
<1>4. ASSUME \/ sent' = Append(sent, m) /\ queued' = queued /\ socket = "open"
             \/ queued' = Append(queued, m) /\ sent' = sent,
             stack' = stack
      PROVE  Publishes'
  <2>1. SameFrames
    BY <1>4 DEF SameFrames
  <2>2. OneFrame' /\ \A n \in Msgs : InFrame(n)' <=> InFrame(n)
    BY <2>1, SameFramesKeep DEF OrderInv
  <2>3. InOrder' /\ IsInjective(called')
    BY <1>4, CallsInOrder
  <2>4. ToSet(sent') \cup ToSet(queued') = ToSet(sent) \cup ToSet(queued) \cup {m}
        /\ ToSet(sent') \cap ToSet(queued') = {} /\ IsInjective(sent') /\ IsInjective(queued')
    <3>1. IsInjective(sent) /\ IsInjective(queued) /\ ToSet(sent) \cap ToSet(queued) = {}
      BY DEF OrderInv, OnePlace
    <3>2. CASE sent' = Append(sent, m) /\ queued' = queued
      BY <1>1, <3>1, <3>2, AppendedSet
    <3>3. CASE queued' = Append(queued, m) /\ sent' = sent
      BY <1>1, <3>1, <3>3, AppendedSet
    <3> QED BY <1>4, <3>2, <3>3
  <2>5. OnePlace'
    BY <1>1, <2>2, <2>3, <2>4 DEF OrderInv, OnePlace
  <2>6. NoneLost'
    BY <1>2, <1>3, <2>2, <2>4 DEF OrderInv, NoneLost
  <2> QED BY <2>2, <2>3, <2>5, <2>6 DEF Publishes
<1>5. ASSUME NeedsSocket, stack' = Append(stack, <<"queue", m>>), sent' = sent, queued' = queued
      PROVE  Publishes'
  <2>1. \A i \in DOMAIN stack : ~IsQueue(stack[i])
    BY <1>5 DEF OrderInv, ConnInv, Sending, NeedsSocket, IsQueue
  <2>2. /\ \A i \in DOMAIN stack : i \in DOMAIN stack' /\ stack'[i] = stack[i]
        /\ Len(stack) + 1 \in DOMAIN stack' /\ stack'[Len(stack) + 1] = <<"queue", m>>
        /\ \A i \in DOMAIN stack' : i \in DOMAIN stack \/ i = Len(stack) + 1
    BY <1>1, <1>5, Appended, FramesHere DEF TypeOK
  <2>3. OneFrame'
    BY <2>1, <2>2 DEF OneFrame
  <2>4. InFrame(m)'
    BY <2>2 DEF InFrame
  <2>5. ASSUME NEW n \in Msgs, InFrame(n)' PROVE n = m
    <3>1. PICK i \in DOMAIN stack' : stack'[i] = <<"queue", n>>
      BY <2>5 DEF InFrame
    <3>2. i = Len(stack) + 1
      BY <2>1, <2>2, <3>1 DEF IsQueue
    <3> QED BY <2>2, <3>1, <3>2
  <2>6. ASSUME NEW n \in Msgs, InFrame(n) PROVE FALSE
    BY <2>1, <2>6 DEF InFrame, IsQueue
  <2>7. InOrder' /\ IsInjective(called')
    BY <1>5, CallsInOrder
  <2>8. OnePlace'
    BY <1>1, <1>5, <2>5, <2>7 DEF OrderInv, OnePlace
  <2>9. NoneLost'
    BY <1>2, <1>3, <1>5, <2>4, <2>6 DEF OrderInv, NoneLost
  <2> QED BY <2>3, <2>7, <2>8, <2>9 DEF Publishes
<1>6. CASE NeedsSocket /\ NewSocket(<<"queue", m>>)
           /\ queued' = (IF stack' = stack THEN Append(queued, m) ELSE queued) /\ sent' = sent
  <2>1. stack' = stack \/ stack' = Append(stack, <<"queue", m>>)
    BY <1>1, <1>6, Connecting, FramesHere
  <2> QED BY <1>4, <1>5, <1>6, <2>1
<1>7. CASE socket = "open" /\ sent' = Append(sent, m) /\ queued' = queued /\ stack' = stack
  BY <1>4, <1>7
<1>8. CASE queued' = Append(queued, m) /\ sent' = sent /\ stack' = stack
  BY <1>4, <1>8
<1> QED BY <1>6, <1>7, <1>8 DEF Publish, wire

LEMMA OrderInvHolds == Spec => []OrderInv
<1>1. Init => OrderInv
  <2> SUFFICES ASSUME Init PROVE OrderInv
    OBVIOUS
  <2>1. ConnInv
    BY ClientAssumption DEF Init, ConnInv, TypeOK, RegistryTypes, Sending, AllSent
  <2>2. ToSet(<<>>) = {} /\ IsInjective(<<>>)
    BY DEF ToSet, IsInjective
  <2>3. OneFrame /\ InOrder /\ \A m \in Msgs : ~InFrame(m)
    BY DEF Init, OneFrame, InOrder, InFrame
  <2> QED BY <2>1, <2>2, <2>3 DEF Init, OrderInv, OnePlace, NoneLost
<1>2. OrderInv /\ [Next]_vars => OrderInv'
  <2> SUFFICES ASSUME OrderInv, [Next]_vars PROVE OrderInv'
    OBVIOUS
  <2>1. ConnInv'
    BY TypeStep, SendingStep, AllSentStep DEF OrderInv, ConnInv
  <2>2. ASSUME Other, ~Drain PROVE Publishes'
    <3>1. SameFrames
      BY <2>2, OtherFrames DEF OrderInv, ConnInv
    <3>2. UNCHANGED <<sent, queued, called>>
      BY <2>2 DEF Other, Next, Application, Continue, On, Off, CollectionSubscribe, Return, Resubscribe,
                  AfterClose, Arm, Opened, Closing, Closed, CloseEvent, TimerFires, wire
    <3> QED BY <3>1, <3>2, OtherKeeps
  <2>3. ASSUME UNCHANGED vars PROVE Publishes'
    <3>1. SameFrames
      BY <2>3 DEF vars, SameFrames
    <3>2. UNCHANGED <<sent, queued, called>>
      BY <2>3 DEF vars, wire
    <3> QED BY <3>1, <3>2, OtherKeeps
  <2>4. ASSUME NEW m \in Msgs, Publish(m) PROVE Publishes'
    BY <2>4, PublishKeeps
  <2>5. ASSUME Drain \/ Queue PROVE Publishes'
    BY <2>5, DrainKeeps, QueueKeeps
  <2>6. Publishes'
    BY <2>2, <2>3, <2>4, <2>5 DEF Other
  <2> QED BY <2>1, <2>6 DEF OrderInv, Publishes
<1> QED BY <1>1, <1>2, PTL DEF Spec

\* What was published goes out once and in the order of the calls, and nothing stays behind
\* on an open connection: whatever is published from within state callbacks, and however
\* often the connection breaks.
THEOREM PublishesKeepOrder == Spec => []PublishedInOrder
<1>1. OrderInv => PublishedInOrder
  <2>1. ASSUME OrderInv, Connected PROVE queued = <<>>
    BY <2>1 DEF OrderInv, ConnInv, AllSent, Opening, Draining, Connected, Idle
  <2> QED BY <2>1 DEF OrderInv, OnePlace, InOrder, PublishedInOrder
<1> QED BY <1>1, OrderInvHolds, PTL

(***************************************************************************)
(* The registry of callbacks.                                              *)
(***************************************************************************)
LEMMA OnKeeps ==
    ASSUME TypeOK, Registry, NEW l \in Listeners, On(l)
    PROVE  Registry'
<1> DEFINE c == ChannelOf[l]
           e == EventOf[l]
           m == MapFor(l)
           s == SetFor(l)
<1>1. c \in Channels /\ e \in Events /\ m \in Listeners /\ s \in Listeners /\ life[l] = "new"
  BY OnTypes DEF On
<1>2. /\ \A d \in Channels : listeners'[d] = IF d = c THEN m ELSE listeners[d]
      /\ \A n \in Listeners, f \in Events : events'[n][f] = IF n = m /\ f = e THEN s ELSE events[n][f]
      /\ \A t \in Listeners : callbacks'[t] = IF t = s THEN callbacks[t] \cup {l} ELSE callbacks[t]
      /\ \A k \in Listeners : closure'[k] = IF k = l THEN [events |-> m, callbacks |-> s] ELSE closure[k]
      /\ \A k \in Listeners : life'[k] = IF k = l THEN "on" ELSE life[k]
  <2> HIDE DEF m, s
  <2> QED BY <1>1 DEF On, TypeOK, RegistryTypes, m, s
<1>3. /\ listeners[c] # None => m = listeners[c]
      /\ listeners[c] = None => m = l
      /\ events[m][e] # None => s = events[m][e]
      /\ events[m][e] = None => s = l
  BY DEF MapFor, SetFor
<1>4. None \notin Listeners /\ \A k \in Listeners : ChannelOf[k] \in Channels /\ EventOf[k] \in Events
  BY ClientAssumption
<1>5. ChannelOf[m] = c
  BY <1>1, <1>3 DEF Registry, MapsOfChannels
<1> HIDE DEF m, s
<1>6. OnIsFound'
  <2> SUFFICES ASSUME NEW k \in Listeners, life'[k] = "on", ~Disturbed(ChannelOf[k])'
               PROVE  /\ listeners'[ChannelOf[k]] # None
                      /\ closure'[k].events = listeners'[ChannelOf[k]]
                      /\ events'[closure'[k].events][EventOf[k]] # None
                      /\ closure'[k].callbacks = events'[closure'[k].events][EventOf[k]]
                      /\ k \in callbacks'[closure'[k].callbacks]
    BY DEF OnIsFound
  <2>1. CASE k = l
    <3>1. closure'[k].events = m /\ closure'[k].callbacks = s /\ listeners'[ChannelOf[k]] = m
      BY <1>1, <1>2, <2>1
    <3>2. events'[m][EventOf[k]] = s /\ k \in callbacks'[s]
      BY <1>1, <1>2, <2>1
    <3> QED BY <1>1, <1>4, <3>1, <3>2
  <2>2. CASE k # l
    <3> DEFINE n == listeners[ChannelOf[k]]
    <3>0. ~Disturbed(ChannelOf[k])
      BY <1>1, <1>2 DEF Disturbed
    <3>1. /\ n # None /\ n \in Listeners /\ closure'[k] = closure[k]
          /\ closure[k].events = n /\ events[n][EventOf[k]] # None
          /\ closure[k].callbacks = events[n][EventOf[k]]
          /\ k \in callbacks[closure[k].callbacks]
          /\ events[n][EventOf[k]] \in Listeners
      BY <1>2, <1>4, <2>2, <3>0 DEF Registry, OnIsFound, TypeOK, RegistryTypes
    <3>2. listeners'[ChannelOf[k]] = n
      BY <1>2, <1>3, <1>4, <3>1
    <3>3. events'[n][EventOf[k]] = events[n][EventOf[k]]
      BY <1>2, <1>3, <1>4, <3>1
    <3> HIDE DEF n
    <3> QED BY <1>2, <3>1, <3>2, <3>3
  <2> QED BY <2>1, <2>2
<1>7. InOneSet'
  <2> SUFFICES ASSUME NEW t \in Listeners, NEW k \in Listeners, k \in callbacks'[t]
               PROVE  life'[k] = "on" /\ closure'[k].callbacks = t
    BY DEF InOneSet
  <2>1. CASE k \in callbacks[t]
    <3>1. life[k] = "on" /\ closure[k].callbacks = t
      BY <2>1 DEF Registry, InOneSet
    <3> QED BY <1>1, <1>2, <3>1
  <2>2. CASE t = s /\ k = l
    BY <1>2, <2>2
  <2>3. k \in callbacks[t] \/ (t = s /\ k = l)
    <3>1. callbacks'[t] = IF t = s THEN callbacks[t] \cup {l} ELSE callbacks[t]
      BY <1>2
    <3> QED BY <3>1, Zenon
  <2> QED BY <2>1, <2>2, <2>3
<1>8. MapsOfChannels'
  BY <1>1, <1>2, <1>4, <1>5 DEF Registry, MapsOfChannels
<1> QED BY <1>6, <1>7, <1>8 DEF Registry

LEMMA OffKeeps ==
    ASSUME TypeOK, Registry, NEW l \in Listeners, Off(l)
    PROVE  Registry'
<1> DEFINE c == ChannelOf[l]
           e == EventOf[l]
           m == closure[l].events
           s == closure[l].callbacks
           left == callbacks[s] \ {l}
           map == IF left = {} THEN [events[m] EXCEPT ![e] = None] ELSE events[m]
           last == \A f \in Events : map[f] = None
<1>1. /\ c \in Channels /\ e \in Events /\ m \in Listeners /\ s \in Listeners
      /\ life[l] # "new" /\ ChannelOf[m] = c
  BY OffTypes DEF Off, Registry, MapsOfChannels
<1>2. /\ callbacks' = [callbacks EXCEPT ![s] = left]
      /\ events' = [events EXCEPT ![m] = map]
      /\ listeners' = IF last THEN [listeners EXCEPT ![c] = None] ELSE listeners
      /\ life' = [life EXCEPT ![l] = IF @ = "on" THEN "off" ELSE "again"] /\ closure' = closure
  BY DEF Off
<1>3. None \notin Listeners /\ \A k \in Listeners : ChannelOf[k] \in Channels /\ EventOf[k] \in Events
  BY ClientAssumption
<1>4. \A f \in Events : map[f] = IF left = {} /\ f = e THEN None ELSE events[m][f]
  BY <1>1 DEF TypeOK, RegistryTypes
<1> HIDE DEF m, s, left, map, last
<1>5. /\ \A d \in Channels : listeners'[d] = IF d = c /\ last THEN None ELSE listeners[d]
      /\ \A n \in Listeners, f \in Events :
            events'[n][f] = IF n = m /\ f = e /\ left = {} THEN None ELSE events[n][f]
      /\ \A t \in Listeners : callbacks'[t] = IF t = s THEN left ELSE callbacks[t]
      /\ \A k \in Listeners : k # l => life'[k] = life[k]
      /\ life'[l] = IF life[l] = "on" THEN "off" ELSE "again"
  BY <1>1, <1>2, <1>4 DEF TypeOK, RegistryTypes
<1>6. last <=> \A f \in Events : events'[m][f] = None
  <2>1. \A f \in Events : events'[m][f] = map[f]
    BY <1>1, <1>4, <1>5
  <2> QED BY <2>1 DEF last
<1>7. left = callbacks[s] \ {l}
  BY DEF left
<1>8. OnIsFound'
  <2> SUFFICES ASSUME NEW k \in Listeners, life'[k] = "on", ~Disturbed(ChannelOf[k])'
               PROVE  /\ listeners'[ChannelOf[k]] # None
                      /\ closure'[k].events = listeners'[ChannelOf[k]]
                      /\ events'[closure'[k].events][EventOf[k]] # None
                      /\ closure'[k].callbacks = events'[closure'[k].events][EventOf[k]]
                      /\ k \in callbacks'[closure'[k].callbacks]
    BY DEF OnIsFound
  <2> DEFINE n == listeners[ChannelOf[k]]
             t == events[n][EventOf[k]]
  <2>1. ~Disturbed(ChannelOf[k]) /\ (ChannelOf[k] = c => life[l] = "on")
    BY <1>5 DEF Disturbed
  <2>2. /\ k # l /\ n # None /\ n \in Listeners /\ closure'[k] = closure[k]
        /\ closure[k].events = n /\ t # None /\ t \in Listeners
        /\ closure[k].callbacks = t /\ k \in callbacks[t]
    BY <1>2, <1>3, <1>5, <2>1 DEF Registry, OnIsFound, TypeOK, RegistryTypes
  <2>3. ChannelOf[n] = ChannelOf[k]
    BY <1>3, <2>2 DEF Registry, MapsOfChannels
  <2>4. ChannelOf[k] = c => m = n /\ s = events[m][e]
    BY <2>1 DEF Registry, OnIsFound, m, s
  <2> HIDE DEF t
  <2>5. k \in callbacks'[t]
    BY <1>5, <1>7, <2>2
  <2>6. events'[n][EventOf[k]] = t
    <3>1. CASE ChannelOf[k] = c
      BY <1>1, <1>3, <1>5, <1>7, <2>2, <2>4, <3>1 DEF t
    <3>2. CASE ChannelOf[k] # c
      BY <1>1, <1>3, <1>5, <2>2, <2>3, <3>2 DEF t
    <3> QED BY <3>1, <3>2
  <2>7. listeners'[ChannelOf[k]] = n
    BY <1>1, <1>3, <1>5, <1>6, <2>2, <2>4, <2>6
  <2> QED BY <2>2, <2>5, <2>6, <2>7
<1>9. InOneSet'
  <2> SUFFICES ASSUME NEW t \in Listeners, NEW k \in Listeners, k \in callbacks'[t]
               PROVE  life'[k] = "on" /\ closure'[k].callbacks = t
    BY DEF InOneSet
  <2>1. k \in callbacks[t]
    BY <1>5, <1>7
  <2>2. life[k] = "on" /\ closure[k].callbacks = t
    BY <2>1 DEF Registry, InOneSet
  <2>3. k # l
    BY <1>5, <1>7, <2>2 DEF s
  <2> QED BY <1>2, <1>5, <2>2, <2>3
<1>10. MapsOfChannels'
  <2>1. \A d \in Channels : listeners'[d] # None => listeners'[d] = listeners[d]
    BY <1>5
  <2>2. \A k \in Listeners : life'[k] # "new" => life[k] # "new"
    BY <1>1, <1>5
  <2> QED BY <1>2, <2>1, <2>2 DEF Registry, MapsOfChannels
<1> QED BY <1>8, <1>9, <1>10 DEF Registry

LEMMA RegStep == TypeOK /\ Registry /\ [Next]_vars => Registry'
<1> SUFFICES ASSUME TypeOK, Registry, [Next]_vars PROVE Registry'
  OBVIOUS
<1>1. ASSUME UNCHANGED registry PROVE Registry'
  BY <1>1 DEF registry, Registry, OnIsFound, InOneSet, MapsOfChannels, Disturbed
<1>2. ASSUME NEW l \in Listeners, On(l) \/ Off(l) PROVE Registry'
  BY <1>2, OnKeeps, OffKeeps
<1>3. ASSUME NEW c \in Channels, CollectionSubscribe(c) PROVE UNCHANGED registry
  BY <1>3 DEF CollectionSubscribe
<1>4. ASSUME NEW m \in Msgs, Publish(m) PROVE UNCHANGED registry
  BY <1>4 DEF Publish
<1>5. CASE Continue
  BY <1>1, <1>5 DEF Continue, Queue, Return, Resubscribe, Drain, AfterClose, Arm
<1>6. CASE Opened \/ Closing \/ Closed \/ CloseEvent \/ TimerFires
  BY <1>1, <1>6 DEF Opened, Closing, Closed, CloseEvent, TimerFires
<1>7. CASE UNCHANGED vars
  BY <1>1, <1>7 DEF vars
<1> QED BY <1>1, <1>2, <1>3, <1>4, <1>5, <1>6, <1>7 DEF Next, Application

LEMMA InitTypes == Init => TypeOK
  BY ClientAssumption DEF Init, TypeOK, RegistryTypes

LEMMA RegistryHolds == Spec => [](TypeOK /\ Registry)
<1>1. Init => Registry
  BY ClientAssumption DEF Init, Registry, OnIsFound, InOneSet, MapsOfChannels
<1> QED BY <1>1, InitTypes, TypeStep, RegStep, PTL DEF Spec

\* A callback is called from on() until its unsubscribe function and not afterwards, whoever
\* else comes and goes on its channel and event.  An unsubscribe function that is called
\* twice disturbs callbacks of its own channel only.
THEOREM CallbacksKept == Spec => []ListenersKept
<1>1. TypeOK /\ Registry => ListenersKept
  <2> SUFFICES ASSUME TypeOK, Registry, NEW l \in Listeners
               PROVE  /\ Reached(l) => life[l] = "on"
                      /\ life[l] = "on" /\ ~Disturbed(ChannelOf[l]) => Reached(l)
    BY DEF ListenersKept
  <2>1. life[l] = "on" /\ ~Disturbed(ChannelOf[l]) => Reached(l)
    BY DEF Registry, OnIsFound, Reached
  <2>2. ASSUME Reached(l) PROVE life[l] = "on"
    <3>1. ChannelOf[l] \in Channels /\ EventOf[l] \in Events
      BY ClientAssumption
    <3>2. events[listeners[ChannelOf[l]]][EventOf[l]] \in Listeners
      BY <2>2, <3>1 DEF Reached, TypeOK, RegistryTypes
    <3> QED BY <2>2, <3>2 DEF Reached, Registry, InOneSet
  <2> QED BY <2>1, <2>2
<1> QED BY <1>1, RegistryHolds, PTL

(***************************************************************************)
(* What the server has been asked for.                                     *)
(***************************************************************************)
\* An open connection has asked for every channel, or the method that does it waits.
LEMMA AllHeardStep == TypeOK /\ Sending /\ AllHeard /\ [Next]_vars => AllHeard'
<1> SUFFICES ASSUME TypeOK, Sending, AllHeard, [Next]_vars PROVE AllHeard'
  OBVIOUS
<1>1. ASSUME socket' # "open" PROVE AllHeard'
  BY <1>1 DEF AllHeard
<1>2. ASSUME UNCHANGED <<socket, heard>>, channelSince' \subseteq channelSince,
             stack' = stack \/ ~Opening
      PROVE  AllHeard'
  BY <1>2 DEF AllHeard, Opening
<1>3. ASSUME NEW c \in Channels, Subscribe(c) PROVE AllHeard'
  <2>1. CASE socket' = "connecting"
    BY <1>1, <2>1
  <2>2. CASE /\ UNCHANGED <<socket, stack>>
             /\ heard' \in {heard, heard \cup {c}} /\ channelSince' = channelSince \cup {c}
             /\ socket = "open" /\ c \notin channelSince => c \in heard'
    BY <2>2 DEF AllHeard, Opening
  <2> QED BY <1>3, <2>1, <2>2, Subscribed
<1>4. ASSUME NewSocket(<<"return">>) PROVE AllHeard'
  BY <1>1, <1>4 DEF NewSocket
<1>5. ASSUME NEW l \in Listeners, On(l) \/ Off(l) PROVE AllHeard'
  <2>1. CASE On(l)
    BY <1>3, <2>1, OnTypes DEF On
  <2>2. CASE Off(l)
    <3>1. UNCHANGED <<socket, heard, stack>> /\ channelSince' \subseteq channelSince
      BY <2>2, OffTypes DEF Off, wire
    <3> QED BY <1>2, <3>1
  <2> QED BY <1>5, <2>1, <2>2
<1>6. ASSUME NEW c \in Channels, CollectionSubscribe(c) PROVE AllHeard'
  BY <1>3, <1>4, <1>6 DEF CollectionSubscribe
<1>7. ASSUME NEW m \in Msgs, Publish(m) PROVE AllHeard'
  BY <1>1, <1>2, <1>7 DEF Publish, NewSocket, wire
<1>8. CASE Queue \/ Return \/ Drain \/ AfterClose \/ Arm
  <2>1. ~Idle /\ Top # <<"resubscribe">> /\ UNCHANGED <<socket, heard, channelSince>>
    BY <1>8, QueueFrame DEF Queue, Return, Drain, AfterClose, Arm, connection, wire
  <2>2. ~Opening
    BY <2>1 DEF Opening, Top
  <2> QED BY <1>2, <2>1, <2>2
<1>9. CASE Resubscribe
  BY <1>9 DEF Resubscribe, AllHeard
<1>10. CASE Opened
  BY <1>10 DEF Opened, SetState, Idle, AllHeard, Opening
<1>11. CASE Closing \/ Closed \/ CloseEvent
  BY <1>1, <1>11 DEF Closing, Closed, CloseEvent
<1>12. CASE TimerFires
  <2>1. ~Opening /\ UNCHANGED channelSince
    BY <1>12 DEF TimerFires, Idle, Opening
  <2> QED BY <1>2, <1>4, <1>12, <2>1 DEF TimerFires
<1>13. CASE UNCHANGED vars
  BY <1>2, <1>13 DEF vars, connection, wire
<1> QED
  BY <1>5, <1>6, <1>7, <1>8, <1>9, <1>10, <1>11, <1>12, <1>13 DEF Next, Application, Continue

\* A channel leaves channelSince together with its map, and comes with it.
LEMMA WantedStep == TypeOK /\ Wanted /\ [Next]_vars => Wanted'
<1> SUFFICES ASSUME TypeOK, Wanted, [Next]_vars PROVE Wanted'
  OBVIOUS
<1> USE DEF Wanted, Listened
<1>1. ASSUME UNCHANGED listeners, channelSince \subseteq channelSince' PROVE Wanted'
  BY <1>1
<1>2. ASSUME NEW l \in Listeners, On(l) PROVE Wanted'
  <2>1. Subscribe(ChannelOf[l]) /\ listeners' = [listeners EXCEPT ![ChannelOf[l]] = MapFor(l)]
    BY <1>2 DEF On
  <2>2. channelSince' = channelSince \cup {ChannelOf[l]}
    BY <1>2, <2>1, OnTypes, Subscribed
  <2> HIDE DEF Listened
  <2>3. \A c \in Channels : c # ChannelOf[l] => listeners'[c] = listeners[c]
    BY <2>1 DEF TypeOK, RegistryTypes
  <2> QED BY <2>2, <2>3 DEF Listened
<1>3. ASSUME NEW l \in Listeners, Off(l) PROVE Wanted'
  <2> DEFINE c == ChannelOf[l]
  <2>1. \/ UNCHANGED <<listeners, channelSince>>
        \/ listeners' = [listeners EXCEPT ![c] = None] /\ channelSince' = channelSince \ {c}
    BY <1>3 DEF Off
  <2>2. c \in Channels
    BY ClientAssumption
  <2> QED BY <2>1, <2>2 DEF TypeOK, RegistryTypes
<1>4. ASSUME NEW c \in Channels, CollectionSubscribe(c) PROVE Wanted'
  BY <1>1, <1>4, Subscribed DEF CollectionSubscribe, registry
<1>5. ASSUME NEW m \in Msgs, Publish(m) PROVE Wanted'
  BY <1>1, <1>5 DEF Publish, registry
<1>6. CASE Continue
  BY <1>1, <1>6 DEF Continue, Queue, Return, Resubscribe, Drain, AfterClose, Arm, registry
<1>7. CASE Opened \/ Closing \/ Closed \/ CloseEvent \/ TimerFires
  BY <1>1, <1>7 DEF Opened, Closing, Closed, CloseEvent, TimerFires, registry
<1>8. CASE UNCHANGED vars
  BY <1>1, <1>8 DEF vars, registry
<1> QED BY <1>2, <1>3, <1>4, <1>5, <1>6, <1>7, <1>8 DEF Next, Application

\* A publish is sent deaf only from within a state callback: the socket is open then, and the
\* method that subscribes anew is still waiting.
LEMMA DeafStep == ListenInv /\ [Next]_vars => DeafInCallbacks'
<1> SUFFICES ASSUME ListenInv, [Next]_vars PROVE DeafInCallbacks'
  OBVIOUS
<1>1. /\ sent \in Seq(Msgs) /\ queued \in Seq(Msgs) /\ called \in Seq(Msgs)
      /\ TypeOK /\ Sending /\ deaf \subseteq ToSet(sent) \ ToSet(called)
  BY FieldTypes DEF ListenInv, OrderInv, ConnInv, DeafInCallbacks
<1>2. ASSUME NEW ms \in Seq(Msgs), socket = "open", ~Opening PROVE Deafened(ms, heard) = {}
  <2>1. channelSince \subseteq heard
    BY <1>2 DEF ListenInv, AllHeard
  <2>2. ASSUME NEW m \in ToSet(ms), Listened(ChannelOf[m]) PROVE ChannelOf[m] \in heard
    <3>1. m \in Msgs
      BY <1>2 DEF ToSet
    <3>2. ChannelOf[m] \in Channels
      BY <3>1, ClientAssumption
    <3> QED BY <2>1, <2>2, <3>2 DEF ListenInv, Wanted
  <2> QED BY <2>2 DEF Deafened
<1>3. ASSUME UNCHANGED <<sent, called, deaf>> PROVE DeafInCallbacks'
  BY <1>3 DEF ListenInv, DeafInCallbacks
<1>4. ASSUME NEW m \in Msgs, Publish(m) PROVE DeafInCallbacks'
  <2>1. m \notin ToSet(sent) \cup ToSet(called)
    BY <1>4 DEF Publish
  <2>2. \/ called' = called /\ ~Idle
        \/ called' = Append(called, m) /\ Idle
    BY <1>1, <1>4, PublishCalls DEF ListenInv
  <2>3. ToSet(called') \subseteq ToSet(called) \cup {m} /\ (~Idle => called' = called)
    BY <1>1, <2>2, AppendedSet
  <2>4. CASE sent' = sent /\ deaf' = deaf
    BY <1>1, <2>1, <2>3, <2>4 DEF DeafInCallbacks
  <2>5. CASE socket = "open" /\ sent' = Append(sent, m) /\ deaf' = deaf \cup Deafened(<<m>>, heard)
    <3>1. ToSet(sent') = ToSet(sent) \cup {m}
      BY <1>1, <2>5, AppendedSet
    <3>2. CASE Idle
      <4>1. ~Opening /\ <<m>> \in Seq(Msgs)
        BY <3>2 DEF Opening, Idle
      <4>2. deaf' = deaf
        BY <1>2, <2>5, <4>1
      <4> QED BY <1>1, <2>1, <2>3, <3>1, <4>2 DEF DeafInCallbacks
    <3>3. CASE ~Idle
      <4>1. ToSet(<<m>>) = {m}
        BY DEF ToSet
      <4>2. deaf' \subseteq deaf \cup {m}
        BY <2>5, <4>1 DEF Deafened
      <4> QED BY <1>1, <2>1, <2>3, <3>1, <3>3, <4>2 DEF DeafInCallbacks
    <3> QED BY <3>2, <3>3
  <2> QED BY <1>4, <2>4, <2>5 DEF Publish, wire
<1>5. CASE Drain
  <2>1. socket = "open" /\ ~Opening
    BY <1>1, <1>5, TopSends DEF Drain, Opening, Top
  <2>2. deaf' = deaf /\ sent' = sent \o queued /\ called' = called
    BY <1>1, <1>2, <1>5, <2>1 DEF Drain
  <2>3. ToSet(sent') = ToSet(sent) \cup ToSet(queued)
    BY <1>1, <2>2, JoinedSet
  <2> QED BY <1>1, <2>2, <2>3 DEF DeafInCallbacks
<1>6. ASSUME NEW l \in Listeners, On(l) \/ Off(l) PROVE DeafInCallbacks'
  BY <1>3, <1>6 DEF On, Off, wire
<1>7. ASSUME NEW c \in Channels, CollectionSubscribe(c) PROVE DeafInCallbacks'
  BY <1>3, <1>7 DEF CollectionSubscribe
<1>8. CASE Queue \/ Return \/ Resubscribe \/ AfterClose \/ Arm
  BY <1>3, <1>8 DEF Queue, Return, Resubscribe, AfterClose, Arm, wire
<1>9. CASE Opened \/ Closing \/ Closed \/ CloseEvent \/ TimerFires
  BY <1>3, <1>9 DEF Opened, Closing, Closed, CloseEvent, TimerFires, wire
<1>10. CASE UNCHANGED vars
  BY <1>3, <1>10 DEF vars, wire
<1> QED
  BY <1>4, <1>5, <1>6, <1>7, <1>8, <1>9, <1>10 DEF Next, Application, Continue

LEMMA ListenInvHolds == Spec => []ListenInv
<1>1. Init => Wanted /\ AllHeard /\ DeafInCallbacks
  BY DEF Init, Wanted, Listened, AllHeard, DeafInCallbacks
<1>2. OrderInv /\ Wanted /\ AllHeard /\ [Next]_vars => Wanted' /\ AllHeard'
  BY WantedStep, AllHeardStep DEF OrderInv, ConnInv
<1>3. OrderInv /\ Wanted /\ AllHeard /\ DeafInCallbacks <=> ListenInv
  BY DEF ListenInv
<1>4. OrderInv /\ Wanted /\ AllHeard /\ DeafInCallbacks /\ [Next]_vars => DeafInCallbacks'
  BY <1>3, DeafStep
<1> QED BY <1>1, <1>2, <1>3, <1>4, OrderInvHolds, PTL DEF Spec

\* On an open connection the server has been asked for every channel somebody listens to,
\* after every break and whenever the callback came.
THEOREM SubscribedAgain == Spec => []Resubscribed
<1>1. ListenInv /\ Registry => Resubscribed
  <2> SUFFICES ASSUME ListenInv, Registry, Connected,
                      NEW l \in Listeners, life[l] = "on", ~Disturbed(ChannelOf[l])
               PROVE  ChannelOf[l] \in heard
    BY DEF Resubscribed
  <2>1. socket = "open" /\ ~Opening
    BY DEF Connected, Idle, Opening
  <2>2. ChannelOf[l] \in Channels /\ Listened(ChannelOf[l])
    BY ClientAssumption DEF Registry, OnIsFound, Listened
  <2> QED BY <2>1, <2>2 DEF ListenInv, AllHeard, Wanted
<1> QED BY <1>1, ListenInvHolds, RegistryHolds, PTL

\* A publish on a channel one listens to follows the subscription of that channel, unless it
\* was called from within a state callback.
THEOREM PublishersHear == Spec => []PublisherHears
<1>1. ListenInv => PublisherHears
  <2> SUFFICES ASSUME ListenInv PROVE deaf \subseteq Msgs \ ToSet(called)
    BY DEF PublisherHears
  <2> QED BY DEF ListenInv, DeafInCallbacks, OrderInv, ConnInv, TypeOK
<1> QED BY <1>1, ListenInvHolds, PTL

(***************************************************************************)
(* The next connection.  Where there is work and no socket, the timer is   *)
(* set, or one of the methods that set it waits for a callback.            *)
(***************************************************************************)
ArmWaits == \E i \in DOMAIN stack : stack[i] \in {<<"closed">>, <<"arm">>}
Armed == socket = "null" /\ hasActiveWork => timer \/ ArmWaits

LEMMA SubscribeRearms ==
    ASSUME Armed, NEW c \in Channels, Subscribe(c), UNCHANGED timer
    PROVE  Armed'
<1>1. CASE c \in channelSince
  <2>1. UNCHANGED <<socket, stack>> /\ hasActiveWork
    BY <1>1 DEF Subscribe, hasActiveWork
  <2> QED BY <2>1 DEF Armed, ArmWaits
<1>2. CASE c \notin channelSince
  BY <1>2 DEF Subscribe, NewSocket, NeedsSocket, Armed
<1> QED BY <1>1, <1>2

LEMMA ReconnectArms ==
    ASSUME NEW below \in Seq(Frames), ScheduleReconnect(below),
           UNCHANGED <<timer, listeners, queued, channelSince>>
    PROVE  Armed'
<1>1. hasActiveWork' <=> hasActiveWork
  BY DEF hasActiveWork
<1>2. CASE hasActiveWork /\ ~timer
  <2>1. stack' = Append(below, <<"arm">>) /\ <<"arm">> \in Frames
    BY <1>2, FramesHere DEF ScheduleReconnect
  <2>2. ArmWaits'
    BY <2>1, Appended DEF ArmWaits
  <2> QED BY <2>2 DEF Armed
<1>3. CASE ~(hasActiveWork /\ ~timer)
  BY <1>1, <1>3 DEF Armed
<1> QED BY <1>2, <1>3

\* An unsubscribe function makes no work, and clears the timer only when none is left.
LEMMA OffRearms ==
    ASSUME TypeOK, Armed, NEW l \in Listeners, Off(l)
    PROVE  Armed'
<1>1. ASSUME hasActiveWork' PROVE hasActiveWork
  <2>1. channelSince' \subseteq channelSince /\ queued' = queued
    BY OffTypes DEF Off
  <2>2. \A c \in Channels : listeners'[c] # None => listeners[c] # None
    BY DEF Off, TypeOK, RegistryTypes
  <2> QED BY <1>1, <2>1, <2>2 DEF hasActiveWork
<1>2. UNCHANGED <<socket, stack>> /\ timer' = (timer /\ hasActiveWork')
  BY DEF Off, ClearTimer
<1> QED BY <1>1, <1>2 DEF Armed, ArmWaits

LEMMA ArmedStep == TypeOK /\ Sending /\ Armed /\ [Next]_vars => Armed'
<1> SUFFICES ASSUME TypeOK, Sending, Armed, [Next]_vars PROVE Armed'
  OBVIOUS
<1> USE DEF connection, registry, wire
<1>1. ASSUME socket' # "null" PROVE Armed'
  BY <1>1 DEF Armed
<1>2. ASSUME UNCHANGED <<socket, timer, listeners, queued, channelSince>>, ArmWaits => ArmWaits'
      PROVE  Armed'
  BY <1>2 DEF Armed, hasActiveWork
<1>3. ASSUME NEW l \in Listeners, On(l) \/ Off(l) PROVE Armed'
  <2>1. CASE On(l)
    BY <2>1, OnTypes, SubscribeRearms DEF On
  <2> QED BY <1>3, <2>1, OffRearms
<1>4. ASSUME NEW c \in Channels, CollectionSubscribe(c) PROVE Armed'
  <2>1. CASE NewSocket(<<"return">>)
    BY <1>1, <2>1 DEF NewSocket
  <2> QED BY <1>4, <2>1, SubscribeRearms DEF CollectionSubscribe
<1>5. ASSUME NEW m \in Msgs, Publish(m) PROVE Armed'
  BY <1>1, <1>5 DEF Publish, NewSocket
<1>6. CASE Queue
  <2>1. PICK m \in Msgs : Top = <<"queue", m>>
    BY <1>6 DEF Queue
  <2>2. socket = "connecting"
    BY <1>6, <2>1, Popped DEF Queue, Sending, Top
  <2> QED BY <1>1, <1>6, <2>2 DEF Queue
<1>7. CASE Return
  <2>1. ~Idle /\ Top = <<"return">> /\ stack' = Below
    BY <1>7 DEF Return
  <2>2. ASSUME ArmWaits PROVE ArmWaits'
    <3>1. PICK i \in DOMAIN stack : stack[i] \in {<<"closed">>, <<"arm">>}
      BY <2>2 DEF ArmWaits
    <3>2. i # Len(stack)
      BY <2>1, <3>1 DEF Top
    <3>3. i \in DOMAIN Below /\ Below[i] = stack[i]
      BY <2>1, <3>1, <3>2, Popped
    <3> QED BY <2>1, <3>1, <3>3 DEF ArmWaits
  <2> QED BY <1>2, <1>7, <2>2 DEF Return
<1>8. CASE Resubscribe \/ Drain
  BY <1>1, <1>8, TopSends DEF Resubscribe, Drain
<1>9. CASE AfterClose
  BY <1>9, Popped, ReconnectArms DEF AfterClose
<1>10. CASE Arm
  BY <1>10 DEF Arm, Armed
<1>11. CASE Opened \/ Closing \/ Closed
  BY <1>1, <1>11 DEF Opened, Closing, Closed
<1>12. CASE CloseEvent
  <2>1. CASE ScheduleReconnect(stack)
    BY <1>12, <2>1, ReconnectArms DEF CloseEvent, TypeOK
  <2>2. CASE SetState("disconnected", <<"closed">>)
    <3>1. ArmWaits'
      BY <2>2, Appended, FramesHere DEF SetState, ArmWaits, TypeOK
    <3> QED BY <3>1 DEF Armed
  <2> QED BY <1>12, <2>1, <2>2 DEF CloseEvent
<1>13. CASE TimerFires
  <2>1. CASE ~hasActiveWork
    <3>1. ~hasActiveWork'
      BY <1>13, <2>1 DEF TimerFires, hasActiveWork
    <3> QED BY <3>1 DEF Armed
  <2>2. CASE hasActiveWork
    BY <1>1, <1>13, <2>2 DEF TimerFires, NewSocket, NeedsSocket
  <2> QED BY <2>1, <2>2
<1>14. CASE UNCHANGED vars
  BY <1>2, <1>14 DEF vars, ArmWaits
<1> QED
  BY <1>3, <1>4, <1>5, <1>6, <1>7, <1>8, <1>9, <1>10, <1>11, <1>12, <1>13, <1>14
  DEF Next, Application, Continue

\* Between two tasks, work without a socket has a timer that will make one: the state that
\* would wait for ever is not reached, whatever the application does in its callbacks.
THEOREM AlwaysRearmed == Spec => []Rearmed
<1>1. Init => Armed
  BY DEF Init, Armed, hasActiveWork
<1>2. ConnInv /\ Armed /\ [Next]_vars => Armed'
  BY ArmedStep DEF ConnInv
<1>3. Armed => Rearmed
  BY DEF Armed, ArmWaits, Rearmed, Idle
<1> QED BY <1>1, <1>2, <1>3, ConnInvHolds, PTL DEF Spec

===============================================================================

----------------------------- MODULE RealtimeHub -----------------------------
(***************************************************************************)
(* The realtime hub of quickd (server/internal/realtime/hub.go): WebSocket *)
(* connections take a seat of their site, subscribe to channels, and get   *)
(* what other connections and the document handlers publish there.         *)
(*                                                                         *)
(* Hub.Serve is two goroutines per connection: a reader that handles the   *)
(* frames of the peer and answers them itself, and a writer that empties   *)
(* the connection's send queue.  Hub.mu makes reserve, release, add,       *)
(* remove, subscribe, unsubscribe and PublishRaw one step each; writes to  *)
(* the connection are outside it.  The peer is modelled by what it has     *)
(* received: the events, and the last answer for each channel.             *)
(***************************************************************************)
EXTENDS Naturals, Sequences, FiniteSets

CONSTANTS
    Conns,       \* upgrade requests to /_quick/realtime
    Sites,
    SiteOf,      \* the site a request is for
    Channels,
    MaxPerSite,  \* Hub.MaxPerSite, 100
    Queue,       \* the capacity of client.send, 32
    MaxFrames,   \* bound: frames each peer sends
    MaxEvents    \* bound: events published

ASSUME ConnsAssumption == IsFiniteSet(Conns) /\ SiteOf \in [Conns -> Sites]
ASSUME LimitAssumption == MaxPerSite \in Nat \ {0} /\ Queue \in Nat \ {0}
ASSUME BoundAssumption == MaxFrames \in [Conns -> Nat] /\ MaxEvents \in Nat

VARIABLES
    stage,       \* per connection: how far its Serve is
    seats,       \* Hub.siteCounts
    clients,     \* Hub.clients
    subs,        \* client.channels
    queue,       \* client.send
    closed,      \* the connections whose client.send is closed
    hand,        \* what the writer took from the queue, until it is written
    writer,      \* per connection: its writer goroutine
    reply,       \* per connection: the answer its reader is writing
    broken,      \* the connections that are: reads and writes fail
    got,         \* the events each peer has received
    heard,       \* per peer and channel: the last answer it has received
    frames,      \* per peer: frames sent
    clock,       \* events published
    due          \* per connection: the events that were queued for it

serve == <<stage, seats, clients>>
peer == <<broken, got, heard, frames>>
vars == <<serve, subs, queue, closed, hand, writer, reply, peer, clock, due>>

Stages == {"new", "refused", "reserved", "open", "closing", "removed", "gone"}
Seated == {"reserved", "open", "closing", "removed"}
Answers == {"none", "subscribed", "unsubscribed"}
NoReply == [kind |-> "none"]
Replies == {NoReply, [kind |-> "error"]}
           \cup [kind : {"subscribed", "unsubscribed"}, channel : Channels]
Events == [n : Nat, site : Sites, channel : Channels]

TypeOK ==
    /\ stage \in [Conns -> Stages]
    /\ seats \in [Sites -> Nat]
    /\ clients \in SUBSET Conns
    /\ subs \in [Conns -> SUBSET Channels]
    /\ queue \in [Conns -> Seq(Events)]
    /\ closed \in SUBSET Conns
    /\ hand \in [Conns -> Seq(Events)]
    /\ writer \in [Conns -> {"none", "waiting", "writing", "done"}]
    /\ reply \in [Conns -> Replies]
    /\ broken \in SUBSET Conns
    /\ got \in [Conns -> Seq(Events)]
    /\ heard \in [Conns -> [Channels -> Answers]]
    /\ frames \in [Conns -> Nat]
    /\ clock \in Nat
    /\ due \in [Conns -> Seq(Events)]

Init ==
    /\ stage = [c \in Conns |-> "new"]
    /\ seats = [s \in Sites |-> 0]
    /\ clients = {}
    /\ subs = [c \in Conns |-> {}]
    /\ queue = [c \in Conns |-> <<>>]
    /\ closed = {}
    /\ hand = [c \in Conns |-> <<>>]
    /\ writer = [c \in Conns |-> "none"]
    /\ reply = [c \in Conns |-> NoReply]
    /\ broken = {}
    /\ got = [c \in Conns |-> <<>>]
    /\ heard = [c \in Conns |-> [ch \in Channels |-> "none"]]
    /\ frames = [c \in Conns |-> 0]
    /\ clock = 0
    /\ due = [c \in Conns |-> <<>>]

(***************************************************************************)
(* Arriving                                                                *)
(***************************************************************************)
\* reserve: a seat of the site, or 429.
Reserve(c) ==
    /\ stage[c] = "new"
    /\ IF seats[SiteOf[c]] >= MaxPerSite
       THEN /\ stage' = [stage EXCEPT ![c] = "refused"]
            /\ UNCHANGED seats
       ELSE /\ stage' = [stage EXCEPT ![c] = "reserved"]
            /\ seats' = [seats EXCEPT ![SiteOf[c]] = @ + 1]
    /\ UNCHANGED <<clients, subs, queue, closed, hand, writer, reply, peer, clock, due>>

\* Mutant: a request that is not an upgrade keeps its seat.
AcceptFails_KeepsSeat(c) ==
    /\ stage[c] = "reserved"
    /\ stage' = [stage EXCEPT ![c] = "gone"]
    /\ UNCHANGED <<seats, clients, subs, queue, closed, hand, writer, reply, peer, clock, due>>

\* The request is not a WebSocket upgrade: only the deferred release is left to do.
AcceptFails(c) ==
    /\ stage[c] = "reserved"
    /\ stage' = [stage EXCEPT ![c] = "removed"]
    /\ UNCHANGED <<seats, clients, subs, queue, closed, hand, writer, reply, peer, clock, due>>

\* Accept, add, and the writer goroutine starts.
Accept(c) ==
    /\ stage[c] = "reserved"
    /\ stage' = [stage EXCEPT ![c] = "open"]
    /\ clients' = clients \cup {c}
    /\ writer' = [writer EXCEPT ![c] = "waiting"]
    /\ UNCHANGED <<seats, subs, queue, closed, hand, reply, peer, clock, due>>

(***************************************************************************)
(* Publishing                                                              *)
(***************************************************************************)
\* Mutant: the channel alone decides, whatever the site.
Audience_AnySite(s, ch) == {c \in clients : ch \in subs[c]}

Audience(s, ch) == {c \in clients : SiteOf[c] = s /\ ch \in subs[c]}

HasRoom(c) == Len(queue[c]) < Queue

\* Mutant: the first full queue ends the loop.
PublishRaw_StopsAtFull(s, ch) ==
    LET e == [n |-> clock + 1, site |-> s, channel |-> ch]
        Reached == IF \A c \in Audience(s, ch) : HasRoom(c) THEN Audience(s, ch) ELSE {}
        Push(q) == [c \in Conns |-> IF c \in Reached THEN Append(q[c], e) ELSE q[c]]
    IN  /\ clock < MaxEvents
        /\ clock' = clock + 1
        /\ queue' = Push(queue)
        /\ due' = Push(due)

\* To every subscriber on the site, the publisher included, unless its queue is full.
PublishRaw(s, ch) ==
    LET e == [n |-> clock + 1, site |-> s, channel |-> ch]
        Push(q) == [c \in Conns |->
                      IF c \in Audience(s, ch) /\ HasRoom(c) THEN Append(q[c], e) ELSE q[c]]
    IN  /\ clock < MaxEvents
        /\ clock' = clock + 1
        /\ queue' = Push(queue)
        /\ due' = Push(due)

\* A document handler publishes on db:<collection>.
HandlerPublish(s, ch) ==
    /\ PublishRaw(s, ch)
    /\ UNCHANGED <<serve, subs, closed, hand, writer, reply, peer>>

(***************************************************************************)
(* The reader                                                              *)
(***************************************************************************)
\* The peer has sent a frame and the reader, done with the last one, reads it.
Reads(c) ==
    /\ stage[c] = "open"
    /\ reply[c] = NoReply
    /\ c \notin broken
    /\ frames[c] < MaxFrames[c]
    /\ frames' = [frames EXCEPT ![c] = @ + 1]

FramePublish(c, ch) ==
    /\ Reads(c)
    /\ PublishRaw(SiteOf[c], ch)
    /\ UNCHANGED <<serve, subs, closed, hand, writer, reply, broken, got, heard>>

FrameSubscribe(c, ch) ==
    /\ Reads(c)
    /\ subs' = [subs EXCEPT ![c] = @ \cup {ch}]
    /\ reply' = [reply EXCEPT ![c] = [kind |-> "subscribed", channel |-> ch]]
    /\ UNCHANGED <<serve, queue, closed, hand, writer, broken, got, heard, clock, due>>

FrameUnsubscribe(c, ch) ==
    /\ Reads(c)
    /\ subs' = [subs EXCEPT ![c] = @ \ {ch}]
    /\ reply' = [reply EXCEPT ![c] = [kind |-> "unsubscribed", channel |-> ch]]
    /\ UNCHANGED <<serve, queue, closed, hand, writer, broken, got, heard, clock, due>>

\* Rate limited, not JSON, no channel or an unknown type: the frame is answered with an
\* error that names neither the frame nor its channel.
FrameRejected(c) ==
    /\ Reads(c)
    /\ reply' = [reply EXCEPT ![c] = [kind |-> "error"]]
    /\ UNCHANGED <<serve, subs, queue, closed, hand, writer, broken, got, heard, clock, due>>

\* writeAck and writeError go to the connection, past the queue; a failure is ignored.
Reply(c) ==
    /\ reply[c] # NoReply
    /\ c \notin broken
    /\ heard' = IF reply[c].kind = "error" THEN heard
                ELSE [heard EXCEPT ![c][reply[c].channel] = reply[c].kind]
    /\ reply' = [reply EXCEPT ![c] = NoReply]
    /\ UNCHANGED <<serve, subs, queue, closed, hand, writer, broken, got, frames, clock, due>>

\* The answer being written, if any, fails unnoticed, and then the next read: the reader
\* cancels the writer and waits for it.
ReadEnds(c) == stage[c] = "open" /\ c \in broken

ReadFails(c) ==
    /\ ReadEnds(c)
    /\ stage' = [stage EXCEPT ![c] = "closing"]
    /\ reply' = [reply EXCEPT ![c] = NoReply]
    /\ UNCHANGED <<seats, clients, subs, queue, closed, hand, writer, peer, clock, due>>

(***************************************************************************)
(* The writer                                                              *)
(***************************************************************************)
\* Cancelled or not, an event that is there may be taken: select has no order.
EventWaits(c) == writer[c] = "waiting" /\ queue[c] # <<>>

WriterTakes(c) ==
    /\ EventWaits(c)
    /\ hand' = [hand EXCEPT ![c] = <<Head(queue[c])>>]
    /\ queue' = [queue EXCEPT ![c] = Tail(@)]
    /\ writer' = [writer EXCEPT ![c] = "writing"]
    /\ UNCHANGED <<serve, subs, closed, reply, peer, clock, due>>

\* Takes as long as the peer does not read.
WriterWrites(c) ==
    /\ writer[c] = "writing"
    /\ c \notin broken
    /\ stage[c] = "open"
    /\ got' = [got EXCEPT ![c] = @ \o hand[c]]
    /\ hand' = [hand EXCEPT ![c] = <<>>]
    /\ writer' = [writer EXCEPT ![c] = "waiting"]
    /\ UNCHANGED <<serve, subs, queue, closed, reply, broken, heard, frames, clock, due>>

WriteEnds(c) == writer[c] = "writing" /\ (c \in broken \/ stage[c] = "closing")

\* Mutant: the writer goes on with the next event after an error.
WriterFails_GoesOn(c) ==
    /\ WriteEnds(c)
    /\ hand' = [hand EXCEPT ![c] = <<>>]
    /\ writer' = [writer EXCEPT ![c] = "waiting"]
    /\ broken' = broken \cup {c}
    /\ UNCHANGED <<serve, subs, queue, closed, reply, got, heard, frames, clock, due>>

\* The event in hand is lost, and with it the connection.
WriterFails(c) ==
    /\ WriteEnds(c)
    /\ writer' = [writer EXCEPT ![c] = "done"]
    /\ broken' = broken \cup {c}
    /\ UNCHANGED <<serve, subs, queue, closed, hand, reply, got, heard, frames, clock, due>>

\* Mutant: the writer is only stopped by closing its queue.
Cancelled_OnClose(c) == writer[c] = "waiting" /\ c \in closed /\ queue[c] = <<>>

\* The reader has cancelled the context, and the writer is in its select.
Cancelled(c) == writer[c] = "waiting" /\ stage[c] = "closing"

WriterStops(c) ==
    /\ Cancelled(c)
    /\ writer' = [writer EXCEPT ![c] = "done"]
    /\ UNCHANGED <<serve, subs, queue, closed, hand, reply, peer, clock, due>>

(***************************************************************************)
(* Leaving: the deferred calls of Serve, last one first                    *)
(***************************************************************************)
\* The reader has seen the writer end.
WriterEnded(c) == stage[c] = "closing" /\ writer[c] = "done"

\* Mutant: the queue is closed before the hub forgets the client.
Remove_StaysListed(c) ==
    /\ WriterEnded(c)
    /\ stage' = [stage EXCEPT ![c] = "removed"]
    /\ closed' = closed \cup {c}
    /\ UNCHANGED <<seats, clients, subs, queue, hand, writer, reply, peer, clock, due>>

Remove(c) ==
    /\ WriterEnded(c)
    /\ stage' = [stage EXCEPT ![c] = "removed"]
    /\ clients' = clients \ {c}
    /\ closed' = closed \cup {c}
    /\ UNCHANGED <<seats, subs, queue, hand, writer, reply, peer, clock, due>>

Release(c) ==
    /\ stage[c] = "removed"
    /\ stage' = [stage EXCEPT ![c] = "gone"]
    /\ seats' = [seats EXCEPT ![SiteOf[c]] = IF @ > 0 THEN @ - 1 ELSE @]
    /\ UNCHANGED <<clients, subs, queue, closed, hand, writer, reply, peer, clock, due>>

(***************************************************************************)
(* The network                                                             *)
(***************************************************************************)
\* The peer closes the connection, or the kernel gives it up.
Break(c) ==
    /\ stage[c] = "open"
    /\ c \notin broken
    /\ broken' = broken \cup {c}
    /\ UNCHANGED <<serve, subs, queue, closed, hand, writer, reply, got, heard, frames, clock, due>>

Frame(c) ==
    \/ \E ch \in Channels : FramePublish(c, ch) \/ FrameSubscribe(c, ch) \/ FrameUnsubscribe(c, ch)
    \/ FrameRejected(c)

\* What the goroutines of Serve do without the peer.
ServeStep(c) ==
    \/ WriterTakes(c) \/ WriterFails(c) \/ WriterStops(c)
    \/ ReadFails(c)   \/ Remove(c)      \/ Release(c)

Next ==
    \/ \E c \in Conns :
        \/ Reserve(c) \/ Accept(c) \/ AcceptFails(c)
        \/ Frame(c) \/ Reply(c) \/ WriterWrites(c)
        \/ ServeStep(c)
        \/ Break(c)
    \/ \E s \in Sites, ch \in Channels : HandlerPublish(s, ch)

Spec == Init /\ [][Next]_vars

(***************************************************************************)
(* Properties                                                              *)
(***************************************************************************)
Holders(s) == {c \in Conns : SiteOf[c] = s /\ stage[c] \in Seated}

\* Per-site connection limit: siteCounts is exactly the number of requests inside Serve,
\* on every way out of it, and so never above MaxPerSite.
SeatsExact ==
    \A s \in Sites : seats[s] = Cardinality(Holders(s)) /\ seats[s] <= MaxPerSite

\* PublishRaw never sends on a closed queue, which would end the process: a listed client
\* is open, and its request still has its seat.
ListedIsOpen == \A c \in clients : c \notin closed /\ stage[c] \in Seated

\* What a peer received, what the writer has in hand and what is queued is, in this order
\* and without gaps or repetitions, what was queued for it.
DeliveredInOrder == \A c \in Conns : got[c] \o hand[c] \o queue[c] = due[c]

\* A peer that was told "subscribed" gets every later event of the channel queued, as long
\* as its queue has room and it has not asked to unsubscribe.
NothingMissed ==
    [][\A c \in Conns, s \in Sites, ch \in Channels :
         /\ PublishRaw(s, ch)
         /\ SiteOf[c] = s /\ stage[c] = "open" /\ c \notin broken
         /\ heard[c][ch] = "subscribed"
         /\ reply[c] # [kind |-> "unsubscribed", channel |-> ch]
         /\ Len(queue[c]) < Queue
         => Len(due'[c]) = Len(due[c]) + 1]_vars

\* A connection that broke gives its seat back: its two goroutines never wait for each
\* other.  What one of them waits for is always there until the request has left.
NeverStuck ==
    \A c \in Conns :
        stage[c] \in Seated /\ (c \in broken \/ stage[c] = "removed") =>
            \/ ReadEnds(c)   \/ EventWaits(c)  \/ WriteEnds(c)
            \/ Cancelled(c)  \/ WriterEnded(c) \/ stage[c] = "removed"

\* How many steps a broken connection has before it at most.
StepsLeft(c) ==
    (CASE stage[c] = "open" -> 6 [] stage[c] = "closing" -> 4 [] stage[c] = "removed" -> 2 [] OTHER -> 0)
    + (CASE writer[c] = "waiting" -> 2 [] writer[c] = "writing" -> 1 [] OTHER -> 0)

\* And each of these steps brings it nearer to giving the seat back, while nothing that
\* others do, publishers that fill its queue included, takes it further away.
LeavesSoon ==
    [][\A c \in broken :
         /\ StepsLeft(c)' <= StepsLeft(c)
         /\ ServeStep(c) => StepsLeft(c)' < StepsLeft(c)]_vars

\* What the peers see is what SiteFeed promises: the queue and the hand of the writer
\* are what is owed to a peer.
Feed == INSTANCE SiteFeed WITH
    Peers <- Conns, number <- clock, wants <- subs, owed <- [c \in Conns |-> hand[c] \o queue[c]]

FeedKept == Feed!Spec
==============================================================================

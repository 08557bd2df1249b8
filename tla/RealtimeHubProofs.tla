--------------------------- MODULE RealtimeHubProofs ---------------------------
(***************************************************************************)
(* Theorems about RealtimeHub, for any number of connections and channels  *)
(* and any limits: the seats, the list of clients, the order of delivery.  *)
(***************************************************************************)
EXTENDS RealtimeHub, FiniteSetTheorems, SequenceTheorems, TLAPS

LEMMA InitTypes == Init => TypeOK
  BY DEF Init, TypeOK, Stages, Replies, Answers, NoReply

\* What a publication does to the queues.
LEMMA PublishTypes ==
    ASSUME TypeOK, NEW s \in Sites, NEW ch \in Channels, PublishRaw(s, ch)
    PROVE  queue' \in [Conns -> Seq(Events)] /\ due' \in [Conns -> Seq(Events)] /\ clock' \in Nat
<1> DEFINE e == [n |-> clock + 1, site |-> s, channel |-> ch]
<1>1. e \in Events
  BY DEF TypeOK, Events
<1>2. \A q \in Seq(Events) : Append(q, e) \in Seq(Events)
  BY <1>1
<1> QED
  BY <1>2 DEF PublishRaw, TypeOK

LEMMA SiteKnown == ASSUME NEW c \in Conns PROVE SiteOf[c] \in Sites
  BY ConnsAssumption

\* The type of an answer that is being written.
LEMMA ReplyShape ==
    ASSUME TypeOK, NEW c \in Conns, reply[c] # NoReply, reply[c].kind # "error"
    PROVE  reply[c].kind \in {"subscribed", "unsubscribed"} /\ reply[c].channel \in Channels
  BY DEF TypeOK, Replies

LEMMA TypeStep == TypeOK /\ [Next]_vars => TypeOK'
<1> SUFFICES ASSUME TypeOK, [Next]_vars PROVE TypeOK'
  OBVIOUS
<1> USE SiteKnown
<1>1. ASSUME NEW c \in Conns, Reserve(c) PROVE TypeOK'
  <2>1. stage' \in [Conns -> Stages]
    BY <1>1 DEF Reserve, TypeOK, Stages
  <2>2. seats' \in [Sites -> Nat]
    <3>1. CASE seats[SiteOf[c]] >= MaxPerSite
      BY <1>1, <3>1 DEF Reserve, TypeOK
    <3>2. CASE ~(seats[SiteOf[c]] >= MaxPerSite)
      <4>1. seats' = [seats EXCEPT ![SiteOf[c]] = @ + 1]
        BY <1>1, <3>2 DEF Reserve
      <4>2. seats \in [Sites -> Nat] /\ SiteOf[c] \in Sites /\ seats[SiteOf[c]] + 1 \in Nat
        BY SiteKnown DEF TypeOK
      <4> QED
        BY <4>1, <4>2
    <3> QED
      BY <3>1, <3>2
  <2> QED
    BY <1>1, <2>1, <2>2 DEF Reserve, TypeOK, peer
<1>2. ASSUME NEW c \in Conns, Accept(c) PROVE TypeOK'
  BY <1>2 DEF Accept, TypeOK, Stages, peer
<1>3. ASSUME NEW c \in Conns, AcceptFails(c) PROVE TypeOK'
  BY <1>3 DEF AcceptFails, TypeOK, Stages, peer
<1>4. ASSUME NEW c \in Conns, NEW ch \in Channels, FramePublish(c, ch) PROVE TypeOK'
  <2>1. queue' \in [Conns -> Seq(Events)] /\ due' \in [Conns -> Seq(Events)] /\ clock' \in Nat
    BY <1>4, PublishTypes DEF FramePublish
  <2>2. frames' \in [Conns -> Nat]
    BY <1>4 DEF FramePublish, Reads, TypeOK
  <2> QED
    BY <1>4, <2>1, <2>2 DEF FramePublish, TypeOK, serve
<1>5. ASSUME NEW c \in Conns, NEW ch \in Channels, FrameSubscribe(c, ch) PROVE TypeOK'
  <2>1. [kind |-> "subscribed", channel |-> ch] \in Replies
    BY DEF Replies
  <2> QED
    BY <1>5, <2>1 DEF FrameSubscribe, Reads, TypeOK, serve
<1>6. ASSUME NEW c \in Conns, NEW ch \in Channels, FrameUnsubscribe(c, ch) PROVE TypeOK'
  <2>1. [kind |-> "unsubscribed", channel |-> ch] \in Replies
    BY DEF Replies
  <2> QED
    BY <1>6, <2>1 DEF FrameUnsubscribe, Reads, TypeOK, serve
<1>7. ASSUME NEW c \in Conns, FrameRejected(c) PROVE TypeOK'
  <2>1. [kind |-> "error"] \in Replies
    BY DEF Replies
  <2> QED
    BY <1>7, <2>1 DEF FrameRejected, Reads, TypeOK, serve
<1>8. ASSUME NEW c \in Conns, Reply(c) PROVE TypeOK'
  <2>1. NoReply \in Replies
    BY DEF Replies
  <2>2. heard' \in [Conns -> [Channels -> Answers]]
    BY <1>8, ReplyShape DEF Reply, TypeOK, Answers
  <2> QED
    BY <1>8, <2>1, <2>2 DEF Reply, TypeOK, serve
<1>9. ASSUME NEW c \in Conns, ReadFails(c) PROVE TypeOK'
  <2>1. NoReply \in Replies
    BY DEF Replies
  <2> QED
    BY <1>9, <2>1 DEF ReadFails, TypeOK, Stages, peer
<1>10. ASSUME NEW c \in Conns, WriterTakes(c) PROVE TypeOK'
  <2>1. Head(queue[c]) \in Events /\ Tail(queue[c]) \in Seq(Events)
    BY <1>10, HeadTailProperties DEF WriterTakes, EventWaits, TypeOK
  <2>2. <<Head(queue[c])>> \in Seq(Events)
    BY <2>1
  <2> QED
    BY <1>10, <2>1, <2>2 DEF WriterTakes, TypeOK, serve, peer
<1>11. ASSUME NEW c \in Conns, WriterWrites(c) PROVE TypeOK'
  <2>1. got[c] \o hand[c] \in Seq(Events) /\ << >> \in Seq(Events)
    BY ConcatProperties DEF TypeOK
  <2> QED
    BY <1>11, <2>1 DEF WriterWrites, TypeOK, serve
<1>12. ASSUME NEW c \in Conns, WriterFails(c) PROVE TypeOK'
  BY <1>12 DEF WriterFails, TypeOK, serve
<1>13. ASSUME NEW c \in Conns, WriterStops(c) PROVE TypeOK'
  BY <1>13 DEF WriterStops, TypeOK, serve, peer
<1>14. ASSUME NEW c \in Conns, Remove(c) PROVE TypeOK'
  BY <1>14 DEF Remove, TypeOK, Stages, peer
<1>15. ASSUME NEW c \in Conns, Release(c) PROVE TypeOK'
  BY <1>15 DEF Release, TypeOK, Stages, peer
<1>16. ASSUME NEW c \in Conns, Break(c) PROVE TypeOK'
  BY <1>16 DEF Break, TypeOK, serve
<1>17. ASSUME NEW s \in Sites, NEW ch \in Channels, HandlerPublish(s, ch) PROVE TypeOK'
  <2>1. queue' \in [Conns -> Seq(Events)] /\ due' \in [Conns -> Seq(Events)] /\ clock' \in Nat
    BY <1>17, PublishTypes DEF HandlerPublish
  <2> QED
    BY <1>17, <2>1 DEF HandlerPublish, TypeOK, serve, peer
<1>18. CASE UNCHANGED vars
  BY <1>18 DEF vars, serve, peer, TypeOK
<1> QED
  BY <1>1, <1>2, <1>3, <1>4, <1>5, <1>6, <1>7, <1>8, <1>9, <1>10, <1>11, <1>12, <1>13, <1>14,
     <1>15, <1>16, <1>17, <1>18 DEF Next, Frame, ServeStep

\* Every variable of the hub stays in its type.
THEOREM TypeCorrect == Spec => []TypeOK
  BY InitTypes, TypeStep, PTL DEF Spec

(***************************************************************************)
(* Seats.  A request moves in or out of the holders of its site in the     *)
(* step that counts it, and nowhere else.                                  *)
(***************************************************************************)
LEMMA HoldersFinite == ASSUME NEW s \in Sites PROVE IsFiniteSet(Holders(s))
  BY ConnsAssumption, FS_Subset DEF Holders

SeatsKept == UNCHANGED seats /\ \A c \in Conns : stage'[c] \in Seated <=> stage[c] \in Seated

LEMMA KeptSeats ==
    ASSUME SeatsExact, SeatsKept
    PROVE  SeatsExact'
<1>1. \A s \in Sites : Holders(s)' = Holders(s)
  BY DEF Holders, SeatsKept
<1> QED
  BY <1>1 DEF SeatsExact, SeatsKept

LEMMA ReserveSeats ==
    ASSUME TypeOK, SeatsExact, NEW c \in Conns, Reserve(c)
    PROVE  SeatsExact'
<1>1. CASE seats[SiteOf[c]] >= MaxPerSite
  <2>1. SeatsKept
    BY <1>1 DEF Reserve, SeatsKept, Seated, TypeOK
  <2> QED
    BY <2>1, KeptSeats
<1>2. CASE ~(seats[SiteOf[c]] >= MaxPerSite)
  <2> SUFFICES ASSUME NEW s \in Sites
               PROVE  seats'[s] = Cardinality(Holders(s)') /\ seats'[s] <= MaxPerSite
    BY DEF SeatsExact
  <2>1. CASE s = SiteOf[c]
    <3>1. Holders(s)' = Holders(s) \cup {c} /\ c \notin Holders(s)
      BY <1>2, <2>1 DEF Reserve, Holders, Seated, TypeOK
    <3>2. Cardinality(Holders(s)') = Cardinality(Holders(s)) + 1
      BY <3>1, HoldersFinite, FS_AddElement
    <3>3. seats'[s] = seats[s] + 1 /\ seats[s] \in Nat
      BY <1>2, <2>1 DEF Reserve, TypeOK
    <3> QED
      BY <1>2, <2>1, <3>2, <3>3, LimitAssumption DEF SeatsExact
  <2>2. CASE s # SiteOf[c]
    <3>1. Holders(s)' = Holders(s)
      BY <1>2, <2>2 DEF Reserve, Holders, Seated, TypeOK
    <3>2. seats'[s] = seats[s]
      BY <1>2, <2>2 DEF Reserve, TypeOK
    <3> QED
      BY <3>1, <3>2 DEF SeatsExact
  <2> QED
    BY <2>1, <2>2
<1> QED
  BY <1>1, <1>2

LEMMA ReleaseSeats ==
    ASSUME TypeOK, SeatsExact, NEW c \in Conns, Release(c)
    PROVE  SeatsExact'
<1> SUFFICES ASSUME NEW s \in Sites
             PROVE  seats'[s] = Cardinality(Holders(s)') /\ seats'[s] <= MaxPerSite
  BY DEF SeatsExact
<1>1. CASE s = SiteOf[c]
  <2>1. Holders(s)' = Holders(s) \ {c} /\ c \in Holders(s)
    BY <1>1 DEF Release, Holders, Seated, TypeOK
  <2>2. Cardinality(Holders(s)') = Cardinality(Holders(s)) - 1
    BY <2>1, HoldersFinite, FS_RemoveElement
  <2>3. Cardinality(Holders(s)) # 0
    BY <2>1, HoldersFinite, FS_EmptySet
  <2>4. seats'[s] = (IF seats[s] > 0 THEN seats[s] - 1 ELSE seats[s]) /\ seats[s] \in Nat
    BY <1>1 DEF Release, TypeOK
  <2> QED
    BY <2>2, <2>3, <2>4, LimitAssumption DEF SeatsExact
<1>2. CASE s # SiteOf[c]
  <2>1. Holders(s)' = Holders(s)
    BY <1>2 DEF Release, Holders, Seated, TypeOK
  <2>2. seats'[s] = seats[s]
    BY <1>2 DEF Release, TypeOK
  <2> QED
    BY <2>1, <2>2 DEF SeatsExact
<1> QED
  BY <1>1, <1>2

LEMMA SeatsStep == TypeOK /\ SeatsExact /\ [Next]_vars => SeatsExact'
<1> SUFFICES ASSUME TypeOK, SeatsExact, [Next]_vars PROVE SeatsExact'
  OBVIOUS
<1>1. CASE \E c \in Conns : Reserve(c)
  BY <1>1, ReserveSeats
<1>2. CASE \E c \in Conns : Release(c)
  BY <1>2, ReleaseSeats
<1>3. CASE ~(\E c \in Conns : Reserve(c) \/ Release(c))
  <2>1. ASSUME NEW c \in Conns, Accept(c) \/ AcceptFails(c) \/ ReadFails(c) \/ Remove(c)
        PROVE  SeatsKept
    BY <2>1 DEF SeatsKept, Seated, TypeOK, Accept, AcceptFails, ReadFails, Remove,
                ReadEnds, WriterEnded
  <2>2. ASSUME NEW c \in Conns,
               \/ Frame(c) \/ Reply(c) \/ WriterWrites(c) \/ WriterTakes(c)
               \/ WriterFails(c) \/ WriterStops(c) \/ Break(c)
        PROVE  UNCHANGED serve
    BY <2>2 DEF Frame, FramePublish, FrameSubscribe, FrameUnsubscribe, FrameRejected, Reply,
                WriterWrites, WriterTakes, WriterFails, WriterStops, Break
  <2>3. ASSUME NEW s \in Sites, NEW ch \in Channels, HandlerPublish(s, ch)
        PROVE  UNCHANGED serve
    BY <2>3 DEF HandlerPublish
  <2>4. UNCHANGED vars => UNCHANGED serve
    BY DEF vars
  <2>5. UNCHANGED serve => SeatsKept
    BY DEF serve, SeatsKept
  <2> QED
    BY <1>3, <2>1, <2>2, <2>3, <2>4, <2>5, KeptSeats DEF Next, ServeStep
<1> QED
  BY <1>1, <1>2, <1>3

LEMMA InitSeats == Init => SeatsExact
<1> SUFFICES ASSUME Init, NEW s \in Sites
             PROVE  seats[s] = Cardinality(Holders(s)) /\ seats[s] <= MaxPerSite
  BY DEF SeatsExact
<1>1. Holders(s) = {}
  BY DEF Init, Holders, Seated
<1> QED
  BY <1>1, FS_EmptySet, LimitAssumption DEF Init

\* The per-site limit holds for any number of requests: siteCounts is exactly the number of
\* requests inside Serve.
THEOREM SeatLimit == Spec => []SeatsExact
<1>1. Init => TypeOK /\ SeatsExact
  BY InitTypes, InitSeats
<1>2. TypeOK /\ SeatsExact /\ [Next]_vars => (TypeOK /\ SeatsExact)'
  BY TypeStep, SeatsStep
<1> QED
  BY <1>1, <1>2, PTL DEF Spec

(***************************************************************************)
(* The list of clients: add and remove bracket the time a client may be    *)
(* sent to, and lie within the time its request has a seat.                *)
(***************************************************************************)
ListedExactly == \A c \in Conns : c \in clients <=> stage[c] \in {"open", "closing"}

ClosedLate == \A c \in closed : stage[c] \in {"removed", "gone"}

LEMMA ListStep == TypeOK /\ ListedExactly /\ ClosedLate /\ [Next]_vars => (ListedExactly /\ ClosedLate)'
<1> SUFFICES ASSUME TypeOK, ListedExactly, ClosedLate, [Next]_vars
             PROVE  ListedExactly' /\ ClosedLate'
  OBVIOUS
<1> USE DEF ListedExactly, ClosedLate, TypeOK
<1>1. ASSUME NEW c \in Conns, Reserve(c) PROVE ListedExactly' /\ ClosedLate'
  <2>1. /\ stage[c] = "new" /\ stage'[c] \in {"refused", "reserved"}
        /\ \A d \in Conns \ {c} : stage'[d] = stage[d]
        /\ UNCHANGED <<clients, closed>>
    BY <1>1 DEF Reserve
  <2> QED
    BY <2>1
<1>2. ASSUME NEW c \in Conns, Accept(c) \/ AcceptFails(c) PROVE ListedExactly' /\ ClosedLate'
  BY <1>2 DEF Accept, AcceptFails
<1>3. ASSUME NEW c \in Conns, ReadFails(c) PROVE ListedExactly' /\ ClosedLate'
  BY <1>3 DEF ReadFails, ReadEnds
<1>4. ASSUME NEW c \in Conns, Remove(c) \/ Release(c) PROVE ListedExactly' /\ ClosedLate'
  BY <1>4 DEF Remove, Release
<1>5. ASSUME NEW c \in Conns,
             \/ Frame(c) \/ Reply(c) \/ WriterWrites(c) \/ WriterTakes(c)
             \/ WriterFails(c) \/ WriterStops(c) \/ Break(c)
      PROVE  UNCHANGED <<serve, closed>>
  BY <1>5 DEF Frame, FramePublish, FrameSubscribe, FrameUnsubscribe, FrameRejected, Reply,
              WriterWrites, WriterTakes, WriterFails, WriterStops, Break
<1>6. ASSUME NEW s \in Sites, NEW ch \in Channels, HandlerPublish(s, ch)
      PROVE  UNCHANGED <<serve, closed>>
  BY <1>6 DEF HandlerPublish
<1>7. UNCHANGED vars => UNCHANGED <<serve, closed>>
  BY DEF vars
<1>8. UNCHANGED <<serve, closed>> => ListedExactly' /\ ClosedLate'
  BY DEF serve
<1> QED
  BY <1>1, <1>2, <1>3, <1>4, <1>5, <1>6, <1>7, <1>8 DEF Next, ServeStep

LEMMA ListHolds == Spec => [](TypeOK /\ ListedExactly /\ ClosedLate)
<1>1. Init => ListedExactly /\ ClosedLate
  BY DEF Init, ListedExactly, ClosedLate
<1> QED
  BY <1>1, InitTypes, TypeStep, ListStep, PTL DEF Spec

\* PublishRaw never sends on a closed queue, which would end quickd: a listed client is open
\* and still has its seat.
THEOREM NoSendOnClosedQueue == Spec => []ListedIsOpen
<1>1. TypeOK /\ ListedExactly /\ ClosedLate => ListedIsOpen
  BY DEF TypeOK, ListedExactly, ClosedLate, ListedIsOpen, Seated
<1> QED
  BY <1>1, ListHolds, PTL

(***************************************************************************)
(* Order of delivery: queue and writer together are one FIFO.              *)
(***************************************************************************)
NotStarted == \A c \in Conns : stage[c] \in {"new", "reserved"} => writer[c] = "none"

HandEmpty == \A c \in Conns : writer[c] \in {"none", "waiting"} => hand[c] = <<>>

LEMMA Associative ==
    \A a, b, c \in Seq(Events) : (a \o b) \o c = a \o (b \o c)
  BY ConcatAssociative

LEMMA PushOrder ==
    ASSUME TypeOK, DeliveredInOrder, NEW s \in Sites, NEW ch \in Channels, PublishRaw(s, ch),
           UNCHANGED <<got, hand>>
    PROVE  DeliveredInOrder'
<1> DEFINE e == [n |-> clock + 1, site |-> s, channel |-> ch]
<1> SUFFICES ASSUME NEW c \in Conns
             PROVE  got[c] \o hand[c] \o queue'[c] = due'[c]
  BY DEF DeliveredInOrder
<1>1. e \in Events
  BY DEF TypeOK, Events
<1>2. /\ got[c] \in Seq(Events) /\ hand[c] \in Seq(Events) /\ queue[c] \in Seq(Events)
      /\ due[c] \in Seq(Events) /\ got[c] \o hand[c] \in Seq(Events)
  BY ConcatProperties DEF TypeOK
<1>3. CASE queue'[c] = Append(queue[c], e) /\ due'[c] = Append(due[c], e)
  <2>1. queue'[c] = queue[c] \o <<e>> /\ due'[c] = due[c] \o <<e>> /\ <<e>> \in Seq(Events)
    BY <1>1, <1>2, <1>3, AppendIsConcat
  <2>2. (got[c] \o hand[c]) \o (queue[c] \o <<e>>) = ((got[c] \o hand[c]) \o queue[c]) \o <<e>>
    BY <1>2, <2>1, Associative
  <2> QED
    BY <2>1, <2>2 DEF DeliveredInOrder
<1>4. CASE queue'[c] = queue[c] /\ due'[c] = due[c]
  BY <1>4 DEF DeliveredInOrder
<1> QED
  BY <1>3, <1>4 DEF PublishRaw, TypeOK

LEMMA NotStartedStep == TypeOK /\ NotStarted /\ [Next]_vars => NotStarted'
<1> SUFFICES ASSUME TypeOK, NotStarted, [Next]_vars PROVE NotStarted'
  OBVIOUS
<1> USE DEF NotStarted, TypeOK, serve
<1>1. ASSUME NEW c \in Conns, Reserve(c) PROVE NotStarted'
  <2>1. /\ stage[c] = "new" /\ UNCHANGED writer
        /\ \A d \in Conns \ {c} : stage'[d] = stage[d]
    BY <1>1 DEF Reserve
  <2> QED
    BY <2>1
<1>2. ASSUME NEW c \in Conns,
             Accept(c) \/ AcceptFails(c) \/ ReadFails(c) \/ Remove(c) \/ Release(c)
      PROVE  NotStarted'
  BY <1>2 DEF Accept, AcceptFails, ReadFails, Remove, Release
<1>3. ASSUME NEW c \in Conns,
             WriterTakes(c) \/ WriterWrites(c) \/ WriterFails(c) \/ WriterStops(c)
      PROVE  NotStarted'
  BY <1>3 DEF WriterTakes, WriterWrites, WriterFails, WriterStops,
              EventWaits, WriteEnds, Cancelled
<1>4. ASSUME NEW c \in Conns, Frame(c) \/ Reply(c) \/ Break(c) PROVE NotStarted'
  BY <1>4 DEF Frame, FramePublish, FrameSubscribe, FrameUnsubscribe, FrameRejected, Reply, Break
<1>5. ASSUME NEW s \in Sites, NEW ch \in Channels, HandlerPublish(s, ch) PROVE NotStarted'
  BY <1>5 DEF HandlerPublish
<1>6. CASE UNCHANGED vars
  BY <1>6 DEF vars
<1> QED
  BY <1>1, <1>2, <1>3, <1>4, <1>5, <1>6 DEF Next, ServeStep

LEMMA OrderStep ==
    TypeOK /\ NotStarted /\ HandEmpty /\ DeliveredInOrder /\ [Next]_vars
        => (HandEmpty /\ DeliveredInOrder)'
<1> SUFFICES ASSUME TypeOK, NotStarted, HandEmpty, DeliveredInOrder, [Next]_vars
             PROVE  HandEmpty' /\ DeliveredInOrder'
  OBVIOUS
<1>1. ASSUME NEW c \in Conns, WriterTakes(c) PROVE HandEmpty' /\ DeliveredInOrder'
  <2>1. /\ hand[c] = <<>> /\ hand'[c] = <<Head(queue[c])>> /\ queue'[c] = Tail(queue[c])
        /\ queue[c] # <<>> /\ writer'[c] = "writing"
        /\ \A d \in Conns \ {c} : hand'[d] = hand[d] /\ queue'[d] = queue[d] /\ writer'[d] = writer[d]
        /\ UNCHANGED <<got, due>>
    BY <1>1 DEF WriterTakes, EventWaits, HandEmpty, TypeOK, peer
  <2>2. got[c] \in Seq(Events) /\ queue[c] \in Seq(Events)
    BY DEF TypeOK
  <2>3. Head(queue[c]) \in Events /\ Tail(queue[c]) \in Seq(Events)
    BY <2>1, <2>2, HeadTailProperties
  <2>4. <<Head(queue[c])>> \o Tail(queue[c]) = queue[c]
    BY <2>1, <2>2, <2>3
  <2>5. (got[c] \o <<Head(queue[c])>>) \o Tail(queue[c]) = got[c] \o queue[c]
    <3>1. <<Head(queue[c])>> \in Seq(Events)
      BY <2>3
    <3>2. (got[c] \o <<Head(queue[c])>>) \o Tail(queue[c])
            = got[c] \o (<<Head(queue[c])>> \o Tail(queue[c]))
      BY <3>1, <2>2, <2>3, Associative
    <3> QED
      BY <3>2, <2>4
  <2>6. got[c] \o <<>> = got[c]
    BY <2>2, ConcatEmptySeq
  <2> QED
    BY <2>1, <2>5, <2>6 DEF HandEmpty, DeliveredInOrder
<1>2. ASSUME NEW c \in Conns, WriterWrites(c) PROVE HandEmpty' /\ DeliveredInOrder'
  <2>1. /\ got'[c] = got[c] \o hand[c] /\ hand'[c] = <<>> /\ writer'[c] = "waiting"
        /\ \A d \in Conns \ {c} : hand'[d] = hand[d] /\ got'[d] = got[d] /\ writer'[d] = writer[d]
        /\ UNCHANGED <<queue, due>>
    BY <1>2 DEF WriterWrites, TypeOK
  <2>2. got[c] \o hand[c] \in Seq(Events)
    BY ConcatProperties DEF TypeOK
  <2>3. (got[c] \o hand[c]) \o <<>> = got[c] \o hand[c]
    BY <2>2, ConcatEmptySeq
  <2> QED
    BY <2>1, <2>3 DEF HandEmpty, DeliveredInOrder
<1>3. ASSUME NEW c \in Conns, Accept(c) \/ WriterFails(c) \/ WriterStops(c)
      PROVE  HandEmpty' /\ DeliveredInOrder'
  <2>1. UNCHANGED <<got, hand, queue, due>>
    BY <1>3 DEF Accept, WriterFails, WriterStops, peer
  <2>2. ASSUME Accept(c) PROVE HandEmpty'
    BY <2>1, <2>2 DEF Accept, HandEmpty, NotStarted, TypeOK
  <2> QED
    BY <1>3, <2>1, <2>2 DEF WriterFails, WriterStops, HandEmpty, DeliveredInOrder, TypeOK
<1>4. ASSUME NEW c \in Conns,
             \/ Reserve(c) \/ AcceptFails(c) \/ ReadFails(c) \/ Remove(c) \/ Release(c)
             \/ \E ch \in Channels : FrameSubscribe(c, ch) \/ FrameUnsubscribe(c, ch)
             \/ FrameRejected(c) \/ Reply(c) \/ Break(c)
      PROVE  UNCHANGED <<got, hand, queue, due, writer>>
  BY <1>4 DEF Reserve, AcceptFails, ReadFails, Remove, Release, FrameSubscribe,
              FrameUnsubscribe, FrameRejected, Reply, Break, peer
<1>5. UNCHANGED <<got, hand, queue, due, writer>> => HandEmpty' /\ DeliveredInOrder'
  BY DEF HandEmpty, DeliveredInOrder
<1>6. ASSUME NEW c \in Conns, NEW ch \in Channels, FramePublish(c, ch)
      PROVE  HandEmpty' /\ DeliveredInOrder'
  <2>1. PublishRaw(SiteOf[c], ch) /\ UNCHANGED <<got, hand, writer>>
    BY <1>6 DEF FramePublish
  <2> QED
    BY <2>1, PushOrder, SiteKnown DEF HandEmpty
<1>7. ASSUME NEW s \in Sites, NEW ch \in Channels, HandlerPublish(s, ch)
      PROVE  HandEmpty' /\ DeliveredInOrder'
  <2>1. PublishRaw(s, ch) /\ UNCHANGED <<got, hand, writer>>
    BY <1>7 DEF HandlerPublish, peer
  <2> QED
    BY <2>1, PushOrder DEF HandEmpty
<1>8. UNCHANGED vars => UNCHANGED <<got, hand, queue, due, writer>>
  BY DEF vars, peer
<1> QED
  BY <1>1, <1>2, <1>3, <1>4, <1>5, <1>6, <1>7, <1>8 DEF Next, Frame, ServeStep

LEMMA OrderHolds == Spec => [](TypeOK /\ NotStarted /\ HandEmpty /\ DeliveredInOrder)
<1>1. Init => TypeOK /\ NotStarted /\ HandEmpty /\ DeliveredInOrder
  <2>1. Init => NotStarted /\ HandEmpty
    BY DEF Init, NotStarted, HandEmpty
  <2>2. <<>> \o <<>> \o <<>> = <<>>
    OBVIOUS
  <2>3. Init => DeliveredInOrder
    BY <2>2 DEF Init, DeliveredInOrder
  <2> QED
    BY <2>1, <2>3, InitTypes
<1>2. TypeOK /\ NotStarted /\ HandEmpty /\ DeliveredInOrder /\ [Next]_vars
        => (TypeOK /\ NotStarted /\ HandEmpty /\ DeliveredInOrder)'
  BY TypeStep, NotStartedStep, OrderStep
<1> QED
  BY <1>1, <1>2, PTL DEF Spec

\* Queue and writer are one FIFO: a peer receives what was queued for it in order, without
\* gaps or repetitions.
THEOREM Fifo == Spec => []DeliveredInOrder
  BY OrderHolds, PTL

(***************************************************************************)
(* What an answered subscription buys.  An answer is written after the     *)
(* subscription changed, and only the reader that writes it changes it.    *)
(***************************************************************************)
AnswerTrue ==
    \A c \in Conns, ch \in Channels :
        /\ reply[c] = [kind |-> "subscribed", channel |-> ch] => ch \in subs[c]
        /\ heard[c][ch] = "subscribed" /\ c \notin broken =>
              ch \in subs[c] \/ reply[c] = [kind |-> "unsubscribed", channel |-> ch]

LEMMA AnswerStep == TypeOK /\ AnswerTrue /\ [Next]_vars => AnswerTrue'
<1> SUFFICES ASSUME TypeOK, AnswerTrue, [Next]_vars PROVE AnswerTrue'
  OBVIOUS
<1>1. ASSUME NEW c \in Conns, NEW ch \in Channels, FrameSubscribe(c, ch) PROVE AnswerTrue'
  <2>1. /\ reply[c] = NoReply /\ reply'[c] = [kind |-> "subscribed", channel |-> ch]
        /\ subs'[c] = subs[c] \cup {ch}
        /\ \A d \in Conns \ {c} : reply'[d] = reply[d] /\ subs'[d] = subs[d]
        /\ UNCHANGED <<heard, broken>>
    BY <1>1 DEF FrameSubscribe, Reads, TypeOK
  <2>2. \A x \in Channels : NoReply # [kind |-> "unsubscribed", channel |-> x]
    BY DEF NoReply
  <2>3. \A d \in Conns : subs[d] \subseteq subs'[d]
    BY <2>1
  <2>4. \A d \in Conns, x \in Channels :
          reply'[d] = [kind |-> "subscribed", channel |-> x] => x \in subs'[d]
    <3> SUFFICES ASSUME NEW d \in Conns, NEW x \in Channels,
                        reply'[d] = [kind |-> "subscribed", channel |-> x]
                 PROVE  x \in subs'[d]
      OBVIOUS
    <3>1. CASE d = c
      <4>1. x = ch
        BY <2>1, <3>1
      <4> QED
        BY <2>1, <3>1, <4>1
    <3>2. CASE d # c
      BY <2>1, <3>2 DEF AnswerTrue
    <3> QED
      BY <3>1, <3>2
  <2>5. \A d \in Conns, x \in Channels :
          heard'[d][x] = "subscribed" /\ d \notin broken' =>
             x \in subs'[d] \/ reply'[d] = [kind |-> "unsubscribed", channel |-> x]
    <3> SUFFICES ASSUME NEW d \in Conns, NEW x \in Channels,
                        heard[d][x] = "subscribed", d \notin broken
                 PROVE  x \in subs'[d] \/ reply'[d] = [kind |-> "unsubscribed", channel |-> x]
      BY <2>1
    <3>1. x \in subs[d] \/ reply[d] = [kind |-> "unsubscribed", channel |-> x]
      BY DEF AnswerTrue
    <3> QED
      BY <2>1, <2>2, <2>3, <3>1
  <2> QED
    BY <2>4, <2>5 DEF AnswerTrue
<1>2. ASSUME NEW c \in Conns, NEW ch \in Channels, FrameUnsubscribe(c, ch) PROVE AnswerTrue'
  <2>1. /\ reply[c] = NoReply /\ reply'[c] = [kind |-> "unsubscribed", channel |-> ch]
        /\ subs'[c] = subs[c] \ {ch}
        /\ \A d \in Conns \ {c} : reply'[d] = reply[d] /\ subs'[d] = subs[d]
        /\ UNCHANGED <<heard, broken>>
    BY <1>2 DEF FrameUnsubscribe, Reads, TypeOK
  <2>2. \A x \in Channels : NoReply # [kind |-> "unsubscribed", channel |-> x]
    BY DEF NoReply
  <2>3. \A x \in Channels : reply'[c] # [kind |-> "subscribed", channel |-> x]
    BY <2>1
  <2> QED
    BY <2>1, <2>2, <2>3 DEF AnswerTrue
<1>3. ASSUME NEW c \in Conns, FrameRejected(c) PROVE AnswerTrue'
  <2>1. /\ reply[c] = NoReply /\ reply'[c] = [kind |-> "error"]
        /\ \A d \in Conns \ {c} : reply'[d] = reply[d]
        /\ UNCHANGED <<heard, broken, subs>>
    BY <1>3 DEF FrameRejected, Reads, TypeOK
  <2>2. \A x \in Channels : NoReply # [kind |-> "unsubscribed", channel |-> x]
    BY DEF NoReply
  <2>3. \A x \in Channels : reply'[c] # [kind |-> "subscribed", channel |-> x]
    BY <2>1
  <2> QED
    BY <2>1, <2>2, <2>3 DEF AnswerTrue
<1>4. ASSUME NEW c \in Conns, Reply(c) PROVE AnswerTrue'
  <2>1. /\ reply'[c] = NoReply
        /\ \A d \in Conns \ {c} : reply'[d] = reply[d] /\ heard'[d] = heard[d]
        /\ UNCHANGED <<broken, subs>>
    BY <1>4 DEF Reply, TypeOK
  <2>2. \A x \in Channels : NoReply # [kind |-> "subscribed", channel |-> x]
    BY DEF NoReply
  <2>3. ASSUME NEW x \in Channels, heard'[c][x] = "subscribed", c \notin broken
        PROVE  x \in subs[c]
    <3>1. CASE reply[c].kind = "error"
      <4>1. heard' = heard
        BY <1>4, <3>1 DEF Reply
      <4>2. reply[c] # [kind |-> "unsubscribed", channel |-> x]
        BY <3>1
      <4> QED
        BY <2>3, <4>1, <4>2 DEF AnswerTrue
    <3>2. CASE reply[c].kind # "error"
      <4>1. /\ reply[c].kind \in {"subscribed", "unsubscribed"} /\ reply[c].channel \in Channels
            /\ reply[c] = [kind |-> reply[c].kind, channel |-> reply[c].channel]
        BY <1>4, <3>2 DEF Reply, TypeOK, Replies
      <4>2. heard'[c][x] = IF x = reply[c].channel THEN reply[c].kind ELSE heard[c][x]
        BY <1>4, <3>2, <4>1 DEF Reply, TypeOK
      <4>3. CASE x = reply[c].channel
        BY <2>3, <4>1, <4>2, <4>3 DEF AnswerTrue
      <4>4. CASE x # reply[c].channel
        <5>1. reply[c] # [kind |-> "unsubscribed", channel |-> x]
          BY <4>4
        <5> QED
          BY <2>3, <4>2, <4>4, <5>1 DEF AnswerTrue
      <4> QED
        BY <4>3, <4>4
    <3> QED
      BY <3>1, <3>2
  <2> QED
    BY <2>1, <2>2, <2>3 DEF AnswerTrue
<1>5. ASSUME NEW c \in Conns, ReadFails(c) PROVE AnswerTrue'
  <2>1. /\ reply'[c] = NoReply /\ c \in broken
        /\ \A d \in Conns \ {c} : reply'[d] = reply[d]
        /\ UNCHANGED <<heard, broken, subs>>
    BY <1>5 DEF ReadFails, ReadEnds, TypeOK, peer
  <2>2. \A x \in Channels : NoReply # [kind |-> "subscribed", channel |-> x]
    BY DEF NoReply
  <2> QED
    BY <2>1, <2>2 DEF AnswerTrue
<1>6. ASSUME NEW c \in Conns,
             \/ Reserve(c) \/ Accept(c) \/ AcceptFails(c) \/ Remove(c) \/ Release(c)
             \/ WriterTakes(c) \/ WriterWrites(c) \/ WriterFails(c) \/ WriterStops(c)
             \/ Break(c) \/ \E ch \in Channels : FramePublish(c, ch)
      PROVE  UNCHANGED <<heard, subs, reply>> /\ broken \subseteq broken'
  BY <1>6 DEF Reserve, Accept, AcceptFails, Remove, Release, WriterTakes, WriterWrites,
              WriterFails, WriterStops, Break, FramePublish, peer
<1>7. ASSUME NEW s \in Sites, NEW ch \in Channels, HandlerPublish(s, ch)
      PROVE  UNCHANGED <<heard, subs, reply>> /\ broken \subseteq broken'
  BY <1>7 DEF HandlerPublish, peer
<1>8. UNCHANGED vars => UNCHANGED <<heard, subs, reply>> /\ broken \subseteq broken'
  BY DEF vars, peer
<1>9. UNCHANGED <<heard, subs, reply>> /\ broken \subseteq broken' => AnswerTrue'
  BY DEF AnswerTrue
<1> QED
  BY <1>1, <1>2, <1>3, <1>4, <1>5, <1>6, <1>7, <1>8, <1>9 DEF Next, Frame, ServeStep

\* A peer that was told "subscribed" gets every later event of the channel queued, as long
\* as its queue has room and it has not asked to unsubscribe.
THEOREM SubscribersMissNothing == Spec => NothingMissed
<1> DEFINE Missed(c, s, ch) ==
             /\ PublishRaw(s, ch)
             /\ SiteOf[c] = s /\ stage[c] = "open" /\ c \notin broken
             /\ heard[c][ch] = "subscribed"
             /\ reply[c] # [kind |-> "unsubscribed", channel |-> ch]
             /\ Len(queue[c]) < Queue
             /\ Len(due'[c]) # Len(due[c]) + 1
<1>1. ASSUME TypeOK, ListedExactly, AnswerTrue,
             NEW c \in Conns, NEW s \in Sites, NEW ch \in Channels, Missed(c, s, ch)
      PROVE  FALSE
  <2>1. c \in Audience(s, ch) /\ HasRoom(c)
    BY <1>1 DEF Audience, HasRoom, ListedExactly, AnswerTrue
  <2>2. PICK e \in Events : due'[c] = Append(due[c], e)
    <3>1. [n |-> clock + 1, site |-> s, channel |-> ch] \in Events
      BY <1>1 DEF TypeOK, Events
    <3> QED
      BY <1>1, <2>1, <3>1 DEF PublishRaw
  <2>3. Len(due'[c]) = Len(due[c]) + 1
    BY <1>1, <2>2, AppendProperties DEF TypeOK
  <2> QED
    BY <1>1, <2>3
<1>2. Init => AnswerTrue
  BY DEF Init, AnswerTrue, NoReply
<1>3. TypeOK /\ ListedExactly /\ AnswerTrue /\ [Next]_vars =>
        [\A c \in Conns, s \in Sites, ch \in Channels : ~Missed(c, s, ch)]_vars
  BY <1>1
<1>4. [\A c \in Conns, s \in Sites, ch \in Channels : ~Missed(c, s, ch)]_vars <=>
      [\A c \in Conns, s \in Sites, ch \in Channels :
         /\ PublishRaw(s, ch)
         /\ SiteOf[c] = s /\ stage[c] = "open" /\ c \notin broken
         /\ heard[c][ch] = "subscribed"
         /\ reply[c] # [kind |-> "unsubscribed", channel |-> ch]
         /\ Len(queue[c]) < Queue
         => Len(due'[c]) = Len(due[c]) + 1]_vars
  OBVIOUS
<1> QED
  BY <1>2, <1>3, <1>4, ListHolds, AnswerStep, PTL DEF Spec, NothingMissed

(***************************************************************************)
(* Leaving.  The reader of a broken connection waits for its writer, which *)
(* was started before anything could break and only ever ends.             *)
(***************************************************************************)
WriterStarted ==
    \A c \in Conns :
        /\ stage[c] \in {"open", "closing"} => writer[c] # "none"
        /\ c \in broken => stage[c] \in {"open", "closing", "removed", "gone"}

LEMMA WriterStartedStep == TypeOK /\ WriterStarted /\ [Next]_vars => WriterStarted'
<1> SUFFICES ASSUME TypeOK, WriterStarted, [Next]_vars PROVE WriterStarted'
  OBVIOUS
<1> USE DEF WriterStarted, TypeOK
<1>1. ASSUME NEW c \in Conns, Reserve(c) PROVE WriterStarted'
  <2>1. /\ stage[c] = "new" /\ stage'[c] \in {"refused", "reserved"}
        /\ \A d \in Conns \ {c} : stage'[d] = stage[d]
        /\ UNCHANGED <<writer, broken>>
    BY <1>1 DEF Reserve, peer
  <2> QED
    BY <2>1
<1>2. ASSUME NEW c \in Conns, Accept(c) \/ AcceptFails(c) PROVE WriterStarted'
  BY <1>2 DEF Accept, AcceptFails, peer
<1>3. ASSUME NEW c \in Conns, ReadFails(c) \/ Remove(c) \/ Release(c) PROVE WriterStarted'
  BY <1>3 DEF ReadFails, Remove, Release, ReadEnds, WriterEnded, peer
<1>4. ASSUME NEW c \in Conns,
             WriterTakes(c) \/ WriterWrites(c) \/ WriterFails(c) \/ WriterStops(c) \/ Break(c)
      PROVE  WriterStarted'
  BY <1>4 DEF WriterTakes, WriterWrites, WriterFails, WriterStops, Break, WriteEnds, serve, peer
<1>5. ASSUME NEW c \in Conns, Frame(c) \/ Reply(c) PROVE UNCHANGED <<stage, writer, broken>>
  BY <1>5 DEF Frame, FramePublish, FrameSubscribe, FrameUnsubscribe, FrameRejected, Reads, Reply,
              serve
<1>6. ASSUME NEW s \in Sites, NEW ch \in Channels, HandlerPublish(s, ch)
      PROVE  UNCHANGED <<stage, writer, broken>>
  BY <1>6 DEF HandlerPublish, serve, peer
<1>7. UNCHANGED vars => UNCHANGED <<stage, writer, broken>>
  BY DEF vars, serve, peer
<1>8. UNCHANGED <<stage, writer, broken>> => WriterStarted'
  OBVIOUS
<1> QED
  BY <1>1, <1>2, <1>3, <1>4, <1>5, <1>6, <1>7, <1>8 DEF Next, ServeStep

LEMMA WriterStartedHolds == Spec => [](TypeOK /\ WriterStarted)
<1>1. Init => WriterStarted
  BY DEF Init, WriterStarted
<1> QED
  BY <1>1, InitTypes, TypeStep, WriterStartedStep, PTL DEF Spec

\* The goroutines of a broken connection never wait for each other: until its request has
\* left, one of them has something to do.
THEOREM NobodyStuck == Spec => []NeverStuck
<1>1. TypeOK /\ WriterStarted => NeverStuck
  BY DEF TypeOK, WriterStarted, NeverStuck, Seated, ReadEnds, WriteEnds, Cancelled, WriterEnded
<1> QED
  BY <1>1, WriterStartedHolds, PTL

\* What a step leaves alone is as far from leaving as before.
LEMMA SameStepsLeft ==
    ASSUME NEW c \in Conns, stage'[c] = stage[c], writer'[c] = writer[c]
    PROVE  StepsLeft(c)' = StepsLeft(c)
  BY DEF StepsLeft

LEMMA ServeStepCounts ==
    ASSUME TypeOK, NEW c \in Conns, ServeStep(c)
    PROVE  StepsLeft(c)' < StepsLeft(c)
<1> USE DEF TypeOK, StepsLeft
<1>1. CASE WriterTakes(c)
  <2>1. writer[c] = "waiting" /\ writer'[c] = "writing" /\ stage' = stage
    BY <1>1 DEF WriterTakes, EventWaits, serve
  <2> QED
    BY <2>1
<1>2. CASE WriterFails(c) \/ WriterStops(c)
  <2>1. writer[c] \in {"waiting", "writing"} /\ writer'[c] = "done" /\ stage' = stage
    BY <1>2 DEF WriterFails, WriterStops, WriteEnds, Cancelled, serve
  <2> QED
    BY <2>1
<1>3. CASE ReadFails(c)
  <2>1. stage[c] = "open" /\ stage'[c] = "closing" /\ writer' = writer
    BY <1>3 DEF ReadFails, ReadEnds
  <2> QED
    BY <2>1
<1>4. CASE Remove(c)
  <2>1. stage[c] = "closing" /\ stage'[c] = "removed" /\ writer' = writer
    BY <1>4 DEF Remove, WriterEnded
  <2> QED
    BY <2>1
<1>5. CASE Release(c)
  <2>1. stage[c] = "removed" /\ stage'[c] = "gone" /\ writer' = writer
    BY <1>5 DEF Release
  <2> QED
    BY <2>1
<1> QED
  BY <1>1, <1>2, <1>3, <1>4, <1>5 DEF ServeStep

LEMMA NothingPutsOff ==
    ASSUME TypeOK, WriterStarted, [Next]_vars, NEW c \in broken
    PROVE  StepsLeft(c)' <= StepsLeft(c)
<1>0. c \in Conns /\ StepsLeft(c) \in Nat
  BY DEF TypeOK, StepsLeft
<1>1. CASE ServeStep(c)
  <2>1. StepsLeft(c)' \in Nat
    BY <1>0, TypeStep DEF TypeOK, StepsLeft
  <2> QED
    BY <1>0, <1>1, <2>1, ServeStepCounts
<1>2. CASE stage'[c] = stage[c] /\ writer'[c] = writer[c]
  BY <1>0, <1>2, SameStepsLeft
<1>3. ASSUME NEW d \in Conns, d # c, ServeStep(d) PROVE stage'[c] = stage[c] /\ writer'[c] = writer[c]
  BY <1>0, <1>3 DEF TypeOK, ServeStep, WriterTakes, WriterFails, WriterStops, ReadFails, Remove,
                    Release, serve
<1>4. ASSUME NEW d \in Conns, Reserve(d) \/ Accept(d) \/ AcceptFails(d) \/ WriterWrites(d)
      PROVE  stage'[c] = stage[c] /\ writer'[c] = writer[c]
  <2>1. d # c
    BY <1>4 DEF WriterStarted, Reserve, Accept, AcceptFails, WriterWrites
  <2>2. CASE Reserve(d)
    BY <1>0, <2>1, <2>2 DEF TypeOK, Reserve
  <2>3. CASE Accept(d) \/ AcceptFails(d) \/ WriterWrites(d)
    BY <1>0, <2>1, <2>3 DEF TypeOK, Accept, AcceptFails, WriterWrites, serve
  <2> QED
    BY <1>4, <2>2, <2>3
<1>5. ASSUME NEW d \in Conns, Frame(d) \/ Reply(d) \/ Break(d) PROVE UNCHANGED <<stage, writer>>
  BY <1>5 DEF Frame, FramePublish, FrameSubscribe, FrameUnsubscribe, FrameRejected, Reply, Break,
              serve
<1>6. ASSUME NEW s \in Sites, NEW ch \in Channels, HandlerPublish(s, ch)
      PROVE  UNCHANGED <<stage, writer>>
  BY <1>6 DEF HandlerPublish, serve
<1>7. UNCHANGED vars => UNCHANGED <<stage, writer>>
  BY DEF vars, serve
<1> QED
  BY <1>1, <1>2, <1>3, <1>4, <1>5, <1>6, <1>7 DEF Next

\* A broken connection is at most eight steps of its goroutines away from giving its seat
\* back, and nothing that others do adds one.
THEOREM BrokenLeaveSoon == Spec => LeavesSoon
<1>1. TypeOK /\ WriterStarted /\ [Next]_vars =>
        [\A c \in broken :
           /\ StepsLeft(c)' <= StepsLeft(c)
           /\ ServeStep(c) => StepsLeft(c)' < StepsLeft(c)]_vars
  <2>1. TypeOK => broken \subseteq Conns
    BY DEF TypeOK
  <2> QED
    BY <2>1, NothingPutsOff, ServeStepCounts
<1> QED
  BY <1>1, WriterStartedHolds, PTL DEF Spec, LeavesSoon

(***************************************************************************)
(* What the peers see is the feed of SiteFeed: every step of the hub is a  *)
(* step of the feed, or changes nothing in it.                             *)
(***************************************************************************)
Owed == [c \in Conns |-> hand[c] \o queue[c]]

\* The writer holds exactly one event while it writes.
HandOne == \A c \in Conns : writer[c] = "writing" => \E e \in Events : hand[c] = <<e>>

LEMMA HandOneStep == TypeOK /\ HandOne /\ [Next]_vars => HandOne'
<1> SUFFICES ASSUME TypeOK, HandOne, [Next]_vars PROVE HandOne'
  OBVIOUS
<1> USE DEF TypeOK, HandOne
<1>1. ASSUME NEW c \in Conns, WriterTakes(c) PROVE HandOne'
  <2>1. Head(queue[c]) \in Events
    BY <1>1, HeadTailProperties DEF WriterTakes, EventWaits
  <2>2. /\ hand'[c] = <<Head(queue[c])>>
        /\ \A d \in Conns \ {c} : hand'[d] = hand[d] /\ writer'[d] = writer[d]
    BY <1>1 DEF WriterTakes
  <2> QED
    BY <2>1, <2>2
<1>2. ASSUME NEW c \in Conns,
             WriterWrites(c) \/ WriterFails(c) \/ WriterStops(c) \/ Accept(c)
      PROVE  HandOne'
  BY <1>2 DEF WriterWrites, WriterFails, WriterStops, Accept
<1>3. ASSUME NEW c \in Conns,
             \/ Reserve(c) \/ AcceptFails(c) \/ ReadFails(c) \/ Remove(c) \/ Release(c)
             \/ Frame(c) \/ Reply(c) \/ Break(c)
      PROVE  UNCHANGED <<hand, writer>>
  BY <1>3 DEF Reserve, AcceptFails, ReadFails, Remove, Release, Frame, FramePublish,
              FrameSubscribe, FrameUnsubscribe, FrameRejected, Reply, Break
<1>4. ASSUME NEW s \in Sites, NEW ch \in Channels, HandlerPublish(s, ch)
      PROVE  UNCHANGED <<hand, writer>>
  BY <1>4 DEF HandlerPublish
<1>5. UNCHANGED vars => UNCHANGED <<hand, writer>>
  BY DEF vars
<1>6. UNCHANGED <<hand, writer>> => HandOne'
  OBVIOUS
<1> QED
  BY <1>1, <1>2, <1>3, <1>4, <1>5, <1>6 DEF Next, ServeStep

\* A publication goes to a part of the subscribers of its own site.
LEMMA PublishIsFed ==
    ASSUME TypeOK, NEW s \in Sites, NEW ch \in Channels, PublishRaw(s, ch),
           UNCHANGED <<hand, subs, got>>
    PROVE  Feed!Publish(s, ch)
<1> DEFINE e == [n |-> clock + 1, site |-> s, channel |-> ch]
           reached == {c \in Audience(s, ch) : HasRoom(c)}
<1>1. reached \in SUBSET {c \in Conns : SiteOf[c] = s /\ ch \in subs[c]}
  BY DEF TypeOK, Audience
<1>2. e \in Events
  BY DEF TypeOK, Events
<1>3. queue' = [c \in Conns |-> IF c \in reached THEN Append(queue[c], e) ELSE queue[c]]
  BY DEF PublishRaw
<1>4. ASSUME NEW c \in Conns
      PROVE  hand[c] \o Append(queue[c], e) = Append(hand[c] \o queue[c], e)
  <2>1. hand[c] \in Seq(Events) /\ queue[c] \in Seq(Events) /\ hand[c] \o queue[c] \in Seq(Events)
    BY ConcatProperties DEF TypeOK
  <2> HIDE DEF e
  <2>2. \A q \in Seq(Events) : Append(q, e) = q \o <<e>>
    BY <1>2, AppendIsConcat
  <2>3. <<e>> \in Seq(Events)
    BY <1>2
  <2>4. (hand[c] \o queue[c]) \o <<e>> = hand[c] \o (queue[c] \o <<e>>)
    BY <2>1, <2>3, Associative
  <2> QED
    BY <2>1, <2>2, <2>4
<1>5. Owed' = [c \in Conns |-> IF c \in reached THEN Append(Owed[c], e) ELSE Owed[c]]
  <2> SUFFICES ASSUME NEW c \in Conns
               PROVE  hand[c] \o queue'[c]
                        = IF c \in reached THEN Append(Owed[c], e) ELSE Owed[c]
    BY DEF Owed
  <2>1. Owed[c] = hand[c] \o queue[c]
    BY DEF Owed
  <2> HIDE DEF reached, e
  <2> QED
    BY <1>3, <1>4, <2>1
<1>6. clock' = clock + 1
  BY DEF PublishRaw
<1> QED
  BY <1>1, <1>5, <1>6 DEF Feed!Publish, Owed

FeedStutters == UNCHANGED <<clock, subs, Owed, got>>

LEMMA FeedStep ==
    TypeOK /\ HandEmpty /\ HandOne /\ [Next]_vars => Feed!Next \/ FeedStutters
<1> SUFFICES ASSUME TypeOK, HandEmpty, HandOne, [Next]_vars PROVE Feed!Next \/ FeedStutters
  OBVIOUS
<1>1. ASSUME NEW c \in Conns, WriterTakes(c) PROVE FeedStutters
  <2>1. /\ hand[c] = <<>> /\ hand'[c] = <<Head(queue[c])>> /\ queue'[c] = Tail(queue[c])
        /\ queue[c] # <<>> /\ queue[c] \in Seq(Events)
        /\ \A d \in Conns \ {c} : hand'[d] = hand[d] /\ queue'[d] = queue[d]
        /\ UNCHANGED <<got, clock, subs>>
    BY <1>1 DEF WriterTakes, EventWaits, HandEmpty, TypeOK, peer
  <2>2. <<Head(queue[c])>> \o Tail(queue[c]) = <<>> \o queue[c]
    BY <2>1
  <2> QED
    BY <2>1, <2>2 DEF FeedStutters, Owed
<1>2. ASSUME NEW c \in Conns, WriterWrites(c) PROVE Feed!Deliver(c)
  <2>1. PICK e \in Events : hand[c] = <<e>>
    BY <1>2 DEF WriterWrites, HandOne
  <2>2. queue[c] \in Seq(Events) /\ got[c] \in Seq(Events)
    BY DEF TypeOK
  <2>3. /\ Owed[c] # <<>> /\ Head(Owed[c]) = e /\ Tail(Owed[c]) = queue[c]
    <3>1. Owed[c] = <<e>> \o queue[c]
      BY <2>1 DEF Owed
    <3>2. <<e>> \o queue[c] # <<>> /\ Head(<<e>> \o queue[c]) = e
      BY <2>2
    <3>3. Tail(<<e>> \o queue[c]) = queue[c]
      BY <2>2
    <3> QED
      BY <3>1, <3>2, <3>3
  <2>4. got' = [got EXCEPT ![c] = Append(@, Head(Owed[c]))]
    <3>1. got[c] \o <<e>> = Append(got[c], e)
      BY <2>2
    <3> QED
      BY <1>2, <2>1, <2>3, <3>1 DEF WriterWrites
  <2>5. Owed' = [Owed EXCEPT ![c] = Tail(@)]
    <3>1. /\ hand'[c] = <<>> /\ queue' = queue
          /\ \A d \in Conns \ {c} : hand'[d] = hand[d]
      BY <1>2 DEF WriterWrites, TypeOK
    <3>2. <<>> \o queue[c] = queue[c]
      BY <2>2
    <3>3. Owed' = [d \in Conns |-> IF d = c THEN queue[c] ELSE hand[d] \o queue[d]]
      BY <3>1, <3>2 DEF Owed
    <3> QED
      BY <2>3, <3>3 DEF Owed
  <2>6. UNCHANGED <<clock, subs>>
    BY <1>2 DEF WriterWrites
  <2> QED
    BY <2>3, <2>4, <2>5, <2>6 DEF Feed!Deliver, Owed
<1>3. ASSUME NEW c \in Conns, NEW ch \in Channels, FramePublish(c, ch)
      PROVE  Feed!Publish(SiteOf[c], ch) /\ SiteOf[c] \in Sites
  BY <1>3, SiteKnown, PublishIsFed DEF FramePublish
<1>4. ASSUME NEW s \in Sites, NEW ch \in Channels, HandlerPublish(s, ch) PROVE Feed!Publish(s, ch)
  BY <1>4, PublishIsFed DEF HandlerPublish, peer
<1>5. ASSUME NEW c \in Conns, NEW ch \in Channels, FrameSubscribe(c, ch)
      PROVE  Feed!Subscribe(c, ch)
  BY <1>5 DEF FrameSubscribe, Feed!Subscribe
<1>6. ASSUME NEW c \in Conns, NEW ch \in Channels, FrameUnsubscribe(c, ch)
      PROVE  Feed!Unsubscribe(c, ch)
  BY <1>6 DEF FrameUnsubscribe, Feed!Unsubscribe
<1>7. ASSUME NEW c \in Conns,
             \/ Reserve(c) \/ Accept(c) \/ AcceptFails(c) \/ FrameRejected(c) \/ Reply(c)
             \/ WriterFails(c) \/ WriterStops(c) \/ ReadFails(c) \/ Remove(c) \/ Release(c)
             \/ Break(c)
      PROVE  UNCHANGED <<clock, subs, hand, queue, got>>
  BY <1>7 DEF Reserve, Accept, AcceptFails, FrameRejected, Reply, WriterFails, WriterStops,
              ReadFails, Remove, Release, Break, peer
<1>8. UNCHANGED vars => UNCHANGED <<clock, subs, hand, queue, got>>
  BY DEF vars, peer
<1>9. UNCHANGED <<clock, subs, hand, queue, got>> => FeedStutters
  BY DEF FeedStutters, Owed
<1> QED
  BY <1>1, <1>2, <1>3, <1>4, <1>5, <1>6, <1>7, <1>8, <1>9 DEF Next, Frame, ServeStep, Feed!Next

\* The hub implements the feed: each peer gets events of the channels it is subscribed to, of
\* its own site only, in the order they were published, none twice, and all that are on their
\* way to it before any later one.
THEOREM HubKeepsFeed == Spec => FeedKept
<1>1. Init => Feed!Init
  <2>1. <<>> \o <<>> = <<>>
    OBVIOUS
  <2> QED
    BY <2>1 DEF Init, Feed!Init
<1>2. Init => HandOne
  BY DEF Init, HandOne
<1>3. TypeOK /\ HandEmpty /\ HandOne /\ [Next]_vars
        => [Feed!Next]_<<clock, subs, [c \in Conns |-> hand[c] \o queue[c]], got>>
  BY FeedStep DEF FeedStutters, Owed
<1> QED
  BY <1>1, <1>2, <1>3, OrderHolds, HandOneStep, PTL DEF Spec, FeedKept, Feed!Spec

================================================================================

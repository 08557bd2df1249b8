---------------------------- MODULE DocumentsProofs ----------------------------
(***************************************************************************)
(* Theorems about Documents, for any set of requests: the types, the       *)
(* compare and swap of If-Match, the truth of answers and events, that no  *)
(* acknowledged patch is lost and that the last version is announced.      *)
(***************************************************************************)
EXTENDS Documents, TLAPS

LEMMA InitTypes == Init => TypeOK
  BY DEF Init, TypeOK, Versions, NoDoc, NoRevision, Steps, Methods, Answers

LEMMA RevisionsNat == ASSUME TypeOK PROVE Revisions \in SUBSET Nat
  BY DEF TypeOK, Revisions, Versions

LEMMA BodyType == ASSUME TypeOK, NEW r \in Requests PROVE Body(r) \in SUBSET Requests
  BY DEF TypeOK, Body, Versions

\* What the writes do to the row.
LEMMA StoreTypes ==
    ASSUME TypeOK, NEW r \in Requests, NEW data \in SUBSET Requests, Store(r, data)
    PROVE  /\ doc' \in Versions
           /\ clock' \in Nat
           /\ history' \in SUBSET Versions
           /\ applied' \in SUBSET Requests
  BY DEF TypeOK, Store, Versions

LEMMA EraseTypes ==
    ASSUME TypeOK, NEW r \in Requests, Erase(r)
    PROVE  /\ doc' \in Versions
           /\ clock' \in Nat
           /\ history' \in SUBSET Versions
           /\ applied' \in SUBSET Requests
  BY DEF TypeOK, Erase, Versions, NoDoc

\* The types of the handler's own variables, and of the feed they leave alone.
HandlerTypes ==
    /\ pc \in [Requests -> Steps]
    /\ method \in [Requests -> Methods]
    /\ match \in [Requests -> Nat]
    /\ seen \in [Requests -> Versions]
    /\ out \in [Requests -> Versions]
    /\ answer \in [Requests -> Answers]

LEMMA ReplyTypes ==
    ASSUME TypeOK, NEW r \in Requests, NEW a \in Answers, Reply(r, a)
    PROVE  HandlerTypes'
  BY DEF TypeOK, HandlerTypes, Reply, Steps

LEMMA GotoTypes ==
    ASSUME TypeOK, NEW r \in Requests, NEW s \in Steps, Goto(r, s)
    PROVE  HandlerTypes'
  BY DEF TypeOK, HandlerTypes, Goto

LEMMA ReturnTypes ==
    ASSUME TypeOK, NEW r \in Requests, NEW v \in Versions, Return(r, v)
    PROVE  HandlerTypes'
  BY DEF TypeOK, HandlerTypes, Return, Steps

LEMMA NoDocType == NoDoc \in Versions
  BY DEF NoDoc, Versions

LEMMA TypeStep == TypeOK /\ [Next]_vars => TypeOK'
<1> SUFFICES ASSUME TypeOK, [Next]_vars PROVE TypeOK'
  OBVIOUS
<1> USE NoDocType
<1>1. ASSUME NEW r \in Requests, Post(r) PROVE TypeOK'
  <2>1. Store(r, {r}) /\ Return(r, doc') /\ UNCHANGED feed
    BY <1>1 DEF Post
  <2>2. doc' \in Versions /\ clock' \in Nat /\ history' \in SUBSET Versions
           /\ applied' \in SUBSET Requests
    BY <2>1, StoreTypes
  <2>3. HandlerTypes'
    BY <2>1, <2>2, ReturnTypes
  <2> QED
    BY <2>1, <2>2, <2>3 DEF TypeOK, HandlerTypes
<1>2. ASSUME NEW r \in Requests, NEW call \in Calls, NEW rev \in Revisions \cup {NoRevision},
             Begin(r, call, rev)
      PROVE  TypeOK'
  <2>1. rev \in Nat
    BY RevisionsNat DEF NoRevision
  <2>2. call[1] \in Methods
    BY CallAssumption
  <2> QED
    BY <1>2, <2>1, <2>2 DEF Begin, TypeOK, Steps, row
<1>3. ASSUME NEW r \in Requests, Read(r) PROVE TypeOK'
  <2>1. HandlerTypes'
    <3>1. CASE \E a \in {"missing", "conflict"} : Reply(r, a)
      BY <3>1, ReplyTypes DEF Answers
    <3>2. CASE ~ \E a \in {"missing", "conflict"} : Reply(r, a)
      BY <1>3, <3>2 DEF Read, TypeOK, HandlerTypes, Steps
    <3> QED
      BY <3>1, <3>2
  <2> QED
    BY <1>3, <2>1 DEF Read, row, TypeOK, HandlerTypes
<1>4. ASSUME NEW r \in Requests, WriteAnyway(r) PROVE TypeOK'
  <2>1. CASE Reply(r, "missing") /\ UNCHANGED row
    BY <1>4, <2>1, ReplyTypes DEF WriteAnyway, row, TypeOK, HandlerTypes, Answers
  <2>2. CASE Store(r, Body(r)) /\ Goto(r, "readback")
    <3>1. HandlerTypes'
      BY <2>2, GotoTypes DEF Steps
    <3>2. doc' \in Versions /\ clock' \in Nat /\ history' \in SUBSET Versions
             /\ applied' \in SUBSET Requests
      BY <2>2, StoreTypes, BodyType
    <3> QED
      BY <1>4, <3>1, <3>2 DEF WriteAnyway, TypeOK, HandlerTypes
  <2>3. CASE Erase(r) /\ Return(r, NoDoc)
    <3>1. HandlerTypes'
      BY <2>3, ReturnTypes
    <3>2. doc' \in Versions /\ clock' \in Nat /\ history' \in SUBSET Versions
             /\ applied' \in SUBSET Requests
      BY <2>3, EraseTypes
    <3> QED
      BY <1>4, <3>1, <3>2 DEF WriteAnyway, TypeOK, HandlerTypes
  <2> QED
    BY <1>4, <2>1, <2>2, <2>3 DEF WriteAnyway
<1>5. ASSUME NEW r \in Requests, ReadBack(r) PROVE TypeOK'
  <2>1. HandlerTypes'
    BY <1>5, ReplyTypes, ReturnTypes DEF ReadBack, TypeOK, Answers
  <2> QED
    BY <1>5, <2>1 DEF ReadBack, row, TypeOK, HandlerTypes
<1>6. ASSUME NEW r \in Requests, Swap(r) PROVE TypeOK'
  <2>1. CASE Erase(r) /\ Return(r, NoDoc)
    <3>1. HandlerTypes'
      BY <2>1, ReturnTypes
    <3>2. doc' \in Versions /\ clock' \in Nat /\ history' \in SUBSET Versions
             /\ applied' \in SUBSET Requests
      BY <2>1, EraseTypes
    <3> QED
      BY <1>6, <3>1, <3>2 DEF Swap, TypeOK, HandlerTypes
  <2>2. CASE Store(r, Body(r)) /\ Return(r, doc')
    <3>1. doc' \in Versions /\ clock' \in Nat /\ history' \in SUBSET Versions
             /\ applied' \in SUBSET Requests
      BY <2>2, StoreTypes, BodyType
    <3>2. HandlerTypes'
      BY <2>2, <3>1, ReturnTypes
    <3> QED
      BY <1>6, <3>1, <3>2 DEF Swap, TypeOK, HandlerTypes
  <2> QED
    BY <1>6, <2>1, <2>2 DEF Swap
<1>7. ASSUME NEW r \in Requests, SwapFails(r) PROVE TypeOK'
  <2>1. HandlerTypes'
    BY <1>7, ReplyTypes, ReturnTypes DEF SwapFails, Answers
  <2> QED
    BY <1>7, <2>1 DEF SwapFails, row, TypeOK, HandlerTypes
<1>8. ASSUME NEW r \in Requests, Publish(r) PROVE TypeOK'
  <2>1. PICK e \in {"create", "update", "delete"} :
            feed' = Append(feed, [event |-> e, body |-> out[r], by |-> r])
    BY <1>8 DEF Publish
  <2>2. [event |-> e, body |-> out[r], by |-> r] \in Events
    BY DEF Events, TypeOK
  <2>3. feed' \in Seq(Events)
    BY <2>1, <2>2 DEF TypeOK
  <2>4. HandlerTypes'
    BY <1>8, ReplyTypes DEF Publish, Answers
  <2> QED
    BY <1>8, <2>3, <2>4 DEF Publish, row, TypeOK, HandlerTypes
<1>9. ASSUME NEW r \in Requests, Cancelled(r) PROVE TypeOK'
  <2>1. HandlerTypes'
    BY <1>9, ReplyTypes, ReturnTypes DEF Cancelled, Answers
  <2> QED
    BY <1>9, <2>1 DEF Cancelled, row, TypeOK, HandlerTypes
<1>10. CASE UNCHANGED vars
  BY <1>10 DEF vars, row, handler, TypeOK
<1> QED
  BY <1>1, <1>2, <1>3, <1>4, <1>5, <1>6, <1>7, <1>8, <1>9, <1>10 DEF Next, Step

\* The row, its history, the feed and the handlers' variables stay in their types.
THEOREM TypeCorrect == Spec => []TypeOK
  BY InitTypes, TypeStep, PTL DEF Spec

(***************************************************************************)
(* If-Match.  A handler reaches its transaction with a version whose       *)
(* revision is the one the client named; the transaction changes the row   *)
(* only if it still is that version.                                       *)
(***************************************************************************)
SeenMatches ==
    \A r \in Requests :
        /\ pc[r] = "write" /\ Conditional(r) => seen[r].stamp = match[r]
        /\ pc[r] = "idle" => ~Conditional(r)

LEMMA SeenStep == TypeOK /\ SeenMatches /\ [Next]_vars => SeenMatches'
<1> SUFFICES ASSUME TypeOK, SeenMatches, [Next]_vars PROVE SeenMatches'
  OBVIOUS
<1> USE DEF SeenMatches, Conditional, TypeOK
<1>1. ASSUME NEW r \in Requests, Post(r) PROVE SeenMatches'
  BY <1>1 DEF Post, Return
<1>2. ASSUME NEW r \in Requests, NEW call \in Calls, NEW rev \in Revisions \cup {NoRevision},
             Begin(r, call, rev)
      PROVE  SeenMatches'
  BY <1>2 DEF Begin
<1>3. ASSUME NEW r \in Requests, Read(r) PROVE SeenMatches'
  BY <1>3 DEF Read, Reply
<1>4. ASSUME NEW r \in Requests, WriteAnyway(r) PROVE SeenMatches'
  BY <1>4 DEF WriteAnyway, Reply, Goto, Return
<1>5. ASSUME NEW r \in Requests, ReadBack(r) PROVE SeenMatches'
  BY <1>5 DEF ReadBack, Reply, Return
<1>6. ASSUME NEW r \in Requests, Swap(r) PROVE SeenMatches'
  BY <1>6 DEF Swap, Return
<1>7. ASSUME NEW r \in Requests, SwapFails(r) PROVE SeenMatches'
  BY <1>7 DEF SwapFails, Reply, Return
<1>8. ASSUME NEW r \in Requests, Publish(r) PROVE SeenMatches'
  BY <1>8 DEF Publish, Reply
<1>9. ASSUME NEW r \in Requests, Cancelled(r) PROVE SeenMatches'
  BY <1>9 DEF Cancelled, Reply, Return
<1>10. CASE UNCHANGED vars
  BY <1>10 DEF vars, handler
<1> QED
  BY <1>1, <1>2, <1>3, <1>4, <1>5, <1>6, <1>7, <1>8, <1>9, <1>10 DEF Next, Step

LEMMA SeenHolds == Spec => [](TypeOK /\ SeenMatches)
<1>1. Init => SeenMatches
  BY DEF Init, SeenMatches, Conditional
<1> QED
  BY <1>1, InitTypes, TypeStep, SeenStep, PTL DEF Spec

\* A request with If-Match changes the document only while the document has the revision
\* the client named, however the statements of the handlers interleave.
THEOREM ConditionalWritesExact == Spec => ConditionalExact
<1> DEFINE Exact == \A r \in Requests :
               r \in applied' \ applied /\ Conditional(r) => doc.stamp = match[r]
<1>1. TypeOK /\ SeenMatches /\ [Next]_vars => [Exact]_vars
  <2> SUFFICES ASSUME TypeOK, SeenMatches, [Next]_vars,
                      NEW c \in Requests, c \in applied' \ applied, Conditional(c)
               PROVE  doc.stamp = match[c]
    OBVIOUS
  <2> USE DEF Conditional, TypeOK, row
  <2>1. ASSUME NEW r \in Requests, Post(r) PROVE doc.stamp = match[c]
    BY <2>1 DEF Post, Store, SeenMatches
  <2>2. ASSUME NEW r \in Requests, WriteAnyway(r) PROVE doc.stamp = match[c]
    BY <2>2 DEF WriteAnyway, Store, Erase
  <2>3. ASSUME NEW r \in Requests, Swap(r) PROVE doc.stamp = match[c]
    BY <2>3 DEF Swap, Store, Erase, Unchanged, SeenMatches
  <2>4. ASSUME NEW r \in Requests,
               \/ Read(r) \/ ReadBack(r) \/ SwapFails(r) \/ Publish(r) \/ Cancelled(r)
               \/ \E call \in Calls, rev \in Revisions \cup {NoRevision} : Begin(r, call, rev)
        PROVE  FALSE
    BY <2>4 DEF Read, ReadBack, SwapFails, Publish, Cancelled, Begin
  <2>5. CASE UNCHANGED vars
    BY <2>5 DEF vars
  <2> QED
    BY <2>1, <2>2, <2>3, <2>4, <2>5 DEF Next, Step
<1> QED
  BY <1>1, SeenHolds, PTL DEF Spec, ConditionalExact

(***************************************************************************)
(* Answers and events.  A write is counted once its transaction committed; *)
(* between that and the answer no step of the handler can fail, unless it  *)
(* swallowed the error of the write.                                       *)
(***************************************************************************)
CommitCounted ==
    \A r \in Requests :
        /\ pc[r] \in {"idle", "read", "write"} => r \notin applied
        /\ pc[r] = "readback" => r \in applied
        /\ pc[r] = "publish" => r \in applied \/ Swallows(r)

RowInHistory == doc # NoDoc => doc \in history

OutInHistory ==
    \A r \in Requests :
        pc[r] = "publish" /\ method[r] # "delete" => out[r] \in history \/ Swallows(r)

\* The feed only holds events of requests that are done.
FeedOfDone == \A i \in DOMAIN feed : feed[i].by \in Done

AInv ==
    /\ TypeOK
    /\ CommitCounted
    /\ RowInHistory
    /\ OutInHistory
    /\ FeedOfDone
    /\ AnswersTrue
    /\ EventsTrue

LEMMA InitAInv == Init => AInv
<1> SUFFICES ASSUME Init PROVE AInv
  OBVIOUS
<1>1. TypeOK
  BY InitTypes
<1>2. CommitCounted /\ RowInHistory /\ OutInHistory /\ FeedOfDone
  BY DEF Init, CommitCounted, RowInHistory, OutInHistory, FeedOfDone
<1>3. AnswersTrue /\ EventsTrue
  BY DEF Init, AnswersTrue, EventsTrue, Done
<1> QED
  BY <1>1, <1>2, <1>3 DEF AInv

LEMMA StepAInv ==
    ASSUME AInv, TypeOK', [Next]_vars
    PROVE  AInv'
<1> USE DEF AInv, TypeOK, CommitCounted, RowInHistory, OutInHistory, FeedOfDone, AnswersTrue,
            EventsTrue, Done, Conditional, Swallows, row
<1>1. ASSUME NEW r \in Requests, Post(r) PROVE AInv'
  <2>1. doc' \in history' /\ history \subseteq history' /\ applied' = applied \cup {r}
    BY <1>1 DEF Post, Store
  <2> QED
    BY <1>1, <2>1 DEF Post, Return
<1>2. ASSUME NEW r \in Requests, NEW call \in Calls, NEW rev \in Revisions \cup {NoRevision},
             Begin(r, call, rev)
      PROVE  AInv'
  <2>1. pc[r] = "idle" /\ pc'[r] \in {"read", "write"}
    BY <1>2 DEF Begin
  <2>2. CommitCounted' /\ RowInHistory' /\ OutInHistory' /\ FeedOfDone'
    BY <1>2, <2>1 DEF Begin
  <2>3. AnswersTrue' /\ EventsTrue'
    BY <1>2, <2>1 DEF Begin
  <2> QED
    BY <2>2, <2>3
<1>3. ASSUME NEW r \in Requests, Read(r) PROVE AInv'
  <2>1. /\ UNCHANGED <<row, feed, method, match, out>>
        /\ pc[r] = "read" /\ pc'[r] \in {"write", "done"}
        /\ \A q \in Requests \ {r} : pc'[q] = pc[q] /\ answer'[q] = answer[q]
        /\ pc'[r] = "done" => answer'[r] \in {"missing", "conflict"}
    BY <1>3 DEF Read, Reply
  <2>2. CommitCounted' /\ RowInHistory' /\ OutInHistory' /\ FeedOfDone'
    BY <2>1
  <2>3. AnswersTrue' /\ EventsTrue'
    BY <2>1
  <2> QED
    BY <2>2, <2>3
<1>4. ASSUME NEW r \in Requests, WriteAnyway(r) PROVE AInv'
  <2>1. CASE Reply(r, "missing") /\ UNCHANGED row
    BY <1>4, <2>1 DEF WriteAnyway, Reply
  <2>2. CASE Store(r, Body(r)) /\ Goto(r, "readback")
    BY <1>4, <2>2 DEF WriteAnyway, Store, Goto
  <2>3. CASE method[r] = "delete" /\ Erase(r) /\ Return(r, NoDoc)
    BY <1>4, <2>3 DEF WriteAnyway, Erase, Return
  <2> QED
    BY <1>4, <2>1, <2>2, <2>3 DEF WriteAnyway
<1>5. ASSUME NEW r \in Requests, ReadBack(r) PROVE AInv'
  <2>1. CASE doc = NoDoc /\ Reply(r, "missing")
    BY <1>5, <2>1 DEF ReadBack, Reply
  <2>2. CASE doc # NoDoc /\ Return(r, doc)
    BY <1>5, <2>2 DEF ReadBack, Return
  <2> QED
    BY <1>5, <2>1, <2>2 DEF ReadBack
<1>6. ASSUME NEW r \in Requests, Swap(r) PROVE AInv'
  <2>1. CASE method[r] = "delete" /\ Erase(r) /\ Return(r, NoDoc)
    BY <1>6, <2>1 DEF Swap, Erase, Return
  <2>2. CASE Store(r, Body(r)) /\ Return(r, doc')
    <3>1. doc' \in history' /\ history \subseteq history' /\ applied' = applied \cup {r}
      BY <2>2 DEF Store
    <3> QED
      BY <1>6, <2>2, <3>1 DEF Swap, Return
  <2> QED
    BY <1>6, <2>1, <2>2 DEF Swap
<1>7. ASSUME NEW r \in Requests, SwapFails(r) PROVE AInv'
  <2>1. CASE Swallows(r) /\ Return(r, NoDoc)
    BY <1>7, <2>1 DEF SwapFails, Return
  <2>2. CASE \E a \in {"missing", "conflict"} : Reply(r, a)
    BY <1>7, <2>2 DEF SwapFails, Reply
  <2> QED
    BY <1>7, <2>1, <2>2 DEF SwapFails
<1>8. ASSUME NEW r \in Requests, Publish(r) PROVE AInv'
  <2> DEFINE e == feed'[Len(feed) + 1]
  <2>1. /\ DOMAIN feed' = 1 .. Len(feed) + 1
        /\ DOMAIN feed = 1 .. Len(feed)
        /\ \A i \in DOMAIN feed : feed'[i] = feed[i]
        /\ e.body = out[r] /\ e.by = r
        /\ e.event # "delete" => method[r] # "delete"
    BY <1>8 DEF Publish
  <2>2. EventsTrue'
    BY <1>8, <2>1 DEF Publish, Reply
  <2>3. AnswersTrue'
    BY <1>8 DEF Publish, Reply
  <2>4. FeedOfDone'
    BY <1>8, <2>1 DEF Publish, Reply
  <2>5. CommitCounted' /\ RowInHistory' /\ OutInHistory'
    BY <1>8 DEF Publish, Reply
  <2> QED
    BY <2>2, <2>3, <2>4, <2>5
<1>9. ASSUME NEW r \in Requests, Cancelled(r) PROVE AInv'
  <2>1. CASE pc[r] = "write" /\ Swallows(r) /\ Return(r, NoDoc)
    BY <1>9, <2>1 DEF Cancelled, Return
  <2>2. CASE Reply(r, "error")
    BY <1>9, <2>2 DEF Cancelled, Reply
  <2> QED
    BY <1>9, <2>1, <2>2 DEF Cancelled
<1>10. CASE UNCHANGED vars
  BY <1>10 DEF vars, handler
<1> QED
  BY <1>1, <1>2, <1>3, <1>4, <1>5, <1>6, <1>7, <1>8, <1>9, <1>10 DEF Next, Step

LEMMA AInvHolds == Spec => []AInv
<1>1. AInv /\ [Next]_vars => AInv'
  <2>1. AInv => TypeOK
    BY DEF AInv
  <2> QED
    BY <2>1, TypeStep, StepAInv
<1> QED
  BY <1>1, InitAInv, PTL DEF Spec

\* A success answers a committed write, or a conditional PUT or DELETE that swallowed the
\* error of its write; a conflict answers a request that changed nothing.
THEOREM AnswersAreTrue == Spec => []AnswersTrue
<1>1. AInv => AnswersTrue
  BY DEF AInv
<1> QED
  BY <1>1, AInvHolds, PTL

\* Every create or update event carries a version the document really had, unless its
\* handler swallowed the error of the write.
THEOREM EventsAreTrue == Spec => []EventsTrue
<1>1. AInv => EventsTrue
  BY DEF AInv
<1> QED
  BY <1>1, AInvHolds, PTL

(***************************************************************************)
(* Lost updates and lost announcements                                     *)
(***************************************************************************)
\* A handler that has not begun has no method and no revision yet, one that has not ended
\* has not answered, and the row is written for the first time by a POST.
NotBegun ==
    /\ \A r \in Requests : pc[r] = "idle" => method[r] = "post" /\ r \notin applied
    /\ \A r \in Requests : pc[r] \in {"read", "write", "readback"} => method[r] # "post"
    /\ \A r \in Requests : pc[r] # "done" => answer[r] = "none"
    /\ clock = 0 => doc = NoDoc /\ applied = {}

\* As long as every PATCH names a revision and nobody PUTs, the document holds the field of
\* every write so far.
FieldsKept ==
    OnlyCheckedPatches /\ doc # NoDoc =>
        \A r \in applied : method[r] # "delete" => r \in doc.data

KInv == AInv /\ SeenMatches /\ NotBegun /\ FieldsKept

\* Who has told of the row as it is, or is about to.
Told ==
    IF doc = NoDoc
    THEN \/ \E i \in DOMAIN feed : feed[i].event = "delete"
         \/ \E r \in Requests : pc[r] = "publish" /\ method[r] = "delete"
    ELSE \/ \E i \in DOMAIN feed : feed[i].event # "delete" /\ feed[i].body = doc
         \/ \E r \in Requests : pc[r] = "publish" /\ method[r] # "delete" /\ out[r] = doc
         \/ \E r \in Requests : pc[r] = "readback" /\ method[r] # "delete"

Announced == clock > 0 /\ (\A r \in Requests : answer[r] # "error") => Told

NInv == AInv /\ NotBegun /\ Announced

LEMMA NotBegunStep == TypeOK /\ CommitCounted /\ NotBegun /\ [Next]_vars => NotBegun'
<1> SUFFICES ASSUME TypeOK, CommitCounted, NotBegun, [Next]_vars PROVE NotBegun'
  OBVIOUS
<1> USE DEF NotBegun, TypeOK, row
<1>1. ASSUME NEW r \in Requests, Post(r) PROVE NotBegun'
  BY <1>1 DEF Post, Store, Return
<1>2. ASSUME NEW r \in Requests, NEW call \in Calls, NEW rev \in Revisions \cup {NoRevision},
             Begin(r, call, rev)
      PROVE  NotBegun'
  BY <1>2 DEF Begin
<1>3. ASSUME NEW r \in Requests, Read(r) \/ ReadBack(r) \/ SwapFails(r) \/ Publish(r) \/ Cancelled(r)
      PROVE  NotBegun'
  <2>1. /\ UNCHANGED <<row, method>>
        /\ \A q \in Requests \ {r} : pc'[q] = pc[q] /\ answer'[q] = answer[q]
        /\ pc[r] \notin {"idle", "done"} /\ pc'[r] # "idle"
        /\ pc'[r] \in {"read", "write", "readback"} => pc[r] \in {"read", "write", "readback"}
        /\ pc'[r] # "done" => answer'[r] = answer[r]
    BY <1>3 DEF Read, ReadBack, SwapFails, Publish, Cancelled, Reply, Return
  <2> QED BY <2>1
<1>4. ASSUME NEW r \in Requests, WriteAnyway(r) PROVE NotBegun'
  <2>1. CASE Reply(r, "missing") /\ UNCHANGED row
    BY <1>4, <2>1 DEF WriteAnyway, Reply
  <2>2. CASE Store(r, Body(r)) /\ Goto(r, "readback")
    BY <1>4, <2>2 DEF WriteAnyway, Store, Goto
  <2>3. CASE doc # NoDoc /\ Erase(r) /\ Return(r, NoDoc)
    BY <1>4, <2>3 DEF WriteAnyway, Erase, Return
  <2> QED
    BY <1>4, <2>1, <2>2, <2>3 DEF WriteAnyway
<1>5. ASSUME NEW r \in Requests, Swap(r) PROVE NotBegun'
  <2>1. CASE Erase(r) /\ Return(r, NoDoc)
    BY <1>5, <2>1 DEF Swap, Unchanged, Erase, Return
  <2>2. CASE Store(r, Body(r)) /\ Return(r, doc')
    BY <1>5, <2>2 DEF Swap, Store, Return
  <2> QED
    BY <1>5, <2>1, <2>2 DEF Swap
<1>6. CASE UNCHANGED vars
  BY <1>6 DEF vars, handler
<1> QED
  BY <1>1, <1>2, <1>3, <1>4, <1>5, <1>6 DEF Next, Step

\* A method once taken stays: a PUT or an unchecked PATCH that was made is not unmade.
LEMMA OnlyCheckedBefore ==
    ASSUME TypeOK, SeenMatches, NotBegun, [Next]_vars, OnlyCheckedPatches'
    PROVE  OnlyCheckedPatches
<1> SUFFICES ASSUME NEW q \in Requests
             PROVE  method[q] # "put" /\ (method[q] = "patch" => Conditional(q))
  BY DEF OnlyCheckedPatches
<1>1. CASE pc[q] = "idle"
  BY <1>1 DEF NotBegun
<1>2. CASE pc[q] # "idle"
  <2>1. method'[q] = method[q] /\ match'[q] = match[q]
    <3>1. ASSUME NEW r \in Requests, Post(r) \/ Step(r) \/ Cancelled(r)
          PROVE  UNCHANGED <<method, match>>
      BY <3>1 DEF Post, Step, Read, WriteAnyway, ReadBack, Swap, SwapFails, Publish, Cancelled,
                  Reply, Return, Goto
    <3>2. ASSUME NEW r \in Requests, NEW call \in Calls, NEW rev \in Revisions \cup {NoRevision},
                 Begin(r, call, rev)
          PROVE  method'[q] = method[q] /\ match'[q] = match[q]
      BY <1>2, <3>2 DEF Begin, TypeOK
    <3>3. CASE UNCHANGED vars
      BY <3>3 DEF vars, handler
    <3> QED BY <3>1, <3>2, <3>3 DEF Next
  <2> QED BY <2>1 DEF OnlyCheckedPatches, Conditional
<1> QED BY <1>1, <1>2

LEMMA FieldsStep == TypeOK' /\ KInv /\ [Next]_vars => FieldsKept'
<1> SUFFICES ASSUME TypeOK', KInv, [Next]_vars, OnlyCheckedPatches', doc' # NoDoc,
                    NEW q \in applied', method'[q] # "delete"
             PROVE  q \in doc'.data
  BY DEF FieldsKept
<1>0. TypeOK /\ SeenMatches /\ NotBegun /\ OnlyCheckedPatches /\ q \in Requests
  BY OnlyCheckedBefore DEF KInv, AInv, TypeOK
<1>1. ASSUME doc' = doc, applied' = applied, method'[q] = method[q] \/ pc[q] = "idle" PROVE q \in doc'.data
  <2>1. method[q] # "delete"
    BY <1>0, <1>1 DEF NotBegun
  <2> QED BY <1>0, <1>1, <2>1 DEF KInv, FieldsKept
<1>2. ASSUME NEW r \in Requests, Post(r) PROVE q \in doc'.data
  BY <1>0, <1>2 DEF Post, Store, NotBegun
<1>3. ASSUME NEW r \in Requests, NEW call \in Calls, NEW rev \in Revisions \cup {NoRevision},
             Begin(r, call, rev)
      PROVE  q \in doc'.data
  BY <1>0, <1>1, <1>3 DEF Begin, row, TypeOK
<1>4. ASSUME NEW r \in Requests, Read(r) \/ ReadBack(r) \/ SwapFails(r) \/ Publish(r) \/ Cancelled(r)
      PROVE  q \in doc'.data
  BY <1>1, <1>4 DEF Read, ReadBack, SwapFails, Publish, Cancelled, Reply, Return, row
<1>5. ASSUME NEW r \in Requests, WriteAnyway(r) PROVE q \in doc'.data
  <2>1. method[r] \in {"post", "delete"}
    BY <1>0, <1>5 DEF WriteAnyway, OnlyCheckedPatches, TypeOK, Methods
  <2>2. method[r] = "delete"
    BY <1>0, <1>5, <2>1 DEF WriteAnyway, NotBegun
  <2>3. CASE Reply(r, "missing") /\ UNCHANGED row
    BY <1>1, <2>3 DEF Reply, row
  <2>4. CASE Erase(r)
    BY <2>4 DEF Erase
  <2> QED BY <1>5, <2>2, <2>3, <2>4 DEF WriteAnyway
<1>6. ASSUME NEW r \in Requests, Swap(r) PROVE q \in doc'.data
  <2>1. doc = seen[r] /\ doc # NoDoc /\ UNCHANGED method
    BY <1>6 DEF Swap, Unchanged, Return
  <2>2. method[r] # "delete" /\ Store(r, Body(r))
    BY <1>6 DEF Swap, Erase
  <2>3. doc'.data = Body(r) /\ applied' = applied \cup {r}
    BY <2>2 DEF Store
  <2>4. r \in Body(r) /\ (method[r] = "patch" => doc.data \subseteq Body(r))
    BY <2>1 DEF Body
  <2>5. CASE method[r] = "patch"
    BY <1>0, <2>1, <2>3, <2>4, <2>5 DEF KInv, FieldsKept
  <2>6. CASE method[r] = "post"
    BY <1>0, <1>6, <2>6 DEF Swap, NotBegun
  <2> QED BY <1>0, <2>2, <2>5, <2>6 DEF OnlyCheckedPatches, TypeOK, Methods
<1>7. CASE UNCHANGED vars
  BY <1>1, <1>7 DEF vars, row, handler
<1> QED
  BY <1>2, <1>3, <1>4, <1>5, <1>6, <1>7 DEF Next, Step

LEMMA InitNotBegun == Init => NotBegun
BY DEF Init, NotBegun

LEMMA KInvHolds == Spec => []KInv
<1>1. Init => KInv
  BY InitAInv, InitNotBegun DEF Init, KInv, SeenMatches, Conditional, FieldsKept
<1>2. KInv /\ [Next]_vars => KInv'
  <2>1. KInv /\ [Next]_vars => AInv'
    BY TypeStep, StepAInv DEF KInv, AInv
  <2>2. KInv /\ [Next]_vars => SeenMatches' /\ NotBegun'
    BY SeenStep, NotBegunStep DEF KInv, AInv
  <2>3. KInv /\ [Next]_vars => FieldsKept'
    BY <2>1, FieldsStep DEF AInv
  <2> QED BY <2>1, <2>2, <2>3 DEF KInv
<1> QED BY <1>1, <1>2, PTL DEF Spec

\* Among clients that patch with a revision, and do not put, no field that was acknowledged
\* is ever lost, however many of them race.
THEOREM NoLostUpdate == Spec => []AckedPatchesKept
<1>1. KInv => AckedPatchesKept
  <2> SUFFICES ASSUME KInv, OnlyCheckedPatches, NEW r \in Done, doc # NoDoc, answer[r] = "ok",
                      method[r] # "delete"
               PROVE  r \in doc.data
    BY DEF AckedPatchesKept
  <2>1. r \in applied
    BY DEF KInv, AInv, AnswersTrue, Swallows, OnlyCheckedPatches, Done
  <2> QED BY <2>1 DEF KInv, FieldsKept
<1> QED BY <1>1, KInvHolds, PTL

\* A handler that has something to tell goes on to do so, or has told it.
StillTells(r) ==
    /\ pc[r] = "publish" /\ method[r] = "delete" =>
           \/ pc'[r] = "publish" /\ method'[r] = "delete"
           \/ \E i \in DOMAIN feed' : feed'[i].event = "delete"
    /\ pc[r] = "publish" /\ method[r] # "delete" /\ out[r] = doc =>
           \/ pc'[r] = "publish" /\ method'[r] # "delete" /\ out'[r] = doc
           \/ \E i \in DOMAIN feed' : feed'[i].event # "delete" /\ feed'[i].body = doc
    /\ pc[r] = "readback" /\ method[r] # "delete" /\ doc # NoDoc =>
           \/ pc'[r] = "publish" /\ method'[r] # "delete" /\ out'[r] = doc
           \/ pc'[r] = "readback" /\ method'[r] # "delete"

\* The steps that leave the row alone keep it told of.
LEMMA ToldKept ==
    ASSUME TypeOK, Told, doc' = doc,
           \A i \in DOMAIN feed : i \in DOMAIN feed' /\ feed'[i] = feed[i],
           \A r \in Requests : StillTells(r)
    PROVE  Told'
<1> USE DEF StillTells
<1>1. CASE doc = NoDoc
  <2>1. \/ \E i \in DOMAIN feed : feed[i].event = "delete"
        \/ \E r \in Requests : pc[r] = "publish" /\ method[r] = "delete"
    BY <1>1 DEF Told
  <2>2. \/ \E i \in DOMAIN feed' : feed'[i].event = "delete"
        \/ \E r \in Requests : pc'[r] = "publish" /\ method'[r] = "delete"
    BY <2>1
  <2> QED BY <1>1, <2>2 DEF Told
<1>2. CASE doc # NoDoc
  <2>1. \/ \E i \in DOMAIN feed : feed[i].event # "delete" /\ feed[i].body = doc
        \/ \E r \in Requests : pc[r] = "publish" /\ method[r] # "delete" /\ out[r] = doc
        \/ \E r \in Requests : pc[r] = "readback" /\ method[r] # "delete"
    BY <1>2 DEF Told
  <2>2. \/ \E i \in DOMAIN feed' : feed'[i].event # "delete" /\ feed'[i].body = doc
        \/ \E r \in Requests : pc'[r] = "publish" /\ method'[r] # "delete" /\ out'[r] = doc
        \/ \E r \in Requests : pc'[r] = "readback" /\ method'[r] # "delete"
    BY <1>2, <2>1
  <2> QED BY <1>2, <2>2 DEF Told
<1> QED BY <1>1, <1>2

\* A write or a removal is told of by the handler that did it.
LEMMA ToldAnew ==
    ASSUME NEW r \in Requests,
           \/ doc' = NoDoc /\ pc'[r] = "publish" /\ method'[r] = "delete"
           \/ doc' # NoDoc /\ pc'[r] = "publish" /\ method'[r] # "delete" /\ out'[r] = doc'
           \/ doc' # NoDoc /\ pc'[r] = "readback" /\ method'[r] # "delete"
    PROVE  Told'
BY DEF Told

LEMMA ToldStep == NInv /\ [Next]_vars => Announced'
<1> SUFFICES ASSUME NInv, [Next]_vars, clock' > 0, \A r \in Requests : answer'[r] # "error"
             PROVE  Told'
  BY DEF Announced
<1>0. TypeOK /\ NotBegun
  BY DEF NInv, AInv
<1> USE DEF TypeOK, row
<1>1. (\A r \in Requests : answer[r] # "error") /\ (clock > 0 => Told)
  <2>1. ASSUME NEW r \in Requests, answer[r] = "error" PROVE answer'[r] = "error"
    <3>1. pc[r] = "done"
      BY <1>0, <2>1 DEF NotBegun
    <3>2. ASSUME NEW q \in Requests, Post(q) \/ Step(q) \/ Cancelled(q) PROVE answer'[r] = answer[r]
      BY <1>0, <3>1, <3>2 DEF Post, Step, Read, WriteAnyway, ReadBack, Swap, SwapFails, Publish,
                              Cancelled, Reply, Return, Goto
    <3>3. ASSUME NEW q \in Requests, NEW call \in Calls, NEW rev \in Revisions \cup {NoRevision},
                 Begin(q, call, rev)
          PROVE  answer'[r] = answer[r]
      BY <3>3 DEF Begin
    <3> QED BY <2>1, <3>2, <3>3 DEF Next, vars, handler
  <2> QED BY <2>1 DEF NInv, Announced
<1>2. ASSUME NEW r \in Requests, Post(r) PROVE Told'
  <2>1. doc' # NoDoc
    BY <1>0, <1>2 DEF Post, Store, NoDoc
  <2>2. pc'[r] = "publish" /\ method'[r] # "delete" /\ out'[r] = doc'
    BY <1>0, <1>2 DEF Post, Return, NotBegun
  <2> QED BY <2>1, <2>2, ToldAnew
<1>3. ASSUME NEW r \in Requests, NEW call \in Calls, NEW rev \in Revisions \cup {NoRevision},
             Begin(r, call, rev)
      PROVE  Told'
  <2>1. /\ clock > 0
        /\ doc' = doc /\ feed' = feed /\ out' = out
        /\ \A q \in Requests : pc[q] # "idle" => pc'[q] = pc[q] /\ method'[q] = method[q]
    BY <1>0, <1>3 DEF Begin
  <2> QED BY <1>0, <1>1, <2>1, ToldKept DEF StillTells
<1>4. ASSUME NEW r \in Requests, Read(r) PROVE Told'
  <2>1. /\ UNCHANGED <<row, feed, method, out>>
        /\ pc[r] = "read"
        /\ \A q \in Requests \ {r} : pc'[q] = pc[q]
    BY <1>0, <1>4 DEF Read, Reply
  <2> QED BY <1>0, <1>1, <2>1, ToldKept DEF StillTells
<1>5. ASSUME NEW r \in Requests, Store(r, Body(r)), UNCHANGED method, method[r] # "delete",
             pc'[r] = "readback" \/ (pc'[r] = "publish" /\ out'[r] = doc')
      PROVE  Told'
  <2>1. doc' # NoDoc
    BY <1>0, <1>5 DEF Store, NoDoc
  <2> QED BY <1>5, <2>1, ToldAnew
<1>6. ASSUME NEW r \in Requests, Erase(r), UNCHANGED method, method[r] = "delete",
             pc'[r] = "publish"
      PROVE  Told'
  BY <1>6, ToldAnew DEF Erase
<1>7. ASSUME NEW r \in Requests, WriteAnyway(r) PROVE Told'
  <2>1. CASE Reply(r, "missing") /\ UNCHANGED row
    <3>1. /\ UNCHANGED <<row, feed, method, out>>
          /\ pc[r] = "write"
          /\ \A q \in Requests \ {r} : pc'[q] = pc[q]
      BY <1>0, <1>7, <2>1 DEF WriteAnyway, Reply
    <3> QED BY <1>0, <1>1, <3>1, ToldKept DEF StillTells
  <2>2. CASE method[r] # "delete" /\ Store(r, Body(r)) /\ Goto(r, "readback")
    BY <1>0, <1>5, <2>2 DEF Goto
  <2>3. CASE method[r] = "delete" /\ Erase(r) /\ Return(r, NoDoc)
    BY <1>0, <1>6, <2>3 DEF Return
  <2> QED BY <1>7, <2>1, <2>2, <2>3 DEF WriteAnyway
<1>8. ASSUME NEW r \in Requests, Swap(r) PROVE Told'
  <2>1. CASE method[r] = "delete" /\ Erase(r) /\ Return(r, NoDoc)
    BY <1>0, <1>6, <2>1 DEF Return
  <2>2. CASE method[r] # "delete" /\ Store(r, Body(r)) /\ Return(r, doc')
    BY <1>0, <1>5, <2>2 DEF Return
  <2> QED BY <1>8, <2>1, <2>2 DEF Swap
<1>9. ASSUME NEW r \in Requests, ReadBack(r) PROVE Told'
  <2>1. /\ UNCHANGED <<row, feed, method>>
        /\ pc[r] = "readback"
        /\ \A q \in Requests \ {r} : pc'[q] = pc[q] /\ out'[q] = out[q]
        /\ doc # NoDoc => pc'[r] = "publish" /\ out'[r] = doc
    BY <1>0, <1>9 DEF ReadBack, Reply, Return
  <2>2. \A q \in Requests \ {r} : StillTells(q)
    BY <2>1 DEF StillTells
  <2>3. StillTells(r)
    BY <2>1 DEF StillTells
  <2> QED BY <1>0, <1>1, <2>1, <2>2, <2>3, ToldKept
<1>10. ASSUME NEW r \in Requests, SwapFails(r) \/ Cancelled(r) PROVE Told'
  <2>1. /\ UNCHANGED <<row, feed, method>>
        /\ pc[r] \in {"read", "write"}
        /\ \A q \in Requests \ {r} : pc'[q] = pc[q] /\ out'[q] = out[q]
    <3>1. CASE SwapFails(r)
      BY <1>0, <3>1 DEF SwapFails, Reply, Return
    <3>2. CASE Cancelled(r)
      BY <1>0, <3>2 DEF Cancelled, Reply, Return
    <3> QED BY <1>10, <3>1, <3>2
  <2> QED BY <1>0, <1>1, <2>1, ToldKept DEF StillTells
<1>11. ASSUME NEW r \in Requests, Publish(r) PROVE Told'
  <2> DEFINE n == Len(feed) + 1
  <2>1. UNCHANGED <<row, method, out>> /\ \A q \in Requests \ {r} : pc'[q] = pc[q]
    BY <1>0, <1>11 DEF Publish, Reply
  <2>2. /\ \A i \in DOMAIN feed : i \in DOMAIN feed' /\ feed'[i] = feed[i]
        /\ n \in DOMAIN feed' /\ feed'[n].body = out[r]
        /\ feed'[n].event = "delete" <=> method[r] = "delete"
    BY <1>0, <1>11 DEF Publish
  <2>3. \A q \in Requests \ {r} : StillTells(q)
    BY <2>1 DEF StillTells
  <2>4. StillTells(r)
    BY <1>11, <2>2 DEF StillTells, Publish
  <2> QED BY <1>0, <1>1, <2>1, <2>2, <2>3, <2>4, ToldKept
<1>12. CASE UNCHANGED vars
  BY <1>0, <1>1, <1>12, ToldKept DEF StillTells, vars, handler
<1> QED
  BY <1>2, <1>3, <1>4, <1>7, <1>8, <1>9, <1>10, <1>11, <1>12 DEF Next, Step

LEMMA NInvHolds == Spec => []NInv
<1>1. Init => NInv
  BY InitAInv, InitNotBegun DEF Init, NInv, Announced
<1>2. NInv /\ [Next]_vars => NInv'
  <2>1. NInv /\ [Next]_vars => AInv'
    BY TypeStep, StepAInv DEF NInv, AInv
  <2>2. NInv /\ [Next]_vars => NotBegun'
    BY NotBegunStep DEF NInv, AInv
  <2> QED BY <2>1, <2>2, ToldStep DEF NInv
<1> QED BY <1>1, <1>2, PTL DEF Spec

\* When every request has ended and no client left early, the version that stayed, or the
\* removal, has been published, whatever else was published after it.
THEOREM LastVersionAnnounced == Spec => []FinalAnnounced
<1>1. NInv => FinalAnnounced
  <2> SUFFICES ASSUME NInv, Done = Requests, clock > 0, \A r \in Requests : answer[r] # "error"
               PROVE  \E i \in DOMAIN feed :
                          IF doc = NoDoc THEN feed[i].event = "delete"
                          ELSE feed[i].event # "delete" /\ feed[i].body = doc
    BY DEF FinalAnnounced
  <2>1. Told
    BY DEF NInv, Announced
  <2>2. ASSUME NEW r \in Requests PROVE pc[r] = "done"
    <3>1. r \in Done
      OBVIOUS
    <3> QED BY <3>1 DEF Done
  <2> QED BY <2>1, <2>2 DEF Told
<1> QED BY <1>1, NInvHolds, PTL

(***************************************************************************)
(* The document as the object of DocumentRegister.  A revision tells the   *)
(* version, so a handler that finds the version it read, or another, finds *)
(* the revision the client named, or another.                              *)
(***************************************************************************)
StampsCount == \A v \in history : v.stamp \in 1 .. clock

StampTells == \A u, v \in history : u.stamp = v.stamp => u = v

SeenSoFar ==
    \A r \in Requests :
        /\ pc[r] \in {"idle", "read"} => seen[r] = NoDoc
        /\ pc[r] = "write" /\ (Conditional(r) \/ method[r] = "patch") => seen[r] \in history

\* Only PutDocument reads the row again.
ReadsBack ==
    \A r \in Requests : pc[r] = "readback" => ~Conditional(r) /\ method[r] \in {"put", "patch"}

VInv == AInv /\ SeenMatches /\ NotBegun /\ StampsCount /\ StampTells /\ SeenSoFar /\ ReadsBack

LEMMA StoreVersions ==
    ASSUME AInv, StampsCount, StampTells, NEW r \in Requests, NEW data, Store(r, data)
    PROVE  /\ StampsCount' /\ StampTells'
           /\ history \subseteq history'
<1>1. clock \in Nat /\ clock' = clock + 1
  BY DEF Store, AInv, TypeOK
<1>2. history' = history \cup {[stamp |-> clock + 1, data |-> data]}
  BY DEF Store
<1>3. StampsCount'
  BY <1>1, <1>2 DEF StampsCount
<1>4. StampTells'
  BY <1>1, <1>2 DEF StampsCount, StampTells
<1> QED BY <1>2, <1>3, <1>4

LEMMA VersionsStep == ASSUME VInv, [Next]_vars PROVE StampsCount' /\ StampTells' /\ history \subseteq history'
<1> USE DEF VInv
<1>1. ASSUME UNCHANGED <<clock, history>> PROVE StampsCount' /\ StampTells' /\ history \subseteq history'
  BY <1>1 DEF StampsCount, StampTells
<1>2. ASSUME NEW r \in Requests, Post(r)
      PROVE  StampsCount' /\ StampTells' /\ history \subseteq history'
  BY <1>2, StoreVersions DEF Post
<1>3. ASSUME NEW r \in Requests, WriteAnyway(r) \/ Swap(r)
      PROVE  StampsCount' /\ StampTells' /\ history \subseteq history'
  BY <1>1, <1>3, StoreVersions DEF WriteAnyway, Swap, Erase, row
<1>4. ASSUME NEW r \in Requests, Read(r) \/ ReadBack(r) \/ SwapFails(r) \/ Publish(r) \/ Cancelled(r)
      PROVE  StampsCount' /\ StampTells' /\ history \subseteq history'
  BY <1>1, <1>4 DEF Read, ReadBack, SwapFails, Publish, Cancelled, row
<1>5. ASSUME NEW r \in Requests, NEW call \in Calls, NEW rev \in Revisions \cup {NoRevision},
             Begin(r, call, rev)
      PROVE  StampsCount' /\ StampTells' /\ history \subseteq history'
  BY <1>1, <1>5 DEF Begin, row
<1>6. CASE UNCHANGED vars
  BY <1>1, <1>6 DEF vars, row
<1> QED BY <1>2, <1>3, <1>4, <1>5, <1>6 DEF Next, Step

LEMMA SeenSoFarStep == ASSUME VInv, [Next]_vars PROVE SeenSoFar'
<1>0. history \subseteq history'
  BY VersionsStep
<1> USE <1>0 DEF VInv, AInv, TypeOK, SeenSoFar, Conditional
<1>1. ASSUME NEW r \in Requests, Post(r) PROVE SeenSoFar'
  BY <1>1 DEF Post, Return
<1>2. ASSUME NEW r \in Requests, NEW call \in Calls, NEW rev \in Revisions \cup {NoRevision},
             Begin(r, call, rev)
      PROVE  SeenSoFar'
  BY <1>2 DEF Begin, row
<1>3. ASSUME NEW r \in Requests, Read(r) PROVE SeenSoFar'
  <2>1. CASE pc'[r] = "done"
    BY <1>3, <2>1 DEF Read, Reply, row
  <2>2. CASE pc'[r] # "done"
    <3>1. /\ doc \in history /\ seen' = [seen EXCEPT ![r] = doc] /\ pc' = [pc EXCEPT ![r] = "write"]
          /\ UNCHANGED <<method, match, history>>
      BY <1>3, <2>2 DEF Read, Reply, row, RowInHistory
    <3> QED BY <3>1
  <2> QED BY <2>1, <2>2
<1>4. ASSUME NEW r \in Requests,
             \/ WriteAnyway(r) \/ ReadBack(r) \/ Swap(r) \/ SwapFails(r) \/ Publish(r) \/ Cancelled(r)
      PROVE  SeenSoFar'
  <2>1. /\ UNCHANGED <<method, match, seen>>
        /\ pc'[r] \in {"readback", "publish", "done"}
        /\ \A q \in Requests \ {r} : pc'[q] = pc[q]
    BY <1>4 DEF WriteAnyway, ReadBack, Swap, SwapFails, Publish, Cancelled, Reply, Return, Goto
  <2> QED BY <2>1
<1>5. CASE UNCHANGED vars
  BY <1>5 DEF vars, handler
<1> QED BY <1>1, <1>2, <1>3, <1>4, <1>5 DEF Next, Step

LEMMA ReadsBackStep == ASSUME VInv, [Next]_vars PROVE ReadsBack'
<1> USE DEF VInv, AInv, TypeOK, ReadsBack, Conditional
<1>1. ASSUME NEW r \in Requests, WriteAnyway(r) PROVE ReadsBack'
  <2>1. /\ UNCHANGED <<method, match>> /\ \A q \in Requests \ {r} : pc'[q] = pc[q]
        /\ pc'[r] = "readback" => method[r] # "delete"
        /\ pc[r] = "write" /\ match[r] = NoRevision
    BY <1>1 DEF WriteAnyway, Reply, Goto, Return
  <2>2. method[r] # "post"
    BY <2>1 DEF NotBegun
  <2> QED BY <2>1, <2>2 DEF Methods
<1>2. ASSUME NEW r \in Requests,
             \/ Post(r) \/ Read(r) \/ ReadBack(r) \/ Swap(r) \/ SwapFails(r) \/ Publish(r) \/ Cancelled(r)
      PROVE  ReadsBack'
  <2>1. /\ UNCHANGED <<method, match>> /\ \A q \in Requests \ {r} : pc'[q] = pc[q]
        /\ pc'[r] # "readback"
    BY <1>2 DEF Post, Read, ReadBack, Swap, SwapFails, Publish, Cancelled, Reply, Return
  <2> QED BY <2>1
<1>3. ASSUME NEW r \in Requests, NEW call \in Calls, NEW rev \in Revisions \cup {NoRevision},
             Begin(r, call, rev)
      PROVE  ReadsBack'
  BY <1>3 DEF Begin
<1>4. CASE UNCHANGED vars
  BY <1>4 DEF vars, handler
<1> QED BY <1>1, <1>2, <1>3, <1>4 DEF Next, Step

LEMMA VInvHolds == Spec => []VInv
<1>1. Init => VInv
  BY InitAInv, InitNotBegun
  DEF Init, VInv, SeenMatches, Conditional, StampsCount, StampTells, SeenSoFar, ReadsBack
<1>2. VInv /\ [Next]_vars => VInv'
  <2>1. VInv /\ [Next]_vars => AInv'
    BY TypeStep, StepAInv DEF VInv, AInv
  <2>2. VInv /\ [Next]_vars => SeenMatches' /\ NotBegun'
    BY SeenStep, NotBegunStep DEF VInv, AInv
  <2> QED BY <2>1, <2>2, VersionsStep, SeenSoFarStep, ReadsBackStep DEF VInv
<1> QED BY <1>1, <1>2, PTL DEF Spec

\* How far a request has come, and what it merges into.
Progress ==
    [r \in Requests |->
        IF pc[r] = "idle" THEN "new"
        ELSE IF pc[r] = "done" THEN "ended"
        ELSE IF r \in applied THEN "took" ELSE "open"]

Base == [r \in Requests |-> IF method[r] = "patch" /\ ~Conditional(r) THEN seen[r] ELSE NoDoc]

Same == UNCHANGED <<doc, clock, Progress, method, match, Base, answer>>

\* One handler moves on; the others are where they were.
OneMoves(r, now) ==
    /\ \A q \in Requests \ {r} : pc'[q] = pc[q] /\ (q \in applied' <=> q \in applied)
    /\ Progress'[r] = now

LEMMA ProgressOf ==
    ASSUME NEW r \in Requests, NEW now, OneMoves(r, now)
    PROVE  Progress' = [Progress EXCEPT ![r] = now]
  BY DEF Progress, OneMoves

\* The end of a handler is the end of its request.
LEMMA ReplyEnds ==
    ASSUME VInv, NEW r \in Requests, NEW a, Reply(r, a), UNCHANGED row
    PROVE  Register!End(r, a)
<1>1. Progress' = [Progress EXCEPT ![r] = "ended"]
  <2>1. OneMoves(r, "ended")
    BY DEF OneMoves, Progress, Reply, row, VInv, AInv, TypeOK
  <2> QED BY <2>1, ProgressOf
<1>2. UNCHANGED <<doc, clock, method, match, Base>> /\ answer' = [answer EXCEPT ![r] = a]
  BY DEF Reply, row, Base, Conditional
<1> QED BY <1>1, <1>2 DEF Register!End, Progress, Base

\* A handler that writes makes its request take effect.
LEMMA WriteTakes ==
    ASSUME VInv, NEW r \in Requests, applied' = applied \cup {r},
           pc' = [pc EXCEPT ![r] = "publish"] \/ pc' = [pc EXCEPT ![r] = "readback"],
           UNCHANGED <<method, match, seen, answer>>
    PROVE  Register!Took(r)
<1>1. Progress' = [Progress EXCEPT ![r] = "took"]
  <2>1. OneMoves(r, "took")
    BY DEF OneMoves, Progress, VInv, AInv, TypeOK
  <2> QED BY <2>1, ProgressOf
<1>2. UNCHANGED Base
  BY DEF Base, Conditional
<1> QED BY <1>1, <1>2 DEF Register!Took, Progress, Base

\* A handler that only moves on does nothing a client can see.
LEMMA MovesUnseen ==
    ASSUME VInv, NEW r \in Requests, UNCHANGED <<row, method, match, seen, answer>>,
           pc[r] \notin {"idle", "done"},
           \E step \in {"write", "publish"} : pc' = [pc EXCEPT ![r] = step]
    PROVE  Same
<1>1. Progress' = Progress
  BY DEF Progress, row, VInv, AInv, TypeOK
<1>2. UNCHANGED Base
  BY DEF Base, Conditional
<1> QED BY <1>1, <1>2 DEF Same, row

LEMMA PatchesMerge ==
    ASSUME VInv, NEW r \in Requests, pc[r] = "write", method[r] = "patch", ~Conditional(r)
    PROVE  Base[r] = seen[r] /\ seen[r] # NoDoc
<1>1. seen[r] \in history
  BY DEF VInv, SeenSoFar
<1>2. seen[r].stamp >= 1
  BY <1>1 DEF VInv, StampsCount, AInv, TypeOK
<1> QED BY <1>2 DEF Base, NoDoc

LEMMA RegisterStep == VInv /\ [Next]_vars => Register!Next \/ Same
<1> SUFFICES ASSUME VInv, [Next]_vars PROVE Register!Next \/ Same
  OBVIOUS
<1>0. TypeOK /\ CommitCounted /\ NotBegun
  BY DEF VInv, AInv
<1>1. ASSUME NEW r \in Requests, Post(r) PROVE Register!Create(r)
  <2>1. /\ Store(r, {r}) /\ pc[r] = "idle" /\ clock = 0 /\ pc' = [pc EXCEPT ![r] = "publish"]
        /\ UNCHANGED <<method, match, seen, answer>>
    BY <1>1 DEF Post, Return
  <2>2. Register!Took(r)
    BY <2>1, WriteTakes DEF Store
  <2>3. Register!Write({r})
    BY <2>1 DEF Store, Register!Write
  <2> QED BY <2>1, <2>2, <2>3 DEF Register!Create
<1>2. ASSUME NEW r \in Requests, NEW call \in Calls, NEW rev \in Revisions \cup {NoRevision},
             Begin(r, call, rev)
      PROVE  Register!Ask(r, call[1], rev) /\ call[1] \in {"put", "patch", "delete"} /\ rev \in 0 .. clock
  <2>1. call[1] \in {"put", "patch", "delete"}
    BY <1>2, CallAssumption DEF Begin, Methods
  <2>2. rev \in 0 .. clock
    BY <1>0 DEF VInv, StampsCount, Revisions, NoRevision, TypeOK
  <2>3. /\ pc[r] = "idle" /\ clock > 0 /\ pc'[r] \in {"read", "write"}
        /\ \A q \in Requests \ {r} : pc'[q] = pc[q]
        /\ method' = [method EXCEPT ![r] = call[1]] /\ match' = [match EXCEPT ![r] = rev]
        /\ UNCHANGED <<row, seen, answer>>
    BY <1>0, <1>2 DEF Begin, TypeOK
  <2>4. Progress' = [Progress EXCEPT ![r] = "open"]
    <3>1. OneMoves(r, "open")
      BY <1>0, <2>3 DEF OneMoves, Progress, row, NotBegun
    <3> QED BY <3>1, ProgressOf
  <2>5. UNCHANGED Base
    <3>1. \A q \in Requests \ {r} : method'[q] = method[q] /\ match'[q] = match[q]
      BY <1>0, <2>3 DEF TypeOK
    <3>2. seen[r] = NoDoc
      BY <2>3 DEF VInv, SeenSoFar
    <3> QED BY <2>3, <3>1, <3>2 DEF Base, Conditional
  <2> QED BY <2>1, <2>2, <2>3, <2>4, <2>5 DEF Register!Ask, Progress, Base, row
<1>3. ASSUME NEW r \in Requests, Read(r) PROVE Register!Look(r) \/ Register!Refuse(r) \/ Same
  <2>1. Progress[r] = "open"
    BY <1>0, <1>3 DEF Progress, Read, CommitCounted
  <2>2. CASE doc = NoDoc /\ Reply(r, "missing")
    BY <1>3, <2>1, <2>2, ReplyEnds DEF Read, Register!Refuse, Progress, Register!NoDoc, NoDoc
  <2>3. CASE doc # NoDoc /\ Conditional(r) /\ doc.stamp # match[r] /\ Reply(r, "conflict")
    BY <1>3, <2>1, <2>3, ReplyEnds DEF Read, Register!Refuse, Register!Named, Conditional, Progress,
                                       Register!NoDoc, NoDoc, Register!NoRevision, NoRevision
  <2>4. CASE /\ doc # NoDoc
             /\ pc' = [pc EXCEPT ![r] = "write"] /\ seen' = [seen EXCEPT ![r] = doc]
             /\ UNCHANGED <<method, match, answer>>
    <3>1. Progress' = Progress /\ UNCHANGED row
      BY <1>0, <1>3, <2>4 DEF Progress, Read, row, TypeOK
    <3>2. CASE method[r] = "patch" /\ ~Conditional(r)
      <4>1. Base' = [Base EXCEPT ![r] = doc]
        BY <1>0, <2>4, <3>2 DEF Base, Conditional, TypeOK
      <4> QED BY <2>1, <2>4, <3>1, <3>2, <4>1
              DEF Register!Look, Progress, Base, Conditional, row, Register!NoDoc, NoDoc,
                  Register!NoRevision, NoRevision
    <3>3. CASE ~(method[r] = "patch" /\ ~Conditional(r))
      <4>1. Base' = Base
        BY <1>0, <2>4, <3>3 DEF Base, Conditional, TypeOK
      <4> QED BY <2>4, <3>1, <4>1 DEF Same, row
    <3> QED BY <3>2, <3>3
  <2> QED BY <1>3, <2>2, <2>3, <2>4 DEF Read
<1>4. ASSUME NEW r \in Requests, WriteAnyway(r) PROVE Register!Refuse(r) \/ Register!TakeEffect(r)
  <2>1. Progress[r] = "open" /\ pc[r] = "write" /\ ~Conditional(r) /\ method[r] # "post"
    BY <1>0, <1>4 DEF Progress, WriteAnyway, CommitCounted, NotBegun
  <2>2. match[r] = Register!NoRevision /\ Register!Named(r)
    BY <2>1 DEF Conditional, Register!Named, Register!NoRevision, NoRevision
  <2>3. CASE doc = NoDoc /\ Reply(r, "missing") /\ UNCHANGED row
    BY <2>1, <2>3, ReplyEnds DEF Register!Refuse, Progress, Register!NoDoc, NoDoc
  <2>4. CASE doc # NoDoc /\ method[r] # "delete" /\ Store(r, Body(r)) /\ Goto(r, "readback")
    <3>1. Register!Took(r)
      BY <2>4, WriteTakes DEF Store, Goto
    <3>2. CASE method[r] = "patch"
      <4>1. Base[r] = seen[r] /\ Base[r] # Register!NoDoc
        BY <2>1, <3>2, PatchesMerge DEF Register!NoDoc, NoDoc
      <4>2. Register!Write(Base[r].data \cup {r})
        BY <2>4, <3>2, <4>1 DEF Store, Body, Register!Write
      <4>3. Register!Patch(r)
        BY <2>2, <3>2, <4>1, <4>2 DEF Register!Patch, Base
      <4> QED BY <2>1, <2>2, <2>4, <3>1, <4>3 DEF Register!TakeEffect, Progress, Register!NoDoc, NoDoc
    <3>3. CASE method[r] = "put"
      <4>1. Register!Put(r)
        BY <2>4, <3>3 DEF Store, Body, Register!Put, Register!Write
      <4> QED BY <2>1, <2>2, <2>4, <3>1, <4>1 DEF Register!TakeEffect, Progress, Register!NoDoc, NoDoc
    <3> QED BY <1>0, <2>1, <2>4, <3>2, <3>3 DEF TypeOK, Methods
  <2>5. CASE doc # NoDoc /\ method[r] = "delete" /\ Erase(r) /\ Return(r, NoDoc)
    <3>1. Register!Took(r)
      BY <2>5, WriteTakes DEF Erase, Return
    <3>2. Register!Delete(r)
      BY <2>5 DEF Erase, Register!Delete, Register!NoDoc, NoDoc
    <3> QED BY <2>1, <2>2, <2>5, <3>1, <3>2 DEF Register!TakeEffect, Progress, Register!NoDoc, NoDoc
  <2> QED BY <1>4, <2>3, <2>4, <2>5 DEF WriteAnyway
<1>5. ASSUME NEW r \in Requests, ReadBack(r) PROVE Register!Succeed(r) \/ Same
  <2>1. Progress[r] = "took" /\ pc[r] = "readback" /\ UNCHANGED row
    BY <1>0, <1>5 DEF Progress, ReadBack, CommitCounted
  <2>2. CASE doc = NoDoc /\ Reply(r, "missing")
    <3>1. Register!LooksAgain(r)
      BY <2>1 DEF VInv, ReadsBack, Register!LooksAgain, Register!NoRevision, Conditional, NoRevision
    <3> QED BY <2>1, <2>2, <3>1, ReplyEnds DEF Register!Succeed, Progress, Register!NoDoc, NoDoc
  <2>3. CASE Return(r, doc)
    BY <2>1, <2>3, MovesUnseen DEF Return
  <2> QED BY <1>5, <2>2, <2>3 DEF ReadBack
<1>6. ASSUME NEW r \in Requests, Swap(r) PROVE Register!TakeEffect(r)
  <2>1. /\ Progress[r] = "open" /\ pc[r] = "write" /\ method[r] # "post"
        /\ doc # NoDoc /\ doc = seen[r] /\ match[r] # NoRevision /\ doc.stamp = match[r]
    BY <1>0, <1>6 DEF Progress, Swap, Unchanged, Conditional, CommitCounted, NotBegun, VInv, SeenMatches
  <2>2. Register!Took(r)
    BY <1>6, WriteTakes DEF Swap, Store, Erase, Return
  <2>3. Register!Put(r) \/ Register!Patch(r) \/ Register!Delete(r)
    <3>1. CASE method[r] = "delete" /\ Erase(r)
      BY <3>1 DEF Erase, Register!Delete, Register!NoDoc, NoDoc
    <3>2. CASE method[r] = "put" /\ Store(r, Body(r))
      BY <3>2 DEF Store, Body, Register!Put, Register!Write
    <3>3. CASE method[r] = "patch" /\ Store(r, Body(r))
      <4>1. Register!Write(doc.data \cup {r})
        BY <2>1, <3>3 DEF Store, Body, Register!Write
      <4> QED BY <2>1, <3>3, <4>1 DEF Register!Patch, Register!NoRevision, NoRevision
    <3> QED BY <1>0, <1>6, <2>1, <3>1, <3>2, <3>3 DEF Swap, TypeOK, Methods
  <2> QED BY <2>1, <2>2, <2>3
          DEF Register!TakeEffect, Register!Named, Progress, Register!NoDoc, NoDoc
<1>7. ASSUME NEW r \in Requests, SwapFails(r) PROVE Register!Refuse(r) \/ Same
  <2>1. Progress[r] = "open" /\ pc[r] = "write" /\ Conditional(r) /\ UNCHANGED row
    BY <1>0, <1>7 DEF Progress, SwapFails, CommitCounted
  <2>2. CASE Swallows(r) /\ Return(r, NoDoc)
    BY <2>1, <2>2, MovesUnseen DEF Return
  <2>3. CASE doc = NoDoc /\ Reply(r, "missing")
    BY <2>1, <2>3, ReplyEnds DEF Register!Refuse, Progress, Register!NoDoc, NoDoc
  <2>4. CASE doc # NoDoc /\ Reply(r, "conflict")
    <3>1. doc # seen[r] /\ doc \in history /\ seen[r] \in history /\ seen[r].stamp = match[r]
      BY <1>7, <2>1, <2>4 DEF SwapFails, Unchanged, VInv, AInv, RowInHistory, SeenSoFar, SeenMatches
    <3>2. doc.stamp # match[r]
      BY <3>1 DEF VInv, StampTells
    <3> QED BY <2>1, <2>4, <3>2, ReplyEnds
            DEF Register!Refuse, Register!Named, Conditional, Progress, Register!NoDoc, NoDoc,
                Register!NoRevision, NoRevision
  <2> QED BY <1>7, <2>2, <2>3, <2>4 DEF SwapFails
<1>8. ASSUME NEW r \in Requests, Publish(r) PROVE Register!Succeed(r) \/ Register!Pretend(r)
  <2>1. pc[r] = "publish" /\ Register!End(r, "ok")
    BY <1>8, ReplyEnds DEF Publish
  <2>2. CASE r \in applied
    BY <2>1, <2>2 DEF Register!Succeed, Progress
  <2>3. CASE r \notin applied
    <3>1. Swallows(r) /\ Progress[r] = "open"
      BY <1>0, <2>1, <2>3 DEF CommitCounted, Progress
    <3> QED BY <2>1, <3>1 DEF Swallows, Conditional, Register!Pretend, Progress,
                              Register!NoRevision, NoRevision
  <2> QED BY <2>2, <2>3
<1>9. ASSUME NEW r \in Requests, Cancelled(r) PROVE Register!Leave(r) \/ Same
  <2>1. pc[r] \in {"read", "write", "readback"} /\ UNCHANGED row
    BY <1>9 DEF Cancelled
  <2>2. CASE Return(r, NoDoc)
    BY <2>1, <2>2, MovesUnseen DEF Return
  <2>3. CASE Reply(r, "error")
    <3>1. Register!End(r, "error")
      BY <2>1, <2>3, ReplyEnds
    <3>2. Progress[r] = "open" \/ (Progress[r] = "took" /\ Register!LooksAgain(r))
      BY <1>0, <2>1
      DEF VInv, ReadsBack, Progress, CommitCounted, Register!LooksAgain, Register!NoRevision, Conditional, NoRevision
    <3> QED BY <3>1, <3>2 DEF Register!Leave, Progress
  <2> QED BY <1>9, <2>2, <2>3 DEF Cancelled
<1>10. CASE UNCHANGED vars
  BY <1>10 DEF Same, vars, row, handler, Progress, Base, Conditional
<1> QED BY <1>1, <1>2, <1>3, <1>4, <1>5, <1>6, <1>7, <1>8, <1>9, <1>10 DEF Next, Step, Register!Next

\* What clients see of a document is an object on which each request takes effect at one
\* moment, once or not at all and on the revision it names, or is refused for a reason
\* that holds then.
THEOREM DocumentIsRegister == Spec => RegisterKept
<1>1. Init => Register!Init
  BY DEF Init, Register!Init, Conditional, NoDoc, Register!NoDoc, NoRevision, Register!NoRevision
<1>2. VInv /\ [Next]_vars => [Register!Next]_(Register!vars)
  BY RegisterStep DEF Same, Progress, Base, Register!vars
<1> QED BY <1>1, <1>2, VInvHolds, PTL DEF Spec, RegisterKept, Register!Spec
===============================================================================

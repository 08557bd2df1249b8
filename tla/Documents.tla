------------------------------- MODULE Documents -------------------------------
(***************************************************************************)
(* One document of a site's collection under concurrent HTTP requests:     *)
(* handleDB (server/internal/api/handler.go) over the documents table      *)
(* (server/internal/store/store.go), and the events the handlers publish   *)
(* on the channel db:<collection>.                                         *)
(*                                                                         *)
(* A handler runs several SQL statements; the writes that name a revision  *)
(* compare and swap in one transaction, the others do not.  A revision is  *)
(* a hash of the id, updated_at and the data; here it is the stamp of the  *)
(* write, unique because updated_at has nanosecond resolution.  The data   *)
(* is the set of requests whose fields it holds: a patch merges its own    *)
(* field into what it read, a put replaces everything.                     *)
(***************************************************************************)
EXTENDS Naturals, Sequences

CONSTANTS
    Requests,    \* the HTTP requests on this document
    Calls        \* what they may be: pairs <<method, whether it names a revision>>

Methods == {"post", "put", "patch", "delete"}

ASSUME CallAssumption == Calls \subseteq Methods \X BOOLEAN

VARIABLES
    doc,         \* the row: its version, or NoDoc
    clock,       \* writes so far, the source of updated_at
    feed,        \* the events of db:<collection>, in the order of publication
    history,     \* every version the row has had
    applied,     \* the requests whose write was committed
    pc,          \* per request: where its handler is
    method,      \* per request: the HTTP method
    match,       \* per request: the revision of If-Match, or NoRevision
    seen,        \* per request: what GetDocument returned
    out,         \* per request: what it will publish and answer
    answer       \* per request: how it was answered

row == <<doc, clock, history, applied>>
handler == <<pc, method, match, seen, out, answer>>
vars == <<row, feed, handler>>

NoDoc == [stamp |-> 0, data |-> {}]
NoRevision == 0
Versions == [stamp : Nat, data : SUBSET Requests]
Events == [event : {"create", "update", "delete"}, body : Versions, by : Requests]
Steps == {"idle", "read", "write", "readback", "publish", "done"}
Answers == {"none", "ok", "missing", "conflict", "error"}

TypeOK ==
    /\ doc \in Versions
    /\ clock \in Nat
    /\ feed \in Seq(Events)
    /\ history \in SUBSET Versions
    /\ applied \in SUBSET Requests
    /\ pc \in [Requests -> Steps]
    /\ method \in [Requests -> Methods]
    /\ match \in [Requests -> Nat]
    /\ seen \in [Requests -> Versions]
    /\ out \in [Requests -> Versions]
    /\ answer \in [Requests -> Answers]

Init ==
    /\ doc = NoDoc
    /\ clock = 0
    /\ feed = <<>>
    /\ history = {}
    /\ applied = {}
    /\ pc = [r \in Requests |-> "idle"]
    /\ method = [r \in Requests |-> "post"]
    /\ match = [r \in Requests |-> NoRevision]
    /\ seen = [r \in Requests |-> NoDoc]
    /\ out = [r \in Requests |-> NoDoc]
    /\ answer = [r \in Requests |-> "none"]

Revisions == {v.stamp : v \in history}

Conditional(r) == match[r] # NoRevision

Goto(r, step) ==
    /\ pc' = [pc EXCEPT ![r] = step]
    /\ UNCHANGED <<method, match, seen, out, answer>>

Reply(r, a) ==
    /\ pc' = [pc EXCEPT ![r] = "done"]
    /\ answer' = [answer EXCEPT ![r] = a]
    /\ UNCHANGED <<method, match, seen, out>>

Return(r, version) ==
    /\ pc' = [pc EXCEPT ![r] = "publish"]
    /\ out' = [out EXCEPT ![r] = version]
    /\ UNCHANGED <<method, match, seen, answer>>

\* The row gets a new version with this data.
Store(r, data) ==
    LET version == [stamp |-> clock + 1, data |-> data] IN
        /\ doc' = version
        /\ clock' = clock + 1
        /\ history' = history \cup {version}
        /\ applied' = applied \cup {r}

Erase(r) ==
    /\ doc' = NoDoc
    /\ applied' = applied \cup {r}
    /\ UNCHANGED <<clock, history>>

(***************************************************************************)
(* The handlers                                                            *)
(***************************************************************************)
\* POST makes a new id: it is the first request on it.  The client of any other request
\* knows the id, and may name any revision that was ever answered to it.
Post(r) ==
    /\ pc[r] = "idle"
    /\ <<"post", FALSE>> \in Calls
    /\ clock = 0
    /\ Store(r, {r})
    /\ Return(r, doc')
    /\ UNCHANGED feed

\* A patch and a conditional write read the document first.
Begin(r, call, rev) ==
    /\ pc[r] = "idle"
    /\ clock > 0
    /\ call[1] # "post"
    /\ rev # NoRevision <=> call[2]
    /\ pc' = [pc EXCEPT ![r] = IF call[1] = "patch" \/ call[2] THEN "read" ELSE "write"]
    /\ method' = [method EXCEPT ![r] = call[1]]
    /\ match' = [match EXCEPT ![r] = rev]
    /\ UNCHANGED <<row, feed, seen, out, answer>>

\* GetDocument: absent is 404, another revision than If-Match is 409.
Read(r) ==
    /\ pc[r] = "read"
    /\ \/ doc = NoDoc /\ Reply(r, "missing")
       \/ doc # NoDoc /\ Conditional(r) /\ doc.stamp # match[r] /\ Reply(r, "conflict")
       \/ /\ doc # NoDoc
          /\ Conditional(r) => doc.stamp = match[r]
          /\ pc' = [pc EXCEPT ![r] = "write"]
          /\ seen' = [seen EXCEPT ![r] = doc]
          /\ UNCHANGED <<method, match, out, answer>>
    /\ UNCHANGED <<row, feed>>

\* The data a write stores.
Body(r) == IF method[r] = "patch" THEN seen[r].data \cup {r} ELSE {r}

\* PutDocument and DeleteDocument: one statement, whatever the row holds now.
WriteAnyway(r) ==
    /\ pc[r] = "write"
    /\ ~Conditional(r)
    /\ \/ doc = NoDoc /\ Reply(r, "missing") /\ UNCHANGED row
       \/ doc # NoDoc /\ method[r] # "delete" /\ Store(r, Body(r)) /\ Goto(r, "readback")
       \/ doc # NoDoc /\ method[r] = "delete" /\ Erase(r) /\ Return(r, NoDoc)
    /\ UNCHANGED feed

\* Mutant: the answer is built from the request, only the stamp is read again.
ReadBack_Echo(r) ==
    /\ pc[r] = "readback"
    /\ IF doc = NoDoc THEN Reply(r, "missing")
       ELSE Return(r, [stamp |-> doc.stamp, data |-> Body(r)])
    /\ UNCHANGED <<row, feed>>

\* PutDocument reads the row again, outside any transaction.
ReadBack(r) ==
    /\ pc[r] = "readback"
    /\ IF doc = NoDoc THEN Reply(r, "missing") ELSE Return(r, doc)
    /\ UNCHANGED <<row, feed>>

\* Mutant: the statement of the transaction does not compare the version.
Unchanged_Always(r) == doc # NoDoc

\* UPDATE or DELETE ... AND updated_at=? AND data_json=?
Unchanged(r) == doc # NoDoc /\ doc = seen[r]

\* Mutant: the version that was read is answered, not the one that was written.
Swap_ReturnsOld(r) ==
    /\ pc[r] = "write"
    /\ Conditional(r)
    /\ Unchanged(r)
    /\ \/ method[r] = "delete" /\ Erase(r)
       \/ method[r] # "delete" /\ Store(r, Body(r))
    /\ Return(r, seen[r])
    /\ UNCHANGED feed

\* PutDocumentIfUnchanged and DeleteDocumentIfUnchanged.
Swap(r) ==
    /\ pc[r] = "write"
    /\ Conditional(r)
    /\ Unchanged(r)
    /\ \/ method[r] = "delete" /\ Erase(r) /\ Return(r, NoDoc)
       \/ method[r] # "delete" /\ Store(r, Body(r)) /\ Return(r, doc')
    /\ UNCHANGED feed

\* A conditional PUT or DELETE assigns the error of its write to a variable of the inner
\* block (`current, err :=`, `old, err :=`) and goes on as if the write had happened.
Swallows(r) == Conditional(r) /\ method[r] \in {"put", "delete"}

\* Mutant: a document that is gone is not told from one that has changed.
SwapFails_Conflict(r) ==
    /\ pc[r] = "write"
    /\ Conditional(r)
    /\ ~Unchanged(r)
    /\ IF Swallows(r) THEN Return(r, NoDoc) ELSE Reply(r, "conflict")
    /\ UNCHANGED <<row, feed>>

\* The transaction finds another version or none.  PATCH answers that.
SwapFails(r) ==
    /\ pc[r] = "write"
    /\ Conditional(r)
    /\ ~Unchanged(r)
    /\ IF Swallows(r) THEN Return(r, NoDoc)
       ELSE Reply(r, IF doc = NoDoc THEN "missing" ELSE "conflict")
    /\ UNCHANGED <<row, feed>>

\* The event goes out after the commit, in no order with other handlers; then the answer.
Publish(r) ==
    /\ pc[r] = "publish"
    /\ feed' = Append(feed, [event |-> CASE method[r] = "post" -> "create"
                                         [] method[r] = "delete" -> "delete"
                                         [] OTHER -> "update",
                             body |-> out[r], by |-> r])
    /\ Reply(r, "ok")
    /\ UNCHANGED row

\* The client goes away: its context cancels the statement that comes next.
Cancelled(r) ==
    /\ pc[r] \in {"read", "write", "readback"}
    /\ IF pc[r] = "write" /\ Swallows(r) THEN Return(r, NoDoc) ELSE Reply(r, "error")
    /\ UNCHANGED <<row, feed>>

Step(r) ==
    \/ Read(r) \/ WriteAnyway(r) \/ ReadBack(r) \/ Swap(r) \/ SwapFails(r) \/ Publish(r)

Next ==
    \E r \in Requests :
        \/ Post(r)
        \/ \E call \in Calls, rev \in Revisions \cup {NoRevision} : Begin(r, call, rev)
        \/ Step(r)
        \/ Cancelled(r)

Spec == Init /\ [][Next]_vars

(***************************************************************************)
(* Properties                                                              *)
(***************************************************************************)
Done == {r \in Requests : pc[r] = "done"}

\* If-Match: a conditional request changes the document only while the document has
\* the revision the client named, whatever was written between its read and its write.
ConditionalExact ==
    [][\A r \in Requests :
         r \in applied' \ applied /\ Conditional(r) => doc.stamp = match[r]]_vars

\* Nobody has put, or patched without a revision.
OnlyCheckedPatches ==
    \A r \in Requests :
        /\ method[r] # "put"
        /\ method[r] = "patch" => Conditional(r)

\* Among clients that patch with a revision no acknowledged field is ever lost.
AckedPatchesKept ==
    OnlyCheckedPatches =>
        \A r \in Done :
            doc # NoDoc /\ answer[r] = "ok" /\ method[r] # "delete" => r \in doc.data

\* An answer means what it says: success only for a write that was committed (but see
\* Swallows), and a conflict only for one that was not.
AnswersTrue ==
    \A r \in Done :
        /\ answer[r] = "ok" => r \in applied \/ Swallows(r)
        /\ answer[r] = "conflict" => r \notin applied

\* A create or update event carries a version the document really had, unless its
\* handler swallowed the error of the write.
EventsTrue ==
    \A i \in DOMAIN feed :
        feed[i].event # "delete" => feed[i].body \in history \/ Swallows(feed[i].by)

\* When every request has ended and no client left early, the version that stayed, or
\* the removal, has been published; some later event may contradict it.
FinalAnnounced ==
    Done = Requests /\ clock > 0 /\ (\A r \in Requests : answer[r] # "error") =>
        \E i \in DOMAIN feed :
            IF doc = NoDoc THEN feed[i].event = "delete"
            ELSE feed[i].event # "delete" /\ feed[i].body = doc

\* What clients see is the object of DocumentRegister, on which each request acts at one
\* moment: where its handler is tells whether it has, and of what handlers read only the
\* base of a patch without If-Match shows.
Register == INSTANCE DocumentRegister WITH
    state <- [r \in Requests |->
                 IF pc[r] = "idle" THEN "new"
                 ELSE IF pc[r] = "done" THEN "ended"
                 ELSE IF r \in applied THEN "took" ELSE "open"],
    base <- [r \in Requests |-> IF method[r] = "patch" /\ ~Conditional(r) THEN seen[r] ELSE NoDoc]

RegisterKept == Register!Spec

\* docs/user/sdk.md, "Document DB": stale revisions fail with status 409.
ConflictReported ==
    \A r \in Done :
        Conditional(r) /\ r \notin applied => answer[r] # "ok"
===============================================================================

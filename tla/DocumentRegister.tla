--------------------------- MODULE DocumentRegister ---------------------------
(***************************************************************************)
(* What the document API promises of one document (docs/user/sdk.md,       *)
(* "Document DB"), as an object on which each request acts in one step.    *)
(* A request takes effect at one moment between its arrival and its        *)
(* answer, once or not at all, and with If-Match only on the revision it   *)
(* names.  It is refused only for a reason that holds at that moment.  A   *)
(* patch without If-Match is two steps, and may undo what came between.    *)
(***************************************************************************)
EXTENDS Naturals

CONSTANT Requests

VARIABLES
    doc,         \* the document: its version, or NoDoc
    clock,       \* versions so far
    state,       \* per request: "new", "open", "took" (effect) or "ended"
    method,      \* per request: the HTTP method
    match,       \* per request: the revision it names, or NoRevision
    base,        \* per patch without If-Match: the version it merges into
    answer       \* per request: how it was answered

vars == <<doc, clock, state, method, match, base, answer>>

NoDoc == [stamp |-> 0, data |-> {}]
NoRevision == 0

Init ==
    /\ doc = NoDoc
    /\ clock = 0
    /\ state = [r \in Requests |-> "new"]
    /\ method = [r \in Requests |-> "post"]
    /\ match = [r \in Requests |-> NoRevision]
    /\ base = [r \in Requests |-> NoDoc]
    /\ answer = [r \in Requests |-> "none"]

\* Every version has a revision of its own.
Write(data) ==
    /\ doc' = [stamp |-> clock + 1, data |-> data]
    /\ clock' = clock + 1

Took(r) ==
    /\ state' = [state EXCEPT ![r] = "took"]
    /\ UNCHANGED <<method, match, base, answer>>

End(r, a) ==
    /\ state' = [state EXCEPT ![r] = "ended"]
    /\ answer' = [answer EXCEPT ![r] = a]
    /\ UNCHANGED <<doc, clock, method, match, base>>

Create(r) ==
    /\ state[r] = "new"
    /\ clock = 0
    /\ Write({r})
    /\ Took(r)

Ask(r, m, rev) ==
    /\ state[r] = "new"
    /\ clock > 0
    /\ state' = [state EXCEPT ![r] = "open"]
    /\ method' = [method EXCEPT ![r] = m]
    /\ match' = [match EXCEPT ![r] = rev]
    /\ UNCHANGED <<doc, clock, base, answer>>

\* Only a patch that names no revision merges into what it saw earlier.
Look(r) ==
    /\ state[r] = "open"
    /\ method[r] = "patch" /\ match[r] = NoRevision
    /\ doc # NoDoc
    /\ base' = [base EXCEPT ![r] = doc]
    /\ UNCHANGED <<doc, clock, state, method, match, answer>>

Named(r) == match[r] # NoRevision => doc.stamp = match[r]

Put(r) == method[r] = "put" /\ Write({r})

Patch(r) ==
    /\ method[r] = "patch"
    /\ \/ match[r] # NoRevision /\ Write(doc.data \cup {r})
       \/ match[r] = NoRevision /\ base[r] # NoDoc /\ Write(base[r].data \cup {r})

Delete(r) == method[r] = "delete" /\ doc' = NoDoc /\ UNCHANGED clock

TakeEffect(r) ==
    /\ state[r] = "open"
    /\ doc # NoDoc
    /\ Named(r)
    /\ Put(r) \/ Patch(r) \/ Delete(r)
    /\ Took(r)

Refuse(r) ==
    /\ state[r] = "open"
    /\ \/ doc = NoDoc /\ End(r, "missing")
       \/ doc # NoDoc /\ ~Named(r) /\ End(r, "conflict")

\* A PUT or PATCH without If-Match looks at the document once more before it answers.
LooksAgain(r) == match[r] = NoRevision /\ method[r] \in {"put", "patch"}

Succeed(r) ==
    /\ state[r] = "took"
    /\ \/ End(r, "ok")
       \/ LooksAgain(r) /\ doc = NoDoc /\ End(r, "missing")

\* A conditional PUT or DELETE that took no effect may be told that it did.
Pretend(r) ==
    /\ state[r] = "open"
    /\ match[r] # NoRevision /\ method[r] \in {"put", "delete"}
    /\ End(r, "ok")

\* A client that leaves: only one whose handler looks again may have had its way.
Leave(r) ==
    /\ state[r] = "open" \/ (state[r] = "took" /\ LooksAgain(r))
    /\ End(r, "error")

Next ==
    \E r \in Requests :
        \/ Create(r) \/ Look(r) \/ TakeEffect(r) \/ Refuse(r) \/ Succeed(r) \/ Pretend(r) \/ Leave(r)
        \/ \E m \in {"put", "patch", "delete"}, rev \in 0 .. clock : Ask(r, m, rev)

Spec == Init /\ [][Next]_vars
===============================================================================

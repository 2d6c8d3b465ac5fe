------------------------------- MODULE EventLog -------------------------------
(***************************************************************************)
(* What the EventRepository interface (eventrepository.go) promises to its *)
(* callers, with no tables, statements or transactions: every stream is a  *)
(* log.  Append extends it by all its events in one step, Link by one      *)
(* event after the other, each event only behind the version expected.     *)
(***************************************************************************)
EXTENDS Integers, Sequences

CONSTANTS Clients, StreamIds, EmptyStreamId, Events

VARIABLES
    log,      \* the events of each stream
    active,   \* the request each client has under way, if any
    outcome   \* what its latest request returned

logVars == <<log, active, outcome>>

Request == [op : {"append", "link"}, stream : StreamIds, ids : Seq(Events),
            expected : SUBSET Nat]

Init ==
    /\ log = [s \in StreamIds |-> <<>>]
    /\ active = [c \in Clients |-> {}]
    /\ outcome = [c \in Clients |-> "none"]

Expects(r, n) == r.expected \subseteq {n}

End(c, answer) ==
    /\ active' = [active EXCEPT ![c] = {}]
    /\ outcome' = [outcome EXCEPT ![c] = answer]

BeginWith(c, r) ==
    /\ active[c] = {}
    /\ r \in Request
    /\ r.op = "append" => r.stream # EmptyStreamId
    /\ active' = [active EXCEPT ![c] = {r}]
    /\ outcome' = [outcome EXCEPT ![c] = "pending"]
    /\ UNCHANGED log

\* The request is read off the next state, for Request is infinite.
Begin(c) == \E r \in active'[c] : BeginWith(c, r)

Reject(c) ==
    /\ active[c] = {}
    /\ outcome' = [outcome EXCEPT ![c] = "rejected"]
    /\ UNCHANGED <<log, active>>

\* The whole batch at once; the answer may be lost after that.  The expectation
\* is compared again after every event, so it admits no second one.
AppendBatch(c) ==
    /\ \E r \in active[c] :
        /\ r.op = "append"
        /\ \A i \in 1..Len(r.ids) : Expects(r, Len(log[r.stream]) + i - 1)
        /\ log' = [log EXCEPT ![r.stream] = @ \o r.ids]
    /\ \E answer \in {"ok", "error"} : End(c, answer)

LinkNext(c) ==
    \E r \in active[c] :
        /\ r.op = "link"
        /\ r.ids # <<>>
        /\ Expects(r, Len(log[r.stream]))
        /\ log' = [log EXCEPT ![r.stream] = Append(@, Head(r.ids))]
        /\ \/ /\ active' = [active EXCEPT ![c] = {[r EXCEPT !.ids = Tail(@)]}]
              /\ UNCHANGED outcome
           \/ End(c, "error")

LinkDone(c) ==
    /\ \E r \in active[c] : r.op = "link" /\ r.ids = <<>>
    /\ End(c, "ok")
    /\ UNCHANGED log

\* A wrong expectedVersion, or a batch of several events with one.
Refuse(c) ==
    /\ \E r \in active[c] :
        \/ ~Expects(r, Len(log[r.stream]))
        \/ r.op = "append" /\ Len(r.ids) > 1 /\ r.expected # {}
    /\ End(c, "refused")
    /\ UNCHANGED log

\* An unknown event, a version another call has taken meanwhile, or a failure.
Fail(c) ==
    /\ active[c] # {}
    /\ \/ End(c, "error") \/ End(c, "duplicate")
       \/ (\E r \in active[c] : r.op = "link") /\ End(c, "missing")
    /\ UNCHANGED log

Next == \E c \in Clients :
    \/ Begin(c)
    \/ Reject(c)
    \/ AppendBatch(c)
    \/ LinkNext(c)
    \/ LinkDone(c)
    \/ Refuse(c)
    \/ Fail(c)

Spec == Init /\ [][Next]_logVars
=============================================================================

------------------------------ MODULE SimpleCqrs ------------------------------
(***************************************************************************)
(* The inventory application of examples/simplecqrs with its in-memory     *)
(* repository: HTTP handlers (main.go), command handlers, the inventory    *)
(* item, the repository and the two views of the read model.               *)
(*                                                                         *)
(* net/http runs every request in a goroutine of its own and nothing in    *)
(* the application takes a lock, so whatever reads a map, a slice or a     *)
(* counter and writes it back does so in two steps here, and Go may end    *)
(* the process when two goroutines are inside one map.  log.Fatal ends it  *)
(* as well; a panic ends only the request.                                 *)
(*                                                                         *)
(* The example is written for an earlier signature of the package (its     *)
(* Handle returns one value, it gives AddHandler events where names are    *)
(* due); the module says what its code does, with those differences        *)
(* passed over.                                                            *)
(***************************************************************************)
EXTENDS Integers, Sequences, FiniteSets, SequencesExt

CONSTANTS
    Requests,     \* goroutines that serve a request
    MaxParallel,  \* bound: requests served at the same time
    MaxItems,     \* bound: UUIDs ever drawn for new items
    MaxEvents,    \* bound: with as many events stored no command begins
    Names,        \* names a user enters, besides the empty one
    Counts,       \* numbers a user enters, besides what is none or too large
    MaxInt        \* the largest value of Go's int

\* Go's int, whose sums and differences wrap around.
Number == -(MaxInt + 1)..MaxInt
Wrap(n) == IF n > MaxInt THEN n - 2 * (MaxInt + 1)
           ELSE IF n < -(MaxInt + 1) THEN n + 2 * (MaxInt + 1) ELSE n

ASSUME AppAssumption ==
    /\ MaxParallel \in Nat /\ MaxItems \in Nat /\ MaxEvents \in Nat
    /\ MaxInt \in Nat /\ Counts \subseteq Number

VARIABLES
    current,    \* InMemoryRepo: the events of each item
    list,       \* read model: the items in the list view
    shown,      \* read model: the name an item's entry of the list shows
    torn,       \* two requests have been inside the list at once: it may
                \* hold anything from then on
    details,    \* read model: the detail view, at most one entry per item
    drawn,      \* UUIDs drawn for new items
    req,        \* what each request is doing
    fatal,      \* why the process has ended, if it has
    contended   \* items that two requests have been working on at once

vars == <<current, list, shown, torn, details, drawn, req, fatal, contended>>
views == <<list, shown, torn, details>>

Ids == 1..MaxItems
NoName == "none"
Kinds == {"Created", "Renamed", "Deactivated", "Removed", "CheckedIn"}
Event == [kind : Kinds, id : Ids, name : Names \cup {NoName}, count : Number,
          version : Nat]

\* The aggregate: what Apply and IncrementVersion make of its events.
Item == [activated : BOOLEAN, count : Number, version : Nat]
NewInventoryItem == [activated |-> FALSE, count |-> 0, version |-> 0]

Command == {"create", "deactivate", "rename", "checkin", "remove"}

Idle == [phase |-> "idle", cmd |-> "create", id |-> 0, name |-> NoName, num |-> 0,
         page |-> TRUE, event |-> {}, slice |-> <<>>, todo |-> {}, count |-> 0,
         answer |-> "none"]

Init ==
    /\ current = [i \in Ids |-> <<>>]
    /\ list = <<>> /\ torn = FALSE
    /\ shown = [i \in Ids |-> NoName]
    /\ details = [i \in Ids |-> {}]
    /\ drawn = 0
    /\ req = [r \in Requests |-> Idle]
    /\ fatal = "none"
    /\ contended = {}

Busy == {r \in Requests : req[r].phase # "idle"}
At(r, phase) == fatal = "none" /\ req[r].phase = phase
Step(r, q) == req' = [req EXCEPT ![r] = q]

\* log.Fatal ends the process, every request with it.
Fatal(why) ==
    /\ fatal' = why
    /\ req' = [r \in Requests |-> Idle]
    /\ UNCHANGED <<current, views, drawn, contended>>

-----------------------------------------------------------------------------
(* The inventory item                                                      *)

Apply(item, e) ==
    CASE e.kind = "Created" -> [item EXCEPT !.activated = TRUE]
      [] e.kind = "Deactivated" -> [item EXCEPT !.activated = FALSE]
      [] e.kind = "Removed" -> [item EXCEPT !.count = Wrap(@ - e.count)]
      [] e.kind = "CheckedIn" -> [item EXCEPT !.count = Wrap(@ + e.count)]
      [] OTHER -> item

IncrementVersion(item) == [item EXCEPT !.version = @ + 1]

RebuildFromEvents(events) ==
    LET item[n \in 0..Len(events)] ==
            IF n = 0 THEN NewInventoryItem
                     ELSE IncrementVersion(Apply(item[n - 1], events[n]))
    IN item[Len(events)]

\* An empty map entry: Load answers ErrAggregateNotFound and a nil item.
NotFound(id) == current[id] = <<>>

\* Variant: the last piece can be taken twice.
RefusesOverdrawn(q, item) ==
    \/ q.cmd \in {"create", "rename"} /\ q.name = NoName
    \/ q.cmd \in {"remove", "checkin"} /\ q.num <= 0
    \/ q.cmd = "remove" /\ Wrap(item.count - q.num) < -1
    \/ q.cmd = "deactivate" /\ ~item.activated

\* Variant: an empty name is accepted.
RefusesNamelessNot(q, item) ==
    \/ q.cmd \in {"remove", "checkin"} /\ q.num <= 0
    \/ q.cmd = "remove" /\ Wrap(item.count - q.num) < 0
    \/ q.cmd = "deactivate" /\ ~item.activated

\* What Create, ChangeName, Remove, CheckIn and Deactivate return an error for.
Refuses(q, item) ==
    \/ q.cmd \in {"create", "rename"} /\ q.name = NoName
    \/ q.cmd \in {"remove", "checkin"} /\ q.num <= 0
    \/ q.cmd = "remove" /\ Wrap(item.count - q.num) < 0
    \/ q.cmd = "deactivate" /\ ~item.activated

KindOf == [create |-> "Created", deactivate |-> "Deactivated",
           rename |-> "Renamed", remove |-> "Removed", checkin |-> "CheckedIn"]

\* Variant: the version after the change.
RaisedAfter(q, item) ==
    [kind |-> KindOf[q.cmd], id |-> q.id, name |-> q.name, count |-> q.num,
     version |-> item.version + 1]

\* The event carries CurrentVersion() of before it is tracked.
Raised(q, item) ==
    [kind |-> KindOf[q.cmd], id |-> q.id, name |-> q.name, count |-> q.num,
     version |-> item.version]

-----------------------------------------------------------------------------
(* HTTP requests                                                           *)

\* The index page shows the list; a page of an item needs its details: the
\* template dereferences the entry, and when there is none its error is fatal.
Get ==
    /\ fatal = "none"
    /\ \E i \in Ids : details[i] = {}
    /\ Fatal("template")

\* What Atoi makes of the number in a form: 0 of what is none, the end of int it
\* is beyond of one that is too large.  Its error is answered and the value used.
Atoi == Counts \cup {0, MaxInt, -(MaxInt + 1)}

\* What the form of the page holds.
Form(cmd, id, name, num) ==
    /\ cmd \in {"create", "rename"} \/ name = NoName
    /\ IF cmd \in {"remove", "checkin"} THEN num \in Atoi ELSE num = 0
    /\ cmd = "create" => id = drawn + 1

EventsStored == FoldFunction(LAMBDA history, n : Len(history) + n, 0, current)

\* A form that cannot be parsed; deactivating is the one POST without a form.
FormUnparsed ==
    /\ fatal = "none"
    /\ Fatal("form")

\* POST of a form: the entry for the page is looked up before the command runs.
Post(r) ==
    /\ At(r, "idle")
    /\ Cardinality(Busy) < MaxParallel
    /\ \E cmd \in Command, id \in Ids, name \in Names \cup {NoName},
          num \in Number :
        /\ Form(cmd, id, name, num)
        /\ EventsStored < MaxEvents
        /\ drawn' = IF cmd = "create" THEN id ELSE drawn
        /\ Step(r, [Idle EXCEPT !.phase = "load", !.cmd = cmd, !.id = id,
                                !.name = name, !.num = num,
                                !.page = cmd = "create" \/ details[id] # {}])
        /\ contended' = IF \E o \in Busy : req[o].id = id
                        THEN contended \cup {id} ELSE contended
    /\ UNCHANGED <<current, views, fatal>>

\* Dispatch, Handle and InMemoryRepo.Load.
Loaded(q) ==
    IF q.cmd = "create" THEN NewInventoryItem ELSE RebuildFromEvents(current[q.id])

\* A nil item: rename notices, the others dereference it and panic.
HandleNil(r) ==
    /\ At(r, "load")
    /\ req[r].cmd # "create" /\ NotFound(req[r].id)
    /\ IF req[r].cmd = "rename"
       THEN Step(r, [req[r] EXCEPT !.phase = "respond", !.answer = "error"])
       ELSE Step(r, Idle)
    /\ UNCHANGED <<current, views, drawn, fatal, contended>>

\* The errors of Remove and CheckIn are dropped and a Save of nothing succeeds.
HandleRefused(r) ==
    LET q == req[r] IN
    /\ At(r, "load")
    /\ q.cmd = "create" \/ ~NotFound(q.id)
    /\ Refuses(q, Loaded(q))
    /\ Step(r, [q EXCEPT !.phase = "respond",
                         !.answer = IF q.cmd \in {"remove", "checkin"} THEN "ok"
                                                                       ELSE "error"])
    /\ UNCHANGED <<current, views, drawn, fatal, contended>>

HandleRaises(r) ==
    LET q == req[r] IN
    /\ At(r, "load")
    /\ q.cmd = "create" \/ ~NotFound(q.id)
    /\ ~Refuses(q, Loaded(q))
    /\ Step(r, [q EXCEPT !.phase = "append", !.event = {Raised(q, Loaded(q))}])
    /\ UNCHANGED <<current, views, drawn, fatal, contended>>

\* Save, which ignores the expected version: r.current[id] = append(
\* r.current[id], v) reads the slice ...
SaveRead(r) ==
    /\ At(r, "append")
    /\ Step(r, [req[r] EXCEPT !.phase = "store", !.slice = current[req[r].id]])
    /\ UNCHANGED <<current, views, drawn, fatal, contended>>

\* The views main.go registers for an event.
Subscribed(e) == IF e.kind \in {"Created", "Renamed", "Deactivated"}
                 THEN {"list", "details"} ELSE {"details"}

\* Variant: the event is published and not stored.
SaveWritePublishOnly(r) ==
    /\ At(r, "store")
    /\ \E e \in req[r].event :
        Step(r, [req[r] EXCEPT !.phase = "publish", !.todo = Subscribed(e),
                               !.slice = <<>>])
    /\ UNCHANGED <<current, views, drawn, fatal, contended>>

\* ... and writes it back, one longer.
SaveWrite(r) ==
    /\ At(r, "store")
    /\ \E e \in req[r].event :
        /\ current' = [current EXCEPT ![e.id] = Append(req[r].slice, e)]
        /\ Step(r, [req[r] EXCEPT !.phase = "publish", !.todo = Subscribed(e),
                                  !.slice = <<>>])
    /\ UNCHANGED <<views, drawn, fatal, contended>>

-----------------------------------------------------------------------------
(* The views, called by PublishEvent in any order                          *)

\* The first entry of the item is cut out.
ListAfter(l, e) ==
    CASE e.kind = "Created" -> Append(l, e.id)
      [] e.kind = "Deactivated" -> RemoveFirst(l, e.id)
      [] OTHER -> l

\* A renaming goes to the entry the list still has.
ShownAfter(e) ==
    IF e.kind = "Created" \/ (e.kind = "Renamed" /\ e.id \in Range(list))
    THEN [shown EXCEPT ![e.id] = e.name] ELSE shown

\* Variant: a check-in sets the count.
DtoAfterSets(d, e, count) ==
    CASE e.kind = "Removed" -> [d EXCEPT !.count = Wrap(count - e.count)]
      [] e.kind = "CheckedIn" -> [d EXCEPT !.count = e.count]
      [] e.kind = "Renamed" -> [d EXCEPT !.name = e.name, !.version = e.version]

\* The count is written back from the one read; the other fields are set.
DtoAfter(d, e, count) ==
    CASE e.kind = "Removed" -> [d EXCEPT !.count = Wrap(count - e.count)]
      [] e.kind = "CheckedIn" -> [d EXCEPT !.count = Wrap(count + e.count)]
      [] e.kind = "Renamed" -> [d EXCEPT !.name = e.name, !.version = e.version]

\* Variant: a new item is looked up as well.
NeedsEntryAlways(e) == e.kind # "Deactivated"

NeedsEntry(e) == e.kind \notin {"Created", "Deactivated"}

Begin(r, view) == At(r, "publish") /\ view \in req[r].todo

\* The next view of the event; after the last one Save and Handle return nil.
Delivered(r, view) ==
    LET left == req[r].todo \ {view}
    IN Step(r, [req[r] EXCEPT
                 !.phase = IF left = {} THEN "respond" ELSE "publish",
                 !.todo = left, !.count = 0,
                 !.answer = IF left = {} THEN "ok" ELSE "none"])

ListBegin(r) ==
    /\ Begin(r, "list")
    /\ torn' = (torn \/ \E o \in Requests : At(o, "list"))
    /\ Step(r, [req[r] EXCEPT !.phase = "list"])
    /\ UNCHANGED <<current, list, shown, details, drawn, fatal, contended>>

ListHandle(r) ==
    /\ At(r, "list")
    /\ \E e \in req[r].event :
        /\ list' = IF torn THEN <<>> ELSE ListAfter(list, e)
        /\ shown' = IF torn THEN [i \in Ids |-> NoName] ELSE ShownAfter(e)
    /\ Delivered(r, "list")
    /\ UNCHANGED <<current, torn, details, drawn, fatal, contended>>

\* In a torn list an index or a pointer may be out of range.
ListPanics(r) ==
    /\ At(r, "list")
    /\ torn
    /\ Step(r, Idle)
    /\ UNCHANGED <<current, views, drawn, fatal, contended>>

\* GetDetailsItem, and the count of the entry it finds.
DetailsBegin(r) ==
    /\ Begin(r, "details")
    /\ \E e \in req[r].event :
        \/ ~NeedsEntry(e) /\ Step(r, [req[r] EXCEPT !.phase = "details"])
        \/ \E d \in details[e.id] :
            /\ NeedsEntry(e)
            /\ Step(r, [req[r] EXCEPT !.phase = "details", !.count = d.count])
    /\ UNCHANGED <<current, views, drawn, fatal, contended>>

\* "did not find the original inventory this shouldn't not happen"
DetailsMissing(r) ==
    /\ Begin(r, "details")
    /\ \E e \in req[r].event : NeedsEntry(e) /\ details[e.id] = {}
    /\ Fatal("details")

\* An entry that has been deleted since is written to in vain.
DetailsHandle(r) ==
    /\ At(r, "details")
    /\ \E e \in req[r].event :
        details' = [details EXCEPT ![e.id] =
            CASE e.kind = "Created" ->
                    {[name |-> e.name, count |-> 0, version |-> 0]}
              [] e.kind = "Deactivated" -> {}
              [] OTHER -> {DtoAfter(d, e, req[r].count) : d \in @}]
    /\ Delivered(r, "details")
    /\ UNCHANGED <<current, list, shown, torn, drawn, fatal, contended>>

\* The redirect is sent and the page rendered all the same, with the entry
\* looked up before; without one that is fatal.
Respond(r) ==
    /\ At(r, "respond")
    /\ req[r].page
    /\ Step(r, Idle)
    /\ UNCHANGED <<current, views, drawn, fatal, contended>>

RespondMissing(r) ==
    /\ At(r, "respond")
    /\ ~req[r].page
    /\ Fatal("template")

\* Two goroutines inside one map, one of them writing: the repository's, or
\* that of the detail view, which every page of an item reads.
MapRace ==
    /\ \E r, o \in Requests :
        /\ r # o
        /\ \/ At(r, "store") /\ (At(o, "load") \/ At(o, "append") \/ At(o, "store"))
           \/ /\ At(r, "details") /\ \E e \in req[r].event : ~NeedsEntry(e)
              /\ At(o, "details") \/ At(o, "idle") \/ Begin(o, "details")
    /\ Fatal("race")

Serve(r) ==
    \/ HandleNil(r) \/ HandleRefused(r) \/ HandleRaises(r)
    \/ SaveRead(r) \/ SaveWrite(r)
    \/ ListBegin(r) \/ ListHandle(r) \/ ListPanics(r)
    \/ DetailsBegin(r) \/ DetailsMissing(r) \/ DetailsHandle(r)
    \/ Respond(r) \/ RespondMissing(r)

Next == Get \/ FormUnparsed \/ MapRace \/ \E r \in Requests : Post(r) \/ Serve(r)

Spec == Init /\ [][Next]_vars

-----------------------------------------------------------------------------
\* Every variable keeps its type.
TypeOK ==
    /\ current \in [Ids -> Seq(Event)]
    /\ list \in Seq(Ids) /\ torn \in BOOLEAN
    /\ \A k \in DOMAIN list : shown[list[k]] \in Names
    /\ details \in [Ids -> SUBSET [name : Names, count : Number, version : Nat]]
    /\ drawn \in 0..MaxItems
    /\ \A r \in Requests : req[r].event \subseteq Event /\ req[r].todo \subseteq {"list", "details"}
    /\ fatal \in {"none", "form", "template", "details", "race"}

Working(i) == \E r \in Requests : req[r].phase # "idle" /\ req[r].id = i

\* Items that only one request at a time has been about.
Uncontended == Ids \ contended

\* A check-in of the history has taken the stock beyond what an int holds, which
\* CheckIn does not look for (inventoryitem.go:74-84).
Overflowed(history) ==
    \E n \in DOMAIN history :
        /\ history[n].kind = "CheckedIn"
        /\ RebuildFromEvents(SubSeq(history, 1, n - 1)).count + history[n].count > MaxInt

\* "can't remove more items from inventory than the number of items in
\* inventory" (inventoryitem.go:61): of an item that only one request at a time
\* has been about, no removal, nor a number that is none, is negative or is out of
\* range, takes the stock below zero; it gets there only by a check-in that
\* overflows.
StockNeverNegative ==
    \A i \in Uncontended :
        RebuildFromEvents(current[i]).count < 0 => Overflowed(current[i])

\* Every event is stored once, and its version is its place in the history,
\* counted from zero, whatever requests for other items do meanwhile.
VersionsAreIndexes ==
    \A i \in Uncontended : \A k \in DOMAIN current[i] :
        /\ current[i][k].version = k - 1
        /\ (k = 1) <=> (current[i][k].kind = "Created")

Naming(history) ==
    {k \in DOMAIN history : history[k].kind \in {"Created", "Renamed"}}

\* What a history says that the detail view has to show: the stock the aggregate
\* would decide on, the name it got last and the version of that event; no entry
\* when the item is deactivated.
DetailsOf(history) ==
    LET item == RebuildFromEvents(history)
    IN {[name |-> history[k].name, count |-> item.count,
         version |-> history[k].version] :
            k \in {n \in Naming(history) :
                    item.activated /\ \A m \in Naming(history) : m <= n}}

DetailsMatch(i) == details[i] = DetailsOf(current[i])

\* The list shows an item exactly when it is active, once and by the name of its
\* entry in the details.
ListMatches(i) ==
    /\ Cardinality({k \in DOMAIN list : list[k] = i}) = Cardinality(details[i])
    /\ \A d \in details[i] : shown[i] = d.name

\* Of an item that is not worked on, and that no two requests have worked on at
\* once, both views agree with the history: requests for other items do it no
\* harm, until two of them have been inside the list.
ReadModelMatches ==
    fatal = "none" /\ ~torn =>
        \A i \in Uncontended : ~Working(i) => DetailsMatch(i) /\ ListMatches(i)

\* A command of Create, ChangeName or Deactivate that is answered without an
\* error is in the history; those of Remove and CheckIn may have been dropped.
AcceptedIsStored ==
    \A r \in Requests :
        /\ req[r].phase = "respond" /\ req[r].answer = "ok"
        /\ req[r].id \in Uncontended
        => \/ req[r].cmd \in {"remove", "checkin"} /\ req[r].event = {}
           \/ \E e \in req[r].event : e \in Range(current[req[r].id])

\* A request is about to end the process for the entry its event needs.
MissesEntry(r) ==
    Begin(r, "details") /\ \E e \in req[r].event : NeedsEntry(e) /\ details[e.id] = {}

\* Of the item of that event: it is deactivated, which only Deactivate asks about,
\* or two requests have been about it at once; else its entry is there, unless
\* the list, which two were inside, has cut the publication of its creation short.
DetailsFound ==
    \A r \in Requests : MissesEntry(r) /\ ~torn =>
        \/ req[r].id \in contended
        \/ ~RebuildFromEvents(current[req[r].id]).activated

\* "did not find the original inventory this shouldn't not happen"
\* (readmodel.go:170): no command ends the process for want of an entry.
EntryNeverMissing == fatal # "details"
=============================================================================

--------------------------- MODULE SimpleCqrsProofs ----------------------------
(***************************************************************************)
(* Proofs about SimpleCqrs, for any requests, names, counts and bounds.    *)
(***************************************************************************)
EXTENDS SimpleCqrs, FiniteSetTheorems, SequenceTheorems, WellFoundedInduction, NaturalsInduction, TLAPS

-----------------------------------------------------------------------------
(* Rebuilding an item from its history                                     *)

\* A set of naturals has a least element.
LEMMA LeastNumber ==
    ASSUME NEW T \in SUBSET Nat, T # {}
    PROVE  \E x \in T : \A y \in T : x <= y
  <1> DEFINE R == {p \in Nat \X Nat : p[1] < p[2]}
  <1>1. IsWellFoundedOn(R, Nat)
    BY NatLessThanWellFounded DEF OpToRel
  <1>2. \A x, y \in Nat : x <= y \/ <<y, x>> \in R
    OBVIOUS
  <1>3. \E x \in T : \A y \in T : <<y, x>> \notin R
    <2> HIDE DEF R
    <2> QED
      BY <1>1, WFMin
  <1> HIDE DEF R
  <1> QED
    BY <1>2, <1>3

\* What one round of the loop over the events makes of the item before it.
Round(f, events, n) ==
    IF n = 0 THEN NewInventoryItem
             ELSE IncrementVersion(Apply(f[n - 1], events[n]))

\* f holds the item after every round of the first n.
Rounds(f, events, n) == f = [m \in 0..n |-> Round(f, events, m)]

\* The loop can be run for any number of rounds.
LEMMA RoundsExist ==
    ASSUME NEW events, NEW n \in Nat
    PROVE  \E f : Rounds(f, events, n)
  <1> DEFINE Bad == {m \in Nat : ~\E f : Rounds(f, events, m)}
  <1> SUFFICES ASSUME Bad # {} PROVE FALSE
    OBVIOUS
  <1>1. PICK m \in Bad : \A k \in Bad : m <= k
    <2>1. Bad \in SUBSET Nat
      OBVIOUS
    <2> HIDE DEF Bad
    <2> QED
      BY <2>1, LeastNumber
  <1>2. CASE m = 0
    <2>1. PICK f : f = [k \in 0..0 |-> NewInventoryItem]
      OBVIOUS
    <2>2. [k \in 0..0 |-> Round(f, events, k)] = f
      BY <2>1 DEF Round
    <2>3. Rounds(f, events, 0)
      BY <2>2 DEF Rounds
    <2> QED
      BY <1>2, <2>3
  <1>3. CASE m # 0
    <2>1. m - 1 \in Nat /\ m \in Nat /\ m - 1 \notin Bad
      BY <1>1, <1>3
    <2>2. PICK f : Rounds(f, events, m - 1)
      BY <2>1
    <2>3. PICK g : g = [k \in 0..m |-> IF k = m THEN Round(f, events, m) ELSE f[k]]
      OBVIOUS
    <2>4. \A k \in 0..(m - 1) : g[k] = f[k] /\ f[k] = Round(f, events, k)
      <3>1. \A k \in 0..(m - 1) : k \in 0..m /\ k # m
        BY <2>1
      <3>2. \A k \in 0..(m - 1) : g[k] = f[k]
        BY <2>3, <3>1
      <3>3. \A k \in 0..(m - 1) : f[k] = Round(f, events, k)
        BY <2>2 DEF Rounds
      <3> QED
        BY <3>2, <3>3
    <2>5. ASSUME NEW k \in 0..m PROVE Round(f, events, k) = Round(g, events, k)
      <3>1. k # 0 => k - 1 \in 0..(m - 1)
        BY <2>1
      <3> QED
        BY <2>4, <3>1 DEF Round
    <2>6. \A k \in 0..m : g[k] = Round(g, events, k)
      <3>1. \A k \in 0..m : k = m \/ k \in 0..(m - 1)
        BY <2>1
      <3> QED
        BY <2>3, <2>4, <2>5, <3>1
    <2>7. g = [k \in 0..m |-> Round(g, events, k)]
      BY <2>3, <2>6
    <2> QED
      BY <2>7 DEF Rounds
  <1> QED
    BY <1>2, <1>3

\* Rounds over the same events give the same items.
LEMMA SameRounds ==
    ASSUME NEW s, NEW t, NEW n \in Nat, NEW m \in Nat, n <= m,
           \A k \in 1..n : s[k] = t[k],
           NEW f, Rounds(f, s, n), NEW g, Rounds(g, t, m)
    PROVE  \A k \in 0..n : f[k] = g[k]
  <1> DEFINE Bad == {k \in 0..n : f[k] # g[k]}
  <1> SUFFICES ASSUME Bad # {} PROVE FALSE
    OBVIOUS
  <1>1. PICK k \in Bad : \A j \in Bad : k <= j
    <2>1. Bad \in SUBSET Nat
      OBVIOUS
    <2> HIDE DEF Bad
    <2> QED
      BY <2>1, LeastNumber
  <1>2. f[k] = Round(f, s, k) /\ g[k] = Round(g, t, k)
    BY <1>1 DEF Rounds
  <1>3. k # 0
    BY <1>1, <1>2 DEF Round
  <1>4. f[k - 1] = g[k - 1] /\ s[k] = t[k]
    <2>1. k - 1 \in 0..n /\ k \in 1..n
      BY <1>1, <1>3
    <2> QED
      BY <1>1, <2>1
  <1> QED
    BY <1>1, <1>2, <1>3, <1>4 DEF Round

\* RebuildFromEvents gives the item after the last round.
LEMMA RebuildRounds ==
    ASSUME NEW events, Len(events) \in Nat
    PROVE  \E f : /\ Rounds(f, events, Len(events))
                  /\ RebuildFromEvents(events) = f[Len(events)]
  <1> DEFINE item == CHOOSE f : Rounds(f, events, Len(events))
  <1>1. Rounds(item, events, Len(events))
    BY RoundsExist
  <1>2. RebuildFromEvents(events) = item[Len(events)]
    BY DEF RebuildFromEvents, Rounds, Round
  <1> QED
    BY <1>1, <1>2

\* Without events the item is new; one more event is one more round.
LEMMA RebuildNone == RebuildFromEvents(<<>>) = NewInventoryItem
  <1>1. PICK f : /\ Rounds(f, <<>>, Len(<<>>))
                 /\ RebuildFromEvents(<<>>) = f[Len(<<>>)]
    BY RebuildRounds
  <1> QED
    BY <1>1 DEF Rounds, Round

\* One more event is one more round.
LEMMA RebuildMore ==
    ASSUME NEW S, NEW s \in Seq(S), NEW e \in S
    PROVE  RebuildFromEvents(Append(s, e))
             = IncrementVersion(Apply(RebuildFromEvents(s), e))
  <1> DEFINE n == Len(s)
             t == Append(s, e)
  <1>1. /\ n \in Nat /\ Len(t) = n + 1 /\ t[n + 1] = e
        /\ \A k \in 1..n : s[k] = t[k]
    OBVIOUS
  <1>2. PICK f : Rounds(f, s, n) /\ RebuildFromEvents(s) = f[n]
    BY <1>1, RebuildRounds
  <1>3. PICK g : Rounds(g, t, n + 1) /\ RebuildFromEvents(t) = g[n + 1]
    <2>1. Len(t) \in Nat /\ Len(t) = n + 1
      BY <1>1
    <2> HIDE DEF n, t
    <2>2. PICK g : Rounds(g, t, Len(t)) /\ RebuildFromEvents(t) = g[Len(t)]
      BY <2>1, RebuildRounds
    <2> QED
      BY <2>1, <2>2
  <1> HIDE DEF n, t
  <1>4. f[n] = g[n]
    BY <1>1, <1>2, <1>3, SameRounds
  <1>5. g[n + 1] = Round(g, t, n + 1)
    BY <1>1, <1>3 DEF Rounds
  <1>6. Round(g, t, n + 1) = IncrementVersion(Apply(g[n], e))
    BY <1>1 DEF Round
  <1> QED
    BY <1>2, <1>3, <1>4, <1>5, <1>6 DEF t

\* Sums and differences of ints are ints.
LEMMA Wrapped ==
    /\ 0 \in Number
    /\ \A a, b \in Number : Wrap(a + b) \in Number /\ Wrap(a - b) \in Number
  <1>1. MaxInt \in Nat
    BY AppAssumption
  <1>2. 0 \in Number
    BY <1>1 DEF Number
  <1>3. ASSUME NEW a \in Number, NEW b \in Number
        PROVE  Wrap(a + b) \in Number /\ Wrap(a - b) \in Number
    <2>1. /\ a \in Int /\ -(MaxInt + 1) <= a /\ a <= MaxInt
          /\ b \in Int /\ -(MaxInt + 1) <= b /\ b <= MaxInt
      BY <1>1, <1>3 DEF Number
    <2>2. ASSUME NEW n \in Int, -(2 * (MaxInt + 1)) <= n, n <= 2 * MaxInt + 1
          PROVE  Wrap(n) \in Number
      BY <1>1, <2>2 DEF Wrap, Number
    <2> QED
      BY <1>1, <2>1, <2>2
  <1> QED
    BY <1>2, <1>3

\* What an event does to an item.
LEMMA ApplyFields ==
    ASSUME NEW item \in Item, NEW e \in Event
    PROVE  LET after == IncrementVersion(Apply(item, e)) IN
           /\ after \in Item
           /\ after.version = item.version + 1
           /\ after.activated = IF e.kind = "Created" THEN TRUE
                                ELSE IF e.kind = "Deactivated" THEN FALSE
                                ELSE item.activated
           /\ after.count = IF e.kind = "Removed" THEN Wrap(item.count - e.count)
                            ELSE IF e.kind = "CheckedIn" THEN Wrap(item.count + e.count)
                            ELSE item.count
  <1>1. PICK a \in BOOLEAN, c \in Number, v \in Nat :
           item = [activated |-> a, count |-> c, version |-> v]
    BY DEF Item
  <1>2. e.count \in Number /\ e.kind \in Kinds
    BY DEF Event
  <1>3. PICK b \in BOOLEAN : b = IF e.kind = "Created" THEN TRUE
                                ELSE IF e.kind = "Deactivated" THEN FALSE
                                ELSE a
    OBVIOUS
  <1>4. PICK d \in Number : d = IF e.kind = "Removed" THEN Wrap(c - e.count)
                            ELSE IF e.kind = "CheckedIn" THEN Wrap(c + e.count)
                            ELSE c
    BY <1>2, Wrapped
  <1>5. Apply(item, e) = [activated |-> b, count |-> d, version |-> v]
    <2>1. e.kind = "Created" => Apply(item, e) = [item EXCEPT !.activated = TRUE]
      BY DEF Apply
    <2>2. e.kind = "Deactivated" => Apply(item, e) = [item EXCEPT !.activated = FALSE]
      BY DEF Apply
    <2>3. e.kind = "Removed" => Apply(item, e) = [item EXCEPT !.count = Wrap(c - e.count)]
      BY <1>1 DEF Apply
    <2>4. e.kind = "CheckedIn" => Apply(item, e) = [item EXCEPT !.count = Wrap(c + e.count)]
      BY <1>1 DEF Apply
    <2>5. e.kind = "Renamed" => Apply(item, e) = item
      BY DEF Apply
    <2> QED
      BY <1>1, <1>2, <1>3, <1>4, <2>1, <2>2, <2>3, <2>4, <2>5 DEF Kinds
  <1>6. IncrementVersion(Apply(item, e)) = [activated |-> b, count |-> d, version |-> v + 1]
    BY <1>5 DEF IncrementVersion
  <1>7. PICK after : after = IncrementVersion(Apply(item, e))
    OBVIOUS
  <1>8. after = [activated |-> b, count |-> d, version |-> v + 1]
    BY <1>6, <1>7
  <1>9. after.activated = b /\ after.count = d /\ after.version = v + 1
    BY <1>8
  <1>10. after \in Item
    BY <1>8 DEF Item
  <1>11. item.activated = a /\ item.count = c /\ item.version = v
    BY <1>1
  <1>12. after.activated = IF e.kind = "Created" THEN TRUE
                           ELSE IF e.kind = "Deactivated" THEN FALSE
                           ELSE item.activated
    BY <1>3, <1>9, <1>11
  <1>13. after.count = IF e.kind = "Removed" THEN Wrap(item.count - e.count)
                       ELSE IF e.kind = "CheckedIn" THEN Wrap(item.count + e.count)
                       ELSE item.count
    BY <1>4, <1>9, <1>11
  <1> QED
    BY <1>7, <1>9, <1>10, <1>11, <1>12, <1>13

\* A history makes an item, whose version is its length.
LEMMA RebuiltItem ==
    ASSUME NEW s \in Seq(Event)
    PROVE  RebuildFromEvents(s) \in Item /\ RebuildFromEvents(s).version = Len(s)
  <1> DEFINE n == Len(s)
  <1>1. n \in Nat /\ \A k \in 1..n : s[k] \in Event
    OBVIOUS
  <1>2. PICK f : Rounds(f, s, n) /\ RebuildFromEvents(s) = f[n]
    BY <1>1, RebuildRounds
  <1> HIDE DEF n
  <1> DEFINE Bad == {k \in 0..n : ~(f[k] \in Item /\ f[k].version = k)}
  <1>3. ASSUME Bad # {} PROVE FALSE
    <2>1. PICK k \in Bad : \A j \in Bad : k <= j
      <3>1. Bad \in SUBSET Nat
        BY <1>1
      <3> HIDE DEF Bad
      <3> QED
        BY <1>3, <3>1, LeastNumber
    <2>2. f[k] = Round(f, s, k) /\ k \in Nat
      BY <1>1, <1>2 DEF Rounds
    <2>3. CASE k = 0
      <3>1. f[k] = [activated |-> FALSE, count |-> 0, version |-> 0]
        BY <2>2, <2>3 DEF Round, NewInventoryItem
      <3>2. f[k] \in Item /\ f[k].version = 0
        BY <3>1, Wrapped DEF Item
      <3> QED
        BY <2>1, <2>3, <3>2
    <2>4. CASE k # 0
      <3>1. k - 1 \in 0..n /\ k \in 1..n /\ k - 1 \in Nat /\ ~(k <= k - 1)
        BY <1>1, <2>1, <2>2, <2>4
      <3>2. f[k - 1] \in Item /\ f[k - 1].version = k - 1
        BY <2>1, <3>1
      <3>3. s[k] \in Event
        BY <1>1, <3>1
      <3>4. /\ IncrementVersion(Apply(f[k - 1], s[k])) \in Item
            /\ IncrementVersion(Apply(f[k - 1], s[k])).version = (k - 1) + 1
        BY <3>2, <3>3, ApplyFields
      <3>5. f[k] = IncrementVersion(Apply(f[k - 1], s[k]))
        BY <2>2, <2>4 DEF Round
      <3> QED
        BY <2>1, <2>2, <3>4, <3>5
    <2> QED
      BY <2>3, <2>4
  <1>4. n \in 0..n
    BY <1>1
  <1> QED
    BY <1>2, <1>3, <1>4 DEF n

\* The fields of an item after one more event.
LEMMA RebuiltMore ==
    ASSUME NEW s \in Seq(Event), NEW e \in Event
    PROVE  LET item == RebuildFromEvents(s)
               after == RebuildFromEvents(Append(s, e))
           IN /\ after.activated = IF e.kind = "Created" THEN TRUE
                                   ELSE IF e.kind = "Deactivated" THEN FALSE
                                   ELSE item.activated
              /\ after.count = IF e.kind = "Removed" THEN Wrap(item.count - e.count)
                               ELSE IF e.kind = "CheckedIn" THEN Wrap(item.count + e.count)
                               ELSE item.count
  <1>1. PICK item : item = RebuildFromEvents(s)
    OBVIOUS
  <1>2. PICK after : after = RebuildFromEvents(Append(s, e))
    OBVIOUS
  <1>3. item \in Item
    BY <1>1, RebuiltItem
  <1>4. after = IncrementVersion(Apply(item, e))
    BY <1>1, <1>2, RebuildMore
  <1>5. /\ after.activated = IF e.kind = "Created" THEN TRUE
                            ELSE IF e.kind = "Deactivated" THEN FALSE
                            ELSE item.activated
        /\ after.count = IF e.kind = "Removed" THEN Wrap(item.count - e.count)
                         ELSE IF e.kind = "CheckedIn" THEN Wrap(item.count + e.count)
                         ELSE item.count
    <2>1. PICK b : b = IncrementVersion(Apply(item, e))
      OBVIOUS
    <2>2. /\ b.activated = IF e.kind = "Created" THEN TRUE
                           ELSE IF e.kind = "Deactivated" THEN FALSE
                           ELSE item.activated
          /\ b.count = IF e.kind = "Removed" THEN Wrap(item.count - e.count)
                       ELSE IF e.kind = "CheckedIn" THEN Wrap(item.count + e.count)
                       ELSE item.count
      BY <1>3, <2>1, ApplyFields
    <2> QED
      BY <1>4, <2>1, <2>2
  <1> QED
    BY ONLY <1>1, <1>2, <1>5

\* A history without events, and the parts of one with some.
LEMMA FrontAndLast ==
    ASSUME NEW s \in Seq(Event), s # <<>>
    PROVE  /\ Front(s) \in Seq(Event) /\ Last(s) \in Event
           /\ s = Append(Front(s), Last(s))
           /\ Len(s) \in Nat \ {0}
  <1>1. Len(s) \in Nat \ {0}
    OBVIOUS
  <1>2. Front(s) \in Seq(Event) /\ Last(s) \in Event
    BY <1>1 DEF Front, Last
  <1>3. s = Append(Front(s), Last(s))
    BY <1>1 DEF Front, Last
  <1> QED
    BY <1>1, <1>2, <1>3

\* The parts of a history with one more event.
LEMMA AppendedParts ==
    ASSUME NEW s \in Seq(Event), NEW e \in Event
    PROVE  /\ Append(s, e) \in Seq(Event) /\ Append(s, e) # <<>>
           /\ Front(Append(s, e)) = s /\ Last(Append(s, e)) = e
  BY DEF Front, Last

-----------------------------------------------------------------------------
(* What the detail view has to show                                        *)

\* The last name-giving event of a history.
LastNaming(s, k) == k \in Naming(s) /\ \A m \in Naming(s) : m <= k

\* DetailsOf by the last naming: one entry of an active item that has been named.
LEMMA DetailsIs ==
    ASSUME NEW s
    PROVE  DetailsOf(s) = {[name |-> s[k].name, count |-> RebuildFromEvents(s).count,
                            version |-> s[k].version] :
                              k \in {n \in Naming(s) : /\ RebuildFromEvents(s).activated
                                                       /\ LastNaming(s, n)}}
  BY DEF DetailsOf, LastNaming

\* An item that is not active has no details.
LEMMA NoDetails ==
    ASSUME NEW s, ~RebuildFromEvents(s).activated
    PROVE  DetailsOf(s) = {}
  BY DEF DetailsOf

\* An active item has its stock, and the name and version of the last naming.
LEMMA SomeDetails ==
    ASSUME NEW s \in Seq(Event), RebuildFromEvents(s).activated,
           NEW k \in Nat, LastNaming(s, k)
    PROVE  DetailsOf(s) = {[name |-> s[k].name, count |-> RebuildFromEvents(s).count,
                            version |-> s[k].version]}
  <1>1. Naming(s) \subseteq Nat
    BY DEF Naming
  <1>2. {n \in Naming(s) : /\ RebuildFromEvents(s).activated
                           /\ LastNaming(s, n)} = {k}
    BY <1>1 DEF LastNaming
  <1> HIDE DEF Naming
  <1> QED
    BY <1>2, DetailsIs

\* The naming of a history that goes on.
LEMMA NamingMore ==
    ASSUME NEW s \in Seq(Event), NEW e \in Event
    PROVE  /\ e.kind \in {"Created", "Renamed"} => LastNaming(Append(s, e), Len(s) + 1)
           /\ e.kind \notin {"Created", "Renamed"} =>
                \A k \in Nat : LastNaming(s, k) => /\ LastNaming(Append(s, e), k)
                                                   /\ Append(s, e)[k] = s[k]
  <1> DEFINE t == Append(s, e)
             n == Len(s)
  <1>1. /\ n \in Nat /\ Len(t) = n + 1 /\ t[n + 1] = e
        /\ \A k \in 1..n : t[k] = s[k]
        /\ DOMAIN t = 1..(n + 1) /\ DOMAIN s = 1..n
    OBVIOUS
  <1> HIDE DEF t, n
  <1>2. CASE e.kind \in {"Created", "Renamed"}
    <2>1. n + 1 \in Naming(t) /\ \A m \in Naming(t) : m <= n + 1
      BY <1>1, <1>2 DEF Naming
    <2> QED
      BY <1>2, <2>1 DEF LastNaming, t, n
  <1>3. CASE e.kind \notin {"Created", "Renamed"}
    <2>1. Naming(t) = Naming(s)
      <3>1. \A k \in 1..(n + 1) : k \in 1..n \/ k = n + 1
        BY <1>1
      <3>2. \A k \in 1..n : k \in 1..(n + 1)
        BY <1>1
      <3> QED
        BY <1>1, <1>3, <3>1, <3>2 DEF Naming
    <2>2. \A k : LastNaming(s, k) => k \in 1..n
      BY <1>1 DEF LastNaming, Naming
    <2> QED
      BY <1>1, <1>3, <2>1, <2>2 DEF LastNaming, t
  <1> QED
    BY <1>2, <1>3

\* A history that begins with a name has a last one.
LEMMA NamingExists ==
    ASSUME NEW s \in Seq(Event), s # <<>>, s[1].kind = "Created"
    PROVE  \E k \in Nat : LastNaming(s, k)
  <1> DEFINE n == Len(s)
             D == {n - k : k \in Naming(s)}
  <1>1. n \in Nat /\ 1 \in 1..n /\ DOMAIN s = 1..n
    OBVIOUS
  <1>2. 1 \in Naming(s) /\ Naming(s) \subseteq 1..n
    BY <1>1 DEF Naming
  <1> HIDE DEF n
  <1>3. D \in SUBSET Nat /\ D # {}
    <2>1. \A k \in 1..n : n - k \in Nat
      BY <1>1
    <2> QED
      BY <1>2, <2>1
  <1>4. PICK d \in D : \A y \in D : d <= y
    <2> HIDE DEF D
    <2> QED
      BY <1>3, LeastNumber
  <1>5. PICK k \in Naming(s) : d = n - k
    BY <1>4
  <1>6. \A m \in Naming(s) : n - k <= n - m
    BY <1>4, <1>5
  <1>7. k \in Nat /\ \A m \in Naming(s) : m \in Nat
    BY <1>1, <1>2
  <1> HIDE DEF D
  <1>8. \A m \in Naming(s) : m <= k
    BY <1>1, <1>6, <1>7
  <1> QED
    BY <1>5, <1>7, <1>8 DEF LastNaming

-----------------------------------------------------------------------------
(* Requests                                                                *)

Phases == {"idle", "load", "append", "store", "publish", "list", "details",
           "respond"}

Request ==
    [phase : Phases, cmd : Command, id : 0..MaxItems, name : Names \cup {NoName},
     num : Number, page : BOOLEAN, event : SUBSET Event, slice : Seq(Event),
     todo : SUBSET {"list", "details"}, count : Number, answer : {"none", "ok", "error"}]

\* What a request has been sent with stays; the rest is given field by field.
Becomes(q, n, phase, event, slice, todo, count, answer) ==
    /\ n.cmd = q.cmd /\ n.id = q.id /\ n.name = q.name /\ n.num = q.num
    /\ n.page = q.page
    /\ n.phase = phase /\ n.event = event /\ n.slice = slice /\ n.todo = todo
    /\ n.count = count /\ n.answer = answer

\* The fields of a request have their types.
LEMMA RequestTypes ==
    ASSUME NEW q \in Request
    PROVE  /\ q.phase \in Phases /\ q.cmd \in Command /\ q.id \in 0..MaxItems
           /\ q.name \in Names \cup {NoName} /\ q.num \in Number /\ q.page \in BOOLEAN
           /\ q.event \in SUBSET Event /\ q.slice \in Seq(Event)
           /\ q.todo \in SUBSET {"list", "details"} /\ q.count \in Number
           /\ q.answer \in {"none", "ok", "error"}
  BY DEF Request

\* What the steps of a request make of it: the fields they name, and no other.
LEMMA RequestMoves ==
    ASSUME NEW q \in Request, NEW phase \in Phases
    PROVE  LET n == [q EXCEPT !.phase = phase]
           IN  n \in Request /\ Becomes(q, n, phase, q.event, q.slice, q.todo, q.count, q.answer)
  <1> DEFINE A == Names \cup {NoName}
             B == SUBSET Event
             C == Seq(Event)
             D == SUBSET {"list", "details"}
             R == [phase : Phases, cmd : Command, id : 0..MaxItems, name : A,
                   num : Number, page : BOOLEAN, event : B, slice : C, todo : D,
                   count : Number, answer : {"none", "ok", "error"}]
             n == [q EXCEPT !.phase = phase]
  <1>1. R = Request
    BY DEF Request
  <1>2. q \in R
    BY DEF Request
  <1> HIDE DEF A, B, C, D
  <1>3. n \in R
    BY <1>2
  <1>4. Becomes(q, n, phase, q.event, q.slice, q.todo, q.count, q.answer)
    BY <1>2 DEF Becomes
  <1> QED
    BY <1>1, <1>3, <1>4

\* A request that is answered ...
LEMMA RequestAnswers ==
    ASSUME NEW q \in Request, NEW phase \in Phases,
           NEW answer \in {"none", "ok", "error"}
    PROVE  LET n == [q EXCEPT !.phase = phase, !.answer = answer]
           IN  n \in Request /\ Becomes(q, n, phase, q.event, q.slice, q.todo, q.count, answer)
  <1> DEFINE A == Names \cup {NoName}
             B == SUBSET Event
             C == Seq(Event)
             D == SUBSET {"list", "details"}
             R == [phase : Phases, cmd : Command, id : 0..MaxItems, name : A,
                   num : Number, page : BOOLEAN, event : B, slice : C, todo : D,
                   count : Number, answer : {"none", "ok", "error"}]
             n == [q EXCEPT !.phase = phase, !.answer = answer]
  <1>1. R = Request
    BY DEF Request
  <1>2. q \in R
    BY DEF Request
  <1> HIDE DEF A, B, C, D
  <1>3. n \in R
    BY <1>2
  <1>4. Becomes(q, n, phase, q.event, q.slice, q.todo, q.count, answer)
    BY <1>2 DEF Becomes
  <1> QED
    BY <1>1, <1>3, <1>4

\* ... that has got its event ...
LEMMA RequestDecides ==
    ASSUME NEW q \in Request, NEW phase \in Phases, NEW event \in SUBSET Event
    PROVE  LET n == [q EXCEPT !.phase = phase, !.event = event]
           IN  n \in Request /\ Becomes(q, n, phase, event, q.slice, q.todo, q.count, q.answer)
  <1> DEFINE A == Names \cup {NoName}
             B == SUBSET Event
             C == Seq(Event)
             D == SUBSET {"list", "details"}
             R == [phase : Phases, cmd : Command, id : 0..MaxItems, name : A,
                   num : Number, page : BOOLEAN, event : B, slice : C, todo : D,
                   count : Number, answer : {"none", "ok", "error"}]
             n == [q EXCEPT !.phase = phase, !.event = event]
  <1>1. R = Request
    BY DEF Request
  <1>2. q \in R /\ event \in B
    BY DEF Request
  <1> HIDE DEF A, B, C, D
  <1>3. n \in R
    BY <1>2
  <1>4. Becomes(q, n, phase, event, q.slice, q.todo, q.count, q.answer)
    BY <1>2 DEF Becomes
  <1> QED
    BY <1>1, <1>3, <1>4

\* ... that has read the history ...
LEMMA RequestReads ==
    ASSUME NEW q \in Request, NEW phase \in Phases, NEW slice \in Seq(Event)
    PROVE  LET n == [q EXCEPT !.phase = phase, !.slice = slice]
           IN  n \in Request /\ Becomes(q, n, phase, q.event, slice, q.todo, q.count, q.answer)
  <1> DEFINE A == Names \cup {NoName}
             B == SUBSET Event
             C == Seq(Event)
             D == SUBSET {"list", "details"}
             R == [phase : Phases, cmd : Command, id : 0..MaxItems, name : A,
                   num : Number, page : BOOLEAN, event : B, slice : C, todo : D,
                   count : Number, answer : {"none", "ok", "error"}]
             n == [q EXCEPT !.phase = phase, !.slice = slice]
  <1>1. R = Request
    BY DEF Request
  <1>2. q \in R /\ slice \in C
    BY DEF Request
  <1> HIDE DEF A, B, C, D
  <1>3. n \in R
    BY <1>2
  <1>4. Becomes(q, n, phase, q.event, slice, q.todo, q.count, q.answer)
    BY <1>2 DEF Becomes
  <1> QED
    BY <1>1, <1>3, <1>4

\* ... that has stored the event ...
LEMMA RequestPublishes ==
    ASSUME NEW q \in Request, NEW phase \in Phases,
           NEW todo \in SUBSET {"list", "details"}, NEW slice \in Seq(Event)
    PROVE  LET n == [q EXCEPT !.phase = phase, !.todo = todo, !.slice = slice]
           IN  n \in Request /\ Becomes(q, n, phase, q.event, slice, todo, q.count, q.answer)
  <1> DEFINE A == Names \cup {NoName}
             B == SUBSET Event
             C == Seq(Event)
             D == SUBSET {"list", "details"}
             R == [phase : Phases, cmd : Command, id : 0..MaxItems, name : A,
                   num : Number, page : BOOLEAN, event : B, slice : C, todo : D,
                   count : Number, answer : {"none", "ok", "error"}]
             n == [q EXCEPT !.phase = phase, !.todo = todo, !.slice = slice]
  <1>1. R = Request
    BY DEF Request
  <1>2. q \in R /\ todo \in D /\ slice \in C
    BY DEF Request
  <1> HIDE DEF A, B, C, D
  <1>3. n \in R
    BY <1>2
  <1>4. Becomes(q, n, phase, q.event, slice, todo, q.count, q.answer)
    BY <1>2 DEF Becomes
  <1> QED
    BY <1>1, <1>3, <1>4

\* ... that comes back from a view ...
LEMMA RequestDelivered ==
    ASSUME NEW q \in Request, NEW phase \in Phases,
           NEW todo \in SUBSET {"list", "details"}, NEW count \in Number,
           NEW answer \in {"none", "ok", "error"}
    PROVE  LET n == [q EXCEPT !.phase = phase, !.todo = todo, !.count = count, !.answer = answer]
           IN  n \in Request /\ Becomes(q, n, phase, q.event, q.slice, todo, count, answer)
  <1> DEFINE A == Names \cup {NoName}
             B == SUBSET Event
             C == Seq(Event)
             D == SUBSET {"list", "details"}
             R == [phase : Phases, cmd : Command, id : 0..MaxItems, name : A,
                   num : Number, page : BOOLEAN, event : B, slice : C, todo : D,
                   count : Number, answer : {"none", "ok", "error"}]
             n == [q EXCEPT !.phase = phase, !.todo = todo, !.count = count, !.answer = answer]
  <1>1. R = Request
    BY DEF Request
  <1>2. q \in R /\ todo \in D
    BY DEF Request
  <1> HIDE DEF A, B, C, D
  <1>3. n \in R
    BY <1>2
  <1>4. Becomes(q, n, phase, q.event, q.slice, todo, count, answer)
    BY <1>2 DEF Becomes
  <1> QED
    BY <1>1, <1>3, <1>4

\* ... and that has read the count of the detail view.
LEMMA RequestCounts ==
    ASSUME NEW q \in Request, NEW phase \in Phases, NEW count \in Number
    PROVE  LET n == [q EXCEPT !.phase = phase, !.count = count]
           IN  n \in Request /\ Becomes(q, n, phase, q.event, q.slice, q.todo, count, q.answer)
  <1> DEFINE A == Names \cup {NoName}
             B == SUBSET Event
             C == Seq(Event)
             D == SUBSET {"list", "details"}
             R == [phase : Phases, cmd : Command, id : 0..MaxItems, name : A,
                   num : Number, page : BOOLEAN, event : B, slice : C, todo : D,
                   count : Number, answer : {"none", "ok", "error"}]
             n == [q EXCEPT !.phase = phase, !.count = count]
  <1>1. R = Request
    BY DEF Request
  <1>2. q \in R
    BY DEF Request
  <1> HIDE DEF A, B, C, D
  <1>3. n \in R
    BY <1>2
  <1>4. Becomes(q, n, phase, q.event, q.slice, q.todo, count, q.answer)
    BY <1>2 DEF Becomes
  <1> QED
    BY <1>1, <1>3, <1>4

\* The idle request.
LEMMA IdleRequest ==
    /\ Idle \in Request
    /\ Idle.phase = "idle" /\ Idle.id = 0 /\ Idle.event = {} /\ Idle.todo = {}
  <1> DEFINE A == Names \cup {NoName}
             B == SUBSET Event
             C == Seq(Event)
             D == SUBSET {"list", "details"}
             R == [phase : Phases, cmd : Command, id : 0..MaxItems, name : A,
                   num : Number, page : BOOLEAN, event : B, slice : C, todo : D,
                   count : Number, answer : {"none", "ok", "error"}]
  <1>1. R = Request
    BY DEF Request
  <1>2. NoName \in A /\ {} \in B /\ <<>> \in C /\ {} \in D /\ 0 \in 0..MaxItems
    BY AppAssumption
  <1>3. "idle" \in Phases /\ "create" \in Command
    BY DEF Phases, Command
  <1> HIDE DEF A, B, C, D
  <1>4. Idle \in R
    BY <1>2, <1>3, Wrapped DEF Idle
  <1> QED
    BY <1>1, <1>4 DEF Idle

-----------------------------------------------------------------------------
(* The list without an entry                                               *)

\* RemoveFirst cuts out a position that holds the element, if one does.
LEMMA FirstRemoved ==
    ASSUME NEW s, Len(s) \in Nat, NEW x
    PROVE  \/ RemoveFirst(s, x) = s /\ \A k \in 1..Len(s) : s[k] # x
           \/ \E k \in 1..Len(s) : s[k] = x /\ RemoveFirst(s, x) = RemoveAt(s, k)
  <1> DEFINE I == {i \in 1..Len(s) : s[i] = x}
  <1>1. CASE I = {}
    <2>1. ~\E i \in 1..Len(s) : s[i] = x
      BY <1>1
    <2> QED
      BY <2>1 DEF RemoveFirst
  <1>2. CASE I # {}
    <2>1. I \in SUBSET Nat
      OBVIOUS
    <2>2. \E k \in I : \A m \in I : k <= m
      <3> HIDE DEF I
      <3> QED
        BY <1>2, <2>1, LeastNumber
    <2>3. SelectInSeq(s, LAMBDA v : v = x) \in I
      <3>1. SelectInSeq(s, LAMBDA v : v = x) = IF I # {} THEN Min(I) ELSE 0
        BY DEF SelectInSeq
      <3> HIDE DEF I
      <3>2. Min(I) \in I
        BY <2>2 DEF Min
      <3> QED
        BY <1>2, <3>1, <3>2
    <2>4. RemoveFirst(s, x) = RemoveAt(s, SelectInSeq(s, LAMBDA v : v = x))
      BY <1>2 DEF RemoveFirst
    <2> QED
      BY <2>3, <2>4
  <1> QED
    BY <1>1, <1>2

\* Without position k the others stay, in their order.
LEMMA RemovedAt ==
    ASSUME NEW S, NEW s \in Seq(S), NEW k \in 1..Len(s)
    PROVE  /\ RemoveAt(s, k) \in Seq(S)
           /\ Len(RemoveAt(s, k)) = Len(s) - 1
           /\ \A j \in 1..(Len(s) - 1) :
                RemoveAt(s, k)[j] = IF j < k THEN s[j] ELSE s[j + 1]
  <1> DEFINE a == SubSeq(s, 1, k - 1)
             b == SubSeq(s, k + 1, Len(s))
  <1>1. Len(s) \in Nat /\ k \in Nat /\ 1 <= k /\ k <= Len(s)
    OBVIOUS
  <1>2. a \in Seq(S) /\ Len(a) = k - 1 /\ \A j \in 1..(k - 1) : a[j] = s[j]
    BY <1>1
  <1>3. b \in Seq(S) /\ Len(b) = Len(s) - k /\ \A j \in 1..(Len(s) - k) : b[j] = s[k + j]
    BY <1>1
  <1>4. RemoveAt(s, k) = a \o b
    BY DEF RemoveAt
  <1> HIDE DEF a, b
  <1>5. /\ a \o b \in Seq(S) /\ Len(a \o b) = Len(s) - 1
        /\ \A j \in 1..(Len(s) - 1) : (a \o b)[j] = IF j <= Len(a) THEN a[j]
                                                    ELSE b[j - Len(a)]
    <2>1. Len(a) + Len(b) = Len(s) - 1
      BY <1>1, <1>2, <1>3
    <2>2. /\ a \o b \in Seq(S) /\ Len(a \o b) = Len(a) + Len(b)
          /\ \A j \in 1..(Len(a) + Len(b)) : (a \o b)[j] = IF j <= Len(a) THEN a[j]
                                                           ELSE b[j - Len(a)]
      BY <1>2, <1>3, ConcatProperties
    <2> QED
      BY <2>1, <2>2
  <1>6. ASSUME NEW j \in 1..(Len(s) - 1)
        PROVE  (a \o b)[j] = IF j < k THEN s[j] ELSE s[j + 1]
    <2>1. CASE j < k
      <3>1. j \in 1..(k - 1)
        BY <1>1, <2>1
      <3> QED
        BY <1>1, <1>2, <1>5, <2>1, <3>1
    <2>2. CASE ~(j < k)
      <3>1. j - (k - 1) \in 1..(Len(s) - k) /\ k + (j - (k - 1)) = j + 1 /\ ~(j <= k - 1)
        BY <1>1, <2>2
      <3> QED
        BY <1>1, <1>2, <1>3, <1>5, <2>2, <3>1
    <2> QED
      BY <2>1, <2>2
  <1> QED
    BY <1>4, <1>5, <1>6

-----------------------------------------------------------------------------
(* The inductive invariant                                                 *)

Entry == [name : Names, count : Number, version : Nat]

Typed ==
    /\ current \in [Ids -> Seq(Event)]
    /\ list \in Seq(Ids) /\ torn \in BOOLEAN
    /\ shown \in [Ids -> Names \cup {NoName}]
    /\ details \in [Ids -> SUBSET Entry]
    /\ drawn \in 0..MaxItems
    /\ req \in [Requests -> Request]
    /\ fatal \in {"none", "form", "template", "details", "race"}
    /\ contended \in SUBSET Ids

Deciding(q) == q.phase \in {"append", "store"}
Publishing(q) == q.phase \in {"publish", "list", "details"}

\* The event of a request is the one its command raised.
Carries(q, e) ==
    /\ q.event = {e}
    /\ e.kind = KindOf[q.cmd] /\ e.id = q.id /\ e.name = q.name
    /\ e.kind \in {"Created", "Renamed"} => e.name \in Names

\* A request has an item while it is served, an event from the decision on, and
\* views to call while it publishes.
ShapeOf(q) ==
    /\ q.phase = "idle" <=> q.id = 0
    /\ q.phase \in {"idle", "load"} => q.event = {}
    /\ Deciding(q) \/ Publishing(q) => \E e \in q.event : Carries(q, e)
    /\ q.phase = "respond" /\ q.answer = "ok" =>
          (\E e \in q.event : Carries(q, e))
          \/ (q.event = {} /\ q.cmd \in {"remove", "checkin"})
    /\ q.phase = "respond" /\ q.answer # "ok" => q.event = {}
    /\ q.phase \in {"list", "details"} => q.phase \in q.todo
    /\ q.todo # {} => Publishing(q) /\ \A e \in q.event : q.todo \subseteq Subscribed(e)

Shaped == \A r \in Requests : ShapeOf(req[r])

\* The list only holds items that have been given a name.
NamesListed == \A k \in DOMAIN list : shown[list[k]] \in Names

\* Two requests about one item make it contended.
Alone ==
    \A r, o \in Requests :
        r # o /\ req[r].phase # "idle" /\ req[r].id = req[o].id
        => req[r].id \in contended

\* An item has a history only once its number has been drawn; a request about
\* another one found its history, one that creates it found none.
DrawnBy(q) ==
    /\ q.phase # "idle" /\ q.cmd = "create" => q.id <= drawn
    /\ Deciding(q) /\ q.cmd # "create" => current[q.id] # <<>>
    /\ q.phase = "load" \/ Deciding(q) =>
          (q.cmd = "create" /\ q.id \notin contended => current[q.id] = <<>>)

Drawn ==
    /\ \A i \in Ids : current[i] # <<>> => i <= drawn
    /\ \A r \in Requests : DrawnBy(req[r])

\* What was decided on is the history that is there when the event is stored.
DecidedBy(q) ==
    Deciding(q) /\ q.id \notin contended =>
        /\ ~Refuses(q, Loaded(q))
        /\ q.event = {Raised(q, Loaded(q))}
        /\ q.phase = "store" => q.slice = current[q.id]

Decided == \A r \in Requests : DecidedBy(req[r])

\* What has been published, in part or in whole, is the last event stored.
StoredBy(q) ==
    (Publishing(q) \/ q.phase = "respond") /\ q.id \notin contended =>
        \A e \in q.event : current[q.id] # <<>> /\ Last(current[q.id]) = e

Stored == \A r \in Requests : StoredBy(req[r])

-----------------------------------------------------------------------------
(* What the steps do                                                       *)

\* The step makes of r's request what is given, and nothing of the others.
Moves(r, phase, event, slice, todo, count, answer) ==
    /\ req' \in [Requests -> Request]
    /\ \A o \in Requests : o # r => req'[o] = req[o]
    /\ Becomes(req[r], req'[r], phase, event, slice, todo, count, answer)

ViewsKept == list' = list /\ shown' = shown /\ torn' = torn /\ details' = details

\* The process ends.
Stops ==
    /\ fatal' \in {"form", "template", "details", "race"}
    /\ req' = [r \in Requests |-> Idle]
    /\ current' = current /\ ViewsKept /\ drawn' = drawn /\ contended' = contended

\* A request is begun.
Posts(r) ==
    /\ req' \in [Requests -> Request]
    /\ \A o \in Requests : o # r => req'[o] = req[o]
    /\ req[r].phase = "idle" /\ req'[r].phase = "load"
    /\ req'[r].id \in Ids /\ req'[r].event = {} /\ req'[r].todo = {}
    /\ \/ req'[r].cmd = "create" /\ req'[r].id = drawn + 1 /\ drawn' = drawn + 1
       \/ req'[r].cmd # "create" /\ drawn' = drawn
    /\ contended' \in SUBSET Ids /\ contended \subseteq contended'
    /\ \A o \in Requests : req[o].phase # "idle" /\ req[o].id = req'[r].id
                           => req'[r].id \in contended'
    /\ current' = current /\ ViewsKept /\ fatal' = fatal

\* A request ends.
Drops(r) ==
    /\ req' \in [Requests -> Request]
    /\ \A o \in Requests : o # r => req'[o] = req[o]
    /\ req'[r] = Idle
    /\ req[r].phase \in {"load", "respond"} \/ torn
    /\ current' = current /\ ViewsKept /\ drawn' = drawn /\ fatal' = fatal
    /\ contended' = contended

\* A command ends without an event.
Answers(r) ==
    /\ req[r].phase = "load"
    /\ \/ Moves(r, "respond", req[r].event, req[r].slice, req[r].todo, req[r].count, "error")
       \/ /\ req[r].cmd \in {"remove", "checkin"}
          /\ Moves(r, "respond", req[r].event, req[r].slice, req[r].todo, req[r].count, "ok")
    /\ current' = current /\ ViewsKept /\ drawn' = drawn /\ fatal' = fatal
    /\ contended' = contended

\* A command raises its event.
Decides(r) ==
    /\ req[r].phase = "load"
    /\ req[r].cmd = "create" \/ current[req[r].id] # <<>>
    /\ ~Refuses(req[r], Loaded(req[r]))
    /\ Moves(r, "append", {Raised(req[r], Loaded(req[r]))}, req[r].slice, req[r].todo,
             req[r].count, req[r].answer)
    /\ current' = current /\ ViewsKept /\ drawn' = drawn /\ fatal' = fatal
    /\ contended' = contended

\* The history is read ...
Reads(r) ==
    /\ req[r].phase = "append"
    /\ Moves(r, "store", req[r].event, current[req[r].id], req[r].todo, req[r].count,
             req[r].answer)
    /\ current' = current /\ ViewsKept /\ drawn' = drawn /\ fatal' = fatal
    /\ contended' = contended

\* ... and written, one event longer.
Writes(r, e) ==
    /\ req[r].phase = "store"
    /\ e \in Event /\ Carries(req[r], e)
    /\ current' = [current EXCEPT ![req[r].id] = Append(req[r].slice, e)]
    /\ Moves(r, "publish", {e}, <<>>, Subscribed(e), req[r].count, req[r].answer)
    /\ ViewsKept /\ drawn' = drawn /\ fatal' = fatal /\ contended' = contended

\* A view is called with the event.
Calls(r, view) ==
    /\ req[r].phase = "publish" /\ view \in req[r].todo /\ view \in {"list", "details"}
    /\ \E count \in Number :
          /\ Moves(r, view, req[r].event, req[r].slice, req[r].todo, count, req[r].answer)
          /\ view = "details" =>
                \A e \in req[r].event : NeedsEntry(e) =>
                                         \E d \in details[e.id] : d.count = count
    /\ current' = current /\ drawn' = drawn /\ fatal' = fatal /\ contended' = contended
    /\ list' = list /\ shown' = shown /\ details' = details /\ torn' \in BOOLEAN
    /\ torn => torn'

\* It returns.
Returns(r, view) ==
    /\ req[r].phase = view /\ view \in req[r].todo /\ view \in {"list", "details"}
    /\ \/ Moves(r, "publish", req[r].event, req[r].slice, req[r].todo \ {view}, 0, "none")
       \/ /\ req[r].todo = {view}
          /\ Moves(r, "respond", req[r].event, req[r].slice, {}, 0, "ok")
    /\ current' = current /\ drawn' = drawn /\ fatal' = fatal /\ contended' = contended
    /\ torn' = torn

ListReturns(r, e) ==
    /\ Returns(r, "list") /\ e \in Event /\ Carries(req[r], e)
    /\ list' = IF torn THEN <<>> ELSE ListAfter(list, e)
    /\ shown' = IF torn THEN [i \in Ids |-> NoName] ELSE ShownAfter(e)
    /\ details' = details

EntryAfter(entries, e, count) ==
    CASE e.kind = "Created" -> {[name |-> e.name, count |-> 0, version |-> 0]}
      [] e.kind = "Deactivated" -> {}
      [] OTHER -> {DtoAfter(d, e, count) : d \in entries}

DetailsReturns(r, e) ==
    /\ Returns(r, "details") /\ e \in Event /\ Carries(req[r], e)
    /\ details' = [details EXCEPT ![req[r].id] =
                     EntryAfter(details[req[r].id], e, req[r].count)]
    /\ list' = list /\ shown' = shown

\* Every step is one of these.
Steps(r) ==
    \/ Posts(r) \/ Drops(r) \/ Answers(r) \/ Decides(r) \/ Reads(r)
    \/ (\E e : Writes(r, e)) \/ (\E view : Calls(r, view))
    \/ (\E e : ListReturns(r, e)) \/ (\E e : DetailsReturns(r, e))

\* The request that Step replaces.
LEMMA StepMakes ==
    ASSUME req \in [Requests -> Request], NEW r \in Requests, NEW q \in Request, Step(r, q)
    PROVE  /\ req' \in [Requests -> Request] /\ req'[r] = q
           /\ \A o \in Requests : o # r => req'[o] = req[o]
  BY DEF Step

\* Step makes of a request what is given for its fields.
LEMMA StepMoves ==
    ASSUME req \in [Requests -> Request], NEW r \in Requests, NEW q \in Request, Step(r, q),
           NEW phase, NEW event, NEW slice, NEW todo, NEW count, NEW answer,
           Becomes(req[r], q, phase, event, slice, todo, count, answer)
    PROVE  Moves(r, phase, event, slice, todo, count, answer)
  BY StepMakes DEF Moves

\* A fatal error ends the process.
LEMMA GetEffect ==
    ASSUME NEW why, Fatal(why), why \in {"form", "template", "details", "race"}
    PROVE  Stops
  BY DEF Fatal, Stops, views, ViewsKept

\* Post begins a request, with the next number if it creates an item.
LEMMA PostEffect ==
    ASSUME Typed, NEW r \in Requests, Post(r)
    PROVE  fatal = "none" /\ Posts(r)
  <1>1. PICK cmd \in Command, id \in Ids, name \in Names \cup {NoName},
             num \in Number :
          /\ Form(cmd, id, name, num)
          /\ drawn' = IF cmd = "create" THEN id ELSE drawn
          /\ Step(r, [Idle EXCEPT !.phase = "load", !.cmd = cmd, !.id = id,
                                  !.name = name, !.num = num,
                                  !.page = cmd = "create" \/ details[id] # {}])
          /\ contended' = IF \E o \in Busy : req[o].id = id
                          THEN contended \cup {id} ELSE contended
    BY DEF Post
  <1>2. PICK page \in BOOLEAN : page = (cmd = "create" \/ details[id] # {})
    OBVIOUS
  <1>3. num \in Number /\ id \in 0..MaxItems
    BY AppAssumption DEF Ids
  <1>4. PICK q : q = [Idle EXCEPT !.phase = "load", !.cmd = cmd, !.id = id,
                                  !.name = name, !.num = num, !.page = page]
    OBVIOUS
  <1>5. /\ q \in Request /\ q.phase = "load" /\ q.cmd = cmd /\ q.id = id
        /\ q.event = {} /\ q.todo = {}
    <2> DEFINE A == Names \cup {NoName}
               B == SUBSET Event
               C == Seq(Event)
               D == SUBSET {"list", "details"}
               R == [phase : Phases, cmd : Command, id : 0..MaxItems, name : A,
                     num : Number, page : BOOLEAN, event : B, slice : C, todo : D,
                     count : Number, answer : {"none", "ok", "error"}]
    <2>1. R = Request
      BY DEF Request
    <2>2. Idle \in R
      BY <2>1, IdleRequest
    <2>3. name \in A /\ "load" \in Phases
      BY DEF Phases
    <2> HIDE DEF A, B, C, D
    <2>4. q \in R
      BY <1>3, <1>4, <2>2, <2>3
    <2>5. q.phase = "load" /\ q.cmd = cmd /\ q.id = id
      BY <1>4, <2>2
    <2>6. q.event = Idle.event /\ q.todo = Idle.todo
      BY <1>4, <2>2
    <2> QED
      BY <2>1, <2>4, <2>5, <2>6, IdleRequest
  <1>6. Step(r, q)
    BY <1>1, <1>2, <1>4
  <1>7. /\ req' \in [Requests -> Request] /\ req'[r] = q
        /\ \A o \in Requests : o # r => req'[o] = req[o]
    BY <1>5, <1>6, StepMakes DEF Typed
  <1>8. /\ fatal = "none" /\ req[r].phase = "idle"
        /\ current' = current /\ ViewsKept /\ fatal' = fatal
    BY DEF Post, At, views, ViewsKept
  <1>9. \/ cmd = "create" /\ id = drawn + 1 /\ drawn' = drawn + 1
        \/ cmd # "create" /\ drawn' = drawn
    BY <1>1 DEF Form
  <1>10. /\ contended' \in SUBSET Ids /\ contended \subseteq contended'
         /\ \A o \in Requests : req[o].phase # "idle" /\ req[o].id = id => id \in contended'
    <2>1. CASE \E o \in Busy : req[o].id = id
      BY <1>1, <2>1 DEF Typed
    <2>2. CASE ~\E o \in Busy : req[o].id = id
      BY <1>1, <2>2 DEF Typed, Busy
    <2> QED
      BY <2>1, <2>2
  <1> QED
    BY <1>5, <1>7, <1>8, <1>9, <1>10 DEF Posts

\* A command for an unknown item is dropped or answered without an event.
LEMMA HandleNilEffect ==
    ASSUME Typed, NEW r \in Requests, HandleNil(r)
    PROVE  fatal = "none" /\ (Drops(r) \/ Answers(r))
  <1>1. /\ fatal = "none" /\ req[r].phase = "load"
        /\ current' = current /\ ViewsKept /\ fatal' = fatal /\ drawn' = drawn
        /\ contended' = contended
    BY DEF HandleNil, At, views, ViewsKept
  <1>2. req \in [Requests -> Request] /\ req[r] \in Request
    BY DEF Typed
  <1>3. CASE Step(r, Idle)
    BY <1>1, <1>2, <1>3, StepMakes, IdleRequest DEF Drops
  <1>4. CASE Step(r, [req[r] EXCEPT !.phase = "respond", !.answer = "error"])
    <2>1. PICK q : q = [req[r] EXCEPT !.phase = "respond", !.answer = "error"]
      OBVIOUS
    <2>2. q \in Request /\ Becomes(req[r], q, "respond", req[r].event, req[r].slice,
                                   req[r].todo, req[r].count, "error")
      <3>1. "respond" \in Phases
        BY DEF Phases
      <3> QED
        BY <1>2, <2>1, <3>1, RequestAnswers
    <2>3. Moves(r, "respond", req[r].event, req[r].slice, req[r].todo, req[r].count, "error")
      BY <1>2, <1>4, <2>1, <2>2, StepMoves
    <2> QED
      BY <1>1, <2>3 DEF Answers
  <1> QED
    BY <1>3, <1>4 DEF HandleNil

\* A command that the item refuses is answered without an event.
LEMMA HandleRefusedEffect ==
    ASSUME Typed, NEW r \in Requests, HandleRefused(r)
    PROVE  fatal = "none" /\ Answers(r)
  <1>1. /\ fatal = "none" /\ req[r].phase = "load"
        /\ current' = current /\ ViewsKept /\ fatal' = fatal /\ drawn' = drawn
        /\ contended' = contended
    BY DEF HandleRefused, At, views, ViewsKept
  <1>2. req \in [Requests -> Request] /\ req[r] \in Request /\ "respond" \in Phases
    BY DEF Typed, Phases
  <1>3. PICK a \in {"none", "ok", "error"} :
          a = IF req[r].cmd \in {"remove", "checkin"} THEN "ok" ELSE "error"
    OBVIOUS
  <1>4. PICK q : q = [req[r] EXCEPT !.phase = "respond", !.answer = a]
    OBVIOUS
  <1>5. q \in Request /\ Becomes(req[r], q, "respond", req[r].event, req[r].slice,
                                 req[r].todo, req[r].count, a)
    BY <1>2, <1>4, RequestAnswers
  <1>6. Step(r, q)
    BY <1>3, <1>4 DEF HandleRefused
  <1>7. Moves(r, "respond", req[r].event, req[r].slice, req[r].todo, req[r].count, a)
    BY <1>2, <1>5, <1>6, StepMoves
  <1> QED
    BY <1>1, <1>3, <1>7 DEF Answers

\* An event that a command raises is one.
LEMMA RaisedTypes ==
    ASSUME NEW q \in Request, NEW item \in Item, q.phase # "idle", ShapeOf(q)
    PROVE  LET e == Raised(q, item)
           IN  /\ e \in Event /\ e.kind = KindOf[q.cmd] /\ e.id = q.id /\ e.name = q.name
               /\ e.count = q.num /\ e.version = item.version
  <1> DEFINE A == Names \cup {NoName}
  <1>1. /\ q.cmd \in Command /\ q.id \in Ids /\ q.name \in A /\ q.num \in Number
    BY RequestTypes, AppAssumption DEF ShapeOf, Ids
  <1>2. KindOf[q.cmd] \in Kinds
    BY <1>1 DEF KindOf, Command, Kinds
  <1>3. item.version \in Nat
    BY DEF Item
  <1> HIDE DEF A
  <1>4. PICK e : e = Raised(q, item)
    OBVIOUS
  <1>5. e \in [kind : Kinds, id : Ids, name : A, count : Number, version : Nat]
    BY <1>1, <1>2, <1>3, <1>4 DEF Raised
  <1>6. e \in Event
    BY <1>5 DEF Event, A
  <1> QED
    BY <1>4, <1>6 DEF Raised

\* The handler of a command loads an item.
LEMMA LoadedItem ==
    ASSUME Typed, NEW q \in Request, q.phase # "idle", ShapeOf(q)
    PROVE  Loaded(q) \in Item
  <1>1. q.id \in Ids
    BY RequestTypes, AppAssumption DEF ShapeOf, Ids
  <1>2. RebuildFromEvents(current[q.id]) \in Item
    BY <1>1, RebuiltItem DEF Typed
  <1>3. NewInventoryItem \in Item
    BY Wrapped DEF NewInventoryItem, Item
  <1> QED
    BY <1>2, <1>3 DEF Loaded

\* A command that is not refused raises its event.
LEMMA HandleRaisesEffect ==
    ASSUME Typed, Shaped, NEW r \in Requests, HandleRaises(r)
    PROVE  fatal = "none" /\ Decides(r)
  <1>1. /\ fatal = "none" /\ req[r].phase = "load"
        /\ current' = current /\ ViewsKept /\ fatal' = fatal /\ drawn' = drawn
        /\ contended' = contended
    BY DEF HandleRaises, At, views, ViewsKept
  <1>2. req \in [Requests -> Request] /\ req[r] \in Request /\ "append" \in Phases
    BY DEF Typed, Phases
  <1>3. PICK event : event = {Raised(req[r], Loaded(req[r]))}
    OBVIOUS
  <1>4. event \in SUBSET Event
    BY <1>1, <1>2, <1>3, LoadedItem, RaisedTypes DEF Shaped
  <1>5. PICK q : q = [req[r] EXCEPT !.phase = "append", !.event = event]
    OBVIOUS
  <1>6. q \in Request /\ Becomes(req[r], q, "append", event, req[r].slice,
                                 req[r].todo, req[r].count, req[r].answer)
    BY <1>2, <1>4, <1>5, RequestDecides
  <1>7. Step(r, q)
    BY <1>3, <1>5 DEF HandleRaises
  <1>8. Moves(r, "append", event, req[r].slice, req[r].todo, req[r].count, req[r].answer)
    BY <1>2, <1>6, <1>7, StepMoves
  <1>9. req[r].cmd = "create" \/ current[req[r].id] # <<>>
    BY DEF HandleRaises, NotFound
  <1>10. ~Refuses(req[r], Loaded(req[r]))
    BY DEF HandleRaises
  <1> QED
    BY <1>1, <1>3, <1>8, <1>9, <1>10 DEF Decides

\* Save first reads the history ...
LEMMA SaveReadEffect ==
    ASSUME Typed, Shaped, NEW r \in Requests, SaveRead(r)
    PROVE  fatal = "none" /\ Reads(r)
  <1>1. /\ fatal = "none" /\ req[r].phase = "append"
        /\ current' = current /\ ViewsKept /\ fatal' = fatal /\ drawn' = drawn
        /\ contended' = contended
    BY DEF SaveRead, At, views, ViewsKept
  <1>2. req \in [Requests -> Request] /\ req[r] \in Request /\ "store" \in Phases
    BY DEF Typed, Phases
  <1>3. PICK slice : slice = current[req[r].id]
    OBVIOUS
  <1>4. slice \in Seq(Event)
    <2>1. req[r].id \in Ids
      BY <1>1, <1>2, RequestTypes, AppAssumption DEF Shaped, ShapeOf, Ids
    <2> QED
      BY <1>3, <2>1 DEF Typed
  <1>5. PICK q : q = [req[r] EXCEPT !.phase = "store", !.slice = slice]
    OBVIOUS
  <1>6. q \in Request /\ Becomes(req[r], q, "store", req[r].event, slice,
                                 req[r].todo, req[r].count, req[r].answer)
    BY <1>2, <1>4, <1>5, RequestReads
  <1>7. Step(r, q)
    BY <1>3, <1>5 DEF SaveRead
  <1>8. Moves(r, "store", req[r].event, slice, req[r].todo, req[r].count, req[r].answer)
    BY <1>2, <1>6, <1>7, StepMoves
  <1> QED
    BY <1>1, <1>3, <1>8 DEF Reads

\* ... and then writes what it has read with the event behind it.
LEMMA SaveWriteEffect ==
    ASSUME Typed, Shaped, NEW r \in Requests, SaveWrite(r)
    PROVE  fatal = "none" /\ \E e : Writes(r, e)
  <1>1. /\ fatal = "none" /\ req[r].phase = "store"
        /\ ViewsKept /\ fatal' = fatal /\ drawn' = drawn
        /\ contended' = contended
    BY DEF SaveWrite, At, views, ViewsKept
  <1>2. req \in [Requests -> Request] /\ req[r] \in Request /\ "publish" \in Phases
    BY DEF Typed, Phases
  <1>3. PICK e \in req[r].event : Carries(req[r], e)
    BY <1>1 DEF Shaped, ShapeOf, Deciding
  <1>4. e \in Event /\ req[r].event = {e} /\ e.id = req[r].id
    BY <1>2, <1>3, RequestTypes DEF Carries
  <1>5. /\ current' = [current EXCEPT ![e.id] = Append(req[r].slice, e)]
        /\ Step(r, [req[r] EXCEPT !.phase = "publish", !.todo = Subscribed(e),
                                  !.slice = <<>>])
    BY <1>4 DEF SaveWrite
  <1>6. PICK todo \in SUBSET {"list", "details"}, slice \in Seq(Event) :
          todo = Subscribed(e) /\ slice = <<>>
    <2>1. Subscribed(e) \in SUBSET {"list", "details"}
      BY DEF Subscribed
    <2>2. <<>> \in Seq(Event)
      OBVIOUS
    <2> QED
      BY <2>1, <2>2
  <1>7. PICK q : q = [req[r] EXCEPT !.phase = "publish", !.todo = todo, !.slice = slice]
    OBVIOUS
  <1>8. q \in Request /\ Becomes(req[r], q, "publish", req[r].event, slice,
                                 todo, req[r].count, req[r].answer)
    BY <1>2, <1>7, RequestPublishes
  <1>9. Step(r, q)
    BY <1>5, <1>6, <1>7
  <1>10. Moves(r, "publish", req[r].event, slice, todo, req[r].count, req[r].answer)
    BY <1>2, <1>8, <1>9, StepMoves
  <1>11. Writes(r, e)
    BY <1>1, <1>3, <1>4, <1>5, <1>6, <1>10 DEF Writes
  <1> QED
    BY <1>1, <1>11

\* A request that is called for a view has a place.
LEMMA ViewPhases ==
    {"list", "details", "publish", "respond"} \subseteq Phases
  BY DEF Phases

\* PublishEvent calls the list view ...
LEMMA ListBeginEffect ==
    ASSUME Typed, NEW r \in Requests, ListBegin(r)
    PROVE  fatal = "none" /\ Calls(r, "list")
  <1>1. /\ fatal = "none" /\ req[r].phase = "publish" /\ "list" \in req[r].todo
        /\ current' = current /\ list' = list /\ shown' = shown /\ details' = details
        /\ fatal' = fatal /\ drawn' = drawn /\ contended' = contended
    BY DEF ListBegin, Begin, At
  <1>2. torn' \in BOOLEAN /\ (torn => torn')
    BY DEF ListBegin, Typed
  <1>3. req \in [Requests -> Request] /\ req[r] \in Request /\ "list" \in Phases
    BY ViewPhases DEF Typed
  <1>4. PICK q : q = [req[r] EXCEPT !.phase = "list"]
    OBVIOUS
  <1>5. q \in Request /\ Becomes(req[r], q, "list", req[r].event, req[r].slice,
                                 req[r].todo, req[r].count, req[r].answer)
    BY <1>3, <1>4, RequestMoves
  <1>6. Step(r, q)
    BY <1>4 DEF ListBegin
  <1>7. Moves(r, "list", req[r].event, req[r].slice, req[r].todo, req[r].count, req[r].answer)
    BY <1>3, <1>5, <1>6, StepMoves
  <1>8. req[r].count \in Number
    BY <1>3, RequestTypes
  <1> QED
    BY <1>1, <1>2, <1>7, <1>8 DEF Calls

\* ... or the detail view, which reads the count of its entry.
LEMMA DetailsBeginEffect ==
    ASSUME Typed, Shaped, NEW r \in Requests, DetailsBegin(r)
    PROVE  fatal = "none" /\ Calls(r, "details")
  <1>1. /\ fatal = "none" /\ req[r].phase = "publish" /\ "details" \in req[r].todo
        /\ current' = current /\ list' = list /\ shown' = shown /\ details' = details
        /\ torn' = torn
        /\ fatal' = fatal /\ drawn' = drawn /\ contended' = contended
    BY DEF DetailsBegin, Begin, At, views
  <1>2. req \in [Requests -> Request] /\ req[r] \in Request /\ "details" \in Phases
    BY ViewPhases DEF Typed
  <1>3. PICK e \in req[r].event :
           \/ ~NeedsEntry(e) /\ Step(r, [req[r] EXCEPT !.phase = "details"])
           \/ \E d \in details[e.id] :
                /\ NeedsEntry(e)
                /\ Step(r, [req[r] EXCEPT !.phase = "details", !.count = d.count])
    BY DEF DetailsBegin
  <1>4. e \in Event /\ req[r].event = {e} /\ e.id \in Ids
    <2>1. \E x : req[r].event = {x}
      BY <1>1 DEF Shaped, ShapeOf, Publishing, Carries
    <2>2. e \in Event
      BY <1>2, <1>3, RequestTypes
    <2> QED
      BY <1>3, <2>1, <2>2 DEF Event
  <1>5. CASE ~NeedsEntry(e) /\ Step(r, [req[r] EXCEPT !.phase = "details"])
    <2>1. PICK q : q = [req[r] EXCEPT !.phase = "details"]
      OBVIOUS
    <2>2. q \in Request /\ Becomes(req[r], q, "details", req[r].event, req[r].slice,
                                   req[r].todo, req[r].count, req[r].answer)
      BY <1>2, <2>1, RequestMoves
    <2>3. Moves(r, "details", req[r].event, req[r].slice, req[r].todo, req[r].count,
                req[r].answer)
      BY <1>2, <1>5, <2>1, <2>2, StepMoves
    <2>4. req[r].count \in Number
      BY <1>2, RequestTypes
    <2> QED
      BY <1>1, <1>4, <1>5, <2>3, <2>4 DEF Calls, Typed
  <1>6. CASE \E d \in details[e.id] :
                /\ NeedsEntry(e)
                /\ Step(r, [req[r] EXCEPT !.phase = "details", !.count = d.count])
    <2>1. PICK d \in details[e.id] :
             Step(r, [req[r] EXCEPT !.phase = "details", !.count = d.count])
      BY <1>6
    <2>2. PICK c : c = d.count
      OBVIOUS
    <2>3. c \in Number
      <3>1. d \in Entry
        BY <1>4, <2>1 DEF Typed
      <3> QED
        BY <2>2, <3>1 DEF Entry
    <2>4. PICK q : q = [req[r] EXCEPT !.phase = "details", !.count = c]
      OBVIOUS
    <2>5. q \in Request /\ Becomes(req[r], q, "details", req[r].event, req[r].slice,
                                   req[r].todo, c, req[r].answer)
      BY <1>2, <2>3, <2>4, RequestCounts
    <2>6. Step(r, q)
      BY <2>1, <2>2, <2>4
    <2>7. Moves(r, "details", req[r].event, req[r].slice, req[r].todo, c, req[r].answer)
      BY <1>2, <2>5, <2>6, StepMoves
    <2>8. \A x \in req[r].event : NeedsEntry(x) => \E y \in details[x.id] : y.count = c
      BY <1>4, <2>2
    <2> QED
      BY <1>1, <2>3, <2>7, <2>8 DEF Calls, Typed
  <1> QED
    BY <1>1, <1>3, <1>5, <1>6

\* The end of a view's handler.
LEMMA DeliveredEffect ==
    ASSUME Typed, Shaped, NEW r \in Requests, NEW view \in {"list", "details"},
           At(r, view), Delivered(r, view), torn' = torn,
           current' = current, drawn' = drawn, fatal' = fatal, contended' = contended
    PROVE  fatal = "none" /\ Returns(r, view)
  <1>1. /\ fatal = "none" /\ req[r].phase = view /\ view \in req[r].todo
    BY DEF At, Shaped, ShapeOf
  <1>2. req \in [Requests -> Request] /\ req[r] \in Request
    BY DEF Typed
  <1>3. PICK left \in SUBSET {"list", "details"} : left = req[r].todo \ {view}
    BY <1>2, RequestTypes
  <1>4. PICK phase \in Phases : phase = IF left = {} THEN "respond" ELSE "publish"
    BY ViewPhases
  <1>5. PICK answer \in {"none", "ok", "error"} : answer = IF left = {} THEN "ok" ELSE "none"
    OBVIOUS
  <1>6. PICK q : q = [req[r] EXCEPT !.phase = phase, !.todo = left, !.count = 0,
                                    !.answer = answer]
    OBVIOUS
  <1>7. q \in Request /\ Becomes(req[r], q, phase, req[r].event, req[r].slice,
                                 left, 0, answer)
    <2>1. PICK c \in Number : c = 0
      BY Wrapped
    <2>2. q = [req[r] EXCEPT !.phase = phase, !.todo = left, !.count = c, !.answer = answer]
      BY <1>6, <2>1
    <2>3. q \in Request /\ Becomes(req[r], q, phase, req[r].event, req[r].slice,
                                   left, c, answer)
      BY <1>2, <2>2, RequestDelivered
    <2> QED
      BY <2>1, <2>3
  <1>8. Step(r, q)
    BY <1>3, <1>4, <1>5, <1>6 DEF Delivered
  <1>9. Moves(r, phase, req[r].event, req[r].slice, left, 0, answer)
    BY <1>2, <1>7, <1>8, StepMoves
  <1>10. CASE left = {}
    <2>1. req[r].todo = {view}
      BY <1>1, <1>3, <1>10
    <2> QED
      BY <1>1, <1>4, <1>5, <1>9, <1>10, <2>1 DEF Returns
  <1>11. CASE left # {}
    BY <1>1, <1>3, <1>4, <1>5, <1>9, <1>11 DEF Returns
  <1> QED
    BY <1>10, <1>11

\* The list view has handled the event.
LEMMA ListHandleEffect ==
    ASSUME Typed, Shaped, NEW r \in Requests, ListHandle(r)
    PROVE  fatal = "none" /\ \E e : ListReturns(r, e)
  <1>1. fatal = "none" /\ Returns(r, "list") /\ details' = details
    BY DeliveredEffect DEF ListHandle
  <1>2. req[r] \in Request /\ req[r].phase = "list"
    BY DEF Typed, ListHandle, At
  <1>3. PICK e \in req[r].event : Carries(req[r], e)
    BY <1>2 DEF Shaped, ShapeOf, Publishing
  <1>4. e \in Event /\ req[r].event = {e}
    BY <1>2, <1>3, RequestTypes DEF Carries
  <1>5. /\ list' = IF torn THEN <<>> ELSE ListAfter(list, e)
        /\ shown' = IF torn THEN [i \in Ids |-> NoName] ELSE ShownAfter(e)
    BY <1>4 DEF ListHandle
  <1>6. ListReturns(r, e)
    BY <1>1, <1>3, <1>4, <1>5 DEF ListReturns
  <1> QED
    BY <1>1, <1>6

\* The detail view has handled the event.
LEMMA DetailsHandleEffect ==
    ASSUME Typed, Shaped, NEW r \in Requests, DetailsHandle(r)
    PROVE  fatal = "none" /\ \E e : DetailsReturns(r, e)
  <1>1. fatal = "none" /\ Returns(r, "details") /\ list' = list /\ shown' = shown
    BY DeliveredEffect DEF DetailsHandle
  <1>2. req[r] \in Request /\ req[r].phase = "details"
    BY DEF Typed, DetailsHandle, At
  <1>3. PICK e \in req[r].event :
          details' = [details EXCEPT ![e.id] =
            CASE e.kind = "Created" ->
                    {[name |-> e.name, count |-> 0, version |-> 0]}
              [] e.kind = "Deactivated" -> {}
              [] OTHER -> {DtoAfter(d, e, req[r].count) : d \in @}]
    BY DEF DetailsHandle
  <1>4. e \in Event /\ Carries(req[r], e) /\ e.id = req[r].id
    <2>1. PICK x \in req[r].event : Carries(req[r], x)
      BY <1>2 DEF Shaped, ShapeOf, Publishing
    <2> QED
      BY <1>2, <1>3, <2>1, RequestTypes DEF Carries
  <1>5. details' = [details EXCEPT ![req[r].id] =
                     EntryAfter(details[req[r].id], e, req[r].count)]
    BY <1>3, <1>4 DEF EntryAfter
  <1>6. DetailsReturns(r, e)
    BY <1>1, <1>4, <1>5 DEF DetailsReturns
  <1> QED
    BY <1>1, <1>6

\* A request ends with its answer, or in the torn list.
LEMMA EndEffect ==
    ASSUME Typed, NEW r \in Requests, ListPanics(r) \/ Respond(r)
    PROVE  fatal = "none" /\ Drops(r)
  <1>1. /\ fatal = "none" /\ Step(r, Idle) /\ req \in [Requests -> Request]
        /\ req[r].phase = "respond" \/ torn
        /\ current' = current /\ ViewsKept /\ fatal' = fatal /\ drawn' = drawn
        /\ contended' = contended
    BY DEF ListPanics, Respond, At, views, ViewsKept, Typed
  <1> QED
    BY <1>1, StepMakes, IdleRequest DEF Drops

\* Every step is of one of the kinds, and none is taken when the process has ended.
LEMMA StepEffect ==
    ASSUME Typed, Shaped, Next
    PROVE  fatal = "none" /\ (Stops \/ \E r \in Requests : Steps(r))
  <1>1. CASE Get \/ FormUnparsed
    BY <1>1, GetEffect DEF Get, FormUnparsed
  <1>2. CASE MapRace
    <2>1. fatal = "none"
      BY <1>2 DEF MapRace, At
    <2> QED
      BY <1>2, <2>1, GetEffect DEF MapRace
  <1>3. ASSUME NEW r \in Requests, Post(r)
        PROVE  fatal = "none" /\ Posts(r)
    BY <1>3, PostEffect
  <1>4. ASSUME NEW r \in Requests, Serve(r)
        PROVE  fatal = "none" /\ (Stops \/ Steps(r))
    <2>1. CASE HandleNil(r)
      BY <2>1, HandleNilEffect DEF Steps
    <2>2. CASE HandleRefused(r)
      BY <2>2, HandleRefusedEffect DEF Steps
    <2>3. CASE HandleRaises(r)
      BY <2>3, HandleRaisesEffect DEF Steps
    <2>4. CASE SaveRead(r)
      BY <2>4, SaveReadEffect DEF Steps
    <2>5. CASE SaveWrite(r)
      BY <2>5, SaveWriteEffect DEF Steps
    <2>6. CASE ListBegin(r)
      BY <2>6, ListBeginEffect DEF Steps
    <2>7. CASE ListHandle(r)
      BY <2>7, ListHandleEffect DEF Steps
    <2>8. CASE ListPanics(r) \/ Respond(r)
      BY <2>8, EndEffect DEF Steps
    <2>9. CASE DetailsBegin(r)
      BY <2>9, DetailsBeginEffect DEF Steps
    <2>10. CASE DetailsMissing(r)
      BY <2>10, GetEffect DEF DetailsMissing, Begin, At
    <2>11. CASE DetailsHandle(r)
      BY <2>11, DetailsHandleEffect DEF Steps
    <2>12. CASE RespondMissing(r)
      BY <2>12, GetEffect DEF RespondMissing, At
    <2> QED
      BY <1>4, <2>1, <2>2, <2>3, <2>4, <2>5, <2>6, <2>7, <2>8, <2>9, <2>10, <2>11, <2>12
         DEF Serve
  <1> QED
    BY <1>1, <1>2, <1>3, <1>4 DEF Next, Steps

-----------------------------------------------------------------------------
(* The list after an event                                                 *)

Holds(l, i) == \E k \in 1..Len(l) : l[k] = i
HoldsOnce(l, i) == \E k \in 1..Len(l) : \A n \in 1..Len(l) : l[n] = i <=> n = k

\* An entry cut out is gone, and the other items stay as they were.
LEMMA CutAt ==
    ASSUME NEW l \in Seq(Ids), NEW k \in 1..Len(l), NEW i, i # l[k]
    PROVE  LET m == RemoveAt(l, k)
           IN  /\ Holds(m, i) => Holds(l, i)
               /\ HoldsOnce(l, i) => HoldsOnce(m, i)
  <1>1. PICK m : m = RemoveAt(l, k)
    OBVIOUS
  <1> DEFINE n == Len(l)
  <1>2. /\ n \in Nat /\ k \in Nat /\ 1 <= k /\ k <= n /\ Len(m) = n - 1
        /\ \A j \in 1..(n - 1) : m[j] = IF j < k THEN l[j] ELSE l[j + 1]
    BY <1>1, RemovedAt
  <1> HIDE DEF n
  <1>3. \A j \in 1..(n - 1) : j \in 1..n /\ j + 1 \in 1..n
    BY <1>2
  <1>4. ASSUME Holds(m, i) PROVE Holds(l, i)
    <2>1. PICK j \in 1..(n - 1) : m[j] = i
      BY <1>2, <1>4 DEF Holds
    <2>2. l[j] = i \/ l[j + 1] = i
      BY <1>2, <2>1
    <2> QED
      BY <1>3, <2>1, <2>2 DEF Holds, n
  <1>5. ASSUME HoldsOnce(l, i) PROVE HoldsOnce(m, i)
    <2>1. PICK p \in 1..n : \A x \in 1..n : l[x] = i <=> x = p
      BY <1>5 DEF HoldsOnce, n
    <2>2. p # k /\ p \in Nat /\ p <= n /\ 1 <= p
      BY <1>2, <2>1
    <2>3. PICK q \in Nat : q = IF p < k THEN p ELSE p - 1
      BY <2>2
    <2>4. q \in 1..(n - 1)
      BY <1>2, <2>2, <2>3
    <2>5. ASSUME NEW x \in 1..(n - 1) PROVE m[x] = i <=> x = q
      <3>1. CASE x < k
        <4>1. m[x] = l[x] /\ (l[x] = i <=> x = p)
          BY <1>2, <1>3, <2>1, <3>1
        <4>2. x = p <=> x = q
          BY <1>2, <2>2, <2>3, <3>1
        <4> QED
          BY <4>1, <4>2
      <3>2. CASE ~(x < k)
        <4>1. m[x] = l[x + 1] /\ (l[x + 1] = i <=> x + 1 = p)
          BY <1>2, <1>3, <2>1, <3>2
        <4>2. x + 1 = p <=> x = q
          BY <1>2, <2>2, <2>3, <3>2
        <4> QED
          BY <4>1, <4>2
      <3> QED
        BY <3>1, <3>2
    <2>6. q \in 1..Len(m) /\ \A x \in 1..Len(m) : m[x] = i <=> x = q
      BY <1>2, <2>4, <2>5
    <2> QED
      BY <2>6 DEF HoldsOnce
  <1> QED
    BY <1>1, <1>4, <1>5

\* The only entry of an item leaves none.
LEMMA CutOnly ==
    ASSUME NEW l \in Seq(Ids), NEW k \in 1..Len(l), HoldsOnce(l, l[k])
    PROVE  ~Holds(RemoveAt(l, k), l[k])
  <1>1. PICK m : m = RemoveAt(l, k)
    OBVIOUS
  <1> DEFINE n == Len(l)
  <1>2. /\ n \in Nat /\ k \in Nat /\ 1 <= k /\ k <= n /\ Len(m) = n - 1
        /\ \A j \in 1..(n - 1) : m[j] = IF j < k THEN l[j] ELSE l[j + 1]
    <2>1. n \in Nat /\ k \in Nat /\ 1 <= k /\ k <= n
      OBVIOUS
    <2>2. /\ Len(RemoveAt(l, k)) = Len(l) - 1
          /\ \A j \in 1..(Len(l) - 1) :
               RemoveAt(l, k)[j] = IF j < k THEN l[j] ELSE l[j + 1]
      BY ONLY RemovedAt, l \in Seq(Ids), k \in 1..Len(l)
    <2> QED
      BY <1>1, <2>1, <2>2
  <1> HIDE DEF n
  <1>3. \A x \in 1..n : l[x] = l[k] => x = k
    <2>1. PICK p \in 1..n : \A x \in 1..n : l[x] = l[k] <=> x = p
      BY DEF HoldsOnce, n
    <2>2. k \in 1..n
      BY DEF n
    <2> QED
      BY <2>1, <2>2
  <1>4. ASSUME NEW j \in 1..(n - 1) PROVE m[j] # l[k]
    <2>1. j \in 1..n /\ j + 1 \in 1..n /\ (j < k => j # k) /\ (~(j < k) => j + 1 # k)
      BY <1>2
    <2> QED
      BY <1>2, <1>3, <2>1
  <1> QED
    BY <1>1, <1>2, <1>4 DEF Holds

\* One more entry is one more for its item alone.
LEMMA OneMore ==
    ASSUME NEW l \in Seq(Ids), NEW x \in Ids
    PROVE  /\ Append(l, x) \in Seq(Ids) /\ Holds(Append(l, x), x)
           /\ ~Holds(l, x) => HoldsOnce(Append(l, x), x)
           /\ \A i : i # x => /\ Holds(Append(l, x), i) => Holds(l, i)
                              /\ HoldsOnce(l, i) => HoldsOnce(Append(l, x), i)
  <1> DEFINE n == Len(l)
             m == Append(l, x)
  <1>1. /\ n \in Nat /\ Len(m) = n + 1 /\ m[n + 1] = x /\ m \in Seq(Ids)
        /\ \A j \in 1..n : m[j] = l[j]
    OBVIOUS
  <1> HIDE DEF n, m
  <1>2. /\ \A j \in 1..(n + 1) : j \in 1..n \/ j = n + 1
        /\ \A j \in 1..n : j \in 1..(n + 1) /\ j # n + 1
        /\ n + 1 \in 1..(n + 1)
    BY <1>1
  <1>3. Holds(m, x)
    BY <1>1, <1>2 DEF Holds
  <1>4. ~Holds(l, x) => HoldsOnce(m, x)
    BY <1>1, <1>2 DEF Holds, HoldsOnce, n
  <1>5. ASSUME NEW i, i # x
        PROVE  /\ Holds(m, i) => Holds(l, i)
               /\ HoldsOnce(l, i) => HoldsOnce(m, i)
    <2>1. ASSUME Holds(m, i) PROVE Holds(l, i)
      BY <1>1, <1>2, <1>5, <2>1 DEF Holds, n
    <2>2. ASSUME HoldsOnce(l, i) PROVE HoldsOnce(m, i)
      <3>1. PICK p \in 1..n : \A y \in 1..n : l[y] = i <=> y = p
        BY <2>2 DEF HoldsOnce, n
      <3>2. \A y \in 1..(n + 1) : m[y] = i <=> y = p
        BY <1>1, <1>2, <1>5, <3>1
      <3>3. p \in 1..Len(m) /\ \A y \in 1..Len(m) : m[y] = i <=> y = p
        BY <1>1, <1>2, <3>1, <3>2
      <3> QED
        BY <3>3 DEF HoldsOnce
    <2> QED
      BY <2>1, <2>2
  <1> QED
    BY <1>1, <1>3, <1>4, <1>5 DEF m

\* What an event does to the list: to the entries of its item and of the others.
LEMMA ListChanges ==
    ASSUME NEW l \in Seq(Ids), NEW e \in Event
    PROVE  LET m == ListAfter(l, e)
           IN  /\ m \in Seq(Ids)
               /\ Holds(m, e.id) => Holds(l, e.id) \/ e.kind = "Created"
               /\ \A i : i # e.id => /\ Holds(m, i) => Holds(l, i)
                                     /\ HoldsOnce(l, i) => HoldsOnce(m, i)
               /\ e.kind = "Created" /\ ~Holds(l, e.id) => HoldsOnce(m, e.id)
               /\ e.kind = "Deactivated" /\ (HoldsOnce(l, e.id) \/ ~Holds(l, e.id))
                    => ~Holds(m, e.id)
               /\ e.kind \notin {"Created", "Deactivated"} => m = l
  <1>1. PICK m : m = ListAfter(l, e)
    OBVIOUS
  <1>2. e.id \in Ids /\ Len(l) \in Nat
    BY DEF Event
  <1>3. CASE e.kind = "Created"
    <2>1. m = Append(l, e.id)
      BY <1>1, <1>3 DEF ListAfter
    <2> QED
      BY <1>1, <1>2, <1>3, <2>1, OneMore
  <1>4. CASE e.kind = "Deactivated"
    <2>1. m = RemoveFirst(l, e.id)
      BY <1>1, <1>4 DEF ListAfter
    <2>2. CASE m = l /\ \A k \in 1..Len(l) : l[k] # e.id
      <3>1. ~Holds(l, e.id)
        BY <2>2 DEF Holds
      <3> QED
        BY <1>1, <1>4, <2>2, <3>1
    <2>3. CASE \E k \in 1..Len(l) : l[k] = e.id /\ m = RemoveAt(l, k)
      <3>1. PICK k \in 1..Len(l) : l[k] = e.id /\ m = RemoveAt(l, k)
        BY <2>3
      <3>2. m \in Seq(Ids)
        BY <3>1, RemovedAt
      <3>3. Holds(l, e.id)
        BY <3>1 DEF Holds
      <3>4. HoldsOnce(l, e.id) => ~Holds(m, e.id)
        BY <3>1, CutOnly
      <3>5. \A i : i # e.id => /\ Holds(m, i) => Holds(l, i)
                               /\ HoldsOnce(l, i) => HoldsOnce(m, i)
        BY <3>1, CutAt
      <3> QED
        BY <1>1, <1>4, <3>2, <3>3, <3>4, <3>5
    <2> QED
      BY <1>2, <2>1, <2>2, <2>3, FirstRemoved
  <1>5. CASE e.kind \notin {"Created", "Deactivated"}
    <2>1. m = l
      BY <1>1, <1>5 DEF ListAfter
    <2> QED
      BY <1>1, <1>5, <2>1
  <1> QED
    BY <1>3, <1>4, <1>5

-----------------------------------------------------------------------------
(* The types                                                               *)

\* An entry's fields after an event.
LEMMA DtoFields ==
    ASSUME NEW d \in Entry, NEW e \in Event, NEW count \in Number,
           e.kind \in {"Renamed", "Removed", "CheckedIn"},
           e.kind = "Renamed" => e.name \in Names
    PROVE  DtoAfter(d, e, count)
             = [name |-> IF e.kind = "Renamed" THEN e.name ELSE d.name,
                count |-> IF e.kind = "Removed" THEN Wrap(count - e.count)
                          ELSE IF e.kind = "CheckedIn" THEN Wrap(count + e.count)
                          ELSE d.count,
                version |-> IF e.kind = "Renamed" THEN e.version ELSE d.version]
  <1>1. d \in [name : Names, count : Number, version : Nat]
    BY DEF Entry
  <1>2. e.count \in Number /\ e.version \in Nat
    BY DEF Event
  <1>3. CASE e.kind = "Renamed"
    BY <1>1, <1>2, <1>3 DEF DtoAfter
  <1>4. CASE e.kind = "Removed"
    BY <1>1, <1>2, <1>4 DEF DtoAfter
  <1>5. CASE e.kind = "CheckedIn"
    BY <1>1, <1>2, <1>5 DEF DtoAfter
  <1> QED
    BY <1>3, <1>4, <1>5

\* An event leaves entries that are entries.
LEMMA EntriesTyped ==
    ASSUME NEW entries \in SUBSET Entry, NEW e \in Event, NEW count \in Number,
           e.kind \in {"Created", "Renamed"} => e.name \in Names
    PROVE  EntryAfter(entries, e, count) \in SUBSET Entry
  <1>1. e.kind \in Kinds /\ e.count \in Number /\ e.version \in Nat
    BY DEF Event
  <1>2. CASE e.kind = "Created"
    <2>1. [name |-> e.name, count |-> 0, version |-> 0] \in Entry
      BY <1>2, Wrapped DEF Entry
    <2> QED
      BY <1>2, <2>1 DEF EntryAfter
  <1>3. CASE e.kind = "Deactivated"
    BY <1>3 DEF EntryAfter
  <1>4. CASE e.kind \in {"Renamed", "Removed", "CheckedIn"}
    <2>1. ASSUME NEW d \in entries PROVE DtoAfter(d, e, count) \in Entry
      <3>1. d \in Entry /\ d.name \in Names /\ d.count \in Number /\ d.version \in Nat
        BY DEF Entry
      <3>2. PICK name \in Names : name = IF e.kind = "Renamed" THEN e.name ELSE d.name
        BY <1>4, <3>1
      <3>3. PICK c \in Number : c = IF e.kind = "Removed" THEN Wrap(count - e.count)
                                 ELSE IF e.kind = "CheckedIn" THEN Wrap(count + e.count)
                                 ELSE d.count
        BY <1>1, <3>1, Wrapped
      <3>4. PICK v \in Nat : v = IF e.kind = "Renamed" THEN e.version ELSE d.version
        BY <1>1, <3>1
      <3>5. DtoAfter(d, e, count) = [name |-> name, count |-> c, version |-> v]
        BY <1>4, <3>1, <3>2, <3>3, <3>4, DtoFields
      <3> QED
        BY <3>5 DEF Entry
    <2> QED
      BY <1>4, <2>1 DEF EntryAfter
  <1> QED
    BY <1>1, <1>2, <1>3, <1>4 DEF Kinds

\* What a request that is served is about.
LEMMA ServedItem ==
    ASSUME Typed, Shaped, NEW r \in Requests, req[r].phase # "idle"
    PROVE  /\ req[r] \in Request /\ req[r].id \in Ids
           /\ current[req[r].id] \in Seq(Event) /\ details[req[r].id] \in SUBSET Entry
           /\ req[r].slice \in Seq(Event) /\ req[r].count \in Number
  <1>1. req[r] \in Request
    BY DEF Typed
  <1>2. req[r].id \in Ids
    BY <1>1, RequestTypes, AppAssumption DEF Shaped, ShapeOf, Ids
  <1> QED
    BY <1>1, <1>2, RequestTypes DEF Typed

\* Every variable keeps its type.
LEMMA StepTyped ==
    ASSUME Typed, Shaped, fatal = "none", Stops \/ \E r \in Requests : Steps(r)
    PROVE  Typed'
  <1>1. CASE Stops
    BY <1>1, IdleRequest DEF Stops, ViewsKept, Typed
  <1>2. ASSUME NEW r \in Requests, Posts(r) PROVE Typed'
    <2>1. drawn' \in 0..MaxItems
      BY <1>2, AppAssumption DEF Posts, Ids, Typed
    <2> QED
      BY <1>2, <2>1 DEF Posts, ViewsKept, Typed
  <1>3. ASSUME NEW r \in Requests, Drops(r) PROVE Typed'
    BY <1>3 DEF Drops, ViewsKept, Typed
  <1>4. ASSUME NEW r \in Requests, Answers(r) PROVE Typed'
    BY <1>4 DEF Answers, Moves, ViewsKept, Typed
  <1>5. ASSUME NEW r \in Requests, Decides(r) PROVE Typed'
    BY <1>5 DEF Decides, Moves, ViewsKept, Typed
  <1>6. ASSUME NEW r \in Requests, Reads(r) PROVE Typed'
    BY <1>6 DEF Reads, Moves, ViewsKept, Typed
  <1>7. ASSUME NEW r \in Requests, NEW e, Writes(r, e) PROVE Typed'
    <2>1. PICK h \in Seq(Event) : h = Append(req[r].slice, e)
      <3>1. req[r].slice \in Seq(Event) /\ e \in Event
        BY <1>7, ServedItem DEF Writes
      <3>2. Append(req[r].slice, e) \in Seq(Event)
        BY <3>1
      <3> QED
        BY <3>2
    <2>2. current' = [current EXCEPT ![req[r].id] = h]
      BY <1>7, <2>1 DEF Writes
    <2>3. current' \in [Ids -> Seq(Event)]
      BY <2>2 DEF Typed
    <2> QED
      BY <1>7, <2>3 DEF Writes, Moves, ViewsKept, Typed
  <1>8. ASSUME NEW r \in Requests, NEW view, Calls(r, view) PROVE Typed'
    BY <1>8 DEF Calls, Moves, Typed
  <1>9. ASSUME NEW r \in Requests, NEW e, ListReturns(r, e) PROVE Typed'
    <2>1. /\ e \in Event /\ Returns(r, "list") /\ details' = details
          /\ e.kind \in {"Created", "Renamed"} => e.name \in Names
      BY <1>9 DEF ListReturns, Carries
    <2>2. list' \in Seq(Ids)
      <3>1. ListAfter(list, e) \in Seq(Ids)
        BY <2>1, ListChanges DEF Typed
      <3>2. <<>> \in Seq(Ids)
        OBVIOUS
      <3> QED
        BY <1>9, <3>1, <3>2 DEF ListReturns
    <2>3. shown' \in [Ids -> Names \cup {NoName}]
      <3> DEFINE A == Names \cup {NoName}
      <3>1. e.name \in A /\ shown \in [Ids -> A] /\ [i \in Ids |-> NoName] \in [Ids -> A]
        BY <2>1 DEF Event, Typed
      <3> HIDE DEF A
      <3>2. ShownAfter(e) \in [Ids -> A]
        BY <3>1 DEF ShownAfter
      <3>3. shown' \in [Ids -> A]
        BY <1>9, <3>1, <3>2 DEF ListReturns
      <3> QED
        BY <3>3 DEF A
    <2> QED
      BY <2>1, <2>2, <2>3 DEF Returns, Moves, Typed
  <1>10. ASSUME NEW r \in Requests, NEW e, DetailsReturns(r, e) PROVE Typed'
    <2>1. /\ e \in Event /\ Returns(r, "details") /\ list' = list /\ shown' = shown
          /\ e.kind \in {"Created", "Renamed"} => e.name \in Names
          /\ req[r].phase = "details"
      BY <1>10 DEF DetailsReturns, Carries, Returns
    <2>2. PICK a \in SUBSET Entry : a = EntryAfter(details[req[r].id], e, req[r].count)
      BY <2>1, ServedItem, EntriesTyped
    <2>3. details' = [details EXCEPT ![req[r].id] = a]
      BY <1>10, <2>2 DEF DetailsReturns
    <2>4. details' \in [Ids -> SUBSET Entry]
      BY <2>3 DEF Typed
    <2> QED
      BY <2>1, <2>4 DEF Returns, Moves, Typed
  <1> QED
    BY <1>1, <1>2, <1>3, <1>4, <1>5, <1>6, <1>7, <1>8, <1>9, <1>10 DEF Steps

\* The list never holds an item without a name.
LEMMA StepNamesListed ==
    ASSUME Typed, Shaped, NamesListed, fatal = "none", Stops \/ \E r \in Requests : Steps(r)
    PROVE  NamesListed'
  <1>1. CASE list' = list /\ shown' = shown
    BY <1>1 DEF NamesListed
  <1>2. ASSUME NEW r \in Requests, NEW e, ListReturns(r, e), ~torn PROVE NamesListed'
    <2>1. /\ e \in Event /\ list' = ListAfter(list, e) /\ shown' = ShownAfter(e)
          /\ e.kind \in {"Created", "Renamed"} => e.name \in Names
      BY <1>2 DEF ListReturns, Carries
    <2>2. \A i \in Ids : Holds(list, i) => shown[i] \in Names
      BY DEF Holds, NamesListed, Typed
    <2>3. e.id \in Ids
      BY <2>1 DEF Event
    <2>4. ASSUME NEW i \in Ids, Holds(list', i) PROVE shown'[i] \in Names
      <3>1. CASE i # e.id
        <4>1. Holds(list, i)
          BY <2>1, <2>4, <3>1, ListChanges DEF Typed
        <4>2. shown'[i] = shown[i]
          BY <2>1, <3>1 DEF ShownAfter, Typed
        <4> QED
          BY <2>2, <4>1, <4>2
      <3>2. CASE i = e.id
        <4>1. Holds(list, i) \/ e.kind = "Created"
          BY <2>1, <2>4, <3>2, ListChanges DEF Typed
        <4>2. (shown'[i] = e.name /\ e.kind \in {"Created", "Renamed"}) \/ shown'[i] = shown[i]
          BY <2>1, <2>3, <3>2 DEF ShownAfter, Typed
        <4>3. e.kind = "Created" => shown'[i] = e.name
          BY <2>1, <2>3, <3>2 DEF ShownAfter, Typed
        <4> QED
          BY <2>1, <2>2, <4>1, <4>2, <4>3
      <3> QED
        BY <3>1, <3>2
    <2>5. list' \in Seq(Ids)
      BY <2>1, ListChanges DEF Typed
    <2>6. ASSUME NEW k \in DOMAIN list' PROVE shown'[list'[k]] \in Names
      <3>1. list'[k] \in Ids /\ k \in 1..Len(list')
        BY <2>5
      <3>2. Holds(list', list'[k])
        BY <3>1 DEF Holds
      <3> QED
        BY <2>4, <3>1, <3>2
    <2> QED
      BY <2>6 DEF NamesListed
  <1>3. ASSUME NEW r \in Requests, NEW e, ListReturns(r, e), torn PROVE NamesListed'
    <2>1. list' = <<>>
      BY <1>3 DEF ListReturns
    <2>2. DOMAIN list' = {}
      BY <2>1
    <2> QED
      BY <2>2 DEF NamesListed
  <1> QED
    BY <1>1, <1>2, <1>3 DEF Steps, Stops, Posts, Drops, Answers, Decides, Reads, Writes,
                            Calls, DetailsReturns, ViewsKept

\* What a step makes of the request it is about is in shape again.
LEMMA IdleShape == ShapeOf(Idle)
  BY IdleRequest DEF ShapeOf, Deciding, Publishing

\* An answer ...
LEMMA AnswersShape ==
    ASSUME Typed, Shaped, NEW r \in Requests, Answers(r)
    PROVE  ShapeOf(req'[r])
  <1>1. PICK n : n = req'[r]
    OBVIOUS
  <1>2. /\ n.phase = "respond" /\ n.id = req[r].id /\ n.cmd = req[r].cmd
        /\ n.event = req[r].event /\ n.todo = req[r].todo
        /\ n.answer = "ok" => req[r].cmd \in {"remove", "checkin"}
    BY <1>1 DEF Answers, Moves, Becomes
  <1>3. /\ req[r].phase = "load" /\ req[r].event = {} /\ req[r].id # 0
        /\ req[r].todo = {}
    BY DEF Answers, Shaped, ShapeOf, Publishing
  <1> QED
    BY <1>1, <1>2, <1>3 DEF ShapeOf, Deciding, Publishing

\* ... an event raised ...
LEMMA DecidesShape ==
    ASSUME Typed, Shaped, NEW r \in Requests, Decides(r)
    PROVE  ShapeOf(req'[r])
  <1>1. PICK n : n = req'[r]
    OBVIOUS
  <1>2. PICK e : e = Raised(req[r], Loaded(req[r]))
    OBVIOUS
  <1>3. /\ n.phase = "append" /\ n.id = req[r].id /\ n.cmd = req[r].cmd
        /\ n.name = req[r].name /\ n.event = {e} /\ n.todo = req[r].todo
    BY <1>1, <1>2 DEF Decides, Moves, Becomes
  <1>4. /\ req[r].phase = "load" /\ req[r].id # 0 /\ req[r].todo = {}
    BY DEF Decides, Shaped, ShapeOf, Publishing
  <1>5. /\ e.kind = KindOf[req[r].cmd] /\ e.id = req[r].id /\ e.name = req[r].name
        /\ e \in Event
    BY <1>2, <1>4, LoadedItem, RaisedTypes DEF Typed, Shaped
  <1>6. e.kind \in {"Created", "Renamed"} => e.name \in Names
    <2>1. req[r].cmd \in Command
      BY RequestTypes DEF Typed
    <2>2. e.kind \in {"Created", "Renamed"} => req[r].cmd \in {"create", "rename"}
      BY <1>5, <2>1 DEF KindOf, Command
    <2>3. req[r].cmd \in {"create", "rename"} => e.name # NoName
      BY <1>5 DEF Decides, Refuses
    <2>4. e.name \in Names \cup {NoName}
      BY <1>5 DEF Event
    <2> QED
      BY <2>2, <2>3, <2>4
  <1>7. Carries(n, e)
    BY <1>3, <1>5, <1>6 DEF Carries
  <1> QED
    BY <1>1, <1>3, <1>4, <1>7 DEF ShapeOf, Deciding, Publishing

\* ... a history read ...
LEMMA ReadsShape ==
    ASSUME Typed, Shaped, NEW r \in Requests, Reads(r)
    PROVE  ShapeOf(req'[r])
  <1>1. PICK n : n = req'[r]
    OBVIOUS
  <1>2. /\ n.phase = "store" /\ n.id = req[r].id /\ n.cmd = req[r].cmd
        /\ n.name = req[r].name /\ n.event = req[r].event /\ n.todo = req[r].todo
    BY <1>1 DEF Reads, Moves, Becomes
  <1>3. /\ req[r].phase = "append" /\ req[r].id # 0 /\ req[r].todo = {}
        /\ \E e \in req[r].event : Carries(req[r], e)
    BY DEF Reads, Shaped, ShapeOf, Publishing, Deciding
  <1>4. \E e \in n.event : Carries(n, e)
    BY <1>2, <1>3 DEF Carries
  <1> QED
    BY <1>1, <1>2, <1>3, <1>4 DEF ShapeOf, Deciding, Publishing

\* ... and written ...
LEMMA WritesShape ==
    ASSUME Typed, Shaped, NEW r \in Requests, NEW e, Writes(r, e)
    PROVE  ShapeOf(req'[r])
  <1>1. PICK n : n = req'[r]
    OBVIOUS
  <1>2. /\ n.phase = "publish" /\ n.id = req[r].id /\ n.cmd = req[r].cmd
        /\ n.name = req[r].name /\ n.event = {e} /\ n.todo = Subscribed(e)
    BY <1>1 DEF Writes, Moves, Becomes
  <1>3. req[r].id # 0 /\ Carries(req[r], e)
    BY DEF Writes, Shaped, ShapeOf
  <1>4. \E x \in n.event : Carries(n, x)
    BY <1>2, <1>3 DEF Carries
  <1> QED
    BY <1>1, <1>2, <1>3, <1>4 DEF ShapeOf, Deciding, Publishing

\* ... a view called ...
LEMMA CallsShape ==
    ASSUME Typed, Shaped, NEW r \in Requests, NEW view, Calls(r, view)
    PROVE  ShapeOf(req'[r])
  <1>1. PICK n : n = req'[r]
    OBVIOUS
  <1>2. /\ n.phase = view /\ n.id = req[r].id /\ n.cmd = req[r].cmd
        /\ n.name = req[r].name /\ n.event = req[r].event /\ n.todo = req[r].todo
        /\ view \in {"list", "details"} /\ view \in req[r].todo
    BY <1>1 DEF Calls, Moves, Becomes
  <1>3. /\ req[r].id # 0
        /\ \E e \in req[r].event : Carries(req[r], e)
        /\ \A e \in req[r].event : req[r].todo \subseteq Subscribed(e)
    BY DEF Calls, Shaped, ShapeOf, Publishing
  <1>4. \E e \in n.event : Carries(n, e)
    BY <1>2, <1>3 DEF Carries
  <1> QED
    BY <1>1, <1>2, <1>3, <1>4 DEF ShapeOf, Deciding, Publishing

\* ... and its return leave the request in shape.
LEMMA ReturnsShape ==
    ASSUME Typed, Shaped, NEW r \in Requests, NEW view, Returns(r, view)
    PROVE  ShapeOf(req'[r])
  <1>1. PICK n : n = req'[r]
    OBVIOUS
  <1>2. /\ n.id = req[r].id /\ n.cmd = req[r].cmd
        /\ n.name = req[r].name /\ n.event = req[r].event
        /\ \/ n.phase = "publish" /\ n.todo = req[r].todo \ {view}
           \/ n.phase = "respond" /\ n.todo = {}
    BY <1>1 DEF Returns, Moves, Becomes
  <1>3. /\ req[r].id # 0
        /\ \E e \in req[r].event : Carries(req[r], e)
        /\ \A e \in req[r].event : req[r].todo \subseteq Subscribed(e)
    BY DEF Returns, Shaped, ShapeOf, Publishing
  <1>4. n.answer = "ok" \/ n.phase = "publish"
    BY <1>1 DEF Returns, Moves, Becomes
  <1>5. \E e \in n.event : Carries(n, e)
    BY <1>2, <1>3 DEF Carries
  <1> QED
    BY <1>1, <1>2, <1>3, <1>4, <1>5 DEF ShapeOf, Deciding, Publishing

\* A step is about one request and leaves the others.
LEMMA OthersKept ==
    ASSUME NEW r \in Requests, Steps(r)
    PROVE  \A o \in Requests : o # r => req'[o] = req[o]
  BY DEF Steps, Posts, Drops, Answers, Decides, Reads, Writes, Calls, ListReturns,
         DetailsReturns, Returns, Moves

\* Every step leaves all requests in shape.
LEMMA StepShaped ==
    ASSUME Typed, Shaped, fatal = "none", Stops \/ \E r \in Requests : Steps(r)
    PROVE  Shaped'
  <1>1. CASE Stops
    BY <1>1, IdleShape DEF Stops, Shaped
  <1>2. ASSUME NEW r \in Requests, Steps(r) PROVE ShapeOf(req'[r])
    <2>1. CASE Posts(r)
      <3>1. req'[r].id # 0
        BY <2>1 DEF Posts, Ids
      <3> QED
        BY <2>1, <3>1 DEF Posts, ShapeOf, Deciding, Publishing
    <2>2. CASE Drops(r)
      BY <2>2, IdleShape DEF Drops
    <2> QED
      BY <1>2, <2>1, <2>2, AnswersShape, DecidesShape, ReadsShape, WritesShape,
         CallsShape, ReturnsShape DEF Steps, ListReturns, DetailsReturns
  <1>3. ASSUME NEW r \in Requests, Steps(r) PROVE Shaped'
    <2>1. ASSUME NEW o \in Requests PROVE ShapeOf(req'[o])
      <3>1. CASE o = r
        BY <1>2, <1>3, <3>1
      <3>2. CASE o # r
        BY <1>3, <3>2, OthersKept DEF Shaped
      <3> QED
        BY <3>1, <3>2
    <2> QED
      BY <2>1 DEF Shaped
  <1> QED
    BY <1>1, <1>3

-----------------------------------------------------------------------------
(* Who works on an item                                                    *)

\* A step that neither begins nor ends a request keeps its item.
LEMMA SameItem ==
    ASSUME NEW r \in Requests, Steps(r), ~Posts(r), ~Drops(r)
    PROVE  /\ req'[r].id = req[r].id /\ req'[r].cmd = req[r].cmd
           /\ req'[r].name = req[r].name /\ req'[r].num = req[r].num
           /\ req[r].phase # "idle" /\ req'[r].phase # "idle"
           /\ contended' = contended /\ drawn' = drawn
  <1>1. CASE Answers(r)
    BY <1>1 DEF Answers, Moves, Becomes
  <1>2. CASE Decides(r)
    BY <1>2 DEF Decides, Moves, Becomes
  <1>3. CASE Reads(r)
    BY <1>3 DEF Reads, Moves, Becomes
  <1>4. ASSUME NEW e, Writes(r, e)
        PROVE  /\ req'[r].id = req[r].id /\ req'[r].cmd = req[r].cmd
               /\ req'[r].name = req[r].name /\ req'[r].num = req[r].num
               /\ req[r].phase # "idle" /\ req'[r].phase # "idle"
               /\ contended' = contended /\ drawn' = drawn
    BY <1>4 DEF Writes, Moves, Becomes
  <1>5. ASSUME NEW view, Calls(r, view)
        PROVE  /\ req'[r].id = req[r].id /\ req'[r].cmd = req[r].cmd
               /\ req'[r].name = req[r].name /\ req'[r].num = req[r].num
               /\ req[r].phase # "idle" /\ req'[r].phase # "idle"
               /\ contended' = contended /\ drawn' = drawn
    BY <1>5 DEF Calls, Moves, Becomes
  <1>6. ASSUME NEW view, Returns(r, view)
        PROVE  /\ req'[r].id = req[r].id /\ req'[r].cmd = req[r].cmd
               /\ req'[r].name = req[r].name /\ req'[r].num = req[r].num
               /\ req[r].phase # "idle" /\ req'[r].phase # "idle"
               /\ contended' = contended /\ drawn' = drawn
    BY <1>6 DEF Returns, Moves, Becomes
  <1> QED
    BY <1>1, <1>2, <1>3, <1>4, <1>5, <1>6 DEF Steps, ListReturns, DetailsReturns

\* Two requests about one item never go unnoticed.
LEMMA StepAlone ==
    ASSUME Typed, Shaped, Alone, Stops \/ \E r \in Requests : Steps(r)
    PROVE  Alone'
  <1> SUFFICES ASSUME NEW a \in Requests, NEW o \in Requests,
                      a # o, req'[a].phase # "idle", req'[a].id = req'[o].id
               PROVE  req'[a].id \in contended'
    BY DEF Alone
  <1>1. CASE Stops
    BY <1>1, IdleRequest DEF Stops
  <1>2. ASSUME NEW r \in Requests, Posts(r) PROVE req'[a].id \in contended'
    <2>1. /\ \A x \in Requests : x # r => req'[x] = req[x]
          /\ contended \subseteq contended' /\ req'[r].id # 0
          /\ \A x \in Requests : req[x].phase # "idle" /\ req[x].id = req'[r].id
                                 => req'[r].id \in contended'
      BY <1>2 DEF Posts, Ids
    <2>2. \A x \in Requests : req[x].phase = "idle" <=> req[x].id = 0
      BY DEF Shaped, ShapeOf
    <2>3. CASE a = r
      BY <2>1, <2>2, <2>3
    <2>4. CASE o = r
      BY <2>1, <2>2, <2>4
    <2>5. CASE a # r /\ o # r
      BY <2>1, <2>5 DEF Alone
    <2> QED
      BY <2>3, <2>4, <2>5
  <1>3. ASSUME NEW r \in Requests, Drops(r) PROVE req'[a].id \in contended'
    <2>1. /\ \A x \in Requests : x # r => req'[x] = req[x]
          /\ contended = contended' /\ req'[r].id = 0 /\ req'[r].phase = "idle"
      BY <1>3, IdleRequest DEF Drops
    <2>2. \A x \in Requests : req[x].phase = "idle" <=> req[x].id = 0
      BY DEF Shaped, ShapeOf
    <2> QED
      BY <2>1, <2>2 DEF Alone
  <1>4. ASSUME NEW r \in Requests, Steps(r), ~Posts(r), ~Drops(r)
        PROVE  req'[a].id \in contended'
    <2>1. /\ \A x \in Requests : x # r => req'[x] = req[x]
          /\ contended = contended' /\ req'[r].id = req[r].id
          /\ req[r].phase # "idle"
      BY <1>4, OthersKept, SameItem
    <2> QED
      BY <2>1 DEF Alone
  <1> QED
    BY <1>1, <1>2, <1>3, <1>4

\* The history of an item stays while another is worked on, and while the step is
\* of another request about an item that no two have worked on.
LEMMA HistoryKept ==
    ASSUME Typed, Shaped, NEW r \in Requests, Steps(r)
    PROVE  /\ \A i \in Ids : i # req[r].id => current'[i] = current[i]
           /\ (~\E e : Writes(r, e)) => current' = current
           /\ contended \subseteq contended' /\ drawn <= drawn'
           /\ \A i \in Ids : current[i] # <<>> => current'[i] # <<>>
  <1>1. contended \subseteq contended' /\ drawn <= drawn'
    <2>1. CASE Posts(r)
      BY <2>1 DEF Posts, Typed
    <2>2. CASE Drops(r)
      BY <2>2 DEF Drops, Typed
    <2> QED
      BY <2>1, <2>2, SameItem DEF Typed
  <1>2. (~\E e : Writes(r, e)) => current' = current
    BY DEF Steps, Posts, Drops, Answers, Decides, Reads, Calls, ListReturns,
           DetailsReturns, Returns
  <1>3. ASSUME NEW e, Writes(r, e)
        PROVE  /\ \A i \in Ids : i # req[r].id => current'[i] = current[i]
               /\ \A i \in Ids : current[i] # <<>> => current'[i] # <<>>
    <2>1. PICK h : h = Append(req[r].slice, e)
      OBVIOUS
    <2>2. h # <<>>
      <3>1. req[r].slice \in Seq(Event) /\ e \in Event
        BY <1>3, ServedItem DEF Writes
      <3> QED
        BY <2>1, <3>1
    <2>3. current' = [current EXCEPT ![req[r].id] = h]
      BY <1>3, <2>1 DEF Writes
    <2>4. \A i \in Ids : current'[i] = IF i = req[r].id THEN h ELSE current[i]
      BY <2>3 DEF Typed
    <2> QED
      BY <2>2, <2>4
  <1> QED
    BY <1>1, <1>2, <1>3

\* A step of one request leaves the history of an item that only another is about.
LEMMA OthersHistory ==
    ASSUME Typed, Shaped, Alone, NEW r \in Requests, Steps(r),
           NEW o \in Requests, o # r, req[o].phase # "idle", req[o].id \notin contended'
    PROVE  current'[req[o].id] = current[req[o].id] /\ req[o].id \notin contended
  <1>1. req[o].id \in Ids /\ req[o].id \notin contended
    BY ServedItem, HistoryKept
  <1>2. CASE req[o].id # req[r].id
    BY <1>1, <1>2, HistoryKept
  <1>3. CASE req[o].id = req[r].id
    BY <1>1, <1>3 DEF Alone
  <1> QED
    BY <1>1, <1>2, <1>3

\* An item has a history only from the drawing of its number on.
LEMMA StepDrawn ==
    ASSUME Typed, Shaped, Alone, Drawn, Stops \/ \E r \in Requests : Steps(r)
    PROVE  Drawn'
  <1>1. CASE Stops
    <2>1. /\ \A o \in Requests : req'[o].phase = "idle"
          /\ current' = current /\ drawn' = drawn
      BY <1>1, IdleRequest DEF Stops
    <2> QED
      BY <2>1 DEF Drawn, DrawnBy, Deciding
  <1>2. ASSUME NEW r \in Requests, Steps(r) PROVE Drawn'
    <2>1. ASSUME NEW i \in Ids, current'[i] # <<>> PROVE i <= drawn'
      <3>1. i \in Nat /\ drawn \in Nat /\ drawn' \in Nat /\ drawn <= drawn'
        <4>1. drawn' \in Nat
          BY <1>2, SameItem DEF Posts, Drops, Typed
        <4> QED
          BY <1>2, <4>1, HistoryKept DEF Typed, Ids
      <3>2. CASE current[i] # <<>>
        BY <3>1, <3>2 DEF Drawn
      <3>3. CASE current[i] = <<>>
        <4>1. PICK e : Writes(r, e)
          BY <1>2, <2>1, <3>3, HistoryKept
        <4>2. i = req[r].id
          BY <1>2, <2>1, <3>3, HistoryKept
        <4>3. /\ Deciding(req[r]) /\ req[r].phase # "idle"
          BY <4>1 DEF Writes, Deciding
        <4>4. req[r].cmd = "create"
          BY <3>3, <4>2, <4>3 DEF Drawn, DrawnBy
        <4> QED
          BY <3>1, <4>2, <4>3, <4>4 DEF Drawn, DrawnBy
      <3> QED
        BY <3>2, <3>3
    <2>2. ASSUME NEW o \in Requests, o # r PROVE DrawnBy(req[o])'
      <3>1. req'[o] = req[o] /\ DrawnBy(req[o])
        BY <1>2, <2>2, OthersKept DEF Drawn
      <3>2. CASE req[o].phase = "idle"
        BY <3>1, <3>2 DEF DrawnBy, Deciding
      <3>3. CASE req[o].phase # "idle"
        <4>1. /\ req[o].id \in Ids /\ req[o].id \in Nat /\ drawn \in Nat /\ drawn' \in Nat
              /\ drawn <= drawn'
          <5>1. drawn' \in Nat
            BY <1>2, SameItem DEF Posts, Drops, Typed
          <5> QED
            BY <1>2, <3>3, <5>1, ServedItem, HistoryKept DEF Typed, Ids
        <4>2. req[o].cmd = "create" => req[o].id <= drawn'
          BY <3>1, <3>3, <4>1 DEF DrawnBy
        <4>3. Deciding(req[o]) /\ req[o].cmd # "create" => current'[req[o].id] # <<>>
          BY <1>2, <3>1, <4>1, HistoryKept DEF DrawnBy
        <4>4. (req[o].phase = "load" \/ Deciding(req[o])) =>
                 (req[o].cmd = "create" /\ req[o].id \notin contended'
                  => current'[req[o].id] = <<>>)
          BY <1>2, <2>2, <3>1, <3>3, OthersHistory DEF DrawnBy
        <4> QED
          BY <3>1, <4>2, <4>3, <4>4 DEF DrawnBy, Deciding
      <3> QED
        BY <3>2, <3>3
    <2>3. DrawnBy(req[r])'
      <3>1. CASE Posts(r)
        <4>1. PICK n : n = req'[r]
          OBVIOUS
        <4>2. /\ n.phase = "load" /\ n.id \in Ids /\ current' = current
              /\ drawn \in Nat
              /\ n.cmd = "create" => n.id = drawn + 1 /\ drawn' = drawn + 1
          BY <3>1, <4>1 DEF Posts, Typed
        <4>3. n.cmd = "create" => n.id <= drawn' /\ current[n.id] = <<>>
          BY <4>2 DEF Drawn
        <4> QED
          BY <4>1, <4>2, <4>3 DEF DrawnBy, Deciding
      <3>2. CASE Drops(r)
        BY <3>2, IdleRequest DEF Drops, DrawnBy, Deciding
      <3>3. CASE Steps(r) /\ ~Posts(r) /\ ~Drops(r)
        <4>1. PICK n : n = req'[r]
          OBVIOUS
        <4>2. /\ n.id = req[r].id /\ n.cmd = req[r].cmd /\ drawn' = drawn
              /\ req[r].phase # "idle" /\ contended' = contended /\ DrawnBy(req[r])
          BY <3>3, <4>1, SameItem DEF Drawn
        <4>3. CASE Decides(r)
          BY <4>1, <4>2, <4>3 DEF Decides, DrawnBy, Deciding
        <4>4. CASE Reads(r)
          BY <4>1, <4>2, <4>4 DEF Reads, DrawnBy, Deciding
        <4>5. CASE n.phase # "load" /\ ~Deciding(n)
          BY <4>1, <4>2, <4>5 DEF DrawnBy, Deciding
        <4>6. Decides(r) \/ Reads(r) \/ (n.phase # "load" /\ ~Deciding(n))
          BY <3>3, <4>1 DEF Steps, Answers, Writes, Calls, ListReturns, DetailsReturns,
             Returns, Moves, Becomes, Deciding
        <4> QED
          BY <4>3, <4>4, <4>5, <4>6
      <3> QED
        BY <1>2, <3>1, <3>2, <3>3
    <2> QED
      BY <2>1, <2>2, <2>3 DEF Drawn
  <1> QED
    BY <1>1, <1>2

-----------------------------------------------------------------------------
(* What is decided on is what the event is appended to                     *)

\* What a decision depends on.
LEMMA SameDecision ==
    ASSUME NEW q, NEW n, n.cmd = q.cmd, n.id = q.id, n.name = q.name, n.num = q.num
    PROVE  /\ Loaded(n) = Loaded(q)
           /\ \A item : Refuses(n, item) <=> Refuses(q, item)
           /\ \A item : Raised(n, item) = Raised(q, item)
  BY DEF Loaded, Refuses, Raised

\* A decision stays one about the history its event is stored behind.
LEMMA StepDecided ==
    ASSUME Typed, Shaped, Alone, Decided, Stops \/ \E r \in Requests : Steps(r)
    PROVE  Decided'
  <1>1. CASE Stops
    BY <1>1, IdleRequest DEF Stops, Decided, DecidedBy, Deciding
  <1>2. ASSUME NEW r \in Requests, Steps(r) PROVE Decided'
    <2>1. ASSUME NEW o \in Requests, o # r PROVE DecidedBy(req[o])'
      <3>1. PICK q : q = req[o]
        OBVIOUS
      <3>2. req'[o] = q /\ DecidedBy(q)
        BY <1>2, <2>1, <3>1, OthersKept DEF Decided
      <3>3. ASSUME Deciding(q), q.id \notin contended'
            PROVE  /\ ~Refuses(q, Loaded(q)') /\ q.event = {Raised(q, Loaded(q)')}
                   /\ q.phase = "store" => q.slice = current'[q.id]
        <4>1. current'[q.id] = current[q.id] /\ q.id \notin contended
          <5>1. req[o].phase # "idle"
            BY <3>1, <3>3 DEF Deciding
          <5> QED
            BY <1>2, <2>1, <3>1, <3>3, <5>1, OthersHistory
        <4>2. Loaded(q)' = Loaded(q)
          BY <4>1 DEF Loaded
        <4> QED
          BY <3>2, <3>3, <4>1, <4>2 DEF DecidedBy
      <3> QED
        BY <3>2, <3>3 DEF DecidedBy
    <2>2. DecidedBy(req[r])'
      <3>1. PICK q, n : q = req[r] /\ n = req'[r]
        OBVIOUS
      <3>2. CASE Decides(r)
        <4>1. /\ ~Refuses(q, Loaded(q)) /\ n.event = {Raised(q, Loaded(q))}
              /\ n.phase = "append" /\ current' = current
              /\ n.cmd = q.cmd /\ n.id = q.id /\ n.name = q.name /\ n.num = q.num
          BY <3>1, <3>2 DEF Decides, Moves, Becomes
        <4>2. Loaded(n)' = Loaded(q)
          BY <4>1 DEF Loaded
        <4>3. ~Refuses(n, Loaded(q)) /\ n.event = {Raised(n, Loaded(q))}
          BY <4>1, SameDecision
        <4> QED
          BY <3>1, <4>1, <4>2, <4>3 DEF DecidedBy
      <3>3. CASE Reads(r)
        <4>1. /\ n.event = q.event /\ n.slice = current[q.id] /\ contended' = contended
              /\ q.phase = "append" /\ current' = current
              /\ n.cmd = q.cmd /\ n.id = q.id /\ n.name = q.name /\ n.num = q.num
          BY <3>1, <3>3 DEF Reads, Moves, Becomes
        <4>2. Loaded(n)' = Loaded(q)
          BY <4>1 DEF Loaded
        <4>3. DecidedBy(q) /\ Deciding(q)
          BY <3>1, <4>1 DEF Decided, Deciding
        <4>4. n.id \notin contended' =>
                ~Refuses(n, Loaded(q)) /\ n.event = {Raised(n, Loaded(q))}
          BY <4>1, <4>3, SameDecision DEF DecidedBy
        <4> QED
          BY <3>1, <4>1, <4>2, <4>4 DEF DecidedBy
      <3>4. CASE ~Deciding(n)
        BY <3>1, <3>4 DEF DecidedBy, Deciding
      <3>5. Decides(r) \/ Reads(r) \/ ~Deciding(n)
        BY <1>2, <3>1, IdleRequest DEF Steps, Posts, Drops, Answers, Writes, Calls,
           ListReturns, DetailsReturns, Returns, Moves, Becomes, Deciding
      <3> QED
        BY <3>2, <3>3, <3>4, <3>5
    <2> QED
      BY <2>1, <2>2 DEF Decided
  <1> QED
    BY <1>1, <1>2

\* An event that is stored of an item that no two have worked on is the one decided
\* on for the history it is appended to.
LEMMA WritesAppends ==
    ASSUME Typed, Shaped, Drawn, Decided, NEW r \in Requests, NEW e, Writes(r, e),
           req[r].id \notin contended
    PROVE  LET q == req[r]
               h == current[q.id]
           IN  /\ q.id \in Ids /\ h \in Seq(Event) /\ e \in Event
               /\ current'[q.id] = Append(h, e)
               /\ Loaded(q) = RebuildFromEvents(h)
               /\ e = Raised(q, RebuildFromEvents(h))
               /\ ~Refuses(q, RebuildFromEvents(h))
               /\ e.kind = "Created" <=> h = <<>>
  <1>1. PICK q, h : q = req[r] /\ h = current[q.id]
    OBVIOUS
  <1>2. /\ q.phase = "store" /\ q.phase # "idle" /\ Deciding(q) /\ q.event = {e}
        /\ e \in Event /\ e.kind = KindOf[q.cmd] /\ q.id \notin contended
    BY <1>1 DEF Writes, Deciding, Carries
  <1>3. q.id \in Ids /\ h \in Seq(Event) /\ q.cmd \in Command /\ q.slice \in Seq(Event)
    BY <1>1, <1>2, ServedItem, RequestTypes
  <1>4. /\ ~Refuses(q, Loaded(q)) /\ e = Raised(q, Loaded(q)) /\ q.slice = h
    <2>1. DecidedBy(q)
      BY <1>1 DEF Decided
    <2> QED
      BY <1>1, <1>2, <2>1 DEF DecidedBy
  <1>5. current'[q.id] = Append(h, e)
    BY <1>1, <1>3, <1>4 DEF Writes, Typed
  <1>6. q.cmd = "create" <=> h = <<>>
    <2>1. DrawnBy(q)
      BY <1>1 DEF Drawn
    <2> QED
      BY <1>1, <1>2, <2>1 DEF DrawnBy
  <1>7. Loaded(q) = RebuildFromEvents(h)
    BY <1>1, <1>6, RebuildNone DEF Loaded
  <1>8. e.kind = "Created" <=> q.cmd = "create"
    BY <1>2, <1>3 DEF KindOf, Command
  <1> QED
    BY <1>1, <1>2, <1>3, <1>4, <1>5, <1>6, <1>7, <1>8

\* The event that a request publishes or has published stays the last of its history.
LEMMA StepStored ==
    ASSUME Typed, Shaped, Alone, Drawn, Decided, Stored,
           Stops \/ \E r \in Requests : Steps(r)
    PROVE  Stored'
  <1>1. CASE Stops
    BY <1>1, IdleRequest DEF Stops, Stored, StoredBy, Publishing
  <1>2. ASSUME NEW r \in Requests, Steps(r) PROVE Stored'
    <2>1. ASSUME NEW o \in Requests, o # r PROVE StoredBy(req[o])'
      <3>1. PICK q : q = req[o]
        OBVIOUS
      <3>2. req'[o] = q /\ StoredBy(q)
        BY <1>2, <2>1, <3>1, OthersKept DEF Stored
      <3>3. ASSUME Publishing(q) \/ q.phase = "respond", q.id \notin contended'
            PROVE  \A e \in q.event : current'[q.id] # <<>> /\ Last(current'[q.id]) = e
        <4>1. current'[q.id] = current[q.id] /\ q.id \notin contended
          <5>1. req[o].phase # "idle"
            BY <3>1, <3>3 DEF Publishing
          <5> QED
            BY <1>2, <2>1, <3>1, <3>3, <5>1, OthersHistory
        <4> QED
          BY <3>2, <3>3, <4>1 DEF StoredBy
      <3> QED
        BY <3>2, <3>3 DEF StoredBy
    <2>2. StoredBy(req[r])'
      <3>1. PICK q, n : q = req[r] /\ n = req'[r]
        OBVIOUS
      <3>2. CASE Answers(r)
        <4>1. n.event = {}
          BY <3>1, <3>2 DEF Answers, Moves, Becomes, Shaped, ShapeOf
        <4> QED
          BY <3>1, <4>1 DEF StoredBy
      <3>3. ASSUME NEW e, Writes(r, e) PROVE StoredBy(req[r])'
        <4>1. n.event = {e} /\ n.id = q.id /\ contended' = contended
          BY <3>1, <3>3 DEF Writes, Moves, Becomes
        <4>2. ASSUME q.id \notin contended
              PROVE  current'[q.id] # <<>> /\ Last(current'[q.id]) = e
          <5>1. PICK h \in Seq(Event) : current'[q.id] = Append(h, e) /\ e \in Event
            BY <3>1, <3>3, <4>2, WritesAppends
          <5> QED
            BY <5>1, AppendedParts
        <4> QED
          BY <3>1, <4>1, <4>2 DEF StoredBy
      <3>4. CASE /\ Publishing(q) /\ n.event = q.event /\ n.id = q.id
                 /\ current' = current /\ contended' = contended
        BY <3>1, <3>4 DEF Stored, StoredBy, Publishing
      <3>5. CASE ~Publishing(n) /\ n.phase # "respond"
        BY <3>1, <3>5 DEF StoredBy, Publishing
      <3>6. \/ Answers(r) \/ (\E e : Writes(r, e))
            \/ ~Publishing(n) /\ n.phase # "respond"
            \/ /\ Publishing(q) /\ n.event = q.event /\ n.id = q.id
               /\ current' = current /\ contended' = contended
        <4>1. ASSUME NEW view, Calls(r, view) \/ Returns(r, view)
              PROVE  /\ Publishing(q) /\ n.event = q.event /\ n.id = q.id
                     /\ current' = current /\ contended' = contended
          BY <3>1, <4>1 DEF Calls, Returns, Moves, Becomes, Publishing
        <4>2. CASE Posts(r) \/ Drops(r) \/ Decides(r) \/ Reads(r)
          BY <3>1, <4>2, IdleRequest DEF Posts, Drops, Decides, Reads, Moves, Becomes, Publishing
        <4> QED
          BY <1>2, <4>1, <4>2 DEF Steps, ListReturns, DetailsReturns
      <3> QED
        BY <3>2, <3>3, <3>4, <3>5, <3>6
    <2> QED
      BY <2>1, <2>2 DEF Stored
  <1> QED
    BY <1>1, <1>2

\* The history of an item that no two have worked on stays or gets the event that
\* was decided on for it.
LEMMA HistoryGrows ==
    ASSUME Typed, Shaped, Drawn, Decided, Stops \/ (\E r \in Requests : Steps(r)),
           NEW i \in Ids \ contended'
    PROVE  /\ i \notin contended /\ current[i] \in Seq(Event)
           /\ \/ current'[i] = current[i]
              \/ \E r \in Requests, e \in Event :
                    /\ Writes(r, e) /\ req[r].id = i
                    /\ current'[i] = Append(current[i], e)
                    /\ e = Raised(req[r], RebuildFromEvents(current[i]))
                    /\ ~Refuses(req[r], RebuildFromEvents(current[i]))
                    /\ e.kind = "Created" <=> current[i] = <<>>
  <1>1. CASE Stops
    BY <1>1 DEF Stops, Typed
  <1>2. ASSUME NEW r \in Requests, Steps(r)
        PROVE  /\ i \notin contended /\ current[i] \in Seq(Event)
               /\ \/ current'[i] = current[i]
                  \/ \E e \in Event :
                        /\ Writes(r, e) /\ req[r].id = i
                        /\ current'[i] = Append(current[i], e)
                        /\ e = Raised(req[r], RebuildFromEvents(current[i]))
                        /\ ~Refuses(req[r], RebuildFromEvents(current[i]))
                        /\ e.kind = "Created" <=> current[i] = <<>>
    <2>1. i \notin contended /\ current[i] \in Seq(Event)
      BY <1>2, HistoryKept DEF Typed
    <2>2. CASE i # req[r].id \/ ~\E e : Writes(r, e)
      BY <1>2, <2>1, <2>2, HistoryKept
    <2>3. CASE i = req[r].id /\ \E e : Writes(r, e)
      BY <2>1, <2>3, WritesAppends
    <2> QED
      BY <2>2, <2>3
  <1> QED
    BY <1>1, <1>2

\* A history whose stock has overflowed still has when it goes on; and it has when
\* its last check-in takes the stock beyond an int.
LEMMA OverflowedMore ==
    ASSUME NEW s \in Seq(Event), NEW e \in Event
    PROVE  /\ Overflowed(s) => Overflowed(Append(s, e))
           /\ e.kind = "CheckedIn" /\ RebuildFromEvents(s).count + e.count > MaxInt
              => Overflowed(Append(s, e))
  <1> DEFINE t == Append(s, e)
             m == Len(s)
             Past(h, n) == RebuildFromEvents(SubSeq(h, 1, n - 1)).count + h[n].count > MaxInt
  <1>1. /\ m \in Nat /\ DOMAIN s = 1..m /\ DOMAIN t = 1..(m + 1) /\ t[m + 1] = e
        /\ \A n \in 1..m : t[n] = s[n]
    OBVIOUS
  <1>2. ASSUME NEW n \in 1..(m + 1) PROVE SubSeq(t, 1, n - 1) = SubSeq(s, 1, n - 1)
    <2>1. n - 1 \in 0..m
      BY <1>1
    <2> QED
      BY <1>1, <2>1
  <1>3. SubSeq(t, 1, (m + 1) - 1) = s
    <2>1. SubSeq(s, 1, m) = s /\ (m + 1) - 1 = m /\ m + 1 \in 1..(m + 1)
      BY <1>1
    <2> QED
      BY <1>1, <1>2, <2>1
  <1>4. ASSUME Overflowed(s) PROVE Overflowed(t)
    <2>1. PICK n \in 1..m : s[n].kind = "CheckedIn" /\ Past(s, n)
      BY <1>1, <1>4 DEF Overflowed
    <2>2. n \in 1..(m + 1) /\ t[n] = s[n]
      BY <1>1
    <2>3. SubSeq(t, 1, n - 1) = SubSeq(s, 1, n - 1)
      BY <1>2, <2>2
    <2> HIDE DEF t, m
    <2> QED
      BY <1>1, <2>1, <2>2, <2>3 DEF Overflowed
  <1>5. ASSUME e.kind = "CheckedIn", RebuildFromEvents(s).count + e.count > MaxInt
        PROVE  Overflowed(t)
    <2>1. m + 1 \in DOMAIN t
      BY <1>1
    <2> HIDE DEF t, m
    <2> QED
      BY <1>1, <1>3, <1>5, <2>1 DEF Overflowed
  <1> QED
    BY <1>4, <1>5

\* No event that is stored takes more than there is.
LEMMA StepStock ==
    ASSUME Typed, Shaped, Drawn, Decided, StockNeverNegative,
           Stops \/ \E r \in Requests : Steps(r)
    PROVE  StockNeverNegative'
  <1> SUFFICES ASSUME NEW i \in Ids \ contended',
                      RebuildFromEvents(current'[i]).count < 0
               PROVE  Overflowed(current'[i])
    BY DEF StockNeverNegative, Uncontended
  <1>1. i \notin contended /\ current[i] \in Seq(Event)
    BY HistoryGrows
  <1>2. RebuildFromEvents(current[i]).count < 0 => Overflowed(current[i])
    BY <1>1 DEF StockNeverNegative, Uncontended
  <1>3. CASE current'[i] = current[i]
    BY <1>2, <1>3
  <1>4. CASE current'[i] # current[i]
    <2>1. PICK r \in Requests, e \in Event :
            /\ Writes(r, e) /\ req[r].id = i
            /\ current'[i] = Append(current[i], e)
            /\ e = Raised(req[r], RebuildFromEvents(current[i]))
            /\ ~Refuses(req[r], RebuildFromEvents(current[i]))
      BY <1>4, HistoryGrows
    <2>2. PICK q, item, h, after :
            /\ q = req[r] /\ item = RebuildFromEvents(h)
            /\ h = current[i] /\ after = RebuildFromEvents(Append(h, e))
      OBVIOUS
    <2>3. /\ q \in Request /\ h \in Seq(Event) /\ item \in Item
          /\ item.count \in Number /\ q.cmd \in Command /\ q.num \in Number
      <3>1. q \in Request /\ h \in Seq(Event) /\ item \in Item
        BY <1>1, <2>2, RebuiltItem DEF Typed
      <3>2. item.count \in Number
        BY <3>1 DEF Item
      <3> QED
        BY <3>1, <3>2, RequestTypes
    <2>4. after.count < 0 /\ Append(h, e) = current'[i]
      BY <2>1, <2>2
    <2>5. Overflowed(h) => Overflowed(Append(h, e))
      BY <2>3, OverflowedMore
    <2>6. CASE item.count < 0
      BY <1>2, <2>2, <2>4, <2>5, <2>6
    <2>7. CASE ~(item.count < 0)
      <3>1. e.kind = KindOf[q.cmd] /\ e.count = q.num
        BY <2>1, <2>2 DEF Raised
      <3>2. /\ q.cmd \in {"remove", "checkin"} => q.num > 0
            /\ q.cmd = "remove" => ~(Wrap(item.count - q.num) < 0)
        <4>1. ~Refuses(q, item)
          BY <2>1, <2>2
        <4>2. ~(q.cmd \in {"remove", "checkin"} /\ q.num <= 0)
          BY <4>1 DEF Refuses
        <4>3. q.num \in Int
          BY <2>3, AppAssumption DEF Number
        <4>4. q.cmd \in {"remove", "checkin"} => q.num > 0
          BY <4>2, <4>3
        <4> QED
          BY <4>1, <4>4 DEF Refuses
      <3>3. after.count = IF e.kind = "Removed" THEN Wrap(item.count - e.count)
                          ELSE IF e.kind = "CheckedIn" THEN Wrap(item.count + e.count)
                          ELSE item.count
        BY <2>2, <2>3, RebuiltMore
      <3>4. /\ e.kind = "Removed" => q.cmd = "remove"
            /\ e.kind = "CheckedIn" <=> q.cmd = "checkin"
        BY <2>3, <3>1 DEF KindOf, Command
      <3>5. e.kind = "CheckedIn"
        BY <2>4, <2>7, <3>1, <3>2, <3>3, <3>4
      <3>6. Wrap(item.count + q.num) < 0 /\ q.num > 0
        BY <2>4, <3>1, <3>2, <3>3, <3>4, <3>5
      <3>7. item.count + q.num > MaxInt
        BY <2>3, <2>7, <3>6, AppAssumption DEF Number, Wrap
      <3> QED
        BY <2>2, <2>3, <2>4, <3>1, <3>5, <3>7, OverflowedMore
    <2> QED
      BY <2>6, <2>7
  <1> QED
    BY <1>3, <1>4

\* Every event that is stored is numbered by its place.
LEMMA StepVersions ==
    ASSUME Typed, Shaped, Drawn, Decided, VersionsAreIndexes,
           Stops \/ \E r \in Requests : Steps(r)
    PROVE  VersionsAreIndexes'
  <1> SUFFICES ASSUME NEW i \in Ids \ contended', NEW k \in DOMAIN current'[i]
               PROVE  /\ current'[i][k].version = k - 1
                      /\ (k = 1) <=> (current'[i][k].kind = "Created")
    BY DEF VersionsAreIndexes, Uncontended
  <1>1. i \notin contended /\ current[i] \in Seq(Event)
    BY HistoryGrows
  <1>2. \A n \in DOMAIN current[i] : /\ current[i][n].version = n - 1
                                     /\ (n = 1) <=> (current[i][n].kind = "Created")
    BY <1>1 DEF VersionsAreIndexes, Uncontended
  <1>3. CASE current'[i] = current[i]
    BY <1>2, <1>3
  <1>4. CASE current'[i] # current[i]
    <2>1. PICK r \in Requests, e \in Event :
            /\ current'[i] = Append(current[i], e)
            /\ e = Raised(req[r], RebuildFromEvents(current[i]))
            /\ e.kind = "Created" <=> current[i] = <<>>
      BY <1>4, HistoryGrows
    <2>2. PICK h \in Seq(Event) : h = current[i]
      BY <1>1
    <2>3. e.version = Len(h)
      <3>1. e.version = RebuildFromEvents(h).version
        BY <2>1, <2>2 DEF Raised
      <3> QED
        BY <3>1, RebuiltItem
    <2>4. PICK g : g = Append(h, e)
      OBVIOUS
    <2>5. /\ DOMAIN g = 1..(Len(h) + 1) /\ g[Len(h) + 1] = e /\ Len(h) \in Nat
          /\ \A n \in 1..Len(h) : g[n] = h[n]
          /\ DOMAIN h = 1..Len(h) /\ (h = <<>> <=> Len(h) = 0)
      BY <2>4
    <2>6. k \in 1..(Len(h) + 1)
      BY <2>1, <2>2, <2>4, <2>5
    <2>7. CASE k \in 1..Len(h)
      <3>1. current'[i][k] = current[i][k] /\ k \in DOMAIN current[i]
        BY <2>1, <2>2, <2>4, <2>5, <2>7
      <3> QED
        BY <1>2, <3>1
    <2>8. CASE k = Len(h) + 1
      <3>1. current'[i][k] = e
        BY <2>1, <2>2, <2>4, <2>5, <2>8
      <3>2. k - 1 = Len(h) /\ (k = 1 <=> h = <<>>)
        BY <2>5, <2>8
      <3> QED
        BY <2>1, <2>2, <2>3, <3>1, <3>2
    <2> QED
      BY <2>5, <2>6, <2>7, <2>8
  <1> QED
    BY <1>3, <1>4

-----------------------------------------------------------------------------
(* What the views have seen                                                *)

\* A view has not seen the last event of an item while a request still has to call
\* it with one.
Awaits(i, view) == \E r \in Requests : req[r].id = i /\ view \in req[r].todo

SeenBy(i, view) == IF Awaits(i, view) THEN Front(current[i]) ELSE current[i]

\* The process runs and no two requests have been inside the list.
Watched == fatal = "none" /\ ~torn

\* The detail view shows what it has seen.
DetailsSeen ==
    Watched => \A i \in Uncontended : details[i] = DetailsOf(SeenBy(i, "details"))

\* A request that writes a count back has read it from what is there.
CountReadBy(q) ==
    q.phase = "details" /\ q.id \notin contended =>
        \A e \in q.event : NeedsEntry(e) => \A d \in details[q.id] : d.count = q.count

CountRead == Watched => \A r \in Requests : CountReadBy(req[r])

\* The list has one entry of an item that is active, by its name, and none of others.
ListedAs(l, names, i, history) ==
    /\ RebuildFromEvents(history).activated =>
          HoldsOnce(l, i) /\ \A d \in DetailsOf(history) : names[i] = d.name
    /\ ~RebuildFromEvents(history).activated => ~Holds(l, i)

\* The list shows what it has seen.
ListSeen ==
    Watched => \A i \in Uncontended : ListedAs(list, shown, i, SeenBy(i, "list"))

\* The events of a history are numbered, and only the first creates the item.
Indexed(h) == \A k \in DOMAIN h : /\ h[k].version = k - 1
                                  /\ (k = 1) <=> (h[k].kind = "Created")

\* In a numbered history only the first event creates, and it does.
LEMMA CreatedFirst ==
    ASSUME NEW s \in Seq(Event), NEW e \in Event, Indexed(Append(s, e))
    PROVE  /\ e.version = Len(s)
           /\ e.kind = "Created" <=> s = <<>>
           /\ s # <<>> => s[1].kind = "Created"
  <1>1. PICK h, n : h = Append(s, e) /\ n = Len(s)
    OBVIOUS
  <1>2. /\ n \in Nat /\ n + 1 \in DOMAIN h /\ h[n + 1] = e /\ (s = <<>> <=> n = 0)
        /\ n # 0 => 1 \in DOMAIN h /\ h[1] = s[1]
    BY <1>1
  <1>3. /\ e.version = (n + 1) - 1 /\ (n + 1 = 1 <=> e.kind = "Created")
        /\ n # 0 => s[1].kind = "Created"
    BY <1>1, <1>2 DEF Indexed
  <1> QED
    BY <1>1, <1>2, <1>3

\* An event makes of what a history says about an item what the longer one says.
LEMMA EntrySeen ==
    ASSUME NEW s \in Seq(Event), NEW e \in Event, Indexed(Append(s, e)), NEW count \in Number,
           DetailsOf(s) \subseteq Entry,
           e.kind \in {"Created", "Renamed"} => e.name \in Names,
           NeedsEntry(e) => \A d \in DetailsOf(s) : d.count = count
    PROVE  EntryAfter(DetailsOf(s), e, count) = DetailsOf(Append(s, e))
  <1>1. PICK h, item, after : /\ h = Append(s, e) /\ item = RebuildFromEvents(s)
                              /\ after = RebuildFromEvents(h)
    OBVIOUS
  <1>2. /\ after.activated = IF e.kind = "Created" THEN TRUE
                             ELSE IF e.kind = "Deactivated" THEN FALSE
                             ELSE item.activated
        /\ after.count = IF e.kind = "Removed" THEN Wrap(item.count - e.count)
                         ELSE IF e.kind = "CheckedIn" THEN Wrap(item.count + e.count)
                         ELSE item.count
    BY <1>1, RebuiltMore
  <1>3. h \in Seq(Event) /\ h # <<>> /\ item \in Item
    BY <1>1, AppendedParts, RebuiltItem
  <1>4. PICK m \in Nat : m = Len(s) + 1 /\ h[m] = e
    <2>1. Len(s) + 1 \in Nat /\ h[Len(s) + 1] = e
      BY <1>1
    <2> QED
      BY <2>1
  <1>5. CASE e.kind = "Created"
    <2>1. s = <<>> /\ e.version = 0
      BY <1>4, <1>5, CreatedFirst
    <2>2. after.activated /\ after.count = 0
      <3>1. item.count = 0
        BY <1>1, <2>1, RebuildNone DEF NewInventoryItem
      <3> QED
        BY <1>2, <1>5, <3>1
    <2>3. LastNaming(h, m)
      BY <1>1, <1>4, <1>5, NamingMore
    <2>4. DetailsOf(h) = {[name |-> h[m].name, count |-> after.count,
                           version |-> h[m].version]}
      BY <1>1, <1>3, <2>2, <2>3, SomeDetails
    <2>5. DetailsOf(h) = {[name |-> e.name, count |-> 0, version |-> 0]}
      BY <1>4, <2>1, <2>2, <2>4
    <2> QED
      BY <1>1, <1>5, <2>5 DEF EntryAfter
  <1>6. CASE e.kind = "Deactivated"
    <2>1. ~after.activated
      BY <1>2, <1>6
    <2>2. DetailsOf(h) = {}
      BY <1>1, <2>1, NoDetails
    <2> QED
      BY <1>1, <1>6, <2>2 DEF EntryAfter
  <1>7. CASE e.kind \in {"Renamed", "Removed", "CheckedIn"}
    <2>1. /\ s # <<>> /\ s[1].kind = "Created" /\ after.activated = item.activated
          /\ NeedsEntry(e)
      BY <1>2, <1>7, CreatedFirst DEF NeedsEntry
    <2>2. EntryAfter(DetailsOf(s), e, count) = {DtoAfter(d, e, count) : d \in DetailsOf(s)}
      BY <1>7 DEF EntryAfter
    <2>3. CASE ~item.activated
      <3>1. DetailsOf(s) = {} /\ DetailsOf(h) = {}
        BY <1>1, <2>1, <2>3, NoDetails
      <3> QED
        BY <1>1, <2>2, <3>1
    <2>4. CASE item.activated
      <3>1. PICK k \in Nat : LastNaming(s, k)
        BY <2>1, NamingExists
      <3>2. PICK d : d = [name |-> s[k].name, count |-> item.count,
                          version |-> s[k].version]
        OBVIOUS
      <3>3. DetailsOf(s) = {d} /\ d \in Entry /\ d.count = count /\ item.count = count
            /\ d.name = s[k].name /\ d.version = s[k].version
        BY <1>1, <2>1, <2>4, <3>1, <3>2, SomeDetails
      <3>4. EntryAfter(DetailsOf(s), e, count) = {DtoAfter(d, e, count)}
        BY <2>2, <3>3
      <3>5. CASE e.kind = "Renamed"
        <4>1. LastNaming(h, m)
          BY <1>1, <1>4, <3>5, NamingMore
        <4>2. DetailsOf(h) = {[name |-> h[m].name, count |-> after.count,
                               version |-> h[m].version]}
          BY <1>1, <1>3, <2>1, <2>4, <4>1, SomeDetails
        <4>3. after.count = item.count
          BY <1>2, <3>5
        <4>4. DetailsOf(h) = {[name |-> e.name, count |-> count, version |-> e.version]}
          BY <1>4, <3>3, <4>2, <4>3
        <4>5. DtoAfter(d, e, count)
                = [name |-> e.name, count |-> count, version |-> e.version]
          BY <3>3, <3>5, DtoFields
        <4> QED
          BY <1>1, <3>4, <4>4, <4>5
      <3>6. CASE e.kind \in {"Removed", "CheckedIn"}
        <4>1. LastNaming(h, k) /\ h[k] = s[k]
          BY <1>1, <3>1, <3>6, NamingMore
        <4>2. DetailsOf(h) = {[name |-> h[k].name, count |-> after.count,
                               version |-> h[k].version]}
          BY <1>1, <1>3, <2>1, <2>4, <4>1, SomeDetails
        <4>3. PICK c : c = after.count
          OBVIOUS
        <4>4. c = IF e.kind = "Removed" THEN Wrap(count - e.count)
                  ELSE IF e.kind = "CheckedIn" THEN Wrap(count + e.count)
                  ELSE d.count
          BY <1>2, <3>3, <3>6, <4>3
        <4>5. DetailsOf(h) = {[name |-> d.name, count |-> c, version |-> d.version]}
          BY <3>3, <4>1, <4>2, <4>3
        <4>6. DtoAfter(d, e, count)
                = [name |-> d.name, count |-> c, version |-> d.version]
          BY <3>3, <3>6, <4>4, DtoFields
        <4> QED
          BY <1>1, <3>4, <4>5, <4>6
      <3> QED
        BY <1>7, <3>5, <3>6
    <2> QED
      BY <2>3, <2>4
  <1>8. e.kind \in Kinds
    BY DEF Event
  <1> QED
    BY <1>5, <1>6, <1>7, <1>8 DEF Kinds

\* The same for the list, and for an event it is not called with.
LEMMA ListShows ==
    ASSUME NEW s \in Seq(Event), NEW e \in Event, Indexed(Append(s, e)),
           NEW l \in Seq(Ids), NEW names \in [Ids -> Names \cup {NoName}],
           ListedAs(l, names, e.id, s)
    PROVE  ListedAs(ListAfter(l, e),
                    IF e.kind = "Created" \/ (e.kind = "Renamed" /\ Holds(l, e.id))
                    THEN [names EXCEPT ![e.id] = e.name] ELSE names,
                    e.id, Append(s, e))
  <1>1. PICK h, item, after : /\ h = Append(s, e) /\ item = RebuildFromEvents(s)
                              /\ after = RebuildFromEvents(h)
    OBVIOUS
  <1>2. after.activated = IF e.kind = "Created" THEN TRUE
                          ELSE IF e.kind = "Deactivated" THEN FALSE
                          ELSE item.activated
    BY <1>1, RebuiltMore
  <1>3. PICK m : m = ListAfter(l, e)
    OBVIOUS
  <1>4. PICK after2 : after2 = IF e.kind = "Created" \/ (e.kind = "Renamed" /\ Holds(l, e.id))
                               THEN [names EXCEPT ![e.id] = e.name] ELSE names
    OBVIOUS
  <1>5. /\ m \in Seq(Ids)
        /\ e.kind = "Created" /\ ~Holds(l, e.id) => HoldsOnce(m, e.id)
        /\ e.kind = "Deactivated" /\ (HoldsOnce(l, e.id) \/ ~Holds(l, e.id))
             => ~Holds(m, e.id)
        /\ e.kind \notin {"Created", "Deactivated"} => m = l
    BY <1>3, ListChanges
  <1>6. /\ item.activated => HoldsOnce(l, e.id) /\ \A d \in DetailsOf(s) : names[e.id] = d.name
        /\ ~item.activated => ~Holds(l, e.id)
    BY <1>1 DEF ListedAs
  <1>7. HoldsOnce(l, e.id) => Holds(l, e.id)
    BY DEF Holds, HoldsOnce
  <1>8. e.id \in Ids /\ e.kind \in Kinds
    BY DEF Event
  <1>9. h \in Seq(Event) /\ h # <<>>
    BY <1>1, AppendedParts
  <1>10. PICK n \in Nat : n = Len(s) + 1 /\ h[n] = e
    <2>1. Len(s) + 1 \in Nat /\ h[Len(s) + 1] = e
      BY <1>1
    <2> QED
      BY <2>1
  <1>11. CASE e.kind = "Created"
    <2>1. s = <<>>
      BY <1>11, CreatedFirst
    <2>2. ~item.activated
      BY <1>1, <2>1, RebuildNone DEF NewInventoryItem
    <2>3. HoldsOnce(m, e.id) /\ after.activated
      BY <1>2, <1>5, <1>6, <1>11, <2>2
    <2>4. after2[e.id] = e.name
      BY <1>4, <1>8, <1>11
    <2>5. LastNaming(h, n)
      BY <1>1, <1>10, <1>11, NamingMore
    <2>6. DetailsOf(h) = {[name |-> h[n].name, count |-> after.count,
                           version |-> h[n].version]}
      BY <1>1, <1>9, <2>3, <2>5, SomeDetails
    <2>7. \A d \in DetailsOf(h) : after2[e.id] = d.name
      BY <1>10, <2>4, <2>6
    <2> QED
      BY <1>1, <1>3, <1>4, <2>3, <2>7 DEF ListedAs
  <1>12. CASE e.kind = "Deactivated"
    <2>1. ~after.activated /\ ~Holds(m, e.id)
      BY <1>2, <1>5, <1>6, <1>12
    <2> QED
      BY <1>1, <1>3, <1>4, <2>1 DEF ListedAs
  <1>13. CASE e.kind \in {"Renamed", "Removed", "CheckedIn"}
    <2>1. /\ s # <<>> /\ s[1].kind = "Created" /\ after.activated = item.activated
          /\ m = l
      BY <1>2, <1>5, <1>13, CreatedFirst
    <2>2. CASE ~item.activated
      BY <1>1, <1>3, <1>4, <1>6, <2>1, <2>2 DEF ListedAs
    <2>3. CASE item.activated
      <3>1. HoldsOnce(m, e.id) /\ Holds(l, e.id)
        BY <1>6, <1>7, <2>1, <2>3
      <3>2. PICK k \in Nat : LastNaming(s, k)
        BY <2>1, NamingExists
      <3>3. DetailsOf(s) = {[name |-> s[k].name, count |-> item.count,
                             version |-> s[k].version]}
        BY <1>1, <2>1, <2>3, <3>2, SomeDetails
      <3>4. names[e.id] = s[k].name
        BY <1>6, <2>3, <3>3
      <3>5. \A d \in DetailsOf(h) : after2[e.id] = d.name
        <4>1. CASE e.kind = "Renamed"
          <5>1. LastNaming(h, n)
            BY <1>1, <1>10, <4>1, NamingMore
          <5>2. DetailsOf(h) = {[name |-> h[n].name, count |-> after.count,
                                 version |-> h[n].version]}
            BY <1>1, <1>9, <2>1, <2>3, <5>1, SomeDetails
          <5>3. after2[e.id] = e.name
            BY <1>4, <1>8, <3>1, <4>1
          <5> QED
            BY <1>10, <5>2, <5>3
        <4>2. CASE e.kind \in {"Removed", "CheckedIn"}
          <5>1. LastNaming(h, k) /\ h[k] = s[k]
            BY <1>1, <3>2, <4>2, NamingMore
          <5>2. DetailsOf(h) = {[name |-> h[k].name, count |-> after.count,
                                 version |-> h[k].version]}
            BY <1>1, <1>9, <2>1, <2>3, <5>1, SomeDetails
          <5>3. after2 = names
            BY <1>4, <4>2
          <5> QED
            BY <3>4, <5>1, <5>2, <5>3
        <4> QED
          BY <1>13, <4>1, <4>2
      <3> QED
        BY <1>1, <1>3, <1>4, <2>1, <2>3, <3>1, <3>5 DEF ListedAs
    <2> QED
      BY <2>2, <2>3
  <1> QED
    BY <1>8, <1>11, <1>12, <1>13 DEF Kinds

\* Stock that comes or goes is nothing to the list.
LEMMA ListUnmoved ==
    ASSUME NEW s \in Seq(Event), NEW e \in Event, Indexed(Append(s, e)),
           e.kind \in {"Removed", "CheckedIn"},
           NEW l \in Seq(Ids), NEW names \in [Ids -> Names \cup {NoName}],
           ListedAs(l, names, e.id, s)
    PROVE  ListedAs(l, names, e.id, Append(s, e))
  <1>1. ListAfter(l, e) = l
    BY DEF ListAfter
  <1>2. (IF e.kind = "Created" \/ (e.kind = "Renamed" /\ Holds(l, e.id))
         THEN [names EXCEPT ![e.id] = e.name] ELSE names) = names
    OBVIOUS
  <1> QED
    BY <1>1, <1>2, ListShows

-----------------------------------------------------------------------------
(* Who a view is waiting for                                               *)

\* Without another request about an item, its view waits for this one or for none.
LEMMA SoleWaiter ==
    ASSUME Typed, Shaped, Alone, NEW r \in Requests, req[r].phase # "idle",
           req[r].id \notin contended, NEW view
    PROVE  Awaits(req[r].id, view) <=> view \in req[r].todo
  BY DEF Alone, Awaits

\* A step changes what a view waits for of an item when the request's event is stored
\* and when it is delivered to that view.
LEMMA AwaitsKept ==
    ASSUME Typed, Shaped, NEW r \in Requests, Steps(r), ~torn, NEW i \in Ids,
           NEW view \in {"list", "details"},
           req[r].id = i => ~(\E e : Writes(r, e)) /\ ~Returns(r, view)
    PROVE  Awaits(i, view)' <=> Awaits(i, view)
  <1>1. PICK q, n : q = req[r] /\ n = req'[r]
    OBVIOUS
  <1>2. /\ q.todo # {} => q.phase \in {"publish", "list", "details"}
        /\ q.phase = "idle" <=> q.id = 0
    BY <1>1 DEF Shaped, ShapeOf, Publishing
  <1>3. (n.id = i /\ view \in n.todo) <=> (q.id = i /\ view \in q.todo)
    <2>1. CASE Posts(r)
      <3>1. n.todo = {} /\ q.phase = "idle"
        BY <1>1, <2>1 DEF Posts
      <3> QED
        BY <1>2, <3>1
    <2>2. CASE Drops(r)
      <3>1. n.todo = {} /\ q.phase \in {"load", "respond"}
        BY <1>1, <2>2, IdleRequest DEF Drops
      <3> QED
        BY <1>2, <3>1
    <2>3. CASE Answers(r) \/ Decides(r) \/ Reads(r)
      BY <1>1, <2>3 DEF Answers, Decides, Reads, Moves, Becomes
    <2>4. ASSUME NEW e, Writes(r, e)
          PROVE  (n.id = i /\ view \in n.todo) <=> (q.id = i /\ view \in q.todo)
      BY <1>1, <2>4 DEF Writes, Moves, Becomes
    <2>5. ASSUME NEW v, Calls(r, v)
          PROVE  (n.id = i /\ view \in n.todo) <=> (q.id = i /\ view \in q.todo)
      BY <1>1, <2>5 DEF Calls, Moves, Becomes
    <2>6. ASSUME NEW v, Returns(r, v)
          PROVE  (n.id = i /\ view \in n.todo) <=> (q.id = i /\ view \in q.todo)
      <3>1. n.id = q.id
        BY <1>1, <2>6 DEF Returns, Moves, Becomes
      <3>2. n.todo = q.todo \ {v}
        BY <1>1, <2>6 DEF Returns, Moves, Becomes
      <3> QED
        BY <1>1, <2>6, <3>1, <3>2
    <2> QED
      BY <2>1, <2>2, <2>3, <2>4, <2>5, <2>6 DEF Steps, ListReturns, DetailsReturns
  <1>4. \A o \in Requests : o # r => req'[o] = req[o]
    BY OthersKept
  <1> QED
    BY <1>1, <1>3, <1>4 DEF Awaits

\* What a view has seen of an item stays until an event of it is stored or delivered.
LEMMA SeenKept ==
    ASSUME Typed, Shaped, NEW r \in Requests, Steps(r), ~torn, NEW i \in Ids,
           NEW view \in {"list", "details"},
           req[r].id = i => ~(\E e : Writes(r, e)) /\ ~Returns(r, view)
    PROVE  SeenBy(i, view)' = SeenBy(i, view)
  <1>1. current'[i] = current[i]
    BY HistoryKept
  <1>2. Awaits(i, view)' <=> Awaits(i, view)
    BY AwaitsKept
  <1> QED
    BY <1>1, <1>2 DEF SeenBy

\* Before the event of an item is stored both views have seen its whole history;
\* afterwards those it is for have not.
LEMMA SeenWritten ==
    ASSUME Typed, Shaped, Alone, Drawn, Decided, NEW r \in Requests, NEW e, Writes(r, e),
           NEW i, i = req[r].id, i \notin contended, NEW view \in {"list", "details"}
    PROVE  /\ SeenBy(i, view) = current[i]
           /\ view \in Subscribed(e) => SeenBy(i, view)' = current[i]
           /\ view \notin Subscribed(e) => SeenBy(i, view)' = Append(current[i], e)
  <1>1. PICK h : h = current[i]
    OBVIOUS
  <1>2. /\ i \in Ids /\ h \in Seq(Event) /\ e \in Event /\ current'[i] = Append(h, e)
    BY <1>1, WritesAppends
  <1>3. /\ req[r].phase = "store" /\ req'[r].id = i /\ req'[r].todo = Subscribed(e)
        /\ \A o \in Requests : o # r => req'[o] = req[o]
    BY <1>1 DEF Writes, Moves, Becomes
  <1>4. req[r].todo = {}
    BY <1>3 DEF Shaped, ShapeOf, Publishing
  <1>5. ~Awaits(i, view)
    BY <1>1, <1>3, <1>4, SoleWaiter
  <1>6. Awaits(i, view)' <=> view \in Subscribed(e)
    BY <1>3, <1>5 DEF Awaits
  <1>7. Front(Append(h, e)) = h
    BY <1>2, AppendedParts
  <1> QED
    BY <1>1, <1>2, <1>5, <1>6, <1>7 DEF SeenBy

\* Before the event is delivered the view has seen what came before it, and then all.
LEMMA SeenReturned ==
    ASSUME Typed, Shaped, Alone, Stored, NEW r \in Requests,
           NEW view \in {"list", "details"}, Returns(r, view),
           NEW e \in Event, Carries(req[r], e), NEW i, i = req[r].id, i \notin contended
    PROVE  /\ i \in Ids /\ SeenBy(i, view) \in Seq(Event)
           /\ Append(SeenBy(i, view), e) = current[i]
           /\ SeenBy(i, view)' = current[i]
  <1>1. PICK h : h = current[i]
    OBVIOUS
  <1>2. /\ req[r].phase = view /\ view \in req[r].todo /\ current' = current
        /\ req'[r].id = i /\ req'[r].todo = req[r].todo \ {view}
        /\ \A o \in Requests : o # r => req'[o] = req[o]
    BY <1>1 DEF Returns, Moves, Becomes
  <1>3. i \in Ids /\ h \in Seq(Event)
    BY <1>1, <1>2, ServedItem
  <1>4. h # <<>> /\ Last(h) = e
    <2>1. e \in req[r].event
      BY DEF Carries
    <2>2. StoredBy(req[r]) /\ Publishing(req[r])
      BY <1>2 DEF Stored, Publishing
    <2> QED
      BY <1>1, <2>1, <2>2 DEF StoredBy
  <1>5. Front(h) \in Seq(Event) /\ h = Append(Front(h), e)
    BY <1>3, <1>4, FrontAndLast
  <1>6. Awaits(i, view)
    BY <1>1, <1>2 DEF Awaits
  <1>7. ASSUME NEW o \in Requests, o # r PROVE req[o].id # i
    BY <1>1, <1>2, <1>7 DEF Alone
  <1>8. ~Awaits(i, view)'
    BY <1>2, <1>7 DEF Awaits
  <1> QED
    BY <1>1, <1>2, <1>3, <1>5, <1>6, <1>8 DEF SeenBy

-----------------------------------------------------------------------------
(* The read model follows the histories                                    *)

\* The process does not come to life again, nor does the list heal.
LEMMA WatchedBefore ==
    ASSUME Typed, Stops \/ (\E r \in Requests : Steps(r)), Watched'
    PROVE  Watched /\ ~torn /\ \E r \in Requests : Steps(r)
  <1>1. ~Stops
    BY DEF Watched, Stops
  <1>2. PICK r \in Requests : Steps(r)
    BY <1>1
  <1>3. fatal' = fatal
    BY <1>2 DEF Steps, Posts, Drops, Answers, Decides, Reads, Writes, Calls, ListReturns,
       DetailsReturns, Returns
  <1>4. torn => torn'
    <2>1. torn' = torn \/ \E view : Calls(r, view)
      BY <1>2 DEF Steps, Posts, Drops, Answers, Decides, Reads, Writes, ListReturns,
         DetailsReturns, Returns, ViewsKept
    <2> QED
      BY <2>1 DEF Calls
  <1> QED
    BY <1>2, <1>3, <1>4 DEF Watched

\* Only the return of a view changes it.
LEMMA ViewsChange ==
    ASSUME NEW r \in Requests, Steps(r)
    PROVE  /\ (~\E e : DetailsReturns(r, e)) => details' = details
           /\ (~\E e : ListReturns(r, e)) => list' = list /\ shown' = shown
  BY DEF Steps, Posts, Drops, Answers, Decides, Reads, Writes, Calls, ListReturns,
         DetailsReturns, ViewsKept

\* A request that serves one view serves no other, and none before its event is stored.
LEMMA OneAtATime ==
    ASSUME NEW r \in Requests
    PROVE  /\ Returns(r, "list") => ~Returns(r, "details")
           /\ \A e, view : Writes(r, e) /\ view \in {"list", "details"} => ~Returns(r, view)
  BY DEF Returns, Writes

\* The detail view goes on showing what it has seen.
LEMMA StepDetailsSeen ==
    ASSUME Typed, Shaped, Alone, Drawn, Decided, Stored, VersionsAreIndexes,
           DetailsSeen, CountRead, Stops \/ \E r \in Requests : Steps(r)
    PROVE  DetailsSeen'
  <1> SUFFICES ASSUME Watched', NEW i \in Ids \ contended'
               PROVE  details'[i] = DetailsOf(SeenBy(i, "details")')
    BY DEF DetailsSeen, Uncontended
  <1>1. PICK r \in Requests : Steps(r)
    BY WatchedBefore
  <1>2. Watched /\ ~torn /\ i \in Ids /\ i \notin contended
    BY <1>1, WatchedBefore, HistoryKept
  <1>3. details[i] = DetailsOf(SeenBy(i, "details"))
    BY <1>2 DEF DetailsSeen, Uncontended
  <1>4. ASSUME NEW e, DetailsReturns(r, e), req[r].id = i
        PROVE  details'[i] = DetailsOf(SeenBy(i, "details")')
    <2>1. /\ e \in Event /\ Carries(req[r], e) /\ Returns(r, "details")
          /\ e.kind \in {"Created", "Renamed"} => e.name \in Names
          /\ req[r].phase = "details" /\ req[r].phase # "idle"
      BY <1>4 DEF DetailsReturns, Carries, Returns
    <2>2. PICK s : s = SeenBy(i, "details")
      OBVIOUS
    <2>3. s \in Seq(Event) /\ Append(s, e) = current[i] /\ SeenBy(i, "details")' = current[i]
      BY <1>2, <1>4, <2>1, <2>2, SeenReturned
    <2>4. Indexed(Append(s, e))
      BY <1>2, <2>3 DEF VersionsAreIndexes, Uncontended, Indexed
    <2>5. PICK c \in Number : c = req[r].count
      BY <2>1, ServedItem
    <2>6. NeedsEntry(e) => \A d \in DetailsOf(s) : d.count = c
      <3>1. CountReadBy(req[r])
        BY <1>2 DEF CountRead
      <3> QED
        BY <1>2, <1>3, <1>4, <2>1, <2>2, <2>5, <3>1 DEF CountReadBy, Carries
    <2>7. DetailsOf(s) \subseteq Entry
      BY <1>2, <1>3, <2>2 DEF Typed
    <2>8. EntryAfter(DetailsOf(s), e, c) = DetailsOf(Append(s, e))
      BY <2>1, <2>3, <2>4, <2>6, <2>7, EntrySeen
    <2>9. details'[i] = EntryAfter(details[i], e, c)
      BY <1>2, <1>4, <2>5 DEF DetailsReturns, Typed
    <2> QED
      BY <1>3, <2>2, <2>3, <2>8, <2>9
  <1>5. ASSUME NEW e, Writes(r, e), req[r].id = i
        PROVE  details'[i] = DetailsOf(SeenBy(i, "details")')
    <2>1. "details" \in Subscribed(e)
      BY DEF Subscribed
    <2>2. SeenBy(i, "details") = current[i] /\ SeenBy(i, "details")' = current[i]
      BY <1>2, <1>5, <2>1, SeenWritten
    <2>3. details' = details
      BY <1>5 DEF Writes, ViewsKept
    <2> QED
      BY <1>3, <2>2, <2>3
  <1>6. CASE /\ req[r].id = i => ~(\E e : Writes(r, e)) /\ ~Returns(r, "details")
    <2>1. SeenBy(i, "details")' = SeenBy(i, "details")
      BY <1>1, <1>2, <1>6, SeenKept
    <2>2. details'[i] = details[i]
      <3>1. CASE \E e : DetailsReturns(r, e)
        BY <1>2, <1>6, <3>1 DEF DetailsReturns, Typed
      <3>2. CASE ~\E e : DetailsReturns(r, e)
        BY <1>1, <3>2, ViewsChange
      <3> QED
        BY <3>1, <3>2
    <2> QED
      BY <1>3, <2>1, <2>2
  <1>7. Returns(r, "details") => \E e : DetailsReturns(r, e)
    <2>1. ASSUME Returns(r, "details"), ~\E e : DetailsReturns(r, e) PROVE FALSE
      <3>1. req[r].phase = "details" /\ req'[r].phase \in {"publish", "respond"}
        BY <2>1 DEF Returns, Moves, Becomes
      <3> QED
        BY <1>1, <1>2, <2>1, <3>1, OneAtATime DEF Steps, Posts, Drops, Answers, Decides,
           Reads, Writes, Calls, ListReturns
    <2> QED
      BY <2>1
  <1> QED
    BY <1>4, <1>5, <1>6, <1>7

\* The count that a request has read stays what the detail view has, until it writes.
LEMMA StepCountRead ==
    ASSUME Typed, Shaped, Alone, DetailsSeen, CountRead,
           Stops \/ \E r \in Requests : Steps(r)
    PROVE  CountRead'
  <1> SUFFICES ASSUME Watched', NEW o \in Requests, req'[o].phase = "details",
                      req'[o].id \notin contended',
                      NEW e \in req'[o].event, NEW d \in details'[req'[o].id], NeedsEntry(e)
               PROVE  d.count = req'[o].count
    BY DEF CountRead, CountReadBy
  <1>1. PICK r \in Requests : Steps(r)
    BY WatchedBefore
  <1>2. Watched /\ ~torn
    BY WatchedBefore
  <1>3. CASE o # r
    <2>1. /\ req'[o] = req[o] /\ req[o].phase = "details" /\ req[o].phase # "idle"
          /\ req[o].id \notin contended /\ req[o].id \in Ids
      <3>1. req'[o] = req[o]
        BY <1>1, <1>3, OthersKept
      <3> QED
        BY <1>1, <3>1, HistoryKept, ServedItem
    <2>2. req[r].id # req[o].id
      BY <1>3, <2>1 DEF Alone
    <2>3. details'[req[o].id] = details[req[o].id]
      <3>1. CASE \E x : DetailsReturns(r, x)
        BY <2>1, <2>2, <3>1 DEF DetailsReturns, Typed
      <3>2. CASE ~\E x : DetailsReturns(r, x)
        BY <1>1, <3>2, ViewsChange
      <3> QED
        BY <3>1, <3>2
    <2>4. CountReadBy(req[o])
      BY <1>2 DEF CountRead
    <2> QED
      BY <2>1, <2>3, <2>4 DEF CountReadBy
  <1>4. CASE o = r
    <2>1. Calls(r, "details")
      BY <1>1, <1>4, IdleRequest DEF Steps, Posts, Drops, Answers, Decides, Reads, Writes,
         Calls, ListReturns, DetailsReturns, Returns, Moves, Becomes
    <2>2. PICK c \in Number :
            /\ Moves(r, "details", req[r].event, req[r].slice, req[r].todo, c, req[r].answer)
            /\ \A x \in req[r].event : NeedsEntry(x) => \E y \in details[x.id] : y.count = c
      BY <2>1 DEF Calls
    <2>3. /\ req'[r].event = req[r].event /\ req'[r].count = c /\ req'[r].id = req[r].id
          /\ details' = details /\ contended' = contended /\ req[r].phase = "publish"
      BY <2>1, <2>2 DEF Calls, Moves, Becomes
    <2>4. \E x : req[r].event = {x} /\ x.id = req[r].id
      BY <2>3 DEF Shaped, ShapeOf, Publishing, Carries
    <2>5. PICK i \in Ids : i = req[r].id /\ i \notin contended
      BY <1>4, <2>3, ServedItem
    <2>6. PICK y \in details[i] : y.count = c
      BY <1>4, <2>2, <2>3, <2>4, <2>5
    <2>7. PICK s : details[i] = DetailsOf(s)
      BY <1>2, <2>5 DEF DetailsSeen, Uncontended
    <2>8. y.count = RebuildFromEvents(s).count /\ d.count = RebuildFromEvents(s).count
      BY <1>4, <2>3, <2>5, <2>6, <2>7 DEF DetailsOf
    <2> QED
      BY <1>4, <2>3, <2>6, <2>8
  <1> QED
    BY <1>3, <1>4

\* The list goes on showing what it has seen.
LEMMA StepListSeen ==
    ASSUME Typed, Shaped, Alone, Drawn, Decided, Stored, VersionsAreIndexes, VersionsAreIndexes',
           ListSeen, Stops \/ \E r \in Requests : Steps(r)
    PROVE  ListSeen'
  <1> SUFFICES ASSUME Watched', NEW i \in Ids \ contended'
               PROVE  ListedAs(list', shown', i, SeenBy(i, "list")')
    BY DEF ListSeen, Uncontended
  <1>1. PICK r \in Requests : Steps(r)
    BY WatchedBefore
  <1>2. Watched /\ ~torn /\ i \in Ids /\ i \notin contended
    BY <1>1, WatchedBefore, HistoryKept
  <1>3. ListedAs(list, shown, i, SeenBy(i, "list"))
    BY <1>2 DEF ListSeen, Uncontended
  <1>4. list \in Seq(Ids) /\ shown \in [Ids -> Names \cup {NoName}]
    BY DEF Typed
  <1>5. ASSUME NEW e, ListReturns(r, e)
        PROVE  /\ e \in Event /\ Carries(req[r], e) /\ Returns(r, "list") /\ e.id = req[r].id
               /\ list' = ListAfter(list, e)
               /\ shown' = IF e.kind = "Created" \/ (e.kind = "Renamed" /\ Holds(list, e.id))
                           THEN [shown EXCEPT ![e.id] = e.name] ELSE shown
    <2>1. /\ e \in Event /\ Carries(req[r], e) /\ Returns(r, "list") /\ e.id = req[r].id
          /\ list' = ListAfter(list, e) /\ shown' = ShownAfter(e)
      BY <1>2, <1>5 DEF ListReturns, Carries
    <2>2. e.id \in Range(list) <=> Holds(list, e.id)
      BY <1>4 DEF Range, Holds
    <2> QED
      BY <2>1, <2>2 DEF ShownAfter
  <1>6. ASSUME NEW e, ListReturns(r, e), req[r].id = i
        PROVE  ListedAs(list', shown', i, SeenBy(i, "list")')
    <2>1. PICK s : s = SeenBy(i, "list")
      OBVIOUS
    <2>2. s \in Seq(Event) /\ Append(s, e) = current[i] /\ SeenBy(i, "list")' = current[i]
      BY <1>2, <1>5, <1>6, <2>1, SeenReturned
    <2>3. Indexed(Append(s, e))
      BY <1>2, <2>2 DEF VersionsAreIndexes, Uncontended, Indexed
    <2> QED
      BY <1>3, <1>4, <1>5, <1>6, <2>1, <2>2, <2>3, ListShows
  <1>7. ASSUME NEW e, Writes(r, e), req[r].id = i
        PROVE  ListedAs(list', shown', i, SeenBy(i, "list")')
    <2>1. list' = list /\ shown' = shown
      BY <1>7 DEF Writes, ViewsKept
    <2>2. SeenBy(i, "list") = current[i]
      BY <1>2, <1>7, SeenWritten
    <2>3. CASE "list" \in Subscribed(e)
      <3>1. SeenBy(i, "list")' = current[i]
        BY <1>2, <1>7, <2>3, SeenWritten
      <3> QED
        BY <1>3, <2>1, <2>2, <3>1
    <2>4. CASE "list" \notin Subscribed(e)
      <3>1. PICK s \in Seq(Event) : /\ s = current[i] /\ e \in Event
                                    /\ current'[i] = Append(s, e) /\ e.id = i
        BY <1>2, <1>7, WritesAppends DEF Writes, Carries
      <3>2. SeenBy(i, "list")' = Append(s, e)
        BY <1>2, <1>7, <2>4, <3>1, SeenWritten
      <3>3. e.kind \in {"Removed", "CheckedIn"}
        BY <2>4, <3>1 DEF Subscribed, Event, Kinds
      <3>4. Indexed(Append(s, e))
        BY <3>1 DEF VersionsAreIndexes, Uncontended, Indexed
      <3> QED
        BY <1>3, <1>4, <2>1, <2>2, <3>1, <3>2, <3>3, <3>4, ListUnmoved
    <2> QED
      BY <2>3, <2>4
  <1>8. CASE req[r].id = i => ~(\E e : Writes(r, e)) /\ ~Returns(r, "list")
    <2>1. SeenBy(i, "list")' = SeenBy(i, "list")
      BY <1>1, <1>2, <1>8, SeenKept
    <2>2. CASE \E e : ListReturns(r, e)
      <3>1. PICK e : ListReturns(r, e)
        BY <2>2
      <3>2. i # e.id /\ e \in Event /\ list' = ListAfter(list, e)
        BY <1>5, <1>8, <3>1
      <3>3. /\ Holds(list', i) => Holds(list, i)
            /\ HoldsOnce(list, i) => HoldsOnce(list', i)
        BY <1>4, <3>2, ListChanges
      <3>4. shown'[i] = shown[i]
        BY <1>4, <1>5, <3>1, <3>2
      <3> QED
        BY <1>3, <2>1, <3>3, <3>4 DEF ListedAs
    <2>3. CASE ~\E e : ListReturns(r, e)
      <3>1. list' = list /\ shown' = shown
        BY <1>1, <2>3, ViewsChange
      <3> QED
        BY <1>3, <2>1, <3>1
    <2> QED
      BY <2>2, <2>3
  <1>9. Returns(r, "list") => \E e : ListReturns(r, e)
    <2>1. ASSUME Returns(r, "list"), ~\E e : ListReturns(r, e) PROVE FALSE
      <3>1. req[r].phase = "list" /\ req'[r].phase \in {"publish", "respond"}
        BY <2>1 DEF Returns, Moves, Becomes
      <3> QED
        BY <1>1, <1>2, <2>1, <3>1, OneAtATime DEF Steps, Posts, Drops, Answers, Decides,
           Reads, Writes, Calls, DetailsReturns
    <2> QED
      BY <2>1
  <1> QED
    BY <1>6, <1>7, <1>8, <1>9

\* An entry is missed only of an item that is not active.
LEMMA EntryFound ==
    ASSUME Typed, Shaped, Stored, VersionsAreIndexes, DetailsSeen
    PROVE  DetailsFound
  <1> SUFFICES ASSUME NEW r \in Requests, MissesEntry(r), ~torn, req[r].id \notin contended
               PROVE  ~RebuildFromEvents(current[req[r].id]).activated
    BY DEF DetailsFound
  <1>1. fatal = "none" /\ req[r].phase = "publish" /\ "details" \in req[r].todo
    BY DEF MissesEntry, Begin, At
  <1>2. PICK e \in req[r].event : Carries(req[r], e)
    BY <1>1 DEF Shaped, ShapeOf, Publishing
  <1>3. PICK i \in Ids : i = req[r].id
    BY <1>1, ServedItem
  <1>4. NeedsEntry(e) /\ details[i] = {} /\ e \in Event
    <2>1. e \in Event
      BY <1>2, RequestTypes DEF Typed
    <2>2. PICK x \in req[r].event : NeedsEntry(x) /\ details[x.id] = {}
      BY DEF MissesEntry
    <2>3. x = e
      BY <1>2 DEF Carries
    <2> QED
      BY <1>2, <1>3, <2>1, <2>2, <2>3 DEF Carries
  <1>5. PICK h \in Seq(Event) : h = current[i]
    BY DEF Typed
  <1>6. h # <<>> /\ Last(h) = e
    <2>1. StoredBy(req[r]) /\ Publishing(req[r])
      BY <1>1 DEF Stored, Publishing
    <2> QED
      BY <1>2, <1>3, <1>5, <2>1 DEF StoredBy
  <1>7. PICK s \in Seq(Event) : s = Front(h) /\ h = Append(s, e)
    BY <1>5, <1>6, FrontAndLast
  <1>8. SeenBy(i, "details") = s
    <2>1. Awaits(i, "details")
      BY <1>1, <1>3 DEF Awaits
    <2> QED
      BY <1>5, <1>7, <2>1 DEF SeenBy
  <1>9. DetailsOf(s) = {}
    BY <1>1, <1>3, <1>4, <1>8 DEF DetailsSeen, Watched, Uncontended
  <1>10. Indexed(Append(s, e))
    <2>1. Indexed(h)
      BY <1>3, <1>5 DEF VersionsAreIndexes, Uncontended, Indexed
    <2> QED
      BY <1>7, <2>1
  <1>11. s # <<>> /\ s[1].kind = "Created"
    BY <1>4, <1>10, CreatedFirst DEF NeedsEntry
  <1>12. PICK k \in Nat : LastNaming(s, k)
    BY <1>11, NamingExists
  <1>13. ~RebuildFromEvents(s).activated
    BY <1>9, <1>12, SomeDetails
  <1>14. PICK item, after : /\ item = RebuildFromEvents(s)
                            /\ after = RebuildFromEvents(Append(s, e))
    OBVIOUS
  <1>15. after.activated = item.activated
    <2>1. after.activated = IF e.kind = "Created" THEN TRUE
                            ELSE IF e.kind = "Deactivated" THEN FALSE
                            ELSE item.activated
      BY <1>4, <1>14, RebuiltMore
    <2> QED
      BY <1>4, <2>1 DEF NeedsEntry
  <1> QED
    BY <1>3, <1>5, <1>7, <1>13, <1>14, <1>15

-----------------------------------------------------------------------------
(* The invariant of every reachable state                                  *)

IInv ==
    /\ Typed /\ Shaped /\ NamesListed
    /\ Alone /\ Drawn /\ Decided /\ Stored
    /\ StockNeverNegative /\ VersionsAreIndexes
    /\ DetailsSeen /\ CountRead /\ ListSeen

\* Without items, entries and requests everything is as the invariant says.
LEMMA InitInvariant ==
    ASSUME Init PROVE IInv
  <1>1. Typed
    <2>1. drawn \in 0..MaxItems
      BY AppAssumption DEF Init
    <2>2. current \in [Ids -> Seq(Event)]
      BY DEF Init
    <2>3. list \in Seq(Ids) /\ torn \in BOOLEAN
      <3>1. <<>> \in Seq(Ids) /\ FALSE \in BOOLEAN
        OBVIOUS
      <3>2. list = <<>> /\ torn = FALSE
        BY Zenon DEF Init
      <3> QED
        BY ONLY <3>1, <3>2, Zenon
    <2>4. shown \in [Ids -> Names \cup {NoName}]
      <3>1. NoName \in Names \cup {NoName}
        OBVIOUS
      <3> QED
        BY <3>1 DEF Init
    <2>5. details \in [Ids -> SUBSET Entry] /\ req \in [Requests -> Request]
      BY IdleRequest DEF Init
    <2> QED
      BY <2>1, <2>2, <2>3, <2>4, <2>5 DEF Init, Typed
  <1>2. /\ \A r \in Requests : req[r] = Idle
        /\ \A i \in Ids : current[i] = <<>> /\ details[i] = {}
        /\ list = <<>> /\ fatal = "none" /\ ~torn
    BY DEF Init
  <1>3. Shaped
    BY <1>2, IdleShape DEF Shaped
  <1>4. Alone /\ Drawn /\ Decided /\ Stored /\ CountRead
    BY <1>2, IdleRequest DEF Alone, Drawn, DrawnBy, Decided, DecidedBy, Stored, StoredBy,
       CountRead, CountReadBy, Deciding, Publishing
  <1>5. NamesListed
    BY <1>2 DEF NamesListed
  <1>6. RebuildFromEvents(<<>>).count = 0 /\ ~RebuildFromEvents(<<>>).activated
    BY RebuildNone DEF NewInventoryItem
  <1>7. StockNeverNegative /\ VersionsAreIndexes
    BY <1>2, <1>6 DEF StockNeverNegative, VersionsAreIndexes, Uncontended
  <1>8. ASSUME NEW i \in Ids, NEW view PROVE SeenBy(i, view) = <<>>
    BY <1>2, IdleRequest DEF SeenBy, Awaits
  <1>9. DetailsSeen
    BY <1>2, <1>6, <1>8, NoDetails DEF DetailsSeen, Uncontended
  <1>10. ListSeen
    <2>1. \A i : ~Holds(list, i)
      BY <1>2 DEF Holds
    <2> QED
      BY <1>6, <1>8, <2>1 DEF ListSeen, ListedAs, Uncontended
  <1> QED
    BY <1>1, <1>3, <1>4, <1>5, <1>7, <1>9, <1>10 DEF IInv

\* Every step keeps the invariant.
LEMMA StepInvariant ==
    ASSUME IInv, [Next]_vars PROVE IInv'
  <1>1. CASE Next
    <2>1. fatal = "none" /\ (Stops \/ \E r \in Requests : Steps(r))
      BY <1>1, StepEffect DEF IInv
    <2>2. Typed' /\ Shaped' /\ NamesListed' /\ Alone' /\ Drawn'
      BY <2>1, StepTyped, StepShaped, StepNamesListed, StepAlone, StepDrawn DEF IInv
    <2>3. Decided' /\ Stored' /\ StockNeverNegative' /\ VersionsAreIndexes'
      BY <2>1, StepDecided, StepStored, StepStock, StepVersions DEF IInv
    <2>4. DetailsSeen' /\ CountRead' /\ ListSeen'
      BY <2>1, <2>3, StepDetailsSeen, StepCountRead, StepListSeen DEF IInv
    <2> QED
      BY <2>2, <2>3, <2>4 DEF IInv
  <1>2. CASE UNCHANGED vars
    BY <1>2 DEF IInv, vars, Typed, Shaped, NamesListed, Alone, Drawn, DrawnBy, Decided,
       DecidedBy, Loaded, Stored, StoredBy, StockNeverNegative, VersionsAreIndexes,
       Uncontended, DetailsSeen, SeenBy, Awaits, Watched, CountRead, CountReadBy,
       ListSeen, Overflowed
  <1> QED
    BY <1>1, <1>2

\* The invariant that is inductive holds in every state the application can reach.
THEOREM Invariant == Spec => []IInv
  <1>1. Init => IInv
    BY InitInvariant
  <1>2. IInv /\ [Next]_vars => IInv'
    BY StepInvariant
  <1> QED
    BY <1>1, <1>2, PTL DEF Spec

-----------------------------------------------------------------------------
(* What follows                                                            *)

\* Every variable keeps its type: no entry of the list is without a name, no request
\* carries what is not an event.
THEOREM TypeCorrect == Spec => []TypeOK
  <1>1. IInv => TypeOK
    <2>1. Typed => \A r \in Requests : /\ req[r].event \subseteq Event
                                       /\ req[r].todo \subseteq {"list", "details"}
      BY RequestTypes DEF Typed
    <2> QED
      BY <2>1 DEF IInv, TypeOK, Typed, NamesListed, Entry
  <1> QED
    BY <1>1, Invariant, PTL

\* The stock of an item that no two requests have been about at once is below zero
\* only after a check-in that took it beyond the largest int (inventoryitem.go:61),
\* whatever is entered in the forms.
THEOREM StockStaysPositive == Spec => []StockNeverNegative
  <1>1. IInv => StockNeverNegative
    BY DEF IInv
  <1> QED
    BY <1>1, Invariant, PTL

\* The events of such an item are numbered by their place, and creation is the first:
\* none is lost and none is stored twice, however requests for other items interleave.
THEOREM EventsNumbered == Spec => []VersionsAreIndexes
  <1>1. IInv => VersionsAreIndexes
    BY DEF IInv
  <1> QED
    BY <1>1, Invariant, PTL

\* A command that is answered without an error has its event in the history.
THEOREM AcceptedKept == Spec => []AcceptedIsStored
  <1>1. ASSUME IInv PROVE AcceptedIsStored
    <2> SUFFICES ASSUME NEW r \in Requests, req[r].phase = "respond", req[r].answer = "ok",
                        req[r].id \in Uncontended
                 PROVE  \/ req[r].cmd \in {"remove", "checkin"} /\ req[r].event = {}
                        \/ \E e \in req[r].event : e \in Range(current[req[r].id])
      BY DEF AcceptedIsStored
    <2>1. Typed /\ ShapeOf(req[r]) /\ StoredBy(req[r]) /\ Shaped
      BY <1>1 DEF IInv, Shaped, Stored
    <2>2. CASE req[r].event = {}
      BY <2>1, <2>2 DEF ShapeOf
    <2>3. ASSUME NEW e \in req[r].event PROVE e \in Range(current[req[r].id])
      <3>1. PICK h \in Seq(Event) : h = current[req[r].id]
        BY <2>1, ServedItem
      <3>2. h # <<>> /\ Last(h) = e
        BY <2>1, <3>1 DEF StoredBy, Uncontended
      <3>3. Len(h) \in DOMAIN h /\ h[Len(h)] = e
        BY <3>2 DEF Last
      <3> QED
        BY <3>1, <3>3 DEF Range
    <2> QED
      BY <2>2, <2>3
  <1> QED
    BY <1>1, Invariant, PTL

\* Both views agree with the history of an item that is not worked on and that no two
\* requests have worked on at once, until two requests have been inside the list.
THEOREM ReadModelAgrees == Spec => []ReadModelMatches
  <1>1. ASSUME IInv PROVE ReadModelMatches
    <2> SUFFICES ASSUME fatal = "none", ~torn, NEW i \in Ids \ contended, ~Working(i)
                 PROVE  DetailsMatch(i) /\ ListMatches(i)
      BY DEF ReadModelMatches, Uncontended
    <2>1. PICK h \in Seq(Event) : h = current[i]
      BY <1>1 DEF IInv, Typed
    <2>2. ASSUME NEW view PROVE SeenBy(i, view) = h
      <3>1. \A r \in Requests : req[r].id = i => req[r].todo = {}
        BY <1>1 DEF IInv, Shaped, ShapeOf, Publishing, Working
      <3> QED
        BY <2>1, <3>1 DEF SeenBy, Awaits
    <2>3. details[i] = DetailsOf(h) /\ ListedAs(list, shown, i, h)
      BY <1>1, <2>2 DEF IInv, DetailsSeen, ListSeen, Watched, Uncontended
    <2>4. list \in Seq(Ids) /\ Indexed(h)
      BY <1>1, <2>1 DEF IInv, Typed, VersionsAreIndexes, Uncontended, Indexed
    <2>5. CASE RebuildFromEvents(h).activated
      <3>1. h # <<>>
        BY <2>5, RebuildNone DEF NewInventoryItem
      <3>2. h[1].kind = "Created"
        BY <2>4, <3>1 DEF Indexed
      <3>3. PICK k \in Nat : LastNaming(h, k)
        BY <3>1, <3>2, NamingExists
      <3>4. PICK d : details[i] = {d}
        BY <2>3, <2>5, <3>3, SomeDetails
      <3>5. PICK n \in 1..Len(list) : \A m \in 1..Len(list) : list[m] = i <=> m = n
        BY <2>3, <2>5 DEF ListedAs, HoldsOnce
      <3>6. {m \in DOMAIN list : list[m] = i} = {n}
        BY <2>4, <3>5
      <3>7. Cardinality({m \in DOMAIN list : list[m] = i}) = 1 /\ Cardinality(details[i]) = 1
        BY <3>4, <3>6, FS_Singleton
      <3>8. \A x \in details[i] : shown[i] = x.name
        BY <2>3, <2>5 DEF ListedAs
      <3> QED
        BY <2>1, <2>3, <3>7, <3>8 DEF DetailsMatch, ListMatches
    <2>6. CASE ~RebuildFromEvents(h).activated
      <3>1. details[i] = {}
        BY <2>3, <2>6, NoDetails
      <3>2. {m \in DOMAIN list : list[m] = i} = {}
        BY <2>3, <2>4, <2>6 DEF ListedAs, Holds
      <3> QED
        BY <2>1, <2>3, <3>1, <3>2 DEF DetailsMatch, ListMatches
    <2> QED
      BY <2>5, <2>6
  <1> QED
    BY <1>1, Invariant, PTL

\* A request that is about to end the process for a missing entry (readmodel.go:170)
\* is about an item that is deactivated, or that two requests were about at once,
\* or two requests have been inside the list.
THEOREM MissedOnlyInactive == Spec => []DetailsFound
  <1>1. IInv => DetailsFound
    BY EntryFound DEF IInv
  <1> QED
    BY <1>1, Invariant, PTL

================================================================================

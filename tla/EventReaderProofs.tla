--------------------------- MODULE EventReaderProofs ---------------------------
(***************************************************************************)
(* Proofs about EventReader, for any streams, writers, bounds and          *)
(* followers.                                                              *)
(***************************************************************************)
EXTENDS EventReader, FiniteSetTheorems, WellFoundedInduction, NaturalsInduction, TLAPS

-----------------------------------------------------------------------------
(* Numbers and finite sets                                                 *)

\* A set of naturals has a least element.
LEMMA LeastNumber ==
    ASSUME NEW T \in SUBSET Nat, T # {}
    PROVE  \E x \in T : \A y \in T : x <= y
  <1> DEFINE R == {p \in Nat \X Nat : p[1] < p[2]}
  <1>1. IsWellFoundedOn(R, Nat)
    BY NatLessThanWellFounded DEF OpToRel
  <1>2. \A x, y \in Nat : x <= y \/ <<y, x>> \in R
    OBVIOUS
  <1>3. \E x \in T : \A y \in T : <<y, x>> \notin R
    <2> HIDE DEF R
    <2> QED
      BY <1>1, WFMin
  <1> HIDE DEF R
  <1> QED
    BY <1>2, <1>3

\* A bounded set of naturals has a largest element.
LEMMA LargestNumber ==
    ASSUME NEW n \in Nat, NEW T \in SUBSET (0..n), T # {}
    PROVE  \E x \in T : \A y \in T : y <= x
  <1> DEFINE D == {n - x : x \in T}
  <1>1. D \in SUBSET Nat /\ D # {}
    <2>1. \A x \in T : n - x \in Nat
      OBVIOUS
    <2> QED
      BY <2>1
  <1>2. PICK d \in D : \A y \in D : d <= y
    <2> HIDE DEF D
    <2> QED
      BY <1>1, LeastNumber
  <1>3. PICK x \in T : d = n - x
    BY <1>2
  <1>4. \A y \in T : n - y \in D
    OBVIOUS
  <1>5. \A y \in T : n - x <= n - y
    BY <1>2, <1>3, <1>4
  <1>6. \A y \in T : y \in Int /\ x \in Int /\ n \in Int
    OBVIOUS
  <1> HIDE DEF D
  <1> QED
    BY <1>5, <1>6

\* What Max and Min choose.
LEMMA MaxChosen ==
    ASSUME NEW n \in Nat, NEW T \in SUBSET (0..n), T # {}
    PROVE  Max(T) \in T /\ \A y \in T : y <= Max(T)
  <1>1. \E x \in T : \A y \in T : x >= y
    <2>1. PICK x \in T : \A y \in T : y <= x
      BY LargestNumber
    <2> QED
      BY <2>1
  <1>2. Max(T) \in T /\ \A y \in T : Max(T) >= y
    BY <1>1 DEF Max
  <1> QED
    BY <1>2

\* The least element of a set of naturals is one of it and below the others.
LEMMA MinChosen ==
    ASSUME NEW T \in SUBSET Nat, T # {}
    PROVE  Min(T) \in T /\ \A y \in T : Min(T) <= y
  BY LeastNumber DEF Min

\* A finite set of positive numbers that is closed downwards is an interval from 1.
LEMMA DownClosedInterval ==
    ASSUME NEW V \in SUBSET (Nat \ {0}), IsFiniteSet(V),
           \A v \in V : \A w \in 1..v : w \in V
    PROVE  V = 1..Cardinality(V)
  <1> DEFINE n == Cardinality(V)
  <1>1. n \in Nat
    BY FS_CardinalityType
  <1> HIDE DEF n
  <1>2. ASSUME NEW v \in V, n < v PROVE FALSE
    <2>1. v \in Nat /\ v \in Int /\ 1 \in Int /\ v >= 1
      BY <1>1
    <2>2. Cardinality(1..v) = v
      BY <2>1, FS_Interval
    <2>3. 1..v \in SUBSET V
      BY <1>2
    <2>4. Cardinality(1..v) <= Cardinality(V)
      BY <2>3, FS_Subset
    <2> QED
      BY <1>1, <1>2, <2>1, <2>2, <2>4 DEF n
  <1>3. V \in SUBSET (1..n) /\ n \in Int /\ 1 \in Int
    BY <1>1, <1>2
  <1>4. IsFiniteSet(1..n) /\ Cardinality(1..n) = Cardinality(V)
    BY <1>1, <1>3, FS_Interval DEF n
  <1>5. 1..n = V
    BY <1>3, <1>4, FS_Subset
  <1> QED
    BY <1>5 DEF n

-----------------------------------------------------------------------------
(* The lists a SELECT may answer with                                      *)

\* A list of a set holds each of its elements once.
LEMMA ListOfSet ==
    ASSUME NEW S, IsFiniteSet(S), NEW list \in SetToSeqs(S)
    PROVE  /\ Cardinality(S) \in Nat
           /\ list \in [1..Cardinality(S) -> S]
           /\ \A i, j \in 1..Cardinality(S) : list[i] = list[j] => i = j
           /\ \A x \in S : \E i \in 1..Cardinality(S) : list[i] = x
           /\ Len(list) = Cardinality(S)
  <1> DEFINE n == Cardinality(S)
  <1>1. n \in Nat
    BY FS_CardinalityType
  <1>2. /\ list \in [1..n -> S]
        /\ \A i, j \in 1..n : list[i] = list[j] => i = j
    BY DEF SetToSeqs
  <1>3. n \in Int /\ 1 \in Int
    BY <1>1
  <1> HIDE DEF n
  <1>4. IsFiniteSet(1..n) /\ Cardinality(1..n) = n
    BY <1>1, <1>3, FS_Interval
  <1>5. list \in Injection(1..n, S)
    BY <1>2 DEF Injection, IsInjective
  <1>6. list \in Surjection(1..n, S)
    BY <1>4, <1>5, FS_Injection DEF n
  <1>7. \A x \in S : \E i \in 1..n : list[i] = x
    BY <1>6 DEF Surjection
  <1>8. Len(list) = n
    BY <1>1, <1>2
  <1> QED
    BY <1>1, <1>2, <1>7, <1>8 DEF n

\* How many of n rows the limit of q lets through.
Allowed(q, n) == Min({n} \cup q.limit)

\* What the limits allow is all there is, or the least of them.
LEMMA AllowedIs ==
    ASSUME NEW n \in Nat, NEW q, q.limit \subseteq Nat
    PROVE  /\ Allowed(q, n) = n \/ Allowed(q, n) \in q.limit
           /\ Allowed(q, n) \in 0..n
           /\ \A y \in q.limit : Allowed(q, n) <= y
  <1> DEFINE T == {n} \cup q.limit
  <1>1. T \in SUBSET Nat /\ n \in T /\ \A y \in q.limit : y \in T
    OBVIOUS
  <1>2. Min(T) \in T /\ \A y \in T : Min(T) <= y
    <2> HIDE DEF T
    <2> QED
      BY <1>1, MinChosen
  <1>3. PICK k : k = Min(T)
    OBVIOUS
  <1>4. k \in Nat /\ k <= n /\ (\A y \in q.limit : k <= y) /\ (k = n \/ k \in q.limit)
    BY <1>1, <1>2, <1>3
  <1>5. Allowed(q, n) = k
    BY <1>3 DEF Allowed
  <1> QED
    BY <1>4, <1>5

\* What a limit leaves of a list: its first elements, in the same order.
LEMMA CutOfList ==
    ASSUME NEW n \in Nat, NEW S, NEW list \in [1..n -> S], Len(list) = n,
           NEW q, q.limit \subseteq Nat
    PROVE  \E k \in 0..n :
             /\ k = Allowed(q, n)
             /\ Cut(q, list) \in Seq(S)
             /\ Len(Cut(q, list)) = k
             /\ DOMAIN Cut(q, list) = 1..k
             /\ \A i \in 1..k : Cut(q, list)[i] = list[i]
  <1> DEFINE k == Allowed(q, n)
  <1>3. k \in 0..n
    BY AllowedIs
  <1>4. Cut(q, list) = SubSeq(list, 1, k)
    BY DEF Cut, Allowed
  <1> HIDE DEF k
  <1>5. list \in Seq(S)
    OBVIOUS
  <1>6. /\ Len(SubSeq(list, 1, k)) = k
        /\ DOMAIN SubSeq(list, 1, k) = 1..k
        /\ \A i \in 1..k : SubSeq(list, 1, k)[i] = list[i]
    BY <1>3, <1>5
  <1>7. SubSeq(list, 1, k) \in Seq(S)
    BY <1>3, <1>5
  <1> QED
    BY <1>3, <1>4, <1>6, <1>7 DEF k

\* Without a limit all of a list is left.
LEMMA WholeList ==
    ASSUME NEW n \in Nat, NEW S, NEW list \in [1..n -> S], Len(list) = n,
           NEW q, q.limit = {}
    PROVE  Cut(q, list) = list
  <1>1. {Len(list)} \cup q.limit = {n} /\ {n} \in SUBSET Nat
    OBVIOUS
  <1>2. Min({n}) = n
    BY <1>1, MinChosen
  <1>3. list \in Seq(S)
    OBVIOUS
  <1>4. SubSeq(list, 1, n) = list
    BY <1>3
  <1> QED
    BY <1>1, <1>2, <1>4 DEF Cut
-----------------------------------------------------------------------------
(* What the writers do to the tables                                       *)

\* A set of rows whose ids have been drawn.  No version is larger than the id
\* drawn with it, since versions start at 1 and a new one is one more than
\* another row's; an event is known by an id drawn no later.
DrawnUpTo(S, n) ==
    /\ S \in SUBSET Row
    /\ \A r \in S : r.id \in 1..n /\ r.version \in 1..r.id /\ r.event \in 1..r.id

\* The tables and transactions are well formed: a writer has one transaction,
\* with one row at most that is being inserted, and ids come from the sequence.
WellFormed ==
    /\ IsFiniteSet(rows)
    /\ eventStore \in SUBSET (1..lastId)
    /\ lastId \in 0..MaxId
    /\ clock \in 1..MaxTime
    /\ open \in [Writers -> SUBSET Transaction]
    /\ \A w \in Writers : \A t, u \in open[w] : t = u
    /\ \A w \in Writers : IsFiniteSet(OpenRows(w))
    /\ \A w \in Writers : \A r, q \in DrawnBy(w) : r = q
    /\ DrawnUpTo(rows, lastId)
    /\ \A w \in Writers : DrawnUpTo(OpenRows(w), lastId) /\ DrawnUpTo(DrawnBy(w), lastId)

\* The version given next to a stream is one more than the largest it has.
LEMMA NextVersionIs ==
    ASSUME NEW n \in Nat, NEW S \in SUBSET Row, \A x \in S : x.version \in 1..n,
           NEW s
    PROVE  /\ NextVersion(S, s) \in 1..(n + 1)
           /\ \A x \in S : x.stream = s => x.version < NextVersion(S, s)
           /\ \/ NextVersion(S, s) = 1
              \/ \E x \in S : x.stream = s /\ x.version = NextVersion(S, s) - 1
  <1> DEFINE V == {0} \cup VersionsIn(S, s)
             m == Max(V)
  <1>1. V \in SUBSET (0..n) /\ V # {}
    BY DEF VersionsIn
  <1>2. m \in V /\ \A y \in V : y <= m
    BY <1>1, MaxChosen
  <1>3. NextVersion(S, s) = 1 + m
    BY DEF NextVersion
  <1>4. m \in 0..n
    BY <1>1, <1>2
  <1>5. \A x \in S : x.stream = s => x.version \in V
    BY DEF VersionsIn
  <1>6. m = 0 \/ \E x \in S : x.stream = s /\ x.version = m
    BY <1>2 DEF VersionsIn
  <1> HIDE DEF V, m
  <1>7. \A x \in S : x.stream = s => x.version <= m /\ x.version \in Nat
    BY <1>2, <1>5
  <1>8. 1 + m \in 1..(n + 1) /\ (1 + m) - 1 = m
    BY <1>4
  <1>9. \A x \in S : x.stream = s => x.version < 1 + m
    BY <1>4, <1>7
  <1>10. 1 + m = 1 \/ \E x \in S : x.stream = s /\ x.version = (1 + m) - 1
    BY <1>6, <1>8
  <1> QED
    BY <1>3, <1>8, <1>9, <1>10

\* The effects of a step on the tables, as the rows that come and go.
SameOpen(W) == \A w \in W : OpenRows(w)' = OpenRows(w) /\ DrawnBy(w)' = DrawnBy(w)

SameTables == rows' = rows /\ eventStore' = eventStore

Quiet == SameTables /\ lastId' = lastId /\ SameOpen(Writers)

Started(w, r) ==
    /\ r.id = lastId + 1 /\ lastId < MaxId
    /\ r.version = NextVersion(rows \cup OpenRows(w), r.stream)
    /\ r.event \in eventStore \cup {lastId + 1}
    /\ DrawnBy(w)' = {r} /\ OpenRows(w)' = OpenRows(w) /\ SameOpen(Writers \ {w})
    /\ SameTables /\ lastId' = lastId + 1

Finished(w, r) ==
    /\ r \in DrawnBy(w)
    /\ ~Taken(w, r.stream, r.version)
    /\ r.version \notin VersionsIn(rows, r.stream)
    /\ OpenRows(w)' = OpenRows(w) \cup {r} /\ DrawnBy(w)' = {}
    /\ SameOpen(Writers \ {w})
    /\ SameTables /\ lastId' = lastId

Committed(w) ==
    /\ rows' = rows \cup OpenRows(w)
    /\ eventStore' = eventStore \cup {x.event : x \in OpenRows(w)}
    /\ OpenRows(w)' = {} /\ DrawnBy(w)' = {} /\ SameOpen(Writers \ {w})
    /\ lastId' = lastId

RolledBack(w) ==
    /\ OpenRows(w)' = {} /\ DrawnBy(w)' = {} /\ SameOpen(Writers \ {w})
    /\ SameTables /\ lastId' = lastId

Deleted(s) ==
    /\ rows' = {r \in rows : r.stream # s} /\ SameOpen(Writers)
    /\ eventStore' = eventStore /\ lastId' = lastId

Effect == \/ Quiet
          \/ \E w \in Writers, r \in Row : Started(w, r) \/ Finished(w, r)
          \/ \E w \in Writers : Committed(w) \/ RolledBack(w)
          \/ \E s \in Deletable : Deleted(s)

\* The rows of a transaction, when a writer has one or none.
LEMMA RowsOfOpen ==
    ASSUME NEW w \in Writers
    PROVE  /\ open[w] = {} => OpenRows(w) = {} /\ DrawnBy(w) = {}
           /\ \A t : open[w] = {t} => OpenRows(w) = t.rows /\ DrawnBy(w) = t.inserting
  BY DEF OpenRows, DrawnBy

\* ... and after a step.
LEMMA RowsOfOpenNext ==
    ASSUME NEW w \in Writers
    PROVE  /\ open'[w] = {} => OpenRows(w)' = {} /\ DrawnBy(w)' = {}
           /\ \A t : open'[w] = {t} => OpenRows(w)' = t.rows /\ DrawnBy(w)' = t.inserting
           /\ open'[w] = open[w] => OpenRows(w)' = OpenRows(w) /\ DrawnBy(w)' = DrawnBy(w)
  BY DEF OpenRows, DrawnBy

\* A transaction that starts, that draws a row, and that has inserted it.
LEMMA TransactionOf ==
    ASSUME NEW o \in {"append", "link"}, NEW b \in Nat, NEW R \in SUBSET Row,
           NEW I \in Optional(Row)
    PROVE  [op |-> o, began |-> b, rows |-> R, inserting |-> I] \in Transaction
  BY DEF Transaction

\* One that has drawn a row is about to insert it and has its rows as before.
LEMMA TransactionDraws ==
    ASSUME NEW t \in Transaction, NEW r \in Row
    PROVE  /\ [t EXCEPT !.inserting = {r}] \in Transaction
           /\ [t EXCEPT !.inserting = {r}].inserting = {r}
           /\ [t EXCEPT !.inserting = {r}].rows = t.rows
  <1>1. PICK o \in {"append", "link"}, b \in Nat, R \in SUBSET Row, I \in Optional(Row) :
           t = [op |-> o, began |-> b, rows |-> R, inserting |-> I]
    BY DEF Transaction
  <1>2. {r} \in Optional(Row)
    BY DEF Optional
  <1>3. [t EXCEPT !.inserting = {r}]
          = [op |-> o, began |-> b, rows |-> R, inserting |-> {r}]
    BY <1>1
  <1> QED
    BY <1>1, <1>2, <1>3, TransactionOf

\* One that has inserted its row has it among its rows.
LEMMA TransactionInserts ==
    ASSUME NEW t \in Transaction, NEW r \in t.inserting
    PROVE  LET u == [t EXCEPT !.rows = t.rows \cup {r}, !.inserting = {}]
           IN /\ r \in Row /\ u \in Transaction
              /\ u.rows = t.rows \cup {r} /\ u.inserting = {}
  <1>1. PICK o \in {"append", "link"}, b \in Nat, R \in SUBSET Row, I \in Optional(Row) :
           t = [op |-> o, began |-> b, rows |-> R, inserting |-> I]
    BY DEF Transaction
  <1>2. r \in Row /\ {} \in Optional(Row)
    BY <1>1 DEF Optional
  <1>3. PICK T : T = t.rows \cup {r}
    OBVIOUS
  <1>4. T \in SUBSET Row
    BY <1>1, <1>2, <1>3
  <1> DEFINE A == {"append", "link"}
             B == SUBSET Row
             C == Optional(Row)
  <1>5. PICK none : none = {} /\ none \in C
    BY <1>2
  <1>6. t \in [op : A, began : Nat, rows : B, inserting : C] /\ T \in B
    BY <1>4 DEF Transaction
  <1>7. [op : A, began : Nat, rows : B, inserting : C] = Transaction
    BY DEF Transaction
  <1> HIDE DEF A, B, C
  <1>8. /\ [t EXCEPT !.rows = T, !.inserting = none]
              \in [op : A, began : Nat, rows : B, inserting : C]
        /\ [t EXCEPT !.rows = T, !.inserting = none].rows = T
        /\ [t EXCEPT !.rows = T, !.inserting = none].inserting = none
    BY <1>5, <1>6
  <1> QED
    BY <1>2, <1>3, <1>5, <1>7, <1>8

\* The row a SELECT and an INSERT make is one.
LEMMA NextRowIs ==
    ASSUME WellFormed, NEW w \in Writers, NEW t \in Transaction, NEW s \in Streams,
           NEW e \in eventStore \cup {lastId + 1}
    PROVE  /\ NextRow(w, t, s, e) \in Row
           /\ NextRow(w, t, s, e).id = lastId + 1
           /\ NextRow(w, t, s, e).stream = s
           /\ NextRow(w, t, s, e).version = NextVersion(rows \cup OpenRows(w), s)
           /\ NextRow(w, t, s, e).event = e
  <1>1. t.began \in Nat
    BY DEF Transaction
  <1>2. lastId \in Nat /\ lastId + 1 \in Nat /\ e \in Nat
    BY ReaderAssumption DEF WellFormed
  <1>3. rows \cup OpenRows(w) \in SUBSET Row
    BY DEF WellFormed, DrawnUpTo
  <1>4. \A x \in rows \cup OpenRows(w) : x.version \in 1..lastId
    <2> SUFFICES ASSUME NEW x \in rows \cup OpenRows(w) PROVE x.version \in 1..lastId
      OBVIOUS
    <2>1. x.id \in 1..lastId /\ x.version \in 1..x.id
      BY DEF WellFormed, DrawnUpTo
    <2> QED
      BY <1>2, <2>1
  <1>5. PICK v : v = NextVersion(rows \cup OpenRows(w), s)
    OBVIOUS
  <1>6. v \in 1..(lastId + 1)
    BY <1>2, <1>3, <1>4, <1>5, NextVersionIs
  <1>7. v \in Nat
    BY <1>2, <1>6
  <1>8. NextRow(w, t, s, e) = [id |-> lastId + 1, stream |-> s, version |-> v,
                               event |-> e, created |-> t.began]
    BY <1>5 DEF NextRow
  <1>9. [id |-> lastId + 1, stream |-> s, version |-> v, event |-> e,
         created |-> t.began] \in Row
    BY <1>1, <1>2, <1>7 DEF Row
  <1> QED
    BY <1>5, <1>8, <1>9

\* Ids and versions are numbers up to the last id.
LEMMA BoundedVersions ==
    ASSUME WellFormed
    PROVE  /\ lastId \in Nat /\ lastId + 1 \in Nat
           /\ \A r \in rows : r.version \in 1..lastId /\ r.id \in Nat
           /\ \A w \in Writers : \A r \in OpenRows(w) \cup DrawnBy(w) :
                    r.version \in 1..lastId /\ r.id \in Nat
  <1>1. lastId \in Nat
    BY ReaderAssumption DEF WellFormed
  <1>2. \A r \in rows : r.id \in 1..lastId /\ r.version \in 1..r.id
    BY DEF WellFormed, DrawnUpTo
  <1>3. \A w \in Writers : \A r \in OpenRows(w) \cup DrawnBy(w) :
            r.id \in 1..lastId /\ r.version \in 1..r.id
    BY DEF WellFormed, DrawnUpTo
  <1>4. \A i \in 1..lastId : i \in Nat /\ \A v \in 1..i : v \in 1..lastId
    BY <1>1
  <1> QED
    BY <1>1, <1>2, <1>3, <1>4

\* What a step leaves of the transactions.
Fine == /\ open' \in [Writers -> SUBSET Transaction]
        /\ \A d \in Writers : \A t, u \in open'[d] : t = u
        /\ \A d \in Writers : \A r, q \in DrawnBy(d)' : r = q
        /\ clock' \in 1..MaxTime

\* A step that changes the transaction of one writer, or ends it.
LEMMA OneTransaction ==
    ASSUME WellFormed, NEW w \in Writers, NEW T \in SUBSET Transaction,
           \A t, u \in T : t = u, open' = [open EXCEPT ![w] = T], clock' = clock
    PROVE  /\ Fine /\ SameOpen(Writers \ {w})
           /\ T = {} => OpenRows(w)' = {} /\ DrawnBy(w)' = {}
           /\ \A t : T = {t} => OpenRows(w)' = t.rows /\ DrawnBy(w)' = t.inserting
  <1>1. open \in [Writers -> SUBSET Transaction]
    BY DEF WellFormed
  <1>2. open'[w] = T /\ \A d \in Writers \ {w} : open'[d] = open[d]
    BY <1>1
  <1>3. /\ T = {} => OpenRows(w)' = {} /\ DrawnBy(w)' = {}
        /\ \A t : T = {t} => OpenRows(w)' = t.rows /\ DrawnBy(w)' = t.inserting
    BY <1>2, RowsOfOpenNext
  <1>4. SameOpen(Writers \ {w})
    BY <1>2, RowsOfOpenNext DEF SameOpen
  <1>5. open' \in [Writers -> SUBSET Transaction]
    BY <1>1
  <1>6. \A d \in Writers : \A t, u \in open'[d] : t = u
    BY <1>2 DEF WellFormed
  <1>7. ASSUME NEW d \in Writers, NEW r \in DrawnBy(d)', NEW q \in DrawnBy(d)'
        PROVE  r = q
    <2>1. CASE d # w
      BY <1>4, <1>7, <2>1 DEF SameOpen, WellFormed
    <2>2. CASE d = w
      <3>1. T # {}
        BY <1>3, <1>7, <2>2
      <3>2. PICK t \in T : T = {t}
        BY <3>1
      <3>3. DrawnBy(d)' = t.inserting /\ t \in Transaction
        BY <1>3, <2>2, <3>2
      <3>4. t.inserting \in Optional(Row)
        BY <3>3 DEF Transaction
      <3> QED
        BY <1>7, <3>3, <3>4 DEF Optional
    <2> QED
      BY <2>1, <2>2
  <1> QED
    BY <1>3, <1>4, <1>5, <1>6, <1>7 DEF Fine, WellFormed

\* The row an INSERT draws.
LEMMA StartEffect ==
    ASSUME WellFormed, NEW w \in Writers, StartInsert(w)
    PROVE  (\E r \in Row : Started(w, r)) /\ Fine
  <1>1. PICK t \in open[w], s \in Streams, e \in eventStore \cup {lastId + 1} :
            open' = [open EXCEPT ![w] = {[t EXCEPT !.inserting = {NextRow(w, t, s, e)}]}]
    BY DEF StartInsert
  <1>2. t \in Transaction /\ open[w] = {t}
    BY DEF WellFormed
  <1>3. PICK r \in Row : /\ r = NextRow(w, t, s, e)
                         /\ r.id = lastId + 1 /\ r.stream = s /\ r.event = e
                         /\ r.version = NextVersion(rows \cup OpenRows(w), s)
    BY <1>2, NextRowIs
  <1>4. PICK u : u = [t EXCEPT !.inserting = {r}]
    OBVIOUS
  <1>5. u \in Transaction /\ u.inserting = {r} /\ u.rows = OpenRows(w)
    <2>1. u \in Transaction /\ u.inserting = {r} /\ u.rows = t.rows
      BY <1>2, <1>4, TransactionDraws
    <2> QED
      BY <1>2, <2>1, RowsOfOpen
  <1>6. open' = [open EXCEPT ![w] = {u}] /\ clock' = clock
    BY <1>1, <1>3, <1>4 DEF StartInsert
  <1>7. /\ Fine /\ SameOpen(Writers \ {w})
        /\ OpenRows(w)' = OpenRows(w) /\ DrawnBy(w)' = {r}
    <2>1. {u} \in SUBSET Transaction /\ \A x, y \in {u} : x = y
      BY <1>5
    <2> QED
      BY <1>5, <1>6, <2>1, OneTransaction
  <1>8. Started(w, r)
    BY <1>3, <1>7 DEF Started, StartInsert, SameTables
  <1> QED
    BY <1>7, <1>8

\* The row an INSERT adds in the end.
LEMMA FinishEffect ==
    ASSUME WellFormed, NEW w \in Writers, FinishInsert(w)
    PROVE  (\E r \in Row : Finished(w, r)) /\ Fine
  <1>a. PICK t \in open[w] : \E r \in t.inserting :
            /\ ~Taken(w, r.stream, r.version)
            /\ r.version \notin VersionsIn(rows, r.stream)
            /\ open' = [open EXCEPT
                  ![w] = {[t EXCEPT !.rows = @ \cup {r}, !.inserting = {}]}]
    BY DEF FinishInsert
  <1>1. PICK r \in t.inserting :
            /\ ~Taken(w, r.stream, r.version)
            /\ r.version \notin VersionsIn(rows, r.stream)
            /\ open' = [open EXCEPT
                  ![w] = {[t EXCEPT !.rows = @ \cup {r}, !.inserting = {}]}]
    BY <1>a
  <1>2. t \in Transaction /\ open[w] = {t}
    BY DEF WellFormed
  <1>3. OpenRows(w) = t.rows /\ DrawnBy(w) = t.inserting
    BY <1>2, RowsOfOpen
  <1>4. PICK u : u = [t EXCEPT !.rows = t.rows \cup {r}, !.inserting = {}]
    OBVIOUS
  <1>5. /\ r \in Row /\ u \in Transaction
        /\ u.rows = t.rows \cup {r} /\ u.inserting = {}
    BY <1>2, <1>4, TransactionInserts
  <1>6. u.rows = OpenRows(w) \cup {r}
    BY <1>3, <1>5
  <1>7. open' = [open EXCEPT ![w] = {u}] /\ clock' = clock
    BY <1>1, <1>4 DEF FinishInsert
  <1>8. /\ Fine /\ SameOpen(Writers \ {w})
        /\ OpenRows(w)' = OpenRows(w) \cup {r} /\ DrawnBy(w)' = {}
    <2>1. {u} \in SUBSET Transaction /\ \A x, y \in {u} : x = y
      BY <1>5
    <2> QED
      BY <1>5, <1>6, <1>7, <2>1, OneTransaction
  <1>9. Finished(w, r)
    BY <1>1, <1>3, <1>8 DEF Finished, FinishInsert, SameTables
  <1> QED
    BY <1>5, <1>8, <1>9

\* Every step has one of the effects, and leaves each writer at most one
\* transaction with at most one row that is being inserted.
LEMMA StepEffect ==
    ASSUME WellFormed, [Next]_vars
    PROVE  Effect /\ Fine
  <1>0. /\ open \in [Writers -> SUBSET Transaction]
        /\ \A d \in Writers : \A t, u \in open[d] : t = u
        /\ clock \in 1..MaxTime /\ MaxTime \in Nat /\ clock \in Nat
    BY ReaderAssumption DEF WellFormed
  <1>1. ASSUME NEW w \in Writers, Begin(w) PROVE Effect /\ Fine
    <2>1. PICK o \in {"append", "link"} :
             open' = [open EXCEPT ![w] = {[op |-> o, began |-> clock,
                                           rows |-> {}, inserting |-> {}]}]
      BY <1>1 DEF Begin
    <2>2. PICK t : t = [op |-> o, began |-> clock, rows |-> {}, inserting |-> {}]
      OBVIOUS
    <2>3. t \in Transaction /\ t.rows = {} /\ t.inserting = {}
      <3>1. {} \in Optional(Row) /\ {} \in SUBSET Row
        BY DEF Optional
      <3> QED
        BY <1>0, <2>2, <3>1, TransactionOf
    <2>4. OpenRows(w) = {} /\ DrawnBy(w) = {}
      BY <1>1, RowsOfOpen DEF Begin
    <2>5. /\ Fine /\ SameOpen(Writers \ {w}) /\ OpenRows(w)' = {} /\ DrawnBy(w)' = {}
      <3>1. {t} \in SUBSET Transaction /\ \A x, y \in {t} : x = y
        BY <2>3
      <3>2. open' = [open EXCEPT ![w] = {t}] /\ clock' = clock
        BY <1>1, <2>1, <2>2 DEF Begin
      <3> QED
        BY <2>3, <3>1, <3>2, OneTransaction
    <2>6. SameOpen(Writers)
      BY <2>4, <2>5 DEF SameOpen
    <2> QED
      BY <1>1, <2>5, <2>6 DEF Begin, Quiet, SameTables, Effect
  <1>2. ASSUME NEW w \in Writers, StartInsert(w) \/ FinishInsert(w) PROVE Effect /\ Fine
    BY <1>2, StartEffect, FinishEffect DEF Effect
  <1>3. ASSUME NEW w \in Writers, Commit(w) \/ Rollback(w) PROVE Effect /\ Fine
    <2>1. open' = [open EXCEPT ![w] = {}] /\ clock' = clock
      BY <1>3 DEF Commit, Rollback
    <2>2. Fine /\ SameOpen(Writers \ {w}) /\ OpenRows(w)' = {} /\ DrawnBy(w)' = {}
      BY <2>1, OneTransaction
    <2>3. Committed(w) \/ RolledBack(w)
      BY <1>3, <2>2 DEF Commit, Rollback, Committed, RolledBack, SameTables
    <2> QED
      BY <2>2, <2>3 DEF Effect
  <1>4. ASSUME open' = open, clock' \in 1..MaxTime PROVE Fine /\ SameOpen(Writers)
    <2>1. SameOpen(Writers)
      BY <1>4, RowsOfOpenNext DEF SameOpen
    <2> QED
      BY <1>0, <1>4, <2>1 DEF Fine, SameOpen, WellFormed
  <1>5. CASE DeleteStream
    <2>1. PICK s \in Deletable : rows' = {r \in rows : r.stream # s}
      BY <1>5 DEF DeleteStream
    <2>2. Fine /\ SameOpen(Writers)
      BY <1>0, <1>4, <1>5 DEF DeleteStream
    <2>3. Deleted(s)
      BY <1>5, <2>1, <2>2 DEF DeleteStream, Deleted
    <2> QED
      BY <2>2, <2>3 DEF Effect
  <1>6. CASE Tick
    <2>1. clock' \in 1..MaxTime /\ open' = open
      BY <1>0, <1>6 DEF Tick
    <2>2. Fine /\ SameOpen(Writers)
      BY <1>4, <2>1
    <2> QED
      BY <1>6, <2>2 DEF Tick, Quiet, SameTables, Effect
  <1>7. CASE UNCHANGED tables
    <2>1. Fine /\ SameOpen(Writers)
      BY <1>0, <1>4, <1>7 DEF tables
    <2> QED
      BY <1>7, <2>1 DEF tables, Quiet, SameTables, Effect
  <1>8. Build \/ Ask \/ NewReader \/ UNCHANGED vars \/ (\E f \in Followers : Poll(f))
            => UNCHANGED tables
    BY DEF Build, Ask, NewReader, vars, Poll
  <1> QED
    BY <1>1, <1>2, <1>3, <1>5, <1>6, <1>7, <1>8 DEF Next

\* Well-formedness is kept by every step.
LEMMA StepWellFormed == WellFormed /\ [Next]_vars => WellFormed'
  <1> SUFFICES ASSUME WellFormed, [Next]_vars PROVE WellFormed'
    OBVIOUS
  <1> DEFINE Good(R, n) == DrawnUpTo(R, n) /\ IsFiniteSet(R)
             Rest == /\ Good(rows', lastId')
                     /\ eventStore' \in SUBSET (1..lastId') /\ lastId' \in 0..MaxId
                     /\ \A w \in Writers : /\ Good(OpenRows(w)', lastId')
                                           /\ DrawnUpTo(DrawnBy(w)', lastId')
  <1>1. /\ Good(rows, lastId)
        /\ \A w \in Writers : Good(OpenRows(w), lastId) /\ DrawnUpTo(DrawnBy(w), lastId)
        /\ lastId \in 0..MaxId /\ MaxId \in Nat /\ lastId \in Nat
        /\ eventStore \in SUBSET (1..lastId)
    BY ReaderAssumption DEF WellFormed
  <1>2. \A R : DrawnUpTo(R, lastId) => DrawnUpTo(R, lastId + 1)
    BY <1>1 DEF DrawnUpTo
  <1>3. ASSUME NEW R, NEW S, DrawnUpTo(R, lastId), DrawnUpTo(S, lastId)
        PROVE  DrawnUpTo(R \cup S, lastId)
    BY <1>3 DEF DrawnUpTo
  <1>4. DrawnUpTo({}, lastId) /\ Good({}, lastId)
    BY FS_EmptySet DEF DrawnUpTo
  <1>5. ASSUME Quiet PROVE Rest
    <2> HIDE DEF Good
    <2>1. /\ rows' = rows /\ eventStore' = eventStore /\ lastId' = lastId
          /\ \A d \in Writers : OpenRows(d)' = OpenRows(d) /\ DrawnBy(d)' = DrawnBy(d)
      BY <1>5 DEF Quiet, SameTables, SameOpen
    <2> QED
      BY <1>1, <2>1
  <1>6. ASSUME NEW w \in Writers, NEW r \in Row, Started(w, r) PROVE Rest
    <2>1. rows \cup OpenRows(w) \in SUBSET Row
      BY <1>1 DEF DrawnUpTo
    <2>2. NextVersion(rows \cup OpenRows(w), r.stream) \in 1..(lastId + 1)
      BY <2>1, BoundedVersions, NextVersionIs
    <2>3. r.event \in 1..(lastId + 1) /\ lastId + 1 \in 1..(lastId + 1)
      <3>1. eventStore \in SUBSET (1..(lastId + 1)) /\ lastId + 1 \in 1..(lastId + 1)
        BY <1>1
      <3> QED
        BY <1>6, <3>1 DEF Started
    <2>4. DrawnUpTo({r}, lastId + 1)
      BY <1>6, <2>2, <2>3 DEF Started, DrawnUpTo
    <2>5. /\ Good(rows, lastId + 1)
          /\ \A d \in Writers : /\ Good(OpenRows(d), lastId + 1)
                                /\ DrawnUpTo(DrawnBy(d), lastId + 1)
      BY <1>1, <1>2
    <2>6. eventStore \in SUBSET (1..(lastId + 1)) /\ lastId + 1 \in 0..MaxId
      BY <1>1, <1>6 DEF Started
    <2> HIDE DEF Good
    <2>7. \A d \in Writers : Good(OpenRows(d)', lastId + 1)
      BY <1>6, <2>5 DEF Started, SameOpen
    <2>8. \A d \in Writers : DrawnUpTo(DrawnBy(d)', lastId + 1)
      BY <1>6, <2>4, <2>5 DEF Started, SameOpen
    <2> QED
      BY <1>6, <2>5, <2>6, <2>7, <2>8 DEF Started, SameTables
  <1>7. ASSUME NEW w \in Writers, NEW r \in Row, Finished(w, r) PROVE Rest
    <2>1. DrawnUpTo({r}, lastId)
      BY <1>1, <1>7 DEF Finished, DrawnUpTo
    <2>2. Good(OpenRows(w) \cup {r}, lastId)
      BY <1>1, <1>3, <2>1, FS_AddElement
    <2> HIDE DEF Good
    <2>3. \A d \in Writers : Good(OpenRows(d)', lastId)
      BY <1>1, <1>7, <2>2 DEF Finished, SameOpen
    <2>4. \A d \in Writers : DrawnUpTo(DrawnBy(d)', lastId)
      BY <1>1, <1>4, <1>7 DEF Finished, SameOpen
    <2> QED
      BY <1>1, <1>7, <2>3, <2>4 DEF Finished, SameTables
  <1>8. ASSUME NEW w \in Writers, Committed(w) \/ RolledBack(w) PROVE Rest
    <2>1. Good(rows \cup OpenRows(w), lastId)
      BY <1>1, <1>3, FS_Union
    <2>2. \A x \in OpenRows(w) : x.event \in 1..lastId
      BY <1>1 DEF DrawnUpTo
    <2>3. lastId' = lastId /\ eventStore' \in SUBSET (1..lastId)
      BY <1>1, <1>8, <2>2 DEF Committed, RolledBack, SameTables
    <2> HIDE DEF Good
    <2>4. \A d \in Writers : Good(OpenRows(d)', lastId) /\ DrawnUpTo(DrawnBy(d)', lastId)
      BY <1>1, <1>4, <1>8 DEF Committed, RolledBack, SameOpen
    <2>5. Good(rows', lastId)
      BY <1>1, <1>8, <2>1 DEF Committed, RolledBack, SameTables
    <2> QED
      BY <1>1, <2>3, <2>4, <2>5
  <1>9. ASSUME NEW s \in Deletable, Deleted(s) PROVE Rest
    <2>1. rows' \in SUBSET rows
      BY <1>9 DEF Deleted
    <2>2. IsFiniteSet(rows') /\ DrawnUpTo(rows', lastId)
      BY <1>1, <2>1, FS_Subset DEF DrawnUpTo
    <2> QED
      BY <1>1, <1>9, <2>2 DEF Deleted, SameOpen
  <1>10. Rest
    <2> HIDE DEF Rest
    <2> QED
      BY <1>5, <1>6, <1>7, <1>8, <1>9, StepEffect DEF Effect
  <1> QED
    BY <1>10, StepEffect DEF WellFormed, Fine

-----------------------------------------------------------------------------
(* Ids and versions of the rows                                            *)

\* Rows that are committed or will be, and those that are being inserted too.
Known == rows \cup InFlight
Given == Known \cup Drawn

IdsDistinct == \A r, q \in Given : r.id = q.id => r = q

VersionsDistinct ==
    \A r, q \in Known : r.stream = q.stream /\ r.version = q.version => r = q

\* A row is committed or in one transaction, inserted or being inserted.
Apart ==
    \A w \in Writers :
        /\ \A x \in OpenRows(w) \cup DrawnBy(w) :
            /\ x \notin rows
            /\ \A d \in Writers \ {w} : x \notin OpenRows(d) \cup DrawnBy(d)
        /\ \A x \in DrawnBy(w) : x \notin OpenRows(w)

\* The rows that are in flight are those of the writers.
LEMMA InFlightRows == \A x : x \in InFlight <=> \E w \in Writers : x \in OpenRows(w)
  BY DEF InFlight

\* The rows that are known are the committed ones and those in flight; those
\* that are given an id are they and the ones being inserted ...
LEMMA KnownRows ==
    /\ \A x : x \in Known <=> x \in rows \/ \E w \in Writers : x \in OpenRows(w)
    /\ \A x : x \in Given <=> x \in Known \/ \E w \in Writers : x \in DrawnBy(w)
  BY InFlightRows DEF Known, Given, Drawn

\* ... after a step as before it.
LEMMA KnownRowsNext ==
    /\ \A x : x \in Known' <=> x \in rows' \/ \E w \in Writers : x \in OpenRows(w)'
    /\ \A x : x \in Given' <=> x \in Known' \/ \E w \in Writers : x \in DrawnBy(w)'
  BY DEF Known, Given, InFlight, Drawn

\* Such rows are rows whose ids have been drawn.
LEMMA GivenAreRows ==
    ASSUME WellFormed, NEW x \in Given
    PROVE  /\ x \in Row /\ x.id \in 1..lastId /\ x.version \in 1..x.id
           /\ x.id \in Nat /\ x.version \in Nat /\ lastId \in Nat
  <1>1. x \in Row /\ x.id \in 1..lastId /\ x.version \in 1..x.id
    BY KnownRows DEF WellFormed, DrawnUpTo
  <1> QED
    BY <1>1, BoundedVersions

\* The same of the rows that are committed or that a transaction has.
LEMMA KnownAreRows ==
    ASSUME WellFormed, NEW x \in Known
    PROVE  /\ x \in Row /\ x.id \in 1..lastId /\ x.version \in 1..x.id
           /\ x.id \in Nat /\ x.version \in Nat /\ lastId \in Nat
  BY GivenAreRows DEF Given

\* The row that is given an id has one that no other has.
LEMMA StartedIsNew ==
    ASSUME WellFormed, NEW w \in Writers, NEW r \in Row, Started(w, r)
    PROVE  \A x \in Given : x.id < r.id /\ x # r
  <1> SUFFICES ASSUME NEW x \in Given PROVE x.id < r.id /\ x # r
    OBVIOUS
  <1>1. x.id \in 1..lastId /\ lastId \in Nat
    BY GivenAreRows
  <1>2. r.id = lastId + 1
    BY DEF Started
  <1> QED
    BY <1>1, <1>2

\* The version being inserted is larger than those the same transaction has
\* inserted in the stream.
DrawnBehindOwn ==
    \A w \in Writers : \A r \in DrawnBy(w), x \in OpenRows(w) :
        x.stream = r.stream => x.version < r.version

\* So it is one no known row of the stream has when the insert is done.
LEMMA FinishedIsNew ==
    ASSUME WellFormed, DrawnBehindOwn, NEW w \in Writers, NEW r \in Row, Finished(w, r),
           NEW x \in Known, x.stream = r.stream
    PROVE  x.version # r.version
  <1> SUFFICES ASSUME x.version = r.version PROVE FALSE
    OBVIOUS
  <1>1. CASE x \in rows
    BY <1>1 DEF Finished, VersionsIn
  <1>2. CASE x \in OpenRows(w)
    <2>1. x.version < r.version /\ x.version \in Nat
      BY <1>2, KnownAreRows DEF DrawnBehindOwn, Finished
    <2> QED
      BY <2>1
  <1>3. CASE x \notin rows /\ x \notin OpenRows(w)
    <2>1. x \in InFlight \ OpenRows(w)
      BY <1>3 DEF Known
    <2> QED
      BY <2>1 DEF Finished, Taken, VersionsIn
  <1> QED
    BY <1>1, <1>2, <1>3

\* What a step makes known, and what it gives an id.
LEMMA KnownGrows ==
    ASSUME Effect
    PROVE  \/ (\A x \in Known' : x \in Known) /\ (\A x \in Given' : x \in Given)
           \/ \E w \in Writers, r \in Row :
                /\ Started(w, r)
                /\ \A x \in Known' : x \in Known
                /\ \A x \in Given' : x \in Given \/ x = r
           \/ \E w \in Writers, r \in Row :
                /\ Finished(w, r)
                /\ \A x \in Known' : x \in Known \/ x = r
                /\ \A x \in Given' : x \in Given
  <1>1. CASE Quiet
    BY <1>1, KnownRows, KnownRowsNext DEF Quiet, SameTables, SameOpen
  <1>2. ASSUME NEW w \in Writers, NEW r \in Row, Started(w, r)
        PROVE  /\ \A x \in Known' : x \in Known
               /\ \A x \in Given' : x \in Given \/ x = r
    BY <1>2, KnownRows, KnownRowsNext DEF Started, SameTables, SameOpen
  <1>3. ASSUME NEW w \in Writers, NEW r \in Row, Finished(w, r)
        PROVE  /\ \A x \in Known' : x \in Known \/ x = r
               /\ \A x \in Given' : x \in Given
    BY <1>3, KnownRows, KnownRowsNext DEF Finished, SameTables, SameOpen
  <1>4. ASSUME NEW w \in Writers, Committed(w) \/ RolledBack(w)
        PROVE  (\A x \in Known' : x \in Known) /\ (\A x \in Given' : x \in Given)
    BY <1>4, KnownRows, KnownRowsNext DEF Committed, RolledBack, SameTables, SameOpen
  <1>5. ASSUME NEW s \in Deletable, Deleted(s)
        PROVE  (\A x \in Known' : x \in Known) /\ (\A x \in Given' : x \in Given)
    BY <1>5, KnownRows, KnownRowsNext DEF Deleted, SameOpen
  <1> QED
    BY <1>1, <1>2, <1>3, <1>4, <1>5 DEF Effect

\* Ids stay distinct, and so do the versions of a stream.
LEMMA StepDistinct ==
    ASSUME WellFormed, DrawnBehindOwn, IdsDistinct, VersionsDistinct, Effect
    PROVE  IdsDistinct' /\ VersionsDistinct'
  <1>1. ASSUME \A x \in Known' : x \in Known PROVE VersionsDistinct'
    BY <1>1 DEF VersionsDistinct
  <1>2. ASSUME \A x \in Given' : x \in Given PROVE IdsDistinct'
    BY <1>2 DEF IdsDistinct
  <1>3. ASSUME NEW w \in Writers, NEW r \in Row, Started(w, r),
               \A x \in Given' : x \in Given \/ x = r
        PROVE  IdsDistinct'
    <2>1. \A x \in Given : x.id # r.id
      BY <1>3, StartedIsNew, GivenAreRows
    <2> QED
      BY <1>3, <2>1 DEF IdsDistinct
  <1>4. ASSUME NEW w \in Writers, NEW r \in Row, Finished(w, r),
               \A x \in Known' : x \in Known \/ x = r
        PROVE  VersionsDistinct'
    <2>1. \A x \in Known : x.stream = r.stream => x.version # r.version
      BY <1>4, FinishedIsNew
    <2> QED
      BY <1>4, <2>1 DEF VersionsDistinct
  <1> QED
    BY <1>1, <1>2, <1>3, <1>4, KnownGrows

\* A row is inserted into one transaction and leaves it by its commit.
LEMMA StepApart ==
    ASSUME WellFormed, Apart, Effect
    PROVE  Apart'
  <1>1. CASE Quiet
    BY <1>1 DEF Quiet, SameTables, SameOpen, Apart
  <1>2. ASSUME NEW w \in Writers, NEW r \in Row, Started(w, r) PROVE Apart'
    <2>1. r \notin rows /\ \A d \in Writers : r \notin OpenRows(d) \cup DrawnBy(d)
      BY <1>2, StartedIsNew, KnownRows
    <2> QED
      BY <1>2, <2>1 DEF Started, SameTables, SameOpen, Apart
  <1>3. ASSUME NEW w \in Writers, NEW r \in Row, Finished(w, r) PROVE Apart'
    <2>1. /\ OpenRows(w)' = OpenRows(w) \cup {r} /\ DrawnBy(w)' = {} /\ r \in DrawnBy(w)
          /\ rows' = rows
          /\ \A d \in Writers \ {w} : OpenRows(d)' = OpenRows(d) /\ DrawnBy(d)' = DrawnBy(d)
      BY <1>3 DEF Finished, SameTables, SameOpen
    <2>2. \A x : x \in OpenRows(w)' \cup DrawnBy(w)' => x \in OpenRows(w) \cup DrawnBy(w)
      BY <2>1
    <2> QED
      BY <2>1, <2>2 DEF Apart
  <1>4. ASSUME NEW w \in Writers, Committed(w) \/ RolledBack(w) PROVE Apart'
    <2>1. /\ OpenRows(w)' = {} /\ DrawnBy(w)' = {}
          /\ \A x \in rows' : x \in rows \/ x \in OpenRows(w)
          /\ \A d \in Writers \ {w} : OpenRows(d)' = OpenRows(d) /\ DrawnBy(d)' = DrawnBy(d)
      BY <1>4 DEF Committed, RolledBack, SameTables, SameOpen
    <2> QED
      BY <2>1 DEF Apart
  <1>5. ASSUME NEW s \in Deletable, Deleted(s) PROVE Apart'
    BY <1>5 DEF Deleted, SameOpen, Apart
  <1> QED
    BY <1>1, <1>2, <1>3, <1>4, <1>5 DEF Effect

\* What a writer is inserting stays behind what it has inserted.
LEMMA StepDrawnBehindOwn ==
    ASSUME WellFormed, DrawnBehindOwn, Effect
    PROVE  DrawnBehindOwn'
  <1>1. CASE Quiet
    BY <1>1 DEF Quiet, SameOpen, DrawnBehindOwn
  <1>2. ASSUME NEW w \in Writers, NEW r \in Row, Started(w, r) PROVE DrawnBehindOwn'
    <2>1. rows \cup OpenRows(w) \in SUBSET Row
      BY DEF WellFormed, DrawnUpTo
    <2>2. \A x \in rows \cup OpenRows(w) : x.stream = r.stream => x.version < r.version
      BY <1>2, <2>1, BoundedVersions, NextVersionIs DEF Started
    <2> QED
      BY <1>2, <2>2 DEF Started, SameOpen, DrawnBehindOwn
  <1>3. ASSUME NEW w \in Writers, NEW r \in Row, Finished(w, r) PROVE DrawnBehindOwn'
    BY <1>3 DEF Finished, SameOpen, DrawnBehindOwn
  <1>4. ASSUME NEW w \in Writers, Committed(w) \/ RolledBack(w) PROVE DrawnBehindOwn'
    BY <1>4 DEF Committed, RolledBack, SameOpen, DrawnBehindOwn
  <1>5. ASSUME NEW s \in Deletable, Deleted(s) PROVE DrawnBehindOwn'
    BY <1>5 DEF Deleted, SameOpen, DrawnBehindOwn
  <1> QED
    BY <1>1, <1>2, <1>3, <1>4, <1>5 DEF Effect

-----------------------------------------------------------------------------
(* Streams that are not deleted                                            *)

Kept == Streams \ Deletable

\* No version below one that S has in stream s is missing from S.
DownClosed(S, s) ==
    \A x \in S : x.stream = s =>
        \A v \in 1..x.version : \E y \in S : y.stream = s /\ y.version = v

NoGaps ==
    \A s \in Kept :
        /\ DownClosed(rows, s)
        /\ \A w \in Writers : DownClosed(rows \cup OpenRows(w), s)

\* In a stream later versions have larger ids.
IdsInOrder ==
    \A r, q \in Known :
        r.stream = q.stream /\ r.stream \in Kept /\ r.version < q.version
            => r.id < q.id

\* A row being inserted comes behind rows the writer can see, all with smaller
\* ids: whoever had the version before it has committed, or is the writer.
DrawnNext ==
    \A w \in Writers : \A r \in DrawnBy(w) : r.stream \in Kept =>
        /\ \A v \in 1..(r.version - 1) :
            \E y \in rows \cup OpenRows(w) : y.stream = r.stream /\ y.version = v
        /\ \A x \in Known : x.stream = r.stream /\ x.version < r.version => x.id < r.id

\* What is below the next version of a set without gaps is there.
LEMMA BelowNextPresent ==
    ASSUME NEW n \in Nat, NEW S \in SUBSET Row, \A x \in S : x.version \in 1..n,
           NEW s, DownClosed(S, s), NEW v \in 1..(NextVersion(S, s) - 1)
    PROVE  \E y \in S : y.stream = s /\ y.version = v
  <1> DEFINE m == NextVersion(S, s)
  <1>1. /\ m \in 1..(n + 1)
        /\ m = 1 \/ \E x \in S : x.stream = s /\ x.version = m - 1
    BY NextVersionIs
  <1>2. v \in 1..(m - 1)
    OBVIOUS
  <1> HIDE DEF m
  <1>3. PICK x \in S : x.stream = s /\ x.version = m - 1
    BY <1>1, <1>2
  <1> QED
    BY <1>2, <1>3 DEF DownClosed

\* A row with nothing missing below it keeps a set closed downwards.
LEMMA OneMoreClosed ==
    ASSUME NEW S, NEW s, DownClosed(S, s), NEW r, r.version \in Nat,
           r.stream = s => \A v \in 1..(r.version - 1) :
                                \E y \in S : y.stream = s /\ y.version = v
    PROVE  DownClosed(S \cup {r}, s)
  <1> SUFFICES ASSUME NEW x \in S \cup {r}, x.stream = s, NEW v \in 1..x.version
               PROVE  \E y \in S \cup {r} : y.stream = s /\ y.version = v
    BY DEF DownClosed
  <1>1. CASE x \in S
    BY <1>1 DEF DownClosed
  <1>2. CASE x = r
    <2>1. v = r.version \/ v \in 1..(r.version - 1)
      BY <1>2
    <2> QED
      BY <1>2, <2>1
  <1> QED
    BY <1>1, <1>2

\* Sets that are closed downwards are so together.
LEMMA ClosedTogether ==
    ASSUME NEW S, NEW T, NEW s, DownClosed(S, s), DownClosed(T, s)
    PROVE  DownClosed(S \cup T, s)
  BY DEF DownClosed

\* When an insert into a stream that is not deleted is done, its row is the
\* last one known there: the key it waited for is that of the next version.
LEMMA FinishedIsLast ==
    ASSUME WellFormed, Apart, NoGaps, DrawnBehindOwn, NEW w \in Writers,
           NEW r \in Row, Finished(w, r), r.stream \in Kept,
           NEW x \in Known, x.stream = r.stream
    PROVE  x.version < r.version
  <1>1. x.version \in Nat /\ r.version \in Nat /\ x.version # r.version /\ r.version >= 1
    <2>1. r \in Given
      BY KnownRows DEF Finished
    <2>2. r.version \in 1..r.id /\ r.id \in Nat
      BY <2>1, GivenAreRows
    <2> QED
      BY <2>2, FinishedIsNew, KnownAreRows
  <1> SUFFICES ASSUME r.version < x.version PROVE FALSE
    BY <1>1
  <1>2. r.version \in 1..x.version
    BY <1>1
  <1>3. CASE x \in rows
    <2>1. PICK y \in rows : y.stream = r.stream /\ y.version = r.version
      BY <1>2, <1>3 DEF NoGaps, DownClosed
    <2> QED
      BY <2>1 DEF Finished, VersionsIn
  <1>4. ASSUME NEW d \in Writers, x \in OpenRows(d) PROVE FALSE
    <2>1. PICK y \in rows \cup OpenRows(d) : y.stream = r.stream /\ y.version = r.version
      BY <1>2, <1>4 DEF NoGaps, DownClosed
    <2>2. y \in Known
      BY KnownRows
    <2> QED
      BY <2>1, <2>2, FinishedIsNew
  <1> QED
    BY <1>3, <1>4, KnownRows

\* Versions stay without gaps.
LEMMA StepNoGaps ==
    ASSUME WellFormed, NoGaps, DrawnNext, Effect
    PROVE  NoGaps'
  <1> SUFFICES ASSUME NEW s \in Kept
               PROVE  /\ DownClosed(rows', s)
                      /\ \A d \in Writers : DownClosed(rows' \cup OpenRows(d)', s)
    BY DEF NoGaps, DownClosed
  <1>a. /\ DownClosed(rows, s)
        /\ \A d \in Writers : DownClosed(rows \cup OpenRows(d), s)
    BY DEF NoGaps
  <1>1. ASSUME rows' = rows, \A d \in Writers : OpenRows(d)' = OpenRows(d)
        PROVE  /\ DownClosed(rows', s)
               /\ \A d \in Writers : DownClosed(rows' \cup OpenRows(d)', s)
    BY <1>a, <1>1
  <1>2. ASSUME NEW w \in Writers, NEW r \in Row, Finished(w, r)
        PROVE  /\ DownClosed(rows', s)
               /\ \A d \in Writers : DownClosed(rows' \cup OpenRows(d)', s)
    <2> DEFINE S == rows \cup OpenRows(w)
    <2>1. r.version \in Nat /\ r \in DrawnBy(w)
      BY <1>2 DEF Finished, Row
    <2>2. r.stream = s => \A v \in 1..(r.version - 1) :
                              \E y \in S : y.stream = s /\ y.version = v
      BY <2>1 DEF DrawnNext
    <2>3. DownClosed(S, s)
      BY <1>a
    <2> HIDE DEF S
    <2>4. DownClosed(S \cup {r}, s)
      BY <2>1, <2>2, <2>3, OneMoreClosed
    <2>5. rows' = rows /\ rows' \cup OpenRows(w)' = S \cup {r}
      BY <1>2 DEF Finished, SameTables, S
    <2>6. \A d \in Writers \ {w} : rows' \cup OpenRows(d)' = rows \cup OpenRows(d)
      BY <1>2 DEF Finished, SameTables, SameOpen
    <2>7. ASSUME NEW d \in Writers PROVE DownClosed(rows' \cup OpenRows(d)', s)
      BY <1>a, <2>4, <2>5, <2>6
    <2> QED
      BY <1>a, <2>5, <2>7
  <1>3. ASSUME NEW w \in Writers, Committed(w)
        PROVE  /\ DownClosed(rows', s)
               /\ \A d \in Writers : DownClosed(rows' \cup OpenRows(d)', s)
    <2>1. rows' = rows \cup OpenRows(w)
      BY <1>3 DEF Committed
    <2>2. DownClosed(rows', s)
      BY <1>a, <2>1
    <2>3. ASSUME NEW d \in Writers \ {w} PROVE DownClosed(rows' \cup OpenRows(d)', s)
      <3>1. rows' \cup OpenRows(d)' = (rows \cup OpenRows(w)) \cup (rows \cup OpenRows(d))
        BY <1>3 DEF Committed, SameOpen
      <3> QED
        BY <1>a, <3>1, ClosedTogether
    <2>4. rows' \cup OpenRows(w)' = rows'
      BY <1>3 DEF Committed
    <2> QED
      BY <2>2, <2>3, <2>4
  <1>4. ASSUME NEW w \in Writers, RolledBack(w)
        PROVE  /\ DownClosed(rows', s)
               /\ \A d \in Writers : DownClosed(rows' \cup OpenRows(d)', s)
    <2>1. rows' = rows /\ rows' \cup OpenRows(w)' = rows
      BY <1>4 DEF RolledBack, SameTables
    <2>2. \A d \in Writers \ {w} : rows' \cup OpenRows(d)' = rows \cup OpenRows(d)
      BY <1>4 DEF RolledBack, SameTables, SameOpen
    <2>3. ASSUME NEW d \in Writers PROVE DownClosed(rows' \cup OpenRows(d)', s)
      BY <1>a, <2>1, <2>2
    <2> QED
      BY <1>a, <2>1, <2>3
  <1>5. ASSUME NEW t \in Deletable, Deleted(t)
        PROVE  /\ DownClosed(rows', s)
               /\ \A d \in Writers : DownClosed(rows' \cup OpenRows(d)', s)
    <2>1. s # t
      BY DEF Kept
    <2>2. \A x : x.stream = s => (x \in rows' <=> x \in rows)
      BY <1>5, <2>1 DEF Deleted
    <2>3. \A d \in Writers : OpenRows(d)' = OpenRows(d)
      BY <1>5 DEF Deleted, SameOpen
    <2> QED
      BY <1>a, <2>2, <2>3 DEF DownClosed
  <1>6. CASE Quiet
    BY <1>1, <1>6 DEF Quiet, SameTables, SameOpen
  <1>7. ASSUME NEW w \in Writers, NEW r \in Row, Started(w, r)
        PROVE  /\ DownClosed(rows', s)
               /\ \A d \in Writers : DownClosed(rows' \cup OpenRows(d)', s)
    BY <1>1, <1>7 DEF Started, SameTables, SameOpen
  <1> QED
    BY <1>2, <1>3, <1>4, <1>5, <1>6, <1>7 DEF Effect

\* Ids and versions stay in the same order.
LEMMA StepIdsInOrder ==
    ASSUME WellFormed, Apart, NoGaps, DrawnBehindOwn, DrawnNext, IdsInOrder, Effect
    PROVE  IdsInOrder'
  <1>1. ASSUME \A x \in Known' : x \in Known PROVE IdsInOrder'
    BY <1>1 DEF IdsInOrder
  <1>2. ASSUME NEW w \in Writers, NEW r \in Row, Finished(w, r),
               \A x \in Known' : x \in Known \/ x = r
        PROVE  IdsInOrder'
    <2>1. \A x \in Known : x.version \in Nat
      BY KnownAreRows
    <2>2. r.version \in Nat
      BY DEF Row
    <2>3. ASSUME NEW x \in Known, x.stream = r.stream, r.stream \in Kept
          PROVE  x.version < r.version /\ x.id < r.id
      <3>1. x.version < r.version
        BY <1>2, <2>3, FinishedIsLast
      <3> QED
        BY <1>2, <2>3, <3>1 DEF DrawnNext, Finished
    <2> QED
      BY <1>2, <2>1, <2>2, <2>3 DEF IdsInOrder
  <1> QED
    BY <1>1, <1>2, KnownGrows

\* What is being inserted stays next.
LEMMA StepDrawnNext ==
    ASSUME WellFormed, Apart, NoGaps, DrawnNext, Effect
    PROVE  DrawnNext'
  <1>0. \A s \in Kept : \A r \in rows : r.stream = s => s \notin Deletable
    BY DEF Kept
  <1>1. ASSUME \A d \in Writers :
                    \A x \in DrawnBy(d)' : /\ x \in DrawnBy(d)
                                           /\ \A y \in OpenRows(d) : y \in OpenRows(d)',
               \A x \in rows : x.stream \in Kept => x \in rows',
               \A x \in Known' : x \in Known
        PROVE  DrawnNext'
    <2> SUFFICES ASSUME NEW d \in Writers, NEW r \in DrawnBy(d)', r.stream \in Kept
                 PROVE  /\ \A v \in 1..(r.version - 1) : \E y \in rows' \cup OpenRows(d)' :
                              y.stream = r.stream /\ y.version = v
                        /\ \A x \in Known' : x.stream = r.stream /\ x.version < r.version
                              => x.id < r.id
      BY DEF DrawnNext, Kept
    <2>1. r \in DrawnBy(d)
      BY <1>1
    <2>2. ASSUME NEW v \in 1..(r.version - 1)
          PROVE  \E y \in rows' \cup OpenRows(d)' : y.stream = r.stream /\ y.version = v
      <3>1. PICK y \in rows \cup OpenRows(d) : y.stream = r.stream /\ y.version = v
        BY <2>1 DEF DrawnNext
      <3> QED
        BY <1>1, <3>1
    <2> QED
      BY <1>1, <2>1, <2>2 DEF DrawnNext
  <1>2. CASE Quiet
    <2>1. \A x \in Known' : x \in Known
      BY <1>2, KnownRows, KnownRowsNext DEF Quiet, SameTables, SameOpen
    <2> QED
      BY <1>1, <1>2, <2>1 DEF Quiet, SameTables, SameOpen
  <1>3. ASSUME NEW w \in Writers, Committed(w) \/ RolledBack(w) PROVE DrawnNext'
    <2>1. \A x \in Known' : x \in Known
      BY <1>3, KnownRows, KnownRowsNext DEF Committed, RolledBack, SameTables, SameOpen
    <2>2. DrawnBy(w)' = {} /\ \A d \in Writers \ {w} : OpenRows(d)' = OpenRows(d) /\ DrawnBy(d)' = DrawnBy(d)
      BY <1>3 DEF Committed, RolledBack, SameOpen
    <2>3. \A x \in rows : x \in rows'
      BY <1>3 DEF Committed, RolledBack, SameTables
    <2> QED
      BY <1>1, <2>1, <2>2, <2>3
  <1>4. ASSUME NEW s \in Deletable, Deleted(s) PROVE DrawnNext'
    <2>1. \A x \in Known' : x \in Known
      BY <1>4, KnownRows, KnownRowsNext DEF Deleted, SameOpen
    <2>2. \A x \in rows : x.stream \in Kept => x \in rows'
      BY <1>4 DEF Deleted, Kept
    <2>3. \A d \in Writers : OpenRows(d)' = OpenRows(d) /\ DrawnBy(d)' = DrawnBy(d)
      BY <1>4 DEF Deleted, SameOpen
    <2> QED
      BY <1>1, <2>1, <2>2, <2>3
  <1>5. ASSUME NEW w \in Writers, NEW r \in Row, Started(w, r) PROVE DrawnNext'
    <2>1. \A x \in Known' : x \in Known
      BY <1>5, KnownRows, KnownRowsNext DEF Started, SameTables, SameOpen
    <2>2. rows' = rows /\ \A d \in Writers : OpenRows(d)' = OpenRows(d)
      BY <1>5 DEF Started, SameTables, SameOpen
    <2>3. ASSUME r.stream \in Kept
          PROVE  /\ \A v \in 1..(r.version - 1) : \E y \in rows \cup OpenRows(w) :
                        y.stream = r.stream /\ y.version = v
                 /\ \A x \in Known : x.id < r.id
      <3> DEFINE S == rows \cup OpenRows(w)
      <3>1. /\ S \in SUBSET Row /\ \A x \in S : x.version \in 1..lastId
            /\ lastId \in Nat
        BY BoundedVersions DEF WellFormed, DrawnUpTo
      <3>2. DownClosed(S, r.stream) /\ r.version = NextVersion(S, r.stream)
        BY <1>5, <2>3 DEF NoGaps, Started
      <3> HIDE DEF S
      <3>3. \A v \in 1..(r.version - 1) : \E y \in S : y.stream = r.stream /\ y.version = v
        BY <3>1, <3>2, BelowNextPresent
      <3>4. \A x \in Known : x.id < r.id
        BY <1>5, StartedIsNew DEF Given
      <3> QED
        BY <3>3, <3>4 DEF S
    <2>4. DrawnBy(w)' = {r} /\ \A d \in Writers \ {w} : DrawnBy(d)' = DrawnBy(d)
      BY <1>5 DEF Started, SameOpen
    <2>5. ASSUME NEW d \in Writers, NEW q \in DrawnBy(d)', q.stream \in Kept
          PROVE  /\ \A v \in 1..(q.version - 1) : \E y \in rows \cup OpenRows(d) :
                        y.stream = q.stream /\ y.version = v
                 /\ \A x \in Known : x.stream = q.stream /\ x.version < q.version
                        => x.id < q.id
      BY <2>3, <2>4, <2>5 DEF DrawnNext
    <2> QED
      BY <2>1, <2>2, <2>5 DEF DrawnNext, Kept
  <1>6. ASSUME NEW w \in Writers, NEW r \in Row, Finished(w, r) PROVE DrawnNext'
    <2>1. \A x \in Known' : x \in Known \/ x = r
      BY <1>6, KnownRows, KnownRowsNext DEF Finished, SameTables, SameOpen
    <2>2. /\ rows' = rows /\ DrawnBy(w)' = {} /\ r \in DrawnBy(w)
          /\ \A d \in Writers \ {w} : OpenRows(d)' = OpenRows(d) /\ DrawnBy(d)' = DrawnBy(d)
      BY <1>6 DEF Finished, SameTables, SameOpen
    <2>3. ASSUME NEW d \in Writers, NEW q \in DrawnBy(d)', q.stream \in Kept
          PROVE  /\ \A v \in 1..(q.version - 1) : \E y \in rows \cup OpenRows(d)' :
                        y.stream = q.stream /\ y.version = v
                 /\ \A x \in Known' : x.stream = q.stream /\ x.version < q.version
                        => x.id < q.id
      <3>1. d # w /\ q \in DrawnBy(d) /\ OpenRows(d)' = OpenRows(d)
        BY <2>2, <2>3
      <3>2. ASSUME r.stream = q.stream, r.version < q.version PROVE FALSE
        <4>1. r.version \in 1..(q.version - 1)
          <5>1. r \in Given /\ q \in Given
            BY <2>2, <3>1, KnownRows
          <5>2. r.version \in 1..r.id /\ q.version \in Nat /\ r.id \in Nat
            BY <5>1, GivenAreRows
          <5> QED
            BY <3>2, <5>2
        <4>2. PICK y \in rows \cup OpenRows(d) : y.stream = r.stream /\ y.version = r.version
          BY <2>3, <3>1, <3>2, <4>1 DEF DrawnNext
        <4>3. y \notin rows
          BY <1>6, <4>2 DEF Finished, VersionsIn
        <4>4. y \in InFlight \ OpenRows(w)
          BY <3>1, <4>2, <4>3, InFlightRows DEF Apart
        <4> QED
          BY <1>6, <4>2, <4>4 DEF Finished, Taken, VersionsIn
      <3> QED
        BY <2>1, <2>3, <3>1, <3>2 DEF DrawnNext
    <2> QED
      BY <2>2, <2>3 DEF DrawnNext, Kept
  <1> QED
    BY <1>2, <1>3, <1>4, <1>5, <1>6 DEF Effect


-----------------------------------------------------------------------------
(* The events of rows                                                      *)

\* A committed row names an event that is stored.
EventInv == \A r \in rows : r.event \in eventStore

\* It still does after any step: events are stored before their rows and stay.
LEMMA StepEvents ==
    ASSUME EventInv, Effect
    PROVE  EventInv'
  <1>1. ASSUME NEW w \in Writers, Committed(w) PROVE EventInv'
    BY <1>1 DEF Committed, EventInv
  <1>2. ASSUME SameTables PROVE EventInv'
    BY <1>2 DEF SameTables, EventInv
  <1>3. ASSUME NEW s \in Deletable, Deleted(s) PROVE EventInv'
    BY <1>3 DEF Deleted, EventInv
  <1> QED
    BY <1>1, <1>2, <1>3 DEF Effect, Quiet, Started, Finished, RolledBack

-----------------------------------------------------------------------------
(* Readers, field by field                                                 *)

Between(ft, tt, fi, ti) ==
    [fromTime |-> ft, toTime |-> tt, fromId |-> fi, toId |-> ti]

Holder(b, d, l, s, ea, o, ev, c, j, f) ==
    [bounds |-> b, direction |-> d, limit |-> l, streams |-> s, earlier |-> ea,
     order |-> o, events |-> ev, counted |-> c, joined |-> j, failed |-> f]

\* A new reader.
LEMMA NewIs ==
    Read = Holder(Between({}, {}, {}, {}), "unset", {}, {}, {}, "unset", {},
                  FALSE, FALSE, FALSE)
  BY DEF Read, Holder, Between

-----------------------------------------------------------------------------
(* Followers                                                               *)

FollowersTyped ==
    /\ cursor \in [Followers -> 0..MaxId]
    /\ seen \in [Followers -> SUBSET Row]
    /\ overtaken \subseteq 1..MaxId

\* A follower has read no further than the last id drawn.
CursorGiven == \A f \in Followers : cursor[f] <= lastId

\* A follower of one stream stands at a row of it.
CursorStored ==
    \A f \in Followers \cap Streams :
        cursor[f] = 0 \/ \E r \in rows : r.stream = f /\ r.id = cursor[f]

\* MissedWereOpen, said also of the rows that are in flight or being inserted.
MissedKnown ==
    \A f \in Followers \ Streams, r \in Given :
        r.id <= cursor[f] /\ r \notin seen[f] => r.id \in overtaken

FollowInv == /\ FollowersTyped /\ CursorGiven /\ CursorStored
             /\ StreamFollowed /\ MissedKnown

\* The committed rows a follower has not read yet.
Unread(f) == {r \in rows : /\ f = AllStreams \/ r.stream = f
                           /\ cursor[f] < r.id}

\* What a poll does: it reads all of them, and stops at the last.
Polled(f) ==
    /\ \E m \in Nat : /\ cursor' = [cursor EXCEPT ![f] = m]
                      /\ \E r \in Unread(f) : r.id = m
                      /\ \A r \in Unread(f) : r.id <= m
    /\ seen' = [seen EXCEPT ![f] = @ \cup Unread(f)]
    /\ overtaken' = IF f = AllStreams
                    THEN overtaken \cup {r.id : r \in InFlight \cup Drawn}
                    ELSE overtaken
    /\ UNCHANGED tables

\* What a follower asks for.
LEMMA NextQueryIs ==
    ASSUME NEW f, NEW no \in BOOLEAN, no = FALSE, NEW S,
           S = (IF f = AllStreams THEN {} ELSE {f}),
           NEW b, b = Between({}, {}, {cursor[f] + 1}, {MaxId})
    PROVE  NextQuery(f) = Holder(b, "forward", {}, S, {}, "unset", {}, no, no, no)
  <1>0. PICK none, from : /\ none = Between({}, {}, {}, {})
                          /\ from = Between({}, {}, {cursor[f] + 1}, {})
    OBVIOUS
  <1>1. Read = Holder(none, "unset", {}, {}, {}, "unset", {}, no, no, no)
    BY <1>0, NewIs
  <1>2. PICK q1 : q1 = Forward(Read)
    OBVIOUS
  <1>3. q1 = Holder(none, "forward", {}, {}, {}, "unset", {}, no, no, no)
    BY <1>1, <1>2 DEF Forward, Holder
  <1>4. PICK q2 : q2 = FromId(q1, cursor[f] + 1)
    OBVIOUS
  <1>5. q2 = Holder(from, "forward", {}, {}, {}, "unset", {}, no, no, no)
    <2>1. [none EXCEPT !.fromId = {cursor[f] + 1}] = from
      BY <1>0 DEF Between
    <2> QED
      BY <1>3, <1>4, <2>1 DEF FromId, Holder
  <1>6. PICK q3 : q3 = ToId(q2, MaxId)
    OBVIOUS
  <1>7. q3 = Holder(b, "forward", {}, {}, {}, "unset", {}, no, no, no)
    <2>1. \A x : [from EXCEPT !.toId = x] = Between({}, {}, {cursor[f] + 1}, x)
      BY <1>0 DEF Between
    <2>2. [from EXCEPT !.toId = {MaxId}] = b
      BY <2>1
    <2> QED
      BY <1>5, <1>6, <2>2 DEF ToId, Holder
  <1>8. PICK q4 : q4 = Stream(q3, f)
    OBVIOUS
  <1>9. q4 = Holder(b, "forward", {}, {f}, {}, "unset", {}, no, no, no)
    BY <1>7, <1>8 DEF Stream, Holder
  <1>10. NextQuery(f) = IF f = AllStreams THEN q3 ELSE q4
    BY <1>2, <1>4, <1>6, <1>8 DEF NextQuery
  <1> QED
    BY <1>7, <1>9, <1>10

\* What BuildQuery makes of it.
LEMMA NextQueryFields ==
    ASSUME NEW f
    PROVE  /\ BuildQuery(NextQuery(f)).streams = (IF f = AllStreams THEN {} ELSE {f})
           /\ BuildQuery(NextQuery(f)).earlier
                = {Between({}, {}, {cursor[f] + 1}, {MaxId})}
           /\ BuildQuery(NextQuery(f)).events = {}
           /\ BuildQuery(NextQuery(f)).order = "forward"
           /\ NextQuery(f).limit = {}
  <1>1. PICK b, S : /\ b = Between({}, {}, {cursor[f] + 1}, {MaxId})
                    /\ S = IF f = AllStreams THEN {} ELSE {f}
    OBVIOUS
  <1>2. PICK no \in BOOLEAN : no = FALSE
    OBVIOUS
  <1>3. PICK q : q = NextQuery(f)
    OBVIOUS
  <1>4. q = Holder(b, "forward", {}, S, {}, "unset", {}, no, no, no)
    BY <1>1, <1>2, <1>3, NextQueryIs
  <1>5. /\ BuildQuery(q).streams = S /\ BuildQuery(q).earlier = {b}
        /\ BuildQuery(q).events = {} /\ BuildQuery(q).order = "forward"
        /\ q.limit = {}
    BY <1>4 DEF BuildQuery, Holder
  <1> QED
    BY <1>1, <1>3, <1>5

\* What the SELECT of a follower finds.
LEMMA FollowerSelects ==
    ASSUME WellFormed, FollowersTyped, NEW f \in Followers
    PROVE  Selected(NextQuery(f)) = Unread(f)
  <1>1. cursor[f] \in Nat
    BY ReaderAssumption DEF FollowersTyped
  <1>2. \A r \in rows : r.id \in Nat /\ r.id <= MaxId
    <2>1. \A r \in rows : r.id \in 1..lastId /\ lastId \in 0..MaxId
      BY DEF WellFormed, DrawnUpTo
    <2> QED
      BY <2>1, ReaderAssumption
  <1>3. PICK b : b = Between({}, {}, {cursor[f] + 1}, {MaxId})
    OBVIOUS
  <1>4. /\ b.fromTime = {} /\ b.toTime = {}
        /\ b.fromId = {cursor[f] + 1} /\ b.toId = {MaxId}
    BY <1>3 DEF Between
  <1>5. ASSUME NEW r \in rows
        PROVE  InTime(b, r) /\ (InIds(b, r) <=> cursor[f] < r.id)
    <2>1. InIds(b, r) <=> cursor[f] + 1 <= r.id /\ r.id <= MaxId
      BY <1>4 DEF InIds
    <2>2. r.id \in Nat /\ r.id <= MaxId
      BY <1>2
    <2>3. cursor[f] + 1 <= r.id <=> cursor[f] < r.id
      BY <1>1, <2>2
    <2> QED
      BY <1>4, <2>1, <2>2, <2>3 DEF InTime
  <1>6. PICK q : q = BuildQuery(NextQuery(f))
    OBVIOUS
  <1>7. /\ q.streams = (IF f = AllStreams THEN {} ELSE {f})
        /\ q.earlier = {b} /\ q.events = {}
    BY <1>3, <1>6, NextQueryFields
  <1>8. ASSUME NEW r \in rows
        PROVE  Matches(q, r) <=> (f = AllStreams \/ r.stream = f) /\ cursor[f] < r.id
    BY <1>5, <1>7 DEF Matches
  <1> QED
    BY <1>6, <1>8 DEF Selected, Unread

\* The rows a follower has read last.
LEMMA FollowerReads ==
    ASSUME WellFormed, FollowersTyped, IdsDistinct, NEW f \in Followers,
           NEW list \in Lists(NextQuery(f), Selected(NextQuery(f))), list # <<>>
    PROVE  /\ Range(list) = Unread(f)
           /\ list[Len(list)] \in Unread(f)
           /\ \A r \in Unread(f) : r.id <= list[Len(list)].id
  <1> DEFINE q == NextQuery(f)
             S == Unread(f)
             n == Cardinality(S)
  <1>1. IsFiniteSet(S) /\ S \subseteq Row
    <2>1. S \subseteq rows
      BY DEF Unread
    <2> QED
      BY <2>1, FS_Subset DEF WellFormed, DrawnUpTo
  <1>2. PICK long \in Sorted(q, S) : list = Cut(q, long)
    BY FollowerSelects DEF Lists
  <1>3. long \in SetToSeqs(S) /\ InOrder(q, long)
    BY <1>2 DEF Sorted
  <1>4. /\ n \in Nat
        /\ long \in [1..n -> S]
        /\ \A x \in S : \E i \in 1..n : long[i] = x
        /\ Len(long) = n
    BY <1>1, <1>3, ListOfSet
  <1>5. q.limit = {} /\ BuildQuery(q).order = "forward"
    BY NextQueryFields
  <1>6. list = long
    BY <1>2, <1>4, <1>5, WholeList
  <1> HIDE DEF q, n, S
  <1>8. /\ Len(list) = n /\ DOMAIN list = 1..n
        /\ \A i \in 1..n : list[i] = long[i]
    BY <1>4, <1>6
  <1>9. n # 0
    <2>1. list \in Seq(S)
      BY <1>4, <1>6
    <2>2. Len(list) # 0
      BY <2>1
    <2> QED
      BY <1>8, <2>2
  <1>10. n \in 1..n
    BY <1>4, <1>9
  <1>11. Range(list) = S
    BY <1>4, <1>8 DEF Range
  <1>12. \A i \in 1..n : i # n => i < n
    BY <1>4
  <1>13. \A i \in 1..n : i # n => long[i].id < long[n].id
    BY <1>3, <1>4, <1>5, <1>10, <1>12 DEF InOrder
  <1>14. \A i \in 1..n : long[i].id \in Nat
    BY <1>1, <1>4 DEF Row
  <1>15. \A i \in 1..n : long[i].id <= long[n].id
    BY <1>10, <1>13, <1>14
  <1>16. \A r \in S : r.id <= long[n].id
    BY <1>4, <1>15
  <1> QED
    BY <1>4, <1>8, <1>10, <1>11, <1>16 DEF S

\* A Poll adds to what the follower has given, and moves its cursor to the last row of it.
LEMMA PollEffect ==
    ASSUME WellFormed, FollowersTyped, IdsDistinct, NEW f \in Followers, Poll(f)
    PROVE  Polled(f)
  <1>1. PICK list \in Lists(NextQuery(f), Selected(NextQuery(f))) :
            /\ list # <<>>
            /\ cursor' = [cursor EXCEPT ![f] = list[Len(list)].id]
            /\ seen' = [seen EXCEPT ![f] = @ \cup Range(list)]
    BY DEF Poll
  <1>2. /\ Range(list) = Unread(f)
        /\ list[Len(list)] \in Unread(f)
        /\ \A r \in Unread(f) : r.id <= list[Len(list)].id
    BY <1>1, FollowerReads
  <1>3. list[Len(list)].id \in Nat
    BY <1>2, BoundedVersions DEF Unread
  <1> QED
    BY <1>1, <1>2, <1>3 DEF Polled, Poll

\* A step changes what followers have read only when one of them polls.
LEMMA FollowersStep ==
    ASSUME WellFormed, FollowersTyped, IdsDistinct, [Next]_vars
    PROVE  UNCHANGED followers \/ \E f \in Followers : Polled(f)
  <1>1. ASSUME NEW w \in Writers, \/ Begin(w) \/ StartInsert(w) \/ FinishInsert(w)
                                  \/ Commit(w) \/ Rollback(w)
        PROVE  UNCHANGED followers
    BY <1>1 DEF Begin, StartInsert, FinishInsert, Commit, Rollback
  <1>2. CASE DeleteStream \/ Tick \/ Build \/ Ask \/ NewReader
    BY <1>2 DEF DeleteStream, Tick, Build, Ask, NewReader
  <1>3. CASE UNCHANGED vars
    BY <1>3 DEF vars
  <1> QED
    BY <1>1, <1>2, <1>3, PollEffect DEF Next

\* Rows of a stream that is not deleted stay; a row that comes was in flight.
LEMMA RowsComeAndStay ==
    ASSUME Effect
    PROVE  /\ \A r \in rows : r.stream \notin Deletable => r \in rows'
           /\ \A r \in rows' : r \in rows \/ \E w \in Writers : r \in OpenRows(w)
           /\ lastId' = lastId \/ lastId' = lastId + 1
  <1>1. ASSUME NEW w \in Writers, Committed(w)
        PROVE  /\ \A r \in rows : r \in rows'
               /\ \A r \in rows' : r \in rows \/ \E d \in Writers : r \in OpenRows(d)
               /\ lastId' = lastId
    BY <1>1 DEF Committed
  <1>2. ASSUME NEW s \in Deletable, Deleted(s)
        PROVE  /\ \A r \in rows : r.stream \notin Deletable => r \in rows'
               /\ \A r \in rows' : r \in rows
               /\ lastId' = lastId
    BY <1>2 DEF Deleted
  <1>3. ASSUME Quiet \/ (\E w \in Writers, r \in Row : Started(w, r) \/ Finished(w, r))
                     \/ (\E w \in Writers : RolledBack(w))
        PROVE  rows' = rows /\ (lastId' = lastId \/ lastId' = lastId + 1)
    BY <1>3 DEF Quiet, Started, Finished, RolledBack, SameTables
  <1> QED
    BY <1>1, <1>2, <1>3 DEF Effect

\* A row in flight in a followed stream is behind every committed one.
LEMMA InFlightBehind ==
    ASSUME WellFormed, Apart, VersionsDistinct, NoGaps, IdsInOrder,
           NEW w \in Writers, NEW x \in OpenRows(w), NEW q \in rows,
           x.stream = q.stream, q.stream \in Kept
    PROVE  q.id < x.id
  <1>1. x \in Known /\ q \in Known /\ x \notin rows
    BY KnownRows DEF Apart
  <1>2. x.version \in Nat /\ q.version \in Nat /\ x.version \in 1..x.id
    BY <1>1, KnownAreRows
  <1>3. ASSUME x.version <= q.version PROVE FALSE
    <2>1. x.version \in 1..q.version
      BY <1>2, <1>3
    <2>2. PICK y \in rows : y.stream = q.stream /\ y.version = x.version
      BY <2>1 DEF NoGaps, DownClosed
    <2>3. y \in Known
      BY KnownRows
    <2>4. y = x
      BY <1>1, <2>2, <2>3 DEF VersionsDistinct
    <2> QED
      BY <1>1, <2>4
  <1>4. q.version < x.version
    BY <1>2, <1>3
  <1> QED
    BY <1>1, <1>4 DEF IdsInOrder

\* The writers leave what is said of followers true.
LEMMA WritersKeepFollowers ==
    ASSUME WellFormed, Apart, VersionsDistinct, NoGaps, IdsInOrder, FollowInv,
           Effect, UNCHANGED followers
    PROVE  FollowInv'
  <1> USE DEF FollowInv
  <1>1. cursor' = cursor /\ seen' = seen /\ overtaken' = overtaken
    BY DEF followers
  <1>2. lastId \in Nat /\ \A f \in Followers : cursor[f] \in Nat /\ cursor[f] <= lastId
    BY BoundedVersions, ReaderAssumption DEF FollowersTyped, CursorGiven
  <1>3. FollowersTyped'
    BY <1>1 DEF FollowersTyped
  <1>4. CursorGiven'
    BY <1>1, <1>2, RowsComeAndStay DEF CursorGiven
  <1>5. \A f \in Followers \cap Streams : f \in Kept
    BY ReaderAssumption DEF Kept
  <1>6. CursorStored'
    <2> SUFFICES ASSUME NEW f \in Followers \cap Streams, cursor[f] # 0
                 PROVE  \E r \in rows' : r.stream = f /\ r.id = cursor[f]
      BY <1>1 DEF CursorStored
    <2>1. PICK r \in rows : r.stream = f /\ r.id = cursor[f]
      BY DEF CursorStored
    <2>2. r \in rows'
      BY <1>5, <2>1, RowsComeAndStay DEF Kept
    <2> QED
      BY <2>1, <2>2
  <1>7. StreamFollowed'
    <2> SUFFICES ASSUME NEW f \in Followers \cap Streams, NEW r \in rows',
                        r.stream = f, r.id <= cursor[f]
                 PROVE  r \in seen[f]
      BY <1>1 DEF StreamFollowed
    <2>1. CASE r \in rows
      BY <2>1 DEF StreamFollowed
    <2>2. ASSUME NEW w \in Writers, r \in OpenRows(w) PROVE FALSE
      <3>1. r.id \in 1..lastId
        BY <2>2 DEF WellFormed, DrawnUpTo
      <3>2. cursor[f] # 0
        BY <1>2, <3>1
      <3>3. PICK q \in rows : q.stream = f /\ q.id = cursor[f]
        BY <3>2 DEF CursorStored
      <3>4. q.id < r.id
        BY <1>5, <2>2, <3>3, InFlightBehind
      <3> QED
        BY <1>2, <3>1, <3>3, <3>4
    <2> QED
      BY <2>1, <2>2, RowsComeAndStay
  <1>8. MissedKnown'
    <2> SUFFICES ASSUME NEW f \in Followers \ Streams, NEW r \in Given',
                        r.id <= cursor[f], r \notin seen[f]
                 PROVE  r.id \in overtaken
      BY <1>1 DEF MissedKnown
    <2>1. r.id # lastId + 1
      BY <1>2
    <2>2. r \in Given
      BY <2>1, KnownGrows DEF Started
    <2> QED
      BY <2>2 DEF MissedKnown
  <1> QED
    BY <1>3, <1>4, <1>6, <1>7, <1>8

\* So does a poll.
LEMMA PollKeepsFollowers ==
    ASSUME WellFormed, FollowInv, NEW f \in Followers, Polled(f)
    PROVE  FollowInv'
  <1> USE DEF FollowInv
  <1>1. PICK m \in Nat : /\ cursor' = [cursor EXCEPT ![f] = m]
                         /\ \E r \in Unread(f) : r.id = m
                         /\ \A r \in Unread(f) : r.id <= m
    BY DEF Polled
  <1>2. seen' = [seen EXCEPT ![f] = @ \cup Unread(f)]
    BY DEF Polled
  <1>3. /\ rows' = rows /\ lastId' = lastId
        /\ \A x : x \in Given' <=> x \in Given
    <2>1. rows' = rows /\ lastId' = lastId /\ open' = open
      BY DEF Polled, tables
    <2> QED
      BY <2>1 DEF Given, Known, InFlight, OpenRows, Drawn, DrawnBy
  <1>4. /\ cursor \in [Followers -> 0..MaxId] /\ seen \in [Followers -> SUBSET Row]
        /\ MaxId \in Nat /\ lastId \in 0..MaxId /\ lastId \in Nat
        /\ \A g \in Followers : cursor[g] \in Nat
    BY ReaderAssumption DEF FollowersTyped, WellFormed
  <1>5. PICK last \in rows : last \in Unread(f) /\ last.id = m
    BY <1>1 DEF Unread
  <1>6. m <= lastId /\ m \in 0..MaxId
    <2>1. last.id \in 1..lastId
      BY DEF WellFormed, DrawnUpTo
    <2> QED
      BY <1>4, <1>5, <2>1
  <1>7. /\ cursor'[f] = m /\ seen'[f] = seen[f] \cup Unread(f)
        /\ \A g \in Followers \ {f} : cursor'[g] = cursor[g] /\ seen'[g] = seen[g]
    BY <1>1, <1>2, <1>4
  <1>8. overtaken \subseteq overtaken' /\ overtaken' \subseteq 1..MaxId
    <2>1. \A x \in InFlight \cup Drawn : x.id \in 1..lastId
      BY InFlightRows DEF WellFormed, DrawnUpTo, Drawn
    <2>2. \A x \in InFlight \cup Drawn : x.id \in 1..MaxId
      BY <1>4, <2>1
    <2> QED
      BY <2>2 DEF Polled, FollowersTyped
  <1>9. FollowersTyped'
    <2>1. Unread(f) \in SUBSET Row
      BY DEF Unread, WellFormed, DrawnUpTo
    <2>2. cursor' \in [Followers -> 0..MaxId]
      BY <1>1, <1>4, <1>6
    <2>3. seen' \in [Followers -> SUBSET Row]
      BY <1>2, <1>4, <2>1
    <2> QED
      BY <1>8, <2>2, <2>3 DEF FollowersTyped
  <1>10. CursorGiven'
    BY <1>3, <1>6, <1>7 DEF CursorGiven
  <1>11. f \in Streams => f # AllStreams
    BY ReaderAssumption
  <1>12. CursorStored'
    BY <1>3, <1>5, <1>7, <1>11 DEF CursorStored, Unread
  <1>13. ASSUME NEW r \in rows, f = AllStreams \/ r.stream = f
         PROVE  r.id <= cursor[f] \/ r \in Unread(f)
    <2>1. r.id \in Nat
      BY BoundedVersions
    <2> QED
      BY <1>4, <1>13, <2>1 DEF Unread
  <1>14. StreamFollowed'
    <2> SUFFICES ASSUME NEW g \in Followers \cap Streams, NEW r \in rows,
                        r.stream = g, r.id <= cursor'[g]
                 PROVE  r \in seen'[g]
      BY <1>3 DEF StreamFollowed
    <2>1. CASE g = f
      BY <1>7, <1>13, <2>1 DEF StreamFollowed
    <2>2. CASE g # f
      BY <1>7, <2>2 DEF StreamFollowed
    <2> QED
      BY <2>1, <2>2
  <1>15. MissedKnown'
    <2> SUFFICES ASSUME NEW g \in Followers \ Streams, NEW r \in Given,
                        r.id <= cursor'[g], r \notin seen'[g]
                 PROVE  r.id \in overtaken'
      BY <1>3 DEF MissedKnown
    <2>1. CASE g # f
      BY <1>7, <1>8, <2>1 DEF MissedKnown
    <2>2. CASE g = f
      <3>1. f = AllStreams
        BY <2>2, ReaderAssumption
      <3>2. CASE r \in rows
        <4>1. r.id <= cursor[f] /\ r \notin seen[f]
          BY <1>7, <1>13, <2>2, <3>1, <3>2
        <4> QED
          BY <1>8, <2>2, <4>1 DEF MissedKnown
      <3>3. CASE r \in InFlight \cup Drawn
        BY <3>1, <3>3 DEF Polled
      <3> QED
        BY <3>2, <3>3 DEF Given, Known
    <2> QED
      BY <2>1, <2>2
  <1> QED
    BY <1>9, <1>10, <1>12, <1>14, <1>15

-----------------------------------------------------------------------------
(* The reader in hand                                                      *)

\* A reader with some of its fields changed is a reader.
LEMMA ChangedReader ==
    ASSUME NEW q \in Reader
    PROVE  /\ \A x \in Bounds : [q EXCEPT !.bounds = x] \in Reader
           /\ \A x \in Directions : [q EXCEPT !.direction = x] \in Reader
           /\ \A x \in Optional(Limits) : [q EXCEPT !.limit = x] \in Reader
           /\ \A x \in SUBSET Streams : [q EXCEPT !.streams = x] \in Reader
           /\ \A x \in SUBSET SUBSET Nat : [q EXCEPT !.events = x] \in Reader
           /\ \A x \in BOOLEAN : /\ [q EXCEPT !.counted = x] \in Reader
                                /\ [q EXCEPT !.failed = x] \in Reader
           /\ \A x, y \in BOOLEAN : [q EXCEPT !.joined = x, !.failed = y] \in Reader
           /\ \A x \in SUBSET Bounds, y \in Directions :
                [q EXCEPT !.earlier = x, !.order = y] \in Reader
           /\ q.bounds \in Bounds /\ q.direction \in Directions
           /\ q.limit \in Optional(Limits) /\ q.streams \in SUBSET Streams
           /\ q.earlier \in SUBSET Bounds /\ q.order \in Directions
           /\ q.events \in SUBSET SUBSET Nat
           /\ q.joined \in BOOLEAN /\ q.failed \in BOOLEAN
  <1> DEFINE A == Bounds
             B == Directions
             C == Optional(Limits)
             D == SUBSET Streams
             E == SUBSET Bounds
             F == SUBSET SUBSET Nat
             G == BOOLEAN
             R == [bounds : A, direction : B, limit : C, streams : D, earlier : E,
                   order : B, events : F, counted : G, joined : G, failed : G]
  <1>1. R = Reader
    BY DEF Reader
  <1> HIDE DEF A, B, C, D, E, F, G
  <1>2. /\ \A x \in A : [q EXCEPT !.bounds = x] \in R
        /\ \A x \in B : [q EXCEPT !.direction = x] \in R
        /\ \A x \in C : [q EXCEPT !.limit = x] \in R
    BY <1>1
  <1>3. /\ \A x \in D : [q EXCEPT !.streams = x] \in R
        /\ \A x \in F : [q EXCEPT !.events = x] \in R
    BY <1>1
  <1>4. /\ \A x \in G : [q EXCEPT !.counted = x] \in R /\ [q EXCEPT !.failed = x] \in R
        /\ \A x, y \in G : [q EXCEPT !.joined = x, !.failed = y] \in R
    BY <1>1
  <1>5. \A x \in E, y \in B : [q EXCEPT !.earlier = x, !.order = y] \in R
    BY <1>1
  <1>6. /\ q.bounds \in A /\ q.direction \in B /\ q.limit \in C /\ q.streams \in D
        /\ q.earlier \in E /\ q.order \in B /\ q.events \in F
        /\ q.joined \in G /\ q.failed \in G
    BY <1>1
  <1> HIDE DEF R
  <1> QED
    BY <1>1, <1>2, <1>3, <1>4, <1>5, <1>6 DEF A, B, C, D, E, F, G

\* So are bounds with one of them changed.
LEMMA ChangedBounds ==
    ASSUME NEW b \in Bounds
    PROVE  /\ \A x \in Optional(TimeBounds) : [b EXCEPT !.fromTime = x] \in Bounds
           /\ \A x \in Optional(TimeBounds) : [b EXCEPT !.toTime = x] \in Bounds
           /\ \A x \in Optional(IdBounds) : [b EXCEPT !.fromId = x] \in Bounds
           /\ \A x \in Optional(IdBounds) : [b EXCEPT !.toId = x] \in Bounds
  BY DEF Bounds

\* A builder call leaves a reader.
LEMMA BuilderKeepsReader ==
    ASSUME NEW q \in Reader
    PROVE  /\ \A s \in Streams : Stream(q, s) \in Reader
           /\ \A t \in TimeBounds : FromTime(q, t) \in Reader /\ ToTime(q, t) \in Reader
           /\ \A i \in IdBounds : FromId(q, i) \in Reader /\ ToId(q, i) \in Reader
           /\ \A n \in Limits : Limit(q, n) \in Reader
           /\ Forward(q) \in Reader /\ Backward(q) \in Reader
  <1>0. q.bounds \in Bounds /\ q.streams \in SUBSET Streams
    BY ChangedReader
  <1>1. ASSUME NEW s \in Streams PROVE Stream(q, s) \in Reader
    <2>1. q.streams \cup {s} \in SUBSET Streams
      BY <1>0
    <2> QED
      BY <2>1, ChangedReader DEF Stream
  <1>2. ASSUME NEW t \in TimeBounds PROVE FromTime(q, t) \in Reader /\ ToTime(q, t) \in Reader
    <2>1. {t} \in Optional(TimeBounds)
      BY DEF Optional
    <2>2. PICK b \in Bounds : b = [q.bounds EXCEPT !.fromTime = {t}]
      BY <1>0, <2>1, ChangedBounds
    <2>3. PICK c \in Bounds : c = [q.bounds EXCEPT !.toTime = {t}]
      BY <1>0, <2>1, ChangedBounds
    <2>4. FromTime(q, t) = [q EXCEPT !.bounds = b] /\ ToTime(q, t) = [q EXCEPT !.bounds = c]
      BY <2>2, <2>3 DEF FromTime, ToTime
    <2> QED
      BY <2>4, ChangedReader
  <1>3. ASSUME NEW i \in IdBounds PROVE FromId(q, i) \in Reader /\ ToId(q, i) \in Reader
    <2>1. {i} \in Optional(IdBounds)
      BY DEF Optional
    <2>2. PICK b \in Bounds : b = [q.bounds EXCEPT !.fromId = {i}]
      BY <1>0, <2>1, ChangedBounds
    <2>3. PICK c \in Bounds : c = [q.bounds EXCEPT !.toId = {i}]
      BY <1>0, <2>1, ChangedBounds
    <2>4. FromId(q, i) = [q EXCEPT !.bounds = b] /\ ToId(q, i) = [q EXCEPT !.bounds = c]
      BY <2>2, <2>3 DEF FromId, ToId
    <2> QED
      BY <2>4, ChangedReader
  <1>4. ASSUME NEW n \in Limits PROVE Limit(q, n) \in Reader
    <2>1. {n} \in Optional(Limits)
      BY DEF Optional
    <2> QED
      BY <2>1, ChangedReader DEF Limit
  <1>5. Forward(q) \in Reader /\ Backward(q) \in Reader
    <2>1. "forward" \in Directions /\ "backward" \in Directions
      BY DEF Directions
    <2> QED
      BY <2>1, ChangedReader DEF Forward, Backward
  <1> QED
    BY <1>1, <1>2, <1>3, <1>4, <1>5

\* So does a part of a question.
LEMMA PartKeepsReader ==
    ASSUME NEW q \in Reader
    PROVE  /\ BuildQuery(q) \in Reader
           /\ Join(q) \in Reader
           /\ [q EXCEPT !.counted = TRUE] \in Reader
           /\ \A x \in SUBSET Nat : Among(q, x) \in Reader
           /\ \A x \in BOOLEAN : Fail(q, x) \in Reader
  <1>1. BuildQuery(q) \in Reader
    <2>1. PICK e \in SUBSET Bounds : e = q.earlier \cup {q.bounds}
      BY ChangedReader
    <2>2. PICK p \in Directions : p = IF q.order = "unset" THEN q.direction ELSE q.order
      BY ChangedReader
    <2>3. BuildQuery(q) = [q EXCEPT !.earlier = e, !.order = p]
      BY <2>1, <2>2 DEF BuildQuery
    <2>4. [q EXCEPT !.earlier = e, !.order = p] \in Reader
      BY ChangedReader, Zenon
    <2> QED
      BY <2>3, <2>4
  <1>2. PICK yes \in BOOLEAN : yes = TRUE
    OBVIOUS
  <1>3. Join(q) \in Reader
    <2>1. PICK j \in BOOLEAN : j = q.joined
      BY ChangedReader
    <2>2. Join(q) = [q EXCEPT !.joined = yes, !.failed = j]
      BY <1>2, <2>1 DEF Join
    <2> QED
      BY <2>2, ChangedReader
  <1>4. [q EXCEPT !.counted = TRUE] \in Reader
    <2>1. [q EXCEPT !.counted = yes] \in Reader
      BY ChangedReader
    <2> QED
      BY <1>2, <2>1
  <1>5. ASSUME NEW x \in SUBSET Nat PROVE Among(q, x) \in Reader
    <2>1. PICK e \in SUBSET SUBSET Nat : e = q.events \cup {x}
      BY ChangedReader
    <2>2. Among(q, x) = [q EXCEPT !.events = e]
      BY <2>1 DEF Among
    <2>3. [q EXCEPT !.events = e] \in Reader
      BY ChangedReader, Zenon
    <2> QED
      BY <2>2, <2>3
  <1>6. ASSUME NEW x \in BOOLEAN PROVE Fail(q, x) \in Reader
    <2>1. PICK y \in BOOLEAN : y = (q.failed \/ x)
      OBVIOUS
    <2>2. Fail(q, x) = [q EXCEPT !.failed = y]
      BY <2>1 DEF Fail
    <2> QED
      BY <2>2, ChangedReader
  <1> QED
    BY <1>1, <1>3, <1>4, <1>5, <1>6

\* So does a question.
LEMMA QuestionKeepsReader ==
    ASSUME NEW q \in Reader
    PROVE  /\ AfterCount(q) \in Reader /\ AfterToList(q) \in Reader
           /\ \A e \in Nat : AfterEvents(q, {e}) \in Reader /\ AfterEvent(q, e) \in Reader
           /\ \A s \in Streams : AfterLast(q, s) \in Reader
  <1>1. AfterCount(q) \in Reader /\ AfterToList(q) \in Reader
    <2>1. BuildQuery(q) \in Reader
      BY PartKeepsReader
    <2> QED
      BY <2>1, PartKeepsReader DEF AfterCount, AfterToList
  <1>2. ASSUME NEW e \in Nat PROVE AfterEvents(q, {e}) \in Reader /\ AfterEvent(q, e) \in Reader
    <2>1. PICK p : p = Join(BuildQuery(Among(q, {e})))
      OBVIOUS
    <2>2. p \in Reader
      <3>1. Among(q, {e}) \in Reader
        BY PartKeepsReader
      <3>2. BuildQuery(Among(q, {e})) \in Reader
        BY <3>1, PartKeepsReader
      <3> QED
        BY <2>1, <3>2, PartKeepsReader
    <2>3. Fail(p, Selected(Among(q, {e})) = {}) \in Reader
      BY <2>2, PartKeepsReader
    <2> QED
      BY <2>1, <2>2, <2>3 DEF AfterEvents, AfterEvent
  <1>3. ASSUME NEW s \in Streams PROVE AfterLast(q, s) \in Reader
    <2>1. PICK p : p = Join(Stream(q, s))
      OBVIOUS
    <2>2. p \in Reader
      <3>1. Stream(q, s) \in Reader
        BY BuilderKeepsReader
      <3> QED
        BY <2>1, <3>1, PartKeepsReader
    <2>3. Fail(p, LastEvent(q, s) = {}) \in Reader
      BY <2>2, PartKeepsReader
    <2> QED
      BY <2>1, <2>3 DEF AfterLast
  <1> QED
    BY <1>1, <1>2, <1>3

\* A builder call does not touch the bounds of earlier questions ...
LEMMA BuilderKeepsEarlier ==
    ASSUME NEW q \in Reader
    PROVE  /\ \A s : Stream(q, s).earlier = q.earlier
           /\ \A t : FromTime(q, t).earlier = q.earlier /\ ToTime(q, t).earlier = q.earlier
           /\ \A i : FromId(q, i).earlier = q.earlier /\ ToId(q, i).earlier = q.earlier
           /\ \A n : Limit(q, n).earlier = q.earlier
           /\ Forward(q).earlier = q.earlier /\ Backward(q).earlier = q.earlier
  <1> DEFINE F == {"bounds", "direction", "limit", "streams", "earlier", "order", "events",
                   "counted", "joined", "failed"}
  <1>1. DOMAIN q = F
    BY DEF Reader
  <1>2. PICK D : D = DOMAIN q
    OBVIOUS
  <1>3. q = [x \in D |-> q[x]] /\ "earlier" \in D
    BY <1>1, <1>2 DEF Reader
  <1> HIDE DEF F
  <1> QED
    BY <1>2, <1>3 DEF Stream, FromTime, ToTime, FromId, ToId, Limit, Forward, Backward

\* ... and a question adds the bounds of now, or nothing.
LEMMA QuestionAddsBounds ==
    ASSUME NEW q \in Reader
    PROVE  /\ AfterCount(q).earlier = q.earlier \cup {q.bounds}
           /\ AfterToList(q).earlier = q.earlier \cup {q.bounds}
           /\ \A ids : AfterEvents(q, ids).earlier = q.earlier \cup {q.bounds}
           /\ \A e : AfterEvent(q, e).earlier = q.earlier \cup {q.bounds}
           /\ \A s : AfterLast(q, s).earlier = q.earlier
  <1> DEFINE F == {"bounds", "direction", "limit", "streams", "earlier", "order", "events",
                   "counted", "joined", "failed"}
             Like(p) == /\ "bounds" \in DOMAIN p /\ "earlier" \in DOMAIN p
                        /\ DOMAIN p = F
  <1>1. Like(q)
    BY DEF Reader
  <1>2. ASSUME NEW p, Like(p)
        PROVE  /\ Like(BuildQuery(p)) /\ BuildQuery(p).earlier = p.earlier \cup {p.bounds}
               /\ Like(Join(p)) /\ Join(p).earlier = p.earlier
               /\ \A x : /\ Like(Among(p, x)) /\ Among(p, x).earlier = p.earlier
                         /\ Among(p, x).bounds = p.bounds
               /\ \A x : Fail(p, x).earlier = p.earlier
               /\ \A x : Like(Stream(p, x)) /\ Stream(p, x).earlier = p.earlier
               /\ [p EXCEPT !.counted = TRUE].earlier = p.earlier
    <2> HIDE DEF F
    <2> QED
      BY <1>2 DEF BuildQuery, Join, Among, Fail, Stream
  <1> HIDE DEF Like
  <1>3. AfterCount(q).earlier = q.earlier \cup {q.bounds}
    BY <1>1, <1>2 DEF AfterCount
  <1>4. AfterToList(q).earlier = q.earlier \cup {q.bounds}
    BY <1>1, <1>2 DEF AfterToList
  <1>5. ASSUME NEW ids
        PROVE  /\ AfterEvents(q, ids).earlier = q.earlier \cup {q.bounds}
               /\ \A x : Fail(AfterEvents(q, ids), x).earlier = q.earlier \cup {q.bounds}
    <2>1. PICK p : p = Among(q, ids)
      OBVIOUS
    <2>2. Like(p) /\ p.earlier = q.earlier /\ p.bounds = q.bounds
      BY <1>1, <1>2, <2>1
    <2>3. PICK r : r = Join(BuildQuery(p))
      OBVIOUS
    <2>4. Like(r) /\ r.earlier = p.earlier \cup {p.bounds}
      BY <1>2, <2>2, <2>3
    <2>5. \A x : Fail(r, x).earlier = r.earlier
      BY <1>2, <2>4
    <2> QED
      BY <2>1, <2>2, <2>3, <2>4, <2>5 DEF AfterEvents
  <1>7. ASSUME NEW e PROVE AfterEvent(q, e).earlier = q.earlier \cup {q.bounds}
    <2>1. PICK ids : ids = {e}
      OBVIOUS
    <2>2. AfterEvent(q, e) = Fail(AfterEvents(q, ids), Selected(Among(q, ids)) = {})
      BY <2>1 DEF AfterEvents, AfterEvent
    <2> QED
      BY <1>5, <2>2
  <1>6. ASSUME NEW s PROVE AfterLast(q, s).earlier = q.earlier
    <2>1. PICK r : r = Join(Stream(q, s))
      OBVIOUS
    <2>2. Like(r) /\ r.earlier = q.earlier
      BY <1>1, <1>2, <2>1
    <2>3. Fail(r, LastEvent(q, s) = {}).earlier = r.earlier
      BY <1>2, <2>2
    <2> QED
      BY <2>1, <2>2, <2>3 DEF AfterLast
  <1> QED
    BY <1>3, <1>4, <1>5, <1>6, <1>7

\* A new reader is a reader.
LEMMA NewIsReader == Read \in Reader
  <1> DEFINE C == Optional(Limits)
             T == Optional(TimeBounds)
             I == Optional(IdBounds)
             B == [fromTime : T, toTime : T, fromId : I, toId : I]
  <1>1. {} \in C /\ {} \in T /\ {} \in I
    BY DEF Optional
  <1>2. B = Bounds
    BY DEF Bounds
  <1> HIDE DEF C, T, I
  <1>3. [fromTime |-> {}, toTime |-> {}, fromId |-> {}, toId |-> {}] \in B
    BY <1>1
  <1>4. PICK b \in Bounds : b = [fromTime |-> {}, toTime |-> {}, fromId |-> {}, toId |-> {}]
    BY <1>2, <1>3
  <1>5. "unset" \in Directions
    BY DEF Directions
  <1>6. [bounds |-> b, direction |-> "unset", limit |-> {}, streams |-> {}, earlier |-> {},
         order |-> "unset", events |-> {}, counted |-> FALSE, joined |-> FALSE,
         failed |-> FALSE] \in Reader
    BY <1>1, <1>5 DEF Reader, C
  <1> QED
    BY <1>4, <1>6 DEF Read

\* No operation makes of the reader anything but a reader; the calls put to it
\* are counted, and the questions it has answered were not refused.
ReaderInv == /\ reader \in Reader /\ calls \in 0..MaxCalls
             /\ \A b \in reader.earlier : ~Refused(b)

\* Every step keeps the reader in its shape.
LEMMA StepReader == WellFormed /\ ReaderInv /\ [Next]_vars => ReaderInv'
  <1> SUFFICES ASSUME WellFormed, ReaderInv, [Next]_vars PROVE ReaderInv'
    OBVIOUS
  <1>0. /\ reader \in Reader /\ calls \in 0..MaxCalls /\ MaxCalls \in Nat
        /\ \A b \in reader.earlier : ~Refused(b)
    BY ReaderAssumption DEF ReaderInv
  <1>1. CASE Build
    <2>1. reader' \in Reader
      BY <1>0, <1>1, BuilderKeepsReader DEF Build
    <2>2. calls' \in 0..MaxCalls
      BY <1>0, <1>1 DEF Build
    <2>3. reader'.earlier = reader.earlier
      BY <1>0, <1>1, BuilderKeepsEarlier DEF Build
    <2> QED
      BY <1>0, <2>1, <2>2, <2>3 DEF ReaderInv
  <1>2. CASE Ask
    <2>1. \A e \in eventStore : e \in Nat
      BY BoundedVersions DEF WellFormed
    <2>2. reader' \in Reader
      BY <1>0, <1>2, <2>1, QuestionKeepsReader DEF Ask
    <2>3. calls' \in 0..MaxCalls
      BY <1>0, <1>2 DEF Ask
    <2>4. \/ reader'.earlier = reader.earlier
          \/ /\ reader'.earlier = reader.earlier \cup {reader.bounds}
             /\ Answered(reader)
      <3>1. PICK q \in Reader : q = reader
        BY <1>0
      <3>2. CASE /\ Answered(reader)
                 /\ reader' = AfterCount(reader) \/ reader' = AfterToList(reader)
        BY <3>1, <3>2, QuestionAddsBounds
      <3>3. ASSUME NEW e \in eventStore, Answered(reader),
                   \/ reader' = AfterEvents(reader, {e})
                   \/ reader' = AfterEvent(reader, e)
            PROVE  /\ reader'.earlier = reader.earlier \cup {reader.bounds}
                   /\ Answered(reader)
        BY <3>1, <3>3, QuestionAddsBounds
      <3>4. ASSUME NEW s \in Streams, reader' = AfterLast(reader, s)
            PROVE  reader'.earlier = reader.earlier
        BY <3>1, <3>4, QuestionAddsBounds
      <3> QED
        BY <1>2, <3>2, <3>3, <3>4 DEF Ask
    <2>5. \A b \in reader'.earlier : ~Refused(b)
      BY <1>0, <2>4 DEF Answered
    <2> QED
      BY <2>2, <2>3, <2>5 DEF ReaderInv
  <1>3. CASE NewReader
    <2>1. reader' = Read /\ calls' = 0
      BY <1>3 DEF NewReader
    <2>2. Read.earlier = {}
      BY DEF Read
    <2> QED
      BY <1>0, <2>1, <2>2, NewIsReader DEF ReaderInv
  <1>4. ASSUME UNCHANGED readers PROVE ReaderInv'
    BY <1>0, <1>4 DEF readers, ReaderInv
  <1>5. ASSUME NEW w \in Writers, \/ Begin(w) \/ StartInsert(w) \/ FinishInsert(w)
                                  \/ Commit(w) \/ Rollback(w)
        PROVE  UNCHANGED readers
    BY <1>5 DEF Begin, StartInsert, FinishInsert, Commit, Rollback
  <1>6. DeleteStream \/ Tick \/ UNCHANGED vars => UNCHANGED readers
    BY DEF DeleteStream, Tick, vars
  <1>7. ASSUME NEW f \in Followers, Poll(f) PROVE UNCHANGED readers
    BY <1>7 DEF Poll
  <1> QED
    BY <1>1, <1>2, <1>3, <1>4, <1>5, <1>6, <1>7 DEF Next

-----------------------------------------------------------------------------
(* The invariant                                                           *)

TableInv == /\ WellFormed /\ Apart /\ IdsDistinct /\ VersionsDistinct
            /\ DrawnBehindOwn /\ NoGaps /\ IdsInOrder /\ DrawnNext /\ EventInv

IInv == TableInv /\ FollowInv /\ ReaderInv

\* Empty tables, a fresh reader and followers at the start are as the invariant says.
LEMMA InitInvariant == Init => IInv
  <1> SUFFICES ASSUME Init PROVE IInv
    OBVIOUS
  <1>1. /\ rows = {} /\ eventStore = {} /\ lastId = 0 /\ clock = 1
        /\ open = [w \in Writers |-> {}] /\ overtaken = {}
        /\ cursor = [f \in Followers |-> 0] /\ seen = [f \in Followers |-> {}]
        /\ reader = Read /\ calls = 0
    BY DEF Init
  <1>2. \A w \in Writers : OpenRows(w) = {} /\ DrawnBy(w) = {}
    BY <1>1 DEF OpenRows, DrawnBy
  <1>3. Known = {} /\ Given = {}
    BY <1>1, <1>2 DEF Known, InFlight, Given, Drawn
  <1>4. lastId \in 0..MaxId /\ clock \in 1..MaxTime /\ calls \in 0..MaxCalls
    BY <1>1, ReaderAssumption
  <1>5. WellFormed
    BY <1>1, <1>2, <1>4, FS_EmptySet DEF WellFormed, DrawnUpTo
  <1>6. Apart /\ IdsDistinct /\ VersionsDistinct /\ IdsInOrder /\ DrawnBehindOwn /\ DrawnNext
    BY <1>2, <1>3 DEF Apart, IdsDistinct, VersionsDistinct, IdsInOrder, DrawnBehindOwn,
                      DrawnNext
  <1>7. NoGaps
    BY <1>1, <1>2 DEF NoGaps, DownClosed
  <1>8. EventInv
    BY <1>1 DEF EventInv
  <1>9. FollowersTyped
    BY <1>1, ReaderAssumption DEF FollowersTyped
  <1>10. CursorGiven /\ CursorStored
    BY <1>1 DEF CursorGiven, CursorStored
  <1>11. StreamFollowed /\ MissedKnown
    BY <1>1, <1>3 DEF StreamFollowed, MissedKnown
  <1>12. ReaderInv
    <2>1. Read.earlier = {}
      BY DEF Read
    <2> QED
      BY <1>1, <1>4, <2>1, NewIsReader DEF ReaderInv
  <1> QED
    BY <1>5, <1>6, <1>7, <1>8, <1>9, <1>10, <1>11, <1>12 DEF IInv, TableInv, FollowInv

\* Every step keeps the invariant.
LEMMA StepInvariant == IInv /\ [Next]_vars => IInv'
  <1> SUFFICES ASSUME IInv, [Next]_vars PROVE IInv'
    OBVIOUS
  <1>1. /\ WellFormed /\ Apart /\ IdsDistinct /\ VersionsDistinct /\ NoGaps
        /\ IdsInOrder /\ DrawnBehindOwn /\ DrawnNext
        /\ EventInv /\ FollowInv /\ FollowersTyped /\ ReaderInv
    BY DEF IInv, TableInv, FollowInv
  <1>2. Effect
    BY <1>1, StepEffect
  <1>3. WellFormed' /\ Apart' /\ IdsDistinct' /\ VersionsDistinct' /\ DrawnBehindOwn'
    BY <1>1, <1>2, StepWellFormed, StepApart, StepDistinct, StepDrawnBehindOwn
  <1>4. NoGaps' /\ IdsInOrder' /\ DrawnNext'
    BY <1>1, <1>2, StepNoGaps, StepIdsInOrder, StepDrawnNext
  <1>5. EventInv' /\ ReaderInv'
    BY <1>1, <1>2, StepEvents, StepReader
  <1>6. FollowInv'
    BY <1>1, <1>2, FollowersStep, WritersKeepFollowers, PollKeepsFollowers
  <1> QED
    BY <1>3, <1>4, <1>5, <1>6 DEF IInv, TableInv

\* Tables, followers and reader are in every reachable state as the invariant says,
\* whatever transactions are open.
THEOREM Invariant == Spec => []IInv
  BY InitInvariant, StepInvariant, PTL DEF Spec

\* Every variable keeps its type, and a writer never has two transactions.
THEOREM TypeCorrect == Spec => []TypeOK
  <1>1. ASSUME IInv PROVE TypeOK
    <2>1. WellFormed /\ FollowersTyped /\ ReaderInv
      BY <1>1 DEF IInv, TableInv, FollowInv
    <2>2. ASSUME NEW w \in Writers PROVE Cardinality(open[w]) <= 1
      <3>1. CASE open[w] = {}
        BY <3>1, FS_EmptySet
      <3>2. ASSUME NEW t \in open[w] PROVE Cardinality(open[w]) <= 1
        <4>1. open[w] = {} \cup {t}
          BY <2>1 DEF WellFormed
        <4>2. Cardinality({} \cup {t}) = 0 + 1
          BY FS_EmptySet, FS_AddElement
        <4> QED
          BY <4>1, <4>2
      <3> QED
        BY <3>1, <3>2
    <2>3. clock \in 0..MaxTime /\ eventStore \subseteq 1..MaxId
      BY <2>1, ReaderAssumption DEF WellFormed
    <2>4. rows \subseteq Row /\ \A w \in Writers : OpenRows(w) \cup DrawnBy(w) \subseteq Row
      BY <2>1 DEF WellFormed, DrawnUpTo
    <2> QED
      BY <2>1, <2>2, <2>3, <2>4 DEF WellFormed, FollowersTyped, ReaderInv, TypeOK
  <1> QED
    BY <1>1, Invariant, PTL

\* Whoever reads a stream behind the last id it has seen there reads every
\* event of it, whatever the other transactions are in the middle of.
THEOREM StreamIsFollowed == Spec => []StreamFollowed
  <1>1. IInv => StreamFollowed
    BY DEF IInv, FollowInv
  <1> QED
    BY <1>1, Invariant, PTL

\* Whoever reads all streams that way misses only rows whose ids had been drawn
\* by a transaction, of Append or of one Create of Link, that was still open
\* when it read on.
THEOREM OnlyOpenMissed == Spec => []MissedWereOpen
  <1>1. ASSUME IInv PROVE MissedWereOpen
    BY <1>1, KnownRows DEF IInv, FollowInv, MissedKnown, MissedWereOpen
  <1> QED
    BY <1>1, Invariant, PTL

-----------------------------------------------------------------------------
(* What the lookups answer                                                 *)

\* A fresh reader asked for one stream, possibly backward and with a limit.
Plain(q, s, d, l) ==
    \E no \in BOOLEAN, b \in {Between({}, {}, {}, {})} :
        /\ no = FALSE /\ b = Between({}, {}, {}, {})
        /\ q = Holder(b, d, l, {s}, {}, "unset", {}, no, no, no)

\* The readers the lookups make are of that kind.
LEMMA PlainReaders ==
    ASSUME NEW s
    PROVE  /\ Plain(Stream(Read, s), s, "unset", {})
           /\ Plain(Backward(Stream(Read, s)), s, "backward", {})
           /\ Plain(Limit(Backward(Stream(Read, s)), 1), s, "backward", {1})
  <1>1. PICK no \in BOOLEAN, b \in {Between({}, {}, {}, {})} :
            no = FALSE /\ b = Between({}, {}, {}, {})
    OBVIOUS
  <1>2. Read = Holder(b, "unset", {}, {}, {}, "unset", {}, no, no, no)
    BY <1>1, NewIs
  <1>3. PICK q1 : q1 = Stream(Read, s)
    OBVIOUS
  <1>4. q1 = Holder(b, "unset", {}, {s}, {}, "unset", {}, no, no, no)
    BY <1>2, <1>3 DEF Stream, Holder
  <1>5. PICK q2 : q2 = Backward(q1)
    OBVIOUS
  <1>6. q2 = Holder(b, "backward", {}, {s}, {}, "unset", {}, no, no, no)
    BY <1>4, <1>5 DEF Backward, Holder
  <1>7. PICK q3 : q3 = Limit(q2, 1)
    OBVIOUS
  <1>8. q3 = Holder(b, "backward", {1}, {s}, {}, "unset", {}, no, no, no)
    BY <1>6, <1>7 DEF Limit, Holder
  <1> QED
    BY <1>1, <1>3, <1>4, <1>5, <1>6, <1>7, <1>8 DEF Plain

\* Such a reader selects the rows of its stream, and of the event asked for.
LEMMA PlainSelects ==
    ASSUME NEW q, NEW s, NEW d, NEW l, Plain(q, s, d, l)
    PROVE  /\ Selected(q) = {r \in rows : r.stream = s}
           /\ \A e : Selected(Among(q, {e})) = RowsWith(s, e)
           /\ BuildQuery(q).order = d /\ q.limit = l
           /\ \A r : Message(q, r) = [event |-> r.event, version |-> r.version]
  <1>1. PICK no \in BOOLEAN, b \in {Between({}, {}, {}, {})} :
            /\ no = FALSE /\ b = Between({}, {}, {}, {})
            /\ q = Holder(b, d, l, {s}, {}, "unset", {}, no, no, no)
    BY DEF Plain
  <1>2. \A r : InTime(b, r) /\ InIds(b, r)
    BY <1>1 DEF InTime, InIds, Between
  <1>3. /\ BuildQuery(q).streams = {s} /\ BuildQuery(q).earlier = {b}
        /\ BuildQuery(q).events = {} /\ BuildQuery(q).order = d /\ q.limit = l
    BY <1>1 DEF BuildQuery, Holder
  <1>4. Selected(q) = {r \in rows : r.stream = s}
    BY <1>2, <1>3 DEF Selected, Matches
  <1>5. ASSUME NEW e PROVE Selected(Among(q, {e})) = RowsWith(s, e)
    <2>1. PICK E : E = {{e}}
      OBVIOUS
    <2>2. PICK p : p = Among(q, {e})
      OBVIOUS
    <2>3. p = Holder(b, d, l, {s}, {}, "unset", E, no, no, no)
      BY <1>1, <2>1, <2>2 DEF Among, Holder
    <2>4. /\ BuildQuery(p).streams = {s} /\ BuildQuery(p).earlier = {b}
          /\ BuildQuery(p).events = E
      BY <2>3 DEF BuildQuery, Holder
    <2>5. ASSUME NEW r \in rows
          PROVE  Matches(BuildQuery(p), r) <=> r.stream = s /\ r.event = e
      <3>1. {s} \subseteq {r.stream} <=> r.stream = s
        OBVIOUS
      <3>2. (\A F \in E : r.event \in F) <=> r.event = e
        BY <2>1
      <3> QED
        BY <1>2, <2>4, <3>1, <3>2 DEF Matches
    <2> QED
      BY <2>2, <2>5 DEF Selected, RowsWith
  <1>6. \A r : Message(q, r) = [event |-> r.event, version |-> r.version]
    BY <1>1 DEF Message, Holder
  <1> QED
    BY <1>3, <1>4, <1>5, <1>6

\* The version of the last event of a stream is the number of its events.
THEOREM LastCounts == Spec => []LastIsCount
  <1>1. ASSUME IInv, NEW s \in Streams \ Deletable
        PROVE  {m.version : m \in LastEvent(Read, s)} = {Count(Stream(Read, s))} \ {0}
    <2> DEFINE S == {r \in rows : r.stream = s}
               V == {r.version : r \in S}
               n == Cardinality(S)
    <2>1. WellFormed /\ VersionsDistinct /\ NoGaps
      BY <1>1 DEF IInv, TableInv
    <2>2. IsFiniteSet(S) /\ \A r \in S : r \in rows /\ r.version \in Nat \ {0}
      <3>1. S \subseteq rows
        OBVIOUS
      <3>2. \A r \in rows : r.version \in Nat \ {0}
        BY <2>1, BoundedVersions
      <3> QED
        BY <2>1, <3>1, <3>2, FS_Subset DEF WellFormed
    <2>3. \A r, q \in S : r.version = q.version => r = q
      BY <2>1 DEF VersionsDistinct, Known
    <2>4. IsFiniteSet(V) /\ Cardinality(V) = n
      <3> DEFINE f == [r \in S |-> r.version]
      <3>1. f \in Bijection(S, V)
        BY <2>3 DEF Bijection, Injection, Surjection, IsInjective
      <3>2. ExistsBijection(S, V)
        <4> HIDE DEF f, V, S
        <4> QED
          BY <3>1 DEF ExistsBijection
      <3> HIDE DEF f, V, S
      <3> QED
        BY <2>2, <3>2, FS_Bijection
    <2>5. V \in SUBSET (Nat \ {0})
      BY <2>2
    <2>6. \A v \in V : \A x \in 1..v : x \in V
      <3> SUFFICES ASSUME NEW r \in S, NEW x \in 1..r.version PROVE x \in V
        OBVIOUS
      <3>1. PICK y \in rows : y.stream = s /\ y.version = x
        BY <2>1 DEF NoGaps, DownClosed, Kept
      <3> QED
        BY <3>1
    <2>7. V = 1..n /\ n \in Nat
      <3>1. V = 1..Cardinality(V)
        <4> HIDE DEF V
        <4> QED
          BY <2>4, <2>5, <2>6, DownClosedInterval
      <3> QED
        BY <2>2, <2>4, <3>1, FS_CardinalityType
    <2>8. Count(Stream(Read, s)) = n
      <3>1. Selected(Stream(Read, s)) = S
        <4>1. Plain(Stream(Read, s), s, "unset", {})
          BY PlainReaders
        <4> QED
          BY <4>1, PlainSelects
      <3> QED
        BY <3>1 DEF Count
    <2>9. LastEvent(Read, s) = {Message(Read, r) : r \in Highest(S)}
      <3>1. PICK q : q = Stream(Read, s)
        OBVIOUS
      <3>2. Read.order = "unset" /\ q.streams = {s} /\ q.earlier = {} /\ q.events = {}
        BY <3>1 DEF Read, Stream
      <3>3. {r \in rows : Matches(q, r)} = S
        BY <3>2 DEF Matches
      <3> HIDE DEF S
      <3> QED
        BY <3>1, <3>2, <3>3 DEF LastEvent
    <2>10. \A r : Message(Read, r).version = r.version
      BY DEF Message, Read
    <2>11. ASSUME NEW x \in S
           PROVE  (\A y \in S : y.version <= x.version) <=> x.version = n
      <3>1. x.version \in 1..n /\ n \in 1..n
        <4>1. x.version \in 1..n
          BY <2>7
        <4> QED
          BY <2>7, <4>1
      <3>2. PICK z \in S : z.version = n
        BY <2>7, <3>1
      <3>3. \A y \in S : y.version \in 1..n
        BY <2>7
      <3>4. x.version = n => \A y \in S : y.version <= x.version
        BY <2>7, <3>3
      <3>5. (\A y \in S : y.version <= x.version) => x.version = n
        <4> SUFFICES ASSUME \A y \in S : y.version <= x.version
                     PROVE  x.version = n
          OBVIOUS
        <4>1. n <= x.version
          BY <3>2
        <4> QED
          BY <2>7, <3>1, <4>1
      <3> QED
        BY <3>4, <3>5
    <2>12. {m.version : m \in LastEvent(Read, s)}
              = {x.version : x \in {y \in S : y.version = n}}
      <3>1. Highest(S) = {y \in S : y.version = n}
        BY <2>11 DEF Highest
      <3> HIDE DEF S, n
      <3> QED
        BY <2>9, <2>10, <3>1
    <2>13. n # 0 => n \in V
      BY <2>7
    <2>14. {x.version : x \in {y \in S : y.version = n}} = {n} \ {0}
      <3>1. \A y \in S : y.version # 0
        BY <2>2
      <3>2. n # 0 => \E y \in S : y.version = n
        BY <2>13
      <3> HIDE DEF S, n
      <3> QED
        BY <3>1, <3>2
    <2> QED
      BY <2>8, <2>12, <2>14
  <1>2. IInv => LastIsCount
    BY <1>1 DEF LastIsCount
  <1> QED
    BY <1>2, Invariant, PTL

\* What is left of a row after a SELECT of its version.
LEMMA ScannedVersion ==
    ASSUME NEW r
    PROVE  Scanned(r, "version").version = r.version
  <1>1. "version" \in DOMAIN NoRow
    BY DEF NoRow
  <1>2. r["version"] = r.version
    OBVIOUS
  <1> QED
    BY <1>1, <1>2 DEF Scanned

\* A list a SELECT answers with is the beginning of an ordered list of all the
\* rows it selects.
LEMMA AnswerIs ==
    ASSUME NEW S, IsFiniteSet(S), NEW q, q.limit \subseteq Nat,
           NEW list \in Lists(q, S)
    PROVE  \E k \in 0..Cardinality(S), long \in [1..Cardinality(S) -> S] :
             /\ Cardinality(S) \in Nat
             /\ k = Allowed(q, Cardinality(S))
             /\ \A i, j \in 1..Cardinality(S) : long[i] = long[j] => i = j
             /\ \A x \in S : \E i \in 1..Cardinality(S) : long[i] = x
             /\ \A i, j \in 1..Cardinality(S) : i < j =>
                   /\ BuildQuery(q).order = "forward" => long[i].id < long[j].id
                   /\ BuildQuery(q).order = "backward" => long[i].id > long[j].id
             /\ list \in Seq(S) /\ Len(list) = k /\ DOMAIN list = 1..k
             /\ \A i \in 1..k : list[i] = long[i]
  <1> DEFINE n == Cardinality(S)
  <1>1. PICK long \in SetToSeqs(S) : InOrder(q, long) /\ list = Cut(q, long)
    BY DEF Lists, Sorted
  <1>2. /\ n \in Nat /\ long \in [1..n -> S] /\ Len(long) = n
        /\ \A i, j \in 1..n : long[i] = long[j] => i = j
        /\ \A x \in S : \E i \in 1..n : long[i] = x
    BY ListOfSet
  <1> HIDE DEF n
  <1>3. PICK k \in 0..n : /\ k = Allowed(q, n)
                          /\ Cut(q, long) \in Seq(S)
                          /\ Len(Cut(q, long)) = k
                          /\ DOMAIN Cut(q, long) = 1..k
                          /\ \A i \in 1..k : Cut(q, long)[i] = long[i]
    BY <1>2, CutOfList
  <1>4. \A i, j \in 1..n : i < j =>
             /\ BuildQuery(q).order = "forward" => long[i].id < long[j].id
             /\ BuildQuery(q).order = "backward" => long[i].id > long[j].id
    BY <1>1, <1>2 DEF InOrder
  <1> QED
    BY <1>1, <1>2, <1>3, <1>4 DEF n

\* The row of an event with the last version in a stream that is not deleted has
\* the last id.
LEMMA LastVersionLastId ==
    ASSUME WellFormed, IdsDistinct, VersionsDistinct, IdsInOrder, NEW s \in Kept, NEW e,
           NEW r \in RowsWith(s, e),
           \A y \in RowsWith(s, e) : y.version <= r.version
    PROVE  {x \in RowsWith(s, e) : \A y \in RowsWith(s, e) : y.id <= x.id} = {r}
  <1>1. \A x \in RowsWith(s, e) :
            /\ x \in Known /\ x.stream = s /\ x.event = e
            /\ x.id \in Nat /\ x.version \in Nat
    BY KnownRows, KnownAreRows DEF RowsWith
  <1>2. ASSUME NEW y \in RowsWith(s, e) PROVE y.id <= r.id
    <2>1. CASE y.version = r.version
      <3>1. y = r
        BY <1>1, <2>1 DEF VersionsDistinct
      <3> QED
        BY <1>1, <3>1
    <2>2. CASE y.version < r.version
      <3>1. y.id < r.id
        BY <1>1, <2>2 DEF IdsInOrder
      <3> QED
        BY <1>1, <3>1
    <2> QED
      BY <1>1, <2>1, <2>2
  <1>3. ASSUME NEW x \in RowsWith(s, e), \A y \in RowsWith(s, e) : y.id <= x.id
        PROVE  x = r
    <2>1. r.id <= x.id /\ x.id <= r.id
      BY <1>2, <1>3
    <2>2. x.id = r.id
      BY <1>1, <2>1
    <2> QED
      BY <1>1, <2>2 DEF IdsDistinct, Given
  <1> QED
    BY <1>2, <1>3

\* The answers about one event agree with one another.
LEMMA LookupsOfEvent ==
    ASSUME IInv, NEW e, NEW s \in Streams
    PROVE  LET q == Stream(Read, s)
           IN /\ IsEventInStream(s, e) <=> GetVersionInStream(s, e) # {}
              /\ IsEventInStream(s, e) <=> Event(q, e) # {}
              /\ s \notin Deletable =>
                    \A v \in GetVersionInStream(s, e) :
                        /\ Event(Backward(q), e) = {[event |-> e, version |-> v]}
                        /\ \A list \in Events(Limit(Backward(q), 1), {e}) :
                            list = <<[event |-> e, version |-> v]>>
  <1>0. WellFormed /\ IdsDistinct /\ VersionsDistinct /\ IdsInOrder
    BY DEF IInv, TableInv
  <1>1. PICK W : W = RowsWith(s, e)
    OBVIOUS
  <1>2. \A x \in W : /\ x \in rows /\ x.stream = s /\ x.event = e
                     /\ x.id \in Nat /\ x.version \in 1..lastId
    BY <1>0, <1>1, BoundedVersions DEF RowsWith
  <1>3. IsFiniteSet(W)
    <2>1. W \subseteq rows
      BY <1>2
    <2> QED
      BY <1>0, <2>1, FS_Subset DEF WellFormed
  <1>4. IsEventInStream(s, e) <=> W # {}
    <2>1. Cardinality(W) \in Nat /\ (Cardinality(W) = 0 <=> W = {})
      BY <1>3, FS_CardinalityType, FS_EmptySet
    <2> QED
      BY <1>1, <2>1 DEF IsEventInStream
  <1>5. GetVersionInStream(s, e)
            = {r.version : r \in {x \in W : \A y \in W : y.version <= x.version}}
    BY <1>1, ScannedVersion DEF GetVersionInStream, Highest
  <1>6. W # {} => \E x \in W : \A y \in W : y.version <= x.version
    <2> SUFFICES ASSUME W # {} PROVE \E x \in W : \A y \in W : y.version <= x.version
      OBVIOUS
    <2> DEFINE V == {r.version : r \in W}
    <2>1. V \in SUBSET (0..lastId) /\ V # {} /\ lastId \in Nat
      BY <1>0, <1>2, BoundedVersions
    <2>2. PICK m \in V : \A v \in V : v <= m
      <3> HIDE DEF V
      <3> QED
        BY <2>1, LargestNumber
    <2> QED
      BY <2>2
  <1>7. Event(Stream(Read, s), e) # {} <=> W # {}
    <2>1. PICK q : q = Stream(Read, s)
      OBVIOUS
    <2>2. Selected(Among(q, {e})) = W /\ BuildQuery(q).order = "unset"
      <3>1. Plain(q, s, "unset", {})
        BY <2>1, PlainReaders
      <3> QED
        BY <1>1, <3>1, PlainSelects
    <2>3. Event(q, e)
            = {Message(q, r) : r \in {x \in W : \A y \in W : x.id <= y.id}}
      BY <2>2 DEF Event, First
    <2>4. W # {} => \E x \in W : \A y \in W : x.id <= y.id
      <3> SUFFICES ASSUME W # {} PROVE \E x \in W : \A y \in W : x.id <= y.id
        OBVIOUS
      <3> DEFINE I == {r.id : r \in W}
      <3>1. I \in SUBSET Nat /\ I # {}
        BY <1>2
      <3>2. PICK m \in I : \A i \in I : m <= i
        <4> HIDE DEF I
        <4> QED
          BY <3>1, LeastNumber
      <3> QED
        BY <3>2
    <2> QED
      BY <2>1, <2>3, <2>4
  <1>8. ASSUME s \notin Deletable, NEW v \in GetVersionInStream(s, e)
        PROVE  /\ Event(Backward(Stream(Read, s)), e) = {[event |-> e, version |-> v]}
               /\ \A list \in Events(Limit(Backward(Stream(Read, s)), 1), {e}) :
                    list = <<[event |-> e, version |-> v]>>
    <2>1. PICK r \in W : (\A y \in W : y.version <= r.version) /\ v = r.version
      BY <1>5, <1>8
    <2>2. {x \in W : \A y \in W : y.id <= x.id} = {r}
      BY <1>0, <1>1, <1>8, <2>1, LastVersionLastId DEF Kept
    <2>3. PICK m : m = [event |-> e, version |-> v]
      OBVIOUS
    <2>4. ASSUME NEW q, NEW d, NEW l, Plain(q, s, d, l) PROVE Message(q, r) = m
      BY <1>2, <2>1, <2>3, <2>4, PlainSelects
    <2>5. Event(Backward(Stream(Read, s)), e) = {m}
      <3>1. PICK q : q = Backward(Stream(Read, s))
        OBVIOUS
      <3>2. /\ Selected(Among(q, {e})) = W /\ BuildQuery(q).order = "backward"
            /\ Message(q, r) = m
        <4>1. Plain(q, s, "backward", {})
          BY <3>1, PlainReaders
        <4> QED
          BY <1>1, <2>4, <4>1, PlainSelects
      <3>3. Event(q, e) = {Message(q, x) : x \in {y \in W : \A z \in W : z.id <= y.id}}
        BY <3>2 DEF Event, First
      <3> QED
        BY <2>2, <3>1, <3>2, <3>3
    <2>6. ASSUME NEW list \in Events(Limit(Backward(Stream(Read, s)), 1), {e})
          PROVE  list = <<m>>
      <3>1. PICK q : q = Limit(Backward(Stream(Read, s)), 1)
        OBVIOUS
      <3>2. /\ q.limit = {1} /\ BuildQuery(q).order = "backward"
            /\ Selected(Among(q, {e})) = W /\ Message(q, r) = m
        <4>1. Plain(q, s, "backward", {1})
          BY <3>1, PlainReaders
        <4> QED
          BY <1>1, <2>4, <4>1, PlainSelects
      <3>3. PICK ans \in Lists(q, W) : list = Messages(q, ans)
        BY <2>6, <3>1, <3>2 DEF Events
      <3> DEFINE n == Cardinality(W)
      <3>5. PICK k \in 0..n, long \in [1..n -> W] :
              /\ n \in Nat
              /\ k = Allowed(q, n)
              /\ \A i, j \in 1..n : long[i] = long[j] => i = j
              /\ \A x \in W : \E i \in 1..n : long[i] = x
              /\ \A i, j \in 1..n : i < j =>
                   /\ BuildQuery(q).order = "forward" => long[i].id < long[j].id
                   /\ BuildQuery(q).order = "backward" => long[i].id > long[j].id
              /\ ans \in Seq(W) /\ Len(ans) = k /\ DOMAIN ans = 1..k
              /\ \A i \in 1..k : ans[i] = long[i]
        <4>1. q.limit \subseteq Nat
          BY <3>2
        <4> QED
          BY <1>3, <4>1, AnswerIs
      <3> HIDE DEF n
      <3>6. n >= 1 /\ 1 \in 1..n
        <4>1. PICK i \in 1..n : long[i] = r
          BY <2>1, <3>5
        <4> QED
          BY <3>5, <4>1
      <3>7. k = 1
        <4>1. k = n \/ k = 1
          BY <3>2, <3>5, AllowedIs
        <4>2. k <= 1
          BY <3>2, <3>5, AllowedIs
        <4> QED
          BY <3>5, <3>6, <4>1, <4>2
      <3>8. ans[1] = long[1] /\ long[1] \in W
        BY <3>5, <3>6, <3>7
      <3>9. long[1] = r
        <4>1. ASSUME NEW y \in W PROVE y.id <= long[1].id
          <5>1. PICK i \in 1..n : long[i] = y
            BY <3>5
          <5>2. CASE i = 1
            BY <1>2, <5>1, <5>2
          <5>3. CASE i # 1
            <6>1. 1 < i
              BY <3>5, <5>3
            <6>2. long[1].id > y.id
              BY <3>2, <3>5, <3>6, <5>1, <6>1
            <6> QED
              BY <1>2, <3>8, <6>2
          <5> QED
            BY <5>2, <5>3
        <4> QED
          BY <2>2, <3>8, <4>1
      <3>10. list = [i \in 1..1 |-> m]
        BY <3>2, <3>3, <3>5, <3>7, <3>8, <3>9 DEF Messages
      <3> QED
        BY <3>10
    <2> QED
      BY <2>3, <2>5, <2>6
  <1> QED
    BY <1>4, <1>5, <1>6, <1>7, <1>8

\* HasEvent, IsEventInStream, GetVersionInStream, Event and Events, asked in one
\* state of the tables, never contradict one another about an event of a stream
\* that is not deleted; GetStreamIdOf is left out, for it answers nothing.
THEOREM LookupsNeverDiffer == Spec => []LookupsAgree
  <1>1. ASSUME IInv PROVE LookupsAgree
    <2>1. \A r \in rows : HasEvent(r.event)
      BY <1>1 DEF IInv, TableInv, EventInv, HasEvent
    <2> QED
      BY <1>1, <2>1, LookupsOfEvent DEF LookupsAgree
  <1> QED
    BY <1>1, Invariant, PTL


-----------------------------------------------------------------------------
(* What a reader answers                                                   *)

\* What BuildQuery puts on the statement, and in which order its rows come.
LEMMA BuiltQuery ==
    ASSUME NEW q \in Reader
    PROVE  /\ BuildQuery(q).streams = q.streams /\ BuildQuery(q).events = q.events
           /\ BuildQuery(q).earlier = q.earlier \cup {q.bounds}
           /\ BuildQuery(q).order = Asked(q)
  <1> DEFINE F == {"bounds", "direction", "limit", "streams", "earlier", "order", "events",
                   "counted", "joined", "failed"}
  <1>1. DOMAIN q = F
    BY DEF Reader
  <1>2. PICK D : D = DOMAIN q
    OBVIOUS
  <1>3. /\ "streams" \in D /\ "events" \in D /\ "earlier" \in D /\ "order" \in D
        /\ DOMAIN q = D
    BY <1>1, <1>2
  <1> HIDE DEF F
  <1> QED
    BY <1>3 DEF BuildQuery, Asked

\* BuildQuery selects the rows that are wanted, for the bounds it does justice to.
LEMMA SelectsWanted ==
    ASSUME NEW q \in Reader, Answered(q), \A b \in q.earlier : ~Refused(b),
           \A b \in q.earlier \cup {q.bounds} : Supported(b)
    PROVE  Selected(q) = Wanted(q)
  <1>1. ASSUME NEW b \in q.earlier \cup {q.bounds}, NEW r
        PROVE  InTime(b, r) /\ InIds(b, r) <=> Within(b, r)
    <2>1. ~Refused(b) /\ Supported(b)
      BY DEF Answered
    <2>2. /\ b.toId # {} => b.fromId # {}
          /\ b.fromId # {} => b.toId # {} \/ b.fromTime # {}
      BY <2>1 DEF Refused, Supported
    <2>3. InIds(b, r) <=> /\ \A i \in b.fromId : i <= r.id
                          /\ \A i \in b.toId : r.id <= i
      BY <2>2 DEF InIds
    <2> QED
      BY <2>3 DEF InTime, Within
  <1>2. ASSUME NEW r
        PROVE  q.streams \subseteq {r.stream} <=> \A s \in q.streams : r.stream = s
    OBVIOUS
  <1>3. PICK p : p = BuildQuery(q)
    OBVIOUS
  <1>4. /\ p.streams = q.streams /\ p.events = q.events
        /\ p.earlier = q.earlier \cup {q.bounds}
    BY <1>3, BuiltQuery
  <1>5. ASSUME NEW r \in rows
        PROVE  Matches(p, r) <=> /\ \A s \in q.streams : r.stream = s
                                 /\ \A b \in q.earlier \cup {q.bounds} : Within(b, r)
                                 /\ \A E \in q.events : r.event \in E
    BY <1>1, <1>2, <1>4 DEF Matches
  <1> QED
    BY <1>3, <1>5 DEF Selected, Wanted

\* A list that names n different rows has n.
LEMMA RangeOfList ==
    ASSUME NEW k \in Nat, NEW list, DOMAIN list = 1..k, NEW S,
           \A i \in 1..k : list[i] \in S,
           \A i, j \in 1..k : list[i] = list[j] => i = j
    PROVE  Range(list) \subseteq S /\ Cardinality(Range(list)) = k
  <1> DEFINE f == [i \in 1..k |-> list[i]]
             T == Range(list)
  <1>1. f \in Surjection(1..k, T) /\ f \in Injection(1..k, T)
    BY DEF Surjection, Injection, IsInjective, Range
  <1>2. T \subseteq S
    BY DEF Range
  <1>3. k \in Int /\ 1 \in Int
    OBVIOUS
  <1> HIDE DEF f, T
  <1>4. IsFiniteSet(1..k) /\ Cardinality(1..k) = k
    BY <1>3, FS_Interval
  <1>5. Cardinality(T) = Cardinality(1..k)
    BY <1>1, <1>4, FS_Surjection
  <1> QED
    BY <1>2, <1>4, <1>5 DEF T

\* In one stream that is not deleted rows with larger ids have later versions.
LEMMA LaterIdLaterVersion ==
    ASSUME WellFormed, VersionsDistinct, IdsInOrder, NEW r \in rows, NEW q \in rows,
           r.id < q.id, r.stream = q.stream, r.stream \notin Deletable
    PROVE  r.version < q.version
  <1>1. r \in Known /\ q \in Known
    BY DEF Known
  <1>2. /\ r.id \in Nat /\ q.id \in Nat /\ r.version \in Nat /\ q.version \in Nat
        /\ r.stream \in Streams
    BY <1>1, KnownAreRows DEF Row
  <1>3. CASE r.version = q.version
    <2>1. r = q
      BY <1>1, <1>3 DEF VersionsDistinct
    <2> QED
      BY <1>2, <2>1
  <1>4. CASE q.version < r.version
    <2>1. q.id < r.id
      BY <1>1, <1>2, <1>4 DEF IdsInOrder, Kept
    <2> QED
      BY <1>2, <2>1
  <1> QED
    BY <1>2, <1>3, <1>4

\* What one list says of the rows selected.
LEMMA AnswerIsRight ==
    ASSUME WellFormed, VersionsDistinct, IdsInOrder, NEW q \in Reader,
           NEW S \in SUBSET rows, NEW list \in Lists(q, S)
    PROVE  /\ Len(list) = Allowed(q, Cardinality(S))
           /\ Range(list) \subseteq S
           /\ Cardinality(Range(list)) = Len(list)
           /\ \A i, j \in DOMAIN list : i < j =>
                /\ Asked(q) = "forward" =>
                    /\ list[i].id < list[j].id
                    /\ list[i].stream = list[j].stream =>
                        list[i].version < list[j].version \/ list[i].stream \in Deletable
                /\ Asked(q) = "backward" => list[i].id > list[j].id
           /\ Asked(q) # "unset" =>
                \A r \in S \ Range(list), i \in DOMAIN list :
                    IF Asked(q) = "forward" THEN list[i].id < r.id
                                               ELSE list[i].id > r.id
  <1> DEFINE n == Cardinality(S)
  <1>1. /\ IsFiniteSet(S)
        /\ q.limit \subseteq Nat
        /\ Asked(q) \in {"unset", "forward", "backward"}
    <2>1. IsFiniteSet(S)
      BY FS_Subset DEF WellFormed
    <2>2. /\ q.limit \in Optional(Limits)
          /\ Asked(q) \in {"unset", "forward", "backward"}
      BY ChangedReader DEF Asked, Directions
    <2>3. \A L \in Optional(Limits) : L \subseteq Nat
      BY ReaderAssumption DEF Optional
    <2> QED
      BY <2>1, <2>2, <2>3
  <1>2. PICK k \in 0..n, long \in [1..n -> S] :
          /\ n \in Nat
          /\ k = Allowed(q, n)
          /\ \A i, j \in 1..n : long[i] = long[j] => i = j
          /\ \A x \in S : \E i \in 1..n : long[i] = x
          /\ \A i, j \in 1..n : i < j =>
                /\ Asked(q) = "forward" => long[i].id < long[j].id
                /\ Asked(q) = "backward" => long[i].id > long[j].id
          /\ list \in Seq(S) /\ Len(list) = k /\ DOMAIN list = 1..k
          /\ \A i \in 1..k : list[i] = long[i]
    BY <1>1, AnswerIs, BuiltQuery
  <1> HIDE DEF n
  <1>3. k \in Nat /\ \A i \in 1..k : i \in 1..n
    BY <1>2
  <1>4. /\ \A i \in 1..k : list[i] \in S
        /\ \A i, j \in 1..k : list[i] = list[j] => i = j
    BY <1>2, <1>3
  <1>5. Range(list) \subseteq S /\ Cardinality(Range(list)) = k
    BY <1>2, <1>3, <1>4, RangeOfList
  <1>6. \A i, j \in 1..k : i < j =>
            /\ Asked(q) = "forward" => list[i].id < list[j].id
            /\ Asked(q) = "backward" => list[i].id > list[j].id
    BY <1>2, <1>3
  <1>7. ASSUME NEW i \in 1..k, NEW j \in 1..k, i < j, Asked(q) = "forward",
               list[i].stream = list[j].stream, list[i].stream \notin Deletable
        PROVE  list[i].version < list[j].version
    BY <1>4, <1>6, <1>7, LaterIdLaterVersion
  <1>8. ASSUME NEW r \in S \ Range(list), NEW i \in 1..k
        PROVE  /\ Asked(q) = "forward" => list[i].id < r.id
               /\ Asked(q) = "backward" => list[i].id > r.id
    <2>1. PICK j \in 1..n : long[j] = r
      BY <1>2
    <2>2. j \notin 1..k
      <3>1. j \in 1..k => list[j] = r /\ j \in DOMAIN list
        BY <1>2, <2>1
      <3> QED
        BY <1>8, <3>1 DEF Range
    <2>3. i < j
      BY <1>2, <1>3, <2>1, <2>2
    <2> QED
      BY <1>2, <1>3, <2>1, <2>3
  <1>9. Len(list) = Allowed(q, n) /\ DOMAIN list = 1..k /\ Len(list) = k
    BY <1>2
  <1>10. \A i, j \in DOMAIN list : i < j =>
            /\ Asked(q) = "forward" =>
                /\ list[i].id < list[j].id
                /\ list[i].stream = list[j].stream =>
                    list[i].version < list[j].version \/ list[i].stream \in Deletable
            /\ Asked(q) = "backward" => list[i].id > list[j].id
    BY <1>6, <1>7, <1>9
  <1>11. Asked(q) # "unset" =>
            \A r \in S \ Range(list), i \in DOMAIN list :
                IF Asked(q) = "forward" THEN list[i].id < r.id
                                           ELSE list[i].id > r.id
    BY <1>1, <1>8, <1>9
  <1> QED
    BY <1>5, <1>9, <1>10, <1>11 DEF n

\* A reader that answers gives the committed events it is asked for and no other,
\* in the order and the number asked for: a fresh one those within its bounds,
\* one that is asked again those also within the bounds of every earlier question.
THEOREM ReaderIsRight == Spec => []AnswersTheQuestion
  <1>1. ASSUME IInv, Answered(reader),
               \A b \in reader.earlier \cup {reader.bounds} : Supported(b),
               NEW S, S = Wanted(reader)
        PROVE  /\ Selected(reader) = S
               /\ \A list \in Lists(reader, S) :
                /\ Len(list) = Allowed(reader, Cardinality(S))
                /\ Range(list) \subseteq S
                /\ Cardinality(Range(list)) = Len(list)
                /\ \A i, j \in DOMAIN list : i < j =>
                    /\ Asked(reader) = "forward" =>
                        /\ list[i].id < list[j].id
                        /\ list[i].stream = list[j].stream =>
                            list[i].version < list[j].version \/ list[i].stream \in Deletable
                    /\ Asked(reader) = "backward" => list[i].id > list[j].id
                /\ Asked(reader) # "unset" =>
                    \A r \in S \ Range(list), i \in DOMAIN list :
                        IF Asked(reader) = "forward" THEN list[i].id < r.id
                                                     ELSE list[i].id > r.id
    <2>1. /\ WellFormed /\ VersionsDistinct /\ IdsInOrder /\ reader \in Reader
          /\ \A b \in reader.earlier : ~Refused(b)
      BY <1>1 DEF IInv, TableInv, ReaderInv
    <2>2. Selected(reader) = S
      BY <1>1, <2>1, SelectsWanted
    <2>3. S \in SUBSET rows
      BY <1>1 DEF Wanted
    <2> QED
      BY <2>1, <2>2, <2>3, AnswerIsRight
  <1>2. IInv => AnswersTheQuestion
    <2> SUFFICES ASSUME IInv, Answered(reader),
                        \A b \in reader.earlier \cup {reader.bounds} : Supported(b)
                 PROVE  AnswersTheQuestion
      BY DEF AnswersTheQuestion
    <2>1. PICK S : S = Wanted(reader)
      OBVIOUS
    <2>2. Selected(reader) = S
      BY <1>1, <2>1
    <2> QED
      BY <1>1, <2>1, <2>2, Zenon DEF AnswersTheQuestion, Allowed, Count
  <1> QED
    BY <1>2, Invariant, PTL

\* The elements of a finite set can be listed by a key that tells them apart.
LEMMA ListByKey ==
    ASSUME NEW S, IsFiniteSet(S), NEW key \in [S -> Int],
           \A x, y \in S : key[x] = key[y] => x = y
    PROVE  \E list \in SetToSeqs(S) :
             \A i, j \in DOMAIN list : i < j => key[list[i]] < key[list[j]]
  <1> DEFINE n == Cardinality(S)
             Upto(x) == {y \in S : key[y] <= key[x]}
             rank == [x \in S |-> Cardinality(Upto(x))]
  <1>1. n \in Nat /\ n \in Int /\ 1 \in Int
    BY FS_CardinalityType
  <1>2. ASSUME NEW x \in S PROVE IsFiniteSet(Upto(x)) /\ rank[x] \in 1..n
    <2>1. Upto(x) \subseteq S /\ x \in Upto(x)
      OBVIOUS
    <2> HIDE DEF Upto
    <2>2. /\ IsFiniteSet(Upto(x)) /\ Cardinality(Upto(x)) \in Nat
          /\ Cardinality(Upto(x)) <= n
      BY <2>1, FS_Subset, FS_CardinalityType
    <2>3. Cardinality(Upto(x)) # 0
      BY <2>1, <2>2, FS_EmptySet
    <2>4. Cardinality(Upto(x)) \in 1..n
      BY <1>1, <2>2, <2>3
    <2> QED
      BY <2>2, <2>4
  <1>3. ASSUME NEW x \in S, NEW y \in S, key[x] < key[y] PROVE rank[x] < rank[y]
    <2>1. Upto(x) \subseteq Upto(y) /\ y \in Upto(y) /\ y \notin Upto(x)
      BY <1>3
    <2>2. IsFiniteSet(Upto(y))
      BY <1>2
    <2> HIDE DEF Upto
    <2>3. /\ Cardinality(Upto(x)) <= Cardinality(Upto(y))
          /\ Cardinality(Upto(x)) = Cardinality(Upto(y)) => Upto(x) = Upto(y)
      BY <2>1, <2>2, FS_Subset
    <2>4. Cardinality(Upto(x)) # Cardinality(Upto(y))
      BY <2>1, <2>3
    <2>5. Cardinality(Upto(x)) \in 1..n /\ Cardinality(Upto(y)) \in 1..n
      BY <1>2
    <2> QED
      BY <1>1, <2>3, <2>4, <2>5
  <1>4. rank \in [S -> 1..n]
    BY <1>2
  <1> HIDE DEF n, rank
  <1>5. \A x, y \in S : rank[x] = rank[y] => x = y
    <2> SUFFICES ASSUME NEW x \in S, NEW y \in S, rank[x] = rank[y] PROVE x = y
      OBVIOUS
    <2>1. ~(key[x] < key[y]) /\ ~(key[y] < key[x])
      BY <1>1, <1>3, <1>4
    <2>2. key[x] = key[y]
      BY <2>1
    <2> QED
      BY <2>2
  <1>6. IsFiniteSet(1..n) /\ Cardinality(1..n) = n
    BY <1>1, FS_Interval
  <1>7. rank \in Injection(S, 1..n)
    BY <1>4, <1>5 DEF Injection, IsInjective
  <1>8. rank \in Surjection(S, 1..n)
    BY <1>6, <1>7, FS_Injection DEF n
  <1>9. \A i \in 1..n : \E x \in S : rank[x] = i
    BY <1>8 DEF Surjection
  <1>10. PICK list : list = [i \in 1..n |-> CHOOSE x \in S : rank[x] = i]
    OBVIOUS
  <1>11. DOMAIN list = 1..n /\ \A i \in 1..n : list[i] \in S /\ rank[list[i]] = i
    BY <1>9, <1>10
  <1>12. list \in [1..n -> S]
    BY <1>10, <1>11
  <1>13. \A i, j \in 1..n : list[i] = list[j] => i = j
    BY <1>11
  <1>14. list \in SetToSeqs(S)
    BY <1>12, <1>13 DEF SetToSeqs, n
  <1>15. ASSUME NEW i \in 1..n, NEW j \in 1..n, i < j
         PROVE  key[list[i]] < key[list[j]]
    <2>1. /\ list[i] \in S /\ list[j] \in S
          /\ rank[list[i]] = i /\ rank[list[j]] = j
      BY <1>11
    <2>2. ~(key[list[j]] < key[list[i]])
      BY <1>1, <1>3, <1>15, <2>1
    <2>3. list[i] # list[j]
      BY <1>1, <1>13, <1>15
    <2>4. key[list[i]] # key[list[j]]
      BY <2>1, <2>3
    <2>5. key[list[i]] \in Int /\ key[list[j]] \in Int
      BY <2>1
    <2> QED
      BY <2>2, <2>4, <2>5
  <1> QED
    BY <1>11, <1>14, <1>15

\* A SELECT always has an answer: what is said of every list is said of some.
THEOREM SelectAnswers == Spec => [](Lists(reader, Selected(reader)) # {})
  <1>1. ASSUME IInv, NEW q, NEW S \in SUBSET rows PROVE Sorted(q, S) # {}
    <2>1. WellFormed /\ IdsDistinct
      BY <1>1 DEF IInv, TableInv
    <2>2. IsFiniteSet(S) /\ \A x \in S : x.id \in Int /\ -x.id \in Int
      BY <2>1, BoundedVersions, FS_Subset DEF WellFormed
    <2>3. \A x, y \in S : x.id = y.id => x = y
      BY <2>1 DEF IdsDistinct, Known, Given
    <2>4. CASE BuildQuery(q).order = "backward"
      <3> DEFINE key == [x \in S |-> -x.id]
      <3>1. key \in [S -> Int] /\ \A x, y \in S : key[x] = key[y] => x = y
        BY <2>2, <2>3
      <3>2. \A x \in S : key[x] = -x.id
        OBVIOUS
      <3> HIDE DEF key
      <3>3. PICK list \in SetToSeqs(S) :
               \A i, j \in DOMAIN list : i < j => key[list[i]] < key[list[j]]
        BY <2>2, <3>1, ListByKey
      <3>4. \A i \in DOMAIN list : list[i] \in S
        BY DEF SetToSeqs
      <3>5. \A i, j \in DOMAIN list : i < j => list[i].id > list[j].id
        BY <2>2, <3>2, <3>3, <3>4
      <3> QED
        BY <2>4, <3>3, <3>5 DEF Sorted, InOrder
    <2>5. CASE BuildQuery(q).order # "backward"
      <3> DEFINE key == [x \in S |-> x.id]
      <3>1. key \in [S -> Int] /\ \A x, y \in S : key[x] = key[y] => x = y
        BY <2>2, <2>3
      <3>2. \A x \in S : key[x] = x.id
        OBVIOUS
      <3> HIDE DEF key
      <3>3. PICK list \in SetToSeqs(S) :
               \A i, j \in DOMAIN list : i < j => key[list[i]] < key[list[j]]
        BY <2>2, <3>1, ListByKey
      <3>4. \A i \in DOMAIN list : list[i] \in S
        BY DEF SetToSeqs
      <3>5. \A i, j \in DOMAIN list : i < j => list[i].id < list[j].id
        BY <3>2, <3>3, <3>4
      <3> QED
        BY <2>5, <3>3, <3>5 DEF Sorted, InOrder
    <2> QED
      BY <2>4, <2>5
  <1>2. IInv => Lists(reader, Selected(reader)) # {}
    BY <1>1 DEF Lists, Selected
  <1> QED
    BY <1>2, Invariant, PTL

====

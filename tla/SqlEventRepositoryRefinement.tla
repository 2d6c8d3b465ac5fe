---------------------- MODULE SqlEventRepositoryRefinement ----------------------
(***************************************************************************)
(* Proof that SqlEventRepository implements EventLog when no stream is     *)
(* deleted: to a caller the tables, statements and transactions look like  *)
(* one sequence of events per stream, which an Append extends at one       *)
(* moment and a Link event by event.                                       *)
(***************************************************************************)
EXTENDS SqlEventRepositoryCallsProofs

USE DEF db

-----------------------------------------------------------------------------
(* The log of a stream, read off its rows.                                 *)

\* Rows that make up a log: finitely many, no version twice, none missing.
Solid(rows, s) ==
    /\ rows \subseteq Row
    /\ IsFiniteSet(rows)
    /\ NoGaps(rows, s)
    /\ \A r, q \in rows : SameKey(r, q) => r = q

\* LogOf for any rows: the rows R of one stream, or the rows of a whole table.
LogFrom(R) == [v \in 1..Cardinality(R) |->
                  (CHOOSE r \in R : r.version = v).event]
LogIn(rows, s) == LogFrom(RowsOf(rows, s))

\* A finite set of positive numbers that is closed downwards is an interval from 1.
LEMMA DownClosedInterval ==
    ASSUME NEW V \in SUBSET (Nat \ {0}), IsFiniteSet(V),
           \A v \in V : \A w \in 1..v : w \in V
    PROVE  V = 1..Cardinality(V)
  <1> DEFINE n == Cardinality(V)
  <1>1. n \in Nat
    BY FS_CardinalityType
  <1> HIDE DEF n
  <1>2. ASSUME NEW v \in V, n < v PROVE FALSE
    <2>1. v \in Nat /\ v \in Int /\ 1 \in Int /\ v >= 1
      BY <1>1
    <2>2. Cardinality(1..v) = IF 1 > v THEN 0 ELSE v - 1 + 1
      BY <2>1, FS_Interval
    <2>3. Cardinality(1..v) = v
      BY <2>1, <2>2
    <2>4. 1..v \in SUBSET V
      BY <1>2
    <2>5. Cardinality(1..v) <= Cardinality(V)
      BY <2>4, FS_Subset
    <2> QED
      BY <1>1, <1>2, <2>1, <2>3, <2>5 DEF n
  <1>3. V \in SUBSET (1..n)
    BY <1>1, <1>2
  <1>4. n \in Int /\ 1 \in Int
    BY <1>1
  <1>5. /\ IsFiniteSet(1..n)
        /\ Cardinality(1..n) = IF 1 > n THEN 0 ELSE n - 1 + 1
    BY <1>4, FS_Interval
  <1>6. Cardinality(1..n) = Cardinality(V)
    BY <1>1, <1>5 DEF n
  <1>7. 1..n = V
    BY <1>3, <1>5, <1>6, FS_Subset
  <1> QED
    BY <1>7 DEF n

\* The versions of solid rows are 1, 2, ..., n for n rows, and the log has at
\* every version the event of its row.
LEMMA LogIs ==
    ASSUME NEW rows, NEW s, Solid(rows, s)
    PROVE  /\ Cardinality(RowsOf(rows, s)) \in Nat
           /\ Versions(rows, s) = 1..Cardinality(RowsOf(rows, s))
           /\ LogIn(rows, s) \in Seq(EventId)
           /\ Len(LogIn(rows, s)) = Cardinality(RowsOf(rows, s))
           /\ \A r \in RowsOf(rows, s) : LogIn(rows, s)[r.version] = r.event
  <1> DEFINE R == RowsOf(rows, s)
             V == Versions(rows, s)
             n == Cardinality(R)
             f == [r \in R |-> r.version]
  <1>1. R \in SUBSET rows /\ R \subseteq Row /\ IsFiniteSet(rows)
    BY DEF RowsOf, Solid
  <1>2. IsFiniteSet(R)
    BY <1>1, FS_Subset
  <1>3. V \in SUBSET (Nat \ {0})
    BY <1>1 DEF Versions, Row
  <1>4. \A r, q \in R : r.version = q.version => r = q
    BY DEF RowsOf, Solid, SameKey
  <1>5. f \in Bijection(R, V)
    <2>1. f \in [R -> V]
      BY DEF Versions
    <2>2. \A r, q \in R : f[r] = f[q] => r = q
      BY <1>4
    <2>3. \A v \in V : \E r \in R : f[r] = v
      BY DEF Versions
    <2> QED
      BY <2>1, <2>2, <2>3 DEF Bijection, Injection, Surjection, IsInjective
  <1>6. IsFiniteSet(V) /\ Cardinality(V) = n
    BY <1>2, <1>5, FS_Bijection DEF ExistsBijection
  <1>7. \A v \in V : \A w \in 1..v : w \in V
    BY DEF Solid, NoGaps, Versions
  <1>8. V = 1..n
    BY <1>3, <1>6, <1>7, DownClosedInterval
  <1>9. n \in Nat
    BY <1>2, FS_CardinalityType
  <1>10. ASSUME NEW v \in 1..n
         PROVE  (CHOOSE r \in R : r.version = v) \in R
                /\ (CHOOSE r \in R : r.version = v).version = v
    <2>1. \E r \in R : r.version = v
      BY <1>8 DEF Versions
    <2> QED
      BY <2>1
  <1>11. \A v \in 1..n : (CHOOSE r \in R : r.version = v).event \in EventId
    BY <1>1, <1>10 DEF Row
  <1>12. LogIn(rows, s) = [v \in 1..n |-> (CHOOSE r \in R : r.version = v).event]
    BY DEF LogIn, LogFrom
  <1>13. ASSUME NEW r \in R PROVE LogIn(rows, s)[r.version] = r.event
    <2>1. r.version \in 1..n
      BY <1>8 DEF Versions
    <2>2. (CHOOSE q \in R : q.version = r.version) = r
      BY <1>4, <1>10, <2>1
    <2> QED
      BY <1>12, <2>1, <2>2
  <1>14. LogIn(rows, s) \in Seq(EventId) /\ Len(LogIn(rows, s)) = n
    BY <1>9, <1>11, <1>12
  <1> QED
    BY <1>8, <1>9, <1>13, <1>14

\* What concatenation does, place by place.
LEMMA ConcatPlaces ==
    ASSUME NEW S, NEW a \in Seq(S), NEW b \in Seq(S)
    PROVE  /\ a \o b \in Seq(S)
           /\ Len(a \o b) = Len(a) + Len(b)
           /\ \A i \in 1..Len(a) : (a \o b)[i] = a[i]
           /\ \A i \in 1..Len(b) : (a \o b)[Len(a) + i] = b[i]
  OBVIOUS

\* Sequences of one length that agree at every place are equal.
LEMMA SamePlaces ==
    ASSUME NEW S, NEW a \in Seq(S), NEW b \in Seq(S), Len(a) = Len(b),
           \A i \in 1..Len(a) : a[i] = b[i]
    PROVE  a = b
  OBVIOUS

\* What more has on top of rows: the events ids, numbered on from n.
Extends(rows, more, s, ids, n) ==
    /\ Solid(rows, s) /\ Solid(more, s)
    /\ RowsOf(rows, s) \subseteq RowsOf(more, s)
    /\ ids \in Seq(EventId)
    /\ n \in Nat /\ n = Cardinality(RowsOf(rows, s))
    /\ \A i \in 1..Len(ids) : \E r \in RowsOf(more, s) :
           r.version = n + i /\ r.event = ids[i]
    /\ \A r \in RowsOf(more, s) :
           r \in RowsOf(rows, s) \/ r.version <= n + Len(ids)

\* Rows numbered on from the last version append their events to the log.
LEMMA LogExtends ==
    ASSUME NEW rows, NEW more, NEW s, NEW ids, NEW n, Extends(rows, more, s, ids, n)
    PROVE  LogIn(more, s) = LogIn(rows, s) \o ids
  <1> USE DEF Extends
  <1> DEFINE old == LogIn(rows, s)
             new == LogIn(more, s)
             m == Cardinality(RowsOf(more, s))
  <1>0. Len(ids) \in Nat
    OBVIOUS
  <1>1. /\ Versions(rows, s) = 1..n
        /\ old \in Seq(EventId) /\ Len(old) = n
        /\ \A r \in RowsOf(rows, s) : old[r.version] = r.event
    BY LogIs
  <1>2. /\ m \in Nat /\ Versions(more, s) = 1..m
        /\ new \in Seq(EventId) /\ Len(new) = m
        /\ \A r \in RowsOf(more, s) : new[r.version] = r.event
    BY LogIs
  <1> HIDE DEF old, new, m
  <1>3. m = n + Len(ids)
    <2>0. m \in Nat
      BY <1>2
    <2>1. n + Len(ids) <= m
      <3>1. CASE Len(ids) = 0 /\ n = 0
        BY <1>2, <3>1
      <3>2. CASE Len(ids) = 0 /\ n # 0
        <4>1. n \in Versions(rows, s)
          BY <1>1, <3>2
        <4>2. n \in Versions(more, s)
          BY <4>1 DEF Versions
        <4> QED
          BY <1>2, <3>2, <4>2
      <3>3. CASE Len(ids) # 0
        <4>1. Len(ids) \in 1..Len(ids)
          BY <1>0, <3>3
        <4>2. n + Len(ids) \in Versions(more, s)
          BY <4>1 DEF Versions
        <4> QED
          BY <1>2, <4>2
      <3> QED
        BY <3>1, <3>2, <3>3
    <2>2. m <= n + Len(ids)
      <3>1. CASE m = 0
        BY <1>0, <3>1
      <3>2. CASE m # 0
        <4>1. m \in Versions(more, s)
          BY <1>2, <3>2
        <4>2. PICK r \in RowsOf(more, s) : r.version = m
          BY <4>1 DEF Versions
        <4>3. CASE r \in RowsOf(rows, s)
          <5>1. m \in 1..n
            BY <1>1, <4>2, <4>3 DEF Versions
          <5> QED
            BY <1>0, <5>1
        <4>4. CASE r.version <= n + Len(ids)
          BY <4>2, <4>4
        <4> QED
          BY <4>3, <4>4
      <3> QED
        BY <3>1, <3>2
    <2> QED
      BY <1>0, <2>0, <2>1, <2>2
  <1>c. /\ old \o ids \in Seq(EventId)
        /\ Len(old \o ids) = n + Len(ids)
        /\ \A i \in 1..n : (old \o ids)[i] = old[i]
        /\ \A i \in 1..Len(ids) : (old \o ids)[n + i] = ids[i]
    <2>0. old \in Seq(EventId) /\ ids \in Seq(EventId)
      BY <1>1
    <2>1. Len(old) = n
      BY <1>1
    <2>2. /\ old \o ids \in Seq(EventId)
          /\ Len(old \o ids) = Len(old) + Len(ids)
          /\ \A i \in 1..Len(old) : (old \o ids)[i] = old[i]
          /\ \A i \in 1..Len(ids) : (old \o ids)[Len(old) + i] = ids[i]
      BY ONLY <2>0, ConcatPlaces
    <2> QED
      BY <2>1, <2>2
  <1>4. ASSUME NEW v \in 1..m PROVE new[v] = (old \o ids)[v]
    <2>1. CASE v <= n
      <3>1. v \in Versions(rows, s)
        BY <1>1, <1>2, <2>1
      <3>2. PICK r \in RowsOf(rows, s) : r.version = v
        BY <3>1 DEF Versions
      <3>3. new[v] = r.event /\ old[v] = r.event
        BY <1>1, <1>2, <3>2
      <3>4. (old \o ids)[v] = old[v]
        <4>1. v \in 1..n
          BY <1>2, <2>1
        <4> QED
          BY <1>c, <4>1
      <3> QED
        BY <3>3, <3>4
    <2>2. CASE v > n
      <3>1. v - n \in 1..Len(ids) /\ v = n + (v - n)
        BY <1>0, <1>2, <1>3, <2>2
      <3>2. PICK r \in RowsOf(more, s) : r.version = v /\ r.event = ids[v - n]
        BY <3>1
      <3>3. (old \o ids)[v] = ids[v - n]
        BY <1>c, <3>1
      <3> QED
        BY <1>2, <3>2, <3>3
    <2>3. v \in Int /\ n \in Int
      BY <1>2
    <2>4. v <= n \/ v > n
      BY <2>3
    <2> QED
      BY <2>1, <2>2, <2>4, Zenon
  <1>6. new = old \o ids
    BY <1>2, <1>3, <1>4, <1>c, SamePlaces
  <1> QED
    BY <1>6 DEF old, new

-----------------------------------------------------------------------------
(* The tables of a state, and their logs.                                  *)

\* The tables and every transaction have finitely many rows.
RowsFinite ==
    /\ IsFiniteSet(eventStream)
    /\ \A c \in Clients : IsFiniteSet(txStream[c])

RefInv == TypeOK /\ WriterInv /\ CallInv /\ RowsFinite

\* A step adds one row, or moves those of one transaction.
LEMMA StepRowsFinite ==
    ASSUME TypeOK, TxOwned, RowsFinite, [Next]_vars
    PROVE  RowsFinite'
  <1> USE DEF RowsFinite
  <1>1. CASE Quiet
    <2>1. IsFiniteSet(eventStream')
      BY <1>1, FS_Subset DEF Quiet
    <2>2. \A c \in Clients : IsFiniteSet(txStream'[c])
      BY <1>1, FS_EmptySet DEF Quiet
    <2> QED
      BY <2>1, <2>2
  <1>2. ASSUME NEW c \in Clients PROVE IsFiniteSet(inserting[c])
    <2>1. CASE inserting[c] = {}
      BY <2>1, FS_EmptySet
    <2>2. CASE inserting[c] # {}
      <3>0. PICK r : r \in inserting[c]
        BY <2>2
      <3>1. inserting[c] = {r}
        BY <3>0 DEF TxOwned
      <3>2. IsFiniteSet({})
        BY FS_EmptySet
      <3>3. IsFiniteSet({} \cup {r})
        BY <3>2, FS_AddElement
      <3> QED
        BY <3>1, <3>3
    <2> QED
      BY <2>1, <2>2
  <1>3. ASSUME NEW c \in Clients, Buffers(c) PROVE RowsFinite'
    <2>1. IsFiniteSet(txStream[c] \cup inserting[c])
      BY <1>2, FS_Union
    <2> QED
      BY <1>3, <2>1 DEF Buffers, TypeOK
  <1>4. ASSUME NEW c \in Clients, Autocommits(c) PROVE RowsFinite'
    <2>1. IsFiniteSet(eventStream \cup inserting[c])
      BY <1>2, FS_Union
    <2> QED
      BY <1>4, <2>1 DEF Autocommits
  <1>5. ASSUME NEW c \in Clients, Commits(c) PROVE RowsFinite'
    <2>1. IsFiniteSet(eventStream \cup txStream[c])
      BY FS_Union
    <2>2. IsFiniteSet({})
      BY FS_EmptySet
    <2> QED
      BY <1>5, <2>1, <2>2 DEF Commits, TypeOK
  <1> QED
    BY <1>1, <1>3, <1>4, <1>5, StepRows

\* The invariant of the refinement holds in every reachable state.
LEMMA RefInvariant == Spec => []RefInv
  <1>1. Init => RowsFinite
    BY FS_EmptySet DEF Init, RowsFinite
  <1>2. TypeOK /\ WriterInv /\ RowsFinite /\ [Next]_vars => RowsFinite'
    BY StepRowsFinite DEF WriterInv
  <1> QED
    BY <1>1, <1>2, TypeCorrect, WriterInvariant, CallInvariant, PTL
    DEF Spec, RefInv

\* The committed rows of a stream that is kept make up a log.
LEMMA CommittedSolid ==
    ASSUME RefInv, NEW s \in Kept
    PROVE  Solid(eventStream, s)
  BY DEF RefInv, RowsFinite, Solid, TypeOK, WriterInv, KeysUnique,
         VisibleContiguous

\* LogOf is the log of the committed rows.
LEMMA LogOfIs ==
    ASSUME RefInv, NEW s \in Kept
    PROVE  /\ LogOf(s) = LogIn(eventStream, s)
           /\ LogOf(s) \in Seq(EventId)
           /\ Len(LogOf(s)) = Cardinality(RowsOf(eventStream, s))
           /\ Versions(eventStream, s) = 1..Len(LogOf(s))
  <1>1. LogOf(s) = LogIn(eventStream, s)
    BY DEF LogOf, LogIn, LogFrom
  <1> QED
    BY <1>1, CommittedSolid, LogIs

\* The last version of a stream is the length of its log.
LEMMA LastIsLength ==
    ASSUME RefInv, NEW s \in Kept, NEW v, IsLastVersion(eventStream, s, v)
    PROVE  v = Len(LogOf(s))
  <1> DEFINE n == Len(LogOf(s))
  <1>1. n \in Nat /\ Versions(eventStream, s) = 1..n
    BY LogOfIs
  <1> HIDE DEF n
  <1>2. v \in {0} \cup 1..n /\ \A w \in 1..n : w <= v
    BY <1>1 DEF IsLastVersion
  <1>3. v = n
    BY <1>1, <1>2
  <1> QED
    BY <1>3 DEF n

-----------------------------------------------------------------------------
(* The steps of a client, as its requests of the log see them.             *)

ActiveOf(c) == IF pc[c] = "idle" THEN {}
               ELSE {[op |-> call[c].op, stream |-> call[c].stream,
                      ids |-> Remaining(c), expected |-> call[c].expected]}

\* A client that stands still keeps its request.
LEMMA StillActive ==
    ASSUME NEW d \in Clients, Still(d)
    PROVE  ActiveOf(d)' = ActiveOf(d)
  BY DEF Still, ActiveOf, Remaining

\* A call that returns ends the request, with the answer it returns.
LEMMA MapsEnd ==
    ASSUME TypeOK, NEW c \in Clients, NEW answer, pc'[c] = "idle",
           result' = [result EXCEPT ![c] = answer],
           \A d \in Clients \ {c} : Still(d)
    PROVE  Log!End(c, answer)
  <1>1. [d \in Clients |-> ActiveOf(d)']
            = [[d \in Clients |-> ActiveOf(d)] EXCEPT ![c] = {}]
    <2>1. \A d \in Clients : ActiveOf(d)' = IF d = c THEN {} ELSE ActiveOf(d)
      BY StillActive DEF ActiveOf
    <2> QED
      BY <2>1
  <1> QED
    BY <1>1 DEF Log!End, ActiveOf

-----------------------------------------------------------------------------
(* The ids a Link has left.                                                *)

\* Linking an event takes the first of the ids that are left.
LEMMA RestOf ==
    ASSUME NEW S, NEW ids \in Seq(S), NEW n \in Nat, n < Len(ids)
    PROVE  /\ SubSeq(ids, n + 1, Len(ids)) \in Seq(S)
           /\ SubSeq(ids, n + 1, Len(ids)) # <<>>
           /\ Head(SubSeq(ids, n + 1, Len(ids))) = ids[n + 1]
           /\ Tail(SubSeq(ids, n + 1, Len(ids))) = SubSeq(ids, n + 2, Len(ids))
  <1> DEFINE rest == SubSeq(ids, n + 1, Len(ids))
             fewer == SubSeq(ids, n + 2, Len(ids))
  <1>0. Len(ids) \in Nat
    OBVIOUS
  <1>1. /\ rest \in Seq(S) /\ Len(rest) = Len(ids) - n
        /\ \A i \in 1..(Len(ids) - n) : rest[i] = ids[n + i]
    OBVIOUS
  <1>2. /\ fewer \in Seq(S) /\ Len(fewer) = Len(ids) - n - 1
        /\ \A i \in 1..(Len(ids) - n - 1) : fewer[i] = ids[n + 1 + i]
    OBVIOUS
  <1> HIDE DEF rest, fewer
  <1>3. rest # <<>> /\ Head(rest) = ids[n + 1]
    BY <1>0, <1>1
  <1>4. Tail(rest) = fewer
    <2>1. /\ Tail(rest) \in Seq(S) /\ Len(Tail(rest)) = Len(ids) - n - 1
          /\ \A i \in 1..(Len(ids) - n - 1) : Tail(rest)[i] = rest[i + 1]
      BY <1>0, <1>1
    <2>2. \A i \in 1..(Len(ids) - n - 1) : Tail(rest)[i] = fewer[i]
      BY <1>0, <1>1, <1>2, <2>1
    <2> QED
      BY ONLY <1>2, <2>1, <2>2, SamePlaces
  <1> QED
    BY <1>1, <1>3, <1>4 DEF rest, fewer

\* Before the first event all ids are left, after the last one none.
LEMMA RestEnds ==
    ASSUME NEW S, NEW ids \in Seq(S)
    PROVE  /\ SubSeq(ids, 1, Len(ids)) = ids
           /\ SubSeq(ids, Len(ids) + 1, Len(ids)) = <<>>
  OBVIOUS

-----------------------------------------------------------------------------
(* Every step of the repository is a step of the log, or none.             *)

Abstracted == RefInv /\ Kept = StreamIds

\* What a call holds of its request, field by field.
LEMMA RequestFields ==
    ASSUME TypeOK, NEW c \in Clients, pc[c] # "idle"
    PROVE  \E r : /\ ActiveOf(c) = {r}
                  /\ r = [op |-> call[c].op, stream |-> call[c].stream,
                          ids |-> Remaining(c), expected |-> call[c].expected]
                  /\ r.op = call[c].op /\ r.stream = call[c].stream
                  /\ r.ids = Remaining(c) /\ r.expected = call[c].expected
  <1> DEFINE q == [op |-> call[c].op, stream |-> call[c].stream,
                   ids |-> Remaining(c), expected |-> call[c].expected]
  <1>1. ActiveOf(c) = {q}
    BY DEF ActiveOf
  <1>2. /\ q.op = call[c].op /\ q.stream = call[c].stream
        /\ q.ids = Remaining(c) /\ q.expected = call[c].expected
    OBVIOUS
  <1> QED
    BY <1>1, <1>2

\* A state with the same committed rows has the same logs.
LEMMA SameLogs ==
    ASSUME eventStream' = eventStream
    PROVE  [s \in StreamIds |-> LogOf(s)]' = [s \in StreamIds |-> LogOf(s)]
  BY DEF LogOf

\* Append and Link begin as requests.
LEMMA MapsBegin ==
    ASSUME Abstracted, TypeOK', NEW c \in Clients, AppendToStream(c) \/ Link(c)
    PROVE  Log!Begin(c)
  <1>0. TypeOK
    BY DEF Abstracted, RefInv
  <1>1. /\ pc[c] = "idle" /\ pc'[c] \in {"store", "check"} /\ done'[c] = 0
        /\ eventStream' = eventStream
        /\ call'[c].op \in {"append", "link"}
        /\ call'[c].ids \in Seq(EventId)
    BY <1>0, AppendBegins, LinkBegins
  <1>2. result' = [result EXCEPT ![c] = "pending"]
    BY DEF AppendToStream, Link, Begin
  <1>3. call'[c].op = "append" => call'[c].stream # EmptyStreamId
    <2>1. CASE AppendToStream(c)
      <3>1. PICK s \in StreamIds \ {EmptyStreamId}, n \in 0..MaxBatch,
                 e \in Expected :
              Begin(c, [op |-> "append", stream |-> s, expected |-> e,
                    ids |-> [i \in 1..n |-> <<calls + 1, i>>]], "store")
        BY <2>1 DEF AppendToStream
      <3> QED
        BY <1>0, <3>1 DEF Begin, TypeOK
    <2>2. CASE Link(c)
      BY <1>0, <2>2, LinkBegins
    <2> QED
      BY <2>1, <2>2
  <1>4. call'[c].stream \in StreamIds /\ call'[c].expected \in SUBSET Nat
    BY DEF TypeOK, Call
  <1>5. Remaining(c)' \in Seq(EventId)
    <2>1. CASE call'[c].op = "link"
      <3>1. SubSeq(call'[c].ids, 1, Len(call'[c].ids)) = call'[c].ids
        BY <1>1, RestEnds
      <3> QED
        BY <1>1, <2>1, <3>1 DEF Remaining
    <2>2. CASE call'[c].op # "link"
      BY <1>1, <2>2 DEF Remaining
    <2> QED
      BY <2>1, <2>2
  <1>6. PICK r : /\ ActiveOf(c)' = {r}
                 /\ r = [op |-> call'[c].op, stream |-> call'[c].stream,
                         ids |-> Remaining(c)', expected |-> call'[c].expected]
    BY <1>1 DEF ActiveOf
  <1>7. r \in Log!Request /\ (r.op = "append" => r.stream # EmptyStreamId)
    BY <1>1, <1>3, <1>4, <1>5, <1>6 DEF Log!Request
  <1>8. ActiveOf(c) = {}
    BY <1>1 DEF ActiveOf
  <1>9. [d \in Clients |-> ActiveOf(d)']
            = [[d \in Clients |-> ActiveOf(d)] EXCEPT ![c] = {r}]
    <2>1. \A d \in Clients : ActiveOf(d)' = IF d = c THEN {r} ELSE ActiveOf(d)
      BY <1>0, <1>6, StillActive, OthersStill DEF Own, Invoke
    <2> QED
      BY <2>1
  <1>10. [s \in StreamIds |-> LogOf(s)]' = [s \in StreamIds |-> LogOf(s)]
    BY <1>1, SameLogs
  <1>11. Log!BeginWith(c, r)
    BY <1>2, <1>7, <1>8, <1>9, <1>10 DEF Log!BeginWith, ActiveOf
  <1> QED
    BY <1>6, <1>11 DEF Log!Begin, ActiveOf

\* An early return is a rejected request.
LEMMA MapsReject ==
    ASSUME Abstracted, NEW c \in Clients, Reject(c)
    PROVE  Log!Reject(c)
  <1>0. TypeOK
    BY DEF Abstracted, RefInv
  <1>1. /\ pc[c] = "idle" /\ pc' = pc /\ eventStream' = eventStream
        /\ result' = [result EXCEPT ![c] = "rejected"]
    BY DEF Reject
  <1>2. ActiveOf(c) = {} /\ ActiveOf(c)' = {}
    BY <1>1 DEF ActiveOf
  <1>3. [d \in Clients |-> ActiveOf(d)'] = [d \in Clients |-> ActiveOf(d)]
    <2>1. \A d \in Clients : ActiveOf(d)' = ActiveOf(d)
      BY <1>0, <1>2, StillActive, OthersStill DEF Own, Invoke
    <2> QED
      BY <2>1
  <1>4. [s \in StreamIds |-> LogOf(s)]' = [s \in StreamIds |-> LogOf(s)]
    BY <1>1, SameLogs
  <1> QED
    BY <1>1, <1>2, <1>3, <1>4 DEF Log!Reject, ActiveOf

\* Statements that commit nothing and end nothing are no steps of the log.
LEMMA MapsStutter ==
    ASSUME Abstracted, NEW c \in Clients,
           \/ InsertEvents(c) \/ CheckEvents(c) \/ ReadLastVersion(c)
           \/ StartInsert(c)
           \/ FinishInsert(c) /\ call[c].op = "append"
    PROVE  UNCHANGED Log!logVars
  <1>0. TypeOK
    BY DEF Abstracted, RefInv
  <1>1. /\ eventStream' = eventStream /\ result' = result /\ call' = call
        /\ pc[c] # "idle" /\ pc'[c] # "idle"
        /\ done'[c] = done[c] \/ call[c].op = "append"
    BY <1>0 DEF InsertEvents, CheckEvents, ReadLastVersion, StartInsert,
                FinishInsert, MoreToInsert, TypeOK
  <1>2. ActiveOf(c)' = ActiveOf(c)
    BY <1>1 DEF ActiveOf, Remaining
  <1>3. [d \in Clients |-> ActiveOf(d)'] = [d \in Clients |-> ActiveOf(d)]
    <2>1. \A d \in Clients : ActiveOf(d)' = ActiveOf(d)
      BY <1>0, <1>2, StillActive, OthersStill DEF Own, Progress
    <2> QED
      BY <2>1
  <1>4. [s \in StreamIds |-> LogOf(s)]' = [s \in StreamIds |-> LogOf(s)]
    BY <1>1, SameLogs
  <1> QED
    BY <1>1, <1>3, <1>4 DEF Log!logVars, ActiveOf

\* The log of every stream but one is as it was.
LEMMA OneLogChanges ==
    ASSUME NEW s \in StreamIds, NEW rows,
           \A q \in StreamIds \ {s} :
               RowsOf(eventStream', q) = RowsOf(eventStream, q),
           LogOf(s)' = rows
    PROVE  [q \in StreamIds |-> LogOf(q)]'
               = [[q \in StreamIds |-> LogOf(q)] EXCEPT ![s] = rows]
  <1>0. \A q \in StreamIds : /\ LogOf(q) = LogFrom(RowsOf(eventStream, q))
                            /\ LogOf(q)' = LogFrom(RowsOf(eventStream', q))
    BY DEF LogOf, LogFrom
  <1>1. \A q \in StreamIds \ {s} : LogOf(q)' = LogOf(q)
    BY <1>0
  <1>2. \A q \in StreamIds : LogOf(q)' = IF q = s THEN rows ELSE LogOf(q)
    BY <1>1
  <1> QED
    BY <1>2

\* The end of a Link that has linked everything, or had nothing to link.
LEMMA MapsLinkDone ==
    ASSUME Abstracted, NEW c \in Clients, FinishLink(c)
    PROVE  Log!LinkDone(c)
  <1>0. TypeOK
    BY DEF Abstracted, RefInv
  <1>1. /\ pc[c] = "version" /\ call[c].op = "link" /\ pc'[c] = "idle"
        /\ done[c] = Len(call[c].ids) /\ eventStream' = eventStream
        /\ result' = [result EXCEPT ![c] = "ok"]
    BY <1>0 DEF FinishLink, LoopEnded, Return, TypeOK
  <1>2. PICK r : ActiveOf(c) = {r} /\ r.op = "link" /\ r.ids = Remaining(c)
    BY <1>0, <1>1, RequestFields
  <1>3. r.ids = <<>>
    <2>1. call[c].ids \in Seq(EventId)
      BY <1>0 DEF TypeOK, Call
    <2>2. SubSeq(call[c].ids, Len(call[c].ids) + 1, Len(call[c].ids)) = <<>>
      BY <2>1, RestEnds
    <2> QED
      BY <1>1, <1>2, <2>2 DEF Remaining
  <1>4. Log!End(c, "ok")
    BY <1>0, <1>1, MapsEnd, OthersStill DEF Own, Progress
  <1>5. [s \in StreamIds |-> LogOf(s)]' = [s \in StreamIds |-> LogOf(s)]
    BY <1>1, SameLogs
  <1> QED
    BY <1>2, <1>3, <1>4, <1>5 DEF Log!LinkDone, ActiveOf

\* A call that fails changes no log.
LEMMA MapsFail ==
    ASSUME Abstracted, NEW c \in Clients,
           EventMissing(c) \/ UniqueViolation(c) \/ DbError(c)
    PROVE  Log!Fail(c)
  <1>0. TypeOK
    BY DEF Abstracted, RefInv
  <1>1. pc[c] # "idle" /\ pc'[c] = "idle" /\ eventStream' = eventStream
    BY <1>0 DEF EventMissing, UniqueViolation, DbError, Return, TypeOK
  <1>2. PICK r : ActiveOf(c) = {r} /\ r.op = call[c].op
    BY <1>0, <1>1, RequestFields
  <1>3. [s \in StreamIds |-> LogOf(s)]' = [s \in StreamIds |-> LogOf(s)]
    BY <1>1, SameLogs
  <1>4. \A d \in Clients \ {c} : Still(d)
    BY <1>0, OthersStill DEF Own, Progress, Fault
  <1>5. CASE EventMissing(c)
    <2>1. result' = [result EXCEPT ![c] = "missing"] /\ pc[c] = "check"
      BY <1>5 DEF EventMissing, Return
    <2>2. r.op = "link"
      BY <1>2, <2>1 DEF Abstracted, RefInv, CallInv, CallState
    <2>3. Log!End(c, "missing")
      BY <1>0, <1>1, <1>4, <2>1, MapsEnd
    <2> QED
      BY <1>2, <1>3, <2>2, <2>3 DEF Log!Fail, ActiveOf
  <1>6. CASE UniqueViolation(c)
    <2>1. result' = [result EXCEPT ![c] = "duplicate"]
      BY <1>6 DEF UniqueViolation, Return
    <2>2. Log!End(c, "duplicate")
      BY <1>0, <1>1, <1>4, <2>1, MapsEnd
    <2> QED
      BY <1>2, <1>3, <2>2 DEF Log!Fail, ActiveOf
  <1>7. CASE DbError(c)
    <2>1. result' = [result EXCEPT ![c] = "error"]
      BY <1>7 DEF DbError, Return
    <2>2. Log!End(c, "error")
      BY <1>0, <1>1, <1>4, <2>1, MapsEnd
    <2> QED
      BY <1>2, <1>3, <2>2 DEF Log!Fail, ActiveOf
  <1> QED
    BY <1>5, <1>6, <1>7

\* A caller is refused because the log has another length than it expected, or
\* because its first event has made it longer.
LEMMA MapsRefuse ==
    ASSUME Abstracted, NEW c \in Clients, WrongVersion(c)
    PROVE  Log!Refuse(c)
  <1>0. TypeOK /\ RefInv
    BY DEF Abstracted, RefInv
  <1>1. /\ pc[c] = "version" /\ pc'[c] = "idle" /\ eventStream' = eventStream
        /\ done[c] < Len(call[c].ids)
        /\ result' = [result EXCEPT ![c] = "refused"]
    BY <1>0 DEF WrongVersion, MoreToInsert, Return, TypeOK
  <1>2. PICK r : /\ ActiveOf(c) = {r} /\ r.op = call[c].op
                 /\ r.stream = call[c].stream /\ r.ids = Remaining(c)
                 /\ r.expected = call[c].expected
    BY <1>0, <1>1, RequestFields
  <1>3. PICK v : ReadsLastVersion(c, v) /\ ~AsExpected(c, v)
    BY DEF WrongVersion
  <1>4. r.stream \in Kept /\ r.stream \in StreamIds
    BY <1>0, <1>2 DEF Abstracted, TypeOK, Call
  <1>5. \/ ~(r.expected \subseteq {Len(LogOf(r.stream))})
        \/ r.op = "append" /\ Len(r.ids) > 1 /\ r.expected # {}
    <2>1. CASE txStream[c] = {}
      <3>1. IsLastVersion(eventStream, r.stream, v)
        BY <1>2, <1>3, <2>1 DEF ReadsLastVersion, Visible
      <3>2. v = Len(LogOf(r.stream))
        BY <1>0, <1>4, <3>1, LastIsLength
      <3> QED
        BY <1>2, <1>3, <3>2 DEF AsExpected
    <2>2. CASE txStream[c] # {}
      <3>1. call[c].op = "append" /\ done[c] # 0
        BY <1>0, <2>2 DEF RefInv, WriterInv, TxOwned, CallInv, CallState
      <3>2. done[c] \in Nat /\ Len(call[c].ids) \in Nat
        BY <1>0 DEF TypeOK, Call
      <3>3. Len(call[c].ids) > 1
        BY <1>1, <3>1, <3>2
      <3>4. call[c].expected # {}
        BY <1>3 DEF AsExpected
      <3> QED
        BY <1>2, <3>1, <3>3, <3>4 DEF Remaining
    <2> QED
      BY <2>1, <2>2
  <1>6. [s \in StreamIds |-> LogOf(s)][r.stream] = LogOf(r.stream)
    BY <1>4
  <1>7. Log!End(c, "refused")
    BY <1>0, <1>1, MapsEnd, OthersStill DEF Own, Progress
  <1>8. [s \in StreamIds |-> LogOf(s)]' = [s \in StreamIds |-> LogOf(s)]
    BY <1>1, SameLogs
  <1> QED
    BY <1>2, <1>5, <1>6, <1>7, <1>8 DEF Log!Refuse, Log!Expects, ActiveOf

\* The batch a commit makes visible is the next piece of the log, and was
\* expected there event by event.
LEMMA MapsCommit ==
    ASSUME Abstracted, RefInv', NEW c \in Clients, Commit(c)
    PROVE  Log!AppendBatch(c)
  <1>0. TypeOK /\ RefInv /\ TxOwned /\ KeysUnique /\ VisibleContiguous
    BY DEF Abstracted, RefInv, WriterInv
  <1>s. PICK s : s = call[c].stream
    OBVIOUS
  <1>i. PICK ids : ids = call[c].ids
    OBVIOUS
  <1>n. PICK n : n = Len(LogOf(s))
    OBVIOUS
  <1>1. /\ pc[c] = "version" /\ call[c].op = "append" /\ pc'[c] = "idle"
        /\ done[c] = Len(ids)
        /\ eventStream' = eventStream \cup txStream[c]
    BY <1>0, <1>i DEF Commit, LoopEnded, Return, TypeOK
  <1>2. PICK r : /\ ActiveOf(c) = {r} /\ r.op = call[c].op /\ r.stream = s
                 /\ r.ids = ids /\ r.expected = call[c].expected
    BY <1>0, <1>1, <1>s, <1>i, RequestFields DEF Remaining
  <1>3. s \in Kept /\ s \in StreamIds /\ ids \in Seq(EventId)
    BY <1>0, <1>s, <1>i DEF Abstracted, TypeOK, Call
  <1>4. /\ n \in Nat /\ n = Cardinality(RowsOf(eventStream, s))
        /\ Versions(eventStream, s) = 1..n
        /\ LogOf(s) = LogIn(eventStream, s)
    BY <1>0, <1>3, <1>n, LogOfIs
  <1>5. Len(ids) \in Nat /\ txStream[c] \subseteq Row
    BY <1>0, <1>3 DEF TypeOK
  <1>6. PICK v \in Nat : Numbered(c, v)
    BY <1>0, <1>1, <1>3, <1>s DEF RefInv, CallInv, BatchNumbered, Looping
  <1>7. /\ \A i \in 1..Len(ids) : \E q \in txStream[c] :
               q.version = v + i /\ q.event = ids[i]
        /\ \A q \in txStream[c] : v < q.version /\ q.version <= v + Len(ids)
    BY <1>1, <1>6, <1>i DEF Numbered
  <1>8. \A q \in txStream[c] : q.stream = s
    BY <1>0, <1>s DEF TxOwned
  <1>9. \A q \in txStream[c] : n < q.version
    <2>1. CASE n = 0
      BY <1>5, <2>1 DEF Row
    <2>2. CASE n # 0
      <3>1. n \in Versions(eventStream, s)
        BY <1>4, <2>2
      <3>2. PICK p \in eventStream : p.stream = s /\ p.version = n
        BY <3>1 DEF Versions, RowsOf
      <3> QED
        BY <1>0, <1>3, <1>8, <3>2, TxAbove
    <2> QED
      BY <2>1, <2>2
  <1>10. Len(ids) # 0 => v = n
    <2> SUFFICES ASSUME Len(ids) # 0 PROVE v = n
      OBVIOUS
    <2>1. PICK q \in txStream[c] : q.version = v + 1
      <3>1. 1 \in 1..Len(ids)
        BY <1>5
      <3> QED
        BY <1>7, <3>1
    <2>2. n <= v
      BY <1>4, <1>9, <2>1
    <2>3. ASSUME n < v PROVE FALSE
      <3>1. q \in RowsOf(Visible(c), s) /\ n + 1 \in 1..q.version
        BY <1>4, <1>8, <2>1, <2>3 DEF RowsOf, Visible
      <3>2. n + 1 \in Versions(Visible(c), s)
        BY <1>0, <1>3, <3>1 DEF VisibleContiguous, NoGaps
      <3>3. PICK p \in Visible(c) : p.stream = s /\ p.version = n + 1
        BY <3>2 DEF Versions, RowsOf
      <3>4. p \notin txStream[c]
        BY <1>4, <1>7, <2>3, <3>3
      <3>5. n + 1 \in Versions(eventStream, s)
        BY <3>3, <3>4 DEF Versions, RowsOf, Visible
      <3> QED
        BY <1>4, <3>5
    <2> QED
      BY <1>4, <2>2, <2>3
  <1>11. ASSUME NEW i \in 1..Len(ids)
         PROVE  \E q \in txStream[c] : q.version = n + i /\ q.event = ids[i]
    <2>1. Len(ids) # 0
      BY <1>5
    <2> QED
      BY <1>7, <1>10, <2>1
  <1>12. \A q \in txStream[c] : q.version <= n + Len(ids)
    <2>1. CASE Len(ids) = 0
      BY <1>5, <1>7, <2>1 DEF Row
    <2>2. CASE Len(ids) # 0
      BY <1>7, <1>10, <2>2
    <2> QED
      BY <2>1, <2>2
  <1>13. /\ RowsOf(eventStream', s) = RowsOf(eventStream, s) \cup txStream[c]
         /\ \A q \in StreamIds \ {s} :
                RowsOf(eventStream', q) = RowsOf(eventStream, q)
    BY <1>1, <1>8 DEF RowsOf
  <1>14. Solid(eventStream, s) /\ Solid(eventStream', s)
    <2>1. Solid(eventStream, s)
      BY <1>0, <1>3, CommittedSolid
    <2>2. RefInv' => Solid(eventStream', s)
      BY <1>3 DEF RefInv, RowsFinite, Solid, TypeOK, WriterInv, KeysUnique,
                  VisibleContiguous
    <2> QED
      BY <2>1, <2>2
  <1>15. LogIn(eventStream', s) = LogIn(eventStream, s) \o ids
    <2>1. RowsOf(eventStream, s) \subseteq RowsOf(eventStream', s)
      BY <1>13
    <2>2. \A i \in 1..Len(ids) : \E q \in RowsOf(eventStream', s) :
              q.version = n + i /\ q.event = ids[i]
      BY <1>11, <1>13
    <2>3. \A q \in RowsOf(eventStream', s) :
              q \in RowsOf(eventStream, s) \/ q.version <= n + Len(ids)
      BY <1>12, <1>13
    <2>4. ids \in Seq(EventId) /\ n \in Nat /\ n = Cardinality(RowsOf(eventStream, s))
      BY <1>3, <1>4
    <2>5. Extends(eventStream, eventStream', s, ids, n)
      BY <1>14, <2>1, <2>2, <2>3, <2>4 DEF Extends
    <2> QED
      BY <2>5, LogExtends
  <1>16. LogOf(s)' = LogOf(s) \o ids
    BY <1>4, <1>15 DEF LogOf, LogIn, LogFrom
  <1>17. [q \in StreamIds |-> LogOf(q)]'
             = [[q \in StreamIds |-> LogOf(q)] EXCEPT ![s] = LogOf(s) \o ids]
    BY <1>3, <1>13, <1>16, OneLogChanges
  <1>18. \A i \in 1..Len(ids) : r.expected \subseteq {n + i - 1}
    <2> SUFFICES ASSUME NEW i \in 1..Len(ids)
                 PROVE  call[c].expected \subseteq {n + i - 1}
      BY <1>2
    <2>1. PICK q \in txStream[c] : q.version = n + i
      BY <1>11
    <2>2. call[c].expected \subseteq {q.version - 1}
      BY <1>0 DEF RefInv, WriterInv, ExpectedCompared
    <2> QED
      BY <1>4, <2>1, <2>2
  <1>19. \E answer \in {"ok", "error"} : Log!End(c, answer)
    <2>1. PICK answer \in {"ok", "error"} : Return(c, answer)
      BY DEF Commit
    <2>2. result' = [result EXCEPT ![c] = answer]
      BY <2>1 DEF Return
    <2>3. \A d \in Clients \ {c} : Still(d)
      BY <1>0, OthersStill DEF Own, Progress
    <2>4. Log!End(c, answer)
      BY <1>0, <1>1, <2>2, <2>3, MapsEnd
    <2> QED
      BY <2>4
  <1>20. [q \in StreamIds |-> LogOf(q)][s] = LogOf(s)
    BY <1>3
  <1>21. r.op = "append" /\ r.stream = s /\ r.ids = ids
    BY <1>1, <1>2
  <1> QED
    BY <1>2, <1>n, <1>17, <1>18, <1>19, <1>20, <1>21
    DEF Log!AppendBatch, Log!Expects, ActiveOf

\* The row of a Link goes to the end of the log, right behind what was expected.
LEMMA LinkCommitsOne ==
    ASSUME Abstracted, RefInv', NEW c \in Clients, call[c].op = "link",
           FinishInsert(c) \/ LinkUnacknowledged(c),
           NEW s, s = call[c].stream, NEW e, e = call[c].ids[done[c] + 1]
    PROVE  /\ s \in StreamIds
           /\ call[c].expected \subseteq {Len(LogOf(s))}
           /\ [q \in StreamIds |-> LogOf(q)]'
                = [[q \in StreamIds |-> LogOf(q)] EXCEPT ![s] = Append(LogOf(s), e)]
  <1>0. /\ TypeOK /\ RefInv /\ WriterInv /\ TxOwned /\ KeysUnique
        /\ LastStillVisible /\ InBatch
    BY DEF Abstracted, RefInv, WriterInv
  <1>n. PICK n : n = Len(LogOf(s))
    OBVIOUS
  <1>1. /\ pc[c] = "index" /\ txStream[c] = {}
        /\ eventStream' = eventStream \cup inserting[c]
    BY <1>0 DEF FinishInsert, LinkUnacknowledged, TxOwned
  <1>2. s \in Kept /\ s \in StreamIds /\ e \in EventId
    BY <1>0, <1>1 DEF Abstracted, TypeOK, Call, InBatch
  <1>3. /\ n \in Nat /\ n = Cardinality(RowsOf(eventStream, s))
        /\ Versions(eventStream, s) = 1..n
        /\ LogOf(s) = LogIn(eventStream, s) /\ LogOf(s) \in Seq(EventId)
    BY <1>0, <1>2, <1>n, LogOfIs
  <1>4. PICK r : r \in inserting[c]
    BY <1>0, <1>1 DEF TxOwned
  <1>5. /\ inserting[c] = {r} /\ r.stream = s /\ r.event = e /\ r \in Row
    BY <1>0, <1>4 DEF TxOwned, RefInv, CallInv, CallEvents, TypeOK
  <1>6. r.version - 1 \in {0} \cup 1..n
    <2>1. r.version - 1 \in {0} \cup Versions(Visible(c), s)
      BY <1>0, <1>2, <1>4 DEF LastStillVisible
    <2> QED
      BY <1>1, <1>3, <2>1 DEF Visible
  <1>7. r.version = n + 1
    <2>1. ASSUME r.version \in 1..n PROVE FALSE
      <3>1. r.version \in Versions(eventStream, s)
        BY <1>3, <2>1
      <3>2. PICK q \in eventStream : q.stream = s /\ q.version = r.version
        BY <3>1 DEF Versions, RowsOf
      <3> QED
        BY <1>0, <1>4, <1>5, <3>2, InsertFree DEF Visible, SameKey
    <2>2. r.version \in Nat /\ r.version > 0
      BY <1>5 DEF Row
    <2> QED
      BY <1>3, <1>6, <2>1, <2>2
  <1>8. /\ RowsOf(eventStream', s) = RowsOf(eventStream, s) \cup {r}
        /\ \A q \in StreamIds \ {s} :
               RowsOf(eventStream', q) = RowsOf(eventStream, q)
    BY <1>1, <1>5 DEF RowsOf
  <1>9. Solid(eventStream, s) /\ Solid(eventStream', s)
    <2>1. Solid(eventStream, s)
      BY <1>0, <1>2, CommittedSolid
    <2>2. RefInv' => Solid(eventStream', s)
      BY <1>2 DEF RefInv, RowsFinite, Solid, TypeOK, WriterInv, KeysUnique,
                  VisibleContiguous
    <2> QED
      BY <2>1, <2>2
  <1>10. /\ <<e>> \in Seq(EventId) /\ Len(<<e>>) = 1
         /\ \A i \in 1..1 : i = 1 /\ <<e>>[i] = e
    BY <1>2
  <1>11. Extends(eventStream, eventStream', s, <<e>>, n)
    <2>1. \A i \in 1..Len(<<e>>) : \E q \in RowsOf(eventStream', s) :
              q.version = n + i /\ q.event = <<e>>[i]
      BY <1>5, <1>7, <1>8, <1>10
    <2>2. \A q \in RowsOf(eventStream', s) :
              q \in RowsOf(eventStream, s) \/ q.version <= n + Len(<<e>>)
      BY <1>3, <1>7, <1>8, <1>10
    <2> QED
      BY <1>3, <1>8, <1>9, <1>10, <2>1, <2>2 DEF Extends
  <1>12. LogIn(eventStream', s) = LogIn(eventStream, s) \o <<e>>
    BY <1>11, LogExtends
  <1>13. LogOf(s)' = LogOf(s) \o <<e>>
    BY <1>3, <1>12 DEF LogOf, LogIn, LogFrom
  <1>14. LogOf(s) \o <<e>> = Append(LogOf(s), e)
    BY ONLY <1>2, <1>3
  <1>15. LogOf(s)' = Append(LogOf(s), e)
    BY <1>13, <1>14
  <1>16. [q \in StreamIds |-> LogOf(q)]'
             = [[q \in StreamIds |-> LogOf(q)] EXCEPT ![s] = Append(LogOf(s), e)]
    BY <1>2, <1>8, <1>15, OneLogChanges
  <1>17. call[c].expected \subseteq {r.version - 1}
    BY <1>0, <1>4 DEF WriterInv, ExpectedCompared
  <1>18. call[c].expected \subseteq {Len(LogOf(s))}
    BY <1>3, <1>7, <1>17, <1>n
  <1> QED
    BY <1>2, <1>16, <1>18

\* A Link's insert is the next event of the log, acknowledged or not.
LEMMA MapsLinkNext ==
    ASSUME Abstracted, RefInv', NEW c \in Clients, call[c].op = "link",
           FinishInsert(c) \/ LinkUnacknowledged(c)
    PROVE  Log!LinkNext(c)
  <1>0. TypeOK /\ InBatch
    BY DEF Abstracted, RefInv, WriterInv
  <1>s. PICK s, e : s = call[c].stream /\ e = call[c].ids[done[c] + 1]
    OBVIOUS
  <1>1. /\ s \in StreamIds
        /\ call[c].expected \subseteq {Len(LogOf(s))}
        /\ [q \in StreamIds |-> LogOf(q)]'
             = [[q \in StreamIds |-> LogOf(q)] EXCEPT ![s] = Append(LogOf(s), e)]
    BY <1>s, LinkCommitsOne
  <1>2. pc[c] = "index" /\ done[c] < Len(call[c].ids)
        /\ done[c] \in Nat /\ call[c].ids \in Seq(EventId)
    BY <1>0 DEF FinishInsert, LinkUnacknowledged, InBatch, TypeOK, Call
  <1>3. PICK r : /\ ActiveOf(c) = {r} /\ r.op = "link" /\ r.stream = s
                 /\ r.ids = Remaining(c) /\ r.expected = call[c].expected
                 /\ r = [op |-> call[c].op, stream |-> call[c].stream,
                         ids |-> Remaining(c), expected |-> call[c].expected]
    BY <1>0, <1>2, <1>s, RequestFields
  <1>4. r.ids = SubSeq(call[c].ids, done[c] + 1, Len(call[c].ids))
    BY <1>3 DEF Remaining
  <1>5. /\ r.ids # <<>> /\ Head(r.ids) = e
        /\ Tail(r.ids) = SubSeq(call[c].ids, done[c] + 2, Len(call[c].ids))
    BY <1>2, <1>4, <1>s, RestOf
  <1>6. [q \in StreamIds |-> LogOf(q)][s] = LogOf(s)
    BY <1>1
  <1>7. \/ /\ [d \in Clients |-> ActiveOf(d)']
                = [[d \in Clients |-> ActiveOf(d)]
                      EXCEPT ![c] = {[r EXCEPT !.ids = Tail(@)]}]
           /\ result' = result
        \/ Log!End(c, "error")
    <2>a. \A d \in Clients \ {c} : Still(d)
      BY <1>0, OthersStill DEF Own, Progress, Fault
    <2>1. CASE FinishInsert(c)
      <3>1. /\ call' = call /\ result' = result /\ pc'[c] # "idle"
            /\ done'[c] = done[c] + 1
        BY <1>0, <2>1 DEF FinishInsert, TypeOK
      <3>2. Remaining(c)' = SubSeq(call[c].ids, done[c] + 2, Len(call[c].ids))
        <4>1. (done[c] + 1) + 1 = done[c] + 2
          BY <1>2
        <4>2. Remaining(c)' = SubSeq(call'[c].ids, done'[c] + 1, Len(call'[c].ids))
          BY <3>1 DEF Remaining
        <4>3. call'[c].ids = call[c].ids /\ done'[c] + 1 = done[c] + 2
          BY <3>1, <4>1
        <4> QED
          BY <4>2, <4>3
      <3>3. ActiveOf(c)' = {[op |-> call[c].op, stream |-> call[c].stream,
                             ids |-> Tail(r.ids), expected |-> call[c].expected]}
        BY <1>5, <3>1, <3>2 DEF ActiveOf
      <3>4. [r EXCEPT !.ids = Tail(@)]
                = [op |-> call[c].op, stream |-> call[c].stream,
                   ids |-> Tail(r.ids), expected |-> call[c].expected]
        <4>1. r = [op |-> call[c].op, stream |-> call[c].stream,
                   ids |-> Remaining(c), expected |-> call[c].expected]
          BY <1>3
        <4>2. PICK o : o = call[c].op
          OBVIOUS
        <4>3. PICK t : t = call[c].stream
          OBVIOUS
        <4>4. PICK e1 : e1 = call[c].expected
          OBVIOUS
        <4>5. PICK m : m = Remaining(c)
          OBVIOUS
        <4>6. r = [op |-> o, stream |-> t, ids |-> m, expected |-> e1]
          BY ONLY <4>1, <4>2, <4>3, <4>4, <4>5
        <4>7. PICK y : y = Tail(r.ids)
          OBVIOUS
        <4>8. [[op |-> o, stream |-> t, ids |-> m, expected |-> e1]
                  EXCEPT !.ids = y]
                  = [op |-> o, stream |-> t, ids |-> y, expected |-> e1]
          OBVIOUS
        <4>9. [r EXCEPT !.ids = Tail(@)]
                  = [op |-> o, stream |-> t, ids |-> Tail(r.ids), expected |-> e1]
          BY <4>6, <4>7, <4>8, Zenon
        <4> QED
          BY ONLY <4>9, <4>2, <4>3, <4>4
      <3>5. \A d \in Clients : ActiveOf(d)' = IF d = c
                                  THEN {[r EXCEPT !.ids = Tail(@)]}
                                  ELSE ActiveOf(d)
        BY <2>a, <3>3, <3>4, StillActive
      <3> QED
        BY <3>1, <3>5
    <2>2. CASE LinkUnacknowledged(c)
      <3>1. pc'[c] = "idle" /\ result' = [result EXCEPT ![c] = "error"]
        BY <1>0, <2>2 DEF LinkUnacknowledged, Return, TypeOK
      <3> QED
        BY <1>0, <2>a, <3>1, MapsEnd
    <2> QED
      BY <2>1, <2>2
  <1> QED
    BY <1>1, <1>3, <1>5, <1>6, <1>7 DEF Log!LinkNext, Log!Expects, ActiveOf

\* One step of the repository, seen from outside.
LEMMA StepMaps ==
    ASSUME RefInv, RefInv', Kept = StreamIds, Deletable = {}, [Next]_vars
    PROVE  [Log!Next]_Log!logVars
  <1> USE DEF Abstracted
  <1>0. TypeOK /\ TypeOK'
    BY DEF RefInv
  <1>1. CASE UNCHANGED vars
    <2>1. /\ [s \in StreamIds |-> LogOf(s)]' = [s \in StreamIds |-> LogOf(s)]
          /\ result' = result
      BY <1>1, SameLogs DEF vars
    <2>2. [d \in Clients |-> ActiveOf(d)'] = [d \in Clients |-> ActiveOf(d)]
      BY <1>1 DEF vars, ActiveOf, Remaining
    <2> QED
      BY <2>1, <2>2 DEF Log!logVars, ActiveOf
  <1>2. ASSUME NEW c \in Clients, AppendToStream(c) \/ Link(c) PROVE Log!Next
    BY <1>0, <1>2, MapsBegin DEF Log!Next
  <1>3. ASSUME NEW c \in Clients, Reject(c) PROVE Log!Next
    BY <1>3, MapsReject DEF Log!Next
  <1>4. ASSUME NEW c \in Clients, DeleteStream(c) PROVE FALSE
    BY <1>4 DEF DeleteStream
  <1>5. ASSUME NEW c \in Clients,
               \/ InsertEvents(c) \/ CheckEvents(c) \/ ReadLastVersion(c)
               \/ StartInsert(c)
               \/ FinishInsert(c) /\ call[c].op = "append"
        PROVE  UNCHANGED Log!logVars
    BY <1>5, MapsStutter
  <1>6. ASSUME NEW c \in Clients,
               \/ FinishInsert(c) /\ call[c].op # "append"
               \/ LinkUnacknowledged(c)
        PROVE  Log!Next
    <2>1. call[c].op = "link"
      BY <1>6 DEF LinkUnacknowledged, FinishInsert, RefInv, CallInv, CallState
    <2>2. Log!LinkNext(c)
      BY <1>6, <2>1, MapsLinkNext
    <2> QED
      BY <2>2 DEF Log!Next
  <1>7. ASSUME NEW c \in Clients, Commit(c) PROVE Log!Next
    <2>1. Log!AppendBatch(c)
      BY <1>7, MapsCommit
    <2> QED
      BY <2>1 DEF Log!Next
  <1>8. ASSUME NEW c \in Clients, FinishLink(c) PROVE Log!Next
    BY <1>8, MapsLinkDone DEF Log!Next
  <1>9. ASSUME NEW c \in Clients, WrongVersion(c) PROVE Log!Next
    BY <1>9, MapsRefuse DEF Log!Next
  <1>10. ASSUME NEW c \in Clients,
                EventMissing(c) \/ UniqueViolation(c) \/ DbError(c)
         PROVE  Log!Next
    BY <1>10, MapsFail DEF Log!Next
  <1> QED
    BY <1>1, <1>2, <1>3, <1>4, <1>5, <1>6, <1>7, <1>8, <1>9, <1>10
    DEF Next, Invoke, Progress, Fault

\* Empty tables are empty logs.
LEMMA InitMaps == Init => Log!Init
  <1> SUFFICES ASSUME Init PROVE Log!Init
    OBVIOUS
  <1>1. \A s \in StreamIds : LogOf(s) = <<>>
    <2> SUFFICES ASSUME NEW s \in StreamIds PROVE LogOf(s) = <<>>
      OBVIOUS
    <2>1. RowsOf(eventStream, s) = {}
      BY DEF Init, RowsOf
    <2>2. Cardinality(RowsOf(eventStream, s)) = 0
      BY <2>1, FS_EmptySet
    <2> QED
      BY <2>2 DEF LogOf
  <1>2. \A c \in Clients : pc[c] = "idle"
    BY DEF Init
  <1>3. result = [c \in Clients |-> "none"]
    BY DEF Init
  <1> QED
    BY <1>1, <1>2, <1>3 DEF Log!Init

\* When no stream is deleted, whatever its callers, goroutines, failures and
\* bounds, the repository behaves as one log per stream.
THEOREM LogImplemented ==
    ASSUME Deletable = {}
    PROVE  Spec => ImplementsEventLog
  <1>1. Kept = StreamIds
    BY DEF Kept
  <1>2. RefInv /\ RefInv' /\ [Next]_vars => [Log!Next]_Log!logVars
    BY <1>1, StepMaps
  <1> QED
    BY <1>2, InitMaps, RefInvariant, PTL
    DEF Spec, ImplementsEventLog, Log!Spec

================================================================================

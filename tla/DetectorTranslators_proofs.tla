--------------------- MODULE DetectorTranslators_proofs ---------------------
(***************************************************************************)
(* For any types, detectors, events and number of workers, the routes that *)
(* translateEvent reads without the mutex are stable, each has a writer    *)
(* with a file of its own, and every event is translated by all of them.   *)
(* Everything rests on the freeze: the invariant says that it has happened *)
(* before an event is begun, and what each worker has made of its event.   *)
(* The last part adds what the dump has written to the files.              *)
(***************************************************************************)
EXTENDS DetectorTranslators, SharedLemmas

\* The part of TypeOK that the proofs use.
Typed ==
    /\ routes \subseteq Routes
    /\ writers \in Seq(Routes)
    /\ waiting \subseteq Events
    /\ event \in [Workers -> Events \cup {None}]
    /\ visited \in [Workers -> SUBSET Types]
    /\ outputs = [w \in Workers |-> outputs[w]]
    /\ thrown \subseteq Workers

\* The routes are frozen while an event is under way, and ever after.
FrozenInTime == IsUnderWay => frozen

\* What is being translated, or has been, does not wait any more.
BegunEvents ==
    /\ \A w \in Workers : event[w] # None => event[w] \in Events \ waiting
    /\ \A done \in translated : done.event \in Events \ waiting

\* A worker has outputs that are due; unless it has thrown, those of the types it
\* has visited, and of no other.
OutputsAreDue ==
    \A w \in Workers :
        /\ event[w] = None => visited[w] = {} /\ outputs[w] = << >>
        /\ event[w] # None =>
              /\ DOMAIN outputs[w] \subseteq {r \in routes : Due(event[w], r) # << >>}
              /\ w \notin thrown =>
                    DOMAIN outputs[w] =
                       {r \in routes : r[1] \in visited[w] /\ Due(event[w], r) # << >>}
              /\ \A r \in DOMAIN outputs[w] : outputs[w][r] = Due(event[w], r)

IInv ==
    /\ Typed
    /\ WritersMatchRoutes
    /\ FrozenInTime
    /\ BegunEvents
    /\ OutputsAreDue
    /\ EventsAreTranslated

-----------------------------------------------------------------------------

\* The loop of translate groups the hits by what the specification calls due.
LEMMA MatchedIsDue ==
    ASSUME NEW e, NEW r \in Routes
    PROVE  Matched(e, r[1], r[2]) = Due(e, r)
<1>1. r = <<r[1], r[2]>>
  BY DEF Routes
<1>2. {k \in DOMAIN e.hits : e.hits[k].type = r[1] /\ e.table[e.hits[k].address] = r[2]}
        = {k \in DOMAIN e.hits : <<e.hits[k].type, e.table[e.hits[k].address]>> = r}
  BY <1>1
<1> QED
  BY <1>2 DEF Matched, Due

\* Before the freeze nothing has been begun.
LEMMA NothingBegun ==
    ASSUME FrozenInTime, ~frozen
    PROVE  /\ \A w \in Workers : event[w] = None
           /\ translated = {}
           /\ ~opened
BY DEF FrozenInTime, IsUnderWay

(* What is in a list after an append.                                      *)
LEMMA AppendedRange ==
    ASSUME NEW S, NEW s \in Seq(S), NEW x \in S
    PROVE  /\ Append(s, x) \in Seq(S)
           /\ Range(Append(s, x)) = Range(s) \cup {x}
<1>1. Append(s, x) \in Seq(S) /\ DOMAIN Append(s, x) = 1..(Len(s) + 1)
  OBVIOUS
<1>2. DOMAIN s = 1..Len(s) /\ Len(s) \in Nat
  OBVIOUS
<1>3. Append(s, x)[Len(s) + 1] = x
  OBVIOUS
<1>4. \A k \in 1..Len(s) : Append(s, x)[k] = s[k]
  OBVIOUS
<1>5. ASSUME NEW y \in Range(Append(s, x))
      PROVE  y \in Range(s) \cup {x}
  <2>1. PICK k \in 1..(Len(s) + 1) : Append(s, x)[k] = y
    BY <1>1, <1>5 DEF Range
  <2>2. CASE k = Len(s) + 1
    BY <2>1, <2>2, <1>3
  <2>3. CASE k \in 1..Len(s)
    BY <2>1, <2>3, <1>2, <1>4 DEF Range
  <2> QED
    BY <2>2, <2>3, <1>2
<1>6. ASSUME NEW y \in Range(s) \cup {x}
      PROVE  y \in Range(Append(s, x))
  <2>1. CASE y = x
    BY <2>1, <1>1, <1>2, <1>3 DEF Range
  <2>2. CASE y \in Range(s)
    <3>1. PICK k \in 1..Len(s) : s[k] = y
      BY <2>2, <1>2 DEF Range
    <3>2. k \in 1..(Len(s) + 1) /\ Append(s, x)[k] = y
      BY <3>1, <1>2, <1>4
    <3> QED
      BY <3>2, <1>1 DEF Range
  <2> QED
    BY <2>1, <2>2
<1> QED
  BY <1>1, <1>5, <1>6

-----------------------------------------------------------------------------

LEMMA InitImpliesIInv == Init => IInv
<1> SUFFICES ASSUME Init PROVE IInv
  OBVIOUS
<1>1. Typed
  BY DEF Init, Typed
<1>2. WritersMatchRoutes
  BY DEF Init, WritersMatchRoutes, Range
<1>3. FrozenInTime /\ BegunEvents /\ EventsAreTranslated
  BY DEF Init, FrozenInTime, IsUnderWay, BegunEvents, EventsAreTranslated
<1>4. OutputsAreDue
  BY DEF Init, OutputsAreDue
<1> QED
  BY <1>1, <1>2, <1>3, <1>4 DEF IInv

\* A registration comes before anything is begun, and keeps the writers and
\* the routes together.
LEMMA AddTranslatorKeeps ==
    ASSUME IInv, NEW t \in Types, NEW d \in Detectors, AddTranslator(t, d)
    PROVE  IInv'
<1> DEFINE r == <<t, d>>
<1>1. r \in Routes
  BY DEF Routes
<1>2. /\ \A w \in Workers : event[w] = None
      /\ translated = {}
      /\ ~opened
  BY NothingBegun DEF IInv, AddTranslator
<1>3. Typed'
  BY <1>1, AppendedRange DEF IInv, Typed, AddTranslator, workerVars
<1>4. WritersMatchRoutes'
  <2>1. writers \in Seq(Routes) /\ writers' = Append(writers, r) /\ routes' = routes \cup {r}
    BY DEF IInv, Typed, AddTranslator
  <2>2. Range(writers') = routes'
    BY <2>1, <1>1, AppendedRange DEF IInv, WritersMatchRoutes
  <2>3. \A q \in Range(writers) : <<q[2], FileName[q[1]]>> # <<d, FileName[t]>>
    BY DEF AddTranslator, PathIsFree
  <2>4. \A k \in DOMAIN writers : <<writers[k][2], FileName[writers[k][1]]>> # <<d, FileName[t]>>
    BY <2>3 DEF Range
  <2>5. ASSUME NEW k \in DOMAIN writers', NEW l \in DOMAIN writers', k # l
        PROVE  <<writers'[k][2], FileName[writers'[k][1]]>>
                  # <<writers'[l][2], FileName[writers'[l][1]]>>
    <3> DEFINE n == Len(writers)
    <3>1. /\ n \in Nat /\ DOMAIN writers = 1..n /\ DOMAIN writers' = 1..(n + 1)
          /\ writers'[n + 1] = r
          /\ \A i \in 1..n : writers'[i] = writers[i]
      BY <2>1, <1>1
    <3>2. r[1] = t /\ r[2] = d
      OBVIOUS
    <3> HIDE DEF n, r
    <3>3. CASE k \in 1..n /\ l \in 1..n
      BY <3>1, <3>3, <2>5 DEF IInv, WritersMatchRoutes
    <3>4. CASE k = n + 1 /\ l \in 1..n
      BY <3>1, <3>2, <3>4, <2>4
    <3>5. CASE k \in 1..n /\ l = n + 1
      BY <3>1, <3>2, <3>5, <2>4
    <3> QED
      BY <3>1, <3>3, <3>4, <3>5, <2>5
  <2> QED
    BY <2>2, <2>5 DEF WritersMatchRoutes
<1>5. FrozenInTime' /\ BegunEvents'
  BY <1>2 DEF IInv, FrozenInTime, IsUnderWay, BegunEvents, AddTranslator, workerVars, dumpVars
<1>6. OutputsAreDue'
  BY <1>2 DEF IInv, OutputsAreDue, AddTranslator, workerVars
<1>7. EventsAreTranslated'
  BY <1>2 DEF EventsAreTranslated, AddTranslator
<1> QED
  BY <1>3, <1>4, <1>5, <1>6, <1>7 DEF IInv

LEMMA BeginEventKeeps ==
    ASSUME IInv, NEW w \in Workers, BeginEvent(w)
    PROVE  IInv'
<1> USE DEF IInv
<1>0. PICK e \in waiting : event' = [event EXCEPT ![w] = e] /\ waiting' = waiting \ {e}
  BY DEF BeginEvent
<1>1. Typed'
  BY <1>0 DEF Typed, BeginEvent
<1>2. WritersMatchRoutes' /\ FrozenInTime'
  BY DEF WritersMatchRoutes, FrozenInTime, IsUnderWay, BeginEvent, dumpVars
<1>3. BegunEvents'
  BY <1>0 DEF Typed, BegunEvents, BeginEvent
<1>4. OutputsAreDue'
  <2> SUFFICES ASSUME NEW v \in Workers PROVE OutputsAreDue!(v)'
    BY DEF OutputsAreDue
  <2>1. CASE v # w
    BY <1>0, <2>1 DEF OutputsAreDue, Typed, BeginEvent
  <2>2. CASE v = w
    <3>1. visited'[w] = {} /\ outputs'[w] = << >> /\ event'[w] = e
      BY <1>0 DEF OutputsAreDue, Typed, BeginEvent
    <3>2. e # None /\ DOMAIN << >> = {}
      BY NoneIsNoEvent DEF Typed
    <3> QED
      BY <2>2, <3>1, <3>2
  <2> QED
    BY <2>1, <2>2
<1>5. EventsAreTranslated'
  BY DEF EventsAreTranslated, BeginEvent
<1> QED
  BY <1>1, <1>2, <1>3, <1>4, <1>5

\* A worker whose getTable throws has done nothing to its event.
LEMMA FailToGetTableKeeps ==
    ASSUME IInv, NEW w \in Workers, FailToGetTable(w)
    PROVE  IInv'
<1> USE DEF IInv
<1>0. /\ waiting' \subseteq waiting /\ event[w] = None /\ thrown' = thrown \cup {w}
      /\ UNCHANGED <<routes, writers, frozen, event, visited, outputs, translated, opened>>
  BY DEF FailToGetTable, dumpVars
<1>1. Typed'
  BY <1>0 DEF Typed
<1>2. WritersMatchRoutes' /\ FrozenInTime' /\ EventsAreTranslated'
  BY <1>0 DEF WritersMatchRoutes, FrozenInTime, IsUnderWay, EventsAreTranslated
<1>3. BegunEvents'
  BY <1>0 DEF BegunEvents
<1>4. OutputsAreDue'
  BY <1>0 DEF OutputsAreDue
<1> QED
  BY <1>1, <1>2, <1>3, <1>4

\* What routes with a matching hit insert is due.
LEMMA InsertedIsDue ==
    ASSUME IInv, NEW w \in Workers, event[w] # None, NEW t \in Types,
           NEW done \in SUBSET MatchedRoutes(w, t)
    PROVE  LET after == Inserted(w, t, done)
           IN  /\ after = [v \in Workers |-> IF v = w THEN after[w] ELSE outputs[v]]
               /\ DOMAIN after[w] = DOMAIN outputs[w] \cup done
               /\ \A r \in DOMAIN after[w] : after[w][r] = Due(event[w], r)
<1> DEFINE row == [r \in DOMAIN outputs[w] \cup done |->
                      IF r \in done THEN Matched(event[w], t, r[2]) ELSE outputs[w][r]]
           after == Inserted(w, t, done)
<1>1. after = [outputs EXCEPT ![w] = row]
  BY DEF Inserted
<1>2. \A r \in done : Matched(event[w], t, r[2]) = Due(event[w], r)
  BY MatchedIsDue DEF IInv, Typed, MatchedRoutes
<1>3. \A r \in DOMAIN outputs[w] : outputs[w][r] = Due(event[w], r)
  BY DEF IInv, OutputsAreDue
<1>4. DOMAIN row = DOMAIN outputs[w] \cup done /\ \A r \in DOMAIN row : row[r] = Due(event[w], r)
  BY <1>2, <1>3
<1>5. outputs = [v \in Workers |-> outputs[v]]
  BY DEF IInv, Typed
<1> HIDE DEF row, after
<1>6. after[w] = row /\ after = [v \in Workers |-> IF v = w THEN row ELSE outputs[v]]
  BY <1>1, <1>5
<1> QED
  BY <1>4, <1>6 DEF after

\* The routes that match have hits due.
LEMMA MatchedRoutesAreDue ==
    ASSUME IInv, NEW w, NEW t
    PROVE  MatchedRoutes(w, t) = {r \in routes : r[1] = t /\ Due(event[w], r) # << >>}
BY MatchedIsDue DEF MatchedRoutes, IInv, Typed

\* A turn of the loop adds the outputs of one more type.
LEMMA TranslateTypeKeeps ==
    ASSUME IInv, NEW w \in Workers, NEW t \in Types, TranslateType(w, t)
    PROVE  IInv'
<1> USE DEF IInv
<1> DEFINE matched == MatchedRoutes(w, t)
           after == Inserted(w, t, matched)
<1>0. /\ event[w] # None /\ w \notin thrown
      /\ outputs' = after
      /\ visited' = [visited EXCEPT ![w] = @ \cup {t}]
      /\ UNCHANGED <<routes, writers, frozen, waiting, event, thrown, translated, opened>>
  BY DEF TranslateType, IsTranslating, dumpVars
<1>1. /\ after = [v \in Workers |-> IF v = w THEN after[w] ELSE outputs[v]]
      /\ DOMAIN after[w] = DOMAIN outputs[w] \cup matched
      /\ \A r \in DOMAIN after[w] : after[w][r] = Due(event[w], r)
  BY <1>0, InsertedIsDue
<1>2. matched = {r \in routes : r[1] = t /\ Due(event[w], r) # << >>}
  BY MatchedRoutesAreDue
<1> HIDE DEF matched, after
<1>3. Typed'
  BY <1>0, <1>1 DEF Typed
<1>4. WritersMatchRoutes' /\ FrozenInTime' /\ BegunEvents' /\ EventsAreTranslated'
  BY <1>0 DEF WritersMatchRoutes, FrozenInTime, IsUnderWay, BegunEvents, EventsAreTranslated
<1>5. OutputsAreDue'
  <2> SUFFICES ASSUME NEW v \in Workers PROVE OutputsAreDue!(v)'
    BY DEF OutputsAreDue
  <2>1. CASE v # w
    BY <1>0, <1>1, <2>1 DEF OutputsAreDue, Typed
  <2>2. CASE v = w
    <3>1. DOMAIN outputs[w] =
             {r \in routes : r[1] \in visited[w] /\ Due(event[w], r) # << >>}
      BY <1>0 DEF OutputsAreDue
    <3>2. DOMAIN after[w] =
             {r \in routes : r[1] \in visited[w] \cup {t} /\ Due(event[w], r) # << >>}
      BY <1>1, <1>2, <3>1
    <3>3. outputs'[w] = after[w] /\ visited'[w] = visited[w] \cup {t}
      BY <1>0, <1>1 DEF Typed
    <3> QED
      BY <1>0, <1>1, <2>2, <3>2, <3>3
  <2> QED
    BY <2>1, <2>2
<1> QED
  BY <1>3, <1>4, <1>5

\* A conversion that throws leaves outputs that are due, though not all.
LEMMA FailToConvertKeeps ==
    ASSUME IInv, NEW w \in Workers, NEW t \in Types, FailToConvert(w, t)
    PROVE  IInv'
<1> USE DEF IInv
<1>0. PICK done \in SUBSET MatchedRoutes(w, t) : outputs' = Inserted(w, t, done)
  BY DEF FailToConvert
<1> DEFINE after == Inserted(w, t, done)
<1>1. /\ event[w] # None
      /\ outputs' = after
      /\ thrown' = thrown \cup {w}
      /\ UNCHANGED <<routes, writers, frozen, waiting, event, visited, translated, opened>>
  BY <1>0 DEF FailToConvert, IsTranslating, dumpVars
<1>2. /\ after = [v \in Workers |-> IF v = w THEN after[w] ELSE outputs[v]]
      /\ DOMAIN after[w] = DOMAIN outputs[w] \cup done
      /\ \A r \in DOMAIN after[w] : after[w][r] = Due(event[w], r)
  BY <1>1, InsertedIsDue
<1>3. done \subseteq {r \in routes : Due(event[w], r) # << >>}
  BY MatchedRoutesAreDue
<1> HIDE DEF after
<1>4. Typed'
  BY <1>1, <1>2 DEF Typed
<1>5. WritersMatchRoutes' /\ FrozenInTime' /\ BegunEvents' /\ EventsAreTranslated'
  BY <1>1 DEF WritersMatchRoutes, FrozenInTime, IsUnderWay, BegunEvents, EventsAreTranslated
<1>6. OutputsAreDue'
  <2> SUFFICES ASSUME NEW v \in Workers PROVE OutputsAreDue!(v)'
    BY DEF OutputsAreDue
  <2>1. CASE v # w
    BY <1>1, <1>2, <2>1 DEF OutputsAreDue, Typed
  <2>2. CASE v = w
    <3>1. DOMAIN outputs[w] \subseteq {r \in routes : Due(event[w], r) # << >>}
      BY <1>1 DEF OutputsAreDue
    <3>2. DOMAIN after[w] \subseteq {r \in routes : Due(event[w], r) # << >>}
      BY <1>2, <1>3, <3>1
    <3>3. outputs'[w] = after[w] /\ w \in thrown'
      BY <1>1, <1>2 DEF Typed
    <3> QED
      BY <1>1, <1>2, <2>2, <3>2, <3>3
  <2> QED
    BY <2>1, <2>2
<1> QED
  BY <1>4, <1>5, <1>6

\* When all types are visited, the outputs are complete.
LEMMA EndEventKeeps ==
    ASSUME IInv, NEW w \in Workers, EndEvent(w)
    PROVE  IInv'
<1> USE DEF IInv
<1> DEFINE done == [event |-> event[w], outputs |-> outputs[w]]
<1>0. /\ event[w] # None /\ w \notin thrown
      /\ \A r \in routes : r[1] \in visited[w]
      /\ translated' = translated \cup {done}
      /\ event' = [event EXCEPT ![w] = None]
      /\ visited' = [visited EXCEPT ![w] = {}]
      /\ outputs' = [outputs EXCEPT ![w] = << >>]
      /\ UNCHANGED <<routes, writers, frozen, waiting, thrown, opened>>
  BY DEF EndEvent, IsTranslating, dumpVars
<1>1. Typed'
  BY <1>0 DEF Typed
<1>2. WritersMatchRoutes' /\ FrozenInTime'
  BY <1>0 DEF WritersMatchRoutes, FrozenInTime, IsUnderWay
<1>3. BegunEvents'
  BY <1>0 DEF Typed, BegunEvents
<1>4. OutputsAreDue'
  <2> SUFFICES ASSUME NEW v \in Workers PROVE OutputsAreDue!(v)'
    BY DEF OutputsAreDue
  <2>1. CASE v # w
    BY <1>0, <2>1 DEF OutputsAreDue, Typed
  <2>2. CASE v = w
    BY <1>0, <2>2 DEF Typed
  <2> QED
    BY <2>1, <2>2
<1>5. EventsAreTranslated'
  <2>1. DOMAIN outputs[w] = {r \in routes : Due(event[w], r) # << >>}
    BY <1>0 DEF OutputsAreDue
  <2>2. \A r \in DOMAIN outputs[w] : outputs[w][r] = Due(event[w], r)
    BY <1>0 DEF OutputsAreDue
  <2> QED
    BY <1>0, <2>1, <2>2 DEF EventsAreTranslated
<1> QED
  BY <1>1, <1>2, <1>3, <1>4, <1>5

\* The dump freezes the routes and takes events away.
LEMMA DumpKeeps ==
    ASSUME IInv, translated' \subseteq translated,
           frozen' \/ UNCHANGED <<frozen, translated, opened>>,
           UNCHANGED <<routes, writers, waiting, event, visited, outputs, thrown>>
    PROVE  IInv'
BY DEF IInv, Typed, WritersMatchRoutes, FrozenInTime, IsUnderWay, BegunEvents, OutputsAreDue,
       EventsAreTranslated

(* The inductive invariant holds: routes and writers go together, and what *)
(* a worker has inserted for its event is what its routes are due so far.   *)
THEOREM Invariance == Spec => []IInv
<1>1. Init => IInv
  BY InitImpliesIInv
<1>2. IInv /\ [Next]_vars => IInv'
  <2> SUFFICES ASSUME IInv, [Next]_vars PROVE IInv'
    OBVIOUS
  <2>1. ASSUME NEW t \in Types, NEW d \in Detectors, AddTranslator(t, d) PROVE IInv'
    BY <2>1, AddTranslatorKeeps
  <2>2. CASE Freeze
    BY <2>2, DumpKeeps DEF Freeze, workerVars
  <2>3. ASSUME NEW w \in Workers, BeginEvent(w) PROVE IInv'
    BY <2>3, BeginEventKeeps
  <2>4. ASSUME NEW w \in Workers, NEW t \in Types, TranslateType(w, t) PROVE IInv'
    BY <2>4, TranslateTypeKeeps
  <2>5. ASSUME NEW w \in Workers, EndEvent(w) PROVE IInv'
    BY <2>5, EndEventKeeps
  <2>6. CASE FailToOpen
    BY <2>6, DumpKeeps DEF FailToOpen, workerVars
  <2>7. CASE DumpEvent
    BY <2>7, DumpKeeps DEF DumpEvent, workerVars
  <2>8. CASE FailToWrite
    BY <2>8, DumpKeeps DEF FailToWrite, workerVars
  <2>9. CASE FailToClose
    BY <2>9, DumpKeeps DEF FailToClose, workerVars
  <2>10. ASSUME NEW w \in Workers, FailToGetTable(w) PROVE IInv'
    BY <2>10, FailToGetTableKeeps
  <2>11. ASSUME NEW w \in Workers, NEW t \in Types, FailToConvert(w, t) PROVE IInv'
    BY <2>11, FailToConvertKeeps
  <2>12. CASE UNCHANGED vars
    BY <2>12, DumpKeeps DEF vars, workerVars, dumpVars
  <2> QED
    BY <2>1, <2>2, <2>3, <2>4, <2>5, <2>6, <2>7, <2>8, <2>9, <2>10, <2>11, <2>12 DEF Next
<1> QED
  BY <1>1, <1>2, PTL DEF Spec

(* Every route has a writer and a file of its own.                         *)
THEOREM Writers == Spec => []WritersMatchRoutes
<1>1. IInv => WritersMatchRoutes
  BY DEF IInv
<1> QED
  BY <1>1, Invariance, PTL

(* Every event is translated by all the routes there are, with exactly the *)
(* hits that are due to each.                                              *)
THEOREM Translation == Spec => []EventsAreTranslated
<1>1. IInv => EventsAreTranslated
  BY DEF IInv
<1> QED
  BY <1>1, Invariance, PTL

(* No step changes the routes while an event is under way, or after one    *)
(* was: reading them without the mutex is safe.                            *)
THEOREM Stability == Spec => RoutesAreStable
<1>1. ASSUME IInv, [Next]_vars, IsUnderWay
      PROVE  routes' = routes /\ writers' = writers
  <2>1. frozen
    BY <1>1 DEF IInv, FrozenInTime
  <2> QED
    BY <2>1, <1>1 DEF Next, AddTranslator, Freeze, BeginEvent, FailToGetTable, TranslateType,
                      FailToConvert, EndEvent, FailToOpen, DumpEvent, FailToWrite, FailToClose, vars
<1>2. IInv /\ [Next]_vars
        => [IsUnderWay => routes' = routes /\ writers' = writers]_vars
  BY <1>1
<1> QED
  BY <1>2, Invariance, PTL DEF Spec, RoutesAreStable

-----------------------------------------------------------------------------
(* The dump.  Its files follow the events in the order in which it gets    *)
(* them, and what it gets has been translated completely.                  *)

\* All rows there are.
RowSet == [event : {e.name : e \in Events}, hit : Nat]

\* The types of the dump's variables; what is not open is empty.
DumpTyped ==
    /\ frozen \in BOOLEAN /\ opened \in BOOLEAN /\ failed \in BOOLEAN
    /\ dumped \in Seq(Events)
    /\ ~opened => dumped = << >> /\ DOMAIN files = {}

\* The invariant of the dump, which rests on IInv.
DumpInv == DumpTyped /\ FilesAreExact

\* The hits due are listed by their positions in the event.
LEMMA DueIsSequence ==
    ASSUME NEW e \in Events, NEW r
    PROVE  Due(e, r) \in Seq(Nat)
<1> DEFINE S == {k \in DOMAIN e.hits : <<e.hits[k].type, e.table[e.hits[k].address]>> = r}
<1>1. e.hits \in Seq(Hits)
  BY EventsHaveHits
<1>2. Len(e.hits) \in Nat /\ DOMAIN e.hits = 1..Len(e.hits)
  BY <1>1, LenProperties
<1>3. S \in SUBSET (1..Len(e.hits)) /\ S \in SUBSET Nat
  BY <1>2
<1>4. Due(e, r) = InOrder(S)
  BY DEF Due
<1> HIDE DEF S
<1>5. Cardinality(S) \in Nat /\ \E s : Ascends(s, S)
  BY <1>2, <1>3, ListingExists
<1>6. InOrder(S) \in [1..Cardinality(S) -> S]
  BY <1>5 DEF InOrder, Ascends
<1>7. InOrder(S) \in [1..Cardinality(S) -> Nat]
  BY <1>3, <1>6
<1> QED
  BY <1>4, <1>5, <1>7, SeqDef

\* So are the rows due.
LEMMA RowsOfType ==
    ASSUME NEW e \in Events, NEW r
    PROVE  RowsOf(e, r) \in Seq(RowSet) /\ Len(RowsOf(e, r)) = Len(Due(e, r))
<1> DEFINE due == Due(e, r)
           n == Len(due)
           f == [k \in DOMAIN due |-> [event |-> e.name, hit |-> due[k]]]
<1>1. due \in Seq(Nat)
  BY DueIsSequence
<1>2. RowsOf(e, r) = f
  BY DEF RowsOf
<1> HIDE DEF due
<1>3. n \in Nat /\ DOMAIN due = 1..n /\ \A k \in 1..n : due[k] \in Nat
  BY <1>1, LenProperties, ElementOfSeq
<1> HIDE DEF n
<1>4. f \in [1..n -> RowSet]
  BY <1>3 DEF RowSet
<1> HIDE DEF f
<1>5. f \in Seq(RowSet)
  BY <1>3, <1>4, SeqDef
<1>6. DOMAIN f = 1..n /\ DOMAIN f = 1..Len(f) /\ Len(f) \in Nat
  BY <1>4, <1>5, LenProperties
<1>7. Len(f) = n
  BY <1>3, <1>6
<1> QED
  BY <1>2, <1>5, <1>7 DEF n, due

\* The dump writes the rows that are due.
LEMMA RowsAreDue ==
    ASSUME IInv, NEW done \in translated, NEW r \in routes
    PROVE  done.event \in Events /\ Rows(done, r) = RowsOf(done.event, r)
<1>1. done.event \in Events
  BY DEF IInv, BegunEvents
<1>2. DOMAIN done.outputs = {q \in routes : Due(done.event, q) # << >>}
  BY DEF IInv, EventsAreTranslated
<1>3. CASE r \in DOMAIN done.outputs
  <2>1. done.outputs[r] = Due(done.event, r)
    BY <1>3 DEF IInv, EventsAreTranslated
  <2> QED
    BY <1>1, <1>3, <2>1 DEF Rows, RowsOf
<1>4. CASE r \notin DOMAIN done.outputs
  <2>1. Due(done.event, r) = << >>
    BY <1>2, <1>4
  <2>2. Rows(done, r) = << >>
    BY <1>4 DEF Rows
  <2>3. DOMAIN << >> = {} /\ RowsOf(done.event, r) = [k \in {} |-> [event |-> done.event.name, hit |-> Due(done.event, r)[k]]]
    BY <2>1 DEF RowsOf
  <2>4. Len(RowsOf(done.event, r)) = 0 /\ RowsOf(done.event, r) \in Seq(RowSet)
    BY <1>1, <2>1, RowsOfType, EmptySeq
  <2> HIDE DEF RowsOf
  <2>5. RowsOf(done.event, r) = << >>
    BY <2>4, EmptySeq
  <2> QED
    BY <1>1, <2>2, <2>5
<1> QED
  BY <1>3, <1>4

\* An event more adds its rows at the end.
LEMMA RowsDueGrow ==
    ASSUME NEW r, NEW e \in Events, dumped \in Seq(Events)
    PROVE  /\ RowsDue(r) \in Seq(RowSet)
           /\ dumped' = Append(dumped, e) => RowsDue(r)' = RowsDue(r) \o RowsOf(e, r)
<1> DEFINE F == [x \in Events |-> RowsOf(x, r)]
           longer == Append(dumped, e)
           ss == Mapped(F, dumped)
           tt == Mapped(F, longer)
<1>1. F \in [Events -> Seq(RowSet)]
  BY RowsOfType
<1>2. ss \in Seq(Seq(RowSet)) /\ tt = Append(ss, F[e])
  <2>1. IsMap(F, Events, Seq(RowSet))
    BY <1>1 DEF IsMap
  <2> HIDE DEF F
  <2> QED
    BY <2>1, MapAppend
<1>3. /\ \A i \in DOMAIN dumped : dumped[i] \in Events
      /\ \A i \in DOMAIN longer : longer[i] \in Events
  <2>1. longer \in Seq(Events)
    BY AppendProperties
  <2> HIDE DEF longer
  <2> QED
    BY <2>1, LenProperties, ElementOfSeq
<1>4. RowsDue(r) = FlattenSeq(ss)
  <2>1. ss = [i \in DOMAIN dumped |-> RowsOf(dumped[i], r)]
    BY <1>3 DEF Mapped
  <2> QED
    BY <2>1 DEF RowsDue, RowsOf
<1>5. ASSUME dumped' = longer PROVE RowsDue(r)' = FlattenSeq(tt)
  <2>1. tt = [i \in DOMAIN longer |-> RowsOf(longer[i], r)]
    BY <1>3 DEF Mapped
  <2> HIDE DEF longer
  <2> QED
    BY <1>5, <2>1 DEF RowsDue, RowsOf
<1>6. F[e] = RowsOf(e, r) /\ F[e] \in Seq(RowSet)
  BY <1>1
<1> HIDE DEF ss, tt, F
<1>7. FlattenSeq(ss) \in Seq(RowSet) /\ FlattenSeq(tt) = FlattenSeq(ss) \o F[e]
  BY <1>2, <1>6, FlattenAppend
<1> QED
  BY <1>4, <1>5, <1>6, <1>7

\* Before anything is dumped no row is due.
LEMMA NothingDue ==
    ASSUME NEW r, dumped = << >>
    PROVE  RowsDue(r) = << >>
<1>1. RowsDue(r) = FlattenSeq([i \in DOMAIN << >> |-> RowsOf(dumped[i], r)])
  BY DEF RowsDue, RowsOf
<1>2. [i \in DOMAIN << >> |-> RowsOf(dumped[i], r)] = << >>
  OBVIOUS
<1> QED
  BY <1>1, <1>2, FlattenEmpty

\* The rows due are rows, whatever was dumped.
LEMMA RowsDueType ==
    ASSUME NEW r, dumped \in Seq(Events)
    PROVE  RowsDue(r) \in Seq(RowSet)
<1>1. CASE dumped = << >>
  BY <1>1, NothingDue, EmptySeq
<1>2. CASE dumped # << >>
  <2>1. PICK e : e \in Events
    BY <1>2, EmptySeq
  <2> QED
    BY <2>1, RowsDueGrow
<1> QED
  BY <1>1, <1>2

\* What openOutputs finds or makes: a file per route, with the rows due.
LEMMA OpenFilesAreExact ==
    ASSUME IInv, DumpInv, ~failed
    PROVE  /\ DOMAIN OpenFiles = routes
           /\ \A r \in routes : OpenFiles[r] = RowsDue(r)
<1>1. CASE opened
  BY <1>1 DEF DumpInv, FilesAreExact, OpenFiles
<1>2. CASE ~opened
  <2>1. OpenFiles = [r \in routes |-> << >>]
    BY <1>2 DEF OpenFiles, IInv, WritersMatchRoutes
  <2>2. \A r \in routes : RowsDue(r) = << >>
    BY <1>2, NothingDue DEF DumpInv, DumpTyped
  <2> QED
    BY <2>1, <2>2
<1> QED
  BY <1>1, <1>2

\* A step that leaves the dump alone, and no open file without its route.
LEMMA DumpUnmoved ==
    ASSUME DumpInv, frozen' \in BOOLEAN, opened => routes' = routes /\ writers' = writers,
           translated \subseteq translated', UNCHANGED dumpVars
    PROVE  DumpInv'
<1>1. DumpTyped'
  BY DEF DumpInv, DumpTyped, dumpVars
<1>2. \A r : RowsDue(r)' = RowsDue(r)
  BY DEF RowsDue, dumpVars
<1>3. FilesAreExact'
  <2> SUFFICES ASSUME opened PROVE FilesAreExact'
    BY DEF FilesAreExact, dumpVars
  <2>1. /\ routes' = routes /\ writers' = writers
        /\ files' = files /\ failed' = failed
    BY DEF dumpVars
  <2>2. DOMAIN files = routes
    BY DEF DumpInv, FilesAreExact
  <2>3. CASE \A r \in routes : files[r] = RowsDue(r)
    BY <1>2, <2>1, <2>2, <2>3 DEF FilesAreExact
  <2>4. CASE failed /\ FailedAtClose
    <3>1. FailedAtClose'
      BY <1>2, <2>1, <2>4 DEF FailedAtClose
    <3> QED
      BY <2>1, <2>2, <2>4, <3>1 DEF FilesAreExact
  <2>5. CASE failed /\ \E done \in translated : FailedAtEvent(done.event)
    <3>1. PICK done \in translated : FailedAtEvent(done.event)
      BY <2>5
    <3>2. FailedAtEvent(done.event)'
      BY <1>2, <2>1, <3>1 DEF FailedAtEvent
    <3>3. done \in translated'
      OBVIOUS
    <3>4. \E x \in translated' : FailedAtEvent(x.event)'
      BY <3>2, <3>3
    <3> QED
      BY <2>1, <2>2, <2>5, <3>4 DEF FilesAreExact
  <2> QED
    BY <2>3, <2>4, <2>5 DEF DumpInv, FilesAreExact
<1> QED
  BY <1>1, <1>3 DEF DumpInv

\* The dump of one event.
LEMMA DumpEventStep ==
    ASSUME IInv, DumpInv, DumpEvent
    PROVE  DumpInv'
<1>1. PICK done \in translated :
          /\ files' = [r \in DOMAIN OpenFiles |-> OpenFiles[r] \o Rows(done, r)]
          /\ dumped' = Append(dumped, done.event)
  BY DEF DumpEvent
<1>2. ~failed /\ ~failed' /\ opened' /\ frozen' /\ routes' = routes
  BY DEF DumpEvent
<1>3. done.event \in Events
  BY DEF IInv, BegunEvents
<1>4. dumped \in Seq(Events)
  BY DEF DumpInv, DumpTyped
<1>5. DumpTyped'
  BY <1>1, <1>2, <1>3, <1>4, AppendProperties DEF DumpEvent, DumpTyped, DumpInv
<1>6. DOMAIN files' = routes'
  BY <1>1, <1>2, OpenFilesAreExact
<1>7. ASSUME NEW r \in routes PROVE files'[r] = RowsDue(r)'
  <2>1. files'[r] = OpenFiles[r] \o Rows(done, r) /\ OpenFiles[r] = RowsDue(r)
    BY <1>1, <1>2, OpenFilesAreExact
  <2>2. Rows(done, r) = RowsOf(done.event, r)
    BY RowsAreDue
  <2>3. RowsDue(r)' = RowsDue(r) \o RowsOf(done.event, r)
    BY <1>1, <1>3, <1>4, RowsDueGrow
  <2> QED
    BY <2>1, <2>2, <2>3
<1>8. FilesAreExact'
  BY <1>2, <1>6, <1>7 DEF FilesAreExact
<1> QED
  BY <1>5, <1>8 DEF DumpInv

\* What a stream has written is the beginning of what it was given.
LEMMA CutIsPrefix ==
    ASSUME NEW S, NEW s \in Seq(S), NEW n \in 0..Len(s)
    PROVE  IsPrefix(SubSeq(s, 1, n), s)
<1> DEFINE t == SubSeq(s, 1, n)
<1>1. Len(s) \in Nat
  BY LenProperties
<1>2. n \in Nat /\ n <= Len(s)
  BY <1>1
<1>3. t \in Seq(S) /\ Len(t) = n
  <2>1. t \in Seq(S)
    OBVIOUS
  <2>2. Len(t) = IF 1 <= n THEN n - 1 + 1 ELSE 0
    BY <1>1, <1>2, SubSeqProperties
  <2> QED
    BY <1>2, <2>1, <2>2
<1>4. SubSeq(t, 1, Len(t)) = t
  BY <1>3, SubSeqFull
<1> HIDE DEF t
<1>5. SubSeq(t, 1, Len(t)) = SubSeq(s, 1, Len(t))
  BY <1>3, <1>4 DEF t
<1> QED
  BY <1>2, <1>3, <1>5 DEF IsPrefix, t

\* A stream that fails on an event loses the end of its own file, and the files after
\* it lack the rows of that event.
LEMMA FailToWriteStep ==
    ASSUME IInv, DumpInv, FailToWrite
    PROVE  DumpInv'
<1> DEFINE whole(done, r) == OpenFiles[r] \o Rows(done, r)
<1>1. PICK done \in translated, k \in DOMAIN writers :
          \E n \in 0..Len(whole(done, writers[k])) - 1 :
             files' = [r \in DOMAIN OpenFiles |->
                          IF r = writers[k] THEN SubSeq(whole(done, r), 1, n)
                          ELSE IF r \in Range(SubSeq(writers, 1, k - 1))
                               THEN whole(done, r) ELSE OpenFiles[r]]
  BY DEF FailToWrite
<1>2. PICK n \in 0..Len(whole(done, writers[k])) - 1 :
          files' = [r \in DOMAIN OpenFiles |->
                       IF r = writers[k] THEN SubSeq(whole(done, r), 1, n)
                       ELSE IF r \in Range(SubSeq(writers, 1, k - 1))
                            THEN whole(done, r) ELSE OpenFiles[r]]
  BY <1>1
<1>3. /\ ~failed /\ failed' /\ opened' /\ frozen' /\ routes' = routes /\ writers' = writers
      /\ dumped' = dumped /\ translated' = translated
  BY DEF FailToWrite
<1>4. DumpTyped'
  BY <1>3 DEF DumpTyped, DumpInv, FailToWrite
<1>5. DOMAIN OpenFiles = routes /\ \A r \in routes : OpenFiles[r] = RowsDue(r)
  BY <1>3, OpenFilesAreExact
<1>6. \A r \in routes : Rows(done, r) = RowsOf(done.event, r)
  BY RowsAreDue
<1>7. done.event \in Events /\ dumped \in Seq(Events)
  BY DEF IInv, BegunEvents, DumpInv, DumpTyped
<1>8. \A r : RowsDue(r)' = RowsDue(r)
  BY <1>3 DEF RowsDue
<1>9. /\ writers \in Seq(Routes) /\ Len(writers) \in Nat /\ DOMAIN writers = 1..Len(writers)
      /\ \A l \in DOMAIN writers : writers[l] \in routes
      /\ \A l \in DOMAIN writers : writers[l] = writers[k] => l = k
  BY LenProperties DEF IInv, Typed, WritersMatchRoutes, Range
<1>10. \A l \in DOMAIN writers : writers[l] \in Range(SubSeq(writers, 1, k - 1)) <=> l < k
  <2> DEFINE before == SubSeq(writers, 1, k - 1)
  <2>1. /\ DOMAIN before = 1..(k - 1)
        /\ \A i \in 1..(k - 1) : before[i] = writers[i]
    BY <1>9
  <2>2. \A l, i \in DOMAIN writers : writers[l] = writers[i] => l = i
    BY DEF IInv, WritersMatchRoutes
  <2> HIDE DEF before
  <2>3. ASSUME NEW l \in DOMAIN writers, l < k PROVE writers[l] \in Range(before)
    <3>1. l \in 1..(k - 1)
      BY <1>9, <2>3
    <3> QED
      BY <2>1, <3>1 DEF Range
  <2>4. ASSUME NEW l \in DOMAIN writers, writers[l] \in Range(before) PROVE l < k
    <3>1. PICK i \in 1..(k - 1) : before[i] = writers[l]
      BY <2>1, <2>4 DEF Range
    <3>2. i \in DOMAIN writers /\ writers[i] = writers[l]
      BY <1>9, <2>1, <3>1
    <3> QED
      BY <1>9, <2>2, <3>1, <3>2
  <2> QED
    BY <2>3, <2>4 DEF before
<1>11. FailedAtEvent(done.event)'
  <2> DEFINE after(r) == RowsDue(r) \o RowsOf(done.event, r)
  <2>1. ASSUME NEW l \in DOMAIN writers
        PROVE  /\ l < k => files'[writers[l]] = after(writers[l])
               /\ l = k => IsPrefix(files'[writers[l]], after(writers[l]))
               /\ l > k => files'[writers[l]] = RowsDue(writers[l])
    <3> DEFINE r == writers[l]
    <3>1. r \in routes /\ l \in Nat /\ k \in Nat
      BY <1>9
    <3>2. whole(done, r) = after(r) /\ OpenFiles[r] = RowsDue(r)
      BY <1>5, <1>6, <3>1
    <3>3. files'[r] = IF r = writers[k] THEN SubSeq(whole(done, r), 1, n)
                      ELSE IF r \in Range(SubSeq(writers, 1, k - 1))
                           THEN whole(done, r) ELSE OpenFiles[r]
      BY <1>2, <1>5, <3>1
    <3>4. after(r) \in Seq(RowSet)
      BY <1>7, RowsDueGrow, RowsOfType, ConcatProperties
    <3> HIDE DEF after, whole
    <3>5. CASE l < k
      BY <1>9, <1>10, <3>1, <3>2, <3>3, <3>5
    <3>6. CASE l > k
      BY <1>9, <1>10, <3>1, <3>2, <3>3, <3>6
    <3>7. CASE l = k
      <4>1. files'[r] = SubSeq(after(r), 1, n) /\ n \in 0..Len(after(r)) - 1
        BY <1>2, <3>2, <3>3, <3>7
      <4>2. n \in 0..Len(after(r))
        BY <3>4, <4>1, LenProperties
      <4>3. IsPrefix(files'[r], after(r))
        BY <3>4, <4>1, <4>2, CutIsPrefix
      <4> QED
        BY <3>1, <3>7, <4>3
    <3> QED
      BY <3>1, <3>5, <3>6, <3>7
  <2> QED
    BY <1>3, <1>8, <2>1 DEF FailedAtEvent
<1>12. DOMAIN files' = routes'
  BY <1>2, <1>3, <1>5
<1> QED
  BY <1>3, <1>4, <1>11, <1>12 DEF DumpInv, FilesAreExact

\* A stream that fails when it is closed loses the end of its own file.
LEMMA FailToCloseStep ==
    ASSUME DumpInv, FailToClose
    PROVE  DumpInv'
<1>1. /\ opened /\ ~failed /\ failed' /\ opened' /\ frozen' = frozen
      /\ routes' = routes /\ dumped' = dumped
  BY DEF FailToClose
<1>2. DOMAIN files = routes /\ \A r \in routes : files[r] = RowsDue(r)
  BY <1>1 DEF DumpInv, FilesAreExact
<1>3. PICK r \in routes :
          \E n \in 0..Len(RowsDue(r)) - 1 : files' = [files EXCEPT ![r] = SubSeq(RowsDue(r), 1, n)]
  BY <1>2 DEF FailToClose
<1> PICK n \in 0..Len(RowsDue(r)) - 1 : files' = [files EXCEPT ![r] = SubSeq(RowsDue(r), 1, n)]
  BY <1>3
<1>4. DumpTyped'
  BY <1>1 DEF DumpTyped, DumpInv
<1>5. \A q : RowsDue(q)' = RowsDue(q)
  BY <1>1 DEF RowsDue
<1>6. RowsDue(r) \in Seq(RowSet)
  BY RowsDueType DEF DumpInv, DumpTyped
<1>7. /\ files'[r] = SubSeq(RowsDue(r), 1, n)
      /\ \A q \in routes \ {r} : files'[q] = RowsDue(q)
      /\ DOMAIN files' = routes
  BY <1>2
<1>8. n \in 0..Len(RowsDue(r))
  BY <1>6, LenProperties
<1>9. IsPrefix(files'[r], RowsDue(r))
  BY <1>6, <1>7, <1>8, CutIsPrefix
<1>10. FailedAtClose'
  BY <1>1, <1>5, <1>7, <1>9 DEF FailedAtClose
<1> QED
  BY <1>1, <1>4, <1>7, <1>10 DEF DumpInv, FilesAreExact

(* No step of a worker or of the dump disturbs the files.                  *)
LEMMA DumpStep == IInv /\ DumpInv /\ [Next]_vars => DumpInv'
<1> SUFFICES ASSUME IInv, DumpInv, [Next]_vars PROVE DumpInv'
  OBVIOUS
<1>1. opened => frozen
  BY DEF IInv, FrozenInTime, IsUnderWay
<1>2. frozen \in BOOLEAN
  BY DEF DumpInv, DumpTyped
<1>3. ASSUME NEW t \in Types, NEW d \in Detectors, AddTranslator(t, d) PROVE DumpInv'
  BY <1>1, <1>2, <1>3, DumpUnmoved DEF AddTranslator
<1>4. CASE Freeze
  BY <1>4, DumpUnmoved DEF Freeze
<1>5. ASSUME NEW w \in Workers, BeginEvent(w) PROVE DumpInv'
  BY <1>5, DumpUnmoved DEF BeginEvent
<1>6. ASSUME NEW w \in Workers, NEW t \in Types, TranslateType(w, t) PROVE DumpInv'
  BY <1>2, <1>6, DumpUnmoved DEF TranslateType
<1>7. ASSUME NEW w \in Workers, EndEvent(w) PROVE DumpInv'
  BY <1>2, <1>7, DumpUnmoved DEF EndEvent
<1>8. CASE FailToOpen
  BY <1>8 DEF FailToOpen, DumpInv, DumpTyped, FilesAreExact
<1>9. CASE DumpEvent
  BY <1>9, DumpEventStep
<1>10. CASE FailToWrite
  BY <1>10, FailToWriteStep
<1>11. CASE FailToClose
  BY <1>11, FailToCloseStep
<1>12. ASSUME NEW w \in Workers, FailToGetTable(w) PROVE DumpInv'
  BY <1>2, <1>12, DumpUnmoved DEF FailToGetTable
<1>13. ASSUME NEW w \in Workers, NEW t \in Types, FailToConvert(w, t) PROVE DumpInv'
  BY <1>2, <1>13, DumpUnmoved DEF FailToConvert
<1>14. CASE UNCHANGED vars
  BY <1>2, <1>14, DumpUnmoved DEF vars
<1> QED
  BY <1>3, <1>4, <1>5, <1>6, <1>7, <1>8, <1>9, <1>10, <1>11, <1>12, <1>13, <1>14 DEF Next

(* The dump's invariant holds in every behaviour.                          *)
THEOREM DumpInvariance == Spec => []DumpInv
<1>1. Init => DumpInv
  <2>1. << >> \in Seq(Events) /\ DOMAIN << >> = {}
    BY EmptySeq
  <2> QED
    BY <2>1 DEF Init, DumpInv, DumpTyped, FilesAreExact
<1> QED
  BY <1>1, DumpStep, Invariance, PTL DEF Spec

(* Once the dump is open, every route has its file, with the rows of the   *)
(* events dumped, in the order in which the dump got them; if a stream has *)
(* failed, one file ends early, and others may have the rows of one event  *)
(* that was not dumped.                                                    *)
THEOREM Files == Spec => []FilesAreExact
<1>1. DumpInv => FilesAreExact
  BY DEF DumpInv
<1> QED
  BY <1>1, DumpInvariance, PTL

(* The variables of the translators map and of the dump keep their types.  *)
THEOREM TypeCorrect == Spec => []TypeOK
<1>1. IInv /\ DumpInv => TypeOK
  <2> SUFFICES ASSUME IInv, DumpInv PROVE TypeOK
    OBVIOUS
  <2>1. ASSUME NEW w \in Workers
        PROVE  /\ DOMAIN outputs[w] \subseteq Routes
               /\ \A r \in DOMAIN outputs[w] : outputs[w][r] \in Seq(Nat)
               /\ event[w] = None => visited[w] = {} /\ outputs[w] = << >>
    <3>1. CASE event[w] = None
      BY <3>1 DEF IInv, OutputsAreDue
    <3>2. CASE event[w] # None
      <4>1. event[w] \in Events
        BY <3>2 DEF IInv, BegunEvents
      <4> QED
        BY <3>2, <4>1, DueIsSequence DEF IInv, OutputsAreDue, Typed
    <3> QED
      BY <3>1, <3>2
  <2>2. \A done \in translated : done.event \in Events /\ DOMAIN done.outputs \subseteq Routes
    BY DEF IInv, BegunEvents, EventsAreTranslated, Typed
  <2>3. DOMAIN files \subseteq Routes
    BY DEF IInv, Typed, DumpInv, DumpTyped, FilesAreExact
  <2>4. DOMAIN outputs = Workers
    BY DEF IInv, Typed
  <2> QED
    BY <2>1, <2>2, <2>3, <2>4 DEF TypeOK, IInv, Typed, DumpInv, DumpTyped
<1> QED
  BY <1>1, Invariance, DumpInvariance, PTL

===============================================================================

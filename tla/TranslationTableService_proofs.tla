------------------ MODULE TranslationTableService_proofs ------------------
(***************************************************************************)
(* What getTable returns is right for every set of workers, catalogs and   *)
(* run numbers.  The lemmas come first: what loadTables relies on about    *)
(* ranges and boundaries, then that each step keeps the parts of IInv.     *)
(***************************************************************************)
EXTENDS TranslationTableService, TLAPS

\* In a manifest that was accepted, the range before the upper bound is the
\* only one that can cover the run.
LEMMA FindRangeCovers ==
    ASSUME NEW ranges \in SUBSET Ranges, IsManifest(ranges), NEW run \in Runs
    PROVE  FindRange(ranges, run) = {g \in ranges : Covers(g, run)}
<1>1. ASSUME NEW g \in ranges, Covers(g, run)
      PROVE  g \in FindRange(ranges, run)
  <2>1. ASSUME NEW h \in ranges, h.min <= run
        PROVE  h.min <= g.min
    <3>1. g = h \/ g.max < h.min \/ h.max < g.min
      BY DEF IsManifest
    <3>2. g \in Ranges /\ h \in Ranges /\ h.min <= h.max /\ g.min <= run /\ run <= g.max
      BY <1>1 DEF IsManifest, Covers
    <3>3. g.min \in Int /\ g.max \in Int /\ h.min \in Int /\ h.max \in Int /\ run \in Int
      BY <3>2, MaxRunIsNat DEF Ranges, Runs
    <3> QED
      BY <3>1, <3>2, <3>3, <2>1
  <2> QED
    BY <2>1, <1>1 DEF FindRange, Covers
<1>2. ASSUME NEW g \in FindRange(ranges, run)
      PROVE  g \in ranges /\ Covers(g, run)
  BY <1>2 DEF FindRange, Covers
<1> QED
  BY <1>1, <1>2

\* Between two boundaries, the same ranges cover every run.
LEMMA NoChangeBetween ==
    ASSUME NEW ranges \in SUBSET Ranges, NEW b \in Runs, NEW r \in Runs, b <= r,
           \A c \in Boundaries(ranges) : c <= b \/ r < c,
           NEW g \in ranges
    PROVE  Covers(g, b) <=> Covers(g, r)
<1>1. g \in Ranges
  OBVIOUS
<1>2. g.min \in Runs /\ g.max \in Runs
  BY <1>1 DEF Ranges
<1>3. g.min <= b \/ r < g.min
  BY DEF Boundaries
<1>4. g.max = MaxRun \/ g.max + 1 <= b \/ r < g.max + 1
  BY DEF Boundaries
<1> QED
  BY <1>2, <1>3, <1>4, MaxRunIsNat DEF Covers, Runs

\* All boundaries are run numbers: the increment does not overflow.
LEMMA BoundariesAreRuns ==
    ASSUME NEW ranges \in SUBSET Ranges
    PROVE  Boundaries(ranges) \subseteq Runs
<1>1. ASSUME NEW g \in ranges
      PROVE  g.min \in Runs /\ g.max \in Runs
  BY DEF Ranges
<1>2. ASSUME NEW g \in ranges, g.max # MaxRun
      PROVE  g.max + 1 \in Runs
  BY <1>1, <1>2, MaxRunIsNat DEF Runs
<1> QED
  BY <1>1, <1>2 DEF Boundaries

\* A list that is extended at its end stays a list of run tables.
LEMMA ExtendedType ==
    ASSUME NEW ts \in Seq(RunRangeTables), NEW min \in Runs, NEW max \in Runs,
           NEW table \in Tables
    PROVE  Extended(ts, min, max, table) \in Seq(RunRangeTables)
<1> DEFINE last == ts[Len(ts)]
<1>1. [min |-> min, max |-> max, table |-> table] \in RunRangeTables
  BY DEF RunRangeTables
<1>2. CASE ts # << >>
  <2>1. Len(ts) \in DOMAIN ts /\ last \in RunRangeTables
    BY <1>2
  <2>2. [last EXCEPT !.max = max] \in RunRangeTables
    BY <2>1 DEF RunRangeTables
  <2>3. [ts EXCEPT ![Len(ts)] = [@ EXCEPT !.max = max]] \in Seq(RunRangeTables)
    BY <2>1, <2>2
  <2> QED
    BY <1>1, <2>3 DEF Extended
<1>3. CASE ts = << >>
  BY <1>1, <1>3 DEF Extended
<1> QED
  BY <1>2, <1>3

\* What an iteration of loadTables' loop does to the list: it stays ordered,
\* covers what it covered before the interval, and, unless the interval has no
\* table, the interval.
LEMMA ExtendedCovers ==
    ASSUME NEW ts \in Seq(RunRangeTables), IsOrdered(ts),
           NEW min \in Runs, NEW max \in Runs, NEW table \in Tables,
           min <= max, \A k \in DOMAIN ts : ts[k].max < min
    PROVE  LET es == Extended(ts, min, max, table)
           IN  /\ IsOrdered(es)
               /\ \A k \in DOMAIN es : es[k].max <= max
               /\ \A r \in Runs, k \in DOMAIN es : Covers(es[k], r) =>
                     \/ r < min /\ \E j \in DOMAIN ts : Covers(ts[j], r)
                                                        /\ ts[j].table = es[k].table
                     \/ min <= r /\ r <= max /\ es[k].table = table
               /\ \A r \in Runs, j \in DOMAIN ts : Covers(ts[j], r) =>
                     \E k \in DOMAIN es : Covers(es[k], r)
               /\ table # {} => \A r \in Runs : min <= r /\ r <= max =>
                     \E k \in DOMAIN es : Covers(es[k], r)
<1> DEFINE es == Extended(ts, min, max, table)
           n == Len(ts)
           row == [min |-> min, max |-> max, table |-> table]
<1>1. /\ n \in Nat /\ DOMAIN ts = 1..n
      /\ \A k \in 1..n : ts[k] \in RunRangeTables
  OBVIOUS
<1>10. n \in Nat
  OBVIOUS
<1>2. \A k \in 1..n : ts[k].min \in Int /\ ts[k].max \in Int
  BY SMTT(30), <1>1, MaxRunIsNat DEF RunRangeTables, Runs
<1>7. \A k \in 1..n : ts[k].min <= ts[k].max /\ ts[k].max < min
  BY <1>1 DEF IsOrdered
<1>8. \A j, k \in 1..n : j < k => ts[j].max < ts[k].min
  BY <1>1 DEF IsOrdered
<1>9. \A j, k \in 1..n : k = j + 1 /\ ts[j].max + 1 = ts[k].min => ts[j].table # ts[k].table
  BY <1>1 DEF IsOrdered
<1>3. min \in Int /\ max \in Int /\ Runs \subseteq Int
  BY MaxRunIsNat DEF Runs
<1>4. CASE table = {}
  <2>1. es = ts
    BY <1>4 DEF Extended
  <2>2. \A k \in 1..n : ts[k].max <= max
    BY <1>1, <1>2, <1>3
  <2>3. \A r \in Runs, k \in 1..n : Covers(ts[k], r) => r < min
    BY <1>1, <1>2, <1>3 DEF Covers
  <2> QED
    BY <1>1, <1>4, <2>1, <2>2, <2>3
<1>5. CASE /\ table # {} /\ ts # << >> /\ ts[n].max # MaxRun /\ ts[n].max + 1 = min
           /\ ts[n].table = table
  <2>1. es = [ts EXCEPT ![n] = [@ EXCEPT !.max = max]]
    BY <1>5 DEF Extended
  <2>2. n \in 1..n
    BY <1>1, <1>5
  <2>3. DOMAIN es = 1..n /\ \A k \in 1..n : k # n => es[k] = ts[k]
    BY <1>1, <2>1
  <2>4. es[n].min = ts[n].min /\ es[n].max = max /\ es[n].table = table
    BY <1>1, <1>5, <2>1, <2>2 DEF RunRangeTables
  <2>10. \A k \in 1..n : es[k].min = ts[k].min /\ es[k].table = ts[k].table
    BY <1>5, <2>3, <2>4
  <2>11. \A k \in 1..n : k # n => es[k].max = ts[k].max
    BY <2>3
  <2>5. IsOrdered(es)
    <3>1. \A k \in 1..n : es[k].min <= es[k].max
      <4>1. \A k \in 1..n : k # n => es[k].min <= es[k].max
        BY <1>7, <2>10, <2>11
      <4>2. es[n].min <= es[n].max
        BY <1>2, <1>3, <1>7, <2>2, <2>4
      <4> QED
        BY <4>1, <4>2
    <3>2. \A j, k \in 1..n : j < k => es[j].max < es[k].min
      <4> SUFFICES ASSUME NEW j \in 1..n, NEW k \in 1..n, j < k
                   PROVE  es[j].max < es[k].min
        OBVIOUS
      <4>1. j # n
        BY <1>10
      <4> QED
        BY <1>8, <2>10, <2>11, <4>1
    <3>3. \A j, k \in 1..n : k = j + 1 /\ es[j].max + 1 = es[k].min => es[j].table # es[k].table
      <4> SUFFICES ASSUME NEW j \in 1..n, NEW k \in 1..n, k = j + 1, es[j].max + 1 = es[k].min
                   PROVE  es[j].table # es[k].table
        OBVIOUS
      <4>3. j # n
        BY <1>10
      <4>1. es[j] = ts[j] /\ es[k].min = ts[k].min /\ es[k].table = ts[k].table
        BY <4>3, <2>3, <2>10
      <4>2. ts[j].max + 1 = ts[k].min
        BY <4>1
      <4> QED
        BY <4>1, <4>2, <1>9, <2>10
    <3> QED
      BY <2>3, <3>1, <3>2, <3>3 DEF IsOrdered
  <2>6. \A k \in 1..n : es[k].max <= max
    <3>1. \A k \in 1..n : k # n => es[k].max <= max
      BY <1>2, <1>3, <1>7, <2>11
    <3> QED
      BY <1>3, <2>4, <3>1
  <2>7. ASSUME NEW r \in Runs, NEW k \in 1..n, Covers(es[k], r)
        PROVE  \/ r < min /\ \E j \in DOMAIN ts : Covers(ts[j], r) /\ ts[j].table = es[k].table
               \/ min <= r /\ r <= max /\ es[k].table = table
    <3>1. CASE k # n
      BY <1>1, <1>2, <1>3, <2>3, <2>7, <3>1 DEF Covers
    <3>2. CASE k = n /\ r < min
      <4>1. Covers(ts[n], r) /\ ts[n].table = es[n].table
        BY <1>2, <1>3, <1>5, <2>2, <2>4, <2>7, <3>2 DEF Covers
      <4> QED
        BY <4>1, <3>2, <1>1, <2>2
    <3>3. CASE k = n /\ min <= r
      <4>1. r <= es[n].max
        BY <2>7, <3>3 DEF Covers
      <4> QED
        BY <2>4, <3>3, <4>1
    <3>4. r < min \/ min <= r
      <4>1. min \in Int /\ r \in Int
        BY <1>3
      <4> QED
        BY <4>1
    <3> QED
      BY <3>1, <3>2, <3>3, <3>4
  <2>8. ASSUME NEW r \in Runs, NEW j \in 1..n, Covers(ts[j], r)
        PROVE  Covers(es[j], r)
    <3>1. es[j].min = ts[j].min
      BY <2>10
    <3>2. r <= es[j].max
      <4>1. CASE j = n
        BY <1>2, <1>3, <1>7, <2>4, <2>8, <4>1 DEF Covers
      <4>2. CASE j # n
        BY <2>8, <2>11, <4>2 DEF Covers
      <4> QED
        BY <4>1, <4>2
    <3> QED
      BY <2>8, <3>1, <3>2 DEF Covers
  <2>9. ASSUME NEW r \in Runs, min <= r, r <= max
        PROVE  Covers(es[n], r)
    <3>1. ts[n].min <= ts[n].max
      BY <1>1, <2>2 DEF IsOrdered
    <3> QED
      BY <1>2, <1>3, <1>5, <2>2, <2>4, <2>9, <3>1 DEF Covers
  <2> QED
    BY <1>1, <2>2, <2>3, <2>5, <2>6, <2>7, <2>8, <2>9
<1>6. CASE /\ table # {}
           /\ ~(ts # << >> /\ ts[n].max # MaxRun /\ ts[n].max + 1 = min /\ ts[n].table = table)
  <2>1. es = Append(ts, row)
    BY <1>6 DEF Extended
  <2>2. Len(es) = n + 1 /\ DOMAIN es = 1..(n + 1)
    BY <1>1, <2>1
  <2>3. /\ \A k \in 1..n : es[k] = ts[k]
        /\ es[n + 1] = row
    BY <1>1, <2>1
  <2>4. es[n + 1].min = min /\ es[n + 1].max = max /\ es[n + 1].table = table
    BY <2>3
  <2>5. \A k \in 1..(n + 1) : k = n + 1 \/ k \in 1..n
    BY <1>1
  <2>6. IsOrdered(es)
    <3>1. \A k \in 1..(n + 1) : es[k].min <= es[k].max
      BY <1>1, <2>3, <2>4, <2>5 DEF IsOrdered
    <3>2. \A j, k \in 1..(n + 1) : j < k => es[j].max < es[k].min
      <4> SUFFICES ASSUME NEW j \in 1..(n + 1), NEW k \in 1..(n + 1), j < k
                   PROVE  es[j].max < es[k].min
        OBVIOUS
      <4>1. j \in 1..n
        BY <1>1
      <4>2. CASE k \in 1..n
        BY <1>1, <2>3, <4>1, <4>2 DEF IsOrdered
      <4>3. CASE k = n + 1
        BY <1>1, <2>3, <2>4, <4>1, <4>3
      <4> QED
        BY <2>5, <4>2, <4>3
    <3>3. \A j, k \in 1..(n + 1) :
              k = j + 1 /\ es[j].max + 1 = es[k].min => es[j].table # es[k].table
      <4> SUFFICES ASSUME NEW j \in 1..(n + 1), NEW k \in 1..(n + 1), k = j + 1,
                          es[j].max + 1 = es[k].min
                   PROVE  es[j].table # es[k].table
        OBVIOUS
      <4>1. j \in 1..n
        BY <1>1
      <4>2. CASE k \in 1..n
        <5>1. es[j] = ts[j] /\ es[k] = ts[k]
          BY <2>3, <4>1, <4>2
        <5> QED
          BY <1>9, <4>1, <4>2, <5>1
      <4>3. CASE k = n + 1
        <5>4. j = n
          BY <1>10, <4>3
        <5>1. j = n /\ es[j] = ts[n] /\ ts # << >>
          BY <2>3, <4>1, <5>4
        <5>2. ts[n].max + 1 = min
          BY <2>4, <4>3, <5>1
        <5>3. ts[n].max # MaxRun
          BY <5>2, MaxRunIsNat DEF Runs
        <5> QED
          BY <1>6, <2>4, <4>3, <5>1, <5>2, <5>3
      <4> QED
        BY <2>5, <4>2, <4>3
    <3> QED
      BY <2>2, <3>1, <3>2, <3>3 DEF IsOrdered
  <2>7. \A k \in 1..(n + 1) : es[k].max <= max
    BY <1>1, <1>2, <1>3, <2>3, <2>4, <2>5
  <2>8. ASSUME NEW r \in Runs, NEW k \in 1..(n + 1), Covers(es[k], r)
        PROVE  \/ r < min /\ \E j \in DOMAIN ts : Covers(ts[j], r) /\ ts[j].table = es[k].table
               \/ min <= r /\ r <= max /\ es[k].table = table
    <3>1. CASE k \in 1..n
      <4>1. es[k] = ts[k] /\ r < min
        BY <1>1, <1>2, <1>3, <2>3, <2>8, <3>1 DEF Covers
      <4> QED
        BY <1>1, <2>8, <3>1, <4>1
    <3>2. CASE k = n + 1
      BY <2>4, <2>8, <3>2 DEF Covers
    <3> QED
      BY <2>5, <3>1, <3>2
  <2>9. n + 1 \in 1..(n + 1) /\ \A r \in Runs : min <= r /\ r <= max => Covers(es[n + 1], r)
    BY <1>1, <2>4 DEF Covers
  <2>10. \A j \in 1..n : j \in 1..(n + 1)
    BY <1>1
  <2> QED
    BY <1>1, <2>2, <2>3, <2>6, <2>7, <2>8, <2>9, <2>10
<1> QED
  BY <1>4, <1>5, <1>6

-----------------------------------------------------------------------------
(* Type correctness *)

\* A combined table consists of detectors and mapping files.
LEMMA SelectedType ==
    ASSUME NEW ms \in SUBSET Manifests, NEW run
    PROVE  Selected(ms, run) \in Tables
BY DEF Selected, FindRange, Tables, Manifests, Ranges

\* The initial state has the right type.
LEMMA TypeInit == Init => TypeOK
<1> SUFFICES ASSUME Init
             PROVE  TypeOK
  OBVIOUS
<1>1. disk \in [Providers -> SUBSET Manifests] /\ explicit \subseteq Providers
  BY DisksHoldManifests, ExplicitAreProviders DEF Init
<1>2. 0 \in Runs
  BY MaxRunIsNat DEF Runs
<1>3. tables \in Seq(RunRangeTables) /\ built \in Seq(RunRangeTables)
  BY DEF Init
<1>4. /\ pc \in [Workers -> {"idle", "once", "thrown", "uncovered"} \cup Loading \cup Reading]
      /\ asked \in [Workers -> Runs]
      /\ slot \in [Workers -> Nat]
      /\ answer \in [Workers -> Tables \cup {NoAnswer}]
  BY <1>2 DEF Init
<1> QED
  BY <1>1, <1>3, <1>4 DEF Init, TypeOK

\* Every step keeps the types.
LEMMA TypeNext == TypeOK /\ TablesInv /\ SlotInv /\ [Next]_vars => TypeOK'
<1> SUFFICES ASSUME TypeOK, TablesInv, SlotInv, [Next]_vars
             PROVE  TypeOK'
  OBVIOUS
<1> USE DEF TypeOK, configVars, loadVars, callVars, Loading, Reading
<1>1. CASE UNCHANGED vars
  BY <1>1 DEF vars
<1>2. ASSUME NEW p \in Providers, AddCatalog(p)
      PROVE  TypeOK'
  BY <1>2 DEF AddCatalog
<1>3. ASSUME NEW w \in Workers, NEW r \in Runs, Request(w, r)
      PROVE  TypeOK'
  BY <1>3 DEF Request
<1>4. ASSUME NEW w \in Workers, Pass(w)
      PROVE  TypeOK'
  BY <1>4 DEF Pass
<1>5. ASSUME NEW w \in Workers, BeginLoad(w)
      PROVE  TypeOK'
  BY <1>5 DEF BeginLoad
<1>6. ASSUME NEW w \in Workers, ChooseCatalogs(w)
      PROVE  TypeOK'
  <2> DEFINE all == << [min |-> 0, max |-> MaxRun, table |-> {}] >>
  <2>1. all \in Seq(RunRangeTables) /\ Len(all) = 1
    BY MaxRunIsNat DEF RunRangeTables, Runs, Tables
  <2>2. tables' \in Seq(RunRangeTables) /\ unread' \subseteq Providers
    BY <1>6, <2>1 DEF ChooseCatalogs, InUse
  <2>3. pc' \in [Workers -> {"idle", "once", "thrown", "uncovered"} \cup Loading \cup Reading]
    BY <1>6 DEF ChooseCatalogs
  <2>4. frozen' \in BOOLEAN
    BY <1>6 DEF ChooseCatalogs
  <2> QED
    BY <1>6, <2>2, <2>3, <2>4 DEF ChooseCatalogs
<1>7. ASSUME NEW w \in Workers, ReadCatalog(w)
      PROVE  TypeOK'
  <2> PICK p \in unread :
          IF /\ IsCatalog(disk[p])
             /\ \A m \in disk[p], n \in manifests : m.detector # n.detector
          THEN /\ unread' = unread \ {p}
               /\ manifests' = manifests \cup disk[p]
               /\ todo' = todo \cup UNION {Boundaries(m.ranges) : m \in disk[p]}
               /\ pc' = [pc EXCEPT ![w] = IF unread = {p} THEN "build" ELSE "read"]
               /\ UNCHANGED <<once, built>>
          ELSE Throw(w)
    BY <1>7 DEF ReadCatalog
  <2>1. disk[p] \subseteq Manifests
    OBVIOUS
  <2>2. \A m \in disk[p] : Boundaries(m.ranges) \subseteq Runs
    BY <2>1, BoundariesAreRuns DEF Manifests
  <2>3. todo' \subseteq Runs /\ manifests' \subseteq Manifests /\ unread' \subseteq Providers
    BY <2>1, <2>2 DEF Throw
  <2>4. /\ pc' \in [Workers -> {"idle", "once", "thrown", "uncovered"} \cup Loading \cup Reading]
        /\ once' \in {"free", "running", "done"}
    BY DEF Throw
  <2>5. << >> \in Seq(RunRangeTables)
    OBVIOUS
  <2>6. built' \in Seq(RunRangeTables)
    BY <2>5 DEF Throw
  <2> QED
    BY <1>7, <2>3, <2>4, <2>6 DEF ReadCatalog
<1>8. ASSUME NEW w \in Workers, FailToRead(w)
      PROVE  TypeOK'
  BY <1>8 DEF FailToRead, Throw
<1>9. ASSUME NEW w \in Workers, BuildTable(w)
      PROVE  TypeOK'
  <2>1. PICK min \in todo, max \in Runs :
          IF IsLoadable(Selected(manifests, min))
          THEN /\ todo' = todo \ {min}
               /\ built' = Extended(built, min, max, Selected(manifests, min))
               /\ UNCHANGED <<once, pc, unread, manifests>>
          ELSE Throw(w)
    BY <1>9 DEF BuildTable
  <2>2. Selected(manifests, min) \in Tables /\ min \in Runs
    BY SelectedType
  <2>3. built' \in Seq(RunRangeTables)
    <3>1. Extended(built, min, max, Selected(manifests, min)) \in Seq(RunRangeTables)
      BY <2>2, ExtendedType
    <3>2. << >> \in Seq(RunRangeTables)
      OBVIOUS
    <3> QED
      BY <2>1, <3>1, <3>2 DEF Throw
  <2>4. /\ pc' \in [Workers -> {"idle", "once", "thrown", "uncovered"} \cup Loading \cup Reading]
        /\ once' \in {"free", "running", "done"}
        /\ todo' \subseteq Runs /\ manifests' \subseteq Manifests /\ unread' \subseteq Providers
    BY <2>1 DEF Throw
  <2> QED
    BY <1>9, <2>3, <2>4 DEF BuildTable
<1>10. ASSUME NEW w \in Workers, FinishTables(w)
       PROVE  TypeOK'
  <2>1. << >> \in Seq(RunRangeTables)
    OBVIOUS
  <2>2. CASE built = << >>
    <3>1. Throw(w) /\ UNCHANGED <<tables, cached>>
      BY <1>10, <2>2 DEF FinishTables
    <3> QED
      BY <1>10, <2>1, <3>1 DEF FinishTables, Throw
  <2>3. CASE built # << >>
    <3>1. /\ tables' = built /\ cached' = 0 /\ pc' = [pc EXCEPT ![w] = "publish"]
          /\ manifests' = {} /\ built' = << >>
          /\ UNCHANGED <<once, unread, todo>>
      BY <1>10, <2>3 DEF FinishTables
    <3> QED
      BY <1>10, <2>1, <3>1 DEF FinishTables
  <2> QED
    BY <2>2, <2>3
<1>11. ASSUME NEW w \in Workers, Publish(w)
       PROVE  TypeOK'
  BY <1>11 DEF Publish
<1>12. ASSUME NEW w \in Workers, EndLoad(w)
       PROVE  TypeOK'
  BY <1>12 DEF EndLoad
<1>13. ASSUME NEW w \in Workers, CheckCache(w), TablesInv
       PROVE  TypeOK'
  <2>1. cached # 0 => tables[cached] \in RunRangeTables
    BY <1>13 DEF TablesInv
  <2>2. cached # 0 => tables[cached].table \in Tables
    BY <2>1 DEF RunRangeTables
  <2>3. answer' \in [Workers -> Tables \cup {NoAnswer}]
    BY <1>13, <2>2 DEF CheckCache
  <2>4. pc' \in [Workers -> {"idle", "once", "thrown", "uncovered"} \cup Loading \cup Reading]
    BY <1>13 DEF CheckCache
  <2> QED
    BY <1>13, <2>3, <2>4 DEF CheckCache
<1>14. ASSUME NEW w \in Workers, Search(w)
       PROVE  TypeOK'
  <2>1. slot' \in [Workers -> Nat]
    BY <1>14 DEF Search
  <2>2. pc' \in [Workers -> {"idle", "once", "thrown", "uncovered"} \cup Loading \cup Reading]
    BY <1>14 DEF Search
  <2> QED
    BY <1>14, <2>1, <2>2 DEF Search
<1>15. ASSUME NEW w \in Workers, Store(w), SlotInv
       PROVE  TypeOK'
  <2>1. tables[slot[w]] \in RunRangeTables
    BY <1>15 DEF SlotInv, Store
  <2>2. tables[slot[w]].table \in Tables
    BY <2>1 DEF RunRangeTables
  <2>3. answer' \in [Workers -> Tables \cup {NoAnswer}] /\ cached' \in Nat
    BY <1>15, <2>2 DEF Store
  <2>4. pc' \in [Workers -> {"idle", "once", "thrown", "uncovered"} \cup Loading \cup Reading]
    BY <1>15 DEF Store
  <2> QED
    BY <1>15, <2>3, <2>4 DEF Store
<1> QED
  BY <1>1, <1>2, <1>3, <1>4, <1>5, <1>6, <1>7, <1>8, <1>9, <1>10, <1>11, <1>12, <1>13, <1>14,
     <1>15 DEF Next, Continue

-----------------------------------------------------------------------------
(* The gate: one load at a time, and no reader before a load has succeeded *)

LEMMA GateInit == Init => GateInv
BY DEF Init, GateInv, Chosen, Loading, Reading

LEMMA GateNext == TypeOK /\ GateInv /\ [Next]_vars => GateInv'
<1> SUFFICES ASSUME TypeOK, GateInv, [Next]_vars
             PROVE  GateInv'
  OBVIOUS
<1> USE DEF TypeOK, GateInv, Chosen, configVars, loadVars, callVars, Loading, Reading
<1>1. CASE UNCHANGED vars
  BY <1>1 DEF vars
<1>2. ASSUME NEW p \in Providers, AddCatalog(p)
      PROVE  GateInv'
  BY <1>2 DEF AddCatalog
<1>3. ASSUME NEW w \in Workers, NEW r \in Runs, Request(w, r)
      PROVE  GateInv'
  BY <1>3 DEF Request
<1>4. ASSUME NEW w \in Workers, Pass(w)
      PROVE  GateInv'
  BY <1>4 DEF Pass
<1>5. ASSUME NEW w \in Workers, BeginLoad(w)
      PROVE  GateInv'
  BY <1>5 DEF BeginLoad
<1>6. ASSUME NEW w \in Workers, ChooseCatalogs(w)
      PROVE  GateInv'
  <2>1. \/ pc' = [pc EXCEPT ![w] = "publish"]
        \/ pc' = [pc EXCEPT ![w] = "read"]
    BY <1>6 DEF ChooseCatalogs
  <2>2. UNCHANGED <<explicit, once, loaded, answer, cached>> /\ frozen' = (frozen \/ explicit = {})
    BY <1>6 DEF ChooseCatalogs
  <2>3. pc[w] = "choose"
    BY <1>6 DEF ChooseCatalogs
  <2>4. CASE pc' = [pc EXCEPT ![w] = "publish"]
    BY ZenonT(60), <2>2, <2>3, <2>4
  <2>5. CASE pc' = [pc EXCEPT ![w] = "read"]
    BY ZenonT(60), <2>2, <2>3, <2>5
  <2> QED
    BY <2>1, <2>4, <2>5
<1>7. ASSUME NEW w \in Workers, ReadCatalog(w)
      PROVE  GateInv'
  <2>1. \/ pc' = [pc EXCEPT ![w] = "thrown"] /\ once' = "free"
        \/ pc' = [pc EXCEPT ![w] = "read"] /\ once' = once
        \/ pc' = [pc EXCEPT ![w] = "build"] /\ once' = once
    BY <1>7 DEF ReadCatalog, Throw
  <2>2. UNCHANGED <<explicit, frozen, loaded, answer>> /\ cached' = cached
    BY <1>7 DEF ReadCatalog
  <2>3. pc[w] = "read"
    BY <1>7 DEF ReadCatalog
  <2>4. CASE pc' = [pc EXCEPT ![w] = "thrown"] /\ once' = "free"
    BY <2>2, <2>3, <2>4
  <2>5. CASE pc' = [pc EXCEPT ![w] = "read"] /\ once' = once
    BY <2>2, <2>3, <2>5
  <2>6. CASE pc' = [pc EXCEPT ![w] = "build"] /\ once' = once
    BY <2>2, <2>3, <2>6
  <2> QED
    BY <2>1, <2>4, <2>5, <2>6
<1>8. ASSUME NEW w \in Workers, FailToRead(w)
      PROVE  GateInv'
  BY <1>8 DEF FailToRead, Throw
<1>9. ASSUME NEW w \in Workers, BuildTable(w)
      PROVE  GateInv'
  <2>1. \/ pc' = [pc EXCEPT ![w] = "thrown"] /\ once' = "free"
        \/ pc' = pc /\ once' = once
    BY <1>9 DEF BuildTable, Throw
  <2>2. UNCHANGED <<explicit, frozen, loaded, answer>> /\ cached' = cached
    BY <1>9 DEF BuildTable
  <2>3. pc[w] = "build"
    BY <1>9 DEF BuildTable
  <2>4. CASE pc' = [pc EXCEPT ![w] = "thrown"] /\ once' = "free"
    BY <2>2, <2>3, <2>4
  <2>5. CASE pc' = pc /\ once' = once
    BY <2>2, <2>3, <2>5
  <2> QED
    BY <2>1, <2>4, <2>5
<1>10. ASSUME NEW w \in Workers, FinishTables(w)
      PROVE  GateInv'
  <2>1. \/ pc' = [pc EXCEPT ![w] = "thrown"] /\ once' = "free"
        \/ pc' = [pc EXCEPT ![w] = "publish"] /\ once' = once
    BY <1>10 DEF FinishTables, Throw
  <2>2. UNCHANGED <<explicit, frozen, loaded, answer>> /\ (cached' = cached \/ cached' = 0)
    BY <1>10 DEF FinishTables, Throw
  <2>3. pc[w] = "build"
    BY <1>10 DEF FinishTables
  <2>4. CASE pc' = [pc EXCEPT ![w] = "thrown"] /\ once' = "free"
    BY <2>2, <2>3, <2>4
  <2>5. CASE pc' = [pc EXCEPT ![w] = "publish"] /\ once' = once
    BY <2>2, <2>3, <2>5
  <2> QED
    BY <2>1, <2>4, <2>5
<1>11. ASSUME NEW w \in Workers, Publish(w)
      PROVE  GateInv'
  BY <1>11 DEF Publish
<1>12. ASSUME NEW w \in Workers, EndLoad(w)
      PROVE  GateInv'
  BY <1>12 DEF EndLoad
<1>13. ASSUME NEW w \in Workers, CheckCache(w)
      PROVE  GateInv'
  BY <1>13 DEF CheckCache
<1>14. ASSUME NEW w \in Workers, Search(w)
      PROVE  GateInv'
  BY <1>14 DEF Search
<1>15. ASSUME NEW w \in Workers, Store(w)
      PROVE  GateInv'
  BY <1>15 DEF Store
<1> QED
  BY <1>1, <1>2, <1>3, <1>4, <1>5, <1>6, <1>7, <1>8, <1>9, <1>10, <1>11, <1>12, <1>13, <1>14, <1>15 DEF Next, Continue

-----------------------------------------------------------------------------
(* What the catalogs give for a run *)

\* Membership in the two sets of mappings, without the nested unions.
LEMMA InSelected ==
    ASSUME NEW ms, NEW run, NEW x
    PROVE  x \in Selected(ms, run) <=>
              \E m \in ms : \E g \in FindRange(m.ranges, run) : x = <<m.detector, g.file>>
BY DEF Selected

LEMMA InWanted ==
    ASSUME NEW run, NEW x
    PROVE  x \in Wanted(run) <=>
              \E m \in AllManifests : \E g \in m.ranges :
                  Covers(g, run) /\ x = <<m.detector, g.file>>
<1>1. ASSUME x \in Wanted(run)
      PROVE  \E m \in AllManifests : \E g \in m.ranges :
                  Covers(g, run) /\ x = <<m.detector, g.file>>
  <2>1. PICK p \in InUse : x \in UNION {{<<m.detector, g.file>> :
                 g \in {h \in m.ranges : Covers(h, run)}} : m \in disk[p]}
    BY <1>1 DEF Wanted
  <2>2. PICK m \in disk[p] : x \in {<<m.detector, g.file>> : g \in {h \in m.ranges : Covers(h, run)}}
    BY <2>1
  <2> QED
    BY <2>2 DEF AllManifests
<1>2. ASSUME NEW m \in AllManifests, NEW g \in m.ranges,
             Covers(g, run), x = <<m.detector, g.file>>
      PROVE  x \in Wanted(run)
  <2>1. PICK p \in InUse : m \in disk[p]
    BY DEF AllManifests
  <2>2. x \in {<<m.detector, h.file>> : h \in {k \in m.ranges : Covers(k, run)}}
    BY <1>2
  <2> QED
    BY <2>1, <2>2 DEF Wanted
<1> QED
  BY <1>1, <1>2

\* The manifests of catalogs that were accepted.
LEMMA AcceptedManifests ==
    ASSUME TypeOK, \A p \in InUse : IsCatalog(disk[p]), NEW m \in AllManifests
    PROVE  m.ranges \in SUBSET Ranges /\ IsManifest(m.ranges)
<1>1. PICK p \in InUse : m \in disk[p]
  BY DEF AllManifests
<1>2. p \in Providers
  BY DEF TypeOK, InUse
<1>3. m \in Manifests /\ IsManifest(m.ranges)
  BY <1>1, <1>2 DEF TypeOK, IsCatalog
<1> QED
  BY <1>3 DEF Manifests

\* loadTables selects what the catalogs give for the interval's first run.
LEMMA SelectedIsWanted ==
    ASSUME TypeOK, \A p \in InUse : IsCatalog(disk[p]), NEW run \in Runs
    PROVE  Selected(AllManifests, run) = Wanted(run)
<1>1. ASSUME NEW m \in AllManifests
      PROVE  FindRange(m.ranges, run) = {g \in m.ranges : Covers(g, run)}
  BY AcceptedManifests, FindRangeCovers
<1>2. ASSUME NEW x
      PROVE  x \in Selected(AllManifests, run) <=> x \in Wanted(run)
  BY <1>1, InSelected, InWanted
<1> QED
  BY <1>2

\* What they give changes at boundaries only.
LEMMA WantedBetween ==
    ASSUME TypeOK, \A p \in InUse : IsCatalog(disk[p]),
           NEW b \in Runs, NEW r \in Runs, b <= r,
           \A m \in AllManifests : \A c \in Boundaries(m.ranges) : c <= b \/ r < c
    PROVE  Wanted(b) = Wanted(r)
<1>1. ASSUME NEW m \in AllManifests, NEW g \in m.ranges
      PROVE  Covers(g, b) <=> Covers(g, r)
  BY AcceptedManifests, NoChangeBetween
<1>2. ASSUME NEW x
      PROVE  x \in Wanted(b) <=> x \in Wanted(r)
  BY <1>1, InWanted
<1> QED
  BY <1>2

\* Before the first boundary they give nothing.
LEMMA WantedBeforeAll ==
    ASSUME TypeOK, NEW r \in Runs,
           \A m \in AllManifests : \A c \in Boundaries(m.ranges) : r < c
    PROVE  Wanted(r) = {}
<1>1. SUFFICES ASSUME NEW x \in Wanted(r)
               PROVE  FALSE
  OBVIOUS
<1>2. PICK m \in AllManifests : \E g \in m.ranges : Covers(g, r)
  BY InWanted
<1>3. PICK g \in m.ranges : Covers(g, r)
  BY <1>2
<1>4. g.min \in Boundaries(m.ranges)
  BY DEF Boundaries
<1>5. g.min \in Runs
  <2>1. PICK p \in InUse : m \in disk[p]
    BY DEF AllManifests
  <2>2. p \in Providers
    BY DEF TypeOK, InUse
  <2>3. m \in Manifests
    BY <2>1, <2>2 DEF TypeOK
  <2> QED
    BY <2>3 DEF Manifests, Ranges
<1> QED
  BY <1>3, <1>4, <1>5, MaxRunIsNat DEF Covers, Runs

\* Once a load has chosen its catalogs, what they give stays the same.
LEMMA InUseIsStable ==
    ASSUME TypeOK, GateInv, [Next]_vars, Chosen
    PROVE  /\ disk' = disk
           /\ InUse' = InUse
<1> USE DEF configVars, InUse
<1>1. CASE UNCHANGED vars
  BY <1>1 DEF vars
<1>2. ASSUME NEW p \in Providers, AddCatalog(p)
      PROVE  disk' = disk /\ InUse' = InUse
  BY <1>2 DEF AddCatalog, GateInv
<1>3. ASSUME NEW w \in Workers, NEW r \in Runs, Request(w, r)
      PROVE  UNCHANGED <<disk, explicit, catalogs>>
  BY <1>3 DEF Request
<1>4. ASSUME NEW w \in Workers, Continue(w)
      PROVE  UNCHANGED <<disk, explicit, catalogs>>
  BY <1>4 DEF Continue, Pass, BeginLoad, ChooseCatalogs, ReadCatalog, FailToRead, BuildTable,
     FinishTables, Publish, EndLoad, CheckCache, Search, Store
<1> QED
  BY <1>1, <1>2, <1>3, <1>4 DEF Next

LEMMA WantedIsStable ==
    ASSUME disk' = disk, InUse' = InUse
    PROVE  /\ \A r : Wanted(r)' = Wanted(r)
           /\ AllManifests' = AllManifests
BY DEF Wanted, AllManifests

-----------------------------------------------------------------------------
(* The two loops of loadTables *)

\* A step that is no step of the load leaves its locals alone, and who is in
\* which loop.
LEMMA OutsideLoops ==
    ASSUME TypeOK, [Next]_vars,
           \A w \in Workers : ~ChooseCatalogs(w) /\ ~ReadCatalog(w) /\ ~FailToRead(w)
                              /\ ~BuildTable(w) /\ ~FinishTables(w)
    PROVE  /\ UNCHANGED loadVars
           /\ \A w \in Workers : /\ pc'[w] = "read" <=> pc[w] = "read"
                                 /\ pc'[w] = "build" <=> pc[w] = "build"
<1> USE DEF TypeOK, configVars, loadVars, callVars
<1>1. CASE UNCHANGED vars
  BY <1>1 DEF vars
<1>2. ASSUME NEW p \in Providers, AddCatalog(p)
      PROVE  UNCHANGED <<loadVars, pc>>
  BY <1>2 DEF AddCatalog
<1>3. ASSUME NEW w \in Workers, NEW x, pc[w] \notin {"read", "build"}, x \notin {"read", "build"},
             pc' = [pc EXCEPT ![w] = x], UNCHANGED loadVars
      PROVE  /\ UNCHANGED loadVars
             /\ \A v \in Workers : /\ pc'[v] = "read" <=> pc[v] = "read"
                                   /\ pc'[v] = "build" <=> pc[v] = "build"
  BY <1>3
<1>4. ASSUME NEW w \in Workers, NEW r \in Runs, Request(w, r)
      PROVE  /\ pc[w] \notin {"read", "build"} /\ UNCHANGED loadVars
             /\ \E x : x \notin {"read", "build"} /\ pc' = [pc EXCEPT ![w] = x]
  BY <1>4 DEF Request
<1>5. ASSUME NEW w \in Workers,
             \/ Pass(w) \/ BeginLoad(w) \/ Publish(w) \/ EndLoad(w) \/ CheckCache(w) \/ Search(w)
             \/ Store(w)
      PROVE  /\ pc[w] \notin {"read", "build"} /\ UNCHANGED loadVars
             /\ \E x : x \notin {"read", "build"} /\ pc' = [pc EXCEPT ![w] = x]
  BY <1>5 DEF Pass, BeginLoad, Publish, EndLoad, CheckCache, Search, Store
<1> QED
  BY <1>1, <1>2, <1>3, <1>4, <1>5 DEF Next, Continue

\* An exception undoes the locals, and there is no other loader.
LEMMA AfterThrow ==
    ASSUME TypeOK, GateInv, NEW w \in Workers, pc[w] \in Loading, Throw(w)
    PROVE  /\ \A v \in Workers : pc'[v] \notin Loading
           /\ manifests' = {} /\ todo' = {} /\ built' = << >>
<1>1. pc' = [pc EXCEPT ![w] = "thrown"]
  BY DEF Throw
<1>2. \A v \in Workers : v # w => pc[v] \notin Loading
  BY DEF GateInv
<1> QED
  BY <1>1, <1>2 DEF Throw, TypeOK, Loading

LEMMA LocalsNext == IInv /\ [Next]_vars => LocalsInv'
<1> SUFFICES ASSUME IInv, [Next]_vars
             PROVE  LocalsInv'
  OBVIOUS
<1>1. TypeOK /\ GateInv /\ LocalsInv
  BY DEF IInv
<1>2. CASE \A w \in Workers : ~ChooseCatalogs(w) /\ ~ReadCatalog(w) /\ ~FailToRead(w)
                              /\ ~BuildTable(w) /\ ~FinishTables(w)
  BY <1>1, <1>2, OutsideLoops DEF LocalsInv, loadVars
<1>3. ASSUME NEW w \in Workers, ChooseCatalogs(w)
      PROVE  LocalsInv'
  <2>1. \A v \in Workers : pc[v] \notin {"read", "build"}
    BY <1>1, <1>3 DEF GateInv, Loading, ChooseCatalogs
  <2> QED
    BY <1>1, <1>3, <2>1 DEF ChooseCatalogs, LocalsInv
<1>4. ASSUME NEW w \in Workers, ReadCatalog(w)
      PROVE  LocalsInv'
  <2>1. Throw(w) \/ pc' = [pc EXCEPT ![w] = "build"] \/ pc' = [pc EXCEPT ![w] = "read"]
    BY <1>4 DEF ReadCatalog
  <2>2. CASE Throw(w)
    BY <1>1, <1>4, <2>2, AfterThrow DEF LocalsInv, ReadCatalog, Loading
  <2>3. CASE ~Throw(w)
    BY <1>1, <2>1, <2>3 DEF LocalsInv, TypeOK
  <2> QED
    BY <2>2, <2>3
<1>5. ASSUME NEW w \in Workers, FailToRead(w)
      PROVE  LocalsInv'
  BY <1>1, <1>5, AfterThrow DEF LocalsInv, FailToRead, Loading
<1>6. ASSUME NEW w \in Workers, BuildTable(w)
      PROVE  LocalsInv'
  <2>1. Throw(w) \/ pc' = pc
    BY <1>6 DEF BuildTable
  <2>2. CASE Throw(w)
    BY <1>1, <1>6, <2>2, AfterThrow DEF LocalsInv, BuildTable, Loading
  <2>3. CASE pc' = pc
    BY <1>6, <2>3 DEF LocalsInv, BuildTable
  <2> QED
    BY <2>1, <2>2, <2>3
<1>7. ASSUME NEW w \in Workers, FinishTables(w)
      PROVE  LocalsInv'
  BY <1>1, <1>7, AfterThrow DEF LocalsInv, FinishTables, Loading
<1> QED
  BY <1>2, <1>3, <1>4, <1>5, <1>6, <1>7

\* The iteration over the providers keeps its invariant.
LEMMA ReadNext == IInv /\ [Next]_vars => ReadInv'
<1> SUFFICES ASSUME IInv, [Next]_vars, NEW v \in Workers, pc'[v] = "read"
             PROVE  /\ unread' \subseteq InUse' /\ unread' # {}
                    /\ \A p \in InUse' \ unread' : IsCatalog(disk'[p])
                    /\ manifests' = UNION {disk'[p] : p \in InUse' \ unread'}
                    /\ todo' = UNION {Boundaries(m.ranges) : m \in manifests'}
                    /\ built' = << >>
  BY DEF ReadInv
<1>1. TypeOK /\ GateInv /\ LocalsInv /\ ReadInv
  BY DEF IInv
<1>2. CASE \A w \in Workers : ~ChooseCatalogs(w) /\ ~ReadCatalog(w) /\ ~FailToRead(w)
                              /\ ~BuildTable(w) /\ ~FinishTables(w)
  <2>1. pc[v] = "read" /\ UNCHANGED loadVars
    BY <1>1, <1>2, OutsideLoops
  <2>2. Chosen
    BY <2>1 DEF Chosen, Loading
  <2>3. disk' = disk /\ InUse' = InUse
    BY <1>1, <2>2, InUseIsStable
  <2> QED
    BY <1>1, <2>1, <2>3 DEF ReadInv, loadVars
<1>3. ASSUME NEW w \in Workers, ChooseCatalogs(w)
      PROVE  v = w
  BY <1>1, <1>3 DEF ChooseCatalogs, TypeOK, GateInv, Loading
<1>4. ASSUME NEW w \in Workers, ChooseCatalogs(w)
      PROVE  /\ unread' = InUse' /\ InUse' # {}
             /\ manifests' = {} /\ todo' = {} /\ built' = << >>
  <2>1. \A u \in Workers : pc[u] \notin {"read", "build"}
    BY <1>1, <1>4 DEF GateInv, Loading, ChooseCatalogs
  <2>2. pc'[w] = "read"
    BY <1>3, <1>4
  <2>3. InUse # {} /\ unread' = InUse
    BY <1>1, <1>4, <2>2 DEF ChooseCatalogs, TypeOK
  <2>4. InUse' = InUse
    BY <1>4 DEF ChooseCatalogs, InUse, configVars
  <2> QED
    BY <1>1, <1>4, <2>1, <2>3, <2>4 DEF LocalsInv, ChooseCatalogs
<1>5. ASSUME NEW w \in Workers, ReadCatalog(w)
      PROVE  /\ unread' \subseteq InUse' /\ unread' # {}
             /\ \A p \in InUse' \ unread' : IsCatalog(disk'[p])
             /\ manifests' = UNION {disk'[p] : p \in InUse' \ unread'}
             /\ todo' = UNION {Boundaries(m.ranges) : m \in manifests'}
             /\ built' = << >>
  <2>1. PICK p \in unread :
          IF /\ IsCatalog(disk[p])
             /\ \A m \in disk[p], n \in manifests : m.detector # n.detector
          THEN /\ unread' = unread \ {p}
               /\ manifests' = manifests \cup disk[p]
               /\ todo' = todo \cup UNION {Boundaries(m.ranges) : m \in disk[p]}
               /\ pc' = [pc EXCEPT ![w] = IF unread = {p} THEN "build" ELSE "read"]
               /\ UNCHANGED <<once, built>>
          ELSE Throw(w)
    BY <1>5 DEF ReadCatalog
  <2>2. pc[w] = "read" /\ pc[w] \in Loading
    BY <1>5 DEF ReadCatalog, Loading
  <2>3. ~Throw(w)
    BY <1>1, <2>2, AfterThrow DEF Loading
  <2>4. /\ IsCatalog(disk[p])
        /\ unread' = unread \ {p}
        /\ manifests' = manifests \cup disk[p]
        /\ todo' = todo \cup UNION {Boundaries(m.ranges) : m \in disk[p]}
        /\ pc' = [pc EXCEPT ![w] = IF unread = {p} THEN "build" ELSE "read"]
        /\ built' = built
    BY <2>1, <2>3
  <2>5. v = w
    BY <1>1, <2>2, <2>4 DEF GateInv, Loading, TypeOK
  <2>6. unread # {p}
    BY <1>1, <2>4, <2>5 DEF TypeOK
  <2>7. disk' = disk /\ InUse' = InUse
    BY <1>1, <2>2, InUseIsStable DEF Chosen
  <2>8. /\ unread \subseteq InUse
        /\ \A q \in InUse \ unread : IsCatalog(disk[q])
        /\ manifests = UNION {disk[q] : q \in InUse \ unread}
        /\ todo = UNION {Boundaries(m.ranges) : m \in manifests}
        /\ built = << >>
    BY <1>1, <2>2 DEF ReadInv
  <2>9. InUse \ unread' = (InUse \ unread) \cup {p}
    BY <2>4, <2>8
  <2>10. manifests' = UNION {disk[q] : q \in InUse \ unread'}
    BY <2>4, <2>8, <2>9
  <2>11. todo' = UNION {Boundaries(m.ranges) : m \in manifests'}
    BY <2>4, <2>8
  <2>12. unread' \subseteq InUse /\ unread' # {}
    BY <2>4, <2>6, <2>8
  <2> QED
    BY <2>4, <2>7, <2>8, <2>9, <2>10, <2>11, <2>12
<1>6. ASSUME NEW w \in Workers, \/ FailToRead(w) \/ BuildTable(w) \/ FinishTables(w)
      PROVE  FALSE
  <2>1. CASE Throw(w)
    BY <1>1, <1>6, <2>1, AfterThrow DEF FailToRead, BuildTable, FinishTables, Loading
  <2>2. CASE ~Throw(w)
    <3>1. pc[w] = "build" /\ (pc' = pc \/ pc' = [pc EXCEPT ![w] = "publish"])
      BY <1>6, <2>2 DEF FailToRead, BuildTable, FinishTables
    <3> QED
      BY <1>1, <3>1 DEF GateInv, Loading, TypeOK
  <2> QED
    BY <2>1, <2>2
<1> QED
  BY <1>2, <1>4, <1>5, <1>6

\* The iteration over the boundaries keeps its invariant.
LEMMA BuildStep ==
    ASSUME IInv, BuildInv, NEW w \in Workers, BuildTable(w), ~Throw(w)
    PROVE  BuildInv'
<1>1. TypeOK /\ GateInv
  BY DEF IInv
<1>2. PICK min \in todo, max \in Runs :
          /\ \A b \in todo : min <= b
          /\ IF todo = {min} THEN max = MaxRun
             ELSE max + 1 \in todo \ {min} /\ \A b \in todo \ {min} : max < b
          /\ todo' = todo \ {min}
          /\ built' = Extended(built, min, max, Selected(manifests, min))
          /\ UNCHANGED <<once, pc, unread, manifests>>
  BY DEF BuildTable
<1> DEFINE table == Selected(manifests, min)
<1>3. pc[w] = "build" /\ UNCHANGED <<disk, explicit, catalogs>>
  BY DEF BuildTable, configVars
<1>4. disk' = disk /\ InUse' = InUse /\ AllManifests' = AllManifests
      /\ \A r : Wanted(r)' = Wanted(r)
  <2>1. InUse' = InUse /\ disk' = disk
    BY <1>3 DEF InUse
  <2> QED
    BY <2>1, WantedIsStable
<1>5. /\ InUse # {}
      /\ \A p \in InUse : IsCatalog(disk[p])
      /\ manifests = AllManifests
      /\ todo \subseteq UNION {Boundaries(m.ranges) : m \in manifests}
      /\ \A m \in manifests : \A b \in Boundaries(m.ranges) : b \in todo \/ \A c \in todo : b < c
      /\ IsOrdered(built)
      /\ \A k \in DOMAIN built : \A c \in todo : built[k].max < c
      /\ \A r \in Runs : (\A c \in todo : r < c) => Serves(built, r)
  BY <1>3 DEF BuildInv
<1>6. min \in Runs /\ max \in Runs /\ todo \subseteq Runs /\ Runs \subseteq Int
      /\ built \in Seq(RunRangeTables)
  BY <1>1, MaxRunIsNat DEF TypeOK, Runs
<1>7. table \in Tables /\ table = Wanted(min)
  BY <1>1, <1>5, <1>6, SelectedIsWanted, SelectedType DEF TypeOK
<1>8. \A c \in todo' : min < c /\ max < c
  <2>1. ASSUME NEW c \in todo'
        PROVE  min < c /\ max < c
    <3>1. c \in todo /\ c # min /\ min <= c /\ todo # {min}
      BY <1>2
    <3>2. max < c
      BY <1>2, <3>1
    <3> QED
      BY <1>6, <3>1, <3>2
  <2> QED
    BY <2>1
<1>9. min <= max
  <2>1. CASE todo = {min}
    BY <1>2, <1>6, <2>1, MaxRunIsNat DEF Runs
  <2>2. CASE todo # {min}
    <3>1. max + 1 \in todo' /\ max + 1 \in todo
      BY <1>2, <2>2
    <3>2. min < max + 1
      BY <1>8, <3>1
    <3> QED
      BY <1>6, <3>2
  <2> QED
    BY <2>1, <2>2
<1>10. \A r \in Runs : (\A c \in todo' : r < c) => r < min \/ (min <= r /\ r <= max)
  <2>1. SUFFICES ASSUME NEW r \in Runs, \A c \in todo' : r < c
                 PROVE  r <= max
    BY <1>6
  <2>2. CASE todo = {min}
    BY <1>2, <2>2, MaxRunIsNat DEF Runs
  <2>3. CASE todo # {min}
    <3>1. max + 1 \in todo'
      BY <1>2, <2>3
    <3>2. r < max + 1
      BY <2>1, <3>1
    <3> QED
      BY <1>6, <3>2
  <2> QED
    BY <2>2, <2>3
<1>11. \A k \in DOMAIN built : built[k].max < min
  BY <1>5
<1>12. /\ IsOrdered(built')
       /\ \A k \in DOMAIN built' : built'[k].max <= max
       /\ \A r \in Runs, k \in DOMAIN built' : Covers(built'[k], r) =>
             \/ r < min /\ \E j \in DOMAIN built : Covers(built[j], r)
                                                   /\ built[j].table = built'[k].table
             \/ min <= r /\ r <= max /\ built'[k].table = table
       /\ \A r \in Runs, j \in DOMAIN built : Covers(built[j], r) =>
             \E k \in DOMAIN built' : Covers(built'[k], r)
       /\ table # {} => \A r \in Runs : min <= r /\ r <= max =>
             \E k \in DOMAIN built' : Covers(built'[k], r)
  <2>1. built' = Extended(built, min, max, table)
    BY <1>2
  <2> HIDE DEF table
  <2>2. IsOrdered(built) /\ built \in Seq(RunRangeTables) /\ min \in Runs /\ max \in Runs
        /\ table \in Tables
    BY <1>5, <1>6, <1>7
  <2> QED
    BY <1>9, <1>11, <2>1, <2>2, ExtendedCovers
<1>13. \A m \in manifests : \A b \in Boundaries(m.ranges) : b \in todo' \/ \A c \in todo' : b < c
  BY <1>2, <1>5, <1>8
<1>14. \A k \in DOMAIN built' : \A c \in todo' : built'[k].max < c
  <2>1. built' \in Seq(RunRangeTables)
    BY <1>2, <1>6, <1>7, ExtendedType
  <2>2. ASSUME NEW k \in DOMAIN built', NEW c \in todo'
        PROVE  built'[k].max < c
    <3>1. built'[k] \in RunRangeTables
      BY <2>1
    <3>2. built'[k].max \in Int /\ max \in Int /\ c \in Int
      BY <1>2, <1>6, <3>1 DEF RunRangeTables
    <3> QED
      BY <1>8, <1>12, <3>2
  <2> QED
    BY <2>2
<1>15. ASSUME NEW r \in Runs, min <= r, r <= max
       PROVE  Wanted(r) = Wanted(min)
  <2>1. ASSUME NEW m \in AllManifests, NEW c \in Boundaries(m.ranges)
        PROVE  c <= min \/ r < c
    <3>1. c \in todo \/ \A d \in todo : c < d
      BY <1>5
    <3>2. m.ranges \in SUBSET Ranges
      BY <1>1, <1>5, AcceptedManifests
    <3>3. c \in Runs
      BY <3>2, BoundariesAreRuns
    <3>4. CASE c \in todo'
      BY <1>6, <1>8, <1>15, <3>3, <3>4
    <3>5. CASE c \notin todo'
      BY <1>2, <1>6, <3>1, <3>3, <3>5
    <3> QED
      BY <3>4, <3>5
  <2> QED
    BY <1>1, <1>5, <1>6, <1>15, <2>1, WantedBetween
<1>16. ASSUME NEW r \in Runs, \A c \in todo' : r < c
       PROVE  Serves(built', r)
  <2>1. CASE r < min
    <3>1. \A c \in todo : r < c
      BY <1>2, <1>6, <2>1
    <3>2. Serves(built, r)
      BY <1>5, <3>1
    <3>3. \A k \in DOMAIN built' : Covers(built'[k], r) => built'[k].table = Wanted(r)
      BY <1>6, <1>12, <2>1, <3>2 DEF Serves
    <3>4. Wanted(r) # {} => \E k \in DOMAIN built' : Covers(built'[k], r)
      BY <1>12, <3>2 DEF Serves
    <3> QED
      BY <3>3, <3>4 DEF Serves
  <2>2. CASE min <= r /\ r <= max
    <3>1. table = Wanted(r)
      BY <1>7, <1>15, <2>2
    <3>4. ~(r < min)
      <4>1. r \in Int /\ min \in Int
        BY <1>6
      <4> QED
        BY <2>2, <4>1
    <3>2. \A k \in DOMAIN built' : Covers(built'[k], r) => built'[k].table = Wanted(r)
      BY <1>12, <3>1, <3>4
    <3>3. Wanted(r) # {} => \E k \in DOMAIN built' : Covers(built'[k], r)
      BY <1>12, <2>2, <3>1
    <3> QED
      BY <3>2, <3>3 DEF Serves
  <2> QED
    BY <1>10, <1>16, <2>1, <2>2
<1>17. \A r \in Runs : (\A c \in todo' : r < c) => Serves(built, r)'
  BY <1>4, <1>16 DEF Serves
<1>18. todo' \subseteq UNION {Boundaries(m.ranges) : m \in manifests'}
  BY <1>2, <1>5
<1> QED
  BY <1>2, <1>4, <1>5, <1>12, <1>13, <1>14, <1>17, <1>18 DEF BuildInv

\* The iteration over the boundaries starts well.
LEMMA BuildStart ==
    ASSUME IInv, NEW w \in Workers, ReadCatalog(w), NEW v \in Workers, pc'[v] = "build"
    PROVE  BuildInv'
<1>1. TypeOK /\ GateInv /\ ReadInv
  BY DEF IInv
<1>2. PICK p \in unread :
          IF /\ IsCatalog(disk[p])
             /\ \A m \in disk[p], n \in manifests : m.detector # n.detector
          THEN /\ unread' = unread \ {p}
               /\ manifests' = manifests \cup disk[p]
               /\ todo' = todo \cup UNION {Boundaries(m.ranges) : m \in disk[p]}
               /\ pc' = [pc EXCEPT ![w] = IF unread = {p} THEN "build" ELSE "read"]
               /\ UNCHANGED <<once, built>>
          ELSE Throw(w)
  BY DEF ReadCatalog
<1>3. pc[w] = "read" /\ pc[w] \in Loading
  BY DEF ReadCatalog, Loading
<1>4. ~Throw(w)
  BY <1>1, <1>3, AfterThrow DEF Loading
<1>5. /\ IsCatalog(disk[p])
      /\ unread' = unread \ {p}
      /\ manifests' = manifests \cup disk[p]
      /\ todo' = todo \cup UNION {Boundaries(m.ranges) : m \in disk[p]}
      /\ pc' = [pc EXCEPT ![w] = IF unread = {p} THEN "build" ELSE "read"]
      /\ built' = built
  BY <1>2, <1>4
<1>6. unread = {p}
  <2>1. v = w
    BY <1>1, <1>3, <1>5 DEF GateInv, Loading, TypeOK
  <2> QED
    BY <1>1, <1>5, <2>1 DEF TypeOK
<1>7. disk' = disk /\ InUse' = InUse /\ AllManifests' = AllManifests
      /\ \A r : Wanted(r)' = Wanted(r)
  <2>1. UNCHANGED <<disk, explicit, catalogs>>
    BY DEF ReadCatalog, configVars
  <2>2. InUse' = InUse
    BY <2>1 DEF InUse
  <2> QED
    BY <2>1, <2>2, WantedIsStable
<1>8. /\ unread \subseteq InUse
      /\ \A q \in InUse \ unread : IsCatalog(disk[q])
      /\ manifests = UNION {disk[q] : q \in InUse \ unread}
      /\ todo = UNION {Boundaries(m.ranges) : m \in manifests}
      /\ built = << >>
  BY <1>1, <1>3 DEF ReadInv
<1>9. InUse = (InUse \ unread) \cup {p}
  BY <1>6, <1>8
<1>10. manifests' = AllManifests
  <2>1. AllManifests = UNION {disk[q] : q \in (InUse \ unread) \cup {p}}
    BY <1>9 DEF AllManifests
  <2> QED
    BY <1>5, <1>8, <2>1
<1>11. todo' = UNION {Boundaries(m.ranges) : m \in manifests'}
  BY <1>5, <1>8
<1>12. InUse # {} /\ \A q \in InUse : IsCatalog(disk[q])
  BY <1>5, <1>8, <1>9
<1>13. built' = << >> /\ DOMAIN built' = {}
  BY <1>5, <1>8
<1>14. IsOrdered(built')
  BY <1>13 DEF IsOrdered
<1>15. ASSUME NEW r \in Runs, \A c \in todo' : r < c
       PROVE  Serves(built, r)'
  <2>1. Wanted(r) = {}
    BY <1>1, <1>10, <1>11, <1>15, WantedBeforeAll
  <2> QED
    BY <1>7, <1>13, <2>1 DEF Serves
<1> QED
  BY <1>7, <1>10, <1>11, <1>12, <1>13, <1>14, <1>15 DEF BuildInv

LEMMA BuildNext == IInv /\ [Next]_vars => BuildInv'
<1> SUFFICES ASSUME IInv, [Next]_vars, NEW v \in Workers, pc'[v] = "build"
             PROVE  BuildInv'
  BY DEF BuildInv
<1>1. TypeOK /\ GateInv /\ BuildInv
  BY DEF IInv
<1>2. CASE \A w \in Workers : ~ChooseCatalogs(w) /\ ~ReadCatalog(w) /\ ~FailToRead(w)
                              /\ ~BuildTable(w) /\ ~FinishTables(w)
  <2>1. pc[v] = "build" /\ UNCHANGED loadVars
    BY <1>1, <1>2, OutsideLoops
  <2>2. Chosen
    BY <2>1 DEF Chosen, Loading
  <2>3. disk' = disk /\ InUse' = InUse
    BY <1>1, <2>2, InUseIsStable
  <2>4. AllManifests' = AllManifests /\ \A r : Wanted(r)' = Wanted(r)
    BY <2>3, WantedIsStable
  <2>5. built' = built /\ todo' = todo /\ manifests' = manifests
    BY <2>1 DEF loadVars
  <2>6. \A r : Serves(built, r) => Serves(built, r)'
    BY <2>4, <2>5 DEF Serves
  <2> QED
    BY <1>1, <2>1, <2>3, <2>4, <2>5, <2>6 DEF BuildInv
<1>3. ASSUME NEW w \in Workers, ChooseCatalogs(w)
      PROVE  FALSE
  BY <1>1, <1>3 DEF ChooseCatalogs, TypeOK, GateInv, Loading
<1>4. ASSUME NEW w \in Workers, ReadCatalog(w)
      PROVE  BuildInv'
  BY <1>4, BuildStart
<1>5. ASSUME NEW w \in Workers, FailToRead(w) \/ BuildTable(w) \/ FinishTables(w), Throw(w)
      PROVE  FALSE
  BY <1>1, <1>5, AfterThrow DEF FailToRead, BuildTable, FinishTables, Loading
<1>6. ASSUME NEW w \in Workers, BuildTable(w), ~Throw(w)
      PROVE  BuildInv'
  BY <1>1, <1>6, BuildStep
<1>7. ASSUME NEW w \in Workers, FinishTables(w), ~Throw(w)
      PROVE  FALSE
  <2>1. pc[w] = "build" /\ pc' = [pc EXCEPT ![w] = "publish"]
    BY <1>7 DEF FinishTables
  <2> QED
    BY <1>1, <2>1 DEF GateInv, Loading, TypeOK
<1> QED
  BY <1>2, <1>3, <1>4, <1>5, <1>6, <1>7 DEF FailToRead

-----------------------------------------------------------------------------
(* The published tables and the calls behind the gate *)

\* Who writes the tables: only the load, before anyone has passed the gate.
LEMMA WhoWrites ==
    ASSUME TypeOK, GateInv, [Next]_vars, tables' # tables
    PROVE  \E w \in Workers : (ChooseCatalogs(w) \/ FinishTables(w)) /\ ~loaded
<1> USE DEF configVars, loadVars, callVars
<1>1. CASE UNCHANGED vars
  BY <1>1 DEF vars
<1>2. ASSUME NEW p \in Providers, AddCatalog(p)
      PROVE  FALSE
  BY <1>2 DEF AddCatalog
<1>3. ASSUME NEW w \in Workers, NEW r \in Runs, Request(w, r)
      PROVE  FALSE
  BY <1>3 DEF Request
<1>4. ASSUME NEW w \in Workers, Continue(w)
      PROVE  ChooseCatalogs(w) \/ FinishTables(w)
  BY <1>4 DEF Continue, Pass, BeginLoad, ReadCatalog, FailToRead, BuildTable,
     Publish, EndLoad, CheckCache, Search, Store
<1>5. ASSUME NEW w \in Workers, ChooseCatalogs(w) \/ FinishTables(w)
      PROVE  ~loaded
  <2>1. pc[w] \in {"choose", "build"}
    BY <1>5 DEF ChooseCatalogs, FinishTables
  <2>2. once = "running" /\ \A v \in Workers : pc[v] # "finish"
    BY <2>1 DEF GateInv, Loading
  <2> QED
    BY <2>2 DEF GateInv
<1> QED
  BY <1>1, <1>2, <1>3, <1>4, <1>5 DEF Next

LEMMA TablesNext == IInv /\ [Next]_vars => TablesInv'
<1> SUFFICES ASSUME IInv, [Next]_vars
             PROVE  TablesInv'
  OBVIOUS
<1>1. TypeOK /\ GateInv /\ BuildInv /\ TablesInv /\ SlotInv /\ LocalsInv
  BY DEF IInv
<1> DEFINE Ready == loaded \/ (\E w \in Workers : pc[w] = "publish")
<1>2. ASSUME NEW w \in Workers, ChooseCatalogs(w)
      PROVE  TablesInv'
  <2>1. ~loaded /\ cached = 0
    <3>1. pc[w] = "choose" /\ pc[w] \in Loading
      BY <1>2 DEF ChooseCatalogs, Loading
    <3>2. \A v \in Workers : pc[v] # "finish"
      BY <1>1, <3>1 DEF GateInv, Loading
    <3> QED
      BY <1>1, <3>1, <3>2 DEF GateInv
  <2>2. UNCHANGED <<disk, explicit, catalogs, loaded, cached>> /\ InUse' = InUse
    BY <1>2 DEF ChooseCatalogs, configVars, InUse
  <2>3. CASE InUse = {}
    <3>1. tables' = << [min |-> 0, max |-> MaxRun, table |-> {}] >>
      BY <1>2, <2>3 DEF ChooseCatalogs
    <3>2. DOMAIN tables' = {1} /\ Len(tables') = 1
      BY <3>1
    <3>3. tables'[1].min = 0 /\ tables'[1].max = MaxRun /\ tables'[1].table = {}
      BY <3>1
    <3>4. IsOrdered(tables')
      BY <3>2, <3>3, MaxRunIsNat DEF IsOrdered
    <3>5. \A r \in Runs : Covers(tables'[1], r)
      BY <3>3 DEF Covers, Runs
    <3>6. \A r : Wanted(r)' = {}
      BY <2>2, <2>3 DEF Wanted
    <3>7. \A r \in Runs : Serves(tables, r)'
      BY <3>2, <3>3, <3>6 DEF Serves
    <3>8. \A r \in Runs : \E k \in DOMAIN tables' : Covers(tables'[k], r)
      BY <3>2, <3>5
    <3>9. cached' \in 0..Len(tables')
      BY <2>1, <2>2, <3>2
    <3> QED
      BY <3>4, <3>7, <3>8, <3>9 DEF TablesInv
  <2>4. CASE InUse # {}
    <3>1. tables' = tables /\ pc' = [pc EXCEPT ![w] = "read"]
      BY <1>2, <2>4 DEF ChooseCatalogs
    <3>2. \A v \in Workers : pc'[v] # "publish"
      BY <1>1, <1>2, <3>1 DEF ChooseCatalogs, GateInv, Loading, TypeOK
    <3> QED
      BY <1>1, <2>1, <2>2, <3>1, <3>2 DEF TablesInv
  <2> QED
    BY <2>3, <2>4
<1>3. ASSUME NEW w \in Workers, FinishTables(w), built # << >>
      PROVE  TablesInv'
  <2>1. /\ tables' = built /\ cached' = 0 /\ todo = {} /\ pc[w] = "build"
        /\ UNCHANGED <<disk, explicit, catalogs>>
    BY <1>3 DEF FinishTables, configVars
  <2>2. /\ InUse # {} /\ IsOrdered(built)
        /\ \A r \in Runs : Serves(built, r)
    BY <1>1, <2>1 DEF BuildInv
  <2>3. InUse' = InUse /\ \A r : Wanted(r)' = Wanted(r)
    BY <2>1, WantedIsStable DEF InUse
  <2>4. \A r \in Runs : Serves(tables, r)'
    BY <2>1, <2>2, <2>3 DEF Serves
  <2>5. cached' \in 0..Len(tables')
    BY <1>1, <2>1 DEF TypeOK
  <2> QED
    BY <2>1, <2>2, <2>3, <2>4, <2>5 DEF TablesInv
<1>4. CASE \A w \in Workers : ~ChooseCatalogs(w) /\ ~(FinishTables(w) /\ built # << >>)
  <2>1. tables' = tables
    <3>1. SUFFICES ASSUME tables' # tables PROVE FALSE
      OBVIOUS
    <3>2. PICK w \in Workers : ChooseCatalogs(w) \/ FinishTables(w)
      BY <1>1, <3>1, WhoWrites
    <3> QED
      BY <1>4, <3>1, <3>2 DEF FinishTables
  <2>2. cached' \in 0..Len(tables')
    <3>1. cached' = cached \/ \E w \in Workers : Store(w)
      BY <1>4 DEF Next, Continue, vars, configVars, loadVars, callVars, AddCatalog, Request, Pass,
         BeginLoad, ReadCatalog, FailToRead, BuildTable, FinishTables, Publish, EndLoad,
         CheckCache, Search
    <3>2. ASSUME NEW w \in Workers, Store(w)
          PROVE  cached' \in 0..Len(tables')
      <4>1. cached' \in DOMAIN tables
        BY <1>1, <3>2 DEF Store, SlotInv
      <4> QED
        BY <1>1, <2>1, <4>1 DEF TypeOK
    <3> QED
      BY <1>1, <2>1, <3>1, <3>2 DEF TablesInv
  <2>3. Ready' => Ready
    <3>1. loaded' = loaded \/ \E w \in Workers : Publish(w)
      BY <1>4 DEF Next, Continue, vars, configVars, loadVars, callVars, AddCatalog, Request, Pass,
         BeginLoad, ReadCatalog, FailToRead, BuildTable, FinishTables, EndLoad,
         CheckCache, Search, Store
    <3>2. ASSUME NEW v \in Workers, pc'[v] = "publish"
          PROVE  pc[v] = "publish"
      <4>1. CASE UNCHANGED vars
        BY <3>2, <4>1 DEF vars
      <4>2. ASSUME NEW p \in Providers, AddCatalog(p)
            PROVE  pc' = pc
        BY <4>2 DEF AddCatalog
      <4>3. ASSUME NEW w \in Workers, NEW x, x # "publish", pc' = [pc EXCEPT ![w] = x]
            PROVE  pc[v] = "publish"
        BY <1>1, <3>2, <4>3 DEF TypeOK
      <4>4. ASSUME NEW w \in Workers, NEW r \in Runs, Request(w, r)
            PROVE  \E x : x # "publish" /\ pc' = [pc EXCEPT ![w] = x]
        BY <4>4 DEF Request
      <4>5. ASSUME NEW w \in Workers, Continue(w)
            PROVE  pc' = pc \/ \E x : x # "publish" /\ pc' = [pc EXCEPT ![w] = x]
        BY <1>4, <4>5 DEF Continue, Pass, BeginLoad, ReadCatalog, FailToRead, BuildTable,
           FinishTables, Publish, EndLoad, CheckCache, Search, Store, Throw
      <4> QED
        BY <3>2, <4>1, <4>2, <4>3, <4>4, <4>5 DEF Next
    <3> QED
      BY <3>1, <3>2 DEF Publish
  <2>4. CASE Ready
    <3>1. Chosen
      BY <2>4 DEF Chosen, Loading
    <3>2. disk' = disk /\ InUse' = InUse
      BY <1>1, <3>1, InUseIsStable
    <3>3. \A r : Wanted(r)' = Wanted(r)
      BY <3>2, WantedIsStable
    <3>4. \A r \in Runs : Serves(tables, r)'
      BY <1>1, <2>1, <2>4, <3>3 DEF TablesInv, Serves
    <3> QED
      BY <1>1, <2>1, <2>2, <2>4, <3>2, <3>4 DEF TablesInv
  <2>5. CASE ~Ready
    BY <1>1, <2>1, <2>2, <2>3, <2>5 DEF TablesInv
  <2> QED
    BY <2>4, <2>5
<1> QED
  BY <1>2, <1>3, <1>4

LEMMA SlotNext == IInv /\ [Next]_vars => SlotInv'
<1> SUFFICES ASSUME IInv, [Next]_vars, NEW v \in Workers, pc'[v] = "store"
             PROVE  slot'[v] \in DOMAIN tables' /\ Covers(tables'[slot'[v]], asked'[v])
  BY DEF SlotInv
<1>1. TypeOK /\ GateInv /\ SlotInv
  BY DEF IInv
<1> USE DEF configVars, loadVars, callVars
<1>2. ASSUME NEW w \in Workers, Search(w)
      PROVE  /\ tables' = tables /\ asked' = asked
             /\ v = w \/ (pc[v] = "store" /\ slot'[v] = slot[v])
             /\ v = w => slot'[v] \in DOMAIN tables /\ Covers(tables[slot'[v]], asked[v])
  <2>1. PICK k \in 0..Len(tables) :
          IF k = 0 \/ ~Covers(tables[k], asked[w])
          THEN pc' = [pc EXCEPT ![w] = "uncovered"] /\ UNCHANGED slot
          ELSE pc' = [pc EXCEPT ![w] = "store"] /\ slot' = [slot EXCEPT ![w] = k]
    BY <1>2 DEF Search
  <2>2. CASE k = 0 \/ ~Covers(tables[k], asked[w])
    BY <1>1, <1>2, <2>1, <2>2 DEF Search, TypeOK
  <2>3. CASE k # 0 /\ Covers(tables[k], asked[w])
    <3>1. k \in DOMAIN tables
      BY <1>1, <2>3 DEF TypeOK
    <3>2. slot' = [slot EXCEPT ![w] = k] /\ pc' = [pc EXCEPT ![w] = "store"]
      BY <2>1, <2>3
    <3> QED
      BY <1>1, <1>2, <2>3, <3>1, <3>2 DEF Search, TypeOK
  <2> QED
    BY <2>2, <2>3
<1>3. CASE \A w \in Workers : ~Search(w)
  <2>1. pc[v] = "store" /\ slot'[v] = slot[v] /\ asked'[v] = asked[v]
    <3>1. CASE UNCHANGED vars
      BY <3>1 DEF vars
    <3>2. ASSUME NEW p \in Providers, AddCatalog(p)
          PROVE  UNCHANGED <<pc, slot, asked>>
      BY <3>2 DEF AddCatalog
    <3>3. ASSUME NEW w \in Workers, NEW x, x # "store", pc' = [pc EXCEPT ![w] = x]
          PROVE  pc[v] = "store" /\ v # w
      BY <1>1, <3>3 DEF TypeOK
    <3>4. ASSUME NEW w \in Workers, NEW r \in Runs, Request(w, r)
          PROVE  pc[v] = "store" /\ slot'[v] = slot[v] /\ asked'[v] = asked[v]
      <4>1. \E x : x # "store" /\ pc' = [pc EXCEPT ![w] = x]
        BY <3>4 DEF Request
      <4>2. pc[v] = "store" /\ v # w
        BY <3>3, <4>1
      <4> QED
        BY <1>1, <3>4, <4>2 DEF Request, TypeOK
    <3>5. ASSUME NEW w \in Workers, Continue(w)
          PROVE  /\ UNCHANGED <<slot, asked>>
                 /\ pc' = pc \/ \E x : x # "store" /\ pc' = [pc EXCEPT ![w] = x]
      BY <1>3, <3>5 DEF Continue, Pass, BeginLoad, ChooseCatalogs, ReadCatalog, FailToRead, BuildTable,
         FinishTables, Publish, EndLoad, CheckCache, Search, Store, Throw
    <3> QED
      BY <3>1, <3>2, <3>3, <3>4, <3>5 DEF Next
  <2>2. loaded
    BY <1>1, <2>1 DEF GateInv, Reading
  <2>3. tables' = tables
    BY <1>1, <2>2, WhoWrites
  <2> QED
    BY <1>1, <2>1, <2>3 DEF SlotInv
<1> QED
  BY <1>1, <1>2, <1>3 DEF SlotInv

\* The binary search misses no range.
LEMMA SearchIsComplete ==
    ASSUME NEW ts \in Seq(RunRangeTables), IsOrdered(ts), NEW run \in Runs, NEW k,
           IsPosition(ts, run, k), k = 0 \/ ~Covers(ts[k], run), NEW j \in DOMAIN ts
    PROVE  ~Covers(ts[j], run)
<1>1. Len(ts) \in Nat /\ DOMAIN ts = 1..Len(ts)
  OBVIOUS
<1>2. \A i \in 1..Len(ts) : ts[i].min \in Int /\ ts[i].max \in Int
  <2>1. \A i \in 1..Len(ts) : ts[i] \in RunRangeTables
    BY <1>1
  <2> QED
    BY SMTT(30), <2>1, MaxRunIsNat DEF RunRangeTables, Runs
<1>3. run \in Int /\ k \in 0..Len(ts)
  BY MaxRunIsNat DEF Runs, IsPosition
<1>4. CASE j = k
  BY <1>1, <1>4
<1>5. CASE j < k
  <2>1. k \in 1..Len(ts) /\ ts[k].min <= run
    BY <1>1, <1>3, <1>5 DEF IsPosition
  <2>2. ts[j].max < ts[k].min
    BY <1>1, <1>5, <2>1 DEF IsOrdered
  <2> QED
    BY <1>1, <1>2, <1>3, <2>1, <2>2 DEF Covers
<1>6. CASE k < j
  <2>1. k + 1 \in 1..Len(ts) /\ run < ts[k + 1].min
    BY <1>1, <1>3, <1>6 DEF IsPosition
  <2>2. CASE j = k + 1
    BY <1>1, <1>2, <1>3, <2>1, <2>2 DEF Covers
  <2>3. CASE j # k + 1
    <3>1. k + 1 < j
      BY <1>1, <1>3, <1>6, <2>3
    <3>2. ts[k + 1].max < ts[j].min /\ ts[k + 1].min <= ts[k + 1].max
      BY <1>1, <2>1, <3>1 DEF IsOrdered
    <3> QED
      BY <1>1, <1>2, <1>3, <2>1, <3>2 DEF Covers
  <2> QED
    BY <2>2, <2>3
<1> QED
  BY <1>1, <1>3, <1>4, <1>5, <1>6

LEMMA AnswersNext == IInv /\ [Next]_vars => AnswersAreRight'
<1> SUFFICES ASSUME IInv, [Next]_vars, NEW v \in Workers
             PROVE  /\ answer'[v] # NoAnswer => answer'[v] = Wanted(asked[v])'
                    /\ pc'[v] = "uncovered" => InUse' # {} /\ Wanted(asked[v])' = {}
  BY DEF AnswersAreRight
<1>1. TypeOK /\ GateInv /\ TablesInv /\ SlotInv /\ AnswersAreRight
  BY DEF IInv
<1> USE DEF configVars, loadVars, callVars
<1> DEFINE Same == pc'[v] = "uncovered" => pc[v] = "uncovered"
           Kept == answer'[v] = answer[v] /\ asked'[v] = asked[v]
<1>2. CASE Same /\ Kept
  <2>1. CASE loaded
    <3>1. InUse' = InUse /\ \A r : Wanted(r)' = Wanted(r)
      BY <1>1, <2>1, InUseIsStable, WantedIsStable DEF Chosen
    <3> QED
      BY <1>1, <1>2, <3>1 DEF AnswersAreRight
  <2>2. CASE ~loaded
    BY <1>1, <1>2, <2>2 DEF GateInv
  <2> QED
    BY <2>1, <2>2
<1>3. ASSUME NEW w \in Workers, pc[w] \in Reading
      PROVE  /\ InUse' = InUse /\ \A r : Wanted(r)' = Wanted(r)
             /\ IsOrdered(tables)
             /\ \A r \in Runs : Serves(tables, r)
             /\ InUse = {} => \A r \in Runs : \E k \in DOMAIN tables : Covers(tables[k], r)
  <2>1. loaded
    BY <1>1, <1>3 DEF GateInv
  <2>2. InUse' = InUse /\ \A r : Wanted(r)' = Wanted(r)
    BY <1>1, <2>1, InUseIsStable, WantedIsStable DEF Chosen
  <2> QED
    BY <1>1, <2>1, <2>2 DEF TablesInv
<1>4. ASSUME NEW w \in Workers, CheckCache(w)
      PROVE  /\ answer'[v] # NoAnswer => answer'[v] = Wanted(asked[v])'
             /\ pc'[v] = "uncovered" => InUse' # {} /\ Wanted(asked[v])' = {}
  <2>1. Same /\ asked' = asked
    BY <1>1, <1>4 DEF CheckCache, TypeOK
  <2>2. CASE v # w \/ answer' = answer
    BY <1>2, <1>4, <2>1, <2>2, <1>1 DEF CheckCache, TypeOK
  <2>3. CASE v = w /\ answer' # answer
    <3>1. /\ cached # 0 /\ Covers(tables[cached], asked[w])
          /\ answer' = [answer EXCEPT ![w] = tables[cached].table]
          /\ pc' = [pc EXCEPT ![w] = "idle"] /\ pc[w] \in Reading
      BY <1>4, <2>3 DEF CheckCache, Reading
    <3>2. cached \in DOMAIN tables /\ asked[w] \in Runs
      BY <1>1, <3>1 DEF TablesInv, TypeOK
    <3>3. tables[cached].table = Wanted(asked[w])
      BY <1>3, <3>1, <3>2 DEF Serves
    <3>4. answer'[v] = Wanted(asked[v]) /\ pc'[v] = "idle"
      BY <1>1, <2>3, <3>1, <3>3 DEF TypeOK
    <3> QED
      BY <1>3, <2>1, <3>1, <3>4
  <2> QED
    BY <2>2, <2>3
<1>5. ASSUME NEW w \in Workers, Store(w)
      PROVE  /\ answer'[v] # NoAnswer => answer'[v] = Wanted(asked[v])'
             /\ pc'[v] = "uncovered" => InUse' # {} /\ Wanted(asked[v])' = {}
  <2>1. Same /\ asked' = asked
    BY <1>1, <1>5 DEF Store, TypeOK
  <2>2. CASE v # w
    BY <1>2, <1>5, <2>1, <2>2, <1>1 DEF Store, TypeOK
  <2>3. CASE v = w
    <3>1. slot[w] \in DOMAIN tables /\ Covers(tables[slot[w]], asked[w]) /\ asked[w] \in Runs
      BY <1>1, <1>5 DEF Store, SlotInv, TypeOK
    <3>2. pc[w] \in Reading
      BY <1>5 DEF Store, Reading
    <3>3. tables[slot[w]].table = Wanted(asked[w])
      BY <1>3, <3>1, <3>2 DEF Serves
    <3>4. answer'[v] = Wanted(asked[v]) /\ pc'[v] = "idle"
      BY <1>1, <1>5, <2>3, <3>3 DEF Store, TypeOK
    <3> QED
      BY <1>3, <2>1, <3>2, <3>4
  <2> QED
    BY <2>2, <2>3
<1>6. ASSUME NEW w \in Workers, Search(w)
      PROVE  /\ answer'[v] # NoAnswer => answer'[v] = Wanted(asked[v])'
             /\ pc'[v] = "uncovered" => InUse' # {} /\ Wanted(asked[v])' = {}
  <2>1. Kept /\ asked' = asked /\ pc[w] \in Reading
    BY <1>6 DEF Search, Reading
  <2>2. CASE Same
    BY <1>2, <2>1, <2>2
  <2>3. CASE ~Same
    <3>1. PICK k \in 0..Len(tables) :
            /\ IsPosition(tables, asked[w], k)
            /\ IF k = 0 \/ ~Covers(tables[k], asked[w])
               THEN pc' = [pc EXCEPT ![w] = "uncovered"] /\ UNCHANGED slot
               ELSE pc' = [pc EXCEPT ![w] = "store"] /\ slot' = [slot EXCEPT ![w] = k]
      BY <1>6 DEF Search
    <3>2. v = w /\ (k = 0 \/ ~Covers(tables[k], asked[w]))
      BY <1>1, <2>3, <3>1 DEF TypeOK
    <3>3. \A j \in DOMAIN tables : ~Covers(tables[j], asked[w])
      BY <1>1, <1>3, <2>1, <3>1, <3>2, SearchIsComplete DEF TypeOK
    <3>4. Wanted(asked[w]) = {} /\ InUse # {}
      BY <1>1, <1>3, <2>1, <3>3 DEF Serves, TypeOK
    <3>5. pc[v] # "uncovered" /\ answer'[v] = answer[v]
      BY <2>1, <2>3
    <3>6. answer[v] # NoAnswer => answer[v] = Wanted(asked[v])
      BY <1>1 DEF AnswersAreRight
    <3> QED
      BY <1>3, <2>1, <3>2, <3>4, <3>5, <3>6
  <2> QED
    BY <2>2, <2>3
<1>7. ASSUME NEW w \in Workers, NEW r \in Runs, Request(w, r)
      PROVE  /\ answer'[v] # NoAnswer => answer'[v] = Wanted(asked[v])'
             /\ pc'[v] = "uncovered" => InUse' # {} /\ Wanted(asked[v])' = {}
  <2>1. CASE v = w
    BY <1>1, <1>7, <2>1 DEF Request, TypeOK
  <2>2. CASE v # w
    BY <1>1, <1>2, <1>7, <2>2 DEF Request, TypeOK
  <2> QED
    BY <2>1, <2>2
<1>8. CASE UNCHANGED vars
  BY <1>2, <1>8 DEF vars
<1>9. ASSUME NEW p \in Providers, AddCatalog(p)
      PROVE  Same /\ Kept
  BY <1>9 DEF AddCatalog
<1>10. ASSUME NEW w \in Workers, \/ Pass(w) \/ BeginLoad(w) \/ ChooseCatalogs(w) \/ ReadCatalog(w)
              \/ FailToRead(w) \/ BuildTable(w) \/ FinishTables(w) \/ Publish(w) \/ EndLoad(w)
       PROVE  Same /\ Kept
  <2>1. Kept
    BY <1>10 DEF Pass, BeginLoad, ChooseCatalogs, ReadCatalog, FailToRead, BuildTable,
       FinishTables, Publish, EndLoad
  <2>2. pc' = pc \/ \E x : x # "uncovered" /\ pc' = [pc EXCEPT ![w] = x]
    BY <1>10 DEF Pass, BeginLoad, ChooseCatalogs, ReadCatalog, FailToRead, BuildTable,
       FinishTables, Publish, EndLoad, Throw
  <2> QED
    BY <1>1, <2>1, <2>2 DEF TypeOK
<1> QED
  BY <1>2, <1>4, <1>5, <1>6, <1>7, <1>8, <1>9, <1>10 DEF Next, Continue

-----------------------------------------------------------------------------

\* The inductive invariant holds initially.
LEMMA IInvInit == Init => IInv
<1> SUFFICES ASSUME Init
             PROVE  IInv
  OBVIOUS
<1>1. TypeOK /\ GateInv
  BY TypeInit, GateInit
<1>2. LocalsInv /\ ReadInv /\ BuildInv /\ SlotInv /\ AnswersAreRight
  BY DEF Init, LocalsInv, ReadInv, BuildInv, SlotInv, AnswersAreRight
<1>3. IsOrdered(tables) /\ cached \in 0..Len(tables)
  BY DEF Init, IsOrdered
<1> QED
  BY <1>1, <1>2, <1>3 DEF Init, IInv, TablesInv

\* Every step keeps the inductive invariant.
LEMMA IInvNext == IInv /\ [Next]_vars => IInv'
BY TypeNext, GateNext, LocalsNext, ReadNext, BuildNext, TablesNext, SlotNext, AnswersNext DEF IInv

LEMMA Invariant == Spec => []IInv
<1>1. Init => IInv
  BY IInvInit
<1>2. IInv /\ [Next]_vars => IInv'
  BY IInvNext
<1> QED
  BY <1>1, <1>2, PTL DEF Spec

\* The state of the service and of its callers is well formed.
THEOREM TypeCorrect == Spec => []TypeOK
<1>1. IInv => TypeOK
  BY DEF IInv
<1> QED
  BY <1>1, Invariant, PTL

\* getTable returns the table of exactly the mapping files that the catalogs
\* give for the run, and throws only when they give none.
THEOREM Correctness == Spec => []AnswersAreRight
<1>1. IInv => AnswersAreRight
  BY DEF IInv
<1> QED
  BY <1>1, Invariant, PTL

\* The lists that getTable searches are ordered and merged.
THEOREM Order == Spec => []RunTablesAreOrdered
<1>1. IInv => RunTablesAreOrdered
  BY DEF IInv, TablesInv, RunTablesAreOrdered
<1> QED
  BY <1>1, Invariant, PTL

\* No step writes what the callers behind the gate read without a lock.
THEOREM Stability == Spec => TablesAreStable
<1>1. IInv /\ [Next]_vars => [(\E w \in Workers : pc[w] \in Reading) => tables' = tables]_vars
  <2>1. ASSUME IInv, [Next]_vars, NEW w \in Workers, pc[w] \in Reading
        PROVE  tables' = tables
    <3>1. TypeOK /\ GateInv
      BY <2>1 DEF IInv
    <3>2. loaded
      BY <2>1, <3>1 DEF GateInv
    <3> QED
      BY <2>1, <3>1, <3>2, WhoWrites
  <2> QED
    BY <2>1
<1> QED
  BY <1>1, Invariant, PTL DEF Spec, TablesAreStable

=============================================================================

---------------------- MODULE TranslationTableService ----------------------
(***************************************************************************)
(* JEventService_TranslationTable and JEventService_DetectorMappingCatalogs*)
(* under concurrent calls.  Every worker that translates an event asks     *)
(* getTable for the table of the event's run.  The first calls race to     *)
(* load the tables under std::call_once: one loads, the others wait, and   *)
(* if it throws another one loads.  Later calls pass on m_loaded and read  *)
(* the tables without a lock, trying the range that some worker used last. *)
(*                                                                         *)
(* loadTables is cut into its loops' iterations, each of which reads files *)
(* and may fail for a reason outside the configuration.  A worker whose    *)
(* call threw makes no further call: the exception ends JANA2's run.       *)
(***************************************************************************)
EXTENDS RunTables, FiniteSets

CONSTANTS Workers,
          Providers,       \* the named catalog directories
          Disks,           \* what the directories may hold, as functions
                           \* from Providers to sets of manifests
          ExplicitChoices, \* providers given by TRANSLATION:DIRECTORY or to
                           \* the constructor; {} when there are none
          NoAnswer

ASSUME DisksHoldManifests == Disks \subseteq [Providers -> SUBSET Manifests]
ASSUME ExplicitAreProviders == ExplicitChoices \subseteq SUBSET Providers

VARIABLES
    disk,      \* the catalog in each directory
    explicit,  \* m_mapping_directory or m_default_catalogs
    catalogs,  \* JEventService_DetectorMappingCatalogs: those registered
    frozen,    \* its m_frozen
    once,      \* m_load_once: "free", "running" or "done"
    loaded,    \* m_loaded
    tables,    \* m_run_tables
    cached,    \* m_cached_run_table: a position in tables, 0 for null
    unread,    \* loadTables: providers still to be read
    manifests, \* loadTables: detector_manifests
    todo,      \* loadTables: the boundaries from the loop's iterator on
    built,     \* loadTables: run_tables
    pc,        \* where each worker is in getTable
    asked,     \* its run_number
    slot,      \* the position its search found
    answer     \* the table it was given last

configVars == <<disk, explicit>>
loadVars == <<unread, manifests, todo, built>>
callVars == <<asked, slot, answer>>

vars == <<configVars, catalogs, frozen, once, loaded, tables, cached, loadVars, pc, callVars>>

Init ==
    /\ disk \in Disks
    /\ explicit \in ExplicitChoices
    /\ catalogs = {}
    /\ frozen = FALSE
    /\ once = "free"
    /\ loaded = FALSE
    /\ tables = << >>
    /\ cached = 0
    /\ unread = {}
    /\ manifests = {}
    /\ todo = {}
    /\ built = << >>
    /\ pc = [w \in Workers |-> "idle"]
    /\ asked = [w \in Workers |-> 0]
    /\ slot = [w \in Workers |-> 0]
    /\ answer = [w \in Workers |-> NoAnswer]

-----------------------------------------------------------------------------
(* JEventService_DetectorMappingCatalogs *)

\* addCatalog, when it does not throw.
AddCatalog(p) ==
    /\ ~frozen
    /\ p \notin catalogs
    /\ catalogs' = catalogs \cup {p}
    /\ UNCHANGED <<configVars, frozen, once, loaded, tables, cached, loadVars, pc, callVars>>

-----------------------------------------------------------------------------
(* getTable up to the gate *)

\* The call, and its load of m_loaded.
Request(w, r) ==
    /\ pc[w] = "idle"
    /\ asked' = [asked EXCEPT ![w] = r]
    /\ answer' = [answer EXCEPT ![w] = NoAnswer]
    /\ pc' = [pc EXCEPT ![w] = IF loaded THEN "lookup" ELSE "once"]
    /\ UNCHANGED <<configVars, catalogs, frozen, once, loaded, tables, cached, loadVars, slot>>

\* call_once returns at once when a load has succeeded ...
Pass(w) ==
    /\ pc[w] = "once"
    /\ once = "done"
    /\ pc' = [pc EXCEPT ![w] = "lookup"]
    /\ UNCHANGED <<configVars, catalogs, frozen, once, loaded, tables, cached, loadVars, callVars>>

\* ... waits while a load is running, and otherwise runs it.
\* (In the faulty variant, m_loaded is stored before the load.)
BeginLoadOpening(w) ==
    /\ pc[w] = "once"
    /\ once = "free"
    /\ once' = "running"
    /\ loaded' = TRUE
    /\ pc' = [pc EXCEPT ![w] = "choose"]
    /\ UNCHANGED <<configVars, catalogs, frozen, tables, cached, loadVars, callVars>>

BeginLoad(w) ==
    /\ pc[w] = "once"
    /\ once = "free"
    /\ once' = "running"
    /\ pc' = [pc EXCEPT ![w] = "choose"]
    /\ UNCHANGED <<configVars, catalogs, frozen, loaded, tables, cached, loadVars, callVars>>

-----------------------------------------------------------------------------
(* loadTables, on worker w *)

\* An exception leaves call_once free for another caller; all that loadTables
\* did to its local variables is gone.
\* (In the faulty variant the waiting callers are never let go.)
ThrowHolding(w) ==
    /\ pc' = [pc EXCEPT ![w] = "thrown"]
    /\ UNCHANGED once
    /\ unread' = {} /\ manifests' = {} /\ todo' = {} /\ built' = << >>

Throw(w) ==
    /\ pc' = [pc EXCEPT ![w] = "thrown"]
    /\ once' = "free"
    /\ unread' = {} /\ manifests' = {} /\ todo' = {} /\ built' = << >>

\* The providers that loadTables uses.
InUse == IF explicit # {} THEN explicit ELSE catalogs

\* The registry is frozen only if it is asked.  Without any provider, an empty
\* table serves every run.
ChooseCatalogs(w) ==
    /\ pc[w] = "choose"
    /\ frozen' = (frozen \/ explicit = {})
    /\ IF InUse = {}
       THEN /\ tables' = << [min |-> 0, max |-> MaxRun, table |-> {}] >>
            /\ pc' = [pc EXCEPT ![w] = "publish"]
            /\ UNCHANGED unread
       ELSE /\ unread' = InUse
            /\ pc' = [pc EXCEPT ![w] = "read"]
            /\ UNCHANGED tables
    /\ UNCHANGED <<configVars, catalogs, once, loaded, cached, manifests, todo, built, callVars>>

\* An iteration of the loop over the providers, in whatever order.
ReadCatalog(w) ==
    /\ pc[w] = "read"
    /\ \E p \in unread :
          IF /\ IsCatalog(disk[p])
             /\ \A m \in disk[p], n \in manifests : m.detector # n.detector
          THEN /\ unread' = unread \ {p}
               /\ manifests' = manifests \cup disk[p]
               /\ todo' = todo \cup UNION {Boundaries(m.ranges) : m \in disk[p]}
               /\ pc' = [pc EXCEPT ![w] = IF unread = {p} THEN "build" ELSE "read"]
               /\ UNCHANGED <<once, built>>
          ELSE Throw(w)
    /\ UNCHANGED <<configVars, catalogs, frozen, loaded, tables, cached, callVars>>

\* A file cannot be read.
FailToRead(w) ==
    /\ pc[w] = "read" \/ (pc[w] = "build" /\ todo # {})
    /\ Throw(w)
    /\ UNCHANGED <<configVars, catalogs, frozen, loaded, tables, cached, callVars>>

\* An iteration of the loop over the boundaries.
BuildTable(w) ==
    /\ pc[w] = "build"
    /\ \E min \in todo, max \in Runs :
          /\ \A b \in todo : min <= b
          /\ IF todo = {min} THEN max = MaxRun
             ELSE max + 1 \in todo \ {min} /\ \A b \in todo \ {min} : max < b
          /\ IF IsLoadable(Selected(manifests, min))
             THEN /\ todo' = todo \ {min}
                  /\ built' = Extended(built, min, max, Selected(manifests, min))
                  /\ UNCHANGED <<once, pc, unread, manifests>>
             ELSE Throw(w)
    /\ UNCHANGED <<configVars, catalogs, frozen, loaded, tables, cached, callVars>>

\* The end of loadTables.
FinishTables(w) ==
    /\ pc[w] = "build"
    /\ todo = {}
    /\ IF built = << >>
       THEN Throw(w) /\ UNCHANGED <<tables, cached>>
       ELSE /\ tables' = built
            /\ cached' = 0
            /\ pc' = [pc EXCEPT ![w] = "publish"]
            /\ manifests' = {} /\ built' = << >>
            /\ UNCHANGED <<once, unread, todo>>
    /\ UNCHANGED <<configVars, catalogs, frozen, loaded, callVars>>

\* The store to m_loaded opens the gate ...
Publish(w) ==
    /\ pc[w] = "publish"
    /\ loaded' = TRUE
    /\ pc' = [pc EXCEPT ![w] = "finish"]
    /\ UNCHANGED <<configVars, catalogs, frozen, once, tables, cached, loadVars, callVars>>

\* ... before call_once lets the waiting callers go.
EndLoad(w) ==
    /\ pc[w] = "finish"
    /\ once' = "done"
    /\ pc' = [pc EXCEPT ![w] = "lookup"]
    /\ UNCHANGED <<configVars, catalogs, frozen, loaded, tables, cached, loadVars, callVars>>

-----------------------------------------------------------------------------
(* getTable behind the gate *)

\* The cached range is used if it is one and covers the run.
\* (In the faulty variant its upper end is not looked at.)
CheckCacheFrom(w) ==
    /\ pc[w] = "lookup"
    /\ IF cached # 0 /\ tables[cached].min <= asked[w]
       THEN /\ answer' = [answer EXCEPT ![w] = tables[cached].table]
            /\ pc' = [pc EXCEPT ![w] = "idle"]
       ELSE pc' = [pc EXCEPT ![w] = "search"] /\ UNCHANGED answer
    /\ UNCHANGED <<configVars, catalogs, frozen, once, loaded, tables, cached, loadVars, asked, slot>>

CheckCache(w) ==
    /\ pc[w] = "lookup"
    /\ IF cached # 0 /\ Covers(tables[cached], asked[w])
       THEN /\ answer' = [answer EXCEPT ![w] = tables[cached].table]
            /\ pc' = [pc EXCEPT ![w] = "idle"]
       ELSE pc' = [pc EXCEPT ![w] = "search"] /\ UNCHANGED answer
    /\ UNCHANGED <<configVars, catalogs, frozen, once, loaded, tables, cached, loadVars, asked, slot>>

Search(w) ==
    /\ pc[w] = "search"
    /\ \E k \in 0..Len(tables) :
          /\ IsPosition(tables, asked[w], k)
          /\ IF k = 0 \/ ~Covers(tables[k], asked[w])
             THEN pc' = [pc EXCEPT ![w] = "uncovered"] /\ UNCHANGED slot
             ELSE pc' = [pc EXCEPT ![w] = "store"] /\ slot' = [slot EXCEPT ![w] = k]
    /\ UNCHANGED <<configVars, catalogs, frozen, once, loaded, tables, cached, loadVars, asked, answer>>

\* The other workers' next calls will try this range first.
Store(w) ==
    /\ pc[w] = "store"
    /\ cached' = slot[w]
    /\ answer' = [answer EXCEPT ![w] = tables[slot[w]].table]
    /\ pc' = [pc EXCEPT ![w] = "idle"]
    /\ UNCHANGED <<configVars, catalogs, frozen, once, loaded, tables, loadVars, asked, slot>>

Continue(w) ==
    \/ Pass(w)
    \/ BeginLoad(w)
    \/ ChooseCatalogs(w)
    \/ ReadCatalog(w)
    \/ FailToRead(w)
    \/ BuildTable(w)
    \/ FinishTables(w)
    \/ Publish(w)
    \/ EndLoad(w)
    \/ CheckCache(w)
    \/ Search(w)
    \/ Store(w)

Next ==
    \/ \E p \in Providers : AddCatalog(p)
    \/ \E w \in Workers, r \in Runs : Request(w, r)
    \/ \E w \in Workers : Continue(w)

Spec == Init /\ [][Next]_vars

\* A worker in getTable keeps running.
FairSpec == Spec /\ \A w \in Workers : WF_vars(Continue(w))

-----------------------------------------------------------------------------

Loading == {"choose", "read", "build", "publish", "finish"}

Reading == {"lookup", "search", "store"}

TypeOK ==
    /\ disk \in [Providers -> SUBSET Manifests]
    /\ explicit \subseteq Providers
    /\ catalogs \subseteq Providers
    /\ frozen \in BOOLEAN
    /\ once \in {"free", "running", "done"}
    /\ loaded \in BOOLEAN
    /\ tables \in Seq(RunRangeTables)
    /\ cached \in Nat
    /\ unread \subseteq Providers
    /\ manifests \subseteq Manifests
    /\ todo \subseteq Runs
    /\ built \in Seq(RunRangeTables)
    /\ pc \in [Workers -> {"idle", "once", "thrown", "uncovered"} \cup Loading \cup Reading]
    /\ asked \in [Workers -> Runs]
    /\ slot \in [Workers -> Nat]
    /\ answer \in [Workers -> Tables \cup {NoAnswer}]

\* The mappings that the catalogs in use give for a run.
Wanted(run) ==
    UNION {UNION {{<<m.detector, g.file>> : g \in {h \in m.ranges : Covers(h, run)}} :
                     m \in disk[p]} : p \in InUse}

(* Whatever the order of the calls, of the registrations, of the failed     *)
(* loads and of the uses of the cached range, getTable returns the table   *)
(* of exactly the mapping files that the registered catalogs give for the  *)
(* run, and reports a run as uncovered only if they give none.             *)
AnswersAreRight ==
    \A w \in Workers :
        /\ answer[w] # NoAnswer => answer[w] = Wanted(asked[w])
        /\ pc[w] = "uncovered" => InUse # {} /\ Wanted(asked[w]) = {}

(* The published run tables are in ascending order without overlap, as the  *)
(* binary search needs them, and no two neighbours could have been one.    *)
RunTablesAreOrdered == IsOrdered(tables)

(* m_run_tables and the ranges that m_cached_run_table points into are read *)
(* without a lock: no step changes them while a worker is behind the gate. *)
TablesAreStable == [][(\E w \in Workers : pc[w] \in Reading) => tables' = tables]_vars

(* No call of getTable waits forever, even if the load it waits for fails.  *)
EveryCallEnds ==
    \A w \in Workers : pc[w] = "once" ~> pc[w] \in {"idle", "thrown", "uncovered"}

-----------------------------------------------------------------------------
(* The inductive invariant behind AnswersAreRight and TablesAreStable.     *)

\* Is the load past the choice of the catalogs?
Chosen == loaded \/ \E w \in Workers : pc[w] \in Loading \ {"choose"}

\* One loader at most; nobody reads before m_loaded is set.
GateInv ==
    /\ \A v, w \in Workers : pc[v] \in Loading /\ pc[w] \in Loading => v = w
    /\ \A w \in Workers : pc[w] \in Loading => once = "running"
    /\ once = "done" => loaded
    /\ loaded => once = "done" \/ \E w \in Workers : pc[w] = "finish"
    /\ \A w \in Workers : pc[w] \in Reading \cup {"uncovered", "finish"} => loaded
    /\ \A w \in Workers : answer[w] # NoAnswer => loaded
    /\ ~loaded => cached = 0
    /\ Chosen /\ explicit = {} => frozen

\* A list of run tables is right for a run if no other table covers the run.
Serves(ts, run) ==
    /\ \A k \in DOMAIN ts : Covers(ts[k], run) => ts[k].table = Wanted(run)
    /\ Wanted(run) # {} => \E k \in DOMAIN ts : Covers(ts[k], run)

AllManifests == UNION {disk[p] : p \in InUse}

\* What the loop over the providers has done.
ReadInv ==
    (\E w \in Workers : pc[w] = "read") =>
        /\ unread \subseteq InUse /\ unread # {}
        /\ \A p \in InUse \ unread : IsCatalog(disk[p])
        /\ manifests = UNION {disk[p] : p \in InUse \ unread}
        /\ todo = UNION {Boundaries(m.ranges) : m \in manifests}
        /\ built = << >>

\* The locals of a load that has not begun, or has ended.
LocalsInv ==
    (\A w \in Workers : pc[w] \notin {"read", "build"}) =>
        manifests = {} /\ todo = {} /\ built = << >>

\* What the loop over the boundaries has done: the runs before the next
\* boundary are served.
BuildInv ==
    (\E w \in Workers : pc[w] = "build") =>
        /\ InUse # {}
        /\ \A p \in InUse : IsCatalog(disk[p])
        /\ manifests = AllManifests
        /\ todo \subseteq UNION {Boundaries(m.ranges) : m \in manifests}
        /\ \A m \in manifests : \A b \in Boundaries(m.ranges) :
              b \in todo \/ \A c \in todo : b < c
        /\ IsOrdered(built)
        /\ \A k \in DOMAIN built : \A c \in todo : built[k].max < c
        /\ \A r \in Runs : (\A c \in todo : r < c) => Serves(built, r)

TablesInv ==
    /\ IsOrdered(tables)
    /\ cached \in 0..Len(tables)
    /\ loaded \/ (\E w \in Workers : pc[w] = "publish") =>
        /\ \A r \in Runs : Serves(tables, r)
        /\ InUse = {} => \A r \in Runs : \E k \in DOMAIN tables : Covers(tables[k], r)

SlotInv ==
    \A w \in Workers : pc[w] = "store" =>
        slot[w] \in DOMAIN tables /\ Covers(tables[slot[w]], asked[w])

IInv ==
    /\ TypeOK
    /\ GateInv
    /\ LocalsInv
    /\ ReadInv
    /\ BuildInv
    /\ TablesInv
    /\ SlotInv
    /\ AnswersAreRight

=============================================================================

---------------------------- MODULE EvioPipeline ----------------------------
(***************************************************************************)
(* From EVIO files to physics-level events: JEventSource_EVIO::Emit reads  *)
(* a file in order, worker threads decode the emitted blocks concurrently  *)
(* (JEventSource_EVIO::ProcessParallel, EvioEventParser::parse), and       *)
(* JEventUnfolder_EVIO turns each decoded block into one child per event   *)
(* number.  The worker's steps are cut where it touches what other threads *)
(* touch too: the two registries, which freeze at their first lookup, and  *)
(* the module parsers, which are shared and keep the last caller's logger. *)
(* The filter database is read before anything else, and never again.      *)
(*                                                                         *)
(* JANA2 itself is external: it calls Emit for one event at a time per     *)
(* source, hands each block to one worker, unfolds one block at a time,    *)
(* keeps at most Capacity blocks in flight, and stops handing out work     *)
(* once a component has thrown.                                            *)
(***************************************************************************)
EXTENDS EvioData, FilterDatabase

CONSTANTS Sources,   \* the event sources, one per input file
          Files,     \* what a file may hold
          Workers,   \* JANA2's worker threads
          Parsers,   \* the parser objects
          Setups,    \* the configurations when processing starts, as
                     \* [files, routes, parsers] records
          Capacity,  \* JANA2's pool of block-level events
          None       \* no block, no source

\* A line of a filter file.
FilterLines ==
    [kind : {"row"}, roc : ROCs, slot : Nat, module : Nat, bank : Banks]
      \cup [kind : {"blank", "malformed"}]

\* A block-level event: where it was read, and its run number; and one that
\* has been decoded, with the hits of each of its event numbers.
BlockEvents == [src : Sources, pos : Nat, run : Nat]

DecodedEvents ==
    [block : BlockEvents,
     hits : UNION {[N -> Seq(Nat \X Nat \X Nat)] : N \in SUBSET EventNumbers}]

ASSUME FilesHoldEvents == Files \subseteq Seq(EvioEvents)

ASSUME SetupsAreConfigurations ==
    \A setup \in Setups :
        /\ setup.files \in Seq(Seq(FilterLines))
        /\ setup.routes \in [Banks -> Modules \cup {NoModule}]
        /\ setup.parsers \in [Modules -> Parsers \cup {NullParser}]

ASSUME AbsentIsAbsent ==
    /\ None \notin BlockEvents \cup DecodedEvents
    /\ NoModule \notin Modules
    /\ NullParser \notin Parsers

VARIABLES
    filterFiles,   \* the filter files, each a sequence of lines; none if
                   \* FILTER:ENABLE is not set
    filter,        \* JEventService_FilterDB
    file,          \* the file of each source
    read,          \* how many of its events parseNextEvent has returned
    run,           \* m_run_number of each source
    queue,         \* blocks emitted and not yet taken by a worker
    pc,            \* where each worker is in ProcessParallel
    block,         \* the block a worker is decoding
    at,            \* its loop variables: data bank and DMA bank
    found,         \* its module_id, then its module_parser
    events,        \* its physics_events, in the order appended
    decoded,       \* blocks with their PhysicsEvents, awaiting the unfolder
    parent,        \* the block being unfolded
    remaining,     \* the event numbers of the parent not yet unfolded
    children,      \* the physics-level events, in the order emitted
    failed,        \* has an exception stopped the processing?
    routes, routesFrozen,    \* JEventService_BankToModuleMap
    parsers, parsersFrozen,  \* JEventService_ModuleParsersMap
    logger         \* whose logger each parser object has been given

filterVars == <<filterFiles, filter>>
sourceVars == <<file, read, run>>
workerVars == <<pc, block, at, found, events>>
unfolderVars == <<parent, remaining, children>>
registryVars == <<routes, routesFrozen, parsers, parsersFrozen>>

vars == <<filterVars, sourceVars, queue, workerVars, decoded, unfolderVars, failed, registryVars, logger>>

EventOf(b) == file[b.src][b.pos]

Init ==
    /\ file \in [Sources -> Files]
    /\ read = [s \in Sources |-> 0]
    /\ run = [s \in Sources |-> 0]
    /\ queue = {}
    /\ pc = [w \in Workers |-> "idle"]
    /\ block = [w \in Workers |-> None]
    /\ at = [w \in Workers |-> <<0, 0>>]
    /\ found = [w \in Workers |-> None]
    /\ events = [w \in Workers |-> << >>]
    /\ decoded = {}
    /\ parent = None
    /\ remaining = {}
    /\ children = << >>
    /\ \E setup \in Setups :
          /\ filterFiles = setup.files
          /\ filter = FillDB(setup.files)
          /\ failed = IsRefused(setup.files)
          /\ routes = setup.routes
          /\ parsers = setup.parsers
    /\ routesFrozen = FALSE
    /\ parsersFrozen = FALSE
    /\ logger = [p \in Parsers |-> None]

-----------------------------------------------------------------------------
(* JEventSource_EVIO *)

InFlight ==
    Cardinality(queue) + Cardinality({w \in Workers : block[w] # None})
      + Cardinality(decoded) + (IF parent = None THEN 0 ELSE 1)

\* The checks of Emit, in order.  Only physics events pass the first two, so
\* isRunControlEvent is asked of physics events alone.
PassesFilters(e) == e.filled /\ e.kind = "physics"

IsRunControl(e) == e.kind \in {"prestart", "control"}

\* isRunControlEvent's effect on m_run_number, where Emit gets as far.
RunAfter(s, e) == IF PassesFilters(e) /\ e.kind = "prestart" THEN e.run ELSE run[s]

\* The rest of Emit: the block is inserted unless it was run control.
Emit(s) ==
    /\ ~failed
    /\ InFlight < Capacity
    /\ read[s] < Len(file[s])
    /\ LET e == file[s][read[s] + 1]
       IN  /\ run' = [run EXCEPT ![s] = RunAfter(s, e)]
           /\ queue' = IF PassesFilters(e) /\ ~IsRunControl(e)
                       THEN queue \cup {[src |-> s, pos |-> read[s] + 1, run |-> RunAfter(s, e)]}
                       ELSE queue
    /\ read' = [read EXCEPT ![s] = @ + 1]
    /\ UNCHANGED <<filterVars, file, workerVars, decoded, unfolderVars, failed, registryVars, logger>>

-----------------------------------------------------------------------------
(* EvioEventParser, on worker w *)

DataBank(w) == EventOf(block[w]).banks[at[w][1]]

DMABank(w) == DataBank(w).dmas[at[w][2]]

\* The outer and the inner loop of parseROCBanks.
InROCLoop(w) == pc[w] = "roc" /\ at[w][1] <= Len(EventOf(block[w]).banks)
InDMALoop(w) == pc[w] = "dma" /\ at[w][2] <= Len(DataBank(w).dmas)

NextROC(w) == [at EXCEPT ![w] = <<at[w][1] + 1, 0>>]
NextDMA(w) == [at EXCEPT ![w] = <<at[w][1], at[w][2] + 1>>]

\* An exception ends the worker's call and the processing; the PhysicsEvents
\* made so far are not inserted into the block.
Throw(w) ==
    /\ failed' = TRUE
    /\ pc' = [pc EXCEPT ![w] = "thrown"]

\* parse: parseTriggerBank, and the ROC count check of parseROCBanks.
TakeBlock(w) ==
    /\ ~failed
    /\ pc[w] = "idle"
    /\ \E b \in queue :
        /\ queue' = queue \ {b}
        /\ block' = [block EXCEPT ![w] = b]
        /\ IF TriggerAgrees(EventOf(b))
           THEN pc' = [pc EXCEPT ![w] = "roc"] /\ UNCHANGED failed
           ELSE Throw(w)
    /\ at' = [at EXCEPT ![w] = <<1, 0>>]
    /\ UNCHANGED <<filterVars, sourceVars, found, events, decoded, unfolderVars, registryVars, logger>>

\* The outer loop: the ROC IDs must match, then the ROC may be filtered out.
CheckROC(w) ==
    /\ InROCLoop(w)
    /\ IF EventOf(block[w]).segments[at[w][1]] # DataBank(w).roc
       THEN Throw(w) /\ UNCHANGED at
       ELSE IF ~IsROCAllowed(filter, DataBank(w).roc)
       THEN at' = NextROC(w) /\ UNCHANGED <<pc, failed>>
       ELSE at' = NextDMA(w) /\ pc' = [pc EXCEPT ![w] = "dma"] /\ UNCHANGED failed
    /\ UNCHANGED <<filterVars, sourceVars, queue, block, found, events, decoded, unfolderVars, registryVars,
                   logger>>

\* The inner loop ends.
LeaveROC(w) ==
    /\ pc[w] = "dma" /\ ~InDMALoop(w)
    /\ at' = NextROC(w)
    /\ pc' = [pc EXCEPT ![w] = "roc"]
    /\ UNCHANGED <<filterVars, sourceVars, queue, block, found, events, decoded, unfolderVars, failed,
                   registryVars, logger>>

\* Faulty variant: the loop does not get past a bank it skips.
SkipBankForever(w) ==
    /\ InDMALoop(w)
    /\ ~IsBankAllowed(filter, DataBank(w).roc, DMABank(w).tag)
    /\ UNCHANGED vars

\* The bank may be filtered out before it is looked up ...
SkipBank(w) ==
    /\ InDMALoop(w)
    /\ ~IsBankAllowed(filter, DataBank(w).roc, DMABank(w).tag)
    /\ at' = NextDMA(w)
    /\ UNCHANGED <<filterVars, sourceVars, queue, pc, block, found, events, decoded, unfolderVars, failed,
                   registryVars, logger>>

\* ... and is skipped when getModuleId, which freezes the map, knows no module.
ResolveBank(w) ==
    /\ InDMALoop(w)
    /\ IsBankAllowed(filter, DataBank(w).roc, DMABank(w).tag)
    /\ routesFrozen' = TRUE
    /\ IF routes[DMABank(w).tag] = NoModule
       THEN at' = NextDMA(w) /\ UNCHANGED <<pc, found>>
       ELSE /\ pc' = [pc EXCEPT ![w] = "parser"]
            /\ found' = [found EXCEPT ![w] = routes[DMABank(w).tag]]
            /\ UNCHANGED at
    /\ UNCHANGED <<filterVars, sourceVars, queue, block, events, decoded, unfolderVars, failed,
                   routes, parsers, parsersFrozen, logger>>

\* getParser, which freezes its map too.
FindParser(w) ==
    /\ pc[w] = "parser"
    /\ parsersFrozen' = TRUE
    /\ IF parsers[found[w]] = NullParser
       THEN Throw(w) /\ UNCHANGED found
       ELSE /\ pc' = [pc EXCEPT ![w] = "bind"]
            /\ found' = [found EXCEPT ![w] = parsers[found[w]]]
            /\ UNCHANGED failed
    /\ UNCHANGED <<filterVars, sourceVars, queue, block, at, events, decoded, unfolderVars,
                   routes, routesFrozen, parsers, logger>>

\* SetLogger on the shared parser object, without synchronization.
BindLogger(w) ==
    /\ pc[w] = "bind"
    /\ logger' = [logger EXCEPT ![found[w]] = block[w].src]
    /\ pc' = [pc EXCEPT ![w] = "decode"]
    /\ UNCHANGED <<filterVars, sourceVars, queue, block, at, found, events, decoded, unfolderVars, failed,
                   registryVars>>

\* What the module parser appends for the bank the worker is at.
Appended(w) ==
    [k \in DOMAIN DMABank(w).body.offsets |->
        [num |-> AsInt(EventOf(block[w]).first + DMABank(w).body.offsets[k]),
         hit |-> <<at[w][1], at[w][2], k>>]]

\* Faulty variant: a bank that cannot be parsed is skipped.
DecodeBankForgiving(w) ==
    /\ pc[w] = "decode"
    /\ events' = [events EXCEPT ![w] = @ \o Appended(w)]
    /\ at' = NextDMA(w)
    /\ pc' = [pc EXCEPT ![w] = "dma"]
    /\ found' = [found EXCEPT ![w] = None]
    /\ UNCHANGED <<filterVars, sourceVars, queue, block, decoded, unfolderVars, failed, registryVars,
                   logger>>

\* ModuleParser::parse.
DecodeBank(w) ==
    /\ pc[w] = "decode"
    /\ IF DMABank(w).body.sound
       THEN /\ events' = [events EXCEPT ![w] = @ \o Appended(w)]
            /\ at' = NextDMA(w)
            /\ pc' = [pc EXCEPT ![w] = "dma"]
            /\ found' = [found EXCEPT ![w] = None]
            /\ UNCHANGED failed
       ELSE Throw(w) /\ UNCHANGED <<events, at, found>>
    /\ UNCHANGED <<filterVars, sourceVars, queue, block, decoded, unfolderVars, registryVars, logger>>

\* The consolidation loop of parse: PhysicsEvents with one event number give
\* their hits to the first of them, which the map keeps under that number.
\* (In the faulty variant the map is assigned to instead, losing hits.)
ConsolidatedLastWins(evs) ==
    [n \in {evs[k].num : k \in DOMAIN evs} |->
        << evs[Max({k \in DOMAIN evs : evs[k].num = n})].hit >>]

HitsNumbered(evs, n) ==
    LET gathered[k \in 0..Len(evs)] ==
            IF k = 0 THEN << >>
            ELSE IF evs[k].num = n THEN Append(gathered[k - 1], evs[k].hit)
            ELSE gathered[k - 1]
    IN  gathered[Len(evs)]

Consolidated(evs) == [n \in {evs[k].num : k \in DOMAIN evs} |-> HitsNumbered(evs, n)]

\* The end of parse and of ProcessParallel.
FinishBlock(w) ==
    /\ pc[w] = "roc" /\ ~InROCLoop(w)
    /\ IF events[w] = << >>
       THEN Throw(w) /\ UNCHANGED <<block, at, events, decoded>>
       ELSE /\ decoded' = decoded \cup {[block |-> block[w], hits |-> Consolidated(events[w])]}
            /\ pc' = [pc EXCEPT ![w] = "idle"]
            /\ block' = [block EXCEPT ![w] = None]
            /\ at' = [at EXCEPT ![w] = <<0, 0>>]
            /\ events' = [events EXCEPT ![w] = << >>]
            /\ UNCHANGED failed
    /\ UNCHANGED <<filterVars, sourceVars, queue, found, unfolderVars, registryVars, logger>>

-----------------------------------------------------------------------------
(* JEventUnfolder_EVIO *)

\* JANA2 hands the unfolder its next parent; iter starts from 0.
TakeParent ==
    /\ ~failed
    /\ parent = None
    /\ \E d \in decoded :
        /\ decoded' = decoded \ {d}
        /\ parent' = d
        /\ remaining' = DOMAIN d.hits
    /\ UNCHANGED <<filterVars, sourceVars, queue, workerVars, children, failed, registryVars, logger>>

\* The PhysicsEvents are in the order of the consolidation map, so that the
\* one at iter has the least number not yet unfolded.
Least(numbers) == CHOOSE n \in numbers : \A m \in numbers : n <= m

\* Emits the next child; the parent is released with its last child.
UnfoldReleasing(last) ==
    /\ ~failed
    /\ parent # None
    /\ LET n == Least(remaining)
       IN  /\ children' = Append(children,
                [src |-> parent.block.src, pos |-> parent.block.pos, num |-> n,
                 run |-> parent.block.run, hits |-> parent.hits[n]])
           /\ remaining' = remaining \ {n}
    /\ parent' = IF last THEN None ELSE parent
    /\ UNCHANGED <<filterVars, sourceVars, queue, workerVars, decoded, failed, registryVars, logger>>

\* Faulty variants: iter compared with size() or size() - 2.
UnfoldTooLong == UnfoldReleasing(remaining = {})
UnfoldTooShort == UnfoldReleasing(Cardinality(remaining) <= 2)

Unfold == UnfoldReleasing(Cardinality(remaining) = 1)

-----------------------------------------------------------------------------
(* Registration by plugins, which nothing but the freeze prevents from     *)
(* coming after the processing has started.                                *)

AddRoute(b, m) ==
    /\ ~routesFrozen
    /\ routes[b] = NoModule
    /\ routes' = [routes EXCEPT ![b] = m]
    /\ UNCHANGED <<filterVars, sourceVars, queue, workerVars, decoded, unfolderVars, failed,
                   routesFrozen, parsers, parsersFrozen, logger>>

\* Faulty variant: the frozen check is forgotten.
AddParserAnyTime(m, p) ==
    /\ parsers[m] = NullParser
    /\ parsers' = [parsers EXCEPT ![m] = p]
    /\ UNCHANGED <<filterVars, sourceVars, queue, workerVars, decoded, unfolderVars, failed,
                   routes, routesFrozen, parsersFrozen, logger>>

AddParser(m, p) ==
    /\ ~parsersFrozen
    /\ parsers[m] = NullParser
    /\ parsers' = [parsers EXCEPT ![m] = p]
    /\ UNCHANGED <<filterVars, sourceVars, queue, workerVars, decoded, unfolderVars, failed,
                   routes, routesFrozen, parsersFrozen, logger>>

Work(w) ==
    \/ TakeBlock(w)
    \/ CheckROC(w)
    \/ LeaveROC(w)
    \/ SkipBank(w)
    \/ ResolveBank(w)
    \/ FindParser(w)
    \/ BindLogger(w)
    \/ DecodeBank(w)
    \/ FinishBlock(w)

Next ==
    \/ \E s \in Sources : Emit(s)
    \/ \E w \in Workers : Work(w)
    \/ TakeParent
    \/ Unfold
    \/ \E b \in Banks, m \in Modules : AddRoute(b, m)
    \/ \E m \in Modules, p \in Parsers : AddParser(m, p)

Spec == Init /\ [][Next]_vars

\* JANA2 keeps calling a source that has events, gives every block to some
\* worker, lets every worker finish, and keeps feeding the unfolder.
Fairness ==
    /\ \A s \in Sources : WF_vars(Emit(s))
    /\ \A w \in Workers : WF_vars(Work(w))
    /\ WF_vars(TakeParent)
    /\ WF_vars(Unfold)

FairSpec == Spec /\ Fairness

-----------------------------------------------------------------------------

TypeOK ==
    /\ DOMAIN filter.data \subseteq ROCs
    /\ file \in [Sources -> Files]
    /\ \A s \in Sources : read[s] \in 0..Len(file[s]) /\ run[s] \in Nat
    /\ queue \subseteq BlockEvents
    /\ \A w \in Workers :
          /\ pc[w] \in {"idle", "roc", "dma", "parser", "bind", "decode", "thrown"}
          /\ block[w] \in BlockEvents \cup {None}
          /\ block[w] = None <=> pc[w] = "idle"
          /\ at[w] \in Nat \X Nat
          /\ pc[w] = "parser" => found[w] \in Modules
          /\ pc[w] \in {"bind", "decode"} => found[w] \in Parsers
          /\ events[w] \in Seq([num : EventNumbers, hit : Nat \X Nat \X Nat])
    /\ \A d \in decoded : d.block \in BlockEvents /\ DOMAIN d.hits # {}
    /\ parent # None => parent.block \in BlockEvents /\ remaining \subseteq DOMAIN parent.hits
    /\ (parent = None) <=> (remaining = {})
    /\ failed \in BOOLEAN
    /\ routes \in [Banks -> Modules \cup {NoModule}] /\ routesFrozen \in BOOLEAN
    /\ parsers \in [Modules -> Parsers \cup {NullParser}] /\ parsersFrozen \in BOOLEAN
    /\ logger \in [Parsers -> Sources \cup {None}]

\* What the rows of the filter files allow, whichever file they are in.
FilterRows == UNION {RowsOf(filterFiles[i]) : i \in DOMAIN filterFiles}

Allowed == {<<row.roc, row.bank>> : row \in FilterRows}

\* The children of a block.
ChildrenOf(s, i) == {c \in Range(children) : c.src = s /\ c.pos = i}

Holds(b, s, i) == b # None /\ b.src = s /\ b.pos = i

\* How many block-level events carry the i-th event of source s.
Carriers(s, i) ==
    Cardinality({b \in queue : Holds(b, s, i)})
      + Cardinality({w \in Workers : Holds(block[w], s, i)})
      + Cardinality({d \in decoded : Holds(d.block, s, i)})
      + (IF parent # None /\ Holds(parent.block, s, i) THEN 1 ELSE 0)

(* Every physics block read from a file is in exactly one hand - the       *)
(* queue's, a worker's, the unfolder's - until the last of its children    *)
(* has been emitted, and in nobody's afterwards; nothing else that was     *)
(* read is ever passed on.  No interleaving loses or repeats a block.      *)
NoBlockLostOrRepeated ==
    \A s \in Sources : \A i \in 1..Len(file[s]) :
        LET done == /\ {c.num : c \in ChildrenOf(s, i)} = Numbers(file[s][i], Allowed, routes)
                    /\ ChildrenOf(s, i) # {}
        IN  Carriers(s, i) = IF i <= read[s] /\ PassesFilters(file[s][i]) /\ ~done
                             THEN 1 ELSE 0

(* A worker throws only on a block that is unacceptable as the registries  *)
(* stand for good: no race with another worker, no late registration and   *)
(* no filtering makes an acceptable block end the processing.              *)
ThrowsForCause ==
    \A w \in Workers : pc[w] = "thrown" => ~IsAcceptable(EventOf(block[w]), Allowed, routes, parsers)

(* An unacceptable block yields no child at all, not even for the banks    *)
(* that were decoded before the one that threw.                            *)
NoPartialBlock ==
    \A c \in Range(children) : IsAcceptable(file[c.src][c.pos], Allowed, routes, parsers)

(* Every physics block ends up delivered, unless an exception stops it all.*)
EverythingIsDelivered ==
    <>(failed \/ \A s \in Sources : \A i \in DOMAIN file[s] :
          PassesFilters(file[s][i]) =>
              {c.num : c \in ChildrenOf(s, i)} = Numbers(file[s][i], Allowed, routes))

\* A child as the abstract specification sees it.
Seen == [k \in DOMAIN children |-> [src |-> children[k].src, pos |-> children[k].pos,
                                    num |-> children[k].num, hits |-> children[k].hits]]

Delivery == INSTANCE EventDelivery WITH children <- Seen, filter <- Allowed

(* The pipeline delivers what EventDelivery promises.                      *)
ImplementsDelivery == Delivery!Spec

(* The README of the plugin says that run numbers are extracted from       *)
(* prestart events, that is, that a physics event carries the run number   *)
(* of the last prestart event before its block.                            *)
RunNumberIsThePrestarts ==
    \A c \in Range(children) : \A i \in 1..(c.pos - 1) :
        /\ file[c.src][i].kind = "prestart"
        /\ \A j \in (i + 1)..(c.pos - 1) : file[c.src][j].kind # "prestart"
        => c.run = file[c.src][i].run

(* The README of the plugin says that parsers, being shared across         *)
(* threads, use no mutable member state.  If that were so, a worker would  *)
(* decode with the logger it handed to the parser.                         *)
ParserKeepsItsCallersLogger ==
    \A w \in Workers : pc[w] = "decode" => logger[found[w]] = block[w].src

=============================================================================

# TLA+ model of the JANA2 common extensions

This directory models the plugins under `src/src/plugins`: how EVIO files become
physics-level events, how the words of a data bank become hits, and how raw hits
become detector hits. TLC checks each model on small instances, and TLAPS proves
the most important results for every value of the constants.

Paths below are relative to the repository root as `PROJECT.json` names them
(`src/src/plugins/...` is shortened to `plugins/...`). `PROJECT.json` lists the
runs, the mutants that show each property can fail, the source lines of every
definition, the hazards and the theorems.

    tlc -workers 2 -config MCServiceMaps.cfg MCServiceMaps
    tlapm ServiceMaps_proofs.tla

## 1. The system

Data flows one way:

    file -> JEventSource_EVIO::Emit -> (block) -> worker: EvioEventParser::parse
         -> (decoded block) -> JEventUnfolder_EVIO -> physics-level events
         -> worker: getTable, translateEvent -> detector dump, event processor

JANA2, which is not part of the repository, owns the threads. It calls `Emit` for
one event at a time per source, runs `ProcessParallel` on several workers at once,
and calls the unfolder, and a processor's `ProcessSequential`, for one event at a
time. What the threads share is kept in services. Four of these are filled by
plugins and then frozen by their first use.

| Component | State it keeps | Operations | What is hard about it |
|---|---|---|---|
| Event source, `plugins/evio_parser/JEventSource_EVIO.cc` | the open file, `m_run_number` | `Emit`, `ProcessParallel` | the run number of a block comes from an earlier event; each filter returns early |
| Event parser, `plugins/evio_parser/core/EvioEventParser.cc` | none of its own; shares the parser objects with other workers | `parse` = trigger bank, ROC banks, consolidation | throws after part of a block is decoded; merges by a narrowed event number |
| Unfolder, `plugins/evio_parser/JEventUnfolder_EVIO.h` | the index of the next child | `Unfold` | must release its parent exactly with the last child |
| Bank-to-module map, `plugins/evio_parser/services/JEventService_BankToModuleMap.h` | routes, sources of routes, frozen flag | `loadMappingFile`, `addRoute`, `getModuleId` | validation outside the mutex, publication inside it; late registrations |
| Module-parsers map, `plugins/evio_parser/services/JEventService_ModuleParsersMap.h` | parsers by module ID, frozen flag | `addParser`, `getParser` | a registration of several rows that throws half-way |
| Filter database, `plugins/evio_parser/services/JEventService_FilterDB.cc` | rows seen, lists of banks, slots and modules by ROC | `fillDB`, `isROCAllowed`, `isBankAllowed`, ... | an empty table allows everything; rows of layered files are joined and repeated ones dropped |
| Translation-table service, `plugins/detector_translation/services/JEventService_TranslationTable.cc` | run tables, cached range, `m_loaded`, `m_load_once` | `getTable`, `loadTables` | lock-free reads, a failed load repeated by a waiting caller, run numbers at the limit |
| Mapping catalogs and manifests, `plugins/detector_translation/services` | registered catalogs, frozen flag | `addCatalog`, reading a catalog and its manifests | a catalog registered after the tables were made |
| Detector translators and dump, `.../JEventService_DetectorTranslatorsMap.h`, `.../DetectorTranslationDump.h` | routes, writers, open files | `addTranslator`, `freeze`, `translateEvent`, `ProcessSequential` | routes read without the mutex; two registries updated by one call; conversions and streams that fail |
| FADC250, VFTDC, MPD parsers, `plugins/evio_common_modules/module_parsers` | none between banks; a block, an event counter and a map of hits within one | `parse` | headers, trailers and data in an unexpected order; reads past the bank |
| Helicity decoder parser, same directory | none between banks; one event kept back within one | `parse` | the last event of a block is appended by whatever follows |
| CAEN1190, FADC-scaler and TI-scaler parsers, same directory | none between banks; what was read last of each kind of word within one | `parse` | fields of a hit come from words before it; event numbers from counting headers and trailers |
| `JEventProcessor_EVIO`, `plugins/evio_processor` | trees, histogram, text file; the vectors behind the branches | `Init`, `ProcessSequential`, `Finish` | vectors emptied by hand for each event; four outputs filled under different conditions; text file may be missing |
| Configuration layering, `jce.sh`, CMake | none at run time | | not modelled: shell and build scripts |

What makes each component correct:

- *Pipeline.* Every block read is delivered once, whole, child by child in the
  order of the event numbers, with the hits of exactly the banks that pass the
  filter and have a module. Or processing stops, and then there is something wrong
  with a block.
- *Registries.* A lookup is never contradicted, by a later lookup or by a late
  registration. The layers override each other in order; a file is taken whole or
  not at all.
- *Tables.* A run gets the mapping files its catalogs name, whichever worker asks
  first, whoever loads, however often a load fails.
- *Translators.* An event is translated by all routes, once, and its rows reach
  the right file.
- *Module parsers.* On a regular bank every hit goes to its event. On any other
  bank the parser throws rather than mislabel.
- *Filter database.* What a row of any file allows is let through, and nothing else.
- *Event processor.* A row holds the hits of one event, its columns in line; the trees,
  the histogram and the text tell the same of every event.

## 2. Modules

| Module | Models | Uses | Proofs in |
|---|---|---|---|
| `FrozenRegistry` | abstract: a registry that its first lookup freezes | | `ServiceMaps_proofs` |
| `BankToModuleMap` | the bank-to-module map, implements `FrozenRegistry` | `FrozenRegistry` | `ServiceMaps_proofs` |
| `ModuleParsersMap` | the module-parsers map, implements `FrozenRegistry` | `FrozenRegistry` | `ServiceMaps_proofs` |
| `ServiceMaps` | both maps side by side, as a worker looks things up in them: bank to module, module to parser | `BankToModuleMap`, `ModuleParsersMap` | `ServiceMaps_proofs` |
| `EvioData` | blocks, banks, event numbers; no variables | | |
| `FilterDatabase` | the filter database as a function of its files; no variables | | |
| `EventDelivery` | abstract: what processors downstream are promised | `EvioData` | |
| `EvioPipeline` | filter database, source, workers, unfolder and both registries together, implements `EventDelivery` | `EvioData`, `FilterDatabase`, `EventDelivery` | `EvioPipeline_proofs` |
| `RunTables` | run ranges, manifests, catalogs, run tables; no variables | | |
| `TranslationTableService` | `getTable`, `loadTables`, the catalog registry | `RunTables` | `TranslationTableService_proofs` |
| `DetectorTranslators` | translators, writers, `translateEvent`, dump | | `DetectorTranslators_proofs` |
| `DataWords` | the words of a bank, and what a regular bank is; no variables | | |
| `BlockParsers` | FADC, VFTDC and MPD | `DataWords` | `BlockParsers_proofs` |
| `HelicityParser` | the helicity decoder | `DataWords` | `HelicityParser_proofs` |
| `CAENParser` | the CAEN1190's `parse` as a recursive function of the words of a bank; no variables | | `EventProcessor_proofs` |
| `ScalerParsers` | the FADC and TI scalers' `parse` as functions of the size of a bank; no variables | | `EventProcessor_proofs` |
| `EventProcessor` | from those banks to the output files | `CAENParser`, `ScalerParsers` | `EventProcessor_proofs` |

`SharedLemmas` holds the lemmas that several proof modules use: what a counted loop, a
`FlattenSeq` or a listing in ascending order gives, what mapping, joining and flattening
sequences preserve, and how a position in a data bank relates to its block and its event.

Every `MC...` module extends the module it is named after and defines the small
sets that its `.cfg` uses. Definitions named as *faulty variants* in comments are
not part of any specification; each is a plausible mistake in the code, and
replacing the definition next to it must break the property given under `mutants`
in `PROJECT.json`.

### How state and actions correspond to the code

**`EvioPipeline`.** `read[s]` counts the events that `parseNextEvent` has returned
from source `s`; `run[s]` is `m_run_number`. `queue`, `decoded` and `InFlight` are
JANA2's: blocks between the source and a worker, blocks between a worker and the
unfolder, and the pool of block events. A worker's `ProcessParallel` is cut exactly
where another thread can tell the difference:

- `TakeBlock`: `parseTriggerBank` and the ROC-count check;
- `CheckROC`, `LeaveROC`: the outer loop of `parseROCBanks`, with the ROC filter;
- `SkipBank`, `ResolveBank`: the bank filter, then `getModuleId`, which freezes the
  route map;
- `FindParser`: `getParser`, which freezes the parser map; a null parser throws;
- `BindLogger`, then `DecodeBank`: `SetLogger` on the shared parser object, then its
  `parse`;
- `FinishBlock`: the consolidation, the check that there is anything at all, and the
  insertion into the block.

What `parse` makes of a DMA bank is a sequence of offsets from the first event
number, or an exception; the modules below say which. A hit is named by its place
in the readout, so that a lost, repeated or misplaced hit shows. Event numbers are
cut to `int` by `AsInt` with `HalfRange` in place of 2^31, since `PhysicsEvent`
stores a 64-bit number in an `int`. `AddRoute` and `AddParser` are plugins that
register late.

The pipeline begins with `JEventService_FilterDB::Init`: `filterFiles` are the files in
the order of the layers (none when filtering is off), `filter` is what `FillDB` makes of
them row by row, and a malformed row (`IsRefused`) means that processing never starts.
`EventDelivery` does not know rows or lists. It is given `Allowed`, the set of the pairs
of ROC and bank that stand in some row, so that the refinement also checks the loading.

**`BankToModuleMap`.** `ReadLayer` is the part of `loadMappingFile` before the mutex
(read and validate a whole file into the local map `staged`); `PublishLayer` and
`RefuseLayer` are the part under it. `AddRoute` and `GetModuleId` of other threads
may come between the two. `added` and `answers` are history.

**`ModuleParsersMap`.** A service's `Init` is a program of rows; `addParser` takes one
row at a time, and a row that throws ends the program while the earlier rows stay.

**`TranslationTableService`.** `pc[w]` follows a worker through `getTable`: the load
of `m_loaded`, `call_once` (`Pass`, `BeginLoad`), `loadTables` iteration by
iteration (`ChooseCatalogs`, `ReadCatalog`, `BuildTable`, `FinishTables`), the store
to `m_loaded` (`Publish`), the return of `call_once` (`EndLoad`), then the cached
range, the search and the store of the cached range. `FailToRead` is an exception
from a file; `once` becomes free again, as `std::call_once` specifies, so that a
waiting caller starts over. A table is named by the detectors' files it combines,
which is the key under which `loadTables` shares tables.

**`DetectorTranslators`.** `AddTranslator` is a call of `addTranslator` that
succeeds, with its `addWriter`; a refused call changes nothing. `BeginEvent` is the
freeze under the mutex, `TranslateType` one turn of the loop over types without it,
`EndEvent` the return. `getTable` may throw before that (`FailToGetTable`), and any
registered conversion in its midst (`FailToConvert`): the outputs of the routes that came
before, in whatever order, are in the event by then, and the worker does no more
(`thrown`). `DumpEvent`, `FailToOpen` and `FailToWrite` are the outcomes of the dump's
`ProcessSequential`, `FailToClose` is a failing `Finish`. A stream keeps rows in its
buffer, so `files` are the rows buffered or on disk, and a failure at a row or at the
close may cost the same file any number of its latest rows. A digi hit is the position
of the raw hit it is made from.

**`BlockParsers`, `HelicityParser`.** One action per kind of word; an action is one
turn of `parse`'s loop. `Stop("thrown")` is a `JException`, `Stop("undefined")` a read
past the bank or through a null pointer: the model ends there, because nothing
is known of what follows. `heads` is history: the words that began a turn. The
parsers' differences are guards: only the MPD compares the trailer's slot, and only
the MPD does not compare the event header's.

**`CAENParser`, `ScalerParsers`.** No other thread sees the variables of a `parse`, so it
is a function. `Read` is one turn of the CAEN1190's loop. A word is its kind and its place;
a hit is the place of its measurement and, in `from`, the places of the words its other
fields were copied from. This shows a field of another chip or event without
modelling any field. `broken` is the null pointer that a measurement before the first
header goes through.

**`EventProcessor`.** The events of a block are those that `ParseCAEN` and the scalers
make of its banks, joined by number as the consolidation does, with given hits of the
other modules. `OpenOutputs` is `Init`, `Process` one `ProcessSequential`, `Finish` is
`Finish`. JANA2 calls `ProcessSequential` for one event at a time, in no given order, so
each is one action and any event of `arriving` may be the next. `columns` and `last` are
the members behind the branches of the trees. A branch that is filled from the same word
as another is left out (`chip` stands for the three fields of a TDC header).

## 3. Runs

All bounds are sets in the MC modules or numbers in the `.cfg` files.

| Run | Instance | What it shows |
|---|---|---|
| `service_maps` | 2 banks, 2 modules, every sequence of at most 2 of 5 files and one of 3; 2 services, 3 parsers, 5 experiment programs | layering, true sources, exact registrations, refinement of `FrozenRegistry` by both maps, one parser per bank |
| `pipeline` | 2 sources, any of 6 files of 1 to 3 events each, 2 workers, pool of 2, 3 configurations | no block lost, repeated or partial; throws only for cause; refinement of `EventDelivery`; everything is delivered |
| `tables` | runs 0..3, 2 workers, 2 providers, 3 detectors, 6 disks | right answers, ordered tables, stable tables, every call ends |
| `translators` | 3 types (two with one displayed name), 2 detectors, 2 events with different tables, 2 workers | writers match routes, events that reach the dump translated by all routes, exact files, stable routes, everything dumped unless something throws |
| `block_parsers` | 3 parsers, every bank of at most 4 of 11 words, every regular bank of at most 2 blocks of at most 2 events, one-word damage of the single blocks | contiguous numbers, acceptance, crediting of hits, whole blocks |
| `helicity` | every bank of at most 5 of 7 words, regular banks of at most 2 blocks of at most 3 events, with and without filler | events appended in order, acceptance, exactness of one block |
| `processor` | every CAEN1190 bank of at most 3 of 8 words, 144 pairs of regular banks of at most 2 events of at most 2 chips, 2 readouts of two blocks with hits of all kinds | rows of one event, agreement of the outputs, each measurement in one place, in one row with those of its header and beside its chip |
| `pipeline_run_number`, `pipeline_logger`, `block_parsers_header`, `helicity_numbers`, `processor_numbers` | as above | the findings of section 6: TLC finds the property violated |

Why the bounds are enough:

- `service_maps`: three files are the fewest in which a route is set, overridden and set
  back, two the fewest in which a file is refused after another was published; the
  five files hold a duplicate, a contradiction and a malformed row. The programs collide
  in their first and in a later row, repeat their own row, add a null parser, and add
  nothing. The two maps freeze independently, in either order.
- `pipeline`: two workers and a pool of two give every overlap of two blocks,
  of one source or of two. The files hold a bank that is filtered out, one without a
  module, one whose parser throws after another bank was decoded, a wrong ROC, a
  wrong ROC count, a trigger bank without children, a block with no admitted bank, two
  PhysicsEvents with one number
  from one parser and from two ROCs, and a number that does not fit an `int`
  (`HalfRange = 4`). In the first configuration the filter has two files: the second
  repeats a row of the first, names a ROC a second time with another slot, and adds
  banks. In the second there is no filter and a parser is missing, which may be
  registered late; in the third a filter file is malformed.
- `tables`: with `MaxRun = 3` a range can be followed by an adjacent one, by a gap
  and by the end of the number range. Two catalogs may share a detector, overlap
  within a manifest, or list nothing in common; two workers are one loader and one
  that waits.
- `translators`: two events of different tables on two workers, where one type has
  hits for several routes and one route gets none. Conversions, `getTable` and each
  stream may throw at any point of this.
- `block_parsers`, `helicity`: all short banks cover each order of two, three and
  four words; the regular banks are the shortest with a second event and a second
  module; damage removes each word in turn.
- `processor`: three words of a CAEN1190 bank are a header, something between, and a
  measurement; the regular banks have a second chip and a second event. The readouts
  with other hits hold an event of helicity data only, one whose pulses all have
  integral 0, one that ends in such a pulse, an empty scaler bank, and two blocks whose
  events have one number.

`CHECK_DEADLOCK FALSE` stands where the system really ends: the pipeline when its files
are read or a worker has thrown, a parser when `parse` returns or throws, and the
event processor after `Finish`. The
other models have an action that stays possible.

`Malformed` is empty in the `tables` run: an unreadable mapping file has the same
effect as `FailToRead`, which may happen at any read, and the proofs hold for any
`Malformed`.

## 4. Fairness

Liveness is checked under weak fairness of single steps and of nothing that the
environment may refuse.

- `EvioPipeline`: of `Emit` for each source, of each worker's step, of `TakeParent`
  and `Unfold`. JANA2 keeps calling a source that has events, runs every
  queued task, and passes decoded blocks to the unfolder. There is no fairness for
  registrations. A processing that stopped on an exception satisfies
  `EverythingIsDelivered` by its first disjunct.
- `TranslationTableService`: of each worker's next step *within* `getTable`. A
  thread that is not blocked runs on; a thread blocked in `call_once` has no enabled
  step. There is no fairness for requests or registrations.
- `DetectorTranslators`: of each worker's next step and of `DumpEvent`. The failures
  (`FailToGetTable`, `FailToConvert`, `FailToOpen`, `FailToWrite`, `FailToClose`) may
  happen but never must.

## 5. Proofs

Each theorem is about `Spec` with arbitrary constants that satisfy the named
assumptions of its module (`ASSUME` in the component's module; TLC evaluates them
in every run). The assumptions say what kind of thing a constant is, such as that a
file is a sequence of events (`FilesHoldEvents`) or a bank a sequence of words
(`BanksAreWords`), and that the model value that stands for "nothing" is not one of the
things (`AbsentIsAbsent`, `NoneIsNoEvent`, `NullIsNoParser`, ...). None bounds a length or
a number of threads, files, blocks, banks or words.

- **`EvioPipeline_proofs`**: `TypeCorrect`, `BlockConservation`, `ThrowingIsJustified`,
  `AllOrNothing`, and `Refinement` of `EventDelivery`, all from `Invariant`.
  None of the properties is inductive. The invariant `IInv` says
  - of each block, which one stage it is at: not passed on, in the queue, with a worker,
    awaiting the unfolder, being unfolded, or delivered (`Stages`). This gives
    `BlockConservation`;
  - of each worker, how far it is (`Working`): the PhysicsEvents gathered so far are
    exactly the hits of the admitted banks before its loop variables, each bank passed
    was one it could parse, and a worker that threw has met a reason;
  - of the registries, that whatever a worker has concluded from one, it was frozen by
    then (`IsSettled`, `FrozenOnceDecoded`). Without this a plugin that registers late
    could make a bank acceptable after it was refused, or the other way round;
  - of decoded blocks, parent and children, that they are what `Consolidated` makes of
    those hits.

  `Refinement` maps a step of the unfolder to a delivery, a throwing worker to a failure,
  and a plugin's registrations to `Configure`. On the way it is
  proved that the loop of `fillDB` over rows and files allows exactly the pairs that
  stand in some row (`FilterMeans`), and that merging PhysicsEvents by number, in readout
  order, loses and doubles nothing.
- **`ServiceMaps_proofs`**. For the bank-to-module map: `TypeCorrect`, `Layering`,
  `SourceTruth`, `Refinement`, `Agreement`. `RoutesAreLayered` and `SourcesAreTrue` are
  not inductive: the invariant adds that `staged` is the next file while the loader is
  between its halves (`StagedIsNextLayer`), that a bank without a route is in no
  published file (`UnroutedIsUnmentioned`), and that there are no answers before the
  freeze (`NoAnswerBeforeFreeze`). `Refinement` maps the two halves of a load to a stutter
  and one registration. For the module-parsers map: `ParsersTypeCorrect`, `Exactness`,
  `ParsersRefinement`, `ParsersAgreement`; the invariant adds that the accepted part of
  each program holds no null parser. `RegistryAgreement` says that any registry that
  keeps the promise of `FrozenRegistry` gives all readers the same answers; the two
  `Agreement` theorems combine it with the refinements, and `OneParserPerBank` combines
  them, for the two maps side by side (`ServicesSpec`): whatever loaders, plugins and workers do, all workers are led from a bank to one
  parser.
- **`TranslationTableService_proofs`**: `TypeCorrect`, `Correctness`, `Order`,
  `Stability`. The invariant `IInv` (at the end of
  `TranslationTableService`) says who is behind the gate (`GateInv`), what each
  loop of `loadTables` has done so far (`ReadInv`, `BuildInv`), what the finished
  tables serve (`TablesInv`) and what a search has found (`SlotInv`). Its core is
  `BuildInv`: all runs before the next boundary are served as the catalogs want.
  It rests on the lemma that no detector's file changes between two neighbouring
  boundaries, and on one about merging (`Extended`). `Stability` follows because
  tables change only in `choose` and `build`, while nobody can read before `loaded`.
- **`DetectorTranslators_proofs`**: `Writers`, `Translation`, `Stability`, `Files`,
  `TypeCorrect`. The invariant adds that the routes are frozen while any event is under
  way, once one was translated and once a file was opened (`FrozenInTime`), and that a
  worker in an event that has not thrown has output exactly what the types it has
  visited are due (`BegunEvents`, `OutputsAreDue`); where a conversion has thrown, no step
  leads to the dump. `Files` rests on that: since the routes are
  frozen before the files are opened, each route keeps its one file; and what the loop
  over an event's hits writes to it is the rows due, hit by hit, or, if a stream fails,
  the first rows of that file, with the event's rows in the files before it and none in
  those after it.
- **`BlockParsers_proofs`**, for any bank of any length. For any words at all:
  `TypeCorrect`, `Contiguity`, `Wholeness`. `Contiguity` needs that the next number is at
  most one past the last (`Numbering`). `Wholeness` needs that the counter is
  what the last block header announced less the event headers read since
  (`Announced`), and that this was so at every trailer read (`Fulfilled`). For regular
  banks: `Acceptance` and `Crediting`. They need that the variables are in step with the
  bank (`InStep`): inside a block the counter, the index and the number are those of the
  position's ordinal, and the current event has a list of hits. `Crediting` then adds up
  the entries of each word (`InPlace`, `InOrder`, `Counted`).
- **`HelicityParser_proofs`**. For any words at all: `TypeCorrect` and `Order`, which
  needs that all event headers but the one held back have been appended (`Appending`).
  For regular banks: `Acceptance`, from the same `InStep`. For a regular bank of one
  block: `Exactness`. Its invariant (`Exact`) says that the event held back is the last
  one begun and has its hits so far, that all others have been appended with their
  numbers and hits, and that the count is final if the block ended with the last word. Of a
  trailer that is followed by a filler word it says nothing about the event held back,
  which is lost then (section 6).
- **`EventProcessor_proofs`**, for any readout (`ReadoutsAreBlocks` says only of what
  kind its blocks, banks and given hits are) and any order of its events. Each of the six
  properties of the run is a theorem: `TypeCorrect`, `RowsAreTheEvents`,
  `PulsesAreInRowsAndHistogram`, `TextAgreesWithTrees`,
  `MeasurementsAreNeitherLostNorDoubled`, `HitsHaveTheirChip`. None is inductive, since
  they speak of hits and rows one by one while a step appends a whole event. The
  invariant `IInv` says
  - that each row is the one `ProcessSequential` fills for its event, whatever the
    vectors held before (`RowsOfEvents`); that the vectors have one length per tree
    (`ColumnsAgree`) is kept because all of them are emptied;
  - that every event has come at most once and, when none is arriving, once
    (`EventsComeOnce`). This is what turns a statement about hits into one about the
    places of a file;
  - of `pulse_tree` and the histogram (`PulsesAreKept`), and of the text (`TextLists`),
    that they agree so far; the step is that flattening, `Nonzero` and `Total` of a
    sequence with one more element are those of the sequence, and a piece.

  The other half is about `ParseCAEN`. `Tells` is the invariant of its loop, of a bank of
  any words: the words of each kind read last, the number of headers without a trailer,
  that each measurement so far is one hit, of the event so counted, that nothing else is
  a hit, and when the null pointer was used (`BreaksIfHeadless`). For regular banks, lemmas on
  their grammar then place the last headers in the hit's own event and chip. The same
  invariant gives `OnlyHeadlessBanksBreak` (the null pointer is used exactly on banks with
  a measurement before any global header). `RegularBanksAreRead` is the general form of
  finding 5: however many events a regular bank has, all its measurements become hits of
  the block's first event. `FADCScalerReadsEachWordOnce`
  says that the groups of an FADC-scaler bank, the last of which may be short, share out
  its words without gap, overlap or a read beyond the bank.

What a recursive function or a fold computes is proved by induction over sets of
naturals (`NatSetInduction`), which stands in for the induction theorems of the
library: those take a predicate as parameter, which the provers cannot instantiate.

Every invariant and every action property of the runs is a theorem, and so are the
refinements. Only model-checked is liveness (`EverythingIsDelivered`, `EveryCallEnds`,
`EverythingIsDumped`), since the prover has no rules for fairness and `ENABLED`.

## 6. Findings

Each is shown by a run in which TLC finds the quoted statement violated.

1. `pipeline_run_number`, code. `Emit` asks `isRunControlEvent`, which alone reads the
   run number, only after it has skipped events without child structures and events
   that are not physics events. A prestart event is both, so all blocks carry the
   initial run number, although `plugins/evio_parser/README.md:516` says it is taken
   from prestart events.
2. `pipeline_logger`, documentation. `plugins/evio_parser/README.md:518` says shared
   parsers must have no mutable state; `parseROCBanks` sets a logger on the shared
   object, and a worker may log with another worker's.
3. `block_parsers_header`, code. A data word between a block header and its first
   event header is credited to the last event of the block before it. The guard that
   should refuse it (`ModuleParser_FADC.cc:119`) only asks for a block.
4. `helicity_numbers`, code. The index is reset at a block trailer, but the block's
   last event is appended only at the next event header, which numbers it from the reset
   index and then advances the index. In the run's trace, of two blocks of one event
   each, the first block's event has its right number, 5, and the second block's event,
   which is the first of its block, gets 6 instead of 5. With several events in the
   first block, its last event also gets a wrong number, that of its first.
5. `processor_numbers`, code. The CAEN1190 parser resets its event index at each global
   trailer (`ModuleParser_CAEN1190.cc:79`). A global trailer ends an event, so all events
   of a regular bank get the block's first event number and are merged into one, where
   `plugins/evio_parser/README.md:172` says that the number is the first one plus the
   event's index. `RegularBanksAreRead` proves it of every regular bank.

Two statements more are violated by what the code does. Their configurations are not
among the runs of `PROJECT.json`:

    tlc -config MCHelicityParserYield.cfg MCHelicityParser
    tlc -config MCEventProcessorText.cfg MCEventProcessor

- `RegularBanksYieldEvents`, code. An event held back is appended by a trailer only if
  that is the very last word of the bank (`ModuleParser_HelicityDecoder.cc:60`), and
  nothing is appended after the loop. A filler word after the trailer costs the bank its
  last event, and a bank of one event yields no object, where
  `plugins/evio_parser/README.md:517` asks for at least one per block. `OneBlockIsExact`
  does not say that the last event is lost, nor that it is not.
- `TextListsEveryEventWithHits`, documentation. The text file leaves out events whose only
  hits are of kinds that the condition at `JEventProcessor_EVIO.cc:277` does not name,
  such as helicity data, where `plugins/evio_processor/README.md:94` says that every hit
  type present is listed and that only events with no hits at all are omitted.
  `TextListsWhatTreesHold` does not say which events are omitted.

Further differences, of which no property speaks; the models do what the code does:

- A CAEN1190 hit has the trailer status of the event before, or 0 in the first, since the
  trailer comes after the measurements; the same holds for a trigger time that follows
  them (`CAENHitsKnowTheirChip`).
- In `pulse_tree` the pedestal branches are those of the event's last pulse, even when
  that has integral 0 and is not in the row (`JEventProcessor_EVIO.cc:193`).
- A later mapping file replaces a route (`JEventService_BankToModuleMap.h:74`),
  where `plugins/evio_parser/README.md:462` says that a duplicate bank ID from any
  source is rejected. The model does what the code does (`RoutesAreLayered`).
- The tables are loaded by the first `getTable`, during event processing
  (`JEventService_TranslationTable.cc:202`), where
  `plugins/evio_parser/README.md:144` says that configuration is read during
  initialization. This is why loads race in the model.

## 7. Abstractions

- Payloads: waveform samples, times, channels and decoder fields are left out; a hit
  is the position of the word that makes it. So no property looks at the joining
  of a 48-bit trigger time in 32-bit arithmetic (`ModuleParser_VFTDC.cc:93`), which
  `PROJECT.json` lists as a hazard.
- Text: manifests, catalogs and mapping files are sets of rows. What their readers
  reject is modelled (`WellFormed`, `IsManifest`, `IsCatalog`, `IsLoadable`), not how
  a line is split.
- Integers: run numbers end at `MaxRun` (the largest 64-bit number in the code), and
  event numbers wrap at `HalfRange`. Counters in a bank are not wrapped, as a bank
  cannot hold 2^31 headers. The MPD (`ModuleParser_MPD.cc:28`) and the CAEN1190
  (`ModuleParser_CAEN1190.cc:46`) keep the event number itself in 32 bits; the models of
  the parsers do not cut it, since the `int` of `PhysicsEvent` keeps the same low bits.
- A trigger bank without children, of which `.at(0)` throws, is a block whose event
  builder bank is missing (`built`). One whose event builder bank has no data is left
  out: `eb1_data[0]` (`EvioEventParser.cc:80`) reads an empty vector, which is undefined
  behaviour and no exception.
- Undefined behaviour ends a parser's model with the outcome `undefined`. That regular
  banks do not reach it is a property.

## 8. Not modelled

- Opening, closing and recognizing EVIO files (`Open`, `Close`, `CheckOpenable`): they
  touch the file system only, and an error there ends the processing before it starts.
- ROOT, of which a tree is a sequence of rows, and the layout of the text file. Tables
  printed to the log, such as `printSummaryTable`.
- `jce.sh`, CMake, the template for configuration paths. The order in which they put
  the configuration directories enters `BankToModuleMap` as `LayerChoices`.

## 9. Plan

The order was: the registries and their abstraction; the pipeline with
`EventDelivery`; the tables; the module parsers; the translators; the filter database;
the CAEN1190, the scalers and the event processor. Then the proofs, component by
component. What is left is a composition of the tables with the translators: an event's
table stays valid for as long as a worker holds it.

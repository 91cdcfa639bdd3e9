------------------------- MODULE DetectorTranslators -------------------------
(***************************************************************************)
(* JEventService_DetectorTranslatorsMap, with the processor that calls it  *)
(* for every event (JEventProcessor_DetectorDigiHits) and the one that     *)
(* dumps the results (JEventProcessor_DetectorTranslationDump).  Plugins   *)
(* register routes, one per type of raw hit and detector, each with a      *)
(* writer for its file.  Workers translate events concurrently: they       *)
(* freeze the routes under the mutex, and then read them without it, type  *)
(* by type.  The dump handles one translated event at a time.              *)
(*                                                                         *)
(* JANA2 is external: it hands every event to one worker, and to the dump  *)
(* when the worker is done with it.                                        *)
(***************************************************************************)
EXTENDS Integers, Sequences, SequencesExt, FiniteSets

CONSTANTS Types,       \* C++ types of raw hits
          Detectors,
          NoDetector,  \* Lookup's nullptr
          Addresses,   \* DAQ addresses
          FileName,    \* the generated name of a type's files
          Tables,      \* translation tables, from Addresses to detectors
          Events,      \* [name, hits, table] records
          Workers,
          None         \* no event

Routes == Types \X Detectors

Hits == [type : Types, address : Addresses]

ASSUME TablesAreMaps == Tables \subseteq [Addresses -> Detectors \cup {NoDetector}]
ASSUME EventsHaveHits == \A e \in Events : e.hits \in Seq(Hits) /\ e.table \in Tables
ASSUME NoneIsNoEvent == None \notin Events

VARIABLES
    routes,     \* m_translators: the registered routes
    writers,    \* m_dump: the routes that have a writer, in order
    frozen,     \* m_frozen
    waiting,    \* events that JANA2 has not handed out
    event,      \* the event each worker translates
    visited,    \* translateEvent's loop: the types done
    outputs,    \* what it has inserted into the event: route -> its hits
    thrown,     \* the workers whose ProcessParallel has thrown
    translated, \* events that await the dump, with their outputs
    opened,     \* m_outputs_opened
    files,      \* m_writers and m_outputs: route -> the rows of its file, buffered or on disk
    failed,     \* has the dump thrown?
    dumped      \* history: the events dumped, in order

workerVars == <<event, visited, outputs, thrown>>
dumpVars == <<opened, files, failed, dumped>>

vars == <<routes, writers, frozen, waiting, workerVars, translated, dumpVars>>

Init ==
    /\ routes = {}
    /\ writers = << >>
    /\ frozen = FALSE
    /\ waiting = Events
    /\ event = [w \in Workers |-> None]
    /\ visited = [w \in Workers |-> {}]
    /\ outputs = [w \in Workers |-> << >>]
    /\ thrown = {}
    /\ translated = {}
    /\ opened = FALSE
    /\ files = << >>
    /\ failed = FALSE
    /\ dumped = << >>

-----------------------------------------------------------------------------
(* Registration: addTranslator, which has addWriter check the path of the  *)
(* file.  A call that throws leaves no route.                              *)

\* (In the faulty variant names are unique only where the types are.)
PathIsFreeOfType(t, d) == <<t, d>> \notin Range(writers)

PathIsFree(t, d) ==
    \A r \in Range(writers) : <<r[2], FileName[r[1]]>> # <<d, FileName[t]>>

\* (In the faulty variant, at any time.)
AddTranslatorAnyTime(t, d) ==
    /\ <<t, d>> \notin routes
    /\ PathIsFree(t, d)
    /\ writers' = Append(writers, <<t, d>>)
    /\ routes' = routes \cup {<<t, d>>}
    /\ UNCHANGED <<frozen, waiting, workerVars, translated, dumpVars>>

AddTranslator(t, d) ==
    /\ ~frozen
    /\ <<t, d>> \notin routes
    /\ PathIsFree(t, d)
    /\ writers' = Append(writers, <<t, d>>)
    /\ routes' = routes \cup {<<t, d>>}
    /\ UNCHANGED <<frozen, waiting, workerVars, translated, dumpVars>>

\* freeze, which a plugin may call too.
Freeze ==
    /\ frozen' = TRUE
    /\ UNCHANGED <<routes, writers, waiting, workerVars, translated, dumpVars>>

-----------------------------------------------------------------------------
(* JEventProcessor_DetectorDigiHits::ProcessParallel on worker w: getTable, *)
(* then translateEvent.  An exception ends the processing; what JANA2 has   *)
(* handed out before it stops may still be finished.                        *)

BeginEvent(w) ==
    /\ event[w] = None /\ w \notin thrown
    /\ \E e \in waiting :
        /\ event' = [event EXCEPT ![w] = e]
        /\ waiting' = waiting \ {e}
    /\ frozen' = TRUE
    /\ UNCHANGED <<routes, writers, visited, outputs, thrown, translated, dumpVars>>

\* getTable throws, before anything is frozen.
FailToGetTable(w) ==
    /\ event[w] = None /\ w \notin thrown
    /\ \E e \in waiting : waiting' = waiting \ {e}
    /\ thrown' = thrown \cup {w}
    /\ UNCHANGED <<routes, writers, frozen, event, visited, outputs, translated, dumpVars>>

\* The positions as the loop over the hits comes to them.
InOrder(positions) ==
    CHOOSE s \in [1..Cardinality(positions) -> positions] :
        \A k, l \in DOMAIN s : k < l => s[k] < s[l]

\* The hits of a type that the table gives to a detector, by position.
Matched(e, t, d) ==
    InOrder({k \in DOMAIN e.hits : e.hits[k].type = t /\ e.table[e.hits[k].address] = d})

IsTranslating(w) == event[w] # None /\ w \notin thrown

\* The routes of a type that the event has hits for.
MatchedRoutes(w, t) == {r \in routes : r[1] = t /\ Matched(event[w], t, r[2]) # << >>}

\* What the event holds when these routes have inserted their outputs.
Inserted(w, t, done) ==
    [outputs EXCEPT ![w] = [r \in DOMAIN @ \cup done |->
                              IF r \in done THEN Matched(event[w], t, r[2]) ELSE @[r]]]

\* An iteration of the loop, in whatever order of the types: each route of the
\* type that has a hit inserts its output.
TranslateType(w, t) ==
    /\ IsTranslating(w)
    /\ t \notin visited[w]
    /\ \E r \in routes : r[1] = t
    /\ outputs' = Inserted(w, t, MatchedRoutes(w, t))
    /\ visited' = [visited EXCEPT ![w] = @ \cup {t}]
    /\ UNCHANGED <<routes, writers, frozen, waiting, event, thrown, translated, dumpVars>>

\* (In the faulty variant the exception is caught, and the loop goes on.)
FailToConvertQuietly(w, t) ==
    /\ IsTranslating(w)
    /\ t \notin visited[w]
    /\ \E done \in (SUBSET MatchedRoutes(w, t)) \ {MatchedRoutes(w, t)} :
          outputs' = Inserted(w, t, done)
    /\ visited' = [visited EXCEPT ![w] = @ \cup {t}]
    /\ UNCHANGED <<routes, writers, frozen, waiting, event, thrown, translated, dumpVars>>

\* The registered conversion of some route throws; the outputs of the routes that
\* came before it, in whatever order, stay in the event.
FailToConvert(w, t) ==
    /\ IsTranslating(w)
    /\ t \notin visited[w]
    /\ \E done \in (SUBSET MatchedRoutes(w, t)) \ {MatchedRoutes(w, t)} :
          outputs' = Inserted(w, t, done)
    /\ thrown' = thrown \cup {w}
    /\ UNCHANGED <<routes, writers, frozen, waiting, event, visited, translated, dumpVars>>

\* (In the faulty variant the outputs are not local to the event.)
EndEventKeeping(w) ==
    /\ IsTranslating(w)
    /\ \A r \in routes : r[1] \in visited[w]
    /\ translated' = translated \cup {[event |-> event[w], outputs |-> outputs[w]]}
    /\ event' = [event EXCEPT ![w] = None]
    /\ visited' = [visited EXCEPT ![w] = {}]
    /\ UNCHANGED <<routes, writers, frozen, waiting, outputs, thrown, dumpVars>>

EndEvent(w) ==
    /\ IsTranslating(w)
    /\ \A r \in routes : r[1] \in visited[w]
    /\ translated' = translated \cup {[event |-> event[w], outputs |-> outputs[w]]}
    /\ event' = [event EXCEPT ![w] = None]
    /\ visited' = [visited EXCEPT ![w] = {}]
    /\ outputs' = [outputs EXCEPT ![w] = << >>]
    /\ UNCHANGED <<routes, writers, frozen, waiting, thrown, dumpVars>>

-----------------------------------------------------------------------------
(* JEventProcessor_DetectorTranslationDump::ProcessSequential *)

\* The rows that the writer of route r writes for a translated event.
Rows(done, r) ==
    IF r \in DOMAIN done.outputs
    THEN [k \in DOMAIN done.outputs[r] |-> [event |-> done.event.name, hit |-> done.outputs[r][k]]]
    ELSE << >>

\* openOutputs: the first event opens a file for each writer registered so far.
\* (In the faulty variant every event does.)
OpenFilesAgain == [r \in Range(writers) |-> << >>]

OpenFiles == IF opened THEN files ELSE [r \in Range(writers) |-> << >>]

\* openOutputs, when it throws.
FailToOpen ==
    /\ translated # {} /\ ~opened /\ ~failed
    /\ frozen' = TRUE
    /\ failed' = TRUE
    /\ UNCHANGED <<routes, writers, waiting, workerVars, translated, opened, files, dumped>>

\* (In the faulty variant an event without hits is left to a later call.)
DumpEventWithHits ==
    /\ ~failed
    /\ \E done \in translated :
        /\ DOMAIN done.outputs # {}
        /\ files' = [r \in DOMAIN OpenFiles |-> OpenFiles[r] \o Rows(done, r)]
        /\ translated' = translated \ {done}
        /\ dumped' = Append(dumped, done.event)
    /\ frozen' = TRUE
    /\ opened' = TRUE
    /\ UNCHANGED <<routes, writers, waiting, workerVars, failed>>

DumpEvent ==
    /\ ~failed
    /\ \E done \in translated :
        /\ files' = [r \in DOMAIN OpenFiles |-> OpenFiles[r] \o Rows(done, r)]
        /\ translated' = translated \ {done}
        /\ dumped' = Append(dumped, done.event)
    /\ frozen' = TRUE
    /\ opened' = TRUE
    /\ UNCHANGED <<routes, writers, waiting, workerVars, failed>>

\* The stream of one writer throws: the files before it have the event's rows, those
\* after it have none.  A stream writes when its buffer is full, so that its own
\* file may lack rows of earlier events too.
FailToWrite ==
    /\ ~failed
    /\ \E done \in translated, k \in DOMAIN writers :
        /\ Rows(done, writers[k]) # << >>
        /\ \E n \in 0 .. Len(OpenFiles[writers[k]] \o Rows(done, writers[k])) - 1 :
              files' = [r \in DOMAIN OpenFiles |->
                           IF r = writers[k] THEN SubSeq(OpenFiles[r] \o Rows(done, r), 1, n)
                           ELSE IF r \in Range(SubSeq(writers, 1, k - 1))
                                THEN OpenFiles[r] \o Rows(done, r) ELSE OpenFiles[r]]
    /\ frozen' = TRUE
    /\ opened' = TRUE
    /\ failed' = TRUE
    /\ UNCHANGED <<routes, writers, waiting, workerVars, translated, dumped>>

\* Finish, which may come before all events have: closing a stream writes what its
\* buffer holds, and throws if it cannot.
FailToClose ==
    /\ opened /\ ~failed
    /\ \E r \in DOMAIN files : \E n \in 0 .. Len(files[r]) - 1 :
          files' = [files EXCEPT ![r] = SubSeq(@, 1, n)]
    /\ failed' = TRUE
    /\ UNCHANGED <<routes, writers, frozen, waiting, workerVars, translated, opened, dumped>>

Next ==
    \/ \E t \in Types, d \in Detectors : AddTranslator(t, d)
    \/ Freeze
    \/ \E w \in Workers : BeginEvent(w)
    \/ \E w \in Workers : FailToGetTable(w)
    \/ \E w \in Workers, t \in Types : TranslateType(w, t)
    \/ \E w \in Workers, t \in Types : FailToConvert(w, t)
    \/ \E w \in Workers : EndEvent(w)
    \/ FailToOpen
    \/ DumpEvent
    \/ FailToWrite
    \/ FailToClose

Spec == Init /\ [][Next]_vars

\* JANA2 keeps its workers and the dump running.  Nothing need throw.
FairSpec ==
    /\ Spec
    /\ \A w \in Workers :
          WF_vars(BeginEvent(w) \/ EndEvent(w) \/ \E t \in Types : TranslateType(w, t))
    /\ WF_vars(DumpEvent)

-----------------------------------------------------------------------------

Outputs == UNION {[rs -> Seq(Nat)] : rs \in SUBSET Routes}

TypeOK ==
    /\ routes \subseteq Routes
    /\ writers \in Seq(Routes)
    /\ frozen \in BOOLEAN
    /\ waiting \subseteq Events
    /\ event \in [Workers -> Events \cup {None}]
    /\ visited \in [Workers -> SUBSET Types]
    /\ DOMAIN outputs = Workers
    /\ \A w \in Workers :
          /\ DOMAIN outputs[w] \subseteq Routes
          /\ \A r \in DOMAIN outputs[w] : outputs[w][r] \in Seq(Nat)
          /\ event[w] = None => visited[w] = {} /\ outputs[w] = << >>
    /\ thrown \subseteq Workers
    /\ \A done \in translated : done.event \in Events /\ DOMAIN done.outputs \subseteq Routes
    /\ opened \in BOOLEAN /\ failed \in BOOLEAN
    /\ DOMAIN files \subseteq Routes
    /\ dumped \in Seq(Events)

(* Every route has exactly one writer, and no two writers share a file,    *)
(* although two types may have the same displayed name.                    *)
WritersMatchRoutes ==
    /\ Range(writers) = routes
    /\ \A k, l \in DOMAIN writers :
          k # l => <<writers[k][2], FileName[writers[k][1]]>>
                      # <<writers[l][2], FileName[writers[l][1]]>>

\* translateEvent or the dump has gone past the freeze.
IsUnderWay == opened \/ translated # {} \/ \E w \in Workers : event[w] # None

(* The routes are read without the mutex during an event; no step changes  *)
(* them meanwhile, nor after any event was translated or a file opened.    *)
RoutesAreStable == [][IsUnderWay => routes' = routes /\ writers' = writers]_vars

\* What route r makes of event e.
Due(e, r) ==
    InOrder({k \in DOMAIN e.hits : <<e.hits[k].type, e.table[e.hits[k].address]>> = r})

(* Every event is translated by all the routes there are, however the      *)
(* registrations and the workers interleave: each raw hit that its own     *)
(* table maps to a detector with a route is translated once, in order.  An *)
(* event of which a conversion threw never gets to the dump.               *)
EventsAreTranslated ==
    \A done \in translated :
        /\ DOMAIN done.outputs = {r \in routes : Due(done.event, r) # << >>}
        /\ \A r \in DOMAIN done.outputs : done.outputs[r] = Due(done.event, r)

\* The rows that event e is due in the file of route r, and those of the events dumped.
RowsOf(e, r) == [k \in DOMAIN Due(e, r) |-> [event |-> e.name, hit |-> Due(e, r)[k]]]

RowsDue(r) == FlattenSeq([i \in DOMAIN dumped |-> RowsOf(dumped[i], r)])

\* The streams have failed at the end, or at an event: one file ends early.
FailedAtClose ==
    \E r \in routes : /\ IsPrefix(files[r], RowsDue(r))
                     /\ \A q \in routes \ {r} : files[q] = RowsDue(q)

FailedAtEvent(e) ==
    \E k \in DOMAIN writers : \A l \in DOMAIN writers :
        LET file == files[writers[l]]
            before == RowsDue(writers[l])
            after == before \o RowsOf(e, writers[l])
        IN  /\ l < k => file = after
            /\ l = k => IsPrefix(file, after)
            /\ l > k => file = before

(* Once the dump is open, every route has its file, which holds the rows   *)
(* of the events dumped, event by event and none of another route.  If a   *)
(* stream fails, only its own file lacks rows, and those at the end; the   *)
(* others differ by the rows of one event that was not dumped.             *)
FilesAreExact ==
    opened =>
        /\ DOMAIN files = routes
        /\ \/ \A r \in routes : files[r] = RowsDue(r)
           \/ failed /\ FailedAtClose
           \/ failed /\ \E done \in translated : FailedAtEvent(done.event)

(* Every event is dumped in the end, unless a file cannot be opened or     *)
(* written, or getTable or a conversion throws.                            *)
EverythingIsDumped == <>(failed \/ thrown # {} \/ Range(dumped) = Events)

=============================================================================

-------------------------- MODULE BankToModuleMap --------------------------
(***************************************************************************)
(* JEventService_BankToModuleMap: bank tag -> module ID routes, loaded     *)
(* from the layered mapping files (core file first, then the directories   *)
(* of JCE_CONFIG_DIR) and added by plugins, read by every worker thread.   *)
(*                                                                         *)
(* A mapping file is validated as a whole before the mutex is taken and    *)
(* published under it, so the two halves of loadMappingFile are two        *)
(* actions: addRoute and getModuleId of other threads may come between.    *)
(* A call that throws leaves the service unchanged; only the loader's      *)
(* failure is recorded, because it ends the sequence of loads.             *)
(***************************************************************************)
EXTENDS Naturals, Sequences, FiniteSetsExt

CONSTANTS Banks,        \* bank tags
          Modules,      \* module IDs
          NoModule,     \* getModuleId's -1
          Malformed,    \* a row the parser of rows rejects
          LayerChoices  \* the sequences of mapping files to load, in order

ASSUME NoModuleIsNew == NoModule \notin Modules

Rows == [bank : Banks, module : Modules] \cup {Malformed}

\* Every sequence of files is a sequence of sequences of rows.
ASSUME LayersAreFiles == LayerChoices \subseteq Seq(Seq(Rows))

VARIABLES layers,   \* the files, as jce_config_files ordered them
          loaded,   \* how many of them are published
          loader,   \* where the thread calling loadMappingFile is
          staged,   \* its local map "routes", filled by the validation
          routes,   \* m_bank_to_module
          sources,  \* m_route_sources: which layer a route came from, 0: none
          frozen,   \* m_frozen
          added,    \* history: the routes addRoute accepted
          answers   \* history: what getModuleId returned, by bank

vars == <<layers, loaded, loader, staged, routes, sources, frozen, added, answers>>

Routes == [Banks -> Modules \cup {NoModule}]

NoRoutes == [b \in Banks |-> NoModule]

TypeOK ==
    /\ layers \in LayerChoices
    /\ loaded \in 0..Len(layers)
    /\ loader \in {"reading", "staged", "failed"}
    /\ staged \in Routes
    /\ routes \in Routes
    /\ sources \in [Banks -> 0..Len(layers)]
    /\ frozen \in BOOLEAN
    /\ added \in Routes
    /\ answers \in [Banks -> SUBSET (Modules \cup {NoModule})]

Init ==
    /\ layers \in LayerChoices
    /\ loaded = 0
    /\ loader = "reading"
    /\ staged = NoRoutes
    /\ routes = NoRoutes
    /\ sources = [b \in Banks |-> 0]
    /\ frozen = FALSE
    /\ added = NoRoutes
    /\ answers = [b \in Banks |-> {}]

-----------------------------------------------------------------------------

\* The modules the rows of a file give a bank.
ModulesFor(file, b) ==
    {m \in Modules : \E i \in DOMAIN file : file[i] = [bank |-> b, module |-> m]}

\* No malformed row, and no bank with two different modules.
WellFormed(file) ==
    /\ \A i \in DOMAIN file : file[i] # Malformed
    /\ \A b \in Banks : \A m, n \in ModulesFor(file, b) : m = n

\* What the validation of a well-formed file puts in its local map.
FileRoutes(file) ==
    [b \in Banks |-> IF ModulesFor(file, b) = {} THEN NoModule
                     ELSE CHOOSE m \in ModulesFor(file, b) : TRUE]

\* loadMappingFile, outside the mutex: read and validate the whole next file.
ReadLayer ==
    /\ loader = "reading"
    /\ loaded < Len(layers)
    /\ LET file == layers[loaded + 1]
       IN  IF WellFormed(file)
           THEN loader' = "staged" /\ staged' = FileRoutes(file)
           ELSE loader' = "failed" /\ UNCHANGED staged
    /\ UNCHANGED <<layers, loaded, routes, sources, frozen, added, answers>>

\* The staged file replaces what it mentions ...
Overridden ==
    [b \in Banks |-> IF staged[b] = NoModule THEN routes[b] ELSE staged[b]]

\* ... but a route that says the same as before keeps its old source.
Credited ==
    [b \in Banks |-> IF staged[b] \in {NoModule, routes[b]}
                     THEN sources[b] ELSE loaded + 1]

\* loadMappingFile, under the mutex: every staged route is published.
Publish(newRoutes, newSources) ==
    /\ loader = "staged"
    /\ routes' = newRoutes
    /\ sources' = newSources
    /\ loaded' = loaded + 1
    /\ loader' = "reading"
    /\ staged' = NoRoutes
    /\ UNCHANGED <<layers, frozen, added, answers>>

\* Faulty variants: no frozen check; the first file wins; the source is
\* recorded only once; the source is counted from the wrong end.
PublishWithoutFreezeCheck == Publish(Overridden, Credited)

PublishFirstWins ==
    ~frozen /\ Publish([b \in Banks |-> IF routes[b] = NoModule THEN staged[b] ELSE routes[b]],
                       Credited)

PublishKeepsOldSource ==
    ~frozen /\ Publish(Overridden,
                       [b \in Banks |-> IF sources[b] = 0 THEN Credited[b] ELSE sources[b]])

PublishMiscounts ==
    ~frozen /\ Publish(Overridden, [b \in Banks |-> IF Credited[b] = loaded + 1
                                                    THEN loaded + 2 ELSE sources[b]])

PublishLayer == ~frozen /\ Publish(Overridden, Credited)

\* loadMappingFile, under the mutex: a lookup came first, the call throws.
RefuseLayer ==
    /\ loader = "staged"
    /\ frozen
    /\ loader' = "failed"
    /\ staged' = NoRoutes
    /\ UNCHANGED <<layers, loaded, routes, sources, frozen, added, answers>>

\* addRoute: throws, changing nothing, once frozen or when the bank has a route.
AddRoute(b, m) ==
    /\ ~frozen
    /\ routes[b] = NoModule
    /\ routes' = [routes EXCEPT ![b] = m]
    /\ added' = [added EXCEPT ![b] = m]
    /\ UNCHANGED <<layers, loaded, loader, staged, sources, frozen, answers>>

\* getModuleId: the first call of any thread freezes the map.
GetModuleId(b) ==
    /\ frozen' = TRUE
    /\ answers' = [answers EXCEPT ![b] = @ \cup {routes[b]}]
    /\ UNCHANGED <<layers, loaded, loader, staged, routes, sources, added>>

Next ==
    \/ ReadLayer
    \/ PublishLayer
    \/ RefuseLayer
    \/ \E b \in Banks, m \in Modules : AddRoute(b, m)
    \/ \E b \in Banks : GetModuleId(b)

Spec == Init /\ [][Next]_vars

-----------------------------------------------------------------------------

\* The published layers that route bank b.
LayersRouting(b) == {i \in 1..loaded : ModulesFor(layers[i], b) # {}}

(* Layering, all or nothing: the route of a bank is the one of the last    *)
(* published file that mentions it, whatever plugins registered and in     *)
(* whatever order; a bank no published file mentions has exactly the route *)
(* a plugin added, if any.  So a rejected file (malformed, contradictory   *)
(* or late) leaves no trace, and a plugin never displaces a file's route.  *)
RoutesAreLayered ==
    \A b \in Banks :
        routes[b] = IF LayersRouting(b) = {} THEN added[b]
                    ELSE FileRoutes(layers[Max(LayersRouting(b))])[b]

(* The source that the override warning of a later file quotes (and that a *)
(* user reads to find the row) is a published file that really contains    *)
(* the route now in force.                                                 *)
SourcesAreTrue ==
    \A b \in Banks : sources[b] # 0 =>
        /\ sources[b] <= loaded
        /\ ModulesFor(layers[sources[b]], b) = {routes[b]}

(* Every answer getModuleId gave, to any worker at any time, is the route  *)
(* in force: no file or plugin changes a route somebody has acted on.      *)
AnswersAgree == \A b \in Banks : answers[b] \subseteq {routes[b]}

(* What makes those invariants inductive.  The loader's local map is the   *)
(* content of the next file, a bank without a route is mentioned by no     *)
(* published file, and nobody has looked before the freeze.                *)
StagedIsNextLayer ==
    loader = "staged" =>
        /\ loaded < Len(layers)
        /\ WellFormed(layers[loaded + 1])
        /\ staged = FileRoutes(layers[loaded + 1])

UnroutedIsUnmentioned ==
    \A b \in Banks : routes[b] = NoModule => LayersRouting(b) = {}

NoAnswerBeforeFreeze == ~frozen => \A b \in Banks : answers[b] = {}

IInv ==
    /\ TypeOK
    /\ StagedIsNextLayer
    /\ UnroutedIsUnmentioned
    /\ NoAnswerBeforeFreeze
    /\ RoutesAreLayered
    /\ SourcesAreTrue

\* The promise to readers, with the loading and the layering hidden.
Registry == INSTANCE FrozenRegistry
    WITH Keys <- Banks, Values <- Modules, None <- NoModule, entries <- routes

(* The map implements the frozen registry.                                 *)
ImplementsRegistry == Registry!Spec

=============================================================================

------------------------- MODULE ServiceMaps_proofs -------------------------
(***************************************************************************)
(* Theorems about the two maps, for any banks, modules and parsers, any    *)
(* mapping files and any registrations.  The routes of the bank-to-module  *)
(* map are exactly the layering of the published files over the plugins'   *)
(* routes; in the module-parsers map exactly the accepted registrations    *)
(* are in force, and each module has one owner; both maps implement the    *)
(* frozen registry, so that their answers agree; and so all data of a bank *)
(* is decoded by one parser.                                               *)
(***************************************************************************)
EXTENDS ServiceMaps, TLAPS

-----------------------------------------------------------------------------
(* The bank-to-module map.  First, facts about one file.                   *)

LEMMA FileRoutesType == ASSUME NEW file PROVE FileRoutes(file) \in Routes
<1>. SUFFICES ASSUME NEW b \in Banks, ModulesFor(file, b) # {}
              PROVE  (CHOOSE m \in ModulesFor(file, b) : TRUE) \in Modules
  BY DEF FileRoutes, Routes
<1>. QED  BY DEF ModulesFor

LEMMA FileRoutesMention ==
    ASSUME NEW file, NEW b \in Banks
    PROVE  FileRoutes(file)[b] = NoModule <=> ModulesFor(file, b) = {}
<1>1. CASE ModulesFor(file, b) = {}
  BY <1>1 DEF FileRoutes
<1>2. CASE ModulesFor(file, b) # {}
  <2>1. FileRoutes(file)[b] \in ModulesFor(file, b)
    BY <1>2 DEF FileRoutes
  <2>. QED  BY <1>2, <2>1, NoModuleIsNew DEF ModulesFor
<1>. QED  BY <1>1, <1>2

-----------------------------------------------------------------------------
(* Publishing the next file changes LayersRouting by that file alone.      *)
LEMMA PublishRouting ==
    ASSUME NEW b \in Banks, loaded \in Nat, loaded' = loaded + 1, layers' = layers
    PROVE  /\ ModulesFor(layers[loaded + 1], b) = {} => LayersRouting(b)' = LayersRouting(b)
           /\ ModulesFor(layers[loaded + 1], b) # {} => Max(LayersRouting(b)') = loaded + 1
<1>1. LayersRouting(b)' = {i \in 1..(loaded + 1) : ModulesFor(layers[i], b) # {}}
  BY DEF LayersRouting
<1>2. CASE ModulesFor(layers[loaded + 1], b) = {}
  BY <1>1, <1>2 DEF LayersRouting
<1>3. CASE ModulesFor(layers[loaded + 1], b) # {}
  <2>1. loaded + 1 \in LayersRouting(b)' /\ \A i \in LayersRouting(b)' : i \in Nat /\ i <= loaded + 1
    BY <1>1, <1>3
  <2>. QED  BY <1>3, <2>1 DEF Max
<1>. QED  BY <1>2, <1>3

-----------------------------------------------------------------------------

LEMMA InitIInv == Init => IInv
<1>. SUFFICES ASSUME Init PROVE IInv
  OBVIOUS
<1>1. layers \in Seq(Seq(Rows)) /\ Len(layers) \in Nat
  BY LayersAreFiles DEF Init
<1>2. TypeOK
  <2>1. NoRoutes \in Routes
    BY DEF NoRoutes, Routes
  <2>2. 0 \in 0..Len(layers)
    BY <1>1
  <2>. QED  BY <2>1, <2>2 DEF Init, TypeOK
<1>3. \A b \in Banks : LayersRouting(b) = {}
  BY DEF Init, LayersRouting
<1>. QED
  BY <1>2, <1>3 DEF Init, IInv, StagedIsNextLayer, UnroutedIsUnmentioned, NoRoutes,
     NoAnswerBeforeFreeze, RoutesAreLayered, SourcesAreTrue

LEMMA StepIInv == IInv /\ [Next]_vars => IInv'
<1>. SUFFICES ASSUME IInv, [Next]_vars PROVE IInv'
  OBVIOUS
<1>0. /\ layers \in Seq(Seq(Rows))
      /\ Len(layers) \in Nat
      /\ loaded \in Nat
  BY LayersAreFiles DEF IInv, TypeOK
<1>1. CASE ReadLayer
  <2>1. TypeOK' /\ StagedIsNextLayer'
    BY <1>0, <1>1, FileRoutesType DEF IInv, TypeOK, ReadLayer, StagedIsNextLayer
  <2>2. \A b \in Banks : LayersRouting(b)' = LayersRouting(b)
    BY <1>1 DEF ReadLayer, LayersRouting
  <2>. QED
    BY <1>1, <2>1, <2>2 DEF ReadLayer, IInv, UnroutedIsUnmentioned, NoAnswerBeforeFreeze,
       RoutesAreLayered, SourcesAreTrue
<1>2. CASE PublishLayer
  <2>. DEFINE file == layers[loaded + 1]
  <2>1. /\ layers' = layers /\ loaded' = loaded + 1 /\ loader' = "reading"
        /\ loaded < Len(layers) /\ staged = FileRoutes(file) /\ WellFormed(file)
        /\ frozen' = frozen /\ added' = added /\ answers' = answers
    BY <1>2 DEF PublishLayer, Publish, Overridden, Credited, IInv, StagedIsNextLayer
  <2>2. routes' = [b \in Banks |-> IF staged[b] = NoModule THEN routes[b] ELSE staged[b]]
    BY <1>2 DEF PublishLayer, Publish, Overridden, Credited
  <2>3. TypeOK'
    <3>1. routes' \in Routes /\ staged' \in Routes
      BY <1>2 DEF PublishLayer, Publish, Overridden, Credited, IInv, TypeOK, Routes, NoRoutes
    <3>2. sources' \in [Banks -> 0..Len(layers)]
      BY <1>0, <1>2, <2>1 DEF PublishLayer, Publish, Overridden, Credited, IInv, TypeOK
    <3>. QED  BY <1>0, <2>1, <3>1, <3>2 DEF IInv, TypeOK
  <2>4. ASSUME NEW b \in Banks
        PROVE  /\ routes'[b] = NoModule => LayersRouting(b)' = {}
               /\ routes'[b] = IF LayersRouting(b)' = {} THEN added'[b]
                                ELSE FileRoutes(layers'[Max(LayersRouting(b)')])[b]
    <3>1. CASE ModulesFor(file, b) = {}
      <4>1. LayersRouting(b)' = LayersRouting(b) /\ routes'[b] = routes[b]
        BY <1>0, <2>1, <2>2, <3>1, PublishRouting, FileRoutesMention
      <4>. QED  BY <2>1, <4>1 DEF IInv, UnroutedIsUnmentioned, RoutesAreLayered
    <3>2. CASE ModulesFor(file, b) # {}
      <4>1. Max(LayersRouting(b)') = loaded + 1
        BY <1>0, <2>1, <3>2, PublishRouting
      <4>2. routes'[b] = FileRoutes(file)[b] /\ routes'[b] # NoModule
        BY <2>1, <2>2, <3>2, FileRoutesMention
      <4>3. loaded + 1 \in LayersRouting(b)'
        BY <1>0, <2>1, <3>2 DEF LayersRouting
      <4>. QED  BY <2>1, <4>1, <4>2, <4>3
    <3>. QED  BY <3>1, <3>2
  <2>5. ASSUME NEW b \in Banks, sources'[b] # 0
        PROVE  sources'[b] <= loaded' /\ ModulesFor(layers'[sources'[b]], b) = {routes'[b]}
    <3>1. CASE staged[b] \in {NoModule, routes[b]}
      <4>1. sources'[b] = sources[b] /\ routes'[b] = routes[b]
        BY <1>2, <2>2, <3>1 DEF PublishLayer, Publish, Overridden, Credited
      <4>2. sources[b] <= loaded /\ ModulesFor(layers[sources[b]], b) = {routes[b]}
        BY <2>5, <4>1 DEF IInv, SourcesAreTrue
      <4>. QED  BY <1>0, <2>1, <4>1, <4>2 DEF IInv, TypeOK
    <3>2. CASE staged[b] \notin {NoModule, routes[b]}
      <4>1. sources'[b] = loaded + 1 /\ routes'[b] = FileRoutes(file)[b]
        BY <1>2, <2>1, <2>2, <3>2 DEF PublishLayer, Publish, Overridden, Credited
      <4>2. ModulesFor(file, b) # {}
        BY <2>1, <3>2, FileRoutesMention
      <4>3. routes'[b] \in ModulesFor(file, b)
        BY <4>1, <4>2 DEF FileRoutes
      <4>4. ModulesFor(file, b) = {routes'[b]}
        BY <2>1, <4>3 DEF WellFormed, ModulesFor
      <4>. QED  BY <1>0, <2>1, <4>1, <4>4
    <3>. QED  BY <3>1, <3>2
  <2>. QED
    BY <2>1, <2>3, <2>4, <2>5 DEF IInv, StagedIsNextLayer, UnroutedIsUnmentioned,
       NoAnswerBeforeFreeze, RoutesAreLayered, SourcesAreTrue
<1>3. CASE RefuseLayer
  <2>1. TypeOK' /\ StagedIsNextLayer'
    BY <1>3 DEF RefuseLayer, IInv, TypeOK, StagedIsNextLayer, NoRoutes, Routes
  <2>2. \A b \in Banks : LayersRouting(b)' = LayersRouting(b)
    BY <1>3 DEF RefuseLayer, LayersRouting
  <2>. QED
    BY <1>3, <2>1, <2>2 DEF RefuseLayer, IInv, UnroutedIsUnmentioned, NoAnswerBeforeFreeze,
       RoutesAreLayered, SourcesAreTrue
<1>4. ASSUME NEW c \in Banks, NEW m \in Modules, AddRoute(c, m)
      PROVE  IInv'
  <2>1. TypeOK' /\ StagedIsNextLayer'
    BY <1>4 DEF AddRoute, IInv, TypeOK, StagedIsNextLayer, Routes
  <2>2. \A b \in Banks : LayersRouting(b)' = LayersRouting(b)
    BY <1>4 DEF AddRoute, LayersRouting
  <2>3. /\ layers' = layers /\ loaded' = loaded /\ sources' = sources
        /\ routes' = [routes EXCEPT ![c] = m] /\ added' = [added EXCEPT ![c] = m]
        /\ routes[c] = NoModule /\ routes \in Routes /\ added \in Routes
    BY <1>4 DEF AddRoute, IInv, TypeOK
  <2>4. LayersRouting(c) = {}
    BY <2>3 DEF IInv, UnroutedIsUnmentioned
  <2>5. UnroutedIsUnmentioned' /\ RoutesAreLayered'
    BY <2>2, <2>3, <2>4, NoModuleIsNew DEF IInv, UnroutedIsUnmentioned, RoutesAreLayered, Routes
  <2>6. sources[c] = 0
    <3>. SUFFICES ASSUME sources[c] # 0 PROVE FALSE
      OBVIOUS
    <3>1. sources[c] <= loaded /\ ModulesFor(layers[sources[c]], c) = {routes[c]}
      BY DEF IInv, SourcesAreTrue
    <3>2. sources[c] \in 1..loaded
      BY <1>0, <3>1 DEF IInv, TypeOK
    <3>. QED  BY <2>4, <3>1, <3>2 DEF LayersRouting
  <2>7. SourcesAreTrue'
    BY <2>3, <2>6 DEF IInv, SourcesAreTrue, Routes
  <2>8. NoAnswerBeforeFreeze'
    BY <1>4 DEF AddRoute, IInv, NoAnswerBeforeFreeze
  <2>. QED  BY <2>1, <2>5, <2>7, <2>8 DEF IInv
<1>5. ASSUME NEW c \in Banks, GetModuleId(c)
      PROVE  IInv'
  <2>1. TypeOK' /\ StagedIsNextLayer'
    BY <1>5 DEF GetModuleId, IInv, TypeOK, StagedIsNextLayer, Routes
  <2>2. \A b \in Banks : LayersRouting(b)' = LayersRouting(b)
    BY <1>5 DEF GetModuleId, LayersRouting
  <2>. QED
    BY <1>5, <2>1, <2>2 DEF GetModuleId, IInv, UnroutedIsUnmentioned, NoAnswerBeforeFreeze,
       RoutesAreLayered, SourcesAreTrue
<1>6. CASE UNCHANGED vars
  <2>1. \A b \in Banks : LayersRouting(b)' = LayersRouting(b)
    BY <1>6 DEF vars, LayersRouting
  <2>. QED
    BY <1>6, <2>1 DEF vars, IInv, TypeOK, StagedIsNextLayer, UnroutedIsUnmentioned,
       NoAnswerBeforeFreeze, RoutesAreLayered, SourcesAreTrue
<1>. QED  BY <1>1, <1>2, <1>3, <1>4, <1>5, <1>6 DEF Next

-----------------------------------------------------------------------------

LEMMA Invariance == Spec => []IInv
BY InitIInv, StepIInv, PTL DEF Spec

(* No action stores anything but a route, a bank or a layer's number.      *)
THEOREM TypeCorrect == Spec => []TypeOK
<1>1. IInv => TypeOK
  BY DEF IInv
<1>. QED  BY <1>1, Invariance, PTL

(* After any interleaving of file loads, plugin registrations and lookups, *)
(* routes are the layering of the published files over the plugins' routes.*)
THEOREM Layering == Spec => []RoutesAreLayered
<1>1. IInv => RoutesAreLayered
  BY DEF IInv
<1>. QED  BY <1>1, Invariance, PTL

(* The recorded source of a route is a published file that contains it.    *)
THEOREM SourceTruth == Spec => []SourcesAreTrue
<1>1. IInv => SourcesAreTrue
  BY DEF IInv
<1>. QED  BY <1>1, Invariance, PTL

(* BankToModuleMap implements FrozenRegistry: loading and registering are  *)
(* configuration, getModuleId is a lookup, everything else is invisible.   *)
THEOREM Refinement == Spec => ImplementsRegistry
<1>1. Init => Registry!Init
  BY DEF Init, Registry!Init, NoRoutes
<1>2. IInv /\ IInv' /\ [Next]_vars => [Registry!Next]_(Registry!vars)
  <2>. SUFFICES ASSUME IInv, IInv', [Next]_vars PROVE [Registry!Next]_(Registry!vars)
    OBVIOUS
  <2>0. routes' \in Registry!Contents
    BY DEF IInv, TypeOK, Routes, Registry!Contents
  <2>1. CASE ReadLayer
    BY <2>1 DEF ReadLayer, Registry!vars
  <2>2. CASE PublishLayer
    BY <2>0, <2>2 DEF PublishLayer, Publish, Overridden, Credited, Registry!Next, Registry!Configure
  <2>3. CASE RefuseLayer
    BY <2>3 DEF RefuseLayer, Registry!vars
  <2>4. ASSUME NEW b \in Banks, NEW m \in Modules, AddRoute(b, m)
        PROVE  Registry!Next
    BY <2>0, <2>4 DEF AddRoute, Registry!Next, Registry!Configure
  <2>5. ASSUME NEW b \in Banks, GetModuleId(b)
        PROVE  Registry!Next
    BY <2>5 DEF GetModuleId, Registry!Next, Registry!Lookup
  <2>6. CASE UNCHANGED vars
    BY <2>6 DEF vars, Registry!vars
  <2>. QED  BY <2>1, <2>2, <2>3, <2>4, <2>5, <2>6 DEF Next
<1>. QED  BY <1>1, <1>2, Invariance, PTL DEF Spec, ImplementsRegistry, Registry!Spec

(* A registry that freezes on its first lookup and is never configured     *)
(* afterwards gives all its readers the same answers.                      *)
THEOREM RegistryAgreement == Registry!Spec => []Registry!AnswersAgree
<1>. DEFINE Inv == Registry!TypeOK /\ Registry!NoAnswerBeforeFreeze /\ Registry!AnswersAgree
<1>1. Registry!Init => Inv
  BY DEF Registry!Init, Registry!TypeOK, Registry!Contents, Registry!NoAnswerBeforeFreeze, Registry!AnswersAgree
<1>2. Inv /\ [Registry!Next]_(Registry!vars) => Inv'
  <2>. SUFFICES ASSUME Inv, [Registry!Next]_(Registry!vars) PROVE Inv'
    OBVIOUS
  <2>1. CASE Registry!Configure
    BY <2>1 DEF Registry!Configure, Registry!TypeOK, Registry!Contents,
                Registry!NoAnswerBeforeFreeze, Registry!AnswersAgree
  <2>2. ASSUME NEW k \in Banks, Registry!Lookup(k) PROVE Inv'
    BY <2>2 DEF Registry!Lookup, Registry!TypeOK, Registry!Contents,
                Registry!NoAnswerBeforeFreeze, Registry!AnswersAgree
  <2>3. CASE UNCHANGED Registry!vars
    BY <2>3 DEF Registry!vars, Registry!TypeOK, Registry!NoAnswerBeforeFreeze, Registry!AnswersAgree
  <2>. QED  BY <2>1, <2>2, <2>3 DEF Registry!Next
<1>3. Inv => Registry!AnswersAgree
  OBVIOUS
<1>. QED  BY <1>1, <1>2, <1>3, PTL DEF Registry!Spec

(* Hence every answer getModuleId gave is the route in force.              *)
THEOREM Agreement == Spec => []AnswersAgree
<1>1. Registry!Spec => []Registry!AnswersAgree
  BY RegistryAgreement
<1>2. Registry!AnswersAgree => AnswersAgree
  BY DEF Registry!AnswersAgree, AnswersAgree
<1>. QED  BY <1>1, <1>2, Refinement, PTL DEF ImplementsRegistry

-----------------------------------------------------------------------------
(* The module-parsers map.                                                 *)

\* addParser accepts only real parsers.
AcceptedAreParsers ==
    \A r \in Registrars : \A i \in 1..accepted[r] :
        program[r][i].id \in ModuleIds /\ program[r][i].parser \in Parsers

ParsersIInv == ParsersTypeOK /\ AcceptedAreParsers /\ RegistrationsExact /\ OneOwner

LEMMA NextRowType ==
    ASSUME ParsersTypeOK, NEW r \in Registrars, Adding(r)
    PROVE  /\ NextRow(r) \in ParserRows
           /\ accepted[r] \in Nat
           /\ accepted[r] + 1 <= Len(program[r])
<1>1. program[r] \in Seq(ParserRows) /\ accepted[r] \in Nat
  BY ProgramsAreRows DEF ParsersTypeOK
<1>2. accepted[r] + 1 \in 1..Len(program[r])
  BY <1>1 DEF Adding
<1>. QED  BY <1>1, <1>2 DEF NextRow

LEMMA ParsersInitIInv == ParsersInit => ParsersIInv
<1>. SUFFICES ASSUME ParsersInit PROVE ParsersIInv
  OBVIOUS
<1>1. ASSUME NEW r \in Registrars PROVE 0 <= Len(program[r])
  BY ProgramsAreRows DEF ParsersInit
<1>2. ParsersTypeOK
  BY <1>1 DEF ParsersInit, ParsersTypeOK
<1>. QED  BY <1>2 DEF ParsersInit, ParsersIInv, AcceptedAreParsers, RegistrationsExact, OneOwner

LEMMA ParsersStepIInv == ParsersIInv /\ [ParsersNext]_parsersVars => ParsersIInv'
<1>. SUFFICES ASSUME ParsersIInv, [ParsersNext]_parsersVars PROVE ParsersIInv'
  OBVIOUS
<1>1. ASSUME NEW q \in Registrars, AddParser(q)
      PROVE  ParsersIInv'
  <2>. DEFINE row == NextRow(q)
  <2>1. /\ row \in ParserRows
        /\ row.id \in ModuleIds
        /\ accepted[q] \in Nat
        /\ accepted[q] + 1 <= Len(program[q])
    BY <1>1, NextRowType DEF AddParser, ParsersIInv, ParserRows
  <2>2. /\ parsers[row.id] = NullParser
        /\ row.parser \in Parsers
    BY <1>1, <2>1 DEF AddParser, Admissible, ParserRows
  <2>3. /\ program' = program /\ failed' = failed /\ parsersFrozen' = parsersFrozen /\ parserAnswers' = parserAnswers
        /\ parsers' = [parsers EXCEPT ![row.id] = row.parser]
        /\ accepted' = [accepted EXCEPT ![q] = @ + 1]
        /\ row = program[q][accepted[q] + 1]
    BY <1>1 DEF AddParser, NextRow
  <2>4. ParsersTypeOK'
    BY <2>1, <2>2, <2>3 DEF ParsersIInv, ParsersTypeOK
  \* An accepted row is an earlier one, about another module, or the new one.
  <2>5. ASSUME NEW r \in Registrars, NEW i \in 1..accepted'[r]
        PROVE  \/ /\ i \in 1..accepted[r]
                  /\ program[r][i].id # row.id
                  /\ program[r][i].id \in ModuleIds
                  /\ program[r][i].parser \in Parsers
                  /\ parsers[program[r][i].id] = program[r][i].parser
               \/ /\ r = q
                  /\ i = accepted[q] + 1
                  /\ program[r][i] = row
    <3>1. CASE i \in 1..accepted[r]
      BY <2>2, <3>1, NullIsNoParser DEF ParsersIInv, AcceptedAreParsers, RegistrationsExact
    <3>2. CASE i \notin 1..accepted[r]
      BY <2>1, <2>3, <3>2 DEF ParsersIInv, ParsersTypeOK
    <3>. QED  BY <3>1, <3>2
  <2>6. AcceptedAreParsers'
    BY <2>1, <2>2, <2>3, <2>5 DEF AcceptedAreParsers
  <2>7. ASSUME NEW r \in Registrars, NEW i \in 1..accepted'[r]
        PROVE  parsers'[program[r][i].id] = program[r][i].parser
    BY <2>1, <2>3, <2>5 DEF ParsersIInv, ParsersTypeOK
  <2>8. ASSUME NEW id \in ModuleIds, parsers'[id] # NullParser
        PROVE  \E r \in Registrars : \E i \in 1..accepted'[r] : program[r][i].id = id
    <3>1. CASE id = row.id
      BY <2>1, <2>3, <3>1 DEF ParsersIInv, ParsersTypeOK
    <3>2. CASE id # row.id
      <4>1. PICK r \in Registrars : \E i \in 1..accepted[r] : program[r][i].id = id
        BY <2>3, <2>8, <3>2 DEF ParsersIInv, ParsersTypeOK, RegistrationsExact
      <4>2. accepted[r] \in Nat /\ accepted'[r] \in Nat /\ accepted[r] <= accepted'[r]
        BY <2>1, <2>3 DEF ParsersIInv, ParsersTypeOK
      <4>. QED  BY <4>1, <4>2
    <3>. QED  BY <3>1, <3>2
  <2>9. RegistrationsExact'
    BY <2>3, <2>7, <2>8 DEF RegistrationsExact
  <2>10. OneOwner'
    <3>. SUFFICES ASSUME NEW r \in Registrars, NEW s \in Registrars,
                         NEW i \in 1..accepted'[r], NEW j \in 1..accepted'[s],
                         program[r][i].id = program[s][j].id
                  PROVE  r = s /\ i = j
      BY <2>3 DEF OneOwner
    <3>1. CASE i \in 1..accepted[r] /\ j \in 1..accepted[s]
      BY <3>1 DEF ParsersIInv, OneOwner
    <3>2. CASE ~(i \in 1..accepted[r] /\ j \in 1..accepted[s])
      <4>1. \/ i \in 1..accepted[r] /\ program[r][i].id # row.id
            \/ r = q /\ i = accepted[q] + 1 /\ program[r][i] = row
        BY <2>5
      <4>2. \/ j \in 1..accepted[s] /\ program[s][j].id # row.id
            \/ s = q /\ j = accepted[q] + 1 /\ program[s][j] = row
        BY <2>5
      <4>. QED  BY <3>2, <4>1, <4>2
    <3>. QED  BY <3>1, <3>2
  <2>. QED  BY <2>4, <2>6, <2>9, <2>10 DEF ParsersIInv
<1>2. ASSUME NEW q \in Registrars, RefuseParser(q)
      PROVE  ParsersIInv'
  <2>1. UNCHANGED <<program, accepted, parsers, parsersFrozen, parserAnswers>> /\ failed' \subseteq Registrars
    BY <1>2 DEF RefuseParser, ParsersIInv, ParsersTypeOK
  <2>2. ParsersTypeOK' /\ AcceptedAreParsers'
    BY <2>1 DEF ParsersIInv, ParsersTypeOK, AcceptedAreParsers
  <2>3. RegistrationsExact' /\ OneOwner'
    BY <2>1 DEF ParsersIInv, RegistrationsExact, OneOwner
  <2>. QED  BY <2>2, <2>3 DEF ParsersIInv
<1>3. ASSUME NEW id \in ModuleIds, GetParser(id)
      PROVE  ParsersIInv'
  BY <1>3 DEF GetParser, ParsersIInv, ParsersTypeOK, AcceptedAreParsers, RegistrationsExact, OneOwner
<1>4. CASE UNCHANGED parsersVars
  BY <1>4 DEF parsersVars, ParsersIInv, ParsersTypeOK, AcceptedAreParsers, RegistrationsExact, OneOwner
<1>. QED  BY <1>1, <1>2, <1>3, <1>4 DEF ParsersNext

LEMMA ParsersInvariance == ParsersSpec => []ParsersIInv
BY ParsersInitIInv, ParsersStepIInv, PTL DEF ParsersSpec

(* Only parsers and the null parser are ever stored or returned.           *)
THEOREM ParsersTypeCorrect == ParsersSpec => []ParsersTypeOK
<1>1. ParsersIInv => ParsersTypeOK
  BY DEF ParsersIInv
<1>. QED  BY <1>1, ParsersInvariance, PTL

(* The parsers in force are exactly those of the accepted addParser calls, *)
(* each module having been given to one registrar.                         *)
THEOREM Exactness == ParsersSpec => [](RegistrationsExact /\ OneOwner)
<1>1. ParsersIInv => RegistrationsExact /\ OneOwner
  BY DEF ParsersIInv
<1>. QED  BY <1>1, ParsersInvariance, PTL

(* ModuleParsersMap implements FrozenRegistry.                             *)
THEOREM ParsersRefinement == ParsersSpec => ParsersImplementRegistry
<1>1. ParsersInit => ParsersRegistry!Init
  BY DEF ParsersInit, ParsersRegistry!Init
<1>2. ParsersIInv' /\ [ParsersNext]_parsersVars => [ParsersRegistry!Next]_(ParsersRegistry!vars)
  <2>. SUFFICES ASSUME ParsersIInv', [ParsersNext]_parsersVars PROVE [ParsersRegistry!Next]_(ParsersRegistry!vars)
    OBVIOUS
  <2>0. parsers' \in ParsersRegistry!Contents
    BY DEF ParsersIInv, ParsersTypeOK, ParsersRegistry!Contents
  <2>1. ASSUME NEW r \in Registrars, AddParser(r)
        PROVE  ParsersRegistry!Next
    BY <2>0, <2>1 DEF AddParser, Admissible, ParsersRegistry!Next, ParsersRegistry!Configure
  <2>2. ASSUME NEW r \in Registrars, RefuseParser(r)
        PROVE  UNCHANGED ParsersRegistry!vars
    BY <2>2 DEF RefuseParser, ParsersRegistry!vars
  <2>3. ASSUME NEW id \in ModuleIds, GetParser(id)
        PROVE  ParsersRegistry!Next
    BY <2>3 DEF GetParser, ParsersRegistry!Next, ParsersRegistry!Lookup
  <2>4. CASE UNCHANGED parsersVars
    BY <2>4 DEF parsersVars, ParsersRegistry!vars
  <2>. QED  BY <2>1, <2>2, <2>3, <2>4 DEF ParsersNext
<1>. QED  BY <1>1, <1>2, ParsersInvariance, PTL DEF ParsersSpec, ParsersImplementRegistry, ParsersRegistry!Spec

(* A registry that freezes on its first lookup and is never configured     *)
(* afterwards gives all its readers the same answers.                      *)
THEOREM ParsersRegistryAgreement == ParsersRegistry!Spec => []ParsersRegistry!AnswersAgree
<1>. DEFINE Inv == ParsersRegistry!TypeOK /\ ParsersRegistry!NoAnswerBeforeFreeze /\ ParsersRegistry!AnswersAgree
<1>1. ParsersRegistry!Init => Inv
  BY DEF ParsersRegistry!Init, ParsersRegistry!TypeOK, ParsersRegistry!Contents, ParsersRegistry!NoAnswerBeforeFreeze, ParsersRegistry!AnswersAgree
<1>2. Inv /\ [ParsersRegistry!Next]_(ParsersRegistry!vars) => Inv'
  <2>. SUFFICES ASSUME Inv, [ParsersRegistry!Next]_(ParsersRegistry!vars) PROVE Inv'
    OBVIOUS
  <2>1. CASE ParsersRegistry!Configure
    BY <2>1 DEF ParsersRegistry!Configure, ParsersRegistry!TypeOK, ParsersRegistry!Contents,
                ParsersRegistry!NoAnswerBeforeFreeze, ParsersRegistry!AnswersAgree
  <2>2. ASSUME NEW k \in ModuleIds, ParsersRegistry!Lookup(k) PROVE Inv'
    BY <2>2 DEF ParsersRegistry!Lookup, ParsersRegistry!TypeOK, ParsersRegistry!Contents,
                ParsersRegistry!NoAnswerBeforeFreeze, ParsersRegistry!AnswersAgree
  <2>3. CASE UNCHANGED ParsersRegistry!vars
    BY <2>3 DEF ParsersRegistry!vars, ParsersRegistry!TypeOK, ParsersRegistry!NoAnswerBeforeFreeze, ParsersRegistry!AnswersAgree
  <2>. QED  BY <2>1, <2>2, <2>3 DEF ParsersRegistry!Next
<1>3. Inv => ParsersRegistry!AnswersAgree
  OBVIOUS
<1>. QED  BY <1>1, <1>2, <1>3, PTL DEF ParsersRegistry!Spec

(* Hence every answer getParser gave, to any worker, is the parser in      *)
(* force.                                                                  *)
THEOREM ParsersAgreement == ParsersSpec => []ParserAnswersAgree
<1>1. ParsersRegistry!Spec => []ParsersRegistry!AnswersAgree
  BY ParsersRegistryAgreement
<1>2. ParsersRegistry!AnswersAgree => ParserAnswersAgree
  BY DEF ParsersRegistry!AnswersAgree, ParserAnswersAgree
<1>. QED  BY <1>1, <1>2, ParsersRefinement, PTL DEF ParsersImplementRegistry

-----------------------------------------------------------------------------
(* Both maps together.                                                     *)

(* What the two do together, each does by itself.                          *)
LEMMA ServicesAreBoth == ServicesSpec => Spec /\ ParsersSpec
<1>1. ServicesInit => Init /\ ParsersInit
  BY DEF ServicesInit
<1>2. [ServicesNext]_<<vars, parsersVars>> => [Next]_vars /\ [ParsersNext]_parsersVars
  BY DEF ServicesNext
<1>. QED  BY <1>1, <1>2, PTL DEF ServicesSpec, Spec, ParsersSpec

(* Whatever the loaders, plugins and workers do, and in whatever order,    *)
(* the two lookups of EvioEventParser::parseROCBanks lead all workers      *)
(* from a bank to the same parser.                                         *)
THEOREM OneParserPerBank == ServicesSpec => []BanksReachOneParser
<1>1. Spec => []AnswersAgree
  BY Agreement
<1>2. ParsersSpec => []ParserAnswersAgree
  BY ParsersAgreement
<1>3. AnswersAgree /\ ParserAnswersAgree => BanksReachOneParser
  BY DEF AnswersAgree, ParserAnswersAgree, BanksReachOneParser
<1>. QED  BY <1>1, <1>2, <1>3, ServicesAreBoth, PTL

=============================================================================

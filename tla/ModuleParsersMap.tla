-------------------------- MODULE ModuleParsersMap --------------------------
(***************************************************************************)
(* JEventService_ModuleParsersMap: module ID -> parser, filled by services *)
(* such as JEventService_CommonModuleParsers, each of whose Init adds its  *)
(* parsers one addParser call at a time, and read by the worker threads.   *)
(* A call that throws ends the Init it was made from; the parsers that     *)
(* Init added before stay registered.                                      *)
(*                                                                         *)
(* A worker asks BankToModuleMap first and then this map.  ServiceMaps     *)
(* puts the two side by side, so no name here is one of that module.       *)
(***************************************************************************)
EXTENDS Naturals, Sequences

CONSTANTS ModuleIds,
          Parsers,
          NullParser,   \* what getParser returns for an unknown module ID
          Registrars,   \* the services that add parsers
          Programs      \* what each of them may add: a set of functions
                        \* from Registrars to sequences of rows

ParserRows == [id : ModuleIds, parser : Parsers \cup {NullParser}]

ASSUME NullIsNoParser == NullParser \notin Parsers
ASSUME ProgramsAreRows == Programs \subseteq [Registrars -> Seq(ParserRows)]

VARIABLES program,        \* the rows each registrar adds, in order
          accepted,       \* how many of them addParser has accepted
          failed,         \* the registrars an exception has stopped
          parsers,        \* m_module_parsers
          parsersFrozen,  \* m_frozen
          parserAnswers   \* history: what getParser returned, by module ID

parsersVars == <<program, accepted, failed, parsers, parsersFrozen, parserAnswers>>

ParsersTypeOK ==
    /\ program \in Programs
    /\ accepted \in [Registrars -> Nat]
    /\ \A r \in Registrars : accepted[r] <= Len(program[r])
    /\ failed \subseteq Registrars
    /\ parsers \in [ModuleIds -> Parsers \cup {NullParser}]
    /\ parsersFrozen \in BOOLEAN
    /\ parserAnswers \in [ModuleIds -> SUBSET (Parsers \cup {NullParser})]

ParsersInit ==
    /\ program \in Programs
    /\ accepted = [r \in Registrars |-> 0]
    /\ failed = {}
    /\ parsers = [id \in ModuleIds |-> NullParser]
    /\ parsersFrozen = FALSE
    /\ parserAnswers = [id \in ModuleIds |-> {}]

-----------------------------------------------------------------------------

\* The registrar has a row to add.
Adding(r) == r \notin failed /\ accepted[r] < Len(program[r])

NextRow(r) == program[r][accepted[r] + 1]

\* Faulty variants: the duplicate check or the frozen check is forgotten.
AdmitDuplicate(row) == ~parsersFrozen /\ row.parser # NullParser

AdmitAnyTime(row) == row.parser # NullParser /\ parsers[row.id] = NullParser

\* addParser's three checks, in the order the code makes them.
Admissible(row) ==
    /\ ~parsersFrozen
    /\ row.parser # NullParser
    /\ parsers[row.id] = NullParser

\* Faulty variant: the loop over the rows advances twice.
AddParserSkipping(r) ==
    /\ Adding(r)
    /\ Admissible(NextRow(r))
    /\ parsers' = [parsers EXCEPT ![NextRow(r).id] = NextRow(r).parser]
    /\ accepted' = [accepted EXCEPT ![r] = @ + 2]
    /\ UNCHANGED <<program, failed, parsersFrozen, parserAnswers>>

AddParser(r) ==
    /\ Adding(r)
    /\ Admissible(NextRow(r))
    /\ parsers' = [parsers EXCEPT ![NextRow(r).id] = NextRow(r).parser]
    /\ accepted' = [accepted EXCEPT ![r] = @ + 1]
    /\ UNCHANGED <<program, failed, parsersFrozen, parserAnswers>>

\* addParser throws: the registrar's Init is over.
RefuseParser(r) ==
    /\ Adding(r)
    /\ ~Admissible(NextRow(r))
    /\ failed' = failed \cup {r}
    /\ UNCHANGED <<program, accepted, parsers, parsersFrozen, parserAnswers>>

GetParser(id) ==
    /\ parsersFrozen' = TRUE
    /\ parserAnswers' = [parserAnswers EXCEPT ![id] = @ \cup {parsers[id]}]
    /\ UNCHANGED <<program, accepted, failed, parsers>>

ParsersNext ==
    \/ \E r \in Registrars : AddParser(r)
    \/ \E r \in Registrars : RefuseParser(r)
    \/ \E id \in ModuleIds : GetParser(id)

ParsersSpec == ParsersInit /\ [][ParsersNext]_parsersVars

-----------------------------------------------------------------------------

(* An accepted registration is in force for good, and nothing else is: the *)
(* parser of a module is the one of its only accepted row, however the     *)
(* registrars interleave and wherever one of them fails half way.          *)
RegistrationsExact ==
    /\ \A r \in Registrars : \A i \in 1..accepted[r] :
          parsers[program[r][i].id] = program[r][i].parser
    /\ \A id \in ModuleIds : parsers[id] # NullParser =>
          \E r \in Registrars : \E i \in 1..accepted[r] : program[r][i].id = id

(* Two registrars never both believe they serve a module.                  *)
OneOwner ==
    \A r, s \in Registrars : \A i \in 1..accepted[r], j \in 1..accepted[s] :
        program[r][i].id = program[s][j].id => r = s /\ i = j

(* Every answer getParser gave, to any worker, is the parser in force.     *)
ParserAnswersAgree == \A id \in ModuleIds : parserAnswers[id] \subseteq {parsers[id]}

\* The promise to readers, with the registrars hidden.
ParsersRegistry == INSTANCE FrozenRegistry
    WITH Keys <- ModuleIds, Values <- Parsers, None <- NullParser, entries <- parsers,
         frozen <- parsersFrozen, answers <- parserAnswers

(* The map implements the frozen registry.                                 *)
ParsersImplementRegistry == ParsersRegistry!Spec

=============================================================================

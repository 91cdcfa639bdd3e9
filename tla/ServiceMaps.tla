---------------------------- MODULE ServiceMaps ----------------------------
(***************************************************************************)
(* The two maps that a worker goes through to decode a bank: the module ID *)
(* of the bank from BankToModuleMap, and the parser of that module from    *)
(* ModuleParsersMap.  Each has a mutex and a freeze of its own; nothing    *)
(* ties the two together but the order of the lookups.                     *)
(***************************************************************************)
EXTENDS BankToModuleMap, ModuleParsersMap

ServicesInit == Init /\ ParsersInit

\* A call takes the mutex of one map and leaves the other alone.
ServicesNext ==
    \/ Next /\ UNCHANGED parsersVars
    \/ ParsersNext /\ UNCHANGED vars

ServicesSpec == ServicesInit /\ [][ServicesNext]_<<vars, parsersVars>>

(* All the data of a bank is decoded by one parser: whichever module ID a  *)
(* worker has got for the bank, the parser it has got for that ID is the   *)
(* parser of the bank's route.                                             *)
BanksReachOneParser ==
    \A b \in Banks : \A m \in answers[b] \cap ModuleIds :
        parserAnswers[m] \subseteq {parsers[routes[b]]}

=============================================================================

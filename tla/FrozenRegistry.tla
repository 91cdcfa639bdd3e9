--------------------------- MODULE FrozenRegistry ---------------------------
(***************************************************************************)
(* What every lookup service of the plugins promises its readers.  The     *)
(* bank-to-module map and the module-parser map are filled while the       *)
(* application is configured and read by worker threads afterwards.  Both  *)
(* freeze on the first lookup, so that all readers see one configuration.  *)
(*                                                                         *)
(* This is the abstract specification: before the freeze the contents may  *)
(* change in any way, after it they never do.  BankToModuleMap and         *)
(* ModuleParsersMap are shown to implement it.                             *)
(***************************************************************************)
CONSTANTS Keys,     \* bank IDs, module IDs
          Values,   \* module IDs, parsers
          None      \* what a lookup that finds nothing returns

VARIABLES entries,  \* the registry's contents, total over Keys
          frozen,   \* has a lookup been made?
          answers   \* history: every answer a lookup has returned, by key

vars == <<entries, frozen, answers>>

Contents == [Keys -> Values \cup {None}]

TypeOK ==
    /\ entries \in Contents
    /\ frozen \in BOOLEAN
    /\ answers \in [Keys -> SUBSET (Values \cup {None})]

Init ==
    /\ entries = [k \in Keys |-> None]
    /\ frozen = FALSE
    /\ answers = [k \in Keys |-> {}]

\* Registration, loading, overriding: anything, as long as nobody has looked.
Configure ==
    /\ ~frozen
    /\ entries' \in Contents
    /\ UNCHANGED <<frozen, answers>>

\* The first lookup freezes; every lookup answers from the contents.
Lookup(k) ==
    /\ frozen' = TRUE
    /\ answers' = [answers EXCEPT ![k] = @ \cup {entries[k]}]
    /\ UNCHANGED entries

Next == Configure \/ \E k \in Keys : Lookup(k)

Spec == Init /\ [][Next]_vars

-----------------------------------------------------------------------------

(* Two workers, or one worker twice, can never be told different things    *)
(* about one key: every answer ever given is still what the registry holds.*)
AnswersAgree == \A k \in Keys : answers[k] \subseteq {entries[k]}

(* What makes AnswersAgree inductive: nobody has looked before the freeze. *)
NoAnswerBeforeFreeze == ~frozen => \A k \in Keys : answers[k] = {}

=============================================================================

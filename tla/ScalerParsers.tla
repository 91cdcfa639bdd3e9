--------------------------- MODULE ScalerParsers ---------------------------
(***************************************************************************)
(* ModuleParser_FADCScaler and ModuleParser_TIScaler, as functions of the  *)
(* number of words in a bank.  Both make one PhysicsEvent of a bank, under *)
(* the last event number of the EVIO block: the scalers are read out once  *)
(* a block.                                                                *)
(***************************************************************************)
EXTENDS Integers, Sequences

\* A header, and at most sixteen counts that follow it.
FADCCounts == 16

FADCGroup == FADCCounts + 1

\* A hit is its header word and the number of counts the bank has for it.  The
\* last group is short if the bank ends in it.
FADCScalerHits(size) ==
    LET groups == (size + FADCCounts) \div FADCGroup
        Header(k) == (k - 1) * FADCGroup + 1
        Left(k) == size - Header(k)
    IN  [k \in 1..groups |->
            [header |-> Header(k), counts |-> IF Left(k) < FADCCounts THEN Left(k) ELSE FADCCounts]]

\* A header and twelve scalers; parse throws if one of them is missing, and
\* does not look at what is beyond.
TIWords == 13

IsSoundTI(size) == size >= TIWords

TIScalerHits(size) == << [header |-> 1, counts |-> TIWords - 1] >>

=============================================================================

------------------------ MODULE MCDetectorTranslators ------------------------
(* A small instance of DetectorTranslators: three types of raw hits, of     *)
(* which two have one displayed name, two detectors, two run tables, two   *)
(* events and two workers.                                                 *)
EXTENDS DetectorTranslators, TLC

CONSTANTS adc, tdc, tdc2, hodo, cal, a1, a2

MCFileName == (adc :> "adc") @@ (tdc :> "tdc") @@ (tdc2 :> "tdc")

Early == (a1 :> hodo) @@ (a2 :> cal)

Late == (a1 :> NoDetector) @@ (a2 :> hodo)

MCTables == {Early, Late}

Hit(t, a) == [type |-> t, address |-> a]

MCEvents ==
    { [name |-> 1, table |-> Early,
       hits |-> << Hit(adc, a1), Hit(adc, a2), Hit(adc, a1), Hit(tdc, a1) >>],
      [name |-> 2, table |-> Late, hits |-> << Hit(adc, a1), Hit(tdc2, a2) >>] }

=============================================================================

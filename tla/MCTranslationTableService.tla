--------------------- MODULE MCTranslationTableService ---------------------
(* Runs 0..3, so that the run after the last one would overflow; two        *)
(* providers, three detectors, two mapping files each at most.             *)
EXTENDS TranslationTableService

CONSTANTS hall, test, hms, shms, bcal, fa, fb, fc

Range(min, max, file) == [min |-> min, max |-> max, file |-> file]

Manifest(detector, ranges) == [detector |-> detector, ranges |-> ranges]

\* Adjacent ranges of one file, and a detector with a gap.
Split == { Manifest(hms, { Range(0, 0, fa), Range(1, 1, fa), Range(2, MaxRun, fb) }) }

Gap == { Manifest(shms, { Range(0, 0, fa), Range(2, 2, fa) }) }

\* One run only, and the last one.
Late == { Manifest(bcal, { Range(3, 3, fc) }) }

Overlap == { Manifest(bcal, { Range(0, 2, fc), Range(2, 3, fc) }) }

MCChannels == [f \in {fa, fb, fc} |-> {f}]

MCDisks == { [p \in Providers |-> IF p = hall THEN h ELSE t] :
                h \in {Split, Gap}, t \in {Late, Gap, Overlap} }

MCExplicit == { {}, {hall} }

=============================================================================

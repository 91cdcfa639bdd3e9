--------------------------- MODULE MCServiceMaps ---------------------------
(* A small instance of ServiceMaps: two banks, two modules, every sequence *)
(* of at most two of five mapping files and one of three, the common       *)
(* service, and an experiment's plugin that may collide with it, forget a  *)
(* parser or be late.                                                      *)
EXTENDS ServiceMaps, TLC

CONSTANTS b1, b2, fadc, ti, common, experiment, p1, p2, p3

Route(b, m) == [bank |-> b, module |-> m]

First == << Route(b1, fadc) >>

Again == << Route(b1, fadc), Route(b1, fadc) >>      \* equal rows deduplicate

Override == << Route(b1, ti), Route(b2, fadc) >>

Contradiction == << Route(b1, fadc), Route(b1, ti) >>

Broken == << Route(b2, ti), Malformed >>             \* fails after a good row

MCFiles == { First, Again, Override, Contradiction, Broken }

MCLayerChoices ==
    UNION {[1..n -> MCFiles] : n \in 0..2} \cup { << First, Override, Again >> }

Row(i, p) == [id |-> i, parser |-> p]

MCPrograms ==
    { (common :> << Row(fadc, p1), Row(ti, p2) >>) @@ (experiment :> rows) :
        rows \in { << >>,
                   << Row(ti, p3) >>,
                   << Row(ti, p3), Row(fadc, p3) >>,
                   << Row(fadc, NullParser), Row(ti, p3) >>,
                   << Row(ti, p2), Row(ti, p2) >> } }

=============================================================================

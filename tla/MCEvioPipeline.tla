--------------------------- MODULE MCEvioPipeline ---------------------------
(* A small instance of EvioPipeline: two files of one to three events, two  *)
(* workers, three kinds of bank of which one has no module at first.       *)
(* Event numbers wrap after 3.                                             *)
EXTENDS EvioPipeline

CONSTANTS s1, s2, r1, r2, r3, adc, scaler, junk, m1, m2, p1, p2

Body(offsets) == [sound |-> TRUE, offsets |-> offsets]

Broken == [sound |-> FALSE, offsets |-> << >>]

DMA(tag, body) == [tag |-> tag, body |-> body]

Bank(roc, dmas) == [roc |-> roc, dmas |-> dmas]

\* A file event that is not a physics block; run control events are plain
\* words without child structures.
Other(kind, n) ==
    [kind |-> kind, filled |-> kind = "other", run |-> n, first |-> 0, built |-> FALSE,
     header |-> 0, segments |-> << >>, banks |-> << >>]

Block(first, segments, banks) ==
    [kind |-> "physics", filled |-> TRUE, run |-> 0, first |-> first, built |-> TRUE,
     header |-> Len(segments), segments |-> segments, banks |-> banks]

\* Two ROCs, two events; the scalers read out on the last event only, one of
\* them is filtered out, and the second number does not fit an int.
Full == Block(3, <<r1, r2>>,
              << Bank(r1, << DMA(scaler, Body(<<1>>)), DMA(adc, Body(<<0, 1>>)) >>),
                 Bank(r2, << DMA(scaler, Body(<<1>>)), DMA(adc, Body(<<0, 1>>)) >>) >>)

\* An unmapped bank, and a parser that gives two PhysicsEvents one number.
Sparse == Block(0, <<r1>>, << Bank(r1, << DMA(junk, Body(<<0>>)), DMA(adc, Body(<<0, 0>>)) >>) >>)

\* The second ROC is not the one the trigger bank announced.
WrongROC == Block(1, <<r1, r1>>,
                  << Bank(r1, << DMA(adc, Body(<<0>>)) >>), Bank(r2, << >>) >>)

\* The trigger bank announces more ROCs than there are data banks.
WrongCount == [Block(1, <<r1>>, << Bank(r1, << DMA(adc, Body(<<0>>)) >>) >>) EXCEPT !.header = 2]

\* The parser throws at the second bank.
Malformed == Block(2, <<r1>>, << Bank(r1, << DMA(adc, Body(<<0>>)), DMA(scaler, Broken) >>) >>)

\* Nothing that the filter admits.
Silent == Block(2, <<r3>>, << Bank(r3, << DMA(adc, Body(<<0>>)) >>) >>)

\* A trigger bank without children.
Unbuilt == [Block(0, << >>, << >>) EXCEPT !.built = FALSE]

Empty == [Block(0, << >>, << >>) EXCEPT !.filled = FALSE]

Prestart == Other("prestart", 7)

MCFiles == { << Prestart, Full >>, << Sparse >>, << Empty, Malformed >>,
             << WrongROC >>, << Other("control", 0), Other("other", 0), WrongCount >>, << Silent, Unbuilt >> }

Line(roc, slot, bank) == [kind |-> "row", roc |-> roc, slot |-> slot, module |-> 0, bank |-> bank]

Comment == [kind |-> "blank"]

\* Of r2 one bank is in the filter database, and of r3 none.  The additional
\* file repeats a row, names a second slot, and adds banks to both ROCs.
Core == << Comment, Line(r1, 3, adc), Line(r2, 4, adc) >>

Additional == << Line(r1, 3, adc), Line(r1, 5, adc), Comment, Line(r1, 3, scaler),
                 Line(r1, 3, junk) >>

Routes == (adc :> m1) @@ (scaler :> m2) @@ (junk :> NoModule)

Setup(files, second) ==
    [files |-> files, routes |-> Routes, parsers |-> (m1 :> p1) @@ (m2 :> second)]

\* A layered filter; no filter and a parser missing; a filter file refused.
MCSetups == { Setup(<< Core, Additional >>, p2),
              Setup(<< >>, NullParser),
              Setup(<< Core, << [kind |-> "malformed"] >> >>, p2) }

=============================================================================

--------------------------- MODULE EventProcessor ---------------------------
(***************************************************************************)
(* JEventProcessor_EVIO: writes the hits of every physics-level event to   *)
(* the trees and the histogram of a ROOT file and to a text file.  JANA2   *)
(* calls it for one event at a time, in the order in which the events      *)
(* arrive.  A row of a tree is filled from members of the processor, which *)
(* it empties by hand when the next event comes.                           *)
(*                                                                         *)
(* The hits of the CAEN1190 and of the scalers are made by their parsers   *)
(* (CAENParser, ScalerParsers); those of the other modules are given.      *)
(***************************************************************************)
EXTENDS CAENParser, ScalerParsers, SequencesExt

CONSTANT Readouts
    \* What may be read: sequences of blocks.  A block has the numbers of its
    \* first and last event, its CAEN1190 banks, the sizes of its FADC-scaler and
    \* TI-scaler banks, and the hits of the other kinds by event number.

HallBKinds == {"hallb_integral", "hallb_time", "hallb_peak"}

\* The kinds of hits that the text file lists, and all of them.
TextKinds == {"caen1190", "waveform", "pulse", "fadc_scaler", "ti_scaler", "mpd", "vftdc"}
                \cup HallBKinds

HitKinds == TextKinds \cup {"helicity"}

\* The hits of a kind that are given.  An address stands for rocid, slot and channel.
Waveforms == [address : Nat, samples : Seq(Nat)]

Pulses == [address : Nat, integral : Nat, pedestal : Nat]

GivenHits(kind) ==
    CASE kind = "waveform" -> Seq(Waveforms)
      [] kind = "pulse" -> Seq(Pulses)
      [] OTHER -> Seq(Nat)

IsBlock(block) ==
    /\ block.first \in Nat
    /\ block.caen \in Seq(Seq(CAENWords))
    /\ block.fadc \in Seq(Nat)
    /\ block.ti \in Seq(Nat)
    /\ \A n \in DOMAIN block.others : \A kind \in HitKinds :
          block.others[n][kind] \in GivenHits(kind)

ASSUME ReadoutsAreBlocks ==
    \A readout \in Readouts : \A b \in DOMAIN readout : IsBlock(readout[b])

\* The branches of the trees.  A branch stands for those that are filled from the
\* same word: slot for the slot and the event of a global header, chip for the
\* fields of a TDC header, address for rocid, slot and channel.
CAENColumns == {"measurement", "caen_slot", "chip", "flags", "trig_time", "trl_status"}

WaveformColumns == {"waveform", "waveform_address"}

PulseColumns == {"integral", "pulse_address"}

Columns == CAENColumns \cup WaveformColumns \cup PulseColumns

Trees == {"caen1190_tree", "waveform_tree", "pulse_tree", "m_tree"}

VARIABLES
    phase,      \* "created", "processing", "finished", or "failed"
    blocks,     \* what is read
    arriving,   \* the events that have not come to the processor
    columns,    \* the vectors that the branches point at
    last,       \* pedestal_sum and number_hit, the branches that are not vectors
    trees,      \* the rows filled so far
    histogram,  \* the integrals it was filled with
    textOpen,   \* whether the text file could be opened
    text,       \* its blocks
    written,    \* the trees saved to the ROOT file
    processed   \* history: the events in the order of ProcessSequential

vars == <<phase, blocks, arriving, columns, last, trees, histogram, textOpen, text, written,
          processed>>

-----------------------------------------------------------------------------
(* The events that are read.                                               *)

\* Neither parse throws or uses a null pointer.
IsDecodable(block) ==
    /\ \A i \in DOMAIN block.caen : ~ParseCAEN(block.caen[i], block.first).broken
    /\ \A i \in DOMAIN block.ti : IsSoundTI(block.ti[i])

ScalerNumbers(block) == IF block.fadc = << >> /\ block.ti = << >> THEN {} ELSE {block.last}

EventNumbers(block) ==
    UNION {DOMAIN ParseCAEN(block.caen[i], block.first).hits : i \in DOMAIN block.caen}
        \cup ScalerNumbers(block) \cup DOMAIN block.others

EventsOf(readout) ==
    UNION {{<<b, n>> : n \in EventNumbers(readout[b])} : b \in DOMAIN readout}

\* A hit is named by its word, which is named by the bank it is in.
CAENHitsIn(b, i, n) ==
    LET parsed == ParseCAEN(blocks[b].caen[i], blocks[b].first).hits
        Named(hit) == [word |-> <<b, i, hit.word>>, from |-> hit.from]
    IN  IF n \in DOMAIN parsed THEN [j \in DOMAIN parsed[n] |-> Named(parsed[n][j])] ELSE << >>

\* The hits of a block's scaler banks are the last event's.
ScalerHits(hits, b, n) == IF n = blocks[b].last THEN FlattenSeq(hits) ELSE << >>

HitsOf(e) ==
    LET b == e[1]
        n == e[2]
        block == blocks[b]
    IN  [kind \in HitKinds |->
            CASE kind = "caen1190" ->
                    FlattenSeq([i \in DOMAIN block.caen |-> CAENHitsIn(b, i, n)])
              [] kind = "fadc_scaler" ->
                    ScalerHits([i \in DOMAIN block.fadc |-> FADCScalerHits(block.fadc[i])], b, n)
              [] kind = "ti_scaler" ->
                    ScalerHits([i \in DOMAIN block.ti |-> TIScalerHits(block.ti[i])], b, n)
              [] OTHER -> IF n \in DOMAIN block.others THEN block.others[n][kind] ELSE << >>]

-----------------------------------------------------------------------------

Init ==
    /\ phase = "created"
    /\ blocks \in {readout \in Readouts : \A b \in DOMAIN readout : IsDecodable(readout[b])}
    /\ arriving = EventsOf(blocks)
    /\ columns = [c \in Columns |-> << >>]
    /\ last = [pedestal |-> 0, nhits |-> 0]
    /\ trees = [t \in Trees |-> << >>]
    /\ histogram = << >>
    /\ textOpen = FALSE
    /\ text = << >>
    /\ written = << >>
    /\ processed = << >>

\* Init.  It throws if ROOT cannot open its file; nobody looks at whether the text
\* file could be opened.
OpenOutputs ==
    /\ phase = "created"
    /\ phase' \in {"processing", "failed"}
    /\ textOpen' \in (IF phase' = "processing" THEN BOOLEAN ELSE {FALSE})
    /\ UNCHANGED <<blocks, arriving, columns, last, trees, histogram, text, written, processed>>

\* Faulty variant: one of the vectors is not emptied.
ClearedButFlags(c) == IF c = "flags" THEN columns[c] ELSE << >>

Cleared(c) == << >>

\* The loop over the CAEN1190 hits pushes one value to each of their columns.
CAENValues(hits, c) ==
    LET Value(hit) ==
            CASE c = "measurement" -> hit.word
              [] c = "caen_slot" -> hit.from["global_header"]
              [] c = "chip" -> hit.from["tdc_header"]
              [] c = "flags" -> hit.from["tdc_error"]
              [] c = "trig_time" -> hit.from["trigger_time"]
              [] c = "trl_status" -> hit.from["global_trailer"]
    IN  [j \in DOMAIN hits |-> Value(hits[j])]

\* Every sample of a waveform has the address of its waveform beside it.
WaveformValues(hits, c) ==
    FlattenSeq([j \in DOMAIN hits |->
        IF c = "waveform" THEN hits[j].samples ELSE [s \in DOMAIN hits[j].samples |-> hits[j].address]])

\* A pulse whose integral is 0 is in no row.
IsKept(pulse) == pulse.integral # 0

KeptPulses(pulses) ==
    FlattenSeq([j \in DOMAIN pulses |-> IF IsKept(pulses[j]) THEN << pulses[j] >> ELSE << >>])

PulseValues(hits, c) ==
    LET kept == KeptPulses(hits)
    IN  [j \in DOMAIN kept |-> IF c = "integral" THEN kept[j].integral ELSE kept[j].address]

Filled(hits) ==
    [c \in Columns |->
        Cleared(c) \o (CASE c \in CAENColumns -> CAENValues(hits["caen1190"], c)
                         [] c \in WaveformColumns -> WaveformValues(hits["waveform"], c)
                         [] c \in PulseColumns -> PulseValues(hits["pulse"], c))]

\* Faulty variant: every pulse is counted.
NumberHitOfAll(pulses) == Len(pulses)

NumberHit(pulses) == Len(KeptPulses(pulses))

\* The pedestal is the one of the last pulse, whether that is in the row or not.
LastPulse(pulses) ==
    [pedestal |-> IF pulses = << >> THEN 0 ELSE pulses[Len(pulses)].pedestal,
     nhits    |-> NumberHit(pulses)]

Row(cols, names) == [c \in names |-> cols[c]]

\* Beside its vectors pulse_tree has two branches that are one value a row.
PulseRow(cols, scalars) ==
    [integral |-> cols["integral"], pulse_address |-> cols["pulse_address"],
     pedestal |-> scalars.pedestal, nhits |-> scalars.nhits]

\* Faulty variant: the condition before the text block leaves out a kind of hit.
IsListedWithoutCAEN(hits) == \E kind \in TextKinds \ {"caen1190"} : hits[kind] # << >>

IsListed(hits) == \E kind \in TextKinds : hits[kind] # << >>

Summary(e, hits) == [event |-> e, listed |-> [kind \in TextKinds |-> Len(hits[kind])]]

\* ProcessSequential.
Process(e) ==
    LET hits == HitsOf(e)
        filled == Filled(hits)
        scalars == LastPulse(hits["pulse"])
    IN  /\ phase = "processing"
        /\ e \in arriving
        /\ columns' = filled
        /\ last' = scalars
        /\ trees' = [trees EXCEPT
              !["caen1190_tree"] = Append(@, Row(filled, CAENColumns)),
              !["waveform_tree"] = Append(@, Row(filled, WaveformColumns)),
              !["pulse_tree"] = IF scalars.nhits > 0
                                THEN Append(@, PulseRow(filled, scalars)) ELSE @,
              !["m_tree"] = @ \o hits["helicity"]]
        /\ histogram' = histogram \o [j \in DOMAIN hits["pulse"] |-> hits["pulse"][j].integral]
        /\ text' = IF textOpen /\ IsListed(hits) THEN Append(text, Summary(e, hits)) ELSE text
        /\ arriving' = arriving \ {e}
        /\ processed' = Append(processed, e)
        /\ UNCHANGED <<phase, blocks, textOpen, written>>

\* Finish, which may come before all events have: a limit on their number or a
\* signal ends the processing.
Finish ==
    /\ phase = "processing"
    /\ phase' = "finished"
    /\ written' = trees
    /\ UNCHANGED <<blocks, arriving, columns, last, trees, histogram, textOpen, text, processed>>

Next ==
    \/ OpenOutputs
    \/ \E e \in arriving : Process(e)
    \/ Finish

Spec == Init /\ [][Next]_vars

-----------------------------------------------------------------------------
(* Properties.                                                             *)

\* The numbers of a sequence that are not 0, and what they add up to.
Nonzero(s) == FlattenSeq([k \in DOMAIN s |-> IF s[k] = 0 THEN << >> ELSE << s[k] >>])

Total(s) ==
    LET sum[k \in 0..Len(s)] == IF k = 0 THEN 0 ELSE sum[k - 1] + s[k]
    IN  sum[Len(s)]

\* Type invariant of JEventProcessor_EVIO: each branch of a row has the length of
\* the tree's other branches, and a closed text file stays empty.
TypeOK ==
    /\ phase \in {"created", "processing", "finished", "failed"}
    /\ blocks \in Readouts
    /\ arriving \subseteq EventsOf(blocks)
    /\ DOMAIN columns = Columns
    /\ DOMAIN trees = Trees
    /\ \A c \in Columns \ PulseColumns : Len(columns[c]) = Len(columns[IF c \in CAENColumns
                                                       THEN "measurement" ELSE "waveform"])
    /\ ~textOpen => text = << >>
    /\ phase = "finished" => written = trees

\* The n-th rows of caen1190_tree and of waveform_tree are the n-th event's: they
\* hold its hits, all of them and no other's, with each value in line with the
\* word or the waveform it belongs to (ProcessSequential, clear and push_back).
RowsAreOfOneEvent ==
    /\ Len(trees["caen1190_tree"]) = Len(processed)
    /\ Len(trees["waveform_tree"]) = Len(processed)
    /\ \A n \in DOMAIN processed :
          LET row == trees["caen1190_tree"][n]
              samples == trees["waveform_tree"][n]
              hits == HitsOf(processed[n])
          IN  /\ \A c \in CAENColumns : Len(row[c]) = Len(hits["caen1190"])
              /\ \A j \in DOMAIN hits["caen1190"] :
                    /\ row["measurement"][j] = hits["caen1190"][j].word
                    /\ row["flags"][j] = hits["caen1190"][j].from["tdc_error"]
                    /\ row["trig_time"][j] = hits["caen1190"][j].from["trigger_time"]
              /\ Len(samples["waveform"]) = Len(samples["waveform_address"])
              /\ {<<samples["waveform_address"][j], samples["waveform"][j]>> :
                     j \in DOMAIN samples["waveform"]}
                    = UNION {{<<h.address, s>> : s \in Range(h.samples)} : h \in Range(hits["waveform"])}

\* The histogram and pulse_tree tell of the same pulses: the integrals in the rows,
\* one after the other, are what the histogram was filled with, but for the zeros,
\* and each row says how many it holds.  An event without a pulse to keep has no
\* row (ProcessSequential, the two loops over the pulse hits).
PulsesAreAccountedFor ==
    LET rows == trees["pulse_tree"]
    IN  /\ FlattenSeq([n \in DOMAIN rows |-> rows[n]["integral"]]) = Nonzero(histogram)
        /\ \A n \in DOMAIN rows : rows[n].nhits = Len(rows[n]["integral"]) /\ rows[n].nhits > 0
        /\ Len(rows) = Cardinality({n \in DOMAIN processed :
                            \E h \in Range(HitsOf(processed[n])["pulse"]) : h.integral # 0})

\* The text file and the trees agree: in the order of the events, the text lists as
\* many CAEN1190 hits as the rows that have one hold, and as many pulses as the
\* histogram was filled with, whatever events the text leaves out (ProcessSequential,
\* the text dump).
TextListsWhatTreesHold ==
    textOpen =>
        LET rows == trees["caen1190_tree"]
            Listed(kind) == [n \in DOMAIN text |-> text[n].listed[kind]]
        IN  /\ Nonzero(Listed("caen1190"))
                  = Nonzero([n \in DOMAIN rows |-> Len(rows[n]["measurement"])])
            /\ Total(Listed("pulse")) = Len(histogram)

\* The README of the plugin says that the text file omits events with no hits at all:
\* an event that has a hit of any kind is in it (ProcessSequential, the text dump).
TextListsEveryEventWithHits ==
    textOpen =>
        \A n \in DOMAIN processed :
            (\E kind \in HitKinds : HitsOf(processed[n])[kind] # << >>)
                => \E k \in DOMAIN text : text[k].event = processed[n]

\* The places of the finished caen1190_tree that hold a measurement.
PlacesOf(word) ==
    LET rows == written["caen1190_tree"]
    IN  UNION {{<<n, j>> : j \in {j \in DOMAIN rows[n]["measurement"] :
                                    rows[n]["measurement"][j] = word}} : n \in DOMAIN rows}

\* The file of a complete processing has each CAEN1190 measurement of each bank
\* once, in a row of the bank's own block.  What follows one global header is in one
\* row, and what follows the bank's first header is in the row of the block's first
\* event (ModuleParser_CAEN1190::parse, ProcessSequential).
MeasurementsReachOneRow ==
    phase = "finished" /\ arriving = {} =>
        \A b \in DOMAIN blocks : \A i \in DOMAIN blocks[b].caen :
            LET bank == blocks[b].caen[i]
                rows == written["caen1190_tree"]
                measurements == {p \in DOMAIN bank : bank[p] = "measurement"}
                Header(p) == LastBefore(bank, "global_header", p)
            IN  \A p \in measurements : \E n \in DOMAIN rows :
                    /\ processed[n][1] = b
                    /\ Header(Header(p)) = 0 => processed[n][2] = blocks[b].first
                    /\ \A q \in measurements : Header(q) = Header(p) =>
                          \E j \in DOMAIN rows[n]["measurement"] :
                              PlacesOf(<<b, i, q>>) = {<<n, j>>}

\* The README of evio_parser says that an event's number is first_event_number plus
\* the index of the event.  In a regular bank with as many global headers as its block
\* has events, the k-th header begins the k-th event (ModuleParser_CAEN1190::parse).
MeasurementsAreNumbered ==
    phase = "finished" =>
        \A n \in DOMAIN written["caen1190_tree"] :
            \A word \in Range(written["caen1190_tree"][n]["measurement"]) :
                LET block == blocks[word[1]]
                    bank == block.caen[word[2]]
                    headers == {q \in DOMAIN bank : bank[q] = "global_header"}
                IN  IsRegularCAEN(bank) /\ Cardinality(headers) = block.last - block.first + 1
                    => processed[n][2]
                          = block.first + Cardinality({q \in headers : q < word[3]}) - 1

\* In a row of caen1190_tree a hit of a regular bank has the chip and the event ID
\* of the TDC header of its own chip in its own event, and the slot of its own
\* global header.  The trailer status beside it is an earlier event's, if any
\* (ModuleParser_CAEN1190::parse copies what it read last).
CAENHitsKnowTheirChip ==
    \A n \in DOMAIN trees["caen1190_tree"] :
        LET row == trees["caen1190_tree"][n]
        IN  \A j \in DOMAIN row["measurement"] :
                LET b == row["measurement"][j][1]
                    bank == blocks[b].caen[row["measurement"][j][2]]
                    p == row["measurement"][j][3]
                IN  IsRegularCAEN(bank) =>
                        /\ bank[row["caen_slot"][j]] = "global_header"
                        /\ bank[row["chip"][j]] = "tdc_header"
                        /\ \A q \in row["caen_slot"][j]..p : bank[q] # "global_trailer"
                        /\ \A q \in row["chip"][j]..p : bank[q] # "tdc_trailer"
                        /\ row["caen_slot"][j] < row["chip"][j]
                        /\ row["trl_status"][j] < row["caen_slot"][j]

=============================================================================

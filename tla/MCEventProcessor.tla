-------------------------- MODULE MCEventProcessor --------------------------
(* Small instances of EventProcessor: every CAEN1190 bank of at most three *)
(* words, pairs of regular banks, and two readouts with hits of all kinds. *)
EXTENDS EventProcessor

NoHits == [kind \in HitKinds |-> << >>]

NoOthers == << >>

Block(first, size, caen, fadc, ti, others) ==
    [first |-> first, last |-> first + size - 1, caen |-> caen, fadc |-> fadc, ti |-> ti,
     others |-> others]

CAENOnly(size, banks) == << Block(5, size, banks, << >>, << >>, NoOthers) >>

Short == UNION {[1..k -> CAENWords] : k \in 0..3}

Chip(body) == << "tdc_header" >> \o body \o << "tdc_trailer" >>

CAENEvent(chips) ==
    << "global_header" >> \o chips \o << "trigger_time", "global_trailer", "filler" >>

Chips == { << >>, Chip(<< "measurement" >>),
           Chip(<< "tdc_error", "measurement" >>) \o Chip(<< "measurement", "measurement" >>) }

\* One or two events of one module, or an event of each of two.
RegularBanks ==
    {CAENEvent(c) : c \in Chips} \cup {CAENEvent(c) \o CAENEvent(d) : c, d \in Chips}

\* Two modules whose events are not ended before the next begins.
Untrailed == << "global_header", "tdc_header", "measurement", "global_header", "measurement" >>

Wave(address, samples) == [address |-> address, samples |-> samples]

Pulse(address, integral, pedestal) ==
    [address |-> address, integral |-> integral, pedestal |-> pedestal]

Hits(waveforms, pulses, helicity, others) ==
    [kind \in HitKinds |->
        CASE kind = "waveform" -> waveforms
          [] kind = "pulse" -> pulses
          [] kind = "helicity" -> helicity
          [] kind \in {"mpd", "hallb_peak"} -> others
          [] OTHER -> << >>]

OneEvent == << "global_header", "tdc_header", "measurement", "tdc_trailer", "global_trailer" >>

\* An event of helicity only, one with two waveforms and a pulse to keep, one whose
\* pulses are all zero, one that ends in a zero.  The second block's first
\* number is one that the first block's untrailed bank has reached.
Mixed ==
    << Block(1, 2, << Untrailed, OneEvent >>, << 18, 0 >>, << 13 >>,
             (1 :> Hits(<< >>, << >>, << 1 >>, << >>)) @@
             (2 :> Hits(<< Wave(1, <<1, 2>>), Wave(2, <<3>>) >>, << Pulse(1, 4, 1) >>, << >>, << 1 >>))),
       Block(3, 1, << >>, << >>, << 14 >>,
             (3 :> Hits(<< Wave(2, <<2, 2>>) >>, << Pulse(2, 0, 2), Pulse(1, 0, 3) >>, << >>, << >>)) @@
             (4 :> Hits(<< >>, << Pulse(1, 5, 1), Pulse(2, 6, 2), Pulse(2, 0, 3) >>, << 2, 3 >>, << >>))) >>

HelicityOnly ==
    << Block(1, 2, << CAENEvent(Chip(<<"tdc_error", "measurement">>)) >>, << >>, << >>,
             (1 :> Hits(<< >>, << >>, << 1 >>, << >>)) @@ (2 :> Hits(<< >>, << >>, << 2 >>, << >>))),
       Block(2, 1, << OneEvent >>, << 17 >>, << >>, (2 :> NoHits)) >>

\* The last readout has a bank that no readout may have.
MCReadouts ==
    {CAENOnly(1, << bank >>) : bank \in Short}
        \cup {CAENOnly(2, << bank, other >>) : bank, other \in RegularBanks}
        \cup { Mixed, HelicityOnly, << Block(1, 1, << >>, << >>, << 12 >>, NoOthers) >> }

=============================================================================

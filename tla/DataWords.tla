------------------------------ MODULE DataWords ------------------------------
(***************************************************************************)
(* The 32-bit words of a data bank as the module parsers tell them apart,  *)
(* and what a regular bank is.  A word with bit 31 set defines its type;   *)
(* one without continues the word before it.  A bank is a sequence of      *)
(* blocks, one per module in the crate: a block header that announces a    *)
(* number of events, then for each event an event header and its data      *)
(* words, then a block trailer.                                            *)
(***************************************************************************)
EXTENDS Integers, Sequences, FiniteSets, FiniteSetsExt

\* "data" is a hit in one word, "waveform" is followed by samples, "pulse" by
\* pairs and "frame" by triples of words; "other" is any other defining type.
WordTypes == {"block_header", "block_trailer", "event_header", "trigger_time",
              "data", "waveform", "pulse", "frame", "continuation", "other"}

\* n is the number of events of a block header, of samples of a waveform, of
\* valid samples in a continuation word, and of the words that follow a data
\* word of the helicity decoder.
Words == [type : WordTypes, slot : Nat, n : Nat]

-----------------------------------------------------------------------------

IsContinuation(bank, p) == p \in DOMAIN bank /\ bank[p].type = "continuation"

\* How many continuation words follow position p.
Following(bank, p) ==
    Max({k \in 0..Len(bank) : \A i \in 1..k : IsContinuation(bank, p + i)})

\* parsePulseData: the pairs of continuation words that follow.
Pairs(bank, p) == Following(bank, p) \div 2

\* The MPD's loop over triples looks at the first word of each, and beyond the
\* last; the positions where it can stop.
TripleEnds(bank, p) ==
    {k \in 0..Len(bank) : p + 3 * k < Len(bank) /\ ~IsContinuation(bank, p + 3 * k + 1)}

\* parseWaveformData's checks.
SampleWords(bank, p) == (bank[p].n + 1) \div 2

IsWholeWaveform(bank, p) ==
    LET k == SampleWords(bank, p)
        Valid(i) == bank[p + i].n
    IN  /\ \A i \in 1..k : IsContinuation(bank, p + i)
        /\ MapThenSumSet(Valid, 1..k) = bank[p].n


-----------------------------------------------------------------------------
(* Regular banks, and what their words belong to.                          *)

Blocks(bank, p) == {q \in 1..p : bank[q].type = "block_header"}

\* The position of the header of the block that position p is in, or after.
BlockOf(bank, p) == Max(Blocks(bank, p))

\* Is the block open at p: header passed, trailer not yet?
InBlock(bank, p) ==
    /\ Blocks(bank, p - 1) # {}
    /\ \A q \in BlockOf(bank, p - 1)..(p - 1) : bank[q].type # "block_trailer"

\* How many event headers of its block there are up to position p.
Ordinal(bank, p) ==
    Cardinality({q \in BlockOf(bank, p)..p : bank[q].type = "event_header"})

IsRegular(bank) ==
    /\ bank # << >> => ~InBlock(bank, Len(bank) + 1)
    /\ \A p \in DOMAIN bank :
          LET word == bank[p]
              header == bank[BlockOf(bank, p)]
          IN  CASE word.type = "block_header" -> ~InBlock(bank, p)
                [] word.type = "block_trailer" -> /\ InBlock(bank, p)
                                                  /\ word.slot = header.slot
                                                  /\ Ordinal(bank, p) = header.n
                [] word.type = "event_header" -> /\ InBlock(bank, p)
                                                 /\ word.slot = header.slot
                                                 /\ Ordinal(bank, p) <= header.n
                [] word.type \in {"other", "continuation"} -> TRUE
                [] OTHER -> /\ InBlock(bank, p)
                            /\ Ordinal(bank, p) > 0
                            /\ word.type = "trigger_time" => IsContinuation(bank, p + 1)
                            /\ word.type = "waveform" => IsWholeWaveform(bank, p)
                            /\ word.type = "frame" => Following(bank, p) % 3 = 0

=============================================================================

---------------------------- MODULE BlockParsers ----------------------------
(***************************************************************************)
(* The module parsers that follow blocks: ModuleParser_FADC, _VFTDC and    *)
(* _MPD.  parse walks the words of one data bank, from a block header down *)
(* to its trailer, and collects the hits of each event in a map by event   *)
(* number, so that the blocks of several modules share their events.       *)
(*                                                                         *)
(* The parsers differ in the words they read, and in which of an event     *)
(* header's and a block trailer's slot they check.  A word that a parser   *)
(* does not read it passes over.  Where parse reads beyond the bank, or    *)
(* uses a null pointer, its outcome is "undefined": anything may follow.   *)
(*                                                                         *)
(* An action is one turn of parse's loop.                                  *)
(***************************************************************************)
EXTENDS DataWords

CONSTANTS Parsers,    \* a subset of {"FADC", "VFTDC", "MPD"}
          Banks,      \* what a data bank may hold
          FirstEvent  \* trigger_data.first_event_number

ASSUME BanksAreWords == Banks \subseteq Seq(Words)
ASSUME ParsersAreKnown == Parsers \subseteq {"FADC", "VFTDC", "MPD"}
ASSUME FirstEventIsNat == FirstEvent \in Nat

VARIABLES
    parser,   \* whose parse it is
    bank,     \* data_words
    j,        \* the loop variable, from 1
    slot,     \* block_slot
    nevents,  \* block_nevents, -1 outside a block
    index,    \* event_index
    number,   \* event_number
    hits,     \* event_hits_map: the hits of each event, in order
    outcome,  \* "parsing" as long as the loop runs
    heads     \* history: the positions at which a turn of the loop began

wordVars == <<slot, nevents, index, number, hits>>

vars == <<parser, bank, j, wordVars, outcome, heads>>

Init ==
    /\ parser \in Parsers
    /\ bank \in Banks
    /\ j = 1
    /\ slot = 0
    /\ nevents = -1
    /\ index = 0
    /\ number = 0
    /\ hits = << >>
    /\ outcome = "parsing"
    /\ heads = {}

-----------------------------------------------------------------------------

\* The loop is at a word of the type.
At(type) == outcome = "parsing" /\ j \in DOMAIN bank /\ bank[j].type = type

\* The turn ends and the next is at the k-th word from here.
Advance(k) ==
    /\ j' = j + k
    /\ heads' = heads \cup {j}
    /\ UNCHANGED <<parser, bank, outcome>>

\* The turn is the last.
Stop(how) ==
    /\ outcome' = how
    /\ UNCHANGED <<parser, bank, j, wordVars, heads>>

BlockHeader ==
    /\ At("block_header")
    /\ slot' = bank[j].slot
    /\ nevents' = bank[j].n
    /\ UNCHANGED <<index, number, hits>>
    /\ Advance(1)

\* Only the MPD compares the trailer's slot.
\* (In the faulty variant a block may end before all its events are read.)
TrailerFitsUnchecked == parser = "MPD" => bank[j].slot = slot

TrailerFits ==
    /\ nevents = 0
    /\ parser = "MPD" => bank[j].slot = slot

\* event_index starts again with the next block.
\* (In the faulty variant the next block continues this one's numbering.)
IndexAfterBlockContinuing == index

IndexAfterBlock == 0

BlockTrailer ==
    /\ At("block_trailer")
    /\ IF TrailerFits
       THEN /\ nevents' = -1
            /\ index' = IndexAfterBlock
            /\ UNCHANGED <<slot, number, hits>>
            /\ Advance(1)
       ELSE Stop("thrown")

\* Only the MPD does not compare the event header's slot.
\* (In the faulty variants block_nevents is compared off by one, either way.)
HeaderFitsStrict == nevents > 1 /\ (parser # "MPD" => bank[j].slot = slot)

HeaderFitsLoose == nevents >= -1 /\ (parser # "MPD" => bank[j].slot = slot)

HeaderFits ==
    /\ nevents > 0
    /\ parser # "MPD" => bank[j].slot = slot

\* (In the faulty variant event_index is incremented first.)
EventNumberAfter == FirstEvent + index + 1

EventNumber == FirstEvent + index

\* An event that another block has begun is continued.
Opened(n) == [m \in DOMAIN hits \cup {n} |-> IF m \in DOMAIN hits THEN hits[m] ELSE << >>]

EventHeader ==
    /\ At("event_header")
    /\ IF HeaderFits
       THEN /\ nevents' = nevents - 1
            /\ number' = EventNumber
            /\ index' = index + 1
            /\ hits' = Opened(EventNumber)
            /\ UNCHANGED slot
            /\ Advance(1)
       ELSE Stop("thrown")

\* The time stamp goes on in the next word, whatever that is.
TriggerTime ==
    /\ At("trigger_time")
    /\ IF nevents < 0 THEN Stop("thrown")
       ELSE IF j = Len(bank) THEN Stop("undefined")
       ELSE Advance(2) /\ UNCHANGED wordVars

\* The hits of this turn are appended to those of the current event, through
\* the pointer that event_hits_map[event_number] is.
Credit(count, k) ==
    IF count > 0 /\ number \notin DOMAIN hits
    THEN Stop("undefined")
    ELSE /\ hits' = IF count = 0 THEN hits
                    ELSE [hits EXCEPT ![number] = @ \o [i \in 1..count |-> <<j, i>>]]
         /\ UNCHANGED <<slot, nevents, index, number>>
         /\ Advance(k)

\* FADC: pulse integral, time and peak; VFTDC: data word.
DataWord ==
    /\ At("data")
    /\ parser \in {"FADC", "VFTDC"}
    /\ IF nevents < 0 THEN Stop("thrown") ELSE Credit(1, 1)

\* FADC: waveform data.
Waveform ==
    /\ At("waveform")
    /\ parser = "FADC"
    /\ IF nevents < 0 \/ ~IsWholeWaveform(bank, j)
       THEN Stop("thrown")
       ELSE Credit(1, 1 + SampleWords(bank, j))

\* FADC: pulse raw data.
Pulse ==
    /\ At("pulse")
    /\ parser = "FADC"
    /\ IF nevents < 0 THEN Stop("thrown")
       ELSE Credit(Pairs(bank, j), 1 + 2 * Pairs(bank, j))

\* MPD: an MPD frame.
Frame ==
    /\ At("frame")
    /\ parser = "MPD"
    /\ IF nevents < 0 THEN Stop("thrown")
       ELSE IF TripleEnds(bank, j) = {} THEN Stop("undefined")
       ELSE LET count == Min(TripleEnds(bank, j))
            IN  Credit(count, 1 + 3 * count)

\* The words that a parser passes over.
PassedOver ==
    CASE parser = "FADC" -> {"continuation", "other", "frame"}
      [] parser = "VFTDC" -> {"continuation", "other", "frame", "waveform", "pulse"}
      [] parser = "MPD" -> {"continuation", "other", "data", "waveform", "pulse"}

PassOver ==
    /\ \E type \in PassedOver : At(type)
    /\ UNCHANGED wordVars
    /\ Advance(1)

\* After the loop, a PhysicsEvent is appended for each event of the map.
Finish ==
    /\ outcome = "parsing"
    /\ j \notin DOMAIN bank
    /\ Stop("done")

Next ==
    \/ BlockHeader
    \/ BlockTrailer
    \/ EventHeader
    \/ TriggerTime
    \/ DataWord
    \/ Waveform
    \/ Pulse
    \/ Frame
    \/ PassOver
    \/ Finish

Spec == Init /\ [][Next]_vars

-----------------------------------------------------------------------------

TypeOK ==
    /\ parser \in Parsers
    /\ bank \in Banks
    /\ j \in Nat \ {0}
    /\ slot \in Nat
    /\ nevents \in Nat \cup {-1}
    /\ index \in Nat
    /\ number \in Nat
    /\ \A n \in DOMAIN hits : n \in Nat /\ hits[n] \in Seq(Nat \X Nat)
    /\ outcome \in {"parsing", "done", "thrown", "undefined"}
    /\ heads \subseteq 1..(j - 1)

(* The events of a bank are numbered without a gap from the first event of *)
(* the EVIO block, whatever the words are: however blocks follow each      *)
(* other, and also when a trailer is missing, no number is skipped.        *)
EventsAreContiguous ==
    \E n \in 0..Len(bank) :
        /\ DOMAIN hits = FirstEvent..(FirstEvent + n - 1)
        /\ index <= n

(* A regular bank is neither refused nor read beyond its end.              *)
RegularBanksAreAccepted == IsRegular(bank) => outcome \in {"parsing", "done"}

\* The hits that the word at p of a regular bank makes.
HitsAt(p) ==
    CASE bank[p].type = "data" -> IF parser = "MPD" THEN 0 ELSE 1
      [] bank[p].type = "waveform" -> IF parser = "FADC" THEN 1 ELSE 0
      [] bank[p].type = "pulse" -> IF parser = "FADC" THEN Pairs(bank, p) ELSE 0
      [] bank[p].type = "frame" -> IF parser = "MPD" THEN Following(bank, p) \div 3 ELSE 0
      [] OTHER -> 0

(* Every hit of a regular bank is credited once, to the event whose place  *)
(* in its block is the place of the event header before the hit; so blocks *)
(* of several modules merge event by event, and no hit is lost at the end. *)
HitsAreCredited ==
    IsRegular(bank) =>
        /\ \A n \in DOMAIN hits :
              /\ \A k \in DOMAIN hits[n] : n = FirstEvent + Ordinal(bank, hits[n][k][1]) - 1
              /\ \A k, l \in DOMAIN hits[n] :
                    k < l => \/ hits[n][k][1] < hits[n][l][1]
                             \/ hits[n][k][1] = hits[n][l][1] /\ hits[n][k][2] < hits[n][l][2]
        /\ \A p \in 1..(j - 1) : HitsAt(p) =
              Cardinality(UNION {{<<n, k>> : k \in {l \in DOMAIN hits[n] : hits[n][l][1] = p}} :
                                    n \in DOMAIN hits})

\* The last word of a type that the loop has read before position p.
LastRead(type, p) == {q \in heads : q < p /\ bank[q].type = type}

(* A block that the parser has let end had exactly the events that its     *)
(* header announced, in every bank, regular or not.                        *)
EndedBlocksAreWhole ==
    \A p \in {q \in heads : bank[q].type = "block_trailer"} :
        /\ LastRead("block_header", p) # {}
        /\ LET header == Max(LastRead("block_header", p))
           IN  Cardinality({q \in LastRead("event_header", p) : q > header}) = bank[header].n

(* The exceptions of the data words say that such a word "before block &   *)
(* event header" is invalid: a hit is only credited after an event header  *)
(* of its own block has been read.                                         *)
HitsFollowTheirEventHeader ==
    \A n \in DOMAIN hits : \A k \in DOMAIN hits[n] :
        LET p == hits[n][k][1]
        IN  \E q \in LastRead("event_header", p) : \A b \in LastRead("block_header", p) : b < q

=============================================================================

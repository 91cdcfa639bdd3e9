--------------------------- MODULE HelicityParser ---------------------------
(***************************************************************************)
(* ModuleParser_HelicityDecoder::parse.  It follows blocks like the        *)
(* parsers of BlockParsers, but keeps no map: the hits of an event are     *)
(* held back, and appended as a PhysicsEvent when the next event header is *)
(* read, or when the block trailer is the last word of the bank.           *)
(*                                                                         *)
(* An action is one turn of parse's loop.                                  *)
(***************************************************************************)
EXTENDS DataWords, SequencesExt

CONSTANTS Banks,      \* what a data bank may hold
          FirstEvent, \* trigger_data.first_event_number
          None        \* nullptr

ASSUME BanksAreWords == Banks \subseteq Seq(Words)
ASSUME FirstEventIsNat == FirstEvent \in Nat
ASSUME NoneIsNoEvent == None \notin [header : Nat, hits : Seq(Nat)]

VARIABLES
    bank,     \* data_words
    j,        \* the loop variable, from 1
    slot,     \* block_slot
    nevents,  \* block_nevents, -1 outside a block
    index,    \* event_index
    pending,  \* event_hits: the event header it was made at, and its hits
    appended, \* the PhysicsEvents appended to physics_events
    outcome,  \* "parsing" as long as the loop runs
    heads     \* history: the positions at which a turn of the loop began

blockVars == <<slot, nevents, index>>
eventVars == <<pending, appended>>

vars == <<bank, j, blockVars, eventVars, outcome, heads>>

Init ==
    /\ bank \in Banks
    /\ j = 1
    /\ slot = 0
    /\ nevents = -1
    /\ index = 0
    /\ pending = None
    /\ appended = << >>
    /\ outcome = "parsing"
    /\ heads = {}

-----------------------------------------------------------------------------

At(type) == outcome = "parsing" /\ j \in DOMAIN bank /\ bank[j].type = type

Advance(k) ==
    /\ j' = j + k
    /\ heads' = heads \cup {j}
    /\ UNCHANGED <<bank, outcome>>

Stop(how) ==
    /\ outcome' = how
    /\ UNCHANGED <<bank, j, blockVars, eventVars, heads>>

\* new PhysicsEvent(first_event_number + event_index, event_hits).
Completed ==
    IF pending = None THEN appended
    ELSE Append(appended, [num |-> FirstEvent + index, header |-> pending.header,
                           hits |-> pending.hits])

BlockHeader ==
    /\ At("block_header")
    /\ slot' = bank[j].slot
    /\ nevents' = bank[j].n
    /\ UNCHANGED <<index, eventVars>>
    /\ Advance(1)

\* No event header follows to append the last event of the block.
\* (In the faulty variant that is believed of every trailer.)
IsLastAlways == TRUE

IsLast == j = Len(bank)

BlockTrailer ==
    /\ At("block_trailer")
    /\ IF nevents # 0 THEN Stop("thrown")
       ELSE /\ nevents' = -1
            /\ appended' = IF IsLast THEN Completed ELSE appended
            /\ index' = 0
            /\ UNCHANGED <<slot, pending>>
            /\ Advance(1)

\* (In the faulty variants block_nevents is compared off by one, either way.)
HeaderFitsStrict == nevents > 1 /\ bank[j].slot = slot

HeaderFitsLoose == nevents >= -1 /\ bank[j].slot = slot

HeaderFits == nevents > 0 /\ bank[j].slot = slot

\* (In the faulty variant the index counts the headers, not the events.)
NextIndexAlways == index + 1

NextIndex == IF pending = None THEN index ELSE index + 1

\* The event before is appended even if this header then is refused.
EventHeader ==
    /\ At("event_header")
    /\ appended' = Completed
    /\ index' = NextIndex
    /\ IF HeaderFits
       THEN /\ nevents' = nevents - 1
            /\ pending' = [header |-> j, hits |-> << >>]
            /\ UNCHANGED slot
            /\ Advance(1)
       ELSE /\ outcome' = "thrown"
            /\ UNCHANGED <<bank, j, slot, nevents, pending, heads>>

\* The time stamp goes on in the next word, whatever that is.
TriggerTime ==
    /\ At("trigger_time")
    /\ IF nevents < 0 THEN Stop("thrown")
       ELSE IF j = Len(bank) THEN Stop("undefined")
       ELSE Advance(2) /\ UNCHANGED <<blockVars, eventVars>>

\* A decoder data header: parseDecoderData takes the words that it announces,
\* as far as there are any; the hit is appended through event_hits.
DataWord ==
    /\ At("data")
    /\ IF nevents < 0 THEN Stop("thrown")
       ELSE IF pending = None THEN Stop("undefined")
       ELSE /\ pending' = [pending EXCEPT !.hits = Append(@, j)]
            /\ UNCHANGED <<blockVars, appended>>
            /\ Advance(1 + bank[j].n)

PassOver ==
    /\ \E type \in {"continuation", "other", "waveform", "pulse", "frame"} : At(type)
    /\ UNCHANGED <<blockVars, eventVars>>
    /\ Advance(1)

Finish ==
    /\ outcome = "parsing"
    /\ j \notin DOMAIN bank
    /\ Stop("done")

Next ==
    \/ BlockHeader
    \/ BlockTrailer
    \/ EventHeader
    \/ TriggerTime
    \/ DataWord
    \/ PassOver
    \/ Finish

Spec == Init /\ [][Next]_vars

-----------------------------------------------------------------------------

TypeOK ==
    /\ bank \in Banks
    /\ j \in Nat \ {0}
    /\ slot \in Nat
    /\ nevents \in Nat \cup {-1}
    /\ index \in Nat
    /\ pending \in [header : Nat, hits : Seq(Nat)] \cup {None}
    /\ appended \in Seq([num : Nat, header : Nat, hits : Seq(Nat)])
    /\ outcome \in {"parsing", "done", "thrown", "undefined"}
    /\ heads \subseteq 1..(j - 1)

\* Regular for this parser: every data word is followed by its words.
IsRegularHelicity ==
    /\ IsRegular(bank)
    /\ \A p \in DOMAIN bank :
          bank[p].type = "data" => \A i \in 1..bank[p].n : IsContinuation(bank, p + i)

EventHeaders == {p \in heads : bank[p].type = "event_header"}

(* Every event header but the last starts an event that is appended before *)
(* the next one is, and no event is appended twice, in any bank at all.    *)
EventsAreAppendedInOrder ==
    LET done == {appended[k].header : k \in DOMAIN appended}
    IN  /\ \A k, l \in DOMAIN appended : k < l => appended[k].header < appended[l].header
        /\ done \subseteq EventHeaders
        /\ \A p \in EventHeaders \ done : \A q \in EventHeaders : q <= p

(* A regular bank is neither refused nor read beyond its end.              *)
RegularBanksAreAccepted == IsRegularHelicity => outcome \in {"parsing", "done"}

(* In a bank of one block every event that is appended has the number of   *)
(* its place and exactly its hits.  If the trailer is the very last word,  *)
(* all events of the block are.                                            *)
OneBlockIsExact ==
    /\ IsRegularHelicity
    /\ Cardinality(Blocks(bank, Len(bank))) = 1
    /\ bank[1].type = "block_header" /\ bank[1].n > 0
    => /\ \A k \in DOMAIN appended :
              /\ appended[k].num = FirstEvent + Ordinal(bank, appended[k].header) - 1
              /\ \A p \in heads : bank[p].type = "data" =>
                    (p \in Range(appended[k].hits) <=>
                        Ordinal(bank, p) = Ordinal(bank, appended[k].header))
       /\ outcome = "done" /\ bank[Len(bank)].type = "block_trailer" =>
              Len(appended) = bank[1].n

(* The README of the plugin asks that a parser produce at least one object *)
(* per block.  A regular bank that has an event gives a PhysicsEvent.      *)
RegularBanksYieldEvents ==
    IsRegularHelicity /\ outcome = "done" /\ EventHeaders # {} => appended # << >>

(* The README of the plugin says that a PhysicsEvent's number is the one   *)
(* computed from first_event_number and the index of the event.            *)
EventsAreNumbered ==
    IsRegularHelicity =>
        \A k \in DOMAIN appended :
            appended[k].num = FirstEvent + Ordinal(bank, appended[k].header) - 1

=============================================================================

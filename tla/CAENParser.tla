----------------------------- MODULE CAENParser -----------------------------
(***************************************************************************)
(* ModuleParser_CAEN1190::parse, as a function of the words of a bank.     *)
(* A module of the crate writes, for each event, a global header, for each *)
(* TDC chip a header, its measurements and a trailer, and then a global    *)
(* trailer.  The parser checks nothing of that: it keeps what it read last *)
(* of each kind of word and copies it into every hit it makes.             *)
(*                                                                         *)
(* A word is its type; what it says is stood for by its position.  So a    *)
(* hit is the position of its measurement, with the positions of the words *)
(* its other fields were copied from, 0 where none was read before.        *)
(***************************************************************************)
EXTENDS Integers, Sequences, FiniteSets, FiniteSetsExt

\* The slot, the chip and event ID, the flags, the trigger time and the status.
KeptWords == {"global_header", "tdc_header", "tdc_error", "trigger_time", "global_trailer"}

CAENWords == KeptWords \cup {"measurement", "tdc_trailer", "filler"}

-----------------------------------------------------------------------------

\* The parser's variables before the first word.  It is broken once it has
\* used the null pointer that event_hits_map[event_number] is before any header.
Begin == [last |-> [type \in KeptWords |-> 0], index |-> 0, number |-> 0, hits |-> << >>,
          broken |-> FALSE]

\* Faulty variant: the hits that the number has are not looked for.
OpenedAtAfresh(hits, n) ==
    [m \in DOMAIN hits \cup {n} |-> IF m # n THEN hits[m] ELSE << >>]

\* An event that another module has begun is continued.
OpenedAt(hits, n) ==
    [m \in DOMAIN hits \cup {n} |-> IF m \in DOMAIN hits THEN hits[m] ELSE << >>]

\* Faulty variant: a TDC header does not replace the one of the chip before.
KeptFirst(last, type, p) ==
    IF type = "tdc_header" /\ last[type] # 0 THEN last ELSE [last EXCEPT ![type] = p]

Kept(last, type, p) == [last EXCEPT ![type] = p]

\* One turn of the loop, at the word in position p.
Read(s, type, p, first) ==
    CASE type = "global_header" ->
            [s EXCEPT !.last = Kept(@, type, p), !.number = first + s.index,
                      !.index = @ + 1, !.hits = OpenedAt(@, first + s.index)]
      [] type = "global_trailer" ->
            [s EXCEPT !.last = Kept(@, type, p), !.index = 0]
      [] type = "measurement" ->
            IF s.number \in DOMAIN s.hits
            THEN [s EXCEPT !.hits[s.number] = Append(@, [word |-> p, from |-> s.last])]
            ELSE [s EXCEPT !.broken = TRUE]
      [] type \in {"tdc_header", "tdc_error", "trigger_time"} ->
            [s EXCEPT !.last = Kept(@, type, p)]
      [] type \in {"tdc_trailer", "filler"} -> s

\* The loop over the words of a bank; first is first_event_number.
ParseCAEN(bank, first) ==
    LET after[p \in 0..Len(bank)] == IF p = 0 THEN Begin ELSE Read(after[p - 1], bank[p], p, first)
    IN  after[Len(bank)]

-----------------------------------------------------------------------------
(* Regular banks.                                                          *)

\* The last word of the type before position p, or 0.
LastBefore(bank, type, p) == Max({0} \cup {q \in 1..(p - 1) : bank[q] = type})

InEvent(bank, p) ==
    LastBefore(bank, "global_header", p) > LastBefore(bank, "global_trailer", p)

InChip(bank, p) ==
    LastBefore(bank, "tdc_header", p) > LastBefore(bank, "tdc_trailer", p)

IsRegularCAEN(bank) ==
    /\ ~InEvent(bank, Len(bank) + 1)
    /\ \A p \in DOMAIN bank :
          CASE bank[p] = "global_header" -> ~InEvent(bank, p)
            [] bank[p] \in {"global_trailer", "tdc_header", "trigger_time"} ->
                  InEvent(bank, p) /\ ~InChip(bank, p)
            [] bank[p] \in {"tdc_trailer", "measurement", "tdc_error"} -> InChip(bank, p)
            [] OTHER -> TRUE

\* How many global headers there are between the last trailer and position p.
UntrailedBefore(bank, p) ==
    Cardinality({q \in (LastBefore(bank, "global_trailer", p) + 1)..(p - 1) :
                    bank[q] = "global_header"})

=============================================================================

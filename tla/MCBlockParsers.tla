--------------------------- MODULE MCBlockParsers ---------------------------
(* Small instances of BlockParsers: every bank of at most four words of    *)
(* eleven, every regular bank of at most two blocks of at most two events, *)
(* and each of the latter with one word missing.                           *)
EXTENDS BlockParsers

CONSTANTS s1, s2

Word(type, s, n) == [type |-> type, slot |-> s, n |-> n]

Header(s, n) == Word("block_header", s, n)

Trailer(s) == Word("block_trailer", s, 0)

Plain(type) == Word(type, s1, 0)

Samples(n) == Word("continuation", s1, n)

MCAlphabet ==
    { Header(s1, 1), Header(s2, 1), Header(s1, 2), Trailer(s1),
      Word("event_header", s1, 0), Plain("trigger_time"), Plain("data"),
      Word("waveform", s1, 2), Plain("pulse"), Plain("frame"), Samples(2) }

Short == UNION {[1..k -> MCAlphabet] : k \in 0..4}

\* The data words of an event.
Bodies ==
    { << >>,
      << Plain("trigger_time"), Samples(2), Plain("data"), Plain("data") >>,
      << Word("waveform", s1, 3), Samples(2), Samples(1), Plain("other") >>,
      << Plain("pulse"), Samples(0), Samples(2), Samples(2) >>,
      << Plain("frame") >> \o [i \in 1..6 |-> Samples(0)] }

Event(s, body) == << Word("event_header", s, 0) >> \o body

Block(s, events) == << Header(s, Len(events)) >> \o events[1] \o
                    (IF Len(events) = 2 THEN events[2] ELSE << >>) \o << Trailer(s) >>

BlocksOf(s) ==
    {Block(s, << Event(s, b) >>) : b \in Bodies} \cup
    {Block(s, << Event(s, b), Event(s, c) >>) : b, c \in Bodies}

Regular ==
    BlocksOf(s1) \cup {b \o c : b \in BlocksOf(s1), c \in BlocksOf(s2)}

\* One word of a regular bank is missing.
Without(words, p) == [i \in 1..(Len(words) - 1) |-> IF i < p THEN words[i] ELSE words[i + 1]]

Damaged == UNION {{Without(words, p) : p \in DOMAIN words} : words \in BlocksOf(s1)}

MCBanks == Short \cup Regular \cup Damaged

=============================================================================

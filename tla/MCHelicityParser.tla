-------------------------- MODULE MCHelicityParser --------------------------
(* Small instances of HelicityParser: every bank of at most five words of   *)
(* seven, and every regular bank of at most two blocks of at most three     *)
(* events, with and without a filler word at the end.                      *)
EXTENDS HelicityParser

CONSTANTS s1, s2

Word(type, s, n) == [type |-> type, slot |-> s, n |-> n]

Header(s, n) == Word("block_header", s, n)

Trailer(s) == Word("block_trailer", s, 0)

Data == Word("data", s1, 1)

Continuation == Word("continuation", s1, 0)

MCAlphabet ==
    { Header(s1, 1), Header(s1, 2), Header(s2, 1), Trailer(s1), Word("event_header", s1, 0),
      Word("trigger_time", s1, 0), Data }

Short == UNION {[1..k -> MCAlphabet] : k \in 0..5}

Bodies == { << >>,
            << Data, Continuation >>,
            << Word("trigger_time", s1, 0), Continuation, Data, Continuation, Data, Continuation >> }

BlocksOf(s) ==
    UNION {{<< Header(s, k) >>
              \o FlattenSeq([i \in 1..k |-> << Word("event_header", s, 0) >> \o bodies[i]])
              \o << Trailer(s) >> : bodies \in [1..k -> Bodies]} : k \in 1..3}

Filler == << Word("other", s1, 0) >>

Regular ==
    BlocksOf(s1) \cup {b \o Filler : b \in BlocksOf(s1)}
       \cup {b \o c : b \in BlocksOf(s1), c \in BlocksOf(s2)}

MCBanks == Short \cup Regular

=============================================================================

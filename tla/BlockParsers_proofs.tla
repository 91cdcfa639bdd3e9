------------------------ MODULE BlockParsers_proofs -------------------------
(***************************************************************************)
(* What the block parsers make of a bank. Of any bank whatever, regular or *)
(* not, for any block level: event numbers have no gap, and a block that   *)
(* ends has as many events as announced. Of any regular bank: it is taken, *)
(* and each of its hits is credited to its own event, in order, once. The  *)
(* first part is about how far a turn advances; the second about the       *)
(* counting that block_nevents stands for; the third follows a regular     *)
(* bank; the last adds up the hits.                                        *)
(***************************************************************************)
EXTENDS BlockParsers, SharedLemmas

(* How far a turn of the loop advances.                                    *)

(* The words that a pulse or a frame looks ahead for can be counted.       *)
LEMMA FollowingIsNat ==
    ASSUME NEW b \in Seq(Words), NEW p \in Nat
    PROVE  Following(b, p) \in Nat
<1> DEFINE S == {k \in 0..Len(b) : \A i \in 1..k : IsContinuation(b, p + i)}
<1>1. Len(b) \in Nat /\ S \in SUBSET (0..Len(b))
  OBVIOUS
<1>2. 0 \in S
  BY <1>1
<1>3. Max(S) \in S
  BY <1>1, <1>2, MaxIsGreatest
<1>4. Max(S) \in Nat
  BY <1>1, <1>3
<1> QED
  BY <1>4 DEF Following

LEMMA PairsIsNat ==
    ASSUME NEW b \in Seq(Words), NEW p \in Nat
    PROVE  Pairs(b, p) \in Nat
BY SMTT(30), FollowingIsNat DEF Pairs

LEMMA SampleWordsIsNat ==
    ASSUME NEW b \in Seq(Words), NEW p \in DOMAIN b
    PROVE  SampleWords(b, p) \in Nat
<1>1. b[p] \in Words
  OBVIOUS
<1>2. b[p].n \in Nat
  BY <1>1 DEF Words
<1> QED
  BY <1>2 DEF SampleWords

LEMMA TriplesIsNat ==
    ASSUME NEW b \in Seq(Words), NEW p, TripleEnds(b, p) # {}
    PROVE  Min(TripleEnds(b, p)) \in Nat
<1>1. TripleEnds(b, p) \in SUBSET Nat
  BY DEF TripleEnds
<1> QED
  BY <1>1, MinIsLeast

-----------------------------------------------------------------------------
(* Each action is a turn of the loop, which goes on, or its end.           *)

\* A turn from the position j to a later one, at a word of the type.
Turn(type) ==
    /\ j \in DOMAIN bank
    /\ bank[j].type = type
    /\ j' \in Nat /\ j < j'
    /\ heads' = heads \cup {j}
    /\ UNCHANGED <<parser, bank, outcome>>

Ends ==
    /\ outcome' \in {"done", "thrown", "undefined"}
    /\ UNCHANGED <<parser, bank, j, slot, nevents, index, number, hits, heads>>

BlockBegins ==
    /\ Turn("block_header")
    /\ slot' = bank[j].slot /\ nevents' = bank[j].n
    /\ UNCHANGED <<index, number, hits>>

BlockEnds ==
    /\ Turn("block_trailer")
    /\ nevents = 0 /\ nevents' = -1
    /\ index' = 0
    /\ UNCHANGED <<slot, number, hits>>

EventBegins ==
    /\ Turn("event_header")
    /\ nevents > 0 /\ nevents' = nevents - 1
    /\ number' = FirstEvent + index /\ index' = index + 1
    /\ hits' = Opened(FirstEvent + index)
    /\ UNCHANGED slot

\* The other types of words.
DataTypes == {"trigger_time", "data", "waveform", "pulse", "frame", "continuation", "other"}

DataIsRead ==
    /\ \E type \in DataTypes : Turn(type)
    /\ \/ hits' = hits
       \/ /\ number \in DOMAIN hits
          /\ \E count \in Nat :
                hits' = [hits EXCEPT ![number] = @ \o [i \in 1..count |-> <<j, i>>]]
    /\ UNCHANGED <<slot, nevents, index, number>>

(* An exception, an undefined read and the end of the loop leave all else  *)
(* as it was.                                                              *)
LEMMA StopEnds ==
    ASSUME NEW how \in {"done", "thrown", "undefined"}, Stop(how)
    PROVE  Ends
BY DEF Stop, Ends, wordVars

(* Every other turn goes forward and records its word.                     *)
LEMMA AdvanceTurns ==
    ASSUME NEW type, At(type), j \in Nat, NEW k \in Nat \ {0}, Advance(k)
    PROVE  Turn(type)
BY DEF At, Advance, Turn

LEMMA ShortTurns ==
    ASSUME NEW type, At(type), j \in Nat, Advance(1) \/ Advance(2)
    PROVE  Turn(type)
BY DEF At, Advance, Turn

(* A data word is credited to the current event or refused.                *)
LEMMA CreditReads ==
    ASSUME NEW type \in DataTypes, At(type), j \in Nat,
           NEW count \in Nat, NEW k \in Nat \ {0}, Credit(count, k)
    PROVE  Ends \/ DataIsRead
<1>1. CASE count > 0 /\ number \notin DOMAIN hits
  <2>1. Stop("undefined")
    BY <1>1 DEF Credit
  <2> QED
    BY <2>1, StopEnds
<1>2. CASE ~(count > 0 /\ number \notin DOMAIN hits)
  <2>1. /\ hits' = IF count = 0 THEN hits
                   ELSE [hits EXCEPT ![number] = @ \o [i \in 1..count |-> <<j, i>>]]
        /\ UNCHANGED <<slot, nevents, index, number>>
        /\ Advance(k)
    BY <1>2 DEF Credit
  <2>2. Turn(type)
    BY <2>1, AdvanceTurns
  <2>3. CASE count = 0
    BY <2>1, <2>2, <2>3 DEF DataIsRead
  <2>4. CASE count # 0
    <3>1. number \in DOMAIN hits
      BY <1>2, <2>4
    <3>2. hits' = [hits EXCEPT ![number] = @ \o [i \in 1..count |-> <<j, i>>]]
      BY <2>1, <2>4
    <3> QED
      BY <2>1, <2>2, <3>1, <3>2, Zenon DEF DataIsRead
  <2> QED
    BY <2>3, <2>4
<1> QED
  BY <1>1, <1>2

(* What is recorded lies before the word that comes next.                  *)
LEMMA PositionsGrow ==
    ASSUME NEW p \in Nat \ {0}, NEW q \in Nat, p < q, NEW S \in SUBSET (1..(p - 1))
    PROVE  q \in Nat \ {0} /\ S \cup {p} \subseteq 1..(q - 1)
OBVIOUS

LEMMA TurnFacts ==
    ASSUME NEW type, Turn(type), j \in Nat \ {0}, heads \subseteq 1..(j - 1)
    PROVE  /\ parser' = parser /\ bank' = bank /\ outcome' = outcome
           /\ j \in DOMAIN bank
           /\ j' \in Nat \ {0} /\ j < j'
           /\ heads' \subseteq 1..(j' - 1)
<1>1. j' \in Nat /\ j < j'
  BY DEF Turn
<1>2. j' \in Nat \ {0} /\ heads \cup {j} \subseteq 1..(j' - 1)
  <2>1. heads \in SUBSET (1..(j - 1))
    OBVIOUS
  <2> QED
    BY <1>1, <2>1, PositionsGrow, Zenon
<1>3. /\ parser' = parser /\ bank' = bank /\ outcome' = outcome
      /\ j \in DOMAIN bank /\ heads' = heads \cup {j}
  BY DEF Turn
<1> QED
  BY <1>1, <1>2, <1>3

LEMMA CountsDown ==
    ASSUME NEW n \in Int, n > 0
    PROVE  n - 1 \in Nat
OBVIOUS

\* Everything that parse may do with the word it is at.
LEMMA TurnsAndEnds ==
    ASSUME Next, parser \in Parsers, bank \in Seq(Words), j \in Nat
    PROVE  Ends \/ BlockBegins \/ BlockEnds \/ EventBegins \/ DataIsRead
<1>1. CASE BlockHeader
  <2>1. Turn("block_header")
    BY <1>1, ShortTurns DEF BlockHeader
  <2> QED
    BY <1>1, <2>1 DEF BlockHeader, BlockBegins
<1>2. CASE BlockTrailer
  <2>1. CASE TrailerFits
    <3>1. Turn("block_trailer")
      BY <1>2, <2>1, ShortTurns DEF BlockTrailer
    <3> QED
      BY <1>2, <2>1, <3>1 DEF BlockTrailer, TrailerFits, IndexAfterBlock, BlockEnds
  <2>2. CASE ~TrailerFits
    BY <1>2, <2>2, StopEnds DEF BlockTrailer
  <2> QED
    BY <2>1, <2>2
<1>3. CASE EventHeader
  <2>1. CASE HeaderFits
    <3>1. Turn("event_header")
      BY <1>3, <2>1, ShortTurns DEF EventHeader
    <3> QED
      BY <1>3, <2>1, <3>1 DEF EventHeader, HeaderFits, EventNumber, EventBegins
  <2>2. CASE ~HeaderFits
    BY <1>3, <2>2, StopEnds DEF EventHeader
  <2> QED
    BY <2>1, <2>2
<1>4. CASE TriggerTime
  <2>1. CASE nevents < 0 \/ j = Len(bank)
    BY <1>4, <2>1, StopEnds DEF TriggerTime
  <2>2. CASE ~(nevents < 0 \/ j = Len(bank))
    <3>1. At("trigger_time") /\ Advance(2) /\ UNCHANGED wordVars
      BY <1>4, <2>2 DEF TriggerTime
    <3>2. Turn("trigger_time")
      BY <3>1, ShortTurns
    <3> QED
      BY <3>1, <3>2 DEF DataIsRead, DataTypes, wordVars
  <2> QED
    BY <2>1, <2>2
<1>5. CASE DataWord
  <2> DEFINE one == 1
  <2>1. At("data") /\ (Stop("thrown") \/ Credit(one, one))
    BY <1>5 DEF DataWord
  <2>2. one \in Nat \ {0}
    OBVIOUS
  <2> HIDE DEF one
  <2> QED
    BY <2>1, <2>2, StopEnds, CreditReads DEF DataTypes
<1>6. CASE Waveform
  <2> DEFINE k == 1 + SampleWords(bank, j)
  <2>1. At("waveform") /\ (Stop("thrown") \/ Credit(1, k))
    BY <1>6 DEF Waveform
  <2>2. k \in Nat \ {0}
    BY <2>1, SampleWordsIsNat DEF At
  <2> HIDE DEF k
  <2> QED
    BY <2>1, <2>2, StopEnds, CreditReads DEF DataTypes
<1>7. CASE Pulse
  <2> DEFINE count == Pairs(bank, j)
             k == 1 + 2 * count
  <2>1. At("pulse") /\ (Stop("thrown") \/ Credit(count, k))
    BY <1>7 DEF Pulse
  <2>2. count \in Nat
    BY PairsIsNat
  <2> HIDE DEF count
  <2>3. k \in Nat \ {0}
    BY <2>2
  <2> HIDE DEF k
  <2> QED
    BY <2>1, <2>2, <2>3, StopEnds, CreditReads DEF DataTypes
<1>8. CASE Frame
  <2> DEFINE count == Min(TripleEnds(bank, j))
             k == 1 + 3 * count
  <2>1. CASE nevents < 0 \/ TripleEnds(bank, j) = {}
    BY <1>8, <2>1, StopEnds DEF Frame
  <2>2. CASE ~(nevents < 0) /\ TripleEnds(bank, j) # {}
    <3>1. At("frame") /\ Credit(count, k)
      BY <1>8, <2>2 DEF Frame
    <3>2. count \in Nat /\ k \in Nat \ {0}
      BY <2>2, TriplesIsNat
    <3> HIDE DEF count, k
    <3> QED
      BY <3>1, <3>2, CreditReads DEF DataTypes
  <2> QED
    BY <2>1, <2>2
<1>9. CASE PassOver
  <2>1. PassedOver \subseteq DataTypes
    BY ParsersAreKnown DEF PassedOver, DataTypes
  <2>2. PICK type \in DataTypes : At(type)
    BY <1>9, <2>1 DEF PassOver
  <2>3. Turn(type)
    BY <1>9, <2>2, AdvanceTurns DEF PassOver
  <2> QED
    BY <1>9, <2>3 DEF PassOver, DataIsRead, wordVars
<1>10. CASE Finish
  BY <1>10, StopEnds DEF Finish
<1> QED
  BY <1>1, <1>2, <1>3, <1>4, <1>5, <1>6, <1>7, <1>8, <1>9, <1>10 DEF Next

-----------------------------------------------------------------------------
(* The types.                                                              *)

(* TypeCorrect by induction: the first state, and every step.              *)
LEMMA TypesInitially == Init => TypeOK
<1> SUFFICES ASSUME Init PROVE TypeOK
  OBVIOUS
<1>1. DOMAIN hits = {}
  BY DEF Init
<1> QED
  BY <1>1 DEF Init, TypeOK

LEMMA TypesKept ==
    ASSUME TypeOK, [Next]_vars
    PROVE  TypeOK'
<1>0. bank \in Seq(Words) /\ parser \in Parsers /\ j \in Nat \ {0}
  BY BanksAreWords DEF TypeOK
<1>1. CASE UNCHANGED vars
  BY <1>1 DEF vars, wordVars, TypeOK
<1>2. CASE Ends
  BY <1>2 DEF Ends, TypeOK
<1>3. ASSUME NEW type, Turn(type)
      PROVE  /\ parser' \in Parsers /\ bank' \in Banks /\ j' \in Nat \ {0}
             /\ outcome' \in {"parsing", "done", "thrown", "undefined"}
             /\ heads' \subseteq 1..(j' - 1)
  <2>1. j \in Nat \ {0} /\ heads \subseteq 1..(j - 1)
    BY DEF TypeOK
  <2>2. /\ parser' = parser /\ bank' = bank /\ outcome' = outcome
        /\ j' \in Nat \ {0} /\ heads' \subseteq 1..(j' - 1)
    BY <2>1, <1>3, TurnFacts
  <2> QED
    BY <2>2 DEF TypeOK
<1>4. ASSUME j \in DOMAIN bank PROVE bank[j].slot \in Nat /\ bank[j].n \in Nat
  <2>1. bank[j] \in Words
    BY <1>0, <1>4
  <2> QED
    BY <2>1 DEF Words
<1>5. CASE BlockBegins
  <2>1. Turn("block_header") /\ slot' \in Nat /\ nevents' \in Nat /\ UNCHANGED <<index, number, hits>>
    BY <1>4, <1>5 DEF BlockBegins, Turn
  <2> QED
    BY <1>3, <2>1 DEF TypeOK
<1>6. CASE BlockEnds
  BY <1>3, <1>6 DEF BlockEnds, TypeOK
<1>7. CASE EventBegins
  <2>1. /\ Turn("event_header") /\ slot' = slot
        /\ nevents' \in Nat /\ index' \in Nat /\ number' \in Nat
    <3>1. /\ Turn("event_header") /\ slot' = slot
          /\ nevents > 0 /\ nevents' = nevents - 1
          /\ number' = FirstEvent + index /\ index' = index + 1
      BY <1>7 DEF EventBegins
    <3>2. nevents \in Int /\ index \in Nat
      BY DEF TypeOK
    <3>3. nevents - 1 \in Nat
      BY <3>1, <3>2, CountsDown
    <3>4. index + 1 \in Nat /\ FirstEvent + index \in Nat
      BY <3>2, FirstEventIsNat
    <3> QED
      BY <3>1, <3>3, <3>4
  <2>2. hits' = Opened(FirstEvent + index)
    BY <1>7 DEF EventBegins
  <2>3. FirstEvent + index \in Nat /\ \A n \in DOMAIN hits : n \in Nat /\ hits[n] \in Seq(Nat \X Nat)
    BY FirstEventIsNat DEF TypeOK
  <2>4. \A n \in DOMAIN hits' : n \in Nat /\ hits'[n] \in Seq(Nat \X Nat)
    BY <2>2, <2>3 DEF Opened
  <2> QED
    BY <1>3, <2>1, <2>4 DEF TypeOK
<1>8. CASE DataIsRead
  <2>1. UNCHANGED <<slot, nevents, index, number>> /\ \E type \in DataTypes : Turn(type)
    BY <1>8 DEF DataIsRead
  <2>2. \A n \in DOMAIN hits' : n \in Nat /\ hits'[n] \in Seq(Nat \X Nat)
    <3>1. CASE hits' = hits
      BY <3>1 DEF TypeOK
    <3>2. ASSUME number \in DOMAIN hits, NEW count \in Nat,
                 hits' = [hits EXCEPT ![number] = @ \o [i \in 1..count |-> <<j, i>>]]
          PROVE  \A n \in DOMAIN hits' : n \in Nat /\ hits'[n] \in Seq(Nat \X Nat)
      <4> DEFINE new == [i \in 1..count |-> <<j, i>>]
      <4>1. new \in Seq(Nat \X Nat)
        BY <1>0
      <4>2. hits[number] \in Seq(Nat \X Nat)
        BY <3>2 DEF TypeOK
      <4> HIDE DEF new
      <4>3. hits[number] \o new \in Seq(Nat \X Nat)
        BY <4>1, <4>2
      <4>4. hits' = [hits EXCEPT ![number] = hits[number] \o new]
        BY <3>2 DEF new
      <4> QED
        BY <4>3, <4>4 DEF TypeOK
    <3> QED
      BY <3>1, <3>2, <1>8 DEF DataIsRead
  <2> QED
    BY <1>3, <2>1, <2>2 DEF TypeOK
<1> QED
  BY <1>0, <1>1, <1>2, <1>5, <1>6, <1>7, <1>8, TurnsAndEnds

(* Whatever the bank holds, the variables of parse keep their types.       *)
THEOREM TypeCorrect == Spec => []TypeOK
BY TypesInitially, TypesKept, PTL DEF Spec

-----------------------------------------------------------------------------
(* The numbering: index never runs ahead of the events there are, and each *)
(* event has cost the loop a turn.                                         *)

Numbering ==
    \E n \in 0..Len(bank) :
        /\ n < j
        /\ DOMAIN hits = FirstEvent..(FirstEvent + n - 1)
        /\ index <= n

(* Contiguity by induction: the first state, and every step.               *)
LEMMA NumberingInitially == Init => Numbering
<1> SUFFICES ASSUME Init PROVE Numbering
  OBVIOUS
<1>1. DOMAIN hits = {} /\ index = 0 /\ j = 1
  BY DEF Init
<1>2. FirstEvent..(FirstEvent + 0 - 1) = {}
  BY FirstEventIsNat
<1>3. 0 \in 0..Len(bank)
  BY BanksAreWords DEF Init
<1> QED
  BY <1>1, <1>2, <1>3 DEF Numbering

LEMMA NumberingKept ==
    ASSUME TypeOK, Numbering, [Next]_vars
    PROVE  Numbering'
<1>0. bank \in Seq(Words) /\ parser \in Parsers /\ j \in Nat \ {0}
  BY BanksAreWords DEF TypeOK
<1>1. PICK n \in 0..Len(bank) :
         n < j /\ DOMAIN hits = FirstEvent..(FirstEvent + n - 1) /\ index <= n
  BY DEF Numbering
<1>2. n \in Nat /\ index \in Nat /\ FirstEvent \in Nat /\ Len(bank) \in Nat
  BY <1>0, FirstEventIsNat DEF TypeOK
<1>3. ASSUME bank' = bank, j' \in Nat, j <= j', DOMAIN hits' = DOMAIN hits, index' <= n
      PROVE  Numbering'
  BY <1>0, <1>1, <1>2, <1>3 DEF Numbering
<1>10. ASSUME NEW type, Turn(type)
       PROVE  bank' = bank /\ j' \in Nat /\ j < j' /\ j \in DOMAIN bank
  BY <1>10 DEF Turn
<1>11. j \in Nat /\ j <= j /\ \A k \in Nat : j < k => j <= k
  BY <1>0
<1>4. CASE UNCHANGED vars
  <2>1. bank' = bank /\ j' = j /\ hits' = hits /\ index' = index
    BY <1>4 DEF vars, wordVars
  <2> QED
    BY <1>1, <1>3, <1>11, <2>1
<1>5. CASE Ends
  <2>1. bank' = bank /\ j' = j /\ hits' = hits /\ index' = index
    BY <1>5 DEF Ends
  <2> QED
    BY <1>1, <1>3, <1>11, <2>1
<1>6. CASE BlockBegins
  <2>1. Turn("block_header") /\ hits' = hits /\ index' = index
    BY <1>6 DEF BlockBegins
  <2> QED
    BY <1>1, <1>3, <1>10, <1>11, <2>1
<1>7. CASE BlockEnds
  <2>1. Turn("block_trailer") /\ hits' = hits /\ index' = 0
    BY <1>7 DEF BlockEnds
  <2>2. 0 <= n
    BY <1>2
  <2> QED
    BY <1>3, <1>10, <1>11, <2>1, <2>2
<1>8. CASE DataIsRead
  <2>1. DOMAIN hits' = DOMAIN hits
    BY <1>8 DEF DataIsRead
  <2>2. index' = index /\ bank' = bank /\ j' \in Nat /\ j < j'
    BY <1>8 DEF DataIsRead, Turn
  <2> QED
    BY <1>0, <1>1, <1>3, <2>1, <2>2
<1>9. CASE EventBegins
  <2>1. bank' = bank /\ j' \in Nat /\ j < j' /\ j \in 1..Len(bank) /\ index' = index + 1
    <3>1. Turn("event_header") /\ index' = index + 1
      BY <1>9 DEF EventBegins
    <3>2. DOMAIN bank = 1..Len(bank)
      BY <1>0
    <3> QED
      BY <1>10, <3>1, <3>2
  <2>2. DOMAIN hits' = DOMAIN hits \cup {FirstEvent + index}
    BY <1>9 DEF EventBegins, Opened
  <2>3. CASE index < n
    <3>1. DOMAIN hits' = DOMAIN hits
      BY <1>1, <1>2, <2>2, <2>3
    <3> QED
      BY <1>0, <1>2, <1>3, <2>1, <2>3, <3>1
  <2>4. CASE index = n
    <3>1. DOMAIN hits' = FirstEvent..(FirstEvent + (n + 1) - 1)
      BY <1>1, <1>2, <2>2, <2>4
    <3>2. n + 1 \in 0..Len(bank) /\ n + 1 < j' /\ index' <= n + 1
      BY <1>0, <1>1, <1>2, <2>1, <2>4
    <3> QED
      BY <2>1, <3>1, <3>2 DEF Numbering
  <2> QED
    BY <1>1, <1>2, <2>3, <2>4
<1> QED
  BY <1>0, <1>4, <1>5, <1>6, <1>7, <1>8, <1>9, TurnsAndEnds

(* In every bank, the events are numbered without a gap.                   *)
THEOREM Contiguity == Spec => []EventsAreContiguous
<1>1. Init => TypeOK /\ Numbering
  BY TypesInitially, NumberingInitially
<1>2. TypeOK /\ Numbering /\ [Next]_vars => TypeOK' /\ Numbering'
  BY TypesKept, NumberingKept
<1>3. Numbering => EventsAreContiguous
  BY DEF Numbering, EventsAreContiguous
<1> QED
  BY <1>1, <1>2, <1>3, PTL DEF Spec

-----------------------------------------------------------------------------
(* The counting.  Of the positions S that the loop has been at, those      *)
(* before p with a word of the type; and the loop's positions are past.    *)

Read(S, b, type, p) == {q \in S : q < p /\ b[q].type = type}

Since(S, b, h, p) == {q \in Read(S, b, "event_header", p) : q > h}

Past(S, p) == p \in Int /\ IsFiniteSet(S) /\ \A q \in S : q \in Int /\ q < p

\* Before p, the last block header still announces m more event headers.
Lacks(S, b, p, m) ==
    \E h \in Read(S, b, "block_header", p) :
        /\ \A q \in Read(S, b, "block_header", p) : q <= h
        /\ Cardinality(Since(S, b, h, p)) + m = b[h].n

(* How the words that were read grow by one: by itself if it is of the     *)
(* type, not at all if it is of another, and never before itself.          *)
LEMMA ReadIt ==
    ASSUME NEW p, NEW S, Past(S, p), NEW r \in Int, p < r, NEW b, NEW type, b[p].type = type
    PROVE  Read(S \cup {p}, b, type, r) = Read(S, b, type, p) \cup {p}
<1>1. p \in Int /\ \A q \in S : q \in Int /\ q < p
  BY DEF Past
<1>2. \A q \in S : q < p /\ q < r
  BY <1>1
<1>3. ASSUME NEW q
      PROVE  q \in Read(S \cup {p}, b, type, r) <=> q \in Read(S, b, type, p) \cup {p}
  BY <1>2, Zenon DEF Read
<1> QED
  BY <1>3, Zenon

LEMMA ReadAnother ==
    ASSUME NEW p, NEW S, Past(S, p), NEW r \in Int, p < r, NEW b, NEW type, b[p].type # type
    PROVE  Read(S \cup {p}, b, type, r) = Read(S, b, type, p)
<1>1. p \in Int /\ \A q \in S : q \in Int /\ q < p
  BY DEF Past
<1>2. \A q \in S : q < p /\ q < r
  BY <1>1
<1>3. ASSUME NEW q
      PROVE  q \in Read(S \cup {p}, b, type, r) <=> q \in Read(S, b, type, p)
  BY <1>2, Zenon DEF Read
<1> QED
  BY <1>3, Zenon

LEMMA ReadBefore ==
    ASSUME NEW p, NEW S, Past(S, p), NEW r \in Int, r <= p, NEW b, NEW type
    PROVE  Read(S \cup {p}, b, type, r) = Read(S, b, type, r)
<1>1. ~(p < r)
  BY DEF Past
<1> QED
  BY <1>1, Zenon DEF Read

(* Event headers read since a block header can be counted.                 *)
LEMMA SinceIsFinite ==
    ASSUME NEW p, NEW S, Past(S, p), NEW b, NEW h, NEW r
    PROVE  /\ IsFiniteSet(Since(S, b, h, r))
           /\ Cardinality(Since(S, b, h, r)) \in Nat
<1>1. Since(S, b, h, r) \subseteq S
  BY Zenon DEF Since, Read
<1>2. IsFiniteSet(S)
  BY DEF Past
<1>3. IsFiniteSet(Since(S, b, h, r))
  BY <1>1, <1>2, FS_Subset
<1> QED
  BY <1>3, FS_CardinalityType

\* A block header announces its events.
LEMMA HeaderAnnounces ==
    ASSUME NEW p, NEW S, Past(S, p), NEW r \in Int, p < r,
           NEW b, b[p].type = "block_header", b[p].n \in Nat
    PROVE  Lacks(S \cup {p}, b, r, b[p].n)
<1>1. p \in Read(S \cup {p}, b, "block_header", r)
  BY Zenon DEF Read
<1>2. \A q \in S \cup {p} : q <= p /\ ~(q > p)
  BY DEF Past
<1>3. Since(S \cup {p}, b, p, r) = {}
  BY <1>2, Zenon DEF Since, Read
<1>4. Cardinality(Since(S \cup {p}, b, p, r)) = 0
  BY <1>3, FS_EmptySet
<1>5. Cardinality(Since(S \cup {p}, b, p, r)) + b[p].n = b[p].n
  BY <1>4
<1>6. \A q \in Read(S \cup {p}, b, "block_header", r) : q <= p
  BY <1>2, Zenon DEF Read
<1> QED
  BY <1>1, <1>5, <1>6, Zenon DEF Lacks

(* The counter goes down as the count goes up.                             *)
LEMMA OneMoreOneLess ==
    ASSUME NEW c \in Nat, NEW m \in Int, NEW n, c + m = n
    PROVE  (c + 1) + (m - 1) = n
OBVIOUS

\* An event header is one of them.
LEMMA EventCounts ==
    ASSUME NEW p, NEW S, Past(S, p), NEW r \in Int, p < r,
           NEW b, b[p].type = "event_header", NEW m \in Int, Lacks(S, b, p, m)
    PROVE  Lacks(S \cup {p}, b, r, m - 1)
<1>1. PICK h \in Read(S, b, "block_header", p) :
         /\ \A q \in Read(S, b, "block_header", p) : q <= h
         /\ Cardinality(Since(S, b, h, p)) + m = b[h].n
  BY DEF Lacks
<1>2. Read(S \cup {p}, b, "block_header", r) = Read(S, b, "block_header", p)
  <2>1. b[p].type # "block_header"
    OBVIOUS
  <2> QED
    BY <2>1, ReadAnother
<1>3. p > h
  <2>1. h \in S
    BY <1>1, Zenon DEF Read
  <2> QED
    BY <2>1 DEF Past
<1>4. Read(S \cup {p}, b, "event_header", r) = Read(S, b, "event_header", p) \cup {p}
  BY ReadIt
<1>5. Since(S \cup {p}, b, h, r) = Since(S, b, h, p) \cup {p}
  <2>1. ASSUME NEW q
        PROVE  q \in Since(S \cup {p}, b, h, r) <=> q \in Since(S, b, h, p) \cup {p}
    BY <1>3, <1>4, Zenon DEF Since
  <2> QED
    BY <2>1, Zenon
<1>6. p \notin Since(S, b, h, p)
  <2>1. ~(p < p)
    BY DEF Past
  <2> QED
    BY <2>1, Zenon DEF Since, Read
<1>7. IsFiniteSet(Since(S, b, h, p)) /\ Cardinality(Since(S, b, h, p)) \in Nat
  BY SinceIsFinite, Zenon
<1>8. Cardinality(Since(S, b, h, p) \cup {p}) = Cardinality(Since(S, b, h, p)) + 1
  BY <1>6, <1>7, FS_AddElement
<1>9. Cardinality(Since(S \cup {p}, b, h, r)) + (m - 1) = b[h].n
  <2>1. (Cardinality(Since(S, b, h, p)) + 1) + (m - 1) = b[h].n
    BY <1>1, <1>7, OneMoreOneLess, Zenon
  <2> QED
    BY <2>1, <1>5, <1>8, Zenon
<1> QED
  BY <1>1, <1>2, <1>9, Zenon DEF Lacks

\* Any other word changes nothing.
LEMMA OthersDoNotCount ==
    ASSUME NEW p, NEW S, Past(S, p), NEW r \in Int, p < r,
           NEW b, b[p].type # "block_header", b[p].type # "event_header",
           NEW m, Lacks(S, b, p, m)
    PROVE  Lacks(S \cup {p}, b, r, m)
<1>1. Read(S \cup {p}, b, "block_header", r) = Read(S, b, "block_header", p)
  BY ReadAnother
<1>2. Read(S \cup {p}, b, "event_header", r) = Read(S, b, "event_header", p)
  BY ReadAnother
<1> QED
  BY <1>1, <1>2, Zenon DEF Lacks, Since

\* Nothing that follows changes what came before.
LEMMA PastIsKept ==
    ASSUME NEW p, NEW S, Past(S, p), NEW r \in Int, r <= p, NEW b, NEW m, Lacks(S, b, r, m)
    PROVE  Lacks(S \cup {p}, b, r, m)
<1>1. Read(S \cup {p}, b, "block_header", r) = Read(S, b, "block_header", r)
  BY ReadBefore
<1>2. Read(S \cup {p}, b, "event_header", r) = Read(S, b, "event_header", r)
  BY ReadBefore
<1> QED
  BY <1>1, <1>2, Zenon DEF Lacks, Since

(* The words that began a turn lie before the current one.                 *)
LEMMA HeadsArePast ==
    ASSUME TypeOK
    PROVE  Past(heads, j)
<1>1. j \in Nat \ {0} /\ heads \in SUBSET (1..(j - 1))
  BY DEF TypeOK
<1>2. j \in Int /\ \A q \in heads : q \in Int /\ q < j
  BY <1>1
<1>3. IsFiniteSet(1..(j - 1))
  BY <1>1, FS_Interval
<1>4. IsFiniteSet(heads)
  BY <1>1, <1>3, FS_Subset
<1> QED
  BY <1>2, <1>4 DEF Past

\* block_nevents is what the open block lacks.
Announced == nevents >= 0 => Lacks(heads, bank, j, nevents)

\* A block that ended lacks no event header.
Fulfilled == \A p \in heads : bank[p].type = "block_trailer" => Lacks(heads, bank, p, 0)

(* A trailer is read only when no event is lacking, so ended blocks stay   *)
(* fulfilled.                                                              *)
LEMMA FulfilledKept ==
    ASSUME TypeOK, Fulfilled, NEW type, Turn(type),
           type = "block_trailer" => Lacks(heads, bank, j, 0)
    PROVE  Fulfilled'
<1>1. bank' = bank /\ heads' = heads \cup {j} /\ bank[j].type = type
  BY DEF Turn
<1>2. Past(heads, j)
  BY HeadsArePast
<1>3. ASSUME NEW p \in heads \cup {j}, bank[p].type = "block_trailer"
      PROVE  Lacks(heads \cup {j}, bank, p, 0)
  <2>1. p \in Int /\ p <= j
    BY <1>2 DEF Past
  <2> DEFINE none == 0
  <2>2. Lacks(heads, bank, p, none)
    BY <1>1, <1>3 DEF Fulfilled
  <2>3. Lacks(heads \cup {j}, bank, p, none)
    <3> HIDE DEF none
    <3> QED
      BY <1>2, <2>1, <2>2, PastIsKept, Zenon
  <2> QED
    BY <2>3
<1> QED
  BY <1>1, <1>3, Zenon DEF Fulfilled

(* Both hold on in every step.                                             *)
LEMMA CountingKept ==
    ASSUME TypeOK, Announced, Fulfilled, [Next]_vars
    PROVE  Announced' /\ Fulfilled'
<1>0. bank \in Seq(Words) /\ parser \in Parsers /\ j \in Nat /\ nevents \in Int /\ Past(heads, j)
  BY BanksAreWords, HeadsArePast DEF TypeOK
<1>1. CASE UNCHANGED vars
  BY <1>1 DEF vars, wordVars, Announced, Fulfilled
<1>2. CASE Ends
  BY <1>2 DEF Ends, Announced, Fulfilled
<1>3. ASSUME NEW type, Turn(type)
      PROVE  /\ bank' = bank /\ heads' = heads \cup {j}
             /\ j' \in Int /\ j < j' /\ j \in DOMAIN bank /\ bank[j].type = type
  BY <1>3 DEF Turn
<1>4. CASE BlockBegins
  <2>1. Turn("block_header") /\ nevents' = bank[j].n
    BY <1>4 DEF BlockBegins
  <2>2. bank[j] \in Words
    BY <1>0, <1>3, <2>1
  <2>3. bank[j].n \in Nat
    BY <2>2 DEF Words
  <2>4. Lacks(heads \cup {j}, bank, j', bank[j].n)
    BY <1>0, <1>3, <2>1, <2>3, HeaderAnnounces, Zenon
  <2>5. Announced'
    BY <1>3, <2>1, <2>4, Zenon DEF Announced
  <2> QED
    BY <2>1, <2>5, FulfilledKept
<1>5. CASE BlockEnds
  <2>1. Turn("block_trailer") /\ nevents = 0 /\ nevents' = -1
    BY <1>5 DEF BlockEnds
  <2>2. Announced'
    <3>1. ~(nevents' >= 0)
      BY <2>1
    <3> QED
      BY <3>1 DEF Announced
  <2>3. Lacks(heads, bank, j, 0)
    BY <2>1 DEF Announced
  <2> QED
    BY <2>1, <2>2, <2>3, FulfilledKept
<1>6. CASE EventBegins
  <2>1. Turn("event_header") /\ nevents > 0 /\ nevents' = nevents - 1
    BY <1>6 DEF EventBegins
  <2>2. nevents >= 0
    BY <1>0, <2>1
  <2>3. Lacks(heads, bank, j, nevents)
    BY <2>2 DEF Announced
  <2>4. Lacks(heads \cup {j}, bank, j', nevents - 1)
    BY <1>0, <1>3, <2>1, <2>3, EventCounts, Zenon
  <2>5. Announced'
    BY <1>3, <2>1, <2>4, Zenon DEF Announced
  <2> QED
    BY <2>1, <2>5, FulfilledKept
<1>7. CASE DataIsRead
  <2>1. PICK type \in DataTypes : Turn(type)
    BY <1>7 DEF DataIsRead
  <2>2. nevents' = nevents
    BY <1>7 DEF DataIsRead
  <2>3. type # "block_header" /\ type # "event_header" /\ type # "block_trailer"
    BY DEF DataTypes
  <2>4. ASSUME nevents >= 0 PROVE Lacks(heads \cup {j}, bank, j', nevents)
    <3>1. Lacks(heads, bank, j, nevents)
      BY <2>4 DEF Announced
    <3>2. bank[j].type # "block_header" /\ bank[j].type # "event_header"
      BY <1>3, <2>1, <2>3
    <3> QED
      BY <1>0, <1>3, <2>1, <3>1, <3>2, OthersDoNotCount, Zenon
  <2>5. Announced'
    BY <1>3, <2>1, <2>2, <2>4, Zenon DEF Announced
  <2> QED
    BY <2>1, <2>3, <2>5, FulfilledKept
<1> QED
  BY <1>0, <1>1, <1>2, <1>4, <1>5, <1>6, <1>7, TurnsAndEnds

(* In fulfilled blocks the headers of events are as many as announced.     *)
LEMMA CountingSuffices ==
    ASSUME TypeOK, Fulfilled
    PROVE  EndedBlocksAreWhole
<1> SUFFICES ASSUME NEW p \in heads, bank[p].type = "block_trailer"
             PROVE  /\ LastRead("block_header", p) # {}
                    /\ LET header == Max(LastRead("block_header", p))
                       IN  Cardinality({q \in LastRead("event_header", p) : q > header})
                              = bank[header].n
  BY Zenon DEF EndedBlocksAreWhole
<1> DEFINE B == Read(heads, bank, "block_header", p)
<1>1. LastRead("block_header", p) = B
  BY DEF LastRead, Read
<1>2. \A h : {q \in LastRead("event_header", p) : q > h} = Since(heads, bank, h, p)
  BY DEF LastRead, Since, Read
<1>3. PICK h \in B : /\ \A q \in B : q <= h
                     /\ Cardinality(Since(heads, bank, h, p)) + 0 = bank[h].n
  BY DEF Fulfilled, Lacks
<1>4. Past(heads, j)
  BY HeadsArePast
<1>5. B \in SUBSET Int
  BY <1>4 DEF Past, Read
<1>6. Cardinality(Since(heads, bank, h, p)) \in Nat
  BY <1>4, SinceIsFinite, Zenon
<1> HIDE DEF B
<1>7. Max(B) = h
  BY <1>3, <1>5, MaxIs, Zenon
<1>8. Cardinality(Since(heads, bank, h, p)) = bank[h].n
  BY <1>3, <1>6
<1>9. B # {}
  BY <1>3
<1> QED
  BY <1>1, <1>2, <1>7, <1>8, <1>9, Zenon

(* In every bank, a block that the parser lets end has had exactly the     *)
(* events that its header announced.                                       *)
THEOREM Wholeness == Spec => []EndedBlocksAreWhole
<1>1. Init => TypeOK /\ Announced /\ Fulfilled
  <2>1. Init => ~(nevents >= 0) /\ heads = {}
    BY DEF Init
  <2> QED
    BY <2>1, TypesInitially DEF Announced, Fulfilled
<1>2. TypeOK /\ Announced /\ Fulfilled /\ [Next]_vars => TypeOK' /\ Announced' /\ Fulfilled'
  BY TypesKept, CountingKept
<1>3. TypeOK /\ Fulfilled => EndedBlocksAreWhole
  BY CountingSuffices
<1> QED
  BY <1>1, <1>2, <1>3, PTL DEF Spec

-----------------------------------------------------------------------------
(* Regular banks.                                                          *)

\* The continuation words that follow p are all those before the next word.
LEMMA FollowingWords ==
    ASSUME NEW b \in Seq(Words), NEW p \in Nat
    PROVE  /\ \A i \in 1..Following(b, p) : IsContinuation(b, p + i)
           /\ ~IsContinuation(b, p + Following(b, p) + 1)
<1> DEFINE S == {k \in 0..Len(b) : \A i \in 1..k : IsContinuation(b, p + i)}
           f == Max(S)
<1>1. Len(b) \in Nat /\ S \in SUBSET (0..Len(b)) /\ 0 \in S
  OBVIOUS
<1>2. f \in S /\ \A k \in S : k <= f
  BY <1>1, MaxIsGreatest
<1>3. Following(b, p) = f
  BY DEF Following
<1>4. f \in 0..Len(b) /\ \A i \in 1..f : IsContinuation(b, p + i)
  BY <1>2
<1>5. ASSUME IsContinuation(b, p + f + 1) PROVE FALSE
  <2> HIDE DEF f
  <2>1. p + f + 1 \in 1..Len(b)
    BY <1>5 DEF IsContinuation
  <2>2. f + 1 \in 0..Len(b) /\ ~(f + 1 <= f)
    BY <1>1, <1>4, <2>1
  <2>3. \A i \in 1..(f + 1) : IsContinuation(b, p + i)
    <3>1. \A i \in 1..(f + 1) : i \in 1..f \/ i = f + 1
      BY <1>4
    <3>2. p + (f + 1) = p + f + 1
      BY <1>4
    <3> QED
      BY <1>4, <1>5, <3>1, <3>2
  <2>4. f + 1 \in S
    BY <2>2, <2>3
  <2> QED
    BY <1>2, <2>2, <2>4
<1> QED
  BY <1>3, <1>4, <1>5

(* A bank does not end inside a block.                                     *)
LEMMA BlocksAreClosed ==
    ASSUME NEW b \in Seq(Words), IsRegular(b), NEW p \in DOMAIN b, InBlock(b, p),
           NEW m \in Nat, b[p].type \notin Delimiters,
           \A i \in 1..m : IsContinuation(b, p + i)
    PROVE  p + m < Len(b)
<1>1. p \in 1..Len(b) /\ Len(b) \in Nat /\ b # << >>
  OBVIOUS
<1>2. SUFFICES ASSUME ~(p + m < Len(b)) PROVE FALSE
  OBVIOUS
<1>3. ASSUME NEW q \in p..Len(b) PROVE b[q].type \notin Delimiters
  <2>1. CASE q = p
    BY <2>1
  <2>2. CASE q # p
    <3>1. q - p \in 1..m /\ p + (q - p) = q
      BY <1>1, <1>2, <1>3, <2>2
    <3>2. IsContinuation(b, p + (q - p))
      BY <3>1
    <3> QED
      BY <3>1, <3>2 DEF IsContinuation, Delimiters
  <2> QED
    BY <2>1, <2>2
<1>4. p - 1 \in Nat /\ p - 1 <= Len(b) /\ (p - 1) + 1 = p
  BY <1>1
<1>5. InBlock(b, Len(b) + 1) <=> InBlock(b, p)
  BY <1>1, <1>3, <1>4, Stretch
<1> QED
  BY <1>1, <1>5 DEF IsRegular

(* In whole triples, the MPD's loop stops at their end.                    *)
LEMMA TriplesAreWhole ==
    ASSUME NEW b \in Seq(Words), NEW p \in Nat, Following(b, p) % 3 = 0,
           p + Following(b, p) < Len(b)
    PROVE  TripleEnds(b, p) # {} /\ Min(TripleEnds(b, p)) = Following(b, p) \div 3
<1> DEFINE f == Following(b, p)
           T == TripleEnds(b, p)
           k == f \div 3
<1>1. f \in Nat /\ f % 3 = 0 /\ p + f < Len(b) /\ Len(b) \in Nat
  BY FollowingIsNat
<1>2. \A i \in 1..f : IsContinuation(b, p + i)
  BY FollowingWords
<1>3. ~IsContinuation(b, p + f + 1)
  BY FollowingWords
<1> HIDE DEF f
<1>4. k \in Nat /\ 3 * k = f /\ k <= f
  BY <1>1
<1>5. k \in T
  <2>1. k \in 0..Len(b)
    <3> HIDE DEF k
    <3> QED
      BY <1>1, <1>4
  <2> QED
    BY <1>1, <1>3, <1>4, <2>1 DEF TripleEnds
<1> HIDE DEF k
<1>6. T \in SUBSET Nat
  BY DEF TripleEnds
<1>7. ASSUME NEW m \in T, m < k PROVE FALSE
  <2>1. m \in Nat /\ ~IsContinuation(b, p + 3 * m + 1)
    BY <1>7 DEF TripleEnds
  <2>2. 3 * m + 1 \in 1..f /\ p + (3 * m + 1) = p + 3 * m + 1
    BY <1>4, <1>7, <2>1
  <2> QED
    BY <1>2, <2>1, <2>2
<1> HIDE DEF T
<1>8. Min(T) \in T /\ \A m \in T : Min(T) <= m
  BY <1>5, <1>6, MinIsLeast
<1>9. Min(T) = k
  <2> DEFINE m == Min(T)
  <2>1. m \in Nat /\ m <= k /\ ~(m < k)
    BY <1>5, <1>6, <1>7, <1>8
  <2> HIDE DEF m
  <2>2. m = k
    BY <1>4, <2>1
  <2> QED
    BY <2>2 DEF m
<1> QED
  BY <1>5, <1>9 DEF T, k, f

-----------------------------------------------------------------------------
(* What parse keeps in step with a regular bank.                           *)

\* Inside a block, its slot, the events that are left and those there were.
Inside ==
    /\ nevents >= 0
    /\ nevents = bank[BlockOf(bank, j - 1)].n - Ordinal(bank, j - 1)
    /\ slot = bank[BlockOf(bank, j - 1)].slot
    /\ index = Ordinal(bank, j - 1)
    /\ index > 0 => number = FirstEvent + index - 1 /\ number \in DOMAIN hits

Outside == nevents = -1 /\ index = 0

InStep ==
    /\ outcome \in {"parsing", "done"}
    /\ InBlock(bank, j) => Inside
    /\ ~InBlock(bank, j) => Outside

\* A turn to the next word.
Steps == j \in DOMAIN bank /\ j' = j + 1 /\ UNCHANGED <<parser, bank, outcome>>

\* A turn at a word that delimits nothing, over its continuation words.
Strides ==
    /\ j \in DOMAIN bank /\ bank[j].type \notin Delimiters
    /\ j' \in Nat /\ j < j'
    /\ \A q \in (j + 1)..(j' - 1) : IsContinuation(bank, q)
    /\ UNCHANGED <<parser, bank, outcome>>

\* The word's hits go to the current event, if it makes any.
Credits(count) ==
    /\ UNCHANGED <<slot, nevents, index, number>>
    /\ \/ count = 0 /\ hits' = hits
       \/ /\ number \in DOMAIN hits
          /\ InBlock(bank, j) /\ index > 0
          /\ hits' = [hits EXCEPT ![number] = @ \o [i \in 1..count |-> <<j, i>>]]

RegularTurn ==
    \/ /\ Steps /\ bank[j].type = "block_header"
       /\ slot' = bank[j].slot /\ nevents' = bank[j].n /\ index' = index
       /\ UNCHANGED <<number, hits>>
    \/ /\ Steps /\ bank[j].type = "block_trailer" /\ InBlock(bank, j)
       /\ nevents' = -1 /\ index' = 0
       /\ UNCHANGED <<slot, number, hits>>
    \/ /\ Steps /\ bank[j].type = "event_header" /\ InBlock(bank, j)
       /\ nevents > 0 /\ nevents' = nevents - 1
       /\ number' = FirstEvent + index /\ index' = index + 1
       /\ hits' = Opened(FirstEvent + index)
       /\ UNCHANGED slot
    \/ Strides /\ Credits(HitsAt(j))
    \/ /\ outcome' = "done"
       /\ UNCHANGED <<parser, bank, j, slot, nevents, index, number, hits>>

(* A turn that passes over continuation words only is a stride.            *)
LEMMA StridesOver ==
    ASSUME NEW type, type \notin Delimiters, At(type), j \in Nat, NEW m \in Nat, Advance(1 + m),
           \A i \in 1..m : IsContinuation(bank, j + i)
    PROVE  Strides
<1>1. j' = j + (1 + m) /\ UNCHANGED <<parser, bank, outcome>>
  BY DEF Advance
<1>2. j' \in Nat /\ j < j'
  BY <1>1
<1>3. ASSUME NEW q \in (j + 1)..(j' - 1) PROVE IsContinuation(bank, q)
  <2>1. q - j \in 1..m /\ j + (q - j) = q
    BY <1>1
  <2>2. IsContinuation(bank, j + (q - j))
    BY <2>1
  <2> QED
    BY <2>1, <2>2
<1> QED
  BY <1>1, <1>2, <1>3 DEF At, Strides

(* Inside an event of a regular bank, a data word is never refused.        *)
LEMMA CreditsIt ==
    ASSUME NEW count \in Nat, NEW k, Credit(count, k), number \in DOMAIN hits,
           InBlock(bank, j), index > 0
    PROVE  Advance(k) /\ Credits(count)
<1>1. /\ hits' = IF count = 0 THEN hits
                 ELSE [hits EXCEPT ![number] = @ \o [i \in 1..count |-> <<j, i>>]]
      /\ UNCHANGED <<slot, nevents, index, number>>
      /\ Advance(k)
  BY DEF Credit
<1>2. CASE count = 0
  BY <1>1, <1>2 DEF Credits
<1>3. CASE count # 0
  <2>1. hits' = [hits EXCEPT ![number] = @ \o [i \in 1..count |-> <<j, i>>]]
    BY <1>1, <1>3
  <2> QED
    BY <1>1, <2>1, Zenon DEF Credits
<1> QED
  BY <1>2, <1>3

\* Inside a block and past an event header, there is a current event.
LEMMA DataHasItsEvent ==
    ASSUME TypeOK, InStep, IsRegular(bank), j \in DOMAIN bank,
           bank[j].type \notin Delimiters \cup {"other", "continuation"}
    PROVE  /\ InBlock(bank, j) /\ index > 0 /\ ~(nevents < 0) /\ number \in DOMAIN hits
           /\ index = Ordinal(bank, j)
           /\ number = FirstEvent + Ordinal(bank, j) - 1
<1>1. InBlock(bank, j) /\ Ordinal(bank, j) > 0
  BY RegularWord
<1>2. j - 1 \in Nat /\ j \in Nat /\ j - 1 <= j /\ (j - 1) + 1 = j /\ \A q \in j..j : q = j
  BY DEF TypeOK
<1>3. \A q \in ((j - 1) + 1)..j : bank[q].type \notin Delimiters
  BY <1>2
<1>4. Ordinal(bank, j) = Ordinal(bank, j - 1)
  BY <1>1, <1>2, <1>3, Stretch
<1>5. Inside
  BY <1>1 DEF InStep
<1>6. index > 0 /\ index = Ordinal(bank, j)
  BY <1>1, <1>4, <1>5 DEF Inside
<1>7. nevents \in Int /\ nevents >= 0
  BY <1>5 DEF Inside, TypeOK
<1> QED
  BY <1>1, <1>5, <1>6, <1>7 DEF Inside

(* In step with a regular bank, parse does nothing else.                   *)
LEMMA RegularTurns ==
    ASSUME TypeOK, InStep, IsRegular(bank), Next
    PROVE  RegularTurn
<1>0. bank \in Seq(Words) /\ parser \in {"FADC", "VFTDC", "MPD"} /\ j \in Nat \ {0} /\ DOMAIN bank = 1..Len(bank)
  BY BanksAreWords, ParsersAreKnown DEF TypeOK
<1>1. CASE BlockHeader
  BY <1>1 DEF BlockHeader, At, Advance, RegularTurn, Steps
<1>2. CASE BlockTrailer
  <2>1. At("block_trailer") /\ j \in DOMAIN bank /\ bank[j].type = "block_trailer"
    BY <1>2 DEF BlockTrailer, At
  <2>2. /\ InBlock(bank, j)
        /\ bank[j].slot = bank[BlockOf(bank, j)].slot
        /\ Ordinal(bank, j) = bank[BlockOf(bank, j)].n
    BY <2>1, RegularWord
  <2>3. BlockOf(bank, j) = BlockOf(bank, j - 1) /\ Ordinal(bank, j) = Ordinal(bank, j - 1)
    BY <1>0, <2>1, <2>2, TrailerCloses
  <2>4. Inside
    BY <2>2 DEF InStep
  <2>5. TrailerFits
    <3>1. slot = bank[j].slot
      BY <2>2, <2>3, <2>4 DEF Inside
    <3>2. nevents = Ordinal(bank, j) - Ordinal(bank, j)
      BY <2>2, <2>3, <2>4 DEF Inside
    <3>3. Ordinal(bank, j) \in Int
      <4>1. Blocks(bank, j - 1) # {} /\ j - 1 \in Nat
        BY <1>0, <2>2 DEF InBlock
      <4>2. Ordinal(bank, j - 1) \in Nat
        BY <4>1, OrdinalIsNat, Zenon
      <4> QED
        BY <2>3, <4>2
    <3>4. nevents = 0
      BY <3>2, <3>3
    <3> QED
      BY <3>1, <3>4 DEF TrailerFits
  <2> QED
    BY <1>2, <2>1, <2>2, <2>5 DEF BlockTrailer, IndexAfterBlock, Advance, RegularTurn, Steps
<1>3. CASE EventHeader
  <2>1. At("event_header") /\ j \in DOMAIN bank /\ bank[j].type = "event_header"
    BY <1>3 DEF EventHeader, At
  <2>2. /\ InBlock(bank, j)
        /\ bank[j].slot = bank[BlockOf(bank, j)].slot
        /\ Ordinal(bank, j) <= bank[BlockOf(bank, j)].n
    BY <2>1, RegularWord
  <2>3. BlockOf(bank, j) = BlockOf(bank, j - 1) /\ Ordinal(bank, j) = Ordinal(bank, j - 1) + 1
    BY <1>0, <2>1, <2>2, EventIsNext
  <2>4. Inside
    BY <2>2 DEF InStep
  <2>5. HeaderFits
    <3>1. slot = bank[j].slot
      BY <2>2, <2>3, <2>4 DEF Inside
    <3>2. Ordinal(bank, j - 1) \in Int
      <4>1. Blocks(bank, j - 1) # {} /\ j - 1 \in Nat
        BY <1>0, <2>2 DEF InBlock
      <4>2. Ordinal(bank, j - 1) \in Nat
        BY <4>1, OrdinalIsNat, Zenon
      <4> QED
        BY <4>2
    <3>3. bank[BlockOf(bank, j - 1)].n \in Int
      <4>1. BlockOf(bank, j - 1) \in 1..(j - 1)
        BY <1>0, <2>2, LastHeader DEF InBlock
      <4>2. BlockOf(bank, j - 1) \in 1..Len(bank)
        BY <1>0, <2>1, <4>1
      <4>3. bank[BlockOf(bank, j - 1)] \in Words
        BY <1>0, <4>2
      <4> QED
        BY <4>3 DEF Words
    <3>4. nevents = bank[BlockOf(bank, j - 1)].n - Ordinal(bank, j - 1)
      BY <2>4 DEF Inside
    <3>5. nevents > 0
      BY <2>2, <2>3, <3>2, <3>3, <3>4
    <3> QED
      BY <3>1, <3>5 DEF HeaderFits
  <2> QED
    BY <1>3, <2>1, <2>2, <2>5 DEF EventHeader, HeaderFits, EventNumber, Advance, RegularTurn, Steps
<1>4. ASSUME NEW type \in {"trigger_time", "data", "waveform", "pulse", "frame"}, At(type)
      PROVE  /\ j \in DOMAIN bank /\ bank[j].type = type /\ type \notin Delimiters
             /\ InBlock(bank, j) /\ index > 0 /\ ~(nevents < 0) /\ number \in DOMAIN hits
  <2>1. j \in DOMAIN bank /\ bank[j].type = type
    BY <1>4 DEF At
  <2>2. type \notin Delimiters \cup {"other", "continuation"}
    BY DEF Delimiters
  <2> QED
    BY <2>1, <2>2, DataHasItsEvent
<1>5. CASE TriggerTime
  <2>1. At("trigger_time")
    BY <1>5 DEF TriggerTime
  <2>2. IsContinuation(bank, j + 1)
    BY <1>4, <2>1, RegularWord DEF Delimiters
  <2>3. ~(nevents < 0) /\ j # Len(bank)
    <3>1. j + 1 \in 1..Len(bank)
      BY <1>0, <2>2 DEF IsContinuation
    <3>2. j # Len(bank)
      <4>1. Len(bank) \in Nat /\ j \in Nat
        BY <1>0
      <4>2. \A l \in Nat : j + 1 \in 1..l => j # l
        BY <4>1
      <4> QED
        BY <3>1, <4>1, <4>2
    <3> QED
      BY <1>4, <2>1, <3>2
  <2>4. Advance(2) /\ UNCHANGED wordVars
    BY <1>5, <2>3 DEF TriggerTime
  <2>5. Strides
    <3> DEFINE m == 1
    <3>1. m \in Nat /\ Advance(1 + m) /\ \A i \in 1..m : IsContinuation(bank, j + i)
      BY <2>2, <2>4
    <3> HIDE DEF m
    <3> QED
      BY <1>0, <1>4, <2>1, <3>1, StridesOver
  <2>6. HitsAt(j) = 0
    BY <1>4, <2>1 DEF HitsAt
  <2> QED
    BY <2>4, <2>5, <2>6 DEF RegularTurn, Credits, wordVars
<1>6. CASE DataWord
  <2>1. At("data") /\ parser # "MPD"
    BY <1>6 DEF DataWord
  <2>2. Credit(1, 1)
    BY <1>4, <1>6, <2>1 DEF DataWord
  <2>3. HitsAt(j) = 1
    BY <1>4, <2>1 DEF HitsAt
  <2>4. Advance(1) /\ Credits(1)
    BY <1>4, <2>1, <2>2, CreditsIt
  <2>5. Strides
    <3> DEFINE m == 0
    <3>1. m \in Nat /\ Advance(1 + m) /\ \A i \in 1..m : IsContinuation(bank, j + i)
      BY <2>4
    <3> HIDE DEF m
    <3> QED
      BY <1>0, <1>4, <2>1, <3>1, StridesOver
  <2> QED
    BY <2>3, <2>4, <2>5 DEF RegularTurn
<1>7. CASE Waveform
  <2> DEFINE m == SampleWords(bank, j)
  <2>1. At("waveform") /\ parser = "FADC"
    BY <1>7 DEF Waveform
  <2>2. IsWholeWaveform(bank, j)
    BY <1>4, <2>1, RegularWord DEF Delimiters
  <2>3. Credit(1, 1 + m)
    BY <1>4, <1>7, <2>1, <2>2 DEF Waveform
  <2>4. HitsAt(j) = 1
    BY <1>4, <2>1 DEF HitsAt
  <2>5. m \in Nat /\ \A i \in 1..m : IsContinuation(bank, j + i)
    BY <1>0, <1>4, <2>1, <2>2, SampleWordsIsNat DEF IsWholeWaveform
  <2> HIDE DEF m
  <2>6. Advance(1 + m) /\ Credits(1)
    BY <1>4, <2>1, <2>3, CreditsIt
  <2>7. Strides
    BY <1>0, <1>4, <2>1, <2>5, <2>6, StridesOver
  <2> QED
    BY <2>4, <2>6, <2>7 DEF RegularTurn
<1>8. CASE Pulse
  <2> DEFINE count == Pairs(bank, j)
             f == Following(bank, j)
  <2>1. At("pulse") /\ parser = "FADC"
    BY <1>8 DEF Pulse
  <2>2. Credit(count, 1 + 2 * count)
    BY <1>4, <1>8, <2>1 DEF Pulse
  <2>3. HitsAt(j) = count
    BY <1>4, <2>1 DEF HitsAt
  <2>4. f \in Nat /\ count = f \div 2 /\ \A i \in 1..f : IsContinuation(bank, j + i)
    BY <1>0, FollowingIsNat, FollowingWords DEF Pairs
  <2> HIDE DEF count, f
  <2>5. count \in Nat /\ 2 * count \in Nat /\ 2 * count <= f
    BY <2>4
  <2>6. Advance(1 + 2 * count) /\ Credits(count)
    BY <1>4, <2>1, <2>2, <2>5, CreditsIt
  <2>7. \A i \in 1..(2 * count) : IsContinuation(bank, j + i)
    BY <2>4, <2>5
  <2>8. Strides
    BY <1>0, <1>4, <2>1, <2>5, <2>6, <2>7, StridesOver
  <2> QED
    BY <2>3, <2>6, <2>8 DEF RegularTurn
<1>9. CASE Frame
  <2> DEFINE f == Following(bank, j)
             count == f \div 3
  <2>1. At("frame") /\ parser = "MPD"
    BY <1>9 DEF Frame
  <2>2. f \in Nat /\ f % 3 = 0 /\ \A i \in 1..f : IsContinuation(bank, j + i)
    BY <1>0, <1>4, <2>1, RegularWord, FollowingIsNat, FollowingWords DEF Delimiters
  <2>3. j + f < Len(bank)
    BY <1>0, <1>4, <2>1, <2>2, BlocksAreClosed
  <2>4. TripleEnds(bank, j) # {} /\ Min(TripleEnds(bank, j)) = count
    BY <1>0, <2>2, <2>3, TriplesAreWhole
  <2>5. Credit(count, 1 + 3 * count)
    BY <1>4, <1>9, <2>1, <2>4 DEF Frame
  <2>6. HitsAt(j) = count
    BY <1>4, <2>1 DEF HitsAt
  <2> HIDE DEF f
  <2>7. count \in Nat /\ 3 * count \in Nat /\ 3 * count = f
    BY <2>2
  <2> HIDE DEF count
  <2>8. Advance(1 + 3 * count) /\ Credits(count)
    BY <1>4, <2>1, <2>5, <2>7, CreditsIt
  <2>9. Strides
    BY <1>0, <1>4, <2>1, <2>2, <2>7, <2>8, StridesOver
  <2> QED
    BY <2>6, <2>8, <2>9 DEF RegularTurn
<1>10. CASE PassOver
  <2>1. PICK type \in PassedOver : At(type)
    BY <1>10 DEF PassOver
  <2>2. Advance(1) /\ UNCHANGED wordVars
    BY <1>10 DEF PassOver
  <2>3. type \notin Delimiters
    BY <1>0 DEF PassedOver, Delimiters
  <2>4. HitsAt(j) = 0
    BY <1>0, <2>1 DEF PassedOver, At, HitsAt
  <2>5. Strides
    <3> DEFINE m == 0
    <3>1. m \in Nat /\ Advance(1 + m) /\ \A i \in 1..m : IsContinuation(bank, j + i)
      BY <2>2
    <3> HIDE DEF m
    <3> QED
      BY <1>0, <2>1, <2>3, <3>1, StridesOver
  <2> QED
    BY <2>2, <2>4, <2>5 DEF RegularTurn, Credits, wordVars
<1>11. CASE Finish
  BY <1>11 DEF Finish, Stop, wordVars, RegularTurn
<1> QED
  BY <1>1, <1>2, <1>3, <1>5, <1>6, <1>7, <1>8, <1>9, <1>10, <1>11 DEF Next


(* Before the first word, parse is in step with any bank.                  *)
LEMMA InStepInitially == Init => InStep
<1> SUFFICES ASSUME Init PROVE InStep
  OBVIOUS
<1>1. j = 1 /\ nevents = -1 /\ index = 0 /\ outcome = "parsing"
  BY DEF Init
<1>2. ~InBlock(bank, j)
  BY <1>1 DEF InBlock, Blocks
<1> QED
  BY <1>1, <1>2 DEF InStep, Outside

(* No turn loses step with a regular bank.                                 *)
LEMMA InStepKept ==
    ASSUME TypeOK, InStep, IsRegular(bank), [Next]_vars
    PROVE  InStep' /\ IsRegular(bank')
<1>0. bank \in Seq(Words) /\ j \in Nat \ {0} /\ FirstEvent \in Nat
  BY BanksAreWords, FirstEventIsNat DEF TypeOK
<1>1. CASE UNCHANGED vars
  BY <1>1 DEF vars, wordVars, InStep, Inside, Outside
<1>2. (j + 1) - 1 = j /\ (j - 1) + 1 = j
  BY <1>0
<1>3. ASSUME Steps PROVE bank' = bank /\ j' = j + 1 /\ outcome' = outcome /\ j \in DOMAIN bank /\ j' - 1 = j
  BY <1>2, <1>3 DEF Steps
<1>4. CASE /\ Steps /\ bank[j].type = "block_header"
           /\ slot' = bank[j].slot /\ nevents' = bank[j].n /\ index' = index
           /\ UNCHANGED <<number, hits>>
  <2>1. InBlock(bank, j + 1) /\ BlockOf(bank, j) = j /\ Ordinal(bank, j) = 0
    BY <1>0, <1>4, HeaderOpens
  <2>2. ~InBlock(bank, j) /\ index = 0
    BY <1>3, <1>4, RegularWord DEF InStep, Outside
  <2>3. bank[j].n \in Nat
    <3>1. bank[j] \in Words
      BY <1>0, <1>3, <1>4
    <3> QED
      BY <3>1 DEF Words
  <2>4. bank[j].n = bank[j].n - 0 /\ bank[j].n >= 0 /\ ~(0 > 0)
    BY <2>3
  <2>5. Inside'
    BY <1>3, <1>4, <2>1, <2>2, <2>4 DEF Inside
  <2> QED
    BY <1>3, <1>4, <2>1, <2>5 DEF InStep
<1>5. CASE /\ Steps /\ bank[j].type = "block_trailer" /\ InBlock(bank, j)
           /\ nevents' = -1 /\ index' = 0
           /\ UNCHANGED <<slot, number, hits>>
  <2>1. ~InBlock(bank, j + 1)
    BY <1>0, <1>5, TrailerCloses
  <2> QED
    BY <1>3, <1>5, <2>1 DEF InStep, Outside
<1>6. CASE /\ Steps /\ bank[j].type = "event_header" /\ InBlock(bank, j)
           /\ nevents > 0 /\ nevents' = nevents - 1
           /\ number' = FirstEvent + index /\ index' = index + 1
           /\ hits' = Opened(FirstEvent + index)
           /\ UNCHANGED slot
  <2>1. /\ InBlock(bank, j + 1)
        /\ BlockOf(bank, j) = BlockOf(bank, j - 1)
        /\ Ordinal(bank, j) = Ordinal(bank, j - 1) + 1
    BY <1>0, <1>6, EventIsNext
  <2>2. Inside
    BY <1>6 DEF InStep
  <2>3. Ordinal(bank, j - 1) \in Nat
    <3>1. Blocks(bank, j - 1) # {} /\ j - 1 \in Nat
      BY <1>0, <1>6 DEF InBlock
    <3> QED
      BY <3>1, OrdinalIsNat, Zenon
  <2>4. bank[BlockOf(bank, j - 1)].n \in Nat
    <3>1. BlockOf(bank, j - 1) \in 1..(j - 1)
      BY <1>0, <1>6, LastHeader DEF InBlock
    <3>2. BlockOf(bank, j - 1) \in 1..Len(bank)
      BY <1>0, <1>3, <1>6, <3>1
    <3>3. bank[BlockOf(bank, j - 1)] \in Words
      BY <1>0, <3>2
    <3> QED
      BY <3>3 DEF Words
  <2>5. nevents' >= 0 /\ nevents' = bank[BlockOf(bank, j)].n - Ordinal(bank, j)
    <3>1. nevents = bank[BlockOf(bank, j - 1)].n - Ordinal(bank, j - 1)
      BY <2>2 DEF Inside
    <3>2. nevents > 0 /\ nevents' = nevents - 1
      BY <1>6
    <3> QED
      BY <2>1, <2>3, <2>4, <3>1, <3>2
  <2>6. slot' = bank[BlockOf(bank, j)].slot /\ index' = Ordinal(bank, j)
    BY <1>6, <2>1, <2>2 DEF Inside
  <2>7. number' = FirstEvent + index' - 1 /\ number' \in DOMAIN hits'
    <3>1. index \in Nat
      BY DEF TypeOK
    <3>2. number' = FirstEvent + index /\ index' = index + 1 /\ number' \in DOMAIN hits'
      BY <1>6 DEF Opened
    <3> QED
      BY <1>0, <3>1, <3>2
  <2>8. Inside'
    BY <1>3, <1>6, <2>5, <2>6, <2>7 DEF Inside
  <2> QED
    BY <1>3, <1>6, <2>1, <2>8 DEF InStep
<1>7. CASE Strides /\ Credits(HitsAt(j))
  <2> DEFINE p == j - 1
             r == j' - 1
  <2>1. bank' = bank /\ outcome' = outcome /\ UNCHANGED <<slot, nevents, index, number>>
    BY <1>7 DEF Strides, Credits
  <2>2. p \in Nat /\ r \in Nat /\ p <= r /\ p + 1 = j /\ r + 1 = j'
    <3>1. j' \in Nat /\ j < j'
      BY <1>7 DEF Strides
    <3>2. j \in Nat /\ j >= 1
      BY <1>0
    <3>3. \A m, n \in Nat : m >= 1 /\ m < n =>
             m - 1 \in Nat /\ n - 1 \in Nat /\ m - 1 <= n - 1 /\ (m - 1) + 1 = m /\ (n - 1) + 1 = n
      OBVIOUS
    <3> QED
      BY <3>1, <3>2, <3>3
  <2>3. \A q \in (p + 1)..r : bank[q].type \notin Delimiters
    <3>1. ASSUME NEW q \in j..r, q # j PROVE bank[q].type \notin Delimiters
      <4>1. q \in (j + 1)..r
        BY <1>0, <2>2, <3>1
      <4>2. bank[q].type = "continuation"
        BY <1>7, <4>1 DEF Strides, IsContinuation
      <4> QED
        BY <4>2 DEF Delimiters
    <3>2. bank[j].type \notin Delimiters
      BY <1>7 DEF Strides
    <3> QED
      BY <2>2, <3>1, <3>2
  <2>4. DOMAIN hits' = DOMAIN hits
    BY <1>7 DEF Credits
  <2> HIDE DEF p, r
  <2>5. /\ BlockOf(bank, r) = BlockOf(bank, p)
        /\ InBlock(bank, r + 1) <=> InBlock(bank, p + 1)
        /\ InBlock(bank, p + 1) => Ordinal(bank, r) = Ordinal(bank, p)
    BY <2>2, <2>3, Stretch
  <2>6. CASE InBlock(bank, j)
    <3>1. Inside
      BY <2>6 DEF InStep
    <3>2. Inside'
      BY <2>1, <2>2, <2>4, <2>5, <2>6, <3>1 DEF Inside, p, r
    <3> QED
      BY <2>1, <2>2, <2>5, <2>6, <3>2 DEF InStep
  <2>7. CASE ~InBlock(bank, j)
    BY <2>1, <2>2, <2>5, <2>7 DEF InStep, Outside
  <2> QED
    BY <2>6, <2>7
<1>8. CASE /\ outcome' = "done"
           /\ UNCHANGED <<parser, bank, j, slot, nevents, index, number, hits>>
  BY <1>8 DEF InStep, Inside, Outside
<1> QED
  BY <1>1, <1>4, <1>5, <1>6, <1>7, <1>8, RegularTurns DEF RegularTurn

RegularBanksAreFollowed == IsRegular(bank) => InStep

(* So it is for all banks at once, since the bank stays the same.          *)
LEMMA FollowedKept ==
    ASSUME TypeOK, RegularBanksAreFollowed, [Next]_vars
    PROVE  RegularBanksAreFollowed' /\ bank' = bank
<1>1. bank \in Seq(Words) /\ parser \in Parsers /\ j \in Nat
  BY BanksAreWords DEF TypeOK
<1>2. CASE UNCHANGED vars
  BY <1>2 DEF vars, wordVars, RegularBanksAreFollowed, InStep, Inside, Outside
<1>3. CASE Next
  <2>1. bank' = bank
    BY <1>1, <1>3, TurnsAndEnds DEF Ends, BlockBegins, BlockEnds, EventBegins, DataIsRead, Turn
  <2>2. IsRegular(bank) => InStep'
    BY <1>3, InStepKept DEF RegularBanksAreFollowed
  <2> QED
    BY <2>1, <2>2 DEF RegularBanksAreFollowed
<1> QED
  BY <1>2, <1>3

(* A regular bank is neither refused nor read beyond its end, whichever    *)
(* the parser, however many blocks there are and however long they are.    *)
THEOREM Acceptance == Spec => []RegularBanksAreAccepted
<1>1. Init => TypeOK /\ RegularBanksAreFollowed
  BY TypesInitially, InStepInitially DEF RegularBanksAreFollowed
<1>2. TypeOK /\ RegularBanksAreFollowed /\ [Next]_vars => TypeOK' /\ RegularBanksAreFollowed'
  BY TypesKept, FollowedKept
<1>3. RegularBanksAreFollowed => RegularBanksAreAccepted
  BY DEF InStep, RegularBanksAreFollowed, RegularBanksAreAccepted
<1> QED
  BY <1>1, <1>2, <1>3, PTL DEF Spec

-----------------------------------------------------------------------------
(* The hits of a regular bank.  The entry <<n, k>> is the k-th hit of the  *)
(* event n; EntriesAt are those made by the word at p.                     *)

EntriesAt(h, p) ==
    UNION {{<<n, k>> : k \in {l \in DOMAIN h[n] : h[n][l][1] = p}} : n \in DOMAIN h}

IsEntry(h, n, k, p) == n \in DOMAIN h /\ k \in DOMAIN h[n] /\ h[n][k][1] = p

(* The places of a word among the hits, one by one.                        *)
LEMMA EntryIs ==
    ASSUME NEW h, NEW p, NEW e
    PROVE  e \in EntriesAt(h, p) <=> \E n, k : e = <<n, k>> /\ IsEntry(h, n, k, p)
<1> DEFINE Of(n) == {<<n, k>> : k \in {l \in DOMAIN h[n] : h[n][l][1] = p}}
<1>1. e \in EntriesAt(h, p) <=> \E n \in DOMAIN h : e \in Of(n)
  BY DEF EntriesAt
<1>2. ASSUME NEW n
      PROVE  e \in Of(n) <=> \E k : e = <<n, k>> /\ k \in DOMAIN h[n] /\ h[n][k][1] = p
  OBVIOUS
<1> HIDE DEF Of
<1> QED
  BY <1>1, <1>2, Zenon DEF IsEntry

(* The same entries make the same sets of them.                            *)
LEMMA SameEntries ==
    ASSUME NEW h, NEW g, NEW p, \A n, k : IsEntry(h, n, k, p) <=> IsEntry(g, n, k, p)
    PROVE  EntriesAt(h, p) = EntriesAt(g, p)
<1>1. ASSUME NEW e PROVE e \in EntriesAt(h, p) <=> e \in EntriesAt(g, p)
  BY EntryIs, ZenonT(60)
<1> QED
  BY <1>1, Zenon

(* A word without places has none to count.                                *)
LEMMA NoEntries ==
    ASSUME NEW h, NEW p, \A n, k : ~IsEntry(h, n, k, p)
    PROVE  Cardinality(EntriesAt(h, p)) = 0
<1>1. EntriesAt(h, p) = {}
  BY EntryIs, Zenon
<1> QED
  BY <1>1, FS_EmptySet

\* The places that an appended sequence takes are as many as its elements.
Places(n, m, count) == {<<n, m + i>> : i \in 1..count}

(* The places after the m-th are as many as the hits appended there.       *)
LEMMA PlacesCounted ==
    ASSUME NEW n, NEW m \in Nat, NEW count \in Nat
    PROVE  Cardinality(Places(n, m, count)) = count
<1> DEFINE P == {<<n, m + i>> : i \in 1..count}
           f == [i \in 1..count |-> <<n, m + i>>]
<1>1. f \in [1..count -> P]
  OBVIOUS
<1>2. \A i, l \in 1..count : f[i] = f[l] => i = l
  OBVIOUS
<1>3. \A t \in P : \E i \in 1..count : f[i] = t
  OBVIOUS
<1> HIDE DEF f
<1>4. ExistsBijection(1..count, P)
  <2> HIDE DEF P
  <2>1. f \in Bijection(1..count, P)
    BY <1>1, <1>2, <1>3 DEF Bijection, Injection, Surjection, IsInjective
  <2> QED
    BY <2>1 DEF ExistsBijection
<1>5. Cardinality(P) = count
  <2> HIDE DEF P
  <2> QED
    BY <1>4, FS_CountingElements
<1> QED
  BY <1>5 DEF P, Places

\* In the hits g, count hits of the word at p are appended to those of n in h.
Appended(h, n, p, count, g) ==
    /\ n \in DOMAIN h
    /\ g = [h EXCEPT ![n] = @ \o [i \in 1..count |-> <<p, i>>]]

LengthenedBy(h, n, p, count, g) ==
    /\ DOMAIN g = DOMAIN h
    /\ \A m \in DOMAIN h : m # n => g[m] = h[m]
    /\ DOMAIN h[n] = 1..Len(h[n]) /\ DOMAIN g[n] = 1..(Len(h[n]) + count)
    /\ \A k \in 1..Len(h[n]) : g[n][k] = h[n][k]
    /\ \A k \in (Len(h[n]) + 1)..(Len(h[n]) + count) : g[n][k] = <<p, k - Len(h[n])>>

(* What hits.push_back does to the list of the event.                      *)
LEMMA AppendedElements ==
    ASSUME NEW h, NEW n, NEW p \in Nat, NEW count \in Nat, NEW g, Appended(h, n, p, count, g),
           h[n] \in Seq(Nat \X Nat)
    PROVE  LengthenedBy(h, n, p, count, g)
<1> DEFINE s == h[n]
           t == [i \in 1..count |-> <<p, i>>]
           l == Len(s)
<1>1. s \in Seq(Nat \X Nat) /\ t \in Seq(Nat \X Nat) /\ Len(t) = count /\ l \in Nat
  OBVIOUS
<1>2. \A i \in 1..count : t[i] = <<p, i>>
  OBVIOUS
<1>3. DOMAIN g = DOMAIN h /\ (\A m \in DOMAIN h : m # n => g[m] = h[m]) /\ g[n] = s \o t
  BY DEF Appended
<1> HIDE DEF s, t
<1>4. DOMAIN s = 1..l /\ Len(s \o t) = l + count /\ s \o t \in Seq(Nat \X Nat)
  <2>1. s \o t \in Seq(Nat \X Nat) /\ Len(s \o t) = Len(s) + Len(t)
    BY <1>1, ConcatProperties
  <2>2. DOMAIN s = 1..Len(s)
    BY <1>1, LenProperties
  <2> QED
    BY <1>1, <2>1, <2>2
<1>5. DOMAIN (s \o t) = 1..(l + count)
  BY <1>4
<1>6. \A k \in 1..l : (s \o t)[k] = s[k]
  BY <1>1, <1>4
<1>7. ASSUME NEW k \in (l + 1)..(l + count) PROVE (s \o t)[k] = <<p, k - l>>
  <2>1. k - l \in 1..count
    BY <1>1
  <2>2. (s \o t)[k] = t[k - l]
    BY SMTT(30), <1>1
  <2> QED
    BY <1>2, <2>1, <2>2
<1> QED
  BY <1>3, <1>4, <1>5, <1>6, <1>7 DEF s, LengthenedBy

\* An entry of the appended hits is an earlier one, or one of the new ones.
Gains(h, n, p, count, g) ==
    \A m, k, q : IsEntry(g, m, k, q) <=>
        \/ IsEntry(h, m, k, q)
        \/ m = n /\ q = p /\ k \in (Len(h[n]) + 1)..(Len(h[n]) + count)

(* What that does to the places of words among the hits.                   *)
LEMMA AppendedEntries ==
    ASSUME NEW h, NEW n, NEW p \in Nat, NEW count \in Nat, NEW g, Appended(h, n, p, count, g),
           h[n] \in Seq(Nat \X Nat)
    PROVE  Gains(h, n, p, count, g)
<1> DEFINE l == Len(h[n])
<1>1. /\ DOMAIN g = DOMAIN h
      /\ \A m \in DOMAIN h : m # n => g[m] = h[m]
      /\ DOMAIN h[n] = 1..l /\ DOMAIN g[n] = 1..(l + count)
      /\ \A k \in 1..l : g[n][k] = h[n][k]
      /\ \A k \in (l + 1)..(l + count) : g[n][k] = <<p, k - l>>
  <2>1. LengthenedBy(h, n, p, count, g)
    BY AppendedElements
  <2> QED
    BY <2>1 DEF LengthenedBy
<1>2. n \in DOMAIN h
  BY DEF Appended
<1>3. l \in Nat
  OBVIOUS
<1> HIDE DEF l
<1>4. ASSUME NEW m, NEW k, NEW q, m # n
      PROVE  IsEntry(g, m, k, q) <=> IsEntry(h, m, k, q)
  BY <1>1, <1>4 DEF IsEntry
<1>5. \A k : k \in 1..(l + count) <=> k \in 1..l \/ k \in (l + 1)..(l + count)
  BY <1>3
<1>6. \A k \in (l + 1)..(l + count) : k \notin 1..l /\ g[n][k][1] = p
  BY <1>1, <1>3
<1>7. ASSUME NEW k, NEW q
      PROVE  IsEntry(g, n, k, q) <=> IsEntry(h, n, k, q) \/ (q = p /\ k \in (l + 1)..(l + count))
  <2>1. IsEntry(g, n, k, q) <=> k \in 1..(l + count) /\ g[n][k][1] = q
    BY <1>1, <1>2 DEF IsEntry
  <2>2. IsEntry(h, n, k, q) <=> k \in 1..l /\ g[n][k][1] = q
    BY <1>1, <1>2 DEF IsEntry
  <2> QED
    BY <1>5, <1>6, <2>1, <2>2, Zenon
<1> SUFFICES ASSUME NEW m, NEW k, NEW q
             PROVE  IsEntry(g, m, k, q) <=>
                       \/ IsEntry(h, m, k, q)
                       \/ m = n /\ q = p /\ k \in (l + 1)..(l + count)
  BY DEF l, Gains
<1>8. CASE m = n
  BY <1>7, <1>8
<1>9. CASE m # n
  BY <1>4, <1>9, Zenon
<1> QED
  BY <1>8, <1>9

-----------------------------------------------------------------------------
(* Where the hits of a regular bank are, in which order and how many.      *)

InPlace ==
    \A n, k, p : IsEntry(hits, n, k, p) =>
        p \in 1..(j - 1) /\ n = FirstEvent + Ordinal(bank, p) - 1

Precedes(x, y) == x[1] < y[1] \/ (x[1] = y[1] /\ x[2] < y[2])

InOrder ==
    \A n \in DOMAIN hits : \A k, l \in DOMAIN hits[n] : k < l => Precedes(hits[n][k], hits[n][l])

Counted == \A p \in 1..(j - 1) : HitsAt(p) = Cardinality(EntriesAt(hits, p))

(* The hits that a word makes can be counted.                              *)
LEMMA HitsAtIsNat ==
    ASSUME TypeOK, NEW p \in DOMAIN bank
    PROVE  HitsAt(p) \in Nat
<1>1. bank \in Seq(Words) /\ p \in Nat
  BY BanksAreWords DEF TypeOK
<1>2. Pairs(bank, p) \in Nat /\ Following(bank, p) \in Nat
  BY <1>1, PairsIsNat, FollowingIsNat
<1>3. Following(bank, p) \div 3 \in Nat
  BY <1>2
<1> QED
  BY <1>2, <1>3 DEF HitsAt

\* A turn over words that make no hits.
LEMMA NothingCredited ==
    ASSUME TypeOK, InPlace, Counted, bank' = bank, parser' = parser,
           j' \in Nat, j <= j', \A p \in j..(j' - 1) : HitsAt(p) = 0,
           \A n, k, p : IsEntry(hits', n, k, p) <=> IsEntry(hits, n, k, p)
    PROVE  InPlace' /\ Counted'
<1>1. j \in Nat /\ j >= 1
  BY DEF TypeOK
<1>2. \A p : p \in 1..(j' - 1) <=> p \in 1..(j - 1) \/ p \in j..(j' - 1)
  BY <1>1
<1>3. InPlace'
  BY <1>2 DEF InPlace
<1>4. \A p : HitsAt(p)' = HitsAt(p)
  BY DEF HitsAt
<1>5. ASSUME NEW p \in 1..(j - 1) PROVE HitsAt(p) = Cardinality(EntriesAt(hits', p))
  <2>1. EntriesAt(hits', p) = EntriesAt(hits, p)
    BY SameEntries
  <2> QED
    BY <2>1 DEF Counted
<1>6. ASSUME NEW p \in j..(j' - 1) PROVE HitsAt(p) = Cardinality(EntriesAt(hits', p))
  <2>1. p \notin 1..(j - 1)
    BY <1>1
  <2>2. \A n, k : ~IsEntry(hits', n, k, p)
    BY <2>1 DEF InPlace
  <2>3. Cardinality(EntriesAt(hits', p)) = 0
    BY <2>2, NoEntries
  <2> QED
    BY <2>3
<1>7. Counted'
  BY <1>2, <1>4, <1>5, <1>6 DEF Counted
<1> QED
  BY <1>3, <1>7

(* Words that are passed over make no hits of their own.                   *)
LEMMA ContinuationsMakeNoHits ==
    ASSUME Strides, NEW p \in (j + 1)..(j' - 1)
    PROVE  HitsAt(p) = 0
<1>1. bank[p].type = "continuation"
  BY DEF Strides, IsContinuation
<1> QED
  BY <1>1 DEF HitsAt

(* Lists of hits are sequences.                                            *)
LEMMA HitsAreTyped ==
    ASSUME TypeOK, NEW n \in DOMAIN hits
    PROVE  hits[n] \in Seq(Nat \X Nat) /\ DOMAIN hits[n] = 1..Len(hits[n]) /\ Len(hits[n]) \in Nat
<1>1. hits[n] \in Seq(Nat \X Nat)
  BY DEF TypeOK
<1> QED
  BY <1>1, LenProperties

\* A turn at a word whose hits are appended to those of the current event.
LEMMA SomeCredited ==
    ASSUME TypeOK, InPlace, InOrder, Counted, Strides, number \in DOMAIN hits,
           number = FirstEvent + Ordinal(bank, j) - 1,
           hits' = [hits EXCEPT ![number] = @ \o [i \in 1..HitsAt(j) |-> <<j, i>>]]
    PROVE  InPlace' /\ InOrder' /\ Counted'
<1> DEFINE n == number
           count == HitsAt(j)
           g == hits'
           l == Len(hits[n])
<1>1. j \in Nat /\ j >= 1 /\ j \in DOMAIN bank
  BY DEF TypeOK, Strides
<1>2. count \in Nat
  BY <1>1, HitsAtIsNat
<1>3. hits[n] \in Seq(Nat \X Nat) /\ DOMAIN hits[n] = 1..l /\ l \in Nat
  BY HitsAreTyped
<1>4. Appended(hits, n, j, count, g)
  BY DEF Appended
<1>5. j' \in Nat /\ j < j' /\ bank' = bank /\ parser' = parser
  BY DEF Strides
<1>6. \A p : HitsAt(p)' = HitsAt(p)
  BY <1>5 DEF HitsAt
<1>7. LengthenedBy(hits, n, j, count, g)
  <2> HIDE DEF n, count, g, l
  <2> QED
    BY <1>1, <1>2, <1>3, <1>4, AppendedElements
<1>8. \A m, k, q : IsEntry(g, m, k, q) <=>
         \/ IsEntry(hits, m, k, q)
         \/ m = n /\ q = j /\ k \in (l + 1)..(l + count)
  <2>1. Gains(hits, n, j, count, g)
    <3> HIDE DEF n, count, g
    <3> QED
      BY <1>1, <1>2, <1>3, <1>4, AppendedEntries
  <2> QED
    BY <2>1 DEF Gains
<1>9. \A p : p \in 1..(j' - 1) <=> p \in 1..(j - 1) \/ p = j \/ p \in (j + 1)..(j' - 1)
  BY <1>1, <1>5
<1>10. \A p \in (j + 1)..(j' - 1) : p # j /\ p \notin 1..(j - 1)
  BY <1>1
<1>11. j \notin 1..(j - 1) /\ \A p \in 1..(j - 1) : p # j
  BY <1>1
<1>12. InPlace'
  <2> SUFFICES ASSUME NEW m, NEW k, NEW p, IsEntry(g, m, k, p)
               PROVE  p \in 1..(j' - 1) /\ m = FirstEvent + Ordinal(bank, p) - 1
    BY <1>5 DEF InPlace
  <2>1. CASE IsEntry(hits, m, k, p)
    <3>1. p \in 1..(j - 1) /\ m = FirstEvent + Ordinal(bank, p) - 1
      BY <2>1, Zenon DEF InPlace
    <3> QED
      BY <1>9, <3>1
  <2>2. CASE m = n /\ p = j
    BY <1>9, <2>2
  <2>3. IsEntry(hits, m, k, p) \/ (m = n /\ p = j)
    <3> HIDE DEF g, n, l, count
    <3> QED
      BY <1>8
  <2> QED
    BY <2>1, <2>2, <2>3, Zenon
<1>13. InOrder'
  <2> SUFFICES ASSUME NEW m \in DOMAIN g, NEW a \in DOMAIN g[m], NEW b \in DOMAIN g[m], a < b
               PROVE  Precedes(g[m][a], g[m][b])
    BY DEF InOrder
  <2> HIDE DEF g, n, count
  <2>1. DOMAIN g = DOMAIN hits
    BY <1>7 DEF LengthenedBy
  <2>2. CASE m # n
    <3>1. g[m] = hits[m]
      BY <1>7, <2>1, <2>2 DEF LengthenedBy
    <3> QED
      BY <2>1, <3>1 DEF InOrder
  <2>3. CASE m = n
    <3>1. /\ a \in 1..(l + count) /\ b \in 1..(l + count)
          /\ \A k \in 1..l : g[n][k] = hits[n][k]
          /\ \A k \in (l + 1)..(l + count) : g[n][k] = <<j, k - l>>
      BY <1>7, <2>3 DEF LengthenedBy
    <3> HIDE DEF l
    <3>2. \/ a \in 1..l /\ b \in 1..l
          \/ a \in 1..l /\ b \in (l + 1)..(l + count)
          \/ a \in (l + 1)..(l + count) /\ b \in (l + 1)..(l + count)
      <4>1. \A x, y \in 1..(l + count) : x < y =>
               \/ x \in 1..l /\ y \in 1..l
               \/ x \in 1..l /\ y \in (l + 1)..(l + count)
               \/ x \in (l + 1)..(l + count) /\ y \in (l + 1)..(l + count)
        <5>1. l \in Nat
          BY <1>3
        <5> QED
          BY <1>2, <5>1
      <4> QED
        BY <3>1, <4>1, Zenon
    <3>3. CASE a \in 1..l /\ b \in 1..l
      <4>1. Precedes(hits[n][a], hits[n][b])
        BY <1>3, <2>1, <2>3, <3>3 DEF InOrder
      <4> QED
        BY <2>3, <3>1, <3>3, <4>1
    <3>4. CASE a \in 1..l /\ b \in (l + 1)..(l + count)
      <4>1. IsEntry(hits, n, a, hits[n][a][1])
        BY <1>3, <2>1, <2>3, <3>4 DEF IsEntry
      <4>2. hits[n][a][1] \in 1..(j - 1)
        BY <4>1 DEF InPlace
      <4>3. g[n][a] = hits[n][a] /\ g[n][b] = <<j, b - l>>
        BY <3>1, <3>4
      <4>4. hits[n][a][1] < j
        BY <1>1, <4>2
      <4> QED
        BY <2>3, <4>3, <4>4 DEF Precedes
    <3>5. CASE a \in (l + 1)..(l + count) /\ b \in (l + 1)..(l + count)
      <4>1. g[n][a] = <<j, a - l>> /\ g[n][b] = <<j, b - l>>
        BY <3>1, <3>5
      <4>2. a - l < b - l
        BY <1>3, <3>5
      <4> QED
        BY <2>3, <4>1, <4>2 DEF Precedes
    <3> QED
      BY <3>2, <3>3, <3>4, <3>5
  <2> QED
    BY <2>2, <2>3
<1>14. Counted'
  <2> SUFFICES ASSUME NEW p \in 1..(j' - 1) PROVE HitsAt(p) = Cardinality(EntriesAt(g, p))
    BY <1>6 DEF Counted
  <2> HIDE DEF g, n
  <2>1. CASE p \in 1..(j - 1)
    <3>1. EntriesAt(hits, p) = EntriesAt(g, p)
      BY <1>8, <1>11, <2>1, SameEntries
    <3> QED
      BY <2>1, <3>1 DEF Counted
  <2>2. CASE p = j
    <3>1. \A m, k : ~IsEntry(hits, m, k, j)
      BY <1>11 DEF InPlace
    <3>2. ASSUME NEW e
          PROVE  e \in EntriesAt(g, j) <=> e \in {<<n, l + i>> : i \in 1..count}
      <4> HIDE DEF l, count
      <4>1. e \in EntriesAt(g, j) <=> \E m, k : e = <<m, k>> /\ IsEntry(g, m, k, j)
        BY EntryIs
      <4>2. (\E m, k : e = <<m, k>> /\ IsEntry(g, m, k, j)) <=> \E k \in (l + 1)..(l + count) : e = <<n, k>>
        BY <1>8, <3>1, Zenon DEF l
      <4>3. ASSUME NEW k \in (l + 1)..(l + count) PROVE \E i \in 1..count : <<n, k>> = <<n, l + i>>
        <5>1. k - l \in 1..count /\ k = l + (k - l)
          BY <1>2, <1>3
        <5> QED
          BY <5>1
      <4>4. ASSUME NEW i \in 1..count PROVE l + i \in (l + 1)..(l + count)
        BY <1>2, <1>3
      <4> QED
        BY <4>1, <4>2, <4>3, <4>4
    <3>3. EntriesAt(g, j) = Places(n, l, count)
      <4> HIDE DEF l, count
      <4> QED
        BY <3>2, Zenon DEF Places
    <3>4. Cardinality(Places(n, l, count)) = count
      <4> HIDE DEF l, count
      <4> QED
        BY <1>2, <1>3, PlacesCounted
    <3> QED
      BY <2>2, <3>3, <3>4
  <2>3. CASE p \in (j + 1)..(j' - 1)
    <3>1. HitsAt(p) = 0
      BY <2>3, ContinuationsMakeNoHits
    <3>2. \A m, k : ~IsEntry(g, m, k, p)
      BY <1>8, <1>10, <2>3 DEF InPlace
    <3>3. Cardinality(EntriesAt(g, p)) = 0
      BY <3>2, NoEntries
    <3> QED
      BY <3>1, <3>3
  <2> QED
    BY <1>9, <2>1, <2>2, <2>3
<1> QED
  BY <1>12, <1>13, <1>14


(* The three are kept by every step over a regular bank.                   *)
LEMMA CreditKept ==
    ASSUME TypeOK, InStep, IsRegular(bank), InPlace, InOrder, Counted, [Next]_vars
    PROVE  InPlace' /\ InOrder' /\ Counted'
<1>0. j \in Nat /\ j >= 1 /\ \A p \in Nat : j <= p => p \in Int
  BY DEF TypeOK
<1>1. CASE UNCHANGED <<parser, bank, j, hits>>
  <2>1. \A p : HitsAt(p)' = HitsAt(p)
    BY <1>1 DEF HitsAt
  <2> QED
    BY <1>1, <2>1 DEF InPlace, InOrder, Counted
<1>2. ASSUME Steps, HitsAt(j) = 0,
             \A n, k, p : IsEntry(hits', n, k, p) <=> IsEntry(hits, n, k, p)
      PROVE  InPlace' /\ Counted'
  <2>1. j' \in Nat /\ j <= j' /\ \A p \in j..(j' - 1) : p = j
    BY <1>0, <1>2 DEF Steps
  <2>2. bank' = bank /\ parser' = parser
    BY <1>2 DEF Steps
  <2> QED
    BY <1>2, <2>1, <2>2, NothingCredited
<1>3. ASSUME bank[j].type \in Delimiters PROVE HitsAt(j) = 0
  BY <1>3 DEF Delimiters, HitsAt
<1>4. ASSUME hits' = hits
      PROVE  /\ InOrder'
             /\ \A n, k, p : IsEntry(hits', n, k, p) <=> IsEntry(hits, n, k, p)
  BY <1>4 DEF InOrder
<1>5. CASE Steps /\ bank[j].type \in Delimiters /\ hits' = hits
  BY <1>2, <1>3, <1>4, <1>5
<1>6. CASE Steps /\ bank[j].type = "event_header" /\ hits' = Opened(FirstEvent + index)
  <2> DEFINE new == FirstEvent + index
  <2>1. /\ DOMAIN hits' = DOMAIN hits \cup {new}
        /\ \A n \in DOMAIN hits : hits'[n] = hits[n]
        /\ new \notin DOMAIN hits => DOMAIN hits'[new] = {}
    BY <1>6 DEF Opened
  <2> HIDE DEF new
  <2>2. \A n, k, p : IsEntry(hits', n, k, p) <=> IsEntry(hits, n, k, p)
    BY <2>1 DEF IsEntry
  <2>3. InOrder'
    BY <2>1 DEF InOrder
  <2> QED
    BY <1>2, <1>3, <1>6, <2>2, <2>3 DEF Delimiters
<1>7. CASE Strides /\ Credits(HitsAt(j))
  <2>1. j \in DOMAIN bank /\ bank[j].type \notin Delimiters
    BY <1>7 DEF Strides
  <2>2. CASE HitsAt(j) = 0 /\ hits' = hits
    <3>1. \A p \in j..(j' - 1) : p = j \/ p \in (j + 1)..(j' - 1)
      BY <1>0
    <3>2. \A p \in j..(j' - 1) : HitsAt(p) = 0
      BY <1>7, <2>2, <3>1, ContinuationsMakeNoHits
    <3>3. j' \in Nat /\ j <= j' /\ bank' = bank /\ parser' = parser
      BY <1>0, <1>7 DEF Strides
    <3> QED
      BY <1>4, <2>2, <3>2, <3>3, NothingCredited
  <2>3. CASE /\ number \in DOMAIN hits
             /\ InBlock(bank, j) /\ index > 0
             /\ hits' = [hits EXCEPT ![number] = @ \o [i \in 1..HitsAt(j) |-> <<j, i>>]]
    <3>1. Inside
      BY <2>3 DEF InStep
    <3>2. number = FirstEvent + index - 1 /\ index = Ordinal(bank, j - 1)
      BY <2>3, <3>1 DEF Inside
    <3>3. j - 1 \in Nat /\ j \in Nat /\ j - 1 <= j /\ (j - 1) + 1 = j /\ \A q \in j..j : q = j
      BY <1>0
    <3>4. \A q \in ((j - 1) + 1)..j : bank[q].type \notin Delimiters
      BY <2>1, <3>3
    <3>5. Ordinal(bank, j) = Ordinal(bank, j - 1)
      BY <2>3, <3>3, <3>4, Stretch
    <3>6. number = FirstEvent + Ordinal(bank, j) - 1
      BY <3>2, <3>5
    <3> QED
      BY <1>7, <2>3, <3>6, SomeCredited
  <2> QED
    BY <1>7, <2>2, <2>3 DEF Credits
<1> QED
  <2>1. CASE UNCHANGED vars
    BY <1>1, <2>1 DEF vars, wordVars
  <2>2. CASE Next
    <3>1. RegularTurn
      BY <2>2, RegularTurns
    <3> QED
      BY <1>1, <1>5, <1>6, <1>7, <3>1 DEF RegularTurn, Delimiters
  <2> QED
    BY <2>1, <2>2

RegularHitsAreCredited == IsRegular(bank) => InPlace /\ InOrder /\ Counted

(* The three parts of the invariant together are what the property says.   *)
LEMMA CreditSuffices ==
    ASSUME InPlace, InOrder, Counted
    PROVE  HitsAreCredited
<1>1. \A n \in DOMAIN hits : \A k \in DOMAIN hits[n] :
         n = FirstEvent + Ordinal(bank, hits[n][k][1]) - 1
  <2>1. \A n \in DOMAIN hits : \A k \in DOMAIN hits[n] : IsEntry(hits, n, k, hits[n][k][1])
    BY DEF IsEntry
  <2> QED
    BY <2>1, Zenon DEF InPlace
<1>2. \A n \in DOMAIN hits : \A k, l \in DOMAIN hits[n] :
         k < l => \/ hits[n][k][1] < hits[n][l][1]
                  \/ hits[n][k][1] = hits[n][l][1] /\ hits[n][k][2] < hits[n][l][2]
  BY Zenon DEF InOrder, Precedes
<1>3. \A p \in 1..(j - 1) : HitsAt(p) =
         Cardinality(UNION {{<<n, k>> : k \in {l \in DOMAIN hits[n] : hits[n][l][1] = p}} :
                               n \in DOMAIN hits})
  BY Zenon DEF Counted, EntriesAt
<1> QED
  BY <1>1, <1>2, <1>3, Zenon DEF HitsAreCredited

(* In any regular bank, every hit is credited once, in order, to the event *)
(* that its header makes it part of, and none is lost.                     *)
THEOREM Crediting == Spec => []HitsAreCredited
<1>1. Init => TypeOK /\ RegularBanksAreFollowed /\ RegularHitsAreCredited
  <2> SUFFICES ASSUME Init PROVE TypeOK /\ RegularBanksAreFollowed /\ RegularHitsAreCredited
    OBVIOUS
  <2>1. DOMAIN hits = {} /\ j = 1 /\ \A p : p \notin 1..(1 - 1)
    BY DEF Init
  <2>2. InPlace /\ InOrder /\ Counted
    BY <2>1 DEF InPlace, IsEntry, InOrder, Counted
  <2> QED
    BY <2>2, TypesInitially, InStepInitially DEF RegularBanksAreFollowed, RegularHitsAreCredited
<1>2. TypeOK /\ RegularBanksAreFollowed /\ RegularHitsAreCredited /\ [Next]_vars =>
         TypeOK' /\ RegularBanksAreFollowed' /\ RegularHitsAreCredited'
  BY TypesKept, FollowedKept, CreditKept DEF RegularBanksAreFollowed, RegularHitsAreCredited
<1>3. RegularHitsAreCredited => HitsAreCredited
  BY CreditSuffices, Zenon DEF RegularHitsAreCredited, HitsAreCredited
<1> QED
  BY <1>1, <1>2, <1>3, PTL DEF Spec

===============================================================================

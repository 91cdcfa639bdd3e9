----------------------- MODULE EventProcessor_proofs -----------------------
(***************************************************************************)
(* Theorems about EventProcessor and the parser of the CAEN1190, for any   *)
(* readouts, any order of the events and any end of the processing.        *)
(***************************************************************************)
EXTENDS EventProcessor, SharedLemmas

-----------------------------------------------------------------------------
(* The loop of ModuleParser_CAEN1190::parse.                               *)

CAENHits == [word : Nat, from : [KeptWords -> Nat]]

HitMaps == UNION {[N -> Seq(CAENHits)] : N \in SUBSET Nat}

ParserStates == [last : [KeptWords -> Nat], index : Nat, number : Nat, hits : HitMaps,
                 broken : BOOLEAN]

(* What a map of hits is.                                                  *)
LEMMA HitMapProperties ==
    ASSUME NEW hits \in HitMaps
    PROVE  /\ DOMAIN hits \subseteq Nat
           /\ hits \in [DOMAIN hits -> Seq(CAENHits)]
           /\ \A n \in DOMAIN hits : hits[n] \in Seq(CAENHits)
  <1>1. PICK N \in SUBSET Nat : hits \in [N -> Seq(CAENHits)]
    BY DEF HitMaps
  <1> QED BY <1>1

(* Before the first word there are no hits.                                *)
LEMMA BeginType == Begin \in ParserStates /\ DOMAIN Begin.hits = {}
  <1>1. << >> \in [1..0 -> Seq(CAENHits)]
    BY EmptySeq, LenProperties
  <1>2. 1..0 = {}
    OBVIOUS
  <1>3. << >> \in HitMaps /\ DOMAIN << >> = {}
    BY <1>1, <1>2 DEF HitMaps
  <1> QED BY <1>3 DEF Begin, ParserStates

\* An event that was opened has its hits, if it had any.
IsOpened(hits, opened, n) ==
    /\ opened \in HitMaps
    /\ DOMAIN opened = DOMAIN hits \cup {n}
    /\ \A m \in DOMAIN hits : opened[m] = hits[m]
    /\ n \notin DOMAIN hits => opened[n] = << >>

(* So it is with OpenedAt.                                                 *)
LEMMA OpenedType ==
    ASSUME NEW hits \in HitMaps, NEW n \in Nat
    PROVE  IsOpened(hits, OpenedAt(hits, n), n)
  <1> DEFINE N == DOMAIN hits \cup {n}
  <1>1. DOMAIN hits \subseteq Nat /\ \A m \in DOMAIN hits : hits[m] \in Seq(CAENHits)
    BY HitMapProperties
  <1>2. << >> \in Seq(CAENHits)
    BY EmptySeq
  <1>3. OpenedAt(hits, n) \in [N -> Seq(CAENHits)]
    BY <1>1, <1>2 DEF OpenedAt
  <1>4. N \in SUBSET Nat
    BY <1>1
  <1>5. OpenedAt(hits, n) \in HitMaps
    <2> HIDE DEF N
    <2> QED BY <1>3, <1>4 DEF HitMaps
  <1> QED BY <1>5 DEF OpenedAt, IsOpened

\* A measurement is added to the event of its number.
IsAdded(hits, added, n, hit) ==
    /\ added \in HitMaps
    /\ DOMAIN added = DOMAIN hits
    /\ added[n] = Append(hits[n], hit)
    /\ \A m \in DOMAIN hits \ {n} : added[m] = hits[m]

(* So it is when the map of hits is updated.                               *)
LEMMA AddedType ==
    ASSUME NEW hits \in HitMaps, NEW n \in DOMAIN hits, NEW hit \in CAENHits
    PROVE  IsAdded(hits, [hits EXCEPT ![n] = Append(@, hit)], n, hit)
  <1>1. /\ DOMAIN hits \in SUBSET Nat /\ hits \in [DOMAIN hits -> Seq(CAENHits)]
        /\ hits[n] \in Seq(CAENHits)
    BY HitMapProperties
  <1>2. Append(hits[n], hit) \in Seq(CAENHits)
    BY <1>1, AppendProperties
  <1> DEFINE longer == Append(hits[n], hit)
             added == [hits EXCEPT ![n] = longer]
  <1> HIDE DEF longer
  <1>3. /\ added \in [DOMAIN hits -> Seq(CAENHits)]
        /\ added[n] = longer
        /\ \A m \in DOMAIN hits \ {n} : added[m] = hits[m]
    BY <1>1, <1>2 DEF longer
  <1> HIDE DEF added
  <1>4. added \in HitMaps /\ DOMAIN added = DOMAIN hits
    BY <1>1, <1>3 DEF HitMaps
  <1> QED BY <1>3, <1>4 DEF added, longer, IsAdded

\* What a turn of the loop does, word by word.
IsTurn(s, t, type, p, first) ==
    /\ type \in KeptWords => t.last = [s.last EXCEPT ![type] = p]
    /\ type \notin KeptWords => t.last = s.last
    /\ type = "global_header" =>
          /\ t.number = first + s.index /\ t.index = s.index + 1
          /\ t.hits = OpenedAt(s.hits, first + s.index)
    /\ type = "global_trailer" => t.index = 0
    /\ type \notin {"global_header", "global_trailer"} => t.index = s.index
    /\ type # "global_header" => t.number = s.number
    /\ type = "measurement" =>
          /\ s.number \in DOMAIN s.hits =>
               /\ t.broken = s.broken
               /\ t.hits = [s.hits EXCEPT ![s.number] = Append(@, [word |-> p, from |-> s.last])]
          /\ s.number \notin DOMAIN s.hits => t.broken /\ t.hits = s.hits
    /\ type # "measurement" => t.broken = s.broken
    /\ type \notin {"global_header", "measurement"} => t.hits = s.hits

(* The loop makes such turns.                                              *)
LEMMA ReadWord ==
    ASSUME NEW s \in ParserStates, NEW type \in CAENWords, NEW p \in Nat, NEW first \in Nat
    PROVE  IsTurn(s, Read(s, type, p, first), type, p, first)
  <1> USE DEF Read, Kept, KeptWords, CAENWords, ParserStates, IsTurn
  <1>1. CASE type = "global_header"
    BY <1>1
  <1>2. CASE type = "global_trailer"
    BY <1>2
  <1>3. CASE type = "measurement"
    <2>1. CASE s.number \in DOMAIN s.hits
      BY <1>3, <2>1
    <2>2. CASE s.number \notin DOMAIN s.hits
      BY <1>3, <2>2
    <2> QED BY <2>1, <2>2
  <1>4. CASE type \in {"tdc_header", "tdc_error", "trigger_time"}
    BY <1>4
  <1>5. CASE type \in {"tdc_trailer", "filler"}
    BY <1>5
  <1> QED BY <1>1, <1>2, <1>3, <1>4, <1>5

(* A turn of the loop leaves a state of the parser.                        *)
LEMMA ReadType ==
    ASSUME NEW s \in ParserStates, NEW type \in CAENWords, NEW p \in Nat, NEW first \in Nat
    PROVE  Read(s, type, p, first) \in ParserStates
  <1> USE DEF Read, Kept, KeptWords, CAENWords
  <1>1. /\ s.last \in [KeptWords -> Nat] /\ s.index \in Nat /\ s.number \in Nat
        /\ s.hits \in HitMaps /\ s.broken \in BOOLEAN
    BY DEF ParserStates
  <1>2. CASE type = "global_header"
    <2>1. first + s.index \in Nat /\ s.index + 1 \in Nat
      BY <1>1
    <2>2. OpenedAt(s.hits, first + s.index) \in HitMaps
      BY <1>1, <2>1, OpenedType DEF IsOpened
    <2> QED BY <1>1, <1>2, <2>1, <2>2 DEF ParserStates
  <1>3. CASE type = "measurement"
    <2>1. CASE s.number \in DOMAIN s.hits
      <3> DEFINE hit == [word |-> p, from |-> s.last]
                 added == [s.hits EXCEPT ![s.number] = Append(@, hit)]
      <3>1. hit \in CAENHits
        BY <1>1 DEF CAENHits
      <3>2. added \in HitMaps
        <4> HIDE DEF hit
        <4> QED BY <1>1, <2>1, <3>1, AddedType DEF IsAdded
      <3>3. Read(s, type, p, first) = [s EXCEPT !.hits = added]
        BY <1>3, <2>1 DEF ParserStates
      <3> HIDE DEF added
      <3> QED BY <3>2, <3>3 DEF ParserStates
    <2>2. CASE s.number \notin DOMAIN s.hits
      BY <1>1, <1>3, <2>2 DEF ParserStates
    <2> QED BY <2>1, <2>2
  <1>4. CASE type = "global_trailer"
    BY <1>1, <1>4 DEF ParserStates
  <1>5. CASE type \in {"tdc_header", "tdc_error", "trigger_time"}
    BY <1>1, <1>5 DEF ParserStates
  <1>6. CASE type \in {"tdc_trailer", "filler"}
    BY <1>6
  <1> QED BY <1>2, <1>3, <1>4, <1>5, <1>6

(* The parse runs through a state for each word of the bank.               *)
LEMMA ParseLoop ==
    ASSUME NEW bank \in Seq(CAENWords), NEW first \in Nat
    PROVE  \E g \in [0..Len(bank) -> ParserStates] :
              /\ g[0] = Begin
              /\ \A p \in 1..Len(bank) : g[p] = Read(g[p - 1], bank[p], p, first)
              /\ ParseCAEN(bank, first) = g[Len(bank)]
  <1> DEFINE n == Len(bank)
             T == ParserStates
             step == [p \in 1..n |-> [s \in T |-> Read(s, bank[p], p, first)]]
             Body(f, p) == IF p = 0 THEN Begin ELSE Read(f[p - 1], bank[p], p, first)
             after == CHOOSE f : f = [p \in 0..n |-> Body(f, p)]
  <1>1. n \in Nat /\ Begin \in T /\ \A p \in 1..n : bank[p] \in CAENWords
    BY LenProperties, ElementOfSeq, BeginType
  <1>2. ParseCAEN(bank, first) = after[n]
    BY DEF ParseCAEN
  <1>3. \A p \in 1..n : \A s \in T : Read(s, bank[p], p, first) \in T
    BY <1>1, ReadType
  <1> HIDE DEF n, T
  <1>4. step \in Turns(n, T)
    BY <1>3 DEF Turns
  <1>5. PICK g : g \in Results(n, T, Begin, step)
    <2> HIDE DEF step
    <2> QED BY <1>1, <1>4, LoopHasResult
  <1>6. g \in [0..n -> T] /\ g[0] = Begin /\ \A k \in 1..n : g[k] = step[k][g[k - 1]]
    BY <1>5 DEF Results
  <1>7. ASSUME NEW k \in 1..n PROVE g[k] = Read(g[k - 1], bank[k], k, first)
    <2>1. g[k - 1] \in T
      BY <1>1, <1>6
    <2> QED BY <1>6, <2>1
  <1>8. g = [p \in 0..n |-> Body(g, p)]
    <2>1. ASSUME NEW p \in 0..n PROVE g[p] = Body(g, p)
      <3>1. CASE p = 0
        BY <1>6, <3>1
      <3>2. CASE p # 0
        <4>1. p \in 1..n
          BY <1>1, <3>2
        <4> QED BY <1>7, <3>2, <4>1
      <3> QED BY <3>1, <3>2
    <2> HIDE DEF Body
    <2> QED BY <1>6, <2>1
  <1>9. after = [p \in 0..n |-> Body(after, p)]
    <2> HIDE DEF Body
    <2> QED BY <1>8
  <1> HIDE DEF after
  <1>10. after[0] = g[0]
    BY <1>1, <1>6, <1>9
  <1>11. ASSUME NEW k \in 1..n, after[k - 1] = g[k - 1] PROVE after[k] = g[k]
    <2>1. k \in 0..n /\ k # 0
      BY <1>1
    <2> QED BY <1>7, <1>9, <1>11, <2>1
  <1>12. after[n] = g[n]
    <2> HIDE DEF step
    <2> QED BY <1>1, <1>10, <1>11, LoopsAgree
  <1> QED BY <1>2, <1>6, <1>7, <1>12 DEF n, T

-----------------------------------------------------------------------------
(* Where the words of a bank are.                                          *)

(* The last word of a type before a position is the greatest of them.      *)
LEMMA LastBeforeIs ==
    ASSUME NEW bank, NEW type, NEW p \in Nat \ {0}
    PROVE  /\ LastBefore(bank, type, p) \in 0..(p - 1)
           /\ LastBefore(bank, type, p) # 0 => bank[LastBefore(bank, type, p)] = type
           /\ \A q \in 1..(p - 1) : bank[q] = type => q <= LastBefore(bank, type, p)
  <1> DEFINE S == {0} \cup {q \in 1..(p - 1) : bank[q] = type}
  <1>1. S \in SUBSET (0..(p - 1)) /\ S # {} /\ p - 1 \in Nat
    OBVIOUS
  <1>2. Max(S) \in S /\ \A q \in S : q <= Max(S)
    <2> HIDE DEF S
    <2> QED BY <1>1, MaxIsGreatest
  <1>3. LastBefore(bank, type, p) = Max(S)
    BY DEF LastBefore
  <1> HIDE DEF LastBefore
  <1> DEFINE m == Max(S)
  <1> HIDE DEF m
  <1>4. m \in S /\ \A q \in S : q <= m
    BY <1>2 DEF m
  <1>5. LastBefore(bank, type, p) = m
    BY <1>3 DEF m
  <1> QED BY <1>4, <1>5

(* A greatest word is the last.                                            *)
LEMMA IsLastBefore ==
    ASSUME NEW bank, NEW type, NEW p \in Nat \ {0}, NEW m \in 0..(p - 1),
           m # 0 => bank[m] = type, \A q \in 1..(p - 1) : bank[q] = type => q <= m
    PROVE  LastBefore(bank, type, p) = m
  <1> DEFINE S == {0} \cup {q \in 1..(p - 1) : bank[q] = type}
  <1>1. S \in SUBSET Int /\ m \in S /\ \A q \in S : q <= m
    OBVIOUS
  <1>2. LastBefore(bank, type, p) = Max(S)
    BY DEF LastBefore
  <1> HIDE DEF S
  <1> QED BY <1>1, <1>2, MaxIs

(* One word further the last word of a type is that word, or the same.     *)
LEMMA LastBeforeNext ==
    ASSUME NEW bank, NEW type, NEW p \in Nat \ {0}
    PROVE  /\ bank[p] = type => LastBefore(bank, type, p + 1) = p
           /\ bank[p] # type => LastBefore(bank, type, p + 1) = LastBefore(bank, type, p)
  <1>1. p + 1 \in Nat \ {0} /\ (p + 1) - 1 = p
    OBVIOUS
  <1>2. \A q \in 1..p : q \in 1..(p - 1) \/ q = p
    OBVIOUS
  <1>3. ASSUME bank[p] = type PROVE LastBefore(bank, type, p + 1) = p
    BY <1>1, <1>3, IsLastBefore
  <1>4. ASSUME bank[p] # type
        PROVE  LastBefore(bank, type, p + 1) = LastBefore(bank, type, p)
    <2> DEFINE m == LastBefore(bank, type, p)
    <2>1. m \in 0..(p - 1) /\ (m # 0 => bank[m] = type)
          /\ \A q \in 1..(p - 1) : bank[q] = type => q <= m
      BY LastBeforeIs
    <2>2. m \in 0..p /\ \A q \in 1..p : bank[q] = type => q <= m
      <3> HIDE DEF m
      <3> QED BY <1>2, <1>4, <2>1
    <2> HIDE DEF m
    <2>3. LastBefore(bank, type, p + 1) = m
      BY <1>1, <2>1, <2>2, IsLastBefore
    <2> QED BY <2>3 DEF m
  <1> QED BY <1>3, <1>4

(* Before the first word there is none.                                    *)
LEMMA NoneBeforeFirst ==
    ASSUME NEW bank, NEW type
    PROVE  LastBefore(bank, type, 1) = 0
  <1>1. 1 \in Nat \ {0} /\ 0 \in 0..(1 - 1) /\ \A q \in 1..(1 - 1) : q <= 0
    OBVIOUS
  <1> QED BY <1>1, IsLastBefore

LEMMA BeforeZero ==
    ASSUME NEW bank, NEW type
    PROVE  LastBefore(bank, type, 0) = 0
  <1> DEFINE S == {0} \cup {q \in 1..(0 - 1) : bank[q] = type}
  <1>1. S \in SUBSET Int /\ 0 \in S /\ \A q \in S : q <= 0
    OBVIOUS
  <1>2. LastBefore(bank, type, 0) = Max(S)
    BY DEF LastBefore
  <1> HIDE DEF S
  <1> QED BY <1>1, <1>2, MaxIs

(* The untrailed headers, word by word.                                    *)
LEMMA UntrailedNext ==
    ASSUME NEW bank, NEW p \in Nat \ {0}
    PROVE  /\ UntrailedBefore(bank, p) \in Nat
           /\ bank[p] = "global_trailer" => UntrailedBefore(bank, p + 1) = 0
           /\ bank[p] = "global_header" =>
                 UntrailedBefore(bank, p + 1) = UntrailedBefore(bank, p) + 1
           /\ bank[p] \notin {"global_header", "global_trailer"} =>
                 UntrailedBefore(bank, p + 1) = UntrailedBefore(bank, p)
  <1> DEFINE Headers(t, r) == {q \in (t + 1)..(r - 1) : bank[q] = "global_header"}
             t == LastBefore(bank, "global_trailer", p)
             u == LastBefore(bank, "global_trailer", p + 1)
  <1>1. /\ UntrailedBefore(bank, p) = Cardinality(Headers(t, p))
        /\ UntrailedBefore(bank, p + 1) = Cardinality(Headers(u, p + 1))
    BY DEF UntrailedBefore
  <1>2. t \in 0..(p - 1)
    BY LastBeforeIs
  <1>3. /\ bank[p] = "global_trailer" => u = p
        /\ bank[p] # "global_trailer" => u = t
    BY LastBeforeNext
  <1> HIDE DEF t, u
  <1>4. IsFiniteSet(Headers(t, p)) /\ Cardinality(Headers(t, p)) \in Nat
    <2>1. IsFiniteSet((t + 1)..(p - 1))
      <3>1. t + 1 \in Int /\ p - 1 \in Int
        BY <1>2
      <3> QED BY <3>1, FS_Interval
    <2>2. Headers(t, p) \in SUBSET ((t + 1)..(p - 1))
      OBVIOUS
    <2> HIDE DEF Headers
    <2> QED BY <2>1, <2>2, FS_Subset, FS_CardinalityType
  <1>5. CASE bank[p] = "global_trailer"
    <2>1. Headers(p, p + 1) = {}
      OBVIOUS
    <2> HIDE DEF Headers
    <2> QED BY <1>1, <1>3, <1>4, <1>5, <2>1, FS_EmptySet
  <1>6. CASE bank[p] = "global_header"
    <2>1. u = t
      BY <1>3, <1>6
    <2>2. \A q : q \in (t + 1)..((p + 1) - 1) <=> q \in (t + 1)..(p - 1) \/ q = p
      BY <1>2
    <2>3. Headers(t, p + 1) = Headers(t, p) \cup {p}
      BY <1>6, <2>2, Zenon
    <2>4. p \notin Headers(t, p)
      BY <1>2
    <2> HIDE DEF Headers
    <2>5. Cardinality(Headers(t, p) \cup {p}) = Cardinality(Headers(t, p)) + 1
      BY <1>4, <2>4, FS_AddElement
    <2> QED BY <1>1, <1>4, <1>6, <2>1, <2>3, <2>5
  <1>7. CASE bank[p] \notin {"global_header", "global_trailer"}
    <2>1. u = t
      BY <1>3, <1>7
    <2>2. \A q : q \in (t + 1)..((p + 1) - 1) <=> q \in (t + 1)..(p - 1) \/ q = p
      BY <1>2
    <2>3. Headers(t, p + 1) = Headers(t, p)
      BY <1>7, <2>2, Zenon
    <2> HIDE DEF Headers
    <2> QED BY <1>1, <1>4, <1>7, <2>1, <2>3
  <1> QED BY <1>5, <1>6, <1>7

(* There are none before the first word.                                   *)
LEMMA NoneUntrailedAtFirst ==
    ASSUME NEW bank
    PROVE  UntrailedBefore(bank, 1) = 0
  <1>1. LastBefore(bank, "global_trailer", 1) = 0
    BY NoneBeforeFirst
  <1>2. {q \in (0 + 1)..(1 - 1) : bank[q] = "global_header"} = {}
    OBVIOUS
  <1> QED BY <1>1, <1>2, FS_EmptySet DEF UntrailedBefore

-----------------------------------------------------------------------------
(* What the parser makes of a bank.                                        *)

\* The global header before a position, and the event that is counted from it.
SlotAt(bank, p) == LastBefore(bank, "global_header", p)

NumberAt(bank, first, p) == first + UntrailedBefore(bank, SlotAt(bank, p))

\* A hit of an event is one of its measurements, with what was read last.
IsHitOf(bank, first, n, hit) ==
    /\ bank[hit.word] = "measurement"
    /\ SlotAt(bank, hit.word) # 0
    /\ n = NumberAt(bank, first, hit.word)
    /\ \A type \in KeptWords : hit.from[type] = LastBefore(bank, type, hit.word)

HitsAreGenuine(bank, first, s, p) ==
    \A n \in DOMAIN s.hits : \A j \in DOMAIN s.hits[n] :
        s.hits[n][j].word \in 1..p /\ IsHitOf(bank, first, n, s.hits[n][j])

HitsAreDistinct(s) ==
    \A n \in DOMAIN s.hits : \A j, k \in DOMAIN s.hits[n] :
        s.hits[n][j].word = s.hits[n][k].word => j = k

HasHit(bank, first, s, q) ==
    /\ NumberAt(bank, first, q) \in DOMAIN s.hits
    /\ \E j \in DOMAIN s.hits[NumberAt(bank, first, q)] :
          s.hits[NumberAt(bank, first, q)][j].word = q

\* The event that is being filled.
CountsFromHeader(bank, first, s, p) ==
    LET h == SlotAt(bank, p + 1)
    IN  /\ h = 0 => DOMAIN s.hits = {}
        /\ h # 0 => s.number = first + UntrailedBefore(bank, h) /\ s.number \in DOMAIN s.hits

\* A measurement came before any global header.
BreaksIfHeadless(bank, s, p) ==
    s.broken <=> \E q \in 1..p : bank[q] = "measurement" /\ SlotAt(bank, q) = 0

\* What the parser's variables tell after p words.
Tells(bank, first, s, p) ==
    /\ \A type \in KeptWords : s.last[type] = LastBefore(bank, type, p + 1)
    /\ s.index = UntrailedBefore(bank, p + 1)
    /\ CountsFromHeader(bank, first, s, p)
    /\ HitsAreGenuine(bank, first, s, p)
    /\ HitsAreDistinct(s)
    /\ ~s.broken => \A q \in 1..p : bank[q] = "measurement" => HasHit(bank, first, s, q)
    /\ BreaksIfHeadless(bank, s, p)

(* Before the first word.                                                  *)
LEMMA BeginTells ==
    ASSUME NEW bank, NEW first \in Nat
    PROVE  Tells(bank, first, Begin, 0)
  <1>1. 0 + 1 = 1 /\ 1..0 = {} /\ DOMAIN Begin.hits = {}
    BY BeginType
  <1>2. \A type \in KeptWords : Begin.last[type] = LastBefore(bank, type, 1)
    BY NoneBeforeFirst DEF Begin
  <1>3. Begin.index = UntrailedBefore(bank, 1) /\ SlotAt(bank, 1) = 0
    BY NoneUntrailedAtFirst, NoneBeforeFirst DEF Begin, SlotAt
  <1>4. BreaksIfHeadless(bank, Begin, 0)
    BY <1>1 DEF BreaksIfHeadless, Begin
  <1> QED BY <1>1, <1>2, <1>3, <1>4
          DEF Tells, CountsFromHeader, HitsAreGenuine, HitsAreDistinct

(* What is read last after a word.                                         *)
LEMMA ReadTellsLast ==
    ASSUME NEW bank \in Seq(CAENWords), NEW first \in Nat, NEW p \in 1..Len(bank),
           NEW s \in ParserStates, Tells(bank, first, s, p - 1)
    PROVE  LET t == Read(s, bank[p], p, first)
           IN  /\ \A type \in KeptWords : t.last[type] = LastBefore(bank, type, p + 1)
               /\ t.index = UntrailedBefore(bank, p + 1)
  <1> DEFINE t == Read(s, bank[p], p, first)
  <1>1. bank[p] \in CAENWords /\ p \in Nat \ {0} /\ (p - 1) + 1 = p
    BY LenProperties, ElementOfSeq
  <1>0. IsTurn(s, t, bank[p], p, first)
    BY <1>1, ReadWord
  <1>2. /\ \A type \in KeptWords : s.last[type] = LastBefore(bank, type, p)
        /\ s.index = UntrailedBefore(bank, p)
    BY <1>1 DEF Tells
  <1>3. /\ bank[p] \in KeptWords => t.last = [s.last EXCEPT ![bank[p]] = p]
        /\ bank[p] \notin KeptWords => t.last = s.last
        /\ bank[p] = "global_header" => t.index = s.index + 1
        /\ bank[p] = "global_trailer" => t.index = 0
        /\ bank[p] \notin {"global_header", "global_trailer"} => t.index = s.index
    BY <1>0 DEF IsTurn, KeptWords, CAENWords
  <1>4. s.last \in [KeptWords -> Nat]
    BY DEF ParserStates
  <1> HIDE DEF t
  <1>5. ASSUME NEW type \in KeptWords PROVE t.last[type] = LastBefore(bank, type, p + 1)
    <2>1. CASE bank[p] = type
      <3>1. LastBefore(bank, type, p + 1) = p
        BY <1>1, <2>1, LastBeforeNext
      <3>2. t.last = [s.last EXCEPT ![type] = p]
        BY <1>3, <2>1
      <3> QED BY <1>4, <3>1, <3>2
    <2>2. CASE bank[p] # type
      <3>1. t.last[type] = s.last[type]
        BY <1>3, <1>4, <2>2
      <3> QED BY <1>1, <1>2, <2>2, <3>1, LastBeforeNext
    <2> QED BY <2>1, <2>2
  <1>6. t.index = UntrailedBefore(bank, p + 1)
    BY <1>1, <1>2, <1>3, UntrailedNext
  <1> QED BY <1>5, <1>6 DEF t

(* A turn that makes no hit.                                               *)
LEMMA ReadTellsNoHit ==
    ASSUME NEW bank \in Seq(CAENWords), NEW first \in Nat, NEW p \in 1..Len(bank),
           NEW s \in ParserStates, Tells(bank, first, s, p - 1), bank[p] # "measurement"
    PROVE  Tells(bank, first, Read(s, bank[p], p, first), p)
  <1> DEFINE t == Read(s, bank[p], p, first)
  <1>1. /\ bank[p] \in CAENWords /\ p \in Nat \ {0} /\ (p - 1) + 1 = p /\ p \in Nat
        /\ \A q : q \in 1..p <=> q \in 1..(p - 1) \/ q = p
    BY LenProperties, ElementOfSeq
  <1>0. IsTurn(s, t, bank[p], p, first)
    BY <1>1, ReadWord
  <1>2. /\ CountsFromHeader(bank, first, s, p - 1)
        /\ HitsAreGenuine(bank, first, s, p - 1)
        /\ HitsAreDistinct(s)
        /\ ~s.broken => \A q \in 1..(p - 1) : bank[q] = "measurement" => HasHit(bank, first, s, q)
        /\ s.index = UntrailedBefore(bank, p)
        /\ BreaksIfHeadless(bank, s, p - 1)
    BY <1>1 DEF Tells
  <1>3. /\ bank[p] = "global_header" =>
              t.number = first + s.index /\ t.hits = OpenedAt(s.hits, first + s.index)
        /\ bank[p] # "global_header" => t.number = s.number /\ t.hits = s.hits
        /\ t.broken = s.broken
    BY <1>0 DEF IsTurn, KeptWords, CAENWords
  <1>4. /\ \A type \in KeptWords : t.last[type] = LastBefore(bank, type, p + 1)
        /\ t.index = UntrailedBefore(bank, p + 1)
    BY ReadTellsLast
  <1>5. s.hits \in HitMaps /\ s.index \in Nat /\ first + s.index \in Nat
    BY DEF ParserStates
  <1> HIDE DEF t
  <1>6. /\ DOMAIN s.hits \subseteq DOMAIN t.hits
        /\ \A n \in DOMAIN s.hits : t.hits[n] = s.hits[n]
        /\ \A n \in DOMAIN t.hits \ DOMAIN s.hits : t.hits[n] = << >>
    <2>1. CASE bank[p] = "global_header"
      <3> DEFINE n == first + s.index
      <3>1. n \in Nat /\ t.hits = OpenedAt(s.hits, n)
        BY <1>3, <1>5, <2>1
      <3> HIDE DEF n
      <3>2. /\ DOMAIN t.hits = DOMAIN s.hits \cup {n}
            /\ \A m \in DOMAIN s.hits : t.hits[m] = s.hits[m]
            /\ n \notin DOMAIN s.hits => t.hits[n] = << >>
        <4>1. IsOpened(s.hits, OpenedAt(s.hits, n), n)
          BY <1>5, <3>1, OpenedType
        <4>2. IsOpened(s.hits, t.hits, n)
          BY <3>1, <4>1
        <4> QED BY <4>2 DEF IsOpened
      <3> QED BY <3>2
    <2>2. CASE bank[p] # "global_header"
      BY <1>3, <2>2
    <2> QED BY <2>1, <2>2
  <1>7. DOMAIN << >> = {}
    BY BeginType DEF Begin
  <1>8. HitsAreGenuine(bank, first, t, p)
    <2> SUFFICES ASSUME NEW n \in DOMAIN t.hits, NEW j \in DOMAIN t.hits[n]
                 PROVE  t.hits[n][j].word \in 1..p /\ IsHitOf(bank, first, n, t.hits[n][j])
      BY DEF HitsAreGenuine
    <2>1. n \in DOMAIN s.hits /\ t.hits[n] = s.hits[n]
      BY <1>6, <1>7
    <2>2. s.hits[n][j].word \in 1..(p - 1) /\ IsHitOf(bank, first, n, s.hits[n][j])
      BY <1>2, <2>1 DEF HitsAreGenuine
    <2> QED BY <1>1, <2>1, <2>2
  <1>9. HitsAreDistinct(t)
    <2> SUFFICES ASSUME NEW n \in DOMAIN t.hits, NEW j \in DOMAIN t.hits[n],
                        NEW k \in DOMAIN t.hits[n], t.hits[n][j].word = t.hits[n][k].word
                 PROVE  j = k
      BY DEF HitsAreDistinct
    <2>1. n \in DOMAIN s.hits /\ t.hits[n] = s.hits[n]
      BY <1>6, <1>7
    <2> QED BY <1>2, <2>1 DEF HitsAreDistinct
  <1>10. ASSUME ~t.broken, NEW q \in 1..p, bank[q] = "measurement"
         PROVE  HasHit(bank, first, t, q)
    <2>1. q \in 1..(p - 1)
      BY <1>1, <1>10
    <2>2. HasHit(bank, first, s, q)
      BY <1>2, <1>3, <1>10, <2>1
    <2> QED BY <1>6, <2>2 DEF HasHit
  <1>11. CountsFromHeader(bank, first, t, p)
    <2>1. CASE bank[p] = "global_header"
      <3>1. SlotAt(bank, p + 1) = p
        BY <1>1, <2>1, LastBeforeNext DEF SlotAt
      <3>2. t.number = first + UntrailedBefore(bank, p)
        BY <1>2, <1>3, <2>1
      <3>3. t.number \in DOMAIN t.hits
        BY <1>3, <1>5, <2>1, OpenedType DEF IsOpened
      <3> QED BY <1>1, <3>1, <3>2, <3>3 DEF CountsFromHeader
    <2>2. CASE bank[p] # "global_header"
      <3>1. SlotAt(bank, p + 1) = SlotAt(bank, (p - 1) + 1)
        BY <1>1, <2>2, LastBeforeNext DEF SlotAt
      <3> QED BY <1>2, <1>3, <2>2, <3>1 DEF CountsFromHeader
    <2> QED BY <2>1, <2>2
  <1>12. BreaksIfHeadless(bank, t, p)
    BY <1>1, <1>2, <1>3 DEF BreaksIfHeadless
  <1> QED BY <1>4, <1>8, <1>9, <1>10, <1>11, <1>12 DEF Tells, t

(* A turn at a measurement.                                                *)
LEMMA ReadTellsHit ==
    ASSUME NEW bank \in Seq(CAENWords), NEW first \in Nat, NEW p \in 1..Len(bank),
           NEW s \in ParserStates, Tells(bank, first, s, p - 1), bank[p] = "measurement"
    PROVE  Tells(bank, first, Read(s, bank[p], p, first), p)
  <1> DEFINE t == Read(s, bank[p], p, first)
             hit == [word |-> p, from |-> s.last]
  <1>1. /\ bank[p] \in CAENWords /\ p \in Nat \ {0} /\ (p - 1) + 1 = p /\ p \in Nat
        /\ \A q : q \in 1..p <=> q \in 1..(p - 1) \/ q = p
    BY LenProperties, ElementOfSeq
  <1>0. IsTurn(s, t, bank[p], p, first)
    BY <1>1, ReadWord
  <1>2. /\ CountsFromHeader(bank, first, s, p - 1)
        /\ HitsAreGenuine(bank, first, s, p - 1)
        /\ HitsAreDistinct(s)
        /\ ~s.broken => \A q \in 1..(p - 1) : bank[q] = "measurement" => HasHit(bank, first, s, q)
        /\ \A type \in KeptWords : s.last[type] = LastBefore(bank, type, p)
        /\ BreaksIfHeadless(bank, s, p - 1)
    BY <1>1 DEF Tells
  <1>3. /\ t.number = s.number
        /\ s.number \in DOMAIN s.hits =>
              t.broken = s.broken /\ t.hits = [s.hits EXCEPT ![s.number] = Append(@, hit)]
        /\ s.number \notin DOMAIN s.hits => t.broken /\ t.hits = s.hits
    BY <1>0 DEF IsTurn, KeptWords, CAENWords
  <1>4. /\ \A type \in KeptWords : t.last[type] = LastBefore(bank, type, p + 1)
        /\ t.index = UntrailedBefore(bank, p + 1)
    BY ReadTellsLast
  <1>5. s.hits \in HitMaps /\ s.last \in [KeptWords -> Nat] /\ hit \in CAENHits
    BY <1>1 DEF ParserStates, CAENHits
  <1>6. SlotAt(bank, p + 1) = SlotAt(bank, p)
    BY <1>1, LastBeforeNext DEF SlotAt
  <1>7. ~(p \in 1..(p - 1))
    BY <1>1
  <1> HIDE DEF t, hit
  <1>8. CASE s.number \notin DOMAIN s.hits
    <2>1. t.broken /\ t.hits = s.hits /\ t.number = s.number
      BY <1>3, <1>8
    <2>2. HitsAreGenuine(bank, first, t, p) /\ HitsAreDistinct(t)
      BY <1>1, <1>2, <2>1 DEF HitsAreGenuine, HitsAreDistinct
    <2>3. CountsFromHeader(bank, first, t, p)
      BY <1>1, <1>2, <1>6, <2>1 DEF CountsFromHeader
    <2>4. SlotAt(bank, p) = 0
      BY <1>1, <1>2, <1>8 DEF CountsFromHeader
    <2>5. BreaksIfHeadless(bank, t, p)
      BY <1>1, <2>1, <2>4 DEF BreaksIfHeadless
    <2> QED BY <1>4, <2>1, <2>2, <2>3, <2>5 DEF Tells, t
  <1>9. CASE s.number \in DOMAIN s.hits
    <2> DEFINE n == s.number
               old == s.hits[n]
    <2>1. /\ t.hits \in HitMaps /\ DOMAIN t.hits = DOMAIN s.hits
          /\ t.hits[n] = Append(old, hit)
          /\ \A m \in DOMAIN s.hits \ {n} : t.hits[m] = s.hits[m]
      <3>1. t.hits = [s.hits EXCEPT ![s.number] = Append(@, hit)]
        BY <1>3, <1>9
      <3>2. IsAdded(s.hits, [s.hits EXCEPT ![s.number] = Append(@, hit)], s.number, hit)
        BY <1>5, <1>9, AddedType
      <3>3. IsAdded(s.hits, t.hits, s.number, hit)
        BY <3>1, <3>2
      <3> HIDE DEF hit
      <3> QED BY <3>3 DEF IsAdded
    <2>2. old \in Seq(CAENHits) /\ Len(old) \in Nat
      BY <1>5, <1>9, HitMapProperties, LenProperties
    <2>3. /\ DOMAIN old = 1..Len(old) /\ DOMAIN t.hits[n] = 1..(Len(old) + 1)
          /\ \A j \in 1..Len(old) : t.hits[n][j] = old[j]
          /\ t.hits[n][Len(old) + 1] = hit
      <3> HIDE DEF hit, old
      <3>1. Append(old, hit) \in Seq(CAENHits) /\ Len(Append(old, hit)) = Len(old) + 1
        BY <1>5, <2>2, AppendProperties
      <3> QED BY <1>5, <2>1, <2>2, <3>1, AppendProperties, LenProperties
    <2>4. /\ s.number = first + UntrailedBefore(bank, SlotAt(bank, p))
          /\ SlotAt(bank, p) # 0
      BY <1>1, <1>2, <1>9 DEF CountsFromHeader
    <2>5. n = NumberAt(bank, first, p)
      BY <2>4 DEF NumberAt
    <2>6. IsHitOf(bank, first, n, hit)
      BY <1>2, <2>4, <2>5 DEF IsHitOf, hit
    <2>7. \A m \in DOMAIN s.hits : \A j \in DOMAIN s.hits[m] :
             s.hits[m][j].word \in 1..(p - 1) /\ IsHitOf(bank, first, m, s.hits[m][j])
      BY <1>2 DEF HitsAreGenuine
    <2>8. hit.word = p
      BY DEF hit
    <2> HIDE DEF n, old, hit
    <2>9. \A j \in 1..(Len(old) + 1) : j \in 1..Len(old) \/ j = Len(old) + 1
      BY <2>2
    <2>10. ASSUME NEW m \in DOMAIN t.hits, NEW j \in DOMAIN t.hits[m]
           PROVE  \/ j \in DOMAIN s.hits[m] /\ t.hits[m][j] = s.hits[m][j]
                  \/ m = n /\ j = Len(old) + 1 /\ t.hits[m][j] = hit
      <3>1. CASE m = n
        <4>1. j \in 1..(Len(old) + 1) /\ s.hits[m] = old
          BY <2>3, <2>10, <3>1 DEF old
        <4> QED BY <2>3, <2>9, <3>1, <4>1
      <3>2. CASE m # n
        BY <2>1, <2>10, <3>2
      <3> QED BY <3>1, <3>2
    <2>11. HitsAreGenuine(bank, first, t, p)
      <3> SUFFICES ASSUME NEW m \in DOMAIN t.hits, NEW j \in DOMAIN t.hits[m]
                   PROVE  t.hits[m][j].word \in 1..p /\ IsHitOf(bank, first, m, t.hits[m][j])
        BY DEF HitsAreGenuine
      <3>1. CASE j \in DOMAIN s.hits[m] /\ t.hits[m][j] = s.hits[m][j]
        BY <1>1, <2>1, <2>7, <3>1
      <3>2. CASE m = n /\ t.hits[m][j] = hit
        BY <1>1, <2>6, <2>8, <3>2
      <3> QED BY <2>10, <3>1, <3>2
    <2>12. HitsAreDistinct(t)
      <3> SUFFICES ASSUME NEW m \in DOMAIN t.hits, NEW j \in DOMAIN t.hits[m],
                          NEW k \in DOMAIN t.hits[m], t.hits[m][j].word = t.hits[m][k].word
                   PROVE  j = k
        BY DEF HitsAreDistinct
      <3>1. CASE /\ j \in DOMAIN s.hits[m] /\ t.hits[m][j] = s.hits[m][j]
                 /\ k \in DOMAIN s.hits[m] /\ t.hits[m][k] = s.hits[m][k]
        BY <1>2, <2>1, <3>1 DEF HitsAreDistinct
      <3>2. CASE /\ j \in DOMAIN s.hits[m] /\ t.hits[m][j] = s.hits[m][j]
                 /\ t.hits[m][k] = hit
        BY <1>7, <2>1, <2>7, <2>8, <3>2
      <3>3. CASE /\ k \in DOMAIN s.hits[m] /\ t.hits[m][k] = s.hits[m][k]
                 /\ t.hits[m][j] = hit
        BY <1>7, <2>1, <2>7, <2>8, <3>3
      <3>4. CASE j = Len(old) + 1 /\ k = Len(old) + 1
        BY <3>4
      <3> QED BY <2>10, <3>1, <3>2, <3>3, <3>4
    <2>13. ASSUME ~t.broken, NEW q \in 1..p, bank[q] = "measurement"
           PROVE  HasHit(bank, first, t, q)
      <3>1. CASE q = p
        <4>1. Len(old) + 1 \in DOMAIN t.hits[n] /\ t.hits[n][Len(old) + 1].word = p
          BY <2>2, <2>3, <2>8
        <4>2. n \in DOMAIN t.hits
          BY <1>9, <2>1 DEF n
        <4> QED BY <2>5, <3>1, <4>1, <4>2 DEF HasHit
      <3>2. CASE q # p
        <4> DEFINE m == NumberAt(bank, first, q)
        <4>1. HasHit(bank, first, s, q)
          BY <1>1, <1>2, <1>3, <1>9, <2>13, <3>2
        <4>2. m \in DOMAIN s.hits /\ \E j \in DOMAIN s.hits[m] : s.hits[m][j].word = q
          BY <4>1 DEF HasHit
        <4> HIDE DEF m
        <4>3. PICK j \in DOMAIN s.hits[m] : s.hits[m][j].word = q
          BY <4>2
        <4>4. j \in DOMAIN t.hits[m] /\ t.hits[m][j] = s.hits[m][j]
          <5>1. CASE m = n
            <6>1. s.hits[m] = old /\ j \in 1..Len(old)
              BY <2>3, <5>1 DEF old
            <6>2. j \in 1..(Len(old) + 1)
              BY <2>2, <6>1
            <6> QED BY <2>3, <5>1, <6>1, <6>2
          <5>2. CASE m # n
            BY <2>1, <4>2, <5>2
          <5> QED BY <5>1, <5>2
        <4> QED BY <2>1, <4>2, <4>3, <4>4 DEF HasHit, m
      <3> QED BY <3>1, <3>2
    <2>14. CountsFromHeader(bank, first, t, p)
      BY <1>3, <1>6, <1>9, <2>1, <2>4 DEF CountsFromHeader
    <2>15. BreaksIfHeadless(bank, t, p)
      BY <1>1, <1>2, <1>3, <1>9, <2>4 DEF BreaksIfHeadless
    <2> QED BY <1>4, <2>11, <2>12, <2>13, <2>14, <2>15 DEF Tells, t
  <1> QED BY <1>8, <1>9

(* What a parse makes of a bank.                                           *)
LEMMA ParseTells ==
    ASSUME NEW bank \in Seq(CAENWords), NEW first \in Nat
    PROVE  /\ ParseCAEN(bank, first) \in ParserStates
           /\ Tells(bank, first, ParseCAEN(bank, first), Len(bank))
  <1> DEFINE n == Len(bank)
  <1>1. PICK g \in [0..Len(bank) -> ParserStates] :
              /\ g[0] = Begin
              /\ \A p \in 1..Len(bank) : g[p] = Read(g[p - 1], bank[p], p, first)
              /\ ParseCAEN(bank, first) = g[Len(bank)]
    BY ParseLoop
  <1> DEFINE S == {p \in Nat : p <= n => Tells(bank, first, g[p], p)}
  <1>2. n \in Nat
    BY LenProperties
  <1>3. 0 \in S
    BY <1>1, BeginTells
  <1>4. ASSUME NEW p \in S PROVE p + 1 \in S
    <2>1. SUFFICES ASSUME p + 1 <= n PROVE Tells(bank, first, g[p + 1], p + 1)
      OBVIOUS
    <2>2. /\ p + 1 \in 1..n /\ (p + 1) - 1 = p /\ p \in 0..n
          /\ Tells(bank, first, g[p], p)
      BY <1>2, <2>1
    <2>3. g[p] \in ParserStates /\ g[p + 1] = Read(g[p], bank[p + 1], p + 1, first)
      BY <1>1, <2>2
    <2> DEFINE r == p + 1
    <2>4. r \in 1..Len(bank) /\ Tells(bank, first, g[p], r - 1)
      BY <2>2
    <2> HIDE DEF r, S
    <2>5. Tells(bank, first, Read(g[p], bank[r], r, first), r)
      BY <2>3, <2>4, ReadTellsHit, ReadTellsNoHit
    <2> QED BY <2>3, <2>5 DEF r
  <1>5. S = Nat
    <2>1. S \in SUBSET Nat
      OBVIOUS
    <2> HIDE DEF S
    <2> QED BY <1>3, <1>4, <2>1, NatSetInduction
  <1>6. Tells(bank, first, g[n], n) /\ g[n] \in ParserStates
    BY <1>1, <1>2, <1>5
  <1> QED BY <1>1, <1>6

(* A regular bank's events are one each.                                   *)
LEMMA RegularHeaderIsFirst ==
    ASSUME NEW bank \in Seq(CAENWords), IsRegularCAEN(bank), NEW h \in DOMAIN bank,
           bank[h] = "global_header"
    PROVE  UntrailedBefore(bank, h) = 0
  <1> DEFINE t == LastBefore(bank, "global_trailer", h)
             g == LastBefore(bank, "global_header", h)
  <1>1. h \in Nat \ {0}
    BY LenProperties
  <1>2. ~InEvent(bank, h)
    BY DEF IsRegularCAEN
  <1>3. ~(g > t)
    BY <1>2 DEF InEvent
  <1>4. t \in 0..(h - 1) /\ g \in 0..(h - 1)
        /\ \A q \in 1..(h - 1) : bank[q] = "global_header" => q <= g
    BY <1>1, LastBeforeIs
  <1>5. UntrailedBefore(bank, h)
           = Cardinality({q \in (t + 1)..(h - 1) : bank[q] = "global_header"})
    BY DEF UntrailedBefore
  <1> HIDE DEF t, g
  <1>6. {q \in (t + 1)..(h - 1) : bank[q] = "global_header"} = {}
    BY <1>3, <1>4
  <1> QED BY <1>5, <1>6, FS_EmptySet

(* Between the header of a chip and a measurement of the chip no event of  *)
(* the module begins or ends.                                              *)
LEMMA RegularChipIsInEvent ==
    ASSUME NEW bank \in Seq(CAENWords), IsRegularCAEN(bank), NEW p \in DOMAIN bank,
           bank[p] = "measurement"
    PROVE  LET c == LastBefore(bank, "tdc_header", p)
           IN  /\ c \in 1..(p - 1) /\ bank[c] = "tdc_header"
               /\ LastBefore(bank, "tdc_trailer", p) < c
               /\ LastBefore(bank, "global_trailer", c) < LastBefore(bank, "global_header", c)
               /\ \A q \in c..(p - 1) : bank[q] \notin {"global_header", "global_trailer"}
  <1> DEFINE c == LastBefore(bank, "tdc_header", p)
             e == LastBefore(bank, "tdc_trailer", p)
             g == LastBefore(bank, "global_header", c)
             t == LastBefore(bank, "global_trailer", c)
  <1>1. p \in Nat \ {0} /\ p <= Len(bank) /\ Len(bank) \in Nat /\ DOMAIN bank = 1..Len(bank)
    BY LenProperties
  <1>2. InChip(bank, p)
    BY DEF IsRegularCAEN
  <1>3. c > e
    BY <1>2 DEF InChip
  <1>4. /\ c \in 0..(p - 1) /\ e \in 0..(p - 1)
        /\ c # 0 => bank[c] = "tdc_header"
        /\ \A q \in 1..(p - 1) : bank[q] = "tdc_trailer" => q <= e
    BY <1>1, LastBeforeIs
  <1>5. c \in 1..(p - 1) /\ bank[c] = "tdc_header" /\ c \in DOMAIN bank /\ c \in Nat \ {0}
    <2> HIDE DEF c, e
    <2> QED BY <1>1, <1>3, <1>4
  <1>6. InEvent(bank, c)
    <2> HIDE DEF c
    <2> QED BY <1>5 DEF IsRegularCAEN
  <1>7. g > t
    BY <1>6 DEF InEvent
  <1>8. /\ g \in 0..(c - 1) /\ t \in 0..(c - 1)
        /\ g # 0 => bank[g] = "global_header"
        /\ \A q \in 1..(c - 1) : bank[q] = "global_trailer" => q <= t
    BY <1>5, LastBeforeIs
  <1> HIDE DEF c, e, g, t
  <1>9. ASSUME NEW q \in (c + 1)..(p - 1) PROVE bank[q] # "global_trailer"
    <2>1. SUFFICES ASSUME bank[q] = "global_trailer" PROVE FALSE
      OBVIOUS
    <2>2. q \in Nat \ {0} /\ q \in DOMAIN bank /\ c \in 1..(q - 1) /\ q - 1 < p
      BY <1>1, <1>5
    <2>3. ~InChip(bank, q)
      BY <2>1, <2>2 DEF IsRegularCAEN
    <2> DEFINE h == LastBefore(bank, "tdc_header", q)
               r == LastBefore(bank, "tdc_trailer", q)
    <2>4. ~(h > r)
      BY <2>3 DEF InChip
    <2>5. /\ h \in 0..(q - 1) /\ r \in 0..(q - 1)
          /\ r # 0 => bank[r] = "tdc_trailer"
          /\ \A k \in 1..(q - 1) : bank[k] = "tdc_header" => k <= h
      BY <2>2, LastBeforeIs
    <2> HIDE DEF h, r
    <2>6. c <= h
      BY <1>5, <2>2, <2>5
    <2>7. r <= e
      BY <1>4, <2>2, <2>5
    <2> QED BY <1>3, <1>4, <1>5, <2>4, <2>5, <2>6, <2>7
  <1>10. ASSUME NEW q \in (c + 1)..(p - 1) PROVE bank[q] # "global_header"
    <2>1. SUFFICES ASSUME bank[q] = "global_header" PROVE FALSE
      OBVIOUS
    <2>2. q \in Nat \ {0} /\ q \in DOMAIN bank /\ c \in 1..(q - 1) /\ q - 1 < p
      BY <1>1, <1>5
    <2>3. ~InEvent(bank, q)
      BY <2>1, <2>2 DEF IsRegularCAEN
    <2> DEFINE h == LastBefore(bank, "global_header", q)
               r == LastBefore(bank, "global_trailer", q)
    <2>4. ~(h > r)
      BY <2>3 DEF InEvent
    <2>5. /\ h \in 0..(q - 1) /\ r \in 0..(q - 1)
          /\ r # 0 => bank[r] = "global_trailer"
          /\ \A k \in 1..(q - 1) : bank[k] = "global_header" => k <= h
      BY <2>2, LastBeforeIs
    <2> HIDE DEF h, r
    <2>6. g # 0 /\ g \in 1..(q - 1)
      BY <1>7, <1>8, <2>2
    <2>7. g <= h
      BY <1>8, <2>5, <2>6
    <2>8. r <= t
      <3>1. CASE r = 0
        BY <1>8, <3>1
      <3>2. CASE r # 0
        <4>1. ~(r \in (c + 1)..(p - 1))
          BY <1>9, <2>5, <3>2
        <4>2. r # c
          BY <1>5, <2>5, <3>2
        <4>3. r \in 1..(c - 1)
          BY <1>5, <2>2, <2>5, <3>2, <4>1, <4>2
        <4> QED BY <1>8, <2>5, <3>2, <4>3
      <3> QED BY <3>1, <3>2
    <2> QED BY <1>7, <1>8, <2>4, <2>5, <2>7, <2>8
  <1>11. \A q \in c..(p - 1) : bank[q] \notin {"global_header", "global_trailer"}
    <2>1. \A q \in c..(p - 1) : q = c \/ q \in (c + 1)..(p - 1)
      BY <1>5
    <2> QED BY <1>5, <1>9, <1>10, <2>1
  <1> QED BY <1>3, <1>4, <1>5, <1>7, <1>8, <1>11 DEF c, e, g, t

(* So what was read last at a measurement is of its own chip and event.    *)
LEMMA RegularMeasurement ==
    ASSUME NEW bank \in Seq(CAENWords), IsRegularCAEN(bank), NEW p \in DOMAIN bank,
           bank[p] = "measurement"
    PROVE  LET slot == LastBefore(bank, "global_header", p)
               chip == LastBefore(bank, "tdc_header", p)
               status == LastBefore(bank, "global_trailer", p)
           IN  /\ bank[slot] = "global_header" /\ bank[chip] = "tdc_header"
               /\ \A q \in slot..p : bank[q] # "global_trailer"
               /\ \A q \in chip..p : bank[q] # "tdc_trailer"
               /\ slot < chip /\ status < slot
  <1> DEFINE slot == LastBefore(bank, "global_header", p)
             c == LastBefore(bank, "tdc_header", p)
             status == LastBefore(bank, "global_trailer", p)
             e == LastBefore(bank, "tdc_trailer", p)
             g == LastBefore(bank, "global_header", c)
             t == LastBefore(bank, "global_trailer", c)
  <1>1. p \in Nat \ {0}
    BY LenProperties
  <1>2. /\ c \in 1..(p - 1) /\ bank[c] = "tdc_header" /\ e < c /\ t < g
        /\ \A q \in c..(p - 1) : bank[q] \notin {"global_header", "global_trailer"}
    BY RegularChipIsInEvent
  <1>3. /\ slot \in 0..(p - 1) /\ (slot # 0 => bank[slot] = "global_header")
        /\ \A q \in 1..(p - 1) : bank[q] = "global_header" => q <= slot
        /\ status \in 0..(p - 1) /\ (status # 0 => bank[status] = "global_trailer")
        /\ \A q \in 1..(p - 1) : bank[q] = "global_trailer" => q <= status
        /\ e \in 0..(p - 1)
        /\ \A q \in 1..(p - 1) : bank[q] = "tdc_trailer" => q <= e
    BY <1>1, LastBeforeIs
  <1>4. c \in Nat \ {0}
    <2> HIDE DEF c
    <2> QED BY <1>1, <1>2
  <1>5. /\ g \in 0..(c - 1) /\ (g # 0 => bank[g] = "global_header")
        /\ t \in 0..(c - 1)
        /\ \A q \in 1..(c - 1) : bank[q] = "global_header" => q <= g
        /\ \A q \in 1..(c - 1) : bank[q] = "global_trailer" => q <= t
    BY <1>4, LastBeforeIs
  <1> HIDE DEF slot, c, status, e, g, t
  <1>6. g \in 1..(c - 1) /\ bank[g] = "global_header" /\ g \in 1..(p - 1)
    BY <1>1, <1>2, <1>4, <1>5
  <1>7. g <= slot /\ slot # 0
    BY <1>3, <1>6
  <1>8. slot < c
    <2>1. ~(slot \in c..(p - 1))
      BY <1>2, <1>3, <1>7
    <2> QED BY <1>1, <1>3, <1>4, <2>1
  <1>9. slot <= g
    <2>1. slot \in 1..(c - 1)
      BY <1>3, <1>4, <1>7, <1>8
    <2> QED BY <1>3, <1>5, <1>7, <2>1
  <1>10. status <= t
    <2>1. CASE status = 0
      BY <1>5, <2>1
    <2>2. CASE status # 0
      <3>1. ~(status \in c..(p - 1))
        BY <1>2, <1>3, <2>2
      <3>2. status \in 1..(c - 1)
        BY <1>1, <1>3, <1>4, <2>2, <3>1
      <3> QED BY <1>3, <1>5, <2>2, <3>2
    <2> QED BY <2>1, <2>2
  <1>11. status < slot
    BY <1>2, <1>3, <1>5, <1>7, <1>10
  <1>12. ASSUME NEW q \in slot..p PROVE bank[q] # "global_trailer"
    <2>1. CASE q = p
      BY <2>1
    <2>2. CASE q # p
      <3>1. q \in 1..(p - 1) /\ status < q
        BY <1>1, <1>3, <1>7, <1>11, <2>2
      <3>2. ~(q <= status)
        BY <1>3, <3>1
      <3> QED BY <1>3, <3>1, <3>2
    <2> QED BY <2>1, <2>2
  <1>13. ASSUME NEW q \in c..p PROVE bank[q] # "tdc_trailer"
    <2>1. CASE q = p
      BY <2>1
    <2>2. CASE q # p
      <3>1. q \in 1..(p - 1) /\ e < q
        BY <1>1, <1>2, <1>3, <1>4, <2>2
      <3>2. ~(q <= e)
        BY <1>3, <3>1
      <3> QED BY <1>3, <3>1, <3>2
    <2> QED BY <2>1, <2>2
  <1> QED BY <1>2, <1>3, <1>7, <1>8, <1>11, <1>12, <1>13 DEF slot, c, status

-----------------------------------------------------------------------------
(* The CAEN1190 hits of an event.                                          *)

\* What is read is what Init allows.
Decodable ==
    /\ blocks \in Readouts
    /\ \A b \in DOMAIN blocks : IsDecodable(blocks[b])

BankOf(b, i) == blocks[b].caen[i]

\* A hit under the name that CAENHitsIn gives it.
NamedHits == [word : (DOMAIN blocks) \X Nat \X Nat, from : [KeptWords -> Nat]]

\* A hit of the n-th event of block b is the measurement q of its i-th bank.
IsMadeOf(hit, b, i, q, n) ==
    /\ i \in DOMAIN blocks[b].caen
    /\ q \in DOMAIN BankOf(b, i)
    /\ hit.word = <<b, i, q>>
    /\ BankOf(b, i)[q] = "measurement"
    /\ n = NumberAt(BankOf(b, i), blocks[b].first, q)
    /\ \A type \in KeptWords : hit.from[type] = LastBefore(BankOf(b, i), type, q)

WordsDiffer(hits) == \A j, k \in DOMAIN hits : hits[j].word = hits[k].word => j = k

\* The hits of a bank, or of all banks of a block, that are the event's.
HasMeasurements(hits, b, i, n) ==
    \A q \in DOMAIN BankOf(b, i) :
        /\ BankOf(b, i)[q] = "measurement"
        /\ n = NumberAt(BankOf(b, i), blocks[b].first, q)
        => \E j \in DOMAIN hits : hits[j].word = <<b, i, q>>

(* What a readout's block is.                                              *)
LEMMA BlockFacts ==
    ASSUME Decodable, NEW b \in DOMAIN blocks
    PROVE  /\ IsBlock(blocks[b])
           /\ blocks[b].first \in Nat
           /\ DOMAIN blocks[b].caen = 1..Len(blocks[b].caen) /\ Len(blocks[b].caen) \in Nat
           /\ \A i \in DOMAIN blocks[b].caen :
                 /\ i \in Nat
                 /\ BankOf(b, i) \in Seq(CAENWords)
                 /\ ~ParseCAEN(BankOf(b, i), blocks[b].first).broken
  <1>1. IsBlock(blocks[b]) /\ IsDecodable(blocks[b])
    BY ReadoutsAreBlocks DEF Decodable
  <1>2. blocks[b].first \in Nat /\ blocks[b].caen \in Seq(Seq(CAENWords))
    BY <1>1 DEF IsBlock
  <1>3. DOMAIN blocks[b].caen = 1..Len(blocks[b].caen) /\ Len(blocks[b].caen) \in Nat
    BY <1>2, LenProperties
  <1>4. \A i \in DOMAIN blocks[b].caen : blocks[b].caen[i] \in Seq(CAENWords)
    BY <1>2, <1>3, ElementOfSeq
  <1>5. \A i \in DOMAIN blocks[b].caen : ~ParseCAEN(blocks[b].caen[i], blocks[b].first).broken
    BY <1>1 DEF IsDecodable
  <1> QED BY <1>1, <1>2, <1>3, <1>4, <1>5 DEF BankOf

(* The hits of one bank.                                                   *)
LEMMA HitsOfBank ==
    ASSUME Decodable, NEW b \in DOMAIN blocks, NEW i \in DOMAIN blocks[b].caen, NEW n
    PROVE  /\ CAENHitsIn(b, i, n) \in Seq(NamedHits)
           /\ \A j \in DOMAIN CAENHitsIn(b, i, n) :
                 \E q : IsMadeOf(CAENHitsIn(b, i, n)[j], b, i, q, n)
           /\ WordsDiffer(CAENHitsIn(b, i, n))
           /\ HasMeasurements(CAENHitsIn(b, i, n), b, i, n)
  <1> DEFINE bank == BankOf(b, i)
             first == blocks[b].first
             s == ParseCAEN(bank, first)
             named == CAENHitsIn(b, i, n)
             m == Len(bank)
  <1>1. bank \in Seq(CAENWords) /\ first \in Nat /\ ~s.broken /\ i \in Nat
    BY BlockFacts
  <1>2. s \in ParserStates /\ Tells(bank, first, s, m)
    BY <1>1, ParseTells
  <1>3. m \in Nat /\ DOMAIN bank = 1..m
    BY <1>1, LenProperties
  <1>4. named = IF n \in DOMAIN s.hits
                THEN [j \in DOMAIN s.hits[n] |-> [word |-> <<b, i, s.hits[n][j].word>>,
                                                  from |-> s.hits[n][j].from]]
                ELSE << >>
    BY DEF CAENHitsIn, BankOf
  <1> HIDE DEF s, named, bank, first, m
  <1>5. s.hits \in HitMaps
    BY <1>2 DEF ParserStates
  <1>6. /\ HitsAreGenuine(bank, first, s, m) /\ HitsAreDistinct(s)
        /\ \A q \in 1..m : bank[q] = "measurement" => HasHit(bank, first, s, q)
    BY <1>1, <1>2 DEF Tells
  <1>7. CASE n \notin DOMAIN s.hits
    <2>1. named = << >> /\ << >> \in Seq(NamedHits) /\ DOMAIN << >> = {}
      BY <1>4, <1>7, EmptySeq, BeginType DEF Begin
    <2>2. HasMeasurements(named, b, i, n)
      <3> SUFFICES ASSUME NEW q \in DOMAIN bank, bank[q] = "measurement",
                          n = NumberAt(bank, first, q)
                   PROVE  FALSE
        BY DEF HasMeasurements, bank, first
      <3>1. HasHit(bank, first, s, q)
        BY <1>3, <1>6
      <3> QED BY <1>7, <3>1 DEF HasHit
    <2> QED BY <2>1, <2>2 DEF WordsDiffer, named
  <1>8. CASE n \in DOMAIN s.hits
    <2> DEFINE hits == s.hits[n]
    <2>1. hits \in Seq(CAENHits)
      BY <1>5, <1>8, HitMapProperties
    <2>2. Len(hits) \in Nat /\ DOMAIN hits = 1..Len(hits) /\ \A j \in 1..Len(hits) : hits[j] \in CAENHits
      BY <2>1, LenProperties, ElementOfSeq
    <2>3. named = [j \in 1..Len(hits) |-> [word |-> <<b, i, hits[j].word>>, from |-> hits[j].from]]
      BY <1>4, <1>8, <2>2
    <2>4. /\ \A j \in DOMAIN hits : hits[j].word \in 1..m /\ IsHitOf(bank, first, n, hits[j])
          /\ \A j, k \in DOMAIN hits : hits[j].word = hits[k].word => j = k
      BY <1>6, <1>8 DEF HitsAreGenuine, HitsAreDistinct
    <2> HIDE DEF hits
    <2>5. named \in [1..Len(hits) -> NamedHits]
      BY <1>1, <2>2, <2>3 DEF NamedHits, CAENHits
    <2>6. named \in Seq(NamedHits) /\ DOMAIN named = 1..Len(hits)
      BY <2>2, <2>5, SeqOfFunction
    <2>7. \A j \in 1..Len(hits) : /\ named[j].word = <<b, i, hits[j].word>>
                                  /\ named[j].from = hits[j].from
      BY <2>3
    <2>8. ASSUME NEW j \in DOMAIN named PROVE \E q : IsMadeOf(named[j], b, i, q, n)
      <3>1. IsMadeOf(named[j], b, i, hits[j].word, n)
        BY <1>3, <2>2, <2>4, <2>6, <2>7 DEF IsMadeOf, IsHitOf, bank, first
      <3> QED BY <3>1
    <2>9. WordsDiffer(named)
      BY <2>2, <2>4, <2>6, <2>7 DEF WordsDiffer
    <2>10. HasMeasurements(named, b, i, n)
      <3> SUFFICES ASSUME NEW q \in DOMAIN bank, bank[q] = "measurement",
                          n = NumberAt(bank, first, q)
                   PROVE  \E j \in DOMAIN named : named[j].word = <<b, i, q>>
        BY DEF HasMeasurements, bank, first
      <3>1. HasHit(bank, first, s, q)
        BY <1>3, <1>6
      <3>2. PICK j \in DOMAIN hits : hits[j].word = q
        BY <3>1 DEF HasHit, hits
      <3> QED BY <2>2, <2>6, <2>7, <3>2
    <2> QED BY <2>6, <2>8, <2>9, <2>10 DEF named
  <1> QED BY <1>7, <1>8

(* The hits of all banks of the event's block.                             *)
LEMMA HitsOfEvent ==
    ASSUME Decodable, NEW b \in DOMAIN blocks, NEW n
    PROVE  LET hits == HitsOf(<<b, n>>)["caen1190"]
           IN  /\ hits \in Seq(NamedHits)
               /\ \A j \in DOMAIN hits : \E i, q : IsMadeOf(hits[j], b, i, q, n)
               /\ WordsDiffer(hits)
               /\ \A i \in DOMAIN blocks[b].caen : HasMeasurements(hits, b, i, n)
  <1> DEFINE hits == HitsOf(<<b, n>>)["caen1190"]
             ss == [i \in DOMAIN blocks[b].caen |-> CAENHitsIn(b, i, n)]
             S == NamedHits
             banks == Len(blocks[b].caen)
  <1>1. DOMAIN blocks[b].caen = 1..banks /\ banks \in Nat
    BY BlockFacts
  <1>2. hits = FlattenSeq(ss)
    BY DEF HitsOf, HitKinds, TextKinds
  <1>3. \A i \in DOMAIN blocks[b].caen :
           /\ CAENHitsIn(b, i, n) \in Seq(S)
           /\ \A j \in DOMAIN CAENHitsIn(b, i, n) :
                 \E q : IsMadeOf(CAENHitsIn(b, i, n)[j], b, i, q, n)
           /\ WordsDiffer(CAENHitsIn(b, i, n))
           /\ HasMeasurements(CAENHitsIn(b, i, n), b, i, n)
    BY HitsOfBank
  <1> HIDE DEF S, hits, banks
  <1>4. ss \in Seq(Seq(S)) /\ DOMAIN ss = 1..banks
    <2>1. ss \in [1..banks -> Seq(S)]
      BY <1>1, <1>3
    <2> HIDE DEF ss
    <2> QED BY <1>1, <2>1, SeqOfFunction
  <1>5. \A i \in 1..banks :
           /\ ss[i] \in Seq(S)
           /\ \A j \in DOMAIN ss[i] : \E q : IsMadeOf(ss[i][j], b, i, q, n)
           /\ WordsDiffer(ss[i])
           /\ HasMeasurements(ss[i], b, i, n)
    BY <1>1, <1>3
  <1> HIDE DEF ss
  <1>6. ASSUME NEW k \in DOMAIN ss, NEW l \in DOMAIN ss, NEW i \in DOMAIN ss[k],
               NEW j \in DOMAIN ss[l], ss[k][i].word = ss[l][j].word
        PROVE  k = l /\ i = j
    <2>1. PICK q : IsMadeOf(ss[k][i], b, k, q, n)
      BY <1>4, <1>5
    <2>2. PICK r : IsMadeOf(ss[l][j], b, l, r, n)
      BY <1>4, <1>5
    <2>3. <<b, k, q>> = <<b, l, r>>
      BY <1>6, <2>1, <2>2 DEF IsMadeOf
    <2>4. k = l
      BY <2>3
    <2> QED BY <1>4, <1>5, <1>6, <2>4 DEF WordsDiffer
  <1>7. \A k, l \in DOMAIN ss : \A i \in DOMAIN ss[k], j \in DOMAIN ss[l] :
           ss[k][i] = ss[l][j] => k = l /\ i = j
    BY <1>6
  <1>8. /\ hits \in Seq(S) /\ IsInjective(hits)
        /\ Range(hits) = UNION {Range(ss[k]) : k \in DOMAIN ss}
    BY <1>2, <1>4, <1>7, FlattenRange
  <1>9. ASSUME NEW j \in DOMAIN hits
        PROVE  \E i \in DOMAIN ss : \E k \in DOMAIN ss[i] : hits[j] = ss[i][k]
    <2>1. hits[j] \in UNION {Range(ss[k]) : k \in DOMAIN ss}
      BY <1>8 DEF Range
    <2> QED BY <2>1 DEF Range
  <1>10. \A j \in DOMAIN hits : \E i, q : IsMadeOf(hits[j], b, i, q, n)
    BY <1>4, <1>5, <1>9
  <1>11. WordsDiffer(hits)
    <2> SUFFICES ASSUME NEW j \in DOMAIN hits, NEW k \in DOMAIN hits, hits[j].word = hits[k].word
                 PROVE  j = k
      BY DEF WordsDiffer
    <2>1. PICK i \in DOMAIN ss : \E x \in DOMAIN ss[i] : hits[j] = ss[i][x]
      BY <1>9
    <2>2. PICK x \in DOMAIN ss[i] : hits[j] = ss[i][x]
      BY <2>1
    <2>3. PICK l \in DOMAIN ss : \E y \in DOMAIN ss[l] : hits[k] = ss[l][y]
      BY <1>9
    <2>4. PICK y \in DOMAIN ss[l] : hits[k] = ss[l][y]
      BY <2>3
    <2>5. hits[j] = hits[k]
      BY <1>6, <2>2, <2>4
    <2> QED BY <1>8, <2>5 DEF IsInjective
  <1>12. ASSUME NEW i \in DOMAIN blocks[b].caen PROVE HasMeasurements(hits, b, i, n)
    <2> SUFFICES ASSUME NEW q \in DOMAIN BankOf(b, i), BankOf(b, i)[q] = "measurement",
                        n = NumberAt(BankOf(b, i), blocks[b].first, q)
                 PROVE  \E j \in DOMAIN hits : hits[j].word = <<b, i, q>>
      BY DEF HasMeasurements
    <2>1. i \in DOMAIN ss
      BY <1>1, <1>4
    <2>2. PICK x \in DOMAIN ss[i] : ss[i][x].word = <<b, i, q>>
      BY <1>4, <1>5, <2>1 DEF HasMeasurements
    <2>3. ss[i][x] \in Range(ss[i])
      BY <2>2 DEF Range
    <2>4. ss[i][x] \in Range(hits)
      BY <1>8, <2>1, <2>3
    <2> QED BY <2>2, <2>4 DEF Range
  <1> QED BY <1>8, <1>10, <1>11, <1>12 DEF hits, S

-----------------------------------------------------------------------------
(* The rows that an event is to have.                                      *)

CAENRow(e) == Row(Filled(HitsOf(e)), CAENColumns)

WaveformRow(e) == Row(Filled(HitsOf(e)), WaveformColumns)

PulsesRow(e) == PulseRow(Filled(HitsOf(e)), LastPulse(HitsOf(e)["pulse"]))

(* An event is of a block.                                                 *)
LEMMA EventIs ==
    ASSUME NEW e \in EventsOf(blocks)
    PROVE  /\ e[1] \in DOMAIN blocks /\ e[2] \in EventNumbers(blocks[e[1]])
           /\ e = <<e[1], e[2]>>
  BY DEF EventsOf

(* The hits that are given are what they are.                              *)
LEMMA GivenHitsOfEvent ==
    ASSUME Decodable, NEW e \in EventsOf(blocks)
    PROVE  /\ HitsOf(e)["waveform"] \in Seq(Waveforms)
           /\ HitsOf(e)["pulse"] \in Seq(Pulses)
  <1> DEFINE others == blocks[e[1]].others
  <1>1. e[1] \in DOMAIN blocks
    BY EventIs
  <1>2. IsBlock(blocks[e[1]])
    BY <1>1, BlockFacts
  <1>3. ASSUME NEW kind \in {"waveform", "pulse"}
        PROVE  HitsOf(e)[kind] = IF e[2] \in DOMAIN others THEN others[e[2]][kind] ELSE << >>
    BY DEF HitsOf, HitKinds, TextKinds
  <1>4. ASSUME NEW kind \in {"waveform", "pulse"}, e[2] \in DOMAIN others
        PROVE  others[e[2]][kind] \in GivenHits(kind)
    BY <1>2, <1>4 DEF IsBlock, HitKinds, TextKinds
  <1>5. GivenHits("waveform") = Seq(Waveforms) /\ GivenHits("pulse") = Seq(Pulses)
    BY DEF GivenHits
  <1>6. << >> \in Seq(Waveforms) /\ << >> \in Seq(Pulses)
    BY EmptySeq
  <1> QED BY <1>3, <1>4, <1>5, <1>6

(* A row of caen1190_tree.                                                 *)
LEMMA CAENRowIs ==
    ASSUME Decodable, NEW e \in EventsOf(blocks)
    PROVE  LET hits == HitsOf(e)["caen1190"]
           IN  /\ Len(hits) \in Nat /\ DOMAIN hits = 1..Len(hits)
               /\ \A c \in CAENColumns :
                     DOMAIN CAENRow(e)[c] = DOMAIN hits /\ Len(CAENRow(e)[c]) = Len(hits)
               /\ \A j \in DOMAIN hits :
                     /\ CAENRow(e)["measurement"][j] = hits[j].word
                     /\ CAENRow(e)["caen_slot"][j] = hits[j].from["global_header"]
                     /\ CAENRow(e)["chip"][j] = hits[j].from["tdc_header"]
                     /\ CAENRow(e)["flags"][j] = hits[j].from["tdc_error"]
                     /\ CAENRow(e)["trig_time"][j] = hits[j].from["trigger_time"]
                     /\ CAENRow(e)["trl_status"][j] = hits[j].from["global_trailer"]
  <1> DEFINE hits == HitsOf(e)["caen1190"]
             WordNames == (DOMAIN blocks) \X Nat \X Nat
             V == WordNames \cup Nat
  <1>1. hits \in Seq(NamedHits)
    BY EventIs, HitsOfEvent
  <1>2. /\ Len(hits) \in Nat /\ DOMAIN hits = 1..Len(hits)
        /\ \A j \in 1..Len(hits) : hits[j] \in NamedHits
    BY <1>1, LenProperties, ElementOfSeq
  <1>3. \A c \in CAENColumns : CAENRow(e)[c] = << >> \o CAENValues(hits, c)
    BY DEF CAENRow, Row, Filled, Cleared, Columns, CAENColumns, WaveformColumns, PulseColumns
  <1> HIDE DEF hits
  <1>4. \A j \in 1..Len(hits) : hits[j].word \in V /\ hits[j].from \in [KeptWords -> Nat]
    BY <1>2 DEF NamedHits
  <1>5. ASSUME NEW c \in CAENColumns
        PROVE  CAENValues(hits, c) \in [1..Len(hits) -> V]
    <2> HIDE DEF WordNames
    <2>1. CASE c = "measurement"
      BY <1>2, <1>4, <2>1 DEF CAENValues, KeptWords
    <2>2. CASE c # "measurement"
      BY <1>2, <1>4, <1>5, <2>2 DEF CAENValues, KeptWords, CAENColumns
    <2> QED BY <2>1, <2>2
  <1> HIDE DEF V
  <1>6. ASSUME NEW c \in CAENColumns
        PROVE  /\ CAENRow(e)[c] = CAENValues(hits, c)
               /\ DOMAIN CAENRow(e)[c] = DOMAIN hits /\ Len(CAENRow(e)[c]) = Len(hits)
    <2>1. /\ CAENValues(hits, c) \in Seq(V) /\ Len(CAENValues(hits, c)) = Len(hits)
          /\ DOMAIN CAENValues(hits, c) = 1..Len(hits)
      BY <1>2, <1>5, SeqOfFunction
    <2>2. << >> \o CAENValues(hits, c) = CAENValues(hits, c)
      BY <2>1, ConcatEmptySeq
    <2> QED BY <1>2, <1>3, <2>1, <2>2
  <1>7. {"measurement", "caen_slot", "chip", "flags", "trig_time", "trl_status"} \subseteq CAENColumns
    BY DEF CAENColumns
  <1>8. ASSUME NEW j \in DOMAIN hits
        PROVE  /\ CAENValues(hits, "measurement")[j] = hits[j].word
               /\ CAENValues(hits, "caen_slot")[j] = hits[j].from["global_header"]
               /\ CAENValues(hits, "chip")[j] = hits[j].from["tdc_header"]
               /\ CAENValues(hits, "flags")[j] = hits[j].from["tdc_error"]
               /\ CAENValues(hits, "trig_time")[j] = hits[j].from["trigger_time"]
               /\ CAENValues(hits, "trl_status")[j] = hits[j].from["global_trailer"]
    BY DEF CAENValues
  <1> QED BY <1>2, <1>6, <1>7, <1>8 DEF hits

(* A row of waveform_tree.                                                 *)
LEMMA WaveformRowIs ==
    ASSUME Decodable, NEW e \in EventsOf(blocks)
    PROVE  LET waveforms == HitsOf(e)["waveform"]
               samples == WaveformRow(e)
           IN  /\ Len(samples["waveform"]) = Len(samples["waveform_address"])
               /\ {<<samples["waveform_address"][j], samples["waveform"][j]>> :
                      j \in DOMAIN samples["waveform"]}
                     = UNION {{<<h.address, s>> : s \in Range(h.samples)} : h \in Range(waveforms)}
  <1> DEFINE w == HitsOf(e)["waveform"]
             P == Nat \X Nat
             Samples(h) == [s \in DOMAIN h.samples |-> <<h.address, h.samples[s]>>]
             ss == [k \in DOMAIN w |-> Samples(w[k])]
             all == FlattenSeq(ss)
             First == [x \in P |-> x[1]]
             Second == [x \in P |-> x[2]]
  <1>1. w \in Seq(Waveforms)
    BY GivenHitsOfEvent
  <1>2. Len(w) \in Nat /\ DOMAIN w = 1..Len(w) /\ \A k \in 1..Len(w) : w[k] \in Waveforms
    BY <1>1, LenProperties, ElementOfSeq
  <1>3. \A c \in WaveformColumns : WaveformRow(e)[c] = << >> \o WaveformValues(w, c)
    BY DEF WaveformRow, Row, Filled, Cleared, Columns, CAENColumns, WaveformColumns, PulseColumns
  <1> HIDE DEF w
  <1>4. ASSUME NEW h \in Waveforms
        PROVE  /\ Samples(h) \in Seq(P) /\ DOMAIN Samples(h) = DOMAIN h.samples
               /\ Mapped(First, Samples(h)) = [s \in DOMAIN h.samples |-> h.address]
               /\ Mapped(Second, Samples(h)) = h.samples
               /\ Range(Samples(h)) = {<<h.address, s>> : s \in Range(h.samples)}
    <2>1. h.address \in Nat /\ h.samples \in Seq(Nat)
      BY DEF Waveforms
    <2>2. /\ Len(h.samples) \in Nat /\ DOMAIN h.samples = 1..Len(h.samples)
          /\ \A s \in 1..Len(h.samples) : h.samples[s] \in Nat
          /\ h.samples = [s \in 1..Len(h.samples) |-> h.samples[s]]
      BY <2>1, LenProperties, ElementOfSeq
    <2>3. Samples(h) \in [1..Len(h.samples) -> P]
      BY <2>1, <2>2
    <2>4. Samples(h) \in Seq(P)
      <3> HIDE DEF Samples, P
      <3> QED BY <2>2, <2>3, SeqOfFunction
    <2>5. Mapped(First, Samples(h)) = [s \in DOMAIN h.samples |-> h.address]
      BY <2>1, <2>2 DEF Mapped
    <2>6. Mapped(Second, Samples(h)) = [s \in 1..Len(h.samples) |-> h.samples[s]]
      BY <2>1, <2>2 DEF Mapped
    <2>7. Range(Samples(h)) = {<<h.address, s>> : s \in Range(h.samples)}
      BY DEF Range
    <2> QED BY <2>2, <2>4, <2>5, <2>6, <2>7
  <1>5. IsMap(First, P, Nat) /\ IsMap(Second, P, Nat)
    BY DEF IsMap
  <1>6. ss \in Seq(Seq(P)) /\ DOMAIN ss = 1..Len(w)
    <2>1. ss \in [1..Len(w) -> Seq(P)]
      <3> HIDE DEF Samples, P
      <3> QED BY <1>2, <1>4
    <2> HIDE DEF ss, P
    <2> QED BY <1>2, <2>1, SeqOfFunction
  <1>7. \A k \in 1..Len(w) : ss[k] = Samples(w[k])
    BY <1>2
  <1>8. /\ WaveformValues(w, "waveform_address") = FlattenSeq(MapEach(First, ss))
        /\ WaveformValues(w, "waveform") = FlattenSeq(MapEach(Second, ss))
    <2>1. ASSUME NEW k \in 1..Len(w)
          PROVE  /\ Mapped(First, ss[k]) = [s \in DOMAIN w[k].samples |-> w[k].address]
                 /\ Mapped(Second, ss[k]) = w[k].samples
      <3> HIDE DEF ss, First, Second, P, Samples
      <3> QED BY <1>2, <1>4, <1>7
    <2> HIDE DEF ss, First, Second, P, Samples
    <2>2. [k \in DOMAIN w |-> [s \in DOMAIN w[k].samples |-> w[k].address]]
             = MapEach(First, ss)
      BY <1>2, <1>6, <2>1 DEF MapEach
    <2>3. [k \in DOMAIN w |-> w[k].samples] = MapEach(Second, ss)
      BY <1>2, <1>6, <2>1 DEF MapEach
    <2>4. WaveformValues(w, "waveform_address")
             = FlattenSeq([k \in DOMAIN w |-> [s \in DOMAIN w[k].samples |-> w[k].address]])
      BY DEF WaveformValues
    <2>5. WaveformValues(w, "waveform") = FlattenSeq([k \in DOMAIN w |-> w[k].samples])
      BY DEF WaveformValues
    <2> QED BY <2>2, <2>3, <2>4, <2>5
  <1> HIDE DEF ss, First, Second, P, Samples, all
  <1>9. /\ all \in Seq(P)
        /\ WaveformValues(w, "waveform_address") = Mapped(First, all)
        /\ WaveformValues(w, "waveform") = Mapped(Second, all)
    <2>1. FlattenSeq(ss) \in Seq(P)
      BY <1>6, FlattenRange
    <2>2. ASSUME NEW F, IsMap(F, P, Nat)
          PROVE  Mapped(F, FlattenSeq(ss)) = FlattenSeq(MapEach(F, ss))
      BY <1>6, <2>2, FlattenMap
    <2> QED BY <1>5, <1>8, <2>1, <2>2 DEF all
  <1>10. /\ Len(all) \in Nat /\ DOMAIN all = 1..Len(all)
         /\ \A j \in DOMAIN all : all[j] \in P
    BY <1>9, LenProperties, ElementOfSeq
  <1>11. /\ Mapped(First, all) \in Seq(Nat) /\ Len(Mapped(First, all)) = Len(all)
         /\ Mapped(Second, all) \in Seq(Nat) /\ Len(Mapped(Second, all)) = Len(all)
    BY <1>5, <1>9, MapConcat
  <1>12. /\ WaveformRow(e)["waveform_address"] = Mapped(First, all)
         /\ WaveformRow(e)["waveform"] = Mapped(Second, all)
    <2>1. << >> \o Mapped(First, all) = Mapped(First, all)
          /\ << >> \o Mapped(Second, all) = Mapped(Second, all)
      BY <1>11, ConcatEmptySeq
    <2>2. "waveform" \in WaveformColumns /\ "waveform_address" \in WaveformColumns
      BY DEF WaveformColumns
    <2> QED BY <1>3, <1>9, <2>1, <2>2
  <1>13. \A j \in DOMAIN all :
            <<Mapped(First, all)[j], Mapped(Second, all)[j]>> = all[j]
    BY <1>10 DEF Mapped, First, Second, P
  <1>14. DOMAIN Mapped(Second, all) = DOMAIN all
    BY DEF Mapped
  <1>15. {<<Mapped(First, all)[j], Mapped(Second, all)[j]>> : j \in DOMAIN all} = Range(all)
    BY <1>13 DEF Range
  <1>16. Range(all) = UNION {Range(ss[k]) : k \in DOMAIN ss}
    BY <1>6, FlattenRange DEF all
  <1>17. UNION {Range(ss[k]) : k \in DOMAIN ss}
            = UNION {{<<h.address, s>> : s \in Range(h.samples)} : h \in Range(w)}
    <2>1. ASSUME NEW k \in DOMAIN ss
          PROVE  Range(ss[k]) = {<<w[k].address, s>> : s \in Range(w[k].samples)}
      BY <1>2, <1>4, <1>6, <1>7
    <2>2. DOMAIN ss = DOMAIN w
      BY <1>2, <1>6
    <2>3. Range(w) = {w[k] : k \in DOMAIN w}
      BY DEF Range
    <2> QED BY <2>1, <2>2, <2>3
  <1> QED BY <1>11, <1>12, <1>14, <1>15, <1>16, <1>17 DEF w

-----------------------------------------------------------------------------
(* The pulses of an event, and sums.                                       *)

\* The functions that the code's loops apply to each pulse, and to each number.
IntegralOf == [pulse \in Pulses |-> pulse.integral]

KeptOf == [pulse \in Pulses |-> IF IsKept(pulse) THEN << pulse >> ELSE << >>]

NonzeroOf == [x \in Nat |-> IF x = 0 THEN << >> ELSE << x >>]

(* Each of them gives what it is to give.                                  *)
LEMMA PulseMaps ==
    /\ IsMap(IntegralOf, Pulses, Nat)
    /\ IsMap(KeptOf, Pulses, Seq(Pulses))
    /\ IsMap(NonzeroOf, Nat, Seq(Nat))
  <1>1. \A pulse \in Pulses : pulse.integral \in Nat
    BY DEF Pulses
  <1>2. \A pulse \in Pulses : << pulse >> \in Seq(Pulses) /\ << >> \in Seq(Pulses)
    BY EmptySeq
  <1>3. \A x \in Nat : << x >> \in Seq(Nat) /\ << >> \in Seq(Nat)
    BY EmptySeq
  <1> QED BY <1>1, <1>2, <1>3 DEF IsMap, IntegralOf, KeptOf, NonzeroOf

(* The definitions of the model in these terms.                            *)
LEMMA PulseForms ==
    /\ \A pulses \in Seq(Pulses) : KeptPulses(pulses) = FlattenSeq(Mapped(KeptOf, pulses))
    /\ \A s \in Seq(Nat) : Nonzero(s) = FlattenSeq(Mapped(NonzeroOf, s))
  <1>1. ASSUME NEW pulses \in Seq(Pulses)
        PROVE  KeptPulses(pulses) = FlattenSeq(Mapped(KeptOf, pulses))
    <2>1. \A j \in DOMAIN pulses : pulses[j] \in Pulses
      BY LenProperties, ElementOfSeq
    <2>2. Mapped(KeptOf, pulses)
             = [j \in DOMAIN pulses |-> IF IsKept(pulses[j]) THEN << pulses[j] >> ELSE << >>]
      BY <2>1 DEF Mapped, KeptOf
    <2> QED BY <2>2 DEF KeptPulses
  <1>2. ASSUME NEW s \in Seq(Nat)
        PROVE  Nonzero(s) = FlattenSeq(Mapped(NonzeroOf, s))
    <2>1. \A k \in DOMAIN s : s[k] \in Nat
      BY LenProperties, ElementOfSeq
    <2>2. Mapped(NonzeroOf, s) = [k \in DOMAIN s |-> IF s[k] = 0 THEN << >> ELSE << s[k] >>]
      BY <2>1 DEF Mapped, NonzeroOf
    <2> QED BY <2>2 DEF Nonzero
  <1> QED BY <1>1, <1>2

(* What Nonzero leaves of a concatenation and of a sequence and a number   *)
(* more.                                                                   *)
LEMMA NonzeroConcat ==
    ASSUME NEW s \in Seq(Nat), NEW t \in Seq(Nat)
    PROVE  Nonzero(s) \in Seq(Nat) /\ Nonzero(s \o t) = Nonzero(s) \o Nonzero(t)
  <1>1. s \o t \in Seq(Nat)
    BY ConcatByElement
  <1>2. /\ Mapped(NonzeroOf, s) \in Seq(Seq(Nat)) /\ Mapped(NonzeroOf, t) \in Seq(Seq(Nat))
        /\ Mapped(NonzeroOf, s \o t) = Mapped(NonzeroOf, s) \o Mapped(NonzeroOf, t)
    BY PulseMaps, MapConcat
  <1>3. FlattenSeq(Mapped(NonzeroOf, s)) \in Seq(Nat)
    BY <1>2, FlattenAppend
  <1>4. FlattenSeq(Mapped(NonzeroOf, s) \o Mapped(NonzeroOf, t))
           = FlattenSeq(Mapped(NonzeroOf, s)) \o FlattenSeq(Mapped(NonzeroOf, t))
    BY <1>2, FlattenConcat
  <1> QED BY <1>1, <1>2, <1>3, <1>4, PulseForms

LEMMA NonzeroAppend ==
    ASSUME NEW s \in Seq(Nat), NEW x \in Nat
    PROVE  /\ Nonzero(s) \in Seq(Nat)
           /\ x = 0 => Nonzero(Append(s, x)) = Nonzero(s)
           /\ x # 0 => Nonzero(Append(s, x)) = Append(Nonzero(s), x)
  <1>1. Append(s, x) \in Seq(Nat)
    BY AppendProperties
  <1>2. /\ Mapped(NonzeroOf, s) \in Seq(Seq(Nat))
        /\ Mapped(NonzeroOf, Append(s, x)) = Append(Mapped(NonzeroOf, s), NonzeroOf[x])
    <2>1. IsMap(NonzeroOf, Nat, Seq(Nat))
      BY PulseMaps
    <2> QED BY <2>1, MapAppend
  <1>3. NonzeroOf[x] \in Seq(Nat)
    BY PulseMaps DEF IsMap
  <1>4. /\ FlattenSeq(Mapped(NonzeroOf, s)) \in Seq(Nat)
        /\ FlattenSeq(Append(Mapped(NonzeroOf, s), NonzeroOf[x]))
              = FlattenSeq(Mapped(NonzeroOf, s)) \o NonzeroOf[x]
    BY <1>2, <1>3, FlattenAppend
  <1>5. Nonzero(s) \in Seq(Nat) /\ Nonzero(Append(s, x)) = Nonzero(s) \o NonzeroOf[x]
    BY <1>1, <1>2, <1>4, PulseForms
  <1>6. CASE x = 0
    <2>1. NonzeroOf[x] = << >>
      BY <1>6 DEF NonzeroOf
    <2> QED BY <1>5, <1>6, <2>1, ConcatEmptySeq
  <1>7. CASE x # 0
    <2>1. NonzeroOf[x] = << x >>
      BY <1>7 DEF NonzeroOf
    <2>2. \A u \in Seq(Nat) : u \o << x >> = Append(u, x)
      BY AppendIsConcat
    <2> QED BY <1>5, <1>7, <2>1, <2>2
  <1> QED BY <1>5, <1>6, <1>7

(* The pulses that are kept are those with an integral, in their order.    *)
LEMMA KeptPulsesAre ==
    ASSUME NEW pulses \in Seq(Pulses)
    PROVE  /\ KeptPulses(pulses) \in Seq(Pulses)
           /\ Mapped(IntegralOf, KeptPulses(pulses)) = Nonzero(Mapped(IntegralOf, pulses))
           /\ KeptPulses(pulses) # << >> <=> \E h \in Range(pulses) : h.integral # 0
  <1> DEFINE ss == Mapped(KeptOf, pulses)
             ints == Mapped(IntegralOf, pulses)
  <1>1. /\ ss \in Seq(Seq(Pulses)) /\ ints \in Seq(Nat) /\ Len(ss) = Len(pulses)
    BY PulseMaps, MapConcat
  <1>2. KeptPulses(pulses) = FlattenSeq(ss)
    BY PulseForms
  <1>3. /\ FlattenSeq(ss) \in Seq(Pulses)
        /\ Mapped(IntegralOf, FlattenSeq(ss)) = FlattenSeq(MapEach(IntegralOf, ss))
        /\ Range(FlattenSeq(ss)) = UNION {Range(ss[k]) : k \in DOMAIN ss}
    <2> HIDE DEF ss
    <2>1. /\ FlattenSeq(ss) \in Seq(Pulses)
          /\ Range(FlattenSeq(ss)) = UNION {Range(ss[k]) : k \in DOMAIN ss}
      BY <1>1, FlattenRange
    <2>2. IsMap(IntegralOf, Pulses, Nat)
      BY PulseMaps
    <2>3. Mapped(IntegralOf, FlattenSeq(ss)) = FlattenSeq(MapEach(IntegralOf, ss))
      BY <1>1, <2>2, FlattenMap
    <2> QED BY <2>1, <2>3
  <1>4. \A k \in DOMAIN pulses : pulses[k] \in Pulses /\ pulses[k].integral \in Nat
    <2>1. \A k \in DOMAIN pulses : pulses[k] \in Pulses
      BY LenProperties, ElementOfSeq
    <2> QED BY <2>1 DEF Pulses
  <1>5. MapEach(IntegralOf, ss) = Mapped(NonzeroOf, ints)
    <2>1. ASSUME NEW k \in DOMAIN pulses
          PROVE  Mapped(IntegralOf, ss[k]) = NonzeroOf[ints[k]]
      <3>1. ints[k] = pulses[k].integral /\ ss[k] = KeptOf[pulses[k]]
        BY <1>4 DEF Mapped, IntegralOf
      <3> HIDE DEF ints, ss
      <3>2. CASE pulses[k].integral = 0
        <4>1. ss[k] = << >> /\ NonzeroOf[ints[k]] = << >>
          BY <1>4, <3>1, <3>2 DEF KeptOf, NonzeroOf, IsKept
        <4>2. Mapped(IntegralOf, << >>) = << >>
          <5>1. << >> \in Seq(Pulses) /\ Len(<< >>) = 0
            BY EmptySeq
          <5>2. \A u \in Seq(Pulses) : /\ Mapped(IntegralOf, u) \in Seq(Nat)
                                       /\ Len(Mapped(IntegralOf, u)) = Len(u)
            BY PulseMaps, MapConcat
          <5> QED BY <5>1, <5>2, EmptySeq
        <4> QED BY <4>1, <4>2
      <3>3. CASE pulses[k].integral # 0
        <4>1. ss[k] = << pulses[k] >> /\ NonzeroOf[ints[k]] = << pulses[k].integral >>
          BY <1>4, <3>1, <3>3 DEF KeptOf, NonzeroOf, IsKept
        <4>2. Mapped(IntegralOf, << pulses[k] >>) = << pulses[k].integral >>
          BY <1>4 DEF Mapped, IntegralOf
        <4> QED BY <4>1, <4>2
      <3> QED BY <3>2, <3>3
    <2>2. DOMAIN ss = DOMAIN pulses /\ DOMAIN ints = DOMAIN pulses
      BY DEF Mapped
    <2> HIDE DEF ss, ints
    <2> QED BY <2>1, <2>2 DEF MapEach, Mapped
  <1>6. Mapped(IntegralOf, KeptPulses(pulses)) = Nonzero(ints)
    <2> HIDE DEF ss, ints
    <2> QED BY <1>1, <1>2, <1>3, <1>5, PulseForms
  <1>7. KeptPulses(pulses) # << >> <=> Range(FlattenSeq(ss)) # {}
    <2>1. \A u \in Seq(Pulses) : u # << >> <=> Range(u) # {}
      <3> SUFFICES ASSUME NEW u \in Seq(Pulses) PROVE u # << >> <=> Range(u) # {}
        OBVIOUS
      <3>1. Len(u) \in Nat /\ DOMAIN u = 1..Len(u) /\ (Len(u) = 0 <=> u = << >>)
        BY LenProperties, EmptySeq
      <3>2. \A m \in Nat : m # 0 <=> 1..m # {}
        <4>1. \A m \in Nat : m # 0 => 1 \in 1..m
          OBVIOUS
        <4>2. 1..0 = {}
          OBVIOUS
        <4> QED BY <4>1, <4>2
      <3>3. DOMAIN u # {} <=> Range(u) # {}
        BY DEF Range
      <3> QED BY <3>1, <3>2, <3>3
    <2> HIDE DEF ss
    <2> QED BY <1>2, <1>3, <2>1
  <1>8. \A k \in DOMAIN ss :
           ss[k] = IF pulses[k].integral # 0 THEN << pulses[k] >> ELSE << >>
    BY <1>4 DEF Mapped, KeptOf, IsKept
  <1>9. DOMAIN ss = DOMAIN pulses
    BY DEF Mapped
  <1> HIDE DEF ss
  <1>10. ASSUME NEW k \in DOMAIN ss
         PROVE  Range(ss[k]) # {} <=> pulses[k].integral # 0
    <2>1. CASE pulses[k].integral # 0
      <3>1. Range(<< pulses[k] >>) = {pulses[k]}
        BY DEF Range
      <3> QED BY <1>8, <2>1, <3>1
    <2>2. CASE pulses[k].integral = 0
      <3>1. Range(<< >>) = {}
        BY BeginType DEF Range, Begin
      <3> QED BY <1>8, <2>2, <3>1
    <2> QED BY <2>1, <2>2
  <1>11. Range(FlattenSeq(ss)) # {} <=> \E k \in DOMAIN ss : Range(ss[k]) # {}
    BY <1>3
  <1>12. (\E h \in Range(pulses) : h.integral # 0)
            <=> \E k \in DOMAIN pulses : pulses[k].integral # 0
    BY DEF Range
  <1> QED BY <1>2, <1>3, <1>6, <1>7, <1>9, <1>10, <1>11, <1>12

(* Total is a loop that adds.                                              *)
LEMMA TotalLoop ==
    ASSUME NEW s \in Seq(Nat)
    PROVE  \E g \in [0..Len(s) -> Nat] :
              /\ g[0] = 0
              /\ \A k \in 1..Len(s) : g[k] = g[k - 1] + s[k]
              /\ Total(s) = g[Len(s)]
  <1> DEFINE n == Len(s)
             step == [k \in 1..n |-> [x \in Nat |-> x + s[k]]]
             Body(f, k) == IF k = 0 THEN 0 ELSE f[k - 1] + s[k]
             sum == CHOOSE f : f = [k \in 0..n |-> Body(f, k)]
  <1>1. n \in Nat /\ \A k \in 1..n : s[k] \in Nat
    BY LenProperties, ElementOfSeq
  <1>2. Total(s) = sum[n]
    BY DEF Total
  <1> HIDE DEF n
  <1>3. step \in Turns(n, Nat)
    BY <1>1 DEF Turns
  <1>4. PICK g : g \in Results(n, Nat, 0, step)
    <2> HIDE DEF step
    <2>1. 0 \in Nat
      OBVIOUS
    <2> QED BY <1>1, <1>3, <2>1, LoopHasResult
  <1>5. g \in [0..n -> Nat] /\ g[0] = 0 /\ \A k \in 1..n : g[k] = step[k][g[k - 1]]
    BY <1>4 DEF Results
  <1>6. ASSUME NEW k \in 1..n PROVE g[k] = g[k - 1] + s[k]
    <2>1. g[k - 1] \in Nat
      BY <1>1, <1>5
    <2> QED BY <1>5, <2>1
  <1>7. g = [k \in 0..n |-> Body(g, k)]
    <2>1. ASSUME NEW k \in 0..n PROVE g[k] = Body(g, k)
      <3>1. CASE k = 0
        BY <1>5, <3>1
      <3>2. CASE k # 0
        <4>1. k \in 1..n
          BY <1>1, <3>2
        <4> QED BY <1>6, <3>2, <4>1
      <3> QED BY <3>1, <3>2
    <2> HIDE DEF Body
    <2> QED BY <1>5, <2>1
  <1>8. sum = [k \in 0..n |-> Body(sum, k)]
    <2> HIDE DEF Body
    <2> QED BY <1>7
  <1> HIDE DEF sum
  <1>9. sum[0] = g[0]
    BY <1>1, <1>5, <1>8
  <1>10. ASSUME NEW k \in 1..n, sum[k - 1] = g[k - 1] PROVE sum[k] = g[k]
    <2>1. k \in 0..n /\ k # 0
      BY <1>1
    <2> QED BY <1>6, <1>8, <1>10, <2>1
  <1>11. sum[n] = g[n]
    <2> HIDE DEF step
    <2> QED BY <1>1, <1>9, <1>10, LoopsAgree
  <1> QED BY <1>2, <1>5, <1>6, <1>11 DEF n

(* A number more adds to the total.                                        *)
LEMMA TotalAppend ==
    ASSUME NEW s \in Seq(Nat), NEW x \in Nat
    PROVE  Total(s) \in Nat /\ Total(Append(s, x)) = Total(s) + x
  <1> DEFINE n == Len(s)
             longer == Append(s, x)
  <1>1. /\ n \in Nat /\ longer \in Seq(Nat) /\ Len(longer) = n + 1
        /\ \A k \in 1..n : longer[k] = s[k]
        /\ longer[n + 1] = x
    BY AppendProperties, LenProperties
  <1>2. PICK g \in [0..n -> Nat] :
              /\ g[0] = 0
              /\ \A k \in 1..n : g[k] = g[k - 1] + s[k]
              /\ Total(s) = g[n]
    BY TotalLoop
  <1> HIDE DEF longer
  <1>3. PICK h \in [0..Len(longer) -> Nat] :
              /\ h[0] = 0
              /\ \A k \in 1..Len(longer) : h[k] = h[k - 1] + longer[k]
              /\ Total(longer) = h[Len(longer)]
    BY <1>1, TotalLoop
  <1> HIDE DEF n
  <1>4. g[n] = h[n]
    <2>1. ASSUME NEW k \in 1..n, g[k - 1] = h[k - 1] PROVE g[k] = h[k]
      <3>1. k \in 1..Len(longer) /\ longer[k] = s[k]
        BY <1>1
      <3> QED BY <1>2, <1>3, <2>1, <3>1
    <2>2. g[0] = h[0]
      BY <1>2, <1>3
    <2> QED BY <1>1, <2>1, <2>2, LoopsAgree
  <1>5. h[n + 1] = h[n] + x
    <2>1. n + 1 \in 1..Len(longer) /\ (n + 1) - 1 = n
      BY <1>1
    <2> QED BY <1>1, <1>3, <2>1
  <1>6. Total(s) \in Nat
    BY <1>1, <1>2
  <1> QED BY <1>1, <1>2, <1>3, <1>4, <1>5, <1>6 DEF longer

(* Nothing adds to nothing.                                                *)
LEMMA NothingAtFirst ==
    /\ Total(<< >>) = 0
    /\ Nonzero(<< >>) = << >>
  <1>1. << >> \in Seq(Nat) /\ Len(<< >>) = 0
    BY EmptySeq
  <1>2. Total(<< >>) = 0
    <2>1. \E g \in [0..Len(<< >>) -> Nat] : g[0] = 0 /\ Total(<< >>) = g[Len(<< >>)]
      BY <1>1, TotalLoop
    <2> QED BY <1>1, <2>1
  <1>3. Mapped(NonzeroOf, << >>) \in Seq(Seq(Nat)) /\ Len(Mapped(NonzeroOf, << >>)) = Len(<< >>)
    <2>1. \A u \in Seq(Nat) : /\ Mapped(NonzeroOf, u) \in Seq(Seq(Nat))
                             /\ Len(Mapped(NonzeroOf, u)) = Len(u)
      BY PulseMaps, MapConcat
    <2> QED BY <1>1, <2>1
  <1>4. Mapped(NonzeroOf, << >>) = << >>
    BY <1>1, <1>3, EmptySeq
  <1> QED BY <1>1, <1>2, <1>4, PulseForms, FlattenEmpty

(* A row of pulse_tree.                                                    *)
LEMMA PulsesRowIs ==
    ASSUME Decodable, NEW e \in EventsOf(blocks)
    PROVE  LET pulses == HitsOf(e)["pulse"]
           IN  /\ PulsesRow(e).integral = Mapped(IntegralOf, KeptPulses(pulses))
               /\ PulsesRow(e).integral \in Seq(Nat)
               /\ PulsesRow(e).nhits = Len(KeptPulses(pulses))
               /\ PulsesRow(e).nhits = Len(PulsesRow(e).integral)
  <1> DEFINE pulses == HitsOf(e)["pulse"]
             kept == KeptPulses(pulses)
  <1>1. pulses \in Seq(Pulses)
    BY GivenHitsOfEvent
  <1>2. kept \in Seq(Pulses)
    BY <1>1, KeptPulsesAre
  <1>3. \A j \in DOMAIN kept : kept[j] \in Pulses
    <2> HIDE DEF kept
    <2> QED BY <1>2, LenProperties, ElementOfSeq
  <1>4. /\ PulsesRow(e).integral = << >> \o PulseValues(pulses, "integral")
        /\ PulsesRow(e).nhits = Len(kept)
    BY DEF PulsesRow, PulseRow, LastPulse, NumberHit, Filled, Cleared, Columns, CAENColumns,
           WaveformColumns, PulseColumns
  <1>5. PulseValues(pulses, "integral") = Mapped(IntegralOf, kept)
    <2>1. PulseValues(pulses, "integral") = [j \in DOMAIN kept |-> kept[j].integral]
      BY DEF PulseValues
    <2> HIDE DEF kept
    <2> QED BY <1>3, <2>1 DEF Mapped, IntegralOf
  <1>6. Mapped(IntegralOf, kept) \in Seq(Nat) /\ Len(Mapped(IntegralOf, kept)) = Len(kept)
    <2> HIDE DEF kept
    <2> QED BY <1>2, PulseMaps, MapConcat
  <1>7. << >> \o Mapped(IntegralOf, kept) = Mapped(IntegralOf, kept)
    BY <1>6, ConcatEmptySeq
  <1> QED BY <1>4, <1>5, <1>6, <1>7

-----------------------------------------------------------------------------
(* The inductive invariant.                                                *)

\* What the processor makes of an event, as functions of the event.
CAENRowOf == [e \in EventsOf(blocks) |-> CAENRow(e)]

WaveformRowOf == [e \in EventsOf(blocks) |-> WaveformRow(e)]

CountOf == [e \in EventsOf(blocks) |-> Len(HitsOf(e)["caen1190"])]

PulseRows == {PulsesRow(e) : e \in EventsOf(blocks)}

IntegralsOf == [row \in PulseRows |-> row.integral]

Summaries == {Summary(e, HitsOf(e)) : e \in EventsOf(blocks)}

ListedOf(kind) == [summary \in Summaries |-> summary.listed[kind]]

ColumnsAgree ==
    /\ DOMAIN columns = Columns
    /\ \A c \in Columns \ PulseColumns : Len(columns[c]) = Len(columns[IF c \in CAENColumns
                                                       THEN "measurement" ELSE "waveform"])

\* An event comes once.
EventsComeOnce ==
    /\ processed \in Seq(EventsOf(blocks))
    /\ IsInjective(processed)
    /\ arriving = EventsOf(blocks) \ Range(processed)

RowsOfEvents ==
    /\ trees["caen1190_tree"] = Mapped(CAENRowOf, processed)
    /\ trees["waveform_tree"] = Mapped(WaveformRowOf, processed)

\* The places of the events that have a pulse to keep.
WithPulse ==
    {n \in DOMAIN processed : \E h \in Range(HitsOf(processed[n])["pulse"]) : h.integral # 0}

PulsesAreKept ==
    /\ trees["pulse_tree"] \in Seq(PulseRows)
    /\ histogram \in Seq(Nat)
    /\ \A n \in DOMAIN trees["pulse_tree"] : trees["pulse_tree"][n].nhits > 0
    /\ FlattenSeq(Mapped(IntegralsOf, trees["pulse_tree"])) = Nonzero(histogram)
    /\ IsFiniteSet(WithPulse)
    /\ Len(trees["pulse_tree"]) = Cardinality(WithPulse)

TextLists ==
    /\ text \in Seq(Summaries)
    /\ ~textOpen => text = << >>
    /\ textOpen =>
          /\ Nonzero(Mapped(ListedOf("caen1190"), text)) = Nonzero(Mapped(CountOf, processed))
          /\ Total(Mapped(ListedOf("pulse"), text)) = Len(histogram)

IInv ==
    /\ Decodable
    /\ phase \in {"created", "processing", "finished", "failed"}
    /\ ColumnsAgree
    /\ DOMAIN trees = Trees
    /\ EventsComeOnce
    /\ RowsOfEvents
    /\ PulsesAreKept
    /\ TextLists
    /\ phase = "created" => processed = << >> /\ histogram = << >> /\ text = << >>
    /\ phase = "finished" => written = trees

(* The functions map events, rows and summaries to what they are to.       *)
LEMMA EventMaps ==
    ASSUME Decodable
    PROVE  /\ IsMap(CAENRowOf, EventsOf(blocks), {CAENRow(e) : e \in EventsOf(blocks)})
           /\ IsMap(WaveformRowOf, EventsOf(blocks), {WaveformRow(e) : e \in EventsOf(blocks)})
           /\ IsMap(CountOf, EventsOf(blocks), Nat)
           /\ IsMap(IntegralsOf, PulseRows, Seq(Nat))
           /\ IsMap(ListedOf("caen1190"), Summaries, Nat)
           /\ IsMap(ListedOf("pulse"), Summaries, Nat)
  <1>1. \A e \in EventsOf(blocks) :
           Len(HitsOf(e)["caen1190"]) \in Nat /\ Len(HitsOf(e)["pulse"]) \in Nat
    BY CAENRowIs, GivenHitsOfEvent, LenProperties
  <1>2. IsMap(CountOf, EventsOf(blocks), Nat)
    BY <1>1 DEF IsMap, CountOf
  <1>3. \A row \in PulseRows : row.integral \in Seq(Nat)
    BY PulsesRowIs DEF PulseRows
  <1>4. IsMap(IntegralsOf, PulseRows, Seq(Nat))
    BY <1>3 DEF IsMap, IntegralsOf
  <1>5. \A summary \in Summaries :
           summary.listed["caen1190"] \in Nat /\ summary.listed["pulse"] \in Nat
    BY <1>1 DEF Summaries, Summary, TextKinds
  <1>6. IsMap(ListedOf("caen1190"), Summaries, Nat) /\ IsMap(ListedOf("pulse"), Summaries, Nat)
    BY <1>5 DEF IsMap, ListedOf
  <1>7. IsMap(CAENRowOf, EventsOf(blocks), {CAENRow(e) : e \in EventsOf(blocks)})
    BY DEF IsMap, CAENRowOf
  <1>8. IsMap(WaveformRowOf, EventsOf(blocks), {WaveformRow(e) : e \in EventsOf(blocks)})
    BY DEF IsMap, WaveformRowOf
  <1> QED BY <1>2, <1>4, <1>6, <1>7, <1>8

(* What is read does not change.                                           *)
LEMMA SameHits ==
    ASSUME blocks' = blocks
    PROVE  \A e : HitsOf(e)' = HitsOf(e)
  BY DEF HitsOf, CAENHitsIn, ScalerHits

LEMMA SameReadout ==
    ASSUME blocks' = blocks
    PROVE  /\ EventsOf(blocks)' = EventsOf(blocks)
           /\ Decodable' <=> Decodable
           /\ CAENRowOf' = CAENRowOf /\ WaveformRowOf' = WaveformRowOf /\ CountOf' = CountOf
           /\ PulseRows' = PulseRows /\ IntegralsOf' = IntegralsOf
           /\ Summaries' = Summaries
           /\ ListedOf("caen1190")' = ListedOf("caen1190")
           /\ ListedOf("pulse")' = ListedOf("pulse")
  <1>1. \A e : HitsOf(e)' = HitsOf(e)
    BY SameHits
  <1>2. EventsOf(blocks)' = EventsOf(blocks)
    BY DEF EventsOf, EventNumbers, ScalerNumbers
  <1>3. Decodable' <=> Decodable
    BY DEF Decodable, IsDecodable
  <1>4. \A e : /\ CAENRow(e)' = CAENRow(e) /\ WaveformRow(e)' = WaveformRow(e)
               /\ PulsesRow(e)' = PulsesRow(e)
    BY <1>1 DEF CAENRow, WaveformRow, PulsesRow
  <1>5. CAENRowOf' = CAENRowOf /\ WaveformRowOf' = WaveformRowOf
    BY <1>2, <1>4 DEF CAENRowOf, WaveformRowOf
  <1>6. CountOf' = CountOf
    BY <1>1, <1>2 DEF CountOf
  <1>7. PulseRows' = PulseRows
    BY <1>2, <1>4 DEF PulseRows
  <1>8. IntegralsOf' = IntegralsOf
    BY <1>7 DEF IntegralsOf
  <1>9. Summaries' = Summaries
    BY <1>1, <1>2 DEF Summaries
  <1>10. /\ ListedOf("caen1190")' = ListedOf("caen1190")
         /\ ListedOf("pulse")' = ListedOf("pulse")
    BY <1>9 DEF ListedOf
  <1> QED BY <1>2, <1>3, <1>5, <1>6, <1>7, <1>8, <1>9, <1>10

(* What the empty sequence becomes.                                        *)
LEMMA MappedEmpty ==
    ASSUME NEW F
    PROVE  Mapped(F, << >>) = << >>
  <1>1. DOMAIN << >> = {}
    BY BeginType DEF Begin
  <1>2. << >> = [i \in 1..0 |-> 0]
    <2>1. [i \in 1..0 |-> 0] \in Seq(Nat) /\ Len([i \in 1..0 |-> 0]) = 0
      <3>1. [i \in 1..0 |-> 0] \in [1..0 -> Nat] /\ 0 \in Nat
        OBVIOUS
      <3> QED BY <3>1, SeqOfFunction
    <2> QED BY <2>1, EmptySeq
  <1>3. 1..0 = {}
    OBVIOUS
  <1> QED BY <1>1, <1>2, <1>3 DEF Mapped

(* The invariant holds at the start.                                       *)
LEMMA InitInv == Init => IInv
  <1> SUFFICES ASSUME Init PROVE IInv
    OBVIOUS
  <1>1. Decodable
    BY DEF Init, Decodable
  <1>2. << >> \in Seq(EventsOf(blocks)) /\ DOMAIN << >> = {}
    BY EmptySeq, BeginType DEF Begin
  <1>3. EventsComeOnce
    BY <1>2 DEF Init, EventsComeOnce, IsInjective, Range
  <1>4. ColumnsAgree
    BY DEF Init, ColumnsAgree, Columns, CAENColumns, WaveformColumns, PulseColumns
  <1>5. /\ trees["caen1190_tree"] = << >> /\ trees["waveform_tree"] = << >>
        /\ trees["pulse_tree"] = << >> /\ DOMAIN trees = Trees
    BY DEF Init, Trees
  <1>6. RowsOfEvents
    BY <1>5, MappedEmpty DEF Init, RowsOfEvents
  <1>7. PulsesAreKept
    <2>1. WithPulse = {}
      BY <1>2 DEF Init, WithPulse
    <2>2. << >> \in Seq(PulseRows) /\ << >> \in Seq(Nat) /\ Len(<< >>) = 0
      BY EmptySeq
    <2>3. FlattenSeq(Mapped(IntegralsOf, << >>)) = Nonzero(<< >>)
      BY MappedEmpty, FlattenEmpty, NothingAtFirst
    <2>4. IsFiniteSet({}) /\ Cardinality({}) = 0
      BY FS_EmptySet
    <2> QED BY <1>2, <1>5, <2>1, <2>2, <2>3, <2>4 DEF Init, PulsesAreKept
  <1>8. TextLists
    BY EmptySeq DEF Init, TextLists
  <1> QED BY <1>1, <1>3, <1>4, <1>5, <1>6, <1>7, <1>8 DEF Init, IInv

(* Steps that process no event.                                            *)
LEMMA QuietParts ==
    ASSUME IInv, UNCHANGED <<blocks, arriving, columns, trees, histogram, text, processed>>
    PROVE  /\ Decodable' /\ ColumnsAgree' /\ DOMAIN trees' = Trees /\ EventsComeOnce'
           /\ RowsOfEvents' /\ PulsesAreKept'
  <1>1. /\ Decodable /\ ColumnsAgree /\ DOMAIN trees = Trees /\ EventsComeOnce
        /\ RowsOfEvents /\ PulsesAreKept
    BY DEF IInv
  <1>2. EventsOf(blocks)' = EventsOf(blocks) /\ (Decodable' <=> Decodable)
        /\ CAENRowOf' = CAENRowOf /\ WaveformRowOf' = WaveformRowOf
        /\ PulseRows' = PulseRows /\ IntegralsOf' = IntegralsOf
    BY SameReadout
  <1>3. \A e : HitsOf(e)' = HitsOf(e)
    BY SameHits
  <1>4. ColumnsAgree' /\ DOMAIN trees' = Trees
    BY <1>1 DEF ColumnsAgree
  <1>5. EventsComeOnce'
    BY <1>1, <1>2 DEF EventsComeOnce
  <1>6. RowsOfEvents'
    BY <1>1, <1>2 DEF RowsOfEvents
  <1>7. WithPulse' = WithPulse
    BY <1>3 DEF WithPulse
  <1>8. PulsesAreKept'
    BY <1>1, <1>2, <1>7 DEF PulsesAreKept
  <1> QED BY <1>1, <1>2, <1>4, <1>5, <1>6, <1>8

LEMMA QuietText ==
    ASSUME IInv, UNCHANGED <<blocks, histogram, textOpen, text, processed>>
    PROVE  TextLists'
  <1>1. TextLists
    BY DEF IInv
  <1>2. /\ Summaries' = Summaries /\ CountOf' = CountOf
        /\ ListedOf("caen1190")' = ListedOf("caen1190")
        /\ ListedOf("pulse")' = ListedOf("pulse")
    BY SameReadout
  <1> QED BY <1>1, <1>2 DEF TextLists

(* Init opens the text file before there is an event.                      *)
LEMMA OpenInv ==
    ASSUME IInv, OpenOutputs
    PROVE  IInv'
  <1>1. /\ UNCHANGED <<blocks, arriving, columns, trees, histogram, text, processed>>
        /\ phase = "created" /\ phase' \in {"processing", "failed"}
    BY DEF OpenOutputs
  <1>2. /\ Decodable' /\ ColumnsAgree' /\ DOMAIN trees' = Trees /\ EventsComeOnce'
        /\ RowsOfEvents' /\ PulsesAreKept'
    BY <1>1, QuietParts
  <1>3. processed = << >> /\ histogram = << >> /\ text = << >>
    BY <1>1 DEF IInv
  <1>4. processed' = << >> /\ histogram' = << >> /\ text' = << >>
    BY <1>1, <1>3
  <1>5. DOMAIN << >> = {} /\ Len(<< >>) = 0 /\ << >> \in Seq(Summaries')
    BY EmptySeq, BeginType DEF Begin
  <1>6. TextLists'
    BY <1>4, <1>5, MappedEmpty, NothingAtFirst DEF TextLists
  <1>7. phase' # "created" /\ phase' # "finished"
        /\ phase' \in {"created", "processing", "finished", "failed"}
    BY <1>1
  <1> QED BY <1>2, <1>6, <1>7 DEF IInv

(* Finish writes the trees and ends the processing.                        *)
LEMMA FinishInv ==
    ASSUME IInv, Finish
    PROVE  IInv'
  <1>1. /\ UNCHANGED <<blocks, arriving, columns, trees, histogram, textOpen, text, processed>>
        /\ phase' = "finished" /\ written' = trees
    BY DEF Finish
  <1>2. /\ Decodable' /\ ColumnsAgree' /\ DOMAIN trees' = Trees /\ EventsComeOnce'
        /\ RowsOfEvents' /\ PulsesAreKept'
    BY <1>1, QuietParts
  <1>3. TextLists'
    BY <1>1, QuietText
  <1> QED BY <1>1, <1>2, <1>3 DEF IInv

LEMMA StutterInv ==
    ASSUME IInv, UNCHANGED vars
    PROVE  IInv'
  <1>1. UNCHANGED <<phase, blocks, arriving, columns, trees, histogram, textOpen, text, written,
                    processed>>
    BY DEF vars
  <1>2. /\ Decodable' /\ ColumnsAgree' /\ DOMAIN trees' = Trees /\ EventsComeOnce'
        /\ RowsOfEvents' /\ PulsesAreKept'
    BY <1>1, QuietParts
  <1>3. TextLists'
    BY <1>1, QuietText
  <1> QED BY <1>1, <1>2, <1>3 DEF IInv

(* An event's rows are added behind the rows of the events before.         *)
LEMMA ProcessRows ==
    ASSUME IInv, NEW e \in arriving, Process(e)
    PROVE  /\ Decodable' /\ ColumnsAgree' /\ DOMAIN trees' = Trees
           /\ EventsComeOnce' /\ RowsOfEvents'
  <1>1. /\ Decodable /\ EventsComeOnce /\ RowsOfEvents /\ DOMAIN trees = Trees
        /\ blocks' = blocks /\ processed' = Append(processed, e) /\ arriving' = arriving \ {e}
        /\ columns' = Filled(HitsOf(e))
    BY DEF IInv, Process
  <1>2. EventsOf(blocks)' = EventsOf(blocks) /\ (Decodable' <=> Decodable)
        /\ CAENRowOf' = CAENRowOf /\ WaveformRowOf' = WaveformRowOf
    BY <1>1, SameReadout
  <1> DEFINE S == EventsOf(blocks)
  <1>3. processed \in Seq(S) /\ e \in S /\ e \notin Range(processed) /\ IsInjective(processed)
        /\ arriving = S \ Range(processed)
    BY <1>1 DEF EventsComeOnce
  <1> HIDE DEF S
  <1>4. /\ Len(processed) \in Nat /\ DOMAIN processed = 1..Len(processed)
        /\ Append(processed, e) \in Seq(S)
        /\ DOMAIN Append(processed, e) = 1..(Len(processed) + 1)
        /\ \A k \in 1..Len(processed) : Append(processed, e)[k] = processed[k]
        /\ Append(processed, e)[Len(processed) + 1] = e
    BY <1>3, AppendProperties, LenProperties
  <1>5. EventsComeOnce'
    <2>1. \A k \in 1..(Len(processed) + 1) : k \in 1..Len(processed) \/ k = Len(processed) + 1
      BY <1>4
    <2>2. Len(processed) + 1 \in 1..(Len(processed) + 1)
          /\ \A k \in 1..Len(processed) : k \in 1..(Len(processed) + 1)
      BY <1>4
    <2> DEFINE m == Len(processed) + 1
               longer == Append(processed, e)
    <2> HIDE DEF m, longer
    <2>3. /\ DOMAIN longer = 1..m /\ m \in 1..m /\ longer[m] = e
          /\ \A k \in 1..m : (k \in DOMAIN processed /\ longer[k] = processed[k]) \/ k = m
          /\ \A k \in DOMAIN processed : k \in 1..m /\ longer[k] = processed[k]
      BY <1>4, <2>1, <2>2 DEF m, longer
    <2>4. Range(longer) = Range(processed) \cup {e}
      BY <2>3 DEF Range
    <2>5. IsInjective(longer)
      <3> SUFFICES ASSUME NEW j \in 1..m, NEW k \in 1..m, longer[j] = longer[k] PROVE j = k
        BY <2>3 DEF IsInjective
      <3>1. CASE j \in DOMAIN processed /\ k \in DOMAIN processed
        BY <1>3, <2>3, <3>1 DEF IsInjective
      <3>2. CASE j \in DOMAIN processed /\ k = m
        BY <1>3, <2>3, <3>2 DEF Range
      <3>3. CASE j = m /\ k \in DOMAIN processed
        BY <1>3, <2>3, <3>3 DEF Range
      <3> QED BY <2>3, <3>1, <3>2, <3>3
    <2>6. processed' = longer /\ longer \in Seq(S)
      BY <1>1, <1>4 DEF longer
    <2>7. arriving' = S \ Range(longer)
      BY <1>1, <1>3, <2>4
    <2> QED BY <1>2, <2>5, <2>6, <2>7 DEF EventsComeOnce, S
  <1>6. /\ trees' = [trees EXCEPT
              !["caen1190_tree"] = Append(@, CAENRow(e)),
              !["waveform_tree"] = Append(@, WaveformRow(e)),
              !["pulse_tree"] = IF LastPulse(HitsOf(e)["pulse"]).nhits > 0
                                THEN Append(@, PulsesRow(e)) ELSE @,
              !["m_tree"] = @ \o HitsOf(e)["helicity"]]
    BY DEF Process, CAENRow, WaveformRow, PulsesRow
  <1>7. /\ DOMAIN trees' = Trees
        /\ trees'["caen1190_tree"] = Append(trees["caen1190_tree"], CAENRow(e))
        /\ trees'["waveform_tree"] = Append(trees["waveform_tree"], WaveformRow(e))
    BY <1>1, <1>6 DEF Trees
  <1>8. RowsOfEvents'
    <2>1. /\ IsMap(CAENRowOf, S, {CAENRow(d) : d \in S})
          /\ IsMap(WaveformRowOf, S, {WaveformRow(d) : d \in S})
      BY <1>1, EventMaps DEF S
    <2>2. CAENRowOf[e] = CAENRow(e) /\ WaveformRowOf[e] = WaveformRow(e)
      BY <1>3 DEF CAENRowOf, WaveformRowOf, S
    <2>3. /\ Mapped(CAENRowOf, Append(processed, e)) = Append(Mapped(CAENRowOf, processed), CAENRowOf[e])
      BY <1>3, <2>1, MapAppend
    <2>4. /\ Mapped(WaveformRowOf, Append(processed, e))
                = Append(Mapped(WaveformRowOf, processed), WaveformRowOf[e])
      BY <1>3, <2>1, MapAppend
    <2> QED BY <1>1, <1>2, <1>7, <2>2, <2>3, <2>4 DEF RowsOfEvents
  <1>9. ColumnsAgree'
    <2> DEFINE filled == Filled(HitsOf(e))
    <2>1. DOMAIN filled = Columns
      BY DEF Filled
    <2>2. /\ \A c \in CAENColumns : filled[c] = CAENRow(e)[c]
          /\ \A c \in WaveformColumns : filled[c] = WaveformRow(e)[c]
      BY DEF CAENRow, WaveformRow, Row
    <2> HIDE DEF filled
    <2>3. \A c \in CAENColumns : Len(filled[c]) = Len(filled["measurement"])
      <3>1. "measurement" \in CAENColumns
        BY DEF CAENColumns
      <3> QED BY <1>1, <1>3, <2>2, <3>1, CAENRowIs DEF S
    <2>4. \A c \in WaveformColumns : Len(filled[c]) = Len(filled["waveform"])
      <3>1. Len(filled["waveform"]) = Len(filled["waveform_address"])
        BY <1>1, <1>3, <2>2, WaveformRowIs DEF S, WaveformColumns
      <3> QED BY <3>1 DEF WaveformColumns
    <2>5. \A c \in Columns \ PulseColumns :
             c \in CAENColumns \/ (c \notin CAENColumns /\ c \in WaveformColumns)
      BY DEF Columns
    <2>6. columns' = filled
      BY <1>1 DEF filled
    <2> QED BY <2>1, <2>3, <2>4, <2>5, <2>6 DEF ColumnsAgree
  <1> QED BY <1>1, <1>2, <1>5, <1>7, <1>8, <1>9

(* The event behind those that came before.                                *)
LEMMA ProcessedNext ==
    ASSUME IInv, NEW e \in arriving, Process(e)
    PROVE  /\ e \in EventsOf(blocks) /\ processed \in Seq(EventsOf(blocks))
           /\ processed' = Append(processed, e)
           /\ Len(processed) \in Nat /\ DOMAIN processed = 1..Len(processed)
           /\ Len(processed) + 1 \notin DOMAIN processed
           /\ DOMAIN processed' = DOMAIN processed \cup {Len(processed) + 1}
           /\ \A k \in DOMAIN processed : processed'[k] = processed[k]
           /\ processed'[Len(processed) + 1] = e
  <1>1. /\ e \in EventsOf(blocks) /\ processed \in Seq(EventsOf(blocks))
        /\ processed' = Append(processed, e)
    BY DEF IInv, EventsComeOnce, Process
  <1>2. /\ Len(processed) \in Nat /\ DOMAIN processed = 1..Len(processed)
        /\ DOMAIN Append(processed, e) = 1..(Len(processed) + 1)
        /\ \A k \in 1..Len(processed) : Append(processed, e)[k] = processed[k]
        /\ Append(processed, e)[Len(processed) + 1] = e
    BY <1>1, AppendProperties, LenProperties
  <1>3. 1..(Len(processed) + 1) = 1..Len(processed) \cup {Len(processed) + 1}
        /\ Len(processed) + 1 \notin 1..Len(processed)
    BY <1>2
  <1> QED BY <1>1, <1>2, <1>3

(* The integrals of an event go to the histogram, and those that are not 0 *)
(* to the row.                                                             *)
LEMMA ProcessPulses ==
    ASSUME IInv, NEW e \in arriving, Process(e)
    PROVE  PulsesAreKept'
  <1> DEFINE rows == trees["pulse_tree"]
             pulses == HitsOf(e)["pulse"]
             kept == KeptPulses(pulses)
             ints == Mapped(IntegralOf, pulses)
             m == Len(processed) + 1
  <1>1. Decodable /\ PulsesAreKept /\ DOMAIN trees = Trees /\ blocks' = blocks
    BY DEF IInv, Process
  <1>2. e \in EventsOf(blocks)
    BY ProcessedNext
  <1>3. pulses \in Seq(Pulses)
    BY <1>1, <1>2, GivenHitsOfEvent
  <1>4. /\ kept \in Seq(Pulses)
        /\ Mapped(IntegralOf, kept) = Nonzero(ints)
        /\ kept # << >> <=> \E h \in Range(pulses) : h.integral # 0
    BY <1>3, KeptPulsesAre
  <1>5. ints \in Seq(Nat)
    BY <1>3, PulseMaps, MapConcat
  <1>6. histogram' = histogram \o ints
    <2>1. \A j \in DOMAIN pulses : pulses[j] \in Pulses
      BY <1>3, LenProperties, ElementOfSeq
    <2>2. histogram' = histogram \o [j \in DOMAIN pulses |-> pulses[j].integral]
      BY DEF Process
    <2> HIDE DEF pulses
    <2>3. [j \in DOMAIN pulses |-> pulses[j].integral] = ints
      BY <2>1 DEF Mapped, IntegralOf
    <2> QED BY <2>2, <2>3
  <1>7. trees'["pulse_tree"] = IF Len(kept) > 0 THEN Append(rows, PulsesRow(e)) ELSE rows
    <2>1. /\ trees' = [trees EXCEPT
                !["caen1190_tree"] = Append(@, CAENRow(e)),
                !["waveform_tree"] = Append(@, WaveformRow(e)),
                !["pulse_tree"] = IF LastPulse(pulses).nhits > 0
                                  THEN Append(@, PulsesRow(e)) ELSE @,
                !["m_tree"] = @ \o HitsOf(e)["helicity"]]
      BY DEF Process, CAENRow, WaveformRow, PulsesRow
    <2>2. LastPulse(pulses).nhits = Len(kept)
      BY DEF LastPulse, NumberHit
    <2> HIDE DEF pulses, kept
    <2> QED BY <1>1, <2>1, <2>2 DEF Trees
  <1>8. /\ PulsesRow(e).integral = Mapped(IntegralOf, kept)
        /\ PulsesRow(e).nhits = Len(kept)
    BY <1>1, <1>2, PulsesRowIs
  <1>9. PulseRows' = PulseRows /\ IntegralsOf' = IntegralsOf
    BY <1>1, SameReadout
  <1>10. /\ m \notin DOMAIN processed
         /\ DOMAIN processed' = DOMAIN processed \cup {m}
         /\ \A k \in DOMAIN processed : processed'[k] = processed[k]
         /\ processed'[m] = e
    BY ProcessedNext
  <1> HIDE DEF m
  <1>11. WithPulse' = WithPulse \cup {n \in {m} : \E h \in Range(pulses) : h.integral # 0}
    <2>1. \A d : HitsOf(d)' = HitsOf(d)
      BY <1>1, SameHits
    <2>2. WithPulse' = {n \in DOMAIN processed' :
                           \E h \in Range(HitsOf(processed'[n])["pulse"]) : h.integral # 0}
      BY <2>1 DEF WithPulse
    <2> QED BY <1>10, <2>2 DEF WithPulse
  <1>12. m \notin WithPulse
    BY <1>10 DEF WithPulse
  <1>13. /\ rows \in Seq(PulseRows) /\ histogram \in Seq(Nat)
         /\ \A n \in DOMAIN rows : rows[n].nhits > 0
         /\ FlattenSeq(Mapped(IntegralsOf, rows)) = Nonzero(histogram)
         /\ IsFiniteSet(WithPulse) /\ Len(rows) = Cardinality(WithPulse)
    BY <1>1 DEF PulsesAreKept
  <1> DEFINE rows1 == trees'["pulse_tree"]
             hist1 == histogram'
             with1 == WithPulse'
  <1>14. SUFFICES /\ rows1 \in Seq(PulseRows) /\ hist1 \in Seq(Nat)
                  /\ \A n \in DOMAIN rows1 : rows1[n].nhits > 0
                  /\ FlattenSeq(Mapped(IntegralsOf, rows1)) = Nonzero(hist1)
                  /\ IsFiniteSet(with1) /\ Len(rows1) = Cardinality(with1)
    BY <1>9 DEF PulsesAreKept
  <1>15. hist1 \in Seq(Nat) /\ Nonzero(histogram) \in Seq(Nat)
         /\ Nonzero(hist1) = Nonzero(histogram) \o Nonzero(ints)
    BY <1>5, <1>6, <1>13, NonzeroConcat, ConcatByElement
  <1>16. PulsesRow(e) \in PulseRows
    BY <1>2 DEF PulseRows
  <1>17. Len(kept) \in Nat /\ (Len(kept) = 0 <=> kept = << >>)
    BY <1>4, LenProperties, EmptySeq
  <1>18. with1 = IF kept = << >> THEN WithPulse ELSE WithPulse \cup {m}
    BY <1>4, <1>11
  <1>19. rows1 = IF kept = << >> THEN rows ELSE Append(rows, PulsesRow(e))
    BY <1>7, <1>17
  <1> HIDE DEF rows, pulses, ints, kept, rows1, hist1, with1
  <1>20. CASE kept = << >>
    <2>1. Nonzero(ints) = << >>
      BY <1>4, <1>20, MappedEmpty
    <2>2. Nonzero(hist1) = Nonzero(histogram)
      BY <1>15, <2>1, ConcatEmptySeq
    <2> QED BY <1>13, <1>15, <1>18, <1>19, <1>20, <2>2
  <1>21. CASE kept # << >>
    <2>1. rows1 = Append(rows, PulsesRow(e)) /\ with1 = WithPulse \cup {m}
      BY <1>18, <1>19, <1>21
    <2>2. IsMap(IntegralsOf, PulseRows, Seq(Nat))
      BY <1>1, EventMaps
    <2>3. /\ Mapped(IntegralsOf, rows) \in Seq(Seq(Nat))
          /\ Mapped(IntegralsOf, Append(rows, PulsesRow(e)))
                = Append(Mapped(IntegralsOf, rows), IntegralsOf[PulsesRow(e)])
      BY <1>13, <1>16, <2>2, MapAppend
    <2>4. IntegralsOf[PulsesRow(e)] = Nonzero(ints) /\ IntegralsOf[PulsesRow(e)] \in Seq(Nat)
      <3>1. IntegralsOf[PulsesRow(e)] = PulsesRow(e).integral
        BY <1>16 DEF IntegralsOf
      <3> QED BY <1>4, <1>8, <1>16, <2>2, <3>1 DEF IsMap
    <2>5. FlattenSeq(Mapped(IntegralsOf, rows1)) = Nonzero(hist1)
      <3>1. FlattenSeq(Append(Mapped(IntegralsOf, rows), IntegralsOf[PulsesRow(e)]))
               = FlattenSeq(Mapped(IntegralsOf, rows)) \o IntegralsOf[PulsesRow(e)]
        BY <2>3, <2>4, FlattenAppend
      <3> QED BY <1>13, <1>15, <2>1, <2>3, <2>4, <3>1
    <2>6. /\ rows1 \in Seq(PulseRows) /\ Len(rows1) = Len(rows) + 1
          /\ Len(rows) \in Nat /\ DOMAIN rows = 1..Len(rows) /\ DOMAIN rows1 = 1..(Len(rows) + 1)
          /\ \A n \in 1..Len(rows) : rows1[n] = rows[n]
          /\ rows1[Len(rows) + 1] = PulsesRow(e)
      BY <1>13, <1>16, <2>1, AppendProperties, LenProperties
    <2>7. \A n \in DOMAIN rows1 : rows1[n].nhits > 0
      <3>1. \A n \in 1..(Len(rows) + 1) : n \in 1..Len(rows) \/ n = Len(rows) + 1
        BY <2>6
      <3>2. PulsesRow(e).nhits > 0
        BY <1>8, <1>17, <1>21
      <3> QED BY <1>13, <2>6, <3>1, <3>2
    <2>8. IsFiniteSet(with1) /\ Cardinality(with1) = Cardinality(WithPulse) + 1
      BY <1>12, <1>13, <2>1, FS_AddElement
    <2> QED BY <1>13, <1>15, <2>5, <2>6, <2>7, <2>8
  <1> QED BY <1>20, <1>21

(* The text lists the event if it has a hit that it could list.            *)
LEMMA ProcessText ==
    ASSUME IInv, NEW e \in arriving, Process(e)
    PROVE  TextLists'
  <1> DEFINE hits == HitsOf(e)
             pulses == hits["pulse"]
             caen == hits["caen1190"]
             summary == Summary(e, hits)
             S == EventsOf(blocks)
             m == Len(processed) + 1
             C == ListedOf("caen1190")
             P == ListedOf("pulse")
  <1>1. /\ Decodable /\ TextLists /\ blocks' = blocks /\ textOpen' = textOpen
        /\ text' = IF textOpen /\ IsListed(hits) THEN Append(text, summary) ELSE text
        /\ histogram \in Seq(Nat)
    BY DEF IInv, Process, PulsesAreKept
  <1>2. e \in S /\ processed \in Seq(S) /\ processed' = Append(processed, e)
    BY ProcessedNext
  <1>3. /\ DOMAIN processed' = DOMAIN processed \cup {m}
        /\ \A k \in DOMAIN processed : processed'[k] = processed[k]
        /\ processed'[m] = e
    BY ProcessedNext
  <1>4. Len(caen) \in Nat /\ Len(pulses) \in Nat /\ pulses \in Seq(Pulses)
    BY <1>1, <1>2, CAENRowIs, GivenHitsOfEvent, LenProperties
  <1>5. Len(histogram') = Len(histogram) + Len(pulses) /\ Len(histogram) \in Nat
    <2>1. \A j \in DOMAIN pulses : pulses[j] \in Pulses
      BY <1>4, LenProperties, ElementOfSeq
    <2>2. histogram' = histogram \o [j \in DOMAIN pulses |-> pulses[j].integral]
      BY DEF Process
    <2> HIDE DEF pulses
    <2>3. [j \in DOMAIN pulses |-> pulses[j].integral] = Mapped(IntegralOf, pulses)
      BY <2>1 DEF Mapped, IntegralOf
    <2>4. Mapped(IntegralOf, pulses) \in Seq(Nat) /\ Len(Mapped(IntegralOf, pulses)) = Len(pulses)
      BY <1>4, PulseMaps, MapConcat
    <2>5. \A u, v \in Seq(Nat) : Len(u) \in Nat /\ Len(u \o v) = Len(u) + Len(v)
      BY ConcatByElement
    <2>6. Len(histogram \o Mapped(IntegralOf, pulses)) = Len(histogram) + Len(pulses)
          /\ Len(histogram) \in Nat
      BY <1>1, <2>4, <2>5
    <2> QED BY <2>2, <2>3, <2>6
  <1>6. /\ Summaries' = Summaries /\ CountOf' = CountOf
        /\ ListedOf("caen1190")' = C /\ ListedOf("pulse")' = P
    BY <1>1, SameReadout
  <1>7. \A d : HitsOf(d)' = HitsOf(d)
    BY <1>1, SameHits
  <1>8. /\ summary \in Summaries /\ summary.event = e
        /\ summary.listed["caen1190"] = Len(caen) /\ summary.listed["pulse"] = Len(pulses)
    BY <1>2 DEF Summaries, Summary, TextKinds
  <1>9. IsMap(CountOf, S, Nat) /\ IsMap(C, Summaries, Nat) /\ IsMap(P, Summaries, Nat)
    BY <1>1, EventMaps
  <1>10. CountOf[e] = Len(caen) /\ C[summary] = Len(caen) /\ P[summary] = Len(pulses)
    BY <1>2, <1>8 DEF CountOf, ListedOf
  <1> HIDE DEF hits, pulses, caen, summary, S, m, C, P
  <1>11. CASE ~textOpen
    BY <1>1, <1>6, <1>11 DEF TextLists
  <1>12. CASE textOpen
    <2>1. /\ text \in Seq(Summaries)
          /\ Nonzero(Mapped(C, text)) = Nonzero(Mapped(CountOf, processed))
          /\ Total(Mapped(P, text)) = Len(histogram)
      BY <1>1, <1>12 DEF TextLists, C, P
    <2>2. /\ Mapped(CountOf, processed) \in Seq(Nat)
          /\ Mapped(CountOf, processed') = Append(Mapped(CountOf, processed), Len(caen))
      BY <1>2, <1>9, <1>10, MapAppend
    <2>3. ASSUME text' \in Seq(Summaries),
                 Nonzero(Mapped(C, text')) = Nonzero(Mapped(CountOf, processed')),
                 Total(Mapped(P, text')) = Len(histogram')
          PROVE  TextLists'
      BY <1>1, <1>6, <1>12, <2>3 DEF TextLists
    <2>4. CASE IsListed(hits)
      <3>1. text' = Append(text, summary)
        BY <1>1, <1>12, <2>4
      <3>2. text' \in Seq(Summaries)
        BY <1>8, <2>1, <3>1, AppendProperties
      <3>6. /\ Mapped(C, text) \in Seq(Nat)
            /\ Mapped(C, text') = Append(Mapped(C, text), Len(caen))
        BY <1>8, <1>9, <1>10, <2>1, <3>1, MapAppend
      <3>7. /\ Mapped(P, text) \in Seq(Nat)
            /\ Mapped(P, text') = Append(Mapped(P, text), Len(pulses))
        BY <1>8, <1>9, <1>10, <2>1, <3>1, MapAppend
      <3>8. Nonzero(Mapped(C, text')) = Nonzero(Mapped(CountOf, processed'))
        <4>1. /\ Len(caen) = 0 => Nonzero(Mapped(C, text')) = Nonzero(Mapped(C, text))
              /\ Len(caen) # 0 => Nonzero(Mapped(C, text'))
                                      = Append(Nonzero(Mapped(C, text)), Len(caen))
          BY <1>4, <3>6, NonzeroAppend
        <4>2. /\ Len(caen) = 0 => Nonzero(Mapped(CountOf, processed'))
                                      = Nonzero(Mapped(CountOf, processed))
              /\ Len(caen) # 0 => Nonzero(Mapped(CountOf, processed'))
                                      = Append(Nonzero(Mapped(CountOf, processed)), Len(caen))
          BY <1>4, <2>2, NonzeroAppend
        <4> QED BY <2>1, <4>1, <4>2
      <3>9. Total(Mapped(P, text')) = Len(histogram')
        BY <1>4, <1>5, <2>1, <3>7, TotalAppend
      <3> QED BY <2>3, <3>2, <3>8, <3>9
    <2>5. CASE ~IsListed(hits)
      <3>1. text' = text /\ \A kind \in TextKinds : hits[kind] = << >>
        BY <1>1, <2>5 DEF IsListed
      <3>2. Len(caen) = 0 /\ Len(pulses) = 0
        <4>1. Len(<< >>) = 0
          BY EmptySeq
        <4> QED BY <3>1, <4>1 DEF caen, pulses, TextKinds
      <3>5. Nonzero(Mapped(C, text')) = Nonzero(Mapped(CountOf, processed'))
        <4>1. Nonzero(Mapped(CountOf, processed')) = Nonzero(Mapped(CountOf, processed))
          BY <1>4, <2>2, <3>2, NonzeroAppend
        <4>2. Mapped(C, text') = Mapped(C, text)
          BY <3>1
        <4> QED BY <2>1, <4>1, <4>2
      <3>6. Total(Mapped(P, text')) = Len(histogram')
        BY <1>5, <2>1, <3>1, <3>2
      <3> QED BY <2>1, <2>3, <3>1, <3>5, <3>6
    <2> QED BY <2>4, <2>5
  <1> QED BY <1>11, <1>12

LEMMA NextInv == IInv /\ [Next]_vars => IInv'
  <1> SUFFICES ASSUME IInv, [Next]_vars PROVE IInv'
    OBVIOUS
  <1>1. CASE OpenOutputs
    BY <1>1, OpenInv
  <1>2. ASSUME NEW e \in arriving, Process(e) PROVE IInv'
    <2>1. phase' = phase /\ phase = "processing"
      BY <1>2 DEF Process
    <2>2. phase \in {"created", "processing", "finished", "failed"}
      BY DEF IInv
    <2> QED BY <1>2, <2>1, <2>2, ProcessRows, ProcessPulses, ProcessText DEF IInv
  <1>3. CASE Finish
    BY <1>3, FinishInv
  <1>4. CASE UNCHANGED vars
    BY <1>4, StutterInv
  <1> QED BY <1>1, <1>2, <1>3, <1>4 DEF Next

LEMMA Invariance == Spec => []IInv
  BY InitInv, NextInv, PTL DEF Spec

-----------------------------------------------------------------------------
(* What follows.                                                           *)

LEMMA TypeHolds == IInv => TypeOK
  <1> SUFFICES ASSUME IInv PROVE TypeOK
    OBVIOUS
  <1>1. arriving \subseteq EventsOf(blocks)
    BY DEF IInv, EventsComeOnce
  <1>2. blocks \in Readouts
    BY DEF IInv, Decodable
  <1>3. ~textOpen => text = << >>
    BY DEF IInv, TextLists
  <1> QED BY <1>1, <1>2, <1>3 DEF IInv, ColumnsAgree, TypeOK

(* The n-th rows are the n-th event's.                                     *)
LEMMA RowsAt ==
    ASSUME IInv
    PROVE  /\ Len(trees["caen1190_tree"]) = Len(processed)
           /\ Len(trees["waveform_tree"]) = Len(processed)
           /\ DOMAIN trees["caen1190_tree"] = DOMAIN processed
           /\ \A n \in DOMAIN processed :
                 /\ processed[n] \in EventsOf(blocks)
                 /\ trees["caen1190_tree"][n] = CAENRow(processed[n])
                 /\ trees["waveform_tree"][n] = WaveformRow(processed[n])
  <1>1. Decodable /\ EventsComeOnce /\ RowsOfEvents
    BY DEF IInv
  <1>2. processed \in Seq(EventsOf(blocks))
    BY <1>1 DEF EventsComeOnce
  <1>3. \A n \in DOMAIN processed : processed[n] \in EventsOf(blocks)
    BY <1>2, LenProperties, ElementOfSeq
  <1>4. IsMap(CAENRowOf, EventsOf(blocks), {CAENRow(e) : e \in EventsOf(blocks)})
    BY <1>1, EventMaps
  <1>5. IsMap(WaveformRowOf, EventsOf(blocks), {WaveformRow(e) : e \in EventsOf(blocks)})
    BY <1>1, EventMaps
  <1>6. Len(Mapped(CAENRowOf, processed)) = Len(processed)
    BY <1>2, <1>4, MapConcat
  <1>7. Len(Mapped(WaveformRowOf, processed)) = Len(processed)
    BY <1>2, <1>5, MapConcat
  <1>8. \A n \in DOMAIN processed :
           /\ Mapped(CAENRowOf, processed)[n] = CAENRow(processed[n])
           /\ Mapped(WaveformRowOf, processed)[n] = WaveformRow(processed[n])
    BY <1>3 DEF Mapped, CAENRowOf, WaveformRowOf
  <1>9. DOMAIN Mapped(CAENRowOf, processed) = DOMAIN processed
    BY DEF Mapped
  <1> QED BY <1>1, <1>3, <1>6, <1>7, <1>8, <1>9 DEF RowsOfEvents

LEMMA RowsHold == IInv => RowsAreOfOneEvent
  <1> SUFFICES ASSUME IInv PROVE RowsAreOfOneEvent
    OBVIOUS
  <1>1. Decodable
    BY DEF IInv
  <1>2. ASSUME NEW n \in DOMAIN processed
        PROVE  LET row == trees["caen1190_tree"][n]
                   samples == trees["waveform_tree"][n]
                   hits == HitsOf(processed[n])
               IN  /\ \A c \in CAENColumns : Len(row[c]) = Len(hits["caen1190"])
                   /\ \A j \in DOMAIN hits["caen1190"] :
                         /\ row["measurement"][j] = hits["caen1190"][j].word
                         /\ row["flags"][j] = hits["caen1190"][j].from["tdc_error"]
                         /\ row["trig_time"][j] = hits["caen1190"][j].from["trigger_time"]
                   /\ Len(samples["waveform"]) = Len(samples["waveform_address"])
                   /\ {<<samples["waveform_address"][j], samples["waveform"][j]>> :
                          j \in DOMAIN samples["waveform"]}
                         = UNION {{<<h.address, s>> : s \in Range(h.samples)} :
                                     h \in Range(hits["waveform"])}
    <2> DEFINE e == processed[n]
    <2>1. /\ e \in EventsOf(blocks)
          /\ trees["caen1190_tree"][n] = CAENRow(e)
          /\ trees["waveform_tree"][n] = WaveformRow(e)
      BY RowsAt
    <2> HIDE DEF e
    <2>2. LET hits == HitsOf(e)
          IN  /\ \A c \in CAENColumns : Len(CAENRow(e)[c]) = Len(hits["caen1190"])
              /\ \A j \in DOMAIN hits["caen1190"] :
                    /\ CAENRow(e)["measurement"][j] = hits["caen1190"][j].word
                    /\ CAENRow(e)["flags"][j] = hits["caen1190"][j].from["tdc_error"]
                    /\ CAENRow(e)["trig_time"][j] = hits["caen1190"][j].from["trigger_time"]
      BY <1>1, <2>1, CAENRowIs
    <2>3. LET samples == WaveformRow(e)
          IN  /\ Len(samples["waveform"]) = Len(samples["waveform_address"])
              /\ {<<samples["waveform_address"][j], samples["waveform"][j]>> :
                     j \in DOMAIN samples["waveform"]}
                    = UNION {{<<h.address, s>> : s \in Range(h.samples)} :
                                h \in Range(HitsOf(e)["waveform"])}
      BY <1>1, <2>1, WaveformRowIs
    <2> QED BY <2>1, <2>2, <2>3, ZenonT(40) DEF e
  <1> QED BY <1>2, RowsAt DEF RowsAreOfOneEvent

LEMMA PulsesHold == IInv => PulsesAreAccountedFor
  <1> SUFFICES ASSUME IInv PROVE PulsesAreAccountedFor
    OBVIOUS
  <1> DEFINE rows == trees["pulse_tree"]
  <1>1. /\ Decodable /\ rows \in Seq(PulseRows)
        /\ \A n \in DOMAIN rows : rows[n].nhits > 0
        /\ FlattenSeq(Mapped(IntegralsOf, rows)) = Nonzero(histogram)
        /\ Len(rows) = Cardinality(WithPulse)
    BY DEF IInv, PulsesAreKept
  <1> HIDE DEF rows
  <1>2. \A n \in DOMAIN rows : rows[n] \in PulseRows
    BY <1>1, LenProperties, ElementOfSeq
  <1>3. [n \in DOMAIN rows |-> rows[n]["integral"]] = Mapped(IntegralsOf, rows)
    BY <1>2 DEF Mapped, IntegralsOf
  <1>4. \A row \in PulseRows : row.nhits = Len(row.integral)
    BY <1>1, PulsesRowIs DEF PulseRows
  <1>5. \A n \in DOMAIN rows : rows[n].nhits = Len(rows[n]["integral"]) /\ rows[n].nhits > 0
    BY <1>1, <1>2, <1>4
  <1>6. FlattenSeq([n \in DOMAIN rows |-> rows[n]["integral"]]) = Nonzero(histogram)
    BY <1>1, <1>3
  <1> QED BY <1>1, <1>5, <1>6 DEF PulsesAreAccountedFor, WithPulse, rows

LEMMA TextHolds == IInv => TextListsWhatTreesHold
  <1> SUFFICES ASSUME IInv, textOpen PROVE TextListsWhatTreesHold
    BY DEF TextListsWhatTreesHold
  <1> DEFINE rows == trees["caen1190_tree"]
             lengths == [n \in DOMAIN rows |-> Len(rows[n]["measurement"])]
             Listed(kind) == [n \in DOMAIN text |-> text[n].listed[kind]]
  <1>1. /\ Decodable /\ text \in Seq(Summaries)
        /\ Nonzero(Mapped(ListedOf("caen1190"), text)) = Nonzero(Mapped(CountOf, processed))
        /\ Total(Mapped(ListedOf("pulse"), text)) = Len(histogram)
    BY DEF IInv, TextLists
  <1>2. \A n \in DOMAIN text : text[n] \in Summaries
    BY <1>1, LenProperties, ElementOfSeq
  <1>3. /\ Listed("caen1190") = Mapped(ListedOf("caen1190"), text)
        /\ Listed("pulse") = Mapped(ListedOf("pulse"), text)
    BY <1>2 DEF Mapped, ListedOf
  <1>4. lengths = Mapped(CountOf, processed)
    <2>1. ASSUME NEW n \in DOMAIN processed
          PROVE  Len(rows[n]["measurement"]) = CountOf[processed[n]]
      <3>1. processed[n] \in EventsOf(blocks) /\ rows[n] = CAENRow(processed[n])
        BY RowsAt
      <3>2. "measurement" \in CAENColumns
        BY DEF CAENColumns
      <3>3. Len(CAENRow(processed[n])["measurement"]) = Len(HitsOf(processed[n])["caen1190"])
        BY <1>1, <3>1, <3>2, CAENRowIs
      <3> HIDE DEF rows
      <3> QED BY <3>1, <3>3 DEF CountOf
    <2>2. DOMAIN rows = DOMAIN processed
      BY RowsAt
    <2> HIDE DEF rows
    <2> QED BY <2>1, <2>2 DEF Mapped
  <1> QED BY <1>1, <1>3, <1>4 DEF TextListsWhatTreesHold

(* What stands in a place of caen1190_tree is made of one measurement.     *)
LEMMA PlaceIsMadeOf ==
    ASSUME IInv, NEW n \in DOMAIN trees["caen1190_tree"],
           NEW j \in DOMAIN trees["caen1190_tree"][n]["measurement"]
    PROVE  LET e == processed[n]
               hits == HitsOf(e)["caen1190"]
               row == trees["caen1190_tree"][n]
           IN  /\ n \in DOMAIN processed /\ e \in EventsOf(blocks)
               /\ j \in DOMAIN hits
               /\ row["measurement"][j] = hits[j].word
               /\ row["caen_slot"][j] = hits[j].from["global_header"]
               /\ row["chip"][j] = hits[j].from["tdc_header"]
               /\ row["trl_status"][j] = hits[j].from["global_trailer"]
               /\ \E i, q : IsMadeOf(hits[j], e[1], i, q, e[2])
  <1> DEFINE e == processed[n]
             hits == HitsOf(e)["caen1190"]
             row == trees["caen1190_tree"][n]
  <1>1. Decodable
    BY DEF IInv
  <1>2. n \in DOMAIN processed /\ e \in EventsOf(blocks) /\ row = CAENRow(e)
    BY RowsAt
  <1> HIDE DEF e, row
  <1>3. "measurement" \in CAENColumns
    BY DEF CAENColumns
  <1>4. /\ DOMAIN CAENRow(e)["measurement"] = DOMAIN hits
        /\ \A k \in DOMAIN hits :
              /\ CAENRow(e)["measurement"][k] = hits[k].word
              /\ CAENRow(e)["caen_slot"][k] = hits[k].from["global_header"]
              /\ CAENRow(e)["chip"][k] = hits[k].from["tdc_header"]
              /\ CAENRow(e)["trl_status"][k] = hits[k].from["global_trailer"]
    BY <1>1, <1>2, <1>3, CAENRowIs
  <1>5. \A k \in DOMAIN hits : \E i, q : IsMadeOf(hits[k], e[1], i, q, e[2])
    <2>1. e[1] \in DOMAIN blocks /\ e = <<e[1], e[2]>>
      BY <1>2, EventIs
    <2>2. \A k \in DOMAIN HitsOf(<<e[1], e[2]>>)["caen1190"] :
             \E i, q : IsMadeOf(HitsOf(<<e[1], e[2]>>)["caen1190"][k], e[1], i, q, e[2])
      BY <1>1, <2>1, HitsOfEvent
    <2> QED BY <2>1, <2>2
  <1>6. j \in DOMAIN hits
    BY <1>2, <1>4 DEF row
  <1> QED BY <1>2, <1>4, <1>5, <1>6 DEF e, row

LEMMA ChipsHold == IInv => CAENHitsKnowTheirChip
  <1> SUFFICES ASSUME IInv, NEW n \in DOMAIN trees["caen1190_tree"],
                      NEW j \in DOMAIN trees["caen1190_tree"][n]["measurement"]
               PROVE  LET row == trees["caen1190_tree"][n]
                          b == row["measurement"][j][1]
                          bank == blocks[b].caen[row["measurement"][j][2]]
                          p == row["measurement"][j][3]
                      IN  IsRegularCAEN(bank) =>
                            /\ bank[row["caen_slot"][j]] = "global_header"
                            /\ bank[row["chip"][j]] = "tdc_header"
                            /\ \A q \in row["caen_slot"][j]..p : bank[q] # "global_trailer"
                            /\ \A q \in row["chip"][j]..p : bank[q] # "tdc_trailer"
                            /\ row["caen_slot"][j] < row["chip"][j]
                            /\ row["trl_status"][j] < row["caen_slot"][j]
    BY DEF CAENHitsKnowTheirChip
  <1> DEFINE e == processed[n]
             hit == HitsOf(e)["caen1190"][j]
             row == trees["caen1190_tree"][n]
  <1>1. /\ e \in EventsOf(blocks)
        /\ row["measurement"][j] = hit.word
        /\ row["caen_slot"][j] = hit.from["global_header"]
        /\ row["chip"][j] = hit.from["tdc_header"]
        /\ row["trl_status"][j] = hit.from["global_trailer"]
        /\ \E i, q : IsMadeOf(hit, e[1], i, q, e[2])
    BY PlaceIsMadeOf
  <1> HIDE DEF e, hit, row
  <1>2. PICK i, p : IsMadeOf(hit, e[1], i, p, e[2])
    BY <1>1
  <1> DEFINE b == e[1]
             bank == BankOf(b, i)
  <1>3. Decodable /\ b \in DOMAIN blocks
    BY <1>1, EventIs DEF IInv
  <1>4. /\ row["measurement"][j] = <<b, i, p>> /\ i \in DOMAIN blocks[b].caen
        /\ p \in DOMAIN bank /\ bank[p] = "measurement"
        /\ \A type \in KeptWords : hit.from[type] = LastBefore(bank, type, p)
    BY <1>1, <1>2 DEF IsMadeOf
  <1>5. bank \in Seq(CAENWords)
    BY <1>3, <1>4, BlockFacts
  <1>6. bank = blocks[row["measurement"][j][1]].caen[row["measurement"][j][2]]
        /\ p = row["measurement"][j][3]
    BY <1>4 DEF BankOf
  <1>7. /\ row["caen_slot"][j] = LastBefore(bank, "global_header", p)
        /\ row["chip"][j] = LastBefore(bank, "tdc_header", p)
        /\ row["trl_status"][j] = LastBefore(bank, "global_trailer", p)
    BY <1>1, <1>4 DEF KeptWords
  <1> HIDE DEF b, bank
  <1>8. ASSUME IsRegularCAEN(bank)
        PROVE  /\ bank[row["caen_slot"][j]] = "global_header"
               /\ bank[row["chip"][j]] = "tdc_header"
               /\ \A q \in row["caen_slot"][j]..p : bank[q] # "global_trailer"
               /\ \A q \in row["chip"][j]..p : bank[q] # "tdc_trailer"
               /\ row["caen_slot"][j] < row["chip"][j]
               /\ row["trl_status"][j] < row["caen_slot"][j]
    <2> DEFINE slot == LastBefore(bank, "global_header", p)
               chip == LastBefore(bank, "tdc_header", p)
               status == LastBefore(bank, "global_trailer", p)
    <2>1. /\ bank[slot] = "global_header" /\ bank[chip] = "tdc_header"
          /\ \A q \in slot..p : bank[q] # "global_trailer"
          /\ \A q \in chip..p : bank[q] # "tdc_trailer"
          /\ slot < chip /\ status < slot
      BY <1>4, <1>5, <1>8, RegularMeasurement
    <2> HIDE DEF slot, chip, status
    <2>2. row["caen_slot"][j] = slot /\ row["chip"][j] = chip /\ row["trl_status"][j] = status
      BY <1>7 DEF slot, chip, status
    <2> QED BY <2>1, <2>2
  <1> QED BY <1>6, <1>8 DEF row

(* In the finished file a measurement has one place, in the row of the     *)
(* event whose number parse had when it came to it.                        *)
LEMMA MeasurementPlace ==
    ASSUME IInv, phase = "finished", arriving = {},
           NEW b \in DOMAIN blocks, NEW i \in DOMAIN blocks[b].caen,
           NEW p \in DOMAIN BankOf(b, i), BankOf(b, i)[p] = "measurement"
    PROVE  LET rows == written["caen1190_tree"]
           IN  \E n \in DOMAIN rows : \E j \in DOMAIN rows[n]["measurement"] :
                   /\ PlacesOf(<<b, i, p>>) = {<<n, j>>}
                   /\ n \in DOMAIN processed
                   /\ processed[n] = <<b, NumberAt(BankOf(b, i), blocks[b].first, p)>>
  <1> DEFINE bank == BankOf(b, i)
             first == blocks[b].first
             rows == written["caen1190_tree"]
             m == NumberAt(bank, first, p)
             s == ParseCAEN(bank, first)
  <1>1. Decodable /\ EventsComeOnce /\ rows = trees["caen1190_tree"]
    BY DEF IInv
  <1>2. bank \in Seq(CAENWords) /\ first \in Nat /\ ~s.broken
    BY <1>1, BlockFacts
  <1>3. p \in 1..Len(bank) /\ p \in Nat \ {0} /\ DOMAIN bank = 1..Len(bank) /\ Len(bank) \in Nat
    BY <1>2, LenProperties
  <1>4. HasHit(bank, first, s, p)
    <2>1. Tells(bank, first, s, Len(bank))
      BY <1>2, ParseTells
    <2> HIDE DEF bank, first, s
    <2>2. bank[p] = "measurement"
      BY DEF bank
    <2> QED BY <1>2, <1>3, <2>1, <2>2 DEF Tells
  <1>5. <<b, m>> \in EventsOf(blocks)
    <2>1. m \in DOMAIN s.hits
      BY <1>4 DEF HasHit
    <2>2. m \in EventNumbers(blocks[b])
      BY <2>1 DEF EventNumbers, BankOf
    <2> QED BY <2>2 DEF EventsOf
  <1>7. EventsOf(blocks) \subseteq Range(processed) /\ IsInjective(processed)
    BY <1>1 DEF EventsComeOnce
  <1>8. PICK n \in DOMAIN processed : processed[n] = <<b, m>>
    BY <1>5, <1>7 DEF Range
  <1>9. /\ WordsDiffer(HitsOf(<<b, m>>)["caen1190"])
        /\ HasMeasurements(HitsOf(<<b, m>>)["caen1190"], b, i, m)
    BY <1>1, HitsOfEvent
  <1> DEFINE hits == HitsOf(<<b, m>>)["caen1190"]
  <1>10. PICK j \in DOMAIN hits : hits[j].word = <<b, i, p>>
    BY <1>9 DEF HasMeasurements
  <1>11. /\ n \in DOMAIN rows
         /\ DOMAIN rows[n]["measurement"] = DOMAIN hits
         /\ \A k \in DOMAIN hits : rows[n]["measurement"][k] = hits[k].word
    <2>1. rows[n] = CAENRow(<<b, m>>) /\ n \in DOMAIN rows
      BY <1>1, <1>8, RowsAt
    <2>2. "measurement" \in CAENColumns
      BY DEF CAENColumns
    <2> HIDE DEF m, rows
    <2>3. /\ DOMAIN CAENRow(<<b, m>>)["measurement"] = DOMAIN hits
          /\ \A k \in DOMAIN hits : CAENRow(<<b, m>>)["measurement"][k] = hits[k].word
      BY <1>1, <1>5, <2>2, CAENRowIs
    <2> QED BY <2>1, <2>3
  <1>12. ASSUME NEW k \in DOMAIN rows, NEW l \in DOMAIN rows[k]["measurement"],
                rows[k]["measurement"][l] = <<b, i, p>>
         PROVE  k = n /\ l = j
    <2> DEFINE e == processed[k]
               hit == HitsOf(e)["caen1190"][l]
    <2>1. /\ k \in DOMAIN processed /\ e \in EventsOf(blocks)
          /\ rows[k]["measurement"][l] = hit.word
          /\ \E x, q : IsMadeOf(hit, e[1], x, q, e[2])
      <3>1. k \in DOMAIN trees["caen1190_tree"] /\ l \in DOMAIN trees["caen1190_tree"][k]["measurement"]
        BY <1>1
      <3> QED BY <1>1, <3>1, PlaceIsMadeOf
    <2> HIDE DEF e, hit
    <2>2. PICK x, q : IsMadeOf(hit, e[1], x, q, e[2])
      BY <2>1
    <2>3. <<b, i, p>> = <<e[1], x, q>>
      BY <1>12, <2>1, <2>2 DEF IsMadeOf
    <2>4. b = e[1] /\ i = x /\ p = q
      BY <2>3
    <2>5. e[2] = m
      BY <2>2, <2>4 DEF IsMadeOf
    <2>6. e = <<b, m>>
      <3> HIDE DEF m
      <3> QED BY <2>1, <2>4, <2>5, EventIs
    <2>7. k = n
      <3> HIDE DEF m
      <3> QED BY <1>7, <1>8, <2>1, <2>6 DEF IsInjective, e
    <2>8. l \in DOMAIN hits /\ hits[l].word = <<b, i, p>>
      BY <1>11, <1>12, <2>7
    <2> HIDE DEF hits
    <2> QED BY <1>9, <1>10, <2>7, <2>8 DEF WordsDiffer, hits
  <1>6. j \in DOMAIN rows[n]["measurement"] /\ rows[n]["measurement"][j] = <<b, i, p>>
    BY <1>10, <1>11
  <1>13. PlacesOf(<<b, i, p>>) = {<<n, j>>}
    <2>1. PlacesOf(<<b, i, p>>)
             = UNION {{<<k, l>> : l \in {l \in DOMAIN rows[k]["measurement"] :
                                           rows[k]["measurement"][l] = <<b, i, p>>}} : k \in DOMAIN rows}
      BY DEF PlacesOf
    <2> HIDE DEF rows
    <2>2. \A z \in PlacesOf(<<b, i, p>>) : z = <<n, j>>
      BY <1>12, <2>1
    <2>3. <<n, j>> \in PlacesOf(<<b, i, p>>)
      BY <1>6, <1>11, <2>1
    <2> QED BY <2>2, <2>3
  <1> QED BY <1>6, <1>8, <1>11, <1>13

LEMMA MeasurementsHold == IInv => MeasurementsReachOneRow
  <1> SUFFICES ASSUME IInv, phase = "finished", arriving = {},
                      NEW b \in DOMAIN blocks, NEW i \in DOMAIN blocks[b].caen
               PROVE  LET bank == BankOf(b, i)
                          rows == written["caen1190_tree"]
                          measurements == {p \in DOMAIN bank : bank[p] = "measurement"}
                          Header(p) == LastBefore(bank, "global_header", p)
                      IN  \A p \in measurements : \E n \in DOMAIN rows :
                              /\ processed[n][1] = b
                              /\ Header(Header(p)) = 0 => processed[n][2] = blocks[b].first
                              /\ \A q \in measurements : Header(q) = Header(p) =>
                                    \E j \in DOMAIN rows[n]["measurement"] :
                                        PlacesOf(<<b, i, q>>) = {<<n, j>>}
    BY DEF MeasurementsReachOneRow, BankOf
  <1> DEFINE bank == BankOf(b, i)
             first == blocks[b].first
             rows == written["caen1190_tree"]
             measurements == {p \in DOMAIN bank : bank[p] = "measurement"}
             Header(p) == LastBefore(bank, "global_header", p)
  <1> SUFFICES ASSUME NEW p \in measurements
               PROVE  \E n \in DOMAIN rows :
                         /\ processed[n][1] = b
                         /\ Header(Header(p)) = 0 => processed[n][2] = first
                         /\ \A q \in measurements : Header(q) = Header(p) =>
                               \E j \in DOMAIN rows[n]["measurement"] :
                                   PlacesOf(<<b, i, q>>) = {<<n, j>>}
    OBVIOUS
  <1>1. bank \in Seq(CAENWords) /\ first \in Nat
    BY BlockFacts DEF IInv
  <1>2. DOMAIN bank = 1..Len(bank) /\ Len(bank) \in Nat
    BY <1>1, LenProperties
  <1>3. PICK n \in DOMAIN rows : n \in DOMAIN processed /\ processed[n] = <<b, NumberAt(bank, first, p)>>
    BY MeasurementPlace
  <1>4. IsInjective(processed)
    BY DEF IInv, EventsComeOnce
  <1>5. ASSUME NEW q \in measurements, Header(q) = Header(p)
        PROVE  \E j \in DOMAIN rows[n]["measurement"] : PlacesOf(<<b, i, q>>) = {<<n, j>>}
    <2>1. NumberAt(bank, first, q) = NumberAt(bank, first, p)
      BY <1>5 DEF NumberAt, SlotAt
    <2>2. PICK k \in DOMAIN rows : \E j \in DOMAIN rows[k]["measurement"] :
              /\ PlacesOf(<<b, i, q>>) = {<<k, j>>}
              /\ k \in DOMAIN processed
              /\ processed[k] = <<b, NumberAt(bank, first, q)>>
      BY MeasurementPlace
    <2> HIDE DEF bank, first, rows
    <2>3. k = n
      BY <1>3, <1>4, <2>1, <2>2 DEF IsInjective
    <2> QED BY <2>2, <2>3
  <1>6. ASSUME Header(Header(p)) = 0 PROVE NumberAt(bank, first, p) = first
    <2> DEFINE h == Header(p)
               t == LastBefore(bank, "global_trailer", h)
               between == {q \in (t + 1)..(h - 1) : bank[q] = "global_header"}
    <2>1. p \in Nat \ {0}
      BY <1>2
    <2>2. h \in 0..(p - 1)
      BY <2>1, LastBeforeIs
    <2>3. between = {}
      <3>1. CASE h = 0
        <4>1. t = 0
          BY <3>1, BeforeZero
        <4> HIDE DEF h, t
        <4> QED BY <3>1, <4>1
      <3>2. CASE h # 0
        <4>1. h \in Nat \ {0}
          BY <2>1, <2>2, <3>2
        <4>2. t \in Nat /\ \A q \in 1..(h - 1) : bank[q] # "global_header"
          BY <1>6, <4>1, LastBeforeIs
        <4> HIDE DEF h, t
        <4> QED BY <4>1, <4>2
      <3> QED BY <3>1, <3>2
    <2>4. NumberAt(bank, first, p) = first + Cardinality(between)
      BY DEF NumberAt, SlotAt, UntrailedBefore
    <2>5. Cardinality(between) = 0
      BY <2>3, FS_EmptySet
    <2> HIDE DEF bank, first, between
    <2> QED BY <1>1, <2>4, <2>5
  <1> HIDE DEF bank, first, rows, measurements, Header
  <1> QED BY <1>3, <1>5, <1>6

-----------------------------------------------------------------------------
(* Theorems of the specification.                                          *)

(* The vectors behind the branches of a tree have one length after every   *)
(* event, and a text file that could not be opened stays empty             *)
(* (ProcessSequential, Finish).                                            *)
THEOREM TypeCorrect == Spec => []TypeOK
  BY Invariance, TypeHolds, PTL

(* The rows of caen1190_tree and waveform_tree are the events' in the      *)
(* order in which they came, each with all hits of its event and no        *)
(* other's, and value beside value (ProcessSequential, clear, push_back).  *)
THEOREM RowsAreTheEvents == Spec => []RowsAreOfOneEvent
  BY Invariance, RowsHold, PTL

(* The rows of pulse_tree hold the integrals of the histogram in their     *)
(* order but for the zeros, and an event has a row if it has a pulse to    *)
(* keep (ProcessSequential, the two loops over the pulse hits).            *)
THEOREM PulsesAreInRowsAndHistogram == Spec => []PulsesAreAccountedFor
  BY Invariance, PulsesHold, PTL

(* The text file, where it could be opened, counts the CAEN1190 hits and   *)
(* the pulses that the trees and the histogram hold, whatever events it    *)
(* leaves out (ProcessSequential, the text dump).                          *)
THEOREM TextAgreesWithTrees == Spec => []TextListsWhatTreesHold
  BY Invariance, TextHolds, PTL

(* When all events have come and Finish has written the file, each         *)
(* measurement of each bank is in exactly one place of caen1190_tree, in a *)
(* row of its own block; one row has all that follow one global header,    *)
(* and the block's first event those that follow the bank's first header   *)
(* (ModuleParser_CAEN1190::parse, ProcessSequential).                      *)
THEOREM MeasurementsAreNeitherLostNorDoubled == Spec => []MeasurementsReachOneRow
  BY Invariance, MeasurementsHold, PTL

(* A row gives a hit of a regular bank the slot, the chip and the event ID *)
(* of its own event, and a trailer status of an earlier one                *)
(* (ModuleParser_CAEN1190::parse copies what it read last).                *)
THEOREM HitsHaveTheirChip == Spec => []CAENHitsKnowTheirChip
  BY Invariance, ChipsHold, PTL

-----------------------------------------------------------------------------
(* Theorems about the parsers.                                             *)

(* ModuleParser_CAEN1190::parse uses a null pointer if a measurement is    *)
(* in the bank before any global header, and only then.                    *)
THEOREM OnlyHeadlessBanksBreak ==
    ASSUME NEW bank \in Seq(CAENWords), NEW first \in Nat
    PROVE  ParseCAEN(bank, first).broken
              <=> \E p \in DOMAIN bank : /\ bank[p] = "measurement"
                                         /\ \A q \in 1..(p - 1) : bank[q] # "global_header"
  <1>1. BreaksIfHeadless(bank, ParseCAEN(bank, first), Len(bank))
    BY ParseTells DEF Tells
  <1>2. Len(bank) \in Nat /\ DOMAIN bank = 1..Len(bank)
    BY LenProperties
  <1>3. ASSUME NEW p \in 1..Len(bank)
        PROVE  SlotAt(bank, p) = 0 <=> \A q \in 1..(p - 1) : bank[q] # "global_header"
    <2> DEFINE h == SlotAt(bank, p)
    <2>1. p \in Nat \ {0}
      BY <1>2
    <2>2. /\ h \in 0..(p - 1) /\ (h # 0 => bank[h] = "global_header")
          /\ \A q \in 1..(p - 1) : bank[q] = "global_header" => q <= h
      BY <2>1, LastBeforeIs DEF SlotAt
    <2> HIDE DEF h
    <2>3. h # 0 => h \in 1..(p - 1)
      BY <2>2
    <2>4. h = 0 => \A q \in 1..(p - 1) : bank[q] # "global_header"
      BY <2>2
    <2> QED BY <2>2, <2>3, <2>4 DEF h
  <1> QED BY <1>1, <1>2, <1>3 DEF BreaksIfHeadless

(* A regular bank is parsed without it.  Each of its measurements becomes  *)
(* one hit of the block's first event, whichever event it is of, and       *)
(* nothing else becomes a hit: the index that is reset at every global     *)
(* trailer never advances (ModuleParser_CAEN1190::parse).                  *)
THEOREM RegularBanksAreRead ==
    ASSUME NEW bank \in Seq(CAENWords), NEW first \in Nat, IsRegularCAEN(bank)
    PROVE  LET parsed == ParseCAEN(bank, first)
           IN  /\ ~parsed.broken
               /\ \A n \in DOMAIN parsed.hits : \A j \in DOMAIN parsed.hits[n] :
                     n = first /\ bank[parsed.hits[n][j].word] = "measurement"
               /\ \A p \in DOMAIN bank : bank[p] = "measurement" =>
                     \E j \in DOMAIN parsed.hits[first] : \A k \in DOMAIN parsed.hits[first] :
                        parsed.hits[first][k].word = p <=> k = j
  <1> DEFINE s == ParseCAEN(bank, first)
  <1>1. Tells(bank, first, s, Len(bank))
    BY ParseTells
  <1>2. Len(bank) \in Nat /\ DOMAIN bank = 1..Len(bank)
    BY LenProperties
  <1>3. ASSUME NEW p \in 1..Len(bank), bank[p] = "measurement"
        PROVE  SlotAt(bank, p) # 0 /\ NumberAt(bank, first, p) = first
    <2> DEFINE h == SlotAt(bank, p)
    <2>1. p \in Nat \ {0} /\ p \in DOMAIN bank
      BY <1>2
    <2>2. h \in 0..(p - 1) /\ (h # 0 => bank[h] = "global_header")
      BY <2>1, LastBeforeIs DEF SlotAt
    <2>3. bank[h] = "global_header" /\ \A q \in h..p : bank[q] # "global_trailer"
          /\ LastBefore(bank, "global_trailer", p) < h
      BY <1>3, <2>1, RegularMeasurement DEF SlotAt
    <2>4. LastBefore(bank, "global_trailer", p) \in Nat
      BY <2>1, LastBeforeIs
    <2> HIDE DEF h
    <2>5. h # 0 /\ h \in DOMAIN bank
      BY <1>2, <2>2, <2>3, <2>4
    <2>6. UntrailedBefore(bank, h) = 0
      BY <2>3, <2>5, RegularHeaderIsFirst
    <2> QED BY <2>5, <2>6 DEF h, NumberAt
  <1> HIDE DEF s
  <1>4. ~s.broken
    BY <1>1, <1>3 DEF Tells, BreaksIfHeadless
  <1>5. ASSUME NEW n \in DOMAIN s.hits, NEW j \in DOMAIN s.hits[n]
        PROVE  n = first /\ bank[s.hits[n][j].word] = "measurement"
    <2>1. s.hits[n][j].word \in 1..Len(bank) /\ IsHitOf(bank, first, n, s.hits[n][j])
      BY <1>1 DEF Tells, HitsAreGenuine
    <2> QED BY <1>3, <2>1 DEF IsHitOf
  <1>6. ASSUME NEW p \in 1..Len(bank), bank[p] = "measurement"
        PROVE  \E j \in DOMAIN s.hits[first] : \A k \in DOMAIN s.hits[first] :
                  s.hits[first][k].word = p <=> k = j
    <2>1. HasHit(bank, first, s, p) /\ NumberAt(bank, first, p) = first
      BY <1>1, <1>3, <1>4, <1>6 DEF Tells
    <2>2. PICK j \in DOMAIN s.hits[first] : first \in DOMAIN s.hits /\ s.hits[first][j].word = p
      BY <2>1 DEF HasHit
    <2>3. \A k \in DOMAIN s.hits[first] : s.hits[first][k].word = p => k = j
      BY <1>1, <2>2 DEF Tells, HitsAreDistinct
    <2> QED BY <2>2, <2>3
  <1> QED BY <1>2, <1>4, <1>5, <1>6 DEF s

(* The hits of an FADC-scaler bank share out its words, however long it    *)
(* is: each word is the header or a count of one hit, and a hit reads no   *)
(* word that is not in the bank (ModuleParser_FADCScaler::parse).          *)
THEOREM FADCScalerReadsEachWordOnce ==
    ASSUME NEW size \in Nat
    PROVE  LET hits == FADCScalerHits(size)
           IN  /\ \A k \in DOMAIN hits :
                     /\ hits[k].header \in 1..size /\ hits[k].counts \in 0..FADCCounts
                     /\ hits[k].header + hits[k].counts <= size
               /\ \A p \in 1..size : \E k \in DOMAIN hits : \A l \in DOMAIN hits :
                     p \in hits[l].header..(hits[l].header + hits[l].counts) <=> l = k
  <1> DEFINE groups == (size + 16) \div 17
             hits == FADCScalerHits(size)
  <1>1. groups \in Nat /\ 17 * groups <= size + 16 /\ size + 16 < 17 * groups + 17
    OBVIOUS
  <1>2. /\ DOMAIN hits = 1..groups
        /\ \A k \in 1..groups :
              /\ hits[k].header = (k - 1) * 17 + 1
              /\ hits[k].counts = IF size - ((k - 1) * 17 + 1) < 16
                                  THEN size - ((k - 1) * 17 + 1) ELSE 16
    BY DEF FADCScalerHits, FADCCounts, FADCGroup
  <1> HIDE DEF hits, groups
  <1>3. ASSUME NEW k \in DOMAIN hits
        PROVE  /\ hits[k].header = (k - 1) * 17 + 1
               /\ hits[k].header \in 1..size /\ hits[k].counts \in 0..FADCCounts
               /\ hits[k].header + hits[k].counts <= size
               /\ hits[k].counts = 16 \/ hits[k].header + hits[k].counts = size
    <2> DEFINE h == hits[k].header
               n == hits[k].counts
    <2>1. k \in Nat /\ 1 <= k /\ 17 * k <= size + 16
      BY <1>1, <1>2
    <2>2. h = (k - 1) * 17 + 1 /\ n = IF size - h < 16 THEN size - h ELSE 16
      BY <1>2
    <2> HIDE DEF h, n
    <2>3. h \in Nat /\ 1 <= h /\ h <= size
      BY <2>1, <2>2
    <2>4. n \in Nat /\ n <= 16 /\ h + n <= size /\ (n = 16 \/ h + n = size)
      BY <2>2, <2>3
    <2> QED BY <2>2, <2>3, <2>4 DEF h, n, FADCCounts
  <1>4. ASSUME NEW p \in 1..size
        PROVE  \E k \in DOMAIN hits : \A l \in DOMAIN hits :
                  p \in hits[l].header..(hits[l].header + hits[l].counts) <=> l = k
    <2> DEFINE k == (p + 16) \div 17
    <2>1. k \in Nat /\ 17 * k <= p + 16 /\ p + 16 < 17 * k + 17
      OBVIOUS
    <2> HIDE DEF k
    <2>2. k \in 1..groups
      BY <1>1, <2>1
    <2>3. ASSUME NEW l \in DOMAIN hits
          PROVE  p \in hits[l].header..(hits[l].header + hits[l].counts) <=> l = k
      <3>1. l \in Nat /\ l <= groups /\ 1 <= l
        BY <1>1, <1>2
      <3>2. ASSUME l = k PROVE p \in hits[l].header..(hits[l].header + hits[l].counts)
        BY <1>3, <2>1, <3>1, <3>2 DEF FADCCounts
      <3>3. ASSUME p \in hits[l].header..(hits[l].header + hits[l].counts) PROVE l = k
        <4> DEFINE h == hits[l].header
                   n == hits[l].counts
        <4>1. h = (l - 1) * 17 + 1 /\ n \in Nat /\ n <= 16
          BY <1>3 DEF FADCCounts
        <4>2. h <= p /\ p <= h + n
          BY <3>3, <4>1, <3>1
        <4> HIDE DEF h, n
        <4>3. 17 * l <= p + 16 /\ p <= 17 * l
          BY <3>1, <4>1, <4>2
        <4> QED BY <2>1, <3>1, <4>3
      <3> QED BY <3>2, <3>3
    <2> QED BY <1>2, <2>2, <2>3
  <1> QED BY <1>3, <1>4 DEF hits

=============================================================================

----------------------- MODULE HelicityParser_proofs ------------------------
(***************************************************************************)
(* What the parser of the helicity decoder makes of a bank. Of any bank    *)
(* whatever, its events are appended in order, none twice. A regular bank  *)
(* is taken, and of a regular bank of one block exactly its events and     *)
(* their hits are appended. The invariant of the last result follows the   *)
(* event that is held back: it is always the last one begun, and all       *)
(* others have been appended with their numbers and hits.                  *)
(***************************************************************************)
EXTENDS HelicityParser, SharedLemmas

Events == [num : Nat, header : Nat, hits : Seq(Nat)]

Pendings == [header : Nat, hits : Seq(Nat)]

(* The event that is held back is an event once it is completed.           *)
LEMMA CompletedIsTyped ==
    ASSUME TypeOK
    PROVE  Completed \in Seq(Events)
<1>1. appended \in Seq(Events) /\ index \in Nat /\ pending \in Pendings \cup {None}
  BY DEF TypeOK, Events, Pendings
<1>2. CASE pending = None
  BY <1>1, <1>2 DEF Completed
<1>3. CASE pending # None
  <2> DEFINE e == [num |-> FirstEvent + index, header |-> pending.header, hits |-> pending.hits]
  <2>1. e \in Events
    BY <1>1, <1>3, FirstEventIsNat DEF Events, Pendings
  <2>2. Completed = Append(appended, e)
    BY <1>3 DEF Completed
  <2> HIDE DEF e
  <2> QED
    BY <1>1, <2>1, <2>2, AppendProperties
<1> QED
  BY <1>2, <1>3

(* A turn goes forward, and records its word before the next one.          *)
LEMMA HeadsGrow ==
    ASSUME TypeOK, NEW k \in Nat \ {0}, Advance(k)
    PROVE  /\ j' \in Nat \ {0} /\ j < j' /\ j' = j + k
           /\ bank' = bank /\ outcome' = outcome
           /\ heads' = heads \cup {j} /\ heads' \subseteq 1..(j' - 1)
<1>1. j' = j + k /\ heads' = heads \cup {j} /\ bank' = bank /\ outcome' = outcome
  BY DEF Advance
<1>2. j \in Nat \ {0} /\ heads \subseteq 1..(j - 1)
  BY DEF TypeOK
<1>3. j' \in Nat \ {0} /\ j < j'
  BY <1>1, <1>2
<1>4. \A q \in heads \cup {j} : q \in 1..(j' - 1)
  BY <1>1, <1>2
<1> QED
  BY <1>1, <1>3, <1>4

(* The word of a turn is a word of the bank.                               *)
LEMMA WordIsTyped ==
    ASSUME TypeOK, NEW type, At(type)
    PROVE  /\ j \in DOMAIN bank /\ bank[j].type = type /\ outcome = "parsing"
           /\ bank[j].slot \in Nat /\ bank[j].n \in Nat
<1>1. bank \in Seq(Words) /\ j \in DOMAIN bank
  BY BanksAreWords DEF TypeOK, At
<1>2. bank[j] \in Words
  BY <1>1
<1> QED
  BY <1>1, <1>2 DEF Words, At

(* TypeCorrect by induction: the first state, and every step.              *)
LEMMA TypesInitially == Init => TypeOK
BY DEF Init, TypeOK

LEMMA TypesKept ==
    ASSUME TypeOK, [Next]_vars
    PROVE  TypeOK'
<1> DEFINE one == 1
<1>0. one \in Nat \ {0}
  OBVIOUS
<1> HIDE DEF one
<1>1. CASE UNCHANGED vars
  BY <1>1 DEF vars, blockVars, eventVars, TypeOK
<1>2. ASSUME NEW how \in {"done", "thrown", "undefined"}, Stop(how) PROVE TypeOK'
  BY <1>2 DEF Stop, blockVars, eventVars, TypeOK
<1>3. ASSUME NEW k \in Nat \ {0}, Advance(k), slot' \in Nat, nevents' \in Nat \cup {-1}, index' \in Nat,
             pending' \in Pendings \cup {None}, appended' \in Seq(Events)
      PROVE  TypeOK'
  BY <1>3, HeadsGrow DEF TypeOK, Pendings, Events
<1>4. /\ slot \in Nat /\ nevents \in Nat \cup {-1} /\ index \in Nat
      /\ pending \in Pendings \cup {None} /\ appended \in Seq(Events)
  BY DEF TypeOK, Pendings, Events
<1>5. Completed \in Seq(Events)
  BY CompletedIsTyped
<1>6. CASE BlockHeader
  <2>1. At("block_header") /\ slot' = bank[j].slot /\ nevents' = bank[j].n
        /\ UNCHANGED <<index, pending, appended>> /\ Advance(one)
    BY <1>6 DEF BlockHeader, eventVars, one
  <2>2. bank[j].slot \in Nat /\ bank[j].n \in Nat
    BY <2>1, WordIsTyped
  <2> QED
    BY <1>0, <1>3, <1>4, <2>1, <2>2
<1>7. CASE BlockTrailer
  <2>1. CASE nevents # 0
    BY <1>2, <1>7, <2>1 DEF BlockTrailer
  <2>2. CASE nevents = 0
    <3>1. nevents' = -1 /\ appended' \in {Completed, appended} /\ index' = 0
          /\ UNCHANGED <<slot, pending>> /\ Advance(one)
      BY <1>7, <2>2 DEF BlockTrailer, one
    <3> QED
      BY <1>0, <1>3, <1>4, <1>5, <3>1
  <2> QED
    BY <2>1, <2>2
<1>8. CASE EventHeader
  <2>1. appended' = Completed /\ index' \in Nat
    BY <1>4, <1>8 DEF EventHeader, NextIndex
  <2>2. CASE HeaderFits
    <3>1. nevents' = nevents - 1 /\ pending' = [header |-> j, hits |-> << >>] /\ slot' = slot /\ Advance(one)
      BY <1>8, <2>2 DEF EventHeader, one
    <3>2. nevents' \in Nat
      BY <1>4, <2>2, <3>1 DEF HeaderFits
    <3>3. pending' \in Pendings
      <4>1. j \in Nat /\ << >> \in Seq(Nat)
        BY DEF TypeOK
      <4> QED
        BY <3>1, <4>1 DEF Pendings
    <3> QED
      BY <1>0, <1>3, <1>4, <1>5, <2>1, <3>1, <3>2, <3>3
  <2>3. CASE ~HeaderFits
    BY <1>5, <1>8, <2>1, <2>3 DEF EventHeader, TypeOK, Events
  <2> QED
    BY <2>2, <2>3
<1>9. CASE TriggerTime
  <2>1. CASE nevents < 0 \/ j = Len(bank)
    BY <1>2, <1>9, <2>1 DEF TriggerTime
  <2>2. CASE ~(nevents < 0 \/ j = Len(bank))
    <3> DEFINE two == 2
    <3>1. Advance(two) /\ UNCHANGED <<blockVars, eventVars>>
      BY <1>9, <2>2 DEF TriggerTime
    <3>2. two \in Nat \ {0}
      OBVIOUS
    <3> HIDE DEF two
    <3> QED
      BY <1>3, <1>4, <3>1, <3>2 DEF blockVars, eventVars
  <2> QED
    BY <2>1, <2>2
<1>10. CASE DataWord
  <2>1. CASE nevents < 0 \/ pending = None
    BY <1>2, <1>10, <2>1 DEF DataWord
  <2>2. CASE ~(nevents < 0) /\ pending # None
    <3> DEFINE k == 1 + bank[j].n
               hits == Append(pending.hits, j)
    <3>1. /\ pending' = [pending EXCEPT !.hits = hits]
          /\ UNCHANGED <<blockVars, appended>> /\ Advance(k)
      BY <1>10, <2>2 DEF DataWord
    <3>2. k \in Nat \ {0}
      BY <1>10, WordIsTyped DEF DataWord
    <3>3. pending \in Pendings
      BY <1>4, <2>2
    <3>4. hits \in Seq(Nat)
      <4>1. pending.hits \in Seq(Nat) /\ j \in Nat
        BY <3>3 DEF Pendings, TypeOK
      <4> QED
        BY <4>1, AppendProperties
    <3> HIDE DEF k, hits
    <3>5. pending' \in Pendings
      BY <3>1, <3>3, <3>4 DEF Pendings
    <3> QED
      BY <1>3, <1>4, <3>1, <3>2, <3>5 DEF blockVars
  <2> QED
    BY <2>1, <2>2
<1>11. CASE PassOver
  <2>1. Advance(one) /\ UNCHANGED <<blockVars, eventVars>>
    BY <1>11 DEF PassOver, one
  <2> QED
    BY <1>0, <1>3, <1>4, <2>1 DEF blockVars, eventVars
<1>12. CASE Finish
  BY <1>2, <1>12 DEF Finish
<1> QED
  BY <1>1, <1>6, <1>7, <1>8, <1>9, <1>10, <1>11, <1>12 DEF Next

(* Whatever the bank holds, the variables of parse keep their types.       *)
THEOREM TypeCorrect == Spec => []TypeOK
BY TypesInitially, TypesKept, PTL DEF Spec

-----------------------------------------------------------------------------
(* The order in which events are appended.                                 *)

IsAscending(s) == \A k, l \in DOMAIN s : k < l => s[k].header < s[l].header

HeadersOf(s) == {s[k].header : k \in DOMAIN s}

\* All event headers but the pending one have been appended.
Appending ==
    /\ IsAscending(appended)
    /\ HeadersOf(appended) \subseteq EventHeaders
    /\ pending = None => EventHeaders = {}
    /\ pending # None =>
          /\ pending.header \in EventHeaders
          /\ \A q \in EventHeaders : q <= pending.header
          /\ EventHeaders \ HeadersOf(appended) \subseteq {pending.header}
          /\ outcome = "parsing" /\ j \in DOMAIN bank => pending.header \notin HeadersOf(appended)

(* Event headers that began a turn lie before the current word.            *)
LEMMA HeadersArePast ==
    ASSUME TypeOK
    PROVE  \A p \in EventHeaders : p \in Nat /\ p < j
<1>1. heads \in SUBSET (1..(j - 1)) /\ j \in Nat
  BY DEF TypeOK
<1>2. \A p \in 1..(j - 1) : p \in Nat /\ p < j
  BY <1>1
<1>3. EventHeaders \subseteq heads
  BY DEF EventHeaders
<1> QED
  BY <1>1, <1>2, <1>3

(* Once the pending event is appended, all event headers have been.        *)
LEMMA CompletedHeaders ==
    ASSUME TypeOK, Appending, outcome = "parsing", j \in DOMAIN bank
    PROVE  IsAscending(Completed) /\ HeadersOf(Completed) = EventHeaders
<1>1. appended \in Seq(Events) /\ pending \in Pendings \cup {None}
  BY DEF TypeOK, Events, Pendings
<1>2. CASE pending = None
  <2>1. Completed = appended /\ EventHeaders = {}
    BY <1>2 DEF Completed, Appending
  <2> QED
    BY <2>1 DEF Appending
<1>3. CASE pending # None
  <2> DEFINE e == [num |-> FirstEvent + index, header |-> pending.header, hits |-> pending.hits]
             n == Len(appended)
  <2>1. Completed = Append(appended, e) /\ e.header = pending.header
    BY <1>3 DEF Completed
  <2> HIDE DEF e
  <2>2. /\ DOMAIN appended = 1..n /\ n \in Nat
        /\ DOMAIN Completed = 1..(n + 1)
        /\ Completed[n + 1] = e
        /\ \A k \in 1..n : Completed[k] = appended[k]
    <3>1. e \in {e} \cup Events /\ appended \in Seq({e} \cup Events)
      <4>1. \A k \in DOMAIN appended : appended[k] \in {e} \cup Events
        BY <1>1
      <4> QED
        BY <1>1, <4>1, SeqDef
    <3> QED
      BY <2>1, <3>1, AppendProperties, LenProperties
  <2> HIDE DEF n
  <2>3. \A k : k \in 1..(n + 1) <=> k \in 1..n \/ k = n + 1
    BY <2>2
  <2>4. HeadersOf(Completed) = HeadersOf(appended) \cup {pending.header}
    <3>1. ASSUME NEW h PROVE h \in HeadersOf(Completed) <=> h \in HeadersOf(appended) \/ h = pending.header
      <4>1. h \in HeadersOf(Completed) <=> \E k \in 1..(n + 1) : h = Completed[k].header
        BY <2>2 DEF HeadersOf
      <4>2. h \in HeadersOf(appended) <=> \E k \in 1..n : h = Completed[k].header
        BY <2>2 DEF HeadersOf
      <4> QED
        BY <2>1, <2>2, <2>3, <4>1, <4>2, Zenon
    <3> QED
      BY <3>1, Zenon
  <2>5. HeadersOf(Completed) = EventHeaders
    BY <1>3, <2>4 DEF Appending
  <2>6. \A h \in HeadersOf(appended) : h < pending.header
    <3>1. \A h \in HeadersOf(appended) : h \in EventHeaders /\ h <= pending.header /\ h # pending.header
      BY <1>3 DEF Appending
    <3>2. pending.header \in Nat
      BY <1>1, <1>3 DEF Pendings
    <3> QED
      BY <3>1, <3>2, HeadersArePast
  <2>7. IsAscending(Completed)
    <3> SUFFICES ASSUME NEW k \in 1..(n + 1), NEW l \in 1..(n + 1), k < l
                 PROVE  Completed[k].header < Completed[l].header
      BY <2>2 DEF IsAscending
    <3>1. k \in 1..n /\ (l \in 1..n \/ l = n + 1)
      BY <2>2
    <3>2. CASE l \in 1..n
      BY <2>2, <3>1, <3>2 DEF Appending, IsAscending
    <3>3. CASE l = n + 1
      <4>1. appended[k].header \in HeadersOf(appended)
        BY <2>2, <3>1 DEF HeadersOf
      <4> QED
        BY <2>1, <2>2, <2>6, <3>1, <3>3, <4>1
    <3> QED
      BY <3>1, <3>2, <3>3
  <2> QED
    BY <2>5, <2>7
<1> QED
  BY <1>2, <1>3

(* No step, not even one that throws, appends out of order or twice.       *)
LEMMA AppendingKept ==
    ASSUME TypeOK, Appending, [Next]_vars
    PROVE  Appending'
<1> DEFINE one == 1
<1>0. one \in Nat \ {0}
  OBVIOUS
<1> HIDE DEF one
<1>1. CASE UNCHANGED vars
  BY <1>1 DEF vars, blockVars, eventVars, Appending, EventHeaders
<1>2. ASSUME NEW how, how # "parsing", Stop(how) PROVE Appending'
  BY <1>2 DEF Stop, blockVars, eventVars, Appending, EventHeaders
<1>3. ASSUME NEW k \in Nat \ {0}, Advance(k), NEW type, type # "event_header", At(type),
             appended' = appended, pending' = None <=> pending = None,
             pending # None => pending'.header = pending.header
      PROVE  Appending'
  <2>1. heads' = heads \cup {j} /\ bank' = bank /\ outcome' = outcome /\ bank[j].type = type
    BY <1>3 DEF Advance, At
  <2>2. EventHeaders' = EventHeaders
    BY <1>3, <2>1 DEF EventHeaders
  <2>3. outcome = "parsing" /\ j \in DOMAIN bank
    BY <1>3 DEF At
  <2> QED
    BY <1>3, <2>1, <2>2, <2>3 DEF Appending
<1>4. CASE BlockHeader
  BY <1>0, <1>3, <1>4 DEF BlockHeader, eventVars, one
<1>5. CASE BlockTrailer
  <2>1. CASE nevents # 0
    BY <1>2, <1>5, <2>1 DEF BlockTrailer
  <2>2. CASE nevents = 0 /\ ~IsLast
    BY <1>0, <1>3, <1>5, <2>2 DEF BlockTrailer, one
  <2>3. CASE nevents = 0 /\ IsLast
    <3>1. At("block_trailer") /\ appended' = Completed /\ pending' = pending /\ Advance(one)
      BY <1>5, <2>3 DEF BlockTrailer, one
    <3>2. heads' = heads \cup {j} /\ bank' = bank /\ j' = j + one
      BY <3>1 DEF Advance
    <3>3. EventHeaders' = EventHeaders
      BY <3>1, <3>2 DEF EventHeaders, At
    <3>4. IsAscending(Completed) /\ HeadersOf(Completed) = EventHeaders
      BY <3>1, CompletedHeaders DEF At
    <3>5. j' \notin DOMAIN bank'
      <4>1. DOMAIN bank = 1..Len(bank) /\ Len(bank) \in Nat
        BY BanksAreWords DEF TypeOK
      <4>2. j = Len(bank)
        BY <2>3 DEF IsLast
      <4> QED
        BY <3>2, <4>1, <4>2 DEF one
    <3> QED
      BY <3>1, <3>3, <3>4, <3>5 DEF Appending
  <2> QED
    BY <2>1, <2>2, <2>3
<1>6. CASE EventHeader
  <2>1. outcome = "parsing" /\ j \in DOMAIN bank /\ bank[j].type = "event_header" /\ appended' = Completed
    BY <1>6 DEF EventHeader, At
  <2>2. IsAscending(Completed) /\ HeadersOf(Completed) = EventHeaders
    BY <2>1, CompletedHeaders
  <2>3. CASE HeaderFits
    <3>1. pending' = [header |-> j, hits |-> << >>] /\ heads' = heads \cup {j} /\ bank' = bank
      BY <1>6, <2>3 DEF EventHeader, Advance
    <3>2. EventHeaders' = EventHeaders \cup {j}
      BY <2>1, <3>1 DEF EventHeaders
    <3>3. pending' # None
      <4>1. j \in Nat /\ << >> \in Seq(Nat)
        BY DEF TypeOK
      <4>2. pending' \in [header : Nat, hits : Seq(Nat)]
        BY <3>1, <4>1
      <4> QED
        BY <4>2, NoneIsNoEvent
    <3>4. pending'.header = j
      BY <3>1
    <3>5. \A q \in EventHeaders : q <= j /\ q # j
      <4>1. j \in Nat
        BY DEF TypeOK
      <4> QED
        BY <4>1, HeadersArePast
    <3>6. j <= j
      BY DEF TypeOK
    <3> QED
      BY <2>1, <2>2, <3>2, <3>3, <3>4, <3>5, <3>6 DEF Appending
  <2>4. CASE ~HeaderFits
    <3>1. outcome' = "thrown" /\ UNCHANGED <<bank, pending, heads>>
      BY <1>6, <2>4 DEF EventHeader
    <3>2. EventHeaders' = EventHeaders
      BY <3>1 DEF EventHeaders
    <3> QED
      BY <2>1, <2>2, <3>1, <3>2 DEF Appending
  <2> QED
    BY <2>3, <2>4
<1>7. CASE TriggerTime
  <2>1. CASE nevents < 0 \/ j = Len(bank)
    BY <1>2, <1>7, <2>1 DEF TriggerTime
  <2>2. CASE ~(nevents < 0 \/ j = Len(bank))
    <3> DEFINE two == 2
    <3>1. At("trigger_time") /\ Advance(two) /\ UNCHANGED <<blockVars, eventVars>>
      BY <1>7, <2>2 DEF TriggerTime
    <3>2. two \in Nat \ {0}
      OBVIOUS
    <3> HIDE DEF two
    <3> QED
      BY <1>3, <3>1, <3>2 DEF eventVars
  <2> QED
    BY <2>1, <2>2
<1>8. CASE DataWord
  <2>1. CASE nevents < 0 \/ pending = None
    BY <1>2, <1>8, <2>1 DEF DataWord
  <2>2. CASE ~(nevents < 0) /\ pending # None
    <3> DEFINE k == 1 + bank[j].n
               hits == Append(pending.hits, j)
    <3>1. /\ pending' = [pending EXCEPT !.hits = hits] /\ At("data")
          /\ appended' = appended /\ Advance(k)
      BY <1>8, <2>2 DEF DataWord
    <3>2. k \in Nat \ {0}
      BY <3>1, WordIsTyped
    <3>3. pending \in Pendings
      BY <2>2 DEF TypeOK, Pendings
    <3>4. hits \in Seq(Nat)
      <4>1. pending.hits \in Seq(Nat) /\ j \in Nat
        BY <3>3 DEF Pendings, TypeOK
      <4> QED
        BY <4>1, AppendProperties
    <3> HIDE DEF k, hits
    <3>5. pending' \in Pendings /\ pending'.header = pending.header
      BY <3>1, <3>3, <3>4 DEF Pendings
    <3>6. pending' # None
      BY <3>5, NoneIsNoEvent DEF Pendings
    <3> QED
      BY <1>3, <2>2, <3>1, <3>2, <3>5, <3>6
  <2> QED
    BY <2>1, <2>2
<1>9. CASE PassOver
  <2>1. PICK type \in {"continuation", "other", "waveform", "pulse", "frame"} : At(type)
    BY <1>9 DEF PassOver
  <2>2. Advance(one) /\ UNCHANGED <<pending, appended>> /\ type # "event_header"
    BY <1>9 DEF PassOver, one, eventVars
  <2> QED
    BY <1>0, <1>3, <2>1, <2>2
<1>10. CASE Finish
  BY <1>2, <1>10 DEF Finish
<1> QED
  BY <1>1, <1>4, <1>5, <1>6, <1>7, <1>8, <1>9, <1>10 DEF Next

(* In every bank the events are appended in the order of their headers,    *)
(* none twice, and all but at most the last.                               *)
THEOREM Order == Spec => []EventsAreAppendedInOrder
<1>1. Init => TypeOK /\ Appending
  <2> SUFFICES ASSUME Init PROVE TypeOK /\ Appending
    OBVIOUS
  <2>1. DOMAIN appended = {} /\ EventHeaders = {} /\ pending = None
    BY DEF Init, EventHeaders
  <2> QED
    BY <2>1, TypesInitially DEF Appending, IsAscending, HeadersOf
<1>2. TypeOK /\ Appending /\ [Next]_vars => TypeOK' /\ Appending'
  BY TypesKept, AppendingKept
<1>3. Appending => EventsAreAppendedInOrder
  <2> SUFFICES ASSUME Appending PROVE EventsAreAppendedInOrder
    OBVIOUS
  <2>1. \A p \in EventHeaders \ HeadersOf(appended) : \A q \in EventHeaders : q <= p
    BY DEF Appending
  <2> QED
    BY <2>1, Zenon DEF Appending, IsAscending, HeadersOf, EventsAreAppendedInOrder
<1> QED
  BY <1>1, <1>2, <1>3, PTL DEF Spec

-----------------------------------------------------------------------------
(* What parse keeps in step with a regular bank.                           *)

\* Inside a block, its slot, the events that are left, and an event to add to.
Inside ==
    /\ nevents >= 0
    /\ nevents = bank[BlockOf(bank, j - 1)].n - Ordinal(bank, j - 1)
    /\ slot = bank[BlockOf(bank, j - 1)].slot
    /\ Ordinal(bank, j - 1) > 0 => pending # None

InStep ==
    /\ outcome \in {"parsing", "done"}
    /\ outcome = "done" => j \notin DOMAIN bank
    /\ j <= Len(bank) + 1
    /\ InBlock(bank, j) => Inside
    /\ ~InBlock(bank, j) => nevents = -1

\* A turn to the next word.
Steps ==
    /\ j \in DOMAIN bank /\ j' = j + 1
    /\ heads' = heads \cup {j}
    /\ outcome = "parsing" /\ UNCHANGED <<bank, outcome>>

\* A turn at a word that delimits nothing, over its continuation words.
Strides ==
    /\ j \in DOMAIN bank /\ bank[j].type \notin Delimiters
    /\ j' \in Nat /\ j < j'
    /\ heads' = heads \cup {j}
    /\ \A q \in (j + 1)..(j' - 1) : IsContinuation(bank, q)
    /\ outcome = "parsing" /\ UNCHANGED <<bank, outcome>>

RegularHeader ==
    /\ Steps /\ bank[j].type = "block_header"
    /\ slot' = bank[j].slot /\ nevents' = bank[j].n
    /\ UNCHANGED <<index, pending, appended>>

RegularTrailer ==
    /\ Steps /\ bank[j].type = "block_trailer" /\ InBlock(bank, j)
    /\ nevents' = -1 /\ index' = 0
    /\ appended' = IF IsLast THEN Completed ELSE appended
    /\ UNCHANGED <<slot, pending>>

RegularEvent ==
    /\ Steps /\ bank[j].type = "event_header" /\ InBlock(bank, j)
    /\ nevents > 0 /\ nevents' = nevents - 1
    /\ index' = NextIndex
    /\ pending' = [header |-> j, hits |-> << >>]
    /\ appended' = Completed
    /\ UNCHANGED slot

RegularData ==
    /\ Strides
    /\ \/ bank[j].type # "data" /\ pending' = pending
       \/ /\ bank[j].type = "data" /\ pending # None
          /\ pending' = [pending EXCEPT !.hits = Append(@, j)]
    /\ UNCHANGED <<slot, nevents, index, appended>>

RegularEnd ==
    /\ j \notin DOMAIN bank /\ outcome' = "done"
    /\ UNCHANGED <<bank, j, slot, nevents, index, pending, appended, heads>>

(* A turn that passes over continuation words only is a stride.            *)
LEMMA StridesOver ==
    ASSUME NEW type, type \notin Delimiters, At(type), j \in Nat, NEW m \in Nat, Advance(1 + m),
           \A i \in 1..m : IsContinuation(bank, j + i)
    PROVE  Strides
<1>1. j' = j + (1 + m) /\ heads' = heads \cup {j} /\ UNCHANGED <<bank, outcome>>
  BY DEF Advance
<1>2. j' \in Nat /\ j < j'
  BY <1>1
<1>3. ASSUME NEW q \in (j + 1)..(j' - 1) PROVE IsContinuation(bank, q)
  <2>1. q - j \in 1..m /\ j + (q - j) = q
    BY <1>1
  <2>2. IsContinuation(bank, j + (q - j))
    BY <2>1
  <2> QED
    BY <2>1, <2>2
<1> QED
  BY <1>1, <1>2, <1>3 DEF At, Strides

(* In step with a regular bank, parse neither throws nor reads past the    *)
(* end.                                                                    *)
LEMMA RegularTurns ==
    ASSUME TypeOK, InStep, IsRegularHelicity, Next
    PROVE  RegularHeader \/ RegularTrailer \/ RegularEvent \/ RegularData \/ RegularEnd
<1>0. /\ bank \in Seq(Words) /\ j \in Nat \ {0} /\ DOMAIN bank = 1..Len(bank) /\ Len(bank) \in Nat
      /\ IsRegular(bank)
  BY BanksAreWords DEF TypeOK, IsRegularHelicity
<1>1. CASE BlockHeader
  BY <1>1 DEF BlockHeader, At, Advance, eventVars, RegularHeader, Steps
<1>2. ASSUME j \in DOMAIN bank, InBlock(bank, j)
      PROVE  /\ Ordinal(bank, j - 1) \in Nat /\ BlockOf(bank, j - 1) \in 1..(j - 1)
             /\ bank[BlockOf(bank, j - 1)].n \in Nat
  <2>1. Blocks(bank, j - 1) # {} /\ j - 1 \in Nat
    BY <1>0, <1>2 DEF InBlock
  <2>2. Ordinal(bank, j - 1) \in Nat
    BY <2>1, OrdinalIsNat, Zenon
  <2>3. BlockOf(bank, j - 1) \in 1..(j - 1)
    BY <2>1, LastHeader
  <2>4. BlockOf(bank, j - 1) \in 1..Len(bank)
    BY <1>0, <1>2, <2>3
  <2>5. bank[BlockOf(bank, j - 1)] \in Words
    BY <1>0, <2>4
  <2> QED
    BY <2>2, <2>3, <2>5 DEF Words
<1>3. CASE BlockTrailer
  <2>1. At("block_trailer") /\ j \in DOMAIN bank /\ bank[j].type = "block_trailer" /\ outcome = "parsing"
    BY <1>3 DEF BlockTrailer, At
  <2>2. InBlock(bank, j) /\ Ordinal(bank, j) = bank[BlockOf(bank, j)].n
    BY <1>0, <2>1, RegularWord
  <2>3. BlockOf(bank, j) = BlockOf(bank, j - 1) /\ Ordinal(bank, j) = Ordinal(bank, j - 1)
    BY <1>0, <2>1, <2>2, TrailerCloses
  <2>4. nevents = 0
    <3>1. nevents = Ordinal(bank, j - 1) - Ordinal(bank, j - 1)
      BY <2>2, <2>3 DEF InStep, Inside
    <3> QED
      BY <1>2, <2>1, <2>2, <3>1
  <2> QED
    BY <1>3, <2>1, <2>2, <2>4 DEF BlockTrailer, Advance, RegularTrailer, Steps
<1>4. CASE EventHeader
  <2>1. At("event_header") /\ j \in DOMAIN bank /\ bank[j].type = "event_header" /\ outcome = "parsing"
    BY <1>4 DEF EventHeader, At
  <2>2. /\ InBlock(bank, j)
        /\ bank[j].slot = bank[BlockOf(bank, j)].slot
        /\ Ordinal(bank, j) <= bank[BlockOf(bank, j)].n
    BY <1>0, <2>1, RegularWord
  <2>3. BlockOf(bank, j) = BlockOf(bank, j - 1) /\ Ordinal(bank, j) = Ordinal(bank, j - 1) + 1
    BY <1>0, <2>1, <2>2, EventIsNext
  <2>4. Inside
    BY <2>2 DEF InStep
  <2>5. HeaderFits
    <3>1. slot = bank[j].slot
      BY <2>2, <2>3, <2>4 DEF Inside
    <3>2. nevents = bank[BlockOf(bank, j - 1)].n - Ordinal(bank, j - 1)
      BY <2>4 DEF Inside
    <3>3. nevents > 0
      BY <1>2, <2>1, <2>2, <2>3, <3>2
    <3> QED
      BY <3>1, <3>3 DEF HeaderFits
  <2> QED
    BY <1>4, <2>1, <2>2, <2>5 DEF EventHeader, HeaderFits, Advance, RegularEvent, Steps
<1>5. ASSUME NEW type \in {"trigger_time", "data"}, At(type)
      PROVE  /\ j \in DOMAIN bank /\ bank[j].type = type /\ type \notin Delimiters
             /\ ~(nevents < 0) /\ pending # None
             /\ type = "trigger_time" => IsContinuation(bank, j + 1)
  <2>1. j \in DOMAIN bank /\ bank[j].type = type
    BY <1>5 DEF At
  <2>2. type \notin Delimiters \cup {"other", "continuation"}
    BY DEF Delimiters
  <2>3. /\ InBlock(bank, j) /\ Ordinal(bank, j) > 0
        /\ type = "trigger_time" => IsContinuation(bank, j + 1)
    BY <1>0, <2>1, <2>2, RegularWord
  <2>4. Ordinal(bank, j) = Ordinal(bank, j - 1)
    <3>1. j - 1 \in Nat /\ j \in Nat /\ j - 1 <= j /\ (j - 1) + 1 = j /\ \A q \in j..j : q = j
      BY <1>0
    <3>2. \A q \in ((j - 1) + 1)..j : bank[q].type \notin Delimiters
      BY <2>1, <2>2, <3>1
    <3> QED
      BY <2>3, <3>1, <3>2, Stretch
  <2>5. Inside
    BY <2>3 DEF InStep
  <2>6. pending # None
    BY <2>3, <2>4, <2>5 DEF Inside
  <2>7. nevents \in Int /\ nevents >= 0
    BY <2>5 DEF Inside, TypeOK
  <2> QED
    BY <2>1, <2>2, <2>3, <2>6, <2>7
<1>6. CASE TriggerTime
  <2>1. At("trigger_time")
    BY <1>6 DEF TriggerTime
  <2>2. ~(nevents < 0) /\ IsContinuation(bank, j + 1)
    BY <1>5, <2>1
  <2>3. j # Len(bank)
    <3>1. j + 1 \in 1..Len(bank) /\ j \in Nat
      BY <1>0, <2>2 DEF IsContinuation
    <3>2. \A l \in Nat : j + 1 \in 1..l => j # l
      BY <3>1
    <3> QED
      BY <1>0, <3>1, <3>2
  <2>4. Advance(2) /\ UNCHANGED <<blockVars, eventVars>>
    BY <1>6, <2>2, <2>3 DEF TriggerTime
  <2>5. Strides
    <3> DEFINE m == 1
    <3>1. m \in Nat /\ Advance(1 + m) /\ \A i \in 1..m : IsContinuation(bank, j + i)
      BY <2>2, <2>4
    <3> HIDE DEF m
    <3> QED
      BY <1>0, <1>5, <2>1, <3>1, StridesOver
  <2>6. bank[j].type # "data"
    BY <1>5, <2>1
  <2> QED
    BY <2>4, <2>5, <2>6 DEF RegularData, blockVars, eventVars
<1>7. CASE DataWord
  <2> DEFINE m == bank[j].n
  <2>1. At("data")
    BY <1>7 DEF DataWord
  <2>2. j \in DOMAIN bank /\ bank[j].type = "data" /\ ~(nevents < 0) /\ pending # None
    BY <1>5, <2>1
  <2>3. pending' = [pending EXCEPT !.hits = Append(@, j)] /\ UNCHANGED <<blockVars, appended>> /\ Advance(1 + m)
    BY <1>7, <2>2 DEF DataWord
  <2>4. m \in Nat /\ \A i \in 1..m : IsContinuation(bank, j + i)
    BY <2>1, <2>2, WordIsTyped DEF IsRegularHelicity
  <2> HIDE DEF m
  <2>5. Strides
    BY <1>0, <1>5, <2>1, <2>3, <2>4, StridesOver
  <2> QED
    BY <2>2, <2>3, <2>5 DEF RegularData, blockVars
<1>8. CASE PassOver
  <2>1. PICK type \in {"continuation", "other", "waveform", "pulse", "frame"} : At(type)
    BY <1>8 DEF PassOver
  <2>2. Advance(1) /\ UNCHANGED <<blockVars, eventVars>>
    BY <1>8 DEF PassOver
  <2>3. type \notin Delimiters /\ type # "data" /\ bank[j].type = type
    BY <2>1 DEF Delimiters, At
  <2>4. Strides
    <3> DEFINE m == 0
    <3>1. m \in Nat /\ Advance(1 + m) /\ \A i \in 1..m : IsContinuation(bank, j + i)
      BY <2>2
    <3> HIDE DEF m
    <3> QED
      BY <1>0, <2>1, <2>3, <3>1, StridesOver
  <2> QED
    BY <2>2, <2>3, <2>4 DEF RegularData, blockVars, eventVars
<1>9. CASE Finish
  BY <1>9 DEF Finish, Stop, blockVars, eventVars, RegularEnd
<1> QED
  BY <1>1, <1>3, <1>4, <1>6, <1>7, <1>8, <1>9 DEF Next

(* Data words do not change which event is held back.                      *)
LEMMA PendingKept ==
    ASSUME TypeOK, RegularData, pending # None
    PROVE  pending' \in Pendings /\ pending' # None /\ pending'.header = pending.header
<1>1. pending \in Pendings /\ j \in Nat
  BY DEF TypeOK, Pendings
<1>2. CASE pending' = pending
  BY <1>1, <1>2
<1>3. CASE pending' = [pending EXCEPT !.hits = Append(@, j)]
  <2> DEFINE hits == Append(pending.hits, j)
  <2>1. hits \in Seq(Nat)
    <3>1. pending.hits \in Seq(Nat)
      BY <1>1 DEF Pendings
    <3> QED
      BY <1>1, <3>1, AppendProperties
  <2>2. pending' = [pending EXCEPT !.hits = hits]
    BY <1>3
  <2> HIDE DEF hits
  <2>3. pending' \in Pendings /\ pending'.header = pending.header
    BY <1>1, <2>1, <2>2 DEF Pendings
  <2> QED
    BY <2>3, NoneIsNoEvent DEF Pendings
<1> QED
  BY <1>2, <1>3 DEF RegularData

(* A stride neither leaves its block nor its event.                        *)
LEMMA StridesStayInside ==
    ASSUME TypeOK, Strides
    PROVE  /\ j' \in Nat /\ j' - 1 \in Nat /\ j' <= Len(bank) + 1
           /\ BlockOf(bank, j' - 1) = BlockOf(bank, j - 1)
           /\ InBlock(bank, j') <=> InBlock(bank, j)
           /\ InBlock(bank, j) => Ordinal(bank, j' - 1) = Ordinal(bank, j - 1)
<1> DEFINE p == j - 1
           r == j' - 1
<1>1. p \in Nat /\ r \in Nat /\ p <= r /\ p + 1 = j /\ r + 1 = j'
  <2>1. j \in Nat /\ j >= 1 /\ j' \in Nat /\ j < j'
    BY DEF TypeOK, Strides
  <2>2. \A m, n \in Nat : m >= 1 /\ m < n =>
           m - 1 \in Nat /\ n - 1 \in Nat /\ m - 1 <= n - 1 /\ (m - 1) + 1 = m /\ (n - 1) + 1 = n
    OBVIOUS
  <2> QED
    BY <2>1, <2>2
<1>2. \A q \in (p + 1)..r : bank[q].type \notin Delimiters
  <2>1. ASSUME NEW q \in j..r, q # j PROVE bank[q].type \notin Delimiters
    <3>1. q \in (j + 1)..r
      BY <1>1, <2>1
    <3>2. bank[q].type = "continuation"
      BY <3>1 DEF Strides, IsContinuation
    <3> QED
      BY <3>2 DEF Delimiters
  <2>2. bank[j].type \notin Delimiters
    BY DEF Strides
  <2> QED
    BY <1>1, <2>1, <2>2
<1>3. j' <= Len(bank) + 1
  <2>1. DOMAIN bank = 1..Len(bank) /\ Len(bank) \in Nat /\ j \in DOMAIN bank
    BY BanksAreWords DEF TypeOK, Strides
  <2>2. r = j \/ r \in (j + 1)..(j' - 1)
    <3>1. j \in Nat /\ j' \in Nat /\ j < j'
      BY DEF TypeOK, Strides
    <3>2. \A m, n \in Nat : m < n => n - 1 = m \/ n - 1 \in (m + 1)..(n - 1)
      OBVIOUS
    <3> QED
      BY <3>1, <3>2
  <2>3. r \in DOMAIN bank
    BY <2>1, <2>2 DEF Strides, IsContinuation
  <2> HIDE DEF r
  <2> QED
    BY <1>1, <2>1, <2>3
<1> HIDE DEF p, r
<1>4. /\ BlockOf(bank, r) = BlockOf(bank, p)
      /\ InBlock(bank, r + 1) <=> InBlock(bank, p + 1)
      /\ InBlock(bank, p + 1) => Ordinal(bank, r) = Ordinal(bank, p)
  BY <1>1, <1>2, Stretch
<1>5. j' \in Nat
  BY DEF Strides
<1> QED
  BY <1>1, <1>3, <1>4, <1>5 DEF p, r

(* No turn loses step with a regular bank.                                 *)
LEMMA InStepKept ==
    ASSUME TypeOK, InStep, IsRegularHelicity, Next
    PROVE  InStep' /\ IsRegularHelicity'
<1>0. /\ bank \in Seq(Words) /\ j \in Nat \ {0} /\ DOMAIN bank = 1..Len(bank) /\ Len(bank) \in Nat
      /\ IsRegular(bank)
  BY BanksAreWords DEF TypeOK, IsRegularHelicity
<1>1. (j + 1) - 1 = j /\ (j - 1) + 1 = j /\ (j \in DOMAIN bank => j + 1 <= Len(bank) + 1)
  BY <1>0
<1>2. ASSUME Steps
      PROVE  /\ bank' = bank /\ j' = j + 1 /\ outcome' = outcome /\ outcome = "parsing" /\ j' - 1 = j
             /\ j' <= Len(bank) + 1 /\ j \in DOMAIN bank
  BY <1>1, <1>2 DEF Steps
<1>3. CASE RegularHeader
  <2>1. InBlock(bank, j + 1) /\ BlockOf(bank, j) = j /\ Ordinal(bank, j) = 0
    BY <1>0, <1>3, HeaderOpens DEF RegularHeader
  <2>2. bank[j].n \in Nat
    <3>1. bank[j] \in Words
      BY <1>0, <1>2, <1>3 DEF RegularHeader
    <3> QED
      BY <3>1 DEF Words
  <2>3. bank[j].n = bank[j].n - 0 /\ bank[j].n >= 0 /\ ~(0 > 0)
    BY <2>2
  <2>4. Inside'
    BY <1>2, <1>3, <2>1, <2>3 DEF Inside, RegularHeader
  <2> QED
    BY <1>2, <1>3, <2>1, <2>4 DEF InStep, RegularHeader, IsRegularHelicity
<1>4. CASE RegularTrailer
  <2>1. ~InBlock(bank, j + 1)
    BY <1>0, <1>4, TrailerCloses DEF RegularTrailer
  <2> QED
    BY <1>2, <1>4, <2>1 DEF InStep, RegularTrailer, IsRegularHelicity
<1>5. CASE RegularEvent
  <2>1. /\ InBlock(bank, j + 1)
        /\ BlockOf(bank, j) = BlockOf(bank, j - 1)
        /\ Ordinal(bank, j) = Ordinal(bank, j - 1) + 1
    BY <1>0, <1>5, EventIsNext DEF RegularEvent
  <2>2. Inside
    BY <1>5 DEF InStep, RegularEvent
  <2>3. Ordinal(bank, j - 1) \in Nat /\ bank[BlockOf(bank, j - 1)].n \in Nat
    <3>1. Blocks(bank, j - 1) # {} /\ j - 1 \in Nat
      BY <1>0, <1>5 DEF InBlock, RegularEvent
    <3>2. Ordinal(bank, j - 1) \in Nat
      BY <3>1, OrdinalIsNat, Zenon
    <3>3. BlockOf(bank, j - 1) \in 1..(j - 1)
      BY <3>1, LastHeader
    <3>4. BlockOf(bank, j - 1) \in 1..Len(bank)
      BY <1>0, <1>2, <1>5, <3>3 DEF RegularEvent
    <3>5. bank[BlockOf(bank, j - 1)] \in Words
      BY <1>0, <3>4
    <3> QED
      BY <3>2, <3>5 DEF Words
  <2>4. nevents' >= 0 /\ nevents' = bank[BlockOf(bank, j)].n - Ordinal(bank, j)
    <3>1. nevents = bank[BlockOf(bank, j - 1)].n - Ordinal(bank, j - 1)
      BY <2>2 DEF Inside
    <3>2. nevents > 0 /\ nevents' = nevents - 1
      BY <1>5 DEF RegularEvent
    <3> QED
      BY <2>1, <2>3, <3>1, <3>2
  <2>5. pending' # None
    <3>1. j \in Nat /\ << >> \in Seq(Nat)
      BY <1>0
    <3>2. pending' \in [header : Nat, hits : Seq(Nat)]
      BY <1>5, <3>1 DEF RegularEvent
    <3> QED
      BY <3>2, NoneIsNoEvent
  <2>6. slot' = bank[BlockOf(bank, j)].slot
    BY <1>5, <2>1, <2>2 DEF Inside, RegularEvent
  <2>7. Inside'
    BY <1>2, <1>5, <2>4, <2>5, <2>6 DEF Inside, RegularEvent
  <2> QED
    BY <1>2, <1>5, <2>1, <2>7 DEF InStep, RegularEvent, IsRegularHelicity
<1>6. CASE RegularData
  <2>1. /\ bank' = bank /\ outcome' = outcome /\ outcome = "parsing"
        /\ UNCHANGED <<slot, nevents, index, appended>> /\ Strides
    BY <1>6 DEF RegularData, Strides
  <2>2. /\ j' <= Len(bank) + 1
        /\ BlockOf(bank, j' - 1) = BlockOf(bank, j - 1)
        /\ InBlock(bank, j') <=> InBlock(bank, j)
        /\ InBlock(bank, j) => Ordinal(bank, j' - 1) = Ordinal(bank, j - 1)
    BY <2>1, StridesStayInside
  <2>3. pending # None => pending' # None
    BY <1>6, PendingKept
  <2>4. CASE InBlock(bank, j)
    <3>1. Inside
      BY <2>4 DEF InStep
    <3>2. Inside'
      BY <2>1, <2>2, <2>3, <2>4, <3>1 DEF Inside
    <3> QED
      BY <2>1, <2>2, <2>4, <3>2 DEF InStep, IsRegularHelicity
  <2>5. CASE ~InBlock(bank, j)
    BY <2>1, <2>2, <2>5 DEF InStep, IsRegularHelicity
  <2> QED
    BY <2>4, <2>5
<1>7. CASE RegularEnd
  BY <1>7 DEF InStep, Inside, RegularEnd, IsRegularHelicity
<1> QED
  BY <1>3, <1>4, <1>5, <1>6, <1>7, RegularTurns

RegularBanksAreFollowed == IsRegularHelicity => InStep

(* Before the first word, parse is in step with any bank.                  *)
LEMMA FollowedInitially == Init => RegularBanksAreFollowed
<1> SUFFICES ASSUME Init PROVE InStep
  BY DEF RegularBanksAreFollowed
<1>1. j = 1 /\ nevents = -1 /\ outcome = "parsing" /\ Len(bank) \in Nat
  BY BanksAreWords DEF Init
<1>2. ~InBlock(bank, j)
  BY <1>1 DEF InBlock, Blocks
<1> QED
  BY <1>1, <1>2 DEF InStep

(* So it is for all banks at once, since the bank stays the same.          *)
LEMMA FollowedKept ==
    ASSUME TypeOK, RegularBanksAreFollowed, [Next]_vars
    PROVE  RegularBanksAreFollowed' /\ bank' = bank
<1>1. CASE UNCHANGED vars
  BY <1>1 DEF vars, blockVars, eventVars, RegularBanksAreFollowed, InStep, Inside, IsRegularHelicity
<1>2. CASE Next
  <2>1. bank' = bank
    BY <1>2 DEF Next, BlockHeader, BlockTrailer, EventHeader, TriggerTime, DataWord, PassOver, Finish, Stop, Advance
  <2>2. IsRegularHelicity' => IsRegularHelicity
    BY <2>1 DEF IsRegularHelicity
  <2> QED
    BY <1>2, <2>1, <2>2, InStepKept DEF RegularBanksAreFollowed
<1> QED
  BY <1>1, <1>2

(* A regular bank is neither refused nor read beyond its end, however many *)
(* blocks there are and however long they are.                             *)
THEOREM Acceptance == Spec => []RegularBanksAreAccepted
<1>1. TypeOK /\ RegularBanksAreFollowed /\ [Next]_vars => TypeOK' /\ RegularBanksAreFollowed'
  BY TypesKept, FollowedKept
<1>2. RegularBanksAreFollowed => RegularBanksAreAccepted
  BY DEF InStep, RegularBanksAreFollowed, RegularBanksAreAccepted
<1> QED
  BY <1>1, <1>2, TypesInitially, FollowedInitially, PTL DEF Spec

-----------------------------------------------------------------------------
(* A regular bank of one block with events.                                *)

OneBlock ==
    /\ IsRegularHelicity
    /\ Cardinality(Blocks(bank, Len(bank))) = 1
    /\ bank[1].type = "block_header" /\ bank[1].n > 0

\* The event headers up to position p.
CountTo(b, p) == Cardinality({q \in 1..p : b[q].type = "event_header"})

(* The only block header is the first word.                                *)
LEMMA OneHeader ==
    ASSUME TypeOK, OneBlock
    PROVE  /\ Len(bank) \in Nat \ {0} /\ DOMAIN bank = 1..Len(bank)
           /\ \A p \in 1..Len(bank) : Blocks(bank, p) = {1} /\ BlockOf(bank, p) = 1
<1>1. Len(bank) \in Nat /\ DOMAIN bank = 1..Len(bank)
  BY BanksAreWords DEF TypeOK
<1> DEFINE S == Blocks(bank, Len(bank))
<1>2. IsFiniteSet(1..Len(bank)) /\ S \subseteq 1..Len(bank)
  BY <1>1, FS_Interval DEF Blocks
<1>3. IsFiniteSet(S)
  BY <1>2, FS_Subset
<1>4. Cardinality(S) = 1
  BY DEF OneBlock
<1>5. PICK x : S = {x}
  <2> HIDE DEF S
  <2> QED
    BY <1>3, <1>4, FS_Singleton
<1>6. Len(bank) # 0 /\ 1 \in S
  <2>1. x \in 1..Len(bank)
    BY <1>2, <1>5
  <2>2. 1 \in 1..Len(bank)
    BY <1>1, <2>1
  <2>3. bank[1].type = "block_header"
    BY DEF OneBlock
  <2> QED
    BY <2>1, <2>2, <2>3 DEF Blocks
<1>7. S = {1}
  BY <1>5, <1>6
<1>8. ASSUME NEW p \in 1..Len(bank) PROVE Blocks(bank, p) = {1} /\ BlockOf(bank, p) = 1
  <2>1. 1 \in 1..p /\ 1..p \subseteq 1..Len(bank)
    BY <1>1
  <2>2. 1 \in Blocks(bank, p) /\ Blocks(bank, p) \subseteq S
    BY <1>6, <2>1 DEF Blocks
  <2>3. Blocks(bank, p) = {1}
    BY <1>7, <2>2
  <2>4. Max({1}) = 1
    <3> DEFINE T == {1}
    <3>1. T \in SUBSET Int /\ 1 \in T /\ \A q \in T : q <= 1
      OBVIOUS
    <3>2. Max(T) = 1
      <4> HIDE DEF T
      <4> QED
        BY <3>1, MaxIs
    <3> QED
      BY <3>2
  <2> QED
    BY <2>3, <2>4 DEF BlockOf
<1> QED
  BY <1>1, <1>6, <1>8

(* Counts of event headers are numbers, and do not go down.                *)
LEMMA CountIs ==
    ASSUME NEW p \in Nat
    PROVE  /\ CountTo(bank, p) \in Nat
           /\ \A r \in Nat : r <= p => CountTo(bank, r) <= CountTo(bank, p)
<1> DEFINE E(n) == {q \in 1..n : bank[q].type = "event_header"}
<1>1. ASSUME NEW n \in Nat PROVE IsFiniteSet(E(n)) /\ Cardinality(E(n)) \in Nat
  <2>1. IsFiniteSet(1..n) /\ E(n) \subseteq 1..n
    BY FS_Interval
  <2> HIDE DEF E
  <2> QED
    BY <2>1, FS_Subset, FS_CardinalityType
<1>2. ASSUME NEW r \in Nat, r <= p PROVE Cardinality(E(r)) <= Cardinality(E(p))
  <2>1. E(r) \subseteq E(p)
    BY <1>2
  <2> HIDE DEF E
  <2> QED
    BY <1>1, <2>1, FS_Subset
<1> QED
  BY <1>1, <1>2 DEF CountTo

(* They change at event headers only, and then by one.                     *)
LEMMA CountStays ==
    ASSUME NEW p \in Nat, NEW r \in Nat, p <= r,
           \A q \in (p + 1)..r : bank[q].type # "event_header"
    PROVE  CountTo(bank, r) = CountTo(bank, p)
<1>1. \A q : q \in 1..r <=> q \in 1..p \/ q \in (p + 1)..r
  OBVIOUS
<1>2. {q \in 1..r : bank[q].type = "event_header"} = {q \in 1..p : bank[q].type = "event_header"}
  BY <1>1, Zenon
<1> QED
  BY <1>2 DEF CountTo

LEMMA CountGrows ==
    ASSUME NEW p \in Nat \ {0}, bank[p].type = "event_header"
    PROVE  CountTo(bank, p) = CountTo(bank, p - 1) + 1
<1> DEFINE E == {q \in 1..(p - 1) : bank[q].type = "event_header"}
<1>1. \A q : q \in 1..p <=> q \in 1..(p - 1) \/ q = p
  OBVIOUS
<1>2. p \notin 1..(p - 1)
  OBVIOUS
<1>3. {q \in 1..p : bank[q].type = "event_header"} = E \cup {p} /\ p \notin E
  BY <1>1, <1>2, Zenon
<1>4. IsFiniteSet(E)
  <2>1. IsFiniteSet(1..(p - 1)) /\ E \subseteq 1..(p - 1)
    BY FS_Interval
  <2> HIDE DEF E
  <2> QED
    BY <2>1, FS_Subset
<1>5. Cardinality(E \cup {p}) = Cardinality(E) + 1
  <2> HIDE DEF E
  <2> QED
    BY <1>3, <1>4, FS_AddElement
<1> QED
  BY <1>3, <1>5 DEF CountTo

(* In a single block, ordinals count from the first word of the bank.      *)
LEMMA OrdinalIsCount ==
    ASSUME TypeOK, OneBlock, NEW p \in 1..Len(bank)
    PROVE  Ordinal(bank, p) = CountTo(bank, p)
<1>1. BlockOf(bank, p) = 1
  BY OneHeader
<1> QED
  BY <1>1 DEF Ordinal, CountTo

(* After its trailer, the only block is never open again.                  *)
LEMMA ClosedForGood ==
    ASSUME TypeOK, OneBlock, NEW p \in 1..Len(bank), bank[p].type = "block_trailer", p < Len(bank)
    PROVE  bank[Len(bank)].type # "block_trailer"
<1>1. Len(bank) \in Nat \ {0} /\ DOMAIN bank = 1..Len(bank)
  BY OneHeader
<1>2. Len(bank) - 1 \in 1..Len(bank) /\ p \in 1..(Len(bank) - 1)
  BY <1>1
<1>3. BlockOf(bank, Len(bank) - 1) = 1
  BY <1>2, OneHeader
<1>4. ~InBlock(bank, Len(bank))
  BY <1>2, <1>3 DEF InBlock
<1>5. Len(bank) \in DOMAIN bank
  BY <1>1
<1> QED
  BY <1>4, <1>5, RegularWord DEF OneBlock, IsRegularHelicity

\* Of the words in H, the hits are those of the event that began at h.
IsExact(b, H, n, hits, h) ==
    /\ Range(hits) \subseteq 1..n
    /\ \A p \in H : b[p].type = "data" => (p \in Range(hits) <=> CountTo(b, p) = CountTo(b, h))

IsRight(b, H, n, e) ==
    /\ e.header \in 1..n
    /\ e.num = FirstEvent + CountTo(b, e.header) - 1
    /\ IsExact(b, H, n, e.hits, e.header)

\* Without an event header, nothing has been made of the block.
NoneYet ==
    /\ j = 1 => pending = None
    /\ pending = None => appended = << >> /\ index = 0 /\ CountTo(bank, j - 1) = 0

\* The pending event is the last one, and has the hits found so far.
LastIsPending ==
    pending # None => /\ pending.header \in 1..(j - 1)
                      /\ CountTo(bank, pending.header) = CountTo(bank, j - 1)
                      /\ IsExact(bank, heads, j - 1, pending.hits, pending.header)

\* All events of the block before it have been appended.
OthersAreAppended ==
    InBlock(bank, j) /\ pending # None =>
        /\ index = CountTo(bank, j - 1) - 1
        /\ Len(appended) = CountTo(bank, j - 1) - 1
        /\ \A k \in DOMAIN appended : CountTo(bank, appended[k].header) < CountTo(bank, j - 1)

AppendedAreRight == \A k \in DOMAIN appended : IsRight(bank, heads, j - 1, appended[k])

\* The code gives up the last event if a word follows the trailer.
Expected(b) == b[1].n - (IF b[Len(b)].type = "block_trailer" THEN 0 ELSE 1)

AllOfTheBlock == j > 1 /\ ~InBlock(bank, j) => Len(appended) = Expected(bank)

Exact == NoneYet /\ LastIsPending /\ OthersAreAppended /\ AppendedAreRight /\ AllOfTheBlock

(* What has been found of an event is not disturbed by a word that is not  *)
(* a hit of it.                                                            *)
LEMMA ExactForLonger ==
    ASSUME NEW b, NEW H, NEW i \in Nat \ {0}, H \subseteq 1..(i - 1), NEW hits, NEW h,
           IsExact(b, H, i - 1, hits, h), NEW n \in Nat, i - 1 <= n,
           b[i].type = "data" => CountTo(b, i) # CountTo(b, h)
    PROVE  IsExact(b, H \cup {i}, n, hits, h)
<1>1. Range(hits) \subseteq 1..(i - 1)
  BY DEF IsExact
<1>2. i \notin Range(hits)
  BY <1>1
<1>3. Range(hits) \subseteq 1..n
  BY <1>1
<1>4. ASSUME NEW p \in H \cup {i}, b[p].type = "data"
      PROVE  p \in Range(hits) <=> CountTo(b, p) = CountTo(b, h)
  <2>1. CASE p = i
    BY <1>2, <1>4, <2>1
  <2>2. CASE p \in H
    BY <1>4, <2>2 DEF IsExact
  <2> QED
    BY <2>1, <2>2
<1> QED
  BY <1>3, <1>4 DEF IsExact

(* The same for an event that has been appended.                           *)
LEMMA RightForLonger ==
    ASSUME NEW b, NEW H, NEW i \in Nat \ {0}, H \subseteq 1..(i - 1), NEW e,
           IsRight(b, H, i - 1, e), NEW n \in Nat, i - 1 <= n,
           b[i].type = "data" => CountTo(b, i) # CountTo(b, e.header)
    PROVE  IsRight(b, H \cup {i}, n, e)
<1>1. IsExact(b, H, i - 1, e.hits, e.header) /\ e.header \in 1..(i - 1)
      /\ e.num = FirstEvent + CountTo(b, e.header) - 1
  BY DEF IsRight
<1>2. IsExact(b, H \cup {i}, n, e.hits, e.header)
  BY <1>1, ExactForLonger
<1>3. e.header \in 1..n
  BY <1>1
<1> QED
  BY <1>1, <1>2, <1>3 DEF IsRight

(* Inside the block, the event that is held back is right when it is       *)
(* appended, and comes after all others.                                   *)
LEMMA CompletedIsRight ==
    ASSUME TypeOK, Exact, InBlock(bank, j), pending # None
    PROVE  /\ Completed \in Seq(Events)
           /\ Len(Completed) = CountTo(bank, j - 1)
           /\ \A k \in DOMAIN Completed : /\ IsRight(bank, heads, j - 1, Completed[k])
                                          /\ CountTo(bank, Completed[k].header) <= CountTo(bank, j - 1)
<1> DEFINE e == [num |-> FirstEvent + index, header |-> pending.header, hits |-> pending.hits]
           n == Len(appended)
           c == CountTo(bank, j - 1)
<1>1. appended \in Seq(Events) /\ pending \in Pendings /\ j \in Nat \ {0} /\ j - 1 \in Nat /\ index \in Nat
  BY DEF TypeOK, Events, Pendings
<1>2. c \in Nat
  BY <1>1, CountIs
<1>3. pending.header \in 1..(j - 1) /\ CountTo(bank, pending.header) = c
      /\ IsExact(bank, heads, j - 1, pending.hits, pending.header)
  BY DEF Exact, LastIsPending
<1>4. index = c - 1 /\ n = c - 1 /\ \A k \in DOMAIN appended : CountTo(bank, appended[k].header) < c
  BY DEF Exact, OthersAreAppended
<1>5. e \in Events
  BY <1>1, FirstEventIsNat DEF Events, Pendings
<1>6. Completed = Append(appended, e)
  BY DEF Completed
<1>7. IsRight(bank, heads, j - 1, e) /\ CountTo(bank, e.header) = c
  <2>1. e.header = pending.header /\ e.hits = pending.hits /\ e.num = FirstEvent + index
    OBVIOUS
  <2>2. FirstEvent + index = FirstEvent + c - 1
    BY <1>2, <1>4, FirstEventIsNat
  <2> HIDE DEF e
  <2> QED
    BY <1>3, <2>1, <2>2 DEF IsRight
<1> HIDE DEF e
<1>8. /\ Completed \in Seq(Events) /\ Len(Completed) = n + 1 /\ n \in Nat
      /\ DOMAIN Completed = 1..(n + 1) /\ DOMAIN appended = 1..n
      /\ Completed[n + 1] = e
      /\ \A k \in 1..n : Completed[k] = appended[k]
  BY <1>1, <1>5, <1>6, AppendProperties, LenProperties
<1>9. ASSUME NEW k \in DOMAIN Completed
      PROVE  IsRight(bank, heads, j - 1, Completed[k]) /\ CountTo(bank, Completed[k].header) <= c
  <2>1. k \in 1..n \/ k = n + 1
    <3> HIDE DEF n
    <3> QED
      BY <1>8, <1>9
  <2>2. CASE k \in 1..n
    <3>1. Completed[k] = appended[k] /\ k \in DOMAIN appended
      BY <1>8, <2>2
    <3>2. IsRight(bank, heads, j - 1, appended[k])
      BY <3>1 DEF Exact, AppendedAreRight
    <3>3. CountTo(bank, appended[k].header) \in Nat
      <4>1. appended[k] \in Events
        BY <1>1, <3>1, ElementOfSeq
      <4>2. appended[k].header \in Nat
        BY <4>1 DEF Events
      <4> QED
        BY <4>2, CountIs
    <3>4. CountTo(bank, appended[k].header) <= c
      BY <1>2, <1>4, <3>1, <3>3
    <3> QED
      BY <3>1, <3>2, <3>4
  <2>3. CASE k = n + 1
    BY <1>2, <1>7, <1>8, <2>3
  <2> QED
    BY <2>1, <2>2, <2>3
<1>10. n + 1 = c
  BY <1>2, <1>4
<1> QED
  BY <1>8, <1>9, <1>10

(* How each kind of turn keeps Exact.  At the block header nothing has     *)
(* been found yet.                                                         *)
LEMMA ExactAtHeader ==
    ASSUME TypeOK, OneBlock, Exact, RegularHeader
    PROVE  Exact'
<1>1. /\ j \in Nat \ {0} /\ j \in 1..Len(bank) /\ bank[j].type = "block_header"
      /\ bank' = bank /\ j' = j + 1 /\ heads' = heads \cup {j}
      /\ UNCHANGED <<index, pending, appended>>
  BY OneHeader DEF TypeOK, RegularHeader, Steps
<1>2. j = 1
  <2>1. j \in Blocks(bank, j)
    BY <1>1 DEF Blocks
  <2> QED
    BY <1>1, <2>1, OneHeader
<1>3. pending = None /\ appended = << >> /\ index = 0
  BY <1>2 DEF Exact, NoneYet
<1>4. CountTo(bank, 1) = CountTo(bank, 0) /\ CountTo(bank, 0) = 0
  <2>1. \A q \in (0 + 1)..1 : bank[q].type # "event_header"
    <3>1. \A q \in (0 + 1)..1 : q = 1
      OBVIOUS
    <3> QED
      BY <1>1, <1>2, <3>1
  <2>2. CountTo(bank, 1) = CountTo(bank, 0)
    BY <2>1, CountStays
  <2>3. 1 - 1 = 0
    OBVIOUS
  <2>4. CountTo(bank, j - 1) = 0
    BY <1>3 DEF Exact, NoneYet
  <2> QED
    BY <1>2, <2>2, <2>3, <2>4
<1>5. j' = 2 /\ j' - 1 = 1 /\ j' # 1
  BY <1>1, <1>2
<1>6. InBlock(bank, 2)
  <2>1. 1 + 1 = 2
    OBVIOUS
  <2> QED
    BY <1>1, <1>2, <2>1, HeaderOpens
<1>7. DOMAIN appended = {}
  BY <1>3
<1> QED
  BY <1>1, <1>3, <1>4, <1>5, <1>6, <1>7
  DEF Exact, NoneYet, LastIsPending, OthersAreAppended, AppendedAreRight, AllOfTheBlock

(* At the trailer the last event is appended, if the bank ends there.      *)
LEMMA ExactAtTrailer ==
    ASSUME TypeOK, OneBlock, Exact, InStep, RegularTrailer
    PROVE  Exact'
<1> DEFINE c == CountTo(bank, j - 1)
<1>1. /\ j \in Nat \ {0} /\ j \in 1..Len(bank) /\ bank[j].type = "block_trailer" /\ InBlock(bank, j)
      /\ bank' = bank /\ j' = j + 1 /\ heads' = heads \cup {j} /\ heads \subseteq 1..(j - 1)
      /\ index' = 0 /\ pending' = pending
      /\ appended' = IF IsLast THEN Completed ELSE appended
  BY OneHeader DEF TypeOK, RegularTrailer, Steps
<1>2. j - 1 \in Nat /\ (j - 1) + 1 = j /\ j' - 1 = j /\ j - 1 <= j /\ j \in Nat /\ j' # 1
      /\ \A q \in 1..(j - 1) : q \in 1..j
  BY <1>1
<1>3. CountTo(bank, j) = c /\ c \in Nat
  <2>1. \A q \in ((j - 1) + 1)..j : q = j
    BY <1>1
  <2>2. \A q \in ((j - 1) + 1)..j : bank[q].type # "event_header"
    BY <1>1, <2>1
  <2> QED
    BY <1>2, <2>2, CountStays, CountIs
<1>4. c = bank[1].n /\ c > 0
  <2>1. j \in DOMAIN bank /\ IsRegular(bank)
    BY <1>1, OneHeader DEF OneBlock, IsRegularHelicity
  <2>2. Ordinal(bank, j) = bank[BlockOf(bank, j)].n
    BY <1>1, <2>1, RegularWord
  <2>3. Ordinal(bank, j) = CountTo(bank, j) /\ BlockOf(bank, j) = 1
    BY <1>1, OneHeader, OrdinalIsCount
  <2> QED
    BY <1>3, <2>2, <2>3 DEF OneBlock
<1>5. pending # None
  BY <1>4 DEF Exact, NoneYet
<1>6. /\ pending.header \in 1..(j - 1) /\ CountTo(bank, pending.header) = c
      /\ IsExact(bank, heads, j - 1, pending.hits, pending.header)
  BY <1>5 DEF Exact, LastIsPending
<1>7. /\ pending'.header \in 1..(j' - 1) /\ CountTo(bank', pending'.header) = CountTo(bank', j' - 1)
      /\ IsExact(bank', heads', j' - 1, pending'.hits, pending'.header)
  <2>1. IsExact(bank, heads \cup {j}, j, pending.hits, pending.header)
    BY <1>1, <1>2, <1>6, ExactForLonger
  <2> HIDE DEF c
  <2> QED
    BY <1>1, <1>2, <1>3, <1>6, <2>1
<1>8. ~InBlock(bank, j + 1)
  BY <1>1, TrailerCloses
<1>9. \A e : IsRight(bank, heads, j - 1, e) => IsRight(bank', heads', j' - 1, e)
  <2>1. \A e : IsRight(bank, heads, j - 1, e) => IsRight(bank, heads \cup {j}, j, e)
    BY <1>1, <1>2, RightForLonger
  <2> QED
    BY <1>1, <1>2, <2>1
<1>10. CASE IsLast
  <2>1. appended' = Completed
    BY <1>1, <1>10
  <2>2. Len(Completed) = c /\ \A k \in DOMAIN Completed : IsRight(bank, heads, j - 1, Completed[k])
    BY <1>1, <1>5, CompletedIsRight
  <2>3. Expected(bank) = bank[1].n
    <3>1. bank[Len(bank)].type = "block_trailer"
      BY <1>1, <1>10 DEF IsLast
    <3> QED
      BY <1>3, <1>4, <3>1 DEF Expected
  <2> HIDE DEF c
  <2> QED
    BY <1>1, <1>2, <1>4, <1>5, <1>7, <1>8, <1>9, <2>1, <2>2, <2>3
    DEF Exact, NoneYet, LastIsPending, OthersAreAppended, AppendedAreRight, AllOfTheBlock
<1>11. CASE ~IsLast
  <2>1. appended' = appended
    BY <1>1, <1>11
  <2>2. Len(appended) = c - 1 /\ \A k \in DOMAIN appended : IsRight(bank, heads, j - 1, appended[k])
    BY <1>1, <1>5 DEF Exact, OthersAreAppended, AppendedAreRight
  <2>3. Expected(bank) = bank[1].n - 1
    <3>1. j < Len(bank)
      BY <1>1, <1>11, OneHeader DEF IsLast
    <3>2. bank[Len(bank)].type # "block_trailer"
      BY <1>1, <3>1, ClosedForGood
    <3> QED
      BY <3>2 DEF Expected
  <2> HIDE DEF c
  <2> QED
    BY <1>1, <1>2, <1>4, <1>5, <1>7, <1>8, <1>9, <2>1, <2>2, <2>3
    DEF Exact, NoneYet, LastIsPending, OthersAreAppended, AppendedAreRight, AllOfTheBlock
<1> QED
  BY <1>10, <1>11

(* At an event header the event before is appended and a new one is held   *)
(* back.                                                                   *)
LEMMA ExactAtEvent ==
    ASSUME TypeOK, OneBlock, Exact, RegularEvent
    PROVE  Exact'
<1> DEFINE c == CountTo(bank, j - 1)
<1>1. /\ j \in Nat \ {0} /\ j \in 1..Len(bank) /\ bank[j].type = "event_header" /\ InBlock(bank, j)
      /\ bank' = bank /\ j' = j + 1 /\ heads' = heads \cup {j} /\ heads \subseteq 1..(j - 1)
      /\ index' = NextIndex /\ pending' = [header |-> j, hits |-> << >>]
      /\ appended' = Completed
  BY OneHeader DEF TypeOK, RegularEvent, Steps
<1>2. j - 1 \in Nat /\ (j - 1) + 1 = j /\ j' - 1 = j /\ j - 1 <= j /\ j \in Nat /\ j' # 1 /\ j \in 1..j
  BY <1>1
<1>3. CountTo(bank, j) = c + 1 /\ c \in Nat
  BY <1>1, <1>2, CountGrows, CountIs
<1>4. pending' # None /\ pending'.header = j /\ pending'.hits = << >>
  <2>1. << >> \in Seq(Nat)
    OBVIOUS
  <2>2. pending' \in [header : Nat, hits : Seq(Nat)]
    BY <1>1, <1>2, <2>1
  <2> QED
    BY <1>1, <2>2, NoneIsNoEvent
<1>5. IsExact(bank, heads \cup {j}, j, << >>, j)
  <2>1. Range(<< >>) = {}
    BY DEF Range
  <2>2. ASSUME NEW p \in heads \cup {j}, bank[p].type = "data"
        PROVE  CountTo(bank, p) # CountTo(bank, j)
    <3>1. p # j
      BY <1>1, <2>2
    <3>2. p \in Nat /\ p <= j - 1
      BY <1>1, <3>1
    <3>3. CountTo(bank, p) \in Nat /\ CountTo(bank, p) <= c
      BY <1>2, <3>2, CountIs
    <3> HIDE DEF c
    <3> QED
      BY <1>3, <3>3
  <2> QED
    BY <2>1, <2>2 DEF IsExact
<1>6. /\ Len(Completed) = c /\ index' = c
      /\ \A k \in DOMAIN Completed : /\ IsRight(bank, heads, j - 1, Completed[k])
                                     /\ CountTo(bank, Completed[k].header) <= c
                                     /\ CountTo(bank, Completed[k].header) \in Nat
  <2>1. CASE pending = None
    <3>1. Completed = << >> /\ c = 0 /\ index' = 0
      BY <1>1, <2>1 DEF Completed, NextIndex, Exact, NoneYet
    <3>2. Len(<< >>) = 0 /\ DOMAIN << >> = {}
      OBVIOUS
    <3> HIDE DEF c
    <3> QED
      BY <3>1, <3>2
  <2>2. CASE pending # None
    <3>1. index' = index + 1 /\ index = c - 1
      BY <1>1, <2>2 DEF NextIndex, Exact, OthersAreAppended
    <3>2. /\ Completed \in Seq(Events) /\ Len(Completed) = c
          /\ \A k \in DOMAIN Completed : /\ IsRight(bank, heads, j - 1, Completed[k])
                                         /\ CountTo(bank, Completed[k].header) <= c
      BY <1>1, <2>2, CompletedIsRight
    <3>3. ASSUME NEW k \in DOMAIN Completed PROVE CountTo(bank, Completed[k].header) \in Nat
      <4>1. Completed[k] \in Events
        BY <3>2, ElementOfSeq
      <4>2. Completed[k].header \in Nat
        BY <4>1 DEF Events
      <4> QED
        BY <4>2, CountIs
    <3>4. index' = c
      <4> HIDE DEF c
      <4> QED
        BY <1>3, <3>1
    <3> QED
      BY <3>2, <3>3, <3>4
  <2> QED
    BY <2>1, <2>2
<1>7. InBlock(bank, j + 1)
  BY <1>1, EventIsNext
<1>8. \A e : IsRight(bank, heads, j - 1, e) => IsRight(bank, heads \cup {j}, j, e)
  BY <1>1, <1>2, RightForLonger
<1> HIDE DEF c
<1>9. c = (c + 1) - 1 /\ \A n \in Nat : n <= c => n < c + 1
  BY <1>3
<1>10. OthersAreAppended'
  <2>1. index' = CountTo(bank, j) - 1 /\ Len(Completed) = CountTo(bank, j) - 1
    BY <1>3, <1>6, <1>9
  <2>2. \A k \in DOMAIN Completed : CountTo(bank, Completed[k].header) < CountTo(bank, j)
    BY <1>3, <1>6, <1>9
  <2> QED
    BY <1>1, <1>2, <2>1, <2>2 DEF OthersAreAppended
<1>11. AppendedAreRight'
  BY <1>1, <1>2, <1>6, <1>8 DEF AppendedAreRight
<1>12. LastIsPending'
  BY <1>1, <1>2, <1>4, <1>5 DEF LastIsPending
<1> QED
  BY <1>1, <1>2, <1>4, <1>7, <1>10, <1>11, <1>12 DEF Exact, NoneYet, AllOfTheBlock

(* Another hit of the event that began at h.                               *)
LEMMA ExactForOneMore ==
    ASSUME NEW b, NEW H, NEW i \in Nat \ {0}, NEW hits \in Seq(Nat), NEW h,
           IsExact(b, H, i - 1, hits, h), NEW n \in Nat, i <= n, CountTo(b, i) = CountTo(b, h)
    PROVE  IsExact(b, H \cup {i}, n, Append(hits, i), h)
<1> DEFINE more == Append(hits, i)
           m == Len(hits)
<1>1. /\ DOMAIN hits = 1..m /\ m \in Nat /\ DOMAIN more = 1..(m + 1)
      /\ more[m + 1] = i /\ \A k \in 1..m : more[k] = hits[k]
  BY AppendProperties, LenProperties
<1> HIDE DEF more, m
<1>2. \A k : k \in 1..(m + 1) <=> k \in 1..m \/ k = m + 1
  BY <1>1
<1>3. ASSUME NEW p PROVE p \in Range(more) <=> p \in Range(hits) \/ p = i
  <2>1. p \in Range(more) <=> \E k \in 1..(m + 1) : more[k] = p
    BY <1>1 DEF Range
  <2>2. p \in Range(hits) <=> \E k \in 1..m : more[k] = p
    BY <1>1 DEF Range
  <2> QED
    BY <1>1, <1>2, <2>1, <2>2, Zenon
<1>4. Range(hits) \subseteq 1..(i - 1) /\ i \in 1..n /\ 1..(i - 1) \subseteq 1..n
  BY DEF IsExact
<1>5. Range(more) \subseteq 1..n
  BY <1>3, <1>4
<1>6. ASSUME NEW p \in H \cup {i}, b[p].type = "data"
      PROVE  p \in Range(more) <=> CountTo(b, p) = CountTo(b, h)
  <2>1. CASE p = i
    BY <1>3, <2>1
  <2>2. CASE p \in H /\ p # i
    BY <1>3, <1>6, <2>2 DEF IsExact
  <2> QED
    BY <2>1, <2>2
<1> QED
  BY <1>5, <1>6 DEF IsExact, more

(* At a data word the event that is held back gets a hit, the others none. *)
LEMMA ExactAtData ==
    ASSUME TypeOK, OneBlock, Exact, RegularData
    PROVE  Exact'
<1> DEFINE c == CountTo(bank, j - 1)
           n == j' - 1
<1>1. /\ j \in Nat \ {0} /\ j \in 1..Len(bank) /\ j \in DOMAIN bank /\ bank[j].type \notin Delimiters
      /\ bank' = bank /\ j' \in Nat /\ j < j' /\ heads' = heads \cup {j} /\ heads \subseteq 1..(j - 1)
      /\ UNCHANGED <<index, appended>> /\ Strides
  BY OneHeader DEF TypeOK, RegularData, Strides
<1>2. /\ j - 1 \in Nat /\ n \in Nat /\ j \in Nat /\ j - 1 <= n /\ j <= n /\ j' # 1 /\ j - 1 <= j
      /\ \A q \in ((j - 1) + 1)..n : q = j \/ q \in (j + 1)..(j' - 1)
      /\ \A q \in ((j - 1) + 1)..j : q = j
  <2>1. \A l, m \in Nat : l >= 1 /\ l < m =>
           /\ l - 1 \in Nat /\ m - 1 \in Nat /\ l - 1 <= m - 1 /\ l <= m - 1 /\ m # 1 /\ l - 1 <= l
           /\ \A q \in ((l - 1) + 1)..(m - 1) : q = l \/ q \in (l + 1)..(m - 1)
           /\ \A q \in ((l - 1) + 1)..l : q = l
    OBVIOUS
  <2>2. j \in Nat /\ j >= 1 /\ j' \in Nat /\ j < j'
    BY <1>1
  <2> QED
    BY <2>1, <2>2
<1>3. CountTo(bank, n) = c /\ CountTo(bank, j) = c /\ c \in Nat
  <2>1. bank[j].type # "event_header"
    BY <1>1 DEF Delimiters
  <2>2. \A q \in ((j - 1) + 1)..n : bank[q].type # "event_header"
    BY <1>1, <1>2, <2>1 DEF Strides, IsContinuation
  <2>3. \A q \in ((j - 1) + 1)..j : bank[q].type # "event_header"
    BY <1>2, <2>1
  <2> HIDE DEF n
  <2> QED
    BY <1>2, <2>2, <2>3, CountStays, CountIs
<1>4. j # 1
  BY <1>1 DEF OneBlock, Delimiters
<1>5. InBlock(bank, j') <=> InBlock(bank, j)
  BY <1>1, StridesStayInside
<1>6. bank[j].type = "data" => InBlock(bank, j) /\ pending # None
  <2>1. ASSUME bank[j].type = "data" PROVE InBlock(bank, j)
    <3>1. IsRegular(bank)
      BY DEF OneBlock, IsRegularHelicity
    <3>2. bank[j].type \notin Delimiters \cup {"other", "continuation"}
      BY <2>1 DEF Delimiters
    <3> QED
      BY <1>1, <3>1, <3>2, RegularWord
  <2> QED
    BY <2>1 DEF RegularData
<1>7. (pending' = None <=> pending = None) /\ (pending # None => pending'.header = pending.header)
  BY PendingKept DEF RegularData
<1> HIDE DEF c, n
<1>8. NoneYet'
  BY <1>1, <1>2, <1>3, <1>7 DEF NoneYet, Exact, c, n
<1>9. LastIsPending'
  <2> SUFFICES ASSUME pending # None
               PROVE  /\ pending'.header \in 1..n
                      /\ CountTo(bank, pending'.header) = c
                      /\ IsExact(bank, heads \cup {j}, n, pending'.hits, pending'.header)
    BY <1>1, <1>3, <1>7 DEF LastIsPending, c, n
  <2>1. /\ pending.header \in 1..(j - 1) /\ CountTo(bank, pending.header) = c
        /\ IsExact(bank, heads, j - 1, pending.hits, pending.header)
    BY DEF Exact, LastIsPending, c
  <2>2. pending'.header \in 1..n /\ CountTo(bank, pending'.header) = c
    BY <1>2, <1>7, <2>1
  <2>3. CASE bank[j].type # "data" /\ pending' = pending
    <3>1. IsExact(bank, heads \cup {j}, n, pending.hits, pending.header)
      BY <1>1, <1>2, <2>1, <2>3, ExactForLonger
    <3> QED
      BY <2>2, <2>3, <3>1
  <2>4. CASE pending' = [pending EXCEPT !.hits = Append(@, j)]
    <3>1. pending \in Pendings
      BY DEF TypeOK, Pendings
    <3>2. pending'.hits = Append(pending.hits, j) /\ pending.hits \in Seq(Nat)
      BY <2>4, <3>1 DEF Pendings
    <3>3. IsExact(bank, heads \cup {j}, n, Append(pending.hits, j), pending.header)
      BY <1>1, <1>2, <1>3, <2>1, <3>2, ExactForOneMore
    <3> QED
      BY <1>7, <2>2, <3>2, <3>3
  <2> QED
    BY <2>3, <2>4 DEF RegularData
<1>10. OthersAreAppended'
  BY <1>1, <1>3, <1>5, <1>7 DEF Exact, OthersAreAppended, c, n
<1>11. AppendedAreRight'
  <2> SUFFICES ASSUME NEW k \in DOMAIN appended
               PROVE  IsRight(bank, heads \cup {j}, n, appended[k])
    BY <1>1 DEF AppendedAreRight, n
  <2>1. IsRight(bank, heads, j - 1, appended[k])
    BY DEF Exact, AppendedAreRight
  <2>2. bank[j].type = "data" => CountTo(bank, j) # CountTo(bank, appended[k].header)
    <3> SUFFICES ASSUME bank[j].type = "data" PROVE CountTo(bank, j) # CountTo(bank, appended[k].header)
      OBVIOUS
    <3>1. CountTo(bank, appended[k].header) < c
      BY <1>6 DEF Exact, OthersAreAppended, c
    <3> QED
      BY <1>3, <3>1
  <2> QED
    BY <1>1, <1>2, <2>1, <2>2, RightForLonger
<1>12. AllOfTheBlock'
  <2>1. j > 1
    BY <1>1, <1>4
  <2> QED
    BY <1>1, <1>5, <2>1 DEF Exact, AllOfTheBlock
<1> QED
  BY <1>8, <1>9, <1>10, <1>11, <1>12 DEF Exact

OneBlockIsFollowed == OneBlock => Exact

(* Exactness by induction: every step, and the first state.                *)
LEMMA OneBlockKept ==
    ASSUME TypeOK, RegularBanksAreFollowed, OneBlockIsFollowed, [Next]_vars
    PROVE  OneBlockIsFollowed'
<1>1. CASE UNCHANGED vars
  BY <1>1 DEF vars, blockVars, eventVars, OneBlockIsFollowed, OneBlock, IsRegularHelicity, Exact,
              NoneYet, LastIsPending, OthersAreAppended, AppendedAreRight, AllOfTheBlock
<1>2. CASE Next /\ OneBlock'
  <2>1. bank' = bank
    BY FollowedKept
  <2>2. OneBlock
    BY <1>2, <2>1 DEF OneBlock, IsRegularHelicity
  <2>3. Exact /\ InStep /\ IsRegularHelicity
    BY <2>2 DEF OneBlockIsFollowed, RegularBanksAreFollowed, OneBlock
  <2>4. CASE RegularEnd
    BY <2>3, <2>4 DEF RegularEnd, OneBlockIsFollowed, Exact,
                      NoneYet, LastIsPending, OthersAreAppended, AppendedAreRight, AllOfTheBlock
  <2>5. CASE RegularHeader \/ RegularTrailer \/ RegularEvent \/ RegularData
    BY <2>2, <2>3, <2>5, ExactAtHeader, ExactAtTrailer, ExactAtEvent, ExactAtData DEF OneBlockIsFollowed
  <2> QED
    BY <1>2, <2>3, <2>4, <2>5, RegularTurns
<1> QED
  BY <1>1, <1>2 DEF OneBlockIsFollowed

LEMMA OneBlockInitially == Init => OneBlockIsFollowed
<1> SUFFICES ASSUME Init PROVE Exact
  BY DEF OneBlockIsFollowed
<1>1. j = 1 /\ pending = None /\ appended = << >> /\ index = 0
  BY DEF Init
<1>2. CountTo(bank, j - 1) = 0
  <2>1. 1..(j - 1) = {}
    BY <1>1
  <2>2. {q \in 1..(j - 1) : bank[q].type = "event_header"} = {}
    BY <2>1
  <2> QED
    BY <2>2, FS_EmptySet DEF CountTo
<1>3. DOMAIN appended = {} /\ ~(j > 1)
  BY <1>1
<1> QED
  BY <1>1, <1>2, <1>3 DEF Exact, NoneYet, LastIsPending, OthersAreAppended, AppendedAreRight, AllOfTheBlock

(* Of a regular bank of one block, however many events it has, each event  *)
(* that is appended has the number of its place and exactly its hits; and  *)
(* at the end all have been, if the trailer is the last word.              *)
THEOREM Exactness == Spec => []OneBlockIsExact
<1>1. /\ TypeOK /\ RegularBanksAreFollowed /\ OneBlockIsFollowed /\ [Next]_vars
      => TypeOK' /\ RegularBanksAreFollowed' /\ OneBlockIsFollowed'
  BY TypesKept, FollowedKept, OneBlockKept
<1>2. TypeOK /\ RegularBanksAreFollowed /\ OneBlockIsFollowed => OneBlockIsExact
  <2> SUFFICES ASSUME TypeOK, OneBlock, InStep, Exact
               PROVE  /\ \A k \in DOMAIN appended :
                           /\ appended[k].num = FirstEvent + Ordinal(bank, appended[k].header) - 1
                           /\ \A p \in heads : bank[p].type = "data" =>
                                 (p \in Range(appended[k].hits) <=>
                                     Ordinal(bank, p) = Ordinal(bank, appended[k].header))
                      /\ outcome = "done" /\ bank[Len(bank)].type = "block_trailer" =>
                            Len(appended) = bank[1].n
    BY DEF OneBlockIsExact, OneBlock, OneBlockIsFollowed, RegularBanksAreFollowed
  <2>1. /\ Len(bank) \in Nat \ {0} /\ DOMAIN bank = 1..Len(bank) /\ j \in Nat \ {0} /\ heads \subseteq 1..(j - 1)
        /\ j <= Len(bank) + 1
    BY OneHeader DEF TypeOK, InStep
  <2>2. 1..(j - 1) \subseteq 1..Len(bank)
    BY <2>1
  <2>3. \A p \in 1..(j - 1) : Ordinal(bank, p) = CountTo(bank, p)
    BY <2>2, OrdinalIsCount
  <2>4. \A k \in DOMAIN appended : IsRight(bank, heads, j - 1, appended[k])
    BY DEF Exact, AppendedAreRight
  <2>5. ASSUME NEW k \in DOMAIN appended
        PROVE  /\ appended[k].num = FirstEvent + Ordinal(bank, appended[k].header) - 1
               /\ \A p \in heads : bank[p].type = "data" =>
                     (p \in Range(appended[k].hits) <=> Ordinal(bank, p) = Ordinal(bank, appended[k].header))
    <3>1. IsRight(bank, heads, j - 1, appended[k])
      BY <2>4
    <3>2. Ordinal(bank, appended[k].header) = CountTo(bank, appended[k].header)
      BY <2>3, <3>1 DEF IsRight
    <3>3. \A p \in heads : Ordinal(bank, p) = CountTo(bank, p)
      BY <2>1, <2>3
    <3> QED
      BY <3>1, <3>2, <3>3 DEF IsRight, IsExact
  <2>6. ASSUME outcome = "done", bank[Len(bank)].type = "block_trailer"
        PROVE  Len(appended) = bank[1].n
    <3>1. j \notin DOMAIN bank
      BY <2>6 DEF InStep
    <3>2. j = Len(bank) + 1 /\ j > 1
      BY <2>1, <3>1
    <3>3. bank # << >>
      BY <2>1
    <3>4. ~InBlock(bank, Len(bank) + 1)
      BY <3>3 DEF OneBlock, IsRegularHelicity, IsRegular
    <3>5. bank[1] \in Words
      <4>1. bank \in Seq(Words) /\ 1 \in DOMAIN bank
        BY <2>1, BanksAreWords DEF TypeOK
      <4> QED
        BY <4>1
    <3>6. bank[1].n \in Nat /\ Expected(bank) = bank[1].n
      BY <2>6, <3>5 DEF Expected, Words
    <3> QED
      BY <3>2, <3>4, <3>6 DEF Exact, AllOfTheBlock
  <2> QED
    BY <2>5, <2>6
<1> QED
  BY <1>1, <1>2, TypesInitially, FollowedInitially, OneBlockInitially, PTL DEF Spec

=============================================================================

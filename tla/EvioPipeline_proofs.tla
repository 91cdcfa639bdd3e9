------------------------ MODULE EvioPipeline_proofs ------------------------
(***************************************************************************)
(* Proofs about EvioPipeline: for every set of files, every configuration, *)
(* every number of workers and every size of JANA2's pool, no block is     *)
(* lost, repeated or delivered in part, a worker throws only for cause,    *)
(* and the pipeline implements EventDelivery.                              *)
(*                                                                         *)
(* The inductive invariant follows each block through the stages of its    *)
(* life (Stages), says how far a worker has got with its block (Working),  *)
(* and what the registries must have promised by then: whatever a step has *)
(* concluded from a registry, the registry was frozen when it did.         *)
(***************************************************************************)
EXTENDS EvioPipeline, SharedLemmas, SequenceTheorems

\* PhysicsEvents as a worker gathers them.
PhysicsEvents == [num : EventNumbers, hit : Nat \X Nat \X Nat]

(* The physics-level events the unfolder may deliver.                      *)
PhysicsLevelEvents ==
    [src : Sources, pos : Nat, num : EventNumbers, run : Nat, hits : Seq(Nat \X Nat \X Nat)]

-----------------------------------------------------------------------------
(* What has been made of the banks before the loop variables a.            *)

(* The DMA bank <<i, j>> comes before the loop variables a.                *)
Past(i, j, a) == i < a[1] \/ (i = a[1] /\ j < a[2])

(* The filter f lets the DMA bank <<i, j>> of e through.                   *)
Admits(e, f, i, j) == PassesFilter(f, e.banks[i].roc, e.banks[i].dmas[j].tag)

(* The hits to deliver that come from a bank before a.                     *)
HitsBefore(e, f, r, a) == {hit \in Hits(e, f, r) : Past(hit[1], hit[2], a)}

\* The PhysicsEvents evs hold the hits in S, each under its number, in order.
Gathers(evs, e, S) ==
    /\ {evs[k].hit : k \in DOMAIN evs} = S
    /\ \A k \in DOMAIN evs : evs[k].num = NumberOf(e, evs[k].hit)
    /\ \A k, l \in DOMAIN evs : k < l => Earlier(evs[k].hit, evs[l].hit)

\* The bank was looked up in frozen registries, and parsed if it has a module.
IsSettled(dma, r, rf, p, pf) ==
    /\ rf
    /\ r[dma.tag] # NoModule => pf /\ p[r[dma.tag]] # NullParser /\ dma.body.sound

(* Every admitted bank before a is settled, and its hits are gathered in   *)
(* evs.                                                                    *)
Progress(e, a, evs, f, r, rf, p, pf) ==
    /\ \A i \in DOMAIN e.banks : \A j \in DOMAIN e.banks[i].dmas :
          Past(i, j, a) /\ Admits(e, f, i, j) => IsSettled(e.banks[i].dmas[j], r, rf, p, pf)
    /\ Gathers(evs, e, HitsBefore(e, f, r, a))

\* Why the block cannot be delivered, however the registries go on.
IsHopeless(e, f, r, rf, p, pf) ==
    \/ ~IsConsistent(e)
    \/ \E i \in DOMAIN e.banks : \E j \in DOMAIN e.banks[i].dmas :
          LET dma == e.banks[i].dmas[j]
          IN  /\ Admits(e, f, i, j) /\ rf /\ r[dma.tag] # NoModule
              /\ ~dma.body.sound \/ (pf /\ p[r[dma.tag]] = NullParser)
    \/ /\ Hits(e, f, r) = {}
       /\ \A i \in DOMAIN e.banks : \A j \in DOMAIN e.banks[i].dmas : Admits(e, f, i, j) => rf

(* The steps a worker takes inside the loops over the banks.               *)
InLoops == {"roc", "dma", "parser", "bind", "decode"}

\* A worker at c with the block of event e.
Working(c, e, a, m, evs, f, r, rf, p, pf) ==
    /\ c = "thrown" => IsHopeless(e, f, r, rf, p, pf)
    /\ c \in InLoops =>
          /\ TriggerAgrees(e)
          /\ Progress(e, a, evs, f, r, rf, p, pf)
          /\ \A i \in DOMAIN e.banks :
                i < a[1] \/ (i = a[1] /\ c # "roc") => e.segments[i] = e.banks[i].roc
    /\ c = "roc" => a[1] \in 1..(Len(e.banks) + 1) /\ a[2] = 0
    /\ c \in InLoops \ {"roc"} =>
          a[1] \in DOMAIN e.banks /\ a[2] \in 1..(Len(e.banks[a[1]].dmas) + 1)
    /\ c \in {"parser", "bind", "decode"} =>
          /\ a[2] \in DOMAIN e.banks[a[1]].dmas
          /\ Admits(e, f, a[1], a[2])
          /\ rf /\ r[e.banks[a[1]].dmas[a[2]].tag] # NoModule
    /\ c = "parser" => m = r[e.banks[a[1]].dmas[a[2]].tag]
    /\ c \in {"bind", "decode"} =>
          pf /\ m = p[r[e.banks[a[1]].dmas[a[2]].tag]] /\ m # NullParser

(* Worker w has a block exactly while it is busy, and is as far as Working *)
(* says.                                                                   *)
WorkerOK(w) ==
    /\ block[w] = None <=> pc[w] = "idle"
    /\ pc[w] = "idle" => events[w] = << >>
    /\ pc[w] # "idle" =>
          Working(pc[w], EventOf(block[w]), at[w], found[w], events[w],
                  Allowed, routes, routesFrozen, parsers, parsersFrozen)

(* So is every worker.                                                     *)
WorkersOK == \A w \in Workers : WorkerOK(w)

-----------------------------------------------------------------------------
(* The stages of a block's life.                                           *)

(* The block b was read from its file and got past the event filters.      *)
IsRead(b) == b \in BlockEvents /\ b.pos \in 1..read[b.src] /\ PassesFilters(EventOf(b))

(* Every block between the source and the processors was read.             *)
CarriedAreRead ==
    /\ \A b \in queue : IsRead(b)
    /\ \A w \in Workers : block[w] # None => IsRead(block[w])
    /\ \A d \in decoded : IsRead(d.block)
    /\ parent # None => IsRead(parent.block)

(* What carries the i-th event of source s: in the queue, at a worker,     *)
(* decoded, or in the unfolder.                                            *)
Queued(s, i) == {b \in queue : Holds(b, s, i)}
Worked(s, i) == {w \in Workers : Holds(block[w], s, i)}
Decoded(s, i) == {d \in decoded : Holds(d.block, s, i)}
Unfolded(s, i) == parent # None /\ Holds(parent.block, s, i)

(* The event numbers delivered so far of the i-th event of s.              *)
DeliveredNumbers(s, i) == {c.num : c \in ChildrenOf(s, i)}

(* Not read yet, or dropped by the source: nothing carries it.             *)
NotPassedOn(s, i) ==
    /\ i > read[s] \/ ~PassesFilters(file[s][i])
    /\ Queued(s, i) = {} /\ Worked(s, i) = {} /\ Decoded(s, i) = {} /\ ~Unfolded(s, i)
    /\ ChildrenOf(s, i) = {}

(* One event in the queue carries it, and nothing else.                    *)
InQueue(s, i) ==
    /\ \E b \in queue : Queued(s, i) = {b}
    /\ Worked(s, i) = {} /\ Decoded(s, i) = {} /\ ~Unfolded(s, i)
    /\ ChildrenOf(s, i) = {}

(* One worker carries it, and nothing else.                                *)
WithWorker(s, i) ==
    /\ \E w \in Workers : Worked(s, i) = {w}
    /\ Queued(s, i) = {} /\ Decoded(s, i) = {} /\ ~Unfolded(s, i)
    /\ ChildrenOf(s, i) = {}

(* One decoded block carries it, and nothing else.                         *)
AwaitingUnfolder(s, i) ==
    /\ \E d \in decoded : Decoded(s, i) = {d}
    /\ Queued(s, i) = {} /\ Worked(s, i) = {} /\ ~Unfolded(s, i)
    /\ ChildrenOf(s, i) = {}

(* The unfolder has it, and has delivered what does not remain.            *)
BeingUnfolded(s, i) ==
    /\ Unfolded(s, i)
    /\ Queued(s, i) = {} /\ Worked(s, i) = {} /\ Decoded(s, i) = {}
    /\ DeliveredNumbers(s, i) = DOMAIN parent.hits \ remaining

(* Nothing carries it any more, and all its numbers are delivered.         *)
Delivered(s, i) ==
    /\ i <= read[s] /\ PassesFilters(file[s][i])
    /\ Queued(s, i) = {} /\ Worked(s, i) = {} /\ Decoded(s, i) = {} /\ ~Unfolded(s, i)
    /\ DeliveredNumbers(s, i) = Numbers(file[s][i], Allowed, routes)
    /\ ChildrenOf(s, i) # {}

(* Where the i-th event of source s is: at one place, always.              *)
Stage(s, i) ==
    \/ NotPassedOn(s, i)
    \/ InQueue(s, i)
    \/ WithWorker(s, i)
    \/ AwaitingUnfolder(s, i)
    \/ BeingUnfolded(s, i)
    \/ Delivered(s, i)

(* Every event of every file is at one stage of its life.                  *)
Stages == \A s \in Sources : \A i \in 1..Len(file[s]) : Stage(s, i)

-----------------------------------------------------------------------------
(* What has been decoded and delivered.                                    *)

\* The hits are those of an acceptable block, by number, in readout order.
IsDecoded(e, hits, f, r, p) ==
    /\ IsAcceptable(e, f, r, p)
    /\ DOMAIN hits = Numbers(e, f, r)
    /\ \A n \in DOMAIN hits : hits[n] \in Listings(HitsOf(e, f, r, n))

(* Each decoded block holds the hits of its event.                         *)
DecodedOK ==
    /\ decoded \subseteq DecodedEvents
    /\ \A d \in decoded : IsDecoded(EventOf(d.block), d.hits, Allowed, routes, parsers)

(* So does the block being unfolded, of which something remains.           *)
ParentOK ==
    /\ parent = None => remaining = {}
    /\ parent # None =>
          /\ parent \in DecodedEvents
          /\ IsDecoded(EventOf(parent.block), parent.hits, Allowed, routes, parsers)
          /\ remaining # {} /\ remaining \subseteq DOMAIN parent.hits

(* Whatever was delivered is of an acceptable block that was read.         *)
ChildrenOK ==
    /\ children \in Seq(PhysicsLevelEvents)
    /\ \A c \in Range(children) :
          /\ c.pos \in 1..read[c.src]
          /\ IsAcceptable(file[c.src][c.pos], Allowed, routes, parsers)

(* Once a block was decoded, no plugin can register any more.              *)
FrozenOnceDecoded ==
    decoded # {} \/ parent # None \/ children # << >> => routesFrozen /\ parsersFrozen

(* The types of the files, the configuration and the registries.           *)
SettingsOK ==
    /\ filterFiles \in Seq(Seq(FilterLines))
    /\ filter = FillDB(filterFiles)
    /\ file \in [Sources -> Files]
    /\ read \in [Sources -> Nat] /\ run \in [Sources -> Nat]
    /\ \A s \in Sources : read[s] <= Len(file[s])
    /\ failed \in BOOLEAN
    /\ routes \in [Banks -> Modules \cup {NoModule}] /\ routesFrozen \in BOOLEAN
    /\ parsers \in [Modules -> Parsers \cup {NullParser}] /\ parsersFrozen \in BOOLEAN
    /\ logger \in [Parsers -> Sources \cup {None}]

(* The types of the workers' variables.                                    *)
WorkersTyped ==
    /\ pc \in [Workers -> InLoops \cup {"idle", "thrown"}]
    /\ block \in [Workers -> BlockEvents \cup {None}]
    /\ at \in [Workers -> Nat \X Nat]
    /\ found \in [Workers -> Modules \cup Parsers \cup {None}]
    /\ events \in [Workers -> Seq(PhysicsEvents)]

(* The inductive invariant.                                                *)
IInv ==
    /\ SettingsOK
    /\ WorkersTyped
    /\ CarriedAreRead
    /\ WorkersOK
    /\ Stages
    /\ DecodedOK
    /\ ParentOK
    /\ ChildrenOK
    /\ FrozenOnceDecoded

-----------------------------------------------------------------------------
(* Lemmas on the data.                                                     *)

(* A 64-bit number narrowed to an int is an int.                           *)
LEMMA AsIntType == ASSUME NEW n \in Int PROVE AsInt(n) \in EventNumbers
  <1> DEFINE m == 2 * HalfRange
  <1>1. m \in Nat /\ m > 0 /\ HalfRange \in Nat
    BY HalfRangeIsPositive
  <1>2. (n + HalfRange) % m \in 0..(m - 1)
    <2> HIDE DEF m
    <2> QED BY <1>1
  <1> QED BY <1>1, <1>2 DEF AsInt, EventNumbers

(* The types of the parts of an event.                                     *)
LEMMA EventTypes ==
    ASSUME NEW e \in EvioEvents
    PROVE  /\ e.first \in Nat /\ e.header \in Nat
           /\ e.segments \in Seq(ROCs) /\ e.banks \in Seq(DataBanks)
           /\ \A i \in DOMAIN e.banks :
                /\ i \in Nat \ {0} /\ e.banks[i].roc \in ROCs /\ e.banks[i].dmas \in Seq(DMABanks)
                /\ \A j \in DOMAIN e.banks[i].dmas :
                     /\ j \in Nat \ {0} /\ e.banks[i].dmas[j].tag \in Banks
                     /\ e.banks[i].dmas[j].body.sound \in BOOLEAN
                     /\ e.banks[i].dmas[j].body.offsets \in Seq(Int)
                     /\ \A k \in DOMAIN e.banks[i].dmas[j].body.offsets :
                          k \in Nat \ {0} /\ e.banks[i].dmas[j].body.offsets[k] \in Int
  <1>1. /\ e.first \in Nat /\ e.header \in Nat
        /\ e.segments \in Seq(ROCs) /\ e.banks \in Seq(DataBanks)
    BY DEF EvioEvents
  <1>2. ASSUME NEW i \in DOMAIN e.banks
        PROVE  i \in Nat \ {0} /\ e.banks[i] \in DataBanks
    BY <1>1, ElementOfSeq, LenProperties
  <1>3. ASSUME NEW i \in DOMAIN e.banks
        PROVE  e.banks[i].roc \in ROCs /\ e.banks[i].dmas \in Seq(DMABanks)
    BY <1>2 DEF DataBanks
  <1>4. ASSUME NEW i \in DOMAIN e.banks, NEW j \in DOMAIN e.banks[i].dmas
        PROVE  j \in Nat \ {0} /\ e.banks[i].dmas[j] \in DMABanks
    BY <1>3, ElementOfSeq, LenProperties
  <1>5. ASSUME NEW i \in DOMAIN e.banks, NEW j \in DOMAIN e.banks[i].dmas
        PROVE  /\ e.banks[i].dmas[j].tag \in Banks
               /\ e.banks[i].dmas[j].body.sound \in BOOLEAN
               /\ e.banks[i].dmas[j].body.offsets \in Seq(Int)
    BY <1>4 DEF DMABanks, Bodies
  <1>6. ASSUME NEW i \in DOMAIN e.banks, NEW j \in DOMAIN e.banks[i].dmas,
               NEW k \in DOMAIN e.banks[i].dmas[j].body.offsets
        PROVE  k \in Nat \ {0} /\ e.banks[i].dmas[j].body.offsets[k] \in Int
    BY SMTT(30), <1>5, ElementOfSeq, LenProperties
  <1> QED BY <1>1, <1>2, <1>3, <1>4, <1>5, <1>6

\* The hits of a block, by position.
LEMMA HitsByPosition ==
    ASSUME NEW e, NEW f, NEW r, NEW hit
    PROVE  hit \in Hits(e, f, r) <=>
             \E i \in DOMAIN e.banks : \E j \in DOMAIN e.banks[i].dmas :
               \E k \in DOMAIN e.banks[i].dmas[j].body.offsets :
                  /\ hit = <<i, j, k>>
                  /\ Admits(e, f, i, j)
                  /\ r[e.banks[i].dmas[j].tag] # NoModule
  <1>1. ASSUME NEW pair
        PROVE  pair \in AdmittedBanks(e, f, r) <=>
                 \E i \in DOMAIN e.banks : \E j \in DOMAIN e.banks[i].dmas :
                    /\ pair = <<i, j>>
                    /\ Admits(e, f, i, j)
                    /\ r[e.banks[i].dmas[j].tag] # NoModule
    BY DEF AdmittedBanks, Admits
  <1>2. hit \in Hits(e, f, r) <=>
          \E pair \in AdmittedBanks(e, f, r) :
             \E k \in DOMAIN e.banks[pair[1]].dmas[pair[2]].body.offsets :
                hit = <<pair[1], pair[2], k>>
    BY SMTT(30) DEF Hits
  <1> HIDE DEF Admits
  <1>3. ASSUME NEW i \in DOMAIN e.banks, NEW j \in DOMAIN e.banks[i].dmas,
               NEW k \in DOMAIN e.banks[i].dmas[j].body.offsets,
               hit = <<i, j, k>>, Admits(e, f, i, j), r[e.banks[i].dmas[j].tag] # NoModule
        PROVE  hit \in Hits(e, f, r)
    <2>1. <<i, j>> \in AdmittedBanks(e, f, r)
      BY <1>1, <1>3
    <2> QED BY <1>2, <1>3, <2>1
  <1>4. ASSUME NEW pair \in AdmittedBanks(e, f, r),
               NEW k \in DOMAIN e.banks[pair[1]].dmas[pair[2]].body.offsets,
               hit = <<pair[1], pair[2], k>>
        PROVE  \E i \in DOMAIN e.banks : \E j \in DOMAIN e.banks[i].dmas :
                 \E l \in DOMAIN e.banks[i].dmas[j].body.offsets :
                    /\ hit = <<i, j, l>>
                    /\ Admits(e, f, i, j)
                    /\ r[e.banks[i].dmas[j].tag] # NoModule
    BY <1>1, <1>4
  <1> QED BY <1>2, <1>3, <1>4

(* A hit to deliver names an admitted bank and one of its offsets, and its *)
(* number is an int.                                                       *)
LEMMA HitTypes ==
    ASSUME NEW e \in EvioEvents, NEW f, NEW r, NEW hit \in Hits(e, f, r)
    PROVE  /\ hit \in Nat \X Nat \X Nat
           /\ NumberOf(e, hit) \in EventNumbers
  <1>1. PICK i \in DOMAIN e.banks : \E j \in DOMAIN e.banks[i].dmas :
             \E k \in DOMAIN e.banks[i].dmas[j].body.offsets : hit = <<i, j, k>>
    BY HitsByPosition
  <1>2. PICK j \in DOMAIN e.banks[i].dmas :
             \E k \in DOMAIN e.banks[i].dmas[j].body.offsets : hit = <<i, j, k>>
    BY <1>1
  <1>3. PICK k \in DOMAIN e.banks[i].dmas[j].body.offsets : hit = <<i, j, k>>
    BY <1>2
  <1>4. i \in Nat /\ j \in Nat /\ k \in Nat
    BY EventTypes
  <1>5. e.first \in Nat /\ e.banks[i].dmas[j].body.offsets[k] \in Int
    BY EventTypes
  <1> QED BY <1>3, <1>4, <1>5, AsIntType DEF NumberOf

\* The hits before the loop variables do not change on the way past banks
\* that are not let through.
LEMMA SameHitsBefore ==
    ASSUME NEW e, NEW f, NEW r, NEW a, NEW b,
           \A i \in DOMAIN e.banks : \A j \in DOMAIN e.banks[i].dmas :
              Admits(e, f, i, j) /\ r[e.banks[i].dmas[j].tag] # NoModule =>
                 (Past(i, j, a) <=> Past(i, j, b))
    PROVE  HitsBefore(e, f, r, a) = HitsBefore(e, f, r, b)
  <1>1. ASSUME NEW hit \in Hits(e, f, r)
        PROVE  Past(hit[1], hit[2], a) <=> Past(hit[1], hit[2], b)
    BY HitsByPosition
  <1> QED BY <1>1 DEF HitsBefore

\* The elements of a concatenation, from either side.
LEMMA ConcatElements ==
    ASSUME NEW T, NEW s \in Seq(T), NEW t \in Seq(T)
    PROVE  /\ s \o t \in Seq(T)
           /\ \A k \in DOMAIN s : k \in DOMAIN (s \o t) /\ (s \o t)[k] = s[k]
           /\ \A k \in DOMAIN t :
                 Len(s) + k \in DOMAIN (s \o t) /\ (s \o t)[Len(s) + k] = t[k]
           /\ \A k \in DOMAIN (s \o t) :
                 k \in DOMAIN s \/ \E l \in DOMAIN t : k = Len(s) + l
           /\ \A k \in DOMAIN s : k \in Nat /\ k <= Len(s)
           /\ \A k \in DOMAIN t : k \in Nat /\ k > 0
           /\ Len(s) \in Nat
  <1> DEFINE n == Len(s)
             m == Len(t)
             u == s \o t
  <1>1. n \in Nat /\ m \in Nat /\ DOMAIN s = 1..n /\ DOMAIN t = 1..m
    BY LenProperties
  <1>2. u \in Seq(T) /\ Len(u) = n + m
    BY ConcatProperties
  <1>3. DOMAIN u = 1..(n + m)
    BY <1>2, LenProperties
  <1>4. \A k \in 1..(n + m) : u[k] = IF k <= n THEN s[k] ELSE t[k - n]
    BY ConcatProperties
  <1> HIDE DEF n, m, u
  <1>5. \A k \in 1..n : k \in DOMAIN u /\ u[k] = s[k]
    BY <1>1, <1>3, <1>4
  <1>6. ASSUME NEW k \in 1..m PROVE n + k \in DOMAIN u /\ u[n + k] = t[k]
    <2>1. n + k \in 1..(n + m) /\ ~(n + k <= n) /\ (n + k) - n = k
      BY <1>1
    <2> QED BY <1>3, <1>4, <2>1
  <1>7. ASSUME NEW k \in 1..(n + m), k \notin 1..n PROVE \E l \in 1..m : k = n + l
    <2>1. k - n \in 1..m /\ k = n + (k - n)
      BY <1>1, <1>7
    <2> QED BY <2>1
  <1>8. \A k \in DOMAIN s : k \in DOMAIN u /\ u[k] = s[k]
    BY <1>1, <1>5
  <1>9. \A k \in DOMAIN t : n + k \in DOMAIN u /\ u[n + k] = t[k]
    BY <1>1, <1>6
  <1>10. \A k \in DOMAIN u : k \in DOMAIN s \/ \E l \in DOMAIN t : k = n + l
    BY <1>1, <1>3, <1>7
  <1>11. /\ \A k \in DOMAIN s : k \in Nat /\ k <= n
         /\ \A k \in DOMAIN t : k \in Nat /\ k > 0
    BY <1>1
  <1> QED BY <1>1, <1>2, <1>8, <1>9, <1>10, <1>11 DEF n, u

\* PhysicsEvents appended after earlier ones.
LEMMA GathersConcat ==
    ASSUME NEW e, NEW A, NEW B,
           NEW evs \in Seq(PhysicsEvents), Gathers(evs, e, A),
           NEW more \in Seq(PhysicsEvents), Gathers(more, e, B),
           \A g \in A : \A h \in B : Earlier(g, h)
    PROVE  evs \o more \in Seq(PhysicsEvents) /\ Gathers(evs \o more, e, A \cup B)
  <1> DEFINE both == evs \o more
             n == Len(evs)
  <1>1. /\ both \in Seq(PhysicsEvents) /\ n \in Nat
        /\ \A k \in DOMAIN evs : k \in DOMAIN both /\ both[k] = evs[k] /\ k \in Nat /\ k <= n
        /\ \A k \in DOMAIN more : n + k \in DOMAIN both /\ both[n + k] = more[k] /\ k \in Nat /\ k > 0
        /\ \A k \in DOMAIN both : k \in DOMAIN evs \/ \E l \in DOMAIN more : k = n + l
    BY ConcatElements
  <1> HIDE DEF both, n
  <1>2. {both[k].hit : k \in DOMAIN both} = A \cup B
    <2>1. ASSUME NEW k \in DOMAIN both PROVE both[k].hit \in A \cup B
      <3>1. CASE k \in DOMAIN evs
        BY <1>1, <3>1 DEF Gathers
      <3>2. CASE \E l \in DOMAIN more : k = n + l
        BY <1>1, <3>2 DEF Gathers
      <3> QED BY <1>1, <3>1, <3>2
    <2>2. ASSUME NEW h \in A PROVE \E k \in DOMAIN both : both[k].hit = h
      <3>1. PICK k \in DOMAIN evs : evs[k].hit = h
        BY DEF Gathers
      <3> QED BY <1>1, <3>1
    <2>3. ASSUME NEW h \in B PROVE \E k \in DOMAIN both : both[k].hit = h
      <3>1. PICK k \in DOMAIN more : more[k].hit = h
        BY DEF Gathers
      <3>2. n + k \in DOMAIN both /\ both[n + k] = more[k]
        BY <1>1
      <3> QED BY <3>1, <3>2
    <2> QED BY <2>1, <2>2, <2>3
  <1>3. ASSUME NEW k \in DOMAIN both PROVE both[k].num = NumberOf(e, both[k].hit)
    BY <1>1 DEF Gathers
  <1>4. ASSUME NEW k \in DOMAIN both, NEW l \in DOMAIN both, k < l
        PROVE  Earlier(both[k].hit, both[l].hit)
    <2>1. CASE k \in DOMAIN evs /\ l \in DOMAIN evs
      BY <1>1, <1>4, <2>1 DEF Gathers
    <2>2. CASE k \in DOMAIN evs /\ \E m \in DOMAIN more : l = n + m
      <3>1. both[k].hit \in A /\ both[l].hit \in B
        BY <1>1, <2>2 DEF Gathers
      <3> QED BY <3>1
    <2>3. CASE (\E m \in DOMAIN more : k = n + m) /\ \E m \in DOMAIN more : l = n + m
      <3>1. PICK a \in DOMAIN more, b \in DOMAIN more : k = n + a /\ l = n + b
        BY <2>3
      <3>2. a < b
        BY <1>1, <1>4, <3>1
      <3> QED BY <1>1, <3>1, <3>2 DEF Gathers
    <2>4. CASE (\E m \in DOMAIN more : k = n + m) /\ l \in DOMAIN evs
      BY <1>1, <1>4, <2>4
    <2> QED BY <1>1, <2>1, <2>2, <2>3, <2>4
  <1> QED BY <1>1, <1>2, <1>3, <1>4 DEF Gathers, both

\* What the parser makes of the bank at <<i, j>>.
EventsOf(e, i, j) ==
    [k \in DOMAIN e.banks[i].dmas[j].body.offsets |->
        [num |-> AsInt(e.first + e.banks[i].dmas[j].body.offsets[k]), hit |-> <<i, j, k>>]]

(* The hits of one DMA bank.                                               *)
HitsOfBank(e, i, j) == {<<i, j, k>> : k \in DOMAIN e.banks[i].dmas[j].body.offsets}

(* Parsing one sound bank gathers exactly its hits (DecodeBank appends     *)
(* them in offset order).                                                  *)
LEMMA GathersBank ==
    ASSUME NEW e \in EvioEvents, NEW i \in DOMAIN e.banks, NEW j \in DOMAIN e.banks[i].dmas
    PROVE  /\ EventsOf(e, i, j) \in Seq(PhysicsEvents)
           /\ Gathers(EventsOf(e, i, j), e, HitsOfBank(e, i, j))
  <1> DEFINE offsets == e.banks[i].dmas[j].body.offsets
             Event(k) == [num |-> AsInt(e.first + offsets[k]), hit |-> <<i, j, k>>]
             more == [k \in DOMAIN offsets |-> Event(k)]
             n == Len(offsets)
  <1>1. /\ offsets \in Seq(Int) /\ e.first \in Nat /\ i \in Nat /\ j \in Nat
        /\ \A k \in DOMAIN offsets : k \in Nat \ {0} /\ offsets[k] \in Int
    BY EventTypes
  <1>2. n \in Nat /\ DOMAIN offsets = 1..n
    BY <1>1, LenProperties
  <1>3. ASSUME NEW k \in 1..n PROVE Event(k) \in PhysicsEvents
    <2>1. offsets[k] \in Int /\ k \in Nat
      <3> HIDE DEF n, offsets
      <3> QED BY <1>1, <1>2
    <2>2. e.first + offsets[k] \in Int
      <3>1. e.first \in Nat
        BY <1>1
      <3>2. \A a \in Nat, b \in Int : a + b \in Int
        OBVIOUS
      <3> HIDE DEF offsets
      <3> QED BY <2>1, <3>1, <3>2
    <2> HIDE DEF offsets
    <2> QED BY <1>1, <2>1, <2>2, AsIntType DEF PhysicsEvents
  <1>4. ASSUME NEW k \in 1..n PROVE Event(k).num = NumberOf(e, Event(k).hit)
    BY DEF NumberOf
  <1>5. ASSUME NEW k \in 1..n PROVE Event(k).hit = <<i, j, k>>
    OBVIOUS
  <1>6. ASSUME NEW k \in 1..n, NEW l \in 1..n, k < l PROVE Earlier(Event(k).hit, Event(l).hit)
    BY <1>6 DEF Earlier
  <1>7. more = EventsOf(e, i, j) /\ HitsOfBank(e, i, j) = {<<i, j, k>> : k \in DOMAIN offsets}
    BY DEF EventsOf, HitsOfBank
  <1> HIDE DEF Event, n, offsets
  <1>8. more \in Seq(PhysicsEvents)
    <2>1. more = [k \in 1..n |-> Event(k)]
      BY <1>2
    <2>2. [k \in 1..n |-> Event(k)] \in [1..n -> PhysicsEvents]
      BY <1>3
    <2> QED BY <1>2, <2>1, <2>2, SeqDef
  <1>9. DOMAIN more = 1..n /\ \A k \in 1..n : more[k] = Event(k)
    BY <1>2
  <1> HIDE DEF more
  <1>10. {more[k].hit : k \in DOMAIN more} = HitsOfBank(e, i, j)
    BY ZenonT(60), <1>2, <1>5, <1>7, <1>9
  <1>11. Gathers(more, e, HitsOfBank(e, i, j))
    BY <1>4, <1>6, <1>9, <1>10 DEF Gathers
  <1> QED BY <1>7, <1>8, <1>11

\* The hits of an admitted bank.
LEMMA BankHits ==
    ASSUME NEW e, NEW f, NEW r, NEW i \in DOMAIN e.banks, NEW j \in DOMAIN e.banks[i].dmas,
           Admits(e, f, i, j), r[e.banks[i].dmas[j].tag] # NoModule
    PROVE  HitsOfBank(e, i, j) = {hit \in Hits(e, f, r) : hit[1] = i /\ hit[2] = j}
  <1>1. ASSUME NEW hit \in Hits(e, f, r), hit[1] = i, hit[2] = j
        PROVE  hit \in HitsOfBank(e, i, j)
    BY SMTT(30), HitsByPosition, <1>1 DEF HitsOfBank
  <1>2. ASSUME NEW hit \in HitsOfBank(e, i, j)
        PROVE  hit \in Hits(e, f, r) /\ hit[1] = i /\ hit[2] = j
    BY SMTT(30), HitsByPosition DEF HitsOfBank
  <1> QED BY <1>1, <1>2

\* Decoding one more bank gathers its hits too.
LEMMA GathersMore ==
    ASSUME NEW e \in EvioEvents, NEW f, NEW r, NEW evs \in Seq(PhysicsEvents),
           NEW i \in DOMAIN e.banks, NEW j \in DOMAIN e.banks[i].dmas,
           Admits(e, f, i, j), r[e.banks[i].dmas[j].tag] # NoModule,
           Gathers(evs, e, HitsBefore(e, f, r, <<i, j>>))
    PROVE  /\ evs \o EventsOf(e, i, j) \in Seq(PhysicsEvents)
           /\ Gathers(evs \o EventsOf(e, i, j), e, HitsBefore(e, f, r, <<i, j + 1>>))
  <1> DEFINE New == HitsOfBank(e, i, j)
             more == EventsOf(e, i, j)
             Before == HitsBefore(e, f, r, <<i, j>>)
  <1>1. i \in Nat /\ j \in Nat
    BY EventTypes
  <1>2. New = {hit \in Hits(e, f, r) : hit[1] = i /\ hit[2] = j}
    BY SMTT(30), BankHits
  <1>3. more \in Seq(PhysicsEvents) /\ Gathers(more, e, New)
    BY GathersBank
  <1> HIDE DEF New, more
  <1>4. HitsBefore(e, f, r, <<i, j + 1>>) = Before \cup New
    <2>1. ASSUME NEW hit \in Hits(e, f, r)
          PROVE  Past(hit[1], hit[2], <<i, j + 1>>) <=>
                   Past(hit[1], hit[2], <<i, j>>) \/ (hit[1] = i /\ hit[2] = j)
      <3>1. hit \in Nat \X Nat \X Nat
        BY HitTypes
      <3> QED BY <1>1, <3>1 DEF Past
    <2> QED BY <1>2, <2>1 DEF HitsBefore
  <1>5. ASSUME NEW g \in Before, NEW h \in New PROVE Earlier(g, h)
    <2>1. g \in Nat \X Nat \X Nat /\ Past(g[1], g[2], <<i, j>>)
      BY HitTypes DEF HitsBefore
    <2>2. h[1] = i /\ h[2] = j
      BY <1>2
    <2> QED BY <1>1, <2>1, <2>2 DEF Past, Earlier
  <1>6. Gathers(evs, e, Before)
    OBVIOUS
  <1> HIDE DEF Before
  <1>7. evs \o more \in Seq(PhysicsEvents) /\ Gathers(evs \o more, e, Before \cup New)
    BY <1>3, <1>5, <1>6, GathersConcat
  <1> QED BY <1>4, <1>7 DEF more

\* The loop that gathers the hits of one event number, turn by turn.
Gatherings(evs, n) ==
    {gathered \in [0..Len(evs) -> Seq(Nat \X Nat \X Nat)] :
        /\ HitsNumbered(evs, n) = gathered[Len(evs)]
        /\ gathered[0] = << >>
        /\ \A k \in 1..Len(evs) :
              gathered[k] = IF evs[k].num = n THEN Append(gathered[k - 1], evs[k].hit)
                            ELSE gathered[k - 1]}

(* The loop that collects the hits of one number has a result.             *)
LEMMA HitsNumberedLoop ==
    ASSUME NEW evs \in Seq(PhysicsEvents), NEW n
    PROVE  \E gathered : gathered \in Gatherings(evs, n)
  <1> DEFINE m == Len(evs)
             Q == Seq(Nat \X Nat \X Nat)
             base == << >>
             Turn(k, hits) == IF evs[k].num = n THEN Append(hits, evs[k].hit) ELSE hits
             step == [k \in 1..m |-> [hits \in Q |-> Turn(k, hits)]]
             Body(g, k) == IF k = 0 THEN base ELSE Turn(k, g[k - 1])
             gathered == CHOOSE g : g = [k \in 0..m |-> Body(g, k)]
  <1>1. m \in Nat /\ base \in Q /\ HitsNumbered(evs, n) = gathered[m]
    BY DEF HitsNumbered
  <1>2. ASSUME NEW k \in 1..m, NEW hits \in Q PROVE Turn(k, hits) \in Q
    <2>1. evs[k] \in PhysicsEvents
      BY ElementOfSeq
    <2>2. evs[k].hit \in Nat \X Nat \X Nat
      BY <2>1 DEF PhysicsEvents
    <2> QED BY <2>2
  <1> HIDE DEF m, Q, base, Turn
  <1>3. step \in Turns(m, Q)
    BY <1>2 DEF Turns
  <1>4. PICK g : g \in Results(m, Q, base, step)
    <2> HIDE DEF step
    <2> QED BY <1>1, <1>3, LoopHasResult
  <1>5. g \in [0..m -> Q] /\ g[0] = base /\ \A k \in 1..m : g[k] = step[k][g[k - 1]]
    BY <1>4 DEF Results
  <1>6. ASSUME NEW k \in 1..m PROVE g[k] = Turn(k, g[k - 1])
    <2>1. g[k - 1] \in Q
       BY <1>1, <1>5
    <2> QED BY <1>5, <2>1
  <1>7. g = [k \in 0..m |-> Body(g, k)]
    BY <1>1, <1>5, <1>6
  <1>8. gathered = [k \in 0..m |-> Body(gathered, k)]
    <2> HIDE DEF Body
    <2> QED BY <1>7
  <1> HIDE DEF gathered
  <1>9. gathered[0] = base /\ \A k \in 1..m : gathered[k] = Turn(k, gathered[k - 1])
    BY <1>8, <1>1
  <1>10. \A k \in 0..m : gathered[k] \in Q
    <2> DEFINE S == {k \in Nat : k <= m => gathered[k] \in Q}
    <2>1. 0 \in S
      BY <1>1, <1>9
    <2>2. ASSUME NEW k \in S PROVE k + 1 \in S
      BY <1>1, <1>9, <1>2
    <2>3. S = Nat
      <3>1. S \in SUBSET Nat
        OBVIOUS
      <3> HIDE DEF S
      <3> QED BY <2>1, <2>2, <3>1, NatSetInduction
    <2> QED BY <2>3, <1>1
  <1>11. gathered \in [0..m -> Q]
    BY <1>8, <1>10
  <1>12. gathered \in Gatherings(evs, n)
    BY <1>1, <1>9, <1>11 DEF m, Q, base, Turn, Gatherings
  <1> QED BY <1>12

\* A strictly ordered sequence lists the set of its elements.
LEMMA OrderedIsListing ==
    ASSUME NEW hits \in Seq(Nat \X Nat \X Nat),
           \A j, k \in DOMAIN hits : j < k => Earlier(hits[j], hits[k])
    PROVE  hits \in Listings({hits[k] : k \in DOMAIN hits})
  <1> DEFINE n == Len(hits)
             S == {hits[k] : k \in DOMAIN hits}
  <1>1. n \in Nat /\ DOMAIN hits = 1..n /\ hits \in [1..n -> Nat \X Nat \X Nat]
    BY LenProperties
  <1> HIDE DEF n
  <1>2. ASSUME NEW j \in 1..n, NEW k \in 1..n, j < k PROVE hits[j] # hits[k]
    <2>1. hits[j] \in Nat \X Nat \X Nat /\ Earlier(hits[j], hits[k])
      BY <1>1, <1>2
    <2>2. \A h \in Nat \X Nat \X Nat : ~Earlier(h, h)
      BY DEF Earlier
    <2> QED BY <2>1, <2>2
  <1>3. \A j, k \in 1..n : hits[j] = hits[k] => j = k
    BY <1>1, <1>2
  <1>4. hits \in [1..n -> S]
    BY <1>1
  <1>5. ExistsBijection(1..n, S)
    <2>1. hits \in Bijection(1..n, S)
      BY <1>1, <1>3, <1>4 DEF Bijection, Injection, Surjection, IsInjective
    <2> QED BY <2>1 DEF ExistsBijection
  <1>6. Cardinality(S) = n
    <2> HIDE DEF S
    <2> QED BY <1>1, <1>5, FS_CountingElements
  <1> HIDE DEF S
  <1>7. hits \in Listings(S)
    BY <1>4, <1>6 DEF Listings
  <1> QED BY <1>7 DEF S

\* The hits of one number, out of all that have been gathered.
LEMMA HitsNumberedLists ==
    ASSUME NEW e, NEW A, NEW evs \in Seq(PhysicsEvents), Gathers(evs, e, A), NEW n
    PROVE  /\ HitsNumbered(evs, n) \in Seq(Nat \X Nat \X Nat)
           /\ HitsNumbered(evs, n) \in Listings({hit \in A : NumberOf(e, hit) = n})
  <1>0. PICK gathered : gathered \in Gatherings(evs, n)
    BY HitsNumberedLoop
  <1> DEFINE m == Len(evs)
             Q == Seq(Nat \X Nat \X Nat)
  <1>1. /\ m \in Nat /\ DOMAIN evs = 1..m
        /\ \A k \in 1..m : evs[k].hit \in Nat \X Nat \X Nat
    <2>1. \A k \in 1..m : evs[k] \in PhysicsEvents
      BY ElementOfSeq
    <2> QED BY <2>1, LenProperties DEF PhysicsEvents
  <1>2. /\ gathered \in [0..m -> Q]
        /\ HitsNumbered(evs, n) = gathered[m]
        /\ gathered[0] = << >>
        /\ \A k \in 1..m :
              gathered[k] = IF evs[k].num = n THEN Append(gathered[k - 1], evs[k].hit)
                            ELSE gathered[k - 1]
    BY <1>0 DEF Gatherings
  <1> DEFINE Of(k) == {l \in 1..k : evs[l].num = n}
             IsListed(k) ==
                /\ {gathered[k][i] : i \in DOMAIN gathered[k]} = {evs[l].hit : l \in Of(k)}
                /\ \A i, j \in DOMAIN gathered[k] : i < j => Earlier(gathered[k][i], gathered[k][j])
             S == {k \in Nat : k <= m => IsListed(k)}
  <1> HIDE DEF m, Q
  <1>3. 0 \in S
    BY <1>1, <1>2
  <1>4. ASSUME NEW k \in S PROVE k + 1 \in S
    <2>1. SUFFICES ASSUME k + 1 <= m PROVE IsListed(k + 1)
      <3> HIDE DEF IsListed
      <3> QED OBVIOUS
    <2>2. k \in 0..m /\ k + 1 \in 1..m /\ (k + 1) - 1 = k
      BY <1>1, <2>1
    <2>3. IsListed(k)
      <3> HIDE DEF IsListed
      <3> QED BY <2>2
    <2> DEFINE hits == gathered[k]
               hit == evs[k + 1].hit
    <2>4. hits \in Seq(Nat \X Nat \X Nat) /\ hit \in Nat \X Nat \X Nat
      BY <1>1, <1>2, <2>2 DEF Q
    <2>5. CASE evs[k + 1].num # n
      <3>1. gathered[k + 1] = gathered[k] /\ Of(k + 1) = Of(k)
        BY <1>1, <1>2, <2>2, <2>5
      <3> QED BY <2>3, <3>1
    <2>6. CASE evs[k + 1].num = n
      <3>1. gathered[k + 1] = Append(hits, hit)
        BY <1>2, <2>2, <2>6
      <3>2. Of(k + 1) = Of(k) \cup {k + 1}
        BY <2>2, <2>6
      <3> DEFINE longer == Append(hits, hit)
                 len == Len(hits)
      <3>3. /\ len \in Nat /\ DOMAIN hits = 1..len /\ DOMAIN longer = 1..(len + 1)
            /\ \A i \in 1..len : longer[i] = hits[i]
            /\ longer[len + 1] = hit
        BY <2>4, AppendProperties, LenProperties
      <3>4. \A i \in DOMAIN hits : Earlier(hits[i], hit)
        <4>1. ASSUME NEW i \in DOMAIN hits PROVE Earlier(hits[i], hit)
          <5>1. PICK l \in Of(k) : hits[i] = evs[l].hit
            BY <2>3
          <5>2. l \in DOMAIN evs /\ k + 1 \in DOMAIN evs /\ l < k + 1
            BY <1>1, <2>2
          <5> QED BY <5>1, <5>2 DEF Gathers
        <4> QED BY <4>1
      <3>5. {hits[i] : i \in DOMAIN hits} = {evs[l].hit : l \in Of(k)}
        BY <2>3
      <3>6. \A i, j \in DOMAIN hits : i < j => Earlier(hits[i], hits[j])
        BY <2>3
      <3> HIDE DEF longer, len, hits, hit, Of
      <3>7. {longer[i] : i \in DOMAIN longer} = {hits[i] : i \in DOMAIN hits} \cup {hit}
        <4>1. ASSUME NEW i \in DOMAIN longer PROVE longer[i] \in {hits[l] : l \in DOMAIN hits} \cup {hit}
          BY <3>3
        <4>2. ASSUME NEW i \in DOMAIN hits PROVE i \in DOMAIN longer /\ longer[i] = hits[i]
          BY <3>3
        <4>3. len + 1 \in DOMAIN longer
          BY <3>3
        <4> QED BY <3>3, <4>1, <4>2, <4>3
      <3>8. {evs[l].hit : l \in Of(k + 1)} = {evs[l].hit : l \in Of(k)} \cup {hit}
        BY <3>2 DEF hit
      <3>9. \A i, j \in DOMAIN longer : i < j => Earlier(longer[i], longer[j])
        BY <3>3, <3>4, <3>6
      <3>10. gathered[k + 1] = longer
        BY <3>1 DEF longer
      <3> QED BY ZenonT(60), <3>5, <3>7, <3>8, <3>9, <3>10
    <2> QED BY <2>5, <2>6
  <1>5. S = Nat
    <2>1. S \in SUBSET Nat
      OBVIOUS
    <2> HIDE DEF S
    <2> QED BY <1>3, <1>4, <2>1, NatSetInduction
  <1>6. m \in S
    BY <1>1, <1>5
  <1>7. IsListed(m)
    <2> HIDE DEF IsListed
    <2> QED BY <1>1, <1>6
  <1>8. {evs[l].hit : l \in Of(m)} = {hit \in A : NumberOf(e, hit) = n}
    <2>1. ASSUME NEW l \in Of(m) PROVE evs[l].hit \in A /\ NumberOf(e, evs[l].hit) = n
      BY <1>1 DEF Gathers
    <2>2. ASSUME NEW hit \in A, NumberOf(e, hit) = n PROVE \E l \in Of(m) : evs[l].hit = hit
      <3>1. PICK l \in DOMAIN evs : evs[l].hit = hit
        BY DEF Gathers
      <3>2. evs[l].num = n
        BY <2>2, <3>1 DEF Gathers
      <3> QED BY <1>1, <3>1, <3>2
    <2> QED BY <2>1, <2>2
  <1>9. gathered[m] \in Seq(Nat \X Nat \X Nat)
    BY <1>1, <1>2 DEF Q
  <1>10. gathered[m] \in Listings({gathered[m][i] : i \in DOMAIN gathered[m]})
    BY <1>7, <1>9, OrderedIsListing
  <1>11. {gathered[m][i] : i \in DOMAIN gathered[m]} = {hit \in A : NumberOf(e, hit) = n}
    BY <1>7, <1>8
  <1> QED BY <1>2, <1>9, <1>10, <1>11

\* The consolidation loop, when every hit of the block has been gathered.
LEMMA ConsolidatedLists ==
    ASSUME NEW e \in EvioEvents, NEW f, NEW r,
           NEW evs \in Seq(PhysicsEvents), Gathers(evs, e, Hits(e, f, r))
    PROVE  /\ DOMAIN Consolidated(evs) = Numbers(e, f, r)
           /\ Consolidated(evs) \in UNION {[N -> Seq(Nat \X Nat \X Nat)] : N \in SUBSET EventNumbers}
           /\ \A n \in Numbers(e, f, r) : Consolidated(evs)[n] \in Listings(HitsOf(e, f, r, n))
  <1>1. {evs[k].num : k \in DOMAIN evs} = Numbers(e, f, r)
    <2>1. ASSUME NEW k \in DOMAIN evs PROVE evs[k].num \in Numbers(e, f, r)
      BY DEF Gathers, Numbers
    <2>2. ASSUME NEW n \in Numbers(e, f, r) PROVE \E k \in DOMAIN evs : evs[k].num = n
      <3>1. PICK hit \in Hits(e, f, r) : NumberOf(e, hit) = n
        BY DEF Numbers
      <3>2. PICK k \in DOMAIN evs : evs[k].hit = hit
        BY DEF Gathers
      <3> QED BY <3>1, <3>2 DEF Gathers
    <2> QED BY <2>1, <2>2
  <1>2. Numbers(e, f, r) \in SUBSET EventNumbers
    BY HitTypes DEF Numbers
  <1>3. ASSUME NEW n \in Numbers(e, f, r)
        PROVE  /\ HitsNumbered(evs, n) \in Seq(Nat \X Nat \X Nat)
               /\ HitsNumbered(evs, n) \in Listings(HitsOf(e, f, r, n))
    BY HitsNumberedLists DEF HitsOf
  <1>4. Consolidated(evs) = [n \in Numbers(e, f, r) |-> HitsNumbered(evs, n)]
    BY <1>1 DEF Consolidated
  <1>5. Consolidated(evs) \in [Numbers(e, f, r) -> Seq(Nat \X Nat \X Nat)]
    BY <1>3, <1>4
  <1> QED BY <1>2, <1>3, <1>4, <1>5

-----------------------------------------------------------------------------
(* The filter database holds what the rows of its files say.               *)

(* The types of the rows and lists FilterDatabase works on.                *)
FilterRow == [kind : {"row"}, roc : ROCs, slot : Nat, module : Nat, bank : Banks]

Lists == [banks : Seq(Banks), slots : Seq(Nat), modules : Seq(Nat)]

Databases ==
    {db \in [rows : SUBSET FilterRow, data : UNION {[R -> Lists] : R \in SUBSET ROCs}] :
        /\ DOMAIN db.data = {row.roc : row \in db.rows}
        /\ \A roc \in DOMAIN db.data :
              Range(db.data[roc].banks) = {row.bank : row \in {x \in db.rows : x.roc = roc}}}

(* Reading one line of a filter file keeps the database well typed, and    *)
(* within the rows read so far.                                            *)
LEMMA FillLineKeeps ==
    ASSUME NEW db \in Databases, NEW line \in FilterLines
    PROVE  /\ FillLine(db, line) \in Databases
           /\ FillLine(db, line).rows = db.rows \cup {x \in {line} : IsRow(x)}
  <1>1. CASE ~(IsRow(line) /\ line \notin db.rows)
    BY <1>1 DEF FillLine
  <1>2. CASE IsRow(line) /\ line \notin db.rows
    <2> DEFINE new == FillLine(db, line)
               lists == ListsOf(db, line.roc)
               D == DOMAIN db.data \cup {line.roc}
               longer == [banks   |-> Append(lists["banks"], line.bank),
                          slots   |-> Append(lists["slots"], line.slot),
                          modules |-> Append(lists["modules"], line.module)]
    <2>1. line \in FilterRow
      BY <1>2 DEF IsRow, FilterLines, FilterRow
    <2>2. line.roc \in ROCs /\ line.slot \in Nat /\ line.module \in Nat /\ line.bank \in Banks
      BY <2>1 DEF FilterRow
    <2>3. /\ db.rows \in SUBSET FilterRow
          /\ DOMAIN db.data \in SUBSET ROCs
          /\ db.data \in [DOMAIN db.data -> Lists]
          /\ DOMAIN db.data = {row.roc : row \in db.rows}
          /\ \A roc \in DOMAIN db.data :
                Range(db.data[roc].banks) = {row.bank : row \in {x \in db.rows : x.roc = roc}}
      BY DEF Databases
    <2>4. /\ lists["banks"] \in Seq(Banks) /\ lists["slots"] \in Seq(Nat)
          /\ lists["modules"] \in Seq(Nat)
          /\ Range(lists["banks"]) = {row.bank : row \in {x \in db.rows : x.roc = line.roc}}
      <3>1. CASE line.roc \in DOMAIN db.data
        <4>1. lists = db.data[line.roc] /\ lists \in Lists
          BY <2>3, <3>1 DEF ListsOf
        <4> QED BY <2>3, <3>1, <4>1 DEF Lists
      <3>2. CASE line.roc \notin DOMAIN db.data
        <4>1. lists["banks"] = << >> /\ lists["slots"] = << >> /\ lists["modules"] = << >>
          BY <3>2 DEF ListsOf, Columns
        <4>2. {x \in db.rows : x.roc = line.roc} = {}
          BY <2>3, <3>2
        <4>3. Range(<< >>) = {}
          BY DEF Range
        <4> QED BY <4>1, <4>2, <4>3
      <3> QED BY <3>1, <3>2
    <2>5. /\ new = [rows |-> db.rows \cup {line},
                    data |-> [roc \in D |-> IF roc = line.roc THEN longer ELSE db.data[roc]]]
      BY <1>2 DEF FillLine, Inserted
    <2> HIDE DEF new, lists
    <2>6. longer \in Lists
      BY <2>2, <2>4 DEF Lists
    <2>7. Range(Append(lists["banks"], line.bank)) = Range(lists["banks"]) \cup {line.bank}
      <3> DEFINE s == lists["banks"]
                 t == Append(s, line.bank)
      <3>1. /\ Len(s) \in Nat /\ DOMAIN s = 1..Len(s) /\ DOMAIN t = 1..(Len(s) + 1)
            /\ \A i \in 1..Len(s) : t[i] = s[i]
            /\ t[Len(s) + 1] = line.bank
        BY <2>2, <2>4, AppendProperties, LenProperties
      <3> HIDE DEF s, t
      <3>2. Range(t) = Range(s) \cup {line.bank}
        <4>1. ASSUME NEW i \in DOMAIN t PROVE t[i] \in Range(s) \cup {line.bank}
          BY <3>1 DEF Range
        <4>2. ASSUME NEW i \in DOMAIN s PROVE i \in DOMAIN t /\ t[i] = s[i]
          BY <3>1
        <4>3. Len(s) + 1 \in DOMAIN t
          BY <3>1
        <4> QED BY <3>1, <4>1, <4>2, <4>3 DEF Range
      <3> QED BY <3>2 DEF s, t
    <2> HIDE DEF D
    <2>8. D \in SUBSET ROCs /\ D = {row.roc : row \in db.rows \cup {line}}
      BY <2>2, <2>3 DEF D
    <2>9. [roc \in D |-> IF roc = line.roc THEN longer ELSE db.data[roc]] \in [D -> Lists]
      <3> HIDE DEF longer
      <3>1. ASSUME NEW roc \in D, roc # line.roc PROVE db.data[roc] \in Lists
        BY <2>3, <3>1 DEF D
      <3> QED BY <2>6, <3>1
    <2>10. ASSUME NEW roc \in D
           PROVE  Range((IF roc = line.roc THEN longer ELSE db.data[roc]).banks)
                    = {row.bank : row \in {x \in db.rows \cup {line} : x.roc = roc}}
      <3>1. CASE roc = line.roc
        BY <2>4, <2>7, <3>1
      <3>2. CASE roc # line.roc
        BY <2>3, <3>2 DEF D
      <3> QED BY <3>1, <3>2
    <2> HIDE DEF longer
    <2>11. new.rows = db.rows \cup {line} /\ new.rows \in SUBSET FilterRow
      BY <2>1, <2>3, <2>5
    <2>12. /\ DOMAIN new.data = D
           /\ new.data \in [D -> Lists]
           /\ \A roc \in D : new.data[roc] = IF roc = line.roc THEN longer ELSE db.data[roc]
      BY <2>5, <2>9
    <2>13. new \in [rows : SUBSET FilterRow, data : UNION {[R -> Lists] : R \in SUBSET ROCs}]
      BY <2>5, <2>8, <2>9, <2>11
    <2>14. new \in Databases
      <3>1. DOMAIN new.data = {row.roc : row \in new.rows}
        BY <2>8, <2>11, <2>12
      <3>2. ASSUME NEW roc \in DOMAIN new.data
            PROVE  Range(new.data[roc].banks) = {row.bank : row \in {x \in new.rows : x.roc = roc}}
        <4>1. roc \in D /\ new.data[roc] = IF roc = line.roc THEN longer ELSE db.data[roc]
          BY <2>12
        <4>2. Range((IF roc = line.roc THEN longer ELSE db.data[roc]).banks)
                = {row.bank : row \in {x \in db.rows \cup {line} : x.roc = roc}}
          BY <2>10, <4>1
        <4> QED BY <2>11, <4>1, <4>2
      <3> QED BY <2>13, <3>1, <3>2 DEF Databases
    <2>15. new.rows = db.rows \cup {x \in {line} : IsRow(x)}
      BY <1>2, <2>11
    <2> QED BY <2>14, <2>15 DEF new
  <1> QED BY <1>1, <1>2

\* The loop over the lines of a file, turn by turn.
LEMMA FillFileKeeps ==
    ASSUME NEW db \in Databases, NEW lines \in Seq(FilterLines)
    PROVE  /\ FillFile(db, lines) \in Databases
           /\ FillFile(db, lines).rows = db.rows \cup RowsOf(lines)
  <1> DEFINE m == Len(lines)
             step == [k \in 1..m |-> [t \in Databases |-> FillLine(t, lines[k])]]
             Body(g, k) == IF k = 0 THEN db ELSE FillLine(g[k - 1], lines[k])
             after == CHOOSE g : g = [k \in 0..m |-> Body(g, k)]
             I == [k \in 0..m |-> {t \in Databases :
                      t.rows = db.rows \cup {line \in {lines[j] : j \in 1..k} : IsRow(line)}}]
  <1>1. m \in Nat /\ DOMAIN lines = 1..m /\ \A k \in 1..m : lines[k] \in FilterLines
    BY ElementOfSeq, LenProperties
  <1>2. FillFile(db, lines) = after[m]
    BY DEF FillFile
  <1> HIDE DEF m
  <1>3. ASSUME NEW k \in 1..m, NEW t \in Databases PROVE FillLine(t, lines[k]) \in Databases
    BY <1>1, FillLineKeeps
  <1>4. step \in Turns(m, Databases)
    BY <1>3 DEF Turns
  <1>5. PICK g : g \in Results(m, Databases, db, step)
    <2> HIDE DEF step
    <2> QED BY <1>1, <1>4, LoopHasResult
  <1>6. g \in [0..m -> Databases] /\ g[0] = db /\ \A k \in 1..m : g[k] = step[k][g[k - 1]]
    BY <1>5 DEF Results
  <1>7. ASSUME NEW k \in 1..m PROVE g[k] = FillLine(g[k - 1], lines[k])
    <2>1. g[k - 1] \in Databases
       BY <1>1, <1>6
    <2> QED BY <1>6, <2>1
  <1>8. g = [k \in 0..m |-> Body(g, k)]
    BY <1>1, <1>6, <1>7
  <1>9. after = [k \in 0..m |-> Body(after, k)]
    <2> HIDE DEF Body
    <2> QED BY <1>8
  <1> HIDE DEF after
  <1>10. after[m] = g[m]
    <2>1. after[0] = g[0]
      BY <1>1, <1>6, <1>9
    <2>2. ASSUME NEW k \in 1..m, after[k - 1] = g[k - 1] PROVE after[k] = g[k]
      <3>1. after[k] = FillLine(after[k - 1], lines[k])
        BY <1>1, <1>9
      <3> QED BY <1>7, <2>2, <3>1
    <2> QED BY <1>1, <2>1, <2>2, LoopsAgree
  <1>11. g[m] \in I[m] /\ g[m] \in Databases
    <2>1. db \in I[0]
      BY <1>1
    <2>2. ASSUME NEW k \in 1..m, NEW t \in Databases, t \in I[k - 1]
          PROVE  step[k][t] \in I[k]
      <3>1. t.rows = db.rows \cup {line \in {lines[j] : j \in 1..(k - 1)} : IsRow(line)}
        BY <1>1, <2>2
      <3>2. /\ FillLine(t, lines[k]) \in Databases
            /\ FillLine(t, lines[k]).rows = t.rows \cup {x \in {lines[k]} : IsRow(x)}
        BY <1>1, FillLineKeeps
      <3>3. {lines[j] : j \in 1..k} = {lines[j] : j \in 1..(k - 1)} \cup {lines[k]}
        <4>1. 1..k = 1..(k - 1) \cup {k}
          BY <1>1
        <4> QED BY <4>1
      <3>4. FillLine(t, lines[k]).rows
              = db.rows \cup {line \in {lines[j] : j \in 1..k} : IsRow(line)}
        BY <3>1, <3>2, <3>3
      <3>5. step[k][t] = FillLine(t, lines[k])
        OBVIOUS
      <3> QED BY <3>2, <3>4, <3>5
    <2> HIDE DEF I, step
    <2> QED BY <1>1, <1>4, <1>5, <2>1, <2>2, LoopInvariant
  <1>12. g[m].rows = db.rows \cup {line \in {lines[j] : j \in 1..m} : IsRow(line)}
    BY <1>1, <1>11
  <1>13. {line \in {lines[j] : j \in 1..m} : IsRow(line)} = RowsOf(lines)
    BY <1>1 DEF RowsOf, Range
  <1> QED BY <1>2, <1>10, <1>11, <1>12, <1>13

\* The loop over the files.
LEMMA FillDBKeeps ==
    ASSUME NEW files \in Seq(Seq(FilterLines))
    PROVE  /\ FillDB(files) \in Databases
           /\ FillDB(files).rows = UNION {RowsOf(files[i]) : i \in DOMAIN files}
  <1> DEFINE m == Len(files)
             step == [k \in 1..m |-> [t \in Databases |-> FillFile(t, files[k])]]
             Body(g, k) == IF k = 0 THEN NoRows ELSE FillFile(g[k - 1], files[k])
             after == CHOOSE g : g = [k \in 0..m |-> Body(g, k)]
             I == [k \in 0..m |-> {t \in Databases : t.rows = UNION {RowsOf(files[i]) : i \in 1..k}}]
  <1>1. m \in Nat /\ DOMAIN files = 1..m /\ \A k \in 1..m : files[k] \in Seq(FilterLines)
    BY ElementOfSeq, LenProperties
  <1>2. FillDB(files) = after[m]
    BY DEF FillDB
  <1> HIDE DEF m
  <1>3. ASSUME NEW k \in 1..m, NEW t \in Databases PROVE FillFile(t, files[k]) \in Databases
    BY <1>1, FillFileKeeps
  <1>4. step \in Turns(m, Databases)
    BY <1>3 DEF Turns
  <1>5. NoRows \in Databases
    <2>1. DOMAIN NoRows.data = {}
      BY DEF NoRows
    <2>2. NoRows.data \in [{} -> Lists]
      BY <2>1 DEF NoRows
    <2> QED BY <2>1, <2>2 DEF NoRows, Databases
  <1>6. PICK g : g \in Results(m, Databases, NoRows, step)
    <2> HIDE DEF step
    <2> QED BY <1>1, <1>4, <1>5, LoopHasResult
  <1>7. g \in [0..m -> Databases] /\ g[0] = NoRows /\ \A k \in 1..m : g[k] = step[k][g[k - 1]]
    BY <1>6 DEF Results
  <1>8. ASSUME NEW k \in 1..m PROVE g[k] = FillFile(g[k - 1], files[k])
    <2>1. g[k - 1] \in Databases
       BY <1>1, <1>7
    <2> QED BY <1>7, <2>1
  <1>9. g = [k \in 0..m |-> Body(g, k)]
    BY <1>1, <1>7, <1>8
  <1>10. after = [k \in 0..m |-> Body(after, k)]
    <2> HIDE DEF Body
    <2> QED BY <1>9
  <1> HIDE DEF after
  <1>11. after[m] = g[m]
    <2>1. after[0] = g[0]
      BY <1>1, <1>7, <1>10
    <2>2. ASSUME NEW k \in 1..m, after[k - 1] = g[k - 1] PROVE after[k] = g[k]
      <3>1. after[k] = FillFile(after[k - 1], files[k])
        BY <1>1, <1>10
      <3> QED BY <1>8, <2>2, <3>1
    <2> QED BY <1>1, <2>1, <2>2, LoopsAgree
  <1>12. g[m] \in I[m] /\ g[m] \in Databases
    <2>1. NoRows \in I[0]
      <3>1. NoRows.rows = {}
        BY DEF NoRows
      <3> QED BY <1>1, <1>5, <3>1
    <2>2. ASSUME NEW k \in 1..m, NEW t \in Databases, t \in I[k - 1]
          PROVE  step[k][t] \in I[k]
      <3>1. t.rows = UNION {RowsOf(files[i]) : i \in 1..(k - 1)}
        BY <1>1, <2>2
      <3>2. /\ FillFile(t, files[k]) \in Databases
            /\ FillFile(t, files[k]).rows = t.rows \cup RowsOf(files[k])
        BY <1>1, FillFileKeeps
      <3>3. 1..k = 1..(k - 1) \cup {k}
        BY <1>1
      <3>4. FillFile(t, files[k]).rows = UNION {RowsOf(files[i]) : i \in 1..k}
        BY <3>1, <3>2, <3>3
      <3>5. step[k][t] = FillFile(t, files[k])
        OBVIOUS
      <3>6. I[k] = {u \in Databases : u.rows = UNION {RowsOf(files[i]) : i \in 1..k}}
        BY <1>1
      <3> HIDE DEF I, step
      <3> QED BY <3>2, <3>4, <3>5, <3>6
    <2> HIDE DEF I, step
    <2> QED BY <1>1, <1>4, <1>5, <1>6, <2>1, <2>2, LoopInvariant
  <1> QED BY <1>1, <1>2, <1>11, <1>12

(* The service answers as the rows of its files say.                       *)
LEMMA FilterMeans ==
    ASSUME filterFiles \in Seq(Seq(FilterLines)), filter = FillDB(filterFiles)
    PROVE  /\ Allowed \in SUBSET (ROCs \X Banks)
           /\ DOMAIN filter.data \subseteq ROCs
           /\ \A roc : ~IsROCAllowed(filter, roc) =>
                 \A tag : ~PassesFilter(Allowed, roc, tag)
           /\ \A roc, tag : IsBankAllowed(filter, roc, tag) <=> PassesFilter(Allowed, roc, tag)
  <1>1. filter \in Databases /\ filter.rows = FilterRows
    BY FillDBKeeps DEF FilterRows
  <1>2. /\ filter.rows \in SUBSET FilterRow
        /\ DOMAIN filter.data \in SUBSET ROCs
        /\ DOMAIN filter.data = {row.roc : row \in filter.rows}
        /\ \A roc \in DOMAIN filter.data :
              Range(filter.data[roc].banks)
                = {row.bank : row \in {x \in filter.rows : x.roc = roc}}
    BY <1>1 DEF Databases
  <1>3. Allowed = {<<row.roc, row.bank>> : row \in filter.rows}
    BY <1>1 DEF Allowed
  <1>4. Allowed \in SUBSET (ROCs \X Banks)
    BY <1>2, <1>3 DEF FilterRow
  <1>5. Allowed = {} <=> DOMAIN filter.data = {}
    <2>1. Allowed = {} <=> filter.rows = {}
      BY <1>3
    <2>2. DOMAIN filter.data = {} <=> filter.rows = {}
      <3>1. DOMAIN filter.data = {row.roc : row \in filter.rows}
        BY <1>2
      <3> QED BY <3>1
    <2> QED BY <2>1, <2>2
  <1>6. ASSUME NEW roc, NEW tag
        PROVE  <<roc, tag>> \in Allowed <=>
                 roc \in DOMAIN filter.data /\ tag \in Range(filter.data[roc].banks)
    <2>1. ASSUME <<roc, tag>> \in Allowed
          PROVE  roc \in DOMAIN filter.data /\ tag \in Range(filter.data[roc].banks)
      <3>1. PICK row \in filter.rows : row.roc = roc /\ row.bank = tag
        BY <1>3, <2>1
      <3>2. roc \in DOMAIN filter.data
        BY <1>2, <3>1
      <3>3. Range(filter.data[roc].banks) = {x.bank : x \in {y \in filter.rows : y.roc = roc}}
        BY <1>2, <3>2
      <3>4. tag \in {x.bank : x \in {y \in filter.rows : y.roc = roc}}
        BY <3>1
      <3> QED BY <3>2, <3>3, <3>4
    <2>2. ASSUME roc \in DOMAIN filter.data, tag \in Range(filter.data[roc].banks)
          PROVE  <<roc, tag>> \in Allowed
      <3>1. tag \in {row.bank : row \in {x \in filter.rows : x.roc = roc}}
        BY <1>2, <2>2
      <3>2. PICK row \in filter.rows : row.roc = roc /\ row.bank = tag
        BY <3>1
      <3> QED BY <1>3, <3>2
    <2> QED BY <2>1, <2>2
  <1>7. ASSUME NEW roc, NEW tag
        PROVE  IsBankAllowed(filter, roc, tag) <=> PassesFilter(Allowed, roc, tag)
    <2>1. filter.data[roc]["banks"] = filter.data[roc].banks
      OBVIOUS
    <2> QED BY <1>5, <1>6, <2>1 DEF IsBankAllowed, IsAllowed, PassesFilter
  <1>8. ASSUME NEW roc, ~IsROCAllowed(filter, roc), NEW tag
        PROVE  ~PassesFilter(Allowed, roc, tag)
    BY <1>5, <1>6, <1>8 DEF IsROCAllowed, PassesFilter
  <1> QED BY <1>2, <1>4, <1>7, <1>8

-----------------------------------------------------------------------------
(* How the registries evolve, and what that leaves true.                   *)

(* How a step may change the registries: a frozen one stays as it is.      *)
Evolves(r, rf, p, pf, r2, rf2, p2, pf2) ==
    /\ rf => rf2 /\ r2 = r
    /\ pf => pf2 /\ p2 = p

(* What has been made of the banks so far stays right.                     *)
LEMMA ProgressStable ==
    ASSUME NEW e, NEW a, NEW evs, NEW f, NEW r, NEW rf, NEW p, NEW pf,
           NEW r2, NEW rf2, NEW p2, NEW pf2,
           Evolves(r, rf, p, pf, r2, rf2, p2, pf2), Progress(e, a, evs, f, r, rf, p, pf)
    PROVE  Progress(e, a, evs, f, r2, rf2, p2, pf2)
  <1>1. ASSUME NEW dma, IsSettled(dma, r, rf, p, pf) PROVE IsSettled(dma, r2, rf2, p2, pf2)
    BY <1>1 DEF IsSettled, Evolves
  <1>2. HitsBefore(e, f, r, a) = HitsBefore(e, f, r2, a)
    <2>1. CASE rf
      BY <2>1 DEF Evolves
    <2>2. CASE ~rf
      <3>1. \A i \in DOMAIN e.banks : \A j \in DOMAIN e.banks[i].dmas :
               ~(Past(i, j, a) /\ Admits(e, f, i, j))
        BY <2>2 DEF Progress, IsSettled
      <3>2. ASSUME NEW q, NEW hit \in Hits(e, f, q) PROVE ~Past(hit[1], hit[2], a)
        BY <3>1, HitsByPosition
      <3> QED BY <3>2 DEF HitsBefore
    <2> QED BY <2>1, <2>2
  <1> QED BY <1>1, <1>2 DEF Progress

(* A block that cannot be delivered never can.                             *)
LEMMA HopelessStable ==
    ASSUME NEW e, NEW f, NEW r, NEW rf, NEW p, NEW pf, NEW r2, NEW rf2, NEW p2, NEW pf2,
           Evolves(r, rf, p, pf, r2, rf2, p2, pf2), IsHopeless(e, f, r, rf, p, pf)
    PROVE  IsHopeless(e, f, r2, rf2, p2, pf2)
  <1>1. CASE ~IsConsistent(e)
    BY <1>1 DEF IsHopeless
  <1>2. CASE \E i \in DOMAIN e.banks : \E j \in DOMAIN e.banks[i].dmas :
                LET dma == e.banks[i].dmas[j]
                IN  /\ Admits(e, f, i, j) /\ rf /\ r[dma.tag] # NoModule
                    /\ ~dma.body.sound \/ (pf /\ p[r[dma.tag]] = NullParser)
    BY <1>2 DEF IsHopeless, Evolves
  <1>3. CASE /\ Hits(e, f, r) = {}
             /\ \A i \in DOMAIN e.banks : \A j \in DOMAIN e.banks[i].dmas : Admits(e, f, i, j) => rf
    <2>1. CASE rf
      BY <1>3, <2>1 DEF IsHopeless, Evolves
    <2>2. CASE ~rf
      <3>1. Hits(e, f, r2) = {}
        BY <1>3, <2>2, HitsByPosition
      <3> QED BY <1>3, <2>2, <3>1 DEF IsHopeless
    <2> QED BY <2>1, <2>2
  <1> QED BY <1>1, <1>2, <1>3 DEF IsHopeless

(* A worker's block is in the state it was in, whatever the others do.     *)
LEMMA WorkingStable ==
    ASSUME NEW c, NEW e, NEW a, NEW m, NEW evs, NEW f, NEW r, NEW rf, NEW p, NEW pf,
           NEW r2, NEW rf2, NEW p2, NEW pf2,
           Evolves(r, rf, p, pf, r2, rf2, p2, pf2), Working(c, e, a, m, evs, f, r, rf, p, pf)
    PROVE  Working(c, e, a, m, evs, f, r2, rf2, p2, pf2)
  <1>1. IsHopeless(e, f, r, rf, p, pf) => IsHopeless(e, f, r2, rf2, p2, pf2)
    BY HopelessStable
  <1>2. Progress(e, a, evs, f, r, rf, p, pf) => Progress(e, a, evs, f, r2, rf2, p2, pf2)
    BY ProgressStable
  <1> QED BY <1>1, <1>2 DEF Working, Evolves

-----------------------------------------------------------------------------
(* The steps of a worker, as what they make of Working.                    *)

(* The loop variables may advance past banks that are settled and have no  *)
(* hits to deliver.                                                        *)
LEMMA PassBanks ==
    ASSUME NEW e, NEW a, NEW b, NEW evs, NEW f, NEW r, NEW rf, NEW p, NEW pf,
           Progress(e, a, evs, f, r, rf, p, pf),
           \A i \in DOMAIN e.banks : \A j \in DOMAIN e.banks[i].dmas :
              Admits(e, f, i, j) =>
                 \/ Past(i, j, a) <=> Past(i, j, b)
                 \/ r[e.banks[i].dmas[j].tag] = NoModule /\ rf
    PROVE  Progress(e, b, evs, f, r, rf, p, pf)
  <1>1. HitsBefore(e, f, r, a) = HitsBefore(e, f, r, b)
    BY SameHitsBefore
  <1>2. ASSUME NEW i \in DOMAIN e.banks, NEW j \in DOMAIN e.banks[i].dmas,
               Past(i, j, b), Admits(e, f, i, j)
        PROVE  IsSettled(e.banks[i].dmas[j], r, rf, p, pf)
    <2>1. CASE Past(i, j, a)
      BY <1>2, <2>1 DEF Progress
    <2>2. CASE ~Past(i, j, a)
      BY <1>2, <2>2 DEF IsSettled
    <2> QED BY <2>1, <2>2
  <1> QED BY <1>1, <1>2 DEF Progress

(* Nothing has been made of a block yet.                                   *)
LEMMA StartProgress ==
    ASSUME NEW e \in EvioEvents, NEW f, NEW r, NEW rf, NEW p, NEW pf
    PROVE  Progress(e, <<1, 0>>, << >>, f, r, rf, p, pf)
  <1>1. ASSUME NEW i \in DOMAIN e.banks, NEW j \in DOMAIN e.banks[i].dmas
        PROVE  ~Past(i, j, <<1, 0>>)
    <2>1. i \in Nat \ {0} /\ j \in Nat \ {0}
      BY EventTypes
    <2> QED BY <2>1 DEF Past
  <1>2. HitsBefore(e, f, r, <<1, 0>>) = {}
    BY <1>1, HitsByPosition DEF HitsBefore
  <1>3. Gathers(<< >>, e, {})
    BY DEF Gathers
  <1> QED BY <1>1, <1>2, <1>3 DEF Progress

(* A worker that takes a block starts before the first bank, or throws on  *)
(* a trigger bank that does not agree.                                     *)
LEMMA StartWorking ==
    ASSUME NEW e \in EvioEvents, NEW m, NEW f, NEW r, NEW rf, NEW p, NEW pf
    PROVE  /\ TriggerAgrees(e) => Working("roc", e, <<1, 0>>, m, << >>, f, r, rf, p, pf)
           /\ ~TriggerAgrees(e) => Working("thrown", e, <<1, 0>>, m, << >>, f, r, rf, p, pf)
  <1>1. Progress(e, <<1, 0>>, << >>, f, r, rf, p, pf)
    BY StartProgress
  <1>2. Len(e.banks) \in Nat
    BY EventTypes, LenProperties
  <1>3. \A i \in DOMAIN e.banks : ~(i < 1)
    BY EventTypes
  <1>4. ASSUME ~TriggerAgrees(e) PROVE IsHopeless(e, f, r, rf, p, pf)
    BY <1>4 DEF IsHopeless, IsConsistent
  <1> QED BY <1>1, <1>2, <1>3, <1>4 DEF Working, InLoops


(* CheckROC.                                                               *)
LEMMA CheckROCWorking ==
    ASSUME NEW e \in EvioEvents, NEW a \in Nat \X Nat, NEW m, NEW evs,
           NEW f, NEW r, NEW rf, NEW p, NEW pf,
           Working("roc", e, a, m, evs, f, r, rf, p, pf), a[1] <= Len(e.banks)
    PROVE  /\ e.segments[a[1]] # e.banks[a[1]].roc =>
                 Working("thrown", e, a, m, evs, f, r, rf, p, pf)
           /\ e.segments[a[1]] = e.banks[a[1]].roc =>
                 Working("dma", e, <<a[1], a[2] + 1>>, m, evs, f, r, rf, p, pf)
           /\ /\ e.segments[a[1]] = e.banks[a[1]].roc
              /\ \A tag : ~PassesFilter(f, e.banks[a[1]].roc, tag)
              => Working("roc", e, <<a[1] + 1, 0>>, m, evs, f, r, rf, p, pf)
  <1> DEFINE x == a[1]
             dmas == e.banks[x].dmas
  <1>1. /\ TriggerAgrees(e)
        /\ Progress(e, a, evs, f, r, rf, p, pf)
        /\ \A i \in DOMAIN e.banks : i < x => e.segments[i] = e.banks[i].roc
        /\ x \in 1..(Len(e.banks) + 1) /\ a[2] = 0
    BY DEF Working, InLoops
  <1>2. Len(e.banks) \in Nat /\ DOMAIN e.banks = 1..Len(e.banks)
    BY EventTypes, LenProperties
  <1>3. x \in DOMAIN e.banks /\ x \in Nat
    BY <1>1, <1>2
  <1>4. Len(dmas) \in Nat
    BY <1>3, EventTypes, LenProperties
  <1>5. ASSUME NEW i \in DOMAIN e.banks, NEW j \in DOMAIN e.banks[i].dmas
        PROVE  i \in Nat \ {0} /\ j \in Nat \ {0}
    BY EventTypes
  <1>6. ASSUME e.segments[x] # e.banks[x].roc
        PROVE  Working("thrown", e, a, m, evs, f, r, rf, p, pf)
    BY <1>3, <1>6 DEF Working, IsHopeless, IsConsistent, InLoops
  <1>7. ASSUME e.segments[x] = e.banks[x].roc
        PROVE  Working("dma", e, <<x, a[2] + 1>>, m, evs, f, r, rf, p, pf)
    <2>1. Progress(e, <<x, 1>>, evs, f, r, rf, p, pf)
      <3>1. ASSUME NEW i \in DOMAIN e.banks, NEW j \in DOMAIN e.banks[i].dmas
            PROVE  Past(i, j, a) <=> Past(i, j, <<x, 1>>)
        BY <1>1, <1>3, <1>5 DEF Past
      <3> QED BY <1>1, <3>1, PassBanks
    <2>2. \A i \in DOMAIN e.banks : i < x \/ i = x => e.segments[i] = e.banks[i].roc
      BY <1>1, <1>7
    <2>3. a[2] + 1 = 1 /\ 1 \in 1..(Len(dmas) + 1)
      BY <1>1, <1>4
    <2> QED BY <1>1, <1>3, <2>1, <2>2, <2>3 DEF Working, InLoops
  <1>8. ASSUME e.segments[x] = e.banks[x].roc,
               \A tag : ~PassesFilter(f, e.banks[x].roc, tag)
        PROVE  Working("roc", e, <<x + 1, 0>>, m, evs, f, r, rf, p, pf)
    <2>1. Progress(e, <<x + 1, 0>>, evs, f, r, rf, p, pf)
      <3>1. ASSUME NEW i \in DOMAIN e.banks, NEW j \in DOMAIN e.banks[i].dmas, Admits(e, f, i, j)
            PROVE  Past(i, j, a) <=> Past(i, j, <<x + 1, 0>>)
        <4>1. i # x
          BY <1>8, <3>1 DEF Admits
        <4> QED BY <1>1, <1>3, <1>5, <4>1 DEF Past
      <3> QED BY <1>1, <3>1, PassBanks
    <2>2. \A i \in DOMAIN e.banks : i < x + 1 => e.segments[i] = e.banks[i].roc
      BY <1>1, <1>2, <1>8
    <2>3. x + 1 \in 1..(Len(e.banks) + 1)
      BY <1>2, <1>3
    <2> QED BY <1>1, <2>1, <2>2, <2>3 DEF Working, InLoops
  <1> QED BY <1>6, <1>7, <1>8

(* LeaveROC.                                                               *)
LEMMA LeaveROCWorking ==
    ASSUME NEW e \in EvioEvents, NEW a \in Nat \X Nat, NEW m, NEW evs,
           NEW f, NEW r, NEW rf, NEW p, NEW pf,
           Working("dma", e, a, m, evs, f, r, rf, p, pf), ~(a[2] <= Len(e.banks[a[1]].dmas))
    PROVE  Working("roc", e, <<a[1] + 1, 0>>, m, evs, f, r, rf, p, pf)
  <1> DEFINE x == a[1]
             n == Len(e.banks[x].dmas)
  <1>1. /\ TriggerAgrees(e)
        /\ Progress(e, a, evs, f, r, rf, p, pf)
        /\ \A i \in DOMAIN e.banks : i < x \/ i = x => e.segments[i] = e.banks[i].roc
        /\ x \in DOMAIN e.banks
        /\ a[2] \in 1..(n + 1)
    BY DEF Working, InLoops
  <1>2. Len(e.banks) \in Nat /\ DOMAIN e.banks = 1..Len(e.banks)
    BY EventTypes, LenProperties
  <1>3. n \in Nat /\ DOMAIN e.banks[x].dmas = 1..n
    BY <1>1, EventTypes, LenProperties
  <1>4. ASSUME NEW i \in DOMAIN e.banks, NEW j \in DOMAIN e.banks[i].dmas
        PROVE  Past(i, j, a) <=> Past(i, j, <<x + 1, 0>>)
    <2>1. i \in Nat \ {0} /\ j \in Nat \ {0} /\ x \in Nat
      BY <1>1, EventTypes
    <2>2. i = x => j <= n
      BY <1>3
    <2> HIDE DEF n
    <2> QED BY <1>1, <1>3, <2>1, <2>2 DEF Past
  <1>5. Progress(e, <<x + 1, 0>>, evs, f, r, rf, p, pf)
    BY <1>1, <1>4, PassBanks
  <1>6. \A i \in DOMAIN e.banks : i < x + 1 => e.segments[i] = e.banks[i].roc
    BY <1>1, <1>2
  <1>7. x + 1 \in 1..(Len(e.banks) + 1)
    BY <1>1, <1>2
  <1> QED BY <1>1, <1>5, <1>6, <1>7 DEF Working, InLoops

(* The loop variables at a bank of the inner loop, and after it.           *)
LEMMA NextBank ==
    ASSUME NEW e \in EvioEvents, NEW a \in Nat \X Nat,
           a[1] \in DOMAIN e.banks, a[2] \in DOMAIN e.banks[a[1]].dmas
    PROVE  /\ a[1] \in Nat /\ a[2] \in Nat /\ a = <<a[1], a[2]>>
           /\ a[2] + 1 \in 1..(Len(e.banks[a[1]].dmas) + 1)
           /\ \A i \in DOMAIN e.banks : \A j \in DOMAIN e.banks[i].dmas :
                 i # a[1] \/ j # a[2] => (Past(i, j, a) <=> Past(i, j, <<a[1], a[2] + 1>>))
           /\ ~Past(a[1], a[2], a)
  <1> DEFINE n == Len(e.banks[a[1]].dmas)
  <1>1. n \in Nat /\ DOMAIN e.banks[a[1]].dmas = 1..n
    BY EventTypes, LenProperties
  <1>2. ASSUME NEW i \in DOMAIN e.banks, NEW j \in DOMAIN e.banks[i].dmas
        PROVE  i \in Nat \ {0} /\ j \in Nat \ {0}
    BY EventTypes
  <1> HIDE DEF n
  <1>3. a[2] \in 1..n
    BY <1>1
  <1>4. a[2] + 1 \in 1..(n + 1)
    BY <1>1, <1>3
  <1>5. ASSUME NEW i \in DOMAIN e.banks, NEW j \in DOMAIN e.banks[i].dmas, i # a[1] \/ j # a[2]
        PROVE  Past(i, j, a) <=> Past(i, j, <<a[1], a[2] + 1>>)
    BY <1>2, <1>5 DEF Past
  <1>6. ~Past(a[1], a[2], a)
    BY DEF Past
  <1> QED BY <1>4, <1>5, <1>6 DEF n

(* SkipBank.                                                               *)
LEMMA SkipBankWorking ==
    ASSUME NEW e \in EvioEvents, NEW a \in Nat \X Nat, NEW m, NEW evs,
           NEW f, NEW r, NEW rf, NEW p, NEW pf,
           Working("dma", e, a, m, evs, f, r, rf, p, pf), a[2] <= Len(e.banks[a[1]].dmas),
           ~Admits(e, f, a[1], a[2])
    PROVE  Working("dma", e, <<a[1], a[2] + 1>>, m, evs, f, r, rf, p, pf)
  <1>1. /\ TriggerAgrees(e)
        /\ Progress(e, a, evs, f, r, rf, p, pf)
        /\ \A i \in DOMAIN e.banks : i < a[1] \/ i = a[1] => e.segments[i] = e.banks[i].roc
        /\ a[1] \in DOMAIN e.banks
        /\ a[2] \in 1..(Len(e.banks[a[1]].dmas) + 1)
    BY DEF Working, InLoops
  <1>2. a[2] \in DOMAIN e.banks[a[1]].dmas
    <2>1. /\ Len(e.banks[a[1]].dmas) \in Nat
          /\ DOMAIN e.banks[a[1]].dmas = 1..Len(e.banks[a[1]].dmas)
      BY <1>1, EventTypes, LenProperties
    <2> QED BY <1>1, <2>1
  <1>3. Progress(e, <<a[1], a[2] + 1>>, evs, f, r, rf, p, pf)
    BY <1>1, <1>2, NextBank, PassBanks
  <1> QED BY <1>1, <1>2, <1>3, NextBank DEF Working, InLoops

(* ResolveBank, once the map is frozen.                                    *)
LEMMA ResolveBankWorking ==
    ASSUME NEW e \in EvioEvents, NEW a \in Nat \X Nat, NEW m, NEW evs,
           NEW f, NEW r, NEW p, NEW pf,
           Working("dma", e, a, m, evs, f, r, TRUE, p, pf), a[2] <= Len(e.banks[a[1]].dmas),
           Admits(e, f, a[1], a[2]), NEW tag, tag = e.banks[a[1]].dmas[a[2]].tag
    PROVE  /\ r[tag] = NoModule =>
                 Working("dma", e, <<a[1], a[2] + 1>>, m, evs, f, r, TRUE, p, pf)
           /\ r[tag] # NoModule => Working("parser", e, a, r[tag], evs, f, r, TRUE, p, pf)
  <1>1. /\ TriggerAgrees(e)
        /\ Progress(e, a, evs, f, r, TRUE, p, pf)
        /\ \A i \in DOMAIN e.banks : i < a[1] \/ i = a[1] => e.segments[i] = e.banks[i].roc
        /\ a[1] \in DOMAIN e.banks
        /\ a[2] \in 1..(Len(e.banks[a[1]].dmas) + 1)
    BY DEF Working, InLoops
  <1>2. a[2] \in DOMAIN e.banks[a[1]].dmas
    <2>1. /\ Len(e.banks[a[1]].dmas) \in Nat
          /\ DOMAIN e.banks[a[1]].dmas = 1..Len(e.banks[a[1]].dmas)
      BY <1>1, EventTypes, LenProperties
    <2> QED BY <1>1, <2>1
  <1>3. ASSUME r[tag] = NoModule
        PROVE  Working("dma", e, <<a[1], a[2] + 1>>, m, evs, f, r, TRUE, p, pf)
    <2>1. Progress(e, <<a[1], a[2] + 1>>, evs, f, r, TRUE, p, pf)
      BY <1>1, <1>2, <1>3, NextBank, PassBanks
    <2> QED BY <1>1, <1>2, <2>1, NextBank DEF Working, InLoops
  <1>4. ASSUME r[tag] # NoModule
        PROVE  Working("parser", e, a, r[tag], evs, f, r, TRUE, p, pf)
    BY <1>1, <1>2, <1>4 DEF Working, InLoops
  <1> QED BY <1>3, <1>4

(* FindParser, once its map is frozen too.                                 *)
LEMMA FindParserWorking ==
    ASSUME NEW e, NEW a, NEW m, NEW evs, NEW f, NEW r, NEW rf, NEW p,
           Working("parser", e, a, m, evs, f, r, rf, p, TRUE)
    PROVE  /\ p[m] = NullParser => Working("thrown", e, a, m, evs, f, r, rf, p, TRUE)
           /\ p[m] # NullParser => Working("bind", e, a, p[m], evs, f, r, rf, p, TRUE)
  <1>1. ASSUME p[m] = NullParser PROVE IsHopeless(e, f, r, rf, p, TRUE)
    BY <1>1 DEF Working, InLoops, IsHopeless
  <1>2. ASSUME p[m] # NullParser PROVE Working("bind", e, a, p[m], evs, f, r, rf, p, TRUE)
    BY <1>2 DEF Working, InLoops
  <1> QED BY <1>1, <1>2 DEF Working, InLoops

(* BindLogger.                                                             *)
LEMMA BindLoggerWorking ==
    ASSUME NEW e, NEW a, NEW m, NEW evs, NEW f, NEW r, NEW rf, NEW p, NEW pf,
           Working("bind", e, a, m, evs, f, r, rf, p, pf)
    PROVE  Working("decode", e, a, m, evs, f, r, rf, p, pf)
  BY DEF Working, InLoops

(* DecodeBank.                                                             *)
LEMMA DecodeBankWorking ==
    ASSUME NEW e \in EvioEvents, NEW a \in Nat \X Nat, NEW m, NEW n, NEW evs \in Seq(PhysicsEvents),
           NEW f, NEW r, NEW rf, NEW p, NEW pf,
           Working("decode", e, a, m, evs, f, r, rf, p, pf),
           NEW body, body = e.banks[a[1]].dmas[a[2]].body,
           NEW more, more = EventsOf(e, a[1], a[2])
    PROVE  /\ ~body.sound => Working("thrown", e, a, m, evs, f, r, rf, p, pf)
           /\ body.sound =>
                 /\ evs \o more \in Seq(PhysicsEvents)
                 /\ Working("dma", e, <<a[1], a[2] + 1>>, n, evs \o more, f, r, rf, p, pf)
  <1> DEFINE x == a[1]
             y == a[2]
             dma == e.banks[x].dmas[y]
  <1>1. /\ TriggerAgrees(e)
        /\ Progress(e, a, evs, f, r, rf, p, pf)
        /\ \A i \in DOMAIN e.banks : i < x \/ i = x => e.segments[i] = e.banks[i].roc
        /\ x \in DOMAIN e.banks /\ y \in DOMAIN e.banks[x].dmas
        /\ Admits(e, f, x, y) /\ rf /\ r[dma.tag] # NoModule
        /\ pf /\ p[r[dma.tag]] # NullParser
    BY DEF Working, InLoops
  <1>2. ASSUME ~body.sound PROVE Working("thrown", e, a, m, evs, f, r, rf, p, pf)
    BY <1>1, <1>2 DEF Working, InLoops, IsHopeless
  <1>3. ASSUME body.sound
        PROVE  /\ evs \o more \in Seq(PhysicsEvents)
               /\ Working("dma", e, <<x, y + 1>>, n, evs \o more, f, r, rf, p, pf)
    <2>1. a = <<x, y>> /\ y + 1 \in 1..(Len(e.banks[x].dmas) + 1)
      BY <1>1, NextBank
    <2>2. Gathers(evs, e, HitsBefore(e, f, r, <<x, y>>))
      BY <1>1, <2>1 DEF Progress
    <2>3. /\ evs \o more \in Seq(PhysicsEvents)
          /\ Gathers(evs \o more, e, HitsBefore(e, f, r, <<x, y + 1>>))
      BY <1>1, <2>2, GathersMore
    <2>4. ASSUME NEW i \in DOMAIN e.banks, NEW j \in DOMAIN e.banks[i].dmas,
                 Past(i, j, <<x, y + 1>>), Admits(e, f, i, j)
          PROVE  IsSettled(e.banks[i].dmas[j], r, rf, p, pf)
      <3>1. CASE i = x /\ j = y
        BY <1>1, <1>3, <3>1 DEF IsSettled
      <3>2. CASE i # x \/ j # y
        <4>1. Past(i, j, a)
          BY <1>1, <2>4, <3>2, NextBank
        <4> QED BY <1>1, <2>4, <4>1 DEF Progress
      <3> QED BY <3>1, <3>2
    <2>5. Progress(e, <<x, y + 1>>, evs \o more, f, r, rf, p, pf)
      BY <2>3, <2>4 DEF Progress
    <2> QED BY <1>1, <2>1, <2>3, <2>5 DEF Working, InLoops
  <1> QED BY <1>2, <1>3

(* FinishBlock.                                                            *)
LEMMA FinishBlockWorking ==
    ASSUME NEW e \in EvioEvents, NEW a \in Nat \X Nat, NEW m, NEW evs \in Seq(PhysicsEvents),
           NEW f, NEW r, NEW rf, NEW p, NEW pf,
           Working("roc", e, a, m, evs, f, r, rf, p, pf), ~(a[1] <= Len(e.banks))
    PROVE  /\ evs = << >> => Working("thrown", e, a, m, evs, f, r, rf, p, pf)
           /\ evs # << >> =>
                 /\ IsDecoded(e, Consolidated(evs), f, r, p)
                 /\ Consolidated(evs) \in
                       UNION {[N -> Seq(Nat \X Nat \X Nat)] : N \in SUBSET EventNumbers}
                 /\ rf /\ pf
  <1>1. /\ TriggerAgrees(e)
        /\ Progress(e, a, evs, f, r, rf, p, pf)
        /\ \A i \in DOMAIN e.banks : i < a[1] => e.segments[i] = e.banks[i].roc
        /\ a[1] \in 1..(Len(e.banks) + 1)
    BY DEF Working, InLoops
  <1>2. Len(e.banks) \in Nat /\ DOMAIN e.banks = 1..Len(e.banks)
    BY EventTypes, LenProperties
  <1>3. \A i \in DOMAIN e.banks : i < a[1]
    BY <1>1, <1>2
  <1>4. \A i \in DOMAIN e.banks : \A j \in DOMAIN e.banks[i].dmas : Past(i, j, a)
    BY <1>3 DEF Past
  <1>5. IsConsistent(e)
    BY <1>1, <1>3 DEF IsConsistent
  <1>6. HitsBefore(e, f, r, a) = Hits(e, f, r)
    BY <1>4, HitsByPosition DEF HitsBefore
  <1>7. Gathers(evs, e, Hits(e, f, r))
    BY <1>1, <1>6 DEF Progress
  <1>8. \A i \in DOMAIN e.banks : \A j \in DOMAIN e.banks[i].dmas :
           Admits(e, f, i, j) => IsSettled(e.banks[i].dmas[j], r, rf, p, pf)
    BY <1>1, <1>4 DEF Progress
  <1>9. ASSUME evs = << >> PROVE Working("thrown", e, a, m, evs, f, r, rf, p, pf)
    <2>1. Hits(e, f, r) = {}
      BY <1>7, <1>9 DEF Gathers
    <2> QED BY <1>8, <2>1 DEF Working, InLoops, IsHopeless, IsSettled
  <1>10. ASSUME evs # << >>
         PROVE  /\ IsDecoded(e, Consolidated(evs), f, r, p)
                /\ Consolidated(evs) \in
                      UNION {[N -> Seq(Nat \X Nat \X Nat)] : N \in SUBSET EventNumbers}
                /\ rf /\ pf
    <2>1. Hits(e, f, r) # {}
      <3>1. 1 \in DOMAIN evs
        BY <1>10, EmptySeq, LenProperties
      <3> QED BY <1>7, <3>1 DEF Gathers
    <2>2. PICK hit \in Hits(e, f, r) : TRUE
      BY <2>1
    <2>3. \E i \in DOMAIN e.banks : \E j \in DOMAIN e.banks[i].dmas :
             Admits(e, f, i, j) /\ r[e.banks[i].dmas[j].tag] # NoModule
      BY <2>2, HitsByPosition
    <2>4. rf /\ pf
      BY <1>8, <2>3 DEF IsSettled
    <2>5. IsParsable(e, f, r, p)
      <3>1. ASSUME NEW pair \in AdmittedBanks(e, f, r)
            PROVE  /\ p[r[e.banks[pair[1]].dmas[pair[2]].tag]] # NullParser
                   /\ e.banks[pair[1]].dmas[pair[2]].body.sound
        <4>1. \E i \in DOMAIN e.banks : \E j \in DOMAIN e.banks[i].dmas :
                 /\ pair = <<i, j>>
                 /\ Admits(e, f, i, j)
                 /\ r[e.banks[i].dmas[j].tag] # NoModule
          BY DEF AdmittedBanks, Admits
        <4> QED BY SMTT(30), <1>8, <4>1 DEF IsSettled
      <3> QED BY <3>1 DEF IsParsable
    <2>6. IsAcceptable(e, f, r, p)
      BY <1>5, <2>1, <2>5 DEF IsAcceptable
    <2>7. /\ DOMAIN Consolidated(evs) = Numbers(e, f, r)
          /\ Consolidated(evs) \in UNION {[N -> Seq(Nat \X Nat \X Nat)] : N \in SUBSET EventNumbers}
          /\ \A n \in Numbers(e, f, r) : Consolidated(evs)[n] \in Listings(HitsOf(e, f, r, n))
      BY <1>7, ConsolidatedLists
    <2>8. IsDecoded(e, Consolidated(evs), f, r, p)
      BY <2>6, <2>7 DEF IsDecoded
    <2> QED BY <2>4, <2>7, <2>8
  <1> QED BY <1>9, <1>10

(* A block that cannot be delivered is unacceptable as things stand.       *)
LEMMA HopelessIsUnacceptable ==
    ASSUME NEW e, NEW f, NEW r, NEW rf, NEW p, NEW pf, IsHopeless(e, f, r, rf, p, pf)
    PROVE  ~IsAcceptable(e, f, r, p)
  <1>1. ASSUME NEW i \in DOMAIN e.banks, NEW j \in DOMAIN e.banks[i].dmas,
               Admits(e, f, i, j), r[e.banks[i].dmas[j].tag] # NoModule
        PROVE  <<i, j>> \in AdmittedBanks(e, f, r)
    BY SMTT(30), <1>1 DEF AdmittedBanks, Admits
  <1>2. ASSUME IsAcceptable(e, f, r, p),
               NEW i \in DOMAIN e.banks, NEW j \in DOMAIN e.banks[i].dmas,
               Admits(e, f, i, j), r[e.banks[i].dmas[j].tag] # NoModule
        PROVE  /\ p[r[e.banks[i].dmas[j].tag]] # NullParser
               /\ e.banks[i].dmas[j].body.sound
    BY <1>1, <1>2 DEF IsAcceptable, IsParsable
  <1> QED BY <1>2 DEF IsHopeless, IsAcceptable

-----------------------------------------------------------------------------
(* Steps that move no block.                                               *)

(* The registries evolve in this step.                                     *)
RegistriesEvolve ==
    Evolves(routes, routesFrozen, parsers, parsersFrozen,
            routes', routesFrozen', parsers', parsersFrozen')

(* The events of the files are events.                                     *)
LEMMA FileEvents ==
    ASSUME SettingsOK, NEW s \in Sources
    PROVE  /\ file[s] \in Seq(EvioEvents)
           /\ Len(file[s]) \in Nat /\ DOMAIN file[s] = 1..Len(file[s])
           /\ \A i \in 1..Len(file[s]) : file[s][i] \in EvioEvents
           /\ read[s] \in Nat /\ read[s] <= Len(file[s]) /\ run[s] \in Nat
  <1>1. file[s] \in Seq(EvioEvents)
    BY FilesHoldEvents DEF SettingsOK
  <1>2. read[s] \in Nat /\ read[s] <= Len(file[s]) /\ run[s] \in Nat
    BY DEF SettingsOK
  <1> QED BY <1>1, <1>2, ElementOfSeq, LenProperties

(* A block that was read is a non-empty physics event of its file.         *)
LEMMA ReadEvents ==
    ASSUME SettingsOK, NEW b, IsRead(b)
    PROVE  /\ b \in BlockEvents /\ b # None
           /\ b.src \in Sources /\ b.pos \in 1..Len(file[b.src]) /\ b.pos <= read[b.src]
           /\ EventOf(b) \in EvioEvents
           /\ PassesFilters(EventOf(b))
  <1>1. b \in BlockEvents /\ b.pos \in 1..read[b.src] /\ PassesFilters(EventOf(b))
    BY DEF IsRead
  <1>2. b.src \in Sources /\ b # None
    BY <1>1, AbsentIsAbsent DEF BlockEvents
  <1>3. b.pos \in 1..Len(file[b.src]) /\ b.pos <= read[b.src]
    BY <1>1, <1>2, FileEvents
  <1> QED BY <1>1, <1>2, <1>3, FileEvents DEF EventOf

(* A worker that does not move is none the worse for it.                   *)
LEMMA WorkerKeeps ==
    ASSUME NEW w \in Workers, WorkerOK(w), RegistriesEvolve,
           UNCHANGED <<pc[w], block[w], at[w], found[w], events[w], file, filterFiles>>
    PROVE  WorkerOK(w)'
  <1>1. Allowed' = Allowed
    BY DEF Allowed, FilterRows
  <1>2. EventOf(block[w])' = EventOf(block[w])
    BY DEF EventOf
  <1>3. CASE pc[w] = "idle"
    BY <1>3 DEF WorkerOK
  <1>4. CASE pc[w] # "idle"
    <2>1. Working(pc[w], EventOf(block[w]), at[w], found[w], events[w],
                  Allowed, routes, routesFrozen, parsers, parsersFrozen)
      BY <1>4 DEF WorkerOK
    <2>2. Working(pc[w], EventOf(block[w]), at[w], found[w], events[w],
                  Allowed, routes', routesFrozen', parsers', parsersFrozen')
      BY <2>1, WorkingStable DEF RegistriesEvolve
    <2>3. block[w] # None
      BY <1>4 DEF WorkerOK
    <2> QED BY <1>1, <1>2, <1>4, <2>2, <2>3 DEF WorkerOK
  <1> QED BY <1>3, <1>4

(* A block that does not move stays in its stage.                          *)
LEMMA StagesKeep ==
    ASSUME Stages, routes' = routes \/ children = << >>,
           UNCHANGED <<file, read, filterFiles, queue, block, decoded, parent, remaining, children>>
    PROVE  Stages'
  <1>1. Allowed' = Allowed
    BY DEF Allowed, FilterRows
  <1>2. SUFFICES ASSUME NEW s \in Sources, NEW i \in 1..Len(file[s])
                 PROVE  Stage(s, i)'
    BY DEF Stages
  <1>3. /\ Queued(s, i)' = Queued(s, i)
        /\ Worked(s, i)' = Worked(s, i)
        /\ Decoded(s, i)' = Decoded(s, i)
        /\ Unfolded(s, i)' <=> Unfolded(s, i)
        /\ ChildrenOf(s, i)' = ChildrenOf(s, i)
        /\ DeliveredNumbers(s, i)' = DeliveredNumbers(s, i)
    BY DEF Queued, Worked, Decoded, Unfolded, ChildrenOf, DeliveredNumbers, Holds
  <1>4. CASE NotPassedOn(s, i)
    BY <1>3, <1>4 DEF NotPassedOn, PassesFilters, Stage
  <1>5. CASE InQueue(s, i)
    BY <1>3, <1>5 DEF InQueue, Stage
  <1>6. CASE WithWorker(s, i)
    BY <1>3, <1>6 DEF WithWorker, Stage
  <1>7. CASE AwaitingUnfolder(s, i)
    BY <1>3, <1>7 DEF AwaitingUnfolder, Stage
  <1>8. CASE BeingUnfolded(s, i)
    BY <1>3, <1>8 DEF BeingUnfolded, Stage
  <1>9. CASE Delivered(s, i)
    <2>1. children # << >>
      BY <1>9 DEF Delivered, ChildrenOf, Range
    <2> QED BY <1>1, <1>3, <1>9, <2>1 DEF Delivered, PassesFilters, Stage
  <1> QED BY <1>4, <1>5, <1>6, <1>7, <1>8, <1>9 DEF Stages, Stage

(* What has been decoded and delivered stays right.                        *)
LEMMA OutputsKeep ==
    ASSUME RegistriesEvolve, DecodedOK, ParentOK, ChildrenOK, FrozenOnceDecoded,
           UNCHANGED <<file, read, filterFiles, decoded, parent, remaining, children>>
    PROVE  DecodedOK' /\ ParentOK' /\ ChildrenOK' /\ FrozenOnceDecoded'
  <1>1. Allowed' = Allowed
    BY DEF Allowed, FilterRows
  <1>2. decoded # {} \/ parent # None \/ children # << >> =>
           /\ routes' = routes /\ parsers' = parsers
           /\ routesFrozen' /\ parsersFrozen'
    BY DEF FrozenOnceDecoded, RegistriesEvolve, Evolves
  <1>3. DecodedOK'
    BY <1>1, <1>2 DEF DecodedOK, EventOf
  <1>4. ParentOK'
    BY <1>1, <1>2 DEF ParentOK, EventOf
  <1>5. ChildrenOK'
    <2>1. Range(children) # {} => children # << >>
      BY DEF Range
    <2> QED BY <1>1, <1>2, <2>1 DEF ChildrenOK
  <1>6. FrozenOnceDecoded'
    BY <1>2 DEF FrozenOnceDecoded
  <1> QED BY <1>3, <1>4, <1>5, <1>6

(* A step that moves no block and leaves the workers all right keeps the   *)
(* invariant.                                                              *)
LEMMA BlocksUnmoved ==
    ASSUME IInv, RegistriesEvolve, SettingsOK', WorkersTyped', WorkersOK',
           UNCHANGED <<file, read, filterFiles, queue, block, decoded, parent, remaining, children>>
    PROVE  IInv'
  <1>1. Stages'
    <2>1. routes' = routes \/ children = << >>
      BY DEF IInv, FrozenOnceDecoded, RegistriesEvolve, Evolves
    <2> QED BY <2>1, StagesKeep DEF IInv
  <1>2. DecodedOK' /\ ParentOK' /\ ChildrenOK' /\ FrozenOnceDecoded'
    BY OutputsKeep DEF IInv
  <1>3. CarriedAreRead'
    BY DEF IInv, CarriedAreRead, IsRead, PassesFilters, EventOf
  <1> QED BY <1>1, <1>2, <1>3 DEF IInv

(* A step of worker w inside the loops keeps the invariant if what it      *)
(* makes of w is as Working says.                                          *)
LEMMA WorkerMoves ==
    ASSUME IInv, NEW w \in Workers, RegistriesEvolve, SettingsOK', WorkersTyped', WorkerOK(w)',
           UNCHANGED <<file, read, filterFiles, queue, block, decoded, parent, remaining, children>>,
           \A v \in Workers \ {w} : UNCHANGED <<pc[v], at[v], found[v], events[v]>>
    PROVE  IInv'
  <1>1. ASSUME NEW v \in Workers PROVE WorkerOK(v)'
    <2>1. CASE v # w
      BY <2>1, WorkerKeeps DEF IInv, WorkersOK
    <2> QED BY <2>1
  <1>2. WorkersOK'
    BY <1>1 DEF WorkersOK
  <1> QED BY <1>2, BlocksUnmoved

(* What a worker in the loops has to go on.                                *)
LEMMA WorkerFacts ==
    ASSUME IInv, NEW w \in Workers, block[w] # None
    PROVE  /\ SettingsOK /\ WorkersTyped
           /\ pc[w] # "idle" /\ block[w].src \in Sources
           /\ EventOf(block[w]) \in EvioEvents
           /\ at[w] \in Nat \X Nat
           /\ found[w] \in Modules \cup Parsers \cup {None}
           /\ events[w] \in Seq(PhysicsEvents)
           /\ Working(pc[w], EventOf(block[w]), at[w], found[w], events[w],
                      Allowed, routes, routesFrozen, parsers, parsersFrozen)
  <1>1. IsRead(block[w])
    BY DEF IInv, CarriedAreRead
  <1>2. EventOf(block[w]) \in EvioEvents /\ block[w].src \in Sources
    BY <1>1, ReadEvents DEF IInv
  <1> QED BY <1>2 DEF IInv, WorkersOK, WorkerOK, WorkersTyped

(* A busy worker has a block that was read.                                *)
LEMMA BusyHasBlock ==
    ASSUME IInv, NEW w \in Workers, pc[w] # "idle"
    PROVE  block[w] # None
  BY DEF IInv, WorkersOK, WorkerOK

(* A worker that stays with its block is all right if it works on it.      *)
LEMMA StillWorking ==
    ASSUME NEW w \in Workers, block[w] # None, pc'[w] # "idle",
           UNCHANGED <<file, filterFiles, block[w]>>,
           Working(pc'[w], EventOf(block[w]), at'[w], found'[w], events'[w],
                   Allowed, routes', routesFrozen', parsers', parsersFrozen')
    PROVE  WorkerOK(w)'
  <1>1. Allowed' = Allowed
    BY DEF Allowed, FilterRows
  <1>2. EventOf(block[w])' = EventOf(block[w])
    BY DEF EventOf
  <1> QED BY <1>1, <1>2 DEF WorkerOK

(* Registries left alone evolve.                                           *)
LEMMA StillEvolve ==
    ASSUME UNCHANGED registryVars
    PROVE  RegistriesEvolve
  BY DEF registryVars, RegistriesEvolve, Evolves

(* CheckROC keeps the invariant: it enters the bank's loop, ends both      *)
(* loops, or throws on a wrong ROC.                                        *)
LEMMA CheckROCStep ==
    ASSUME IInv, NEW w \in Workers, CheckROC(w)
    PROVE  IInv'
  <1> DEFINE e == EventOf(block[w])
             x == at[w][1]
  <1>1. pc[w] = "roc" /\ x <= Len(e.banks)
    BY DEF CheckROC, InROCLoop
  <1>2. block[w] # None
    BY <1>1, BusyHasBlock
  <1>3. /\ e \in EvioEvents /\ at[w] \in Nat \X Nat
        /\ Working("roc", e, at[w], found[w], events[w],
                   Allowed, routes, routesFrozen, parsers, parsersFrozen)
    BY <1>1, <1>2, WorkerFacts
  <1>4. RegistriesEvolve
    BY StillEvolve DEF CheckROC
  <1>5. UNCHANGED <<filterVars, sourceVars, queue, block, found, events, decoded, unfolderVars,
                    registryVars, logger>>
    BY DEF CheckROC
  <1>6. /\ e.segments[x] # e.banks[x].roc =>
              pc' = [pc EXCEPT ![w] = "thrown"] /\ failed' = TRUE /\ at' = at
        /\ e.segments[x] = e.banks[x].roc =>
              \/ /\ ~IsROCAllowed(filter, e.banks[x].roc)
                 /\ at' = [at EXCEPT ![w] = <<x + 1, 0>>]
                 /\ pc' = pc /\ failed' = failed
              \/ /\ at' = [at EXCEPT ![w] = <<x, at[w][2] + 1>>]
                 /\ pc' = [pc EXCEPT ![w] = "dma"] /\ failed' = failed
    BY DEF CheckROC, Throw, NextROC, NextDMA, DataBank
  <1> HIDE DEF e
  <1>7. ~IsROCAllowed(filter, e.banks[x].roc) =>
           \A tag : ~PassesFilter(Allowed, e.banks[x].roc, tag)
    BY FilterMeans DEF IInv, SettingsOK
  <1>8. WorkersTyped' /\ pc'[w] # "idle"
    <2>1. /\ pc \in [Workers -> InLoops \cup {"idle", "thrown"}]
          /\ at \in [Workers -> Nat \X Nat]
      BY DEF IInv, WorkersTyped
    <2>2. pc' \in [Workers -> InLoops \cup {"idle", "thrown"}] /\ pc'[w] # "idle"
      BY <1>1, <1>6, <2>1 DEF InLoops
    <2>3. at' \in [Workers -> Nat \X Nat]
      <3>1. at[w] \in Nat \X Nat
        BY <2>1
      <3>2. <<x + 1, 0>> \in Nat \X Nat /\ <<x, at[w][2] + 1>> \in Nat \X Nat
        BY <3>1
      <3> QED BY <1>6, <2>1, <3>2
    <2> QED BY <1>5, <2>2, <2>3 DEF IInv, WorkersTyped
  <1>9. SettingsOK'
    BY <1>5, <1>6 DEF IInv, SettingsOK, filterVars, sourceVars, registryVars
  <1>10. Working(pc'[w], e, at'[w], found[w], events[w],
                 Allowed, routes, routesFrozen, parsers, parsersFrozen)
    <2>1. w \in DOMAIN pc /\ w \in DOMAIN at
      BY DEF IInv, WorkersTyped
    <2>2. CASE e.segments[x] # e.banks[x].roc
      <3>1. pc'[w] = "thrown" /\ at'[w] = at[w]
        BY <1>6, <2>1, <2>2
      <3>2. Working("thrown", e, at[w], found[w], events[w],
                    Allowed, routes, routesFrozen, parsers, parsersFrozen)
        BY <1>1, <1>3, <2>2, CheckROCWorking
      <3> QED BY <3>1, <3>2
    <2>3. CASE /\ e.segments[x] = e.banks[x].roc
               /\ ~IsROCAllowed(filter, e.banks[x].roc)
               /\ at' = [at EXCEPT ![w] = <<x + 1, 0>>]
               /\ pc' = pc
      BY <1>1, <1>3, <1>7, <2>1, <2>3, CheckROCWorking
    <2>4. CASE /\ e.segments[x] = e.banks[x].roc
               /\ at' = [at EXCEPT ![w] = <<x, at[w][2] + 1>>]
               /\ pc' = [pc EXCEPT ![w] = "dma"]
      BY <1>1, <1>3, <2>1, <2>4, CheckROCWorking
    <2> QED BY <1>6, <2>2, <2>3, <2>4
  <1>11. WorkerOK(w)'
    BY <1>2, <1>5, <1>8, <1>10, StillWorking DEF e, filterVars, sourceVars, registryVars
  <1>12. \A v \in Workers \ {w} : UNCHANGED <<pc[v], at[v], found[v], events[v]>>
    BY <1>5, <1>6 DEF IInv, WorkersTyped
  <1> QED BY <1>4, <1>5, <1>8, <1>9, <1>11, <1>12, WorkerMoves
          DEF filterVars, sourceVars, unfolderVars

(* LeaveROC keeps the invariant: the banks of the data bank are all behind *)
(* it.                                                                     *)
LEMMA LeaveROCStep ==
    ASSUME IInv, NEW w \in Workers, LeaveROC(w)
    PROVE  IInv'
  <1> DEFINE e == EventOf(block[w])
  <1>1. pc[w] = "dma" /\ ~(at[w][2] <= Len(e.banks[at[w][1]].dmas))
    BY DEF LeaveROC, InDMALoop, DataBank
  <1>2. block[w] # None
    BY <1>1, BusyHasBlock
  <1>3. /\ e \in EvioEvents /\ at[w] \in Nat \X Nat
        /\ Working("dma", e, at[w], found[w], events[w],
                   Allowed, routes, routesFrozen, parsers, parsersFrozen)
    BY <1>1, <1>2, WorkerFacts
  <1>4. RegistriesEvolve
    BY StillEvolve DEF LeaveROC
  <1>5. /\ at' = [at EXCEPT ![w] = <<at[w][1] + 1, 0>>]
        /\ pc' = [pc EXCEPT ![w] = "roc"]
        /\ UNCHANGED <<filterVars, sourceVars, queue, block, found, events, decoded, unfolderVars,
                       failed, registryVars, logger>>
    BY DEF LeaveROC, NextROC
  <1> HIDE DEF e
  <1>6. WorkersTyped' /\ pc'[w] = "roc" /\ at'[w] = <<at[w][1] + 1, 0>>
    BY <1>5 DEF IInv, WorkersTyped, InLoops
  <1>7. SettingsOK'
    BY <1>5 DEF IInv, SettingsOK, filterVars, sourceVars, registryVars
  <1>8. Working(pc'[w], e, at'[w], found[w], events[w],
                Allowed, routes, routesFrozen, parsers, parsersFrozen)
    BY <1>1, <1>3, <1>6, LeaveROCWorking
  <1>9. WorkerOK(w)'
    BY <1>2, <1>5, <1>6, <1>8, StillWorking DEF e, filterVars, sourceVars, registryVars
  <1>10. \A v \in Workers \ {w} : UNCHANGED <<pc[v], at[v], found[v], events[v]>>
    BY <1>5 DEF IInv, WorkersTyped
  <1> QED BY <1>4, <1>5, <1>6, <1>7, <1>9, <1>10, WorkerMoves
          DEF filterVars, sourceVars, unfolderVars

(* SkipBank keeps the invariant: a bank the filter drops has no hit to     *)
(* deliver.                                                                *)
LEMMA SkipBankStep ==
    ASSUME IInv, NEW w \in Workers, SkipBank(w)
    PROVE  IInv'
  <1> DEFINE e == EventOf(block[w])
             x == at[w][1]
             y == at[w][2]
  <1>1. /\ pc[w] = "dma" /\ y <= Len(e.banks[x].dmas)
        /\ ~IsBankAllowed(filter, e.banks[x].roc, e.banks[x].dmas[y].tag)
    BY DEF SkipBank, InDMALoop, DataBank, DMABank
  <1>2. block[w] # None
    BY <1>1, BusyHasBlock
  <1>3. /\ e \in EvioEvents /\ at[w] \in Nat \X Nat
        /\ Working("dma", e, at[w], found[w], events[w],
                   Allowed, routes, routesFrozen, parsers, parsersFrozen)
    BY <1>1, <1>2, WorkerFacts
  <1>4. RegistriesEvolve
    BY StillEvolve DEF SkipBank
  <1>5. /\ at' = [at EXCEPT ![w] = <<x, y + 1>>]
        /\ UNCHANGED <<filterVars, sourceVars, queue, pc, block, found, events, decoded,
                       unfolderVars, failed, registryVars, logger>>
    BY DEF SkipBank, NextDMA
  <1> HIDE DEF e
  <1>6. ~Admits(e, Allowed, x, y)
    BY SMTT(30), <1>1, FilterMeans DEF IInv, SettingsOK, Admits
  <1>7. WorkersTyped' /\ pc'[w] = "dma" /\ at'[w] = <<x, y + 1>>
    BY <1>1, <1>5 DEF IInv, WorkersTyped, InLoops
  <1>8. SettingsOK'
    BY <1>5 DEF IInv, SettingsOK, filterVars, sourceVars, registryVars
  <1>9. Working(pc'[w], e, at'[w], found[w], events[w],
                Allowed, routes, routesFrozen, parsers, parsersFrozen)
    BY <1>1, <1>3, <1>6, <1>7, SkipBankWorking
  <1>10. WorkerOK(w)'
    BY <1>2, <1>5, <1>7, <1>9, StillWorking DEF e, filterVars, sourceVars, registryVars
  <1>11. \A v \in Workers \ {w} : UNCHANGED <<pc[v], at[v], found[v], events[v]>>
    BY <1>5 DEF IInv, WorkersTyped
  <1> QED BY <1>4, <1>5, <1>7, <1>8, <1>10, <1>11, WorkerMoves
          DEF filterVars, sourceVars, unfolderVars

(* ResolveBank keeps the invariant: what it read from the map, it froze.   *)
LEMMA ResolveBankStep ==
    ASSUME IInv, NEW w \in Workers, ResolveBank(w)
    PROVE  IInv'
  <1> DEFINE e == EventOf(block[w])
             x == at[w][1]
             y == at[w][2]
             tag == e.banks[x].dmas[y].tag
  <1>1. /\ pc[w] = "dma" /\ y <= Len(e.banks[x].dmas)
        /\ IsBankAllowed(filter, e.banks[x].roc, tag)
    BY DEF ResolveBank, InDMALoop, DataBank, DMABank
  <1>2. block[w] # None
    BY <1>1, BusyHasBlock
  <1>3. /\ e \in EvioEvents /\ at[w] \in Nat \X Nat
        /\ Working("dma", e, at[w], found[w], events[w],
                   Allowed, routes, routesFrozen, parsers, parsersFrozen)
    BY <1>1, <1>2, WorkerFacts
  <1>4. /\ routesFrozen' = TRUE
        /\ UNCHANGED <<filterVars, sourceVars, queue, block, events, decoded, unfolderVars, failed,
                       routes, parsers, parsersFrozen, logger>>
        /\ \/ /\ routes[tag] = NoModule
              /\ at' = [at EXCEPT ![w] = <<x, y + 1>>] /\ pc' = pc /\ found' = found
           \/ /\ routes[tag] # NoModule
              /\ pc' = [pc EXCEPT ![w] = "parser"]
              /\ found' = [found EXCEPT ![w] = routes[tag]]
              /\ at' = at
    BY DEF ResolveBank, NextDMA, DataBank, DMABank
  <1>5. RegistriesEvolve
    BY <1>4 DEF RegistriesEvolve, Evolves
  <1> HIDE DEF e
  <1>6. Admits(e, Allowed, x, y)
    <2>1. PassesFilter(Allowed, e.banks[x].roc, tag)
      <3> HIDE DEF tag
      <3> QED BY <1>1, FilterMeans DEF IInv, SettingsOK
    <2> QED BY <2>1 DEF Admits
  <1>7. tag \in Banks
    <2>1. x \in DOMAIN e.banks /\ y \in 1..(Len(e.banks[x].dmas) + 1)
      BY <1>3 DEF Working, InLoops
    <2>2. /\ Len(e.banks[x].dmas) \in Nat
          /\ DOMAIN e.banks[x].dmas = 1..Len(e.banks[x].dmas)
      BY <1>3, <2>1, EventTypes, LenProperties
    <2>3. y \in DOMAIN e.banks[x].dmas
      <3> DEFINE n == Len(e.banks[x].dmas)
      <3>1. n \in Nat /\ y \in 1..(n + 1) /\ y <= n
        BY <1>1, <2>1, <2>2
      <3>2. DOMAIN e.banks[x].dmas = 1..n
        BY <2>2
      <3> HIDE DEF n, x, y
      <3>3. y \in 1..n
        BY <3>1
      <3> QED BY <3>2, <3>3
    <2> QED BY <1>3, <2>1, <2>3, EventTypes
  <1>8. routes[tag] \in Modules \cup {NoModule}
    BY <1>7 DEF IInv, SettingsOK
  <1> HIDE DEF tag
  <1>9. WorkersTyped' /\ pc'[w] # "idle"
    <2>1. /\ pc \in [Workers -> InLoops \cup {"idle", "thrown"}]
          /\ at \in [Workers -> Nat \X Nat]
          /\ found \in [Workers -> Modules \cup Parsers \cup {None}]
      BY DEF IInv, WorkersTyped
    <2>2. pc' \in [Workers -> InLoops \cup {"idle", "thrown"}] /\ pc'[w] # "idle"
      BY <1>1, <1>4, <2>1 DEF InLoops
    <2>3. at' \in [Workers -> Nat \X Nat]
      <3>1. at[w] \in Nat \X Nat
        BY <2>1
      <3>2. <<x, y + 1>> \in Nat \X Nat
        BY <3>1
      <3> QED BY <1>4, <2>1, <3>2
    <2>4. found' \in [Workers -> Modules \cup Parsers \cup {None}]
      BY <1>4, <1>8, <2>1
    <2> QED BY <1>4, <2>2, <2>3, <2>4 DEF IInv, WorkersTyped
  <1>10. SettingsOK'
    BY <1>4 DEF IInv, SettingsOK, filterVars, sourceVars
  <1>11. Working(pc'[w], e, at'[w], found'[w], events[w],
                 Allowed, routes, TRUE, parsers, parsersFrozen)
    <2>1. w \in DOMAIN pc /\ w \in DOMAIN at /\ w \in DOMAIN found
      BY DEF IInv, WorkersTyped
    <2>2. Working("dma", e, at[w], found[w], events[w],
                  Allowed, routes, TRUE, parsers, parsersFrozen)
      BY <1>3, <1>4, <1>5, WorkingStable DEF RegistriesEvolve
    <2>3. CASE /\ routes[tag] = NoModule
               /\ at' = [at EXCEPT ![w] = <<x, y + 1>>] /\ pc' = pc /\ found' = found
      <3>1. Working("dma", e, <<x, y + 1>>, found[w], events[w],
                    Allowed, routes, TRUE, parsers, parsersFrozen)
        BY <1>1, <1>3, <1>6, <2>2, <2>3, ResolveBankWorking DEF tag
      <3> QED BY <1>1, <2>1, <2>3, <3>1
    <2>4. CASE /\ routes[tag] # NoModule
               /\ pc' = [pc EXCEPT ![w] = "parser"]
               /\ found' = [found EXCEPT ![w] = routes[tag]]
               /\ at' = at
      <3>1. Working("parser", e, at[w], routes[tag], events[w],
                    Allowed, routes, TRUE, parsers, parsersFrozen)
        BY <1>1, <1>3, <1>6, <2>2, <2>4, ResolveBankWorking DEF tag
      <3> QED BY <2>1, <2>4, <3>1
    <2> QED BY <1>4, <2>3, <2>4
  <1>12. WorkerOK(w)'
    BY <1>2, <1>4, <1>9, <1>11, StillWorking DEF e, filterVars, sourceVars
  <1>13. \A v \in Workers \ {w} : UNCHANGED <<pc[v], at[v], found[v], events[v]>>
    BY <1>4 DEF IInv, WorkersTyped
  <1> QED BY <1>4, <1>5, <1>9, <1>10, <1>12, <1>13, WorkerMoves
          DEF filterVars, sourceVars, unfolderVars

(* FindParser keeps the invariant: a missing parser is missing for good.   *)
LEMMA FindParserStep ==
    ASSUME IInv, NEW w \in Workers, FindParser(w)
    PROVE  IInv'
  <1> DEFINE e == EventOf(block[w])
             m == found[w]
  <1>1. pc[w] = "parser"
    BY DEF FindParser
  <1>2. block[w] # None
    BY <1>1, BusyHasBlock
  <1>3. /\ e \in EvioEvents /\ at[w] \in Nat \X Nat
        /\ Working("parser", e, at[w], m, events[w],
                   Allowed, routes, routesFrozen, parsers, parsersFrozen)
    BY <1>1, <1>2, WorkerFacts
  <1>4. /\ parsersFrozen' = TRUE
        /\ UNCHANGED <<filterVars, sourceVars, queue, block, at, events, decoded, unfolderVars,
                       routes, routesFrozen, parsers, logger>>
        /\ \/ /\ parsers[m] = NullParser
              /\ pc' = [pc EXCEPT ![w] = "thrown"] /\ failed' = TRUE /\ found' = found
           \/ /\ parsers[m] # NullParser
              /\ pc' = [pc EXCEPT ![w] = "bind"] /\ failed' = failed
              /\ found' = [found EXCEPT ![w] = parsers[m]]
    BY DEF FindParser, Throw
  <1>5. RegistriesEvolve
    BY <1>4 DEF RegistriesEvolve, Evolves
  <1> HIDE DEF e
  <1>6. m \in Modules
    <2>1. /\ at[w][1] \in DOMAIN e.banks
          /\ at[w][2] \in DOMAIN e.banks[at[w][1]].dmas
          /\ m = routes[e.banks[at[w][1]].dmas[at[w][2]].tag]
          /\ routes[e.banks[at[w][1]].dmas[at[w][2]].tag] # NoModule
      BY <1>3 DEF Working, InLoops
    <2>2. e.banks[at[w][1]].dmas[at[w][2]].tag \in Banks
      BY <1>3, <2>1, EventTypes
    <2> QED BY <2>1, <2>2 DEF IInv, SettingsOK
  <1>7. parsers[m] \in Parsers \cup {NullParser}
    BY <1>6 DEF IInv, SettingsOK
  <1>8. WorkersTyped' /\ pc'[w] # "idle"
    <2>1. /\ pc \in [Workers -> InLoops \cup {"idle", "thrown"}]
          /\ found \in [Workers -> Modules \cup Parsers \cup {None}]
      BY DEF IInv, WorkersTyped
    <2>2. found' \in [Workers -> Modules \cup Parsers \cup {None}]
      <3> HIDE DEF m
      <3> QED BY <1>4, <1>7, <2>1
    <2>3. pc' \in [Workers -> InLoops \cup {"idle", "thrown"}] /\ pc'[w] # "idle"
      BY <1>1, <1>4, <2>1 DEF InLoops
    <2> QED BY <1>4, <2>2, <2>3 DEF IInv, WorkersTyped
  <1>9. SettingsOK'
    BY <1>4 DEF IInv, SettingsOK, filterVars, sourceVars
  <1>10. Working(pc'[w], e, at[w], found'[w], events[w],
                 Allowed, routes, routesFrozen, parsers, TRUE)
    <2>1. w \in DOMAIN pc /\ w \in DOMAIN found
      BY DEF IInv, WorkersTyped
    <2>2. Working("parser", e, at[w], m, events[w],
                  Allowed, routes, routesFrozen, parsers, TRUE)
      BY <1>3, <1>4, <1>5, WorkingStable DEF RegistriesEvolve
    <2>3. CASE /\ parsers[m] = NullParser
               /\ pc' = [pc EXCEPT ![w] = "thrown"] /\ found' = found
      BY <2>1, <2>2, <2>3, FindParserWorking
    <2>4. CASE /\ parsers[m] # NullParser
               /\ pc' = [pc EXCEPT ![w] = "bind"]
               /\ found' = [found EXCEPT ![w] = parsers[m]]
      <3>1. Working("bind", e, at[w], parsers[m], events[w],
                    Allowed, routes, routesFrozen, parsers, TRUE)
        BY <2>2, <2>4, FindParserWorking
      <3> QED BY <2>1, <2>4, <3>1
    <2> QED BY <1>4, <2>3, <2>4
  <1>11. WorkerOK(w)'
    BY <1>2, <1>4, <1>8, <1>10, StillWorking DEF e, filterVars, sourceVars
  <1>12. \A v \in Workers \ {w} : UNCHANGED <<pc[v], at[v], found[v], events[v]>>
    BY <1>4 DEF IInv, WorkersTyped
  <1> QED BY <1>4, <1>5, <1>8, <1>9, <1>11, <1>12, WorkerMoves
          DEF filterVars, sourceVars, unfolderVars

(* BindLogger keeps the invariant: no conclusion rests on the logger.      *)
LEMMA BindLoggerStep ==
    ASSUME IInv, NEW w \in Workers, BindLogger(w)
    PROVE  IInv'
  <1> DEFINE e == EventOf(block[w])
  <1>1. pc[w] = "bind"
    BY DEF BindLogger
  <1>2. block[w] # None
    BY <1>1, BusyHasBlock
  <1>3. /\ block[w].src \in Sources
        /\ Working("bind", e, at[w], found[w], events[w],
                   Allowed, routes, routesFrozen, parsers, parsersFrozen)
    BY <1>1, <1>2, WorkerFacts
  <1>4. RegistriesEvolve
    BY StillEvolve DEF BindLogger
  <1>5. /\ logger' = [logger EXCEPT ![found[w]] = block[w].src]
        /\ pc' = [pc EXCEPT ![w] = "decode"]
        /\ UNCHANGED <<filterVars, sourceVars, queue, block, at, found, events, decoded,
                       unfolderVars, failed, registryVars>>
    BY DEF BindLogger
  <1> HIDE DEF e
  <1>6. WorkersTyped' /\ pc'[w] = "decode"
    BY <1>5 DEF IInv, WorkersTyped, InLoops
  <1>7. SettingsOK'
    BY <1>3, <1>5 DEF IInv, SettingsOK, filterVars, sourceVars, registryVars
  <1>8. Working(pc'[w], e, at[w], found[w], events[w],
                Allowed, routes, routesFrozen, parsers, parsersFrozen)
    BY <1>3, <1>6, BindLoggerWorking
  <1>9. WorkerOK(w)'
    BY <1>2, <1>5, <1>6, <1>8, StillWorking DEF e, filterVars, sourceVars, registryVars
  <1>10. \A v \in Workers \ {w} : UNCHANGED <<pc[v], at[v], found[v], events[v]>>
    BY <1>5 DEF IInv, WorkersTyped
  <1> QED BY <1>4, <1>5, <1>6, <1>7, <1>9, <1>10, WorkerMoves
          DEF filterVars, sourceVars, unfolderVars

(* DecodeBank keeps the invariant: a sound bank's hits are gathered, a bad *)
(* one throws.                                                             *)
LEMMA DecodeBankStep ==
    ASSUME IInv, NEW w \in Workers, DecodeBank(w)
    PROVE  IInv'
  <1> DEFINE e == EventOf(block[w])
             x == at[w][1]
             y == at[w][2]
             body == e.banks[x].dmas[y].body
             more == EventsOf(e, x, y)
  <1>1. pc[w] = "decode"
    BY DEF DecodeBank
  <1>2. block[w] # None
    BY <1>1, BusyHasBlock
  <1>3. /\ e \in EvioEvents /\ at[w] \in Nat \X Nat /\ events[w] \in Seq(PhysicsEvents)
        /\ Working("decode", e, at[w], found[w], events[w],
                   Allowed, routes, routesFrozen, parsers, parsersFrozen)
    BY <1>1, <1>2, WorkerFacts
  <1>4. RegistriesEvolve
    BY StillEvolve DEF DecodeBank
  <1>5. more = Appended(w)
    BY DEF EventsOf, Appended, DMABank, DataBank
  <1>6. /\ UNCHANGED <<filterVars, sourceVars, queue, block, decoded, unfolderVars, registryVars,
                       logger>>
        /\ \/ /\ body.sound
              /\ events' = [events EXCEPT ![w] = @ \o more]
              /\ at' = [at EXCEPT ![w] = <<x, y + 1>>]
              /\ pc' = [pc EXCEPT ![w] = "dma"]
              /\ found' = [found EXCEPT ![w] = None]
              /\ failed' = failed
           \/ /\ ~body.sound
              /\ pc' = [pc EXCEPT ![w] = "thrown"] /\ failed' = TRUE
              /\ events' = events /\ at' = at /\ found' = found
    BY <1>5 DEF DecodeBank, DMABank, DataBank, NextDMA, Throw
  <1>7. /\ ~body.sound => Working("thrown", e, at[w], found[w], events[w],
                                  Allowed, routes, routesFrozen, parsers, parsersFrozen)
        /\ body.sound =>
              /\ events[w] \o more \in Seq(PhysicsEvents)
              /\ Working("dma", e, <<x, y + 1>>, None, events[w] \o more,
                         Allowed, routes, routesFrozen, parsers, parsersFrozen)
    <2> HIDE DEF e
    <2> QED BY <1>3, DecodeBankWorking
  <1> HIDE DEF e, more, body
  <1>8. WorkersTyped' /\ pc'[w] # "idle"
    <2>1. CASE /\ body.sound
               /\ events' = [events EXCEPT ![w] = @ \o more]
               /\ at' = [at EXCEPT ![w] = <<x, y + 1>>]
               /\ pc' = [pc EXCEPT ![w] = "dma"]
               /\ found' = [found EXCEPT ![w] = None]
      BY <1>3, <1>6, <1>7, <2>1 DEF IInv, WorkersTyped, InLoops
    <2>2. CASE /\ pc' = [pc EXCEPT ![w] = "thrown"]
               /\ events' = events /\ at' = at /\ found' = found
      BY <1>6, <2>2 DEF IInv, WorkersTyped, InLoops
    <2> QED BY <1>6, <2>1, <2>2
  <1>9. SettingsOK'
    BY <1>6 DEF IInv, SettingsOK, filterVars, sourceVars, registryVars
  <1>10. Working(pc'[w], e, at'[w], found'[w], events'[w],
                 Allowed, routes, routesFrozen, parsers, parsersFrozen)
    <2>1. w \in DOMAIN pc /\ w \in DOMAIN found /\ w \in DOMAIN at /\ w \in DOMAIN events
      BY DEF IInv, WorkersTyped
    <2>2. CASE /\ body.sound
               /\ events' = [events EXCEPT ![w] = @ \o more]
               /\ at' = [at EXCEPT ![w] = <<x, y + 1>>]
               /\ pc' = [pc EXCEPT ![w] = "dma"]
               /\ found' = [found EXCEPT ![w] = None]
      BY <1>7, <2>1, <2>2
    <2>3. CASE /\ ~body.sound
               /\ pc' = [pc EXCEPT ![w] = "thrown"]
               /\ events' = events /\ at' = at /\ found' = found
      BY <1>7, <2>1, <2>3
    <2> QED BY <1>6, <2>2, <2>3
  <1>11. WorkerOK(w)'
    BY <1>2, <1>6, <1>8, <1>10, StillWorking DEF e, filterVars, sourceVars, registryVars
  <1>12. \A v \in Workers \ {w} : UNCHANGED <<pc[v], at[v], found[v], events[v]>>
    BY <1>6 DEF IInv, WorkersTyped
  <1> QED BY <1>4, <1>6, <1>8, <1>9, <1>11, <1>12, WorkerMoves
          DEF filterVars, sourceVars, unfolderVars

-----------------------------------------------------------------------------
(* Steps that move a block.                                                *)

(* A step that moves another block leaves this one's stage alone.          *)
LEMMA StageKeeps ==
    ASSUME NEW s \in Sources, NEW i \in 1..Len(file[s]), Stage(s, i),
           UNCHANGED <<file, filterFiles, routes>>,
           Queued(s, i)' = Queued(s, i), Worked(s, i)' = Worked(s, i),
           Decoded(s, i)' = Decoded(s, i), ChildrenOf(s, i)' = ChildrenOf(s, i),
           Unfolded(s, i)' <=> Unfolded(s, i),
           Unfolded(s, i) => UNCHANGED <<parent, remaining>>,
           i > read'[s] <=> i > read[s], i <= read'[s] <=> i <= read[s]
    PROVE  Stage(s, i)'
  <1>1. Allowed' = Allowed
    BY DEF Allowed, FilterRows
  <1>2. DeliveredNumbers(s, i)' = DeliveredNumbers(s, i)
    BY DEF DeliveredNumbers
  <1>3. CASE NotPassedOn(s, i)
    BY <1>3 DEF NotPassedOn, PassesFilters, Stage
  <1>4. CASE InQueue(s, i)
    BY <1>4 DEF InQueue, Queued, Stage
  <1>5. CASE WithWorker(s, i)
    BY <1>5 DEF WithWorker, Stage
  <1>6. CASE AwaitingUnfolder(s, i)
    BY <1>6 DEF AwaitingUnfolder, Decoded, Stage
  <1>7. CASE BeingUnfolded(s, i)
    BY <1>2, <1>7 DEF BeingUnfolded, Stage
  <1>8. CASE Delivered(s, i)
    BY <1>1, <1>2, <1>8 DEF Delivered, PassesFilters, Stage
  <1> QED BY <1>3, <1>4, <1>5, <1>6, <1>7, <1>8 DEF Stage

(* TakeBlock keeps the invariant: the block leaves the queue as it enters  *)
(* the worker.                                                             *)
LEMMA TakeBlockStep ==
    ASSUME IInv, NEW w \in Workers, TakeBlock(w)
    PROVE  IInv'
  <1>1. PICK b \in queue :
           /\ queue' = queue \ {b}
           /\ block' = [block EXCEPT ![w] = b]
           /\ \/ /\ TriggerAgrees(EventOf(b))
                 /\ pc' = [pc EXCEPT ![w] = "roc"] /\ failed' = failed
              \/ /\ ~TriggerAgrees(EventOf(b))
                 /\ pc' = [pc EXCEPT ![w] = "thrown"] /\ failed' = TRUE
    BY DEF TakeBlock, Throw
  <1>2. /\ pc[w] = "idle" /\ at' = [at EXCEPT ![w] = <<1, 0>>]
        /\ UNCHANGED <<filterVars, sourceVars, found, events, decoded, unfolderVars,
                       registryVars, logger>>
    BY DEF TakeBlock
  <1> DEFINE e == EventOf(b)
  <1>3. /\ IsRead(b) /\ b \in BlockEvents /\ b # None /\ e \in EvioEvents
        /\ b.src \in Sources /\ b.pos \in 1..Len(file[b.src])
    BY ReadEvents DEF IInv, CarriedAreRead
  <1>4. block[w] = None /\ events[w] = << >>
    BY <1>2 DEF IInv, WorkersOK, WorkerOK
  <1>5. RegistriesEvolve
    BY <1>2, StillEvolve
  <1>6. UNCHANGED <<file, read, run, filterFiles, filter, routes, routesFrozen, parsers,
                    parsersFrozen, logger, decoded, parent, remaining, children, found, events>>
    BY <1>2 DEF filterVars, sourceVars, unfolderVars, registryVars
  <1> HIDE DEF e
  <1>7. /\ WorkersTyped' /\ pc'[w] \in {"roc", "thrown"} /\ block'[w] = b
        /\ at'[w] = <<1, 0>>
        /\ \A v \in Workers \ {w} : UNCHANGED <<pc[v], block[v], at[v], found[v], events[v]>>
    BY <1>1, <1>2, <1>3, <1>6 DEF IInv, WorkersTyped, InLoops
  <1>8. SettingsOK'
    BY <1>1, <1>6 DEF IInv, SettingsOK
  <1>9. CarriedAreRead'
    <2>1. ASSUME NEW c PROVE IsRead(c)' <=> IsRead(c)
      BY <1>6 DEF IsRead, EventOf, PassesFilters
    <2>2. \A v \in Workers : block'[v] = block[v] \/ block'[v] = b
      BY <1>7
    <2> QED BY <1>1, <1>3, <1>6, <2>1, <2>2 DEF IInv, CarriedAreRead
  <1>10. WorkersOK'
    <2>1. ASSUME NEW v \in Workers \ {w} PROVE WorkerOK(v)'
      BY <1>5, <1>6, <1>7, WorkerKeeps DEF IInv, WorkersOK
    <2>2. Working(pc'[w], e, at'[w], found'[w], events'[w],
                  Allowed, routes', routesFrozen', parsers', parsersFrozen')
      <3>1. w \in DOMAIN pc
        BY DEF IInv, WorkersTyped
      <3>2. events'[w] = << >>
        BY <1>4, <1>6
      <3>3. /\ TriggerAgrees(e) => pc'[w] = "roc"
            /\ ~TriggerAgrees(e) => pc'[w] = "thrown"
        BY <1>1, <3>1 DEF e
      <3> QED BY <1>3, <1>7, <3>2, <3>3, StartWorking
    <2>3. Allowed' = Allowed
      BY <1>6 DEF Allowed, FilterRows
    <2>4. EventOf(block[w])' = e
      BY <1>6, <1>7 DEF EventOf, e
    <2>5. pc'[w] # "idle" /\ block'[w] # None
      BY <1>3, <1>7
    <2>6. WorkerOK(w)'
      BY <2>2, <2>3, <2>4, <2>5 DEF WorkerOK
    <2> QED BY <2>1, <2>6 DEF WorkersOK
  <1>11. Stages'
    <2>1. SUFFICES ASSUME NEW s \in Sources, NEW i \in 1..Len(file[s]) PROVE Stage(s, i)'
      BY <1>6 DEF Stages
    <2>2. Stage(s, i)
      BY DEF IInv, Stages
    <2>3. UNCHANGED <<Decoded(s, i), ChildrenOf(s, i)>> /\ (Unfolded(s, i)' <=> Unfolded(s, i))
      BY <1>6 DEF Decoded, ChildrenOf, Unfolded, Holds
    <2>4. CASE Holds(b, s, i)
      <3>1. b \in Queued(s, i)
        BY <2>4 DEF Queued
      <3>2. InQueue(s, i)
        BY <2>2, <3>1
           DEF Stage, NotPassedOn, WithWorker, AwaitingUnfolder, BeingUnfolded, Delivered
      <3>3. Queued(s, i)' = {}
        BY <1>1, <3>1, <3>2 DEF InQueue, Queued
      <3>4. Worked(s, i)' = {w}
        <4>1. Worked(s, i) = {}
          BY <3>2 DEF InQueue
        <4> QED BY <1>7, <2>4, <4>1 DEF Worked
      <3> QED BY <2>3, <3>2, <3>3, <3>4 DEF InQueue, WithWorker, Stage
    <2>5. CASE ~Holds(b, s, i)
      <3>1. Queued(s, i)' = Queued(s, i)
        BY <1>1, <2>5 DEF Queued
      <3>2. Worked(s, i)' = Worked(s, i)
        <4>1. ASSUME NEW v \in Workers PROVE Holds(block'[v], s, i) <=> Holds(block[v], s, i)
          BY <1>4, <1>7, <2>5 DEF Holds
        <4> QED BY <4>1 DEF Worked
      <3> QED BY <1>6, <2>2, <2>3, <3>1, <3>2, StageKeeps
    <2> QED BY <2>4, <2>5
  <1>12. DecodedOK' /\ ParentOK' /\ ChildrenOK' /\ FrozenOnceDecoded'
    BY <1>5, <1>6, OutputsKeep DEF IInv
  <1> QED BY <1>7, <1>8, <1>9, <1>10, <1>11, <1>12 DEF IInv

(* FinishBlock keeps the invariant: the whole block, or nothing, is        *)
(* decoded.                                                                *)
LEMMA FinishBlockStep ==
    ASSUME IInv, NEW w \in Workers, FinishBlock(w)
    PROVE  IInv'
  <1> DEFINE b == block[w]
             e == EventOf(b)
             hits == Consolidated(events[w])
             d == [block |-> b, hits |-> hits]
  <1>1. pc[w] = "roc" /\ ~(at[w][1] <= Len(e.banks))
    BY DEF FinishBlock, InROCLoop
  <1>2. b # None
    BY <1>1, BusyHasBlock
  <1>3. /\ e \in EvioEvents /\ at[w] \in Nat \X Nat /\ events[w] \in Seq(PhysicsEvents)
        /\ Working("roc", e, at[w], found[w], events[w],
                   Allowed, routes, routesFrozen, parsers, parsersFrozen)
    BY <1>1, <1>2, WorkerFacts
  <1>4. RegistriesEvolve
    BY StillEvolve DEF FinishBlock
  <1>5. UNCHANGED <<file, read, run, filterFiles, filter, queue, routes, routesFrozen, parsers,
                    parsersFrozen, logger, parent, remaining, children, found>>
    BY DEF FinishBlock, filterVars, sourceVars, unfolderVars, registryVars
  <1>6. \/ /\ events[w] = << >>
           /\ pc' = [pc EXCEPT ![w] = "thrown"] /\ failed' = TRUE
           /\ UNCHANGED <<block, at, events, decoded>>
        \/ /\ events[w] # << >>
           /\ decoded' = decoded \cup {d}
           /\ pc' = [pc EXCEPT ![w] = "idle"]
           /\ block' = [block EXCEPT ![w] = None]
           /\ at' = [at EXCEPT ![w] = <<0, 0>>]
           /\ events' = [events EXCEPT ![w] = << >>]
           /\ failed' = failed
    BY DEF FinishBlock, Throw
  <1>7. /\ events[w] = << >> => Working("thrown", e, at[w], found[w], events[w],
                                        Allowed, routes, routesFrozen, parsers, parsersFrozen)
        /\ events[w] # << >> =>
              /\ IsDecoded(e, hits, Allowed, routes, parsers)
              /\ hits \in UNION {[N -> Seq(Nat \X Nat \X Nat)] : N \in SUBSET EventNumbers}
              /\ routesFrozen /\ parsersFrozen
    <2> HIDE DEF e, b
    <2>1. ASSUME events[w] = << >>
          PROVE  Working("thrown", e, at[w], found[w], events[w],
                         Allowed, routes, routesFrozen, parsers, parsersFrozen)
      BY <1>1, <1>3, <2>1, FinishBlockWorking
    <2>2. ASSUME events[w] # << >>
          PROVE  /\ IsDecoded(e, hits, Allowed, routes, parsers)
                 /\ hits \in UNION {[N -> Seq(Nat \X Nat \X Nat)] : N \in SUBSET EventNumbers}
                 /\ routesFrozen /\ parsersFrozen
      BY <1>1, <1>3, <2>2, FinishBlockWorking
    <2> HIDE DEF hits
    <2> QED BY <2>1, <2>2
  <1>8. IsRead(b) /\ b \in BlockEvents /\ b.src \in Sources
    BY <1>2, ReadEvents DEF IInv, CarriedAreRead
  <1> HIDE DEF hits
  <1>9. CASE events[w] = << >>
    <2>1. UNCHANGED <<block, at, events, decoded>> /\ failed' = TRUE
      BY <1>6, <1>9
    <2>2. /\ WorkersTyped' /\ pc'[w] = "thrown"
          /\ \A v \in Workers \ {w} : UNCHANGED <<pc[v], at[v], found[v], events[v]>>
      BY <1>5, <1>6, <1>9 DEF IInv, WorkersTyped
    <2>3. SettingsOK'
      BY <1>5, <2>1 DEF IInv, SettingsOK
    <2>4. WorkerOK(w)'
      BY <1>2, <1>5, <1>7, <1>9, <2>1, <2>2, StillWorking
    <2> QED BY <1>4, <1>5, <2>1, <2>2, <2>3, <2>4, WorkerMoves
  <1>10. CASE events[w] # << >>
    <2>1. /\ decoded' = decoded \cup {d} /\ failed' = failed
          /\ routesFrozen /\ parsersFrozen
      BY <1>6, <1>7, <1>10
    <2>2. /\ WorkersTyped' /\ pc'[w] = "idle" /\ block'[w] = None /\ events'[w] = << >>
          /\ \A v \in Workers \ {w} : UNCHANGED <<pc[v], block[v], at[v], found[v], events[v]>>
      <3>1. /\ pc' = [pc EXCEPT ![w] = "idle"] /\ block' = [block EXCEPT ![w] = None]
            /\ at' = [at EXCEPT ![w] = <<0, 0>>] /\ events' = [events EXCEPT ![w] = << >>]
            /\ found' = found
        BY <1>5, <1>6, <1>10
      <3>2. << >> \in Seq(PhysicsEvents) /\ <<0, 0>> \in Nat \X Nat
        OBVIOUS
      <3>3. WorkersTyped
        BY DEF IInv
      <3>4. pc'[w] = "idle" /\ block'[w] = None /\ events'[w] = << >>
        BY <3>1, <3>3 DEF WorkersTyped
      <3>5. \A v \in Workers \ {w} : UNCHANGED <<pc[v], block[v], at[v], found[v], events[v]>>
        BY <3>1, <3>3 DEF WorkersTyped
      <3>6. WorkersTyped'
        BY <3>1, <3>2, <3>3 DEF WorkersTyped
      <3> QED BY <3>4, <3>5, <3>6
    <2>3. SettingsOK'
      BY <1>5, <2>1 DEF IInv, SettingsOK
    <2>4. d.block = b /\ d.hits = hits
      OBVIOUS
    <2> HIDE DEF d
    <2>5. CarriedAreRead'
      <3>1. ASSUME NEW c PROVE IsRead(c)' <=> IsRead(c)
        BY <1>5 DEF IsRead, EventOf, PassesFilters
      <3>2. \A v \in Workers : block'[v] = block[v] \/ block'[v] = None
        BY <2>2
      <3>3. \A c \in decoded' : c \in decoded \/ c.block = b
        BY <2>1, <2>4
      <3> HIDE DEF b
      <3> QED BY <1>5, <1>8, <3>1, <3>2, <3>3 DEF IInv, CarriedAreRead
    <2>6. WorkersOK'
      <3>1. ASSUME NEW v \in Workers \ {w} PROVE WorkerOK(v)'
        BY <1>4, <1>5, <2>2, WorkerKeeps DEF IInv, WorkersOK
      <3>2. WorkerOK(w)'
        BY <2>2 DEF WorkerOK
      <3> QED BY <3>1, <3>2 DEF WorkersOK
    <2>7. Stages'
      <3>1. SUFFICES ASSUME NEW s \in Sources, NEW i \in 1..Len(file[s]) PROVE Stage(s, i)'
        BY <1>5 DEF Stages
      <3>2. Stage(s, i)
        BY DEF IInv, Stages
      <3>3. UNCHANGED <<Queued(s, i), ChildrenOf(s, i)>> /\ (Unfolded(s, i)' <=> Unfolded(s, i))
        BY <1>5 DEF Queued, ChildrenOf, Unfolded, Holds
      <3>4. CASE Holds(b, s, i)
        <4>1. w \in Worked(s, i)
          BY <3>4 DEF Worked
        <4>2. WithWorker(s, i)
          BY <3>2, <4>1
             DEF Stage, NotPassedOn, InQueue, AwaitingUnfolder, BeingUnfolded, Delivered
        <4>3. Worked(s, i)' = {}
          <5>1. Worked(s, i) = {w}
            BY <4>1, <4>2 DEF WithWorker
          <5>2. ASSUME NEW v \in Workers PROVE ~Holds(block'[v], s, i)
            <6>1. CASE v = w
              BY <2>2, <6>1 DEF Holds
            <6>2. CASE v # w
              BY <2>2, <5>1, <6>2 DEF Worked
            <6> QED BY <6>1, <6>2
          <5> QED BY <5>2 DEF Worked
        <4>4. Decoded(s, i)' = {d} /\ d \in decoded'
          <5>1. Decoded(s, i) = {}
            BY <4>2 DEF WithWorker
          <5>2. Holds(d.block, s, i)
            BY <2>4, <3>4
          <5> QED BY <2>1, <5>1, <5>2 DEF Decoded
        <4> QED BY <3>3, <4>2, <4>3, <4>4 DEF WithWorker, AwaitingUnfolder, Stage
      <3>5. CASE ~Holds(b, s, i)
        <4>1. Decoded(s, i)' = Decoded(s, i)
          BY <2>1, <2>4, <3>5 DEF Decoded
        <4>2. Worked(s, i)' = Worked(s, i)
          <5>1. ASSUME NEW v \in Workers PROVE Holds(block'[v], s, i) <=> Holds(block[v], s, i)
            <6>1. CASE v = w
              BY <2>2, <3>5, <6>1 DEF Holds
            <6>2. CASE v # w
              BY <2>2, <6>2
            <6> QED BY <6>1, <6>2
          <5> QED BY <5>1 DEF Worked
        <4> QED BY <1>5, <3>2, <3>3, <4>1, <4>2, StageKeeps
      <3> QED BY <3>4, <3>5
    <2>8. Allowed' = Allowed
      BY <1>5 DEF Allowed, FilterRows
    <2>9. DecodedOK'
      <3>1. d \in DecodedEvents
        BY <1>7, <1>8, <1>10 DEF DecodedEvents, d
      <3>2. \A c : EventOf(c)' = EventOf(c)
        BY <1>5 DEF EventOf
      <3>3. IsDecoded(EventOf(d.block), d.hits, Allowed, routes, parsers)
        BY <1>7, <1>10, <2>4
      <3> HIDE DEF b, e
      <3> QED BY <1>5, <2>1, <2>8, <3>1, <3>2, <3>3 DEF IInv, DecodedOK
    <2>10. ParentOK' /\ ChildrenOK' /\ FrozenOnceDecoded'
      BY <1>5, <2>1, <2>8 DEF IInv, ParentOK, ChildrenOK, FrozenOnceDecoded, EventOf
    <2> QED BY <2>2, <2>3, <2>5, <2>6, <2>7, <2>9, <2>10 DEF IInv
  <1> QED BY <1>9, <1>10

(* Emit keeps the invariant: a block is queued as it is read, if it passes *)
(* the event filters.                                                      *)
LEMMA EmitStep ==
    ASSUME IInv, NEW q \in Sources, Emit(q)
    PROVE  IInv'
  <1> DEFINE n == read[q] + 1
             e == file[q][n]
  <1>0. PICK b : b = [src |-> q, pos |-> n, run |-> RunAfter(q, e)]
    OBVIOUS
  <1>1. /\ read[q] < Len(file[q])
        /\ run' = [run EXCEPT ![q] = RunAfter(q, e)]
        /\ read' = [read EXCEPT ![q] = n]
        /\ UNCHANGED <<file, filterFiles, filter, pc, block, at, found, events, decoded, parent,
                       remaining, children, failed, routes, routesFrozen, parsers, parsersFrozen,
                       logger>>
    BY DEF Emit, filterVars, workerVars, unfolderVars, registryVars
  <1>2. /\ PassesFilters(e) => queue' = queue \cup {b}
        /\ ~PassesFilters(e) => queue' = queue
    BY <1>0 DEF Emit, PassesFilters, IsRunControl
  <1>3. RegistriesEvolve
    BY StillEvolve, <1>1 DEF registryVars
  <1>4. SettingsOK
    BY DEF IInv
  <1>5. n \in 1..Len(file[q]) /\ n \in Nat /\ read[q] \in Nat /\ e \in EvioEvents
    BY <1>1, <1>4, FileEvents
  <1>6. RunAfter(q, e) \in Nat
    <2>1. e.run \in Nat
      BY <1>5 DEF EvioEvents
    <2> QED BY <1>4, <2>1, FileEvents DEF RunAfter
  <1>7. b \in BlockEvents /\ b.src = q /\ b.pos = n /\ b # None
    <2>1. b \in BlockEvents
      BY <1>0, <1>5, <1>6 DEF BlockEvents
    <2> QED BY <1>0, <2>1, AbsentIsAbsent
  <1>8. EventOf(b) = e
    BY <1>0 DEF EventOf
  <1> HIDE DEF e
  <1>9. /\ read' \in [Sources -> Nat] /\ read'[q] = n
        /\ \A s \in Sources \ {q} : read'[s] = read[s]
        /\ \A s \in Sources : read[s] \in Nat /\ read'[s] <= Len(file[s]) /\ read[s] <= read'[s]
    BY <1>1, <1>4, <1>5 DEF SettingsOK
  <1> HIDE DEF n
  <1>10. SettingsOK'
    BY <1>1, <1>4, <1>6, <1>9 DEF SettingsOK
  <1>11. WorkersTyped'
    BY <1>1 DEF IInv, WorkersTyped
  <1>12. CarriedAreRead'
    <2>1. ASSUME NEW c, IsRead(c) PROVE IsRead(c)'
      <3>1. c.src \in Sources /\ c.pos \in 1..read[c.src] /\ c \in BlockEvents
        BY <2>1 DEF IsRead, BlockEvents
      <3>2. c.pos \in 1..read'[c.src]
        BY <1>9, <3>1
      <3> QED BY <1>1, <2>1, <3>1, <3>2 DEF IsRead, EventOf, PassesFilters
    <2>2. ASSUME PassesFilters(e) PROVE IsRead(b)'
      <3>1. b.pos \in 1..read'[b.src]
        BY <1>5, <1>7, <1>9
      <3>2. EventOf(b)' = e
        BY <1>1, <1>8 DEF EventOf
      <3> QED BY <1>7, <2>2, <3>1, <3>2 DEF IsRead, PassesFilters
    <2> QED BY <1>1, <1>2, <2>1, <2>2 DEF IInv, CarriedAreRead
  <1>13. WorkersOK'
    BY <1>1, <1>3, WorkerKeeps DEF IInv, WorkersOK
  <1>14. Stages'
    <2>1. SUFFICES ASSUME NEW s \in Sources, NEW i \in 1..Len(file[s]) PROVE Stage(s, i)'
      BY <1>1 DEF Stages
    <2>2. Stage(s, i)
      BY DEF IInv, Stages
    <2>3. /\ UNCHANGED <<Worked(s, i), Decoded(s, i), ChildrenOf(s, i)>>
          /\ Unfolded(s, i)' <=> Unfolded(s, i)
      BY <1>1 DEF Worked, Decoded, ChildrenOf, Unfolded, Holds
    <2>4. CASE s = q /\ i = n
      <3>1. i > read[s] /\ ~(i <= read[s])
        BY <1>5, <2>4 DEF n
      <3>2. ASSUME NEW c, IsRead(c) PROVE ~Holds(c, s, i)
        BY <3>1, <3>2, <1>9 DEF IsRead, Holds
      <3>3. /\ Queued(s, i) = {} /\ Worked(s, i) = {} /\ Decoded(s, i) = {} /\ ~Unfolded(s, i)
        <4>1. \A c \in queue : ~Holds(c, s, i)
          BY <3>2 DEF IInv, CarriedAreRead
        <4>2. \A v \in Workers : ~Holds(block[v], s, i)
          BY <3>2 DEF IInv, CarriedAreRead, Holds
        <4>3. \A d \in decoded : ~Holds(d.block, s, i)
          BY <3>2 DEF IInv, CarriedAreRead
        <4>4. parent # None => ~Holds(parent.block, s, i)
          BY <3>2 DEF IInv, CarriedAreRead
        <4> QED BY <4>1, <4>2, <4>3, <4>4 DEF Queued, Worked, Decoded, Unfolded
      <3>4. NotPassedOn(s, i)
        BY <2>2, <3>1, <3>3
           DEF Stage, InQueue, WithWorker, AwaitingUnfolder, BeingUnfolded, Delivered
      <3>5. file[s][i] = e
        BY <2>4 DEF e
      <3>6. CASE PassesFilters(e)
        <4>1. Holds(b, s, i)
          BY <1>7, <2>4 DEF Holds
        <4>2. Queued(s, i)' = {b} /\ b \in queue'
          BY <1>2, <3>3, <3>6, <4>1 DEF Queued
        <4> QED BY <2>3, <3>4, <4>2 DEF NotPassedOn, InQueue, Stage
      <3>7. CASE ~PassesFilters(e)
        <4>1. Queued(s, i)' = {}
          BY <1>2, <3>3, <3>7 DEF Queued
        <4>2. ~PassesFilters(file[s][i])'
          BY <1>1, <3>5, <3>7 DEF PassesFilters
        <4> QED BY <2>3, <3>4, <4>1, <4>2 DEF NotPassedOn, Stage
      <3> QED BY <3>6, <3>7
    <2>5. CASE ~(s = q /\ i = n)
      <3>1. Queued(s, i)' = Queued(s, i)
        <4>1. ~Holds(b, s, i)
          BY <1>7, <2>5 DEF Holds
        <4> QED BY <1>2, <4>1 DEF Queued
      <3>2. (i > read'[s] <=> i > read[s]) /\ (i <= read'[s] <=> i <= read[s])
        <4>1. CASE s = q
          BY <1>5, <1>9, <2>5, <4>1 DEF n
        <4>2. CASE s # q
          BY <1>9, <4>2
        <4> QED BY <4>1, <4>2
      <3> QED BY <1>1, <2>2, <2>3, <3>1, <3>2, StageKeeps
    <2> QED BY <2>4, <2>5
  <1>15. Allowed' = Allowed
    BY <1>1 DEF Allowed, FilterRows
  <1>16. DecodedOK' /\ ParentOK' /\ FrozenOnceDecoded'
    BY <1>1, <1>15 DEF IInv, DecodedOK, ParentOK, FrozenOnceDecoded, EventOf
  <1>17. ChildrenOK'
    <2>1. ASSUME NEW c \in Range(children) PROVE c.pos \in 1..read'[c.src]
      <3>1. c \in PhysicsLevelEvents /\ c.pos \in 1..read[c.src]
        BY DEF IInv, ChildrenOK, Range
      <3> QED BY <1>9, <3>1 DEF PhysicsLevelEvents
    <2> QED BY <1>1, <1>15, <2>1 DEF IInv, ChildrenOK
  <1> QED BY <1>10, <1>11, <1>12, <1>13, <1>14, <1>16, <1>17 DEF IInv

(* TakeParent keeps the invariant: the block leaves the decoded ones as it *)
(* enters the unfolder.                                                    *)
LEMMA TakeParentStep ==
    ASSUME IInv, TakeParent
    PROVE  IInv'
  <1>1. PICK d \in decoded :
           decoded' = decoded \ {d} /\ parent' = d /\ remaining' = DOMAIN d.hits
    BY DEF TakeParent
  <1>2. /\ parent = None
        /\ UNCHANGED <<file, read, run, filterFiles, filter, queue, pc, block, at, found, events,
                       children, failed, routes, routesFrozen, parsers, parsersFrozen, logger>>
    BY DEF TakeParent, filterVars, sourceVars, workerVars, registryVars
  <1>3. RegistriesEvolve
    BY <1>2, StillEvolve DEF registryVars
  <1>4. /\ d \in DecodedEvents /\ d # None
        /\ IsDecoded(EventOf(d.block), d.hits, Allowed, routes, parsers)
    BY AbsentIsAbsent DEF IInv, DecodedOK
  <1>5. DOMAIN d.hits # {}
    BY <1>4 DEF IsDecoded, IsAcceptable, Numbers
  <1>6. SettingsOK' /\ WorkersTyped'
    BY <1>2 DEF IInv, SettingsOK, WorkersTyped
  <1>7. CarriedAreRead'
    <2>1. ASSUME NEW c PROVE IsRead(c)' <=> IsRead(c)
      BY <1>2 DEF IsRead, EventOf, PassesFilters
    <2> QED BY <1>1, <1>2, <2>1 DEF IInv, CarriedAreRead
  <1>8. WorkersOK'
    BY <1>2, <1>3, WorkerKeeps DEF IInv, WorkersOK
  <1>9. Stages'
    <2>1. SUFFICES ASSUME NEW s \in Sources, NEW i \in 1..Len(file[s]) PROVE Stage(s, i)'
      BY <1>2 DEF Stages
    <2>2. Stage(s, i)
      BY DEF IInv, Stages
    <2>3. UNCHANGED <<Queued(s, i), Worked(s, i), ChildrenOf(s, i)>>
      BY <1>2 DEF Queued, Worked, ChildrenOf, Holds
    <2>4. CASE Holds(d.block, s, i)
      <3>1. d \in Decoded(s, i)
        BY <2>4 DEF Decoded
      <3>2. AwaitingUnfolder(s, i)
        BY <2>2, <3>1
           DEF Stage, NotPassedOn, InQueue, WithWorker, BeingUnfolded, Delivered
      <3>3. Decoded(s, i)' = {}
        BY <1>1, <3>1, <3>2 DEF AwaitingUnfolder, Decoded
      <3>4. Unfolded(s, i)'
        BY <1>1, <1>4, <2>4 DEF Unfolded, Holds
      <3>5. DeliveredNumbers(s, i)' = {} /\ (DOMAIN parent.hits \ remaining)' = {}
        BY <1>1, <2>3, <3>2 DEF AwaitingUnfolder, DeliveredNumbers
      <3> QED BY <2>3, <3>2, <3>3, <3>4, <3>5 DEF AwaitingUnfolder, BeingUnfolded, Stage
    <2>5. CASE ~Holds(d.block, s, i)
      <3>1. Decoded(s, i)' = Decoded(s, i)
        BY <1>1, <2>5 DEF Decoded
      <3>2. ~Unfolded(s, i)' /\ ~Unfolded(s, i)
        BY <1>1, <1>2, <2>5 DEF Unfolded, Holds
      <3> QED BY <1>2, <2>2, <2>3, <3>1, <3>2, StageKeeps
    <2> QED BY <2>4, <2>5
  <1>10. Allowed' = Allowed /\ \A c : EventOf(c)' = EventOf(c)
    BY <1>2 DEF Allowed, FilterRows, EventOf
  <1>11. DecodedOK'
    BY <1>1, <1>2, <1>10 DEF IInv, DecodedOK
  <1>12. ParentOK'
    BY <1>1, <1>2, <1>4, <1>5, <1>10 DEF ParentOK
  <1>13. ChildrenOK' /\ FrozenOnceDecoded'
    BY <1>1, <1>2, <1>10 DEF IInv, ChildrenOK, FrozenOnceDecoded
  <1> QED BY <1>6, <1>7, <1>8, <1>9, <1>11, <1>12, <1>13 DEF IInv

(* The unfolder always has a least event number to go on with.             *)
LEMMA LeastRemaining ==
    ASSUME IInv, parent # None
    PROVE  /\ Least(remaining) \in remaining
           /\ \A m \in remaining : Least(remaining) <= m
           /\ IsFiniteSet(remaining) /\ remaining \subseteq EventNumbers
  <1>1. /\ parent \in DecodedEvents
        /\ remaining # {} /\ remaining \subseteq DOMAIN parent.hits
    BY DEF IInv, ParentOK
  <1>2. DOMAIN parent.hits \subseteq EventNumbers
    BY <1>1 DEF DecodedEvents
  <1>3. HalfRange \in Nat /\ (0 - HalfRange) \in Int
    BY HalfRangeIsPositive
  <1>4. remaining \in SUBSET Int /\ \A n \in remaining : (0 - HalfRange) <= n
    BY <1>1, <1>2, <1>3 DEF EventNumbers
  <1>5. \E n \in remaining : \A m \in remaining : n <= m
    BY <1>1, <1>3, <1>4, LeastOfIntegers
  <1>6. IsFiniteSet(remaining)
    <2>1. IsFiniteSet(EventNumbers)
      <3>1. (HalfRange - 1) \in Int
        BY <1>3
      <3> QED BY <1>3, <3>1, FS_Interval DEF EventNumbers
    <2> QED BY <1>1, <1>2, <2>1, FS_Subset
  <1> QED BY <1>1, <1>2, <1>5, <1>6 DEF Least

(* What the unfolder emits.                                                *)
Child(n) ==
    [src |-> parent.block.src, pos |-> parent.block.pos, num |-> n,
     run |-> parent.block.run, hits |-> parent.hits[n]]

(* A delivered event is well typed, and lists the hits of one number of an *)
(* acceptable block.                                                       *)
LEMMA ChildType ==
    ASSUME IInv, parent # None, NEW n \in remaining
    PROVE  /\ Child(n) \in PhysicsLevelEvents
           /\ IsRead(parent.block)
           /\ IsDecoded(EventOf(parent.block), parent.hits, Allowed, routes, parsers)
           /\ n \in DOMAIN parent.hits
  <1>1. /\ parent \in DecodedEvents /\ n \in DOMAIN parent.hits
        /\ IsDecoded(EventOf(parent.block), parent.hits, Allowed, routes, parsers)
    BY DEF IInv, ParentOK
  <1>2. IsRead(parent.block)
    BY DEF IInv, CarriedAreRead
  <1>3. parent.block \in BlockEvents
        /\ parent.hits \in UNION {[N -> Seq(Nat \X Nat \X Nat)] : N \in SUBSET EventNumbers}
    BY <1>1 DEF DecodedEvents
  <1>4. n \in EventNumbers /\ parent.hits[n] \in Seq(Nat \X Nat \X Nat)
    BY <1>1, <1>3
  <1>5. parent.block.src \in Sources /\ parent.block.pos \in Nat /\ parent.block.run \in Nat
    BY <1>3 DEF BlockEvents
  <1> QED BY <1>1, <1>2, <1>4, <1>5 DEF Child, PhysicsLevelEvents

(* The elements of a sequence with one more.                               *)
LEMMA RangeAppend ==
    ASSUME NEW T, NEW s \in Seq(T), NEW x \in T
    PROVE  Range(Append(s, x)) = Range(s) \cup {x}
  <1> DEFINE t == Append(s, x)
  <1>1. /\ Len(s) \in Nat /\ DOMAIN s = 1..Len(s) /\ DOMAIN t = 1..(Len(s) + 1)
        /\ \A i \in 1..Len(s) : t[i] = s[i]
        /\ t[Len(s) + 1] = x
    BY AppendProperties, LenProperties
  <1> HIDE DEF t
  <1>2. ASSUME NEW i \in DOMAIN t PROVE t[i] \in Range(s) \cup {x}
    BY <1>1 DEF Range
  <1>3. ASSUME NEW i \in DOMAIN s PROVE i \in DOMAIN t /\ t[i] = s[i]
    BY <1>1
  <1>4. Len(s) + 1 \in DOMAIN t
    BY <1>1
  <1>5. Range(t) = Range(s) \cup {x}
    BY <1>1, <1>2, <1>3, <1>4 DEF Range
  <1> QED BY <1>5 DEF t

(* Unfold keeps the invariant: the least remaining number is delivered,    *)
(* and the last one releases the parent.                                   *)
LEMMA UnfoldStep ==
    ASSUME IInv, Unfold
    PROVE  IInv'
  <1> DEFINE n == Least(remaining)
             c == Child(n)
             b == parent.block
             last == Cardinality(remaining) = 1
  <1>1. /\ parent # None
        /\ children' = Append(children, c)
        /\ remaining' = remaining \ {n}
        /\ parent' = IF last THEN None ELSE parent
        /\ UNCHANGED <<file, read, run, filterFiles, filter, queue, pc, block, at, found, events,
                       decoded, failed, routes, routesFrozen, parsers, parsersFrozen, logger>>
    BY DEF Unfold, UnfoldReleasing, Child, filterVars, sourceVars, workerVars, registryVars
  <1>2. n \in remaining /\ IsFiniteSet(remaining)
    BY <1>1, LeastRemaining
  <1>3. /\ c \in PhysicsLevelEvents /\ IsRead(b)
        /\ IsDecoded(EventOf(b), parent.hits, Allowed, routes, parsers)
        /\ n \in DOMAIN parent.hits
    BY <1>1, <1>2, ChildType
  <1>4. c.src = b.src /\ c.pos = b.pos /\ c.num = n
    BY DEF Child
  <1>5. /\ parent \in DecodedEvents /\ remaining # {} /\ remaining \subseteq DOMAIN parent.hits
    BY <1>1 DEF IInv, ParentOK
  <1>6. /\ last => remaining' = {}
        /\ ~last => remaining' # {}
    <2>1. ASSUME last PROVE remaining' = {}
      <3>1. PICK x : remaining = {x}
        BY <1>2, <2>1, FS_Singleton
      <3> QED BY <1>1, <1>2, <3>1
    <2>2. ASSUME ~last PROVE remaining' # {}
      <3>1. remaining # {n}
        BY <2>2, FS_Singleton
      <3> QED BY <1>1, <1>2, <3>1
    <2> QED BY <2>1, <2>2
  <1>7. /\ b \in BlockEvents /\ b # None /\ b.src \in Sources /\ b.pos \in 1..Len(file[b.src])
        /\ b.pos <= read[b.src] /\ PassesFilters(EventOf(b))
    BY <1>3, ReadEvents DEF IInv
  <1>8. /\ Range(children') = Range(children) \cup {c}
        /\ children' \in Seq(PhysicsLevelEvents) /\ children' # << >>
    <2>1. children \in Seq(PhysicsLevelEvents)
      BY DEF IInv, ChildrenOK
    <2>2. children' \in Seq(PhysicsLevelEvents) /\ Len(children') # 0
      BY <1>1, <1>3, <2>1, AppendProperties, LenProperties
    <2> QED BY <1>1, <1>3, <2>1, <2>2, RangeAppend
  <1> HIDE DEF n, c, last
  <1>9. RegistriesEvolve
    BY <1>1, StillEvolve DEF registryVars
  <1>10. SettingsOK' /\ WorkersTyped'
    BY <1>1 DEF IInv, SettingsOK, WorkersTyped
  <1>11. CarriedAreRead'
    <2>1. ASSUME NEW a PROVE IsRead(a)' <=> IsRead(a)
      BY <1>1 DEF IsRead, EventOf, PassesFilters
    <2> QED BY <1>1, <2>1 DEF IInv, CarriedAreRead
  <1>12. WorkersOK'
    BY <1>1, <1>9, WorkerKeeps DEF IInv, WorkersOK
  <1>13. Allowed' = Allowed /\ \A a : EventOf(a)' = EventOf(a)
    BY <1>1 DEF Allowed, FilterRows, EventOf
  <1>14. Stages'
    <2>1. SUFFICES ASSUME NEW s \in Sources, NEW i \in 1..Len(file[s]) PROVE Stage(s, i)'
      BY <1>1 DEF Stages
    <2>2. Stage(s, i)
      BY DEF IInv, Stages
    <2>3. UNCHANGED <<Queued(s, i), Worked(s, i), Decoded(s, i)>>
      BY <1>1 DEF Queued, Worked, Decoded, Holds
    <2>4. CASE Holds(b, s, i)
      <3>1. Unfolded(s, i)
        BY <1>1, <2>4 DEF Unfolded
      <3>2. BeingUnfolded(s, i)
        BY <2>2, <3>1
           DEF Stage, NotPassedOn, InQueue, WithWorker, AwaitingUnfolder, Delivered
      <3>3. ChildrenOf(s, i)' = ChildrenOf(s, i) \cup {c}
        BY <1>4, <1>8, <2>4 DEF ChildrenOf, Holds
      <3>4. DeliveredNumbers(s, i)' = (DOMAIN parent.hits \ remaining) \cup {n}
        <4>1. DeliveredNumbers(s, i)' = DeliveredNumbers(s, i) \cup {c.num}
          BY <3>3 DEF DeliveredNumbers
        <4> QED BY <1>4, <3>2, <4>1 DEF BeingUnfolded
      <3>5. DeliveredNumbers(s, i)' = DOMAIN parent.hits \ remaining'
        BY <1>1, <1>2, <1>3, <3>4
      <3>6. CASE last
        <4>1. ~Unfolded(s, i)'
          BY <1>1, <3>6 DEF Unfolded
        <4>2. DeliveredNumbers(s, i)' = DOMAIN parent.hits
          BY <1>6, <3>5, <3>6
        <4>3. DOMAIN parent.hits = Numbers(file[s][i], Allowed, routes)
          BY <1>3, <2>4 DEF IsDecoded, Holds, EventOf
        <4>4. i <= read[s] /\ PassesFilters(file[s][i])
          BY <1>7, <2>4 DEF Holds, EventOf
        <4>5. (Numbers(file[s][i], Allowed, routes))' = Numbers(file[s][i], Allowed, routes)
          BY <1>1, <1>13
        <4>6. (i <= read[s] /\ PassesFilters(file[s][i]))'
          BY <1>1, <4>4 DEF PassesFilters
        <4>7. (ChildrenOf(s, i) # {})'
          BY <3>3
        <4> QED BY <2>3, <3>2, <4>1, <4>2, <4>3, <4>5, <4>6, <4>7
                DEF BeingUnfolded, Delivered, Stage
      <3>7. CASE ~last
        <4>1. Unfolded(s, i)'
          BY <1>1, <3>1, <3>7 DEF Unfolded, Holds
        <4>2. (DeliveredNumbers(s, i) = DOMAIN parent.hits \ remaining)'
          BY <1>1, <3>5, <3>7
        <4> QED BY <2>3, <3>2, <4>1, <4>2 DEF BeingUnfolded, Stage
      <3> QED BY <3>6, <3>7
    <2>5. CASE ~Holds(b, s, i)
      <3>1. ChildrenOf(s, i)' = ChildrenOf(s, i)
        BY <1>4, <1>7, <1>8, <2>5 DEF ChildrenOf, Holds
      <3>2. ~Unfolded(s, i)' /\ ~Unfolded(s, i)
        BY <1>1, <2>5 DEF Unfolded, Holds
      <3> QED BY <1>1, <2>2, <2>3, <3>1, <3>2, StageKeeps
    <2> QED BY <2>4, <2>5
  <1>15. DecodedOK'
    BY <1>1, <1>13 DEF IInv, DecodedOK
  <1>16. ParentOK'
    <2>1. CASE last
      BY <1>1, <1>6, <2>1 DEF ParentOK
    <2>2. CASE ~last
      BY <1>1, <1>3, <1>5, <1>6, <1>13, <2>2 DEF ParentOK
    <2> QED BY <2>1, <2>2
  <1>17. ChildrenOK'
    <2>1. IsAcceptable(file[c.src][c.pos], Allowed, routes, parsers)
      BY <1>3, <1>4 DEF IsDecoded, EventOf
    <2>2. c.pos \in 1..read[c.src]
      BY <1>3, <1>4 DEF IsRead
    <2> QED BY <1>1, <1>8, <1>13, <2>1, <2>2 DEF IInv, ChildrenOK
  <1>18. FrozenOnceDecoded'
    BY <1>1 DEF IInv, FrozenOnceDecoded
  <1> QED BY <1>10, <1>11, <1>12, <1>14, <1>15, <1>16, <1>17, <1>18 DEF IInv

(* A late route keeps the invariant: nothing was concluded from a map that *)
(* is still open.                                                          *)
LEMMA AddRouteStep ==
    ASSUME IInv, NEW b \in Banks, NEW m \in Modules, AddRoute(b, m)
    PROVE  IInv'
  <1>1. /\ ~routesFrozen /\ routes' = [routes EXCEPT ![b] = m]
        /\ UNCHANGED <<file, read, run, filterFiles, filter, queue, pc, block, at, found, events,
                       decoded, parent, remaining, children, failed, routesFrozen,
                       parsers, parsersFrozen, logger>>
    BY DEF AddRoute, filterVars, sourceVars, workerVars, unfolderVars
  <1>2. RegistriesEvolve
    BY <1>1 DEF RegistriesEvolve, Evolves
  <1>3. SettingsOK' /\ WorkersTyped'
    BY <1>1 DEF IInv, SettingsOK, WorkersTyped
  <1>4. WorkersOK'
    BY <1>1, <1>2, WorkerKeeps DEF IInv, WorkersOK
  <1> QED BY <1>1, <1>2, <1>3, <1>4, BlocksUnmoved

(* So does a late parser.                                                  *)
LEMMA AddParserStep ==
    ASSUME IInv, NEW m \in Modules, NEW p \in Parsers, AddParser(m, p)
    PROVE  IInv'
  <1>1. /\ ~parsersFrozen /\ parsers' = [parsers EXCEPT ![m] = p]
        /\ UNCHANGED <<file, read, run, filterFiles, filter, queue, pc, block, at, found, events,
                       decoded, parent, remaining, children, failed, routes, routesFrozen,
                       parsersFrozen, logger>>
    BY DEF AddParser, filterVars, sourceVars, workerVars, unfolderVars
  <1>2. RegistriesEvolve
    BY <1>1 DEF RegistriesEvolve, Evolves
  <1>3. SettingsOK' /\ WorkersTyped'
    BY <1>1 DEF IInv, SettingsOK, WorkersTyped
  <1>4. WorkersOK'
    BY <1>1, <1>2, WorkerKeeps DEF IInv, WorkersOK
  <1> QED BY <1>1, <1>2, <1>3, <1>4, BlocksUnmoved

(* The invariant holds initially.                                          *)
LEMMA InitInvariant == Init => IInv
  <1> SUFFICES ASSUME Init PROVE IInv
    OBVIOUS
  <1>1. PICK setup \in Setups :
           /\ filterFiles = setup.files /\ filter = FillDB(setup.files)
           /\ failed = IsRefused(setup.files)
           /\ routes = setup.routes /\ parsers = setup.parsers
    BY DEF Init
  <1>2. /\ filterFiles \in Seq(Seq(FilterLines))
        /\ routes \in [Banks -> Modules \cup {NoModule}]
        /\ parsers \in [Modules -> Parsers \cup {NullParser}]
        /\ filter = FillDB(filterFiles)
    BY <1>1, SetupsAreConfigurations
  <1>3. failed \in BOOLEAN
    BY <1>1 DEF IsRefused
  <1>4. SettingsOK
    <2>1. ASSUME NEW s \in Sources PROVE read[s] <= Len(file[s])
      <3>1. file[s] \in Seq(EvioEvents) /\ read[s] = 0
        BY FilesHoldEvents DEF Init
      <3> QED BY <3>1, LenProperties
    <2> QED BY <1>2, <1>3, <2>1 DEF Init, SettingsOK
  <1>5. WorkersTyped
    BY DEF Init, WorkersTyped
  <1>6. CarriedAreRead
    BY DEF Init, CarriedAreRead
  <1>7. WorkersOK
    BY DEF Init, WorkersOK, WorkerOK
  <1>8. children = << >> /\ Range(children) = {}
    BY DEF Init, Range
  <1>9. Stages
    <2>1. SUFFICES ASSUME NEW s \in Sources, NEW i \in 1..Len(file[s]) PROVE Stage(s, i)
      BY DEF Stages
    <2>2. /\ Queued(s, i) = {} /\ Worked(s, i) = {} /\ Decoded(s, i) = {} /\ ~Unfolded(s, i)
          /\ ChildrenOf(s, i) = {}
      BY <1>8 DEF Init, Queued, Worked, Decoded, Unfolded, ChildrenOf, Holds
    <2>3. i > read[s]
      BY DEF Init
    <2> QED BY <2>2, <2>3 DEF Stage, NotPassedOn
  <1>10. DecodedOK /\ ParentOK /\ ChildrenOK /\ FrozenOnceDecoded
    BY <1>8 DEF Init, DecodedOK, ParentOK, ChildrenOK, FrozenOnceDecoded
  <1> QED BY <1>4, <1>5, <1>6, <1>7, <1>9, <1>10 DEF IInv

(* A step that changes nothing keeps it.                                   *)
LEMMA StutterStep ==
    ASSUME IInv, UNCHANGED vars
    PROVE  IInv'
  <1>1. UNCHANGED <<file, read, run, filterFiles, filter, queue, pc, block, at, found, events,
                    decoded, parent, remaining, children, failed, routes, routesFrozen,
                    parsers, parsersFrozen, logger>>
    BY DEF vars, filterVars, sourceVars, workerVars, unfolderVars, registryVars
  <1>2. RegistriesEvolve
    BY <1>1, StillEvolve DEF registryVars
  <1>3. SettingsOK' /\ WorkersTyped'
    BY <1>1 DEF IInv, SettingsOK, WorkersTyped
  <1>4. WorkersOK'
    BY <1>1, <1>2, WorkerKeeps DEF IInv, WorkersOK
  <1> QED BY <1>1, <1>2, <1>3, <1>4, BlocksUnmoved

(* Every step keeps it.                                                    *)
LEMMA NextInvariant == IInv /\ [Next]_vars => IInv'
  <1> SUFFICES ASSUME IInv, [Next]_vars PROVE IInv'
    OBVIOUS
  <1>1. ASSUME NEW s \in Sources, Emit(s) PROVE IInv'
    BY <1>1, EmitStep
  <1>2. ASSUME NEW w \in Workers, Work(w) PROVE IInv'
    BY <1>2, TakeBlockStep, CheckROCStep, LeaveROCStep, SkipBankStep, ResolveBankStep,
       FindParserStep, BindLoggerStep, DecodeBankStep, FinishBlockStep DEF Work
  <1>3. CASE TakeParent
    BY <1>3, TakeParentStep
  <1>4. CASE Unfold
    BY <1>4, UnfoldStep
  <1>5. ASSUME NEW b \in Banks, NEW m \in Modules, AddRoute(b, m) PROVE IInv'
    BY <1>5, AddRouteStep
  <1>6. ASSUME NEW m \in Modules, NEW p \in Parsers, AddParser(m, p) PROVE IInv'
    BY <1>6, AddParserStep
  <1>7. CASE UNCHANGED vars
    BY <1>7, StutterStep
  <1> QED BY <1>1, <1>2, <1>3, <1>4, <1>5, <1>6, <1>7 DEF Next

(* The inductive invariant holds in every behaviour: each block is at one  *)
(* stage, each worker as far as its loops, and whatever was concluded from *)
(* a registry was concluded once it was frozen.                            *)
THEOREM Invariant == Spec => []IInv
  BY InitInvariant, NextInvariant, PTL DEF Spec

-----------------------------------------------------------------------------
(* What the inductive invariant says of the properties.                    *)

(* The pipeline is well typed.                                             *)
THEOREM TypeCorrect == Spec => []TypeOK
  <1>1. IInv => TypeOK
    <2> SUFFICES ASSUME IInv PROVE TypeOK
      OBVIOUS
    <2>1. SettingsOK /\ WorkersTyped
      BY DEF IInv
    <2>2. DOMAIN filter.data \subseteq ROCs
      BY <2>1, FilterMeans DEF SettingsOK
    <2>3. \A s \in Sources : read[s] \in 0..Len(file[s]) /\ run[s] \in Nat
      BY <2>1, FileEvents
    <2>4. queue \subseteq BlockEvents
      BY DEF IInv, CarriedAreRead, IsRead
    <2>5. ASSUME NEW w \in Workers
          PROVE  /\ pc[w] \in {"idle", "roc", "dma", "parser", "bind", "decode", "thrown"}
                 /\ block[w] \in BlockEvents \cup {None}
                 /\ block[w] = None <=> pc[w] = "idle"
                 /\ at[w] \in Nat \X Nat
                 /\ pc[w] = "parser" => found[w] \in Modules
                 /\ pc[w] \in {"bind", "decode"} => found[w] \in Parsers
                 /\ events[w] \in Seq([num : EventNumbers, hit : Nat \X Nat \X Nat])
      <3>1. /\ pc[w] \in {"idle", "roc", "dma", "parser", "bind", "decode", "thrown"}
            /\ block[w] \in BlockEvents \cup {None}
            /\ at[w] \in Nat \X Nat
            /\ events[w] \in Seq([num : EventNumbers, hit : Nat \X Nat \X Nat])
        BY <2>1 DEF WorkersTyped, InLoops, PhysicsEvents
      <3>2. block[w] = None <=> pc[w] = "idle"
        BY DEF IInv, WorkersOK, WorkerOK
      <3> DEFINE e == EventOf(block[w])
                 tag == e.banks[at[w][1]].dmas[at[w][2]].tag
      <3>3. ASSUME pc[w] \in {"parser", "bind", "decode"}
            PROVE  /\ routes[tag] \in Modules
                   /\ pc[w] = "parser" => found[w] = routes[tag]
                   /\ pc[w] # "parser" =>
                         found[w] = parsers[routes[tag]] /\ found[w] # NullParser
        <4>1. /\ e \in EvioEvents
              /\ Working(pc[w], e, at[w], found[w], events[w],
                         Allowed, routes, routesFrozen, parsers, parsersFrozen)
          BY <3>2, <3>3, WorkerFacts
        <4> HIDE DEF e
        <4>2. /\ at[w][1] \in DOMAIN e.banks /\ at[w][2] \in DOMAIN e.banks[at[w][1]].dmas
              /\ routes[tag] # NoModule
              /\ pc[w] = "parser" => found[w] = routes[tag]
              /\ pc[w] # "parser" => found[w] = parsers[routes[tag]] /\ found[w] # NullParser
          BY <3>3, <4>1 DEF Working, InLoops
        <4>3. tag \in Banks
          BY <4>1, <4>2, EventTypes
        <4> QED BY <2>1, <4>2, <4>3 DEF SettingsOK
      <3> HIDE DEF tag
      <3>4. /\ pc[w] = "parser" => found[w] \in Modules
            /\ pc[w] \in {"bind", "decode"} => found[w] \in Parsers
        BY <2>1, <3>3 DEF SettingsOK
      <3> QED BY <3>1, <3>2, <3>4
    <2>6. ASSUME NEW d \in decoded PROVE d.block \in BlockEvents /\ DOMAIN d.hits # {}
      <3>1. d \in DecodedEvents /\ IsDecoded(EventOf(d.block), d.hits, Allowed, routes, parsers)
        BY DEF IInv, DecodedOK
      <3> QED BY <3>1 DEF DecodedEvents, IsDecoded, IsAcceptable, Numbers
    <2>7. /\ parent # None => parent.block \in BlockEvents /\ remaining \subseteq DOMAIN parent.hits
          /\ (parent = None) <=> (remaining = {})
      BY DEF IInv, ParentOK, DecodedEvents
    <2> QED BY <2>1, <2>2, <2>3, <2>4, <2>5, <2>6, <2>7 DEF SettingsOK, TypeOK
  <1> QED BY <1>1, Invariant, PTL

(* Every physics block is in exactly one hand until its last child is out. *)
THEOREM BlockConservation == Spec => []NoBlockLostOrRepeated
  <1>1. IInv => NoBlockLostOrRepeated
    <2> SUFFICES ASSUME IInv, NEW s \in Sources, NEW i \in 1..Len(file[s])
                 PROVE  LET done == /\ {c.num : c \in ChildrenOf(s, i)}
                                         = Numbers(file[s][i], Allowed, routes)
                                    /\ ChildrenOf(s, i) # {}
                        IN  Carriers(s, i) = IF i <= read[s] /\ PassesFilters(file[s][i]) /\ ~done
                                             THEN 1 ELSE 0
      BY DEF NoBlockLostOrRepeated
    <2> DEFINE done == /\ DeliveredNumbers(s, i) = Numbers(file[s][i], Allowed, routes)
                       /\ ChildrenOf(s, i) # {}
               due == i <= read[s] /\ PassesFilters(file[s][i])
    <2>1. Carriers(s, i) = Cardinality(Queued(s, i)) + Cardinality(Worked(s, i))
                             + Cardinality(Decoded(s, i)) + (IF Unfolded(s, i) THEN 1 ELSE 0)
      BY DEF Carriers, Queued, Worked, Decoded, Unfolded
    <2>2. Cardinality({}) = 0 /\ \A x : Cardinality({x}) = 1
      BY FS_EmptySet, FS_Singleton
    <2>3. ASSUME NEW b, IsRead(b), Holds(b, s, i) PROVE due
      BY <2>3, ReadEvents DEF IInv, Holds, EventOf
    <2>4. Stage(s, i)
      BY DEF IInv, Stages
    <2>5. /\ Queued(s, i) # {} \/ Worked(s, i) # {} \/ Decoded(s, i) # {} \/ Unfolded(s, i) => due
      <3>1. \A b \in queue : IsRead(b)
        BY DEF IInv, CarriedAreRead
      <3>2. \A w \in Workers : Holds(block[w], s, i) => IsRead(block[w])
        BY DEF IInv, CarriedAreRead, Holds
      <3>3. \A d \in decoded : IsRead(d.block)
        BY DEF IInv, CarriedAreRead
      <3>4. Unfolded(s, i) => IsRead(parent.block) /\ Holds(parent.block, s, i)
        BY DEF IInv, CarriedAreRead, Unfolded
      <3> HIDE DEF due
      <3> QED BY <2>3, <3>1, <3>2, <3>3, <3>4 DEF Queued, Worked, Decoded
    <2>6. CASE NotPassedOn(s, i)
      <3>1. ~(i <= read[s]) \/ ~PassesFilters(file[s][i])
        <4>1. read[s] \in Nat
          BY DEF IInv, SettingsOK
        <4> QED BY <2>6, <4>1 DEF NotPassedOn
      <3>2. Carriers(s, i) = 0
        BY <2>1, <2>2, <2>6 DEF NotPassedOn
      <3> QED BY <3>1, <3>2
    <2> HIDE DEF due
    <2>7. CASE InQueue(s, i) \/ WithWorker(s, i) \/ AwaitingUnfolder(s, i)
      <3>1. ChildrenOf(s, i) = {}
        BY <2>7 DEF InQueue, WithWorker, AwaitingUnfolder
      <3>2. due
        BY <2>5, <2>7 DEF InQueue, WithWorker, AwaitingUnfolder
      <3>3. Carriers(s, i) = 1
        <4>1. CASE InQueue(s, i)
          <5>1. PICK x : Queued(s, i) = {x}
            BY <4>1 DEF InQueue
          <5>2. Worked(s, i) = {} /\ Decoded(s, i) = {} /\ ~Unfolded(s, i)
            BY <4>1 DEF InQueue
          <5>3. Cardinality(Queued(s, i)) = 1
            BY <5>1, FS_Singleton
          <5>4. Cardinality(Worked(s, i)) = 0 /\ Cardinality(Decoded(s, i)) = 0
            BY <5>2, FS_EmptySet
          <5> QED BY <2>1, <5>2, <5>3, <5>4
        <4>2. CASE WithWorker(s, i)
          <5>1. PICK x : Worked(s, i) = {x}
            BY <4>2 DEF WithWorker
          <5>2. Queued(s, i) = {} /\ Decoded(s, i) = {} /\ ~Unfolded(s, i)
            BY <4>2 DEF WithWorker
          <5>3. Cardinality(Worked(s, i)) = 1
            BY <5>1, FS_Singleton
          <5>4. Cardinality(Queued(s, i)) = 0 /\ Cardinality(Decoded(s, i)) = 0
            BY <5>2, FS_EmptySet
          <5> QED BY <2>1, <5>2, <5>3, <5>4
        <4>3. CASE AwaitingUnfolder(s, i)
          <5>1. PICK x : Decoded(s, i) = {x}
            BY <4>3 DEF AwaitingUnfolder
          <5>2. Queued(s, i) = {} /\ Worked(s, i) = {} /\ ~Unfolded(s, i)
            BY <4>3 DEF AwaitingUnfolder
          <5>3. Cardinality(Decoded(s, i)) = 1
            BY <5>1, FS_Singleton
          <5>4. Cardinality(Queued(s, i)) = 0 /\ Cardinality(Worked(s, i)) = 0
            BY <5>2, FS_EmptySet
          <5> QED BY <2>1, <5>2, <5>3, <5>4
        <4> QED BY <2>7, <4>1, <4>2, <4>3
      <3> QED BY <3>1, <3>2, <3>3 DEF due
    <2>8. CASE BeingUnfolded(s, i)
      <3>1. Unfolded(s, i) /\ parent # None /\ Holds(parent.block, s, i)
        BY <2>8 DEF BeingUnfolded, Unfolded
      <3>2. due
        BY <2>5, <3>1
      <3>3. Carriers(s, i) = 1
        BY <2>1, <2>2, <2>8 DEF BeingUnfolded
      <3>4. /\ IsDecoded(EventOf(parent.block), parent.hits, Allowed, routes, parsers)
            /\ remaining # {} /\ remaining \subseteq DOMAIN parent.hits
        BY <3>1 DEF IInv, ParentOK
      <3>5. DOMAIN parent.hits = Numbers(file[s][i], Allowed, routes)
        BY <3>1, <3>4 DEF IsDecoded, EventOf, Holds
      <3>6. DeliveredNumbers(s, i) = DOMAIN parent.hits \ remaining
        BY <2>8 DEF BeingUnfolded
      <3>7. ~done
        BY <3>4, <3>5, <3>6
      <3> QED BY <3>2, <3>3, <3>7 DEF due, DeliveredNumbers
    <2>9. CASE Delivered(s, i)
      <3>1. done
        BY <2>9 DEF Delivered
      <3>2. Carriers(s, i) = 0
        BY <2>1, <2>2, <2>9 DEF Delivered
      <3> QED BY <3>1, <3>2 DEF DeliveredNumbers
    <2> QED BY <2>4, <2>6, <2>7, <2>8, <2>9 DEF Stage
  <1> QED BY <1>1, Invariant, PTL

(* A worker throws only on a block that is unacceptable.                   *)
THEOREM ThrowingIsJustified == Spec => []ThrowsForCause
  <1>1. IInv => ThrowsForCause
    <2> SUFFICES ASSUME IInv, NEW w \in Workers, pc[w] = "thrown"
                 PROVE  ~IsAcceptable(EventOf(block[w]), Allowed, routes, parsers)
      BY DEF ThrowsForCause
    <2>1. IsHopeless(EventOf(block[w]), Allowed, routes, routesFrozen, parsers, parsersFrozen)
      BY DEF IInv, WorkersOK, WorkerOK, Working
    <2> QED BY <2>1, HopelessIsUnacceptable
  <1> QED BY <1>1, Invariant, PTL

(* An unacceptable block yields no child at all.                           *)
THEOREM AllOrNothing == Spec => []NoPartialBlock
  <1>1. IInv => NoPartialBlock
    BY DEF IInv, ChildrenOK, NoPartialBlock
  <1> QED BY <1>1, Invariant, PTL

-----------------------------------------------------------------------------
(* The pipeline implements EventDelivery.                                  *)

(* The instance reads the data as the pipeline does.                       *)
LEMMA SameData ==
    ASSUME NEW e, NEW f, NEW r, NEW p, NEW n, NEW S
    PROVE  /\ Delivery!Numbers(e, f, r) = Numbers(e, f, r)
           /\ Delivery!HitsOf(e, f, r, n) = HitsOf(e, f, r, n)
           /\ Delivery!IsAcceptable(e, f, r, p) <=> IsAcceptable(e, f, r, p)
           /\ Delivery!Listings(S) = Listings(S)
  <1>1. Delivery!AdmittedBanks(e, f, r) = AdmittedBanks(e, f, r)
    BY DEF AdmittedBanks, PassesFilter, Delivery!AdmittedBanks, Delivery!PassesFilter
  <1>2. Delivery!Hits(e, f, r) = Hits(e, f, r)
    BY <1>1 DEF Hits, Delivery!Hits
  <1>3. \A hit : Delivery!NumberOf(e, hit) = NumberOf(e, hit)
    BY DEF NumberOf, AsInt, Delivery!NumberOf, Delivery!AsInt
  <1>4. Delivery!Numbers(e, f, r) = Numbers(e, f, r)
    BY <1>2, <1>3 DEF Numbers, Delivery!Numbers
  <1>5. Delivery!HitsOf(e, f, r, n) = HitsOf(e, f, r, n)
    BY <1>2, <1>3 DEF HitsOf, Delivery!HitsOf
  <1>6. Delivery!IsConsistent(e) <=> IsConsistent(e)
    BY DEF IsConsistent, TriggerAgrees, Delivery!IsConsistent, Delivery!TriggerAgrees
  <1>7. Delivery!IsParsable(e, f, r, p) <=> IsParsable(e, f, r, p)
    BY <1>1 DEF IsParsable, Delivery!IsParsable
  <1>8. Delivery!IsAcceptable(e, f, r, p) <=> IsAcceptable(e, f, r, p)
    BY <1>2, <1>6, <1>7 DEF IsAcceptable, Delivery!IsAcceptable
  <1>9. Delivery!Listings(S) = Listings(S)
    <2>1. Delivery!Cardinality(S) = Cardinality(S)
      BY DEF Cardinality, Delivery!Cardinality, IsFiniteSet, Delivery!IsFiniteSet
    <2>2. \A g, h : Delivery!Earlier(g, h) <=> Earlier(g, h)
      BY DEF Earlier, Delivery!Earlier
    <2> QED BY <2>1, <2>2 DEF Listings, Delivery!Listings
  <1> QED BY <1>4, <1>5, <1>8, <1>9

(* What EventDelivery sees of a physics-level event.                       *)
SeenAs(c) == [src |-> c.src, pos |-> c.pos, num |-> c.num, hits |-> c.hits]

(* It sees as many events as are delivered, in the same order.             *)
LEMMA SeenLikeChildren ==
    ASSUME children \in Seq(PhysicsLevelEvents)
    PROVE  /\ Seen = [k \in 1..Len(children) |-> SeenAs(children[k])]
           /\ Len(children) \in Nat /\ DOMAIN children = 1..Len(children)
           /\ Seen \in Seq({SeenAs(c) : c \in PhysicsLevelEvents})
           /\ Len(Seen) = Len(children)
           /\ children = << >> <=> Seen = << >>
  <1> DEFINE m == Len(children)
             T == {SeenAs(c) : c \in PhysicsLevelEvents}
  <1>1. m \in Nat /\ DOMAIN children = 1..m /\ \A k \in 1..m : children[k] \in PhysicsLevelEvents
    BY LenProperties, ElementOfSeq
  <1>2. Seen = [k \in 1..m |-> SeenAs(children[k])]
    BY <1>1 DEF Seen, SeenAs
  <1> HIDE DEF m
  <1>3. Seen \in [1..m -> T]
    BY <1>1, <1>2
  <1>4. Seen \in Seq(T)
    BY <1>1, <1>3, SeqDef
  <1>5. Len(Seen) = m
    <2>1. DOMAIN Seen = 1..m /\ DOMAIN Seen = 1..Len(Seen) /\ Len(Seen) \in Nat
      BY <1>2, <1>4, LenProperties
    <2> QED BY <1>1, <2>1
  <1>6. children = << >> <=> m = 0
    BY EmptySeq DEF m
  <1>7. Seen = << >> <=> Len(Seen) = 0
    BY <1>4, EmptySeq
  <1> QED BY <1>1, <1>2, <1>4, <1>5, <1>6, <1>7 DEF m

(* Delivering an event delivers what is seen of it.                        *)
LEMMA SeenGrows ==
    ASSUME children \in Seq(PhysicsLevelEvents), NEW c \in PhysicsLevelEvents,
           children' = Append(children, c)
    PROVE  Seen' = Append(Seen, SeenAs(c))
  <1> DEFINE T == {SeenAs(x) : x \in PhysicsLevelEvents}
             F == [x \in PhysicsLevelEvents |-> SeenAs(x)]
             longer == Append(children, c)
  <1>1. IsMap(F, PhysicsLevelEvents, T)
    BY DEF IsMap
  <1>2. \A k \in DOMAIN children : children[k] \in PhysicsLevelEvents
    BY LenProperties, ElementOfSeq
  <1>3. \A k \in DOMAIN longer : longer[k] \in PhysicsLevelEvents
    <2>1. longer \in Seq(PhysicsLevelEvents)
      BY AppendProperties
    <2> HIDE DEF longer
    <2> QED BY <2>1, LenProperties, ElementOfSeq
  <1>4. Seen = Mapped(F, children)
    BY <1>2 DEF Seen, SeenAs, Mapped
  <1>5. Seen' = Mapped(F, longer)
    <2>1. children' = longer
      OBVIOUS
    <2> HIDE DEF longer
    <2> QED BY <1>3, <2>1 DEF Seen, SeenAs, Mapped
  <1>6. F[c] = SeenAs(c)
    OBVIOUS
  <1> HIDE DEF F, T
  <1>7. Mapped(F, longer) = Append(Mapped(F, children), F[c])
    BY <1>1, MapAppend
  <1> QED BY <1>4, <1>5, <1>6, <1>7

(* What the abstract specification has outstanding of a block.             *)
LEMMA OutstandingNumbers ==
    ASSUME children \in Seq(PhysicsLevelEvents), NEW s, NEW i
    PROVE  Delivery!Outstanding(s, i)
             = Numbers(file[s][i], Allowed, routes) \ DeliveredNumbers(s, i)
  <1>1. /\ Seen = [k \in 1..Len(children) |-> SeenAs(children[k])]
        /\ DOMAIN children = 1..Len(children)
    BY SeenLikeChildren
  <1>2. {c.num : c \in {d \in Range(Seen) : d.src = s /\ d.pos = i}} = DeliveredNumbers(s, i)
    <2>1. ASSUME NEW d \in Range(Seen), d.src = s, d.pos = i PROVE d.num \in DeliveredNumbers(s, i)
      <3>1. PICK k \in 1..Len(children) : d = SeenAs(children[k])
        BY <1>1 DEF Range
      <3>2. children[k] \in ChildrenOf(s, i) /\ children[k].num = d.num
        BY <1>1, <2>1, <3>1 DEF SeenAs, ChildrenOf, Range
      <3> QED BY <3>2 DEF DeliveredNumbers
    <2>2. ASSUME NEW c \in ChildrenOf(s, i)
          PROVE  \E d \in Range(Seen) : d.src = s /\ d.pos = i /\ d.num = c.num
      <3>1. PICK k \in 1..Len(children) : c = children[k]
        BY <1>1 DEF ChildrenOf, Range
      <3>2. c.src = s /\ c.pos = i
        BY DEF ChildrenOf
      <3>3. Seen[k] \in Range(Seen) /\ Seen[k] = SeenAs(c)
        BY <1>1, <3>1 DEF Range
      <3> QED BY <3>2, <3>3 DEF SeenAs
    <2> QED BY <2>1, <2>2 DEF DeliveredNumbers
  <1>3. Delivery!Numbers(file[s][i], Allowed, routes) = Numbers(file[s][i], Allowed, routes)
    BY SameData
  <1>4. Delivery!Range(Seen) = Range(Seen)
    BY DEF Range, Delivery!Range
  <1> QED BY <1>2, <1>3, <1>4 DEF Delivery!Outstanding

(* The initial states are initial states of EventDelivery.                 *)
LEMMA RefinesInit == Init => Delivery!Init
  <1> SUFFICES ASSUME Init PROVE Delivery!Init
    OBVIOUS
  <1>1. SettingsOK
    BY InitInvariant DEF IInv
  <1>2. Allowed \in SUBSET (ROCs \X Banks)
    BY <1>1, FilterMeans DEF SettingsOK
  <1>3. Seen = << >>
    BY DEF Init, Seen
  <1> QED BY <1>1, <1>2, <1>3 DEF Init, SettingsOK, Delivery!Init

(* A worker that throws is the abstract failure.                           *)
LEMMA ThrowRefines ==
    ASSUME IInv', NEW w \in Workers, pc'[w] = "thrown", failed' = TRUE,
           UNCHANGED <<file, filterFiles, routes, parsers, children>>
    PROVE  Delivery!Fail
  <1>1. WorkerOK(w)' /\ SettingsOK' /\ CarriedAreRead'
    BY DEF IInv, WorkersOK
  <1>2. block'[w] # None
    BY <1>1 DEF WorkerOK
  <1>3. PICK b : b = block'[w]
    OBVIOUS
  <1>4. EventOf(b) = file[b.src][b.pos] /\ EventOf(b)' = EventOf(b)
    BY DEF EventOf
  <1>5. IsRead(b)'
    BY <1>1, <1>2, <1>3 DEF CarriedAreRead
  <1>6. /\ b.src \in Sources /\ b.pos \in DOMAIN file[b.src]
        /\ PassesFilters(file[b.src][b.pos])
    <2>1. b \in BlockEvents /\ b.pos \in 1..read'[b.src] /\ PassesFilters(EventOf(b))
      BY <1>4, <1>5 DEF IsRead, PassesFilters
    <2>2. b.src \in Sources
      BY <2>1 DEF BlockEvents
    <2>3. file[b.src] \in Seq(EvioEvents) /\ read'[b.src] \in Nat /\ read'[b.src] <= Len(file[b.src])
      BY <1>1, <2>2, FilesHoldEvents DEF SettingsOK
    <2>4. Len(file[b.src]) \in Nat /\ DOMAIN file[b.src] = 1..Len(file[b.src])
      BY <2>3, LenProperties
    <2> QED BY <1>4, <2>1, <2>2, <2>3, <2>4
  <1>7. Allowed' = Allowed
    BY DEF Allowed, FilterRows
  <1>8. IsHopeless(EventOf(b), Allowed, routes, routesFrozen', parsers, parsersFrozen')
    <2>1. (EventOf(block[w]))' = EventOf(b)
      BY <1>3 DEF EventOf
    <2> QED BY <1>1, <1>7, <2>1 DEF WorkerOK, Working
  <1>9. ~Delivery!IsAcceptable(file[b.src][b.pos], Allowed, routes, parsers)
    BY <1>4, <1>8, HopelessIsUnacceptable, SameData
  <1>10. Delivery!IsPhysicsBlock(b.src, b.pos)
    BY <1>6 DEF PassesFilters, Delivery!IsPhysicsBlock
  <1>11. Seen' = Seen
    BY DEF Seen
  <1> QED BY <1>6, <1>7, <1>9, <1>10, <1>11 DEF Delivery!Fail

(* The unfolder's step delivers the next event of its block.               *)
LEMMA UnfoldRefines ==
    ASSUME IInv, Unfold
    PROVE  \E s \in Sources : \E i \in DOMAIN file[s] : Delivery!Deliver(s, i)
  <1> DEFINE n == Least(remaining)
             b == parent.block
             c == Child(n)
  <1>1. /\ parent # None /\ ~failed
        /\ children' = Append(children, c)
        /\ UNCHANGED <<file, filterFiles, failed, routes, parsers>>
    BY DEF Unfold, UnfoldReleasing, Child, filterVars, sourceVars, workerVars, registryVars
  <1>2. n \in remaining /\ \A m \in remaining : n <= m
    BY <1>1, LeastRemaining
  <1>3. /\ c \in PhysicsLevelEvents /\ IsRead(b)
        /\ IsDecoded(EventOf(b), parent.hits, Allowed, routes, parsers)
        /\ n \in DOMAIN parent.hits
    BY <1>1, <1>2, ChildType
  <1>4. /\ SeenAs(c) = [src |-> b.src, pos |-> b.pos, num |-> n, hits |-> parent.hits[n]]
    BY DEF Child, SeenAs
  <1>5. /\ b.src \in Sources /\ b.pos \in 1..Len(file[b.src])
        /\ PassesFilters(EventOf(b)) /\ EventOf(b) = file[b.src][b.pos]
        /\ DOMAIN file[b.src] = 1..Len(file[b.src])
    BY <1>3, ReadEvents, FileEvents DEF IInv, EventOf
  <1>6. children \in Seq(PhysicsLevelEvents)
    BY DEF IInv, ChildrenOK
  <1>7. remaining \subseteq DOMAIN parent.hits
    BY <1>1 DEF IInv, ParentOK
  <1> HIDE DEF c, n
  <1> DEFINE s == b.src
             i == b.pos
             e == file[s][i]
  <1>8. Stage(s, i)
    BY <1>5 DEF IInv, Stages
  <1>9. BeingUnfolded(s, i)
    <2>1. Unfolded(s, i)
      BY <1>1, <1>3, ReadEvents DEF IInv, Unfolded, Holds
    <2> QED BY <1>8, <2>1
            DEF Stage, NotPassedOn, InQueue, WithWorker, AwaitingUnfolder, Delivered
  <1>10. DOMAIN parent.hits = Numbers(e, Allowed, routes)
    BY <1>3, <1>5 DEF IsDecoded
  <1>11. Delivery!Outstanding(s, i) = remaining
    <2>1. DeliveredNumbers(s, i) = DOMAIN parent.hits \ remaining
      BY <1>9 DEF BeingUnfolded
    <2>2. Delivery!Outstanding(s, i) = Numbers(e, Allowed, routes) \ DeliveredNumbers(s, i)
      BY <1>6, OutstandingNumbers
    <2> QED BY <1>7, <1>10, <2>1, <2>2
  <1>12. parent.hits[n] \in Delivery!Listings(Delivery!HitsOf(e, Allowed, routes, n))
    <2>1. parent.hits[n] \in Listings(HitsOf(e, Allowed, routes, n))
      BY <1>3, <1>5 DEF IsDecoded
    <2> QED BY <2>1, SameData
  <1>13. Delivery!IsAcceptable(e, Allowed, routes, parsers)
    BY <1>3, <1>5, SameData DEF IsDecoded
  <1>14. Delivery!IsPhysicsBlock(s, i)
    BY <1>5 DEF PassesFilters, Delivery!IsPhysicsBlock
  <1>15. ASSUME Seen # << >>
         PROVE  LET last == Seen[Len(Seen)]
                IN  <<last.src, last.pos>> = <<s, i>>
                      \/ Delivery!Outstanding(last.src, last.pos) = {}
    <2> DEFINE m == Len(children)
               d == children[m]
               last == Seen[Len(Seen)]
    <2>1. m \in Nat /\ m # 0 /\ DOMAIN children = 1..m /\ Len(Seen) = m
      BY <1>6, <1>15, SeenLikeChildren, EmptySeq
    <2>2. last = SeenAs(d)
      BY <1>6, <2>1, SeenLikeChildren
    <2>3. last.src = d.src /\ last.pos = d.pos
      BY <2>2 DEF SeenAs
    <2>4. d \in Range(children) /\ d \in PhysicsLevelEvents
      BY <1>6, <2>1, ElementOfSeq DEF Range
    <2> HIDE DEF d, last
    <2>5. d.src \in Sources /\ d.pos \in 1..Len(file[d.src])
      <3>1. d.pos \in 1..read[d.src] /\ d.src \in Sources
        BY <2>4 DEF IInv, ChildrenOK, PhysicsLevelEvents
      <3>2. read[d.src] \in Nat /\ Len(file[d.src]) \in Nat /\ read[d.src] <= Len(file[d.src])
        BY <3>1, FileEvents DEF IInv
      <3> QED BY <3>1, <3>2
    <2>6. ChildrenOf(d.src, d.pos) # {}
      BY <2>4 DEF ChildrenOf
    <2>7. BeingUnfolded(d.src, d.pos) \/ Delivered(d.src, d.pos)
      <3>1. Stage(d.src, d.pos)
        BY <2>5 DEF IInv, Stages
      <3> QED BY <2>6, <3>1 DEF Stage, NotPassedOn, InQueue, WithWorker, AwaitingUnfolder
    <2>8. ASSUME BeingUnfolded(d.src, d.pos) PROVE d.src = s /\ d.pos = i
      BY <2>8 DEF BeingUnfolded, Unfolded, Holds
    <2>9. ASSUME Delivered(d.src, d.pos) PROVE Delivery!Outstanding(d.src, d.pos) = {}
      <3>1. DeliveredNumbers(d.src, d.pos) = Numbers(file[d.src][d.pos], Allowed, routes)
        BY <2>9 DEF Delivered
      <3> QED BY <1>6, <3>1, OutstandingNumbers
    <2>10. (last.src = s /\ last.pos = i) \/ Delivery!Outstanding(last.src, last.pos) = {}
      BY <2>3, <2>7, <2>8, <2>9
    <2> HIDE DEF s, i
    <2>11. <<last.src, last.pos>> = <<s, i>> \/ Delivery!Outstanding(last.src, last.pos) = {}
      BY <2>10
    <2> QED BY <2>11 DEF last
  <1>16. Seen' = Append(Seen, SeenAs(c))
    BY <1>1, <1>3, <1>6, SeenGrows
  <1>17. Allowed' = Allowed
    BY <1>1 DEF Allowed, FilterRows
  <1>18. \A m \in Delivery!Outstanding(s, i) : n <= m
    BY <1>2, <1>11
  <1> HIDE DEF s, i
  <1>19. Delivery!Deliver(s, i)
    BY <1>1, <1>2, <1>4, <1>11, <1>12, <1>13, <1>14, <1>15, <1>16, <1>17, <1>18
       DEF Delivery!Deliver, s, i
  <1> QED BY <1>5, <1>19 DEF s, i

(* Late registrations are the abstract configuration.                      *)
LEMMA ConfigureRefines ==
    ASSUME IInv, IInv', ~routesFrozen \/ ~parsersFrozen,
           UNCHANGED <<file, filterFiles, children, failed>>
    PROVE  Delivery!Configure
  <1>1. children = << >>
    BY DEF IInv, FrozenOnceDecoded
  <1>2. Seen = << >> /\ Seen' = Seen
    BY <1>1 DEF Seen
  <1>3. /\ routes' \in [Banks -> Modules \cup {NoModule}]
        /\ parsers' \in [Modules -> Parsers \cup {NullParser}]
    BY DEF IInv, SettingsOK
  <1>4. Allowed' = Allowed
    BY DEF Allowed, FilterRows
  <1> QED BY <1>2, <1>3, <1>4 DEF Delivery!Configure

(* A step that delivers nothing, registers nothing and does not fail.      *)
LEMMA StutterRefines ==
    ASSUME UNCHANGED <<file, filterFiles, routes, parsers, children, failed>>
    PROVE  UNCHANGED Delivery!vars
  BY DEF Delivery!vars, Seen, Allowed, FilterRows

(* Every step is a step of EventDelivery or leaves its variables alone.    *)
LEMMA RefinesNext == IInv /\ IInv' /\ [Next]_vars => [Delivery!Next]_Delivery!vars
  <1> SUFFICES ASSUME IInv, IInv', [Next]_vars
               PROVE  [Delivery!Next]_Delivery!vars
    OBVIOUS
  <1> USE DEF filterVars, sourceVars, workerVars, unfolderVars, registryVars
  <1>1. ASSUME NEW s \in Sources, Emit(s) PROVE UNCHANGED Delivery!vars
    BY <1>1, StutterRefines DEF Emit
  <1>2. ASSUME NEW w \in Workers, Work(w) PROVE [Delivery!Next]_Delivery!vars
    <2>1. UNCHANGED <<file, filterFiles, routes, parsers, children>>
      BY <1>2 DEF Work, TakeBlock, CheckROC, LeaveROC, SkipBank, ResolveBank, FindParser,
                  BindLogger, DecodeBank, FinishBlock
    <2>2. UNCHANGED failed \/ (failed' = TRUE /\ pc'[w] = "thrown")
      <3>1. w \in DOMAIN pc
        BY DEF IInv, WorkersTyped
      <3> QED BY <1>2, <3>1
              DEF Work, TakeBlock, CheckROC, LeaveROC, SkipBank, ResolveBank, FindParser,
                  BindLogger, DecodeBank, FinishBlock, Throw
    <2>3. CASE UNCHANGED failed
      BY <2>1, <2>3, StutterRefines
    <2>4. CASE failed' = TRUE /\ pc'[w] = "thrown"
      BY <2>1, <2>4, ThrowRefines DEF Delivery!Next
    <2> QED BY <2>2, <2>3, <2>4
  <1>3. CASE TakeParent
    BY <1>3, StutterRefines DEF TakeParent
  <1>4. CASE Unfold
    BY <1>4, UnfoldRefines DEF Delivery!Next
  <1>5. ASSUME NEW b \in Banks, NEW m \in Modules, AddRoute(b, m)
        PROVE  [Delivery!Next]_Delivery!vars
    BY <1>5, ConfigureRefines DEF AddRoute, Delivery!Next
  <1>6. ASSUME NEW m \in Modules, NEW p \in Parsers, AddParser(m, p)
        PROVE  [Delivery!Next]_Delivery!vars
    BY <1>6, ConfigureRefines DEF AddParser, Delivery!Next
  <1>7. CASE UNCHANGED vars
    BY <1>7, StutterRefines DEF vars
  <1> QED BY <1>1, <1>2, <1>3, <1>4, <1>5, <1>6, <1>7 DEF Next

(* The pipeline delivers what EventDelivery promises.                      *)
THEOREM Refinement == Spec => ImplementsDelivery
  BY RefinesInit, RefinesNext, Invariant, PTL DEF Spec, ImplementsDelivery, Delivery!Spec

=============================================================================

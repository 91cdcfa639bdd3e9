------------------------------ MODULE EvioData ------------------------------
(***************************************************************************)
(* EVIO blocks as the event source and the parser see them, and what the   *)
(* configuration makes of them.  A block carries one trigger bank and one  *)
(* data bank per readout controller (ROC); a data bank holds DMA banks,    *)
(* each from one kind of module.  What the module parsers make of a DMA    *)
(* bank is abstracted to the PhysicsEvents they append: one per offset     *)
(* from the block's first event number, in that order.                     *)
(*                                                                         *)
(* A hit is named by where it comes from: <<i, j, k>> is what the k-th     *)
(* PhysicsEvent of the j-th DMA bank of the i-th data bank holds.          *)
(***************************************************************************)
EXTENDS Integers, Sequences, SequencesExt, FiniteSets

CONSTANTS ROCs,      \* ROC IDs
          Banks,     \* DMA bank tags
          Modules,   \* module IDs
          NoModule,  \* getModuleId's -1
          NullParser,\* getParser's nullptr
          HalfRange  \* an int event number is in -HalfRange..HalfRange-1

ASSUME HalfRangeIsPositive == HalfRange \in Nat \ {0}

\* What a DMA bank's words decode to: the parser throws unless sound.
Bodies == [sound : BOOLEAN, offsets : Seq(Int)]

DMABanks == [tag : Banks, body : Bodies]

DataBanks == [roc : ROCs, dmas : Seq(DMABanks)]

\* An event of a file.  header is the ROC count in the trigger bank's header,
\* segments are the ROC IDs of its UINT32 children; built says that it has a
\* first child, the event builder's, which first comes from.
EvioEvents ==
    [kind : {"physics", "prestart", "control", "other"},
     filled : BOOLEAN,       \* does it have child structures?
     run : Nat,              \* the second data word of a prestart event
     first : Nat,            \* the first event number, 64 bits
     built : BOOLEAN,
     header : Nat,
     segments : Seq(ROCs),
     banks : Seq(DataBanks)]

-----------------------------------------------------------------------------

\* What a filter, as a set of <<ROC, bank>> pairs, lets through; the empty one
\* lets everything through.
PassesFilter(filter, roc, tag) == filter = {} \/ <<roc, tag>> \in filter

\* The event number a PhysicsEvent keeps: a 64-bit number stored in an int.
AsInt(n) == ((n + HalfRange) % (2 * HalfRange)) - HalfRange

EventNumbers == (0 - HalfRange)..(HalfRange - 1)

\* The DMA banks, by position, that are neither filtered out nor unmapped.
AdmittedBanks(e, filter, routes) ==
    UNION {LET bank == e.banks[i]
               Admitted(j) == /\ PassesFilter(filter, bank.roc, bank.dmas[j].tag)
                              /\ routes[bank.dmas[j].tag] # NoModule
           IN  {<<i, j>> : j \in {k \in DOMAIN bank.dmas : Admitted(k)}} :
              i \in DOMAIN e.banks}

\* Every hit of the block that is to be delivered, and the event it is of.
Hits(e, filter, routes) ==
    UNION {{<<at[1], at[2], k>> : k \in DOMAIN e.banks[at[1]].dmas[at[2]].body.offsets} :
              at \in AdmittedBanks(e, filter, routes)}

NumberOf(e, hit) == AsInt(e.first + e.banks[hit[1]].dmas[hit[2]].body.offsets[hit[3]])

Numbers(e, filter, routes) == {NumberOf(e, hit) : hit \in Hits(e, filter, routes)}

HitsOf(e, filter, routes, n) == {hit \in Hits(e, filter, routes) : NumberOf(e, hit) = n}

\* The order of the readout.
Earlier(g, h) ==
    \/ g[1] < h[1]
    \/ g[1] = h[1] /\ g[2] < h[2]
    \/ g[1] = h[1] /\ g[2] = h[2] /\ g[3] < h[3]

\* The sequences that list the hits in S in the order of the readout.
Listings(S) ==
    {h \in [1..Cardinality(S) -> S] : \A j, k \in DOMAIN h : j < k => Earlier(h[j], h[k])}

\* The trigger bank has its first child (the .at(0) that throws), and announces
\* exactly the data banks that follow it.
TriggerAgrees(e) ==
    /\ e.built
    /\ e.header = Len(e.segments)
    /\ Len(e.banks) = Len(e.segments)

IsConsistent(e) == TriggerAgrees(e) /\ \A i \in DOMAIN e.banks : e.segments[i] = e.banks[i].roc

\* Can every admitted bank be parsed?
IsParsable(e, filter, routes, parsers) ==
    \A at \in AdmittedBanks(e, filter, routes) :
        LET dma == e.banks[at[1]].dmas[at[2]]
        IN  parsers[routes[dma.tag]] # NullParser /\ dma.body.sound

\* The blocks whose hits are delivered; any other block ends the processing.
IsAcceptable(e, filter, routes, parsers) ==
    /\ IsConsistent(e)
    /\ IsParsable(e, filter, routes, parsers)
    /\ Hits(e, filter, routes) # {}

=============================================================================

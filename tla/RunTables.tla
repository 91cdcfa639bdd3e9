------------------------------ MODULE RunTables ------------------------------
(***************************************************************************)
(* The detector mappings as the translation-table service reads them.  A   *)
(* catalog is a set of manifests, one per detector; a manifest gives the   *)
(* detector's mapping file for ranges of runs.  A combined table is named  *)
(* by the detectors' files it is loaded from, which is how loadTables      *)
(* shares tables: two tables of one name are one object.                   *)
(*                                                                         *)
(* Run numbers are 0..MaxRun; MaxRun stands for the largest 64-bit number, *)
(* which the manifests spell "max".                                        *)
(***************************************************************************)
EXTENDS Integers, Sequences

CONSTANTS MaxRun,
          Detectors,
          MappingFiles,
          Channels,   \* the DAQ addresses that each mapping file lists
          Malformed   \* the mapping files that do not parse, are not there,
                      \* name another detector or are outside the directory

ASSUME MaxRunIsNat == MaxRun \in Nat

Runs == 0..MaxRun

\* DetectorMappingRunRange, as a manifest's rows give it.
Ranges == [min : Runs, max : Runs, file : MappingFiles]

Manifests == [detector : Detectors, ranges : SUBSET Ranges]

Tables == SUBSET (Detectors \X MappingFiles)

\* RunRangeTable.
RunRangeTables == [min : Runs, max : Runs, table : Tables]

Covers(range, run) == range.min <= run /\ run <= range.max

\* What loadDetectorMappingManifest accepts: the sort by run_min puts any two
\* ranges that overlap into an order in which its loop finds an overlap.
IsManifest(ranges) ==
    /\ ranges # {}
    /\ \A g \in ranges : g.min <= g.max
    /\ \A g, h \in ranges : g = h \/ g.max < h.min \/ h.max < g.min

\* What loadDetectorMappingCatalog and the loads of its manifests accept.
IsCatalog(catalog) ==
    /\ catalog # {}
    /\ \A m, n \in catalog : m.detector = n.detector => m = n
    /\ \A m \in catalog : IsManifest(m.ranges)

\* findRange: the range before the upper bound, if it reaches the run.
FindRange(ranges, run) ==
    {g \in ranges : /\ g.min <= run
                    /\ \A h \in ranges : h.min <= run => h.min <= g.min
                    /\ run <= g.max}

\* mapping_files: the files of the detectors that have a range for the run.
Selected(manifests, run) ==
    UNION {{<<m.detector, g.file>> : g \in FindRange(m.ranges, run)} : m \in manifests}

\* LoadMappingFile on each of them: no address may be listed twice.
IsLoadable(table) ==
    /\ \A e \in table : e[2] \notin Malformed
    /\ \A e, g \in table : e # g => Channels[e[2]] \cap Channels[g[2]] = {}

\* The runs at which a detector's file may change.
\* (In the faulty variant, without the check for the largest number.)
BoundariesOverflowing(ranges) == {g.min : g \in ranges} \cup {g.max + 1 : g \in ranges}

Boundaries(ranges) ==
    {g.min : g \in ranges} \cup {g.max + 1 : g \in {h \in ranges : h.max # MaxRun}}

\* The end of the body of loadTables' loop: an interval without a table is
\* left out, one that continues the interval before is merged with it.
\* (In the faulty variant it is never merged.)
ExtendedApart(built, min, max, table) ==
    IF table = {} THEN built ELSE Append(built, [min |-> min, max |-> max, table |-> table])

Extended(built, min, max, table) ==
    IF table = {} THEN built
    ELSE IF /\ built # << >>
            /\ built[Len(built)].max # MaxRun
            /\ built[Len(built)].max + 1 = min
            /\ built[Len(built)].table = table
         THEN [built EXCEPT ![Len(built)] = [@ EXCEPT !.max = max]]
         ELSE Append(built, [min |-> min, max |-> max, table |-> table])

\* What the search relies on, and what the merging is for.
IsOrdered(tables) ==
    /\ \A k \in DOMAIN tables : tables[k].min <= tables[k].max
    /\ \A j, k \in DOMAIN tables : j < k => tables[j].max < tables[k].min
    /\ \A j, k \in DOMAIN tables :
          k = j + 1 /\ tables[j].max + 1 = tables[k].min => tables[j].table # tables[k].table

\* getTable's search: the position before the upper bound, 0 if there is none.
IsPosition(tables, run, k) ==
    /\ k \in 0..Len(tables)
    /\ k > 0 => tables[k].min <= run
    /\ k < Len(tables) => run < tables[k + 1].min

=============================================================================

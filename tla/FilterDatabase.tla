--------------------------- MODULE FilterDatabase ---------------------------
(***************************************************************************)
(* JEventService_FilterDB: which ROCs, banks, slots and modules are let    *)
(* through.  The rows come from layered files - the core file or the one   *)
(* that FILTER:FILE names instead, then one per directory of additions -   *)
(* and are kept by ROC in three lists, which lookups by worker threads     *)
(* read and nobody changes.                                                *)
(***************************************************************************)
EXTENDS Naturals, Sequences, SequencesExt

Columns == {"banks", "slots", "modules"}

\* m_rows, and data: the lists of each ROC that has a row.
NoRows == [rows |-> {}, data |-> << >>]

\* A line is a row, a comment or blank line, or malformed: with a field missing
\* or in excess, or a number that is negative or too large.
IsRow(line) == line.kind = "row"

IsMalformed(line) == line.kind = "malformed"

-----------------------------------------------------------------------------

ListsOf(db, roc) == IF roc \in DOMAIN db.data THEN db.data[roc] ELSE [c \in Columns |-> << >>]

\* Faulty variant: of a ROC that has a row already the later rows are ignored.
InsertedOnce(db, row) ==
    [rows |-> db.rows \cup {row},
     data |-> [roc \in DOMAIN db.data \cup {row.roc} |->
                  IF roc \in DOMAIN db.data THEN db.data[roc]
                  ELSE [banks |-> <<row.bank>>, slots |-> <<row.slot>>,
                        modules |-> <<row.module>>]]]

\* One push_back per column, of a row not seen before.
Inserted(db, row) ==
    LET lists == ListsOf(db, row.roc)
    IN  [rows |-> db.rows \cup {row},
         data |-> [roc \in DOMAIN db.data \cup {row.roc} |->
                      IF roc = row.roc
                      THEN [banks   |-> Append(lists["banks"], row.bank),
                            slots   |-> Append(lists["slots"], row.slot),
                            modules |-> Append(lists["modules"], row.module)]
                      ELSE db.data[roc]]]

\* One turn of fillDB's loop over the lines of a file.
FillLine(db, line) ==
    IF IsRow(line) /\ line \notin db.rows THEN Inserted(db, line) ELSE db

\* fillDB, the whole loop over the lines of one file.
FillFile(db, lines) ==
    LET after[k \in 0..Len(lines)] ==
            IF k = 0 THEN db ELSE FillLine(after[k - 1], lines[k])
    IN  after[Len(lines)]

\* Init, when filtering is enabled; it throws at a malformed line.
FillDB(files) ==
    LET after[k \in 0..Len(files)] ==
            IF k = 0 THEN NoRows ELSE FillFile(after[k - 1], files[k])
    IN  after[Len(files)]

\* The rows of a file.
RowsOf(lines) == {line \in Range(lines) : IsRow(line)}

IsRefused(files) == \E i \in DOMAIN files : \E j \in DOMAIN files[i] : IsMalformed(files[i][j])

-----------------------------------------------------------------------------

\* A database without a row filters nothing.
IsROCAllowed(db, roc) == DOMAIN db.data = {} \/ roc \in DOMAIN db.data

\* isBankAllowed, isSlotAllowed and isModuleAllowed, which differ in the column.
IsAllowed(db, column, roc, value) ==
    \/ DOMAIN db.data = {}
    \/ roc \in DOMAIN db.data /\ value \in Range(db.data[roc][column])

IsBankAllowed(db, roc, bank) == IsAllowed(db, "banks", roc, bank)

=============================================================================

----------------------------- MODULE DataAssets ------------------------------
(* Data tables and curves: data_table.* and curve.*.  A row is the set of    *)
(* its fields that were written; of a curve's keys only their times and      *)
(* numbers are told apart.                                                   *)
EXTENDS EditorSession, Integers, Sequences, SequencesExt

CONSTANTS
  Rows,          \* row names, as naturals in FName's order
  RowPrinted,    \* a row -> the rank of its text
  Fields,        \* properties of the row's struct
  TableAt,       \* the package of the table
  CurveAt,       \* the package of the curve
  CurveChannels, \* R, G, B, A or X, Y, Z, or the curve of a row
  KeyTimes,
  KeyMax         \* bound: keys at one time

ASSUME RowsAreNumbers ==
  /\ Rows \subseteq Nat /\ IsFiniteSet(Rows)
  /\ \A r \in Rows : RowPrinted[r] \in Nat

VARIABLES
  table,         \* row -> fields written
  keysOf         \* channel -> time -> number of keys

dataVars == <<table, keysOf>>

DataInit ==
  /\ table = [r \in {} |-> {}]
  /\ keysOf = [c \in CurveChannels |-> [t \in KeyTimes |-> 0]]

\* data_table.set_row; fields that the struct lacks, or whose value does not
\* fit, are skipped and counted, and a row may be created with none.
SetRow ==
  \E r \in Rows, given \in SUBSET Fields, create \in BOOLEAN :
    /\ r \in DOMAIN table \/ create
    /\ table' = [s \in DOMAIN table \cup {r} |->
         (IF s \in DOMAIN table THEN table[s] ELSE {}) \cup (IF s = r THEN given ELSE {})]
    /\ Edit({TableAt})
    /\ UNCHANGED keysOf

\* data_table.delete_row; a row that is not there is an answer, not an error,
\* and aborts the scope.
DeleteRow ==
  \E r \in DOMAIN table :
    /\ table' = [s \in DOMAIN table \ {r} |-> table[s]]
    /\ Edit({TableAt})
    /\ UNCHANGED keysOf

\* curve.set_data: all keys are parsed and assigned to a channel first, then
\* every channel is emptied and filled; two keys may have one time.
SetCurveData ==
  /\ keysOf' \in [CurveChannels -> [KeyTimes -> 0 .. KeyMax]]
  /\ Edit({CurveAt})
  /\ UNCHANGED table

\* curve.add_key replaces a key at that time.
AddCurveKey ==
  \E c \in CurveChannels, t \in KeyTimes :
    /\ keysOf' = [keysOf EXCEPT ![c][t] = IF @ = 0 THEN 1 ELSE @]
    /\ Edit({CurveAt})
    /\ UNCHANGED table

\* The replies: data_table.get_rows sorts by name and skips the rows whose text
\* is not after the token's.
RowsFrom(sorted, token) ==
  LET Skipped(n) == \A i \in 1 .. n : RowPrinted[sorted[i]] <= RowPrinted[token]
      first == CHOOSE n \in 0 .. Len(sorted) :
                 Skipped(n) /\ (n < Len(sorted) => ~Skipped(n + 1))
  IN  SubSeq(sorted, first + 1, Len(sorted))
GetRows(sorted, token, size) ==
  SubSeq(RowsFrom(sorted, token), 1, IF Len(RowsFrom(sorted, token)) < size THEN Len(RowsFrom(sorted, token)) ELSE size)
GetCurveData == keysOf

\* data_table.list and curve.list give a page of the assets of their classes.
ListDataAssets(assets, kinds, kindOf) == SelectSeq(assets, LAMBDA a : kindOf[a] \in kinds)
ListTables(assets, kindOf)            == ListDataAssets(assets, {"UDataTable"}, kindOf)
ListCurves(assets, kinds, kindOf)     == ListDataAssets(assets, kinds, kindOf)

DataNext == SetRow \/ DeleteRow \/ SetCurveData \/ AddCurveKey

------------------------------------------------------------------------------
(* Properties.                                                              *)

SortedRows ==
  CHOOSE s \in [1 .. Cardinality(DOMAIN table) -> DOMAIN table] :
    \A i, k \in DOMAIN s : i < k => s[i] < s[k]

\* What the pages show that follow the row `after`, each with the last row of
\* the one before as its token.
PagesAfter(size) ==
  LET pages[k \in 0 .. Cardinality(DOMAIN table)] ==
        [after \in DOMAIN table |->
           LET page == GetRows(SortedRows, after, size)
           IN  IF k = 0 \/ page = <<>> THEN page ELSE page \o pages[k - 1][Last(page)]]
  IN  pages[Cardinality(DOMAIN table)]

\* Page after page of data_table.get_rows gives the rows of a table in their
\* order, each once, for every page size, if names are ordered as their texts:
\* they are sorted by FName::LexicalLess, which has Row_2 before Row_10, and
\* the token is compared as text (DataTableTools.cpp:248).
RowsPaged ==
  \A size \in 1 .. 2 :
    LET first == SubSeq(SortedRows, 1, IF Len(SortedRows) < size THEN Len(SortedRows) ELSE size)
    IN  (\A r, s \in DOMAIN table : r < s <=> RowPrinted[r] < RowPrinted[s])
          /\ first # <<>> => first \o PagesAfter(size)[Last(first)] = SortedRows
=============================================================================

------------------------------- MODULE Export -------------------------------
(***************************************************************************)
(* The export (export.py, and the stage's marks of pipeline.py): the rows  *)
(* of the table, flattened, as a parquet file, a CSV file or both.         *)
(* Parquet is written in chunks of Batch rows, each a table whose column   *)
(* types pyarrow infers from the values; the first chunk's are those of    *)
(* the file.                                                               *)
(*                                                                         *)
(* Of the columns there is one for each way of flattening: ips for the     *)
(* lists, tls_sans from the CT column or the TLS blob, asn for those taken *)
(* as they are.  Of a stored value the model keeps whether it is NULL,     *)
(* blank (an empty list) or has content, of a flattened one its type.      *)
(***************************************************************************)
EXTENDS Naturals, Sequences

CONSTANTS
  Batch,     \* rows a chunk
  MaxRows    \* bound: the length of the table

VARIABLES
  table,     \* the rows of domains, as stored
  fmt,       \* "parquet", "csv" or "both"
  status,    \* the stage's mark in meta
  phase,     \* "idle", "parquet", "csv", "done" or "raised"
  chunk,     \* rows read since the last flush
  schema,    \* the parquet writer's column types, or NoWriter
  written    \* per format: the rows in its file

vars == <<table, fmt, status, phase, chunk, schema, written>>

Row == [ips : {"null", "blank", "full"}, san : {"null", "blank", "full"},
        tls : {"null", "plain", "with sans"}, asn : {"null", "full"}]

NoWriter == [f \in {} |-> "null"]

(* _join: NULL stays NULL, an empty list is an empty string.               *)
Join(value) == IF value = "null" THEN "null" ELSE "string"

(* flatten_row: the CT column, unless it has nothing to join, hides the    *)
(* SANs of the TLS blob.                                                   *)
Flat(row) ==
  [ips      |-> Join(row.ips),
   tls_sans |-> IF row.san = "full" \/ row.tls = "with sans"
                THEN "string" ELSE "null",
   asn      |-> IF row.asn = "null" THEN "null" ELSE "int64"]

(* pa.table: each column has the type of the values in it, or that of      *)
(* nothing when all of them are NULL.                                      *)
TableSchema(rows) ==
  LET Kinds(f) == {Flat(rows[i])[f] : i \in DOMAIN rows} \ {"null"}
  IN [f \in {"ips", "tls_sans", "asn"} |->
        IF Kinds(f) = {} THEN "null" ELSE CHOOSE k \in Kinds(f) : TRUE]

Init ==
  /\ table \in UNION {[1..n -> Row] : n \in 0..MaxRows}
  /\ fmt \in {"parquet", "csv", "both"}
  /\ status = "none"
  /\ phase = "idle"
  /\ chunk = <<>>
  /\ schema = NoWriter
  /\ written = [w \in {"parquet", "csv"} |-> 0]

Begin ==
  /\ phase = "idle"
  /\ status' = "running"
  /\ phase' = IF fmt = "csv" THEN "csv" ELSE "parquet"
  /\ UNCHANGED <<table, fmt, chunk, schema, written>>

(* The cursor: the row that is read next, if there is one.                 *)
Cursor == written["parquet"] + Len(chunk) + 1

(* flush, with the chunk's types: the writer is opened with the first ones *)
(* and write_table takes no others - the exception closes the file, with   *)
(* the chunks it has, and ends the export.                                 *)
Flush(rows) ==
  IF schema = NoWriter \/ schema = TableSchema(rows)
  THEN /\ schema' = TableSchema(rows)
       /\ written' = [written EXCEPT !["parquet"] = @ + Len(rows)]
       /\ chunk' = <<>>
       /\ UNCHANGED phase
  ELSE /\ phase' = "raised"
       /\ chunk' = <<>>
       /\ UNCHANGED <<schema, written>>

(* A row is read; a full chunk is flushed.                                 *)
ReadRow ==
  /\ phase = "parquet"
  /\ Cursor <= Len(table)
  /\ LET rows == Append(chunk, table[Cursor])
     IN IF Len(rows) >= Batch THEN Flush(rows)
        ELSE chunk' = rows /\ UNCHANGED <<phase, schema, written>>
  /\ UNCHANGED <<table, fmt, status>>

(* The rows are over, the last chunk is flushed.                           *)
LastFlush ==
  /\ phase = "parquet"
  /\ Cursor > Len(table)
  /\ chunk # <<>>
  /\ Flush(chunk)
  /\ UNCHANGED <<table, fmt, status>>

(* The file is closed - an empty one if there was no row - and CSV's turn  *)
(* comes, or the end.                                                      *)
CloseParquet ==
  /\ phase = "parquet"
  /\ Cursor > Len(table)
  /\ chunk = <<>>
  /\ phase' = IF fmt = "both" THEN "csv" ELSE "done"
  /\ status' = IF fmt = "both" THEN status ELSE "done"
  /\ UNCHANGED <<table, fmt, chunk, schema, written>>

(* _write_csv, which takes whatever a row has.                             *)
WriteCsv ==
  /\ phase = "csv"
  /\ written' = [written EXCEPT !["csv"] = Len(table)]
  /\ phase' = "done"
  /\ status' = "done"
  /\ UNCHANGED <<table, fmt, chunk, schema>>

Ended == phase \in {"done", "raised"} /\ UNCHANGED vars

Next == Begin \/ ReadRow \/ LastFlush \/ CloseParquet \/ WriteCsv \/ Ended

Spec == Init /\ [][Next]_vars
-----------------------------------------------------------------------------
(* "Write the flattened table", "in chunks so a 2M-row table never has to  *)
(* live in memory at once" (export.py): when the export is over each file  *)
(* that was asked for has all rows, however they fall into chunks.         *)
AllRowsWritten ==
  phase \in {"done", "raised"} =>
    /\ fmt \in {"parquet", "both"} => written["parquet"] = Len(table)
    /\ fmt \in {"csv", "both"} => written["csv"] = Len(table)
=============================================================================

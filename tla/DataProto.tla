------------------------------ MODULE DataProto ------------------------------
(* Batches between the driver and its workers: how rows are split, padded,   *)
(* repeated and put together again (verl/protocol.py and the dispatch and    *)
(* collect functions of single_controller/base/decorator.py).                *)
(*                                                                           *)
(* A batch is a sequence of rows.  Parts and ranks are counted from 0, rows  *)
(* from 1.                                                                   *)
EXTENDS Integers, Sequences

Splits(rows, k) == Len(rows) % k = 0                \* chunk's assertion

(* Part i of the k equal parts of a batch.                                   *)
Chunk(rows, k, i) ==
    LET m == Len(rows) \div k
    IN  [j \in 1 .. m |-> rows[i * m + j]]

(* The parts 0 .. k - 1 one after the other.  They have one length: they are *)
(* made by Chunk, and every worker makes the same number of rows of each.    *)
Concat(parts, k) ==
    LET m == Len(parts[0])
    IN  [i \in 1 .. k * m |-> parts[(i - 1) \div m][((i - 1) % m) + 1]]

TileRows(rows, n) ==                                \* interleave=False
    [i \in 1 .. n * Len(rows) |-> rows[((i - 1) % Len(rows)) + 1]]

(* Every row n times, its copies next to each other (interleave=True).       *)
Repeat(rows, n) == [i \in 1 .. n * Len(rows) |-> rows[((i - 1) \div n) + 1]]

WholePadding(len, k) == k - (len % k)               \* also when none is missing

(* How many rows are missing for a split into k parts.                       *)
PadSize(len, k) == IF len % k = 0 THEN 0 ELSE k - (len % k)

(* pad_dataproto_to_divisor: the missing rows are the first ones again.      *)
PadWithFirst(rows, k) ==
    rows \o [i \in 1 .. PadSize(Len(rows), k) |-> rows[((i - 1) % Len(rows)) + 1]]

(* DataProto.padding, as the dispatch calls it: the last row, repeated.      *)
PadWithLast(rows, k) ==
    rows \o [i \in 1 .. PadSize(Len(rows), k) |-> rows[Len(rows)]]

(* The padding is cut off at the end, a row for each row added: also when    *)
(* every row has become several.                                             *)
Unpad(rows, size) == SubSeq(rows, 1, Len(rows) - size)

Reorder(rows, order) == [i \in 1 .. Len(rows) |-> rows[order[i]]]
==============================================================================

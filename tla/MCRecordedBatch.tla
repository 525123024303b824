--------------------------- MODULE MCRecordedBatch ---------------------------
(* Small programs for RecordedBatch: two buffers, one staging area.          *)
EXTENDS RecordedBatch, TLC

CONSTANTS x, y, s

Access(r, w) == [reads |-> r, writes |-> w]

(* A producer, a reader, a consumer and a kernel bound to nothing.           *)
BufferShapes ==
  {Access({}, {x}), Access({x}, {}), Access({x}, {y}), Access({}, {})}

(* The same with kernels that read or write the staging area itself          *)
(* (bind_operand).                                                           *)
AreaShapes == {Access({}, {x}), Access({x}, {s}), Access({s}, {y})}
=============================================================================

----------------------------- MODULE MCSqlWrite -----------------------------
(* Records of two days for TLC, and slices of up to three and one record.   *)
EXTENDS SqlWrite

CONSTANTS mon, tue

MCItem ==
  {[class |-> "nil", day |-> mon], [class |-> "graph", day |-> mon], [class |-> "graph", day |-> tue],
   [class |-> "mcp", day |-> mon], [class |-> "mcp", day |-> tue]}

MCLengths == <<3, 1>>
=============================================================================

---------------------------- MODULE MCMongoWrite ----------------------------
(* Records for TLC: with a batch limit of 4 and a document limit of 5, two  *)
(* records of size 2 fill a batch exactly and a record of size 6 is too     *)
(* large for either.                                                        *)
EXTENDS MongoWrite

CONSTANTS a, b

Rec(class, gone, size, org) == [class |-> class, gone |-> gone, size |-> size, org |-> org]

MCItem ==
  {Rec("nil", FALSE, 1, NoOrg), Rec("rest", TRUE, 1, a), Rec("rest", FALSE, 2, a),
   Rec("rest", FALSE, 3, b), Rec("rest", FALSE, 6, a), Rec("graph", FALSE, 2, a),
   Rec("mcp", FALSE, 2, a)}
=============================================================================

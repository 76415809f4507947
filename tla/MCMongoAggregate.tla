-------------------------- MODULE MCMongoAggregate --------------------------
(* Records of two organisations within two periods of two minutes, and one  *)
(* without organisation, for TLC.                                           *)
EXTENDS MongoAggregate

CONSTANTS a, b

Rec(org, time) == [org |-> org, time |-> time]

MCRecord == {Rec(a, 0), Rec(a, 2), Rec(b, 1), Rec(NoOrg, 0)}
MCLengths == <<2, 1>>
=============================================================================

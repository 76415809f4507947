------------------------------- MODULE MCSinks -------------------------------
(* Values for TLC: with a limit of 2 a record of size 1 fits twice and one  *)
(* of size 3 not at all; the classes a pump does not tell apart are left    *)
(* out of its slices.                                                       *)
EXTENDS Sinks

Val(class, size) == [class |-> class, size |-> size]

MCItem    == {Val("nil", 1), Val("bad", 1), Val("out", 1), Val("ok", 1), Val("ok", 3)}
MCLengths == <<3, 1>>
=============================================================================

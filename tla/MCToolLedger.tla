----------------------------- MODULE MCToolLedger -----------------------------
(* Instance of ToolLedger for TLC: calls of a tool that changes something, of *)
(* one that reads and is not in the catalog, and of one that is.              *)
EXTENDS ToolLedger

CONSTANTS w1, r1, s1

MCSafe == {s1}
MCRepeatable == {r1, s1}
MCMaxTries == [c \in Call |-> IF c = r1 THEN 2 ELSE 1]
MCCached == {r1}
MCMeaning == [c \in Call |-> c]
MCBatch == {<<w1, r1>>, <<s1, w1>>, <<w1>>}
=============================================================================

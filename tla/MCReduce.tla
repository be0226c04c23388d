------------------------------ MODULE MCReduce ------------------------------
(* Wto and Reduce for TLC: all graphs with few edges. *)
EXTENDS Reduce

AllEdges == Vertices \X Vertices
NoSelfLoops == {e \in Vertices \X Vertices : e[1] # e[2]}

\* No preference, as both callers of partition ask for, and one that separates
\* two pairs of vertices.
NoPreference == {[v \in Vertices |-> 0]}
Preferences == NoPreference \cup {[v \in Vertices |-> v \div 2]}
=============================================================================

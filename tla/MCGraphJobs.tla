----------------------------- MODULE MCGraphJobs -----------------------------
(* Instances of GraphJobs for the model checker. *)
EXTENDS GraphJobs

\* Every input: some vertices have a line, with any neighbours.
MCDirected == UNION {[D -> SUBSET Vertex] : D \in SUBSET Vertex}

\* The inputs in which every edge is there in both directions.
MCUndirected ==
  {g \in [Vertex -> SUBSET Vertex] :
     \A u \in Vertex : u \notin g[u] /\ \A v \in g[u] : u \in g[v]}
=============================================================================

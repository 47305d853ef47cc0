--------------------------- MODULE MCDepResolver ---------------------------
(***************************************************************************)
(* Small instances of DepResolver: the sets of dependency graphs.          *)
(***************************************************************************)
EXTENDS DepResolver, TLC
LOCAL INSTANCE FiniteSetsExt

(* The empty graph, to build the others from.                              *)
NoKeys == [k \in Key |-> {}]

(* The dependencies made of at most n edges.                               *)
PreWithEdges(n) ==
  {[k \in Key |-> {l \in Key : <<k, l>> \in E}] :
     E \in UNION {kSubset(m, Key \X Key) : m \in 0 .. n}}

Sound(G) == {g \in G : NoSelfRequest(g)}

(* Three nodes with one tag, every graph of up to four dependencies.       *)
MCPlainGraphs ==
  Sound({[pre |-> p, post |-> NoKeys, bad |-> {}, whole |-> {}] :
           p \in PreWithEdges(4)})

(* Two tags per node, up to two dependencies, at most one deferred request *)
(* and possibly a node handled as a whole.                                 *)
MCTagGraphs ==
  Sound({[pre |-> p, post |-> [NoKeys EXCEPT ![<<a, NTags>>] = P],
          bad |-> {}, whole |-> W] :
           a \in Node, p \in PreWithEdges(2),
           P \in {S \in SUBSET Key : Cardinality(S) <= 1},
           W \in {S \in SUBSET Node : Cardinality(S) <= 1}})

(* Up to two dependencies and one key with a semantic error.               *)
MCBadGraphs ==
  Sound({[pre |-> p, post |-> NoKeys, bad |-> {b}, whole |-> {}] :
           p \in PreWithEdges(2), b \in Key})

MCAllGraphs == MCTagGraphs \cup MCBadGraphs

Symmetry == Permutations(Node)
=============================================================================

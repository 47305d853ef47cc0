--------------------------- MODULE DepResolution ---------------------------
(***************************************************************************)
(* What the schema compiler expects from the dependency resolver of        *)
(* utils/dep_resolver.c, with no trace of how it goes about it: keys       *)
(* (a node and one of its tags) become resolved in an order that respects  *)
(* the dependencies, success means that everything asked for is resolved,  *)
(* and each of the two failures has a cause in the dependency graph.       *)
(***************************************************************************)
EXTENDS DepGraph

VARIABLES
  graph,     \* the dependencies, fixed by the schema
  wanted,    \* the keys somebody asked for in this session
  resolved,  \* the keys already resolved
  outcome,   \* "running", or the verdict of the session
  failed     \* an earlier session ended in a failure

vars == <<graph, wanted, resolved, outcome, failed>>

Init ==
  /\ graph \in Graphs
  /\ wanted = {}
  /\ resolved = {}
  /\ outcome = "running"
  /\ failed = FALSE

(* Someone needs more keys. *)
Ask ==
  /\ outcome = "running"
  /\ \E K \in SUBSET Key : wanted' = wanted \cup K
  /\ UNCHANGED <<graph, resolved, outcome, failed>>

(* Some tags of one node become resolved: every dependency is resolved     *)
(* before them.                                                            *)
ResolveKeys(K) ==
  /\ \A k, l \in K : k[1] = l[1]
  /\ K \cap graph.bad = {}
  /\ \A k \in K : /\ graph.pre[k] \subseteq resolved
                  /\ Needs(graph, k) \subseteq resolved \cup K
  /\ resolved' = resolved \cup K

(* The verdicts. After a failure in an earlier session, which leaves tags  *)
(* marked as being processed, "circular" is not trustworthy.               *)
Verdict(v) ==
  \/ v = "running"
  \/ v = "ok" /\ wanted \subseteq resolved'
  \/ v = "circular" /\ (failed \/ \E S \in SUBSET Key : IsTrap(graph, S))
  \/ v = "error" /\ graph.bad # {}

Resolve ==
  /\ outcome = "running"
  /\ \E K \in SUBSET Key : ResolveKeys(K)
  /\ \E v \in {"running", "ok", "circular", "error"} :
        Verdict(v) /\ outcome' = v
  /\ UNCHANGED <<graph, wanted, failed>>

(* The same nodes are handed to a new resolver.                            *)
Reopen ==
  /\ outcome # "running"
  /\ outcome' = "running"
  /\ wanted' = {}
  /\ failed' = (failed \/ outcome # "ok")
  /\ UNCHANGED <<graph, resolved>>

Next == Ask \/ Resolve \/ Reopen

Spec == Init /\ [][Next]_vars
=============================================================================

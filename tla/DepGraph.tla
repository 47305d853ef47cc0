------------------------------ MODULE DepGraph ------------------------------
(***************************************************************************)
(* The dependency graphs the resolver of utils/dep_resolver.c is run on.   *)
(* A node of the AST is compiled in stages, its tags: the tags of          *)
(* core/ast.h are NODE_TYPE, NODE_SPAN_SIZE and BROWSE_BACKENDS, numbered  *)
(* here in the order compile_node_once() goes through them.                *)
(***************************************************************************)
EXTENDS Naturals, FiniteSets

CONSTANTS
  Node,     \* the struct dep_resolver_node of a schema
  NTags,    \* how many tags a node has
  Graphs    \* the dependency graphs to consider

Tag == 1 .. NTags
Key == Node \X Tag

(* pre[k]: what must be resolved before k (tags_pre of the calls the       *)
(* callback makes for k); post[k]: what it also asks for, without waiting  *)
(* (tags_post); bad: the keys whose compilation reports a semantic error;  *)
(* whole: the nodes whose callback resolves all the tags it is asked for   *)
(* or none (compile_field_cb, compile_subscript_index_cb), when others go  *)
(* tag by tag (compile_node_once).                                         *)
Graph == [pre : [Key -> SUBSET Key], post : [Key -> SUBSET Key],
          bad : SUBSET Key, whole : SUBSET Node]

ASSUME NTagsAssumption == NTags \in Nat \ {0}

(* No callback asks for an earlier tag of its own node: compile_node_once  *)
(* has just gone through those.                                            *)
NoSelfRequest(g) ==
  \A k, l \in Key : k[1] = l[1] /\ l[2] < k[2] => l \notin g.pre[k]

ASSUME GraphsAssumption == Graphs \subseteq {g \in Graph : NoSelfRequest(g)}

(* What must be resolved before k: the dependencies its callback asks for, *)
(* and the earlier tags of its node when they are handled one by one.      *)
Needs(g, k) ==
  g.pre[k] \cup (IF k[1] \in g.whole
                 THEN {}
                 ELSE {<<k[1], t>> : t \in {u \in Tag : u < k[2]}})

(* What a request for k may end up waiting for: in a node handled as a     *)
(* whole, also the dependencies of the tags asked for along with it.       *)
WaitsFor(g, k) ==
  IF k[1] \in g.whole
  THEN UNION {g.pre[<<k[1], t>>] : t \in Tag}
  ELSE Needs(g, k)

(* A set of keys none of which can come first: in a finite graph, a        *)
(* non-empty one exists exactly when the graph has a cycle.                *)
IsTrap(g, S) == S # {} /\ \A k \in S : WaitsFor(g, k) \cap S # {}
=============================================================================

---------------------------- MODULE DepResolver ----------------------------
(***************************************************************************)
(* The dependency resolver of libbitpunch/src/utils/dep_resolver.c, with   *)
(* the callback of the schema compiler (libbitpunch/src/core/ast.c) that   *)
(* feeds it: dep_resolver_resolve() runs the first task of a list; the     *)
(* callback may put the dependencies it misses in front of that task       *)
(* (tags_pre) and further work at the end of the list (tags_post), all     *)
(* while the resolver is in the middle of running the task.                *)
(***************************************************************************)
EXTENDS DepGraph, Sequences

CONSTANTS
  MaxRoots,     \* bound: calls of dep_resolver_schedule_tags before resolve
  MaxSessions   \* bound: resolvers created one after the other

ASSUME BoundsAssumption == MaxRoots \in Nat /\ MaxSessions \in Nat

VARIABLES
  graph,       \* what the callbacks ask for; fixed by the schema
  processing,  \* the processing_tags of every node, as a set of keys
  resolved,    \* the resolved_tags of every node, as a set of keys
  tasks,       \* dr->tasks, a list of entries
  dep_chain,   \* dr->dep_chain, innermost first
  flags,       \* dr->flags, a subset of Flag
  pc,          \* "caller", "loop" or "callback" while running, then "done"
  cb,          \* the locals of the loop and of the callback (see Callback)
  ret,         \* what dep_resolver_resolve() returned
  args,        \* args[a]: how many times free_arg_f was called on a
  roots,       \* number of calls by the owner in this session
  session,     \* number of resolvers created so far
  wanted,      \* history: the keys scheduled in this session
  failed       \* history: an earlier session ended in a failure

nodeVars == <<processing, resolved>>
drVars == <<tasks, dep_chain, flags>>
ownerVars == <<roots, session, failed>>
vars == <<graph, processing, resolved, tasks, dep_chain, flags, pc, cb, ret,
          args, roots, session, wanted, failed>>

Flag == {"NEW_DEPS", "CIRCULAR_DEP", "ERROR"}
Status == {"OK", "AGAIN", "CIRCULAR_DEPENDENCY", "ERROR"}

(* struct dep_resolver_node_entry. Entries are told apart by their arg and *)
(* keep_arg_on_free: a call makes at most one entry with each of the two.  *)
Entry == [node : Node, tags : (SUBSET Tag) \ {{}}, arg : Nat,
          keep_arg_on_free : BOOLEAN]

(* The locals of one run of the callback: the entry and the tags it is run *)
(* for, the tag being compiled, and the requests already made for it.      *)
Callback == [entry : Entry, tags : (SUBSET Tag) \ {{}}, tag : Tag,
             asked : SUBSET Key, posted : SUBSET Key]

KeysOf(n, T) == {<<n, t>> : t \in T}

(* get_unresolved(). Mutant: takes tags being processed for resolved ones. *)
MutUnresolved(n, T) == {t \in T : <<n, t>> \notin resolved \cup processing}
Unresolved(n, T) == {t \in T : <<n, t>> \notin resolved}

(* any_is_processing(). Mutant: takes tags that have a task for tags that  *)
(* are being processed.                                                    *)
MutAnyIsProcessing(n, T) ==
  \E i \in DOMAIN tasks : tasks[i].node = n /\ tasks[i].tags \cap T # {}
AnyIsProcessing(n, T) == \E t \in T : <<n, t>> \in processing

(* set_processing(), clear_processing(). Mutant: forgets to clear.         *)
SetProcessing(n, T) == processing \cup KeysOf(n, T)
MutClearProcessing(n, T) == processing
ClearProcessing(n, T) == processing \ KeysOf(n, T)

(* dep_resolver_get_status(). Mutant: says nothing of new dependencies.    *)
MutStatusOf(fl) ==
  IF "ERROR" \in fl THEN "ERROR"
  ELSE IF "CIRCULAR_DEP" \in fl THEN "CIRCULAR_DEPENDENCY"
  ELSE "OK"
StatusOf(fl) ==
  IF "ERROR" \in fl THEN "ERROR"
  ELSE IF "CIRCULAR_DEP" \in fl THEN "CIRCULAR_DEPENDENCY"
  ELSE IF "NEW_DEPS" \in fl THEN "AGAIN"
  ELSE "OK"

FreshArg == Len(args) + 1

(* new_entry(). Mutant: the argument of a pre task is not kept.            *)
MutNewEntry(n, T, keep) ==
  [node |-> n, tags |-> T, arg |-> FreshArg, keep_arg_on_free |-> FALSE]
NewEntry(n, T, keep) ==
  [node |-> n, tags |-> T, arg |-> FreshArg, keep_arg_on_free |-> keep]
FreeArg(as, a) == [as EXCEPT ![a] = @ + 1]

(* The list with a task for the deferred tags at its end. Mutant: such     *)
(* tags are forgotten.                                                     *)
MutWithPost(n, post) == tasks
WithPost(n, post) ==
  IF post = {} THEN tasks ELSE Append(tasks, NewEntry(n, post, FALSE))

(* dep_resolver_schedule_tags(): tags_post go to the end of the list,      *)
(* tags_pre to its front, and a pre tag that is being processed further    *)
(* down the chain means that the dependencies loop.                        *)
ScheduleTags(n, tags_pre, tags_post) ==
  LET pre == Unresolved(n, tags_pre)
      post == Unresolved(n, tags_post)
      entry == NewEntry(n, pre, post # {})
      circular == AnyIsProcessing(n, pre)
  IN
  /\ wanted' = wanted \cup KeysOf(n, tags_pre \cup tags_post)
  /\ IF pre = {}
     THEN /\ tasks' = WithPost(n, post)
          /\ args' = Append(args, IF post = {} THEN 1 ELSE 0)
          /\ UNCHANGED <<dep_chain, flags>>
     ELSE /\ tasks' = <<entry>> \o WithPost(n, post)
          /\ args' = Append(args, 0)
          /\ flags' = flags \cup {"NEW_DEPS"}
                            \cup (IF circular THEN {"CIRCULAR_DEP"} ELSE {})
          /\ dep_chain' = IF circular THEN <<entry>> \o dep_chain
                          ELSE dep_chain
-----------------------------------------------------------------------------
(* dep_resolver_create(), dep_resolver_node_init()                         *)
Init ==
  /\ graph \in Graphs
  /\ processing = {} /\ resolved = {}
  /\ tasks = <<>> /\ dep_chain = <<>> /\ flags = {}
  /\ pc = "caller" /\ cb = <<>> /\ ret = "OK"
  /\ args = <<>>
  /\ roots = 0 /\ session = 1
  /\ wanted = {} /\ failed = FALSE

(* The owner schedules what it wants compiled (compile_ast_node_all).      *)
ScheduleRoot(n, tags_pre, tags_post) ==
  /\ pc = "caller" /\ roots < MaxRoots
  /\ tags_pre \cup tags_post # {}
  /\ ScheduleTags(n, tags_pre, tags_post)
  /\ roots' = roots + 1
  /\ UNCHANGED <<graph, nodeVars, pc, cb, ret, session, failed>>

(* The owner calls dep_resolver_resolve().                                 *)
CallResolve ==
  /\ pc = "caller"
  /\ pc' = "loop"
  /\ UNCHANGED <<graph, nodeVars, drVars, cb, ret, args, ownerVars, wanted>>

(* The top of the loop of dep_resolver_resolve(): the first task leaves    *)
(* the chain if it is the one the chain was waiting in. Mutant: it stays.  *)
MutPopChain(e) == dep_chain
PopChain(e) ==
  IF dep_chain # <<>> /\ Head(dep_chain) = e THEN Tail(dep_chain) ELSE dep_chain

(* A task with nothing left to resolve is removed. Mutant: it is left in   *)
(* the list.                                                               *)
MutKeepTask(e) == UNCHANGED <<tasks, args>>
RemoveTask(e) ==
  /\ tasks' = Tail(tasks)
  /\ args' = IF e.keep_arg_on_free THEN args ELSE FreeArg(args, e.arg)

DropTask ==
  /\ pc = "loop" /\ tasks # <<>>
  /\ LET e == Head(tasks) IN
       /\ Unresolved(e.node, e.tags) = {}
       /\ dep_chain' = PopChain(e)
       /\ RemoveTask(e)
  /\ flags' = flags \ {"NEW_DEPS"}
  /\ UNCHANGED <<graph, nodeVars, pc, cb, ret, ownerVars, wanted>>

(* Otherwise its tags are marked as being processed and the callback runs. *)
StartTask ==
  /\ pc = "loop" /\ tasks # <<>>
  /\ LET e == Head(tasks)
         unresolved == Unresolved(e.node, e.tags) IN
       /\ unresolved # {}
       /\ dep_chain' = PopChain(e)
       /\ processing' = SetProcessing(e.node, unresolved)
       /\ cb' = [entry |-> e, tags |-> unresolved, tag |-> 1,
                 asked |-> {}, posted |-> {}]
  /\ flags' = flags \ {"NEW_DEPS"}
  /\ pc' = "callback"
  /\ UNCHANGED <<graph, resolved, tasks, ret, args, ownerVars, wanted>>

Finish ==
  /\ pc = "loop" /\ tasks = <<>>
  /\ pc' = "done" /\ ret' = "OK"
  /\ UNCHANGED <<graph, nodeVars, drVars, cb, args, ownerVars, wanted>>
-----------------------------------------------------------------------------
(* The callback: dep_resolver_cb() of core/ast.c. compile_node_once() goes *)
(* through the tags in order up to the highest one it is asked for, the    *)
(* callbacks of the nodes of graph.whole handle all of them together.      *)
PassKeys ==
  IF cb.entry.node \in graph.whole
  THEN KeysOf(cb.entry.node, cb.tags)
  ELSE {<<cb.entry.node, cb.tag>>}

PassPre == UNION {graph.pre[k] : k \in PassKeys}
PassPost == UNION {graph.post[k] : k \in PassKeys}

(* The callback asks for some of what this pass needs; it may go on asking *)
(* after a request that must wait, or return at once (CallbackReturn).     *)
CallbackSchedule(n, tags_pre, tags_post) ==
  /\ pc = "callback"
  /\ tags_pre \cup tags_post # {}
  /\ KeysOf(n, tags_pre) \subseteq PassPre \ cb.asked
  /\ KeysOf(n, tags_post) \subseteq PassPost \ cb.posted
  /\ ScheduleTags(n, tags_pre, tags_post)
  /\ cb' = [cb EXCEPT !.asked = @ \cup KeysOf(n, tags_pre),
                      !.posted = @ \cup KeysOf(n, tags_post)]
  /\ UNCHANGED <<graph, nodeVars, pc, ret, ownerVars>>

(* Everything was asked for, compile_continue() says that nothing must     *)
(* wait, and the node has no semantic error.                               *)
PassDone ==
  /\ cb.asked = PassPre /\ cb.posted = PassPost
  /\ StatusOf(flags) = "OK"
  /\ PassKeys \cap graph.bad = {}

(* Mutant: one pass too many.                                              *)
MutLastPass ==
  cb.entry.node \in graph.whole \/ \A t \in cb.tags : t < cb.tag
LastPass ==
  cb.entry.node \in graph.whole \/ \A t \in cb.tags : t <= cb.tag

CallbackNextTag ==
  /\ pc = "callback" /\ PassDone /\ ~LastPass
  /\ cb' = [cb EXCEPT !.tag = @ + 1, !.asked = {}, !.posted = {}]
  /\ UNCHANGED <<graph, nodeVars, drVars, pc, ret, args, ownerVars, wanted>>

(* The tags the callback returns: those whose pass was completed.  One     *)
(* error is left out, a field with a condition the items of which are not  *)
(* known (ast.c:1590): compile_field_cb() returns all the tags of it, and  *)
(* the block of the field meets the same error in a callback of its own    *)
(* (composite.c:186).  Mutant: all of them on every semantic error.        *)
MutReturnedTags ==
  IF PassDone \/ PassKeys \cap graph.bad # {} THEN cb.tags ELSE 1 .. (cb.tag - 1)
ReturnedTags ==
  IF cb.entry.node \in graph.whole
  THEN IF PassDone THEN cb.tags ELSE {}
  ELSE IF PassDone THEN 1 .. cb.tag ELSE 1 .. (cb.tag - 1)

CallbackMayReturn ==
  \/ PassDone /\ LastPass
  \/ StatusOf(flags) # "OK"
  \/ PassKeys \cap graph.bad # {}

(* No dependency was put in front of the task; all its tags are resolved.  *)
(* Mutant: the first task is not compared.                                 *)
MutStillFirst(e) == TRUE
StillFirst(e) == Head(tasks) = e
AllReturned == cb.tags \subseteq ReturnedTags

(* The rest of the loop body of dep_resolver_resolve(), once the callback  *)
(* returned: stop on a circular dependency; wait for the tasks put in      *)
(* front; stop on an error; or be done with the task.                      *)
StopOnCircular ==
  /\ "CIRCULAR_DEP" \in flags
  /\ pc' = "done" /\ ret' = "CIRCULAR_DEPENDENCY"
  /\ UNCHANGED <<tasks, dep_chain, flags, args, cb>>

WaitForNewDeps ==
  /\ "CIRCULAR_DEP" \notin flags /\ ~StillFirst(cb.entry)
  /\ dep_chain' = <<cb.entry>> \o dep_chain
  /\ pc' = "loop" /\ cb' = <<>>
  /\ UNCHANGED <<tasks, flags, args, ret>>

StopOnError ==
  /\ "CIRCULAR_DEP" \notin flags /\ StillFirst(cb.entry) /\ ~AllReturned
  /\ flags' = flags \cup {"ERROR"}
  /\ pc' = "done" /\ ret' = "ERROR"
  /\ UNCHANGED <<tasks, dep_chain, args, cb>>

CompleteTask ==
  /\ "CIRCULAR_DEP" \notin flags /\ StillFirst(cb.entry) /\ AllReturned
  /\ RemoveTask(cb.entry)
  /\ pc' = "loop" /\ cb' = <<>>
  /\ UNCHANGED <<dep_chain, flags, ret>>

CallbackReturn ==
  /\ pc = "callback" /\ CallbackMayReturn
  /\ resolved' = resolved \cup KeysOf(cb.entry.node, ReturnedTags)
  /\ processing' = ClearProcessing(cb.entry.node, ReturnedTags)
  /\ StopOnCircular \/ WaitForNewDeps \/ StopOnError \/ CompleteTask
  /\ UNCHANGED <<graph, ownerVars, wanted>>

(* dr->error_entry, once ret is "ERROR"                                    *)
ErrorEntry == cb.entry

(* dep_resolver_destroy(), then dep_resolver_create() on the same nodes:   *)
(* the tags of the nodes are not touched.                                  *)
NewSession ==
  /\ pc = "done" /\ session < MaxSessions
  /\ session' = session + 1
  /\ failed' = (failed \/ ret # "OK")
  /\ tasks' = <<>> /\ dep_chain' = <<>> /\ flags' = {} /\ args' = <<>>
  /\ pc' = "caller" /\ cb' = <<>> /\ ret' = "OK" /\ roots' = 0 /\ wanted' = {}
  /\ UNCHANGED <<graph, nodeVars>>

(* What dep_resolver_resolve() does until it returns.                      *)
Resolving ==
  \/ DropTask \/ StartTask \/ Finish \/ CallbackNextTag \/ CallbackReturn
  \/ \E n \in Node, T, U \in SUBSET Tag : CallbackSchedule(n, T, U)

Next ==
  \/ \E n \in Node, T, U \in SUBSET Tag : ScheduleRoot(n, T, U)
  \/ CallResolve
  \/ Resolving
  \/ NewSession

Spec == Init /\ [][Next]_vars

(* The loop and the callback are one function call: once entered, nothing  *)
(* keeps the program from taking its next step.                            *)
FairSpec == Spec /\ WF_vars(Resolving)
-----------------------------------------------------------------------------
TypeOK ==
  /\ graph \in Graph
  /\ processing \subseteq Key /\ resolved \subseteq Key
  /\ tasks \in Seq(Entry) /\ dep_chain \in Seq(Entry)
  /\ flags \subseteq Flag
  /\ pc \in {"caller", "loop", "callback", "done"}
  /\ cb \in Callback \cup {<<>>}
  /\ ret \in Status
  /\ args \in Seq(Nat)
  /\ roots \in Nat /\ session \in Nat
  /\ wanted \subseteq Key /\ failed \in BOOLEAN

Elements(s) == {s[i] : i \in DOMAIN s}

(* The keys of a task.                                                     *)
EntryKeys(e) == KeysOf(e.node, e.tags)

(* No resolved key came before something it needs: among any set of        *)
(* resolved keys one needs none of the others. In particular no cycle of   *)
(* the schema is ever compiled, whatever is asked and in whichever order.  *)
ResolvedInOrder ==
  /\ \A k \in resolved : Needs(graph, k) \subseteq resolved
  /\ \A S \in SUBSET resolved :
        S # {} => \E k \in S : Needs(graph, k) \cap S = {}

(* Nothing asked for is lost: what is not resolved yet has a task.         *)
NothingForgotten ==
  \A k \in wanted : k \in resolved \/ \E e \in Elements(tasks) : k \in EntryKeys(e)

(* What compile_continue() tells a callback is right: when the status is   *)
(* OK, everything asked for so far, in this pass and in the earlier ones,  *)
(* is resolved; and the tags it is run for are all that its task lacks.    *)
ContinueIsSafe ==
  pc = "callback" =>
    /\ StatusOf(flags) = "OK" => cb.asked \subseteq resolved
    /\ cb.entry.node \notin graph.whole =>
         \A t \in Tag : t < cb.tag => graph.pre[<<cb.entry.node, t>>] \subseteq resolved
    /\ EntryKeys(cb.entry) \subseteq resolved \cup KeysOf(cb.entry.node, cb.tags)

(* When dep_resolver_resolve() returns OK all that was asked for is        *)
(* resolved, and no task is left.                                          *)
OkMeansResolved ==
  pc = "done" /\ ret = "OK" => wanted \subseteq resolved /\ tasks = <<>>
(* While nothing loops, the tags marked as being processed are exactly the *)
(* unresolved tags of the tasks on the chain and of the running one: a tag *)
(* left marked would make any later request for it look circular.          *)
ProcessingIsChain ==
  pc \in {"loop", "callback"} /\ "CIRCULAR_DEP" \notin flags /\ ~failed =>
    processing =
      ((UNION {EntryKeys(e) : e \in Elements(dep_chain)}) \ resolved)
        \cup (IF pc = "callback" THEN KeysOf(cb.entry.node, cb.tags) ELSE {})

(* e was asked for by a waiting task w.                                    *)
AskedBy(e, w) ==
  EntryKeys(e) \subseteq UNION {graph.pre[k] : k \in KeysOf(w.node, Tag)}

(* The chain is the stack of a depth-first walk: it lists waiting tasks in *)
(* the order of the task list, and every task in front of a waiting one,   *)
(* up to the previous waiting one, is a dependency that one asked for.     *)
ChainIsStack ==
  "CIRCULAR_DEP" \notin flags =>
    LET Pos(e) == CHOOSE i \in DOMAIN tasks : tasks[i] = e
        stack == IF pc = "callback" THEN <<cb.entry>> \o dep_chain ELSE dep_chain
    IN
    /\ Elements(stack) \subseteq Elements(tasks)
    /\ \A i, j \in DOMAIN stack : i < j => Pos(stack[i]) < Pos(stack[j])
    /\ \A j \in DOMAIN stack : \A p \in DOMAIN tasks :
         /\ p < Pos(stack[j])
         /\ j > 1 => p >= Pos(stack[j - 1])
         => AskedBy(tasks[p], stack[j])

(* A circular dependency is reported only when the schema has one, unless  *)
(* an earlier session that failed left tags marked as being processed.     *)
CircularIsReal ==
  ret = "CIRCULAR_DEPENDENCY" /\ ~failed =>
    \E S \in SUBSET Key : IsTrap(graph, S)

(* A request's argument is freed once, and not while a task that still has *)
(* to pass it to the callback, or the error report, refers to it: a call   *)
(* with pre and post tags makes two tasks that share theirs.               *)
ArgLifetime ==
  /\ \A e \in Elements(tasks) : args[e.arg] = 0
  /\ \A a \in DOMAIN args : args[a] <= 1
  /\ pc = "done" /\ ret = "OK" => \A a \in DOMAIN args : args[a] = 1
  /\ pc = "done" /\ ret = "ERROR" => args[ErrorEntry.arg] = 0

(* The resolver always comes to a verdict.                                 *)
Termination == pc = "loop" ~> pc = "done"

(* The resolver implements DepResolution.                                  *)
outcome ==
  IF pc # "done" THEN "running"
  ELSE CASE ret = "OK" -> "ok"
         [] ret = "ERROR" -> "error"
         [] OTHER -> "circular"

Abstract == INSTANCE DepResolution
ImplementsDepResolution == Abstract!Spec
=============================================================================
